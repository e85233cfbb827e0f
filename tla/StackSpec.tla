------------------------------ MODULE StackSpec ------------------------------
(***************************************************************************)
(* What the instructions may do to the operand stack, whatever they        *)
(* compute: take at most three words off the top and put at most one back, *)
(* exchange the top with a word at most sixteen below it, or clear the     *)
(* stack.  A stack of Depth words takes no further word, and words taken   *)
(* off an empty stack are not counted.                                     *)
(***************************************************************************)
EXTENDS Integers, Sequences

CONSTANTS Word, Depth

VARIABLE stack          \* the live words, the top last

Init == stack = << >>

\* n words taken off.
Remove(n) == /\ n <= Len(stack)
             /\ stack' = SubSeq(stack, 1, Len(stack) - n)

\* n words taken off and one put on.
Replace(n) ==
    LET kept == Len(stack) - n
    IN  /\ n <= Len(stack) /\ kept < Depth
        /\ Len(stack') = kept + 1
        /\ SubSeq(stack', 1, kept) = SubSeq(stack, 1, kept)
        /\ stack'[kept + 1] \in Word

\* The top exchanged with the word n below it; a word below the last one is
\* no word of the stack, and the top then becomes some other word.
Exchange(n) ==
    LET top == Len(stack)
    IN  /\ top > 0 /\ n <= top
        /\ \/ /\ n < top
              /\ stack' = [stack EXCEPT ![top] = stack[top - n], ![top - n] = stack[top]]
           \/ /\ n = top
              /\ Len(stack') = top
              /\ SubSeq(stack', 1, top - 1) = SubSeq(stack, 1, top - 1)
              /\ stack'[top] \in Word

Clear == stack' = << >>

Next == \/ \E n \in 0..3 : Remove(n) \/ Replace(n)
        \/ \E n \in 1..16 : Exchange(n)
        \/ Clear

Spec == Init /\ [][Next]_stack
=============================================================================
