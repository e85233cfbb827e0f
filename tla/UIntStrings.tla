----------------------------- MODULE UIntStrings -----------------------------
(***************************************************************************)
(* The rest of uint256.c: division of half words, and numerals.            *)
(*                                                                         *)
(* A digit is its value.  (Singletons such as {q} in a CHOOSE make TLC     *)
(* evaluate q once.)                                                       *)
(***************************************************************************)
EXTENDS UInt256

\* The variables of divmod128 in front of its loop, shifted back by one when
\* the divisor is shifted too far; and a turn of the loop.
align128(l, r, diffBits) ==
    LET far == gt128(shiftl128(r, diffBits), l)
        Back(n) == IF far THEN shiftr128(n, 1) ELSE n
    IN  [ resDiv |-> Zero128, resMod |-> l,
          copyd |-> Back(shiftl128(r, diffBits)), adder |-> Back(shiftl128(One128, diffBits)) ]

step128(d) ==
    LET fits == gte128(d.resMod, d.copyd)
    IN  [ resDiv |-> IF fits THEN or128(d.resDiv, d.adder) ELSE d.resDiv,
          resMod |-> IF fits THEN minus128(d.resMod, d.copyd) ELSE d.resMod,
          copyd |-> shiftr128(d.copyd, 1), adder |-> shiftr128(d.adder, 1) ]

\* << *retDiv, *retMod >> for r # 0, after as many turns as it takes.
divmod128(l, r) ==
    IF gt128(r, l) THEN << Zero128, l >>
    ELSE LET turn[i \in 0..Bits128] ==
                 IF i = 0 THEN align128(l, r, bits128(l) - bits128(r))
                 ELSE CHOOSE e \in { step128(d) : d \in {turn[i - 1]} } : TRUE
             last == turn[CHOOSE i \in 0..Bits128 :
                            /\ ~gte128(turn[i].resMod, r)
                            /\ \A j \in 0..(i - 1) : gte128(turn[j].resMod, r)]
         IN  << last.resDiv, last.resMod >>

-----------------------------------------------------------------------------
(* Numerals.  q[i] are the quotient and the digit of turn i of the do loop *)
(* and n is the number of its turns; a turn is refused when offset, i - 1, *)
(* is above outLength - 1, which is unsigned.  The string is turned round  *)
(* and ended by a NUL at out[offset].                                      *)

U32Max == 2^30          \* stands for 2^32 - 1, longer than any numeral
ASSUME U32MaxAssumption == U32Max \in Nat /\ Bits256 <= U32Max
LastOffset(outLength) == IF outLength = 0 THEN U32Max ELSE outLength - 1

\* What is returned, the digits of the string and the place of the NUL.
Refused == [ok |-> FALSE, digits |-> << >>, nul |-> 0]

\* Mutant: the string is left as the loop wrote it.
Numeral_reversed(q, n, outLength) ==
    IF n - 1 > LastOffset(outLength) THEN Refused
    ELSE [ok |-> TRUE, digits |-> [i \in 1..n |-> q[i][2]], nul |-> n]

Numeral(q, n, outLength) ==
    IF n - 1 > LastOffset(outLength) THEN Refused
    ELSE [ok |-> TRUE, digits |-> [i \in 1..n |-> q[n + 1 - i][2]], nul |-> n]

tostring128(number, baseParam, outLength) ==
    IF baseParam < 2 \/ baseParam > 16 THEN Refused
    ELSE LET turn[i \in 0..Bits128] ==
                 IF i = 0 THEN << number, Zero128 >>
                 ELSE CHOOSE r \in { divmod128(p[1], << 0, baseParam >>) : p \in {turn[i - 1]} } : TRUE
             n == CHOOSE i \in 1..Bits128 :
                    zero128(turn[i][1]) /\ \A j \in 1..(i - 1) : ~zero128(turn[j][1])
         IN  Numeral([i \in 1..n |-> << turn[i][1], LOWER(turn[i][2]) >>], n, outLength)

tostring256(number, baseParam, outLength) ==
    IF baseParam < 2 \/ baseParam > 16 THEN Refused
    ELSE LET turn[i \in 0..Bits256] ==
                 IF i = 0 THEN << number, Zero256 >>
                 ELSE CHOOSE r \in { divmod256(p[1], << Zero128, << 0, baseParam >> >>)
                                     : p \in {turn[i - 1]} } : TRUE
             n == CHOOSE i \in 1..Bits256 :
                    zero256(turn[i][1]) /\ \A j \in 1..(i - 1) : ~zero256(turn[j][1])
         IN  Numeral([i \in 1..n |-> << turn[i][1], LOWER(LOWER(turn[i][2])) >>], n, outLength)
=============================================================================
