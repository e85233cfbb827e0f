---------------------------- MODULE ETimerProofs ----------------------------
(***************************************************************************)
(* The process kernel and the event timers, for every number of processes, *)
(* timers, queue slots and calls.                                          *)
(*                                                                         *)
(* First the types, that PROCESS_CURRENT() is the process that executes,   *)
(* and that the ring of events is a queue.  CurrentRuns is not inductive:  *)
(* when a call returns to a thread, process_current is what the call had   *)
(* saved.  The invariant says of the whole call stack that a frame above a *)
(* thread saves the process of that thread (Chain).  The types of the      *)
(* frames are needed because the loops keep cursors into both lists in     *)
(* them.                                                                   *)
(*                                                                         *)
(* Then the lists, and what depends on them: that they end, that no        *)
(* pending timer is lost, that no poll is lost and that an exited process  *)
(* leaves no timers behind.  A list is given by its head and a link of     *)
(* every element.  Its members are the least set that holds the head and   *)
(* is closed under the links, and links that go in no circle are those     *)
(* that lead down a rank: what the proofs need of insertion and removal    *)
(* follows from these two facts.                                           *)
(***************************************************************************)
EXTENDS ETimer, NumberLemmas, SequenceTheorems, FiniteSetTheorems

OrNull(S) == S \cup {NULL}
Datum == Proc \cup Timer \cup {NULL}
States == {"none", "running", "called"}

ThreadFrame == [fn : {"thread", "exit thread"}, p : Proc, ev : Ids, data : Datum]
PollFrame == [fn : {"do_poll"}, p : OrNull(Proc), at : {"visit", "next"}]
EventFrame == [fn : {"do_event"}, p : OrNull(Proc), ev : Ids, data : Datum,
               at : {"poll", "call", "next"}]
ExitFrame == [fn : {"exit_process"}, p : Proc, from : OrNull(Proc), q : OrNull(Proc),
              old : OrNull(Proc), at : {"tell", "told", "unlink"}]
SynchFrame == [fn : {"process_post_synch"}, caller : OrNull(Proc)]
ScanFrame == [fn : {"etimer"}, p : {etimer_process}, u : OrNull(Timer), t : OrNull(Timer)]
DropFrame == [fn : {"drop"}, p : {etimer_process}, gone : Datum, t : OrNull(Timer)]

Frame == ThreadFrame \cup PollFrame \cup EventFrame \cup ExitFrame \cup SynchFrame
         \cup ScanFrame \cup DropFrame

\* Frames of threads, and frames that restore process_current to p.
IsThread(f) == f.fn \in {"thread", "exit thread", "etimer", "drop"}
Saves(f, p) == \/ f.fn = "process_post_synch" /\ f.caller = p
               \/ f.fn = "exit_process" /\ f.old = p

Chain(s) == \A k \in 1..(Len(s) - 1) : IsThread(s[k]) => Saves(s[k + 1], s[k].p)

\* A stack with no thread on top, and one whose top may be the thread of c.
Free(s) == s \in Seq(Frame) /\ Chain(s) /\ (s # << >> => ~IsThread(s[Len(s)]))
Good(s, c) == /\ s \in Seq(Frame) /\ Chain(s)
              /\ s # << >> /\ IsThread(s[Len(s)]) => s[Len(s)].p = c

MainOK == main.at = "boot" => main.i \in Nat \ {0}

Inv == TypeOK /\ MainOK /\ Good(stack, process_current)

-----------------------------------------------------------------------------
(* The call stack.                                                         *)

\* A frame goes on a stack with no thread on top.
LEMMA PushFree ==
  ASSUME NEW s, NEW f \in Frame, NEW c, Free(s)
  PROVE  /\ ~IsThread(f) => Free(Append(s, f))
         /\ (IsThread(f) => f.p = c) => Good(Append(s, f), c)
<1> DEFINE a == Append(s, f)
<1>1. s \in Seq(Frame) /\ Len(s) \in Nat
  BY DEF Free
<1>2. a \in Seq(Frame) /\ Len(a) = Len(s) + 1 /\ a[Len(a)] = f /\ a # << >>
  BY <1>1
<1>3. \A k \in 1..Len(s) : a[k] = s[k]
  BY <1>1
<1>4. ASSUME NEW k \in 1..(Len(a) - 1), IsThread(a[k])
      PROVE  Saves(a[k + 1], a[k].p)
  <2>1. k \in 1..Len(s)
    BY <1>1, <1>2
  <2>2. k # Len(s)
    BY <1>1, <1>3, <1>4, <2>1 DEF Free
  <2>3. k \in 1..(Len(s) - 1) /\ k + 1 \in 1..Len(s)
    BY <1>1, <2>1, <2>2
  <2> QED BY <1>3, <1>4, <2>1, <2>3 DEF Free, Chain
<1>5. Chain(a)
  BY <1>4 DEF Chain
<1> QED BY <1>2, <1>5 DEF Free, Good

LEMMA FreeGood ==
  ASSUME NEW s, NEW c, Free(s)
  PROVE  Good(s, c)
BY DEF Free, Good

\* A call that saves process_current goes on any stack.
LEMMA PushSaving ==
  ASSUME NEW s, NEW c, NEW f \in Frame, Good(s, c), Saves(f, c), ~IsThread(f)
  PROVE  Free(Append(s, f))
<1> DEFINE a == Append(s, f)
<1>1. s \in Seq(Frame) /\ Len(s) \in Nat
  BY DEF Good
<1>2. a \in Seq(Frame) /\ Len(a) = Len(s) + 1 /\ a[Len(a)] = f /\ a # << >>
  BY <1>1
<1>3. \A k \in 1..Len(s) : a[k] = s[k]
  BY <1>1
<1>4. ASSUME NEW k \in 1..(Len(a) - 1), IsThread(a[k])
      PROVE  Saves(a[k + 1], a[k].p)
  <2>1. k \in 1..Len(s)
    BY <1>1, <1>2
  <2>2. CASE k = Len(s)
    <3>1. s # << >> /\ a[k] = s[Len(s)] /\ a[k + 1] = f
      BY <1>1, <1>2, <1>3, <2>1, <2>2
    <3> QED BY <1>4, <3>1 DEF Good
  <2>3. CASE k # Len(s)
    <3>1. k \in 1..(Len(s) - 1) /\ k + 1 \in 1..Len(s)
      BY <1>1, <2>1, <2>3
    <3> QED BY <1>3, <1>4, <2>1, <3>1 DEF Good, Chain
  <2> QED BY <2>2, <2>3
<1>5. Chain(a)
  BY <1>4 DEF Chain
<1> QED BY <1>2, <1>5 DEF Free

\* What is below the top.
LEMMA PopFacts ==
  ASSUME NEW s, NEW c, Good(s, c), s # << >>,
         NEW b, b = SubSeq(s, 1, Len(s) - 1)
  PROVE  /\ b \in Seq(Frame) /\ Chain(b) /\ s[Len(s)] \in Frame
         /\ b # << >> /\ IsThread(b[Len(b)]) => Saves(s[Len(s)], b[Len(b)].p)
<1>1. s \in Seq(Frame) /\ Len(s) \in Nat /\ Len(s) >= 1 /\ s[Len(s)] \in Frame
  BY DEF Good
<1>2. b \in Seq(Frame) /\ Len(b) = Len(s) - 1 /\ \A k \in 1..Len(b) : b[k] = s[k]
  <2>1. \A k \in 1..(Len(s) - 1) : s[k] \in Frame
    BY <1>1
  <2>2. /\ SubSeq(s, 1, Len(s) - 1) \in Seq(Frame)
        /\ Len(SubSeq(s, 1, Len(s) - 1)) = IF 1 <= Len(s) - 1 THEN (Len(s) - 1) - 1 + 1 ELSE 0
        /\ \A i \in 1..((Len(s) - 1) - 1 + 1) : SubSeq(s, 1, Len(s) - 1)[i] = s[1 + i - 1]
    <3>1. 1 \in Int /\ Len(s) - 1 \in Int
      BY <1>1
    <3> QED BY <2>1, <3>1, SubSeqProperties, SMT
  <2>3. /\ b \in Seq(Frame)
        /\ Len(b) = IF 1 <= Len(s) - 1 THEN (Len(s) - 1) - 1 + 1 ELSE 0
        /\ \A i \in 1..((Len(s) - 1) - 1 + 1) : b[i] = s[1 + i - 1]
    BY <2>2, Zenon
  <2>4. Len(b) = Len(s) - 1
    <3>1. \A m \in Nat : m >= 1 => (IF 1 <= m - 1 THEN (m - 1) - 1 + 1 ELSE 0) = m - 1
      OBVIOUS
    <3> QED BY <1>1, <2>3, <3>1, Zenon
  <2>5. ASSUME NEW k \in 1..Len(b)
        PROVE  b[k] = s[k]
    <3>1. k \in 1..((Len(s) - 1) - 1 + 1) /\ 1 + k - 1 = k
      BY <1>1, <2>4
    <3> QED BY <2>3, <3>1
  <2> QED BY <2>3, <2>4, <2>5
<1>3. \A k \in 1..Len(b) : b[k] = s[k]
  BY <1>2
<1>4. ASSUME NEW k \in 1..(Len(b) - 1), IsThread(b[k])
      PROVE  Saves(b[k + 1], b[k].p)
  <2>1. k \in 1..Len(b) /\ k + 1 \in 1..Len(b) /\ k \in 1..(Len(s) - 1)
    BY <1>1, <1>2
  <2> QED BY <1>3, <1>4, <2>1 DEF Good, Chain
<1>5. ASSUME b # << >>, IsThread(b[Len(b)])
      PROVE  Saves(s[Len(s)], b[Len(b)].p)
  <2>1. Len(b) \in 1..Len(b) /\ Len(b) \in 1..(Len(s) - 1) /\ Len(b) + 1 = Len(s)
    BY <1>1, <1>2, <1>5
  <2> QED BY <1>3, <1>5, <2>1 DEF Good, Chain
<1> QED BY <1>1, <1>2, <1>4, <1>5 DEF Chain

LEMMA PopFree ==
  ASSUME NEW s, NEW c, Good(s, c), s # << >>,
         s[Len(s)].fn \notin {"process_post_synch", "exit_process"}
  PROVE  Free(SubSeq(s, 1, Len(s) - 1))
BY PopFacts DEF Free, Saves

LEMMA PopSaved ==
  ASSUME NEW s, NEW c, NEW d, Good(s, c), s # << >>,
         \/ s[Len(s)].fn = "process_post_synch" /\ d = s[Len(s)].caller
         \/ s[Len(s)].fn = "exit_process" /\ d = s[Len(s)].old
  PROVE  Good(SubSeq(s, 1, Len(s) - 1), d)
BY PopFacts DEF Good, Saves

-----------------------------------------------------------------------------
(* The least distance of a set of timers is a number.                      *)

LEMMA MinIsMember ==
  ASSUME NEW S \in SUBSET Nat, S # {}
  PROVE  Min(S) \in S
<1> DEFINE R == OpToRel(<, Nat)
<1>1. \A x, y \in Nat : << y, x >> \in R <=> y < x
  BY DEF OpToRel
<1>2. IsWellFoundedOn(R, Nat)
  BY NatLessThanWellFounded, Zenon
<1> HIDE DEF R
<1>3. PICK x \in S : \A y \in S : ~(<< y, x >> \in R)
  BY <1>2, WFMin
<1>4. ASSUME NEW y \in S
      PROVE  x =< y
  <2>1. x \in Nat /\ y \in Nat
    OBVIOUS
  <2>2. ~(y < x)
    BY <1>1, <1>3, <2>1, Zenon
  <2> QED BY <2>1, <2>2
<1> QED BY <1>4 DEF Min

-----------------------------------------------------------------------------
(* The functions of process.c.                                             *)

KernelOK ==
    /\ process_list \in OrNull(Proc) /\ next \in [Proc -> OrNull(Proc)]
    /\ state \in [Proc -> States] /\ process_current \in OrNull(Proc)
PollOK == needspoll \subseteq Proc /\ poll_requested \in BOOLEAN
QueueOK == /\ events \in [0..(NUMEVENTS - 1) -> QueuedEvent]
           /\ fevent \in 0..(NUMEVENTS - 1) /\ nevents \in 0..NUMEVENTS
ListOK == /\ timerlist \in OrNull(Timer) /\ tnext \in [Timer -> OrNull(Timer)]
          /\ owner \in [Timer -> OrNull(Proc)]
TimeOK == /\ start \in [Timer -> Times] /\ interval \in [Timer -> Times]
          /\ next_expiration \in Times /\ clock \in Times /\ lag \in Nat /\ late \subseteq Timer

LEMMA InvParts ==
  Inv <=> KernelOK /\ PollOK /\ QueueOK /\ ListOK /\ TimeOK /\ MainOK
          /\ Good(stack, process_current)
BY DEF Inv, TypeOK, KernelOK, PollOK, QueueOK, ListOK, TimeOK, OrNull, States

LEMMA InvPartsPrime ==
  Inv' <=> KernelOK' /\ PollOK' /\ QueueOK' /\ ListOK' /\ TimeOK' /\ MainOK'
           /\ Good(stack', process_current')
BY DEF Inv, TypeOK, KernelOK, PollOK, QueueOK, ListOK, TimeOK, OrNull, States

LEMMA ThreadFrames ==
  ASSUME NEW p \in Proc, NEW ev \in Ids, NEW data \in Datum
  PROVE  /\ Thread(p, ev, data) \in Frame /\ IsThread(Thread(p, ev, data))
         /\ Thread(p, ev, data).p = p
         /\ ExitThread(p) \in Frame /\ IsThread(ExitThread(p)) /\ ExitThread(p).p = p
BY DEF Thread, ExitThread, Frame, ThreadFrame, IsThread, Ids, Datum

LEMMA CallProcess ==
  ASSUME KernelOK,
         NEW st \in [Proc -> States], NEW p \in Proc, NEW ev \in Ids, NEW data \in Datum,
         NEW frames, Free(frames), call_process(st, p, ev, data, frames)
  PROVE  /\ state' \in [Proc -> States] /\ process_current' \in OrNull(Proc)
         /\ Good(stack', process_current')
<1>1. CASE st[p] = "running"
  <2>1. /\ process_current' = p /\ state' = [st EXCEPT ![p] = "called"]
        /\ stack' = Append(frames, Thread(p, ev, data))
    BY <1>1 DEF call_process
  <2>2. Good(Append(frames, Thread(p, ev, data)), p)
    BY PushFree, ThreadFrames
  <2> QED BY <2>1, <2>2 DEF OrNull, States
<1>2. CASE st[p] # "running"
  <2>1. state' = st /\ stack' = frames /\ process_current' = process_current
    BY <1>2 DEF call_process
  <2> QED BY <2>1, FreeGood DEF KernelOK
<1> QED BY <1>1, <1>2

LEMMA Unlink ==
  ASSUME KernelOK, NEW p \in Proc, unlink(p)
  PROVE  process_list' \in OrNull(Proc) /\ next' \in [Proc -> OrNull(Proc)]
BY DEF KernelOK, unlink

LEMMA ExitProcess ==
  ASSUME KernelOK, NEW p \in Proc, NEW from \in OrNull(Proc), NEW frames,
         Good(frames, process_current), exit_process(p, from, frames)
  PROVE  KernelOK' /\ Good(stack', process_current')
<1>1. CASE p \notin Listed
  BY <1>1 DEF exit_process, KernelOK, listVars
<1>2. CASE p \in Listed /\ state[p] # "none"
  <2> DEFINE f == Exiting(p, from, process_list, process_current, "tell")
  <2>1. f \in Frame /\ Saves(f, process_current) /\ ~IsThread(f)
    BY DEF Exiting, Frame, ExitFrame, Saves, IsThread, KernelOK
  <2>2. /\ state' = [state EXCEPT ![p] = "none"] /\ stack' = Append(frames, f)
        /\ UNCHANGED << process_list, next, process_current >>
    BY <1>2 DEF exit_process, listVars
  <2> HIDE DEF f
  <2>3. Good(Append(frames, f), process_current)
    BY <2>1, PushSaving, FreeGood
  <2> QED BY <2>2, <2>3 DEF KernelOK, States
<1>3. CASE p \in Listed /\ state[p] = "none"
  BY <1>3, Unlink DEF exit_process, KernelOK
<1> QED BY <1>1, <1>2, <1>3

LEMMA ProcessStart ==
  ASSUME KernelOK, NEW p \in Proc, NEW frames,
         Good(frames, process_current), process_start(p, frames)
  PROVE  KernelOK' /\ Good(stack', process_current')
<1>1. CASE p \in Listed
  BY <1>1 DEF process_start, KernelOK, listVars
<1>2. CASE p \notin Listed
  <2> DEFINE f == Synch(process_current)
             st == [state EXCEPT ![p] = "running"]
  <2>1. f \in Frame /\ Saves(f, process_current) /\ ~IsThread(f)
    BY DEF Synch, Frame, SynchFrame, Saves, IsThread, KernelOK
  <2>2. /\ next' = [next EXCEPT ![p] = process_list] /\ process_list' = p
        /\ call_process(st, p, "init", NULL, Append(frames, f))
    BY <1>2 DEF process_start
  <2>3. st \in [Proc -> States] /\ "init" \in Ids /\ NULL \in Datum
    BY DEF KernelOK, States, Ids, Datum
  <2> HIDE DEF f, st
  <2>4. Free(Append(frames, f))
    BY <2>1, PushSaving
  <2>5. /\ state' \in [Proc -> States] /\ process_current' \in OrNull(Proc)
        /\ Good(stack', process_current')
    BY <2>2, <2>3, <2>4, CallProcess
  <2> QED BY <2>2, <2>5 DEF KernelOK, OrNull
<1> QED BY <1>1, <1>2

LEMMA ProcessPoll ==
  ASSUME PollOK, NEW p \in Proc, process_poll(p)
  PROVE  PollOK'
BY DEF PollOK, process_poll, pollVars

LEMMA ProcessPost ==
  ASSUME QueueOK, NEW p \in OrNull(Proc), NEW ev \in Ids, NEW data \in Datum,
         process_post(p, ev, data)
  PROVE  QueueOK'
<1>1. CASE Full
  BY <1>1 DEF process_post, QueueOK, queueVars
<1>2. CASE ~Full
  <2>1. [ev |-> ev, data |-> data, p |-> p] \in QueuedEvent
    BY DEF QueuedEvent, OrNull, Datum
  <2>2. nevents + 1 \in 0..NUMEVENTS
    BY <1>2, ProcessAssumption DEF QueueOK, Full
  <2> QED BY <1>2, <2>1, <2>2 DEF process_post, QueueOK
<1> QED BY <1>1, <1>2

-----------------------------------------------------------------------------
(* The top of the stack.                                                   *)

LEMMA FrameKinds ==
  ASSUME NEW f \in Frame
  PROVE  /\ f.fn \in {"thread", "exit thread"} => f \in ThreadFrame
         /\ f.fn = "do_poll" => f \in PollFrame
         /\ f.fn = "do_event" => f \in EventFrame
         /\ f.fn = "exit_process" => f \in ExitFrame
         /\ f.fn = "process_post_synch" => f \in SynchFrame
         /\ f.fn = "etimer" => f \in ScanFrame
         /\ f.fn = "drop" => f \in DropFrame
BY DEF Frame, ThreadFrame, PollFrame, EventFrame, ExitFrame, SynchFrame, ScanFrame, DropFrame

LEMMA TopIsFrame ==
  ASSUME Inv, stack # << >>
  PROVE  Top \in Frame
BY InvParts, PopFacts DEF Top

LEMMA TopThread ==
  ASSUME Inv, Executing("thread") \/ Executing("exit thread")
  PROVE  /\ Top \in ThreadFrame /\ Top.p \in Proc /\ Top.ev \in Ids /\ Top.data \in Datum
         /\ process_current = Top.p
         /\ Free(Below) /\ Good(stack, process_current)
<1>1. stack # << >> /\ Top.fn \in {"thread", "exit thread"}
  BY DEF Executing
<1>2. Top \in ThreadFrame
  BY <1>1, TopIsFrame, FrameKinds
<1>3. Good(stack, process_current)
  BY InvParts
<1>4. Free(Below)
  BY <1>1, <1>3, PopFree DEF Top, Below
<1>5. process_current = Top.p
  BY <1>1, <1>3 DEF Good, IsThread, Top
<1> QED BY <1>2, <1>3, <1>4, <1>5 DEF ThreadFrame

LEMMA TopLoop ==
  ASSUME Inv
  PROVE  /\ Executing("do_poll") => Top \in PollFrame /\ Free(Below)
         /\ Executing("do_event") => Top \in EventFrame /\ Free(Below)
         /\ Executing("etimer") => /\ Top \in ScanFrame /\ Free(Below)
                                   /\ process_current = etimer_process
         /\ Executing("drop") => /\ Top \in DropFrame /\ Free(Below)
                                 /\ process_current = etimer_process
<1>1. Good(stack, process_current)
  BY InvParts
<1>2. ASSUME stack # << >>, Top.fn \in {"do_poll", "do_event", "etimer", "drop"}
      PROVE  Top \in Frame /\ Free(Below)
  BY <1>1, <1>2, TopIsFrame, PopFree DEF Top, Below
<1>3. ASSUME stack # << >>, Top.fn \in {"etimer", "drop"}
      PROVE  process_current = Top.p
  BY <1>1, <1>3 DEF Good, IsThread, Top
<1> QED BY <1>2, <1>3, FrameKinds DEF Executing, ScanFrame, DropFrame

LEMMA TopSaved ==
  ASSUME Inv
  PROVE  /\ Executing("process_post_synch") => Top \in SynchFrame /\ Good(Below, Top.caller)
         /\ Executing("exit_process") => Top \in ExitFrame /\ Good(Below, Top.old)
<1>1. Good(stack, process_current)
  BY InvParts
<1>2. ASSUME Executing("process_post_synch")
      PROVE  Top \in SynchFrame /\ Good(Below, Top.caller)
  BY <1>1, <1>2, TopIsFrame, FrameKinds, PopSaved DEF Executing, Top, Below
<1>3. ASSUME Executing("exit_process")
      PROVE  Top \in ExitFrame /\ Good(Below, Top.old)
  BY <1>1, <1>3, TopIsFrame, FrameKinds, PopSaved DEF Executing, Top, Below
<1> QED BY <1>2, <1>3

-----------------------------------------------------------------------------
(* The steps of the kernel.                                                *)

\* What a step of the kernel has to keep.
KernelSafe == KernelOK' /\ PollOK' /\ QueueOK' /\ MainOK' /\ Good(stack', process_current')

LEMMA MainSteps ==
  ASSUME Inv, MainStart \/ MainStarted \/ MainLoop \/ MainSleep
  PROVE  KernelSafe
<1> USE InvParts
<1>1. CASE MainStart
  <2>1. main.i \in Nat \ {0} /\ main.i <= Len(AutoStart)
    BY <1>1 DEF MainStart, MainAt, MainOK
  <2>2. AutoStart[main.i] \in Proc
    BY <2>1, ProcessAssumption
  <2>3. Good(<< >>, process_current)
    BY <1>1 DEF MainStart, MainAt
  <2>4. KernelOK' /\ Good(stack', process_current')
    BY <1>1, <2>2, <2>3, ProcessStart DEF MainStart
  <2>5. MainOK'
    BY <1>1, <2>1 DEF MainStart, MainOK, Boot
  <2> QED
    BY <1>1, <2>4, <2>5 DEF KernelSafe, MainStart, PollOK, QueueOK, pollVars, queueVars
<1>2. CASE MainStarted \/ MainLoop \/ MainSleep
  <2>1. /\ UNCHANGED << listVars, state, pollVars, queueVars, process_current, stack >>
        /\ main'.at # "boot"
    BY <1>2 DEF MainStarted, MainLoop, MainSleep, At
  <2> QED BY <2>1 DEF KernelSafe, KernelOK, PollOK, QueueOK, MainOK, listVars, pollVars, queueVars
<1> QED BY <1>1, <1>2

LEMMA PollingPushed ==
  ASSUME Inv, NEW frames, Free(frames), StartPolling(frames)
  PROVE  Free(stack') /\ poll_requested' = FALSE
<1>1. process_list \in OrNull(Proc)
  BY InvParts DEF KernelOK
<1> DEFINE f == Polling(process_list, "visit")
<1>2. f \in Frame /\ ~IsThread(f)
  BY <1>1 DEF Polling, Frame, PollFrame, IsThread
<1> HIDE DEF f
<1>3. Free(Append(frames, f))
  BY <1>2, PushFree
<1> QED BY <1>3 DEF StartPolling, f

LEMMA RunPollsStep ==
  ASSUME Inv, RunPolls
  PROVE  KernelSafe
<1> USE InvParts
<1>1. Free(<< >>) /\ stack = << >>
  BY DEF RunPolls, MainAt, Good, Free
<1>2. Good(stack', process_current) /\ poll_requested' \in BOOLEAN
  <2>1. CASE poll_requested
    BY <1>1, <2>1, PollingPushed, FreeGood DEF RunPolls
  <2>2. CASE ~poll_requested
    BY <1>1, <2>2 DEF RunPolls, PollOK
  <2> QED BY <2>1, <2>2
<1>3. MainOK'
  BY DEF RunPolls, MainOK, At
<1>4. UNCHANGED << listVars, state, needspoll, queueVars, process_current >>
  BY DEF RunPolls
<1> QED BY <1>2, <1>3, <1>4 DEF KernelSafe, KernelOK, PollOK, QueueOK, listVars, queueVars

LEMMA RunEventStep ==
  ASSUME Inv, RunEvent
  PROVE  KernelSafe
<1> USE InvParts
<1>1. Free(<< >>) /\ stack = << >>
  BY DEF RunEvent, MainAt, Good, Free
<1>2. MainOK' /\ UNCHANGED << listVars, pollVars, events >>
  BY DEF RunEvent, MainOK, At
<1>3. CASE nevents = 0
  BY <1>2, <1>3 DEF RunEvent, KernelSafe, KernelOK, PollOK, QueueOK, listVars, pollVars
<1>4. CASE nevents # 0
  <2> DEFINE e == events[fevent]
             st == IF e.ev = "init" THEN [state EXCEPT ![e.p] = "running"] ELSE state
  <2>1. e \in QueuedEvent
    BY DEF QueueOK
  <2>2. e.ev \in Ids /\ e.data \in Datum /\ e.p \in OrNull(Proc)
    BY <2>1 DEF QueuedEvent, Datum, OrNull
  <2>3. /\ fevent' = (fevent + 1) % NUMEVENTS /\ nevents' = nevents - 1
        /\ IF e.p = NULL
           THEN /\ stack' = << Broadcast(process_list, e.ev, e.data, "poll") >>
                /\ UNCHANGED << state, process_current >>
           ELSE call_process(st, e.p, e.ev, e.data, << >>)
    BY <1>4 DEF RunEvent
  <2>4. QueueOK'
    BY <1>2, <1>4, <2>3, ProcessAssumption DEF QueueOK
  <2>5. CASE e.p = NULL
    <3> DEFINE f == Broadcast(process_list, e.ev, e.data, "poll")
    <3>1. f \in Frame /\ ~IsThread(f)
      BY <2>2 DEF Broadcast, Frame, EventFrame, IsThread, KernelOK
    <3>2. Free(Append(<< >>, f))
      BY <1>1, <3>1, PushFree
    <3>3. stack' = Append(<< >>, f)
      BY <2>3, <2>5
    <3>4. Good(stack', process_current)
      BY <3>2, <3>3, FreeGood
    <3> QED BY <1>2, <2>3, <2>4, <2>5, <3>4 DEF KernelSafe, KernelOK, PollOK, listVars, pollVars
  <2>6. CASE e.p # NULL
    <3>1. e.p \in Proc
      BY <2>2, <2>6 DEF OrNull
    <3>2. st \in [Proc -> States]
      BY DEF KernelOK, States
    <3>3. call_process(st, e.p, e.ev, e.data, << >>)
      BY <2>3, <2>6
    <3> HIDE DEF e, st
    <3>4. /\ state' \in [Proc -> States] /\ process_current' \in OrNull(Proc)
          /\ Good(stack', process_current')
      BY <1>1, <2>2, <3>1, <3>2, <3>3, CallProcess
    <3> QED BY <1>2, <2>4, <3>4 DEF KernelSafe, KernelOK, PollOK, listVars, pollVars
  <2> QED BY <2>5, <2>6
<1> QED BY <1>3, <1>4

LEMMA PollStepSafe ==
  ASSUME Inv, PollStep
  PROVE  KernelSafe
<1> USE InvParts
<1>1. Executing("do_poll")
  BY DEF PollStep
<1>2. Top.p \in OrNull(Proc) /\ Free(Below)
  BY <1>1, TopLoop DEF PollFrame
<1>3. UNCHANGED << listVars, poll_requested, queueVars, main >>
  BY DEF PollStep
<1>4. MainOK' /\ QueueOK'
  BY <1>3 DEF MainOK, QueueOK, queueVars
<1>5. CASE Top.p = NULL /\ Return /\ UNCHANGED << state, needspoll, process_current >>
  <2>1. Good(stack', process_current)
    BY <1>2, <1>5, FreeGood DEF Return
  <2> QED BY <1>3, <1>4, <1>5, <2>1 DEF KernelSafe, KernelOK, PollOK, listVars
<1>6. CASE /\ Top.p # NULL
           /\ needspoll' = needspoll \ {Top.p}
           /\ call_process([state EXCEPT ![Top.p] = "running"], Top.p, "poll", NULL,
                           Append(Below, Polling(Top.p, "next")))
  <2> DEFINE f == Polling(Top.p, "next")
             st == [state EXCEPT ![Top.p] = "running"]
  <2>1. f \in Frame /\ ~IsThread(f)
    BY <1>2 DEF Polling, Frame, PollFrame, IsThread
  <2>2. Free(Append(Below, f))
    BY <1>2, <2>1, PushFree
  <2>3. st \in [Proc -> States] /\ Top.p \in Proc /\ "poll" \in Ids /\ NULL \in Datum
    BY <1>2, <1>6 DEF KernelOK, States, OrNull, Ids, Datum
  <2>4. call_process(st, Top.p, "poll", NULL, Append(Below, f))
    BY <1>6
  <2> HIDE DEF f, st
  <2>5. /\ state' \in [Proc -> States] /\ process_current' \in OrNull(Proc)
        /\ Good(stack', process_current')
    BY <2>2, <2>3, <2>4, CallProcess
  <2> QED BY <1>3, <1>4, <1>6, <2>5 DEF KernelSafe, KernelOK, PollOK, listVars
<1>7. CASE /\ Top.p # NULL /\ Goto(Polling(next[Top.p], "visit"))
           /\ UNCHANGED << state, needspoll, process_current >>
  <2> DEFINE f == Polling(next[Top.p], "visit")
  <2>1. f \in Frame /\ ~IsThread(f)
    BY <1>2, <1>7 DEF Polling, Frame, PollFrame, IsThread, KernelOK, OrNull
  <2>2. Free(Append(Below, f))
    BY <1>2, <2>1, PushFree
  <2>3. Good(stack', process_current)
    BY <1>7, <2>2, FreeGood DEF Goto
  <2> QED BY <1>3, <1>4, <1>7, <2>3 DEF KernelSafe, KernelOK, PollOK, listVars
<1> QED BY <1>5, <1>6, <1>7 DEF PollStep

LEMMA BroadcastStepSafe ==
  ASSUME Inv, BroadcastStep
  PROVE  KernelSafe
<1> USE InvParts
<1> DEFINE Cursor(q, at) == Broadcast(q, Top.ev, Top.data, at)
<1>1. Executing("do_event")
  BY DEF BroadcastStep
<1>2. Top.p \in OrNull(Proc) /\ Top.ev \in Ids /\ Top.data \in Datum /\ Free(Below)
  BY <1>1, TopLoop DEF EventFrame
<1>3. UNCHANGED << listVars, needspoll, queueVars, main >>
  BY DEF BroadcastStep
<1>4. MainOK' /\ QueueOK'
  BY <1>3 DEF MainOK, QueueOK, queueVars
<1>5. ASSUME NEW q \in OrNull(Proc), NEW at \in {"poll", "call", "next"}
      PROVE  Free(Append(Below, Cursor(q, at)))
  <2> DEFINE f == Cursor(q, at)
  <2>1. f \in Frame /\ ~IsThread(f)
    BY <1>2 DEF Broadcast, Frame, EventFrame, IsThread
  <2> QED BY <1>2, <2>1, PushFree
<1>6. ASSUME Good(stack', process_current), poll_requested' \in BOOLEAN,
             UNCHANGED << state, process_current >>
      PROVE  KernelSafe
  BY <1>3, <1>4, <1>6 DEF KernelSafe, KernelOK, PollOK, listVars
<1>7. CASE Top.p = NULL /\ Return /\ UNCHANGED << state, poll_requested, process_current >>
  <2>1. Good(stack', process_current)
    BY <1>2, <1>7, FreeGood DEF Return
  <2> QED BY <1>6, <1>7, <2>1 DEF PollOK
<1>8. CASE /\ IF poll_requested
              THEN StartPolling(Append(Below, Cursor(Top.p, "call")))
              ELSE Goto(Cursor(Top.p, "call")) /\ UNCHANGED poll_requested
           /\ UNCHANGED << state, process_current >>
  <2>1. Free(Append(Below, Cursor(Top.p, "call")))
    BY <1>2, <1>5
  <2>2. CASE poll_requested
    <3>1. Free(stack') /\ poll_requested' = FALSE
      BY <1>8, <2>1, <2>2, PollingPushed
    <3> QED BY <1>6, <1>8, <3>1, FreeGood
  <2>3. CASE ~poll_requested
    <3>1. stack' = Append(Below, Cursor(Top.p, "call")) /\ poll_requested' = poll_requested
      BY <1>8, <2>3 DEF Goto
    <3> QED BY <1>6, <1>8, <2>1, <3>1, FreeGood DEF PollOK
  <2> QED BY <2>2, <2>3
<1>9. CASE /\ Top.p # NULL
           /\ call_process(state, Top.p, Top.ev, Top.data, Append(Below, Cursor(Top.p, "next")))
           /\ UNCHANGED poll_requested
  <2>1. Free(Append(Below, Cursor(Top.p, "next")))
    BY <1>2, <1>5
  <2>2. Top.p \in Proc /\ state \in [Proc -> States] /\ KernelOK
    BY <1>2, <1>9 DEF OrNull, KernelOK
  <2> HIDE DEF Cursor
  <2>3. /\ state' \in [Proc -> States] /\ process_current' \in OrNull(Proc)
        /\ Good(stack', process_current')
    BY <1>2, <1>9, <2>1, <2>2, CallProcess
  <2> QED BY <1>3, <1>4, <1>9, <2>3 DEF KernelSafe, KernelOK, PollOK, listVars
<1>10. CASE /\ Top.p # NULL /\ Goto(Cursor(next[Top.p], "poll"))
            /\ UNCHANGED << state, poll_requested, process_current >>
  <2>1. next[Top.p] \in OrNull(Proc)
    BY <1>2, <1>10 DEF OrNull, KernelOK
  <2>2. Good(stack', process_current)
    BY <1>5, <1>10, <2>1, FreeGood DEF Goto
  <2> QED BY <1>6, <1>10, <2>2 DEF PollOK
<1> QED BY <1>7, <1>8, <1>9, <1>10 DEF BroadcastStep

\* The frame of exit_process is replaced by one that saves the same process.
LEMMA ExitCursor ==
  ASSUME Inv, Executing("exit_process"),
         NEW q \in OrNull(Proc), NEW at \in {"tell", "told", "unlink"}
  PROVE  /\ Free(Append(Below, Exiting(Top.p, Top.from, q, Top.old, at)))
         /\ Top.p \in Proc /\ Top.from \in OrNull(Proc) /\ Top.q \in OrNull(Proc)
         /\ Top.old \in OrNull(Proc)
<1>1. Top \in ExitFrame /\ Good(Below, Top.old)
  BY TopSaved
<1> DEFINE f == Exiting(Top.p, Top.from, q, Top.old, at)
<1>2. f \in Frame /\ Saves(f, Top.old) /\ ~IsThread(f)
  BY <1>1 DEF Exiting, Frame, ExitFrame, Saves, IsThread
<1>3. Free(Append(Below, f))
  BY <1>1, <1>2, PushSaving
<1> QED BY <1>1, <1>3 DEF ExitFrame

LEMMA ExitTellsSafe ==
  ASSUME Inv, ExitTells
  PROVE  KernelSafe
<1> USE InvParts
<1> DEFINE Cursor(q, at) == Exiting(Top.p, Top.from, q, Top.old, at)
<1>1. Executing("exit_process") /\ Top.q # NULL
  BY DEF ExitTells
<1>2. UNCHANGED << listVars, pollVars, queueVars, main >>
  BY DEF ExitTells
<1>3. MainOK' /\ QueueOK' /\ PollOK'
  BY <1>2 DEF MainOK, QueueOK, PollOK, queueVars, pollVars
<1>4. Top.p \in Proc /\ Top.q \in Proc
  BY <1>1, ExitCursor DEF OrNull
<1>5. CASE call_process(state, Top.q, "exited", Top.p, Append(Below, Cursor(Top.q, "told")))
  <2>1. Free(Append(Below, Cursor(Top.q, "told")))
    BY <1>1, <1>4, ExitCursor DEF OrNull
  <2>2. state \in [Proc -> States] /\ KernelOK /\ "exited" \in Ids /\ Top.p \in Datum
    BY <1>4 DEF KernelOK, Ids, Datum
  <2> HIDE DEF Cursor
  <2>3. /\ state' \in [Proc -> States] /\ process_current' \in OrNull(Proc)
        /\ Good(stack', process_current')
    BY <1>4, <1>5, <2>1, <2>2, CallProcess
  <2> QED BY <1>2, <1>3, <2>3 DEF KernelSafe, KernelOK, listVars
<1>6. CASE Goto(Cursor(next[Top.q], "tell")) /\ UNCHANGED << state, process_current >>
  <2>1. next[Top.q] \in OrNull(Proc)
    BY <1>4 DEF KernelOK
  <2>2. Free(Append(Below, Cursor(next[Top.q], "tell")))
    BY <1>1, <2>1, ExitCursor
  <2>3. Good(stack', process_current)
    BY <1>6, <2>2, FreeGood DEF Goto
  <2> QED BY <1>2, <1>3, <1>6, <2>3 DEF KernelSafe, KernelOK, listVars
<1> QED BY <1>5, <1>6 DEF ExitTells

LEMMA ExitCallsSafe ==
  ASSUME Inv, ExitCalls
  PROVE  KernelSafe
<1> USE InvParts
<1> DEFINE last == Exiting(Top.p, Top.from, NULL, Top.old, "unlink")
<1>1. Executing("exit_process")
  BY DEF ExitCalls
<1>2. UNCHANGED << listVars, state, pollVars, queueVars, main >>
  BY DEF ExitCalls
<1>3. MainOK' /\ QueueOK' /\ PollOK'
  BY <1>2 DEF MainOK, QueueOK, PollOK, queueVars, pollVars
<1>4. Free(Append(Below, last)) /\ Top.p \in Proc
  BY <1>1, ExitCursor DEF OrNull
<1>5. CASE Top.p # Top.from
  <2>1. process_current' = Top.p /\ stack' = Append(Append(Below, last), ExitThread(Top.p))
    BY <1>5 DEF ExitCalls
  <2>2. ExitThread(Top.p) \in Frame /\ ExitThread(Top.p).p = Top.p
    BY <1>4, ThreadFrames DEF Ids, Datum
  <2>3. Good(Append(Append(Below, last), ExitThread(Top.p)), Top.p)
    BY <1>4, <2>2, PushFree
  <2>4. Good(stack', process_current') /\ process_current' \in OrNull(Proc)
    BY <1>4, <2>1, <2>3 DEF OrNull
  <2> QED BY <1>2, <1>3, <2>4 DEF KernelSafe, KernelOK, listVars
<1>6. CASE Top.p = Top.from
  <2>1. stack' = Append(Below, last) /\ process_current' = process_current
    BY <1>6 DEF ExitCalls, Goto
  <2>2. Good(stack', process_current)
    BY <1>4, <2>1, FreeGood
  <2> QED BY <1>2, <1>3, <2>1, <2>2 DEF KernelSafe, KernelOK, listVars
<1> QED BY <1>5, <1>6

LEMMA ReturnsSafe ==
  ASSUME Inv, ExitUnlinks \/ SynchReturns \/ ExitThreadReturns
  PROVE  KernelSafe
<1> USE InvParts
<1>1. UNCHANGED << pollVars, queueVars, main >>
  BY DEF ExitUnlinks, SynchReturns, ExitThreadReturns
<1>2. MainOK' /\ QueueOK' /\ PollOK'
  BY <1>1 DEF MainOK, QueueOK, PollOK, queueVars, pollVars
<1>3. CASE ExitUnlinks
  <2>1. Executing("exit_process") /\ unlink(Top.p) /\ process_current' = Top.old
        /\ stack' = Below /\ UNCHANGED state
    BY <1>3 DEF ExitUnlinks, Return
  <2>2. Top \in ExitFrame /\ Good(Below, Top.old)
    BY <2>1, TopSaved
  <2>3. Top.p \in Proc /\ Top.old \in OrNull(Proc)
    BY <2>2 DEF ExitFrame
  <2>4. process_list' \in OrNull(Proc) /\ next' \in [Proc -> OrNull(Proc)]
    BY <2>1, <2>3, Unlink
  <2> QED BY <1>2, <2>1, <2>2, <2>3, <2>4 DEF KernelSafe, KernelOK
<1>4. CASE SynchReturns
  <2>1. Executing("process_post_synch") /\ process_current' = Top.caller
        /\ stack' = Below /\ UNCHANGED << listVars, state >>
    BY <1>4 DEF SynchReturns, Return
  <2>2. Top \in SynchFrame /\ Good(Below, Top.caller)
    BY <2>1, TopSaved
  <2>3. Top.caller \in OrNull(Proc)
    BY <2>2 DEF SynchFrame
  <2> QED BY <1>2, <2>1, <2>2, <2>3 DEF KernelSafe, KernelOK, listVars
<1>5. CASE ExitThreadReturns
  <2>1. Executing("exit thread") /\ stack' = Below
        /\ UNCHANGED << listVars, state, process_current >>
    BY <1>5 DEF ExitThreadReturns, Return
  <2>2. Good(Below, process_current)
    BY <2>1, TopThread, FreeGood
  <2> QED BY <1>2, <2>1, <2>2 DEF KernelSafe, KernelOK, listVars
<1> QED BY <1>3, <1>4, <1>5

LEMMA ThreadReturnsSafe ==
  ASSUME Inv, ThreadReturns(App)
  PROVE  KernelSafe
<1> USE InvParts
<1>1. Top.p \in Proc /\ Free(Below) /\ Good(Below, process_current)
  BY TopThread, FreeGood DEF ThreadReturns
<1>2. UNCHANGED << pollVars, queueVars, main >>
  BY DEF ThreadReturns
<1>3. MainOK' /\ QueueOK' /\ PollOK'
  BY <1>2 DEF MainOK, QueueOK, PollOK, queueVars, pollVars
<1>4. CASE /\ state' = [state EXCEPT ![Top.p] = "running"] /\ Return
           /\ UNCHANGED << listVars, process_current >>
  BY <1>1, <1>3, <1>4 DEF KernelSafe, KernelOK, States, listVars, Return
<1>5. CASE exit_process(Top.p, Top.p, Below)
  <2>1. KernelOK' /\ Good(stack', process_current')
    BY <1>1, <1>5, ExitProcess DEF OrNull
  <2> QED BY <1>3, <2>1 DEF KernelSafe
<1> QED BY <1>4, <1>5 DEF ThreadReturns

LEMMA KernelStepSafe ==
  ASSUME Inv, KernelStep
  PROVE  KernelSafe
BY MainSteps, RunPollsStep, RunEventStep, PollStepSafe, BroadcastStepSafe, ExitTellsSafe,
   ExitCallsSafe, ReturnsSafe, ThreadReturnsSafe DEF KernelStep

\* The calls of a thread.
LEMMA CallingFacts ==
  ASSUME Inv, NEW kind, Calling(kind)
  PROVE  /\ MainOK' /\ Good(stack, process_current)
         /\ process_current \in Proc
BY InvParts, TopThread DEF Calling, MainOK

LEMMA AppIsProc == App \subseteq Proc
BY DEF Proc

LEMMA ThreadCallSafe ==
  ASSUME Inv, ThreadCall
  PROVE  KernelSafe
<1> USE InvParts, AppIsProc
<1>1. MainOK' /\ Good(stack, process_current) /\ process_current \in Proc
  BY CallingFacts DEF ThreadCall, CallPost, CallPostSynch, CallPoll, CallStart, CallExit
<1>2. CASE CallPost
  <2>1. QueueOK'
    <3>1. "msg" \in Ids /\ "exit" \in Ids /\ NULL \in Datum /\ NULL \in OrNull(Proc)
      BY DEF Ids, Datum, OrNull
    <3> QED BY <1>2, <3>1, ProcessPost DEF CallPost, OrNull
  <2>2. UNCHANGED << listVars, state, pollVars, process_current, stack >>
    BY <1>2 DEF CallPost
  <2> QED BY <1>1, <2>1, <2>2 DEF KernelSafe, KernelOK, PollOK, listVars, pollVars
<1>3. CASE CallPostSynch
  <2> DEFINE f == Synch(process_current)
  <2>1. PICK p \in App : call_process(state, p, "msg", NULL, Append(stack, f))
    BY <1>3 DEF CallPostSynch
  <2>2. UNCHANGED << listVars, pollVars, queueVars >>
    BY <1>3 DEF CallPostSynch
  <2>3. f \in Frame /\ Saves(f, process_current) /\ ~IsThread(f)
    BY DEF Synch, Frame, SynchFrame, Saves, IsThread, KernelOK
  <2> HIDE DEF f
  <2>4. Free(Append(stack, f))
    BY <1>1, <2>3, PushSaving
  <2>5. state \in [Proc -> States] /\ "msg" \in Ids /\ NULL \in Datum /\ KernelOK
    BY DEF KernelOK, Ids, Datum
  <2>6. /\ state' \in [Proc -> States] /\ process_current' \in OrNull(Proc)
        /\ Good(stack', process_current')
    BY <2>1, <2>4, <2>5, CallProcess
  <2> QED BY <1>1, <2>2, <2>6
          DEF KernelSafe, KernelOK, PollOK, QueueOK, listVars, pollVars, queueVars
<1>4. CASE CallPoll
  <2>1. PollOK'
    BY <1>4, ProcessPoll DEF CallPoll
  <2>2. UNCHANGED << listVars, state, queueVars, process_current, stack >>
    BY <1>4 DEF CallPoll
  <2> QED BY <1>1, <2>1, <2>2 DEF KernelSafe, KernelOK, QueueOK, listVars, queueVars
<1>5. CASE CallStart
  <2>1. KernelOK' /\ Good(stack', process_current')
    BY <1>1, <1>5, ProcessStart DEF CallStart
  <2> QED BY <1>1, <1>5, <2>1 DEF CallStart, KernelSafe, PollOK, QueueOK, pollVars, queueVars
<1>6. CASE CallExit
  <2>1. KernelOK' /\ Good(stack', process_current')
    BY <1>1, <1>6, ExitProcess DEF CallExit, OrNull
  <2> QED BY <1>1, <1>6, <2>1 DEF CallExit, KernelSafe, PollOK, QueueOK, pollVars, queueVars
<1> QED BY <1>2, <1>3, <1>4, <1>5, <1>6 DEF ThreadCall

LEMMA PollInterruptSafe ==
  ASSUME Inv, PollInterrupt
  PROVE  KernelSafe
<1> USE InvParts, AppIsProc
<1>1. PollOK'
  BY ProcessPoll DEF PollInterrupt
<1>2. MainOK'
  BY DEF PollInterrupt, Wake, MainOK, At
<1>3. UNCHANGED << listVars, state, queueVars, process_current, stack >>
  BY DEF PollInterrupt
<1> QED BY <1>1, <1>2, <1>3 DEF KernelSafe, KernelOK, QueueOK, listVars, queueVars

-----------------------------------------------------------------------------
(* The steps of the timers.                                                *)

TimersSafe == ListOK' /\ TimeOK'

LEMMA PendingTimers == ListOK => Pending \subseteq Timer
BY DEF ListOK, Pending, Members

LEMMA UpdateTime ==
  ASSUME clock \in Times, NEW M \in SUBSET Timer, NEW st \in [Timer -> Times],
         NEW iv \in [Timer -> Times], update_time(M, st, iv)
  PROVE  next_expiration' \in Times
<1> DEFINE D == {Distance(st, iv, t) : t \in M}
<1>1. Period \in Nat \ {0} /\ \A x \in Int : x % Period \in Times
  BY ETimerAssumption DEF Times
<1>2. \A t \in M : Distance(st, iv, t) \in Nat
  <2> SUFFICES ASSUME NEW t \in M PROVE Distance(st, iv, t) \in Nat
    OBVIOUS
  <2>1. st[t] \in Int /\ iv[t] \in Int /\ clock \in Int
    BY DEF Times
  <2>2. st[t] + iv[t] - clock \in Int
    BY <2>1
  <2> QED BY <1>1, <2>2 DEF Distance, Times
<1>3. CASE M = {}
  BY <1>1, <1>3 DEF update_time, Times
<1>4. CASE M # {}
  <2>1. D \in SUBSET Nat /\ D # {}
    BY <1>2, <1>4
  <2>2. next_expiration' = (clock + Min(D)) % Period
    BY <1>4 DEF update_time
  <2> HIDE DEF D
  <2>3. Min(D) \in Nat
    BY <2>1, MinIsMember
  <2>4. clock + Min(D) \in Int
    BY <2>3 DEF Times
  <2> QED BY <1>1, <2>2, <2>4
<1> QED BY <1>3, <1>4

LEMMA YieldSafe ==
  ASSUME Inv, Yield, Free(Below), UNCHANGED << listVars, process_current >>
  PROVE  KernelOK' /\ Good(stack', process_current')
<1>1. etimer_process \in Proc
  BY ETimerAssumption DEF Proc
<1>2. Good(stack', process_current')
  BY FreeGood DEF Yield, Return
<1> QED BY <1>1, <1>2, InvParts DEF KernelOK, Yield, States, listVars

\* A loop of etimer_process goes on: its frame is that of the same thread.
LEMMA LoopSafe ==
  ASSUME Inv, NEW f \in Frame, IsThread(f), f.p = process_current, Free(Below), Goto(f),
         UNCHANGED << listVars, state, process_current >>
  PROVE  KernelOK' /\ Good(stack', process_current')
<1>1. Good(stack', process_current)
  BY PushFree DEF Goto
<1> QED BY <1>1, InvParts DEF KernelOK, listVars

\* The thread of etimer_process is the one that executes.
LEMMA ServiceTop ==
  ASSUME Inv, \/ Executing("thread") /\ Top.p = etimer_process
              \/ Executing("etimer") \/ Executing("drop")
  PROVE  Free(Below) /\ process_current = etimer_process
BY TopThread, TopLoop

LEMMA ServiceFrames ==
  ASSUME NEW t \in OrNull(Timer), NEW u \in OrNull(Timer), NEW gone \in Datum
  PROVE  /\ Scan(u, t) \in Frame /\ IsThread(Scan(u, t)) /\ Scan(u, t).p = etimer_process
         /\ Dropping(gone, t) \in Frame /\ IsThread(Dropping(gone, t))
         /\ Dropping(gone, t).p = etimer_process
BY DEF Scan, Dropping, Frame, ScanFrame, DropFrame, IsThread

\* Steps of etimer_process that leave the timers, or only links of their list.
LEMMA ServiceStepSafe ==
  ASSUME Inv, Start \/ DropExited \/ DropHead \/ DropNext \/ OtherEvent \/ Polled \/ ScanEnd
  PROVE  Inv'
<1> USE InvParts
<1>1. Free(Below) /\ process_current = etimer_process
  BY ServiceTop DEF Start, DropExited, DropHead, DropNext, OtherEvent, Polled, ScanEnd,
                    ServiceCalled
<1>2. UNCHANGED << listVars, pollVars, queueVars, process_current, main >>
  BY DEF Start, DropExited, DropHead, DropNext, OtherEvent, Polled, ScanEnd
<1>3. PollOK' /\ QueueOK' /\ MainOK'
  BY <1>2 DEF PollOK, QueueOK, MainOK, pollVars, queueVars
<1>4. ASSUME KernelOK', Good(stack', process_current'), ListOK', TimeOK'
      PROVE  Inv'
  BY <1>3, <1>4, InvPartsPrime
<1>5. ASSUME Yield
      PROVE  KernelOK' /\ Good(stack', process_current')
  BY <1>1, <1>2, <1>5, YieldSafe
<1>6. CASE Start
  <2>1. ListOK' /\ TimeOK'
    BY <1>6 DEF Start, ListOK, TimeOK, OrNull, timeVars
  <2> QED BY <1>4, <1>5, <1>6, <2>1 DEF Start
<1>7. CASE OtherEvent \/ ScanEnd
  <2>1. Yield /\ UNCHANGED timerVars
    BY <1>7 DEF OtherEvent, ScanEnd
  <2>2. ListOK' /\ TimeOK'
    BY <2>1 DEF ListOK, TimeOK, timerVars, tlistVars, timeVars
  <2> QED BY <1>4, <1>5, <2>1, <2>2
<1>8. CASE DropExited
  <2>1. Top.data \in Datum /\ NULL \in OrNull(Timer)
    BY <1>8, TopThread DEF DropExited, ServiceCalled, OrNull
  <2>2. KernelOK' /\ Good(stack', process_current')
    BY <1>1, <1>2, <1>8, <2>1, ServiceFrames, LoopSafe DEF DropExited
  <2>3. ListOK' /\ TimeOK'
    BY <1>8 DEF DropExited, ListOK, TimeOK, timerVars, tlistVars, timeVars
  <2> QED BY <1>4, <2>2, <2>3
<1>9. CASE Polled
  <2>1. timerlist \in OrNull(Timer) /\ NULL \in OrNull(Timer) /\ NULL \in Datum
    BY DEF ListOK, OrNull, Datum
  <2>2. KernelOK' /\ Good(stack', process_current')
    BY <1>1, <1>2, <1>9, <2>1, ServiceFrames, LoopSafe DEF Polled
  <2>3. ListOK' /\ TimeOK'
    BY <1>9 DEF Polled, ListOK, TimeOK, tlistVars, timeVars
  <2> QED BY <1>4, <2>2, <2>3
<1>10. CASE DropHead
  <2>1. Top.gone \in Datum /\ timerlist \in OrNull(Timer)
    BY <1>10, TopLoop DEF DropHead, DropFrame, ListOK
  <2>2. UNCHANGED << tnext, owner, timeVars, next_expiration, clock, lag, late >>
    BY <1>10 DEF DropHead
  <2>3. TimeOK'
    BY <2>2 DEF TimeOK, timeVars
  <2>4. ASSUME UNCHANGED << state, stack >>
        PROVE  KernelOK' /\ Good(stack', process_current')
    BY <1>2, <2>4 DEF KernelOK, listVars
  <2>5. CASE timerlist = NULL /\ Yield /\ UNCHANGED timerlist
    BY <1>4, <1>5, <2>2, <2>3, <2>5 DEF ListOK
  <2>6. CASE timerlist # NULL /\ timerlist' = tnext[timerlist] /\ UNCHANGED << state, stack >>
    BY <1>4, <2>1, <2>2, <2>3, <2>4, <2>6 DEF ListOK, OrNull
  <2>7. CASE Goto(Dropping(Top.gone, timerlist)) /\ UNCHANGED << state, timerlist >>
    <3>1. KernelOK' /\ Good(stack', process_current')
      BY <1>1, <1>2, <2>1, <2>7, ServiceFrames, LoopSafe
    <3> QED BY <1>4, <2>2, <2>3, <2>7, <3>1 DEF ListOK
  <2> QED BY <1>10, <2>5, <2>6, <2>7 DEF DropHead
<1>11. CASE DropNext
  <2> DEFINE n == tnext[Top.t]
  <2>1. Top.gone \in Datum /\ Top.t \in Timer /\ n \in OrNull(Timer)
    BY <1>11, TopLoop DEF DropNext, DropFrame, ListOK, OrNull
  <2>2. UNCHANGED << timerlist, owner, timeVars, next_expiration, clock, lag, late >>
    BY <1>11 DEF DropNext
  <2>3. TimeOK'
    BY <2>2 DEF TimeOK, timeVars
  <2>4. ASSUME UNCHANGED << state, stack >>
        PROVE  KernelOK' /\ Good(stack', process_current')
    BY <1>2, <2>4 DEF KernelOK, listVars
  <2>5. CASE Yield /\ UNCHANGED tnext
    BY <1>4, <1>5, <2>2, <2>3, <2>5 DEF ListOK
  <2>6. CASE /\ n # NULL /\ tnext' = [tnext EXCEPT ![Top.t] = tnext[n]]
             /\ UNCHANGED << state, stack >>
    BY <1>4, <2>1, <2>2, <2>3, <2>4, <2>6 DEF ListOK, OrNull
  <2>7. CASE Goto(Dropping(Top.gone, n)) /\ UNCHANGED << state, tnext >>
    <3>1. KernelOK' /\ Good(stack', process_current')
      BY <1>1, <1>2, <2>1, <2>7, ServiceFrames, LoopSafe
    <3> QED BY <1>4, <2>2, <2>3, <2>7, <3>1 DEF ListOK
  <2> QED BY <1>11, <2>5, <2>6, <2>7 DEF DropNext
<1> QED BY <1>6, <1>7, <1>8, <1>9, <1>10, <1>11

LEMMA ExpireSafe ==
  ASSUME Inv, NEW t \in Timer, NEW u \in OrNull(Timer), Expire(t, u), Free(Below),
         process_current = etimer_process, UNCHANGED << listVars, state, process_current >>
  PROVE  /\ KernelOK' /\ PollOK' /\ QueueOK' /\ Good(stack', process_current')
         /\ ListOK' /\ next_expiration' \in Times
<1> USE InvParts
<1>1. QueueOK'
  <2>1. owner[t] \in OrNull(Proc) /\ "timer" \in Ids /\ t \in Datum
    BY DEF ListOK, Ids, Datum
  <2> QED BY <2>1, ProcessPost DEF Expire
<1>2. etimer_process \in Proc /\ NULL \in OrNull(Timer) /\ NULL \in Datum
  BY ETimerAssumption DEF Proc, OrNull, Datum
<1>3. tnext[t] \in OrNull(Timer) /\ t \in OrNull(Timer)
  BY DEF ListOK, OrNull
<1>4. CASE Full
  <2>1. PollOK'
    BY <1>2, <1>4, ProcessPoll DEF Expire
  <2>2. KernelOK' /\ Good(stack', process_current')
    BY <1>2, <1>3, <1>4, ServiceFrames, LoopSafe DEF Expire
  <2> QED BY <1>1, <1>4, <2>1, <2>2 DEF Expire, ListOK, TimeOK, tlistVars
<1>5. CASE ~Full
  <2>1. /\ owner' = [owner EXCEPT ![t] = NULL]
        /\ timerlist' = IF u = NULL THEN tnext[t] ELSE timerlist
        /\ tnext' = IF u = NULL THEN [tnext EXCEPT ![t] = NULL]
                    ELSE [tnext EXCEPT ![t] = NULL, ![u] = tnext[t]]
        /\ update_time(Pending \ {t}, start, interval)
        /\ Goto(Scan(NULL, timerlist'))
        /\ UNCHANGED pollVars
    BY <1>5 DEF Expire
  <2>2. timerlist' \in OrNull(Timer)
    BY <1>3, <2>1 DEF ListOK
  <2>3. tnext' \in [Timer -> OrNull(Timer)] /\ owner' \in [Timer -> OrNull(Proc)]
    BY <1>3, <2>1 DEF ListOK, OrNull
  <2>4. KernelOK' /\ Good(stack', process_current')
    BY <1>2, <2>1, <2>2, ServiceFrames, LoopSafe
  <2>5. next_expiration' \in Times
    BY <2>1, PendingTimers, UpdateTime DEF TimeOK
  <2> QED BY <1>1, <2>1, <2>2, <2>3, <2>4, <2>5 DEF PollOK, ListOK, pollVars
<1> QED BY <1>4, <1>5

LEMMA ScanTimerSafe ==
  ASSUME Inv, ScanTimer
  PROVE  Inv'
<1> USE InvParts
<1>1. Executing("etimer") /\ Top.t # NULL
  BY DEF ScanTimer
<1>2. /\ Free(Below) /\ process_current = etimer_process
      /\ Top.t \in Timer /\ Top.u \in OrNull(Timer)
  BY <1>1, TopLoop DEF ScanFrame, OrNull
<1>3. UNCHANGED << listVars, state, process_current, main, timeVars, clock, lag, late >>
  BY DEF ScanTimer
<1>4. MainOK'
  BY <1>3 DEF MainOK
<1>5. CASE Expire(Top.t, Top.u)
  <2>1. /\ KernelOK' /\ PollOK' /\ QueueOK' /\ Good(stack', process_current')
        /\ ListOK' /\ next_expiration' \in Times
    BY <1>2, <1>3, <1>5, ExpireSafe
  <2>2. TimeOK'
    BY <1>3, <2>1 DEF TimeOK, timeVars
  <2> QED BY <1>4, <2>1, <2>2, InvPartsPrime
<1>6. CASE /\ Goto(Scan(Top.t, tnext[Top.t]))
           /\ UNCHANGED << queueVars, pollVars, tlistVars, next_expiration >>
  <2>1. tnext[Top.t] \in OrNull(Timer) /\ Top.t \in OrNull(Timer) /\ NULL \in Datum
    BY <1>2 DEF ListOK, OrNull, Datum
  <2>2. KernelOK' /\ Good(stack', process_current')
    BY <1>2, <1>3, <1>6, <2>1, ServiceFrames, LoopSafe
  <2>3. PollOK' /\ QueueOK' /\ ListOK' /\ TimeOK'
    BY <1>3, <1>6 DEF PollOK, QueueOK, ListOK, TimeOK, pollVars, queueVars, tlistVars, timeVars
  <2> QED BY <1>4, <2>2, <2>3, InvPartsPrime
<1> QED BY <1>5, <1>6 DEF ScanTimer

LEMMA AddTimerSafe ==
  ASSUME Inv, NEW t \in Timer, NEW st \in [Timer -> Times], NEW iv \in [Timer -> Times],
         add_timer(t, st, iv)
  PROVE  /\ PollOK' /\ ListOK'
         /\ start' = st /\ interval' = iv /\ next_expiration' \in Times /\ late' \subseteq Timer
<1> USE InvParts
<1>1. PollOK'
  <2>1. etimer_process \in Proc
    BY ETimerAssumption DEF Proc
  <2> QED BY <2>1, ProcessPoll DEF add_timer
<1>2. Pending \cup {t} \subseteq Timer
  BY PendingTimers
<1>3. next_expiration' \in Times
  BY <1>2, UpdateTime DEF add_timer, TimeOK
<1>4. ListOK'
  BY DEF add_timer, ListOK, OrNull, KernelOK
<1>5. late' \subseteq Timer
  BY DEF add_timer, TimeOK
<1> QED BY <1>1, <1>3, <1>4, <1>5 DEF add_timer

LEMMA ModTimes == \A x \in Int : x % Period \in Times
BY ETimerAssumption DEF Times

LEMMA CallTimerSafe ==
  ASSUME Inv, CallSet \/ CallReset \/ CallAdjust \/ CallStop
  PROVE  Inv'
<1> USE InvParts
<1>1. MainOK'
  BY CallingFacts DEF CallSet, CallReset, CallAdjust, CallStop
<1>2. UNCHANGED << listVars, state, queueVars, process_current, stack, clock, lag >>
  BY DEF CallSet, CallReset, CallAdjust, CallStop
<1>3. KernelOK' /\ QueueOK' /\ Good(stack', process_current')
  BY <1>2 DEF KernelOK, QueueOK, listVars, queueVars
<1>4. CASE CallSet \/ CallReset
  <2>1. PICK t \in Timer :
          \/ \E i \in Intervals : etimer_set(t, i) \/ etimer_reset_with_new_interval(t, i)
          \/ etimer_reset(t)
          \/ etimer_restart(t)
    BY <1>4 DEF CallSet, CallReset
  <2>2. /\ [start EXCEPT ![t] = clock] \in [Timer -> Times]
        /\ [start EXCEPT ![t] = (@ + interval[t]) % Period] \in [Timer -> Times]
        /\ interval \in [Timer -> Times]
    <3>1. start[t] + interval[t] \in Int
      BY DEF TimeOK, Times
    <3>2. (start[t] + interval[t]) % Period \in Times
      BY <3>1, ModTimes
    <3> QED BY <3>2 DEF TimeOK
  <2>3. ASSUME NEW i \in Intervals
        PROVE  [interval EXCEPT ![t] = i] \in [Timer -> Times]
    BY ETimerAssumption DEF TimeOK, Times
  <2>4. \E st \in [Timer -> Times], iv \in [Timer -> Times] : add_timer(t, st, iv)
    <3>1. CASE \E i \in Intervals : etimer_set(t, i)
      BY <2>2, <2>3, <3>1 DEF etimer_set
    <3>2. CASE \E i \in Intervals : etimer_reset_with_new_interval(t, i)
      BY <2>2, <2>3, <3>2 DEF etimer_reset_with_new_interval
    <3>3. CASE etimer_reset(t)
      BY <2>2, <3>3 DEF etimer_reset
    <3>4. CASE etimer_restart(t)
      BY <2>2, <3>4 DEF etimer_restart
    <3> QED BY <2>1, <3>1, <3>2, <3>3, <3>4
  <2>5. PICK st \in [Timer -> Times], iv \in [Timer -> Times] : add_timer(t, st, iv)
    BY <2>4
  <2>6. /\ PollOK' /\ ListOK'
        /\ start' = st /\ interval' = iv /\ next_expiration' \in Times /\ late' \subseteq Timer
    BY <2>5, AddTimerSafe
  <2>7. TimeOK'
    BY <1>2, <2>6 DEF TimeOK
  <2> QED BY <1>1, <1>3, <2>6, <2>7, InvPartsPrime
<1>5. CASE CallAdjust
  <2>1. PICK t \in Timer, d \in Shifts :
          /\ start' = [start EXCEPT ![t] = (@ + d) % Period]
          /\ update_time(Pending, start', interval)
    BY <1>5 DEF CallAdjust
  <2>2. start' \in [Timer -> Times]
    <3>1. start[t] + d \in Int
      BY ETimerAssumption DEF TimeOK, Times
    <3>2. (start[t] + d) % Period \in Times
      BY <3>1, ModTimes
    <3> QED BY <2>1, <3>2 DEF TimeOK
  <2>3. next_expiration' \in Times
    BY <2>1, <2>2, PendingTimers, UpdateTime DEF TimeOK
  <2>4. UNCHANGED << pollVars, tlistVars, interval, clock, lag, late >>
    BY <1>5 DEF CallAdjust
  <2>5. PollOK' /\ ListOK' /\ TimeOK'
    BY <2>2, <2>3, <2>4 DEF PollOK, ListOK, TimeOK, pollVars, tlistVars
  <2> QED BY <1>1, <1>3, <2>5, InvPartsPrime
<1>6. CASE CallStop
  <2>1. PICK t \in Timer : etimer_stop(t)
    BY <1>6 DEF CallStop
  <2>2. ListOK'
    BY <2>1 DEF etimer_stop, ListOK, OrNull
  <2>3. next_expiration' \in Times
    <3>1. CASE t \in Pending
      <4>1. Pending \ {t} \in SUBSET Timer
        BY PendingTimers
      <4> QED BY <2>1, <3>1, <4>1, UpdateTime DEF etimer_stop, TimeOK
    <3>2. CASE t \notin Pending
      BY <2>1, <3>2 DEF etimer_stop, TimeOK
    <3> QED BY <3>1, <3>2
  <2>4. UNCHANGED << pollVars, timeVars, clock, lag, late >>
    BY <1>6 DEF CallStop
  <2>5. PollOK' /\ TimeOK'
    BY <2>3, <2>4 DEF PollOK, TimeOK, pollVars, timeVars
  <2> QED BY <1>1, <1>3, <2>2, <2>5, InvPartsPrime
<1> QED BY <1>4, <1>5, <1>6

LEMMA ClockInterruptSafe ==
  ASSUME Inv, ClockInterrupt
  PROVE  Inv'
<1> USE InvParts
<1>1. PollOK'
  <2>1. etimer_process \in Proc
    BY ETimerAssumption DEF Proc
  <2> QED BY <2>1, ProcessPoll DEF ClockInterrupt, PollOK, pollVars
<1>2. MainOK'
  BY DEF ClockInterrupt, Wake, MainOK, At
<1>3. clock' \in Times /\ lag' \in Nat
  BY ModTimes DEF ClockInterrupt, TimeOK, Times
<1>4. UNCHANGED << listVars, state, queueVars, process_current, stack, tlistVars, timeVars,
                   next_expiration, late >>
  BY DEF ClockInterrupt
<1>5. KernelOK' /\ QueueOK' /\ Good(stack', process_current') /\ ListOK' /\ TimeOK'
  BY <1>3, <1>4 DEF KernelOK, QueueOK, ListOK, TimeOK, listVars, queueVars, tlistVars, timeVars
<1> QED BY <1>1, <1>2, <1>5, InvPartsPrime

-----------------------------------------------------------------------------
(* The invariant.                                                          *)

LEMMA InitInv == Init => Inv
<1> SUFFICES ASSUME Init PROVE Inv
  OBVIOUS
<1>1. KernelOK /\ PollOK /\ MainOK
  <2>1. KernelOK
    BY DEF Init, ProcessInit, KernelOK, OrNull, States
  <2>2. PollOK
    BY DEF Init, ProcessInit, PollOK
  <2>3. main.i = 1
    BY DEF Init, ProcessInit, Boot
  <2> QED BY <2>1, <2>2, <2>3 DEF MainOK
<1>2. QueueOK
  <2>1. NoEvent \in QueuedEvent
    BY DEF NoEvent, QueuedEvent, Ids
  <2> QED BY <2>1, ProcessAssumption DEF Init, ProcessInit, QueueOK
<1>3. ListOK /\ TimeOK
  BY ETimerAssumption DEF Init, ListOK, TimeOK, OrNull, Times
<1>4. Good(stack, process_current)
  BY DEF Init, ProcessInit, Good, Chain
<1> QED BY <1>1, <1>2, <1>3, <1>4, InvParts

LEMMA NextInv ==
  ASSUME Inv, Next
  PROVE  Inv'
<1>1. ASSUME KernelSafe, UNCHANGED timerVars
      PROVE  Inv'
  <2>1. ListOK' /\ TimeOK'
    BY <1>1, InvParts DEF ListOK, TimeOK, timerVars, tlistVars, timeVars
  <2> QED BY <1>1, <2>1, InvPartsPrime DEF KernelSafe
<1>2. CASE Processor
  BY <1>1, <1>2, KernelStepSafe, ServiceStepSafe, ScanTimerSafe DEF Processor
<1>3. CASE Application
  BY <1>1, <1>3, ThreadCallSafe, PollInterruptSafe, CallTimerSafe DEF Application
<1>4. CASE ClockInterrupt
  BY <1>4, ClockInterruptSafe
<1> QED BY <1>2, <1>3, <1>4 DEF Next

LEMMA StutterInv ==
  ASSUME Inv, UNCHANGED vars
  PROVE  Inv'
BY DEF Inv, TypeOK, MainOK, Good, vars, procVars, timerVars, listVars, pollVars, queueVars,
       tlistVars, timeVars

LEMMA InvAlways == Spec => []Inv
<1>1. Inv /\ [Next]_vars => Inv'
  BY NextInv, StutterInv
<1> QED BY <1>1, InitInv, PTL DEF Spec

\* The kernel and the timers never leave the types of their variables: cursors
\* and links point to processes and timers, the counters of the event ring stay
\* inside it, and times stay below the period of the clock.
THEOREM TypesCorrect == Spec => []TypeOK
<1>1. Inv => TypeOK
  BY DEF Inv
<1> QED BY <1>1, InvAlways, PTL

\* Whatever calls threads make of each other, to whatever depth: the process
\* whose thread executes is PROCESS_CURRENT().
THEOREM CurrentIsRunning == Spec => []CurrentRuns
<1>1. Inv => CurrentRuns
  BY TopThread DEF CurrentRuns
<1> QED BY <1>1, InvAlways, PTL

-----------------------------------------------------------------------------
(* The ring of events is a queue.                                          *)

\* Places of the ring.
LEMMA Ring ==
  ASSUME NEW N \in Nat \ {0}, NEW f \in 0..(N - 1), NEW k \in 0..(N - 1)
  PROVE  /\ (f + k) % N = IF f + k < N THEN f + k ELSE f + k - N
         /\ (f + k) % N \in 0..(N - 1)
<1>1. CASE f + k < N
  <2>1. f + k \in 0..(N - 1)
    BY <1>1
  <2>2. \A M \in Nat \ {0} : \A x \in 0..(M - 1) : x % M = x
    OBVIOUS
  <2> QED BY <1>1, <2>1, <2>2
<1>2. CASE ~(f + k < N)
  <2>1. f + k \in N..(2 * N - 1)
    BY <1>2
  <2>2. \A M \in Nat \ {0} : \A x \in M..(2 * M - 1) : x % M = x - M
    OBVIOUS
  <2> QED BY <1>2, <2>1, <2>2
<1> QED BY <1>1, <1>2

LEMMA RingApart ==
  ASSUME NEW N \in Nat \ {0}, NEW f \in 0..(N - 1), NEW k \in 0..(N - 1), NEW l \in 0..(N - 1),
         k # l
  PROVE  (f + k) % N \in 0..(N - 1) /\ (f + k) % N # (f + l) % N
<1>1. /\ (f + k) % N = IF f + k < N THEN f + k ELSE f + k - N
      /\ (f + l) % N = IF f + l < N THEN f + l ELSE f + l - N
  BY Ring
<1> QED BY <1>1

LEMMA RingAdvance ==
  ASSUME NEW N \in Nat \ {0}, NEW f \in 0..(N - 1), NEW k \in 0..(N - 1), k + 1 < N
  PROVE  (((f + 1) % N) + k) % N = (f + (k + 1)) % N
<1>1. /\ (f + 1) % N = IF f + 1 < N THEN f + 1 ELSE f + 1 - N
      /\ (f + (k + 1)) % N = IF f + (k + 1) < N THEN f + (k + 1) ELSE f + (k + 1) - N
  <2>1. 1 \in 0..(N - 1) /\ k + 1 \in 0..(N - 1)
    OBVIOUS
  <2> QED BY <2>1, Ring
<1>2. (f + 1) % N \in 0..(N - 1)
  BY <1>1
<1> DEFINE g == (f + 1) % N
<1>3. (g + k) % N = IF g + k < N THEN g + k ELSE g + k - N
  BY <1>2, Ring
<1> QED BY <1>1, <1>2, <1>3

LEMMA RingContent ==
  ASSUME NEW es \in [0..(NUMEVENTS - 1) -> QueuedEvent], NEW f \in 0..(NUMEVENTS - 1),
         NEW n \in 0..NUMEVENTS
  PROVE  LET q == [i \in 1..n |-> es[(f + i - 1) % NUMEVENTS]]
         IN  /\ q \in Seq(QueuedEvent) /\ Len(q) = n
             /\ \A i \in 1..n : q[i] = es[(f + (i - 1)) % NUMEVENTS]
<1> DEFINE q == [i \in 1..n |-> es[(f + i - 1) % NUMEVENTS]]
<1>1. ASSUME NEW i \in 1..n
      PROVE  /\ f + i - 1 = f + (i - 1)
             /\ es[(f + (i - 1)) % NUMEVENTS] \in QueuedEvent
  <2>1. i - 1 \in 0..(NUMEVENTS - 1) /\ NUMEVENTS \in Nat \ {0}
    BY ProcessAssumption
  <2>2. (f + (i - 1)) % NUMEVENTS \in 0..(NUMEVENTS - 1)
    BY <2>1, Ring
  <2> QED BY <2>1, <2>2
<1>2. n \in Nat
  BY ProcessAssumption
<1>3. q = [i \in 1..n |-> es[(f + (i - 1)) % NUMEVENTS]]
  BY <1>1
<1> QED BY <1>1, <1>2, <1>3

LEMMA QueuedFacts ==
  ASSUME QueueOK
  PROVE  /\ queued \in Seq(QueuedEvent) /\ Len(queued) = nevents
         /\ \A i \in 1..nevents : queued[i] = events[(fevent + (i - 1)) % NUMEVENTS]
<1>1. queued = [i \in 1..nevents |-> events[(fevent + i - 1) % NUMEVENTS]]
  BY DEF queued
<1>2. /\ events \in [0..(NUMEVENTS - 1) -> QueuedEvent]
      /\ fevent \in 0..(NUMEVENTS - 1) /\ nevents \in 0..NUMEVENTS
  BY DEF QueueOK
<1> DEFINE q == [i \in 1..nevents |-> events[(fevent + i - 1) % NUMEVENTS]]
<1>3. /\ q \in Seq(QueuedEvent) /\ Len(q) = nevents
      /\ \A i \in 1..nevents : q[i] = events[(fevent + (i - 1)) % NUMEVENTS]
  BY <1>2, RingContent, Zenon
<1> HIDE DEF q
<1>4. queued = q
  BY <1>1 DEF q
<1> QED BY <1>3, <1>4, Zenon

LEMMA QueuedFactsPrime ==
  ASSUME QueueOK'
  PROVE  /\ queued' \in Seq(QueuedEvent) /\ Len(queued') = nevents'
         /\ \A i \in 1..(nevents') : queued'[i] = events'[(fevent' + (i - 1)) % NUMEVENTS]
<1>1. queued' = [i \in 1..(nevents') |-> events'[(fevent' + i - 1) % NUMEVENTS]]
  BY DEF queued
<1>2. /\ events' \in [0..(NUMEVENTS - 1) -> QueuedEvent]
      /\ fevent' \in 0..(NUMEVENTS - 1) /\ nevents' \in 0..NUMEVENTS
  BY DEF QueueOK
<1> DEFINE q == [i \in 1..(nevents') |-> events'[(fevent' + i - 1) % NUMEVENTS]]
<1>3. /\ q \in Seq(QueuedEvent) /\ Len(q) = nevents'
      /\ \A i \in 1..(nevents') : q[i] = events'[(fevent' + (i - 1)) % NUMEVENTS]
  BY <1>2, RingContent, Zenon
<1> HIDE DEF q
<1>4. queued' = q
  BY <1>1 DEF q
<1> QED BY <1>3, <1>4, Zenon

\* An event goes to the end of the queue, or the queue stays.
LEMMA PostEnqueues ==
  ASSUME QueueOK, NEW p \in OrNull(Proc), NEW ev \in Ids, NEW data \in Datum,
         process_post(p, ev, data)
  PROVE  [Fifo!Next]_queued
<1> DEFINE e == [ev |-> ev, data |-> data, p |-> p]
<1>1. CASE Full
  BY <1>1 DEF process_post, queueVars, queued
<1>2. CASE ~Full
  <2>1. QueueOK'
    BY ProcessPost
  <2>2. e \in QueuedEvent
    BY DEF QueuedEvent, OrNull, Datum
  <2>3. /\ events' = [events EXCEPT ![(fevent + nevents) % NUMEVENTS] = e]
        /\ nevents' = nevents + 1 /\ fevent' = fevent
    BY <1>2 DEF process_post
  <2>4. /\ NUMEVENTS \in Nat \ {0} /\ nevents \in 0..(NUMEVENTS - 1)
        /\ fevent \in 0..(NUMEVENTS - 1) /\ DOMAIN events = 0..(NUMEVENTS - 1)
    BY <1>2, ProcessAssumption DEF QueueOK, Full
  <2> HIDE DEF e
  <2>5. (fevent + nevents) % NUMEVENTS \in 0..(NUMEVENTS - 1)
    BY <2>4, Ring
  <2>6. ASSUME NEW i \in 1..nevents
        PROVE  queued'[i] = queued[i]
    <3>1. i - 1 \in 0..(NUMEVENTS - 1) /\ i - 1 # nevents /\ i \in 1..(nevents')
      BY <2>3, <2>4
    <3>2. /\ (fevent + (i - 1)) % NUMEVENTS \in 0..(NUMEVENTS - 1)
          /\ (fevent + (i - 1)) % NUMEVENTS # (fevent + nevents) % NUMEVENTS
      BY <2>4, <3>1, RingApart
    <3>3. /\ queued'[i] = events'[(fevent + (i - 1)) % NUMEVENTS]
          /\ queued[i] = events[(fevent + (i - 1)) % NUMEVENTS]
      BY <2>1, <2>3, <3>1, QueuedFacts, QueuedFactsPrime
    <3> QED BY <2>3, <2>4, <3>2, <3>3
  <2>7. queued'[nevents + 1] = e
    <3>1. nevents + 1 \in 1..(nevents') /\ (nevents + 1) - 1 = nevents
      BY <2>3, <2>4
    <3>2. queued'[nevents + 1] = events'[(fevent + nevents) % NUMEVENTS]
      BY <2>1, <2>3, <3>1, QueuedFactsPrime
    <3> QED BY <2>3, <2>4, <2>5, <3>2
  <2>8. queued' = Append(queued, e)
    <3> DEFINE a == Append(queued, e)
    <3>1. queued \in Seq(QueuedEvent) /\ Len(queued) = nevents
      BY QueuedFacts
    <3>2. /\ a \in Seq(QueuedEvent) /\ Len(a) = nevents + 1
          /\ \A i \in 1..nevents : a[i] = queued[i]
          /\ a[nevents + 1] = e
      BY <2>2, <3>1, AppendProperties
    <3>3. queued' \in Seq(QueuedEvent) /\ Len(queued') = nevents + 1
      BY <2>1, <2>3, QueuedFactsPrime
    <3> HIDE DEF a
    <3>4. \A i \in 1..Len(queued') : queued'[i] = a[i]
      BY <2>4, <2>6, <2>7, <3>2, <3>3
    <3>5. queued' = a
      BY <3>2, <3>3, <3>4, SeqEqual
    <3> QED BY <3>5 DEF a
  <2>9. Len(queued) < NUMEVENTS
    BY <2>4, QueuedFacts
  <2> QED BY <2>2, <2>8, <2>9 DEF Fifo!Next, Fifo!Enqueue
<1> QED BY <1>1, <1>2

\* do_event takes the first event.
LEMMA RunDequeues ==
  ASSUME Inv, RunEvent
  PROVE  [Fifo!Next]_queued
<1>1. QueueOK /\ QueueOK' /\ UNCHANGED events
  BY InvParts, RunEventStep DEF KernelSafe, RunEvent
<1>2. CASE nevents = 0
  BY <1>1, <1>2 DEF RunEvent, queued
<1>3. CASE nevents # 0
  <2>1. fevent' = (fevent + 1) % NUMEVENTS /\ nevents' = nevents - 1
    BY <1>3 DEF RunEvent
  <2>2. /\ NUMEVENTS \in Nat \ {0} /\ nevents \in 1..NUMEVENTS /\ fevent \in 0..(NUMEVENTS - 1)
    BY <1>1, <1>3, ProcessAssumption DEF QueueOK
  <2>3. queued \in Seq(QueuedEvent) /\ Len(queued) = nevents /\ queued # << >>
    BY <1>1, <2>2, QueuedFacts
  <2>4. queued' \in Seq(QueuedEvent) /\ Len(queued') = nevents - 1
    BY <1>1, <2>1, QueuedFactsPrime
  <2>5. ASSUME NEW i \in 1..(nevents - 1)
        PROVE  queued'[i] = queued[i + 1]
    <3>1. /\ i \in 1..(nevents') /\ i + 1 \in 1..nevents /\ (i + 1) - 1 = (i - 1) + 1
          /\ i - 1 \in 0..(NUMEVENTS - 1) /\ (i - 1) + 1 < NUMEVENTS
      BY <2>1, <2>2
    <3>2. queued'[i] = events[(((fevent + 1) % NUMEVENTS) + (i - 1)) % NUMEVENTS]
      BY <1>1, <2>1, <3>1, QueuedFactsPrime
    <3>3. queued[i + 1] = events[(fevent + ((i - 1) + 1)) % NUMEVENTS]
      BY <1>1, <3>1, QueuedFacts
    <3>4. (((fevent + 1) % NUMEVENTS) + (i - 1)) % NUMEVENTS
            = (fevent + ((i - 1) + 1)) % NUMEVENTS
      BY <2>2, <3>1, RingAdvance
    <3> QED BY <3>2, <3>3, <3>4
  <2>6. queued' = Tail(queued)
    <3> DEFINE a == Tail(queued)
    <3>1. /\ a \in Seq(QueuedEvent) /\ Len(a) = nevents - 1
          /\ \A i \in 1..(nevents - 1) : a[i] = queued[i + 1]
      BY <2>3, HeadTailProperties
    <3> HIDE DEF a
    <3>2. \A i \in 1..Len(queued') : queued'[i] = a[i]
      BY <2>4, <2>5, <3>1
    <3>3. queued' = a
      BY <2>4, <3>1, <3>2, SeqEqual
    <3> QED BY <3>3 DEF a
  <2> QED BY <2>3, <2>6 DEF Fifo!Next, Fifo!Dequeue
<1> QED BY <1>2, <1>3

LEMMA QueueKept ==
  ASSUME UNCHANGED queueVars
  PROVE  [Fifo!Next]_queued
BY DEF queueVars, queued

LEMMA EveryStepQueues ==
  ASSUME Inv, [Next]_vars
  PROVE  [Fifo!Next]_queued
<1>1. CASE UNCHANGED vars
  BY <1>1, QueueKept DEF vars, procVars
<1>2. CASE KernelStep
  <2>1. CASE RunEvent
    BY <2>1, RunDequeues
  <2>2. CASE ~RunEvent
    <3>1. UNCHANGED queueVars
      BY <1>2, <2>2 DEF KernelStep, MainStart, MainStarted, RunPolls, MainLoop, MainSleep, PollStep,
         BroadcastStep, ExitTells, ExitCalls, ExitUnlinks, SynchReturns, ThreadReturns,
         ExitThreadReturns
    <3> QED BY <3>1, QueueKept
  <2> QED BY <2>1, <2>2
<1>3. CASE Start \/ DropExited \/ DropHead \/ DropNext \/ OtherEvent \/ Polled \/ ScanEnd
  <2>1. UNCHANGED queueVars
    BY <1>3 DEF Start, DropExited, DropHead, DropNext, OtherEvent, Polled, ScanEnd
  <2> QED BY <2>1, QueueKept
<1>4. CASE ScanTimer
  <2>1. CASE UNCHANGED queueVars
    BY <2>1, QueueKept
  <2>2. CASE Expire(Top.t, Top.u)
    <3>1. Top.t \in Timer
      BY <1>4, TopLoop DEF ScanTimer, ScanFrame, OrNull
    <3>2. owner[Top.t] \in OrNull(Proc) /\ "timer" \in Ids /\ Top.t \in Datum
      BY <3>1, InvParts DEF ListOK, Ids, Datum
    <3> QED BY <2>2, <3>2, InvParts, PostEnqueues DEF Expire
  <2> QED BY <1>4, <2>1, <2>2 DEF ScanTimer
<1>5. CASE ThreadCall
  <2>1. CASE CallPost
    <3>1. "msg" \in Ids /\ "exit" \in Ids /\ NULL \in Datum /\ NULL \in OrNull(Proc)
          /\ App \subseteq OrNull(Proc)
      BY DEF Ids, Datum, OrNull, Proc
    <3>2. PICK p \in OrNull(Proc), ev \in Ids : process_post(p, ev, NULL)
      BY <2>1, <3>1 DEF CallPost
    <3> QED BY <3>1, <3>2, InvParts, PostEnqueues
  <2>2. CASE ~CallPost
    <3>1. UNCHANGED queueVars
      BY <1>5, <2>2 DEF ThreadCall, CallPostSynch, CallPoll, CallStart, CallExit
    <3> QED BY <3>1, QueueKept
  <2> QED BY <2>1, <2>2
<1>6. CASE PollInterrupt \/ CallSet \/ CallReset \/ CallAdjust \/ CallStop \/ ClockInterrupt
  <2>1. UNCHANGED queueVars
    BY <1>6 DEF PollInterrupt, CallSet, CallReset, CallAdjust, CallStop, ClockInterrupt
  <2> QED BY <2>1, QueueKept
<1> QED BY <1>1, <1>2, <1>3, <1>4, <1>5, <1>6 DEF Next, Processor, Application

\* The ring of process.c implements a bounded first-in first-out queue, for
\* every size of the ring: an event that process_post accepted is handed out
\* once, in its turn, and an event that is refused changes nothing.
THEOREM RingIsQueue == Spec => EventsInOrder
<1>1. Init => Fifo!Init
  <2> SUFFICES ASSUME Init PROVE queued = << >>
    BY DEF Fifo!Init
  <2>1. QueueOK /\ nevents = 0
    BY InitInv, InvParts DEF Init, ProcessInit
  <2>2. queued \in Seq(QueuedEvent) /\ Len(queued) = 0
    BY <2>1, QueuedFacts
  <2> QED BY <2>2
<1>2. Inv /\ [Next]_vars => [Fifo!Next]_queued
  BY EveryStepQueues
<1> QED BY <1>1, <1>2, InvAlways, PTL DEF Spec, EventsInOrder, Fifo!Spec

-----------------------------------------------------------------------------
(* Linked lists.                                                           *)

\* The links of a list: a finite set of records, each with a pointer to another
\* one or null.
Linked(D, l) == IsFiniteSet(D) /\ NULL \notin D /\ l \in [D -> D \cup {NULL}]

\* No links lead back to where they came from: a number falls along them.
Ranked(D, l, r) == r \in [D -> Nat] /\ \A x \in D : l[x] # NULL => r[l[x]] < r[x]
Acyclic(D, l) == \E r : Ranked(D, l, r)

Closed(X, h, l) == (h # NULL => h \in X) /\ \A x \in X : l[x] # NULL => l[x] \in X

\* The steps of a walk exist.
Walks(f, h, l, n) ==
    f = [k \in 0..n |-> IF k = 0 THEN h ELSE IF f[k - 1] = NULL THEN NULL ELSE l[f[k - 1]]]

\* A walk of any length exists.
LEMMA WalkExists ==
  ASSUME NEW h, NEW l, NEW N \in Nat
  PROVE  \E f : Walks(f, h, l, N)
<1> DEFINE e(v) == IF v = NULL THEN NULL ELSE l[v]
           G(f, n) == f = [k \in 0..n |-> IF k = 0 THEN h ELSE e(f[k - 1])]
           Reached == {n \in Nat : \E f : G(f, n)}
<1> HIDE DEF e
<1>1. 0 \in Reached
  <2>1. [k \in 0..0 |-> h] = [k \in 0..0 |-> IF k = 0 THEN h ELSE e([j \in 0..0 |-> h][k - 1])]
    OBVIOUS
  <2>2. G([k \in 0..0 |-> h], 0)
    BY <2>1
  <2> QED BY <2>2
<1>2. ASSUME NEW n \in Nat, n \in Reached PROVE n + 1 \in Reached
  <2>1. PICK f : G(f, n)
    BY <1>2
  <2> DEFINE g == [k \in 0..(n + 1) |-> IF k = n + 1 THEN e(f[n]) ELSE f[k]]
  <2>2. \A k \in 0..n : g[k] = f[k] /\ f[k] = IF k = 0 THEN h ELSE e(f[k - 1])
    BY <2>1
  <2>3. ASSUME NEW k \in 0..(n + 1) PROVE g[k] = IF k = 0 THEN h ELSE e(g[k - 1])
    <3>1. CASE k = 0
      <4>1. g[0] = h
        <5>1. 0 \in 0..n
          OBVIOUS
        <5> HIDE DEF g
        <5> QED BY <2>2, <5>1
      <4> QED BY <3>1, <4>1
    <3>2. CASE k \in 1..n
      <4>1. k # 0 /\ k \in 0..n /\ k - 1 \in 0..n
        BY <3>2
      <4>2. g[k] = e(f[k - 1]) /\ g[k - 1] = f[k - 1]
        BY <2>2, <4>1
      <4> QED BY <4>1, <4>2
    <3>3. CASE k = n + 1
      <4>1. g[k] = e(f[n]) /\ g[n] = f[n] /\ k - 1 = n /\ k # 0
        BY <2>2, <3>3
      <4> QED BY <4>1
    <3> QED BY <3>1, <3>2, <3>3
  <2>4. g = [k \in 0..(n + 1) |-> g[k]]
    OBVIOUS
  <2> HIDE DEF g
  <2>5. G(g, n + 1)
    BY <2>3, <2>4
  <2> QED BY <2>5
<1>3. N \in Reached
  <2> HIDE DEF Reached
  <2>1. Nat \subseteq Reached
    BY <1>1, <1>2, InductionOverNat
  <2> QED BY <2>1
<1>4. PICK f : f = [k \in 0..N |-> IF k = 0 THEN h ELSE e(f[k - 1])]
  BY <1>3
<1> QED BY <1>4 DEF e, Walks

\* Walk goes from link to link, and stays at null.
LEMMA WalkTurns ==
  ASSUME NEW h, NEW l, NEW n \in Nat
  PROVE  /\ Walk(h, l, n)[0] = h
         /\ \A k \in 1..n : Walk(h, l, n)[k] =
              IF Walk(h, l, n)[k - 1] = NULL THEN NULL ELSE l[Walk(h, l, n)[k - 1]]
<1> DEFINE w == CHOOSE f : f = [k \in 0..n |-> IF k = 0 THEN h
                                    ELSE IF f[k - 1] = NULL THEN NULL ELSE l[f[k - 1]]]
<1>1. w = [k \in 0..n |-> IF k = 0 THEN h ELSE IF w[k - 1] = NULL THEN NULL ELSE l[w[k - 1]]]
  <2>1. \E f : f = [k \in 0..n |-> IF k = 0 THEN h
                                    ELSE IF f[k - 1] = NULL THEN NULL ELSE l[f[k - 1]]]
    <3>1. \E f : Walks(f, h, l, n)
      BY WalkExists
    <3> QED BY <3>1, Zenon DEF Walks
  <2> QED BY <2>1
<1>2. Walk(h, l, n) = w
  BY DEF Walk
<1> HIDE DEF w
<1>3. w[0] = h /\ \A k \in 1..n : w[k] = IF w[k - 1] = NULL THEN NULL ELSE l[w[k - 1]]
  BY <1>1
<1> QED BY <1>2, <1>3

\* Walk does not leave the records of the list.
LEMMA WalkRange ==
  ASSUME NEW D, NEW l, Linked(D, l), NEW h \in D \cup {NULL}, NEW n \in Nat
  PROVE  \A k \in 0..n : Walk(h, l, n)[k] \in D \cup {NULL}
<1> DEFINE w == Walk(h, l, n)
           R == {k \in 0..n : w[k] \in D \cup {NULL}}
<1>1. w[0] = h /\ \A k \in 1..n : w[k] = IF w[k - 1] = NULL THEN NULL ELSE l[w[k - 1]]
  BY WalkTurns
<1> HIDE DEF w
<1>2. 0 \in R
  BY <1>1
<1>3. ASSUME NEW k \in 0..(n - 1), k \in R PROVE k + 1 \in R
  <2>1. k + 1 \in 1..n /\ k + 1 - 1 = k /\ k + 1 \in 0..n
    OBVIOUS
  <2>2. w[k + 1] = IF w[k] = NULL THEN NULL ELSE l[w[k]]
    BY <1>1, <2>1
  <2>3. w[k] \in D \cup {NULL}
    BY <1>3
  <2> QED BY <2>1, <2>2, <2>3 DEF Linked
<1>4. 0..n \subseteq R
  <2> HIDE DEF R
  <2> QED BY <1>2, <1>3, InductionUpTo
<1> QED BY <1>4 DEF w

\* Members is contained in every set that the links do not leave.
LEMMA MembersWithin ==
  ASSUME NEW D, NEW l, Linked(D, l), NEW h \in D \cup {NULL}, NEW X, Closed(X, h, l)
  PROVE  Members(h, l) \subseteq X
<1> DEFINE n == Cardinality(D)
           w == Walk(h, l, n)
           R == {k \in 0..n : w[k] # NULL => w[k] \in X}
<1>0. n \in Nat /\ DOMAIN l = D
  BY FS_CardinalityType DEF Linked
<1>1. w[0] = h /\ \A k \in 1..n : w[k] = IF w[k - 1] = NULL THEN NULL ELSE l[w[k - 1]]
  <2> HIDE DEF n
  <2> QED BY <1>0, WalkTurns
<1>5. Members(h, l) = D \cap {w[k] : k \in 0..n}
  BY <1>0 DEF Members
<1> HIDE DEF w, n
<1>2. 0 \in R
  BY <1>0, <1>1 DEF Closed
<1>3. ASSUME NEW k \in 0..(n - 1), k \in R PROVE k + 1 \in R
  <2>1. k + 1 \in 1..n /\ k + 1 - 1 = k /\ k + 1 \in 0..n
    BY <1>0
  <2>2. w[k + 1] = IF w[k] = NULL THEN NULL ELSE l[w[k]]
    BY <1>1, <2>1
  <2>3. w[k] # NULL => w[k] \in X
    BY <1>3
  <2> QED BY <2>1, <2>2, <2>3 DEF Closed
<1>4. 0..n \subseteq R
  <2> HIDE DEF R
  <2> QED BY <1>0, <1>2, <1>3, InductionUpTo
<1> QED BY <1>4, <1>5 DEF Linked

\* Ranks fall along a walk, so that it does not come back: the list ends within
\* as many steps as there are records.
LEMMA AcyclicEnds ==
  ASSUME NEW D, NEW l, Linked(D, l), Acyclic(D, l), NEW h \in D \cup {NULL}
  PROVE  Ends(h, l)
<1> DEFINE n == Cardinality(D)
           w == Walk(h, l, n)
<1>0. n \in Nat /\ DOMAIN l = D
  BY FS_CardinalityType DEF Linked
<1>1. /\ w[0] = h /\ \A k \in 1..n : w[k] = IF w[k - 1] = NULL THEN NULL ELSE l[w[k - 1]]
      /\ \A k \in 0..n : w[k] \in D \cup {NULL}
  <2> HIDE DEF n
  <2> QED BY <1>0, WalkTurns, WalkRange
<1>2. Ends(h, l) <=> w[n] = NULL
  BY <1>0 DEF Ends
<1>3. PICK r : Ranked(D, l, r)
  BY DEF Acyclic
<1> HIDE DEF w, n
<1>4. SUFFICES ASSUME w[n] # NULL PROVE FALSE
  BY <1>2
<1>5. ASSUME NEW k \in 1..n, w[k] # NULL
      PROVE  w[k - 1] # NULL /\ w[k - 1] \in D /\ w[k] = l[w[k - 1]] /\ r[w[k]] < r[w[k - 1]]
  <2>1. w[k] = IF w[k - 1] = NULL THEN NULL ELSE l[w[k - 1]]
    BY <1>1
  <2>2. w[k - 1] \in D \cup {NULL}
    BY <1>0, <1>1
  <2> QED BY <1>3, <1>5, <2>1, <2>2 DEF Ranked
<1> DEFINE R == {j \in 0..n : w[n - j] \in D}
<1>6. 0 \in R
  BY <1>0, <1>1, <1>4
<1>7. ASSUME NEW j \in 0..(n - 1), j \in R PROVE j + 1 \in R
  <2>1. n - j \in 1..n /\ n - j - 1 = n - (j + 1) /\ j + 1 \in 0..n
    BY <1>0
  <2>2. w[n - j] # NULL
    BY <1>7 DEF Linked
  <2>3. w[n - j - 1] \in D
    BY <1>5, <2>1, <2>2
  <2> QED BY <2>1, <2>3
<1>8. \A k \in 0..n : w[k] \in D
  <2>1. 0..n \subseteq R
    <3> HIDE DEF R
    <3> QED BY <1>0, <1>6, <1>7, InductionUpTo
  <2>2. ASSUME NEW k \in 0..n PROVE w[k] \in D
    <3>1. n - k \in 0..n /\ n - (n - k) = k
      BY <1>0
    <3> QED BY <2>1, <3>1
  <2> QED BY <2>2
<1>9. ASSUME NEW i \in 0..n PROVE \A j \in (i + 1)..n : r[w[j]] < r[w[i]]
  <2> DEFINE m == n - i
             T == {d \in 0..m : d > 0 => r[w[i + d]] < r[w[i]]}
  <2>0. m \in Nat
    BY <1>0
  <2>1. 0 \in T
    BY <2>0
  <2>2. ASSUME NEW d \in 0..(m - 1), d \in T PROVE d + 1 \in T
    <3>1. i + d + 1 \in 1..n /\ i + d + 1 - 1 = i + d /\ i + d \in 0..n /\ d + 1 \in 0..m
          /\ i + (d + 1) = i + d + 1 /\ i + d + 1 \in 0..n
      BY <1>0, <2>0
    <3>2. w[i + d + 1] # NULL
      BY <1>8, <3>1 DEF Linked
    <3>3. r[w[i + d + 1]] < r[w[i + d]]
      BY <1>5, <3>1, <3>2
    <3>4. r[w[i + d + 1]] \in Nat /\ r[w[i + d]] \in Nat /\ r[w[i]] \in Nat
      BY <1>3, <1>8, <3>1 DEF Ranked
    <3>5. CASE d = 0
      <4>1. i + d = i
        BY <3>5
      <4> QED BY <3>1, <3>3, <4>1
    <3>6. CASE d > 0
      <4>1. r[w[i + d]] < r[w[i]]
        BY <2>2, <3>6
      <4> QED BY <3>1, <3>3, <3>4, <4>1
    <3> QED BY <3>5, <3>6
  <2>3. 0..m \subseteq T
    <3> HIDE DEF T, m
    <3> QED BY <2>0, <2>1, <2>2, InductionUpTo
  <2>4. ASSUME NEW j \in (i + 1)..n PROVE r[w[j]] < r[w[i]]
    <3>1. j - i \in 0..m /\ j - i > 0 /\ i + (j - i) = j
      BY <1>0
    <3> HIDE DEF m
    <3> QED BY <2>3, <3>1
  <2> QED BY <2>4
<1>10. ASSUME NEW x \in 0..n, NEW y \in 0..n, x < y PROVE w[x] # w[y]
  <2>1. y \in (x + 1)..n
    BY <1>0, <1>10
  <2>2. r[w[y]] < r[w[x]] /\ r[w[x]] \in Nat
    BY <1>3, <1>8, <1>9, <2>1 DEF Ranked
  <2> QED BY <2>2
<1> DEFINE f == [k \in 0..n |-> w[k]]
<1>11. f \in [0..n -> D] /\ IsFiniteSet(0..n) /\ IsFiniteSet(D) /\ Cardinality(D) < Cardinality(0..n)
  <2>1. IsFiniteSet(0..n) /\ Cardinality(0..n) = n - 0 + 1
    BY <1>0, FS_Interval
  <2> QED BY <1>0, <1>8, <2>1 DEF Linked, n
<1>12. PICK x, y \in 0..n : x # y /\ f[x] = f[y]
  <2> HIDE DEF f
  <2> QED BY <1>11, FS_PigeonHole
<1> QED BY <1>0, <1>10, <1>12

\* The members of a list are the least set that holds its head and that the
\* links do not leave.
LEMMA MembersClosed ==
  ASSUME NEW D, NEW l, Linked(D, l), Acyclic(D, l), NEW h \in D \cup {NULL}
  PROVE  Closed(Members(h, l), h, l) /\ Members(h, l) \subseteq D
<1> DEFINE n == Cardinality(D)
           w == Walk(h, l, n)
<1>0. n \in Nat /\ DOMAIN l = D
  BY FS_CardinalityType DEF Linked
<1>1. /\ w[0] = h /\ \A k \in 1..n : w[k] = IF w[k - 1] = NULL THEN NULL ELSE l[w[k - 1]]
      /\ \A k \in 0..n : w[k] \in D \cup {NULL}
  <2> HIDE DEF n
  <2> QED BY <1>0, WalkTurns, WalkRange
<1>2. w[n] = NULL
  BY <1>0, AcyclicEnds DEF Ends
<1>3. Members(h, l) = D \cap {w[k] : k \in 0..n}
  BY <1>0 DEF Members
<1> HIDE DEF w, n
<1>4. h # NULL => h \in Members(h, l)
  BY <1>0, <1>1, <1>3
<1>5. ASSUME NEW x \in Members(h, l), l[x] # NULL PROVE l[x] \in Members(h, l)
  <2>1. PICK k \in 0..n : x = w[k]
    BY <1>3
  <2>2. x \in D
    BY <1>3
  <2>3. k + 1 \in 1..n /\ k + 1 - 1 = k /\ k + 1 \in 0..n
    BY <1>0, <1>2, <2>1, <2>2 DEF Linked
  <2>4. w[k + 1] = l[x]
    BY <1>1, <2>1, <2>2, <2>3 DEF Linked
  <2>5. l[x] \in D
    BY <1>5, <2>2 DEF Linked
  <2> QED BY <1>3, <2>3, <2>4, <2>5
<1> QED BY <1>3, <1>4, <1>5 DEF Closed

\* An empty list has no members.
LEMMA MembersOfNull ==
  ASSUME NEW D, NEW l, Linked(D, l)
  PROVE  Members(NULL, l) = {}
<1>1. Closed({}, NULL, l)
  BY DEF Closed
<1> QED BY <1>1, MembersWithin

\* A list is its head and the rest.
LEMMA HeadAndRest ==
  ASSUME NEW D, NEW l, Linked(D, l), Acyclic(D, l), NEW h \in D
  PROVE  /\ Members(h, l) = {h} \cup Members(l[h], l)
         /\ h \notin Members(l[h], l) /\ l[h] # h /\ l[h] \in D \cup {NULL}
<1>1. l[h] \in D \cup {NULL} /\ h # NULL
  BY DEF Linked
<1>2. Closed(Members(l[h], l), l[h], l) /\ Closed(Members(h, l), h, l)
  BY <1>1, MembersClosed
<1>3. Members(h, l) \subseteq {h} \cup Members(l[h], l)
  <2>1. Closed({h} \cup Members(l[h], l), h, l)
    BY <1>2 DEF Closed
  <2> QED BY <2>1, MembersWithin
<1>4. Members(l[h], l) \subseteq Members(h, l)
  <2>1. Closed(Members(h, l), l[h], l)
    BY <1>1, <1>2 DEF Closed
  <2> QED BY <1>1, <2>1, MembersWithin
<1>5. PICK r : Ranked(D, l, r)
  BY DEF Acyclic
<1>6. l[h] # h
  BY <1>1, <1>5 DEF Ranked
<1>7. h \notin Members(l[h], l)
  <2> DEFINE X == {x \in D : r[x] < r[h]}
  <2>1. Closed(X, l[h], l)
    <3>1. ASSUME NEW x \in X, l[x] # NULL PROVE l[x] \in X
      <4>1. x \in D /\ l[x] \in D /\ r[l[x]] < r[x] /\ r[x] < r[h]
        BY <1>5, <3>1 DEF Ranked, Linked
      <4>2. r[l[x]] \in Nat /\ r[x] \in Nat /\ r[h] \in Nat
        BY <1>5, <4>1 DEF Ranked
      <4> QED BY <4>1, <4>2
    <3>2. l[h] # NULL => l[h] \in X
      BY <1>1, <1>5 DEF Ranked
    <3> QED BY <3>1, <3>2 DEF Closed
  <2>2. Members(l[h], l) \subseteq X
    <3> HIDE DEF X
    <3> QED BY <1>1, <2>1, MembersWithin
  <2>3. r[h] \in Nat
    BY <1>5 DEF Ranked
  <2> QED BY <2>2, <2>3
<1> QED BY <1>1, <1>2, <1>3, <1>4, <1>6, <1>7 DEF Closed

\* What follows a member is a member.
LEMMA RestWithin ==
  ASSUME NEW D, NEW l, Linked(D, l), Acyclic(D, l), NEW h \in D \cup {NULL},
         NEW x \in Members(h, l)
  PROVE  /\ x \in D /\ Members(x, l) \subseteq Members(h, l)
         /\ Members(l[x], l) \subseteq Members(h, l) /\ (l[x] # NULL => l[x] \in Members(h, l))
<1>1. Closed(Members(h, l), h, l) /\ x \in D
  BY MembersClosed
<1>2. Closed(Members(h, l), x, l)
  BY <1>1 DEF Closed
<1>3. Members(x, l) \subseteq Members(h, l)
  BY <1>1, <1>2, MembersWithin
<1> QED BY <1>1, <1>2, <1>3, HeadAndRest DEF Closed

\* Of two members one follows the other.
LEMMA Comparable ==
  ASSUME NEW D, NEW l, Linked(D, l), Acyclic(D, l), NEW h \in D \cup {NULL},
         NEW x \in Members(h, l), NEW y \in Members(h, l)
  PROVE  x \in Members(y, l) \/ y \in Members(x, l)
<1> DEFINE X == {z \in Members(h, l) : y \in Members(z, l) \/ z \in Members(y, l)}
<1>0. Closed(Members(h, l), h, l) /\ Members(h, l) \subseteq D
  BY MembersClosed
<1>1. h # NULL => h \in X
  BY <1>0 DEF Closed
<1>2. ASSUME NEW z \in X, l[z] # NULL PROVE l[z] \in X
  <2>1. z \in D /\ l[z] \in Members(h, l) /\ y \in D
    BY <1>0, <1>2 DEF Closed
  <2>2. Members(z, l) = {z} \cup Members(l[z], l)
    BY <2>1, HeadAndRest
  <2>3. CASE y \in Members(z, l) /\ y # z
    BY <2>1, <2>2, <2>3
  <2>4. CASE z \in Members(y, l)
    <3>1. l[z] \in Members(y, l)
      BY <1>2, <2>1, <2>4, RestWithin
    <3> QED BY <2>1, <3>1
  <2>5. CASE y = z
    <3>1. y \in Members(y, l)
      BY <2>2, <2>5
    <3> QED BY <2>4, <2>5, <3>1
  <2> QED BY <1>2, <2>3, <2>4, <2>5
<1>3. Closed(X, h, l)
  BY <1>1, <1>2 DEF Closed
<1>4. Members(h, l) \subseteq X
  <2> HIDE DEF X
  <2> QED BY <1>3, MembersWithin
<1> QED BY <1>4

\* No two members have the same link, and none leads to the head.
LEMMA OneBefore ==
  ASSUME NEW D, NEW l, Linked(D, l), Acyclic(D, l), NEW h \in D \cup {NULL},
         NEW x \in Members(h, l), l[x] # NULL
  PROVE  l[x] # h /\ \A y \in Members(h, l) : l[y] = l[x] => y = x
<1>1. x \in D /\ Members(h, l) \subseteq D
  BY MembersClosed
<1>2. x \notin Members(l[x], l)
  BY <1>1, HeadAndRest
<1>3. ASSUME NEW y \in Members(h, l), l[y] = l[x] PROVE y = x
  <2>1. y \in D /\ Members(y, l) = {y} \cup Members(l[y], l) /\ y \notin Members(l[y], l)
    BY <1>1, HeadAndRest
  <2>2. Members(x, l) = {x} \cup Members(l[x], l)
    BY <1>1, HeadAndRest
  <2> QED BY <1>2, <1>3, <2>1, <2>2, Comparable
<1> QED BY <1>2, <1>3

\* The links of what is off the list do not matter.
LEMMA SameMembers ==
  ASSUME NEW D, NEW l, Linked(D, l), Acyclic(D, l), NEW h \in D \cup {NULL},
         NEW m, Linked(D, m), Acyclic(D, m), \A x \in Members(h, l) : m[x] = l[x]
  PROVE  Members(h, m) = Members(h, l)
<1>1. Closed(Members(h, l), h, l) /\ Closed(Members(h, m), h, m)
  BY MembersClosed
<1>2. Closed(Members(h, l), h, m)
  BY <1>1 DEF Closed
<1>3. Members(h, m) \subseteq Members(h, l)
  BY <1>2, MembersWithin
<1>4. Closed(Members(h, m), h, l)
  BY <1>1, <1>3 DEF Closed
<1>5. Members(h, l) \subseteq Members(h, m)
  BY <1>4, MembersWithin
<1> QED BY <1>3, <1>5

-----------------------------------------------------------------------------
(* Changes of the links.                                                   *)

\* Some of the links to p are led past it.
Past(D, Q, p, l, m) ==
    m = [x \in D |-> IF x \in Q THEN l[p] ELSE l[x]]

\* Links that are led past p still go in no circle.
LEMMA PastAcyclic ==
  ASSUME NEW D, NEW l, Linked(D, l), Acyclic(D, l), NEW p \in D,
         NEW Q, \A q \in Q : q \in D /\ l[q] = p, NEW m, Past(D, Q, p, l, m)
  PROVE  Linked(D, m) /\ Acyclic(D, m) /\ p \notin Q /\ m[p] = l[p]
<1>1. PICK r : Ranked(D, l, r)
  BY DEF Acyclic
<1>2. Linked(D, m)
  BY DEF Past, Linked
<1>3. p # NULL
  BY DEF Linked
<1>4. ASSUME NEW x \in D, m[x] # NULL PROVE r[m[x]] < r[x]
  <2>1. CASE x \in Q
    <3>1. m[x] = l[p] /\ l[x] = p
      BY <2>1 DEF Past
    <3>2. r[l[p]] < r[p] /\ r[p] < r[x] /\ l[p] \in D
      BY <1>1, <1>3, <1>4, <3>1 DEF Ranked, Linked
    <3>3. r[l[p]] \in Nat /\ r[p] \in Nat /\ r[x] \in Nat
      BY <1>1, <3>2 DEF Ranked
    <3> QED BY <3>1, <3>2, <3>3
  <2>2. CASE x \notin Q
    BY <1>1, <1>4, <2>2 DEF Past, Ranked
  <2> QED BY <2>1, <2>2
<1>5. Ranked(D, m, r)
  BY <1>1, <1>4 DEF Ranked
<1>6. p \notin Q
  BY HeadAndRest
<1> QED BY <1>2, <1>5, <1>6 DEF Acyclic, Past

\* From any record the links lead where they led before, except perhaps to p.
LEMMA PastMembers ==
  ASSUME NEW D, NEW l, Linked(D, l), Acyclic(D, l), NEW p \in D,
         NEW Q, \A q \in Q : q \in D /\ l[q] = p, NEW m, Past(D, Q, p, l, m),
         NEW h \in D \cup {NULL}
  PROVE  /\ Members(h, m) \subseteq Members(h, l)
         /\ Members(h, l) \subseteq Members(h, m) \cup {p}
<1>0. Linked(D, m) /\ Acyclic(D, m) /\ m[p] = l[p] /\ p # NULL
  BY PastAcyclic DEF Linked
<1>1. /\ Closed(Members(h, l), h, l) /\ Closed(Members(h, m), h, m)
      /\ Members(h, l) \subseteq D /\ Members(h, m) \subseteq D
  BY <1>0, MembersClosed
<1>2. \A x \in D : m[x] = IF x \in Q THEN l[p] ELSE l[x]
  BY DEF Past
<1>3. Members(h, m) \subseteq Members(h, l)
  <2>1. Closed(Members(h, l), h, m)
    BY <1>0, <1>1, <1>2 DEF Closed
  <2> QED BY <1>0, <2>1, MembersWithin
<1>4. Members(h, l) \subseteq Members(h, m) \cup {p}
  <2> DEFINE X == {x \in Members(h, m) \cup {p} : x = p => l[p] = NULL \/ l[p] \in Members(h, m)}
  <2>1. h # NULL => h \in X
    BY <1>0, <1>1 DEF Closed
  <2>2. ASSUME NEW x \in X, l[x] # NULL PROVE l[x] \in X
    <3>1. CASE x = p
      <4>1. l[p] # p
        BY HeadAndRest
      <4> QED BY <2>2, <3>1, <4>1
    <3>2. CASE x # p /\ x \in Q
      BY <1>0, <1>1, <1>2, <3>2 DEF Closed
    <3>3. CASE x # p /\ x \notin Q
      BY <1>0, <1>1, <1>2, <2>2, <3>3 DEF Closed
    <3> QED BY <3>1, <3>2, <3>3
  <2>3. Closed(X, h, l)
    BY <2>1, <2>2 DEF Closed
  <2>4. Members(h, l) \subseteq X
    <3> HIDE DEF X
    <3> QED BY <2>3, MembersWithin
  <2> QED BY <2>4
<1> QED BY <1>3, <1>4

\* When all the members with a link to p are led past it, p is off the list.
LEMMA PastRemoves ==
  ASSUME NEW D, NEW l, Linked(D, l), Acyclic(D, l), NEW p \in D,
         NEW Q, \A q \in Q : q \in D /\ l[q] = p, NEW m, Past(D, Q, p, l, m),
         NEW h \in D \cup {NULL}, h # p, \A q \in Members(h, l) : l[q] = p => q \in Q
  PROVE  Members(h, m) = Members(h, l) \ {p}
<1>0. Linked(D, m) /\ Acyclic(D, m) /\ p # NULL /\ l[p] # p
  BY PastAcyclic, HeadAndRest DEF Linked
<1>1. Closed(Members(h, l), h, l) /\ Members(h, l) \subseteq D
  BY MembersClosed
<1>2. \A x \in D : m[x] = IF x \in Q THEN l[p] ELSE l[x]
  BY DEF Past
<1>3. Closed(Members(h, l) \ {p}, h, m)
  BY <1>0, <1>1, <1>2 DEF Closed
<1>4. Members(h, m) \subseteq Members(h, l) \ {p}
  BY <1>0, <1>3, MembersWithin
<1> QED BY <1>4, PastMembers

\* The link of p is changed.
Changed(p, h, l, m) == m = [l EXCEPT ![p] = h]

\* A link is set to null.
LEMMA CutAcyclic ==
  ASSUME NEW D, NEW l, Linked(D, l), Acyclic(D, l), NEW p \in D, NEW m, Changed(p, NULL, l, m)
  PROVE  Linked(D, m) /\ Acyclic(D, m)
<1>1. PICK r : Ranked(D, l, r)
  BY DEF Acyclic
<1>2. Linked(D, m)
  BY DEF Linked, Changed
<1>3. Ranked(D, m, r)
  BY <1>1 DEF Ranked, Linked, Changed
<1> QED BY <1>2, <1>3 DEF Acyclic

\* p, which is off the list, is put in front of it.
LEMMA PushAcyclic ==
  ASSUME NEW D, NEW l, Linked(D, l), Acyclic(D, l), NEW h \in D \cup {NULL},
         NEW p \in D, p \notin Members(h, l), NEW m, Changed(p, h, l, m)
  PROVE  Linked(D, m) /\ Acyclic(D, m)
<1> DEFINE M == Members(h, l)
<1>1. PICK r : Ranked(D, l, r)
  BY DEF Acyclic
<1>2. Linked(D, m)
  BY DEF Linked, Changed
<1>3. Closed(M, h, l) /\ M \subseteq D
  BY MembersClosed
<1>4. \A x \in D : m[x] = IF x = p THEN h ELSE l[x]
  BY DEF Linked, Changed
<1> HIDE DEF M
<1>5. CASE h = NULL
  <2>1. Ranked(D, m, r)
    BY <1>1, <1>4, <1>5 DEF Ranked
  <2> QED BY <1>2, <2>1 DEF Acyclic
<1>6. CASE h # NULL
  <2> DEFINE s == [x \in D |-> IF x \in M THEN r[x] ELSE r[x] + r[h] + 1]
  <2>1. \A x \in D : r[x] \in Nat
    BY <1>1 DEF Ranked
  <2>2. h \in M /\ h \in D /\ r[h] \in Nat
    BY <1>3, <1>6, <2>1 DEF Closed
  <2>3. \A x \in D : s[x] \in Nat /\ s[x] = IF x \in M THEN r[x] ELSE r[x] + r[h] + 1
    BY <2>1, <2>2
  <2>4. s \in [D -> Nat]
    BY <2>3
  <2> HIDE DEF s
  <2>5. ASSUME NEW x \in D, m[x] # NULL PROVE s[m[x]] < s[x]
    <3>1. CASE x = p
      <4>1. m[x] = h /\ p \notin M
        BY <1>4, <3>1 DEF M
      <4>2. s[h] = r[h] /\ s[x] = r[x] + r[h] + 1 /\ r[x] \in Nat
        BY <2>1, <2>2, <2>3, <3>1, <4>1
      <4> QED BY <2>2, <4>1, <4>2
    <3>2. CASE x # p
      <4>1. m[x] = l[x] /\ l[x] \in D /\ r[l[x]] < r[x]
        BY <1>1, <1>4, <2>5, <3>2 DEF Ranked, Linked
      <4>2. r[x] \in Nat /\ r[l[x]] \in Nat
        BY <2>1, <4>1
      <4>3. x \in M => l[x] \in M
        BY <1>3, <2>5, <4>1 DEF Closed
      <4> QED BY <2>2, <2>3, <4>1, <4>2, <4>3
    <3> QED BY <3>1, <3>2
  <2>6. Ranked(D, m, s)
    BY <2>4, <2>5 DEF Ranked
  <2> QED BY <1>2, <2>6 DEF Acyclic
<1> QED BY <1>5, <1>6

\* An element that is put in front is a member, with all those behind it.
LEMMA PushMembers ==
  ASSUME NEW D, NEW l, Linked(D, l), Acyclic(D, l), NEW h \in D \cup {NULL},
         NEW p \in D, p \notin Members(h, l), NEW m, Changed(p, h, l, m)
  PROVE  /\ Members(h, m) = Members(h, l)
         /\ Members(p, m) = {p} \cup Members(h, l)
<1>1. Linked(D, m) /\ Acyclic(D, m)
  BY PushAcyclic
<1>2. m[p] = h /\ \A x \in D : x # p => m[x] = l[x]
  BY DEF Linked, Changed
<1>3. Members(h, l) \subseteq D
  BY MembersClosed
<1>4. Members(h, m) = Members(h, l)
  BY <1>1, <1>2, <1>3, SameMembers
<1>5. Members(p, m) = {p} \cup Members(h, m)
  BY <1>1, <1>2, HeadAndRest
<1> QED BY <1>4, <1>5

\* A loop whose cursor is at c still comes to every member of the list.
LEMMA PushReaches ==
  ASSUME NEW D, NEW l, Linked(D, l), Acyclic(D, l), NEW h \in D \cup {NULL},
         NEW p \in D, p \notin Members(h, l), NEW c \in D \cup {NULL},
         NEW m, Changed(p, h, l, m)
  PROVE  Members(c, l) \cap Members(h, l) \subseteq Members(c, m)
<1>1. Linked(D, m) /\ Acyclic(D, m)
  BY PushAcyclic
<1>2. m[p] = h /\ \A x \in D : x # p => m[x] = l[x]
  BY DEF Linked, Changed
<1>3. Members(h, m) = Members(h, l)
  BY PushMembers
<1>4. Closed(Members(c, m), c, m) /\ Members(c, m) \subseteq D
  BY <1>1, MembersClosed
<1>5. CASE p \in Members(c, m)
  <2>1. Members(m[p], m) \subseteq Members(c, m)
    BY <1>1, <1>5, RestWithin
  <2> QED BY <1>2, <1>3, <2>1
<1>6. CASE p \notin Members(c, m)
  <2>1. Closed(Members(c, m), c, l)
    BY <1>2, <1>4, <1>6 DEF Closed
  <2>2. Members(c, l) \subseteq Members(c, m)
    BY <2>1, MembersWithin
  <2> QED BY <2>2
<1> QED BY <1>5, <1>6

\* The head is taken off the list, and its link cut.
LEMMA TakeHead ==
  ASSUME NEW D, NEW l, Linked(D, l), Acyclic(D, l), NEW p \in D, NEW m, Changed(p, NULL, l, m)
  PROVE  Linked(D, m) /\ Acyclic(D, m) /\ Members(l[p], m) = Members(p, l) \ {p}
<1>1. Linked(D, m) /\ Acyclic(D, m)
  BY CutAcyclic
<1>2. \A x \in D : x # p => m[x] = l[x]
  BY DEF Linked, Changed
<1>3. /\ Members(p, l) = {p} \cup Members(l[p], l) /\ p \notin Members(l[p], l)
      /\ l[p] \in D \cup {NULL}
  BY HeadAndRest
<1>4. Members(l[p], l) \subseteq D
  BY <1>3, MembersClosed
<1>5. Members(l[p], m) = Members(l[p], l)
  BY <1>1, <1>2, <1>3, <1>4, SameMembers
<1> QED BY <1>1, <1>3, <1>5

\* p, which is not the head, is taken off the list, and its link cut.
PastAndCut(D, Q, p, l, m) ==
    m = [x \in D |-> IF x = p THEN NULL ELSE IF x \in Q THEN l[p] ELSE l[x]]

\* Taking off an element that is not the head, and cutting its own link.
LEMMA TakeInner ==
  ASSUME NEW D, NEW l, Linked(D, l), Acyclic(D, l), NEW p \in D,
         NEW Q, \A q \in Q : q \in D /\ l[q] = p, NEW m, PastAndCut(D, Q, p, l, m),
         NEW h \in D \cup {NULL}, h # p, \A q \in Members(h, l) : l[q] = p => q \in Q
  PROVE  Linked(D, m) /\ Acyclic(D, m) /\ Members(h, m) = Members(h, l) \ {p}
<1> DEFINE k == [x \in D |-> IF x \in Q THEN l[p] ELSE l[x]]
<1>1. Past(D, Q, p, l, k)
  BY DEF Past
<1>2. Changed(p, NULL, k, m)
  BY DEF Changed, PastAndCut
<1>3. \A x \in D : x # p => m[x] = k[x]
  BY DEF PastAndCut
<1> HIDE DEF k
<1>4. Linked(D, k) /\ Acyclic(D, k)
  BY <1>1, PastAcyclic
<1>5. Members(h, k) = Members(h, l) \ {p}
  BY <1>1, PastRemoves
<1>6. Linked(D, m) /\ Acyclic(D, m)
  BY <1>2, <1>4, CutAcyclic
<1>7. Members(h, k) \subseteq D
  BY <1>4, MembersClosed
<1>8. Members(h, m) = Members(h, k)
  BY <1>3, <1>4, <1>5, <1>6, <1>7, SameMembers
<1> QED BY <1>5, <1>6, <1>8

\* The links of the processes (struct process, next).
LEMMA KernelLinks == KernelOK => Linked(Proc, next)
BY ProcessAssumption DEF KernelOK, OrNull, Linked

\* The links of the timers (struct etimer, next).
LEMMA TimerLinks == ListOK => Linked(Timer, tnext)
BY ETimerAssumption DEF ListOK, OrNull, Linked

\* unlink takes p off the process list; loops still come to all the others.
LEMMA UnlinkList ==
  ASSUME KernelOK, Acyclic(Proc, next), NEW p \in Proc, unlink(p)
  PROVE  /\ Linked(Proc, next') /\ Acyclic(Proc, next')
         /\ Members(process_list', next') = Listed \ {p}
         /\ \A c \in OrNull(Proc) : Members(c, next) \subseteq Members(c, next') \cup {p}
         /\ \A x \in Proc : next'[x] = next[x] \/ (next[x] = p /\ next'[x] = next[p])
<1>1. Linked(Proc, next) /\ process_list \in Proc \cup {NULL}
  BY KernelLinks DEF KernelOK, OrNull
<1>2. CASE p = process_list
  <2>1. process_list' = next[p] /\ next' = next
    BY <1>2 DEF unlink
  <2>2. Members(p, next) = {p} \cup Members(next[p], next) /\ p \notin Members(next[p], next)
    BY <1>1, HeadAndRest
  <2>3. Members(process_list', next') = Listed \ {p}
    BY <1>2, <2>1, <2>2 DEF Listed
  <2> QED BY <1>1, <2>1, <2>3
<1>3. CASE p # process_list
  <2> DEFINE Q == {q \in Listed : next[q] = p}
  <2>0. Listed \subseteq Proc
    BY <1>1, MembersClosed DEF Listed
  <2>1. process_list' = process_list
        /\ next' = [q \in Proc |-> IF next[q] = p /\ q \in Listed THEN next[p] ELSE next[q]]
    BY <1>3 DEF unlink
  <2>2. Past(Proc, Q, p, next, next')
    BY <2>1 DEF Past
  <2>3. \A q \in Q : q \in Proc /\ next[q] = p
    BY <2>0
  <2>4. \A q \in Members(process_list, next) : next[q] = p => q \in Q
    BY DEF Listed
  <2>5. \A x \in Proc : next'[x] = next[x] \/ (next[x] = p /\ next'[x] = next[p])
    BY <2>1
  <2> HIDE DEF Q
  <2>6. Linked(Proc, next') /\ Acyclic(Proc, next')
    BY <1>1, <2>2, <2>3, PastAcyclic
  <2>7. Members(process_list, next') = Members(process_list, next) \ {p}
    BY <1>1, <1>3, <2>2, <2>3, <2>4, PastRemoves
  <2>8. \A c \in OrNull(Proc) : Members(c, next) \subseteq Members(c, next') \cup {p}
    BY <1>1, <2>2, <2>3, PastMembers DEF OrNull
  <2> QED BY <2>1, <2>5, <2>6, <2>7, <2>8 DEF Listed
<1> QED BY <1>2, <1>3

\* process_start puts p in front of the list.
LEMMA StartList ==
  ASSUME KernelOK, Acyclic(Proc, next), NEW p \in Proc, p \notin Listed,
         process_list' = p, Changed(p, process_list, next, next')
  PROVE  /\ Linked(Proc, next') /\ Acyclic(Proc, next')
         /\ Members(process_list', next') = {p} \cup Listed
         /\ \A c \in OrNull(Proc) : Members(c, next) \cap Listed \subseteq Members(c, next')
         /\ Members(process_list, next') = Listed
         /\ next'[p] = process_list /\ \A x \in Proc : x # p => next'[x] = next[x]
<1>1. Linked(Proc, next) /\ process_list \in Proc \cup {NULL} /\ p \notin Members(process_list, next)
  BY KernelLinks DEF KernelOK, OrNull, Listed
<1>2. Linked(Proc, next') /\ Acyclic(Proc, next')
  BY <1>1, PushAcyclic
<1>3. /\ Members(process_list, next') = Members(process_list, next)
      /\ Members(p, next') = {p} \cup Members(process_list, next)
  BY <1>1, PushMembers
<1>4. \A c \in Proc \cup {NULL} : Members(c, next) \cap Members(process_list, next) \subseteq Members(c, next')
  BY <1>1, PushReaches
<1>5. next'[p] = process_list /\ \A x \in Proc : x # p => next'[x] = next[x]
  BY <1>1 DEF Linked, Changed
<1> QED BY <1>2, <1>3, <1>4, <1>5 DEF OrNull, Listed

-----------------------------------------------------------------------------
(* The list of timers.                                                     *)

\* The next links of the processes and of the timers do not lead in circles,
\* and what is on timerlist has an owner.
Lists ==
    /\ Acyclic(Proc, next) /\ Acyclic(Timer, tnext)
    /\ \A t \in Pending : owner[t] # NULL

\* ListsSound follows: lists without circles end.
LEMMA ListsAreSound ==
  ASSUME Inv, Lists
  PROVE  ListsSound
<1>1. Linked(Proc, next) /\ process_list \in Proc \cup {NULL}
  BY InvParts, KernelLinks DEF KernelOK, OrNull
<1>2. Linked(Timer, tnext) /\ timerlist \in Timer \cup {NULL}
  BY InvParts, TimerLinks DEF ListOK, OrNull
<1> QED BY <1>1, <1>2, AcyclicEnds DEF Lists, ListsSound

\* add_timer: the timer is on the list, or is put in front of it.
LEMMA AddTimerList ==
  ASSUME Inv, Lists, NEW t \in Timer, NEW st, NEW iv, add_timer(t, st, iv), process_current # NULL
  PROVE  /\ Acyclic(Timer, tnext') /\ Pending' = Pending \cup {t}
         /\ \A x \in Pending' : owner'[x] # NULL
<1>1. /\ Linked(Timer, tnext) /\ timerlist \in Timer \cup {NULL} /\ Pending \subseteq Timer
      /\ owner \in [Timer -> OrNull(Proc)]
  BY InvParts, TimerLinks, PendingTimers DEF ListOK, OrNull
<1>2. owner' = [owner EXCEPT ![t] = process_current]
  BY DEF add_timer
<1>3. CASE t \in Pending
  <2>1. UNCHANGED << timerlist, tnext >>
    BY <1>3 DEF add_timer, Lists
  <2>2. Pending' = Pending
    BY <2>1 DEF Pending
  <2> QED BY <1>1, <1>2, <1>3, <2>1, <2>2 DEF Lists
<1>4. CASE t \notin Pending
  <2>1. tnext' = [tnext EXCEPT ![t] = timerlist] /\ timerlist' = t
    BY <1>4 DEF add_timer
  <2>2. Changed(t, timerlist, tnext, tnext')
    BY <2>1 DEF Changed
  <2>3. Acyclic(Timer, tnext') /\ Members(t, tnext') = {t} \cup Members(timerlist, tnext)
    BY <1>1, <1>4, <2>2, PushAcyclic, PushMembers DEF Lists, Pending
  <2>4. Pending' = Pending \cup {t}
    BY <2>1, <2>3 DEF Pending
  <2> QED BY <1>1, <1>2, <2>3, <2>4 DEF Lists
<1> QED BY <1>3, <1>4

\* Expire and etimer_stop at the head of the list.
LEMMA HeadTaken ==
  ASSUME Inv, Lists, NEW t \in Timer, t = timerlist,
         timerlist' = tnext[t], Changed(t, NULL, tnext, tnext')
  PROVE  Acyclic(Timer, tnext') /\ Pending' = Pending \ {t} /\ t \in Pending
<1>1. Linked(Timer, tnext)
  BY InvParts, TimerLinks
<1>4. Acyclic(Timer, tnext') /\ Members(tnext[t], tnext') = Members(t, tnext) \ {t}
  BY <1>1, TakeHead DEF Lists
<1>3. t \in Members(t, tnext)
  BY <1>1, HeadAndRest DEF Lists
<1> QED BY <1>3, <1>4 DEF Pending

\* Expire at a timer t behind the timer u.
Relinked(t, u) ==
    /\ tnext[u] = t
    /\ timerlist' = timerlist /\ tnext' = [tnext EXCEPT ![t] = NULL, ![u] = tnext[t]]

\* It is taken off, and nothing else.
LEMMA InnerTaken ==
  ASSUME Inv, Lists, NEW t \in Timer, NEW u \in Pending, Relinked(t, u)
  PROVE  Acyclic(Timer, tnext') /\ Pending' = Pending \ {t} /\ t \in Pending
<1>1. /\ Linked(Timer, tnext) /\ timerlist \in Timer \cup {NULL} /\ Pending \subseteq Timer
      /\ tnext \in [Timer -> OrNull(Timer)] /\ t # NULL
  BY InvParts, TimerLinks, PendingTimers, ETimerAssumption DEF ListOK, OrNull
<1>2. u \in Timer /\ u # t /\ tnext[u] = t
  BY <1>1, HeadAndRest DEF Lists, Relinked
<1>3. t # timerlist /\ \A q \in Members(timerlist, tnext) : tnext[q] = t => q = u
  BY <1>1, <1>2, OneBefore DEF Lists, Pending
<1> DEFINE Q == {u}
<1>4. /\ PastAndCut(Timer, Q, t, tnext, tnext')
      /\ \A q \in Q : q \in Timer /\ tnext[q] = t
      /\ \A q \in Members(timerlist, tnext) : tnext[q] = t => q \in Q
  <2>1. PastAndCut(Timer, Q, t, tnext, tnext')
    BY <1>1, <1>2 DEF PastAndCut, Relinked
  <2> QED BY <1>2, <1>3, <2>1
<1> HIDE DEF Q
<1>5. Acyclic(Timer, tnext') /\ Members(timerlist, tnext') = Members(timerlist, tnext) \ {t}
  <2>1. Acyclic(Timer, tnext) /\ timerlist # t
    BY <1>3 DEF Lists
  <2> QED BY <1>1, <1>4, <2>1, TakeInner
<1>6. t \in Pending
  BY <1>1, <1>2, RestWithin DEF Lists, Pending
<1> QED BY <1>5, <1>6 DEF Pending, Relinked

\* etimer_stop at any place, also when t is not on the list.
LEMMA StopList ==
  ASSUME Inv, Lists, NEW t \in Timer, etimer_stop(t)
  PROVE  Acyclic(Timer, tnext') /\ Pending' = Pending \ {t}
<1>1. /\ Linked(Timer, tnext) /\ timerlist \in Timer \cup {NULL} /\ Pending \subseteq Timer
  BY InvParts, TimerLinks, PendingTimers DEF ListOK, OrNull
<1>2. CASE t = timerlist
  BY <1>2, HeadTaken DEF etimer_stop, Changed
<1>3. CASE t # timerlist
  <2> DEFINE Q == {u \in Pending : tnext[u] = t}
  <2>1. /\ timerlist' = timerlist
        /\ tnext' = [u \in Timer |-> IF u = t THEN NULL
                                     ELSE IF u \in Pending /\ tnext[u] = t THEN tnext[t]
                                     ELSE tnext[u]]
    BY <1>3 DEF etimer_stop
  <2>2. PastAndCut(Timer, Q, t, tnext, tnext')
    BY <2>1 DEF PastAndCut
  <2>3. /\ \A q \in Q : q \in Timer /\ tnext[q] = t
        /\ \A q \in Members(timerlist, tnext) : tnext[q] = t => q \in Q
    BY <1>1 DEF Pending
  <2> HIDE DEF Q
  <2>4. Acyclic(Timer, tnext') /\ Members(timerlist, tnext') = Members(timerlist, tnext) \ {t}
    <3>1. Acyclic(Timer, tnext) /\ timerlist # t
      BY <1>3 DEF Lists
    <3> QED BY <1>1, <2>2, <2>3, <3>1, TakeInner
  <2> QED BY <2>1, <2>4 DEF Pending
<1> QED BY <1>2, <1>3

\* DropNext takes off the timer n behind t.
LEMMA NextDropped ==
  ASSUME Inv, Lists, NEW t \in Pending, NEW n \in Timer, tnext[t] = n,
         timerlist' = timerlist, tnext' = [tnext EXCEPT ![t] = tnext[n]]
  PROVE  /\ Acyclic(Timer, tnext') /\ Pending' = Pending \ {n} /\ n \in Pending
         /\ t # n /\ Members(n, tnext) \subseteq {n} \cup Members(tnext'[t], tnext')
<1>1. /\ Linked(Timer, tnext) /\ timerlist \in Timer \cup {NULL} /\ Pending \subseteq Timer
      /\ tnext \in [Timer -> OrNull(Timer)] /\ n # NULL
  BY InvParts, TimerLinks, PendingTimers, ETimerAssumption DEF ListOK, OrNull
<1>2. t \in Timer /\ t # n /\ tnext'[t] = tnext[n]
  BY <1>1, HeadAndRest DEF Lists
<1>3. n # timerlist /\ \A q \in Members(timerlist, tnext) : tnext[q] = n => q = t
  BY <1>1, OneBefore DEF Lists, Pending
<1> DEFINE Q == {t}
<1>4. Past(Timer, Q, n, tnext, tnext')
  BY <1>1, <1>2 DEF Past
<1>5. /\ \A q \in Q : q \in Timer /\ tnext[q] = n
      /\ \A q \in Members(timerlist, tnext) : tnext[q] = n => q \in Q
  BY <1>2, <1>3
<1> HIDE DEF Q
<1>6. Acyclic(Timer, tnext')
  BY <1>1, <1>4, <1>5, PastAcyclic DEF Lists
<1>7. Members(timerlist, tnext') = Members(timerlist, tnext) \ {n}
  BY <1>1, <1>3, <1>4, <1>5, PastRemoves DEF Lists
<1>8. n \in Pending
  BY <1>1, RestWithin DEF Lists, Pending
<1>9. Members(n, tnext) = {n} \cup Members(tnext[n], tnext) /\ tnext[n] \in Timer \cup {NULL}
  BY <1>1, HeadAndRest DEF Lists
<1>10. Members(tnext[n], tnext) \subseteq Members(tnext[n], tnext') \cup {n}
  BY <1>1, <1>4, <1>5, <1>9, PastMembers DEF Lists
<1> QED BY <1>2, <1>6, <1>7, <1>8, <1>9, <1>10 DEF Pending

\* DropHead takes off the head, and leaves its link.
LEMMA HeadDropped ==
  ASSUME Inv, Lists, timerlist # NULL, timerlist' = tnext[timerlist], tnext' = tnext
  PROVE  Pending' = Pending \ {timerlist} /\ timerlist \in Pending
<1>1. Linked(Timer, tnext) /\ timerlist \in Timer
  BY InvParts, TimerLinks DEF ListOK, OrNull
<1>2. /\ Members(timerlist, tnext) = {timerlist} \cup Members(tnext[timerlist], tnext)
      /\ timerlist \notin Members(tnext[timerlist], tnext)
  BY <1>1, HeadAndRest DEF Lists
<1> QED BY <1>2 DEF Pending

-----------------------------------------------------------------------------
(* The thread of etimer_process among the others.                          *)

\* The events that are posted.
Posts == {"msg", "exit", "timer"}

\* A frame of the thread of etimer_process.
OfService(f) == \/ f.fn \in {"etimer", "drop"}
                \/ f.fn = "thread" /\ f.p = etimer_process

\* The other frames.  Only applications exit.
Plain == {f \in Frame : /\ ~OfService(f)
                        /\ f.fn \in {"exit_process", "exit thread"} => f.p \in App
                        /\ f.fn = "do_event" => f.ev \in Posts}

\* etimer_process makes no call that runs another thread.
StackOK == \/ stack \in Seq(Plain)
           \/ stack # << >> /\ Below \in Seq(Plain) /\ OfService(Top)

\* etimer_process is started before any other process, and never exits.
Booting == main.at = "boot" /\ main.i = 1
Started ==
    IF Booting THEN stack = << >> /\ process_list = NULL /\ timerlist = NULL
    ELSE etimer_process \in Listed /\ state[etimer_process] # "none"
CalledOnTop == state[etimer_process] = "called" => stack # << >> /\ OfService(Top)

\* No timer is set before etimer_process is initialised.
InitFirst == ServiceCalled("init") => timerlist = NULL

\* Where the loops of etimer_process are.  Those that DropNext has passed are
\* not of the process that exited.
ScanAt ==
    Executing("etimer") =>
      IF Top.u = NULL THEN Top.t = timerlist ELSE Top.u \in Pending /\ tnext[Top.u] = Top.t
DropAt ==
    Executing("drop") /\ Top.t # NULL =>
      /\ Top.t \in Pending
      /\ \A x \in Pending : owner[x] = Top.gone => x \in Members(tnext[Top.t], tnext)

QueuePosts == \A i \in 0..(NUMEVENTS - 1) : events[i].ev \in Posts

ServiceInv ==
    /\ calls \in Nat /\ QueuePosts /\ StackOK /\ Started /\ CalledOnTop
    /\ InitFirst /\ ScanAt /\ DropAt

-----------------------------------------------------------------------------
\* A stack of plain frames: its top and what is below.
LEMMA PlainTop ==
  ASSUME NEW s \in Seq(Plain), s # << >>
  PROVE  s[Len(s)] \in Plain /\ ~OfService(s[Len(s)]) /\ SubSeq(s, 1, Len(s) - 1) \in Seq(Plain)
<1>1. Len(s) \in Nat /\ Len(s) >= 1 /\ s[Len(s)] \in Plain
  OBVIOUS
<1>2. SubSeq(s, 1, Len(s) - 1) \in Seq(Plain)
  <2>1. \A k \in 1..(Len(s) - 1) : s[k] \in Plain
    BY <1>1
  <2>2. 1 \in Int /\ Len(s) - 1 \in Int
    BY <1>1
  <2> QED BY <2>1, <2>2, SubSeqProperties, SMT
<1> QED BY <1>1, <1>2 DEF Plain

\* The empty stack, of main.
LEMMA EmptyPlain == << >> \in Seq(Plain)
OBVIOUS

\* While its thread does not execute, etimer_process can be called.
LEMMA CalmNow ==
  ASSUME Inv, ServiceInv, stack = << >> \/ ~OfService(Top), ~Booting
  PROVE  /\ stack \in Seq(Plain) /\ state[etimer_process] = "running" /\ etimer_process \in Listed
         /\ stack # << >> => Below \in Seq(Plain) /\ Top \in Plain
<1>1. stack \in Seq(Plain)
  BY EmptyPlain DEF ServiceInv, StackOK
<1>2. etimer_process \in Listed /\ state[etimer_process] \notin {"none", "called"}
  BY DEF ServiceInv, Started, CalledOnTop
<1>3. state[etimer_process] \in States
  BY InvParts, ETimerAssumption DEF KernelOK, Proc
<1>4. stack # << >> => Below \in Seq(Plain) /\ Top \in Plain
  BY <1>1, PlainTop DEF Below, Top
<1> QED BY <1>1, <1>2, <1>3, <1>4 DEF States

\* A step to a stack without the thread of etimer_process.
LEMMA CalmStep ==
  ASSUME stack' \in Seq(Plain), ~Booting', etimer_process \in Listed',
         state'[etimer_process] = "running", QueuePosts', calls' \in Nat
  PROVE  ServiceInv'
<1>1. stack' # << >> => ~OfService(stack'[Len(stack')])
  BY PlainTop
<1>2. /\ stack' # << >> => stack'[Len(stack')].fn \notin {"etimer", "drop"}
      /\ stack' # << >> /\ stack'[Len(stack')].fn = "thread" =>
           stack'[Len(stack')].p # etimer_process
  BY <1>1 DEF OfService
<1>3. StackOK' /\ Started' /\ CalledOnTop'
  BY DEF StackOK, Started, CalledOnTop
<1>4. InitFirst' /\ ScanAt' /\ DropAt'
  BY <1>2 DEF InitFirst, ScanAt, DropAt, ServiceCalled, Executing, Top
<1> QED BY <1>3, <1>4 DEF ServiceInv

\* A call of a thread.
LEMMA CallStep ==
  ASSUME NEW st \in [Proc -> States], NEW p \in Proc, NEW ev \in Ids, NEW data \in Datum,
         NEW b \in Seq(Plain), call_process(st, p, ev, data, b),
         st[etimer_process] = "running", ~Booting', etimer_process \in Listed',
         QueuePosts', calls' \in Nat, p = etimer_process /\ ev = "init" => timerlist' = NULL
  PROVE  ServiceInv'
<1> DEFINE f == Thread(p, ev, data)
<1>1. f \in Frame /\ f.fn = "thread" /\ f.p = p /\ f.ev = ev
  BY ThreadFrames DEF Thread
<1>2. CASE st[p] # "running"
  <2>1. state' = st /\ stack' = b
    BY <1>2 DEF call_process
  <2> QED BY <2>1, CalmStep
<1>3. CASE st[p] = "running"
  <2>1. state' = [st EXCEPT ![p] = "called"] /\ stack' = Append(b, f)
    BY <1>3 DEF call_process
  <2> HIDE DEF f
  <2>2. CASE p # etimer_process
    <3>1. f \in Plain
      BY <1>1, <2>2 DEF Plain, OfService
    <3>2. stack' \in Seq(Plain)
      BY <2>1, <3>1
    <3>3. state'[etimer_process] = "running"
      BY <2>1, <2>2, ETimerAssumption DEF Proc
    <3> QED BY <3>2, <3>3, CalmStep
  <2>3. CASE p = etimer_process
    <3>1. /\ stack' # << >> /\ stack'[Len(stack')] = f
          /\ SubSeq(stack', 1, Len(stack') - 1) = b
      BY <2>1
    <3>2. OfService(f)
      BY <1>1, <2>3 DEF OfService
    <3>3. StackOK' /\ CalledOnTop'
      BY <3>1, <3>2 DEF StackOK, CalledOnTop, Top, Below
    <3>4. Started'
      BY <2>1, <2>3 DEF Started
    <3>5. InitFirst'
      BY <1>1, <2>3, <3>1 DEF InitFirst, ServiceCalled, Executing, Top
    <3>6. ScanAt' /\ DropAt'
      BY <1>1, <3>1 DEF ScanAt, DropAt, Executing, Top
    <3> QED BY <3>3, <3>4, <3>5, <3>6 DEF ServiceInv
  <2> QED BY <2>2, <2>3
<1> QED BY <1>2, <1>3

-----------------------------------------------------------------------------
(* The process list.                                                       *)

\* What a step may do to the process list.
Starting(x) == x \notin Listed /\ process_list' = x /\ Changed(x, process_list, next, next')
Relinks == \/ UNCHANGED listVars
           \/ \E x \in App : unlink(x)
           \/ \E x \in Proc : Starting(x)

\* The process list has no circle after a step, and etimer_process stays on it.
LEMMA RelinksKeep ==
  ASSUME Inv, Lists, Relinks
  PROVE  /\ Acyclic(Proc, next')
         /\ etimer_process \in Listed => etimer_process \in Listed'
<1>1. KernelOK /\ Acyclic(Proc, next)
  BY InvParts DEF Lists
<1>2. etimer_process \notin App
  BY ETimerAssumption, ProcessAssumption
<1>3. CASE UNCHANGED listVars
  BY <1>1, <1>3 DEF listVars, Listed
<1>4. CASE \E x \in App : unlink(x)
  BY <1>1, <1>2, <1>4, UnlinkList DEF Listed, Proc
<1>5. CASE \E x \in Proc : Starting(x)
  BY <1>1, <1>5, StartList DEF Listed, Starting
<1> QED BY <1>3, <1>4, <1>5 DEF Relinks

\* process_start puts a process in front of the list, or leaves it.
LEMMA StartRelinks ==
  ASSUME NEW p \in Proc, NEW frames, process_start(p, frames)
  PROVE  Relinks
BY DEF process_start, Relinks, Starting, Changed

\* exit_process up to its first call takes an application off, or leaves the list.
LEMMA ExitRelinks ==
  ASSUME NEW p \in App, NEW from, NEW frames, exit_process(p, from, frames)
  PROVE  Relinks
BY DEF exit_process, Relinks

\* exit_process on a stack without etimer_process.
LEMMA ExitStep ==
  ASSUME Inv, Lists, NEW p \in App, NEW from \in OrNull(Proc), NEW frames \in Seq(Plain),
         exit_process(p, from, frames), state[etimer_process] = "running",
         ~Booting', etimer_process \in Listed, QueuePosts', calls' \in Nat
  PROVE  ServiceInv'
<1>1. etimer_process \in Listed'
  BY ExitRelinks, RelinksKeep
<1>2. state'[etimer_process] = "running"
  <2>1. etimer_process # p /\ etimer_process \in Proc
    BY ETimerAssumption, ProcessAssumption DEF Proc
  <2> QED BY <2>1, InvParts DEF exit_process, KernelOK
<1>3. stack' \in Seq(Plain)
  <2> DEFINE f == Exiting(p, from, process_list, process_current, "tell")
  <2>1. f \in Plain
    BY InvParts, AppIsProc DEF Exiting, Frame, ExitFrame, Plain, OfService, KernelOK
  <2>2. stack' = frames \/ stack' = Append(frames, f)
    BY DEF exit_process
  <2> HIDE DEF f
  <2> QED BY <2>1, <2>2
<1> QED BY <1>1, <1>2, <1>3, CalmStep

\* process_start on a stack without etimer_process.
LEMMA StartStep ==
  ASSUME Inv, Lists, NEW p \in Proc, NEW frames \in Seq(Plain),
         process_start(p, frames), state[etimer_process] = "running",
         ~Booting', etimer_process \in Listed, QueuePosts', calls' \in Nat
  PROVE  ServiceInv'
<1>1. etimer_process \in Listed'
  BY StartRelinks, RelinksKeep
<1>2. CASE p \in Listed
  <2>1. stack' = frames /\ state' = state
    BY <1>2 DEF process_start
  <2> QED BY <1>1, <2>1, CalmStep
<1>3. CASE p \notin Listed
  <2> DEFINE st == [state EXCEPT ![p] = "running"]  f == Synch(process_current)
  <2>1. call_process(st, p, "init", NULL, Append(frames, f))
    BY <1>3 DEF process_start
  <2>2. st \in [Proc -> States] /\ st[etimer_process] = "running" /\ "init" \in Ids /\ NULL \in Datum
    BY InvParts, ETimerAssumption DEF KernelOK, States, Ids, Datum, Proc
  <2>3. f \in Plain
    BY InvParts DEF Synch, Frame, SynchFrame, Plain, OfService, KernelOK
  <2> HIDE DEF f, st
  <2>4. Append(frames, f) \in Seq(Plain)
    BY <2>3
  <2>5. p # etimer_process
    BY <1>3
  <2> QED BY <1>1, <2>1, <2>2, <2>4, <2>5, CallStep
<1> QED BY <1>2, <1>3

\* The frames of the kernel's loops.
LEMMA PlainFrames ==
  ASSUME Inv, NEW q \in OrNull(Proc)
  PROVE  /\ \A at \in {"visit", "next"} : Polling(q, at) \in Plain
         /\ \A ev \in Posts, data \in Datum, at \in {"poll", "call", "next"} :
              Broadcast(q, ev, data, at) \in Plain
         /\ \A p \in App, from \in OrNull(Proc), old \in OrNull(Proc),
               at \in {"tell", "told", "unlink"} : Exiting(p, from, q, old, at) \in Plain
         /\ Synch(q) \in Plain
<1>1. \A at \in {"visit", "next"} : Polling(q, at) \in Plain
  BY DEF Polling, Frame, PollFrame, Plain, OfService
<1>2. \A ev \in Posts, data \in Datum, at \in {"poll", "call", "next"} :
        Broadcast(q, ev, data, at) \in Plain
  BY DEF Broadcast, Frame, EventFrame, Plain, OfService, Posts, Ids
<1>3. \A p \in App, from \in OrNull(Proc), old \in OrNull(Proc),
         at \in {"tell", "told", "unlink"} : Exiting(p, from, q, old, at) \in Plain
  BY AppIsProc DEF Exiting, Frame, ExitFrame, Plain, OfService
<1>4. Synch(q) \in Plain
  BY DEF Synch, Frame, SynchFrame, Plain, OfService
<1> QED BY <1>1, <1>2, <1>3, <1>4

\* etimer_process is no application.
LEMMA EtimerIsProc == etimer_process \in Proc /\ etimer_process \notin App
BY ETimerAssumption, ProcessAssumption DEF Proc

\* The kernel posts no event itself, and makes no call of the applications.
LEMMA KernelKeeps ==
  ASSUME ServiceInv, KernelStep
  PROVE  QueuePosts' /\ calls' \in Nat
<1>1. UNCHANGED << events, calls >>
  BY DEF KernelStep, MainStart, MainStarted, RunPolls, RunEvent, MainLoop, MainSleep, PollStep,
     BroadcastStep, ExitTells, ExitCalls, ExitUnlinks, SynchReturns, ThreadReturns,
     ExitThreadReturns, queueVars
<1> QED BY <1>1 DEF ServiceInv, QueuePosts

\* Main starts etimer_process, then the others.
LEMMA MainStartService ==
  ASSUME Inv, Lists, ServiceInv, MainStart, UNCHANGED timerVars
  PROVE  ServiceInv' /\ Relinks
<1>0. QueuePosts' /\ calls' \in Nat
  BY KernelKeeps DEF KernelStep
<1>1. /\ main.at = "boot" /\ stack = << >> /\ main.i \in Nat \ {0} /\ main.i <= Len(AutoStart)
      /\ main' = Boot(main.i + 1)
  BY InvParts DEF MainStart, MainAt, MainOK
<1>2. AutoStart[main.i] \in Proc /\ process_start(AutoStart[main.i], << >>)
  BY <1>1, ProcessAssumption DEF MainStart
<1>3. ~Booting'
  BY <1>1 DEF Booting, Boot
<1>4. Relinks
  BY <1>2, StartRelinks
<1>5. CASE main.i # 1
  <2>1. ~Booting
    BY <1>5 DEF Booting
  <2>2. state[etimer_process] = "running" /\ etimer_process \in Listed
    BY <1>1, <2>1, CalmNow
  <2> QED BY <1>0, <1>2, <1>3, <1>4, <2>2, EmptyPlain, StartStep
<1>6. CASE main.i = 1
  <2>1. process_list = NULL /\ timerlist = NULL
    BY <1>1, <1>6 DEF ServiceInv, Started, Booting
  <2>2. AutoStart[main.i] = etimer_process
    BY <1>6, ETimerAssumption
  <2>3. Listed = {}
    BY <2>1, InvParts, KernelLinks, MembersOfNull DEF Listed
  <2> DEFINE st == [state EXCEPT ![etimer_process] = "running"]  b == Append(<< >>, Synch(process_current))
  <2>4. Starting(etimer_process) /\ call_process(st, etimer_process, "init", NULL, b)
    BY <1>2, <2>2, <2>3 DEF process_start, Starting, Changed
  <2>5. etimer_process \in Listed'
    <3>1. KernelOK /\ Acyclic(Proc, next)
      BY InvParts DEF Lists
    <3> QED BY <2>4, <3>1, EtimerIsProc, StartList DEF Starting, Listed
  <2>6. st \in [Proc -> States] /\ st[etimer_process] = "running" /\ "init" \in Ids /\ NULL \in Datum
    BY InvParts, EtimerIsProc DEF KernelOK, States, Ids, Datum
  <2>7. b \in Seq(Plain)
    <3>1. Synch(process_current) \in Plain
      BY InvParts, PlainFrames DEF KernelOK
    <3> QED BY <3>1, EmptyPlain
  <2>8. timerlist' = NULL
    BY <2>1 DEF timerVars, tlistVars
  <2> HIDE DEF st, b
  <2>9. ServiceInv'
    BY <1>0, <1>3, <2>4, <2>5, <2>6, <2>7, <2>8, EtimerIsProc, CallStep
  <2> QED BY <1>4, <2>9
<1> QED BY <1>5, <1>6

\* The other steps of main.
LEMMA MainService ==
  ASSUME Inv, Lists, ServiceInv,
         MainStarted \/ RunPolls \/ MainLoop \/ MainSleep
  PROVE  ServiceInv' /\ Relinks
<1>0. QueuePosts' /\ calls' \in Nat
  BY KernelKeeps DEF KernelStep
<1>1. stack = << >> /\ ~Booting'
  BY DEF MainStarted, RunPolls, MainLoop, MainSleep, MainAt, Booting, At
<1>2. ~Booting
  BY ETimerAssumption, ProcessAssumption
     DEF MainStarted, RunPolls, MainLoop, MainSleep, MainAt, Booting
<1>3. state[etimer_process] = "running" /\ etimer_process \in Listed
  BY <1>1, <1>2, CalmNow
<1>4. UNCHANGED << listVars, state >>
  BY DEF MainStarted, RunPolls, MainLoop, MainSleep
<1>5. stack' \in Seq(Plain)
  <2> DEFINE f == Polling(process_list, "visit")
  <2>1. f \in Plain
    BY InvParts, PlainFrames DEF KernelOK
  <2>2. stack' = << >> \/ stack' = Append(<< >>, f)
    BY <1>1 DEF MainStarted, RunPolls, MainLoop, MainSleep, StartPolling
  <2> HIDE DEF f
  <2>3. Append(<< >>, f) \in Seq(Plain)
    BY <2>1, EmptyPlain
  <2> QED BY <2>2, <2>3, EmptyPlain
<1>6. etimer_process \in Listed'
  BY <1>3, <1>4 DEF Listed, listVars
<1>7. ServiceInv'
  BY <1>0, <1>1, <1>3, <1>4, <1>5, <1>6, CalmStep
<1> QED BY <1>4, <1>7 DEF Relinks

\* do_event delivers to one process, or starts a broadcast.
LEMMA RunEventService ==
  ASSUME Inv, Lists, ServiceInv, RunEvent
  PROVE  ServiceInv' /\ Relinks
<1>0. QueuePosts' /\ calls' \in Nat
  BY KernelKeeps DEF KernelStep
<1>1. stack = << >> /\ ~Booting' /\ ~Booting
  BY DEF RunEvent, MainAt, Booting, At
<1>3. state[etimer_process] = "running" /\ etimer_process \in Listed
  BY <1>1, CalmNow
<1>4. UNCHANGED listVars
  BY DEF RunEvent
<1>5. etimer_process \in Listed'
  BY <1>3, <1>4 DEF Listed, listVars
<1>6. CASE nevents = 0
  <2>1. UNCHANGED << stack, state >>
    BY <1>6 DEF RunEvent
  <2>2. stack' \in Seq(Plain)
    BY <1>1, <2>1, EmptyPlain
  <2>3. ServiceInv'
    BY <1>0, <1>1, <1>3, <1>5, <2>1, <2>2, CalmStep
  <2> QED BY <1>4, <2>3 DEF Relinks
<1>7. CASE nevents # 0
  <2> DEFINE e == events[fevent]
  <2>1. e \in QueuedEvent /\ e.ev \in Posts
    BY InvParts DEF QueueOK, ServiceInv, QueuePosts
  <2>2. e.ev \in Ids /\ e.data \in Datum /\ e.p \in OrNull(Proc) /\ e.ev # "init"
    BY <2>1 DEF QueuedEvent, Datum, OrNull, Posts
  <2>3. IF e.p = NULL
        THEN /\ stack' = << Broadcast(process_list, e.ev, e.data, "poll") >>
             /\ UNCHANGED << state, process_current >>
        ELSE call_process(state, e.p, e.ev, e.data, << >>)
    BY <1>7, <2>2 DEF RunEvent
  <2> HIDE DEF e
  <2>4. CASE e.p = NULL
    <3> DEFINE f == Broadcast(process_list, e.ev, e.data, "poll")
    <3>1. f \in Plain
      BY <2>1, <2>2, InvParts, PlainFrames DEF KernelOK
    <3>4. stack' = << f >> /\ state' = state
      BY <2>3, <2>4
    <3> HIDE DEF f
    <3>2. stack' \in Seq(Plain) /\ state' = state
      BY <3>1, <3>4
    <3>3. ServiceInv'
      BY <1>0, <1>1, <1>3, <1>5, <3>2, CalmStep
    <3> QED BY <1>4, <3>3 DEF Relinks
  <2>5. CASE e.p # NULL
    <3>1. e.p \in Proc /\ state \in [Proc -> States]
      BY <2>2, <2>5, InvParts DEF OrNull, KernelOK
    <3>2. ServiceInv'
      BY <1>0, <1>1, <1>3, <1>5, <2>2, <2>3, <2>5, <3>1, EmptyPlain, CallStep
    <3> QED BY <1>4, <3>2 DEF Relinks
  <2> QED BY <2>4, <2>5
<1> QED BY <1>6, <1>7

\* A step of a kernel function: etimer_process is not executing.
LEMMA KernelTop ==
  ASSUME Inv, ServiceInv, stack # << >>, ~OfService(Top)
  PROVE  /\ Below \in Seq(Plain) /\ Top \in Plain /\ ~Booting /\ stack \in Seq(Plain)
         /\ state[etimer_process] = "running" /\ etimer_process \in Listed
         /\ state \in [Proc -> States] /\ process_list \in OrNull(Proc)
<1>1. ~Booting
  BY DEF ServiceInv, Started
<1> QED BY <1>1, CalmNow, InvParts DEF KernelOK

\* do_poll.
LEMMA PollStepService ==
  ASSUME Inv, Lists, ServiceInv, PollStep
  PROVE  ServiceInv' /\ Relinks
<1>0. QueuePosts' /\ calls' \in Nat
  BY KernelKeeps DEF KernelStep
<1>1. Executing("do_poll") /\ stack # << >> /\ ~OfService(Top)
  BY DEF PollStep, Executing, OfService
<1>2. Below \in Seq(Plain) /\ ~Booting /\ state[etimer_process] = "running"
      /\ etimer_process \in Listed /\ state \in [Proc -> States]
  BY <1>1, KernelTop
<1>3. UNCHANGED << listVars, main >>
  BY DEF PollStep
<1>4. ~Booting' /\ etimer_process \in Listed' /\ Relinks
  BY <1>2, <1>3 DEF Booting, Listed, listVars, Relinks
<1>5. Top.p \in OrNull(Proc)
  BY <1>1, TopLoop DEF PollFrame
<1>6. CASE Top.p = NULL
  <2>1. stack' = Below /\ state' = state
    BY <1>6 DEF PollStep, Return
  <2> QED BY <1>0, <1>2, <1>4, <2>1, CalmStep
<1>7. CASE /\ Top.p # NULL
           /\ call_process([state EXCEPT ![Top.p] = "running"], Top.p, "poll", NULL,
                           Append(Below, Polling(Top.p, "next")))
  <2> DEFINE b == Append(Below, Polling(Top.p, "next"))  st == [state EXCEPT ![Top.p] = "running"]
  <2>1. b \in Seq(Plain)
    <3>1. Polling(Top.p, "next") \in Plain
      BY <1>5, PlainFrames
    <3> QED BY <1>2, <3>1
  <2>2. st \in [Proc -> States] /\ st[etimer_process] = "running" /\ Top.p \in Proc
        /\ "poll" \in Ids /\ NULL \in Datum
    BY <1>2, <1>5, <1>7, EtimerIsProc DEF States, Ids, Datum, OrNull
  <2>3. call_process(st, Top.p, "poll", NULL, b)
    BY <1>7
  <2> HIDE DEF b, st
  <2> QED BY <1>0, <1>4, <2>1, <2>2, <2>3, CallStep
<1>8. CASE Top.p # NULL /\ Goto(Polling(next[Top.p], "visit")) /\ UNCHANGED state
  <2>1. next[Top.p] \in OrNull(Proc)
    BY <1>5, <1>8, InvParts DEF KernelOK, OrNull
  <2>2. Polling(next[Top.p], "visit") \in Plain
    BY <2>1, PlainFrames
  <2>3. stack' \in Seq(Plain) /\ state' = state
    BY <1>2, <1>8, <2>2 DEF Goto
  <2> QED BY <1>0, <1>2, <1>4, <2>3, CalmStep
<1> QED BY <1>6, <1>7, <1>8 DEF PollStep

\* The broadcast of do_event.
LEMMA BroadcastStepService ==
  ASSUME Inv, Lists, ServiceInv, BroadcastStep
  PROVE  ServiceInv' /\ Relinks
<1> DEFINE Cursor(q, at) == Broadcast(q, Top.ev, Top.data, at)
<1>0. QueuePosts' /\ calls' \in Nat
  BY KernelKeeps DEF KernelStep
<1>1. Executing("do_event") /\ stack # << >> /\ ~OfService(Top)
  BY DEF BroadcastStep, Executing, OfService
<1>2. Below \in Seq(Plain) /\ ~Booting /\ state[etimer_process] = "running" /\ Top \in Plain
      /\ etimer_process \in Listed /\ state \in [Proc -> States] /\ process_list \in OrNull(Proc)
  BY <1>1, KernelTop
<1>3. UNCHANGED << listVars, main >>
  BY DEF BroadcastStep
<1>4. ~Booting' /\ etimer_process \in Listed' /\ Relinks
  BY <1>2, <1>3 DEF Booting, Listed, listVars, Relinks
<1>5. Top.p \in OrNull(Proc) /\ Top.data \in Datum /\ Top.ev \in Ids
  BY <1>1, TopLoop DEF EventFrame
<1>6. Top.ev \in Posts
  BY <1>1, <1>2 DEF Plain, Executing
<1>7. ASSUME NEW q \in OrNull(Proc), NEW at \in {"poll", "call", "next"}
      PROVE  Append(Below, Cursor(q, at)) \in Seq(Plain)
  <2>1. Cursor(q, at) \in Plain
    BY <1>5, <1>6, PlainFrames
  <2> HIDE DEF Cursor
  <2> QED BY <1>2, <2>1
<1>8. ASSUME stack' \in Seq(Plain), UNCHANGED state
      PROVE  ServiceInv' /\ Relinks
  BY <1>0, <1>2, <1>4, <1>8, CalmStep
<1>9. CASE Top.p = NULL /\ Return /\ UNCHANGED state
  BY <1>2, <1>8, <1>9 DEF Return
<1>10. CASE /\ IF poll_requested
               THEN StartPolling(Append(Below, Cursor(Top.p, "call")))
               ELSE Goto(Cursor(Top.p, "call")) /\ UNCHANGED poll_requested
            /\ UNCHANGED state
  <2>1. Append(Below, Cursor(Top.p, "call")) \in Seq(Plain)
    BY <1>5, <1>7
  <2>2. Polling(process_list, "visit") \in Plain
    BY <1>2, PlainFrames
  <2> DEFINE b == Append(Below, Cursor(Top.p, "call"))
  <2>3. stack' = b \/ stack' = Append(b, Polling(process_list, "visit"))
    BY <1>10 DEF StartPolling, Goto
  <2> HIDE DEF b, Cursor
  <2>4. stack' \in Seq(Plain)
    BY <2>1, <2>2, <2>3 DEF b
  <2> QED BY <1>8, <1>10, <2>4
<1>11. CASE /\ Top.p # NULL
            /\ call_process(state, Top.p, Top.ev, Top.data, Append(Below, Cursor(Top.p, "next")))
  <2>1. Append(Below, Cursor(Top.p, "next")) \in Seq(Plain) /\ Top.p \in Proc
    BY <1>5, <1>7, <1>11 DEF OrNull
  <2>2. Top.ev # "init"
    BY <1>6 DEF Posts
  <2> HIDE DEF Cursor
  <2> QED BY <1>0, <1>2, <1>4, <1>5, <1>11, <2>1, <2>2, CallStep
<1>12. CASE Top.p # NULL /\ Goto(Cursor(next[Top.p], "poll")) /\ UNCHANGED state
  <2>1. next[Top.p] \in OrNull(Proc)
    BY <1>5, <1>12, InvParts DEF KernelOK, OrNull
  <2> QED BY <1>7, <1>8, <1>12, <2>1 DEF Goto
<1> QED BY <1>9, <1>10, <1>11, <1>12 DEF BroadcastStep

\* exit_process tells the processes on the list.
LEMMA ExitTellsService ==
  ASSUME Inv, Lists, ServiceInv, ExitTells
  PROVE  ServiceInv' /\ Relinks
<1> DEFINE Cursor(q, at) == Exiting(Top.p, Top.from, q, Top.old, at)
<1>0. QueuePosts' /\ calls' \in Nat
  BY KernelKeeps DEF KernelStep
<1>1. Executing("exit_process") /\ stack # << >> /\ ~OfService(Top) /\ Top.q # NULL
  BY DEF ExitTells, Executing, OfService
<1>2. Below \in Seq(Plain) /\ ~Booting /\ state[etimer_process] = "running" /\ Top \in Plain
      /\ etimer_process \in Listed /\ state \in [Proc -> States]
  BY <1>1, KernelTop
<1>3. UNCHANGED << listVars, main >>
  BY DEF ExitTells
<1>4. ~Booting' /\ etimer_process \in Listed' /\ Relinks
  BY <1>2, <1>3 DEF Booting, Listed, listVars, Relinks
<1>5. /\ Top.p \in App /\ Top.from \in OrNull(Proc) /\ Top.q \in Proc /\ Top.old \in OrNull(Proc)
      /\ Top.p \in Datum /\ "exited" \in Ids
  <2>1. Top.from \in OrNull(Proc) /\ Top.q \in Proc /\ Top.old \in OrNull(Proc)
    BY <1>1, TopSaved DEF ExitFrame, OrNull
  <2>2. Top.p \in App
    BY <1>1, <1>2 DEF Plain, Executing
  <2> QED BY <2>1, <2>2 DEF Datum, Proc, Ids
<1>6. ASSUME NEW q \in OrNull(Proc), NEW at \in {"tell", "told", "unlink"}
      PROVE  Append(Below, Cursor(q, at)) \in Seq(Plain)
  <2>1. Cursor(q, at) \in Plain
    BY <1>5, PlainFrames
  <2> HIDE DEF Cursor
  <2> QED BY <1>2, <2>1
<1>7. CASE call_process(state, Top.q, "exited", Top.p, Append(Below, Cursor(Top.q, "told")))
  <2>1. Append(Below, Cursor(Top.q, "told")) \in Seq(Plain)
    BY <1>5, <1>6 DEF OrNull
  <2> HIDE DEF Cursor
  <2> QED BY <1>0, <1>2, <1>4, <1>5, <1>7, <2>1, CallStep
<1>8. CASE Goto(Cursor(next[Top.q], "tell")) /\ UNCHANGED state
  <2>1. next[Top.q] \in OrNull(Proc)
    BY <1>5, InvParts DEF KernelOK
  <2>2. stack' \in Seq(Plain)
    BY <1>6, <1>8, <2>1 DEF Goto
  <2> QED BY <1>0, <1>2, <1>4, <1>8, <2>2, CalmStep
<1> QED BY <1>7, <1>8 DEF ExitTells

\* exit_process calls the thread of the process itself.
LEMMA ExitCallsService ==
  ASSUME Inv, Lists, ServiceInv, ExitCalls
  PROVE  ServiceInv' /\ Relinks
<1> DEFINE last == Exiting(Top.p, Top.from, NULL, Top.old, "unlink")
<1>0. QueuePosts' /\ calls' \in Nat
  BY KernelKeeps DEF KernelStep
<1>1. Executing("exit_process") /\ stack # << >> /\ ~OfService(Top)
  BY DEF ExitCalls, Executing, OfService
<1>2. Below \in Seq(Plain) /\ ~Booting /\ state[etimer_process] = "running" /\ Top \in Plain
      /\ etimer_process \in Listed /\ state \in [Proc -> States]
  BY <1>1, KernelTop
<1>3. UNCHANGED << listVars, main, state >>
  BY DEF ExitCalls
<1>4. ~Booting' /\ etimer_process \in Listed' /\ Relinks
  BY <1>2, <1>3 DEF Booting, Listed, listVars, Relinks
<1>5. Top.p \in App /\ Top.from \in OrNull(Proc) /\ Top.old \in OrNull(Proc) /\ NULL \in OrNull(Proc)
  BY <1>1, <1>2, TopSaved DEF Plain, Executing, ExitFrame, OrNull
<1>6. last \in Plain
  BY <1>5, PlainFrames
<1>7. ExitThread(Top.p) \in Plain
  BY <1>5, EtimerIsProc, AppIsProc DEF ExitThread, Plain, OfService, Frame, ThreadFrame, Ids, Datum
<1>8. \/ stack' = Append(Below, last)
      \/ stack' = Append(Append(Below, last), ExitThread(Top.p))
  BY DEF ExitCalls, Goto
<1> HIDE DEF last
<1>9. stack' \in Seq(Plain)
  BY <1>2, <1>6, <1>7, <1>8
<1> QED BY <1>0, <1>2, <1>3, <1>4, <1>9, CalmStep

\* The returns of exit_process, process_post_synch and the exited thread.
LEMMA ReturnsService ==
  ASSUME Inv, Lists, ServiceInv, ExitUnlinks \/ SynchReturns \/ ExitThreadReturns
  PROVE  ServiceInv' /\ Relinks
<1>0. QueuePosts' /\ calls' \in Nat
  BY KernelKeeps DEF KernelStep
<1>1. stack # << >> /\ ~OfService(Top)
  BY DEF ExitUnlinks, SynchReturns, ExitThreadReturns, Executing, OfService
<1>2. Below \in Seq(Plain) /\ ~Booting /\ state[etimer_process] = "running" /\ Top \in Plain
      /\ etimer_process \in Listed
  BY <1>1, KernelTop
<1>3. UNCHANGED << main, state >> /\ stack' = Below
  BY DEF ExitUnlinks, SynchReturns, ExitThreadReturns, Return
<1>4. Relinks
  <2>1. CASE ExitUnlinks
    <3>1. Top.p \in App
      BY <1>2, <2>1 DEF ExitUnlinks, Executing, Plain
    <3> QED BY <2>1, <3>1 DEF ExitUnlinks, Relinks
  <2>2. CASE ~ExitUnlinks
    BY <2>2 DEF SynchReturns, ExitThreadReturns, Relinks
  <2> QED BY <2>1, <2>2
<1>5. etimer_process \in Listed' /\ ~Booting'
  BY <1>2, <1>3, <1>4, RelinksKeep DEF Booting
<1> QED BY <1>0, <1>2, <1>3, <1>4, <1>5, CalmStep

\* A thread yields or ends.
LEMMA ThreadReturnsService ==
  ASSUME Inv, Lists, ServiceInv, ThreadReturns(App)
  PROVE  ServiceInv' /\ Relinks
<1>0. QueuePosts' /\ calls' \in Nat
  BY KernelKeeps DEF KernelStep
<1>1. stack # << >> /\ ~OfService(Top) /\ Top.p \in App
  BY EtimerIsProc DEF ThreadReturns, Executing, OfService
<1>2. Below \in Seq(Plain) /\ ~Booting /\ state[etimer_process] = "running"
      /\ etimer_process \in Listed
  BY <1>1, KernelTop
<1>3. ~Booting'
  BY <1>2 DEF ThreadReturns, Booting
<1>4. CASE /\ state' = [state EXCEPT ![Top.p] = "running"] /\ Return
           /\ UNCHANGED << listVars, process_current >>
  <2>1. state'[etimer_process] = "running" /\ stack' = Below /\ etimer_process \in Listed'
    BY <1>2, <1>4, EtimerIsProc, InvParts DEF KernelOK, Return, Listed, listVars
  <2> QED BY <1>0, <1>2, <1>3, <1>4, <2>1, CalmStep DEF Relinks
<1>5. CASE exit_process(Top.p, Top.p, Below)
  <2>1. Top.p \in OrNull(Proc)
    BY <1>1 DEF OrNull, Proc
  <2> QED BY <1>0, <1>1, <1>2, <1>3, <1>5, <2>1, ExitStep, ExitRelinks
<1> QED BY <1>4, <1>5 DEF ThreadReturns

\* All steps of the kernel.
LEMMA KernelService ==
  ASSUME Inv, Lists, ServiceInv, KernelStep, UNCHANGED timerVars
  PROVE  ServiceInv' /\ Relinks
BY MainStartService, MainService, RunEventService, PollStepService, BroadcastStepService,
   ExitTellsService, ExitCallsService, ReturnsService, ThreadReturnsService DEF KernelStep

-----------------------------------------------------------------------------
(* The calls of a thread.                                                  *)

\* While an application calls, etimer_process does not execute.
LEMMA CallingService ==
  ASSUME Inv, ServiceInv, NEW kind, Calling(kind)
  PROVE  /\ stack \in Seq(Plain) /\ ~Booting /\ ~Booting' /\ state[etimer_process] = "running"
         /\ etimer_process \in Listed /\ calls' \in Nat /\ calls' < calls
         /\ process_current \in App
<1>1. stack # << >> /\ ~OfService(Top) /\ Top.p \in App
  BY EtimerIsProc DEF Calling, Executing, OfService
<1>2. calls \in Nat /\ calls > 0 /\ calls' = calls - 1 /\ main' = main
  BY DEF Calling, ServiceInv
<1>3. process_current = Top.p
  BY TopThread DEF Calling
<1>4. ~Booting'
  BY <1>1, <1>2, KernelTop DEF Booting
<1> QED BY <1>1, <1>2, <1>3, <1>4, KernelTop

\* Only events of Posts come into the queue.
LEMMA PostPosts ==
  ASSUME Inv, ServiceInv, NEW p, NEW ev \in Posts, NEW data, process_post(p, ev, data)
  PROVE  QueuePosts'
<1> DEFINE e == [ev |-> ev, data |-> data, p |-> p]
<1>1. e.ev \in Posts
  OBVIOUS
<1>2. events \in [0..(NUMEVENTS - 1) -> QueuedEvent]
  BY InvParts DEF QueueOK
<1>3. events' = events \/ events' = [events EXCEPT ![(fevent + nevents) % NUMEVENTS] = e]
  BY DEF process_post, queueVars
<1> HIDE DEF e
<1> QED BY <1>1, <1>2, <1>3 DEF ServiceInv, QueuePosts

\* The calls of process.h.
LEMMA ThreadCallService ==
  ASSUME Inv, Lists, ServiceInv, ThreadCall
  PROVE  ServiceInv' /\ Relinks
<1>1. /\ stack \in Seq(Plain) /\ ~Booting' /\ state[etimer_process] = "running"
      /\ etimer_process \in Listed /\ calls' \in Nat
  BY CallingService DEF ThreadCall, CallPost, CallPostSynch, CallPoll, CallStart, CallExit
<1>2. process_current \in OrNull(Proc) /\ state \in [Proc -> States]
  BY InvParts DEF KernelOK
<1>3. CASE CallPost
  <2>1. UNCHANGED << listVars, state, stack >>
    BY <1>3 DEF CallPost
  <2>2. QueuePosts'
    BY <1>3, PostPosts DEF CallPost, Posts
  <2> QED BY <1>1, <2>1, <2>2, CalmStep DEF Listed, listVars, Relinks
<1>4. ASSUME ~CallPost PROVE QueuePosts'
  BY <1>4 DEF ThreadCall, CallPostSynch, CallPoll, CallStart, CallExit, queueVars, ServiceInv, QueuePosts
<1>5. CASE ~CallPost /\ CallPostSynch
  <2> DEFINE b == Append(stack, Synch(process_current))
  <2>1. PICK p \in App : call_process(state, p, "msg", NULL, b)
    BY <1>5 DEF CallPostSynch
  <2>2. b \in Seq(Plain)
    <3>1. Synch(process_current) \in Plain
      BY <1>2, PlainFrames
    <3> QED BY <1>1, <3>1
  <2>3. p \in Proc /\ "msg" \in Ids /\ NULL \in Datum
    BY AppIsProc DEF Ids, Datum
  <2>4. UNCHANGED listVars
    BY <1>5 DEF CallPostSynch
  <2> HIDE DEF b
  <2>5. ServiceInv'
    BY <1>1, <1>2, <1>4, <1>5, <2>1, <2>2, <2>3, <2>4, CallStep DEF Listed, listVars
  <2> QED BY <2>4, <2>5 DEF Relinks
<1>6. CASE ~CallPost /\ CallPoll
  <2>1. UNCHANGED << listVars, state, stack >>
    BY <1>6 DEF CallPoll
  <2> QED BY <1>1, <1>4, <1>6, <2>1, CalmStep DEF Listed, listVars, Relinks
<1>7. CASE ~CallPost /\ CallStart
  <2>1. PICK p \in App : process_start(p, stack)
    BY <1>7 DEF CallStart
  <2>2. p \in Proc
    BY AppIsProc
  <2> QED BY <1>1, <1>4, <1>7, <2>1, <2>2, StartStep, StartRelinks
<1>8. CASE ~CallPost /\ CallExit
  <2>1. PICK p \in App : exit_process(p, process_current, stack)
    BY <1>8 DEF CallExit
  <2> QED BY <1>1, <1>2, <1>4, <1>8, <2>1, ExitStep, ExitRelinks
<1> QED BY <1>3, <1>5, <1>6, <1>7, <1>8 DEF ThreadCall

\* An interrupt.
LEMMA InterruptService ==
  ASSUME Inv, Lists, ServiceInv, Wake, calls' \in Nat,
         UNCHANGED << listVars, state, queueVars, stack, tlistVars >>
  PROVE  ServiceInv' /\ Relinks
<1>1. Booting' <=> Booting
  BY DEF Wake, Booting, At
<1>2. UNCHANGED << process_list, next, state, events, stack, timerlist, tnext, owner >>
  BY DEF listVars, queueVars, tlistVars
<1>3. StackOK' /\ Started' /\ CalledOnTop'
  BY <1>1, <1>2 DEF ServiceInv, StackOK, Started, CalledOnTop, Listed, Top, Below
<1>4. InitFirst' /\ ScanAt' /\ DropAt' /\ QueuePosts'
  BY <1>2 DEF ServiceInv, InitFirst, ScanAt, DropAt, QueuePosts, ServiceCalled, Executing, Top,
              Pending
<1> QED BY <1>3, <1>4 DEF ServiceInv, Relinks

-----------------------------------------------------------------------------
(* The steps of etimer_process.                                            *)

\* What a step may do to the timers.
TimerLists == Acyclic(Timer, tnext) /\ \A t \in Pending : owner[t] # NULL
TakenOff(t) == Posted(t) \/ Stopped(t) \/ (Executing("drop") /\ Top.gone = owner[t])
TimersFollow ==
    \A t \in Pending' \ late' :
      (t \in Pending \ late /\ owner'[t] = owner[t]) \/ ~Exited(owner'[t])
TimerStep == TimerLists' /\ TimersFollow /\ \A t \in Pending \ Pending' : TakenOff(t)

\* Steps that leave the timers.
LEMMA TimersStay ==
  ASSUME Lists, UNCHANGED << tlistVars, late >>
  PROVE  TimerStep /\ Pending' = Pending
<1>1. UNCHANGED << timerlist, tnext, owner, late >>
  BY DEF tlistVars
<1>2. Pending' = Pending
  BY <1>1 DEF Pending
<1> QED BY <1>1, <1>2 DEF TimerStep, TimerLists, TimersFollow, Lists

\* The thread of etimer_process executes.
LEMMA ServiceNow ==
  ASSUME Inv, ServiceInv, stack # << >>, OfService(Top)
  PROVE  /\ Below \in Seq(Plain) /\ ~Booting /\ etimer_process \in Listed
         /\ state[etimer_process] # "none" /\ state \in [Proc -> States]
<1>1. stack \notin Seq(Plain)
  BY PlainTop DEF Top
<1>2. Below \in Seq(Plain) /\ ~Booting
  BY <1>1 DEF ServiceInv, StackOK, Started
<1> QED BY <1>2, InvParts DEF ServiceInv, Started, KernelOK

\* The thread of etimer_process returns.
LEMMA YieldService ==
  ASSUME Inv, ServiceInv, stack # << >>, OfService(Top), Yield,
         UNCHANGED << listVars, queueVars, main, calls >>
  PROVE  ServiceInv' /\ Relinks
<1>1. /\ Below \in Seq(Plain) /\ ~Booting /\ etimer_process \in Listed
      /\ state \in [Proc -> States]
  BY ServiceNow
<1>2. stack' = Below /\ state'[etimer_process] = "running"
  BY <1>1, EtimerIsProc DEF Yield, Return
<1>3. ~Booting' /\ etimer_process \in Listed' /\ Relinks
  BY <1>1 DEF Booting, Listed, listVars, Relinks
<1>4. QueuePosts' /\ calls' \in Nat
  BY DEF ServiceInv, QueuePosts, queueVars
<1> QED BY <1>1, <1>2, <1>3, <1>4, CalmStep

\* A loop of etimer_process goes on.
LEMMA LoopService ==
  ASSUME Inv, ServiceInv, stack # << >>, OfService(Top), NEW f, f.fn \in {"etimer", "drop"},
         stack' # << >>, stack'[Len(stack')] = f, SubSeq(stack', 1, Len(stack') - 1) = Below,
         UNCHANGED << listVars, state, main, calls >>, QueuePosts',
         f.fn = "etimer" => IF f.u = NULL THEN f.t = timerlist'
                            ELSE f.u \in Pending' /\ tnext'[f.u] = f.t,
         f.fn = "drop" /\ f.t # NULL =>
           /\ f.t \in Pending'
           /\ \A x \in Pending' : owner'[x] = f.gone => x \in Members(tnext'[f.t], tnext')
  PROVE  ServiceInv' /\ Relinks
<1>1. /\ Below \in Seq(Plain) /\ ~Booting /\ etimer_process \in Listed
      /\ state[etimer_process] # "none" /\ state \in [Proc -> States]
  BY ServiceNow
<1>2. ~Booting' /\ etimer_process \in Listed' /\ Relinks
  BY <1>1 DEF Booting, Listed, listVars, Relinks
<1>3. StackOK' /\ Started' /\ CalledOnTop'
  BY <1>1, <1>2 DEF StackOK, Started, CalledOnTop, OfService, Top, Below
<1>4. InitFirst'
  BY DEF InitFirst, ServiceCalled, Executing, Top
<1>5. ScanAt'
  BY DEF ScanAt, Executing, Top
<1>6. DropAt'
  BY DEF DropAt, Executing, Top
<1> QED BY <1>2, <1>3, <1>4, <1>5, <1>6 DEF ServiceInv

\* What the stack is after a Goto.
LEMMA GotoFacts ==
  ASSUME Inv, NEW f, Goto(f), stack # << >>
  PROVE  stack' # << >> /\ stack'[Len(stack')] = f /\ SubSeq(stack', 1, Len(stack') - 1) = Below
<1>1. stack \in Seq(Frame)
  BY InvParts DEF Good
<1>2. Below \in Seq(Frame)
  <2>1. Len(stack) \in Nat /\ Len(stack) >= 1 /\ \A k \in 1..(Len(stack) - 1) : stack[k] \in Frame
    BY <1>1
  <2>2. 1 \in Int /\ Len(stack) - 1 \in Int
    BY <2>1
  <2> QED BY <2>1, <2>2, SubSeqProperties, SMT DEF Below
<1>3. \E D : Below \in Seq(D) /\ f \in D
  <2>1. Below \in Seq(Frame \cup {f})
    BY <1>2
  <2> QED BY <2>1
<1> QED BY <1>3 DEF Goto

\* Events after which etimer_process waits again.
LEMMA YieldSteps ==
  ASSUME Inv, Lists, ServiceInv, Start \/ OtherEvent \/ ScanEnd
  PROVE  ServiceInv' /\ Relinks /\ TimerStep
<1>1. stack # << >> /\ OfService(Top) /\ Yield
  BY DEF Start, OtherEvent, ScanEnd, ServiceCalled, Executing, OfService
<1>2. UNCHANGED << listVars, queueVars, main, calls >>
  BY DEF Start, OtherEvent, ScanEnd
<1>3. UNCHANGED << tlistVars, late >>
  BY DEF Start, OtherEvent, ScanEnd, timerVars, tlistVars, ServiceInv, InitFirst
<1> QED BY <1>1, <1>2, <1>3, YieldService, TimersStay

\* Events with which a loop of etimer_process starts.
LEMMA LoopStarts ==
  ASSUME Inv, Lists, ServiceInv, DropExited \/ Polled
  PROVE  ServiceInv' /\ Relinks /\ TimerStep
<1>1. stack # << >> /\ OfService(Top)
  BY DEF DropExited, Polled, ServiceCalled, Executing, OfService
<1>2. UNCHANGED << listVars, state, queueVars, main, calls >> /\ UNCHANGED << tlistVars, late >>
  BY DEF DropExited, Polled, timerVars
<1>3. QueuePosts' /\ timerlist' = timerlist
  BY <1>2 DEF ServiceInv, QueuePosts, queueVars, tlistVars
<1>4. CASE DropExited
  <2> DEFINE f == Dropping(Top.data, NULL)
  <2>1. Goto(f)
    BY <1>4 DEF DropExited
  <2>2. f.fn = "drop" /\ f.t = NULL
    BY DEF Dropping
  <2> HIDE DEF f
  <2>3. stack' # << >> /\ stack'[Len(stack')] = f /\ SubSeq(stack', 1, Len(stack') - 1) = Below
    BY <1>1, <2>1, GotoFacts
  <2> QED BY <1>1, <1>2, <1>3, <2>2, <2>3, LoopService, TimersStay
<1>5. CASE Polled
  <2> DEFINE f == Scan(NULL, timerlist)
  <2>1. Goto(f)
    BY <1>5 DEF Polled
  <2>2. f.fn = "etimer" /\ f.t = timerlist /\ f.u = NULL
    BY DEF Scan
  <2> HIDE DEF f
  <2>3. stack' # << >> /\ stack'[Len(stack')] = f /\ SubSeq(stack', 1, Len(stack') - 1) = Below
    BY <1>1, <2>1, GotoFacts
  <2> QED BY <1>1, <1>2, <1>3, <2>2, <2>3, LoopService, TimersStay
<1> QED BY <1>4, <1>5

\* Timers of the exited process at the head are dropped.
LEMMA DropHeadService ==
  ASSUME Inv, Lists, ServiceInv, DropHead
  PROVE  ServiceInv' /\ Relinks /\ TimerStep
<1>1. stack # << >> /\ Executing("drop") /\ OfService(Top) /\ Top.t = NULL /\ Top.fn = "drop"
  BY DEF DropHead, Executing, OfService
<1>2. UNCHANGED << listVars, queueVars, main, calls >> /\ UNCHANGED << tnext, owner, late >>
  BY DEF DropHead
<1>3. QueuePosts'
  BY <1>2 DEF ServiceInv, QueuePosts, queueVars
<1>4. /\ Linked(Timer, tnext) /\ Acyclic(Timer, tnext) /\ Pending \subseteq Timer
      /\ timerlist \in OrNull(Timer)
  BY InvParts, TimerLinks, PendingTimers DEF ListOK, Lists
<1>5. CASE timerlist = NULL /\ Yield /\ UNCHANGED timerlist
  BY <1>1, <1>2, <1>5, YieldService, TimersStay DEF tlistVars
<1>6. CASE /\ timerlist # NULL /\ owner[timerlist] = Top.gone
           /\ timerlist' = tnext[timerlist] /\ UNCHANGED << state, stack >>
  <2>1. Pending' = Pending \ {timerlist}
    BY <1>2, <1>6, HeadDropped
  <2>2. TimerStep
    BY <1>1, <1>2, <1>4, <1>6, <2>1 DEF TimerStep, TimerLists, TimersFollow, Lists, TakenOff
  <2> DEFINE f == Top
  <2>3. stack' # << >> /\ stack'[Len(stack')] = f /\ SubSeq(stack', 1, Len(stack') - 1) = Below
    BY <1>1, <1>6 DEF Top, Below
  <2>4. f.fn = "drop" /\ f.t = NULL
    BY <1>1
  <2> HIDE DEF f
  <2> QED BY <1>1, <1>2, <1>3, <1>6, <2>2, <2>3, <2>4, LoopService
<1>7. CASE /\ timerlist # NULL /\ owner[timerlist] # Top.gone
           /\ Goto(Dropping(Top.gone, timerlist)) /\ UNCHANGED << state, timerlist >>
  <2> DEFINE f == Dropping(Top.gone, timerlist)
  <2>1. f.fn = "drop" /\ f.t = timerlist /\ f.gone = Top.gone
    BY DEF Dropping
  <2>2. Goto(f)
    BY <1>7
  <2> HIDE DEF f
  <2>3. stack' # << >> /\ stack'[Len(stack')] = f /\ SubSeq(stack', 1, Len(stack') - 1) = Below
    BY <1>1, <2>2, GotoFacts
  <2>4. TimerStep /\ Pending' = Pending
    BY <1>2, <1>7, TimersStay DEF tlistVars
  <2>5. Pending = {timerlist} \cup Members(tnext[timerlist], tnext)
    <3>1. timerlist \in Timer
      BY <1>4, <1>7 DEF OrNull
    <3> QED BY <1>4, <3>1, HeadAndRest DEF Pending
  <2>6. /\ f.t \in Pending'
        /\ \A x \in Pending' : owner'[x] = f.gone => x \in Members(tnext'[f.t], tnext')
    BY <1>2, <1>7, <2>1, <2>4, <2>5
  <2> QED BY <1>1, <1>2, <1>3, <1>7, <2>1, <2>3, <2>4, <2>6, LoopService
<1> QED BY <1>5, <1>6, <1>7 DEF DropHead

\* Timers of the exited process behind another one are dropped.
LEMMA DropNextService ==
  ASSUME Inv, Lists, ServiceInv, DropNext
  PROVE  ServiceInv' /\ Relinks /\ TimerStep
<1> DEFINE n == tnext[Top.t]
<1>1. stack # << >> /\ Executing("drop") /\ OfService(Top) /\ Top.t # NULL /\ Top.fn = "drop"
  BY DEF DropNext, Executing, OfService
<1>2. UNCHANGED << listVars, queueVars, main, calls >> /\ UNCHANGED << timerlist, owner, late >>
  BY DEF DropNext
<1>3. QueuePosts'
  BY <1>2 DEF ServiceInv, QueuePosts, queueVars
<1>4. /\ Linked(Timer, tnext) /\ Acyclic(Timer, tnext) /\ Pending \subseteq Timer
      /\ timerlist \in OrNull(Timer) /\ tnext \in [Timer -> OrNull(Timer)]
  BY InvParts, TimerLinks, PendingTimers DEF ListOK, Lists
<1>5. /\ Top.t \in Pending
      /\ \A x \in Pending : owner[x] = Top.gone => x \in Members(n, tnext)
  BY <1>1 DEF ServiceInv, DropAt
<1>6. n \in OrNull(Timer)
  BY <1>4, <1>5
<1>7. CASE n = NULL /\ Yield /\ UNCHANGED tnext
  BY <1>1, <1>2, <1>7, YieldService, TimersStay DEF tlistVars
<1>8. CASE /\ n # NULL /\ owner[n] = Top.gone
           /\ tnext' = [tnext EXCEPT ![Top.t] = tnext[n]] /\ UNCHANGED << state, stack >>
  <2>1. n \in Timer /\ tnext[Top.t] = n
    BY <1>6, <1>8 DEF OrNull
  <2>2. /\ Acyclic(Timer, tnext') /\ Pending' = Pending \ {n} /\ Top.t # n
        /\ Members(n, tnext) \subseteq {n} \cup Members(tnext'[Top.t], tnext')
    <3> DEFINE t == Top.t
    <3>1. /\ t \in Pending /\ n \in Timer /\ tnext[t] = n /\ timerlist' = timerlist
          /\ tnext' = [tnext EXCEPT ![t] = tnext[n]]
      BY <1>2, <1>5, <1>8, <2>1
    <3> HIDE DEF t, n
    <3>2. /\ Acyclic(Timer, tnext') /\ Pending' = Pending \ {n} /\ t # n
          /\ Members(n, tnext) \subseteq {n} \cup Members(tnext'[t], tnext')
      BY <3>1, NextDropped
    <3> QED BY <3>2 DEF t
  <2> HIDE DEF n
  <2>3. TimerStep
    BY <1>1, <1>2, <1>8, <2>2 DEF TimerStep, TimerLists, TimersFollow, Lists, TakenOff
  <2> DEFINE f == Top
  <2>4. stack' # << >> /\ stack'[Len(stack')] = f /\ SubSeq(stack', 1, Len(stack') - 1) = Below
    BY <1>1, <1>8 DEF Top, Below
  <2>5. f.fn = "drop" /\ f.t # NULL /\ f.t \in Pending'
        /\ \A x \in Pending' : owner'[x] = f.gone => x \in Members(tnext'[f.t], tnext')
    BY <1>1, <1>2, <1>5, <2>2
  <2>6. UNCHANGED << listVars, state, main, calls >>
    BY <1>2, <1>8
  <2> HIDE DEF f
  <2> QED BY <1>1, <1>3, <2>3, <2>4, <2>5, <2>6, LoopService
<1>9. CASE /\ n # NULL /\ owner[n] # Top.gone
           /\ Goto(Dropping(Top.gone, n)) /\ UNCHANGED << state, tnext >>
  <2> DEFINE f == Dropping(Top.gone, n)
  <2>1. f.fn = "drop" /\ f.t = n /\ f.gone = Top.gone
    BY DEF Dropping
  <2>2. Goto(f)
    BY <1>9
  <2> HIDE DEF f
  <2>3. stack' # << >> /\ stack'[Len(stack')] = f /\ SubSeq(stack', 1, Len(stack') - 1) = Below
    BY <1>1, <2>2, GotoFacts
  <2>4. TimerStep /\ Pending' = Pending
    BY <1>2, <1>9, TimersStay DEF tlistVars
  <2>5. n \in Pending
    BY <1>4, <1>5, <1>9, RestWithin DEF Pending, OrNull
  <2>6. Members(n, tnext) = {n} \cup Members(tnext[n], tnext)
    <3>1. n \in Timer
      BY <1>6, <1>9 DEF OrNull
    <3> HIDE DEF n
    <3> QED BY <1>4, <3>1, HeadAndRest
  <2> HIDE DEF n
  <2>7. /\ f.t \in Pending'
        /\ \A x \in Pending' : owner'[x] = f.gone => x \in Members(tnext'[f.t], tnext')
    BY <1>2, <1>5, <1>9, <2>1, <2>4, <2>5, <2>6
  <2> QED BY <1>1, <1>2, <1>3, <1>9, <2>1, <2>3, <2>4, <2>7, LoopService
<1> QED BY <1>7, <1>8, <1>9 DEF DropNext

\* The event of an expired timer that was accepted is the last of the queue.
LEMMA PostIsLast ==
  ASSUME QueueOK, NEW p \in OrNull(Proc), NEW ev \in Ids, NEW data \in Datum,
         process_post(p, ev, data), ~Full
  PROVE  nevents' = nevents + 1 /\ queued'[nevents'] = [ev |-> ev, data |-> data, p |-> p]
<1> DEFINE e == [ev |-> ev, data |-> data, p |-> p]
<1>1. QueueOK'
  BY ProcessPost
<1>2. /\ events' = [events EXCEPT ![(fevent + nevents) % NUMEVENTS] = e]
      /\ nevents' = nevents + 1 /\ fevent' = fevent
  BY DEF process_post
<1>3. /\ NUMEVENTS \in Nat \ {0} /\ nevents \in 0..(NUMEVENTS - 1)
      /\ fevent \in 0..(NUMEVENTS - 1) /\ DOMAIN events = 0..(NUMEVENTS - 1)
  BY ProcessAssumption DEF QueueOK, Full
<1> HIDE DEF e
<1>4. (fevent + nevents) % NUMEVENTS \in 0..(NUMEVENTS - 1)
  BY <1>3, Ring
<1>5. nevents + 1 \in 1..(nevents') /\ (nevents + 1) - 1 = nevents
  BY <1>2, <1>3
<1>6. queued'[nevents + 1] = events'[(fevent + nevents) % NUMEVENTS]
  BY <1>1, <1>2, <1>5, QueuedFactsPrime
<1>7. queued'[nevents + 1] = e
  BY <1>2, <1>3, <1>4, <1>6
<1> QED BY <1>2, <1>7 DEF e

\* The scan, and an expired timer.
LEMMA ScanTimerService ==
  ASSUME Inv, Lists, ServiceInv, ScanTimer
  PROVE  ServiceInv' /\ Relinks /\ TimerStep
<1> DEFINE t == Top.t  u == Top.u
<1>1. stack # << >> /\ Executing("etimer") /\ OfService(Top) /\ t # NULL /\ Top.fn = "etimer"
  BY DEF ScanTimer, Executing, OfService
<1>2. UNCHANGED << listVars, state, main, calls, late >>
  BY DEF ScanTimer
<1>3. /\ Linked(Timer, tnext) /\ Acyclic(Timer, tnext) /\ Pending \subseteq Timer
      /\ timerlist \in OrNull(Timer) /\ tnext \in [Timer -> OrNull(Timer)]
      /\ owner \in [Timer -> OrNull(Proc)] /\ QueueOK
  BY InvParts, TimerLinks, PendingTimers DEF ListOK, Lists
<1>4. t \in Timer /\ u \in OrNull(Timer)
  BY <1>1, TopLoop DEF ScanFrame, OrNull
<1>5. IF u = NULL THEN t = timerlist ELSE u \in Pending /\ tnext[u] = t
  BY <1>1 DEF ServiceInv, ScanAt
<1>6. QueuePosts'
  <2>1. "timer" \in Posts
    BY DEF Posts
  <2>2. CASE process_post(owner[t], "timer", t)
    BY <2>1, <2>2, PostPosts
  <2>3. CASE UNCHANGED queueVars
    BY <2>3 DEF ServiceInv, QueuePosts, queueVars
  <2> QED BY <2>2, <2>3 DEF ScanTimer, Expire
<1>7. t \in Pending
  <2>1. CASE u = NULL
    <3>1. t \in Members(t, tnext)
      BY <1>3, <1>4, HeadAndRest
    <3> QED BY <1>5, <2>1, <3>1 DEF Pending
  <2>2. CASE u # NULL
    BY <1>1, <1>3, <1>5, <2>2, RestWithin DEF Pending, OrNull
  <2> QED BY <2>1, <2>2
<1>8. CASE Goto(Scan(t, tnext[t])) /\ UNCHANGED tlistVars
  <2> DEFINE f == Scan(t, tnext[t])
  <2>1. f.fn = "etimer" /\ f.u = t /\ f.t = tnext[t]
    BY DEF Scan
  <2>2. Goto(f)
    BY <1>8
  <2> HIDE DEF f, t, u
  <2>3. stack' # << >> /\ stack'[Len(stack')] = f /\ SubSeq(stack', 1, Len(stack') - 1) = Below
    BY <1>1, <2>2, GotoFacts
  <2>4. TimerStep /\ Pending' = Pending /\ tnext' = tnext
    BY <1>2, <1>8, TimersStay DEF tlistVars
  <2>5. f.u # NULL /\ f.u \in Pending' /\ tnext'[f.u] = f.t
    BY <1>1, <1>7, <2>1, <2>4
  <2> QED BY <1>1, <1>2, <1>6, <2>1, <2>3, <2>4, <2>5, LoopService
<1>9. CASE Expire(t, u) /\ ~Full
  <2>1. /\ process_post(owner[t], "timer", t)
        /\ owner' = [owner EXCEPT ![t] = NULL]
        /\ timerlist' = IF u = NULL THEN tnext[t] ELSE timerlist
        /\ tnext' = IF u = NULL THEN [tnext EXCEPT ![t] = NULL]
                    ELSE [tnext EXCEPT ![t] = NULL, ![u] = tnext[t]]
        /\ Goto(Scan(NULL, timerlist'))
    BY <1>9 DEF Expire
  <2>2. Acyclic(Timer, tnext') /\ Pending' = Pending \ {t}
    <3> HIDE DEF t, u
    <3>1. CASE u = NULL
      <4>1. t = timerlist /\ timerlist' = tnext[t] /\ Changed(t, NULL, tnext, tnext')
        BY <1>5, <2>1, <3>1 DEF Changed
      <4> QED BY <1>4, <4>1, HeadTaken
    <3>2. CASE u # NULL
      <4>1. u \in Pending /\ Relinked(t, u)
        BY <1>5, <2>1, <3>2 DEF Relinked
      <4> QED BY <1>4, <4>1, InnerTaken
    <3> QED BY <3>1, <3>2
  <2>3. Posted(t)
    <3>1. owner[t] \in OrNull(Proc) /\ "timer" \in Ids /\ t \in Datum
      BY <1>3, <1>4 DEF Ids, Datum
    <3> HIDE DEF t, u
    <3> QED BY <1>3, <1>9, <2>1, <3>1, PostIsLast DEF Posted
  <2>4. TimerStep
    <3> HIDE DEF t, u
    <3>1. \A x \in Pending' : owner'[x] # NULL /\ owner'[x] = owner[x] /\ x \in Pending
      BY <1>3, <2>1, <2>2 DEF Lists
    <3> QED BY <1>2, <2>2, <2>3, <3>1 DEF TimerStep, TimerLists, TimersFollow, TakenOff
  <2> DEFINE f == Scan(NULL, timerlist')
  <2>5. f.fn = "etimer" /\ f.u = NULL /\ f.t = timerlist' /\ Goto(f)
    BY <2>1 DEF Scan
  <2> HIDE DEF f, t, u
  <2>6. stack' # << >> /\ stack'[Len(stack')] = f /\ SubSeq(stack', 1, Len(stack') - 1) = Below
    BY <1>1, <2>5, GotoFacts
  <2> QED BY <1>1, <1>2, <1>6, <2>4, <2>5, <2>6, LoopService
<1> QED BY <1>8, <1>9 DEF ScanTimer, Expire

-----------------------------------------------------------------------------
(* The calls of etimer.h.                                                  *)

\* All of them: a timer is set, or stopped by the call.
LEMMA TimerCallService ==
  ASSUME Inv, Lists, ServiceInv, CallSet \/ CallReset \/ CallAdjust \/ CallStop
  PROVE  ServiceInv' /\ Relinks /\ TimerStep
<1>1. Calling("set") \/ Calling("reset")
  BY DEF CallSet, CallReset, CallAdjust, CallStop
<1>2. /\ stack \in Seq(Plain) /\ ~Booting' /\ state[etimer_process] = "running"
      /\ etimer_process \in Listed /\ calls' \in Nat /\ calls' < calls
      /\ process_current \in App
  BY <1>1, CallingService
<1>3. UNCHANGED << listVars, state, queueVars, stack >>
  BY DEF CallSet, CallReset, CallAdjust, CallStop
<1>4. ServiceInv' /\ Relinks
  <2>1. QueuePosts' /\ etimer_process \in Listed' /\ Relinks
    BY <1>2, <1>3 DEF ServiceInv, QueuePosts, queueVars, Listed, listVars, Relinks
  <2> QED BY <1>2, <1>3, <2>1, CalmStep
<1>5. process_current # NULL
  BY <1>2, ProcessAssumption DEF Proc
<1>6. TimerLists' /\ TimersFollow /\ \A t \in Pending \ Pending' : owner'[t] = NULL
  <2>1. CASE CallSet \/ CallReset
    <3>0. PICK t \in Timer : \E st, iv : add_timer(t, st, iv)
      BY <2>1 DEF CallSet, CallReset, etimer_set, etimer_reset_with_new_interval, etimer_reset,
                  etimer_restart
    <3>1. PICK st, iv : add_timer(t, st, iv)
      BY <3>0
    <3>2. /\ Acyclic(Timer, tnext') /\ Pending' = Pending \cup {t}
          /\ \A x \in Pending' : owner'[x] # NULL
      BY <1>5, <3>1, AddTimerList
    <3>3. /\ owner' = [owner EXCEPT ![t] = process_current]
          /\ late' = IF Exited(process_current) THEN late \cup {t} ELSE late \ {t}
      BY <3>1 DEF add_timer
    <3>4. owner \in [Timer -> OrNull(Proc)] /\ Pending \subseteq Timer
      BY InvParts, PendingTimers DEF ListOK
    <3>5. \A x \in Pending' : x # t => x \in Pending /\ owner'[x] = owner[x]
      BY <3>2, <3>3, <3>4
    <3>6. owner'[t] = process_current
      BY <3>3, <3>4
    <3>7. TimersFollow
      BY <3>3, <3>5, <3>6 DEF TimersFollow
    <3> QED BY <3>2, <3>7 DEF TimerLists
  <2>2. CASE CallAdjust
    BY <2>2, TimersStay DEF CallAdjust, TimerStep
  <2>3. CASE CallStop
    <3>1. PICK t \in Timer : etimer_stop(t)
      BY <2>3 DEF CallStop
    <3>2. Acyclic(Timer, tnext') /\ Pending' = Pending \ {t}
      BY <3>1, StopList
    <3>3. owner' = [owner EXCEPT ![t] = NULL] /\ owner \in [Timer -> OrNull(Proc)]
          /\ Pending \subseteq Timer
      BY <3>1, InvParts, PendingTimers DEF etimer_stop, ListOK
    <3>4. late' = late
      BY <2>3 DEF CallStop
    <3> QED BY <3>2, <3>3, <3>4 DEF TimerLists, TimersFollow, Lists
  <2> QED BY <2>1, <2>2, <2>3
<1> QED BY <1>2, <1>4, <1>6 DEF TimerStep, TakenOff, Stopped

\* Every step.
LEMMA EveryStep ==
  ASSUME Inv, Lists, ServiceInv, Next
  PROVE  ServiceInv' /\ Relinks /\ TimerStep
<1>1. CASE KernelStep /\ UNCHANGED timerVars
  BY <1>1, KernelService, TimersStay DEF timerVars
<1>2. CASE Start \/ OtherEvent \/ ScanEnd
  BY <1>2, YieldSteps
<1>3. CASE DropExited \/ Polled
  BY <1>3, LoopStarts
<1>4. CASE DropHead \/ DropNext
  BY <1>4, DropHeadService, DropNextService
<1>5. CASE ScanTimer
  BY <1>5, ScanTimerService
<1>6. CASE ThreadCall /\ UNCHANGED timerVars
  BY <1>6, ThreadCallService, TimersStay DEF timerVars
<1>7. CASE PollInterrupt /\ UNCHANGED timerVars
  <2>1. UNCHANGED << listVars, state, queueVars, stack >> /\ UNCHANGED << tlistVars, late >> /\ Wake
    BY <1>7 DEF PollInterrupt, timerVars
  <2>2. calls' \in Nat
    BY <1>7 DEF PollInterrupt, ServiceInv
  <2> QED BY <2>1, <2>2, InterruptService, TimersStay
<1>8. CASE CallSet \/ CallReset \/ CallAdjust \/ CallStop
  BY <1>8, TimerCallService
<1>9. CASE ClockInterrupt
  <2>1. UNCHANGED << listVars, state, queueVars, stack >> /\ UNCHANGED << tlistVars, late >> /\ Wake
    BY <1>9 DEF ClockInterrupt
  <2>2. calls' \in Nat
    BY <1>9 DEF ClockInterrupt, ServiceInv
  <2> QED BY <2>1, <2>2, InterruptService, TimersStay
<1> QED BY <1>1, <1>2, <1>3, <1>4, <1>5, <1>6, <1>7, <1>8, <1>9 DEF Next, Processor, Application

\* The invariant is inductive.
LEMMA EveryStepLists ==
  ASSUME Inv, Lists, ServiceInv, Next
  PROVE  Lists' /\ ServiceInv'
<1>1. ServiceInv' /\ Relinks /\ TimerStep
  BY EveryStep
<1>2. Acyclic(Proc, next')
  BY <1>1, RelinksKeep
<1> QED BY <1>1, <1>2 DEF Lists, TimerStep, TimerLists

\* No links at all, after process_init.
LEMMA EmptyList ==
  ASSUME NEW D, IsFiniteSet(D), NULL \notin D
  PROVE  /\ Linked(D, [x \in D |-> NULL]) /\ Acyclic(D, [x \in D |-> NULL])
         /\ Members(NULL, [x \in D |-> NULL]) = {}
<1> DEFINE l == [x \in D |-> NULL]  r == [x \in D |-> 0]
<1>1. Linked(D, l)
  BY DEF Linked
<1>2. Ranked(D, l, r)
  BY DEF Ranked
<1> HIDE DEF l, r
<1>3. Members(NULL, l) = {}
  BY <1>1, MembersOfNull
<1>4. Acyclic(D, l)
  BY <1>2 DEF Acyclic
<1> QED BY <1>1, <1>3, <1>4 DEF l

\* It holds initially.
LEMMA InitLists == Init => Lists /\ ServiceInv
<1> SUFFICES ASSUME Init PROVE Lists /\ ServiceInv
  OBVIOUS
<1>1. /\ process_list = NULL /\ next = [p \in Proc |-> NULL] /\ stack = << >> /\ main = Boot(1)
      /\ timerlist = NULL /\ tnext = [t \in Timer |-> NULL] /\ state = [p \in Proc |-> "none"]
      /\ calls \in Nat /\ events = [i \in 0..(NUMEVENTS - 1) |-> NoEvent]
  BY ProcessAssumption DEF Init, ProcessInit
<1>2. Acyclic(Proc, next) /\ Acyclic(Timer, tnext) /\ Pending = {}
  BY <1>1, EmptyList, ProcessAssumption, ETimerAssumption DEF Pending
<1>3. Lists
  BY <1>2 DEF Lists
<1>4. Booting
  BY <1>1 DEF Booting, Boot
<1>5. QueuePosts
  BY <1>1 DEF QueuePosts, NoEvent, Posts
<1>6. Started /\ StackOK
  BY <1>1, <1>4, EmptyPlain DEF Started, StackOK
<1>7. CalledOnTop /\ InitFirst /\ ScanAt /\ DropAt
  BY <1>1, EtimerIsProc DEF CalledOnTop, InitFirst, ScanAt, DropAt, ServiceCalled, Executing
<1> QED BY <1>1, <1>3, <1>5, <1>6, <1>7 DEF ServiceInv

\* It holds when nothing changes.
LEMMA StutterLists ==
  ASSUME Lists, ServiceInv, UNCHANGED vars
  PROVE  Lists' /\ ServiceInv'
<1>1. UNCHANGED << process_list, next, state, events, main, stack, calls, timerlist, tnext, owner >>
  BY DEF vars, procVars, timerVars, listVars, queueVars, tlistVars
<1>2. Lists'
  BY <1>1 DEF Lists, Pending
<1>3. StackOK' /\ Started' /\ CalledOnTop' /\ calls' \in Nat
  BY <1>1 DEF ServiceInv, StackOK, Started, CalledOnTop, Booting, Listed, Top, Below
<1>4. InitFirst' /\ ScanAt' /\ DropAt' /\ QueuePosts'
  BY <1>1 DEF ServiceInv, InitFirst, ScanAt, DropAt, QueuePosts, ServiceCalled, Executing, Top,
              Pending
<1> QED BY <1>2, <1>3, <1>4 DEF ServiceInv

\* It holds in all reachable states.
LEMMA ListsAlways == Spec => [](Inv /\ Lists /\ ServiceInv)
<1>1. Init => Lists /\ ServiceInv
  BY InitLists
<1>2. Inv /\ Lists /\ ServiceInv /\ [Next]_vars => Lists' /\ ServiceInv'
  BY EveryStepLists, StutterLists
<1> QED BY <1>1, <1>2, InvAlways, PTL DEF Spec

\* The list of processes and timerlist end in every reachable state, however
\* processes start and exit and timers are set, stopped, dropped and expire in
\* the middle of each other's loops; and what is on timerlist has an owner, which
\* is what keeps add_timer from putting a timer on the list twice.
THEOREM ListsAlwaysSound == Spec => []ListsSound
<1>1. Inv /\ Lists => ListsSound
  BY ListsAreSound
<1> QED BY <1>1, ListsAlways, PTL

\* No step takes a timer off timerlist unless it posts the timer's event, last in
\* the queue, to the process that set it, is a call that stops it, or drops the
\* timers of the process that exited: a full queue loses no timer.
THEOREM TimersAreKept == Spec => TimersKept
<1>1. ASSUME Inv, Lists, ServiceInv, Next
      PROVE  \A t \in Pending \ Pending' :
               Posted(t) \/ Stopped(t) \/ (Executing("drop") /\ Top.gone = owner[t])
  BY <1>1, EveryStep DEF TimerStep, TakenOff
<1>2. Inv /\ Lists /\ ServiceInv /\ [Next]_vars =>
        [ \A t \in Pending \ Pending' :
            Posted(t) \/ Stopped(t) \/ (Executing("drop") /\ Top.gone = owner[t]) ]_vars
  BY <1>1
<1> QED BY <1>2, ListsAlways, PTL DEF Spec, TimersKept

-----------------------------------------------------------------------------
(* The loops that are under way.                                           *)

\* The frames of a function that are on a stack.
Of(fn, s) == {s[k] : k \in {i \in 1..Len(s) : s[i].fn = fn}}

\* None are on the empty stack.
LEMMA OfEmpty == \A fn : Of(fn, << >>) = {}
BY DEF Of

\* A frame is pushed.
LEMMA OfAppend ==
  ASSUME NEW s \in Seq(Frame), NEW f \in Frame, NEW fn
  PROVE  Of(fn, Append(s, f)) = IF f.fn = fn THEN Of(fn, s) \cup {f} ELSE Of(fn, s)
<1> DEFINE a == Append(s, f)
<1>1. /\ Len(a) = Len(s) + 1 /\ Len(s) \in Nat /\ a[Len(s) + 1] = f
      /\ \A k \in 1..Len(s) : a[k] = s[k]
  BY AppendProperties
<1> HIDE DEF a
<1>2. \A k : k \in 1..Len(a) <=> k \in 1..Len(s) \/ k = Len(s) + 1
  BY <1>1
<1>3. Of(fn, a) \subseteq IF f.fn = fn THEN Of(fn, s) \cup {f} ELSE Of(fn, s)
  BY <1>1, <1>2 DEF Of
<1>4. Of(fn, s) \subseteq Of(fn, a)
  BY <1>1, <1>2 DEF Of
<1>5. f.fn = fn => f \in Of(fn, a)
  BY <1>1, <1>2 DEF Of
<1>6. Of(fn, a) = IF f.fn = fn THEN Of(fn, s) \cup {f} ELSE Of(fn, s)
  BY <1>3, <1>4, <1>5
<1> QED BY <1>6 DEF a

\* The executing frame and those below.
LEMMA OfTop ==
  ASSUME NEW s \in Seq(Frame), s # << >>, NEW fn
  PROVE  /\ SubSeq(s, 1, Len(s) - 1) \in Seq(Frame) /\ s[Len(s)] \in Frame
         /\ Of(fn, s) = IF s[Len(s)].fn = fn
                        THEN Of(fn, SubSeq(s, 1, Len(s) - 1)) \cup {s[Len(s)]}
                        ELSE Of(fn, SubSeq(s, 1, Len(s) - 1))
<1> DEFINE b == SubSeq(s, 1, Len(s) - 1)  f == s[Len(s)]
<1>1. Len(s) \in Nat /\ Len(s) >= 1 /\ f \in Frame
  OBVIOUS
<1>2. /\ b \in Seq(Frame) /\ Len(b) = Len(s) - 1
      /\ \A k \in 1..(Len(s) - 1) : b[k] = s[k]
  <2> DEFINE n == Len(s) - 1
  <2>1. n \in Int /\ n \in Nat /\ 1 \in Int /\ \A k \in 1..n : s[k] \in Frame
    BY <1>1
  <2> HIDE DEF n
  <2>2. SubSeq(s, 1, n) \in Seq(Frame)
    BY <2>1, SubSeqProperties, SMT
  <2>3. Len(SubSeq(s, 1, n)) = n /\ \A k \in 1..n : SubSeq(s, 1, n)[k] = s[k]
    BY <2>1, SubSeqProperties, SMT
  <2> QED BY <2>2, <2>3 DEF n
<1>3. s = Append(b, f)
  <2> DEFINE a == Append(b, f)
  <2>1. /\ a \in Seq(Frame) /\ Len(a) = Len(b) + 1 /\ a[Len(b) + 1] = f
        /\ \A k \in 1..Len(b) : a[k] = b[k]
    BY <1>1, <1>2, AppendProperties
  <2> HIDE DEF a, b
  <2>2. Len(a) = Len(s) /\ \A k \in 1..Len(s) : s[k] = a[k]
    BY <1>1, <1>2, <2>1
  <2>3. s = a
    BY <2>1, <2>2, SeqEqual
  <2> QED BY <2>3 DEF a
<1> HIDE DEF b, f
<1>4. Of(fn, Append(b, f)) = IF f.fn = fn THEN Of(fn, b) \cup {f} ELSE Of(fn, b)
  BY <1>1, <1>2, OfAppend
<1>5. Of(fn, s) = IF f.fn = fn THEN Of(fn, b) \cup {f} ELSE Of(fn, b)
  BY <1>3, <1>4, Zenon
<1> QED BY <1>1, <1>2, <1>5, Zenon DEF b, f

\* The stack now: the frames below the executing one.
LEMMA OfStack ==
  ASSUME Inv, stack # << >>
  PROVE  /\ Below \in Seq(Frame) /\ Top \in Frame
         /\ \A fn : Of(fn, stack) = IF Top.fn = fn THEN Of(fn, Below) \cup {Top} ELSE Of(fn, Below)
<1>1. stack \in Seq(Frame)
  BY InvParts DEF Good
<1>2. Below \in Seq(Frame) /\ Top \in Frame
  BY <1>1, OfTop, Zenon DEF Below, Top
<1>3. \A fn : Of(fn, stack) = IF Top.fn = fn THEN Of(fn, Below) \cup {Top} ELSE Of(fn, Below)
  BY <1>1, OfTop, Zenon DEF Below, Top
<1> QED BY <1>2, <1>3

\* call_process pushes at most a frame of a thread, and exits nobody.
LEMMA OfCall ==
  ASSUME NEW st \in [Proc -> States], NEW p \in Proc, NEW ev \in Ids, NEW data \in Datum,
         NEW b \in Seq(Frame), call_process(st, p, ev, data, b), NEW fn, fn # "thread"
  PROVE  /\ Of(fn, stack') = Of(fn, b) /\ stack' \in Seq(Frame)
         /\ \A q \in Proc : state'[q] = "none" => st[q] = "none"
<1> DEFINE f == Thread(p, ev, data)
<1>1. f \in Frame /\ f.fn = "thread"
  BY ThreadFrames DEF Thread
<1>2. /\ stack' = b \/ stack' = Append(b, f)
      /\ state' = st \/ state' = [st EXCEPT ![p] = "called"]
  BY DEF call_process
<1> HIDE DEF f
<1>3. Of(fn, Append(b, f)) = Of(fn, b) /\ Append(b, f) \in Seq(Frame)
  BY <1>1, OfAppend
<1> QED BY <1>2, <1>3

-----------------------------------------------------------------------------
(* The cursors of the loops over the process list.                         *)

\* A loop that is to come to z still does, whatever is done to the list.
LEMMA ReachKept ==
  ASSUME Inv, Lists, Relinks, NEW z, z \in Listed, z \in Listed'
  PROVE  /\ \A c \in OrNull(Proc) : z \in Members(c, next) => z \in Members(c, next')
         /\ \A c \in Proc : z \in Members(next[c], next) => z \in Members(next'[c], next')
<1>1. KernelOK /\ Acyclic(Proc, next) /\ Linked(Proc, next) /\ next \in [Proc -> OrNull(Proc)]
  BY InvParts, KernelLinks DEF Lists, KernelOK
<1>2. CASE UNCHANGED listVars
  BY <1>2 DEF listVars
<1>3. CASE \E x \in App : unlink(x)
  <2>1. PICK x \in App : unlink(x)
    BY <1>3
  <2>2. x \in Proc
    BY AppIsProc
  <2>3. /\ Members(process_list', next') = Listed \ {x}
        /\ \A c \in OrNull(Proc) : Members(c, next) \subseteq Members(c, next') \cup {x}
        /\ \A c \in Proc : next'[c] = next[c] \/ (next[c] = x /\ next'[c] = next[x])
    BY <1>1, <2>1, <2>2, UnlinkList
  <2>4. z # x
    BY <2>3 DEF Listed
  <2>5. \A c \in OrNull(Proc) : z \in Members(c, next) => z \in Members(c, next')
    BY <2>3, <2>4
  <2>6. Members(x, next) = {x} \cup Members(next[x], next)
    BY <1>1, <2>2, HeadAndRest
  <2>7. ASSUME NEW c \in Proc, z \in Members(next[c], next)
        PROVE  z \in Members(next'[c], next')
    <3>1. CASE next'[c] = next[c]
      BY <1>1, <2>5, <2>7, <3>1
    <3>2. CASE next[c] = x /\ next'[c] = next[x]
      <4>1. z \in Members(next[x], next) /\ next[x] \in OrNull(Proc)
        BY <1>1, <2>2, <2>4, <2>6, <2>7, <3>2
      <4> QED BY <2>5, <3>2, <4>1
    <3> QED BY <2>3, <3>1, <3>2
  <2> QED BY <2>5, <2>7
<1>4. CASE \E x \in Proc : Starting(x)
  <2>1. PICK x \in Proc : Starting(x)
    BY <1>4
  <2>2. /\ \A c \in OrNull(Proc) : Members(c, next) \cap Listed \subseteq Members(c, next')
        /\ Members(process_list, next') = Listed
        /\ next'[x] = process_list /\ \A c \in Proc : c # x => next'[c] = next[c]
    BY <1>1, <2>1, StartList DEF Starting
  <2>3. \A c \in OrNull(Proc) : z \in Members(c, next) => z \in Members(c, next')
    BY <2>2
  <2>4. \A c \in Proc : z \in Members(next[c], next) => z \in Members(next'[c], next')
    BY <1>1, <2>2, <2>3
  <2> QED BY <2>3, <2>4
<1> QED BY <1>2, <1>3, <1>4 DEF Relinks

\* A step leaves the loops of exit_process, of do_poll.
StatesKept == \A q \in Listed' : state'[q] = "none" => q \in Listed /\ state[q] = "none"
ExitsQuiet == /\ Of("exit_process", stack') = Of("exit_process", stack)
              /\ StatesKept /\ Listed \subseteq Listed'
PollsQuiet == /\ Of("do_poll", stack) \subseteq Of("do_poll", stack')
              /\ poll_requested => poll_requested'
              /\ needspoll' \subseteq needspoll \/ poll_requested'

\* The list is a function of its head and links.
LEMMA ListedStays ==
  ASSUME UNCHANGED listVars
  PROVE  Listed' = Listed
BY DEF listVars, Listed

\* Processes are on the list.
LEMMA ListedProc ==
  ASSUME Inv, Lists
  PROVE  Listed \subseteq Proc
<1>1. Linked(Proc, next) /\ process_list \in Proc \cup {NULL}
  BY InvParts, KernelLinks DEF KernelOK, OrNull
<1> QED BY <1>1, MembersClosed DEF Lists, Listed

\* call_process and process_start, with the frames b below.
LEMMA CallQuiet ==
  ASSUME Inv, Lists, NEW st \in [Proc -> States], NEW p \in Proc, NEW ev \in Ids,
         NEW data \in Datum, NEW b \in Seq(Frame), call_process(st, p, ev, data, b),
         \A q \in Proc : st[q] = "none" => state[q] = "none", UNCHANGED listVars
  PROVE  /\ \A fn : fn # "thread" => Of(fn, stack') = Of(fn, b)
         /\ StatesKept /\ Listed \subseteq Listed'
<1>1. \A fn : fn # "thread" => Of(fn, stack') = Of(fn, b)
  BY OfCall
<1>2. \A q \in Proc : state'[q] = "none" => st[q] = "none"
  <2>1. "do_poll" # "thread"
    OBVIOUS
  <2> QED BY <2>1, OfCall
<1>3. Listed' = Listed /\ Listed \subseteq Proc
  BY ListedStays, ListedProc
<1> QED BY <1>1, <1>2, <1>3 DEF StatesKept

\* The process that is started is not exited.
LEMMA StartQuiet ==
  ASSUME Inv, Lists, NEW p \in Proc, NEW b \in Seq(Frame), process_start(p, b)
  PROVE  /\ \A fn : fn \notin {"thread", "process_post_synch"} => Of(fn, stack') = Of(fn, b)
         /\ StatesKept /\ Listed \subseteq Listed'
<1>0. Listed \subseteq Proc
  BY ListedProc
<1>1. CASE p \in Listed
  <2>1. stack' = b /\ UNCHANGED << listVars, state >>
    BY <1>1 DEF process_start
  <2> QED BY <2>1, ListedStays DEF StatesKept
<1>2. CASE p \notin Listed
  <2> DEFINE st == [state EXCEPT ![p] = "running"]  f == Synch(process_current)
  <2>1. Starting(p) /\ call_process(st, p, "init", NULL, Append(b, f))
    BY <1>2 DEF process_start, Starting, Changed
  <2>2. st \in [Proc -> States] /\ "init" \in Ids /\ NULL \in Datum
        /\ \A q \in Proc : st[q] = "none" => q # p /\ state[q] = "none"
    BY InvParts DEF KernelOK, States, Ids, Datum
  <2>3. f \in Frame /\ f.fn = "process_post_synch"
    BY InvParts DEF Synch, Frame, SynchFrame, KernelOK
  <2> HIDE DEF f, st
  <2>4. Append(b, f) \in Seq(Frame) /\ \A fn : fn # "process_post_synch" => Of(fn, Append(b, f)) = Of(fn, b)
    BY <2>3, OfAppend
  <2>5. \A fn : fn \notin {"thread", "process_post_synch"} => Of(fn, stack') = Of(fn, b)
    BY <2>1, <2>2, <2>4, OfCall
  <2>6. \A q \in Proc : state'[q] = "none" => q # p /\ state[q] = "none"
    <3>1. "do_poll" # "thread"
      OBVIOUS
    <3>2. \A q \in Proc : state'[q] = "none" => st[q] = "none"
      BY <2>1, <2>2, <2>4, <3>1, OfCall
    <3> QED BY <2>2, <3>2
  <2>7. Listed' = {p} \cup Listed
    <3>1. KernelOK /\ Acyclic(Proc, next)
      BY InvParts DEF Lists
    <3> QED BY <2>1, <3>1, StartList DEF Starting, Listed
  <2> QED BY <1>0, <2>5, <2>6, <2>7 DEF StatesKept
<1> QED BY <1>1, <1>2

\* The frame that executes is replaced.
LEMMA OfGoto ==
  ASSUME Inv, stack # << >>, NEW f \in Frame, NEW fn
  PROVE  /\ Append(Below, f) \in Seq(Frame)
         /\ Of(fn, Append(Below, f)) = IF f.fn = fn THEN Of(fn, Below) \cup {f} ELSE Of(fn, Below)
<1>1. Below \in Seq(Frame)
  BY OfStack
<1> HIDE DEF Below
<1> QED BY <1>1, OfAppend

\* Steps of main.
LEMMA MainQuiet ==
  ASSUME Inv, Lists, ServiceInv, MainStart \/ MainStarted \/ RunEvent \/ MainLoop \/ MainSleep
  PROVE  ExitsQuiet /\ PollsQuiet
<1>1. stack = << >> /\ << >> \in Seq(Frame) /\ UNCHANGED pollVars
  BY DEF MainStart, MainStarted, RunEvent, MainLoop, MainSleep, MainAt
<1>2. \A fn : Of(fn, stack) = {}
  BY <1>1, OfEmpty
<1>3. PollsQuiet
  BY <1>1, <1>2 DEF PollsQuiet, pollVars
<1>4. CASE MainStart
  <2>1. AutoStart[main.i] \in Proc /\ process_start(AutoStart[main.i], << >>)
    BY <1>4, ProcessAssumption, InvParts DEF MainStart, MainAt, MainOK
  <2> QED BY <1>1, <1>2, <1>3, <2>1, OfEmpty, StartQuiet DEF ExitsQuiet
<1>5. CASE UNCHANGED << listVars, state, stack >>
  BY <1>3, <1>5, ListedStays DEF ExitsQuiet, StatesKept
<1>6. CASE RunEvent /\ nevents # 0
  <2> DEFINE e == events[fevent]
             st == IF e.ev = "init" THEN [state EXCEPT ![e.p] = "running"] ELSE state
             f == Broadcast(process_list, e.ev, e.data, "poll")
  <2>1. e \in QueuedEvent /\ process_list \in OrNull(Proc) /\ state \in [Proc -> States]
    BY InvParts DEF QueueOK, KernelOK
  <2>2. /\ e.p \in OrNull(Proc) /\ e.ev \in Ids /\ e.data \in Datum
    BY <2>1 DEF QueuedEvent, OrNull, Datum
  <2>3. UNCHANGED listVars
    BY <1>6 DEF RunEvent
  <2>4. CASE e.p = NULL
    <3>1. stack' = Append(<< >>, f) /\ state' = state
      BY <1>6, <2>4 DEF RunEvent
    <3>2. f \in Frame /\ f.fn = "do_event"
      BY <2>1, <2>2 DEF Broadcast, Frame, EventFrame
    <3> HIDE DEF f
    <3>3. Of("exit_process", stack') = {}
      BY <1>1, <3>1, <3>2, OfAppend, OfEmpty
    <3> QED BY <1>2, <1>3, <2>3, <3>1, <3>3, ListedStays DEF ExitsQuiet, StatesKept
  <2>5. CASE e.p # NULL
    <3>1. call_process(st, e.p, e.ev, e.data, << >>)
      BY <1>6, <2>5 DEF RunEvent
    <3>2. /\ e.p \in Proc /\ st \in [Proc -> States]
          /\ \A q \in Proc : st[q] = "none" => state[q] = "none"
      BY <2>1, <2>2, <2>5 DEF OrNull, States
    <3> HIDE DEF st, e
    <3> QED BY <1>1, <1>2, <1>3, <2>2, <2>3, <3>1, <3>2, CallQuiet, OfEmpty DEF ExitsQuiet
  <2> QED BY <2>4, <2>5
<1>7. CASE RunEvent /\ nevents = 0
  BY <1>5, <1>7 DEF RunEvent
<1> QED BY <1>4, <1>5, <1>6, <1>7 DEF MainStarted, MainLoop, MainSleep

\* process_run asks for do_poll: it begins at the head of the list.
LEMMA PollingFrame ==
  ASSUME Inv, NEW b \in Seq(Frame), StartPolling(b)
  PROVE  /\ Of("exit_process", stack') = Of("exit_process", b)
         /\ Polling(process_list, "visit") \in Of("do_poll", stack')
<1> DEFINE f == Polling(process_list, "visit")
<1>1. f \in Frame /\ f.fn = "do_poll"
  BY InvParts DEF Polling, Frame, PollFrame, KernelOK
<1>2. stack' = Append(b, f)
  BY DEF StartPolling
<1> HIDE DEF f
<1>3. Of("exit_process", stack') = Of("exit_process", b) /\ f \in Of("do_poll", stack')
  BY <1>1, <1>2, OfAppend
<1> QED BY <1>3 DEF f

\* process_run, before it looks for an event.
LEMMA RunPollsQuiet ==
  ASSUME Inv, Lists, RunPolls
  PROVE  /\ ExitsQuiet
         /\ PollsQuiet \/ Polling(process_list, "visit") \in Of("do_poll", stack')
<1>1. stack = << >> /\ << >> \in Seq(Frame) /\ UNCHANGED << listVars, state, needspoll >>
  BY DEF RunPolls, MainAt
<1>2. StatesKept /\ Listed \subseteq Listed'
  BY <1>1, ListedStays DEF StatesKept
<1>3. CASE poll_requested
  BY <1>1, <1>2, <1>3, PollingFrame DEF RunPolls, ExitsQuiet
<1>4. CASE ~poll_requested
  BY <1>1, <1>2, <1>4 DEF RunPolls, ExitsQuiet, PollsQuiet
<1> QED BY <1>3, <1>4

\* The broadcast of do_event, with the polls in between.
LEMMA BroadcastQuiet ==
  ASSUME Inv, Lists, ServiceInv, BroadcastStep
  PROVE  /\ ExitsQuiet
         /\ PollsQuiet \/ Polling(process_list, "visit") \in Of("do_poll", stack')
<1> DEFINE Cursor(q, at) == Broadcast(q, Top.ev, Top.data, at)
           p == Top.p
<1>1. /\ stack # << >> /\ Top.fn = "do_event" /\ Top \in EventFrame
      /\ UNCHANGED << listVars, needspoll >>
  BY TopLoop DEF BroadcastStep, Executing
<1>2. /\ p \in OrNull(Proc) /\ Top.ev \in Ids /\ Top.data \in Datum
      /\ state \in [Proc -> States] /\ next \in [Proc -> OrNull(Proc)]
  BY <1>1, InvParts DEF EventFrame, KernelOK
<1>3. Below \in Seq(Frame) /\ \A fn : fn # "do_event" => Of(fn, stack) = Of(fn, Below)
  BY <1>1, OfStack
<1>4. ASSUME NEW q \in OrNull(Proc), NEW at \in {"poll", "call", "next"}
      PROVE  /\ Append(Below, Cursor(q, at)) \in Seq(Frame)
             /\ \A fn : fn # "do_event" => Of(fn, Append(Below, Cursor(q, at))) = Of(fn, stack)
  <2> DEFINE f == Cursor(q, at)
  <2>1. f \in Frame /\ f.fn = "do_event"
    BY <1>2 DEF Broadcast, Frame, EventFrame
  <2> HIDE DEF f
  <2>2. /\ Append(Below, f) \in Seq(Frame)
        /\ \A fn : fn # "do_event" => Of(fn, Append(Below, f)) = Of(fn, Below)
    BY <1>1, <2>1, OfGoto
  <2>3. /\ Append(Below, f) \in Seq(Frame)
        /\ \A fn : fn # "do_event" => Of(fn, Append(Below, f)) = Of(fn, stack)
    BY <1>3, <2>2
  <2> QED BY <2>3 DEF f
<1>5. ASSUME UNCHANGED << state, poll_requested >>,
             \A fn : fn # "do_event" => Of(fn, stack') = Of(fn, stack)
      PROVE  ExitsQuiet /\ PollsQuiet
  BY <1>1, <1>5, ListedStays DEF ExitsQuiet, PollsQuiet, StatesKept
<1>6. CASE p = NULL /\ Return /\ UNCHANGED << state, poll_requested >>
  BY <1>3, <1>5, <1>6 DEF Return
<1>7. CASE /\ p # NULL /\ poll_requested /\ StartPolling(Append(Below, Cursor(p, "call")))
           /\ UNCHANGED state
  <2>1. /\ Append(Below, Cursor(p, "call")) \in Seq(Frame)
        /\ Of("exit_process", Append(Below, Cursor(p, "call"))) = Of("exit_process", stack)
    BY <1>2, <1>4
  <2> HIDE DEF Cursor, p
  <2> QED BY <1>1, <1>7, <2>1, PollingFrame, ListedStays DEF ExitsQuiet, StatesKept
<1>8. CASE /\ p # NULL /\ Goto(Cursor(p, "call")) /\ UNCHANGED << state, poll_requested >>
  BY <1>2, <1>4, <1>5, <1>8 DEF Goto
<1>9. CASE /\ p # NULL /\ UNCHANGED poll_requested
           /\ call_process(state, p, Top.ev, Top.data, Append(Below, Cursor(p, "next")))
  <2> DEFINE b == Append(Below, Cursor(p, "next"))
  <2>1. b \in Seq(Frame) /\ \A fn : fn # "do_event" => Of(fn, b) = Of(fn, stack)
    BY <1>2, <1>4
  <2>2. p \in Proc /\ call_process(state, p, Top.ev, Top.data, b)
    BY <1>2, <1>9 DEF OrNull
  <2> HIDE DEF b, p
  <2>3. /\ \A fn : fn # "thread" => Of(fn, stack') = Of(fn, b)
        /\ StatesKept /\ Listed \subseteq Listed'
    BY <1>1, <1>2, <2>1, <2>2, CallQuiet
  <2> QED BY <1>1, <1>9, <2>1, <2>3 DEF ExitsQuiet, PollsQuiet
<1>10. CASE /\ p # NULL /\ Goto(Cursor(next[p], "poll")) /\ UNCHANGED << state, poll_requested >>
  <2>1. next[p] \in OrNull(Proc)
    BY <1>2, <1>10 DEF OrNull
  <2> QED BY <1>4, <1>5, <1>10, <2>1 DEF Goto
<1> QED BY <1>6, <1>7, <1>8, <1>9, <1>10 DEF BroadcastStep

\* Threads, their calls and returns, other than exit_process.
LEMMA ThreadsQuiet ==
  ASSUME Inv, Lists, ServiceInv,
         \/ SynchReturns \/ ExitThreadReturns
         \/ CallPost \/ CallPostSynch \/ CallPoll \/ CallStart
  PROVE  ExitsQuiet /\ PollsQuiet
<1>1. stack \in Seq(Frame) /\ process_current \in OrNull(Proc) /\ state \in [Proc -> States]
  BY InvParts DEF Good, KernelOK
<1>2. CASE SynchReturns \/ ExitThreadReturns
  <2>1. /\ stack # << >> /\ Top.fn \in {"process_post_synch", "exit thread"}
        /\ stack' = Below /\ UNCHANGED << listVars, state, pollVars >>
    BY <1>2 DEF SynchReturns, ExitThreadReturns, Executing, Return
  <2>2. \A fn : fn \notin {"process_post_synch", "exit thread"} => Of(fn, stack') = Of(fn, stack)
    BY <2>1, OfStack
  <2> QED BY <2>1, <2>2, ListedStays DEF ExitsQuiet, PollsQuiet, StatesKept, pollVars
<1>3. CASE CallPost
  BY <1>3, ListedStays DEF CallPost, ExitsQuiet, PollsQuiet, StatesKept, pollVars
<1>4. CASE CallPoll
  <2>1. UNCHANGED << listVars, state, stack >>
        /\ (UNCHANGED << needspoll, poll_requested >> \/ poll_requested')
    BY <1>4 DEF CallPoll, process_poll, pollVars
  <2> QED BY <2>1, ListedStays DEF ExitsQuiet, PollsQuiet, StatesKept
<1>5. CASE CallPostSynch
  <2> DEFINE f == Synch(process_current)
  <2>1. PICK p \in App : call_process(state, p, "msg", NULL, Append(stack, f))
    BY <1>5 DEF CallPostSynch
  <2>2. UNCHANGED << listVars, pollVars >>
    BY <1>5 DEF CallPostSynch
  <2>3. f \in Frame /\ f.fn = "process_post_synch"
    BY <1>1 DEF Synch, Frame, SynchFrame
  <2> HIDE DEF f
  <2>4. Append(stack, f) \in Seq(Frame)
        /\ \A fn : fn # "process_post_synch" => Of(fn, Append(stack, f)) = Of(fn, stack)
    BY <1>1, <2>3, OfAppend
  <2>5. p \in Proc /\ "msg" \in Ids /\ NULL \in Datum
    BY AppIsProc DEF Ids, Datum
  <2>6. /\ \A fn : fn # "thread" => Of(fn, stack') = Of(fn, Append(stack, f))
        /\ StatesKept /\ Listed \subseteq Listed'
    BY <1>1, <2>1, <2>2, <2>4, <2>5, CallQuiet
  <2> QED BY <2>2, <2>4, <2>6 DEF ExitsQuiet, PollsQuiet, pollVars
<1>6. CASE CallStart
  <2>1. PICK p \in App : process_start(p, stack)
    BY <1>6 DEF CallStart
  <2>2. p \in Proc /\ UNCHANGED pollVars
    BY <1>6, AppIsProc DEF CallStart
  <2>3. /\ \A fn : fn \notin {"thread", "process_post_synch"} => Of(fn, stack') = Of(fn, stack)
        /\ StatesKept /\ Listed \subseteq Listed'
    BY <1>1, <2>1, <2>2, StartQuiet
  <2> QED BY <2>2, <2>3 DEF ExitsQuiet, PollsQuiet, pollVars
<1> QED BY <1>2, <1>3, <1>4, <1>5, <1>6

\* The thread of etimer_process, the calls of etimer.h and interrupts.
LEMMA ServiceQuiet ==
  ASSUME Inv, Lists, ServiceInv,
         \/ Start \/ DropExited \/ DropHead \/ DropNext \/ OtherEvent \/ Polled \/ ScanTimer \/ ScanEnd
         \/ CallSet \/ CallReset \/ CallAdjust \/ CallStop \/ ClockInterrupt
         \/ PollInterrupt /\ UNCHANGED timerVars
  PROVE  ExitsQuiet /\ PollsQuiet
<1>1. UNCHANGED listVars
  BY DEF Start, DropExited, DropHead, DropNext, OtherEvent, Polled, ScanTimer, ScanEnd, CallSet,
         CallReset, CallAdjust, CallStop, ClockInterrupt, PollInterrupt
<1>2. Listed' = Listed /\ Listed \subseteq Proc
  BY <1>1, ListedStays, ListedProc
<1>3. UNCHANGED << needspoll, poll_requested >> \/ poll_requested'
  BY DEF Start, DropExited, DropHead, DropNext, OtherEvent, Polled, ScanTimer, ScanEnd, CallSet,
         CallReset, CallAdjust, CallStop, ClockInterrupt, PollInterrupt, Expire, etimer_set,
         etimer_reset_with_new_interval, etimer_reset, etimer_restart, add_timer, process_poll,
         pollVars
<1>4. /\ UNCHANGED state \/ state' = [state EXCEPT ![etimer_process] = "running"]
      /\ \/ UNCHANGED stack
         \/ /\ stack # << >> /\ OfService(Top)
            /\ Return \/ \E t, u : Goto(Scan(u, t)) \/ Goto(Dropping(u, t))
  <2>1. CASE ScanTimer
    BY <2>1 DEF ScanTimer, Expire, Executing, OfService
  <2>2. CASE DropHead
    BY <2>2 DEF DropHead, Executing, OfService, Yield
  <2>3. CASE DropNext
    BY <2>3 DEF DropNext, Executing, OfService, Yield
  <2>4. CASE Start \/ OtherEvent \/ ScanEnd
    BY <2>4 DEF Start, OtherEvent, ScanEnd, ServiceCalled, Executing, OfService, Yield
  <2>5. CASE DropExited
    BY <2>5 DEF DropExited, ServiceCalled, Executing, OfService
  <2>6. CASE Polled
    BY <2>6 DEF Polled, ServiceCalled, Executing, OfService
  <2>7. CASE CallSet \/ CallReset \/ CallAdjust \/ CallStop \/ ClockInterrupt \/ PollInterrupt
    BY <2>7 DEF CallSet, CallReset, CallAdjust, CallStop, ClockInterrupt, PollInterrupt
  <2> QED BY <2>1, <2>2, <2>3, <2>4, <2>5, <2>6, <2>7
<1>5. StatesKept
  <2>1. state \in [Proc -> States]
    BY InvParts DEF KernelOK
  <2> QED BY <1>2, <1>4, <2>1 DEF StatesKept
<1>6. \A fn : fn \in {"exit_process", "do_poll"} => Of(fn, stack') = Of(fn, stack)
  <2>1. CASE UNCHANGED stack
    BY <2>1
  <2>2. CASE stack # << >> /\ OfService(Top) /\ Return
    BY <2>2, OfStack DEF OfService, Return
  <2>3. ASSUME stack # << >>, OfService(Top), NEW f, f.fn \in {"etimer", "drop"}, Goto(f)
        PROVE  \A fn : fn \in {"exit_process", "do_poll"} => Of(fn, stack') = Of(fn, stack)
    <3>1. \A fn : fn \in {"exit_process", "do_poll"} => Of(fn, stack) = Of(fn, Below)
      BY <2>3, OfStack DEF OfService
    <3>2. stack' \in Seq(Frame)
      <4>1. Next
        BY DEF Next, Processor, Application
      <4> QED BY <4>1, NextInv DEF Inv, Good
    <3>3. stack' # << >> /\ stack'[Len(stack')] = f /\ SubSeq(stack', 1, Len(stack') - 1) = Below
      BY <2>3, GotoFacts
    <3> QED BY <2>3, <3>1, <3>2, <3>3, OfTop
  <2>4. CASE stack # << >> /\ OfService(Top) /\ \E t, u : Goto(Scan(u, t)) \/ Goto(Dropping(u, t))
    <3>1. PICK t, u : Goto(Scan(u, t)) \/ Goto(Dropping(u, t))
      BY <2>4
    <3>2. Scan(u, t).fn = "etimer" /\ Dropping(u, t).fn = "drop"
      BY DEF Scan, Dropping
    <3> QED BY <2>3, <2>4, <3>1, <3>2
  <2> QED BY <1>4, <2>1, <2>2, <2>4
<1> QED BY <1>2, <1>3, <1>5, <1>6 DEF ExitsQuiet, PollsQuiet

-----------------------------------------------------------------------------
(* exit_process.                                                           *)

\* exit_process begins, or takes a process off that is being exited already.
LEMMA ExitMoves ==
  ASSUME Inv, NEW p \in App, NEW from \in OrNull(Proc), NEW b \in Seq(Frame),
         exit_process(p, from, b)
  PROVE  LET f == Exiting(p, from, process_list, process_current, "tell")
         IN  /\ Of("do_poll", stack') = Of("do_poll", b)
             /\ \/ /\ Of("exit_process", stack') = Of("exit_process", b) \cup {f}
                   /\ state' = [state EXCEPT ![p] = "none"] /\ UNCHANGED listVars
                \/ /\ Of("exit_process", stack') = Of("exit_process", b)
                   /\ UNCHANGED << state, listVars >>
                \/ /\ Of("exit_process", stack') = Of("exit_process", b)
                   /\ p \in Listed /\ state[p] = "none" /\ unlink(p) /\ UNCHANGED state
<1> DEFINE f == Exiting(p, from, process_list, process_current, "tell")
<1>1. f \in Frame /\ f.fn = "exit_process"
  BY InvParts, AppIsProc DEF Exiting, Frame, ExitFrame, KernelOK
<1>2. \/ stack' = Append(b, f) /\ state' = [state EXCEPT ![p] = "none"] /\ UNCHANGED listVars
      \/ stack' = b /\ UNCHANGED << state, listVars >>
      \/ stack' = b /\ p \in Listed /\ state[p] = "none" /\ unlink(p) /\ UNCHANGED state
  BY DEF exit_process
<1> HIDE DEF f
<1>3. /\ Of("do_poll", Append(b, f)) = Of("do_poll", b)
      /\ Of("exit_process", Append(b, f)) = Of("exit_process", b) \cup {f}
  BY <1>1, OfAppend
<1> QED BY <1>2, <1>3 DEF f

\* The loop of exit_process goes on.
LEMMA TellingFrame ==
  ASSUME Inv, ServiceInv, Executing("exit_process")
  PROVE  /\ stack # << >> /\ Top \in ExitFrame /\ Top.p \in App /\ Below \in Seq(Frame)
         /\ Of("exit_process", stack) = Of("exit_process", Below) \cup {Top}
         /\ \A fn : fn # "exit_process" => Of(fn, stack) = Of(fn, Below)
         /\ \A q \in OrNull(Proc), at \in {"tell", "told", "unlink"} :
              LET g == Exiting(Top.p, Top.from, q, Top.old, at)
              IN  /\ g \in Frame /\ Append(Below, g) \in Seq(Frame)
                  /\ Of("exit_process", Append(Below, g)) = Of("exit_process", Below) \cup {g}
                  /\ \A fn : fn # "exit_process" => Of(fn, Append(Below, g)) = Of(fn, Below)
<1>1. stack # << >> /\ Top.fn = "exit_process" /\ Top \in ExitFrame
  BY TopSaved DEF Executing
<1>2. Top.p \in App
  <2>1. ~OfService(Top)
    BY <1>1 DEF OfService
  <2> QED BY <1>1, <2>1, KernelTop DEF Plain
<1>3. /\ Below \in Seq(Frame)
      /\ Of("exit_process", stack) = Of("exit_process", Below) \cup {Top}
      /\ \A fn : fn # "exit_process" => Of(fn, stack) = Of(fn, Below)
  BY <1>1, OfStack
<1>4. ASSUME NEW q \in OrNull(Proc), NEW at \in {"tell", "told", "unlink"}
      PROVE  LET g == Exiting(Top.p, Top.from, q, Top.old, at)
             IN  /\ g \in Frame /\ Append(Below, g) \in Seq(Frame)
                 /\ Of("exit_process", Append(Below, g)) = Of("exit_process", Below) \cup {g}
                 /\ \A fn : fn # "exit_process" => Of(fn, Append(Below, g)) = Of(fn, Below)
  <2> DEFINE g == Exiting(Top.p, Top.from, q, Top.old, at)
  <2>1. g \in Frame /\ g.fn = "exit_process"
    BY <1>1 DEF Exiting, ExitFrame, Frame
  <2> HIDE DEF g
  <2>2. /\ Append(Below, g) \in Seq(Frame)
        /\ Of("exit_process", Append(Below, g)) = Of("exit_process", Below) \cup {g}
        /\ \A fn : fn # "exit_process" => Of(fn, Append(Below, g)) = Of(fn, Below)
    BY <1>1, <2>1, OfGoto
  <2> QED BY <2>1, <2>2 DEF g
<1> QED BY <1>1, <1>2, <1>3, <1>4

\* The loop passes a process; etimer_process is called when it does.
LEMMA ExitTellsMoves ==
  ASSUME Inv, Lists, ServiceInv, ExitTells
  PROVE  /\ Of("do_poll", stack') = Of("do_poll", stack) /\ UNCHANGED << listVars, pollVars >>
         /\ StatesKept
         /\ \/ /\ Top.at = "tell" /\ Top.q # Top.p
               /\ Of("exit_process", stack') = Of("exit_process", Below)
                     \cup {Exiting(Top.p, Top.from, Top.q, Top.old, "told")}
               /\ Top.q = etimer_process => ServiceCalled("exited")' /\ Top'.data = Top.p
            \/ /\ Top.at = "told" \/ Top.q = Top.p
               /\ Of("exit_process", stack') = Of("exit_process", Below)
                     \cup {Exiting(Top.p, Top.from, next[Top.q], Top.old, "tell")}
<1> DEFINE Cursor(q, at) == Exiting(Top.p, Top.from, q, Top.old, at)
<1>1. /\ Executing("exit_process") /\ Top.q # NULL /\ Top.at \in {"tell", "told"}
      /\ UNCHANGED << listVars, pollVars >>
  BY DEF ExitTells
<1>2. /\ stack # << >> /\ Top \in ExitFrame /\ Top.p \in App /\ Below \in Seq(Frame)
      /\ \A fn : fn # "exit_process" => Of(fn, stack) = Of(fn, Below)
  BY <1>1, TellingFrame
<1>3. ASSUME NEW q \in OrNull(Proc), NEW at \in {"tell", "told", "unlink"}
      PROVE  /\ Append(Below, Cursor(q, at)) \in Seq(Frame)
             /\ Of("exit_process", Append(Below, Cursor(q, at)))
                  = Of("exit_process", Below) \cup {Cursor(q, at)}
             /\ \A fn : fn # "exit_process" => Of(fn, Append(Below, Cursor(q, at))) = Of(fn, Below)
  BY <1>1, TellingFrame
<1>4. Top.q \in Proc /\ Top.q \in OrNull(Proc) /\ next[Top.q] \in OrNull(Proc)
  BY <1>1, <1>2, InvParts DEF ExitFrame, KernelOK, OrNull
<1>5. state \in [Proc -> States] /\ state[etimer_process] = "running"
  <2>1. ~OfService(Top)
    BY <1>1 DEF OfService, Executing
  <2> QED BY <1>2, <2>1, KernelTop
<1>6. CASE /\ Top.at = "tell" /\ Top.q # Top.p
           /\ call_process(state, Top.q, "exited", Top.p, Append(Below, Cursor(Top.q, "told")))
  <2> DEFINE b == Append(Below, Cursor(Top.q, "told"))
  <2>1. /\ b \in Seq(Frame)
        /\ Of("exit_process", b) = Of("exit_process", Below) \cup {Cursor(Top.q, "told")}
        /\ Of("do_poll", b) = Of("do_poll", Below)
    BY <1>3, <1>4
  <2>2. Top.p \in Datum /\ "exited" \in Ids
    BY <1>2 DEF Datum, Ids, Proc
  <2>3. call_process(state, Top.q, "exited", Top.p, b)
    BY <1>6
  <2> HIDE DEF b, Cursor
  <2>4. /\ \A fn : fn # "thread" => Of(fn, stack') = Of(fn, b)
        /\ StatesKept
    BY <1>1, <1>4, <1>5, <2>1, <2>2, <2>3, CallQuiet
  <2>5. Top.q = etimer_process => ServiceCalled("exited")' /\ Top'.data = Top.p
    <3> DEFINE f == Thread(Top.q, "exited", Top.p)
    <3> SUFFICES ASSUME Top.q = etimer_process
                 PROVE  ServiceCalled("exited")' /\ Top'.data = Top.p
      OBVIOUS
    <3>1. stack' = Append(b, f)
      BY <1>5, <2>3 DEF call_process
    <3>2. f \in Frame /\ f.fn = "thread" /\ f.p = etimer_process /\ f.ev = "exited" /\ f.data = Top.p
      BY <1>4, <2>2, ThreadFrames DEF Thread
    <3> HIDE DEF f
    <3>3. stack' # << >> /\ stack'[Len(stack')] = f
      BY <2>1, <3>1, <3>2
    <3> QED BY <3>2, <3>3 DEF ServiceCalled, Executing, Top
  <2> QED BY <1>1, <1>2, <1>6, <2>1, <2>4, <2>5 DEF Cursor
<1>7. CASE /\ ~(Top.at = "tell" /\ Top.q # Top.p)
           /\ Goto(Cursor(next[Top.q], "tell")) /\ UNCHANGED state
  <2>1. /\ Of("exit_process", stack') = Of("exit_process", Below) \cup {Cursor(next[Top.q], "tell")}
        /\ Of("do_poll", stack') = Of("do_poll", stack)
    BY <1>2, <1>3, <1>4, <1>7 DEF Goto
  <2> QED BY <1>1, <1>7, <2>1, ListedStays DEF StatesKept
<1> QED BY <1>6, <1>7 DEF ExitTells

\* The loop has ended.
LEMMA ExitCallsMoves ==
  ASSUME Inv, Lists, ServiceInv, ExitCalls
  PROVE  /\ Of("do_poll", stack') = Of("do_poll", stack)
         /\ UNCHANGED << listVars, pollVars, state >>
         /\ Of("exit_process", stack') = Of("exit_process", Below)
              \cup {Exiting(Top.p, Top.from, NULL, Top.old, "unlink")}
<1> DEFINE last == Exiting(Top.p, Top.from, NULL, Top.old, "unlink")
<1>1. Executing("exit_process") /\ UNCHANGED << listVars, pollVars, state >>
  BY DEF ExitCalls
<1>2. /\ stack # << >> /\ Top \in ExitFrame /\ Top.p \in App /\ Below \in Seq(Frame)
      /\ \A fn : fn # "exit_process" => Of(fn, stack) = Of(fn, Below)
  BY <1>1, TellingFrame
<1>3. /\ Append(Below, last) \in Seq(Frame)
      /\ Of("exit_process", Append(Below, last)) = Of("exit_process", Below) \cup {last}
      /\ \A fn : fn # "exit_process" => Of(fn, Append(Below, last)) = Of(fn, Below)
  <2>1. NULL \in OrNull(Proc)
    BY DEF OrNull
  <2> QED BY <1>1, <2>1, TellingFrame
<1>4. ExitThread(Top.p) \in Frame /\ ExitThread(Top.p).fn = "exit thread"
  BY <1>2, AppIsProc DEF ExitThread, Frame, ThreadFrame, Ids, Datum
<1>5. \/ stack' = Append(Below, last)
      \/ stack' = Append(Append(Below, last), ExitThread(Top.p))
  BY DEF ExitCalls, Goto
<1> HIDE DEF last
<1>6. \A fn : fn # "exit thread" =>
        Of(fn, Append(Append(Below, last), ExitThread(Top.p))) = Of(fn, Append(Below, last))
  BY <1>3, <1>4, OfAppend
<1>7. \A fn : fn # "exit thread" => Of(fn, stack') = Of(fn, Append(Below, last))
  BY <1>5, <1>6
<1> QED BY <1>1, <1>2, <1>3, <1>7 DEF last

\* exit_process returns.
LEMMA ExitUnlinksMoves ==
  ASSUME Inv, Lists, ServiceInv, ExitUnlinks
  PROVE  /\ Of("do_poll", stack') = Of("do_poll", stack)
         /\ UNCHANGED << pollVars, state >> /\ unlink(Top.p) /\ Top.p \in App
         /\ Of("exit_process", stack') = Of("exit_process", Below)
<1>1. /\ Executing("exit_process") /\ UNCHANGED << pollVars, state >> /\ unlink(Top.p)
      /\ stack' = Below
  BY DEF ExitUnlinks, Return
<1> QED BY <1>1, TellingFrame

\* exit_process leaves the polls.
LEMMA ExitsLeavePolls ==
  ASSUME Inv, Lists, ServiceInv,
         ExitTells \/ ExitCalls \/ ExitUnlinks \/ ThreadReturns(App) \/ CallExit
  PROVE  PollsQuiet
<1>1. UNCHANGED pollVars
  BY DEF ExitTells, ExitCalls, ExitUnlinks, ThreadReturns, CallExit
<1>2. Of("do_poll", stack') = Of("do_poll", stack)
  <2>1. CASE ExitTells \/ ExitCalls \/ ExitUnlinks
    BY <2>1, ExitTellsMoves, ExitCallsMoves, ExitUnlinksMoves
  <2>2. CASE ThreadReturns(App)
    <3>1. /\ Executing("thread") /\ Top.p \in App
          /\ Return \/ exit_process(Top.p, Top.p, Below)
      BY <2>2 DEF ThreadReturns
    <3>2. stack # << >> /\ Top.fn = "thread" /\ Top.p \in OrNull(Proc)
      BY <3>1, AppIsProc DEF Executing, OrNull
    <3>3. Below \in Seq(Frame) /\ Of("do_poll", stack) = Of("do_poll", Below)
      BY <3>2, OfStack
    <3> QED BY <3>1, <3>2, <3>3, ExitMoves DEF Return
  <2>3. CASE CallExit
    <3>1. PICK p \in App : exit_process(p, process_current, stack)
      BY <2>3 DEF CallExit
    <3>2. stack \in Seq(Frame) /\ process_current \in OrNull(Proc)
      BY InvParts DEF Good, KernelOK
    <3> QED BY <3>1, <3>2, ExitMoves
  <2> QED BY <2>1, <2>2, <2>3
<1> QED BY <1>1, <1>2 DEF PollsQuiet, pollVars

-----------------------------------------------------------------------------
(* No poll is lost.                                                        *)

\* The loop of do_poll comes to p.
Comes(f, p, l) == p \in Members(IF f.at = "visit" \/ f.p = NULL THEN f.p ELSE l[f.p], l)

\* A poll is coming: it is requested, or a do_poll comes to p.
LEMMA ComingNow ==
  ASSUME NEW p, PollComing(p)
  PROVE  poll_requested \/ \E f \in Of("do_poll", stack) : Comes(f, p, next)
BY DEF PollComing, WillPoll, Comes, Of

\* The same, of the next state.
LEMMA ComingNext ==
  ASSUME NEW p, poll_requested' \/ \E f \in Of("do_poll", stack') : Comes(f, p, next')
  PROVE  PollComing(p)'
BY DEF PollComing, WillPoll, Comes, Of

\* The frames of do_poll.
LEMMA PollFrames ==
  ASSUME Inv, NEW f \in Of("do_poll", stack)
  PROVE  f \in PollFrame
<1>1. stack \in Seq(Frame)
  BY InvParts DEF Good
<1>2. f \in Frame /\ f.fn = "do_poll"
  BY <1>1 DEF Of
<1> QED BY <1>2, FrameKinds

\* A do_poll comes to a process whatever else is taken off the list or put on it.
LEMMA ComesStill ==
  ASSUME Inv, Lists, Relinks, NEW z, z \in Listed, z \in Listed', NEW f \in PollFrame,
         Comes(f, z, next)
  PROVE  Comes(f, z, next')
<1>1. f.p \in OrNull(Proc)
  BY DEF PollFrame
<1>2. CASE f.at = "visit" \/ f.p = NULL
  BY <1>1, <1>2, ReachKept DEF Comes
<1>3. CASE ~(f.at = "visit" \/ f.p = NULL)
  <2>1. f.p \in Proc
    BY <1>1, <1>3 DEF OrNull
  <2> QED BY <1>3, <2>1, ReachKept DEF Comes
<1> QED BY <1>2, <1>3

\* Steps that leave the loops of do_poll.
LEMMA QuietKeepsPolls ==
  ASSUME Inv, Lists, Relinks, PollsQuiet
  PROVE  PollStepKept
<1> SUFFICES ASSUME NEW z \in Listed \cap Listed' \cap needspoll', z \in needspoll => PollComing(z)
             PROVE  PollComing(z)'
  BY DEF PollStepKept
<1>1. CASE poll_requested'
  BY <1>1, ComingNext
<1>2. CASE ~poll_requested'
  <2>1. z \in needspoll /\ ~poll_requested
    BY <1>2 DEF PollsQuiet
  <2>2. PICK f \in Of("do_poll", stack) : Comes(f, z, next)
    BY <2>1, ComingNow
  <2>3. Comes(f, z, next') /\ f \in Of("do_poll", stack')
    BY <2>2, PollFrames, ComesStill DEF PollsQuiet
  <2> QED BY <2>3, ComingNext
<1> QED BY <1>1, <1>2

\* do_poll begins: it comes to every process on the list.
LEMMA BeginKeepsPolls ==
  ASSUME Inv, Lists, UNCHANGED listVars, Polling(process_list, "visit") \in Of("do_poll", stack')
  PROVE  PollStepKept
<1> DEFINE f == Polling(process_list, "visit")
<1>1. f.at = "visit" /\ f.p = process_list
  BY DEF Polling
<1>2. f \in Of("do_poll", stack')
  OBVIOUS
<1> HIDE DEF f
<1> SUFFICES ASSUME NEW z \in Listed
             PROVE  PollComing(z)'
  BY DEF PollStepKept
<1>3. Comes(f, z, next')
  BY <1>1 DEF Comes, Listed, listVars
<1> QED BY <1>2, <1>3, ComingNext

\* do_poll itself: what it has passed is not flagged any more.
LEMMA PollStepKeepsPolls ==
  ASSUME Inv, Lists, ServiceInv, PollStep
  PROVE  PollStepKept /\ ExitsQuiet
<1> DEFINE p == Top.p
<1>1. /\ stack # << >> /\ Top.fn = "do_poll" /\ Top \in PollFrame
      /\ UNCHANGED << listVars, poll_requested >>
  BY TopLoop DEF PollStep, Executing
<1>2. /\ p \in OrNull(Proc) /\ state \in [Proc -> States] /\ next \in [Proc -> OrNull(Proc)]
      /\ Top.at \in {"visit", "next"}
  BY <1>1, InvParts DEF PollFrame, KernelOK
<1>3. /\ Below \in Seq(Frame) /\ Of("do_poll", stack) = Of("do_poll", Below) \cup {Top}
      /\ \A fn : fn # "do_poll" => Of(fn, stack) = Of(fn, Below)
  BY <1>1, OfStack
<1>4. UNCHANGED << process_list, next >> /\ Listed' = Listed /\ Linked(Proc, next) /\ Acyclic(Proc, next)
  BY <1>1, ListedStays, InvParts, KernelLinks DEF listVars, Lists
<1>5. ASSUME NEW q \in OrNull(Proc), NEW at \in {"visit", "next"}
      PROVE  /\ Append(Below, Polling(q, at)) \in Seq(Frame)
             /\ Of("do_poll", Append(Below, Polling(q, at))) = Of("do_poll", Below) \cup {Polling(q, at)}
             /\ Of("exit_process", Append(Below, Polling(q, at))) = Of("exit_process", Below)
  <2> DEFINE f == Polling(q, at)
  <2>1. f \in Frame /\ f.fn = "do_poll"
    BY DEF Polling, Frame, PollFrame
  <2> HIDE DEF f
  <2>2. /\ Append(Below, f) \in Seq(Frame)
        /\ Of("do_poll", Append(Below, f)) = Of("do_poll", Below) \cup {f}
        /\ Of("exit_process", Append(Below, f)) = Of("exit_process", Below)
    BY <1>1, <2>1, OfGoto
  <2> QED BY <2>2 DEF f
<1>6. ASSUME needspoll' \subseteq needspoll, Of("do_poll", Below) \subseteq Of("do_poll", stack'),
             \A z \in needspoll' : Comes(Top, z, next) =>
               \E f \in Of("do_poll", stack') : Comes(f, z, next)
      PROVE  PollStepKept
  <2> SUFFICES ASSUME NEW z \in needspoll', z \in needspoll => PollComing(z)
               PROVE  PollComing(z)'
    BY DEF PollStepKept
  <2>1. poll_requested \/ \E f \in Of("do_poll", stack) : Comes(f, z, next)
    BY <1>6, ComingNow
  <2>2. poll_requested' \/ \E f \in Of("do_poll", stack') : Comes(f, z, next')
    BY <1>1, <1>3, <1>4, <1>6, <2>1
  <2> QED BY <2>2, ComingNext
<1>7. ASSUME p # NULL
      PROVE  p \in Proc /\ next[p] \in OrNull(Proc)
             /\ Members(p, next) = {p} \cup Members(next[p], next)
  <2>1. p \in Proc
    BY <1>2, <1>7 DEF OrNull
  <2> HIDE DEF p
  <2> QED BY <1>2, <1>4, <2>1, HeadAndRest
<1>8. CASE p = NULL /\ Return /\ UNCHANGED << state, needspoll >>
  <2>1. stack' = Below
    BY <1>8 DEF Return
  <2>2. \A z : ~Comes(Top, z, next)
    BY <1>4, <1>8, MembersOfNull DEF Comes
  <2>3. PollStepKept
    BY <1>6, <1>8, <2>1, <2>2
  <2> QED BY <1>3, <1>4, <1>8, <2>1, <2>3 DEF ExitsQuiet, StatesKept
<1>9. CASE /\ p # NULL /\ Top.at = "visit" /\ p \in needspoll
           /\ needspoll' = needspoll \ {p}
           /\ call_process([state EXCEPT ![p] = "running"], p, "poll", NULL,
                           Append(Below, Polling(p, "next")))
  <2> DEFINE st == [state EXCEPT ![p] = "running"]  b == Append(Below, Polling(p, "next"))
  <2>1. /\ b \in Seq(Frame) /\ Of("do_poll", b) = Of("do_poll", Below) \cup {Polling(p, "next")}
        /\ Of("exit_process", b) = Of("exit_process", Below)
    BY <1>2, <1>5
  <2>2. /\ st \in [Proc -> States] /\ "poll" \in Ids /\ NULL \in Datum
        /\ \A q \in Proc : st[q] = "none" => state[q] = "none"
    BY <1>2, <1>7, <1>9 DEF States, Ids, Datum
  <2>3. call_process(st, p, "poll", NULL, b)
    BY <1>9
  <2> HIDE DEF st, b
  <2>4. /\ \A fn : fn # "thread" => Of(fn, stack') = Of(fn, b)
        /\ StatesKept /\ Listed \subseteq Listed'
    BY <1>1, <1>7, <1>9, <2>1, <2>2, <2>3, CallQuiet
  <2>5. ASSUME NEW z \in needspoll', Comes(Top, z, next)
        PROVE  Comes(Polling(p, "next"), z, next)
    <3>1. z \in Members(p, next) /\ z # p
      BY <1>9, <2>5 DEF Comes
    <3> QED BY <1>7, <1>9, <3>1 DEF Comes, Polling
  <2>6. PollStepKept
    BY <1>6, <1>9, <2>1, <2>4, <2>5
  <2> QED BY <1>3, <2>1, <2>4, <2>6 DEF ExitsQuiet
<1>10. CASE /\ p # NULL /\ (Top.at = "next" \/ p \notin needspoll)
            /\ Goto(Polling(next[p], "visit")) /\ UNCHANGED << state, needspoll >>
  <2>1. /\ Of("do_poll", stack') = Of("do_poll", Below) \cup {Polling(next[p], "visit")}
        /\ Of("exit_process", stack') = Of("exit_process", Below)
    BY <1>5, <1>7, <1>10 DEF Goto
  <2>2. ASSUME NEW z \in needspoll', Comes(Top, z, next)
        PROVE  Comes(Polling(next[p], "visit"), z, next)
    <3>1. z \in Members(next[p], next)
      <4>1. CASE Top.at = "next"
        BY <1>10, <2>2, <4>1 DEF Comes
      <4>2. CASE Top.at = "visit" /\ p \notin needspoll
        BY <1>7, <1>10, <2>2, <4>2 DEF Comes
      <4> QED BY <1>2, <1>10, <4>1, <4>2
    <3> QED BY <3>1 DEF Comes, Polling
  <2>3. PollStepKept
    BY <1>6, <1>10, <2>1, <2>2
  <2> QED BY <1>3, <1>4, <1>10, <2>1, <2>3 DEF ExitsQuiet, StatesKept
<1> QED BY <1>8, <1>9, <1>10 DEF PollStep

\* All steps.
LEMMA EveryStepKeepsPolls ==
  ASSUME Inv, Lists, ServiceInv, Next
  PROVE  PollStepKept
<1>0. Relinks
  BY EveryStep
<1>1. CASE MainStart \/ MainStarted \/ RunEvent \/ MainLoop \/ MainSleep
  BY <1>0, <1>1, MainQuiet, QuietKeepsPolls
<1>2. CASE RunPolls \/ BroadcastStep
  <2>1. UNCHANGED listVars
    BY <1>2 DEF RunPolls, BroadcastStep
  <2> QED BY <1>0, <1>2, <2>1, RunPollsQuiet, BroadcastQuiet, QuietKeepsPolls, BeginKeepsPolls
<1>3. CASE PollStep
  BY <1>3, PollStepKeepsPolls
<1>4. CASE ExitTells \/ ExitCalls \/ ExitUnlinks \/ ThreadReturns(App) \/ CallExit
  BY <1>0, <1>4, ExitsLeavePolls, QuietKeepsPolls
<1>5. CASE SynchReturns \/ ExitThreadReturns \/ CallPost \/ CallPostSynch \/ CallPoll \/ CallStart
  BY <1>0, <1>5, ThreadsQuiet, QuietKeepsPolls
<1>6. CASE \/ Start \/ DropExited \/ DropHead \/ DropNext \/ OtherEvent \/ Polled \/ ScanTimer
           \/ ScanEnd \/ CallSet \/ CallReset \/ CallAdjust \/ CallStop \/ ClockInterrupt
           \/ PollInterrupt /\ UNCHANGED timerVars
  BY <1>0, <1>6, ServiceQuiet, QuietKeepsPolls
<1> QED BY <1>1, <1>2, <1>3, <1>4, <1>5, <1>6 DEF Next, Processor, Application, KernelStep, ThreadCall

\* No step loses a poll: while a process is flagged and stays on the list,
\* poll_requested is set or a do_poll that is under way has yet to come to it,
\* also when that do_poll's cursor is taken off the list or started again.
THEOREM PollsAreKept == Spec => PollsKept
<1>1. Inv /\ Lists /\ ServiceInv /\ [Next]_vars => [PollStepKept]_vars
  BY EveryStepKeepsPolls
<1> QED BY <1>1, ListsAlways, PTL DEF Spec, PollsKept

-----------------------------------------------------------------------------
(* An exited process leaves no timers.                                     *)

\* The processes that the loop of exit_process has not told yet.
Ahead(f, l) == IF f.at = "unlink" \/ f.q = NULL THEN {}
               ELSE Members(IF f.at = "tell" THEN f.q ELSE l[f.q], l)

NoTimers(p) == \A t \in Pending \ late : owner[t] # p
Told(p) == \/ ServiceCalled("exited") /\ Top.data = p
           \/ Executing("drop") /\ Top.gone = p

Exits == Of("exit_process", stack)
Telling == \A f \in Exits : etimer_process \in Ahead(f, next) \/ NoTimers(f.p) \/ Told(f.p)
NoneExits == \A p \in Listed : state[p] = "none" => \E f \in Exits : f.p = p
Owned == \A t \in Pending \ late :
           owner[t] \in Listed \/ \E f \in Exits : f.p = owner[t] /\ f.at # "unlink"
Living == Owned /\ Telling /\ NoneExits

\* Owned is TimersOfLiving, over the set of the frames.
LEMMA OwnedLiving == Owned => TimersOfLiving
BY DEF Owned, TimersOfLiving, ExitTelling, Exits, Of

\* A process that is not Exited is on the list, and nobody exits it.
LEMMA ExitedNow ==
  ASSUME NEW p, ~Exited(p)
  PROVE  p \in Listed /\ \A f \in Exits : f.p # p
BY DEF Exited, Exits, Of

\* etimer_process has been told nothing while its thread does not execute.
LEMMA NotTold ==
  ASSUME stack = << >> \/ ~OfService(Top)
  PROVE  \A p : ~Told(p)
BY DEF Told, ServiceCalled, Executing, OfService

\* Nobody exits before etimer_process is on the list.
LEMMA ExitFrames ==
  ASSUME Inv, ServiceInv, NEW f \in Exits
  PROVE  f \in ExitFrame /\ stack # << >> /\ etimer_process \in Listed
<1>1. stack \in Seq(Frame)
  BY InvParts DEF Good
<1>2. f \in Frame /\ f.fn = "exit_process" /\ stack # << >>
  BY <1>1 DEF Of, Exits
<1>3. ~Booting
  BY <1>2 DEF ServiceInv, Started
<1> QED BY <1>2, <1>3, FrameKinds DEF ServiceInv, Started

\* etimer_process is still to be told after any change of the list.
LEMMA AheadKept ==
  ASSUME Inv, Lists, Relinks, NEW f \in ExitFrame, etimer_process \in Listed,
         etimer_process \in Ahead(f, next)
  PROVE  etimer_process \in Ahead(f, next')
<1>1. f.q \in OrNull(Proc) /\ ~(f.at = "unlink" \/ f.q = NULL) /\ etimer_process \in Listed'
  BY RelinksKeep DEF ExitFrame, Ahead
<1>2. f.q \in Proc
  BY <1>1 DEF OrNull
<1>3. CASE f.at = "tell"
  BY <1>1, <1>3, ReachKept DEF Ahead
<1>4. CASE f.at # "tell"
  BY <1>1, <1>2, <1>4, ReachKept DEF Ahead
<1> QED BY <1>3, <1>4

\* A process has no timers, and gets none while it is being exited.
LEMMA NoTimersStay ==
  ASSUME TimersFollow, NEW f \in Exits, NoTimers(f.p)
  PROVE  NoTimers(f.p)'
<1> SUFFICES ASSUME NEW t \in Pending' \ late', owner'[t] = f.p PROVE FALSE
  BY DEF NoTimers
<1>1. CASE t \in Pending \ late /\ owner'[t] = owner[t]
  BY <1>1 DEF NoTimers
<1>2. CASE ~Exited(owner'[t])
  BY <1>2, ExitedNow
<1> QED BY <1>1, <1>2 DEF TimersFollow

\* The loops of exit_process that are left as they are.
LEMMA TellingStep ==
  ASSUME Inv, Lists, ServiceInv, Telling, Relinks, TimersFollow,
         \A f \in Exits' : \/ f \in Exits \/ etimer_process \in Ahead(f, next')
                           \/ NoTimers(f.p)' \/ Told(f.p)',
         \A p : Told(p) => Told(p)' \/ NoTimers(p)'
  PROVE  Telling'
<1> SUFFICES ASSUME NEW f \in Exits', f \in Exits
             PROVE  etimer_process \in Ahead(f, next') \/ NoTimers(f.p)' \/ Told(f.p)'
  BY DEF Telling
<1>1. f \in ExitFrame /\ etimer_process \in Listed
  BY ExitFrames
<1>2. CASE etimer_process \in Ahead(f, next)
  BY <1>1, <1>2, AheadKept
<1>3. CASE NoTimers(f.p)
  BY <1>3, NoTimersStay
<1> QED BY <1>2, <1>3 DEF Telling

\* The owners, when no process is taken off the list.
LEMMA OwnedStep ==
  ASSUME Owned, TimersFollow, Listed \subseteq Listed',
         \A f \in Exits : f.at # "unlink" => \E g \in Exits' : g.p = f.p /\ g.at # "unlink"
  PROVE  Owned'
<1> SUFFICES ASSUME NEW t \in Pending' \ late'
             PROVE  owner'[t] \in Listed' \/ \E f \in Exits' : f.p = owner'[t] /\ f.at # "unlink"
  BY DEF Owned
<1>1. CASE t \in Pending \ late /\ owner'[t] = owner[t]
  <2>1. owner[t] \in Listed \/ \E f \in Exits : f.p = owner[t] /\ f.at # "unlink"
    BY <1>1 DEF Owned
  <2> QED BY <1>1, <2>1
<1>2. CASE ~Exited(owner'[t])
  BY <1>2, ExitedNow
<1> QED BY <1>1, <1>2 DEF TimersFollow

\* Steps that exit nobody.
LEMMA QuietLiving ==
  ASSUME Inv, Lists, ServiceInv, Living, Relinks, TimersFollow, ExitsQuiet,
         \A p : Told(p) => Told(p)' \/ NoTimers(p)'
  PROVE  Living'
<1>1. Exits' = Exits /\ StatesKept /\ Listed \subseteq Listed'
  BY DEF ExitsQuiet, Exits
<1>2. Telling'
  BY <1>1, TellingStep DEF Living
<1>3. Owned'
  BY <1>1, OwnedStep DEF Living
<1>4. NoneExits'
  BY <1>1 DEF NoneExits, StatesKept, Living
<1> QED BY <1>2, <1>3, <1>4 DEF Living

\* A step of the kernel leaves the timers.
LEMMA KernelFollows ==
  ASSUME UNCHANGED timerVars
  PROVE  TimersFollow /\ Pending' = Pending /\ owner' = owner /\ late' = late
         /\ \A p : NoTimers(p)' <=> NoTimers(p)
<1>1. UNCHANGED << timerlist, tnext, owner, late >>
  BY DEF timerVars, tlistVars
<1>2. Pending' = Pending
  BY <1>1 DEF Pending
<1> QED BY <1>1, <1>2 DEF TimersFollow, NoTimers

\* exit_process of p is called by a thread; b is the stack without frames of threads.
LEMMA ExitLiving ==
  ASSUME Inv, Lists, ServiceInv, Living, Relinks, UNCHANGED timerVars,
         NEW p \in App, NEW from \in OrNull(Proc), NEW b \in Seq(Frame), exit_process(p, from, b),
         Of("exit_process", b) = Exits, stack # << >>, ~OfService(Top)
  PROVE  Living'
<1> DEFINE f == Exiting(p, from, process_list, process_current, "tell")
<1>0. \A x : ~Told(x)
  BY NotTold
<1>1. TimersFollow /\ Pending' = Pending /\ owner' = owner /\ late' = late
  BY KernelFollows
<1>2. etimer_process \in Listed /\ state \in [Proc -> States] /\ process_list \in OrNull(Proc)
  BY KernelTop
<1>3. KernelOK /\ Acyclic(Proc, next) /\ Linked(Proc, next) /\ p \in Proc /\ Listed \subseteq Proc
  BY InvParts, KernelLinks, AppIsProc, ListedProc DEF Lists
<1>4. f.p = p /\ f.at = "tell" /\ f.q = process_list
  BY DEF Exiting
<1>5. \/ /\ Exits' = Exits \cup {f}
         /\ state' = [state EXCEPT ![p] = "none"] /\ UNCHANGED listVars
      \/ Exits' = Exits /\ UNCHANGED << state, listVars >>
      \/ Exits' = Exits /\ p \in Listed /\ state[p] = "none" /\ unlink(p) /\ UNCHANGED state
  BY ExitMoves DEF Exits
<1> HIDE DEF f
<1>6. CASE /\ Exits' = Exits \cup {f}
           /\ state' = [state EXCEPT ![p] = "none"] /\ UNCHANGED listVars
  <2>1. process_list' = process_list /\ next' = next /\ Listed' = Listed
    BY <1>6, ListedStays DEF listVars
  <2>2. etimer_process \in Ahead(f, next')
    <3>1. process_list # NULL
      BY <1>2, <1>3, MembersOfNull DEF Listed
    <3> QED BY <1>2, <1>4, <2>1, <3>1 DEF Ahead, Listed
  <2>3. Telling'
    <3>1. \A g \in Exits' : g \in Exits \/ etimer_process \in Ahead(g, next')
      BY <1>6, <2>2
    <3> QED BY <1>0, <1>1, <3>1, TellingStep DEF Living
  <2>4. Owned'
    <3>1. \A g \in Exits : g.at # "unlink" => \E h \in Exits' : h.p = g.p /\ h.at # "unlink"
      BY <1>6
    <3> QED BY <1>1, <2>1, <3>1, OwnedStep DEF Living
  <2>5. NoneExits'
    <3> SUFFICES ASSUME NEW q \in Listed, state'[q] = "none" PROVE \E g \in Exits' : g.p = q
      BY <2>1 DEF NoneExits
    <3>1. CASE q = p
      BY <1>4, <1>6, <3>1
    <3>2. CASE q # p
      <4>1. state[q] = "none"
        BY <1>2, <1>3, <1>6, <3>2
      <4> QED BY <1>6, <4>1 DEF Living, NoneExits
    <3> QED BY <3>1, <3>2
  <2> QED BY <2>3, <2>4, <2>5 DEF Living
<1>7. CASE Exits' = Exits /\ UNCHANGED << state, listVars >>
  <2>1. ExitsQuiet
    BY <1>7, ListedStays DEF ExitsQuiet, StatesKept, Exits
  <2> QED BY <1>0, <1>1, <2>1, QuietLiving
<1>8. CASE Exits' = Exits /\ p \in Listed /\ state[p] = "none" /\ unlink(p) /\ UNCHANGED state
  <2>1. Listed' = Listed \ {p}
    BY <1>3, <1>8, UnlinkList DEF Listed
  <2>2. Telling'
    <3>1. \A g \in Exits' : g \in Exits
      BY <1>8
    <3> QED BY <1>0, <1>1, <3>1, TellingStep DEF Living
  <2>3. NoneExits'
    BY <1>8, <2>1 DEF Living, NoneExits
  <2>4. Owned'
    <3> SUFFICES ASSUME NEW t \in Pending \ late
                 PROVE  owner[t] \in Listed' \/ \E g \in Exits' : g.p = owner[t] /\ g.at # "unlink"
      BY <1>1 DEF Owned
    <3>1. owner[t] \in Listed \/ \E g \in Exits : g.p = owner[t] /\ g.at # "unlink"
      BY DEF Living, Owned
    <3>2. CASE owner[t] = p
      <4>1. PICK g \in Exits : g.p = p
        BY <1>8 DEF Living, NoneExits
      <4>2. CASE g.at # "unlink"
        BY <1>8, <3>2, <4>1, <4>2
      <4>3. CASE g.at = "unlink"
        <5>1. NoTimers(p)
          BY <1>0, <4>1, <4>3 DEF Living, Telling, Ahead
        <5> QED BY <3>2, <5>1 DEF NoTimers
      <4> QED BY <4>2, <4>3
    <3> QED BY <1>8, <2>1, <3>1, <3>2
  <2> QED BY <2>2, <2>3, <2>4 DEF Living
<1> QED BY <1>5, <1>6, <1>7, <1>8

\* A thread ends, or calls process_exit.
LEMMA ThreadReturnsLiving ==
  ASSUME Inv, Lists, ServiceInv, Living, Relinks, UNCHANGED timerVars, ThreadReturns(App) \/ CallExit
  PROVE  Living'
<1>1. CASE ThreadReturns(App)
  <2>1. stack # << >> /\ Top.fn = "thread" /\ Top.p \in App /\ ~OfService(Top)
    BY <1>1, EtimerIsProc DEF ThreadReturns, Executing, OfService
  <2>2. Below \in Seq(Frame) /\ Of("exit_process", Below) = Exits
    BY <2>1, OfStack DEF Exits
  <2>3. Top.p \in OrNull(Proc) /\ Top.p \in Proc
    BY <2>1, AppIsProc DEF OrNull
  <2>4. CASE exit_process(Top.p, Top.p, Below)
    BY <2>1, <2>2, <2>3, <2>4, ExitLiving
  <2>5. CASE state' = [state EXCEPT ![Top.p] = "running"] /\ Return /\ UNCHANGED listVars
    <3>1. ExitsQuiet
      <4>1. Of("exit_process", stack') = Of("exit_process", stack)
        BY <2>2, <2>5 DEF Return, Exits
      <4>2. Listed' = Listed /\ Listed \subseteq Proc /\ state \in [Proc -> States]
        BY <2>5, ListedStays, ListedProc, InvParts DEF KernelOK
      <4> QED BY <2>5, <4>1, <4>2 DEF ExitsQuiet, StatesKept
    <3>2. \A p : ~Told(p)
      BY <2>1, NotTold
    <3> QED BY <3>1, <3>2, KernelFollows, QuietLiving
  <2> QED BY <1>1, <2>4, <2>5 DEF ThreadReturns
<1>2. CASE CallExit
  <2>1. PICK p \in App : exit_process(p, process_current, stack)
    BY <1>2 DEF CallExit
  <2>2. stack \in Seq(Frame) /\ process_current \in OrNull(Proc)
    BY InvParts DEF Good, KernelOK
  <2>3. stack # << >> /\ ~OfService(Top)
    BY <1>2, EtimerIsProc DEF CallExit, Calling, Executing, OfService
  <2> QED BY <2>1, <2>2, <2>3, ExitLiving DEF Exits
<1> QED BY <1>1, <1>2

\* exit_process executes.
LEMMA TopExits ==
  ASSUME Inv, ServiceInv, Living, Executing("exit_process")
  PROVE  /\ \A p : ~Told(p)
         /\ Exits = Of("exit_process", Below) \cup {Top} /\ Top \in ExitFrame /\ Top.p \in App
         /\ etimer_process \in Ahead(Top, next) \/ NoTimers(Top.p)
<1>1. ~OfService(Top)
  BY DEF Executing, OfService
<1>2. /\ Exits = Of("exit_process", Below) \cup {Top} /\ Top \in ExitFrame /\ Top.p \in App
  BY TellingFrame DEF Exits
<1>3. \A p : ~Told(p)
  BY <1>1, NotTold
<1> QED BY <1>2, <1>3 DEF Living, Telling

\* The process is taken off the list: its timers are gone by now.
LEMMA ExitUnlinksLiving ==
  ASSUME Inv, Lists, ServiceInv, Living, Relinks, UNCHANGED timerVars, ExitUnlinks
  PROVE  Living'
<1>1. Executing("exit_process") /\ Top.at = "unlink"
  BY DEF ExitUnlinks
<1>2. /\ \A p : ~Told(p)
      /\ Exits = Of("exit_process", Below) \cup {Top} /\ Top.p \in App /\ NoTimers(Top.p)
  BY <1>1, TopExits DEF Ahead
<1>3. Exits' = Of("exit_process", Below) /\ unlink(Top.p) /\ UNCHANGED state
  BY ExitUnlinksMoves DEF Exits
<1>4. Listed' = Listed \ {Top.p}
  <2>1. KernelOK /\ Acyclic(Proc, next) /\ Top.p \in Proc
    BY <1>2, InvParts, AppIsProc DEF Lists
  <2> QED BY <1>3, <2>1, UnlinkList DEF Listed
<1>5. TimersFollow /\ Pending' = Pending /\ owner' = owner /\ late' = late
  BY KernelFollows
<1>6. Telling'
  <2>1. \A g \in Exits' : g \in Exits
    BY <1>2, <1>3
  <2> QED BY <1>2, <1>5, <2>1, TellingStep DEF Living
<1>7. NoneExits'
  BY <1>2, <1>3, <1>4 DEF Living, NoneExits
<1>8. Owned'
  <2> SUFFICES ASSUME NEW t \in Pending \ late
               PROVE  owner[t] \in Listed' \/ \E g \in Exits' : g.p = owner[t] /\ g.at # "unlink"
    BY <1>5 DEF Owned
  <2>1. owner[t] # Top.p
    BY <1>2 DEF NoTimers
  <2>2. owner[t] \in Listed \/ \E g \in Exits : g.p = owner[t] /\ g.at # "unlink"
    BY DEF Living, Owned
  <2> QED BY <1>1, <1>2, <1>3, <1>4, <2>1, <2>2
<1> QED BY <1>6, <1>7, <1>8 DEF Living

\* All processes have been told, etimer_process too.
LEMMA ExitCallsLiving ==
  ASSUME Inv, Lists, ServiceInv, Living, Relinks, UNCHANGED timerVars, ExitCalls
  PROVE  Living'
<1> DEFINE g == Exiting(Top.p, Top.from, NULL, Top.old, "unlink")
<1>1. Executing("exit_process") /\ Top.at = "tell" /\ Top.q = NULL
  BY DEF ExitCalls
<1>2. /\ \A p : ~Told(p)
      /\ Exits = Of("exit_process", Below) \cup {Top} /\ Top.p \in App /\ NoTimers(Top.p)
  BY <1>1, TopExits DEF Ahead
<1>3. Exits' = Of("exit_process", Below) \cup {g} /\ UNCHANGED << state, listVars >>
  BY ExitCallsMoves DEF Exits
<1>4. g.p = Top.p
  BY DEF Exiting
<1> HIDE DEF g
<1>5. /\ TimersFollow /\ Pending' = Pending /\ owner' = owner /\ late' = late /\ Listed' = Listed
      /\ \A p : NoTimers(p)' <=> NoTimers(p)
  BY <1>3, KernelFollows, ListedStays
<1>6. Telling'
  <2>1. \A h \in Exits' : h \in Exits \/ NoTimers(h.p)'
    BY <1>2, <1>3, <1>4, <1>5
  <2> QED BY <1>2, <1>5, <2>1, TellingStep DEF Living
<1>7. NoneExits'
  BY <1>2, <1>3, <1>4, <1>5 DEF Living, NoneExits
<1>8. Owned'
  <2> SUFFICES ASSUME NEW t \in Pending \ late
               PROVE  owner[t] \in Listed \/ \E h \in Exits' : h.p = owner[t] /\ h.at # "unlink"
    BY <1>5 DEF Owned
  <2>1. owner[t] # Top.p
    BY <1>2 DEF NoTimers
  <2>2. owner[t] \in Listed \/ \E h \in Exits : h.p = owner[t] /\ h.at # "unlink"
    BY DEF Living, Owned
  <2> QED BY <1>2, <1>3, <2>1, <2>2
<1> QED BY <1>6, <1>7, <1>8 DEF Living

\* A process is told: etimer_process drops the timers at once.
LEMMA ExitTellsLiving ==
  ASSUME Inv, Lists, ServiceInv, Living, Relinks, UNCHANGED timerVars, ExitTells
  PROVE  Living'
<1>1. Executing("exit_process") /\ Top.at \in {"tell", "told"} /\ Top.q # NULL
  BY DEF ExitTells
<1>2. /\ \A p : ~Told(p)
      /\ Exits = Of("exit_process", Below) \cup {Top} /\ Top \in ExitFrame /\ Top.p \in App
      /\ etimer_process \in Ahead(Top, next) \/ NoTimers(Top.p)
  BY <1>1, TopExits
<1>3. UNCHANGED listVars /\ StatesKept
  BY ExitTellsMoves
<1>4. /\ TimersFollow /\ Pending' = Pending /\ owner' = owner /\ late' = late /\ Listed' = Listed
      /\ (\A p : NoTimers(p)' <=> NoTimers(p)) /\ next' = next
  BY <1>3, KernelFollows, ListedStays DEF listVars
<1>5. /\ Top.q \in Proc /\ Linked(Proc, next) /\ Acyclic(Proc, next)
      /\ next[Top.q] \in OrNull(Proc)
  BY <1>1, <1>2, InvParts, KernelLinks DEF ExitFrame, KernelOK, OrNull, Lists
<1>6. Members(Top.q, next) = {Top.q} \cup Members(next[Top.q], next)
  <2> DEFINE q == Top.q
  <2>1. q \in Proc
    BY <1>5
  <2> HIDE DEF q
  <2>2. Members(q, next) = {q} \cup Members(next[q], next)
    BY <1>5, <2>1, HeadAndRest
  <2> QED BY <2>2 DEF q
<1>7. ASSUME NEW g, g.p = Top.p, g.at # "unlink",
             Exits' = Of("exit_process", Below) \cup {g},
             etimer_process \in Ahead(Top, next) => etimer_process \in Ahead(g, next) \/ Told(g.p)'
      PROVE  Living'
  <2>1. Telling'
    <3>1. \A h \in Exits' : \/ h \in Exits \/ etimer_process \in Ahead(h, next')
                            \/ NoTimers(h.p)' \/ Told(h.p)'
      BY <1>2, <1>4, <1>7
    <3> QED BY <1>2, <1>4, <3>1, TellingStep DEF Living
  <2>2. NoneExits'
    BY <1>2, <1>3, <1>4, <1>7 DEF Living, NoneExits, StatesKept
  <2>3. Owned'
    <3>1. \A h \in Exits : h.at # "unlink" => \E k \in Exits' : k.p = h.p /\ k.at # "unlink"
      BY <1>2, <1>7
    <3> QED BY <1>4, <3>1, OwnedStep DEF Living
  <2> QED BY <2>1, <2>2, <2>3 DEF Living
<1>8. CASE /\ Top.at = "tell" /\ Top.q # Top.p
           /\ Of("exit_process", stack') = Of("exit_process", Below)
                 \cup {Exiting(Top.p, Top.from, Top.q, Top.old, "told")}
           /\ Top.q = etimer_process => ServiceCalled("exited")' /\ Top'.data = Top.p
  <2>0. PICK g : g = Exiting(Top.p, Top.from, Top.q, Top.old, "told")
    OBVIOUS
  <2>1. g.p = Top.p /\ g.at = "told" /\ g.q = Top.q
    BY <2>0 DEF Exiting
  <2>2. Exits' = Of("exit_process", Below) \cup {g}
    BY <1>8, <2>0 DEF Exits
  <2>3. ASSUME etimer_process \in Ahead(Top, next)
        PROVE  etimer_process \in Ahead(g, next) \/ Told(g.p)'
    <3>1. etimer_process \in Members(Top.q, next)
      BY <1>8, <2>3 DEF Ahead
    <3>2. CASE Top.q = etimer_process
      BY <1>8, <2>1, <3>2 DEF Told
    <3>3. CASE Top.q # etimer_process
      BY <1>1, <1>6, <2>1, <3>1, <3>3 DEF Ahead
    <3> QED BY <3>2, <3>3
  <2> QED BY <1>7, <2>1, <2>2, <2>3
<1>9. CASE /\ Top.at = "told" \/ Top.q = Top.p
           /\ Of("exit_process", stack') = Of("exit_process", Below)
                 \cup {Exiting(Top.p, Top.from, next[Top.q], Top.old, "tell")}
  <2>0. PICK g : g = Exiting(Top.p, Top.from, next[Top.q], Top.old, "tell")
    OBVIOUS
  <2>1. g.p = Top.p /\ g.at = "tell" /\ g.q = next[Top.q]
    BY <2>0 DEF Exiting
  <2>2. Exits' = Of("exit_process", Below) \cup {g}
    BY <1>9, <2>0 DEF Exits
  <2>3. ASSUME etimer_process \in Ahead(Top, next)
        PROVE  etimer_process \in Ahead(g, next)
    <3>1. etimer_process \in Members(next[Top.q], next)
      <4>1. CASE Top.at = "told"
        BY <1>1, <2>3, <4>1 DEF Ahead
      <4>2. CASE Top.at = "tell" /\ Top.q = Top.p
        BY <1>1, <1>2, <1>6, <2>3, <4>2, EtimerIsProc DEF Ahead
      <4> QED BY <1>1, <1>9, <4>1, <4>2
    <3>2. next[Top.q] # NULL
      BY <1>5, <3>1, MembersOfNull
    <3> QED BY <2>1, <3>1, <3>2 DEF Ahead
  <2> QED BY <1>7, <2>1, <2>2, <2>3
<1> QED BY <1>8, <1>9, ExitTellsMoves

\* What etimer_process has been told it does: when it returns, the timers of
\* the process are gone.
LEMMA ToldDrops ==
  ASSUME Inv, Lists, ServiceInv,
         \/ Start \/ DropExited \/ DropHead \/ DropNext \/ OtherEvent \/ Polled \/ ScanTimer \/ ScanEnd,
         NEW p, Told(p)
  PROVE  Told(p)' \/ NoTimers(p)'
<1>1. stack # << >>
  BY DEF Told, ServiceCalled, Executing
<1>2. DropExited \/ DropHead \/ DropNext
  BY DEF Told, Start, OtherEvent, Polled, ScanTimer, ScanEnd, ServiceCalled, Executing
<1>3. ASSUME NEW t, Goto(Dropping(p, t))
      PROVE  Told(p)'
  <2> DEFINE f == Dropping(p, t)
  <2>1. f.fn = "drop" /\ f.gone = p /\ Goto(f)
    BY <1>3 DEF Dropping
  <2> HIDE DEF f
  <2>2. stack' # << >> /\ stack'[Len(stack')] = f
    BY <1>1, <2>1, GotoFacts
  <2> QED BY <2>1, <2>2 DEF Told, Executing, Top
<1>4. CASE DropExited
  BY <1>3, <1>4 DEF DropExited, Told, ServiceCalled, Executing
<1>5. ASSUME UNCHANGED stack
      PROVE  Told(p)'
  BY <1>5 DEF Told, ServiceCalled, Executing, Top
<1>6. CASE DropHead
  <2>1. Executing("drop") /\ Top.gone = p /\ UNCHANGED << tnext, owner, late >>
    BY <1>6 DEF DropHead, Told, ServiceCalled, Executing
  <2>2. CASE timerlist = NULL /\ UNCHANGED timerlist
    <3>1. Linked(Timer, tnext)
      BY InvParts, TimerLinks
    <3>2. Pending' = {}
      BY <2>1, <2>2, <3>1, MembersOfNull DEF Pending
    <3> QED BY <3>2 DEF NoTimers
  <2> QED BY <1>3, <1>5, <1>6, <2>1, <2>2 DEF DropHead
<1>7. CASE DropNext
  <2>1. Executing("drop") /\ Top.gone = p /\ Top.t # NULL /\ UNCHANGED << timerlist, owner, late >>
    BY <1>7 DEF DropNext, Told, ServiceCalled, Executing
  <2>2. CASE tnext[Top.t] = NULL /\ UNCHANGED tnext
    <3>1. Linked(Timer, tnext)
      BY InvParts, TimerLinks
    <3>2. \A x \in Pending : owner[x] # p
      BY <2>1, <2>2, <3>1, MembersOfNull DEF ServiceInv, DropAt
    <3>3. Pending' = Pending
      BY <2>1, <2>2 DEF Pending
    <3> QED BY <2>1, <3>2, <3>3 DEF NoTimers
  <2> QED BY <1>3, <1>5, <1>7, <2>1, <2>2 DEF DropNext
<1> QED BY <1>2, <1>4, <1>6, <1>7

\* The invariant is inductive.
LEMMA EveryStepLiving ==
  ASSUME Inv, Lists, ServiceInv, Living, Next
  PROVE  Living'
<1>0. Relinks /\ TimersFollow
  BY EveryStep DEF TimerStep
<1>1. ASSUME ExitsQuiet, stack = << >> \/ ~OfService(Top)
      PROVE  Living'
  BY <1>0, <1>1, NotTold, QuietLiving
<1>2. CASE MainStart \/ MainStarted \/ RunEvent \/ MainLoop \/ MainSleep \/ RunPolls
  <2>1. stack = << >>
    BY <1>2 DEF MainStart, MainStarted, RunEvent, MainLoop, MainSleep, RunPolls, MainAt
  <2> QED BY <1>1, <1>2, <2>1, MainQuiet, RunPollsQuiet
<1>3. CASE BroadcastStep \/ PollStep
  <2>1. ~OfService(Top)
    BY <1>3 DEF BroadcastStep, PollStep, Executing, OfService
  <2> QED BY <1>1, <1>3, <2>1, BroadcastQuiet, PollStepKeepsPolls
<1>4. CASE /\ ExitTells \/ ExitCalls \/ ExitUnlinks \/ ThreadReturns(App) \/ CallExit
           /\ UNCHANGED timerVars
  BY <1>0, <1>4, ExitTellsLiving, ExitCallsLiving, ExitUnlinksLiving, ThreadReturnsLiving
<1>5. CASE SynchReturns \/ ExitThreadReturns \/ CallPost \/ CallPostSynch \/ CallPoll \/ CallStart
  <2>1. ~OfService(Top)
    BY <1>5, EtimerIsProc DEF SynchReturns, ExitThreadReturns, CallPost, CallPostSynch, CallPoll,
       CallStart, Calling, Executing, OfService
  <2> QED BY <1>1, <1>5, <2>1, ThreadsQuiet
<1>6. CASE CallSet \/ CallReset \/ CallAdjust \/ CallStop
  <2>1. ~OfService(Top)
    BY <1>6, EtimerIsProc DEF CallSet, CallReset, CallAdjust, CallStop, Calling, Executing, OfService
  <2> QED BY <1>1, <1>6, <2>1, ServiceQuiet
<1>7. CASE ClockInterrupt \/ (PollInterrupt /\ UNCHANGED timerVars)
  <2>1. UNCHANGED stack
    BY <1>7 DEF ClockInterrupt, PollInterrupt
  <2>2. \A p : Told(p) => Told(p)'
    BY <2>1 DEF Told, ServiceCalled, Executing, Top
  <2> QED BY <1>0, <1>7, <2>2, ServiceQuiet, QuietLiving
<1>8. CASE \/ Start \/ DropExited \/ DropHead \/ DropNext \/ OtherEvent \/ Polled \/ ScanTimer
           \/ ScanEnd
  <2>1. \A p : Told(p) => Told(p)' \/ NoTimers(p)'
    BY <1>8, ToldDrops
  <2> QED BY <1>0, <1>8, <2>1, ServiceQuiet, QuietLiving
<1>9. CASE KernelStep /\ UNCHANGED timerVars
  BY <1>2, <1>3, <1>4, <1>5, <1>9 DEF KernelStep
<1>10. CASE ThreadCall /\ UNCHANGED timerVars
  BY <1>4, <1>5, <1>10 DEF ThreadCall
<1> QED BY <1>6, <1>7, <1>8, <1>9, <1>10 DEF Next, Processor, Application

\* It holds initially.
LEMMA InitLiving == Init => Living
<1> SUFFICES ASSUME Init PROVE Living
  OBVIOUS
<1>1. /\ process_list = NULL /\ next = [p \in Proc |-> NULL] /\ stack = << >>
      /\ timerlist = NULL /\ tnext = [t \in Timer |-> NULL]
  BY DEF Init, ProcessInit
<1>2. Listed = {} /\ Pending = {}
  BY <1>1, EmptyList, ProcessAssumption, ETimerAssumption DEF Pending, Listed
<1>3. Exits = {}
  BY <1>1, OfEmpty DEF Exits
<1> QED BY <1>2, <1>3 DEF Living, Owned, Telling, NoneExits

\* It holds when nothing changes.
LEMMA StutterLiving ==
  ASSUME Living, UNCHANGED vars
  PROVE  Living'
<1>1. UNCHANGED << process_list, next, state, stack, timerlist, tnext, owner, late >>
  BY DEF vars, procVars, timerVars, listVars, tlistVars
<1>2. Listed' = Listed /\ Pending' = Pending /\ Exits' = Exits
  BY <1>1 DEF Listed, Pending, Exits
<1>3. \A p : (Told(p)' <=> Told(p)) /\ (NoTimers(p)' <=> NoTimers(p))
  BY <1>1, <1>2 DEF Told, NoTimers, ServiceCalled, Executing, Top
<1>4. Telling'
  BY <1>1, <1>2, <1>3 DEF Living, Telling
<1> QED BY <1>1, <1>2, <1>4 DEF Living, Owned, NoneExits

\* A timer that is pending belongs to a process on the list, or to one that
\* exit_process is just telling the others about, unless it was set by a process
\* that had been exited: etimer_process is told before exit_process ends, and the
\* loops of etimer_process leave none of the timers it was told to drop.
THEOREM TimersBelongToLiving == Spec => []TimersOfLiving
<1>1. Inv /\ Lists /\ ServiceInv /\ Living /\ [Next]_vars => Living'
  BY EveryStepLiving, StutterLiving
<1>2. Living => TimersOfLiving
  BY OwnedLiving DEF Living
<1> QED BY <1>1, <1>2, InitLiving, ListsAlways, PTL DEF Spec

=============================================================================
