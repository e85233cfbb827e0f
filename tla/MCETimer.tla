------------------------------ MODULE MCETimer ------------------------------
(* An instance of ETimer for TLC: two applications, the second one started *)
(* by the first, and two timers.                                           *)
EXTENDS ETimer
CONSTANTS etimer, a, b, t1, t2
MCAutoStart == << etimer, a >>

\* What the threads and a driver's interrupt may call, and how often.
Of(n, kinds) == [calls |-> n, kinds |-> kinds]
MCProfiles == {
    Of(4, {"start", "poll", "process_exit"}),
    Of(4, {"start", "synch", "process_exit"}),
    Of(3, {"start", "post", "poll"}),
    Of(3, {"set", "post"}),
    Of(3, {"set", "start", "process_exit"}),
    Of(3, {"set", "reset"}) }
=============================================================================
