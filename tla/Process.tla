------------------------------- MODULE Process -------------------------------
(***************************************************************************)
(* os/sys/process.c: the process kernel of Contiki-NG, with the main loop  *)
(* of contiki-main.c that drives it.                                       *)
(*                                                                         *)
(* Processes are threads that run until they return.  A C call stack is a  *)
(* sequence of frames above main, the executing one last; an interrupt can *)
(* come between any two steps.  The threads of the applications are not    *)
(* known: they may make any of the calls of process.h, a bounded number of *)
(* them in a behaviour, and return at any time.                            *)
(***************************************************************************)
EXTENDS Integers, Sequences, FiniteSets

CONSTANTS
    App,            \* processes of the application and of drivers
    Service,        \* processes whose threads another module defines
    NULL,           \* the null pointer, PROCESS_NONE, PROCESS_BROADCAST
    NUMEVENTS,      \* PROCESS_CONF_NUMEVENTS, the size of the event queue
    AutoStart,      \* what main starts, in this order
    Profiles        \* what threads and interrupts call: [kinds, calls], the
                    \* kinds of the calls and a bound on their number

Proc == App \cup Service

ASSUME ProcessAssumption ==
    /\ NULL \notin Proc /\ App \cap Service = {} /\ IsFiniteSet(Proc)
    /\ NUMEVENTS \in Nat \ {0} /\ \A f \in Profiles : f.calls \in Nat
    /\ AutoStart \in Seq(Proc)

VARIABLES
    process_list, next,         \* the list of processes: its head, its links
    state,                      \* "none", "running" or "called"
    needspoll, poll_requested,
    events, fevent, nevents,    \* the ring of events
    process_current,
    main,                       \* where the main loop stands
    stack,                      \* the calls above main, the innermost last
    calls, profile              \* the calls still to be made, and their kind

queueVars == << events, fevent, nevents >>
listVars == << process_list, next >>
pollVars == << needspoll, poll_requested >>
procVars == << listVars, state, pollVars, queueVars, process_current, main,
               stack, calls, profile >>

\* Event identifiers of process.h, and one of the application.
Ids == {"init", "poll", "exit", "exited", "timer", "msg"}

-----------------------------------------------------------------------------
(* Linked lists.                                                           *)

\* What the links lead to from head in k steps, and all of it.
Walk(head, link, n) ==
    LET w[k \in 0..n] == IF k = 0 THEN head
                         ELSE IF w[k - 1] = NULL THEN NULL ELSE link[w[k - 1]]
    IN  w
Members(head, link) ==
    LET n == Cardinality(DOMAIN link)
        w == Walk(head, link, n)
    IN  DOMAIN link \cap { w[k] : k \in 0..n }
Ends(head, link) ==
    LET n == Cardinality(DOMAIN link) IN Walk(head, link, n)[n] = NULL

Listed == Members(process_list, next)

-----------------------------------------------------------------------------
(* Frames.                                                                 *)

Thread(p, ev, data) == [fn |-> "thread", p |-> p, ev |-> ev, data |-> data]

\* The call of the thread that is exited, which exit_process makes itself.
ExitThread(p) == [fn |-> "exit thread", p |-> p, ev |-> "exit", data |-> NULL]

\* Loops over the process list, at the process p.
Polling(p, at) == [fn |-> "do_poll", p |-> p, at |-> at]
Broadcast(p, ev, data, at) == [fn |-> "do_event", p |-> p, ev |-> ev, data |-> data, at |-> at]
Exiting(p, from, q, old, at) ==
    [fn |-> "exit_process", p |-> p, from |-> from, q |-> q, old |-> old, at |-> at]

\* process_post_synch, to restore process_current.
Synch(caller) == [fn |-> "process_post_synch", caller |-> caller]

Top == stack[Len(stack)]
Below == SubSeq(stack, 1, Len(stack) - 1)
Executing(fn) == stack # << >> /\ Top.fn = fn
Return == stack' = Below
Goto(frame) == stack' = Append(Below, frame)

-----------------------------------------------------------------------------
(* The functions of process.c.  The last parameter is the stack on return. *)

\* call_process, with the states st of the processes.
call_process(st, p, ev, data, frames) ==
    IF st[p] = "running"
    THEN /\ process_current' = p
         /\ state' = [st EXCEPT ![p] = "called"]
         /\ stack' = Append(frames, Thread(p, ev, data))
    ELSE /\ state' = st
         /\ stack' = frames
         /\ UNCHANGED process_current

\* Taking p off the process list, by the link that leads to it.
unlink(p) ==
    IF p = process_list
    THEN process_list' = next[p] /\ UNCHANGED next
    ELSE /\ next' = [q \in Proc |-> IF next[q] = p /\ q \in Listed THEN next[p] ELSE next[q]]
         /\ UNCHANGED process_list

\* exit_process up to its first call.
exit_process(p, from, frames) ==
    \/ /\ p \notin Listed
       /\ stack' = frames /\ UNCHANGED << state, listVars, process_current >>
    \/ /\ p \in Listed /\ state[p] # "none"
       /\ state' = [state EXCEPT ![p] = "none"]
       /\ stack' = Append(frames, Exiting(p, from, process_list, process_current, "tell"))
       /\ UNCHANGED << listVars, process_current >>
    \/ /\ p \in Listed /\ state[p] = "none"
       /\ unlink(p)
       /\ stack' = frames /\ UNCHANGED << state, process_current >>

\* process_start.
process_start(p, frames) ==
    IF p \in Listed
    THEN stack' = frames /\ UNCHANGED << listVars, state, process_current >>
    ELSE /\ next' = [next EXCEPT ![p] = process_list]
         /\ process_list' = p
         /\ call_process([state EXCEPT ![p] = "running"], p, "init", NULL,
                         Append(frames, Synch(process_current)))

Full == nevents = NUMEVENTS

\* Mutant: a full queue is not noticed, and its first event overwritten.
process_post_full(p, ev, data) ==
    /\ events' = [events EXCEPT ![(fevent + nevents) % NUMEVENTS] =
                                  [ev |-> ev, data |-> data, p |-> p]]
    /\ nevents' = IF Full THEN nevents ELSE nevents + 1
    /\ UNCHANGED fevent

\* process_post: the event is put behind the others, or refused.
process_post(p, ev, data) ==
    IF Full
    THEN UNCHANGED queueVars
    ELSE /\ events' = [events EXCEPT ![(fevent + nevents) % NUMEVENTS] =
                                       [ev |-> ev, data |-> data, p |-> p]]
         /\ nevents' = nevents + 1
         /\ UNCHANGED fevent

process_poll(p) ==
    IF state[p] \in {"running", "called"}
    THEN needspoll' = needspoll \cup {p} /\ poll_requested' = TRUE
    ELSE UNCHANGED pollVars

-----------------------------------------------------------------------------
(* The main loop.                                                          *)

Boot(i) == [at |-> "boot", i |-> i]
At(place) == [at |-> place, i |-> 0]
MainAt(place) == stack = << >> /\ main.at = place

\* process_start of what main starts itself and of the autostart processes.
MainStart ==
    /\ MainAt("boot") /\ main.i <= Len(AutoStart)
    /\ process_start(AutoStart[main.i], << >>)
    /\ main' = Boot(main.i + 1)
    /\ UNCHANGED << pollVars, queueVars, calls, profile >>

MainStarted ==
    /\ MainAt("boot") /\ main.i > Len(AutoStart)
    /\ main' = At("run")
    /\ UNCHANGED << listVars, state, pollVars, queueVars, process_current, stack, calls, profile >>

\* process_run: polls first, then one event, then what is left to do.
StartPolling(frames) ==
    poll_requested' = FALSE /\ stack' = Append(frames, Polling(process_list, "visit"))

RunPolls ==
    /\ MainAt("run")
    /\ main' = At("event")
    /\ IF poll_requested THEN StartPolling(<< >>) ELSE UNCHANGED << poll_requested, stack >>
    /\ UNCHANGED << listVars, state, needspoll, queueVars, process_current, calls, profile >>

\* do_event.
RunEvent ==
    /\ MainAt("event")
    /\ main' = At("return")
    /\ IF nevents = 0
       THEN UNCHANGED << fevent, nevents, state, process_current, stack >>
       ELSE LET e == events[fevent]
            IN  /\ fevent' = (fevent + 1) % NUMEVENTS
                /\ nevents' = nevents - 1
                /\ IF e.p = NULL
                   THEN /\ stack' = << Broadcast(process_list, e.ev, e.data, "poll") >>
                        /\ UNCHANGED << state, process_current >>
                   ELSE call_process(IF e.ev = "init" THEN [state EXCEPT ![e.p] = "running"]
                                     ELSE state, e.p, e.ev, e.data, << >>)
    /\ UNCHANGED << listVars, pollVars, events, calls, profile >>

\* The loop of main goes on while process_run reports something left to do.
MainLoop ==
    /\ MainAt("return")
    /\ main' = At(IF nevents > 0 \/ poll_requested THEN "run" ELSE "sleep")
    /\ UNCHANGED << listVars, state, pollVars, queueVars, process_current, stack, calls, profile >>

\* platform_idle: from here on only an interrupt makes main go on.
MainSleep ==
    /\ MainAt("sleep")
    /\ main' = At("idle")
    /\ UNCHANGED << listVars, state, pollVars, queueVars, process_current, stack, calls, profile >>

Wake == main' = IF main.at = "idle" THEN At("run") ELSE main

-----------------------------------------------------------------------------
(* The loops over the process list.                                        *)

\* Mutant: the request is withdrawn after the loop instead of before it.
PollStep_late ==
    /\ Executing("do_poll")
    /\ LET p == Top.p
       IN  \/ /\ p = NULL /\ Return
              /\ poll_requested' = FALSE
              /\ UNCHANGED << state, needspoll, process_current >>
           \/ /\ p # NULL /\ Top.at = "visit" /\ p \in needspoll
              /\ needspoll' = needspoll \ {p}
              /\ call_process([state EXCEPT ![p] = "running"], p, "poll", NULL,
                              Append(Below, Polling(p, "next")))
              /\ UNCHANGED poll_requested
           \/ /\ p # NULL /\ (Top.at = "next" \/ p \notin needspoll)
              /\ Goto(Polling(next[p], "visit"))
              /\ UNCHANGED << state, pollVars, process_current >>
    /\ UNCHANGED << listVars, queueVars, main, calls, profile >>

\* do_poll: a flagged process is made running, whatever its state, and called.
PollStep ==
    /\ Executing("do_poll")
    /\ LET p == Top.p
       IN  \/ /\ p = NULL /\ Return
              /\ UNCHANGED << state, needspoll, process_current >>
           \/ /\ p # NULL /\ Top.at = "visit" /\ p \in needspoll
              /\ needspoll' = needspoll \ {p}
              /\ call_process([state EXCEPT ![p] = "running"], p, "poll", NULL,
                              Append(Below, Polling(p, "next")))
           \/ /\ p # NULL /\ (Top.at = "next" \/ p \notin needspoll)
              /\ Goto(Polling(next[p], "visit"))
              /\ UNCHANGED << state, needspoll, process_current >>
    /\ UNCHANGED << listVars, poll_requested, queueVars, main, calls, profile >>

\* The broadcast of do_event: requested polls come in between.
BroadcastStep ==
    /\ Executing("do_event")
    /\ LET p == Top.p
           Cursor(q, at) == Broadcast(q, Top.ev, Top.data, at)
       IN  \/ /\ p = NULL /\ Return
              /\ UNCHANGED << state, poll_requested, process_current >>
           \/ /\ p # NULL /\ Top.at = "poll"
              /\ IF poll_requested
                 THEN StartPolling(Append(Below, Cursor(p, "call")))
                 ELSE Goto(Cursor(p, "call")) /\ UNCHANGED poll_requested
              /\ UNCHANGED << state, process_current >>
           \/ /\ p # NULL /\ Top.at = "call"
              /\ call_process(state, p, Top.ev, Top.data, Append(Below, Cursor(p, "next")))
              /\ UNCHANGED poll_requested
           \/ /\ p # NULL /\ Top.at = "next"
              /\ Goto(Cursor(next[p], "poll"))
              /\ UNCHANGED << state, poll_requested, process_current >>
    /\ UNCHANGED << listVars, needspoll, queueVars, main, calls, profile >>

\* The rest of exit_process: every other process is told, then the process
\* itself unless it called, and it is taken off the list.
ExitTells ==
    /\ Executing("exit_process") /\ Top.at \in {"tell", "told"} /\ Top.q # NULL
    /\ LET Cursor(q, at) == Exiting(Top.p, Top.from, q, Top.old, at)
       IN  IF Top.at = "tell" /\ Top.q # Top.p
           THEN call_process(state, Top.q, "exited", Top.p, Append(Below, Cursor(Top.q, "told")))
           ELSE Goto(Cursor(next[Top.q], "tell")) /\ UNCHANGED << state, process_current >>
    /\ UNCHANGED << listVars, pollVars, queueVars, main, calls, profile >>

ExitCalls ==
    /\ Executing("exit_process") /\ Top.at = "tell" /\ Top.q = NULL
    /\ LET last == Exiting(Top.p, Top.from, NULL, Top.old, "unlink")
       IN  IF Top.p # Top.from
           THEN /\ process_current' = Top.p
                /\ stack' = Append(Append(Below, last), ExitThread(Top.p))
           ELSE Goto(last) /\ UNCHANGED process_current
    /\ UNCHANGED << listVars, state, pollVars, queueVars, main, calls, profile >>

\* Mutant: process_current is not restored.
ExitUnlinks_current ==
    /\ Executing("exit_process") /\ Top.at = "unlink"
    /\ unlink(Top.p)
    /\ Return
    /\ UNCHANGED << state, pollVars, queueVars, process_current, main, calls, profile >>

ExitUnlinks ==
    /\ Executing("exit_process") /\ Top.at = "unlink"
    /\ unlink(Top.p)
    /\ process_current' = Top.old
    /\ Return
    /\ UNCHANGED << state, pollVars, queueVars, main, calls, profile >>

SynchReturns ==
    /\ Executing("process_post_synch")
    /\ process_current' = Top.caller
    /\ Return
    /\ UNCHANGED << listVars, state, pollVars, queueVars, main, calls, profile >>

-----------------------------------------------------------------------------
(* Threads.                                                                *)

\* A thread returns to call_process: it has yielded, or ended; an exited
\* process is not expected to go on.  A thread that exit_process has called
\* returns to it, whatever it returns.
ThreadReturns(procs) ==
    /\ Executing("thread") /\ Top.p \in procs
    /\ \/ /\ Top.ev # "exit"
          /\ state' = [state EXCEPT ![Top.p] = "running"]
          /\ Return
          /\ UNCHANGED << listVars, process_current >>
       \/ /\ Top.p \in App \/ Top.ev = "exit"
          /\ exit_process(Top.p, Top.p, Below)
    /\ UNCHANGED << pollVars, queueVars, main, calls, profile >>

ExitThreadReturns ==
    /\ Executing("exit thread")
    /\ Return
    /\ UNCHANGED << listVars, state, pollVars, queueVars, process_current, main, calls, profile >>

\* The thread of an application makes a call of the given kind.
Calling(kind) ==
    /\ Executing("thread") \/ Executing("exit thread")
    /\ Top.p \in App
    /\ calls > 0 /\ calls' = calls - 1
    /\ kind \in profile.kinds /\ UNCHANGED << profile, main >>

CallPost ==
    /\ Calling("post")
    /\ \/ \E p \in App, ev \in {"msg", "exit"} : process_post(p, ev, NULL)
       \/ process_post(NULL, "msg", NULL)
    /\ UNCHANGED << listVars, state, pollVars, process_current, stack >>

CallPostSynch ==
    /\ Calling("synch")
    /\ \E p \in App : call_process(state, p, "msg", NULL, Append(stack, Synch(process_current)))
    /\ UNCHANGED << listVars, pollVars, queueVars >>

CallPoll ==
    /\ Calling("poll")
    /\ \E p \in App : process_poll(p)
    /\ UNCHANGED << listVars, state, queueVars, process_current, stack >>

CallStart ==
    /\ Calling("start")
    /\ \E p \in App : process_start(p, stack)
    /\ UNCHANGED << pollVars, queueVars >>

CallExit ==
    /\ Calling("process_exit")
    /\ \E p \in App : exit_process(p, process_current, stack)
    /\ UNCHANGED << pollVars, queueVars >>

\* A driver polls a process from an interrupt.
PollInterrupt ==
    /\ "poll" \in profile.kinds /\ calls > 0 /\ calls' = calls - 1
    /\ main.at # "boot"
    /\ \E p \in App : process_poll(p)
    /\ Wake
    /\ UNCHANGED << listVars, state, queueVars, process_current, stack, profile >>

-----------------------------------------------------------------------------
\* process_init, in front of the processes that main starts.
NoEvent == [ev |-> "msg", data |-> NULL, p |-> NULL]
ProcessInit ==
    /\ process_list = NULL /\ next = [p \in Proc |-> NULL]
    /\ state = [p \in Proc |-> "none"]
    /\ needspoll = {} /\ poll_requested = FALSE
    /\ events = [i \in 0..(NUMEVENTS - 1) |-> NoEvent] /\ fevent = 0 /\ nevents = 0
    /\ process_current = NULL
    /\ main = Boot(1) /\ stack = << >>
    /\ profile \in Profiles /\ calls = profile.calls

\* What the processor does by itself, and what the threads of applications may
\* call.
KernelStep ==
    \/ MainStart \/ MainStarted \/ RunPolls \/ RunEvent \/ MainLoop \/ MainSleep
    \/ PollStep \/ BroadcastStep \/ ExitTells \/ ExitCalls \/ ExitUnlinks
    \/ SynchReturns \/ ThreadReturns(App) \/ ExitThreadReturns

ThreadCall == CallPost \/ CallPostSynch \/ CallPoll \/ CallStart \/ CallExit

-----------------------------------------------------------------------------
(* Properties.                                                             *)

\* The ring of events, from fevent on, is a bounded queue.
queued == [i \in 1..nevents |-> events[(fevent + i - 1) % NUMEVENTS]]

\* PROCESS_CURRENT() is the process whose thread is executing, also after the
\* calls that it made ran other threads: services register it as their client.
CurrentRuns ==
    Executing("thread") \/ Executing("exit thread") => process_current = Top.p
=============================================================================
