------------------------------- MODULE ETimer -------------------------------
(***************************************************************************)
(* os/sys/etimer.c and timer.c: event timers, a service of the process     *)
(* kernel, with the clock interrupt of the target (arch/cpu/cc2538).       *)
(*                                                                         *)
(* A timer that an application sets is on timerlist until etimer_process   *)
(* finds it expired and posts an event to the process that set it.  The    *)
(* clock interrupt polls etimer_process when timers are pending.  Times    *)
(* are unsigned and wrap around at Period.                                 *)
(***************************************************************************)
EXTENDS Process, FiniteSetsExt

CONSTANTS
    etimer_process,
    Timer,          \* the event timers (struct etimer)
    Period,         \* number of values of clock_time_t, 2^32
    Intervals,      \* intervals that are set
    Shifts,         \* differences that a timer is adjusted by
    ClockStart,     \* the time when main has initialised everything
    MaxLag          \* ticks in which a processor that is awake gets to a poll

ASSUME ETimerAssumption ==
    /\ etimer_process \in Service /\ NULL \notin Timer /\ IsFiniteSet(Timer)
    /\ Period \in Nat \ {0} /\ Intervals \subseteq 0..(Period - 1)
    /\ Shifts \subseteq Int /\ ClockStart \subseteq 0..(Period - 1) /\ MaxLag \in Nat
    /\ AutoStart # << >> /\ AutoStart[1] = etimer_process

VARIABLES
    timerlist, tnext,       \* the list of timers: its head, its links
    owner,                  \* the field p of a timer, NULL when it expired
    start, interval,        \* struct timer
    next_expiration,
    clock,                  \* clock_time()
    lag,                    \* ticks since etimer_process looked at its timers
    late                    \* timers set by a process that had been exited

timeVars == << start, interval >>
tlistVars == << timerlist, tnext, owner >>
timerVars == << tlistVars, timeVars, next_expiration, clock, lag, late >>
vars == << procVars, timerVars >>

Times == 0..(Period - 1)
Pending == Members(timerlist, tnext)

-----------------------------------------------------------------------------
(* timer.c and update_time.                                                *)

timer_expired(t) == interval[t] < (clock - start[t] + 1) % Period

Distance(st, iv, t) == (st[t] + iv[t] - clock) % Period

\* Mutant: the expiration time does not wrap around.
update_time_wide(M, st, iv) ==
    next_expiration' = IF M = {} THEN 0 ELSE clock + Min({Distance(st, iv, t) : t \in M})

\* update_time: the smallest distance of the timers of M from now.
update_time(M, st, iv) ==
    next_expiration' = IF M = {} THEN 0
                       ELSE (clock + Min({Distance(st, iv, t) : t \in M})) % Period

-----------------------------------------------------------------------------
(* The thread of etimer_process.                                           *)

Scan(u, t) == [fn |-> "etimer", p |-> etimer_process, u |-> u, t |-> t]
Dropping(gone, t) == [fn |-> "drop", p |-> etimer_process, gone |-> gone, t |-> t]
ServiceCalled(ev) == Executing("thread") /\ Top.p = etimer_process /\ Top.ev = ev

\* The thread yields.
Yield ==
    /\ state' = [state EXCEPT ![etimer_process] = "running"]
    /\ Return

Start ==
    /\ ServiceCalled("init")
    /\ timerlist' = NULL
    /\ Yield
    /\ UNCHANGED << listVars, pollVars, queueVars, process_current, main, calls, profile,
                    tnext, owner, timeVars, next_expiration, clock, lag, late >>

\* PROCESS_EVENT_EXITED: the timers of the process are dropped, first those at
\* the head of the list, then the ones behind a timer t that stays.
DropExited ==
    /\ ServiceCalled("exited")
    /\ Goto(Dropping(Top.data, NULL))
    /\ UNCHANGED << listVars, state, pollVars, queueVars, process_current, main, calls,
                    profile, timerVars >>

\* Mutant: at most one timer is dropped at the head.
DropHead_once ==
    /\ Executing("drop") /\ Top.t = NULL
    /\ IF timerlist = NULL
       THEN Yield /\ UNCHANGED timerlist
       ELSE /\ timerlist' = IF owner[timerlist] = Top.gone THEN tnext[timerlist] ELSE timerlist
            /\ IF timerlist' = NULL THEN Yield
               ELSE Goto(Dropping(Top.gone, timerlist')) /\ UNCHANGED state
    /\ UNCHANGED << listVars, pollVars, queueVars, process_current, main, calls, profile,
                    tnext, owner, timeVars, next_expiration, clock, lag, late >>

DropHead ==
    /\ Executing("drop") /\ Top.t = NULL
    /\ \/ /\ timerlist = NULL
          /\ Yield /\ UNCHANGED timerlist
       \/ /\ timerlist # NULL /\ owner[timerlist] = Top.gone
          /\ timerlist' = tnext[timerlist] /\ UNCHANGED << state, stack >>
       \/ /\ timerlist # NULL /\ owner[timerlist] # Top.gone
          /\ Goto(Dropping(Top.gone, timerlist)) /\ UNCHANGED << state, timerlist >>
    /\ UNCHANGED << listVars, pollVars, queueVars, process_current, main, calls, profile,
                    tnext, owner, timeVars, next_expiration, clock, lag, late >>

DropNext ==
    /\ Executing("drop") /\ Top.t # NULL
    /\ LET n == tnext[Top.t]
       IN  \/ /\ n = NULL
              /\ Yield /\ UNCHANGED tnext
           \/ /\ n # NULL /\ owner[n] = Top.gone
              /\ tnext' = [tnext EXCEPT ![Top.t] = tnext[n]] /\ UNCHANGED << state, stack >>
           \/ /\ n # NULL /\ owner[n] # Top.gone
              /\ Goto(Dropping(Top.gone, n)) /\ UNCHANGED << state, tnext >>
    /\ UNCHANGED << listVars, pollVars, queueVars, process_current, main, calls, profile,
                    timerlist, owner, timeVars, next_expiration, clock, lag, late >>

OtherEvent ==
    /\ Executing("thread") /\ Top.p = etimer_process /\ Top.ev \in {"msg", "timer"}
    /\ Yield
    /\ UNCHANGED << listVars, pollVars, queueVars, process_current, main, calls, profile,
                    timerVars >>

\* PROCESS_EVENT_POLL: the list is scanned from its head.
Polled ==
    /\ ServiceCalled("poll")
    /\ Goto(Scan(NULL, timerlist))
    /\ lag' = 0
    /\ UNCHANGED << listVars, state, pollVars, queueVars, process_current, main, calls,
                    profile, tlistVars, timeVars, next_expiration, clock, late >>

\* Mutant: a refused event is forgotten.
Expire_once(t, u) ==
    /\ process_post(owner[t], "timer", t)
    /\ owner' = [owner EXCEPT ![t] = NULL]
    /\ timerlist' = IF u = NULL THEN tnext[t] ELSE timerlist
    /\ tnext' = IF u = NULL THEN [tnext EXCEPT ![t] = NULL]
                ELSE [tnext EXCEPT ![t] = NULL, ![u] = tnext[t]]
    /\ update_time(Pending \ {t}, start, interval)
    /\ Goto(Scan(NULL, timerlist'))
    /\ UNCHANGED pollVars

\* An expired timer is posted and taken off the list, and the scan starts
\* again; when the queue is full the poll is repeated.
Expire(t, u) ==
    /\ process_post(owner[t], "timer", t)
    /\ IF Full
       THEN /\ process_poll(etimer_process)
            /\ Goto(Scan(t, tnext[t]))
            /\ UNCHANGED << tlistVars, next_expiration >>
       ELSE /\ owner' = [owner EXCEPT ![t] = NULL]
            /\ timerlist' = IF u = NULL THEN tnext[t] ELSE timerlist
            /\ tnext' = IF u = NULL THEN [tnext EXCEPT ![t] = NULL]
                        ELSE [tnext EXCEPT ![t] = NULL, ![u] = tnext[t]]
            /\ update_time(Pending \ {t}, start, interval)
            /\ Goto(Scan(NULL, timerlist'))
            /\ UNCHANGED pollVars

ScanTimer ==
    /\ Executing("etimer") /\ Top.t # NULL
    /\ IF timer_expired(Top.t) THEN Expire(Top.t, Top.u)
       ELSE /\ Goto(Scan(Top.t, tnext[Top.t]))
            /\ UNCHANGED << queueVars, pollVars, tlistVars, next_expiration >>
    /\ UNCHANGED << listVars, state, process_current, main, calls, profile, timeVars, clock, lag, late >>

ScanEnd ==
    /\ Executing("etimer") /\ Top.t = NULL
    /\ Yield
    /\ UNCHANGED << listVars, pollVars, queueVars, process_current, main, calls, profile,
                    timerVars >>

-----------------------------------------------------------------------------
(* The calls of an application.                                            *)

\* Is the process that calls off the list, or about to be?  (A process may be
\* started again before the exit_process that exits it has come to its end.)
Exited(p) ==
    p \notin Listed \/ \E i \in 1..Len(stack) : stack[i].fn = "exit_process" /\ stack[i].p = p

\* Mutant: the list is not searched for the timer.
add_timer_blind(t, st, iv) ==
    /\ start' = st /\ interval' = iv
    /\ process_poll(etimer_process)
    /\ owner' = [owner EXCEPT ![t] = process_current]
    /\ tnext' = [tnext EXCEPT ![t] = timerlist] /\ timerlist' = t
    /\ update_time(Pending \cup {t}, st, iv)
    /\ UNCHANGED late

\* add_timer, for the times st and iv.  A timer that expired or was stopped is
\* taken to be off the list.
add_timer(t, st, iv) ==
    /\ start' = st /\ interval' = iv
    /\ process_poll(etimer_process)
    /\ owner' = [owner EXCEPT ![t] = process_current]
    /\ IF owner[t] # NULL /\ t \in Pending
       THEN UNCHANGED << timerlist, tnext >>
       ELSE tnext' = [tnext EXCEPT ![t] = timerlist] /\ timerlist' = t
    /\ update_time(Pending \cup {t}, st, iv)
    /\ late' = IF Exited(process_current) THEN late \cup {t} ELSE late \ {t}

etimer_set(t, i) == add_timer(t, [start EXCEPT ![t] = clock], [interval EXCEPT ![t] = i])
etimer_reset_with_new_interval(t, i) ==
    add_timer(t, [start EXCEPT ![t] = (@ + interval[t]) % Period], [interval EXCEPT ![t] = i])
etimer_reset(t) == add_timer(t, [start EXCEPT ![t] = (@ + interval[t]) % Period], interval)
etimer_restart(t) == add_timer(t, [start EXCEPT ![t] = clock], interval)

CallSet ==
    /\ Calling("set")
    /\ \E t \in Timer, i \in Intervals : etimer_set(t, i)
    /\ UNCHANGED << listVars, state, queueVars, process_current, stack, clock, lag >>

CallReset ==
    /\ Calling("reset")
    /\ \E t \in Timer :
         \/ \E i \in Intervals : etimer_reset_with_new_interval(t, i)
         \/ etimer_reset(t)
         \/ etimer_restart(t)
    /\ UNCHANGED << listVars, state, queueVars, process_current, stack, clock, lag >>

CallAdjust ==
    /\ Calling("reset")
    /\ \E t \in Timer, d \in Shifts :
         /\ start' = [start EXCEPT ![t] = (@ + d) % Period]
         /\ update_time(Pending, start', interval)
    /\ UNCHANGED << listVars, state, pollVars, queueVars, process_current, stack,
                    tlistVars, interval, clock, lag, late >>

etimer_stop(t) ==
    /\ IF t = timerlist
       THEN timerlist' = tnext[t] /\ tnext' = [tnext EXCEPT ![t] = NULL]
       ELSE /\ tnext' = [u \in Timer |-> IF u = t THEN NULL
                                         ELSE IF u \in Pending /\ tnext[u] = t THEN tnext[t]
                                         ELSE tnext[u]]
            /\ UNCHANGED timerlist
    /\ IF t \in Pending THEN update_time(Pending \ {t}, start, interval)
       ELSE UNCHANGED next_expiration
    /\ owner' = [owner EXCEPT ![t] = NULL]

CallStop ==
    /\ Calling("reset")
    /\ \E t \in Timer : etimer_stop(t)
    /\ UNCHANGED << listVars, state, pollVars, queueVars, process_current, stack,
                    timeVars, clock, lag, late >>

\* Mutant: nobody is told that the clock has changed.
ClockInterrupt_silent ==
    /\ clock' = (clock + 1) % Period
    /\ Wake
    /\ UNCHANGED << listVars, state, pollVars, queueVars, process_current, stack, calls,
                    profile, tlistVars, timeVars, next_expiration, lag, late >>

\* The clock interrupt.  MaxLag: a processor that is awake finds its way to
\* etimer_process long before the clock has gone round (one that fell asleep
\* with a poll requested, by an interrupt between the last check of the main
\* loop and the wfi instruction, wakes up at the next tick).  While no timer is pending and the
\* processor is awake an interrupt only advances the clock, which may begin
\* anywhere: those are left out.
ClockInterrupt ==
    /\ main.at = "idle" \/ (timerlist # NULL /\ lag < MaxLag)
    /\ clock' = (clock + 1) % Period
    /\ IF timerlist # NULL THEN process_poll(etimer_process) ELSE UNCHANGED pollVars
    /\ lag' = IF timerlist # NULL THEN lag + 1 ELSE 0
    /\ Wake
    /\ UNCHANGED << listVars, state, queueVars, process_current, stack, calls, profile,
                    tlistVars, timeVars, next_expiration, late >>

-----------------------------------------------------------------------------
Init ==
    /\ ProcessInit
    /\ timerlist = NULL /\ tnext = [t \in Timer |-> NULL] /\ owner = [t \in Timer |-> NULL]
    /\ start = [t \in Timer |-> 0] /\ interval = [t \in Timer |-> 0]
    /\ next_expiration = 0 /\ clock \in ClockStart /\ lag = 0 /\ late = {}

\* The processor goes on by itself.
Processor ==
    \/ KernelStep /\ UNCHANGED timerVars
    \/ Start \/ DropExited \/ DropHead \/ DropNext \/ OtherEvent \/ Polled \/ ScanTimer \/ ScanEnd

Application ==
    \/ (ThreadCall \/ PollInterrupt) /\ UNCHANGED timerVars
    \/ CallSet \/ CallReset \/ CallAdjust \/ CallStop

Next == Processor \/ Application \/ ClockInterrupt

\* Main loop and threads run on (a thread returns in the end), and the clock
\* ticks.
Spec == Init /\ [][Next]_vars /\ WF_vars(Processor) /\ WF_vars(ClockInterrupt)

-----------------------------------------------------------------------------
(* Properties.                                                             *)

QueuedEvent == [ev : Ids, data : Proc \cup Timer \cup {NULL}, p : Proc \cup {NULL}]

\* The types of the C declarations: links and owners are pointers or null, the
\* times are below Period (clock_time_t wraps), and the ring holds no more than
\* NUMEVENTS events.
TypeOK ==
    /\ process_list \in Proc \cup {NULL} /\ next \in [Proc -> Proc \cup {NULL}]
    /\ state \in [Proc -> {"none", "running", "called"}]
    /\ needspoll \subseteq Proc /\ poll_requested \in BOOLEAN
    /\ events \in [0..(NUMEVENTS - 1) -> QueuedEvent]
    /\ fevent \in 0..(NUMEVENTS - 1) /\ nevents \in 0..NUMEVENTS
    /\ process_current \in Proc \cup {NULL}
    /\ timerlist \in Timer \cup {NULL} /\ tnext \in [Timer -> Timer \cup {NULL}]
    /\ owner \in [Timer -> Proc \cup {NULL}]
    /\ start \in [Timer -> Times] /\ interval \in [Timer -> Times]
    /\ next_expiration \in Times /\ clock \in Times /\ lag \in Nat
    /\ late \subseteq Timer

\* Both lists end, and a timer without an owner is off the list: add_timer puts
\* it there without looking, and would close the list to a circle.
ListsSound ==
    /\ Ends(process_list, next) /\ Ends(timerlist, tnext)
    /\ \A t \in Pending : owner[t] # NULL

Fifo == INSTANCE BoundedFifo WITH Element <- QueuedEvent, Capacity <- NUMEVENTS, queue <- queued

\* The ring of events is a queue: events are handed out in the order in which
\* they were posted, and none that process_post accepted is overwritten.
EventsInOrder == Fifo!Spec

\* A do_poll that is asked for, or is under way and has not passed p.
WillPoll(f, p) ==
    f.fn = "do_poll" /\ p \in Members(IF f.at = "visit" \/ f.p = NULL THEN f.p ELSE next[f.p], next)
PollComing(p) == poll_requested \/ \E i \in 1..Len(stack) : WillPoll(stack[i], p)
PollStepKept ==
    \A p \in Listed \cap Listed' \cap needspoll' :
      (p \in needspoll => PollComing(p)) => PollComing(p)'

\* No poll is lost: once a process on the list is flagged, a do_poll is asked
\* for or is under way and still comes to the process, until it does; an
\* interrupt in the middle of do_poll included.  (A flag that a process had
\* when it exited is another matter: nothing asks for it when it is started
\* again.)
PollsKept == [][PollStepKept]_vars

\* An exit_process of p is on its way through the processes.
ExitTelling(p) ==
    \E i \in 1..Len(stack) :
      stack[i].fn = "exit_process" /\ stack[i].p = p /\ stack[i].at # "unlink"

\* The timers that are pending belong to processes on the list: an exited
\* process leaves none behind, unless it set them after it had been exited.  (A
\* process that is told of the exit may exit the process once more and so take
\* it off the list before etimer_process is told.)
TimersOfLiving ==
    \A t \in Pending \ late : owner[t] \in Listed \/ ExitTelling(owner[t])

\* The event of t is the last of the queue.
Posted(t) == /\ nevents' = nevents + 1
             /\ queued'[nevents'] = [ev |-> "timer", data |-> t, p |-> owner[t]]

\* t was stopped by this call of a process: it has no owner any more.
Stopped(t) == calls' < calls /\ owner'[t] = NULL

\* A timer leaves the list only when its event has been posted to the process
\* that set it, when a process stops it, or when that process has exited; never
\* because the event queue was full, or another timer was set or stopped.
TimersKept ==
    [][ \A t \in Pending \ Pending' :
          Posted(t) \/ Stopped(t) \/ (Executing("drop") /\ Top.gone = owner[t]) ]_vars

\* A pending timer is posted in the end, or stopped or dropped, also when the
\* queue was full when it expired.
TimersFire == \A t \in Timer : t \in Pending ~> t \notin Pending
=============================================================================
