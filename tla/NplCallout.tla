----------------------------- MODULE NplCallout -----------------------------
(***************************************************************************)
(* The callouts (one-shot software timers) of the NimBLE porting layer     *)
(* (3rd-party/nimble/port/src/nimble_npl_os.c): one detached worker thread *)
(* walks a list of all callouts under callout_lock, claims the first one   *)
(* that is due, releases the lock and either puts its event on the event   *)
(* queue or runs its handler; when none is due it sleeps on callout_cond   *)
(* until the earliest deadline.  Any thread resets and stops callouts      *)
(* meanwhile.                                                              *)
(*                                                                         *)
(* A step is one critical section of callout_lock, one call of the event   *)
(* queue (here the abstract queue, which NplEventq implements), or one     *)
(* tick of the clocks.  Deadlines are taken from CLOCK_MONOTONIC as 32-bit *)
(* milliseconds that wrap around; the worker's timed wait is on            *)
(* CLOCK_REALTIME, which may be set while it waits.                        *)
(***************************************************************************)
EXTENDS Integers, Sequences, FiniteSets

CONSTANTS
    Callouts,       \* the struct ble_npl_callout objects
    Queued,         \* those initialised with an event queue; the others run
                    \*   their handler on the worker thread
    NULL,           \* the null pointer
    Modulus,        \* 2^32: ble_npl_time_t is a uint32_t
    TicksArgs,      \* the values ble_npl_callout_reset is called with
    MaxLag,         \* bound: how late the worker may come to a due callout
    RealtimeSteps   \* the values a setting of CLOCK_REALTIME may leave as the
                    \*   remaining time of the wait ({}: it is never set)

ASSUME ModulusAssumption == Modulus \in Nat /\ Modulus > 1 /\ Modulus % 2 = 0

Half == Modulus \div 2

\* The signed difference of two times is right for intervals below 2^31 only.
ASSUME TicksAssumption == TicksArgs \subseteq 0..(Half - 1)
ASSUME LagAssumption == MaxLag \in 1..(Half - 1)
ASSUME QueuedAssumption == Queued \subseteq Callouts
ASSUME StepsAssumption == RealtimeSteps \subseteq Nat

VARIABLES
    now,            \* CLOCK_MONOTONIC in milliseconds, modulo 2^32
    inited,         \* the callouts ble_npl_callout_init was called for
    manager,        \* callout_once and callout_thread_ready: "none" before the
                    \*   first init, "failed" if pthread_create failed, "ready"
    calloutList,    \* callout_list, the list as a sequence
    active,         \* active[c]: c->active
    deadline,       \* deadline[c]: c->deadline
    worker,         \* the worker: "scan" about to walk the list, "fire" with a
                    \*   claimed callout and without the lock, "running" a
                    \*   handler, "wait" on callout_cond ("none": no thread)
    due,            \* the callout the worker claimed
    timed,          \* the wait has a deadline (pthread_cond_timedwait)
    waitLeft,       \* the ticks until that deadline (0 outside a timed wait)
    stepped,        \* history: CLOCK_REALTIME was set during this wait
    queue, got,     \* the event queue, and what the host task last took from it
    left,           \* history: left[c]: the ticks until an armed c is due, in
                    \*   unbounded arithmetic (0 when it is not armed)
    budget          \* history: budget[c]: how many more runs of c's handler
                    \*   the calls of reset and stop so far account for

wait == <<waitLeft, stepped>>
clocks == <<now, left, wait>>
workerVars == <<worker, due, timed>>
vars == <<now, inited, manager, calloutList, active, deadline, worker, due,
          timed, waitLeft, stepped, queue, got, left, budget>>

Host == "host"

Eventq == INSTANCE NplEventqAbs WITH Events <- Callouts, Consumers <- {Host}

Init ==
    /\ now \in 0..(Modulus - 1)
    /\ inited = {}
    /\ manager = "none"
    /\ calloutList = <<>>
    /\ active = [c \in Callouts |-> FALSE]
    /\ deadline = [c \in Callouts |-> 0]
    /\ worker = "none"
    /\ due = NULL
    /\ timed = FALSE
    /\ waitLeft = 0
    /\ stepped = FALSE
    /\ Eventq!AbsInit
    /\ left = [c \in Callouts |-> 0]
    /\ budget = [c \in Callouts |-> 0]

-----------------------------------------------------------------------------
(* Time.                                                                   *)

\* The cast of a 32-bit difference to int32_t.
Signed(x) == IF x % Modulus < Half THEN x % Modulus ELSE (x % Modulus) - Modulus

\* (int32_t)(callout->deadline - now)
Remaining(c) == Signed(deadline[c] - now)

\* What ble_npl_callout_remaining_ticks answers for the present time.
RemainingTicks(c) == IF active[c] /\ Remaining(c) > 0 THEN Remaining(c) ELSE 0

Active == {c \in Callouts : active[c]}

\* A millisecond passes.  The worker thread is never kept from running for
\* MaxLag ticks beyond the deadline of an armed callout or of its own wait.
Tick ==
    /\ \A c \in Active : left[c] > -MaxLag
    /\ worker = "wait" /\ timed => waitLeft > -MaxLag
    /\ now' = (now + 1) % Modulus
    /\ left' = [c \in Callouts |-> IF active[c] THEN left[c] - 1 ELSE left[c]]
    /\ waitLeft' = IF worker = "wait" /\ timed THEN waitLeft - 1 ELSE waitLeft
    /\ UNCHANGED <<inited, manager, calloutList, active, deadline, workerVars,
                   stepped, queue, got, budget>>

\* CLOCK_REALTIME is set, so that the deadline of the wait is d away now.
RealtimeSet(d) ==
    /\ worker = "wait" /\ timed
    /\ \A c \in Active : left[c] - d > -MaxLag
    /\ waitLeft' = d
    /\ stepped' = TRUE
    /\ UNCHANGED <<now, inited, manager, calloutList, active, deadline,
                   workerVars, queue, got, left, budget>>

-----------------------------------------------------------------------------
(* The operations of the other threads.                                    *)

\* An object is initialised once.  The first initialisation starts the
\* worker, which may fail, and is not tried again.
CalloutInit(c) ==
    /\ c \notin inited
    /\ inited' = inited \cup {c}
    /\ IF manager = "none"
       THEN \/ manager' = "ready" /\ worker' = "scan"
            \/ manager' = "failed" /\ UNCHANGED worker
       ELSE UNCHANGED <<manager, worker>>
    /\ UNCHANGED <<clocks, calloutList, active, deadline, due, timed, queue,
                   got, budget>>

\* Fault: the worker is not woken.
SignalNobody == UNCHANGED <<worker, timed, wait>>

\* The worker is out of the wait and about to take the lock again.
LeaveWait ==
    /\ worker' = "scan"
    /\ timed' = FALSE
    /\ waitLeft' = 0
    /\ stepped' = FALSE

\* pthread_cond_signal(&callout_cond): the worker leaves its wait, if it is in it.
SignalWorker ==
    \/ worker = "wait" /\ LeaveWait
    \/ worker # "wait" /\ UNCHANGED <<worker, timed, wait>>

InFlight(c) == worker = "fire" /\ due = c

\* The runs of c's handler that are under way whatever happens to c now.
Pending(c) ==
    (IF InFlight(c) THEN 1 ELSE 0) + (IF c \in Eventq!Elems(queue) THEN 1 ELSE 0)

\* A callout that was never reset goes to the front of the list.
Listed(c) ==
    IF c \in Eventq!Elems(calloutList) THEN calloutList ELSE <<c>> \o calloutList

\* The deadline t ticks from now.
DeadlineIn(t) == (now + t) % Modulus

\* ticks = 0 counts as 1.
AtLeastOne(ticks) == IF ticks = 0 THEN 1 ELSE ticks

Reset(c, ticks) ==
    /\ c \in inited
    /\ manager = "ready"
    /\ calloutList' = Listed(c)
    /\ deadline' = [deadline EXCEPT ![c] = DeadlineIn(AtLeastOne(ticks))]
    /\ left' = [left EXCEPT ![c] = AtLeastOne(ticks)]
    /\ active' = [active EXCEPT ![c] = TRUE]
    /\ SignalWorker
    /\ budget' = [budget EXCEPT ![c] = Pending(c) + 1]
    /\ UNCHANGED <<now, inited, manager, due, queue, got>>

Stop(c) ==
    /\ c \in inited
    /\ active' = [active EXCEPT ![c] = FALSE]
    /\ left' = [left EXCEPT ![c] = 0]
    /\ SignalWorker
    /\ budget' = [budget EXCEPT ![c] = Pending(c)]
    /\ UNCHANGED <<now, inited, manager, calloutList, deadline, due, queue, got>>

\* A thread takes the event of c off the queue (ble_npl_eventq_remove).
RemoveEvent(c) ==
    /\ Eventq!AbsRemove(c)
    /\ UNCHANGED <<clocks, inited, manager, calloutList, active, deadline,
                   workerVars, budget>>

\* The host task takes the oldest event and runs its handler.
HostRuns ==
    /\ Eventq!AbsGet(Host)
    /\ budget' = [budget EXCEPT ![Head(queue)] = @ - 1]
    /\ UNCHANGED <<clocks, inited, manager, calloutList, active, deadline,
                   workerVars>>

-----------------------------------------------------------------------------
(* The worker, callout_worker.                                             *)

DueAt == {i \in 1..Len(calloutList) :
            active[calloutList[i]] /\ Remaining(calloutList[i]) <= 0}

\* Fault: a claimed callout stays armed.
StaysArmed(c) == active

Disarmed(c) == [active EXCEPT ![c] = FALSE]

\* Fault: the test is on active alone.
ClaimAnyArmed ==
    /\ worker = "scan"
    /\ \E i \in 1..Len(calloutList) :
        /\ active[calloutList[i]]
        /\ due' = calloutList[i]
        /\ active' = Disarmed(calloutList[i])
        /\ left' = [left EXCEPT ![calloutList[i]] = 0]
    /\ worker' = "fire"
    /\ UNCHANGED <<now, wait, inited, manager, calloutList, deadline, timed,
                   queue, got, budget>>

\* The walk stops at the first callout in the list that is due, which is
\* disarmed, and the lock is released.
Claim ==
    /\ worker = "scan"
    /\ \E i \in DueAt :
        /\ \A j \in DueAt : i <= j
        /\ due' = calloutList[i]
        /\ active' = Disarmed(calloutList[i])
        /\ left' = [left EXCEPT ![calloutList[i]] = 0]
    /\ worker' = "fire"
    /\ UNCHANGED <<now, wait, inited, manager, calloutList, deadline, timed,
                   queue, got, budget>>

\* Nothing is due: the worker waits for the shortest remaining time, or, if
\* no callout is armed, for a signal.
Sleep ==
    /\ worker = "scan"
    /\ DueAt = {}
    /\ LET armed == {c \in Eventq!Elems(calloutList) : active[c]}
       IN \/ /\ armed = {}
             /\ timed' = FALSE
             /\ UNCHANGED waitLeft
          \/ \E c \in armed :
             /\ \A d \in armed : Remaining(c) <= Remaining(d)
             /\ timed' = TRUE
             /\ waitLeft' = Remaining(c)
    /\ worker' = "wait"
    /\ UNCHANGED <<now, inited, manager, calloutList, active, deadline, due,
                   stepped, queue, got, left, budget>>

\* The wait ends at its deadline.
WaitExpires ==
    /\ worker = "wait"
    /\ timed
    /\ waitLeft <= 0
    /\ LeaveWait
    /\ UNCHANGED <<now, left, inited, manager, calloutList, active, deadline,
                   due, queue, got, budget>>

\* A condition wait may also return without a signal.
SpuriousWakeup ==
    /\ worker = "wait"
    /\ LeaveWait
    /\ UNCHANGED <<now, left, inited, manager, calloutList, active, deadline,
                   due, queue, got, budget>>

\* The claimed callout has a queue: its event goes there, unless it is there
\* already.
FireToQueue ==
    /\ worker = "fire"
    /\ due \in Queued
    /\ \/ Eventq!AbsPut(due)
       \/ due \in Eventq!Elems(queue) /\ UNCHANGED <<queue, got>>
    /\ worker' = "scan"
    /\ due' = NULL
    /\ UNCHANGED <<clocks, inited, manager, calloutList, active, deadline,
                   timed, budget>>

\* The claimed callout has none: the worker runs the handler itself ...
FireRuns ==
    /\ worker = "fire"
    /\ due \notin Queued
    /\ worker' = "running"
    /\ budget' = [budget EXCEPT ![due] = @ - 1]
    /\ UNCHANGED <<clocks, inited, manager, calloutList, active, deadline, due,
                   timed, queue, got>>

\* ... and goes on when the handler returns.
HandlerReturns ==
    /\ worker = "running"
    /\ worker' = "scan"
    /\ due' = NULL
    /\ UNCHANGED <<clocks, inited, manager, calloutList, active, deadline,
                   timed, queue, got, budget>>

WorkerStep ==
    Claim \/ Sleep \/ WaitExpires \/ FireToQueue \/ FireRuns \/ HandlerReturns

Next ==
    \/ \E c \in Callouts :
        \/ CalloutInit(c)
        \/ \E ticks \in TicksArgs : Reset(c, ticks)
        \/ Stop(c)
        \/ RemoveEvent(c)
    \/ HostRuns
    \/ WorkerStep
    \/ SpuriousWakeup
    \/ Tick
    \/ \E d \in RealtimeSteps : RealtimeSet(d)

Spec == Init /\ [][Next]_vars

\* The clock runs, the worker and the host task are scheduled, and the
\* handlers return.
FairSpec == Spec /\ WF_vars(Tick) /\ WF_vars(WorkerStep) /\ WF_vars(HostRuns)

-----------------------------------------------------------------------------
(* Properties.                                                             *)

\* The worker never claims a callout before its time, even one that is reset
\* while the worker waits or fires another.
NeverEarly ==
    [][\A c \in Callouts :
        worker = "scan" /\ worker' = "fire" /\ due' = c => left[c] <= 0]_vars

\* While the worker sleeps, its wait ends no later than the earliest deadline
\* of an armed callout: no reset goes unnoticed.  A setting of CLOCK_REALTIME
\* can move the end of the wait, and nothing else can; the wait has one anyhow.
\* ble_npl_callout_remaining_ticks tells the same time meanwhile, across the
\* wrap-around of the clock: the one really left, or 0 for one overdue.
WaitCoversEarliest ==
    \A c \in Active :
        /\ worker = "wait" => timed /\ (stepped \/ waitLeft <= left[c])
        /\ RemainingTicks(c) = (IF left[c] > 0 THEN left[c] ELSE 0)

\* The handler runs at most once for each arming: after a stop only the runs
\* that were under way at that moment can still happen, after a reset one more.
RunsAccountedFor ==
    \A c \in Callouts : Pending(c) + (IF active[c] THEN 1 ELSE 0) <= budget[c]

\* A callout that is due is claimed (or stopped, or reset) in the end, although
\* the worker takes the first due callout of the list and not the one due
\* longest, and may be asleep when the callout is armed.
DueIsServed ==
    \A c \in Callouts :
        (active[c] /\ left[c] <= 0) ~> ~(active[c] /\ left[c] <= 0)
=============================================================================
