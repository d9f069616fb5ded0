-------------------------- MODULE NplCalloutProofs --------------------------
(***************************************************************************)
(* The callouts of the NimBLE porting layer fire neither early nor more    *)
(* often than they were armed, and the worker's wait ends in time, for any *)
(* set of callouts and any even modulus of the clock. The argument relates *)
(* the deadline of an armed callout to the unbounded time that is left:    *)
(* that is less than half a turn, so the signed difference computes it.    *)
(***************************************************************************)
EXTENDS NplCallout, SequenceTheorems, TLAPS

\* The types of the variables, for proof: waits and budgets are unbounded here.
CalloutTypeOK ==
    /\ now \in 0..(Modulus - 1)
    /\ inited \subseteq Callouts
    /\ manager \in {"none", "failed", "ready"}
    /\ calloutList \in Seq(Callouts)
    /\ active \in [Callouts -> BOOLEAN]
    /\ deadline \in [Callouts -> 0..(Modulus - 1)]
    /\ worker \in {"none", "scan", "fire", "running", "wait"}
    /\ timed \in BOOLEAN /\ waitLeft \in Int /\ stepped \in BOOLEAN
    /\ queue \in Seq(Callouts)
    /\ left \in [Callouts -> Int]
    /\ budget \in [Callouts -> Int]

\* An armed callout is on the list, and its deadline is where the unbounded
\* clock has it, less than half a turn away on either side.
Armed ==
    \A c \in Callouts : active[c] =>
        /\ c \in Eventq!Elems(calloutList)
        /\ left[c] \in -MaxLag..(Half - 1)
        /\ deadline[c] = (now + left[c]) % Modulus

\* The worker exists once the manager is ready, and has a callout to fire.
WorkerFits ==
    /\ manager = "none" => worker = "none"
    /\ worker \in {"fire", "running"} => due \in Callouts

\* An event is on the queue once.
QueuedOnce == \A i, j \in 1..Len(queue) : queue[i] = queue[j] => i = j

\* While the worker sleeps, no armed callout comes before the end of its wait.
WaitFits ==
    \A c \in Callouts :
        active[c] /\ worker = "wait" => timed /\ (stepped \/ waitLeft <= left[c])

\* The inductive invariant.
CalloutInv ==
    /\ CalloutTypeOK /\ Armed /\ WorkerFits /\ QueuedOnce
    /\ WaitFits /\ RunsAccountedFor

\* A value within a turn of the clock, and its remainder.
LEMMA ModIs ==
    ASSUME NEW x \in Int
    PROVE  /\ 0 <= x /\ x < Modulus => x % Modulus = x
           /\ Modulus <= x /\ x < 2 * Modulus => x % Modulus = x - Modulus
           /\ -Modulus <= x /\ x < 0 => x % Modulus = x + Modulus
           /\ x % Modulus \in 0..(Modulus - 1)
BY ModulusAssumption DEF ModulusAssumption

\* The largest interval the signed difference tells from a past one.
LEMMA HalfIs == Half \in Nat /\ 2 * Half = Modulus /\ MaxLag \in Nat /\ MaxLag < Half /\ 1 < Half
BY ModulusAssumption, LagAssumption DEF ModulusAssumption, LagAssumption, Half

\* The signed difference of two clock readings is the true one, less than half a turn.
LEMMA SignedIs ==
    ASSUME NEW n \in 0..(Modulus - 1), NEW l \in Int, -Half < l, l < Half,
           NEW d, d = (n + l) % Modulus
    PROVE  Signed(d - n) = l
<1>1. Modulus \in Nat /\ Modulus > 1 BY ModulusAssumption
<1>2. d = IF n + l < 0 THEN n + l + Modulus
          ELSE IF n + l < Modulus THEN n + l ELSE n + l - Modulus
  <2>1. CASE n + l < 0
    <3>1. -Modulus <= n + l BY <1>1, HalfIs
    <3> QED BY <2>1, <3>1, ModIs
  <2>2. CASE 0 <= n + l /\ n + l < Modulus BY <2>2, ModIs
  <2>3. CASE Modulus <= n + l
    <3>1. n + l < 2 * Modulus BY <1>1, HalfIs
    <3> QED BY <1>1, <2>3, <3>1, ModIs
  <2> QED BY <1>1, <2>1, <2>2, <2>3
<1>3. (d - n) % Modulus = IF l >= 0 THEN l ELSE l + Modulus
  <2>1. d - n \in {l, l + Modulus, l - Modulus} /\ d - n \in Int /\ d \in 0..(Modulus - 1)
    BY <1>1, <1>2, ModIs
  <2>2. CASE d - n = l
    <3>1. CASE l >= 0
      <4>1. 0 <= d - n /\ d - n < Modulus BY <2>2, <3>1, <1>1, HalfIs
      <4> QED BY <2>1, <2>2, <3>1, <4>1, ModIs
    <3>2. CASE l < 0
      <4>1. -Modulus <= d - n /\ d - n < 0 BY <2>2, <3>2, <1>1, HalfIs
      <4> QED BY <2>1, <2>2, <3>2, <4>1, ModIs
    <3> QED BY <3>1, <3>2
  <2>3. CASE d - n = l + Modulus
    <3>1. l < 0 /\ 0 <= d - n /\ d - n < Modulus BY <1>1, <2>1, <2>3, HalfIs
    <3> QED BY <2>1, <2>3, <3>1, ModIs
  <2>4. CASE d - n = l - Modulus
    <3>1. l >= 0 /\ -Modulus <= d - n /\ d - n < 0 BY <1>1, <2>1, <2>4, HalfIs
    <3> QED BY <1>1, <2>1, <2>4, <3>1, ModIs
  <2> QED BY <2>1, <2>2, <2>3, <2>4
<1> QED BY <1>1, <1>3, HalfIs DEF Signed

\* What the worker computes for an armed callout is the time that is really left.
LEMMA RemainingIsLeft ==
    ASSUME CalloutTypeOK, Armed, NEW c \in Callouts, active[c]
    PROVE  Remaining(c) = left[c]
<1>1. left[c] \in Int /\ -Half < left[c] /\ left[c] < Half
  BY HalfIs DEF Armed, CalloutTypeOK
<1> QED BY <1>1, SignedIs DEF Armed, CalloutTypeOK, Remaining

\* The invariant implies what the run checks of the wait.
LEMMA InvGives == ASSUME CalloutInv PROVE WaitCoversEarliest
<1> SUFFICES ASSUME NEW c \in Active
             PROVE  /\ worker = "wait" => timed /\ (stepped \/ waitLeft <= left[c])
                    /\ RemainingTicks(c) = (IF left[c] > 0 THEN left[c] ELSE 0)
  BY DEF WaitCoversEarliest
<1>1. c \in Callouts /\ active[c] BY DEF Active
<1> QED BY <1>1, RemainingIsLeft DEF CalloutInv, WaitFits, RemainingTicks

\* The events on a queue.
LEMMA ElemsAre == \A s, x : x \in Eventq!Elems(s) <=> \E i \in 1..Len(s) : s[i] = x
BY DEF Eventq!Elems

\* A millisecond: the deadlines stay and are one tick nearer, also where the clock
\* comes around.
LEMMA TurnOfClock ==
    ASSUME NEW n \in 0..(Modulus - 1), NEW l \in Int, -Half < l, l <= Half
    PROVE  (((n + 1) % Modulus) + (l - 1)) % Modulus = (n + l) % Modulus
<1>1. Modulus \in Nat /\ Modulus > 1 BY ModulusAssumption
<1>2. CASE n + 1 < Modulus
  <2>1. (n + 1) % Modulus = n + 1 BY <1>2, ModIs
  <2>2. n + 1 + (l - 1) = n + l OBVIOUS
  <2> QED BY <2>1, <2>2
<1>3. CASE n + 1 = Modulus
  <2>1. (n + 1) % Modulus = 0
    BY <1>1, <1>3, ModIs
  <2>2. l - 1 \in Int /\ -Modulus <= l - 1 /\ l - 1 < Modulus /\ n + l = l - 1 + Modulus
    BY <1>1, <1>3, HalfIs
  <2>3. (l - 1) % Modulus = IF l - 1 < 0 THEN l - 1 + Modulus ELSE l - 1
    BY <2>2, ModIs
  <2>4. (n + l) % Modulus = IF l - 1 < 0 THEN l - 1 + Modulus ELSE l - 1
    <3>1. CASE l - 1 < 0
      <4>1. 0 <= n + l /\ n + l < Modulus BY <2>2, <3>1, <1>1
      <4> QED BY <2>2, <3>1, <4>1, ModIs
    <3>2. CASE l - 1 >= 0
      <4>1. Modulus <= n + l /\ n + l < 2 * Modulus BY <2>2, <3>2, <1>1
      <4> QED BY <1>1, <2>2, <3>2, <4>1, ModIs
    <3> QED BY <2>2, <3>1, <3>2
  <2>5. 0 + (l - 1) = l - 1 OBVIOUS
  <2> QED BY <2>1, <2>3, <2>4, <2>5
<1> QED BY <1>1, <1>2, <1>3

\* A millisecond keeps the invariant.
LEMMA TickKeeps == ASSUME CalloutInv, Tick PROVE CalloutInv'
<1> USE DEF CalloutInv
<1>1. /\ now' = (now + 1) % Modulus
      /\ \A c \in Callouts : left'[c] = IF active[c] THEN left[c] - 1 ELSE left[c]
      /\ \A c \in Callouts : active[c] => left[c] > -MaxLag
      /\ left' = [c \in Callouts |-> IF active[c] THEN left[c] - 1 ELSE left[c]]
      /\ waitLeft' = IF worker = "wait" /\ timed THEN waitLeft - 1 ELSE waitLeft
      /\ UNCHANGED <<inited, manager, calloutList, active, deadline, worker, due, timed,
                     stepped, queue, got, budget>>
  BY DEF Tick, Active, workerVars
<1>2. CalloutTypeOK'
  <2>1. now' \in 0..(Modulus - 1) BY <1>1, ModIs DEF CalloutTypeOK
  <2>2. left' \in [Callouts -> Int] BY <1>1 DEF CalloutTypeOK
  <2>3. waitLeft' \in Int BY <1>1 DEF CalloutTypeOK
  <2> QED BY <1>1, <2>1, <2>2, <2>3 DEF CalloutTypeOK
<1>3. Armed'
  <2> SUFFICES ASSUME NEW c \in Callouts, active[c]
               PROVE  /\ left'[c] \in -MaxLag..(Half - 1)
                      /\ deadline[c] = (now' + left'[c]) % Modulus
    BY <1>1 DEF Armed
  <2>1. /\ left[c] \in Int /\ left[c] > -MaxLag /\ left[c] <= Half - 1
        /\ left'[c] = left[c] - 1 /\ deadline[c] = (now + left[c]) % Modulus
    BY <1>1, HalfIs DEF Armed, CalloutTypeOK
  <2>2. -Half < left[c] /\ left[c] <= Half BY <2>1, HalfIs
  <2>3. (now' + left'[c]) % Modulus = (now + left[c]) % Modulus
    BY <1>1, <2>1, <2>2, TurnOfClock DEF CalloutTypeOK
  <2>4. left'[c] \in -MaxLag..(Half - 1) BY <2>1, HalfIs
  <2> QED BY <2>1, <2>3, <2>4
<1>4. WorkerFits' BY <1>1 DEF WorkerFits
<1>5. QueuedOnce' BY <1>1 DEF QueuedOnce
<1>6. WaitFits' BY <1>1 DEF WaitFits, CalloutTypeOK
<1>7. RunsAccountedFor' BY <1>1 DEF RunsAccountedFor, Pending, InFlight
<1> QED BY <1>2, <1>3, <1>4, <1>5, <1>6, <1>7

\* Steps that leave clocks, armings and deadlines alone.
LEMMA ArmedKept ==
    ASSUME CalloutInv, UNCHANGED <<now, calloutList, deadline>>,
           \A c \in Callouts : active'[c] => active[c] /\ left'[c] = left[c]
    PROVE  Armed'
BY DEF CalloutInv, Armed

\* Setting the realtime clock changes the wait alone.
LEMMA RealtimeKeeps ==
    ASSUME CalloutInv, NEW d \in RealtimeSteps, RealtimeSet(d) PROVE CalloutInv'
<1> USE DEF CalloutInv
<1>1. /\ waitLeft' = d /\ stepped' = TRUE /\ worker = "wait" /\ timed
      /\ UNCHANGED <<now, inited, manager, calloutList, active, deadline, worker, due, timed,
                     queue, got, left, budget>>
  BY DEF RealtimeSet, workerVars
<1>2. d \in Int BY StepsAssumption DEF StepsAssumption
<1>3. CalloutTypeOK' BY <1>1, <1>2 DEF CalloutTypeOK
<1>4. Armed' BY <1>1, ArmedKept
<1>5. WorkerFits' BY <1>1 DEF WorkerFits
<1>6. QueuedOnce' BY <1>1 DEF QueuedOnce
<1>7. WaitFits' BY <1>1 DEF WaitFits
<1>8. RunsAccountedFor' BY <1>1 DEF RunsAccountedFor, Pending, InFlight
<1> QED BY <1>3, <1>4, <1>5, <1>6, <1>7, <1>8

\* ble_npl_callout_init, with or without the manager.
LEMMA CalloutInitKeeps ==
    ASSUME CalloutInv, NEW c \in Callouts, CalloutInit(c) PROVE CalloutInv'
<1> USE DEF CalloutInv
<1>1. /\ inited' = inited \cup {c}
      /\ UNCHANGED <<now, calloutList, active, deadline, due, timed, waitLeft, stepped,
                     queue, got, left, budget>>
      /\ manager' \in {"failed", "ready"} \/ manager' = manager
      /\ worker' = worker \/ (worker = "none" /\ worker' = "scan" /\ manager' = "ready")
      /\ manager' = "none" => manager = "none" /\ worker' = worker
  BY DEF CalloutInit, clocks, wait, WorkerFits
<1>2. CalloutTypeOK' BY <1>1 DEF CalloutTypeOK
<1>3. Armed' BY <1>1, ArmedKept
<1>4. WorkerFits' BY <1>1 DEF WorkerFits
<1>5. QueuedOnce' BY <1>1 DEF QueuedOnce
<1>6. WaitFits' BY <1>1 DEF WaitFits
<1>7. RunsAccountedFor' BY <1>1 DEF RunsAccountedFor, Pending, InFlight
<1> QED BY <1>2, <1>3, <1>4, <1>5, <1>6, <1>7

\* The signal gets the worker out of its wait.
LEMMA SignalDoes ==
    ASSUME CalloutInv, SignalWorker
    PROVE  /\ worker' # "wait" /\ worker' \in {"none", "scan", "fire", "running", "wait"}
           /\ timed' \in BOOLEAN /\ waitLeft' \in Int /\ stepped' \in BOOLEAN
           /\ worker' \in {"fire", "running"} <=> worker \in {"fire", "running"}
           /\ worker' = "fire" <=> worker = "fire"
           /\ worker' = "none" <=> worker = "none"
<1> USE DEF CalloutInv, CalloutTypeOK
<1>1. CASE worker = "wait" /\ LeaveWait
  <2>1. timed' = FALSE /\ stepped' = FALSE /\ waitLeft' = 0 /\ worker' = "scan"
    BY <1>1 DEF LeaveWait
  <2>2. timed' \in BOOLEAN /\ stepped' \in BOOLEAN BY <2>1
  <2> QED BY <1>1, <2>1, <2>2
<1>2. CASE worker # "wait" /\ UNCHANGED <<worker, timed, wait>>
  BY <1>2 DEF wait
<1> QED BY <1>1, <1>2 DEF SignalWorker

\* ble_npl_callout_reset, whose signal ends a wait that is now too long.
LEMMA ResetKeeps ==
    ASSUME CalloutInv, NEW c \in Callouts, NEW ticks \in TicksArgs, Reset(c, ticks)
    PROVE  CalloutInv'
<1> USE DEF CalloutInv
<1> DEFINE n == AtLeastOne(ticks)
<1>1. n \in Nat /\ n <= Half - 1 /\ n \in -MaxLag..(Half - 1) /\ n \in Int
  BY TicksAssumption, HalfIs DEF TicksAssumption, AtLeastOne
<1>2. /\ manager = "ready" /\ calloutList' = Listed(c)
      /\ deadline' = [deadline EXCEPT ![c] = (now + n) % Modulus]
      /\ left' = [left EXCEPT ![c] = n]
      /\ active' = [active EXCEPT ![c] = TRUE]
      /\ budget' = [budget EXCEPT ![c] = Pending(c) + 1]
      /\ SignalWorker
      /\ UNCHANGED <<now, inited, manager, due, queue, got>>
  BY DEF Reset, DeadlineIn
<1> HIDE DEF n
<1>3. /\ calloutList' \in Seq(Callouts)
      /\ c \in Eventq!Elems(calloutList')
      /\ \A x \in Eventq!Elems(calloutList) : x \in Eventq!Elems(calloutList')
  <2>1. CASE c \in Eventq!Elems(calloutList)
    BY <1>2, <2>1 DEF Listed, CalloutTypeOK
  <2>2. CASE c \notin Eventq!Elems(calloutList)
    <3>1. calloutList' = <<c>> \o calloutList BY <1>2, <2>2 DEF Listed
    <3>2. <<c>> \in Seq(Callouts) /\ Len(<<c>>) = 1 /\ <<c>>[1] = c OBVIOUS
    <3>3. /\ calloutList' \in Seq(Callouts) /\ Len(calloutList) \in Nat
          /\ Len(calloutList') = Len(calloutList) + 1
          /\ calloutList'[1] = c
          /\ \A i \in 1..Len(calloutList) : calloutList'[i + 1] = calloutList[i]
      BY <3>1, <3>2 DEF CalloutTypeOK
    <3>4. \A i \in 1..Len(calloutList) : i + 1 \in 1..Len(calloutList') BY <3>3
    <3>5. 1 \in 1..Len(calloutList') BY <3>3
    <3> QED BY <3>3, <3>4, <3>5, ElemsAre
  <2> QED BY <2>1, <2>2
<1>4. Pending(c) \in Int BY DEF Pending
<1>5. CalloutTypeOK'
  <2>1. (now + n) % Modulus \in 0..(Modulus - 1)
    <3>1. now + n \in Int BY <1>1 DEF CalloutTypeOK
    <3> QED BY <3>1, ModIs
  <2>2. /\ deadline' \in [Callouts -> 0..(Modulus - 1)] /\ left' \in [Callouts -> Int]
        /\ active' \in [Callouts -> BOOLEAN] /\ budget' \in [Callouts -> Int]
    BY <1>1, <1>2, <1>4, <2>1 DEF CalloutTypeOK
  <2> QED BY <1>2, <1>3, <2>2, SignalDoes DEF CalloutTypeOK
<1>6. Armed'
  <2>1. ASSUME NEW x \in Callouts, active'[x]
        PROVE  /\ x \in Eventq!Elems(calloutList')
               /\ left'[x] \in -MaxLag..(Half - 1)
               /\ deadline'[x] = (now + left'[x]) % Modulus
    <3>1. CASE x = c BY <1>1, <1>2, <1>3, <3>1 DEF CalloutTypeOK
    <3>2. CASE x # c BY <1>2, <1>3, <2>1, <3>2 DEF CalloutTypeOK, Armed
    <3> QED BY <3>1, <3>2
  <2> QED BY <1>2, <2>1 DEF Armed
<1>7. WorkerFits' BY <1>2, SignalDoes DEF WorkerFits
<1>8. QueuedOnce' BY <1>2 DEF QueuedOnce
<1>9. WaitFits' BY <1>2, SignalDoes DEF WaitFits
<1>10. RunsAccountedFor'
  <2>1. \A x \in Callouts : Pending(x)' = Pending(x)
    BY <1>2, SignalDoes DEF Pending, InFlight
  <2>2. \A x \in Callouts : x # c => budget'[x] = budget[x] /\ active'[x] = active[x]
    BY <1>2 DEF CalloutTypeOK
  <2>3. budget'[c] = Pending(c) + 1 BY <1>2 DEF CalloutTypeOK
  <2> QED BY <1>4, <2>1, <2>2, <2>3 DEF RunsAccountedFor
<1> QED BY <1>5, <1>6, <1>7, <1>8, <1>9, <1>10

\* ble_npl_callout_stop.
LEMMA StopKeeps ==
    ASSUME CalloutInv, NEW c \in Callouts, Stop(c)
    PROVE  CalloutInv'
<1> USE DEF CalloutInv
<1>1. /\ left' = [left EXCEPT ![c] = 0]
      /\ active' = [active EXCEPT ![c] = FALSE]
      /\ budget' = [budget EXCEPT ![c] = Pending(c)]
      /\ SignalWorker
      /\ UNCHANGED <<now, inited, manager, calloutList, deadline, due, queue, got>>
  BY DEF Stop
<1>2. Pending(c) \in Int BY DEF Pending
<1>3. CalloutTypeOK'
  <2>1. /\ left' \in [Callouts -> Int]
        /\ active' \in [Callouts -> BOOLEAN] /\ budget' \in [Callouts -> Int]
    BY <1>1, <1>2 DEF CalloutTypeOK
  <2> QED BY <1>1, <2>1, SignalDoes DEF CalloutTypeOK
<1>4. Armed' BY <1>1, ArmedKept DEF CalloutTypeOK
<1>5. WorkerFits' BY <1>1, SignalDoes DEF WorkerFits
<1>6. QueuedOnce' BY <1>1 DEF QueuedOnce
<1>7. WaitFits' BY <1>1, SignalDoes DEF WaitFits
<1>8. RunsAccountedFor'
  <2>1. \A x \in Callouts : Pending(x)' = Pending(x)
    BY <1>1, SignalDoes DEF Pending, InFlight
  <2>2. \A x \in Callouts : x # c => budget'[x] = budget[x] /\ active'[x] = active[x]
    BY <1>1 DEF CalloutTypeOK
  <2>3. budget'[c] = Pending(c) /\ ~active'[c] BY <1>1 DEF CalloutTypeOK
  <2> QED BY <1>2, <2>1, <2>2, <2>3 DEF RunsAccountedFor
<1> QED BY <1>3, <1>4, <1>5, <1>6, <1>7, <1>8

\* What an event off the queue leaves.
LEMMA TakenOff ==
    ASSUME CalloutInv, NEW k \in 1..Len(queue), NEW s \in Seq(Callouts),
           Len(s) = Len(queue) - 1,
           \A i \in 1..Len(s) : s[i] = IF i < k THEN queue[i] ELSE queue[i + 1]
    PROVE  /\ \A i, j \in 1..Len(s) : s[i] = s[j] => i = j
           /\ \A x : x \in Eventq!Elems(s) <=> x \in Eventq!Elems(queue) /\ x # queue[k]
<1>1. queue \in Seq(Callouts) /\ Len(queue) \in Nat /\ Len(queue) - 1 \in Nat
  <2>1. queue \in Seq(Callouts) BY DEF CalloutInv, CalloutTypeOK
  <2>2. Len(queue) \in Nat BY <2>1
  <2>3. Len(queue) - 1 \in Nat BY <2>2
  <2> QED BY <2>1, <2>2, <2>3
<1>2. QueuedOnce BY DEF CalloutInv
<1>3. Len(s) = Len(queue) - 1 OBVIOUS
<1>4. \A i \in 1..Len(s) : s[i] = IF i < k THEN queue[i] ELSE queue[i + 1] OBVIOUS
<1>5. \A i, j \in 1..Len(s) : s[i] = s[j] => i = j
  BY <1>1, <1>2, <1>3, <1>4 DEF QueuedOnce
<1>6. ASSUME NEW x, x \in Eventq!Elems(s) PROVE x \in Eventq!Elems(queue) /\ x # queue[k]
  <2>1. PICK i \in 1..Len(s) : s[i] = x BY <1>6, ElemsAre
  <2>2. PICK j \in 1..Len(queue) : j # k /\ queue[j] = x BY <1>1, <1>3, <1>4, <2>1
  <2> QED BY <1>2, <2>2, ElemsAre DEF QueuedOnce
<1>7. ASSUME NEW x, x \in Eventq!Elems(queue), x # queue[k] PROVE x \in Eventq!Elems(s)
  <2>1. PICK j \in 1..Len(queue) : queue[j] = x BY <1>7, ElemsAre
  <2>2. j # k BY <1>7, <2>1
  <2>3. CASE j < k
    <3>1. j \in 1..Len(s) /\ s[j] = x BY <1>1, <1>3, <1>4, <2>1, <2>3
    <3> QED BY <3>1, ElemsAre
  <2>4. CASE j > k
    <3>1. j - 1 \in 1..Len(s) /\ s[j - 1] = x BY <1>1, <1>3, <1>4, <2>1, <2>4
    <3> QED BY <3>1, ElemsAre
  <2> QED BY <1>1, <2>2, <2>3, <2>4
<1> QED BY <1>5, <1>6, <1>7

\* ble_npl_eventq_remove of a callout event.
LEMMA RemoveKeeps ==
    ASSUME CalloutInv, NEW c \in Callouts, RemoveEvent(c) PROVE CalloutInv'
<1> USE DEF CalloutInv
<1>1. UNCHANGED <<now, inited, manager, calloutList, active, deadline, worker, due, timed,
                  waitLeft, stepped, left, budget>>
  BY DEF RemoveEvent, clocks, wait, workerVars
<1>2. PICK k \in 1..Len(queue) :
        queue' = [i \in 1..(Len(queue) - 1) |-> IF i < k THEN queue[i] ELSE queue[i + 1]]
  BY DEF RemoveEvent, Eventq!AbsRemove, Eventq!Without
<1>3. /\ queue' \in Seq(Callouts)
      /\ \A i, j \in 1..Len(queue') : queue'[i] = queue'[j] => i = j
      /\ \A x : x \in Eventq!Elems(queue') => x \in Eventq!Elems(queue)
  <2>1. PICK s : s = queue' OBVIOUS
  <2>2. /\ queue \in Seq(Callouts) /\ Len(queue) \in Nat /\ Len(queue) - 1 \in Nat
        /\ \A j \in 1..Len(queue) : queue[j] \in Callouts
    <3>1. queue \in Seq(Callouts) BY DEF CalloutTypeOK
    <3> HIDE DEF CalloutInv
    <3>2. Len(queue) \in Nat /\ \A j \in 1..Len(queue) : queue[j] \in Callouts BY <3>1
    <3>3. Len(queue) - 1 \in Nat BY <3>2
    <3> QED BY <3>1, <3>2, <3>3
  <2>3. Len(queue) - 1 \in Nat /\ \A i \in 1..(Len(queue) - 1) :
          (IF i < k THEN queue[i] ELSE queue[i + 1]) \in Callouts
    <3> HIDE DEF CalloutInv
    <3> SUFFICES ASSUME NEW i \in 1..(Len(queue) - 1)
                 PROVE  (IF i < k THEN queue[i] ELSE queue[i + 1]) \in Callouts
      BY <2>2
    <3>1. i \in 1..Len(queue) /\ i + 1 \in 1..Len(queue) BY <2>2
    <3> QED BY <2>2, <3>1
  <2>4. s \in Seq(Callouts) /\ Len(s) = Len(queue) - 1
    BY <1>2, <2>1, <2>3
  <2>5. \A i \in 1..Len(s) : s[i] = IF i < k THEN queue[i] ELSE queue[i + 1]
    BY <1>2, <2>1, <2>3, <2>4
  <2> HIDE DEF CalloutInv
  <2>6. /\ \A i, j \in 1..Len(s) : s[i] = s[j] => i = j
        /\ \A x : x \in Eventq!Elems(s) => x \in Eventq!Elems(queue)
    BY <2>4, <2>5, TakenOff
  <2> QED BY <2>1, <2>4, <2>6
<1>4. CalloutTypeOK' BY <1>1, <1>3 DEF CalloutTypeOK
<1>5. Armed' BY <1>1, ArmedKept
<1>6. WorkerFits' BY <1>1 DEF WorkerFits
<1>7. QueuedOnce' BY <1>3 DEF QueuedOnce
<1>8. WaitFits' BY <1>1 DEF WaitFits
<1>9. RunsAccountedFor'
  <2>1. \A x \in Callouts : budget[x] \in Int BY DEF CalloutTypeOK
  <2> QED BY <1>1, <1>3, <2>1 DEF RunsAccountedFor, Pending, InFlight
<1> QED BY <1>4, <1>5, <1>6, <1>7, <1>8, <1>9

\* The host takes an event off its queue and runs it.
LEMMA HostKeeps == ASSUME CalloutInv, HostRuns PROVE CalloutInv'
<1> USE DEF CalloutInv
<1>1. /\ queue # <<>> /\ queue' = Tail(queue)
      /\ budget' = [budget EXCEPT ![Head(queue)] = @ - 1]
      /\ UNCHANGED <<now, inited, manager, calloutList, active, deadline, worker, due, timed,
                     waitLeft, stepped, left>>
  BY DEF HostRuns, Eventq!AbsGet, clocks, wait, workerVars
<1>2. 1 \in 1..Len(queue) /\ Head(queue) = queue[1] /\ queue[1] \in Callouts
  BY <1>1 DEF CalloutTypeOK
<1>3. /\ queue' \in Seq(Callouts) /\ Len(queue') = Len(queue) - 1
      /\ \A i \in 1..Len(queue') : queue'[i] = IF i < 1 THEN queue[i] ELSE queue[i + 1]
  BY <1>1 DEF CalloutTypeOK
<1>4. /\ queue' \in Seq(Callouts)
      /\ \A i, j \in 1..Len(queue') : queue'[i] = queue'[j] => i = j
      /\ \A x : x \in Eventq!Elems(queue') <=> x \in Eventq!Elems(queue) /\ x # queue[1]
  <2>1. PICK s : s = queue' OBVIOUS
  <2> HIDE DEF CalloutInv
  <2>2. /\ \A i, j \in 1..Len(s) : s[i] = s[j] => i = j
        /\ \A x : x \in Eventq!Elems(s) <=> x \in Eventq!Elems(queue) /\ x # queue[1]
    BY <1>2, <1>3, <2>1, TakenOff
  <2> QED BY <1>3, <2>1, <2>2
<1>5. \A x \in Callouts : budget'[x] = IF x = queue[1] THEN budget[x] - 1 ELSE budget[x]
  BY <1>1, <1>2 DEF CalloutTypeOK
<1>6. CalloutTypeOK'
  <2>1. budget' \in [Callouts -> Int] BY <1>1, <1>2 DEF CalloutTypeOK
  <2> QED BY <1>1, <1>3, <2>1 DEF CalloutTypeOK
<1>7. Armed' BY <1>1, ArmedKept
<1>8. WorkerFits' BY <1>1 DEF WorkerFits
<1>9. QueuedOnce' BY <1>4 DEF QueuedOnce
<1>10. WaitFits' BY <1>1 DEF WaitFits
<1>11. RunsAccountedFor'
  <2>1. queue[1] \in Eventq!Elems(queue) BY <1>2, ElemsAre
  <2>2. \A x \in Callouts : budget[x] \in Int BY DEF CalloutTypeOK
  <2> QED BY <1>1, <1>4, <1>5, <2>1, <2>2 DEF RunsAccountedFor, Pending, InFlight
<1> QED BY <1>6, <1>7, <1>8, <1>9, <1>10, <1>11

\* The callout that is claimed is due.
LEMMA ClaimFacts ==
    ASSUME CalloutInv, Claim
    PROVE  /\ due' \in Callouts /\ active[due'] /\ left[due'] <= 0
           /\ active' = [active EXCEPT ![due'] = FALSE]
           /\ left' = [left EXCEPT ![due'] = 0]
           /\ worker = "scan" /\ worker' = "fire"
           /\ UNCHANGED <<now, waitLeft, stepped, inited, manager, calloutList, deadline, timed,
                          queue, got, budget>>
<1>1. PICK i \in DueAt :
        /\ due' = calloutList[i] /\ active' = Disarmed(calloutList[i])
        /\ left' = [left EXCEPT ![calloutList[i]] = 0]
  BY DEF Claim
<1>2. /\ i \in 1..Len(calloutList) /\ active[calloutList[i]]
      /\ Remaining(calloutList[i]) <= 0
  BY DEF DueAt
<1>3. calloutList[i] \in Callouts BY <1>2 DEF CalloutInv, CalloutTypeOK
<1>4. left[calloutList[i]] <= 0
  BY <1>2, <1>3, RemainingIsLeft DEF CalloutInv
<1> QED BY <1>1, <1>2, <1>3, <1>4 DEF Claim, Disarmed, wait

\* The worker takes the first due callout.
LEMMA ClaimKeeps == ASSUME CalloutInv, Claim PROVE CalloutInv'
<1> USE DEF CalloutInv
<1>1. PICK d \in Callouts : d = due' BY ClaimFacts
<1>2. /\ active[d] /\ due' = d
      /\ active' = [active EXCEPT ![d] = FALSE] /\ left' = [left EXCEPT ![d] = 0]
      /\ worker = "scan" /\ worker' = "fire"
      /\ UNCHANGED <<now, waitLeft, stepped, inited, manager, calloutList, deadline, timed,
                     queue, got, budget>>
  BY <1>1, ClaimFacts
<1>3. CalloutTypeOK' BY <1>2 DEF CalloutTypeOK
<1>4. Armed' BY <1>2, ArmedKept DEF CalloutTypeOK
<1>5. WorkerFits' BY <1>2 DEF WorkerFits
<1>6. QueuedOnce' BY <1>2 DEF QueuedOnce
<1>7. WaitFits' BY <1>2 DEF WaitFits
<1>8. RunsAccountedFor'
  <2>1. \A x \in Callouts : x # d => active'[x] = active[x] BY <1>2 DEF CalloutTypeOK
  <2>2. ~active'[d] BY <1>2 DEF CalloutTypeOK
  <2>3. \A x \in Callouts : budget[x] \in Int BY DEF CalloutTypeOK
  <2> QED BY <1>2, <2>1, <2>2, <2>3 DEF RunsAccountedFor, Pending, InFlight
<1> QED BY <1>3, <1>4, <1>5, <1>6, <1>7, <1>8

\* The worker waits for the earliest callout: none is armed off the list.
LEMMA SleepKeeps == ASSUME CalloutInv, Sleep PROVE CalloutInv'
<1> USE DEF CalloutInv
<1> DEFINE armed == {c \in Eventq!Elems(calloutList) : active[c]}
<1>1. /\ worker = "scan" /\ worker' = "wait"
      /\ UNCHANGED <<now, inited, manager, calloutList, active, deadline, due, stepped, queue,
                     got, left, budget>>
      /\ \/ armed = {} /\ timed' = FALSE /\ waitLeft' = waitLeft
         \/ \E c \in armed : /\ \A d \in armed : Remaining(c) <= Remaining(d)
                             /\ timed' = TRUE /\ waitLeft' = Remaining(c)
  BY DEF Sleep
<1>2. \A c \in armed : c \in Callouts /\ active[c] /\ Remaining(c) = left[c] /\ left[c] \in Int
  <2>1. \A i \in 1..Len(calloutList) : calloutList[i] \in Callouts BY DEF CalloutTypeOK
  <2>2. \A c \in armed : c \in Callouts /\ active[c] BY <2>1, ElemsAre
  <2> QED BY <2>2, RemainingIsLeft DEF CalloutTypeOK
<1>3. \A c \in Callouts : active[c] => c \in armed BY DEF Armed
<1> HIDE DEF armed
<1>4. timed' \in BOOLEAN /\ waitLeft' \in Int BY <1>1, <1>2 DEF CalloutTypeOK
<1>5. CalloutTypeOK' BY <1>1, <1>4 DEF CalloutTypeOK
<1>6. Armed' BY <1>1, ArmedKept
<1>7. WorkerFits' BY <1>1 DEF WorkerFits
<1>8. QueuedOnce' BY <1>1 DEF QueuedOnce
<1>9. WaitFits' BY <1>1, <1>2, <1>3 DEF WaitFits
<1>10. RunsAccountedFor' BY <1>1 DEF RunsAccountedFor, Pending, InFlight
<1> QED BY <1>5, <1>6, <1>7, <1>8, <1>9, <1>10

\* The worker scans again.
LEMMA WakeKeeps ==
    ASSUME CalloutInv, WaitExpires \/ SpuriousWakeup \/ HandlerReturns PROVE CalloutInv'
<1> USE DEF CalloutInv
<1>1. /\ worker \in {"wait", "running"} /\ worker' = "scan"
      /\ UNCHANGED <<now, left, inited, manager, calloutList, active, deadline, queue, got,
                     budget>>
      /\ timed' \in BOOLEAN /\ waitLeft' \in Int /\ stepped' \in BOOLEAN
  <2>1. CASE WaitExpires \/ SpuriousWakeup
    <3>1. timed' = FALSE /\ stepped' = FALSE /\ waitLeft' = 0
      BY <2>1 DEF WaitExpires, SpuriousWakeup, LeaveWait
    <3>2. timed' \in BOOLEAN /\ stepped' \in BOOLEAN BY <3>1
    <3> QED BY <2>1, <3>1, <3>2 DEF WaitExpires, SpuriousWakeup, LeaveWait
  <2>2. CASE HandlerReturns
    BY <2>2 DEF HandlerReturns, clocks, wait, CalloutTypeOK
  <2> QED BY <2>1, <2>2
<1>2. CalloutTypeOK' BY <1>1 DEF CalloutTypeOK
<1>3. Armed' BY <1>1, ArmedKept
<1>4. WorkerFits' BY <1>1 DEF WorkerFits
<1>5. QueuedOnce' BY <1>1 DEF QueuedOnce
<1>6. WaitFits' BY <1>1 DEF WaitFits
<1>7. RunsAccountedFor' BY <1>1 DEF RunsAccountedFor, Pending, InFlight
<1> QED BY <1>2, <1>3, <1>4, <1>5, <1>6, <1>7

\* The claimed callout is queued once, or its handler runs.
LEMMA FireKeeps == ASSUME CalloutInv, FireToQueue \/ FireRuns PROVE CalloutInv'
<1> USE DEF CalloutInv
<1>1. worker = "fire" /\ due \in Callouts BY DEF FireToQueue, FireRuns, WorkerFits
<1>2. /\ UNCHANGED <<now, left, waitLeft, stepped, inited, manager, calloutList, active,
                     deadline, timed>>
      /\ worker' = "scan" \/ (worker' = "running" /\ due' = due)
  BY DEF FireToQueue, FireRuns, clocks, wait
<1>3. /\ queue' \in Seq(Callouts) /\ budget' \in [Callouts -> Int]
      /\ QueuedOnce' /\ RunsAccountedFor'
  <2>1. CASE FireToQueue
    <3>1. budget' = budget BY <2>1 DEF FireToQueue
    <3>2. /\ queue' \in Seq(Callouts) /\ QueuedOnce'
          /\ \A x : x \in Eventq!Elems(queue') <=> x \in Eventq!Elems(queue) \/ x = due
      <4>1. CASE queue' = queue /\ due \in Eventq!Elems(queue)
        BY <4>1 DEF CalloutTypeOK, QueuedOnce
      <4>2. CASE queue' = Append(queue, due) /\ due \notin Eventq!Elems(queue)
        <5>1. /\ Len(queue) \in Nat /\ Len(queue') = Len(queue) + 1
              /\ queue' \in Seq(Callouts)
              /\ \A i \in 1..Len(queue) : queue'[i] = queue[i]
              /\ queue'[Len(queue) + 1] = due
          BY <1>1, <4>2 DEF CalloutTypeOK
        <5>2. \A i \in 1..Len(queue) : queue[i] # due BY <4>2, ElemsAre
        <5>3. QueuedOnce' BY <5>1, <5>2 DEF QueuedOnce
        <5>4. \A x : x \in Eventq!Elems(queue') <=> x \in Eventq!Elems(queue) \/ x = due
          <6>1. \A x : x \in Eventq!Elems(queue') =>
                         x \in Eventq!Elems(queue) \/ x = due
            BY <5>1, ElemsAre
          <6>2. \A i \in 1..Len(queue) : i \in 1..Len(queue') BY <5>1
          <6>3. Len(queue) + 1 \in 1..Len(queue') BY <5>1
          <6> QED BY <5>1, <6>1, <6>2, <6>3, ElemsAre
        <5> QED BY <5>1, <5>3, <5>4
      <4> QED BY <2>1, <4>1, <4>2 DEF FireToQueue, Eventq!AbsPut
    <3>3. worker' = "scan" BY <2>1 DEF FireToQueue
    <3>4. \A x \in Callouts : budget[x] \in Int BY DEF CalloutTypeOK
    <3>5. RunsAccountedFor'
      BY <1>1, <1>2, <3>1, <3>2, <3>3, <3>4 DEF RunsAccountedFor, Pending, InFlight
    <3> QED BY <3>1, <3>2, <3>5 DEF CalloutTypeOK
  <2>2. CASE FireRuns
    <3>1. queue' = queue /\ worker' = "running" /\ budget' = [budget EXCEPT ![due] = @ - 1]
      BY <2>2 DEF FireRuns
    <3>2. \A x \in Callouts : /\ budget[x] \in Int
                              /\ budget'[x] = IF x = due THEN budget[x] - 1 ELSE budget[x]
      BY <3>1 DEF CalloutTypeOK
    <3>3. RunsAccountedFor'
      BY <1>1, <1>2, <3>1, <3>2 DEF RunsAccountedFor, Pending, InFlight
    <3>4. QueuedOnce' BY <3>1 DEF QueuedOnce
    <3> QED BY <1>1, <3>1, <3>3, <3>4 DEF CalloutTypeOK
  <2> QED BY <2>1, <2>2
<1>4. CalloutTypeOK' BY <1>2, <1>3 DEF CalloutTypeOK
<1>5. Armed' BY <1>2, ArmedKept
<1>6. WorkerFits' BY <1>1, <1>2 DEF WorkerFits
<1>7. WaitFits' BY <1>2 DEF WaitFits
<1> QED BY <1>3, <1>4, <1>5, <1>6, <1>7

\* Every step keeps the invariant.
LEMMA CalloutStep == ASSUME CalloutInv, [Next]_vars PROVE CalloutInv'
<1>1. ASSUME UNCHANGED vars PROVE CalloutInv'
  BY <1>1 DEF vars, CalloutInv, CalloutTypeOK, Armed, WorkerFits, QueuedOnce, WaitFits,
              RunsAccountedFor, Pending, InFlight
<1> QED
  BY <1>1, TickKeeps, RealtimeKeeps, CalloutInitKeeps, ResetKeeps, StopKeeps, RemoveKeeps,
     HostKeeps, ClaimKeeps, SleepKeeps, WakeKeeps, FireKeeps DEF Next, WorkerStep

\* It holds initially.
LEMMA CalloutStarts == Init => CalloutInv
<1> SUFFICES ASSUME Init PROVE CalloutInv OBVIOUS
<1>1. queue = <<>> BY DEF Init, Eventq!AbsInit
<1>2. CalloutTypeOK
  <2>1. 0 \in 0..(Modulus - 1) BY ModulusAssumption DEF ModulusAssumption
  <2>2. timed \in BOOLEAN /\ stepped \in BOOLEAN BY DEF Init
  <2>3. <<>> \in Seq(Callouts) OBVIOUS
  <2>4. active \in [Callouts -> BOOLEAN] BY DEF Init
  <2> QED BY <1>1, <2>1, <2>2, <2>3, <2>4 DEF Init, CalloutTypeOK
<1>3. Armed /\ WorkerFits /\ WaitFits BY DEF Init, Armed, WorkerFits, WaitFits
<1>4. QueuedOnce BY <1>1 DEF QueuedOnce
<1>5. RunsAccountedFor
  <2>1. \A c : c \notin Eventq!Elems(queue) BY <1>1, ElemsAre
  <2> QED BY <2>1 DEF Init, RunsAccountedFor, Pending, InFlight
<1> QED BY <1>2, <1>3, <1>4, <1>5 DEF CalloutInv

\* It holds throughout.
LEMMA CalloutAlways == Spec => []CalloutInv
BY CalloutStarts, CalloutStep, PTL DEF Spec

\* The worker never sleeps past an armed callout, whatever was reset or stopped while
\* it slept, and ble_npl_callout_remaining_ticks tells the time left, also around the
\* wrap of the clock: for any number of callouts and any width of the clock.
THEOREM WaitIsShortEnough == Spec => []WaitCoversEarliest
BY CalloutAlways, InvGives, PTL

\* The handler runs at most once for each reset: after a stop only what was under way
\* at that moment still runs, after a reset one run more, however the host and the
\* worker interleave.
THEOREM RunsCounted == Spec => []RunsAccountedFor
BY CalloutAlways, PTL DEF CalloutInv

\* The worker claims no callout before its time, also where the clock wraps between
\* arming and scan.
THEOREM ClaimsNotEarly == Spec => NeverEarly
<1>1. ASSUME CalloutInv, Next, NEW c \in Callouts, worker = "scan", worker' = "fire", due' = c
      PROVE  left[c] <= 0
  <2>1. Claim
    BY <1>1 DEF Next, WorkerStep, Tick, RealtimeSet, CalloutInit, Reset, Stop, RemoveEvent,
                HostRuns, Sleep, WaitExpires, FireToQueue, FireRuns, HandlerReturns,
                SpuriousWakeup, SignalWorker, LeaveWait, workerVars, CalloutInv, WorkerFits
  <2> QED BY <1>1, <2>1, ClaimFacts
<1>2. CalloutInv /\ [Next]_vars =>
        [\A c \in Callouts : worker = "scan" /\ worker' = "fire" /\ due' = c => left[c] <= 0]_vars
  BY <1>1
<1> QED BY <1>2, CalloutAlways, PTL DEF Spec, NeverEarly
=============================================================================
