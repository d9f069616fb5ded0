-------------------------- MODULE WlanSessionProofs -------------------------
(***************************************************************************)
(* The threads of a session of libwlan_offload keep their request ids      *)
(* apart and their answers, for any number of threads, ids and messages.   *)
(* The argument counts the increments of the counter: a call makes one,    *)
(* the call that draws 0 another, so that the ids drawn in a session are   *)
(* fewer than there are; an id is then told by its age.                    *)
(***************************************************************************)
EXTENDS WlanSession, FiniteSetTheorems, SequenceTheorems, TLAPS

\* The messages between client and kernel.
Message == [type : Queries \cup {"DONE", "FAILED", "EVENT", "BAD"},
            id : 0..Modulus-1, call : Nat]

\* The types of the variables.
SessionTypeOK ==
    /\ open \in BOOLEAN
    /\ nextId \in 0..Modulus-1
    /\ pc \in [Threads -> {"idle", "draw", "redraw", "write", "poll", "read"}]
    /\ op \in [Threads -> Ops]
    /\ id \in [Threads -> 0..Modulus-1]
    /\ call \in [Threads -> Nat]
    /\ res \in [Threads -> {"none", "ok", "EINVAL", "error", "ETIMEDOUT", "EPROTO", "ENOMSG"}]
    /\ taken \in [Threads -> Nat]
    /\ calls \in 0..MaxCalls
    /\ pending \subseteq Message
    /\ queue \in Seq(Message)

\* How many increments ago the counter was x.
Age(x) == IF x <= nextId THEN nextId - x ELSE nextId - x + Modulus

\* The threads with an increment before them.
Drawing == {t \in Threads : pc[t] \in {"draw", "redraw"}}

\* n is the number of increments in this session.  Every call makes one, and one
\* call, the one that draws 0, makes two; nextId < n after that.
Counted(n) ==
    /\ n + Cardinality(Drawing) <= calls + (IF nextId < n THEN 1 ELSE 0)
    /\ \A t \in Threads : pc[t] = "redraw" => nextId < n

\* The ids in use, and those of the queries the kernel knows of, were drawn in
\* this session.
HeldIds(n) ==
    \A t \in Holding :
        /\ id[t] # 0 /\ Age(id[t]) < n
        /\ \A u \in Holding : id[t] = id[u] => t = u

\* The answer to a query has an id of this session, and whoever holds that id is
\* the call it answers.
Past(m, n) ==
    m.type \in Queries =>
        /\ m.id # 0 /\ Age(m.id) < n
        /\ \A t \in Holding : id[t] = m.id => m.call = call[t]

\* That goes for commands the kernel has and for messages it has sent.
Messages(n) ==
    /\ \A m \in pending : Past(m, n)
    /\ \A i \in 1..Len(queue) : Past(queue[i], n)

\* A handle that is closed has no calls and no messages.
Closed ==
    ~open => (\A t \in Threads : pc[t] = "idle") /\ pending = {} /\ queue = <<>>

\* What holds after n increments.
SessionInv(n) ==
    /\ SessionTypeOK /\ Counted(n) /\ HeldIds(n) /\ Messages(n)
    /\ Closed /\ AnswerIsMine


\* The inductive invariant: there is such a number of increments.
SomeInv == \E n \in Nat : SessionInv(n)

\* The counter goes on by one, or around to 0.
LEMMA Around ==
    ASSUME nextId \in 0..Modulus-1
    PROVE  /\ Incremented = IF nextId = Modulus - 1 THEN 0 ELSE nextId + 1
           /\ Incremented \in 0..Modulus-1
BY SessionAssumption DEF SessionAssumption, Incremented

\* With fewer increments than ids, an increment yields an id that is not among the
\* past ones, and makes those older by one.
LEMMA Aging ==
    ASSUME nextId \in 0..Modulus-1, nextId' = Incremented, NEW n \in Nat, n < Modulus
    PROVE  \A x \in 0..Modulus-1 :
             /\ x = nextId' => Age(x)' = 0
             /\ Age(x) < n => Age(x)' < n + 1 /\ x # nextId'
<1> TAKE x \in 0..Modulus-1
<1>1. Modulus \in Nat /\ nextId' = IF nextId = Modulus - 1 THEN 0 ELSE nextId + 1
  BY SessionAssumption, Around DEF SessionAssumption
<1> QED BY <1>1 DEF Age

\* The threads at the counter can be counted.
LEMMA DrawingFinite == IsFiniteSet(Drawing) /\ Cardinality(Drawing) \in Nat
<1>1. Drawing \subseteq Threads BY DEF Drawing
<1> QED BY <1>1, SessionAssumption, FS_Subset, FS_CardinalityType DEF SessionAssumption

\* The same after a step.
LEMMA DrawingStaysFinite == IsFiniteSet(Drawing') /\ Cardinality(Drawing') \in Nat
<1>1. Drawing' \subseteq Threads BY DEF Drawing
<1> QED BY <1>1, SessionAssumption, FS_Subset, FS_CardinalityType DEF SessionAssumption

\* A step that draws no id, and sends nothing but commands of this session, keeps the
\* invariant with the same number of increments.
LEMMA CalmKeeps ==
    ASSUME NEW n \in Nat, SessionInv(n), SessionTypeOK', Closed', AnswerIsMine',
           UNCHANGED nextId,
           Cardinality(Drawing') + calls <= Cardinality(Drawing) + calls',
           \A t \in Threads : pc'[t] = "redraw" => pc[t] = "redraw",
           \A t \in Holding' : t \in Holding /\ id'[t] = id[t] /\ call'[t] = call[t],
           \A m \in pending' : m \in pending \/ Past(m, n)',
           \A i \in 1..Len(queue') :
              \/ \E j \in 1..Len(queue) : queue'[i] = queue[j]
              \/ queue'[i] \in pending
              \/ queue'[i].type \notin Queries
    PROVE  SessionInv(n)'
<1> USE DEF SessionInv
<1>1. \A x : Age(x)' = Age(x) BY DEF Age
<1>2. \A m : Past(m, n) => Past(m, n)' BY <1>1 DEF Past
<1>3. Counted(n)'
  <2>1. /\ calls \in Nat /\ calls' \in Nat /\ nextId \in Nat BY DEF SessionTypeOK
  <2> QED BY <2>1, DrawingFinite, DrawingStaysFinite DEF Counted
<1>4. HeldIds(n)' BY <1>1 DEF HeldIds
<1>5. Messages(n)'
  <2>1. \A m \in pending' : Past(m, n)' BY <1>2 DEF Messages
  <2>2. ASSUME NEW i \in 1..Len(queue') PROVE Past(queue[i], n)'
    <3>1. PICK x : x = queue'[i] OBVIOUS
    <3>2. Past(x, n)' BY <1>2, <2>2, <3>1 DEF Messages, Past
    <3> QED BY <3>1, <3>2 DEF Past
  <2> QED BY <2>1, <2>2 DEF Messages
<1> QED BY <1>3, <1>4, <1>5

\* A thread comes to the counter, or leaves it, or neither.
LEMMA DrawingMoves ==
    ASSUME NEW t \in Threads, \A u \in Threads \ {t} : pc'[u] = pc[u]
    PROVE  /\ t \in Drawing' => Cardinality(Drawing') <= Cardinality(Drawing) + 1
           /\ t \notin Drawing' => Cardinality(Drawing') <= Cardinality(Drawing)
           /\ t \in Drawing /\ t \in Drawing' => Cardinality(Drawing') = Cardinality(Drawing)
           /\ t \in Drawing /\ t \notin Drawing' => Cardinality(Drawing') = Cardinality(Drawing) - 1
<1>1. Drawing' \in {Drawing, Drawing \cup {t}, Drawing \ {t}}
  BY DEF Drawing
<1>2. CASE Drawing' = Drawing
  BY <1>2, DrawingFinite
<1>3. CASE Drawing' = Drawing \cup {t} /\ t \notin Drawing
  BY <1>3, DrawingFinite, FS_AddElement
<1>4. CASE Drawing' = Drawing \ {t} /\ t \in Drawing
  <2>1. Cardinality(Drawing') = Cardinality(Drawing) - 1
    BY <1>4, DrawingFinite, FS_RemoveElement
  <2> QED BY <1>4, <2>1, DrawingFinite
<1> QED BY <1>1, <1>2, <1>3, <1>4

\* A call that begins pays for one increment.
LEMMA BeginKeeps ==
    ASSUME NEW n \in Nat, SessionInv(n), NEW t \in Threads, NEW o \in Ops, NEW i \in {0, 1},
           o # "respond" => i = 0, Begin(t, o, i)
    PROVE  SessionInv(n)'
<1> USE DEF SessionInv
<1> USE SessionAssumption DEF SessionAssumption
<1>1. /\ pc[t] = "idle" /\ open /\ calls < MaxCalls /\ calls' = calls + 1
      /\ op' = [op EXCEPT ![t] = o] /\ call' = [call EXCEPT ![t] = calls + 1]
      /\ id' = [id EXCEPT ![t] = i] /\ res' = [res EXCEPT ![t] = "none"]
      /\ taken' = [taken EXCEPT ![t] = 0]
      /\ UNCHANGED <<open, nextId, pending, queue>>
  BY DEF Begin, kernel
<1>2. /\ pc' = [pc EXCEPT ![t] = pc'[t]]
      /\ pc'[t] \in {"draw", "write", "poll", "read"}
      /\ pc'[t] # "draw" => o \notin Queries \cup {"send"}
  BY DEF Begin, SessionTypeOK, Ops, Timed, Queries
<1>3. SessionTypeOK'
  <2>1. pc' \in [Threads -> {"idle", "draw", "redraw", "write", "poll", "read"}]
    BY <1>2 DEF SessionTypeOK
  <2>2. i \in 0..Modulus-1 /\ calls + 1 \in 0..MaxCalls /\ calls + 1 \in Nat
    BY <1>1 DEF SessionTypeOK
  <2>3. /\ id' \in [Threads -> 0..Modulus-1] /\ call' \in [Threads -> Nat]
        /\ op' \in [Threads -> Ops] /\ taken' \in [Threads -> Nat]
    BY <1>1, <2>2 DEF SessionTypeOK
  <2> QED BY <1>1, <2>1, <2>2, <2>3 DEF SessionTypeOK
<1>4. Closed' BY <1>1 DEF Closed
<1>5. AnswerIsMine' BY <1>1, <1>2 DEF AnswerIsMine, SessionTypeOK
<1>6. Cardinality(Drawing') + calls <= Cardinality(Drawing) + calls'
  <2>1. \A u \in Threads \ {t} : pc'[u] = pc[u] BY <1>2 DEF SessionTypeOK
  <2>2. Cardinality(Drawing') <= Cardinality(Drawing) + 1
    BY <2>1, DrawingMoves, DrawingFinite, DrawingStaysFinite
  <2>3. calls \in Nat BY DEF SessionTypeOK
  <2> QED BY <1>1, <2>2, <2>3, DrawingFinite, DrawingStaysFinite
<1>7. \A u \in Threads : pc'[u] = "redraw" => pc[u] = "redraw"
  BY <1>2 DEF SessionTypeOK
<1>8. \A u \in Holding' : u \in Holding /\ id'[u] = id[u] /\ call'[u] = call[u]
  BY <1>1, <1>2 DEF Holding, SessionTypeOK
<1> HIDE DEF SessionInv
<1> QED BY <1>1, <1>3, <1>4, <1>5, <1>6, <1>7, <1>8, CalmKeeps

\* What a step of a call that neither draws nor reads does.
LEMMA MoveKeeps ==
    ASSUME NEW n \in Nat, SessionInv(n), NEW t \in Threads,
           pc[t] \in {"write", "poll", "read"},
           pc' = [pc EXCEPT ![t] = pc'[t]], pc'[t] \in {"idle", "poll", "read"},
           SessionTypeOK', AnswerIsMine',
           UNCHANGED <<open, nextId, op, id, call, calls>>,
           \A m \in pending' : m \in pending \/ Past(m, n)',
           \A i \in 1..Len(queue') : \E j \in 1..Len(queue) : queue'[i] = queue[j]
    PROVE  SessionInv(n)'
<1> USE DEF SessionInv
<1>1. \A u \in Threads \ {t} : pc'[u] = pc[u] BY DEF SessionTypeOK
<1>2. t \notin Drawing' BY DEF Drawing
<1>3. Cardinality(Drawing') + calls <= Cardinality(Drawing) + calls'
  <2>1. Cardinality(Drawing') <= Cardinality(Drawing) BY <1>1, <1>2, DrawingMoves
  <2>2. calls \in Nat BY DEF SessionTypeOK
  <2> QED BY <2>1, <2>2, DrawingFinite, DrawingStaysFinite
<1>4. Closed' BY DEF Closed
<1>5. \A u \in Threads : pc'[u] = "redraw" => pc[u] = "redraw"
  BY <1>1
<1>6. \A u \in Holding' : u \in Holding /\ id'[u] = id[u] /\ call'[u] = call[u]
  BY <1>1 DEF Holding
<1> HIDE DEF SessionInv
<1> QED BY <1>3, <1>4, <1>5, <1>6, CalmKeeps

\* A command carries the id and the number of its call.
LEMMA WriteKeeps ==
    ASSUME NEW n \in Nat, SessionInv(n), NEW t \in Threads, Write(t)
    PROVE  SessionInv(n)'
<1> USE DEF SessionInv
<1>1. PICK m : m = [type |-> IF op[t] \in Queries THEN op[t] ELSE "DONE",
                     id |-> id[t], call |-> call[t]]
  OBVIOUS
<1>2. /\ pc[t] = "write" /\ id[t] # 0 /\ pending' = pending \cup {m}
      /\ UNCHANGED <<open, nextId, op, id, call, taken, calls, queue>>
  BY <1>1 DEF Write
<1>3. /\ pc' = [pc EXCEPT ![t] = pc'[t]] /\ pc'[t] \in {"idle", "poll"}
      /\ pc'[t] = "idle" => op[t] \notin Queries
      /\ \A u \in Threads \ {t} : res'[u] = res[u]
      /\ res' \in [Threads -> {"none", "ok", "EINVAL", "error", "ETIMEDOUT", "EPROTO", "ENOMSG"}]
  BY DEF Write, Return, SessionTypeOK
<1>4. m \in Message /\ m.id = id[t] /\ m.call = call[t] /\ (m.type \in Queries => op[t] \in Queries)
  BY <1>1 DEF Message, SessionTypeOK, Queries
<1>5. SessionTypeOK'
  <2>1. pc' \in [Threads -> {"idle", "draw", "redraw", "write", "poll", "read"}]
    BY <1>3 DEF SessionTypeOK
  <2> QED BY <1>2, <1>3, <1>4, <2>1 DEF SessionTypeOK
<1>6. AnswerIsMine' BY <1>2, <1>3 DEF AnswerIsMine, SessionTypeOK
<1>7. Past(m, n)'
  <2> SUFFICES ASSUME m.type \in Queries PROVE Past(m, n)'
    BY DEF Past
  <2>1. t \in Holding BY <1>2, <1>4 DEF Holding
  <2>2. \A u \in Holding' : u \in Holding
    BY <1>2, <1>3 DEF Holding, SessionTypeOK
  <2>3. \A u \in Holding' : id[u] = m.id => u = t
    BY <1>4, <2>1, <2>2 DEF HeldIds
  <2> QED BY <1>2, <1>4, <2>1, <2>3 DEF Past, HeldIds, Age
<1>8. \A x \in pending' : x \in pending \/ Past(x, n)' BY <1>2, <1>7
<1> HIDE DEF SessionInv
<1> QED BY <1>2, <1>3, <1>5, <1>6, <1>8, MoveKeeps

\* A refused write, and the poll before a read.
LEMMA WaitKeeps ==
    ASSUME NEW n \in Nat, SessionInv(n), NEW t \in Threads,
           WriteFails(t) \/ Poll(t) \/ PollFails(t) \/ ReadFails(t)
    PROVE  SessionInv(n)'
<1> USE DEF SessionInv
<1>1. /\ pc[t] \in {"write", "poll", "read"} /\ pc' = [pc EXCEPT ![t] = pc'[t]]
      /\ pc'[t] \in {"idle", "poll", "read"}
      /\ res' = [res EXCEPT ![t] = res'[t]]
      /\ res'[t] \in {"EINVAL", "error", "ETIMEDOUT"} \/ res' = res
      /\ pc'[t] = "idle" => res'[t] # "ok"
      /\ UNCHANGED <<open, nextId, op, id, call, taken, calls, pending, queue>>
  BY DEF WriteFails, Poll, PollFails, ReadFails, Return, SessionTypeOK, kernel
<1>2. SessionTypeOK'
  <2>1. pc' \in [Threads -> {"idle", "draw", "redraw", "write", "poll", "read"}]
    BY <1>1 DEF SessionTypeOK
  <2>2. res' \in [Threads -> {"none", "ok", "EINVAL", "error", "ETIMEDOUT", "EPROTO", "ENOMSG"}]
    BY <1>1 DEF SessionTypeOK
  <2> QED BY <1>1, <2>1, <2>2 DEF SessionTypeOK
<1>3. AnswerIsMine' BY <1>1 DEF AnswerIsMine, SessionTypeOK
<1> HIDE DEF SessionInv
<1> QED BY <1>1, <1>2, <1>3, MoveKeeps

\* Reading: the message that matches a query is the answer to it.
LEMMA ReadKeeps ==
    ASSUME NEW n \in Nat, SessionInv(n), NEW t \in Threads, Read(t)
    PROVE  SessionInv(n)'
<1> USE DEF SessionInv
<1>1. PICK m : m = Head(queue) OBVIOUS
<1>2. /\ pc[t] = "read" /\ queue # <<>> /\ queue' = Tail(queue)
      /\ taken' = [taken EXCEPT ![t] = m.call]
      /\ pc' = [pc EXCEPT ![t] = "idle"] /\ res' = [res EXCEPT ![t] = Decoded(t, m)]
      /\ UNCHANGED <<open, nextId, op, id, call, calls, pending>>
  BY <1>1 DEF Read, Return
<1>3. Len(queue) \in Nat /\ Len(queue) > 0 /\ m = queue[1] /\ m \in Message
  BY <1>1, <1>2 DEF SessionTypeOK
<1>4. /\ queue' \in Seq(Message) /\ Len(queue') = Len(queue) - 1
      /\ \A i \in 1..Len(queue') : queue'[i] = queue[i + 1] /\ i + 1 \in 1..Len(queue)
  BY <1>2, <1>3 DEF SessionTypeOK
<1>5. SessionTypeOK'
  <2>1. m.call \in Nat BY <1>3 DEF Message
  <2>2. Decoded(t, m) \in {"none", "ok", "EINVAL", "error", "ETIMEDOUT", "EPROTO", "ENOMSG"}
    BY DEF Decoded
  <2> QED BY <1>2, <1>4, <2>1, <2>2 DEF SessionTypeOK
<1>6. AnswerIsMine'
  <2>1. ASSUME op[t] \in Queries, Decoded(t, m) = "ok" PROVE m.call = call[t]
    <3>1. m.type \in Queries /\ m.id = id[t] BY <2>1 DEF Decoded, Matches
    <3>2. t \in Holding BY <1>2, <2>1 DEF Holding
    <3>3. Past(m, n) BY <1>3 DEF Messages
    <3> QED BY <3>1, <3>2, <3>3 DEF Past
  <2> QED BY <1>2, <2>1 DEF AnswerIsMine, SessionTypeOK
<1>7. /\ pc' = [pc EXCEPT ![t] = pc'[t]] /\ pc'[t] \in {"idle", "poll", "read"}
      /\ \A i \in 1..Len(queue') : \E j \in 1..Len(queue) : queue'[i] = queue[j]
      /\ \A x \in pending' : x \in pending \/ Past(x, n)'
  BY <1>2, <1>4 DEF SessionTypeOK
<1> HIDE DEF SessionInv
<1> QED BY <1>2, <1>5, <1>6, <1>7, MoveKeeps

\* An increment: the id is new, since the counter has not come around in this
\* session, and it is 0 for one call at most.
LEMMA DrawKeeps ==
    ASSUME NEW n \in Nat, SessionInv(n), NEW t \in Threads, Draw(t) \/ Redraw(t)
    PROVE  SessionInv(n + 1)'
<1> USE DEF SessionInv
<1> USE SessionAssumption DEF SessionAssumption
<1>1. /\ pc[t] \in {"draw", "redraw"}
      /\ nextId' = Incremented /\ id' = [id EXCEPT ![t] = nextId']
      /\ pc' = [pc EXCEPT ![t] = IF pc[t] = "draw" /\ nextId' = 0 THEN "redraw" ELSE "write"]
      /\ UNCHANGED <<open, op, call, res, taken, calls, pending, queue>>
  BY DEF Draw, Redraw, kernel
<1>2. /\ nextId \in 0..Modulus-1 /\ nextId' \in 0..Modulus-1 /\ Modulus \in Nat
      /\ nextId' = IF nextId = Modulus - 1 THEN 0 ELSE nextId + 1
  BY <1>1, Around DEF SessionTypeOK
<1>3. Cardinality(Drawing) \in Nat /\ Cardinality(Drawing) >= 1
  <2>1. t \in Drawing BY <1>1 DEF Drawing
  <2> QED BY <2>1, DrawingFinite, FS_EmptySet
<1>4. /\ n <= calls + (IF nextId < n THEN 1 ELSE 0) - Cardinality(Drawing)
      /\ n < Modulus - 1 /\ calls \in Nat
  BY <1>2, <1>3 DEF Counted, SessionTypeOK
<1>5. pc[t] = "redraw" => nextId' # 0
  BY <1>2, <1>4 DEF Counted
<1>6. \A u \in Threads \ {t} : pc'[u] = pc[u] BY <1>1 DEF SessionTypeOK
<1>7. SessionTypeOK' BY <1>1, <1>2 DEF SessionTypeOK
<1>8. Counted(n + 1)'
  <2>1. CASE nextId' = 0 /\ pc[t] = "draw"
    <3>1. t \in Drawing /\ t \in Drawing' BY <1>1, <2>1 DEF Drawing, SessionTypeOK
    <3>2. Cardinality(Drawing') = Cardinality(Drawing) BY <1>6, <3>1, DrawingMoves
    <3> QED BY <1>1, <1>2, <1>4, <2>1, <3>2, <1>3 DEF Counted
  <2>2. CASE nextId' # 0
    <3>1. t \in Drawing /\ t \notin Drawing' BY <1>1, <2>2 DEF Drawing, SessionTypeOK
    <3>2. Cardinality(Drawing') = Cardinality(Drawing) - 1 BY <1>6, <3>1, DrawingMoves
    <3>3. nextId' = nextId + 1 BY <1>2, <2>2
    <3>4. pc'[t] = "write" BY <1>1, <2>2 DEF SessionTypeOK
    <3>5. n + 1 + Cardinality(Drawing') <= calls + (IF nextId' < n + 1 THEN 1 ELSE 0)
      BY <1>2, <1>3, <1>4, <3>2, <3>3
    <3>6. \A u \in Threads : pc'[u] = "redraw" => nextId' < n + 1
      BY <1>2, <1>6, <3>3, <3>4 DEF Counted
    <3> QED BY <1>1, <3>5, <3>6 DEF Counted
  <2> QED BY <1>1, <1>5, <2>1, <2>2
<1>9. \A x \in 0..Modulus-1 :
        /\ x = nextId' => Age(x)' = 0
        /\ Age(x) < n => Age(x)' < n + 1 /\ x # nextId'
  BY <1>1, <1>2, <1>4, Aging
<1>10. /\ \A u \in Holding' : u # t => u \in Holding /\ id'[u] = id[u] /\ call'[u] = call[u]
       /\ t \in Holding' => id'[t] = nextId' /\ nextId' # 0
  BY <1>1, <1>5, <1>6 DEF Holding, SessionTypeOK
<1>11. HeldIds(n + 1)'
  <2> SUFFICES ASSUME NEW u \in Holding'
               PROVE  /\ id'[u] # 0 /\ \A x : x = id'[u] => Age(x)' < n + 1
                      /\ \A v \in Holding' : id'[u] = id'[v] => u = v
    BY DEF HeldIds, Age
  <2>1. \A v \in Holding' : v \in Threads BY DEF Holding
  <2>2. \A v \in Holding' : v # t => Age(id[v]) < n /\ id[v] \in 0..Modulus-1 /\ id[v] # 0
    BY <1>10, <2>1 DEF HeldIds, SessionTypeOK
  <2>3. id'[u] # 0 BY <1>10, <2>2
  <2>4. \A x : x = id'[u] => Age(x)' < n + 1
    BY <1>2, <1>9, <1>10, <2>2
  <2>5. \A v \in Holding' : id'[u] = id'[v] => u = v
    BY <1>2, <1>9, <1>10, <2>2 DEF HeldIds
  <2> QED BY <2>3, <2>4, <2>5
<1>12. \A m \in Message : Past(m, n) => Past(m, n + 1)'
  <2> SUFFICES ASSUME NEW m \in Message, Past(m, n), m.type \in Queries
               PROVE  /\ m.id # 0 /\ Age(m.id)' < n + 1
                      /\ \A u \in Holding' : id'[u] = m.id => m.call = call'[u]
    BY DEF Past
  <2>1. m.id \in 0..Modulus-1 /\ Age(m.id) < n /\ m.id # 0 BY DEF Past, Message
  <2> QED BY <1>9, <1>10, <2>1 DEF Past
<1>13. Messages(n + 1)'
  <2>1. \A i \in 1..Len(queue) : queue[i] \in Message BY DEF SessionTypeOK
  <2>2. ASSUME NEW i \in 1..Len(queue) PROVE Past(queue[i], n + 1)'
    <3>1. PICK x \in Message : x = queue[i] BY <2>1
    <3>2. Past(x, n + 1)' BY <1>12, <3>1 DEF Messages
    <3> QED BY <1>1, <3>1, <3>2 DEF Past
  <2>3. \A m \in pending : Past(m, n + 1)' BY <1>12 DEF Messages, SessionTypeOK
  <2> QED BY <1>1, <2>2, <2>3 DEF Messages
<1>14. Closed' BY <1>1 DEF Closed, SessionTypeOK
<1>15. AnswerIsMine' BY <1>1 DEF AnswerIsMine, SessionTypeOK
<1> QED BY <1>7, <1>8, <1>11, <1>13, <1>14, <1>15

\* The kernel answers, drops or reports.
LEMMA KernelKeeps ==
    ASSUME NEW n \in Nat, SessionInv(n), Answer \/ \E e \in Events : Report(e)
    PROVE  SessionInv(n)'
<1> USE DEF SessionInv
<1>1. /\ UNCHANGED <<open, nextId, pc, op, id, call, res, taken, calls>>
      /\ pending' \subseteq pending
  BY DEF Answer, Report, threadVars
<1>2. /\ queue' \in Seq(Message)
      /\ \A i \in 1..Len(queue') :
              \/ \E j \in 1..Len(queue) : queue'[i] = queue[j]
              \/ queue'[i] \in pending
              \/ queue'[i].type \notin Queries
      /\ open \/ queue' = queue
  <2>1. ASSUME NEW m \in Message, m \in pending \/ m.type \notin Queries, queue' = Append(queue, m)
        PROVE  /\ queue' \in Seq(Message)
               /\ \A i \in 1..Len(queue') :
                    \/ \E j \in 1..Len(queue) : queue'[i] = queue[j]
                    \/ queue'[i] \in pending
                    \/ queue'[i].type \notin Queries
    <3>1. /\ Len(queue') = Len(queue) + 1 /\ Len(queue) \in Nat /\ queue' \in Seq(Message)
          /\ \A i \in 1..Len(queue) : queue'[i] = queue[i]
          /\ queue'[Len(queue) + 1] = m
      BY <2>1 DEF SessionTypeOK
    <3> QED BY <2>1, <3>1
  <2>2. CASE queue' = queue BY <2>2 DEF SessionTypeOK
  <2>3. ASSUME NEW c \in pending, queue' = Append(queue, c) PROVE <1>2!:
    <3>1. c \in Message /\ open BY DEF SessionTypeOK, Closed
    <3> QED BY <2>1, <2>3, <3>1
  <2>4. ASSUME NEW c \in pending,
               queue' = Append(queue, [type |-> "FAILED", id |-> c.id, call |-> 0])
        PROVE  <1>2!:
    <3>1. c \in Message /\ open BY DEF SessionTypeOK, Closed
    <3>2. PICK m : m = [type |-> "FAILED", id |-> c.id, call |-> 0] OBVIOUS
    <3>3. m \in Message /\ m.type \notin Queries BY <3>1, <3>2 DEF Message, Queries
    <3> QED BY <2>1, <2>4, <3>1, <3>2, <3>3
  <2>5. ASSUME NEW e \in Events, Report(e) PROVE <1>2!:
    <3>1. PICK m : m = [type |-> e, id |-> 0, call |-> 0] OBVIOUS
    <3>2. m \in Message /\ m.type \notin Queries
      <4>1. e \in {"EVENT", "BAD"} /\ 0 \in 0..Modulus-1
        BY SessionAssumption DEF SessionAssumption
      <4> QED BY <3>1, <4>1 DEF Message, Queries
    <3>3. queue' = Append(queue, m) /\ open BY <2>5, <3>1 DEF Report
    <3> QED BY <2>1, <3>2, <3>3
  <2> QED BY <2>2, <2>3, <2>4, <2>5 DEF Answer
<1>3. SessionTypeOK' BY <1>1, <1>2 DEF SessionTypeOK
<1>4. Closed' BY <1>1, <1>2 DEF Closed
<1>5. AnswerIsMine' BY <1>1 DEF AnswerIsMine
<1>6. Holding' = Holding /\ Drawing' = Drawing BY <1>1 DEF Holding, Drawing
<1>7. Cardinality(Drawing') + calls <= Cardinality(Drawing) + calls'
  BY <1>1, <1>6, DrawingFinite DEF SessionTypeOK
<1> HIDE DEF SessionInv
<1> QED BY <1>1, <1>2, <1>3, <1>4, <1>5, <1>6, <1>7, CalmKeeps

\* A session that is closed keeps nothing, and one that is opened has drawn
\* nothing.
LEMMA HandleKeeps ==
    ASSUME NEW n \in Nat, SessionInv(n)
    PROVE  /\ Close => SessionInv(n)'
           /\ Open => SessionInv(0)'
<1> USE DEF SessionInv
<1>1. ASSUME Close PROVE SessionInv(n)'
  <2>1. /\ \A t \in Threads : pc[t] = "idle"
        /\ pending' = {} /\ queue' = <<>> /\ open' = FALSE
        /\ UNCHANGED <<nextId, pc, op, id, call, res, taken, calls>>
    BY <1>1 DEF Close, threadVars
  <2>2. SessionTypeOK' /\ Closed' /\ AnswerIsMine'
    <3>1. <<>> \in Seq(Message) OBVIOUS
    <3>2. pending' \subseteq Message /\ queue' \in Seq(Message) BY <2>1, <3>1
    <3>3. open' \in BOOLEAN BY <2>1
    <3>4. SessionTypeOK' BY <2>1, <3>2, <3>3 DEF SessionTypeOK
    <3>5. Closed' BY <2>1 DEF Closed
    <3>6. AnswerIsMine' BY <2>1 DEF AnswerIsMine
    <3> QED BY <3>4, <3>5, <3>6
  <2>3. Holding' = Holding /\ Drawing' = Drawing /\ Len(queue') = 0
    BY <2>1 DEF Holding, Drawing
  <2>4. Cardinality(Drawing') + calls <= Cardinality(Drawing) + calls'
    BY <2>1, <2>3, DrawingFinite DEF SessionTypeOK
  <2> HIDE DEF SessionInv
  <2> QED BY <2>1, <2>2, <2>3, <2>4, CalmKeeps
<1>2. ASSUME Open PROVE SessionInv(0)'
  <2>1. /\ \A t \in Threads : pc[t] = "idle"
        /\ pending' = {} /\ queue' = <<>> /\ open' = TRUE /\ nextId' = 0 /\ calls' = 0
        /\ id' = [t \in Threads |-> 0] /\ call' = [t \in Threads |-> 0]
        /\ res' = [t \in Threads |-> "none"] /\ taken' = [t \in Threads |-> 0]
        /\ UNCHANGED <<pc, op>>
    BY <1>2 DEF Open, Closed, kernel
  <2>2. SessionTypeOK'
    BY <2>1, SessionAssumption DEF SessionTypeOK, SessionAssumption
  <2>3. Closed' /\ AnswerIsMine' BY <2>1 DEF Closed, AnswerIsMine
  <2>4. Holding' = {} /\ Drawing' = {} BY <2>1 DEF Holding, Drawing
  <2>5. Counted(0)' BY <2>1, <2>4, FS_EmptySet DEF Counted
  <2>6. HeldIds(0)' /\ Messages(0)' BY <2>1, <2>4 DEF HeldIds, Messages
  <2> QED BY <2>2, <2>3, <2>5, <2>6
<1> QED BY <1>1, <1>2

\* Every step keeps the invariant, with one increment more or none, or a new session.
LEMMA SessionStep ==
    ASSUME SomeInv, [Next]_vars
    PROVE  SomeInv'
<1>1. PICK n \in Nat : SessionInv(n) BY DEF SomeInv
<1> SUFFICES \E k \in Nat : SessionInv(k)' BY DEF SomeInv
<1>2. ASSUME NEW t \in Threads, Step(t) PROVE \E k \in Nat : SessionInv(k)'
  <2>1. CASE Draw(t) \/ Redraw(t) BY <1>1, <2>1, DrawKeeps
  <2>2. CASE ~(Draw(t) \/ Redraw(t))
    BY <1>1, <1>2, <2>2, WriteKeeps, WaitKeeps, ReadKeeps DEF Step
  <2> QED BY <2>1, <2>2
<1>3. ASSUME NEW t \in Threads, NEW o \in CallsOf(t) \ {"respond"}, Begin(t, o, 0)
      PROVE  SessionInv(n)'
  <2>1. o \in Ops BY DEF CallsOf, Ops
  <2> QED BY <1>1, <1>3, <2>1, BeginKeeps
<1>4. ASSUME NEW t \in Threads, NEW i \in {0, 1}, Begin(t, "respond", i)
      PROVE  SessionInv(n)'
  <2>1. "respond" \in Ops BY DEF Ops
  <2> QED BY <1>1, <1>4, <2>1, BeginKeeps
<1>5. ASSUME UNCHANGED vars PROVE SessionInv(n)'
  BY <1>1, <1>5
     DEF vars, SessionInv, SessionTypeOK, Counted, Drawing, HeldIds, Holding, Age, Messages,
         Past, Closed, AnswerIsMine
<1> QED BY <1>1, <1>2, <1>3, <1>4, <1>5, KernelKeeps, HandleKeeps DEF Next

\* A session that is quiet holds nothing of its past.
LEMMA SessionStarts == Init => SomeInv
<1> SUFFICES ASSUME Init PROVE SessionInv(0) BY DEF SomeInv
<1>1. SessionTypeOK BY SessionAssumption DEF Init, SessionTypeOK, SessionAssumption, Ops
<1>2. Closed /\ AnswerIsMine BY DEF Init, Closed, AnswerIsMine
<1>3. Holding = {} /\ Drawing = {} BY DEF Init, Holding, Drawing
<1>4. Counted(0) BY <1>3, FS_EmptySet DEF Init, Counted
<1>5. HeldIds(0) /\ Messages(0) BY <1>3 DEF Init, HeldIds, Messages
<1> QED BY <1>1, <1>2, <1>4, <1>5 DEF SessionInv

\* The invariant of a session holds throughout.
LEMMA SessionAlways == Spec => []SomeInv
BY SessionStarts, SessionStep, PTL DEF Spec

\* Ids in use are neither 0 nor shared, although wlan_offload_next_request_id goes
\* around and draws twice at 0: for any number of threads, in sessions of fewer calls
\* than there are ids.
THEOREM IdsAreDistinct == Spec => []IdsDistinct
<1>1. SomeInv => IdsDistinct
  BY DEF SomeInv, SessionInv, HeldIds, IdsDistinct
<1> QED BY <1>1, SessionAlways, PTL

\* A query that succeeds returns the answer to itself, for any number of threads that
\* share the handle and any messages of earlier queries still in the queue.
THEOREM OwnAnswers == Spec => []AnswerIsMine
<1>1. SomeInv => AnswerIsMine
  BY DEF SomeInv, SessionInv
<1> QED BY <1>1, SessionAlways, PTL
=============================================================================
