--------------------------- MODULE NplEventqProofs --------------------------
(***************************************************************************)
(* The event queue of the NimBLE porting layer, for any number of events   *)
(* and of threads.  The inductive invariant IInv says that the pointers    *)
(* spell out the history variable order, that the flags mark its elements, *)
(* and that no wake-up is lost; each part needs the others (a removal is   *)
(* right because the list is well formed, a get may sleep because an empty *)
(* head means an empty order).                                             *)
(***************************************************************************)
EXTENDS NplEventq, SequenceTheorems, FiniteSetTheorems, WellFoundedInduction, TLAPS

IInv == TypeOK /\ ListIsOrder /\ FlagIsMembership /\ NoLostWakeup

-----------------------------------------------------------------------------
(* Facts about the operators the queue is built from.                      *)

\* A set of positive numbers below a bound that is closed under successor
\* and holds 1 is everything: the induction a walk along the list needs.
LEMMA StepsReachAll ==
    ASSUME NEW n \in Nat, NEW T \in SUBSET (1..n),
           n > 0 => 1 \in T,
           \A i \in 1..n : i \in T /\ i + 1 <= n => i + 1 \in T
    PROVE  T = 1..n
<1>1. SUFFICES ASSUME (1..n) \ T # {} PROVE FALSE
    OBVIOUS
<1> DEFINE R == OpToRel(<, Nat)
<1>2. IsWellFoundedOn(R, Nat)
    BY NatLessThanWellFounded
<1>3. (1..n) \ T \subseteq Nat
    OBVIOUS
<1> HIDE DEF R
<1>4. PICK x \in (1..n) \ T : \A y \in (1..n) \ T : ~(<<y, x>> \in R)
    BY <1>1, <1>2, <1>3, WFMin
<1>5. \A y \in (1..n) \ T : ~(y < x)
    BY <1>4, <1>3 DEF R, OpToRel
<1>6. CASE x = 1
    BY <1>6
<1>7. CASE x # 1
    <2>1. x - 1 \in 1..n /\ x - 1 < x
        BY <1>7
    <2>2. x - 1 \in T
        BY <2>1, <1>5
    <2> QED
        BY <2>1, <2>2
<1> QED
    BY <1>6, <1>7

\* Taking the k-th element out of a sequence moves the later ones down.
LEMMA WithoutFacts ==
    ASSUME NEW S, NEW s \in Seq(S), NEW k \in 1..Len(s)
    PROVE  /\ Without(s, k) \in Seq(S)
           /\ Len(Without(s, k)) = Len(s) - 1
           /\ \A i \in 1..(Len(s) - 1) :
                Without(s, k)[i] = IF i < k THEN s[i] ELSE s[i + 1]
<1>1. Len(s) - 1 \in Nat
    OBVIOUS
<1>2. \A i \in 1..(Len(s) - 1) : (IF i < k THEN s[i] ELSE s[i + 1]) \in S
    OBVIOUS
<1> QED
    BY <1>1, <1>2 DEF Without

\* The walk of ble_npl_eventq_remove visits exactly the events of the list.
LEMMA VisitedIsOrder ==
    ASSUME TypeOK, ListIsOrder
    PROVE  Visited = Elems(order)
<1> USE NullAssumption
<1>1. Elems(order) \subseteq Events
    BY DEF TypeOK, Elems
<1>2. Visited \subseteq Elems(order)
    <2>1. head # NULL => head \in Elems(order)
        BY DEF ListIsOrder, Elems, TypeOK
    <2>2. ASSUME NEW x \in Elems(order), next[x] # NULL
          PROVE  next[x] \in Elems(order)
        <3>1. PICK i \in 1..Len(order) : x = order[i]
            BY <2>2 DEF Elems
        <3>2. i # Len(order)
            BY <3>1, <2>2 DEF ListIsOrder, TypeOK
        <3>3. i \in 1..(Len(order) - 1) /\ i + 1 \in 1..Len(order)
            BY <3>2 DEF TypeOK
        <3> QED
            BY <3>1, <3>3 DEF ListIsOrder, Elems
    <2> QED
        BY <1>1, <2>1, <2>2 DEF Visited
<1>3. ASSUME NEW S \in SUBSET Events,
             head # NULL => head \in S,
             \A x \in S : next[x] # NULL => next[x] \in S
      PROVE  Elems(order) \subseteq S
    <2> DEFINE T == {i \in 1..Len(order) : order[i] \in S}
    <2>1. Len(order) \in Nat /\ T \in SUBSET (1..Len(order))
        BY DEF TypeOK
    <2>2. Len(order) > 0 => 1 \in T
        BY <1>3 DEF ListIsOrder, TypeOK
    <2>3. ASSUME NEW i \in 1..Len(order), i \in T, i + 1 <= Len(order)
          PROVE  i + 1 \in T
        <3>1. i \in 1..(Len(order) - 1) /\ i + 1 \in 1..Len(order)
            BY <2>1, <2>3
        <3>2. next[order[i]] = order[i + 1] /\ order[i + 1] \in Events
            BY <3>1 DEF ListIsOrder, TypeOK
        <3> QED
            BY <3>1, <3>2, <2>3, <1>3
    <2> HIDE DEF T
    <2>4. T = 1..Len(order)
        BY <2>1, <2>2, <2>3, StepsReachAll
    <2> QED
        BY <2>4 DEF T, Elems
<1> QED
    BY <1>1, <1>2, <1>3 DEF Visited

\* The sets of threads have a cardinality.
LEMMA WokenFinite == IsFiniteSet(Woken) /\ Cardinality(Woken) \in Nat
<1>1. Woken \in SUBSET Consumers
    BY DEF Woken
<1>2. IsFiniteSet(Woken)
    BY <1>1, FiniteAssumption, FS_Subset
<1> QED
    BY <1>2, FS_CardinalityType

-----------------------------------------------------------------------------
(* The invariant holds initially and every operation preserves it.         *)

LEMMA InitIInv == Init => IInv
<1> SUFFICES ASSUME Init PROVE IInv
    OBVIOUS
<1>1. TypeOK
    BY DEF Init, TypeOK, Pointers, Timeouts
<1>2. ListIsOrder
    BY DEF Init, ListIsOrder
<1>3. FlagIsMembership
    BY DEF Init, FlagIsMembership, Elems
<1>4. Sleeping = {}
    BY DEF Init, Sleeping
<1> QED
    BY <1>1, <1>2, <1>3, <1>4 DEF IInv, NoLostWakeup

LEMMA EventInitIInv ==
    ASSUME IInv, NEW e \in Events, EventInit(e)
    PROVE  IInv'
<1> USE NullAssumption
<1> USE DEF IInv, EventInit, waiters
<1>1. TypeOK'
    BY DEF TypeOK, Pointers
<1>2. e \notin Elems(order)
    BY DEF FlagIsMembership
<1>3. \A i \in 1..Len(order) : order[i] \in Events /\ order[i] # e
    BY <1>2 DEF Elems, TypeOK
<1>4. \A i \in 1..Len(order) : next'[order[i]] = next[order[i]]
    BY <1>3 DEF TypeOK
<1>5. ListIsOrder'
    BY <1>4 DEF ListIsOrder, TypeOK
<1>6. FlagIsMembership'
    BY <1>2 DEF FlagIsMembership, TypeOK, Elems
<1>7. NoLostWakeup'
    BY DEF NoLostWakeup, Sleeping, Woken
<1> QED
    BY <1>1, <1>5, <1>6, <1>7

\* A signal either finds nobody asleep or moves one thread to the woken ones.
LEMMA SignalWakesOne ==
    ASSUME TypeOK, Signal
    PROVE  /\ pc' \in [Consumers -> {"idle", "sleeping", "woken"}]
           /\ \/ Sleeping' = {}
              \/ Cardinality(Woken') = Cardinality(Woken) + 1
           /\ Sleeping = {} => Sleeping' = {}
<1>1. CASE Sleeping = {} /\ UNCHANGED pc
    BY <1>1 DEF TypeOK, Sleeping
<1>2. CASE \E c \in Sleeping : pc' = [pc EXCEPT ![c] = "woken"]
    <2>1. PICK c \in Sleeping : pc' = [pc EXCEPT ![c] = "woken"]
        BY <1>2
    <2>2. Woken' = Woken \cup {c} /\ c \notin Woken
        BY <2>1 DEF Woken, Sleeping, TypeOK
    <2>3. Cardinality(Woken') = Cardinality(Woken) + 1
        BY <2>2, WokenFinite, FS_AddElement
    <2> QED
        BY <2>1, <2>3 DEF TypeOK, Sleeping
<1> QED
    BY <1>1, <1>2 DEF Signal

LEMMA PutIInv ==
    ASSUME IInv, NEW e \in Events, Put(e)
    PROVE  IInv'
<1> USE NullAssumption
<1> USE DEF IInv
<1>1. e \notin Elems(order) /\ e \in inited
    BY DEF Put, Linkable, FlagIsMembership
<1>2. \A i \in 1..Len(order) : order[i] \in Events /\ order[i] # e
    BY <1>1 DEF Elems, TypeOK
<1>3. /\ order' \in Seq(Events)
      /\ Len(order) \in Nat
      /\ Len(order') = Len(order) + 1
      /\ order'[Len(order) + 1] = e
      /\ \A i \in 1..Len(order) : order'[i] = order[i]
    BY DEF Put, TypeOK
<1>4. tail = NULL <=> order = <<>>
    BY <1>2 DEF ListIsOrder, TypeOK
<1>5. TypeOK'
    <2>1. head' \in Pointers /\ tail' \in Pointers /\ next' \in [Events -> Pointers]
        BY DEF Put, TypeOK, Pointers
    <2>2. queued' \in [Events -> BOOLEAN] /\ UNCHANGED <<inited, timeout, expired, got>>
        BY DEF Put, TypeOK
    <2> QED
        BY <1>3, <2>1, <2>2, SignalWakesOne DEF Put, TypeOK
<1>6. ListIsOrder'
    <2>1. CASE tail = NULL
        <3>1. Len(order) = 0
            BY <2>1, <1>4
        <3>2. head' = e /\ tail' = e /\ next'[e] = NULL
            BY <2>1 DEF Put, TypeOK
        <3>3. Len(order') = 1 /\ order'[1] = e
            BY <3>1, <1>3
        <3> QED
            BY <3>2, <3>3, <1>3 DEF ListIsOrder
    <2>2. CASE tail # NULL
        <3>1. Len(order) > 0 /\ tail = order[Len(order)] /\ head = order[1]
            BY <2>2, <1>4, <1>3 DEF ListIsOrder, TypeOK
        <3>2. tail \in Events /\ tail # e
            BY <3>1, <1>2, <1>3
        <3>3. /\ head' = head /\ tail' = e
              /\ next'[e] = NULL /\ next'[tail] = e
              /\ \A x \in Events : x # e /\ x # tail => next'[x] = next[x]
            BY <2>2, <3>2 DEF Put, TypeOK
        <3>4. ASSUME NEW i \in 1..Len(order)
              PROVE  next'[order'[i]] = order'[i + 1]
            <4>1. CASE i = Len(order)
                BY <4>1, <3>1, <3>3, <1>3
            <4>2. CASE i # Len(order)
                <5>1. i \in 1..(Len(order) - 1) /\ i + 1 \in 1..Len(order)
                    BY <4>2, <1>3
                <5>2. order[i] # tail
                    BY <5>1, <3>1, <1>3, <4>2 DEF FlagIsMembership
                <5>3. next'[order[i]] = next[order[i]]
                    BY <5>2, <3>3, <1>2
                <5> QED
                    BY <5>1, <5>3, <1>3 DEF ListIsOrder
            <4> QED
                BY <4>1, <4>2
        <3>5. order' # <<>> /\ order'[1] = order[1]
            BY <3>1, <1>3
        <3> QED
            BY <3>1, <3>3, <3>4, <3>5, <1>3 DEF ListIsOrder
    <2> QED
        BY <2>1, <2>2
<1>7. FlagIsMembership'
    <2>1. Elems(order') = Elems(order) \cup {e}
        BY <1>3 DEF Elems
    <2>2. inited' = inited /\ queued' = [queued EXCEPT ![e] = TRUE]
        BY DEF Put
    <2>3. \A i, j \in 1..Len(order') : order'[i] = order'[j] => i = j
        BY <1>2, <1>3 DEF FlagIsMembership
    <2>4. \A x \in inited' : queued'[x] <=> x \in Elems(order')
        BY <2>1, <2>2 DEF FlagIsMembership, TypeOK
    <2>5. Elems(order') \subseteq inited'
        BY <1>1, <2>1, <2>2 DEF FlagIsMembership
    <2> QED
        BY <2>3, <2>4, <2>5 DEF FlagIsMembership, Elems
<1>8. NoLostWakeup'
    <2>1. Signal
        BY DEF Put
    <2>2. CASE Sleeping' = {}
        BY <2>2 DEF NoLostWakeup
    <2>3. CASE Sleeping' # {}
        BY <2>1, <2>3, <1>3, SignalWakesOne, WokenFinite DEF NoLostWakeup
    <2> QED
        BY <2>2, <2>3
<1> QED
    BY <1>5, <1>6, <1>7, <1>8

\* What ble_npl_eventq_remove finds for the k-th event of the list: it
\* visits it, and the node it came from is the (k-1)-th.
LEMMA PreviousOf ==
    ASSUME IInv, NEW k \in 1..Len(order)
    PROVE  /\ order[k] \in Visited
           /\ k = 1 <=> order[k] = head
           /\ k > 1 => (CHOOSE p \in Visited : next[p] = order[k]) = order[k - 1]
<1> USE NullAssumption
<1> USE DEF IInv
<1>1. Visited = Elems(order)
    BY VisitedIsOrder
<1>2. Len(order) \in Nat /\ \A i \in 1..Len(order) : order[i] \in Events
    BY DEF TypeOK
<1>3. order[k] \in Visited
    BY <1>1 DEF Elems
<1>4. k = 1 <=> order[k] = head
    <2>1. order # <<>> /\ 1 \in 1..Len(order)
        BY <1>2
    <2> QED
        BY <2>1 DEF ListIsOrder, FlagIsMembership
<1>5. ASSUME k > 1
      PROVE  (CHOOSE p \in Visited : next[p] = order[k]) = order[k - 1]
    <2>1. k - 1 \in 1..(Len(order) - 1) /\ k - 1 \in 1..Len(order) /\ (k - 1) + 1 = k
        BY <1>2, <1>5
    <2>2. order[k - 1] \in Visited /\ next[order[k - 1]] = order[k]
        BY <1>1, <2>1 DEF Elems, ListIsOrder
    <2>3. ASSUME NEW p \in Visited, next[p] = order[k]
          PROVE  p = order[k - 1]
        <3>1. PICK j \in 1..Len(order) : p = order[j]
            BY <1>1, <2>3 DEF Elems
        <3>2. j # Len(order)
            BY <3>1, <2>3, <1>2 DEF ListIsOrder
        <3>3. j \in 1..(Len(order) - 1) /\ j + 1 \in 1..Len(order)
            BY <3>2, <1>2
        <3>4. order[j + 1] = order[k]
            BY <3>1, <3>3, <2>3 DEF ListIsOrder
        <3>5. j + 1 = k
            BY <3>4, <3>3 DEF FlagIsMembership
        <3> QED
            BY <3>1, <3>5, <1>2
    <2> QED
        BY <2>2, <2>3
<1> QED
    BY <1>3, <1>4, <1>5

LEMMA RemoveIInv ==
    ASSUME IInv, NEW e \in Events, Remove(e)
    PROVE  IInv'
<1> USE NullAssumption
<1> USE DEF IInv
<1> DEFINE n == Len(order)
<1>1. PICK k \in 1..n : order[k] = e /\ order' = Without(order, k)
    BY DEF Remove
<1>2. /\ n \in Nat
      /\ \A i \in 1..n : order[i] \in Events /\ order[i] # NULL
    BY DEF TypeOK
<1>3. /\ order' \in Seq(Events)
      /\ Len(order') = n - 1
      /\ \A i \in 1..(n - 1) : order'[i] = IF i < k THEN order[i] ELSE order[i + 1]
    BY <1>1, WithoutFacts DEF TypeOK
<1>4. /\ k = 1 <=> e = head
      /\ k > 1 => (CHOOSE p \in Visited : next[p] = e) = order[k - 1]
    BY <1>1, PreviousOf
<1>5. \A i, j \in 1..n : order[i] = order[j] => i = j
    BY DEF FlagIsMembership
<1>6. /\ head = order[1] /\ tail = order[n] /\ next[order[n]] = NULL
      /\ \A i \in 1..(n - 1) : next[order[i]] = order[i + 1]
    <2>1. order # <<>>
        BY <1>1, <1>2
    <2> QED
        BY <2>1 DEF ListIsOrder
<1>7. /\ k = 1 => /\ head' = next[e]
                  /\ tail' = (IF tail = e THEN NULL ELSE tail)
                  /\ next' = [next EXCEPT ![e] = NULL]
      /\ k > 1 => /\ head' = head
                  /\ tail' = (IF tail = e THEN order[k - 1] ELSE tail)
                  /\ next' = [next EXCEPT ![e] = NULL, ![order[k - 1]] = next[e]]
    <2> DEFINE p == CHOOSE q \in Visited : next[q] = e
    <2>1. k > 1 => p # NULL /\ p = order[k - 1]
        <3>1. k > 1 => p = order[k - 1]
            BY <1>4
        <3>2. k > 1 => order[k - 1] # NULL
            BY <1>2
        <3> HIDE DEF p
        <3> QED
            BY <3>1, <3>2
    <2>2. e # NULL /\ (k = 1 => e = head) /\ (k > 1 => e # head)
        BY <1>4
    <2>3. /\ e = head => /\ head' = next[e]
                        /\ tail' = (IF tail = e THEN NULL ELSE tail)
                        /\ next' = [next EXCEPT ![e] = NULL]
          /\ e # head /\ p # NULL => /\ head' = head
                                    /\ tail' = (IF tail = e THEN p ELSE tail)
                                    /\ next' = [next EXCEPT ![e] = NULL, ![p] = next[e]]
        BY DEF Remove, TailWithout
    <2> HIDE DEF p
    <2> QED
        BY <2>1, <2>2, <2>3
<1>8. queued' = [queued EXCEPT ![e] = FALSE] /\ UNCHANGED <<inited, pc, timeout, expired, got>>
    BY DEF Remove, waiters
<1> HIDE DEF n
<1>9. /\ next' \in [Events -> Pointers]
      /\ \A x \in Events : x # e /\ (k > 1 => x # order[k - 1]) => next'[x] = next[x]
      /\ next'[e] = NULL
      /\ k > 1 => next'[order[k - 1]] = next[e]
    <2>1. next \in [Events -> Pointers] /\ NULL \in Pointers /\ next[e] \in Pointers
        BY DEF TypeOK, Pointers
    <2>2. k > 1 => order[k - 1] \in Events /\ order[k - 1] # e
        BY <1>1, <1>2, <1>5
    <2>3. k = 1 \/ k > 1
        BY <1>2
    <2> QED
        BY <2>1, <2>2, <2>3, <1>7
<1>10. TypeOK'
    <2>1. head' \in Pointers /\ tail' \in Pointers
        <3>1. k > 1 => order[k - 1] \in Pointers
            BY <1>2 DEF Pointers
        <3>2. next[e] \in Pointers /\ NULL \in Pointers /\ head \in Pointers /\ tail \in Pointers
            BY DEF TypeOK, Pointers
        <3>3. k = 1 \/ k > 1
            BY <1>2
        <3> QED
            BY <3>1, <3>2, <3>3, <1>7
    <2>2. queued' \in [Events -> BOOLEAN]
        BY <1>8 DEF TypeOK
    <2> QED
        BY <1>3, <1>8, <1>9, <2>1, <2>2 DEF TypeOK
<1>11. ListIsOrder'
    <2>1. CASE n = 1
        <3>1. k = 1 /\ tail = e /\ next[e] = NULL
            BY <2>1, <1>1, <1>6
        <3>2. head' = NULL /\ tail' = NULL
            BY <3>1, <1>7
        <3>3. Len(order') = 0 /\ order' = <<>>
            BY <2>1, <1>3
        <3> QED
            BY <3>2, <3>3 DEF ListIsOrder
    <2>2. CASE n > 1
        <3>1. head' = order'[1]
            BY <2>2, <1>1, <1>2, <1>3, <1>6, <1>7
        <3>2. tail' = order'[n - 1]
            <4>1. CASE k = n
                <5>1. tail = e /\ k > 1 /\ n - 1 \in 1..(n - 1) /\ n - 1 < k
                    BY <4>1, <2>2, <1>1, <1>2, <1>6
                <5> QED
                    BY <5>1, <4>1, <1>3, <1>7
            <4>2. CASE k # n
                <5>1. tail # e /\ n - 1 \in 1..(n - 1) /\ ~(n - 1 < k)
                    BY <4>2, <2>2, <1>1, <1>2, <1>5, <1>6
                <5>2. tail' = tail
                    BY <5>1, <1>2, <1>7
                <5> QED
                    BY <5>1, <5>2, <1>2, <1>3, <1>6
            <4> QED
                BY <4>1, <4>2
        <3>3. next'[order'[n - 1]] = NULL
            <4>1. CASE k = n
                <5>1. k > 1 /\ n - 1 \in 1..(n - 1) /\ n - 1 < k
                    BY <4>1, <2>2, <1>2
                <5>2. order'[n - 1] = order[k - 1] /\ next[e] = NULL
                    BY <5>1, <4>1, <1>1, <1>3, <1>6
                <5> QED
                    BY <5>1, <5>2, <1>9
            <4>2. CASE k # n
                <5>1. n - 1 \in 1..(n - 1) /\ ~(n - 1 < k) /\ n \in 1..n /\ n - 1 + 1 = n
                    BY <4>2, <2>2, <1>2
                <5>2. order'[n - 1] = order[n]
                    BY <5>1, <1>3
                <5>3. order[n] # e /\ (k > 1 => order[n] # order[k - 1])
                    BY <5>1, <4>2, <1>1, <1>2, <1>5
                <5> QED
                    BY <5>1, <5>2, <5>3, <1>2, <1>6, <1>9
            <4> QED
                BY <4>1, <4>2
        <3>4. ASSUME NEW i \in 1..(n - 2)
              PROVE  next'[order'[i]] = order'[i + 1]
            <4>1. /\ i \in 1..(n - 1) /\ i + 1 \in 1..(n - 1) /\ i + 2 \in 1..n
                  /\ i \in 1..n /\ i + 1 \in 1..n
                BY <1>2
            <4>2. CASE i + 1 < k
                <5>1. order'[i] = order[i] /\ order'[i + 1] = order[i + 1]
                    BY <4>1, <4>2, <1>2, <1>3
                <5>2. order[i] # e /\ order[i] # order[k - 1]
                    BY <4>1, <4>2, <1>1, <1>2, <1>5
                <5> QED
                    BY <4>1, <5>1, <5>2, <1>2, <1>6, <1>9
            <4>3. CASE i + 1 = k
                <5>1. order'[i] = order[k - 1] /\ order'[i + 1] = order[k + 1] /\ k > 1
                    BY <4>1, <4>3, <1>2, <1>3
                <5>2. next[e] = order[k + 1]
                    BY <4>1, <4>3, <1>1, <1>6
                <5> QED
                    BY <5>1, <5>2, <1>9
            <4>4. CASE i + 1 > k
                <5>1. order'[i] = order[i + 1] /\ order'[i + 1] = order[i + 2]
                    <6>1. ~(i < k) /\ ~(i + 1 < k) /\ (i + 1) + 1 = i + 2
                        BY <4>1, <4>4, <1>2
                    <6> QED
                        BY <6>1, <4>1, <1>3
                <5>2. order[i + 1] # e /\ (k > 1 => order[i + 1] # order[k - 1])
                    BY <4>1, <4>4, <1>1, <1>2, <1>5
                <5>3. next[order[i + 1]] = order[i + 2]
                    BY <4>1, <1>2, <1>6
                <5> QED
                    BY <4>1, <5>1, <5>2, <5>3, <1>2, <1>9
            <4> QED
                BY <4>1, <4>2, <4>3, <4>4, <1>2
        <3>5. order' # <<>> /\ Len(order') - 1 = n - 2
            BY <2>2, <1>2, <1>3
        <3> QED
            BY <3>1, <3>2, <3>3, <3>4, <3>5, <1>3 DEF ListIsOrder
    <2> QED
        BY <2>1, <2>2, <1>2
<1>12. FlagIsMembership'
    <2>1. ASSUME NEW x
          PROVE  x \in Elems(order') <=> x \in Elems(order) /\ x # e
        <3>1. ASSUME NEW i \in 1..(n - 1)
              PROVE  order'[i] \in Elems(order) /\ order'[i] # e
            <4>1. i \in 1..n /\ i + 1 \in 1..n
                BY <1>2
            <4> QED
                BY <4>1, <1>1, <1>2, <1>3, <1>5 DEF Elems, n
        <3>2. ASSUME NEW i \in 1..n, order[i] # e
              PROVE  \E j \in 1..(n - 1) : order'[j] = order[i]
            <4>1. CASE i < k
                <5>1. i \in 1..(n - 1)
                    BY <4>1, <1>2
                <5> QED
                    BY <5>1, <4>1, <1>3
            <4>2. CASE i > k
                <5>1. i - 1 \in 1..(n - 1) /\ ~(i - 1 < k) /\ i - 1 + 1 = i
                    BY <4>2, <1>2
                <5> QED
                    BY <5>1, <1>3
            <4> QED
                BY <4>1, <4>2, <3>2, <1>1, <1>2
        <3>3. Elems(order') = {order'[i] : i \in 1..(n - 1)}
            BY <1>3 DEF Elems
        <3>4. Elems(order) = {order[i] : i \in 1..n}
            BY DEF Elems, n
        <3> QED
            BY <3>1, <3>2, <3>3, <3>4
    <2>2. \A i, j \in 1..(n - 1) : order'[i] = order'[j] => i = j
        <3> SUFFICES ASSUME NEW i \in 1..(n - 1), NEW j \in 1..(n - 1), order'[i] = order'[j]
                     PROVE  i = j
            OBVIOUS
        <3>1. i \in 1..n /\ i + 1 \in 1..n /\ j \in 1..n /\ j + 1 \in 1..n
            BY <1>2
        <3> QED
            BY <3>1, <1>2, <1>3, <1>5
    <2>3. \A x \in inited' : queued'[x] <=> x \in Elems(order')
        BY <2>1, <1>8 DEF FlagIsMembership, TypeOK
    <2>4. Elems(order') \subseteq inited'
        BY <2>1, <1>8 DEF FlagIsMembership
    <2> QED
        BY <2>2, <2>3, <2>4, <1>3 DEF FlagIsMembership, Elems
<1>13. NoLostWakeup'
    <2>1. Sleeping' = Sleeping /\ Woken' = Woken
        BY <1>8 DEF Sleeping, Woken
    <2>2. Len(order') <= Len(order)
        BY <1>2, <1>3 DEF n
    <2> QED
        BY <2>1, <2>2, <1>2, <1>3, WokenFinite DEF NoLostWakeup, n
<1> QED
    BY <1>10, <1>11, <1>12, <1>13

\* A thread that returns leaves the two sets it may have been in.
LEMMA ReturnFacts ==
    ASSUME TypeOK, NEW c \in Consumers, NEW x \in Pointers, Return(c, x)
    PROVE  /\ pc' \in [Consumers -> {"idle", "sleeping", "woken"}]
           /\ timeout' \in [Consumers -> Timeouts]
           /\ expired' \in [Consumers -> BOOLEAN]
           /\ got' \in [Consumers -> Pointers]
           /\ Sleeping' = Sleeping \ {c}
           /\ Woken' = Woken \ {c}
           /\ Cardinality(Woken') \in Nat
           /\ Cardinality(Woken') >= Cardinality(Woken) - 1
<1>1. /\ pc' \in [Consumers -> {"idle", "sleeping", "woken"}]
      /\ timeout' \in [Consumers -> Timeouts]
      /\ expired' \in [Consumers -> BOOLEAN]
      /\ got' \in [Consumers -> Pointers]
    BY DEF Return, TypeOK, Timeouts
<1>2. Sleeping' = Sleeping \ {c} /\ Woken' = Woken \ {c}
    BY DEF Return, TypeOK, Sleeping, Woken
<1>3. /\ Cardinality(Woken \ {c}) \in Nat
      /\ Cardinality(Woken \ {c}) >= Cardinality(Woken) - 1
    <2>1. IsFiniteSet(Woken \ {c})
        BY WokenFinite, FS_RemoveElement
    <2>2. Cardinality(Woken \ {c}) \in Nat
        BY <2>1, FS_CardinalityType
    <2>3. Cardinality(Woken \ {c}) = IF c \in Woken THEN Cardinality(Woken) - 1
                                                   ELSE Cardinality(Woken)
        BY WokenFinite, FS_RemoveElement
    <2> QED
        BY <2>2, <2>3, WokenFinite
<1> QED
    BY <1>1, <1>2, <1>3

\* The list is empty exactly when the head pointer is null.
LEMMA HeadNull ==
    ASSUME IInv
    PROVE  head = NULL <=> order = <<>>
BY NullAssumption DEF IInv, ListIsOrder, TypeOK

LEMMA TakeHeadIInv ==
    ASSUME IInv, NEW c \in Consumers, TakeHead(c)
    PROVE  IInv'
<1> USE NullAssumption
<1> USE DEF IInv
<1> DEFINE n == Len(order)
<1>1. order # <<>>
    BY HeadNull DEF TakeHead
<1>2. /\ n \in Nat /\ n > 0
      /\ \A i \in 1..n : order[i] \in Events /\ order[i] # NULL
    BY <1>1 DEF TypeOK
<1>3. /\ order' \in Seq(Events)
      /\ Len(order') = n - 1
      /\ \A i \in 1..(n - 1) : order'[i] = order[i + 1]
    BY <1>1 DEF TakeHead, TypeOK
<1>4. \A i, j \in 1..n : order[i] = order[j] => i = j
    BY DEF FlagIsMembership
<1>5. /\ head = order[1] /\ tail = order[n] /\ next[order[n]] = NULL
      /\ \A i \in 1..(n - 1) : next[order[i]] = order[i + 1]
    BY <1>1 DEF ListIsOrder
<1>6. head \in Events
    BY <1>2, <1>5
<1>7. /\ head' = next[head]
      /\ tail' = (IF next[head] = NULL THEN NULL ELSE tail)
      /\ next' = [next EXCEPT ![head] = NULL]
      /\ queued' = [queued EXCEPT ![head] = FALSE]
      /\ Return(c, head)
      /\ inited' = inited
    BY DEF TakeHead, FlagCleared
<1> HIDE DEF n
<1>8. /\ pc' \in [Consumers -> {"idle", "sleeping", "woken"}]
      /\ timeout' \in [Consumers -> Timeouts]
      /\ expired' \in [Consumers -> BOOLEAN]
      /\ got' \in [Consumers -> Pointers]
      /\ Sleeping' = Sleeping \ {c}
      /\ Cardinality(Woken') \in Nat
      /\ Cardinality(Woken') >= Cardinality(Woken) - 1
    BY <1>6, <1>7, ReturnFacts DEF Pointers
<1>9. TypeOK'
    <2>1. next[head] \in Pointers /\ NULL \in Pointers
        BY <1>6 DEF TypeOK, Pointers
    <2> QED
        BY <2>1, <1>3, <1>6, <1>7, <1>8 DEF TypeOK
<1>10. \A i \in 1..(n - 1) : order'[i] # head
    <2> TAKE i \in 1..(n - 1)
    <2>1. i + 1 \in 1..n /\ 1 \in 1..n /\ i + 1 # 1
        BY <1>2
    <2> QED
        BY <2>1, <1>3, <1>4, <1>5
<1>11. ListIsOrder'
    <2>1. CASE n = 1
        <3>1. order' = <<>> /\ Len(order') = 0
            BY <2>1, <1>3
        <3>2. head' = NULL /\ tail' = NULL
            BY <2>1, <1>5, <1>7
        <3> QED
            BY <3>1, <3>2 DEF ListIsOrder
    <2>2. CASE n > 1
        <3>1. 1 \in 1..(n - 1) /\ n - 1 \in 1..(n - 1) /\ n - 1 + 1 = n /\ 2 \in 1..n
            BY <2>2, <1>2
        <3>2. next[head] = order[2] /\ order[2] # NULL
            BY <3>1, <1>2, <1>5
        <3>3. head' = order'[1] /\ tail' = order'[n - 1]
            BY <3>1, <3>2, <1>3, <1>5, <1>7
        <3>4. \A i \in 1..(n - 1) : next'[order'[i]] = next[order[i + 1]]
            <4> TAKE i \in 1..(n - 1)
            <4>1. i + 1 \in 1..n
                BY <1>2
            <4>2. order[i + 1] \in Events /\ order[i + 1] # head
                BY <4>1, <1>2, <1>3, <1>10
            <4>3. next'[order[i + 1]] = next[order[i + 1]]
                BY <4>2, <1>6, <1>7 DEF TypeOK
            <4> QED
                BY <4>3, <1>3
        <3>5. next'[order'[n - 1]] = NULL
            BY <3>1, <3>4, <1>5
        <3>6. \A i \in 1..((n - 1) - 1) : next'[order'[i]] = order'[i + 1]
            <4> TAKE i \in 1..((n - 1) - 1)
            <4>1. i \in 1..(n - 1) /\ i + 1 \in 1..(n - 1)
                BY <1>2
            <4> QED
                BY <4>1, <3>4, <1>3, <1>5
        <3>7. order' # <<>>
            BY <2>2, <1>2, <1>3
        <3> QED
            BY <3>3, <3>5, <3>6, <3>7, <1>3 DEF ListIsOrder
    <2> QED
        BY <2>1, <2>2, <1>2
<1>12. FlagIsMembership'
    <2>1. ASSUME NEW x
          PROVE  x \in Elems(order') <=> x \in Elems(order) /\ x # head
        <3>1. ASSUME NEW i \in 1..n, order[i] # head
              PROVE  \E j \in 1..(n - 1) : order'[j] = order[i]
            <4>1. i # 1
                BY <3>1, <1>5
            <4>2. i - 1 \in 1..(n - 1) /\ (i - 1) + 1 = i
                BY <4>1, <1>2
            <4> QED
                BY <4>2, <1>3
        <3>2. ASSUME NEW i \in 1..(n - 1)
              PROVE  \E j \in 1..n : order'[i] = order[j]
            <4>1. i + 1 \in 1..n
                BY <1>2
            <4> QED
                BY <4>1, <1>3
        <3>3. Elems(order') = {order'[i] : i \in 1..(n - 1)}
            BY <1>3 DEF Elems
        <3>4. Elems(order) = {order[i] : i \in 1..n}
            BY DEF Elems, n
        <3> QED
            BY <3>1, <3>2, <3>3, <3>4, <1>10
    <2>2. \A i, j \in 1..(n - 1) : order'[i] = order'[j] => i = j
        <3> SUFFICES ASSUME NEW i \in 1..(n - 1), NEW j \in 1..(n - 1), order'[i] = order'[j]
                     PROVE  i = j
            OBVIOUS
        <3>1. i + 1 \in 1..n /\ j + 1 \in 1..n
            BY <1>2
        <3> QED
            BY <3>1, <1>2, <1>3, <1>4
    <2>3. \A x \in inited' : queued'[x] <=> x \in Elems(order')
        BY <2>1, <1>7 DEF FlagIsMembership, TypeOK
    <2>4. Elems(order') \subseteq inited'
        BY <2>1, <1>7 DEF FlagIsMembership
    <2> QED
        BY <2>2, <2>3, <2>4, <1>3 DEF FlagIsMembership, Elems
<1>13. NoLostWakeup'
    <2>1. SUFFICES ASSUME Sleeping' # {} PROVE Len(order') <= Cardinality(Woken')
        BY DEF NoLostWakeup
    <2>2. n <= Cardinality(Woken)
        BY <2>1, <1>8 DEF NoLostWakeup, n
    <2> QED
        BY <2>2, <1>2, <1>3, <1>8, WokenFinite
<1> QED
    BY <1>9, <1>11, <1>12, <1>13

LEMMA ReturnNothingIInv ==
    ASSUME IInv, NEW c \in Consumers, ReturnNothing(c)
    PROVE  IInv'
<1> USE DEF IInv
<1>1. order = <<>> /\ UNCHANGED <<head, tail, next, queued, inited, order>>
    BY HeadNull DEF ReturnNothing, list
<1>2. Return(c, NULL) /\ NULL \in Pointers
    BY DEF ReturnNothing, Pointers
<1>3. TypeOK'
    BY <1>1, <1>2, ReturnFacts DEF TypeOK
<1>4. ListIsOrder' /\ FlagIsMembership'
    BY <1>1 DEF ListIsOrder, FlagIsMembership, Elems
<1>5. NoLostWakeup'
    BY <1>1, <1>2, ReturnFacts DEF NoLostWakeup
<1> QED
    BY <1>3, <1>4, <1>5

\* The steps that only move a thread into or out of the wait.
LEMMA WaitIInv ==
    ASSUME IInv, NEW c \in Consumers,
           \/ \E t \in Timeouts : GetWait(c, t)
           \/ WaitExpires(c)
           \/ SpuriousWakeup(c)
           \/ WokenWaitsAgain(c)
    PROVE  IInv'
<1> USE DEF IInv
<1>1. UNCHANGED <<head, tail, next, queued, inited, got, order>>
    BY DEF GetWait, WaitExpires, SpuriousWakeup, WokenWaitsAgain, list
<1>2. TypeOK'
    BY <1>1 DEF TypeOK, GetWait, WaitExpires, SpuriousWakeup, WokenWaitsAgain
<1>3. ListIsOrder' /\ FlagIsMembership'
    BY <1>1 DEF ListIsOrder, FlagIsMembership, Elems
<1>4. NoLostWakeup'
    <2>1. CASE head = NULL
        <3>1. Len(order') = 0
            BY <2>1, <1>1, HeadNull
        <3>2. Cardinality(Woken') \in Nat
            <4>1. Woken' \in SUBSET Consumers
                BY DEF Woken
            <4> QED
                BY <4>1, FiniteAssumption, FS_Subset, FS_CardinalityType
        <3> QED
            BY <3>1, <3>2 DEF NoLostWakeup
    <2>2. CASE WaitExpires(c) \/ SpuriousWakeup(c)
        <3>1. c \in Sleeping /\ c \notin Woken /\ Woken' = Woken \cup {c}
            BY <2>2 DEF WaitExpires, SpuriousWakeup, Sleeping, Woken, TypeOK
        <3>2. Cardinality(Woken') = Cardinality(Woken) + 1
            BY <3>1, WokenFinite, FS_AddElement
        <3>3. Len(order) \in Nat /\ Len(order) <= Cardinality(Woken)
            BY <3>1 DEF NoLostWakeup, TypeOK
        <3> QED
            BY <3>2, <3>3, <1>1, WokenFinite DEF NoLostWakeup
    <2> QED
        BY <2>1, <2>2 DEF GetWait, WokenWaitsAgain
<1> QED
    BY <1>2, <1>3, <1>4

LEMMA NextIInv == IInv /\ [Next]_vars => IInv'
<1> SUFFICES ASSUME IInv, [Next]_vars PROVE IInv'
    OBVIOUS
<1>1. ASSUME NEW e \in Events, EventInit(e) PROVE IInv'
    BY <1>1, EventInitIInv
<1>2. ASSUME NEW e \in Events, Put(e) PROVE IInv'
    BY <1>2, PutIInv
<1>3. ASSUME NEW e \in Events, Remove(e) PROVE IInv'
    BY <1>3, RemoveIInv
<1>4. ASSUME NEW c \in Consumers, Get(c) PROVE IInv'
    <2>1. CASE GetNow(c)
        BY <2>1, TakeHeadIInv DEF GetNow
    <2>2. CASE GetZero(c)
        BY <2>2, ReturnNothingIInv DEF GetZero
    <2>3. CASE \E t \in Timeouts \ {"zero"} : GetWait(c, t)
        BY <2>3, WaitIInv
    <2> QED
        BY <1>4, <2>1, <2>2, <2>3 DEF Get
<1>5. ASSUME NEW c \in Consumers, Resume(c) PROVE IInv'
    <2>1. CASE WokenTakes(c)
        BY <2>1, TakeHeadIInv DEF WokenTakes
    <2>2. CASE WokenGivesUp(c)
        BY <2>2, ReturnNothingIInv DEF WokenGivesUp
    <2>3. CASE WokenWaitsAgain(c)
        BY <2>3, WaitIInv
    <2> QED
        BY <1>5, <2>1, <2>2, <2>3 DEF Resume
<1>6. ASSUME NEW c \in Consumers, WaitExpires(c) \/ SpuriousWakeup(c) PROVE IInv'
    BY <1>6, WaitIInv
<1>7. CASE UNCHANGED vars
    BY <1>7 DEF vars, IInv, TypeOK, ListIsOrder, FlagIsMembership, NoLostWakeup,
                Elems, Sleeping, Woken
<1> QED
    BY <1>1, <1>2, <1>3, <1>4, <1>5, <1>6, <1>7 DEF Next

-----------------------------------------------------------------------------
(* The theorems.                                                           *)

\* The inductive invariant holds in every reachable state of the queue.
THEOREM Invariance == Spec => []IInv
BY InitIInv, NextIInv, PTL DEF Spec

\* Every variable keeps its type: no operation of the queue follows or stores
\* a dangling pointer.
THEOREM TypeCorrect == Spec => []TypeOK
BY Invariance, PTL DEF IInv

\* In every reachable state the pointers of the list spell out the events
\* put and not yet taken or removed, oldest first.
THEOREM ListCorrect == Spec => []ListIsOrder
BY Invariance, PTL DEF IInv

\* In every reachable state e->queued is true exactly for the events on the
\* list, and no event is on it twice.
THEOREM FlagCorrect == Spec => []FlagIsMembership
BY Invariance, PTL DEF IInv

\* No wake-up is lost: while a thread sleeps in ble_npl_eventq_get each event
\* on the list has a woken thread of its own.
THEOREM WakeupCorrect == Spec => []NoLostWakeup
BY Invariance, PTL DEF IInv

\* A get that takes the head is a get of the abstract queue.
LEMMA TakeHeadIsGet ==
    ASSUME IInv, NEW c \in Consumers, TakeHead(c)
    PROVE  Abs!AbsGet(c)
<1>1. order # <<>>
    BY HeadNull DEF TakeHead
<1>2. head = Head(order)
    BY <1>1 DEF IInv, ListIsOrder, TypeOK
<1> QED
    BY <1>1, <1>2 DEF TakeHead, Return, Abs!AbsGet

\* Every step of the list is a step of the abstract queue or leaves it alone.
LEMMA NextRefines ==
    ASSUME IInv, [Next]_vars
    PROVE  [Abs!AbsNext]_(Abs!absVars)
<1>1. ASSUME NEW e \in Events, EventInit(e)
      PROVE  UNCHANGED Abs!absVars
    BY <1>1 DEF EventInit, Abs!absVars
<1>2. ASSUME NEW e \in Events, Put(e)
      PROVE  Abs!AbsPut(e)
    BY <1>2 DEF Put, Linkable, Abs!AbsPut, Abs!Elems, IInv, FlagIsMembership, Elems
<1>3. ASSUME NEW e \in Events, Remove(e)
      PROVE  Abs!AbsRemove(e)
    BY <1>3 DEF Remove, Without, Abs!AbsRemove, Abs!Without
<1>4. ASSUME NEW c \in Consumers, ReturnNothing(c)
      PROVE  Abs!AbsGetNothing(c)
    BY <1>4, HeadNull DEF ReturnNothing, Return, Abs!AbsGetNothing
<1>5. ASSUME NEW c \in Consumers, Get(c) \/ Resume(c)
      PROVE  Abs!AbsNext \/ UNCHANGED Abs!absVars
    <2>1. CASE TakeHead(c)
        BY <2>1, TakeHeadIsGet DEF Abs!AbsNext
    <2>2. CASE ReturnNothing(c)
        BY <2>2, <1>4 DEF Abs!AbsNext
    <2>3. CASE WokenWaitsAgain(c) \/ \E t \in Timeouts : GetWait(c, t)
        BY <2>3 DEF WokenWaitsAgain, GetWait, Abs!absVars
    <2> QED
        BY <1>5, <2>1, <2>2, <2>3
        DEF Get, Resume, GetNow, GetZero, WokenTakes, WokenGivesUp
<1>6. ASSUME NEW c \in Consumers, WaitExpires(c) \/ SpuriousWakeup(c)
      PROVE  UNCHANGED Abs!absVars
    BY <1>6 DEF WaitExpires, SpuriousWakeup, Abs!absVars
<1>7. CASE UNCHANGED vars
    BY <1>7 DEF vars, Abs!absVars
<1> QED
    BY <1>1, <1>2, <1>3, <1>5, <1>6, <1>7 DEF Next, Abs!AbsNext

\* The linked list of nimble_npl_os.c, with its waits and wake-ups, implements
\* the first-in first-out queue of NplEventqAbs.
THEOREM FifoCorrect == Spec => ImplementsFifo
<1>1. Init => Abs!AbsInit
    BY DEF Init, Abs!AbsInit
<1>2. IInv /\ [Next]_vars => [Abs!AbsNext]_(Abs!absVars)
    BY NextRefines
<1> QED
    BY <1>1, <1>2, Invariance, PTL DEF Spec, ImplementsFifo, Abs!AbsSpec
=============================================================================
