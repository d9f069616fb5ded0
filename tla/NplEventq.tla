----------------------------- MODULE NplEventq ------------------------------
(***************************************************************************)
(* The event queue of the NimBLE porting layer                             *)
(* (3rd-party/nimble/port/src/nimble_npl_os.c): an intrusive singly linked *)
(* list with head and tail pointers, guarded by a mutex, and a condition   *)
(* variable on which ble_npl_eventq_get blocks.                            *)
(*                                                                         *)
(* Every operation holds eventq->lock from its first to its last access to *)
(* the list, except while it sleeps in pthread_cond_(timed)wait.  A step   *)
(* of this module is therefore one such critical section: a whole put or   *)
(* remove, and for a get the part up to the wait, or the part from the     *)
(* wake-up on.                                                             *)
(***************************************************************************)
EXTENDS Naturals, Sequences, FiniteSets

CONSTANTS
    Events,     \* the struct ble_npl_event objects, each used with this queue only
    Consumers,  \* the threads that call ble_npl_eventq_get
    NULL        \* the null pointer

ASSUME NullAssumption == NULL \notin Events

ASSUME FiniteAssumption == IsFiniteSet(Events) /\ IsFiniteSet(Consumers)

Pointers == Events \cup {NULL}

\* The three ways the timeout argument of ble_npl_eventq_get is treated:
\* 0, BLE_NPL_TIME_FOREVER, and anything in between.
Timeouts == {"zero", "finite", "forever"}

VARIABLES
    head, tail,     \* eventq->head, eventq->tail
    next,           \* next[e]: e->next
    queued,         \* queued[e]: e->queued
    inited,         \* the events ble_npl_event_init was called for
    pc,             \* pc[c]: "idle", "sleeping" in the wait, or "woken":
                    \*   out of the wait and about to take the lock again
    timeout,        \* timeout[c]: the timeout argument of c's current get
    expired,        \* expired[c]: the wait returned ETIMEDOUT (result # 0)
    got,            \* got[c]: what c's last finished get returned
    order           \* history: the events put and neither got nor removed
                    \*   since, in the order of the puts

list == <<head, tail, next, queued>>
waiters == <<pc, timeout, expired>>
vars == <<head, tail, next, queued, inited, pc, timeout, expired, got, order>>

TypeOK ==
    /\ head \in Pointers
    /\ tail \in Pointers
    /\ next \in [Events -> Pointers]
    /\ queued \in [Events -> BOOLEAN]
    /\ inited \in SUBSET Events
    /\ pc \in [Consumers -> {"idle", "sleeping", "woken"}]
    /\ timeout \in [Consumers -> Timeouts]
    /\ expired \in [Consumers -> BOOLEAN]
    /\ got \in [Consumers -> Pointers]
    /\ order \in Seq(Events)

\* ble_npl_eventq_init clears the queue; the memory of an event holds
\* anything until ble_npl_event_init.
Init ==
    /\ head = NULL
    /\ tail = NULL
    /\ next \in [Events -> Pointers]
    /\ queued \in [Events -> BOOLEAN]
    /\ inited = {}
    /\ pc = [c \in Consumers |-> "idle"]
    /\ timeout = [c \in Consumers |-> "zero"]
    /\ expired = [c \in Consumers |-> FALSE]
    /\ got = [c \in Consumers |-> NULL]
    /\ order = <<>>

-----------------------------------------------------------------------------

Sleeping == {c \in Consumers : pc[c] = "sleeping"}
Woken == {c \in Consumers : pc[c] = "woken"}

Elems(s) == {s[i] : i \in 1..Len(s)}

\* s without its k-th element.
Without(s, k) == [i \in 1..(Len(s) - 1) |-> IF i < k THEN s[i] ELSE s[i + 1]]

\* Fault: the wake-up is forgotten.
SignalNobody == UNCHANGED pc

\* pthread_cond_signal: one of the threads in the wait, if there is one,
\* leaves it with result 0.
Signal ==
    \/ /\ Sleeping = {}
       /\ UNCHANGED pc
    \/ \E c \in Sleeping : pc' = [pc EXCEPT ![c] = "woken"]

\* The events a walk from head along the next pointers visits: the smallest
\* set that holds head and is closed under next.
Visited ==
    {e \in Events :
        \A S \in SUBSET Events :
            /\ head # NULL => head \in S
            /\ \A x \in S : next[x] # NULL => next[x] \in S
            => e \in S}

-----------------------------------------------------------------------------
(* The operations.                                                         *)

\* An event is initialised once, before it is used.
EventInit(e) ==
    /\ e \notin inited
    /\ inited' = inited \cup {e}
    /\ next' = [next EXCEPT ![e] = NULL]
    /\ queued' = [queued EXCEPT ![e] = FALSE]
    /\ UNCHANGED <<head, tail, waiters, got, order>>

\* put links an event only when it is not on a list already.
Linkable(e) == ~queued[e]

\* An event that is not queued yet goes to the tail and one sleeper is woken.
Put(e) ==
    /\ e \in inited
    /\ Linkable(e)
    /\ queued' = [queued EXCEPT ![e] = TRUE]
    /\ IF tail # NULL
       THEN /\ next' = [next EXCEPT ![e] = NULL, ![tail] = e]
            /\ UNCHANGED head
       ELSE /\ next' = [next EXCEPT ![e] = NULL]
            /\ head' = e
    /\ tail' = e
    /\ Signal
    /\ order' = Append(order, e)
    /\ UNCHANGED <<inited, timeout, expired, got>>

\* The tail after e was unlinked from behind previous.
\* Fault: the tail is not repaired.
TailKept(e, previous) == tail

TailWithout(e, previous) == IF tail = e THEN previous ELSE tail

\* The walk finds the event, unlinks it from its predecessor and repairs the
\* tail.  When it is not on the list nothing changes.
Remove(e) ==
    /\ e \in inited
    /\ e \in Visited
    /\ LET previous == IF e = head THEN NULL
                       ELSE CHOOSE p \in Visited : next[p] = e
       IN /\ IF previous # NULL
             THEN /\ next' = [next EXCEPT ![e] = NULL, ![previous] = next[e]]
                  /\ UNCHANGED head
             ELSE /\ head' = next[e]
                  /\ next' = [next EXCEPT ![e] = NULL]
          /\ tail' = TailWithout(e, previous)
    /\ queued' = [queued EXCEPT ![e] = FALSE]
    /\ \E k \in 1..Len(order) : order[k] = e /\ order' = Without(order, k)
    /\ UNCHANGED <<inited, waiters, got>>

\* c's call of ble_npl_eventq_get returns e; its local variables are gone.
Return(c, e) ==
    /\ got' = [got EXCEPT ![c] = e]
    /\ pc' = [pc EXCEPT ![c] = "idle"]
    /\ timeout' = [timeout EXCEPT ![c] = "zero"]
    /\ expired' = [expired EXCEPT ![c] = FALSE]

\* The flag of an event that leaves the list is cleared.
FlagCleared(e) == [queued EXCEPT ![e] = FALSE]

\* c takes the head of the list and returns it.
TakeHead(c) ==
    /\ head # NULL
    /\ head' = next[head]
    /\ tail' = IF next[head] = NULL THEN NULL ELSE tail
    /\ next' = [next EXCEPT ![head] = NULL]
    /\ queued' = FlagCleared(head)
    /\ Return(c, head)
    /\ order' = Tail(order)
    /\ UNCHANGED inited

\* c returns without an event.
ReturnNothing(c) ==
    /\ head = NULL
    /\ Return(c, NULL)
    /\ UNCHANGED <<list, inited, order>>

\* A get finds an event at once.
GetNow(c) ==
    /\ pc[c] = "idle"
    /\ TakeHead(c)

\* A get with timeout 0 does not wait.
GetZero(c) ==
    /\ pc[c] = "idle"
    /\ ReturnNothing(c)

\* A get finds the list empty and sleeps, which releases the lock.
GetWait(c, t) ==
    /\ pc[c] = "idle"
    /\ head = NULL
    /\ pc' = [pc EXCEPT ![c] = "sleeping"]
    /\ timeout' = [timeout EXCEPT ![c] = t]
    /\ expired' = [expired EXCEPT ![c] = FALSE]
    /\ UNCHANGED <<list, inited, got, order>>

\* The wait of a finite timeout reaches its deadline.
WaitExpires(c) ==
    /\ pc[c] = "sleeping"
    /\ timeout[c] = "finite"
    /\ pc' = [pc EXCEPT ![c] = "woken"]
    /\ expired' = [expired EXCEPT ![c] = TRUE]
    /\ UNCHANGED <<list, inited, timeout, got, order>>

\* A condition wait may also return without a signal.
SpuriousWakeup(c) ==
    /\ pc[c] = "sleeping"
    /\ pc' = [pc EXCEPT ![c] = "woken"]
    /\ UNCHANGED <<list, inited, timeout, expired, got, order>>

\* A woken get has the lock again and finds an event.
WokenTakes(c) ==
    /\ pc[c] = "woken"
    /\ TakeHead(c)

\* A woken get whose wait expired finds none.
WokenGivesUp(c) ==
    /\ pc[c] = "woken"
    /\ expired[c]
    /\ ReturnNothing(c)

\* Fault: the result of the timed wait is ignored.
WokenIgnoresTimeout(c) ==
    /\ pc[c] = "woken"
    /\ head = NULL
    /\ pc' = [pc EXCEPT ![c] = "sleeping"]
    /\ UNCHANGED <<list, inited, timeout, expired, got, order>>

\* A woken get finds none, its time is not over, and it waits again.
WokenWaitsAgain(c) ==
    /\ pc[c] = "woken"
    /\ ~expired[c]
    /\ head = NULL
    /\ pc' = [pc EXCEPT ![c] = "sleeping"]
    /\ UNCHANGED <<list, inited, timeout, expired, got, order>>

Get(c) ==
    \/ GetNow(c)
    \/ GetZero(c)
    \/ \E t \in Timeouts \ {"zero"} : GetWait(c, t)

Resume(c) ==
    \/ WokenTakes(c)
    \/ WokenGivesUp(c)
    \/ WokenWaitsAgain(c)

Next ==
    \/ \E e \in Events : EventInit(e) \/ Put(e) \/ Remove(e)
    \/ \E c \in Consumers :
        Get(c) \/ Resume(c) \/ WaitExpires(c) \/ SpuriousWakeup(c)

Spec == Init /\ [][Next]_vars

\* The host task calls ble_npl_eventq_get again and again; a thread that left
\* the wait gets the lock in the end; and since the deadline of a timed wait
\* is computed once, before the loop, every such get comes to a wait that ends
\* with ETIMEDOUT however often it was woken before (hence the strong form).
Fairness ==
    \A c \in Consumers :
        /\ WF_vars(GetNow(c) \/ GetWait(c, "forever"))
        /\ WF_vars(Resume(c))
        /\ SF_vars(WaitExpires(c))

FairSpec == Spec /\ Fairness

-----------------------------------------------------------------------------
(* Properties.                                                             *)

\* The pointers spell out the puts: from head along next to tail one meets
\* exactly the events that were put and not taken or removed since, oldest
\* first, and the last one's next is null (the unlinking of
\* ble_npl_eventq_remove, and the empty-list cases of get and put).
ListIsOrder ==
    /\ order = <<>> => head = NULL /\ tail = NULL
    /\ order # <<>> => /\ head = order[1]
                       /\ tail = order[Len(order)]
                       /\ next[order[Len(order)]] = NULL
    /\ \A i \in 1..(Len(order) - 1) : next[order[i]] = order[i + 1]

\* No event is on the list twice, and e->queued, by which
\* ble_npl_eventq_put decides whether to link e, is true exactly for the
\* events on the list.
FlagIsMembership ==
    /\ Elems(order) \subseteq inited
    /\ \A i, j \in 1..Len(order) : order[i] = order[j] => i = j
    /\ \A e \in inited : queued[e] <=> e \in Elems(order)

\* While a thread sleeps in ble_npl_eventq_get, every event on the list has a
\* thread of its own on the way to take it: although put signals only once
\* per event, and a signalled thread may find its event stolen by a thread
\* that never slept, no event waits with nobody to fetch it.
NoLostWakeup == Sleeping # {} => Len(order) <= Cardinality(Woken)

Abs == INSTANCE NplEventqAbs WITH queue <- order

\* The linked list with its waits is a first-in first-out queue that hands
\* each event to one thread, and answers NULL only when it is empty.
ImplementsFifo == Abs!AbsSpec

\* Every event put is taken or removed in the end.
EventLeaves ==
    \A e \in Events : (e \in inited /\ queued[e]) ~> ~queued[e]

\* A ble_npl_eventq_get with a finite timeout returns, whatever the other
\* threads do to the queue meanwhile.
TimedGetReturns ==
    \A c \in Consumers : timeout[c] = "finite" ~> pc[c] = "idle"
=============================================================================
