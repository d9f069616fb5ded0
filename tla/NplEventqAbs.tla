---------------------------- MODULE NplEventqAbs ----------------------------
(***************************************************************************)
(* What the event queue of the NimBLE porting layer promises to the host   *)
(* stack: a first-in first-out queue in which an event occurs at most      *)
(* once.  Putting an event that is already queued changes nothing, getting *)
(* takes the oldest event, and removing takes an event out wherever it     *)
(* stands without disturbing the order of the others.                      *)
(*                                                                         *)
(* NplEventq models the code and implements this specification.            *)
(***************************************************************************)
EXTENDS Naturals, Sequences

CONSTANTS
    Events,     \* the struct ble_npl_event objects
    Consumers,  \* the threads that call ble_npl_eventq_get
    NULL        \* the null pointer

VARIABLES
    queue,      \* the queued events, oldest first
    got         \* got[c]: the result of c's last ble_npl_eventq_get

absVars == <<queue, got>>

Elems(s) == {s[i] : i \in 1..Len(s)}

\* s without its k-th element.
Without(s, k) == [i \in 1..(Len(s) - 1) |-> IF i < k THEN s[i] ELSE s[i + 1]]

AbsInit ==
    /\ queue = <<>>
    /\ got = [c \in Consumers |-> NULL]

AbsPut(e) ==
    /\ e \notin Elems(queue)
    /\ queue' = Append(queue, e)
    /\ UNCHANGED got

AbsRemove(e) ==
    /\ \E k \in 1..Len(queue) : queue[k] = e /\ queue' = Without(queue, k)
    /\ UNCHANGED got

\* The oldest event is handed to c.
AbsGet(c) ==
    /\ queue # <<>>
    /\ got' = [got EXCEPT ![c] = Head(queue)]
    /\ queue' = Tail(queue)

\* A get that gives up returns no event, and only when there is none.
AbsGetNothing(c) ==
    /\ queue = <<>>
    /\ got' = [got EXCEPT ![c] = NULL]
    /\ UNCHANGED queue

AbsNext ==
    \/ \E e \in Events : AbsPut(e) \/ AbsRemove(e)
    \/ \E c \in Consumers : AbsGet(c) \/ AbsGetNothing(c)

AbsSpec == AbsInit /\ [][AbsNext]_absVars
=============================================================================
