----------------------------- MODULE WlanSession ----------------------------
(***************************************************************************)
(* A session of libwlan_offload with the WLAN control device               *)
(* (wlan_offload/src/wlan_offload_client.c).  Threads share one handle:    *)
(* they draw request ids from one atomic counter, write commands and read  *)
(* messages from one descriptor.  A query (get_info, get_names) writes its *)
(* command and takes the next message for its answer; receive_event takes  *)
(* the next message for an event.  With a timeout, read follows a poll; the*)
(* descriptor itself blocks.                                               *)
(*                                                                         *)
(* The kernel side is outside the repository: it answers commands in any   *)
(* order, late or never, and reports events of its own.  Messages carry as *)
(* history the number of the call they answer.                             *)
(***************************************************************************)
EXTENDS Integers, Sequences, FiniteSets

CONSTANTS
    Threads,
    Readers,    \* the threads that read messages: query or receive events
    Modulus,    \* 2^32, the range of the request ids
    Events,     \* the messages the kernel sends by itself
    MaxCalls,   \* bound: the calls made in a session
    MaxQueue    \* bound: the messages the kernel holds

\* Ids come around again after Modulus - 1 commands; a session is shorter.
ASSUME SessionAssumption ==
    /\ IsFiniteSet(Threads) /\ Readers \subseteq Threads
    /\ Modulus \in Nat /\ MaxCalls \in Nat /\ MaxCalls + 2 <= Modulus
    /\ Events \subseteq {"EVENT", "BAD"}

Queries == {"INFO", "NAMES"}
Timed == Queries \cup {"receive"}           \* the calls with a timeout
\* Every call: "send" stands for the commands with a new id, "respond" for
\* the ones that name an id (abort_scan, external_auth_response), "listen"
\* for receive_event with timeout -1.
Ops == Timed \cup {"send", "respond", "listen"}
CallsOf(t) == IF t \in Readers THEN Ops ELSE {"send", "respond"}
\* A message is a record of its type, its request id, and as history the call
\* it answers (0: none).  Its type is that of a query, "DONE" (reports on a
\* command), "FAILED" (answers a query with a status other than 0), "EVENT", or
\* "BAD" (a header that is refused).

VARIABLES
    open,       \* the handle exists
    nextId,     \* handle->next_request_id
    pc,         \* thread -> "idle", "draw", "redraw", "write", "poll", "read"
    op,         \* thread -> its last call
    id,         \* thread -> the request id of it
    call,       \* thread -> history: its number
    res,        \* thread -> what it returned
    taken,      \* thread -> history: the call its message answered, 0 if none
    calls,      \* history: the number of calls in this session
    pending,    \* the commands the kernel has not answered
    queue       \* the messages of the kernel nobody has read

threadVars == <<pc, op, id, call, res, taken>>
kernel == <<pending, queue>>
vars == <<open, nextId, pc, op, id, call, res, taken, calls, pending, queue>>

\* A session that has already sent any number of commands, and is quiet.
Init ==
    /\ open = TRUE
    /\ nextId \in 0..Modulus-1
    /\ pc = [t \in Threads |-> "idle"]
    /\ op = [t \in Threads |-> "send"]
    /\ id = [t \in Threads |-> 0]
    /\ call = [t \in Threads |-> 0]
    /\ res = [t \in Threads |-> "none"]
    /\ taken = [t \in Threads |-> 0]
    /\ calls = 0
    /\ pending = {}
    /\ queue = <<>>

-----------------------------------------------------------------------------
(* The handle.                                                             *)

\* wlan_offload_close, when no call is under way; the kernel forgets the
\* session.
Close ==
    /\ open
    /\ \A t \in Threads : pc[t] = "idle"
    /\ open' = FALSE
    /\ pending' = {}
    /\ queue' = <<>>
    /\ UNCHANGED <<nextId, threadVars, calls>>

\* wlan_offload_open: a new handle counts from 0.
Open ==
    /\ ~open
    /\ open' = TRUE
    /\ nextId' = 0
    /\ calls' = 0
    /\ id' = [t \in Threads |-> 0]
    /\ call' = [t \in Threads |-> 0]
    /\ res' = [t \in Threads |-> "none"]
    /\ taken' = [t \in Threads |-> 0]
    /\ UNCHANGED <<pc, op, kernel>>

-----------------------------------------------------------------------------
(* A call.                                                                 *)

Return(t, r) ==
    /\ pc' = [pc EXCEPT ![t] = "idle"]
    /\ res' = [res EXCEPT ![t] = r]

\* A call begins, with the id i where it names one.
Begin(t, o, i) ==
    /\ open
    /\ pc[t] = "idle"
    /\ calls < MaxCalls
    /\ calls' = calls + 1
    /\ op' = [op EXCEPT ![t] = o]
    /\ call' = [call EXCEPT ![t] = calls + 1]
    /\ id' = [id EXCEPT ![t] = i]
    /\ res' = [res EXCEPT ![t] = "none"]
    /\ taken' = [taken EXCEPT ![t] = 0]
    /\ pc' = [pc EXCEPT ![t] = CASE o \in Queries \cup {"send"} -> "draw"
                                 [] o = "respond" -> "write"
                                 [] o = "receive" -> "poll"
                                 [] o = "listen" -> "read"]
    /\ UNCHANGED <<open, nextId, kernel>>

\* The counter after an atomic increment.
Incremented == (nextId + 1) % Modulus

\* wlan_offload_next_request_id: the first increment ...
Draw(t) ==
    /\ pc[t] = "draw"
    /\ nextId' = Incremented
    /\ id' = [id EXCEPT ![t] = Incremented]
    /\ pc' = [pc EXCEPT ![t] = IF Incremented = 0 THEN "redraw" ELSE "write"]
    /\ UNCHANGED <<open, op, call, res, taken, calls, kernel>>

\* Fault: 0 is replaced by 1 behind the counter's back.
RedrawsOne(t) ==
    /\ pc[t] = "redraw"
    /\ id' = [id EXCEPT ![t] = 1]
    /\ pc' = [pc EXCEPT ![t] = "write"]
    /\ UNCHANGED <<open, nextId, op, call, res, taken, calls, kernel>>

\* ... and another one, because 0 is no id.
Redraw(t) ==
    /\ pc[t] = "redraw"
    /\ nextId' = Incremented
    /\ id' = [id EXCEPT ![t] = Incremented]
    /\ pc' = [pc EXCEPT ![t] = "write"]
    /\ UNCHANGED <<open, op, call, res, taken, calls, kernel>>

\* wlan_offload_send_command_id: the command goes out whole ...
Write(t) ==
    /\ pc[t] = "write"
    /\ id[t] # 0
    /\ pending' = pending \cup
          {[type |-> IF op[t] \in Queries THEN op[t] ELSE "DONE",
            id |-> id[t], call |-> call[t]]}
    /\ \/ /\ op[t] \in Queries
          /\ pc' = [pc EXCEPT ![t] = "poll"]
          /\ UNCHANGED res
       \/ /\ op[t] \notin Queries
          /\ Return(t, "ok")
    /\ UNCHANGED <<open, nextId, op, id, call, taken, calls, queue>>

\* ... or is refused, here or by the kernel.  The id is spent.
WriteFails(t) ==
    /\ pc[t] = "write"
    /\ Return(t, IF id[t] = 0 THEN "EINVAL" ELSE "error")
    /\ UNCHANGED <<open, nextId, op, id, call, taken, calls, kernel>>

\* Fault: the end of the timeout is taken for readiness.
Readable == TRUE

Ready == queue # <<>>

\* wlan_offload_read_message with a timeout: there is something to read ...
Poll(t) ==
    /\ pc[t] = "poll"
    /\ Ready
    /\ pc' = [pc EXCEPT ![t] = "read"]
    /\ UNCHANGED <<open, nextId, op, id, call, res, taken, calls, kernel>>

\* ... or the time is over, or the device is gone.
PollFails(t) ==
    /\ pc[t] = "poll"
    /\ \/ ~Ready /\ Return(t, "ETIMEDOUT")
       \/ Return(t, "error")
    /\ UNCHANGED <<open, nextId, op, id, call, taken, calls, kernel>>

\* Fault: any answer of the right type will do.
TypeMatches(t, m) == m.type = op[t]

\* What get_info and get_names require of the message.
Matches(t, m) == m.type = op[t] /\ m.id = id[t]

\* The result of decoding the message for the call of t.
Decoded(t, m) ==
    CASE m.type = "BAD" -> "EPROTO"
      [] op[t] \in Queries -> IF Matches(t, m) THEN "ok" ELSE "EPROTO"
      [] m.type \in Queries \cup {"FAILED"} -> "ENOMSG"
      [] OTHER -> "ok"

\* read takes the next message, waiting for one if there is none.
Read(t) ==
    /\ pc[t] = "read"
    /\ queue # <<>>
    /\ queue' = Tail(queue)
    /\ taken' = [taken EXCEPT ![t] = Head(queue).call]
    /\ Return(t, Decoded(t, Head(queue)))
    /\ UNCHANGED <<open, nextId, op, id, call, calls, pending>>

ReadFails(t) ==
    /\ pc[t] = "read"
    /\ queue # <<>>
    /\ Return(t, "error")
    /\ UNCHANGED <<open, nextId, op, id, call, taken, calls, kernel>>

Step(t) ==
    \/ Draw(t) \/ Redraw(t) \/ Write(t) \/ WriteFails(t)
    \/ Poll(t) \/ PollFails(t) \/ Read(t) \/ ReadFails(t)

-----------------------------------------------------------------------------
(* The kernel.                                                             *)

\* It answers a command, well or with an error, or drops it.
Answer ==
    \E c \in pending :
        /\ pending' = pending \ {c}
        /\ \/ Len(queue) < MaxQueue /\ queue' = Append(queue, c)
           \/ /\ Len(queue) < MaxQueue /\ c.type \in Queries
              /\ queue' = Append(queue, [type |-> "FAILED", id |-> c.id, call |-> 0])
           \/ UNCHANGED queue
        /\ UNCHANGED <<open, nextId, threadVars, calls>>

\* It reports an event.
Report(e) ==
    /\ open
    /\ Len(queue) < MaxQueue
    /\ queue' = Append(queue, [type |-> e, id |-> 0, call |-> 0])
    /\ UNCHANGED <<open, nextId, threadVars, calls, pending>>

Next ==
    \/ Open \/ Close
    \/ \E t \in Threads : \E o \in CallsOf(t) \ {"respond"} : Begin(t, o, 0)
    \/ \E t \in Threads, i \in {0, 1} : Begin(t, "respond", i)
    \/ \E t \in Threads : Step(t)
    \/ Answer
    \/ \E e \in Events : Report(e)

Spec == Init /\ [][Next]_vars

\* Every thread is scheduled; the kernel owes nothing.
FairSpec == Spec /\ \A t \in Threads : WF_vars(Step(t))

-----------------------------------------------------------------------------
(* Properties.                                                             *)

\* The threads whose id comes from the counter and is in use.
Holding == {t \in Threads : /\ pc[t] \in {"write", "poll", "read"}
                            /\ op[t] \in Queries \cup {"send"}}

\* Ids in use are not 0, which the kernel refuses, and not shared, also when
\* the counter comes around while several threads are drawing.
IdsDistinct ==
    /\ \A t \in Holding : id[t] # 0
    /\ \A t, u \in Holding : t # u => id[t] # id[u]

\* A query that succeeds returns the answer to itself, whatever other threads
\* ask at the same time and whatever late answers to earlier queries are
\* still in the queue.
AnswerIsMine ==
    \A t \in Threads :
        op[t] \in Queries /\ res[t] = "ok" /\ pc[t] = "idle" => taken[t] = call[t]

\* A call with a timeout returns, as the header has it ("timeout_ms is -1 for
\* infinite wait, 0 for nonblocking, or a timeout"), although the descriptor
\* blocks.
TimedReturns ==
    \A t \in Threads : op[t] \in Timed /\ pc[t] # "idle" ~> pc[t] = "idle"

\* The threads that are inside wlan_offload_read_message.
Reading == {t \in Threads : pc[t] \in {"poll", "read"}}

\* The same, however the kernel behaves, as long as no two threads read at the
\* same time.
LoneReaderReturns == [](Cardinality(Reading) <= 1) => TimedReturns
=============================================================================
