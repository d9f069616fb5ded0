------------------------------- MODULE ModemAt ------------------------------
(***************************************************************************)
(* The AT channel of the 4G modem component                                *)
(* (rtsmart_hal/components/modem/hal_modem.c).  A reader thread owns the   *)
(* tty: it opens, reads, closes and reopens it, throws away what it reads  *)
(* while no command is in flight and appends it to at_buf while one is.    *)
(* One caller thread, the contract of the component, sends commands and    *)
(* polls at_buf for an answer.                                             *)
(*                                                                         *)
(* The modem behind the tty is outside the repository: it answers late, or *)
(* never, sends unsolicited codes, blocks while the host does not read,    *)
(* and may disappear with its device node.  Its lines are tokens, which    *)
(* carry as history the number of the command they answer.                 *)
(***************************************************************************)
EXTENDS Integers, Sequences

CONSTANTS
    MaxCmds,    \* bound: the commands sent
    MaxRx,      \* the tokens the tty and the modem's endpoint hold unread
    AtBuf,      \* AT_BUF_SIZE - 1, in tokens
    RespBuf     \* the size of the caller's response buffer, in tokens

ASSUME AtBufAssumption ==
    AtBuf \in Nat \ {0} /\ MaxRx \in Nat \ {0} /\ RespBuf \in 1..AtBuf /\ MaxCmds \in Nat

CmdKinds == {"probe", "dial", "imei"}      \* at_ready, modem_dial, modem_get_imei
NoCmd == [kind |-> "probe", id |-> 0]
Cmds == [kind : CmdKinds, id : 0..MaxCmds]
Tokens == [text : {"OK", "ERROR", "IMEI", "URC"}, id : 0..MaxCmds]

VARIABLES
    inited,     \* g_modem.inited
    gpio,       \* g_modem.req_ready is a handle in use
    modemPmu,   \* g_modem.pmu is one
    atFd,       \* the component has the port open: g_modem.at_fd >= 0 (the 0
                \*   of the cleared structure, before at_start, is no port)
    atReopen,   \* g_modem.at_reopen
    atRun,      \* g_modem.at_run
    atStarted,  \* g_modem.at_started
    atReader,   \* the reader thread: "none", or at "top", "clear", "open",
                \*   "read", "capture" of its loop, or "done"
    chunk,      \* what the reader has read and not yet passed to at_capture
    capturing,  \* g_modem.at_capturing
    buf,        \* g_modem.at_buf
    caller,     \* the caller: "idle", "write", "wait", "finish" in at_cmd,
                \*   "join" in modem_deinit
    cmd,        \* the command in flight
    rc,         \* the result of at_cmd: 1, 0 or -1
    imei,       \* g_modem.imei_valid
    sent,       \* history: the number of commands sent
    port,       \* the device node exists
    rxq,        \* the tokens the modem has sent and nobody has read
    inbox       \* the commands the modem has not answered yet

lifecycle == <<inited, gpio, modemPmu, atRun, atStarted>>
channel == <<port, rxq, inbox>>
callerVars == <<caller, cmd, rc, imei, sent>>
atVars == <<inited, gpio, modemPmu, atFd, atReopen, atRun, atStarted, atReader,
            chunk, capturing, buf, caller, cmd, rc, imei, sent, port, rxq, inbox>>

AtTypeOK ==
    /\ inited \in BOOLEAN /\ gpio \in BOOLEAN /\ modemPmu \in BOOLEAN
    /\ atFd \in BOOLEAN /\ atReopen \in BOOLEAN
    /\ atRun \in BOOLEAN /\ atStarted \in BOOLEAN
    /\ atReader \in {"none", "top", "clear", "open", "read", "capture", "done"}
    /\ chunk \in Seq(Tokens) /\ Len(chunk) <= MaxRx
    /\ capturing \in BOOLEAN
    /\ buf \in Seq(Tokens) /\ Len(buf) <= AtBuf
    /\ caller \in {"idle", "write", "wait", "finish", "join"}
    /\ cmd \in Cmds
    /\ rc \in {-1, 0, 1}
    /\ imei \in BOOLEAN
    /\ sent \in 0..MaxCmds
    /\ port \in BOOLEAN
    /\ rxq \in Seq(Tokens) /\ Len(rxq) <= MaxRx
    /\ inbox \in Seq(Cmds)

AtInit ==
    /\ inited = FALSE /\ gpio = FALSE /\ modemPmu = FALSE
    /\ atFd = FALSE /\ atReopen = FALSE /\ atRun = FALSE /\ atStarted = FALSE
    /\ atReader = "none" /\ chunk = <<>>
    /\ capturing = FALSE /\ buf = <<>>
    /\ caller = "idle" /\ cmd = NoCmd /\ rc = -1 /\ imei = FALSE /\ sent = 0
    /\ port \in BOOLEAN /\ rxq = <<>> /\ inbox = <<>>

-----------------------------------------------------------------------------
(* modem_init and modem_deinit.                                            *)

\* modem_init clears everything and creates the pin, the PMU handle (which
\* it can do without) and the reader thread (whose failure is only logged).
ModemInit(pmuOk, threadOk) ==
    /\ caller = "idle"
    /\ ~inited
    /\ inited' = TRUE
    /\ gpio' = TRUE
    /\ modemPmu' = pmuOk
    /\ atFd' = FALSE
    /\ atReopen' = FALSE
    /\ atRun' = TRUE
    /\ atStarted' = threadOk
    /\ atReader' = IF threadOk THEN "top" ELSE "none"
    /\ chunk' = <<>>
    /\ capturing' = FALSE
    /\ buf' = <<>>
    /\ imei' = FALSE
    /\ UNCHANGED <<caller, cmd, rc, sent, channel>>

\* The pin cannot be made an output: it is given back.
ModemInitFails ==
    /\ caller = "idle"
    /\ ~inited
    /\ gpio' = FALSE
    /\ modemPmu' = FALSE
    /\ imei' = FALSE
    /\ atRun' = FALSE
    /\ atReopen' = FALSE
    /\ capturing' = FALSE
    /\ buf' = <<>>
    /\ UNCHANGED <<inited, atFd, atStarted, atReader, chunk, caller, cmd, rc, sent,
                   channel>>

\* modem_deinit stops the reader ...
DeinitBegin ==
    /\ caller = "idle"
    /\ inited
    /\ atRun' = (atRun /\ ~atStarted)
    /\ caller' = "join"
    /\ UNCHANGED <<inited, gpio, modemPmu, atFd, atReopen, atStarted, atReader, chunk,
                   capturing, buf, cmd, rc, imei, sent, channel>>

Joined == atStarted => atReader = "done"

\* ... waits for it, and releases what modem_init acquired.
DeinitEnd ==
    /\ caller = "join"
    /\ Joined
    /\ atStarted' = FALSE
    /\ atReader' = IF atReader = "done" THEN "none" ELSE atReader
    /\ gpio' = FALSE
    /\ modemPmu' = FALSE
    /\ inited' = FALSE
    /\ caller' = "idle"
    /\ UNCHANGED <<atFd, atReopen, atRun, chunk, capturing, buf, cmd, rc, imei,
                   sent, channel>>

-----------------------------------------------------------------------------
(* The reader thread, at_reader_fn.                                        *)

\* Fault: the loop is left only when there is no port to read.
ReaderTopKeepsReading ==
    /\ atReader = "top"
    /\ atReader' = IF atRun \/ atFd THEN "clear" ELSE "done"
    /\ atFd' = (atFd /\ ~atReopen)
    /\ UNCHANGED <<lifecycle, atReopen, chunk, capturing, buf, callerVars, channel>>

\* The top of the loop: leave it, or close the port if a reopen is asked for.
ReaderTop ==
    /\ atReader = "top"
    /\ atReader' = IF atRun THEN "clear" ELSE "done"
    /\ atFd' = (atFd /\ atRun /\ ~atReopen)
    /\ UNCHANGED <<lifecycle, atReopen, chunk, capturing, buf, callerVars, channel>>

\* The request is cleared, also one that came after the test.
ReaderClear ==
    /\ atReader = "clear"
    /\ atReopen' = FALSE
    /\ atReader' = IF atFd THEN "read" ELSE "open"
    /\ UNCHANGED <<lifecycle, atFd, chunk, capturing, buf, callerVars, channel>>

\* The port is opened, if it is there.  A new session may find the unread
\* tokens of the last one, or not.
ReaderOpen ==
    /\ atReader = "open"
    /\ \/ /\ port
          /\ atFd' = TRUE
          /\ atReader' = "read"
          /\ rxq' \in {rxq, <<>>}
       \/ /\ ~port
          /\ atReader' = "top"
          /\ UNCHANGED <<atFd, rxq>>
    /\ UNCHANGED <<lifecycle, atReopen, chunk, capturing, buf, callerVars, port, inbox>>

\* Fault: the reader reads only while a command is in flight.
ReaderReadsOnDemand ==
    /\ atReader = "read"
    /\ IF capturing /\ rxq # <<>>
       THEN chunk' = rxq /\ rxq' = <<>> /\ atReader' = "capture"
       ELSE atReader' = "top" /\ UNCHANGED <<chunk, rxq>>
    /\ UNCHANGED <<lifecycle, atFd, atReopen, capturing, buf, callerVars, port, inbox>>

\* A read returns tokens, nothing, or, when the port is gone, an error, upon
\* which the port is closed.
ReaderRead ==
    /\ atReader = "read"
    /\ \/ \E n \in 1..Len(rxq) :
            /\ chunk' = SubSeq(rxq, 1, n)
            /\ rxq' = SubSeq(rxq, n + 1, Len(rxq))
            /\ atReader' = "capture"
            /\ UNCHANGED atFd
       \/ /\ port /\ rxq = <<>>
          /\ atReader' = "top"
          /\ UNCHANGED <<atFd, chunk, rxq>>
       \/ /\ ~port /\ rxq = <<>>
          /\ atFd' = FALSE
          /\ atReader' = "top"
          /\ UNCHANGED <<chunk, rxq>>
    /\ UNCHANGED <<lifecycle, atReopen, capturing, buf, callerVars, port, inbox>>

\* The newest part of the data that the buffer can hold at all.
KeptTail(data) ==
    SubSeq(data, IF Len(data) > AtBuf THEN Len(data) - AtBuf + 1 ELSE 1, Len(data))

\* The buffer after its oldest part made room for the data.
RoomFor(data) ==
    LET drop == Len(buf) + Len(data) - AtBuf
    IN  IF drop > 0 THEN SubSeq(buf, drop + 1, Len(buf)) ELSE buf

\* at_capture
ReaderCapture ==
    /\ atReader = "capture"
    /\ buf' = IF capturing THEN RoomFor(KeptTail(chunk)) \o KeptTail(chunk) ELSE buf
    /\ chunk' = <<>>
    /\ atReader' = "top"
    /\ UNCHANGED <<lifecycle, atFd, atReopen, capturing, callerVars, channel>>

ReaderStep ==
    ReaderTop \/ ReaderClear \/ ReaderOpen \/ ReaderRead \/ ReaderCapture

-----------------------------------------------------------------------------
(* The caller, in at_cmd.                                                  *)

\* What the caller gets of the buffer: the part that fits.
Resp == SubSeq(buf, 1, IF Len(buf) < RespBuf THEN Len(buf) ELSE RespBuf)

\* What the operation does with the result of its command: at_ready asks for
\* a reopen unless it is 1, modem_get_imei keeps the number it finds.
Conclude(result) ==
    /\ rc' = result
    /\ atReopen' = (atReopen \/ (cmd.kind = "probe" /\ result # 1))
    /\ imei' = (imei \/ /\ cmd.kind = "imei"
                        /\ result = 1
                        /\ \E i \in 1..Len(Resp) : Resp[i].text = "IMEI")

\* The port is not open: the command is not sent.
CmdNotReady(k) ==
    /\ caller = "idle"
    /\ inited
    /\ ~atFd
    /\ rc' = -1
    /\ atReopen' = (atReopen \/ k = "probe")
    /\ UNCHANGED <<lifecycle, atFd, atReader, chunk, capturing, buf, caller, cmd, imei,
                   sent, channel>>

\* The buffer is emptied and the capture begins.
CmdBegin(k) ==
    /\ caller = "idle"
    /\ inited
    /\ atFd
    /\ k = "imei" => ~imei
    /\ sent < MaxCmds
    /\ sent' = sent + 1
    /\ cmd' = [kind |-> k, id |-> sent + 1]
    /\ buf' = <<>>
    /\ capturing' = TRUE
    /\ caller' = "write"
    /\ UNCHANGED <<lifecycle, atFd, atReopen, atReader, chunk, rc, imei, channel>>

\* at_write_all under at_fd_lock: the whole line goes out, if the port is
\* still open and there ...
CmdWrite ==
    /\ caller = "write"
    /\ atFd /\ port
    /\ inbox' = Append(inbox, cmd)
    /\ caller' = "wait"
    /\ UNCHANGED <<lifecycle, atFd, atReopen, atReader, chunk, capturing, buf, cmd, rc,
                   imei, sent, port, rxq>>

\* ... or not, or not in time.
CmdWriteFails ==
    /\ caller = "write"
    /\ rc' = -1
    /\ caller' = "finish"
    /\ UNCHANGED <<lifecycle, atFd, atReopen, atReader, chunk, capturing, buf, cmd, imei,
                   sent, channel>>

Found(text) == \E i \in 1..Len(buf) : buf[i].text = text

\* An answer is in the buffer; ERROR is looked for first.
CmdAnswered ==
    /\ caller = "wait"
    /\ Found("ERROR") \/ Found("OK")
    /\ rc' = IF Found("ERROR") THEN 0 ELSE 1
    /\ caller' = "finish"
    /\ UNCHANGED <<lifecycle, atFd, atReopen, atReader, chunk, capturing, buf, cmd, imei,
                   sent, channel>>

\* The time of the command is over.
CmdTimeout ==
    /\ caller = "wait"
    /\ rc' = -1
    /\ caller' = "finish"
    /\ UNCHANGED <<lifecycle, atFd, atReopen, atReader, chunk, capturing, buf, cmd, imei,
                   sent, channel>>

\* The capture ends and the operation draws its conclusion.
CmdFinish ==
    /\ caller = "finish"
    /\ capturing' = FALSE
    /\ Conclude(rc)
    /\ caller' = "idle"
    /\ UNCHANGED <<lifecycle, atFd, atReader, chunk, buf, cmd, sent, channel>>

CmdStep == CmdWrite \/ CmdWriteFails \/ CmdAnswered \/ CmdTimeout \/ CmdFinish

-----------------------------------------------------------------------------
(* The modem.                                                              *)

\* It takes up the next command and answers, or does not.
Answer ==
    /\ inbox # <<>>
    /\ inbox' = Tail(inbox)
    /\ LET c == Head(inbox)
           ok == (IF c.kind = "imei" THEN <<[text |-> "IMEI", id |-> c.id]>> ELSE <<>>)
                    \o <<[text |-> "OK", id |-> c.id]>>
       IN \/ Len(rxq \o ok) <= MaxRx /\ rxq' = rxq \o ok
          \/ Len(rxq) < MaxRx /\ rxq' = Append(rxq, [text |-> "ERROR", id |-> c.id])
          \/ UNCHANGED rxq
    /\ port
    /\ UNCHANGED <<lifecycle, atFd, atReopen, atReader, chunk, capturing, buf, callerVars, port>>

\* An unsolicited result code; the modem blocks while there is no room.
Urc ==
    /\ port
    /\ Len(rxq) < MaxRx
    /\ rxq' = Append(rxq, [text |-> "URC", id |-> 0])
    /\ UNCHANGED <<lifecycle, atFd, atReopen, atReader, chunk, capturing, buf, callerVars,
                   port, inbox>>

\* The modem goes and comes, with its device node.
PortChanges ==
    /\ port' = ~port
    /\ rxq' = <<>>
    /\ inbox' = <<>>
    /\ UNCHANGED <<lifecycle, atFd, atReopen, atReader, chunk, capturing, buf, callerVars>>

AtNext ==
    \/ \E p, t \in BOOLEAN : ModemInit(p, t)
    \/ ModemInitFails
    \/ DeinitBegin
    \/ DeinitEnd
    \/ ReaderStep
    \/ \E k \in CmdKinds : CmdNotReady(k) \/ CmdBegin(k)
    \/ CmdStep
    \/ Answer
    \/ Urc
    \/ PortChanges

AtSpec == AtInit /\ [][AtNext]_atVars

\* The two threads are scheduled and the waits of at_cmd end.
AtFairness == WF_atVars(ReaderStep) /\ WF_atVars(CmdStep) /\ WF_atVars(DeinitEnd)

-----------------------------------------------------------------------------
(* Properties.                                                             *)

\* The modem's transmit path never stalls for good: a full tty is drained (or
\* gone), with and without a command in flight, as long as the reader runs.
NoStall ==
    (Len(rxq) = MaxRx /\ atStarted) ~> (Len(rxq) < MaxRx \/ ~atStarted)

\* modem_deinit returns, whatever state the port is in.
DeinitReturns == caller = "join" ~> caller = "idle"

\* at_cmd returns 1 only if the modem answered OK to this very command, as
\* the comment on at_cmd has it ("Send one AT command and wait for OK/ERROR.
\* 1=OK, 0=ERROR").
OkIsForThisCommand ==
    [][rc' = 1 /\ caller = "wait" /\ caller' = "finish"
        => \E i \in 1..Len(buf) : buf[i] = [text |-> "OK", id |-> cmd.id]]_atVars
=============================================================================
