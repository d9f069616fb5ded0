---------------------------- MODULE HciTransport ----------------------------
(***************************************************************************)
(* The H:4 transport under the NimBLE host: the UART emulation             *)
(* (3rd-party/nimble/port/src/hal_uart.c) on top of the HCI character      *)
(* device driver (rtsmart_hal/drivers/hci/drv_hci.c).                      *)
(*                                                                         *)
(* Three kinds of threads meet here.  The control thread selects a device, *)
(* configures and closes the transport.  Sender threads of the host push a *)
(* packet on the host's transmit queue and call hal_uart_start_tx, which   *)
(* draws bytes from that queue until they make up one packet and writes it.*)
(* The receive thread polls the device, reads and calls back per byte.     *)
(*                                                                         *)
(* The host's transmit queue (tx_callback) and the device behind the file  *)
(* descriptor are outside the repository.  The byte base 256, the ISO mask *)
(* and the buffer size are parameters, so that a length that needs its     *)
(* second byte, or fills the buffer exactly, is a short packet.            *)
(***************************************************************************)
EXTENDS Integers, Sequences, FiniteSets

CONSTANTS
    Senders,        \* the threads that send
    HostPackets,    \* the packets the host sends, as sequences of bytes
    MaxPackets,     \* bound: how many packets are sent in all
    Base,           \* 256: the number of values of a byte
    IsoModulus,     \* 2^14: the length of an ISO packet is taken modulo this
    TxMax,          \* HCI_TX_PACKET_MAX
    Devices,        \* 1..DRV_HCI_AUTO_MAX_DEVICES, the /dev/hciX in order
    RxMax,          \* bound: the bytes the device holds for reading
    RxBuffer        \* HCI_RX_BUFFER_SIZE

CMD == 1
ACL == 2
SCO == 3
ISO == 5

\* SIZE_MAX, which no packet reaches.
SizeMax == Base * Base * Base

NoDevice == 0       \* hci_device[0] == '\0'
Nobody == "nobody"

Bytes == 0..(Base - 1)

\* The host's packets are bytes, and the buffer is smaller than SIZE_MAX, which
\* stands for a packet that is none.
ASSUME HciAssumption ==
    /\ IsFiniteSet(Senders) /\ Nobody \notin Senders
    /\ HostPackets \subseteq Seq(Bytes)
    /\ Base \in Nat /\ IsoModulus \in Nat \ {0}
    /\ TxMax \in Nat /\ TxMax < SizeMax

VARIABLES
    inst,           \* hci_inst: the device it has open, NoDevice if NULL
    deviceAuto,     \* hci_device_auto
    device,         \* hci_device
    configResult,   \* what the last hal_uart_config answered
    ctl,            \* the control thread: "idle", or "joining" in hal_uart_close
    rxRunning,      \* hci_rx_running
    rxStarted,      \* hci_rx_thread_started
    rx,             \* the receive thread: "none", "check", "poll", "read",
                    \*   "deliver", or "done" once it has returned
    avail,          \* the bytes waiting in the device
    inbuf,          \* the bytes read and not yet passed to rx_callback
    stream,         \* the bytes tx_callback has still to hand out
    txLock,         \* the holder of hci_tx_lock
    pc,             \* pc[s]: "idle", "calling" hal_uart_start_tx, "draining",
                    \*   "writing", "polling" for POLLOUT, "rewriting"
    packet,         \* the packet buffer of the holder of hci_tx_lock
    pushed,         \* history: the packets the host pushed
    handed,         \* history: the packets passed to drv_hci_write_packet
    wire            \* history: which of these, by number, the device took

control == <<inst, deviceAuto, device, configResult, ctl, rxRunning, rxStarted>>
receive == <<rx, avail, inbuf>>
transmit == <<stream, txLock, pc, packet, pushed, handed, wire>>
vars == <<inst, deviceAuto, device, configResult, ctl, rxRunning, rxStarted,
          rx, avail, inbuf, stream, txLock, pc, packet, pushed, handed, wire>>

TypeOK ==
    /\ inst \in Devices \cup {NoDevice}
    /\ deviceAuto \in BOOLEAN
    /\ device \in Devices \cup {NoDevice}
    /\ configResult \in {"ok", "enoent", "ebusy", "ethread"}
    /\ ctl \in {"idle", "joining"}
    /\ rxRunning \in BOOLEAN
    /\ rxStarted \in BOOLEAN
    /\ rx \in {"none", "check", "poll", "read", "deliver", "done"}
    /\ avail \in 0..RxMax
    /\ inbuf \in 0..RxBuffer
    /\ stream \in Seq(Bytes)
    /\ txLock \in Senders \cup {Nobody}
    /\ pc \in [Senders -> {"idle", "calling", "draining", "writing", "polling", "rewriting"}]
    /\ packet \in Seq(Bytes) /\ Len(packet) <= TxMax
    /\ pushed \in Seq(HostPackets)

Init ==
    /\ inst = NoDevice
    /\ deviceAuto = TRUE
    /\ device = NoDevice
    /\ configResult = "ok"
    /\ ctl = "idle"
    /\ rxRunning = FALSE
    /\ rxStarted = FALSE
    /\ rx = "none"
    /\ avail = 0
    /\ inbuf = 0
    /\ stream = <<>>
    /\ txLock = Nobody
    /\ pc = [s \in Senders |-> "idle"]
    /\ packet = <<>>
    /\ pushed = <<>>
    /\ handed = <<>>
    /\ wire = <<>>

-----------------------------------------------------------------------------
(* The framing of H:4.                                                     *)

Le16(p) == p[4] + Base * p[5]

\* Fault: the high byte of the ACL length is not used.
PacketSizeShort(p) ==
    CASE Len(p) = 0 -> 0
      [] Len(p) > 0 /\ p[1] \in {CMD, ACL, SCO} -> IF Len(p) >= 4 THEN 4 + p[4] ELSE 0
      [] Len(p) > 0 /\ p[1] = ISO -> IF Len(p) >= 5 THEN 5 + (Le16(p) % IsoModulus) ELSE 0
      [] OTHER -> SizeMax

\* hci_packet_size: the size of the packet that begins with p, 0 while that is
\* not known, SIZE_MAX if no packet begins like this.
PacketSize(p) ==
    CASE Len(p) = 0 -> 0
      [] Len(p) > 0 /\ p[1] \in {CMD, SCO} -> IF Len(p) >= 4 THEN 4 + p[4] ELSE 0
      [] Len(p) > 0 /\ p[1] = ACL -> IF Len(p) >= 5 THEN 5 + Le16(p) ELSE 0
      [] Len(p) > 0 /\ p[1] = ISO -> IF Len(p) >= 5 THEN 5 + (Le16(p) % IsoModulus) ELSE 0
      [] OTHER -> SizeMax

\* drv_hci_tx_packet_valid, the driver's own test.
TxPacketValid(p) ==
    /\ Len(p) >= 2
    /\ \/ p[1] \in {CMD, SCO} /\ Len(p) >= 4 /\ Len(p) = 4 + p[4]
       \/ p[1] = ACL /\ Len(p) >= 5 /\ Len(p) = 5 + Le16(p)
       \/ p[1] = ISO /\ Len(p) >= 5 /\ Len(p) = 5 + (Le16(p) % IsoModulus)

\* A packet the transport can carry: well formed and no larger than the buffer.
\* The host's largest is an ACL packet of BLE_TRANSPORT_ACL_SIZE = 255 bytes
\* and its header.
Carriable(p) == TxPacketValid(p) /\ Len(p) <= TxMax

-----------------------------------------------------------------------------
(* The control thread.                                                     *)

\* rtsmart_nimble_hci_set_device answers -EBUSY while a device is open.
Changeable == inst = NoDevice

\* d = NoDevice is the NULL argument: back to automatic selection.
SetDevice(d) ==
    /\ ctl = "idle"
    /\ Changeable
    /\ deviceAuto' = (d = NoDevice)
    /\ device' = d
    /\ UNCHANGED <<inst, configResult, ctl, rxRunning, rxStarted, receive, transmit>>

\* last_error of drv_hci_inst_create_auto after the first n devices failed.
LastError(results, n) ==
    LET err[i \in 0..n] ==
            IF i = 0 THEN "enoent"
            ELSE IF results[i] # "enoent" \/ err[i - 1] = "enoent" THEN results[i]
            ELSE err[i - 1]
    IN err[n]

\* The device a configuration opens: the selected one, or the first that opens.
Opened(results) ==
    IF deviceAuto
    THEN IF \A d \in Devices : results[d] # "ok" THEN NoDevice
         ELSE CHOOSE d \in Devices :
                results[d] = "ok" /\ \A e \in Devices : results[e] = "ok" => d <= e
    ELSE IF results[device] = "ok" THEN device ELSE NoDevice

\* hal_uart_config opens the device, selected or the first that opens, and
\* starts the receive thread.  results: what opening each device gives now.
Config(results, threadStarts) ==
    /\ ctl = "idle"
    /\ inst = NoDevice
    /\ LET d == Opened(results)
       IN \/ /\ d = NoDevice
             /\ configResult' = IF deviceAuto THEN LastError(results, Cardinality(Devices))
                                ELSE results[device]
             /\ UNCHANGED <<inst, device, rxRunning, rxStarted, rx>>
          \/ /\ d # NoDevice
             /\ threadStarts
             /\ inst' = d
             /\ device' = d
             /\ configResult' = "ok"
             /\ rxRunning' = TRUE
             /\ rxStarted' = TRUE
             /\ rx' = "check"
          \/ /\ d # NoDevice
             /\ ~threadStarts
             /\ device' = d
             /\ configResult' = "ethread"
             /\ rxRunning' = FALSE
             /\ UNCHANGED <<inst, rxStarted, rx>>
    /\ avail' = 0
    /\ inbuf' = 0
    /\ UNCHANGED <<deviceAuto, ctl, transmit>>

\* hal_uart_close tells the receive thread to stop and waits for its end.
\* The host closes the transport when no thread of it is sending.
CloseBegin ==
    /\ ctl = "idle"
    /\ \A s \in Senders : pc[s] = "idle"
    /\ rxRunning' = FALSE
    /\ ctl' = "joining"
    /\ UNCHANGED <<inst, deviceAuto, device, configResult, rxStarted, receive, transmit>>

Joined == rxStarted => rx = "done"

CloseEnd ==
    /\ ctl = "joining"
    /\ Joined
    /\ rxStarted' = FALSE
    /\ inst' = NoDevice
    /\ ctl' = "idle"
    /\ rx' = IF rx = "done" THEN "none" ELSE rx
    /\ UNCHANGED <<deviceAuto, device, configResult, rxRunning, avail, inbuf, transmit>>

-----------------------------------------------------------------------------
(* The receive thread, hci_rx_worker.                                      *)

\* Bytes come in from the controller.
Arrive ==
    /\ inst # NoDevice
    /\ avail < RxMax
    /\ avail' = avail + 1
    /\ UNCHANGED <<control, rx, inbuf, transmit>>

RxCheck ==
    /\ rx = "check"
    /\ rx' = IF rxRunning THEN "poll" ELSE "done"
    /\ UNCHANGED <<control, avail, inbuf, transmit>>

\* The poll times out after 100 ms, finds bytes, or fails, which ends the
\* thread and leaves the device open.
RxPoll ==
    /\ rx = "poll"
    /\ \/ avail = 0 /\ rx' = "check"
       \/ avail > 0 /\ rx' = "read"
       \/ rx' = "done"
    /\ UNCHANGED <<control, avail, inbuf, transmit>>

RxRead ==
    /\ rx = "read"
    /\ \/ /\ rx' \in {"check", "done"}      \* EAGAIN, or another error
          /\ UNCHANGED <<avail, inbuf>>
       \/ \E n \in 1..RxBuffer :
            /\ n <= avail
            /\ avail' = avail - n
            /\ inbuf' = n
            /\ rx' = "deliver"
    /\ UNCHANGED <<control, transmit>>

RxDeliver ==
    /\ rx = "deliver"
    /\ inbuf' = inbuf - 1
    /\ rx' = IF inbuf = 1 THEN "check" ELSE "deliver"
    /\ UNCHANGED <<control, avail, transmit>>

RxStep == RxCheck \/ RxPoll \/ RxRead \/ RxDeliver

-----------------------------------------------------------------------------
(* The senders.                                                            *)

\* A thread of the host queues a packet and goes on to call hal_uart_start_tx.
Push(s, p) ==
    /\ pc[s] = "idle"
    /\ ctl = "idle"
    /\ Len(pushed) < MaxPackets
    /\ stream' = stream \o p
    /\ pushed' = Append(pushed, p)
    /\ pc' = [pc EXCEPT ![s] = "calling"]
    /\ UNCHANGED <<control, receive, txLock, packet, handed, wire>>

\* Fault: the lock is not waited for.
LockFreeAlways == TRUE

LockFree == txLock = Nobody

StartTx(s) ==
    /\ pc[s] = "calling"
    /\ LockFree
    /\ txLock' = s
    /\ packet' = <<>>
    /\ pc' = [pc EXCEPT ![s] = "draining"]
    /\ UNCHANGED <<control, receive, stream, pushed, handed, wire>>

\* Fault: a return without the unlock.
FinishKeepsLock(s) ==
    /\ pc' = [pc EXCEPT ![s] = "idle"]
    /\ packet' = <<>>
    /\ UNCHANGED txLock

\* hal_uart_start_tx returns.
Finish(s) ==
    /\ pc' = [pc EXCEPT ![s] = "idle"]
    /\ txLock' = Nobody
    /\ packet' = <<>>

\* Fault: a packet that fills the buffer is refused.
TooLargeOrFull(expected) == expected >= TxMax

TooLarge(expected) == expected > TxMax

\* One byte is drawn and the packet looked at again.
DrainByte(s) ==
    /\ pc[s] = "draining"
    /\ Len(packet) < TxMax
    /\ stream # <<>>
    /\ stream' = Tail(stream)
    /\ LET p == Append(packet, Head(stream))
           expected == PacketSize(p)
       IN \/ /\ TooLarge(expected)
             /\ Finish(s)
             /\ UNCHANGED handed
          \/ /\ ~TooLarge(expected)
             /\ expected # Len(p)
             /\ packet' = p
             /\ UNCHANGED <<txLock, pc, handed>>
          \/ /\ ~TooLarge(expected)
             /\ expected = Len(p)
             /\ packet' = p
             /\ pc' = [pc EXCEPT ![s] = "writing"]
             /\ handed' = Append(handed, p)
             /\ UNCHANGED txLock
    /\ UNCHANGED <<control, receive, pushed, wire>>

\* The queue ran out, or the buffer is full, before the packet was complete.
DrainFails(s) ==
    /\ pc[s] = "draining"
    /\ Len(packet) = TxMax \/ stream = <<>>
    /\ Finish(s)
    /\ UNCHANGED <<control, receive, stream, pushed, handed, wire>>

\* drv_hci_write_packet refuses, or tries to write: the device takes the
\* packet, fails (or takes a part), or has no room, which is waited for.
Write(s) ==
    /\ pc[s] = "writing"
    /\ \/ /\ inst # NoDevice /\ TxPacketValid(packet)
          /\ \/ wire' = Append(wire, Len(handed)) /\ Finish(s)
             \/ /\ pc' = [pc EXCEPT ![s] = "polling"]
                /\ UNCHANGED <<txLock, packet, wire>>
       \/ UNCHANGED wire /\ Finish(s)
    /\ UNCHANGED <<control, receive, stream, pushed, handed>>

\* The wait for room ends with room, or with a timeout or an error.
PollOut(s) ==
    /\ pc[s] = "polling"
    /\ \/ /\ pc' = [pc EXCEPT ![s] = "rewriting"]
          /\ UNCHANGED <<txLock, packet>>
       \/ Finish(s)
    /\ UNCHANGED <<control, receive, stream, pushed, handed, wire>>

\* The second attempt is the last.
Rewrite(s) ==
    /\ pc[s] = "rewriting"
    /\ wire' \in {wire, Append(wire, Len(handed))}
    /\ Finish(s)
    /\ UNCHANGED <<control, receive, stream, pushed, handed>>

SendStep(s) ==
    StartTx(s) \/ DrainByte(s) \/ DrainFails(s) \/ Write(s) \/ PollOut(s) \/ Rewrite(s)

OpenResults == [Devices -> {"ok", "enoent", "ebusy"}]

Next ==
    \/ \E d \in Devices \cup {NoDevice} : SetDevice(d)
    \/ \E results \in OpenResults, t \in BOOLEAN : Config(results, t)
    \/ CloseBegin
    \/ CloseEnd
    \/ Arrive
    \/ RxStep
    \/ \E s \in Senders : SendStep(s) \/ \E p \in HostPackets : Push(s, p)

Spec == Init /\ [][Next]_vars

\* The threads are scheduled; poll returns, at the latest after its timeout; and
\* a thread that waits for hci_tx_lock gets it when no other takes it any more.
FairSpec ==
    /\ Spec
    /\ WF_vars(CloseEnd)
    /\ WF_vars(RxStep)
    /\ \A s \in Senders : WF_vars(SendStep(s))

-----------------------------------------------------------------------------
(* Properties.                                                             *)

IsPrefixOf(s, t) == Len(s) <= Len(t) /\ \A i \in 1..Len(s) : s[i] = t[i]

AllCarriable == \A i \in 1..Len(pushed) : Carriable(pushed[i])

\* hal_uart_start_tx finds the packet boundaries of the host's byte stream
\* again: as long as the host sends only packets the transport can carry, what
\* it hands to the driver are the host's packets, whole and in order, although
\* the senders' pushes and calls interleave.  (After a packet it cannot carry
\* the rest of that packet's bytes stays in the stream.)  The device gets each
\* of them at most once and in order, although a write that finds no room is
\* repeated.
PacketsWholeInOrder ==
    /\ AllCarriable => IsPrefixOf(handed, pushed)
    /\ \A i \in 1..(Len(wire) - 1) : wire[i] < wire[i + 1]

\* The driver's test agrees with the assembly: drv_hci_write_packet is never
\* given anything but one complete packet, not even after the framing was lost.
DriverAccepts ==
    \A s \in Senders : pc[s] = "writing" => TxPacketValid(packet)

\* No packet is left in the queue with no sender to fetch it: as each call of
\* hal_uart_start_tx takes one packet, there are as many calls under way as
\* packets waiting.
NothingStranded ==
    AllCarriable =>
        Len(pushed) - Len(handed)
            <= Cardinality({s \in Senders : pc[s] \in {"calling", "draining"}})

\* hal_uart_close returns, whatever the device does, and so does every call
\* of hal_uart_start_tx.
CallsReturn ==
    /\ ctl = "joining" ~> ctl = "idle"
    /\ \A s \in Senders : pc[s] = "calling" ~> pc[s] = "idle"
=============================================================================
