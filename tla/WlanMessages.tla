---------------------------- MODULE WlanMessages ----------------------------
(***************************************************************************)
(* The requests and the events of libwlan_offload                          *)
(* (wlan_offload/src/wlan_offload_client.c) as far as their lengths go.  A *)
(* request is copied into a fixed structure whose parts have a capacity and*)
(* a count field that is narrower than the caller's size_t; an event is    *)
(* copied out of one, into the application's structure, by the counts the  *)
(* kernel wrote.  The contents of the parts are left out; the channels are *)
(* in module WlanChannel.                                                  *)
(***************************************************************************)
EXTENDS Integers

CONSTANT Lengths    \* the lengths tried for every part
ASSUME LengthsAssumption == Lengths \subseteq Nat

\* The values of a uint8_t and of a uint16_t.
U8 == 256
U16 == 65536

\* A part: the least and the greatest count allowed, the capacity of the
\* array it is copied into, and the number of values its count field has.
Part(min, max, room, span) == [min |-> min, max |-> max, room |-> room, span |-> span]

MaxSsid == 32
MaxIe == 1024
MaxFrame == 2304
MaxEapol == 1600

\* The parts of the requests, by the limits their functions test and the
\* arrays of the wire structures.
ScanParts ==
    [ssids    |-> Part(0, 4, 4, U8),   ssid |-> Part(0, MaxSsid, 32, U8),
     channels |-> Part(0, 64, 64, U8), ies  |-> Part(0, MaxIe, 1024, U16)]
AuthenticateParts ==
    [ssid |-> Part(0, MaxSsid, 32, U8), data |-> Part(0, MaxIe, 1024, U16)]
AssociateParts == [ies |-> Part(0, MaxIe, 1024, U16)]
SetKeyParts == [key |-> Part(1, 64, 64, U8), sequence |-> Part(0, 16, 16, U8)]
SendMgmtParts == [data |-> Part(1, MaxFrame, 2304, U16)]
SendEapolParts == [data |-> Part(1, MaxEapol, 1600, U16)]

Requests ==
    [scan |-> ScanParts, authenticate |-> AuthenticateParts,
     associate |-> AssociateParts, set_key |-> SetKeyParts,
     send_mgmt |-> SendMgmtParts, send_eapol |-> SendEapolParts]

\* The requests without a part: set_interface, disconnect, delete_key and
\* set_default_key have only flags to be tested.
Plain == {"set_interface", "disconnect", "delete_key", "set_default_key"}

\* The parts of the events; the rooms are the public structure's.
ScanResultParts == [ssid |-> Part(0, 32, MaxSsid, U8), ies |-> Part(0, 1024, MaxIe, U16)]
RxFrameParts == [data |-> Part(0, 2304, MaxFrame, U16)]
TxStatusParts == [data |-> Part(0, 2304, MaxFrame, U16)]
EapolRxParts == [data |-> Part(0, 1600, MaxEapol, U16)]
FirmwareErrorParts == [dump |-> Part(0, 1024, MaxIe, U16)]
ExternalAuthParts == [ssid |-> Part(1, 32, MaxSsid, U8)]

EventParts ==
    [scan_result |-> ScanResultParts, rx_frame |-> RxFrameParts,
     tx_status |-> TxStatusParts, eapol_rx |-> EapolRxParts,
     firmware_error |-> FirmwareErrorParts, external_auth |-> ExternalAuthParts]

\* The events with no part to count: the bare ones and "disconnected".
BareEvents == {"radio_online", "radio_offline", "scan_done", "connect_result",
               "regulatory_changed", "disconnected"}

NoParts == [p \in {} |-> 0]

VARIABLES
    progress,   \* "request", "sent", "event", "delivered", "refused"
    what,       \* the request or event
    counts,     \* part -> the caller's length, or the count on the wire
    wire,       \* part -> the count field of the message
    sound,      \* the flags, enumerations, channels and pointers are valid
    excess      \* the length of an event over the one its type has

msgVars == <<progress, what, counts, wire, sound, excess>>

CountsOf(parts) == [DOMAIN parts -> Lengths]

\* What a caller can pass: the length of an SSID is a byte (in a scan, this is
\* the longest one's, if there is one); the other lengths are a size_t.
Possible(r, c) ==
    /\ "ssid" \in DOMAIN c => c["ssid"] < U8
    /\ r = "scan" /\ c["ssids"] = 0 => c["ssid"] = 0

MsgInit ==
    /\ \/ /\ progress = "request" /\ excess = 0
          /\ \/ \E r \in DOMAIN Requests :
                    what = r /\ counts \in CountsOf(Requests[r]) /\ Possible(r, counts)
             \/ what \in Plain /\ counts = NoParts
       \/ /\ progress = "event" /\ excess \in {-1, 0, 1}
          /\ \/ \E e \in DOMAIN EventParts :
                    /\ what = e
                    /\ counts \in CountsOf(EventParts[e])
                    /\ \A p \in DOMAIN counts :
                          counts[p] < EventParts[e][p].span
             \/ what \in BareEvents \cup {"INFO", "NAMES"} /\ counts = NoParts
    /\ wire = counts
    /\ sound \in BOOLEAN

PartsOf(w) ==
    CASE w \in DOMAIN Requests -> Requests[w]
      [] w \in DOMAIN EventParts -> EventParts[w]
      [] OTHER -> NoParts

\* Fault: the count is tested after it went into its field.
WithinLate(p, n) == n % p.span \in p.min..p.max

\* What the code tests of every part.
Within(p, n) == n >= p.min /\ n <= p.max

\* A request is sent, with its counts in their fields, or refused with
\* -EINVAL.
Send ==
    /\ progress = "request"
    /\ \/ /\ sound
          /\ \A p \in DOMAIN counts : Within(PartsOf(what)[p], counts[p])
          /\ progress' = "sent"
          /\ wire' = [p \in DOMAIN counts |-> counts[p] % PartsOf(what)[p].span]
       \/ /\ ~sound \/ \E p \in DOMAIN counts : ~Within(PartsOf(what)[p], counts[p])
          /\ progress' = "refused"
          /\ UNCHANGED wire
    /\ UNCHANGED <<what, counts, sound, excess>>

\* wlan_offload_decode_event: delivered, or refused with -EPROTO, or with
\* -ENOMSG if it is the answer to a query.
Receive ==
    /\ progress = "event"
    /\ progress' = IF /\ what \notin {"INFO", "NAMES"}
                      /\ sound
                      /\ excess = 0
                      /\ \A p \in DOMAIN wire : Within(PartsOf(what)[p], wire[p])
                   THEN "delivered" ELSE "refused"
    /\ UNCHANGED <<what, counts, wire, sound, excess>>

MsgNext == Send \/ Receive

MsgSpec == MsgInit /\ [][MsgNext]_msgVars

-----------------------------------------------------------------------------
(* Properties.                                                             *)

\* Nothing is copied beyond its place, in either direction and however large
\* the count: a request that is sent tells the kernel the lengths the caller
\* gave, and they fit its arrays; an event that is delivered was read inside
\* the message and fits the application's structure.
MessagesFit ==
    /\ progress = "sent" => wire = counts
    /\ progress = "delivered" => excess = 0
    /\ progress \in {"sent", "delivered"} =>
         \A p \in DOMAIN counts : wire[p] <= PartsOf(what)[p].room

\* Nothing that fits is refused: a part may be filled to the last element, in
\* both directions.
RefusedForCause ==
    progress = "refused" /\ sound /\ excess = 0 /\ what \notin {"INFO", "NAMES"} =>
        \E p \in DOMAIN counts :
            counts[p] > PartsOf(what)[p].room \/ counts[p] < PartsOf(what)[p].min

\* The messages that pass are the ones that fit.
ExactlyFittingPasses == MessagesFit /\ RefusedForCause
=============================================================================
