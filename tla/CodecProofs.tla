----------------------------- MODULE CodecProofs ----------------------------
(***************************************************************************)
(* The conversions.  WlanChannel: the channels of libwlan_offload, for     *)
(* every frequency.  WlanMessages: the lengths of its messages, for every  *)
(* length.  SbusFrame: the frames of the SBUS encoder, for all channels of *)
(* eleven bits.  HidKeypad: the keyboard of LVGL, for any keys, queue,     *)
(* batch and frame.                                                        *)
(***************************************************************************)
EXTENDS WlanChannel, WlanMessages, SbusFrame, HidKeypad, TLAPS

\* The distance of a 20 MHz channel from the center of its block of n.
LEMMA OffsetIsDistance ==
    ASSUME NEW f \in Nat, NEW m \in Nat, NEW n \in {2, 4, 8, 16},
           NEW d \in Nat,
           d = IF m > f THEN m - f ELSE f - m
    PROVE  f \in Block(m, n) <=> d <= 10*n - 10 /\ d % 20 = 10
<1>1. ASSUME f \in Block(m, n)
      PROVE  d <= 10*n - 10 /\ d % 20 = 10
  <2>1. PICK i \in 0..n-1 : f = m - 10*n + 10 + 20*i
    BY <1>1 DEF Block
  <2>2. CASE n = 2
    BY <2>1, <2>2
  <2>3. CASE n = 4
    BY <2>1, <2>3
  <2>4. CASE n = 8
    BY <2>1, <2>4
  <2>5. CASE n = 16
    BY <2>1, <2>5
  <2> QED BY <2>2, <2>3, <2>4, <2>5
<1>2. ASSUME d <= 10*n - 10, d % 20 = 10
      PROVE  f \in Block(m, n)
  <2> DEFINE i == (f - m + 10*n - 10) \div 20
  <2>1. f = m - 10*n + 10 + 20*i /\ i \in 0..n-1
    <3>1. CASE n = 2
      BY <1>2, <3>1
    <3>2. CASE n = 4
      BY <1>2, <3>2
    <3>3. CASE n = 8
      BY <1>2, <3>3
    <3>4. CASE n = 16
      BY <1>2, <3>4
    <3> QED BY <3>1, <3>2, <3>3, <3>4
  <2> QED BY <2>1 DEF Block
<1> QED BY <1>1, <1>2

\* The list of offsets in wlan_offload_channel_geometry_valid is the geometry
\* of the standards: the primary channel is one of the 20 MHz channels of the
\* block, for every frequency and every width.
THEOREM GeometryIsProper ==
    ASSUME NEW c, c.freq \in Nat, c.center1 \in Nat, c.center2 \in Nat
    PROVE  GeometryValid(c) <=> Proper(c)
<1> DEFINE f == c.freq
           m == c.center1
           d == Offset(c)
<1>1. d \in Nat /\ d = IF m > f THEN m - f ELSE f - m
  BY DEF Offset
<1>2. f \in Block(m, 1) <=> d = 0
  BY <1>1 DEF Block
<1>3. f \in Block(m, 2) <=> d <= 10 /\ d % 20 = 10
  <2>1. 2 \in {2, 4, 8, 16} /\ f \in Nat /\ m \in Nat
    OBVIOUS
  <2>2. f \in Block(m, 2) <=> d <= 10*2 - 10 /\ d % 20 = 10
    BY <1>1, <2>1, OffsetIsDistance
  <2> QED BY <2>2
<1>4. f \in Block(m, 4) <=> d <= 30 /\ d % 20 = 10
  <2>1. 4 \in {2, 4, 8, 16} /\ f \in Nat /\ m \in Nat
    OBVIOUS
  <2>2. f \in Block(m, 4) <=> d <= 10*4 - 10 /\ d % 20 = 10
    BY <1>1, <2>1, OffsetIsDistance
  <2> QED BY <2>2
<1>5. f \in Block(m, 8) <=> d <= 70 /\ d % 20 = 10
  <2>1. 8 \in {2, 4, 8, 16} /\ f \in Nat /\ m \in Nat
    OBVIOUS
  <2>2. f \in Block(m, 8) <=> d <= 10*8 - 10 /\ d % 20 = 10
    BY <1>1, <2>1, OffsetIsDistance
  <2> QED BY <2>2
<1>6. f \in Block(m, 16) <=> d <= 150 /\ d % 20 = 10
  <2>1. 16 \in {2, 4, 8, 16} /\ f \in Nat /\ m \in Nat
    OBVIOUS
  <2>2. f \in Block(m, 16) <=> d <= 10*16 - 10 /\ d % 20 = 10
    BY <1>1, <2>1, OffsetIsDistance
  <2> QED BY <2>2
<1> HIDE DEF d, f, m
<1> USE DEF W20NoHT, W20, W40, W80, W80P80, W160, W320
<1>8. CASE c.width \in {0, 1}
  BY <1>2, <1>8 DEF GeometryValid, Proper, d, f, m
<1>9. CASE c.width = 2
  BY <1>1, <1>3, <1>9 DEF GeometryValid, Proper, d, f, m
<1>10. CASE c.width = 3
  BY <1>1, <1>4, <1>10 DEF GeometryValid, Proper, d, f, m
<1>11. CASE c.width = 4
  BY <1>1, <1>4, <1>11 DEF GeometryValid, Proper, d, f, m
<1>12. CASE c.width = 5
  BY <1>1, <1>5, <1>12 DEF GeometryValid, Proper, d, f, m
<1>13. CASE c.width = 6
  BY <1>1, <1>6, <1>13 DEF GeometryValid, Proper, d, f, m
<1>14. CASE c.width \notin {0, 1, 2, 3, 4, 5, 6}
  BY <1>14 DEF GeometryValid, Proper
<1> QED
  BY <1>8, <1>9, <1>10, <1>11, <1>12, <1>13, <1>14

-----------------------------------------------------------------------------
(* WlanChannel.                                                            *)

\* The inductive invariant: which form the item has, that a channel comes
\* from the wire whole, and that what is on the wire, or off it again, was
\* accepted.
ChannelInv ==
    /\ allow \in BOOLEAN
    /\ origin \in {"application", "kernel"}
    /\ given \in IF origin = "application" THEN Channels ELSE Wires
    /\ stage = "channel" => item \in Channels
    /\ stage = "wire" => item \in Wires
    /\ RoundTrip
    /\ stage \in {"channel", "wire", "refused"}
    /\ stage = "channel" /\ origin = "kernel" =>
          given = ToWire(item) /\ Encodable(item, allow)
    /\ stage = "wire" /\ origin = "application" =>
          item = ToWire(given) /\ Encodable(given, allow)
    /\ stage = "refused" =>
          \/ origin = "application" /\ item = given /\ ~Encodable(given, allow)
          \/ origin = "kernel" /\ item = given

\* FromWire and ToWire are inverse to each other where the reserved bytes
\* are 0.
LEMMA ConversionsInvert ==
    /\ \A c \in Channels : FromWire(ToWire(c)) = c /\ ToWire(c) \in Wires
    /\ \A w \in Wires : FromWire(w) \in Channels
                         /\ (w.reserved = 0 => ToWire(FromWire(w)) = w)
  BY DEF Channels, Wires, FromWire, ToWire

\* The fields of a channel are natural numbers.
LEMMA NaturalFields ==
    \A c \in Channels : c.freq \in Nat /\ c.center1 \in Nat /\ c.center2 \in Nat
<1>1. \A c \in Channels : c.freq \in Freqs /\ c.center1 \in Freqs /\ c.center2 \in Freqs
  BY DEF Channels
<1> QED BY <1>1, FreqsAssumption DEF FreqsAssumption

\* Every conversion keeps the invariant.
THEOREM ChannelInvariance == Spec => []ChannelInv
<1>1. Init => ChannelInv
  BY DEF Init, ChannelInv, RoundTrip
<1>2. ChannelInv /\ [Next]_vars => ChannelInv'
  <2> SUFFICES ASSUME ChannelInv, [Next]_vars PROVE ChannelInv'
    OBVIOUS
  <2> USE DEF ChannelInv, RoundTrip
  <2>1. CASE Encode
    <3>1. CASE Encodable(item, allow)
      BY <2>1, <3>1, ConversionsInvert DEF Encode
    <3>2. CASE ~Encodable(item, allow)
      BY <2>1, <3>2, ConversionsInvert DEF Encode
    <3> QED BY <3>1, <3>2
  <2>2. CASE Decode
    <3>1. CASE Decodable(item, allow)
      BY <2>2, <3>1, ConversionsInvert DEF Decode, Decodable
    <3>2. CASE ~Decodable(item, allow)
      <4>1. origin = "kernel"
        <5>1. ASSUME origin = "application" PROVE FALSE
          <6>1. item = ToWire(given) /\ Encodable(given, allow) /\ given \in Channels
            BY <2>2, <5>1 DEF Decode
          <6>2. item.reserved = 0 /\ item.width = given.width
            BY <6>1 DEF ToWire
          <6>3. FromWire(item) = given
            BY <6>1, ConversionsInvert
          <6>4. given.width <= W320
            BY <6>1 DEF Encodable, W20NoHT, W320
          <6> QED BY <3>2, <6>1, <6>2, <6>3, <6>4 DEF Decodable
        <5> QED BY <5>1
      <4> QED BY <2>2, <3>2, <4>1 DEF Decode
    <3> QED BY <3>1, <3>2
  <2>3. CASE UNCHANGED vars
    BY <2>3 DEF vars
  <2> QED BY <2>1, <2>2, <2>3 DEF Next
<1> QED
  BY <1>1, <1>2, PTL DEF Spec

\* What goes out comes back the same and what comes in goes out the same,
\* for all frequencies, bands and widths.
THEOREM CodecRoundTrip == Spec => []RoundTrip
<1>1. ChannelInv => RoundTrip
  BY DEF ChannelInv
<1> QED
  BY <1>1, ChannelInvariance, PTL

\* No proper channel is refused, for all frequencies.
THEOREM CodecAccepts == Spec => []ProperIsAccepted
<1>1. ChannelInv => ProperIsAccepted
  <2> SUFFICES ASSUME ChannelInv, stage = "refused", origin = "application",
                      given.band \in Specific, given.primary # 0,
                      given.freq # 0, given.center1 # 0, Proper(given)
               PROVE  FALSE
    BY DEF ProperIsAccepted
  <2>1. ~Encodable(given, allow) /\ given \in Channels
    BY DEF ChannelInv
  <2>2. given.freq \in Nat /\ given.center1 \in Nat /\ given.center2 \in Nat
    BY <2>1, NaturalFields
  <2>3. GeometryValid(given)
    BY <2>2, GeometryIsProper
  <2>4. given.width \in W20NoHT..W320
    BY DEF Proper, W20NoHT, W20, W40, W80, W80P80, W160, W320
  <2> QED BY <2>1, <2>3, <2>4 DEF Encodable
<1> QED
  BY <1>1, ChannelInvariance, PTL

\* Whatever passes a conversion is proper, for all frequencies.
THEOREM CodecRefuses == Spec => []OnlyProperPasses
<1>1. ASSUME NEW c \in Channels, Encodable(c, allow)
      PROVE  Proper(c) \/ (allow /\ c.band = Unspecified /\ c.freq = 0)
  <2>1. CASE c.band = Unspecified /\ allow /\ c.freq = 0
    BY <2>1
  <2>2. CASE GeometryValid(c)
    BY <2>2, NaturalFields, GeometryIsProper
  <2> QED BY <1>1, <2>1, <2>2 DEF Encodable
<1>2. ChannelInv => OnlyProperPasses
  <2> SUFFICES ASSUME ChannelInv, stage # "refused", item # given
               PROVE  Proper(item) \/ (allow /\ item.band = Unspecified /\ item.freq = 0)
    BY DEF OnlyProperPasses
  <2>1. CASE stage = "channel"
    <3>1. item \in Channels /\ Encodable(item, allow)
      BY <2>1 DEF ChannelInv, RoundTrip
    <3> QED BY <1>1, <3>1
  <2>2. CASE stage = "wire"
    <3>1. item = ToWire(given) /\ given \in Channels /\ Encodable(given, allow)
      BY <2>2 DEF ChannelInv, RoundTrip
    <3>2. /\ item.band = given.band /\ item.width = given.width
          /\ item.freq = given.freq
          /\ item.center1 = given.center1 /\ item.center2 = given.center2
      BY <3>1 DEF ToWire
    <3>3. Proper(given) => Proper(item)
      BY <3>2 DEF Proper
    <3> QED BY <1>1, <3>1, <3>2, <3>3
  <2> QED BY <2>1, <2>2 DEF ChannelInv
<1> QED
  BY <1>2, ChannelInvariance, PTL

\* The two directions together: the conversions take the channels the standards
\* know of, for all frequencies, and refuse the others.
THEOREM CodecExact == Spec => []ExactlyProperPasses
<1>1. OnlyProperPasses /\ ProperIsAccepted => ExactlyProperPasses
  BY DEF ExactlyProperPasses
<1> QED
  BY <1>1, CodecAccepts, CodecRefuses, PTL

-----------------------------------------------------------------------------
(* WlanMessages.                                                           *)

\* The limit that is tested is the room there is, and the count field can hold it.
PartOK(q) ==
    /\ q.min \in Nat /\ q.max \in Nat /\ q.room = q.max /\ q.span \in Nat /\ q.max < q.span

\* The limits in the functions of the requests fit the arrays of the wire structures.
LEMMA RequestPartsOK ==
    ASSUME NEW r \in DOMAIN Requests, NEW p \in DOMAIN Requests[r]
    PROVE  PartOK(Requests[r][p])
<1>1. r \in {"scan", "authenticate", "associate", "set_key", "send_mgmt", "send_eapol"}
  BY DEF Requests
<1>2. CASE r = "scan" BY <1>2 DEF Requests, ScanParts, Part, PartOK, U8, U16, MaxSsid, MaxIe
<1>3. CASE r = "authenticate"
  BY <1>3 DEF Requests, AuthenticateParts, Part, PartOK, U8, U16, MaxSsid, MaxIe
<1>4. CASE r = "associate" BY <1>4 DEF Requests, AssociateParts, Part, PartOK, U16, MaxIe
<1>5. CASE r = "set_key" BY <1>5 DEF Requests, SetKeyParts, Part, PartOK, U8
<1>6. CASE r = "send_mgmt" BY <1>6 DEF Requests, SendMgmtParts, Part, PartOK, U16, MaxFrame
<1>7. CASE r = "send_eapol" BY <1>7 DEF Requests, SendEapolParts, Part, PartOK, U16, MaxEapol
<1> QED BY <1>1, <1>2, <1>3, <1>4, <1>5, <1>6, <1>7

\* The limits in wlan_offload_decode_event fit the public structures.
LEMMA EventPartsOK ==
    ASSUME NEW e \in DOMAIN EventParts, NEW p \in DOMAIN EventParts[e]
    PROVE  PartOK(EventParts[e][p])
<1>1. e \in {"scan_result", "rx_frame", "tx_status", "eapol_rx", "firmware_error",
             "external_auth"}
  BY DEF EventParts
<1>2. CASE e = "scan_result"
  BY <1>2 DEF EventParts, ScanResultParts, Part, PartOK, U8, U16, MaxSsid, MaxIe
<1>3. CASE e = "rx_frame" BY <1>3 DEF EventParts, RxFrameParts, Part, PartOK, U16, MaxFrame
<1>4. CASE e = "tx_status" BY <1>4 DEF EventParts, TxStatusParts, Part, PartOK, U16, MaxFrame
<1>5. CASE e = "eapol_rx" BY <1>5 DEF EventParts, EapolRxParts, Part, PartOK, U16, MaxEapol
<1>6. CASE e = "firmware_error"
  BY <1>6 DEF EventParts, FirmwareErrorParts, Part, PartOK, U16, MaxIe
<1>7. CASE e = "external_auth"
  BY <1>7 DEF EventParts, ExternalAuthParts, Part, PartOK, U8, MaxSsid
<1> QED BY <1>1, <1>2, <1>3, <1>4, <1>5, <1>6, <1>7

\* The parts of a message.
LEMMA PartsAre ==
    ASSUME NEW w
    PROVE  /\ w \in DOMAIN Requests => PartsOf(w) = Requests[w]
           /\ w \in DOMAIN EventParts => PartsOf(w) = EventParts[w]
           /\ w \in Plain \cup BareEvents \cup {"INFO", "NAMES"} => PartsOf(w) = NoParts
           /\ \A p \in DOMAIN PartsOf(w) : PartOK(PartsOf(w)[p])
<1>1. /\ DOMAIN Requests =
           {"scan", "authenticate", "associate", "set_key", "send_mgmt", "send_eapol"}
      /\ DOMAIN EventParts = {"scan_result", "rx_frame", "tx_status", "eapol_rx",
                              "firmware_error", "external_auth"}
  BY DEF Requests, EventParts
<1>2. w \in DOMAIN EventParts => w \notin DOMAIN Requests BY <1>1
<1>3. w \in DOMAIN Requests => PartsOf(w) = Requests[w] BY <1>2 DEF PartsOf
<1>4. w \in DOMAIN EventParts => PartsOf(w) = EventParts[w] BY <1>2 DEF PartsOf
<1>5. w \in Plain \cup BareEvents \cup {"INFO", "NAMES"} =>
        w \notin DOMAIN Requests \cup DOMAIN EventParts
  BY <1>1 DEF Plain, BareEvents
<1>6. w \notin DOMAIN Requests \cup DOMAIN EventParts => PartsOf(w) = NoParts
  BY DEF PartsOf
<1>7. \A p \in DOMAIN PartsOf(w) : PartOK(PartsOf(w)[p])
  <2>1. CASE w \in DOMAIN Requests BY <1>3, <2>1, RequestPartsOK
  <2>2. CASE w \in DOMAIN EventParts BY <1>4, <2>2, EventPartsOK
  <2>3. CASE w \notin DOMAIN Requests \cup DOMAIN EventParts BY <1>6, <2>3 DEF NoParts
  <2> QED BY <2>1, <2>2, <2>3
<1> QED BY <1>3, <1>4, <1>5, <1>6, <1>7

\* The inductive invariant: the count fields hold what the caller, or the kernel, meant.
MsgInv ==
    /\ counts \in [DOMAIN PartsOf(what) -> Nat]
    /\ wire = counts
    /\ progress = "request" => excess = 0
    /\ ExactlyFittingPasses

\* The invariant holds initially.
LEMMA MsgStarts == MsgInit => MsgInv
<1> SUFFICES ASSUME MsgInit PROVE MsgInv OBVIOUS
<1>1. counts \in [DOMAIN PartsOf(what) -> Nat]
  <2>1. CASE what \in DOMAIN Requests /\ counts \in CountsOf(Requests[what])
    BY <2>1, PartsAre, LengthsAssumption DEF CountsOf, LengthsAssumption
  <2>2. CASE what \in DOMAIN EventParts /\ counts \in CountsOf(EventParts[what])
    BY <2>2, PartsAre, LengthsAssumption DEF CountsOf, LengthsAssumption
  <2>3. CASE what \in Plain \cup BareEvents \cup {"INFO", "NAMES"} /\ counts = NoParts
    <3>1. PartsOf(what) = NoParts BY <2>3, PartsAre
    <3> QED BY <2>3, <3>1 DEF NoParts
  <2> QED BY <2>1, <2>2, <2>3 DEF MsgInit
<1>2. wire = counts /\ progress \in {"request", "event"} /\ (progress = "request" => excess = 0)
  BY DEF MsgInit
<1>3. ExactlyFittingPasses
  BY <1>2 DEF ExactlyFittingPasses, MessagesFit, RefusedForCause
<1> QED BY <1>1, <1>2, <1>3 DEF MsgInv

\* A count that passes the test is not cut by its field; one that fails does not fit.
LEMMA FitsMeans ==
    ASSUME MsgInv, NEW p \in DOMAIN counts
    PROVE  /\ PartsOf(what)[p].room = PartsOf(what)[p].max
           /\ Within(PartsOf(what)[p], counts[p]) =>
                counts[p] % PartsOf(what)[p].span = counts[p] /\ counts[p] <= PartsOf(what)[p].room
           /\ ~Within(PartsOf(what)[p], counts[p]) =>
                counts[p] > PartsOf(what)[p].room \/ counts[p] < PartsOf(what)[p].min
<1>1. PICK q : q = PartsOf(what)[p] OBVIOUS
<1>2. PartOK(q) /\ counts[p] \in Nat BY <1>1, PartsAre DEF MsgInv
<1>3. Within(q, counts[p]) => counts[p] % q.span = counts[p] BY <1>2 DEF PartOK, Within
<1> QED BY <1>1, <1>2, <1>3 DEF PartOK, Within

\* A request is sent or refused.
LEMMA SendKeeps == ASSUME MsgInv, Send PROVE MsgInv'
<1>1. progress = "request" /\ UNCHANGED <<what, counts, sound, excess>> /\ excess = 0
  BY DEF Send, MsgInv
<1>2. PartsOf(what)' = PartsOf(what) BY <1>1 DEF PartsOf
<1>3. counts' \in [DOMAIN PartsOf(what)' -> Nat] BY <1>1, <1>2 DEF MsgInv
<1>4. CASE /\ \A p \in DOMAIN counts : Within(PartsOf(what)[p], counts[p])
           /\ progress' = "sent"
           /\ wire' = [p \in DOMAIN counts |-> counts[p] % PartsOf(what)[p].span]
  <2>1. wire' = [p \in DOMAIN counts |-> counts[p]] BY <1>4, FitsMeans
  <2>2. wire' = counts BY <2>1 DEF MsgInv
  <2>3. \A p \in DOMAIN counts : counts[p] <= PartsOf(what)[p].room BY <1>4, FitsMeans
  <2>4. MessagesFit' BY <1>1, <1>2, <1>4, <2>2, <2>3 DEF MessagesFit
  <2>5. RefusedForCause' BY <1>4 DEF RefusedForCause
  <2> QED BY <1>1, <1>3, <1>4, <2>2, <2>4, <2>5 DEF MsgInv, ExactlyFittingPasses
<1>5. CASE /\ ~sound \/ \E p \in DOMAIN counts : ~Within(PartsOf(what)[p], counts[p])
           /\ progress' = "refused"
           /\ UNCHANGED wire
  <2>1. MessagesFit' BY <1>5 DEF MessagesFit
  <2>2. RefusedForCause' BY <1>1, <1>2, <1>5, FitsMeans DEF RefusedForCause
  <2> QED BY <1>1, <1>3, <1>5, <2>1, <2>2 DEF MsgInv, ExactlyFittingPasses
<1> QED BY <1>4, <1>5 DEF Send

\* An event is delivered or refused.
LEMMA ReceiveKeeps == ASSUME MsgInv, Receive PROVE MsgInv'
<1>1. progress = "event" /\ UNCHANGED <<what, counts, wire, sound, excess>> BY DEF Receive
<1>2. PartsOf(what)' = PartsOf(what) BY <1>1 DEF PartsOf
<1>3. counts' \in [DOMAIN PartsOf(what)' -> Nat] BY <1>1, <1>2 DEF MsgInv
<1>4. wire = counts BY DEF MsgInv
<1>5. CASE /\ sound /\ excess = 0
           /\ \A p \in DOMAIN wire : Within(PartsOf(what)[p], wire[p])
           /\ progress' = "delivered"
  <2>1. \A p \in DOMAIN counts : counts[p] <= PartsOf(what)[p].room
    BY <1>4, <1>5, FitsMeans
  <2>2. MessagesFit' BY <1>1, <1>2, <1>4, <1>5, <2>1 DEF MessagesFit
  <2>3. RefusedForCause' BY <1>5 DEF RefusedForCause
  <2> QED BY <1>1, <1>3, <1>4, <1>5, <2>2, <2>3 DEF MsgInv, ExactlyFittingPasses
<1>6. CASE /\ \/ what \in {"INFO", "NAMES"} \/ ~sound \/ excess # 0
              \/ \E p \in DOMAIN wire : ~Within(PartsOf(what)[p], wire[p])
           /\ progress' = "refused"
  <2>1. MessagesFit' BY <1>6 DEF MessagesFit
  <2>2. RefusedForCause' BY <1>1, <1>2, <1>4, <1>6, FitsMeans DEF RefusedForCause
  <2> QED BY <1>1, <1>3, <1>4, <1>6, <2>1, <2>2 DEF MsgInv, ExactlyFittingPasses
<1> QED BY <1>5, <1>6 DEF Receive

\* The requests that are sent and the events that are delivered are the ones that fit,
\* and their counts arrive as they were given, for lengths of any size: what
\* is tested is tested before it goes into a field of 8 or 16 bits.
THEOREM MessagesExact == MsgSpec => []ExactlyFittingPasses
<1>1. MsgInv /\ [MsgNext]_msgVars => MsgInv'
  <2>1. ASSUME MsgInv, UNCHANGED msgVars PROVE MsgInv'
    BY <2>1 DEF msgVars, MsgInv, ExactlyFittingPasses, MessagesFit, RefusedForCause, PartsOf
  <2> QED BY <2>1, SendKeeps, ReceiveKeeps DEF MsgNext
<1>2. MsgInv => ExactlyFittingPasses BY DEF MsgInv
<1> QED BY <1>1, <1>2, MsgStarts, PTL DEF MsgSpec

-----------------------------------------------------------------------------
(* SbusFrame.                                                              *)

\* Byte and bit of the n-th bit of the payload.
LEMMA ByteAndBit ==
    ASSUME NEW n \in 0..175
    PROVE  /\ n \div 8 \in 0..21 /\ n % 8 \in 0..7
           /\ n = 8 * (n \div 8) + (n % 8)
OBVIOUS

\* Where the bits of channel i begin; the last channels do not reach a third byte.
LEMMA Position ==
    ASSUME NEW i \in SbusChannels
    PROVE  /\ BytePos(i) \in 1..21 /\ BitPos(i) \in 0..7
           /\ 11 * i = 8 * (BytePos(i) - 1) + BitPos(i)
           /\ (BytePos(i) = 21 => ~Over(i))
<1>1. i \in 0..15 BY DEF SbusChannels
<1>2. PICK n \in 0..165 : n = i * 11 BY <1>1
<1>3. PICK a \in 0..20, r \in 0..7 : a = n \div 8 /\ r = n % 8 /\ n = 8 * a + r
  <2>1. n \in 0..175 OBVIOUS
  <2>2. PICK a \in 0..21, r \in 0..7 : a = n \div 8 /\ r = n % 8 /\ n = 8 * a + r
    BY <2>1, ByteAndBit
  <2>3. a \in 0..20 BY <2>2
  <2> QED BY <2>2, <2>3
<1>4. BytePos(i) = 1 + a /\ BitPos(i) = r BY <1>2, <1>3 DEF BytePos, BitPos
<1>5. 1 + a = 21 => ~(r > 5) BY <1>2, <1>3
<1>6. 11 * i = n BY <1>1, <1>2
<1> QED BY <1>3, <1>4, <1>5, <1>6 DEF Over

\* What channel i contributes to the payload byte b, with the bits of the payload
\* numbered through: the three shifts of sbus_send_frame put bit x of it at 11 * i + x.
LEMMA PartBits ==
    ASSUME NEW i \in SbusChannels, channels[i] \subseteq 0..10,
           NEW b \in 1..22, NEW p \in 0..7
    PROVE  p \in ChannelPart(i, b) <=> 8 * (b - 1) + p - 11 * i \in channels[i]
<1>1. i \in Int BY DEF SbusChannels
<1>2. PICK B \in 1..21, R \in 0..7 :
          B = BytePos(i) /\ R = BitPos(i) /\ 11 * i = 8 * (B - 1) + R
  BY Position
<1>3. p \in ChannelPart(i, b) <=>
          /\ b - B \in {0, 1} \/ (b - B = 2 /\ R > 5)
          /\ \E v \in channels[i] : p = v + (R - 8 * (b - B))
  BY <1>2 DEF ChannelPart, Shift, Over, Byte
<1>4. \A v \in channels[i] : v \in 0..10 OBVIOUS
<1>5. ASSUME p \in ChannelPart(i, b) PROVE 8 * (b - 1) + p - 11 * i \in channels[i]
  <2>1. PICK v \in channels[i] : p = v + (R - 8 * (b - B)) BY <1>3, <1>5
  <2>2. v \in 0..10 BY <1>4, <2>1
  <2>3. v = 8 * (b - 1) + p - 11 * i BY <1>1, <1>2, <2>1, <2>2
  <2> QED BY <2>1, <2>3
<1>6. ASSUME 8 * (b - 1) + p - 11 * i \in channels[i] PROVE p \in ChannelPart(i, b)
  <2>1. PICK v \in 0..10 : v \in channels[i] /\ v = 8 * (b - 1) + p - 11 * i BY <1>4, <1>6
  <2>2. p = v + (R - 8 * (b - B)) BY <1>1, <1>2, <2>1
  <2>3. b - B \in {0, 1} \/ (b - B = 2 /\ R > 5) BY <2>2
  <2> QED BY <1>3, <2>1, <2>2, <2>3
<1> QED BY <1>5, <1>6

\* A payload byte of the frame holds bit x of channel i where the protocol puts it,
\* and nothing of another channel.
LEMMA FrameBits ==
    ASSUME \A i \in SbusChannels : channels[i] \subseteq 0..10, NEW b \in 1..22
    PROVE  /\ EncodeFrame[b] \subseteq 0..7
           /\ \A i \in SbusChannels, p \in 0..7, x \in 0..10 : 8 * (b - 1) + p = 11 * i + x =>
                (p \in EncodeFrame[b] <=> x \in channels[i])
<1>1. EncodeFrame[b] = UNION {ChannelPart(i, b) : i \in SbusChannels}
  <2>1. b \in Bytes /\ b # 0 /\ b # 23 /\ b # 24 BY DEF Bytes
  <2> QED BY <2>1 DEF EncodeFrame
<1>2. \A i \in SbusChannels : ChannelPart(i, b) \subseteq 0..7 BY DEF ChannelPart, Byte
<1>3. ASSUME NEW i \in SbusChannels, NEW p \in 0..7, NEW x \in 0..10, 8 * (b - 1) + p = 11 * i + x
      PROVE  p \in EncodeFrame[b] <=> x \in channels[i]
  <2>1. ASSUME NEW j \in SbusChannels, p \in ChannelPart(j, b) PROVE j = i
    <3>1. 8 * (b - 1) + p - 11 * j \in channels[j] BY <2>1, PartBits
    <3>2. 8 * (b - 1) + p - 11 * j \in 0..10 BY <3>1
    <3>3. i \in Int /\ j \in Int BY DEF SbusChannels
    <3> QED BY <1>3, <3>2, <3>3
  <2>2. p \in EncodeFrame[b] <=> p \in ChannelPart(i, b) BY <1>1, <2>1
  <2>3. p \in ChannelPart(i, b) <=> 8 * (b - 1) + p - 11 * i \in channels[i] BY PartBits
  <2>4. 8 * (b - 1) + p - 11 * i = x
    <3>1. i \in Int BY DEF SbusChannels
    <3> QED BY <1>3, <3>1
  <2> QED BY <2>2, <2>3, <2>4
<1> QED BY <1>1, <1>2, <1>3

\* The frame has the layout of the protocol.
LEMMA FrameLayout ==
    ASSUME \A i \in SbusChannels : channels[i] \subseteq 0..10
    PROVE  SbusLayout(EncodeFrame)
<1>1. EncodeFrame[0] = 0..3 /\ EncodeFrame[23] = flags /\ EncodeFrame[24] = {}
  <2>1. 0 \in Bytes /\ 23 \in Bytes /\ 24 \in Bytes BY DEF Bytes
  <2>2. {0, 1, 2, 3} = 0..3 OBVIOUS
  <2> QED BY <2>1, <2>2 DEF EncodeFrame
<1>2. ASSUME NEW i \in SbusChannels, NEW x \in 0..10
      PROVE  x \in channels[i] <=> (11 * i + x) % 8 \in EncodeFrame[1 + (11 * i + x) \div 8]
  <2>1. i \in 0..15 BY DEF SbusChannels
  <2>2. PICK n \in 0..175 : n = 11 * i + x BY <2>1
  <2>3. PICK a \in 0..21, p \in 0..7 : a = n \div 8 /\ p = n % 8 /\ n = 8 * a + p
    BY ByteAndBit
  <2>4. PICK b \in 1..22 : b = 1 + a /\ 8 * (b - 1) + p = 11 * i + x
    <3>1. 8 * a + p = 11 * i + x BY <2>2, <2>3
    <3>2. 1 + a \in 1..22 /\ (1 + a) - 1 = a OBVIOUS
    <3> QED BY <3>1, <3>2
  <2>5. p \in EncodeFrame[b] <=> x \in channels[i] BY <2>4, FrameBits
  <2> QED BY <2>2, <2>3, <2>4, <2>5
<1> QED BY <1>1, <1>2 DEF SbusLayout

\* sbus_decode_frame reads from it the channels that were set.
LEMMA FrameDecodes ==
    ASSUME \A i \in SbusChannels : channels[i] \subseteq 0..10, NEW i \in SbusChannels
    PROVE  DecodeFrame(EncodeFrame, i) = channels[i]
<1>1. i \in Int BY DEF SbusChannels
<1>2. PICK B \in 1..21, R \in 0..7 :
          /\ B = BytePos(i) /\ R = BitPos(i) /\ 11 * i = 8 * (B - 1) + R
          /\ B = 21 => ~Over(i)
  BY Position
<1>3. PICK f : f = EncodeFrame OBVIOUS
<1>4. \A b \in 1..22 : /\ f[b] \subseteq 0..7
                       /\ \A p \in 0..7, x \in 0..10 : 8 * (b - 1) + p = 11 * i + x =>
                            (p \in f[b] <=> x \in channels[i])
  BY <1>3, FrameBits
<1>5. \A x : x \in DecodeFrame(f, i) <=>
          /\ x \in 0..10
          /\ \/ \E p \in f[B] : x = p + (-R)
             \/ \E p \in f[B + 1] : x = p + (8 - R)
             \/ Over(i) /\ \E p \in f[B + 2] : x = p + (16 - R)
  BY <1>2 DEF DecodeFrame, Shift
<1>6. ASSUME NEW x \in 0..10, NEW n \in 0..2, B + n \in 1..22, NEW p \in f[B + n],
             x = p + (8 * n - R)
      PROVE  x \in channels[i]
  <2>1. p \in 0..7 BY <1>4, <1>6
  <2>2. 8 * ((B + n) - 1) + p = 11 * i + x BY <1>1, <1>2, <1>6, <2>1
  <2> QED BY <1>4, <1>6, <2>1, <2>2
<1>7. ASSUME NEW x, x \in DecodeFrame(f, i) PROVE x \in channels[i]
  <2>1. x \in 0..10 BY <1>5, <1>7
  <2>2. B + 0 \in 1..22 /\ B + 1 \in 1..22 /\ (Over(i) => B + 2 \in 1..22) /\ B + 0 = B BY <1>2
  <2>3. CASE \E p \in f[B] : x = p + (-R)
    <3>1. PICK p \in f[B] : x = p + (-R) BY <2>3
    <3>2. p \in f[B + 0] /\ x = p + (8 * 0 - R) BY <2>2, <3>1
    <3> QED BY <1>6, <2>1, <2>2, <3>2
  <2>4. CASE \E p \in f[B + 1] : x = p + (8 - R)
    <3>1. PICK p \in f[B + 1] : x = p + (8 - R) BY <2>4
    <3>2. x = p + (8 * 1 - R) BY <3>1
    <3> QED BY <1>6, <2>1, <2>2, <3>2
  <2>5. CASE Over(i) /\ \E p \in f[B + 2] : x = p + (16 - R)
    <3>1. PICK p \in f[B + 2] : x = p + (16 - R) BY <2>5
    <3>2. x = p + (8 * 2 - R) BY <3>1
    <3> QED BY <1>6, <2>1, <2>2, <2>5, <3>2
  <2> QED BY <1>5, <1>7, <2>3, <2>4, <2>5
<1>8. ASSUME NEW x \in channels[i] PROVE x \in DecodeFrame(f, i)
  <2>1. x \in 0..10 OBVIOUS
  <2>2. PICK n \in 0..2, p \in 0..7 : p = R + x - 8 * n
    <3>1. CASE R + x < 8
      <4>1. R + x - 8 * 0 \in 0..7 BY <2>1, <3>1
      <4> QED BY <4>1
    <3>2. CASE R + x >= 8 /\ R + x < 16
      <4>1. R + x - 8 * 1 \in 0..7 BY <2>1, <3>2
      <4> QED BY <4>1
    <3>3. CASE R + x >= 16
      <4>1. R + x - 8 * 2 \in 0..7 BY <2>1, <3>3
      <4> QED BY <4>1
    <3> QED BY <2>1, <3>1, <3>2, <3>3
  <2>3. n = 2 => R > 5 BY <2>1, <2>2
  <2>4. n = 2 => Over(i) BY <1>2, <2>3 DEF Over
  <2>5. B + n \in 1..22 BY <1>2, <2>2, <2>4
  <2>6. 8 * ((B + n) - 1) + p = 11 * i + x BY <1>1, <1>2, <2>1, <2>2
  <2>7. p \in f[B + n] BY <1>4, <2>1, <2>5, <2>6
  <2>8. CASE n = 0
    <3>1. x = p + (-R) /\ p \in f[B] BY <1>2, <2>1, <2>2, <2>7, <2>8
    <3> QED BY <1>5, <2>1, <3>1
  <2>9. CASE n = 1
    <3>1. x = p + (8 - R) /\ p \in f[B + 1] BY <1>2, <2>1, <2>2, <2>7, <2>9
    <3> QED BY <1>5, <2>1, <3>1
  <2>10. CASE n = 2
    <3>1. x = p + (16 - R) /\ p \in f[B + 2] BY <1>2, <2>1, <2>2, <2>7, <2>10
    <3> QED BY <1>5, <2>1, <2>4, <2>10, <3>1
  <2> QED BY <2>8, <2>9, <2>10
<1> QED BY <1>3, <1>7, <1>8

\* Every frame sbus_send_frame sends has the layout of the protocol and decodes to the
\* channels that were set, for all values of eleven bits and any sequence of calls.
THEOREM SbusFrames == SbusSpec => FramesAreSbus
<1>1. ASSUME [SbusNext]_sbusVars, sent' # sent,
             \A i \in SbusChannels : channels[i] \subseteq 0..10
      PROVE  SbusLayout(sent') /\ \A i \in SbusChannels : DecodeFrame(sent', i) = channels[i]
  <2>1. sent' = EncodeFrame
    BY <1>1 DEF SbusNext, sbusVars, SetChannel, SetFlags, SendFrame
  <2> QED BY <1>1, <2>1, FrameLayout, FrameDecodes
<1> QED BY <1>1, PTL DEF SbusSpec, FramesAreSbus

-----------------------------------------------------------------------------
(* HidKeypad.                                                              *)

\* What the variables hold.
Key == Keys \X BOOLEAN
Event == [code : Codes, value : Values]
KeyEvent == [key : Key, code : Keys, released : BOOLEAN]

\* Of the events that reach LVGL, the releases.
Typed(e) == e.code \in Keys
Up(e) == e.value = "released"

\* With no key held, the last typed event behind the frame is a release.
LastIsUp(u, f, d) ==
    d \cap Keys = {} =>
        \A i \in 1..Len(u) : i > f /\ Typed(u[i]) /\ ~Up(u[i]) =>
            \E j \in 1..Len(u) : j > i /\ Typed(u[j])

\* LVGL is told of a release last, once the queue is delivered.
EndsReleased(q, r) == IF q = <<>> THEN r ELSE q[Len(q)].released

\* With no key held, the last typed event that LVGL will be told of is a release.
AllUp(u, d, ends) ==
    d \cap Keys = {} =>
        /\ \A i \in 1..Len(u) : Typed(u[i]) /\ ~Up(u[i]) =>
            \E j \in 1..Len(u) : j > i /\ Typed(u[j])
        /\ (\A i \in 1..Len(u) : ~Typed(u[i])) => ends

\* A release that waits is of a code that has its key in translated_keys, or will have
\* by then.
FirstRelease(u, t) ==
    \A i \in 1..Len(u) : Typed(u[i]) /\ Up(u[i]) =>
        \/ t[u[i].code] # NoKey
        \/ \E j \in 1..Len(u) : j < i /\ u[j].code = u[i].code /\ ~Up(u[j])

\* Between two releases of a code there is a press of it.
Alternate(u) ==
    \A i, k \in 1..Len(u) :
        i < k /\ Typed(u[i]) /\ Up(u[i]) /\ Up(u[k]) /\ u[k].code = u[i].code =>
            \E j \in 1..Len(u) : i < j /\ j < k /\ u[j].code = u[i].code /\ ~Up(u[j])

\* A key that is held has its key in translated_keys, or will have.
HeldOnce(u, t, d) ==
    \A c \in d \cap Keys :
        t[c] # NoKey \/ \E j \in 1..Len(u) : u[j].code = c /\ ~Up(u[j])

\* A key that is held and was released was pressed after that.
HeldAgain(u, d) ==
    \A c \in d \cap Keys : \A i \in 1..Len(u) : u[i].code = c /\ Up(u[i]) =>
        \E j \in 1..Len(u) : j > i /\ u[j].code = c /\ ~Up(u[j])

\* What is known of the events that wait.  clean: no keyboard has gone since something
\* was typed.
StreamOK(u, f, t, d, clean, ends) ==
    /\ LastIsUp(u, f, d) /\ (clean => AllUp(u, d, ends))
    /\ FirstRelease(u, t) /\ Alternate(u) /\ HeldOnce(u, t, d) /\ HeldAgain(u, d)

\* After n events of the queue, LVGL has the code c pressed as this key, or missed its
\* press.
ShownAs(q, s, m, c, n, key) ==
    \/ \E j \in 1..n : /\ q[j].code = c /\ ~q[j].released /\ q[j].key = key
                       /\ \A i \in 1..n : i > j => q[i].code # c
    \/ (\A i \in 1..n : q[i].code # c) /\ (c \in m \/ s[c] = key)

\* A release in the queue is of the key LVGL has it pressed as by then.
QueueShown(q, s, m) ==
    \A k \in 1..Len(q) : q[k].released =>
        ShownAs(q, s, m, q[k].code, k - 1, q[k].key)

\* After the whole queue, translated_keys is what LVGL has pressed.
TranslatedShown(q, s, m, t) ==
    \A c \in Keys : t[c] # NoKey => ShownAs(q, s, m, c, Len(q), t[c])

\* translated_keys before and after the key event k is queued.
Translates(k, t, w) ==
    /\ \A c \in Keys : c # k.code => w[c] = t[c]
    /\ k.released => w[k.code] = NoKey /\ t[k.code] = k.key
    /\ ~k.released => w[k.code] = k.key

\* translated_keys, and whether LVGL ends on a release, before and after the event e.
Takes(e, t, w, ends, after) ==
    /\ \A c \in Keys : c # e.code => w[c] = t[c]
    /\ Typed(e) => (w[e.code] = NoKey <=> Up(e))
    /\ Typed(e) /\ Up(e) => after
    /\ ~Typed(e) => (after <=> ends)

\* An element more at the end.
LEMMA Appending ==
    ASSUME NEW S, NEW u \in Seq(S), NEW e \in S, NEW v, v = Append(u, e)
    PROVE  /\ v \in Seq(S) /\ Len(u) \in Nat /\ Len(v) = Len(u) + 1 /\ v[Len(u) + 1] = e
           /\ \A i \in 1..Len(u) : v[i] = u[i]
           /\ \A i \in 1..Len(u) : i \in 1..Len(v)
           /\ \A i \in 1..Len(v) : i \in 1..Len(u) \/ i = Len(u) + 1
           /\ Len(u) + 1 \in 1..Len(v) /\ v # <<>>
<1>1. v \in Seq(S) /\ Len(u) \in Nat /\ Len(v) = Len(u) + 1 /\ v[Len(u) + 1] = e OBVIOUS
<1>2. \A i \in 1..Len(u) : v[i] = u[i] OBVIOUS
<1>3. v # <<>> OBVIOUS
<1> QED BY <1>1, <1>2, <1>3

\* An element less at the head.
LEMMA Dropping ==
    ASSUME NEW S, NEW u \in Seq(S), u # <<>>, NEW v, v = Tail(u)
    PROVE  /\ v \in Seq(S) /\ Len(u) \in Nat /\ Len(u) > 0 /\ Len(v) \in Nat
           /\ Len(v) = Len(u) - 1 /\ Head(u) = u[1] /\ u[1] \in S /\ 1 \in 1..Len(u)
           /\ \A i \in 1..Len(v) : v[i] = u[i + 1] /\ i + 1 \in 1..Len(u)
           /\ \A i \in 1..Len(u) : i = 1 \/ i - 1 \in 1..Len(v)
<1>1. v \in Seq(S) /\ Len(u) \in Nat /\ Len(u) > 0 /\ Len(v) = Len(u) - 1 /\ Head(u) = u[1]
  OBVIOUS
<1>2. \A i \in 1..Len(v) : v[i] = u[i + 1] BY <1>1
<1>3. u[1] \in S BY <1>1
<1> QED BY <1>1, <1>2, <1>3

\* The keyboard sends an event that it can send.
LEMMA EmitStream ==
    ASSUME NEW u \in Seq(Event), NEW e \in Event, NEW v, v = Append(u, e),
           NEW f, NEW t, NEW d, NEW b, NEW ends, NEW clean,
           e.value # "pressed" => e.code \in d,
           e.value = "released" => b = d \ {e.code},
           e.value # "released" => b = d \cup {e.code},
           StreamOK(u, f, t, d, clean, ends)
    PROVE  StreamOK(v, f, t, b, clean, ends)
<1>1. /\ LastIsUp(u, f, d) /\ (clean => AllUp(u, d, ends))
      /\ FirstRelease(u, t) /\ Alternate(u) /\ HeldOnce(u, t, d) /\ HeldAgain(u, d)
  BY DEF StreamOK
<1>2. /\ v \in Seq(Event) /\ Len(u) \in Nat /\ Len(v) = Len(u) + 1 /\ v[Len(u) + 1] = e
      /\ \A i \in 1..Len(u) : v[i] = u[i]
      /\ \A i \in 1..Len(u) : i \in 1..Len(v)
      /\ \A i \in 1..Len(v) : i \in 1..Len(u) \/ i = Len(u) + 1
      /\ Len(u) + 1 \in 1..Len(v)
  BY Appending
<1> PICK n \in Nat : n = Len(u) BY <1>2
<1>3. \A i \in 1..n : i < n + 1 OBVIOUS
<1>4. b \cap Keys = {} => (Typed(e) => Up(e)) /\ (~Typed(e) => d \cap Keys = {})
  BY DEF Typed, Up
<1>5. ASSUME b \cap Keys = {}, Typed(e), NEW i \in 1..Len(v), Typed(v[i]), ~Up(v[i])
      PROVE  \E j \in 1..Len(v) : j > i /\ Typed(v[j])
  <2>1. i \in 1..n BY <1>2, <1>4, <1>5
  <2> QED BY <1>2, <1>3, <1>5, <2>1
<1>6. LastIsUp(v, f, b)
  <2>1. CASE Typed(e) BY <1>1, <1>5, <2>1 DEF LastIsUp
  <2>2. CASE ~Typed(e)
    <3> SUFFICES ASSUME b \cap Keys = {}, NEW i \in 1..Len(v), i > f, Typed(v[i]), ~Up(v[i])
                 PROVE  \E j \in 1..Len(v) : j > i /\ Typed(v[j])
      BY DEF LastIsUp
    <3>1. i \in 1..Len(u) /\ v[i] = u[i] BY <1>2, <2>2
    <3>2. PICK j \in 1..Len(u) : j > i /\ Typed(u[j]) BY <1>1, <1>4, <2>2, <3>1 DEF LastIsUp
    <3> QED BY <1>2, <3>2
  <2> QED BY <2>1, <2>2
<1>7. ASSUME clean PROVE AllUp(v, b, ends)
  <2>1. CASE Typed(e) BY <1>1, <1>2, <1>5, <2>1 DEF AllUp
  <2>2. CASE ~Typed(e)
    <3> SUFFICES ASSUME b \cap Keys = {}
                 PROVE  /\ \A i \in 1..Len(v) : Typed(v[i]) /\ ~Up(v[i]) =>
                              \E j \in 1..Len(v) : j > i /\ Typed(v[j])
                        /\ (\A i \in 1..Len(v) : ~Typed(v[i])) => ends
      BY DEF AllUp
    <3>1. /\ \A i \in 1..Len(u) : Typed(u[i]) /\ ~Up(u[i]) =>
                \E j \in 1..Len(u) : j > i /\ Typed(u[j])
          /\ (\A i \in 1..Len(u) : ~Typed(u[i])) => ends
      BY <1>1, <1>4, <1>7, <2>2 DEF AllUp
    <3>2. ASSUME NEW i \in 1..Len(v), Typed(v[i]), ~Up(v[i])
          PROVE  \E j \in 1..Len(v) : j > i /\ Typed(v[j])
      <4>1. i \in 1..Len(u) /\ v[i] = u[i] BY <1>2, <2>2, <3>2
      <4>2. PICK j \in 1..Len(u) : j > i /\ Typed(u[j]) BY <3>1, <3>2, <4>1
      <4> QED BY <1>2, <4>2
    <3>3. (\A i \in 1..Len(v) : ~Typed(v[i])) => ends BY <1>2, <3>1
    <3> QED BY <3>2, <3>3
  <2> QED BY <2>1, <2>2
<1>8. FirstRelease(v, t)
  <2> SUFFICES ASSUME NEW i \in 1..Len(v), Typed(v[i]), Up(v[i]), t[v[i].code] = NoKey
               PROVE  \E j \in 1..Len(v) : j < i /\ v[j].code = v[i].code /\ ~Up(v[j])
    BY DEF FirstRelease
  <2>1. CASE i \in 1..Len(u)
    <3>1. PICK j \in 1..Len(u) : j < i /\ u[j].code = u[i].code /\ ~Up(u[j])
      BY <1>1, <1>2, <2>1 DEF FirstRelease
    <3> QED BY <1>2, <2>1, <3>1
  <2>2. CASE i = Len(u) + 1
    <3>1. e.code \in d \cap Keys BY <1>2, <2>2 DEF Typed, Up
    <3>2. PICK j \in 1..Len(u) : u[j].code = e.code /\ ~Up(u[j])
      BY <1>1, <1>2, <2>2, <3>1 DEF HeldOnce
    <3> QED BY <1>2, <1>3, <2>2, <3>2
  <2> QED BY <1>2, <2>1, <2>2
<1>9. Alternate(v)
  <2> SUFFICES ASSUME NEW i \in 1..Len(v), NEW k \in 1..Len(v), i < k,
                      Typed(v[i]), Up(v[i]), Up(v[k]), v[k].code = v[i].code
               PROVE  \E j \in 1..Len(v) : i < j /\ j < k /\ v[j].code = v[i].code /\ ~Up(v[j])
    BY DEF Alternate
  <2>1. i \in 1..Len(u) /\ v[i] = u[i] BY <1>2
  <2>2. CASE k \in 1..Len(u)
    <3>1. PICK j \in 1..Len(u) : i < j /\ j < k /\ u[j].code = u[i].code /\ ~Up(u[j])
      BY <1>1, <1>2, <2>1, <2>2 DEF Alternate
    <3> QED BY <1>2, <2>1, <3>1
  <2>3. CASE k = Len(u) + 1
    <3>1. e.code \in d \cap Keys /\ u[i].code = e.code BY <1>2, <2>1, <2>3 DEF Typed, Up
    <3>2. PICK j \in 1..Len(u) : j > i /\ u[j].code = e.code /\ ~Up(u[j])
      BY <1>1, <2>1, <3>1 DEF HeldAgain
    <3> QED BY <1>2, <1>3, <2>1, <2>3, <3>1, <3>2
  <2> QED BY <1>2, <2>2, <2>3
<1>10. ASSUME NEW c \in b \cap Keys
      PROVE  /\ t[c] # NoKey \/ \E j \in 1..Len(v) : v[j].code = c /\ ~Up(v[j])
             /\ \A i \in 1..Len(v) : v[i].code = c /\ Up(v[i]) =>
                  \E j \in 1..Len(v) : j > i /\ v[j].code = c /\ ~Up(v[j])
  <2>1. CASE c = e.code
    <3>1. ~Up(e) BY <2>1 DEF Up
    <3>2. \A i \in 1..Len(v) : Up(v[i]) => Len(u) + 1 > i BY <1>2, <1>3, <3>1
    <3> QED BY <1>2, <2>1, <3>1, <3>2
  <2>2. CASE c # e.code
    <3>1. c \in d \cap Keys BY <2>2
    <3>2. t[c] # NoKey \/ \E j \in 1..Len(v) : v[j].code = c /\ ~Up(v[j])
      BY <1>1, <1>2, <3>1 DEF HeldOnce
    <3>3. ASSUME NEW i \in 1..Len(v), v[i].code = c, Up(v[i])
          PROVE  \E j \in 1..Len(v) : j > i /\ v[j].code = c /\ ~Up(v[j])
      <4>1. i \in 1..Len(u) /\ v[i] = u[i] BY <1>2, <2>2, <3>3
      <4>2. PICK j \in 1..Len(u) : j > i /\ u[j].code = c /\ ~Up(u[j])
        BY <1>1, <3>1, <3>3, <4>1 DEF HeldAgain
      <4> QED BY <1>2, <4>2
    <3> QED BY <3>2, <3>3
  <2> QED BY <2>1, <2>2
<1>11. HeldOnce(v, t, b) BY <1>1, <1>10 DEF HeldOnce
<1>12. HeldAgain(v, b) BY <1>1, <1>10 DEF HeldAgain
<1> QED BY <1>6, <1>7, <1>8, <1>9, <1>11, <1>12 DEF StreamOK

\* The first event is taken.
LEMMA TakeStream ==
    ASSUME NEW u \in Seq(Event), u # <<>>, NEW v, v = Tail(u),
           NEW f \in Nat, f > 0, NEW t, NEW w, NEW d, NEW ends, NEW after, NEW clean,
           Takes(u[1], t, w, ends, after), StreamOK(u, f, t, d, clean, ends)
    PROVE  StreamOK(v, f - 1, w, d, clean, after)
<1> USE DEF Takes
<1>1. /\ LastIsUp(u, f, d) /\ (clean => AllUp(u, d, ends))
      /\ FirstRelease(u, t) /\ Alternate(u) /\ HeldOnce(u, t, d) /\ HeldAgain(u, d)
  BY DEF StreamOK
<1>2. /\ v \in Seq(Event) /\ Len(u) \in Nat /\ Len(u) > 0 /\ Len(v) \in Nat
      /\ Len(v) = Len(u) - 1 /\ u[1] \in Event /\ 1 \in 1..Len(u)
      /\ \A i \in 1..Len(v) : v[i] = u[i + 1] /\ i + 1 \in 1..Len(u)
      /\ \A i \in 1..Len(u) : i = 1 \/ i - 1 \in 1..Len(v)
  BY Dropping
<1>3. \A i \in 1..Len(u) : i # 1 => i - 1 \in 1..Len(v) /\ v[i - 1] = u[i]
  <2>1. \A i \in 1..Len(u) : (i - 1) + 1 = i OBVIOUS
  <2> QED BY <1>2, <2>1
<1>4. LastIsUp(v, f - 1, d)
  <2> SUFFICES ASSUME d \cap Keys = {}, NEW i \in 1..Len(v), i > f - 1, Typed(v[i]), ~Up(v[i])
               PROVE  \E j \in 1..Len(v) : j > i /\ Typed(v[j])
    BY DEF LastIsUp
  <2>1. i + 1 \in 1..Len(u) /\ i + 1 > f /\ u[i + 1] = v[i] BY <1>2
  <2>2. PICK j \in 1..Len(u) : j > i + 1 /\ Typed(u[j]) BY <1>1, <2>1 DEF LastIsUp
  <2>3. j # 1 /\ j - 1 > i BY <2>2
  <2> QED BY <1>3, <2>2, <2>3
<1>5. ASSUME clean PROVE AllUp(v, d, after)
  <2> SUFFICES ASSUME d \cap Keys = {}
               PROVE  /\ \A i \in 1..Len(v) : Typed(v[i]) /\ ~Up(v[i]) =>
                            \E j \in 1..Len(v) : j > i /\ Typed(v[j])
                      /\ (\A i \in 1..Len(v) : ~Typed(v[i])) => after
    BY DEF AllUp
  <2>1. /\ \A i \in 1..Len(u) : Typed(u[i]) /\ ~Up(u[i]) =>
              \E j \in 1..Len(u) : j > i /\ Typed(u[j])
        /\ (\A i \in 1..Len(u) : ~Typed(u[i])) => ends
    BY <1>1, <1>5 DEF AllUp
  <2>2. ASSUME NEW i \in 1..Len(v), Typed(v[i]), ~Up(v[i])
        PROVE  \E j \in 1..Len(v) : j > i /\ Typed(v[j])
    <3>1. i + 1 \in 1..Len(u) /\ u[i + 1] = v[i] BY <1>2
    <3>2. PICK j \in 1..Len(u) : j > i + 1 /\ Typed(u[j]) BY <2>1, <2>2, <3>1
    <3>3. j # 1 /\ j - 1 > i BY <3>2
    <3> QED BY <1>3, <3>2, <3>3
  <2>3. ASSUME \A i \in 1..Len(v) : ~Typed(v[i]) PROVE after
    <3>1. \A i \in 1..Len(u) : i # 1 => ~Typed(u[i]) BY <1>3, <2>3
    <3>2. CASE Typed(u[1]) /\ ~Up(u[1])
      <4>1. PICK j \in 1..Len(u) : j > 1 /\ Typed(u[j]) BY <1>2, <2>1, <3>2
      <4> QED BY <3>1, <4>1
    <3>3. CASE ~Typed(u[1]) BY <2>1, <3>1, <3>3
    <3> QED BY <3>2, <3>3
  <2> QED BY <2>2, <2>3
<1>6. FirstRelease(v, w)
  <2> SUFFICES ASSUME NEW i \in 1..Len(v), Typed(v[i]), Up(v[i]), w[v[i].code] = NoKey
               PROVE  \E j \in 1..Len(v) : j < i /\ v[j].code = v[i].code /\ ~Up(v[j])
    BY DEF FirstRelease
  <2>1. i + 1 \in 1..Len(u) /\ u[i + 1] = v[i] /\ 1 < i + 1 BY <1>2
  <2>2. ASSUME NEW j \in 1..Len(u), j > 1, j < i + 1, u[j].code = v[i].code, ~Up(u[j])
        PROVE  \E k \in 1..Len(v) : k < i /\ v[k].code = v[i].code /\ ~Up(v[k])
    <3>1. j # 1 /\ j - 1 < i BY <2>2
    <3> QED BY <1>3, <2>2, <3>1
  <2>3. CASE v[i].code = u[1].code
    <3>1. Typed(u[1]) /\ Up(u[1]) BY <2>3 DEF Typed
    <3>2. PICK j \in 1..Len(u) : 1 < j /\ j < i + 1 /\ u[j].code = u[1].code /\ ~Up(u[j])
      BY <1>1, <1>2, <2>1, <2>3, <3>1 DEF Alternate
    <3> QED BY <2>2, <2>3, <3>2
  <2>4. CASE v[i].code # u[1].code
    <3>1. t[v[i].code] = NoKey BY <2>4 DEF Typed
    <3>2. PICK j \in 1..Len(u) : j < i + 1 /\ u[j].code = v[i].code /\ ~Up(u[j])
      BY <1>1, <2>1, <3>1 DEF FirstRelease
    <3>3. j > 1 BY <2>4, <3>2
    <3> QED BY <2>2, <3>2, <3>3
  <2> QED BY <2>3, <2>4
<1>7. Alternate(v)
  <2> SUFFICES ASSUME NEW i \in 1..Len(v), NEW k \in 1..Len(v), i < k,
                      Typed(v[i]), Up(v[i]), Up(v[k]), v[k].code = v[i].code
               PROVE  \E j \in 1..Len(v) : i < j /\ j < k /\ v[j].code = v[i].code /\ ~Up(v[j])
    BY DEF Alternate
  <2>1. /\ i + 1 \in 1..Len(u) /\ u[i + 1] = v[i] /\ k + 1 \in 1..Len(u) /\ u[k + 1] = v[k]
        /\ i + 1 < k + 1
    BY <1>2
  <2>2. PICK j \in 1..Len(u) : i + 1 < j /\ j < k + 1 /\ u[j].code = v[i].code /\ ~Up(u[j])
    BY <1>1, <2>1 DEF Alternate
  <2>3. j # 1 /\ i < j - 1 /\ j - 1 < k BY <2>2
  <2> QED BY <1>3, <2>2, <2>3
<1>8. HeldOnce(v, w, d)
  <2> SUFFICES ASSUME NEW c \in d \cap Keys, w[c] = NoKey
               PROVE  \E j \in 1..Len(v) : v[j].code = c /\ ~Up(v[j])
    BY DEF HeldOnce
  <2>1. PICK j \in 1..Len(u) : j # 1 /\ u[j].code = c /\ ~Up(u[j])
    <3>1. CASE c = u[1].code
      <4>1. Up(u[1]) BY <3>1 DEF Typed
      <4>2. PICK j \in 1..Len(u) : j > 1 /\ u[j].code = c /\ ~Up(u[j])
        BY <1>1, <1>2, <3>1, <4>1 DEF HeldAgain
      <4> QED BY <4>2
    <3>2. CASE c # u[1].code BY <1>1, <3>2 DEF HeldOnce
    <3> QED BY <3>1, <3>2
  <2> QED BY <1>3, <2>1
<1>9. HeldAgain(v, d)
  <2> SUFFICES ASSUME NEW c \in d \cap Keys, NEW i \in 1..Len(v), v[i].code = c, Up(v[i])
               PROVE  \E j \in 1..Len(v) : j > i /\ v[j].code = c /\ ~Up(v[j])
    BY DEF HeldAgain
  <2>1. i + 1 \in 1..Len(u) /\ u[i + 1] = v[i] BY <1>2
  <2>2. PICK j \in 1..Len(u) : j > i + 1 /\ u[j].code = c /\ ~Up(u[j])
    BY <1>1, <2>1 DEF HeldAgain
  <2>3. j # 1 /\ j - 1 > i BY <2>2
  <2> QED BY <1>3, <2>2, <2>3
<1> QED BY <1>4, <1>5, <1>6, <1>7, <1>8, <1>9 DEF StreamOK

\* The first event of the queue goes, to LVGL or, if its press is counted as missed,
\* nowhere.
LEMMA TailShown ==
    ASSUME NEW q \in Seq(KeyEvent), q # <<>>, NEW v, v = Tail(q), NEW s, NEW m, NEW r, NEW l,
           \A c \in Keys : c # q[1].code => r[c] = s[c] /\ (c \in m => c \in l),
           ~q[1].released => q[1].code \in l \/ r[q[1].code] = q[1].key,
           NEW c \in Keys, NEW n \in 1..Len(q), NEW key, ShownAs(q, s, m, c, n, key)
    PROVE  ShownAs(v, r, l, c, n - 1, key)
<1>1. /\ Len(q) \in Nat /\ Len(v) = Len(q) - 1 /\ Len(v) \in Nat /\ 1 \in 1..Len(q)
      /\ \A i \in 1..Len(v) : v[i] = q[i + 1] /\ i + 1 \in 1..Len(q)
  BY Dropping
<1>2. \A i \in 1..(n - 1) : v[i] = q[i + 1] /\ i + 1 \in 1..n
  <2>1. \A i \in 1..(n - 1) : i \in 1..Len(v) /\ i + 1 \in 1..n BY <1>1
  <2> QED BY <1>1, <2>1
<1>3. 1 \in 1..n BY <1>1
<1>4. CASE \E j \in 1..n : /\ q[j].code = c /\ ~q[j].released /\ q[j].key = key
                           /\ \A i \in 1..n : i > j => q[i].code # c
  <2>1. PICK j \in 1..n : /\ q[j].code = c /\ ~q[j].released /\ q[j].key = key
                          /\ \A i \in 1..n : i > j => q[i].code # c
    BY <1>4
  <2>2. CASE j = 1
    <3>1. \A i \in 1..(n - 1) : i + 1 \in 1..n /\ i + 1 > 1 /\ v[i] = q[i + 1] BY <1>2
    <3>2. \A i \in 1..(n - 1) : v[i].code # c BY <2>1, <2>2, <3>1
    <3>3. c \in l \/ r[c] = key BY <2>1, <2>2
    <3> QED BY <3>2, <3>3 DEF ShownAs
  <2>3. CASE j # 1
    <3>1. j - 1 \in 1..(n - 1) /\ (j - 1) + 1 = j BY <2>3
    <3>2. v[j - 1] = q[j] BY <1>2, <3>1
    <3>3. ASSUME NEW i \in 1..(n - 1), i > j - 1 PROVE v[i].code # c
      <4>1. i + 1 \in 1..n /\ i + 1 > j /\ v[i] = q[i + 1] BY <1>2, <3>3
      <4> QED BY <2>1, <4>1
    <3> QED BY <2>1, <3>1, <3>2, <3>3 DEF ShownAs
  <2> QED BY <2>2, <2>3
<1>5. CASE (\A i \in 1..n : q[i].code # c) /\ (c \in m \/ s[c] = key)
  <2>1. \A i \in 1..(n - 1) : v[i].code # c BY <1>2, <1>5
  <2>2. c \in l \/ r[c] = key BY <1>3, <1>5
  <2> QED BY <2>1, <2>2 DEF ShownAs
<1> QED BY <1>4, <1>5 DEF ShownAs

\* The same for the whole queue and translated_keys.
LEMMA TailKeeps ==
    ASSUME NEW q \in Seq(KeyEvent), q # <<>>, NEW v, v = Tail(q), NEW s, NEW m, NEW r, NEW l,
           \A c \in Keys : c # q[1].code => r[c] = s[c] /\ (c \in m => c \in l),
           ~q[1].released => q[1].code \in l \/ r[q[1].code] = q[1].key,
           NEW t, QueueShown(q, s, m), TranslatedShown(q, s, m, t)
    PROVE  QueueShown(v, r, l) /\ TranslatedShown(v, r, l, t)
<1>1. /\ Len(q) \in Nat /\ Len(v) = Len(q) - 1 /\ Len(v) \in Nat /\ 1 \in 1..Len(q)
      /\ \A i \in 1..Len(v) : v[i] = q[i + 1] /\ i + 1 \in 1..Len(q)
  BY Dropping
<1>2. \A i \in 1..Len(q) : q[i].code \in Keys
  <2>1. \A i \in 1..Len(q) : q[i] \in KeyEvent OBVIOUS
  <2> QED BY <2>1 DEF KeyEvent
<1>3. QueueShown(v, r, l)
  <2> SUFFICES ASSUME NEW k \in 1..Len(v), v[k].released
               PROVE  ShownAs(v, r, l, v[k].code, k - 1, v[k].key)
    BY DEF QueueShown
  <2>1. k + 1 \in 1..Len(q) /\ v[k] = q[k + 1] /\ (k + 1) - 1 = k /\ k \in 1..Len(q) BY <1>1
  <2>2. ShownAs(q, s, m, q[k + 1].code, k, q[k + 1].key) BY <2>1 DEF QueueShown
  <2>3. q[k + 1].code \in Keys BY <1>2, <2>1
  <2>4. ShownAs(v, r, l, q[k + 1].code, k - 1, q[k + 1].key) BY <2>1, <2>2, <2>3, TailShown
  <2> QED BY <2>1, <2>4
<1>4. TranslatedShown(v, r, l, t)
  <2> SUFFICES ASSUME NEW c \in Keys, t[c] # NoKey
               PROVE  ShownAs(v, r, l, c, Len(v), t[c])
    BY DEF TranslatedShown
  <2>1. ShownAs(q, s, m, c, Len(q), t[c]) BY DEF TranslatedShown
  <2>2. Len(q) \in 1..Len(q) BY <1>1
  <2>3. ShownAs(v, r, l, c, Len(q) - 1, t[c]) BY <2>1, <2>2, TailShown
  <2> QED BY <1>1, <2>3
<1> QED BY <1>3, <1>4

\* A key event is queued and translated_keys follows it.
LEMMA AppendKeeps ==
    ASSUME NEW q \in Seq(KeyEvent), NEW k \in KeyEvent, NEW v, v = Append(q, k), NEW s, NEW m,
           NEW t, NEW w, QueueShown(q, s, m), TranslatedShown(q, s, m, t),
           Translates(k, t, w), NoKey \notin Key
    PROVE  QueueShown(v, s, m) /\ TranslatedShown(v, s, m, w)
<1> USE DEF Translates
<1>1. /\ Len(q) \in Nat /\ Len(v) = Len(q) + 1 /\ v[Len(q) + 1] = k
      /\ \A i \in 1..Len(q) : v[i] = q[i]
      /\ \A i \in 1..Len(v) : i \in 1..Len(q) \/ i = Len(q) + 1
      /\ Len(q) + 1 \in 1..Len(v)
  BY Appending
<1>2. ASSUME NEW c, NEW n \in Nat, n <= Len(q), NEW key, ShownAs(q, s, m, c, n, key)
      PROVE  ShownAs(v, s, m, c, n, key)
  <2>1. \A i \in 1..n : v[i] = q[i] BY <1>1, <1>2
  <2> QED BY <1>2, <2>1 DEF ShownAs
<1>3. k.code \in Keys /\ k.key # NoKey /\ k.released \in BOOLEAN BY DEF KeyEvent
<1>4. QueueShown(v, s, m)
  <2> SUFFICES ASSUME NEW i \in 1..Len(v), v[i].released
               PROVE  ShownAs(v, s, m, v[i].code, i - 1, v[i].key)
    BY DEF QueueShown
  <2>1. i - 1 \in Nat /\ i - 1 <= Len(q) BY <1>1
  <2>2. CASE i \in 1..Len(q)
    <3>1. ShownAs(q, s, m, q[i].code, i - 1, q[i].key) BY <1>1, <2>2 DEF QueueShown
    <3> QED BY <1>1, <1>2, <2>1, <2>2, <3>1
  <2>3. CASE i = Len(q) + 1
    <3>1. k.released /\ i - 1 = Len(q) /\ v[i] = k BY <1>1, <2>3
    <3>2. ShownAs(q, s, m, k.code, Len(q), k.key) BY <1>3, <3>1 DEF TranslatedShown
    <3> QED BY <1>2, <2>1, <3>1, <3>2
  <2> QED BY <1>1, <2>2, <2>3
<1>5. TranslatedShown(v, s, m, w)
  <2> SUFFICES ASSUME NEW c \in Keys, w[c] # NoKey
               PROVE  ShownAs(v, s, m, c, Len(v), w[c])
    BY DEF TranslatedShown
  <2>1. CASE c = k.code
    <3>1. ~k.released /\ w[c] = k.key BY <2>1
    <3>2. /\ Len(v) \in 1..Len(v) /\ v[Len(v)] = k
          /\ \A i \in 1..Len(v) : ~(i > Len(v))
      BY <1>1
    <3> QED BY <2>1, <3>1, <3>2 DEF ShownAs
  <2>2. CASE c # k.code
    <3>1. ShownAs(q, s, m, c, Len(q), w[c]) BY <2>2 DEF TranslatedShown
    <3>2. CASE \E j \in 1..Len(q) : /\ q[j].code = c /\ ~q[j].released /\ q[j].key = w[c]
                                    /\ \A i \in 1..Len(q) : i > j => q[i].code # c
      <4>1. PICK j \in 1..Len(q) : /\ q[j].code = c /\ ~q[j].released /\ q[j].key = w[c]
                                   /\ \A i \in 1..Len(q) : i > j => q[i].code # c
        BY <3>2
      <4>2. j \in 1..Len(v) /\ v[j] = q[j] BY <1>1
      <4>3. \A i \in 1..Len(v) : i > j => v[i].code # c BY <1>1, <2>2, <4>1
      <4> QED BY <4>1, <4>2, <4>3 DEF ShownAs
    <3>3. CASE (\A i \in 1..Len(q) : q[i].code # c) /\ (c \in m \/ s[c] = w[c])
      <4>1. \A i \in 1..Len(v) : v[i].code # c BY <1>1, <2>2, <3>3
      <4> QED BY <3>3, <4>1 DEF ShownAs
    <3> QED BY <3>1, <3>2, <3>3 DEF ShownAs
  <2> QED BY <2>1, <2>2
<1> QED BY <1>4, <1>5

\* The types of the variables.
HidTypes ==
    /\ down \subseteq Codes
    /\ unread \in Seq(Event) /\ inFrame \in Nat /\ inFrame <= Len(unread)
    /\ shift \in BOOLEAN /\ caps \in BOOLEAN
    /\ translated \in [Codes -> Key \cup {NoKey}]
    /\ \A c \in Codes : c \notin Keys => translated[c] = NoKey
    /\ keyEvents \in Seq(KeyEvent)
    /\ seen \in [Codes -> Key \cup {NoKey}]
    /\ torn \in BOOLEAN

\* The inductive invariant.
HidInv ==
    /\ HidTypes
    /\ StreamOK(unread, inFrame, translated, down, ~torn, EndsReleased(keyEvents, released))
    /\ QueueShown(keyEvents, seen, missed)
    /\ TranslatedShown(keyEvents, seen, missed, translated)

\* The invariant holds after the creation of the input device.
LEMMA HidStarts == HidInit => HidInv
<1> SUFFICES ASSUME HidInit PROVE HidInv OBVIOUS
<1>1. /\ down = {} /\ unread = <<>> /\ inFrame = 0 /\ shift = FALSE /\ caps = FALSE
      /\ translated = [c \in Codes |-> NoKey] /\ keyEvents = <<>> /\ released = TRUE
      /\ seen = [c \in Codes |-> NoKey] /\ missed = {} /\ torn = FALSE
  BY DEF HidInit
<1>2. HidTypes
  <2>1. <<>> \in Seq(Event) /\ <<>> \in Seq(KeyEvent) /\ Len(<<>>) = 0 OBVIOUS
  <2>2. translated \in [Codes -> Key \cup {NoKey}] /\ seen \in [Codes -> Key \cup {NoKey}]
    BY <1>1
  <2>3. \A c \in Codes : c \notin Keys => translated[c] = NoKey BY <1>1
  <2>4. 0 \in Nat /\ 0 <= 0 OBVIOUS
  <2> QED BY <1>1, <2>1, <2>2, <2>3, <2>4 DEF HidTypes
<1>3. Len(unread) = 0 /\ Len(keyEvents) = 0 /\ 1..0 = {} BY <1>1
<1>4. StreamOK(unread, inFrame, translated, down, ~torn, EndsReleased(keyEvents, released))
  <2>1. EndsReleased(keyEvents, released) BY <1>1 DEF EndsReleased
  <2>2. LastIsUp(unread, inFrame, down) BY <1>3 DEF LastIsUp
  <2>3. AllUp(unread, down, EndsReleased(keyEvents, released)) BY <1>3, <2>1 DEF AllUp
  <2>4. FirstRelease(unread, translated) /\ Alternate(unread)
    BY <1>3 DEF FirstRelease, Alternate
  <2>5. HeldOnce(unread, translated, down) /\ HeldAgain(unread, down)
    BY <1>1 DEF HeldOnce, HeldAgain
  <2> QED BY <2>2, <2>3, <2>4, <2>5 DEF StreamOK
<1>5. QueueShown(keyEvents, seen, missed) BY <1>3 DEF QueueShown
<1>6. TranslatedShown(keyEvents, seen, missed, translated)
  <2>1. \A c \in Keys : translated[c] = NoKey BY <1>1 DEF Codes
  <2> QED BY <2>1 DEF TranslatedShown
<1> QED BY <1>2, <1>4, <1>5, <1>6 DEF HidInv

\* The keyboard sends.
LEMMA EmitKeeps == ASSUME HidInv, NEW e \in Event, Emit(e) PROVE HidInv'
<1>1. /\ Sendable(e) /\ unread' = Append(unread, e)
      /\ down' = IF e.value = "released" THEN down \ {e.code} ELSE down \cup {e.code}
      /\ UNCHANGED <<inFrame, shift, caps, translated, keyEvents, released, seen, missed, torn>>
  BY DEF Emit, modifiers, told
<1>2. HidTypes BY DEF HidInv
<1>3. unread \in Seq(Event) /\ inFrame \in Nat BY <1>2 DEF HidTypes
<1>4. unread' \in Seq(Event) /\ inFrame <= Len(unread')
  <2>1. Len(unread) \in Nat /\ Len(unread') = Len(unread) + 1 /\ unread' \in Seq(Event)
    BY <1>1, <1>3, Appending
  <2> QED BY <1>2, <1>3, <2>1 DEF HidTypes
<1>5. down' \subseteq Codes BY <1>1, <1>2 DEF HidTypes, Event
<1>6. HidTypes' BY <1>1, <1>2, <1>4, <1>5 DEF HidTypes
<1>7. e.value # "pressed" => e.code \in down
  BY <1>1 DEF Sendable
<1>8. StreamOK(unread, inFrame, translated, down, ~torn, EndsReleased(keyEvents, released))
  BY DEF HidInv
<1>9. PICK ends : ends = EndsReleased(keyEvents, released) OBVIOUS
<1>10. /\ e.value = "released" => down' = down \ {e.code}
       /\ e.value # "released" => down' = down \cup {e.code}
  BY <1>1
<1>11. StreamOK(unread, inFrame, translated, down, ~torn, ends) BY <1>8, <1>9
<1>12. StreamOK(unread', inFrame, translated, down', ~torn, ends)
  <2>1. unread' = Append(unread, e) BY <1>1
  <2>2. unread \in Seq(Event) BY <1>3
  <2> QED BY <1>7, <1>10, <1>11, <2>1, <2>2, EmitStream, Zenon
<1>13. StreamOK(unread, inFrame, translated, down, ~torn, EndsReleased(keyEvents, released))'
  BY <1>1, <1>9, <1>12
<1> QED BY <1>1, <1>6, <1>13 DEF HidInv

\* What was not read is gone with the keyboard, in the middle of anything.
LEMMA CutStream ==
    ASSUME NEW u \in Seq(Event), NEW f \in Nat, f <= Len(u), NEW v, v = SubSeq(u, 1, f),
           NEW t, NEW d, NEW ends, NEW clean, StreamOK(u, f, t, d, clean, ends),
           NEW after, after => clean /\ d \cap Keys = {} /\ ~(Len(u) > f)
    PROVE  StreamOK(v, f, t, {}, after, ends)
<1>1. /\ Len(u) \in Nat /\ Len(v) = f /\ \A i \in 1..f : v[i] = u[i] /\ i \in 1..Len(u)
  OBVIOUS
<1>2. LastIsUp(v, f, {})
  <2>1. \A i \in 1..Len(v) : ~(i > f) BY <1>1
  <2> QED BY <2>1 DEF LastIsUp
<1>3. ASSUME after PROVE AllUp(v, {}, ends)
  <2>1. Len(u) = f BY <1>1, <1>3
  <2>2. AllUp(u, d, ends) BY <1>3 DEF StreamOK
  <2> QED BY <1>1, <1>3, <2>1, <2>2 DEF AllUp
<1>4. FirstRelease(v, t)
  <2> SUFFICES ASSUME NEW i \in 1..Len(v), Typed(v[i]), Up(v[i]), t[v[i].code] = NoKey
               PROVE  \E j \in 1..Len(v) : j < i /\ v[j].code = v[i].code /\ ~Up(v[j])
    BY DEF FirstRelease
  <2>1. PICK j \in 1..Len(u) : j < i /\ u[j].code = u[i].code /\ ~Up(u[j])
    BY <1>1 DEF StreamOK, FirstRelease
  <2>2. j \in 1..f BY <1>1, <2>1
  <2> QED BY <1>1, <2>1, <2>2
<1>5. Alternate(v)
  <2> SUFFICES ASSUME NEW i \in 1..Len(v), NEW k \in 1..Len(v), i < k,
                      Typed(v[i]), Up(v[i]), Up(v[k]), v[k].code = v[i].code
               PROVE  \E j \in 1..Len(v) : i < j /\ j < k /\ v[j].code = v[i].code /\ ~Up(v[j])
    BY DEF Alternate
  <2>1. PICK j \in 1..Len(u) : i < j /\ j < k /\ u[j].code = u[i].code /\ ~Up(u[j])
    BY <1>1 DEF StreamOK, Alternate
  <2>2. j \in 1..f BY <1>1, <2>1
  <2> QED BY <1>1, <2>1, <2>2
<1>6. HeldOnce(v, t, {}) /\ HeldAgain(v, {}) BY DEF HeldOnce, HeldAgain
<1> QED BY <1>2, <1>3, <1>4, <1>5, <1>6 DEF StreamOK

\* The keyboard goes.
LEMMA ReplaceKeeps == ASSUME HidInv, Replace PROVE HidInv'
<1>1. /\ torn' = (torn \/ down \cap Keys # {} \/ Len(unread) > inFrame)
      /\ down' = {} /\ unread' = SubSeq(unread, 1, inFrame)
      /\ UNCHANGED <<inFrame, shift, caps, translated, keyEvents, released, seen, missed>>
  BY DEF Replace, modifiers, told
<1>2. HidTypes BY DEF HidInv
<1>3. unread \in Seq(Event) /\ inFrame \in Nat /\ inFrame <= Len(unread) BY <1>2 DEF HidTypes
<1>4. unread' \in Seq(Event) /\ Len(unread') = inFrame BY <1>1, <1>3
<1>5. torn' \in BOOLEAN /\ torn \in BOOLEAN BY <1>1, <1>2 DEF HidTypes
<1>6. inFrame <= inFrame BY <1>3
<1>7. HidTypes' BY <1>1, <1>2, <1>4, <1>5, <1>6 DEF HidTypes
<1>8. PICK ends : ends = EndsReleased(keyEvents, released) OBVIOUS
<1>9. PICK clean \in BOOLEAN : clean = ~torn OBVIOUS
<1>10. StreamOK(unread, inFrame, translated, down, clean, ends) BY <1>8, <1>9 DEF HidInv
<1>11. PICK after \in BOOLEAN : after = (clean /\ down \cap Keys = {} /\ ~(Len(unread) > inFrame))
  OBVIOUS
<1>12. StreamOK(unread', inFrame, translated, {}, after, ends)
  BY <1>1, <1>3, <1>10, <1>11, CutStream
<1>13. after = ~torn' BY <1>1, <1>5, <1>9, <1>11
<1>14. StreamOK(unread, inFrame, translated, down, ~torn, EndsReleased(keyEvents, released))'
  BY <1>1, <1>8, <1>12, <1>13
<1> QED BY <1>1, <1>7, <1>14 DEF HidInv

\* A frame is read.  If something was typed in it, the new keyboard speaks.
LEMMA FrameKeeps == ASSUME HidInv, NEW n \in 1..MaxFrameEvents, CollectFrame(n) PROVE HidInv'
<1>1. /\ inFrame = 0 /\ n <= Len(unread) /\ inFrame' = n
      /\ torn' = (torn /\ \A i \in 1..n : unread[i].code \notin Keys)
      /\ UNCHANGED <<down, unread, shift, caps, translated, keyEvents, released, seen, missed>>
  BY DEF CollectFrame, modifiers, told
<1>2. HidTypes BY DEF HidInv
<1>3. n \in Nat /\ n > 0 /\ Len(unread) \in Nat BY <1>2 DEF HidTypes
<1>4. HidTypes'
  <2>1. torn' \in BOOLEAN BY <1>1
  <2> QED BY <1>1, <1>2, <1>3, <2>1 DEF HidTypes
<1>5. PICK ends : ends = EndsReleased(keyEvents, released) OBVIOUS
<1>6. StreamOK(unread, inFrame, translated, down, ~torn, ends) BY <1>5 DEF HidInv
<1>7. LastIsUp(unread, n, down)
  <2>1. \A i \in 1..Len(unread) : i > 0 OBVIOUS
  <2> QED BY <1>1, <1>6, <2>1 DEF StreamOK, LastIsUp
<1>8. ASSUME ~torn' PROVE AllUp(unread, down, ends)
  <2>1. CASE ~torn BY <1>6, <2>1 DEF StreamOK
  <2>2. CASE torn
    <3>1. PICK i \in 1..n : unread[i].code \in Keys BY <1>1, <1>8, <2>2
    <3>2. i \in 1..Len(unread) /\ Typed(unread[i]) BY <1>1, <1>3, <3>1 DEF Typed
    <3>3. \A k \in 1..Len(unread) : k > 0 OBVIOUS
    <3> QED BY <1>1, <1>6, <3>2, <3>3 DEF StreamOK, LastIsUp, AllUp
  <2> QED BY <1>2, <2>1, <2>2 DEF HidTypes
<1>9. StreamOK(unread, inFrame, translated, down, ~torn, EndsReleased(keyEvents, released))'
  BY <1>1, <1>5, <1>6, <1>7, <1>8 DEF StreamOK
<1> QED BY <1>1, <1>4, <1>9 DEF HidInv

\* Shift and caps lock: LVGL is not told, and what is pressed stays as it is.
LEMMA ModifierKeeps == ASSUME HidInv, CollectShift \/ CollectCaps PROVE HidInv'
<1>1. /\ inFrame > 0 /\ inFrame' = inFrame - 1 /\ unread' = Tail(unread)
      /\ Head(unread).code \notin Keys
      /\ UNCHANGED <<down, translated, keyEvents, released, seen, missed, torn>>
  BY KeypadAssumption
     DEF KeypadAssumption, CollectShift, CollectCaps, IsCapsPress, NextEvent, told
<1>2. shift' \in BOOLEAN /\ caps' \in BOOLEAN
  BY DEF HidInv, HidTypes, CollectShift, CollectCaps
<1>3. HidTypes BY DEF HidInv
<1>4. unread \in Seq(Event) /\ inFrame \in Nat /\ inFrame <= Len(unread) BY <1>3 DEF HidTypes
<1>5. unread # <<>> BY <1>1, <1>4
<1>6. /\ unread' \in Seq(Event) /\ Head(unread) = unread[1] /\ Len(unread) \in Nat
      /\ Len(unread') = Len(unread) - 1
  BY <1>1, <1>4, <1>5, Dropping
<1>7. HidTypes'
  <2>1. inFrame' \in Nat /\ inFrame' <= Len(unread') BY <1>1, <1>4, <1>6
  <2> QED BY <1>1, <1>2, <1>3, <1>6, <2>1 DEF HidTypes
<1>8. PICK ends : ends = EndsReleased(keyEvents, released) OBVIOUS
<1>9. StreamOK(unread, inFrame, translated, down, ~torn, ends) BY <1>8 DEF HidInv
<1>10. ~Typed(unread[1]) BY <1>1, <1>6 DEF Typed
<1>11. StreamOK(unread', inFrame - 1, translated, down, ~torn, ends)
  <2>1. Takes(unread[1], translated, translated, ends, ends) BY <1>10 DEF Takes
  <2> QED BY <1>1, <1>4, <1>5, <1>9, <2>1, TakeStream
<1>12. StreamOK(unread, inFrame, translated, down, ~torn, EndsReleased(keyEvents, released))'
  BY <1>1, <1>8, <1>11
<1> QED BY <1>1, <1>7, <1>12 DEF HidInv

\* The key of an event: none for other codes, the one in translated_keys for a release.
LEMMA KeyOfCode ==
    ASSUME HidInv, NEW e \in Event
    PROVE  /\ ~Typed(e) => KeyOf(e) = NoKey
           /\ Typed(e) => KeyOf(e) \in Key
           /\ Typed(e) /\ Up(e) /\ translated[e.code] # NoKey => KeyOf(e) = translated[e.code]
<1>1. /\ e.code \in Codes /\ translated \in [Codes -> Key \cup {NoKey}]
      /\ \A c \in Codes : c \notin Keys => translated[c] = NoKey
      /\ shift \in BOOLEAN
  BY DEF HidInv, HidTypes, Event
<1>2. PICK x \in BOOLEAN : x = (shift # caps) OBVIOUS
<1>3. CASE ~Typed(e)
  <2>1. e.code \notin Specials /\ e.code \notin Letters BY <1>3 DEF Typed, Keys
  <2>2. translated[e.code] = NoKey BY <1>1, <1>3 DEF Typed
  <2> QED BY <1>3, <2>1, <2>2 DEF KeyOf, Translate
<1>4. CASE Typed(e)
  <2>1. Translate(e.code) \in Key
    <3>1. Letters \cap Specials = {} BY KeypadAssumption DEF KeypadAssumption
    <3>2. CASE e.code \in Specials
      <4>1. Translate(e.code) = <<e.code, shift>> BY <3>1, <3>2 DEF Translate
      <4> QED BY <1>1, <3>2, <4>1 DEF Key, Keys
    <3>3. CASE e.code \in Letters
      <4>1. Translate(e.code) = <<e.code, x>> BY <1>2, <3>1, <3>3 DEF Translate
      <4> QED BY <3>3, <4>1 DEF Key, Keys
    <3> QED BY <1>4, <3>2, <3>3 DEF Typed, Keys
  <2>2. KeyOf(e) \in Key BY <1>1, <2>1 DEF KeyOf
  <2>3. Up(e) /\ translated[e.code] # NoKey => KeyOf(e) = translated[e.code] BY DEF KeyOf, Up
  <2> QED BY <1>4, <2>2, <2>3
<1> QED BY <1>3, <1>4

\* A key: translated_keys and the queue change together, and a full queue loses the
\* event at its head.
LEMMA CollectKeyKeeps == ASSUME HidInv, CollectKey PROVE HidInv'
<1> DEFINE e == Head(unread)
           new == [key |-> KeyOf(e), code |-> e.code, released |-> e.value = "released"]
<1>1. /\ inFrame > 0 /\ inFrame' = inFrame - 1 /\ unread' = Tail(unread)
      /\ translated' = [translated EXCEPT ![e.code] = IF Up(e) THEN NoKey ELSE KeyOf(e)]
      /\ KeyOf(e) = NoKey => UNCHANGED <<keyEvents, missed>>
      /\ KeyOf(e) # NoKey => /\ keyEvents' = Enqueue(keyEvents, new)
                             /\ missed' = missed \cup Dropped(keyEvents)
      /\ UNCHANGED <<down, shift, caps, released, seen, torn>>
  BY DEF CollectKey, NextEvent, modifiers, told, Up
<1>2. HidTypes BY DEF HidInv
<1>3. unread \in Seq(Event) /\ inFrame \in Nat /\ inFrame <= Len(unread) BY <1>2 DEF HidTypes
<1>4. unread # <<>> BY <1>1, <1>3
<1>5. /\ unread' \in Seq(Event) /\ e = unread[1] /\ e \in Event /\ Len(unread) \in Nat
      /\ Len(unread') = Len(unread) - 1 /\ 1 \in 1..Len(unread)
  BY <1>1, <1>3, <1>4, Dropping
<1>6. inFrame' \in Nat /\ inFrame' <= Len(unread') BY <1>1, <1>3, <1>5
<1>7. PICK ends : ends = EndsReleased(keyEvents, released) OBVIOUS
<1>8. StreamOK(unread, inFrame, translated, down, ~torn, ends) BY <1>7 DEF HidInv
<1> HIDE DEF e
<1>9. /\ ~Typed(e) => KeyOf(e) = NoKey
      /\ Typed(e) => KeyOf(e) \in Key
      /\ Typed(e) /\ Up(e) /\ translated[e.code] # NoKey => KeyOf(e) = translated[e.code]
  BY <1>5, KeyOfCode
<1>10. NoKey \notin Key BY KeypadAssumption DEF KeypadAssumption, Key
<1>11. /\ translated \in [Codes -> Key \cup {NoKey}] /\ e.code \in Codes
       /\ \A c \in Codes : c \notin Keys => translated[c] = NoKey
  BY <1>2, <1>5 DEF HidTypes, Event
<1>12. /\ translated' \in [Codes -> Key \cup {NoKey}]
       /\ translated'[e.code] = (IF Up(e) THEN NoKey ELSE KeyOf(e))
       /\ \A c \in Codes : c # e.code => translated'[c] = translated[c]
  <2>1. KeyOf(e) \in Key \cup {NoKey} BY <1>9
  <2> QED BY <1>1, <1>11, <2>1
<1>13. \A c \in Codes : c \notin Keys => translated'[c] = NoKey
  BY <1>9, <1>11, <1>12 DEF Typed
<1>14. \A c \in Keys : c # unread[1].code => translated'[c] = translated[c]
  BY <1>5, <1>12 DEF Codes
<1>15. Typed(unread[1]) => (translated'[unread[1].code] = NoKey <=> Up(unread[1]))
  BY <1>5, <1>9, <1>10, <1>12
<1>16. QueueShown(keyEvents, seen, missed) /\ TranslatedShown(keyEvents, seen, missed, translated)
  BY DEF HidInv
<1>17. CASE ~Typed(e)
  <2>1. KeyOf(e) = NoKey /\ UNCHANGED <<keyEvents, missed>> BY <1>1, <1>9, <1>17
  <2>2. HidTypes' BY <1>1, <1>2, <1>5, <1>6, <1>12, <1>13, <2>1 DEF HidTypes
  <2>3. ~Typed(unread[1]) BY <1>5, <1>17
  <2>4. StreamOK(unread', inFrame - 1, translated', down, ~torn, ends)
    <3>1. unread \in Seq(Event) /\ unread' = Tail(unread) /\ inFrame \in Nat /\ inFrame > 0
      BY <1>1, <1>3
    <3>2. Takes(unread[1], translated, translated', ends, ends) BY <1>14, <2>3 DEF Takes
    <3> QED BY <1>4, <1>8, <3>1, <3>2, TakeStream
  <2>5. StreamOK(unread, inFrame, translated, down, ~torn, EndsReleased(keyEvents, released))'
    BY <1>1, <1>7, <2>1, <2>4
  <2>6. TranslatedShown(keyEvents, seen, missed, translated')
    <3>1. \A c \in Keys : translated'[c] = translated[c] BY <1>5, <1>14, <1>17 DEF Typed
    <3> QED BY <1>16, <3>1 DEF TranslatedShown
  <2> QED BY <1>1, <1>16, <2>1, <2>2, <2>5, <2>6 DEF HidInv
<1>18. CASE Typed(e)
  <2>1. PICK k : k = new OBVIOUS
  <2>2. /\ KeyOf(e) \in Key /\ KeyOf(e) # NoKey /\ keyEvents' = Enqueue(keyEvents, k)
        /\ missed' = missed \cup Dropped(keyEvents)
    BY <1>1, <1>9, <1>10, <1>18, <2>1
  <2>3. /\ k \in KeyEvent /\ k.code = e.code /\ k.key = KeyOf(e)
        /\ (k.released <=> Up(e)) /\ k.released \in BOOLEAN
    BY <1>18, <2>1, <2>2 DEF KeyEvent, Typed, Up
  <2>4. Up(e) => translated[e.code] = KeyOf(e)
    <3>1. ASSUME Up(e) PROVE translated[e.code] # NoKey
      <4>1. FirstRelease(unread, translated) BY <1>8 DEF StreamOK
      <4>2. \A j \in 1..Len(unread) : ~(j < 1) OBVIOUS
      <4> QED BY <1>5, <1>18, <3>1, <4>1, <4>2 DEF FirstRelease
    <3> QED BY <1>9, <1>18, <3>1
  <2>5. keyEvents \in Seq(KeyEvent) BY <1>2 DEF HidTypes
  <2>6. PICK q : /\ q \in Seq(KeyEvent) /\ keyEvents' = Append(q, k)
                 /\ QueueShown(q, seen, missed') /\ TranslatedShown(q, seen, missed', translated)
    <3>1. CASE Len(keyEvents) < KeyQueueSize
      <4>1. missed' = missed BY <2>2, <3>1 DEF Dropped
      <4>2. keyEvents' = Append(keyEvents, k) BY <2>2, <3>1 DEF Enqueue
      <4> QED BY <1>16, <2>5, <4>1, <4>2
    <3>2. CASE ~(Len(keyEvents) < KeyQueueSize)
      <4>1. keyEvents # <<>>
        <5>1. KeyQueueSize \in Nat \ {0} BY KeypadAssumption DEF KeypadAssumption
        <5>2. Len(<<>>) = 0 OBVIOUS
        <5>3. 0 < KeyQueueSize BY <5>1
        <5> QED BY <3>2, <5>2, <5>3
      <4>2. keyEvents' = Append(Tail(keyEvents), k) BY <2>2, <3>2 DEF Enqueue
      <4>3. Tail(keyEvents) \in Seq(KeyEvent) /\ Head(keyEvents) = keyEvents[1]
        BY <2>5, <4>1, Dropping
      <4>4. missed \subseteq missed' BY <2>2
      <4>5. ~keyEvents[1].released => keyEvents[1].code \in missed'
        BY <2>2, <3>2, <4>3 DEF Dropped
      <4>6. \A c \in Keys : c # keyEvents[1].code =>
                seen[c] = seen[c] /\ (c \in missed => c \in missed')
        BY <4>4
      <4>7. /\ QueueShown(Tail(keyEvents), seen, missed')
            /\ TranslatedShown(Tail(keyEvents), seen, missed', translated)
        BY <1>16, <2>5, <4>1, <4>5, <4>6, TailKeeps
      <4> QED BY <4>2, <4>3, <4>7
    <3> QED BY <3>1, <3>2
  <2>7. /\ keyEvents' \in Seq(KeyEvent) /\ keyEvents' # <<>> /\ Len(q) \in Nat
        /\ Len(keyEvents') = Len(q) + 1 /\ keyEvents'[Len(q) + 1] = k
    BY <2>3, <2>6, Appending
  <2>8. HidTypes' BY <1>1, <1>2, <1>5, <1>6, <1>12, <1>13, <2>7 DEF HidTypes
  <2>9. /\ QueueShown(keyEvents', seen, missed')
        /\ TranslatedShown(keyEvents', seen, missed', translated')
    <3>1. \A c \in Keys : c # k.code => translated'[c] = translated[c] BY <1>5, <1>14, <2>3
    <3>2. /\ k.released => translated'[k.code] = NoKey /\ translated[k.code] = k.key
          /\ ~k.released => translated'[k.code] = k.key
      BY <1>12, <2>3, <2>4
    <3>3. k \in KeyEvent BY <2>3
    <3>4. Translates(k, translated, translated') BY <3>1, <3>2 DEF Translates
    <3> QED BY <1>10, <2>6, <3>3, <3>4, AppendKeeps
  <2>10. EndsReleased(keyEvents', released) = k.released BY <2>7 DEF EndsReleased
  <2>11. StreamOK(unread', inFrame - 1, translated', down, ~torn, k.released)
    <3>1. Typed(unread[1]) /\ Up(unread[1]) => k.released BY <1>5, <2>3
    <3>2. ~Typed(unread[1]) => (k.released <=> ends) BY <1>5, <1>18
    <3>3. unread \in Seq(Event) /\ unread' = Tail(unread) /\ inFrame \in Nat /\ inFrame > 0
      BY <1>1, <1>3
    <3>4. Takes(unread[1], translated, translated', ends, k.released)
      BY <1>14, <1>15, <3>1, <3>2 DEF Takes
    <3> QED BY <1>4, <1>8, <3>3, <3>4, TakeStream
  <2>12. StreamOK(unread, inFrame, translated, down, ~torn, EndsReleased(keyEvents, released))'
    BY <1>1, <2>10, <2>11
  <2> QED BY <1>1, <2>8, <2>9, <2>12 DEF HidInv
<1> QED BY <1>17, <1>18

\* LVGL is told of the event at the head of the queue.
LEMMA ReadReturnsKeeps == ASSUME HidInv, ReadReturns PROVE HidInv'
<1>1. Delivered /\ UNCHANGED <<down, unread, inFrame, shift, caps, translated, torn>>
  BY DEF ReadReturns, modifiers
<1>2. HidTypes BY DEF HidInv
<1>3. StreamOK(unread, inFrame, translated, down, ~torn, EndsReleased(keyEvents, released))
  BY DEF HidInv
<1>4. QueueShown(keyEvents, seen, missed) /\ TranslatedShown(keyEvents, seen, missed, translated)
  BY DEF HidInv
<1>5. CASE keyEvents = <<>>
  <2>1. UNCHANGED <<keyEvents, released, seen, missed>> BY <1>1, <1>5 DEF Delivered, told
  <2> QED BY <1>1, <1>2, <1>3, <1>4, <2>1 DEF HidInv, HidTypes
<1>6. CASE keyEvents # <<>>
  <2>1. keyEvents \in Seq(KeyEvent) /\ seen \in [Codes -> Key \cup {NoKey}] BY <1>2 DEF HidTypes
  <2>2. PICK k : k = Head(keyEvents) OBVIOUS
  <2>3. /\ released' = k.released /\ keyEvents' = Tail(keyEvents)
        /\ seen' = [seen EXCEPT ![k.code] = IF k.released THEN NoKey ELSE k.key]
        /\ missed' = missed \ {k.code}
    BY <1>1, <1>6, <2>2 DEF Delivered
  <2>4. /\ keyEvents' \in Seq(KeyEvent) /\ k = keyEvents[1] /\ k \in KeyEvent
        /\ Len(keyEvents) \in Nat /\ Len(keyEvents) > 0 /\ Len(keyEvents') = Len(keyEvents) - 1
        /\ \A i \in 1..Len(keyEvents') : keyEvents'[i] = keyEvents[i + 1]
    BY <1>6, <2>1, <2>2, <2>3, Dropping
  <2>5. k.code \in Codes /\ k.key \in Key BY <2>4 DEF KeyEvent, Codes
  <2>6. /\ seen' \in [Codes -> Key \cup {NoKey}]
        /\ seen'[k.code] = (IF k.released THEN NoKey ELSE k.key)
        /\ \A c \in Codes : c # k.code => seen'[c] = seen[c]
    BY <2>1, <2>3, <2>5
  <2>7. HidTypes' BY <1>1, <1>2, <2>4, <2>6 DEF HidTypes
  <2>8. EndsReleased(keyEvents', released') = EndsReleased(keyEvents, released)
    <3>1. CASE Len(keyEvents) = 1
      <4>1. keyEvents' = <<>> BY <2>4, <3>1
      <4> QED BY <1>6, <2>3, <2>4, <3>1, <4>1 DEF EndsReleased
    <3>2. CASE Len(keyEvents) # 1
      <4>1. /\ Len(keyEvents) - 1 \in 1..Len(keyEvents') /\ keyEvents' # <<>>
            /\ (Len(keyEvents) - 1) + 1 = Len(keyEvents)
        BY <2>4, <3>2
      <4>2. keyEvents'[Len(keyEvents')] = keyEvents[Len(keyEvents)] BY <2>4, <4>1
      <4> QED BY <1>6, <4>1, <4>2 DEF EndsReleased
    <3> QED BY <3>1, <3>2
  <2>9. StreamOK(unread, inFrame, translated, down, ~torn, EndsReleased(keyEvents, released))'
    BY <1>1, <1>3, <2>8
  <2>10. /\ QueueShown(keyEvents', seen', missed')
        /\ TranslatedShown(keyEvents', seen', missed', translated)
    <3>1. \A c \in Keys : c # keyEvents[1].code =>
              seen'[c] = seen[c] /\ (c \in missed => c \in missed')
      BY <2>3, <2>4, <2>6 DEF Codes
    <3>2. ~keyEvents[1].released =>
              keyEvents[1].code \in missed' \/ seen'[keyEvents[1].code] = keyEvents[1].key
      BY <2>4, <2>6
    <3>3. keyEvents' = Tail(keyEvents) /\ keyEvents \in Seq(KeyEvent) BY <2>1, <2>3
    <3> QED BY <1>4, <1>6, <3>1, <3>2, <3>3, TailKeeps, Zenon
  <2> QED BY <1>1, <2>7, <2>9, <2>10 DEF HidInv
<1> QED BY <1>5, <1>6

\* Every step keeps the invariant.
LEMMA HidStep == HidInv /\ [HidNext]_hidVars => HidInv'
<1> SUFFICES ASSUME HidInv, [HidNext]_hidVars PROVE HidInv' OBVIOUS
<1>1. CASE \E e \in Event : Emit(e) BY <1>1, EmitKeeps
<1>2. CASE Replace BY <1>2, ReplaceKeeps
<1>3. CASE \E n \in 1..MaxFrameEvents : CollectFrame(n) BY <1>3, FrameKeeps
<1>4. CASE CollectShift \/ CollectCaps BY <1>4, ModifierKeeps
<1>5. CASE CollectKey BY <1>5, CollectKeyKeeps
<1>6. CASE ReadBegins \/ UNCHANGED hidVars
  <2>1. UNCHANGED <<down, unread, inFrame, shift, caps, translated, keyEvents, released,
                    seen, missed, torn>>
    BY <1>6 DEF ReadBegins, modifiers, told, hidVars
  <2> QED BY <2>1 DEF HidInv, HidTypes
<1>7. CASE ReadReturns BY <1>7, ReadReturnsKeeps
<1> QED BY <1>1, <1>2, <1>3, <1>4, <1>5, <1>6, <1>7 DEF HidNext, Event

\* The invariant holds throughout.
LEMMA HidAlways == HidSpec => []HidInv
BY HidStarts, HidStep, PTL DEF HidSpec

\* Once every key is up and all is read and handed on, LVGL sees no pressed key: for any
\* keys, any sizes of queue, batch and frame, however the events fall into frames, and
\* also when the queue ran over.  Excepted is a keyboard that went, until the next one
\* is typed on.
THEOREM QuietKeys == HidSpec => []QuietIsReleased
<1>1. HidInv => QuietIsReleased
  <2> SUFFICES ASSUME HidInv, down \cap Keys = {}, unread = <<>>, keyEvents = <<>>, ~torn
               PROVE  released
    BY DEF QuietIsReleased
  <2>1. AllUp(unread, down, EndsReleased(keyEvents, released)) BY DEF HidInv, StreamOK
  <2>2. 1..Len(unread) = {} OBVIOUS
  <2>3. EndsReleased(keyEvents, released) BY <2>1, <2>2 DEF AllUp
  <2> QED BY <2>3 DEF EndsReleased
<1> QED BY <1>1, HidAlways, PTL

\* A release is told to LVGL as the key it saw pressed, whatever shift and caps lock did
\* in between and whatever keyboards came and went, unless the press fell out of the
\* queue: for any keys and any sizes.
THEOREM ReleasesMatch == HidSpec => []ReleasedAsPressed
<1>1. HidInv => ReleasedAsPressed
  <2> SUFFICES ASSUME HidInv, keyEvents # <<>>, Head(keyEvents).released,
                      Head(keyEvents).code \notin missed
               PROVE  Head(keyEvents).key = seen[Head(keyEvents).code]
    BY DEF ReleasedAsPressed
  <2>1. keyEvents \in Seq(KeyEvent) BY DEF HidInv, HidTypes
  <2>2. Head(keyEvents) = keyEvents[1] /\ 1 \in 1..Len(keyEvents) BY <2>1, Dropping
  <2>3. ShownAs(keyEvents, seen, missed, keyEvents[1].code, 1 - 1, keyEvents[1].key)
    BY <2>2 DEF HidInv, QueueShown
  <2>4. 1..(1 - 1) = {} OBVIOUS
  <2> QED BY <2>2, <2>3, <2>4 DEF ShownAs
<1> QED BY <1>1, HidAlways, PTL
=============================================================================
