----------------------------- MODULE WlanChannel ----------------------------
(***************************************************************************)
(* Channels between the public structure of libwlan_offload and its wire   *)
(* form (wlan_offload/src/wlan_offload_client.c): what is refused on the   *)
(* way out and on the way in.  A behaviour takes a channel of an           *)
(* application out to the wire and back, or one from the kernel in and out *)
(* again.                                                                  *)
(***************************************************************************)
EXTENDS Integers

CONSTANTS
    Freqs,      \* the frequencies tried, in MHz: uint16_t
    Bands,      \* the values tried for the band
    Widths      \* the values tried for the width

ASSUME FreqsAssumption ==
    Freqs \subseteq Nat /\ Bands \subseteq Nat /\ Widths \subseteq Nat

(* enum wlan_offload_band; the 2.4, 5 and 6 GHz bands are 0, 1 and 2.      *)
Unspecified == 255
Specific == 0..2

(* enum wlan_offload_channel_width.                                        *)
W20NoHT == 0
W20 == 1
W40 == 2
W80 == 3
W80P80 == 4
W160 == 5
W320 == 6

Channels ==
    [band : Bands, width : Widths, primary : {0, 1}, freq : Freqs,
     center1 : Freqs, center2 : Freqs]
Wires ==
    [band : Bands, width : Widths, primary : {0, 1}, freq : Freqs,
     center1 : Freqs, center2 : Freqs, reserved : {0, 1}]

VARIABLES
    origin,     \* "application" or "kernel": where the channel comes from
    allow,      \* the argument allow_unspecified
    stage,      \* "channel" or "wire": the form it has now; "refused"
    given,      \* what it was at first
    item        \* what it is now

vars == <<origin, allow, stage, given, item>>

-----------------------------------------------------------------------------
(* The conversions.                                                        *)

Offset(c) == IF c.center1 > c.freq THEN c.center1 - c.freq ELSE c.freq - c.center1

\* Fault: the widest channel is tested like the narrower ones, by its edge.
GeometryByEdge(c) ==
    CASE c.width \in {W20NoHT, W20} -> Offset(c) = 0 /\ c.center2 = 0
      [] c.width = W40 -> Offset(c) = 10 /\ c.center2 = 0
      [] c.width = W80 -> Offset(c) \in {10, 30} /\ c.center2 = 0
      [] c.width = W80P80 ->
            Offset(c) \in {10, 30} /\ c.center2 # 0 /\ c.center2 # c.center1
      [] c.width = W160 -> Offset(c) \in {10, 30, 50, 70} /\ c.center2 = 0
      [] c.width = W320 -> Offset(c) \in 10..160 /\ Offset(c) % 10 = 0 /\ c.center2 = 0
      [] OTHER -> FALSE

\* wlan_offload_channel_geometry_valid
GeometryValid(c) ==
    CASE c.width \in {W20NoHT, W20} -> Offset(c) = 0 /\ c.center2 = 0
      [] c.width = W40 -> Offset(c) = 10 /\ c.center2 = 0
      [] c.width = W80 -> Offset(c) \in {10, 30} /\ c.center2 = 0
      [] c.width = W80P80 ->
            Offset(c) \in {10, 30} /\ c.center2 # 0 /\ c.center2 # c.center1
      [] c.width = W160 -> Offset(c) \in {10, 30, 50, 70} /\ c.center2 = 0
      [] c.width = W320 -> Offset(c) \in 10..150 /\ Offset(c) % 20 = 10 /\ c.center2 = 0
      [] OTHER -> FALSE

\* What wlan_offload_channel_to_wire takes.
Encodable(c, a) ==
    /\ c.width \in W20NoHT..W320
    /\ \/ /\ c.band = Unspecified
          /\ a
          /\ c.primary = 0 /\ c.freq = 0 /\ c.center1 = 0 /\ c.center2 = 0
       \/ /\ c.band \in Specific
          /\ c.primary # 0 /\ c.freq # 0 /\ c.center1 # 0
          /\ GeometryValid(c)

\* What it makes of the fields.
ToWire(c) ==
    [band |-> c.band, width |-> c.width, primary |-> c.primary, freq |-> c.freq,
     center1 |-> c.center1, center2 |-> c.center2, reserved |-> 0]

\* What wlan_offload_channel_from_wire makes of the fields.
FromWire(w) ==
    [band |-> w.band, width |-> w.width, primary |-> w.primary, freq |-> w.freq,
     center1 |-> w.center1, center2 |-> w.center2]

\* Fault: the reserved bytes are not looked at.
DecodableLoosely(w, a) == w.width <= W320 /\ Encodable(FromWire(w), a)

\* What it takes: nothing in the reserved bytes, and a channel that could go
\* out again.
Decodable(w, a) ==
    /\ w.reserved = 0
    /\ w.width <= W320
    /\ Encodable(FromWire(w), a)

-----------------------------------------------------------------------------
(* A channel on its way.                                                   *)

Init ==
    /\ \/ origin = "application" /\ stage = "channel" /\ given \in Channels
       \/ origin = "kernel" /\ stage = "wire" /\ given \in Wires
    /\ allow \in BOOLEAN
    /\ item = given

Encode ==
    /\ stage = "channel"
    /\ \/ Encodable(item, allow) /\ stage' = "wire" /\ item' = ToWire(item)
       \/ ~Encodable(item, allow) /\ stage' = "refused" /\ item' = item
    /\ UNCHANGED <<origin, allow, given>>

Decode ==
    /\ stage = "wire"
    /\ \/ Decodable(item, allow) /\ stage' = "channel" /\ item' = FromWire(item)
       \/ ~Decodable(item, allow) /\ stage' = "refused" /\ item' = item
    /\ UNCHANGED <<origin, allow, given>>

Next == Encode \/ Decode

Spec == Init /\ [][Next]_vars

-----------------------------------------------------------------------------
(* Properties.                                                             *)

\* The 20 MHz channels a block of n of them has, by its center.
Block(center, n) == {center - 10 * n + 10 + 20 * i : i \in 0..n-1}

\* The channels the standards know of: the primary one is a 20 MHz channel of
\* its block; a second segment is there exactly when the width has one, and
\* is another one.
Proper(c) ==
    \/ c.width \in {W20NoHT, W20} /\ c.freq \in Block(c.center1, 1) /\ c.center2 = 0
    \/ c.width = W40 /\ c.freq \in Block(c.center1, 2) /\ c.center2 = 0
    \/ c.width = W80 /\ c.freq \in Block(c.center1, 4) /\ c.center2 = 0
    \/ /\ c.width = W80P80 /\ c.freq \in Block(c.center1, 4)
       /\ c.center2 \notin {0, c.center1}
    \/ c.width = W160 /\ c.freq \in Block(c.center1, 8) /\ c.center2 = 0
    \/ c.width = W320 /\ c.freq \in Block(c.center1, 16) /\ c.center2 = 0

\* A channel that passed a conversion is proper, or leaves everything open
\* where that is allowed.
OnlyProperPasses ==
    \/ stage = "refused"
    \/ item = given
    \/ Proper(item)
    \/ allow /\ item.band = Unspecified /\ item.freq = 0

\* A proper channel in a known band, with all its numbers, is never refused,
\* at either end: the offsets the code lists leave none out.
ProperIsAccepted ==
    ~ /\ stage = "refused"
      /\ origin = "application"
      /\ given.band \in Specific /\ given.primary # 0
      /\ given.freq # 0 /\ given.center1 # 0
      /\ Proper(given)

\* The channels that pass are the proper ones, all of them and no other.
ExactlyProperPasses == OnlyProperPasses /\ ProperIsAccepted

\* What goes out comes back the same, and what came in goes out the same: the
\* two conversions are inverse to each other on everything they take, so no
\* message has a meaning that cannot be sent back.
RoundTrip ==
    /\ stage = "channel" /\ origin = "application" => item = given
    /\ stage = "wire" /\ origin = "kernel" => item = given
=============================================================================
