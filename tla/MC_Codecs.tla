------------------------------ MODULE MC_Codecs -----------------------------
(***************************************************************************)
(* The conversions of WlanChannel, WlanMessages, SbusFrame and HidKeypad   *)
(* for TLC, one at a time: a behaviour takes a channel or a message on its *)
(* way, sets SBUS channels and sends them, or types, while the others      *)
(* rest.                                                                   *)
(***************************************************************************)
EXTENDS WlanChannel, WlanMessages, SbusFrame, HidKeypad

\* Frequencies at every distance the code lists, next to those, and beyond the
\* edge of a 320 MHz channel.
MCFreqs == {0} \cup {5975 + 10 * i : i \in {-16, -3, -1, 0, 1, 3, 4, 5, 6, 7, 9, 13, 15, 16, 17}}

\* Every limit, its neighbours, and the same behind the range of the count
\* fields.
MCLengths ==
    {0, 1} \cup UNION {{n, n + 1} : n \in {4, 16, 32, 64, 1024, 1600, 2304}}
           \cup {2^8, 2^8 + 4, 2^16 + 1}

NoChannel == [band |-> 0, width |-> 0, primary |-> 0, freq |-> 0, center1 |-> 0, center2 |-> 0]

\* The values of a channel: one bit at either end, all eleven, too many.
MCSbusValues == {{0}, {10}, 0..10, {10, 12}}

NoChannelYet ==
    origin = "application" /\ allow = FALSE /\ stage = "refused"
      /\ given = NoChannel /\ item = given
NoMessageYet ==
    progress = "refused" /\ what = "disconnect" /\ counts = NoParts
      /\ wire = counts /\ sound = FALSE /\ excess = 0

CodecInit ==
    /\ SbusInit /\ HidInit
    /\ \/ Init /\ NoMessageYet
       \/ MsgInit /\ NoChannelYet
       \/ NoMessageYet /\ NoChannelYet

\* The parts that may go on from where nothing has happened.
Untouched == NoMessageYet /\ NoChannelYet

CodecNext ==
    \/ Next /\ UNCHANGED <<msgVars, sbusVars, hidVars>>
    \/ MsgNext /\ UNCHANGED <<vars, sbusVars, hidVars>>
    \/ Untouched /\ HidInit /\ SbusNext /\ UNCHANGED <<vars, msgVars, hidVars>>
    \/ Untouched /\ SbusInit /\ HidNext /\ UNCHANGED <<vars, msgVars, sbusVars>>

\* A behaviour ends where a press is lost while shift or caps lock is on.
PlainOverrun == missed # {} => ~shift /\ ~caps

CodecSpec == CodecInit /\ [][CodecNext]_<<vars, msgVars, sbusVars, hidVars>>
=============================================================================
