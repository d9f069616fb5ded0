------------------------------ MODULE SbusFrame -----------------------------
(***************************************************************************)
(* The SBUS encoder (rtsmart_hal/drivers/sbus/drv_sbus.c): 16 channels of  *)
(* 11 bits and four flags in a frame of 25 bytes.  A number is the set of  *)
(* its one bits, so that <<, >>, | and & are shifts, union and             *)
(* intersection of sets.  Channel values are uint16_t and are not clamped. *)
(***************************************************************************)
EXTENDS Integers, FiniteSets

CONSTANTS
    SbusValues, \* the channel values that are set
    MaxOps      \* bound: the calls after creation

ASSUME SbusAssumption == SbusValues \subseteq SUBSET (0..15) /\ MaxOps \in Nat

SbusChannels == 0..15           \* SBUS_CHANNEL_NUM
Bytes == 0..24              \* SBUS_FRAME_SIZE
Byte == 0..7                \* the bits of a byte
FlagBits == 0..3            \* ch17, ch18, frame_lost, failsafe

VARIABLES
    channels,   \* dev->channels
    flags,      \* dev->flags
    ops,        \* the number of calls
    sent        \* the last frame written to the UART, byte -> bits, or empty

sbusVars == <<channels, flags, ops, sent>>

\* sbus_create
SbusInit ==
    /\ channels = [i \in SbusChannels |-> {}]
    /\ flags = {}
    /\ ops = 0
    /\ sent = [b \in Bytes |-> {}]

\* sbus_set_channel, alone or in sbus_set_all_channels
SetChannel(i, v) ==
    /\ channels' = [channels EXCEPT ![i] = v]
    /\ UNCHANGED <<flags, sent>>

\* sbus_set_flags
SetFlags(f) ==
    /\ flags' = f
    /\ UNCHANGED <<channels, sent>>

Shift(v, n) == {b + n : b \in v}
BytePos(i) == 1 + (i * 11) \div 8
BitPos(i) == (i * 11) % 8

\* Fault: the third byte is used one channel too late.
OverFarther(i) == BitPos(i) > 6

\* The channel i reaches into a third byte.
Over(i) == BitPos(i) > 5

\* What channel i contributes to the byte b.
ChannelPart(i, b) ==
    LET n == b - BytePos(i)
    IN  IF n \in {0, 1} \/ (n = 2 /\ Over(i))
        THEN Shift(channels[i], BitPos(i) - 8 * n) \cap Byte ELSE {}

\* The frame of sbus_send_frame.
EncodeFrame ==
    [b \in Bytes |-> CASE b = 0 -> {0, 1, 2, 3}
                       [] b = 23 -> flags
                       [] b = 24 -> {}
                       [] OTHER -> UNION {ChannelPart(i, b) : i \in SbusChannels}]

SendFrame ==
    /\ sent' = EncodeFrame
    /\ UNCHANGED <<channels, flags>>

SbusNext ==
    /\ ops < MaxOps
    /\ ops' = ops + 1
    /\ \/ \E i \in SbusChannels, v \in SbusValues : SetChannel(i, v)
       \/ \E f \in SUBSET FlagBits : SetFlags(f)
       \/ SendFrame

SbusSpec == SbusInit /\ [][SbusNext]_sbusVars

\* sbus_decode_frame: channel i of the frame f.
DecodeFrame(f, i) ==
    LET low == Shift(f[BytePos(i)], -BitPos(i)) \cup Shift(f[BytePos(i) + 1], 8 - BitPos(i))
        high == IF Over(i) THEN Shift(f[BytePos(i) + 2], 16 - BitPos(i)) ELSE {}
    IN  (low \cup high) \cap (0..10)

-----------------------------------------------------------------------------
\* The layout of the protocol: after the byte 0x0F, channel after channel,
\* eleven bits each and the lowest first, without a gap across the bytes, then
\* the flags and a zero.
SbusLayout(f) ==
    /\ f[0] = 0..3 /\ f[23] = flags /\ f[24] = {}
    /\ \A i \in SbusChannels, b \in 0..10 :
        b \in channels[i] <=> (11 * i + b) % 8 \in f[1 + (11 * i + b) \div 8]

\* Every frame sbus_send_frame sends has that layout, and the driver's own
\* decoder finds in it the channels that were set.  That is for values of eleven
\* bits: the bits of a larger one fall into the next channel.
FramesAreSbus ==
    [][sent' # sent /\ (\A i \in SbusChannels : channels[i] \subseteq 0..10) =>
        SbusLayout(sent') /\ \A i \in SbusChannels : DecodeFrame(sent', i) = channels[i]]_sbusVars
=============================================================================
