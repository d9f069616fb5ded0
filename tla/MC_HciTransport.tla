--------------------------- MODULE MC_HciTransport --------------------------
(***************************************************************************)
(* HciTransport for TLC: bytes of base 6, an ISO length modulo 12, and     *)
(* packets whose parameters look like packet types.                        *)
(***************************************************************************)
EXTENDS HciTransport

\* A command without parameters, an ACL packet whose length needs its second
\* byte and which fills the buffer, an ISO packet with flag bits in the length
\* field; one that does not fit the buffer and one of a type that is not sent;
\* a synchronous packet.
MixedPackets ==
    { <<CMD, 2, 3, 0>>,
      <<ACL, 1, 0, 0, 1, 2, 0, 0, 1, 5, 3>>,
      <<ISO, 0, 0, 1, 2, 1>>,
      <<ACL, 1, 0, 1, 1, CMD, 0, 0, 1, ISO, 3, 2>>,
      <<4, CMD>>,
      <<SCO, 1, 1, 1, 2>> }
=============================================================================
