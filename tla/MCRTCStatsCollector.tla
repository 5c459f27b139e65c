-------------------------- MODULE MCRTCStatsCollector --------------------------
(* The instance of RTCStatsCollector for TLC.                                 *)
EXTENDS RTCStatsCollector

\* One transceiver before its negotiation; both on transports of their own.
const_Negotiated == {<<"a", NoTransport>>, <<"a", "b">>}
=============================================================================
