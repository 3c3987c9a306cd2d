---------------------------- MODULE MCUdpPipeline ----------------------------
(* UdpPipeline for TLC.                                                    *)
EXTENDS UdpPipeline

\* The pids the switch of handleUdp knows, and one it does not.
KnownAndOne == {0, 1, 2, 5, 6, 9}

=============================================================================
