--------------------------- MODULE MCRtBandwidth ---------------------------
(* The values of the sysctl that a configuration file cannot write.        *)
EXTENDS RtBandwidth

MCSettings == {-1, 0, 2}
=============================================================================
