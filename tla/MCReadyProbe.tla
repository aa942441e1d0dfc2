---------------------------- MODULE MCReadyProbe ----------------------------
(* A small instance of ReadyProbe: the probes are interchangeable.         *)
EXTENDS ReadyProbe, TLC

ProbeSymmetry == Permutations(Probe)
=============================================================================
