---------------------------- MODULE MCProbeGate -----------------------------
(***************************************************************************)
(* Instances of ProbeGate for TLC: three servers, one of each kind.        *)
(***************************************************************************)
EXTENDS ProbeGate

Mixed == [s \in {1, 2, 3} |-> IF s = 1 THEN "stdio"
                              ELSE IF s = 2 THEN "http" ELSE "sse"]
=============================================================================
