--------------------------- MODULE MCDriftVerdict ---------------------------
(***************************************************************************)
(* Instances of DriftVerdict for TLC: one tool, listed at most once, or    *)
(* (Duplicates) twice with different descriptions.                         *)
(***************************************************************************)
EXTENDS DriftVerdict

Once(t) == {<<[tool |-> t, hash |-> h]>> : h \in Hashes}

Distinct == {<<>>} \cup UNION {Once(t) : t \in Tools}

Duplicates == Distinct \cup {l \o m : l, m \in UNION {Once(t) : t \in Tools}}
=============================================================================
