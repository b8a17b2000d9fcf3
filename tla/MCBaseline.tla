----------------------------- MODULE MCBaseline -----------------------------
(***************************************************************************)
(* Instances of Baseline for TLC.  A listing names a tool at most once, or *)
(* (Duplicates) the same tool twice with different descriptions.           *)
(***************************************************************************)
EXTENDS Baseline

Once(t) == {<<[tool |-> t, hash |-> h]>> : h \in Hashes}

Pairs(t, u) == {l \o m : l \in Once(t), m \in Once(u)}

\* Every tool at most once.
Distinct == {<<>>} \cup UNION {Once(t) : t \in Tools}
                   \cup UNION {Pairs(tu[1], tu[2]) :
                               tu \in {v \in Tools \X Tools : v[1] # v[2]}}

\* One tool, listed once, twice, or not at all.
Duplicates == {<<>>} \cup UNION {Once(t) \cup Pairs(t, t) : t \in Tools}
=============================================================================
