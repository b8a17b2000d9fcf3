-------------------------- MODULE ProbeGate_proofs --------------------------
(***************************************************************************)
(* Theorems about ProbeGate, for any finite set of servers, of any kinds,  *)
(* and for any set of command lines and hosts.                             *)
(***************************************************************************)
EXTENDS ProbeGate, TLAPS

\* Consent comes from the flag, or from an answer to the prompt.
Asked == consent => flags.yes \/ answer = "yes"

\* Before the gate nothing has happened; from the gate on, only what it let through.
Before ==
    /\ pc \notin {"probe", "done"} => ran = {} /\ left = {} /\ findings = {}
    /\ pc \notin {"gate", "probe", "done"} => specs = {}
Through ==
    pc = "probe" \/ ran # {} =>
        /\ MayProbe /\ (flags.available \/ flags.unsandboxed)
        /\ ~flags.available => "unsandboxed" \in findings

\* The servers of a probe are those it is done with and those it is not, each once.
Split ==
    /\ pc = "probe" => ran \cup left = specs
    /\ ran \cap left = {}

\* Until somebody edits them the configurations are those on the list.
Listed == steady => configs = planned /\ specs \subseteq planned

\* Confinement is recorded of local servers only, with the tier of the kernel.
Confined == \A s \in applied : Kind[s] = "stdio" /\ tier[s] = "kernel"

GateInv ==
    /\ TypeOK /\ Asked /\ Before /\ Through /\ Split /\ Listed /\ Confined
    /\ NoSilentSkip

LEMMA InvInit == Init => GateInv
<1> SUFFICES ASSUME Init PROVE GateInv
  OBVIOUS
<1> USE DEF Init
<1>1. flags.yes \in BOOLEAN
  BY FlagsAssumption DEF AnyFlags
<1>2. TypeOK
  BY <1>1 DEF TypeOK
<1>3. Asked /\ Before /\ Through /\ Split /\ Listed /\ Confined /\ NoSilentSkip
  BY DEF Asked, Before, Through, Split, Listed, Confined, NoSilentSkip
<1> QED BY <1>2, <1>3 DEF GateInv

(***************************************************************************)
(* The steps of the command line, and an edit, keep the invariant.         *)
(***************************************************************************)
LEMMA CommandKeeps ==
    GateInv /\ (Start \/ Plan \/ Resolve \/ Prompt \/ Edit) => GateInv'
<1> SUFFICES ASSUME GateInv, Start \/ Plan \/ Resolve \/ Prompt \/ Edit
             PROVE  GateInv'
  OBVIOUS
<1> USE FlagsAssumption DEF GateInv, results, Collected
<1>1. TypeOK'
  <2>1. flags.yes \in BOOLEAN
    BY DEF TypeOK, AnyFlags
  <2> QED BY <2>1 DEF TypeOK, Start, Plan, Resolve, Prompt, Edit
<1>2. Asked'
  BY DEF Asked, Start, Plan, Resolve, Prompt, Edit
<1>3. Before' /\ Split' /\ Confined'
  BY DEF Before, Split, Confined, Start, Plan, Resolve, Prompt, Edit
<1>4. Through' /\ NoSilentSkip'
  BY DEF Through, NoSilentSkip, MayProbe, Before, Start, Plan, Resolve, Prompt, Edit
<1>5. Listed'
  <2>1. CASE Plan
    BY <2>1 DEF Listed, Before, Plan
  <2>2. CASE Edit
    BY <2>2 DEF Listed, Edit
  <2>3. CASE Start \/ Resolve \/ Prompt
    BY <2>3 DEF Listed, Start, Resolve, Prompt
  <2> QED BY <2>1, <2>2, <2>3
<1> QED BY <1>1, <1>2, <1>3, <1>4, <1>5

(***************************************************************************)
(* So do the collection and the gate.                                      *)
(***************************************************************************)
LEMMA GateKeeps ==
    GateInv /\ (CollectSignals \/ NoProbe \/ Skip \/ Proceed) => GateInv'
<1> SUFFICES ASSUME GateInv, CollectSignals \/ NoProbe \/ Skip \/ Proceed
             PROVE  GateInv'
  OBVIOUS
<1> USE DEF GateInv, results, Collected
<1>1. TypeOK'
  BY DEF TypeOK, Before, CollectSignals, NoProbe, Skip, Proceed
<1>2. Asked' /\ Listed' /\ Confined'
  BY DEF Asked, Listed, Confined, CollectSignals, NoProbe, Skip, Proceed
<1>3. Before' /\ Split' /\ Through'
  BY DEF Before, Split, Through, MayProbe, CollectSignals, NoProbe, Skip, Proceed
<1>4. NoSilentSkip'
  BY DEF NoSilentSkip, MayProbe, CollectSignals, NoProbe, Skip, Proceed
<1> QED BY <1>1, <1>2, <1>3, <1>4

(***************************************************************************)
(* So does the probe of one server, and the end of the probe.              *)
(***************************************************************************)
LEMMA ProbeKeeps == GateInv /\ (ProbeOne \/ Probed) => GateInv'
<1> SUFFICES ASSUME GateInv PROVE (ProbeOne \/ Probed) => GateInv'
  OBVIOUS
<1> USE DEF GateInv, results
<1>1. CASE Probed
  <2>1. TypeOK' /\ Asked' /\ Listed' /\ Confined' /\ Before' /\ Split' /\ Through'
    BY <1>1 DEF Probed, TypeOK, Asked, Listed, Confined, Before, Split, Through, MayProbe
  <2>2. NoSilentSkip'
    BY <1>1 DEF Probed, NoSilentSkip, Split
  <2> QED BY <2>1, <2>2
<1>2. ASSUME ProbeOne PROVE GateInv'
  <2>1. PICK s \in left :
          /\ left' = left \ {s} /\ ran' = ran \cup {s}
          /\ \/ UNCHANGED <<tier, applied>>
             \/ \E ok \in BOOLEAN :
                  /\ ok => Kind[s] = "stdio"
                  /\ tier' = [tier EXCEPT ![s] = TierOf(s, ok)]
                  /\ applied' = IF ok THEN applied \cup {s} ELSE applied
    BY <1>2 DEF ProbeOne
  <2>2. /\ pc = "probe" /\ pc' = "probe"
        /\ UNCHANGED <<flags, configs, steady, planned, answer, consent, specs, findings>>
    BY <1>2 DEF ProbeOne
  <2>3. s \in specs /\ s \in Servers /\ s \notin ran
    BY <2>1 DEF TypeOK, Split
  <2>4. tier' \in [Servers -> {"", "http", "sse", "tier0", "kernel"}] /\ applied' \subseteq ran'
    <3>1. \A ok \in BOOLEAN : TierOf(s, ok) \in {"", "http", "sse", "tier0", "kernel"}
      BY <2>3, KindAssumption DEF TierOf
    <3> QED BY <2>1, <2>3, <3>1 DEF TypeOK
  <2>5. TypeOK'
    BY <2>1, <2>2, <2>3, <2>4 DEF TypeOK
  <2>6. Asked' /\ Listed' /\ Before' /\ Split'
    BY <2>1, <2>2, <2>3 DEF Asked, Listed, Before, Split
  <2>7. Through' /\ NoSilentSkip'
    BY <2>1, <2>2 DEF Through, NoSilentSkip, MayProbe
  <2>8. Confined'
    <3>1. CASE UNCHANGED <<tier, applied>>
      BY <2>2, <3>1 DEF Confined
    <3>2. ASSUME NEW ok \in BOOLEAN,
                 ok => Kind[s] = "stdio",
                 tier' = [tier EXCEPT ![s] = TierOf(s, ok)],
                 applied' = IF ok THEN applied \cup {s} ELSE applied
          PROVE  Confined'
      <4>1. \A u \in applied : u # s /\ u \in Servers /\ tier'[u] = tier[u]
        BY <2>3, <3>2 DEF TypeOK
      <4>2. ok => tier'[s] = "kernel" /\ Kind[s] = "stdio"
        BY <2>3, <3>2 DEF TypeOK, TierOf
      <4>3. \A u \in applied' : u \in applied \/ (u = s /\ ok)
        BY <3>2
      <4> QED BY <2>2, <4>1, <4>2, <4>3 DEF Confined
    <3> QED BY <2>1, <3>1, <3>2
  <2> QED BY <2>5, <2>6, <2>7, <2>8
<1> QED BY <1>1, <1>2

LEMMA InvNext == GateInv /\ [Next]_vars => GateInv'
<1> SUFFICES ASSUME GateInv, UNCHANGED vars PROVE GateInv'
  BY CommandKeeps, GateKeeps, ProbeKeeps DEF Next
<1> QED
  BY DEF vars, results, GateInv, TypeOK, Asked, Before, Through, MayProbe, Split, Listed,
         Confined, NoSilentSkip

LEMMA InvHolds == Spec => []GateInv
BY InvInit, InvNext, PTL DEF Spec

(***************************************************************************)
(* TypeOK: every variable keeps its type, and only derived specs are run.  *)
(***************************************************************************)
THEOREM TypeCorrect == Spec => []TypeOK
<1>1. GateInv => TypeOK
  BY DEF GateInv
<1> QED BY <1>1, InvHolds, PTL

(***************************************************************************)
(* OnlyWithConsent: nothing is executed unless the probe was asked for and *)
(* consented to, by flag or by the answer to the prompt (consent.go).      *)
(***************************************************************************)
THEOREM NothingWithoutConsent == Spec => []OnlyWithConsent
<1>1. GateInv => OnlyWithConsent
  BY DEF GateInv, Asked, Through, MayProbe, OnlyWithConsent
<1> QED BY <1>1, InvHolds, PTL

(***************************************************************************)
(* GateHolds: without a kernel tier nothing runs but after the opt-in, and *)
(* then the report says so (maybeProbeMCPInner).                           *)
(***************************************************************************)
THEOREM GateIsShut == Spec => []GateHolds
<1>1. GateInv => GateHolds
  BY DEF GateInv, Through, GateHolds
<1> QED BY <1>1, InvHolds, PTL

(***************************************************************************)
(* NoSilentSkip: a probe that was consented to contacts all the servers it *)
(* derived, or says that it was skipped (maybeProbeMCPInner).              *)
(***************************************************************************)
THEOREM SkipsAreReported == Spec => []NoSilentSkip
<1>1. GateInv => NoSilentSkip
  BY DEF GateInv
<1> QED BY <1>1, InvHolds, PTL

(***************************************************************************)
(* ExactCommands: what runs was on the list of the prompt, unless the      *)
(* configurations were edited or could not be read in between.             *)
(***************************************************************************)
THEOREM ListIsBinding == Spec => []ExactCommands
<1>1. GateInv => ExactCommands
  BY DEF GateInv, Listed, TypeOK, ExactCommands
<1> QED BY <1>1, InvHolds, PTL

(***************************************************************************)
(* The report speaks of verified kernel confinement (methodology) only     *)
(* after a consented probe that ran a local server whose trampoline said   *)
(* that it was confined; and if the parent saw no kernel tier              *)
(* (sandbox.Available), the same report warns that the probe was not       *)
(* sandboxed.  The claim and the warning may then contradict each other,   *)
(* but the claim never stands alone.                                       *)
(***************************************************************************)
ClaimBacked ==
    ClaimsKernel =>
        /\ flags.enabled /\ (flags.yes \/ answer = "yes")
        /\ \E s \in ran : Kind[s] = "stdio" /\ tier[s] = "kernel"
        /\ flags.available \/ (flags.unsandboxed /\ "unsandboxed" \in findings)

THEOREM ClaimNeedsTier == Spec => []ClaimBacked
<1>1. GateInv /\ ClaimsKernel => ran # {} /\ \E s \in ran : Kind[s] = "stdio" /\ tier[s] = "kernel"
  BY DEF GateInv, TypeOK, Confined, ClaimsKernel
<1>2. GateInv /\ ClaimsKernel => OnlyWithConsent /\ GateHolds
  BY DEF GateInv, Asked, Through, MayProbe, OnlyWithConsent, GateHolds
<1>3. GateInv => ClaimBacked
  BY <1>1, <1>2 DEF OnlyWithConsent, GateHolds, ClaimBacked
<1> QED BY <1>3, InvHolds, PTL
=============================================================================
