----------------------------- MODULE ProbeGate ------------------------------
(***************************************************************************)
(* Consent to the active MCP probe, and its sandbox gate: the RunE of scan *)
(* and push (internal/cli/scan.go, push.go, consent.go), the planning and  *)
(* maybeProbeMCP of internal/engine, and what the report says afterwards.  *)
(*                                                                         *)
(* The servers an operator configured are collected twice: once to print   *)
(* the commands of the consent prompt, once by the scan that runs them.    *)
(* Between the two the configuration may change and a collection may fail. *)
(* What running a server does is in Session, StdioTransport and Baseline;  *)
(* here it yields a tier and whether the sandbox applied.                  *)
(***************************************************************************)
EXTENDS Integers, FiniteSets

CONSTANTS Servers,     \* ServerSpecs, as numbers in the order of their names
          Kind,        \* server |-> "stdio", "http" or "sse"
          Flags        \* command lines, a subset of AnyFlags

AnyFlags == [cmd         : {"scan", "push"},
             enabled     : BOOLEAN,   \* --probe-mcp
             yes         : BOOLEAN,   \* --probe-mcp-yes
             unsandboxed : BOOLEAN,   \* --probe-mcp-unsandboxed
             machine     : BOOLEAN,   \* --json or --report
             tty         : BOOLEAN,   \* stdin is a terminal
             available   : BOOLEAN]   \* sandbox.Available()

ASSUME ServersAssumption == Servers \subseteq Nat /\ IsFiniteSet(Servers)
ASSUME KindAssumption == Kind \in [Servers -> {"stdio", "http", "sse"}]
ASSUME FlagsAssumption == Flags \subseteq AnyFlags

VARIABLES
    flags,     \* the command line and the host, fixed
    configs,   \* the servers configured now
    steady,    \* nobody edited them since planning, and planning succeeded
    pc,        \* "start", "plan", "consent", "collect", "gate", "probe", "done"
    planned,   \* the commands the prompt lists
    answer,    \* what the operator typed: "none", "yes", "no"
    consent,   \* Options.MCPProbeConsent
    specs,     \* deriveServerSpecs of the scan's own signals
    left,      \* specs not probed yet
    ran,       \* servers keelix executed or contacted
    tier,      \* server |-> SandboxTier, "" when it was not reached
    applied,   \* the servers with SandboxApplied
    findings   \* MCP000 findings: "skipped", "unsandboxed"

results == <<ran, tier, applied>>
vars == <<flags, configs, steady, pc, planned, answer, consent, specs, left, results,
          findings>>

Init ==
    /\ flags \in Flags /\ configs \in SUBSET Servers
    /\ pc = "start" /\ steady = FALSE
    /\ planned = {} /\ answer = "none"
    /\ consent = flags.yes
    /\ specs = {} /\ left = {}
    /\ ran = {} /\ tier = [s \in Servers |-> ""] /\ applied = {}
    /\ findings = {}

\* One collection: the servers configured now, or none when it fails.
Collected == {configs, {}}

-----------------------------------------------------------------------------
(***************************************************************************)
(* The command line.                                                       *)
(***************************************************************************)

\* push goes straight to engine.Scan; scan plans only an enabled probe.
Start ==
    /\ pc = "start"
    /\ pc' = IF flags.cmd = "scan" /\ flags.enabled THEN "plan" ELSE "collect"
    /\ UNCHANGED <<flags, configs, steady, planned, answer, consent, specs, left,
                   results, findings>>

\* PlannedMCPProbeCommands, through collectForPlanning.
Plan_StdioOnly ==
    /\ pc = "plan" /\ pc' = "consent"
    /\ planned' = {s \in configs : Kind[s] = "stdio"}
    /\ steady' = TRUE
    /\ UNCHANGED <<flags, configs, answer, consent, specs, left, results, findings>>
Plan ==
    /\ pc = "plan" /\ pc' = "consent"
    /\ planned' \in Collected
    /\ steady' = (planned' = configs)
    /\ UNCHANGED <<flags, configs, answer, consent, specs, left, results, findings>>

Interactive == flags.tty /\ ~flags.machine

\* resolveMCPConsent without a prompt.
Resolve ==
    /\ pc = "consent" /\ pc' = "collect"
    /\ flags.yes \/ ~Interactive
    /\ consent' = flags.yes
    /\ UNCHANGED <<flags, configs, steady, planned, answer, specs, left, results, findings>>

\* ... with the prompt: anything but y or yes is a no.
Prompt_DefaultYes ==
    /\ pc = "consent" /\ pc' = "collect"
    /\ ~flags.yes /\ Interactive
    /\ answer' \in {"yes", "no"}
    /\ consent' = TRUE
    /\ UNCHANGED <<flags, configs, steady, planned, specs, left, results, findings>>
Prompt ==
    /\ pc = "consent" /\ pc' = "collect"
    /\ ~flags.yes /\ Interactive
    /\ answer' \in {"yes", "no"}
    /\ consent' = (answer' = "yes")
    /\ UNCHANGED <<flags, configs, steady, planned, specs, left, results, findings>>

-----------------------------------------------------------------------------
(***************************************************************************)
(* engine.Scan.                                                            *)
(***************************************************************************)
CollectSignals ==
    /\ pc = "collect" /\ pc' = "gate"
    /\ specs' \in Collected
    /\ UNCHANGED <<flags, configs, steady, planned, answer, consent, left, results, findings>>

\* maybeProbeMCPInner: nothing to do without consent or without servers.
NoProbe ==
    /\ pc = "gate"
    /\ ~flags.enabled \/ ~consent \/ specs = {}
    /\ pc' = "done"
    /\ UNCHANGED <<flags, configs, steady, planned, answer, consent, specs, left,
                   results, findings>>

MayProbe == flags.enabled /\ consent /\ specs # {}

\* The sandbox gate, SBX-5: no tier and no opt-in is inventory only.
Skip_Silently ==
    /\ pc = "gate" /\ MayProbe /\ ~flags.available /\ ~flags.unsandboxed
    /\ pc' = "done"
    /\ UNCHANGED <<flags, configs, steady, planned, answer, consent, specs, left,
                   results, findings>>
Skip ==
    /\ pc = "gate" /\ MayProbe /\ ~flags.available /\ ~flags.unsandboxed
    /\ pc' = "done"
    /\ findings' = {"skipped"}
    /\ UNCHANGED <<flags, configs, steady, planned, answer, consent, specs, left, results>>

Proceed_Quietly ==
    /\ pc = "gate" /\ MayProbe /\ (flags.available \/ flags.unsandboxed)
    /\ pc' = "probe" /\ left' = specs
    /\ UNCHANGED <<flags, configs, steady, planned, answer, consent, specs, results, findings>>
Proceed ==
    /\ pc = "gate" /\ MayProbe /\ (flags.available \/ flags.unsandboxed)
    /\ pc' = "probe" /\ left' = specs
    /\ findings' = IF flags.available THEN {} ELSE {"unsandboxed"}
    /\ UNCHANGED <<flags, configs, steady, planned, answer, consent, specs, results>>

\* probeOne for the next server: the outcome of its sandbox, or no session.
\* ok, Session.Applied of a local server, is what its trampoline says; that is
\* its own finding and need not agree with what Available told the parent.
TierOf(s, ok) == IF Kind[s] # "stdio" THEN Kind[s]
                 ELSE IF ok THEN "kernel" ELSE "tier0"

ProbeOne ==
    /\ pc = "probe" /\ left # {}
    /\ \E s \in left :
         /\ \A u \in left : s <= u
         /\ left' = left \ {s}
         /\ ran' = ran \cup {s}
         /\ \/ UNCHANGED <<tier, applied>>
            \/ \E ok \in BOOLEAN :
                 /\ ok => Kind[s] = "stdio"
                 /\ tier' = [tier EXCEPT ![s] = TierOf(s, ok)]
                 /\ applied' = IF ok THEN applied \cup {s} ELSE applied
    /\ UNCHANGED <<flags, configs, steady, pc, planned, answer, consent, specs, findings>>

Probed ==
    /\ pc = "probe" /\ left = {}
    /\ pc' = "done"
    /\ UNCHANGED <<flags, configs, steady, planned, answer, consent, specs, left,
                   results, findings>>

\* Somebody edits the client configurations.
Edit ==
    /\ pc # "done"
    /\ configs' \in SUBSET Servers /\ steady' = FALSE
    /\ UNCHANGED <<flags, pc, planned, answer, consent, specs, left, results, findings>>

Next ==
    \/ Start \/ Plan \/ Resolve \/ Prompt
    \/ CollectSignals \/ NoProbe \/ Skip \/ Proceed \/ ProbeOne \/ Probed
    \/ Edit

Spec == Init /\ [][Next]_vars

-----------------------------------------------------------------------------
\* methodology: the report speaks of verified kernel confinement.
ClaimsKernel == applied # {}

-----------------------------------------------------------------------------
TypeOK ==
    /\ flags \in Flags /\ configs \subseteq Servers /\ steady \in BOOLEAN
    /\ pc \in {"start", "plan", "consent", "collect", "gate", "probe", "done"}
    /\ planned \subseteq Servers /\ specs \subseteq Servers
    /\ answer \in {"none", "yes", "no"} /\ consent \in BOOLEAN
    /\ left \subseteq specs /\ ran \subseteq specs
    /\ tier \in [Servers -> {"", "http", "sse", "tier0", "kernel"}]
    /\ applied \subseteq ran
    /\ findings \subseteq {"skipped", "unsandboxed"}

\* ScanOptions.MCPProbeConsent: whatever the flags and the terminal, nothing
\* is executed unless the probe was asked for and the operator passed
\* --probe-mcp-yes or answered yes to the prompt of this very run.
OnlyWithConsent ==
    ran # {} => flags.enabled /\ (flags.yes \/ answer = "yes")

\* maybeProbeMCPInner, SBX-5: where no kernel tier exists a server runs only
\* after the opt-in, and then the report carries the warning.
GateHolds ==
    (ran # {} /\ ~flags.available)
        => flags.unsandboxed /\ "unsandboxed" \in findings

\* maybeProbeMCPInner: a probe that was consented to and had servers either
\* contacted every one of them or says that it was skipped.
NoSilentSkip ==
    (pc = "done" /\ MayProbe) => ran = specs \/ "skipped" \in findings

\* PlannedMCPProbeCommands: what runs after a yes was on the list the operator
\* saw, if the configurations did not change and could be read.
ExactCommands == (answer = "yes" /\ steady) => ran \subseteq planned
=============================================================================
