---------------------------- MODULE DriftVerdict ----------------------------
(***************************************************************************)
(* What a scan says about drift: check MCP007 (internal/checks/mcp,        *)
(* mcp007.Run) over the tool facts probeOne collected.                     *)
(*                                                                         *)
(* Extends Baseline: every step of a scan is a step there, and the ones    *)
(* that build or read MCPProbe do so here as well.                         *)
(***************************************************************************)
EXTENDS Baseline

VARIABLES
    facts,    \* process |-> the MCPToolFacts of its scan
    verdict   \* process |-> what MCP007 said in its last scan

Fact == [key : Keys, hash : Hashes, drifted : BOOLEAN]

Verdicts == {"none", "fail", "corrupt", "notAssessed", "pass"}

VInit ==
    /\ Init
    /\ facts = [p \in Procs |-> {}]
    /\ verdict = [p \in Procs |-> "none"]

\* probeOne appends one fact for every tool it compares.
Observe(p) ==
    /\ DiffTool(p)
    /\ LET obs == Head(listing[p])
           k   == <<cur[p], obs.tool>>
           e   == bl[p][k]
       IN facts' = [facts EXCEPT ![p] = @ \cup
              {[key |-> k, hash |-> obs.hash,
                drifted |-> ~StartsOver(e, spec[p][cur[p]]) /\ e.hash # obs.hash]}]
    /\ UNCHANGED verdict

\* mcp007.Run.
Verdict_NeedsAllDrifted(p) ==
    IF corrupt[p] THEN "corrupt"
    ELSE IF facts[p] = {} THEN "notAssessed"
    ELSE IF \A f \in facts[p] : f.drifted THEN "fail"
    ELSE "pass"
Verdict(p) ==
    IF corrupt[p] THEN "corrupt"
    ELSE IF \E f \in facts[p] : f.drifted THEN "fail"
    ELSE IF facts[p] = {} THEN "notAssessed"
    ELSE "pass"

Judge(p) ==
    /\ Report(p)
    /\ verdict' = [verdict EXCEPT ![p] = Verdict(p)]
    /\ facts' = [facts EXCEPT ![p] = {}]

Begin(p) ==
    /\ Load(p)
    /\ verdict' = [verdict EXCEPT ![p] = "none"]
    /\ UNCHANGED facts

Silent(p) ==
    \/ CreateTemp(p) \/ WriteTemp(p) \/ Rename(p) \/ SaveFails(p)
    \/ \E s \in Servers : Unreached(p, s) \/ Reached(p, s)

Killed(p) ==
    /\ Crash(p)
    /\ facts' = [facts EXCEPT ![p] = {}]
    /\ UNCHANGED verdict

Blackout ==
    /\ PowerLoss
    /\ facts' = [p \in Procs |-> {}]
    /\ UNCHANGED verdict

Outside == (\E s \in Servers : Repoint(s)) \/ Discard \/ Damage \/ Sync

VNext ==
    \/ \E p \in Procs : Begin(p) \/ Observe(p) \/ Judge(p) \/ Killed(p)
    \/ Blackout
    \/ /\ Outside \/ \E p \in Procs : Silent(p)
       /\ UNCHANGED <<facts, verdict>>

VSpec == VInit /\ [][VNext]_<<vars, facts, verdict>>

-----------------------------------------------------------------------------
\* mcp007.Run on top of Diff: a scan that says Pass compared something, and
\* every description it saw is the one its own baseline holds as approved.
PassIsClean ==
    [][ \A p \in Procs :
          (pc[p] = "report" /\ pc'[p] = "idle" /\ verdict'[p] = "pass")
              => /\ facts[p] # {}
                 /\ \A f \in facts[p] : bl[p][f.key].hash = f.hash ]_<<vars, verdict>>

\* The comment of Diff: "This ensures a poisoned server keeps failing MCP007 on
\* every subsequent scan until a human explicitly approves the change."  While
\* the file records an unapproved observation, no scan says Pass.
KeepsFailing ==
    [][ \A p \in Procs :
          (pc[p] = "report" /\ pc'[p] = "idle" /\ verdict'[p] = "pass")
              => \A k \in Keys : disk[k].pending = NoHash ]_<<vars, verdict>>
=============================================================================
