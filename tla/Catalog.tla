------------------------------ MODULE Catalog -------------------------------
(***************************************************************************)
(* The catalog of checks (internal/catalog): their groups, severities,     *)
(* impacts and which of them are fatal, and the findings made from its     *)
(* entries.  Texts and control references are left out.                    *)
(***************************************************************************)
EXTENDS Naturals, SequencesExt

\* The checks of each group.
ExposureChecks    == {"EXP001", "EXP002", "EXP003"}
FirewallChecks    == {"FW001", "FW002", "FW003", "FW004", "FW005", "FW006"}
ProxyChecks       == {"PRX001", "PRX002", "PRX003", "PRX004", "PRX005", "PRX006"}
HardeningChecks   == {"HRD001", "HRD002", "HRD003", "HRD004", "HRD005", "HRD006",
                      "HRD007", "HRD008", "HRD009", "HRD010"}
SecretsChecks     == {"SEC001", "SEC002", "SEC003", "SEC004"}
TLSChecks         == {"TLS001", "TLS002", "TLS003", "TLS004"}
DNSChecks         == {"DNS001", "DNS002"}
AuthChecks        == {"AUTH001", "AUTH002"}
SupplyChainChecks == {"SUP001", "SUP002", "SUP003", "SUP004"}
ServiceChecks     == {"SVC001", "SVC002", "SVC003", "SVC004", "SVC010", "SVC011",
                      "SVC020", "SVC021", "SVC030", "SVC031", "SVC032", "SVC040",
                      "SVC041", "SVC050", "SVC051", "SVC052", "SVC060"}
AgentChecks       == {"AGT001", "AGT002", "AGT003", "AGT004", "AGT005", "AGT006",
                      "AGT007", "AGT008", "AGT009", "AGT010"}
MCPChecks         == {"MCP001", "MCP002", "MCP003", "MCP004", "MCP005", "MCP006",
                      "MCP007", "MCP008", "MCP009"}
HostOSChecks      == {"HST001", "HST002", "HST003", "HST004", "HST005", "HST010",
                      "HST011", "HST012", "HST013", "HST020", "HST021", "HST022",
                      "HST023", "HST030", "HST040", "HST041"}

CheckIDs ==
    HostOSChecks \cup ExposureChecks \cup FirewallChecks \cup ProxyChecks \cup HardeningChecks
    \cup SecretsChecks \cup TLSChecks \cup DNSChecks \cup AuthChecks \cup SupplyChainChecks
    \cup ServiceChecks \cup AgentChecks \cup MCPChecks

Criticals ==
    {"EXP001", "FW001", "FW005", "FW006", "PRX003", "PRX006", "HRD001", "HRD003",
     "SEC002", "SEC003", "TLS002", "AUTH002", "SUP002", "SUP003", "SVC001", "SVC002",
     "SVC003", "SVC004", "SVC010", "SVC030", "SVC032", "SVC050", "SVC060", "AGT001",
     "AGT002", "AGT006", "AGT007", "MCP001", "MCP004", "MCP005", "MCP007", "MCP009",
     "HST003", "HST011", "HST021", "HST022"}
Infos ==
    {"EXP003", "FW004", "PRX004", "HRD005", "HRD006", "HRD007", "SEC004", "DNS001",
     "SUP001", "HST004", "HST005", "HST012", "HST013", "HST040", "HST041"}

Severity(i) == IF i \in Criticals THEN "critical" ELSE IF i \in Infos THEN "info" ELSE "warning"

\* The checks that can cap the grade by themselves.
Fatals ==
    {"EXP001", "FW001", "FW005", "FW006", "AGT002", "AGT006", "MCP004", "HST003", "SVC001",
     "SVC002", "SVC003", "SVC004", "SVC010", "SVC030", "SVC032", "SVC050", "SVC060"}

-----------------------------------------------------------------------------
(***************************************************************************)
(* Findings.  Checks return sets of them: their order, and whether one of  *)
(* several equal ones is repeated, is left out, and so are impacts and     *)
(* exposure classes (see Grading).                                         *)
(***************************************************************************)
Finding(i) ==
    [id |-> i, severity |-> Severity(i), fatal |-> i \in Fatals, status |-> "assessed",
     confidence |-> "high", service |-> "", resource |-> "", port |-> 0]

Pass(i) == [Finding(i) EXCEPT !.severity = "ok", !.fatal = FALSE]
notAssessed(i) == [Finding(i) EXCEPT !.status = "not_assessed"]

\* A finding about a resource; at a port; of a service of the stack.
Failed(i, r) == [Finding(i) EXCEPT !.resource = r]
FailedAt(i, r, p) == [Failed(i, r) EXCEPT !.port = p]
FailedFor(i, svc, r) == [Failed(i, r) EXCEPT !.service = svc]

\* A finding held with confidence c; one that is critical if it is so bad.
Confident(f, c) == [f EXCEPT !.confidence = c]
CriticalIf(f, bad) == IF bad THEN [f EXCEPT !.severity = "critical"] ELSE f

IsFail(f) == f.status = "assessed" /\ f.severity # "ok"

\* A check that says one thing, and a check that says it passed if nothing failed.
Judge(i, failing, finding) == {IF failing THEN finding ELSE Pass(i)}
OrPass(i, fs) == IF fs = {} THEN {Pass(i)} ELSE fs
=============================================================================
