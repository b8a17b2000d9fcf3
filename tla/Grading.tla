------------------------------ MODULE Grading -------------------------------
(***************************************************************************)
(* The stages of engine.Scan that lead from facts to a grade: parse the    *)
(* stack, probe its ports, collect signals, run the checks, sort the       *)
(* findings, classify them, score them.                                    *)
(*                                                                         *)
(* The checks that read ports and images are here (EXP001, EXP002, SUP003, *)
(* SUP004, and SVC010 for the checks of service configurations); what the  *)
(* other checks may say is the constant Others, a set of finding lists.    *)
(***************************************************************************)
EXTENDS Score

CONSTANTS Stacks,     \* the stacks a file may hold: sequences of services
          Wanted,     \* the port sets an operator may declare public
          Hosts,      \* what collection may find: sockets and the firewall
          Others,
          Sensitive,  \* intel.IsSensitivePort
          Web         \* 80 and 443

Collected == [sockets : SUBSET (Ports \X Binds), drop : BOOLEAN, allow : SUBSET Ports,
              deny : SUBSET Ports, arr : {"absent", "on", "off"}, arrPort : Ports \cup {0}]

ASSUME GradingAssumption ==
    /\ Stacks \subseteq Seq(Service) /\ Wanted \subseteq SUBSET Ports
    /\ Hosts \subseteq Collected
    /\ Sensitive \cup Web \subseteq Ports

VARIABLES
    stage,     \* the next stage of Scan
    sctx,      \* the ScanContext, filled in as the stages run
    findings,
    result     \* the Result, or NoResult

vars == <<stage, sctx, findings, result>>

NoResult == [rating |-> "none"]

NoFacts == [services |-> <<>>, wanted |-> {}, probed |-> FALSE, open |-> {},
            collected |-> FALSE, sockets |-> {}, drop |-> FALSE, allow |-> {},
            deny |-> {}, arr |-> "absent", arrPort |-> 0]

Init ==
    /\ stage = "parse" /\ sctx = NoFacts
    /\ findings = <<>> /\ result = NoResult

Parse ==
    /\ stage = "parse" /\ stage' = "probe"
    /\ \E s \in Stacks, w \in Wanted :
          sctx' = [sctx EXCEPT !.services = s, !.wanted = w]
    /\ UNCHANGED <<findings, result>>

ParseFails ==
    /\ stage = "parse" /\ stage' = "failed"
    /\ UNCHANGED <<sctx, findings, result>>

Probe ==
    /\ stage = "probe" /\ stage' = "collect"
    /\ \/ UNCHANGED sctx
       \/ \E o \in SUBSET Ports : sctx' = [sctx EXCEPT !.probed = TRUE, !.open = o]
    /\ UNCHANGED <<findings, result>>

\* Without signals when collection is off or fails.
CollectSignals ==
    /\ stage = "collect" /\ stage' = "checks"
    /\ \/ UNCHANGED sctx
       \/ \E h \in Hosts :
             sctx' = [sctx EXCEPT !.collected = TRUE, !.sockets = h.sockets,
                                  !.drop = h.drop, !.allow = h.allow, !.deny = h.deny,
                                  !.arr = h.arr, !.arrPort = h.arrPort]
    /\ UNCHANGED <<findings, result>>

-----------------------------------------------------------------------------
(***************************************************************************)
(* The checks.                                                             *)
(***************************************************************************)
\* catalog.entries, impacts in halves of a point.
Entry ==
    [EXP001 |-> [group |-> "Exposure",    severity |-> "critical", impact |-> 19, fatal |-> TRUE],
     EXP002 |-> [group |-> "Exposure",    severity |-> "warning",  impact |-> 10, fatal |-> FALSE],
     SUP003 |-> [group |-> "SupplyChain", severity |-> "critical", impact |-> 18, fatal |-> FALSE],
     SUP004 |-> [group |-> "SupplyChain", severity |-> "warning",  impact |-> 10, fatal |-> FALSE],
     SVC010 |-> [group |-> "Service",     severity |-> "critical", impact |-> 16, fatal |-> TRUE],
     AGT001 |-> [group |-> "AIAgent",     severity |-> "critical", impact |-> 17, fatal |-> FALSE],
     MCP004 |-> [group |-> "MCP",         severity |-> "critical", impact |-> 18, fatal |-> TRUE],
     EXP003 |-> [group |-> "Exposure",    severity |-> "info",     impact |-> 4,  fatal |-> FALSE]]

Finding(i) ==
    [id |-> i, group |-> Entry[i].group, severity |-> Entry[i].severity,
     impact |-> Entry[i].impact, fatal |-> Entry[i].fatal, status |-> "assessed",
     confidence |-> "high", cve |-> NoCVE, class |-> Unknown, mitigations |-> {},
     port |-> 0]

\* A finding; port is the one that Classify looks up, 0 when the finding names
\* none or its check has already set the class.
FindingRecord == [id : DOMAIN Entry, group : ToSet(GroupOrder), severity : Severities,
                  impact : Nat, fatal : BOOLEAN, status : {"assessed", "not_assessed"},
                  confidence : DOMAIN ConfidenceMultiplier, cve : CVEs \cup {NoCVE},
                  class : Classes, mitigations : SUBSET {"overlay", "firewall"},
                  port : Ports \cup {0}]

\* A check leaves the class to Classify, or has set it and names no port.
Unclassified ==
    {f \in FindingRecord : /\ f.mitigations = {}
                           /\ f.port # 0 => f.class = Unknown /\ ~AIMCP(f)}

ASSUME OthersAssumption == Others \subseteq Seq(Unclassified)

Pass(i) == [Finding(i) EXCEPT !.severity = "ok", !.fatal = FALSE]
notAssessed(i) == [Finding(i) EXCEPT !.status = "not_assessed"]

OrPass(i, fs) == IF fs = <<>> THEN <<Pass(i)>> ELSE fs

\* One finding a port; the loops over the map of ports take any order.
OnPorts(i, ports) ==
    {OrPass(i, [k \in DOMAIN q |-> [Finding(i) EXCEPT !.port = q[k]]]) :
        q \in SetToSeqs(ports)}

EXP001(s) ==
    IF ~s.probed THEN {<<>>}
    ELSE OnPorts("EXP001", (s.open \cap Sensitive) \ BuildIntended(s))

EXP002(s) ==
    IF ~s.probed THEN {<<>>}
    ELSE OnPorts("EXP002", {p \in s.open \ (BuildIntended(s) \cup Sensitive \cup Web) :
                                ~declaredPublic(s, p)})

\* The published port of a service that counts as its most exposed one, or 0.
mostExposedHostPort(v) ==
    LET Hs(ms) == {m.host : m \in ms} \ {0}
        all == Hs({m \in ToSet(v.ports) : m.all})
        any == Hs(ToSet(v.ports))
    IN IF all # {} THEN Max(all) ELSE IF any # {} THEN Max(any) ELSE 0

PercentileOf(c) == IF c \in DOMAIN Percentile THEN Percentile[c] ELSE 0
Likeliest(cs) ==
    CHOOSE c \in cs : \A d \in cs : PercentileOf(d) <= PercentileOf(c)

\* The elements of s at the places P, in the order that the relation before gives.
Rank(P, before, i) == Cardinality({j \in P : <<j, i>> \in before})
InOrder(s, P, before) ==
    [k \in 1..Cardinality(P) |-> s[CHOOSE i \in P : Rank(P, before, i) = k - 1]]

\* The services whose image has one of the CVEs of a set.
Affected(s, cs) ==
    LET P == {i \in DOMAIN s.services : s.services[i].cves \cap cs # {}}
    IN InOrder(s.services, P, {x \in P \X P : x[1] < x[2]})

SUP003(s) ==
    IF s.services = <<>> THEN <<notAssessed("SUP003")>>
    ELSE LET hit == Affected(s, KEV)
         IN OrPass("SUP003", [k \in DOMAIN hit |->
                [Finding("SUP003") EXCEPT !.cve  = Likeliest(hit[k].cves \cap KEV),
                                          !.port = mostExposedHostPort(hit[k])]])

Likely == {c \in CVEs \ KEV : PercentileOf(c) > 90}

SUP004(s) ==
    IF s.services = <<>> THEN <<notAssessed("SUP004")>>
    ELSE LET hit == Affected(s, Likely)
         IN OrPass("SUP004", [k \in DOMAIN hit |->
                [Finding("SUP004") EXCEPT !.cve = Likeliest(hit[k].cves \cap Likely),
                                          !.confidence = "medium"]])

\* Whether the configuration of the service was found, and has authentication on.
SVC010(s) ==
    CASE s.arr = "absent" -> <<notAssessed("SVC010")>>
      [] s.arr = "on"     -> <<Pass("SVC010")>>
      [] s.arr = "off"    -> <<[Finding("SVC010") EXCEPT !.port = s.arrPort]>>

RunChecks ==
    /\ stage = "checks" /\ stage' = "sort"
    /\ \E e1 \in EXP001(sctx), e2 \in EXP002(sctx), o \in Others :
          findings' = e1 \o e2 \o SUP003(sctx) \o SUP004(sctx) \o SVC010(sctx) \o o
    /\ UNCHANGED <<sctx, result>>

-----------------------------------------------------------------------------
(***************************************************************************)
(* Order, classification, score.                                           *)
(***************************************************************************)
CheckRank == [AGT001 |-> 1, EXP001 |-> 2, EXP002 |-> 3, EXP003 |-> 4,
              MCP004 |-> 5, SUP003 |-> 6, SUP004 |-> 7, SVC010 |-> 8]
SevRank == [critical |-> 0, warning |-> 1, info |-> 2, ok |-> 3]

\* A stable sort by severity, then check.
SortsBefore(f, g) ==
    \/ SevRank[f.severity] < SevRank[g.severity]
    \/ f.severity = g.severity /\ CheckRank[f.id] < CheckRank[g.id]

Sorted(fs) ==
    InOrder(fs, DOMAIN fs,
            {x \in (DOMAIN fs) \X (DOMAIN fs) :
                \/ SortsBefore(fs[x[1]], fs[x[2]])
                \/ ~SortsBefore(fs[x[2]], fs[x[1]]) /\ x[1] < x[2]})

SortFindings ==
    /\ stage = "sort" /\ stage' = "classify"
    /\ findings' = Sorted(findings)
    /\ UNCHANGED <<sctx, result>>

ClassifyFinding(f) ==
    IF f.severity = "ok" \/ AIMCP(f) \/ f.class # Unknown \/ f.port = 0 THEN f
    ELSE LET c == classifyOne(sctx, f.port)
         IN [f EXCEPT !.class = c.class, !.mitigations = c.mitigations]

Classify ==
    /\ stage = "classify" /\ stage' = "score"
    /\ findings' = [i \in DOMAIN findings |-> ClassifyFinding(findings[i])]
    /\ UNCHANGED <<sctx, result>>

ScoreFindings ==
    /\ stage = "score" /\ stage' = "done"
    /\ result' = ComputeV2(findings)
    /\ UNCHANGED <<sctx, findings>>

Next ==
    \/ Parse \/ ParseFails \/ Probe \/ CollectSignals \/ RunChecks
    \/ SortFindings \/ Classify \/ ScoreFindings

Spec == Init /\ [][Next]_vars

-----------------------------------------------------------------------------
(***************************************************************************)
(* What one more observation can add to the exposure of a host: a port     *)
(* found open, a firewall rule that allows or no longer drops, a default   *)
(* policy that no longer drops, one more socket, one more way to a         *)
(* container port that is published.  Three kinds are not among them, for  *)
(* each can lower a class:                                                 *)
(* - a socket that puts its port level with another that stands for the    *)
(*   same container port: of the two the first one then decides which      *)
(*   controls apply, in place of one that no firewall rule protects;       *)
(* - the first socket on a port, which replaces what the probe said (unless *)
(*   it is a public one) or, without a probe, that the stack declares the  *)
(*   port public;                                                          *)
(* - a mapping that publishes on all addresses a port which others publish *)
(*   on a narrower one, which again may draw level.                        *)
(***************************************************************************)
WithSocket(s, h, b) == [s EXCEPT !.sockets = @ \cup {<<h, b>>}]

DrawsLevel(s, h, b) ==
    /\ ClassAt(WithSocket(s, h, b), h) # ClassAt(s, h)
    /\ \E p \in Ports :
          /\ h \in Candidates(s, p)
          /\ \E g \in Candidates(s, p) \ {h} : ClassAt(s, g) = ClassAt(WithSocket(s, h, b), h)

Replaces(s, h, b) ==
    /\ BindsOf(s, h) = {}
    /\ IF s.probed THEN b # "public" ELSE declaredPublic(s, h)

MoreSockets(s) ==
    {WithSocket(s, x[1], x[2]) :
        x \in {y \in Ports \X Binds : /\ s.collected
                                      /\ ~DrawsLevel(s, y[1], y[2])
                                      /\ ~Replaces(s, y[1], y[2])}}

MoreExposed(s) ==
    {[s EXCEPT !.open = @ \cup {p}] : p \in IF s.probed THEN Ports ELSE {}}
    \cup {[s EXCEPT !.allow = @ \cup {p}] : p \in Ports}
    \cup {[s EXCEPT !.deny = @ \ {p}] : p \in s.deny}
    \cup {[s EXCEPT !.drop = FALSE]}
    \cup MoreSockets(s)
    \cup {[s EXCEPT !.services = Append(@, [cves |-> {}, ports |-> <<m>>])] :
             m \in {n \in PortMapping :
                       /\ hostPortsFor(s, n.container) # {}
                       /\ (n.all /\ ~declaredPublic(s, n.host)) =>
                             \A x \in Mappings(s) : mapping(s, x).host # n.host}}

\* Classify (classifyOne, applyControls): of two hosts that differ in one
\* observation, the more exposed one never gets the lower class.
NeverSafer ==
    stage = "checks" =>
        \A p \in Ports, s \in MoreExposed(sctx) :
            classifyOne(s, p).class >= classifyOne(sctx, p).class

\* The ports on which nothing is known to listen on a narrower address only.
FacesOut(h) == BindsOf(sctx, h) \in {{}, {"public"}}

\* computeCap at the end of the pipeline: a failed fatal check, or a KEV CVE, whose
\* port is open from outside on any host port that stands for it, makes the box RED.
ExposedFatalIsRed ==
    stage = "done" =>
        \A i \in DOMAIN findings :
            LET f == findings[i]
            IN (/\ Assessed(f) /\ IsFail(f) /\ f.confidence = "high" /\ f.port # 0
                /\ f.fatal \/ (f.cve \in KEV /\ f.severity = "critical")
                /\ \E h \in Candidates(sctx, f.port) : h \in sctx.open /\ FacesOut(h))
               => result.rating = "RED"

\* ComputeV2: the overall score is an average of its groups, so it is never below the
\* lowest sub-score, whatever the cap on info findings does to either.
NotBelowWorstGroup ==
    stage = "done" /\ DOMAIN result.subs # {} =>
        \E g \in DOMAIN result.subs : result.subs[g] <= result.numeric

\* ComputeV2: a cap is reported exactly when the rating is below the band of the score,
\* and it names a check that failed.
CapExplained ==
    stage = "done" =>
        /\ (result.cap = NoCap) = (result.rating = band(result.numeric))
        /\ result.cap # NoCap =>
              \E i \in DOMAIN findings : /\ findings[i].id = result.cap.id
                                         /\ Assessed(findings[i]) /\ IsFail(findings[i])

\* README.md: "a known-exploited, internet-reachable service ... caps the box RED".
\* An image with a KEV CVE is published on a port that the probe found open and
\* that listens on every address, so the box is RED.
KnownExploitedIsRed ==
    stage = "done" =>
        \A v \in ToSet(sctx.services), c \in KEV :
            (/\ c \in v.cves
             /\ \E m \in ToSet(v.ports) : m.all /\ m.host \in sctx.open /\ FacesOut(m.host))
            => result.rating = "RED"
=============================================================================
