------------------------------- MODULE Score --------------------------------
(***************************************************************************)
(* The posture score and the rating of a list of findings                  *)
(* (internal/score/v2.go, the multipliers of internal/model/finding.go).   *)
(*                                                                         *)
(* The code computes in float64; here impacts are halves of a point,       *)
(* exposures twentieths, confidences tenths and threats hundredths, and a  *)
(* sum is compared exactly.                                                *)
(***************************************************************************)
EXTENDS Exposure, Integers

CONSTANTS KEV,         \* CVEs that threatfeed.KEVListed knows
          Percentile   \* CVE |-> its EPSS percentile, 0..100

ASSUME FeedAssumption ==
    KEV \subseteq CVEs /\ DOMAIN Percentile \subseteq CVEs
    /\ \A c \in DOMAIN Percentile : Percentile[c] \in 0..100

NoCVE == "no CVE"

Severities == {"critical", "warning", "info", "ok"}
Grades == {"RED", "YELLOW", "GREEN"}

GroupOrder == <<"Exposure", "SupplyChain", "Service", "AIAgent", "MCP">>
AIMCP(f) == f.group \in {"AIAgent", "MCP"}

IsFail(f) == f.severity \in {"warning", "critical"}
Assessed(f) == f.status = "assessed"

ExposureMultiplier ==
    [c \in Classes |-> CASE c = Localhost -> 2  [] c = Overlay  -> 3
                         [] c = LAN       -> 7  [] c = Internet -> 20
                         [] OTHER         -> 10]
ConfidenceMultiplier == [high |-> 10, medium |-> 6, low |-> 3]

threat(f) ==
    IF f.cve \in DOMAIN Percentile \ KEV
    THEN 30 + (70 * Percentile[f.cve]) \div 100 ELSE 100

\* Points are counted in units of 1 / Unit.
Unit == 2 * 20 * 10 * 100
maxrisk(f) == f.impact * (Unit \div 2)
risk(f) == f.impact * (IF AIMCP(f) THEN 20 ELSE ExposureMultiplier[f.class])
                    * threat(f) * ConfidenceMultiplier[f.confidence]

infoCap == 5 * Unit

AtMost(n, bound) == IF n > bound THEN bound ELSE n

Total(ns, is) == SumFunctionOnSet(ns, is)

\* The score of the findings with indices in on.
computeNumeric(fs, on) ==
    LET ran   == {i \in on : Assessed(fs[i])}
        risks == [i \in DOMAIN fs |-> risk(fs[i])]
        M == Total([i \in DOMAIN fs |-> maxrisk(fs[i])], ran)
        R == Total(risks, {i \in ran : IsFail(fs[i])})
             + AtMost(Total(risks, {i \in ran : fs[i].severity = "info"}), infoCap)
    IN IF M = 0 THEN 100 ELSE (200 * (M - AtMost(R, M)) + M) \div (2 * M)

band(n) == IF n >= 85 THEN "GREEN" ELSE IF n >= 50 THEN "YELLOW" ELSE "RED"

GradeRank == [RED |-> 0, YELLOW |-> 1, GREEN |-> 2]
worst(a, b) == IF GradeRank[b] < GradeRank[a] THEN b ELSE a

-----------------------------------------------------------------------------
(***************************************************************************)
(* The caps.                                                               *)
(***************************************************************************)
applyKEVFatal(fs) ==
    [i \in DOMAIN fs |->
        IF fs[i].cve \in KEV /\ CanCapRed(fs[i].class) /\ fs[i].severity = "critical"
        THEN [fs[i] EXCEPT !.fatal = TRUE] ELSE fs[i]]

NetworkRed(f) ==
    f.fatal /\ IsFail(f) /\ f.confidence = "high" /\ CanCapRed(f.class)
AutonomyRed(f) ==
    f.fatal /\ IsFail(f) /\ f.confidence # "low" /\ AIMCP(f)
YellowCap(f) ==
    /\ f.confidence = "high" /\ f.severity = "critical"
    /\ f.class = Internet /\ f.mitigations = {}

NoCap == [id |-> "none", reason |-> "none", grade |-> "GREEN"]

\* The first of the findings with indices in on that has the highest risk.
Driver(fs, on) ==
    fs[CHOOSE i \in on : \A j \in on :
           risk(fs[j]) < risk(fs[i]) \/ (risk(fs[j]) = risk(fs[i]) /\ i <= j)]

computeCap(fs) ==
    LET ran      == {i \in DOMAIN fs : Assessed(fs[i])}
        network  == {i \in ran : NetworkRed(fs[i])}
        autonomy == {i \in ran : AutonomyRed(fs[i])}
        yellow   == {i \in ran : YellowCap(fs[i])}
        Cap(on, reason, grade) ==
            [id |-> Driver(fs, on).id, reason |-> reason, grade |-> grade]
        networkFirst ==
            /\ network # {}
            /\ autonomy # {} => risk(Driver(fs, network)) >= risk(Driver(fs, autonomy))
    IN CASE networkFirst -> Cap(network, "network", "RED")
         [] ~networkFirst /\ autonomy # {} -> Cap(autonomy, "autonomy", "RED")
         [] network \cup autonomy = {} /\ yellow # {} ->
                Cap(yellow, "unmitigated", "YELLOW")
         [] OTHER -> NoCap

\* One score for every group that has a finding.
computeSubScores_BoxOnly(fs) ==
    [g \in {f.group : f \in ToSet(fs)} \ {"AIAgent", "MCP"} |->
        computeNumeric(fs, {i \in DOMAIN fs : fs[i].group = g})]
computeSubScores(fs) ==
    [g \in {f.group : f \in ToSet(fs)} \cap ToSet(GroupOrder) |->
        computeNumeric(fs, {i \in DOMAIN fs : fs[i].group = g})]

ComputeV2_AlwaysDriver(findings) ==
    LET fs   == applyKEVFatal(findings)
        n    == computeNumeric(fs, DOMAIN fs)
        c    == computeCap(fs)
    IN [numeric |-> n, rating |-> worst(band(n), c.grade), subs |-> computeSubScores(fs),
        cap |-> c]
ComputeV2(findings) ==
    LET fs   == applyKEVFatal(findings)
        n    == computeNumeric(fs, DOMAIN fs)
        c    == computeCap(fs)
        rate == worst(band(n), c.grade)
    IN [numeric |-> n, rating |-> rate, subs |-> computeSubScores(fs),
        cap |-> IF GradeRank[rate] < GradeRank[band(n)] THEN c ELSE NoCap]
=============================================================================
