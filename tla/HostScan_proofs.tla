-------------------------- MODULE HostScan_proofs ---------------------------
(***************************************************************************)
(* Theorems about HostScan on any boxes, whatever is lost of them, not     *)
(* only on those of the runs. With a baseline, a scan that is let through  *)
(* hides no regression, and a scan of what the baseline was made of is     *)
(* never stopped by its findings. A scan without facts clears nothing and  *)
(* accuses nothing. They rest on what every one of the checks says, one    *)
(* step each: ciExit compares with the baseline by the keys of findings,   *)
(* so a check that could assess and decline at once could turn from a pass *)
(* into a critical failure unnoticed.                                      *)
(***************************************************************************)
EXTENDS HostScan, TLAPS

-----------------------------------------------------------------------------
(***************************************************************************)
(* What one check says. It either says that it was not assessed and        *)
(* nothing else, or it assessed the box: a pass, or failures, whose        *)
(* severity and confidence do not matter here.                             *)
(***************************************************************************)

\* f is a finding of the check i, or its pass.
AssessedBy(i, f) == f.id = i /\ f.status = "assessed"

\* What one check says: that it was not assessed, or what it assessed.
OneVoice(i, fs) == fs = {notAssessed(i)} \/ \A f \in fs : AssessedBy(i, f)

\* However a check fills its finding in, it is assessed.
LEMMA PassAssessed ==
    ASSUME NEW i
    PROVE  AssessedBy(i, Pass(i)) /\ AssessedBy(i, Finding(i))
BY DEF AssessedBy, Finding, Pass

LEMMA FailedAssessed == ASSUME NEW i, NEW r PROVE AssessedBy(i, Failed(i, r))
BY DEF AssessedBy, Finding, Failed

LEMMA FailedAtAssessed ==
    ASSUME NEW i, NEW r, NEW p
    PROVE  AssessedBy(i, FailedAt(i, r, p))
BY DEF AssessedBy, Finding, Failed, FailedAt

LEMMA FailedForAssessed ==
    ASSUME NEW i, NEW v, NEW r
    PROVE  AssessedBy(i, FailedFor(i, v, r))
BY DEF AssessedBy, Finding, Failed, FailedFor

LEMMA ConfidentAssessed ==
    ASSUME NEW i, NEW r, NEW c PROVE AssessedBy(i, Confident(Failed(i, r), c))
BY DEF AssessedBy, Finding, Failed, Confident

LEMMA ConfidentForAssessed ==
    ASSUME NEW i, NEW v, NEW r, NEW c
    PROVE  AssessedBy(i, Confident(FailedFor(i, v, r), c))
BY DEF AssessedBy, Finding, Failed, FailedFor, Confident

LEMMA CriticalAssessed ==
    ASSUME NEW i, NEW r, NEW bad PROVE AssessedBy(i, CriticalIf(Failed(i, r), bad))
BY DEF AssessedBy, Finding, Failed, CriticalIf

LEMMA CriticalForAssessed ==
    ASSUME NEW i, NEW v, NEW r, NEW bad
    PROVE  AssessedBy(i, CriticalIf(FailedFor(i, v, r), bad))
BY DEF AssessedBy, Finding, Failed, FailedFor, CriticalIf

LEMMA NotFatalAssessed ==
    ASSUME NEW i, NEW r, NEW c
    PROVE  AssessedBy(i, [Confident(Failed(i, r), c) EXCEPT !.fatal = FALSE])
BY DEF AssessedBy, Finding, Failed, Confident

\* The ways a check may speak.
LEMMA Nothing == ASSUME NEW i PROVE OneVoice(i, {})
BY DEF OneVoice

LEMMA Silent == ASSUME NEW i PROVE OneVoice(i, {notAssessed(i)})
BY DEF OneVoice

LEMMA Single == ASSUME NEW i, NEW f, AssessedBy(i, f) PROVE OneVoice(i, {f})
BY DEF OneVoice

LEMMA OrPassVoice ==
    ASSUME NEW i, NEW fs, \A f \in fs : AssessedBy(i, f)
    PROVE  OneVoice(i, OrPass(i, fs))
BY PassAssessed DEF OneVoice, OrPass

LEMMA OfServicesVoice ==
    ASSUME NEW i, NEW s, NEW fs, \A f \in fs : AssessedBy(i, f)
    PROVE  OneVoice(i, OfServices(i, s, fs))
BY OrPassVoice, Silent DEF OfServices

LEMMA UnlikedVoice ==
    ASSUME NEW i, NEW s, NEW vs
    PROVE  OneVoice(i, OfServices(i, s, Unliked(i, vs)))
<1>1. \A f \in Unliked(i, vs) : AssessedBy(i, f)
  BY FailedForAssessed, Zenon DEF Unliked
<1> QED BY <1>1, OfServicesVoice

\* The checks of the host and its firewall (package host), one step each.
LEMMA HostVoices ==
    ASSUME NEW sigs
    PROVE  /\ OneVoice("HST001", HST001(sigs))
           /\ OneVoice("HST002", HST002(sigs))
           /\ OneVoice("HST003", HST003(sigs))
           /\ OneVoice("HST004", HST004(sigs))
           /\ OneVoice("HST005", HST005(sigs))
           /\ OneVoice("HST010", HST010(sigs))
           /\ OneVoice("HST011", HST011(sigs))
           /\ OneVoice("HST012", HST012(sigs))
           /\ OneVoice("HST013", HST013(sigs))
           /\ OneVoice("HST020", HST020(sigs))
           /\ OneVoice("HST021", HST021(sigs))
           /\ OneVoice("HST022", HST022(sigs))
           /\ OneVoice("HST023", HST023(sigs))
           /\ OneVoice("HST030", HST030(sigs))
           /\ OneVoice("HST040", HST040(sigs))
           /\ OneVoice("HST041", HST041(sigs))
           /\ OneVoice("HRD009", HRD009(sigs))
           /\ OneVoice("HRD010", HRD010(sigs))
           /\ OneVoice("FW005", FW005(sigs))
           /\ OneVoice("FW006", FW006(sigs))
<1>1. OneVoice("HST001", HST001(sigs))
  BY Silent, Single, PassAssessed, FailedAssessed, SMT
     DEF HST001, OfHost, OfSSHD, Given, Judge
<1>2. OneVoice("HST002", HST002(sigs))
  BY Silent, Single, PassAssessed, FailedAssessed, SMT
     DEF HST002, OfHost, OfSSHD, Given, Judge
<1>3. OneVoice("HST003", HST003(sigs))
  BY Silent, Single, PassAssessed, FailedAssessed, NotFatalAssessed, Zenon
     DEF HST003, OfHost, OfSSHD, Given, Judge
<1>4. OneVoice("HST004", HST004(sigs))
  BY Silent, Single, PassAssessed, FailedAssessed, SMT
     DEF HST004, OfHost, OfSSHD, Given, Judge
<1>5. OneVoice("HST005", HST005(sigs))
  BY Silent, Single, PassAssessed, FailedAssessed, SMT
     DEF HST005, OfHost, OfSSHD, Given, Judge
<1>6. OneVoice("HST010", HST010(sigs))
  BY Silent, Single, PassAssessed, CriticalAssessed, SMT
     DEF HST010, OfHost, OfLinux, Judge
<1>7. OneVoice("HST011", HST011(sigs))
  BY Silent, Single, PassAssessed, FailedAssessed, Zenon DEF HST011, OfHost, Judge
<1>8. OneVoice("HST012", HST012(sigs))
  BY Silent, Single, PassAssessed, FailedAssessed, SMT DEF HST012, OfHost, Judge
<1>9. OneVoice("HST013", HST013(sigs))
  BY Silent, Single, PassAssessed, FailedAssessed, SMT
     DEF HST013, OfHost, OfLinux, Given, Judge
<1>10. OneVoice("HST020", HST020(sigs))
  BY Silent, Single, PassAssessed, FailedAssessed, SMT DEF HST020, OfHost, Given, Judge
<1>11. OneVoice("HST021", HST021(sigs))
  BY Silent, Single, PassAssessed, FailedAssessed, Zenon
     DEF HST021, OfHost, Given, Judge
<1>12. OneVoice("HST022", HST022(sigs))
  BY Silent, Single, PassAssessed, FailedAssessed, Zenon
     DEF HST022, OfHost, Given, Judge
<1>13. OneVoice("HST023", HST023(sigs))
  BY Silent, Single, PassAssessed, FailedAssessed, Zenon
     DEF HST023, OfHost, Given, Judge
<1>14. OneVoice("HST030", HST030(sigs))
  BY Silent, Single, PassAssessed, FailedAssessed, Zenon
     DEF HST030, OfHost, OfLinux, Judge
<1>15. OneVoice("HST040", HST040(sigs))
  BY Silent, Single, PassAssessed, FailedAssessed, SMT
     DEF HST040, OfHost, OfLinux, Given, Judge
<1>16. OneVoice("HST041", HST041(sigs))
  BY Silent, Single, PassAssessed, ConfidentAssessed, SMT DEF HST041, OfHost, Judge
<1>17. OneVoice("HRD009", HRD009(sigs))
  BY Silent, Single, PassAssessed, FailedAssessed, Zenon
     DEF HRD009, OfHost, OfLinux, Given, Judge
<1>18. OneVoice("HRD010", HRD010(sigs))
  BY Silent, OrPassVoice, FailedAssessed, SMT DEF HRD010, OfHost, OfLinux
<1>19. OneVoice("FW005", FW005(sigs))
  BY Silent, Single, PassAssessed, FailedAssessed, Zenon
     DEF FW005, OfHost, OfLinux, Judge
<1>20. OneVoice("FW006", FW006(sigs))
  BY Silent, Single, PassAssessed, FailedAssessed, Zenon
     DEF FW006, OfHost, OfLinux, Judge
<1> QED
  BY <1>1, <1>2, <1>3, <1>4, <1>5, <1>6, <1>7, <1>8, <1>9, <1>10, <1>11, <1>12,
     <1>13, <1>14, <1>15, <1>16, <1>17, <1>18, <1>19, <1>20

\* The checks of service configurations (package service).
LEMMA ServiceVoices ==
    ASSUME NEW sigs, NEW services
    PROVE  /\ OneVoice("SVC001", SVC001(sigs))
           /\ OneVoice("SVC002", SVC002(sigs))
           /\ OneVoice("SVC003", SVC003(sigs))
           /\ OneVoice("SVC004", SVC004(sigs))
           /\ OneVoice("SVC010", SVC010(sigs, services))
           /\ OneVoice("SVC011", SVC011(sigs))
           /\ OneVoice("SVC020", SVC020(sigs))
           /\ OneVoice("SVC021", SVC021(sigs))
           /\ OneVoice("SVC030", SVC030(sigs))
           /\ OneVoice("SVC031", SVC031(sigs))
           /\ OneVoice("SVC032", SVC032(sigs))
           /\ OneVoice("SVC040", SVC040(sigs))
           /\ OneVoice("SVC041", SVC041(sigs))
           /\ OneVoice("SVC050", SVC050(sigs))
           /\ OneVoice("SVC051", SVC051(sigs))
           /\ OneVoice("SVC052", SVC052(sigs))
           /\ OneVoice("SVC060", SVC060(sigs))
<1>1. OneVoice("SVC001", SVC001(sigs))
  BY Silent, Single, PassAssessed, FailedAtAssessed, SMT DEF SVC001, ByConfig, Judge
<1>2. OneVoice("SVC002", SVC002(sigs))
  BY Silent, Single, PassAssessed, FailedAtAssessed, SMT DEF SVC002, ByConfig, Judge
<1>3. OneVoice("SVC003", SVC003(sigs))
  BY Silent, Single, PassAssessed, FailedAtAssessed, SMT DEF SVC003, ByConfig, Judge
<1>4. OneVoice("SVC004", SVC004(sigs))
  BY Silent, Single, PassAssessed, FailedAtAssessed, SMT DEF SVC004, ByConfig, Judge
<1>5. OneVoice("SVC010", SVC010(sigs, services))
  BY Silent, Single, PassAssessed, FailedAtAssessed, Zenon DEF SVC010, ByConfig, Judge
<1>6. OneVoice("SVC011", SVC011(sigs))
  BY Silent, Single, PassAssessed, FailedAtAssessed, SMT DEF SVC011, ByConfig, Judge
<1>7. OneVoice("SVC020", SVC020(sigs))
  BY Silent, Single, PassAssessed, FailedAtAssessed, SMT DEF SVC020, ByConfig, Judge
<1>8. OneVoice("SVC021", SVC021(sigs))
  BY Silent, SMT DEF SVC021
<1>9. OneVoice("SVC030", SVC030(sigs))
  BY Silent, Single, PassAssessed, FailedAtAssessed, Zenon DEF SVC030, ByConfig, Judge
<1>10. OneVoice("SVC031", SVC031(sigs))
  BY Silent, Single, PassAssessed, FailedAtAssessed, SMT DEF SVC031, ByConfig, Judge
<1>11. OneVoice("SVC032", SVC032(sigs))
  BY Silent, Single, PassAssessed, FailedAtAssessed, SMT DEF SVC032, ByConfig, Judge
<1>12. OneVoice("SVC040", SVC040(sigs))
  BY Silent, Single, PassAssessed, FailedAtAssessed, SMT DEF SVC040, ByConfig, Judge
<1>13. OneVoice("SVC041", SVC041(sigs))
  BY Silent, Single, PassAssessed, FailedAtAssessed, SMT DEF SVC041, ByConfig, Judge
<1>14. OneVoice("SVC050", SVC050(sigs))
  BY Silent, Single, PassAssessed, FailedAtAssessed, SMT DEF SVC050, ByConfig, Judge
<1>15. OneVoice("SVC051", SVC051(sigs))
  BY Silent, Single, PassAssessed, FailedAtAssessed, SMT DEF SVC051, ByConfig, Judge
<1>16. OneVoice("SVC052", SVC052(sigs))
  BY Silent, Single, PassAssessed, FailedAtAssessed, SMT DEF SVC052, ByConfig, Judge
<1>17. OneVoice("SVC060", SVC060(sigs))
  BY Silent, Single, PassAssessed, FailedAtAssessed, SMT DEF SVC060, ByConfig, Judge
<1> QED
  BY <1>1, <1>2, <1>3, <1>4, <1>5, <1>6, <1>7, <1>8, <1>9, <1>10, <1>11, <1>12,
     <1>13, <1>14, <1>15, <1>16, <1>17

\* The checks of agents and of MCP servers (packages agent and mcp).
LEMMA AgentVoices ==
    ASSUME NEW sigs
    PROVE  /\ OneVoice("AGT001", AGT001(sigs))
           /\ OneVoice("AGT002", AGT002(sigs))
           /\ OneVoice("AGT003", AGT003(sigs))
           /\ OneVoice("AGT004", AGT004(sigs))
           /\ OneVoice("AGT005", AGT005(sigs))
           /\ OneVoice("AGT006", AGT006(sigs))
           /\ OneVoice("AGT007", AGT007(sigs))
           /\ OneVoice("AGT008", AGT008(sigs))
           /\ OneVoice("AGT009", AGT009(sigs))
           /\ OneVoice("AGT010", AGT010(sigs))
           /\ OneVoice("MCP001", MCP001(sigs))
           /\ OneVoice("MCP002", MCP002(sigs))
           /\ OneVoice("MCP003", MCP003(sigs))
           /\ OneVoice("MCP004", MCP004(sigs))
           /\ OneVoice("MCP005", MCP005(sigs))
           /\ OneVoice("MCP006", MCP006(sigs))
           /\ OneVoice("MCP007", MCP007(sigs))
           /\ OneVoice("MCP008", MCP008(sigs))
           /\ OneVoice("MCP009", MCP009(sigs))
<1>1. OneVoice("AGT001", AGT001(sigs))
  BY Silent, Single, PassAssessed, ConfidentAssessed, Zenon DEF AGT001, Judge, OfAgent
<1>2. OneVoice("AGT002", AGT002(sigs))
  BY Silent, Single, PassAssessed, ConfidentAssessed, Zenon DEF AGT002, Judge, OfAgent
<1>3. OneVoice("AGT003", AGT003(sigs))
  BY Silent, OrPassVoice, CriticalAssessed, SMT DEF AGT003, OfAgent
<1>4. OneVoice("AGT004", AGT004(sigs))
  BY Silent, OrPassVoice, ConfidentAssessed, SMT DEF AGT004, OfAgent, OfFiles
<1>5. OneVoice("AGT005", AGT005(sigs))
  BY Silent, OrPassVoice, ConfidentAssessed, SMT DEF AGT005, OfAgent, OfFiles
<1>6. OneVoice("AGT006", AGT006(sigs))
  BY Silent, OrPassVoice, FailedAtAssessed, SMT DEF AGT006, OfAgent
<1>7. OneVoice("AGT007", AGT007(sigs))
  BY Silent, Single, PassAssessed, ConfidentAssessed, Zenon DEF AGT007, Judge, OfAgent
<1>8. OneVoice("AGT008", AGT008(sigs))
  BY Silent, Single, PassAssessed, FailedAssessed, Zenon DEF AGT008, Judge, OfAgent
<1>9. OneVoice("AGT009", AGT009(sigs))
  BY Silent, Single, PassAssessed, FailedAssessed, Zenon DEF AGT009, Judge, OfAgent
<1>10. OneVoice("AGT010", AGT010(sigs))
  BY Silent, OrPassVoice, ConfidentAssessed, SMT DEF AGT010, OfAgent
<1>11. OneVoice("MCP001", MCP001(sigs))
  BY Silent, OrPassVoice, ConfidentForAssessed, SMT
     DEF MCP001, OfMCPConfigs, ServersThat
<1>12. OneVoice("MCP002", MCP002(sigs))
  BY Silent, OrPassVoice, FailedAssessed, SMT DEF MCP002, OfMCPConfigs
<1>13. OneVoice("MCP003", MCP003(sigs))
  BY Silent, OrPassVoice, ConfidentForAssessed, SMT
     DEF MCP003, OfMCPConfigs, ServersThat
<1>14. OneVoice("MCP004", MCP004(sigs))
  BY Silent, OrPassVoice, FailedAtAssessed, SMT DEF MCP004
<1>15. OneVoice("MCP005", MCP005(sigs))
  BY Silent, OrPassVoice, ConfidentForAssessed, SMT
     DEF MCP005, OfMCPConfigs, ServersThat
<1>16. OneVoice("MCP006", MCP006(sigs))
  BY Silent, OrPassVoice, ConfidentForAssessed, SMT
     DEF MCP006, OfMCPConfigs, ServersThat
<1>17. OneVoice("MCP007", MCP007(sigs))
  BY Silent, SMT DEF MCP007
<1>18. OneVoice("MCP008", MCP008(sigs))
  BY Silent, OrPassVoice, FailedAssessed, SMT DEF MCP008, OfMCPConfigs
<1>19. OneVoice("MCP009", MCP009(sigs))
  BY Silent, OrPassVoice, ConfidentAssessed, SMT DEF MCP009
<1> QED
  BY <1>1, <1>2, <1>3, <1>4, <1>5, <1>6, <1>7, <1>8, <1>9, <1>10, <1>11, <1>12,
     <1>13, <1>14, <1>15, <1>16, <1>17, <1>18, <1>19

\* The checks of containers and of what the probe saw.
LEMMA StackVoices ==
    ASSUME NEW s, NEW probe, NEW intended
    PROVE  /\ OneVoice("FW001", FW001(s))
           /\ OneVoice("FW002", FW002(s, intended))
           /\ OneVoice("FW003", FW003(s))
           /\ OneVoice("FW004", FW004(s))
           /\ OneVoice("EXP003", EXP003(s, probe))
           /\ OneVoice("HRD001", HRD001(s))
           /\ OneVoice("HRD002", HRD002(s))
           /\ OneVoice("HRD003", HRD003(s))
           /\ OneVoice("HRD004", HRD004(s))
           /\ OneVoice("HRD005", HRD005(s))
           /\ OneVoice("HRD006", HRD006(s))
           /\ OneVoice("HRD007", HRD007(s))
           /\ OneVoice("HRD008", HRD008(s))
           /\ OneVoice("SEC001", SEC001(s))
           /\ OneVoice("SEC002", SEC002(s))
           /\ OneVoice("SEC003", SEC003(s))
           /\ OneVoice("SEC004", SEC004(s))
           /\ OneVoice("AUTH001", AUTH001(s))
           /\ OneVoice("AUTH002", AUTH002(s))
           /\ OneVoice("SUP001", SUP001(s))
           /\ OneVoice("SUP002", SUP002(s, {}))
           /\ OneVoice("PRX001", PRX001(s))
           /\ OneVoice("PRX002", PRX002(s))
           /\ OneVoice("PRX003", PRX003(s))
           /\ OneVoice("PRX004", PRX004(s))
           /\ OneVoice("PRX005", PRX005(s))
           /\ OneVoice("PRX006", PRX006(s))
           /\ OneVoice("TLS001", TLS001(probe))
           /\ OneVoice("TLS002", TLS002(probe))
           /\ OneVoice("TLS003", TLS003(probe))
           /\ OneVoice("TLS004", TLS004(probe))
           /\ OneVoice("DNS001", DNS001(probe))
           /\ OneVoice("DNS002", DNS002(probe))
<1>1. OneVoice("FW001", FW001(s))
  BY Nothing, OrPassVoice, FailedForAssessed, SMT DEF FW001
<1>2. OneVoice("FW002", FW002(s, intended))
  BY OfServicesVoice, FailedForAssessed, SMT DEF FW002
<1>3. OneVoice("FW003", FW003(s))
  BY UnlikedVoice, SMT DEF FW003
<1>4. OneVoice("FW004", FW004(s))
  BY Nothing, Single, PassAssessed, SMT DEF FW004, Judge
<1>5. OneVoice("EXP003", EXP003(s, probe))
  BY Nothing, OrPassVoice, FailedForAssessed, SMT DEF EXP003
<1>6. OneVoice("HRD001", HRD001(s))
  BY UnlikedVoice, SMT DEF HRD001
<1>7. OneVoice("HRD002", HRD002(s))
  BY OfServicesVoice, CriticalForAssessed, SMT DEF HRD002
<1>8. OneVoice("HRD003", HRD003(s))
  BY UnlikedVoice, SMT DEF HRD003
<1>9. OneVoice("HRD004", HRD004(s))
  BY UnlikedVoice, SMT DEF HRD004
<1>10. OneVoice("HRD005", HRD005(s))
  BY UnlikedVoice, SMT DEF HRD005
<1>11. OneVoice("HRD006", HRD006(s))
  BY UnlikedVoice, SMT DEF HRD006
<1>12. OneVoice("HRD007", HRD007(s))
  BY UnlikedVoice, SMT DEF HRD007
<1>13. OneVoice("HRD008", HRD008(s))
  BY UnlikedVoice, Zenon DEF HRD008
<1>14. OneVoice("SEC001", SEC001(s))
  BY OfServicesVoice, FailedForAssessed, SMT DEF SEC001
<1>15. OneVoice("SEC002", SEC002(s))
  BY Nothing, Single, PassAssessed, SMT DEF SEC002, Judge
<1>16. OneVoice("SEC003", SEC003(s))
  BY OfServicesVoice, FailedForAssessed, SMT DEF SEC003
<1>17. OneVoice("SEC004", SEC004(s))
  BY UnlikedVoice, SMT DEF SEC004
<1>18. OneVoice("AUTH001", AUTH001(s))
  BY UnlikedVoice, SMT DEF AUTH001
<1>19. OneVoice("AUTH002", AUTH002(s))
  BY UnlikedVoice, SMT DEF AUTH002
<1>20. OneVoice("SUP001", SUP001(s))
  BY UnlikedVoice, Zenon DEF SUP001
<1>21. OneVoice("SUP002", SUP002(s, {}))
  BY UnlikedVoice, SMT DEF SUP002
<1>22. OneVoice("PRX001", PRX001(s))
  BY Nothing, OrPassVoice, FailedForAssessed, SMT DEF PRX001, OfProxy, OfRoutes
<1>23. OneVoice("PRX002", PRX002(s))
  BY Nothing, OrPassVoice, FailedForAssessed, SMT DEF PRX002, OfProxy, OfRoutes
<1>24. OneVoice("PRX003", PRX003(s))
  BY Nothing, Single, PassAssessed, SMT DEF PRX003, Judge, OfProxy
<1>25. OneVoice("PRX004", PRX004(s))
  BY Nothing, OrPassVoice, FailedForAssessed, SMT DEF PRX004, OfProxy, OfRoutes
<1>26. OneVoice("PRX005", PRX005(s))
  BY Nothing, OrPassVoice, FailedForAssessed, SMT DEF PRX005, OfProxy, OfRoutes
<1>27. OneVoice("PRX006", PRX006(s))
  BY Nothing, Single, PassAssessed, SMT DEF PRX006, Judge, OfProxy
<1>28. OneVoice("TLS001", TLS001(probe))
  BY Nothing, Single, PassAssessed, SMT DEF TLS001, Judge
<1>29. OneVoice("TLS002", TLS002(probe))
  BY Nothing, OrPassVoice, FailedAssessed, SMT DEF TLS002, OfCertificates
<1>30. OneVoice("TLS003", TLS003(probe))
  BY Nothing, OrPassVoice, FailedAssessed, SMT DEF TLS003, OfCertificates
<1>31. OneVoice("TLS004", TLS004(probe))
  BY Nothing, OrPassVoice, FailedAssessed, Zenon DEF TLS004, OfCertificates
<1>32. OneVoice("DNS001", DNS001(probe))
  BY Nothing, OrPassVoice, FailedAssessed, SMT DEF DNS001
<1>33. OneVoice("DNS002", DNS002(probe))
  BY Nothing, OrPassVoice, FailedAssessed, SMT DEF DNS002
<1> QED
  BY <1>1, <1>2, <1>3, <1>4, <1>5, <1>6, <1>7, <1>8, <1>9, <1>10, <1>11, <1>12,
     <1>13, <1>14, <1>15, <1>16, <1>17, <1>18, <1>19, <1>20, <1>21, <1>22, <1>23,
     <1>24, <1>25, <1>26, <1>27, <1>28, <1>29, <1>30, <1>31, <1>32, <1>33

-----------------------------------------------------------------------------
(***************************************************************************)
(* No two findings of one check disagree on whether it was assessed, when  *)
(* all checks of a scan have run.                                          *)
(***************************************************************************)
Unanimous(fs) ==
    \A f, g \in fs : f.id = g.id /\ f.status = "assessed" => g.status = "assessed"

\* The same, of findings of the checks I only.
UnanimousOn(I, fs) == (\A f \in fs : f.id \in I) /\ Unanimous(fs)

\* A check that speaks with one voice is unanimous, and findings of different
\* checks do not meet.
LEMMA OneVoiceUnanimous ==
    ASSUME NEW i, NEW fs, OneVoice(i, fs)
    PROVE  (\A f \in fs : f.id = i) /\ Unanimous(fs)
<1>1. notAssessed(i).id = i /\ notAssessed(i).status = "not_assessed"
  BY DEF notAssessed, Finding
<1> QED BY <1>1 DEF OneVoice, AssessedBy, Unanimous

LEMMA UnanimousUnion ==
    ASSUME NEW I, NEW J, NEW fs, NEW gs,
           I \cap J = {}, UnanimousOn(I, fs), UnanimousOn(J, gs)
    PROVE  UnanimousOn(I \cup J, fs \cup gs)
BY DEF UnanimousOn, Unanimous

\* The checks behind each union of findings.
HostIds ==
    {"HST001", "HST002", "HST003", "HST004", "HST005", "HST010", "HST011", "HST012",
     "HST013", "HST020", "HST021", "HST022", "HST023", "HST030", "HST040", "HST041",
     "HRD009", "HRD010", "FW005", "FW006"}
ServiceIds ==
    {"SVC001", "SVC002", "SVC003", "SVC004", "SVC010", "SVC011", "SVC020", "SVC021",
     "SVC030", "SVC031", "SVC032", "SVC040", "SVC041", "SVC050", "SVC051", "SVC052",
     "SVC060"}
AgentIds ==
    {"AGT001", "AGT002", "AGT003", "AGT004", "AGT005", "AGT006", "AGT007", "AGT008",
     "AGT009", "AGT010", "MCP001", "MCP002", "MCP003", "MCP004", "MCP005", "MCP006",
     "MCP007", "MCP008", "MCP009"}
StackIds ==
    {"FW001", "FW002", "FW003", "FW004", "EXP003", "HRD001", "HRD002", "HRD003", "HRD004",
     "HRD005", "HRD006", "HRD007", "HRD008", "SEC001", "SEC002", "SEC003", "SEC004",
     "AUTH001", "AUTH002", "SUP001", "SUP002", "PRX001", "PRX002", "PRX003", "PRX004",
     "PRX005", "PRX006", "TLS001", "TLS002", "TLS003", "TLS004", "DNS001", "DNS002"}

\* The checks of one package together.
LEMMA HostUnanimous ==
    ASSUME NEW sigs
    PROVE  UnanimousOn(HostIds, HostFindings(sigs))
<1>1. /\ (\A f \in HST001(sigs) : f.id = "HST001") /\ Unanimous(HST001(sigs))
      /\ (\A f \in HST002(sigs) : f.id = "HST002") /\ Unanimous(HST002(sigs))
      /\ (\A f \in HST003(sigs) : f.id = "HST003") /\ Unanimous(HST003(sigs))
      /\ (\A f \in HST004(sigs) : f.id = "HST004") /\ Unanimous(HST004(sigs))
      /\ (\A f \in HST005(sigs) : f.id = "HST005") /\ Unanimous(HST005(sigs))
      /\ (\A f \in HST010(sigs) : f.id = "HST010") /\ Unanimous(HST010(sigs))
      /\ (\A f \in HST011(sigs) : f.id = "HST011") /\ Unanimous(HST011(sigs))
      /\ (\A f \in HST012(sigs) : f.id = "HST012") /\ Unanimous(HST012(sigs))
      /\ (\A f \in HST013(sigs) : f.id = "HST013") /\ Unanimous(HST013(sigs))
      /\ (\A f \in HST020(sigs) : f.id = "HST020") /\ Unanimous(HST020(sigs))
      /\ (\A f \in HST021(sigs) : f.id = "HST021") /\ Unanimous(HST021(sigs))
      /\ (\A f \in HST022(sigs) : f.id = "HST022") /\ Unanimous(HST022(sigs))
      /\ (\A f \in HST023(sigs) : f.id = "HST023") /\ Unanimous(HST023(sigs))
      /\ (\A f \in HST030(sigs) : f.id = "HST030") /\ Unanimous(HST030(sigs))
      /\ (\A f \in HST040(sigs) : f.id = "HST040") /\ Unanimous(HST040(sigs))
      /\ (\A f \in HST041(sigs) : f.id = "HST041") /\ Unanimous(HST041(sigs))
      /\ (\A f \in HRD009(sigs) : f.id = "HRD009") /\ Unanimous(HRD009(sigs))
      /\ (\A f \in HRD010(sigs) : f.id = "HRD010") /\ Unanimous(HRD010(sigs))
      /\ (\A f \in FW005(sigs) : f.id = "FW005") /\ Unanimous(FW005(sigs))
      /\ (\A f \in FW006(sigs) : f.id = "FW006") /\ Unanimous(FW006(sigs))
  BY HostVoices, OneVoiceUnanimous
<1>2. ASSUME NEW f \in HostFindings(sigs) PROVE f.id \in HostIds
  BY <1>1 DEF HostFindings, HostIds
<1>3. ASSUME NEW f \in HostFindings(sigs),
             NEW g \in HostFindings(sigs),
             f.id = g.id, f.status = "assessed"
      PROVE  g.status = "assessed"
  BY <1>1, <1>3 DEF HostFindings, Unanimous
<1> QED BY <1>2, <1>3 DEF UnanimousOn, Unanimous

LEMMA ServiceUnanimous ==
    ASSUME NEW sigs, NEW services
    PROVE  UnanimousOn(ServiceIds, ServiceFindings(sigs, services))
<1>1. /\ (\A f \in SVC001(sigs) : f.id = "SVC001") /\ Unanimous(SVC001(sigs))
      /\ (\A f \in SVC002(sigs) : f.id = "SVC002") /\ Unanimous(SVC002(sigs))
      /\ (\A f \in SVC003(sigs) : f.id = "SVC003") /\ Unanimous(SVC003(sigs))
      /\ (\A f \in SVC004(sigs) : f.id = "SVC004") /\ Unanimous(SVC004(sigs))
      /\ (\A f \in SVC010(sigs, services) : f.id = "SVC010")
      /\ Unanimous(SVC010(sigs, services))
      /\ (\A f \in SVC011(sigs) : f.id = "SVC011") /\ Unanimous(SVC011(sigs))
      /\ (\A f \in SVC020(sigs) : f.id = "SVC020") /\ Unanimous(SVC020(sigs))
      /\ (\A f \in SVC021(sigs) : f.id = "SVC021") /\ Unanimous(SVC021(sigs))
      /\ (\A f \in SVC030(sigs) : f.id = "SVC030") /\ Unanimous(SVC030(sigs))
      /\ (\A f \in SVC031(sigs) : f.id = "SVC031") /\ Unanimous(SVC031(sigs))
      /\ (\A f \in SVC032(sigs) : f.id = "SVC032") /\ Unanimous(SVC032(sigs))
      /\ (\A f \in SVC040(sigs) : f.id = "SVC040") /\ Unanimous(SVC040(sigs))
      /\ (\A f \in SVC041(sigs) : f.id = "SVC041") /\ Unanimous(SVC041(sigs))
      /\ (\A f \in SVC050(sigs) : f.id = "SVC050") /\ Unanimous(SVC050(sigs))
      /\ (\A f \in SVC051(sigs) : f.id = "SVC051") /\ Unanimous(SVC051(sigs))
      /\ (\A f \in SVC052(sigs) : f.id = "SVC052") /\ Unanimous(SVC052(sigs))
      /\ (\A f \in SVC060(sigs) : f.id = "SVC060") /\ Unanimous(SVC060(sigs))
  BY ServiceVoices, OneVoiceUnanimous
<1>2. ASSUME NEW f \in ServiceFindings(sigs, services) PROVE f.id \in ServiceIds
  BY <1>1 DEF ServiceFindings, ServiceIds
<1>3. ASSUME NEW f \in ServiceFindings(sigs, services),
             NEW g \in ServiceFindings(sigs, services),
             f.id = g.id, f.status = "assessed"
      PROVE  g.status = "assessed"
  BY <1>1, <1>3 DEF ServiceFindings, Unanimous
<1> QED BY <1>2, <1>3 DEF UnanimousOn, Unanimous

LEMMA AgentUnanimous ==
    ASSUME NEW sigs
    PROVE  UnanimousOn(AgentIds, AgentFindings(sigs))
<1>1. /\ (\A f \in AGT001(sigs) : f.id = "AGT001") /\ Unanimous(AGT001(sigs))
      /\ (\A f \in AGT002(sigs) : f.id = "AGT002") /\ Unanimous(AGT002(sigs))
      /\ (\A f \in AGT003(sigs) : f.id = "AGT003") /\ Unanimous(AGT003(sigs))
      /\ (\A f \in AGT004(sigs) : f.id = "AGT004") /\ Unanimous(AGT004(sigs))
      /\ (\A f \in AGT005(sigs) : f.id = "AGT005") /\ Unanimous(AGT005(sigs))
      /\ (\A f \in AGT006(sigs) : f.id = "AGT006") /\ Unanimous(AGT006(sigs))
      /\ (\A f \in AGT007(sigs) : f.id = "AGT007") /\ Unanimous(AGT007(sigs))
      /\ (\A f \in AGT008(sigs) : f.id = "AGT008") /\ Unanimous(AGT008(sigs))
      /\ (\A f \in AGT009(sigs) : f.id = "AGT009") /\ Unanimous(AGT009(sigs))
      /\ (\A f \in AGT010(sigs) : f.id = "AGT010") /\ Unanimous(AGT010(sigs))
      /\ (\A f \in MCP001(sigs) : f.id = "MCP001") /\ Unanimous(MCP001(sigs))
      /\ (\A f \in MCP002(sigs) : f.id = "MCP002") /\ Unanimous(MCP002(sigs))
      /\ (\A f \in MCP003(sigs) : f.id = "MCP003") /\ Unanimous(MCP003(sigs))
      /\ (\A f \in MCP004(sigs) : f.id = "MCP004") /\ Unanimous(MCP004(sigs))
      /\ (\A f \in MCP005(sigs) : f.id = "MCP005") /\ Unanimous(MCP005(sigs))
      /\ (\A f \in MCP006(sigs) : f.id = "MCP006") /\ Unanimous(MCP006(sigs))
      /\ (\A f \in MCP007(sigs) : f.id = "MCP007") /\ Unanimous(MCP007(sigs))
      /\ (\A f \in MCP008(sigs) : f.id = "MCP008") /\ Unanimous(MCP008(sigs))
      /\ (\A f \in MCP009(sigs) : f.id = "MCP009") /\ Unanimous(MCP009(sigs))
  BY AgentVoices, OneVoiceUnanimous
<1>2. ASSUME NEW f \in AgentFindings(sigs) PROVE f.id \in AgentIds
  BY <1>1 DEF AgentFindings, AgentIds
<1>3. ASSUME NEW f \in AgentFindings(sigs),
             NEW g \in AgentFindings(sigs),
             f.id = g.id, f.status = "assessed"
      PROVE  g.status = "assessed"
  BY <1>1, <1>3 DEF AgentFindings, Unanimous
<1> QED BY <1>2, <1>3 DEF UnanimousOn, Unanimous

LEMMA StackUnanimous ==
    ASSUME NEW s, NEW probe, NEW intended
    PROVE  UnanimousOn(StackIds, StackFindings(s, probe, intended))
<1>1. /\ (\A f \in FW001(s) : f.id = "FW001") /\ Unanimous(FW001(s))
      /\ (\A f \in FW002(s, intended) : f.id = "FW002") /\ Unanimous(FW002(s, intended))
      /\ (\A f \in FW003(s) : f.id = "FW003") /\ Unanimous(FW003(s))
      /\ (\A f \in FW004(s) : f.id = "FW004") /\ Unanimous(FW004(s))
      /\ (\A f \in EXP003(s, probe) : f.id = "EXP003") /\ Unanimous(EXP003(s, probe))
      /\ (\A f \in HRD001(s) : f.id = "HRD001") /\ Unanimous(HRD001(s))
      /\ (\A f \in HRD002(s) : f.id = "HRD002") /\ Unanimous(HRD002(s))
      /\ (\A f \in HRD003(s) : f.id = "HRD003") /\ Unanimous(HRD003(s))
      /\ (\A f \in HRD004(s) : f.id = "HRD004") /\ Unanimous(HRD004(s))
      /\ (\A f \in HRD005(s) : f.id = "HRD005") /\ Unanimous(HRD005(s))
      /\ (\A f \in HRD006(s) : f.id = "HRD006") /\ Unanimous(HRD006(s))
      /\ (\A f \in HRD007(s) : f.id = "HRD007") /\ Unanimous(HRD007(s))
      /\ (\A f \in HRD008(s) : f.id = "HRD008") /\ Unanimous(HRD008(s))
      /\ (\A f \in SEC001(s) : f.id = "SEC001") /\ Unanimous(SEC001(s))
      /\ (\A f \in SEC002(s) : f.id = "SEC002") /\ Unanimous(SEC002(s))
      /\ (\A f \in SEC003(s) : f.id = "SEC003") /\ Unanimous(SEC003(s))
      /\ (\A f \in SEC004(s) : f.id = "SEC004") /\ Unanimous(SEC004(s))
      /\ (\A f \in AUTH001(s) : f.id = "AUTH001") /\ Unanimous(AUTH001(s))
      /\ (\A f \in AUTH002(s) : f.id = "AUTH002") /\ Unanimous(AUTH002(s))
      /\ (\A f \in SUP001(s) : f.id = "SUP001") /\ Unanimous(SUP001(s))
      /\ (\A f \in SUP002(s, {}) : f.id = "SUP002") /\ Unanimous(SUP002(s, {}))
      /\ (\A f \in PRX001(s) : f.id = "PRX001") /\ Unanimous(PRX001(s))
      /\ (\A f \in PRX002(s) : f.id = "PRX002") /\ Unanimous(PRX002(s))
      /\ (\A f \in PRX003(s) : f.id = "PRX003") /\ Unanimous(PRX003(s))
      /\ (\A f \in PRX004(s) : f.id = "PRX004") /\ Unanimous(PRX004(s))
      /\ (\A f \in PRX005(s) : f.id = "PRX005") /\ Unanimous(PRX005(s))
      /\ (\A f \in PRX006(s) : f.id = "PRX006") /\ Unanimous(PRX006(s))
      /\ (\A f \in TLS001(probe) : f.id = "TLS001") /\ Unanimous(TLS001(probe))
      /\ (\A f \in TLS002(probe) : f.id = "TLS002") /\ Unanimous(TLS002(probe))
      /\ (\A f \in TLS003(probe) : f.id = "TLS003") /\ Unanimous(TLS003(probe))
      /\ (\A f \in TLS004(probe) : f.id = "TLS004") /\ Unanimous(TLS004(probe))
      /\ (\A f \in DNS001(probe) : f.id = "DNS001") /\ Unanimous(DNS001(probe))
      /\ (\A f \in DNS002(probe) : f.id = "DNS002") /\ Unanimous(DNS002(probe))
  BY StackVoices, OneVoiceUnanimous
<1>2. ASSUME NEW f \in StackFindings(s, probe, intended) PROVE f.id \in StackIds
  BY <1>1 DEF StackFindings, StackIds
<1>3. ASSUME NEW f \in StackFindings(s, probe, intended),
             NEW g \in StackFindings(s, probe, intended),
             f.id = g.id, f.status = "assessed"
      PROVE  g.status = "assessed"
  BY <1>1, <1>3 DEF StackFindings, Unanimous
<1> QED BY <1>2, <1>3 DEF UnanimousOn, Unanimous

\* The packages together are what a scan runs (checks.RunAll).
LEMMA RunAllUnanimous ==
    ASSUME NEW b \in DOMAIN Boxes, NEW v \in Views
    PROVE  Unanimous(RunAll(b, v))
<1> DEFINE sigs == SignalsOf(v)
           services == Boxes[v.box].services
<1>1. UnanimousOn(HostIds \cup ServiceIds,
                  HostFindings(sigs) \cup ServiceFindings(sigs, services))
  <2>1. HostIds \cap ServiceIds = {}
    BY DEF HostIds, ServiceIds
  <2> QED BY <2>1, HostUnanimous, ServiceUnanimous, UnanimousUnion
<1>2. UnanimousOn((HostIds \cup ServiceIds) \cup AgentIds, FindingsOn(sigs, services))
  <2>1. (HostIds \cup ServiceIds) \cap AgentIds = {}
    BY DEF HostIds, ServiceIds, AgentIds
  <2> QED BY <1>1, <2>1, AgentUnanimous, UnanimousUnion DEF FindingsOn
<1>3. UnanimousOn(((HostIds \cup ServiceIds) \cup AgentIds) \cup StackIds,
                  FindingsOn(sigs, services) \cup StackFindingsOf[b])
  <2>1. ((HostIds \cup ServiceIds) \cup AgentIds) \cap StackIds = {}
    BY DEF HostIds, ServiceIds, AgentIds, StackIds
  <2>2. StackFindingsOf[b] = StackFindings(Boxes[b], Boxes[b].probe, Boxes[b].intended)
    BY DEF StackFindingsOf
  <2> QED BY <1>2, <2>1, <2>2, StackUnanimous, UnanimousUnion
<1>4. FactFindings[v] = FindingsOn(sigs, services)
  BY DEF FactFindings
<1> QED BY <1>3, <1>4 DEF RunAll, UnanimousOn

-----------------------------------------------------------------------------
(***************************************************************************)
(* What the exit code rests on: the findings and the baseline's report are *)
(* each what the checks said of some box and view.                         *)
(***************************************************************************)
ReportsRun ==
    /\ box \in DOMAIN Boxes /\ lost \in AnyLoss(box)
    /\ document \subseteq Views /\ view \in Views
    /\ pc \in {"write", "exit"} => findings = RunAll(box, view)
    /\ \A r \in baseline :
          /\ r.box \in DOMAIN Boxes /\ r.view \in Views
          /\ r.findings = RunAll(r.box, r.view)
    /\ \A q, r \in baseline : q = r
    /\ pc # "idle" => exit = NoExit

\* The inductive invariant.
CIInv == ReportsRun /\ RegressionFailsCI

\* What a scan collects of a box is one of the views.
LEMMA ViewsOf ==
    ASSUME NEW b \in DOMAIN Boxes, NEW l \in AnyLoss(b)
    PROVE  /\ View(b, l, "collect") \in Views /\ View(b, {}, "none") \in Views
           /\ l \in Losses[b] => View(b, l, "signals") \in Views
BY DEF Views, Hows

\* Nothing is scanned or compared at first.
LEMMA CIInit == Init => CIInv
BY ViewsOf DEF Init, CIInv, AnyLoss, ReportsRun, RegressionFailsCI, NoExit

(***************************************************************************)
(* A scan that is let through: each of its critical failures is a critical *)
(* finding of the baseline, and no check of the baseline has both such a   *)
(* finding and a pass.                                                     *)
(***************************************************************************)
LEMMA LetThrough ==
    ASSUME NEW fs, NEW r, Unanimous(r.findings), newCriticals(fs, {r}) = {},
           NEW f \in fs, IsFail(f), f.severity = "critical"
    PROVE  f.id \notin PassedIn(r.findings)
<1>1. <<f.id, f.service, f.resource>> \in criticalKeys(r.findings)
  BY DEF newCriticals, criticalKeys
<1>2. PICK g \in r.findings : g.severity = "critical" /\ g.id = f.id
  BY <1>1 DEF criticalKeys
<1>3. CASE g.status = "assessed"
  BY <1>2, <1>3 DEF PassedIn, FailedIn, IsFail
<1>4. CASE g.status # "assessed"
  <2>1. \A h \in r.findings : h.id = f.id => h.status # "assessed"
    BY <1>2, <1>4 DEF Unanimous
  <2> QED BY <2>1 DEF PassedIn
<1> QED BY <1>3, <1>4

\* Whatever is lost, collected, scanned and written, a report is what a run said.
LEMMA ReportsRunNext == ReportsRun /\ [Next]_vars => ReportsRun'
<1> SUFFICES ASSUME ReportsRun, [Next]_vars PROVE ReportsRun'
  OBVIOUS
<1> USE HostScanAssumption DEF ReportsRun
<1>1. CASE Change  BY <1>1 DEF Change, AnyLoss
<1>2. CASE LoseOrRegain  BY <1>2 DEF LoseOrRegain, AnyLoss
<1>3. CASE CollectDocument  BY <1>3, ViewsOf DEF CollectDocument
<1>4. CASE StartScan  BY <1>4 DEF StartScan
<1>5. CASE CollectFromBox  BY <1>5, ViewsOf DEF CollectFromBox
<1>6. CASE LoadDocument  BY <1>6, ViewsOf DEF LoadDocument
<1>7. CASE CollectNothing  BY <1>7, ViewsOf DEF CollectNothing
<1>8. CASE RunChecks  BY <1>8 DEF RunChecks
<1>9. CASE WriteReport  BY <1>9 DEF WriteReport
<1>10. CASE Killed  BY <1>10 DEF Killed
<1>11. CASE Exit  BY <1>11 DEF Exit
<1>12. CASE UNCHANGED vars  BY <1>12 DEF vars
<1> QED
  BY <1>1, <1>2, <1>3, <1>4, <1>5, <1>6, <1>7, <1>8, <1>9, <1>10, <1>11, <1>12 DEF Next

\* Only Exit decides, and StartScan forgets what was decided.
LEMMA RegressionNext == CIInv /\ [Next]_vars => RegressionFailsCI'
<1> SUFFICES ASSUME CIInv, [Next]_vars PROVE RegressionFailsCI'
  OBVIOUS
<1>1. CASE Exit
  <2> SUFFICES ASSUME exit' = 0, opts.baseline
               PROVE  \E r \in baseline : \A f \in findings :
                          IsFail(f) /\ f.severity = "critical" => f.id \notin PassedIn(r.findings)
    BY <1>1 DEF Exit, RegressionFailsCI
  <2>1. baseline # {} /\ newCriticals(findings, baseline) = {}
    BY <1>1 DEF Exit, ciExit
  <2>2. PICK r \in baseline : baseline = {r}
    BY <2>1 DEF CIInv, ReportsRun
  <2>3. Unanimous(r.findings)
    BY RunAllUnanimous DEF CIInv, ReportsRun
  <2> QED BY <2>1, <2>2, <2>3, LetThrough
<1>2. CASE ~Exit /\ pc # "idle"
  <2>1. exit' = NoExit
    BY <1>2 DEF Next, CIInv, ReportsRun, Change, LoseOrRegain, CollectDocument, StartScan,
                CollectFromBox, LoadDocument, CollectNothing, RunChecks, WriteReport, Killed,
                vars
  <2> QED BY <2>1 DEF RegressionFailsCI, NoExit
<1>3. CASE StartScan
  BY <1>3 DEF StartScan, RegressionFailsCI, NoExit
<1>4. CASE ~Exit /\ ~StartScan /\ pc = "idle"
  <2>1. UNCHANGED <<exit, opts, baseline, findings>>
    BY <1>4 DEF Next, Change, LoseOrRegain, CollectDocument, CollectFromBox, LoadDocument,
                CollectNothing, RunChecks, WriteReport, Killed, vars
  <2> QED BY <2>1 DEF CIInv, RegressionFailsCI
<1> QED BY <1>1, <1>2, <1>3, <1>4

LEMMA CIInvHolds == Spec => []CIInv
<1>1. CIInv /\ [Next]_vars => CIInv'
  BY ReportsRunNext, RegressionNext DEF CIInv
<1> QED BY <1>1, CIInit, PTL DEF Spec

(***************************************************************************)
(* RegressionFailsCI: on any boxes, whatever is lost of them and in        *)
(* whatever order they change, are collected and scanned, a scan that is   *)
(* let through has no critical failure of a check that the baseline says   *)
(* passed (ciExit).                                                        *)
(***************************************************************************)
THEOREM RegressionIsFatal == Spec => []RegressionFailsCI
<1>1. CIInv => RegressionFailsCI
  BY DEF CIInv
<1> QED BY <1>1, CIInvHolds, PTL

(***************************************************************************)
(* OnlyChangeFailsCI: a scan of what the baseline was made of is never     *)
(* stopped by its findings (ciExit).                                       *)
(***************************************************************************)
THEOREM OnlyChangeIsFatal == Spec => OnlyChangeFailsCI
<1>1. CIInv /\ [Next]_vars
        => [exit # 2 /\ exit' = 2 /\ opts.baseline =>
               \A r \in baseline : r.box # box \/ r.view # view]_vars
  <2> SUFFICES ASSUME CIInv, Next, exit # 2, exit' = 2, opts.baseline,
                      NEW r \in baseline, r.box = box, r.view = view
               PROVE  FALSE
    OBVIOUS
  <2>1. Exit
    BY DEF Next, Change, LoseOrRegain, CollectDocument, StartScan, CollectFromBox, LoadDocument,
           CollectNothing, RunChecks, WriteReport, Killed, NoExit
  <2>2. newCriticals(findings, baseline) # {}
    BY <2>1 DEF Exit, ciExit
  <2>3. r.findings = findings
    BY <2>1 DEF Exit, CIInv, ReportsRun
  <2> QED BY <2>2, <2>3 DEF newCriticals
<1> QED BY <1>1, CIInvHolds, PTL DEF Spec, OnlyChangeFailsCI

-----------------------------------------------------------------------------
(***************************************************************************)
(* A scan without facts, which is given no collection or a document that   *)
(* cannot be parsed: none of the checks that need facts says anything.     *)
(***************************************************************************)

\* A configuration that nobody collected.
LEMMA NoneKnown ==
    ASSUME NEW schema
    PROVE  ~configBySchema(<<>>, schema).known
BY DEF configBySchema, Bare, KnownOf

LEMMA NoneSet ==
    ASSUME NEW schema
    PROVE  DOMAIN configBySchema(<<>>, schema).values = {}
BY DEF configBySchema, Bare, KnownOf, NoValues

LEMMA NoMCPConfigs ==
    ASSUME NEW sigs, sigs.configs = <<>>
    PROVE  allMCPConfigs(sigs) = {}
BY DEF allMCPConfigs, Known, ToSet

\* The checks of the host decline, one step each.
LEMMA HostDecline ==
    ASSUME NEW sigs, ~sigs.there
    PROVE  /\ HST001(sigs) = {notAssessed("HST001")}
           /\ HST002(sigs) = {notAssessed("HST002")}
           /\ HST003(sigs) = {notAssessed("HST003")}
           /\ HST004(sigs) = {notAssessed("HST004")}
           /\ HST005(sigs) = {notAssessed("HST005")}
           /\ HST010(sigs) = {notAssessed("HST010")}
           /\ HST011(sigs) = {notAssessed("HST011")}
           /\ HST012(sigs) = {notAssessed("HST012")}
           /\ HST013(sigs) = {notAssessed("HST013")}
           /\ HST020(sigs) = {notAssessed("HST020")}
           /\ HST021(sigs) = {notAssessed("HST021")}
           /\ HST022(sigs) = {notAssessed("HST022")}
           /\ HST023(sigs) = {notAssessed("HST023")}
           /\ HST030(sigs) = {notAssessed("HST030")}
           /\ HST040(sigs) = {notAssessed("HST040")}
           /\ HST041(sigs) = {notAssessed("HST041")}
           /\ HRD009(sigs) = {notAssessed("HRD009")}
           /\ HRD010(sigs) = {notAssessed("HRD010")}
           /\ FW005(sigs) = {notAssessed("FW005")}
           /\ FW006(sigs) = {notAssessed("FW006")}
<1>1. HST001(sigs) = {notAssessed("HST001")}
  BY DEF HST001, OfSSHD, OfHost
<1>2. HST002(sigs) = {notAssessed("HST002")}
  BY DEF HST002, OfSSHD, OfHost
<1>3. HST003(sigs) = {notAssessed("HST003")}
  BY DEF HST003, OfSSHD, OfHost
<1>4. HST004(sigs) = {notAssessed("HST004")}
  BY DEF HST004, OfSSHD, OfHost
<1>5. HST005(sigs) = {notAssessed("HST005")}
  BY DEF HST005, OfSSHD, OfHost
<1>6. HST010(sigs) = {notAssessed("HST010")}
  BY DEF HST010, OfLinux, OfHost
<1>7. HST011(sigs) = {notAssessed("HST011")}
  BY DEF HST011, OfHost
<1>8. HST012(sigs) = {notAssessed("HST012")}
  BY DEF HST012, OfHost
<1>9. HST013(sigs) = {notAssessed("HST013")}
  BY DEF HST013, OfLinux, OfHost
<1>10. HST020(sigs) = {notAssessed("HST020")}
  BY DEF HST020, OfHost
<1>11. HST021(sigs) = {notAssessed("HST021")}
  BY DEF HST021, OfHost
<1>12. HST022(sigs) = {notAssessed("HST022")}
  BY DEF HST022, OfHost
<1>13. HST023(sigs) = {notAssessed("HST023")}
  BY DEF HST023, OfHost
<1>14. HST030(sigs) = {notAssessed("HST030")}
  BY DEF HST030, OfLinux, OfHost
<1>15. HST040(sigs) = {notAssessed("HST040")}
  BY DEF HST040, OfLinux, OfHost
<1>16. HST041(sigs) = {notAssessed("HST041")}
  BY DEF HST041, OfHost
<1>17. HRD009(sigs) = {notAssessed("HRD009")}
  BY DEF HRD009, OfLinux, OfHost
<1>18. HRD010(sigs) = {notAssessed("HRD010")}
  BY DEF HRD010, OfLinux, OfHost
<1>19. FW005(sigs) = {notAssessed("FW005")}
  BY DEF FW005, OfLinux, OfHost
<1>20. FW006(sigs) = {notAssessed("FW006")}
  BY DEF FW006, OfLinux, OfHost
<1> QED
  BY <1>1, <1>2, <1>3, <1>4, <1>5, <1>6, <1>7, <1>8, <1>9, <1>10, <1>11, <1>12,
     <1>13, <1>14, <1>15, <1>16, <1>17, <1>18, <1>19, <1>20

\* So do those of service configurations.
LEMMA ServiceDecline ==
    ASSUME NEW sigs, NEW services, sigs.configs = <<>>
    PROVE  /\ SVC001(sigs) = {notAssessed("SVC001")}
           /\ SVC002(sigs) = {notAssessed("SVC002")}
           /\ SVC003(sigs) = {notAssessed("SVC003")}
           /\ SVC004(sigs) = {notAssessed("SVC004")}
           /\ SVC010(sigs, services) = {notAssessed("SVC010")}
           /\ SVC011(sigs) = {notAssessed("SVC011")}
           /\ SVC020(sigs) = {notAssessed("SVC020")}
           /\ SVC021(sigs) = {notAssessed("SVC021")}
           /\ SVC030(sigs) = {notAssessed("SVC030")}
           /\ SVC031(sigs) = {notAssessed("SVC031")}
           /\ SVC032(sigs) = {notAssessed("SVC032")}
           /\ SVC040(sigs) = {notAssessed("SVC040")}
           /\ SVC041(sigs) = {notAssessed("SVC041")}
           /\ SVC050(sigs) = {notAssessed("SVC050")}
           /\ SVC051(sigs) = {notAssessed("SVC051")}
           /\ SVC052(sigs) = {notAssessed("SVC052")}
           /\ SVC060(sigs) = {notAssessed("SVC060")}
<1>1. SVC001(sigs) = {notAssessed("SVC001")}
  <2>1. ~configBySchema(sigs.configs, "redis-conf").known
    BY NoneKnown
  <2> QED BY <2>1 DEF SVC001, ByConfig
<1>2. SVC002(sigs) = {notAssessed("SVC002")}
  BY NoneKnown, SMT DEF SVC002, ByConfig
<1>3. SVC003(sigs) = {notAssessed("SVC003")}
  BY NoneKnown, SMT DEF SVC003, ByConfig
<1>4. SVC004(sigs) = {notAssessed("SVC004")}
  BY NoneKnown, SMT DEF SVC004, ByConfig
<1>5. SVC010(sigs, services) = {notAssessed("SVC010")}
  BY NoneKnown, Zenon DEF SVC010, ByConfig
<1>6. SVC011(sigs) = {notAssessed("SVC011")}
  BY NoneKnown, SMT DEF SVC011, ByConfig
<1>7. SVC020(sigs) = {notAssessed("SVC020")}
  BY NoneKnown, SMT DEF SVC020, ByConfig
<1>8. SVC021(sigs) = {notAssessed("SVC021")}
  BY DEF SVC021
<1>9. SVC030(sigs) = {notAssessed("SVC030")}
  BY NoneKnown, Zenon DEF SVC030, ByConfig
<1>10. SVC031(sigs) = {notAssessed("SVC031")}
  <2>1. "INSTALL_LOCK" \notin DOMAIN configBySchema(sigs.configs, "gitea-ini").values
    BY NoneSet
  <2> QED BY <2>1 DEF SVC031
<1>11. SVC032(sigs) = {notAssessed("SVC032")}
  BY NoneKnown, SMT DEF SVC032, ByConfig
<1>12. SVC040(sigs) = {notAssessed("SVC040")}
  BY NoneKnown, SMT DEF SVC040, ByConfig
<1>13. SVC041(sigs) = {notAssessed("SVC041")}
  BY NoneKnown, SMT DEF SVC041, ByConfig
<1>14. SVC050(sigs) = {notAssessed("SVC050")}
  BY NoneKnown, SMT DEF SVC050, ByConfig
<1>15. SVC051(sigs) = {notAssessed("SVC051")}
  BY NoneKnown, SMT DEF SVC051, ByConfig
<1>16. SVC052(sigs) = {notAssessed("SVC052")}
  BY NoneKnown, SMT DEF SVC052, ByConfig
<1>17. SVC060(sigs) = {notAssessed("SVC060")}
  BY NoneKnown, SMT DEF SVC060, ByConfig
<1> QED
  BY <1>1, <1>2, <1>3, <1>4, <1>5, <1>6, <1>7, <1>8, <1>9, <1>10, <1>11, <1>12,
     <1>13, <1>14, <1>15, <1>16, <1>17

\* So do those of agents and of MCP servers.
LEMMA AgentDecline ==
    ASSUME NEW sigs, ~sigs.there, sigs.configs = <<>>
    PROVE  /\ AGT001(sigs) = {notAssessed("AGT001")}
           /\ AGT002(sigs) = {notAssessed("AGT002")}
           /\ AGT003(sigs) = {notAssessed("AGT003")}
           /\ AGT004(sigs) = {notAssessed("AGT004")}
           /\ AGT005(sigs) = {notAssessed("AGT005")}
           /\ AGT006(sigs) = {notAssessed("AGT006")}
           /\ AGT007(sigs) = {notAssessed("AGT007")}
           /\ AGT008(sigs) = {notAssessed("AGT008")}
           /\ AGT009(sigs) = {notAssessed("AGT009")}
           /\ AGT010(sigs) = {notAssessed("AGT010")}
           /\ MCP001(sigs) = {notAssessed("MCP001")}
           /\ MCP002(sigs) = {notAssessed("MCP002")}
           /\ MCP003(sigs) = {notAssessed("MCP003")}
           /\ MCP004(sigs) = {notAssessed("MCP004")}
           /\ MCP005(sigs) = {notAssessed("MCP005")}
           /\ MCP006(sigs) = {notAssessed("MCP006")}
           /\ MCP007(sigs) = {notAssessed("MCP007")}
           /\ MCP008(sigs) = {notAssessed("MCP008")}
           /\ MCP009(sigs) = {notAssessed("MCP009")}
<1>1. AGT001(sigs) = {notAssessed("AGT001")}
  BY DEF AGT001, OfAgent
<1>2. AGT002(sigs) = {notAssessed("AGT002")}
  BY DEF AGT002, OfAgent
<1>3. AGT003(sigs) = {notAssessed("AGT003")}
  BY DEF AGT003, OfAgent
<1>4. AGT004(sigs) = {notAssessed("AGT004")}
  BY DEF AGT004, OfFiles, OfAgent
<1>5. AGT005(sigs) = {notAssessed("AGT005")}
  BY DEF AGT005, OfFiles, OfAgent
<1>6. AGT006(sigs) = {notAssessed("AGT006")}
  BY DEF AGT006, OfAgent
<1>7. AGT007(sigs) = {notAssessed("AGT007")}
  BY DEF AGT007, OfAgent
<1>8. AGT008(sigs) = {notAssessed("AGT008")}
  BY DEF AGT008, OfAgent
<1>9. AGT009(sigs) = {notAssessed("AGT009")}
  BY DEF AGT009, OfAgent
<1>10. AGT010(sigs) = {notAssessed("AGT010")}
  BY DEF AGT010, OfAgent
<1>11. MCP001(sigs) = {notAssessed("MCP001")}
  BY NoMCPConfigs DEF MCP001, ServersThat, OfMCPConfigs
<1>12. MCP002(sigs) = {notAssessed("MCP002")}
  BY NoMCPConfigs DEF MCP002, OfMCPConfigs
<1>13. MCP003(sigs) = {notAssessed("MCP003")}
  BY NoMCPConfigs DEF MCP003, ServersThat, OfMCPConfigs
<1>14. MCP004(sigs) = {notAssessed("MCP004")}
  BY DEF MCP004
<1>15. MCP005(sigs) = {notAssessed("MCP005")}
  BY NoMCPConfigs DEF MCP005, ServersThat, OfMCPConfigs
<1>16. MCP006(sigs) = {notAssessed("MCP006")}
  BY NoMCPConfigs DEF MCP006, ServersThat, OfMCPConfigs
<1>17. MCP007(sigs) = {notAssessed("MCP007")}
  BY DEF MCP007
<1>18. MCP008(sigs) = {notAssessed("MCP008")}
  BY NoMCPConfigs DEF MCP008, OfMCPConfigs
<1>19. MCP009(sigs) = {notAssessed("MCP009")}
  BY DEF MCP009
<1> QED
  BY <1>1, <1>2, <1>3, <1>4, <1>5, <1>6, <1>7, <1>8, <1>9, <1>10, <1>11, <1>12,
     <1>13, <1>14, <1>15, <1>16, <1>17, <1>18, <1>19

\* What a check says that was not assessed.
Declined(I) == {notAssessed(i) : i \in I}

FactIds == (HostIds \cup ServiceIds) \cup AgentIds

LEMMA DeclinedUnion ==
    ASSUME NEW I, NEW J, NEW fs, NEW gs, fs \subseteq Declined(I), gs \subseteq Declined(J)
    PROVE  fs \cup gs \subseteq Declined(I \cup J)
BY DEF Declined

LEMMA NothingFromNothing ==
    ASSUME NEW services
    PROVE  FindingsOn(NoSignals, services) \subseteq Declined(FactIds)
<1> DEFINE sigs == NoSignals
<1>1. ~sigs.there /\ sigs.configs = <<>>
  BY DEF NoSignals
<1> HIDE DEF sigs
<1>2. HostFindings(sigs) \subseteq Declined(HostIds)
  BY <1>1, HostDecline DEF HostFindings, Declined, HostIds
<1>3. ServiceFindings(sigs, services) \subseteq Declined(ServiceIds)
  BY <1>1, ServiceDecline DEF ServiceFindings, Declined, ServiceIds
<1>4. AgentFindings(sigs) \subseteq Declined(AgentIds)
  BY <1>1, AgentDecline DEF AgentFindings, Declined, AgentIds
<1>5. FindingsOn(sigs, services) \subseteq Declined(FactIds)
  BY <1>2, <1>3, <1>4, DeclinedUnion DEF FindingsOn, FactIds
<1> QED BY <1>5 DEF sigs

\* Findings of facts are of the checks that read facts, those of the stack of others.
LEMMA RunAllIds ==
    ASSUME NEW b \in DOMAIN Boxes, NEW v \in Views
    PROVE  /\ \A f \in FactFindings[v] : f.id \in FactIds
           /\ \A f \in StackFindingsOf[b] : f.id \in StackIds
           /\ FactIds \cap StackIds = {}
<1>1. FactFindings[v] = FindingsOn(SignalsOf(v), Boxes[v.box].services)
  BY DEF FactFindings
<1>2. StackFindingsOf[b] = StackFindings(Boxes[b], Boxes[b].probe, Boxes[b].intended)
  BY DEF StackFindingsOf
<1>3. \A f \in FactFindings[v] : f.id \in FactIds
  BY <1>1, HostUnanimous, ServiceUnanimous, AgentUnanimous
     DEF FindingsOn, UnanimousOn, FactIds
<1>4. \A f \in StackFindingsOf[b] : f.id \in StackIds
  BY <1>2, StackUnanimous DEF UnanimousOn
<1>5. FactIds \cap StackIds = {}
  BY DEF FactIds, HostIds, ServiceIds, AgentIds, StackIds
<1> QED BY <1>3, <1>4, <1>5

\* With the checks that a scan has run, it holds what all of the box would fail.
TruthInv ==
    pc = "write" => truth["collect"] = FailedIn(RunAll(box, View(view.box, {}, "collect")))

LEMMA TruthNext == ReportsRun /\ TruthInv /\ [Next]_vars => TruthInv'
<1> SUFFICES ASSUME ReportsRun, TruthInv, [Next]_vars PROVE TruthInv'
  OBVIOUS
<1>1. CASE RunChecks
  BY <1>1 DEF RunChecks, TruthInv
<1>2. CASE ~RunChecks /\ pc # "write"
  <2>1. pc' # "write"
    BY <1>2 DEF Next, Change, LoseOrRegain, CollectDocument, StartScan, CollectFromBox,
                LoadDocument, CollectNothing, WriteReport, Killed, Exit, vars
  <2> QED BY <2>1 DEF TruthInv
<1>3. CASE ~RunChecks /\ pc = "write"
  <2>1. UNCHANGED <<box, view, truth>>
    BY <1>3 DEF Next, Change, LoseOrRegain, CollectDocument, StartScan, CollectFromBox,
                LoadDocument, CollectNothing, WriteReport, Killed, Exit, vars
  <2> QED BY <1>3, <2>1 DEF TruthInv
<1> QED BY <1>1, <1>2, <1>3

LEMMA TruthHolds == Spec => []TruthInv
<1>1. Init => TruthInv
  BY DEF Init, TruthInv
<1>2. CIInv /\ TruthInv /\ [Next]_vars => TruthInv'
  BY TruthNext DEF CIInv
<1> QED BY <1>1, <1>2, CIInvHolds, PTL DEF Spec

(***************************************************************************)
(* LossNeverClears and LossNeverAccuses, of a scan without facts: on any   *)
(* box, it passes no check that fails on all of the box and fails none     *)
(* that does not (the guards of every check against facts that are not     *)
(* there).  No exception is needed, as with the losses of single parts.    *)
(***************************************************************************)
THEOREM NoFactsNoVerdict ==
    Spec => [](view.how = "none" => LossNeverClears /\ LossNeverAccuses)
<1>1. CIInv /\ TruthInv => (view.how = "none" => LossNeverClears /\ LossNeverAccuses)
  <2> SUFFICES ASSUME CIInv, TruthInv, view.how = "none", pc = "write"
               PROVE  /\ truth["collect"] \cap PassedIn(findings) = {}
                      /\ FailedIn(findings) \subseteq truth["collect"]
    BY DEF LossNeverClears, LossNeverAccuses
  <2> DEFINE full == View(view.box, {}, "collect")
  <2>1. /\ box \in DOMAIN Boxes /\ view \in Views /\ findings = RunAll(box, view)
        /\ full \in Views
    <3>1. box \in DOMAIN Boxes /\ view \in Views /\ findings = RunAll(box, view)
      BY DEF CIInv, ReportsRun
    <3>2. view.box \in DOMAIN Boxes
      BY <3>1 DEF Views, View
    <3>3. {} \in AnyLoss(view.box)
      BY <3>2, HostScanAssumption DEF AnyLoss
    <3> QED BY <3>1, <3>2, <3>3, ViewsOf
  <2>2. FactFindings[view] \subseteq Declined(FactIds)
    BY <2>1, NothingFromNothing DEF FactFindings, SignalsOf
  <2>3. ASSUME NEW f \in findings, f.status = "assessed"
        PROVE  f \in StackFindingsOf[box]
    <3>1. \A i : notAssessed(i).status = "not_assessed"
      BY DEF notAssessed, Finding
    <3> QED BY <2>1, <2>2, <2>3, <3>1 DEF RunAll, Declined
  <2>4. StackFindingsOf[box] \subseteq findings
    BY <2>1 DEF RunAll
  <2>5. FailedIn(findings) \subseteq truth["collect"]
    <3> SUFFICES ASSUME NEW f \in findings, IsFail(f)
                 PROVE  f.id \in truth["collect"]
      BY DEF FailedIn
    <3>1. f \in RunAll(box, full)
      BY <2>3 DEF IsFail, RunAll
    <3> QED BY <3>1 DEF TruthInv, FailedIn
  <2>6. ASSUME NEW g \in RunAll(box, full), IsFail(g), g.id \in PassedIn(findings)
        PROVE  FALSE
    <3>1. PICK f \in findings : f.status = "assessed" /\ f.id = g.id
      BY <2>6 DEF PassedIn
    <3>2. g.id \in StackIds
      BY <2>1, <2>3, <3>1, RunAllIds
    <3>3. g \in StackFindingsOf[box]
      BY <2>1, <2>6, <3>2, RunAllIds DEF RunAll
    <3> QED BY <2>4, <2>6, <3>3 DEF PassedIn, FailedIn
  <2>7. truth["collect"] \cap PassedIn(findings) = {}
    BY <2>6 DEF TruthInv, FailedIn
  <2> QED BY <2>5, <2>7
<1> QED BY <1>1, CIInvHolds, TruthHolds, PTL
=============================================================================
