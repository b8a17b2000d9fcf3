-------------------------- MODULE Baseline_proofs --------------------------
(***************************************************************************)
(* Theorems about Baseline and, at the end, DriftVerdict, for any number   *)
(* of servers, tools, hashes and identities.  The approval theorems need   *)
(* scans that do not overlap and a file system that writes data before it  *)
(* makes a rename last; the others hold for any concurrent scans.          *)
(***************************************************************************)
EXTENDS DriftVerdict, TLAPS

(***************************************************************************)
(* Taking an observation off a listing leaves a listing.                   *)
(***************************************************************************)
LEMMA HeadTail ==
    ASSUME NEW l \in Seq(Observation), l # <<>>
    PROVE  Head(l) \in Observation /\ Tail(l) \in Seq(Observation)
OBVIOUS

(***************************************************************************)
(* Diff maps well-formed entries to well-formed entries.                   *)
(***************************************************************************)
LEMMA DiffEntry ==
    ASSUME NEW e \in Entry, NEW h \in Hashes, NEW i \in Ids,
           Seen(e) <=> e.id # NoId
    PROVE  LET d == IF StartsOver(e, i) THEN Inventoried(h, i) ELSE Compared(e, h)
           IN  d \in Entry /\ (Seen(d) <=> d.id # NoId)
<1> USE NoHashAssumption, NoIdAssumption DEF Entry, Seen
<1>1. CASE StartsOver(e, i)
  BY <1>1 DEF Inventoried
<1>2. CASE ~StartsOver(e, i)
  BY <1>2 DEF Compared
<1> QED BY <1>1, <1>2

\* A baseline without entries (newBaseline, a missing file) is well-formed.
LEMMA BlankOK == Blank \in Entries /\ WellFormed(Blank)
BY NoHashAssumption, NoIdAssumption
   DEF Blank, NoEntry, Entries, Entry, WellFormed, Seen

(***************************************************************************)
(* Type correctness (TypeOK).                                              *)
(***************************************************************************)
LEMMA TypeInit == Init => TypeOK
<1> SUFFICES ASSUME Init PROVE TypeOK
  OBVIOUS
<1>1. /\ disk \in Entries /\ WellFormed(disk)
      /\ bl \in [Procs -> Entries] /\ \A p \in Procs : WellFormed(bl[p])
  BY BlankOK DEF Init
<1>2. listing \in [Procs -> Seq(Observation)]
  BY DEF Init
<1> QED BY <1>1, <1>2 DEF Init, TypeOK, Phases

\* A scan that ends or is killed leaves local state of the right types.
LEMMA ForgetOK ==
    ASSUME TypeOK, NEW P, Forget(P)
    PROVE  /\ spec' = spec /\ cur' = cur
           /\ todo' \in [Procs -> SUBSET Servers]
           /\ listing' \in [Procs -> Seq(Observation)]
           /\ bl' \in [Procs -> Entries] /\ \A p \in Procs : WellFormed(bl'[p])
           /\ corrupt' \in [Procs -> BOOLEAN]
<1>1. bl' \in [Procs -> Entries] /\ \A p \in Procs : WellFormed(bl'[p])
  BY BlankOK DEF TypeOK, Forget
<1>2. listing' \in [Procs -> Seq(Observation)]
  BY DEF TypeOK, Forget
<1> QED BY <1>1, <1>2 DEF TypeOK, Forget

\* Every step of a scan and of its environment keeps the types.
LEMMA TypeNext == TypeOK /\ [Next]_vars => TypeOK'
<1> SUFFICES ASSUME TypeOK, [Next]_vars PROVE TypeOK'
  OBVIOUS
<1> USE DEF TypeOK, Phases, Goto, fileVars, probeVars
<1>1. ASSUME NEW p \in Procs, Load(p) PROVE TypeOK'
  BY <1>1, BlankOK DEF Load, Loaded, LoadFails
<1>2. ASSUME NEW p \in Procs, NEW s \in Servers, Unreached(p, s) PROVE TypeOK'
  BY <1>2 DEF Unreached
<1>3. ASSUME NEW p \in Procs, NEW s \in Servers, Reached(p, s) PROVE TypeOK'
  BY <1>3, ListingsAssumption DEF Reached
<1>4. ASSUME NEW p \in Procs, DiffTool(p) PROVE TypeOK'
  <2> DEFINE obs == Head(listing[p])
             k == <<cur[p], obs.tool>>
             i == spec[p][cur[p]]
             e == bl[p][k]
             d == IF StartsOver(e, i) THEN Inventoried(obs.hash, i)
                                      ELSE Compared(e, obs.hash)
  <2>1. obs \in Observation /\ Tail(listing[p]) \in Seq(Observation)
    BY <1>4, HeadTail DEF DiffTool
  <2>2. obs.tool \in Tools /\ obs.hash \in Hashes /\ k \in Keys /\ i \in Ids
    BY <2>1 DEF Observation, Keys
  <2>3. e \in Entry /\ (Seen(e) <=> e.id # NoId)
    BY <2>2 DEF Entries, WellFormed
  <2>4. d \in Entry /\ (Seen(d) <=> d.id # NoId)
    BY <2>2, <2>3, DiffEntry
  <2>5. bl' = [bl EXCEPT ![p][k] = d]
    BY <1>4 DEF DiffTool
  <2>6. bl' \in [Procs -> Entries] /\ \A q \in Procs : WellFormed(bl[q])'
    <3> HIDE DEF d, k
    <3> QED BY <2>2, <2>4, <2>5 DEF Entries, WellFormed, Seen
  <2>7. flagged' \subseteq [key : Keys, id : Ids, hash : Hashes]
    <3>1. flagged' \subseteq flagged \cup {[key |-> k, id |-> i, hash |-> obs.hash]}
      BY <1>4 DEF DiffTool
    <3>2. [key |-> k, id |-> i, hash |-> obs.hash] \in [key : Keys, id : Ids, hash : Hashes]
      <4> HIDE DEF k, i, obs
      <4> QED BY <2>2
    <3> QED BY <3>1, <3>2
  <2> QED BY <1>4, <2>1, <2>6, <2>7 DEF DiffTool, WellFormed, Seen
<1>5. ASSUME NEW p \in Procs, CreateTemp(p) PROVE TypeOK'
  BY <1>5 DEF CreateTemp
<1>6. ASSUME NEW p \in Procs, WriteTemp(p) PROVE TypeOK'
  BY <1>6 DEF WriteTemp
<1>7. ASSUME NEW p \in Procs, Rename(p) PROVE TypeOK'
  BY <1>7, BlankOK DEF Rename, StillDue, WellFormed, Seen
<1>8. ASSUME NEW p \in Procs, SaveFails(p) PROVE TypeOK'
  BY <1>8 DEF SaveFails
<1>9. ASSUME NEW p \in Procs, Report(p) PROVE TypeOK'
  BY <1>9, ForgetOK DEF Report, WellFormed, Seen
<1>10. ASSUME NEW s \in Servers, Repoint(s) PROVE TypeOK'
  BY <1>10 DEF Repoint
<1>11. CASE Discard
  BY <1>11, BlankOK DEF Discard, WellFormed, Seen
<1>12. CASE Damage
  BY <1>12, BlankOK DEF Damage, WellFormed, Seen
<1>13. CASE Sync
  BY <1>13 DEF Sync
<1>14. CASE PowerLoss
  BY <1>14, BlankOK, ForgetOK DEF PowerLoss, WellFormed, Seen
<1>15. ASSUME NEW p \in Procs, Crash(p) PROVE TypeOK'
  BY <1>15, ForgetOK DEF Crash, WellFormed, Seen
<1>16. CASE UNCHANGED vars
  BY <1>16 DEF vars, WellFormed, Seen
<1> QED
  BY <1>1, <1>2, <1>3, <1>4, <1>5, <1>6, <1>7, <1>8, <1>9, <1>10, <1>11,
     <1>12, <1>13, <1>14, <1>15, <1>16 DEF Next, Environment, Scan

\* TypeOK for any number of scans, servers and tools, and all kinds of faults.
THEOREM TypeCorrect == Spec => []TypeOK
BY TypeInit, TypeNext, PTL DEF Spec

-----------------------------------------------------------------------------
(***************************************************************************)
(* Saving.  The invariant says which temporary file each phase of a save   *)
(* has: complete when it is about to be renamed, none outside a save.      *)
(***************************************************************************)
SaveInv ==
    /\ \A p \in Procs : /\ pc[p] = "rename" => tmp[p] = "full"
                        /\ tmp[p] # "none" => pc[p] \in {"write", "rename"}
    /\ "corrupt" \notin Faults => fileKind # "corrupt"

\* The phases of Save keep the correspondence with the temporary file.
LEMMA SaveInvNext == TypeOK /\ SaveInv /\ [Next]_vars => SaveInv'
<1> SUFFICES ASSUME TypeOK, SaveInv, [Next]_vars PROVE SaveInv'
  OBVIOUS
<1> USE DEF TypeOK, SaveInv, Goto, fileVars, probeVars
<1>1. ASSUME NEW p \in Procs, Scan(p) PROVE SaveInv'
  <2>1. CASE CreateTemp(p) \/ WriteTemp(p) \/ Rename(p)
    BY <2>1 DEF CreateTemp, WriteTemp, Rename, AllProbed
  <2>2. CASE SaveFails(p)
    BY <2>2 DEF SaveFails, AllProbed
  <2>3. CASE Load(p) \/ DiffTool(p) \/ Report(p)
    BY <2>3 DEF Load, DiffTool, Report
  <2>4. ASSUME NEW s \in Servers, Unreached(p, s) \/ Reached(p, s) PROVE SaveInv'
    BY <2>4 DEF Unreached, Reached
  <2> QED BY <1>1, <2>1, <2>2, <2>3, <2>4 DEF Scan
<1>2. CASE Environment
  BY <1>2 DEF Environment, Repoint, Discard, Damage, Sync, PowerLoss, Crash
<1>3. CASE UNCHANGED vars
  BY <1>3 DEF vars
<1> QED BY <1>1, <1>2, <1>3 DEF Next

\* A save that fails or is killed at any step, by any number of concurrent
\* scans, never leaves an unparsable file (Baseline.Save, SBX-9(b)).
THEOREM SavedFileParses == Spec => []SaveIsAtomic
<1>1. Init => SaveInv
  BY DEF Init, SaveInv
<1>2. SaveInv => SaveIsAtomic
  BY DEF SaveInv, SaveIsAtomic
<1> QED BY <1>1, <1>2, SaveInvNext, TypeCorrect, PTL DEF Spec

\* Every way out of Save but a kill consumes or removes its temporary file.
THEOREM TempRemoved == Spec => []NoTempLeft
<1>1. Init => SaveInv
  BY DEF Init, SaveInv
<1>2. SaveInv => NoTempLeft
  BY DEF SaveInv, NoTempLeft
<1> QED BY <1>1, <1>2, SaveInvNext, TypeCorrect, PTL DEF Spec

-----------------------------------------------------------------------------
(***************************************************************************)
(* Approvals.  While scans do not overlap, what a running scan holds in    *)
(* memory extends what the file says: an approved tool is still there,     *)
(* with the same approved hash unless this scan runs under another         *)
(* identity of its server.  When the file is damaged under a scan, that    *)
(* scan still recalls what every flag was raised against.                  *)
(***************************************************************************)
Serial == /\ \A p, q \in Procs : p = q
          /\ "latewrite" \notin Faults

InScan(p) == pc[p] \in {"probe", "write", "rename"}

Extends(p) ==
    \A k \in Keys : Seen(disk[k]) =>
        /\ Seen(bl[p][k])
        /\ IF bl[p][k].id = disk[k].id THEN bl[p][k].hash = disk[k].hash
                                       ELSE bl[p][k].id = spec[p][k[1]]

Recalls(p, f) ==
    LET e == bl[p][f.key] IN
        /\ Seen(e)
        /\ IF e.id = f.id THEN e.hash # f.hash ELSE e.id = spec[p][f.key[1]]

FlagsInFile == \A f \in flagged : Alarmed(f) /\ disk[f.key].id = f.id

FlagsInMemory ==
    \A p \in Procs : InScan(p) /\ ~corrupt[p] => \A f \in flagged : Recalls(p, f)

ApprovalInv ==
    /\ \A p \in Procs : InScan(p) => Extends(p)
    /\ fileKind = "json" => FlagsInFile
    /\ fileKind = "corrupt" => FlagsInMemory
    /\ fileKind \in {"missing", "empty"} => flagged = {}

\* No scan has run yet, so nothing was flagged or loaded.
LEMMA ApprovalInvInit == Init => ApprovalInv
BY DEF Init, ApprovalInv, InScan, FlagsInFile, FlagsInMemory

(***************************************************************************)
(* Comparing one tool keeps the in-memory entries an extension of the      *)
(* file, and what it flags differs from the hash the file has approved.    *)
(***************************************************************************)
LEMMA DiffKeepsApprovals ==
    ASSUME TypeOK, ApprovalInv, Serial, NEW p \in Procs, DiffTool(p)
    PROVE  ApprovalInv'
<1> DEFINE obs == Head(listing[p])
           k == <<cur[p], obs.tool>>
           i == spec[p][cur[p]]
           e == bl[p][k]
           d == IF StartsOver(e, i) THEN Inventoried(obs.hash, i)
                                    ELSE Compared(e, obs.hash)
           f == [key |-> k, id |-> i, hash |-> obs.hash]
<1>1. /\ bl' = [bl EXCEPT ![p][k] = d]
      /\ UNCHANGED <<disk, pc, spec>>
      /\ InScan(p)
  BY DEF DiffTool, fileVars, InScan
<1>2. obs \in Observation
  BY HeadTail DEF DiffTool, TypeOK
<1>3. k \in Keys /\ obs.hash \in Hashes /\ k[1] = cur[p]
  BY <1>2 DEF TypeOK, Observation, Keys
<1>4. e \in Entry /\ bl[p] \in Entries
  BY <1>3 DEF TypeOK, Entries
<1>5. Extends(p)
  BY <1>1 DEF ApprovalInv
<1>6. Seen(disk[k]) =>
         /\ Seen(d)
         /\ IF d.id = disk[k].id THEN d.hash = disk[k].hash ELSE d.id = i
  BY <1>3, <1>4, <1>5, NoHashAssumption
     DEF Extends, StartsOver, Inventoried, Compared, Seen, Entry
<1>7. \A q \in Procs : InScan(q)' => Extends(q)'
  <2> SUFFICES ASSUME NEW j \in Keys, Seen(disk[j])
               PROVE  /\ Seen(bl'[p][j])
                      /\ IF bl'[p][j].id = disk[j].id
                           THEN bl'[p][j].hash = disk[j].hash
                           ELSE bl'[p][j].id = spec[p][j[1]]
    BY <1>1 DEF Serial, Extends, Seen
  <2> HIDE DEF d, e, i, k
  <2>1. CASE j = k
    <3>1. bl'[p][k] = d
      BY <1>1, <1>3, <1>4 DEF TypeOK, Entries
    <3>2. spec[p][k[1]] = i
      BY <1>3 DEF i
    <3> QED BY <1>6, <2>1, <3>1, <3>2
  <2>2. CASE j # k
    <3>1. bl'[p][j] = bl[p][j]
      BY <1>1, <1>4, <2>2 DEF TypeOK, Entries
    <3> QED BY <1>5, <3>1 DEF Extends
  <2> QED BY <2>1, <2>2
<1>8. \A g \in flagged' : g \in flagged \/ (g = f /\ Alarmed(f) /\ disk[k].id = i)
  <2>1. CASE ~StartsOver(e, i) /\ e.hash # obs.hash /\ Seen(disk[k]) /\ disk[k].id = i
    <3>1. flagged' = flagged \cup {f}
      BY <2>1 DEF DiffTool
    <3>2. e.hash = disk[k].hash
      BY <1>3, <1>5, <2>1 DEF Extends, StartsOver
    <3>3. f.key = k /\ f.hash = obs.hash
      OBVIOUS
    <3>4. Alarmed(f)
      <4> HIDE DEF f
      <4> QED BY <2>1, <3>2, <3>3 DEF Alarmed
    <3> QED BY <2>1, <3>1, <3>4
  <2>2. CASE ~(~StartsOver(e, i) /\ e.hash # obs.hash /\ Seen(disk[k]) /\ disk[k].id = i)
    BY <2>2 DEF DiffTool
  <2> QED BY <2>1, <2>2
<1>9. ASSUME fileKind = "json" PROVE FlagsInFile'
  BY <1>1, <1>8, <1>9 DEF ApprovalInv, FlagsInFile, Alarmed, Seen
<1>10. ASSUME fileKind # "json" PROVE flagged' = flagged
  <2>1. ~Seen(disk[k])
    BY <1>3, <1>10 DEF TypeOK, Blank, NoEntry, Seen
  <2> QED BY <2>1 DEF DiffTool
<1>11. ASSUME fileKind = "corrupt", ~corrupt[p], NEW g \in flagged
       PROVE  Recalls(p, g)'
  <2>1. Recalls(p, g) /\ g.key \in Keys
    BY <1>1, <1>11 DEF ApprovalInv, FlagsInMemory, TypeOK
  <2>2. CASE g.key = k
    <3>1. bl'[p][k] = d /\ spec[p][k[1]] = i
      BY <1>1, <1>3, <1>4 DEF TypeOK, Entries
    <3>2. /\ Seen(d)
          /\ IF d.id = g.id THEN d.hash # g.hash ELSE d.id = i
      BY <1>3, <1>4, <2>1, <2>2, <3>1, NoHashAssumption
         DEF Recalls, StartsOver, Inventoried, Compared, Seen, Entry
    <3> HIDE DEF d, e, i, k
    <3> QED BY <1>1, <2>2, <3>1, <3>2 DEF Recalls, Seen
  <2>3. CASE g.key # k
    <3>1. bl'[p][g.key] = bl[p][g.key]
      BY <1>1, <1>4, <2>1, <2>3 DEF TypeOK, Entries
    <3> QED BY <1>1, <2>1, <3>1 DEF Recalls, Seen
  <2> QED BY <2>2, <2>3
<1>12. fileKind' = fileKind /\ corrupt' = corrupt
  BY DEF DiffTool, fileVars
<1>13. ASSUME fileKind = "corrupt" PROVE FlagsInMemory'
  BY <1>10, <1>11, <1>12, <1>13 DEF FlagsInMemory, Serial
<1>14. fileKind \in {"missing", "empty"} => flagged' = {}
  BY <1>10 DEF ApprovalInv
<1> QED BY <1>7, <1>9, <1>12, <1>13, <1>14 DEF ApprovalInv

(***************************************************************************)
(* The rename publishes entries that extend the replaced ones.             *)
(***************************************************************************)
LEMMA RenamePublishes ==
    ASSUME TypeOK, SaveInv, ApprovalInv, NEW p \in Procs, Rename(p)
    PROVE  disk' = bl[p] /\ fileKind' = "json" /\ Extends(p)
BY DEF TypeOK, SaveInv, ApprovalInv, Rename, InScan

\* Every step of scans that do not overlap keeps memory an extension of the
\* file, and every flag raised against what the file approves.
LEMMA ApprovalInvNext ==
    ASSUME Serial
    PROVE  TypeOK /\ SaveInv /\ ApprovalInv /\ [Next]_vars => ApprovalInv'
<1> SUFFICES ASSUME TypeOK, SaveInv, ApprovalInv, [Next]_vars PROVE ApprovalInv'
  OBVIOUS
<1> USE DEF Goto, fileVars, probeVars, InScan
<1>0. ASSUME UNCHANGED <<fileKind, disk, flagged>>
      PROVE  /\ (fileKind = "json" => FlagsInFile)'
             /\ (fileKind \in {"missing", "empty"} => flagged = {})'
  BY <1>0 DEF ApprovalInv, FlagsInFile, Alarmed, Seen
<1>1. ASSUME NEW p \in Procs, Load(p) PROVE ApprovalInv'
  <2>1. bl'[p] = disk /\ UNCHANGED <<fileKind, disk, flagged>>
    BY <1>1 DEF Load, Loaded, TypeOK
  <2>2. Extends(p)'
    BY <2>1 DEF Extends, Seen
  <2>3. fileKind = "corrupt" => corrupt'[p]
    BY <1>1 DEF Load, LoadFails, TypeOK
  <2> QED BY <1>0, <2>1, <2>2, <2>3 DEF ApprovalInv, Serial, FlagsInMemory
<1>2. ASSUME NEW p \in Procs, DiffTool(p) PROVE ApprovalInv'
  BY <1>2, DiffKeepsApprovals
<1>3. ASSUME NEW p \in Procs, Rename(p) PROVE ApprovalInv'
  <2>1. disk' = bl[p] /\ Extends(p) /\ pc'[p] = "report"
    BY <1>3, RenamePublishes DEF Rename, TypeOK
  <2>2. flagged' = IF corrupt[p] THEN {}
                   ELSE {f \in flagged : Seen(bl[p][f.key]) => bl[p][f.key].id = f.id}
    BY <1>3, <2>1 DEF Rename, StillDue
  <2>3. ASSUME NEW f \in flagged' PROVE Alarmed(f)' /\ disk'[f.key].id = f.id
    <3>1. f \in flagged /\ f.key \in Keys /\ ~corrupt[p] /\ InScan(p)
      BY <1>3, <2>2 DEF TypeOK, Rename
    <3>2. CASE fileKind = "json"
      BY <2>1, <2>2, <3>1, <3>2 DEF ApprovalInv, FlagsInFile, Alarmed, Extends, Seen
    <3>3. CASE fileKind = "corrupt"
      BY <2>1, <2>2, <3>1, <3>3 DEF ApprovalInv, FlagsInMemory, Recalls, Alarmed, Seen
    <3> QED BY <3>1, <3>2, <3>3 DEF ApprovalInv, TypeOK
  <2>4. fileKind' = "json"
    BY <1>3, RenamePublishes
  <2> QED BY <2>1, <2>3, <2>4 DEF ApprovalInv, FlagsInFile, Serial
<1>4. ASSUME UNCHANGED <<fileKind, disk, flagged>>,
             UNCHANGED <<bl, spec, corrupt>>,
             \A q \in Procs : InScan(q)' => InScan(q)
      PROVE  ApprovalInv'
  BY <1>0, <1>4 DEF ApprovalInv, FlagsInMemory, Recalls, Extends, Seen
<1>5. ASSUME NEW p \in Procs,
             \/ CreateTemp(p) \/ WriteTemp(p) \/ SaveFails(p)
             \/ \E s \in Servers : Unreached(p, s) \/ Reached(p, s)
      PROVE  ApprovalInv'
  <2>1. UNCHANGED <<fileKind, disk, flagged, bl, spec, corrupt>>
    BY <1>5 DEF CreateTemp, WriteTemp, SaveFails, Unreached, Reached
  <2>2. \A q \in Procs : InScan(q)' => InScan(q)
    BY <1>5 DEF CreateTemp, WriteTemp, SaveFails, AllProbed, Unreached, Reached,
               TypeOK
  <2> QED BY <1>4, <2>1, <2>2
<1>6. ASSUME NEW p \in Procs, Report(p) \/ Crash(p) PROVE ApprovalInv'
  <2>1. UNCHANGED <<fileKind, disk, flagged>> /\ ~InScan(p)'
    BY <1>6 DEF Report, Crash, TypeOK
  <2> QED BY <1>0, <2>1 DEF ApprovalInv, Serial, FlagsInMemory
<1>7. ASSUME NEW s \in Servers, Repoint(s) PROVE ApprovalInv'
  BY <1>4, <1>7 DEF Repoint
<1>10. CASE Discard
  <2>1. \A k \in Keys : ~Seen(disk'[k])
    BY <1>10 DEF Discard, Blank, NoEntry, Seen
  <2> QED BY <1>10, <2>1 DEF Discard, ApprovalInv, Extends, Seen
<1>11. CASE Damage
  <2>1. /\ \A k \in Keys : ~Seen(disk'[k])
        /\ \A p \in Procs : Extends(p)'
    BY <1>11 DEF Damage, Blank, NoEntry, Seen, Extends
  <2>2. CASE fileKind' = "empty" /\ flagged' = {}
    BY <2>1, <2>2 DEF ApprovalInv
  <2>3. CASE fileKind' = "corrupt" /\ flagged' = flagged
    <3>1. UNCHANGED <<pc, bl, spec, corrupt, flagged>>
      BY <1>11, <2>3 DEF Damage
    <3>2. ASSUME NEW p \in Procs, InScan(p), ~corrupt[p], NEW f \in flagged
          PROVE  Recalls(p, f)
      <4>1. f.key \in Keys /\ Extends(p)
        BY <3>2 DEF TypeOK, ApprovalInv
      <4>2. CASE fileKind = "json"
        BY <3>2, <4>1, <4>2 DEF ApprovalInv, FlagsInFile, Alarmed, Extends, Recalls
      <4>3. CASE fileKind = "corrupt"
        BY <3>2, <4>3 DEF ApprovalInv, FlagsInMemory
      <4> QED BY <3>2, <4>2, <4>3 DEF ApprovalInv, TypeOK
    <3>3. FlagsInMemory'
      BY <3>1, <3>2 DEF FlagsInMemory, Recalls, Seen
    <3> QED BY <2>1, <2>3, <3>3 DEF ApprovalInv
  <2> QED BY <1>11, <2>2, <2>3 DEF Damage
<1>12. CASE PowerLoss
  <2>1. UNCHANGED <<fileKind, disk, flagged>> /\ \A p \in Procs : ~InScan(p)'
    BY <1>12 DEF PowerLoss, Serial
  <2> QED BY <1>0, <2>1 DEF ApprovalInv, FlagsInMemory
<1>13. CASE Sync \/ UNCHANGED vars
  BY <1>4, <1>13 DEF Sync, vars
<1> QED
  BY <1>1, <1>2, <1>3, <1>5, <1>6, <1>7, <1>10, <1>11, <1>12, <1>13
  DEF Next, Environment, Scan

\* SBX-6 for every number of tools, hashes and scans: a description that was
\* reported as drift never becomes the approved one, and its tool never loses
\* its entry, by scanning alone, as long as nobody deletes the file or leaves
\* one without entries in its place.
THEOREM PoisonNeverApproved ==
    ASSUME Serial
    PROVE  Spec => []PoisonStaysFlagged
<1>1. Init => SaveInv
  BY DEF Init, SaveInv
<1>2. ApprovalInv => PoisonStaysFlagged
  BY DEF ApprovalInv, PoisonStaysFlagged, FlagsInFile
<1> QED
  BY <1>1, <1>2, ApprovalInvInit, ApprovalInvNext, SaveInvNext, TypeCorrect,
     PTL DEF Spec

\* The conjunction of the inductive invariants holds in every behaviour.
LEMMA ApprovalInvariant == ASSUME Serial PROVE Spec => [](TypeOK /\ SaveInv /\ ApprovalInv)
<1>1. Init => SaveInv
  BY DEF Init, SaveInv
<1> QED
  BY <1>1, ApprovalInvInit, ApprovalInvNext, SaveInvNext, TypeCorrect, PTL DEF Spec

\* The file implements the abstract register: a scan only inventories tools
\* that have no approval or whose server has another identity, and only
\* deleting, emptying or damaging the file takes an approval away.
THEOREM ImplementsRegister ==
    ASSUME Serial
    PROVE  Spec => RegisterSpec
<1> DEFINE approvedBar == [k \in Keys |-> [hash |-> disk[k].hash, id |-> disk[k].id]]
<1>1. Init => Register!Init
  BY DEF Init, Register!Init, Register!NoApproval, Blank, NoEntry
<1>2. ASSUME TypeOK, SaveInv, ApprovalInv, [Next]_vars
      PROVE  [Register!Next]_approvedBar
  <2>1. CASE UNCHANGED disk
    BY <2>1
  <2>2. CASE Discard \/ Damage
    BY <2>2 DEF Discard, Damage, Register!Next, Register!Discard, Register!NoApproval,
                Blank, NoEntry
  <2>3. ASSUME NEW p \in Procs, Rename(p) PROVE Register!Inventory
    <3>1. disk' = bl[p] /\ Extends(p)
      BY <1>2, <2>3, RenamePublishes
    <3>2. disk' \in Entries /\ disk \in Entries
      BY <1>2, <3>1 DEF TypeOK
    <3>3. approvedBar' \in [Keys -> Register!Approval]
      BY <3>2 DEF Entries, Entry, Register!Approval
    <3>4. ASSUME NEW k \in Keys
          PROVE  \/ approvedBar'[k] = approvedBar[k]
                 \/ approvedBar[k] = Register!NoApproval
                 \/ /\ approvedBar'[k].hash \in Hashes
                    /\ approvedBar'[k].id # approvedBar[k].id
      <4>1. CASE ~Seen(disk[k])
        BY <1>2, <4>1 DEF TypeOK, WellFormed, Register!NoApproval, Seen
      <4>2. CASE Seen(disk[k]) /\ bl[p][k].id = disk[k].id
        BY <3>1, <4>2 DEF Extends
      <4>3. CASE Seen(disk[k]) /\ bl[p][k].id # disk[k].id
        BY <3>1, <3>2, <4>3 DEF Extends, Seen, Entries, Entry
      <4> QED BY <4>1, <4>2, <4>3
    <3> QED BY <3>3, <3>4 DEF Register!Inventory
  <2>4. [Next]_vars => \/ UNCHANGED disk \/ Discard \/ Damage \/ PowerLoss
                       \/ \E p \in Procs : Rename(p)
    BY DEF Next, Environment, Scan, Load, Unreached, Reached, DiffTool,
           CreateTemp, WriteTemp, SaveFails, Report, Repoint, Sync, Crash,
           vars, fileVars
  <2>5. PowerLoss => UNCHANGED disk
    BY DEF PowerLoss, Serial
  <2> QED BY <1>2, <2>1, <2>2, <2>3, <2>4, <2>5 DEF Register!Next
<1> QED
  BY <1>1, <1>2, ApprovalInvariant, PTL DEF Spec, RegisterSpec, Register!Spec

\* Step by step: no scan changes an approved hash while the server keeps its
\* identity.
THEOREM ApprovedHashNeverRewritten ==
    ASSUME Serial
    PROVE  Spec => ApprovedHashStable
<1>1. ASSUME TypeOK, SaveInv, ApprovalInv, [Next]_vars,
             NEW k \in Keys, Seen(disk[k]), disk'[k].hash # disk[k].hash
      PROVE  fileKind' # "json" \/ (Seen(disk'[k]) /\ disk'[k].id # disk[k].id)
  <2>1. CASE \E p \in Procs : Rename(p)
    <3>1. PICK p \in Procs : Rename(p)
      BY <2>1
    <3>2. disk' = bl[p] /\ Extends(p)
      BY <1>1, <3>1, RenamePublishes
    <3> QED BY <1>1, <3>2 DEF Extends, Seen
  <2>2. CASE Discard \/ Damage \/ PowerLoss
    BY <1>1, <2>2 DEF Discard, Damage, PowerLoss
  <2>3. [Next]_vars => \/ UNCHANGED disk \/ Discard \/ Damage \/ PowerLoss
                       \/ \E p \in Procs : Rename(p)
    BY DEF Next, Environment, Scan, Load, Unreached, Reached, DiffTool,
           CreateTemp, WriteTemp, SaveFails, Report, Repoint, Sync, Crash,
           vars, fileVars
  <2> QED BY <1>1, <2>1, <2>2, <2>3
<1>2. ASSUME TypeOK, SaveInv, ApprovalInv
      PROVE  [Next]_vars =>
               [\A k \in Keys :
                  (Seen(disk[k]) /\ disk'[k].hash # disk[k].hash)
                      => \/ fileKind' # "json"
                         \/ Seen(disk'[k]) /\ disk'[k].id # disk[k].id]_vars
  BY <1>1, <1>2
<1> QED
  BY <1>2, ApprovalInvariant, PTL DEF Spec, ApprovedHashStable

-----------------------------------------------------------------------------
(***************************************************************************)
(* Pending hashes, for any number of concurrent scans and any faults.      *)
(***************************************************************************)
LEMMA PendingNext ==
    TypeOK /\ PendingIsUnapproved /\ [Next]_vars => PendingIsUnapproved'
<1> SUFFICES ASSUME TypeOK, PendingIsUnapproved, [Next]_vars
             PROVE  PendingIsUnapproved'
  OBVIOUS
<1> USE DEF Goto, fileVars, probeVars
<1>0. PendingDiffers(Blank)
  BY DEF PendingDiffers, Blank, NoEntry
<1>1. ASSUME NEW p \in Procs, DiffTool(p) PROVE PendingIsUnapproved'
  <2> DEFINE obs == Head(listing[p])
             k == <<cur[p], obs.tool>>
             i == spec[p][cur[p]]
             e == bl[p][k]
             d == IF StartsOver(e, i) THEN Inventoried(obs.hash, i)
                                      ELSE Compared(e, obs.hash)
  <2>1. obs \in Observation
    BY <1>1, HeadTail DEF DiffTool, TypeOK
  <2>2. k \in Keys /\ obs.hash \in Hashes
    BY <2>1 DEF Observation, Keys, TypeOK
  <2>3. e \in Entry
    BY <2>2 DEF TypeOK, Entries
  <2>4. d.pending # NoHash => Seen(d) /\ d.pending # d.hash
    BY <2>2, <2>3 DEF StartsOver, Inventoried, Compared, Entry, Seen
  <2>5. bl' = [bl EXCEPT ![p][k] = d] /\ disk' = disk
    BY <1>1 DEF DiffTool
  <2> HIDE DEF d, k
  <2> QED BY <2>2, <2>4, <2>5 DEF PendingIsUnapproved, PendingDiffers, TypeOK, Entries, Seen
<1>2. ASSUME NEW p \in Procs, Load(p) \/ Rename(p) PROVE PendingIsUnapproved'
  <2>1. disk' \in {disk, Blank, bl[p]}
    BY <1>2 DEF Load, Rename
  <2>2. \A q \in Procs : bl'[q] \in {bl[q], disk, Blank}
    BY <1>2 DEF Load, Loaded, Rename, TypeOK
  <2>3. PendingDiffers(disk')
    BY <1>0, <2>1 DEF PendingIsUnapproved
  <2>4. \A q \in Procs : PendingDiffers(bl'[q])
    BY <1>0, <2>2 DEF PendingIsUnapproved
  <2> QED BY <2>3, <2>4 DEF PendingIsUnapproved, PendingDiffers, Seen
<1>3. ASSUME NEW p \in Procs, Report(p) \/ Crash(p) PROVE PendingIsUnapproved'
  <2>1. disk' = disk /\ \A q \in Procs : bl'[q] \in {bl[q], Blank}
    BY <1>3 DEF Report, Crash, Forget
  <2>2. \A q \in Procs : PendingDiffers(bl'[q])
    BY <1>0, <2>1 DEF PendingIsUnapproved
  <2> QED BY <2>1, <2>2 DEF PendingIsUnapproved, PendingDiffers, Seen
<1>4. CASE Discard \/ Damage \/ PowerLoss
  BY <1>0, <1>4 DEF Discard, Damage, PowerLoss, Forget, PendingIsUnapproved, PendingDiffers, Seen
<1>5. CASE UNCHANGED <<disk, bl>>
  BY <1>5 DEF PendingIsUnapproved, PendingDiffers, Seen
<1> QED
  BY <1>1, <1>2, <1>3, <1>4, <1>5
  DEF Next, Environment, Scan, Unreached, Reached, CreateTemp, WriteTemp,
      SaveFails, Repoint, Sync, vars

\* The pending hash of an entry is always one the entry has not approved.
THEOREM PendingNeverApproved == Spec => []PendingIsUnapproved
<1>1. Init => PendingIsUnapproved
  BY DEF Init, PendingIsUnapproved, PendingDiffers, Blank, NoEntry
<1> QED BY <1>1, PendingNext, TypeCorrect, PTL DEF Spec

-----------------------------------------------------------------------------
(***************************************************************************)
(* The verdict of MCP007, for any number of concurrent scans.  A fact of a *)
(* scan is tied to the entry that Diff left for its tool: it has the       *)
(* identity the scan started with, so no later listing of the same tool    *)
(* starts over, and the approved hash a fact was compared with stays.  The *)
(* verdict of a scan that has not ended is not given yet.                  *)
(***************************************************************************)
Backed(f, entries, ids) ==
    /\ f \in Fact
    /\ ~StartsOver(entries[f.key], ids[f.key[1]])
    /\ f.drifted \/ entries[f.key].hash = f.hash

FactsInv ==
    /\ facts \in [Procs -> SUBSET Fact]
    /\ verdict \in [Procs -> Verdicts]
    /\ \A p \in Procs : /\ IF pc[p] = "idle" THEN facts[p] = {} ELSE verdict[p] = "none"
                        /\ \A f \in facts[p] : Backed(f, bl[p], spec[p])

\* Diff leaves the entry it reports on, whatever the entry was.
LEMMA DiffBacks ==
    ASSUME NEW e \in Entry, NEW h \in Hashes, NEW i \in Ids
    PROVE  LET d == IF StartsOver(e, i) THEN Inventoried(h, i) ELSE Compared(e, h)
           IN  /\ ~StartsOver(d, i)
               /\ (~StartsOver(e, i) /\ e.hash # h) \/ d.hash = h
               /\ ~StartsOver(e, i) => d.hash = e.hash
BY NoHashAssumption, NoIdAssumption
   DEF Entry, Seen, StartsOver, Inventoried, Compared

\* The step that compares a tool.
LEMMA ObserveBacks ==
    ASSUME TypeOK, FactsInv, NEW p \in Procs, Observe(p)
    PROVE  FactsInv'
<1> DEFINE obs == Head(listing[p])
           s == cur[p]
           k == <<s, obs.tool>>
           i == spec[p][s]
           e == bl[p][k]
           d == IF StartsOver(e, i) THEN Inventoried(obs.hash, i)
                                    ELSE Compared(e, obs.hash)
           new == [key |-> k, hash |-> obs.hash,
                   drifted |-> ~StartsOver(e, i) /\ e.hash # obs.hash]
<1>1. obs \in Observation
  BY HeadTail DEF Observe, DiffTool, TypeOK
<1>2. obs.hash \in Hashes /\ k \in Keys /\ i \in Ids /\ s \in Servers /\ k[1] = s
  BY <1>1 DEF Observation, Keys, TypeOK
<1>3. e \in Entry
  BY <1>2 DEF TypeOK, Entries
<1>4. /\ ~StartsOver(d, i)
      /\ (~StartsOver(e, i) /\ e.hash # obs.hash) \/ d.hash = obs.hash
      /\ ~StartsOver(e, i) => d.hash = e.hash
  <2> HIDE DEF obs, k, i, e
  <2> QED BY <1>2, <1>3, DiffBacks
<1>5. /\ bl' = [bl EXCEPT ![p][k] = d] /\ pc[p] = "probe"
      /\ facts' = [facts EXCEPT ![p] = @ \cup {new}]
      /\ UNCHANGED <<pc, spec, verdict>>
  BY DEF Observe, DiffTool
<1>6. new \in Fact /\ new.key = k /\ new.hash = obs.hash
      /\ new.drifted = (~StartsOver(e, i) /\ e.hash # obs.hash)
  <2> HIDE DEF k, obs, i, e
  <2> QED BY <1>2 DEF Fact
<1> HIDE DEF new, d, e, i, k, s, obs
<1>7. /\ bl'[p][k] = d /\ spec' = spec
      /\ \A x \in Keys : x # k => bl'[p][x] = bl[p][x]
      /\ \A q \in Procs : q # p => bl'[q] = bl[q]
  BY <1>2, <1>5 DEF TypeOK, Entries
<1>8. Backed(new, bl'[p], spec'[p])
  BY <1>2, <1>4, <1>6, <1>7 DEF Backed, i
<1>9. ASSUME NEW f \in facts[p] PROVE Backed(f, bl'[p], spec'[p])
  <2>1. Backed(f, bl[p], spec[p]) /\ f.key \in Keys
    BY <1>9 DEF FactsInv, Backed, Fact
  <2>2. CASE f.key = k
    BY <1>2, <1>4, <1>7, <2>1, <2>2 DEF Backed, e, i
  <2>3. CASE f.key # k
    BY <1>7, <2>1, <2>3 DEF Backed
  <2> QED BY <2>2, <2>3
<1>10. facts' \in [Procs -> SUBSET Fact]
  BY <1>5, <1>6 DEF FactsInv
<1>11. facts'[p] = facts[p] \cup {new} /\ \A q \in Procs : q # p => facts'[q] = facts[q]
  BY <1>5 DEF FactsInv
<1>12. ASSUME NEW q \in Procs
       PROVE  /\ IF pc'[q] = "idle" THEN facts'[q] = {} ELSE verdict'[q] = "none"
              /\ \A f \in facts'[q] : Backed(f, bl'[q], spec'[q])
  BY <1>5, <1>7, <1>8, <1>9, <1>11 DEF FactsInv
<1> QED BY <1>5, <1>10, <1>12 DEF FactsInv

\* Every other step keeps the facts of a scan with its copy of the file, or
\* drops both.
LEMMA FactsNext ==
    TypeOK /\ FactsInv /\ [VNext]_<<vars, facts, verdict>> => FactsInv'
<1> SUFFICES ASSUME TypeOK, FactsInv, [VNext]_<<vars, facts, verdict>> PROVE FactsInv'
  OBVIOUS
<1>1. ASSUME NEW p \in Procs, Begin(p) PROVE FactsInv'
  <2>1. /\ facts' = facts /\ facts[p] = {} /\ verdict' = [verdict EXCEPT ![p] = "none"]
        /\ \A q \in Procs : q # p => bl'[q] = bl[q] /\ spec'[q] = spec[q] /\ pc'[q] = pc[q]
        /\ pc'[p] # "idle"
    BY <1>1 DEF Begin, Load, Goto, FactsInv, TypeOK
  <2>2. verdict' \in [Procs -> Verdicts]
    BY <2>1 DEF FactsInv, Verdicts
  <2> QED BY <2>1, <2>2 DEF FactsInv
<1>2. ASSUME NEW p \in Procs, Observe(p) PROVE FactsInv'
  BY <1>2, ObserveBacks
<1>3. ASSUME NEW p \in Procs, Judge(p) \/ Killed(p) PROVE FactsInv'
  <2>1. /\ facts' = [facts EXCEPT ![p] = {}] /\ spec' = spec /\ pc'[p] = "idle"
        /\ \A q \in Procs : q # p => bl'[q] = bl[q] /\ pc'[q] = pc[q]
    BY <1>3 DEF Judge, Report, Killed, Crash, Goto, Forget, TypeOK
  <2>2. /\ facts' \in [Procs -> SUBSET Fact] /\ facts'[p] = {}
        /\ \A q \in Procs : q # p => facts'[q] = facts[q]
    BY <2>1 DEF FactsInv
  <2>3. /\ verdict' \in [Procs -> Verdicts]
        /\ \A q \in Procs : q # p => verdict'[q] = verdict[q]
    BY <1>3 DEF Judge, Killed, Verdict, Verdicts, FactsInv
  <2> QED BY <2>1, <2>2, <2>3 DEF FactsInv
<1>4. CASE Blackout
  BY <1>4 DEF Blackout, PowerLoss, FactsInv
<1>5. ASSUME NEW p \in Procs, Silent(p), UNCHANGED <<facts, verdict>> PROVE FactsInv'
  <2>1. UNCHANGED <<bl, spec>> /\ \A q \in Procs : pc'[q] = "idle" <=> pc[q] = "idle"
    BY <1>5 DEF Silent, CreateTemp, WriteTemp, Rename, SaveFails, Unreached, Reached,
                AllProbed, Goto, probeVars, TypeOK
  <2> QED BY <1>5, <2>1 DEF FactsInv
<1>6. CASE Outside /\ UNCHANGED <<facts, verdict>>
  <2>1. UNCHANGED <<bl, spec, pc>>
    BY <1>6 DEF Outside, Repoint, Discard, Damage, Sync, probeVars
  <2> QED BY <1>6, <2>1 DEF FactsInv
<1>7. CASE UNCHANGED <<vars, facts, verdict>>
  BY <1>7 DEF vars, probeVars, FactsInv
<1> QED BY <1>1, <1>2, <1>3, <1>4, <1>5, <1>6, <1>7 DEF VNext

\* Every step of a scan with its verdict is a step of the scan.
LEMMA VerdictSteps == [VNext]_<<vars, facts, verdict>> => [Next]_vars
BY DEF VNext, Begin, Observe, Judge, Killed, Blackout, Silent, Outside, Next,
       Environment, Scan

\* A Pass of MCP007 is earned: the scan compared something, and every
\* description it saw is the one its own copy of the file has approved.
THEOREM PassIsEarned == VSpec => PassIsClean
<1>1. VInit => Init /\ FactsInv
  BY DEF VInit, Init, FactsInv, Verdicts
<1>2. ASSUME TypeOK, FactsInv, VNext, NEW p \in Procs,
             pc[p] = "report", pc'[p] = "idle", verdict'[p] = "pass"
      PROVE  facts[p] # {} /\ \A f \in facts[p] : bl[p][f.key].hash = f.hash
  <2>1. verdict[p] = "none"
    BY <1>2 DEF FactsInv
  <2>2. PICK q \in Procs : Judge(q) \/ Begin(q)
    BY <1>2, <2>1 DEF VNext, Observe, Killed, Blackout
  <2>3. q = p /\ Judge(p)
    BY <1>2, <2>2 DEF Judge, Begin, Report, Load, Goto, TypeOK
  <2>4. Verdict(p) = "pass"
    BY <1>2, <2>3 DEF Judge, FactsInv
  <2>5. facts[p] # {} /\ \A f \in facts[p] : ~f.drifted
    BY <2>4 DEF Verdict
  <2> QED BY <1>2, <2>5 DEF FactsInv, Backed
<1>3. ASSUME TypeOK, FactsInv
      PROVE  [VNext]_<<vars, facts, verdict>> =>
               [\A p \in Procs :
                  (pc[p] = "report" /\ pc'[p] = "idle" /\ verdict'[p] = "pass")
                      => /\ facts[p] # {}
                         /\ \A f \in facts[p] : bl[p][f.key].hash = f.hash]_<<vars, verdict>>
  BY <1>2, <1>3
<1>4. ASSUME TypeOK, FactsInv, [VNext]_<<vars, facts, verdict>> PROVE (TypeOK /\ FactsInv)'
  BY <1>4, TypeNext, FactsNext, VerdictSteps
<1> QED BY <1>1, <1>3, <1>4, TypeInit, PTL DEF VSpec, PassIsClean
=============================================================================
