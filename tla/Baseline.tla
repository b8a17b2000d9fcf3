------------------------------ MODULE Baseline ------------------------------
(***************************************************************************)
(* The MCP tool-description baseline, ~/.keelix/mcp-baseline.json          *)
(* (internal/mcpprobe/baseline.go), and the scans that use it              *)
(* (internal/mcpprobe/probe.go, Probe and probeOne).                       *)
(*                                                                         *)
(* A scan loads the file once, probes the configured servers, compares     *)
(* every advertised tool with the loaded entries, and finally replaces the *)
(* file by a temporary one that it renames.  Nothing locks the file, so    *)
(* scans of several keelix processes interleave at those steps.  The       *)
(* environment re-points servers, deletes or damages the file, kills a     *)
(* process, or loses power.                                                *)
(*                                                                         *)
(* Abstractions: a description is its hash; "client|server" is one member  *)
(* of Servers; the FirstSeen/LastSeen timestamps are left out (nothing     *)
(* reads them back); what happens between keelix and a server is modelled  *)
(* in StdioTransport and Session, and is here one choice: the server       *)
(* answers with its list or it does not.  Servers are probed in any order, *)
(* since nothing passes from one to the next.                              *)
(***************************************************************************)
EXTENDS Naturals, Sequences

CONSTANTS Procs,     \* keelix processes that may scan at the same time
          Servers,   \* configured MCP servers
          Tools,     \* tool names
          Hashes,    \* canonicalHash of a tool's name and description
          Ids,       \* server identities (ServerIdentity: command or URL)
          Listings,  \* answers to tools/list: sequences of [tool, hash]
          NoHash,    \* the empty hash: no entry, or nothing pending
          NoId,
          Faults     \* which faults may occur, a subset of FaultKinds

\* "latewrite": the file system may make a rename last before the data.
FaultKinds == {"io", "crash", "corrupt", "powerloss", "latewrite"}

Observation == [tool : Tools, hash : Hashes]

ASSUME ListingsAssumption == Listings \subseteq Seq(Observation)
ASSUME NoHashAssumption == NoHash \notin Hashes
ASSUME NoIdAssumption == NoId \notin Ids
ASSUME FaultsAssumption == Faults \subseteq FaultKinds

Keys == Servers \X Tools

(***************************************************************************)
(* One persisted tool fingerprint (type baselineEntry).  A key without an  *)
(* entry maps to NoEntry.                                                  *)
(***************************************************************************)
Entry == [hash    : Hashes \cup {NoHash},
          pending : Hashes \cup {NoHash},
          id      : Ids \cup {NoId}]

NoEntry == [hash |-> NoHash, pending |-> NoHash, id |-> NoId]

Blank == [k \in Keys |-> NoEntry]

Seen(e) == e.hash # NoHash

VARIABLES
    fileKind,   \* "missing", "empty" (0 bytes, null or {}), "corrupt" or "json"
    disk,       \* the entries of the file; Blank unless fileKind = "json"
    unsynced,   \* the last rename has not reached the disk yet (Save never syncs)
    conf,       \* server |-> the identity the operator configured
    pc,         \* process |-> where its scan is
    spec,       \* process |-> the identities its ServerSpecs were built with
    todo,       \* process |-> servers not probed yet
    cur,        \* process |-> server being compared
    listing,    \* process |-> tools of cur not compared yet
    bl,         \* process |-> entries of its in-memory Baseline
    corrupt,    \* process |-> MCPProbe.CorruptBaseline
    tmp,        \* process |-> its temporary file: "none", "partial" or "full"
    flagged     \* history: [key, id, hash] reported Drifted against the file

fileVars  == <<fileKind, disk, unsynced>>
probeVars == <<spec, todo, cur, listing, bl, corrupt>>
vars == <<fileVars, conf, pc, probeVars, tmp, flagged>>

Phases == {"idle", "probe", "write", "rename", "report"}

Init ==
    /\ fileKind = "missing" /\ disk = Blank /\ unsynced = FALSE
    /\ conf \in [Servers -> Ids]
    /\ pc = [p \in Procs |-> "idle"]
    /\ spec = [p \in Procs |-> conf]
    /\ todo = [p \in Procs |-> {}]
    /\ cur \in [Procs -> Servers]
    /\ listing = [p \in Procs |-> <<>>]
    /\ bl = [p \in Procs |-> Blank]
    /\ corrupt = [p \in Procs |-> FALSE]
    /\ tmp = [p \in Procs |-> "none"]
    /\ flagged = {}

Goto(p, phase) == pc' = [pc EXCEPT ![p] = phase]

\* The local state of the scans of P is gone.
Forget(P) ==
    /\ todo' = [p \in Procs |-> IF p \in P THEN {} ELSE todo[p]]
    /\ listing' = [p \in Procs |-> IF p \in P THEN <<>> ELSE listing[p]]
    /\ bl' = [p \in Procs |-> IF p \in P THEN Blank ELSE bl[p]]
    /\ corrupt' = [p \in Procs |-> IF p \in P THEN FALSE ELSE corrupt[p]]
    /\ UNCHANGED <<spec, cur>>

-----------------------------------------------------------------------------
(***************************************************************************)
(* Loading.                                                                *)
(***************************************************************************)

\* What LoadBaseline returns as entries, newBaseline() replacing an error.
Loaded_Ignored == Blank
Loaded == IF fileKind = "json" THEN disk ELSE Blank

\* LoadBaseline fails on a file it cannot read or parse; a missing file and
\* one without entries are the first run.
LoadFails_Never == FALSE
LoadFails == fileKind = "corrupt"

\* Probe begins: the specs were derived from the signals just collected.
Load(p) ==
    /\ pc[p] = "idle"
    /\ Goto(p, "probe")
    /\ spec' = [spec EXCEPT ![p] = conf]
    /\ todo' = [todo EXCEPT ![p] = Servers]
    /\ bl' = [bl EXCEPT ![p] = Loaded]
    /\ corrupt' = [corrupt EXCEPT ![p] = LoadFails]
    /\ UNCHANGED <<fileVars, conf, cur, listing, tmp, flagged>>

-----------------------------------------------------------------------------
(***************************************************************************)
(* Probing one server after the other.                                     *)
(***************************************************************************)

\* probeOne returns with an error: nothing is compared for this server.
Unreached(p, s) ==
    /\ pc[p] = "probe" /\ listing[p] = <<>> /\ s \in todo[p]
    /\ todo' = [todo EXCEPT ![p] = @ \ {s}]
    /\ UNCHANGED <<fileVars, conf, pc, spec, cur, listing, bl, corrupt,
                   tmp, flagged>>

\* discover returned the tools of s: any list, for between two scans a server
\* may change what it advertises.
Reached(p, s) ==
    /\ pc[p] = "probe" /\ listing[p] = <<>> /\ s \in todo[p]
    /\ todo' = [todo EXCEPT ![p] = @ \ {s}]
    /\ cur' = [cur EXCEPT ![p] = s]
    /\ \E l \in Listings : listing' = [listing EXCEPT ![p] = l]
    /\ UNCHANGED <<fileVars, conf, pc, spec, bl, corrupt, tmp, flagged>>

\* The entry Diff writes for a first observation or a re-pointed server.
Inventoried(h, i) == [hash |-> h, pending |-> NoHash, id |-> i]

\* The entry Diff leaves when the identity is unchanged: the approved hash
\* stays, a different observation is only recorded as pending.
Compared_SwapsPending(e, h) ==
    [e EXCEPT !.pending = IF e.hash # h THEN e.hash ELSE NoHash]
Compared(e, h) == [e EXCEPT !.pending = IF e.hash # h THEN h ELSE NoHash]

\* Diff starts over for a key it has not seen, or under a new identity.
StartsOver(e, i) == ~Seen(e) \/ e.id # i

\* Baseline.Diff for the next tool of the list.  A drift against an entry
\* that the file holds too is what flagged remembers.
DiffTool(p) ==
    /\ pc[p] = "probe" /\ listing[p] # <<>>
    /\ LET obs == Head(listing[p])
           k   == <<cur[p], obs.tool>>
           i   == spec[p][cur[p]]
           e   == bl[p][k]
           drifted == ~StartsOver(e, i) /\ e.hash # obs.hash
       IN  /\ bl' = [bl EXCEPT ![p][k] = IF StartsOver(e, i)
                                         THEN Inventoried(obs.hash, i)
                                         ELSE Compared(e, obs.hash)]
           /\ flagged' = IF drifted /\ Seen(disk[k]) /\ disk[k].id = i
                         THEN flagged \cup {[key |-> k, id |-> i, hash |-> obs.hash]}
                         ELSE flagged
    /\ listing' = [listing EXCEPT ![p] = Tail(@)]
    /\ UNCHANGED <<fileVars, conf, pc, spec, todo, cur, corrupt, tmp>>

-----------------------------------------------------------------------------
(***************************************************************************)
(* Saving: CreateTemp, write (with Chmod and Close), Rename.  Probe        *)
(* ignores the error Save returns.                                         *)
(***************************************************************************)

AllProbed(p) == pc[p] = "probe" /\ todo[p] = {} /\ listing[p] = <<>>

CreateTemp(p) ==
    /\ AllProbed(p)
    /\ Goto(p, "write")
    /\ tmp' = [tmp EXCEPT ![p] = "partial"]
    /\ UNCHANGED <<fileVars, conf, probeVars, flagged>>

WriteTemp(p) ==
    /\ pc[p] = "write"
    /\ Goto(p, "rename")
    /\ tmp' = [tmp EXCEPT ![p] = "full"]
    /\ UNCHANGED <<fileVars, conf, probeVars, flagged>>

\* A drift flag lives as long as the file speaks of the same identity: a
\* re-pointed server is a new one (SBX-8(b)).  A scan that rebuilds a corrupt
\* file settles every flag: its CorruptBaseline is reported instead (SBX-9(b)).
StillDue(entries) ==
    {f \in flagged : Seen(entries[f.key]) => entries[f.key].id = f.id}

\* os.Rename replaces the file in one step.
Rename(p) ==
    /\ pc[p] = "rename"
    /\ Goto(p, "report")
    /\ fileKind' = IF tmp[p] = "full" THEN "json" ELSE "corrupt"
    /\ disk' = IF tmp[p] = "full" THEN bl[p] ELSE Blank
    /\ unsynced' = TRUE
    /\ tmp' = [tmp EXCEPT ![p] = "none"]
    /\ flagged' = IF corrupt[p] THEN {} ELSE StillDue(disk')
    /\ UNCHANGED <<conf, probeVars>>

\* MkdirAll, CreateTemp, Write, Chmod, Close or Rename fails: Save removes
\* the temporary file and returns, and the scan goes on to its report.
SaveFails_Continues(p) ==
    /\ "io" \in Faults /\ pc[p] = "write"
    /\ Goto(p, "rename")
    /\ UNCHANGED <<fileVars, conf, probeVars, tmp, flagged>>
SaveFails(p) ==
    /\ "io" \in Faults
    /\ AllProbed(p) \/ pc[p] \in {"write", "rename"}
    /\ Goto(p, "report")
    /\ tmp' = [tmp EXCEPT ![p] = "none"]
    /\ UNCHANGED <<fileVars, conf, probeVars, flagged>>

\* The scan reports; MCP007 turns CorruptBaseline into a Critical finding.
Report(p) ==
    /\ pc[p] = "report"
    /\ Goto(p, "idle")
    /\ Forget({p})
    /\ UNCHANGED <<fileVars, conf, tmp, flagged>>

Scan(p) ==
    \/ Load(p) \/ DiffTool(p) \/ CreateTemp(p) \/ WriteTemp(p) \/ Rename(p)
    \/ SaveFails(p) \/ Report(p)
    \/ \E s \in Servers : Unreached(p, s) \/ Reached(p, s)

-----------------------------------------------------------------------------
(***************************************************************************)
(* The environment.                                                        *)
(***************************************************************************)

\* The operator edits the client configuration.
Repoint(s) ==
    /\ \E i \in Ids : conf' = [conf EXCEPT ![s] = i]
    /\ UNCHANGED <<fileVars, pc, probeVars, tmp, flagged>>

\* The operator deletes the file: every earlier flag is settled.
Discard ==
    /\ fileKind' = "missing" /\ disk' = Blank /\ unsynced' = FALSE
    /\ flagged' = {}
    /\ UNCHANGED <<conf, pc, probeVars, tmp>>

\* Something else damages the file.  Content that does not parse keeps every
\* flag; 0 bytes, null or {} parse to no entries, and LoadBaseline takes them
\* for a first run: the flags are lost without a word.
Damage ==
    /\ "corrupt" \in Faults
    /\ \/ fileKind' = "corrupt" /\ flagged' = flagged
       \/ fileKind' = "empty" /\ flagged' = {}
    /\ disk' = Blank /\ unsynced' = FALSE
    /\ UNCHANGED <<conf, pc, probeVars, tmp>>

\* A killed process leaves its temporary file, which no later scan reads.
Crash(p) ==
    /\ "crash" \in Faults
    /\ pc[p] # "idle"
    /\ Goto(p, "idle")
    /\ tmp' = [tmp EXCEPT ![p] = "none"]
    /\ Forget({p})
    /\ UNCHANGED <<fileVars, conf, flagged>>

\* The kernel writes the renamed file back.
Sync ==
    /\ unsynced
    /\ unsynced' = FALSE
    /\ UNCHANGED <<fileKind, disk, conf, pc, probeVars, tmp, flagged>>

\* Power fails.  Before the write-back of a renamed file, on a file system that
\* allows it, the rename survives and the data do not.
PowerLoss ==
    /\ "powerloss" \in Faults
    /\ \/ UNCHANGED <<fileKind, disk>>
       \/ /\ "latewrite" \in Faults /\ unsynced
          /\ fileKind' = "empty" /\ disk' = Blank
    /\ unsynced' = FALSE
    /\ pc' = [p \in Procs |-> "idle"]
    /\ tmp' = [p \in Procs |-> "none"]
    /\ Forget(Procs)
    /\ UNCHANGED <<conf, flagged>>

Environment ==
    \/ \E s \in Servers : Repoint(s)
    \/ Discard \/ Damage \/ Sync \/ PowerLoss
    \/ \E p \in Procs : Crash(p)

Next == Environment \/ \E p \in Procs : Scan(p)

Spec == Init /\ [][Next]_vars

-----------------------------------------------------------------------------
(***************************************************************************)
(* Properties.                                                             *)
(***************************************************************************)

Entries == [Keys -> Entry]

\* An entry exists with a hash and an identity, or with neither.
WellFormed(entries) == \A k \in Keys : Seen(entries[k]) <=> entries[k].id # NoId

\* The type invariant of every variable of a scan and of the file.
TypeOK ==
    /\ fileKind \in {"missing", "empty", "corrupt", "json"}
    /\ disk \in Entries /\ WellFormed(disk)
    /\ fileKind # "json" => disk = Blank
    /\ unsynced \in BOOLEAN
    /\ conf \in [Servers -> Ids]
    /\ pc \in [Procs -> Phases]
    /\ spec \in [Procs -> [Servers -> Ids]]
    /\ todo \in [Procs -> SUBSET Servers]
    /\ cur \in [Procs -> Servers]
    /\ listing \in [Procs -> Seq(Observation)]
    /\ bl \in [Procs -> Entries] /\ \A p \in Procs : WellFormed(bl[p])
    /\ corrupt \in [Procs -> BOOLEAN]
    /\ tmp \in [Procs -> {"none", "partial", "full"}]
    /\ flagged \subseteq [key : Keys, id : Ids, hash : Hashes]

\* The file still holds, for the flagged tool, an approved hash that differs
\* from the flagged one, so the next scan that sees it fails MCP007 again.
Alarmed(f) == LET e == disk[f.key] IN Seen(e) /\ e.hash # f.hash

\* Baseline.Diff, SBX-6, and LoadBaseline, SBX-9(b): once a changed
\* description has been reported as drift, no later save makes it, or the
\* absence of an entry, the approved state, until the file is deleted or
\* replaced by one without entries (0 bytes, null, {}), the server is
\* re-pointed, or a scan that has CorruptBaseline set rebuilds the file.  In
\* particular a file that no longer parses is never reset silently.
PoisonStaysFlagged == fileKind = "json" => \A f \in flagged : Alarmed(f)

\* Baseline.Save: whatever step of a save fails or is killed, the file is
\* never a partial write; with nobody else damaging it, it always parses.
SaveIsAtomic == "corrupt" \notin Faults => fileKind # "corrupt"

\* Baseline.Save: every path out of Save except a kill consumes or removes
\* the temporary file, so an idle process has none.
NoTempLeft ==
    \A p \in Procs : tmp[p] # "none" => pc[p] \in {"write", "rename"}

\* Baseline.Diff: in the file and in every loaded copy, whichever scan wrote
\* it, a pending hash belongs to an approved tool and differs from the
\* approved hash.
PendingDiffers(entries) ==
    \A k \in Keys : LET e == entries[k] IN
        e.pending # NoHash => Seen(e) /\ e.pending # e.hash

PendingIsUnapproved ==
    PendingDiffers(disk) /\ \A p \in Procs : PendingDiffers(bl[p])

\* An approved hash in the file changes only together with the server's
\* identity, or because the file is deleted, emptied or damaged (Probe and Diff
\* over any number of consecutive scans).
ApprovedHashStable ==
    [][ \A k \in Keys :
          (Seen(disk[k]) /\ disk'[k].hash # disk[k].hash)
              => \/ fileKind' # "json"
                 \/ Seen(disk'[k]) /\ disk'[k].id # disk[k].id ]_vars

\* The file implements the abstract approval register.
Register == INSTANCE ToolApproval WITH
    approved <- [k \in Keys |-> [hash |-> disk[k].hash, id |-> disk[k].id]]

RegisterSpec == Register!Spec
=============================================================================
