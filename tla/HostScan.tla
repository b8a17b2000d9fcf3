------------------------------ MODULE HostScan ------------------------------
(***************************************************************************)
(* keelix collect and keelix scan --ci on one box: cli/scan.go and         *)
(* cli/collect.go over the collection, parsers and checks of Collect,      *)
(* HostChecks, ServiceConfigs, AgentChecks and StackChecks.                *)
(*                                                                         *)
(* A box is the record of a host (HostFacts, Collect) and of its stack     *)
(* (StackChecks), with probe and intended.  A run sees a box with some of  *)
(* it lost: commands that fail, files that may not be read, the privileges *)
(* of root, directories too crowded to walk.                               *)
(*                                                                         *)
(* Left out: redaction of the texts of findings, exposure classes and the  *)
(* score (Grading), the active probe of MCP servers (ProbeGate), and what  *)
(* changes on the box while a scan collects.                               *)
(***************************************************************************)
EXTENDS Collect, HostChecks, StackChecks, ServerSpecs

CONSTANTS
    Boxes,      \* the boxes, by name
    Losses,     \* what each may lose at a time: sets of names
    Lasting,    \* what each may lack for good, while nothing happens but a last scan
    Changes,    \* which box may become which: pairs of names
    Verdicts,   \* of each: the checks that fail, with severity and whether fatal
    MaxEvents,  \* how often the box changes, or loses something
    MaxScans

ASSUME HostScanAssumption ==
    /\ DOMAIN Losses = DOMAIN Boxes /\ DOMAIN Lasting = DOMAIN Boxes
    /\ DOMAIN Verdicts = DOMAIN Boxes
    /\ Changes \subseteq (DOMAIN Boxes) \X (DOMAIN Boxes)
    /\ \A b \in DOMAIN Losses : {} \in Losses[b]
    /\ MaxEvents \in Nat /\ MaxScans \in Nat \ {0}

VARIABLES
    box, lost,     \* the machine
    document,      \* what keelix collect wrote: at most one view
    baseline,      \* the file that --baseline names: at most one report
    pc, opts,      \* the scan: its next step, its flags
    view,          \* what it looks at
    findings,
    truth,         \* the checks that fail on all of the box it looks at, masked or bare
    exit,          \* its exit code
    events, scans

vars == <<box, lost, document, baseline, pc, opts, view, findings, truth, exit, events, scans>>

-----------------------------------------------------------------------------
(***************************************************************************)
(* What can be seen of a box.  Without root ss names no process, and ufw    *)
(* and nft fail.                                                           *)
(***************************************************************************)
Commands == {"ss", "ps", "apt", "ufw", "nft", "sshd"}
RootOnly == {"/etc/shadow", "/etc/sudoers"}

Nameless(k) == [k EXCEPT !.comm = "", !.pid = 0]

With(h, loss) ==
    LET root == h.root /\ "root" \notin loss
        Closed(p) == p \in loss \/ (~root /\ (p \in RootOnly \/ Under(p, "/etc/sudoers.d")))
    IN [h EXCEPT
           !.root    = root,
           !.broken  = @ \cup (loss \cap Commands) \cup (IF root THEN {} ELSE {"ufw", "nft"}),
           !.crowded = @ \cup loss,
           !.ss      = IF root THEN @ ELSE [i \in DOMAIN @ |-> Nameless(@[i])],
           !.fs      = [p \in DOMAIN @ |-> [@[p] EXCEPT !.readable = @ /\ ~Closed(p)]]]

\* A view is the box that a scan, or keelix collect before it, found, what was lost
\* of it then, and how its facts came to the scan.
View(b, loss, how) == [box |-> b, lost |-> loss, how |-> how]

\* What a scan collects, with the files of its stack; what keelix collect wrote; nothing;
\* and what a scan would have if no value were masked.
Hows == {"collect", "signals", "none", "bare"}
CandidatesOn == [b \in DOMAIN Boxes |-> ServiceConfigCandidates(Boxes[b].services)]
SignalsOf(v) ==
    IF v.how = "none" THEN NoSignals
    ELSE LET h == With(Boxes[v.box], v.lost)
         IN CollectFacts(h, IF v.how = "signals" THEN <<>> ELSE CandidatesOn[v.box], v.how # "bare")

AnyLoss(b) == Losses[b] \cup Lasting[b]
Views ==
    UNION {{View(b, l, "collect") : l \in AnyLoss(b)} \cup {View(b, l, "signals") : l \in Losses[b]}
           \cup {View(b, {}, how) : how \in Hows} : b \in DOMAIN Boxes}

\* The registered checks, on the facts of a view and on the stack of a box.
FindingsOn(sigs, services) ==
    HostFindings(sigs) \cup ServiceFindings(sigs, services) \cup AgentFindings(sigs)
FactFindings == [v \in Views |-> FindingsOn(SignalsOf(v), Boxes[v.box].services)]
StackFindingsOf == [b \in DOMAIN Boxes |->
    StackFindings(Boxes[b], Boxes[b].probe, Boxes[b].intended)]

\* Of the checks of facts only SVC010 looks at the stack, and only beside a file that
\* was collected from the same box.
RunAll(b, v) == FactFindings[v] \cup StackFindingsOf[b]

FailedIn(fs) == {f.id : f \in {f \in fs : IsFail(f)}}
PassedIn(fs) == {f.id : f \in {f \in fs : f.status = "assessed"}} \ FailedIn(fs)

-----------------------------------------------------------------------------
(***************************************************************************)
(* The exit code.  A check that was not assessed keeps its severity.       *)
(***************************************************************************)
criticalKeys_AnySeverity(fs) == {<<f.id, f.service, f.resource>> : f \in fs}
criticalKeys(fs) ==
    {<<f.id, f.service, f.resource>> : f \in {f \in fs : f.severity = "critical"}}

\* The keys that a baseline does not have: all of them when none is asked for.
newCriticals_All(fs, base) == criticalKeys(fs)
newCriticals(fs, base) == criticalKeys(fs) \ UNION {criticalKeys(r.findings) : r \in base}

NoExit == 3
ciExit(fs, o, base) ==
    IF o.baseline /\ base = {} THEN 1
    ELSE IF newCriticals(fs, IF o.baseline THEN base ELSE {}) # {} THEN 2 ELSE 0

-----------------------------------------------------------------------------
(***************************************************************************)
(* The machine.                                                            *)
(***************************************************************************)
\* With what a box lacks for good only the last scan is left, and no event and no document:
\* a bound.
Init ==
    /\ box \in DOMAIN Boxes
    /\ \/ lost \in Losses[box] /\ events = 0 /\ scans = 0
       \/ lost \in Lasting[box] /\ events = MaxEvents /\ scans = MaxScans - 1
    /\ document = {} /\ baseline = {}
    /\ pc = "idle" /\ opts = [baseline |-> FALSE, replace |-> FALSE]
    /\ view = View(box, {}, "none") /\ findings = {} /\ exit = NoExit
    /\ truth = [how \in {"collect", "bare"} |-> {}]

\* Somebody changes a box of which nothing is lost; something of it fails, or all of
\* it works again.
Change ==
    /\ pc = "idle" /\ events < MaxEvents /\ events' = events + 1
    /\ lost = {} /\ \E c \in Changes : c[1] = box /\ box' = c[2]
    /\ UNCHANGED <<lost, document, baseline, pc, opts, view, findings, truth, exit, scans>>

LoseOrRegain ==
    /\ pc = "idle" /\ events < MaxEvents /\ events' = events + 1
    /\ lost' \in IF lost = {} THEN Losses[box] \ {{}} ELSE {{}}
    /\ UNCHANGED <<box, document, baseline, pc, opts, view, findings, truth, exit, scans>>

\* keelix collect -o.  A run that is killed leaves a document that cannot be parsed.
CollectDocument ==
    /\ pc = "idle" /\ lost \in Losses[box] /\ document' \in {{}, {View(box, lost, "signals")}}
    /\ UNCHANGED <<box, lost, baseline, pc, opts, view, findings, truth, exit, events, scans>>

-----------------------------------------------------------------------------
(***************************************************************************)
(* The scan.                                                               *)
(***************************************************************************)
\* replace: the report is written to the file that --baseline names, or will name.
StartScan ==
    /\ pc = "idle" /\ scans < MaxScans /\ scans' = scans + 1
    /\ pc' = "gather" /\ opts' \in [baseline : BOOLEAN, replace : BOOLEAN]
    /\ exit' = NoExit
    /\ UNCHANGED <<box, lost, document, baseline, view, findings, truth, events>>

\* scan: the facts are collected.
CollectFromBox ==
    /\ pc = "gather" /\ pc' = "checks" /\ view' = View(box, lost, "collect")
    /\ UNCHANGED <<box, lost, document, baseline, opts, findings, truth, exit, events, scans>>

\* scan --signals: they come from the document; without a good one there are none.
LoadDocument ==
    /\ pc = "gather" /\ pc' = "checks"
    /\ view' \in IF document = {} THEN {View(box, {}, "none")} ELSE document
    /\ UNCHANGED <<box, lost, document, baseline, opts, findings, truth, exit, events, scans>>

\* scan --no-collect -c.
CollectNothing ==
    /\ pc = "gather" /\ pc' = "checks" /\ view' = View(box, {}, "none")
    /\ UNCHANGED <<box, lost, document, baseline, opts, findings, truth, exit, events, scans>>

RunChecks ==
    /\ pc = "checks" /\ pc' = "write" /\ findings' = RunAll(box, view)
    /\ truth' = [how \in {"collect", "bare"} |-> FailedIn(RunAll(box, View(view.box, {}, how)))]
    /\ UNCHANGED <<box, lost, document, baseline, opts, view, exit, events, scans>>

\* The report is written, over the baseline or elsewhere, before the exit code.
WriteReport ==
    /\ pc = "write" /\ pc' = "exit"
    /\ baseline' = IF opts.replace
                   THEN {[box |-> box, view |-> view, findings |-> findings]} ELSE baseline
    /\ UNCHANGED <<box, lost, document, opts, view, findings, truth, exit, events, scans>>

\* Killed after os.Create has emptied the file.
Killed ==
    /\ pc = "write" /\ pc' = "idle"
    /\ baseline' = IF opts.replace THEN {} ELSE baseline
    /\ UNCHANGED <<box, lost, document, opts, view, findings, truth, exit, events, scans>>

Exit ==
    /\ pc = "exit" /\ pc' = "idle" /\ exit' = ciExit(findings, opts, baseline)
    /\ UNCHANGED <<box, lost, document, baseline, opts, view, findings, truth, events, scans>>

Next ==
    \/ Change \/ LoseOrRegain \/ CollectDocument
    \/ StartScan \/ CollectFromBox \/ LoadDocument \/ CollectNothing
    \/ RunChecks \/ WriteReport \/ Killed \/ Exit

Spec == Init /\ [][Next]_vars

-----------------------------------------------------------------------------
\* The checks of a box: on what the parsers and collectors make of it, each says what
\* its box stands for, no other one fails, and severity and fatality are as they should.
VerdictsExact ==
    pc = "write" /\ view = View(box, {}, "collect") =>
        {<<f.id, f.severity, f.fatal>> : f \in {f \in findings : IsFail(f)}} = Verdicts[box]

\* The checks that masking changes: those that look for secrets, and two that lose what
\* they read, the addresses of the Docker daemon and the arguments of a kubelet.
Misread(h) ==
    {"MCP001", "MCP002"}
    \cup {i \in {"FW005"} :
            classOf("hosts", Val(h.fs["/etc/docker/daemon.json"].content, "hosts")) = "secret"}
    \cup {i \in {"FW006"} : \E p \in ToSet(h.ps) :
            p.comm \in kubeletComms /\ \E a \in ToSet(p.args) : sanitizeArgToken(a) # a}
MisreadOn == [b \in DOMAIN Boxes |-> Misread(Boxes[b])]


\* What a spec owes to the text c of its file.
AsWritten(c, s) ==
    LET At(field) == Val(c, KeyOf(s.name, field))
    IN IF At("command") # ""
       THEN /\ s.transport = "stdio" /\ s.command = At("command")
            /\ Len(s.args) = Cardinality(Below(c, s.name, "args."))
            /\ \A i \in DOMAIN s.args : s.args[i] = At("args." \o ToString(i - 1))
            /\ \A k \in Below(c, s.name, "env.") :
                   {Rest(k, s.name, "env."), c[k]} \cap s.env # {}
                   \/ (c[k] = HighEntropy /\ "[secret]" \in s.env)
       ELSE /\ s.transport = IF At("type") = "sse" THEN "sse" ELSE "http"
            /\ s.url = IF At("url") = UserinfoURL THEN "[secret]" ELSE At("url")

\* The specs of a scan of h: of the servers that its agents' files name, as written.
AllAsWritten(h, specs) ==
    LET paths == {h.home \o configPathTable[i][1] : i \in DOMAIN configPathTable} \cap DOMAIN h.fs
        Text(p) == h.fs[p].content
    IN /\ \A s \in specs : s.client \in paths /\ AsWritten(Text(s.client), s)
       /\ \A p \in paths :
              {s.name : s \in {s \in specs : s.client = p}}
                  = {ServerOf(k) : k \in {k \in DOMAIN Text(p) : IsServerKey(k)}}
AsWrittenOn == [b \in DOMAIN Boxes |->
    AllAsWritten(Boxes[b], deriveServerSpecs(SignalsOf(View(b, {}, "collect"))))]

\* deriveServerSpecs and PlannedMCPProbeCommands ("the EXACT commands"): the probe is
\* given every server that an agent's file names, with the command, arguments and
\* variables, or the address, that the file has, and no other; only an address with a
\* password and a secret in a numbered variable are lost to masking.
ProbedAsWritten == pc = "write" /\ view = View(box, {}, "collect") => AsWrittenOn[box]

\* The files of a box with their schemas; SVC030 takes either of two for vaultwarden.
SchemasOn == [b \in DOMAIN Boxes |->
    {e \in ToSet(Wanted(Boxes[b])) : e[1] \in DOMAIN Boxes[b].fs}
    \cup {<<c.path, IF c.schema = "vaultwarden-json" THEN "vaultwarden-env" ELSE c.schema>> :
           c \in ToSet(CandidatesOn[b])}]

\* The checks that judge another file of the same schema, where there is one, when this
\* one is lost (configBySchema), for the schemas that a box has two files of.
OfNextFile(schemas, path) ==
    UNION {CASE e[2] = "redis-conf"           -> {"SVC001"}
             [] e[2] = "vaultwarden-env"      -> {"SVC030"}
             [] e[2] = "apt-periodic"         -> {"HST013"}
             [] e[2] = "claude-code-settings" -> {"AGT001", "AGT008"}
             [] OTHER -> {} :
           e \in {e \in schemas : e[1] = path /\ \E n \in schemas : n[1] # path /\ n[2] = e[2]}}

SSHDChecks == {"HST001", "HST002", "HST003", "HST004", "HST005"}

\* The checks that judge something else when a part is lost, and so may say anything:
\* the files of sshd instead of sshd -T, or what can be read of them; nft instead of ufw;
\* the next file.
Elsewhere(h, schemas, part) ==
    OfNextFile(schemas, part) \cup
    CASE part \in {"root", "sshd"} -> SSHDChecks
      [] part = "ufw" -> {"HST030"}
      [] part \in ToSet(StaticOrder(h)) ->
             IF h.root /\ "sshd" \notin h.broken THEN {} ELSE SSHDChecks
      [] OTHER -> {}

\* The checks that say they passed when a part of what they read is lost, where they
\* might say that they were not assessed.
Blinded(h, schemas, part) ==
    Elsewhere(h, schemas, part) \cup
    CASE part = "ss"   -> {"AGT006"}
      [] part = "root" -> {"AGT006", "MCP004"}
      [] part = "ps"   -> {"AGT003", "HRD010", "FW005", "FW006", "MCP004", "MCP009"}
      [] part = "apt"  -> {"HST010", "HST011", "HST012"}
      [] part = "/etc/os-release" -> {"HST011"}
      [] part \in {"/etc/passwd", "/etc/group"} -> {"AGT003", "HRD010"}
      [] part = "/etc/docker/daemon.json" -> {"FW005"}
      [] part \in {"/etc/sudoers"} \cup ToSet(h.sudoersd) -> {"HST020"}
      [] \E d \in ToSet(PrefixDirs(h)) : part = d.dir -> {"AGT005", "AGT010"}
      [] part \in ExactPaths(h) /\ Under(part, h.home) ->
             (AgentChecks \ {"AGT003", "AGT004", "AGT005", "AGT006", "AGT010"})
             \cup (MCPChecks \ {"MCP004", "MCP007"})
      [] OTHER -> {}

BlindedOn == [b \in DOMAIN Boxes |-> [loss \in AnyLoss(b) |->
    UNION {Blinded(Boxes[b], SchemasOn[b], part) : part \in loss}]]

\* Collect ("each sub-collector's failure is recorded", collect.go) and OfHost: what
\* fails on a box never passes because a command failed, a file could not be read, no
\* service files were collected or there were no facts at all, but for the checks that
\* Blinded names.
LossNeverClears ==
    pc = "write" =>
        truth["collect"] \cap PassedIn(findings) \subseteq BlindedOn[view.box][view.lost]

\* The checks that fail when what clears them is lost.
Accused(h, schemas, part) ==
    Elsewhere(h, schemas, part) \cup
    CASE part = "ps" -> {"HST041", "HST005"}
      [] part \in {"root", "nft"} -> {"HST030"}
      [] part \in ToSet(staticDirs) -> {"HST005"}
      [] OTHER -> {}

AccusedOn == [b \in DOMAIN Boxes |-> [loss \in AnyLoss(b) |->
    UNION {Accused(Boxes[b], SchemasOn[b], part) : part \in loss}]]

\* The same collectors: a loss makes no other check fail.
LossNeverAccuses ==
    pc = "write" =>
        FailedIn(findings) \ truth["collect"] \subseteq AccusedOn[view.box][view.lost]

\* ciExit: where the report does not replace the baseline, a scan that is let through
\* has no critical failure of a check that the baseline says passed, and no baseline
\* that is missing or cut short lets it through.
RegressionFailsCI ==
    exit = 0 /\ opts.baseline /\ ~opts.replace =>
        \E r \in baseline :
            \A f \in findings : IsFail(f) /\ f.severity = "critical" => f.id \notin PassedIn(r.findings)

\* ciExit: criticals that are not new never stop a scan, those of checks without facts
\* included: when it is stopped, the box or what is seen of it is not what it was.
OnlyChangeFailsCI ==
    [][exit # 2 /\ exit' = 2 /\ opts.baseline =>
           \A r \in baseline : r.box # box \/ r.view # view]_vars
=============================================================================
