------------------------------- MODULE Collect -------------------------------
(***************************************************************************)
(* Collection of the signals of a Linux host (internal/collect): which     *)
(* files may be read, which are read, in which order, and what of their    *)
(* values is kept.  A host h is a record as in HostFacts, with             *)
(*   home       the home directory of the user who scans                   *)
(*   services   the services of the stack                                  *)
(*   crowded    the walked directories that hold more files than a walk    *)
(*              takes (walkMaxEntries)                                     *)
(* Paths are absolute and clean, but for those of bind mounts.             *)
(***************************************************************************)
EXTENDS HostFacts, AgentChecks

-----------------------------------------------------------------------------
(***************************************************************************)
(* The allowlist: exact files, and directories with the depth of the walk. *)
(***************************************************************************)
staticFiles ==
    {"/etc/docker/daemon.json", "/etc/ssh/sshd_config", "/etc/sudoers", "/etc/nginx/nginx.conf",
     "/etc/caddy/Caddyfile", "/etc/traefik/traefik.yml", "/var/run/docker.sock", "/etc/exports",
     "/etc/passwd", "/etc/shadow", "/etc/login.defs", "/etc/os-release", "/etc/crontab"}
homeFiles ==
    {".openclaw/openclaw.json", ".openclaw/exec-approvals.json", ".openclaw/cron/jobs.json",
     ".claude/settings.json", ".claude/settings.local.json", ".claude.json",
     ".codex/config.toml", ".codex/config.json", ".codex/auth.json",
     "Library/Application Support/Claude/claude_desktop_config.json",
     ".config/Claude/claude_desktop_config.json", ".cursor/mcp.json",
     ".codeium/windsurf/mcp_config.json"}

walkMaxDepth == 4
staticDirs ==
    <<"/etc/docker", "/etc/ssh/sshd_config.d", "/etc/sudoers.d", "/etc/nginx/conf.d",
      "/etc/apt/apt.conf.d", "/etc/fail2ban", "/etc/cron.d">>
homeDirs ==
    <<<<"/.openclaw/extensions", 4>>, <<"/.openclaw/skills", 4>>, <<"/.openclaw/plugins", 4>>,
      <<"/.openclaw", 1>>, <<"/.claude", 1>>, <<"/.claude/skills", 4>>, <<"/.claude/plugins", 4>>>>

ExactPaths(h) == staticFiles \cup {h.home \o "/" \o f : f \in homeFiles}

\* The directories that are walked, in order; the last, the home itself, may not be read.
PrefixDirs(h) ==
    [i \in DOMAIN staticDirs |-> [dir |-> staticDirs[i], depth |-> walkMaxDepth]]
    \o [i \in DOMAIN homeDirs |-> [dir |-> h.home \o homeDirs[i][1], depth |-> homeDirs[i][2]]]
WalkOnly(h) == [dir |-> h.home, depth |-> 1]

Under(path, dir) == HasPrefix(path, dir \o "/")

isAllowed(h, path) ==
    \/ path \in ExactPaths(h)
    \/ \E d \in ToSet(PrefixDirs(h)) : Under(path, d.dir)

-----------------------------------------------------------------------------
(***************************************************************************)
(* Facts of files: an exact path that is a symlink has the mode of the     *)
(* link; a walked one counts as missing.                                   *)
(***************************************************************************)
statFile(h, path) ==
    IF path \notin DOMAIN h.fs THEN [path |-> path, exists |-> FALSE, mode |-> ""]
    ELSE [path |-> path, exists |-> TRUE,
          mode |-> IF h.fs[path].link THEN "0777" ELSE h.fs[path].mode]

Slashes(t) == Cardinality({i \in 1..Len(t) : SubSeq(t, i, i) = "/"})
walkDir(h, e) ==
    {p \in DOMAIN h.fs : Under(p, e.dir) /\ Slashes(After(p, e.dir \o "/")) <= e.depth}
walkFile(h, path) ==
    [path |-> path, exists |-> ~h.fs[path].link, mode |-> IF h.fs[path].link THEN "" ELSE h.fs[path].mode]

\* A walk that meets a crowded directory ends there.
collectFiles(h) ==
    LET dirs == Append(PrefixDirs(h), WalkOnly(h))
        walked == {i \in DOMAIN dirs : \A j \in 1..(i - 1) : dirs[j].dir \notin h.crowded}
        found == UNION {walkDir(h, dirs[i]) : i \in walked} \ ExactPaths(h)
    IN {statFile(h, p) : p \in ExactPaths(h)} \cup {walkFile(h, p) : p \in found}

-----------------------------------------------------------------------------
(***************************************************************************)
(* Facts of configurations.  hide says whether values are masked, as they  *)
(* always are in the code.                                                 *)
(***************************************************************************)
Parse(kind, c) ==
    CASE kind = "accounts-passwd"         -> parsePasswd(c)
      [] kind = "accounts-shadow"         -> parseShadow(c)
      [] kind = "accounts-logindefs"      -> parseLoginDefs(c)
      [] kind = "accounts-sudoers"        -> parseSudoers(c)
      [] kind = "apt-periodic"            -> parseAptPeriodic(c)
      [] kind = "openclaw-config"         -> parseOpenclawConfig(c)
      [] kind = "openclaw-exec-approvals" -> parseOpenclawExecApprovals(c)
      [] kind = "openclaw-cron"           -> parseOpenclawCron(c)
      [] kind = "claude-code-settings"    -> parseClaudeCodeSettings(c)
      [] kind = "claude-json"             -> parseClaudeJSON(c)
      [] kind = "codex-config"            -> parseCodexConfig(c)
      [] kind = "claude-desktop-config"   -> parseClaudeDesktopConfig(c)
      [] kind \in {"mcp-json", "cursor-mcp", "windsurf-mcp"} -> parseMCPJSON(c, kind)
      [] OTHER                            -> parserForSchemaID(kind, c)

\* A file is read if it is allowed, or granted to this call, and no symlink.
Stats(h, path, granted) ==
    /\ isAllowed(h, path) \/ (granted /\ HasPrefix(path, "/"))
    /\ path \in DOMAIN h.fs /\ ~h.fs[path].link

collectConfig(h, path, kind, granted, hide) ==
    LET p == Parse(kind, ReadFile(h, path))
    IN IF ~Stats(h, path, granted) THEN Bare(path)
       ELSE IF ~Readable(h, path) THEN [Bare(path) EXCEPT !.mode = h.fs[path].mode]
       ELSE Fact(path, h.fs[path].mode,
                 IF hide THEN [p EXCEPT !.values = redactConfigValues(@)] ELSE p)

\* The fragments of sudoers.d, as one file.
collectSudoersDFacts(h) ==
    LET parts == SelectSeq(h.sudoersd, LAMBDA p : Stats(h, p, FALSE) /\ Readable(h, p))
    IN IF parts = <<>> THEN <<>>
       ELSE <<Fact("/etc/sudoers.d", "",
                   parseSudoers(FlattenSeq([i \in DOMAIN parts |-> ReadFile(h, parts[i])])))>>

\* What is read of a host, with its schema, in the order in which checks look through
\* it: what the collectors of the system name, then the files of agents.
systemPathTable ==
    <<<<"", "sshd">>, <<"/etc/docker/daemon.json", "docker-daemon">>,
      <<"/etc/exports", "nfs-exports">>, <<"", "sysctl">>,
      <<"/etc/passwd", "accounts-passwd">>, <<"/etc/shadow", "accounts-shadow">>,
      <<"/etc/login.defs", "accounts-logindefs">>, <<"/etc/sudoers", "accounts-sudoers">>,
      <<"", "sudoers.d">>,
      <<"/etc/apt/apt.conf.d/20auto-upgrades", "apt-periodic">>,
      <<"/etc/apt/apt.conf.d/50unattended-upgrades", "apt-periodic">>>>
configPathTable ==
    <<<<"/.openclaw/openclaw.json", "openclaw-config">>,
      <<"/.openclaw/exec-approvals.json", "openclaw-exec-approvals">>,
      <<"/.openclaw/cron/jobs.json", "openclaw-cron">>,
      <<"/.claude/settings.json", "claude-code-settings">>,
      <<"/.claude/settings.local.json", "claude-code-settings">>,
      <<"/.claude.json", "claude-json">>,
      <<"/.codex/config.toml", "codex-config">>,
      <<"/.codex/config.json", "codex-config">>,
      <<"/.codex/auth.json", "mcp-json">>,
      <<"/Library/Application Support/Claude/claude_desktop_config.json", "claude-desktop-config">>,
      <<"/.config/Claude/claude_desktop_config.json", "claude-desktop-config">>,
      <<"/.cursor/mcp.json", "cursor-mcp">>,
      <<"/.codeium/windsurf/mcp_config.json", "windsurf-mcp">>>>

Wanted(h) ==
    systemPathTable
    \o [i \in DOMAIN configPathTable |-> <<h.home \o configPathTable[i][1], configPathTable[i][2]>>]

\* Each candidate is allowed while it is read; one that is not read keeps its schema.
collectServiceConfig(h, candidate, hide) ==
    LET fact == collectConfig(h, candidate.path, candidate.schema, candidate.granted, hide)
    IN [fact EXCEPT !.schema = IF @ = "" /\ candidate.granted THEN candidate.schema ELSE @]

IfKnown(fact) == IF fact.known THEN <<fact>> ELSE <<>>

FactsOf(h, c, hide) ==
    CASE c.schema = "sshd"      -> IfKnown(collectSSH(h))
      [] c.schema = "sysctl"    -> IfKnown(collectSysctl(h))
      [] c.schema = "sudoers.d" -> collectSudoersDFacts(h)
      [] OTHER -> LET fact == collectServiceConfig(h, c, hide)
                  IN IF c.schema \in {"docker-daemon", "nfs-exports"} THEN IfKnown(fact) ELSE <<fact>>

\* All facts of configurations; the candidates, of services, are granted to this call.
collectConfigs(h, candidates, hide) ==
    LET wanted == Wanted(h)
        own == [i \in DOMAIN wanted |->
                   [path |-> wanted[i][1], schema |-> wanted[i][2], granted |-> FALSE]]
        all == own \o [i \in DOMAIN candidates |->
                   [path |-> candidates[i].path, schema |-> candidates[i].schema, granted |-> TRUE]]
    IN FlattenSeq([i \in DOMAIN all |-> FactsOf(h, all[i], hide)])

-----------------------------------------------------------------------------
(***************************************************************************)
(* The signals.  A collector that fails leaves its part empty.             *)
(***************************************************************************)
Release(h) ==
    IF Readable(h, "/etc/os-release") THEN parseOSRelease(ReadFile(h, "/etc/os-release"), h.today)
    ELSE [distro |-> "", version |-> "", eol |-> FALSE]

\* keelix collect knows no stack, and so no candidates.
CollectFacts(h, candidates, hide) ==
    [there     |-> TRUE,
     os        |-> h.os,
     distro    |-> Release(h).distro,
     version   |-> Release(h).version,
     sockets   |-> IF "ss" \in h.broken THEN <<>> ELSE parseSS(h.ss),
     files     |-> collectFiles(h),
     processes |-> IF "ps" \in h.broken THEN <<>> ELSE parseProcesses(h, hide),
     packages  |-> IF "apt" \in h.broken THEN NoPackages
                   ELSE parseAptState(h.apt, h.reboot, Release(h).eol),
     firewall  |-> collectFirewall(h),
     configs   |-> collectConfigs(h, candidates, hide)]

NoSignals ==
    [there |-> FALSE, os |-> "", distro |-> "", version |-> "", sockets |-> <<>>, files |-> {},
     processes |-> <<>>, packages |-> NoPackages, firewall |-> NoFirewall, configs |-> <<>>]
=============================================================================
