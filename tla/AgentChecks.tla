---------------------------- MODULE AgentChecks -----------------------------
(***************************************************************************)
(* AI agents: what the parsers of their configuration files emit           *)
(* (internal/collect/parsers.go), and the checks of agents and of their    *)
(* MCP servers that judge it (internal/checks/aiagent, internal/checks/    *)
(* mcp).  MCP007 is modelled with the baseline, in DriftVerdict; without a *)
(* probe it says nothing.                                                  *)
(*                                                                         *)
(* A JSON file is the function of dotted keys that flattenJSON makes of    *)
(* it; sigs are the signals of HostChecks.                                 *)
(***************************************************************************)
EXTENDS Facts, Catalog

Keep(c, P(_)) == [k \in {k \in DOMAIN c : P(k)} |-> c[k]]
Field(c, keys) == [k \in keys |-> Val(c, k)]

ParsedJSON(c, schema, values) == IF c = NoText THEN Unparsed ELSE Parsed(schema, values)

-----------------------------------------------------------------------------
(***************************************************************************)
(* The parsers.                                                            *)
(***************************************************************************)
IsServerKey(k) == HasPrefix(k, "mcpServers.")
ServerOf(k) == UpTo(After(k, "mcpServers."), ".")
ServerField(k) == Past(After(k, "mcpServers."), ".")

\* A field of a server, after the first dot of its name.
parseMCPServersShape(c) ==
    Keep(c, LAMBDA k : /\ IsServerKey(k)
                       /\ \/ ServerField(k) \in {"command", "url", "type"}
                          \/ \E p \in {"args.", "env.", "headers."} : HasPrefix(ServerField(k), p))

parseOpenclawConfig(c) ==
    ParsedJSON(c, "openclaw-config",
               Field(c, {"tools.exec.security", "tools.exec.ask",
                         "tools.fs.workspaceOnly", "agents.defaults.sandbox.mode",
                         "browser.enabled", "tools.web.search.provider",
                         "channels.discord.groupPolicy", "channels.telegram.dmPolicy"})
               @@ ("tools.profile" :> IF "tools.profile" \in DOMAIN c THEN c["tools.profile"]
                                      ELSE Val(c, "profile"))
               @@ Keep(c, IsServerKey))

parseOpenclawExecApprovals(c) ==
    IF Val(c, "defaults.ask") = "" /\ Val(c, "defaults.security") = "" THEN Unparsed
    ELSE Parsed("openclaw-exec-approvals",
                Field(c, {"defaults.security", "defaults.ask", "defaults.askFallback"}))

EnabledJobs(c) ==
    {k \in DOMAIN c : HasPrefix(k, "jobs.") /\ HasSuffix(k, ".enabled") /\ c[k] = "true"}
parseOpenclawCron(c) ==
    ParsedJSON(c, "openclaw-cron",
               ("anyEnabled" :> Flag(EnabledJobs(c) # {}))
               @@ ("jobsEnabledCount" :> ToString(Cardinality(EnabledJobs(c)))))

parseClaudeCodeSettings(c) ==
    ParsedJSON(c, "claude-code-settings",
               Field(c, {"defaultMode", "skipDangerousModePermissionPrompt"})
               @@ Keep(c, LAMBDA k : HasPrefix(k, "permissions.allow."))
               @@ parseMCPServersShape(c))

parseClaudeJSON(c) ==
    LET flags == Field(c, {"bypassPermissionsModeEnabled", "allowAllBrowserActions"})
        servers == parseMCPServersShape(c)
    IN IF servers = NoValues /\ \A k \in DOMAIN flags : flags[k] = "" THEN Unparsed
       ELSE Parsed("claude-json", flags @@ servers)

\* JSON or TOML: only keys of the top level are looked at.
parseCodexConfig(c) ==
    IF Val(c, "approval_policy") = "" /\ Val(c, "sandbox_mode") = "" THEN Unparsed
    ELSE Parsed("codex-config", Field(c, {"approval_policy", "sandbox_mode"}))

TrustedFolders == "preferences.localAgentModeTrustedFolders."
parseClaudeDesktopConfig(c) ==
    ParsedJSON(c, "claude-desktop-config",
               parseMCPServersShape(c)
               @@ Field(c, {"preferences.bypassPermissionsModeEnabled",
                            "preferences.allowAllBrowserActions"})
               @@ Keep(c, LAMBDA k : HasPrefix(k, TrustedFolders)))

\* Files that hold servers and nothing else: mcp-json, cursor-mcp, windsurf-mcp.
parseMCPJSON(c, schema) ==
    LET servers == parseMCPServersShape(c)
    IN IF servers = NoValues THEN Unparsed ELSE Parsed(schema, servers)

-----------------------------------------------------------------------------
(***************************************************************************)
(* The checks of the agents.                                               *)
(***************************************************************************)
OfAgent(i, sigs, fs) == IF sigs.there THEN fs ELSE {notAssessed(i)}

Config(sigs, schema) == configBySchema(sigs.configs, schema).values
Known(sigs) == {c \in ToSet(sigs.configs) : c.known}

isAutoApproval(sigs) ==
    LET claude == Config(sigs, "claude-code-settings")
    IN \/ Val(Config(sigs, "openclaw-config"), "tools.exec.ask") = "off"
       \/ Val(claude, "defaultMode") = "bypassPermissions"
       \/ Val(claude, "skipDangerousModePermissionPrompt") = "true"
       \/ Val(Config(sigs, "codex-config"), "approval_policy") = "auto"

AGT001(sigs) ==
    OfAgent("AGT001", sigs,
        Judge("AGT001", isAutoApproval(sigs),
              Confident(Failed("AGT001", "agent configuration"), "medium")))

messagingServerNames == {"slack", "telegram", "mail", "discord", "smtp"}
webServerNames == {"web", "browser", "fetch", "search", "http", "scrape", "crawl",
                   "puppeteer", "playwright"}

Servers(v) == {ServerOf(k) : k \in {k \in DOMAIN v : IsServerKey(k) /\ ServerField(k) # ""}}
OfServer(v, n, field) == Val(v, "mcpServers." \o n \o "." \o field)
McpServerNames(v) == {n \in Servers(v) : "mcpServers." \o n \o ".command" \in DOMAIN v}

WholeDisk(v) == \E k \in DOMAIN v : HasPrefix(k, "permissions.allow.") /\ v[k] \in {"**", "~/**"}

\* The three capabilities that together let content from outside take data out.
PrivateData(v) == Val(v, "tools.fs.workspaceOnly") = "false" \/ WholeDisk(v)
UntrustedIngest(v) ==
    \/ Val(v, "browser.enabled") = "true" \/ Val(v, "tools.web.search.provider") # ""
    \/ \E n \in McpServerNames(v), w \in webServerNames :
           HasWord(n, w) \/ HasWord(OfServer(v, n, "command"), w)
Exfil(v) ==
    \E n \in Servers(v) :
        \/ \E w \in messagingServerNames :
               HasWord(n, w) \/ HasWord(OfServer(v, n, "command"), w) \/ HasWord(OfServer(v, n, "url"), w)
        \/ OfServer(v, n, "type") \in {"http", "sse"} /\ OfServer(v, n, "url") # ""

\* All three in one file.
AGT002(sigs) ==
    OfAgent("AGT002", sigs,
        Judge("AGT002", \E c \in Known(sigs) : /\ PrivateData(c.values)
                                                /\ UntrustedIngest(c.values) /\ Exfil(c.values),
              Confident(Failed("AGT002", "agent capability combination"), "medium")))

isAgentProcess(comm) ==
    \E a \in {"openclaw", "claude", "codex", "cursor", "windsurf"} : HasWord(comm, a)

AGT003(sigs) ==
    LET Of(p) == {CriticalIf(Failed("AGT003", p.comm), g # "admin" /\ sigs.os = "linux") :
                  g \in p.groups \cap {"sudo", "wheel", "docker", "admin"}}
    IN OfAgent("AGT003", sigs,
         OrPass("AGT003", UNION {Of(p) : p \in {p \in ToSet(sigs.processes) : isAgentProcess(p.comm)}}))

agentTokenPaths ==
    {".openclaw/openclaw.json", ".openclaw/exec-approvals.json", ".openclaw/cron/jobs.json",
     ".claude/settings.json", ".claude/settings.local.json", ".claude.json",
     ".codex/config.toml", ".codex/config.json", ".codex/auth.json"}

\* The files of the agents that fail a test of their paths and modes.
OfFiles(i, sigs, Bad(_), confidence) ==
    OfAgent(i, sigs,
        OrPass(i, {Confident(Failed(i, f.path), confidence) :
                   f \in {f \in sigs.files : f.exists /\ Bad(f)}}))

AGT004(sigs) ==
    OfFiles("AGT004", sigs,
        LAMBDA f : OpenToGroup(f.mode) /\ \E p \in agentTokenPaths : HasWord(f.path, p), "high")

backupSuffixes == {".bak", ".backup", ".old", ".orig", ".copy", "~"}
AGT005(sigs) ==
    OfFiles("AGT005", sigs, LAMBDA f : \E w \in backupSuffixes : HasSuffix(f.path, w), "low")

AGT006(sigs) ==
    OfAgent("AGT006", sigs,
        OrPass("AGT006", {FailedAt("AGT006", k.bind, k.port) : k \in
            {k \in ToSet(sigs.sockets) : isAgentProcess(k.comm) /\ k.bind \notin {"127.0.0.1", "::1"}}}))

AGT007(sigs) ==
    OfAgent("AGT007", sigs,
        Judge("AGT007",
              Val(Config(sigs, "openclaw-cron"), "anyEnabled") = "true" /\ isAutoApproval(sigs),
              Confident(Failed("AGT007", "openclaw cron + agent auto-approval"), "medium")))

AGT008(sigs) ==
    OfAgent("AGT008", sigs,
        Judge("AGT008",
              \/ Val(Config(sigs, "openclaw-config"), "tools.fs.workspaceOnly") = "false"
              \/ \E schema \in {"claude-code-settings", "claude-json", "claude-desktop-config"} :
                    WholeDisk(Config(sigs, schema)),
              Failed("AGT008", "agent filesystem permissions")))

AGT009(sigs) ==
    LET v == Config(sigs, "openclaw-config")
    IN OfAgent("AGT009", sigs,
         Judge("AGT009", "open" \in {Val(v, "channels.discord.groupPolicy"),
                                     Val(v, "channels.telegram.dmPolicy")},
               Failed("AGT009", "agent inbound channel policy")))

extensionDirs == {".openclaw/extensions/", ".openclaw/skills/", ".openclaw/plugins/",
                  ".claude/skills/", ".claude/plugins/"}

\* One finding for an extension name, wherever it is installed.
AGT010(sigs) ==
    LET In(f) == {d \in extensionDirs : HasWord(f.path, d)}
        cloned == {f \in sigs.files :
                     f.exists /\ In(f) # {} /\ HasSuffix(f.path, "/.git/config")}
    IN OfAgent("AGT010", sigs,
         OrPass("AGT010", {Confident(Failed("AGT010", UpTo(Past(f.path, CHOOSE d \in In(f) : TRUE), "/")),
                                   "medium") : f \in cloned}))

-----------------------------------------------------------------------------
(***************************************************************************)
(* The checks of the MCP servers, over every file that names one.          *)
(***************************************************************************)
allMCPConfigs(sigs) ==
    {c \in Known(sigs) : \E k \in DOMAIN c.values : IsServerKey(k)}

\* A check of the files, which says nothing without one.
OfMCPConfigs(i, sigs, fs) ==
    IF allMCPConfigs(sigs) = {} THEN {notAssessed(i)} ELSE OrPass(i, fs)

\* The servers of all files that fail a test of their file and name.
ServersThat(i, sigs, Names(_), Bad(_, _), confidence) ==
    OfMCPConfigs(i, sigs,
        UNION {{Confident(FailedFor(i, n, c.source), confidence) :
                n \in {n \in Names(c.values) : Bad(c.values, n)}} : c \in allMCPConfigs(sigs)})

Secret(v, n, k) ==
    /\ ServerOf(k) = n /\ v[k] = "[secret]"
    /\ ServerField(k) = "url" \/ \E p \in {"env.", "headers."} : HasPrefix(ServerField(k), p)

MCP001(sigs) ==
    ServersThat("MCP001", sigs, Servers,
        LAMBDA v, n : \E k \in DOMAIN v : IsServerKey(k) /\ Secret(v, n, k), "high")

MCP002(sigs) ==
    OfMCPConfigs("MCP002", sigs,
        {Failed("MCP002", c.source) : c \in {c \in allMCPConfigs(sigs) :
            OpenToGroup(c.mode) /\ \E k \in DOMAIN c.values : c.values[k] = "[secret]"}})

\* The arguments of a server, up to the first number that is missing.
ArgsOf(v, n) ==
    LET Key(i) == "mcpServers." \o n \o ".args." \o ToString(i - 1)
        Upto(m) == \A i \in 1..m : Key(i) \in DOMAIN v
        last == CHOOSE m \in 0..Cardinality(DOMAIN v) : Upto(m) /\ ~Upto(m + 1)
    IN [i \in 1..last |-> v[Key(i)]]

unpinnedRunners == {"npx", "uvx", "pipx"}
Pins(arg) == HasWord(SubSeq(arg, 2, Len(arg)), "@") \/ HasWord(arg, "==")

MCP003(sigs) ==
    ServersThat("MCP003", sigs, McpServerNames,
        LAMBDA v, n : LET args == ToSet(ArgsOf(v, n))
                      IN /\ OfServer(v, n, "command") \in unpinnedRunners
                         /\ args \cap {"-y", "--yes"} # {}
                         /\ ~\E arg \in args : Pins(arg), "high")

isMCPServerComm(comm) ==
    \E p \in {"npx", "uvx", "pipx", "node", "python", "deno", "bun"} : HasPrefix(comm, p)

MCP004(sigs) ==
    LET Serves(k) == \/ isMCPServerComm(k.comm)
                     \/ \E i \in DOMAIN sigs.processes :
                           /\ sigs.processes[i].pid = k.pid
                           /\ \E arg \in ToSet(sigs.processes[i].args) :
                                 HasWord(arg, "mcp") \/ HasWord(arg, "model-context-protocol")
    IN IF ~sigs.there \/ sigs.sockets = <<>> THEN {notAssessed("MCP004")}
       ELSE OrPass("MCP004", {FailedAt("MCP004", k.bind, k.port) : k \in
                {k \in ToSet(sigs.sockets) : /\ k.bind \notin {"127.0.0.1", "::1", "localhost"}
                                             /\ Serves(k)}})

OnLocalhost(url) == url = "" \/ \E w \in {"127.0.0.1", "localhost", "::1"} : HasWord(url, w)

MCP005(sigs) ==
    ServersThat("MCP005", sigs, Servers,
        LAMBDA v, n : /\ OfServer(v, n, "type") \in {"http", "sse"}
                      /\ OnLocalhost(OfServer(v, n, "url")), "medium")

verifiedNPMScopes == {"@modelcontextprotocol/", "@anthropic/", "@anthropic-ai/", "@openai/"}
verifiedRegistryPublishers == {"mcp-server-filesystem", "mcp-server-git", "mcp-server-fetch",
                               "mcp-server-sqlite", "server-everything"}
verifiedOCIImages == {"ghcr.io/modelcontextprotocol/server-filesystem",
                      "ghcr.io/modelcontextprotocol/server-git", "docker.io/mcp/server-fetch"}
ociRegistryPrefixes == {"ghcr.io/", "docker.io/", "registry.hub.docker.com/", "gcr.io/",
                        "public.ecr.aws/", "mcr.microsoft.com/"}
containerRuntimes == {"docker", "podman", "nerdctl"}
containerSubcommands == {"run", "exec", "create", "start", "pull", "push", "build", "tag"}
containerValueFlags ==
    {"-e", "--env", "-v", "--volume", "--name", "-p", "--publish", "-u", "--user", "--network",
     "-w", "--workdir", "--entrypoint", "-l", "--label", "--mount", "-h", "--hostname",
     "--log-driver", "--log-opt", "--cidfile"}

stripRegistryScheme(arg) ==
    LET fit == {w \in {"jsr:", "npm:", "npx:"} : HasPrefix(arg, w)}
    IN IF fit = {} THEN arg ELSE After(arg, CHOOSE w \in fit : TRUE)

\* An image is verified by its digest and its name, with or without a tag.
isVerifiedProvenance(arg) ==
    LET bare == stripRegistryScheme(arg)
        base == UpTo(bare, "@sha256:")
    IN IF HasPrefix(bare, "@") THEN \E w \in verifiedNPMScopes : HasPrefix(bare, w)
       ELSE \/ bare \in verifiedRegistryPublishers
            \/ HasWord(bare, "@sha256:") /\ \E i \in verifiedOCIImages :
                  base = i \/ (HasPrefix(base, i \o ":") /\ ~HasWord(After(base, i), "/"))

\* The name without a version; names of a scope are not asked for here.
barePackageName(arg) ==
    LET name == stripRegistryScheme(arg)
    IN IF HasWord(name, "==") THEN UpTo(name, "==") ELSE UpTo(name, "@")

Letters == {SubSeq("abcdefghijklmnopqrstuvwxyz", i, i) : i \in 1..26}

\* What a container runtime is told to run: the first argument that is no subcommand,
\* no flag and no value of one.
ContainerImage(args) ==
    FoldLeft(LAMBDA s, arg :
                 IF s.image # "" THEN s
                 ELSE IF s.skip THEN [s EXCEPT !.skip = FALSE]
                 ELSE IF HasPrefix(arg, "-") \/ arg \in containerSubcommands
                      THEN [s EXCEPT !.skip = arg \in containerValueFlags]
                      ELSE [s EXCEPT !.image = arg],
             [skip |-> FALSE, image |-> ""], args).image

\* An argument that names a package or an image nobody vouches for.
Suspect(arg) ==
    LET stripped == stripRegistryScheme(arg)
        bare == barePackageName(arg)
    IN \/ HasPrefix(arg, "github:")
       \/ /\ HasPrefix(stripped, "@") \/ \E w \in ociRegistryPrefixes : HasPrefix(stripped, w)
          /\ ~isVerifiedProvenance(arg)
       \/ /\ ~HasPrefix(stripped, "@") /\ ~\E w \in ociRegistryPrefixes : HasPrefix(stripped, w)
          /\ arg # "" /\ ~HasPrefix(arg, "-") /\ ~HasPrefix(arg, "/")
          /\ ~isVerifiedProvenance(bare)
          /\ bare # arg \/ \E ch \in Letters : HasWord(arg, ch)

RunsSuspect(v, n) ==
    LET args == ArgsOf(v, n)
    IN IF OfServer(v, n, "command") \in containerRuntimes
       THEN ContainerImage(args) # "" /\ ~isVerifiedProvenance(ContainerImage(args))
       ELSE \E i \in DOMAIN args : Suspect(args[i])

MCP006(sigs) == ServersThat("MCP006", sigs, McpServerNames, RunsSuspect, "medium")

MCP007(sigs) == {notAssessed("MCP007")}

Amplifiers == {"bypassPermissionsModeEnabled", "preferences.bypassPermissionsModeEnabled",
               "allowAllBrowserActions", "preferences.allowAllBrowserActions"}
TrustsAll(v) ==
    \E k \in DOMAIN v : /\ HasPrefix(k, TrustedFolders)
                        /\ v[k] \in {"/", "~", "/Users", "/home"} \/ HasPrefix(v[k], "~/")

MCP008(sigs) ==
    OfMCPConfigs("MCP008", sigs,
        {Failed("MCP008", c.source) : c \in {c \in allMCPConfigs(sigs) :
            TrustsAll(c.values) \/ \E k \in Amplifiers : Val(c.values, k) = "true"}})

Vulnerable(t) == HasWord(t, "@modelcontextprotocol/inspector") \/ HasWord(t, "mcp-inspector")

MCP009(sigs) ==
    LET running == {p \in ToSet(sigs.processes) :
                      Vulnerable(p.comm) \/ \E arg \in ToSet(p.args) : Vulnerable(arg)}
        named == {c \in allMCPConfigs(sigs) :
                    \E k \in DOMAIN c.values : IsServerKey(k) /\ Vulnerable(c.values[k])}
    IN IF ~sigs.there \/ (sigs.processes = <<>> /\ sigs.configs = <<>>) THEN {notAssessed("MCP009")}
       ELSE OrPass("MCP009", {Confident(Failed("MCP009", r), "medium") :
                              r \in {p.comm : p \in running} \cup {c.source : c \in named}})

AgentFindings(sigs) ==
    AGT001(sigs) \cup AGT002(sigs) \cup AGT003(sigs) \cup AGT004(sigs) \cup AGT005(sigs)
    \cup AGT006(sigs) \cup AGT007(sigs) \cup AGT008(sigs) \cup AGT009(sigs) \cup AGT010(sigs)
    \cup MCP001(sigs) \cup MCP002(sigs) \cup MCP003(sigs) \cup MCP004(sigs) \cup MCP005(sigs)
    \cup MCP006(sigs) \cup MCP007(sigs) \cup MCP008(sigs) \cup MCP009(sigs)
=============================================================================
