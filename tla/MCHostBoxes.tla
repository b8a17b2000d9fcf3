---------------------------- MODULE MCHostBoxes -----------------------------
(***************************************************************************)
(* Boxes for HostScan: a sound one, one for each way to fail a check, and  *)
(* one with most of that wrong at once.                                    *)
(***************************************************************************)
EXTENDS Collect

Home == "/home/ann"
OwnFile(content) == [content |-> content, mode |-> "0600", link |-> FALSE, readable |-> TRUE]
File(content) == [OwnFile(content) EXCEPT !.mode = "0644"]

\* Files of keys and values, from a sequence of pairs.
KV(pairs) == LastValues(pairs, {pairs[i][1] : i \in DOMAIN pairs})

-----------------------------------------------------------------------------
(***************************************************************************)
(* The stack: a service of each kind whose configuration is read.          *)
(***************************************************************************)
Bind(path) == <<[type |-> "bind", source |-> path, target |-> "/config"]>>

Service(name, base, path) ==
    [name |-> name, base |-> base, tag |-> "1", digest |-> TRUE, user |-> "1000",
     readOnly |-> TRUE, opts |-> {"no-new-privileges:true"}, limits |-> TRUE,
     privileged |-> FALSE, caps |-> {}, netmode |-> "",
     env |-> "ADMIN_PASSWORD" :> "${PW}", ports |-> <<>>, volumes |-> Bind(path)]

SoundServices == <<
    Service("cache", "redis", "/srv/cache/redis.conf"),
    Service("docs", "mongo", "/srv/docs/mongod.conf"),
    Service("db", "postgres", "/srv/db/pg_hba.conf"),
    Service("index", "elasticsearch", "/srv/index/elasticsearch.yml"),
    Service("films", "linuxserver/radarr", "/srv/films/config.xml"),
    Service("files", "linuxserver/qbittorrent", "/srv/files/qBittorrent.conf"),
    Service("charts", "grafana/grafana", "/srv/charts/grafana.ini"),
    Service("metrics", "prom/prometheus", "/srv/metrics/prometheus.yml"),
    Service("vault", "vaultwarden/server", "/srv/vault/.env"),
    Service("code", "gitea/gitea", "/srv/code/app.ini"),
    Service("build", "jenkins/jenkins", "/srv/build/config.xml"),
    Service("share", "dperson/samba", "/srv/share/smb.conf"),
    Service("store", "minio/minio", "/srv/store/config.env"),
    Service("queue", "eclipse-mosquitto", "/srv/queue/mosquitto.conf"),
    Service("sync", "syncthing/syncthing", "/srv/sync/config.xml"),
    [Service("edge", "traefik", "/srv/edge/traefik.yml") EXCEPT
        !.ports = <<[ip |-> "", host |-> 443, container |-> 8443]>>] >>

ServiceFiles ==
    ("/srv/cache/redis.conf" :> KV(<<<<"requirepass", "x">>, <<"protected-mode", "yes">>>>))
    @@ ("/srv/docs/mongod.conf" :> KV(<<<<"security.authorization", "enabled">>>>))
    @@ ("/srv/db/pg_hba.conf" :> <<<<"host", "all", "all", "10.0.0.0/8", "scram-sha-256">>>>)
    @@ ("/srv/index/elasticsearch.yml" :> KV(<<<<"xpack.security.enabled", "true">>>>))
    @@ ("/srv/films/config.xml" :> KV(<<<<"Config.Port", "7878">>,
                                        <<"Config.AuthenticationMethod", "Forms">>>>))
    @@ ("/srv/files/qBittorrent.conf" :> KV(<<<<"preferences.WebUI.LocalHostAuth", "true">>>>))
    @@ ("/srv/charts/grafana.ini" :> KV(<<<<"security.admin_user", "ann">>,
                                          <<"security.admin_password", "long enough">>>>))
    @@ ("/srv/metrics/prometheus.yml" :> KV(<<<<"global.scrape_interval", "15s">>>>))
    @@ ("/srv/vault/.env" :> KV(<<<<"ADMIN_TOKEN", "$argon2id$v=19">>>>))
    @@ ("/srv/code/app.ini" :> KV(<<<<"security.INSTALL_LOCK", "true">>,
                                    <<"service.DISABLE_REGISTRATION", "true">>>>))
    @@ ("/srv/build/config.xml" :> KV(<<<<"hudson.useSecurity", "true">>>>))
    @@ ("/srv/share/smb.conf" :> KV(<<<<"global.guest ok", "no">>>>))
    @@ ("/srv/store/config.env" :> KV(<<<<"MINIO_ROOT_USER", "ann">>,
                                        <<"MINIO_ROOT_PASSWORD", "long enough">>>>))
    @@ ("/srv/queue/mosquitto.conf" :> KV(<<<<"allow_anonymous", "false">>>>))
    @@ ("/srv/sync/config.xml" :> KV(<<<<"configuration.gui.user", "ann">>>>))
    @@ ("/srv/edge/traefik.yml" :> KV(<<<<"api.insecure", "false">>>>))

-----------------------------------------------------------------------------
(***************************************************************************)
(* The host: its accounts, its agents, its sshd.                           *)
(***************************************************************************)
User(name, uid) == [name |-> name, uid |-> uid, gid |-> uid]
Group(name, gid, members) == [name |-> name, gid |-> gid, members |-> members]

Passwd == <<User("root", 0), User("ann", 1000), User("bob", 1001)>>
GroupsWith(docker) == <<Group("root", 0, {}), Group("ann", 1000, {}), Group("docker", 998, docker)>>
Shadow == <<[name |-> "root", hash |-> "!"], [name |-> "ann", hash |-> "y1"]>>

\* An agent with two servers, each in a file of its own.
Claude == KV(<<<<"defaultMode", "default">>, <<"permissions.allow.0", "~/work">>,
               <<"mcpServers.files.command", "npx">>,
               <<"mcpServers.files.args.0", "-y">>,
               <<"mcpServers.files.args.1", "@modelcontextprotocol/server-filesystem@1.2.3">>>>)
Cursor == KV(<<<<"mcpServers.git.command", "docker">>, <<"mcpServers.git.args.0", "run">>,
               <<"mcpServers.git.args.1",
                 "ghcr.io/modelcontextprotocol/server-git@sha256:77">>>>)
ManyArguments ==
    [i \in 1..9 |-> <<"mcpServers.git.args." \o ToString(i + 1), "-" \o ToString(i)>>]
    \o <<<<"mcpServers.git.url", "http://localhost:9">>, <<"mcpServers.git.env.0", HighEntropy>>,
         <<"mcpServers.git.env.DEBUG", "1">>>>
Openclaw == KV(<<<<"tools.exec.ask", "on">>, <<"tools.fs.workspaceOnly", "true">>,
                 <<"channels.discord.groupPolicy", "allowlist">>>>)

HostFiles ==
    ("/etc/os-release" :> KV(<<<<"ID", "debian">>, <<"VERSION_ID", "12">>>>))
    @@ ("/etc/ssh/sshd_config" :> <<<<"passwordauthentication", "no">>, <<"permitrootlogin", "no">>>>)
    @@ ("/etc/ssh/sshd_config.d/50-cloud.conf" :> <<<<"maxauthtries", "4">>>>)
    @@ ("/etc/passwd" :> Passwd) @@ ("/etc/group" :> GroupsWith({}))
    @@ ("/etc/login.defs" :> KV(<<<<"UMASK", "027">>>>))
    @@ ("/etc/sudoers" :> <<[name |-> "root", nopasswd |-> FALSE]>>)
    @@ ("/etc/sudoers.d/ann" :> <<[name |-> "ann", nopasswd |-> FALSE]>>)
    @@ ("/etc/apt/apt.conf.d/20auto-upgrades" :> KV(<<<<"unattended_upgrade", "1">>>>))
    @@ ("/etc/docker/daemon.json" :> KV(<<<<"hosts", "unix:///var/run/docker.sock">>>>))
    @@ ("/etc/exports" :> <<<<"/srv", "10.0.0.0/8(rw,root_squash)">>>>)

AgentFiles ==
    (Home \o "/.claude/settings.json" :> Claude)
    @@ (Home \o "/.cursor/mcp.json" :> Cursor)
    @@ (Home \o "/.openclaw/openclaw.json" :> Openclaw)
    @@ (Home \o "/.openclaw/cron/jobs.json" :> KV(<<<<"jobs.0.enabled", "false">>>>))
    @@ (Home \o "/.openclaw/extensions/notes/main.js" :> NoText)

Sound ==
    [os |-> "linux", home |-> Home, root |-> TRUE, today |-> 20260101, broken |-> {},
     ss |-> <<[bind |-> "0.0.0.0", port |-> 22, comm |-> "sshd", pid |-> 10],
              [bind |-> "127.0.0.1", port |-> 8931, comm |-> "node", pid |-> 11]>>,
     ps |-> <<[pid |-> 10, comm |-> "sshd", uid |-> 0, args |-> <<"-D">>],
              [pid |-> 12, comm |-> "claude", uid |-> 1000, args |-> <<>>],
              [pid |-> 13, comm |-> "dockerd", uid |-> 0, args |-> <<"-H", "fd://">>],
              [pid |-> 14, comm |-> "kubelet", uid |-> 0, args |-> <<"--anonymous-auth=false">>],
              [pid |-> 15, comm |-> "bash", uid |-> 1001, args |-> <<>>],
              [pid |-> 16, comm |-> "cryptsetup", uid |-> 0, args |-> <<>>]>>,
     sysctl |-> KV(<<<<"kernel.randomize_va_space", "2">>, <<"fs.suid_dumpable", "0">>>>),
     apt |-> <<"stable">>, reboot |-> FALSE,
     ufw |-> [incoming |-> "deny"], nft |-> <<"drop">>,
     sshdT |-> <<<<"passwordauthentication", "no">>, <<"permitrootlogin", "no">>,
                 <<"maxauthtries", "4">>>>,
     dropins |-> <<"/etc/ssh/sshd_config.d/50-cloud.conf">>,
     sudoersd |-> <<"/etc/sudoers.d/ann">>,
     fs |-> [p \in DOMAIN HostFiles |-> File(HostFiles[p])]
            @@ [p \in DOMAIN AgentFiles |-> OwnFile(AgentFiles[p])]
            @@ [p \in DOMAIN ServiceFiles |-> File(ServiceFiles[p])]
            @@ ("/etc/shadow" :> [File(Shadow) EXCEPT !.mode = "0600"])
            @@ ("/var/run/docker.sock" :> [File(NoText) EXCEPT !.mode = "0660"]),
     crowded |-> {},
     services |-> SoundServices, secrets |-> {}, env |-> <<[committed |-> FALSE]>>,
     firewall |-> <<[denies |-> {}, dockerUser |-> TRUE]>>,
     proxy |-> <<[kind |-> "caddy", dashboard |-> FALSE,
                  routes |-> {[service |-> "charts", host |-> "charts.example", auth |-> TRUE,
                               tls |-> TRUE, headers |-> TRUE, wildcard |-> FALSE]}]>>,
     probe |-> <<[open |-> {80, 443}, dns |-> {[name |-> "example", wildcard |-> FALSE, dangling |-> FALSE]},
                  certs |-> {[endpoint |-> "example:443", expired |-> FALSE, selfSigned |-> FALSE,
                              weakCipher |-> FALSE, version |-> "TLS 1.3"]}]>>,
     intended |-> {443}]


-----------------------------------------------------------------------------
(***************************************************************************)
(* What is wrong with a box: a file, with the checks that it fails.        *)
(***************************************************************************)
BadFile(path, content, fails) == [path |-> path, content |-> content, fails |-> fails]

\* Another content for a key of a file.
But(c, k, v) == [c EXCEPT ![k] = v]
Srv(path, k, v, fails) == BadFile(path, But(ServiceFiles[path], k, v), fails)
And(c, pairs) == KV(pairs) @@ c

\* Addresses of the Docker daemon, one more than masking lets through.
LongHosts == "fd://,tcp://0.0.0.0:2375,unix:///var/run/docker.sock"

BadFiles == <<
    BadFile("/srv/cache/redis.conf", KV(<<<<"protected-mode", "no">>, <<"bind", "127.0.0.1 -::1">>>>), {}),
    BadFile("/srv/cache/redis.conf", KV(<<<<"protected-mode", "no">>, <<"bind", "0.0.0.0">>>>), {"SVC001"}),
    BadFile("/srv/docs/mongod.conf", KV(<<<<"net.port", "27017">>>>), {"SVC002"}),
    BadFile("/srv/db/pg_hba.conf", <<<<"host", "all", "all", "0.0.0.0/0", "trust">>>>, {"SVC003"}),
    Srv("/srv/index/elasticsearch.yml", "xpack.security.enabled", "false", {"SVC004"}),
    BadFile("/srv/films/config.xml", KV(<<<<"Config.AuthenticationMethod", "None">>>>), {"SVC010"}),
    Srv("/srv/files/qBittorrent.conf", "preferences.WebUI.LocalHostAuth", "false", {"SVC011"}),
    Srv("/srv/charts/grafana.ini", "security.admin_password", "admin", {"SVC020"}),
    Srv("/srv/vault/.env", "ADMIN_TOKEN", "short", {"SVC030"}),
    Srv("/srv/code/app.ini", "service.DISABLE_REGISTRATION", "false", {"SVC031"}),
    Srv("/srv/build/config.xml", "hudson.useSecurity", "false", {"SVC032"}),
    BadFile("/srv/share/smb.conf", KV(<<<<"films.guest ok", "yes">>>>), {"SVC040"}),
    BadFile("/etc/exports", <<<<"/srv", "*(rw)">>>>, {"SVC041"}),
    BadFile("/srv/store/config.env", KV(<<<<"MINIO_ROOT_USER", "minioadmin">>,
                                          <<"MINIO_ROOT_PASSWORD", "minioadmin">>>>), {"SVC050"}),
    Srv("/srv/queue/mosquitto.conf", "allow_anonymous", "true", {"SVC051"}),
    BadFile("/srv/sync/config.xml", KV(<<<<"configuration.gui.address", "0.0.0.0">>>>), {"SVC052"}),
    Srv("/srv/edge/traefik.yml", "api.insecure", "true", {"SVC060"}),
    BadFile("/etc/passwd", Append(Passwd, User("toor", 0)), {"HST021"}),
    BadFile("/etc/shadow", Append(Shadow, [name |-> "bob", hash |-> ""]), {"HST022"}),
    BadFile("/etc/sudoers", <<[name |-> "bob", nopasswd |-> TRUE]>>, {"HST020"}),
    BadFile("/etc/sudoers.d/ann", <<[name |-> "ann", nopasswd |-> TRUE]>>, {"HST020"}),
    BadFile("/etc/apt/apt.conf.d/20auto-upgrades", KV(<<<<"unattended_upgrade", "0">>>>), {"HST013"}),
    BadFile("/etc/docker/daemon.json", KV(<<<<"hosts", LongHosts>>>>), {}),
    BadFile("/etc/docker/daemon.json",
            KV(<<<<"hosts", "tcp://0.0.0.0:2375,unix:///var/run/docker.sock">>>>), {"FW005"}),
    BadFile("/etc/docker/daemon.json",
            KV(<<<<"hosts", "fd://, tcp://127.0.0.1:2375, tcp://0.0.0.0:2375">>>>), {"FW005"}),
    BadFile("/etc/group", GroupsWith({"bob"}), {"HRD010"}),
    BadFile("/etc/group", GroupsWith({"ann"}), {"AGT003"}),
    BadFile(Home \o "/.openclaw/openclaw.json",
            But(Openclaw, "tools.exec.ask", "off"), {"AGT001"}),
    BadFile(Home \o "/.openclaw/openclaw.json",
            But(Openclaw, "channels.discord.groupPolicy", "open"), {"AGT009"}),
    BadFile(Home \o "/.openclaw/openclaw.json",
            And(Openclaw, <<<<"tools.fs.workspaceOnly", "false">>, <<"browser.enabled", "true">>,
                            <<"mcpServers.slack.url", "https://slack.example">>>>),
            {"AGT002", "AGT008"}),
    BadFile(Home \o "/.claude/settings.json", But(Claude, "permissions.allow.0", "**"), {"AGT008"}),
    BadFile(Home \o "/.claude/settings.json",
            But(Claude, "mcpServers.files.args.1", "@modelcontextprotocol/server-filesystem"), {"MCP003"}),
    BadFile(Home \o "/.claude/settings.json",
            But(Claude, "mcpServers.files.args.1", "@nobody/server@1.2.3"), {"MCP006"}),
    BadFile(Home \o "/.claude/settings.json",
            And(Claude, <<<<"mcpServers.files.env.API_TOKEN", HighEntropy>>>>), {"MCP001"}),
    BadFile(Home \o "/.cursor/mcp.json",
            But(Cursor, "mcpServers.git.args.1", "ghcr.io/nobody/server@sha256:77"), {"MCP006"}),
    BadFile(Home \o "/.cursor/mcp.json",
            KV(<<<<"mcpServers.near.type", "sse">>, <<"mcpServers.near.url", "http://localhost:9">>>>),
            {"MCP005"}),
    BadFile(Home \o "/.cursor/mcp.json",
            KV(<<<<"mcpServers.far.type", "sse">>, <<"mcpServers.far.url", UserinfoURL>>>>),
            {"MCP001"}),
    BadFile(Home \o "/.cursor/mcp.json", And(Cursor, ManyArguments),
            {"MCP001"}),
    BadFile(Home \o "/.cursor/mcp.json",
            And(Cursor, <<<<"mcpServers.git.args.2", "mcp-inspector">>>>), {"MCP009"}) >>

-----------------------------------------------------------------------------
(***************************************************************************)
(* Other things that are wrong, by the name of the check that fails; where *)
(* a name is no check, what fails is in Several.                           *)
(***************************************************************************)
Moded(s, path, mode) == [s EXCEPT !.fs[path].mode = mode]
Extra(s, path, file) == [s EXCEPT !.fs = (path :> file) @@ @]
Listening(s, k) == [s EXCEPT !.ss = Append(@, k)]
Running(s, i, args) == [s EXCEPT !.ps[i].args = args]
Lax == <<<<"passwordauthentication", "yes">>, <<"permitrootlogin", "yes">>, <<"maxauthtries", "10">>>>
SshdSays(s, pairs) == [s EXCEPT !.sshdT = pairs \o <<<<"maxauthtries", "4">>>>]

\* Guarded by fail2ban, which is seen as a process or by its files; with the firewall
\* of ufw or nft; with files of sshd that say otherwise than sshd does.
Guards(s) ==
    ("guarded" :> [SshdSays(s, <<<<"permitrootlogin", "no">>>>) EXCEPT
                      !.ps[5].comm = "fail2ban-server", !.ps[5].uid = 0])
    @@ ("guarded by its files" :>
            Extra(SshdSays(s, <<<<"permitrootlogin", "no">>>>), "/etc/fail2ban/jail.local", File(NoText)))
    @@ ("nft only" :> [s EXCEPT !.broken = {"ufw"}])
    @@ ("nft accepts" :> [s EXCEPT !.nft = <<"accept">>])
    @@ ("lax files" :> [s EXCEPT !.fs["/etc/ssh/sshd_config.d/50-cloud.conf"].content = Lax])
    @@ ("strict drop-in" :> [s EXCEPT !.broken = {"sshd"},
            !.fs["/etc/ssh/sshd_config"].content = Lax,
            !.fs["/etc/ssh/sshd_config.d/50-cloud.conf"].content = s.sshdT])

\* Two files of one schema, of which the first is judged.
Cache(s, content) ==
    Extra([s EXCEPT !.services = Append(@, Service("cache2", "redis", "/srv/cache2/redis.conf"))],
          "/srv/cache2/redis.conf", File(content))
Profiles(s, first, second) ==
    [Extra(s, "/etc/apt/apt.conf.d/50unattended-upgrades",
           File(KV(<<<<"unattended_upgrade", second>>>>)))
        EXCEPT !.fs["/etc/apt/apt.conf.d/20auto-upgrades"].content["unattended_upgrade"] = first]
Doubled(s) ==
    ("second settings" :>
            Extra(s, Home \o "/.claude/settings.local.json",
                  OwnFile(And(But(Claude, "permissions.allow.0", "**"),
                              <<<<"defaultMode", "bypassPermissions">>>>))))
    @@ ("second profile" :> Profiles(s, "1", "0")) @@ ("HST013" :> Profiles(s, "0", "1"))
    @@ ("second cache" :> Cache(s, KV(<<<<"protected-mode", "no">>>>)))
    @@ ("SVC001" :> [Cache(s, ServiceFiles["/srv/cache/redis.conf"]) EXCEPT
                        !.fs["/srv/cache/redis.conf"].content = KV(<<<<"protected-mode", "no">>>>)])
    @@ ("second vault file" :>
            Extra([s EXCEPT !.services[9].volumes = @ \o Bind("/srv/vault/config.json")],
                  "/srv/vault/config.json", File(KV(<<<<"admin_token", "short">>>>))))

WrongHosts(s) ==
    ("HST002" :> SshdSays(s, <<<<"passwordauthentication", "no">>, <<"permitrootlogin", "prohibit-password">>>>))
    @@ ("passwords" :> SshdSays(s, <<<<"permitrootlogin", "no">>>>))
    @@ ("root by password" :> SshdSays(s, <<<<"passwordauthentication", "yes">>, <<"permitrootlogin", "yes">>>>))
    @@ ("drop-in" :>
            [s EXCEPT !.broken = {"sshd"},
                          !.fs["/etc/ssh/sshd_config.d/50-cloud.conf"].content =
                              Lax])
    @@ ("HST004" :> [s EXCEPT !.sshdT[3] = <<"maxauthtries", "10">>])
    @@ ("HST010" :> [s EXCEPT !.apt = <<"stable-security">>])
    @@ ("old release" :> [s EXCEPT !.apt = <<"stable-security">>, !.today = 20280610])
    @@ ("HST012" :> [s EXCEPT !.reboot = TRUE])
    @@ ("HST023" :> Moded(s, "/etc/shadow", "0640"))
    @@ ("HST030" :> [s EXCEPT !.ufw.incoming = "allow"])
    @@ ("HST040" :> [s EXCEPT !.sysctl["fs.suid_dumpable"] = "2"])
    @@ ("HST041" :> [s EXCEPT !.ps = SubSeq(@, 1, 5)])
    @@ ("HRD009" :> Moded(s, "/var/run/docker.sock", "0666"))
    @@ ("FW005" :> Running(s, 3, <<"-H", "tcp://0.0.0.0:2375">>))
    @@ ("FW006" :> Running(s, 4, <<"--kubelet-arg=anonymous-auth=true">>))
    @@ ("FW006 hidden" :> Running(s, 4, <<"--authorization-mode=AlwaysAllow">>))
    @@ ("FW006 hidden by k3s" :> Running(s, 4, <<"--kubelet-arg=authorization-mode=AlwaysAllow">>))
    @@ ("FW006 mistaken" :> Running(s, 4, <<"--anonymous-auth=true", "--authorization-mode=Webhook">>))
    @@ ("AGT004" :> Moded(s, Home \o "/.claude/settings.json", "0644"))
    @@ ("AGT005" :> Extra(s, Home \o "/.claude/settings.json.bak", OwnFile(Claude)))
    @@ ("AGT006" :> Listening(s, [bind |-> "0.0.0.0", port |-> 18789, comm |-> "openclaw", pid |-> 17]))
    @@ ("AGT010" :> Extra(s, Home \o "/.openclaw/extensions/notes/.git/config", OwnFile(NoText)))
    @@ ("MCP004" :> Listening(s, [bind |-> "*", port |-> 8931, comm |-> "node", pid |-> 11]))
    @@ ("mcp by its arguments" :>
            [Listening(s, [bind |-> "*", port |-> 9000, comm |-> "agentd", pid |-> 15])
                EXCEPT !.ps[5].args = <<"mcp-serve">>])
    @@ ("unattended jobs" :>
            [s EXCEPT !.fs[Home \o "/.openclaw/cron/jobs.json"].content["jobs.0.enabled"] = "true",
                          !.fs[Home \o "/.openclaw/openclaw.json"].content["tools.exec.ask"] = "off"])
    @@ ("readable secret" :>
            [s EXCEPT !.fs[Home \o "/.cursor/mcp.json"] =
                File(And(Cursor, <<<<"mcpServers.git.headers.Authorization", Bearer>>>>))])
    @@ ("MCP008" :>
            Extra(s, Home \o "/.claude.json",
                  OwnFile(And(Cursor, <<<<"bypassPermissionsModeEnabled", "true">>>>))))
    @@ ("MCP009" :> Running(s, 2, <<"npx", "@modelcontextprotocol/inspector">>))

\* Stacks in which one service is changed, or all of what else there is.
Publishes(s, i, ports) ==
    [s EXCEPT !.services[i].ports =
        [k \in DOMAIN ports |-> [ip |-> "", host |-> ports[k], container |-> ports[k]]],
        !.probe[1].open = @ \cup ToSet(ports)]
Route(s, field, v) ==
    [s EXCEPT !.proxy[1].routes = {[CHOOSE r \in @ : TRUE EXCEPT ![field] = v]}]
Cert(s, field, v) ==
    [s EXCEPT !.probe[1].certs = {[CHOOSE c \in @ : TRUE EXCEPT ![field] = v]}]
Name(s, field) ==
    [s EXCEPT !.probe[1].dns = {[CHOOSE r \in @ : TRUE EXCEPT ![field] = TRUE]}]

WrongStacks(s) ==
    ("FW001" :> [s EXCEPT !.firewall[1].denies = {443}])
    @@ ("FW002" :> Publishes(s, 1, <<6379>>))
    @@ ("FW003" :> [s EXCEPT !.services[1].netmode = "host"])
    @@ ("FW004" :> [s EXCEPT !.firewall[1].dockerUser = FALSE])
    @@ ("EXP003" :> [s EXCEPT !.probe[1].open = {}])
    @@ ("HRD001" :> [s EXCEPT !.services[1].privileged = TRUE])
    @@ ("HRD002" :> [s EXCEPT !.services[1].caps = {"NET_ADMIN"}])
    @@ ("all capabilities" :> [s EXCEPT !.services[1].caps = {"CAP_SYS_ADMIN", "CHOWN"}])
    @@ ("HRD003" :> [s EXCEPT
            !.services[1].volumes = Append(@, [type |-> "bind", source |-> "/run", target |-> "/var/run/docker.sock"])])
    @@ ("HRD004" :> [s EXCEPT !.services[1].user = "root"])
    @@ ("HRD005" :> [s EXCEPT !.services[1].readOnly = FALSE])
    @@ ("HRD006" :> [s EXCEPT !.services[1].opts = {}])
    @@ ("HRD007" :> [s EXCEPT !.services[1].limits = FALSE])
    @@ ("SUP001" :> [s EXCEPT !.services[1].digest = FALSE])
    @@ ("latest" :> [s EXCEPT !.services[1].digest = FALSE, !.services[1].tag = "latest"])
    @@ ("literal" :> [s EXCEPT !.services[1].env = "DB_PASSWORD" :> "correct horse"])
    @@ ("SEC001" :> [[s EXCEPT !.services[1].env = "DB_PASSWORD" :> "correct horse"]
                        EXCEPT !.secrets = {"db"}])
    @@ ("weak" :> [s EXCEPT !.services[1].env = "DB_PASSWORD" :> "12345"])
    @@ ("SEC002" :> [s EXCEPT !.env[1].committed = TRUE])
    @@ ("AUTH001" :> Publishes(s, 10, <<8096>>))
    @@ ("AUTH002" :> [s EXCEPT !.services[7].env = NoValues])
    @@ ("PRX001" :> Route(s, "auth", FALSE)) @@ ("PRX002" :> Route(s, "tls", FALSE))
    @@ ("PRX004" :> Route(s, "headers", FALSE)) @@ ("PRX005" :> Route(s, "wildcard", TRUE))
    @@ ("PRX003" :> [s EXCEPT !.proxy[1].dashboard = TRUE])
    @@ ("PRX006" :> [s EXCEPT !.proxy[1].kind = "npm"])
    @@ ("no TLS" :> [s EXCEPT !.probe[1].open = {80}])
    @@ ("TLS002" :> Cert(s, "expired", TRUE)) @@ ("TLS003" :> Cert(s, "selfSigned", TRUE))
    @@ ("TLS004" :> Cert(s, "version", "TLS 1.0"))
    @@ ("DNS001" :> Name(s, "wildcard")) @@ ("DNS002" :> Name(s, "dangling"))
    @@ ("no stack" :> [s EXCEPT !.services = <<>>])

Fails(ids) == {<<i, Severity(i), i \in Fatals>> : i \in ids}

Several ==
    ("passwords" :> Fails({"HST001", "HST005"}))
    @@ ("root by password" :> Fails({"HST001", "HST002", "HST003", "HST005"}))
    @@ ("drop-in" :> Fails({"HST001", "HST002", "HST004", "HST005"}) \cup {<<"HST003", "critical", FALSE>>})
    @@ ("old release" :> Fails({"HST011"}) \cup {<<"HST010", "critical", FALSE>>})
    @@ ("unattended jobs" :> Fails({"AGT001", "AGT007"}))
    @@ ("readable secret" :> Fails({"MCP001", "MCP002"}))
    @@ ("guarded" :> Fails({"HST001"})) @@ ("guarded by its files" :> Fails({"HST001"}))
    @@ ("mcp by its arguments" :> Fails({"MCP004"}))
    @@ [b \in {"nft only", "nft accepts", "lax files", "strict drop-in", "second settings",
               "second profile", "second cache", "second vault file"} |-> {}]
    @@ ("FW006 hidden" :> {}) @@ ("FW006 hidden by k3s" :> {})
    @@ ("FW006 mistaken" :> Fails({"FW006"}))
    @@ ("AGT003" :> {<<"AGT003", "critical", FALSE>>})
    @@ ("all capabilities" :> {<<"HRD002", "critical", FALSE>>})
    @@ ("latest" :> Fails({"SUP001", "HRD008"}))
    @@ ("literal" :> Fails({"SEC001", "SEC004"}))
    @@ ("weak" :> Fails({"SEC001", "SEC003", "SEC004"}))
    @@ ("no TLS" :> Fails({"TLS001", "EXP003"}))
    @@ ("no stack" :> {})

-----------------------------------------------------------------------------
(***************************************************************************)
(* The instance.                                                           *)
(***************************************************************************)
Named(i) == "file " \o ToString(i)
ByName(files) == [n \in {Named(i) : i \in DOMAIN files} |->
    files[CHOOSE i \in DOMAIN files : Named(i) = n]]
NamedFiles == ByName(BadFiles)
WrongFiles(s, files) == [n \in DOMAIN files |->
    [s EXCEPT !.fs[files[n].path].content = files[n].content]]

\* All of the files at once, and most of what can be wrong with a host.
WithAll(files, fs) == [p \in DOMAIN fs |->
    IF \E i \in DOMAIN files : files[i].path = p
    THEN [fs[p] EXCEPT !.mode = "0666",
             !.content = Last(SelectSeq(files, LAMBDA f : f.path = p)).content]
    ELSE fs[p]]
Rotten(s) ==
    [WrongHosts(s)["root by password"] EXCEPT
        !.apt = <<"stable-security">>, !.today = 20280610, !.reboot = TRUE,
        !.ufw.incoming = "allow", !.nft = <<"accept">>,
        !.sysctl["fs.suid_dumpable"] = "2",
        !.ps = SubSeq(@, 1, 5) \o <<[pid |-> 17, comm |-> "openclaw", uid |-> 1000, args |-> <<>>],
                                    [pid |-> 18, comm |-> "k3s", uid |-> 0,
                                     args |-> <<"--kubelet-arg=anonymous-auth=true">>],
                                    [pid |-> 19, comm |-> "dockerd", uid |-> 0,
                                     args |-> <<"-H=tcp://0.0.0.0:2375">>],
                                    [pid |-> 20, comm |-> "node", uid |-> 1000,
                                     args |-> <<"@modelcontextprotocol/inspector">>]>>,
        !.ss = @ \o <<[bind |-> "0.0.0.0", port |-> 18789, comm |-> "openclaw", pid |-> 17],
                      [bind |-> "*", port |-> 8931, comm |-> "node", pid |-> 11]>>,
        !.fs = ("/etc/ssh/sshd_config" :> File(<<<<"permitrootlogin", "yes">>>>)) @@
               WithAll(BadFiles, @)
               @@ (Home \o "/.claude/settings.json.bak" :> OwnFile(Claude))
               @@ (Home \o "/.openclaw/extensions/notes/.git/config" :> OwnFile(NoText))]

BoxesLike(s) ==
    ("sound" :> s) @@ ("rotten" :> Rotten(s)) @@ WrongHosts(s) @@ Guards(s) @@ Doubled(s)
    @@ WrongStacks(s) @@ WrongFiles(s, NamedFiles)
MCBoxes == BoxesLike(Sound)

\* A part at a time, and what stands in for it too.
Directories(h) == {{h.home \o "/.claude"}, {h.home \o "/.openclaw/extensions"}, {"/etc/docker"}}
Failures ==
    {{c} : c \in {"ss", "ps", "apt", "ufw", "nft", "sshd", "root"}}
    \cup {{"ufw", "nft"}, {"sshd", "/etc/ssh/sshd_config"}, {"root", "/etc/ssh/sshd_config"}}
LossesOf(boxes) == [b \in DOMAIN boxes |->
    IF b \in {"sound", "rotten"}
    THEN {{}} \cup Failures \cup Directories(boxes[b]) \cup {{p} : p \in DOMAIN boxes[b].fs}
    ELSE {{}}]
MCLosses == LossesOf(MCBoxes)

\* The other hosts lack, for good, one of these, a file of sshd, or a file that is not as on
\* the sound one, of two of a kind the first too; where a service's file is all that is
\* wrong, only files.
First == {Home \o "/.claude/settings.json", "/etc/apt/apt.conf.d/20auto-upgrades",
          "/srv/cache/redis.conf", "/srv/vault/.env"}
Changed(h, s) ==
    {p \in DOMAIN h.fs : p \in ToSet(StaticOrder(h)) \/ p \notin DOMAIN s.fs \/ h.fs[p] # s.fs[p]}
ServiceBoxes(files) == {n \in DOMAIN files : files[n].path \in DOMAIN ServiceFiles}
LastingOf(boxes, s) == [b \in DOMAIN boxes |->
    LET parts == {{p} : p \in Changed(boxes[b], s)
                              \cup (IF b \in DOMAIN Doubled(s) THEN First ELSE {})}
    IN CASE b \in {"sound", "rotten"} \cup DOMAIN WrongStacks(s) -> {}
         [] b \in ServiceBoxes(NamedFiles) -> parts
         [] OTHER -> Failures \cup Directories(boxes[b]) \cup parts]
MCLasting == LastingOf(MCBoxes, Sound)

SomeChange(names) == {<<"sound", b>> : b \in names} \cup {<<b, "sound">> : b \in names}
MCChanges == SomeChange(DOMAIN MCBoxes)

RottenVerdicts ==
    {<<"HST010", "critical", FALSE>>, <<"AGT003", "critical", FALSE>>}
    \cup Fails({"HST001", "HST002", "HST003", "HST005", "HST011", "HST012", "HST013", "HST020",
               "HST021", "HST022", "HST023", "HST030", "HST040", "HST041", "HRD010", "FW005",
               "FW006", "AGT002", "AGT004", "AGT005", "AGT006", "AGT008", "AGT010", "MCP001",
               "MCP002", "MCP004", "MCP009"}
              \cup (ServiceChecks \ {"SVC021"}))
MCVerdicts == [b \in DOMAIN MCBoxes |->
    CASE b \in DOMAIN NamedFiles ->
             LET ids == NamedFiles[b].fails
             IN IF ids = {"AGT003"} THEN {<<"AGT003", "critical", FALSE>>} ELSE Fails(ids)
      [] b \in DOMAIN Several -> Several[b]
      [] b = "sound" -> {}
      [] b = "rotten" -> RottenVerdicts
      [] OTHER -> Fails({b})]
=============================================================================
