--------------------------- MODULE ServiceConfigs ---------------------------
(***************************************************************************)
(* Configuration files of the services of a stack: which files belong to   *)
(* which service (internal/collect/discover.go), what their parsers emit   *)
(* (service_parsers.go), and the SVC checks that judge it                  *)
(* (internal/checks/service).                                              *)
(*                                                                         *)
(* A service has the base and tag of its image and its volumes, each with  *)
(* a type and a source path.  Files of lines (pg_hba.conf, exports) are    *)
(* sequences of their lines' fields.                                       *)
(***************************************************************************)
EXTENDS Facts, Catalog

kindTable == <<
    [words |-> {"redis"}, schema |-> "redis-conf", names |-> {"redis.conf"}],
    [words |-> {"mongo"}, schema |-> "mongod-conf",
     names |-> {"mongod.conf", "mongod.yml", "mongod.yaml"}],
    [words |-> {"postgres", "postgresql"}, schema |-> "pg-hba", names |-> {"pg_hba.conf"}],
    [words |-> {"elasticsearch"}, schema |-> "elasticsearch-yml",
     names |-> {"elasticsearch.yml", "elasticsearch.yaml"}],
    [words |-> {"sonarr", "radarr", "prowlarr", "lidarr", "readarr"},
     schema |-> "arr-config", names |-> {"config.xml"}],
    [words |-> {"qbittorrent", "linuxserver/qbittorrent"}, schema |-> "qbittorrent-conf",
     names |-> {"qBittorrent.conf"}],
    [words |-> {"grafana"}, schema |-> "grafana-ini", names |-> {"grafana.ini"}],
    [words |-> {"prometheus"}, schema |-> "prometheus-yml",
     names |-> {"prometheus.yml", "prometheus.yaml"}],
    [words |-> {"vaultwarden"}, schema |-> "vaultwarden-env", names |-> {".env"}],
    [words |-> {"vaultwarden"}, schema |-> "vaultwarden-json", names |-> {"config.json"}],
    [words |-> {"gitea"}, schema |-> "gitea-ini", names |-> {"app.ini"}],
    [words |-> {"jenkins"}, schema |-> "jenkins-config", names |-> {"config.xml"}],
    [words |-> {"samba", "dperson/samba", "servercontainers/samba"},
     schema |-> "smb-conf", names |-> {"smb.conf"}],
    [words |-> {"minio"}, schema |-> "minio-env", names |-> {".env", "config.env"}],
    [words |-> {"mosquitto", "eclipse-mosquitto"}, schema |-> "mosquitto-conf",
     names |-> {"mosquitto.conf"}],
    [words |-> {"syncthing"}, schema |-> "syncthing-config", names |-> {"config.xml"}],
    [words |-> {"traefik"}, schema |-> "traefik-yml", names |-> {"traefik.yml", "traefik.yaml"}],
    [words |-> {"nfs-server", "nfs-ganesha", "erichough/nfs-server", "itsthenetwork/nfs"},
     schema |-> "nfs-exports", names |-> {"exports"}] >>

WordsIn(base, kind) == {w \in kind.words : HasWord(base, w)}

kindsForImage(base) == SelectSeq(kindTable, LAMBDA kind : WordsIn(base, kind) # {})

HasBase(path, names) == \E n \in names : HasSuffix(path, "/" \o n)

\* Of the kinds that expect the basename of a file, the first with the longest keyword.
BestKind(base, path) ==
    LET fit == SelectSeq(kindsForImage(base), LAMBDA kind : HasBase(path, kind.names))
        Longest(kind) == Max({Len(w) : w \in WordsIn(base, kind)})
        Top(i) == \A j \in DOMAIN fit : Longest(fit[j]) <= Longest(fit[i])
    IN IF fit = <<>> THEN <<>>
       ELSE <<fit[CHOOSE i \in DOMAIN fit : Top(i) /\ \A j \in 1..(i - 1) : ~Top(j)]>>

CandidatesOf(v) ==
    FlattenSeq([i \in DOMAIN v.volumes |->
        LET m == v.volumes[i]
            kind == IF m.type # "bind" \/ m.source = "" THEN <<>>
                    ELSE BestKind(v.base, m.source)
        IN IF kind = <<>> THEN <<>> ELSE <<[path |-> m.source, schema |-> kind[1].schema]>>])

\* One candidate for a path and a schema, whichever service names it first.
ServiceConfigCandidates(services) ==
    LET all == FlattenSeq([i \in DOMAIN services |-> CandidatesOf(services[i])])
        First(i) == \A j \in 1..(i - 1) : all[j] # all[i]
    IN FlattenSeq([i \in DOMAIN all |-> IF First(i) THEN <<all[i]>> ELSE <<>>])

-----------------------------------------------------------------------------
(***************************************************************************)
(* The parsers.                                                            *)
(***************************************************************************)
Decoded(c, schema, values) == IF Undecodable(c) THEN Unparsed ELSE Parsed(schema, values)

\* A document with no text at all still has its root element.
DecodedXML(c, schema, values) == IF c = NoText THEN Unparsed ELSE Parsed(schema, values)

DecodedLines(c, schema, values) == IF c = <<>> THEN Unparsed ELSE Parsed(schema, values)

\* The values of the keys that end in a name.
Ending(c, n) == {c[k] : k \in {k \in DOMAIN c : k = n \/ HasSuffix(k, "." \o n)}} \ {""}

parseRedisConf(c) ==
    Decoded(c, "redis-conf", ("requirepass.present" :> Flag(Val(c, "requirepass") # ""))
                             @@ ("protected-mode" :> Val(c, "protected-mode"))
                             @@ ("bind" :> Val(c, "bind")))

\* Any value of this key but the empty one is masked.
parseMongodConf(c) ==
    Decoded(c, "mongod-conf",
            "security.authorization" :>
                IF Val(c, "security.authorization") = "enabled" THEN "enabled" ELSE "")

parseElasticsearchYml(c) ==
    Decoded(c, "elasticsearch-yml",
            "xpack.security.enabled" :> Val(c, "xpack.security.enabled"))

\* The port of the root element, under Config or else under any root.
ArrPort(c) ==
    LET Dots(k) == {i \in 1..Len(k) : SubSeq(k, i, i) = "."}
        roots == {k \in DOMAIN c : HasSuffix(k, ".Port") /\ Cardinality(Dots(k)) = 1}
    IN IF Val(c, "Config.Port") # "" THEN {c["Config.Port"]} ELSE {c[k] : k \in roots} \ {""}

parseArrConfig(c) ==
    LET method == Ending(c, "AuthenticationMethod")
        out == ("AuthenticationMethod" :> IF method = {} THEN "None" ELSE CHOOSE v \in method : TRUE)
               @@ ("ApiKey.present" :> Flag(Ending(c, "ApiKey") # {}))
    IN DecodedXML(c, "arr-config",
                  IF ArrPort(c) = {} THEN out
                  ELSE out @@ ("Port" :> CHOOSE v \in ArrPort(c) : TRUE))

parseQBittorrentConf(c) ==
    Decoded(c, "qbittorrent-conf",
            "webui.auth" :> Flag(Val(c, "preferences.WebUI.LocalHostAuth") # "false"))

\* The administrator counts as changed only if both name and password are set.
parseGrafanaIni(c) ==
    LET changed == /\ {"security.admin_user", "security.admin_password"} \subseteq DOMAIN c
                   /\ c["security.admin_user"] # "admin"
                   /\ c["security.admin_password"] # "admin"
    IN Decoded(c, "grafana-ini",
               ("auth.anonymous.enabled" :> Flag(Val(c, "auth.anonymous.enabled") = "true"))
               @@ ("admin.default" :> Flag(~changed)))

parsePrometheusYml(c) == Decoded(c, "prometheus-yml", "auth.determinable" :> "false")

AdminToken(token) ==
    ("admin_token.present" :> Flag(token # ""))
    @@ ("admin_token.is_argon2" :> Flag(HasPrefix(token, "$argon2")))
    @@ ("admin_token.length_band" :>
            IF token = "" THEN "none"
            ELSE IF HasPrefix(token, "$argon2") \/ Len(token) >= 20 THEN "ok" ELSE "weak")

parseVaultwardenEnv(c) == Decoded(c, "vaultwarden-env", AdminToken(Val(c, "ADMIN_TOKEN")))
parseVaultwardenJSON(c) == Decoded(c, "vaultwarden-json", AdminToken(Val(c, "admin_token")))

parseGiteaIni(c) ==
    LET out == "registration.open" :> Flag(Val(c, "service.DISABLE_REGISTRATION") # "true")
    IN Decoded(c, "gitea-ini",
               IF "security.INSTALL_LOCK" \in DOMAIN c
               THEN out @@ ("INSTALL_LOCK" :> c["security.INSTALL_LOCK"]) ELSE out)

parseJenkinsConfig(c) ==
    DecodedXML(c, "jenkins-config",
               "useSecurity" :> LET v == Ending(c, "useSecurity")
                                IN IF v = {} THEN "true" ELSE CHOOSE u \in v : TRUE)

\* The shares with guest access, listed in one value.
parseSmbConf(c) ==
    LET guest == {k \in DOMAIN c : HasSuffix(k, "guest ok") /\ c[k] \in {"yes", "true"}}
    IN Decoded(c, "smb-conf",
               "guest-ok-shares" :> IF guest = {} THEN "" ELSE "shares")

World == {"*", "0.0.0.0/0", "::/0", "0/0", "all"}

parseNFSExports(lines) ==
    LET ToAll(f) == \E w \in World : f = w \/ HasPrefix(f, w \o "(")
        Some(P(_), n) == \E i \in DOMAIN lines : \E j \in n..Len(lines[i]) : P(lines[i][j])
    IN DecodedLines(lines, "nfs-exports",
                    ("no_root_squash" :> Flag(Some(LAMBDA f : HasWord(f, "no_root_squash"), 1)))
                    @@ ("world-export" :> Flag(Some(ToAll, 2))))

parseMinioEnv(c) ==
    Decoded(c, "minio-env",
            "root-creds.default" :> Flag(/\ Val(c, "MINIO_ROOT_USER") = "minioadmin"
                                         /\ Val(c, "MINIO_ROOT_PASSWORD") = "minioadmin"))

parseMosquittoConf(c) ==
    Decoded(c, "mosquitto-conf",
            "allow_anonymous" :> IF Val(c, "allow_anonymous") = "" THEN "false"
                                 ELSE Val(c, "allow_anonymous"))

parseSyncthingConfig(c) ==
    DecodedXML(c, "syncthing-config", "gui.auth" :> Flag(Ending(c, "user") # {}))

parseTraefikYml(c) ==
    Decoded(c, "traefik-yml",
            "api.insecure" :> IF Val(c, "api.insecure") = "" THEN "false"
                              ELSE Val(c, "api.insecure"))

\* The method is taken from the fifth field of a host line.
parsePgHba(lines) ==
    LET Trusts(f) == Len(f) >= 5 /\ HasPrefix(f[1], "host") /\ f[5] = "trust"
    IN DecodedLines(lines, "pg-hba",
                    "trust.nonlocal" :> Flag(\E i \in DOMAIN lines : Trusts(lines[i])))

\* /etc/docker/daemon.json: the hosts the daemon listens on (parsers.go).
parseDockerDaemon(c) ==
    IF c = NoText THEN Unparsed
    ELSE Parsed("docker-daemon", "hosts" :> Val(c, "hosts"))

parserForSchemaID(schema, c) ==
    CASE schema = "redis-conf"        -> parseRedisConf(c)
      [] schema = "mongod-conf"       -> parseMongodConf(c)
      [] schema = "pg-hba"            -> parsePgHba(c)
      [] schema = "elasticsearch-yml" -> parseElasticsearchYml(c)
      [] schema = "arr-config"        -> parseArrConfig(c)
      [] schema = "qbittorrent-conf"  -> parseQBittorrentConf(c)
      [] schema = "grafana-ini"       -> parseGrafanaIni(c)
      [] schema = "prometheus-yml"    -> parsePrometheusYml(c)
      [] schema = "vaultwarden-env"   -> parseVaultwardenEnv(c)
      [] schema = "vaultwarden-json"  -> parseVaultwardenJSON(c)
      [] schema = "gitea-ini"         -> parseGiteaIni(c)
      [] schema = "jenkins-config"    -> parseJenkinsConfig(c)
      [] schema = "smb-conf"          -> parseSmbConf(c)
      [] schema = "nfs-exports"       -> parseNFSExports(c)
      [] schema = "minio-env"         -> parseMinioEnv(c)
      [] schema = "mosquitto-conf"    -> parseMosquittoConf(c)
      [] schema = "syncthing-config"  -> parseSyncthingConfig(c)
      [] schema = "traefik-yml"       -> parseTraefikYml(c)
      [] schema = "docker-daemon"     -> parseDockerDaemon(c)
-----------------------------------------------------------------------------
(***************************************************************************)
(* The checks.  Each judges the first known fact of its schema in the      *)
(* Signals of a scan.                                                      *)
(***************************************************************************)
\* What a check of one schema says: nothing without a fact, else a failure or a pass.
ByConfig(sigs, i, schema, Insecure(_), r, p) ==
    LET cf == configBySchema(sigs.configs, schema)
    IN IF ~cf.known THEN {notAssessed(i)} ELSE Judge(i, Insecure(cf.values), FailedAt(i, r, p))

LoopbackTokens == {"127.0.0.1", "-127.0.0.1", "::1", "-::1", "localhost", "-localhost"}

\* Addresses are separated by blanks; one that is not the loopback makes it public.
RedisPublic(bind) ==
    bind = "" \/ bind \notin LoopbackTokens \cup {a \o " " \o b : a, b \in LoopbackTokens}

SVC001(sigs) == ByConfig(sigs, "SVC001", "redis-conf",
    LAMBDA v : /\ v["requirepass.present"] = "false" /\ v["protected-mode"] = "no"
               /\ RedisPublic(v["bind"]), "redis", 6379)

Unauthorized(v) == v["security.authorization"] = ""
SVC002(sigs) == ByConfig(sigs, "SVC002", "mongod-conf", Unauthorized, "mongodb", 27017)

SVC003(sigs) == ByConfig(sigs, "SVC003", "pg-hba",
    LAMBDA v : v["trust.nonlocal"] = "true", "postgresql", 5432)

SVC004(sigs) == ByConfig(sigs, "SVC004", "elasticsearch-yml",
    LAMBDA v : v["xpack.security.enabled"] # "true", "elasticsearch", 9200)

arrImageDefaultPorts ==
    <<<<"prowlarr", 9696>>, <<"readarr", 8787>>, <<"sonarr", 8989>>, <<"lidarr", 8686>>,
      <<"radarr", 7878>>>>

\* The port of the first service whose image is one of these.
arrPortFromStack(services) ==
    LET ports == FlattenSeq([i \in DOMAIN services |->
            SelectSeq(arrImageDefaultPorts, LAMBDA e : HasWord(services[i].base, e[1]))])
    IN IF ports = <<>> THEN 7878 ELSE ports[1][2]

SVC010(sigs, services) ==
    ByConfig(sigs, "SVC010", "arr-config",
             LAMBDA v : v["AuthenticationMethod"] = "None", "arr-config",
             LET p == Val(configBySchema(sigs.configs, "arr-config").values, "Port")
             IN IF p = "" THEN arrPortFromStack(services) ELSE Number(p))

SVC011(sigs) == ByConfig(sigs, "SVC011", "qbittorrent-conf",
    LAMBDA v : v["webui.auth"] = "false", "qBittorrent-WebUI", 8080)

SVC020(sigs) == ByConfig(sigs, "SVC020", "grafana-ini",
    LAMBDA v : v["auth.anonymous.enabled"] = "true" \/ v["admin.default"] = "true",
    "grafana", 3000)

\* Never assessed: the file does not say whether Prometheus asks for a password.
SVC021(sigs) == {notAssessed("SVC021")}

WeakToken(v) ==
    \/ v["admin_token.present"] = "false"
    \/ v["admin_token.is_argon2"] # "true" /\ v["admin_token.length_band"] = "weak"

SVC030(sigs) ==
    ByConfig(sigs, "SVC030",
             IF configBySchema(sigs.configs, "vaultwarden-env").known
             THEN "vaultwarden-env" ELSE "vaultwarden-json",
             WeakToken, "vaultwarden ADMIN_TOKEN", 80)

\* Without INSTALL_LOCK the file does not say whether the installer is open.
SVC031(sigs) ==
    IF "INSTALL_LOCK" \notin DOMAIN configBySchema(sigs.configs, "gitea-ini").values
    THEN {notAssessed("SVC031")}
    ELSE ByConfig(sigs, "SVC031", "gitea-ini",
             LAMBDA v : v["INSTALL_LOCK"] = "false" \/ v["registration.open"] = "true",
             "gitea", 3000)

SVC032(sigs) == ByConfig(sigs, "SVC032", "jenkins-config",
    LAMBDA v : v["useSecurity"] = "false", "jenkins-config.xml", 8080)

GuestShares(v) == v["guest-ok-shares"] # ""
SVC040(sigs) == ByConfig(sigs, "SVC040", "smb-conf", GuestShares, "smb.conf", 445)

SVC041(sigs) == ByConfig(sigs, "SVC041", "nfs-exports",
    LAMBDA v : v["no_root_squash"] = "true" \/ v["world-export"] = "true",
    "/etc/exports", 2049)

SVC050(sigs) == ByConfig(sigs, "SVC050", "minio-env",
    LAMBDA v : v["root-creds.default"] = "true", "minio", 9000)

SVC051(sigs) == ByConfig(sigs, "SVC051", "mosquitto-conf",
    LAMBDA v : v["allow_anonymous"] = "true", "mosquitto", 1883)

SVC052(sigs) == ByConfig(sigs, "SVC052", "syncthing-config",
    LAMBDA v : v["gui.auth"] = "false", "syncthing-GUI", 8384)

SVC060(sigs) == ByConfig(sigs, "SVC060", "traefik-yml",
    LAMBDA v : v["api.insecure"] = "true", "traefik-api", 8080)

ServiceFindings(sigs, services) ==
    SVC001(sigs) \cup SVC002(sigs) \cup SVC003(sigs) \cup SVC004(sigs)
    \cup SVC010(sigs, services) \cup SVC011(sigs) \cup SVC020(sigs) \cup SVC021(sigs)
    \cup SVC030(sigs) \cup SVC031(sigs) \cup SVC032(sigs) \cup SVC040(sigs)
    \cup SVC041(sigs) \cup SVC050(sigs) \cup SVC051(sigs) \cup SVC052(sigs)
    \cup SVC060(sigs)
=============================================================================
