---------------------------- MODULE StackChecks -----------------------------
(***************************************************************************)
(* The checks that judge the compose stack, its reverse proxy, its host    *)
(* firewall file and the outside-in probe (internal/checks: exposure,      *)
(* firewall, proxy, hardening, secrets, tlschk, dns, auth, supplychain).   *)
(*                                                                         *)
(* The stack s is a record of services (a sequence), secrets, env (whether *)
(* there is a .env, and whether git tracks it), firewall and proxy; probe  *)
(* is what the probe saw.  A part there is none of is the empty sequence,  *)
(* else a sequence of one.  EXP001, EXP002, SUP003 and SUP004 are modelled *)
(* with the score, in Grading.                                             *)
(***************************************************************************)
EXTENDS Facts, Catalog

\* What every check of the services says: nothing without services.
OfServices(i, s, fs) == IF s.services = <<>> THEN {notAssessed(i)} ELSE OrPass(i, fs)

\* The failures of a check that finds the services it does not like.
Unliked(i, services) == {FailedFor(i, v.name, "") : v \in services}

Of(s) == ToSet(s.services)

-----------------------------------------------------------------------------
(***************************************************************************)
(* Published ports.                                                        *)
(***************************************************************************)
PublishedToAllInterfaces(m) == ~(HasPrefix(m.ip, "127.") \/ m.ip \in {"::1", "localhost"})

sensitivePorts ==
    {5432, 3306, 27017, 27018, 5984, 7000, 9042, 8086, 6379, 11211, 9200, 9300, 7700, 8108,
     5672, 15672, 9092, 4222, 1883, 2375, 2376, 2379, 2380, 9000, 9001, 9090, 3000, 8080,
     8081, 8090, 5601, 8200, 8500, 2049, 389, 636}

\* The published mappings, each with its service.
Published(s) ==
    {p \in UNION {{<<v.name, m>> : m \in ToSet(v.ports)} : v \in Of(s)} :
        PublishedToAllInterfaces(p[2])}

FW001(s) ==
    IF s.firewall = <<>> THEN {}
    ELSE OrPass("FW001", {FailedFor("FW001", p[1], ToString(p[2].host)) :
                          p \in {p \in Published(s) : p[2].host # 0
                                                      /\ p[2].host \in s.firewall[1].denies}})

\* The host port, or the port inside when Docker picks the one outside.
CheckPort(m) == IF m.host = 0 THEN m.container ELSE m.host

FW002(s, intended) ==
    OfServices("FW002", s,
        {FailedFor("FW002", p[1], ToString(CheckPort(p[2]))) :
            p \in {p \in Published(s) : CheckPort(p[2]) \in sensitivePorts \ intended}})

FW003(s) == OfServices("FW003", s, Unliked("FW003", {v \in Of(s) : v.netmode = "host"}))

FW004(s) ==
    IF s.firewall = <<>> \/ ~\E p \in Published(s) : p[2].host # 0 THEN {}
    ELSE Judge("FW004", ~s.firewall[1].dockerUser, Finding("FW004"))

EXP003(s, probe) ==
    IF probe = <<>> THEN {}
    ELSE OrPass("EXP003", {FailedFor("EXP003", p[1], ToString(p[2].host)) :
                           p \in {p \in Published(s) : p[2].host # 0
                                                       /\ p[2].host \notin probe[1].open}})

-----------------------------------------------------------------------------
(***************************************************************************)
(* Hardening of the containers.                                            *)
(***************************************************************************)
HRD001(s) == OfServices("HRD001", s, Unliked("HRD001", {v \in Of(s) : v.privileged}))

dangerousCaps == {"ALL", "SYS_ADMIN", "NET_ADMIN", "SYS_PTRACE", "SYS_MODULE",
                  "DAC_READ_SEARCH", "SYS_RAWIO", "SYS_BOOT", "BPF"}
criticalCaps  == {"ALL", "SYS_ADMIN", "SYS_MODULE"}
Cap(c) == IF HasPrefix(c, "CAP_") THEN After(c, "CAP_") ELSE c

HRD002(s) ==
    OfServices("HRD002", s,
        UNION {{CriticalIf(FailedFor("HRD002", v.name, c), Cap(c) \in criticalCaps) :
                c \in {c \in v.caps : Cap(c) \in dangerousCaps}} : v \in Of(s)})

MountsDockerSocket(v) ==
    \E i \in DOMAIN v.volumes : "/var/run/docker.sock" \in {v.volumes[i].source, v.volumes[i].target}

HRD003(s) == OfServices("HRD003", s, Unliked("HRD003", {v \in Of(s) : MountsDockerSocket(v)}))

RunsAsRoot(v) == v.user \in {"", "0", "root", "0:0"}

HRD004(s) == OfServices("HRD004", s, Unliked("HRD004", {v \in Of(s) : RunsAsRoot(v)}))

HRD005(s) == OfServices("HRD005", s, Unliked("HRD005", {v \in Of(s) : ~v.readOnly}))

hasNoNewPrivileges(v) == \E o \in v.opts : HasWord(o, "no-new-privileges")

HRD006(s) == OfServices("HRD006", s, Unliked("HRD006", {v \in Of(s) : ~hasNoNewPrivileges(v)}))

HRD007(s) == OfServices("HRD007", s, Unliked("HRD007", {v \in Of(s) : ~v.limits}))

\* A service without a base has no image of its own: it is built.
HRD008(s) ==
    OfServices("HRD008", s,
        Unliked("HRD008", {v \in Of(s) : v.base # "" /\ ~v.digest /\ v.tag \in {"", "latest"}}))

-----------------------------------------------------------------------------
(***************************************************************************)
(* Secrets, authentication, images.                                        *)
(***************************************************************************)
isLiteral(v) == v # "" /\ ~HasPrefix(v, "$")

secretEnvKeywords ==
    {"PASSWORD", "PASSWD", "SECRET", "TOKEN", "API_KEY", "APIKEY", "PRIVATE_KEY", "PRIVATEKEY",
     "ACCESS_KEY", "ACCESSKEY", "CREDENTIAL", "_KEY", "AUTH", "JWT", "ENCRYPTION", "DSN"}
IsSecretEnvName(n) == \E w \in secretEnvKeywords : HasWord(n, w)

isPasswordName(n) == HasWord(n, "PASS") \/ HasWord(n, "PWD")

weakPasswords == {"administrator", "changeme", "change-me", "12345678", "123456789", "password",
                  "postgres", "password1", "p@ssw0rd", "admin123"}
IsWeakPassword(pw) == Len(pw) < 8 \/ pw \in weakPasswords

SecretsIn(v) == {n \in DOMAIN v.env : IsSecretEnvName(n) /\ isLiteral(v.env[n])}

SEC001(s) ==
    OfServices("SEC001", s, UNION {{FailedFor("SEC001", v.name, n) : n \in SecretsIn(v)} : v \in Of(s)})

SEC002(s) == IF s.env = <<>> THEN {} ELSE Judge("SEC002", s.env[1].committed, Finding("SEC002"))

SEC003(s) ==
    LET Weak(v) == {n \in DOMAIN v.env : /\ isPasswordName(n) /\ isLiteral(v.env[n])
                                         /\ IsWeakPassword(v.env[n])}
    IN OfServices("SEC003", s, UNION {{FailedFor("SEC003", v.name, n) : n \in Weak(v)} : v \in Of(s)})

\* Any secret declared in the stack quiets it for all services.
SEC004(s) ==
    OfServices("SEC004", s,
        Unliked("SEC004", {v \in Of(s) : SecretsIn(v) # {} /\ s.secrets = {}}))

webPorts == {80, 443, 8080, 8081, 3000, 8096, 8920, 3001, 8443, 8008, 8888}

isAuthOrProxyImage(v) ==
    \E w \in {"authelia", "authentik", "traefik", "caddy", "nginx", "haproxy", "oauth2-proxy",
              "keycloak", "ldap", "pomerium"} : HasWord(v.base, w)
stackHasAuthService(s) ==
    \E v \in Of(s) : HasWord(v.base, "authelia") \/ HasWord(v.base, "authentik")
proxyHasAuth(s, v) ==
    s.proxy # <<>> /\ \E r \in s.proxy[1].routes : r.service = v.name /\ r.auth
isPubliclyExposed(s, v) ==
    \E p \in Published(s) : p[1] = v.name /\ {p[2].host, p[2].container} \cap webPorts # {}

AUTH001(s) ==
    OfServices("AUTH001", s,
        Unliked("AUTH001", {v \in Of(s) : /\ isPubliclyExposed(s, v) /\ ~isAuthOrProxyImage(v)
                                          /\ ~stackHasAuthService(s) /\ ~proxyHasAuth(s, v)}))

defaultCredentials ==
    {"grafana/grafana", "portainer/portainer", "jc21/nginx-proxy-manager", "nginxproxymanager",
     "gitea/gitea", "sonarqube", "pihole/pihole", "minio/minio", "rabbitmq", "kibana",
     "mongo-express", "phpmyadmin", "adminer", "keycloak", "jenkins/jenkins",
     "homeassistant/home-assistant"}

hasPasswordOverride(v) ==
    \E n \in DOMAIN v.env : /\ isPasswordName(n) \/ HasWord(n, "SECRET")
                            /\ HasPrefix(v.env[n], "$") \/ ~IsWeakPassword(v.env[n])

AUTH002(s) ==
    OfServices("AUTH002", s,
        Unliked("AUTH002", {v \in Of(s) : /\ \E w \in defaultCredentials : HasWord(v.base, w)
                                          /\ ~hasPasswordOverride(v)}))

SUP001(s) == OfServices("SUP001", s, Unliked("SUP001", {v \in Of(s) : v.base # "" /\ ~v.digest}))

\* compromised: the images of the feed, none unless one was set.
SUP002(s, compromised) ==
    OfServices("SUP002", s, Unliked("SUP002", {v \in Of(s) : v.base \in compromised}))

-----------------------------------------------------------------------------
(***************************************************************************)
(* The reverse proxy: what is wrong with some of its routes, or with all   *)
(* of it.                                                                  *)
(***************************************************************************)
OfProxy(s, fs) == IF s.proxy = <<>> THEN {} ELSE fs
OfRoutes(i, bad) == OrPass(i, {FailedFor(i, r.service, r.host) : r \in bad})
RoutesOf(s) == s.proxy[1].routes

PRX001(s) == OfProxy(s, OfRoutes("PRX001", {r \in RoutesOf(s) : ~r.auth}))
PRX002(s) == OfProxy(s, OfRoutes("PRX002", {r \in RoutesOf(s) : ~r.tls}))
PRX003(s) == OfProxy(s, Judge("PRX003", s.proxy[1].dashboard, Finding("PRX003")))
PRX004(s) == OfProxy(s, OfRoutes("PRX004", {r \in RoutesOf(s) : ~r.headers}))
PRX005(s) == OfProxy(s, OfRoutes("PRX005", {r \in RoutesOf(s) : r.wildcard}))
PRX006(s) == OfProxy(s, Judge("PRX006", s.proxy[1].kind = "npm", Finding("PRX006")))

-----------------------------------------------------------------------------
(***************************************************************************)
(* TLS and DNS, from the probe.                                            *)
(***************************************************************************)
TLS001(probe) ==
    IF probe = <<>> \/ 80 \notin probe[1].open THEN {}
    ELSE Judge("TLS001", 443 \notin probe[1].open, Finding("TLS001"))

OfCertificates(i, probe, bad) ==
    IF probe = <<>> \/ probe[1].certs = {} THEN {}
    ELSE OrPass(i, {Failed(i, c.endpoint) : c \in bad})

TLS002(probe) == OfCertificates("TLS002", probe, {c \in probe[1].certs : c.expired})
TLS003(probe) == OfCertificates("TLS003", probe, {c \in probe[1].certs : c.selfSigned})
TLS004(probe) ==
    OfCertificates("TLS004", probe,
        {c \in probe[1].certs : c.weakCipher \/ c.version \in {"TLS 1.0", "TLS 1.1"}})

DNS001(probe) ==
    IF probe = <<>> THEN {}
    ELSE OrPass("DNS001", {Failed("DNS001", r.name) : r \in {r \in probe[1].dns : r.wildcard}})
DNS002(probe) ==
    IF probe = <<>> THEN {}
    ELSE OrPass("DNS002", {Failed("DNS002", r.name) : r \in {r \in probe[1].dns : r.dangling}})

StackFindings(s, probe, intended) ==
    FW001(s) \cup FW002(s, intended) \cup FW003(s) \cup FW004(s) \cup EXP003(s, probe)
    \cup HRD001(s) \cup HRD002(s) \cup HRD003(s) \cup HRD004(s) \cup HRD005(s) \cup HRD006(s)
    \cup HRD007(s) \cup HRD008(s)
    \cup SEC001(s) \cup SEC002(s) \cup SEC003(s) \cup SEC004(s)
    \cup AUTH001(s) \cup AUTH002(s) \cup SUP001(s) \cup SUP002(s, {})
    \cup PRX001(s) \cup PRX002(s) \cup PRX003(s) \cup PRX004(s) \cup PRX005(s) \cup PRX006(s)
    \cup TLS001(probe) \cup TLS002(probe) \cup TLS003(probe) \cup TLS004(probe)
    \cup DNS001(probe) \cup DNS002(probe)
=============================================================================
