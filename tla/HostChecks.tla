----------------------------- MODULE HostChecks -----------------------------
(***************************************************************************)
(* The checks that judge the host itself (internal/checks/host, and those  *)
(* of firewall and hardening that read facts of the host).  sigs are the   *)
(* signals of one collection: os, distro, version, sockets, files,         *)
(* processes, packages, firewall, configs, and there, whether there was a  *)
(* collection.  Modes and sockets are as Facts and HostFacts have them.    *)
(***************************************************************************)
EXTENDS Facts, Catalog

\* A check needs a collection; some also need a Linux host.
OfHost(i, sigs, fs) == IF sigs.there THEN fs ELSE {notAssessed(i)}
OfLinux(i, sigs, fs) == OfHost(i, sigs, IF sigs.os = "darwin" THEN {notAssessed(i)} ELSE fs)

\* What a check needs to say anything.
Given_Always(i, known, fs) == fs
Given_Passed(i, known, fs) == IF known THEN fs ELSE {Pass(i)}
Given(i, known, fs) == IF known THEN fs ELSE {notAssessed(i)}

hasProcess(sigs, comm) == \E i \in DOMAIN sigs.processes : sigs.processes[i].comm = comm

socketNonLoopback(sigs, port) ==
    \E i \in DOMAIN sigs.sockets : /\ sigs.sockets[i].port = port
                                   /\ sigs.sockets[i].bind \notin {"127.0.0.1", "::1"}

\* The mode of a file that exists, "" of one that does not.
ModeOf(sigs, path) ==
    LET fs == {f \in sigs.files : f.path = path /\ f.exists}
    IN IF fs = {} THEN "" ELSE (CHOOSE f \in fs : TRUE).mode

-----------------------------------------------------------------------------
(***************************************************************************)
(* sshd.                                                                   *)
(***************************************************************************)
sshd(sigs) == configBySchema(sigs.configs, "sshd-effective")

\* A key that is not set has the default of sshd.
passAuthOn(v) == "passwordauthentication" \notin DOMAIN v \/ v["passwordauthentication"] = "yes"
rootLoginOn(v) == Val(v, "permitrootlogin") \in {"yes", "prohibit-password"}

OfSSHD(i, sigs, fs) == OfHost(i, sigs, Given(i, sshd(sigs).known, fs))

HST001(sigs) ==
    OfSSHD("HST001", sigs,
           Judge("HST001", passAuthOn(sshd(sigs).values), Failed("HST001", "sshd")))

HST002(sigs) ==
    OfSSHD("HST002", sigs,
           Judge("HST002", rootLoginOn(sshd(sigs).values), Failed("HST002", "sshd")))

\* Fatal only on what sshd itself said.
HST003(sigs) ==
    LET v == sshd(sigs).values
        finding == Failed("HST003", "sshd")
    IN OfSSHD("HST003", sigs,
         IF ~(passAuthOn(v) /\ rootLoginOn(v)) THEN {Pass("HST003")}
         ELSE Given("HST003", sigs.sockets # <<>>,
                    Judge("HST003", socketNonLoopback(sigs, 22),
                          IF v["_source"] = "effective" THEN finding
                          ELSE [Confident(finding, "medium") EXCEPT !.fatal = FALSE])))

Exceeds(v, k, limit) == IsNumber(Val(v, k)) /\ Number(v[k]) > limit

HST004(sigs) ==
    LET v == sshd(sigs).values
    IN OfSSHD("HST004", sigs,
         Judge("HST004", \/ Exceeds(v, "maxauthtries", 4) \/ Exceeds(v, "logingracetime", 60)
                         \/ Val(v, "x11forwarding") = "yes" \/ Val(v, "permitemptypasswords") = "yes",
               Failed("HST004", "sshd")))

HST005(sigs) ==
    LET guarded == \/ hasProcess(sigs, "fail2ban-server") \/ hasProcess(sigs, "fail2ban")
                   \/ \E f \in sigs.files : f.exists /\ HasPrefix(f.path, "/etc/fail2ban/")
    IN OfSSHD("HST005", sigs,
         Judge("HST005", passAuthOn(sshd(sigs).values) /\ ~guarded, Failed("HST005", "sshd")))

-----------------------------------------------------------------------------
(***************************************************************************)
(* Packages, accounts, the firewall, the kernel.                           *)
(***************************************************************************)
HST010(sigs) ==
    OfLinux("HST010", sigs,
        Judge("HST010", sigs.packages.pending > 0,
              CriticalIf(Failed("HST010", "apt"),
                         sigs.packages.eol \/ sigs.packages.pending > 20)))

HST011(sigs) ==
    OfHost("HST011", sigs,
        Judge("HST011", sigs.packages.eol, Failed("HST011", sigs.distro \o " " \o sigs.version)))

HST012(sigs) ==
    OfHost("HST012", sigs, Judge("HST012", sigs.packages.reboot, Failed("HST012", "host")))

HST013(sigs) ==
    LET cf == configBySchema(sigs.configs, "apt-periodic")
    IN OfLinux("HST013", sigs,
         Given("HST013", cf.known, Judge("HST013", Val(cf.values, "unattended_upgrade") # "1",
                                         Failed("HST013", "apt-periodic"))))

\* Of every sudoers fact, not only of the first.
HST020(sigs) ==
    LET known == {sigs.configs[i] : i \in KnownOf(sigs.configs, "accounts-sudoers")}
    IN OfHost("HST020", sigs,
         Given("HST020", known # {},
               Judge("HST020", \E cf \in known : cf.values["nopasswd.present"] = "true",
                     Failed("HST020", "/etc/sudoers"))))

HST021(sigs) ==
    LET cf == configBySchema(sigs.configs, "accounts-passwd")
    IN OfHost("HST021", sigs,
         Given("HST021", cf.known, Judge("HST021", HasWord(Val(cf.values, "uid0.accounts"), ","),
                                         Failed("HST021", "/etc/passwd"))))

HST022(sigs) ==
    LET cf == configBySchema(sigs.configs, "accounts-shadow")
    IN OfHost("HST022", sigs,
         Given("HST022", cf.known, Judge("HST022", Val(cf.values, "empty.password.accounts") # "",
                                         Failed("HST022", "/etc/shadow"))))

HST023(sigs) ==
    OfHost("HST023", sigs,
        Given("HST023", ModeOf(sigs, "/etc/shadow") # "",
              Judge("HST023", OpenToGroup(ModeOf(sigs, "/etc/shadow")),
                    Failed("HST023", "/etc/shadow"))))

HST030(sigs) ==
    LET none == sigs.firewall.backend \in {"", "none"}
    IN OfLinux("HST030", sigs,
         Judge("HST030", none \/ sigs.firewall.inbound \notin {"deny", "drop"},
               Failed("HST030", IF none THEN "firewall" ELSE sigs.firewall.backend)))

sysctlChecks ==
    {<<"kernel.randomize_va_space", "0">>, <<"kernel.randomize_va_space", "1">>,
     <<"kernel.kptr_restrict", "0">>, <<"kernel.dmesg_restrict", "0">>,
     <<"kernel.yama.ptrace_scope", "0">>, <<"fs.suid_dumpable", "2">>}

HST040(sigs) ==
    LET cf == configBySchema(sigs.configs, "sysctl")
    IN OfLinux("HST040", sigs,
         Given("HST040", cf.known,
               Judge("HST040", \E c \in sysctlChecks : Val(cf.values, c[1]) = c[2],
                     Failed("HST040", "/proc/sys"))))

HST041(sigs) ==
    OfHost("HST041", sigs,
        Judge("HST041", ~\E c \in {"dmcrypt", "cryptsetup", "luksOpen"} : hasProcess(sigs, c),
              Confident(Failed("HST041", "host"), "low")))

-----------------------------------------------------------------------------
(***************************************************************************)
(* Docker and Kubernetes on the host.                                      *)
(***************************************************************************)
dockerSockPath == "/var/run/docker.sock"

HRD009(sigs) ==
    OfLinux("HRD009", sigs,
        Given("HRD009", ModeOf(sigs, dockerSockPath) # "",
              Judge("HRD009", OpenToOthers(ModeOf(sigs, dockerSockPath)),
                    Failed("HRD009", dockerSockPath))))

agentComms == {"openclaw", "claude", "codex", "cursor", "windsurf"}
isAgentComm(comm) == \E a \in agentComms : HasWord(comm, a)

\* One finding for a user, named after the first process of his that shows the group.
HRD010(sigs) ==
    LET ps == sigs.processes
        Shows(i) == ps[i].uid # 0 /\ ~isAgentComm(ps[i].comm) /\ "docker" \in ps[i].groups
        firsts == {i \in DOMAIN ps : Shows(i) /\ ~\E j \in 1..(i - 1) : Shows(j) /\ ps[j].uid = ps[i].uid}
    IN OfLinux("HRD010", sigs,
         OrPass("HRD010", {Failed("HRD010", ps[i].comm) : i \in firsts}))

\* An address of the daemon: tcp on any host that is not the loopback.
tcpNonLoopback(addr) ==
    /\ HasPrefix(addr, "tcp://")
    /\ ~\E l \in {"127.0.0.1", "[::1]", "localhost"} :
          After(addr, "tcp://") = l \/ HasPrefix(addr, "tcp://" \o l \o ":")

FW005(sigs) ==
    LET Listens(args) ==
            \/ \E i \in 1..(Len(args) - 1) : args[i] = "-H" /\ tcpNonLoopback(args[i + 1])
            \/ \E i \in DOMAIN args : HasPrefix(args[i], "-H=") /\ tcpNonLoopback(After(args[i], "-H="))
        hosts == Val(configBySchema(sigs.configs, "docker-daemon").values, "hosts")
    IN OfLinux("FW005", sigs,
         Judge("FW005",
               \/ \E i \in DOMAIN sigs.processes :
                     sigs.processes[i].comm = "dockerd" /\ Listens(sigs.processes[i].args)
               \/ \E e \in Elements(hosts) : tcpNonLoopback(e),
               Failed("FW005", "dockerd")))

kubeletComms == {"k3s", "k3s-server", "kubelet", "hyperkube"}

\* The arguments of the kubelet, those that k3s passes to it included.
unwrapKubeletArgs(args) ==
    [i \in DOMAIN args |->
        LET inner == After(args[i], "--kubelet-arg=")
        IN IF ~HasPrefix(args[i], "--kubelet-arg=") THEN args[i]
           ELSE IF HasPrefix(inner, "--") THEN inner ELSE "--" \o inner]

\* The values a flag is given, in either form.
FlagValues(args, flag) ==
    {After(args[i], flag \o "=") : i \in {i \in DOMAIN args : HasPrefix(args[i], flag \o "=")}}
    \cup {args[i + 1] : i \in {i \in 1..(Len(args) - 1) : args[i] = flag}}

\* No flag is given twice.
kubeletAnonAuth(given) ==
    LET args == unwrapKubeletArgs(given)
        anon == FlagValues(args, "--anonymous-auth")
        mode == FlagValues(args, "--authorization-mode")
    IN /\ "false" \notin anon
       /\ IF mode # {} THEN \E v \in mode : "AlwaysAllow" \in Elements(v) ELSE "true" \in anon

\* The first such process is reported.
FW006(sigs) ==
    LET bad == SelectSeq(sigs.processes, LAMBDA p : p.comm \in kubeletComms /\ kubeletAnonAuth(p.args))
    IN OfLinux("FW006", sigs,
         Judge("FW006", bad # <<>>, Failed("FW006", IF bad = <<>> THEN "" ELSE bad[1].comm)))

HostFindings(sigs) ==
    HST001(sigs) \cup HST002(sigs) \cup HST003(sigs) \cup HST004(sigs) \cup HST005(sigs)
    \cup HST010(sigs) \cup HST011(sigs) \cup HST012(sigs) \cup HST013(sigs) \cup HST020(sigs)
    \cup HST021(sigs) \cup HST022(sigs) \cup HST023(sigs) \cup HST030(sigs) \cup HST040(sigs)
    \cup HST041(sigs) \cup HRD009(sigs) \cup HRD010(sigs) \cup FW005(sigs) \cup FW006(sigs)
=============================================================================
