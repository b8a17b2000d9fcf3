----------------------------- MODULE HostFacts ------------------------------
(***************************************************************************)
(* What collection reads of a host (internal/collect), as functions of the *)
(* record h of what there is to read:                                      *)
(*   os, root, today     the platform, the privileges, the date            *)
(*   broken              the commands that fail: ss, ps, apt, ufw, nft,    *)
(*                       sshd                                              *)
(*   ss, ps, apt, ufw, nft, sshdT   what the others print                  *)
(*   sysctl, reboot      /proc/sys, and whether a reboot is asked for      *)
(*   fs                  the files: path |-> content, mode, whether it is  *)
(*                       a symlink, whether this process may read it       *)
(*   dropins, sudoersd   paths under /etc/ssh/sshd_config.d and            *)
(*                       /etc/sudoers.d, in directory order                *)
(* A file of lines is a sequence of records, a file of keys and values a   *)
(* function, a file where order matters a sequence of pairs.               *)
(***************************************************************************)
EXTENDS ServiceConfigs

Readable(h, path) == path \in DOMAIN h.fs /\ h.fs[path].readable

\* What os.ReadFile gives of a file that may be read.
ReadFile(h, path) == h.fs[path].content

\* The last value of a key in a file of pairs.
LastValues(pairs, keys) ==
    [k \in {pairs[i][1] : i \in DOMAIN pairs} \cap keys |->
        Last(SelectSeq(pairs, LAMBDA e : e[1] = k))[2]]

-----------------------------------------------------------------------------
(***************************************************************************)
(* Sockets and processes.                                                  *)
(***************************************************************************)
parseSS(lines) ==
    [i \in DOMAIN lines |->
        [lines[i] EXCEPT !.bind = IF @ \in {"*", ""} THEN "0.0.0.0" ELSE @]]

\* A token of a command line is dropped when its key, or the whole of it, looks like
\* a credential to classOf.
Undashed(t) == IF HasPrefix(t, "--") THEN After(t, "--")
               ELSE IF HasPrefix(t, "-") THEN After(t, "-") ELSE t
sanitizeArgToken(t) ==
    LET secret == IF HasWord(t, "=")
                  THEN classOf(Undashed(UpTo(t, "=")), Past(t, "=")) = "secret"
                  ELSE classOf(t, t) = "secret"
    IN IF secret THEN "[secret]" ELSE t

IsEnvToken(t) ==
    HasWord(t, "=") /\ ~\E ch \in {"/", ".", "-"} : HasWord(UpTo(t, "="), ch)

\* The groups of a uid: its primary group, and those that list its name.
GroupsOf(passwd, group, uid) ==
    LET users == SelectSeq(passwd, LAMBDA u : u.uid = uid)
        user  == Last(users)
        primary == SelectSeq(group, LAMBDA g : g.gid = user.gid)
    IN IF users = <<>> THEN {}
       ELSE {Last(primary).name : x \in {y \in {1} : primary # <<>>}}
            \cup {g.name : g \in {g \in ToSet(group) : user.name \in g.members}}

\* hide says whether tokens are sanitized, as they always are in the code.
parseProcesses(h, hide) ==
    [i \in DOMAIN h.ps |->
        LET p == h.ps[i]
            env == SelectSeq(p.args, IsEnvToken)
        IN [pid |-> p.pid, comm |-> p.comm, uid |-> p.uid,
            args |-> [j \in DOMAIN p.args |->
                         IF hide THEN sanitizeArgToken(p.args[j]) ELSE p.args[j]],
            env |-> [j \in DOMAIN env |->
                        [name |-> UpTo(env[j], "="),
                         class |-> classOf(UpTo(env[j], "="), Past(env[j], "="))]],
            groups |-> IF Readable(h, "/etc/passwd") /\ Readable(h, "/etc/group")
                       THEN GroupsOf(ReadFile(h, "/etc/passwd"), ReadFile(h, "/etc/group"), p.uid)
                       ELSE {}]]

-----------------------------------------------------------------------------
(***************************************************************************)
(* Packages and the firewall.                                              *)
(***************************************************************************)
eolTable ==
    ("debian/9" :> 20220630) @@ ("debian/10" :> 20240630) @@ ("debian/11" :> 20260815)
    @@ ("debian/12" :> 20280610) @@ ("ubuntu/18.04" :> 20230430)
    @@ ("ubuntu/20.04" :> 20250531) @@ ("ubuntu/22.04" :> 20270430)
    @@ ("ubuntu/24.04" :> 20290430)

parseOSRelease(c, today) ==
    LET row == Val(c, "ID") \o "/" \o Val(c, "VERSION_ID")
    IN [distro |-> Val(c, "ID"), version |-> Val(c, "VERSION_ID"),
        eol |-> row \in DOMAIN eolTable /\ today >= eolTable[row]]

NoPackages == [pending |-> 0, reboot |-> FALSE, eol |-> FALSE]

parseAptState(pockets, reboot, eol) ==
    [pending |-> Len(SelectSeq(pockets, LAMBDA p : HasWord(p, "-security"))),
     reboot |-> reboot, eol |-> eol]

NoFirewall == [backend |-> "", inbound |-> ""]

\* An inactive ufw prints no default.
parseUFW(out) == [backend |-> "ufw",
                  inbound |-> IF out.incoming = "" THEN "allow" ELSE out.incoming]

\* The policy of the last chain that hooks input.
parseNft(policies) ==
    LET named == SelectSeq(policies, LAMBDA p : p # "")
    IN [backend |-> "nftables", inbound |-> IF named = <<>> THEN "accept" ELSE Last(named)]

\* nft is asked only where ufw is not installed.
collectFirewall(h) ==
    IF "ufw" \notin h.broken THEN parseUFW(h.ufw)
    ELSE IF "nft" \notin h.broken THEN parseNft(h.nft)
    ELSE [backend |-> "none", inbound |-> "allow"]

-----------------------------------------------------------------------------
(***************************************************************************)
(* sshd.  Its values are not masked.                                       *)
(***************************************************************************)
sshdKeys == {"permitrootlogin", "passwordauthentication", "pubkeyauthentication",
             "permitemptypasswords", "maxauthtries", "logingracetime", "x11forwarding",
             "allowusers", "allowgroups", "port", "kbdinteractiveauthentication"}

SSHFact(values, origin) ==
    [Bare("sshd-effective") EXCEPT
        !.schema = "sshd-effective", !.known = values # NoValues,
        !.values = IF values = NoValues THEN NoValues ELSE values @@ ("_source" :> origin)]

parseSSHDConfig(pairs) == LastValues(pairs, sshdKeys)

\* The main file, then each drop-in over what came before.
StaticOrder(h) == <<"/etc/ssh/sshd_config">> \o h.dropins
collectSSHStatic_FirstWins(h) ==
    SSHFact(FoldLeft(LAMBDA vs, p : vs @@ parseSSHDConfig(ReadFile(h, p)), NoValues,
                     SelectSeq(StaticOrder(h), LAMBDA p : Readable(h, p))), "static")
collectSSHStatic(h) ==
    SSHFact(FoldLeft(LAMBDA vs, p : parseSSHDConfig(ReadFile(h, p)) @@ vs, NoValues,
                     SelectSeq(StaticOrder(h), LAMBDA p : Readable(h, p))), "static")

collectSSH(h) ==
    IF h.root /\ "sshd" \notin h.broken
    THEN SSHFact(LastValues(h.sshdT, sshdKeys), "effective") ELSE collectSSHStatic(h)

-----------------------------------------------------------------------------
(***************************************************************************)
(* Kernel parameters, accounts and apt: what their parsers emit.           *)
(***************************************************************************)
sysctlKeys == {"kernel.randomize_va_space", "kernel.kptr_restrict", "kernel.dmesg_restrict",
               "kernel.yama.ptrace_scope", "fs.suid_dumpable"}

collectSysctl(h) ==
    LET vs == [k \in DOMAIN h.sysctl \cap sysctlKeys |-> h.sysctl[k]]
    IN [Bare("sysctl") EXCEPT !.schema = "sysctl", !.known = vs # NoValues, !.values = vs]

Joined(names) == FoldLeft(LAMBDA t, n : IF t = "" THEN n ELSE t \o "," \o n, "", names)

NamesOf(lines) == [i \in DOMAIN lines |-> lines[i].name]

parsePasswd(lines) ==
    LET zeros == NamesOf(SelectSeq(lines, LAMBDA u : u.uid = 0))
    IN Parsed("accounts-passwd", ("uid0.accounts" :> Joined(zeros))
                                 @@ ("duplicate.uids" :> Flag(Len(zeros) > 1)))

parseShadow(lines) ==
    Parsed("accounts-shadow",
           "empty.password.accounts" :> Joined(NamesOf(SelectSeq(lines, LAMBDA u : u.hash = ""))))

parseLoginDefs(c) ==
    LET vs == [k \in DOMAIN c \cap {"PASS_MAX_DAYS", "UMASK", "ENCRYPT_METHOD"} |-> c[k]]
    IN IF vs = NoValues THEN Unparsed ELSE Parsed("accounts-logindefs", vs)

\* A line is the user it names and whether it says NOPASSWD.
parseSudoers(lines) ==
    LET free == SelectSeq(lines, LAMBDA l : l.nopasswd)
    IN Parsed("accounts-sudoers", ("nopasswd.present" :> Flag(free # <<>>))
                                  @@ ("nopasswd.rules" :> Joined(NamesOf(free))))

parseAptPeriodic(c) ==
    LET vs == [k \in DOMAIN c \cap {"update_package_lists", "unattended_upgrade"} |-> c[k]]
    IN IF vs = NoValues THEN Unparsed ELSE Parsed("apt-periodic", vs)
=============================================================================
