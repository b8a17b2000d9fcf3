------------------------------ MODULE Exposure ------------------------------
(***************************************************************************)
(* From where a finding's resource can be reached (internal/correlate:     *)
(* Classify, BuildIntended), as a function of the facts of one scan.       *)
(*                                                                         *)
(* The facts are the record the code calls ScanContext:                    *)
(*   services   the services of the stack, in the order of the file, each  *)
(*              with the CVEs known of its image and its port mappings     *)
(*   wanted     ports the operator declared public                         *)
(*   probed, open         whether the port probe ran, what it found open   *)
(*   collected, sockets   whether signals were collected, who listens      *)
(*   drop, allow, deny    the host firewall: default-inbound DROP, ports   *)
(*              with an explicit ALLOW, ports with an explicit DROP        *)
(* Without a probe or signals their sets are empty.  The auth_proxy        *)
(* metadata that Classify also looks at is left out: no check sets it.     *)
(***************************************************************************)
EXTENDS Naturals, SequencesExt

CONSTANTS Ports,     \* port numbers
          Expected,  \* intel.ExpectedPublicPort
          CVEs

ASSUME PortsAssumption ==
    Ports \subseteq Nat \ {0} /\ IsFiniteSet(Ports) /\ Expected \subseteq Ports

\* ExposureClass, in the order of its constants.
Unknown   == 0
Localhost == 1
Overlay   == 2
LAN       == 3
Filtered  == 4
Internet  == 5
Classes == Unknown..Internet

\* The addresses a socket can be bound to, as far as bindClass tells them apart.
Binds == {"odd", "loopback", "overlay", "private", "public"}
bindClass == [odd |-> Unknown, loopback |-> Localhost, overlay |-> Overlay,
              private |-> LAN, public |-> Internet]

CanCapRed(c) == c \in {LAN, Filtered, Internet}

prevBand(c) == IF c > Localhost THEN c - 1 ELSE c

\* A port mapping of a service; host 0 when Docker chooses the port.
PortMapping == [host : Ports \cup {0}, container : Ports, all : BOOLEAN]
Service == [cves : SUBSET CVEs, ports : Seq(PortMapping)]

\* The mappings of the stack: <<i, j>> is the j-th of the i-th service.
Mappings(s) ==
    UNION {{<<i, j>> : j \in DOMAIN s.services[i].ports} : i \in DOMAIN s.services}

mapping(s, x) == s.services[x[1]].ports[x[2]]

declaredPublic(s, h) ==
    \E x \in Mappings(s) : mapping(s, x).host = h /\ mapping(s, x).all

BuildIntended(s) == s.wanted \cup {h \in Expected : declaredPublic(s, h)}

-----------------------------------------------------------------------------
(***************************************************************************)
(* The class of one host port.                                             *)
(***************************************************************************)
BindsOf(s, h) == {b \in Binds : <<h, b>> \in s.sockets}

maxBindClass(s, h) ==
    LET c == Max({bindClass[b] : b \in BindsOf(s, h)})
    IN IF c = Internet /\ h \notin s.open THEN Filtered ELSE c

ClassAt(s, h) ==
    CASE BindsOf(s, h) # {}   -> maxBindClass(s, h)
      [] BindsOf(s, h) = {} /\ s.probed ->
             IF h \in s.open THEN Internet ELSE Filtered
      [] OTHER ->
             IF ~declaredPublic(s, h) THEN Unknown
             ELSE IF h \in BuildIntended(s) THEN Filtered ELSE Internet

(***************************************************************************)
(* The host ports that stand for the port of a finding: those a mapping    *)
(* gives that container port, else the port itself.                        *)
(***************************************************************************)
hostPortsFor(s, p) ==
    {x \in Mappings(s) : mapping(s, x).container = p /\ mapping(s, x).host # 0}

Candidates(s, p) ==
    LET ms == hostPortsFor(s, p)
    IN IF ms = {} THEN {p} ELSE {mapping(s, x).host : x \in ms}

\* The first of a set of mappings, in the order of the services.
InFileOrder(x, y) == x[1] < y[1] \/ (x[1] = y[1] /\ x[2] <= y[2])
FirstMapping(ms) == CHOOSE x \in ms : \A y \in ms : InFileOrder(x, y)

\* The first of the most exposed candidates.
Effective_First(s, p) ==
    LET ms == hostPortsFor(s, p)
    IN IF ms = {} THEN p ELSE mapping(s, FirstMapping(ms)).host
Effective_Last(s, p) ==
    LET ms == hostPortsFor(s, p)
    IN IF ms = {} THEN p
       ELSE mapping(s, CHOOSE x \in ms : \A y \in ms : InFileOrder(y, x)).host
Effective(s, p) ==
    LET ms       == hostPortsFor(s, p)
        Class(x) == ClassAt(s, mapping(s, x).host)
    IN IF ms = {} THEN p
       ELSE mapping(s, FirstMapping({x \in ms : \A y \in ms : Class(y) <= Class(x)})).host

(***************************************************************************)
(* Compensating controls, each of which lowers the class by a band.        *)
(***************************************************************************)
overlayOnly(s, h) ==
    /\ BindsOf(s, h) # {}
    /\ \A b \in BindsOf(s, h) : bindClass[b] \in {Overlay, Localhost}

firewallDrops(s, h) == h \notin s.allow /\ (s.drop \/ h \in s.deny)

Controls(s, h) ==
    {k \in {"overlay", "firewall"} :
        /\ ClassAt(s, h) \notin {Unknown, Localhost}
        /\ h \notin s.open
        /\ CASE k = "overlay"  -> overlayOnly(s, h)
             [] k = "firewall" -> firewallDrops(s, h)}

applyControls(c, ks) ==
    CASE Cardinality(ks) = 0 -> c
      [] Cardinality(ks) = 1 -> prevBand(c)
      [] Cardinality(ks) = 2 -> prevBand(prevBand(c))

\* classifyOne for the port of a finding: the class and the Mitigations.
classifyOne(s, p) ==
    LET h == Effective(s, p)
    IN [class |-> applyControls(ClassAt(s, h), Controls(s, h)),
        mitigations |-> Controls(s, h)]
=============================================================================
