----------------------------- MODULE MCGrading ------------------------------
(***************************************************************************)
(* Instances of Grading for TLC: two ports, stacks of at most two          *)
(* mappings, hosts with one socket a port, or two on the first one.        *)
(***************************************************************************)
EXTENDS Grading

Mapping(h, c, a) == [host |-> h, container |-> c, all |-> a]

Svc(cs, ms) == [cves |-> cs, ports |-> ms]

\* All the ways to publish a port, the usual ones, and those on every address.
Every == {Mapping(h, c, a) : h \in Ports \cup {0}, c \in Ports, a \in BOOLEAN}
Usual == {m \in Every : m.host # 0}
Wide  == {m \in Usual : m.all}

OneService == {<<Svc({"kev"}, <<m>>)>> : m \in Every}
              \cup {<<Svc(cs, <<Mapping(1, 2, TRUE)>>)>> : cs \in SUBSET {"kev", "epss"}}
TwoMappings == {<<Svc({"kev"}, <<m, n>>)>> : m \in {Mapping(1, 2, TRUE)}, n \in Usual}
TwoServices == {<<Svc({"kev"}, <<m>>), Svc({}, <<n>>)>> : m \in Wide, n \in Usual}

AllStacks == {<<>>} \cup OneService \cup TwoMappings \cup TwoServices

Percentiles == ("epss" :> 95) @@ ("kev" :> 60)

On(p, bs) == {{}} \cup {{<<p, b>>} : b \in bs}

Host(s, d, a, arr, p) ==
    [sockets |-> s, drop |-> d, allow |-> a, deny |-> {}, arr |-> arr, arrPort |-> p]

\* The socket of a service may be joined by one on the loopback address.
AllHosts ==
    {Host(s \cup t, d, a, "off", 1) :
        s \in On(1, Binds \ {"odd"}) \cup {{<<1, "loopback">>, <<1, "public">>}},
        t \in On(2, {"loopback", "public"}),
        d \in {TRUE}, a \in {{}, {1}}}
    \cup {Host(s \cup t, FALSE, {}, c, 0) :
             s \in On(1, {"loopback", "public"}), t \in On(2, {"loopback", "public"}),
             c \in {"absent", "on"}}

In(f, c) == [f EXCEPT !.class = c]

\* What checks of agents and MCP servers, and one that only informs, may add.
AllOthers ==
    {<<>>,
     <<Finding("EXP003"), In([Finding("AGT001") EXCEPT !.confidence = "medium"], Localhost),
       Pass("MCP004")>>,
     <<Pass("AGT001"), In(Finding("MCP004"), LAN)>>}
=============================================================================
