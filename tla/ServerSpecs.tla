---------------------------- MODULE ServerSpecs -----------------------------
(***************************************************************************)
(* The servers that the MCP probe is given (internal/engine/mcpspecs.go),  *)
(* derived from the facts of the configuration files of agents.            *)
(*                                                                         *)
(* Specs are a set: the code sorts them by name, and those of one name,    *)
(* from several files, in no order.  How the list of the prompt is worded  *)
(* is left out.                                                            *)
(***************************************************************************)
EXTENDS AgentChecks

KeyOf(n, field) == "mcpServers." \o n \o "." \o field

\* The keys of a server below a field, and what they say after it.
Below(v, n, field) == {k \in DOMAIN v : HasPrefix(k, KeyOf(n, field))}
Rest(k, n, field) == After(k, KeyOf(n, field))

serverNamesFromValues(v) ==
    {ServerOf(k) : k \in {k \in DOMAIN v : /\ IsServerKey(k) /\ ServerOf(k) # ""
                                           /\ ServerField(k) \in {"command", "url", "type"}}}

\* The arguments that there are, in the order of their indices, which start at 0.
indices(v, n) ==
    {Number(Rest(k, n, "args.")) : k \in {k \in Below(v, n, "args.") : IsNumber(Rest(k, n, "args."))}}
Argument(v, n, i) ==
    LET k == KeyOf(n, "args." \o ToString(i)) IN IF k \in DOMAIN v THEN <<v[k]>> ELSE <<>>

orderedArgs_ButLast(v, n) ==
    FlattenSeq([i \in 1..Max(indices(v, n) \cup {0}) |-> Argument(v, n, i - 1)])
orderedArgs(v, n) ==
    FlattenSeq([i \in 1..(Max(indices(v, n) \cup {0}) + 1) |-> Argument(v, n, i - 1)])

\* A variable is named; a numbered entry is KEY=VALUE itself.
envKeys(v, n) ==
    {IF IsNumber(Rest(k, n, "env.")) THEN v[k] ELSE Rest(k, n, "env.") : k \in Below(v, n, "env.")}

\* A command makes a local server, whatever address there is beside it.
SpecOf(c, n) ==
    LET base == [name |-> n, client |-> c.source]
    IN IF OfServer(c.values, n, "command") # ""
       THEN base @@ [transport |-> "stdio", command |-> OfServer(c.values, n, "command"),
                     args |-> orderedArgs(c.values, n), env |-> envKeys(c.values, n)]
       ELSE base @@ [transport |-> IF OfServer(c.values, n, "type") = "sse" THEN "sse" ELSE "http",
                     url |-> OfServer(c.values, n, "url")]

Probeable(v, n) ==
    \/ OfServer(v, n, "command") # "" \/ OfServer(v, n, "url") # ""
    \/ OfServer(v, n, "type") \in {"http", "sse"}

deriveServerSpecs(sigs) ==
    UNION {{SpecOf(c, n) : n \in {n \in serverNamesFromValues(c.values) : Probeable(c.values, n)}} :
           c \in Known(sigs)}
=============================================================================
