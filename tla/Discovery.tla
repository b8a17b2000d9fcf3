----------------------------- MODULE Discovery ------------------------------
(***************************************************************************)
(* The discovery of one server's tools and the time it may take:           *)
(* MCPClient.discover (internal/mcpprobe/client.go) over HTTPTransport or  *)
(* StdioTransport (transport.go), as probeOne calls it.                    *)
(*                                                                         *)
(* initialize, the initialized notification, then the pages of tools/list  *)
(* while the server returns a cursor, at most maxToolPages of them.  Time  *)
(* is counted in ticks from the start of the session.  An HTTP call has    *)
(* Timeout ticks for all of it.  A stdio call first writes its frame,      *)
(* without a deadline: the write lasts as long as the server does not read *)
(* what it was sent before.  Only then Send starts the timer of Timeout    *)
(* ticks.  Timeout ticks after the start the group of a stdio server is    *)
(* killed, which ends a blocked write and fails every later one, unless a  *)
(* daemon that left the group holds the pipes.                             *)
(***************************************************************************)
EXTENDS Naturals

CONSTANTS MaxPages,   \* maxToolPages
          Timeout,    \* defaultProbeTimeout and defaultCallDeadline, in ticks
          PageSize,   \* bound on the tools of one page
          MaxTime     \* bound on the ticks while a daemon holds the pipes

ASSUME PagesAssumption == MaxPages \in Nat \ {0}
ASSUME TimeoutAssumption == Timeout \in Nat \ {0}
ASSUME SizeAssumption == PageSize \in Nat
ASSUME TimeAssumption == MaxTime \in Nat

VARIABLES
    transport, \* "stdio" or "http" (an sse server is spoken to by POST)
    daemon,  \* a process outside the group holds the pipes of the server
    pc,      \* "spawn", "initialize", "notify", "list" or "done"
    phase,   \* "write": the frame of the call is written; "wait": its timer runs
    now,     \* ticks since the session started
    began,   \* when that timer started
    page,    \* pages received
    sent,    \* history: tools on all the pages the server sent
    more,    \* the last page came with a cursor
    tools,   \* tools discover returns: so far, or in the end
    result   \* "none", "ok" or "error"

vars == <<transport, daemon, pc, phase, now, began, page, sent, more, tools, result>>

\* client.Timeout covers an HTTP call from its start, a timer only the wait.
Begins == IF transport = "http" THEN "wait" ELSE "write"

Init ==
    /\ transport \in {"stdio", "http"}
    /\ daemon = FALSE
    /\ pc = IF transport = "stdio" THEN "spawn" ELSE "initialize"
    /\ phase = Begins
    /\ now = 0 /\ began = 0
    /\ page = 0 /\ sent = 0 /\ more = FALSE
    /\ tools = 0 /\ result = "none"

\* Some process can still read what is written to a stdio server.
Open == now < Timeout \/ daemon

\* The time of the current call is up: its timer, or its write, ends.
Expired == IF phase = "wait" THEN now - began >= Timeout ELSE ~Open

\* The next call starts where this one ends.
Then(step) ==
    /\ pc' = step /\ began' = now
    /\ phase' = Begins

\* probeOne waits for the applied marker; the session's watchdog bounds it.
Spawned ==
    /\ pc = "spawn"
    /\ Then("initialize")
    /\ UNCHANGED <<transport, daemon, now, page, sent, more, tools, result>>

\* writeFrame returns; a notification has no reply to wait for.
FrameWritten ==
    /\ pc \in {"initialize", "notify", "list"} /\ phase = "write" /\ Open
    /\ IF pc = "notify" THEN Then("list")
       ELSE phase' = "wait" /\ began' = now /\ UNCHANGED pc
    /\ UNCHANGED <<transport, daemon, now, page, sent, more, tools, result>>

\* initialize is answered with a protocolVersion that is supported.
Initialized ==
    /\ pc = "initialize" /\ phase = "wait"
    /\ Then("notify")
    /\ UNCHANGED <<transport, daemon, now, page, sent, more, tools, result>>

\* HTTPTransport.notify waits for the response to its POST.
Notified ==
    /\ pc = "notify" /\ phase = "wait"
    /\ Then("list")
    /\ UNCHANGED <<transport, daemon, now, page, sent, more, tools, result>>

\* A page of tools/list; the loop ends without a cursor or at maxToolPages.
Page ==
    /\ pc = "list" /\ phase = "wait"
    /\ \E n \in 0..PageSize : sent' = sent + n /\ tools' = tools + n
    /\ page' = page + 1
    /\ more' \in BOOLEAN
    /\ IF more' /\ page' < MaxPages
       THEN Then("list") /\ UNCHANGED result
       ELSE Then("done") /\ result' = "ok"
    /\ UNCHANGED <<transport, daemon, now>>

\* A transport or RPC error, a result that does not parse, a version that is
\* not supported, or the deadline: discover returns no tools.
Fails_KeepsTools ==
    /\ pc \in {"initialize", "notify", "list"}
    /\ pc' = "done" /\ result' = "error"
    /\ UNCHANGED <<transport, daemon, phase, now, began, page, sent, more, tools>>
Fails_NoDeadline ==
    /\ pc \in {"initialize", "notify", "list"} /\ ~Expired
    /\ pc' = "done" /\ result' = "error"
    /\ tools' = 0
    /\ UNCHANGED <<transport, daemon, phase, now, began, page, sent, more>>
Fails ==
    /\ pc \in {"initialize", "notify", "list"}
    /\ pc' = "done" /\ result' = "error"
    /\ tools' = 0
    /\ UNCHANGED <<transport, daemon, phase, now, began, page, sent, more>>

\* A process leaves the group of the server before that is killed.
Daemonizes ==
    /\ transport = "stdio" /\ pc # "done"
    /\ now < Timeout /\ ~daemon
    /\ daemon' = TRUE
    /\ UNCHANGED <<transport, pc, phase, now, began, page, sent, more, tools, result>>

\* Time passes while a call is written or waits, until its time is up.
Tick_NoDeadline ==
    /\ pc # "done"
    /\ now' = now + 1
    /\ UNCHANGED <<transport, daemon, pc, phase, began, page, sent, more, tools, result>>
Tick ==
    /\ pc # "done"
    /\ ~Expired
    /\ daemon => now < MaxTime
    /\ now' = now + 1
    /\ UNCHANGED <<transport, daemon, pc, phase, began, page, sent, more, tools, result>>

Next ==
    \/ Spawned \/ FrameWritten \/ Initialized \/ Notified \/ Page \/ Fails
    \/ Daemonizes \/ Tick

(***************************************************************************)
(* Time passes, and at a deadline only Fails or what arrives just then is  *)
(* left.  No server has to read or to answer.  While a daemon holds the    *)
(* pipes nothing ends a write, and on darwin nothing ends the Close of the *)
(* session by which Send gives up, so Fails is fair without one only.      *)
(***************************************************************************)
Fairness == WF_vars(Spawned) /\ WF_vars(Tick) /\ WF_vars(~daemon /\ Expired /\ Fails)

Spec == Init /\ [][Next]_vars /\ Fairness

-----------------------------------------------------------------------------
TypeOK ==
    /\ transport \in {"stdio", "http"}
    /\ daemon \in BOOLEAN /\ phase \in {"write", "wait"}
    /\ pc \in {"spawn", "initialize", "notify", "list", "done"}
    /\ now \in Nat /\ began \in 0..now
    /\ page \in 0..MaxPages
    /\ sent \in 0..(MaxPages * PageSize) /\ tools \in 0..(MaxPages * PageSize)
    /\ more \in BOOLEAN
    /\ result \in {"none", "ok", "error"}

\* discover: the inventory a server is judged by is never a part of what it
\* listed: all pages it sent, or none after an error on a later page.
AllOrNothing ==
    /\ result = "ok" => tools = sent /\ (more => page = MaxPages)
    /\ result = "error" => tools = 0

\* The deadlines of the calls and of the session add up to a bound on the
\* whole discovery, whatever the server does short of leaving a daemon that
\* holds its pipes: with one, every page may take the timeout and a write, which
\* has no deadline of its own, for ever.
TimeBound == IF transport = "stdio" THEN 2 * Timeout
             ELSE (MaxPages + 2) * Timeout

Bounded == daemon \/ now <= TimeBound

\* discover returns, under the same condition, from a blocked write as well.
Ends == []~daemon => <>(pc = "done")
=============================================================================
