----------------------------- MODULE PortProbe ------------------------------
(***************************************************************************)
(* The outside-in port probe (internal/probe/probe.go: the port loop of    *)
(* Probe, probePort).                                                      *)
(*                                                                         *)
(* Probe starts one goroutine per port, at most Concurrency at a time: it  *)
(* takes a slot of the channel sem before it starts one, and the goroutine *)
(* gives it back when it ends.  Goroutines share the result under a mutex. *)
(* The context may be cancelled at any time: the loop then returns at      *)
(* once, and dials fail; the TLS handshake does not see the context.       *)
(* The DNS part of Probe, which runs before, is left out.                  *)
(***************************************************************************)
EXTENDS Naturals, FiniteSets

CONSTANTS NumPorts,     \* the ports, deduplicated, are 1..NumPorts
          Concurrency,
          TLSPorts      \* tlsPorts: no banner is read from these

ASSUME PortsAssumption == NumPorts \in Nat
ASSUME ConcurrencyAssumption == Concurrency \in Nat \ {0}
ASSUME TLSAssumption == TLSPorts \subseteq 1..NumPorts

Ports == 1..NumPorts

VARIABLES
    listens,    \* the ports that accept connections
    main,       \* "loop", "acquire", "wait", "returned"
    next,       \* the next port of the loop
    sem,        \* slots of sem in use
    wg,         \* the counter of the WaitGroup
    worker,     \* port |-> where its goroutine is
    pp,         \* port |-> the PortProbe it builds
    reachable,  \* port |-> result.Reachable[port], or NoEntry
    certs,      \* ports with an entry in result.Certificates
    errors,     \* result.Errors has the cancellation
    cancelled

result == <<reachable, certs, errors>>
vars == <<listens, main, next, sem, wg, worker, pp, result, cancelled>>

Steps == {"none", "dial", "banner", "tls", "record", "release", "done", "gone"}

Probe == [open : BOOLEAN, banner : BOOLEAN, tls : BOOLEAN]
Closed == [open |-> FALSE, banner |-> FALSE, tls |-> FALSE]
NoEntry == [open |-> "none"]

Init ==
    /\ listens \in SUBSET Ports
    /\ main = "loop" /\ next = 1
    /\ sem = 0 /\ wg = 0
    /\ worker = [p \in Ports |-> "none"]
    /\ pp = [p \in Ports |-> Closed]
    /\ reachable = [p \in Ports |-> NoEntry] /\ certs = {}
    /\ errors = FALSE /\ cancelled = FALSE

-----------------------------------------------------------------------------
(***************************************************************************)
(* Probe.                                                                  *)
(***************************************************************************)
NextPort ==
    /\ main = "loop" /\ next <= NumPorts /\ ~cancelled
    /\ main' = "acquire" /\ wg' = wg + 1
    /\ UNCHANGED <<listens, next, sem, worker, pp, result, cancelled>>

\* Once the context is done the select of the loop takes that case.
Abandon ==
    /\ main = "loop" /\ next <= NumPorts /\ cancelled
    /\ main' = "returned" /\ errors' = TRUE
    /\ UNCHANGED <<listens, next, sem, wg, worker, pp, reachable, certs, cancelled>>

\* sem <- struct{}{}; go func(p int).
Launch ==
    /\ main = "acquire" /\ sem < Concurrency
    /\ sem' = sem + 1 /\ worker' = [worker EXCEPT ![next] = "dial"]
    /\ next' = next + 1 /\ main' = "loop"
    /\ UNCHANGED <<listens, wg, pp, result, cancelled>>

LoopEnds ==
    /\ main = "loop" /\ next > NumPorts
    /\ main' = "wait"
    /\ UNCHANGED <<listens, next, sem, wg, worker, pp, result, cancelled>>

WaitReturns ==
    /\ main = "wait" /\ wg = 0
    /\ main' = "returned"
    /\ UNCHANGED <<listens, next, sem, wg, worker, pp, result, cancelled>>

Main == NextPort \/ Abandon \/ Launch \/ LoopEnds \/ WaitReturns

-----------------------------------------------------------------------------
(***************************************************************************)
(* The goroutine of port p: probePort, then its entry in the result.       *)
(***************************************************************************)
Goto(p, step) == worker' = [worker EXCEPT ![p] = step]

Dial_AssumesOpen(p) ==
    /\ worker[p] = "dial"
    /\ pp' = [pp EXCEPT ![p].open = TRUE]
    /\ IF cancelled \/ p \notin listens THEN Goto(p, "record") ELSE Goto(p, "banner")
    /\ UNCHANGED <<listens, main, next, sem, wg, result, cancelled>>
Dial(p) ==
    /\ worker[p] = "dial"
    /\ \/ /\ cancelled \/ p \notin listens
          /\ Goto(p, "record")
          /\ UNCHANGED pp
       \/ /\ p \in listens
          /\ pp' = [pp EXCEPT ![p].open = TRUE]
          /\ Goto(p, IF p \in TLSPorts THEN "tls" ELSE "banner")
    /\ UNCHANGED <<listens, main, next, sem, wg, result, cancelled>>

ReadBanner(p) ==
    /\ worker[p] = "banner"
    /\ \/ Goto(p, "tls") /\ UNCHANGED pp
       \/ Goto(p, "record") /\ pp' = [pp EXCEPT ![p].banner = TRUE]
    /\ UNCHANGED <<listens, main, next, sem, wg, result, cancelled>>

ProbeTLS(p) ==
    /\ worker[p] = "tls"
    /\ \E ok \in BOOLEAN : pp' = [pp EXCEPT ![p].tls = ok]
    /\ Goto(p, "record")
    /\ UNCHANGED <<listens, main, next, sem, wg, result, cancelled>>

\* Under the mutex.
Record_OpenOnly(p) ==
    /\ worker[p] = "record"
    /\ reachable' = IF pp[p].open THEN [reachable EXCEPT ![p] = pp[p]] ELSE reachable
    /\ certs' = IF pp[p].tls THEN certs \cup {p} ELSE certs
    /\ Goto(p, "release")
    /\ UNCHANGED <<listens, main, next, sem, wg, pp, errors, cancelled>>
Record(p) ==
    /\ worker[p] = "record"
    /\ reachable' = [reachable EXCEPT ![p] = pp[p]]
    /\ certs' = IF pp[p].tls THEN certs \cup {p} ELSE certs
    /\ Goto(p, "release")
    /\ UNCHANGED <<listens, main, next, sem, wg, pp, errors, cancelled>>

\* The deferred calls, last one first: <-sem, then wg.Done().
Release_Never(p) ==
    /\ worker[p] = "release"
    /\ Goto(p, "done")
    /\ UNCHANGED <<listens, main, next, sem, wg, pp, result, cancelled>>
Release(p) ==
    /\ worker[p] = "release"
    /\ sem' = sem - 1
    /\ Goto(p, "done")
    /\ UNCHANGED <<listens, main, next, wg, pp, result, cancelled>>

Done(p) ==
    /\ worker[p] = "done"
    /\ wg' = wg - 1
    /\ Goto(p, "gone")
    /\ UNCHANGED <<listens, main, next, sem, pp, result, cancelled>>

Worker(p) ==
    \/ Dial(p) \/ ReadBanner(p) \/ ProbeTLS(p)
    \/ Record(p) \/ Release(p) \/ Done(p)

Cancel ==
    /\ ~cancelled
    /\ cancelled' = TRUE
    /\ UNCHANGED <<listens, main, next, sem, wg, worker, pp, result>>

Next == Main \/ Cancel \/ \E p \in Ports : Worker(p)

\* Goroutines run; every dial, read and handshake has a timeout.
Fairness == WF_vars(Main) /\ \A p \in Ports : WF_vars(Worker(p))

Spec == Init /\ [][Next]_vars /\ Fairness

-----------------------------------------------------------------------------
Running == {p \in Ports : worker[p] \notin {"none", "done", "gone"}}

TypeOK ==
    /\ listens \subseteq Ports
    /\ main \in {"loop", "acquire", "wait", "returned"}
    /\ next \in 1..(NumPorts + 1)
    /\ sem \in 0..Concurrency /\ wg \in 0..NumPorts
    /\ worker \in [Ports -> Steps]
    /\ pp \in [Ports -> Probe]
    /\ reachable \in [Ports -> Probe \cup {NoEntry}]
    /\ certs \subseteq Ports
    /\ errors \in BOOLEAN /\ cancelled \in BOOLEAN

\* Options.Concurrency: never more goroutines at work than slots, and no slot
\* is lost: those in use are those of the goroutines at work.
SlotsMatch == sem = Cardinality(Running) /\ Cardinality(Running) <= Concurrency

\* wg counts the goroutines that still owe an entry or a slot.
Owing == {p \in Ports : worker[p] \notin {"none", "gone"}}
                \cup {p \in Ports : main = "acquire" /\ p = next}

\* Probe returned without the cancellation error: every port has its entry, and
\* no goroutine is left to write the maps, which are the caller's now.  (A loop
\* that was abandoned leaves goroutines that go on writing what it returned.)
AllReported ==
    (main = "returned" /\ ~errors)
        => Owing = {} /\ \A p \in Ports : reachable[p] # NoEntry

\* A port is reported open, or a certificate reported for it, only if it
\* accepted a connection; without a cancellation the converse holds too.
TruthfulEntries ==
    \A p \in Ports : reachable[p] # NoEntry =>
        /\ reachable[p].open => p \in listens
        /\ p \in certs => reachable[p].open
        /\ ~cancelled => (p \in listens => reachable[p].open)

\* Probe returns: the loop never waits for a slot that is not given back.
Returns == <>(main = "returned")
=============================================================================
