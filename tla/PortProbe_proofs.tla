-------------------------- MODULE PortProbe_proofs --------------------------
(***************************************************************************)
(* Theorems about PortProbe, for any number of ports and slots.            *)
(***************************************************************************)
EXTENDS PortProbe, FiniteSetTheorems, TLAPS

\* The safety part of the specification.
LEMMA Safety == Spec => Init /\ [][Next]_vars
BY PTL DEF Spec

(***************************************************************************)
(* Counting sets of ports.                                                 *)
(***************************************************************************)
LEMMA PortsFinite == IsFiniteSet(Ports) /\ Cardinality(Ports) = NumPorts
BY PortsAssumption, FS_Interval DEF Ports

LEMMA CountOf ==
    ASSUME NEW S \in SUBSET Ports
    PROVE  /\ IsFiniteSet(S) /\ Cardinality(S) \in 0..NumPorts
           /\ Cardinality(S) = 0 <=> S = {}
<1>1. IsFiniteSet(S) /\ Cardinality(S) <= NumPorts
  BY PortsFinite, FS_Subset
<1> QED BY <1>1, FS_CardinalityType, FS_EmptySet

LEMMA OneIn ==
    ASSUME NEW S \in SUBSET Ports, NEW p \in Ports, p \notin S
    PROVE  Cardinality(S \cup {p}) = Cardinality(S) + 1
BY CountOf, FS_AddElement

LEMMA OneOut ==
    ASSUME NEW S \in SUBSET Ports, NEW p \in S
    PROVE  Cardinality(S \ {p}) = Cardinality(S) - 1
BY CountOf, FS_RemoveElement

\* No entry of a port is the absence of one.
LEMMA EntriesDiffer == \A e \in Probe : e # NoEntry
<1>1. \A e \in Probe : DOMAIN e = {"open", "banner", "tls"}
  BY DEF Probe
<1>2. DOMAIN NoEntry = {"open"}
  BY DEF NoEntry
<1>3. "banner" \notin {"open"} /\ "banner" \in {"open", "banner", "tls"}
  OBVIOUS
<1> QED BY <1>1, <1>2, <1>3

-----------------------------------------------------------------------------
(***************************************************************************)
(* The loop has started the goroutines of the ports before next.           *)
(***************************************************************************)
Started ==
    /\ \A p \in Ports : worker[p] = "none" <=> next <= p
    /\ main = "acquire" => next \in Ports
    /\ main = "wait" => next = NumPorts + 1
    /\ main = "returned" /\ ~errors => next = NumPorts + 1

\* The counters count.
Counted ==
    /\ sem = Cardinality(Running)
    /\ wg = Cardinality(Owing)
    /\ main = "returned" /\ ~errors => wg = 0

\* What a goroutine has found, and what of it is in the result.
Found(p) ==
    /\ reachable[p] # NoEntry <=> worker[p] \in {"release", "done", "gone"}
    /\ reachable[p] # NoEntry => reachable[p] = pp[p]
    /\ pp[p].open => p \in listens
    /\ worker[p] \in {"banner", "tls"} => pp[p].open
    /\ pp[p].tls => pp[p].open
    /\ p \in certs => reachable[p] # NoEntry /\ pp[p].tls
    /\ worker[p] \in {"record", "release", "done", "gone"} /\ p \in listens /\ ~cancelled
          => pp[p].open

PortsInv == TypeOK /\ Started /\ Counted /\ \A p \in Ports : Found(p)

LEMMA InvInit == Init => PortsInv
<1> SUFFICES ASSUME Init PROVE PortsInv
  OBVIOUS
<1> USE PortsAssumption, ConcurrencyAssumption DEF Init, Ports
<1>1. Closed \in Probe
  BY DEF Closed, Probe
<1>2. errors \in BOOLEAN /\ cancelled \in BOOLEAN
  OBVIOUS
<1>3. 1 \in 1..(NumPorts + 1)
  OBVIOUS
<1>4. TypeOK
  BY <1>1, <1>2, <1>3 DEF TypeOK, Steps
<1>5. Started
  BY DEF Started
<1>6. Running = {} /\ Owing = {}
  BY DEF Running, Owing
<1>7. Counted
  BY <1>6, FS_EmptySet DEF Counted
<1>8. \A p \in Ports : Found(p)
  BY DEF Found, Closed
<1> QED BY <1>4, <1>5, <1>7, <1>8 DEF PortsInv

(***************************************************************************)
(* The steps of the loop, and the cancellation, keep the invariant.        *)
(***************************************************************************)
LEMMA MainKeeps == PortsInv /\ (Main \/ Cancel) => PortsInv'
<1> SUFFICES ASSUME PortsInv, Main \/ Cancel PROVE PortsInv'
  OBVIOUS
<1> USE PortsAssumption, ConcurrencyAssumption DEF PortsInv, result
<1>1. CASE NextPort
  <2>1. next \in Ports /\ next \notin Owing /\ Owing \in SUBSET Ports
    BY <1>1 DEF NextPort, TypeOK, Started, Owing, Ports
  <2>2. Owing' = Owing \cup {next} /\ Running' = Running
    BY <1>1, <2>1 DEF NextPort, Owing, Running
  <2>3. wg' = Cardinality(Owing') /\ wg' \in 0..NumPorts
    BY <1>1, <2>1, <2>2, OneIn, CountOf DEF NextPort, Counted, Ports
  <2>4. TypeOK'
    BY <1>1, <2>3 DEF NextPort, TypeOK
  <2>5. Started' /\ Counted'
    BY <1>1, <2>1, <2>2, <2>3 DEF NextPort, Started, Counted
  <2>6. \A p \in Ports : Found(p)'
    BY <1>1 DEF NextPort, Found
  <2> QED BY <2>4, <2>5, <2>6
<1>2. CASE Launch
  <2>1. next \in Ports /\ worker[next] = "none" /\ Running \in SUBSET Ports
    <3>1. next \in Ports
      BY <1>2 DEF Launch, Started
    <3>2. next <= next
      BY <3>1 DEF Ports
    <3> QED BY <3>1, <3>2 DEF Started, Running
  <2>2. /\ worker' \in [Ports -> Steps] /\ worker'[next] = "dial"
        /\ \A p \in Ports \ {next} : worker'[p] = worker[p]
    BY <1>2, <2>1 DEF Launch, TypeOK, Steps
  <2>3. Running' = Running \cup {next} /\ next \notin Running
    BY <2>1, <2>2 DEF Running
  <2>4. Owing' = Owing
    BY <1>2, <2>1, <2>2 DEF Launch, Owing
  <2>5. sem' = Cardinality(Running') /\ sem' \in 0..Concurrency
    BY <1>2, <2>1, <2>3, OneIn DEF Launch, Counted, TypeOK
  <2>6. next' \in 1..(NumPorts + 1)
    BY <1>2, <2>1 DEF Launch, Ports
  <2>7. TypeOK'
    BY <1>2, <2>2, <2>5, <2>6 DEF Launch, TypeOK
  <2>8. Started'
    BY <1>2, <2>1, <2>2 DEF Launch, Started, Ports
  <2>9. Counted'
    BY <1>2, <2>4, <2>5 DEF Launch, Counted
  <2>10. \A p \in Ports : Found(p)'
    <3> SUFFICES ASSUME NEW p \in Ports PROVE Found(p)'
      OBVIOUS
    <3>1. CASE p = next
      BY <1>2, <2>1, <2>2, <3>1 DEF Launch, Found
    <3>2. CASE p # next
      BY <1>2, <2>2, <3>2 DEF Launch, Found
    <3> QED BY <3>1, <3>2
  <2> QED BY <2>7, <2>8, <2>9, <2>10
<1>3. CASE Abandon \/ LoopEnds \/ WaitReturns
  <2>1. Running' = Running /\ Owing' = Owing
    BY <1>3 DEF Abandon, LoopEnds, WaitReturns, Running, Owing
  <2>2. TypeOK'
    BY <1>3 DEF Abandon, LoopEnds, WaitReturns, TypeOK
  <2>3. Started'
    BY <1>3 DEF Abandon, LoopEnds, WaitReturns, Started, TypeOK
  <2>4. Counted'
    BY <1>3, <2>1 DEF Abandon, LoopEnds, WaitReturns, Counted
  <2>5. \A p \in Ports : Found(p)'
    BY <1>3 DEF Abandon, LoopEnds, WaitReturns, Found
  <2> QED BY <2>2, <2>3, <2>4, <2>5
<1>4. CASE Cancel
  <2>1. Running' = Running /\ Owing' = Owing
    BY <1>4 DEF Cancel, Running, Owing
  <2>2. TypeOK' /\ Started' /\ Counted'
    BY <1>4, <2>1 DEF Cancel, TypeOK, Started, Counted
  <2>3. \A p \in Ports : Found(p)'
    BY <1>4 DEF Cancel, Found
  <2> QED BY <2>2, <2>3
<1> QED BY <1>1, <1>2, <1>3, <1>4 DEF Main

(***************************************************************************)
(* So do the steps of a goroutine.                                         *)
(***************************************************************************)
LEMMA WorkerKeeps == ASSUME PortsInv, NEW p \in Ports, Worker(p) PROVE PortsInv'
<1> USE PortsAssumption, ConcurrencyAssumption DEF PortsInv, result, Goto
<1>1. /\ worker[p] \in {"dial", "banner", "tls", "record", "release", "done"}
      /\ worker'[p] \in {"banner", "tls", "record", "release", "done", "gone"}
      /\ worker' \in [Ports -> Steps]
      /\ \A q \in Ports \ {p} : worker'[q] = worker[q]
      /\ UNCHANGED <<listens, main, next, errors, cancelled>>
  BY DEF Worker, Dial, ReadBanner, ProbeTLS, Record, Release, Done, TypeOK, Steps
<1>2. /\ pp' \in [Ports -> Probe]
      /\ \A q \in Ports \ {p} : pp'[q] = pp[q]
      /\ reachable' \in [Ports -> Probe \cup {NoEntry}]
      /\ \A q \in Ports \ {p} : reachable'[q] = reachable[q]
      /\ certs' \subseteq Ports
      /\ \A q \in Ports \ {p} : q \in certs' <=> q \in certs
  <2>1. CASE Dial(p) \/ ReadBanner(p) \/ ProbeTLS(p)
    <3>1. UNCHANGED <<reachable, certs>>
      BY <2>1 DEF Dial, ReadBanner, ProbeTLS
    <3>2. CASE pp' = pp
      BY <3>1, <3>2 DEF TypeOK
    <3>3. ASSUME NEW e \in Probe, pp' = [pp EXCEPT ![p] = e]
          PROVE  pp' \in [Ports -> Probe] /\ \A q \in Ports \ {p} : pp'[q] = pp[q]
      BY <3>3 DEF TypeOK
    <3>4. CASE pp' # pp
      <4>1. \A b \in BOOLEAN : /\ [pp[p] EXCEPT !.open = b] \in Probe
                              /\ [pp[p] EXCEPT !.banner = b] \in Probe
                              /\ [pp[p] EXCEPT !.tls = b] \in Probe
        BY DEF TypeOK, Probe
      <4>2. \E e \in Probe : pp' = [pp EXCEPT ![p] = e]
        <5>1. CASE Dial(p)
          BY <3>4, <4>1, <5>1 DEF Dial
        <5>2. CASE ReadBanner(p)
          BY <3>4, <4>1, <5>2 DEF ReadBanner
        <5>3. CASE ProbeTLS(p)
          BY <4>1, <5>3 DEF ProbeTLS
        <5> QED BY <2>1, <5>1, <5>2, <5>3
      <4> QED BY <3>1, <3>3, <4>2 DEF TypeOK
    <3> QED BY <3>2, <3>4
  <2>2. CASE Record(p)
    <3>1. /\ reachable' = [reachable EXCEPT ![p] = pp[p]] /\ pp' = pp
          /\ certs' = IF pp[p].tls THEN certs \cup {p} ELSE certs
      BY <2>2 DEF Record
    <3> QED BY <3>1 DEF TypeOK
  <2>3. CASE Release(p) \/ Done(p)
    BY <2>3 DEF Release, Done, TypeOK
  <2> QED BY <2>1, <2>2, <2>3 DEF Worker
<1>3. Started'
  BY <1>1 DEF Started
<1>4. sem' = Cardinality(Running') /\ sem' \in 0..Concurrency
  <2>1. CASE Release(p)
    <3>1. p \in Running /\ Running \in SUBSET Ports /\ Running' = Running \ {p}
      BY <1>1, <2>1 DEF Release, Running, TypeOK
    <3> QED BY <2>1, <3>1, OneOut, CountOf DEF Release, Counted, TypeOK
  <2>2. CASE ~Release(p)
    <3>1. Running' = Running /\ sem' = sem
      BY <1>1, <2>2 DEF Worker, Dial, ReadBanner, ProbeTLS, Record, Done, Running, TypeOK
    <3> QED BY <3>1 DEF Counted, TypeOK
  <2> QED BY <2>1, <2>2
<1>5. wg' = Cardinality(Owing') /\ wg' \in 0..NumPorts
  <2>1. CASE Done(p)
    <3>1. p \in Owing /\ Owing \in SUBSET Ports /\ Owing' = Owing \ {p}
      BY <1>1, <2>1 DEF Done, Owing, Started, TypeOK
    <3> QED BY <2>1, <3>1, OneOut, CountOf DEF Done, Counted, TypeOK
  <2>2. CASE ~Done(p)
    <3>1. Owing' = Owing /\ wg' = wg
      BY <1>1, <2>2 DEF Worker, Dial, ReadBanner, ProbeTLS, Record, Release, Owing, TypeOK
    <3> QED BY <3>1 DEF Counted, TypeOK
  <2> QED BY <2>1, <2>2
<1>6. TypeOK'
  BY <1>1, <1>2, <1>4, <1>5 DEF TypeOK
<1>7. Counted'
  <2>1. main = "returned" /\ ~errors => wg' = 0
    <3>1. wg = 0 => Owing = {}
      BY CountOf DEF Counted, Owing
    <3>2. p \in Owing
      BY <1>1 DEF Owing
    <3> QED BY <3>1, <3>2 DEF Counted
  <2> QED BY <1>1, <1>4, <1>5, <2>1 DEF Counted
<1>8. \A q \in Ports : Found(q)'
  <2>1. Found(p)'
    <3>1. CASE Dial(p)
      BY <1>1, <3>1 DEF Dial, Found, TypeOK, Probe
    <3>2. CASE ReadBanner(p)
      BY <1>1, <3>2 DEF ReadBanner, Found, TypeOK, Probe
    <3>3. CASE ProbeTLS(p)
      BY <1>1, <3>3 DEF ProbeTLS, Found, TypeOK, Probe
    <3>4. CASE Record(p)
      <4>1. pp[p] \in Probe /\ reachable'[p] = pp[p] /\ pp' = pp
        BY <3>4 DEF Record, TypeOK
      <4>2. reachable'[p] # NoEntry
        BY <4>1, EntriesDiffer
      <4>3. worker'[p] = "release" /\ worker[p] = "record"
        BY <3>4 DEF Record, TypeOK
      <4>4. p \in certs' => pp[p].tls
        BY <3>4 DEF Record, Found
      <4> QED BY <1>1, <4>1, <4>2, <4>3, <4>4 DEF Found
    <3>5. CASE Release(p) \/ Done(p)
      BY <1>1, <3>5 DEF Release, Done, Found, TypeOK
    <3> QED BY <3>1, <3>2, <3>3, <3>4, <3>5 DEF Worker
  <2>2. ASSUME NEW q \in Ports \ {p} PROVE Found(q)'
    BY <1>1, <1>2, <2>2 DEF Found
  <2> QED BY <2>1, <2>2
<1> QED BY <1>3, <1>6, <1>7, <1>8

LEMMA InvNext == PortsInv /\ [Next]_vars => PortsInv'
<1> SUFFICES ASSUME PortsInv, UNCHANGED vars PROVE PortsInv'
  BY MainKeeps, WorkerKeeps DEF Next
<1> QED
  BY DEF vars, result, PortsInv, TypeOK, Started, Counted, Running, Owing, Found

LEMMA InvHolds == Spec => []PortsInv
BY InvInit, InvNext, Safety, PTL

-----------------------------------------------------------------------------
(***************************************************************************)
(* TypeOK: every variable keeps its type; no more slots are taken than     *)
(* there are, and the counter of the WaitGroup is never negative.          *)
(***************************************************************************)
THEOREM TypeCorrect == Spec => []TypeOK
<1>1. PortsInv => TypeOK
  BY DEF PortsInv
<1> QED BY <1>1, InvHolds, PTL

(***************************************************************************)
(* SlotsMatch: the slots of sem in use are those of the goroutines at      *)
(* work, and those are never more than Options.Concurrency (Probe).        *)
(***************************************************************************)
THEOREM SlotsAreKept == Spec => []SlotsMatch
<1>1. PortsInv => SlotsMatch
  BY ConcurrencyAssumption DEF PortsInv, Counted, TypeOK, SlotsMatch
<1> QED BY <1>1, InvHolds, PTL

(***************************************************************************)
(* AllReported: when Probe returns without the cancellation, every port    *)
(* has its entry and no goroutine is left (wg.Wait).                       *)
(***************************************************************************)
THEOREM EveryPortReported == Spec => []AllReported
<1>1. PortsInv => AllReported
  <2> SUFFICES ASSUME PortsInv, main = "returned", ~errors
               PROVE  Owing = {} /\ \A p \in Ports : reachable[p] # NoEntry
    BY DEF AllReported
  <2> USE PortsAssumption DEF PortsInv
  <2>1. Owing = {}
    BY CountOf DEF Counted, Owing
  <2>2. \A p \in Ports : worker[p] # "none"
    BY DEF Started, Ports
  <2>3. \A p \in Ports : worker[p] = "gone"
    BY <2>1, <2>2 DEF Owing
  <2> QED BY <2>1, <2>3 DEF Found
<1> QED BY <1>1, InvHolds, PTL

(***************************************************************************)
(* TruthfulEntries: what is reported open accepted a connection, and       *)
(* without a cancellation nothing that does is reported closed.            *)
(***************************************************************************)
THEOREM EntriesAreTrue == Spec => []TruthfulEntries
<1>1. PortsInv => TruthfulEntries
  BY DEF PortsInv, Found, TruthfulEntries
<1> QED BY <1>1, InvHolds, PTL
=============================================================================
