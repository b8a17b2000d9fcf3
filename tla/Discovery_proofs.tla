-------------------------- MODULE Discovery_proofs --------------------------
(***************************************************************************)
(* Theorems about Discovery, for any cap on the pages, any timeout and any *)
(* number of tools on a page.                                              *)
(***************************************************************************)
EXTENDS Discovery, TLAPS

\* The safety part of the specification.
LEMMA Safety == Spec => Init /\ [][Next]_vars
BY PTL DEF Spec

(***************************************************************************)
(* Products, which the backends take one at a time: a factor more is a     *)
(* summand more, and products grow with their factors.                     *)
(***************************************************************************)
LEMMA OneMore == \A n, k \in Nat : (n + 1) * k = n * k + k
OBVIOUS

LEMMA Grows ==
    ASSUME NEW n \in Nat, NEW m \in Nat, NEW k \in Nat, n <= m
    PROVE  n * k <= m * k
OBVIOUS

(***************************************************************************)
(* Types of a discovery, without the bound on the tools.                   *)
(***************************************************************************)
Typed ==
    /\ transport \in {"stdio", "http"}
    /\ daemon \in BOOLEAN /\ phase \in {"write", "wait"}
    /\ pc \in {"spawn", "initialize", "notify", "list", "done"}
    /\ now \in Nat /\ began \in Nat /\ began <= now
    /\ page \in 0..MaxPages
    /\ sent \in Nat /\ tools \in Nat
    /\ more \in BOOLEAN
    /\ result \in {"none", "ok", "error"}

(***************************************************************************)
(* Where a discovery is: the result is there in the end only, nothing is   *)
(* dropped before, and the loop has room for the page it waits for.        *)
(***************************************************************************)
Placed ==
    /\ result # "none" <=> pc = "done"
    /\ pc # "done" => tools = sent
    /\ pc \in {"spawn", "initialize", "notify"} => page = 0 /\ sent = 0
    /\ pc = "list" => page < MaxPages
    /\ sent <= page * PageSize /\ tools <= sent

\* The calls begun before the current one.
Call == CASE pc \in {"spawn", "initialize"} -> 0
          [] pc = "notify" -> 1
          [] pc = "list" -> page + 2
          [] OTHER -> MaxPages + 2

(***************************************************************************)
(* Time: without a daemon a stdio frame is written before the session's    *)
(* deadline, and the call it begins ends a timeout later at most; an http  *)
(* call begins when the timeouts of those before it are spent.             *)
(***************************************************************************)
OnTime ==
    /\ transport = "stdio" /\ ~daemon =>
          /\ now <= 2 * Timeout
          /\ pc # "done" /\ phase = "wait" => began < Timeout /\ now <= began + Timeout
    /\ transport = "http" /\ pc # "done" =>
          phase = "wait" /\ pc # "spawn" /\ began <= Call * Timeout /\ now <= began + Timeout
    /\ transport = "http" => now <= (MaxPages + 2) * Timeout

DiscoveryInv == Typed /\ Placed /\ AllOrNothing /\ OnTime

LEMMA InvInit == Init => DiscoveryInv
<1> SUFFICES ASSUME Init PROVE DiscoveryInv
  OBVIOUS
<1> USE PagesAssumption, TimeoutAssumption, SizeAssumption DEF Init, Begins
<1>1. Typed
  <2>1. daemon \in BOOLEAN /\ more \in BOOLEAN
    OBVIOUS
  <2>2. 0 \in 0..MaxPages
    OBVIOUS
  <2> QED BY <2>1, <2>2 DEF Typed
<1>2. Placed /\ AllOrNothing
  BY DEF Placed, AllOrNothing
<1>3. 0 <= (MaxPages + 2) * Timeout /\ 0 * Timeout = 0
  OBVIOUS
<1>4. OnTime
  BY <1>3 DEF OnTime, Call
<1> QED BY <1>1, <1>2, <1>4 DEF DiscoveryInv

(***************************************************************************)
(* A page keeps the invariant.                                             *)
(***************************************************************************)
LEMMA PageKeeps == DiscoveryInv /\ Page => DiscoveryInv'
<1> SUFFICES ASSUME DiscoveryInv, Page PROVE DiscoveryInv'
  OBVIOUS
<1> USE PagesAssumption, TimeoutAssumption, SizeAssumption
        DEF DiscoveryInv, Typed, Placed, Page, Then, Begins
<1>1. Typed'
  OBVIOUS
<1>2. (page + 1) * PageSize = page * PageSize + PageSize
  BY OneMore
<1>3. Placed'
  BY <1>2
<1>4. AllOrNothing'
  BY DEF AllOrNothing
<1>5. OnTime'
  <2>1. CASE transport = "stdio"
    <3>1. UNCHANGED <<transport, daemon, now>> /\ phase' = "write" /\ phase = "wait"
          /\ pc = "list"
      BY <2>1
    <3>2. ~daemon => now <= 2 * Timeout
      BY <2>1 DEF OnTime
    <3> QED BY <2>1, <3>1, <3>2 DEF OnTime
  <2>2. CASE transport = "http"
    <3>1. now <= (page + 3) * Timeout
      BY <2>2, OneMore DEF OnTime, Call
    <3>2. (page + 3) * Timeout <= (MaxPages + 2) * Timeout
      BY Grows
    <3>3. now <= (MaxPages + 2) * Timeout
      BY <3>1, <3>2
    <3>4. /\ began' = now /\ now' = now /\ transport' = "http"
          /\ pc' \in {"list", "done"} /\ phase' = "wait"
      BY <2>2
    <3>5. pc' = "list" => Call' = page + 3
      BY DEF Call
    <3> QED BY <3>1, <3>3, <3>4, <3>5 DEF OnTime
  <2> QED BY <2>1, <2>2
<1> QED BY <1>1, <1>3, <1>4, <1>5 DEF DiscoveryInv

\* Every step keeps the invariant.
LEMMA InvNext == DiscoveryInv /\ [Next]_vars => DiscoveryInv'
<1> SUFFICES ASSUME DiscoveryInv, [Next]_vars PROVE DiscoveryInv'
  OBVIOUS
<1> USE PagesAssumption, TimeoutAssumption, SizeAssumption
        DEF DiscoveryInv, Typed, Placed, AllOrNothing, Then, Begins
<1>1. CASE Spawned
  BY <1>1 DEF Spawned, OnTime, Call
<1>2. CASE FrameWritten
  <2>1. /\ transport = "stdio" /\ transport' = transport /\ daemon' = daemon
        /\ now' = now /\ began' = now /\ (daemon \/ now < Timeout)
        /\ IF pc = "notify" THEN pc' = "list" /\ phase' = "write"
           ELSE pc' = pc /\ phase' = "wait"
    BY <1>2 DEF FrameWritten, Open, OnTime
  <2>2. OnTime'
    BY <2>1 DEF OnTime
  <2>3. UNCHANGED <<page, sent, more, tools, result>> /\ pc # "done"
    BY <1>2 DEF FrameWritten
  <2> QED BY <2>1, <2>2, <2>3
<1>3. CASE Initialized \/ Notified
  <2>1. 1 * Timeout = Timeout /\ 2 * Timeout = Timeout + Timeout
    OBVIOUS
  <2> QED BY <1>3, <2>1 DEF Initialized, Notified, OnTime, Call
<1>4. CASE Page
  BY <1>4, PageKeeps
<1>5. CASE Fails
  BY <1>5 DEF Fails, OnTime
<1>6. CASE Tick
  <2>1. Typed' /\ Placed' /\ AllOrNothing'
    BY <1>6 DEF Tick
  <2>2. CASE transport = "stdio"
    BY <1>6, <2>1, <2>2 DEF Tick, Expired, Open, OnTime
  <2>3. CASE transport = "http"
    <3>1. now' <= began + Timeout /\ began <= Call * Timeout /\ Call' = Call
      BY <1>6, <2>3 DEF Tick, Expired, Open, OnTime, Call
    <3>2. Call \in Nat /\ Call + 1 <= MaxPages + 2
      BY <1>6 DEF Tick, Call
    <3>3. (Call + 1) * Timeout = Call * Timeout + Timeout
      BY <3>2, OneMore
    <3>4. (Call + 1) * Timeout <= (MaxPages + 2) * Timeout
      BY <3>2, Grows
    <3>5. Call * Timeout \in Nat /\ (MaxPages + 2) * Timeout \in Nat
      BY <3>2
    <3>6. now' <= (MaxPages + 2) * Timeout
      <4> HIDE DEF Call
      <4> QED BY <3>1, <3>3, <3>4, <3>5, <2>1
    <3> QED BY <1>6, <2>1, <2>3, <3>1, <3>6 DEF Tick, OnTime
  <2> QED BY <2>1, <2>2, <2>3
<1>7. CASE Daemonizes
  BY <1>7 DEF Daemonizes, OnTime, Call
<1>8. CASE UNCHANGED vars
  BY <1>8 DEF vars, OnTime, Call
<1> QED BY <1>1, <1>2, <1>3, <1>4, <1>5, <1>6, <1>7, <1>8 DEF Next

LEMMA InvHolds == Spec => []DiscoveryInv
BY InvInit, InvNext, Safety, PTL

(***************************************************************************)
(* TypeOK: every variable keeps its type, and discover never returns more  *)
(* than MaxPages pages of tools.                                           *)
(***************************************************************************)
THEOREM TypeCorrect == Spec => []TypeOK
<1>1. DiscoveryInv => TypeOK
  <2> SUFFICES ASSUME DiscoveryInv PROVE TypeOK
    OBVIOUS
  <2> USE PagesAssumption, SizeAssumption DEF DiscoveryInv, Typed
  <2>1. page * PageSize <= MaxPages * PageSize
    BY Grows
  <2>2. sent <= MaxPages * PageSize /\ tools <= MaxPages * PageSize
    BY <2>1 DEF Placed
  <2> QED BY <2>2 DEF TypeOK
<1> QED BY <1>1, InvHolds, PTL

(***************************************************************************)
(* AllOrNothing: discover returns all the pages a server sent, or none.    *)
(***************************************************************************)
THEOREM ListsAreWhole == Spec => []AllOrNothing
<1>1. DiscoveryInv => AllOrNothing
  BY DEF DiscoveryInv
<1> QED BY <1>1, InvHolds, PTL

(***************************************************************************)
(* Bounded: the deadlines add up, whatever a server does that leaves no    *)
(* daemon with its pipes.                                                  *)
(***************************************************************************)
THEOREM TimeIsBounded == Spec => []Bounded
<1>1. DiscoveryInv => Bounded
  BY DEF DiscoveryInv, Typed, OnTime, Bounded, TimeBound
<1> QED BY <1>1, InvHolds, PTL
=============================================================================
