--------------------------- MODULE Sandbox_proofs ---------------------------
(***************************************************************************)
(* Theorems about the two programs of internal/sandbox, a streaming        *)
(* session and a run to completion: the invariants of each, and what Close *)
(* may signal, in every order of their threads, os/exec and the kernel.    *)
(* Only SessionEnds and RunReturns, which rest on fairness, are left to    *)
(* TLC.                                                                    *)
(***************************************************************************)
EXTENDS Session, SandboxRun, TLAPS

-----------------------------------------------------------------------------
(***************************************************************************)
(* The session.                                                            *)
(***************************************************************************)

(***************************************************************************)
(* What the owner knows at each step of Close: it is the only one to close *)
(* done and to reap, so the number its killGroup got is still the group's, *)
(* and nothing of the group outlives that signal.                          *)
(***************************************************************************)
OwnerInv ==
    /\ done <=> owner \notin {"applied", "use"}
    /\ leader = "reaped" <=> owner \in {"drain", "remove", "closed"}
    /\ owner = "kill" => target["owner"] = "group"
    /\ owner \in {"cancel", "wait", "drain", "remove", "closed"}
          => ~Alive /\ member # "alive"
    /\ owner = "closed" => ~home

\* The pid is taken again only after the reaping.
PidInv == stranger => leader = "reaped"

\* Before Close, the watchdog's number too is the group's, and its signal
\* ended the group.
WatchdogInv ==
    /\ watchdog = "kill" /\ ~done => target["watchdog"] = "group"
    /\ DeadlineKillsGroup

\* What the report of confinement rests on: the marker's line on linux, the
\* profile that buildApplied tells of on darwin.
ReportInv ==
    /\ line = "true" /\ landlock => confined
    /\ path = "startIn" /\ applied = "true" => line = "true"
    /\ path = "start" => leader # "trampoline"
    /\ path = "start" /\ applied = "true" => confined

SessionInv == TypeOK /\ OwnerInv /\ PidInv /\ WatchdogInv /\ ReportInv

(***************************************************************************)
(* The inductive invariant holds at first and in every step.               *)
(***************************************************************************)
LEMMA SessionInit == Init => SessionInv
BY DEF Init, SessionInv, TypeOK, OwnerInv, PidInv, WatchdogInv, ReportInv, Alive,
       DeadlineKillsGroup, Owners, Threads

\* The types, one action at a time.
LEMMA TypeNext == TypeOK /\ [Next]_vars => TypeOK'
<1> SUFFICES ASSUME TypeOK, [Next]_vars PROVE TypeOK'
  OBVIOUS
<1> USE DEF TypeOK, Owners, Threads, host, procs, report, timing
<1>1. CASE SetupFails  BY <1>1 DEF SetupFails
<1>2. CASE Restrict
  <2>1. line' \in {"other", "false", "true"}
    BY <1>2 DEF Restrict
  <2>2. confined' \in BOOLEAN
    BY <1>2, Zenon DEF Restrict, Enforceable
  <2>3. UNCHANGED <<path, landlock, leader, member, daemon, stranger, hit, marker,
                    applied, timing, owner, watchdog, target, home>>
    BY <1>2 DEF Restrict
  <2> QED BY <2>1, <2>2, <2>3
<1>3. CASE Exec  BY <1>3 DEF Exec
<1>4. CASE Server  BY <1>4 DEF Server, Forks, LeavesGroup, Exits
<1>5. CASE PidReused  BY <1>5 DEF PidReused
<1>6. CASE TimerFires  BY <1>6 DEF TimerFires
<1>7. CASE ExecKillsLeader  BY <1>7 DEF ExecKillsLeader
<1>8. CASE WatchdogWakes  BY <1>8 DEF WatchdogWakes
<1>9. CASE WatchdogGetsPgid  BY <1>9 DEF WatchdogGetsPgid, GetPgid, Pgid
<1>10. CASE WatchdogKills  BY <1>10 DEF WatchdogKills, Signal
<1>11. CASE ReadMarker  BY <1>11 DEF ReadMarker
<1>12. CASE Applied  BY <1>12 DEF Applied
<1>13. CASE BeginClose  BY <1>13 DEF BeginClose
<1>14. CASE CloseGetsPgid  BY <1>14 DEF CloseGetsPgid, GetPgid, Pgid
<1>15. CASE CloseKills  BY <1>15 DEF CloseKills, Signal
<1>16. CASE Cancel  BY <1>16 DEF Cancel
<1>17. CASE Reap  BY <1>17 DEF Reap
<1>18. CASE WaitReturns  BY <1>18 DEF WaitReturns
<1>19. CASE RemoveHome
  <2>1. owner' = "closed" /\ home' \in BOOLEAN
    BY <1>19 DEF RemoveHome
  <2>2. UNCHANGED <<host, procs, report, timing, watchdog, target>>
    BY <1>19 DEF RemoveHome
  <2> QED BY <2>1, <2>2
<1>20. CASE UNCHANGED vars  BY <1>20 DEF vars
<1> QED
  BY <1>1, <1>2, <1>3, <1>4, <1>5, <1>6, <1>7, <1>8, <1>9, <1>10, <1>11, <1>12,
     <1>13, <1>14, <1>15, <1>16, <1>17, <1>18, <1>19, <1>20
     DEF Next, Trampoline, Watchdog, Owner

\* The pid: only the owner reaps, and after it no child is left to fork.
LEMMA OwnerNext == SessionInv /\ [Next]_vars => OwnerInv' /\ PidInv'
<1> SUFFICES ASSUME SessionInv, [Next]_vars PROVE OwnerInv' /\ PidInv'
  OBVIOUS
<1> USE DEF SessionInv, TypeOK, Owners, Threads, OwnerInv, PidInv, Alive, host, procs,
            report, timing
<1>1. CASE Trampoline  BY <1>1 DEF Trampoline, SetupFails, Restrict, Exec
<1>2. CASE Server  BY <1>2 DEF Server, Forks, LeavesGroup, Exits
<1>3. CASE PidReused  BY <1>3 DEF PidReused
<1>4. CASE TimerFires \/ ReadMarker  BY <1>4 DEF TimerFires, ReadMarker
<1>5. CASE ExecKillsLeader  BY <1>5 DEF ExecKillsLeader
<1>6. CASE WatchdogWakes  BY <1>6 DEF WatchdogWakes
<1>7. CASE WatchdogGetsPgid  BY <1>7 DEF WatchdogGetsPgid, GetPgid
<1>8. CASE WatchdogKills  BY <1>8 DEF WatchdogKills, Signal
<1>9. CASE Applied  BY <1>9 DEF Applied
<1>10. CASE BeginClose  BY <1>10 DEF BeginClose
<1>11. CASE CloseGetsPgid  BY <1>11 DEF CloseGetsPgid, GetPgid, Pgid
<1>12. CASE CloseKills  BY <1>12 DEF CloseKills, Signal
<1>13. CASE Cancel  BY <1>13 DEF Cancel
<1>14. CASE Reap  BY <1>14 DEF Reap
<1>15. CASE WaitReturns  BY <1>15 DEF WaitReturns
<1>16. CASE RemoveHome  BY <1>16 DEF RemoveHome
<1>17. CASE UNCHANGED vars  BY <1>17 DEF vars
<1> QED
  BY <1>1, <1>2, <1>3, <1>4, <1>5, <1>6, <1>7, <1>8, <1>9, <1>10, <1>11, <1>12,
     <1>13, <1>14, <1>15, <1>16, <1>17 DEF Next, Watchdog, Owner

\* The watchdog: until done is closed nobody reaps, so its Getpgid finds the
\* group, and after its signal there is nobody left who could fork.
LEMMA WatchdogNext == SessionInv /\ [Next]_vars => WatchdogInv'
<1> SUFFICES ASSUME SessionInv, [Next]_vars PROVE WatchdogInv'
  OBVIOUS
<1> USE DEF SessionInv, TypeOK, Owners, Threads, OwnerInv, WatchdogInv,
            DeadlineKillsGroup, Alive, host, procs, report, timing
<1>1. CASE Trampoline  BY <1>1 DEF Trampoline, SetupFails, Restrict, Exec
<1>2. CASE Server  BY <1>2 DEF Server, Forks, LeavesGroup, Exits
<1>3. CASE PidReused \/ TimerFires \/ ReadMarker
  BY <1>3 DEF PidReused, TimerFires, ReadMarker
<1>4. CASE ExecKillsLeader  BY <1>4 DEF ExecKillsLeader
<1>5. CASE WatchdogWakes  BY <1>5 DEF WatchdogWakes
<1>6. CASE WatchdogGetsPgid  BY <1>6 DEF WatchdogGetsPgid, GetPgid, Pgid
<1>7. CASE WatchdogKills  BY <1>7 DEF WatchdogKills, Signal
<1>8. CASE Applied \/ BeginClose  BY <1>8 DEF Applied, BeginClose
<1>9. CASE CloseGetsPgid \/ CloseKills
  BY <1>9 DEF CloseGetsPgid, GetPgid, CloseKills, Signal
<1>10. CASE Cancel \/ Reap \/ WaitReturns \/ RemoveHome
  BY <1>10 DEF Cancel, Reap, WaitReturns, RemoveHome
<1>11. CASE UNCHANGED vars  BY <1>11 DEF vars
<1> QED
  BY <1>1, <1>2, <1>3, <1>4, <1>5, <1>6, <1>7, <1>8, <1>9, <1>10, <1>11
     DEF Next, Watchdog, Owner

\* The report: the marker is written after the restriction, and read before it
\* is told.
LEMMA ReportNext == SessionInv /\ [Next]_vars => ReportInv'
<1> SUFFICES ASSUME SessionInv, [Next]_vars PROVE ReportInv'
  OBVIOUS
<1> USE DEF SessionInv, TypeOK, ReportInv, Alive, host, procs, report, timing
<1>1. CASE SetupFails  BY <1>1 DEF SetupFails
<1>2. CASE Restrict  BY <1>2 DEF Restrict, Enforceable
<1>3. CASE Exec  BY <1>3 DEF Exec
<1>4. CASE Server  BY <1>4 DEF Server, Forks, LeavesGroup, Exits
<1>5. CASE PidReused \/ TimerFires \/ ReadMarker
  BY <1>5 DEF PidReused, TimerFires, ReadMarker
<1>6. CASE ExecKillsLeader  BY <1>6 DEF ExecKillsLeader
<1>7. CASE Watchdog
  BY <1>7 DEF Watchdog, WatchdogWakes, WatchdogGetsPgid, WatchdogKills, Signal
<1>8. CASE Applied  BY <1>8 DEF Applied
<1>9. CASE BeginClose \/ CloseGetsPgid \/ CloseKills
  BY <1>9 DEF BeginClose, CloseGetsPgid, CloseKills, Signal
<1>10. CASE Cancel \/ Reap \/ WaitReturns \/ RemoveHome
  BY <1>10 DEF Cancel, Reap, WaitReturns, RemoveHome
<1>11. CASE UNCHANGED vars  BY <1>11 DEF vars
<1> QED
  BY <1>1, <1>2, <1>3, <1>4, <1>5, <1>6, <1>7, <1>8, <1>9, <1>10, <1>11
     DEF Next, Trampoline, Owner

LEMMA Inductive == Spec => []SessionInv
<1>1. SessionInv /\ [Next]_vars => SessionInv'
  BY TypeNext, OwnerNext, WatchdogNext, ReportNext DEF SessionInv
<1> QED BY SessionInit, <1>1, PTL DEF Spec

(***************************************************************************)
(* The results.                                                            *)
(***************************************************************************)

\* The states of a session are those declared.
THEOREM TypeCorrect == Spec => []TypeOK
<1>1. SessionInv => TypeOK
  BY DEF SessionInv
<1> QED BY Inductive, <1>1, PTL

\* When Close returns the leader is reaped, its group is empty and the
\* throwaway directory is gone (Session.Close).
THEOREM CloseLeavesNothing == Spec => []GroupGone
<1>1. SessionInv => GroupGone
  BY DEF SessionInv, OwnerInv, GroupGone
<1> QED BY Inductive, <1>1, PTL

\* On a kernel with Landlock, a server reported as confined is confined
\* (Session.Applied).
THEOREM ReportIsHonest == Spec => []AppliedHonest
<1>1. SessionInv => AppliedHonest
  BY DEF SessionInv, TypeOK, ReportInv, AppliedHonest
<1> QED BY Inductive, <1>1, PTL

\* After the deadline the watchdog leaves no process of the group.
THEOREM DeadlineIsFinal == Spec => []DeadlineKillsGroup
<1>1. SessionInv => DeadlineKillsGroup
  BY DEF SessionInv, WatchdogInv
<1> QED BY Inductive, <1>1, PTL

\* Close never signals a process group that is not the session's; only the
\* watchdog's late killGroup can.
THEOREM CloseIsPrecise == Spec => CloseSparesStrangers
<1>1. SessionInv /\ [Next]_vars => [hit' # hit => watchdog = "kill"]_vars
  <2> SUFFICES ASSUME SessionInv, Next, hit' # hit PROVE watchdog = "kill"
    BY DEF vars
  <2>1. CASE WatchdogKills  BY <2>1 DEF WatchdogKills
  <2>2. CASE CloseKills
    <3>1. target["owner"] = "group" /\ ~stranger
      BY <2>2 DEF CloseKills, SessionInv, OwnerInv, PidInv
    <3> QED BY <2>2, <3>1 DEF CloseKills, Signal, SessionInv, TypeOK
  <2> QED
    BY <2>1, <2>2
       DEF Next, Trampoline, SetupFails, Restrict, Exec, Server, Forks, LeavesGroup,
           Exits, PidReused, TimerFires, ExecKillsLeader, Watchdog, WatchdogWakes,
           WatchdogGetsPgid, ReadMarker, Owner, Applied, BeginClose, CloseGetsPgid,
           Cancel, Reap, WaitReturns, RemoveHome, procs
<1> QED BY Inductive, <1>1, PTL DEF Spec, CloseSparesStrangers

-----------------------------------------------------------------------------
(***************************************************************************)
(* A run to completion, for any cap and any amount of output.              *)
(***************************************************************************)

\* The safety part of the specification.
LEMMA RunSafety == RunSpec => RunInit /\ [][RunNext]_runVars
BY PTL DEF RunSpec

(***************************************************************************)
(* Once cmd.Wait has returned, nobody is left to write; until the child   *)
(* is reaped it is running or a zombie.                                    *)
(***************************************************************************)
Drained ==
    /\ main \in {"limit", "returned"} => ~Holders
    /\ main # "wait" => child = "reaped"

RunInv == RunTypeOK /\ CaptureExact /\ Drained

LEMMA RunInvInit == RunInit => RunInv
<1> SUFFICES ASSUME RunInit PROVE RunInv
  OBVIOUS
<1> USE OutputAssumption DEF RunInit
<1>1. {overdue, finished, pgidKnown, killed, timedOut} \subseteq BOOLEAN
  OBVIOUS
<1>2. CaptureExact /\ Drained
  BY DEF CaptureExact, Drained, Lesser, Holders
<1> QED BY <1>1, <1>2 DEF RunInv, RunTypeOK

\* Every step of the child, the timeout and the caller keeps the invariant.
LEMMA RunInvNext == RunInv /\ [RunNext]_runVars => RunInv'
<1> SUFFICES ASSUME RunInv, [RunNext]_runVars PROVE RunInv'
  OBVIOUS
<1> USE OutputAssumption DEF RunInv, RunTypeOK, CaptureExact, Drained, Lesser, Holders
<1>1. CASE ChildWrites
  BY <1>1 DEF ChildWrites, CapWrite
<1>2. CASE ChildForks \/ ChildEscapes
  BY <1>2 DEF ChildForks, ChildEscapes
<1>3. CASE ChildExits
  BY <1>3 DEF ChildExits
<1>4. CASE TimeoutPasses
  BY <1>4 DEF TimeoutPasses
<1>5. CASE ExecKillsChild
  BY <1>5 DEF ExecKillsChild
<1>6. CASE Killer
  BY <1>6 DEF Killer, KillerWakes, KillerGetsPgid, KillerKills
<1>7. CASE Main
  BY <1>7 DEF Main, ReapChild, CmdWaitReturns, ApplyPrlimit
<1>8. CASE UNCHANGED runVars
  BY <1>8 DEF runVars
<1> QED BY <1>1, <1>2, <1>3, <1>4, <1>5, <1>6, <1>7, <1>8 DEF RunNext

LEMMA RunInvHolds == RunSpec => []RunInv
BY RunInvInit, RunInvNext, RunSafety, PTL

(***************************************************************************)
(* RunTypeOK: every variable of a run keeps its type.                      *)
(***************************************************************************)
THEOREM RunTypeCorrect == RunSpec => []RunTypeOK
<1>1. RunInv => RunTypeOK
  BY DEF RunInv
<1> QED BY <1>1, RunInvHolds, PTL

(***************************************************************************)
(* CaptureExact: in whatever chunks output comes, the buffer holds exactly *)
(* what fits under the cap (capWriter.Write).                              *)
(***************************************************************************)
THEOREM CaptureIsExact == RunSpec => []CaptureExact
<1>1. RunInv => CaptureExact
  BY DEF RunInv
<1> QED BY <1>1, RunInvHolds, PTL

(***************************************************************************)
(* ResultComplete: after cmd.Wait has returned no step changes the output  *)
(* that Run returns (runIn).                                               *)
(***************************************************************************)
THEOREM ResultIsComplete == RunSpec => ResultComplete
<1>1. RunInv /\ [RunNext]_runVars
        => [(main \in {"limit", "returned"}) => UNCHANGED <<total, captured>>]_runVars
  <2> SUFFICES ASSUME RunInv, [RunNext]_runVars, main \in {"limit", "returned"}
               PROVE  UNCHANGED <<total, captured>>
    OBVIOUS
  <2>1. ~ChildWrites
    BY DEF RunInv, Drained, ChildWrites
  <2> QED
    BY <2>1 DEF RunNext, ChildForks, ChildEscapes, ChildExits, TimeoutPasses,
                ExecKillsChild, Killer, KillerWakes, KillerGetsPgid, KillerKills, Main, ReapChild, CmdWaitReturns,
                ApplyPrlimit, runVars
<1> QED BY <1>1, RunInvHolds, RunSafety, PTL DEF ResultComplete
=============================================================================
