----------------------------- MODULE SandboxRun -----------------------------
(***************************************************************************)
(* One run to completion under the sandbox (internal/sandbox: runIn and    *)
(* baseRunner.Run in base.go, linuxRunner.Run in runner_linux.go).         *)
(*                                                                         *)
(* cmd.Wait first reaps the leader of the child's group and then waits for *)
(* the goroutines that copy stdout and stderr through a capWriter, which   *)
(* end when no process holds the pipes; there is no WaitDelay.  A          *)
(* goroutine of Run kills the group when the timeout fires, and os/exec    *)
(* kills the leader; nobody kills a process that left the group.  The names  *)
(* differ from those of module Session, the package's other program, so    *)
(* that one module can speak of both.                                      *)
(***************************************************************************)
EXTENDS Naturals

CONSTANTS OutputCap,  \* outputCap(s), in bytes
          MaxOutput   \* bound on the bytes the child writes

ASSUME OutputAssumption == OutputCap \in Nat \ {0} /\ MaxOutput \in Nat

VARIABLES
    child,      \* the leader of the group: "running", "zombie" or "reaped"
    descendant, \* a descendant in the group: "none", "holds" (the output
                \* pipes), "quiet" (it closed them) or "dead"
    escapee,    \* a process that left the group (setsid): "none" or "holds"
    total,      \* bytes written to stdout
    captured,   \* bytes in the buffer of the capWriter
    overdue,    \* the timeout has passed
    finished,   \* done is closed, or the deferred cancel has run
    killer,     \* Run's goroutine: "wait", "getpgid", "kill", "exit"
    pgidKnown,  \* Getpgid succeeded
    main,       \* "wait", "drain", "limit" or "returned"
    killed,     \* exec.CommandContext or killGroup signalled the live leader
    timedOut    \* Result.TimedOut

runVars == <<child, descendant, escapee, total, captured, overdue, finished,
             killer, pgidKnown, main, killed, timedOut>>

RunInit ==
    /\ child = "running" /\ descendant = "none" /\ escapee = "none"
    /\ total = 0 /\ captured = 0
    /\ overdue = FALSE /\ finished = FALSE
    /\ killer = "wait" /\ pgidKnown = FALSE
    /\ killed = FALSE /\ timedOut = FALSE
    /\ main = "wait"

\* Somebody can still write to the pipes that cmd.Wait copies.
Holders == child = "running" \/ descendant = "holds" \/ escapee = "holds"

-----------------------------------------------------------------------------
(***************************************************************************)
(* The child.                                                              *)
(***************************************************************************)
Lesser(a, b) == IF a < b THEN a ELSE b

\* capWriter.Write of n bytes: what exceeds the cap is dropped, and the child
\* is told that everything was written.
CapWrite_DropsLongChunk(n) ==
    IF n <= OutputCap - captured THEN captured + n ELSE captured
CapWrite(n) == IF captured < OutputCap
               THEN captured + Lesser(n, OutputCap - captured)
               ELSE captured

ChildWrites ==
    /\ Holders
    /\ \E n \in 1..(MaxOutput - total) :
          total' = total + n /\ captured' = CapWrite(n)
    /\ UNCHANGED <<child, descendant, escapee, overdue, finished, killer,
                   pgidKnown, main, killed, timedOut>>

ChildForks ==
    /\ child = "running" /\ descendant = "none"
    /\ descendant' \in {"holds", "quiet"}
    /\ UNCHANGED <<child, escapee, total, captured, overdue, finished, killer,
                   pgidKnown, main, killed, timedOut>>

\* Some holder of the pipes forks a process that calls setsid.
ChildEscapes ==
    /\ Holders /\ escapee = "none"
    /\ escapee' = "holds"
    /\ UNCHANGED <<child, descendant, total, captured, overdue, finished, killer,
                   pgidKnown, main, killed, timedOut>>

ChildExits ==
    /\ \/ /\ child = "running" /\ child' = "zombie"
          /\ UNCHANGED <<descendant, escapee>>
       \/ /\ descendant \in {"holds", "quiet"} /\ descendant' = "dead"
          /\ UNCHANGED <<child, escapee>>
       \/ /\ escapee = "holds" /\ escapee' = "none"
          /\ UNCHANGED <<child, descendant>>
    /\ UNCHANGED <<total, captured, overdue, finished, killer, pgidKnown, main,
                   killed, timedOut>>

-----------------------------------------------------------------------------
(***************************************************************************)
(* The timeout.                                                            *)
(***************************************************************************)
TimeoutPasses ==
    /\ ~overdue /\ ~finished
    /\ overdue' = TRUE
    /\ UNCHANGED <<child, descendant, escapee, total, captured, finished, killer,
                   pgidKnown, main, killed, timedOut>>

\* exec.CommandContext's own reaction: the leader alone.
ExecKillsChild ==
    /\ overdue /\ child = "running"
    /\ child' = "zombie" /\ killed' = TRUE
    /\ UNCHANGED <<descendant, escapee, total, captured, overdue, finished, killer,
                   pgidKnown, main, timedOut>>

KillerWakes ==
    /\ killer = "wait"
    /\ \/ overdue /\ killer' = "getpgid"
       \/ finished /\ killer' = "exit"
    /\ UNCHANGED <<child, descendant, escapee, total, captured, overdue, finished,
                   pgidKnown, main, killed, timedOut>>

\* killGroup: Getpgid fails once the leader has been reaped ...
KillerGetsPgid ==
    /\ killer = "getpgid"
    /\ killer' = "kill" /\ pgidKnown' = (child # "reaped")
    /\ UNCHANGED <<child, descendant, escapee, total, captured, overdue, finished, main, killed, timedOut>>

\* ... and then only the leader, which is gone, is signalled.
KillerKills_LeaderOnly ==
    /\ killer = "kill"
    /\ killer' = "exit"
    /\ child' = IF child = "running" THEN "zombie" ELSE child
    /\ killed' = (killed \/ child = "running")
    /\ UNCHANGED <<descendant, escapee, total, captured, overdue, finished, pgidKnown, main,
                   timedOut>>
KillerKills ==
    /\ killer = "kill"
    /\ killer' = "exit"
    /\ child' = IF child = "running" THEN "zombie" ELSE child
    /\ killed' = (killed \/ child = "running")
    /\ descendant' = IF pgidKnown /\ descendant # "none" THEN "dead" ELSE descendant
    /\ UNCHANGED <<escapee, total, captured, overdue, finished, pgidKnown, main, timedOut>>

Killer == KillerWakes \/ KillerGetsPgid \/ KillerKills

-----------------------------------------------------------------------------
(***************************************************************************)
(* The caller of Run.                                                      *)
(***************************************************************************)
ReapChild ==
    /\ main = "wait" /\ child = "zombie"
    /\ main' = "drain" /\ child' = "reaped"
    /\ UNCHANGED <<descendant, escapee, total, captured, overdue, finished, killer,
                   pgidKnown, killed, timedOut>>

\* cmd.Wait returns; close(done), the result is filled, cancel runs.
CmdWaitReturns_WithoutCopying ==
    /\ main = "drain"
    /\ main' = "limit" /\ finished' = TRUE /\ timedOut' = overdue
    /\ UNCHANGED <<child, descendant, escapee, total, captured, overdue, killer,
                   pgidKnown, killed>>
CmdWaitReturns ==
    /\ main = "drain" /\ ~Holders
    /\ main' = "limit" /\ finished' = TRUE /\ timedOut' = overdue
    /\ UNCHANGED <<child, descendant, escapee, total, captured, overdue, killer,
                   pgidKnown, killed>>

\* linuxRunner.Run calls applyPrlimit with the pid runIn returned, which was
\* reaped: it changes nothing.
ApplyPrlimit ==
    /\ main = "limit"
    /\ main' = "returned"
    /\ UNCHANGED <<child, descendant, escapee, total, captured, overdue, finished, killer,
                   pgidKnown, killed, timedOut>>

Main == ReapChild \/ CmdWaitReturns \/ ApplyPrlimit

RunNext ==
    \/ ChildWrites \/ ChildForks \/ ChildEscapes \/ ChildExits
    \/ TimeoutPasses \/ ExecKillsChild \/ Killer \/ Main

RunFairness ==
    /\ WF_runVars(TimeoutPasses) /\ WF_runVars(ExecKillsChild)
    /\ WF_runVars(Killer) /\ WF_runVars(Main)

RunSpec == RunInit /\ [][RunNext]_runVars /\ RunFairness

-----------------------------------------------------------------------------
RunTypeOK ==
    /\ child \in {"running", "zombie", "reaped"}
    /\ descendant \in {"none", "holds", "quiet", "dead"}
    /\ escapee \in {"none", "holds"}
    /\ total \in 0..MaxOutput /\ captured \in 0..OutputCap
    /\ {overdue, finished, pgidKnown, killed, timedOut} \subseteq BOOLEAN
    /\ killer \in {"wait", "getpgid", "kill", "exit"}
    /\ main \in {"wait", "drain", "limit", "returned"}

\* capWriter: whatever the chunks, the buffer holds exactly the first
\* OutputCap bytes, and output after Run has returned is impossible.
CaptureExact ==
    captured = Lesser(total, OutputCap)

\* Run: the result is complete; nobody can still write to it.
ResultComplete ==
    [][(main \in {"limit", "returned"}) => UNCHANGED <<total, captured>>]_runVars

\* Spec.Timeout, "a hard ceiling": the timeout ends every run in which Getpgid
\* still finds the leader and no process that left the group keeps the output
\* pipes.  Otherwise cmd.Wait waits for whoever holds them, for ever if need be.
RunReturns ==
    [](killer = "kill" => pgidKnown) /\ <>[](escapee = "none") => <>(main = "returned")
=============================================================================
