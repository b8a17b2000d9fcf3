------------------------------ MODULE Session ------------------------------
(***************************************************************************)
(* One streaming sandbox session (internal/sandbox: startIn and Start in   *)
(* base.go and session.go, the trampoline of child_linux.go, Close).       *)
(*                                                                         *)
(* Threads: the owner (probeOne: Applied, the JSON-RPC exchange, Close),   *)
(* the watchdog goroutine, the goroutine that reads the applied marker,    *)
(* os/exec's own context watcher, and the kernel.  Processes: the leader   *)
(* of the child's group, one descendant in the group, possibly a daemon    *)
(* that left it, and a stranger that gets the leader's pid when that is    *)
(* free again.                                                             *)
(*                                                                         *)
(* path is "startIn" on linux: trampoline, marker on a stderr pipe that    *)
(* keelix reads itself.  It is "start" on darwin: no marker, and stderr    *)
(* goes to io.Discard through a copying goroutine of os/exec, for which    *)
(* cmd.Wait waits.                                                         *)
(***************************************************************************)
VARIABLES
    path,       \* "startIn" or "start"
    landlock,   \* whether the kernel has Landlock
    leader,     \* "trampoline", "server", "zombie" or "reaped"
    member,     \* another process of the group: "none", "alive", "dead"
    daemon,     \* a process outside the group holds the inherited pipes
    stranger,   \* an unrelated process group has the leader's old pid
    hit,        \* a signal of keelix reached the stranger
    confined,   \* kernel confinement is in force in the server
    line,       \* first line of stderr: "none", "true", "false", "other"
    marker,     \* the marker goroutine: "read" or "drain"
    applied,    \* sess.applied once known: "unknown", TRUE or FALSE
    expired,    \* the timeout of the session has passed
    ctxDone,    \* the context is done: expired or cancelled
    done,       \* sess.done is closed
    owner,      \* where the owner is, see Owners
    watchdog,   \* "wait", "getpgid", "kill", "exit"
    target,     \* thread |-> what its killGroup is about to signal
    home        \* the throwaway directory exists

procs   == <<leader, member, daemon, stranger, hit, confined>>
host    == <<path, landlock>>
report  == <<line, marker, applied>>
timing  == <<expired, ctxDone, done>>
vars == <<host, procs, report, timing, owner, watchdog, target, home>>

Owners == {"applied", "use", "stop", "getpgid", "kill", "cancel", "wait",
           "drain", "remove", "closed"}

Threads == {"owner", "watchdog"}

Init ==
    /\ path \in {"startIn", "start"} /\ landlock \in BOOLEAN
    /\ leader = IF path = "startIn" THEN "trampoline" ELSE "server"
    /\ member = "none" /\ daemon = FALSE /\ stranger = FALSE /\ hit = FALSE
    /\ confined \in IF path = "startIn" THEN {FALSE} ELSE BOOLEAN
    /\ line = "none"
    /\ marker = "read"
    /\ applied = IF path = "startIn" THEN "unknown"
                 ELSE IF confined THEN "true" ELSE "false"
    /\ expired = FALSE /\ ctxDone = FALSE /\ done = FALSE
    /\ owner = "applied" /\ watchdog = "wait"
    /\ target = [t \in Threads |-> "none"]
    /\ home = TRUE

Alive == leader \in {"trampoline", "server"}

-----------------------------------------------------------------------------
(***************************************************************************)
(* The trampoline (RunSandboxChild): restrict, write the marker, exec.     *)
(***************************************************************************)

\* Malformed arguments or a failing setrlimit: one other line, then exit.
SetupFails ==
    /\ leader = "trampoline" /\ line = "none"
    /\ line' = "other" /\ leader' = "zombie"
    /\ UNCHANGED <<host, member, daemon, stranger, hit, confined, marker, applied,
                   timing, owner, watchdog, target, home>>

\* applyLandlock: an error is reported on a line before the marker; the marker
\* is true when the strict check passes, or when it cannot be made because
\* MkdirTemp fails, which a kernel without Landlock does not prevent.
Enforceable == {FALSE, landlock}

Restrict_MarksEarly ==
    /\ leader = "trampoline" /\ line = "none"
    /\ \/ line' = "other" /\ confined' = FALSE
       \/ line' = "true" /\ confined' \in Enforceable
    /\ UNCHANGED <<host, leader, member, daemon, stranger, hit, marker, applied,
                   timing, owner, watchdog, target, home>>
Restrict ==
    /\ leader = "trampoline" /\ line = "none"
    /\ \/ line' \in {"other", "false"} /\ confined' \in Enforceable
       \/ line' = "true" /\ confined' = landlock
    /\ UNCHANGED <<host, leader, member, daemon, stranger, hit, marker, applied,
                   timing, owner, watchdog, target, home>>

\* syscall.Exec replaces the trampoline by the server, or fails.
Exec ==
    /\ leader = "trampoline" /\ line # "none"
    /\ leader' \in {"server", "zombie"}
    /\ UNCHANGED <<host, member, daemon, stranger, hit, confined, report, timing,
                   owner, watchdog, target, home>>

Trampoline == SetupFails \/ Restrict \/ Exec

(***************************************************************************)
(* The server and its descendants, and the kernel's reuse of pids: a       *)
(* number is free when no process and no group has it.                     *)
(***************************************************************************)
Forks ==
    /\ leader = "server" /\ member = "none"
    /\ member' = "alive"
    /\ UNCHANGED <<host, leader, daemon, stranger, hit, confined, report, timing,
                   owner, watchdog, target, home>>

LeavesGroup ==
    /\ ~daemon
    /\ leader = "server" \/ member = "alive"
    /\ daemon' = TRUE
    /\ UNCHANGED <<host, leader, member, stranger, hit, confined, report, timing,
                   owner, watchdog, target, home>>

Exits ==
    /\ \/ leader = "server" /\ leader' = "zombie" /\ UNCHANGED member
       \/ member = "alive" /\ member' = "dead" /\ UNCHANGED leader
    /\ UNCHANGED <<host, daemon, stranger, hit, confined, report, timing, owner,
                   watchdog, target, home>>

PidReused ==
    /\ leader = "reaped" /\ member # "alive" /\ ~stranger
    /\ stranger' = TRUE
    /\ UNCHANGED <<host, leader, member, daemon, hit, confined, report, timing,
                   owner, watchdog, target, home>>

Server == Forks \/ LeavesGroup \/ Exits

-----------------------------------------------------------------------------
(***************************************************************************)
(* killGroup, in the owner's Close or in the watchdog: Getpgid, then kill. *)
(***************************************************************************)

\* syscall.Getpgid(pid): a zombie still has its group; after the reaping the
\* call fails, or answers for whoever has the pid now.
Pgid_NotOfZombies == IF Alive THEN "group" ELSE "leader"
Pgid == IF leader # "reaped" THEN "group"
        ELSE IF stranger THEN "stranger" ELSE "leader"

GetPgid_Skipped(t) == UNCHANGED target
GetPgid(t) == target' = [target EXCEPT ![t] = Pgid]

\* syscall.Kill(-pgid, SIGKILL), or Process.Kill when Getpgid failed.
\* A group number can meanwhile have become the stranger's.
Signal(t) ==
    /\ leader' = IF Alive THEN "zombie" ELSE leader
    /\ member' = IF target[t] = "group" /\ member = "alive" THEN "dead" ELSE member
    /\ hit' = (hit \/ (stranger /\ target[t] \in {"group", "stranger"}))
    /\ target' = [target EXCEPT ![t] = "none"]
    /\ UNCHANGED <<host, daemon, stranger, confined>>

(***************************************************************************)
(* The timeout.  Its context also has a watcher inside os/exec, which      *)
(* kills the leader alone.                                                 *)
(***************************************************************************)
TimerFires ==
    /\ ~expired /\ ~ctxDone
    /\ expired' = TRUE /\ ctxDone' = TRUE
    /\ UNCHANGED <<host, procs, report, done, owner, watchdog, target, home>>

ExecKillsLeader ==
    /\ ctxDone /\ Alive
    /\ leader' = "zombie"
    /\ UNCHANGED <<host, member, daemon, stranger, hit, confined, report, timing,
                   owner, watchdog, target, home>>

\* The watchdog's select: with both channels ready either case may be taken.
WatchdogWakes ==
    /\ watchdog = "wait"
    /\ \/ ctxDone /\ watchdog' = "getpgid"
       \/ done /\ watchdog' = "exit"
    /\ UNCHANGED <<host, procs, report, timing, owner, target, home>>

WatchdogGetsPgid ==
    /\ watchdog = "getpgid" /\ watchdog' = "kill"
    /\ GetPgid("watchdog")
    /\ UNCHANGED <<host, procs, report, timing, owner, home>>

WatchdogKills ==
    /\ watchdog = "kill" /\ watchdog' = "exit"
    /\ Signal("watchdog")
    /\ UNCHANGED <<host, report, timing, owner, home>>

Watchdog == WatchdogWakes \/ WatchdogGetsPgid \/ WatchdogKills

-----------------------------------------------------------------------------
(***************************************************************************)
(* The marker goroutine reads the first line of stderr, or its end.        *)
(***************************************************************************)
StderrHeld == Alive \/ member = "alive" \/ daemon

ReadMarker ==
    /\ path = "startIn" /\ marker = "read"
    /\ line # "none" \/ ~StderrHeld
    /\ marker' = "drain"
    /\ UNCHANGED <<host, procs, line, applied, timing, owner, watchdog, target, home>>

(***************************************************************************)
(* The owner.                                                              *)
(***************************************************************************)

\* Applied() blocks on appliedCh; without a marker buildApplied (false) wins.
Applied ==
    /\ owner = "applied"
    /\ path = "startIn" => marker = "drain"
    /\ applied' = IF path = "startIn"
                  THEN IF line = "true" THEN "true" ELSE "false"
                  ELSE applied
    /\ owner' = "use"
    /\ UNCHANGED <<host, procs, line, marker, timing, watchdog, target, home>>

\* The exchange is over; Close begins: close(done), stdin.Close.
BeginClose ==
    /\ owner = "use"
    /\ owner' = "stop" /\ done' = TRUE
    /\ UNCHANGED <<host, procs, report, expired, ctxDone, watchdog, target, home>>

CloseGetsPgid ==
    /\ owner = "stop" /\ owner' = "kill"
    /\ GetPgid("owner")
    /\ UNCHANGED <<host, procs, report, timing, watchdog, home>>

CloseKills_LeaderOnly ==
    /\ owner = "kill" /\ owner' = "cancel"
    /\ leader' = IF Alive THEN "zombie" ELSE leader
    /\ target' = [target EXCEPT !["owner"] = "none"]
    /\ UNCHANGED <<host, member, daemon, stranger, hit, confined, report, timing,
                   watchdog, home>>
CloseKills ==
    /\ owner = "kill" /\ owner' = "cancel"
    /\ Signal("owner")
    /\ UNCHANGED <<host, report, timing, watchdog, home>>

Cancel ==
    /\ owner = "cancel" /\ owner' = "wait"
    /\ ctxDone' = TRUE
    /\ UNCHANGED <<host, procs, report, expired, done, watchdog, target, home>>

\* cmd.Wait reaps the leader ...
Reap_InBackground ==
    /\ leader = "zombie" /\ leader' = "reaped"
    /\ owner' = IF owner = "wait" THEN "drain" ELSE owner
    /\ UNCHANGED <<host, member, daemon, stranger, hit, confined, report, timing,
                   watchdog, target, home>>
Reap ==
    /\ owner = "wait" /\ leader = "zombie"
    /\ leader' = "reaped" /\ owner' = "drain"
    /\ UNCHANGED <<host, member, daemon, stranger, hit, confined, report, timing,
                   watchdog, target, home>>

\* ... and waits for the goroutine that copies stderr, if there is one.
WaitReturns_AlwaysCopies ==
    /\ owner = "drain" /\ owner' = "remove"
    /\ ~StderrHeld
    /\ UNCHANGED <<host, procs, report, timing, watchdog, target, home>>
WaitReturns ==
    /\ owner = "drain" /\ owner' = "remove"
    /\ path = "start" => ~StderrHeld
    /\ UNCHANGED <<host, procs, report, timing, watchdog, target, home>>

\* stdout.Close and RemoveAll.
RemoveHome ==
    /\ owner = "remove" /\ owner' = "closed"
    /\ home' = FALSE
    /\ UNCHANGED <<host, procs, report, timing, watchdog, target>>

Owner ==
    \/ Applied \/ CloseGetsPgid \/ CloseKills \/ Cancel \/ Reap
    \/ WaitReturns \/ RemoveHome

Next ==
    \/ Trampoline \/ Server \/ PidReused
    \/ TimerFires \/ ExecKillsLeader \/ Watchdog \/ ReadMarker
    \/ BeginClose \/ Owner

(***************************************************************************)
(* keelix's goroutines run and the timer fires.  Nothing is assumed of the *)
(* child processes.  The exchange over the session ends by itself only     *)
(* while no daemon holds its pipes (StdioTransport, ProbeEnds): a daemon   *)
(* that does not read stdin can block writeFrame, which has no deadline,   *)
(* and then Close is never called.                                         *)
(***************************************************************************)
Fairness ==
    /\ WF_vars(TimerFires) /\ WF_vars(ExecKillsLeader) /\ WF_vars(Watchdog)
    /\ WF_vars(ReadMarker) /\ WF_vars(Owner) /\ WF_vars(~daemon /\ BeginClose)

Spec == Init /\ [][Next]_vars /\ Fairness

-----------------------------------------------------------------------------
TypeOK ==
    /\ path \in {"startIn", "start"} /\ landlock \in BOOLEAN
    /\ leader \in {"trampoline", "server", "zombie", "reaped"}
    /\ member \in {"none", "alive", "dead"}
    /\ line \in {"none", "true", "false", "other"}
    /\ marker \in {"read", "drain"}
    /\ applied \in {"unknown", "true", "false"}
    /\ {daemon, stranger, hit, confined, expired, ctxDone, done, home} \subseteq BOOLEAN
    /\ owner \in Owners
    /\ watchdog \in {"wait", "getpgid", "kill", "exit"}
    /\ target \in [Threads -> {"none", "group", "stranger", "leader"}]
    /\ owner = "kill" => target["owner"] # "none"
    /\ watchdog = "kill" => target["watchdog"] # "none"

\* Session.Close: when it returns the leader is reaped, no process of the
\* group is left, and the throwaway directory is gone, whoever killed whom
\* first (deadline, own exit, Close).
GroupGone == owner = "closed" => leader = "reaped" /\ member # "alive" /\ ~home

\* Session.Applied and MCPServerProbe.SandboxApplied: on a kernel with
\* Landlock, TRUE is reported only of a server that runs confined.
AppliedHonest ==
    (landlock /\ applied = "true" /\ leader = "server") => confined

\* The watchdog of startIn and Start: after the deadline it leaves no process
\* of the group, even if the leader exited, or os/exec killed it, before.
DeadlineKillsGroup ==
    (watchdog = "exit" /\ ~done) => ~Alive /\ member # "alive"

\* killGroup, called from Close: it signals only processes of the session.
\* (The watchdog's own call may come after the reaping.)
CloseSparesStrangers == [][hit' # hit => watchdog = "kill"]_vars

\* Applied() does not block for ever; a session that no daemon outside the
\* group keeps open is closed; and a Close that was called returns whatever a
\* daemon holds, where os/exec copies no stderr (path "startIn").
SessionEnds ==
    /\ <>(owner # "applied")
    /\ []~daemon => <>(owner = "closed")
    /\ []((done /\ path = "startIn") => <>(owner = "closed"))
=============================================================================
