--------------------------- MODULE StdioTransport ---------------------------
(***************************************************************************)
(* JSON-RPC over the stdin and stdout of one sandboxed MCP server          *)
(* (internal/mcpprobe/transport.go, StdioTransport) as discover and        *)
(* probeOne use it: calls one after the other, the first error ends them,  *)
(* and Close always follows.                                               *)
(*                                                                         *)
(* Two goroutines share the channel `lines` (capacity 1): the caller, in   *)
(* Send, notify or Close, and the reader, which owns the Scanner.  The     *)
(* server is untrusted: it may write any line at any time, answer calls    *)
(* that were never made, stop reading, close either pipe, exit, or leave   *)
(* a daemon outside its process group.  The session's watchdog kills the   *)
(* group when the time of the probe is over; Session has that side in      *)
(* detail, here sess.Close() is one step.                                  *)
(***************************************************************************)
EXTENDS Naturals, Sequences

CONSTANTS MaxCalls,   \* bound on calls: initialize and the tools/list pages
          MaxLines    \* bound on the lines the server writes

ASSUME CallsAssumption == MaxCalls \in Nat \ {0}
ASSUME LinesAssumption == MaxLines \in Nat

(***************************************************************************)
(* Lines of stdout by what Send makes of them: a reply with its id and     *)
(* whether it carries a result; one that Send skips whatever it waits for  *)
(* (blank, not JSON, no id); one longer than lineCap.  End is the          *)
(* scanResult with err set: io.EOF or the Scanner's error.                 *)
(***************************************************************************)
Reply(i, ok) == [kind |-> "reply", id |-> i, ok |-> ok]
Skip == [kind |-> "skip", id |-> 0, ok |-> FALSE]
Long == [kind |-> "long", id |-> 0, ok |-> FALSE]
End == [kind |-> "end", id |-> 0, ok |-> FALSE]

Lines == {Reply(i, ok) : i \in 1..MaxCalls, ok \in BOOLEAN} \cup {Skip, Long}

VARIABLES
    stdin,      \* "reads", "full" (a Write blocks) or "closed"
    outOpen,    \* some process holds the write end of stdout
    daemon,     \* a process outside the group holds both pipes
    pipe,       \* lines written and not scanned yet
    sessClosed, \* sess.Close() has returned
    lines,      \* the channel
    quit,       \* closed by Close
    reader,     \* "scan", "offer", "end", or "done": readerDone is closed
    held,       \* the line the reader offers, a sequence of length 0 or 1
    caller,     \* where the caller is, see Callers
    id,         \* t.id
    failed,     \* the last Send or notify returned an error
    written,    \* history: every line the server wrote
    consumed,   \* history: everything Send took from the channel
    answered    \* history: the calls that returned a result

server == <<stdin, outOpen, daemon>>
chan   == <<lines, quit>>
call   == <<caller, id, failed>>
vars == <<server, pipe, sessClosed, chan, reader, held, call,
          written, consumed, answered>>

Callers == {"idle", "write", "wait", "notify", "close", "sess", "join", "closed"}

Init ==
    /\ stdin = "reads" /\ outOpen = TRUE /\ daemon = FALSE
    /\ pipe = <<>> /\ sessClosed = FALSE
    /\ lines = <<>> /\ quit = FALSE
    /\ reader = "scan" /\ held = <<>>
    /\ caller = "idle" /\ id = 0 /\ failed = FALSE
    /\ written = <<>> /\ consumed = <<>> /\ answered = {}

\* killGroup: a daemon keeps the pipes of its group open.
Kill ==
    /\ stdin' = IF daemon THEN stdin ELSE "closed"
    /\ outOpen' = (outOpen /\ daemon)
    /\ UNCHANGED daemon

-----------------------------------------------------------------------------
(***************************************************************************)
(* The reader goroutine started by NewStdioTransportCapped.                *)
(***************************************************************************)

Cap == 1

\* Scan returns a line.  What the Scanner has buffered is still delivered
\* after the session closed.
ScanLine ==
    /\ reader = "scan" /\ pipe # <<>> /\ Head(pipe).kind # "long"
    /\ reader' = "offer"
    /\ held' = <<Head(pipe)>>
    /\ pipe' = Tail(pipe)
    /\ UNCHANGED <<server, sessClosed, chan, call, written, consumed, answered>>

\* Scan returns false.
ScanEnds ==
    /\ reader = "scan"
    /\ \/ sessClosed
       \/ pipe = <<>> /\ ~outOpen
       \/ pipe # <<>> /\ Head(pipe).kind = "long"
    /\ reader' = "end"
    /\ UNCHANGED <<server, pipe, sessClosed, chan, held, call, written,
                   consumed, answered>>

\* select: the channel takes the line ...
Offer_DropsWhenFull ==
    /\ reader = "offer"
    /\ lines' = IF Len(lines) < Cap THEN lines \o held ELSE lines
    /\ reader' = "scan" /\ held' = <<>>
    /\ UNCHANGED <<server, pipe, sessClosed, quit, call, written, consumed,
                   answered>>
Offer ==
    /\ reader = "offer" /\ Len(lines) < Cap
    /\ lines' = lines \o held
    /\ reader' = "scan" /\ held' = <<>>
    /\ UNCHANGED <<server, pipe, sessClosed, quit, call, written, consumed,
                   answered>>

\* ... or quit was closed.
OfferQuits ==
    /\ reader = "offer" /\ quit
    /\ reader' = "done" /\ held' = <<>>
    /\ UNCHANGED <<server, pipe, sessClosed, chan, call, written, consumed,
                   answered>>

\* The terminal result is sent without blocking: dropped when lines is full.
Finish ==
    /\ reader = "end"
    /\ reader' = "done"
    /\ lines' = IF Len(lines) < Cap THEN Append(lines, End) ELSE lines
    /\ UNCHANGED <<server, pipe, sessClosed, quit, held, call, written,
                   consumed, answered>>

Reader == ScanLine \/ ScanEnds \/ Offer \/ OfferQuits \/ Finish

-----------------------------------------------------------------------------
(***************************************************************************)
(* The caller: discover's calls, then the deferred Close of probeOne.      *)
(***************************************************************************)

\* discover makes its next call, unless the previous one failed.
Call ==
    /\ caller = "idle" /\ ~failed /\ id < MaxCalls
    /\ caller' = "write" /\ id' = id + 1
    /\ UNCHANGED <<server, pipe, sessClosed, chan, reader, held, failed,
                   written, consumed, answered>>

\* writeFrame; initialize is followed by a notification, which has no reply.
FrameWritten ==
    /\ caller \in {"write", "notify"} /\ stdin = "reads"
    /\ caller' = IF caller = "write" THEN "wait" ELSE "idle"
    /\ UNCHANGED <<server, pipe, sessClosed, chan, reader, held, id, failed,
                   written, consumed, answered>>

WriteFails ==
    /\ caller \in {"write", "notify"} /\ stdin = "closed"
    /\ caller' = "idle" /\ failed' = TRUE
    /\ UNCHANGED <<server, pipe, sessClosed, chan, reader, held, id, written,
                   consumed, answered>>

\* Whether the line sr is the reply Send waits for.
IsReply_Any(sr) == sr.kind = "reply"
IsReply(sr) == sr.kind = "reply" /\ sr.id = id

\* Send takes a line from the channel and returns, or skips it and goes on.
Receive ==
    /\ caller = "wait" /\ lines # <<>>
    /\ LET sr == Head(lines) IN
        /\ consumed' = Append(consumed, sr)
        /\ \/ /\ sr.kind = "end" \/ (IsReply(sr) /\ ~sr.ok)
              /\ caller' = "idle" /\ failed' = TRUE
              /\ UNCHANGED answered
           \/ /\ IsReply(sr) /\ sr.ok
              /\ caller' = IF id = 1 THEN "notify" ELSE "idle"
              /\ answered' = answered \cup {id}
              /\ UNCHANGED failed
           \/ /\ sr.kind # "end" /\ ~IsReply(sr)
              /\ UNCHANGED <<caller, failed, answered>>
    /\ lines' = Tail(lines)
    /\ UNCHANGED <<server, pipe, sessClosed, quit, reader, held, id, written>>

\* The timer of Send fires: it closes the session and returns an error.
Deadline ==
    /\ caller = "wait"
    /\ caller' = "idle" /\ failed' = TRUE
    /\ Kill /\ sessClosed' = TRUE
    /\ UNCHANGED <<pipe, chan, reader, held, id, written, consumed, answered>>

\* discover returns: after an error, a bad result, or the last page.
DiscoverReturns ==
    /\ caller = "idle" /\ id > 0
    /\ caller' = "close"
    /\ UNCHANGED <<server, pipe, sessClosed, chan, reader, held, id, failed,
                   written, consumed, answered>>

\* Close: close(quit), unless it is closed already ...
CloseQuit_Forgets ==
    /\ caller = "close"
    /\ caller' = "sess"
    /\ UNCHANGED <<server, pipe, sessClosed, chan, reader, held, id, failed,
                   written, consumed, answered>>
CloseQuit ==
    /\ caller = "close"
    /\ caller' = "sess" /\ quit' = TRUE
    /\ UNCHANGED <<server, pipe, sessClosed, lines, reader, held, id, failed,
                   written, consumed, answered>>

\* ... sess.Close() ...
CloseSession_WithoutJoin ==
    /\ caller = "sess"
    /\ caller' = "closed"
    /\ Kill /\ sessClosed' = TRUE
    /\ UNCHANGED <<pipe, chan, reader, held, id, failed, written, consumed,
                   answered>>
CloseSession ==
    /\ caller = "sess"
    /\ caller' = "join"
    /\ Kill /\ sessClosed' = TRUE
    /\ UNCHANGED <<pipe, chan, reader, held, id, failed, written, consumed,
                   answered>>

\* ... and <-readerDone.
Join ==
    /\ caller = "join" /\ reader = "done"
    /\ caller' = "closed"
    /\ UNCHANGED <<server, pipe, sessClosed, chan, reader, held, id, failed,
                   written, consumed, answered>>

Caller ==
    \/ Call \/ FrameWritten \/ WriteFails \/ Receive \/ DiscoverReturns
    \/ CloseQuit \/ CloseSession \/ Join

-----------------------------------------------------------------------------
(***************************************************************************)
(* The server and the watchdog.                                            *)
(***************************************************************************)
ServerWrites ==
    /\ outOpen /\ Len(written) < MaxLines
    /\ \E l \in Lines : pipe' = Append(pipe, l) /\ written' = Append(written, l)
    /\ UNCHANGED <<server, sessClosed, chan, reader, held, call, consumed, answered>>

ServerStopsReading ==
    /\ stdin = "reads" /\ stdin' = "full"
    /\ UNCHANGED <<outOpen, daemon, pipe, sessClosed, chan, reader, held, call,
                   written, consumed, answered>>

ServerReadsAgain ==
    /\ stdin = "full" /\ stdin' = "reads"
    /\ UNCHANGED <<outOpen, daemon, pipe, sessClosed, chan, reader, held, call,
                   written, consumed, answered>>

ServerClosesStdin ==
    /\ stdin # "closed" /\ stdin' = "closed"
    /\ UNCHANGED <<outOpen, daemon, pipe, sessClosed, chan, reader, held, call,
                   written, consumed, answered>>

ServerClosesStdout ==
    /\ outOpen /\ outOpen' = FALSE
    /\ UNCHANGED <<stdin, daemon, pipe, sessClosed, chan, reader, held, call,
                   written, consumed, answered>>

ServerDaemonizes ==
    /\ ~daemon /\ outOpen /\ stdin # "closed"
    /\ daemon' = TRUE
    /\ UNCHANGED <<stdin, outOpen, pipe, sessClosed, chan, reader, held, call,
                   written, consumed, answered>>

\* The server exits, or the watchdog of the session kills its group.
Watchdog ==
    /\ stdin # "closed" \/ outOpen
    /\ Kill
    /\ UNCHANGED <<pipe, sessClosed, chan, reader, held, call, written,
                   consumed, answered>>

Server ==
    \/ ServerWrites \/ ServerStopsReading \/ ServerReadsAgain
    \/ ServerClosesStdin \/ ServerClosesStdout \/ ServerDaemonizes

Next == Reader \/ Caller \/ Deadline \/ Server \/ Watchdog

(***************************************************************************)
(* Goroutines that can run do run, and timers fire.  The server owes       *)
(* nothing.                                                                *)
(***************************************************************************)
Fairness ==
    /\ WF_vars(Reader) /\ WF_vars(Caller)
    /\ WF_vars(Deadline) /\ WF_vars(Watchdog)

Spec == Init /\ [][Next]_vars /\ Fairness

-----------------------------------------------------------------------------
(***************************************************************************)
(* Properties.                                                             *)
(***************************************************************************)
TypeOK ==
    /\ stdin \in {"reads", "full", "closed"}
    /\ outOpen \in BOOLEAN /\ daemon \in BOOLEAN /\ sessClosed \in BOOLEAN
    /\ pipe \in Seq(Lines) /\ written \in Seq(Lines)
    /\ lines \in Seq(Lines \cup {End}) /\ Len(lines) <= Cap
    /\ consumed \in Seq(Lines \cup {End})
    /\ quit \in BOOLEAN /\ failed \in BOOLEAN
    /\ reader \in {"scan", "offer", "end", "done"}
    /\ held \in Seq(Lines) /\ Len(held) <= 1
    /\ caller \in Callers
    /\ id \in 0..MaxCalls
    /\ answered \subseteq 1..MaxCalls

\* The lines among the results that the reader sent, End being the last one.
LinesOf(rs) ==
    IF rs # <<>> /\ rs[Len(rs)] = End THEN SubSeq(rs, 1, Len(rs) - 1) ELSE rs

\* Until Close, the reader and the channel lose, repeat or reorder no line:
\* what Send took, what is queued, what the reader holds and what is still
\* in the pipe are, in this order, what the server wrote; and the reader sends
\* nothing after End.
NothingLost ==
    ~quit => LinesOf(consumed \o lines) \o held \o pipe = written

\* A call that returned a result was answered by a reply to that very call,
\* whatever stale or early replies the server sends (the id check of Send).
AnswersMatch ==
    \A i \in answered : \E n \in 1..Len(consumed) : consumed[n] = Reply(i, TRUE)

\* Close: once it has returned the session is closed and no reader goroutine
\* lingers.
CloseJoins == caller = "closed" => sessClosed /\ reader = "done"

\* defaultProbeTimeout: whatever the server does, short of leaving a daemon
\* that holds its pipes outside the group keelix kills, the probe of a server
\* ends with Close returned and the reader joined.
ProbeEnds == []~daemon => <>(caller = "closed")
=============================================================================
