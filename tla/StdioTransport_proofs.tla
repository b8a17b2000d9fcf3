----------------------- MODULE StdioTransport_proofs ------------------------
(***************************************************************************)
(* Theorems about StdioTransport, for any number of calls and of lines.    *)
(***************************************************************************)
EXTENDS StdioTransport, TLAPS

\* The safety part of the specification.
LEMMA Safety == Spec => Init /\ [][Next]_vars
BY PTL DEF Spec

Items == Lines \cup {End}

\* What a line is, without its elements.
LEMMA LineTypes ==
    /\ Lines \subseteq Items /\ End \in Items
    /\ \A l \in Items : l.kind = "reply" /\ l.ok => l = Reply(l.id, TRUE)
    /\ \A l \in Items : l.kind \notin {"long", "end"} => l \in Lines
BY DEF Items, Lines, Reply, Skip, Long, End

\* A step of a sequence keeps its type.
LEMMA Sequence ==
    ASSUME NEW S, NEW s \in Seq(S)
    PROVE  /\ \A e \in S : Append(s, e) \in Seq(S) /\ Len(Append(s, e)) = Len(s) + 1
           /\ s # <<>> => Head(s) \in S /\ Tail(s) \in Seq(S) /\ Len(Tail(s)) = Len(s) - 1
           /\ Len(s) \in Nat
OBVIOUS

-----------------------------------------------------------------------------
(***************************************************************************)
(* TypeOK: every variable keeps its type, the channel its capacity.        *)
(***************************************************************************)
LEMMA TypeInit == Init => TypeOK
<1> SUFFICES ASSUME Init PROVE TypeOK
  OBVIOUS
<1>1. \A S : <<>> \in Seq(S) /\ Len(<<>>) = 0
  OBVIOUS
<1>2. outOpen \in BOOLEAN /\ daemon \in BOOLEAN /\ sessClosed \in BOOLEAN
      /\ quit \in BOOLEAN /\ failed \in BOOLEAN
  BY DEF Init
<1>3. pipe \in Seq(Lines) /\ written \in Seq(Lines) /\ consumed \in Seq(Lines \cup {End})
  BY <1>1 DEF Init
<1>4. lines \in Seq(Lines \cup {End}) /\ Len(lines) <= Cap /\ held \in Seq(Lines) /\ Len(held) <= 1
  BY <1>1 DEF Init, Cap
<1>5. id \in 0..MaxCalls /\ answered \subseteq 1..MaxCalls
  BY CallsAssumption DEF Init
<1> QED BY <1>2, <1>3, <1>4, <1>5 DEF Init, TypeOK, Callers

LEMMA ReaderTyped == TypeOK /\ Reader => TypeOK'
<1> SUFFICES ASSUME TypeOK, Reader PROVE TypeOK'
  OBVIOUS
<1> USE DEF server, chan, call
<1>1. CASE ScanLine
  <2>1. Head(pipe) \in Lines /\ Tail(pipe) \in Seq(Lines)
    BY <1>1, Sequence DEF ScanLine, TypeOK
  <2>2. held' \in Seq(Lines) /\ Len(held') <= 1
    BY <1>1, <2>1 DEF ScanLine
  <2>3. pipe' \in Seq(Lines) /\ reader' = "offer"
    BY <1>1, <2>1 DEF ScanLine
  <2> QED BY <1>1, <2>2, <2>3 DEF ScanLine, TypeOK
<1>2. CASE ScanEnds
  BY <1>2 DEF ScanEnds, TypeOK
<1>5. CASE OfferQuits
  <2>1. held' \in Seq(Lines) /\ Len(held') <= 1
    BY <1>5 DEF OfferQuits
  <2> QED BY <1>5, <2>1 DEF OfferQuits, TypeOK
<1>3. CASE Offer
  <2>1. held \in Seq(Items) /\ lines \in Seq(Items) /\ Len(lines) = 0
    BY <1>3, LineTypes DEF Offer, TypeOK, Cap, Items
  <2>2. lines' \in Seq(Items) /\ Len(lines') <= Cap
    BY <1>3, <2>1 DEF Offer, TypeOK, Cap
  <2> QED BY <1>3, <2>2 DEF Offer, TypeOK, Items
<1>4. CASE Finish
  <2>1. lines' \in Seq(Items) /\ Len(lines') <= Cap
    BY <1>4, LineTypes, Sequence DEF Finish, TypeOK, Cap, Items
  <2> QED BY <1>4, <2>1 DEF Finish, TypeOK, Items
<1> QED BY <1>1, <1>2, <1>3, <1>4, <1>5 DEF Reader

LEMMA ReceiveTyped == TypeOK /\ Receive => TypeOK'
<1> SUFFICES ASSUME TypeOK, Receive PROVE TypeOK'
  OBVIOUS
<1> USE DEF server, chan, call
<1>1. lines \in Seq(Items) /\ consumed \in Seq(Items)
  BY DEF TypeOK, Items
<1>2. Head(lines) \in Items /\ lines' \in Seq(Items) /\ Len(lines') <= Cap
  BY <1>1, Sequence DEF Receive, TypeOK, Cap
<1>3. consumed' \in Seq(Items)
  BY <1>1, <1>2, Sequence DEF Receive
<1>4. Head(lines).kind = "reply" => Head(lines).id \in 1..MaxCalls
  BY <1>2 DEF Items, Lines, Reply, Skip, Long, End
<1>5. answered' \subseteq 1..MaxCalls
  BY <1>4 DEF Receive, IsReply, TypeOK
<1>6. caller' \in Callers /\ failed' \in BOOLEAN
  BY DEF Receive, Callers, TypeOK
<1> QED BY <1>2, <1>3, <1>5, <1>6 DEF Receive, TypeOK, Items

LEMMA CallerTyped == TypeOK /\ (Caller \/ Deadline) => TypeOK'
<1> SUFFICES ASSUME TypeOK, Caller \/ Deadline PROVE TypeOK'
  OBVIOUS
<1> USE CallsAssumption DEF server, chan, call, Callers, Kill
<1>1. CASE Call
  <2>1. id' \in 0..MaxCalls
    BY <1>1 DEF Call, TypeOK
  <2> QED BY <1>1, <2>1 DEF Call, TypeOK
<1>2. CASE FrameWritten
  BY <1>2 DEF FrameWritten, TypeOK
<1>3. CASE WriteFails
  BY <1>3 DEF WriteFails, TypeOK
<1>4. CASE DiscoverReturns \/ CloseQuit \/ CloseSession \/ Join
  BY <1>4 DEF DiscoverReturns, CloseQuit, CloseSession, Join, TypeOK
<1>5. CASE Deadline
  BY <1>5 DEF Deadline, TypeOK
<1> QED BY <1>1, <1>2, <1>3, <1>4, <1>5, ReceiveTyped DEF Caller

LEMMA ServerTyped == TypeOK /\ (Server \/ Watchdog) => TypeOK'
<1> SUFFICES ASSUME TypeOK, Server \/ Watchdog PROVE TypeOK'
  OBVIOUS
<1> USE DEF server, chan, call, Kill
<1>1. CASE ServerWrites
  BY <1>1, Sequence DEF ServerWrites, TypeOK
<1>2. CASE ServerStopsReading \/ ServerReadsAgain \/ ServerClosesStdin
           \/ ServerClosesStdout \/ ServerDaemonizes \/ Watchdog
  BY <1>2 DEF ServerStopsReading, ServerReadsAgain, ServerClosesStdin,
              ServerClosesStdout, ServerDaemonizes, Watchdog, TypeOK
<1> QED BY <1>1, <1>2 DEF Server

LEMMA TypeNext == TypeOK /\ [Next]_vars => TypeOK'
<1> SUFFICES ASSUME TypeOK, UNCHANGED vars PROVE TypeOK'
  BY ReaderTyped, CallerTyped, ServerTyped DEF Next
<1> QED BY DEF TypeOK, vars, server, chan, call

(***************************************************************************)
(* Whatever the server does, every variable keeps its type and the channel *)
(* of the reader never holds more than its capacity (transport.go).        *)
(***************************************************************************)
THEOREM TypeCorrect == Spec => []TypeOK
BY TypeInit, TypeNext, Safety, PTL

-----------------------------------------------------------------------------
(***************************************************************************)
(* CloseJoins: once Close has returned the session is closed and the       *)
(* reader is gone (Close waits for readerDone).                            *)
(***************************************************************************)
Closing ==
    /\ caller \in {"join", "closed"} => sessClosed
    /\ caller = "closed" => reader = "done"

LEMMA ClosingNext == TypeOK /\ Closing /\ [Next]_vars => Closing'
<1> SUFFICES ASSUME TypeOK, Closing, [Next]_vars PROVE Closing'
  OBVIOUS
<1> USE DEF Closing, server, chan, call
<1>1. CASE Reader
  BY <1>1 DEF Reader, ScanLine, ScanEnds, Offer, OfferQuits, Finish
<1>2. CASE Receive
  BY <1>2 DEF Receive
<1>3. CASE Call \/ FrameWritten \/ WriteFails \/ DiscoverReturns \/ CloseQuit
  BY <1>3 DEF Call, FrameWritten, WriteFails, DiscoverReturns, CloseQuit
<1>4. CASE CloseSession \/ Join \/ Deadline
  BY <1>4 DEF CloseSession, Join, Deadline
<1>5. CASE Server
  BY <1>5 DEF Server, ServerWrites, ServerStopsReading, ServerReadsAgain,
              ServerClosesStdin, ServerClosesStdout, ServerDaemonizes
<1>6. CASE Watchdog
  BY <1>6 DEF Watchdog
<1>7. CASE UNCHANGED vars
  BY <1>7 DEF vars
<1> QED BY <1>1, <1>2, <1>3, <1>4, <1>5, <1>6, <1>7 DEF Next, Caller

\* CloseJoins: once Close has returned the session is closed and its reader goroutine
\* has ended (stdioTransport.Close), whatever the server still holds.
THEOREM CloseWaits == Spec => []CloseJoins
<1>1. Init => Closing
  BY DEF Init, Closing
<1>2. Closing => CloseJoins
  BY DEF Closing, CloseJoins
<1> QED BY <1>1, <1>2, ClosingNext, TypeCorrect, Safety, PTL

-----------------------------------------------------------------------------
(***************************************************************************)
(* AnswersMatch: a result that Send returned was in a reply with the id of *)
(* that very call, whatever replies the server sent before or after.       *)
(***************************************************************************)
LEMMA MatchNext == TypeOK /\ AnswersMatch /\ [Next]_vars => AnswersMatch'
<1> SUFFICES ASSUME TypeOK, AnswersMatch, [Next]_vars PROVE AnswersMatch'
  OBVIOUS
<1>1. CASE Receive
  <2>1. /\ consumed \in Seq(Items) /\ Head(lines) \in Items
        /\ consumed' = Append(consumed, Head(lines))
    BY <1>1, Sequence DEF Receive, TypeOK, Items
  <2>2. /\ \A n \in 1..Len(consumed) : consumed'[n] = consumed[n]
        /\ consumed'[Len(consumed) + 1] = Head(lines)
        /\ Len(consumed') = Len(consumed) + 1 /\ Len(consumed) \in Nat
    BY <2>1
  <2>3. \A i \in answered : \E n \in 1..Len(consumed') : consumed'[n] = Reply(i, TRUE)
    <3> SUFFICES ASSUME NEW i \in answered
                 PROVE  \E n \in 1..Len(consumed') : consumed'[n] = Reply(i, TRUE)
      OBVIOUS
    <3>1. PICK n \in 1..Len(consumed) : consumed[n] = Reply(i, TRUE)
      BY DEF AnswersMatch
    <3>2. n \in 1..Len(consumed')
      BY <2>2
    <3>3. consumed'[n] = consumed[n]
      BY <2>2
    <3> QED BY <3>1, <3>2, <3>3
  <2>4. CASE answered' = answered
    BY <2>3, <2>4 DEF AnswersMatch
  <2>5. CASE answered' # answered
    <3>1. /\ answered' = answered \cup {id}
          /\ Head(lines).kind = "reply" /\ Head(lines).id = id /\ Head(lines).ok
      BY <1>1, <2>5 DEF Receive, IsReply
    <3>2. Head(lines) = Reply(id, TRUE)
      BY <2>1, <3>1, LineTypes
    <3>3. Len(consumed) + 1 \in 1..Len(consumed')
      BY <2>2
    <3>4. consumed'[Len(consumed) + 1] = Reply(id, TRUE)
      BY <2>2, <3>2
    <3> QED BY <2>3, <3>1, <3>3, <3>4 DEF AnswersMatch
  <2> QED BY <2>4, <2>5
<1>2. CASE ~Receive
  <2>1. UNCHANGED <<consumed, answered>>
    <3> USE DEF server, chan, call
    <3>1. CASE Reader
      BY <3>1 DEF Reader, ScanLine, ScanEnds, Offer, OfferQuits, Finish
    <3>2. CASE Caller \/ Deadline
      BY <1>2, <3>2 DEF Caller, Call, FrameWritten, WriteFails, DiscoverReturns,
                        CloseQuit, CloseSession, Join, Deadline
    <3>3. CASE Server \/ Watchdog
      BY <3>3 DEF Server, ServerWrites, ServerStopsReading, ServerReadsAgain,
                  ServerClosesStdin, ServerClosesStdout, ServerDaemonizes, Watchdog
    <3>4. CASE UNCHANGED vars
      BY <3>4 DEF vars
    <3> QED BY <3>1, <3>2, <3>3, <3>4 DEF Next
  <2> QED BY <2>1 DEF AnswersMatch
<1> QED BY <1>1, <1>2

\* AnswersMatch: Send returns a result only for a reply with the id of that very call,
\* however many stale or early replies a server sends.
THEOREM RepliesAreOwn == Spec => []AnswersMatch
<1>1. Init => AnswersMatch
  BY DEF Init, AnswersMatch
<1> QED BY <1>1, MatchNext, TypeCorrect, Safety, PTL

-----------------------------------------------------------------------------
(***************************************************************************)
(* NothingLost: until Close no line is lost, repeated or reordered.  The   *)
(* reader holds a line only while it offers it, and has not sent End       *)
(* before it is done.                                                      *)
(***************************************************************************)
ReaderInv ==
    /\ reader # "offer" => held = <<>>
    /\ reader # "done" => consumed \in Seq(Lines) /\ lines \in Seq(Lines)

LinesInv == ReaderInv /\ NothingLost

\* Taking the head of a queue for the end of a log changes their sum nowhere.
LEMMA MoveHead ==
    ASSUME NEW S, NEW s \in Seq(S), NEW t \in Seq(S), t # <<>>
    PROVE  Append(s, Head(t)) \o Tail(t) = s \o t
OBVIOUS

\* Appending to the end of a sum appends to its last part.
LEMMA AppendToSum ==
    ASSUME NEW S, NEW s \in Seq(S), NEW t \in Seq(S), NEW e \in S
    PROVE  Append(s \o t, e) = s \o Append(t, e)
OBVIOUS

LEMMA HeadThenTail ==
    ASSUME NEW S, NEW s \in Seq(S), s # <<>>
    PROVE  <<Head(s)>> \o Tail(s) = s
OBVIOUS

LEMMA SumIsAssociative ==
    ASSUME NEW S, NEW s \in Seq(S), NEW t \in Seq(S), NEW u \in Seq(S)
    PROVE  (s \o t) \o u = s \o (t \o u)
OBVIOUS

\* LinesOf takes End off, and nothing else.
LEMMA LinesOfLines == \A s \in Seq(Lines) : LinesOf(s) = s /\ LinesOf(Append(s, End)) = s
<1> SUFFICES ASSUME NEW s \in Seq(Lines)
             PROVE  LinesOf(s) = s /\ LinesOf(Append(s, End)) = s
  OBVIOUS
<1>1. End \notin Lines
  <2>1. \A l \in Lines : l.kind \in {"reply", "skip", "long"}
    BY DEF Lines, Reply, Skip, Long
  <2> QED BY <2>1 DEF End
<1>2. s # <<>> => s[Len(s)] \in Lines
  OBVIOUS
<1>3. ASSUME NEW e
      PROVE  /\ Append(s, e) # <<>> /\ Len(Append(s, e)) = Len(s) + 1
             /\ Append(s, e)[Len(s) + 1] = e
             /\ SubSeq(Append(s, e), 1, Len(s) + 1 - 1) = s
  OBVIOUS
<1>4. LinesOf(s) = s
  BY <1>1, <1>2 DEF LinesOf
<1>5. LinesOf(Append(s, End)) = s
  BY <1>3 DEF LinesOf
<1> QED BY <1>4, <1>5

\* No step changes what was written, except that the server writes more.
LEMMA LinesNext == TypeOK /\ LinesInv /\ [Next]_vars => LinesInv'
<1> SUFFICES ASSUME TypeOK, LinesInv, [Next]_vars PROVE LinesInv'
  OBVIOUS
<1> USE DEF LinesInv, ReaderInv, server, chan, call
<1>0. /\ consumed \in Seq(Items) /\ lines \in Seq(Items)
      /\ pipe \in Seq(Lines) /\ held \in Seq(Lines) /\ written \in Seq(Lines)
  BY DEF TypeOK, Items
<1>1. CASE ScanLine
  <2>1. held = <<>> /\ held' = <<Head(pipe)>> /\ pipe' = Tail(pipe) /\ pipe # <<>>
    BY <1>1 DEF ScanLine
  <2>2. held' \o pipe' = pipe
    BY <1>0, <2>1, HeadThenTail
  <2>3. LinesOf(consumed \o lines) \in Seq(Lines)
    <3>1. consumed \in Seq(Lines) /\ lines \in Seq(Lines)
      BY <1>1 DEF ScanLine
    <3>2. consumed \o lines \in Seq(Lines)
      BY <3>1
    <3> QED BY <3>2, LinesOfLines
  <2>4. (LinesOf(consumed \o lines) \o held') \o pipe'
          = LinesOf(consumed \o lines) \o (held' \o pipe')
    <3>1. held' \in Seq(Lines) /\ pipe' \in Seq(Lines)
      BY <1>0, <1>1, Sequence DEF ScanLine
    <3> QED BY <2>3, <3>1, SumIsAssociative
  <2>5. LinesOf(consumed \o lines) \o held = LinesOf(consumed \o lines)
    BY <2>1, <2>3
  <2> QED BY <1>1, <2>2, <2>4, <2>5 DEF ScanLine, NothingLost
<1>2. CASE Offer
  <2>1. /\ consumed \o lines \in Seq(Lines)
        /\ consumed \o lines' \in Seq(Lines)
        /\ consumed \o lines' = (consumed \o lines) \o held
    <3>1. consumed \in Seq(Lines) /\ lines \in Seq(Lines) /\ lines' = lines \o held
      BY <1>2 DEF Offer
    <3>2. lines' \in Seq(Lines)
      BY <1>0, <3>1
    <3>3. consumed \o lines \in Seq(Lines) /\ consumed \o lines' \in Seq(Lines)
      BY <3>1, <3>2
    <3>4. (consumed \o lines) \o held = consumed \o (lines \o held)
      BY <1>0, <3>1, SumIsAssociative
    <3> QED BY <3>1, <3>3, <3>4
  <2>2. LinesOf(consumed \o lines') \o held' = LinesOf(consumed \o lines) \o held
    <3>1. held' = <<>>
      BY <1>2 DEF Offer
    <3>2. LinesOf(consumed \o lines) = consumed \o lines
      BY <2>1, LinesOfLines
    <3>3. LinesOf(consumed \o lines') = consumed \o lines'
      BY <2>1, LinesOfLines
    <3>4. (consumed \o lines') \o held' = consumed \o lines'
      BY <2>1, <3>1
    <3> QED BY <2>1, <3>2, <3>3, <3>4
  <2>3. lines' \in Seq(Lines)
    BY <1>0, <1>2 DEF Offer
  <2> QED BY <1>2, <2>2, <2>3 DEF Offer, NothingLost
<1>3. CASE Finish
  <2>1. consumed \o lines \in Seq(Lines)
    BY <1>3 DEF Finish
  <2>2. consumed \o Append(lines, End) = Append(consumed \o lines, End)
    <3>1. End \in Items
      BY LineTypes
    <3> QED BY <1>0, <3>1, AppendToSum
  <2>3. LinesOf(consumed \o lines') = LinesOf(consumed \o lines)
    BY <1>3, <2>1, <2>2, LinesOfLines DEF Finish
  <2> QED BY <1>3, <2>3 DEF Finish, NothingLost
<1>4. CASE Receive
  <2>1. consumed' \o lines' = consumed \o lines
    BY <1>0, <1>4, MoveHead DEF Receive
  <2>2. reader # "done" => consumed' \in Seq(Lines) /\ lines' \in Seq(Lines)
    BY <1>4, Sequence DEF Receive
  <2>3. UNCHANGED <<reader, held, quit, pipe, written>>
    BY <1>4 DEF Receive
  <2> QED BY <2>1, <2>2, <2>3 DEF NothingLost
<1>5. CASE ServerWrites
  <2>1. ASSUME ~quit PROVE LinesOf(consumed \o lines) \o held \o pipe' = written'
    <3>1. PICK l \in Lines : pipe' = Append(pipe, l) /\ written' = Append(written, l)
      BY <1>5 DEF ServerWrites
    <3>2. LinesOf(consumed \o lines) \o held \in Seq(Items)
      <4>1. consumed \o lines \in Seq(Items)
        BY <1>0
      <4>2. LinesOf(consumed \o lines) \in Seq(Items)
        BY <4>1 DEF LinesOf
      <4> QED BY <1>0, <4>2, LineTypes
    <3>3. pipe \in Seq(Items) /\ l \in Items
      BY <1>0, LineTypes
    <3>4. (LinesOf(consumed \o lines) \o held) \o Append(pipe, l)
            = Append((LinesOf(consumed \o lines) \o held) \o pipe, l)
      BY <3>2, <3>3, AppendToSum
    <3>5. LinesOf(consumed \o lines) \o held \o pipe = written
      BY <2>1 DEF NothingLost
    <3> QED BY <3>1, <3>4, <3>5
  <2> QED BY <1>5, <2>1 DEF ServerWrites, NothingLost
<1>6. CASE ScanEnds
  BY <1>6 DEF ScanEnds, NothingLost
<1>7. CASE OfferQuits
  BY <1>7 DEF OfferQuits, NothingLost
<1>8. CASE Deadline \/ Call \/ FrameWritten \/ WriteFails \/ DiscoverReturns
           \/ CloseQuit \/ CloseSession \/ Join
  <2>1. UNCHANGED <<reader, held, consumed, lines, pipe, written>> /\ (quit => quit')
    BY <1>8 DEF Deadline, Call, FrameWritten, WriteFails, DiscoverReturns, CloseQuit,
                CloseSession, Join
  <2> QED BY <2>1 DEF NothingLost
<1>9. CASE Watchdog \/ ServerStopsReading \/ ServerReadsAgain \/ ServerClosesStdin
           \/ ServerClosesStdout \/ ServerDaemonizes \/ UNCHANGED vars
  <2>1. UNCHANGED <<reader, held, consumed, lines, pipe, written, quit>>
    BY <1>9 DEF Watchdog, ServerStopsReading, ServerReadsAgain, ServerClosesStdin,
                ServerClosesStdout, ServerDaemonizes, vars
  <2> QED BY <2>1 DEF NothingLost
<1> QED
  BY <1>1, <1>2, <1>3, <1>4, <1>5, <1>6, <1>7, <1>8, <1>9
     DEF Next, Reader, Caller, Server

\* NothingLost: what Send took, what is queued, held by the reader or in the pipe are,
\* in this order, what the server wrote, and nothing is sent after the end.
THEOREM NoLineIsLost == Spec => []NothingLost
<1>1. Init => LinesInv
  <2> SUFFICES ASSUME Init PROVE LinesInv
    OBVIOUS
  <2>1. <<>> \in Seq(Lines) /\ <<>> \o <<>> = <<>>
    OBVIOUS
  <2>2. LinesOf(<<>>) = <<>>
    BY DEF LinesOf
  <2> QED BY <2>1, <2>2 DEF Init, LinesInv, ReaderInv, NothingLost
<1>2. LinesInv => NothingLost
  BY DEF LinesInv
<1> QED BY <1>1, <1>2, LinesNext, TypeCorrect, Safety, PTL
=============================================================================
