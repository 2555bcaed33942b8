------------------------- MODULE NtripClientProofs --------------------------
(***************************************************************************)
(* What bounds an NTRIP client's work, for any number of streams, any budget   *)
(* and any stall and overflow limits: how often it connects, and what it still   *)
(* does after close().                                                          *)
(***************************************************************************)
EXTENDS NtripClient, TLAPS

Event == {"connected", "payload", "rejected", "sourcetable", "corrupted", "ended", "eof"}

\* The counters stay within their ranges only because of where they are raised:
\* a stream sleeps when it may try again, and reads when it has not stalled.
CountersRoom ==
    \A s \in Stream :
        /\ pc[s] = "sleep" => reconnects[s] < ExpLimit
        /\ pc[s] = "recv" => quiet[s] <= StallTicks

NtripInv == NtripTypeOK /\ CountersRoom

\* A batch may be empty.
LEMMA NoEvents == << >> \in Seq(Event)
  OBVIOUS

\* The initial states satisfy the invariant.
LEMMA NtripInvInit == Init => NtripInv
  <1> SUFFICES ASSUME Init PROVE NtripInv
    OBVIOUS
  <1>1. streaming \in [Stream -> BOOLEAN]
    BY Zenon DEF Init
  <1>2. late \in [Stream -> [opens : 0..2, reads : 0..2]]
    BY DEF Init
  <1>3. \A s \in Stream : batch[s] \in Seq(Event)
    <2>1. \A s \in Stream : batch[s] = << >>
      BY DEF Init
    <2> QED
      BY <2>1, NoEvents
  <1>4. /\ pc \in [Stream -> PC] /\ out \in [Stream -> Outcome]
        /\ reconnects \in [Stream -> 0..ExpLimit] /\ quiet \in [Stream -> 0..(StallTicks + 1)]
        /\ opens \in [Stream -> Nat]
    BY NtripAssumption DEF Init, PC, Outcome
  <1>a. cfg \in Config /\ closed \in BOOLEAN /\ preferred \in {"none", "rev1"}
    BY DEF Init
  <1>6. NtripTypeOK
    BY <1>1, <1>2, <1>3, <1>4, <1>a DEF NtripTypeOK, Event
  <1>5. CountersRoom
    BY DEF Init, CountersRoom
  <1> QED
    BY <1>6, <1>5 DEF NtripInv

\* Whatever the machine reports is a sequence of events.
LEMMA EventBatches ==
  ASSUME NEW connected \in BOOLEAN
  PROVE  /\ Pushed(connected) \subseteq Seq(Event)
         /\ \A e \in Finished(connected) : Append(e, "eof") \in Seq(Event)
  <1>1. Pushed(connected) \subseteq Seq(Event)
    <2>1. /\ << >> \in Seq(Event)
          /\ <<"payload">> \in Seq(Event) /\ <<"connected">> \in Seq(Event)
          /\ <<"rejected">> \in Seq(Event) /\ <<"sourcetable">> \in Seq(Event)
      BY DEF Event
    <2>2. <<"payload", "ended">> \in Seq(Event)
      BY DEF Event
    <2>3. <<"payload", "corrupted">> \in Seq(Event)
      BY DEF Event
    <2>4. <<"connected", "payload">> \in Seq(Event)
      BY DEF Event
    <2> QED
      BY <2>1, <2>2, <2>3, <2>4 DEF Pushed
  <1>2. ASSUME NEW e \in Finished(connected) PROVE Append(e, "eof") \in Seq(Event)
    <2>1. e \in {<< >>, <<"ended">>, <<"rejected">>, <<"sourcetable">>}
      BY DEF Finished
    <2>2. <<"ended">> \in Seq(Event) /\ <<"rejected">> \in Seq(Event) /\ <<"sourcetable">> \in Seq(Event)
      BY DEF Event
    <2>3. e \in Seq(Event)
      BY <2>1, <2>2, NoEvents
    <2>4. "eof" \in Event
      BY DEF Event
    <2> QED
      BY <2>3, <2>4
  <1> QED
    BY <1>1, <1>2

\* A connection that is left changes nothing of the other streams, nor does the
\* end of an iterator or a reconnect.
LEMMA ReconnectInv ==
  ASSUME NtripInv, NEW s \in Stream, NEW o \in Outcome,
         Raise(s, o) \/ Reconnect(s, o),
         UNCHANGED <<cfg, closed, reconnects>>,
         preferred' \in {"none", "rev1"},
         opens' \in [Stream -> Nat],
         late' \in [Stream -> [opens : 0..2, reads : 0..2]]
  PROVE  NtripInv'
  <1> USE NtripAssumption DEF NtripInv, NtripTypeOK, CountersRoom, PC, Outcome, Leave, Goto
  <1>1. CASE Raise(s, o)
    BY <1>1 DEF Raise
  <1>2. CASE Reconnect(s, o)
    <2>1. CASE Raise(s, o)
      BY <1>1, <2>1
    <2>3. CASE Raise(s, "overflow")
      BY <2>3 DEF Raise
    <2>2. CASE ~BudgetSpent(s) /\ reconnects[s] < ExpLimit /\ Goto(s, "sleep") /\ Leave(s) /\ UNCHANGED out
      BY <2>2
    <2> QED
      BY <1>2, <2>1, <2>2, <2>3 DEF Reconnect
  <1> QED
    BY <1>1, <1>2

\* What an error of httpx leads to.
LEMMA HttpBrokenInv ==
  ASSUME NtripInv, NEW s \in Stream,
         HttpBroken(s) \/ RemoteProtocolError(s),
         UNCHANGED <<cfg, closed, reconnects>>,
         opens' \in [Stream -> Nat],
         late' \in [Stream -> [opens : 0..2, reads : 0..2]]
  PROVE  NtripInv'
  <1> USE NtripAssumption DEF NtripInv, NtripTypeOK
  <1>1. "stalled" \in Outcome /\ "protocol" \in Outcome /\ "transport" \in Outcome
    BY DEF Outcome, Reconnectable
  <1>2. ASSUME RemoteProtocolError(s) PROVE NtripInv'
    <2>1. CASE cfg.version = "auto"
      <3>1. /\ pc' = [pc EXCEPT ![s] = "loop"] /\ Leave(s)
            /\ preferred' = "rev1" /\ UNCHANGED out
        BY <1>2, <2>1 DEF RemoteProtocolError, Goto
      <3> QED
        BY <3>1 DEF CountersRoom, PC, Leave
    <2>2. CASE cfg.version # "auto"
      BY <1>1, <1>2, <2>2, ReconnectInv DEF RemoteProtocolError
    <2> QED
      BY <2>1, <2>2
  <1>3. CASE Reconnect(s, "stalled") /\ UNCHANGED preferred
    BY <1>1, <1>3, ReconnectInv
  <1>4. CASE Raise(s, "transport") /\ UNCHANGED preferred
    BY <1>1, <1>4, ReconnectInv
  <1> QED
    BY <1>2, <1>3, <1>4 DEF HttpBroken

\* The counters of connections and of what comes after close().
LEMMA CountersTyped ==
  ASSUME NtripTypeOK, NEW s \in Stream
  PROVE  /\ Opened(s) => /\ opens' \in [Stream -> Nat]
                         /\ late' \in [Stream -> [opens : 0..2, reads : 0..2]]
         /\ Read(s) => late' \in [Stream -> [opens : 0..2, reads : 0..2]]
  <1>1. /\ [late[s] EXCEPT !.opens = UpTo2(@ + 1)] \in [opens : 0..2, reads : 0..2]
        /\ [late[s] EXCEPT !.reads = UpTo2(@ + 1)] \in [opens : 0..2, reads : 0..2]
    BY DEF NtripTypeOK, UpTo2
  <1>2. /\ [late EXCEPT ![s].opens = UpTo2(@ + 1)] \in [Stream -> [opens : 0..2, reads : 0..2]]
        /\ [late EXCEPT ![s].reads = UpTo2(@ + 1)] \in [Stream -> [opens : 0..2, reads : 0..2]]
    BY <1>1 DEF NtripTypeOK
  <1>3. opens' = [opens EXCEPT ![s] = @ + 1] => opens' \in [Stream -> Nat]
    BY DEF NtripTypeOK
  <1>4. late \in [Stream -> [opens : 0..2, reads : 0..2]]
    BY DEF NtripTypeOK
  <1>5. CASE closed
    BY <1>2, <1>3, <1>5 DEF Opened, Read
  <1>6. CASE ~closed
    BY <1>4, <1>3, <1>6 DEF Opened, Read
  <1> QED
    BY <1>5, <1>6

\* Every step of a stream keeps the invariant.
LEMMA NtripInvOfStep ==
  ASSUME NtripInv, NEW s \in Stream, Step(s)
  PROVE  NtripInv'
  <1> USE NtripAssumption, CountersTyped DEF NtripInv, client
  <1>o. {"exhausted", "rejected", "unreachable", "ended", "stalled", "corrupted"} \subseteq Outcome
    BY DEF Outcome, Reconnectable
  <1>1. CASE Loop(s)
    <2>1. CASE closed
      BY <1>o, <1>1, <2>1, ReconnectInv DEF Loop, NtripTypeOK
    <2>2. CASE ~closed
      BY <1>1, <2>2 DEF Loop, conn, NtripTypeOK, CountersRoom, PC, Goto
    <2> QED
      BY <2>1, <2>2
  <1>2. CASE Wake(s)
    BY <1>2 DEF Wake, conn, NtripTypeOK, CountersRoom, PC, Goto
  <1>3. CASE HttpOpen(s)
    <2>1. CASE Goto(s, "http_read") /\ UNCHANGED <<conn, out, preferred>>
      BY <1>3, <2>1 DEF HttpOpen, conn, NtripTypeOK, CountersRoom, PC, Goto
    <2>2. CASE (Raise(s, "rejected") \/ Reconnect(s, "unreachable")) /\ UNCHANGED preferred
      BY <1>o, <1>3, <2>2, ReconnectInv DEF HttpOpen, NtripTypeOK
    <2>3. CASE HttpBroken(s)
      BY <1>3, <2>3, HttpBrokenInv DEF HttpOpen
    <2> QED
      BY <1>3, <2>1, <2>2, <2>3 DEF HttpOpen
  <1>4. CASE HttpRead(s)
    <2>o. opens' \in [Stream -> Nat]
      BY <1>4 DEF HttpRead, NtripTypeOK
    <2>1. CASE Goto(s, "http_read") /\ UNCHANGED <<conn, out>> /\ UNCHANGED preferred
      BY <1>4, <2>1 DEF HttpRead, conn, NtripTypeOK, CountersRoom, PC, Goto
    <2>2. CASE Reconnect(s, "ended") /\ UNCHANGED preferred
      BY <1>o, <1>4, <2>o, <2>2, ReconnectInv DEF HttpRead, NtripTypeOK
    <2>3. CASE HttpBroken(s)
      BY <1>4, <2>o, <2>3, HttpBrokenInv DEF HttpRead
    <2> QED
      BY <1>4, <2>1, <2>2, <2>3 DEF HttpRead, HttpChunk
  <1>5. CASE RawOpen(s)
    <2>1. CASE Goto(s, "raw_loop") /\ UNCHANGED <<conn, out>>
      BY <1>5, <2>1 DEF RawOpen, conn, NtripTypeOK, CountersRoom, PC, Goto
    <2>2. CASE Reconnect(s, "unreachable")
      BY <1>o, <1>5, <2>2, ReconnectInv DEF RawOpen, NtripTypeOK
    <2> QED
      BY <1>5, <2>1, <2>2 DEF RawOpen
  <1>6. CASE RawLoop(s)
    <2>1. CASE quiet[s] <= StallTicks /\ Goto(s, "recv") /\ UNCHANGED <<conn, out>>
      BY <1>6, <2>1 DEF RawLoop, conn, NtripTypeOK, CountersRoom, PC, Goto
    <2>2. CASE Reconnect(s, "ended") \/ Reconnect(s, "unreachable") \/ Reconnect(s, "stalled")
      BY <1>o, <1>6, <2>2, ReconnectInv DEF RawLoop, NtripTypeOK
    <2> QED
      BY <1>6, <2>1, <2>2 DEF RawLoop
  <1>7. CASE RecvTimeout(s)
    BY <1>7 DEF RecvTimeout, NtripTypeOK, CountersRoom, PC, Goto
  <1>8. CASE Recv(s)
    <2>1. PICK events \in Pushed(streaming[s])
                             \union {Append(e, "eof") : e \in Finished(streaming[s])} :
              batch' = [batch EXCEPT ![s] = events]
      BY <1>8 DEF Recv
    <2>a. streaming[s] \in BOOLEAN
      BY DEF NtripTypeOK
    <2>2. events \in Seq(Event)
      BY <2>a, EventBatches
    <2>3. \A r \in Stream : batch'[r] \in Seq(Event)
      BY <2>1, <2>2 DEF NtripTypeOK, Event
    <2> QED
      BY <1>8, <2>3 DEF Recv, NtripTypeOK, CountersRoom, PC, Goto, Event
  <1>9. CASE RecvError(s)
    BY <1>o, <1>9, ReconnectInv DEF RecvError, NtripTypeOK
  <1>10. CASE EventHandled(s)
    <2>1. \A r \in Stream : batch'[r] \in Seq(Event)
      BY <1>10 DEF EventHandled, AtEvent, NtripTypeOK, Event
    <2>2. streaming' \in [Stream -> BOOLEAN]
      BY <1>10 DEF EventHandled, NtripTypeOK
    <2>3. quiet' \in [Stream -> 0..(StallTicks + 1)]
      <3>1. CASE UNCHANGED quiet
        BY <3>1 DEF NtripTypeOK
      <3>2. CASE \E waited \in quiet[s]..(StallTicks + 1) :
                     quiet' = [quiet EXCEPT ![s] = waited]
        <4>1. quiet[s] \in Nat /\ StallTicks \in Nat /\ quiet \in [Stream -> 0..(StallTicks + 1)]
          BY NtripAssumption DEF NtripTypeOK
        <4>2. PICK waited \in quiet[s]..(StallTicks + 1) : quiet' = [quiet EXCEPT ![s] = waited]
          BY <3>2
        <4>3. waited \in 0..(StallTicks + 1)
          BY <4>1, <4>2
        <4> QED
          BY <4>1, <4>2, <4>3
      <3> QED
        BY <1>10, <3>1, <3>2 DEF EventHandled
    <2>4. pc[s] = "events" /\ \A r \in Stream : r # s => quiet'[r] = quiet[r]
      BY <1>10 DEF EventHandled, AtEvent, NtripTypeOK
    <2>5. CountersRoom'
      BY <1>10, <2>4 DEF EventHandled, CountersRoom
    <2> QED
      BY <1>10, <2>1, <2>2, <2>3, <2>5 DEF EventHandled, NtripTypeOK, Event
  <1>11. CASE EventRaises(s)
    BY <1>o, <1>11, ReconnectInv DEF EventRaises, NtripTypeOK
  <1>12. CASE BatchDone(s)
    BY <1>12 DEF BatchDone, conn, NtripTypeOK, CountersRoom, PC, Goto
  <1> QED
    BY <1>1, <1>2, <1>3, <1>4, <1>5, <1>6, <1>7, <1>8, <1>9, <1>10, <1>11, <1>12 DEF Step

\* Every step keeps the invariant.
LEMMA NtripInvStep == NtripInv /\ [Next]_vars => NtripInv'
  <1> SUFFICES ASSUME NtripInv, [Next]_vars PROVE NtripInv'
    OBVIOUS
  <1>1. CASE Close
    BY <1>1 DEF Close, conn, NtripInv, NtripTypeOK, CountersRoom
  <1>2. CASE UNCHANGED vars
    BY <1>2 DEF vars, NtripInv, NtripTypeOK, CountersRoom
  <1> QED
    BY <1>1, <1>2, NtripInvOfStep DEF Next, Quiescent

\* Every variable of the client and its streams keeps its type; the reconnect
\* counter stays where the backoff can be computed, and the stall clock within
\* one tick of the limit.
THEOREM NtripTypeCorrect == Spec => []NtripTypeOK
  BY NtripInvInit, NtripInvStep, PTL DEF Spec, NtripInv

-----------------------------------------------------------------------------
(***************************************************************************)
(* What a step does to the counters, without the connection's own locals.      *)
(***************************************************************************)
Http == {"http_open", "http_read"}

\* The step leaves stream r alone.
Rests(r) ==
    /\ pc'[r] = pc[r] /\ out'[r] = out[r]
    /\ reconnects'[r] = reconnects[r] /\ opens'[r] = opens[r] /\ late'[r] = late[r]

Continues(s, to) == pc'[s] = to /\ out'[s] = out[s] /\ preferred' = preferred

Downgrades(s) ==
    /\ pc[s] \in Http /\ cfg.version = "auto"
    /\ pc'[s] = "loop" /\ out'[s] = out[s] /\ preferred' = "rev1"

\* The connection is given up, for a while or for good.
GivesUp(s) ==
    /\ preferred' = preferred
    /\ \/ pc'[s] = "sleep" /\ ~BudgetSpent(s) /\ out'[s] = out[s]
       \/ /\ pc'[s] = "over"
          /\ \/ out'[s] \in Reconnectable /\ BudgetSpent(s)
             \/ out'[s] = "overflow" /\ reconnects[s] >= ExpLimit
             \/ out'[s] = "rejected"
             \/ out'[s] \in {"protocol", "transport"} /\ pc[s] \in Http

CountsKept(s) == opens'[s] = opens[s] /\ reconnects'[s] = reconnects[s]

Turns(s) ==
    /\ pc[s] = "loop" /\ CountsKept(s) /\ late'[s] = late[s]
    /\ \/ closed /\ pc'[s] = "over" /\ out'[s] = "exhausted" /\ preferred' = preferred
       \/ ~closed /\ Continues(s, IF UseHttp THEN "http_open" ELSE "raw_open")

Wakes(s) ==
    /\ pc[s] = "sleep" /\ Continues(s, "loop") /\ late'[s] = late[s]
    /\ opens'[s] = opens[s] /\ reconnects'[s] = reconnects[s] + 1

Connects(s) ==
    /\ pc[s] \in {"http_open", "raw_open"}
    /\ opens'[s] = opens[s] + 1 /\ reconnects'[s] = reconnects[s]
    /\ late'[s].reads = late[s].reads
    /\ late'[s].opens = IF closed THEN UpTo2(late[s].opens + 1) ELSE late[s].opens
    /\ \/ Continues(s, IF pc[s] = "http_open" THEN "http_read" ELSE "raw_loop")
       \/ GivesUp(s) \/ Downgrades(s)

Receives(s) ==
    /\ pc[s] \in {"http_read", "recv"} /\ CountsKept(s)
    /\ late'[s].opens = late[s].opens
    /\ late'[s].reads = IF closed THEN UpTo2(late[s].reads + 1) ELSE late[s].reads
    /\ \/ pc[s] = "http_read" /\ ~closed /\ Continues(s, "http_read")
       \/ pc[s] = "http_read" /\ (GivesUp(s) \/ Downgrades(s))
       \/ pc[s] = "recv" /\ Continues(s, "events")

Works(s) ==
    /\ pc[s] \in {"raw_loop", "recv", "events"} /\ CountsKept(s) /\ late'[s] = late[s]
    /\ \/ pc[s] = "raw_loop" /\ ~closed /\ Continues(s, "recv")
       \/ pc[s] # "raw_loop" /\ Continues(s, "raw_loop")
       \/ pc[s] = "events" /\ Continues(s, "events")
       \/ GivesUp(s)

\* Raising and reconnecting, seen this way.
LEMMA GivingUp ==
  ASSUME NtripTypeOK, NEW s \in Stream, UNCHANGED preferred,
         \/ \E o \in Reconnectable : Reconnect(s, o)
         \/ Raise(s, "rejected")
         \/ pc[s] \in Http /\ (Raise(s, "protocol") \/ Raise(s, "transport"))
  PROVE  GivesUp(s) /\ \A r \in Stream \ {s} : pc'[r] = pc[r] /\ out'[r] = out[r]
  <1> USE DEF NtripTypeOK, Raise, Goto, GivesUp
  <1>1. CASE Raise(s, "rejected")
    BY <1>1
  <1>2. CASE pc[s] \in Http /\ (Raise(s, "protocol") \/ Raise(s, "transport"))
    BY <1>2
  <1>3. ASSUME NEW o \in Reconnectable, Reconnect(s, o) PROVE GivesUp(s) /\ \A r \in Stream \ {s} : pc'[r] = pc[r] /\ out'[r] = out[r]
    <2>1. CASE BudgetSpent(s) /\ Raise(s, o)
      BY <2>1
    <2>2. CASE reconnects[s] >= ExpLimit /\ Raise(s, "overflow")
      BY <2>2
    <2>3. CASE ~BudgetSpent(s) /\ Goto(s, "sleep") /\ UNCHANGED out
      BY <2>3
    <2> QED
      BY <1>3, <2>1, <2>2, <2>3, NtripAssumption DEF Reconnect
  <1> QED
    BY <1>1, <1>2, <1>3

\* And what an error of httpx amounts to.
LEMMA HttpBreaking ==
  ASSUME NtripTypeOK, NEW s \in Stream, HttpBroken(s), pc[s] \in Http
  PROVE  /\ GivesUp(s) \/ Downgrades(s)
         /\ \A r \in Stream \ {s} : pc'[r] = pc[r] /\ out'[r] = out[r]
  <1>1. CASE cfg.version = "auto" /\ RemoteProtocolError(s)
    BY <1>1 DEF RemoteProtocolError, Goto, NtripTypeOK, Downgrades
  <1>2. CASE ~(cfg.version = "auto" /\ RemoteProtocolError(s))
    BY <1>2, GivingUp DEF HttpBroken, RemoteProtocolError, Reconnectable
  <1> QED
    BY <1>1, <1>2

\* Opening a connection and reading from it.
LEMMA CountersMove ==
  ASSUME NtripTypeOK, NEW s \in Stream
  PROVE  /\ Opened(s) =>
              /\ opens'[s] = opens[s] + 1
              /\ late'[s].reads = late[s].reads
              /\ late'[s].opens = IF closed THEN UpTo2(late[s].opens + 1) ELSE late[s].opens
              /\ \A r \in Stream \ {s} : opens'[r] = opens[r] /\ late'[r] = late[r]
         /\ Read(s) =>
              /\ late'[s].opens = late[s].opens
              /\ late'[s].reads = IF closed THEN UpTo2(late[s].reads + 1) ELSE late[s].reads
              /\ \A r \in Stream \ {s} : late'[r] = late[r]
  <1>1. late \in [Stream -> [opens : 0..2, reads : 0..2]] /\ opens \in [Stream -> Nat]
    BY DEF NtripTypeOK
  <1>2. CASE closed
    BY <1>1, <1>2 DEF Opened, Read
  <1>3. CASE ~closed
    BY <1>1, <1>3 DEF Opened, Read
  <1> QED
    BY <1>2, <1>3

\* Every step of a stream is of one of the five kinds, and of that stream alone.
LEMMA StepKinds ==
  ASSUME NtripTypeOK, NEW s \in Stream, Step(s)
  PROVE  /\ UNCHANGED <<cfg, closed>> /\ \A r \in Stream \ {s} : Rests(r)
         /\ Turns(s) \/ Wakes(s) \/ Connects(s) \/ Receives(s) \/ Works(s)
  <1> USE CountersMove DEF Rests, CountsKept, client, conn
  <1>1. CASE Loop(s)
    BY <1>1 DEF Loop, Turns, Continues, Raise, Goto, NtripTypeOK
  <1>2. CASE Wake(s)
    BY <1>2 DEF Wake, Wakes, Continues, Goto, NtripTypeOK
  <1>3. CASE HttpOpen(s)
    <2>1. CASE Goto(s, "http_read") /\ UNCHANGED <<conn, out, preferred>>
      BY <1>3, <2>1 DEF HttpOpen, Connects, Continues, Goto, NtripTypeOK
    <2>2. CASE (Raise(s, "rejected") \/ Reconnect(s, "unreachable")) /\ UNCHANGED preferred
      BY <1>3, <2>2, GivingUp DEF HttpOpen, Connects, Reconnectable
    <2>3. CASE HttpBroken(s)
      BY <1>3, <2>3, HttpBreaking DEF HttpOpen, Connects, Http
    <2> QED
      BY <1>3, <2>1, <2>2, <2>3 DEF HttpOpen
  <1>4. CASE HttpRead(s)
    <2>1. CASE ~closed /\ Goto(s, "http_read") /\ UNCHANGED <<conn, out>> /\ UNCHANGED preferred
      BY <1>4, <2>1 DEF HttpRead, Receives, Continues, Goto, NtripTypeOK
    <2>2. CASE Reconnect(s, "ended") /\ UNCHANGED preferred
      BY <1>4, <2>2, GivingUp DEF HttpRead, Receives, Reconnectable
    <2>3. CASE HttpBroken(s)
      BY <1>4, <2>3, HttpBreaking DEF HttpRead, Receives, Http
    <2> QED
      BY <1>4, <2>1, <2>2, <2>3 DEF HttpRead, HttpChunk
  <1>5. CASE RawOpen(s)
    <2>1. CASE Goto(s, "raw_loop") /\ UNCHANGED <<conn, out>>
      BY <1>5, <2>1 DEF RawOpen, Connects, Continues, Goto, NtripTypeOK
    <2>2. CASE Reconnect(s, "unreachable")
      BY <1>5, <2>2, GivingUp DEF RawOpen, Connects, Reconnectable
    <2> QED
      BY <1>5, <2>1, <2>2 DEF RawOpen
  <1>6. CASE RawLoop(s)
    <2>1. CASE ~closed /\ Goto(s, "recv") /\ UNCHANGED <<conn, out>>
      BY <1>6, <2>1 DEF RawLoop, Works, Continues, Goto, NtripTypeOK
    <2>2. CASE Reconnect(s, "ended") \/ Reconnect(s, "unreachable") \/ Reconnect(s, "stalled")
      BY <1>6, <2>2, GivingUp DEF RawLoop, Works, Reconnectable
    <2> QED
      BY <1>6, <2>1, <2>2 DEF RawLoop
  <1>7. CASE RecvTimeout(s)
    BY <1>7 DEF RecvTimeout, Works, Continues, Goto, NtripTypeOK
  <1>8. CASE Recv(s)
    BY <1>8 DEF Recv, Receives, Continues, Goto, NtripTypeOK
  <1>9. CASE RecvError(s)
    BY <1>9, GivingUp DEF RecvError, Works, Reconnectable
  <1>10. CASE EventHandled(s)
    BY <1>10 DEF EventHandled, AtEvent, Works, Continues
  <1>11. CASE EventRaises(s)
    BY <1>11, GivingUp DEF EventRaises, AtEvent, Works, Reconnectable
  <1>12. CASE BatchDone(s)
    BY <1>12 DEF BatchDone, Works, Continues, Goto, NtripTypeOK
  <1> QED
    BY <1>1, <1>2, <1>3, <1>4, <1>5, <1>6, <1>7, <1>8, <1>9, <1>10, <1>11, <1>12 DEF Step

-----------------------------------------------------------------------------
\* What a stream may have connected beyond its reconnects: once for the downgrade
\* the client has seen, unless the stream is itself still on httpx.
Downgrade(s) == IF preferred = "rev1" /\ pc[s] \notin Http THEN 1 ELSE 0

\* A stream between two connections has made one fewer than its turn allows.
Turn(s) == IF pc[s] \in {"loop", "http_open", "raw_open"} THEN 0 ELSE 1

BudgetInv ==
    /\ preferred = "rev1" => cfg.version = "auto"
    /\ \A s \in Stream :
          /\ opens[s] <= reconnects[s] + Downgrade(s) + Turn(s)
          /\ cfg.max # Unlimited => /\ reconnects[s] <= cfg.max
                                    /\ pc[s] = "sleep" => reconnects[s] < cfg.max

\* A client that has to use the raw socket counts exactly.
Raw == cfg.gga \/ cfg.version = "rev1"
RawInv ==
    Raw => /\ preferred = "none"
           /\ \A s \in Stream :
                 /\ pc[s] \notin Http
                 /\ pc[s] # "over" => opens[s] = reconnects[s] + Turn(s)
                 /\ pc[s] # "over" => out[s] = "none"

\* After close() nothing leads back to a connection or to a read.
LateInv ==
    \A s \in Stream :
        /\ late[s].opens <= 1 /\ late[s].reads <= 1
        /\ late[s].opens > 0 => closed /\ pc[s] \notin {"http_open", "raw_open"}
        /\ late[s].reads > 0 => closed /\ pc[s] \notin {"http_open", "http_read", "recv"}

ClientInv == NtripInv /\ BudgetInv /\ RawInv /\ RawStreamOutlivesOutages /\ LateInv

\* Types the arithmetic below needs.
LEMMA StreamFacts ==
  ASSUME NtripTypeOK, NEW s \in Stream
  PROVE  /\ opens[s] \in Nat /\ reconnects[s] \in Nat /\ ExpLimit \in Nat
         /\ cfg.max \in Nat \/ cfg.max = Unlimited
         /\ cfg.version \in {"auto", "rev1", "rev2"} /\ cfg.gga \in BOOLEAN
         /\ late[s].opens \in 0..2 /\ late[s].reads \in 0..2
         /\ preferred \in {"none", "rev1"}
  BY NtripAssumption DEF NtripTypeOK

\* The initial states satisfy the whole invariant.
LEMMA ClientInvInit == Init => ClientInv
  <1> SUFFICES ASSUME Init PROVE ClientInv
    OBVIOUS
  <1>1. NtripInv
    BY NtripInvInit
  <1>2. BudgetInv
    BY <1>1, StreamFacts DEF Init, NtripInv, BudgetInv, Downgrade, Turn
  <1>3. RawInv /\ RawStreamOutlivesOutages
    BY DEF Init, RawInv, RawStreamOutlivesOutages, Turn, Http
  <1>4. LateInv
    <2>1. ASSUME NEW s \in Stream PROVE late[s].opens = 0 /\ late[s].reads = 0
      BY DEF Init
    <2>2. ~(0 > 0) /\ 0 <= 1
      OBVIOUS
    <2> QED
      BY <2>1, <2>2, Zenon DEF LateInv
  <1> QED
    BY <1>1, <1>2, <1>3, <1>4 DEF ClientInv

\* Neither reconnects nor downgrades exceed the budget.
LEMMA BudgetInvStep ==
  ASSUME ClientInv, NEW s \in Stream, Step(s)
  PROVE  BudgetInv'
  <1> USE DEF BudgetInv, CountsKept, BudgetSpent
  <1>t. NtripTypeOK
    BY DEF ClientInv, NtripInv
  <1>i. BudgetInv
    BY DEF ClientInv
  <1>s. /\ UNCHANGED <<cfg, closed>> /\ \A r \in Stream \ {s} : Rests(r)
        /\ Turns(s) \/ Wakes(s) \/ Connects(s) \/ Receives(s) \/ Works(s)
    BY <1>t, StepKinds
  <1>p. preferred' = preferred \/ Downgrades(s)
    BY <1>s DEF Turns, Wakes, Connects, Receives, Works, GivesUp, Continues
  <1>1. preferred' = "rev1" => cfg'.version = "auto"
    BY <1>i, <1>s, <1>p DEF Downgrades
  <1>2. ASSUME NEW r \in Stream \ {s}
        PROVE  /\ opens'[r] <= reconnects'[r] + Downgrade(r)' + Turn(r)'
               /\ cfg'.max # Unlimited => /\ reconnects'[r] <= cfg'.max
                                          /\ pc'[r] = "sleep" => reconnects'[r] < cfg'.max
    BY <1>t, <1>i, <1>s, <1>p, StreamFacts DEF Rests, Downgrade, Turn, Downgrades
  <1>3. /\ opens'[s] <= reconnects'[s] + Downgrade(s)' + Turn(s)'
        /\ cfg'.max # Unlimited => /\ reconnects'[s] <= cfg'.max
                                   /\ pc'[s] = "sleep" => reconnects'[s] < cfg'.max
    <2> USE <1>t, <1>i, <1>s, StreamFacts DEF Downgrade, Turn, Http
    <2>1. CASE Turns(s)
      BY <2>1 DEF Turns, Continues, UseHttp, WireVersion
    <2>2. CASE Wakes(s)
      BY <2>2 DEF Wakes, Continues
    <2>3. CASE Connects(s)
      <3>1. CASE GivesUp(s)
        BY <2>3, <3>1 DEF Connects, GivesUp
      <3>2. CASE Downgrades(s)
        BY <2>3, <3>2 DEF Connects, Downgrades
      <3>3. CASE Continues(s, IF pc[s] = "http_open" THEN "http_read" ELSE "raw_loop")
        BY <2>3, <3>3 DEF Connects, Continues
      <3> QED
        BY <2>3, <3>1, <3>2, <3>3 DEF Connects
    <2>4. CASE Receives(s)
      <3>1. CASE GivesUp(s)
        BY <2>4, <3>1 DEF Receives, GivesUp
      <3>2. CASE Downgrades(s)
        BY <2>4, <3>2 DEF Receives, Downgrades
      <3> QED
        BY <2>4, <3>1, <3>2 DEF Receives, Continues
    <2>5. CASE Works(s)
      <3>1. CASE GivesUp(s)
        BY <2>5, <3>1 DEF Works, GivesUp
      <3> QED
        BY <2>5, <3>1 DEF Works, Continues
    <2> QED
      BY <2>1, <2>2, <2>3, <2>4, <2>5
  <1> QED
    BY <1>1, <1>2, <1>3

\* A raw stream ends only for the reasons it may.
LEMMA RawInvStep ==
  ASSUME ClientInv, NEW s \in Stream, Step(s)
  PROVE  RawInv' /\ RawStreamOutlivesOutages'
  <1>t. NtripTypeOK
    BY DEF ClientInv, NtripInv
  <1>i. BudgetInv /\ RawInv /\ RawStreamOutlivesOutages
    BY DEF ClientInv
  <1>s. /\ UNCHANGED <<cfg, closed>> /\ \A r \in Stream \ {s} : Rests(r)
        /\ Turns(s) \/ Wakes(s) \/ Connects(s) \/ Receives(s) \/ Works(s)
    BY <1>t, StepKinds
  <1> SUFFICES ASSUME Raw PROVE RawInv' /\ RawStreamOutlivesOutages'
    BY <1>s DEF RawInv, RawStreamOutlivesOutages, Raw
  <1>h. /\ preferred = "none"
        /\ \A r \in Stream : /\ pc[r] \notin Http
                             /\ pc[r] # "over" => opens[r] = reconnects[r] + Turn(r)
                             /\ pc[r] # "over" => out[r] = "none"
    BY <1>i DEF RawInv
  <1>p. preferred' = "none"
    BY <1>s, <1>h DEF Turns, Wakes, Connects, Receives, Works, GivesUp, Continues, Downgrades
  <1>r. ASSUME NEW r \in Stream \ {s}
        PROVE  /\ pc'[r] \notin Http
               /\ pc'[r] # "over" => opens'[r] = reconnects'[r] + Turn(r)'
               /\ pc'[r] # "over" => out'[r] = "none"
    BY <1>s, <1>h DEF Rests, Turn
  <1>1. /\ pc'[s] \notin Http
        /\ pc'[s] # "over" => opens'[s] = reconnects'[s] + Turn(s)'
        /\ pc'[s] # "over" => out'[s] = "none"
        /\ \/ out'[s] \in {"none", "exhausted", "rejected"}
           \/ out'[s] \in Reconnectable /\ cfg.max # Unlimited /\ opens'[s] = cfg.max + 1
           \/ out'[s] = "overflow" /\ opens'[s] > ExpLimit
    <2> USE <1>t, <1>i, <1>h, StreamFacts DEF BudgetInv, Turn, Http, CountsKept, BudgetSpent
    <2>1. CASE Turns(s)
      BY <2>1 DEF Turns, Continues, UseHttp, WireVersion, Raw
    <2>2. CASE Wakes(s)
      BY <2>2 DEF Wakes, Continues
    <2>3. CASE Connects(s)
      <3>1. CASE GivesUp(s)
        BY <2>3, <3>1 DEF Connects, GivesUp
      <3> QED
        BY <2>3, <3>1 DEF Connects, Continues, Downgrades
    <2>4. CASE Receives(s)
      BY <2>4 DEF Receives, Continues
    <2>5. CASE Works(s)
      <3>1. CASE GivesUp(s)
        BY <2>5, <3>1 DEF Works, GivesUp
      <3> QED
        BY <2>5, <3>1 DEF Works, Continues
    <2> QED
      BY <1>s, <2>1, <2>2, <2>3, <2>4, <2>5
  <1>2. RawInv'
    BY <1>p, <1>r, <1>1 DEF RawInv
  <1>3. RawStreamOutlivesOutages'
    BY <1>i, <1>s, <1>1 DEF RawStreamOutlivesOutages, Rests, Raw
  <1> QED
    BY <1>2, <1>3

\* A step after close() leads away from connections and reads.
LEMMA LateInvStep ==
  ASSUME ClientInv, NEW s \in Stream, Step(s)
  PROVE  LateInv'
  <1>t. NtripTypeOK
    BY DEF ClientInv, NtripInv
  <1>i. LateInv
    BY DEF ClientInv
  <1>s. /\ UNCHANGED <<cfg, closed>> /\ \A r \in Stream \ {s} : Rests(r)
        /\ Turns(s) \/ Wakes(s) \/ Connects(s) \/ Receives(s) \/ Works(s)
    BY <1>t, StepKinds
  <1>r. \A r \in Stream \ {s} :
           /\ late'[r].opens <= 1 /\ late'[r].reads <= 1
           /\ late'[r].opens > 0 => closed' /\ pc'[r] \notin {"http_open", "raw_open"}
           /\ late'[r].reads > 0 => closed' /\ pc'[r] \notin {"http_open", "http_read", "recv"}
    BY <1>s, <1>i DEF Rests, LateInv
  <1>1. /\ late'[s].opens <= 1 /\ late'[s].reads <= 1
        /\ late'[s].opens > 0 => closed' /\ pc'[s] \notin {"http_open", "raw_open"}
        /\ late'[s].reads > 0 => closed' /\ pc'[s] \notin {"http_open", "http_read", "recv"}
    <2> USE <1>t, <1>i, <1>s, StreamFacts DEF LateInv, UpTo2
    <2>g. GivesUp(s) \/ Downgrades(s) => pc'[s] \in {"sleep", "over", "loop"}
      BY DEF GivesUp, Downgrades
    <2>1. CASE Turns(s)
      BY <2>1 DEF Turns, Continues
    <2>2. CASE Wakes(s)
      BY <2>2 DEF Wakes, Continues
    <2>3. CASE Connects(s)
      BY <2>3, <2>g DEF Connects, Continues
    <2>4. CASE Receives(s)
      BY <2>4, <2>g DEF Receives, Continues
    <2>5. CASE Works(s)
      BY <2>5, <2>g DEF Works, Continues
    <2> QED
      BY <2>1, <2>2, <2>3, <2>4, <2>5
  <1> QED
    BY <1>r, <1>1 DEF LateInv

\* Every step keeps the whole invariant.
LEMMA ClientInvStep == ClientInv /\ [Next]_vars => ClientInv'
  <1> SUFFICES ASSUME ClientInv, [Next]_vars PROVE ClientInv'
    OBVIOUS
  <1>1. NtripInv'
    BY NtripInvStep DEF ClientInv
  <1>2. CASE Close
    <2>1. BudgetInv'
      BY <1>2 DEF Close, conn, ClientInv, BudgetInv, Downgrade, Turn
    <2>2. RawInv' /\ RawStreamOutlivesOutages'
      BY <1>2 DEF Close, conn, ClientInv, RawInv, Raw, RawStreamOutlivesOutages, Turn
    <2>3. LateInv'
      BY <1>2 DEF Close, conn, ClientInv, LateInv
    <2> QED
      BY <1>1, <2>1, <2>2, <2>3 DEF ClientInv
  <1>3. CASE UNCHANGED vars
    <2>1. BudgetInv'
      BY <1>3 DEF vars, ClientInv, BudgetInv, Downgrade, Turn
    <2>2. RawInv' /\ RawStreamOutlivesOutages'
      BY <1>3 DEF vars, ClientInv, RawInv, Raw, RawStreamOutlivesOutages, Turn
    <2>3. LateInv'
      BY <1>3 DEF vars, ClientInv, LateInv
    <2> QED
      BY <1>1, <2>1, <2>2, <2>3 DEF ClientInv
  <1>4. ASSUME NEW s \in Stream, Step(s) PROVE ClientInv'
    BY <1>1, <1>4, BudgetInvStep, RawInvStep, LateInvStep DEF ClientInv
  <1> QED
    BY <1>2, <1>3, <1>4 DEF Next, Quiescent

\* The inductive invariant holds in every behavior.
THEOREM ClientInvariant == Spec => []ClientInv
  BY ClientInvInit, ClientInvStep, PTL DEF Spec

\* max_reconnects bounds the connections of a stream, free downgrade included,
\* for any budget and any number of streams that downgrade one client.
THEOREM AttemptsAreBounded == Spec => []AttemptsBounded
  <1>1. ClientInv => AttemptsBounded
    <2> SUFFICES ASSUME ClientInv, cfg.max # Unlimited, NEW s \in Stream
                 PROVE  opens[s] <= cfg.max + (IF preferred = "rev1" THEN 2 ELSE 1)
      BY DEF AttemptsBounded
    <2> QED
      BY StreamFacts DEF ClientInv, NtripInv, BudgetInv, Downgrade, Turn
  <1> QED
    BY <1>1, ClientInvariant, PTL

\* After close() a stream connects at most once more and reads at most once more.
THEOREM ClosedStreamsWindDown == Spec => []ClosedStreamWindsDown
  <1>1. ClientInv => ClosedStreamWindsDown
    BY DEF ClientInv, LateInv, ClosedStreamWindsDown
  <1> QED
    BY <1>1, ClientInvariant, PTL

\* A stream on the raw socket survives outages until its budget is spent to the
\* last connection, whatever they are and in whatever order they come.
THEOREM RawStreamsOutlive == Spec => []RawStreamOutlivesOutages
  BY ClientInvariant, PTL DEF ClientInv
=============================================================================
