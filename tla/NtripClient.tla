----------------------------- MODULE NtripClient -----------------------------
(***************************************************************************)
(* NtripClient.stream of python/sidereon/ntrip.py: one client, the streams  *)
(* its threads iterate, and the thread that closes it.  The streams share   *)
(* _closed and _preferred_version; each has a connection of its own, over   *)
(* httpx (NTRIP rev2) or over a raw socket (rev1, or any revision with GGA). *)
(* The consumer of a stream keeps asking for the next chunk.                *)
(***************************************************************************)
EXTENDS Naturals, Sequences

CONSTANTS
    Stream,      \* the stream() iterators alive at once
    Config,      \* the clients: [version, gga, max] (max_reconnects)
    Unlimited,   \* max_reconnects=None
    StallTicks,  \* stall_timeout_s, in recv timeouts
    ExpLimit     \* the least n with factor**n out of range (1024 for 2.0)

ASSUME NtripAssumption ==
    /\ Unlimited \notin Nat
    /\ StallTicks \in Nat /\ ExpLimit \in Nat
    /\ Config \subseteq [version: {"auto", "rev1", "rev2"}, gga: BOOLEAN,
                         max: Nat \union {Unlimited}]

VARIABLES
    cfg,         \* the client's version, gga (is a GGA feed set) and max
    closed,      \* _closed
    preferred,   \* _preferred_version
    pc,          \* where each stream is
    reconnects,  \* the local of stream()
    quiet,       \* now - last_received of _raw_stream_once, in recv timeouts, as
                 \* far as the stall check can tell (up to StallTicks + 1)
    streaming,   \* its local connected
    batch,       \* the machine's events not handled yet
    out,         \* how the stream ended: StopIteration or an exception
    opens,       \* history: connections attempted
    late         \* history: connections and reads that completed after close(),
                 \* counted up to 2

vars == <<cfg, closed, preferred, pc, reconnects, quiet, streaming, batch, out,
          opens, late>>
client == <<cfg, closed, preferred>>
conn   == <<quiet, streaming, batch>>

Reconnectable == {"unreachable", "stalled", "ended", "corrupted"}
Outcome == {"none", "exhausted", "rejected", "protocol", "transport", "overflow"}
              \union Reconnectable
PC == {"loop", "http_open", "http_read", "raw_open", "raw_loop", "recv",
       "events", "sleep", "over"}

Init ==
    /\ cfg \in Config
    /\ closed = FALSE
    /\ preferred = "none"
    /\ pc = [s \in Stream |-> "loop"]
    /\ reconnects = [s \in Stream |-> 0]
    /\ quiet = [s \in Stream |-> 0]
    /\ streaming = [s \in Stream |-> FALSE]
    /\ batch = [s \in Stream |-> << >>]
    /\ out = [s \in Stream |-> "none"]
    /\ opens = [s \in Stream |-> 0]
    /\ late = [s \in Stream |-> [opens |-> 0, reads |-> 0]]

Goto(s, label) == pc' = [pc EXCEPT ![s] = label]

\* The connection's with-block is left, and its locals with it.
Leave(s) ==
    /\ quiet' = [quiet EXCEPT ![s] = 0]
    /\ streaming' = [streaming EXCEPT ![s] = FALSE]
    /\ batch' = [batch EXCEPT ![s] = << >>]

\* The iterator ends, with an exception unless outcome is "exhausted".
Raise(s, outcome) ==
    /\ Goto(s, "over")
    /\ out' = [out EXCEPT ![s] = outcome]
    /\ Leave(s)

\* Fault: one reconnect too many.
BudgetOverspent(s) == cfg.max # Unlimited /\ reconnects[s] > cfg.max
BudgetSpent(s) == cfg.max # Unlimited /\ reconnects[s] >= cfg.max

\* _maybe_reconnect: the error is raised once the budget is spent; otherwise
\* the stream sleeps, for a time the power of factor is computed for.
Reconnect(s, error) ==
    \/ /\ BudgetSpent(s)
       /\ Raise(s, error)
    \/ /\ ~BudgetSpent(s) /\ reconnects[s] >= ExpLimit
       /\ Raise(s, "overflow")
    \/ /\ ~BudgetSpent(s) /\ reconnects[s] < ExpLimit
       /\ Goto(s, "sleep") /\ Leave(s) /\ UNCHANGED out

-----------------------------------------------------------------------------
WireVersion ==
    IF cfg.version # "auto" THEN cfg.version
    ELSE IF preferred = "none" THEN "rev2" ELSE preferred

UseHttp == ~cfg.gga /\ WireVersion = "rev2"

\* The while test of stream(), and _use_httpx.
Loop(s) ==
    /\ pc[s] = "loop"
    /\ \/ /\ closed
          /\ Raise(s, "exhausted")
       \/ /\ ~closed
          /\ Goto(s, IF UseHttp THEN "http_open" ELSE "raw_open")
          /\ UNCHANGED <<conn, out>>
    /\ UNCHANGED <<client, reconnects, opens, late>>

Wake(s) ==
    /\ pc[s] = "sleep"
    /\ reconnects' = [reconnects EXCEPT ![s] = @ + 1]
    /\ Goto(s, "loop")
    /\ UNCHANGED <<client, conn, out, opens, late>>

UpTo2(n) == IF n < 2 THEN n ELSE 2

Opened(s) ==
    /\ opens' = [opens EXCEPT ![s] = @ + 1]
    /\ late' = IF closed THEN [late EXCEPT ![s].opens = UpTo2(@ + 1)] ELSE late

Read(s) == late' = IF closed THEN [late EXCEPT ![s].reads = UpTo2(@ + 1)] ELSE late

\* Fault: the downgrade is forgotten.
RetryWithoutDowngrade(s) ==
    \/ /\ cfg.version = "auto"
       /\ Goto(s, "loop") /\ Leave(s) /\ UNCHANGED <<preferred, out>>
    \/ /\ cfg.version # "auto"
       /\ Raise(s, "protocol") /\ UNCHANGED preferred

\* httpx.RemoteProtocolError, from the handshake or from a body cut short:
\* "auto" turns to rev1 for good, at once and for free.
RemoteProtocolError(s) ==
    \/ /\ cfg.version = "auto"
       /\ preferred' = "rev1"
       /\ Goto(s, "loop") /\ Leave(s) /\ UNCHANGED out
    \/ /\ cfg.version # "auto"
       /\ Raise(s, "protocol") /\ UNCHANGED preferred

\* What httpx raises at any point: ReadTimeout, RemoteProtocolError, or an
\* error stream() does not catch (ReadError, WriteError).
HttpBroken(s) ==
    \/ Reconnect(s, "stalled") /\ UNCHANGED preferred
    \/ RemoteProtocolError(s)
    \/ Raise(s, "transport") /\ UNCHANGED preferred

HttpOpen(s) ==
    /\ pc[s] = "http_open"
    /\ Opened(s)
    /\ \/ Goto(s, "http_read") /\ UNCHANGED <<conn, out, preferred>>
       \/ Raise(s, "rejected") /\ UNCHANGED preferred
       \/ Reconnect(s, "unreachable") /\ UNCHANGED preferred
       \/ HttpBroken(s)
    /\ UNCHANGED <<cfg, closed, reconnects>>

\* Fault: the loop over the body does not look at _closed.
HttpChunkUnchecked(s) == Goto(s, "http_read") /\ UNCHANGED <<conn, out>>

\* A chunk is handed to the consumer, unless the client was closed meanwhile:
\* then the once-function returns, which stream() takes for a lost connection.
HttpChunk(s) ==
    \/ ~closed /\ Goto(s, "http_read") /\ UNCHANGED <<conn, out>>
    \/ closed /\ Reconnect(s, "ended")

HttpRead(s) ==
    /\ pc[s] = "http_read"
    /\ Read(s)
    /\ \/ HttpChunk(s) /\ UNCHANGED preferred
       \/ Reconnect(s, "ended") /\ UNCHANGED preferred
       \/ HttpBroken(s)
    /\ UNCHANGED <<cfg, closed, reconnects, opens>>

-----------------------------------------------------------------------------
\* The core's protocol machine: the events one push or finish can produce.
Pushed(connected) ==
    IF connected
    THEN {<< >>, <<"payload">>, <<"payload", "ended">>, <<"payload", "corrupted">>}
    ELSE {<< >>, <<"connected">>, <<"connected", "payload">>, <<"rejected">>,
          <<"sourcetable">>}
Finished(connected) ==
    {<< >>} \union IF connected THEN {<<"ended">>} ELSE {<<"rejected">>, <<"sourcetable">>}

RawOpen(s) ==
    /\ pc[s] = "raw_open"
    /\ Opened(s)
    /\ \/ Goto(s, "raw_loop") /\ UNCHANGED <<conn, out>>
       \/ Reconnect(s, "unreachable")
    /\ UNCHANGED <<client, reconnects>>

\* Fault: the stall check is left out.
RawLoopNeverStalls(s) ==
    /\ pc[s] = "raw_loop"
    /\ \/ closed /\ Reconnect(s, "ended")
       \/ ~closed /\ cfg.gga /\ streaming[s] /\ Reconnect(s, "unreachable")
       \/ ~closed /\ Goto(s, "recv") /\ UNCHANGED <<conn, out>>
    /\ UNCHANGED <<client, reconnects, opens, late>>

\* Fault: the loop goes on after close().
RawLoopIgnoresClose(s) ==
    /\ pc[s] = "raw_loop"
    /\ \/ cfg.gga /\ streaming[s] /\ Reconnect(s, "unreachable")
       \/ quiet[s] > StallTicks /\ Reconnect(s, "stalled")
       \/ quiet[s] <= StallTicks /\ Goto(s, "recv") /\ UNCHANGED <<conn, out>>
    /\ UNCHANGED <<client, reconnects, opens, late>>

\* The while loop of _raw_stream_once up to recv: closed, a GGA sentence that
\* cannot be sent, a stall.
RawLoop(s) ==
    /\ pc[s] = "raw_loop"
    /\ \/ closed /\ Reconnect(s, "ended")
       \/ ~closed /\ cfg.gga /\ streaming[s] /\ Reconnect(s, "unreachable")
       \/ ~closed /\ quiet[s] > StallTicks /\ Reconnect(s, "stalled")
       \/ ~closed /\ quiet[s] <= StallTicks /\ Goto(s, "recv") /\ UNCHANGED <<conn, out>>
    /\ UNCHANGED <<client, reconnects, opens, late>>

\* recv times out after a tick.
RecvTimeout(s) ==
    /\ pc[s] = "recv"
    /\ quiet' = [quiet EXCEPT ![s] = @ + 1]
    /\ Goto(s, "raw_loop")
    /\ UNCHANGED <<client, reconnects, streaming, batch, out, opens, late>>

\* recv returns data, or the end of the stream.
Recv(s) ==
    /\ pc[s] = "recv"
    /\ Read(s)
    /\ quiet' = [quiet EXCEPT ![s] = 0]
    /\ \E events \in Pushed(streaming[s])
                       \union {Append(e, "eof") : e \in Finished(streaming[s])} :
           batch' = [batch EXCEPT ![s] = events]
    /\ Goto(s, "events")
    /\ UNCHANGED <<client, reconnects, streaming, out, opens>>

RecvError(s) ==
    /\ pc[s] = "recv"
    /\ Reconnect(s, "unreachable")
    /\ UNCHANGED <<client, reconnects, opens, late>>

AtEvent(s, kinds) == pc[s] = "events" /\ batch[s] # << >> /\ Head(batch[s]) \in kinds

\* Events that let the batch go on.  A payload is handed to the consumer, who may
\* take any time to ask for more: the clock of the stall check runs meanwhile.
EventHandled(s) ==
    /\ AtEvent(s, {"connected", "payload"})
    /\ batch' = [batch EXCEPT ![s] = Tail(@)]
    /\ \/ /\ Head(batch[s]) = "connected"
          /\ streaming' = [streaming EXCEPT ![s] = TRUE]
          /\ UNCHANGED quiet
       \/ /\ Head(batch[s]) = "payload"
          /\ \E waited \in quiet[s]..(StallTicks + 1) : quiet' = [quiet EXCEPT ![s] = waited]
          /\ UNCHANGED streaming
    /\ UNCHANGED <<client, pc, reconnects, out, opens, late>>

\* Events that end the connection, an unsent GGA sentence, or the iterator.
EventRaises(s) ==
    /\ \/ AtEvent(s, {"connected"}) /\ cfg.gga /\ Reconnect(s, "unreachable")
       \/ AtEvent(s, {"corrupted"}) /\ Reconnect(s, "corrupted")
       \/ AtEvent(s, {"ended", "eof"}) /\ Reconnect(s, "ended")
       \/ AtEvent(s, {"rejected", "sourcetable"}) /\ Raise(s, "rejected")
    /\ UNCHANGED <<client, reconnects, opens, late>>

BatchDone(s) ==
    /\ pc[s] = "events" /\ batch[s] = << >>
    /\ Goto(s, "raw_loop")
    /\ UNCHANGED <<client, reconnects, conn, out, opens, late>>

-----------------------------------------------------------------------------
\* close(), from the consumer or another thread, at any time.
Close ==
    /\ ~closed
    /\ closed' = TRUE
    /\ UNCHANGED <<cfg, preferred, pc, reconnects, conn, out, opens, late>>

Step(s) ==
    \/ Loop(s) \/ Wake(s)
    \/ HttpOpen(s) \/ HttpRead(s)
    \/ RawOpen(s) \/ RawLoop(s) \/ RecvTimeout(s) \/ Recv(s) \/ RecvError(s)
    \/ EventHandled(s) \/ EventRaises(s) \/ BatchDone(s)

\* Every stream is over and the client closed: nothing is left to do.
Quiescent ==
    /\ closed /\ \A s \in Stream : pc[s] = "over"
    /\ UNCHANGED vars

Next == Close \/ Quiescent \/ \E s \in Stream : Step(s)

Spec == Init /\ [][Next]_vars

\* Sockets and httpx time out and sleeps end, so a stream whose consumer keeps
\* asking for chunks keeps running.
FairSpec == Spec /\ \A s \in Stream : WF_vars(Step(s))

-----------------------------------------------------------------------------
NtripTypeOK ==
    /\ cfg \in Config
    /\ closed \in BOOLEAN
    /\ preferred \in {"none", "rev1"}
    /\ pc \in [Stream -> PC]
    /\ reconnects \in [Stream -> 0..ExpLimit]
    /\ quiet \in [Stream -> 0..(StallTicks + 1)]
    /\ streaming \in [Stream -> BOOLEAN]
    /\ \A s \in Stream : batch[s] \in Seq({"connected", "payload", "rejected",
                                      "sourcetable", "corrupted", "ended", "eof"})
    /\ out \in [Stream -> Outcome]
    /\ opens \in [Stream -> Nat]
    /\ late \in [Stream -> [opens: 0..2, reads: 0..2]]

\* Neither retries nor the free downgrade of "auto" make a client hammer its
\* caster: a stream connects at most max_reconnects + 1 times, and once more
\* only if a downgrade can have happened.
AttemptsBounded ==
    cfg.max # Unlimited =>
        \A s \in Stream :
            opens[s] <= cfg.max + (IF preferred = "rev1" THEN 2 ELSE 1)

\* close() is a flag another thread sets: a stream that was about to connect or
\* to read when it was set does so once more, and then winds down.
ClosedStreamWindsDown ==
    \A s \in Stream : late[s].opens <= 1 /\ late[s].reads <= 1

\* On the raw socket (rev1 or GGA), stalls, drops, resets and corrupted chunks
\* in any order end a stream only after max_reconnects + 1 connections.
RawStreamOutlivesOutages ==
    (cfg.gga \/ cfg.version = "rev1") =>
        \A s \in Stream :
            \/ out[s] \in {"none", "exhausted", "rejected"}
            \/ out[s] \in Reconnectable /\ cfg.max # Unlimited /\ opens[s] = cfg.max + 1
            \/ out[s] = "overflow" /\ opens[s] > ExpLimit

Accepted(s) == pc[s] = "http_read" \/ streaming[s]

\* stream's docstring, "Yield payload bytes across reconnects; terminal
\* rejections raise": a stream the caster had accepted ends with an exception
\* only when its reconnect budget is spent.
DroppedStreamReconnects ==
    [][ \A s \in Stream :
            (Accepted(s) /\ pc'[s] = "over" => BudgetSpent(s)) ]_vars

\* Once the client is closed every stream ends, whatever it was waiting for.
CloseEndsStreams == closed ~> \A s \in Stream : pc[s] = "over"
=============================================================================
