---------------------------- MODULE SingleFlight ----------------------------
(***************************************************************************)
(* open_single_flight: one of several concurrent callers becomes the owner   *)
(* of a cache miss, downloads and publishes, while the others wait.  The      *)
(* owner object is shared by two threads of its caller, the one in the         *)
(* with-block and one that beats.  Its Rust methods borrow it while they run   *)
(* and release the GIL, so calls of the two threads can overlap; a call that   *)
(* finds the object borrowed by the other raises RuntimeError and does         *)
(* nothing.                                                                   *)
(*                                                                          *)
(* Who is registered as owner, and that a silent owner is replaced, is         *)
(* sidereon-core's; what the core answers an owner that was replaced is left   *)
(* open.                                                                      *)
(***************************************************************************)

CONSTANTS
    Caller,     \* the callers of open_single_flight, threads or processes
    Nobody,     \* no owner is registered
    Ghost       \* the registration a dead process left behind

ASSUME FlightAssumption ==
    /\ Nobody \notin Caller /\ Ghost \notin Caller
    /\ Nobody # Ghost

VARIABLES
    committed,   \* does the entry hold a committed product
    holder,      \* the registered owner
    silent,      \* it has not beaten for liveness_timeout_s
    worker,      \* where the thread of each with-block is
    beater,      \* where each caller's heartbeat thread is
    handle,      \* PyExactCacheOwner.owner is Some
    overlapped   \* history: a heartbeat was under way when close() was called

flightVars == <<committed, holder, silent, worker, beater, handle, overlapped>>

FlightInit ==
    /\ committed \in BOOLEAN
    /\ holder \in {Nobody, Ghost}
    /\ silent = FALSE
    /\ worker = [c \in Caller |-> "outside"]
    /\ beater = [c \in Caller |-> "off"]
    /\ handle = [c \in Caller |-> FALSE]
    /\ overlapped = [c \in Caller |-> FALSE]

WorkerGoes(c, from, to) ==
    /\ worker[c] = from
    /\ worker' = [worker EXCEPT ![c] = to]

BeaterGoes(c, from, to) ==
    /\ beater[c] = from
    /\ beater' = [beater EXCEPT ![c] = to]

\* The owner object is borrowed: shared by heartbeat, exclusively by publish.
\* While one of them runs without the GIL, the other thread's call is refused.
SharedBorrow(c)    == beater[c] = "beating"
ExclusiveBorrow(c) == worker[c] = "publishing"

\* The native owner is dropped, and its registration with it.
Drop(c) ==
    /\ handle' = [handle EXCEPT ![c] = FALSE]
    /\ holder' = IF holder = c THEN Nobody ELSE holder

-----------------------------------------------------------------------------
\* data_exact_cache_open_single_flight begins to wait, without the GIL.
Open(c) ==
    /\ WorkerGoes(c, "outside", "waiting")
    /\ ~handle[c] /\ beater[c] = "off"
    /\ overlapped' = [overlapped EXCEPT ![c] = FALSE]
    /\ UNCHANGED <<committed, holder, silent, beater, handle>>

\* ExactCacheOpen::Hit: the caller gets a committed entry.
Hit(c) ==
    /\ committed
    /\ WorkerGoes(c, "waiting", "outside")
    /\ UNCHANGED <<committed, holder, silent, beater, handle, overlapped>>

\* ExactCacheOpen::Owner: nobody is registered, or whoever is has gone silent.
Own(c) ==
    /\ ~committed
    /\ holder = Nobody \/ silent
    /\ WorkerGoes(c, "waiting", "body")
    /\ holder' = c /\ silent' = FALSE
    /\ handle' = [handle EXCEPT ![c] = TRUE]
    /\ UNCHANGED <<committed, beater, overlapped>>

\* wait_timeout_s passes: CacheSingleFlightTimeout.
WaitTimeout(c) ==
    /\ ~committed /\ holder # Nobody
    /\ WorkerGoes(c, "waiting", "outside")
    /\ UNCHANGED <<committed, holder, silent, beater, handle, overlapped>>

-----------------------------------------------------------------------------
\* The caller starts a thread that beats, and stops it.
StartBeater(c) ==
    /\ worker[c] = "body"
    /\ BeaterGoes(c, "off", "resting")
    /\ UNCHANGED <<committed, holder, silent, worker, handle, overlapped>>

StopBeater(c) ==
    /\ BeaterGoes(c, "resting", "off")
    /\ UNCHANGED <<committed, holder, silent, worker, handle, overlapped>>

\* heartbeat borrows the object and calls the core without the GIL.  During a
\* publish it raises RuntimeError, after a publish or close OSError.
BeginHeartbeat(c) ==
    /\ handle[c] /\ ~ExclusiveBorrow(c)
    /\ BeaterGoes(c, "resting", "beating")
    /\ UNCHANGED <<committed, holder, silent, worker, handle, overlapped>>

EndHeartbeat(c) ==
    /\ BeaterGoes(c, "beating", "resting")
    /\ \/ holder = c /\ silent' = FALSE
       \/ UNCHANGED silent              \* the core refuses it
    /\ UNCHANGED <<committed, holder, worker, handle, overlapped>>

-----------------------------------------------------------------------------
\* publish takes the native owner out of the object and hands it to the core.
\* It raises RuntimeError during a heartbeat, OSError without an owner.
BeginPublish(c) ==
    /\ handle[c] /\ ~SharedBorrow(c)
    /\ WorkerGoes(c, "body", "publishing")
    /\ handle' = [handle EXCEPT ![c] = FALSE]
    /\ UNCHANGED <<committed, holder, silent, beater, overlapped>>

\* Fault: a failed publish leaves its registration behind.
EndPublishKeepsRegistration(c) ==
    /\ WorkerGoes(c, "publishing", "body")
    /\ \/ committed' = TRUE /\ Drop(c)
       \/ UNCHANGED <<committed, holder, handle>>
    /\ UNCHANGED <<silent, beater, overlapped>>

\* The core publishes or fails; the owner it was given is gone either way.
EndPublish(c) ==
    /\ WorkerGoes(c, "publishing", "body")
    /\ committed' \in {committed, TRUE}
    /\ Drop(c)
    /\ UNCHANGED <<silent, beater, overlapped>>

\* close() before the with-block is left.  It raises RuntimeError during a
\* heartbeat and does nothing after a publish.
Close(c) ==
    /\ worker[c] = "body" /\ handle[c] /\ ~SharedBorrow(c)
    /\ Drop(c)
    /\ UNCHANGED <<committed, silent, worker, beater, overlapped>>

\* Fault: the with-block has no finally.
LeaveWithoutClose(c) ==
    /\ WorkerGoes(c, "body", "outside")
    /\ overlapped' = [overlapped EXCEPT ![c] = SharedBorrow(c)]
    /\ UNCHANGED <<committed, holder, silent, beater, handle>>

\* The with-block is left, for whatever reason, through the finally of
\* open_single_flight.  During a heartbeat close() raises RuntimeError and the
\* object keeps its native owner.
Leave(c) ==
    /\ WorkerGoes(c, "body", "outside")
    /\ overlapped' = [overlapped EXCEPT ![c] = SharedBorrow(c)]
    /\ IF SharedBorrow(c) THEN UNCHANGED <<handle, holder>> ELSE Drop(c)
    /\ UNCHANGED <<committed, silent, beater>>

\* The object is collected once neither thread refers to it.
Collect(c) ==
    /\ worker[c] = "outside" /\ beater[c] = "off" /\ handle[c]
    /\ Drop(c)
    /\ UNCHANGED <<committed, silent, worker, beater, overlapped>>

-----------------------------------------------------------------------------
\* The registered owner has been silent for liveness_timeout_s.
FallSilent ==
    /\ holder # Nobody
    /\ silent' = TRUE
    /\ UNCHANGED <<committed, holder, worker, beater, handle, overlapped>>

\* The process of a caller dies.
Die(c) ==
    /\ worker[c] # "outside"
    /\ holder' = IF holder = c THEN Ghost ELSE holder
    /\ worker' = [worker EXCEPT ![c] = "outside"]
    /\ beater' = [beater EXCEPT ![c] = "off"]
    /\ handle' = [handle EXCEPT ![c] = FALSE]
    /\ UNCHANGED <<committed, silent, overlapped>>

\* The entry is removed, or damaged, from outside.
Evict ==
    /\ committed
    /\ committed' = FALSE
    /\ UNCHANGED <<holder, silent, worker, beater, handle, overlapped>>

FlightStep(c) ==
    \/ Open(c) \/ Hit(c) \/ Own(c) \/ WaitTimeout(c)
    \/ StartBeater(c) \/ StopBeater(c) \/ BeginHeartbeat(c) \/ EndHeartbeat(c)
    \/ BeginPublish(c) \/ EndPublish(c) \/ Close(c)
    \/ Leave(c) \/ Collect(c) \/ Die(c)

FlightNext == FallSilent \/ Evict \/ \E c \in Caller : FlightStep(c)

FlightSpec == FlightInit /\ [][FlightNext]_flightVars

-----------------------------------------------------------------------------
FlightTypeOK ==
    /\ committed \in BOOLEAN
    /\ holder \in Caller \union {Nobody, Ghost}
    /\ silent \in BOOLEAN
    /\ worker \in [Caller -> {"outside", "waiting", "body", "publishing"}]
    /\ beater \in [Caller -> {"off", "resting", "beating"}]
    /\ handle \in [Caller -> BOOLEAN]
    /\ overlapped \in [Caller -> BOOLEAN]

\* PyExactCacheOwner's docstring, "Native single-flight ownership retained until
\* publish or close": nobody is registered who could not publish any more, so a
\* waiter waits for a caller that is publishing or still can.  It has to hold
\* after refused calls, failed publishes and takeovers in any order.
HolderCanPublish ==
    \A c \in Caller : holder = c => handle[c] \/ worker[c] = "publishing"

\* open_single_flight's "finally: owner.close()": a caller that has left its
\* with-block is registered no more, unless one of its own heartbeats was under
\* way when it left; then the registration lasts until the object is collected.
OwnershipEndsWithBlock ==
    \A c \in Caller :
        holder = c /\ worker[c] \in {"outside", "waiting"} => overlapped[c]
=============================================================================
