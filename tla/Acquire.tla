------------------------------- MODULE Acquire -------------------------------
(***************************************************************************)
(* distribution.acquire: obtain one exact product from an ordered list of   *)
(* distributors.  Each source has an entry of its own in the exact cache,    *)
(* worked on under a cross-process lock that is held from the cache lookup   *)
(* to the commit, downloads and retries included.                            *)
(*                                                                          *)
(* The entry itself is sidereon-core's: a commit replaces it as a whole or   *)
(* leaves it, and a process that dies gives up its lock.                     *)
(***************************************************************************)
EXTENDS Naturals, Sequences

CONSTANTS
    Proc,        \* the concurrent callers of acquire
    Source,      \* distribution sources
    Network,     \* those reached over HTTP or FTP; the others are local
    Content,     \* products that pass validation
    Bad,         \* bytes that do not: damaged, truncated, of another product
    Requests,    \* the calls made: [dists, offline, pin]
    Retries,     \* the retries argument
    None, NoPin

ASSUME AcquireAssumption ==
    /\ Network \subseteq Source
    /\ Bad \notin Content /\ NoPin \notin Content
    /\ None \notin Content \union Proc \union Requests \union {Bad, NoPin}
    /\ Requests \subseteq [dists: Seq(Source), offline: BOOLEAN,
                           pin: Content \union {NoPin}]
    /\ \A r \in Requests : r.dists # << >>
    /\ Retries \in Nat \ {0}

VARIABLES
    entry,       \* the committed entry of each source: a content, Bad or None
    legacy,      \* is it an uncommitted triple of an earlier version
    lock,        \* who holds the lock of each entry
    pc, req,     \* where each caller is, with which arguments (None when idle)
    at,          \* index of the distributor it is at
    tries,       \* attempt, the counter of _download_http
    cacheError,  \* cache_error
    item,        \* the bytes downloaded
    attempts,    \* how the earlier distributors failed
    outage,      \* index of first_nonabsence_error, 0 when there is none
    out          \* how the caller's last call ended

cache == <<entry, legacy, lock>>
vars  == <<cache, pc, req, at, tries, cacheError, item, attempts, outage, out>>

Absence  == {"not_published", "offline_miss"}
Fallback == Absence \union {"unavailable"}
Error    == Fallback \union {"cache_read", "cache_write", "checksum", "invalid",
                             "terminal", "all_failed"}
NoOut    == [kind |-> "none", content |-> None, error |-> "none", index |-> 0]

Src(p)   == req[p].dists[at[p]]
PC       == {"idle", "lock", "load", "miss", "download", "received", "commit"}

Init ==
    /\ entry \in [Source -> Content \union {Bad, None}]
    /\ legacy \in [Source -> BOOLEAN]
    /\ \A s \in Source : entry[s] = None => ~legacy[s]
    /\ lock = [s \in Source |-> None]
    /\ pc = [p \in Proc |-> "idle"]
    /\ req = [p \in Proc |-> None]
    /\ at = [p \in Proc |-> 1]
    /\ tries = [p \in Proc |-> 0]
    /\ cacheError = [p \in Proc |-> "none"]
    /\ item = [p \in Proc |-> None]
    /\ attempts = [p \in Proc |-> << >>]
    /\ outage = [p \in Proc |-> 0]
    /\ out = [p \in Proc |-> NoOut]

Goto(p, label) == pc' = [pc EXCEPT ![p] = label]
Unlock(p) == lock' = [s \in Source |-> IF lock[s] = p THEN None ELSE lock[s]]

\* The locals of one turn of the loop over the distributors.
NextTurn(p) ==
    /\ tries' = [tries EXCEPT ![p] = 0]
    /\ cacheError' = [cacheError EXCEPT ![p] = "none"]
    /\ item' = [item EXCEPT ![p] = None]

\* The with-block is left, the call returns or raises, its locals are gone.
End(p, outcome) ==
    /\ Unlock(p)
    /\ NextTurn(p)
    /\ at' = [at EXCEPT ![p] = 1]
    /\ attempts' = [attempts EXCEPT ![p] = << >>]
    /\ outage' = [outage EXCEPT ![p] = 0]
    /\ req' = [req EXCEPT ![p] = None]
    /\ out' = [out EXCEPT ![p] = outcome]
    /\ Goto(p, "idle")

Return(p, content) ==
    End(p, [kind |-> "path", content |-> content, error |-> "none", index |-> at[p]])
Raise(p, error, index) ==
    End(p, [kind |-> "error", content |-> None, error |-> error, index |-> index])

-----------------------------------------------------------------------------
Start(p) ==
    /\ pc[p] = "idle"
    /\ req' \in {[req EXCEPT ![p] = r] : r \in Requests}
    /\ out' = [out EXCEPT ![p] = NoOut]
    /\ Goto(p, "lock")
    /\ UNCHANGED <<cache, at, tries, cacheError, item, attempts, outage>>

\* Fault: the lock does not exclude.
LockShared(p) ==
    /\ pc[p] = "lock"
    /\ lock' = [lock EXCEPT ![Src(p)] = p]
    /\ Goto(p, "load")
    /\ UNCHANGED <<entry, legacy, req, at, tries, cacheError, item, attempts,
                   outage, out>>

\* entry_lock, which also clears what a dead process left half-written.
Lock(p) ==
    /\ pc[p] = "lock"
    /\ lock[Src(p)] = None
    /\ lock' = [lock EXCEPT ![Src(p)] = p]
    /\ Goto(p, "load")
    /\ UNCHANGED <<entry, legacy, req, at, tries, cacheError, item, attempts,
                   outage, out>>

\* Fault: the wait for the lock is not bounded.
LockTimeoutNever(p) ==
    /\ pc[p] = "lock" /\ lock[Src(p)] = None
    /\ Raise(p, "cache_write", at[p])
    /\ UNCHANGED <<entry, legacy>>

\* The lock is not had in cache_lock_timeout_s, or cannot be taken at all.
LockTimeout(p) ==
    /\ pc[p] = "lock"
    /\ Raise(p, "cache_write", at[p])
    /\ UNCHANGED <<entry, legacy>>

Satisfies(content, pin) == pin \in {NoPin, content}

\* Fault: the checksum argument is not compared with a cached product.
LoadHitUnpinned(p) ==
    /\ pc[p] = "load" /\ entry[Src(p)] \in Content
    /\ legacy' = [legacy EXCEPT ![Src(p)] = FALSE]
    /\ Return(p, entry[Src(p)])
    /\ UNCHANGED entry

\* _load_cached: the entry passes every check; an uncommitted triple is
\* committed on the way.
LoadHit(p) ==
    /\ pc[p] = "load" /\ entry[Src(p)] \in Content
    /\ Satisfies(entry[Src(p)], req[p].pin)
    /\ legacy' = [legacy EXCEPT ![Src(p)] = FALSE]
    /\ Return(p, entry[Src(p)])
    /\ UNCHANGED entry

\* That commit fails, before or after the triple became an entry: the call ends
\* before any download.
MigrationFails(p) ==
    /\ pc[p] = "load" /\ entry[Src(p)] \in Content /\ legacy[Src(p)]
    /\ Satisfies(entry[Src(p)], req[p].pin)
    /\ legacy' \in {legacy, [legacy EXCEPT ![Src(p)] = FALSE]}
    /\ Raise(p, "cache_write", at[p])
    /\ UNCHANGED entry

\* There is no entry, or it fails a check, which acquire remembers.
LoadMiss(p) ==
    /\ pc[p] = "load"
    /\ \/ entry[Src(p)] = None /\ UNCHANGED cacheError
       \/ /\ entry[Src(p)] # None
          /\ ~(entry[Src(p)] \in Content /\ Satisfies(entry[Src(p)], req[p].pin))
          /\ cacheError' = [cacheError EXCEPT ![p] =
                                IF entry[Src(p)] = Bad THEN "cache_read" ELSE "checksum"]
    /\ Goto(p, "miss")
    /\ UNCHANGED <<cache, req, at, tries, item, attempts, outage, out>>

-----------------------------------------------------------------------------
\* Fault: a failed check of the cache is forgotten when the source fails too.
SourceErrorOnly(p, error) == error

\* The absence of a source does not erase a failed check of its entry.
FinalError(p, error) == IF cacheError[p] # "none" THEN cacheError[p] ELSE error

\* Fault: the last availability error is reported.
LastOutage(p, error) == IF error = "unavailable" THEN at[p] ELSE outage[p]
FirstOutage(p, error) ==
    IF error = "unavailable" /\ outage[p] = 0 THEN at[p] ELSE outage[p]

\* The distributor failed with an error that lets the next one be tried: go on,
\* or report the failure of the whole list.
FallBack(p, error) ==
    LET failed == Append(attempts[p], error)
        first  == FirstOutage(p, error)
    IN  \/ /\ at[p] < Len(req[p].dists)
           /\ at' = [at EXCEPT ![p] = @ + 1]
           /\ attempts' = [attempts EXCEPT ![p] = failed]
           /\ outage' = [outage EXCEPT ![p] = first]
           /\ Unlock(p) /\ NextTurn(p) /\ Goto(p, "lock")
           /\ UNCHANGED <<req, out>>
        \/ /\ at[p] = Len(req[p].dists)
           /\ \/ first # 0 /\ Raise(p, "unavailable", first)
              \/ first = 0 /\ Len(failed) = 1 /\ Raise(p, error, at[p])
              \/ first = 0 /\ Len(failed) > 1 /\ Raise(p, "all_failed", at[p])

\* The end of a turn that found no product.
SourceFails(p, sourceError) ==
    LET error == FinalError(p, sourceError) IN
    /\ \/ error \in Fallback /\ FallBack(p, error)
       \/ error \notin Fallback /\ Raise(p, error, at[p])
    /\ UNCHANGED <<entry, legacy>>

OfflineMiss(p) ==
    /\ pc[p] = "miss" /\ req[p].offline /\ Src(p) \in Network
    /\ SourceFails(p, "offline_miss")

Download(p) ==
    /\ pc[p] = "miss" /\ ~(req[p].offline /\ Src(p) \in Network)
    /\ Goto(p, "download")
    /\ UNCHANGED <<cache, req, at, tries, cacheError, item, attempts, outage, out>>

\* The source sends bytes, good or not.
Receive(p) ==
    /\ pc[p] = "download"
    /\ item' \in {[item EXCEPT ![p] = c] : c \in Content \union {Bad}}
    /\ Goto(p, "received")
    /\ UNCHANGED <<cache, req, at, tries, cacheError, attempts, outage, out>>

\* Fault: one attempt too many.
RetryOnceMore(p) ==
    /\ pc[p] = "download" /\ Src(p) \in Network
    /\ tries[p] < Retries
    /\ tries' = [tries EXCEPT ![p] = @ + 1]
    /\ UNCHANGED <<cache, pc, req, at, cacheError, item, attempts, outage, out>>

\* A timeout, a refused connection, 408, 429 or 5xx, with attempts left.
Retry(p) ==
    /\ pc[p] = "download" /\ Src(p) \in Network
    /\ tries[p] + 1 < Retries
    /\ tries' = [tries EXCEPT ![p] = @ + 1]
    /\ UNCHANGED <<cache, pc, req, at, cacheError, item, attempts, outage, out>>

\* The last attempt was one too; 404, 410 or 550; anything else (redirects,
\* credentials, an unreadable local file, an HTML page), never retried.
DownloadFails(p) ==
    /\ pc[p] = "download"
    /\ \/ Src(p) \in Network /\ tries[p] + 1 = Retries /\ SourceFails(p, "unavailable")
       \/ Src(p) \in Network /\ SourceFails(p, "not_published")
       \/ SourceFails(p, "terminal")

\* Decompression, the checksum argument and validation, in that order; bytes
\* that decompress but are another product fail the pin before validation.
Validate(p) ==
    /\ pc[p] = "received"
    /\ \/ /\ item[p] \in Content /\ Satisfies(item[p], req[p].pin)
          /\ Goto(p, "commit")
          /\ UNCHANGED <<cache, req, at, tries, cacheError, item, attempts, outage, out>>
       \/ /\ item[p] = Bad
          /\ SourceFails(p, "invalid")
       \/ /\ ~Satisfies(item[p], req[p].pin)
          /\ SourceFails(p, "checksum")

Published(p, s) == /\ entry' = [entry EXCEPT ![s] = item[p]]
                   /\ legacy' = [legacy EXCEPT ![s] = FALSE]

Commit(p) ==
    /\ pc[p] = "commit"
    /\ Published(p, Src(p))
    /\ Return(p, item[p])

\* Fault: a failed commit takes the earlier entry with it.
CommitFailsDrops(p) ==
    /\ pc[p] = "commit"
    /\ entry' = [entry EXCEPT ![Src(p)] = None]
    /\ legacy' = [legacy EXCEPT ![Src(p)] = FALSE]
    /\ Raise(p, "cache_write", at[p])

\* publish fails, before or after the entry was replaced.
CommitFails(p) ==
    /\ pc[p] = "commit"
    /\ Published(p, Src(p)) \/ UNCHANGED <<entry, legacy>>
    /\ Raise(p, "cache_write", at[p])

-----------------------------------------------------------------------------
\* The process dies, perhaps in the middle of a commit.
Crash(p) ==
    /\ pc[p] # "idle"
    /\ \/ UNCHANGED <<entry, legacy>>
       \/ pc[p] = "commit" /\ Published(p, Src(p))
    /\ End(p, NoOut)

\* The files of an entry are damaged behind the library's back.
Damage(s) ==
    /\ entry[s] \in Content
    /\ entry' = [entry EXCEPT ![s] = Bad]
    /\ UNCHANGED <<legacy, lock, pc, req, at, tries, cacheError, item, attempts,
                   outage, out>>

Step(p) ==
    \/ Lock(p) \/ LockTimeout(p)
    \/ LoadHit(p) \/ MigrationFails(p) \/ LoadMiss(p)
    \/ OfflineMiss(p) \/ Download(p)
    \/ Receive(p) \/ Retry(p) \/ DownloadFails(p)
    \/ Validate(p) \/ Commit(p) \/ CommitFails(p)

Next ==
    \/ \E p \in Proc : Start(p) \/ Step(p) \/ Crash(p)
    \/ \E s \in Source : Damage(s)

Spec == Init /\ [][Next]_vars

\* Callers are scheduled, requests time out, and the wait for a lock is bounded.
FairSpec == Spec /\ \A p \in Proc : WF_vars(Step(p))

-----------------------------------------------------------------------------
AcquireTypeOK ==
    /\ entry \in [Source -> Content \union {Bad, None}]
    /\ legacy \in [Source -> BOOLEAN]
    /\ lock \in [Source -> Proc \union {None}]
    /\ pc \in [Proc -> PC]
    /\ req \in [Proc -> Requests \union {None}]
    /\ \A p \in Proc : pc[p] = "idle" <=> req[p] = None
    /\ at \in [Proc -> Nat \ {0}]
    /\ \A p \in Proc : pc[p] # "idle" => at[p] <= Len(req[p].dists)
    /\ tries \in [Proc -> 0..(Retries - 1)]
    /\ cacheError \in [Proc -> {"none", "cache_read", "checksum"}]
    /\ item \in [Proc -> Content \union {Bad, None}]
    /\ attempts \in [Proc -> Seq(Fallback)]
    /\ outage \in [Proc -> Nat]
    /\ out \in [Proc -> [kind: {"none", "path", "error"}, content: Content \union {None},
                         error: Error \union {"none"}, index: Nat]]

Ends(p) == pc[p] # "idle" /\ pc'[p] = "idle"

\* A product handed out, from the cache or a source, has the caller's checksum.
HandedOutIsPinned ==
    [][ \A p \in Proc :
            (Ends(p) /\ out'[p].kind = "path" =>
                Satisfies(out'[p].content, req[p].pin)) ]_vars

Downloading(p) == pc[p] \in {"download", "received", "commit"}

\* Concurrent callers download once: nobody downloads from a source whose entry
\* already answers its request, also not while another caller's commit is what
\* has just put it there.
NoRedundantDownload ==
    \A p \in Proc :
        Downloading(p) =>
            ~(entry[Src(p)] \in Content /\ Satisfies(entry[Src(p)], req[p].pin))

\* A sound entry is never lost or replaced, by crashes or failed commits either,
\* but for a caller who pins other bytes: all callers get the same product.
GoodEntryKept ==
    [][ \A s \in Source :
            (entry[s] \in Content /\ entry'[s] \notin {entry[s], Bad} =>
                \E p \in Proc : /\ lock[s] = p /\ pc[p] = "commit"
                                /\ req[p].pin = entry'[s]) ]_vars

\* "Source absence cannot erase that earlier integrity failure or authorize
\* another distributor" (acquire's comment): a call whose cached entry failed a
\* check ends at that distributor, and not with an error that says the product
\* is absent or the source unreachable.
IntegrityFailureStops ==
    [][ \A p \in Proc :
            (cacheError[p] # "none" =>
                /\ at'[p] = at[p] \/ Ends(p)
                /\ Ends(p) => out'[p].error \notin Fallback \union {"all_failed"}) ]_vars

\* What the caller learns about a list that failed: the first outage if there
\* was one, whatever came after it; all_distributors_failed only when every
\* source said the product is absent.
ReportedFailure ==
    [][ \A p \in Proc :
            LET Outages == {i \in DOMAIN attempts[p] : attempts[p][i] = "unavailable"}
            IN  (Ends(p) =>
                    /\ out'[p].error = "unavailable" =>
                           \/ out'[p].index \in Outages
                              /\ \A i \in Outages : out'[p].index <= i
                           \/ Outages = {} /\ out'[p].index = at[p]
                    /\ out'[p].error \in Absence \union {"all_failed"} => Outages = {}) ]_vars

\* Every call ends, though callers queue for locks held across downloads.
AcquireEnds == \A p \in Proc : pc[p] # "idle" ~> pc[p] = "idle"
=============================================================================
