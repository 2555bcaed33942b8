---------------------------- MODULE ProductSearch ----------------------------
(***************************************************************************)
(* fetch_ionex and fetch_merged_sp3: walk over candidate products, newest    *)
(* first, until one can be acquired.  What distribution.acquire answers for  *)
(* one candidate is Acquire's matter (a good entry answers at once, a         *)
(* damaged one is repaired from the source or fails the call, an absent one   *)
(* is a miss); here archives publish, other processes fill the same cache and *)
(* entries are damaged between any two candidates.                            *)
(***************************************************************************)
EXTENDS Naturals, Sequences, FiniteSets, SequencesExt

CONSTANTS
    Prd1, Prd2,     \* the predicted lines cod_prd1 and cod_prd2
    MapDays,        \* days of the lookback, newest first (sidereon-core)
    Issues,         \* SP3 products to try for each center, the preferred one first
    Requests        \* the calls made

\* The days are those of the maps; of SP3 products they tell the newer from the older.
NewestFirst(days) == \A i, j \in DOMAIN days : i < j => days[j] < days[i]

ASSUME SearchAssumption ==
    /\ Prd1 # Prd2
    /\ MapDays \in Seq(Nat) /\ NewestFirst(MapDays)
    /\ \A c \in DOMAIN Issues : Issues[c] \in Seq(Nat) /\ NewestFirst(Issues[c])
    /\ \A r \in Requests : /\ r.kind \in {"ionex", "sp3"}
                           /\ r.cross \in BOOLEAN /\ r.offline \in BOOLEAN
                           /\ r.conflict \in BOOLEAN
                           /\ r.centers \in Seq(Range(r.centers)) \ {<< >>}
                           /\ r.kind = "ionex" => Len(r.centers) = 1

VARIABLES
    request,        \* the arguments of the call
    published,      \* what the archives serve
    held,           \* the exact cache: "none", "good" or "bad" for each product
    at, next,       \* the center and the candidate the call has come to
    misses,         \* candidate_attempts, or for IONEX the absences so far
    contributors, absent,   \* results, split as fetch_merged_sp3 does
    out,            \* how the call ended
    available       \* history: what could be had when the call began

vars == <<request, published, held, at, next, misses, contributors, absent,
          out, available>>

Predicted == {Prd1, Prd2}
Absence   == {"product_not_published", "offline_cache_miss"}
Running   == [kind |-> "running", product |-> << >>, error |-> "none"]

\* The lines to try for one map day.
LinesOf(center, cross) ==
    IF ~cross THEN <<center>>
    ELSE IF center = Prd2 THEN <<Prd2, Prd1>> ELSE <<Prd1, Prd2>>

\* Fault: every day of one line before the other line.
LineByLine(r, center) ==
    LET lines == LinesOf(center, r.cross)
    IN  [n \in 1..Len(MapDays) * Len(lines) |->
            [line |-> lines[1 + ((n - 1) \div Len(MapDays))],
             day  |-> MapDays[1 + ((n - 1) % Len(MapDays))]]]

\* The candidates of one center, in the order they are tried: for a map, every line
\* of a day before the next day.
Candidates(r, center) ==
    LET lines == LinesOf(center, r.cross)
    IN  IF r.kind = "sp3"
        THEN [n \in DOMAIN Issues[center] |-> [line |-> center, day |-> Issues[center][n]]]
        ELSE [n \in 1..Len(MapDays) * Len(lines) |->
                 [line |-> lines[1 + ((n - 1) % Len(lines))],
                  day  |-> MapDays[1 + ((n - 1) \div Len(lines))]]]

\* What is refused before anything is acquired: cross_line for another center,
\* a repeated center, a center that does not serve SP3.
Unsupported(r) ==
    \/ r.kind = "ionex" /\ r.cross /\ r.centers[1] \notin Predicted
    \/ r.kind = "sp3" /\ ~IsInjective(r.centers)
    \/ r.kind = "sp3" /\ ~(Range(r.centers) \subseteq DOMAIN Issues)

\* All the candidates of a call.
Asked(r) ==
    IF Unsupported(r) THEN {}
    ELSE UNION {Range(Candidates(r, c)) : c \in Range(r.centers)}

Init ==
    /\ request \in Requests
    /\ published \in SUBSET Asked(request)
    /\ held \in [Asked(request) -> {"none", "good", "bad"}]
    /\ \A q \in Asked(request) \ published : held[q] = "none"
    /\ at = 1 /\ next = 1
    /\ misses = << >> /\ contributors = << >> /\ absent = << >>
    /\ out = IF Unsupported(request)
             THEN [Running EXCEPT !.kind = "raised", !.error = "unsupported"]
             ELSE Running
    /\ available = IF request.offline
                   THEN {q \in Asked(request) : held[q] # "none"}
                   ELSE published

Center    == request.centers[at]
List      == Candidates(request, Center)
This      == List[next]
Searching == out = Running /\ at <= Len(request.centers)

Raise(error) == out' = [kind |-> "raised", product |-> << >>, error |-> error]

\* Fault: one list of attempts for all centers.
NextCenterKeepsMisses == at' = at + 1 /\ next' = 1 /\ UNCHANGED misses
NextCenter == at' = at + 1 /\ next' = 1 /\ misses' = << >>

-----------------------------------------------------------------------------
\* acquire returns the candidate, from its entry or from the archive.
Found ==
    /\ Searching /\ next <= Len(List)
    /\ held[This] = "good" \/ (~request.offline /\ This \in published)
    /\ held' = [held EXCEPT ![This] = "good"]
    /\ \/ /\ request.kind = "ionex"
          /\ out' = [kind |-> "returned", product |-> <<This>>, error |-> "none"]
          /\ UNCHANGED <<at, next, misses, contributors>>
       \/ /\ request.kind = "sp3"
          /\ contributors' = Append(contributors,
                 [center |-> Center, product |-> This, attempts |-> misses])
          /\ NextCenter
          /\ UNCHANGED out
    /\ UNCHANGED <<request, published, absent, available>>

Reason == IF request.offline THEN "offline_cache_miss" ELSE "product_not_published"

\* Fault: a damaged entry is passed over like an absent one.
MissedOrDamaged ==
    /\ Searching /\ next <= Len(List)
    /\ held[This] # "good"
    /\ request.offline \/ This \notin published
    /\ misses' = Append(misses, Reason)
    /\ next' = next + 1
    /\ UNCHANGED <<request, published, held, at, contributors, absent, out, available>>

\* ProductNotPublished or OfflineCacheMiss: the next candidate is tried.
Missed ==
    /\ Searching /\ next <= Len(List)
    /\ held[This] = "none"
    /\ request.offline \/ This \notin published
    /\ misses' = Append(misses, Reason)
    /\ next' = next + 1
    /\ UNCHANGED <<request, published, held, at, contributors, absent, out, available>>

\* Any other failure of acquire (integrity, transport, lock) or of the parser
\* ends the call; the sources found so far are dropped.
Fails ==
    /\ Searching /\ next <= Len(List)
    /\ Raise("failure")
    /\ UNCHANGED <<request, published, held, at, next, misses, contributors, absent,
                   available>>

\* Fault: a center without a product is not reported.
NotReported ==
    /\ Searching /\ next > Len(List) /\ request.kind = "sp3"
    /\ NextCenter
    /\ UNCHANGED <<request, published, held, contributors, absent, out, available>>

\* A center all of whose candidates are absent.
CenterAbsent ==
    /\ Searching /\ next > Len(List) /\ request.kind = "sp3"
    /\ absent' = Append(absent,
           [center |-> Center,
            reason |-> IF misses = << >> THEN "no_candidate" ELSE Last(misses)])
    /\ NextCenter
    /\ UNCHANGED <<request, published, held, contributors, out, available>>

\* fetch_ionex raises the last absence.
NoMap ==
    /\ Searching /\ next > Len(List) /\ request.kind = "ionex"
    /\ Raise(IF misses = << >> THEN "unsupported" ELSE Last(misses))
    /\ UNCHANGED <<request, published, held, at, next, misses, contributors, absent,
                   available>>

\* All centers are done: merge the sources, whose formats may not agree.
Merge ==
    /\ out = Running /\ at > Len(request.centers)
    /\ \/ contributors = << >> /\ Raise("no_products")
       \/ contributors # << >> /\ request.conflict /\ Raise("unsupported")
       \/ contributors # << >> /\ ~request.conflict /\ Raise("incompatible_sources")
       \/ /\ contributors # << >> /\ ~request.conflict
          /\ out' = [kind |-> "returned", product |-> [i \in DOMAIN contributors |->
                                                          contributors[i].product],
                     error |-> "none"]
    /\ UNCHANGED <<request, published, held, at, next, misses, contributors, absent,
                   available>>

-----------------------------------------------------------------------------
\* The rest of the world, while the call runs.
Elsewhere ==
    /\ Searching
    /\ UNCHANGED <<request, at, next, misses, contributors, absent, out, available>>

\* An archive publishes a product; none is withdrawn.
Publish(q) ==
    /\ Elsewhere
    /\ q \notin published
    /\ published' = published \union {q}
    /\ UNCHANGED held

\* Another process acquires a product into the same cache.
OtherAcquires(q) ==
    /\ Elsewhere
    /\ q \in published /\ held[q] # "good"
    /\ held' = [held EXCEPT ![q] = "good"]
    /\ UNCHANGED published

Damage(q) ==
    /\ Elsewhere
    /\ held[q] = "good"
    /\ held' = [held EXCEPT ![q] = "bad"]
    /\ UNCHANGED published

Next ==
    \/ Found \/ Missed \/ Fails
    \/ CenterAbsent \/ NoMap \/ Merge
    \/ \E q \in Asked(request) : Publish(q) \/ OtherAcquires(q) \/ Damage(q)

Spec == Init /\ [][Next]_vars

-----------------------------------------------------------------------------
Returned == out.kind = "returned"

\* "The map date itself is never substituted" by the cross-line walk, and lookback
\* happens for absence only: when a map is returned, none for a later day could be
\* had when the call began, and of its own day not the one of the line asked for,
\* unless that is the one returned.  Damage, failures and publication on the way
\* never make the call step over a day.
NewestMap ==
    Returned /\ request.kind = "ionex" =>
        LET map == out.product[1] IN
        \A q \in available :
            /\ q.day <= map.day
            /\ (q.day = map.day /\ q.line = Center) => map.line = Center

\* Each contributor is the newest issue of its center, and a center is reported
\* absent only when it had none at all: "integrity, cache, and transport failures
\* are real and propagate instead of being silently recorded as an absent center".
NewestIssues ==
    Returned /\ request.kind = "sp3" =>
        /\ \A i \in DOMAIN contributors : \A q \in available :
               q.line = contributors[i].center => q.day <= contributors[i].product.day
        /\ \A i \in DOMAIN absent : \A q \in available : q.line # absent[i].center

\* The centers of list are among those asked for, in their order of precedence.
InOrder(list) ==
    \E place \in [DOMAIN list -> DOMAIN request.centers] :
        /\ \A i \in DOMAIN list : list[i].center = request.centers[place[i]]
        /\ \A i, j \in DOMAIN list : i < j => place[i] < place[j]

\* The report splits the centers asked for into contributors and absent, each in
\* the order of precedence the caller gave, with none twice and none left out;
\* NoProducts names them all.
CentersAccountedFor ==
    (Returned /\ request.kind = "sp3") \/ out.error = "no_products" =>
        /\ InOrder(contributors) /\ InOrder(absent)
        /\ \A c \in Range(request.centers) :
               (\E i \in DOMAIN contributors : contributors[i].center = c)
               # (\E i \in DOMAIN absent : absent[i].center = c)

\* The attempts in a contributor's acquisition facts are the candidates of its own
\* center that were passed over, one for each, for the one reason an online or an
\* offline call can have.
AttemptsAreTheCenters ==
    \A i \in DOMAIN contributors :
        LET c == contributors[i] IN
        c.attempts = [k \in 1..(SelectInSeq(Candidates(request, c.center),
                                            LAMBDA q : q = c.product) - 1) |-> Reason]
=============================================================================
