------------------------ MODULE ProductSearchProofs ------------------------
(***************************************************************************)
(* The safety of the searches, for any centers, days, issues and requests.    *)
(* The walk keeps: every candidate before the one it has come to was absent    *)
(* when the call began, because the archives withdraw nothing and nobody        *)
(* empties the cache.  The rest is the order of the candidates.                  *)
(***************************************************************************)
EXTENDS ProductSearch, TLAPS

CandidatesAt(m) == Candidates(request, request.centers[m])

\* None of the first n candidates of the m-th center could be had.
Passed(m, n) == \A k \in 1..n : CandidatesAt(m)[k] \notin available

Explained(k) == [j \in 1..k - 1 |-> Reason]

\* What could be had when the call began still can.
StillThere ==
    \A q \in available : IF request.offline THEN held[q] # "none" ELSE q \in published

\* An entry for the m-th center: its first candidate that could be had, at the best.
Contributes(entry, m) ==
    \E k \in DOMAIN CandidatesAt(m) :
        /\ entry = [center |-> request.centers[m], product |-> CandidatesAt(m)[k],
                    attempts |-> Explained(k)]
        /\ Passed(m, k - 1)

ContributorsSoFar ==
    \A i \in DOMAIN contributors : \E m \in 1..at - 1 : Contributes(contributors[i], m)

AbsentSoFar ==
    \A i \in DOMAIN absent : \E m \in 1..at - 1 :
        absent[i].center = request.centers[m] /\ Passed(m, Len(CandidatesAt(m)))

\* The centers of list are among the first n, in their order.
OrderedBy(list, centers, n) ==
    \E place \in [DOMAIN list -> 1..n] :
        /\ \A i \in DOMAIN list : list[i].center = centers[place[i]]
        /\ \A i, j \in DOMAIN list : i < j => place[i] < place[j]

Reported(list, m) == \E i \in DOMAIN list : list[i].center = request.centers[m]

SplitSoFar == \A m \in 1..at - 1 : Reported(contributors, m) <=> ~Reported(absent, m)

WalkTypeOK ==
    /\ held \in [Asked(request) -> {"none", "good", "bad"}]
    /\ available \subseteq Asked(request)
    /\ at \in 1..Len(request.centers) + 1
    /\ contributors \in Seq([center : Range(request.centers), product : Asked(request),
                             attempts : Seq(Absence)])
    /\ absent \in Seq([center : Range(request.centers), reason : Absence \union {"no_candidate"}])

\* Where the walk stands in the candidates of its center.
WalkStands ==
    at <= Len(request.centers) =>
        /\ next \in 1..Len(List) + 1
        /\ misses = Explained(next)
        /\ Passed(at, next - 1)

\* What the walk had done when the call ended.
WalkEnded ==
    /\ (Returned /\ request.kind = "sp3") \/ out.error = "no_products" =>
           request.kind = "sp3" /\ at = Len(request.centers) + 1
    /\ Returned /\ request.kind = "ionex" => next \in DOMAIN List /\ out.product = <<This>>

ReportSoFar ==
    /\ ContributorsSoFar /\ AbsentSoFar /\ SplitSoFar
    /\ OrderedBy(contributors, request.centers, at - 1)
    /\ OrderedBy(absent, request.centers, at - 1)

WalkInv ==
    /\ WalkTypeOK /\ StillThere /\ WalkStands /\ WalkEnded /\ ReportSoFar
    /\ request.kind = "ionex" => at = 1 /\ contributors = << >> /\ absent = << >>

SearchInv ==
    /\ request \in Requests
    /\ IF Unsupported(request)
       THEN /\ out = [Running EXCEPT !.kind = "raised", !.error = "unsupported"]
            /\ contributors = << >>
       ELSE WalkInv
-----------------------------------------------------------------------------
\* What Requests may hold, as facts for the provers.
LEMMA RequestFacts ==
  ASSUME NEW r \in Requests
  PROVE  /\ r.kind = "ionex" \/ r.kind = "sp3"
         /\ r.kind = "ionex" => Len(r.centers) = 1 /\ Range(r.centers) = {r.centers[1]}
         /\ Len(r.centers) \in Nat /\ Len(r.centers) >= 1
         /\ DOMAIN r.centers = 1..Len(r.centers)
         /\ \A m \in 1..Len(r.centers) : r.centers[m] \in Range(r.centers)
  <1>1. r.centers \in Seq(Range(r.centers)) /\ r.centers # << >>
    BY SearchAssumption
  <1>2. Len(r.centers) \in Nat /\ Len(r.centers) >= 1 /\ DOMAIN r.centers = 1..Len(r.centers)
    BY <1>1
  <1>3. \A m \in 1..Len(r.centers) : r.centers[m] \in Range(r.centers)
    BY <1>2 DEF Range
  <1>4. ASSUME r.kind = "ionex" PROVE Len(r.centers) = 1 /\ Range(r.centers) = {r.centers[1]}
    <2>1. Len(r.centers) = 1
      BY <1>4, SearchAssumption
    <2>2. DOMAIN r.centers = {1}
      BY <1>2, <2>1
    <2> QED
      BY <2>1, <2>2 DEF Range
  <1> QED
    BY <1>2, <1>3, <1>4, SearchAssumption

\* The SP3 candidates of a center: its issues, each with the center's name.
LEMMA Sp3Candidates ==
  ASSUME NEW r \in Requests, r.kind = "sp3", ~Unsupported(r), NEW c \in Range(r.centers)
  PROVE  /\ Len(Candidates(r, c)) \in Nat
         /\ DOMAIN Candidates(r, c) = 1..Len(Candidates(r, c))
         /\ \A k \in DOMAIN Candidates(r, c) :
                Candidates(r, c)[k].line = c /\ Candidates(r, c)[k].day \in Nat
         /\ \A j, k \in DOMAIN Candidates(r, c) :
                j < k => Candidates(r, c)[k].day < Candidates(r, c)[j].day
  <1> DEFINE issues == Issues[c]
  <1>1. c \in DOMAIN Issues
    BY DEF Unsupported
  <1>2. issues \in Seq(Nat) /\ NewestFirst(issues)
    BY <1>1, SearchAssumption
  <1>3. Candidates(r, c) = [n \in DOMAIN issues |-> [line |-> c, day |-> issues[n]]]
    BY DEF Candidates
  <1> HIDE DEF issues
  <1>4. DOMAIN issues = 1..Len(issues) /\ Len(issues) \in Nat
    BY <1>2
  <1>5. Len(Candidates(r, c)) = Len(issues) /\ DOMAIN Candidates(r, c) = DOMAIN issues
    BY <1>3, <1>4
  <1>6. \A k \in DOMAIN issues : Candidates(r, c)[k] = [line |-> c, day |-> issues[k]]
    BY <1>3
  <1>7. \A k \in DOMAIN issues : issues[k] \in Nat
    BY <1>2
  <1> QED
    BY <1>2, <1>4, <1>5, <1>6, <1>7 DEF NewestFirst

\* The lines tried for one map day: one, or two with the one asked for first.
LEMMA MapLines ==
  ASSUME NEW r \in Requests, r.kind = "ionex", ~Unsupported(r), NEW c, c = r.centers[1]
  PROVE  \/ LinesOf(c, r.cross) = <<c>>
         \/ \E other : LinesOf(c, r.cross) = <<c, other>> /\ other # c
  BY SearchAssumption DEF LinesOf, Unsupported, Predicted

\* The candidates of a map: by day, the newest first, and on one day the line asked
\* for before its sibling.
LEMMA MapCandidates ==
  ASSUME NEW r \in Requests, r.kind = "ionex", ~Unsupported(r), NEW c, c = r.centers[1]
  PROVE  /\ Len(Candidates(r, c)) \in Nat
         /\ DOMAIN Candidates(r, c) = 1..Len(Candidates(r, c))
         /\ \A k \in DOMAIN Candidates(r, c) : Candidates(r, c)[k].day \in Nat
         /\ \A j, k \in DOMAIN Candidates(r, c) : j < k =>
                /\ Candidates(r, c)[k].day <= Candidates(r, c)[j].day
                /\ Candidates(r, c)[k].day = Candidates(r, c)[j].day =>
                       Candidates(r, c)[j].line = c
  <1> DEFINE lines == LinesOf(c, r.cross)
             days  == Len(MapDays)
  <1>1. MapDays \in Seq(Nat) /\ days \in Nat /\ DOMAIN MapDays = 1..days
    BY SearchAssumption
  <1>2. \A i, j \in 1..days : i < j => MapDays[j] < MapDays[i]
    BY <1>1, SearchAssumption DEF NewestFirst
  <1>3. \A i \in 1..days : MapDays[i] \in Nat
    BY <1>1
  <1>4. Candidates(r, c) = [n \in 1..days * Len(lines) |->
            [line |-> lines[1 + ((n - 1) % Len(lines))],
             day  |-> MapDays[1 + ((n - 1) \div Len(lines))]]]
    BY DEF Candidates
  <1>5. CASE lines = <<c>>
    <2>0. Len(lines) = 1 /\ days * 1 = days
      <3>1. Len(lines) = 1
        BY <1>5
      <3> HIDE DEF days
      <3> QED
        BY <1>1, <3>1
    <2>1. Candidates(r, c) = [n \in 1..days |->
              [line |-> lines[1 + ((n - 1) % 1)], day |-> MapDays[1 + ((n - 1) \div 1)]]]
      BY <1>4, <2>0
    <2>2. \A n \in 1..days : (n - 1) % 1 = 0 /\ (n - 1) \div 1 = n - 1
      BY <1>1
    <2>3. \A n \in 1..days : Candidates(r, c)[n] = [line |-> c, day |-> MapDays[n]]
      BY <1>1, <1>5, <2>1, <2>2
    <2>4. DOMAIN Candidates(r, c) = 1..days /\ Len(Candidates(r, c)) = days
      BY <1>1, <2>1
    <2>5. \A n \in 1..days : Candidates(r, c)[n].day = MapDays[n] /\ Candidates(r, c)[n].line = c
      <3> TAKE n \in 1..days
      <3>1. Candidates(r, c)[n] = [line |-> c, day |-> MapDays[n]]
        BY <2>3
      <3> QED
        BY <3>1
    <2> HIDE DEF lines
    <2>6. \A j, k \in 1..days : j < k => Candidates(r, c)[k].day < Candidates(r, c)[j].day
      BY <1>2, <2>5
    <2>7. \A k \in 1..days : Candidates(r, c)[k].day \in Nat
      BY <1>3, <2>5
    <2> HIDE DEF days
    <2> QED
      BY <1>1, <2>4, <2>5, <2>6, <2>7
  <1>6. ASSUME NEW other, lines = <<c, other>>
        PROVE  /\ Len(Candidates(r, c)) \in Nat
               /\ DOMAIN Candidates(r, c) = 1..Len(Candidates(r, c))
               /\ \A k \in DOMAIN Candidates(r, c) : Candidates(r, c)[k].day \in Nat
               /\ \A j, k \in DOMAIN Candidates(r, c) : j < k =>
                      /\ Candidates(r, c)[k].day <= Candidates(r, c)[j].day
                      /\ Candidates(r, c)[k].day = Candidates(r, c)[j].day =>
                             Candidates(r, c)[j].line = c
    <2>1. Candidates(r, c) = [n \in 1..2 * days |->
              [line |-> lines[1 + ((n - 1) % 2)], day |-> MapDays[1 + ((n - 1) \div 2)]]]
      BY <1>1, <1>4, <1>6
    <2>2. DOMAIN Candidates(r, c) = 1..2 * days /\ Len(Candidates(r, c)) = 2 * days
      BY <1>1, <2>1
    <2>3. \A n \in 1..2 * days :
             /\ 1 + ((n - 1) \div 2) \in 1..days
             /\ (n - 1) % 2 = 0 \/ (n - 1) % 2 = 1
             /\ n - 1 = 2 * ((n - 1) \div 2) + ((n - 1) % 2)
      BY <1>1
    <2>4. \A n \in 1..2 * days :
             /\ Candidates(r, c)[n].day = MapDays[1 + ((n - 1) \div 2)]
             /\ (n - 1) % 2 = 0 => Candidates(r, c)[n].line = c
      BY <1>6, <2>1
    <2>5. ASSUME NEW j \in 1..2 * days, NEW k \in 1..2 * days, j < k
          PROVE  /\ Candidates(r, c)[k].day <= Candidates(r, c)[j].day
                 /\ Candidates(r, c)[k].day = Candidates(r, c)[j].day =>
                        Candidates(r, c)[j].line = c
      <3> DEFINE dj == 1 + ((j - 1) \div 2)
                 dk == 1 + ((k - 1) \div 2)
      <3>1. dj \in 1..days /\ dk \in 1..days
        BY <2>3
      <3>2. dj < dk \/ (dj = dk /\ (j - 1) % 2 = 0)
        BY <2>3, <2>5
      <3>3. dj < dk => MapDays[dk] < MapDays[dj]
        BY <1>2, <3>1
      <3>4. MapDays[dj] \in Nat /\ MapDays[dk] \in Nat
        BY <1>3, <3>1
      <3>5. Candidates(r, c)[j].day = MapDays[dj] /\ Candidates(r, c)[k].day = MapDays[dk]
        BY <2>4
      <3>6. (j - 1) % 2 = 0 => Candidates(r, c)[j].line = c
        BY <2>4
      <3> HIDE DEF dj, dk
      <3> QED
        BY <3>1, <3>2, <3>3, <3>4, <3>5, <3>6
    <2>6. \A k \in 1..2 * days : Candidates(r, c)[k].day \in Nat
      BY <1>3, <2>3, <2>4
    <2>7. 2 * days \in Nat
      BY <1>1
    <2> QED
      BY <2>2, <2>5, <2>6, <2>7
  <1> QED
    BY MapLines, <1>5, <1>6

\* The candidates of a center are a sequence of what the call may ask for.
LEMMA CandidatesAsked ==
  ASSUME NEW r \in Requests, ~Unsupported(r), NEW m \in 1..Len(r.centers)
  PROVE  /\ r.centers[m] \in Range(r.centers)
         /\ Len(Candidates(r, r.centers[m])) \in Nat
         /\ DOMAIN Candidates(r, r.centers[m]) = 1..Len(Candidates(r, r.centers[m]))
         /\ \A k \in DOMAIN Candidates(r, r.centers[m]) :
                Candidates(r, r.centers[m])[k] \in Asked(r)
  <1>1. r.centers[m] \in Range(r.centers)
    BY RequestFacts
  <1>2. \A k \in DOMAIN Candidates(r, r.centers[m]) :
            Candidates(r, r.centers[m])[k] \in Asked(r)
    BY <1>1 DEF Asked, Range
  <1>3. CASE r.kind = "sp3"
    BY <1>1, <1>2, <1>3, Sp3Candidates
  <1>4. CASE r.kind = "ionex"
    <2>1. m = 1
      BY <1>4, RequestFacts
    <2> QED
      BY <1>1, <1>2, <1>4, <2>1, MapCandidates
  <1> QED
    BY <1>3, <1>4, RequestFacts

\* What a call may ask for is a candidate of one of its centers.
LEMMA AskedIsCandidate ==
  ASSUME NEW r \in Requests, ~Unsupported(r), NEW q \in Asked(r)
  PROVE  \E m \in 1..Len(r.centers) : \E k \in DOMAIN Candidates(r, r.centers[m]) :
             q = Candidates(r, r.centers[m])[k]
  <1>1. PICK c \in Range(r.centers) : q \in Range(Candidates(r, c))
    BY DEF Asked
  <1>2. PICK m \in 1..Len(r.centers) : c = r.centers[m]
    BY RequestFacts DEF Range
  <1> QED
    BY <1>1, <1>2 DEF Range

-----------------------------------------------------------------------------
\* The initial states satisfy the invariant.
LEMMA SearchInvInit == Init => SearchInv
  <1> SUFFICES ASSUME Init PROVE SearchInv
    OBVIOUS
  <1>1. request \in Requests
    BY DEF Init
  <1>2. CASE Unsupported(request)
    BY <1>1, <1>2 DEF Init, SearchInv
  <1>3. CASE ~Unsupported(request)
    <2>1. at = 1 /\ next = 1 /\ misses = << >> /\ contributors = << >> /\ absent = << >>
      BY DEF Init
    <2>2. out = Running
      BY <1>3 DEF Init
    <2>3. Len(request.centers) \in Nat /\ Len(request.centers) >= 1
      BY <1>1, RequestFacts
    <2>4. StillThere
      BY DEF Init, StillThere
    <2>5. WalkTypeOK
      <3>1. available \subseteq Asked(request)
        BY DEF Init
      <3>2. held \in [Asked(request) -> {"none", "good", "bad"}]
        BY DEF Init
      <3> QED
        BY <2>1, <2>3, <3>1, <3>2 DEF WalkTypeOK
    <2>6. WalkStands
      <3>1. Len(List) \in Nat
        BY <1>1, <1>3, <2>1, <2>3, CandidatesAsked DEF List, Center
      <3>2. Explained(1) = << >>
        BY DEF Explained
      <3> QED
        BY <2>1, <3>1, <3>2 DEF WalkStands, Passed
    <2>7. WalkEnded
      BY <2>2 DEF WalkEnded, Returned, Running
    <2>8. ReportSoFar
      <3>1. DOMAIN contributors = {} /\ DOMAIN absent = {}
        BY <2>1
      <3>2. \A list : DOMAIN list = {} => OrderedBy(list, request.centers, at - 1)
        <4> TAKE list
        <4> HAVE DOMAIN list = {}
        <4>1. [i \in DOMAIN list |-> 1] \in [DOMAIN list -> 1..at - 1]
          OBVIOUS
        <4> QED
          BY <4>1 DEF OrderedBy
      <3> QED
        BY <2>1, <3>1, <3>2 DEF ReportSoFar, ContributorsSoFar, AbsentSoFar, SplitSoFar
    <2> QED
      BY <1>1, <1>3, <2>1, <2>4, <2>5, <2>6, <2>7, <2>8 DEF SearchInv, WalkInv
  <1> QED
    BY <1>2, <1>3

\* A step that leaves the results alone leaves what they say true.
LEMMA ReportKept ==
  ASSUME ReportSoFar, UNCHANGED <<request, available, at, contributors, absent>>
  PROVE  ReportSoFar'
  <1>1. ContributorsSoFar'
    BY DEF ReportSoFar, ContributorsSoFar, Contributes, CandidatesAt, Passed, Explained, Reason
  <1>2. AbsentSoFar'
    BY DEF ReportSoFar, AbsentSoFar, CandidatesAt, Passed
  <1>3. SplitSoFar'
    BY DEF ReportSoFar, SplitSoFar, Reported
  <1>4. OrderedBy(contributors, request.centers, at - 1)'
    BY DEF ReportSoFar, OrderedBy
  <1>5. OrderedBy(absent, request.centers, at - 1)'
    BY DEF ReportSoFar, OrderedBy
  <1> QED
    BY <1>1, <1>2, <1>3, <1>4, <1>5 DEF ReportSoFar

\* A step that leaves the walk where it is leaves what was passed over true.
LEMMA StandsKept ==
  ASSUME WalkStands, UNCHANGED <<request, available, at, next, misses>>
  PROVE  WalkStands'
  BY DEF WalkStands, List, Center, Explained, Reason, Passed, CandidatesAt

\* A list in order stays in order when the next center is added to it.
LEMMA OrderExtended ==
  ASSUME NEW T, NEW list \in Seq(T), NEW e \in T, NEW centers, NEW n \in Nat,
         OrderedBy(list, centers, n), e.center = centers[n + 1]
  PROVE  OrderedBy(Append(list, e), centers, n + 1)
  <1> DEFINE longer == Append(list, e)
  <1>1. PICK place \in [DOMAIN list -> 1..n] :
            /\ \A i \in DOMAIN list : list[i].center = centers[place[i]]
            /\ \A i, j \in DOMAIN list : i < j => place[i] < place[j]
    BY DEF OrderedBy
  <1>2. /\ DOMAIN list = 1..Len(list) /\ Len(list) \in Nat
        /\ DOMAIN longer = 1..Len(list) + 1
        /\ \A i \in DOMAIN list : longer[i] = list[i]
        /\ longer[Len(list) + 1] = e
    OBVIOUS
  <1> DEFINE further == [i \in DOMAIN longer |-> IF i \in DOMAIN list THEN place[i] ELSE n + 1]
  <1> HIDE DEF longer
  <1>3. further \in [DOMAIN longer -> 1..n + 1]
    BY <1>1
  <1>4. \A i \in DOMAIN longer : longer[i].center = centers[further[i]]
    <2> TAKE i \in DOMAIN longer
    <2>1. CASE i \in DOMAIN list
      BY <1>1, <1>2, <2>1
    <2>2. CASE i \notin DOMAIN list
      BY <1>2, <2>2
    <2> QED
      BY <2>1, <2>2
  <1>5. ASSUME NEW i \in DOMAIN longer, NEW j \in DOMAIN longer, i < j
        PROVE  further[i] < further[j]
    <2>1. i \in DOMAIN list
      BY <1>2, <1>5
    <2>2. CASE j \in DOMAIN list
      BY <1>1, <1>5, <2>1, <2>2
    <2>3. CASE j \notin DOMAIN list
      <3>1. place[i] \in 1..n
        BY <1>1, <2>1
      <3> QED
        BY <2>1, <2>3, <3>1
    <2> QED
      BY <2>2, <2>3
  <1> HIDE DEF further
  <1>6. OrderedBy(longer, centers, n + 1)
    BY <1>3, <1>4, <1>5 DEF OrderedBy
  <1> QED
    BY <1>6 DEF longer

\* A list in order stays in order when the next center is not added to it.
LEMMA OrderWidened ==
  ASSUME NEW list, NEW centers, NEW n \in Nat, OrderedBy(list, centers, n)
  PROVE  OrderedBy(list, centers, n + 1)
  <1>1. PICK place \in [DOMAIN list -> 1..n] :
            /\ \A i \in DOMAIN list : list[i].center = centers[place[i]]
            /\ \A i, j \in DOMAIN list : i < j => place[i] < place[j]
    BY DEF OrderedBy
  <1>2. place \in [DOMAIN list -> 1..n + 1]
    BY <1>1
  <1> QED
    BY <1>1, <1>2 DEF OrderedBy

\* The results say the same of the centers passed when the walk goes on to the next.
LEMMA PassedCenters ==
  ASSUME request \in Requests, ~Unsupported(request), WalkInv, request.kind = "sp3",
         at <= Len(request.centers)
  PROVE  /\ at \in Nat /\ at >= 1 /\ at - 1 \in Nat
         /\ \A m \in 1..at - 1 : m \in 1..Len(request.centers) /\ request.centers[m] # Center
         /\ ~Reported(contributors, at) /\ ~Reported(absent, at)
  <1>1. at \in 1..Len(request.centers) + 1 /\ Len(request.centers) \in Nat
    BY RequestFacts DEF WalkInv, WalkTypeOK
  <1>2. at \in Nat /\ at >= 1 /\ at - 1 \in Nat
    BY <1>1
  <1>3. IsInjective(request.centers)
    BY DEF Unsupported
  <1>4. \A m \in 1..at - 1 : m \in 1..Len(request.centers) /\ request.centers[m] # Center
    <2> TAKE m \in 1..at - 1
    <2>1. m \in 1..Len(request.centers) /\ at \in 1..Len(request.centers) /\ m # at
      BY <1>1
    <2> QED
      BY <1>3, <2>1, RequestFacts DEF IsInjective, Center
  <1>5. ~Reported(contributors, at)
    BY <1>4 DEF WalkInv, ReportSoFar, ContributorsSoFar, Contributes, Reported, Center
  <1>6. ~Reported(absent, at)
    BY <1>4 DEF WalkInv, ReportSoFar, AbsentSoFar, Reported, Center
  <1> QED
    BY <1>2, <1>4, <1>5, <1>6

\* A contributor added with its candidate and the misses before it.
LEMMA ContributorAdded ==
  ASSUME request \in Requests, ~Unsupported(request), WalkInv, request.kind = "sp3",
         Searching, next <= Len(List), at' = at + 1,
         contributors' = Append(contributors,
             [center |-> Center, product |-> This, attempts |-> misses]),
         UNCHANGED <<request, available, absent>>
  PROVE  ReportSoFar' /\ contributors' \in Seq([center : Range(request.centers),
             product : Asked(request), attempts : Seq(Absence)])
  <1> DEFINE new == [center |-> Center, product |-> This, attempts |-> misses]
             T   == [center : Range(request.centers), product : Asked(request),
                     attempts : Seq(Absence)]
  <1>1. at <= Len(request.centers) /\ at \in 1..Len(request.centers)
    BY RequestFacts DEF Searching, WalkInv, WalkTypeOK
  <1>2. /\ at \in Nat /\ at >= 1 /\ at - 1 \in Nat
        /\ \A m \in 1..at - 1 : m \in 1..Len(request.centers) /\ request.centers[m] # Center
        /\ ~Reported(contributors, at) /\ ~Reported(absent, at)
    BY <1>1, PassedCenters
  <1>3. /\ Center \in Range(request.centers) /\ Len(List) \in Nat
        /\ DOMAIN List = 1..Len(List)
        /\ \A k \in DOMAIN List : List[k] \in Asked(request)
    BY <1>1, CandidatesAsked DEF Center, List
  <1>4. next \in DOMAIN List /\ misses = Explained(next) /\ Passed(at, next - 1)
    BY <1>1, <1>3 DEF WalkInv, WalkStands
  <1>5. Explained(next) \in Seq(Absence)
    <2>1. next - 1 \in Nat
      BY <1>3, <1>4
    <2>2. Reason \in Absence
      BY DEF Reason, Absence
    <2>3. Explained(next) \in [1..next - 1 -> Absence]
      BY <2>2 DEF Explained
    <2> QED
      BY <2>1, <2>3
  <1>6. new \in T
    BY <1>3, <1>4, <1>5 DEF This
  <1>7. contributors \in Seq(T)
    BY DEF WalkInv, WalkTypeOK
  <1>8. /\ contributors' = Append(contributors, new)
        /\ contributors' \in Seq(T)
        /\ DOMAIN contributors = 1..Len(contributors) /\ Len(contributors) \in Nat
        /\ DOMAIN contributors' = 1..Len(contributors) + 1
        /\ \A i \in DOMAIN contributors : contributors'[i] = contributors[i]
        /\ contributors'[Len(contributors) + 1] = new
    BY <1>6, <1>7
  <1>9. ContributorsSoFar'
    <2>0. at' - 1 = at
      BY <1>2
    <2>1. \A e, m : Contributes(e, m)' <=> Contributes(e, m)
      BY DEF Contributes, CandidatesAt, Explained, Reason, Passed
    <2>2. ASSUME NEW i \in DOMAIN contributors'
          PROVE  \E m \in 1..at : Contributes(contributors'[i], m)
      <3>1. CASE i \in DOMAIN contributors
        <4>1. PICK m \in 1..at - 1 : Contributes(contributors[i], m)
          BY <3>1 DEF WalkInv, ReportSoFar, ContributorsSoFar
        <4>2. m \in 1..at
          BY <1>2
        <4> QED
          BY <1>8, <3>1, <4>1, <4>2
      <3>2. CASE i \notin DOMAIN contributors
        <4>1. i = Len(contributors) + 1
          BY <1>8, <3>2
        <4>2. contributors'[i] = [center |-> request.centers[at],
                  product |-> CandidatesAt(at)[next], attempts |-> Explained(next)]
          BY <1>4, <1>8, <4>1 DEF Center, This, List, CandidatesAt
        <4>3. next \in DOMAIN CandidatesAt(at)
          BY <1>4 DEF CandidatesAt, List, Center
        <4>4. Contributes(contributors'[i], at)
          BY <1>4, <4>2, <4>3 DEF Contributes
        <4> QED
          BY <1>2, <4>4
      <3> QED
        BY <3>1, <3>2
    <2> QED
      BY <2>0, <2>1, <2>2 DEF ContributorsSoFar
  <1>10. AbsentSoFar'
    <2> SUFFICES ASSUME NEW i \in DOMAIN absent
                 PROVE  \E m \in 1..at : /\ absent[i].center = request.centers[m]
                                         /\ Passed(m, Len(CandidatesAt(m)))
      BY <1>2 DEF AbsentSoFar, CandidatesAt, Passed
    <2>1. PICK m \in 1..at - 1 : /\ absent[i].center = request.centers[m]
                                 /\ Passed(m, Len(CandidatesAt(m)))
      BY DEF WalkInv, ReportSoFar, AbsentSoFar
    <2>2. m \in 1..at
      BY <1>2
    <2> QED
      BY <2>1, <2>2
  <1>11. SplitSoFar'
    <2>0. at' - 1 = at
      BY <1>2
    <2> SUFFICES ASSUME NEW m \in 1..at
                 PROVE  Reported(contributors', m) <=> ~Reported(absent, m)
      BY <2>0 DEF SplitSoFar, Reported
    <2>1. CASE m = at
      <3>1. contributors'[Len(contributors) + 1].center = request.centers[m]
        BY <1>8, <2>1 DEF Center
      <3>2. Reported(contributors', m)
        BY <1>8, <3>1 DEF Reported
      <3> QED
        BY <1>2, <2>1, <3>2
    <2>2. CASE m # at
      <3>1. m \in 1..at - 1
        BY <1>2, <2>2
      <3>2. new.center # request.centers[m]
        BY <1>2, <3>1
      <3> HIDE DEF new
      <3>3. Reported(contributors', m) <=> Reported(contributors, m)
        BY <1>8, <3>2 DEF Reported
      <3> QED
        BY <3>1, <3>3 DEF WalkInv, ReportSoFar, SplitSoFar
    <2> QED
      BY <2>1, <2>2
  <1>12. (at - 1) + 1 = at /\ (at + 1) - 1 = at
    BY <1>2
  <1>13. OrderedBy(contributors', request.centers, at)
    <2>1. OrderedBy(contributors, request.centers, at - 1)
      BY DEF WalkInv, ReportSoFar
    <2>2. new.center = request.centers[(at - 1) + 1]
      BY <1>12 DEF Center
    <2> HIDE DEF new, T
    <2> QED
      BY <1>2, <1>6, <1>7, <1>8, <1>12, <2>1, <2>2, OrderExtended
  <1>14. OrderedBy(absent, request.centers, at)
    BY <1>2, <1>12, OrderWidened DEF WalkInv, ReportSoFar
  <1> QED
    BY <1>8, <1>9, <1>10, <1>11, <1>12, <1>13, <1>14 DEF ReportSoFar

\* A center added to those without a product, all of whose candidates were passed.
LEMMA AbsentAdded ==
  ASSUME request \in Requests, ~Unsupported(request), WalkInv, request.kind = "sp3",
         Searching, next > Len(List), at' = at + 1,
         NEW reason \in Absence \union {"no_candidate"},
         absent' = Append(absent, [center |-> Center, reason |-> reason]),
         UNCHANGED <<request, available, contributors>>
  PROVE  ReportSoFar' /\ absent' \in Seq([center : Range(request.centers),
                                          reason : Absence \union {"no_candidate"}])
  <1> DEFINE new == [center |-> Center, reason |-> reason]
             T   == [center : Range(request.centers), reason : Absence \union {"no_candidate"}]
  <1>1. at <= Len(request.centers) /\ at \in 1..Len(request.centers)
    BY RequestFacts DEF Searching, WalkInv, WalkTypeOK
  <1>2. /\ at \in Nat /\ at >= 1 /\ at - 1 \in Nat
        /\ \A m \in 1..at - 1 : m \in 1..Len(request.centers) /\ request.centers[m] # Center
        /\ ~Reported(contributors, at) /\ ~Reported(absent, at)
    BY <1>1, PassedCenters
  <1>3. Center \in Range(request.centers) /\ Len(List) \in Nat
    BY <1>1, CandidatesAsked DEF Center, List
  <1>4. Passed(at, Len(CandidatesAt(at)))
    <2>1. next = Len(List) + 1
      BY <1>1, <1>3 DEF WalkInv, WalkStands
    <2>2. Passed(at, next - 1)
      BY <1>1 DEF WalkInv, WalkStands
    <2>3. next - 1 = Len(CandidatesAt(at))
      BY <1>3, <2>1 DEF CandidatesAt, List, Center
    <2> QED
      BY <2>2, <2>3
  <1>5. new \in T
    BY <1>3
  <1>6. absent \in Seq(T)
    BY DEF WalkInv, WalkTypeOK
  <1>7. /\ absent' = Append(absent, new)
        /\ absent' \in Seq(T)
        /\ DOMAIN absent = 1..Len(absent) /\ Len(absent) \in Nat
        /\ DOMAIN absent' = 1..Len(absent) + 1
        /\ \A i \in DOMAIN absent : absent'[i] = absent[i]
        /\ absent'[Len(absent) + 1] = new
    BY <1>5, <1>6
  <1>8. AbsentSoFar'
    <2> SUFFICES ASSUME NEW i \in DOMAIN absent'
                 PROVE  \E m \in 1..at : /\ absent'[i].center = request.centers[m]
                                         /\ Passed(m, Len(CandidatesAt(m)))
      BY <1>2 DEF AbsentSoFar, CandidatesAt, Passed
    <2>1. CASE i \in DOMAIN absent
      <3>1. PICK m \in 1..at - 1 : /\ absent[i].center = request.centers[m]
                                   /\ Passed(m, Len(CandidatesAt(m)))
        BY <2>1 DEF WalkInv, ReportSoFar, AbsentSoFar
      <3>2. m \in 1..at
        BY <1>2
      <3> QED
        BY <1>7, <2>1, <3>1, <3>2
    <2>2. CASE i \notin DOMAIN absent
      <3>1. absent'[i].center = request.centers[at]
        BY <1>7, <2>2 DEF Center
      <3>2. at \in 1..at
        BY <1>2
      <3> QED
        BY <1>4, <3>1, <3>2
    <2> QED
      BY <2>1, <2>2
  <1>9. ContributorsSoFar'
    <2>0. at' - 1 = at
      BY <1>2
    <2>1. \A e, m : Contributes(e, m)' <=> Contributes(e, m)
      BY DEF Contributes, CandidatesAt, Explained, Reason, Passed
    <2>2. ASSUME NEW i \in DOMAIN contributors
          PROVE  \E m \in 1..at : Contributes(contributors[i], m)
      <3>1. PICK m \in 1..at - 1 : Contributes(contributors[i], m)
        BY DEF WalkInv, ReportSoFar, ContributorsSoFar
      <3>2. m \in 1..at
        BY <1>2
      <3> QED
        BY <3>1, <3>2
    <2> QED
      BY <2>0, <2>1, <2>2 DEF ContributorsSoFar
  <1>10. SplitSoFar'
    <2>0. at' - 1 = at
      BY <1>2
    <2> SUFFICES ASSUME NEW m \in 1..at
                 PROVE  Reported(contributors, m) <=> ~Reported(absent', m)
      BY <2>0 DEF SplitSoFar, Reported
    <2>1. CASE m = at
      <3>1. absent'[Len(absent) + 1].center = request.centers[m]
        BY <1>7, <2>1 DEF Center
      <3>2. Reported(absent', m)
        BY <1>7, <3>1 DEF Reported
      <3> QED
        BY <1>2, <2>1, <3>2
    <2>2. CASE m # at
      <3>1. m \in 1..at - 1
        BY <1>2, <2>2
      <3>2. new.center # request.centers[m]
        BY <1>2, <3>1
      <3> HIDE DEF new
      <3>3. Reported(absent', m) <=> Reported(absent, m)
        BY <1>7, <3>2 DEF Reported
      <3> QED
        BY <3>1, <3>3 DEF WalkInv, ReportSoFar, SplitSoFar
    <2> QED
      BY <2>1, <2>2
  <1>11. (at - 1) + 1 = at /\ (at + 1) - 1 = at
    BY <1>2
  <1>12. OrderedBy(absent', request.centers, at)
    <2>1. OrderedBy(absent, request.centers, at - 1)
      BY DEF WalkInv, ReportSoFar
    <2>2. new.center = request.centers[(at - 1) + 1]
      BY <1>11 DEF Center
    <2> HIDE DEF new, T
    <2> QED
      BY <1>2, <1>5, <1>6, <1>7, <1>11, <2>1, <2>2, OrderExtended
  <1>13. OrderedBy(contributors, request.centers, at)
    BY <1>2, <1>11, OrderWidened DEF WalkInv, ReportSoFar
  <1> QED
    BY <1>7, <1>8, <1>9, <1>10, <1>11, <1>12, <1>13 DEF ReportSoFar

-----------------------------------------------------------------------------
\* While the walk goes on, what Found, Missed and the rest of the world work on.
LEMMA WalkFacts ==
  ASSUME request \in Requests, ~Unsupported(request), WalkInv, Searching
  PROVE  /\ at \in 1..Len(request.centers) /\ Len(request.centers) \in Nat
         /\ Len(List) \in Nat /\ DOMAIN List = 1..Len(List)
         /\ next \in 1..Len(List) + 1
         /\ misses = Explained(next) /\ Passed(at, next - 1)
         /\ next <= Len(List) => next \in DOMAIN List /\ This \in Asked(request)
  <1>1. at \in 1..Len(request.centers) /\ Len(request.centers) \in Nat
    BY RequestFacts DEF Searching, WalkInv, WalkTypeOK
  <1>2. /\ Len(List) \in Nat /\ DOMAIN List = 1..Len(List)
        /\ \A k \in DOMAIN List : List[k] \in Asked(request)
    BY <1>1, CandidatesAsked DEF List, Center
  <1>3. next \in 1..Len(List) + 1 /\ misses = Explained(next) /\ Passed(at, next - 1)
    BY <1>1 DEF WalkInv, WalkStands
  <1> QED
    BY <1>1, <1>2, <1>3 DEF This

\* The walk at the beginning of the next center.
LEMMA NextCenterStands ==
  ASSUME request \in Requests, ~Unsupported(request), WalkInv, Searching, NextCenter,
         UNCHANGED <<request, available>>
  PROVE  WalkStands' /\ at' \in 1..Len(request.centers) + 1
  <1>1. at \in 1..Len(request.centers) /\ Len(request.centers) \in Nat
    BY WalkFacts
  <1>2. at' = at + 1 /\ next' = 1 /\ misses' = << >>
    BY DEF NextCenter
  <1>3. ASSUME at' <= Len(request.centers)
        PROVE  /\ next' \in 1..Len(List') + 1
               /\ misses' = Explained(next)' /\ Passed(at, next - 1)'
    <2>1. List' = Candidates(request, request.centers[at'])
      BY DEF List, Center
    <2>2. at' \in 1..Len(request.centers)
      BY <1>1, <1>2, <1>3
    <2>3. Len(List') \in Nat
      BY <2>1, <2>2, CandidatesAsked
    <2>4. misses' = Explained(next)'
      BY <1>2 DEF Explained
    <2>5. Passed(at, next - 1)'
      BY <1>2 DEF Passed
    <2> QED
      BY <1>2, <2>3, <2>4, <2>5
  <1>4. WalkStands'
    BY <1>3 DEF WalkStands
  <1> QED
    BY <1>1, <1>2, <1>4

\* A candidate is found: the end of a map's search, a contributor of a merge.
LEMMA FoundKeeps ==
  ASSUME request \in Requests, ~Unsupported(request), WalkInv, Found
  PROVE  WalkInv'
  <1>1. Searching /\ next <= Len(List)
    BY DEF Found
  <1>2. /\ held' = [held EXCEPT ![This] = "good"]
        /\ UNCHANGED <<request, published, absent, available>>
    BY DEF Found
  <1>3. next \in DOMAIN List /\ This \in Asked(request)
    BY <1>1, WalkFacts
  <1>4. held' \in [Asked(request) -> {"none", "good", "bad"}]
    BY <1>2 DEF WalkInv, WalkTypeOK
  <1>5. StillThere'
    <2>1. \A q \in Asked(request) : held'[q] = held[q] \/ held'[q] = "good"
      BY <1>2 DEF WalkInv, WalkTypeOK
    <2>2. available \subseteq Asked(request)
      BY DEF WalkInv, WalkTypeOK
    <2> QED
      BY <1>2, <2>1, <2>2 DEF WalkInv, StillThere
  <1>6. CASE request.kind = "ionex"
    <2>1. /\ out' = [kind |-> "returned", product |-> <<This>>, error |-> "none"]
          /\ UNCHANGED <<at, next, misses, contributors>>
      BY <1>6 DEF Found
    <2>2. WalkTypeOK'
      BY <1>2, <1>4, <2>1 DEF WalkInv, WalkTypeOK
    <2>3. WalkStands' /\ ReportSoFar'
      BY <1>2, <2>1, StandsKept, ReportKept DEF WalkInv
    <2>4. WalkEnded'
      BY <1>2, <1>3, <1>6, <2>1 DEF WalkEnded, Returned, List, Center, This
    <2> QED
      BY <1>2, <1>5, <2>1, <2>2, <2>3, <2>4 DEF WalkInv
  <1>7. CASE request.kind = "sp3"
    <2>1. /\ contributors' = Append(contributors,
                 [center |-> Center, product |-> This, attempts |-> misses])
          /\ NextCenter /\ out' = out
      BY <1>7 DEF Found
    <2>2. at' = at + 1
      BY <2>1 DEF NextCenter
    <2>3. /\ ReportSoFar'
          /\ contributors' \in Seq([center : Range(request.centers),
                 product : Asked(request), attempts : Seq(Absence)])
      BY <1>1, <1>2, <1>7, <2>1, <2>2, ContributorAdded
    <2>4. WalkStands' /\ at' \in 1..Len(request.centers) + 1
      BY <1>1, <1>2, <2>1, NextCenterStands
    <2>5. WalkTypeOK'
      BY <1>2, <1>4, <2>3, <2>4 DEF WalkInv, WalkTypeOK
    <2>6. WalkEnded'
      BY <1>1, <2>1 DEF Searching, Running, WalkEnded, Returned
    <2> QED
      BY <1>2, <1>5, <1>7, <2>3, <2>4, <2>5, <2>6 DEF WalkInv
  <1> QED
    BY <1>6, <1>7, RequestFacts

\* A candidate is absent: it could not be had at the beginning either.
LEMMA MissedKeeps ==
  ASSUME request \in Requests, ~Unsupported(request), WalkInv, Missed
  PROVE  WalkInv'
  <1>1. /\ Searching /\ next <= Len(List)
        /\ held[This] = "none" /\ (request.offline \/ This \notin published)
        /\ misses' = Append(misses, Reason) /\ next' = next + 1
        /\ UNCHANGED <<request, published, held, at, contributors, absent, out, available>>
    BY DEF Missed
  <1>2. /\ at \in 1..Len(request.centers) /\ Len(List) \in Nat
        /\ next \in 1..Len(List) /\ misses = Explained(next) /\ Passed(at, next - 1)
    BY <1>1, WalkFacts
  <1>3. This \notin available
    BY <1>1 DEF WalkInv, StillThere
  <1>4. Passed(at, next)
    BY <1>2, <1>3 DEF Passed, This, List, Center, CandidatesAt
  <1>5. Append(Explained(next), Reason) = Explained(next + 1)
    <2>1. next - 1 \in Nat /\ (next + 1) - 1 = (next - 1) + 1
      BY <1>2
    <2> DEFINE n == next - 1
    <2>2. Explained(next) = [j \in 1..n |-> Reason] /\ Explained(next + 1) = [j \in 1..n + 1 |-> Reason]
      BY <2>1 DEF Explained
    <2> HIDE DEF n
    <2>3. n \in Nat
      BY <2>1 DEF n
    <2>4. Append([j \in 1..n |-> Reason], Reason) = [j \in 1..n + 1 |-> Reason]
      <3>1. [j \in 1..n |-> Reason] \in Seq({Reason}) /\ Len([j \in 1..n |-> Reason]) = n
        BY <2>3
      <3> QED
        BY <2>3, <3>1
    <2> QED
      BY <2>2, <2>4
  <1>6. WalkStands'
    <2>1. List' = List
      BY <1>1 DEF List, Center
    <2>2. next' \in 1..Len(List) + 1
      BY <1>1, <1>2
    <2>3. misses' = Explained(next)'
      BY <1>1, <1>2, <1>5 DEF Explained, Reason
    <2>4. next' - 1 = next
      BY <1>1, <1>2
    <2>5. Passed(at, next - 1)'
      BY <1>1, <1>4, <2>4 DEF Passed, CandidatesAt
    <2> QED
      BY <2>1, <2>2, <2>3, <2>5 DEF WalkStands
  <1>7. ReportSoFar'
    BY <1>1, ReportKept DEF WalkInv
  <1>8. WalkTypeOK' /\ StillThere'
    BY <1>1 DEF WalkInv, WalkTypeOK, StillThere
  <1>9. WalkEnded'
    BY <1>1 DEF Searching, Running, WalkEnded, Returned
  <1> QED
    BY <1>1, <1>6, <1>7, <1>8, <1>9 DEF WalkInv

\* Steps of the call that end it without a product.
LEMMA EndKeeps ==
  ASSUME request \in Requests, ~Unsupported(request), WalkInv, Fails \/ NoMap \/ Merge
  PROVE  WalkInv'
  <1>1. UNCHANGED <<request, published, held, at, next, misses, contributors, absent, available>>
    BY DEF Fails, NoMap, Merge
  <1>2. WalkStands' /\ ReportSoFar'
    BY <1>1, StandsKept, ReportKept DEF WalkInv
  <1>3. WalkTypeOK' /\ StillThere'
    BY <1>1 DEF WalkInv, WalkTypeOK, StillThere
  <1>4. WalkEnded'
    <2>1. CASE Fails
      BY <2>1 DEF Fails, Raise, WalkEnded, Returned
    <2>2. CASE NoMap
      <3>1. /\ Searching /\ next > Len(List)
            /\ Raise(IF misses = << >> THEN "unsupported" ELSE Last(misses))
        BY <2>2 DEF NoMap
      <3>2. misses # << >> => Last(misses) = Reason
        <4>1. misses = Explained(next) /\ next - 1 \in Nat
          BY <3>1, WalkFacts
        <4> DEFINE n == next - 1
        <4>2. misses = [j \in 1..n |-> Reason] /\ n \in Nat
          BY <4>1 DEF Explained
        <4> HIDE DEF n
        <4>3. Len(misses) = n /\ (misses # << >> => n \in 1..n)
          BY <4>2
        <4> QED
          BY <4>2, <4>3 DEF Last
      <3>3. out'.kind = "raised" /\ out'.error # "no_products"
        BY <3>1, <3>2 DEF Raise, Reason
      <3> QED
        BY <3>3 DEF WalkEnded, Returned
    <2>3. CASE Merge
      <3>1. at > Len(request.centers)
        BY <2>3 DEF Merge
      <3>2. at = Len(request.centers) + 1
        BY <3>1, RequestFacts DEF WalkInv, WalkTypeOK
      <3>3. request.kind = "sp3"
        BY <3>1, RequestFacts DEF WalkInv
      <3> QED
        BY <1>1, <3>2, <3>3 DEF WalkEnded
    <2> QED
      BY <2>1, <2>2, <2>3
  <1> QED
    BY <1>1, <1>2, <1>3, <1>4 DEF WalkInv

\* A center without a product.
LEMMA CenterAbsentKeeps ==
  ASSUME request \in Requests, ~Unsupported(request), WalkInv, CenterAbsent
  PROVE  WalkInv'
  <1> DEFINE reason == IF misses = << >> THEN "no_candidate" ELSE Last(misses)
  <1>1. /\ Searching /\ next > Len(List) /\ request.kind = "sp3"
        /\ absent' = Append(absent, [center |-> Center, reason |-> reason])
        /\ NextCenter
        /\ UNCHANGED <<request, published, held, contributors, out, available>>
    BY DEF CenterAbsent
  <1>2. reason \in Absence \union {"no_candidate"}
    <2>1. misses = Explained(next) /\ next - 1 \in Nat
      BY <1>1, WalkFacts
    <2> DEFINE n == next - 1
    <2>2. misses = [j \in 1..n |-> Reason] /\ n \in Nat
      BY <2>1 DEF Explained
    <2> HIDE DEF n
    <2>3. Len(misses) = n /\ (misses # << >> => n \in 1..n)
      BY <2>2
    <2>4. misses # << >> => Last(misses) = Reason
      BY <2>2, <2>3 DEF Last
    <2> QED
      BY <2>4 DEF Reason, Absence
  <1> HIDE DEF reason
  <1>3. at' = at + 1
    BY <1>1 DEF NextCenter
  <1>4. ReportSoFar' /\ absent' \in Seq([center : Range(request.centers),
                                          reason : Absence \union {"no_candidate"}])
    BY <1>1, <1>2, <1>3, AbsentAdded
  <1>5. WalkStands' /\ at' \in 1..Len(request.centers) + 1
    BY <1>1, NextCenterStands
  <1>6. WalkTypeOK' /\ StillThere'
    BY <1>1, <1>4, <1>5 DEF WalkInv, WalkTypeOK, StillThere
  <1>7. WalkEnded'
    BY <1>1 DEF Searching, Running, WalkEnded, Returned
  <1> QED
    BY <1>1, <1>4, <1>5, <1>6, <1>7 DEF WalkInv

\* Nothing that happens elsewhere takes away what could be had.
LEMMA ElsewhereKeeps ==
  ASSUME request \in Requests, ~Unsupported(request), WalkInv, NEW q \in Asked(request),
         Publish(q) \/ OtherAcquires(q) \/ Damage(q)
  PROVE  WalkInv'
  <1>1. UNCHANGED <<request, at, next, misses, contributors, absent, out, available>>
    BY DEF Publish, OtherAcquires, Damage, Elsewhere
  <1>2. WalkStands' /\ ReportSoFar'
    BY <1>1, StandsKept, ReportKept DEF WalkInv
  <1>3. held \in [Asked(request) -> {"none", "good", "bad"}] /\ available \subseteq Asked(request)
    BY DEF WalkInv, WalkTypeOK
  <1>4. held' \in [Asked(request) -> {"none", "good", "bad"}]
    BY <1>3 DEF Publish, OtherAcquires, Damage
  <1>5. published \subseteq published'
    BY DEF Publish, OtherAcquires, Damage
  <1>6. \A p \in Asked(request) : held[p] # "none" => held'[p] # "none"
    BY <1>3 DEF Publish, OtherAcquires, Damage
  <1>7. WalkTypeOK'
    BY <1>1, <1>4 DEF WalkInv, WalkTypeOK
  <1>8. StillThere'
    BY <1>1, <1>3, <1>5, <1>6 DEF WalkInv, StillThere
  <1>9. WalkEnded'
    BY <1>1 DEF WalkInv, WalkEnded, Returned, This, List, Center
  <1> QED
    BY <1>1, <1>2, <1>7, <1>8, <1>9 DEF WalkInv

\* Every step keeps the invariant; a call refused at the beginning takes none.
LEMMA SearchInvStep == SearchInv /\ [Next]_vars => SearchInv'
  <1> SUFFICES ASSUME SearchInv, [Next]_vars PROVE SearchInv'
    OBVIOUS
  <1>1. request \in Requests
    BY DEF SearchInv
  <1>2. CASE UNCHANGED vars
    <2>1. UNCHANGED <<request, published, held, at, next, misses, contributors, absent,
                      out, available>>
      BY <1>2 DEF vars
    <2>2. CASE Unsupported(request)
      BY <2>1, <2>2 DEF SearchInv
    <2>3. CASE ~Unsupported(request)
      <3>1. WalkInv
        BY <2>3 DEF SearchInv
      <3>2. WalkStands' /\ ReportSoFar'
        BY <2>1, <3>1, StandsKept, ReportKept DEF WalkInv
      <3>3. WalkTypeOK' /\ StillThere' /\ WalkEnded'
        BY <2>1, <3>1 DEF WalkInv, WalkTypeOK, StillThere, WalkEnded, Returned, This, List, Center
      <3>4. WalkInv'
        BY <2>1, <3>1, <3>2, <3>3 DEF WalkInv
      <3> QED
        BY <1>1, <2>1, <2>3, <3>4 DEF SearchInv
    <2> QED
      BY <2>2, <2>3
  <1>3. CASE Next
    <2>1. request' = request
      BY <1>3 DEF Next, Found, Missed, Fails, CenterAbsent, NoMap, Merge, Publish,
                  OtherAcquires, Damage, Elsewhere
    <2>2. out = Running
      BY <1>3 DEF Next, Found, Missed, Fails, CenterAbsent, NoMap, Merge, Publish,
                  OtherAcquires, Damage, Elsewhere, Searching
    <2>3. ~Unsupported(request)
      BY <2>2 DEF SearchInv, Running
    <2>4. WalkInv
      BY <2>3 DEF SearchInv
    <2>5. WalkInv'
      BY <1>1, <1>3, <2>3, <2>4, FoundKeeps, MissedKeeps, EndKeeps, CenterAbsentKeeps,
         ElsewhereKeeps DEF Next
    <2> QED
      BY <1>1, <2>1, <2>3, <2>5 DEF SearchInv
  <1> QED
    BY <1>2, <1>3

\* The invariant holds in every reachable state.
THEOREM SearchInvariant == Spec => []SearchInv
  BY SearchInvInit, SearchInvStep, PTL DEF Spec

-----------------------------------------------------------------------------
\* A map is returned only if no newer one, and on its own day not the line asked
\* for instead of its sibling, could be had when the call began.
LEMMA NewestMapHolds == SearchInv => NewestMap
  <1> SUFFICES ASSUME SearchInv, Returned, request.kind = "ionex", NEW q \in available
               PROVE  LET map == out.product[1] IN
                      /\ q.day <= map.day
                      /\ (q.day = map.day /\ q.line = Center) => map.line = Center
    BY DEF NewestMap
  <1>1. request \in Requests /\ ~Unsupported(request) /\ WalkInv
    BY DEF SearchInv, Returned, Running
  <1>2. at = 1 /\ next \in DOMAIN List /\ out.product = <<This>> /\ q \in Asked(request)
    BY <1>1 DEF WalkInv, WalkEnded, WalkTypeOK
  <1>3. Len(request.centers) = 1 /\ Center = request.centers[1]
    BY <1>1, <1>2, RequestFacts DEF Center
  <1>4. PICK j \in DOMAIN List : q = List[j]
    BY <1>1, <1>2, <1>3, AskedIsCandidate DEF List
  <1>5. /\ DOMAIN List = 1..Len(List) /\ Len(List) \in Nat
        /\ \A k \in DOMAIN List : List[k].day \in Nat
        /\ \A i, k \in DOMAIN List : i < k =>
               /\ List[k].day <= List[i].day
               /\ List[k].day = List[i].day => List[i].line = Center
    BY <1>1, <1>3, MapCandidates DEF List
  <1>6. Passed(at, next - 1)
    BY <1>1, <1>2, <1>3 DEF WalkInv, WalkStands
  <1>7. next <= j
    <2>1. j \in 1..next - 1 => List[j] \notin available
      BY <1>6 DEF Passed, CandidatesAt, List, Center
    <2> QED
      BY <1>2, <1>4, <1>5, <2>1
  <1>8. q.day <= This.day /\ ((q.day = This.day /\ q.line = Center) => This.line = Center)
    <2>1. CASE next = j
      BY <1>4, <1>5, <2>1 DEF This
    <2>2. CASE next < j
      BY <1>2, <1>4, <1>5, <2>2 DEF This
    <2> QED
      BY <1>2, <1>4, <1>5, <1>7, <2>1, <2>2
  <1> QED
    BY <1>2, <1>8

\* For any lookback, archives and cache, the map returned is the newest there was
\* when the search began: only absence moves fetch_ionex on to an older day.
THEOREM MapIsNewest == Spec => []NewestMap
  BY SearchInvariant, NewestMapHolds, PTL

\* A contributor is the newest issue of its center, and an absent center had none.
LEMMA NewestIssuesHolds == SearchInv => NewestIssues
  <1> SUFFICES ASSUME SearchInv, Returned, request.kind = "sp3"
               PROVE  /\ \A i \in DOMAIN contributors : \A q \in available :
                             q.line = contributors[i].center =>
                                 q.day <= contributors[i].product.day
                      /\ \A i \in DOMAIN absent : \A q \in available :
                             q.line # absent[i].center
    BY DEF NewestIssues
  <1>1. request \in Requests /\ ~Unsupported(request) /\ WalkInv
    BY DEF SearchInv, Returned, Running
  <1>2. at \in 1..Len(request.centers) + 1 /\ available \subseteq Asked(request)
    BY <1>1 DEF WalkInv, WalkTypeOK
  <1>3. Len(request.centers) \in Nat /\ \A m \in 1..at - 1 : m \in 1..Len(request.centers)
    BY <1>1, <1>2, RequestFacts
  <1>4. ASSUME NEW m \in 1..Len(request.centers), NEW q \in available,
               q.line = request.centers[m]
        PROVE  \E j \in DOMAIN CandidatesAt(m) : q = CandidatesAt(m)[j]
    <2>1. PICK n \in 1..Len(request.centers) :
              \E j \in DOMAIN Candidates(request, request.centers[n]) :
                  q = Candidates(request, request.centers[n])[j]
      BY <1>1, <1>2, AskedIsCandidate
    <2>2. request.centers[n] \in Range(request.centers)
      BY <1>1, RequestFacts
    <2>3. q.line = request.centers[n]
      BY <1>1, <2>1, <2>2, Sp3Candidates
    <2> QED
      BY <1>4, <2>1, <2>3 DEF CandidatesAt
  <1>5. ASSUME NEW m \in 1..Len(request.centers)
        PROVE  /\ Len(CandidatesAt(m)) \in Nat
               /\ DOMAIN CandidatesAt(m) = 1..Len(CandidatesAt(m))
               /\ \A k \in DOMAIN CandidatesAt(m) : CandidatesAt(m)[k].day \in Nat
               /\ \A j, k \in DOMAIN CandidatesAt(m) :
                      j < k => CandidatesAt(m)[k].day < CandidatesAt(m)[j].day
    <2>1. request.centers[m] \in Range(request.centers)
      BY <1>1, RequestFacts
    <2> QED
      BY <1>1, <2>1, Sp3Candidates DEF CandidatesAt
  <1>6. ASSUME NEW i \in DOMAIN contributors, NEW q \in available,
               q.line = contributors[i].center
        PROVE  q.day <= contributors[i].product.day
    <2>1. PICK m \in 1..at - 1 : Contributes(contributors[i], m)
      BY <1>1 DEF WalkInv, ReportSoFar, ContributorsSoFar
    <2>2. PICK k \in DOMAIN CandidatesAt(m) :
              /\ contributors[i] = [center |-> request.centers[m],
                     product |-> CandidatesAt(m)[k], attempts |-> Explained(k)]
              /\ Passed(m, k - 1)
      BY <2>1 DEF Contributes
    <2>3. m \in 1..Len(request.centers)
      BY <1>3
    <2>4. PICK j \in DOMAIN CandidatesAt(m) : q = CandidatesAt(m)[j]
      BY <1>4, <1>6, <2>2, <2>3
    <2>5. j \notin 1..k - 1
      BY <2>2, <2>4 DEF Passed
    <2>6. k <= j
      BY <1>5, <2>3, <2>5
    <2>7. contributors[i].product = CandidatesAt(m)[k]
      BY <2>2
    <2>8. CandidatesAt(m)[j].day <= CandidatesAt(m)[k].day
      <3>1. CASE k = j
        BY <1>5, <2>3, <3>1
      <3>2. CASE k < j
        BY <1>5, <2>3, <3>2
      <3> QED
        BY <1>5, <2>3, <2>6, <3>1, <3>2
    <2> QED
      BY <2>4, <2>7, <2>8
  <1>7. ASSUME NEW i \in DOMAIN absent, NEW q \in available, q.line = absent[i].center
        PROVE  FALSE
    <2>1. PICK m \in 1..at - 1 :
              absent[i].center = request.centers[m] /\ Passed(m, Len(CandidatesAt(m)))
      BY <1>1 DEF WalkInv, ReportSoFar, AbsentSoFar
    <2>2. m \in 1..Len(request.centers)
      BY <1>3
    <2>3. PICK j \in DOMAIN CandidatesAt(m) : q = CandidatesAt(m)[j]
      BY <1>4, <1>7, <2>1, <2>2
    <2> QED
      BY <1>5, <2>1, <2>2, <2>3 DEF Passed
  <1> QED
    BY <1>6, <1>7

\* For any centers, issues, archives and cache, a merge takes the newest issue of
\* every center that had one: damage and outages never pass for absence.
THEOREM IssuesAreNewest == Spec => []NewestIssues
  BY SearchInvariant, NewestIssuesHolds, PTL

\* The centers of a complete report, in order and each in one of its two lists.
LEMMA CentersAccountedForHolds == SearchInv => CentersAccountedFor
  <1> SUFFICES ASSUME SearchInv, (Returned /\ request.kind = "sp3") \/ out.error = "no_products"
               PROVE  /\ InOrder(contributors) /\ InOrder(absent)
                      /\ \A c \in Range(request.centers) :
                             (\E i \in DOMAIN contributors : contributors[i].center = c)
                             # (\E i \in DOMAIN absent : absent[i].center = c)
    BY DEF CentersAccountedFor
  <1>1. request \in Requests /\ ~Unsupported(request) /\ WalkInv
    BY DEF SearchInv, Returned, Running
  <1>2. at = Len(request.centers) + 1
    BY <1>1 DEF WalkInv, WalkEnded
  <1>3. /\ Len(request.centers) \in Nat
        /\ DOMAIN request.centers = 1..Len(request.centers)
    BY <1>1, RequestFacts
  <1>4. at - 1 = Len(request.centers)
    BY <1>2, <1>3
  <1>5. InOrder(contributors) /\ InOrder(absent)
    BY <1>1, <1>3, <1>4 DEF WalkInv, ReportSoFar, OrderedBy, InOrder
  <1>6. ASSUME NEW c \in Range(request.centers)
        PROVE  (\E i \in DOMAIN contributors : contributors[i].center = c)
               <=> ~(\E i \in DOMAIN absent : absent[i].center = c)
    <2>1. PICK m \in 1..at - 1 : c = request.centers[m]
      BY <1>3, <1>4 DEF Range
    <2> QED
      BY <1>1, <2>1 DEF WalkInv, ReportSoFar, SplitSoFar, Reported
  <1> QED
    BY <1>5, <1>6

\* For any list of centers, the report of fetch_merged_sp3, and that of NoProducts,
\* splits it into contributors and absent in the caller's order.
THEOREM CentersAreAccountedFor == Spec => []CentersAccountedFor
  BY SearchInvariant, CentersAccountedForHolds, PTL

\* The attempts of a contributor are the candidates passed over before it: a
\* candidate occurs once in the list of its center.
LEMMA AttemptsHold == SearchInv => AttemptsAreTheCenters
  <1> SUFFICES ASSUME SearchInv, NEW i \in DOMAIN contributors
               PROVE  LET c == contributors[i] IN
                      c.attempts = [k \in 1..(SelectInSeq(Candidates(request, c.center),
                                       LAMBDA q : q = c.product) - 1) |-> Reason]
    BY DEF AttemptsAreTheCenters
  <1>1. request \in Requests /\ ~Unsupported(request) /\ WalkInv
    BY DEF SearchInv
  <1>2. request.kind = "sp3"
    BY <1>1, RequestFacts DEF WalkInv
  <1>3. PICK m \in 1..at - 1 : Contributes(contributors[i], m)
    BY <1>1 DEF WalkInv, ReportSoFar, ContributorsSoFar
  <1> DEFINE list == CandidatesAt(m)
  <1>4. PICK k \in DOMAIN list :
            contributors[i] = [center |-> request.centers[m], product |-> list[k],
                               attempts |-> Explained(k)]
    BY <1>3 DEF Contributes
  <1>5. request.centers[m] \in Range(request.centers)
    <2>1. m \in 1..Len(request.centers)
      BY <1>1, RequestFacts DEF WalkInv, WalkTypeOK
    <2> QED
      BY <1>1, <2>1, RequestFacts
  <1>6. /\ DOMAIN list = 1..Len(list) /\ Len(list) \in Nat
        /\ \A j \in DOMAIN list : list[j].day \in Nat
        /\ \A j, l \in DOMAIN list : j < l => list[l].day < list[j].day
    BY <1>1, <1>2, <1>5, Sp3Candidates DEF CandidatesAt
  <1> DEFINE places == {j \in 1..Len(list) : list[j] = list[k]}
  <1>7. places = {k}
    <2>1. \A j \in DOMAIN list : list[j] = list[k] => j = k
      <3> TAKE j \in DOMAIN list
      <3> HAVE list[j] = list[k]
      <3>1. ~(j < k) /\ ~(k < j)
        BY <1>6
      <3> QED
        BY <1>6, <3>1
    <2> QED
      BY <1>6, <2>1
  <1>8. SelectInSeq(list, LAMBDA q : q = list[k]) = (IF places # {} THEN Min(places) ELSE 0)
    BY DEF SelectInSeq
  <1>9. Min({k}) = k
    <2>1. k \in Nat
      BY <1>6
    <2> QED
      BY <2>1 DEF Min
  <1>10. SelectInSeq(list, LAMBDA q : q = list[k]) = k
    <2> HIDE DEF places
    <2> QED
      BY <1>7, <1>8, <1>9
  <1>11. /\ contributors[i].center = request.centers[m]
         /\ contributors[i].product = list[k]
         /\ contributors[i].attempts = Explained(k)
    BY <1>4
  <1>12. SelectInSeq(Candidates(request, contributors[i].center),
                     LAMBDA q : q = contributors[i].product) = k
    BY <1>10, <1>11 DEF CandidatesAt
  <1> QED
    BY <1>11, <1>12 DEF Explained

\* For any centers and issues, the acquisition facts of a contributor hold the
\* misses of its own center, one for every candidate before it.
THEOREM AttemptsAreItsOwn == Spec => []AttemptsAreTheCenters
  BY SearchInvariant, AttemptsHold, PTL
============================================================================
