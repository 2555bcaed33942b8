---------------------------- MODULE AcquireProofs ----------------------------
(***************************************************************************)
(* The safety of acquire, for any callers, sources, products and requests.     *)
(* The lock of an entry carries the argument: whoever is past it holds it, so    *)
(* nobody else changes the entry that made it download.                         *)
(***************************************************************************)
EXTENDS Acquire, TLAPS

Outs == [kind : {"none", "path", "error"}, content : Content \union {None},
         error : Error \union {"none"}, index : Nat]

Locked == {"load", "miss", "download", "received", "commit"}

\* Whoever is past the lock of an entry holds it.
LockInv == \A p \in Proc : pc[p] \in Locked => lock[Src(p)] = p

\* What is committed is good and has the caller's checksum.
ItemInv ==
    \A p \in Proc :
        /\ pc[p] = "received" => item[p] \in Content \union {Bad}
        /\ pc[p] = "commit" => item[p] \in Content /\ Satisfies(item[p], req[p].pin)

\* NoRedundantDownload from the failed lookup on.
MissInv ==
    \A p \in Proc :
        pc[p] \in Locked \ {"load"} =>
            ~(entry[Src(p)] \in Content /\ Satisfies(entry[Src(p)], req[p].pin))

\* A check of the cache fails only when there is a lookup.
CacheErrorInv == \A p \in Proc : cacheError[p] # "none" => pc[p] \in Locked \ {"load"}

\* outage is the index of the first "unavailable" among the attempts, and there
\* is one attempt for each distributor passed.
OutageInv ==
    \A p \in Proc :
        /\ Len(attempts[p]) + 1 = at[p]
        /\ IF outage[p] = 0 THEN \A i \in 1..Len(attempts[p]) : attempts[p][i] # "unavailable"
           ELSE /\ outage[p] \in 1..Len(attempts[p])
                /\ attempts[p][outage[p]] = "unavailable"
                /\ \A i \in 1..Len(attempts[p]) :
                      attempts[p][i] = "unavailable" => outage[p] <= i

\* A call starts with the first distributor.
IdleInv == \A p \in Proc : pc[p] = "idle" => at[p] = 1

AcquireInv ==
    /\ AcquireTypeOK /\ LockInv /\ ItemInv /\ MissInv
    /\ CacheErrorInv /\ OutageInv /\ IdleInv

\* The initial states satisfy the invariant.
LEMMA AcquireInvInit == Init => AcquireInv
  <1> SUFFICES ASSUME Init PROVE AcquireInv
    OBVIOUS
  <1> USE AcquireAssumption DEF Init
  <1>1. \A p \in Proc : attempts[p] = << >> /\ outage[p] = 0 /\ at[p] = 1 /\ pc[p] = "idle"
    OBVIOUS
  <1>2. attempts \in [Proc -> Seq(Fallback)]
    OBVIOUS
  <1>3. out \in [Proc -> Outs]
    BY DEF Outs, NoOut
  <1>4. /\ lock \in [Source -> Proc \union {None}] /\ pc \in [Proc -> PC]
        /\ at \in [Proc -> Nat \ {0}] /\ outage \in [Proc -> Nat]
        /\ item \in [Proc -> Content \union {Bad, None}]
        /\ cacheError \in [Proc -> {"none", "cache_read", "checksum"}]
        /\ tries \in [Proc -> 0..(Retries - 1)]
        /\ req \in [Proc -> Requests \union {None}]
    BY DEF PC
  <1>5. \A p \in Proc : req[p] = None /\ cacheError[p] = "none"
    OBVIOUS
  <1>6. AcquireTypeOK
    BY <1>1, <1>2, <1>3, <1>4, <1>5 DEF AcquireTypeOK, Outs
  <1>7. LockInv /\ ItemInv /\ MissInv /\ CacheErrorInv /\ IdleInv
    BY <1>1, <1>5 DEF LockInv, ItemInv, MissInv, CacheErrorInv, Locked, IdleInv
  <1>8. OutageInv
    <2>1. Len(<< >>) = 0
      OBVIOUS
    <2>2. \A p \in Proc : Len(attempts[p]) = 0 /\ outage[p] = 0 /\ at[p] = 1
      BY <1>1, <2>1
    <2>3. ASSUME NEW p \in Proc
          PROVE  /\ Len(attempts[p]) + 1 = at[p] /\ outage[p] = 0
                 /\ \A i \in 1..Len(attempts[p]) : FALSE
      BY <2>2
    <2> QED
      BY <2>3, Zenon DEF OutageInv
  <1> QED
    BY <1>6, <1>7, <1>8 DEF AcquireInv

\* What a running call has.
LEMMA RunningFacts ==
  ASSUME AcquireTypeOK, NEW p \in Proc, pc[p] # "idle"
  PROVE  /\ req[p] \in Requests /\ Src(p) \in Source
         /\ req[p].dists \in Seq(Source) /\ at[p] \in 1..Len(req[p].dists)
         /\ req[p].pin \in Content \union {NoPin}
  <1>1. req[p] \in Requests
    BY DEF AcquireTypeOK
  <1>2. /\ req[p].dists \in Seq(Source) /\ req[p].pin \in Content \union {NoPin}
    BY <1>1, AcquireAssumption
  <1>3. at[p] \in 1..Len(req[p].dists)
    BY <1>2 DEF AcquireTypeOK
  <1> QED
    BY <1>1, <1>2, <1>3 DEF Src

\* A call that ends leaves the other calls and their locks as they were.
LEMMA EndInv ==
  ASSUME AcquireInv, NEW p \in Proc, NEW o \in Outs, End(p, o), pc[p] # "idle",
         \/ UNCHANGED entry
         \/ pc[p] = "commit" /\ Published(p, Src(p)),
         legacy' \in [Source -> BOOLEAN]
  PROVE  AcquireInv'
  <1> USE AcquireAssumption
  <1>t. AcquireTypeOK /\ Src(p) \in Source
    BY RunningFacts DEF AcquireInv
  <1>e. entry' \in [Source -> Content \union {Bad, None}]
    BY <1>t DEF AcquireInv, AcquireTypeOK, ItemInv, Published
  <1>1. /\ pc' = [pc EXCEPT ![p] = "idle"] /\ req' = [req EXCEPT ![p] = None]
        /\ at' = [at EXCEPT ![p] = 1] /\ attempts' = [attempts EXCEPT ![p] = << >>]
        /\ outage' = [outage EXCEPT ![p] = 0] /\ out' = [out EXCEPT ![p] = o]
        /\ tries' = [tries EXCEPT ![p] = 0] /\ cacheError' = [cacheError EXCEPT ![p] = "none"]
        /\ item' = [item EXCEPT ![p] = None]
        /\ lock' = [s \in Source |-> IF lock[s] = p THEN None ELSE lock[s]]
    BY DEF End, Goto, NextTurn, Unlock
  <1>2. /\ pc' \in [Proc -> PC] /\ req' \in [Proc -> Requests \union {None}]
        /\ at' \in [Proc -> Nat \ {0}] /\ outage' \in [Proc -> Nat]
        /\ tries' \in [Proc -> 0..(Retries - 1)]
        /\ cacheError' \in [Proc -> {"none", "cache_read", "checksum"}]
        /\ item' \in [Proc -> Content \union {Bad, None}]
        /\ lock' \in [Source -> Proc \union {None}]
    BY <1>1, <1>t DEF AcquireTypeOK, PC
  <1>3. attempts' \in [Proc -> Seq(Fallback)] /\ out' \in [Proc -> Outs]
    BY <1>1, <1>t DEF AcquireTypeOK, Outs
  <1>4. \A q \in Proc : /\ pc'[q] = "idle" <=> req'[q] = None
                        /\ pc'[q] # "idle" => at'[q] <= Len(req'[q].dists)
    BY <1>1, <1>t DEF AcquireTypeOK
  <1>5. AcquireTypeOK'
    BY <1>2, <1>3, <1>4, <1>e DEF AcquireTypeOK, Outs
  <1>6. ASSUME NEW q \in Proc, pc'[q] # "idle"
        PROVE  /\ q # p /\ pc'[q] = pc[q] /\ req'[q] = req[q] /\ at'[q] = at[q]
               /\ item'[q] = item[q] /\ Src(q)' = Src(q) /\ Src(q) \in Source
    BY <1>1, <1>6, <1>t, RunningFacts DEF AcquireTypeOK, Src
  <1>7. ItemInv'
    BY <1>6 DEF AcquireInv, ItemInv
  <1>8. LockInv'
    BY <1>1, <1>6 DEF AcquireInv, LockInv, Locked
  <1>9. MissInv'
    <2>1. ASSUME NEW q \in Proc, pc'[q] \in Locked \ {"load"}
          PROVE  entry'[Src(q)'] = entry[Src(q)]
      <3>1. q # p /\ lock[Src(q)] = q /\ Src(q)' = Src(q)
        BY <1>6, <2>1 DEF AcquireInv, LockInv, Locked
      <3>2. CASE pc[p] = "commit" /\ Published(p, Src(p))
        BY <3>1, <3>2, <1>t DEF AcquireInv, LockInv, Locked, Published, AcquireTypeOK
      <3> QED
        BY <3>1, <3>2
    <2> QED
      BY <1>6, <2>1 DEF AcquireInv, MissInv, Locked
  <1>10. CacheErrorInv'
    BY <1>1, <1>t DEF AcquireInv, CacheErrorInv, AcquireTypeOK
  <1>11. OutageInv'
    <2>1. ASSUME NEW q \in Proc, q # p
          PROVE  attempts'[q] = attempts[q] /\ outage'[q] = outage[q] /\ at'[q] = at[q]
      BY <1>1, <1>t, <2>1 DEF AcquireTypeOK
    <2>2. attempts'[p] = << >> /\ outage'[p] = 0 /\ at'[p] = 1
      BY <1>1, <1>t DEF AcquireTypeOK
    <2> QED
      BY <2>1, <2>2 DEF AcquireInv, OutageInv
  <1>12. IdleInv'
    BY <1>1, <1>t DEF AcquireInv, IdleInv, AcquireTypeOK
  <1> QED
    BY <1>5, <1>7, <1>8, <1>9, <1>10, <1>11, <1>12 DEF AcquireInv

\* The outcomes the code builds are outcomes.
LEMMA OutcomesTyped ==
  /\ NoOut \in Outs
  /\ \A c \in Content, i \in Nat :
        [kind |-> "path", content |-> c, error |-> "none", index |-> i] \in Outs
  /\ \A e \in Error, i \in Nat :
        [kind |-> "error", content |-> None, error |-> e, index |-> i] \in Outs
  BY DEF Outs, NoOut

\* A call that returns or raises, with an error of its list.
LEMMA ReturnInv ==
  ASSUME AcquireInv, NEW p \in Proc, NEW c \in Content, Return(p, c), pc[p] # "idle",
         \/ UNCHANGED entry
         \/ pc[p] = "commit" /\ Published(p, Src(p)),
         legacy' \in [Source -> BOOLEAN]
  PROVE  AcquireInv'
  <1>1. at[p] \in Nat
    BY DEF AcquireInv, AcquireTypeOK
  <1> QED
    BY <1>1, EndInv, OutcomesTyped DEF Return

\* A call that ends in an error keeps it too.
LEMMA RaiseInv ==
  ASSUME AcquireInv, NEW p \in Proc, NEW e \in Error, NEW i \in Nat, Raise(p, e, i),
         pc[p] # "idle",
         \/ UNCHANGED entry
         \/ pc[p] = "commit" /\ Published(p, Src(p)),
         legacy' \in [Source -> BOOLEAN]
  PROVE  AcquireInv'
  BY EndInv, OutcomesTyped DEF Raise

\* The next distributor's turn.
LEMMA NextTurnInv ==
  ASSUME AcquireInv, NEW p \in Proc, NEW error \in Fallback, pc[p] # "idle",
         at[p] < Len(req[p].dists),
         at' = [at EXCEPT ![p] = @ + 1],
         attempts' = [attempts EXCEPT ![p] = Append(attempts[p], error)],
         outage' = [outage EXCEPT ![p] = FirstOutage(p, error)],
         Unlock(p), NextTurn(p), Goto(p, "lock"),
         UNCHANGED <<entry, legacy, req, out>>
  PROVE  AcquireInv'
  <1> USE AcquireAssumption
  <1>t. AcquireTypeOK /\ req[p].dists \in Seq(Source)
    BY RunningFacts DEF AcquireInv
  <1>1. /\ pc' = [pc EXCEPT ![p] = "lock"]
        /\ tries' = [tries EXCEPT ![p] = 0] /\ cacheError' = [cacheError EXCEPT ![p] = "none"]
        /\ item' = [item EXCEPT ![p] = None]
        /\ lock' = [s \in Source |-> IF lock[s] = p THEN None ELSE lock[s]]
    BY DEF Goto, NextTurn, Unlock
  <1>2. /\ pc' \in [Proc -> PC] /\ at' \in [Proc -> Nat \ {0}]
        /\ tries' \in [Proc -> 0..(Retries - 1)]
        /\ cacheError' \in [Proc -> {"none", "cache_read", "checksum"}]
        /\ item' \in [Proc -> Content \union {Bad, None}]
        /\ lock' \in [Source -> Proc \union {None}]
    BY <1>1, <1>t DEF AcquireTypeOK, PC
  <1>3. attempts' \in [Proc -> Seq(Fallback)]
    BY <1>t DEF AcquireTypeOK
  <1>4. FirstOutage(p, error) \in Nat
    BY <1>t DEF AcquireTypeOK, FirstOutage
  <1>5. outage' \in [Proc -> Nat]
    BY <1>t, <1>4 DEF AcquireTypeOK
  <1>6. \A q \in Proc : /\ pc'[q] = "idle" <=> req'[q] = None
                        /\ pc'[q] # "idle" => at'[q] <= Len(req'[q].dists)
    <2>1. ASSUME NEW q \in Proc, q # p PROVE pc'[q] = pc[q] /\ at'[q] = at[q] /\ req'[q] = req[q]
      BY <1>1, <1>t, <2>1 DEF AcquireTypeOK
    <2>2. pc'[p] = "lock" /\ at'[p] = at[p] + 1 /\ req'[p] = req[p] /\ at[p] \in Nat
      BY <1>1, <1>t DEF AcquireTypeOK
    <2>3. at[p] + 1 <= Len(req[p].dists)
      BY <1>t, <2>2
    <2> QED
      BY <1>t, <2>1, <2>2, <2>3 DEF AcquireTypeOK
  <1>7. AcquireTypeOK'
    BY <1>t, <1>2, <1>3, <1>5, <1>6 DEF AcquireTypeOK
  <1>8. ASSUME NEW q \in Proc, pc'[q] \in Locked
        PROVE  /\ q # p /\ pc'[q] = pc[q] /\ item'[q] = item[q] /\ Src(q)' = Src(q)
               /\ Src(q) \in Source
    BY <1>1, <1>8, <1>t, RunningFacts DEF AcquireTypeOK, Src, Locked
  <1>9. LockInv' /\ MissInv'
    BY <1>1, <1>8 DEF AcquireInv, LockInv, MissInv
  <1>10. ItemInv'
    BY <1>8 DEF AcquireInv, ItemInv, Locked
  <1>11. CacheErrorInv'
    BY <1>1, <1>t DEF AcquireInv, CacheErrorInv, AcquireTypeOK
  <1>12. OutageInv'
    <2>1. ASSUME NEW q \in Proc, q # p
          PROVE  attempts'[q] = attempts[q] /\ outage'[q] = outage[q] /\ at'[q] = at[q]
      BY <1>t, <2>1 DEF AcquireTypeOK
    <2>2. /\ attempts'[p] = Append(attempts[p], error) /\ at'[p] = at[p] + 1
          /\ outage'[p] = FirstOutage(p, error)
      BY <1>t DEF AcquireTypeOK
    <2>3. /\ attempts[p] \in Seq(Fallback) /\ Len(attempts[p]) \in Nat
          /\ Len(attempts'[p]) = Len(attempts[p]) + 1
          /\ \A i \in 1..Len(attempts[p]) : attempts'[p][i] = attempts[p][i]
          /\ attempts'[p][Len(attempts[p]) + 1] = error
      BY <1>t, <2>2 DEF AcquireTypeOK
    <2>4. /\ Len(attempts[p]) + 1 = at[p] /\ outage[p] \in Nat
          /\ IF outage[p] = 0 THEN \A i \in 1..Len(attempts[p]) : attempts[p][i] # "unavailable"
             ELSE /\ outage[p] \in 1..Len(attempts[p])
                  /\ attempts[p][outage[p]] = "unavailable"
                  /\ \A i \in 1..Len(attempts[p]) :
                        attempts[p][i] = "unavailable" => outage[p] <= i
      BY <1>t DEF AcquireInv, OutageInv, AcquireTypeOK
    <2>5. /\ Len(attempts'[p]) + 1 = at'[p]
          /\ IF outage'[p] = 0
             THEN \A i \in 1..Len(attempts'[p]) : attempts'[p][i] # "unavailable"
             ELSE /\ outage'[p] \in 1..Len(attempts'[p])
                  /\ attempts'[p][outage'[p]] = "unavailable"
                  /\ \A i \in 1..Len(attempts'[p]) :
                        attempts'[p][i] = "unavailable" => outage'[p] <= i
      <3>1. CASE outage[p] # 0
        BY <2>2, <2>3, <2>4, <3>1 DEF FirstOutage
      <3>2. CASE outage[p] = 0 /\ error = "unavailable"
        BY <2>2, <2>3, <2>4, <3>2 DEF FirstOutage
      <3>3. CASE outage[p] = 0 /\ error # "unavailable"
        BY <2>2, <2>3, <2>4, <3>3 DEF FirstOutage
      <3> QED
        BY <3>1, <3>2, <3>3
    <2> QED
      BY <2>1, <2>5 DEF AcquireInv, OutageInv
  <1>13. IdleInv'
    BY <1>1, <1>t DEF AcquireInv, IdleInv, AcquireTypeOK
  <1> QED
    BY <1>7, <1>9, <1>10, <1>11, <1>12, <1>13 DEF AcquireInv

\* A turn without a product ends the call or leads to the next turn.
LEMMA SourceFailsInv ==
  ASSUME AcquireInv, NEW p \in Proc, NEW e \in Error, SourceFails(p, e), pc[p] # "idle"
  PROVE  AcquireInv'
  <1>1. FinalError(p, e) \in Error /\ at[p] \in Nat /\ legacy \in [Source -> BOOLEAN]
    BY DEF AcquireInv, AcquireTypeOK, FinalError, Error
  <1>2. CASE FinalError(p, e) \notin Fallback
    BY <1>1, <1>2, RaiseInv DEF SourceFails
  <1>3. CASE FinalError(p, e) \in Fallback
    <2> DEFINE error == FinalError(p, e)
    <2>1. FirstOutage(p, error) \in Nat
      BY DEF AcquireInv, AcquireTypeOK, FirstOutage
    <2>2. /\ UNCHANGED <<entry, legacy>> /\ FallBack(p, error)
      BY <1>3 DEF SourceFails
    <2> HIDE DEF error
    <2>3. CASE \E i \in Nat, f \in {"unavailable", error, "all_failed"} : Raise(p, f, i)
      <3>1. {"unavailable", error, "all_failed"} \subseteq Error
        BY <1>1 DEF error, Error, Fallback
      <3> QED
        BY <1>1, <2>2, <2>3, <3>1, RaiseInv
    <2>4. CASE at[p] < Len(req[p].dists) /\ ~\E i \in Nat, f \in {"unavailable", error, "all_failed"} : Raise(p, f, i)
      <3>1. error \in Fallback
        BY <1>3 DEF error
      <3> QED
        BY <1>1, <2>1, <2>2, <2>4, <3>1, NextTurnInv DEF FallBack
    <2> QED
      BY <1>1, <2>1, <2>2, <2>3, <2>4 DEF FallBack
  <1> QED
    BY <1>2, <1>3

\* A step of caller p that changes its place and the locals named, and nothing
\* the other callers see.
LEMMA LocalStepInv ==
  ASSUME AcquireInv, NEW p \in Proc, NEW label \in PC \ {"idle"}, pc[p] # "idle",
         pc' = [pc EXCEPT ![p] = label],
         UNCHANGED <<entry, legacy, lock, req, at, attempts, outage, out>>,
         tries' \in [Proc -> 0..(Retries - 1)],
         item' \in [Proc -> Content \union {Bad, None}],
         cacheError' \in [Proc -> {"none", "cache_read", "checksum"}],
         \A q \in Proc \ {p} : item'[q] = item[q] /\ cacheError'[q] = cacheError[q],
         label \in Locked => pc[p] \in Locked,
         label \in Locked \ {"load"} =>
             ~(entry[Src(p)] \in Content /\ Satisfies(entry[Src(p)], req[p].pin)),
         label = "received" => item'[p] \in Content \union {Bad},
         label = "commit" => item'[p] \in Content /\ Satisfies(item'[p], req[p].pin),
         cacheError'[p] # "none" => label \in Locked \ {"load"}
  PROVE  AcquireInv'
  <1>t. AcquireTypeOK
    BY DEF AcquireInv
  <1>1. /\ pc'[p] = label
        /\ \A q \in Proc \ {p} : pc'[q] = pc[q]
        /\ \A q \in Proc : Src(q)' = Src(q)
    BY <1>t DEF AcquireTypeOK, Src
  <1>2. req[p] # None /\ pc' \in [Proc -> PC]
    BY <1>t DEF AcquireTypeOK
  <1>3. AcquireTypeOK'
    BY <1>t, <1>1, <1>2 DEF AcquireTypeOK
  <1>4. LockInv'
    BY <1>1 DEF AcquireInv, LockInv
  <1>5. ItemInv'
    BY <1>1 DEF AcquireInv, ItemInv
  <1>6. MissInv'
    BY <1>1 DEF AcquireInv, MissInv
  <1>7. CacheErrorInv'
    BY <1>1 DEF AcquireInv, CacheErrorInv
  <1>8. OutageInv' /\ IdleInv'
    BY <1>1 DEF AcquireInv, OutageInv, IdleInv
  <1> QED
    BY <1>3, <1>4, <1>5, <1>6, <1>7, <1>8 DEF AcquireInv

\* A call starts.
LEMMA StartInv ==
  ASSUME AcquireInv, NEW p \in Proc, Start(p)
  PROVE  AcquireInv'
  <1> USE AcquireAssumption
  <1>t. AcquireTypeOK
    BY DEF AcquireInv
  <1>1. PICK r \in Requests : req' = [req EXCEPT ![p] = r]
    BY DEF Start
  <1>2. /\ pc[p] = "idle" /\ pc' = [pc EXCEPT ![p] = "lock"]
        /\ out' = [out EXCEPT ![p] = NoOut]
        /\ UNCHANGED <<entry, legacy, lock, at, tries, cacheError, item, attempts, outage>>
    BY DEF Start, Goto, cache
  <1>3. at[p] = 1 /\ r.dists \in Seq(Source) /\ r.dists # << >>
    BY <1>2, <1>t DEF AcquireInv, IdleInv
  <1>4. 1 <= Len(r.dists)
    BY <1>3
  <1>5. /\ pc'[p] = "lock" /\ req'[p] = r /\ r # None
        /\ \A q \in Proc \ {p} : pc'[q] = pc[q] /\ req'[q] = req[q] /\ Src(q)' = Src(q)
    BY <1>1, <1>2, <1>t DEF AcquireTypeOK, Src
  <1>6. /\ pc' \in [Proc -> PC] /\ req' \in [Proc -> Requests \union {None}]
        /\ out' \in [Proc -> Outs]
    BY <1>1, <1>2, <1>t, OutcomesTyped DEF AcquireTypeOK, PC, Outs
  <1>7. AcquireTypeOK'
    BY <1>t, <1>2, <1>3, <1>4, <1>5, <1>6 DEF AcquireTypeOK, Outs
  <1>8. LockInv' /\ ItemInv' /\ MissInv'
    BY <1>2, <1>5 DEF AcquireInv, LockInv, ItemInv, MissInv, Locked
  <1>9. CacheErrorInv' /\ OutageInv' /\ IdleInv'
    BY <1>2, <1>5 DEF AcquireInv, CacheErrorInv, OutageInv, IdleInv, Locked
  <1> QED
    BY <1>7, <1>8, <1>9 DEF AcquireInv

\* The steps of a running call.
LEMMA AcquireInvOfStep ==
  ASSUME AcquireInv, NEW p \in Proc, Step(p)
  PROVE  AcquireInv'
  <1> USE AcquireAssumption DEF Goto, cache
  <1>t. /\ AcquireTypeOK
        /\ pc[p] # "idle"
    BY DEF AcquireInv, Step, Lock, LockTimeout, LoadHit, MigrationFails, LoadMiss, OfflineMiss,
           Download, Receive, Retry, DownloadFails, Validate, Commit, CommitFails
  <1>a. /\ tries \in [Proc -> 0..(Retries - 1)] /\ item \in [Proc -> Content \union {Bad, None}]
        /\ cacheError \in [Proc -> {"none", "cache_read", "checksum"}] /\ pc \in [Proc -> PC]
        /\ legacy \in [Source -> BOOLEAN] /\ at[p] \in Nat /\ Src(p) \in Source
        /\ entry \in [Source -> Content \union {Bad, None}]
        /\ cacheError[p] # "none" => pc[p] \in Locked \ {"load"}
    BY <1>t, RunningFacts DEF AcquireInv, AcquireTypeOK, CacheErrorInv
  <1>e. {"cache_write", "offline_miss", "unavailable", "not_published", "terminal", "invalid",
         "checksum"} \subseteq Error
    BY DEF Error, Fallback, Absence
  <1>l. \A s \in Source : [legacy EXCEPT ![s] = FALSE] \in [Source -> BOOLEAN]
    BY <1>a
  <1>m. pc[p] \in Locked \ {"load"} =>
            ~(entry[Src(p)] \in Content /\ Satisfies(entry[Src(p)], req[p].pin))
    BY DEF AcquireInv, MissInv
  <1>1. CASE Lock(p)
    <2>1. /\ pc[p] = "lock" /\ lock[Src(p)] = None
          /\ lock' = [lock EXCEPT ![Src(p)] = p] /\ pc' = [pc EXCEPT ![p] = "load"]
          /\ UNCHANGED <<entry, legacy, req, at, tries, cacheError, item, attempts, outage, out>>
      BY <1>1 DEF Lock
    <2>2. AcquireTypeOK'
      BY <2>1, <1>t, <1>a DEF AcquireTypeOK, PC
    <2>3. /\ pc'[p] = "load" /\ \A q \in Proc \ {p} : pc'[q] = pc[q]
          /\ \A q \in Proc : Src(q)' = Src(q)
      BY <2>1, <1>t DEF AcquireTypeOK, Src
    <2>4. LockInv'
      <3>1. lock'[Src(p)] = p
        BY <2>1, <1>t, <1>a DEF AcquireTypeOK
      <3>2. ASSUME NEW q \in Proc \ {p}, pc[q] \in Locked PROVE lock'[Src(q)] = q
        BY <2>1, <3>2, <1>t DEF AcquireTypeOK, AcquireInv, LockInv
      <3> QED
        BY <2>3, <3>1, <3>2 DEF LockInv
    <2>5. ItemInv' /\ MissInv' /\ CacheErrorInv' /\ IdleInv' /\ OutageInv'
      BY <2>1, <2>3, <1>a DEF AcquireInv, ItemInv, MissInv, CacheErrorInv, IdleInv, OutageInv,
                              Locked
    <2> QED
      BY <2>2, <2>4, <2>5 DEF AcquireInv
  <1>2. CASE LockTimeout(p)
    BY <1>2, <1>t, <1>a, <1>e, RaiseInv DEF LockTimeout
  <1>3. CASE LoadHit(p)
    BY <1>3, <1>t, <1>a, <1>l, ReturnInv DEF LoadHit
  <1>4. CASE MigrationFails(p)
    BY <1>4, <1>t, <1>a, <1>e, <1>l, RaiseInv DEF MigrationFails
  <1>5. CASE LoadMiss(p)
    <2>1. cacheError' \in [Proc -> {"none", "cache_read", "checksum"}]
          /\ \A q \in Proc \ {p} : cacheError'[q] = cacheError[q]
      BY <1>5, <1>a DEF LoadMiss
    <2>2. ~(entry[Src(p)] \in Content /\ Satisfies(entry[Src(p)], req[p].pin))
      BY <1>5 DEF LoadMiss
    <2> QED
      BY <1>5, <2>1, <2>2, <1>t, <1>a, LocalStepInv DEF LoadMiss, PC, Locked
  <1>6. CASE OfflineMiss(p)
    BY <1>6, <1>t, <1>e, SourceFailsInv DEF OfflineMiss
  <1>7. CASE Download(p)
    BY <1>7, <1>t, <1>a, <1>m, LocalStepInv DEF Download, PC, Locked
  <1>8. CASE Receive(p)
    <2>1. PICK c \in Content \union {Bad} : item' = [item EXCEPT ![p] = c]
      BY <1>8 DEF Receive
    <2>2. /\ item' \in [Proc -> Content \union {Bad, None}] /\ item'[p] \in Content \union {Bad}
          /\ \A q \in Proc \ {p} : item'[q] = item[q]
      BY <2>1, <1>a
    <2> QED
      BY <1>8, <2>2, <1>t, <1>a, <1>m, LocalStepInv DEF Receive, PC, Locked
  <1>9. CASE Retry(p)
    <2>1. tries' \in [Proc -> 0..(Retries - 1)] /\ pc' = [pc EXCEPT ![p] = "download"]
      BY <1>9, <1>a DEF Retry
    <2> QED
      BY <1>9, <2>1, <1>t, <1>a, <1>m, LocalStepInv DEF Retry, PC, Locked
  <1>10. CASE DownloadFails(p)
    BY <1>10, <1>t, <1>e, SourceFailsInv DEF DownloadFails
  <1>11. CASE Validate(p)
    <2>1. CASE item[p] \in Content /\ Satisfies(item[p], req[p].pin) /\ Goto(p, "commit")
               /\ UNCHANGED <<cache, req, at, tries, cacheError, item, attempts, outage, out>>
      BY <1>11, <2>1, <1>t, <1>a, <1>m, LocalStepInv DEF Validate, PC, Locked
    <2>2. CASE SourceFails(p, "invalid") \/ SourceFails(p, "checksum")
      BY <2>2, <1>t, <1>e, SourceFailsInv
    <2> QED
      BY <1>11, <2>1, <2>2 DEF Validate
  <1>12. CASE Commit(p)
    <2>1. item[p] \in Content
      BY <1>12 DEF Commit, AcquireInv, ItemInv
    <2> QED
      BY <1>12, <2>1, <1>t, <1>a, <1>l, ReturnInv DEF Commit, Published
  <1>13. CASE CommitFails(p)
    BY <1>13, <1>t, <1>a, <1>e, <1>l, RaiseInv DEF CommitFails, Published
  <1> QED
    BY <1>1, <1>2, <1>3, <1>4, <1>5, <1>6, <1>7, <1>8, <1>9, <1>10, <1>11, <1>12, <1>13 DEF Step

\* Every step keeps the invariant.
LEMMA AcquireInvStep == AcquireInv /\ [Next]_vars => AcquireInv'
  <1> SUFFICES ASSUME AcquireInv, [Next]_vars PROVE AcquireInv'
    OBVIOUS
  <1> USE AcquireAssumption
  <1>t. AcquireTypeOK
    BY DEF AcquireInv
  <1>1. ASSUME NEW p \in Proc, Crash(p) PROVE AcquireInv'
    <2>1. legacy' \in [Source -> BOOLEAN] /\ pc[p] # "idle"
      BY <1>1, <1>t DEF Crash, Published, AcquireTypeOK
    <2> QED
      BY <1>1, <2>1, EndInv, OutcomesTyped DEF Crash
  <1>2. ASSUME NEW s \in Source, Damage(s) PROVE AcquireInv'
    <2>1. AcquireTypeOK'
      BY <1>2, <1>t DEF Damage, AcquireTypeOK
    <2>2. \A r \in Source : entry'[r] \in Content => entry[r] \in Content /\ entry'[r] = entry[r]
      BY <1>2, <1>t DEF Damage, AcquireTypeOK
    <2>3. MissInv'
      <3>1. ASSUME NEW q \in Proc, pc[q] \in Locked PROVE Src(q) \in Source
        BY <3>1, <1>t, RunningFacts DEF Locked
      <3> QED
        BY <1>2, <2>2, <3>1 DEF Damage, AcquireInv, MissInv, Src, Locked
    <2>4. LockInv' /\ ItemInv' /\ CacheErrorInv' /\ OutageInv' /\ IdleInv'
      BY <1>2 DEF Damage, AcquireInv, LockInv, ItemInv, CacheErrorInv, OutageInv, IdleInv, Src
    <2> QED
      BY <2>1, <2>3, <2>4 DEF AcquireInv
  <1>3. CASE UNCHANGED vars
    BY <1>3 DEF vars, cache, AcquireInv, AcquireTypeOK, LockInv, ItemInv, MissInv, CacheErrorInv,
                OutageInv, IdleInv, Src
  <1> QED
    BY <1>1, <1>2, <1>3, StartInv, AcquireInvOfStep DEF Next

\* The inductive invariant holds in every behavior.
THEOREM AcquireInvariant == Spec => []AcquireInv
  BY AcquireInvInit, AcquireInvStep, PTL DEF Spec

\* Every variable of acquire's model keeps its type; retries stay below their
\* limit, and a call is always at one of its distributors.
THEOREM AcquireTypeCorrect == Spec => []AcquireTypeOK
  BY AcquireInvariant, PTL DEF AcquireInv

\* Nobody downloads from a source whose entry answers its request.
THEOREM DownloadsOnce == Spec => []NoRedundantDownload
  <1>1. AcquireInv => NoRedundantDownload
    BY DEF AcquireInv, MissInv, NoRedundantDownload, Downloading, Locked
  <1> QED
    BY <1>1, AcquireInvariant, PTL

-----------------------------------------------------------------------------
(***************************************************************************)
(* How a call ends, and what it does to the entries.                           *)
(***************************************************************************)

\* The error a list of distributors is reported with.
Reports(p) ==
    /\ cacheError[p] = "none"
    /\ \/ /\ out'[p].error = "unavailable"
          /\ out'[p].index = IF outage[p] = 0 THEN at[p] ELSE outage[p]
       \/ out'[p].error \in Absence \union {"all_failed"} /\ outage[p] = 0

Concludes(p) ==
    /\ pc'[p] = "idle"
    /\ \/ /\ out'[p].kind = "path" /\ out'[p].error = "none"
          /\ Satisfies(out'[p].content, req[p].pin)
       \/ out'[p].kind # "path" /\ out'[p].error \notin Fallback \union {"all_failed"}
       \/ out'[p].kind # "path" /\ Reports(p)

GoesOn(p) == pc'[p] # "idle" /\ (at'[p] = at[p] \/ cacheError[p] = "none")

OthersRest(p) == \A q \in Proc \ {p} : pc'[q] = pc[q] /\ at'[q] = at[q]

\* A call that raises.
LEMMA RaiseConcludes ==
  ASSUME AcquireTypeOK, NEW p \in Proc, NEW e \in Error, NEW i \in Nat, Raise(p, e, i)
  PROVE  /\ OthersRest(p) /\ pc'[p] = "idle"
         /\ out'[p].kind = "error" /\ out'[p].error = e /\ out'[p].index = i
  BY DEF Raise, End, Goto, AcquireTypeOK, OthersRest

\* A call that returns a product.
LEMMA ReturnConcludes ==
  ASSUME AcquireTypeOK, NEW p \in Proc, NEW c \in Content, Return(p, c),
         Satisfies(c, req[p].pin)
  PROVE  OthersRest(p) /\ Concludes(p)
  BY DEF Return, End, Goto, AcquireTypeOK, OthersRest, Concludes

\* A turn without a product.
LEMMA SourceFailsConcludes ==
  ASSUME AcquireInv, NEW p \in Proc, NEW e \in Error \ {"all_failed"}, SourceFails(p, e),
         pc[p] # "idle"
  PROVE  OthersRest(p) /\ UNCHANGED entry /\ (Concludes(p) \/ GoesOn(p))
  <1>t. /\ AcquireTypeOK /\ at[p] \in Nat \ {0} /\ outage[p] \in Nat
        /\ cacheError[p] \in {"none", "cache_read", "checksum"}
    BY DEF AcquireInv, AcquireTypeOK
  <1>f. {"cache_read", "checksum"} \cap (Fallback \union {"all_failed"}) = {}
    BY DEF Fallback, Absence
  <1> DEFINE error == FinalError(p, e)
  <1>e. /\ error \in Error /\ error # "all_failed"
        /\ error \in Fallback => cacheError[p] = "none"
    BY <1>t, <1>f DEF FinalError, Error
  <1>1. /\ UNCHANGED entry
        /\ \/ error \in Fallback /\ FallBack(p, error)
           \/ error \notin Fallback /\ Raise(p, error, at[p])
    BY DEF SourceFails
  <1> HIDE DEF error
  <1>2. CASE error \notin Fallback /\ Raise(p, error, at[p])
    BY <1>t, <1>e, <1>1, <1>2, RaiseConcludes DEF Concludes
  <1>3. CASE error \in Fallback /\ FallBack(p, error)
    <2> DEFINE first == FirstOutage(p, error)
    <2>1. /\ first \in Nat
          /\ first # 0 => first = IF outage[p] = 0 THEN at[p] ELSE outage[p]
          /\ first = 0 => outage[p] = 0 /\ error # "unavailable"
      BY <1>t DEF FirstOutage
    <2>2. \/ first # 0 /\ Raise(p, "unavailable", first)
          \/ first = 0 /\ Raise(p, error, at[p])
          \/ first = 0 /\ Raise(p, "all_failed", at[p])
          \/ at' = [at EXCEPT ![p] = @ + 1] /\ Goto(p, "lock")
      BY <1>3 DEF FallBack
    <2>e. {"unavailable", "all_failed"} \subseteq Error /\ (error # "unavailable" => error \in Absence)
      BY <1>3 DEF Error, Fallback
    <2> HIDE DEF first
    <2>3. CASE first # 0 /\ Raise(p, "unavailable", first)
      BY <1>t, <1>e, <1>1, <1>3, <2>1, <2>3, <2>e, RaiseConcludes DEF Concludes, Reports
    <2>4. CASE first = 0 /\ Raise(p, error, at[p])
      BY <1>t, <1>e, <1>1, <1>3, <2>1, <2>4, <2>e, RaiseConcludes DEF Concludes, Reports
    <2>5. CASE first = 0 /\ Raise(p, "all_failed", at[p])
      BY <1>t, <1>e, <1>1, <1>3, <2>1, <2>5, <2>e, RaiseConcludes DEF Concludes, Reports
    <2>6. CASE at' = [at EXCEPT ![p] = @ + 1] /\ Goto(p, "lock")
      BY <1>t, <1>e, <1>1, <1>3, <2>6 DEF AcquireTypeOK, Goto, OthersRest, GoesOn
    <2> QED
      BY <2>2, <2>3, <2>4, <2>5, <2>6
  <1> QED
    BY <1>1, <1>2, <1>3

\* A step that only moves a call on.
LEMMA MovesOn ==
  ASSUME AcquireTypeOK, NEW p \in Proc, NEW label \in PC \ {"idle"},
         pc' = [pc EXCEPT ![p] = label], UNCHANGED at
  PROVE  OthersRest(p) /\ GoesOn(p)
  BY DEF AcquireTypeOK, OthersRest, GoesOn

\* Every step of a call ends it in one of these ways or moves it on, and changes
\* an entry only by publishing to its source.
LEMMA StepConcludes ==
  ASSUME AcquireInv, NEW p \in Proc, Step(p)
  PROVE  /\ OthersRest(p) /\ (Concludes(p) \/ GoesOn(p))
         /\ entry' = entry \/ (pc[p] = "commit" /\ Published(p, Src(p)))
  <1> USE DEF Goto, cache
  <1>t. /\ AcquireTypeOK /\ at[p] \in Nat /\ pc \in [Proc -> PC]
        /\ pc[p] # "idle"
    BY DEF AcquireInv, AcquireTypeOK, Step, Lock, LockTimeout, LoadHit, MigrationFails, LoadMiss,
           OfflineMiss, Download, Receive, Retry, DownloadFails, Validate, Commit, CommitFails
  <1> DEFINE Goal == /\ OthersRest(p) /\ (Concludes(p) \/ GoesOn(p))
                     /\ entry' = entry \/ (pc[p] = "commit" /\ Published(p, Src(p)))
  <1>e. ASSUME Raise(p, "cache_write", at[p]) PROVE OthersRest(p) /\ Concludes(p)
    <2>1. "cache_write" \in Error /\ "cache_write" \notin Fallback \union {"all_failed"}
      BY DEF Error, Fallback, Absence
    <2> QED
      BY <1>e, <1>t, <2>1, RaiseConcludes DEF Concludes
  <1>s. ASSUME NEW f \in {"offline_miss", "unavailable", "not_published", "terminal", "invalid",
                          "checksum"},
               SourceFails(p, f)
        PROVE  Goal
    <2>1. f \in Error \ {"all_failed"}
      BY DEF Error, Fallback, Absence
    <2> QED
      BY <1>s, <1>t, <2>1, SourceFailsConcludes
  <1> HIDE DEF Goal
  <1>1. CASE LockTimeout(p) \/ MigrationFails(p) \/ CommitFails(p)
    <2>1. /\ Raise(p, "cache_write", at[p])
          /\ entry' = entry \/ (pc[p] = "commit" /\ Published(p, Src(p)))
      BY <1>1 DEF LockTimeout, MigrationFails, CommitFails
    <2> QED
      BY <2>1, <1>e DEF Goal
  <1>2. CASE LoadHit(p)
    <2>1. /\ entry[Src(p)] \in Content /\ Satisfies(entry[Src(p)], req[p].pin)
          /\ Return(p, entry[Src(p)]) /\ UNCHANGED entry
      BY <1>2 DEF LoadHit
    <2> QED
      BY <2>1, <1>t, ReturnConcludes DEF Goal
  <1>3. CASE Commit(p)
    <2>1. /\ item[p] \in Content /\ Satisfies(item[p], req[p].pin)
          /\ Return(p, item[p]) /\ pc[p] = "commit" /\ Published(p, Src(p))
      BY <1>3 DEF Commit, AcquireInv, ItemInv
    <2> QED
      BY <2>1, <1>t, ReturnConcludes DEF Goal
  <1>4. CASE OfflineMiss(p) \/ DownloadFails(p)
    BY <1>4, <1>s DEF OfflineMiss, DownloadFails, Goal
  <1>5. CASE Validate(p)
    <2>1. CASE pc' = [pc EXCEPT ![p] = "commit"] /\ UNCHANGED <<entry, at>>
      BY <2>1, <1>t, MovesOn DEF PC, Goal
    <2> QED
      BY <1>5, <2>1, <1>s DEF Validate, Goal
  <1>6. CASE Lock(p) \/ LoadMiss(p) \/ Download(p) \/ Receive(p) \/ Retry(p)
    <2>1. pc' = [pc EXCEPT ![p] = "load"] \/ pc' = [pc EXCEPT ![p] = "miss"]
          \/ pc' = [pc EXCEPT ![p] = "download"] \/ pc' = [pc EXCEPT ![p] = "received"]
      BY <1>6, <1>t DEF Lock, LoadMiss, Download, Receive, Retry
    <2>2. UNCHANGED <<entry, at>>
      BY <1>6 DEF Lock, LoadMiss, Download, Receive, Retry
    <2>3. {"load", "miss", "download", "received"} \subseteq PC \ {"idle"}
      BY DEF PC
    <2>4. \E label \in PC \ {"idle"} : pc' = [pc EXCEPT ![p] = label]
      BY <2>1, <2>3
    <2> QED
      BY <2>2, <2>4, <1>t, MovesOn DEF Goal
  <1> QED
    BY <1>1, <1>2, <1>3, <1>4, <1>5, <1>6 DEF Step

\* The same of every step of the system.
LEMMA CallsConclude ==
  ASSUME AcquireInv, [Next]_vars, NEW p \in Proc
  PROVE  \/ pc'[p] = pc[p] /\ at'[p] = at[p]
         \/ pc[p] = "idle"
         \/ Concludes(p)
         \/ GoesOn(p)
         \/ pc'[p] = "idle" /\ out'[p].kind = "none" /\ out'[p].error = "none"
  <1>t. AcquireTypeOK
    BY DEF AcquireInv
  <1>1. ASSUME NEW q \in Proc, Step(q) 
        PROVE  Concludes(p) \/ GoesOn(p) \/ (pc'[p] = pc[p] /\ at'[p] = at[p])
    <2>1. OthersRest(q) /\ (Concludes(q) \/ GoesOn(q))
      BY <1>1, StepConcludes
    <2> QED
      BY <2>1 DEF OthersRest
  <1>2. ASSUME NEW q \in Proc, Start(q) 
        PROVE  pc[p] = "idle" \/ (pc'[p] = pc[p] /\ at'[p] = at[p])
    BY <1>2, <1>t DEF Start, Goto, AcquireTypeOK
  <1>3. ASSUME NEW q \in Proc, Crash(q)
        PROVE  \/ pc'[p] = "idle" /\ out'[p].kind = "none" /\ out'[p].error = "none"
               \/ pc'[p] = pc[p] /\ at'[p] = at[p]
    BY <1>3, <1>t DEF Crash, End, Goto, AcquireTypeOK, NoOut
  <1>4. CASE UNCHANGED vars \/ \E s \in Source : Damage(s)
    BY <1>4 DEF vars, Damage
  <1> QED
    BY <1>1, <1>2, <1>3, <1>4 DEF Next

\* What a step does to an entry.
LEMMA EntriesChange ==
  ASSUME AcquireInv, [Next]_vars, NEW s \in Source
  PROVE  \/ entry'[s] \in {entry[s], Bad}
         \/ \E p \in Proc : pc[p] = "commit" /\ s = Src(p) /\ entry'[s] = item[p]
  <1>t. /\ AcquireTypeOK /\ entry \in [Source -> Content \union {Bad, None}]
    BY DEF AcquireInv, AcquireTypeOK
  <1>1. ASSUME NEW p \in Proc, pc[p] = "commit", Published(p, Src(p))
        PROVE  entry'[s] = entry[s] \/ (s = Src(p) /\ entry'[s] = item[p])
    BY <1>1, <1>t DEF Published
  <1>2. ASSUME NEW p \in Proc, Step(p)
        PROVE  entry'[s] = entry[s] \/ (pc[p] = "commit" /\ s = Src(p) /\ entry'[s] = item[p])
    BY <1>1, <1>2, StepConcludes
  <1>3. ASSUME NEW p \in Proc, Start(p) \/ Crash(p)
        PROVE  entry'[s] = entry[s] \/ (pc[p] = "commit" /\ s = Src(p) /\ entry'[s] = item[p])
    BY <1>1, <1>3 DEF Start, Crash, cache
  <1>4. CASE UNCHANGED vars \/ \E r \in Source : Damage(r)
    BY <1>4, <1>t DEF vars, cache, Damage
  <1> QED
    BY <1>2, <1>3, <1>4 DEF Next

-----------------------------------------------------------------------------
\* A product handed out has the caller's checksum, whether it was cached,
\* migrated or downloaded.
THEOREM HandedOutPinned == Spec => HandedOutIsPinned
  <1>1. AcquireInv /\ [Next]_vars =>
            [ \A p \in Proc : (Ends(p) /\ out'[p].kind = "path" =>
                  Satisfies(out'[p].content, req[p].pin)) ]_vars
    BY CallsConclude DEF Ends, Concludes, GoesOn
  <1> QED
    BY <1>1, AcquireInvariant, PTL DEF Spec, HandedOutIsPinned

\* No crash, failed commit or concurrent caller takes a sound entry away from
\* those who do not pin other bytes.
THEOREM GoodEntriesKept == Spec => GoodEntryKept
  <1>1. AcquireInv /\ [Next]_vars =>
            [ \A s \in Source :
                (entry[s] \in Content /\ entry'[s] \notin {entry[s], Bad} =>
                    \E p \in Proc : /\ lock[s] = p /\ pc[p] = "commit"
                                    /\ req[p].pin = entry'[s]) ]_vars
    <2> SUFFICES ASSUME AcquireInv, [Next]_vars, NEW s \in Source,
                        entry[s] \in Content, entry'[s] \notin {entry[s], Bad}
                 PROVE  \E p \in Proc : /\ lock[s] = p /\ pc[p] = "commit"
                                        /\ req[p].pin = entry'[s]
      OBVIOUS
    <2>1. PICK p \in Proc : pc[p] = "commit" /\ s = Src(p) /\ entry'[s] = item[p]
      BY EntriesChange
    <2>2. lock[s] = p /\ Satisfies(item[p], req[p].pin) /\ ~Satisfies(entry[s], req[p].pin)
      BY <2>1 DEF AcquireInv, LockInv, ItemInv, MissInv, Locked
    <2> QED
      BY <2>1, <2>2 DEF Satisfies
  <1> QED
    BY <1>1, AcquireInvariant, PTL DEF Spec, GoodEntryKept

\* A failed check of a cached entry ends the call at that distributor, with an
\* error that says so.
THEOREM IntegrityStops == Spec => IntegrityFailureStops
  <1>1. AcquireInv /\ [Next]_vars =>
            [ \A p \in Proc :
                (cacheError[p] # "none" =>
                    /\ at'[p] = at[p] \/ Ends(p)
                    /\ Ends(p) => out'[p].error \notin Fallback \union {"all_failed"}) ]_vars
    <2> SUFFICES ASSUME AcquireInv, [Next]_vars, NEW p \in Proc, cacheError[p] # "none"
                 PROVE  /\ at'[p] = at[p] \/ Ends(p)
                        /\ Ends(p) => out'[p].error \notin Fallback \union {"all_failed"}
      OBVIOUS
    <2>1. pc[p] # "idle"
      BY DEF AcquireInv, CacheErrorInv, Locked
    <2>2. "none" \notin Fallback \union {"all_failed"}
      BY DEF Fallback, Absence
    <2> QED
      BY <2>1, <2>2, CallsConclude DEF Ends, Concludes, Reports, GoesOn
  <1> QED
    BY <1>1, AcquireInvariant, PTL DEF Spec, IntegrityFailureStops

\* The first outage of a failed list is what the caller learns.
THEOREM FailureReported == Spec => ReportedFailure
  <1>1. ASSUME AcquireInv, [Next]_vars, NEW p \in Proc, Ends(p),
               NEW Outages, Outages = {i \in DOMAIN attempts[p] : attempts[p][i] = "unavailable"}
        PROVE  /\ out'[p].error = "unavailable" =>
                      \/ out'[p].index \in Outages /\ \A i \in Outages : out'[p].index <= i
                      \/ Outages = {} /\ out'[p].index = at[p]
               /\ out'[p].error \in Absence \union {"all_failed"} => Outages = {}
    <2>1. DOMAIN attempts[p] = 1..Len(attempts[p])
      BY <1>1 DEF AcquireInv, AcquireTypeOK
    <2>2. IF outage[p] = 0 THEN Outages = {}
          ELSE outage[p] \in Outages /\ \A i \in Outages : outage[p] <= i
      BY <1>1, <2>1 DEF AcquireInv, OutageInv
    <2>3. /\ {"none", "unavailable"} \cap (Absence \union {"all_failed"}) = {}
          /\ "unavailable" \in Fallback /\ Absence \subseteq Fallback
      BY DEF Absence, Fallback
    <2>4. \/ out'[p].error = "none"
          \/ out'[p].error \notin Fallback \union {"all_failed"}
          \/ Reports(p)
      BY <1>1, CallsConclude DEF Ends, Concludes, GoesOn
    <2> QED
      BY <2>2, <2>3, <2>4 DEF Reports
  <1>2. AcquireInv /\ [Next]_vars =>
            [ \A p \in Proc :
                LET Outages == {i \in DOMAIN attempts[p] : attempts[p][i] = "unavailable"}
                IN  (Ends(p) =>
                        /\ out'[p].error = "unavailable" =>
                               \/ out'[p].index \in Outages
                                  /\ \A i \in Outages : out'[p].index <= i
                               \/ Outages = {} /\ out'[p].index = at[p]
                        /\ out'[p].error \in Absence \union {"all_failed"} => Outages = {}) ]_vars
    BY <1>1
  <1> QED
    BY <1>2, AcquireInvariant, PTL DEF Spec, ReportedFailure
=============================================================================
