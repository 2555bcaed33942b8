-------------------------- MODULE ProductFetchProofs --------------------------
(***************************************************************************)
(* Proofs about ProductFetch, for any number of callers and contents, from  *)
(* what CacheEntryProofs shows of the steps it shares with other calls.     *)
(***************************************************************************)
EXTENDS ProductFetch, CacheEntryProofs

\* The invariant of the entry, and what fetch adds: a caller that holds a path
\* may hold it.
FetchInv ==
    /\ TrustInv({})
    /\ \A p \in Proc : out[p].kind = "path" => MayHandOut(p, out[p].content)

\* The invariant holds when the callers start.
LEMMA FetchInvInit == Init => FetchInv
<1>1. SUFFICES ASSUME Init PROVE FetchInv
  OBVIOUS
<1>2. TrustInv({})
  BY <1>1, EntryInitTrust, InitialAssumption DEF Init
<1>3. \A p \in Proc : out[p].kind # "path"
  BY <1>1, Outcomes DEF Init, EntryInit
<1> QED BY <1>2, <1>3 DEF FetchInv

\* The invariant survives a step that ends p's call with an outcome it may give.
LEMMA ReturnFetchInv ==
    ASSUME FetchInv, NEW p \in Proc, NEW o \in Outcome, Return(p, o),
           UNCHANGED <<alone, data, sidecar, published, args, trusted>>,
           o.kind = "path" => MayHandOut(p, o.content)
    PROVE  FetchInv'
<1>1. TrustInv({})'
  BY ReturnKeeps DEF FetchInv
<1>2. out' = [out EXCEPT ![p] = o] /\ out \in [Proc -> Outcome]
  BY DEF Return, FetchInv, TrustInv, TypeInv, EntryTypeOK
<1>3. ASSUME NEW q \in Proc, out'[q].kind = "path" PROVE MayHandOut(q, out[q].content)'
  BY <1>2, <1>3 DEF FetchInv, MayHandOut
<1> QED BY <1>1, <1>3 DEF FetchInv

\* And one in which nobody is answered.
LEMMA NoAnswerFetchInv ==
    ASSUME FetchInv, TrustInv({})', NoNewAnswer, trusted \subseteq trusted'
    PROVE  FetchInv'
BY DEF FetchInv, NoNewAnswer, MayHandOut

\* The steps of fetch that are its own; the last two conjuncts say what they leave
\* alone.
LEMMA OwnSteps ==
    ASSUME FetchInv, NEW p \in Proc,
           Hit(p) \/ OfflineMiss(p) \/ GoOnline(p) \/ Committed(p)
    PROVE  /\ FetchInv'
           /\ UNCHANGED <<trusted, data, sidecar>>
           /\ \A q \in Proc : pc'[q] = pc[q] \/ pc'[q] \in {"idle", "download"}
<1> USE Outcomes
<1>1. CASE Hit(p)
  <2>1. Path(seen[p]) \in Outcome
    BY DEF FetchInv, TrustInv, TypeInv, EntryTypeOK
  <2>2. MayHandOut(p, seen[p])
    BY <1>1 DEF FetchInv, TrustInv, CallTrust, Hit
  <2>3. FetchInv'
    BY <1>1, <2>1, <2>2, ReturnFetchInv DEF Hit
  <2> QED BY <1>1, <2>3 DEF Hit, Return, Goto, FetchInv, TrustInv, TypeInv, EntryTypeOK
<1>2. CASE OfflineMiss(p)
  <2>1. FetchInv'
    BY <1>2, ReturnFetchInv DEF OfflineMiss
  <2> QED BY <1>2, <2>1 DEF OfflineMiss, Return, Goto, FetchInv, TrustInv, TypeInv, EntryTypeOK
<1>3. CASE GoOnline(p)
  <2>1. TrustInv({})'
    BY <1>3, GotoKeeps DEF GoOnline, FetchInv, EntryPC, Committing
  <2>2. NoNewAnswer /\ trusted \subseteq trusted'
    BY <1>3 DEF GoOnline, NoNewAnswer
  <2>3. FetchInv'
    BY <2>1, <2>2, NoAnswerFetchInv
  <2> QED BY <1>3, <2>3 DEF GoOnline, Goto, FetchInv, TrustInv, TypeInv, EntryTypeOK
<1>4. CASE Committed(p)
  <2>1. /\ Path(item[p].content) \in Outcome
        /\ MayHandOut(p, item[p].content)
    BY <1>4 DEF Committed, FetchInv, TrustInv, TypeInv, ItemReady, Item, CallTrust, MayHandOut
  <2>2. FetchInv'
    BY <1>4, <2>1, ReturnFetchInv DEF Committed
  <2> QED BY <1>4, <2>2 DEF Committed, Return, Goto, FetchInv, TrustInv, TypeInv, EntryTypeOK
<1> QED BY <1>1, <1>2, <1>3, <1>4

\* Every step keeps the invariant.
LEMMA FetchInvStep == FetchInv /\ [Next]_entryVars => FetchInv'
<1> SUFFICES ASSUME FetchInv, [Next]_entryVars PROVE FetchInv'
  OBVIOUS
<1>t. TrustInv({}) /\ OnDate \in Tag
  BY InitialAssumption DEF FetchInv
<1>1. ASSUME NEW p \in Proc, Call(p) PROVE FetchInv'
  BY <1>1, <1>t, EnterKeeps, OutsideEffect, NoAnswerFetchInv DEF Call
<1>2. ASSUME NEW p \in Proc, Step(p, OnDate) PROVE FetchInv'
  BY <1>2, <1>t, StepKeeps, StepEffect, NoAnswerFetchInv
<1>3. CASE (\E p \in Proc : Crash(p)) \/ Republish \/ UNCHANGED entryVars
  BY <1>3, <1>t, OutsideKeeps, OutsideEffect, NoAnswerFetchInv
<1> QED BY <1>1, <1>2, <1>3, OwnSteps DEF Next, Running

\* Type correctness of fetch: every variable keeps its type, whatever the
\* callers, the archive, failures and crashes do.
THEOREM TypeCorrect == Spec => []TypeOK
<1>1. FetchInv => TypeOK
  BY DEF FetchInv, TrustInv, TypeInv, TypeOK
<1> QED BY FetchInvInit, FetchInvStep, <1>1, PTL DEF Spec

\* fetch never returns a file nobody vouched for: for every number of callers,
\* every file and sidecar found at the start, and every interleaving, failure
\* and crash.
THEOREM HandedOutTrusted == Spec => []HandedOutIsTrusted
<1>1. FetchInv => HandedOutIsTrusted
  BY DEF FetchInv, HandedOutIsTrusted, MayHandOut
<1> QED BY FetchInvInit, FetchInvStep, <1>1, PTL DEF Spec

-----------------------------------------------------------------------------
\* Only the two replaces of _commit change the entry, and nothing is forgotten.
LEMMA WhatAStepChanges ==
    ASSUME FetchInv, [Next]_entryVars
    PROVE  /\ trusted \subseteq trusted'
           /\ data' = data \/ \E p \in Proc : ReplaceData(p)
           /\ sidecar' = sidecar \/ \E p \in Proc : ReplaceSidecar(p)
<1>t. TrustInv({}) /\ OnDate \in Tag
  BY InitialAssumption DEF FetchInv
<1>1. ASSUME NEW p \in Proc, Running(p)
      PROVE  /\ trusted \subseteq trusted'
             /\ data' = data \/ ReplaceData(p)
             /\ sidecar' = sidecar \/ ReplaceSidecar(p)
  BY <1>1, <1>t, StepEffect, OwnSteps DEF Running
<1>2. ASSUME NEW p \in Proc, Call(p) PROVE UNCHANGED <<trusted, data, sidecar>>
  BY <1>2, <1>t, OutsideEffect DEF Call
<1>3. CASE (\E p \in Proc : Crash(p)) \/ Republish \/ UNCHANGED entryVars
  BY <1>3, <1>t, OutsideEffect
<1> QED BY <1>1, <1>2, <1>3 DEF Next

\* A path that holds trusted bytes never comes to hold others, or none: a path
\* handed out by fetch stays good for every later reader.
THEOREM TrustPreserved == Spec => TrustedStaysTrusted
<1>1. FetchInv /\ [Next]_entryVars => [(data \in trusted => data' \in trusted')]_entryVars
  BY WhatAStepChanges, ReplacedByTrusted DEF FetchInv
<1> QED
  BY FetchInvInit, FetchInvStep, <1>1, PTL DEF Spec, TrustedStaysTrusted

\* While one issue is all that was ever downloaded or verified here, commits
\* without a lock cannot tear a verified entry, however many run and fail.
THEOREM OneIssueStaysVerified == Spec => VerifiedStaysVerified
<1>1. ASSUME FetchInv, [Next]_entryVars, Verified, trusted' \subseteq {data}
      PROVE  Verified'
  <2>t. TrustInv({})
    BY <1>1 DEF FetchInv
  <2>1. CASE UNCHANGED <<data, sidecar>>
    BY <1>1, <2>1 DEF Verified
  <2>2. ASSUME NEW p \in Proc, ReplaceData(p) PROVE Verified'
    <3>1. data' = data /\ sidecar' = sidecar
      BY <1>1, <2>2, <2>t, ReplacedByTrusted
    <3> QED BY <1>1, <3>1 DEF Verified
  <2>3. ASSUME NEW p \in Proc, ReplaceSidecar(p) PROVE Verified'
    BY <1>1, <2>3, <2>t, ReplacedByTrusted DEF Verified
  <2>4. UNCHANGED sidecar \/ \E p \in Proc : ReplaceSidecar(p)
    BY <1>1, WhatAStepChanges
  <2>5. UNCHANGED data \/ \E p \in Proc : ReplaceData(p)
    BY <1>1, WhatAStepChanges
  <2> QED BY <2>1, <2>2, <2>3, <2>4, <2>5
<1>2. FetchInv /\ [Next]_entryVars
        => [(Verified /\ trusted' \subseteq {data} => Verified')]_entryVars
  BY <1>1
<1> QED
  BY FetchInvInit, FetchInvStep, <1>2, PTL DEF Spec, VerifiedStaysVerified

-----------------------------------------------------------------------------
\* DataAfterProvenance rests on what a caller between its two replaces can rely
\* on, although others replace the same files: a sidecar is there.
SidecarFirst == \A p \in Proc : pc[p] = "replace_data" => sidecar # NoSidecar

\* Every step keeps it.
LEMMA SidecarFirstStep ==
    FetchInv /\ SidecarFirst /\ [Next]_entryVars => SidecarFirst'
<1> SUFFICES ASSUME FetchInv, SidecarFirst, [Next]_entryVars, NEW q \in Proc,
                    pc'[q] = "replace_data"
             PROVE  sidecar' # NoSidecar
  BY DEF SidecarFirst
<1>t. TrustInv({})
  BY DEF FetchInv
<1>1. ASSUME NEW p \in Proc, ReplaceSidecar(p) PROVE sidecar' # NoSidecar
  BY <1>1, <1>t, ReplacedByTrusted
<1>2. CASE UNCHANGED sidecar /\ pc[q] = "replace_data"
  BY <1>2 DEF SidecarFirst
<1>3. pc[q] = "replace_data" \/ ReplaceSidecar(q)
  <2>p. pc \in [Proc -> EntryPC \union {}]
    BY <1>t DEF TrustInv, TypeInv, EntryTypeOK
  <2>1. ASSUME NEW p \in Proc, Call(p) \/ Crash(p) PROVE pc[q] = "replace_data"
    BY <2>1, <2>p DEF Call, Enter, Crash, Return, Goto
  <2>2. ASSUME NEW p \in Proc, Step(p, OnDate)
        PROVE  pc[q] = "replace_data" \/ ReplaceSidecar(q)
    <3>1. CASE \/ DownloadOk(p, OnDate) \/ DownloadRetry(p) \/ DownloadFail(p)
               \/ CommitFail(p) \/ ReadFail(p)
      BY <3>1, <2>p DEF DownloadOk, DownloadRetry, DownloadFail, CommitFail, ReadFail, Return,
                        Goto
    <3>2. CASE \/ ReadData(p) \/ ReadSidecar(p) \/ WriteData(p) \/ WriteProv(p)
               \/ ReplaceData(p)
      BY <3>2, <2>p DEF ReadData, ReadSidecar, WriteData, WriteProv, ReplaceData, Goto
    <3>3. CASE ReplaceSidecar(p)
      <4>1. CASE p = q
        BY <3>3, <4>1
      <4>2. CASE p # q
        BY <3>3, <4>2, <2>p DEF ReplaceSidecar, Goto
      <4> QED BY <4>1, <4>2
    <3> QED BY <2>2, <3>1, <3>2, <3>3 DEF Step
  <2>3. ASSUME NEW p \in Proc, Hit(p) \/ OfflineMiss(p) \/ GoOnline(p) \/ Committed(p)
        PROVE  pc[q] = "replace_data"
    BY <2>3, OwnSteps
  <2>4. ASSUME Republish \/ UNCHANGED entryVars PROVE pc[q] = "replace_data"
    BY <2>4 DEF Republish, entryVars
  <2> QED BY <2>1, <2>2, <2>3, <2>4 DEF Next, Running
<1>4. UNCHANGED sidecar \/ \E p \in Proc : ReplaceSidecar(p)
  BY WhatAStepChanges
<1> QED BY <1>1, <1>2, <1>3, <1>4

\* No data file is put in place before a sidecar, whatever crashes, fails and
\* interleaves.
THEOREM ProvenanceFirst == Spec => DataAfterProvenance
<1>1. Init => SidecarFirst
  BY DEF Init, EntryInit, SidecarFirst
<1>2. FetchInv /\ SidecarFirst /\ [Next]_entryVars
        => [data' # data => sidecar' # NoSidecar]_entryVars
  <2>1. ASSUME NEW p \in Proc, ReplaceData(p), SidecarFirst PROVE sidecar' # NoSidecar
    BY <2>1 DEF ReplaceData, SidecarFirst
  <2> QED BY <2>1, WhatAStepChanges
<1> QED
  BY FetchInvInit, FetchInvStep, SidecarFirstStep, <1>1, <1>2, PTL
  DEF Spec, DataAfterProvenance

-----------------------------------------------------------------------------
\* A call that no other call overlaps leaves the entry verified: what it hands
\* out is still at the path, beside the sidecar that vouched for it or that it
\* wrote.
LEMMA FetchAloneStep == FetchInv /\ AloneTrust /\ [Next]_entryVars => AloneTrust'
<1> SUFFICES ASSUME FetchInv, AloneTrust, [Next]_entryVars PROVE AloneTrust'
  OBVIOUS
<1>t. TrustInv({}) /\ TypeInv({}) /\ OnDate \in Tag
  BY InitialAssumption DEF FetchInv, TrustInv
<1>1. ASSUME NEW p \in Proc, Call(p) PROVE AloneTrust'
  BY <1>1, <1>t, OutsideAlone DEF Call
<1>2. ASSUME NEW p \in Proc, Step(p, OnDate) PROVE AloneTrust'
  BY <1>2, <1>t, StepAlone
<1>3. ASSUME NEW p \in Proc, Hit(p) \/ OfflineMiss(p) \/ GoOnline(p) \/ Committed(p)
      PROVE  AloneTrust'
  BY <1>3, <1>t, GotoAlone DEF Hit, OfflineMiss, GoOnline, Committed, Return
<1>4. CASE (\E p \in Proc : Crash(p)) \/ Republish \/ UNCHANGED entryVars
  BY <1>4, <1>t, OutsideAlone
<1> QED BY <1>1, <1>2, <1>3, <1>4 DEF Next, Running

\* After any history of crashes, failed commits and races, a call that runs alone
\* never hands out a path whose entry is torn.
THEOREM AloneLeavesVerified == Spec => ReturnedEntryIsVerified
<1>1. ASSUME FetchInv, AloneTrust, [Next]_entryVars, NEW p \in Proc,
             out[p].kind = "none", out'[p].kind = "path", alone[p], args[p].pin = NoPin
      PROVE  Verified'
  <2>t. TrustInv({}) /\ OnDate \in Tag
    BY <1>1, InitialAssumption DEF FetchInv
  <2>1. Hit(p) \/ Committed(p)
    <3>1. ~NoNewAnswer
      BY <1>1 DEF NoNewAnswer
    <3>2. PICK q \in Proc : Hit(q) \/ OfflineMiss(q) \/ GoOnline(q) \/ Committed(q)
      BY <1>1, <2>t, <3>1, StepEffect, OutsideEffect DEF Next, Running, Call
    <3>3. ~OfflineMiss(q) /\ ~GoOnline(q)
      BY <3>1, Outcomes, <2>t
      DEF OfflineMiss, GoOnline, Return, NoNewAnswer, TrustInv, TypeInv, EntryTypeOK
    <3>4. q = p
      BY <1>1, <3>2, <3>3 DEF Hit, Committed, Return, FetchInv, TrustInv, TypeInv, EntryTypeOK
    <3> QED BY <3>2, <3>3, <3>4
  <2>2. CASE Hit(p)
    <3>1. Classified(data, sidecar, NoPin) = "hit"
      BY <1>1, <2>2 DEF Hit, AloneTrust, Undisturbed
    <3>2. Verified
      BY <3>1 DEF Classified, Verified
    <3> QED BY <2>2, <3>2 DEF Hit, Verified
  <2>3. CASE Committed(p)
    <3>1. /\ item[p] \in Item /\ data = item[p].content
          /\ sidecar = [digest |-> item[p].content, tag |-> item[p].tag]
      BY <1>1, <2>3
      DEF Committed, AloneTrust, Undisturbed, FetchInv, TrustInv, TypeInv, ItemReady
    <3>2. sidecar \in Record /\ data \in Content
      BY <3>1 DEF Record, Item
    <3>3. Verified
      BY <3>1, <3>2, EntryConstants DEF Verified
    <3> QED BY <2>3, <3>3 DEF Committed, Verified
  <2> QED BY <2>1, <2>2, <2>3
<1>2. FetchInv /\ AloneTrust /\ [Next]_entryVars
        => [\A p \in Proc :
               /\ out[p].kind = "none" /\ out'[p].kind = "path"
               /\ alone[p] /\ args[p].pin = NoPin
               => Verified']_entryVars
  BY <1>1
<1>3. Init => AloneTrust
  BY EntryInitAlone DEF Init
<1> QED
  BY FetchInvInit, FetchInvStep, FetchAloneStep, <1>2, <1>3, PTL
  DEF Spec, ReturnedEntryIsVerified
=============================================================================
