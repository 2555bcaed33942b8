---------------------------- MODULE TerrainProofs ----------------------------
(***************************************************************************)
(* Proofs about the terrain cache.  First TerrainFetch, for any number of   *)
(* callers and contents, from what CacheEntryProofs shows of the steps it   *)
(* shares with other calls; then TerrainPrefetch, for any tiles and         *)
(* requests of any length.                                                  *)
(***************************************************************************)
EXTENDS TerrainFetch, TerrainPrefetch, CacheEntryProofs, FiniteSetTheorems

\* The constants of this module.
LEMMA TerrainConstants ==
    "v1" \in Tag /\ "v2" \in Tag /\ ZeroVoid \subseteq Content \ Archive
BY TerrainAssumption

TileTypes == marker \in BOOLEAN /\ covered \in BOOLEAN /\ answered404 \in BOOLEAN

\* A marker, a caller about to write one and a caller told "no coverage" all go
\* back to a 404.
CoverageInv ==
    /\ marker => answered404
    /\ \A p \in Proc : pc[p] = "mark" \/ out[p].kind = "no_coverage" => answered404

\* What is being committed, and what a sidecar of the current converter vouches
\* for, is a current conversion.
ConvertedInv ==
    /\ sidecar # NoSidecar /\ sidecar.tag = "v2" => sidecar.digest \in Archive
    /\ \A p \in Proc : pc[p] \in Committing \union {"committed"} =>
           item[p].content \in Archive /\ item[p].tag = "v2"

\* A caller may hold what it holds, and a tile of the old converter only if it was
\* overlapped or asked for that very tile.
PathInv ==
    \A p \in Proc : out[p].kind = "path" =>
        /\ MayHandOut(p, out[p].content)
        /\ args[p].pin = NoPin /\ alone[p] => out[p].content \notin ZeroVoid

\* A caller that runs alone asks the archive only if there is no good tile.
RefetchInv ==
    \A p \in Proc : alone[p] /\ args[p].pin = NoPin /\ pc[p] \in {"download", "mark"} =>
        ~(Verified /\ sidecar.tag = "v2")

EntryInv == TrustInv({"mark"}) /\ AloneTrust
TileInv == EntryInv /\ TileTypes /\ CoverageInv /\ ConvertedInv /\ PathInv /\ RefetchInv

\* The invariant holds when the callers start.
LEMMA TileInvInit == Init => TileInv
<1>1. SUFFICES ASSUME Init PROVE TileInv
  OBVIOUS
<1> DEFINE contents == {NoFile} \union Content
           records == {NoSidecar} \union [digest: Content, tag: {"v1"}]
                                  \union [digest: Archive, tag: {"v2"}]
<1>2. /\ EntryInit(contents, records)
      /\ contents \subseteq Content \union {NoFile}
      /\ records \subseteq Record \union {NoSidecar}
      /\ sidecar \in records
  BY <1>1, TerrainConstants, EntryConstants DEF Init, EntryInit, Record
<1>3. EntryInv
  <2> HIDE DEF contents, records
  <2> QED BY <1>2, EntryInitTrust, EntryInitAlone DEF EntryInv
<1>4. TileTypes
  BY <1>1 DEF Init, TileTypes
<1>5. pc = [p \in Proc |-> "idle"] /\ out = [p \in Proc |-> NoOut]
  BY <1>1 DEF Init, EntryInit
<1>6. CoverageInv
  BY <1>1, <1>5, Outcomes DEF Init, CoverageInv
<1>7. ConvertedInv
  BY <1>2, <1>5 DEF ConvertedInv, Committing
<1>8. PathInv /\ RefetchInv
  BY <1>5, Outcomes DEF PathInv, RefetchInv
<1> QED BY <1>3, <1>4, <1>6, <1>7, <1>8 DEF TileInv

-----------------------------------------------------------------------------
\* A caller gets an answer o and goes back to idle; the marker may change.
Answers(p, o) ==
    /\ pc[p] # "idle"
    /\ Return(p, o)
    /\ UNCHANGED <<alone, data, sidecar, published, args, trusted, covered, answered404>>

\* A caller with a verdict turns to the archive.
Refetch(p) == pc[p] = "classified" /\ Decide(p, "download")

\* What an answer must satisfy to keep the invariant.
MayAnswer(p, o) ==
    /\ o \in Outcome
    /\ o.kind = "path" => /\ MayHandOut(p, o.content)
                          /\ args[p].pin = NoPin /\ alone[p] => o.content \notin ZeroVoid
    /\ o.kind = "no_coverage" => answered404
    /\ marker' \in BOOLEAN
    /\ marker' => answered404

\* Such an answer keeps it.
LEMMA AnsweredKeeps ==
    ASSUME TileInv, NEW p \in Proc, NEW o, Answers(p, o), MayAnswer(p, o)
    PROVE  TileInv'
<1>t. TrustInv({"mark"}) /\ TypeInv({"mark"}) /\ AloneTrust /\ o \in Outcome
  BY DEF TileInv, EntryInv, TrustInv, MayAnswer
<1>r. Return(p, o) /\ UNCHANGED <<alone, data, sidecar, published, args, trusted>>
  BY DEF Answers
<1>1. TrustInv({"mark"})'
  BY <1>t, <1>r, ReturnKeeps
<1>2. AloneTrust'
  <2>1. Goto(p, "idle") /\ UNCHANGED alone /\ pc[p] # "idle"
    BY <1>r DEF Return, Answers
  <2> QED BY <1>t, <2>1, GotoAlone
<1>3. TileTypes'
  BY DEF TileInv, TileTypes, Answers, MayAnswer
<1>4. /\ pc' = [pc EXCEPT ![p] = "idle"] /\ out' = [out EXCEPT ![p] = o]
      /\ item' = [item EXCEPT ![p] = NoItem]
      /\ pc \in [Proc -> EntryPC \union {"mark"}] /\ out \in [Proc -> Outcome]
      /\ item \in [Proc -> Item \union {NoItem}]
      /\ UNCHANGED <<alone, data, sidecar, args, trusted, answered404>>
  BY <1>t DEF Answers, Return, Goto, TypeInv, EntryTypeOK
<1>5. CoverageInv'
  BY <1>4 DEF TileInv, CoverageInv, MayAnswer
<1>6. ConvertedInv'
  BY <1>4 DEF TileInv, ConvertedInv, Committing
<1>7. PathInv'
  BY <1>4 DEF TileInv, PathInv, MayAnswer, MayHandOut
<1>8. RefetchInv'
  BY <1>4 DEF TileInv, RefetchInv, Verified
<1> QED BY <1>1, <1>2, <1>3, <1>5, <1>6, <1>7, <1>8 DEF TileInv, EntryInv

\* So does turning to the archive for want of a good tile.
LEMMA RefetchKeeps ==
    ASSUME TileInv, NEW p \in Proc, Refetch(p),
           alone[p] /\ args[p].pin = NoPin => ~(Verified /\ sidecar.tag = "v2")
    PROVE  TileInv'
<1>t. TrustInv({"mark"}) /\ TypeInv({"mark"}) /\ AloneTrust
  BY DEF TileInv, EntryInv, TrustInv
<1>1. TrustInv({"mark"})'
  BY <1>t, GotoKeeps DEF Refetch, Decide, EntryPC, Committing
<1>2. AloneTrust'
  BY <1>t, GotoAlone DEF Refetch, Decide
<1>3. TileTypes'
  BY DEF TileInv, TileTypes, Refetch, Decide, terrainVars
<1>4. /\ pc' = [pc EXCEPT ![p] = "download"]
      /\ pc \in [Proc -> EntryPC \union {"mark"}]
      /\ UNCHANGED <<alone, data, sidecar, args, trusted, out, item, marker, answered404>>
  BY <1>t DEF Refetch, Decide, Goto, TypeInv, EntryTypeOK, terrainVars
<1>5. CoverageInv'
  BY <1>4 DEF TileInv, CoverageInv
<1>6. ConvertedInv'
  BY <1>4 DEF TileInv, ConvertedInv, Committing
<1>7. PathInv'
  BY <1>4 DEF TileInv, PathInv, MayHandOut
<1>8. RefetchInv'
  BY <1>4 DEF TileInv, RefetchInv, Verified
<1> QED BY <1>1, <1>2, <1>3, <1>5, <1>6, <1>7, <1>8 DEF TileInv, EntryInv

-----------------------------------------------------------------------------
\* A verified hit: with the verdict of a call that runs alone goes the tile that
\* is still there, beside the sidecar that names its converter.
LEMMA HitKeeps ==
    ASSUME TileInv, NEW p \in Proc, Hit(p)
    PROVE  TileInv'
<1>1. pc[p] = "classified" /\ verdict[p] = "hit"
  BY DEF Hit
<1>2. MayHandOut(p, seen[p]) /\ seen[p] \in Content \union {NoFile}
  BY <1>1 DEF TileInv, EntryInv, TrustInv, TypeInv, EntryTypeOK, CallTrust
<1>3. args[p].pin = NoPin /\ alone[p] => Verified /\ seen[p] = data
  <2>1. args[p].pin = NoPin /\ alone[p] =>
            seen[p] = data /\ Classified(data, sidecar, NoPin) = "hit"
    BY <1>1 DEF TileInv, EntryInv, AloneTrust, Undisturbed
  <2> QED BY <2>1 DEF Classified, Verified
<1>4. CASE args[p].pin # NoPin \/ sidecar = NoSidecar \/ sidecar.tag # "v1"
  <2>1. args[p].pin = NoPin /\ alone[p] => seen[p] \in Archive
    <3>1. sidecar \in Record \union {NoSidecar} /\ Tag = {"v1", "v2"}
      BY TerrainAssumption DEF TileInv, EntryInv, TrustInv, TypeInv, EntryTypeOK
    <3>2. sidecar # NoSidecar /\ sidecar.tag # "v1" => sidecar.tag = "v2"
      BY <3>1 DEF Record
    <3> QED BY <1>3, <1>4, <3>2 DEF Verified, TileInv, ConvertedInv
  <2>2. MayAnswer(p, Path(seen[p]))
    BY <1>2, <1>4, <2>1, Outcomes, TerrainConstants
    DEF MayAnswer, Hit, Answer, terrainVars, TileInv, TileTypes, CoverageInv
  <2>3. Answers(p, Path(seen[p]))
    BY <1>1, <1>4 DEF Hit, Answer, Answers, terrainVars
  <2> QED BY <2>2, <2>3, AnsweredKeeps
<1>5. CASE ~(args[p].pin # NoPin \/ sidecar = NoSidecar \/ sidecar.tag # "v1")
  <2>1. CASE args[p].offline
    <3>1. Answers(p, Failed("miss"))
      BY <1>1, <1>5, <2>1 DEF Hit, Answer, Answers, terrainVars
    <3>2. MayAnswer(p, Failed("miss"))
      BY <1>5, <2>1, Outcomes
      DEF MayAnswer, Hit, Answer, terrainVars, TileInv, TileTypes, CoverageInv
    <3> QED BY <3>1, <3>2, AnsweredKeeps
  <2>2. CASE ~args[p].offline
    <3>1. Refetch(p)
      BY <1>1, <1>5, <2>2 DEF Hit, Refetch
    <3> QED BY <1>5, <3>1, RefetchKeeps
  <2> QED BY <2>1, <2>2
<1> QED BY <1>4, <1>5

\* Without a data file, the marker or the archive answers.
LEMMA ReadMarkerKeeps ==
    ASSUME TileInv, NEW p \in Proc, ReadMarker(p)
    PROVE  TileInv'
<1>1. pc[p] = "classified" /\ verdict[p] = "absent"
  BY DEF ReadMarker
<1>2. alone[p] /\ args[p].pin = NoPin => ~Verified
  <2>1. alone[p] /\ args[p].pin = NoPin => Classified(data, sidecar, NoPin) = "absent"
    BY <1>1 DEF TileInv, EntryInv, AloneTrust, Undisturbed
  <2> QED BY <2>1 DEF Classified, Verified
<1>3. marker \in BOOLEAN /\ (marker => answered404)
  BY DEF TileInv, TileTypes, CoverageInv
<1>4. CASE marker
  <2>1. Answers(p, Failed("no_coverage"))
    BY <1>1, <1>4 DEF ReadMarker, Answer, Answers, terrainVars
  <2>2. MayAnswer(p, Failed("no_coverage"))
    BY <1>3, <1>4, Outcomes DEF MayAnswer, ReadMarker, Answer, terrainVars
  <2> QED BY <2>1, <2>2, AnsweredKeeps
<1>5. CASE ~marker /\ args[p].offline
  <2>1. Answers(p, Failed("miss"))
    BY <1>1, <1>5 DEF ReadMarker, Answer, Answers, terrainVars
  <2>2. MayAnswer(p, Failed("miss"))
    BY <1>3, <1>5, Outcomes DEF MayAnswer, ReadMarker, Answer, terrainVars
  <2> QED BY <2>1, <2>2, AnsweredKeeps
<1>6. CASE ~marker /\ ~args[p].offline
  <2>1. Refetch(p)
    BY <1>1, <1>6 DEF ReadMarker, Refetch
  <2> QED BY <1>2, <2>1, RefetchKeeps
<1> QED BY <1>4, <1>5, <1>6

\* A tile that is not verified is fetched again, or refused offline.
LEMMA DistrustKeeps ==
    ASSUME TileInv, NEW p \in Proc, Distrust(p)
    PROVE  TileInv'
<1>1. pc[p] = "classified" /\ verdict[p] \in {"unverified", "stale"}
  BY DEF Distrust
<1>2. alone[p] /\ args[p].pin = NoPin => ~Verified
  <2>1. alone[p] /\ args[p].pin = NoPin =>
            Classified(data, sidecar, NoPin) \in {"unverified", "stale"}
    BY <1>1 DEF TileInv, EntryInv, AloneTrust, Undisturbed
  <2> QED BY <2>1 DEF Classified, Verified
<1>3. marker \in BOOLEAN /\ (marker => answered404)
  BY DEF TileInv, TileTypes, CoverageInv
<1>4. CASE args[p].offline
  <2>1. PICK kind \in {"miss", "mismatch"} : Answer(p, Failed(kind))
    BY <1>4 DEF Distrust
  <2>2. Answers(p, Failed(kind))
    BY <1>1, <2>1 DEF Answer, Answers, terrainVars
  <2>3. MayAnswer(p, Failed(kind))
    BY <1>3, <2>1, Outcomes DEF MayAnswer, Answer, terrainVars
  <2> QED BY <2>2, <2>3, AnsweredKeeps
<1>5. CASE ~args[p].offline
  <2>1. Refetch(p)
    BY <1>1, <1>5 DEF Distrust, Refetch
  <2> QED BY <1>2, <2>1, RefetchKeeps
<1> QED BY <1>4, <1>5

\* The marker's steps: it is written after a 404 and removed after a commit.
LEMMA MarkerStepsKeep ==
    ASSUME TileInv, NEW p \in Proc, WriteMarker(p) \/ DeleteMarker(p)
    PROVE  TileInv'
<1>3. marker \in BOOLEAN /\ (marker => answered404)
  BY DEF TileInv, TileTypes, CoverageInv
<1>1. CASE WriteMarker(p)
  <2>1. PICK kind \in {"no_coverage", "unwritable"} :
            Return(p, Failed(kind)) /\ (marker' = TRUE \/ marker' = marker)
    BY <1>1 DEF WriteMarker
  <2>2. Answers(p, Failed(kind))
    BY <1>1, <2>1 DEF WriteMarker, Answers
  <2>3. answered404
    BY <1>1 DEF WriteMarker, TileInv, CoverageInv
  <2>4. MayAnswer(p, Failed(kind))
    BY <1>3, <2>1, <2>3, Outcomes DEF MayAnswer
  <2> QED BY <2>2, <2>4, AnsweredKeeps
<1>2. CASE DeleteMarker(p)
  <2>1. Answers(p, Path(item[p].content))
    BY <1>2 DEF DeleteMarker, Answers
  <2>2. /\ item[p] \in Item /\ MayHandOut(p, item[p].content)
        /\ item[p].content \in Archive
    BY <1>2 DEF DeleteMarker, TileInv, EntryInv, TrustInv, TypeInv, ItemReady, CallTrust,
                MayHandOut, ConvertedInv
  <2>3. marker' = FALSE \/ marker' = marker
    BY <1>2 DEF DeleteMarker
  <2>4. MayAnswer(p, Path(item[p].content))
    <3>1. item[p].content \in Content /\ item[p].content \notin ZeroVoid
      BY <2>2, TerrainConstants DEF Item
    <3>2. Path(item[p].content) \in Outcome
      BY <3>1, Outcomes
    <3>3. marker' \in BOOLEAN /\ (marker' => answered404)
      <4>1. CASE marker' = FALSE
        BY <4>1
      <4>2. CASE marker' = marker
        BY <1>3, <4>2, Zenon
      <4> QED BY <2>3, <4>1, <4>2
    <3> QED BY <2>2, <3>1, <3>2, <3>3, Outcomes DEF MayAnswer
  <2> QED BY <2>1, <2>4, AnsweredKeeps
<1> QED BY <1>1, <1>2

\* The archive answers 404.
LEMMA NotFoundKeeps ==
    ASSUME TileInv, NEW p \in Proc, NotFound(p)
    PROVE  TileInv'
<1>t. TrustInv({"mark"}) /\ TypeInv({"mark"}) /\ AloneTrust
  BY DEF TileInv, EntryInv, TrustInv
<1>1. TrustInv({"mark"})'
  BY <1>t, GotoKeeps DEF NotFound, EntryPC, Committing
<1>2. AloneTrust'
  BY <1>t, GotoAlone DEF NotFound
<1>3. TileTypes'
  BY DEF TileInv, TileTypes, NotFound
<1>4. /\ pc[p] = "download" /\ pc' = [pc EXCEPT ![p] = "mark"] /\ answered404' = TRUE
      /\ pc \in [Proc -> EntryPC \union {"mark"}]
      /\ UNCHANGED <<alone, data, sidecar, args, trusted, out, item, marker>>
  BY <1>t DEF NotFound, Goto, TypeInv, EntryTypeOK
<1>5. CoverageInv'
  BY <1>4 DEF CoverageInv
<1>6. ConvertedInv'
  BY <1>4 DEF TileInv, ConvertedInv, Committing
<1>7. PathInv'
  BY <1>4 DEF TileInv, PathInv, MayHandOut
<1>8. RefetchInv'
  BY <1>4 DEF TileInv, RefetchInv, Verified
<1> QED BY <1>1, <1>2, <1>3, <1>5, <1>6, <1>7, <1>8 DEF TileInv, EntryInv

-----------------------------------------------------------------------------
\* The parts of the invariant that a step can only disturb by answering somebody.
LEMMA NoAnswerKeeps ==
    ASSUME TileInv, NoNewAnswer, NoNewLabel, trusted \subseteq trusted',
           UNCHANGED <<marker, answered404>>
    PROVE  CoverageInv' /\ PathInv'
<1>1. CoverageInv'
  BY DEF TileInv, CoverageInv, NoNewAnswer, NoNewLabel, EntryPC, Classifying, Committing
<1>2. PathInv'
  BY DEF TileInv, PathInv, MayHandOut, NoNewAnswer
<1> QED BY <1>1, <1>2

\* The steps of CacheEntry.
LEMMA StepKeepsTile ==
    ASSUME TileInv, NEW p \in Proc, Step(p, "v2"), UNCHANGED terrainVars
    PROVE  TileInv'
<1>t. /\ TrustInv({"mark"}) /\ TypeInv({"mark"}) /\ AloneTrust /\ "v2" \in Tag
      /\ pc \in [Proc -> EntryPC \union {"mark"}]
  BY TerrainConstants DEF TileInv, EntryInv, TrustInv, TypeInv, EntryTypeOK
<1>1. TrustInv({"mark"})' /\ AloneTrust'
  BY <1>t, StepKeeps, StepAlone
<1>2. TileTypes'
  BY DEF TileInv, TileTypes, terrainVars
<1>3. CoverageInv' /\ PathInv'
  BY <1>t, StepEffect, NoAnswerKeeps DEF terrainVars
<1>4. ConvertedInv'
  <2> USE DEF TrustInv, TypeInv, EntryTypeOK
  <2>1. CASE DownloadOk(p, "v2") /\ args[p].pin \in {NoPin, published}
    <3>1. /\ item' = [item EXCEPT ![p] = [content |-> published, tag |-> "v2"]]
          /\ pc' = [pc EXCEPT ![p] = "write_data"] /\ sidecar' = sidecar
          /\ published \in Archive /\ item \in [Proc -> Item \union {NoItem}]
      BY <1>t, <2>1 DEF DownloadOk, Goto
    <3> QED BY <1>t, <3>1 DEF TileInv, ConvertedInv
  <2>2. CASE DownloadOk(p, "v2") /\ args[p].pin \notin {NoPin, published}
    BY <1>t, <2>2 DEF DownloadOk, Return, Goto, TileInv, ConvertedInv, Committing
  <2>3. CASE DownloadFail(p) \/ CommitFail(p) \/ ReadFail(p)
    BY <1>t, <2>3 DEF DownloadFail, CommitFail, ReadFail, Return, Goto, TileInv, ConvertedInv, Committing
  <2>4. CASE ReadData(p) \/ ReadSidecar(p) \/ DownloadRetry(p)
    BY <1>t, <2>4 DEF ReadData, ReadSidecar, DownloadRetry, Goto, TileInv, ConvertedInv,
                      Committing
  <2>5. CASE WriteData(p) \/ WriteProv(p) \/ ReplaceData(p)
    BY <1>t, <2>5 DEF WriteData, WriteProv, ReplaceData, Goto, TileInv, ConvertedInv,
                      Committing
  <2>6. CASE ReplaceSidecar(p)
    BY <1>t, <2>6 DEF ReplaceSidecar, Goto, TileInv, ConvertedInv, Committing
  <2> QED BY <2>1, <2>2, <2>3, <2>4, <2>5, <2>6 DEF Step
<1>5. RefetchInv'
  <2>1. pc[p] # "idle" /\ UNCHANGED <<alone, args>>
    BY <1>t, StepMoves
  <2>2. \A q \in Proc : q # p => pc'[q] = pc[q]
    BY <1>t, StepMoves
  <2>3. pc'[p] \in {"download", "mark"} => UNCHANGED <<pc, data, sidecar>>
    BY <1>t DEF Step, ReadData, ReadFail, ReadSidecar, DownloadOk, DownloadRetry, DownloadFail,
           WriteData, WriteProv, ReplaceSidecar, ReplaceData, CommitFail, Return, Goto
  <2>4. ASSUME NEW q \in Proc, q # p, alone[q], pc'[q] \in {"download", "mark"} PROVE FALSE
    BY <2>1, <2>2, <2>4 DEF TileInv, EntryInv, AloneTrust, AloneInv
  <2> QED BY <2>1, <2>3, <2>4 DEF TileInv, RefetchInv, Verified
<1> QED BY <1>1, <1>2, <1>3, <1>4, <1>5 DEF TileInv, EntryInv

\* Calls that begin, crashes, and the archive.
LEMMA OutsideKeepsTile ==
    ASSUME TileInv, UNCHANGED <<marker, answered404>>, covered' \in BOOLEAN,
           \/ \E p \in Proc, offline \in BOOLEAN, pin \in Pin : Enter(p, offline, pin)
           \/ \E p \in Proc : Crash(p)
           \/ Republish
           \/ UNCHANGED entryVars
    PROVE  TileInv'
<1>t. /\ TrustInv({"mark"}) /\ TypeInv({"mark"}) /\ AloneTrust
      /\ pc \in [Proc -> EntryPC \union {"mark"}]
  BY DEF TileInv, EntryInv, TrustInv, TypeInv, EntryTypeOK
<1>1. TrustInv({"mark"})' /\ AloneTrust'
  BY <1>t, EnterKeeps, OutsideKeeps, OutsideAlone
<1>2. TileTypes'
  <2>1. marker' = marker /\ answered404' = answered404
    OBVIOUS
  <2> QED BY <2>1, Zenon DEF TileInv, TileTypes
<1>3. CoverageInv' /\ PathInv'
  BY <1>t, OutsideEffect, NoAnswerKeeps
<1>4. \A q \in Proc :
          \/ /\ pc'[q] = pc[q] /\ item'[q] = item[q] /\ args'[q] = args[q]
             /\ alone'[q] => alone[q]
          \/ pc'[q] \in {"idle", "read_data"}
  <2>1. ASSUME NEW p \in Proc, Crash(p)
        PROVE  \A q \in Proc :
                  \/ /\ pc'[q] = pc[q] /\ item'[q] = item[q] /\ args'[q] = args[q]
                     /\ alone'[q] => alone[q]
                  \/ pc'[q] \in {"idle", "read_data"}
    BY <1>t, <2>1 DEF Crash, Return, Goto, TypeInv, EntryTypeOK
  <2>2. ASSUME NEW p \in Proc, NEW offline \in BOOLEAN, NEW pin \in Pin,
               Enter(p, offline, pin)
        PROVE  \A q \in Proc :
                  \/ /\ pc'[q] = pc[q] /\ item'[q] = item[q] /\ args'[q] = args[q]
                     /\ alone'[q] => alone[q]
                  \/ pc'[q] \in {"idle", "read_data"}
    BY <1>t, <2>2 DEF Enter, Goto, TypeInv, EntryTypeOK
  <2>3. CASE Republish \/ UNCHANGED entryVars
    BY <2>3 DEF Republish, entryVars
  <2> QED BY <2>1, <2>2, <2>3
<1>5. UNCHANGED <<data, sidecar>>
  BY <1>t, OutsideEffect
<1>6. ConvertedInv'
  BY <1>4, <1>5 DEF TileInv, ConvertedInv, Committing
<1>7. RefetchInv'
  BY <1>4, <1>5 DEF TileInv, RefetchInv, Verified
<1> QED BY <1>1, <1>2, <1>3, <1>6, <1>7 DEF TileInv, EntryInv

\* Every step keeps the invariant.
LEMMA TileInvStep == TileInv /\ [Next]_vars => TileInv'
<1> SUFFICES ASSUME TileInv, [Next]_vars PROVE TileInv'
  OBVIOUS
<1>c. covered \in BOOLEAN /\ (~covered) \in BOOLEAN
  BY Zenon DEF TileInv, TileTypes
<1>1. ASSUME NEW p \in Proc, Call(p) PROVE TileInv'
  BY <1>1, <1>c, OutsideKeepsTile DEF Call, terrainVars
<1>2. ASSUME NEW p \in Proc, Running(p) PROVE TileInv'
  <2>1. CASE Step(p, "v2") /\ UNCHANGED terrainVars
    BY <2>1, StepKeepsTile
  <2>2. CASE ~(Step(p, "v2") /\ UNCHANGED terrainVars)
    <3>1. \/ Hit(p) \/ ReadMarker(p) \/ Distrust(p) \/ NotFound(p) \/ WriteMarker(p)
          \/ DeleteMarker(p)
      BY <1>2, <2>2 DEF Running, Download, Step
    <3> QED BY <3>1, HitKeeps, ReadMarkerKeeps, DistrustKeeps, NotFoundKeeps, MarkerStepsKeep
  <2> QED BY <2>1, <2>2
<1>3. ASSUME NEW p \in Proc, Crash(p), UNCHANGED terrainVars PROVE TileInv'
  BY <1>3, <1>c, OutsideKeepsTile DEF terrainVars
<1>4. CASE ArchiveChanges
  BY <1>4, <1>c, OutsideKeepsTile DEF ArchiveChanges
<1>5. CASE UNCHANGED vars
  BY <1>5, <1>c, OutsideKeepsTile DEF vars, terrainVars
<1> QED BY <1>1, <1>2, <1>3, <1>4, <1>5 DEF Next

-----------------------------------------------------------------------------
\* Every variable of the terrain model keeps its type.
THEOREM TerrainTypeCorrect == Spec => []TerrainTypeOK
<1>1. TileInv => TerrainTypeOK
  BY DEF TileInv, EntryInv, TrustInv, TypeInv, TileTypes, TerrainTypeOK
<1> QED BY TileInvInit, TileInvStep, <1>1, PTL DEF Spec

\* A tile handed out was verified, downloaded since, or is the pinned one.
THEOREM TilesAreTrusted == Spec => []TileIsTrusted
<1>1. TileInv => TileIsTrusted
  BY DEF TileInv, PathInv, MayHandOut, TileIsTrusted
<1> QED BY TileInvInit, TileInvStep, <1>1, PTL DEF Spec

\* "No coverage" is remembered and reported only after a 404.
THEOREM CoverageIsAnswered == Spec => []NoCoverageWasAnswered
<1>1. TileInv => NoCoverageWasAnswered
  BY DEF TileInv, CoverageInv, NoCoverageWasAnswered
<1> QED BY TileInvInit, TileInvStep, <1>1, PTL DEF Spec

\* No call that runs alone is handed a tile whose voids read as sea level.
THEOREM VoidsAreReconverted == Spec => []NoZeroVoidTile
<1>1. TileInv => NoZeroVoidTile
  BY DEF TileInv, PathInv, NoZeroVoidTile
<1> QED BY TileInvInit, TileInvStep, <1>1, PTL DEF Spec

\* A marker that a crash left beside a good tile never hides it.
THEOREM MarkerHidesNothing == Spec => MarkerNeverHidesTile
<1>1. ASSUME TileInv, [Next]_vars, NEW p \in Proc,
             out[p].kind = "none", out'[p].kind = "no_coverage",
             alone[p], args[p].pin = NoPin
      PROVE  ~(Verified /\ sidecar.tag = "v2")
  <2>t. TrustInv({"mark"}) /\ "v2" \in Tag /\ out \in [Proc -> Outcome]
    BY <1>1, TerrainConstants DEF TileInv, EntryInv, TrustInv, TypeInv, EntryTypeOK
  <2>1. ~NoNewAnswer
    BY <1>1 DEF NoNewAnswer
  <2>2. PICK q \in Proc : \/ Hit(q) \/ ReadMarker(q) \/ Distrust(q) \/ NotFound(q)
                          \/ WriteMarker(q) \/ DeleteMarker(q)
    BY <1>1, <2>t, <2>1, StepEffect, OutsideEffect
    DEF Next, Running, Call, Download, Step, ArchiveChanges, vars
  <2>3. CASE ReadMarker(q)
    <3>1. q = p
      BY <1>1, <2>t, <2>3, Outcomes DEF ReadMarker, Answer, Decide, Return
    <3>2. Classified(data, sidecar, NoPin) = "absent"
      BY <1>1, <2>3, <3>1 DEF ReadMarker, TileInv, EntryInv, AloneTrust, Undisturbed
    <3> QED BY <3>2 DEF Classified, Verified
  <2>4. CASE WriteMarker(q)
    <3>1. q = p
      BY <1>1, <2>t, <2>4, Outcomes DEF WriteMarker, Return
    <3> QED BY <1>1, <2>4, <3>1 DEF WriteMarker, TileInv, RefetchInv
  <2>5. CASE Hit(q) \/ Distrust(q) \/ NotFound(q) \/ DeleteMarker(q)
    <3>1. \/ out' = out
          \/ \E o : out' = [out EXCEPT ![q] = o] /\ o.kind # "no_coverage"
      <4>1. CASE Hit(q)
        BY <4>1, Outcomes DEF Hit, Answer, Decide, Return
      <4>2. CASE Distrust(q)
        BY <4>2, Outcomes DEF Distrust, Answer, Decide, Return
      <4>3. CASE NotFound(q) \/ DeleteMarker(q)
        BY <4>3, Outcomes DEF NotFound, DeleteMarker, Return
      <4> QED BY <2>5, <4>1, <4>2, <4>3
    <3> QED BY <1>1, <2>t, <3>1
  <2> QED BY <2>2, <2>3, <2>4, <2>5
<1>2. TileInv /\ [Next]_vars
        => [\A p \in Proc :
               /\ out[p].kind = "none" /\ out'[p].kind = "no_coverage"
               /\ alone[p] /\ args[p].pin = NoPin
               => ~(Verified /\ sidecar.tag = "v2")]_vars
  BY <1>1
<1> QED BY TileInvInit, TileInvStep, <1>2, PTL DEF Spec, MarkerNeverHidesTile

-----------------------------------------------------------------------------
\* The tile stands in the list at i.
Stands(r, list, i, tile) == i \in 1..Len(r[list]) /\ r[list][i] = tile

PrefetchTypes ==
    /\ request \in Seq(Tile)
    /\ next \in Nat \ {0}
    /\ answer # Unbound => answer[1] \in States /\ answer[2] \in Tile
    /\ report \in [List -> Seq(Tile)]

\* The tiles the loop has passed are reported.
PassedReported ==
    \A k \in 1..(next - 1) : k <= Len(request) =>
        \E list \in List, i \in Nat : Stands(report, list, i, request[k])

\* Without strict, each is reported once, and no other is.
ReportedOnce ==
    \A l, m \in List, i, j \in Nat, tile \in Tile :
        Stands(report, l, i, tile) /\ Stands(report, m, j, tile) => l = m /\ i = j
OnlyPassed ==
    \A l \in List, i \in Nat, tile \in Tile :
        Stands(report, l, i, tile) =>
            \E k \in 1..(next - 1) : k <= Len(request) /\ request[k] = tile

ReportInv ==
    /\ PrefetchTypes
    /\ PassedReported
    /\ ~strict => ReportedOnce /\ OnlyPassed /\ status # "raised"
    /\ status = "returned" => next > Len(request)

\* What filing a tile adds to a report: one place, at the end of one list.
LEMMA PutPlaces ==
    ASSUME NEW r \in [List -> Seq(Tile)], NEW list \in List, NEW tile \in Tile
    PROVE  /\ Put(r, list, tile) \in [List -> Seq(Tile)]
           /\ Stands(Put(r, list, tile), list, Len(r[list]) + 1, tile)
           /\ Len(r[list]) + 1 \in Nat
           /\ \A l \in List, i \in Nat, t \in Tile :
                 Stands(Put(r, list, tile), l, i, t) <=>
                     \/ Stands(r, l, i, t)
                     \/ l = list /\ i = Len(r[list]) + 1 /\ t = tile
<1> DEFINE after == Put(r, list, tile)
<1>1. /\ after \in [List -> Seq(Tile)]
      /\ after[list] = Append(r[list], tile)
      /\ \A l \in List : l # list => after[l] = r[l]
  BY DEF Put
<1>2. /\ r[list] \in Seq(Tile) /\ Len(r[list]) \in Nat
      /\ Len(after[list]) = Len(r[list]) + 1
      /\ \A i \in 1..Len(r[list]) : after[list][i] = r[list][i]
      /\ after[list][Len(r[list]) + 1] = tile
  BY <1>1
<1>3. ASSUME NEW l \in List, NEW i \in Nat, NEW t \in Tile
      PROVE  Stands(after, l, i, t) <=>
                 \/ Stands(r, l, i, t)
                 \/ l = list /\ i = Len(r[list]) + 1 /\ t = tile
  <2>1. CASE l = list
    <3> HIDE DEF after
    <3>1. i \in 1..(Len(r[list]) + 1) <=> i \in 1..Len(r[list]) \/ i = Len(r[list]) + 1
      BY <1>2
    <3>2. Len(r[list]) + 1 \notin 1..Len(r[list])
      BY <1>2
    <3> QED BY <1>2, <2>1, <3>1, <3>2 DEF Stands
  <2>2. CASE l # list
    BY <1>1, <2>2 DEF Stands
  <2> QED BY <2>1, <2>2
<1>4. Stands(after, list, Len(r[list]) + 1, tile)
  <2> HIDE DEF after
  <2> QED BY <1>2 DEF Stands
<1> QED BY <1>1, <1>2, <1>3, <1>4

\* The invariant holds when the loop starts.
LEMMA ReportInvInit == PrefetchInit => ReportInv
<1> SUFFICES ASSUME PrefetchInit PROVE ReportInv
  OBVIOUS
<1>1. request \in Seq(Tile)
  <2>1. PICK m \in 0..MaxLength : request \in [1..m -> Tile]
    BY DEF PrefetchInit, BoundedSeq, SeqOf
  <2>2. m \in Nat
    BY <2>1, PrefetchAssumption
  <2> QED BY <2>1, <2>2
<1>2. report \in [List -> Seq(Tile)] /\ \A l \in List : Len(report[l]) = 0
  <2>1. << >> \in Seq(Tile) /\ Len(<< >>) = 0
    OBVIOUS
  <2> QED BY <2>1 DEF PrefetchInit
<1>3. \A l \in List, i \in Nat, tile \in Tile : ~Stands(report, l, i, tile)
  BY <1>2 DEF Stands
<1> QED BY <1>1, <1>2, <1>3 DEF PrefetchInit, ReportInv, PrefetchTypes, PassedReported, ReportedOnce, OnlyPassed

-----------------------------------------------------------------------------
\* A tile is filed and the loop goes on, or ends in UnboundLocalError.
LEMMA FiledKeeps ==
    ASSUME ReportInv, AtTile, NEW list \in List, report' = Put(report, list, request[next]),
           UNCHANGED <<request, strict>>,
           answer' # Unbound => answer'[1] \in States /\ answer'[2] \in Tile,
           next' = next + 1, ~Repeated, status' = status
    PROVE  ReportInv'
<1>t. /\ next \in Nat \ {0} /\ Len(request) \in Nat /\ next <= Len(request)
      /\ request[next] \in Tile /\ report \in [List -> Seq(Tile)]
      /\ \A k \in 1..Len(request) : request[k] \in Tile
  BY DEF ReportInv, PrefetchTypes, AtTile
<1>1. /\ report' \in [List -> Seq(Tile)] /\ Len(report[list]) + 1 \in Nat
      /\ Stands(report', list, Len(report[list]) + 1, request[next])
      /\ \A l \in List, i \in Nat, t \in Tile :
            Stands(report', l, i, t) <=>
                \/ Stands(report, l, i, t)
                \/ l = list /\ i = Len(report[list]) + 1 /\ t = request[next]
  BY <1>t, PutPlaces
<1>2. PrefetchTypes'
  BY <1>t, <1>1 DEF ReportInv, PrefetchTypes
<1>3. PassedReported'
  <2>1. ASSUME NEW k \in 1..next, k <= Len(request)
        PROVE  \E l \in List, i \in Nat : Stands(report', l, i, request[k])
    <3>1. CASE k = next
      BY <1>1, <3>1
    <3>2. CASE k # next
      <4>1. k \in 1..(next - 1) /\ request[k] \in Tile
        BY <1>t, <2>1, <3>2
      <4> QED BY <1>1, <2>1, <4>1 DEF ReportInv, PassedReported
    <3> QED BY <3>1, <3>2
  <2>2. next' - 1 = next
    BY <1>t
  <2> QED BY <2>1, <2>2 DEF PassedReported
<1>4. ASSUME ~strict PROVE ReportedOnce' /\ OnlyPassed' /\ status' # "raised"
  <2>1. \A l \in List, i \in Nat : ~Stands(report, l, i, request[next])
    BY <1>t, <1>4 DEF ReportInv, OnlyPassed, Repeated
  <2>2. ReportedOnce'
    BY <1>1, <1>4, <2>1 DEF ReportInv, ReportedOnce
  <2>3. OnlyPassed'
    <3>1. \A k \in 1..(next - 1) : k \in 1..(next' - 1)
      BY <1>t
    <3>2. next \in 1..(next' - 1)
      BY <1>t
    <3> QED BY <1>t, <1>1, <1>4, <3>1, <3>2 DEF ReportInv, OnlyPassed
  <2> QED BY <2>2, <2>3, <1>4 DEF ReportInv
<1>5. status' # "returned"
  BY DEF AtTile
<1> QED BY <1>2, <1>3, <1>4, <1>5 DEF ReportInv

\* With strict, NoCoverage files a tile and may file another one twice.
LEMMA NoCoverageKeeps ==
    ASSUME ReportInv, NoCoverageRaised
    PROVE  ReportInv'
<1>t. /\ next \in Nat \ {0} /\ Len(request) \in Nat /\ next <= Len(request)
      /\ request[next] \in Tile /\ report \in [List -> Seq(Tile)]
      /\ "no_coverage" \in List /\ \A k \in 1..Len(request) : request[k] \in Tile
  BY DEF ReportInv, PrefetchTypes, AtTile, NoCoverageRaised, List
<1> DEFINE filed == Put(report, "no_coverage", request[next])
<1>1. /\ filed \in [List -> Seq(Tile)]
      /\ \A l \in List, i \in Nat, t \in Tile :
             Stands(report, l, i, t) => Stands(filed, l, i, t)
      /\ \E i \in Nat : Stands(filed, "no_coverage", i, request[next])
  BY <1>t, PutPlaces
<1>2. strict /\ UNCHANGED <<request, strict, answer>>
  BY DEF NoCoverageRaised
<1>3. CASE answer = Unbound
  <2>1. report' = filed /\ status' = "raised" /\ next' = next
    BY <1>3 DEF NoCoverageRaised
  <2> HIDE DEF filed
  <2>2. PassedReported'
    <3>1. \A k \in 1..(next - 1) : k <= Len(request) => request[k] \in Tile
      BY <1>t
    <3> QED BY <1>1, <1>2, <2>1, <3>1 DEF ReportInv, PassedReported
  <2> QED BY <1>1, <1>2, <2>1, <2>2 DEF ReportInv, PrefetchTypes
<1>4. CASE answer # Unbound
  <2>1. /\ report' = Put(filed, answer[1], answer[2]) /\ status' = status /\ next' = next + 1
        /\ answer[1] \in List /\ answer[2] \in Tile
    BY <1>4 DEF NoCoverageRaised, ReportInv, PrefetchTypes, States, List
  <2> HIDE DEF filed
  <2>2. /\ report' \in [List -> Seq(Tile)]
        /\ \A l \in List, i \in Nat, t \in Tile :
               Stands(filed, l, i, t) => Stands(report', l, i, t)
    BY <1>1, <2>1, PutPlaces
  <2>3. ASSUME NEW k \in 1..next, k <= Len(request)
        PROVE  \E l \in List, i \in Nat : Stands(report', l, i, request[k])
    <3>1. CASE k = next
      BY <1>t, <1>1, <2>2, <3>1
    <3>2. CASE k # next
      <4>1. k \in 1..(next - 1) /\ request[k] \in Tile
        BY <1>t, <2>3, <3>2
      <4> QED BY <1>1, <2>2, <2>3, <4>1 DEF ReportInv, PassedReported
    <3> QED BY <3>1, <3>2
  <2>4. next' - 1 = next /\ next' \in Nat \ {0}
    BY <1>t, <2>1
  <2>5. PassedReported'
    BY <1>2, <2>3, <2>4 DEF PassedReported
  <2>6. status' # "returned"
    BY <2>1 DEF NoCoverageRaised, AtTile
  <2> QED BY <1>2, <2>2, <2>4, <2>5, <2>6 DEF ReportInv, PrefetchTypes
<1> QED BY <1>3, <1>4

\* Every step keeps the invariant.
LEMMA ReportInvStep == ReportInv /\ [PrefetchNext]_prefetchVars => ReportInv'
<1> SUFFICES ASSUME ReportInv, [PrefetchNext]_prefetchVars PROVE ReportInv'
  OBVIOUS
<1>1. CASE SkipRepeated
  <2>1. /\ next \in Nat \ {0} /\ next' = next + 1 /\ Len(request) \in Nat
        /\ UNCHANGED <<request, strict, answer, report, status>>
        /\ \E k \in 1..(next - 1) : request[k] = request[next]
        /\ next <= Len(request) /\ status # "returned"
    BY <1>1 DEF SkipRepeated, Repeated, AtTile, ReportInv, PrefetchTypes
  <2>2. next' \in Nat \ {0} /\ 1..(next' - 1) = 1..(next - 1) \union {next}
    BY <2>1
  <2>3. \A k \in 1..(next - 1) : k <= Len(request)
    BY <2>1
  <2>4. PassedReported'
    BY <2>1, <2>2, <2>3 DEF ReportInv, PassedReported
  <2>5. ~strict => OnlyPassed'
    BY <2>1, <2>2 DEF ReportInv, OnlyPassed
  <2> QED BY <2>1, <2>2, <2>4, <2>5 DEF ReportInv, PrefetchTypes, ReportedOnce
<1>2. ASSUME NEW state \in States, Answered(state) PROVE ReportInv'
  <2>1. answer'[1] \in States /\ answer'[2] \in Tile /\ state \in List
    BY <1>2 DEF Answered, AtTile, ReportInv, PrefetchTypes, States, List
  <2> QED BY <1>2, <2>1, FiledKeeps DEF Answered
<1>3. CASE ErrorRaised
  <2>1. "errors" \in List /\ (answer' # Unbound => answer'[1] \in States /\ answer'[2] \in Tile)
    BY <1>3 DEF ErrorRaised, ReportInv, PrefetchTypes, List
  <2> QED BY <1>3, <2>1, FiledKeeps DEF ErrorRaised
<1>6. CASE ErrorPropagates
  BY <1>6 DEF ErrorPropagates, AtTile, ReportInv, PrefetchTypes, PassedReported, ReportedOnce,
              OnlyPassed
<1>4. CASE Finish
  BY <1>4 DEF Finish, ReportInv, PrefetchTypes, PassedReported, ReportedOnce, OnlyPassed
<1>5. CASE UNCHANGED prefetchVars
  BY <1>5 DEF prefetchVars, ReportInv, PrefetchTypes, PassedReported, ReportedOnce, OnlyPassed
<1> QED BY <1>1, <1>2, <1>3, <1>4, <1>5, <1>6, NoCoverageKeeps DEF PrefetchNext

-----------------------------------------------------------------------------
\* No tile asked for is missing from the report, strict or not.
THEOREM EveryTileIsReported == PrefetchSpec => []EveryTileReported
<1>1. ASSUME ReportInv, status = "returned", NEW tile \in ToSet(request)
      PROVE  \E list \in List : tile \in ToSet(report[list])
  <2>1. PICK k \in 1..Len(request) : request[k] = tile
    BY <1>1 DEF ToSet, ReportInv, PrefetchTypes
  <2>2. k \in 1..(next - 1) /\ k <= Len(request)
    BY <1>1, <2>1 DEF ReportInv, PrefetchTypes
  <2>3. PICK list \in List, i \in Nat : Stands(report, list, i, tile)
    BY <1>1, <2>1, <2>2 DEF ReportInv, PassedReported
  <2>4. report[list] \in Seq(Tile)
    BY <1>1 DEF ReportInv, PrefetchTypes
  <2> QED BY <2>3, <2>4 DEF Stands, ToSet
<1>2. ReportInv => EveryTileReported
  BY <1>1 DEF EveryTileReported
<1> QED BY ReportInvInit, ReportInvStep, <1>2, PTL DEF PrefetchSpec

\* Without strict, the report of every request is a partition of its tiles.
THEOREM NonStrictIsPartition == PrefetchSpec => []PartitionedUnlessStrict
<1>1. ASSUME ReportInv, ~strict, status = "returned", NEW tile \in ToSet(request)
      PROVE  Occurrences(tile) = 1
  <2> DEFINE At(list) == {<<list, i>> : i \in {j \in 1..Len(report[list]) :
                                                 report[list][j] = tile}}
  <2>1. PICK k \in 1..Len(request) : request[k] = tile
    BY <1>1 DEF ToSet, ReportInv, PrefetchTypes
  <2>2. k \in 1..(next - 1) /\ k <= Len(request) /\ tile \in Tile
    BY <1>1, <2>1 DEF ReportInv, PrefetchTypes
  <2>3. PICK l \in List, i \in Nat : Stands(report, l, i, tile)
    BY <1>1, <2>1, <2>2 DEF ReportInv, PassedReported
  <2>4. \A m \in List : Len(report[m]) \in Nat
    BY <1>1 DEF ReportInv, PrefetchTypes
  <2>5. \A m \in List, j \in Nat : Stands(report, m, j, tile) => m = l /\ j = i
    BY <1>1, <2>2, <2>3 DEF ReportInv, ReportedOnce
  <2>6. \A m \in List : At(m) = IF m = l THEN {<<l, i>>} ELSE {}
    <3>1. ASSUME NEW m \in List
          PROVE  {j \in 1..Len(report[m]) : report[m][j] = tile}
                     = IF m = l THEN {i} ELSE {}
      BY <2>3, <2>4, <2>5 DEF Stands
    <3> QED BY <3>1
  <2>7. UNION {At(m) : m \in List} = {<<l, i>>}
    <3> HIDE DEF At
    <3> QED BY <2>3, <2>6
  <2>8. Occurrences(tile) = Cardinality({<<l, i>>})
    BY <2>7 DEF Occurrences
  <2> QED BY <2>8, FS_Singleton
<1>2. ReportInv => PartitionedUnlessStrict
  BY <1>1 DEF ReportInv, PartitionedUnlessStrict, Partitioned
<1> QED BY ReportInvInit, ReportInvStep, <1>2, PTL DEF PrefetchSpec
=============================================================================
