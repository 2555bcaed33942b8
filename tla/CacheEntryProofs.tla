--------------------------- MODULE CacheEntryProofs ---------------------------
(***************************************************************************)
(* What the steps of CacheEntry preserve, for any number of callers and     *)
(* contents: its types, and that bytes nobody vouched for are never taken   *)
(* for verified ones.  ProductFetch, TerrainFetch and SpaceWeatherFetch are *)
(* proved correct from these lemmas.  `extra' stands for the labels such a  *)
(* module adds.                                                             *)
(***************************************************************************)
EXTENDS CacheEntry, TLAPS

\* What the assumptions say of the constants.
LEMMA EntryConstants ==
    /\ NoFile \notin Content
    /\ NoPin \notin Content
    /\ Archive \subseteq Content
    /\ Pin \subseteq Content \union {NoPin}
    /\ NoSidecar \notin Record
    /\ Retries \in Nat
BY ContentAssumption, SidecarAssumption, RetriesAssumption DEF Record

\* The verdict of _classify is one of its four states.
LEMMA ClassifiedType ==
    \A bytes, record, pin : Classified(bytes, record, pin) \in Verdict
BY DEF Classified, Verdict

\* The outcomes the code builds are outcomes, and only a path is a path.
LEMMA Outcomes ==
    /\ NoOut \in Outcome /\ NoOut.kind = "none"
    /\ \A kind \in OutKind : Failed(kind) \in Outcome /\ Failed(kind).kind = kind
    /\ \A c \in Content \union {NoFile} : Path(c) \in Outcome
    /\ \A c : Path(c).kind = "path" /\ Path(c).content = c
    /\ {"none", "path", "miss", "mismatch", "failed", "unwritable", "no_coverage"}
          \subseteq OutKind
BY DEF NoOut, Failed, Path, Outcome, OutKind

-----------------------------------------------------------------------------
\* The types alone are not inductive: ReplaceSidecar builds the sidecar from
\* item, which holds a content only from the download on.
ItemReady ==
    \A p \in Proc : pc[p] \in Committing \union {"committed"} => item[p] \in Item

TypeInv(extra) == EntryTypeOK(extra) /\ ItemReady

\* Bytes nobody vouched for never meet a sidecar with their digest, at the path
\* or in the hands of a caller between the two reads of _classify: the sidecar
\* that was there does not match them, and every sidecar written since is of a
\* trusted content.
NeverVouchedFor(bytes) ==
    bytes \notin trusted => sidecar = NoSidecar \/ sidecar.digest # bytes

EntryTrust == data # NoFile => NeverVouchedFor(data)

\* The caller may hand out c.
MayHandOut(p, c) == IF args[p].pin = NoPin THEN c \in trusted ELSE c = args[p].pin

CallTrust(p) ==
    /\ pc[p] = "read_sidecar" =>
           args[p].pin = NoPin /\ seen[p] # NoFile /\ NeverVouchedFor(seen[p])
    /\ pc[p] = "classified" /\ verdict[p] = "hit" => MayHandOut(p, seen[p])
    /\ pc[p] \in Committing \union {"committed"} =>
           item[p].content \in trusted /\ args[p].pin \in {NoPin, item[p].content}

TrustInv(extra) == TypeInv(extra) /\ EntryTrust /\ \A p \in Proc : CallTrust(p)

\* The entry as the callers find it satisfies the invariant.
LEMMA EntryInitTrust ==
    ASSUME NEW extra, NEW contents, NEW records,
           contents \subseteq Content \union {NoFile},
           records \subseteq Record \union {NoSidecar},
           EntryInit(contents, records)
    PROVE  TrustInv(extra)
<1>1. trusted \subseteq Content
  BY EntryConstants DEF EntryInit, Verified
<1>2. alone \in [Proc -> BOOLEAN]
  BY Zenon DEF EntryInit
<1>3. EntryTypeOK(extra)
  BY <1>1, <1>2, EntryConstants, Outcomes DEF EntryInit, EntryTypeOK, EntryPC, Verdict
<1>4. EntryTrust
  BY DEF EntryInit, EntryTrust, NeverVouchedFor, Verified
<1>5. ItemReady /\ \A p \in Proc : CallTrust(p)
  BY DEF EntryInit, ItemReady, CallTrust, Committing
<1> QED
  BY <1>3, <1>4, <1>5 DEF TrustInv, TypeInv

-----------------------------------------------------------------------------
\* The callers that do not move are not disturbed by a step that leaves the
\* sidecar alone or replaces it by one for a trusted content.
LEMMA OtherCallers ==
    ASSUME NEW extra, TrustInv(extra), NEW q \in Proc,
           trusted \subseteq trusted',
           \/ sidecar' = sidecar
           \/ sidecar'.digest \in trusted,
           pc'[q] = pc[q], args'[q] = args[q], seen'[q] = seen[q],
           verdict'[q] = verdict[q], item'[q] = item[q]
    PROVE  CallTrust(q)'
BY DEF TrustInv, CallTrust, NeverVouchedFor, MayHandOut

\* A step of one caller keeps the invariant if it keeps the types, the entry's
\* part and its own part, and leaves the other callers' locals alone.
LEMMA OneCallerMoves ==
    ASSUME NEW extra, TrustInv(extra), NEW p \in Proc, TypeInv(extra)', EntryTrust',
           CallTrust(p)', trusted \subseteq trusted',
           sidecar' = sidecar \/ sidecar'.digest \in trusted,
           \A q \in Proc : q # p =>
               /\ pc'[q] = pc[q] /\ args'[q] = args[q] /\ seen'[q] = seen[q]
               /\ verdict'[q] = verdict[q] /\ item'[q] = item[q]
    PROVE  TrustInv(extra)'
<1>1. ASSUME NEW q \in Proc, q # p PROVE CallTrust(q)'
  BY <1>1, OtherCallers
<1> QED BY <1>1 DEF TrustInv

\* A caller that ends its call and changes nothing shared keeps the invariant.
LEMMA ReturnKeeps ==
    ASSUME NEW extra, TrustInv(extra), NEW p \in Proc, NEW o \in Outcome, Return(p, o),
           UNCHANGED <<alone, data, sidecar, published, args, trusted>>
    PROVE  TrustInv(extra)'
<1> USE DEF TrustInv, TypeInv, EntryTypeOK
<1>1. EntryTypeOK(extra)'
  BY EntryConstants DEF Return, Goto, EntryPC, Verdict
<1>2. ItemReady'
  BY DEF ItemReady, Return, Goto, Committing
<1>3. EntryTrust'
  BY DEF EntryTrust, NeverVouchedFor
<1>4. CallTrust(p)'
  BY DEF CallTrust, Return, Goto, Committing
<1>5. \A q \in Proc : q # p =>
          /\ pc'[q] = pc[q] /\ args'[q] = args[q] /\ seen'[q] = seen[q]
          /\ verdict'[q] = verdict[q] /\ item'[q] = item[q]
  BY DEF Return, Goto
<1>6. TypeInv(extra)'
  BY <1>1, <1>2
<1> HIDE DEF TrustInv, TypeInv, EntryTypeOK
<1> QED BY <1>3, <1>4, <1>5, <1>6, OneCallerMoves

\* So does one that goes where nothing is required of it.
LEMMA GotoKeeps ==
    ASSUME NEW extra, TrustInv(extra), NEW p \in Proc, NEW label \in EntryPC \union extra,
           label \notin Committing \union {"committed", "read_sidecar", "classified"},
           Goto(p, label),
           UNCHANGED <<alone, data, sidecar, published, args, seen, verdict, tries, item,
                       temps, out, trusted>>
    PROVE  TrustInv(extra)'
<1> USE DEF TrustInv, TypeInv, EntryTypeOK
<1>1. EntryTypeOK(extra)'
  BY DEF Goto
<1>2. ItemReady'
  BY DEF ItemReady, Goto
<1>3. EntryTrust'
  BY DEF EntryTrust, NeverVouchedFor
<1>4. ASSUME NEW q \in Proc PROVE CallTrust(q)'
  BY DEF CallTrust, Goto, NeverVouchedFor, MayHandOut
<1> QED BY <1>1, <1>2, <1>3, <1>4

\* And a step that changes neither the entry nor what the callers know.
LEMMA NothingKnownChanges ==
    ASSUME NEW extra, TrustInv(extra), EntryTypeOK(extra)',
           UNCHANGED <<data, sidecar, pc, args, seen, verdict, item, trusted>>
    PROVE  TrustInv(extra)'
BY DEF TrustInv, TypeInv, ItemReady, EntryTrust, CallTrust, NeverVouchedFor, MayHandOut

-----------------------------------------------------------------------------
\* Entering a call keeps the invariant.
LEMMA EnterKeeps ==
    ASSUME NEW extra, TrustInv(extra), NEW p \in Proc, NEW offline \in BOOLEAN,
           NEW pin \in Pin, Enter(p, offline, pin)
    PROVE  TrustInv(extra)'
<1> USE EntryConstants, Outcomes DEF TrustInv, TypeInv, EntryTypeOK
<1>1. ASSUME NEW q \in Proc
      PROVE  (IF q = p THEN \A r \in Proc \ {p} : pc[r] = "idle"
                       ELSE pc[q] = "idle" /\ alone[q]) \in BOOLEAN
  BY Zenon
<1>2. alone' \in [Proc -> BOOLEAN]
  BY <1>1, Zenon DEF Enter
<1>3. /\ pc' = [pc EXCEPT ![p] = "read_data"]
      /\ args' = [args EXCEPT ![p] = [offline |-> offline, pin |-> pin]]
      /\ out' = [out EXCEPT ![p] = NoOut]
      /\ UNCHANGED <<data, sidecar, published, seen, verdict, tries, item, temps, trusted>>
  BY DEF Enter, Goto
<1>4. EntryTypeOK(extra)'
  BY <1>2, <1>3 DEF EntryPC, Classifying
<1>5. ItemReady'
  BY <1>3 DEF ItemReady, Committing
<1>6. EntryTrust'
  BY <1>3 DEF EntryTrust, NeverVouchedFor
<1>7. CallTrust(p)'
  BY <1>3 DEF CallTrust, Committing
<1>8. \A q \in Proc : q # p =>
          /\ pc'[q] = pc[q] /\ args'[q] = args[q] /\ seen'[q] = seen[q]
          /\ verdict'[q] = verdict[q] /\ item'[q] = item[q]
  BY <1>3
<1>9. TypeInv(extra)' /\ trusted \subseteq trusted' /\ sidecar' = sidecar
  BY <1>3, <1>4, <1>5
<1> HIDE DEF TrustInv, TypeInv, EntryTypeOK
<1> QED BY <1>6, <1>7, <1>8, <1>9, OneCallerMoves

\* The two reads of _classify.
LEMMA ReadsKeep ==
    ASSUME NEW extra, TrustInv(extra), NEW p \in Proc, ReadData(p) \/ ReadSidecar(p)
    PROVE  TrustInv(extra)'
<1> USE EntryConstants DEF TrustInv, TypeInv, EntryTypeOK
<1>1. \A bytes, record, pin :
         [verdict EXCEPT ![p] = Classified(bytes, record, pin)] \in [Proc -> Verdict]
  BY ClassifiedType
<1>2. EntryTypeOK(extra)'
  <2>1. CASE ReadData(p)
    <3>1. pc' \in [Proc -> EntryPC \union extra] /\ seen' \in [Proc -> Content \union {NoFile}]
      BY <2>1 DEF ReadData, Goto, EntryPC, Classifying
    <3>2. verdict' \in [Proc -> Verdict]
      BY <1>1, <2>1 DEF ReadData
    <3>3. UNCHANGED <<alone, data, sidecar, published, args, tries, item, temps, out, trusted>>
      BY <2>1 DEF ReadData
    <3> QED BY <3>1, <3>2, <3>3
  <2>2. CASE ReadSidecar(p)
    BY <1>1, <2>2 DEF ReadSidecar, Goto, EntryPC, Classifying
  <2> QED BY <2>1, <2>2
<1>3. ItemReady'
  BY DEF ReadData, ReadSidecar, Goto, ItemReady, Committing
<1>4. EntryTrust'
  BY DEF ReadData, ReadSidecar, EntryTrust, NeverVouchedFor
<1>5. CallTrust(p)'
  <2>1. CASE ReadData(p) /\ (data = NoFile \/ args[p].pin # NoPin)
    BY <2>1 DEF ReadData, Goto, CallTrust, Classified, MayHandOut, Committing
  <2>2. CASE ReadData(p) /\ data # NoFile /\ args[p].pin = NoPin
    BY <2>2 DEF ReadData, Goto, CallTrust, EntryTrust, NeverVouchedFor, Committing
  <2>3. CASE ReadSidecar(p)
    BY <2>3 DEF ReadSidecar, Goto, CallTrust, NeverVouchedFor, Classified, MayHandOut,
                Committing
  <2> QED BY <2>1, <2>2, <2>3
<1>6. /\ trusted \subseteq trusted' /\ sidecar' = sidecar
      /\ \A q \in Proc : q # p =>
            /\ pc'[q] = pc[q] /\ args'[q] = args[q] /\ seen'[q] = seen[q]
            /\ verdict'[q] = verdict[q] /\ item'[q] = item[q]
  BY DEF ReadData, ReadSidecar, Goto
<1>7. TypeInv(extra)'
  BY <1>2, <1>3
<1> HIDE DEF TrustInv, TypeInv, EntryTypeOK
<1> QED BY <1>4, <1>5, <1>6, <1>7, OneCallerMoves

\* One attempt of _download, whatever comes of it, and a file that cannot be read.
LEMMA DownloadKeeps ==
    ASSUME NEW extra, TrustInv(extra), NEW p \in Proc, NEW tag \in Tag,
           \/ DownloadOk(p, tag) \/ DownloadRetry(p) \/ DownloadFail(p)
           \/ ReadFail(p)
    PROVE  TrustInv(extra)'
<1> USE EntryConstants, Outcomes
<1>1. CASE DownloadOk(p, tag) /\ args[p].pin \in {NoPin, published}
  <2> USE DEF TrustInv, TypeInv, EntryTypeOK
  <2>1. /\ pc' = [pc EXCEPT ![p] = "write_data"]
        /\ item' = [item EXCEPT ![p] = [content |-> published, tag |-> tag]]
        /\ trusted' = trusted \union {published}
        /\ UNCHANGED <<alone, data, sidecar, published, args, out, seen, verdict, tries, temps>>
    BY <1>1 DEF DownloadOk, Goto
  <2>2. [content |-> published, tag |-> tag] \in Item
    BY DEF Item
  <2>3. EntryTypeOK(extra)'
    BY <2>1, <2>2 DEF EntryPC, Committing
  <2>4. ItemReady'
    BY <2>1, <2>2 DEF ItemReady, Committing
  <2>5. EntryTrust'
    BY <2>1 DEF EntryTrust, NeverVouchedFor
  <2>6. CallTrust(p)'
    BY <1>1, <2>1 DEF CallTrust, Committing
  <2>7. /\ trusted \subseteq trusted' /\ sidecar' = sidecar /\ TypeInv(extra)'
        /\ \A q \in Proc : q # p =>
              /\ pc'[q] = pc[q] /\ args'[q] = args[q] /\ seen'[q] = seen[q]
              /\ verdict'[q] = verdict[q] /\ item'[q] = item[q]
    BY <2>1, <2>3, <2>4
  <2> HIDE DEF TrustInv, TypeInv, EntryTypeOK
  <2> QED BY <2>5, <2>6, <2>7, OneCallerMoves
<1>2. CASE DownloadOk(p, tag) /\ args[p].pin \notin {NoPin, published}
  BY <1>2, ReturnKeeps DEF DownloadOk
<1>3. CASE DownloadRetry(p)
  <2>1. EntryTypeOK(extra)'
    BY <1>3 DEF TrustInv, TypeInv, EntryTypeOK, DownloadRetry
  <2> QED BY <1>3, <2>1, NothingKnownChanges DEF DownloadRetry
<1>4. CASE DownloadFail(p) \/ ReadFail(p)
  BY <1>4, ReturnKeeps DEF DownloadFail, ReadFail
<1> QED BY <1>1, <1>2, <1>3, <1>4

\* The four steps of _commit, and its failure.
LEMMA CommitKeeps ==
    ASSUME NEW extra, TrustInv(extra), NEW p \in Proc,
           \/ WriteData(p) \/ WriteProv(p) \/ ReplaceSidecar(p) \/ ReplaceData(p)
           \/ CommitFail(p)
    PROVE  TrustInv(extra)'
<1> USE EntryConstants, Outcomes
<1>1. CASE CommitFail(p)
  BY <1>1, ReturnKeeps DEF CommitFail
<1>2. CASE WriteData(p) \/ WriteProv(p) \/ ReplaceSidecar(p) \/ ReplaceData(p)
  <2> USE <1>2 DEF TrustInv, TypeInv, EntryTypeOK
  <2>1. /\ pc[p] \in Committing /\ item[p] \in Item
        /\ item[p].content \in trusted /\ args[p].pin \in {NoPin, item[p].content}
    BY DEF WriteData, WriteProv, ReplaceSidecar, ReplaceData, ItemReady, CallTrust, Committing
  <2>2. \E label \in Committing \union {"committed"} : pc' = [pc EXCEPT ![p] = label]
    BY DEF WriteData, WriteProv, ReplaceSidecar, ReplaceData, Goto, Committing
  <2>3. UNCHANGED <<alone, published, args, seen, verdict, tries, item, out, trusted>>
    BY DEF WriteData, WriteProv, ReplaceSidecar, ReplaceData
  <2>4. temps' \in [Proc -> SUBSET {"data", "prov"}]
    BY DEF WriteData, WriteProv, ReplaceSidecar, ReplaceData
  <2>5. /\ sidecar' = sidecar \/ (sidecar' \in Record /\ sidecar'.digest \in trusted)
        /\ data' = data \/ data' \in trusted
    BY <2>1 DEF WriteData, WriteProv, ReplaceSidecar, ReplaceData, Item, Record
  <2>6. EntryTypeOK(extra)'
    <3>1. /\ pc' \in [Proc -> EntryPC \union extra]
          /\ data' \in Content \union {NoFile}
          /\ sidecar' \in Record \union {NoSidecar}
      BY <2>2, <2>5 DEF EntryPC
    <3>2. UNCHANGED <<alone, published, args, seen, verdict, tries, item, out, trusted>>
      BY <2>3
    <3> QED BY <2>4, <3>1, <3>2
  <2>7. ItemReady'
    BY <2>1, <2>2, <2>3 DEF ItemReady
  <2>8. EntryTrust'
    BY <2>3, <2>5 DEF EntryTrust, NeverVouchedFor
  <2>9. CallTrust(p)'
    BY <2>1, <2>2, <2>3 DEF CallTrust, Committing
  <2>10. /\ trusted \subseteq trusted' /\ TypeInv(extra)'
         /\ \A q \in Proc : q # p =>
               /\ pc'[q] = pc[q] /\ args'[q] = args[q] /\ seen'[q] = seen[q]
               /\ verdict'[q] = verdict[q] /\ item'[q] = item[q]
    BY <2>2, <2>3, <2>6, <2>7
  <2> HIDE DEF TrustInv, TypeInv, EntryTypeOK
  <2> QED BY <2>5, <2>8, <2>9, <2>10, OneCallerMoves
<1> QED BY <1>1, <1>2

\* Every step the fetch functions have in common keeps the invariant.
LEMMA StepKeeps ==
    ASSUME NEW extra, TrustInv(extra), NEW p \in Proc, NEW tag \in Tag, Step(p, tag)
    PROVE  TrustInv(extra)'
BY ReadsKeep, DownloadKeeps, CommitKeeps DEF Step

\* A crash and a change of the archive keep it too.
LEMMA OutsideKeeps ==
    ASSUME NEW extra, TrustInv(extra),
           \/ \E p \in Proc : Crash(p)
           \/ Republish
           \/ UNCHANGED entryVars
    PROVE  TrustInv(extra)'
<1>1. ASSUME NEW p \in Proc, Crash(p) PROVE TrustInv(extra)'
  BY <1>1, Outcomes, ReturnKeeps DEF Crash
<1>2. CASE Republish \/ UNCHANGED entryVars
  <2>1. EntryTypeOK(extra)'
    BY <1>2 DEF TrustInv, TypeInv, EntryTypeOK, Republish, entryVars
  <2> QED BY <1>2, <2>1, NothingKnownChanges DEF Republish, entryVars
<1> QED BY <1>1, <1>2

-----------------------------------------------------------------------------
\* Nobody is answered: each caller keeps its outcome and its arguments, and is
\* alone only if it was, or its outcome is no path and no "no coverage".
NoNewAnswer ==
    \A q \in Proc : \/ out'[q] = out[q] /\ args'[q] = args[q] /\ (alone'[q] => alone[q])
                    \/ out'[q].kind \notin {"path", "no_coverage"}

\* Nobody moves to a label outside CacheEntry's.
NoNewLabel == \A q \in Proc : pc'[q] = pc[q] \/ pc'[q] \in EntryPC

\* What a common step of a call does to the entry and to the outcomes: only the
\* two replaces change the entry, nothing trusted is forgotten, and nobody is
\* answered.
LEMMA StepEffect ==
    ASSUME NEW extra, TrustInv(extra), NEW p \in Proc, NEW tag \in Tag, Step(p, tag)
    PROVE  /\ trusted \subseteq trusted'
           /\ data' = data \/ ReplaceData(p)
           /\ sidecar' = sidecar \/ ReplaceSidecar(p)
           /\ NoNewAnswer /\ NoNewLabel
<1> USE DEF TrustInv, TypeInv, EntryTypeOK
<1>1. CASE DownloadOk(p, tag) \/ DownloadFail(p) \/ CommitFail(p) \/ ReadFail(p)
  BY <1>1, Outcomes DEF DownloadOk, DownloadFail, CommitFail, ReadFail, Return, Goto,
                        NoNewAnswer, NoNewLabel, EntryPC, Committing
<1>2. CASE ~(DownloadOk(p, tag) \/ DownloadFail(p) \/ CommitFail(p) \/ ReadFail(p))
  BY <1>2 DEF Step, ReadData, ReadSidecar, DownloadRetry, WriteData, WriteProv,
              ReplaceSidecar, ReplaceData, Goto, NoNewAnswer, NoNewLabel, EntryPC,
              Classifying, Committing
<1> QED BY <1>1, <1>2

\* It moves one caller, which is inside a call.
LEMMA StepMoves ==
    ASSUME NEW extra, TypeInv(extra), NEW p \in Proc, NEW tag \in Tag, Step(p, tag)
    PROVE  /\ pc[p] # "idle" /\ UNCHANGED <<alone, args>>
           /\ \A q \in Proc : q # p =>
                 pc'[q] = pc[q] /\ seen'[q] = seen[q] /\ item'[q] = item[q]
<1> USE DEF TypeInv, EntryTypeOK
<1>1. CASE DownloadOk(p, tag) \/ DownloadFail(p) \/ CommitFail(p) \/ ReadFail(p)
  BY <1>1 DEF DownloadOk, DownloadFail, CommitFail, ReadFail, Return, Goto, Committing
<1>2. CASE ~(DownloadOk(p, tag) \/ DownloadFail(p) \/ CommitFail(p) \/ ReadFail(p))
  BY <1>2 DEF Step, ReadData, ReadSidecar, DownloadRetry, WriteData, WriteProv,
              ReplaceSidecar, ReplaceData, Goto
<1> QED BY <1>1, <1>2

\* What entering a call, a crash and the archive do to them.
LEMMA OutsideEffect ==
    ASSUME NEW extra, TrustInv(extra),
           \/ \E p \in Proc, offline \in BOOLEAN, pin \in Pin : Enter(p, offline, pin)
           \/ \E p \in Proc : Crash(p)
           \/ Republish
           \/ UNCHANGED entryVars
    PROVE  UNCHANGED <<trusted, data, sidecar>> /\ NoNewAnswer /\ NoNewLabel
<1> USE DEF TrustInv, TypeInv, EntryTypeOK
<1>1. ASSUME NEW p \in Proc, NEW offline \in BOOLEAN, NEW pin \in Pin, Enter(p, offline, pin)
      PROVE  UNCHANGED <<trusted, data, sidecar>> /\ NoNewAnswer /\ NoNewLabel
  BY <1>1, Outcomes DEF Enter, Goto, NoNewAnswer, NoNewLabel, EntryPC, Classifying
<1>2. ASSUME NEW p \in Proc, Crash(p)
      PROVE  UNCHANGED <<trusted, data, sidecar>> /\ NoNewAnswer /\ NoNewLabel
  BY <1>2, Outcomes DEF Crash, Return, Goto, NoNewAnswer, NoNewLabel,
              EntryPC
<1>3. CASE Republish \/ UNCHANGED entryVars
  BY <1>3 DEF Republish, entryVars, NoNewAnswer, NoNewLabel
<1> QED BY <1>1, <1>2, <1>3

\* What the two replaces put in place is trusted.
LEMMA ReplacedByTrusted ==
    ASSUME NEW extra, TrustInv(extra), NEW p \in Proc
    PROVE  /\ ReplaceData(p) => data' \in trusted /\ UNCHANGED <<sidecar, trusted>>
           /\ ReplaceSidecar(p) => /\ sidecar' # NoSidecar /\ sidecar'.digest \in trusted
                                   /\ UNCHANGED <<data, trusted>>
<1>1. ASSUME ReplaceSidecar(p) PROVE sidecar' # NoSidecar
  <2>1. item[p] \in Item
    BY <1>1 DEF TrustInv, TypeInv, ItemReady, ReplaceSidecar, Committing
  <2>2. sidecar' \in Record
    BY <1>1, <2>1 DEF ReplaceSidecar, Item, Record
  <2> QED BY <2>2, EntryConstants
<1> QED
  BY <1>1 DEF TrustInv, CallTrust, ReplaceData, ReplaceSidecar, Committing

-----------------------------------------------------------------------------
\* While a call that no other call has overlapped is in progress, nobody else is.
AloneInv ==
    \A p \in Proc : alone[p] /\ pc[p] # "idle" => \A r \in Proc \ {p} : pc[r] = "idle"

\* So what such a call has read is still there, and so is what it has written.
Undisturbed(p) ==
    alone[p] =>
        /\ pc[p] \in {"read_sidecar", "classified"} => seen[p] = data
        /\ pc[p] = "classified" => verdict[p] = Classified(data, sidecar, args[p].pin)
        /\ pc[p] \in {"replace_data", "committed"} =>
               sidecar = [digest |-> item[p].content, tag |-> item[p].tag]
        /\ pc[p] = "committed" => data = item[p].content

AloneTrust == AloneInv /\ \A p \in Proc : Undisturbed(p)

\* When the callers start, nobody is in a call.
LEMMA EntryInitAlone ==
    ASSUME NEW contents, NEW records, EntryInit(contents, records)
    PROVE  AloneTrust
BY DEF EntryInit, AloneTrust, AloneInv, Undisturbed

\* When a caller in progress moves, every other one is idle or no longer alone.
LEMMA AloneMoves ==
    ASSUME NEW extra, TypeInv(extra), AloneTrust, NEW p \in Proc, pc[p] # "idle",
           UNCHANGED alone, \A q \in Proc : q # p => pc'[q] = pc[q], Undisturbed(p)'
    PROVE  AloneTrust'
<1>1. AloneInv'
  BY DEF AloneTrust, AloneInv
<1>2. ASSUME NEW q \in Proc, q # p PROVE Undisturbed(q)'
  <2>1. alone[q] => pc'[q] = "idle"
    BY <1>2 DEF AloneTrust, AloneInv
  <2> QED BY <2>1 DEF Undisturbed
<1> QED BY <1>1, <1>2 DEF AloneTrust

\* Ending a call, and going where nothing is required of the caller.
LEMMA GotoAlone ==
    ASSUME NEW extra, TypeInv(extra), AloneTrust, NEW p \in Proc, pc[p] # "idle",
           UNCHANGED alone, NEW label, Goto(p, label),
           label \notin {"read_sidecar", "classified", "replace_data", "committed"}
    PROVE  AloneTrust'
<1>1. pc'[p] = label /\ \A q \in Proc : q # p => pc'[q] = pc[q]
  BY DEF Goto, TypeInv, EntryTypeOK
<1>2. Undisturbed(p)'
  BY <1>1 DEF Undisturbed
<1> QED BY <1>1, <1>2, AloneMoves

\* The steps of a call that no other call overlaps see and leave the entry as
\* they would if there were no other callers.
LEMMA StepAlone ==
    ASSUME NEW extra, TrustInv(extra), AloneTrust, NEW p \in Proc, NEW tag \in Tag, Step(p, tag)
    PROVE  AloneTrust'
<1>t. TypeInv(extra)
  BY DEF TrustInv
<1>1. pc[p] # "idle" /\ UNCHANGED alone
  BY DEF Step, ReadData, ReadFail, ReadSidecar, DownloadOk, DownloadRetry, DownloadFail,
         WriteData, WriteProv, ReplaceSidecar, ReplaceData, CommitFail, Committing
<1>2. CASE ReadData(p) \/ ReadSidecar(p) \/ ReplaceSidecar(p) \/ ReplaceData(p)
  <2>1. \A q \in Proc : q # p => pc'[q] = pc[q]
    BY <1>2, <1>t DEF ReadData, ReadSidecar, ReplaceSidecar, ReplaceData, Goto, TypeInv,
                      EntryTypeOK
  <2>2. Undisturbed(p)'
    <3> USE <1>t DEF TypeInv, EntryTypeOK
    <3>1. CASE ReadData(p)
      BY <3>1 DEF ReadData, Goto, Undisturbed, Classified
    <3>2. CASE ReadSidecar(p)
      <4>1. args[p].pin = NoPin
        BY <3>2 DEF TrustInv, CallTrust, ReadSidecar
      <4> QED BY <3>2, <4>1 DEF ReadSidecar, Goto, Undisturbed, AloneTrust
    <3>3. CASE ReplaceSidecar(p)
      BY <3>3 DEF ReplaceSidecar, Goto, Undisturbed
    <3>4. CASE ReplaceData(p)
      BY <3>4 DEF ReplaceData, Goto, Undisturbed, AloneTrust
    <3> QED BY <1>2, <3>1, <3>2, <3>3, <3>4
  <2> QED BY <1>1, <1>t, <2>1, <2>2, AloneMoves
<1>3. CASE DownloadRetry(p)
  BY <1>3 DEF DownloadRetry, AloneTrust, AloneInv, Undisturbed
<1>4. CASE \/ DownloadOk(p, tag) \/ DownloadFail(p) \/ WriteData(p) \/ WriteProv(p)
           \/ CommitFail(p) \/ ReadFail(p)
  BY <1>1, <1>4, <1>t, GotoAlone DEF DownloadOk, DownloadFail, WriteData, WriteProv,
                                     CommitFail, ReadFail, Return
<1> QED BY <1>2, <1>3, <1>4 DEF Step

\* Entering a call, a crash and the archive leave that so.
LEMMA OutsideAlone ==
    ASSUME NEW extra, TypeInv(extra), AloneTrust,
           \/ \E p \in Proc, offline \in BOOLEAN, pin \in Pin : Enter(p, offline, pin)
           \/ \E p \in Proc : Crash(p)
           \/ Republish
           \/ UNCHANGED entryVars
    PROVE  AloneTrust'
<1>1. ASSUME NEW p \in Proc, NEW offline \in BOOLEAN, NEW pin \in Pin, Enter(p, offline, pin)
      PROVE  AloneTrust'
  <2>1. /\ pc[p] = "idle" /\ pc'[p] = "read_data"
        /\ \A q \in Proc : q # p => pc'[q] = pc[q]
    BY <1>1 DEF Enter, Goto, TypeInv, EntryTypeOK
  <2>2. /\ alone'[p] => \A r \in Proc \ {p} : pc[r] = "idle"
        /\ \A q \in Proc : q # p => (alone'[q] => pc[q] = "idle")
    BY <1>1 DEF Enter
  <2>3. AloneInv'
    BY <2>1, <2>2 DEF AloneInv
  <2>4. ASSUME NEW q \in Proc PROVE Undisturbed(q)'
    BY <2>1, <2>2 DEF Undisturbed
  <2> QED BY <2>3, <2>4 DEF AloneTrust
<1>2. ASSUME NEW p \in Proc, Crash(p) PROVE AloneTrust'
  BY <1>2, GotoAlone DEF Crash, Return
<1>3. CASE Republish \/ UNCHANGED entryVars
  BY <1>3 DEF Republish, entryVars, AloneTrust, AloneInv, Undisturbed
<1> QED BY <1>1, <1>2, <1>3
=============================================================================
