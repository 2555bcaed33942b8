----------------------- MODULE SpaceWeatherFetchProofs -----------------------
(***************************************************************************)
(* Proofs about SpaceWeatherFetch, for any number of callers and contents,  *)
(* any age limit and any clock bound, from what CacheEntryProofs shows of    *)
(* the steps it shares with other calls.                                    *)
(***************************************************************************)
EXTENDS SpaceWeatherFetch, CacheEntryProofs

\* The constants of this module.
LEMMA WeatherConstants ==
    MaxAge \in Nat /\ MaxTime \in Nat /\ Tag = 0..MaxTime
BY TimeAssumption

TimeTypes ==
    /\ now \in 0..MaxTime
    /\ since \in [Proc -> 0..MaxTime]
    /\ fetched \in [Content -> 0..MaxTime \union {Never}]

\* The path is opened again to load the table.  What is there then is what was
\* verified, or what a commit has put there since.
LoadingInv ==
    \A p \in Proc :
        /\ pc[p] \in {"read_sidecar", "classified", "load"} =>
               data = seen[p] \/ data \in trusted
        /\ pc[p] = "load" => MayHandOut(p, seen[p])
        /\ pc[p] = "load" /\ alone[p] => data = seen[p]
        /\ pc[p] = "committed" => data \in trusted

\* Trusted contents have been downloaded (or were fetched before), and no sidecar
\* makes one younger than it is.
SidecarAge ==
    /\ \A c \in Content : fetched[c] <= now
    /\ \A c \in trusted : fetched[c] # Never
    /\ sidecar # NoSidecar =>
           /\ sidecar.tag <= now
           /\ fetched[sidecar.digest] # Never => sidecar.tag <= fetched[sidecar.digest]

\* What a caller commits was downloaded during its call; what it loads from the
\* cache, if it runs alone, is young enough.
CallAge(p) ==
    /\ since[p] <= now
    /\ pc[p] \in Committing \union {"committed"} =>
           /\ item[p].tag <= fetched[item[p].content]
           /\ since[p] <= fetched[item[p].content]
    /\ pc[p] = "load" /\ alone[p] /\ ~args[p].offline /\ ~Pinned(p) =>
           since[p] <= fetched[seen[p]] + MaxAge

\* What a caller holds.
MayLoad(p, c) ==
    /\ c \in trusted \union {args[p].pin}
    /\ ~Pinned(p) => c \in trusted
    /\ alone[p] /\ Pinned(p) => c = args[p].pin
    /\ alone[p] /\ ~args[p].offline /\ ~Pinned(p) => since[p] <= fetched[c] + MaxAge

EntryInv == TrustInv({"load"}) /\ AloneTrust
TableInv ==
    /\ EntryInv /\ TimeTypes /\ LoadingInv /\ SidecarAge
    /\ \A p \in Proc : CallAge(p)
    /\ \A p \in Proc : out[p].kind = "path" => MayLoad(p, out[p].content)

\* The invariant holds when the callers start.
LEMMA TableInvInit == Init => TableInv
<1>1. SUFFICES ASSUME Init PROVE TableInv
  OBVIOUS
<1> DEFINE contents == {NoFile} \union Archive
           records == {NoSidecar} \union [digest: Archive, tag: {0}]
<1>2. /\ EntryInit(contents, records)
      /\ contents \subseteq Content \union {NoFile}
      /\ records \subseteq Record \union {NoSidecar}
      /\ sidecar \in records
  BY <1>1, WeatherConstants, EntryConstants
  DEF Init, SpaceWeatherInit, EntryInit, Record
<1>3. EntryInv
  <2> HIDE DEF contents, records
  <2> QED BY <1>2, EntryInitTrust, EntryInitAlone DEF EntryInv
<1>4. /\ now = 0 /\ since = [p \in Proc |-> 0]
      /\ fetched = [c \in Content |-> IF Verified /\ data = c THEN sidecar.tag ELSE Never]
      /\ trusted = IF Verified THEN {data} ELSE {}
      /\ pc = [p \in Proc |-> "idle"] /\ out = [p \in Proc |-> NoOut]
      /\ sidecar # NoSidecar => sidecar.tag = 0 /\ sidecar.digest \in Content
  BY <1>1, <1>2, EntryConstants DEF Init, SpaceWeatherInit, EntryInit
<1>5. TimeTypes
  BY <1>4, WeatherConstants DEF TimeTypes, Verified
<1>6. LoadingInv
  BY <1>4 DEF LoadingInv
<1>7. SidecarAge
  <2>1. trusted \subseteq Content
    BY <1>3 DEF EntryInv, TrustInv, TypeInv, EntryTypeOK
  <2> QED BY <1>4, <2>1 DEF SidecarAge, Verified, Never
<1>8. ASSUME NEW p \in Proc
      PROVE  CallAge(p) /\ (out[p].kind = "path" => MayLoad(p, out[p].content))
  BY <1>4, Outcomes DEF CallAge, Committing
<1> QED BY <1>3, <1>5, <1>6, <1>7, <1>8 DEF TableInv

\* Facts every step's proof starts from.
LEMMA TableFacts ==
    ASSUME TableInv
    PROVE  /\ TrustInv({"load"}) /\ TypeInv({"load"}) /\ AloneTrust
           /\ pc \in [Proc -> EntryPC \union {"load"}]
           /\ out \in [Proc -> Outcome] /\ item \in [Proc -> Item \union {NoItem}]
           /\ trusted \subseteq Content /\ now \in Tag
BY WeatherConstants DEF TableInv, EntryInv, TrustInv, TypeInv, EntryTypeOK, TimeTypes

-----------------------------------------------------------------------------
\* A caller's call ends with outcome o.
Answered(p, o) ==
    /\ pc[p] # "idle"
    /\ Return(p, o)
    /\ UNCHANGED <<alone, data, sidecar, published, args, trusted, now, since, fetched>>

\* That keeps the invariant if it may hold what it got.
LEMMA AnsweredKeeps ==
    ASSUME TableInv, NEW p \in Proc, NEW o \in Outcome, Answered(p, o),
           o.kind = "path" => MayLoad(p, o.content)
    PROVE  TableInv'
<1> USE TableFacts
<1>r. Return(p, o) /\ UNCHANGED <<alone, data, sidecar, published, args, trusted>>
  BY DEF Answered
<1>1. TrustInv({"load"})'
  BY <1>r, ReturnKeeps
<1>2. AloneTrust'
  <2>1. Goto(p, "idle") /\ UNCHANGED alone /\ pc[p] # "idle"
    BY <1>r DEF Return, Answered
  <2> QED BY <2>1, GotoAlone
<1>3. TimeTypes'
  BY DEF TableInv, TimeTypes, Answered
<1>4. /\ pc' = [pc EXCEPT ![p] = "idle"] /\ out' = [out EXCEPT ![p] = o]
      /\ \A q \in Proc : q # p => item'[q] = item[q] /\ seen'[q] = seen[q]
      /\ UNCHANGED <<alone, data, sidecar, args, trusted, now, since, fetched>>
  BY DEF Answered, Return, Goto
<1>5. LoadingInv'
  BY <1>4 DEF TableInv, LoadingInv, MayHandOut
<1>6. SidecarAge'
  BY <1>4 DEF TableInv, SidecarAge
<1>7. ASSUME NEW q \in Proc PROVE CallAge(q)'
  BY <1>4 DEF TableInv, CallAge, Pinned, Committing
<1>8. ASSUME NEW q \in Proc, out'[q].kind = "path" PROVE MayLoad(q, out[q].content)'
  BY <1>4, <1>8 DEF TableInv, MayLoad, Pinned
<1> QED BY <1>1, <1>2, <1>3, <1>5, <1>6, <1>7, <1>8 DEF TableInv, EntryInv

\* A caller with a verdict goes on to load the table, or to download it.
Decided(p, label) ==
    /\ pc[p] = "classified"
    /\ Goto(p, label)
    /\ UNCHANGED <<alone, data, sidecar, published, args, seen, verdict, tries, item, temps,
                   out, trusted, now, since, fetched>>

\* That keeps the invariant if what it goes on to load is what it verified.
LEMMA DecidedKeeps ==
    ASSUME TableInv, NEW p \in Proc, NEW label \in {"load", "download"}, Decided(p, label),
           label = "load" =>
               /\ MayHandOut(p, seen[p])
               /\ alone[p] => data = seen[p]
               /\ alone[p] /\ ~args[p].offline /\ ~Pinned(p) =>
                      since[p] <= fetched[seen[p]] + MaxAge
    PROVE  TableInv'
<1> USE TableFacts
<1>1. TrustInv({"load"})'
  BY GotoKeeps DEF Decided, EntryPC, Committing
<1>2. AloneTrust'
  BY GotoAlone DEF Decided
<1>3. TimeTypes'
  BY DEF TableInv, TimeTypes, Decided
<1>4. /\ pc[p] = "classified" /\ pc' = [pc EXCEPT ![p] = label]
      /\ UNCHANGED <<alone, data, sidecar, args, trusted, now, since, fetched, item, seen, out>>
  BY DEF Decided, Goto
<1>5. LoadingInv'
  BY <1>4 DEF TableInv, LoadingInv, MayHandOut
<1>6. SidecarAge'
  BY <1>4 DEF TableInv, SidecarAge
<1>7. ASSUME NEW q \in Proc PROVE CallAge(q)'
  BY <1>4 DEF TableInv, CallAge, Pinned, Committing
<1>8. ASSUME NEW q \in Proc, out'[q].kind = "path" PROVE MayLoad(q, out[q].content)'
  BY <1>4, <1>8 DEF TableInv, MayLoad, Pinned
<1> QED BY <1>1, <1>2, <1>3, <1>5, <1>6, <1>7, <1>8 DEF TableInv, EntryInv

-----------------------------------------------------------------------------
\* A verified hit.  The age is read from a sidecar that, for a call that runs
\* alone, is still the one that vouched for the bytes.
LEMMA HitKeeps ==
    ASSUME TableInv, NEW p \in Proc, Hit(p), UNCHANGED <<now, since, fetched>>
    PROVE  TableInv'
<1> USE TableFacts, WeatherConstants
<1>1. pc[p] = "classified" /\ verdict[p] = "hit" /\ MayHandOut(p, seen[p])
  BY DEF Hit, TrustInv, CallTrust
<1>2. alone[p] => data = seen[p] /\ Classified(data, sidecar, args[p].pin) = "hit"
  BY <1>1 DEF AloneTrust, Undisturbed
<1>3. PICK label \in {"load", "download"} : Decided(p, label)
  BY DEF Hit, Decided
<1>4. ASSUME label = "load", alone[p], ~args[p].offline, ~Pinned(p)
      PROVE  since[p] <= fetched[seen[p]] + MaxAge
  <2>1. sidecar # NoSidecar /\ now <= sidecar.tag + MaxAge
    <3>1. ~(args[p].offline \/ args[p].pin # NoPin)
      BY <1>4 DEF Pinned
    <3>2. pc'[p] = "load"
      BY <1>3, <1>4 DEF Decided, Goto
    <3> QED BY <3>1, <3>2 DEF Hit, Goto
  <2>2. sidecar.digest = seen[p] /\ seen[p] \in trusted
    BY <1>1, <1>2, <1>4, <2>1 DEF Classified, Pinned, MayHandOut
  <2>3. /\ now \in Int /\ since[p] \in Int /\ fetched[seen[p]] \in Int
        /\ sidecar.tag \in Int /\ MaxAge \in Int
    <3>1. sidecar \in Record
      BY <2>1 DEF TypeInv, EntryTypeOK
    <3> QED BY <3>1, <2>2 DEF TableInv, TimeTypes, Record, Never
  <2>4. sidecar.tag <= fetched[seen[p]]
    BY <2>1, <2>2 DEF TableInv, SidecarAge
  <2>5. since[p] <= now
    BY DEF TableInv, CallAge
  <2> HIDE TableFacts
  <2> QED BY <2>1, <2>3, <2>4, <2>5
<1> QED BY <1>1, <1>2, <1>3, <1>4, DecidedKeeps

\* A table that is not verified is refused, or downloaded; one that does not load
\* ends the call.
LEMMA MissKeeps ==
    ASSUME TableInv, NEW p \in Proc, Refuse(p) \/ GoOnline(p) \/ LoadFail(p),
           UNCHANGED <<now, since, fetched>>
    PROVE  TableInv'
<1>1. CASE Refuse(p)
  <2>1. PICK kind \in {"miss", "mismatch"} : Answered(p, Failed(kind))
    BY <1>1 DEF Refuse, Answered
  <2> QED BY <2>1, Outcomes, AnsweredKeeps
<1>2. CASE GoOnline(p)
  <2>1. Decided(p, "download")
    BY <1>2 DEF GoOnline, Decided
  <2> QED BY <2>1, DecidedKeeps
<1>3. CASE LoadFail(p)
  <2>1. Answered(p, Failed("failed"))
    BY <1>3 DEF LoadFail, Answered
  <2> QED BY <2>1, Outcomes, AnsweredKeeps
<1> QED BY <1>1, <1>2, <1>3

\* The table is loaded from the path as it is now.
LEMMA LoadKeeps ==
    ASSUME TableInv, NEW p \in Proc, Load(p), UNCHANGED <<now, since, fetched>>
    PROVE  TableInv'
<1> USE TableFacts, WeatherConstants
<1>1. Answered(p, Path(data))
  BY DEF Load, Answered
<1>2. Path(data) \in Outcome
  BY Outcomes DEF TypeInv, EntryTypeOK
<1>3. CASE pc[p] = "load"
  <2>1. /\ MayHandOut(p, seen[p]) /\ (data = seen[p] \/ data \in trusted)
        /\ alone[p] => data = seen[p]
    BY <1>3 DEF TableInv, LoadingInv
  <2>2. alone[p] /\ ~args[p].offline /\ ~Pinned(p) => since[p] <= fetched[data] + MaxAge
    BY <1>3, <2>1 DEF TableInv, CallAge
  <2>3. MayLoad(p, data)
    BY <2>1, <2>2 DEF MayLoad, MayHandOut, Pinned
  <2> QED BY <1>1, <1>2, <2>3, Outcomes, AnsweredKeeps
<1>4. CASE pc[p] = "committed"
  <2>1. /\ data \in trusted
        /\ alone[p] => data = item[p].content
        /\ args[p].pin \in {NoPin, item[p].content}
    BY <1>4 DEF TableInv, LoadingInv, AloneTrust, Undisturbed, TrustInv, CallTrust
  <2>2. alone[p] => since[p] <= fetched[data]
    BY <1>4, <2>1 DEF TableInv, CallAge
  <2>3. since[p] \in Int /\ fetched[data] \in Int /\ MaxAge \in Nat
    BY <2>1 DEF TableInv, TimeTypes, Never
  <2>4. alone[p] => since[p] <= fetched[data] + MaxAge
    <3> HIDE TableFacts
    <3> QED BY <2>2, <2>3
  <2>5. MayLoad(p, data)
    BY <2>1, <2>4 DEF MayLoad, Pinned
  <2> QED BY <1>1, <1>2, <2>5, Outcomes, AnsweredKeeps
<1> QED BY <1>3, <1>4 DEF Load

-----------------------------------------------------------------------------
\* No content gets older.
Refreshed ==
    /\ \A c \in Content : fetched[c] <= fetched'[c] /\ fetched'[c] <= now
    /\ \A c \in Content : fetched[c] # Never => fetched'[c] # Never

\* What callers hold stays within what they may hold if nobody is answered.
LEMMA NoAnswerKeeps ==
    ASSUME TableInv, NoNewAnswer, trusted \subseteq trusted', TimeTypes', Refreshed,
           \A q \in Proc : since'[q] = since[q] \/ out'[q].kind # "path",
           NEW p \in Proc, out'[p].kind = "path"
    PROVE  MayLoad(p, out[p].content)'
<1>1. /\ out'[p] = out[p] /\ args'[p] = args[p] /\ (alone'[p] => alone[p])
      /\ since'[p] = since[p] /\ MayLoad(p, out[p].content)
  BY DEF NoNewAnswer, TableInv
<1>2. ASSUME alone[p], ~args[p].offline, ~Pinned(p)
      PROVE  since[p] <= fetched'[out[p].content] + MaxAge
  <2>1. out[p].content \in Content
    BY <1>1, <1>2, TableFacts DEF MayLoad
  <2>2. /\ since[p] <= fetched[out[p].content] + MaxAge
        /\ fetched[out[p].content] <= fetched'[out[p].content]
    BY <1>1, <1>2, <2>1 DEF MayLoad, Refreshed
  <2>3. /\ since[p] \in Int /\ fetched[out[p].content] \in Int
        /\ fetched'[out[p].content] \in Int /\ MaxAge \in Int
    BY <2>1, WeatherConstants DEF TableInv, TimeTypes, Never
  <2> QED BY <2>2, <2>3
<1> QED BY <1>1, <1>2 DEF MayLoad, Pinned

\* The steps of CacheEntry; a successful download also records when it was.
LEMMA StepKeepsTable ==
    ASSUME TableInv, NEW p \in Proc, Step(p, now), UNCHANGED <<now, since>>,
           fetched' = IF pc'[p] = "write_data" THEN [fetched EXCEPT ![published] = now]
                                               ELSE fetched
    PROVE  TableInv'
<1>t. /\ TrustInv({"load"}) /\ TypeInv({"load"}) /\ AloneTrust /\ now \in Tag
      /\ published \in Content /\ pc \in [Proc -> EntryPC \union {"load"}]
      /\ trusted \subseteq Content /\ item \in [Proc -> Item \union {NoItem}]
  BY TableFacts, EntryConstants DEF TrustInv, TypeInv, EntryTypeOK
<1>1. TrustInv({"load"})' /\ AloneTrust'
  BY <1>t, StepKeeps, StepAlone
<1>2. TimeTypes'
  BY <1>t DEF TableInv, TimeTypes
<1>3. Refreshed
  <2>1. \A c \in Content : fetched[c] \in Int /\ fetched[c] <= now /\ now \in Nat
    BY WeatherConstants DEF TableInv, TimeTypes, SidecarAge, Never
  <2>2. \A c \in Content : fetched'[c] = fetched[c] \/ fetched'[c] = now
    BY <1>t DEF TableInv, TimeTypes
  <2> QED BY <2>1, <2>2 DEF Refreshed, Never
<1>4. ASSUME NEW q \in Proc, out'[q].kind = "path" PROVE MayLoad(q, out[q].content)'
  BY <1>2, <1>3, <1>4, <1>t, StepEffect, NoAnswerKeeps
<1>5. /\ pc[p] # "idle" /\ UNCHANGED <<alone, args>>
      /\ \A q \in Proc : q # p =>
            pc'[q] = pc[q] /\ seen'[q] = seen[q] /\ item'[q] = item[q]
  BY <1>t, StepMoves
<1>6. \A q \in Proc : q # p /\ pc[q] = "load" => ~alone[q]
  BY <1>5 DEF TableInv, EntryInv, AloneTrust, AloneInv
<1>7. /\ trusted \subseteq trusted'
      /\ data' = data \/ data' \in trusted
  BY <1>t, StepEffect, ReplacedByTrusted
\* where the caller that moves may be afterwards, and with what
<1>8. \/ pc'[p] \in {"idle", "download"}
      \/ /\ pc'[p] \in {"read_sidecar", "classified"}
         /\ UNCHANGED <<data, trusted>>
         /\ seen'[p] = data \/ (pc[p] = "read_sidecar" /\ seen'[p] = seen[p])
      \/ /\ pc'[p] = "write_data" /\ item'[p] = [content |-> published, tag |-> now]
      \/ /\ pc'[p] \in Committing \ {"write_data"}
         /\ pc[p] \in Committing /\ item'[p] = item[p]
      \/ /\ pc'[p] = "committed" /\ pc[p] \in Committing /\ item'[p] = item[p]
         /\ data' \in trusted'
  <2> USE DEF TypeInv, EntryTypeOK
  <2>1. CASE ReadData(p)
    BY <1>t, <2>1 DEF ReadData, Goto
  <2>2. CASE ReadSidecar(p)
    BY <1>t, <2>2 DEF ReadSidecar, Goto
  <2>3. CASE DownloadOk(p, now)
    BY <1>t, <2>3 DEF DownloadOk, Return, Goto
  <2>4. CASE DownloadRetry(p) \/ DownloadFail(p) \/ CommitFail(p) \/ ReadFail(p)
    BY <1>t, <2>4 DEF DownloadRetry, DownloadFail, CommitFail, ReadFail, Return, Goto
  <2>5. CASE WriteData(p) \/ WriteProv(p) \/ ReplaceSidecar(p)
    BY <1>t, <2>5 DEF WriteData, WriteProv, ReplaceSidecar, Goto, Committing
  <2>6. CASE ReplaceData(p)
    BY <1>t, <2>6, ReplacedByTrusted DEF ReplaceData, Goto, Committing
  <2> QED BY <2>1, <2>2, <2>3, <2>4, <2>5, <2>6 DEF Step
<1>9. LoadingInv'
  <2>1. ASSUME NEW q \in Proc, q # p
        PROVE  /\ pc'[q] \in {"read_sidecar", "classified", "load"} =>
                      data' = seen'[q] \/ data' \in trusted'
               /\ pc'[q] = "load" => MayHandOut(q, seen[q])'
               /\ pc'[q] = "load" /\ alone'[q] => data' = seen'[q]
               /\ pc'[q] = "committed" => data' \in trusted'
    BY <1>5, <1>6, <1>7, <2>1 DEF TableInv, LoadingInv, MayHandOut
  <2>2. /\ pc'[p] \in {"read_sidecar", "classified", "load"} =>
               data' = seen'[p] \/ data' \in trusted'
        /\ pc'[p] # "load"
        /\ pc'[p] = "committed" => data' \in trusted'
    BY <1>8 DEF TableInv, LoadingInv, Committing
  <2> QED BY <2>1, <2>2 DEF LoadingInv
<1>10. ASSUME NEW q \in Proc PROVE CallAge(q)'
  <2>1. \A r \in Proc : since[r] \in Int /\ since[r] <= now /\ now \in Int
    BY WeatherConstants DEF TableInv, TimeTypes, CallAge
  <2>2. ASSUME pc[q] \in Committing \union {"committed"}, item'[q] = item[q]
        PROVE  /\ item'[q].tag <= fetched'[item'[q].content]
               /\ since[q] <= fetched'[item'[q].content]
    <3>1. item[q] \in Item /\ Tag = 0..MaxTime
      BY <2>2, <1>t, WeatherConstants DEF TypeInv, ItemReady
    <3>2. /\ item[q].tag \in Int /\ item[q].content \in Content
          /\ fetched[item[q].content] \in Int /\ fetched'[item[q].content] \in Int
      BY <3>1, <1>2, WeatherConstants DEF Item, TableInv, TimeTypes, Never
    <3>3. /\ item[q].tag <= fetched[item[q].content]
          /\ since[q] <= fetched[item[q].content]
          /\ fetched[item[q].content] <= fetched'[item[q].content]
      BY <2>2, <3>2, <1>3 DEF TableInv, CallAge, Refreshed
    <3> QED BY <2>1, <2>2, <3>2, <3>3
  <2>3. CASE q # p
    BY <1>5, <1>6, <2>1, <2>2, <2>3 DEF CallAge
  <2>4. CASE q = p
    <3>1. CASE pc'[p] = "write_data" /\ item'[p] = [content |-> published, tag |-> now]
      <4>1. fetched'[published] = now
        BY <1>t, <3>1 DEF TableInv, TimeTypes
      <4>2. now <= now /\ since[p] <= now
        BY <2>1
      <4> QED BY <2>4, <3>1, <4>1, <4>2 DEF CallAge
    <3>2. CASE ~(pc'[p] = "write_data" /\ item'[p] = [content |-> published, tag |-> now])
      BY <1>8, <2>1, <2>2, <2>4, <3>2 DEF CallAge, Committing
    <3> QED BY <3>1, <3>2
  <2> QED BY <2>3, <2>4
<1>11. SidecarAge'
  <2>1. \A c \in Content : /\ fetched[c] \in Int /\ fetched'[c] \in Int
                           /\ fetched[c] <= fetched'[c] /\ fetched'[c] <= now
    BY <1>2, <1>3, WeatherConstants DEF TableInv, TimeTypes, Never, Refreshed
  <2>2. \A c \in trusted' : fetched'[c] # Never
    <3>1. CASE trusted' = trusted
      BY <1>3, <1>t, <3>1 DEF TableInv, SidecarAge, Refreshed
    <3>2. CASE trusted' # trusted
      <4>1. DownloadOk(p, now) /\ args[p].pin \in {NoPin, published}
        BY <3>2 DEF Step, ReadData, ReadFail, ReadSidecar, DownloadOk, DownloadRetry, DownloadFail,
                    WriteData, WriteProv, ReplaceSidecar, ReplaceData, CommitFail
      <4>2. trusted' = trusted \union {published} /\ fetched'[published] = now
        BY <1>t, <4>1 DEF DownloadOk, Goto, TableInv, TimeTypes
      <4>3. now # Never
        BY <1>t, WeatherConstants DEF Never
      <4> QED BY <1>3, <1>t, <4>2, <4>3 DEF TableInv, SidecarAge, Refreshed
    <3> QED BY <3>1, <3>2
  <2>3. ASSUME sidecar' # NoSidecar
        PROVE  /\ sidecar'.tag <= now
               /\ fetched'[sidecar'.digest] # Never => sidecar'.tag <= fetched'[sidecar'.digest]
    <3>1. CASE sidecar' = sidecar
      <4>1. sidecar.tag \in Int /\ now \in Int /\ sidecar.digest \in Content
        BY <1>t, <2>3, <3>1, WeatherConstants DEF TypeInv, EntryTypeOK, Record
      <4>2. /\ sidecar.tag <= now
            /\ fetched[sidecar.digest] # Never => sidecar.tag <= fetched[sidecar.digest]
        BY <2>3, <3>1 DEF TableInv, SidecarAge
      <4>3. fetched'[sidecar.digest] = fetched[sidecar.digest] \/ fetched'[sidecar.digest] = now
        BY <1>t, <4>1 DEF TableInv, TimeTypes
      <4> QED BY <3>1, <4>1, <4>2, <4>3
    <3>2. CASE ReplaceSidecar(p)
      <4>1. /\ item[p] \in Item /\ fetched' = fetched
            /\ sidecar' = [digest |-> item[p].content, tag |-> item[p].tag]
            /\ item[p].tag <= fetched[item[p].content]
        BY <1>t, <3>2
        DEF ReplaceSidecar, Goto, TypeInv, ItemReady, Committing, TableInv, CallAge
      <4>2. item[p].content \in Content /\ item[p].tag \in Int /\ now \in Int
        BY <1>t, <4>1, WeatherConstants DEF Item
      <4> QED BY <2>1, <4>1, <4>2
    <3> QED BY <1>t, <3>1, <3>2, StepEffect
  <2> QED BY <2>1, <2>2, <2>3 DEF SidecarAge
<1> QED BY <1>1, <1>2, <1>4, <1>9, <1>10, <1>11 DEF TableInv, EntryInv

\* Calls that begin, crashes, the archive, and the clock.
LEMMA OutsideKeepsTable ==
    ASSUME TableInv, UNCHANGED fetched, now' \in 0..MaxTime, now <= now',
           \/ \E p \in Proc, offline \in BOOLEAN, pin \in Pin :
                  Enter(p, offline, pin) /\ since' = [since EXCEPT ![p] = now]
           \/ /\ UNCHANGED since
              /\ (\E p \in Proc : Crash(p)) \/ Republish \/ UNCHANGED entryVars
    PROVE  TableInv'
<1>t. /\ TrustInv({"load"}) /\ TypeInv({"load"}) /\ AloneTrust
      /\ pc \in [Proc -> EntryPC \union {"load"}] /\ trusted \subseteq Content
  BY TableFacts
<1>1. TrustInv({"load"})' /\ AloneTrust'
  BY <1>t, EnterKeeps, OutsideKeeps, OutsideAlone
<1>2. TimeTypes'
  BY DEF TableInv, TimeTypes
<1>3. UNCHANGED <<trusted, data, sidecar>> /\ NoNewAnswer
  BY <1>t, OutsideEffect
<1>4. \A q \in Proc :
          \/ /\ pc'[q] = pc[q] /\ item'[q] = item[q] /\ args'[q] = args[q]
             /\ seen'[q] = seen[q] /\ since'[q] = since[q] /\ (alone'[q] => alone[q])
          \/ /\ pc'[q] \in {"idle", "read_data"} /\ out'[q].kind # "path"
             /\ since'[q] \in {since[q], now}
  <2> USE <1>t, Outcomes DEF TypeInv, EntryTypeOK
  <2>1. ASSUME NEW p \in Proc, Crash(p), UNCHANGED since, NEW q \in Proc
        PROVE  \/ /\ pc'[q] = pc[q] /\ item'[q] = item[q] /\ args'[q] = args[q]
                  /\ seen'[q] = seen[q] /\ since'[q] = since[q] /\ (alone'[q] => alone[q])
               \/ /\ pc'[q] \in {"idle", "read_data"} /\ out'[q].kind # "path"
                  /\ since'[q] \in {since[q], now}
    BY <2>1 DEF Crash, Return, Goto
  <2>2. ASSUME NEW p \in Proc, NEW offline \in BOOLEAN, NEW pin \in Pin,
               Enter(p, offline, pin), since' = [since EXCEPT ![p] = now], NEW q \in Proc
        PROVE  \/ /\ pc'[q] = pc[q] /\ item'[q] = item[q] /\ args'[q] = args[q]
                  /\ seen'[q] = seen[q] /\ since'[q] = since[q] /\ (alone'[q] => alone[q])
               \/ /\ pc'[q] \in {"idle", "read_data"} /\ out'[q].kind # "path"
                  /\ since'[q] \in {since[q], now}
    BY <2>2 DEF Enter, Goto, TableInv, TimeTypes
  <2>3. CASE (Republish \/ UNCHANGED entryVars) /\ UNCHANGED since
    BY <2>3 DEF Republish, entryVars
  <2> QED BY <2>1, <2>2, <2>3
<1>5. /\ now \in Int /\ now' \in Int /\ \A q \in Proc : since[q] \in Int /\ since[q] <= now
      /\ \A c \in Content : fetched[c] \in Int /\ fetched[c] <= now
  BY WeatherConstants DEF TableInv, TimeTypes, CallAge, SidecarAge, Never
<1>6. LoadingInv'
  BY <1>3, <1>4 DEF TableInv, LoadingInv, MayHandOut
<1>7. SidecarAge'
  <2>1. ASSUME sidecar # NoSidecar PROVE sidecar.tag <= now'
    <3>1. sidecar.tag \in Int /\ sidecar.tag <= now
      BY <1>t, <2>1, WeatherConstants DEF TypeInv, EntryTypeOK, Record, TableInv, SidecarAge
    <3> QED BY <1>5, <3>1
  <2>2. \A c \in Content : fetched[c] <= now'
    BY <1>5
  <2> QED BY <1>3, <2>1, <2>2 DEF TableInv, SidecarAge
<1>8. ASSUME NEW q \in Proc PROVE CallAge(q)'
  <2>1. since'[q] <= now'
    BY <1>4, <1>5
  <2> QED BY <1>4, <2>1 DEF TableInv, CallAge, Pinned, Committing
<1>9. ASSUME NEW q \in Proc, out'[q].kind = "path" PROVE MayLoad(q, out[q].content)'
  <2>1. Refreshed
    BY <1>5 DEF Refreshed
  <2>2. \A r \in Proc : since'[r] = since[r] \/ out'[r].kind # "path"
    BY <1>4
  <2> QED BY <1>2, <1>3, <1>9, <2>1, <2>2, NoAnswerKeeps
<1> QED BY <1>1, <1>2, <1>6, <1>7, <1>8, <1>9 DEF TableInv, EntryInv

\* Every step keeps the invariant.
LEMMA TableInvStep == TableInv /\ [Next]_vars => TableInv'
<1> SUFFICES ASSUME TableInv, [Next]_vars PROVE TableInv'
  OBVIOUS
<1>t. now \in 0..MaxTime /\ now <= now /\ MaxTime \in Nat
  BY WeatherConstants DEF TableInv, TimeTypes
<1>1. ASSUME NEW p \in Proc, Call(p) PROVE TableInv'
  BY <1>1, <1>t, OutsideKeepsTable DEF Call
<1>2. ASSUME NEW p \in Proc, Running(p) PROVE TableInv'
  <2>1. CASE Download(p)
    BY <2>1, StepKeepsTable DEF Download, Step
  <2>2. CASE /\ Hit(p) \/ Refuse(p) \/ GoOnline(p) \/ Load(p) \/ LoadFail(p)
             /\ UNCHANGED <<now, since, fetched>>
    BY <2>2, HitKeeps, MissKeeps, LoadKeeps
  <2>3. CASE /\ \/ ReadData(p) \/ ReadSidecar(p) \/ DownloadRetry(p) \/ DownloadFail(p)
                \/ WriteData(p) \/ WriteProv(p) \/ ReplaceSidecar(p) \/ ReplaceData(p)
                \/ CommitFail(p) \/ ReadFail(p)
             /\ UNCHANGED <<now, since, fetched>>
    <3>1. Step(p, now)
      BY <2>3 DEF Step
    <3>2. pc'[p] # "write_data"
      <4>1. pc \in [Proc -> EntryPC \union {"load"}]
        BY TableFacts
      <4> QED BY <2>3, <4>1 DEF ReadData, ReadSidecar, DownloadRetry, DownloadFail, WriteData,
                         WriteProv, ReplaceSidecar, ReplaceData, CommitFail, ReadFail, Return,
                         Goto
    <3> QED BY <2>3, <3>1, <3>2, StepKeepsTable
  <2> QED BY <1>2, <2>1, <2>2, <2>3 DEF Running
<1>3. CASE \/ \E p \in Proc : Crash(p) /\ UNCHANGED <<now, since, fetched>>
           \/ Republish /\ UNCHANGED <<now, since, fetched>>
  BY <1>3, <1>t, OutsideKeepsTable
<1>4. CASE Tick
  <2>1. now' \in 0..MaxTime /\ now <= now'
    BY <1>4, <1>t DEF Tick
  <2> QED BY <1>4, <2>1, OutsideKeepsTable DEF Tick
<1>5. CASE UNCHANGED vars
  BY <1>5, <1>t, OutsideKeepsTable DEF vars
<1> QED BY <1>1, <1>2, <1>3, <1>4, <1>5 DEF Next

-----------------------------------------------------------------------------
\* Every variable of the space weather model keeps its type.
THEOREM WeatherTypeCorrect == Spec => []SpaceWeatherTypeOK
<1>1. TableInv => SpaceWeatherTypeOK
  BY DEF TableInv, EntryInv, TrustInv, TypeInv, TimeTypes, SpaceWeatherTypeOK
<1> QED BY TableInvInit, TableInvStep, <1>1, PTL DEF Spec

\* A loaded table was verified, downloaded since, or is the pinned one, although
\* the path is opened again after it was verified.
THEOREM TablesAreTrusted == Spec => []TableIsTrusted
<1>1. TableInv => TableIsTrusted
  BY DEF TableInv, MayLoad, TableIsTrusted, Loaded
<1> QED BY TableInvInit, TableInvStep, <1>1, PTL DEF Spec

\* A call that runs alone loads exactly the table it pinned.
THEOREM PinnedAlone == Spec => []TableIsPinnedAlone
<1>1. TableInv => TableIsPinnedAlone
  BY DEF TableInv, MayLoad, TableIsPinnedAlone, Loaded
<1> QED BY TableInvInit, TableInvStep, <1>1, PTL DEF Spec

\* A call that runs alone loads a table no older than it asked for.
THEOREM FreshAlone == Spec => []TableIsFreshAlone
<1>1. TableInv => TableIsFreshAlone
  BY DEF TableInv, MayLoad, TableIsFreshAlone, FreshTable, Loaded, SidecarAge
<1> QED BY TableInvInit, TableInvStep, <1>1, PTL DEF Spec
=============================================================================
