-------------------------- MODULE SpaceWeatherFetch --------------------------
(***************************************************************************)
(* fetch_space_weather: the cached CelesTrak table, which the archive keeps  *)
(* replacing.  The sidecar's tag is its fetched_at; the call reads the       *)
(* sidecar again for it, and then opens the path again to load the table.   *)
(***************************************************************************)
EXTENDS CacheEntry, Integers

CONSTANTS
    MaxAge,     \* max_age_s
    MaxTime     \* bound on the clock

ASSUME TimeAssumption ==
    /\ MaxAge \in Nat
    /\ MaxTime \in Nat
    /\ Tag = 0..MaxTime
    /\ Archive # {}

VARIABLES
    now,        \* the clock
    since,      \* history: when the caller's last call began
    fetched     \* history: when each content was last downloaded

vars == <<entryVars, now, since, fetched>>

\* Fetched before the clock began, or never.
Never == -1

SpaceWeatherInit(contents, records) ==
    /\ EntryInit(contents, records)
    /\ now = 0
    /\ since = [p \in Proc |-> 0]
    /\ fetched = [c \in Content |-> IF Verified /\ data = c THEN sidecar.tag ELSE Never]

Init == SpaceWeatherInit({NoFile} \union Archive,
                         {NoSidecar} \union [digest: Archive, tag: {0}])

Call(p) ==
    /\ \E offline \in BOOLEAN, pin \in Pin : Enter(p, offline, pin)
    /\ since' = [since EXCEPT ![p] = now]
    /\ UNCHANGED <<now, fetched>>

\* A verified hit is loaded at once offline or under a pin.  Otherwise
\* _fresh_enough reads the sidecar a second time for its age.
Hit(p) ==
    /\ pc[p] = "classified" /\ verdict[p] = "hit"
    /\ Goto(p, IF \/ args[p].offline \/ args[p].pin # NoPin
                  \/ sidecar # NoSidecar /\ now <= sidecar.tag + MaxAge
               THEN "load" ELSE "download")
    /\ UNCHANGED <<alone, data, sidecar, published, args, seen, verdict, tries, item, temps,
                   out, trusted>>

\* A miss offline; a stale file is terminal offline and under a pin.
Refuse(p) ==
    /\ pc[p] = "classified"
    /\ \/ /\ verdict[p] \in {"absent", "unverified"} /\ args[p].offline
          /\ Return(p, Failed("miss"))
       \/ /\ verdict[p] = "stale" /\ (args[p].offline \/ args[p].pin # NoPin)
          /\ Return(p, Failed("mismatch"))
    /\ UNCHANGED <<alone, data, sidecar, published, args, trusted>>

GoOnline(p) ==
    /\ pc[p] = "classified" /\ ~args[p].offline
    /\ \/ verdict[p] \in {"absent", "unverified"}
       \/ verdict[p] = "stale" /\ args[p].pin = NoPin
    /\ Goto(p, "download")
    /\ UNCHANGED <<alone, data, sidecar, published, args, seen, verdict, tries, item, temps,
                   out, trusted>>

\* load_space_weather opens the path and parses what is there now, after a
\* cache hit and after a commit alike.
Load(p) ==
    /\ pc[p] \in {"load", "committed"}
    /\ Return(p, Path(data))
    /\ UNCHANGED <<alone, data, sidecar, published, args, trusted>>

\* The path cannot be opened, or what is there does not parse.
LoadFail(p) ==
    /\ pc[p] \in {"load", "committed"}
    /\ Return(p, Failed("failed"))
    /\ UNCHANGED <<alone, data, sidecar, published, args, trusted>>

\* A download's provenance is stamped with the time it finished.
Download(p) ==
    /\ DownloadOk(p, now)
    /\ fetched' = IF pc'[p] = "write_data" THEN [fetched EXCEPT ![published] = now]
                                           ELSE fetched
    /\ UNCHANGED <<now, since>>

Running(p) ==
    \/ Download(p)
    \/ /\ \/ ReadData(p) \/ ReadFail(p) \/ ReadSidecar(p)
          \/ Hit(p) \/ Refuse(p) \/ GoOnline(p) \/ Load(p) \/ LoadFail(p)
          \/ DownloadRetry(p) \/ DownloadFail(p)
          \/ WriteData(p) \/ WriteProv(p) \/ ReplaceSidecar(p) \/ ReplaceData(p)
          \/ CommitFail(p)
       /\ UNCHANGED <<now, since, fetched>>

Tick ==
    /\ now < MaxTime
    /\ now' = now + 1
    /\ UNCHANGED <<entryVars, since, fetched>>

Next ==
    \/ \E p \in Proc : Call(p) \/ Running(p)
    \/ \E p \in Proc : Crash(p) /\ UNCHANGED <<now, since, fetched>>
    \/ Republish /\ UNCHANGED <<now, since, fetched>>
    \/ Tick

Spec == Init /\ [][Next]_vars

-----------------------------------------------------------------------------
SpaceWeatherTypeOK ==
    /\ EntryTypeOK({"load"})
    /\ now \in 0..MaxTime
    /\ since \in [Proc -> 0..MaxTime]
    /\ fetched \in [Content -> 0..MaxTime \union {Never}]

Loaded(p) == out[p].kind = "path"
Pinned(p) == args[p].pin # NoPin

\* fetch_space_weather's docstring: "a verified cache hit is reused only while
\* its provenance fetched_at is no older than max_age_s".  An online call without
\* a pin gives a table downloaded at most MaxAge before the call began.
FreshTable(p) ==
    Loaded(p) /\ ~args[p].offline /\ ~Pinned(p) =>
        fetched[out[p].content] # Never /\ since[p] <= fetched[out[p].content] + MaxAge
TableIsFresh == \A p \in Proc : FreshTable(p)

\* What holds of it: a call no other call overlaps, though it may follow crashes
\* and failed commits that left a fresh sidecar beside an old table.
TableIsFreshAlone == \A p \in Proc : alone[p] => FreshTable(p)

\* The same docstring: "A caller-supplied sha256 pins an exact snapshot and is
\* verified on every cache read and fetch".  The table loaded has that digest,
\* for a call no other call overlaps.
TableIsPinnedAlone ==
    \A p \in Proc : Loaded(p) /\ Pinned(p) /\ alone[p] => out[p].content = args[p].pin

\* What concurrent callers keep: the table loaded is one whose digest matched a
\* sidecar when the callers started, or that was downloaded since, or the pinned
\* one, although the path is opened again after it was verified.
TableIsTrusted ==
    \A p \in Proc : Loaded(p) => out[p].content \in trusted \union {args[p].pin}
=============================================================================
