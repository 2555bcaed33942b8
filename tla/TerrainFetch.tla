---------------------------- MODULE TerrainFetch ----------------------------
(***************************************************************************)
(* fetch_dted / _fetch_dted_tile: one DTED tile, with a marker file that     *)
(* remembers a 404 and a converter label that retires old conversions.      *)
(*                                                                          *)
(* The sidecar's tag is the converter: "v1" wrote voids as 0 m, "v2" is the  *)
(* current one.  A content is a converted tile, so the archive's tile is the *)
(* content its current conversion gives.  A marker of another tile or URL,   *)
(* or one that does not parse, counts as no marker.                         *)
(***************************************************************************)
EXTENDS CacheEntry

CONSTANTS
    ZeroVoid    \* the contents that hold voids written as 0 m

ASSUME TerrainAssumption ==
    /\ Tag = {"v1", "v2"}
    /\ Archive # {}
    /\ ZeroVoid \subseteq Content \ Archive

VARIABLES
    marker,      \* path.no_coverage.json exists for this tile
    covered,     \* the archive has the tile (else it answers 404)
    answered404  \* history: the archive has said so, to us or to an earlier run

terrainVars == <<marker, covered, answered404>>
vars == <<entryVars, terrainVars>>

\* A tile an older release converted may be there, and a crash may have left
\* the marker next to it.
Init ==
    /\ EntryInit({NoFile} \union Content,
                 {NoSidecar} \union [digest: Content, tag: {"v1"}]
                            \union [digest: Archive, tag: {"v2"}])
    /\ marker \in BOOLEAN
    /\ covered \in BOOLEAN
    /\ answered404 = marker

Call(p) ==
    /\ \E offline \in BOOLEAN, pin \in Pin : Enter(p, offline, pin)
    /\ UNCHANGED terrainVars

\* Decisions after _classify that leave the shared state alone.
Decide(p, label) ==
    /\ Goto(p, label)
    /\ UNCHANGED <<alone, data, sidecar, published, args, seen, verdict, tries, item, temps,
                   out, trusted, terrainVars>>

Answer(p, o) ==
    /\ Return(p, o)
    /\ UNCHANGED <<alone, data, sidecar, published, args, trusted, terrainVars>>

\* Fault: the converter label is not looked at.
HitAnyConverter(p) ==
    /\ pc[p] = "classified" /\ verdict[p] = "hit"
    /\ Answer(p, Path(seen[p]))

\* A pinned hit is returned as it is.  An unpinned one only after
\* _zero_void_conversion has read the sidecar again: a tile of the old converter
\* is fetched and converted again, or is a miss offline.
Hit(p) ==
    /\ pc[p] = "classified" /\ verdict[p] = "hit"
    /\ IF args[p].pin # NoPin \/ sidecar = NoSidecar \/ sidecar.tag # "v1"
       THEN Answer(p, Path(seen[p]))
       ELSE IF args[p].offline THEN Answer(p, Failed("miss")) ELSE Decide(p, "download")

\* Fault: the marker is looked at although there is a data file.
ReadMarkerFirst(p) ==
    /\ pc[p] = "classified" /\ verdict[p] \in {"absent", "hit"}
    /\ IF marker THEN Answer(p, Failed("no_coverage"))
       ELSE IF args[p].offline THEN Answer(p, Failed("miss")) ELSE Decide(p, "download")

\* Without a data file the marker answers for the archive.
ReadMarker(p) ==
    /\ pc[p] = "classified" /\ verdict[p] = "absent"
    /\ IF marker THEN Answer(p, Failed("no_coverage"))
       ELSE IF args[p].offline THEN Answer(p, Failed("miss")) ELSE Decide(p, "download")

Distrust(p) ==
    /\ pc[p] = "classified" /\ verdict[p] \in {"unverified", "stale"}
    /\ IF ~args[p].offline THEN Decide(p, "download")
       ELSE Answer(p, Failed(IF verdict[p] = "stale" THEN "mismatch" ELSE "miss"))

\* The archive serves the tile.
Download(p) ==
    /\ covered
    /\ DownloadOk(p, "v2")
    /\ UNCHANGED terrainVars

\* It answers 404.
NotFound(p) ==
    /\ pc[p] = "download" /\ ~covered
    /\ Goto(p, "mark")
    /\ answered404' = TRUE
    /\ UNCHANGED <<alone, data, sidecar, published, args, seen, verdict, tries, item, temps,
                   out, trusted, marker, covered>>

\* _commit_no_coverage_marker: temporary file and replace, or CacheNotWritable.
WriteMarker(p) ==
    /\ pc[p] = "mark"
    /\ \/ /\ marker' = TRUE
          /\ Return(p, Failed("no_coverage"))
       \/ /\ "io" \in Faults
          /\ Return(p, Failed("unwritable"))
          /\ UNCHANGED marker
    /\ UNCHANGED <<alone, data, sidecar, published, args, trusted, covered, answered404>>

\* After the commit the marker is removed; a failure to remove it is silent.
DeleteMarker(p) ==
    /\ pc[p] = "committed"
    /\ marker' \in {FALSE} \union (IF "io" \in Faults THEN {marker} ELSE {})
    /\ Return(p, Path(item[p].content))
    /\ UNCHANGED <<alone, data, sidecar, published, args, trusted, covered, answered404>>

Running(p) ==
    \/ Hit(p) \/ ReadMarker(p) \/ Distrust(p)
    \/ Download(p) \/ NotFound(p) \/ WriteMarker(p) \/ DeleteMarker(p)
    \/ /\ \/ ReadData(p) \/ ReadFail(p) \/ ReadSidecar(p)
          \/ DownloadRetry(p) \/ DownloadFail(p)
          \/ WriteData(p) \/ WriteProv(p) \/ ReplaceSidecar(p) \/ ReplaceData(p)
          \/ CommitFail(p)
       /\ UNCHANGED terrainVars

\* The archive gains or loses the tile.
ArchiveChanges ==
    /\ covered' = ~covered
    /\ UNCHANGED <<entryVars, marker, answered404>>

Next ==
    \/ \E p \in Proc : Call(p) \/ Running(p)
    \/ \E p \in Proc : Crash(p) /\ UNCHANGED terrainVars
    \/ ArchiveChanges

Spec == Init /\ [][Next]_vars
FairSpec == Spec /\ \A p \in Proc : WF_vars(Running(p))

-----------------------------------------------------------------------------
TerrainTypeOK ==
    /\ EntryTypeOK({"mark"})
    /\ marker \in BOOLEAN
    /\ covered \in BOOLEAN
    /\ answered404 \in BOOLEAN

\* CHANGELOG: hgt_to_dted "writes SRTM voids as the DTED null instead of 0 m, and
\* data.fetch_dted fetches and converts again a cached tile whose provenance names
\* the converter that wrote voids as 0 m".  A call without a pin that no other call
\* overlaps is not handed a tile whose voids read as sea level.
NoZeroVoidTile ==
    \A p \in Proc :
        out[p].kind = "path" /\ args[p].pin = NoPin /\ alone[p] =>
            out[p].content \notin ZeroVoid

\* "No coverage" is permanent (the marker never expires), so it is reported, and
\* remembered, only if the archive really answered 404 -- never after a timeout,
\* a server error or a failed conversion.
NoCoverageWasAnswered ==
    marker \/ (\E p \in Proc : out[p].kind = "no_coverage") => answered404

\* A call no other call overlaps: a marker a crash left beside a good tile (the
\* commit comes before the marker's removal) never hides that tile.
MarkerNeverHidesTile ==
    [][\A p \in Proc :
           /\ out[p].kind = "none" /\ out'[p].kind = "no_coverage"
           /\ alone[p] /\ args[p].pin = NoPin
           => ~(Verified /\ sidecar.tag = "v2")]_vars

\* A path handed out names bytes that were verified or downloaded, or the pinned
\* ones, also for the callers that reach the tile through a marker, a 404 or a
\* reconversion.
TileIsTrusted ==
    \A p \in Proc :
        out[p].kind = "path" => out[p].content \in trusted \union {args[p].pin}

\* Every call ends.
TileCallEnds == \A p \in Proc : pc[p] # "idle" ~> pc[p] = "idle"
=============================================================================
