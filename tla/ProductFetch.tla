---------------------------- MODULE ProductFetch ----------------------------
(***************************************************************************)
(* fetch(product): cache-first retrieval of one named product file.         *)
(***************************************************************************)
EXTENDS CacheEntry

CONSTANTS
    InitialData,     \* what may be at the path when the callers start
    InitialSidecar,
    OnDate           \* the provenance tag (fetched_at plays no role in fetch)

ASSUME InitialAssumption ==
    /\ InitialData \subseteq Content \union {NoFile}
    /\ InitialSidecar \subseteq Record \union {NoSidecar}
    /\ OnDate \in Tag
    /\ Archive # {}

Init == EntryInit(InitialData, InitialSidecar)

Call(p) == \E offline \in BOOLEAN, pin \in Pin : Enter(p, offline, pin)

\* A hit is returned as it is.
Hit(p) ==
    /\ pc[p] = "classified" /\ verdict[p] = "hit"
    /\ Return(p, Path(seen[p]))
    /\ UNCHANGED <<alone, data, sidecar, published, args, trusted>>

\* Offline, an absent or unverifiable file is a miss and a stale one raises
\* the ChecksumMismatch that _classify built.
OfflineMiss(p) ==
    /\ pc[p] = "classified" /\ args[p].offline
    /\ \/ /\ verdict[p] \in {"absent", "unverified"}
          /\ Return(p, Failed("miss"))
       \/ /\ verdict[p] = "stale"
          /\ Return(p, Failed("mismatch"))
    /\ UNCHANGED <<alone, data, sidecar, published, args, trusted>>

\* Online, anything but a hit goes to _download_and_cache.
GoOnline(p) ==
    /\ pc[p] = "classified" /\ ~args[p].offline
    /\ verdict[p] \in {"absent", "unverified", "stale"}
    /\ Goto(p, "download")
    /\ UNCHANGED <<alone, data, sidecar, published, args, seen, verdict, tries, item, temps, out, trusted>>

\* fetch returns the path _commit wrote.
Committed(p) ==
    /\ pc[p] = "committed"
    /\ Return(p, Path(item[p].content))
    /\ UNCHANGED <<alone, data, sidecar, published, args, trusted>>

Running(p) ==
    \/ Step(p, OnDate)
    \/ Hit(p)
    \/ OfflineMiss(p)
    \/ GoOnline(p)
    \/ Committed(p)

Next ==
    \/ \E p \in Proc : Call(p) \/ Running(p) \/ Crash(p)
    \/ Republish

Spec == Init /\ [][Next]_entryVars

-----------------------------------------------------------------------------
TypeOK == EntryTypeOK({})

\* fetch's docstring, "an untrusted file is never returned": a path is handed
\* out only for bytes that matched their provenance when the callers started,
\* or that a completed download brought since -- or, for a caller with a
\* sha256, for exactly the pinned bytes.  It has to survive every interleaving
\* of the two reads of _classify with other callers' two replaces.
HandedOutIsTrusted ==
    \A p \in Proc :
        out[p].kind = "path" =>
            IF args[p].pin = NoPin THEN out[p].content \in trusted
                                   ELSE out[p].content = args[p].pin

\* Once the path holds trusted bytes it always does, so a path handed out
\* earlier never comes to name an unverified file: "On failure we ... never
\* unlink a path that may already be a valid published product", and no commit
\* replaces it with bytes that were not downloaded in full.
TrustedStaysTrusted == [][(data \in trusted => data' \in trusted')]_entryVars

\* _commit's comment, "a data file is never visible without its provenance":
\* whatever crashes, fails or commits in between, the data file is replaced
\* only once a sidecar is there.
DataAfterProvenance == [][data' # data => sidecar' # NoSidecar]_entryVars

\* A call that no other call overlaps, is not pinned and returns a path leaves the
\* entry verified, after any history of crashes, failed commits and earlier races:
\* a torn pair they left was noticed and repaired, not returned.
ReturnedEntryIsVerified ==
    [][\A p \in Proc :
           /\ out[p].kind = "none" /\ out'[p].kind = "path"
           /\ alone[p] /\ args[p].pin = NoPin
           => Verified']_entryVars

\* The two replaces without a lock are harmless while the archive has one issue
\* of the product: as long as nothing else was ever downloaded or verified here,
\* a verified entry stays so in spite of any number of commits, failures and
\* crashes.
VerifiedStaysVerified ==
    [][(Verified /\ trusted' \subseteq {data} => Verified')]_entryVars

\* _commit's docstring, "Atomically commit the file and its required
\* provenance sidecar", and its comment, "A crash between the two leaves at most
\* an orphan sidecar": when no commit is under way, a data file that has a
\* sidecar matches it.
CommitsAreAtomic ==
    (\A p \in Proc : pc[p] \notin Committing) =>
        data = NoFile \/ sidecar = NoSidecar \/ Verified
=============================================================================
