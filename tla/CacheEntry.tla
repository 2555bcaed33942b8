----------------------------- MODULE CacheEntry -----------------------------
(***************************************************************************)
(* One entry of the on-disk cache of python/sidereon/data.py: a data file,  *)
(* its provenance sidecar, and the calls that classify, download and        *)
(* commit it.  Any number of callers (threads, or processes that share the  *)
(* cache directory) work on the entry at once; the code takes no lock.      *)
(*                                                                          *)
(* This module holds what fetch, fetch_space_weather and fetch_dted share:  *)
(* _classify, _download and _commit, one action per file-system call.  The  *)
(* three modules that EXTEND it add the calls themselves.                   *)
(*                                                                          *)
(* A content stands for the bytes of a file and for their SHA-256 digest    *)
(* (equal digests mean equal bytes).  os.replace is atomic and an open file *)
(* is read from the inode it named, so reads and replaces are single steps. *)
(***************************************************************************)
EXTENDS Naturals

CONSTANTS
    Proc,        \* the concurrent callers
    Content,     \* file contents that can turn up at the path
    Archive,     \* the contents the remote archive ever serves
    Pin,         \* sha256 arguments callers pass, NoPin when none
    Tag,         \* what a sidecar records besides the digest
    Retries,     \* the retries argument of _download
    Faults,      \* which of "crash", "io" can happen
    NoFile, NoSidecar, NoPin

ASSUME ContentAssumption ==
    /\ NoFile \notin Content
    /\ NoPin \notin Content
    /\ Archive \subseteq Content
    /\ Pin \subseteq Content \union {NoPin}
ASSUME SidecarAssumption == NoSidecar \notin [digest: Content, tag: Tag]
ASSUME RetriesAssumption == Retries \in Nat

VARIABLES
    data,        \* the file at path, NoFile when there is none
    sidecar,     \* path.provenance.json; unreadable JSON counts as none
    published,   \* what the archive serves now
    pc,          \* where each caller is
    args,        \* each caller's offline and sha256 arguments
    seen,        \* the bytes _classify read
    verdict,     \* the state _classify returned
    tries,       \* attempt, the counter of _download
    item,        \* the downloaded content and its provenance tag
    temps,       \* the temporary files a call in progress has created
    out,         \* how the caller's last call ended
    trusted,     \* history: contents verified at Init or downloaded since
    alone        \* history: no other call has run during the caller's last one

entryVars == <<data, sidecar, published, pc, args, seen, verdict, tries, item,
               temps, out, trusted, alone>>

Record  == [digest: Content, tag: Tag]
Item    == [content: Content, tag: Tag]
NoItem  == [content |-> NoFile, tag |-> NoSidecar]
Verdict == {"none", "hit", "absent", "stale", "unverified"}

Classifying == {"read_data", "read_sidecar", "classified"}
Committing  == {"write_data", "write_prov", "replace_prov", "replace_data"}
EntryPC == {"idle", "download", "committed"} \union Classifying \union Committing

OutKind == {"none", "path", "miss", "mismatch", "failed", "unwritable", "no_coverage"}
Outcome == [kind: OutKind, content: Content \union {NoFile}]
NoOut   == [kind |-> "none", content |-> NoFile]
Failed(kind) == [kind |-> kind, content |-> NoFile]
Path(c)      == [kind |-> "path", content |-> c]

\* The data file matches the digest its sidecar records.
Verified ==
    /\ data # NoFile
    /\ sidecar # NoSidecar
    /\ sidecar.digest = data

EntryTypeOK(extraPC) ==
    /\ data \in Content \union {NoFile}
    /\ sidecar \in Record \union {NoSidecar}
    /\ published \in Archive
    /\ pc \in [Proc -> EntryPC \union extraPC]
    /\ args \in [Proc -> [offline: BOOLEAN, pin: Content \union {NoPin}]]
    /\ seen \in [Proc -> Content \union {NoFile}]
    /\ verdict \in [Proc -> Verdict]
    /\ tries \in [Proc -> 0..Retries]
    /\ item \in [Proc -> Item \union {NoItem}]
    /\ temps \in [Proc -> SUBSET {"data", "prov"}]
    /\ out \in [Proc -> Outcome]
    /\ trusted \subseteq Content
    /\ alone \in [Proc -> BOOLEAN]

\* The entry as an earlier run, a crash or the user left it.
EntryInit(contents, records) ==
    /\ data \in contents
    /\ sidecar \in records
    /\ published \in Archive
    /\ pc = [p \in Proc |-> "idle"]
    /\ args = [p \in Proc |-> [offline |-> FALSE, pin |-> NoPin]]
    /\ seen = [p \in Proc |-> NoFile]
    /\ verdict = [p \in Proc |-> "none"]
    /\ tries = [p \in Proc |-> 0]
    /\ item = [p \in Proc |-> NoItem]
    /\ temps = [p \in Proc |-> {}]
    /\ out = [p \in Proc |-> NoOut]
    /\ trusted = IF Verified THEN {data} ELSE {}
    /\ alone = [p \in Proc |-> TRUE]

Goto(p, label) == pc' = [pc EXCEPT ![p] = label]

\* The caller's call ends with outcome o; its locals go out of scope.
Return(p, o) ==
    /\ Goto(p, "idle")
    /\ out' = [out EXCEPT ![p] = o]
    /\ seen' = [seen EXCEPT ![p] = NoFile]
    /\ verdict' = [verdict EXCEPT ![p] = "none"]
    /\ tries' = [tries EXCEPT ![p] = 0]
    /\ item' = [item EXCEPT ![p] = NoItem]
    /\ temps' = [temps EXCEPT ![p] = {}]

-----------------------------------------------------------------------------
\* A caller enters one of the fetch functions, whose first step is _classify.
Enter(p, offline, pin) ==
    /\ pc[p] = "idle"
    /\ Goto(p, "read_data")
    /\ args' = [args EXCEPT ![p] = [offline |-> offline, pin |-> pin]]
    /\ out' = [out EXCEPT ![p] = NoOut]
    /\ alone' = [q \in Proc |-> IF q = p THEN \A r \in Proc \ {p} : pc[r] = "idle"
                                         ELSE pc[q] = "idle" /\ alone[q]]
    /\ UNCHANGED <<data, sidecar, published, seen, verdict, tries, item, temps, trusted>>

\* Faults: a file without a sidecar, or one that does not match, counts as a hit;
\* a missing sidecar counts as a mismatch.
ClassifiedTrusting(bytes, record, pin) ==
    IF bytes = NoFile THEN "absent"
    ELSE IF pin # NoPin THEN (IF bytes = pin THEN "hit" ELSE "stale") ELSE "hit"
ClassifiedStrict(bytes, record, pin) ==
    CASE bytes = NoFile -> "absent"
      [] bytes # NoFile /\ pin # NoPin -> IF bytes = pin THEN "hit" ELSE "stale"
      [] OTHER -> IF record # NoSidecar /\ record.digest = bytes THEN "hit" ELSE "stale"

\* _classify: the verdict on bytes read from the path, given the sidecar.
Classified(bytes, record, pin) ==
    CASE bytes = NoFile -> "absent"
      [] bytes # NoFile /\ pin # NoPin -> IF bytes = pin THEN "hit" ELSE "stale"
      [] bytes # NoFile /\ pin = NoPin /\ record = NoSidecar -> "unverified"
      [] OTHER -> IF record.digest = bytes THEN "hit" ELSE "stale"

\* _classify opens and reads the data file.  A missing file, or a caller's
\* sha256, settles the verdict without the sidecar.
ReadData(p) ==
    /\ pc[p] = "read_data"
    /\ seen' = [seen EXCEPT ![p] = data]
    /\ \/ /\ data = NoFile \/ args[p].pin # NoPin
          /\ verdict' = [verdict EXCEPT ![p] = Classified(data, NoSidecar, args[p].pin)]
          /\ Goto(p, "classified")
       \/ /\ data # NoFile /\ args[p].pin = NoPin
          /\ Goto(p, "read_sidecar")
          /\ UNCHANGED verdict
    /\ UNCHANGED <<alone, data, sidecar, published, args, tries, item, temps, out, trusted>>

\* Opening or reading the data file fails for another reason than its absence:
\* the OSError is not caught and ends the call.
ReadFail(p) ==
    /\ "io" \in Faults
    /\ pc[p] = "read_data"
    /\ Return(p, Failed("failed"))
    /\ UNCHANGED <<alone, data, sidecar, published, args, trusted>>

\* _classify reads the sidecar, in a second step, and compares digests.
ReadSidecar(p) ==
    /\ pc[p] = "read_sidecar"
    /\ verdict' = [verdict EXCEPT ![p] = Classified(seen[p], sidecar, NoPin)]
    /\ Goto(p, "classified")
    /\ UNCHANGED <<alone, data, sidecar, published, args, seen, tries, item, temps, out, trusted>>

-----------------------------------------------------------------------------
\* Fault: what was downloaded is not compared with the pin.
DownloadUnpinned(p, tag) ==
    /\ pc[p] = "download"
    /\ Goto(p, "write_data")
    /\ item' = [item EXCEPT ![p] = [content |-> published, tag |-> tag]]
    /\ trusted' = trusted \union {published}
    /\ UNCHANGED <<alone, data, sidecar, published, args, out, seen, verdict, tries, temps>>

\* One attempt of _download answers with the archive's current bytes.  They
\* are decompressed and compared with the pin before anything is written.
DownloadOk(p, tag) ==
    /\ pc[p] = "download"
    /\ \/ /\ args[p].pin \in {NoPin, published}
          /\ Goto(p, "write_data")
          /\ item' = [item EXCEPT ![p] = [content |-> published, tag |-> tag]]
          /\ trusted' = trusted \union {published}
          /\ UNCHANGED <<out, seen, verdict, tries, temps>>
       \/ /\ args[p].pin \notin {NoPin, published}
          /\ Return(p, Failed("mismatch"))
          /\ UNCHANGED trusted
    /\ UNCHANGED <<alone, data, sidecar, published, args>>

\* Faults: retries without end, with and without counting the attempts.
DownloadRetryAlways(p) ==
    /\ pc[p] = "download"
    /\ tries' = [tries EXCEPT ![p] = @ + 1]
    /\ UNCHANGED <<alone, data, sidecar, published, pc, args, seen, verdict, item, temps, out, trusted>>
DownloadRetryUncounted(p) ==
    /\ pc[p] = "download"
    /\ tries' = [tries EXCEPT ![p] = 1 - @]
    /\ UNCHANGED <<alone, data, sidecar, published, pc, args, seen, verdict, item, temps, out, trusted>>

\* A transient failure (408, 429, 5xx, a network error) sleeps and tries again
\* while attempt < retries.
DownloadRetry(p) ==
    /\ pc[p] = "download"
    /\ tries[p] + 1 < Retries
    /\ tries' = [tries EXCEPT ![p] = @ + 1]
    /\ UNCHANGED <<alone, data, sidecar, published, pc, args, seen, verdict, item, temps, out, trusted>>

\* Fault: every failure is taken for a 404.
DownloadFailAsNotFound(p) ==
    /\ pc[p] = "download"
    /\ Goto(p, "mark")
    /\ UNCHANGED <<alone, data, sidecar, published, args, seen, verdict, tries, item, temps, out, trusted>>

\* The last transient failure, a terminal one (404, a size cap, a redirect
\* that is not allowed) or bytes that do not decompress end the call.
DownloadFail(p) ==
    /\ pc[p] = "download"
    /\ Return(p, Failed("failed"))
    /\ UNCHANGED <<alone, data, sidecar, published, args, trusted>>

-----------------------------------------------------------------------------
\* _commit writes and fsyncs the data, then the provenance, to temporary files.
WriteData(p) ==
    /\ pc[p] = "write_data"
    /\ temps' = [temps EXCEPT ![p] = @ \union {"data"}]
    /\ Goto(p, "write_prov")
    /\ UNCHANGED <<alone, data, sidecar, published, args, seen, verdict, tries, item, out, trusted>>

\* Fault: the data file is replaced without its sidecar.
WriteProvForgotten(p) ==
    /\ pc[p] = "write_prov"
    /\ temps' = [temps EXCEPT ![p] = @ \union {"prov"}]
    /\ Goto(p, "replace_data")
    /\ UNCHANGED <<alone, data, sidecar, published, args, seen, verdict, tries, item, out, trusted>>

WriteProv(p) ==
    /\ pc[p] = "write_prov"
    /\ temps' = [temps EXCEPT ![p] = @ \union {"prov"}]
    /\ Goto(p, "replace_prov")
    /\ UNCHANGED <<alone, data, sidecar, published, args, seen, verdict, tries, item, out, trusted>>

\* The sidecar is published first.
ReplaceSidecar(p) ==
    /\ pc[p] = "replace_prov"
    /\ sidecar' = [digest |-> item[p].content, tag |-> item[p].tag]
    /\ temps' = [temps EXCEPT ![p] = @ \ {"prov"}]
    /\ Goto(p, "replace_data")
    /\ UNCHANGED <<alone, data, published, args, seen, verdict, tries, item, out, trusted>>

\* Then the data file.
ReplaceData(p) ==
    /\ pc[p] = "replace_data"
    /\ data' = item[p].content
    /\ temps' = [temps EXCEPT ![p] = @ \ {"data"}]
    /\ Goto(p, "committed")
    /\ UNCHANGED <<alone, sidecar, published, args, seen, verdict, tries, item, out, trusted>>

\* Fault: the cleanup removes the data file too.
CommitFailUnlinks(p) ==
    /\ "io" \in Faults
    /\ pc[p] \in Committing
    /\ Return(p, Failed("unwritable"))
    /\ data' = NoFile
    /\ UNCHANGED <<alone, sidecar, published, args, trusted>>

\* An OSError at any of the four: the call's temporary files are removed and
\* CacheNotWritable is raised.  A sidecar already replaced stays replaced.
\* (A temporary file whose own write failed, and those of a process that died,
\* stay on disk; nothing reads them and temps does not count them.)
CommitFail(p) ==
    /\ "io" \in Faults
    /\ pc[p] \in Committing
    /\ Return(p, Failed("unwritable"))
    /\ UNCHANGED <<alone, data, sidecar, published, args, trusted>>

-----------------------------------------------------------------------------
\* The process dies inside a call and starts over with nothing in memory.
Crash(p) ==
    /\ "crash" \in Faults
    /\ pc[p] # "idle"
    /\ Return(p, NoOut)
    /\ UNCHANGED <<alone, data, sidecar, published, args, trusted>>

\* The archive replaces the file it serves.
Republish ==
    /\ published' \in Archive \ {published}
    /\ UNCHANGED <<alone, data, sidecar, pc, args, seen, verdict, tries, item, temps, out, trusted>>

\* What the calls have in common, once entered.
Step(p, tag) ==
    \/ ReadData(p)
    \/ ReadFail(p)
    \/ ReadSidecar(p)
    \/ DownloadOk(p, tag)
    \/ DownloadRetry(p)
    \/ DownloadFail(p)
    \/ WriteData(p)
    \/ WriteProv(p)
    \/ ReplaceSidecar(p)
    \/ ReplaceData(p)
    \/ CommitFail(p)
=============================================================================
