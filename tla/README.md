# A TLA+ model of sidereon-python

This directory models the control logic that the Python package `sidereon`
owns: how it caches product files, talks to archives and casters, and keeps
records consistent while they are edited. The numerical work (propagation,
positioning, formats) is done by the external crate `sidereon-core`, and the Rust
files under `src/src` bind it ("ZERO modeling logic", `src/src/lib.rs`); what the
package itself decides is mostly in `src/python/sidereon`.

## 1. Inventory

| Component | Source | State it keeps | Operations | What makes it hard | Correct when |
|---|---|---|---|---|---|
| Product file cache | `python/sidereon/data.py`: `_classify`, `_download`, `_commit`, `fetch` | a data file and its provenance sidecar per product | classify, download with retries, two-step commit | no lock: other threads and processes replace both files at any moment; crash between the two replaces | no unverified file is handed out; a torn pair is noticed and repaired; nothing published is ever unlinked |
| Space weather cache | `data.py`: `fetch_space_weather` | the same, for a table the archive keeps replacing | age check, pin check, load | the sidecar and the path are each read twice | the table is no older than `max_age_s`, or is the pinned one |
| Terrain tiles | `data.py`: `fetch_dted`, `_fetch_dted_tile` | the same, plus a no-coverage marker | reconversion of old tiles, 404 markers | crash between commit and marker removal; marker never expires | no zero-void tile is returned; only a 404 leaves a marker |
| Terrain prefetch | `data.py`: `prefetch_dted_*`, `populate_terrain_cache` | the report being built, loop locals | one tile at a time, errors collected | locals of one iteration are visible in the next | the report is a partition of the tiles asked for |
| Product search | `data.py`: `fetch_ionex`, `fetch_merged_sp3` | candidate list, sources found, reasons of absence | walk back over issues, merge centers | which failures allow the next candidate | an integrity failure never counts as absence |
| Distribution | `python/sidereon/distribution.py`: `acquire` | attempts, cached error, entry lock | cache load, distributor fallback, retries, commit | fallback only on absence or unavailability; a damaged cache entry must not be papered over | one product identity; typed failure of the right source |
| Exact cache | `_exact_cache.py`, `src/src/exact_cache.rs` over `sidereon-core` | entry directory, commit marker, advisory lock, single-flight owner | publish, load, clean up, open | crash at any of seven steps; readers without a lock; an owner whose with-block and heartbeat thread use it at once, or that is replaced while it lives | a reader sees all of a product or none; only a registered owner inside its block publishes |
| NTRIP client | `python/sidereon/ntrip.py`, `src/src/ntrip.rs` | closed flag, reconnect counter, sticky revision, machine state | stream, reconnect, GGA, close | stalls, mid-stream drops, close during a sleep, two protocol revisions | every chunk delivered once and in order; terminal rejections are not retried |
| Decompression | `_compression.py`, `src/src/unix_compress.rs` | cursor, output length; LZW code width and table size | gunzip members, validate .Z | member boundaries, cumulative cap, code-width boundaries | accepts exactly complete streams under the cap |
| Record editing | `src/src/tdm.rs`, `src/src/rinex_clock.rs` | fields, comments bound to record positions | set, insert, remove; edit by callback | comments must follow their record; a callback that fails half-way | an edit is all or nothing, comments stay with their records |
| Merge report verification | `data.py`: `verify_merge_report` and helpers | none (pure) | recompute identities and digests | long chains of checks | accepts only what the merge produced |
| Bindings | the rest of `src/src/*.rs`, `python/sidereon/__init__.py` | handles to core objects | conversion and delegation | none of its own | delegates faithfully |

Interactions: `fetch_ionex` and `fetch_merged_sp3` call `distribution.acquire` once per candidate; the prefetch
functions call `_fetch_dted_tile`; `acquire` uses the exact cache and its own HTTP
and FTP transports; the NTRIP client feeds bytes to the protocol machine of
`sidereon-core` and, in `stream_into`, decoded messages to an SSR store.

Shared state is the file system (caches). There are no locks in `data.py`; the
exact cache takes an advisory lock per entry. Python threads may share a client or
a cache directory. The Rust bindings hold no locks and start no threads, but a Rust
object is borrowed while one of its methods runs: methods that release the GIL
(heartbeat, publish) or call back into Python (batch edits) can be overlapped, and
the overlapping call raises instead of waiting.

## 2. Plan

The order is that of importance: first what decides which bytes a caller gets,
then what keeps long-running connections alive, then the sequential algorithms.

| Step | Module | Composes | State |
|---|---|---|---|
| 1 | `CacheEntry`: one data file with its sidecar, `_classify`, `_download`, `_commit` | - | done |
| 2 | `ProductFetch`, `SpaceWeatherFetch`, `TerrainFetch`: the three users of an entry | extend `CacheEntry` | done |
| 3 | `TerrainPrefetch`: the loop over `_fetch_dted_tile` | takes any answer `TerrainFetch` can give | done |
| 4 | `CacheEntryProofs`, then `ProductFetchProofs`, `SpaceWeatherFetchProofs`, `TerrainProofs` (tiles and prefetch) | the first is shared by the next three, as `CacheEntry` is by their modules | done |
| 5 | `Acquire`: the distributors, the lock, the exact cache as a contract; `AcquireProofs` | - | done |
| 6 | `NtripClient`: streams, reconnects, close; `NtripClientProofs` | - | done |
| 7 | `ProductSearch`: look-back and merging over `acquire`; `ProductSearchProofs` | takes the answers `Acquire` can give | done |
| 8 | `Listing`; `Document`, `RecordEditing`: TDM records with position-bound comments, shown to implement the document they stand for; `ClockEditing`: batch edits by callback | `RecordEditing` refines `Document` by `INSTANCE ... WITH` | done |
| 9 | `UnixCompress`: code widths and group alignment of `.Z`, against a reference | - | done |
| 10 | `SingleFlight`: the owner of a cache miss and its two threads | - | done |
| 11 | `MCNative`: the native parts side by side; `NativeProofs`: all of them | extends the modules of 8 to 10 | done |

Two steps of an earlier plan were dropped. A module for gzip members would be about
zlib's read-ahead, which `_compression.py` sees only as `unconsumed_tail` and
`unused_data`: it would state what zlib does and not what this code does. An
abstract store that `Acquire` implements would repeat `GoodEntryKept` and
`NoRedundantDownload`, since a store without a lock and without attempts is just
an entry that changes for another pin.

The abstract specifications are the *document* that `RecordEditing` implements, and,
stated as action properties instead of modules, the *trusted path*
(`TrustedStaysTrusted`: it only ever names bytes somebody vouched for) and the
*exact entry* (`GoodEntryKept`).

## 3. Modules

Conventions. A definition carries the name of the function it models, or of the
step of it. Python callers, threads or processes, are members of `Proc` (or
`Stream`); each has a program counter, and one action is one step other callers
can see: a read or a replace of a file, one HTTP attempt, one wait for a lock.
Bytes are identified with their SHA-256, so a `Content` stands for both. A
definition preceded by "Fault:" is not part of the model: it is a variant with a
plausible mistake, and for every property there is one that breaks it.

**CacheEntry** - `data.py`, `_read_provenance`, `_classify`, `_write_temp`,
`_commit`, `_download`. `data` and `sidecar` are the two files; the locals of a
call are `seen` (bytes read), `verdict` (`_classify`'s answer), `tries`, `item`
(downloaded bytes and the tag for the sidecar), `temps` (its temporary files).
`_classify` is `ReadData` then `ReadSidecar`, because other callers replace the
files in between. `_commit` is `WriteData`, `WriteProv`, `ReplaceSidecar`,
`ReplaceData`, each of which may fail (`CommitFail`) or be the last thing a
process does (`Crash`). Reading the data file may fail as well, which ends the call
(`ReadFail`). `Republish` is the archive. Histories: `trusted`, the
contents that somebody vouched for (verified at the start, or downloaded in
full), and `alone`, whether a call has met no other call so far.

**ProductFetch**, **SpaceWeatherFetch**, **TerrainFetch** add what the function
decides between these steps. Space weather adds a clock and the second reading of
sidecar (`Hit`) and path (`Load`, or `LoadFail` if it cannot be opened or parsed). Terrain adds the no-coverage marker, the
converter label in the sidecar's tag (`v1` wrote voids as zero), and the archive
that has or lacks the tile.

**TerrainPrefetch** - the loop of `_prefetch_dted_tile_indices`; `answer` is the
pair of Python locals `state` and `value`, which live from one iteration to the
next. Errors the loop does not catch end it (`ErrorPropagates`).

**Acquire** - `distribution.acquire`. `entry[s]` is the committed entry of a
source, `legacy[s]` says it is an uncommitted triple of an earlier version, which
`_load_cached` migrates. One turn of the loop is `Lock`, `LoadHit` or `LoadMiss`,
`Download`, attempts (`Retry`, `Receive`, `DownloadFails`), `Validate`, `Commit`;
`SourceFails` is the handler that decides between the next distributor and the
end of the call. That a commit is all or nothing is the contract of
`sidereon-core`; the repository's `tests/test_exact_cache_atomicity.py` kills
publishers at each of its steps, and the model relies on what it asserts.

**NtripClient** - `NtripClient.stream`. The httpx connection (`HttpOpen`,
`HttpRead`, `HttpChunk`) and the raw socket (`RawOpen`, `RawLoop`, `Recv*`,
`EventHandled`, `EventRaises`) are modelled with the events of the protocol
machine as an external choice. `closed` and `preferred` are shared by the streams
of a client; `Close` may come at any moment. Time is counted in recv timeouts
and in what the consumer spends on a chunk (`quiet`), and `ExpLimit` stands for the exponent at which the backoff
`factor**reconnects` overflows a double (1024 for factor 2).

**ProductSearch** - `fetch_ionex`, `_fetch_center_sp3`, `fetch_merged_sp3`. One
call walks its candidates; `Found`, `Missed` and `Fails` are the three kinds of
answer `acquire` gives for one distributor. Archives that publish, other
processes that fill the same cache, and damage happen between any two
candidates. `available` remembers what could be had when the call began.

**SingleFlight** - `open_single_flight` and the owner object of `exact_cache.rs`, as
`_exact_cache.py` uses it. Every caller has two threads, `worker` in the
with-block and `beater`; a method is a beginning and an end, because the GIL is
released in between and the other thread may call a method too, which then raises.
`holder` is the registration kept by `sidereon-core`; a silent one may be replaced
(`Own`), and what the core answers a replaced owner is left open. `handle` is
the `Option` inside the object, emptied by `publish` and `close`.

**Listing** - finite sets of places listed in order, and the part of a sequence that
stands at some of its indices. The loops of the editors that build or filter a list are
said with these two operators, without recursion.

**Document** and **RecordEditing** - `tdm.rs`. `Document` is a text: a sequence of
comment lines and record lines, and for each editing method what may happen to
them. `RecordEditing` is the code: two lists, a comment tied to the records by the
index of the record it precedes, the candidate that is edited and committed if it
is accepted, and each method with its index checks. `LinesOf` writes the
two lists out as the text they stand for: a record stands at the place of its own
number, a comment at the place of the record it precedes (or behind them all), and the
lines are what stands at these places in their order. `KeepsTheDocument` says that
under this mapping every method does what `Document` promises. Keys stand for keys
up to case, as the code compares them.

**ClockEditing** - the methods of `PyRinexClock`. A batch edit is one step per
callback, then the application of the verdicts; the product is borrowed all that
time, so a callback or another thread that touches it gets an exception.

**UnixCompress** - `validate_archive` of `unix_compress.rs`. One action reads one code.
The bits of an archive are chosen when they are read; the scan is compared with a
reference that knows where code number `count` since the last reset begins without
following the scanner's cursor.

**MCNative** puts the four next to each other for one run; a behavior belongs to one
of them and leaves the others at rest. No step of one reads the state of another.

The modules whose names end in `Proofs` hold the theorems and are described in
section 6.

## 4. What the runs check

Each `MC...` module gives instances; every passing run explores its state space
completely.

| Run | Instance | Question, and answer |
|---|---|---|
| `fetch_concurrent` | 2 callers, 2 issues and a user's file, any pair of files at the start, crashes, I/O errors, 2 attempts | Can an unverified file be handed out, or replace a trusted one? No. Are torn pairs noticed and repaired by a call nobody overlaps? Yes. Is the unlocked commit harmless while there is one issue? Yes. |
| `fetch_crash_in_commit` | 1 caller, crashes | Is a crash between the two replaces harmless, as the comment in `_commit` says? No (finding 1). |
| `weather_concurrent` | 2 callers, 2 tables, clock of 2 values, `MaxAge` 0 | Is the table fresh, and the pinned one? For calls nobody overlaps, yes. Is it always trusted? Yes. |
| `weather_stale_race` | the same, without failures | Is it fresh with concurrent callers, as documented? No (finding 2). |
| `terrain_concurrent` | tiles: 2 callers, an old and a new conversion, every failure; liveness. Prefetch: every request of up to 4 out of 3 tiles, repeats included | Do markers come only from a 404, do they never hide a good tile, are zero-void tiles retired, does every call end? Yes. Is the prefetch report a partition without `strict`, and complete with it? Yes. |
| `prefetch_strict` | the prefetch alone, the same requests | Is it a partition with `strict`? No (finding 3). |
| `acquire_concurrent` | 2 callers, lists `cddis, cddis` (with and without a pin) and `cddis, local` (online and offline), 2 contents, damage, crashes; liveness | Is a product downloaded once, is it the pinned one, does an integrity failure stop the call, is the first outage reported, are good entries kept, does every call end? Yes. |
| `ntrip_client` | 2 streams, 3 versions, GGA or not, `max_reconnects` 0, 1 or none, overflow after 2; liveness | Are connections within the budget, do raw streams outlive outages, does a closed client wind down? Yes. |
| `ntrip_dropped_stream` | 1 rev2 stream, unlimited reconnects | Does a dropped httpx stream reconnect? No (finding 4). |
| `product_search` | IONEX over 2 days and 2 lines, SP3 over centers with 2, 1 and 0 candidates, any archive and cache at the start | Does anything but absence lead to an older product? No. Does the report account for every center and every miss? Yes. |
| `native_parts` | single flight: 2 callers, a dead one's registration; TDM: up to 3 records over 2 keys and 2 values, 2 comments at positions up to 3, listed in order and not; clock: up to 3 records, 2 threads; `.Z`: bytes of 4 bits, codes of 5 and 6 bits, up to 30 bytes, both modes | Can whoever is registered as owner still publish, and does the registration end with its block? Yes, and yes unless a heartbeat overlaps `close()`. Do edits keep every comment with its records? Yes. Is a batch all or nothing? Yes. Does the scan accept exactly the complete streams, as far as zero bits can be told from padding, and apart from unpadded ends at a change of width? Yes. |
| `archive_cut_in_code` | the scan alone, up to 6 bytes | Is an archive that was cut off inside a code always noticed? No (finding 5). |

*Why these bounds are enough.* In the cache modules every action concerns at most
one caller and the entry; a hazard needs one caller to be overtaken by another
at one of its steps, which two callers show, and two issues to tell old bytes
from new. A third content (the user's file) is needed only to be neither. Two
attempts show a retry and its end. In `Acquire` two distributors show fallback
and the order of errors, and naming one source twice lets a call meet its own
earlier failure. In `NtripClient` budgets of 0 and 1 show the bound and the free
downgrade; an overflow after 2 reconnects instead of 1024 changes no step
before it. In `ProductSearch` two days times two lines show a wrong nesting, and
three kinds of center every branch of the report. 
In `SingleFlight` a second caller takes over from the first, and the third party
is the registration of a dead process. In `RecordEditing` an edit in the middle
of three records has a record before and behind it, and two comments can share a
position, be on both sides of an edit, or be listed out of order. In `UnixCompress`
the instance keeps what the arithmetic of the scanner relies on (padding is shorter
than a code, and the CLEAR code is a multiple of the group), and 30 bytes reach the
growth of the code width, the width limit and a CLEAR on either side of it.
All initial states a crash, an
earlier version or a user may leave are among those of the runs.

*Symmetry.* Callers are symmetric in the safety runs `fetch_concurrent`,
`weather_concurrent` and the two violations beside them, and so are callers, threads,
clock records and comment texts in `native_parts`; runs that check liveness use none.

*Deadlock* is checked except in `prefetch_strict` and `product_search`, where one
call ends and nothing is left to do, and in `native_parts` and `archive_cut_in_code`,
where a scan ends with its verdict. In `terrain_concurrent` a prefetch that is over may
stay so (`PrefetchOver`).

*Fairness.* Weak fairness of the steps of each running call, and of nothing else:
callers need not start, archives need not publish, `close()` need not be called,
nothing needs to crash. The code justifies it: threads are scheduled, HTTP
requests and `recv` have timeouts, sleeps end, the wait for an entry lock is
bounded by `cache_lock_timeout_s`. For NTRIP it also needs the consumer to ask
for the next chunk; an iterator nobody advances does not move, and is not
claimed to.

## 5. What the properties say about the code

*Trust.* `fetch` promises that "an untrusted file is never returned". The model
counts content as trusted if it matched its sidecar when the callers started or
was downloaded since. `HandedOutIsTrusted`, `TableIsTrusted` and `TileIsTrusted`
say that no interleaving of two-step reads with two-step commits breaks this;
`TrustedStaysTrusted`, that a path already handed out never comes to name other
bytes.

*What is weaker than it looks.* With two issues of a product, unlocked commits
can interleave (sidecar 1, sidecar 2, data 2, data 1) and leave a pair that does
not match. It is never handed out, but offline callers lose a file they had. So
`VerifiedStaysVerified` is limited to one issue, and the freshness, pin and
zero-void properties to calls nobody overlaps (`alone`); the unrestricted
freshness is a finding. A pinned call of `fetch_space_weather` can load
another caller's table, and `fetch_dted` can return an old conversion during
somebody else's reconversion, for the same reason.

*Exclusion and fallback.* In `Acquire`, `NoRedundantDownload` and `GoodEntryKept`
say that the lock makes concurrent callers share one download, and that a good
entry changes only for a caller whose pin it does not have.
`IntegrityFailureStops` and `ReportedFailure` are about which error survives a
list of failures.

*Search.* A retired endpoint (HTTP 410) lets `acquire` try the next distributor
but ends `fetch_ionex` and `fetch_merged_sp3`, which look only at
`ProductNotPublished` and `OfflineCacheMiss`. The model has it under `Fails`.

*Ownership.* `HolderCanPublish`: whoever is registered in the name of a live caller
is inside its block with a handle to publish with. `OwnershipEndsWithBlock`: a caller
outside its block is not registered, except after a heartbeat overlapped `close()`.
A failed publish gives up ownership as well; a heartbeat that overlaps `publish`
makes it raise with ownership intact.

*Editing.* `KeepsTheDocument` is the refinement: no edit moves a line past a line
that survives it, loses a comment, or changes what it was not asked to change.
A section whose comments are not listed in the order of their positions (they may be
set so) gets the weaker promise that no comment is lost. `BatchAllOrNothing`: a
batch whose callback raises, or one of whose edits is refused, changes nothing,
and one that succeeds applies verdicts given about the very records it changes.

*Scanning.* `ScanJudgesArchives`: the cursor is where the reference says code number
`count` begins, whatever widths, groups and CLEAR codes came before, and an archive
is accepted exactly if every code names something and less than a byte of zeros is left
behind them. The reference counts codes; it does not decode. It does not pad where the
scanner does, either: after the last code of a width a writer may pad at once, or only
when a wider code follows, and both ends are ends of a complete archive (`Ends`). In
block mode the two coincide, because every width has whole groups of codes. Without it
they do not, and the scanner, which aligns as soon as the width grows, refuses the
archive that ends unpadded there: that is the one exception in the property
(`Unpadded`).

What the scanner cannot see is whether zero bits left over are padding. `cut` is the
history that knows, and `CutIsNoticed` what the file says of it: finding 5.

*Observations that are no property.* The lock of an entry is held across
downloads and backoff, so queued callers can get `CacheWriteFailure` after 30
seconds though nothing is wrong with the cache (`LockTimeout`). A connection
reset in the middle of a body is neither retried nor a reason for fallback in
`acquire` (`DownloadFails`, "terminal"). A warm cache answers local-file and
in-memory requests with the cached bytes rather than the caller's. The reconnect
counter of an NTRIP stream is never reset by a connection that worked, so a
client without a limit ends in `OverflowError` after 1024 reconnects; the
`overflow` outcome is part of the model. `close()` can surface as "stream ended"
if the budget is spent. A strict prefetch whose first tile has no coverage ends
in `UnboundLocalError` (status "raised" in `TerrainPrefetch`).

A heartbeat that is under way when the block ends makes `close()` raise
"Already borrowed"; the registration then lasts until the object is collected or
is judged silent. Editing a TDM section with comments out of order can
reorder them relative to each other, and `set_records` with fewer records leaves
comments behind the last one. A `.Z` archive
without CLEAR codes that ends exactly where the width changes, written by a compressor
that pads only when it writes the next code, is refused as truncated. The stall clock of
an NTRIP stream runs while the consumer works on a chunk, so a consumer that takes
longer than the stall timeout can see a stall of a caster that sends (`EventHandled`
lets `quiet` grow by any amount). Getters of the
TDM classes return copies, so editing what they return changes nothing until it is set
back.

### Findings

1. `_commit` replaces the sidecar, then the data file. A crash between the two,
   while refreshing an existing entry, leaves the old data with the new sidecar,
   not "at most an orphan sidecar".
2. `fetch_space_weather` reads the sidecar once to verify and again for the age;
   another caller's commit in between makes an expired table count as fresh.
3. With `strict`, `_prefetch_dted_tile_indices` files the previous tile's answer
   a second time when a tile has no coverage.
4. A rev2 NTRIP stream over httpx whose connection breaks in mid-body ends with
   an exception (or, with "auto", goes to rev1 for good) although its reconnect
   budget is untouched.
5. A `.Z` archive cut off inside a code is accepted if at most seven bits of that code
   are left and all are zero: they look like padding. The archive of the bytes `41 80`,
   cut to `1f 9d 10 41 00`, passes as the archive of `41`.

## 6. What is proved

For every value of the constants that satisfies the named assumptions (contents,
"no file" and "no pin" are different values; at least one attempt; the archive
serves something; and the like), tlapm checks the theorems below, in eight modules. Every
invariant was first checked by TLC. With them every safety property that a passing run
checks is proved.

| Module | Theorems, with the property they establish |
|---|---|
| `CacheEntryProofs` | lemmas only: what each step of `CacheEntry` preserves |
| `ProductFetchProofs` | `TypeCorrect`; `HandedOutTrusted` (`HandedOutIsTrusted`); `TrustPreserved` (`TrustedStaysTrusted`); `OneIssueStaysVerified` (`VerifiedStaysVerified`); `ProvenanceFirst` (`DataAfterProvenance`); `AloneLeavesVerified` (`ReturnedEntryIsVerified`) |
| `SpaceWeatherFetchProofs` | `WeatherTypeCorrect`; `TablesAreTrusted` (`TableIsTrusted`); `PinnedAlone` (`TableIsPinnedAlone`); `FreshAlone` (`TableIsFreshAlone`) |
| `TerrainProofs` | tiles: `TerrainTypeCorrect`; `TilesAreTrusted` (`TileIsTrusted`); `CoverageIsAnswered` (`NoCoverageWasAnswered`); `VoidsAreReconverted` (`NoZeroVoidTile`); `MarkerHidesNothing` (`MarkerNeverHidesTile`); prefetch: `EveryTileIsReported` (`EveryTileReported`); `NonStrictIsPartition` (`PartitionedUnlessStrict`) |
| `AcquireProofs` | `AcquireTypeCorrect`; `DownloadsOnce` (`NoRedundantDownload`); `HandedOutPinned` (`HandedOutIsPinned`); `GoodEntriesKept` (`GoodEntryKept`); `IntegrityStops` (`IntegrityFailureStops`); `FailureReported` (`ReportedFailure`) |
| `NtripClientProofs` | `NtripTypeCorrect`; `AttemptsAreBounded` (`AttemptsBounded`); `ClosedStreamsWindDown` (`ClosedStreamWindsDown`); `RawStreamsOutlive` (`RawStreamOutlivesOutages`) |
| `ProductSearchProofs` | `SearchInvariant`; `MapIsNewest` (`NewestMap`); `IssuesAreNewest` (`NewestIssues`); `CentersAreAccountedFor` (`CentersAccountedFor`); `AttemptsAreItsOwn` (`AttemptsAreTheCenters`) |
| `NativeProofs` | single flight: `FlightInvariant`; `HolderPublishes` (`HolderCanPublish`); `OwnershipEnds` (`OwnershipEndsWithBlock`); clock batches: `ClockInvariant`, `ClockTypeCorrect`; `BatchesAreAllOrNothing` (`BatchAllOrNothing`); `.Z` scan: `ScanInvariant`, `ScanTypeCorrect`; `ArchivesAreJudged` (`ScanJudgesArchives`); TDM: `EditTypeCorrect`; `EditsKeepTheDocument` (`KeepsTheDocument`, a refinement); together: `NativeTypeCorrect` (`NativeTypeOK`), `NativePartsKeepTheirPromises` |

*The cache.* `CacheEntryProofs` carries the argument the three cache modules share.
The types are not inductive alone: that a commit publishes a content and not the
absence of one needs `ItemReady`, every caller that commits holds an item. For
trust, `EntryTrust` says of the bytes on disk that they are `NeverVouchedFor`
(either trusted, or no sidecar on disk carries their digest), and `CallTrust` the
same of the bytes a caller has read and not yet judged; bytes judged a hit and
items downloaded are trusted, or pinned. The delicate case is a caller that has
read the data file and not yet the sidecar while others replace both: sidecars are
written only for downloads, and whatever is downloaded is trusted from then on, so
bytes nobody vouched for never meet a sidecar with their digest. `TrustInv` is the
conjunction. For the properties of calls nobody overlaps there is `AloneInv` (while
such a call is in progress, nobody else is) and what follows from it,
`Undisturbed`: what the call has read, and what it has written, is still there. The
lemmas take the labels a module adds to the program counter as a parameter.

Each cache module adds what it decides between the shared steps. Terrain:
`CoverageInv` (a marker, and a caller about to write one, go back to a 404),
`ConvertedInv` (a sidecar of the current converter names a current conversion),
`PathInv` and `RefetchInv` (a call alone asks the archive only for want of a good
tile, which is why a marker it writes hides none). Space weather: `LoadingInv` (what
is at the path when it is opened again is what was verified, or trusted since),
`SidecarAge` (no sidecar makes a table younger than it is), `CallAge` and
`MayLoad` (what follows for a call).

*Prefetch.* `PassedReported` (every tile the loop has passed is in the report)
suffices for completeness; that the report is a partition without `strict` needs
`ReportedOnce` and `OnlyPassed` as well.

*Acquire.* `LockInv` (whoever is past the lock of an entry holds it) and `MissInv` (from
the failed lookup to the commit, the entry does not answer the caller's request)
give `NoRedundantDownload` and `GoodEntryKept`; `ItemInv` (what is committed has the
caller's checksum) the pin; `OutageInv` (`outage` is the index of the first
"unavailable" of `attempts`, which has one entry for each distributor passed)
`ReportedFailure`; `CacheErrorInv` and `IdleInv` say where the locals of a call are
unset.

*NTRIP.* `CountersRoom` makes the types inductive. `BudgetInv` counts connections
against reconnects, plus one for the turn in progress and one for the downgrade to
rev1, which is free; `RawInv` says that a client that must use the raw socket
counts exactly and ends with an outcome only where it is over; `LateInv`
that nothing leads from a closed client back to a connection or to a read. The
actions are first reduced to five kinds of step (`Turns`, `Wakes`, `Connects`,
`Receives`, `Works`), each of which continues, downgrades or gives up.

*Product search.* `SearchInv` says where the walk stands: everything before `next` in
the candidates of the current center was passed for a recorded miss (`WalkStands`),
what could be had when the call began still can (`StillThere`), and the centers before
`at` are in the report, each in one of its two lists, in their order (`ReportSoFar`). The
four properties follow from it when the call ends. `SearchAssumption` names what the code
guarantees of the lists it walks: the two predicted lines differ, days and issues are
listed newest first, a request names at least one center, and an IONEX request one. The
candidates of an IONEX request are days times lines; that they come newest first, and the
line asked for before the other one of its day, is a fact about division by the number of
lines (`MapCandidates`).

*Single flight.* The three invariants (`FlightInv`) are inductive together: that a caller
which opens anew is not registered any more follows from `HolderCanPublish`.

*Clock batches.* `BatchAlone` strengthens the types: while a batch runs, the records are
those it began with, it has given no more verdicts than there are records, and no other
thread runs one. `FinishRetain` and `FinishEdit` then apply a verdict about each record of
the product they began with, in one step.

*The `.Z` scan.* The reference adds up, from the number of codes alone, the bits of whole
widths and of whole groups. `ScanInv` gives its position in the form the scanner computes:
`boundary`, where the current width began, is the bits of all narrower widths
(`BitsBefore`), and `bitpos` is as many codes of the current width behind it
(`Placed`). The step that matters is the one at which the width grows: the scanner
pads to the end of a group, and the reference counts that group as whole
(`CodesOfWidths`, `RunBitsAt`). `ArchivesAreJudged` compares the verdict with the
reference. Where the last code fills its width, the scanner stands behind the padding
and the reference has two ends (`EndOfRun`); in block mode they are one, since 2 to the
width is a multiple of the group (`BlocksHaveWholeGroups`), and without it the archives
between the two are the ones `Unpadded` names.

*The document.* `RecordEditing` implements `Document` for sections of every size and
every history of edits. A section is seen as its set of places (`PlacesOf`); what it
stands for is the listing of that set. `PlacesApart` is the arithmetic of places: no
comment has a record's place, and two places compare as their slots do; `CommentsOfLines`
and `RecordsOfLines` say that the document's comments and records are those of the section. The argument then goes from lists to places and back:

1. If the comments and records of one section are among those of another one and in the
   same order (`Within`), there is an order-preserving map between their places, and the
   text of the one is part of the text of the other (`WithinMaps`, `Embedded`).
2. If the other one has one line more, the text without that line is the text of the first
   (`OneLineAdded`, `OneLineMore`).
3. An insertion, with the comments it shifts, is such an addition of a record
   (`InsertedIsAdded`, `RecordAddedWithin`), so is an append (`AppendedIsAdded`), a removal
   is one read backwards (`RemovedIsAdded`), and a comment put in its place is an addition
   too (`CommentAdded`). `RecordLinesAdded` and `LinePlaced` say where the new record
   stands: directly in front of the one whose index it took, or behind them all.
4. Several removals in one call (`ScalarRemoved`: every record of a key, the
   highest index first) compose, because being left over composes (`Survives`,
   `SurvivesTwice`, `WithoutTwice`).
5. `DocumentStep` takes the edits one by one; `EditTypeOK` is all the strengthening the
   refinement needs.

Sections whose comments are out of order get the document's weaker promise, on the same
path. `NativePartsKeepTheirPromises` carries all of this to the specification the run
checks: side by side, each part behaves as it does alone.

*Induction.* The library's induction theorems cannot be instantiated here. Where a fact
about numbers needs induction (how a list builds up, how widths add up), `NativeProofs`
takes the least number at which it fails, from the well-foundedness of the order on the
naturals (`LeastNatural`, `Induct`), and obtains functions defined by recursion from it
as well (`Recursion`).

*Only model-checked.* Liveness (`TileCallEnds`, `AcquireEnds`, `CloseEndsStreams`):
temporal properties under fairness are outside what the prover can do here. The properties
of the `violation` runs do not hold, so nothing is proved of them; that the code breaks
them is shown by TLC's counterexamples.

## 7. Abstractions and what is not modelled

- Bytes are identified with their digest; parsing, decompression and validation
  accept or reject. In `Acquire`, redirect policy, credentials, content types and
  the FTP dialogue end in one of the outcomes "absent", "unavailable", "terminal"
  and "invalid", chosen freely.
- Temporary files left by dead processes are not counted; nothing reads them.
- A sidecar that is JSON but not an object, and malformed prefetch requests, are
  left out; a sidecar that does not parse is `NoSidecar`. A sidecar that is there and
  cannot be read (an `OSError`) is taken for none by the code. The model does not let this
  happen: a verified file would then count as unverified until the next call, and a
  terrain call could ask the archive again for a tile it has.
- File-system operations are atomic and ordered: `os.replace` replaces at once, and
  a crash is a process's death and not a power failure.
- A product path handed out by `acquire` belongs to an immutable transaction of
  the exact cache (`CacheFiles`), so loading it after the lock is released reads
  the bytes that were verified. `ProductSearch` relies on it.
- The NTRIP protocol machine, the exact cache and the product catalog are
  in `sidereon-core`, outside the repository, and modelled from how they are used.
- The registration of single-flight owners, their liveness and the waiting are in
  `sidereon-core`; `SingleFlight` has the adapter's side. `cleanup_abandoned` is one
  call into the core.
- `sourcetable`, `messages` and `stream_into` (all streams of a client share one
  assembler across reconnects, and the assembler is external), gzip members,
  `fetch_merged_sp3_file` and the `write_sp3` family, the setters of whole TDM
  messages and segments (which store a copy), parsing and writing: not modelled.
- Merge report verification, archive listings and exact SP3 coverage have no state of
  their own and are left to tests.
- The remaining bindings, which are most of the Rust lines: `fusion.rs`,
  `estimation.rs`, `rtk.rs`, `sbas_ssr.rs`, `nmea.rs`, `rtcm.rs`, `ionex.rs`,
  `propagation.rs`, `terrain_store.rs` and others convert arguments, call one function of
  `sidereon-core` and convert the result. Classes with state hold one core object
  and forward to it. There is no control flow of this repository's to model: a
  specification of them would either be the identity or a model of a library
  that is not here.
