--------------------------- MODULE TerrainPrefetch ---------------------------
(***************************************************************************)
(* _prefetch_dted_tile_indices: the loop behind prefetch_dted_bbox,          *)
(* prefetch_dted_tiles and populate_terrain_cache, which asks for one tile    *)
(* at a time and sorts the answers into a TerrainFetchReport.  How a tile is *)
(* answered is TerrainFetch's matter; here any answer it can give comes.      *)
(***************************************************************************)
EXTENDS Naturals, Sequences, FiniteSets, SequencesExt

CONSTANTS
    Tile,       \* the tiles that can be asked for
    MaxLength,  \* bound on the length of a request
    Unbound     \* the value of a local not assigned yet

ASSUME PrefetchAssumption == MaxLength \in Nat

VARIABLES
    request,    \* the tiles asked for, repeats included
    strict,     \* the strict option
    next,       \* index of the tile the loop is at
    answer,     \* the locals state and value, which live across iterations
    report,     \* the TerrainFetchReport: one sequence of tiles per list
    status      \* "running" or "returned", "raised" (UnboundLocalError) or
                \* "failed" (an error of the tile that is not a DataError)

prefetchVars == <<request, strict, next, answer, report, status>>

List   == {"fetched", "cached", "no_coverage", "errors"}
States == {"fetched", "cached", "no_coverage"}

PrefetchInit ==
    /\ request \in BoundedSeq(Tile, MaxLength)
    /\ strict \in BOOLEAN
    /\ next = 1
    /\ answer = Unbound
    /\ report = [list \in List |-> << >>]
    /\ status = "running"

AtTile == status = "running" /\ next <= Len(request)
\* Fault: repeats are not noticed.
NeverRepeated == FALSE
Repeated == \E i \in 1..(next - 1) : request[i] = request[next]

Put(r, list, tile) == [r EXCEPT ![list] = Append(@, tile)]

\* A tile asked for before is passed over.
SkipRepeated ==
    /\ AtTile /\ Repeated
    /\ next' = next + 1
    /\ UNCHANGED <<request, strict, answer, report, status>>

\* _fetch_dted_tile returns; "no_coverage" is returned only when not strict.
Answered(state) ==
    /\ AtTile /\ ~Repeated
    /\ state = "no_coverage" => ~strict
    /\ answer' = <<state, request[next]>>
    /\ report' = Put(report, state, request[next])
    /\ next' = next + 1
    /\ UNCHANGED <<request, strict, status>>

\* Fault: the handler drops the tile.
NoCoverageDropped ==
    /\ AtTile /\ ~Repeated /\ strict
    /\ next' = next + 1
    /\ UNCHANGED <<request, strict, answer, report, status>>

\* It raises NoCoverage, when strict.  The handler files the tile and falls
\* through to the lines that file state and value -- the last returned ones.
NoCoverageRaised ==
    /\ AtTile /\ ~Repeated /\ strict
    /\ LET filed == Put(report, "no_coverage", request[next]) IN
       IF answer = Unbound
       THEN /\ status' = "raised"
            /\ report' = filed
            /\ UNCHANGED next
       ELSE /\ report' = Put(filed, answer[1], answer[2])
            /\ next' = next + 1
            /\ UNCHANGED status
    /\ UNCHANGED <<request, strict, answer>>

\* It raises another DataError: the tile is filed under errors, and the loop
\* goes on with the next.
ErrorRaised ==
    /\ AtTile /\ ~Repeated
    /\ report' = Put(report, "errors", request[next])
    /\ next' = next + 1
    /\ UNCHANGED <<request, strict, answer, status>>

\* It raises an OSError that _fetch_dted_tile let through, which no handler of the
\* loop catches: there is no report.
ErrorPropagates ==
    /\ AtTile /\ ~Repeated
    /\ status' = "failed"
    /\ UNCHANGED <<request, strict, next, answer, report>>

Finish ==
    /\ status = "running" /\ next > Len(request)
    /\ status' = "returned"
    /\ UNCHANGED <<request, strict, next, answer, report>>

PrefetchNext ==
    \/ SkipRepeated
    \/ \E state \in States : Answered(state)
    \/ NoCoverageRaised
    \/ ErrorRaised
    \/ ErrorPropagates
    \/ Finish

PrefetchSpec == PrefetchInit /\ [][PrefetchNext]_prefetchVars

-----------------------------------------------------------------------------
\* How often a tile stands in the report.
Occurrences(tile) ==
    LET At(list) == {<<list, i>> : i \in {j \in 1..Len(report[list]) : report[list][j] = tile}}
    IN  Cardinality(UNION {At(list) : list \in List})

\* TerrainFetchReport's docstring, "Partitioned result from a terrain region or
\* bulk cache population": in the report returned, every tile asked for is in
\* exactly one list, once.
Partitioned ==
    status = "returned" => \A tile \in ToSet(request) : Occurrences(tile) = 1

\* The part of it that holds: without strict, and for every mix of repeats,
\* answers and errors.
PartitionedUnlessStrict == ~strict => status # "raised" /\ Partitioned

\* The part of it that holds with strict as well: no tile asked for is missing
\* from the report, whatever exceptions its neighbours raised.
EveryTileReported ==
    status = "returned" =>
        \A tile \in ToSet(request) : \E list \in List : tile \in ToSet(report[list])
=============================================================================
