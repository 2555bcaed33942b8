--------------------------- MODULE MCTerrainFetch ---------------------------
(***************************************************************************)
(* Finite instances of TerrainFetch, where Z is the tile as the old converter *)
(* wrote it and N as the current one does, and of TerrainPrefetch.  The two    *)
(* stand side by side: a behavior belongs to one, and the other rests in an    *)
(* initial state.                                                           *)
(***************************************************************************)
EXTENDS TerrainFetch, TerrainPrefetch

CONSTANTS Z, N

Tiles == {Z, N}
OldTiles == {Z}
NewTiles == {N}
PinZ == {NoPin, Z}
Converters == {"v1", "v2"}
AnyFault == {"crash", "io"}

VARIABLE part

TilesRest == data = NoFile /\ sidecar = NoSidecar /\ ~marker /\ covered
PrefetchRests == request = << >> /\ ~strict

TerrainInit ==
    /\ Init /\ PrefetchInit
    /\ part \in {"tiles", "prefetch"}
    /\ part = "tiles" \/ TilesRest
    /\ part = "prefetch" \/ PrefetchRests

PrefetchOver == status # "running" /\ UNCHANGED prefetchVars

TerrainNext ==
    \/ part = "tiles" /\ Next /\ UNCHANGED prefetchVars
    \/ part = "prefetch" /\ (PrefetchNext \/ PrefetchOver) /\ UNCHANGED vars

\* The fairness is that of TerrainFetch's FairSpec.
TerrainSpec ==
    /\ TerrainInit
    /\ [][TerrainNext /\ UNCHANGED part]_<<part, vars, prefetchVars>>
    /\ \A p \in Proc : WF_vars(Running(p))
=============================================================================
