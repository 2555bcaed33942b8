--------------------------- MODULE MCProductFetch ---------------------------
(***************************************************************************)
(* Finite instances of ProductFetch.  P and Q are two issues of the product; *)
(* U is a file the user put there, which the archive never served.          *)
(***************************************************************************)
EXTENDS ProductFetch, TLC

CONSTANTS P, Q, U

Issues == {P, Q}
OneIssue == {P}
WithUserFile == {P, Q, U}
Sidecars(digests) == [digest: digests, tag: {OnDate}] \union {NoSidecar}

AnyFile == {NoFile, P, U}
AnySidecar == Sidecars({P, U})
CleanFile == {NoFile}
CleanSidecar == {NoSidecar}
ProductFile == {NoFile, P}
ProductSidecar == Sidecars({P})

AnyFault == {"crash", "io"}
OnlyCrash == {"crash"}
NoFault == {}
Tags == {OnDate}
PinP == {NoPin, P}
PinQ == {NoPin, Q}

\* Callers are interchangeable, and no liveness is checked here.
Callers == Permutations(Proc)
=============================================================================
