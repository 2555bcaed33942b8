------------------------------- MODULE Listing -------------------------------
(***************************************************************************)
(* Finite sets of places listed in their order, and the part of a sequence    *)
(* that stands at some of its places: what the loops of the record editors      *)
(* build, said without the loop.  A place is a pair of numbers; of two places    *)
(* with the same first number the second one decides.                             *)
(***************************************************************************)
EXTENDS Naturals, FiniteSets, Sequences

Precedes(p, q) == p[1] < q[1] \/ (p[1] = q[1] /\ p[2] < q[2])

\* How many places of S come before p.
Rank(p, S) == Cardinality({q \in S : Precedes(q, p)})

Listed[S \in SUBSET (Nat \X Nat)] ==
    [k \in 1..Cardinality(S) |-> CHOOSE p \in S : Rank(p, S) = k - 1]

\* The elements of list with the indices of a set, in their order.
Part(list, indices) ==
    LET at == Listed[{<<0, i>> : i \in indices}]
    IN  [k \in DOMAIN at |-> list[at[k][2]]]

\* list without the elements that have those indices.
Without(list, indices) == Part(list, DOMAIN list \ indices)
=============================================================================
