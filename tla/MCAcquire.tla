------------------------------ MODULE MCAcquire ------------------------------
(* Instances of Acquire for TLC: lists of one or two distributors, with and   *)
(* without a pin, offline or not.                                             *)
EXTENDS Acquire, TLC

CONSTANTS cddis, local, P, Q

Callers  == Permutations(Proc)
Products == {P, Q}
Calls    == [dists: {<<cddis, cddis>>}, offline: {FALSE}, pin: {NoPin, P}]
                \union [dists: {<<cddis, local>>}, offline: BOOLEAN, pin: {NoPin}]
=============================================================================
