------------------------- MODULE MCSpaceWeatherFetch -------------------------
(***************************************************************************)
(* Finite instances of SpaceWeatherFetch: two issues of the table, a clock   *)
(* of three ticks and an age limit of one.                                  *)
(***************************************************************************)
EXTENDS SpaceWeatherFetch, TLC

CONSTANTS P, Q

Issues == {P, Q}
PinP == {NoPin, P}
NoPins == {NoPin}
OnlyPinP == {P}
Ticks == 0..MaxTime
AnyFault == {"crash", "io"}
NoFault == {}

\* Callers are interchangeable, and no liveness is checked here.
Callers == Permutations(Proc)
=============================================================================
