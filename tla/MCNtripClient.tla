--------------------------- MODULE MCNtripClient ---------------------------
(* Instances of NtripClient for TLC: every kind of client, with few reconnects. *)
EXTENDS NtripClient

Clients == [version: {"auto", "rev1", "rev2"}, gga: BOOLEAN, max: {0, 1, Unlimited}]
ExplicitRev2 == [version: {"rev2"}, gga: {FALSE}, max: {Unlimited}]
=============================================================================
