------------------------------ MODULE MCNative -------------------------------
(***************************************************************************)
(* The native parts that keep state of their own, side by side: a behavior    *)
(* belongs to one of them, and the others rest in an initial state.            *)
(***************************************************************************)
EXTENDS SingleFlight, RecordEditing, ClockEditing, UnixCompress

CONSTANTS t1, t2   \* two texts

VARIABLE part

MCRow(k, v) == [key |-> k, value |-> v]
MCRecordList ==
    {<<>>, <<MCRow("k2", "a")>>, <<MCRow("k1", "a"), MCRow("k1", "b")>>,
     <<MCRow("k1", "a"), MCRow("k2", "a"), MCRow("k1", "b")>>}

\* In the order of their positions and not, and beyond a short record list.
MCComments(x, i, y, j) == <<[text |-> x, before |-> i], [text |-> y, before |-> j]>>
MCCommentList ==
    {<<>>} \union UNION {{MCComments(t1, p[1], t2, p[2]), MCComments(t2, p[1], t1, p[2])} :
                          p \in {<<0, 1>>, <<1, 3>>, <<3, 1>>}}

FlightRests == ~committed /\ holder = Nobody
EditRests   == section = "data" /\ block = [records |-> <<>>, comments |-> <<>>]
ClockRests  == rows = <<>> /\ system = "GPS"
ScanRests   == header = "empty"

NativeInit ==
    /\ FlightInit /\ EditInit /\ ClockInit /\ CompressInit
    /\ part \in {"flight", "edit", "clock", "scan"}
    /\ part = "flight" \/ FlightRests
    /\ part = "edit" \/ EditRests
    /\ part = "clock" \/ ClockRests
    /\ part = "scan" \/ ScanRests

NativeNext ==
    \/ part = "flight" /\ FlightNext /\ UNCHANGED <<editVars, clockVars, scanVars>>
    \/ part = "edit" /\ EditNext /\ UNCHANGED <<flightVars, clockVars, scanVars>>
    \/ part = "clock" /\ ClockNext /\ UNCHANGED <<flightVars, editVars, scanVars>>
    \/ part = "scan" /\ CompressNext /\ UNCHANGED <<flightVars, editVars, clockVars>>

NativeSpec ==
    NativeInit /\ [][NativeNext /\ UNCHANGED part]_<<part, flightVars, editVars, clockVars, scanVars>>

\* Nothing tells callers, threads, records of a clock product or texts apart.
NativeSymmetry ==
    Permutations(Caller) \union Permutations(Thread) \union Permutations(Row)
        \union Permutations(Text)

\* Every variable of the four parts has its type.
NativeTypeOK == FlightTypeOK /\ EditTypeOK /\ ClockTypeOK /\ CompressTypeOK
=============================================================================
