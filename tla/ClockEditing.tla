---------------------------- MODULE ClockEditing ----------------------------
(***************************************************************************)
(* The editing methods of PyRinexClock.  retain_records and edit_records call  *)
(* back into Python once per record before they change anything.  The product   *)
(* is exclusively borrowed for the whole call: whatever the callback, or another  *)
(* thread that runs while it holds no GIL, does with the product raises           *)
(* RuntimeError.  Whether an edit is acceptable is sidereon-core's to say.         *)
(***************************************************************************)
EXTENDS Integers, Sequences, FiniteSets, SequencesExt, Listing

CONSTANTS
    Thread,        \* the threads that use one product
    Row,           \* records, told apart by their values
    System,        \* time systems
    MaxRows        \* bound: records of the product

ASSUME ClockAssumption == Row # {} /\ System # {} /\ MaxRows \in Nat

NoBatch == [kind |-> "none", verdicts |-> <<>>]

VARIABLES
    rows,      \* the records of the product
    system,    \* its declared time system
    batch,     \* the batch call each thread is in, with the verdicts so far
    began      \* history: rows when each thread's batch began

clockVars == <<rows, system, batch, began>>

ClockInit ==
    /\ rows \in SeqOf(Row, MaxRows) /\ system \in System
    /\ batch = [t \in Thread |-> NoBatch]
    /\ began = [t \in Thread |-> <<>>]

\* The product can be borrowed for a change only while no batch call runs.
Borrowable == \A t \in Thread : batch[t] = NoBatch

-----------------------------------------------------------------------------
\* set_time_system: the core checks every epoch, then declares it, or refuses.
SetTimeSystem(s) ==
    /\ Borrowable
    /\ system' = s
    /\ UNCHANGED <<rows, batch, began>>

\* Fault: the object is not borrowed while the callback runs.
SetRecordValuesUnborrowed(i, r) ==
    /\ i \in DOMAIN rows
    /\ rows' = [rows EXCEPT ![i] = r]
    /\ UNCHANGED <<system, batch, began>>

SetRecordValues(i, r) ==
    /\ Borrowable
    /\ i \in DOMAIN rows
    /\ rows' = [rows EXCEPT ![i] = r]
    /\ UNCHANGED <<system, batch, began>>

InsertRow(i, r) ==
    /\ Borrowable
    /\ Len(rows) < MaxRows
    /\ i \in 1..Len(rows) + 1
    /\ rows' = InsertAt(rows, i, r)
    /\ UNCHANGED <<system, batch, began>>

RemoveRow(i) ==
    /\ Borrowable
    /\ i \in DOMAIN rows
    /\ rows' = RemoveAt(rows, i)
    /\ UNCHANGED <<system, batch, began>>

-----------------------------------------------------------------------------
\* retain_records or edit_records borrows the product and starts to call back.
BeginBatch(t, kind) ==
    /\ Borrowable
    /\ batch' = [batch EXCEPT ![t] = [kind |-> kind, verdicts |-> <<>>]]
    /\ began' = [began EXCEPT ![t] = rows]
    /\ UNCHANGED <<rows, system>>

\* keep answers TRUE or FALSE; edit answers the values to write, or None.
Verdicts(kind) == IF kind = "retain" THEN {TRUE, FALSE}
                  ELSE {<<>>} \union {<<r>> : r \in Row}

CallBack(t) ==
    /\ batch[t].kind # "none" /\ Len(batch[t].verdicts) < Len(rows)
    /\ \E v \in Verdicts(batch[t].kind) :
           batch' = [batch EXCEPT ![t].verdicts = Append(@, v)]
    /\ UNCHANGED <<rows, system, began>>

\* The callback raises, or its answer is not of the type asked for.
CallBackRaises(t) ==
    /\ batch[t].kind # "none" /\ Len(batch[t].verdicts) < Len(rows)
    /\ batch' = [batch EXCEPT ![t] = NoBatch]
    /\ UNCHANGED <<rows, system, began>>

Answered(t, kind) == batch[t].kind = kind /\ Len(batch[t].verdicts) >= Len(rows)

\* A record no verdict was given for is kept.
FinishRetain(t) ==
    /\ Answered(t, "retain")
    /\ LET v == batch[t].verdicts
       IN  rows' = Part(rows, {i \in DOMAIN rows : i \in DOMAIN v => v[i]})
    /\ batch' = [batch EXCEPT ![t] = NoBatch]
    /\ UNCHANGED <<system, began>>

\* The core checks the whole batch and applies all of it, or refuses it.
FinishEdit(t) ==
    /\ Answered(t, "edit")
    /\ LET v == batch[t].verdicts
       IN  \/ rows' = [i \in DOMAIN rows |->
                          IF i \in DOMAIN v /\ v[i] # <<>> THEN v[i][1] ELSE rows[i]]
           \/ rows' = rows
    /\ batch' = [batch EXCEPT ![t] = NoBatch]
    /\ UNCHANGED <<system, began>>

ClockNext ==
    \/ \E s \in System : SetTimeSystem(s)
    \/ \E i \in 1..MaxRows + 1 : RemoveRow(i)
            \/ \E r \in Row : SetRecordValues(i, r) \/ InsertRow(i, r)
    \/ \E t \in Thread :
            \/ \E kind \in {"retain", "edit"} : BeginBatch(t, kind)
            \/ CallBack(t) \/ CallBackRaises(t) \/ FinishRetain(t) \/ FinishEdit(t)

ClockSpec == ClockInit /\ [][ClockNext]_clockVars

-----------------------------------------------------------------------------
ClockTypeOK ==
    /\ rows \in Seq(Row) /\ system \in System
    /\ \A t \in Thread :
           /\ batch[t].kind \in {"none", "retain", "edit"}
           /\ batch[t].verdicts \in Seq(Verdicts(batch[t].kind))
           /\ began[t] \in Seq(Row)

\* The records a finished batch leaves, from those it was asked about.
Kept(old, v) == Part(old, {i \in DOMAIN old : v[i]})

Rewritten(old, v) == [i \in DOMAIN old |-> IF v[i] = <<>> THEN old[i] ELSE v[i][1]]

\* retain_records and edit_records, "called once per record, in records order,
\* before anything changes; an exception it raises ... leaves the product
\* unchanged", "if one edit is refused, none is applied": a batch call that ends
\* leaves what was there when it began, or that with every verdict applied to
\* the record it was given for, whatever other calls came while it called back.
BatchAllOrNothing ==
    [][\A t \in Thread :
        LET old == began[t]
            b   == batch[t]
        IN  (b # NoBatch /\ batch'[t] = NoBatch) =>
            \/ rows' = old
            \/ b.kind = "retain" /\ Len(b.verdicts) = Len(old) /\ rows' = Kept(old, b.verdicts)
            \/ b.kind = "edit" /\ Len(b.verdicts) = Len(old) /\ rows' = Rewritten(old, b.verdicts)
      ]_clockVars
=============================================================================
