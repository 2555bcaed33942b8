--------------------------- MODULE RecordEditing ----------------------------
(***************************************************************************)
(* The editing methods of PyTdmDataSection and PyTdmMetadata.  A section       *)
(* keeps its records (the fields of a metadata block) and its comments in two   *)
(* lists; a comment is tied to the records by the index of the record it        *)
(* precedes, which every edit of the records has to carry along.  A metadata     *)
(* edit is made on a candidate that sidereon-core accepts, or refuses for        *)
(* reasons of its own.  Indices count from 0, as in the code.                    *)
(***************************************************************************)
EXTENDS Integers, Sequences, FiniteSets, SequencesExt, Listing

CONSTANTS
    Key, Value, Text,
    RecordList,     \* the record lists a caller passes as a whole
    CommentList,    \* the comment lists a caller passes as a whole
    MaxRecords,     \* bound: records of a section
    MaxBefore       \* bound: positions a comment can have

Record  == [key : Key, value : Value]
Comment == [text : Text, before : 0..MaxBefore]

ASSUME EditingAssumption ==
    /\ MaxRecords \in Nat /\ MaxBefore \in Nat
    /\ RecordList \subseteq Seq(Record) /\ CommentList \subseteq Seq(Comment)

VARIABLES
    section,   \* which class the object is of, "data" or "metadata"
    block,     \* its two lists, [records, comments]
    method     \* history: what the last call was for, or "refused"

editVars == <<section, block, method>>

EditInit ==
    /\ section \in {"data", "metadata"}
    /\ block \in [records : RecordList, comments : CommentList]
    /\ method = "new"

-----------------------------------------------------------------------------
\* Fault: a comment that precedes the edited index itself moves as well.
ShiftFrom(comments, index, by) ==
    [k \in DOMAIN comments |->
        [comments[k] EXCEPT !.before = IF @ >= index THEN @ + by ELSE @]]

\* The loop behind every insertion and removal.
Shift(comments, index, by) ==
    [k \in DOMAIN comments |->
        [comments[k] EXCEPT !.before = IF @ > index THEN @ + by ELSE @]]

WithRecord(b, index, r) ==
    [records |-> InsertAt(b.records, index + 1, r), comments |-> Shift(b.comments, index, 1)]

\* Fault: the comments behind a removed record keep their index.
WithoutRecordUnshifted(b, index) == [b EXCEPT !.records = RemoveAt(@, index + 1)]

WithoutRecord(b, index) ==
    [records |-> RemoveAt(b.records, index + 1), comments |-> Shift(b.comments, index, -1)]

\* set_scalar_internal with a value: every match is written, or one is appended.
WithScalar(b, key, value) ==
    [b EXCEPT !.records =
        IF \E i \in DOMAIN @ : @[i].key = key
        THEN [i \in DOMAIN @ |-> IF @[i].key = key THEN [key |-> @[i].key, value |-> value] ELSE @[i]]
        ELSE Append(@, [key |-> key, value |-> value])]

\* set_scalar_internal with None: every match is removed, the last one first.
WithoutScalar(b, key) ==
    LET n == Len(b.records)
        left[k \in 0..n] ==   \* after the last k records were looked at
            IF k = 0 THEN b
            ELSE IF b.records[n - k + 1].key = key THEN WithoutRecord(left[k - 1], n - k)
                 ELSE left[k - 1]
    IN  left[n]

\* comments.push, then the stable sort_by_key(before_record).
WithComment(b, comment) ==
    LET pushed == Append(b.comments, comment)
        at == Listed[{<<pushed[i].before, i>> : i \in DOMAIN pushed}]
    IN  [b EXCEPT !.comments = [k \in DOMAIN at |-> pushed[at[k][2]]]]

-----------------------------------------------------------------------------
\* Bound: one more record fits, and every position can still be shifted.
Room == Len(block.records) < MaxRecords
        /\ \A k \in DOMAIN block.comments : block.comments[k].before < MaxBefore

Edited(name, b) == block' = b /\ method' = name /\ UNCHANGED section
Refused == method' = "refused" /\ UNCHANGED <<section, block>>

\* PyTdmDataSection changes its lists directly.
DataSetComments ==
    \E cs \in CommentList : Edited("comments", [block EXCEPT !.comments = cs])

DataSetRecords ==
    \E rs \in RecordList : Edited("records", [block EXCEPT !.records = rs])

AddRecord ==
    /\ Len(block.records) < MaxRecords
    /\ \E r \in Record : Edited("insert", [block EXCEPT !.records = Append(@, r)])

InsertRecord(index) ==
    IF index > Len(block.records) THEN Refused
    ELSE Room /\ \E r \in Record : Edited("insert", WithRecord(block, index, r))

RemoveRecord(index) ==
    IF index >= Len(block.records) THEN Refused
    ELSE Edited("remove", WithoutRecord(block, index))

DataEdit ==
    \/ DataSetComments \/ DataSetRecords \/ AddRecord
    \/ \E index \in 0..MaxRecords + 1 : InsertRecord(index) \/ RemoveRecord(index)

-----------------------------------------------------------------------------
\* PyTdmMetadata: the candidate takes the object's place if the core accepts it.
EditAtomic(name, candidates) == (\E b \in candidates : Edited(name, b)) \/ Refused

ReplacedRecords == {[block EXCEPT !.records = rs] : rs \in RecordList}

SetScalar(key) ==
    \/ LET found == \E i \in DOMAIN block.records : block.records[i].key = key
       IN  /\ found \/ Len(block.records) < MaxRecords
           /\ EditAtomic(IF found THEN "write" ELSE "insert",
                         {WithScalar(block, key, value) : value \in Value})
    \/ EditAtomic("remove", {WithoutScalar(block, key)})

ReplaceRaw ==
    \/ EditAtomic("both", [records : RecordList, comments : CommentList])
    \/ EditAtomic("records", ReplacedRecords)

SetFields == EditAtomic("records", ReplacedRecords)

SetComments == EditAtomic("comments", {[block EXCEPT !.comments = cs] : cs \in CommentList})

InsertField(index) ==
    IF index > Len(block.records) THEN Refused
    ELSE Room /\ EditAtomic("insert", {WithRecord(block, index, r) : r \in Record})

AppendField == InsertField(Len(block.records))

RemoveField(key) == EditAtomic("remove", {WithoutScalar(block, key)})

RemoveFieldAt(index) ==
    IF index >= Len(block.records) THEN Refused
    ELSE EditAtomic("remove", {WithoutRecord(block, index)})

\* Bound: the texts of a section's comments differ.
AddComment(text, before) ==
    /\ \A k \in DOMAIN block.comments : block.comments[k].text # text
    /\ EditAtomic("comment", {WithComment(block, [text |-> text, before |-> before])})

MetadataEdit ==
    \/ ReplaceRaw \/ SetFields \/ SetComments \/ AppendField
    \/ \E key \in Key : SetScalar(key) \/ RemoveField(key)
    \/ \E index \in 0..MaxRecords + 1 : InsertField(index) \/ RemoveFieldAt(index)
    \/ \E text \in Text, before \in 0..MaxBefore : AddComment(text, before)

EditNext == (section = "data" /\ DataEdit) \/ (section = "metadata" /\ MetadataEdit)

EditSpec == EditInit /\ [][EditNext]_editVars

-----------------------------------------------------------------------------
EditTypeOK ==
    /\ section \in {"data", "metadata"}
    /\ block \in [records : Seq(Record), comments : Seq(Comment)]
    /\ method \in {"new", "insert", "remove", "write", "comment", "records",
                   "comments", "both", "refused"}

\* The slot of a comment: the index it has, or the one behind the last record.
Slot(b, c) == IF c.before > Len(b.records) THEN Len(b.records) ELSE c.before

\* The places of the lines: a record behind the comments of its slot.
CommentPlace(b, i) == <<2 * Slot(b, b.comments[i]), i>>
RecordPlace(k)     == <<2 * k - 1, k>>

Places(b) == {CommentPlace(b, i) : i \in DOMAIN b.comments}
             \union {RecordPlace(k) : k \in DOMAIN b.records}

\* What stands at a place.
LineAt(b, place) ==
    IF place[1] % 2 = 0
    THEN [comment |-> TRUE, text |-> b.comments[place[2]].text]
    ELSE [comment |-> FALSE, key |-> b.records[place[2]].key, value |-> b.records[place[2]].value]

\* The text the two lists stand for: before each record the comments whose index
\* it has, in the order they are listed, and at the end the ones whose index no
\* record has (TdmComment.before_record, docs/tdm.md "Position Semantics").
LinesOf(b) ==
    LET at == Listed[Places(b)]
    IN  [k \in DOMAIN at |-> LineAt(b, at[k])]

\* The comments are listed in the order of their positions.
InOrder(comments) ==
    \A i, j \in DOMAIN comments : i < j => comments[i].before <= comments[j].before

\* The refinement mapping to what the methods promise of the text.
Doc == INSTANCE Document WITH lines <- LinesOf(block), tidy <- InOrder(block.comments),
                              call <- method

\* docs/tdm.md, "comment offsets are deterministically shifted to preserve their
\* association with surviving fields ... no comments are ever clamped or dropped",
\* "Existing key order is maintained", and edits that are refused change nothing:
\* whatever sequence of edits went before, an edit moves no line past another.
KeepsTheDocument == Doc!DocSpec
=============================================================================
