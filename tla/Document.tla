------------------------------ MODULE Document ------------------------------
(***************************************************************************)
(* What the editing methods of a TDM section promise of the text it stands    *)
(* for, a sequence of comment lines and record lines: an edit never moves a   *)
(* line past another line that survives it, never drops a comment and never    *)
(* changes what it was not asked to change (docs/tdm.md, "Metadata             *)
(* Construction and Mutation").  A section whose comments are not listed in     *)
(* the order of their positions is not tidy; of its comments only their set     *)
(* is promised.                                                              *)
(***************************************************************************)
EXTENDS Naturals, Sequences, SequencesExt, Listing

VARIABLES
    lines,   \* [comment |-> TRUE, text], or [comment |-> FALSE, key, value]
    tidy,    \* are the comments listed in the order of their positions
    call     \* what the last call was for, or "refused"

docVars == <<lines, tidy, call>>

Comments(ls) == Part(ls, {i \in DOMAIN ls : ls[i].comment})
Records(ls)  == Part(ls, {i \in DOMAIN ls : ~ls[i].comment})

\* A record line goes directly in front of another one, or behind them all.
RecordPlace(ls, i) == IF i \in DOMAIN ls
                      THEN ~ls[i].comment \/ \A j \in i..Len(ls) : ls[j].comment
                      ELSE i = Len(ls) + 1

\* new is old with the record at place i of the new sequence added.
OneMore(old, new, i) == i \in DOMAIN new /\ Without(new, {i}) = old

SameCommentSet == ToSet(Comments(lines')) = ToSet(Comments(lines))

-----------------------------------------------------------------------------
\* Each promise has the form a tidy section gets, and the weaker one.
InsertRecord ==
    /\ call' = "insert" /\ tidy' = tidy
    /\ \/ \E i \in DOMAIN lines' :
              /\ ~lines'[i].comment /\ RecordPlace(lines, i)
              /\ OneMore(lines, lines', i)
       \/ /\ ~tidy /\ SameCommentSet
          /\ \E i \in DOMAIN Records(lines') : OneMore(Records(lines), Records(lines'), i)

RemoveRecords ==
    /\ call' = "remove" /\ (tidy => tidy')
    /\ \/ \E gone \in SUBSET {i \in DOMAIN lines : ~lines[i].comment} :
              lines' = Without(lines, gone)
       \/ /\ ~tidy /\ SameCommentSet
          /\ \E gone \in SUBSET DOMAIN Records(lines) :
                 Records(lines') = Without(Records(lines), gone)

\* Values are written in place.
WriteValues ==
    /\ call' = "write" /\ tidy' = tidy
    /\ DOMAIN lines' = DOMAIN lines
    /\ \A i \in DOMAIN lines :
           \/ lines'[i] = lines[i]
           \/ ~lines[i].comment /\ lines'[i] = [lines[i] EXCEPT !.value = lines'[i].value]

AddComment ==
    /\ call' = "comment" /\ tidy'
    /\ \/ \E i \in DOMAIN lines' : lines'[i].comment /\ OneMore(lines, lines', i)
       \/ /\ ~tidy /\ Records(lines') = Records(lines)
          /\ ToSet(Comments(lines)) \subseteq ToSet(Comments(lines'))

\* All records, or all comments, or both, are replaced.
ReplaceRecords ==
    /\ call' = "records" /\ tidy' = tidy
    /\ IF tidy THEN Comments(lines') = Comments(lines) ELSE SameCommentSet

ReplaceComments == call' = "comments" /\ Records(lines') = Records(lines)

ReplaceBoth == call' = "both"

Refuse == call' = "refused" /\ UNCHANGED <<lines, tidy>>

DocInit == call = "new"

DocNext ==
    \/ InsertRecord \/ RemoveRecords \/ WriteValues \/ AddComment
    \/ ReplaceRecords \/ ReplaceComments \/ ReplaceBoth \/ Refuse

DocSpec == DocInit /\ [][DocNext]_docVars
=============================================================================
