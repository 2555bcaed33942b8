---------------------------- MODULE UnixCompress ----------------------------
(***************************************************************************)
(* validate_archive: whether a .Z archive is structurally complete.  The       *)
(* scanner reads LZW codes of a growing width, from groups of ByteBits codes    *)
(* that are padded where the width changes and at a CLEAR code, and keeps only   *)
(* the number of the next free dictionary entry.  An archive is its length in     *)
(* bytes and its bits, which are chosen when they are read: each is read once.     *)
(*                                                                          *)
(* The code's constants are ByteBits = 8, InitBits = 9, MaxMaxBits = 16.  A        *)
(* smaller instance keeps what the arithmetic relies on: padding is shorter than    *)
(* a code, and CLEAR = 2^(InitBits - 1) is a multiple of the group.                  *)
(***************************************************************************)
EXTENDS Integers

CONSTANTS
    ByteBits,     \* bits of a byte, codes of a group
    InitBits,     \* INIT_BITS
    MaxMaxBits,   \* MAX_MAXBITS
    MaxBytes      \* bound: bytes after the header

ASSUME CompressAssumption ==
    /\ ByteBits \in Nat /\ InitBits \in Nat /\ MaxMaxBits \in Nat /\ MaxBytes \in Nat
    /\ 1 < ByteBits /\ ByteBits < InitBits /\ InitBits <= MaxMaxBits
    /\ 2^(InitBits - 1) % ByteBits = 0

CLEAR == 2^(InitBits - 1)

VARIABLES
    header,      \* what the archive begins with
    blockMode,   \* BLOCK_MODE_FLAG
    maxbits,     \* flags & MAXBITS_MASK
    total,       \* total_bits
    bitpos, width, boundary,   \* boundary is boundary_offset
    free,        \* free_entry
    stage,       \* where the scanner is, or its verdict
    count,       \* history: codes since the last reset
    start,       \* history: where the reference says they begin
    sound,       \* history: every code so far names something
    cut          \* history: what is left over began a code that was cut off

scanVars == <<header, blockMode, maxbits, total, bitpos, width, boundary, free,
              stage, count, start, sound, cut>>
archiveVars == <<header, blockMode, maxbits, total>>

\* first_free
FirstFree == CLEAR + (IF blockMode THEN 1 ELSE 0)

CompressInit ==
    /\ header \in {"empty", "short", "bad magic", "no flags", "complete"}
    /\ blockMode \in BOOLEAN
    /\ maxbits \in InitBits - 1..MaxMaxBits + 1
    /\ total \in {n * ByteBits : n \in 0..MaxBytes}
    /\ header # "complete" => total = 0 /\ ~blockMode /\ maxbits = InitBits
    /\ bitpos = 0 /\ width = InitBits /\ boundary = 0
    /\ free = FirstFree
    /\ stage = "header"
    /\ count = 0 /\ start = 0 /\ sound = TRUE /\ cut = FALSE

-----------------------------------------------------------------------------
\* read_code finds the next w bits in the archive.
Readable(at, w) == at + w <= total

\* Fault: the current code is taken to belong to the next group.
AlignToNextGroup(at, w, from) ==
    LET group == w * ByteBits
        relative == at - from
    IN  at + (group - (relative % group))

\* align_to_group, called after the code that ends at bit "at".
AlignToGroup(at, w, from) ==
    LET group == w * ByteBits
        previous == at - 1
        relative == previous - from
    IN  previous + (group - ((relative + group) % group))

Verdict(v) == stage' = v /\ UNCHANGED <<archiveVars, bitpos, width, boundary, free>>

\* What the histories record of a code read as the count-th of its run.
Saw(code, limit) ==
    /\ count' = count + 1
    /\ sound' = (sound /\ code <= limit)
    /\ UNCHANGED <<start, cut>>
SawNothing == UNCHANGED <<count, start, sound, cut>>

\* Reference: the last entry a code may name after n codes of a run, n > 0.
Entries(n) == IF FirstFree + n - 1 < 2^maxbits THEN FirstFree + n - 1 ELSE 2^maxbits

-----------------------------------------------------------------------------
\* validate_archive and the beginning of validate_codes.
ReadHeader ==
    /\ stage = "header"
    /\ CASE header = "empty" -> Verdict("accepted")
         [] header \in {"short", "bad magic", "no flags"} -> Verdict("refused")
         [] OTHER -> IF maxbits \notin InitBits..MaxMaxBits THEN Verdict("refused")
                     ELSE IF total = 0 THEN Verdict("accepted") ELSE Verdict("first")
    /\ SawNothing

ReadFirst ==
    /\ stage = "first"
    /\ IF ~Readable(0, width) THEN Verdict("refused") /\ SawNothing
       ELSE \E code \in 0..2^width - 1 :
                /\ stage' = IF code >= CLEAR THEN "refused" ELSE "codes"
                /\ bitpos' = width
                /\ Saw(code, CLEAR - 1)
                /\ UNCHANGED <<archiveVars, width, boundary, free>>

\* A code that is not CLEAR: it may name the entry being added, not a later one.
ReadCode ==
    /\ stage = "codes" /\ Readable(bitpos, width)
    /\ \E code \in 0..2^width - 1 :
        /\ ~(blockMode /\ code = CLEAR)
        /\ Saw(code, Entries(count))
        /\ IF code > free
           THEN stage' = "refused" /\ bitpos' = bitpos + width /\ UNCHANGED <<width, boundary, free>>
           ELSE /\ free' = IF free < 2^maxbits THEN free + 1 ELSE free
                /\ IF free < 2^maxbits /\ free' > 2^width - 1 /\ width < maxbits
                   THEN /\ boundary' = AlignToGroup(bitpos + width, width, boundary)
                        /\ bitpos' = boundary'
                        /\ width' = width + 1
                   ELSE bitpos' = bitpos + width /\ UNCHANGED <<width, boundary>>
                /\ UNCHANGED stage
    /\ UNCHANGED archiveVars

-----------------------------------------------------------------------------
\* The reference counts groups where the scanner moves its position along.
\* Codes of a run that have at most width w: the first and one for each entry.
UpTo(w) == 2^w - FirstFree + 1

\* The run's codes number lo + 1 to hi that are written with width w.
OfWidth(n, w) ==
    LET lo == IF w = InitBits THEN 0 ELSE UpTo(w - 1)
        hi == IF w = maxbits \/ n < UpTo(w) THEN n ELSE UpTo(w)
    IN  IF hi > lo THEN hi - lo ELSE 0

GroupsOf(n) == (n + ByteBits - 1) \div ByteBits

\* Bits of a run of n codes: whole groups of every width that a wider code follows,
\* and of the last one too if the run has ended.
RunBits(n, ended) ==
    LET bits[w \in InitBits..maxbits] ==
            LET k == OfWidth(n, w)
                full == ended \/ (w < maxbits /\ n > UpTo(w))
            IN  (IF full THEN GroupsOf(k) * ByteBits ELSE k) * w
                + IF w = InitBits THEN 0 ELSE bits[w - 1]
    IN  bits[maxbits]

\* CLEAR ends a run, and the literal that begins the next one has to follow.
ReadClear ==
    /\ stage = "codes" /\ Readable(bitpos, width) /\ blockMode
    /\ boundary' = AlignToGroup(bitpos + width, width, boundary)
    /\ free' = CLEAR + 1
    /\ width' = InitBits
    /\ start' = start + RunBits(count + 1, TRUE)
    /\ IF ~Readable(boundary', InitBits)
       THEN stage' = "refused" /\ bitpos' = boundary' /\ count' = 0 /\ UNCHANGED sound
       ELSE \E literal \in 0..2^InitBits - 1 :
                /\ bitpos' = boundary' + InitBits
                /\ stage' = IF literal >= CLEAR THEN "refused" ELSE "codes"
                /\ count' = 1 /\ sound' = (sound /\ literal < CLEAR)
    /\ UNCHANGED <<archiveVars, cut>>

\* validate_terminal_padding; zeros tells whether the bits left over are zero, inCode
\* whether the writer put them there as the beginning of another code.
FinishScan ==
    /\ stage = "codes" /\ ~Readable(bitpos, width)
    /\ \E zeros, inCode \in BOOLEAN :
        /\ total <= bitpos => zeros /\ ~inCode
        /\ Verdict(IF total < bitpos \/ total - bitpos > ByteBits - 1 \/ ~zeros
                   THEN "refused" ELSE "accepted")
        /\ sound' = (sound /\ zeros)
        /\ cut' = inCode
    /\ UNCHANGED <<count, start>>

CompressNext == ReadHeader \/ ReadFirst \/ ReadCode \/ ReadClear \/ FinishScan

CompressSpec == CompressInit /\ [][CompressNext]_scanVars

-----------------------------------------------------------------------------
CompressTypeOK ==
    /\ blockMode \in BOOLEAN /\ sound \in BOOLEAN /\ cut \in BOOLEAN
    /\ {maxbits, total, bitpos, width, boundary, free, count, start} \subseteq Nat
    /\ width \in InitBits..MaxMaxBits
    /\ stage \in {"header", "first", "codes", "accepted", "refused"}

\* Every code of the run's last width is there: the next one would be wider.
FillsWidth(n) == \E w \in InitBits..maxbits - 1 : n = UpTo(w)

\* Where an archive with these codes ends.  After a full width there are two ways:
\* the writer pads at once, or only when a wider code follows.
Ends == {start + RunBits(count, FALSE)} \union
            (IF FillsWidth(count) THEN {start + RunBits(count, TRUE)} ELSE {})

\* The archive holds whole codes that name something, placed as the reference
\* places them, and then less than a byte of zeros; or it stands for an empty file.
Complete ==
    \/ header = "empty"
    \/ /\ header = "complete" /\ maxbits \in InitBits..MaxMaxBits
       /\ \/ total = 0
          \/ /\ sound /\ count > 0
             /\ \E end \in Ends : end <= total /\ total - end < ByteBits

\* A width of 2^w codes less a few is not whole groups without block mode: an
\* archive whose last code fills its width may end before the padding.
Unpadded == ~blockMode /\ FillsWidth(count) /\ total < start + RunBits(count, TRUE)

\* Whichever widths, resets and group boundaries came before its end, an archive is
\* accepted exactly if it is complete, except that one without block mode that ends
\* unpadded at a change of width is refused (unix_compress.rs:131 aligns as soon as
\* the width grows).  Zero bits left over count as padding, even where they are the
\* beginning of a code: see CutIsNoticed.
ScanJudgesArchives ==
    stage \in {"accepted", "refused"} => (stage = "accepted" <=> Complete /\ ~Unpadded)

\* "so an incomplete terminal code cannot be mistaken for a successful end of
\* stream" (unix_compress.rs:6): no archive that was cut off inside a code is
\* accepted (unix_compress.rs:69).
CutIsNoticed == stage = "accepted" => ~cut
=============================================================================
