----------------------------- MODULE ChunkSplit -----------------------------
(***************************************************************************)
(* chunk.Split of mygrep (L4.2): the input text is normalised, cut into    *)
(* lines and dealt out to n chunks, and each chunk travels as text that    *)
(* the server cuts into lines again.                                       *)
(***************************************************************************)
EXTENDS LineText, Sorting

CONSTANTS
    MaxLen,     \* bound: length of the text
    MaxN        \* bound: n

Texts == BoundedSeq(Chars, MaxLen)
Chunk == [startLine : 1..(MaxLen + 1), data : Texts]

VARIABLES
    text, n,            \* the arguments of Split, n after its default
    lines,              \* the lines of the normalised text
    splitPc,
    start, startLine,   \* the cut position and the line number of the next chunk
    chunks

splitVars == <<text, n, lines, splitPc, start, startLine, chunks>>

-----------------------------------------------------------------------------
SplitTypeOK ==
    /\ text \in Texts /\ n \in 1..Max({1, MaxN})
    /\ lines \in Seq(Texts)
    /\ splitPc \in {"prepare", "deal", "done"}
    /\ start \in 0..Len(lines) /\ startLine \in 1..(Len(lines) + 1)
    /\ chunks \in Seq(Chunk) /\ Len(chunks) <= n

SplitInit ==
    /\ text \in Texts
    /\ n \in {IF k <= 0 THEN 1 ELSE k : k \in 0..MaxN}
    /\ lines = <<>> /\ splitPc = "prepare"
    /\ start = 0 /\ startLine = 1 /\ chunks = <<>>

Prepare ==
    /\ splitPc = "prepare"
    /\ lines' = LinesOf(Trim(Normalize(text)))
    /\ splitPc' = "deal"
    /\ UNCHANGED <<text, n, start, startLine, chunks>>

NoLines ==
    /\ splitPc = "deal" /\ lines = <<>>
    /\ chunks' = [k \in 1..n |-> [startLine |-> 1, data |-> <<>>]]
    /\ splitPc' = "done"
    /\ UNCHANGED <<text, n, lines, start, startLine>>

\* The first Len(lines) % n chunks take one line more.
Size(i) ==
    Len(lines) \div n + (IF i < Len(lines) % n THEN 1 ELSE 0)

\* Mutant: the line number lags one chunk behind.
DealStaleNumber ==
    /\ splitPc = "deal" /\ lines # <<>> /\ Len(chunks) < n
    /\ LET size == Size(Len(chunks)) IN
       /\ chunks' = Append(chunks,
                       [startLine |-> startLine,
                        data |-> Join(SubSeq(lines, start + 1, start + size))])
       /\ start' = start + size
       /\ startLine' = start + 1
    /\ UNCHANGED <<text, n, lines, splitPc>>

\* Mutant: a final line end is counted as a line of every chunk.
DealCountsEnd ==
    /\ splitPc = "deal" /\ lines # <<>> /\ Len(chunks) < n
    /\ LET size == Size(Len(chunks)) IN
       /\ chunks' = Append(chunks,
                       [startLine |-> startLine,
                        data |-> Join(SubSeq(lines, start + 1, start + size))])
       /\ start' = start + size
       /\ startLine' = startLine + size + 1
    /\ UNCHANGED <<text, n, lines, splitPc>>

\* One turn of the loop.
DealChunk ==
    /\ splitPc = "deal" /\ lines # <<>> /\ Len(chunks) < n
    /\ LET size == Size(Len(chunks)) IN
       /\ chunks' = Append(chunks,
                       [startLine |-> startLine,
                        data |-> Join(SubSeq(lines, start + 1, start + size))])
       /\ start' = start + size
       /\ startLine' = startLine + size
    /\ UNCHANGED <<text, n, lines, splitPc>>

SplitReturn ==
    /\ splitPc = "deal" /\ Len(chunks) = n
    /\ splitPc' = "done"
    /\ UNCHANGED <<text, n, lines, start, startLine, chunks>>

SplitEnded == splitPc = "done" /\ UNCHANGED splitVars

SplitNext == Prepare \/ NoLines \/ DealChunk \/ SplitReturn \/ SplitEnded
SplitSpec == SplitInit /\ [][SplitNext]_splitVars
-----------------------------------------------------------------------------
(* Properties.                                                              *)

SplitDone == splitPc = "done"

\* The lines a chunk stands for, by the line numbers it and the next one carry.
Lines(k) ==
    IF lines = <<>> THEN <<>>
    ELSE SubSeq(lines, chunks[k].startLine,
                IF k < n THEN chunks[k + 1].startLine - 1 ELSE Len(lines))

\* The text comes back when the chunks that have lines are put together: no
\* character is lost, doubled or moved at a cut, and the text differs from the
\* normalised input at most by its final line end.
LosesNothing ==
    SplitDone =>
        LET full == Ascending({k \in 1..n : Lines(k) # <<>>})
            back == Join([j \in DOMAIN full |-> chunks[full[j]].data])
        IN  Normalize(text) \in {back, back \o <<LF>>}

\* grep's view of the text: its lines are what stands before each line end, and
\* what stands after the last one if that is not empty.
GrepLines(t) ==
    IF t = <<>> THEN <<>> ELSE Cut(IF Last(t) = LF THEN Front(t) ELSE t)

\* Every line of a chunk that is not one empty line reaches the server under
\* the number it has in the input (StartLine plus its index), and an empty
\* chunk gives no line.  A lone carriage return before a line end is the one
\* character the second normalisation may still take.
KeepsNumbers ==
    SplitDone => \A k \in 1..n :
        LET seen == ServerLines(chunks[k].data)
            file == GrepLines(Normalize(text))
            from == chunks[k].startLine
        IN  Lines(k) # <<<<>>>> =>
                /\ Len(seen) = Len(Lines(k))
                /\ \A j \in DOMAIN seen :
                      file[from + j - 1] \in {seen[j], seen[j] \o <<CR>>}

\* chunk_test.go, TestSplit_PreservesAllLines: putting the lines of the chunks
\* together (a chunk without data has none) gives the lines of the input.
PreservesAllLines ==
    SplitDone => FoldLeft(LAMBDA ls, k : ls \o LinesOf(chunks[k].data),
                     <<>>, [k \in 1..n |-> k])
                = GrepLines(Normalize(text))
=============================================================================
