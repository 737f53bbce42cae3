------------------------------ MODULE Chunking ------------------------------
(***************************************************************************)
(* How the indexing phase cuts a document's elements into chunks           *)
(* (indexing/chunking.py), one loop iteration per action: a heading opens  *)
(* a chunk, a table stands alone, the rest is gathered up to MaxChars, and *)
(* what is longer than that is cut at a line, a sentence or a blank with   *)
(* an overlap.  A character is a break, or a letter.                       *)
(***************************************************************************)
EXTENDS Integers, Sequences, SequencesExt, Functions

CONSTANTS
    Documents,     \* sets of elements [kind, text]: what parsing may have written
    MaxChars, OverlapChars

VARIABLES
    elements,    \* the document in reading order
    index,       \* the element the loop is at
    start,       \* where the next piece of an element that is too long starts; 0: none is cut
    gathered,    \* the elements of the open chunk, first to last; 0: no open chunk
    chunks,      \* what has been emitted
    cuts         \* (ghost) the [start, cut) of every piece, also of those of blanks only

chunkingVars == <<elements, index, start, gathered, chunks, cuts>>

Line == "line"
Blank == "blank"
Plain == "letter"
White == {Line, Blank}
SentenceEnds == {".", "!", "?", ";"}
Characters == White \cup SentenceEnds \cup {Plain}
Kinds == {"heading", "table", "text"}

ASSUME ChunkingAssumption ==
    /\ Documents \subseteq Seq([kind : Kinds, text : Seq(Characters)])
    /\ MaxChars \in Nat \ {0} /\ OverlapChars \in 0 .. MaxChars - 1   \* else chunk_elements raises

NotWhite(c) == c \notin White

\* The first and the last character that text.strip() keeps; 0 when there is none.
FirstInk(t) == SelectInSeq(t, NotWhite)
LastInk(t) == SelectLastInSeq(t, NotWhite)
Strip(t) == SubSeq(t, FirstInk(t), LastInk(t))
IsBlank(t) == FirstInk(t) = 0
Text(i) == Strip(elements[i].text)

NoChunk == [from |-> 0, to |-> 0]

\* char_count: the parts with a character between each two.
PartSize == [i \in DOMAIN elements |-> IF IsBlank(elements[i].text) THEN 0 ELSE Len(Text(i)) + 1]
Size(from, to) == SumFunctionOnSet(PartSize, from .. to) - 1

\* _find_cut: after the last break of the first marker the window has, where a stop needs
\* a blank behind it; a break at the very start does not count.
Markers == <<Line, ".", "!", "?", ";", Blank>>

Breaks(t, from, to, k) ==
    {p \in from + 1 .. to :
        t[p] = Markers[k] /\ (Markers[k] \in SentenceEnds => p < to /\ t[p + 1] = Blank)}

AfterBreak(k) == IF Markers[k] \in SentenceEnds THEN 2 ELSE 1

\* The position after the piece that starts at from; to is the window's last position.
FindCut(t, from, to) ==
    LET found == {k \in DOMAIN Markers : Breaks(t, from, to, k) # {}} IN
    IF found = {} THEN to + 1
    ELSE LET k == CHOOSE k \in found : \A j \in found : k <= j
             p == CHOOSE p \in Breaks(t, from, to, k) : \A x \in Breaks(t, from, to, k) : x <= p
         IN p + AfterBreak(k)

\* The overlap goes back from the cut, but the start always moves on.
NextStart_Forward(at, cut, overlap) == IF cut + overlap > at + 1 THEN cut + overlap ELSE at + 1
NextStart(at, cut, overlap) == IF cut - overlap > at + 1 THEN cut - overlap ELSE at + 1

Overlap(kind) == IF kind = "table" THEN 0 ELSE OverlapChars

-----------------------------------------------------------------------------

ChunkingInit ==
    /\ elements \in Documents
    /\ index = 1 /\ start = 0 /\ gathered = NoChunk /\ chunks = <<>> /\ cuts = {}

\* flush: the open chunk, if there is one, becomes a chunk.
Flushed ==
    IF gathered = NoChunk THEN chunks
    ELSE Append(chunks, [from |-> gathered.from, to |-> gathered.to,
                         chars |-> Size(gathered.from, gathered.to)])

AtElement == index <= Len(elements) /\ start = 0

SkipBlank ==
    /\ AtElement /\ IsBlank(elements[index].text)
    /\ index' = index + 1
    /\ UNCHANGED <<elements, start, gathered, chunks, cuts>>

OpenHeading ==
    /\ AtElement /\ ~IsBlank(elements[index].text) /\ elements[index].kind = "heading"
    /\ chunks' = Flushed
    /\ gathered' = [from |-> index, to |-> index]
    /\ index' = index + 1
    /\ UNCHANGED <<elements, start, cuts>>

Oversized == elements[index].kind = "text" /\ Len(Text(index)) > MaxChars

\* A table, or a text that is too long, is cut on its own.
OpenSplit ==
    /\ AtElement /\ ~IsBlank(elements[index].text)
    /\ elements[index].kind = "table" \/ Oversized
    /\ chunks' = Flushed /\ gathered' = NoChunk
    /\ start' = 1
    /\ UNCHANGED <<elements, index, cuts>>

\* _split_text, one piece.
SplitPiece ==
    LET t == Text(index)
        last == IF start + MaxChars - 1 < Len(t) THEN start + MaxChars - 1 ELSE Len(t)
        cut == IF last < Len(t) THEN FindCut(t, start, last) ELSE last + 1
        piece == SubSeq(t, start, cut - 1)
    IN /\ start > 0
       /\ chunks' = IF IsBlank(piece) THEN chunks
                    ELSE Append(chunks, [from |-> index, to |-> index, chars |-> Len(Strip(piece))])
       /\ cuts' = cuts \cup {[element |-> index, from |-> start, cut |-> cut]}
       /\ IF cut > Len(t)
          THEN start' = 0 /\ index' = index + 1
          ELSE start' = NextStart(start, cut, Overlap(elements[index].kind)) /\ UNCHANGED index
       /\ UNCHANGED <<elements, gathered>>

Gather ==
    LET full == gathered # NoChunk /\ Size(gathered.from, gathered.to) + 1 + Len(Text(index)) > MaxChars IN
    /\ AtElement /\ ~IsBlank(elements[index].text) /\ elements[index].kind = "text" /\ ~Oversized
    /\ chunks' = IF full THEN Flushed ELSE chunks
    /\ gathered' = IF full \/ gathered = NoChunk THEN [from |-> index, to |-> index]
                   ELSE [gathered EXCEPT !.to = index]
    /\ index' = index + 1
    /\ UNCHANGED <<elements, start, cuts>>

FlushLast ==
    /\ index = Len(elements) + 1 /\ gathered # NoChunk
    /\ chunks' = Flushed /\ gathered' = NoChunk
    /\ UNCHANGED <<elements, index, start, cuts>>

ChunkingNext == SkipBlank \/ OpenHeading \/ OpenSplit \/ SplitPiece \/ Gather \/ FlushLast
ChunkingSpec == ChunkingInit /\ [][ChunkingNext]_chunkingVars

-----------------------------------------------------------------------------
\* Every variable keeps its type.
ChunkingTypeOK ==
    /\ index \in 1 .. Len(elements) + 1 /\ start \in Nat
    /\ gathered.from \in 0 .. Len(elements) /\ gathered.to \in gathered.from .. Len(elements)
    /\ \A k \in 1 .. Len(chunks) : chunks[k].from \in 1 .. Len(elements) /\ chunks[k].to \in chunks[k].from .. Len(elements)

Cited(i) == \E k \in 1 .. Len(chunks) : i \in chunks[k].from .. chunks[k].to
Pieces(i) == {c \in cuts : c.element = i}

(***************************************************************************)
(* Nothing of a document is lost, and nothing but a heading makes a chunk  *)
(* too long.  Every element that has text is in a chunk; of one that was   *)
(* cut every character is in a piece; the chunks are in reading order,     *)
(* none has more than MaxChars characters unless it is a heading's, a      *)
(* table shares none and a heading only ever starts one; and the pieces of *)
(* an element are no more than it has characters, no two from the same     *)
(* place, and each begins with no more than OverlapChars of the one before *)
(* it, in a table with none.                                               *)
(***************************************************************************)
ChunksSound ==
    /\ \A i \in 1 .. index - 1 :
          ~IsBlank(elements[i].text) => Cited(i) \/ i \in gathered.from .. gathered.to
    /\ \A i \in 1 .. index - 1 :
          Pieces(i) # {} => \A p \in 1 .. Len(Text(i)) : \E c \in Pieces(i) : p \in c.from .. c.cut - 1
    /\ \A k \in 1 .. Len(chunks) :
          /\ k > 1 => chunks[k - 1].to <= chunks[k].from
          /\ chunks[k].chars > MaxChars =>
                elements[chunks[k].from].kind = "heading" /\ chunks[k].from = chunks[k].to
          /\ \A i \in chunks[k].from .. chunks[k].to :
                \/ IsBlank(elements[i].text)
                \/ /\ elements[i].kind = "table" => chunks[k].from = chunks[k].to
                   /\ elements[i].kind = "heading" => i = chunks[k].from
    /\ \A c \in cuts :
          /\ c.from \in 1 .. Len(Text(c.element)) /\ c.from < c.cut
          /\ \A d \in Pieces(c.element) : d.from = c.from => d = c
          /\ c.cut <= Len(Text(c.element)) =>
                \A d \in Pieces(c.element) :
                    d.from > c.from /\ (\A e \in Pieces(c.element) : e.from > c.from => d.from <= e.from) =>
                        d.from >= c.cut - Overlap(elements[c.element].kind)
=============================================================================
