------------------------------- MODULE Chunking -------------------------------
(***************************************************************************)
(* How a text becomes drawers.  Three loops cut it: add_drawer in windows  *)
(* that overlap and are trimmed, mining at paragraphs and lines near the   *)
(* end of a window, the diary in strides that keep every character.  A     *)
(* text is a sequence of "x", blanks and newlines, a chunk the sequence of *)
(* the positions it holds; a step is one turn of the loop.                 *)
(***************************************************************************)
EXTENDS Integers, Sequences, SequencesExt, FiniteSetsExt

CONSTANTS
    Texts,           \* texts to be cut
    Cutters,         \* some of "window", "mine", "diary"
    Sizings          \* records of size, overlap and min to be tried

(* The chunk sizes of the program are 1600, 320 and 50: half a window is   *)
(* more than the overlap, without which mining need not advance.           *)
ASSUME SizingsAssumption ==
    \A z \in Sizings : z.size \in Nat \ {0} /\ z.overlap \in Nat /\ z.min \in Nat \ {0} /\ 2 * z.overlap <= z.size

Char == {"x", " ", "\n"}
ASSUME TextsAssumption == \A t \in Texts : t \in Seq(Char)

VARIABLES text, cutter, sizing, start, chunks, done

vars == <<text, cutter, sizing, start, chunks, done>>

Ink(t, p) == p # 0 /\ t[p] = "x"

(* strings.TrimSpace, of a sequence of positions in t.                     *)
Trim(t, s) ==
    LET ink == {i \in DOMAIN s : Ink(t, s[i])}
    IN  IF ink = {} THEN <<>> ELSE SubSeq(s, Min(ink), Max(ink))

Positions(a, b) == [i \in 1..(b - a) |-> a + i]
Stripped(t) == LET s == Trim(t, Positions(0, Len(t))) IN [i \in DOMAIN s |-> t[s[i]]]

Init ==
    /\ cutter \in Cutters /\ sizing \in Sizings
    /\ \E t \in Texts : text = IF cutter = "diary" THEN t ELSE Stripped(t)
    /\ start = 0 /\ chunks = <<>> /\ done = (text = <<>>)

N == Len(text)
Window == Min({start + sizing.size, N})
Piece(end) == Trim(text, Positions(start, end))
Chunk(content, end) ==
    LET lines(p) == 1 + Cardinality({q \in 1..p : text[q] = "\n"})
    IN  [content |-> content, index |-> Len(chunks), first |-> lines(start), last |-> lines(end)]

(* A remnant under the floor joins the chunk before it.                    *)
Folds == Window = N /\ Window - start < sizing.min /\ chunks # <<>>

Append1(content, end) ==
    chunks' = IF content # <<>> THEN Append(chunks, Chunk(content, end)) ELSE chunks

AddWindow ==
    /\ cutter = "window" /\ ~done
    /\ IF N <= sizing.size THEN Append1(Positions(0, N), N)
       ELSE IF Folds
       THEN chunks' = [chunks EXCEPT ![Len(chunks)].content =
                          Trim(text, @ \o <<0>> \o Piece(N)), ![Len(chunks)].last = Chunk(<<>>, N).last]
       ELSE Append1(Piece(Window), Window)
    /\ start' = start + sizing.size - sizing.overlap
    /\ done' = (Window = N)
    /\ UNCHANGED <<text, cutter, sizing>>

BreaksAnywhere(k) ==
    {p \in start..(Window - k) : \A i \in 1..k : text[p + i] = "\n"}

(* Where k newlines begin, in the back half of the window.                 *)
Breaks(k) ==
    {p \in (start + sizing.size \div 2 + 1)..(Window - k) : \A i \in 1..k : text[p + i] = "\n"}

MineEnd ==
    IF Window = N THEN N
    ELSE IF Breaks(2) # {} THEN Max(Breaks(2))
    ELSE IF Breaks(1) # {} THEN Max(Breaks(1)) ELSE Window

SkipBreak == IF MineEnd < N THEN MineEnd + 1 ELSE N

(* The next window begins within the last one.                             *)
StepBack == IF MineEnd < N THEN MineEnd - sizing.overlap ELSE N

MineWindow ==
    /\ cutter = "mine" /\ ~done
    /\ LET piece == Piece(MineEnd) IN
       chunks' = IF Len(piece) >= sizing.min THEN Append(chunks, Chunk(piece, MineEnd)) ELSE chunks
    /\ start' = StepBack
    /\ done' = (MineEnd = N)
    /\ UNCHANGED <<text, cutter, sizing>>

DiaryStride ==
    /\ cutter = "diary" /\ ~done
    /\ chunks' = Append(chunks, Chunk(Positions(start, Window), Window))
    /\ start' = start + sizing.size
    /\ done' = (Window = N)
    /\ UNCHANGED <<text, cutter, sizing>>

Next == AddWindow \/ MineWindow \/ DiaryStride

Spec == Init /\ [][Next]_vars

-----------------------------------------------------------------------------
TypeOK ==
    /\ start \in Nat
    /\ \A i \in DOMAIN chunks : chunks[i].index = i - 1 /\ chunks[i].content \in Seq(0..N)

Held == UNION {ToSet(chunks[i].content) : i \in DOMAIN chunks}

(* Characters in a run of at least n that are no blanks.                   *)
InRun(n) ==
    UNION {a..(a + n - 1) : a \in {b \in 1..(N - n + 1) : \A p \in b..(b + n - 1) : Ink(text, p)}}

(* Cutting loses nothing that counts: all characters of a filed text but   *)
(* blanks at an edge, all runs of a mined one that reach the floor (it has *)
(* to be within the overlap), and of a diary entry every character in its  *)
(* order.  A mined chunk is within the lines it names, and its characters  *)
(* are next to each other (chunk.go:31-38, 81-91, minechunk.go:34-42).     *)
NothingLost ==
    done =>
      /\ cutter = "window" => InRun(1) \subseteq Held
      /\ cutter = "mine" /\ sizing.min <= sizing.overlap + 1 => InRun(Max({1, sizing.min})) \subseteq Held
      /\ cutter = "diary" =>
            FlattenSeq([i \in DOMAIN chunks |-> chunks[i].content]) = Positions(0, N)
      /\ cutter = "mine" => \A i \in DOMAIN chunks :
            LET c == chunks[i] IN
            /\ c.content = Positions(Head(c.content) - 1, Last(c.content))
            /\ c.first <= 1 + Cardinality({q \in 1..(Head(c.content) - 1) : text[q] = "\n"})
            /\ c.last >= 1 + Cardinality({q \in 1..Last(c.content) : text[q] = "\n"})

(* Every turn of the loop is further in the text, also when a break ends a *)
(* window early: half a window is more than the overlap                    *)
(* (minechunk.go:52-53, chunk.go:31-32).                                   *)
Advances == [][start' > start]_vars
=============================================================================
