-------------------------------- MODULE Closets --------------------------------
(***************************************************************************)
(* The pointer lines a mined source gets, and their packing into closets.  *)
(* Topics and quotes are what the patterns found, with their lengths; a    *)
(* step of the packing is one line.                                        *)
(***************************************************************************)
EXTENDS Integers, Sequences, SequencesExt, FiniteSetsExt

CONSTANTS
    Topics, Quotes,  \* sequences the patterns may have found
    Length,          \* length of a line by topic or quote
    Fallback,        \* the line of a source without any
    TopicLimit, QuoteLimit, CharLimit

Line == DOMAIN Length
Assumptions ==
    /\ Length \in [Line -> Nat] /\ Fallback \in Line
    /\ Topics \subseteq Seq(Line) /\ Quotes \subseteq Seq(Line)
    /\ TopicLimit \in Nat /\ QuoteLimit \in Nat /\ CharLimit \in Nat

VARIABLES pointers, next, docs, cur, chars

vars == <<pointers, next, docs, cur, chars>>

First(seq, n) == SubSeq(seq, 1, Min({n, Len(seq)}))

(* Topics once each, in the order first found, then quotes as they are; a  *)
(* source without either is still pointed to.                              *)
Distinct(seq) ==
    LET d[n \in 0..Len(seq)] ==
            IF n = 0 THEN <<>>
            ELSE IF seq[n] \in ToSet(d[n - 1]) THEN d[n - 1] ELSE Append(d[n - 1], seq[n])
    IN  d[Len(seq)]

BuildClosetLines(topics, quotes) ==
    LET lines == First(Distinct(topics), TopicLimit) \o First(quotes, QuoteLimit)
    IN  IF lines = <<>> THEN <<Fallback>> ELSE lines

Init ==
    /\ \E t \in Topics, q \in Quotes : pointers = BuildClosetLines(t, q)
    /\ next = 1 /\ docs = <<>> /\ cur = <<>> /\ chars = 0

Width(line) == Length[line] + 1

FullBefore(line) == chars > CharLimit

(* A line that does not fit begins a closet, unless the closet is empty.   *)
Full(line) == chars > 0 /\ chars + Width(line) > CharLimit

PackLine ==
    /\ next <= Len(pointers)
    /\ LET line == pointers[next] IN
       IF Full(line)
       THEN docs' = Append(docs, cur) /\ cur' = <<line>> /\ chars' = Width(line)
       ELSE docs' = docs /\ cur' = Append(cur, line) /\ chars' = chars + Width(line)
    /\ next' = next + 1
    /\ UNCHANGED pointers

LastFlush ==
    /\ next = Len(pointers) + 1 /\ cur # <<>>
    /\ docs' = Append(docs, cur) /\ cur' = <<>> /\ chars' = 0
    /\ UNCHANGED <<pointers, next>>

Next == PackLine \/ LastFlush

Spec == Init /\ [][Next]_vars

-----------------------------------------------------------------------------
Size(doc) ==
    LET s[n \in 0..Len(doc)] == IF n = 0 THEN 0 ELSE s[n - 1] + Width(doc[n])
    IN  s[Len(doc)]

TypeOK == next \in 1..(Len(pointers) + 1) /\ chars = Size(cur)

(* Every line is in one closet, whole and in its order; a closet is within *)
(* the limit, or one line that alone is over it; and no closet could have  *)
(* taken the first line of the one after it (closet.go:127-131).           *)
PackedTightly ==
    next = Len(pointers) + 1 /\ cur = <<>> =>
      /\ FlattenSeq(docs) = pointers
      /\ \A i \in DOMAIN docs : docs[i] # <<>> /\ (Size(docs[i]) <= CharLimit \/ Len(docs[i]) = 1)
      /\ \A i \in 1..(Len(docs) - 1) : Size(docs[i]) + Width(Head(docs[i + 1])) > CharLimit
=============================================================================
