-------------------------------- MODULE Search --------------------------------
(***************************************************************************)
(* One search of a team's memory, while drawers are moved and forgotten.   *)
(* The nearest vectors are fetched, their rows read later, and what is     *)
(* left is ordered by a blend of nearness, words in common and the         *)
(* closets of the drawer's source; a reranker, if there is one and if it   *)
(* answers, has the last word on the best of them.  Scores are whole       *)
(* numbers, and what a word weighs falls by one for each candidate that    *)
(* has it, where the program takes a logarithm.                            *)
(***************************************************************************)
EXTENDS Integers, FiniteSets, Sequences, SequencesExt, FiniteSetsExt

CONSTANTS
    Drawer, Word, Wings, Sources,
    Query,           \* the words searched for, each once
    Memories,        \* memories to start from, by drawer: how often it has a word,
                     \* its length in words, its source and its nearness in tenths
    Unit,            \* what a word counts in a text is rounded to 1/Unit
    ClosetLists,     \* what the closet index may answer, nearest first
    Asked,           \* limits asked for
    DefaultLimit, MaxLimit,
    Multiplier,      \* hybridCandidateMultiplier
    FilterPool,      \* searchCandidatePool
    RankBoosts,      \* closetRankBoosts in hundredths, a decreasing sequence
    Rerankers,       \* sizes of the reranker's pool, 0 without a reranker
    Batch,           \* texts of a rerank request
    Far,             \* the least nearness that still passes max_distance
    MaxTouched,      \* drawers others may move or delete meanwhile
    None             \* no wing asked for, and no row

(* What a search starts from, and what the program fixes for it.           *)
Assumptions ==
    /\ IsFiniteSet(Drawer) /\ None \notin Wings
    /\ Query \in Seq(Word) /\ RankBoosts \in Seq(Nat)
    /\ \A m \in Memories : /\ m.count \in [Drawer -> [Word -> Nat]]
                           /\ m.length \in [Drawer -> Nat]
                           /\ m.source \in [Drawer -> Sources]
                           /\ m.near \in [Drawer -> Int]
    /\ \A closets \in ClosetLists : closets \in Seq([row : BOOLEAN, source : Sources, near : BOOLEAN])
    /\ Asked \subseteq Int /\ Rerankers \subseteq Nat
    /\ DefaultLimit \in Nat \ {0} /\ MaxLimit \in Nat \ {0} /\ Batch \in Nat \ {0}
    /\ Unit \in Nat /\ Multiplier \in Nat /\ FilterPool \in Nat /\ Far \in Int /\ MaxTouched \in Nat

VARIABLES
    memory,          \* one of Memories, fixed
    row, vector,     \* row[d]: the wing of the drawer's row, None without one
    touched,         \* drawers moved or deleted since, a history
    ask,             \* wing, limit and reranker of the search
    stage,
    hits, survivors, boosts, ranked, scores, reranked, answer

vars == <<memory, row, vector, touched, ask, stage, hits, survivors, boosts, ranked,
          scores, reranked, answer>>
search == <<stage, hits, survivors, boosts, ranked, scores, reranked, answer>>

Near(d) == memory.near[d]
SourceOf(d) == memory.source[d]

Clamp(n) == IF n <= 0 THEN DefaultLimit ELSE Min({n, MaxLimit})

Init ==
    /\ memory \in Memories
    /\ row \in [Drawer -> Wings] /\ vector = Drawer /\ touched = {}
    /\ ask \in [wing : Wings \cup {None}, limit : {Clamp(n) : n \in Asked}, pool : Rerankers]
    /\ stage = "asked"
    /\ hits = <<>> /\ survivors = <<>> /\ boosts = [s \in Sources |-> 0]
    /\ ranked = <<>> /\ scores = <<>> /\ reranked = FALSE /\ answer = <<>>

CandidateUnfiltered == Max({ask.limit * Multiplier, ask.pool})

(* The page, the reranker and a filter each ask for room in the pool.      *)
CandidateK ==
    Max({ask.limit * Multiplier, ask.pool, IF ask.wing # None THEN FilterPool ELSE 0})

(* The store's search: the k nearest vectors, best first, ties in any order.*)
Nearest(k) ==
    {s \in [1..Min({k, Cardinality(vector)}) -> vector] :
        /\ IsInjective(s)
        /\ \A i \in DOMAIN s : \A d \in vector \ {s[j] : j \in 1..i} : Near(s[i]) >= Near(d)}

Retrieve ==
    /\ stage = "asked"
    /\ hits' \in Nearest(CandidateK)
    /\ stage' = "found"
    /\ UNCHANGED <<memory, row, vector, touched, ask, survivors, boosts, ranked, scores, reranked, answer>>

(* GetMany answers with the rows there are; they are held against the      *)
(* filters as they are now.                                                *)
Kept(d) == row[d] # None /\ ask.wing \in {None, row[d]} /\ Near(d) >= Far

Survivors ==
    LET left[n \in 0..Len(hits)] ==
          IF n = 0 THEN <<>>
          ELSE IF Kept(hits[n]) THEN Append(left[n - 1], hits[n]) ELSE left[n - 1]
    IN  left[Len(hits)]

Resolve ==
    /\ stage = "found"
    /\ survivors' = Survivors
    /\ stage' = "resolved"
    /\ UNCHANGED <<memory, row, vector, touched, ask, hits, boosts, ranked, scores, reranked, answer>>

(* The first closet of a source decides its boost: none if its row is gone,*)
(* and none if it is too far.  A failed search of closets boosts nothing.  *)
ClosetBoost(closets, source) ==
    LET of == {i \in 1..Min({Len(closets), Len(RankBoosts)}) :
                  closets[i].row /\ closets[i].source = source}
    IN  IF of # {} /\ closets[Min(of)].near THEN RankBoosts[Min(of)] ELSE 0

BoostSources ==
    /\ stage = "resolved"
    /\ \E closets \in ClosetLists :
          boosts' = [s \in Sources |-> ClosetBoost(closets, s)]
    /\ stage' = "boosted"
    /\ UNCHANGED <<memory, row, vector, touched, ask, hits, survivors, ranked, scores, reranked, answer>>

Holding(w) == {d \in ToSet(survivors) : memory.count[d][w] > 0}

IdfSigned(w) == Len(survivors) - 2 * Cardinality(Holding(w))

(* The weight of a word falls with the candidates that have it, and is     *)
(* never negative, even when all of them have it.                          *)
Idf(w) == 1 + Len(survivors) - Cardinality(Holding(w))

Total(s) ==
    LET sum[n \in 0..Len(s)] == IF n = 0 THEN 0 ELSE sum[n - 1] + s[n]
    IN  sum[Len(s)]

(* What a word counts that a text has so often: more each time, by less    *)
(* and less, and the less the longer the text is beside the average of the *)
(* candidates, all the words of which there are.  BM25 with its k1 = 3/2   *)
(* and b = 3/4, both sides of the fraction multiplied by eight times all.  *)
Saturation(often, length, all) ==
    IF all = 0 THEN 0
    ELSE (20 * Unit * often * all) \div (8 * often * all + 3 * all + 9 * length * Len(survivors))

Words == Total([i \in DOMAIN survivors |-> memory.length[survivors[i]]])
Raw(d) ==
    Total([i \in DOMAIN Query |->
              Idf(Query[i]) * Saturation(memory.count[d][Query[i]], memory.length[d], Words)])
MaxRaw == Max({0} \cup {Raw(d) : d \in ToSet(survivors)})

(* Fused, in hundredths and with the share of the best kept exact by       *)
(* multiplying all of it by the best.                                      *)
Scale == IF MaxRaw > 0 THEN MaxRaw ELSE 1
Similarity(d) == IF Near(d) > 0 THEN Near(d) ELSE 0
Fused(d) == Scale * (6 * Similarity(d) + boosts[SourceOf(d)])
              + (IF MaxRaw > 0 THEN 40 * Raw(d) ELSE 0)

(* sort.SliceStable, highest key first; keys are given by position.        *)
Ahead(key, i, j) == key[i] > key[j] \/ (key[i] = key[j] /\ i < j)
Sorted(seq, key) ==
    LET place(i) == 1 + Cardinality({j \in DOMAIN seq : Ahead(key, j, i)})
    IN  [k \in DOMAIN seq |-> seq[CHOOSE i \in DOMAIN seq : place(i) = k]]

(* Each candidate is given its score, and then they are put in order.      *)
RankHybrid ==
    /\ stage = "boosted"
    /\ \E blend \in {[i \in DOMAIN survivors |-> Fused(survivors[i])]} :
          ranked' = Sorted(survivors, blend)
    /\ stage' = "ranked"
    /\ UNCHANGED <<memory, row, vector, touched, ask, hits, survivors, boosts, scores, reranked, answer>>

Pool == Min({ask.pool, Len(ranked)})

(* A batch of texts is scored, one score for each.                         *)
RerankBatch ==
    /\ stage = "ranked" /\ Len(scores) < Pool
    /\ \E batch \in [1..Min({Batch, Pool - Len(scores)}) -> 1..2] : scores' = scores \o batch
    /\ UNCHANGED <<memory, row, vector, touched, ask, stage, hits, survivors, boosts, ranked, reranked, answer>>

Page(seq) == SubSeq(seq, 1, Min({ask.limit, Len(seq)}))

Reorder(n) == Sorted(SubSeq(ranked, 1, n), scores)
              \o SubSeq(ranked, n + 1, Len(ranked))

(* All scored: the head is put in the order of its scores.                 *)
ApplyRerank ==
    /\ stage = "ranked" /\ Pool > 0 /\ Len(scores) = Pool
    /\ reranked' = TRUE /\ answer' = Page(Reorder(Pool)) /\ stage' = "answered"
    /\ UNCHANGED <<memory, row, vector, touched, ask, hits, survivors, boosts, ranked, scores>>

(* No reranker, nothing to score, or a batch that failed or that came back *)
(* with a wrong number or index of scores: the order stands as it is.      *)
FailOpen ==
    /\ stage = "ranked" /\ (Pool = 0 \/ Len(scores) < Pool)
    /\ answer' = Page(ranked) /\ stage' = "answered"
    /\ UNCHANGED <<memory, row, vector, touched, ask, hits, survivors, boosts, ranked, scores, reranked>>

(* Others work on the same memory: a drawer is moved, or deleted, its row  *)
(* before its vector.                                                      *)
Move(d) ==
    /\ row[d] # None
    /\ \E w \in Wings \ {row[d]} : row' = [row EXCEPT ![d] = w]
    /\ UNCHANGED vector

DeleteRow(d) ==
    /\ row[d] # None /\ row' = [row EXCEPT ![d] = None]
    /\ UNCHANGED vector

DeleteVector(d) ==
    /\ row[d] = None /\ d \in vector /\ vector' = vector \ {d}
    /\ UNCHANGED row

Other(d) ==
    /\ stage \in {"asked", "found"} /\ Cardinality(touched \cup {d}) <= MaxTouched
    /\ Move(d) \/ DeleteRow(d) \/ DeleteVector(d)
    /\ touched' = touched \cup {d}
    /\ UNCHANGED <<memory, ask, search>>

Next ==
    \/ Retrieve \/ Resolve \/ BoostSources \/ RankHybrid \/ RerankBatch
    \/ ApplyRerank \/ FailOpen \/ \E d \in Drawer : Other(d)

Spec == Init /\ [][Next]_vars

-----------------------------------------------------------------------------
TypeOK ==
    /\ row \in [Drawer -> Wings \cup {None}] /\ vector \subseteq Drawer
    /\ ToSet(survivors) \subseteq ToSet(hits) /\ ToSet(ranked) \subseteq ToSet(survivors)
    /\ boosts \in [Sources -> {0} \cup ToSet(RankBoosts)]
    /\ Len(scores) <= Pool /\ Len(answer) <= ask.limit

Position(seq, d) == CHOOSE i \in DOMAIN seq : seq[i] = d

Dominates(d, e) ==
    /\ Near(d) >= Near(e)
    /\ \A w \in ToSet(Query) : memory.count[d][w] >= memory.count[e][w]
    /\ memory.length[d] <= memory.length[e]
    /\ boosts[SourceOf(d)] >= boosts[SourceOf(e)]
    /\ Position(survivors, d) < Position(survivors, e)

(* Without a complete rerank a drawer that is as near, has each word as    *)
(* often in no longer a text and is boosted as much as another, and was    *)
(* found before it, is never below it, nor left out for it: a word all     *)
(* candidates have cannot count against one, and ties keep the vector      *)
(* order (rank.go:57-63, 155-157).  After one, what was not scored is      *)
(* below all that was, and equal scores keep that order                    *)
(* (service.go:559-563).                                                   *)
RankingIsFair ==
    stage = "answered" =>
      /\ Len(answer) = Min({ask.limit, Len(survivors)}) /\ IsInjective(answer)
      /\ ~reranked => \A d, e \in ToSet(survivors) :
            Dominates(d, e) /\ e \in ToSet(answer) =>
               d \in ToSet(answer) /\ Position(answer, d) < Position(answer, e)
      /\ reranked => \A i, j \in DOMAIN ranked :
            /\ ranked[j] \in ToSet(answer) /\ i <= Pool
            /\ j > Pool \/ Ahead(scores, i, j)
            => ranked[i] \in ToSet(answer)
               /\ Position(answer, ranked[i]) < Position(answer, ranked[j])

(* With a pool of all the vectors, a drawer of the wing that nobody touched*)
(* meanwhile and that is near enough is among those ranked, and a page is  *)
(* short only if there are no more of them, whatever was deleted or moved  *)
(* between the index and the rows (service.go:468-474).                    *)
FilterFindsAll ==
    stage = "answered" /\ ask.wing # None /\ FilterPool >= Cardinality(Drawer) =>
      \A d \in Drawer \ touched :
         row[d] = ask.wing /\ Near(d) >= Far =>
            d \in ToSet(survivors) /\ (d \in ToSet(answer) \/ Len(answer) = ask.limit)

(* Whatever was moved or deleted between the vectors' answer and the rows, *)
(* every drawer of the page has a row, of the wing asked for and near      *)
(* enough: as the rows were when they were loaded, which nobody changes    *)
(* here afterwards because they are not read again (service.go:495-519).   *)
AnswersAsAsked == stage = "answered" => \A d \in ToSet(answer) : Kept(d)
=============================================================================
