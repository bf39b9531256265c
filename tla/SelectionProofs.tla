-------------------------- MODULE SelectionProofs --------------------------
(***************************************************************************)
(* Theorems about the two components that select from lists and keep their *)
(* order: Search, for any products, catalogues, depths, limits and         *)
(* injected faults; and Evaluation, for any cases with any prerequisites   *)
(* and faults, any judgements, logs and numbers of samples and runs.       *)
(***************************************************************************)
EXTENDS Search, Evaluation, OrderingProofs

-----------------------------------------------------------------------------
(***************************************************************************)
(* Rankings                                                                *)
(***************************************************************************)

\* The first n of a ranking; of one that is not empty, there is a first.
LEMMA FirstFacts ==
  ASSUME NEW D, NEW ranking \in Seq(D), NEW n \in Nat \ {0}
  PROVE  /\ First(ranking, n) \in Seq(D) /\ Len(First(ranking, n)) <= n
         /\ First(ranking, n) = <<>> => ranking = <<>>
<1>1. CASE Len(ranking) > n
  <2>1. First(ranking, n) = SubSeq(ranking, 1, n)
    BY <1>1 DEF First
  <2>2. \A i \in 1..n : ranking[i] \in D
    BY <1>1
  <2>3. SubSeq(ranking, 1, n) \in Seq(D) /\ Len(SubSeq(ranking, 1, n)) = n
    BY <2>2, SubSeqProperties
  <2> QED BY <2>1, <2>3
<1>2. CASE ~(Len(ranking) > n)
  BY <1>2 DEF First
<1> QED BY <1>1, <1>2

\* An order of a set is as long as the set is large, and one of the sets a
\* ranking can be of is finite.
LEMMA OrdersOf ==
  ASSUME NEW D, NEW S \in SUBSET D, IsFiniteSet(S), NEW s \in SetToSeqs(S)
  PROVE  s \in Seq(D) /\ (s = <<>> => S = {})
<1>1. Cardinality(S) \in Nat
  BY FS_CardinalityType
<1>2. s \in [1..Cardinality(S) -> S]
  BY DEF SetToSeqs
<1>3. s \in Seq(S) /\ Len(s) = Cardinality(S)
  BY <1>1, <1>2
<1>4. s = <<>> => Cardinality(S) = 0
  BY <1>3
<1> QED BY <1>3, <1>4, FS_EmptySet

LEMMA SetOfRanking ==
  ASSUME NEW s \in Seq(Products)
  PROVE  ToSet(s) \in SUBSET Products /\ IsFiniteSet(ToSet(s)) /\ (ToSet(s) = {} => s = <<>>)
<1>1. ToSet(s) \in SUBSET Products
  BY DEF ToSet
<1>2. IsFiniteSet(ToSet(s))
  BY <1>1, FS_Subset, SearchAssumption
<1>3. ASSUME s # <<>> PROVE ToSet(s) # {}
  <2>1. 1 \in DOMAIN s
    BY <1>3
  <2> QED BY <2>1 DEF ToSet
<1> QED BY <1>1, <1>2, <1>3

-----------------------------------------------------------------------------
(***************************************************************************)
(* The vectors                                                             *)
(***************************************************************************)

\* Whatever the cache has, every text gets its own vector, and the cache too.
LEMMA BatchIsTrue ==
  ASSUME NEW texts, NEW n \in Nat, DOMAIN texts = 1..n, NEW vectors,
         \A t \in DOMAIN cache : cache[t] = t, EmbedBatch(texts, vectors)
  PROVE  /\ \A i \in DOMAIN texts : vectors[i] = texts[i]
         /\ DOMAIN cache' \subseteq DOMAIN cache \cup ToSet(texts)
         /\ \A t \in DOMAIN cache' : cache'[t] = t
<1>1. PICK hit \in SUBSET (DOMAIN cache \cap ToSet(texts)) :
        LET pending == Ascending({i \in DOMAIN texts : texts[i] \notin hit})
        IN /\ vectors = Placed(texts, pending, [k \in DOMAIN pending |-> texts[pending[k]]])
           /\ \E kept \in SUBSET ToSet(pending) :
                cache' = [t \in DOMAIN cache \cup {texts[i] : i \in kept} |->
                            IF \E i \in kept : texts[i] = t
                            THEN vectors[CHOOSE i \in kept : texts[i] = t] ELSE cache[t]]
  BY DEF EmbedBatch
<1> DEFINE missed == {i \in DOMAIN texts : texts[i] \notin hit}
           pending == Ascending(missed)
           fresh == [k \in DOMAIN pending |-> texts[pending[k]]]
<1>2. missed \in SUBSET (1..n) /\ missed \in SUBSET Int /\ IsFiniteSet(1..n)
  <2>1. missed \in SUBSET (1..n) /\ missed \in SUBSET Int
    OBVIOUS
  <2> QED BY <2>1, FS_Interval
<1>3. IsFiniteSet(missed)
  BY <1>2, FS_Subset
<1>4. ToSet(pending) = missed
  <2> HIDE DEF missed
  <2> QED BY <1>2, <1>3, AscendingFacts
<1>5. (\A i \in missed : \E k \in DOMAIN pending : pending[k] = i) /\ (\A k \in DOMAIN pending : pending[k] \in missed)
  BY <1>4 DEF ToSet
<1>6. \A i \in DOMAIN texts : vectors[i] = texts[i]
  <2> SUFFICES ASSUME NEW i \in DOMAIN texts PROVE Placed(texts, pending, fresh)[i] = texts[i]
    BY <1>1
  <2>1. CASE i \in missed
    <3> DEFINE k == CHOOSE k \in DOMAIN fresh : pending[k] = i
    <3>1. DOMAIN fresh = DOMAIN pending /\ \E j \in DOMAIN fresh : pending[j] = i
      BY <1>5, <2>1
    <3>2. k \in DOMAIN pending /\ pending[k] = i
      BY <3>1
    <3>3. fresh[k] = texts[i]
      BY <3>2
    <3>4. Placed(texts, pending, fresh)[i] = fresh[k]
      <4> HIDE DEF fresh, pending
      <4> QED BY <3>1 DEF Placed
    <3> QED BY <3>3, <3>4
  <2>2. CASE i \notin missed
    <3>1. texts[i] \in DOMAIN cache
      BY <2>2
    <3>2. ~\E k \in DOMAIN fresh : pending[k] = i
      BY <1>5, <2>2
    <3>3. Placed(texts, pending, fresh)[i] = cache[texts[i]]
      <4> HIDE DEF fresh, pending
      <4> QED BY <3>2 DEF Placed
    <3> QED BY <3>1, <3>3
  <2> QED BY <2>1, <2>2
<1>7. PICK kept \in SUBSET missed :
        cache' = [t \in DOMAIN cache \cup {texts[i] : i \in kept} |->
                    IF \E i \in kept : texts[i] = t
                    THEN vectors[CHOOSE i \in kept : texts[i] = t] ELSE cache[t]]
  BY <1>1, <1>4
<1>8. DOMAIN cache' \subseteq DOMAIN cache \cup ToSet(texts)
  BY <1>7 DEF ToSet
<1>9. ASSUME NEW t \in DOMAIN cache' PROVE cache'[t] = t
  <2>1. t \in DOMAIN cache \/ \E i \in kept : texts[i] = t
    BY <1>7
  <2>2. CASE \E i \in kept : texts[i] = t
    <3> DEFINE j == CHOOSE i \in kept : texts[i] = t
    <3>1. j \in kept /\ texts[j] = t
      BY <2>2
    <3>2. vectors[j] = t
      BY <1>6, <3>1
    <3> HIDE DEF missed
    <3> QED BY <1>7, <2>2, <3>2
  <2>3. CASE ~\E i \in kept : texts[i] = t
    BY <1>7, <2>1, <2>3
  <2> QED BY <2>2, <2>3
<1> QED BY <1>6, <1>8, <1>9

-----------------------------------------------------------------------------
(***************************************************************************)
(* Fusion                                                                  *)
(***************************************************************************)

\* The better the rank, the larger the share.
LEMMA WeightFacts ==
  /\ \A r \in 1..Depth : Weight(r) \in Nat \ {0}
  /\ \A r, q \in 1..Depth : r < q => Weight(r) > Weight(q)
<1>1. /\ Depth \in Nat /\ RrfK \in Nat /\ Unit \in Nat \ {0}
      /\ \A r \in 1..Depth : Unit = (RrfK + r) * Weight(r)
  BY SearchAssumption DEF Weight
<1>2. ASSUME NEW r \in 1..Depth PROVE Weight(r) \in Nat \ {0}
  <2>1. RrfK + r \in Nat \ {0}
    BY <1>1
  <2>2. Weight(r) \in Int
    BY <1>1, <2>1 DEF Weight
  <2> DEFINE d == RrfK + r
             w == Weight(r)
  <2>3. d \in Nat \ {0} /\ w \in Int /\ d * w \in Nat \ {0}
    BY <1>1, <2>1, <2>2
  <2> HIDE DEF d, w
  <2>4. w > 0
    BY <2>3
  <2> QED BY <2>3, <2>4 DEF w
<1>3. ASSUME NEW r \in 1..Depth, NEW q \in 1..Depth, r < q PROVE Weight(r) > Weight(q)
  <2> DEFINE d == RrfK + r
             e == RrfK + q
             v == Weight(r)
             w == Weight(q)
  <2>1. d \in Nat \ {0} /\ e \in Nat \ {0} /\ d < e /\ v \in Nat \ {0} /\ w \in Nat \ {0} /\ d * v = e * w
    BY <1>1, <1>2, <1>3
  <2> HIDE DEF d, e, v, w
  <2>2. ASSUME v <= w PROVE FALSE
    <3>1. d * v <= d * w
      BY <2>1, <2>2
    <3>2. d * w < e * w
      BY <2>1
    <3> QED BY <2>1, <3>1, <3>2
  <2>3. v > w
    BY <2>1, <2>2
  <2> QED BY <2>3 DEF v, w
<1> QED BY <1>2, <1>3

\* In a ranking, who stands behind nobody else does so before the fusion too.
Ahead(p, q, s) == q \in ToSet(s) => p \in ToSet(s) /\ RankIn(p, s) < RankIn(q, s)

LEMMA VoteFacts ==
  ASSUME NEW s \in Seq(Products), Len(s) <= Depth
  PROVE  /\ \A p : Vote(p, s) \in Nat
         /\ \A p, q : Ahead(p, q, s) => Vote(p, s) >= Vote(q, s)
         /\ \A p, q : Ahead(p, q, s) /\ q \in ToSet(s) => Vote(p, s) > Vote(q, s)
<1>1. ASSUME NEW p \in ToSet(s) PROVE RankIn(p, s) \in 1..Depth
  <2>1. \E i \in DOMAIN s : s[i] = p
    BY DEF ToSet
  <2>2. RankIn(p, s) \in DOMAIN s
    BY <2>1 DEF RankIn
  <2>3. Depth \in Nat /\ DOMAIN s = 1..Len(s)
    BY SearchAssumption
  <2> QED BY <2>2, <2>3
<1>2. ASSUME NEW p PROVE Vote(p, s) \in Nat /\ (p \in ToSet(s) => Vote(p, s) = Weight(RankIn(p, s)))
  BY <1>1, WeightFacts DEF Vote
<1>3. ASSUME NEW p, NEW q, Ahead(p, q, s), q \in ToSet(s) PROVE Vote(p, s) > Vote(q, s)
  <2>1. p \in ToSet(s) /\ RankIn(p, s) < RankIn(q, s)
    BY <1>3 DEF Ahead
  <2>2. RankIn(p, s) \in 1..Depth /\ RankIn(q, s) \in 1..Depth
    BY <1>1, <1>3, <2>1
  <2>3. Weight(RankIn(p, s)) > Weight(RankIn(q, s))
    BY <2>1, <2>2, WeightFacts
  <2> QED BY <1>2, <1>3, <2>1, <2>3
<1>4. ASSUME NEW p, NEW q, q \notin ToSet(s) PROVE Vote(p, s) >= Vote(q, s)
  <2>1. Vote(q, s) = 0
    BY <1>4 DEF Vote
  <2> QED BY <1>2, <2>1
<1>5. ASSUME NEW p, NEW q, Ahead(p, q, s) PROVE Vote(p, s) >= Vote(q, s)
  <2>1. Vote(p, s) \in Int /\ Vote(q, s) \in Int
    BY <1>2
  <2> QED BY <1>3, <1>4, <1>5, <2>1
<1> QED BY <1>2, <1>3, <1>5

\* _rrf_fuse loses nothing, and keeps what the rankings agree on.
LEMMA FusionFacts ==
  ASSUME NEW vector \in Seq(Products), NEW words \in Seq(Products),
         Len(vector) <= Depth, Len(words) <= Depth
  PROVE  /\ Fused(vector, words) \in Seq(Products)
         /\ ToSet(Fused(vector, words)) = ToSet(vector) \cup ToSet(words)
         /\ \A p, q \in ToSet(Fused(vector, words)) :
              p # q /\ Ahead(p, q, vector) /\ Ahead(p, q, words) => Ahead(p, q, Fused(vector, words))
<1> DEFINE all == ToSet(vector) \cup ToSet(words)
           score(p) == Vote(p, vector) + Vote(p, words)
           R == {pair \in all \X all :
                   score(pair[1]) > score(pair[2]) \/ (score(pair[1]) = score(pair[2]) /\ pair[1] < pair[2])}
           fused == InOrder(all, R)
<1>1. Fused(vector, words) = fused
  BY DEF Fused
<1>2. all \in SUBSET Products /\ IsFiniteSet(all) /\ Products \subseteq Nat
  <2>1. all \in SUBSET Products
    BY SetOfRanking
  <2> HIDE DEF all
  <2> QED BY <2>1, FS_Subset, SearchAssumption
<1>3. \A p : score(p) \in Nat
  BY VoteFacts
<1>4. \A p, q \in all : <<p, q>> \in R <=> score(p) > score(q) \/ (score(p) = score(q) /\ p < q)
  <2> HIDE DEF all, score
  <2> QED OBVIOUS
<1>5. /\ \A p \in all : <<p, p>> \notin R
      /\ \A p, q, r \in all : <<p, q>> \in R /\ <<q, r>> \in R => <<p, r>> \in R
      /\ \A p, q \in all : p # q => <<p, q>> \in R \/ <<q, p>> \in R
  <2> HIDE DEF all, score, R
  <2>1. \A p \in all : p \in Nat /\ score(p) \in Nat
    BY <1>2, <1>3
  <2>2. \A p \in all : <<p, p>> \notin R
    BY <1>4, <2>1
  <2>3. ASSUME NEW p \in all, NEW q \in all, NEW r \in all, <<p, q>> \in R, <<q, r>> \in R
        PROVE  <<p, r>> \in R
    BY <1>4, <2>1, <2>3
  <2>4. ASSUME NEW p \in all, NEW q \in all, p # q PROVE <<p, q>> \in R \/ <<q, p>> \in R
    BY <1>4, <2>1, <2>4
  <2> QED BY <2>2, <2>3, <2>4
<1>6. /\ fused \in Seq(all) /\ ToSet(fused) = all
      /\ \A i, j \in DOMAIN fused : <<fused[i], fused[j]>> \in R => i < j
  <2> HIDE DEF all, R
  <2> QED BY <1>2, <1>5, OrderFacts
<1>7. ASSUME NEW p \in all, NEW q \in all, Ahead(p, q, vector), Ahead(p, q, words)
      PROVE  Ahead(p, q, fused)
  <2>1. score(p) > score(q)
    <3>1. /\ Vote(p, vector) \in Int /\ Vote(q, vector) \in Int
          /\ Vote(p, words) \in Int /\ Vote(q, words) \in Int
      BY VoteFacts
    <3>2. Vote(p, vector) >= Vote(q, vector) /\ Vote(p, words) >= Vote(q, words)
      BY <1>7, VoteFacts
    <3>3. Vote(p, vector) > Vote(q, vector) \/ Vote(p, words) > Vote(q, words)
      BY <1>7, VoteFacts
    <3> QED BY <3>1, <3>2, <3>3
  <2>2. <<p, q>> \in R
    <3> HIDE DEF all, score, R
    <3> QED BY <1>4, <2>1
  <2>3. /\ RankIn(p, fused) \in DOMAIN fused /\ fused[RankIn(p, fused)] = p
        /\ RankIn(q, fused) \in DOMAIN fused /\ fused[RankIn(q, fused)] = q
    <3> HIDE DEF all, fused
    <3>1. (\E i \in DOMAIN fused : fused[i] = p) /\ (\E i \in DOMAIN fused : fused[i] = q)
      BY <1>6 DEF ToSet
    <3> QED BY <3>1 DEF RankIn
  <2> HIDE DEF all, R, fused
  <2> QED BY <1>6, <2>2, <2>3 DEF Ahead
<1>8. fused \in Seq(Products)
  <2> HIDE DEF all, fused
  <2>1. fused \in Seq(all) /\ all \subseteq Products
    BY <1>2, <1>6
  <2>2. Len(fused) \in Nat /\ fused \in [1..Len(fused) -> all]
    BY <2>1
  <2>3. fused \in [1..Len(fused) -> Products]
    BY <2>1, <2>2
  <2> QED BY <2>2, <2>3
<1> HIDE DEF R, fused
<1> QED BY <1>1, <1>6, <1>7, <1>8

-----------------------------------------------------------------------------
(***************************************************************************)
(* The inductive invariant                                                 *)
(***************************************************************************)

SearchTypeOK ==
  /\ catalog \in Catalogs /\ catalog \in deployed
  /\ lexical \in Seq(Products) /\ scored \in Seq(Products)
  /\ hits \in Seq(Products) /\ filteredOut \in Seq(Products)
  /\ DOMAIN cache \subseteq Texts /\ DOMAIN index \subseteq Products
  /\ reranked \in BOOLEAN

\* What the strategy and the flag say of the rankings.
Named(s) ==
  CASE s \in {"hybrid_rrf", "hybrid_rerank"} -> {"vector", "lexical"}
    [] s \in {"hybrid_gated_vector", "hybrid_gated_rerank", "embedding_only", "embedding_rerank"} -> {"vector"}
    [] s \in {"bm25_only", "bm25_rerank"} -> {"lexical"}
    [] s = "keyword_2gram" -> {"keyword"}

Reranked == {"hybrid_rerank", "hybrid_gated_rerank", "embedding_rerank", "bm25_rerank"}

NamesWhatRanked ==
  /\ reranked = ("rerank" \in ranked)
  /\ ranked \ {"rerank"} = Named(strategy)
  /\ reranked = (strategy \in Reranked)
  /\ strategy \in Reranked \cup {"hybrid_rrf", "hybrid_gated_vector", "embedding_only", "bm25_only", "keyword_2gram"}

LEMMA FirstStageNames ==
  /\ Named("hybrid_rrf") = {"vector", "lexical"}
  /\ Named("hybrid_gated_vector") = {"vector"} /\ Named("embedding_only") = {"vector"}
  /\ Named("bm25_only") = {"lexical"} /\ Named("keyword_2gram") = {"keyword"}
  /\ \A s \in {"hybrid_rrf", "hybrid_gated_vector", "embedding_only", "bm25_only", "keyword_2gram"} : s \notin Reranked
BY DEF Named, Reranked

LEMMA RerankedNames ==
  ASSUME NEW s \in {"hybrid_rrf", "hybrid_gated_vector", "embedding_only", "bm25_only"}
  PROVE  WithRerank(s) \in Reranked /\ Named(WithRerank(s)) = Named(s)
BY DEF Named, Reranked, WithRerank

\* Where a search is: nobody has reranked before there is something to rerank,
\* and candidates nobody ranked are none.
Underway ==
  /\ stage \in {"starting", "ready", "embedding", "searching", "recalled", "reranking", "filtering", "done"}
  /\ stage \in {"embedding", "searching", "recalled"} => ~reranked
  /\ stage = "recalled" =>
       /\ ranked \in {{}, {"lexical"}, {"vector"}, {"vector", "lexical"}}
       /\ ranked = {} => scored = <<>>
  /\ stage = "reranking" =>
       /\ NamesWhatRanked /\ ~reranked /\ scored # <<>>
       /\ strategy \in {"hybrid_rrf", "hybrid_gated_vector", "embedding_only", "bm25_only"}
  /\ stage = "filtering" => NamesWhatRanked /\ (scored = <<>> => lexical = <<>>)
  /\ stage = "done" => NamesWhatRanked /\ EmptyIsExplained

SearchIInv == SearchTypeOK /\ VectorsAreTheirOwn /\ Underway

LEMMA NoneYet == DOMAIN <<>> = {} /\ <<>> \in Seq(Products)
OBVIOUS

\* What a catalogue is.
LEMMA CatalogFacts ==
  ASSUME NEW c \in Catalogs
  PROVE  /\ DOMAIN c \in SUBSET Products /\ IsFiniteSet(DOMAIN c)
         /\ \A p \in DOMAIN c : c[p] \in Texts
<1>1. PICK S \in SUBSET Products : c \in [S -> Texts]
  BY SearchAssumption
<1>2. DOMAIN c \in SUBSET Products /\ \A p \in DOMAIN c : c[p] \in Texts
  BY <1>1
<1> QED BY <1>2, FS_Subset, SearchAssumption

LEMMA SearchInvInit == ASSUME SearchInit PROVE SearchIInv
<1>1. SearchTypeOK
  BY NoneYet DEF SearchInit, SearchTypeOK
<1>2. VectorsAreTheirOwn
  BY NoneYet DEF SearchInit, VectorsAreTheirOwn
<1> QED BY <1>1, <1>2, NoneYet DEF SearchInit, SearchIInv, Underway

\* A text keeps its vector in the index under whatever products have or had it.
\* If the index is not written, it stays as the starts before left it.
LEMMA StartInv ==
  ASSUME SearchIInv, Bootstrap PROVE SearchIInv'
<1> DEFINE ids == Ascending(DOMAIN catalog)
           texts == [i \in DOMAIN ids |-> catalog[ids[i]]]
<1>1. /\ DOMAIN catalog \in SUBSET Products /\ DOMAIN catalog \in SUBSET Int /\ IsFiniteSet(DOMAIN catalog)
      /\ \A p \in DOMAIN catalog : catalog[p] \in Texts
  <2>1. Products \subseteq Int
    BY SearchAssumption
  <2> QED BY <2>1, CatalogFacts DEF SearchIInv, SearchTypeOK
<1>2. /\ UNCHANGED <<catalog, deployed, lexical, scored, resultVars>>
      /\ stage = "starting" /\ stage' = "ready"
  BY DEF Bootstrap
<1>3. /\ DOMAIN cache \subseteq Texts /\ DOMAIN index \subseteq Products /\ catalog \in deployed
      /\ \A t \in DOMAIN cache : cache[t] = t
      /\ \A p \in DOMAIN index : \E c \in deployed : p \in DOMAIN c /\ index[p] = c[p]
      /\ built => \A p \in DOMAIN catalog : p \in DOMAIN index /\ index[p] = catalog[p]
  BY DEF SearchIInv, SearchTypeOK, VectorsAreTheirOwn
<1>4. /\ DOMAIN cache' \subseteq Texts /\ DOMAIN index' \subseteq Products
      /\ VectorsAreTheirOwn'
  <2>1. CASE UNCHANGED indexVars
    BY <1>2, <1>3, <2>1 DEF VectorsAreTheirOwn, indexVars
  <2>2. ASSUME NEW vectors \in [DOMAIN texts -> Texts], EmbedBatch(texts, vectors),
               \/ index' = Upserted(ids, vectors)
               \/ UNCHANGED <<index, built>>
        PROVE  /\ DOMAIN cache' \subseteq Texts /\ DOMAIN index' \subseteq Products
               /\ VectorsAreTheirOwn'
    <3>1. ids \in Seq(DOMAIN catalog) /\ ToSet(ids) = DOMAIN catalog
      BY <1>1, AscendingFacts
    <3> HIDE DEF ids
    <3>2. Len(ids) \in Nat /\ DOMAIN ids = 1..Len(ids) /\ \A i \in DOMAIN ids : ids[i] \in DOMAIN catalog
      BY <3>1
    <3>3. DOMAIN texts = 1..Len(ids) /\ \A i \in DOMAIN ids : texts[i] = catalog[ids[i]]
      BY <3>2
    <3>4. ToSet(texts) \subseteq Texts
      BY <1>1, <3>2, <3>3 DEF ToSet
    <3> HIDE DEF texts
    <3>5. /\ \A i \in DOMAIN texts : vectors[i] = texts[i]
          /\ DOMAIN cache' \subseteq DOMAIN cache \cup ToSet(texts)
          /\ \A t \in DOMAIN cache' : cache'[t] = t
      BY <1>3, <2>2, <3>2, <3>3, BatchIsTrue
    <3>6. CASE index' = Upserted(ids, vectors)
      <4>1. /\ DOMAIN index' = DOMAIN index \cup DOMAIN catalog
            /\ \A p \in DOMAIN catalog : index'[p] = vectors[CHOOSE i \in DOMAIN ids : ids[i] = p]
            /\ \A p \in DOMAIN index : p \notin DOMAIN catalog => index'[p] = index[p]
        BY <3>1, <3>6 DEF Upserted
      <4>2. ASSUME NEW p \in DOMAIN catalog PROVE index'[p] = catalog[p]
        <5>1. \E i \in DOMAIN ids : ids[i] = p
          BY <3>1 DEF ToSet
        <5> DEFINE i == CHOOSE i \in DOMAIN ids : ids[i] = p
        <5>2. i \in DOMAIN ids /\ ids[i] = p
          BY <5>1
        <5>3. vectors[i] = catalog[p]
          BY <3>2, <3>3, <3>5, <5>2
        <5> QED BY <4>1, <5>3
      <4>3. \A p \in DOMAIN index' : \E c \in deployed : p \in DOMAIN c /\ index'[p] = c[p]
        <5> SUFFICES ASSUME NEW p \in DOMAIN index' PROVE \E c \in deployed : p \in DOMAIN c /\ index'[p] = c[p]
          OBVIOUS
        <5>1. CASE p \in DOMAIN catalog
          BY <1>3, <4>2, <5>1
        <5>2. CASE p \notin DOMAIN catalog
          BY <1>3, <4>1, <5>2
        <5> QED BY <5>1, <5>2
      <4>4. VectorsAreTheirOwn'
        BY <1>2, <3>5, <4>1, <4>2, <4>3 DEF VectorsAreTheirOwn
      <4> QED BY <1>1, <1>3, <3>4, <3>5, <4>1, <4>4
    <3>7. CASE UNCHANGED <<index, built>>
      <4>1. VectorsAreTheirOwn'
        BY <1>2, <1>3, <3>5, <3>7 DEF VectorsAreTheirOwn
      <4> QED BY <1>3, <3>4, <3>5, <3>7, <4>1
    <3> QED BY <2>2, <3>6, <3>7
  <2>3. \/ UNCHANGED indexVars
        \/ \E vectors \in [DOMAIN texts -> Texts] :
             /\ EmbedBatch(texts, vectors)
             /\ \/ index' = Upserted(ids, vectors)
                \/ UNCHANGED <<index, built>>
    BY DEF Bootstrap
  <2> HIDE DEF ids, texts
  <2>4. CASE UNCHANGED indexVars
    BY <1>3, <2>1, <2>4 DEF indexVars
  <2> QED BY <2>2, <2>3, <2>4
<1>5. SearchTypeOK'
  BY <1>2, <1>4 DEF SearchIInv, SearchTypeOK, resultVars
<1>6. Underway'
  BY <1>2 DEF Underway
<1> QED BY <1>4, <1>5, <1>6 DEF SearchIInv

\* Nothing of what a search reads of its surroundings has changed.
Quiet == UNCHANGED <<catalog, cache, index, built, deployed>>

LEMMA QuietKeeps ==
  ASSUME SearchIInv, Quiet
  PROVE  /\ VectorsAreTheirOwn' /\ catalog' \in Catalogs /\ catalog' \in deployed'
         /\ DOMAIN cache' \subseteq Texts /\ DOMAIN index' \subseteq Products
BY DEF SearchIInv, SearchTypeOK, VectorsAreTheirOwn, Quiet

LEMMA RecallInv ==
  ASSUME SearchIInv, BeginSearch \/ SearchIndex \/ VectorFails
  PROVE  SearchIInv'
<1>1. Depth \in Nat \ {0} /\ DOMAIN catalog \in SUBSET Products /\ IsFiniteSet(Products)
  BY SearchAssumption, CatalogFacts DEF SearchIInv, SearchTypeOK
<1>2. Quiet
  BY DEF Quiet, BeginSearch, SearchIndex, VectorFails, indexVars
<1>3. hits' \in Seq(Products) /\ filteredOut' \in Seq(Products) /\ reranked' \in BOOLEAN
  <2>1. CASE BeginSearch
    BY <2>1, NoneYet DEF BeginSearch
  <2>2. CASE UNCHANGED resultVars
    BY <2>2 DEF resultVars, SearchIInv, SearchTypeOK
  <2> QED BY <2>1, <2>2 DEF SearchIndex, VectorFails
<1>4. CASE BeginSearch
  <2>1. lexical' \in Seq(Products)
    <3>1. PICK s \in SUBSET DOMAIN catalog : lexical' \in SetToSeqs(s)
      BY <1>4 DEF BeginSearch, Rankings
    <3>2. s \in SUBSET Products /\ IsFiniteSet(s)
      BY <1>1, FS_Subset
    <3> QED BY <3>1, <3>2, OrdersOf
  <2>2. First(lexical', Depth) \in Seq(Products)
    BY <1>1, <2>1, FirstFacts
  <2>3. scored' \in Seq(Products)
    BY <1>4, <2>2, NoneYet DEF BeginSearch
  <2>4. Underway'
    BY <1>4 DEF BeginSearch, Underway
  <2> QED BY <1>2, <1>3, <2>1, <2>3, <2>4, QuietKeeps DEF SearchIInv, SearchTypeOK
<1>5. CASE VectorFails
  <2>1. First(lexical, Depth) \in Seq(Products)
    BY <1>1, FirstFacts DEF SearchIInv, SearchTypeOK
  <2>2. scored' \in Seq(Products)
    BY <1>5, <2>1, NoneYet DEF VectorFails
  <2>3. Underway'
    BY <1>5 DEF VectorFails, Underway, SearchIInv, resultVars
  <2>4. lexical' \in Seq(Products)
    BY <1>5 DEF VectorFails, SearchIInv, SearchTypeOK
  <2> QED BY <1>2, <1>3, <2>2, <2>3, <2>4, QuietKeeps DEF SearchIInv, SearchTypeOK
<1>6. CASE SearchIndex
  <2>1. PICK r \in SetToSeqs(DOMAIN index) :
          \/ scored' = Known(First(r, Depth)) /\ ranked' = {"vector"}
          \/ /\ scored' = Known(Fused(First(r, Depth), First(lexical, Depth)))
             /\ ranked' = {"vector", "lexical"}
    BY <1>6 DEF SearchIndex
  <2>2. r \in Seq(Products)
    <3>1. DOMAIN index \in SUBSET Products /\ IsFiniteSet(DOMAIN index)
      BY <1>1, FS_Subset DEF SearchIInv, SearchTypeOK
    <3> QED BY <2>1, <3>1, OrdersOf
  <2>3. /\ First(r, Depth) \in Seq(Products) /\ Len(First(r, Depth)) <= Depth
        /\ First(lexical, Depth) \in Seq(Products) /\ Len(First(lexical, Depth)) <= Depth
    BY <1>1, <2>2, FirstFacts DEF SearchIInv, SearchTypeOK
  <2>4. Fused(First(r, Depth), First(lexical, Depth)) \in Seq(Products)
    BY <2>3, FusionFacts
  <2>5. scored' \in Seq(Products)
    BY <2>1, <2>3, <2>4, ThoseFacts DEF Known
  <2>6. Underway'
    BY <1>6, <2>1 DEF SearchIndex, Underway, SearchIInv, resultVars
  <2>7. lexical' \in Seq(Products)
    BY <1>6 DEF SearchIndex, SearchIInv, SearchTypeOK
  <2> QED BY <1>2, <1>3, <2>5, <2>6, <2>7, QuietKeeps DEF SearchIInv, SearchTypeOK
<1> QED BY <1>4, <1>5, <1>6

\* The sets of rankings are told apart by their members.
LEMMA RankingSets ==
  /\ \A r : "rerank" \notin r => r \ {"rerank"} = r
  /\ \A r \in {{"keyword"}, {"lexical"}, {"vector"}, {"vector", "lexical"}} : "rerank" \notin r
  /\ {"vector"} # {"vector", "lexical"} /\ {"lexical"} # {"vector", "lexical"} /\ {"lexical"} # {"vector"}
<1>1. \A r : "rerank" \notin r => r \ {"rerank"} = r
  OBVIOUS
<1>2. \A r \in {{"keyword"}, {"lexical"}, {"vector"}, {"vector", "lexical"}} : "rerank" \notin r
  OBVIOUS
<1>3. "vector" \notin {"lexical"} /\ "lexical" \notin {"vector"}
  OBVIOUS
<1>4. {"vector"} # {"vector", "lexical"} /\ {"lexical"} # {"vector", "lexical"} /\ {"lexical"} # {"vector"}
  BY <1>3, Zenon
<1> QED BY <1>1, <1>2, <1>4

\* Candidates are found, reranked or left as they are.
LEMMA RankingInv ==
  ASSUME SearchIInv, Recall \/ Rerank \/ RerankFails
  PROVE  SearchIInv'
<1>1. Quiet /\ UNCHANGED <<lexical, hits, filteredOut>>
  BY DEF Quiet, Recall, Rerank, RerankFails, indexVars
<1>2. hits' \in Seq(Products) /\ filteredOut' \in Seq(Products) /\ lexical' \in Seq(Products)
  BY <1>1 DEF SearchIInv, SearchTypeOK
<1>3. /\ ToSet(lexical) \in SUBSET Products /\ IsFiniteSet(ToSet(lexical))
      /\ ToSet(lexical) = {} => lexical = <<>>
      /\ ToSet(scored) \in SUBSET Products /\ IsFiniteSet(ToSet(scored))
      /\ ToSet(scored) = {} => scored = <<>>
  BY SetOfRanking DEF SearchIInv, SearchTypeOK
<1>4. CASE Recall /\ scored = <<>>
  <2>1. scored' \in SetToSeqs(ToSet(lexical))
    BY <1>4 DEF Recall
  <2>2. scored' \in Seq(Products) /\ (scored' = <<>> => lexical = <<>>)
    BY <1>3, <2>1, OrdersOf
  <2>3. /\ stage = "recalled" /\ stage' = "filtering" /\ ranked' = {"keyword"}
        /\ strategy' = "keyword_2gram" /\ reranked' = reranked
    BY <1>4 DEF Recall
  <2>4. reranked = FALSE
    BY <2>3 DEF SearchIInv, Underway, SearchTypeOK
  <2>5. NamesWhatRanked' /\ reranked' \in BOOLEAN
    <3>1. "rerank" \notin ranked' /\ ranked' \ {"rerank"} = ranked'
      BY <2>3, RankingSets
    <3>2. Named(strategy') = ranked' /\ strategy' \notin Reranked
      BY <2>3, FirstStageNames
    <3>3. ranked' \ {"rerank"} = Named(strategy')
      BY <3>1, <3>2, Zenon
    <3>4. reranked' = ("rerank" \in ranked') /\ reranked' = (strategy' \in Reranked)
      <4>1. ("rerank" \in ranked') = FALSE /\ (strategy' \in Reranked) = FALSE
        BY <3>1, <3>2
      <4>2. reranked' = FALSE
        BY <2>3, <2>4
      <4> QED BY <4>1, <4>2, Zenon
    <3> QED BY <2>3, <2>4, <3>3, <3>4 DEF NamesWhatRanked
  <2>6. Underway'
    BY <1>1, <2>2, <2>3, <2>5 DEF Underway
  <2> QED BY <1>1, <1>2, <2>2, <2>5, <2>6, QuietKeeps DEF SearchIInv, SearchTypeOK
<1>5. CASE Recall /\ scored # <<>>
  <2>1. /\ stage = "recalled" /\ stage' = "reranking" /\ UNCHANGED <<scored, ranked, reranked>>
        /\ strategy' = FirstStage
    BY <1>5 DEF Recall
  <2>2. reranked = FALSE /\ ranked \in {{"lexical"}, {"vector"}, {"vector", "lexical"}}
    BY <1>5, <2>1 DEF SearchIInv, Underway, SearchTypeOK
  <2>3. /\ ranked = {"vector", "lexical"} => strategy' = "hybrid_rrf"
        /\ ranked = {"vector"} => strategy' \in {"hybrid_gated_vector", "embedding_only"}
        /\ ranked = {"lexical"} => strategy' = "bm25_only"
    BY <2>1, RankingSets DEF FirstStage
  <2>4. /\ NamesWhatRanked' /\ reranked' = FALSE
        /\ strategy' \in {"hybrid_rrf", "hybrid_gated_vector", "embedding_only", "bm25_only"}
    <3>1. "rerank" \notin ranked' /\ ranked' \ {"rerank"} = ranked'
      BY <2>1, <2>2, RankingSets
    <3>2. strategy' \in {"hybrid_rrf", "hybrid_gated_vector", "embedding_only", "bm25_only"}
      BY <2>2, <2>3
    <3>3. Named(strategy') = ranked
      BY <2>2, <2>3, FirstStageNames
    <3>4. strategy' \notin Reranked
      BY <3>2, FirstStageNames
    <3>5. ranked' \ {"rerank"} = Named(strategy')
      BY <2>1, <3>1, <3>3, Zenon
    <3>6. reranked' = ("rerank" \in ranked') /\ reranked' = (strategy' \in Reranked)
      <4>1. ("rerank" \in ranked') = FALSE /\ (strategy' \in Reranked) = FALSE
        BY <3>1, <3>4
      <4>2. reranked' = FALSE
        BY <2>1, <2>2
      <4> QED BY <4>1, <4>2, Zenon
    <3> QED BY <2>1, <2>2, <3>2, <3>5, <3>6 DEF NamesWhatRanked
  <2>5. Underway'
    BY <1>5, <2>1, <2>4 DEF Underway
  <2> QED BY <1>1, <1>2, <2>1, <2>4, <2>5, QuietKeeps DEF SearchIInv, SearchTypeOK
<1>6. CASE Rerank
  <2>1. /\ stage = "reranking" /\ stage' = "filtering" /\ scored' \in SetToSeqs(ToSet(scored))
        /\ strategy' = WithRerank(strategy) /\ reranked' = TRUE /\ ranked' = ranked \cup {"rerank"}
    BY <1>6 DEF Rerank
  <2>2. scored' \in Seq(Products) /\ scored' # <<>>
    BY <1>3, <2>1, OrdersOf DEF SearchIInv, Underway
  <2>3. NamesWhatRanked'
    <3>1. /\ NamesWhatRanked
          /\ strategy \in {"hybrid_rrf", "hybrid_gated_vector", "embedding_only", "bm25_only"}
      BY <2>1 DEF SearchIInv, Underway
    <3>2. ranked' \ {"rerank"} = ranked \ {"rerank"} /\ "rerank" \in ranked'
      BY <2>1
    <3> QED BY <2>1, <3>1, <3>2, RerankedNames DEF NamesWhatRanked
  <2>4. Underway'
    BY <2>1, <2>2, <2>3 DEF Underway
  <2> QED BY <1>1, <1>2, <2>1, <2>2, <2>4, QuietKeeps DEF SearchIInv, SearchTypeOK
<1>7. CASE RerankFails
  <2>1. /\ stage = "reranking" /\ stage' = "filtering"
        /\ UNCHANGED <<scored, strategy, reranked, ranked>>
    BY <1>7 DEF RerankFails, Unranked
  <2>2. NamesWhatRanked /\ scored # <<>>
    BY <2>1 DEF SearchIInv, Underway
  <2>3. Underway'
    BY <2>1, <2>2 DEF Underway, NamesWhatRanked
  <2> QED BY <1>1, <1>2, <2>1, <2>3, QuietKeeps DEF SearchIInv, SearchTypeOK
<1> QED BY <1>4, <1>5, <1>6, <1>7

\* What the constraints leave, and what is said of the rest.
LEMMA FilterInv ==
  ASSUME SearchIInv, Filter
  PROVE  SearchIInv'
<1>1. PICK rejected \in SUBSET ToSet(scored) :
        /\ hits' = First(Those(scored, ToSet(scored) \ rejected), TopK)
        /\ filteredOut' = Summary(scored, rejected)
  BY DEF Filter
<1>2. TopK \in Nat \ {0} /\ FilteredOutLimit \in Nat \ {0}
  BY SearchAssumption
<1>3. scored \in Seq(Products) /\ stage = "filtering" /\ stage' = "done"
  BY DEF Filter, SearchIInv, SearchTypeOK
<1>4. /\ Those(scored, ToSet(scored) \ rejected) \in Seq(Products)
      /\ Those(scored, rejected) \in Seq(Products)
  BY <1>3, ThoseFacts
<1>5. hits' \in Seq(Products) /\ filteredOut' \in Seq(Products)
  BY <1>1, <1>2, <1>4, FirstFacts DEF Summary
<1>6. hits' = <<>> /\ filteredOut' = <<>> => scored = <<>>
  <2> SUFFICES ASSUME hits' = <<>>, filteredOut' = <<>> PROVE scored = <<>>
    OBVIOUS
  <2>1. Those(scored, ToSet(scored) \ rejected) = <<>> /\ Those(scored, rejected) = <<>>
    BY <1>1, <1>2, <1>4, FirstFacts DEF Summary
  <2>2. \A i \in DOMAIN scored : scored[i] \notin ToSet(scored) \ rejected /\ scored[i] \notin rejected
    BY <1>3, <2>1, ThoseFacts
  <2>3. \A i \in DOMAIN scored : scored[i] \in ToSet(scored)
    BY DEF ToSet
  <2> QED BY <1>3, <2>2, <2>3
<1>7. UNCHANGED <<lexical, scored, strategy, reranked, ranked>> /\ Quiet
  BY DEF Filter, Quiet, indexVars
<1>8. NamesWhatRanked' /\ EmptyIsExplained'
  BY <1>3, <1>6, <1>7 DEF SearchIInv, Underway, NamesWhatRanked, EmptyIsExplained
<1>9. Underway'
  BY <1>3, <1>8 DEF Underway
<1> QED BY <1>5, <1>7, <1>9, QuietKeeps DEF SearchIInv, SearchTypeOK

\* The process starts again, a fault is injected, the query gets its vector.
LEMMA SurroundingsInv ==
  ASSUME SearchIInv, Restart \/ Activate \/ EmbedQuery \/ UNCHANGED searchVars
  PROVE  SearchIInv'
<1>1. CASE Restart
  <2>1. SearchTypeOK'
    BY <1>1, NoneYet DEF Restart, SearchIInv, SearchTypeOK
  <2>2. VectorsAreTheirOwn'
    BY <1>1 DEF Restart, SearchIInv, VectorsAreTheirOwn
  <2>3. Underway'
    BY <1>1 DEF Restart, Underway
  <2> QED BY <2>1, <2>2, <2>3 DEF SearchIInv
<1>2. CASE Activate \/ UNCHANGED searchVars
  <2>1. UNCHANGED <<catalog, lexical, cache, index, built, deployed, stage, scored,
                    strategy, reranked, hits, filteredOut, ranked>>
    BY <1>2 DEF Activate, searchVars, indexVars, resultVars
  <2>2. VectorsAreTheirOwn'
    BY <2>1 DEF SearchIInv, VectorsAreTheirOwn
  <2> QED BY <2>1, <2>2 DEF SearchIInv, SearchTypeOK, Underway, NamesWhatRanked, EmptyIsExplained
<1>3. CASE EmbedQuery
  <2>1. PICK vectors : EmbedBatch(<<Query>>, vectors)
    BY <1>3 DEF EmbedQuery
  <2>2. DOMAIN <<Query>> = 1..1 /\ ToSet(<<Query>>) = {Query} /\ Query \in Texts
    BY SearchAssumption DEF ToSet
  <2>3. DOMAIN cache' \subseteq DOMAIN cache \cup {Query} /\ \A t \in DOMAIN cache' : cache'[t] = t
    BY <2>1, <2>2, BatchIsTrue DEF SearchIInv, VectorsAreTheirOwn
  <2>4. /\ UNCHANGED <<catalog, lexical, index, built, deployed, scored, strategy, reranked, hits, filteredOut, ranked>>
        /\ stage = "embedding" /\ stage' = "searching"
    BY <1>3 DEF EmbedQuery, resultVars
  <2>5. VectorsAreTheirOwn'
    BY <2>3, <2>4 DEF SearchIInv, VectorsAreTheirOwn
  <2>6. SearchTypeOK'
    BY <2>2, <2>3, <2>4 DEF SearchIInv, SearchTypeOK
  <2>7. Underway'
    BY <2>4 DEF SearchIInv, Underway
  <2> QED BY <2>5, <2>6, <2>7 DEF SearchIInv
<1> QED BY <1>1, <1>2, <1>3

LEMMA SearchInvariance == SearchSpec => []SearchIInv
<1>1. SearchInit => SearchIInv
  BY SearchInvInit
<1>2. SearchIInv /\ [SearchNext]_searchVars => SearchIInv'
  BY StartInv, RecallInv, RankingInv, FilterInv, SurroundingsInv DEF SearchNext
<1> QED BY <1>1, <1>2, PTL DEF SearchSpec

\* bootstrap_product_index, CachedEmbeddingClient.embed_batch: however the cache
\* is filled, read in part and not written, and across any number of starts with
\* any catalogues, a text never gets the vector of another, a product is indexed
\* under that of a text it has or had, and of the one it has once the start built
\* the index.
THEOREM OwnVectors == SearchSpec => []VectorsAreTheirOwn
<1>1. SearchIInv => VectorsAreTheirOwn
  BY DEF SearchIInv
<1> QED BY <1>1, SearchInvariance, PTL

\* CatalogSearchUseCase: through every fallback, for any products, depth and
\* limits, an answer names the rankings behind it, explains when it is empty, and
\* is put together so that what both ways of recall agree on stands.
THEOREM SearchesAnswerTruly == SearchSpec => []AnswersAreTrue
<1>1. ASSUME SearchIInv PROVE StrategyIsTrue /\ EmptyIsExplained
  BY <1>1 DEF SearchIInv, Underway, NamesWhatRanked, Named, Reranked, StrategyIsTrue, EmptyIsExplained
<1>2. ASSUME SearchIInv PROVE FusionAgrees
  <2> SUFFICES ASSUME NEW r \in SetToSeqs(DOMAIN index)
               PROVE  LET vector == First(r, Depth)
                          words == First(lexical, Depth)
                          fused == Fused(vector, words)
                      IN /\ ToSet(fused) = ToSet(vector) \cup ToSet(words)
                         /\ \A p, q \in ToSet(fused) :
                              p # q /\ Ahead(p, q, vector) /\ Ahead(p, q, words) => Ahead(p, q, fused)
    BY DEF FusionAgrees, Ahead
  <2>1. Depth \in Nat \ {0} /\ DOMAIN index \in SUBSET Products /\ IsFiniteSet(Products)
    BY <1>2, SearchAssumption DEF SearchIInv, SearchTypeOK
  <2>2. r \in Seq(Products) /\ lexical \in Seq(Products)
    BY <1>2, <2>1, FS_Subset, OrdersOf DEF SearchIInv, SearchTypeOK
  <2>3. /\ First(r, Depth) \in Seq(Products) /\ Len(First(r, Depth)) <= Depth
        /\ First(lexical, Depth) \in Seq(Products) /\ Len(First(lexical, Depth)) <= Depth
    BY <2>1, <2>2, FirstFacts
  <2> QED BY <2>3, FusionFacts
<1>3. SearchIInv => AnswersAreTrue
  BY <1>1, <1>2 DEF AnswersAreTrue
<1> QED BY <1>3, SearchInvariance, PTL

-----------------------------------------------------------------------------
(***************************************************************************)
(* The evaluation: what is to be run                                       *)
(***************************************************************************)

SampleSet == [case : Range(Cases), arm : Range(Arms), k : Nat]

Execution == [ok : BOOLEAN, clearError : BOOLEAN, declared : BOOLEAN, premised : BOOLEAN]

LEMMA ArmsAre == Range(Arms) = {"A", "B"} /\ Service \in Range(Arms)
<1>1. DOMAIN Arms = {1, 2} /\ Arms[1] = "A" /\ Arms[2] = "B"
  BY DEF Arms
<1> QED BY <1>1 DEF Range, Service

\* What a sample requires has no prerequisites itself.
LEMMA PrerequisiteFacts ==
  ASSUME NEW s \in SampleSet, NEW p \in Prerequisites(s)
  PROVE  /\ p \in SampleSet /\ p.arm = s.arm /\ p.k = s.k /\ p.case \in Requires[s.case]
         /\ Prerequisites(p) = {}
<1>1. s.case \in Range(Cases) /\ s.arm \in Range(Arms) /\ s.k \in Nat
  BY DEF SampleSet
<1>2. PICK c \in Requires[s.case] : p = Sample(c, s.arm, s.k)
  BY DEF Prerequisites
<1>3. Requires \in [Range(Cases) -> SUBSET Range(Cases)]
  BY CaseRunnerAssumption
<1>4. c \in Range(Cases)
  BY <1>1, <1>2, <1>3
<1>5. PICK i \in DOMAIN Cases : Cases[i] = s.case
  BY <1>1 DEF Range
<1>6. PICK j \in DOMAIN Cases : Cases[j] = c
  BY <1>4 DEF Range
<1>7. Requires[c] = {}
  BY <1>2, <1>5, <1>6, CaseRunnerAssumption
<1>8. p.case = c /\ p.arm = s.arm /\ p.k = s.k /\ p \in SampleSet
  BY <1>1, <1>2, <1>4 DEF Sample, SampleSet
<1> QED BY <1>2, <1>7, <1>8 DEF Prerequisites

\* The samples of a run are finitely many, and with each of them there is what
\* it requires.
LEMMA SamplesFacts ==
  /\ Samples \subseteq SampleSet /\ IsFiniteSet(Samples)
  /\ \A s \in Samples : Prerequisites(s) \subseteq Samples
  /\ \A s \in SampleSet : s.k \in 1..K => s \in Samples
<1>1. K \in Nat
  BY AbRunAssumption
<1>2. Samples \subseteq SampleSet
  BY <1>1 DEF Samples, Sample, SampleSet
<1>3. \A s \in Samples : s.k \in 1..K
  BY DEF Samples, Sample
<1>4. ASSUME NEW s \in SampleSet, s.k \in 1..K PROVE s \in Samples
  <2>1. s = Sample(s.case, s.arm, s.k)
    BY DEF SampleSet, Sample
  <2>2. s.case \in Range(Cases) /\ s.arm \in Range(Arms)
    BY DEF SampleSet
  <2> QED BY <1>4, <2>1, <2>2 DEF Samples
<1>5. ASSUME NEW s \in Samples, NEW p \in Prerequisites(s) PROVE p \in Samples
  BY <1>2, <1>3, <1>4, PrerequisiteFacts
<1>6. IsFiniteSet(Samples)
  <2>1. Cases \in Seq(STRING)
    BY CaseRunnerAssumption
  <2>2. Len(Cases) \in Nat /\ DOMAIN Cases = 1..Len(Cases)
    BY <2>1
  <2>3. IsFiniteSet(1..Len(Cases)) /\ IsFiniteSet(1..2) /\ IsFiniteSet(1..K)
    <3>1. 1 \in Int /\ 2 \in Int /\ Len(Cases) \in Int /\ K \in Int
      BY <1>1, <2>2
    <3> QED BY <3>1, FS_Interval
  <2> DEFINE spots == (1..Len(Cases)) \X ((1..2) \X (1..K))
             at == [spot \in spots |-> Sample(Cases[spot[1]], Arms[spot[2][1]], spot[2][2])]
  <2>4. IsFiniteSet((1..2) \X (1..K))
    BY <2>3, FS_Product
  <2>5. IsFiniteSet(spots)
    BY <2>3, <2>4, FS_Product
  <2>6. Samples \subseteq Range(at)
    <3> SUFFICES ASSUME NEW s \in Samples PROVE \E spot \in spots : at[spot] = s
      BY DEF Range
    <3>1. PICK c \in Range(Cases), a \in Range(Arms), k \in 1..K : s = Sample(c, a, k)
      BY DEF Samples
    <3>2. PICK i \in 1..Len(Cases) : Cases[i] = c
      BY <2>2 DEF Range
    <3>3. PICK j \in 1..2 : Arms[j] = a
      BY DEF Range, Arms
    <3>4. <<i, <<j, k>>>> \in spots
      BY <3>1, <3>2, <3>3
    <3>5. at[<<i, <<j, k>>>>] = s
      BY <3>1, <3>2, <3>3, <3>4
    <3> QED BY <3>4, <3>5
  <2>7. at \in [spots -> Range(at)]
    BY DEF Range
  <2> HIDE DEF spots, at
  <2>8. at \in Surjection(spots, Range(at))
    BY <2>7, Fun_RangeProperties
  <2>9. IsFiniteSet(Range(at))
    BY <2>5, <2>8, FS_Surjection
  <2> QED BY <2>6, <2>9, FS_Subset
<1> QED BY <1>2, <1>4, <1>5, <1>6

\* The plan has every sample once: the order of arms, cases and repetitions is
\* total.
LEMMA PlanFacts ==
  /\ Plan \in Seq(Samples) /\ ToSet(Plan) = Samples
  /\ \A i, j \in DOMAIN Plan : Plan[i] = Plan[j] => i = j
<1> DEFINE R == {pair \in Samples \X Samples : Sooner(pair[1], pair[2])}
<1>1. \A s, t \in Samples : <<s, t>> \in R <=> Sooner(s, t)
  OBVIOUS
<1>2. ASSUME NEW s \in Samples
      PROVE  /\ PlaceOf(s.arm, Arms) \in Nat /\ Arms[PlaceOf(s.arm, Arms)] = s.arm
             /\ PlaceOf(s.case, Cases) \in Nat /\ Cases[PlaceOf(s.case, Cases)] = s.case
             /\ s.k \in Nat /\ s = Sample(s.case, s.arm, s.k)
  <2>1. s.case \in Range(Cases) /\ s.arm \in Range(Arms) /\ s.k \in Nat /\ s = Sample(s.case, s.arm, s.k)
    BY SamplesFacts DEF SampleSet, Sample
  <2>2. DOMAIN Cases \subseteq Nat
    BY CaseRunnerAssumption
  <2>3. DOMAIN Arms \subseteq Nat
    BY DEF Arms
  <2>4. PlaceOf(s.arm, Arms) \in DOMAIN Arms /\ Arms[PlaceOf(s.arm, Arms)] = s.arm
    BY <2>1 DEF PlaceOf, Range
  <2>5. PlaceOf(s.case, Cases) \in DOMAIN Cases /\ Cases[PlaceOf(s.case, Cases)] = s.case
    BY <2>1 DEF PlaceOf, Range
  <2> QED BY <2>1, <2>2, <2>3, <2>4, <2>5
<1>3. \A s \in Samples : ~Sooner(s, s)
  BY <1>2 DEF Sooner
<1>4. \A s, t, u \in Samples : Sooner(s, t) /\ Sooner(t, u) => Sooner(s, u)
  <2> SUFFICES ASSUME NEW s \in Samples, NEW t \in Samples, NEW u \in Samples, Sooner(s, t), Sooner(t, u)
               PROVE  Sooner(s, u)
    OBVIOUS
  <2>1. ASSUME NEW x \in Samples, NEW y \in Samples
        PROVE  /\ x.arm = y.arm => PlaceOf(x.arm, Arms) = PlaceOf(y.arm, Arms)
               /\ x.case = y.case => PlaceOf(x.case, Cases) = PlaceOf(y.case, Cases)
    OBVIOUS
  <2>2. ASSUME NEW x \in Samples, NEW y \in Samples
        PROVE  Sooner(x, y) <=> \/ PlaceOf(x.arm, Arms) < PlaceOf(y.arm, Arms)
                                \/ /\ x.arm = y.arm
                                   /\ \/ PlaceOf(x.case, Cases) < PlaceOf(y.case, Cases)
                                      \/ x.case = y.case /\ x.k < y.k
    BY DEF Sooner
  <2> QED BY <1>2, <2>1, <2>2
<1>5. \A s, t \in Samples : s # t => Sooner(s, t) \/ Sooner(t, s)
  <2> SUFFICES ASSUME NEW s \in Samples, NEW t \in Samples, s # t PROVE Sooner(s, t) \/ Sooner(t, s)
    OBVIOUS
  <2>1. s.arm # t.arm => PlaceOf(s.arm, Arms) # PlaceOf(t.arm, Arms)
    BY <1>2
  <2>2. s.case # t.case => PlaceOf(s.case, Cases) # PlaceOf(t.case, Cases)
    BY <1>2
  <2>3. s.arm # t.arm \/ s.case # t.case \/ s.k # t.k
    BY <1>2
  <2> QED BY <1>2, <2>1, <2>2, <2>3 DEF Sooner
<1>6. IsFiniteSet(Samples)
  BY SamplesFacts
<1>7. Plan = InOrder(Samples, R)
  BY DEF Plan
<1> HIDE DEF R
<1>8. /\ \A x \in Samples : <<x, x>> \notin R
      /\ \A x, y, z \in Samples : <<x, y>> \in R /\ <<y, z>> \in R => <<x, z>> \in R
      /\ \A x, y \in Samples : x # y => <<x, y>> \in R \/ <<y, x>> \in R
  BY <1>1, <1>3, <1>4, <1>5
<1>9. /\ Plan \in Seq(Samples) /\ ToSet(Plan) = Samples
      /\ \A i, j \in DOMAIN Plan : <<Plan[i], Plan[j]>> \in R <=> i < j
  BY <1>6, <1>7, <1>8, OrderFacts
<1>10. \A i, j \in DOMAIN Plan : Plan[i] = Plan[j] => i = j
  <2> SUFFICES ASSUME NEW i \in DOMAIN Plan, NEW j \in DOMAIN Plan, Plan[i] = Plan[j], i # j PROVE FALSE
    OBVIOUS
  <2>1. i \in Nat /\ j \in Nat /\ Plan[i] \in Samples
    BY <1>9
  <2>2. i < j \/ j < i
    BY <2>1
  <2> QED BY <1>8, <1>9, <2>1, <2>2
<1> QED BY <1>9, <1>10

\* What is run again comes before what has not been run, and so what a sample
\* requires comes before it.
LEMMA PendingFacts ==
  ASSUME NEW done \in SUBSET SampleSet
  PROVE  /\ Pending(done) \in Seq(SampleSet) /\ ToSet(Pending(done)) \subseteq Samples
         /\ \A s \in Samples : s \in done \/ s \in ToSet(Pending(done))
         /\ \A i, j \in DOMAIN Pending(done) : Pending(done)[i] = Pending(done)[j] => i = j
         /\ \A j \in DOMAIN Pending(done) : \A p \in Prerequisites(Pending(done)[j]) \cap done :
              \E i \in 1..(j - 1) : Pending(done)[i] = p
<1> DEFINE pending == Samples \ done
           rerun == {p \in done : \E s \in pending : p \in Prerequisites(s)}
           again == Those(Plan, rerun)
           rest == Those(Plan, pending)
<1>1. Pending(done) = again \o rest
  BY DEF Pending
<1>2. rerun \subseteq Samples /\ rerun \cap pending = {} /\ \A s \in rerun : Prerequisites(s) = {}
  <2>1. ASSUME NEW p \in rerun PROVE p \in Samples /\ p \notin pending /\ Prerequisites(p) = {}
    <3>1. PICK s \in pending : p \in Prerequisites(s)
      OBVIOUS
    <3>2. s \in Samples /\ s \in SampleSet
      BY SamplesFacts
    <3>3. Prerequisites(p) = {}
      BY <3>1, <3>2, PrerequisiteFacts
    <3>4. Prerequisites(s) \subseteq Samples
      BY <3>2, SamplesFacts
    <3> QED BY <3>1, <3>3, <3>4
  <2> QED BY <2>1
<1>3. \A s \in pending : \A p : p \in Prerequisites(s) /\ p \in done => p \in rerun
  OBVIOUS
<1>4. pending \subseteq Samples /\ \A s \in Samples : s \in done \/ s \in pending
  OBVIOUS
<1> HIDE DEF pending, rerun
<1>5. /\ again \in Seq(Samples) /\ ToSet(again) = rerun
      /\ \A i, j \in DOMAIN again : again[i] = again[j] => i = j
  <2>1. /\ Those(Plan, rerun) \in Seq(Samples)
        /\ ToSet(Those(Plan, rerun)) = ToSet(Plan) \cap rerun
        /\ \A i, j \in DOMAIN Those(Plan, rerun) : Those(Plan, rerun)[i] = Those(Plan, rerun)[j] => i = j
    BY PlanFacts, SelectedInOrder
  <2>2. ToSet(Plan) \cap rerun = rerun
    BY <1>2, PlanFacts
  <2> QED BY <2>1, <2>2
<1>6. /\ rest \in Seq(Samples) /\ ToSet(rest) = pending
      /\ \A i, j \in DOMAIN rest : rest[i] = rest[j] => i = j
  <2>1. /\ Those(Plan, pending) \in Seq(Samples)
        /\ ToSet(Those(Plan, pending)) = ToSet(Plan) \cap pending
        /\ \A i, j \in DOMAIN Those(Plan, pending) : Those(Plan, pending)[i] = Those(Plan, pending)[j] => i = j
    BY PlanFacts, SelectedInOrder
  <2>2. ToSet(Plan) \cap pending = pending
    BY <1>4, PlanFacts
  <2> QED BY <2>1, <2>2
<1> HIDE DEF again, rest
<1>7. /\ DOMAIN again = 1..Len(again) /\ DOMAIN rest = 1..Len(rest) /\ Len(again) \in Nat /\ Len(rest) \in Nat
      /\ \A i \in DOMAIN again : again[i] \in rerun
      /\ \A i \in DOMAIN rest : rest[i] \in pending
  BY <1>5, <1>6 DEF ToSet
<1> DEFINE all == again \o rest
<1>8. /\ all \in Seq(Samples) /\ Len(all) = Len(again) + Len(rest) /\ DOMAIN all = 1..(Len(again) + Len(rest))
      /\ \A i \in DOMAIN all : all[i] = IF i <= Len(again) THEN again[i] ELSE rest[i - Len(again)]
  BY <1>5, <1>6, <1>7
<1> HIDE DEF all
<1>9. ASSUME NEW i \in DOMAIN all
      PROVE  \/ i \in DOMAIN again /\ all[i] = again[i] /\ all[i] \in rerun
             \/ i - Len(again) \in DOMAIN rest /\ i > Len(again) /\ all[i] = rest[i - Len(again)] /\ all[i] \in pending
  <2>1. i \in 1..(Len(again) + Len(rest))
    BY <1>8
  <2>2. CASE i <= Len(again)
    BY <1>7, <1>8, <2>1, <2>2
  <2>3. CASE i > Len(again)
    <3>1. i - Len(again) \in 1..Len(rest)
      BY <1>7, <2>1, <2>3
    <3> QED BY <1>7, <1>8, <2>1, <2>3, <3>1
  <2> QED BY <1>7, <2>1, <2>2, <2>3
<1>10. \A i, j \in DOMAIN all : all[i] = all[j] => i = j
  <2> SUFFICES ASSUME NEW i \in DOMAIN all, NEW j \in DOMAIN all, all[i] = all[j] PROVE i = j
    OBVIOUS
  <2>1. i \in Nat /\ j \in Nat
    BY <1>7, <1>8
  <2>2. all[i] \in rerun <=> all[i] \notin pending
    BY <1>2, <1>9
  <2>3. CASE all[i] \in rerun
    BY <1>5, <1>9, <2>2, <2>3
  <2>4. CASE all[i] \in pending
    <3>1. i - Len(again) = j - Len(again)
      BY <1>6, <1>9, <2>2, <2>4
    <3> QED BY <1>7, <2>1, <3>1
  <2> QED BY <2>2, <2>3, <2>4
<1>11. ASSUME NEW j \in DOMAIN all, NEW p \in Prerequisites(all[j]) \cap done
       PROVE  \E i \in 1..(j - 1) : all[i] = p
  <2>1. all[j] \notin rerun
    BY <1>2
  <2>2. j > Len(again) /\ all[j] \in pending
    BY <1>9, <2>1
  <2>3. p \in rerun
    BY <1>3, <2>2
  <2>4. PICK i \in DOMAIN again : again[i] = p
    BY <1>5, <2>3 DEF ToSet
  <2>5. i \in DOMAIN all /\ i \in 1..(j - 1) /\ i <= Len(again)
    BY <1>7, <1>8, <2>2, <2>4
  <2> QED BY <1>8, <2>4, <2>5
<1>12. \A s \in Samples : s \in done \/ s \in ToSet(all)
  <2> SUFFICES ASSUME NEW s \in Samples, s \notin done PROVE s \in ToSet(all)
    OBVIOUS
  <2>1. PICK i \in DOMAIN rest : rest[i] = s
    BY <1>4, <1>6 DEF ToSet
  <2>2. i + Len(again) \in DOMAIN all /\ ~(i + Len(again) <= Len(again)) /\ (i + Len(again)) - Len(again) = i
    BY <1>7, <1>8
  <2>3. all[i + Len(again)] = s
    BY <1>8, <2>1, <2>2
  <2> QED BY <2>2, <2>3 DEF ToSet
<1>13. ToSet(all) \subseteq Samples /\ all \in Seq(SampleSet)
  BY <1>8, SamplesFacts DEF ToSet
<1>14. Pending(done) = all
  BY <1>1 DEF all
<1> QED BY <1>10, <1>11, <1>12, <1>13, <1>14

\* What is resumed runs in the order of the selection, and what a case requires
\* before it.
LEMMA ResumeFacts ==
  ASSUME NEW selection \in Selections, NEW completed, NEW plan, plan = PlanResume(selection, completed)
  PROVE  /\ plan \in Seq(Range(Cases))
         /\ \A i, j \in DOMAIN plan :
              /\ plan[i] = plan[j] => i = j
              /\ i < j => \E m, n \in DOMAIN selection : m < n /\ selection[m] = plan[i] /\ selection[n] = plan[j]
         /\ \A j \in DOMAIN plan : \A d \in Requires[plan[j]] \cap completed \cap Range(selection) :
              \E i \in 1..(j - 1) : plan[i] = d
<1> DEFINE pending == Range(selection) \ completed
           required == {d \in completed : \E c \in pending : d \in Requires[c]}
<1>1. plan = Those(selection, pending \cup required)
  BY DEF PlanResume
<1>2. /\ \A d \in required : \E c \in pending : d \in Requires[c]
      /\ \A c \in pending, d \in completed : d \in Requires[c] => d \in required
      /\ pending \subseteq Range(selection)
  OBVIOUS
<1> HIDE DEF pending, required
<1>3. Cases \in Seq(Range(Cases)) /\ \A i, j \in DOMAIN Cases : Cases[i] = Cases[j] => i = j
  <2>1. Cases \in Seq(STRING) /\ IsInjective(Cases)
    BY CaseRunnerAssumption
  <2> QED BY <2>1 DEF IsInjective, Range
<1>4. selection = Those(Cases, Range(selection))
  BY RegressionAssumption
<1>5. /\ Those(Cases, Range(selection)) \in Seq(Range(Cases))
      /\ \A i, j \in DOMAIN Those(Cases, Range(selection)) :
           Those(Cases, Range(selection))[i] = Those(Cases, Range(selection))[j] => i = j
      /\ \A m, n \in DOMAIN Cases : m < n /\ Cases[m] \in Range(selection) =>
           \A j \in DOMAIN Those(Cases, Range(selection)) : Those(Cases, Range(selection))[j] = Cases[n] =>
             \E i \in 1..(j - 1) : Those(Cases, Range(selection))[i] = Cases[m]
  BY <1>3, SelectedInOrder
<1>6. /\ selection \in Seq(Range(Cases))
      /\ \A i, j \in DOMAIN selection : selection[i] = selection[j] => i = j
      /\ \A m, n \in DOMAIN Cases : m < n /\ Cases[m] \in Range(selection) =>
           \A j \in DOMAIN selection : selection[j] = Cases[n] => \E i \in 1..(j - 1) : selection[i] = Cases[m]
  BY <1>4, <1>5
<1>7. /\ plan \in Seq(Range(Cases)) /\ ToSet(plan) = ToSet(selection) \cap (pending \cup required)
      /\ \A i, j \in DOMAIN plan :
           /\ plan[i] = plan[j] => i = j
           /\ i < j => \E m, n \in DOMAIN selection : m < n /\ selection[m] = plan[i] /\ selection[n] = plan[j]
      /\ \A m, n \in DOMAIN selection : m < n /\ selection[m] \in pending \cup required =>
           \A j \in DOMAIN plan : plan[j] = selection[n] => \E i \in 1..(j - 1) : plan[i] = selection[m]
  <2> DEFINE set == pending \cup required
  <2>1. /\ Those(selection, set) \in Seq(Range(Cases))
        /\ ToSet(Those(selection, set)) = ToSet(selection) \cap set
        /\ \A i, j \in DOMAIN Those(selection, set) :
             /\ Those(selection, set)[i] = Those(selection, set)[j] => i = j
             /\ i < j => \E m, n \in DOMAIN selection :
                  m < n /\ selection[m] = Those(selection, set)[i] /\ selection[n] = Those(selection, set)[j]
        /\ \A m, n \in DOMAIN selection : m < n /\ selection[m] \in set =>
             \A j \in DOMAIN Those(selection, set) : Those(selection, set)[j] = selection[n] =>
               \E i \in 1..(j - 1) : Those(selection, set)[i] = selection[m]
    <3> HIDE DEF set
    <3> QED BY <1>6, SelectedInOrder
  <2>2. plan = Those(selection, set)
    BY <1>1
  <2> HIDE DEF set
  <2>3. /\ plan \in Seq(Range(Cases)) /\ ToSet(plan) = ToSet(selection) \cap set
        /\ \A i, j \in DOMAIN plan :
             /\ plan[i] = plan[j] => i = j
             /\ i < j => \E m, n \in DOMAIN selection : m < n /\ selection[m] = plan[i] /\ selection[n] = plan[j]
        /\ \A m, n \in DOMAIN selection : m < n /\ selection[m] \in set =>
             \A j \in DOMAIN plan : plan[j] = selection[n] => \E i \in 1..(j - 1) : plan[i] = selection[m]
    BY <2>1, <2>2
  <2> QED BY <2>3 DEF set
<1>8. ASSUME NEW j \in DOMAIN plan, NEW d \in Requires[plan[j]] \cap completed \cap Range(selection)
      PROVE  \E i \in 1..(j - 1) : plan[i] = d
  <2>1. /\ plan[j] \in Range(Cases) /\ plan[j] \in pending \cup required
        /\ \E n \in DOMAIN selection : selection[n] = plan[j]
    BY <1>7 DEF ToSet
  <2>2. Requires \in [Range(Cases) -> SUBSET Range(Cases)]
    BY CaseRunnerAssumption
  <2>3. d \in Range(Cases)
    BY <2>1, <2>2
  <2>4. PICK a, b \in DOMAIN Cases : Cases[a] = d /\ Cases[b] = plan[j]
    BY <2>1, <2>3 DEF Range
  <2>5. a < b /\ Requires[d] = {}
    BY <2>4, CaseRunnerAssumption
  <2>6. plan[j] \notin required
    <3> SUFFICES ASSUME plan[j] \in required PROVE FALSE
      OBVIOUS
    <3>1. PICK c \in pending : plan[j] \in Requires[c]
      BY <1>2
    <3>2. c \in Range(Cases)
      BY <1>2, <1>6 DEF Range
    <3>3. PICK e \in DOMAIN Cases : Cases[e] = c
      BY <3>2 DEF Range
    <3>4. Requires[plan[j]] = {}
      BY <2>4, <3>1, <3>3, CaseRunnerAssumption
    <3> QED BY <3>4
  <2>7. d \in required
    BY <1>2, <2>1, <2>6
  <2>8. PICK n \in DOMAIN selection : selection[n] = plan[j]
    BY <2>1
  <2>9. PICK m \in 1..(n - 1) : selection[m] = d
    BY <1>6, <2>4, <2>5, <2>8
  <2>10. m \in DOMAIN selection /\ m < n
    BY <1>6, <2>8, <2>9
  <2> QED BY <1>7, <2>7, <2>8, <2>9, <2>10
<1> QED BY <1>7, <1>8

-----------------------------------------------------------------------------
(***************************************************************************)
(* The evaluation: what is recorded, and what is read from a log           *)
(***************************************************************************)

\* The first of a list, and what is left of it.
LEMMA HeadFacts ==
  ASSUME NEW D, NEW s \in Seq(D), s # <<>>
  PROVE  /\ Head(s) \in D /\ Head(s) = s[1] /\ 1 \in DOMAIN s
         /\ Tail(s) \in Seq(D)
         /\ \A i \in DOMAIN Tail(s) : i \in Nat /\ i >= 1 /\ i + 1 \in DOMAIN s /\ Tail(s)[i] = s[i + 1]
         /\ \A i \in DOMAIN s : i = 1 \/ i - 1 \in DOMAIN Tail(s)
OBVIOUS

\* Where no calls overlap, a result directly after the beginning of a call is
\* that call's: the first one that is not would end a call that a result before
\* it has ended.
LEMMA ResultsBelong ==
  ASSUME NEW log \in Logs, ~Overlapping(log), NEW p \in 2..Len(log),
         log[p].type = "result", log[p - 1].type = "invoke"
  PROVE  log[p].call = log[p - 1].call
<1> DEFINE Bad(q) == log[q].type = "result" /\ log[q - 1].type = "invoke" /\ log[q].call # log[q - 1].call
           bad == {q \in 2..Len(log) : Bad(q)}
<1>1. WellFormed(log)
  BY DepositsAssumption
<1>2. /\ log \in Seq(Events) /\ Len(log) \in Nat /\ DOMAIN log = 1..Len(log)
      /\ \A i \in 1..Len(log) : log[i].type \in {"invoke", "result"}
      /\ \A i, j \in 1..Len(log) : log[i].type = log[j].type /\ log[i].call = log[j].call => i = j
      /\ \A j \in 1..Len(log) : log[j].type = "result" =>
           \E i \in 1..(j - 1) : log[i].type = "invoke" /\ log[i].call = log[j].call
  <2>1. log \in Seq(Events)
    BY <1>1 DEF WellFormed
  <2>2. Len(log) \in Nat /\ DOMAIN log = 1..Len(log)
    BY <2>1
  <2>3. \A i \in 1..Len(log) : log[i] \in Events
    BY <2>1
  <2>4. \A i \in 1..Len(log) : log[i].type \in {"invoke", "result"}
    BY <2>3 DEF Events
  <2> QED BY <1>1, <2>1, <2>2, <2>4 DEF WellFormed
<1>3. \A i \in 1..(Len(log) - 1) : log[i].type = "invoke" => log[i + 1].type # "invoke"
  BY DEF Overlapping
<1> SUFFICES ASSUME bad # {} PROVE FALSE
  OBVIOUS
<1>4. bad \subseteq 2..Len(log) /\ \A q \in 2..Len(log) : q \in bad <=> Bad(q)
  OBVIOUS
<1>5. PICK q \in bad : \A r \in bad : q <= r
  <2>1. 2 \in Int /\ Len(log) \in Int
    BY <1>2
  <2>2. IsFiniteSet(2..Len(log))
    BY <2>1, FS_Interval
  <2>3. IsFiniteSet(bad) /\ bad \in SUBSET Int
    BY <1>2, <1>4, <2>2, FS_Subset
  <2> HIDE DEF bad
  <2>4. /\ Ascending(bad) \in Seq(bad) /\ ToSet(Ascending(bad)) = bad
        /\ \A i, j \in DOMAIN Ascending(bad) : i < j => Ascending(bad)[i] < Ascending(bad)[j]
    BY <2>3, AscendingFacts
  <2>5. 1 \in DOMAIN Ascending(bad)
    BY <2>4 DEF ToSet
  <2>6. \A i \in DOMAIN Ascending(bad) : i \in Nat /\ i >= 1 /\ Ascending(bad)[i] \in bad
    BY <2>4
  <2>7. ASSUME NEW r \in bad PROVE Ascending(bad)[1] <= r
    <3>1. PICK i \in DOMAIN Ascending(bad) : Ascending(bad)[i] = r
      BY <2>4 DEF ToSet
    <3>2. i = 1 \/ 1 < i
      BY <2>6
    <3>3. r \in Int /\ Ascending(bad)[1] \in Int
      BY <2>3, <2>5, <2>6
    <3> QED BY <2>4, <2>5, <3>1, <3>2, <3>3
  <2> QED BY <2>5, <2>6, <2>7
<1> HIDE DEF bad
<1>6. q \in 2..Len(log) /\ Bad(q)
  BY <1>4
<1>7. PICK i \in 1..(q - 1) : log[i].type = "invoke" /\ log[i].call = log[q].call
  BY <1>2, <1>6
<1>8. i # q - 1 /\ i + 1 \in 2..Len(log) /\ i + 1 < q /\ i \in 1..(Len(log) - 1) /\ (i + 1) - 1 = i
  BY <1>2, <1>6, <1>7
<1>9. log[i + 1].type = "result"
  BY <1>2, <1>3, <1>7, <1>8
<1>10. ~Bad(i + 1)
  BY <1>2, <1>4, <1>5, <1>6, <1>8
<1>11. log[i + 1].call = log[q].call
  BY <1>7, <1>8, <1>9, <1>10
<1> QED BY <1>2, <1>6, <1>8, <1>9, <1>11

\* What is taken from a log in which no calls overlap was stored.
LEMMA WritesAreSaved ==
  ASSUME NEW log \in Logs, ~Overlapping(log), NEW i \in DOMAIN Writes(log)
  PROVE  Saved(log, Writes(log)[i].call)
<1> DEFINE settling == {p \in 2..Len(log) : log[p].type = "result" /\ Settles(log[p]) /\ log[p - 1].type = "invoke"}
           places == Ascending(settling)
<1>1. log \in Seq(Events)
  BY DepositsAssumption DEF WellFormed
<1>2. Len(log) \in Nat /\ DOMAIN log = 1..Len(log) /\ 2 \in Int
  BY <1>1
<1>3. Writes(log) = [n \in DOMAIN places |-> log[places[n] - 1]]
  BY DEF Writes
<1>4. settling \subseteq 2..Len(log)
      /\ \A p \in settling : log[p].type = "result" /\ log[p].saved /\ log[p - 1].type = "invoke"
  BY DEF Settles
<1> HIDE DEF settling
<1>5. IsFiniteSet(settling) /\ settling \in SUBSET Int
  <2>1. IsFiniteSet(2..Len(log))
    BY <1>2, FS_Interval
  <2>2. settling \in SUBSET (2..Len(log))
    BY <1>4
  <2>3. IsFiniteSet(settling)
    BY <2>1, <2>2, FS_Subset
  <2> QED BY <1>2, <2>2, <2>3
<1>6. places \in Seq(settling)
  BY <1>5, AscendingFacts
<1> HIDE DEF places
<1>7. i \in DOMAIN places /\ Writes(log)[i] = log[places[i] - 1]
  BY <1>3
<1>8. places[i] \in settling
  BY <1>6, <1>7
<1>9. log[places[i]].call = log[places[i] - 1].call
  BY <1>4, <1>8, ResultsBelong
<1>10. places[i] \in DOMAIN log
  <2>1. places[i] \in 2..Len(log)
    BY <1>4, <1>8
  <2> QED BY <1>2, <2>1
<1> QED BY <1>4, <1>7, <1>8, <1>9, <1>10 DEF Saved

-----------------------------------------------------------------------------
(***************************************************************************)
(* The evaluation: the inductive invariant                                 *)
(***************************************************************************)

Stops == {"idle", "next", "conversing", "clearing", "executed", "judging", "unlink", "unlink_old"}

RunTypes ==
  /\ pc \in Stops /\ kind \in {"ab", "regression"} /\ round \in Nat /\ from \in Nat
  /\ todo \in Seq(SampleSet) /\ executed \in Execution
  /\ DOMAIN results \subseteq SampleSet /\ faulted \subseteq Range(Arms)
  /\ DOMAIN partials \subseteq 1..round
  /\ \A r \in DOMAIN partials : DOMAIN partials[r].results \subseteq SampleSet

\* What is still to run has not been run by this run, and is not to run twice.
RunShape ==
  /\ pc = "idle" => DOMAIN results = {}
  /\ pc # "idle" => round > 0
  /\ pc \in {"idle", "judging", "unlink", "unlink_old"} => todo = <<>>
  /\ pc \in {"conversing", "clearing", "executed"} => todo # <<>>
  /\ pc \in {"judging", "unlink_old"} => kind = "ab"
  /\ pc # "idle" => own \subseteq DOMAIN results /\ (from = 0 => own = DOMAIN results)
  /\ \A i \in DOMAIN todo : todo[i] \notin own
  /\ \A i, j \in DOMAIN todo : todo[i] = todo[j] => i = j

Needed(s) == \E c \in Range(Cases) : s.case \in Requires[c]

AllPremised(res) == \A s \in DOMAIN res : res[s].premised = TRUE

\* Whatever is recorded was premised: what a sample requires is stored when it
\* counts as executed, or runs again before the sample does.
Premises ==
  /\ executed.premised = TRUE /\ AllPremised(results) /\ AllPremised(runJson)
  /\ \A r \in DOMAIN partials : AllPremised(partials[r].results)
  /\ pc \in {"clearing", "executed"} /\ executed.ok /\ Needed(Head(todo)) => Head(todo) \in prefs
  /\ \A i \in DOMAIN todo : \A p \in Prerequisites(todo[i]) :
       p \in DOMAIN results /\ results[p].ok => p \in prefs \/ \E j \in 1..(i - 1) : todo[j] = p

Blamed(arm) == arm \in named \/ \E t \in own : Tells(t)

Follows(t, s) == kind = "regression" => t = s \/ Before(t.case, s.case)

\* Faults that are on without being declared are told of.
FaultsTold ==
  /\ pc # "idle" => \A a \in faulted :
       \/ Blamed(a)
       \/ pc \in {"conversing", "clearing"} /\ a = Head(todo).arm
       \/ pc = "executed" /\ executed.clearError
  /\ pc = "conversing" => Head(todo).arm \in faulted /\ Head(todo).case \in Faulty
  /\ pc \in {"clearing", "executed"} => executed.declared = TRUE \/ Blamed(Head(todo).arm)
  /\ pc # "idle" => \A s \in own :
       results[s].declared = TRUE \/ s.arm \in named \/ \E t \in own : Tells(t) /\ Follows(t, s)

Prompted(res, conf) == \A s \in DOMAIN res : s \in Samples /\ res[s].config.prompt = conf[s.arm].prompt

\* The results of an A/B run are of one prompt and arm.
Prompts ==
  /\ pc # "idle" => \A s \in own : results[s].config.prompt = config[s.arm].prompt
  /\ pc # "idle" /\ kind = "ab" => Prompted(results, config)
  /\ \A r \in DOMAIN partials : partials[r].kind = "ab" => Prompted(partials[r].results, partials[r].config)

\* An A/B run has executed, or will, every sample of its plan.
Whole ==
  /\ pc # "idle" /\ kind = "ab" => ToSet(todo) \subseteq Samples /\ Samples \subseteq DOMAIN results \cup ToSet(todo)
  /\ DOMAIN runJson = {} \/ DOMAIN runJson = Samples

\* A regression runs its cases on its service, in the order of the selection.
Course ==
  pc # "idle" /\ kind = "regression" =>
    /\ \A i \in DOMAIN todo : todo[i].arm = Service
    /\ \A s \in own : s.arm = Service
    /\ \A i, j \in DOMAIN todo : i < j => Before(todo[i].case, todo[j].case)
    /\ \A s \in own : \A i \in DOMAIN todo : Before(s.case, todo[i].case)

Honest(reading) ==
  \/ reading.resumed = TRUE \/ reading.told = TRUE \/ reading.group[1].faults = TRUE
  \/ reading.truth = [prompt |-> reading.group[1].prompt, declared |-> TRUE]

Readings ==
  /\ \A reading \in readings : Honest(reading)
  /\ rejudged.rulers[1] = rejudged.rulers[2]

\* A partial file goes when its results are in a report.
Ledger ==
  /\ pc \in {"unlink", "unlink_old"} => round \in reported /\ (kind = "ab" => from \in reported)
  /\ NothingIsLost

RowNames == {"wins", "losses", "ties", "flips", "errors"}

Judgement ==
  /\ rows \in [RowNames -> Nat] /\ swayed \in Nat /\ left \in Nat
  /\ pc # "judging" => left = 0 /\ rows = NoRows /\ swayed = 0
  /\ WinsSurviveSwap

\* What the runs depend on, and what is derived from their reports.
RunIInv ==
  /\ RunTypes /\ RunShape /\ Premises /\ FaultsTold /\ Prompts /\ Whole /\ Course /\ Ledger /\ Judgement

EvalIInv == RunIInv /\ Readings /\ DepositsAreEarned

LEMMA Nothing == DOMAIN <<>> = {} /\ ToSet(<<>>) = {} /\ <<>> \in Seq(SampleSet)
BY DEF ToSet

LEMMA NotExecutedIs ==
  /\ NotExecuted \in Execution /\ NotExecuted.ok = FALSE /\ NotExecuted.clearError = FALSE
  /\ NotExecuted.declared = TRUE /\ NotExecuted.premised = TRUE
BY DEF NotExecuted, Execution

LEMMA EvalInvInit == ASSUME Init PROVE EvalIInv
<1> USE DEF Init, RunnerInit, AbInit, RegInit
<1>1. RunTypes
  BY Nothing, NotExecutedIs DEF RunTypes, Stops
<1>2. RunShape
  BY Nothing DEF RunShape
<1>3. Premises
  BY Nothing, NotExecutedIs DEF Premises, AllPremised
<1>4. FaultsTold /\ Prompts
  BY Nothing DEF FaultsTold, Prompts
<1>5. Whole /\ Course
  BY Nothing DEF Whole, Course
<1>6. Readings
  BY DEF Readings, NoRow
<1>7. Ledger
  BY Nothing DEF Ledger, NothingIsLost
<1>8. Judgement
  BY DEF Judgement, WinsSurviveSwap, NoRows, RowNames
<1>9. DepositsAreEarned
  BY DEF DepositsAreEarned
<1> QED BY <1>1, <1>2, <1>3, <1>4, <1>5, <1>6, <1>7, <1>8, <1>9 DEF EvalIInv, RunIInv

\* A step that leaves the runs as they are.
LEMMA RunsKeep ==
  ASSUME RunIInv, UNCHANGED <<config, faulted, prefs, partials, runVars, historyVars, abVars, chosen>>
  PROVE  RunIInv'
<1> USE DEF RunIInv, runVars, historyVars, abVars, judgeVars
<1>1. RunTypes' /\ RunShape'
  BY DEF RunTypes, RunShape
<1>2. Premises'
  BY DEF Premises, AllPremised, Needed
<1>3. FaultsTold'
  BY DEF FaultsTold, Blamed, Follows, Before, Tells
<1>4. Prompts' /\ Whole' /\ Course'
  BY DEF Prompts, Prompted, Whole, Course, Before
<1>5. Ledger' /\ Judgement'
  BY DEF Ledger, NothingIsLost, Judgement, WinsSurviveSwap, Pairs
<1> QED BY <1>1, <1>2, <1>3, <1>4, <1>5

\* Between two runs: a service is started again, or preferences are moved away.
LEMMA BetweenRunsKeep ==
  ASSUME RunIInv, pc = "idle", faulted' \subseteq Range(Arms),
         UNCHANGED <<partials, runVars, historyVars, abVars, chosen>>
  PROVE  RunIInv'
<1> USE DEF RunIInv, runVars, historyVars, abVars, judgeVars
<1>1. RunTypes' /\ RunShape'
  BY DEF RunTypes, RunShape
<1>2. Premises'
  BY Nothing DEF Premises, AllPremised, RunShape
<1>3. FaultsTold'
  BY DEF FaultsTold
<1>4. Prompts' /\ Whole' /\ Course'
  BY DEF Prompts, Prompted, Whole, Course
<1>5. Ledger' /\ Judgement'
  BY DEF Ledger, NothingIsLost, Judgement, WinsSurviveSwap, Pairs
<1> QED BY <1>1, <1>2, <1>3, <1>4, <1>5

\* A run that ends, one way or another: nothing is lost that is on disk.
LEMMA EndKeeps ==
  ASSUME RunIInv, Ended, Forgotten, AllPremised(runJson'), DOMAIN runJson' = {} \/ DOMAIN runJson' = Samples,
         UNCHANGED <<config, faulted, prefs, kind, round, from, named, own, worked>>,
         DOMAIN partials' \subseteq DOMAIN partials, \A r \in DOMAIN partials' : partials'[r] = partials[r],
         \A r \in worked : r \in DOMAIN partials' \/ r \in reported'
  PROVE  RunIInv'
<1> USE DEF RunIInv, Ended, Forgotten
<1>1. RunTypes' /\ RunShape'
  <2>1. RunTypes'
    BY Nothing, NotExecutedIs DEF RunTypes, Stops
  <2> QED BY <2>1, Nothing DEF RunShape
<1>2. Premises'
  <2>1. \A r \in DOMAIN partials' : AllPremised(partials'[r].results)
    BY DEF Premises
  <2> QED BY <2>1, Nothing, NotExecutedIs DEF Premises, AllPremised
<1>3. FaultsTold'
  BY DEF FaultsTold
<1>4. Prompts' /\ Whole' /\ Course'
  <2>1. Prompts'
    BY DEF Prompts, Prompted
  <2>2. Whole'
    BY DEF Whole, Samples
  <2> QED BY <2>1, <2>2 DEF Course
<1>5. Ledger' /\ Judgement'
  <2>1. Ledger'
    BY Nothing DEF Ledger, NothingIsLost
  <2>2. Judgement'
    BY DEF Judgement, WinsSurviveSwap, NoRows, RowNames
  <2> QED BY <2>1, <2>2
<1> QED BY <1>1, <1>2, <1>3, <1>4, <1>5

\* A kill takes what was in memory, and nothing from the disk.
LEMMA KillInv ==
  ASSUME EvalIInv, Kill, Forgotten, UNCHANGED runJson, OutsideAb PROVE EvalIInv'
<1>1. RunIInv
  BY DEF EvalIInv
<1>2. /\ Ended /\ UNCHANGED <<config, faulted, prefs, partials, kind, round, from, named, own, worked, reported>>
      /\ runJson' = runJson
  BY DEF Kill, serviceVars, historyVars
<1>3. AllPremised(runJson') /\ (DOMAIN runJson' = {} \/ DOMAIN runJson' = Samples)
  BY <1>1, <1>2 DEF RunIInv, Premises, Whole
<1>4. \A r \in worked : r \in DOMAIN partials' \/ r \in reported'
  BY <1>1, <1>2 DEF RunIInv, Ledger, NothingIsLost
<1>5. RunIInv'
  BY <1>1, <1>2, <1>3, <1>4, EndKeeps
<1>6. Readings' /\ DepositsAreEarned'
  BY DEF OutsideAb, EvalIInv, Readings, Honest, NoRow, DepositsAreEarned
<1> QED BY <1>5, <1>6 DEF EvalIInv

\* Edits, restarts of a service, and a start that is refused.
LEMMA BetweenRunsInv ==
  ASSUME EvalIInv, Edit \/ Deploy \/ AbStartRefused, UNCHANGED abVars, OutsideAb PROVE EvalIInv'
<1>1. RunIInv
  BY DEF EvalIInv
<1>2. UNCHANGED <<partials, runVars, historyVars, abVars, chosen>>
  BY DEF Edit, Deploy, AbStartRefused, OutsideAb
<1>3. pc = "idle" /\ faulted' \subseteq Range(Arms)
  <2>1. pc = "idle"
    BY DEF Edit, Deploy, AbStartRefused, MayStart
  <2>2. faulted' \subseteq faulted
    BY DEF Edit, Deploy, AbStartRefused
  <2> QED BY <1>1, <2>1, <2>2 DEF RunIInv, RunTypes
<1>4. RunIInv'
  BY <1>1, <1>2, <1>3, BetweenRunsKeep
<1>5. Readings' /\ DepositsAreEarned'
  BY DEF OutsideAb, EvalIInv, Readings, Honest, NoRow, DepositsAreEarned
<1> QED BY <1>4, <1>5 DEF EvalIInv

\* The second judging is of a reading's own criteria.
LEMMA RejudgeInv ==
  ASSUME EvalIInv, Rejudge, UNCHANGED <<left, rows, swayed>>, deposits' = {},
         runJson' = IF pc' # "idle" THEN <<>> ELSE runJson
  PROVE  EvalIInv'
<1>1. RunIInv
  BY DEF EvalIInv
<1>2. UNCHANGED <<config, faulted, prefs, partials, runVars, historyVars, abVars, chosen, readings>>
  BY DEF Rejudge, runnerVars, serviceVars, runVars, abVars, judgeVars
<1>3. RunIInv'
  BY <1>1, <1>2, RunsKeep
<1>4. rejudged'.rulers[1] = rejudged'.rulers[2]
  BY DEF Rejudge, Eligible
<1>5. Readings'
  BY <1>2, <1>4 DEF EvalIInv, Readings, Honest
<1>6. DepositsAreEarned'
  BY DEF DepositsAreEarned
<1> QED BY <1>3, <1>5, <1>6 DEF EvalIInv

\* What is confirmed was stored, and heard by a dialogue that found it.
LEMMA VerifyInv ==
  ASSUME EvalIInv, Verify, rejudged' = NoRow, UNCHANGED <<chosen, readings>>
  PROVE  EvalIInv'
<1>1. RunIInv
  BY DEF EvalIInv
<1>2. UNCHANGED <<config, faulted, prefs, partials, runVars, historyVars, abVars, chosen>>
  BY DEF Verify, runnerVars, serviceVars
<1>3. RunIInv'
  BY <1>1, <1>2, RunsKeep
<1>4. Readings'
  BY DEF EvalIInv, Readings, Honest, NoRow
<1>5. DepositsAreEarned'
  <2> SUFFICES ASSUME NEW d \in deposits' PROVE (d.saved \/ d.overlapping) /\ d.heard
    BY DEF DepositsAreEarned
  <2>1. PICK s \in Triggers, log \in Logs, chain \in Chains :
          \E i \in DOMAIN Writes(log) : d = Deposit(s, log, Writes(log)[i], Verifier(chain, Writes(log)[i].kind))
    BY DEF Verify
  <2> PICK i \in DOMAIN Writes(log) : d = Deposit(s, log, Writes(log)[i], Verifier(chain, Writes(log)[i].kind))
    BY <2>1
  <2>2. Overlapping(log) \/ Saved(log, Writes(log)[i].call)
    BY WritesAreSaved
  <2>3. d.saved \/ d.overlapping
    BY <2>1, <2>2 DEF Deposit
  <2>4. d.heard = runJson[Sample(Downstream[s.case], "B", s.k)].premised
    BY <2>1 DEF Deposit
  <2>5. s \in DOMAIN runJson /\ s.case \in DOMAIN Downstream
    BY DEF Triggers
  <2>6. DOMAIN runJson = Samples
    BY <1>1, <2>5 DEF RunIInv, Whole
  <2>7. s.k \in 1..K
    BY <2>5, <2>6 DEF Samples, Sample
  <2>8. Downstream[s.case] \in Range(Cases)
    BY <2>5, DepositsAssumption DEF Range
  <2>9. Sample(Downstream[s.case], "B", s.k) \in Samples
    BY <2>7, <2>8, ArmsAre DEF Samples
  <2> QED BY <1>1, <2>3, <2>4, <2>6, <2>9 DEF RunIInv, Premises, AllPremised
<1> QED BY <1>3, <1>4, <1>5 DEF EvalIInv

-----------------------------------------------------------------------------
(***************************************************************************)
(* The evaluation: executing a sample                                      *)
(***************************************************************************)

\* A run that goes on with the sample at hand.
LEMMA GoingOnKeeps ==
  ASSUME RunIInv, todo # <<>>, pc \in {"next", "conversing", "clearing"},
         pc' \in {"conversing", "clearing", "executed"},
         executed' \in Execution, faulted' \subseteq Range(Arms),
         UNCHANGED <<config, partials, kind, round, from, todo, results, named, own, worked, reported, abVars, chosen>>
  PROVE  RunTypes' /\ RunShape' /\ Prompts' /\ Whole' /\ Course' /\ Ledger' /\ Judgement'
<1> USE DEF RunIInv, abVars, judgeVars
<1>1. RunTypes' /\ RunShape'
  BY DEF RunTypes, RunShape, Stops
<1>2. Prompts' /\ Whole' /\ Course'
  BY DEF Prompts, Prompted, Whole, Course, Before
<1>3. Ledger' /\ Judgement'
  BY DEF Ledger, NothingIsLost, Judgement, WinsSurviveSwap
<1> QED BY <1>1, <1>2, <1>3

\* What the sample at hand requires has not to be run first any more.
LEMMA HeadIsPremised ==
  ASSUME RunIInv, todo # <<>> PROVE Head(todo) \in SampleSet /\ Premised(Head(todo))
<1>1. todo \in Seq(SampleSet)
  BY DEF RunIInv, RunTypes
<1>2. Head(todo) \in SampleSet /\ Head(todo) = todo[1] /\ 1 \in DOMAIN todo
  BY <1>1, HeadFacts
<1>3. 1..(1 - 1) = {}
  OBVIOUS
<1> QED BY <1>2, <1>3 DEF RunIInv, Premises, Premised

\* What a dialogue stores, and what faults a call leaves on.
LEMMA ConverseFacts ==
  ASSUME NEW s, NEW ok \in BOOLEAN, Converse(s, ok)
  PROVE  prefs \subseteq prefs' /\ (ok /\ Needed(s) => s \in prefs')
BY DEF Converse, Needed

LEMMA ApplyFacts ==
  ASSUME NEW arm \in Range(Arms), NEW on \in BOOLEAN, NEW ok \in BOOLEAN, ApplyFaults(arm, on, ok),
         faulted \subseteq Range(Arms)
  PROVE  /\ faulted' \subseteq faulted \cup {arm} /\ faulted' \subseteq Range(Arms)
         /\ ok /\ on => arm \in faulted'
         /\ ~on => faulted' \subseteq faulted /\ (ok => arm \notin faulted')
BY DEF ApplyFaults

\* The premises of a step within a sample: preferences are only added, and those
\* of a dialogue that succeeds are.
LEMMA PremisesKeep ==
  ASSUME RunIInv, todo # <<>>, prefs \subseteq prefs', executed'.premised = TRUE,
         pc' \in {"clearing", "executed"} /\ executed'.ok /\ Needed(Head(todo)) => Head(todo) \in prefs',
         UNCHANGED <<partials, todo, results, runJson>>
  PROVE  Premises'
<1>1. /\ AllPremised(results) /\ AllPremised(runJson) /\ \A r \in DOMAIN partials : AllPremised(partials[r].results)
      /\ \A i \in DOMAIN todo : \A p \in Prerequisites(todo[i]) :
           p \in DOMAIN results /\ results[p].ok => p \in prefs \/ \E j \in 1..(i - 1) : todo[j] = p
  BY DEF RunIInv, Premises
<1>2. Needed(Head(todo))' = Needed(Head(todo)) /\ Head(todo)' = Head(todo)
  BY DEF Needed
<1>3. pc' \in {"clearing", "executed"} /\ executed'.ok /\ Needed(Head(todo))' => Head(todo)' \in prefs'
  BY <1>2
<1> QED BY <1>1, <1>3 DEF Premises, AllPremised

\* A case without faults: the service may have some, which are told of already.
LEMMA ExecuteInv ==
  ASSUME EvalIInv, Execute, UNCHANGED abVars, OutsideAb PROVE EvalIInv'
<1>1. RunIInv /\ Readings
  BY DEF EvalIInv
<1>2. /\ pc = "next" /\ todo # <<>> /\ Head(todo).case \notin Faulty /\ pc' = "executed"
      /\ UNCHANGED <<config, faulted, partials, kind, round, from, todo, results, named, own, worked, reported,
                     abVars, chosen>>
  BY DEF Execute, historyVars, OutsideAb
<1>3. PICK ok \in BOOLEAN :
        /\ Converse(Head(todo), ok)
        /\ executed' = [ok |-> ok, clearError |-> FALSE,
                        declared |-> Declared(Head(todo)), premised |-> Premised(Head(todo))]
  BY DEF Execute
<1>4. Premised(Head(todo)) = TRUE /\ Declared(Head(todo)) \in BOOLEAN
  BY <1>1, <1>2, HeadIsPremised DEF Declared, Premised
<1>5. executed' \in Execution /\ executed'.premised = TRUE /\ executed'.ok = ok /\ executed'.clearError = FALSE
      /\ executed'.declared = Declared(Head(todo))
  BY <1>3, <1>4 DEF Execution
<1>6. RunTypes' /\ RunShape' /\ Prompts' /\ Whole' /\ Course' /\ Ledger' /\ Judgement'
  BY <1>1, <1>2, <1>5, GoingOnKeeps DEF RunIInv, RunTypes
<1>7. Premises'
  BY <1>1, <1>2, <1>3, <1>5, ConverseFacts, PremisesKeep DEF abVars
<1>8. FaultsTold'
  <2>1. \A a \in faulted : Blamed(a)
    BY <1>1, <1>2 DEF RunIInv, FaultsTold
  <2>2. executed'.declared = TRUE \/ Blamed(Head(todo).arm)
    <3>1. CASE Head(todo).arm \in faulted
      BY <2>1, <3>1
    <3>2. CASE Head(todo).arm \notin faulted
      <4>1. Declared(Head(todo))
        BY <1>2, <3>2 DEF Declared
      <4> QED BY <1>4, <1>5, <4>1
    <3> QED BY <3>1, <3>2
  <2> QED BY <1>1, <1>2, <2>1, <2>2 DEF RunIInv, FaultsTold, Blamed, Follows, Before, Tells
<1>9. Readings' /\ DepositsAreEarned'
  BY <1>1 DEF OutsideAb, Readings, Honest, NoRow, DepositsAreEarned
<1> QED BY <1>6, <1>7, <1>8, <1>9 DEF EvalIInv, RunIInv

\* Faults are on that the case declares, perhaps though the call has failed.
LEMMA InjectInv ==
  ASSUME EvalIInv, Inject, UNCHANGED abVars, OutsideAb PROVE EvalIInv'
<1>1. RunIInv /\ Readings
  BY DEF EvalIInv
<1>2. /\ pc = "next" /\ todo # <<>> /\ Head(todo).case \in Faulty /\ executed' = NotExecuted
      /\ UNCHANGED <<config, prefs, partials, kind, round, from, todo, results, named, own, worked, reported,
                     abVars, chosen>>
  BY DEF Inject, historyVars, OutsideAb
<1>3. PICK ok \in BOOLEAN :
        ApplyFaults(Head(todo).arm, TRUE, ok) /\ pc' = IF ok THEN "conversing" ELSE "clearing"
  BY DEF Inject
<1>4. Head(todo).arm \in Range(Arms) /\ faulted \subseteq Range(Arms)
  BY <1>1, <1>2, HeadIsPremised DEF RunIInv, RunTypes, SampleSet
<1>5. /\ faulted' \subseteq faulted \cup {Head(todo).arm} /\ faulted' \subseteq Range(Arms)
      /\ pc' = "conversing" => Head(todo).arm \in faulted'
      /\ pc' \in {"conversing", "clearing"}
  BY <1>3, <1>4, ApplyFacts
<1>6. RunTypes' /\ RunShape' /\ Prompts' /\ Whole' /\ Course' /\ Ledger' /\ Judgement'
  BY <1>1, <1>2, <1>5, NotExecutedIs, GoingOnKeeps
<1>7. Premises'
  BY <1>1, <1>2, NotExecutedIs, PremisesKeep DEF abVars
<1>8. FaultsTold'
  <2>1. \A a \in faulted : Blamed(a)
    BY <1>1, <1>2 DEF RunIInv, FaultsTold
  <2> QED BY <1>1, <1>2, <1>5, <2>1, NotExecutedIs DEF RunIInv, FaultsTold, Blamed, Follows, Before, Tells
<1>9. Readings' /\ DepositsAreEarned'
  BY <1>1 DEF OutsideAb, Readings, Honest, NoRow, DepositsAreEarned
<1> QED BY <1>6, <1>7, <1>8, <1>9 DEF EvalIInv, RunIInv

\* A dialogue under the faults its case declares.
LEMMA ConverseFaultyInv ==
  ASSUME EvalIInv, ConverseFaulty, UNCHANGED abVars, OutsideAb PROVE EvalIInv'
<1>1. RunIInv /\ Readings
  BY DEF EvalIInv
<1>2. /\ pc = "conversing" /\ pc' = "clearing" /\ todo # <<>>
      /\ UNCHANGED <<config, faulted, partials, kind, round, from, todo, results, named, own, worked, reported,
                     abVars, chosen>>
  BY <1>1 DEF ConverseFaulty, historyVars, OutsideAb, RunIInv, RunShape
<1>3. PICK ok \in BOOLEAN :
        /\ Converse(Head(todo), ok)
        /\ executed' = [ok |-> ok, clearError |-> FALSE,
                        declared |-> ok => Declared(Head(todo)), premised |-> Premised(Head(todo))]
  BY DEF ConverseFaulty
<1>4. Premised(Head(todo)) = TRUE
  BY <1>1, <1>2, HeadIsPremised DEF Premised
<1>5. (ok => Declared(Head(todo))) = TRUE
  BY <1>1, <1>2 DEF Declared, RunIInv, FaultsTold
<1>6. executed' \in Execution /\ executed'.premised = TRUE /\ executed'.ok = ok /\ executed'.declared = TRUE
  BY <1>3, <1>4, <1>5 DEF Execution
<1>7. RunTypes' /\ RunShape' /\ Prompts' /\ Whole' /\ Course' /\ Ledger' /\ Judgement'
  BY <1>1, <1>2, <1>6, GoingOnKeeps DEF RunIInv, RunTypes
<1>8. Premises'
  BY <1>1, <1>2, <1>3, <1>6, ConverseFacts, PremisesKeep DEF abVars
<1>9. FaultsTold'
  BY <1>1, <1>2, <1>6 DEF RunIInv, FaultsTold, Blamed, Follows, Before, Tells
<1>10. Readings' /\ DepositsAreEarned'
  BY <1>1 DEF OutsideAb, Readings, Honest, NoRow, DepositsAreEarned
<1> QED BY <1>7, <1>8, <1>9, <1>10 DEF EvalIInv, RunIInv

\* A clearing that fails is told of, one that succeeds leaves nothing to tell.
LEMMA ClearInv ==
  ASSUME EvalIInv, Clear, UNCHANGED abVars, OutsideAb PROVE EvalIInv'
<1>1. RunIInv /\ Readings
  BY DEF EvalIInv
<1>2. /\ pc = "clearing" /\ pc' = "executed" /\ todo # <<>>
      /\ UNCHANGED <<config, prefs, partials, kind, round, from, todo, results, named, own, worked, reported,
                     abVars, chosen>>
  BY <1>1 DEF Clear, historyVars, OutsideAb, RunIInv, RunShape
<1>3. PICK ok \in BOOLEAN :
        ApplyFaults(Head(todo).arm, FALSE, ok) /\ executed' = [executed EXCEPT !.clearError = ClearError(ok)]
  BY DEF Clear
<1>4. Head(todo).arm \in Range(Arms) /\ faulted \subseteq Range(Arms) /\ executed \in Execution
  BY <1>1, <1>2, HeadIsPremised DEF RunIInv, RunTypes, SampleSet
<1>5. /\ faulted' \subseteq faulted /\ faulted' \subseteq Range(Arms)
      /\ ok => Head(todo).arm \notin faulted'
  BY <1>3, <1>4, ApplyFacts
<1>6. /\ executed' \in Execution /\ executed'.premised = executed.premised /\ executed'.ok = executed.ok
      /\ executed'.declared = executed.declared /\ executed'.clearError = ~ok
  BY <1>3, <1>4 DEF Execution, ClearError
<1>7. RunTypes' /\ RunShape' /\ Prompts' /\ Whole' /\ Course' /\ Ledger' /\ Judgement'
  BY <1>1, <1>2, <1>5, <1>6, GoingOnKeeps
<1>8. Premises'
  BY <1>1, <1>2, <1>6, PremisesKeep DEF abVars, RunIInv, Premises
<1>9. FaultsTold'
  <2>1. \A a \in faulted : Blamed(a) \/ a = Head(todo).arm
    BY <1>1, <1>2 DEF RunIInv, FaultsTold
  <2>2. \A a \in faulted' : Blamed(a) \/ executed'.clearError
    BY <1>5, <1>6, <2>1
  <2> QED BY <1>1, <1>2, <1>6, <2>2 DEF RunIInv, FaultsTold, Blamed, Follows, Before, Tells
<1>10. Readings' /\ DepositsAreEarned'
  BY <1>1 DEF OutsideAb, Readings, Honest, NoRow, DepositsAreEarned
<1> QED BY <1>7, <1>8, <1>9, <1>10 DEF EvalIInv, RunIInv

-----------------------------------------------------------------------------
(***************************************************************************)
(* The evaluation: judging, reports and the end of a run                   *)
(***************************************************************************)

\* There are finitely many pairs.
LEMMA PairsAreCounted == Pairs \in Nat
<1> DEFINE all == Range(Cases) \X (1..K)
           paired == {pair \in all : \A a \in Range(Arms) : results[Sample(pair[1], a, pair[2])].ok}
<1>1. Cases \in Seq(STRING) /\ K \in Nat
  BY CaseRunnerAssumption, AbRunAssumption
<1>2. Len(Cases) \in Nat /\ DOMAIN Cases = 1..Len(Cases) /\ 1 \in Int /\ Len(Cases) \in Int /\ K \in Int
  BY <1>1
<1>3. IsFiniteSet(1..Len(Cases)) /\ IsFiniteSet(1..K)
  BY <1>2, FS_Interval
<1>4. Cases \in [1..Len(Cases) -> Range(Cases)]
  BY <1>1, <1>2 DEF Range
<1>5. Cases \in Surjection(1..Len(Cases), Range(Cases))
  BY <1>4, Fun_RangeProperties
<1>6. IsFiniteSet(Range(Cases))
  BY <1>3, <1>5, FS_Surjection
<1>7. IsFiniteSet(all)
  BY <1>3, <1>6, FS_Product
<1>8. paired \in SUBSET all
  OBVIOUS
<1>9. Pairs = Cardinality(paired)
  BY DEF Pairs
<1> HIDE DEF all, paired
<1>10. IsFiniteSet(paired)
  BY <1>7, <1>8, FS_Subset
<1> QED BY <1>9, <1>10, FS_CardinalityType

\* All samples are executed, and the judging begins with all pairs left.
LEMMA JudgeInv ==
  ASSUME EvalIInv, Judge, OutsideAb PROVE EvalIInv'
<1>1. RunIInv /\ Readings
  BY DEF EvalIInv
<1>2. /\ pc = "next" /\ kind = "ab" /\ todo = <<>> /\ left' = Pairs /\ pc' = "judging"
      /\ UNCHANGED <<config, faulted, prefs, partials, kind, round, from, todo, results, executed, named, own,
                     worked, reported, rows, runJson, swayed, chosen>>
  BY DEF Judge, serviceVars, historyVars, OutsideAb
<1>3. RunTypes' /\ RunShape'
  BY <1>1, <1>2 DEF RunIInv, RunTypes, RunShape, Stops
<1>4. Premises'
  BY <1>1, <1>2 DEF RunIInv, Premises, AllPremised
<1>5. FaultsTold'
  BY <1>1, <1>2 DEF RunIInv, FaultsTold, Blamed, Follows, Before, Tells
<1>6. Prompts' /\ Whole' /\ Course'
  BY <1>1, <1>2 DEF RunIInv, Prompts, Prompted, Whole, Course
<1>7. Ledger'
  BY <1>1, <1>2 DEF RunIInv, Ledger, NothingIsLost
<1>8. Judgement'
  <2>1. rows = NoRows /\ swayed = 0
    BY <1>1, <1>2 DEF RunIInv, Judgement
  <2>2. Pairs' = Pairs
    BY <1>2 DEF Pairs
  <2>3. rows'.wins = 0 /\ rows'.losses = 0 /\ rows' \in [RowNames -> Nat]
    BY <1>2, <2>1 DEF NoRows, RowNames
  <2> QED BY <1>2, <2>1, <2>2, <2>3, PairsAreCounted DEF Judgement, WinsSurviveSwap
<1>9. Readings' /\ DepositsAreEarned'
  BY <1>1 DEF OutsideAb, Readings, Honest, NoRow, DepositsAreEarned
<1> QED BY <1>3, <1>4, <1>5, <1>6, <1>7, <1>8, <1>9 DEF EvalIInv, RunIInv

\* A judge that names the same place in both orders names two arms.
LEMMA TallyFacts ==
  ASSUME NEW first, NEW second, NEW row, row = Tally(MapWinner(first, <<"A", "B">>), MapWinner(second, <<"B", "A">>))
  PROVE  row \in RowNames /\ (first = second /\ first \in {"1", "2"} => row = "flips")
<1>1. row \in RowNames
  BY DEF Tally, RowNames
<1>2. ASSUME first = second, first \in {"1", "2"} PROVE row = "flips"
  <2>1. CASE first = "1"
    <3>1. MapWinner("1", <<"A", "B">>) = "A" /\ MapWinner("1", <<"B", "A">>) = "B"
      BY DEF MapWinner
    <3>2. row = Tally("A", "B")
      BY <1>2, <2>1, <3>1
    <3> QED BY <3>2 DEF Tally
  <2>2. CASE first = "2"
    <3>1. MapWinner("2", <<"A", "B">>) = "B" /\ MapWinner("2", <<"B", "A">>) = "A"
      BY DEF MapWinner
    <3>2. row = Tally("B", "A")
      BY <1>2, <2>2, <3>1
    <3> QED BY <3>2 DEF Tally
  <2> QED BY <1>2, <2>1, <2>2
<1> QED BY <1>1, <1>2

\* A pair is judged: the two orders are one vote.
LEMMA JudgePairInv ==
  ASSUME EvalIInv, JudgePair, OutsideAb PROVE EvalIInv'
<1>1. RunIInv /\ Readings
  BY DEF EvalIInv
<1>2. /\ pc = "judging" /\ left > 0 /\ left' = left - 1
      /\ UNCHANGED <<config, faulted, prefs, partials, pc, kind, round, from, todo, results, executed, named, own,
                     worked, reported, runJson, chosen>>
  BY DEF JudgePair, serviceVars, runVars, historyVars, OutsideAb
<1>3. RunTypes' /\ RunShape'
  BY <1>1, <1>2 DEF RunIInv, RunTypes, RunShape
<1>4. Premises'
  BY <1>1, <1>2 DEF RunIInv, Premises, AllPremised, Needed
<1>5. FaultsTold'
  BY <1>1, <1>2 DEF RunIInv, FaultsTold, Blamed, Follows, Before, Tells
<1>6. Prompts' /\ Whole' /\ Course'
  BY <1>1, <1>2 DEF RunIInv, Prompts, Prompted, Whole, Course, Before
<1>7. Ledger'
  BY <1>1, <1>2 DEF RunIInv, Ledger, NothingIsLost
<1>8. Judgement'
  <2>1. PICK first, second \in Answers :
          LET row == Tally(MapWinner(first, <<"A", "B">>), MapWinner(second, <<"B", "A">>))
          IN /\ rows' = [rows EXCEPT ![row] = @ + 1]
             /\ swayed' = IF first = second /\ first \in {"1", "2"} THEN swayed + 1 ELSE swayed
    BY DEF JudgePair
  <2> DEFINE row == Tally(MapWinner(first, <<"A", "B">>), MapWinner(second, <<"B", "A">>))
  <2>2. row \in RowNames /\ (first = second /\ first \in {"1", "2"} => row = "flips")
    BY TallyFacts
  <2>3. /\ rows' = [rows EXCEPT ![row] = @ + 1]
        /\ swayed' = IF first = second /\ first \in {"1", "2"} THEN swayed + 1 ELSE swayed
    BY <2>1
  <2> HIDE DEF row
  <2>4. rows \in [RowNames -> Nat] /\ swayed \in Nat /\ left \in Nat
        /\ swayed + rows.wins + rows.losses <= Pairs - left
    BY <1>1, <1>2 DEF RunIInv, Judgement, WinsSurviveSwap
  <2>5. rows' \in [RowNames -> Nat] /\ swayed' \in Nat /\ left' \in Nat
    BY <1>2, <2>2, <2>3, <2>4
  <2>6. /\ rows'.wins = IF row = "wins" THEN rows.wins + 1 ELSE rows.wins
        /\ rows'.losses = IF row = "losses" THEN rows.losses + 1 ELSE rows.losses
        /\ rows.wins \in Nat /\ rows.losses \in Nat
    BY <2>2, <2>3, <2>4 DEF RowNames
  <2>7. swayed' + rows'.wins + rows'.losses <= swayed + rows.wins + rows.losses + 1
    <3>1. CASE row = "flips"
      BY <2>3, <2>4, <2>6, <3>1
    <3>2. CASE row # "flips"
      <4>1. swayed' = swayed
        BY <2>2, <2>3, <3>2
      <4> QED BY <2>4, <2>6, <4>1
    <3> QED BY <3>1, <3>2
  <2>8. Pairs' = Pairs
    BY <1>2 DEF Pairs
  <2> QED BY <1>2, <2>4, <2>5, <2>6, <2>7, <2>8, PairsAreCounted DEF Judgement, WinsSurviveSwap
<1>9. Readings' /\ DepositsAreEarned'
  BY <1>1 DEF OutsideAb, Readings, Honest, NoRow, DepositsAreEarned
<1> QED BY <1>3, <1>4, <1>5, <1>6, <1>7, <1>8, <1>9 DEF EvalIInv, RunIInv

\* The report has all samples of the plan; they are the run's that deposits are
\* verified against.
LEMMA AbReportInv ==
  ASSUME EvalIInv, AbReport, OutsideAb PROVE EvalIInv'
<1>1. RunIInv /\ Readings
  BY DEF EvalIInv
<1>2. /\ pc = "judging" /\ runJson' = results /\ reported' = reported \cup {round, from} /\ Forgotten
      /\ UNCHANGED <<config, faulted, prefs, partials, kind, round, from, named, own, worked, chosen>>
  BY DEF AbReport, serviceVars, OutsideAb
<1>3. todo = <<>> /\ kind = "ab"
  BY <1>1, <1>2 DEF RunIInv, RunShape
<1>4. AllPremised(runJson') /\ DOMAIN runJson' = Samples
  <2>1. DOMAIN results \subseteq Samples
    BY <1>1, <1>2, <1>3 DEF RunIInv, Prompts, Prompted
  <2>2. Samples \subseteq DOMAIN results
    BY <1>1, <1>2, <1>3, Nothing DEF RunIInv, Whole
  <2>3. AllPremised(results)
    BY <1>1 DEF RunIInv, Premises
  <2> QED BY <1>2, <2>1, <2>2, <2>3
<1>5. \A r \in worked : r \in DOMAIN partials' \/ r \in reported'
  BY <1>1, <1>2 DEF RunIInv, Ledger, NothingIsLost
<1>6. RunIInv'
  <2>1. CASE Ended
    BY <1>1, <1>2, <1>4, <1>5, <2>1, EndKeeps
  <2>2. CASE pc' = "unlink" /\ UNCHANGED <<todo, results, executed>>
    <3>1. RunTypes' /\ RunShape'
      BY <1>1, <1>2, <1>3, <2>2 DEF RunIInv, RunTypes, RunShape, Stops
    <3>2. Premises'
      <4>1. DOMAIN todo' = {}
        BY <1>3, <2>2, Nothing
      <4> QED BY <1>1, <1>2, <1>4, <2>2, <4>1 DEF RunIInv, Premises, AllPremised
    <3>3. FaultsTold'
      BY <1>1, <1>2, <2>2 DEF RunIInv, FaultsTold, Blamed, Follows, Before, Tells
    <3>4. Prompts' /\ Course'
      BY <1>1, <1>2, <1>3, <2>2 DEF RunIInv, Prompts, Prompted, Course
    <3>5. Whole'
      BY <1>1, <1>2, <1>4, <2>2 DEF RunIInv, Whole, Samples
    <3>6. Ledger'
      BY <1>1, <1>2, <1>5 DEF RunIInv, Ledger, NothingIsLost
    <3>7. Judgement'
      BY <1>2, <2>2 DEF Forgotten, Judgement, WinsSurviveSwap, NoRows, RowNames
    <3> QED BY <3>1, <3>2, <3>3, <3>4, <3>5, <3>6, <3>7 DEF RunIInv
  <2>3. \/ Ended
        \/ pc' = "unlink" /\ UNCHANGED <<todo, results, executed>>
    BY DEF AbReport
  <2> QED BY <2>1, <2>2, <2>3
<1>7. Readings' /\ DepositsAreEarned'
  BY <1>1 DEF OutsideAb, Readings, Honest, NoRow, DepositsAreEarned
<1> QED BY <1>6, <1>7 DEF EvalIInv

\* A partial file goes, one that is in a report.
LEMMA WithoutFacts ==
  ASSUME NEW r, Without(r)
  PROVE  /\ DOMAIN partials' = DOMAIN partials \ {r}
         /\ \A n \in DOMAIN partials' : partials'[n] = partials[n]
BY DEF Without

\* The partial files go after the report, that of this run first.
LEMMA AbUnlinkInv ==
  ASSUME EvalIInv, AbUnlink, OutsideAb PROVE EvalIInv'
<1>1. RunIInv /\ Readings
  BY DEF EvalIInv
<1> DEFINE gone == IF pc = "unlink" THEN round ELSE from
<1>2. /\ pc \in {"unlink", "unlink_old"} /\ kind = "ab" /\ Without(gone)
      /\ UNCHANGED <<config, faulted, prefs, kind, round, from, named, own, worked, reported, left, rows, runJson,
                     swayed, chosen>>
  BY DEF AbUnlink, serviceVars, historyVars, abVars, judgeVars, OutsideAb
<1>3. todo = <<>> /\ round \in reported /\ from \in reported /\ left = 0 /\ rows = NoRows /\ swayed = 0
  BY <1>1, <1>2 DEF RunIInv, RunShape, Ledger, Judgement
<1>4. /\ DOMAIN partials' = DOMAIN partials \ {gone} /\ gone \in reported
      /\ \A n \in DOMAIN partials' : partials'[n] = partials[n]
  BY <1>2, <1>3, WithoutFacts
<1>5. \A r \in worked : r \in DOMAIN partials' \/ r \in reported'
  BY <1>1, <1>2, <1>4 DEF RunIInv, Ledger, NothingIsLost
<1> HIDE DEF gone
<1>6. RunIInv'
  <2>1. CASE Ended
    <3>1. AllPremised(runJson') /\ (DOMAIN runJson' = {} \/ DOMAIN runJson' = Samples)
      BY <1>1, <1>2 DEF RunIInv, Premises, Whole
    <3>2. Forgotten
      BY <1>2, <1>3 DEF Forgotten
    <3> QED BY <1>1, <1>2, <1>4, <1>5, <2>1, <3>1, <3>2, EndKeeps
  <2>2. CASE pc = "unlink" /\ from # 0 /\ pc' = "unlink_old" /\ UNCHANGED <<todo, results, executed>>
    <3>1. RunTypes'
      BY <1>1, <1>2, <1>4, <2>2 DEF RunIInv, RunTypes, Stops
    <3>2. RunShape'
      BY <1>1, <1>2, <1>3, <2>2 DEF RunIInv, RunShape
    <3>3. Premises'
      <4>1. DOMAIN todo' = {}
        BY <1>3, <2>2, Nothing
      <4> QED BY <1>1, <1>2, <1>4, <2>2, <4>1 DEF RunIInv, Premises, AllPremised
    <3>4. FaultsTold'
      BY <1>1, <1>2, <2>2 DEF RunIInv, FaultsTold, Blamed, Follows, Before, Tells
    <3>5. Prompts' /\ Course'
      BY <1>1, <1>2, <1>3, <1>4, <2>2 DEF RunIInv, Prompts, Prompted, Course
    <3>6. Whole'
      BY <1>1, <1>2, <2>2 DEF RunIInv, Whole, Samples
    <3>7. Ledger'
      BY <1>1, <1>2, <1>3, <1>5 DEF RunIInv, Ledger, NothingIsLost
    <3>8. Judgement'
      BY <1>1, <1>2, <1>3, <2>2 DEF RunIInv, Judgement, WinsSurviveSwap
    <3> QED BY <3>1, <3>2, <3>3, <3>4, <3>5, <3>6, <3>7, <3>8 DEF RunIInv
  <2>3. \/ Ended
        \/ pc = "unlink" /\ from # 0 /\ pc' = "unlink_old" /\ UNCHANGED <<todo, results, executed>>
    BY DEF AbUnlink
  <2> QED BY <2>1, <2>2, <2>3
<1>7. Readings' /\ DepositsAreEarned'
  BY <1>1 DEF OutsideAb, Readings, Honest, NoRow, DepositsAreEarned
<1> QED BY <1>6, <1>7 DEF EvalIInv

\* What a regression's record shows of a sample is what the report says of it,
\* unless it tells why not.
LEMMA RegReportInv ==
  ASSUME EvalIInv, RegReport, rejudged' = NoRow, UNCHANGED <<left, rows, swayed>>, deposits' = {},
         runJson' = IF pc' # "idle" THEN <<>> ELSE runJson
  PROVE  EvalIInv'
<1>1. RunIInv /\ Readings
  BY DEF EvalIInv
<1>2. /\ pc = "next" /\ kind = "regression" /\ todo = <<>> /\ pc' = "unlink" /\ runJson' = <<>>
      /\ reported' = reported \cup {round}
      /\ UNCHANGED <<config, faulted, prefs, partials, kind, round, from, todo, results, executed,
                     named, own, worked, chosen>>
  BY DEF RegReport, serviceVars
<1>3. RunTypes' /\ RunShape'
  BY <1>1, <1>2 DEF RunIInv, RunTypes, RunShape, Stops
<1>4. Premises'
  BY <1>1, <1>2, Nothing DEF RunIInv, Premises, AllPremised
<1>5. FaultsTold'
  BY <1>1, <1>2 DEF RunIInv, FaultsTold, Blamed, Follows, Before, Tells
<1>6. Prompts' /\ Whole' /\ Course'
  BY <1>1, <1>2, Nothing DEF RunIInv, Prompts, Prompted, Whole, Course, Before
<1>7. Ledger'
  BY <1>1, <1>2 DEF RunIInv, Ledger, NothingIsLost
<1>8. Judgement'
  BY <1>1, <1>2 DEF RunIInv, Judgement, WinsSurviveSwap
<1>9. Readings'
  <2>1. ASSUME NEW s \in DOMAIN results PROVE Honest(Reading(s))
    <3> SUFFICES ASSUME from = 0, Reading(s).told # TRUE, Service \notin named
                 PROVE  Reading(s).truth = [prompt |-> Reading(s).group[1].prompt, declared |-> TRUE]
      BY DEF Honest, Reading, Line
    <3>1. s \in own /\ s.arm = Service
      BY <1>1, <1>2 DEF RunIInv, RunShape, Course
    <3>2. results[s].config.prompt = config[Service].prompt
      BY <1>1, <1>2, <3>1 DEF RunIInv, Prompts
    <3>3. ~\E t \in DOMAIN results : (results[t].clearError \/ results[t].lost) /\ (t = s \/ Before(t.case, s.case))
      BY DEF Reading
    <3>4. results[s].declared = TRUE
      <4>1. \/ results[s].declared = TRUE \/ s.arm \in named
            \/ \E t \in own : Tells(t) /\ Follows(t, s)
        BY <1>1, <1>2, <3>1 DEF RunIInv, FaultsTold
      <4>2. ASSUME NEW t \in own, Tells(t), Follows(t, s) PROVE FALSE
        <5>1. t \in DOMAIN results
          BY <1>1, <1>2 DEF RunIInv, RunShape
        <5> QED BY <1>2, <3>3, <4>2, <5>1 DEF Tells, Follows
      <4> QED BY <3>1, <4>1, <4>2
    <3> QED BY <3>2, <3>4 DEF Reading, Line
  <2>2. \A reading \in readings' : reading \in readings \/ \E s \in DOMAIN results : reading = Reading(s)
    BY DEF RegReport
  <2>3. \A reading \in readings' : Honest(reading)
    BY <1>1, <2>1, <2>2 DEF Readings
  <2> QED BY <2>3 DEF Readings, Honest, NoRow
<1>10. DepositsAreEarned'
  BY DEF DepositsAreEarned
<1> QED BY <1>3, <1>4, <1>5, <1>6, <1>7, <1>8, <1>9, <1>10 DEF EvalIInv, RunIInv

\* The partial file of a regression goes after its report.
LEMMA RegUnlinkInv ==
  ASSUME EvalIInv, RegUnlink, rejudged' = NoRow, UNCHANGED <<left, rows, swayed>>, deposits' = {},
         runJson' = IF pc' # "idle" THEN <<>> ELSE runJson
  PROVE  EvalIInv'
<1>1. RunIInv /\ Readings
  BY DEF EvalIInv
<1>2. /\ pc = "unlink" /\ Without(round) /\ Ended /\ runJson' = runJson
      /\ UNCHANGED <<config, faulted, prefs, kind, round, from, named, own, worked, reported, left, rows, swayed,
                     chosen, readings>>
  BY DEF RegUnlink, serviceVars, historyVars, Ended
<1>3. round \in reported /\ left = 0 /\ rows = NoRows /\ swayed = 0
  BY <1>1, <1>2 DEF RunIInv, Ledger, Judgement
<1>4. DOMAIN partials' = DOMAIN partials \ {round} /\ \A n \in DOMAIN partials' : partials'[n] = partials[n]
  BY <1>2, WithoutFacts
<1>5. \A r \in worked : r \in DOMAIN partials' \/ r \in reported'
  BY <1>1, <1>2, <1>3, <1>4 DEF RunIInv, Ledger, NothingIsLost
<1>6. AllPremised(runJson') /\ (DOMAIN runJson' = {} \/ DOMAIN runJson' = Samples)
  BY <1>1, <1>2 DEF RunIInv, Premises, Whole
<1>7. Forgotten
  BY <1>2, <1>3 DEF Forgotten
<1>8. RunIInv'
  BY <1>1, <1>2, <1>4, <1>5, <1>6, <1>7, EndKeeps
<1>9. Readings' /\ DepositsAreEarned'
  BY <1>1, <1>2 DEF Readings, Honest, NoRow, DepositsAreEarned
<1> QED BY <1>8, <1>9 DEF EvalIInv

-----------------------------------------------------------------------------
(***************************************************************************)
(* The evaluation: starts, records and the theorems                        *)
(***************************************************************************)

\* A run begins anew, or with the results of a file of the same prompts.
LEMMA AbStartInv ==
  ASSUME EvalIInv, AbStart, OutsideAb PROVE EvalIInv'
<1>1. RunIInv /\ Readings
  BY DEF EvalIInv
<1>2. PICK r \in {0} \cup DOMAIN partials :
        /\ r # 0 => Readable(r, "ab") /\ Resumable(r)
        /\ Begin("ab", r, IF r = 0 THEN <<>> ELSE partials[r].results)
  BY DEF AbStart
<1>3. /\ pc = "idle" /\ kind' = "ab" /\ round' = round + 1 /\ from' = r /\ named' = faulted /\ own' = {}
      /\ pc' = "next" /\ executed' = NotExecuted /\ results' = IF r = 0 THEN <<>> ELSE partials[r].results
  BY <1>2 DEF Begin
<1>4. /\ todo' = Pending(DOMAIN results') /\ WritePartial(round', results') /\ left' = 0 /\ rows' = NoRows
      /\ runJson' = <<>> /\ UNCHANGED <<config, faulted, worked, reported, swayed>>
  BY DEF AbStart
<1>5. /\ DOMAIN results' \subseteq SampleSet /\ AllPremised(results') /\ Prompted(results', config)
      /\ r = 0 => DOMAIN results' = {}
      /\ r \in Nat
  <2>1. CASE r = 0
    BY <1>3, <2>1, Nothing DEF AllPremised, Prompted
  <2>2. CASE r # 0
    <3>1. r \in DOMAIN partials /\ partials[r].kind = "ab" /\ results' = partials[r].results
      BY <1>2, <1>3, <2>2 DEF Readable
    <3>2. DOMAIN results' \subseteq SampleSet /\ AllPremised(results') /\ Prompted(results', partials[r].config)
      BY <1>1, <3>1 DEF RunIInv, RunTypes, Premises, Prompts
    <3>3. \A a \in Range(Arms) : partials[r].config[a].prompt = config[a].prompt
      BY <1>2, <2>2 DEF Resumable
    <3>4. \A s \in DOMAIN results' : s.arm \in Range(Arms)
      BY <3>2 DEF SampleSet
    <3>5. r \in Nat
      BY <1>1, <3>1 DEF RunIInv, RunTypes
    <3> QED BY <2>2, <3>2, <3>3, <3>4, <3>5 DEF Prompted
  <2> QED BY <2>1, <2>2
<1>6. /\ todo' \in Seq(SampleSet) /\ ToSet(todo') \subseteq Samples
      /\ Samples \subseteq DOMAIN results' \cup ToSet(todo')
      /\ \A i, j \in DOMAIN todo' : todo'[i] = todo'[j] => i = j
      /\ \A j \in DOMAIN todo' : \A p \in Prerequisites(todo'[j]) \cap DOMAIN results' :
           \E i \in 1..(j - 1) : todo'[i] = p
  <2> DEFINE done == DOMAIN results'
  <2>1. done \in SUBSET SampleSet /\ todo' = Pending(done)
    BY <1>4, <1>5
  <2> HIDE DEF done
  <2>2. /\ todo' \in Seq(SampleSet) /\ ToSet(todo') \subseteq Samples
        /\ \A s \in Samples : s \in done \/ s \in ToSet(todo')
        /\ \A i, j \in DOMAIN todo' : todo'[i] = todo'[j] => i = j
        /\ \A j \in DOMAIN todo' : \A p \in Prerequisites(todo'[j]) \cap done : \E i \in 1..(j - 1) : todo'[i] = p
    BY <2>1, PendingFacts
  <2> QED BY <2>2 DEF done
<1>7. /\ DOMAIN partials' = DOMAIN partials \cup {round'}
      /\ partials'[round'].kind = "ab" /\ partials'[round'].results = results' /\ partials'[round'].config = config
      /\ \A n \in DOMAIN partials : n # round' => partials'[n] = partials[n]
  BY <1>3, <1>4 DEF WritePartial
<1>8. RunTypes' /\ RunShape'
  <2>1. round \in Nat /\ DOMAIN partials \subseteq 1..round /\ faulted \subseteq Range(Arms)
        /\ \A n \in DOMAIN partials : DOMAIN partials[n].results \subseteq SampleSet
    BY <1>1 DEF RunIInv, RunTypes
  <2>2. DOMAIN partials' \subseteq 1..round' /\ round' > 0
    BY <1>3, <1>7, <2>1
  <2>3. RunTypes'
    BY <1>3, <1>4, <1>5, <1>6, <1>7, <2>1, <2>2, NotExecutedIs DEF RunTypes, Stops
  <2> QED BY <1>3, <1>5, <1>6, <2>2, <2>3 DEF RunShape
<1>9. Premises'
  <2>1. \A n \in DOMAIN partials' : AllPremised(partials'[n].results)
    BY <1>1, <1>5, <1>7 DEF RunIInv, Premises
  <2>2. AllPremised(runJson')
    BY <1>4, Nothing DEF AllPremised
  <2> QED BY <1>3, <1>5, <1>6, <2>1, <2>2, NotExecutedIs DEF Premises, AllPremised
<1>10. FaultsTold'
  BY <1>3, <1>4 DEF FaultsTold, Blamed
<1>11. Prompts'
  <2>1. \A n \in DOMAIN partials' : partials'[n].kind = "ab" => Prompted(partials'[n].results, partials'[n].config)
    BY <1>1, <1>5, <1>7 DEF RunIInv, Prompts
  <2> QED BY <1>3, <1>4, <1>5, <2>1 DEF Prompts, Prompted, Samples
<1>12. Whole' /\ Course'
  BY <1>3, <1>4, <1>6, Nothing DEF Whole, Course, Samples
<1>13. Ledger'
  <2>1. \A n \in worked' : n \in DOMAIN partials' \/ n \in reported'
    BY <1>1, <1>4, <1>7 DEF RunIInv, Ledger, NothingIsLost
  <2> QED BY <1>3, <1>7, <2>1 DEF Ledger, NothingIsLost
<1>14. Judgement'
  <2>1. swayed = 0
    BY <1>1, <1>3 DEF RunIInv, Judgement
  <2> QED BY <1>3, <1>4, <2>1 DEF Judgement, WinsSurviveSwap, NoRows, RowNames
<1>15. Readings' /\ DepositsAreEarned'
  BY <1>1 DEF OutsideAb, Readings, Honest, NoRow, DepositsAreEarned
<1> QED BY <1>8, <1>9, <1>10, <1>11, <1>12, <1>13, <1>14, <1>15 DEF EvalIInv, RunIInv

\* A regression begins anew, or with what a file has of its selection.
LEMMA RegStartInv ==
  ASSUME EvalIInv, RegStart, rejudged' = NoRow, UNCHANGED <<left, rows, swayed>>, deposits' = {},
         runJson' = IF pc' # "idle" THEN <<>> ELSE runJson
  PROVE  EvalIInv'
<1>1. RunIInv /\ Readings
  BY DEF EvalIInv
<1> DEFINE Previous(r) == IF r = 0 THEN <<>> ELSE partials[r].results
           Completed(r) == {s.case : s \in DOMAIN Previous(r)}
<1>2. PICK r \in {0} \cup DOMAIN partials, selection \in Selections :
        /\ Begin("regression", r, Kept(selection, Previous(r)))
        /\ chosen' = selection
        /\ todo' = [i \in DOMAIN PlanResume(selection, Completed(r)) |-> Case(PlanResume(selection, Completed(r))[i])]
  BY DEF RegStart
<1> DEFINE previous == Previous(r)
           completed == Completed(r)
           plan == PlanResume(selection, completed)
<1>3. /\ pc = "idle" /\ kind' = "regression" /\ round' = round + 1 /\ from' = r /\ named' = faulted /\ own' = {}
      /\ pc' = "next" /\ executed' = NotExecuted /\ results' = Kept(selection, previous)
      /\ chosen' = selection /\ todo' = [i \in DOMAIN plan |-> Case(plan[i])] /\ runJson' = <<>>
  BY <1>2 DEF Begin
<1>4. UNCHANGED <<config, faulted, prefs, partials, worked, reported, readings>>
  BY DEF RegStart, serviceVars
<1>5. /\ DOMAIN results' \subseteq DOMAIN previous
      /\ \A s \in DOMAIN results' : results'[s] = previous[s] /\ s.case \in Range(selection) \cap completed
  BY <1>3 DEF Kept
<1>6. r = 0 => DOMAIN previous = {}
  BY Nothing
<1>7. r # 0 => r \in DOMAIN partials /\ previous = partials[r].results
  OBVIOUS
<1> HIDE DEF Previous, Completed
<1>8. /\ plan \in Seq(Range(Cases))
      /\ \A i, j \in DOMAIN plan :
           /\ plan[i] = plan[j] => i = j
           /\ i < j => \E m, n \in DOMAIN selection : m < n /\ selection[m] = plan[i] /\ selection[n] = plan[j]
      /\ \A j \in DOMAIN plan : \A d \in Requires[plan[j]] \cap completed \cap Range(selection) :
           \E i \in 1..(j - 1) : plan[i] = d
  BY ResumeFacts
<1> HIDE DEF previous, completed, plan
<1>9. DOMAIN previous \subseteq SampleSet /\ AllPremised(previous)
  <2>1. CASE r = 0
    BY <1>6, <2>1 DEF AllPremised
  <2>2. CASE r # 0
    BY <1>1, <1>7, <2>2 DEF RunIInv, RunTypes, Premises
  <2> QED BY <2>1, <2>2
<1>10. /\ Len(plan) \in Nat /\ DOMAIN plan = 1..Len(plan) /\ DOMAIN todo' = 1..Len(plan)
       /\ \A i \in 1..Len(plan) : /\ plan[i] \in Range(Cases) /\ todo'[i] = Case(plan[i])
                                  /\ todo'[i].case = plan[i] /\ todo'[i].arm = Service
                                  /\ todo'[i] \in SampleSet
  <2>1. Len(plan) \in Nat /\ DOMAIN plan = 1..Len(plan) /\ \A i \in 1..Len(plan) : plan[i] \in Range(Cases)
    BY <1>8
  <2>2. \A c \in Range(Cases) : Case(c) \in SampleSet /\ Case(c).case = c /\ Case(c).arm = Service
    BY ArmsAre DEF Case, Sample, SampleSet, Buyer
  <2> QED BY <1>3, <2>1, <2>2
<1>11. todo' \in Seq(SampleSet)
  BY <1>3, <1>10
<1>12. RunTypes' /\ RunShape'
  <2>1. round \in Nat /\ DOMAIN partials \subseteq 1..round /\ faulted \subseteq Range(Arms) /\ r \in Nat
        /\ \A n \in DOMAIN partials : DOMAIN partials[n].results \subseteq SampleSet
    BY <1>1 DEF RunIInv, RunTypes
  <2>2. DOMAIN partials' \subseteq 1..round' /\ round' > 0
    BY <1>3, <1>4, <2>1
  <2>3. RunTypes'
    BY <1>3, <1>4, <1>5, <1>9, <1>11, <2>1, <2>2, NotExecutedIs DEF RunTypes, Stops
  <2>4. \A i, j \in DOMAIN todo' : todo'[i] = todo'[j] => i = j
    BY <1>8, <1>10
  <2>5. r = 0 => DOMAIN results' = {}
    BY <1>5, <1>6
  <2> QED BY <1>3, <2>2, <2>3, <2>4, <2>5 DEF RunShape
<1>13. Premises'
  <2>1. AllPremised(results')
    BY <1>5, <1>9 DEF AllPremised
  <2>2. AllPremised(runJson')
    BY <1>3, Nothing DEF AllPremised
  <2>3. \A n \in DOMAIN partials' : AllPremised(partials'[n].results)
    BY <1>1, <1>4 DEF RunIInv, Premises
  <2>4. ASSUME NEW j \in DOMAIN todo', NEW p \in Prerequisites(todo'[j]), p \in DOMAIN results'
        PROVE  \E i \in 1..(j - 1) : todo'[i] = p
    <3>1. PICK d \in Requires[plan[j]] : p = Sample(d, Service, Buyer)
      BY <1>10 DEF Prerequisites, Case, Sample
    <3>2. p.case = d /\ p = Case(d)
      BY <3>1 DEF Sample, Case
    <3>3. d \in Range(selection) \cap completed
      BY <1>5, <2>4, <3>2
    <3>4. PICK i \in 1..(j - 1) : plan[i] = d
      BY <1>8, <1>10, <3>1, <3>3
    <3>5. i \in 1..Len(plan)
      BY <1>10
    <3> QED BY <1>10, <3>2, <3>4, <3>5
  <2> QED BY <1>3, <2>1, <2>2, <2>3, <2>4, NotExecutedIs DEF Premises, AllPremised
<1>14. FaultsTold'
  BY <1>3, <1>4 DEF FaultsTold, Blamed
<1>15. Prompts'
  BY <1>1, <1>3, <1>4 DEF RunIInv, Prompts, Prompted
<1>16. Whole'
  BY <1>3, Nothing DEF Whole
<1>17. Course'
  <2>1. \A i, j \in DOMAIN todo' : i < j => Before(todo[i].case, todo[j].case)'
    BY <1>3, <1>8, <1>10 DEF Before
  <2> QED BY <1>3, <1>10, <2>1 DEF Course
<1>18. Ledger'
  <2>1. round' \notin DOMAIN partials'
    BY <1>1, <1>3, <1>4 DEF RunIInv, RunTypes
  <2>2. \A s \in DOMAIN results' : s \in DOMAIN partials'[from'].results
    BY <1>3, <1>4, <1>5, <1>6, <1>7
  <2> QED BY <1>1, <1>3, <1>4, <2>1, <2>2 DEF RunIInv, Ledger, NothingIsLost
<1>19. Judgement'
  BY <1>1, <1>3 DEF RunIInv, Judgement, WinsSurviveSwap
<1>20. Readings' /\ DepositsAreEarned'
  BY <1>1, <1>4 DEF Readings, Honest, NoRow, DepositsAreEarned
<1> QED BY <1>12, <1>13, <1>14, <1>15, <1>16, <1>17, <1>18, <1>19, <1>20 DEF EvalIInv, RunIInv

\* The sample at hand is recorded, and the next one comes.
LEMMA RecordKeeps ==
  ASSUME RunIInv, pc = "executed", pc' = "next", NEW s, s = Head(todo), NEW record,
         record.ok => executed.ok, record.premised = executed.premised, record.declared = executed.declared,
         record.config = config[s.arm],
         executed.clearError => record.clearError \/ (kind = "regression" /\ record.lost),
         results' = [t \in DOMAIN results \cup {s} |-> IF t = s THEN record ELSE results[t]],
         own' = own \cup {s}, WritePartial(round, results'), todo' = Tail(todo), executed' = NotExecuted,
         worked' = worked \cup {round}, AllPremised(runJson'), DOMAIN runJson' = {} \/ DOMAIN runJson' = Samples,
         UNCHANGED <<config, faulted, prefs, kind, round, from, named, reported, chosen, left, rows, swayed>>
  PROVE  RunIInv'
<1>1. todo # <<>> /\ todo \in Seq(SampleSet)
  BY DEF RunIInv, RunShape, RunTypes
<1>2. /\ s \in SampleSet /\ s = todo[1] /\ 1 \in DOMAIN todo /\ Tail(todo) \in Seq(SampleSet)
      /\ \A i \in DOMAIN Tail(todo) : i \in Nat /\ i >= 1 /\ i + 1 \in DOMAIN todo /\ Tail(todo)[i] = todo[i + 1]
      /\ \A i \in DOMAIN todo : i = 1 \/ i - 1 \in DOMAIN Tail(todo)
  BY <1>1, HeadFacts
<1>3. \A i \in DOMAIN todo' : i \in Nat /\ i >= 1 /\ i + 1 \in DOMAIN todo /\ todo'[i] = todo[i + 1]
  BY <1>2
<1>4. /\ s \notin own /\ own \subseteq DOMAIN results
      /\ \A i \in DOMAIN todo : todo[i] \notin own
      /\ \A i, j \in DOMAIN todo : todo[i] = todo[j] => i = j
  BY <1>2 DEF RunIInv, RunShape
<1>5. /\ DOMAIN results' = DOMAIN results \cup {s} /\ results'[s] = record
      /\ \A t \in DOMAIN results : t # s => results'[t] = results[t]
  OBVIOUS
<1>6. /\ DOMAIN partials' = DOMAIN partials \cup {round}
      /\ partials'[round].kind = kind /\ partials'[round].results = results' /\ partials'[round].config = config
      /\ \A r \in DOMAIN partials : r # round => partials'[r] = partials[r]
  BY DEF WritePartial
<1>7. \A t \in own : (Tells(t) => Tells(t)') /\ t \in DOMAIN results' /\ results'[t] = results[t]
  BY <1>4, <1>5 DEF Tells
<1>8. RunTypes'
  <2>1. round \in Nat /\ DOMAIN partials \subseteq 1..round /\ DOMAIN results \subseteq SampleSet
        /\ kind \in {"ab", "regression"} /\ from \in Nat /\ faulted \subseteq Range(Arms)
        /\ \A r \in DOMAIN partials : DOMAIN partials[r].results \subseteq SampleSet
    BY DEF RunIInv, RunTypes
  <2>2. round > 0
    BY DEF RunIInv, RunShape
  <2>3. DOMAIN partials' \subseteq 1..round'
    BY <1>6, <2>1, <2>2
  <2> QED BY <1>2, <1>5, <1>6, <2>1, <2>3, NotExecutedIs DEF RunTypes, Stops
<1>9. RunShape'
  <2>1. \A i \in DOMAIN todo' : todo'[i] \notin own'
    BY <1>2, <1>3, <1>4
  <2>2. \A i, j \in DOMAIN todo' : todo'[i] = todo'[j] => i = j
    BY <1>3, <1>4
  <2>3. round' > 0 /\ (from = 0 => own' = DOMAIN results')
    BY <1>5 DEF RunIInv, RunShape
  <2> QED BY <1>4, <1>5, <2>1, <2>2, <2>3 DEF RunShape
<1>10. Premises'
  <2>1. record.premised = TRUE /\ AllPremised(results)
    BY DEF RunIInv, Premises
  <2>2. AllPremised(results')
    BY <1>5, <2>1 DEF AllPremised
  <2>3. \A r \in DOMAIN partials' : AllPremised(partials'[r].results)
    BY <1>6, <2>2 DEF RunIInv, Premises
  <2>4. ASSUME NEW i \in DOMAIN todo', NEW p \in Prerequisites(todo'[i]), p \in DOMAIN results', results'[p].ok
        PROVE  p \in prefs' \/ \E j \in 1..(i - 1) : todo'[j] = p
    <3>1. i + 1 \in DOMAIN todo /\ p \in Prerequisites(todo[i + 1]) /\ todo[i + 1] \in SampleSet
      BY <1>1, <1>3
    <3>2. CASE p = s
      <4>1. s.case \in Requires[todo[i + 1].case] /\ todo[i + 1].case \in Range(Cases)
        BY <3>1, <3>2, PrerequisiteFacts DEF SampleSet
      <4>2. Needed(s) /\ executed.ok
        BY <1>5, <2>4, <3>2, <4>1 DEF Needed
      <4> QED BY <3>2, <4>2 DEF RunIInv, Premises
    <3>3. CASE p # s
      <4>1. p \in DOMAIN results /\ results[p].ok
        BY <1>5, <2>4, <3>3
      <4>2. p \in prefs \/ \E j \in 1..((i + 1) - 1) : todo[j] = p
        BY <3>1, <4>1 DEF RunIInv, Premises
      <4>3. ASSUME NEW j \in 1..((i + 1) - 1), todo[j] = p PROVE \E k \in 1..(i - 1) : todo'[k] = p
        <5>1. j # 1
          BY <1>2, <3>3, <4>3
        <5>2. i \in Nat /\ j \in Nat /\ j \in DOMAIN todo /\ j - 1 \in 1..(i - 1)
          BY <1>1, <1>3, <3>1, <5>1
        <5>3. j - 1 \in DOMAIN todo' /\ todo'[j - 1] = todo[(j - 1) + 1] /\ (j - 1) + 1 = j
          BY <1>2, <5>1, <5>2
        <5> QED BY <4>3, <5>2, <5>3
      <4> QED BY <4>2, <4>3
    <3> QED BY <3>2, <3>3
  <2> QED BY <2>2, <2>3, <2>4, NotExecutedIs DEF Premises, AllPremised
<1>11. FaultsTold'
  <2>1. \A a : Blamed(a) => Blamed(a)'
    BY <1>7 DEF Blamed
  <2>2. executed.clearError => Tells(s)'
    BY <1>5 DEF Tells
  <2>3. \A a \in faulted : Blamed(a)'
    <3>1. \A a \in faulted : Blamed(a) \/ executed.clearError
      BY DEF RunIInv, FaultsTold
    <3>2. executed.clearError => \A a : Blamed(a)'
      BY <2>2 DEF Blamed
    <3> QED BY <2>1, <3>1, <3>2
  <2>4. ASSUME NEW t \in own'
        PROVE  results'[t].declared = TRUE \/ t.arm \in named' \/ \E u \in own' : Tells(u)' /\ Follows(u, t)'
    <3>1. CASE t \in own
      <4>1. results[t].declared = TRUE \/ t.arm \in named \/ \E u \in own : Tells(u) /\ Follows(u, t)
        BY <3>1 DEF RunIInv, FaultsTold
      <4>2. \A u : Follows(u, t) => Follows(u, t)'
        BY DEF Follows, Before
      <4> QED BY <1>7, <3>1, <4>1, <4>2
    <3>2. CASE t = s
      <4>1. executed.declared = TRUE \/ Blamed(s.arm)
        BY DEF RunIInv, FaultsTold
      <4>2. \A u \in own : Follows(u, s)'
        <5>1. kind = "regression" => \A u \in own : Before(u.case, s.case)
          BY <1>2 DEF RunIInv, Course
        <5> QED BY <5>1 DEF Follows, Before
      <4> QED BY <1>5, <1>7, <3>2, <4>1, <4>2 DEF Blamed
    <3> QED BY <3>1, <3>2
  <2> QED BY <2>3, <2>4 DEF FaultsTold
<1>12. kind = "ab" => s \in Samples
  BY <1>2 DEF RunIInv, Whole, ToSet
<1>13. Prompts'
  <2>1. \A t \in own' : results'[t].config.prompt = config[t.arm].prompt
    BY <1>5, <1>7 DEF RunIInv, Prompts
  <2>2. kind = "ab" => Prompted(results', config)
    BY <1>5, <1>12 DEF RunIInv, Prompts, Prompted
  <2>3. \A r \in DOMAIN partials' : partials'[r].kind = "ab" => Prompted(partials'[r].results, partials'[r].config)
    BY <1>6, <2>2 DEF RunIInv, Prompts
  <2>4. (kind = "ab" => Prompted(results, config))'
    BY <2>2 DEF Prompted
  <2>5. (\A r \in DOMAIN partials : partials[r].kind = "ab" => Prompted(partials[r].results, partials[r].config))'
    BY <2>3 DEF Prompted
  <2> QED BY <2>1, <2>4, <2>5 DEF Prompts
<1>14. Whole'
  <2>1. ASSUME kind = "ab"
        PROVE  ToSet(todo') \subseteq Samples /\ Samples \subseteq DOMAIN results' \cup ToSet(todo')
    <3>1. ToSet(todo) \subseteq Samples /\ Samples \subseteq DOMAIN results \cup ToSet(todo)
      BY <2>1 DEF RunIInv, Whole
    <3>2. ToSet(todo') \subseteq ToSet(todo)
      BY <1>3 DEF ToSet
    <3>3. ASSUME NEW t \in ToSet(todo), t # s PROVE t \in ToSet(todo')
      <4>1. PICK i \in DOMAIN todo : todo[i] = t
        BY DEF ToSet
      <4>2. i - 1 \in DOMAIN todo' /\ i \in Nat
        BY <1>1, <1>2, <3>3, <4>1
      <4>3. todo'[i - 1] = t
        BY <1>3, <4>1, <4>2
      <4> QED BY <4>2, <4>3 DEF ToSet
    <3> QED BY <1>5, <3>1, <3>2, <3>3
  <2> QED BY <2>1 DEF Whole, Samples
<1>15. Course'
  <2> SUFFICES ASSUME kind = "regression"
               PROVE  /\ \A i \in DOMAIN todo' : todo'[i].arm = Service
                      /\ \A t \in own' : t.arm = Service
                      /\ \A i, j \in DOMAIN todo' : i < j => Before(todo'[i].case, todo'[j].case)
                      /\ \A t \in own' : \A i \in DOMAIN todo' : Before(t.case, todo'[i].case)
    BY DEF Course, Before
  <2>1. /\ \A i \in DOMAIN todo : todo[i].arm = Service
        /\ \A t \in own : t.arm = Service
        /\ \A i, j \in DOMAIN todo : i < j => Before(todo[i].case, todo[j].case)
        /\ \A t \in own : \A i \in DOMAIN todo : Before(t.case, todo[i].case)
    BY DEF RunIInv, Course
  <2>2. \A i \in DOMAIN todo' : Before(s.case, todo'[i].case)
    BY <1>2, <1>3, <2>1
  <2> QED BY <1>2, <1>3, <2>1, <2>2
<1>16. Ledger'
  <2>1. \A r \in worked' : r \in DOMAIN partials' \/ r \in reported'
    BY <1>6 DEF RunIInv, Ledger, NothingIsLost
  <2> QED BY <1>6, <2>1 DEF Ledger, NothingIsLost
<1>17. Judgement'
  BY DEF RunIInv, Judgement, WinsSurviveSwap
<1> QED BY <1>8, <1>9, <1>10, <1>11, <1>13, <1>14, <1>15, <1>16, <1>17 DEF RunIInv

\* A record of an A/B run says what the execution was.
LEMMA AbRecordInv ==
  ASSUME EvalIInv, AbRecord, OutsideAb PROVE EvalIInv'
<1>1. RunIInv /\ Readings
  BY DEF EvalIInv
<1> DEFINE s == Head(todo)
           record == [ok |-> executed.ok, clearError |-> executed.clearError, declared |-> executed.declared,
                      premised |-> executed.premised, config |-> config[s.arm]]
<1>2. /\ pc = "executed" /\ pc' = "next"
      /\ results' = [t \in DOMAIN results \cup {s} |-> IF t = s THEN record ELSE results[t]]
      /\ own' = own \cup {s} /\ WritePartial(round, results') /\ todo' = Tail(todo) /\ executed' = NotExecuted
      /\ worked' = worked \cup {round}
      /\ UNCHANGED <<config, faulted, prefs, kind, round, from, named, reported, chosen, left, rows, swayed, runJson>>
  BY DEF AbRecord, OutsideAb, serviceVars, abVars, judgeVars
<1>3. /\ record.ok = executed.ok /\ record.premised = executed.premised /\ record.declared = executed.declared
      /\ record.config = config[s.arm] /\ record.clearError = executed.clearError
  OBVIOUS
<1>4. AllPremised(runJson') /\ (DOMAIN runJson' = {} \/ DOMAIN runJson' = Samples)
  BY <1>1, <1>2 DEF RunIInv, Premises, Whole
<1> HIDE DEF s, record
<1>5. s = Head(todo)
  BY DEF s
<1>6. RunIInv'
  BY <1>1, <1>2, <1>3, <1>4, <1>5, RecordKeeps
<1>7. Readings' /\ DepositsAreEarned'
  BY <1>1 DEF OutsideAb, Readings, Honest, NoRow, DepositsAreEarned
<1> QED BY <1>6, <1>7 DEF EvalIInv

\* Whatever the judge says, what is recorded of a clearing that failed is told
\* or lost.
LEMMA RegRecordInv ==
  ASSUME EvalIInv, RegRecord, rejudged' = NoRow, UNCHANGED <<left, rows, swayed>>, deposits' = {},
         runJson' = IF pc' # "idle" THEN <<>> ELSE runJson
  PROVE  EvalIInv'
<1>1. RunIInv /\ Readings
  BY DEF EvalIInv
<1> DEFINE s == Head(todo)
<1>2. PICK record \in {Failure(TRUE), Failure(FALSE)} \cup {Outcome(j) : j \in {j \in Judgements : WellShaped(j)}} :
        /\ Judged(record)
        /\ results' = [t \in DOMAIN results \cup {s} |-> IF t = s THEN record ELSE results[t]]
  BY DEF RegRecord
<1>3. /\ pc = "executed" /\ kind = "regression" /\ pc' = "next"
      /\ own' = own \cup {s} /\ WritePartial(round, results') /\ todo' = Tail(todo) /\ executed' = NotExecuted
      /\ worked' = worked \cup {round} /\ runJson' = <<>>
      /\ UNCHANGED <<config, faulted, prefs, kind, round, from, named, reported, chosen, left, rows, swayed, readings>>
  BY DEF RegRecord, serviceVars
<1>4. /\ record.ok => executed.ok
      /\ record.premised = executed.premised /\ record.declared = executed.declared
      /\ record.config = config[s.arm]
      /\ executed.clearError => record.clearError \/ record.lost
  <2>1. CASE ~executed.ok
    <3>1. record = Failure(TRUE)
      BY <1>2, <2>1 DEF Judged
    <3>2. /\ record.ok = FALSE /\ record.premised = executed.premised /\ record.declared = executed.declared
          /\ record.config = config[s.arm] /\ record.clearError = (executed.clearError /\ TRUE)
      BY <3>1 DEF Failure, CaseResult
    <3> QED BY <3>2
  <2>2. CASE executed.ok
    <3>1. record = Failure(FALSE) \/ \E j \in Judgements : record = Outcome(j)
      BY <1>2, <2>2 DEF Judged
    <3>2. /\ record.premised = executed.premised /\ record.declared = executed.declared
          /\ record.config = config[s.arm]
          /\ \/ record.clearError = (executed.clearError /\ TRUE)
             \/ record.lost = (executed.clearError /\ ~FALSE)
      BY <3>1 DEF Failure, Outcome, CaseResult
    <3> QED BY <2>2, <3>2
  <2> QED BY <2>1, <2>2
<1>5. AllPremised(runJson') /\ DOMAIN runJson' = {}
  BY <1>3, Nothing DEF AllPremised
<1> HIDE DEF s
<1>6. s = Head(todo)
  BY DEF s
<1>7. RunIInv'
  BY <1>1, <1>2, <1>3, <1>4, <1>5, <1>6, RecordKeeps
<1>8. Readings' /\ DepositsAreEarned'
  BY <1>1, <1>3 DEF Readings, Honest, NoRow, DepositsAreEarned
<1> QED BY <1>7, <1>8 DEF EvalIInv

LEMMA EvalInvNext == ASSUME EvalIInv, [Next]_vars PROVE EvalIInv'
<1>1. CASE AbNext /\ OutsideAb
  <2>1. CASE AbStartRefused
    <3>1. UNCHANGED abVars
      BY <2>1 DEF AbStartRefused
    <3> QED BY <1>1, <2>1, <3>1, BetweenRunsInv
  <2> QED BY <1>1, <2>1, AbStartInv, AbRecordInv, JudgeInv, JudgePairInv, AbReportInv, AbUnlinkInv DEF AbNext
<1>2. CASE /\ RegNext /\ UNCHANGED <<left, rows, swayed>> /\ deposits' = {}
           /\ runJson' = IF pc' # "idle" THEN <<>> ELSE runJson
  BY <1>2, RegStartInv, RegRecordInv, RegReportInv, RegUnlinkInv, RejudgeInv DEF RegNext
<1>3. CASE Verify /\ rejudged' = NoRow /\ UNCHANGED <<chosen, readings>>
  BY <1>3, VerifyInv
<1>4. CASE (Execute \/ Inject \/ ConverseFaulty \/ Clear) /\ UNCHANGED abVars /\ OutsideAb
  BY <1>4, ExecuteInv, InjectInv, ConverseFaultyInv, ClearInv
<1>5. CASE Kill /\ Forgotten /\ UNCHANGED runJson /\ OutsideAb
  BY <1>5, KillInv
<1>6. CASE (Edit \/ Deploy) /\ UNCHANGED abVars /\ OutsideAb
  BY <1>6, BetweenRunsInv
<1>7. CASE UNCHANGED vars
  <2>1. RunIInv /\ UNCHANGED <<config, faulted, prefs, partials, runVars, historyVars, abVars, chosen>>
    BY <1>7 DEF vars, runnerVars, serviceVars, regVars, EvalIInv
  <2>2. RunIInv'
    BY <2>1, RunsKeep
  <2>3. Readings' /\ DepositsAreEarned'
    BY <1>7 DEF vars, regVars, EvalIInv, RunIInv, Readings, Honest, DepositsAreEarned
  <2> QED BY <2>2, <2>3 DEF EvalIInv
<1> QED BY <1>1, <1>2, <1>3, <1>4, <1>5, <1>6, <1>7 DEF Next

LEMMA EvalInvariance == Spec => []EvalIInv
<1> QED BY EvalInvInit, EvalInvNext, PTL DEF Spec

\* Whatever is resumed, faulted, killed or deployed between: what is counted as
\* executed found the preferences it requires, an A/B run has one prompt for an
\* arm, and a run's own samples ran under the faults their cases declare or the
\* run tells of it.
THEOREM CountedSamplesAreValid == Spec => []SamplesAreValid
<1>1. EvalIInv => SamplesAreValid
  <2> SUFFICES ASSUME EvalIInv PROVE SamplesAreValid
    OBVIOUS
  <2>1. PremiseHolds
    BY DEF EvalIInv, RunIInv, Premises, AllPremised, PremiseHolds
  <2>2. pc # "idle" /\ kind = "ab" => \A s \in DOMAIN results : results[s].config.prompt = config[s.arm].prompt
    BY DEF EvalIInv, RunIInv, Prompts, Prompted
  <2>3. \A s \in own \cap DOMAIN results : results[s].declared \/ s.arm \in named \/ \E t \in own : Tells(t)
    BY DEF EvalIInv, RunIInv, RunShape, FaultsTold
  <2> QED BY <2>1, <2>2, <2>3 DEF SamplesAreValid, ConditionsAreKnown
<1> QED BY <1>1, EvalInvariance, PTL

\* No judge who goes by the position decides a pair, and scores are compared
\* only when they were measured alike.
THEOREM FairComparisons == Spec => []ComparisonsAreFair
<1>1. EvalIInv => ComparisonsAreFair
  <2> SUFFICES ASSUME EvalIInv PROVE ComparisonsAreFair
    OBVIOUS
  <2>1. ASSUME NEW r \in readings, NEW q \in readings, r.group = q.group,
               ~\E x \in {r, q} : x.resumed \/ x.told \/ x.group[1].faults
        PROVE  r.truth = q.truth
    <3>1. Honest(r) /\ Honest(q)
      BY DEF EvalIInv, Readings
    <3> QED BY <2>1, <3>1 DEF Honest
  <2> QED BY <2>1 DEF EvalIInv, RunIInv, Judgement, Readings, ComparisonsAreFair, ComparedAlike
<1> QED BY <1>1, EvalInvariance, PTL

\* What a runner has recorded is in its partial file until it is in a report,
\* wherever the runner is killed.
THEOREM RecordsSurvive == Spec => []NothingIsLost
<1>1. EvalIInv => NothingIsLost
  BY DEF EvalIInv, RunIInv, Ledger
<1> QED BY <1>1, EvalInvariance, PTL

\* A deposit stands for a preference the log shows stored, heard by a dialogue
\* that had it, unless calls overlapped in the log.
THEOREM EarnedDeposits == Spec => []DepositsAreEarned
<1>1. EvalIInv => DepositsAreEarned
  BY DEF EvalIInv
<1> QED BY <1>1, EvalInvariance, PTL
=============================================================================
