------------------------------- MODULE Search -------------------------------
(***************************************************************************)
(* Catalogue search: the vector index built at start (bootstrap_product_   *)
(* index, through CachedEmbeddingClient and OpenAIEmbeddingClient), the    *)
(* two ways of recall and their fusion, the reranker, the fallbacks of     *)
(* CatalogSearchUseCase.execute, the hard constraints, and the faults      *)
(* FaultRegistry injects.  What the models answer (vectors, similarities,  *)
(* scores) is any order of the products; the vector of a text is told from *)
(* others by the text.  A product keeps its id when its text is edited.    *)
(***************************************************************************)
EXTENDS Ordering, SequencesExt

CONSTANTS Products,       \* numbers in the order of their ids
          Texts, Query,   \* texts of products, edited ones too, and of the query
          Catalogs,       \* those deployed: products and their searchable_text()
          Depth,          \* _FUSION_DEPTH, _RECALL_TOP_N
          RrfK, TopK, FilteredOutLimit,
          Unit,           \* what votes are counted in: it is divided by every k + rank
          MaxFaults,      \* bound: failing calls, toggles of the injected faults
          MaxStarts       \* bound: starts of the process

ASSUME SearchAssumption ==
  /\ Products \subseteq Nat /\ IsFiniteSet(Products) /\ Query \in Texts
  /\ Catalogs \subseteq UNION {[S -> Texts] : S \in SUBSET Products}
  /\ {Depth, TopK, FilteredOutLimit} \subseteq Nat \ {0}
  /\ RrfK \in Nat /\ MaxFaults \in Nat /\ MaxStarts \in Nat
  /\ Unit \in Nat \ {0} /\ \A rank \in 1..Depth : Unit = (RrfK + rank) * (Unit \div (RrfK + rank))

VARIABLES
  wired,     \* the dependencies configured: "vector", "lexical", "rerank"
  catalog,   \* the products of the repository, with their texts
  lexical,   \* the products with a word of the query, as BM25 ranks them
  cache,     \* the texts with a vector in the embedding cache, and which
  index,     \* the products in the vector index, and their vectors
  built,     \* what bootstrap_product_index has answered in this process
  active,    \* FaultRegistry._active
  stage,     \* of the process: "starting", or where its search is
  scored,    \* the candidates in order
  strategy, reranked, hits, filteredOut,  \* the result
  faults, starts,
  ranked,    \* history: whose ranking made the order of the candidates
  deployed   \* history: the catalogues deployed so far

indexVars == <<cache, index, built>>
resultVars == <<strategy, reranked, hits, filteredOut>>
searchVars == <<wired, catalog, lexical, indexVars, active, stage, scored, resultVars,
                faults, starts, ranked, deployed>>

Components == {"embedding", "vector_index", "reranker"}

(***************************************************************************)
(* Sequences                                                               *)
(***************************************************************************)

First(ranking, n) == IF Len(ranking) > n THEN SubSeq(ranking, 1, n) ELSE ranking

\* Sequences of some of the products, none twice.
Rankings(set) == UNION {SetToSeqs(s) : s \in SUBSET set}

SearchInit ==
  /\ wired \in SUBSET {"vector", "lexical", "rerank"}
  /\ catalog \in Catalogs
  /\ lexical = <<>>
  /\ cache = <<>> /\ index = <<>> /\ built = FALSE /\ active = {}
  /\ stage = "starting" /\ scored = <<>>
  /\ strategy = "none" /\ reranked = FALSE /\ hits = <<>> /\ filteredOut = <<>>
  /\ faults = 0 /\ starts = 0 /\ ranked = {} /\ deployed = {catalog}

-----------------------------------------------------------------------------
(***************************************************************************)
(* Embedding                                                               *)
(***************************************************************************)

\* The results of embed_batch: the vectors read from the cache, and the fresh
\* ones in the places of the texts that were asked for.
\* Defect: they follow the cached ones.
Placed_Last(texts, pending, fresh) ==
  LET cached == Ascending(DOMAIN texts \ ToSet(pending))
  IN [k \in DOMAIN cached |-> cache[texts[cached[k]]]] \o fresh

Placed(texts, pending, fresh) ==
  [i \in DOMAIN texts |->
     IF \E k \in DOMAIN fresh : pending[k] = i
     THEN fresh[CHOOSE k \in DOMAIN fresh : pending[k] = i]
     ELSE cache[texts[i]]]

\* CachedEmbeddingClient.embed_batch.  What cannot be read from the cache is
\* asked for, _MAX_BATCH texts at a time; all of it comes or the call raises;
\* what cannot be written to the cache is not kept.
EmbedBatch(texts, vectors) ==
  \E hit \in SUBSET (DOMAIN cache \cap ToSet(texts)) :
    LET pending == Ascending({i \in DOMAIN texts : texts[i] \notin hit})
    IN /\ vectors = Placed(texts, pending, [k \in DOMAIN pending |-> texts[pending[k]]])
       /\ \E kept \in SUBSET ToSet(pending) :
            cache' = [t \in DOMAIN cache \cup {texts[i] : i \in kept} |->
                        IF \E i \in kept : texts[i] = t
                        THEN vectors[CHOOSE i \in kept : texts[i] = t] ELSE cache[t]]

\* A call fails by itself or because its fault is injected.
CallFails(component) ==
  IF component \in active THEN UNCHANGED faults ELSE faults < MaxFaults /\ faults' = faults + 1

(***************************************************************************)
(* Starting                                                                *)
(***************************************************************************)

\* upsert_products: points by product; those of products no longer in the
\* catalogue stay.
Upserted(ids, vectors) ==
  [p \in DOMAIN index \cup ToSet(ids) |->
     IF p \in ToSet(ids) THEN vectors[CHOOSE i \in DOMAIN ids : ids[i] = p] ELSE index[p]]

\* bootstrap_product_index.  A failure leaves the index as it is, whatever the
\* catalogue says by now, and is swallowed.
Bootstrap ==
  LET ids == Ascending(DOMAIN catalog)
      texts == [i \in DOMAIN ids |-> catalog[ids[i]]]
  IN /\ stage = "starting"
     /\ IF "vector" \in wired
        THEN \/ \E vectors \in [DOMAIN texts -> Texts] :
                  /\ EmbedBatch(texts, vectors)
                  /\ \/ index' = Upserted(ids, vectors) /\ built' = (ids # <<>>) /\ UNCHANGED faults
                     \/ CallFails("vector_index") /\ UNCHANGED <<index, built>>
             \/ CallFails("embedding") /\ UNCHANGED indexVars
        ELSE UNCHANGED <<indexVars, faults>>
     /\ stage' = "ready"
     /\ UNCHANGED <<wired, catalog, lexical, active, scored, resultVars, starts, ranked, deployed>>

\* The process ends, in a search or between two, and another catalogue is deployed.
Restart ==
  /\ stage # "starting" /\ starts < MaxStarts
  /\ starts' = starts + 1 /\ stage' = "starting" /\ active' = {}
  /\ catalog' \in Catalogs /\ deployed' = deployed \cup {catalog'} /\ built' = FALSE
  /\ lexical' = <<>> /\ scored' = <<>> /\ ranked' = {}
  /\ strategy' = "none" /\ reranked' = FALSE /\ hits' = <<>> /\ filteredOut' = <<>>
  /\ UNCHANGED <<wired, cache, index, faults>>

\* POST /debug/faults, in the midst of searches too.
Activate ==
  /\ stage # "starting" /\ faults < MaxFaults /\ faults' = faults + 1
  /\ \E c \in SUBSET Components : c # active /\ active' = c
  /\ UNCHANGED <<wired, catalog, lexical, indexVars, stage, scored, resultVars, starts, ranked, deployed>>

-----------------------------------------------------------------------------
(***************************************************************************)
(* Recall                                                                  *)
(***************************************************************************)
Known(ranking) == Those(ranking, DOMAIN catalog)

\* 1 / (k + rank).
Weight(rank) == Unit \div (RrfK + rank)

RankIn(p, ranking) == CHOOSE i \in DOMAIN ranking : ranking[i] = p

Vote(p, ranking) == IF p \in ToSet(ranking) THEN Weight(RankIn(p, ranking)) ELSE 0

\* _rrf_fuse, of the two ways of recall.
Fused(vector, words) ==
  LET all == ToSet(vector) \cup ToSet(words)
      score(p) == Vote(p, vector) + Vote(p, words)
      ahead(p, q) == score(p) > score(q) \/ (score(p) = score(q) /\ p < q)
  IN InOrder(all, {pair \in all \X all : ahead(pair[1], pair[2])})

\* A search begins, with its two ways of recall or none.
BeginSearch ==
  /\ stage \in {"ready", "done"}
  /\ lexical' \in Rankings(DOMAIN catalog)
  /\ strategy' = "keyword_2gram" /\ reranked' = FALSE /\ hits' = <<>> /\ filteredOut' = <<>>
  /\ IF "vector" \in wired
     THEN stage' = "embedding" /\ scored' = <<>> /\ ranked' = {}
     ELSE IF "lexical" \in wired
     THEN stage' = "recalled" /\ scored' = First(lexical', Depth) /\ ranked' = {"lexical"}
     ELSE stage' = "recalled" /\ scored' = <<>> /\ ranked' = {}
  /\ UNCHANGED <<wired, catalog, indexVars, active, faults, starts, deployed>>

EmbedQuery ==
  /\ stage = "embedding" /\ "embedding" \notin active
  /\ \E vectors \in [{1} -> Texts] : EmbedBatch(<<Query>>, vectors)
  /\ stage' = "searching"
  /\ UNCHANGED <<wired, catalog, lexical, index, built, active, scored, resultVars,
                 faults, starts, ranked, deployed>>

\* The index answers: in any order, Depth products at most, those of an older
\* catalogue among them.  A confident lexical ranking is fused with it.
SearchIndex ==
  /\ stage = "searching" /\ "vector_index" \notin active
  /\ \E vector \in {First(r, Depth) : r \in SetToSeqs(DOMAIN index)} :
       \/ scored' = Known(vector) /\ ranked' = {"vector"}
       \/ /\ "lexical" \in wired /\ lexical # <<>>
          /\ scored' = Known(Fused(vector, First(lexical, Depth)))
          /\ ranked' = {"vector", "lexical"}
  /\ stage' = "recalled"
  /\ UNCHANGED <<wired, catalog, lexical, indexVars, active, resultVars, faults, starts, deployed>>

\* The vector way is not available: the lexical one alone, or none.
VectorFails ==
  /\ \/ stage = "embedding" /\ CallFails("embedding")
     \/ stage = "searching" /\ CallFails("vector_index")
  /\ IF "lexical" \in wired
     THEN scored' = First(lexical, Depth) /\ ranked' = {"lexical"}
     ELSE scored' = <<>> /\ ranked' = {}
  /\ stage' = "recalled"
  /\ UNCHANGED <<wired, catalog, lexical, indexVars, active, resultVars, starts, deployed>>

\* The strategy of the first stage; with no candidates, the keywords are left:
\* they match what BM25 ranks.
FirstStage ==
  CASE ranked = {"vector", "lexical"} -> "hybrid_rrf"
    [] ranked = {"vector"} -> IF "lexical" \in wired THEN "hybrid_gated_vector" ELSE "embedding_only"
    [] ranked = {"lexical"} -> "bm25_only"
    [] OTHER -> "keyword_2gram"

Recall ==
  /\ stage = "recalled"
  /\ IF scored = <<>>
     THEN /\ scored' \in SetToSeqs(ToSet(lexical)) /\ ranked' = {"keyword"}
          /\ strategy' = "keyword_2gram" /\ stage' = "filtering"
     ELSE /\ UNCHANGED <<scored, ranked>>
          /\ strategy' = FirstStage /\ stage' = "reranking"
  /\ UNCHANGED <<wired, catalog, lexical, indexVars, active, reranked, hits, filteredOut, faults, starts, deployed>>

-----------------------------------------------------------------------------
(***************************************************************************)
(* Rerank and filter                                                       *)
(***************************************************************************)

\* _RERANKABLE.
WithRerank(s) ==
  CASE s = "embedding_only" -> "embedding_rerank" [] s = "hybrid_rrf" -> "hybrid_rerank"
    [] s = "hybrid_gated_vector" -> "hybrid_gated_rerank" [] s = "bm25_only" -> "bm25_rerank"

Rerank ==
  /\ stage = "reranking" /\ "rerank" \in wired /\ "reranker" \notin active
  /\ scored' \in SetToSeqs(ToSet(scored))
  /\ strategy' = WithRerank(strategy) /\ reranked' = TRUE
  /\ ranked' = ranked \cup {"rerank"}
  /\ stage' = "filtering"
  /\ UNCHANGED <<wired, catalog, lexical, indexVars, active, hits, filteredOut, faults, starts, deployed>>

\* The result of a failed rerank.  Defect: the strategy is renamed all the same.
Unranked_Renamed(s) == WithRerank(s)

Unranked(s) == s

RerankFails ==
  /\ stage = "reranking"
  /\ IF "rerank" \in wired THEN CallFails("reranker") ELSE UNCHANGED faults
  /\ strategy' = Unranked(strategy)
  /\ stage' = "filtering"
  /\ UNCHANGED <<wired, catalog, lexical, indexVars, active, scored, reranked, hits, filteredOut,
                 starts, ranked, deployed>>

\* The summary of what the constraints reject.
Summary(candidates, rejected) == First(Those(candidates, rejected), FilteredOutLimit)

\* ship_to and the price cap, then top_k.
Filter ==
  /\ stage = "filtering"
  /\ \E rejected \in SUBSET ToSet(scored) :
       /\ hits' = First(Those(scored, ToSet(scored) \ rejected), TopK)
       /\ filteredOut' = Summary(scored, rejected)
  /\ stage' = "done"
  /\ UNCHANGED <<wired, catalog, lexical, indexVars, active, scored, strategy, reranked,
                 faults, starts, ranked, deployed>>

SearchNext ==
  \/ Bootstrap \/ Restart \/ Activate
  \/ BeginSearch \/ EmbedQuery \/ SearchIndex \/ VectorFails \/ Recall
  \/ Rerank \/ RerankFails \/ Filter

SearchSpec == SearchInit /\ [][SearchNext]_searchVars

-----------------------------------------------------------------------------
(***************************************************************************)
(* Properties                                                              *)
(***************************************************************************)

\* Whatever was in the cache, could not be read from it or written to it, and
\* whichever catalogues and texts were deployed before: a text is cached under
\* its own vector, and a product is indexed under that of a text which is, or
\* was in an earlier catalogue, its own; once this start has built the index,
\* under that of its present text.  (A start that fails to leaves an edited
\* product under its old text, and says so in the log only.)
VectorsAreTheirOwn ==
  /\ \A t \in DOMAIN cache : cache[t] = t
  /\ \A p \in DOMAIN index : \E c \in deployed : p \in DOMAIN c /\ index[p] = c[p]
  /\ built => \A p \in DOMAIN catalog : p \in DOMAIN index /\ index[p] = catalog[p]

\* recall_strategy and rerank_applied name the rankings that made the order of
\* the answer, and no other, whichever calls failed on the way.
StrategyIsTrue ==
  stage = "done" =>
    /\ reranked = ("rerank" \in ranked)
    /\ ranked \ {"rerank"} =
         CASE strategy \in {"hybrid_rrf", "hybrid_rerank"} -> {"vector", "lexical"}
           [] strategy \in {"hybrid_gated_vector", "hybrid_gated_rerank", "embedding_only", "embedding_rerank"} -> {"vector"}
           [] strategy \in {"bm25_only", "bm25_rerank"} -> {"lexical"}
           [] strategy = "keyword_2gram" -> {"keyword"}
    /\ reranked = (strategy \in {"hybrid_rerank", "hybrid_gated_rerank", "embedding_rerank", "bm25_rerank"})

\* An answer without a product says why: something was found and is listed as
\* rejected, unless nothing in the catalogue has a word of the query.
EmptyIsExplained ==
  stage = "done" /\ hits = <<>> => filteredOut # <<>> \/ lexical = <<>>

\* What both ways of recall rank in the same order stays in that order when
\* they are fused, and what only one of them found is not lost.
FusionAgrees ==
  stage = "searching" =>
    \A r \in SetToSeqs(DOMAIN index) :
      LET vector == First(r, Depth)
          words == First(lexical, Depth)
          fused == Fused(vector, words)
          before(p, q, s) == q \in ToSet(s) => p \in ToSet(s) /\ RankIn(p, s) < RankIn(q, s)
      IN /\ ToSet(fused) = ToSet(vector) \cup ToSet(words)
         /\ \A p, q \in ToSet(fused) :
              p # q /\ before(p, q, vector) /\ before(p, q, words) => before(p, q, fused)

\* An answer can be trusted for what it says of itself: the rankings behind it
\* are the ones it names, put together fairly, and no rejection is passed over
\* in silence (search, _summarize_filtered_out, _rrf_fuse).
AnswersAreTrue == StrategyIsTrue /\ EmptyIsExplained /\ FusionAgrees
=============================================================================
