------------------------------ MODULE Retrieval ------------------------------
(***************************************************************************)
(* The context of one agent: the chunks of the document are loaded once,   *)
(* every query asks the vector index and the keyword index, fuses the two  *)
(* rankings, lets the reranker order the best of them if there is one, and *)
(* what the queries have found is merged (retrieval/service.py, fusion.py, *)
(* keyword.py, semantic.py, rerank.py).  The vector index is read anew by  *)
(* every query, so another run may have indexed the document again.        *)
(*                                                                         *)
(* The order of the two indexes and the reranker's scores are free.        *)
(* Bounds: MaxQueries; Corpus, RankDepth and RerankScores are small sets.  *)
(***************************************************************************)
EXTENDS Integers, Sequences, FiniteSets, SequencesExt, FiniteSetsExt

CONSTANTS
    Corpus,             \* the chunks loaded, numbered by seq
    RankDepth,          \* retrieval_semantic_top_k, retrieval_keyword_top_k
    RrfK,               \* retrieval_rrf_k
    Unit,               \* a common multiple of the divisors of fusion: scores are integers
    TopN,               \* retrieval_top_n
    RerankCandidates,   \* retrieval_rerank_candidates
    RerankScores,       \* what the cross-encoder may answer
    ContextLimit,       \* effective_agent_context_limit
    MaxQueries

ASSUME RetrievalAssumption ==
    /\ Corpus \subseteq Nat /\ IsFiniteSet(Corpus) /\ RerankScores \subseteq Int
    /\ RankDepth \in Nat \ {0} /\ RrfK \in Nat \ {0}     \* reciprocal_rank_fusion refuses k < 1
    /\ Unit \in Nat \ {0} /\ \A r \in 1 .. RankDepth : Unit % (RrfK + r) = 0
    /\ {TopN, RerankCandidates, ContextLimit, MaxQueries} \subseteq Nat

VARIABLES
    search,    \* [pc, queries made, reranks: is there a reranker, current: the index holds the corpus]
    answer,    \* the last query: the two rankings it used and its hits, [chunk, score] in order
    best,      \* [chunks found so far -> best score]
    context,   \* the result
    found      \* (ghost) every hit of every query

retrievalVars == <<search, answer, best, context, found>>

NoAnswer == [semantic |-> <<>>, keyword |-> <<>>, hits |-> <<>>]

\* What an index may return: different chunks, as many as asked for at most.
Rankings ==
    {r \in UNION {[1 .. n -> Corpus] : n \in 0 .. RankDepth} : IsInjective(r)}

-----------------------------------------------------------------------------
\* reciprocal_rank_fusion, 1 / (k + rank) in units that make it an integer.
RankScore(ranking, c) ==
    IF c \in ToSet(ranking) THEN Unit \div (RrfK + CHOOSE r \in DOMAIN ranking : ranking[r] = c) ELSE 0

Fused(semantic, keyword) ==
    [c \in ToSet(semantic) \cup ToSet(keyword) |-> RankScore(semantic, c) + RankScore(keyword, c)]

\* Scores in descending order, equal ones in the order of the document.
Before(scores, c, d) == scores[c] > scores[d] \/ (scores[c] = scores[d] /\ c < d)
Ordered(scores) ==
    CHOOSE s \in SetToSeqs(DOMAIN scores) : \A i, j \in DOMAIN s : i < j => Before(scores, s[i], s[j])

Top(n, s) == SubSeq(s, 1, IF n < Len(s) THEN n ELSE Len(s))
Scored(s, scores) == [i \in DOMAIN s |-> [chunk |-> s[i], score |-> scores[s[i]]]]

\* The candidates the reranker is shown; it scores each of them.
Candidates(fused) == Top(IF TopN > RerankCandidates THEN TopN ELSE RerankCandidates, Ordered(fused))

\* Chunks of a newer index are not in the corpus and are left out.
InCorpus(ranking) == IF search.current THEN ranking ELSE <<>>

-----------------------------------------------------------------------------

RetrievalInit ==
    /\ search = [pc |-> "query", queries |-> 0, reranks |-> FALSE, current |-> TRUE]
       \/ search = [pc |-> "query", queries |-> 0, reranks |-> TRUE, current |-> TRUE]
    /\ answer = NoAnswer /\ best = <<>> /\ context = <<>> /\ found = {}

\* HybridRetriever.retrieve_for_queries keeps a chunk's best score.
Merged_LastWins(hits) ==
    [c \in DOMAIN best \cup {h.chunk : h \in ToSet(hits)} |->
        LET scores == {h.score : h \in {g \in ToSet(hits) : g.chunk = c}} IN
        IF scores # {} THEN Max(scores) ELSE best[c]]
Merged(hits) ==
    [c \in DOMAIN best \cup {h.chunk : h \in ToSet(hits)} |->
        Max({h.score : h \in {g \in ToSet(hits) : g.chunk = c}}
              \cup (IF c \in DOMAIN best THEN {best[c]} ELSE {}))]

Answered(semantic, keyword, hits) ==
    /\ answer' = [semantic |-> semantic, keyword |-> keyword, hits |-> hits]
    /\ best' = Merged(hits)
    /\ found' = found \cup ToSet(hits)
    /\ search' = [search EXCEPT !.queries = @ + 1]
    /\ UNCHANGED context

Asks == search.pc = "query" /\ search.queries < MaxQueries /\ Corpus # {}

\* retrieve without a reranker: the fused order is the answer.
Query(semantic, keyword) ==
    LET fused == Fused(InCorpus(semantic), keyword) IN
    /\ Asks /\ ~search.reranks
    /\ Answered(InCorpus(semantic), keyword, Scored(Top(TopN, Ordered(fused)), fused))

\* ... and with one: its scores order the candidates.
RerankedQuery(semantic, keyword) ==
    LET candidates == Candidates(Fused(InCorpus(semantic), keyword)) IN
    /\ Asks /\ search.reranks
    /\ \E scores \in [ToSet(candidates) -> RerankScores] :
          Answered(InCorpus(semantic), keyword, Scored(Top(TopN, Ordered(scores)), scores))

\* The indexing phase of an overlapping run replaces the chunks and their vectors.
Reindex ==
    /\ search.pc = "query" /\ search.current
    /\ search' = [search EXCEPT !.current = FALSE]
    /\ UNCHANGED <<answer, best, context, found>>

\* All queries made: the best chunks, as many as the agent's prompt may hold.
Collect ==
    /\ search.pc = "query" /\ search.queries = MaxQueries
    /\ context' = Top(ContextLimit, Ordered(best))
    /\ search' = [search EXCEPT !.pc = "done"]
    /\ UNCHANGED <<answer, best, found>>

RetrievalNext ==
    \/ \E semantic, keyword \in Rankings : Query(semantic, keyword) \/ RerankedQuery(semantic, keyword)
    \/ Reindex \/ Collect

RetrievalSpec == RetrievalInit /\ [][RetrievalNext]_retrievalVars

-----------------------------------------------------------------------------
\* Every variable keeps its type.
RetrievalTypeOK ==
    /\ search.pc \in {"query", "done"} /\ search.queries \in 0 .. MaxQueries
    /\ {search.reranks, search.current} \subseteq BOOLEAN
    /\ DOMAIN best \subseteq Corpus /\ ToSet(context) \subseteq Corpus
    /\ Len(answer.hits) <= TopN

\* c is ranked as high as d, or higher, in both indexes.
NotBehind(ranking, c, d) ==
    d \in ToSet(ranking) =>
        \E i, j \in DOMAIN ranking : ranking[i] = c /\ ranking[j] = d /\ i <= j

(***************************************************************************)
(* What an agent reads does not depend on the order of its queries: the    *)
(* chunks of the context are the ones with the highest scores any query    *)
(* gave them, the best first, ties in the document's order, none left out  *)
(* for a worse one, none twice.  And a query without a reranker never puts *)
(* a chunk behind one that both indexes ranked lower, nor drops it for     *)
(* that one, also when the document has been indexed again meanwhile.      *)
(***************************************************************************)
ContextIsBest ==
    LET chunks == {h.chunk : h \in found}
        score == [c \in chunks |-> Max({h.score : h \in {g \in found : g.chunk = c}})]
        shown == [i \in DOMAIN answer.hits |-> answer.hits[i].chunk]
    IN /\ search.pc = "done" =>
             /\ IsInjective(context) /\ ToSet(context) \subseteq chunks
             /\ Len(context) = IF ContextLimit < Cardinality(chunks) THEN ContextLimit ELSE Cardinality(chunks)
             /\ \A i \in DOMAIN context : \A d \in chunks :
                   Before(score, d, context[i]) => \E j \in 1 .. i - 1 : context[j] = d
       /\ ~search.reranks =>
             \A d \in ToSet(shown) : \A c \in (ToSet(answer.semantic) \cup ToSet(answer.keyword)) \ {d} :
                NotBehind(answer.semantic, c, d) /\ NotBehind(answer.keyword, c, d) =>
                    \E i, j \in DOMAIN shown : i < j /\ shown[i] = c /\ shown[j] = d
=============================================================================
