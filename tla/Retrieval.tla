------------------------------ MODULE Retrieval ------------------------------
(***************************************************************************)
(* The retrieval behind a chat question (backend service/agent.go          *)
(* PrepareVisibleContext, repository/rag.go; agent rag/retrieval.py), while *)
(* members join, materials are shared, withdrawn, parsed again and deleted.*)
(*                                                                         *)
(* A search finds chunks of all kinds; the context is built from the body  *)
(* chunks of the best materials.  A parse replaces all chunks of a         *)
(* material: chunk [mat, gen, kind, pos] is one of generation gen.  Each   *)
(* query sees the committed rows of its moment.  Relevance is any order.   *)
(* Of the indexes only the visible one is modelled (see IndexRollout).     *)
(***************************************************************************)
EXTENDS Teams, Sequences, SequencesExt

CONSTANTS
  Asker,        \* who asks
  None,         \* no material, no image, no heading, no page
  MaxGen,       \* bound: parses of a material
  Body,         \* the body chunks of a material and generation: a sequence of
                \* [heading, page, tokens]
  Signals,      \* its other chunks, a set of [kind, page, tokens, asset]
  VectorTopK, LexicalTopK, DefaultTopK, RRFConstant,
  TopN,         \* candidates a rerank keeps
  MaxMaterials, MaxChunks, MaxTokens,
  Total, AnalyzeLimit, SearchLimit, RerankLimit   \* time budgets

\* The limits and budgets are literals of the code, none of them 0; every
\* material has been parsed.
ASSUME RetrievalAssumption ==
  /\ Asker \in Users
  /\ {VectorTopK, LexicalTopK, DefaultTopK, RRFConstant} \subseteq Nat
  /\ {MaxGen, TopN, MaxMaterials, MaxChunks, MaxTokens,
      Total, AnalyzeLimit, SearchLimit, RerankLimit} \subseteq Nat \ {0}
  /\ \A m \in Materials, g \in 1..MaxGen :
       /\ Len(Body[m][g]) \in Nat
       /\ \A i \in 1..Len(Body[m][g]) : Body[m][g][i].tokens \in Nat
       /\ \A s \in Signals[m][g] : s.tokens \in Nat /\ s.kind \in {"summary", "question", "image"}

VARIABLES
  indexed,   \* the generation whose chunks a material has, 0 for none
  pc,        \* the step of PrepareVisibleContext that is next, or how it ended
  only,      \* the material the question is about, or None
  left,      \* what is left of the time budget
  embedded,  \* did the analysis bring an embedding?
  teamIDs,   \* the team ids that were read for the query that is next
  vector,    \* vectorRows
  ranked,    \* the candidates, in order
  context,   \* the chunks for the model: [chunk, image]
  degraded   \* DegradedStages

queryVars == <<pc, only, left, embedded, teamIDs, vector, ranked, context, degraded>>
vars == <<teamVars, indexed, queryVars>>

-----------------------------------------------------------------------------
(* Chunks.                                                                  *)

\* The body chunks in the order of the document.
BodyText(m, g) ==
  [i \in 1..Len(Body[m][g]) |-> [mat |-> m, gen |-> g, kind |-> "body", pos |-> i]]

BodyChunks(m, g) == Range(BodyText(m, g))
SignalChunks(m, g) == {[mat |-> m, gen |-> g, kind |-> s.kind, pos |-> s] : s \in Signals[m][g]}

Chunks == UNION {BodyChunks(m, g) \cup SignalChunks(m, g) : m \in Materials, g \in 1..MaxGen}

ASSUME NoneAssumption == None \notin Chunks

\* The columns of a chunk.
Row(c) == IF c.kind = "body" THEN Body[c.mat][c.gen][c.pos] ELSE c.pos

\* Does a query reach the material now, for the team ids that were read before it?
Reached(ids, m) ==
  indexed[m] # 0 /\ m \in VisibleMaterials(Asker, ids) /\ only \in {None, m}

\* What it finds.
Found(ids) == {c \in Chunks : Reached(ids, c.mat) /\ c.gen = indexed[c.mat]}

\* The top k of S in some order.
Rankings(S, k) ==
  UNION {{s \in [1..n -> S] : IsInjective(s)} : n \in 0..k}

TypeOK ==
  /\ TeamsTypeOK
  /\ indexed \in [Materials -> 0..MaxGen]
  /\ pc \in {"idle", "authorize", "analyze", "teams", "vector", "lexical", "rerank",
             "expand", "bodies", "done", "refused", "failed"}
  /\ only \in Materials \cup {None} /\ left \in 0..Total
  /\ embedded \in BOOLEAN /\ teamIDs \subseteq TeamIds
  /\ {vector, ranked} \subseteq Seq(Chunks) /\ IsInjective(ranked)
  /\ Len(ranked) <= DefaultTopK
  /\ \A i \in DOMAIN context :
       context[i].chunk \in Chunks /\ context[i].image \in Chunks \cup {None}
  /\ degraded \subseteq {"query_analysis", "embedding", "retrieve", "rerank"}

Init ==
  /\ TeamsInit
  /\ indexed = [m \in Materials |-> 1]
  /\ pc = "idle" /\ only = None /\ left = Total
  /\ embedded = FALSE /\ teamIDs = {}
  /\ vector = <<>> /\ ranked = <<>> /\ context = <<>> /\ degraded = {}

-----------------------------------------------------------------------------
(* Other users.                                                             *)

Reparse(m) ==
  /\ indexed[m] \in 1..(MaxGen - 1)
  /\ indexed' = [indexed EXCEPT ![m] = @ + 1]

DeleteMaterial(m) == indexed[m] # 0 /\ indexed' = [indexed EXCEPT ![m] = 0]

OthersNext ==
  /\ \/ TeamsNext /\ UNCHANGED indexed
     \/ (\E m \in Materials : Reparse(m) \/ DeleteMaterial(m)) /\ UNCHANGED teamVars
  /\ UNCHANGED queryVars

-----------------------------------------------------------------------------
(* The question.                                                            *)

Least(a, b) == IF a < b THEN a ELSE b

\* A stage that answers takes no time, or nearly all it has.  (Only the sums
\* matter, and those of the extremes bound all others.)
InTime(limit) == left > 0 /\ left' \in {left, left - Least(limit, left) + 1}

\* A stage that fails does so at once (then its cause is not the time), or when
\* its time is over.
TimedOut(limit) == left' = left - Least(limit, left)

Stage(from, to) == pc = from /\ pc' = to /\ UNCHANGED <<teamVars, indexed, only>>

Ask(m) ==
  /\ pc = "idle"
  /\ pc' = IF m = None THEN "analyze" ELSE "authorize"
  /\ only' = m
  /\ UNCHANGED <<teamVars, indexed, left, embedded, teamIDs, vector, ranked, context, degraded>>

\* HasVisibleMaterial finds the row, or does not, or fails.
Authorize ==
  /\ \/ /\ only \in VisibleMaterials(Asker, VisibleTeamIDs(Asker)) /\ indexed[only] # 0
        /\ Stage("authorize", "analyze")
     \/ Stage("authorize", "refused")
  /\ UNCHANGED <<left, embedded, teamIDs, vector, ranked, context, degraded>>

\* The answer of /analyze-query; an embedding that fails is an empty one.
Analyze ==
  /\ Stage("analyze", "teams") /\ InTime(AnalyzeLimit)
  /\ embedded' \in BOOLEAN
  /\ UNCHANGED <<teamIDs, vector, ranked, context, degraded>>

\* No answer: the question itself is searched for, without an embedding.
AnalyzeFails ==
  /\ left' = left \/ TimedOut(AnalyzeLimit)
  /\ IF left' > 0 THEN Stage("analyze", "teams") ELSE Stage("analyze", "done")
  /\ degraded' = {"query_analysis", "embedding"}
  /\ UNCHANGED <<embedded, teamIDs, vector, ranked, context>>

\* visibleRAGMaterials; without a team there is nothing to search.
ReadTeams ==
  /\ IF VisibleTeamIDs(Asker) = {} THEN Stage("teams", "expand")
     ELSE IF embedded THEN Stage("teams", "vector") ELSE Stage("teams", "lexical")
  /\ left > 0 /\ teamIDs' = VisibleTeamIDs(Asker)
  /\ UNCHANGED <<left, embedded, vector, ranked, context, degraded>>

VectorSearch ==
  /\ Stage("vector", "lexical")
  /\ vector' \in Rankings(Found(teamIDs), VectorTopK)
  /\ UNCHANGED <<left, embedded, teamIDs, ranked, context, degraded>>

\* Ranks as scores: the floating point numbers of the code, to six digits.
Weight(r) == 1000000 \div (RRFConstant + r)

RankScore(s, c) == IF c \in Range(s) THEN Weight(CHOOSE i \in DOMAIN s : s[i] = c) ELSE 0

Fused(v, l, c) == RankScore(v, c) + RankScore(l, c)

\* (mutant of Merges) what both searches found comes twice.
Concatenated(v, l) == {SubSeq(v \o l, 1, Least(Len(v \o l), DefaultTopK))}

\* The merged candidates, best first; equal scores come in any order.
Merges(v, l) ==
  LET S == Range(v) \cup Range(l) IN
  {SubSeq(s, 1, Least(Len(s), DefaultTopK)) :
     s \in {t \in [1..Cardinality(S) -> S] :
              /\ IsInjective(t)
              /\ \A i \in 1..(Cardinality(S) - 1) : Fused(v, l, t[i]) >= Fused(v, l, t[i + 1])}}

\* The lexical query and the fusion; the whole search has one time limit.
LexicalSearch ==
  /\ \E l \in Rankings(Found(teamIDs), LexicalTopK) : ranked' \in Merges(vector, l)
  /\ IF ranked' = <<>> THEN Stage("lexical", "expand") ELSE Stage("lexical", "rerank")
  /\ vector' = <<>> /\ InTime(SearchLimit)
  /\ UNCHANGED <<embedded, teamIDs, context, degraded>>

SearchFails ==
  /\ pc \in {"teams", "vector", "lexical"} /\ Stage(pc, "done")
  /\ left' = left \/ TimedOut(SearchLimit)
  /\ degraded' = degraded \cup {"retrieve"} /\ vector' = <<>>
  /\ UNCHANGED <<embedded, teamIDs, ranked, context>>

\* The answer of /rerank: the best of the candidates in the order of their new
\* scores, or the local fallback, the first in the order they had.
Rerank ==
  LET n == Least(TopN, Len(ranked)) IN
  /\ Stage("rerank", "expand") /\ InTime(RerankLimit)
  /\ \/ /\ \E s \in [1..n -> Range(ranked)] : IsInjective(s) /\ ranked' = s
        /\ UNCHANGED degraded
     \/ ranked' = SubSeq(ranked, 1, n) /\ degraded' = degraded \cup {"rerank"}
  /\ UNCHANGED <<embedded, teamIDs, vector, context>>

\* (mutant of RerankFails) without a rerank there are no candidates.
RerankOrNothing ==
  /\ Stage("rerank", "expand")
  /\ left' = left \/ TimedOut(RerankLimit)
  /\ degraded' = degraded \cup {"rerank"} /\ ranked' = <<>>
  /\ UNCHANGED <<embedded, teamIDs, vector, context>>

RerankFails ==
  /\ Stage("rerank", "expand")
  /\ left' = left \/ TimedOut(RerankLimit)
  /\ degraded' = degraded \cup {"rerank"}
  /\ UNCHANGED <<embedded, teamIDs, vector, ranked, context>>

-----------------------------------------------------------------------------
(* ExpandVisibleContext.                                                    *)

\* Without candidates there is nothing to expand.
ReadTeamsAgain ==
  /\ left > 0 \/ ranked = <<>>
  /\ IF ranked = <<>> \/ VisibleTeamIDs(Asker) = {} THEN Stage("expand", "done") ELSE Stage("expand", "bodies")
  /\ teamIDs' = VisibleTeamIDs(Asker)
  /\ UNCHANGED <<left, embedded, vector, ranked, context, degraded>>

\* The best candidate of each of the best materials.
AddHit(hits, c) ==
  IF Len(hits) < MaxMaterials /\ \A i \in DOMAIN hits : hits[i].mat # c.mat
  THEN Append(hits, c) ELSE hits

BestHits(s) ==
  LET hits[i \in 0..Len(s)] == IF i = 0 THEN <<>> ELSE AddHit(hits[i - 1], s[i])
  IN hits[Len(s)]

\* (mutant of Goes) positions that count from one taken for positions from zero.
GoesShifted(hit, row, i, n) ==
  \/ n <= 1
  \/ hit.kind # "body"
  \/ Row(hit).heading # None /\ Row(hit).heading = row.heading
  \/ i \in (hit.pos + 1)..(hit.pos + 3)

\* Does body chunk i of a material with n of them go with the hit?
Goes(hit, row, i, n) ==
  \/ n <= 1
  \/ hit.kind # "body"
  \/ Row(hit).heading # None /\ Row(hit).heading = row.heading
  \/ i \in (hit.pos - 1)..(hit.pos + 1)

\* Does the image that was hit belong to the page of the chunk?
Depicts(hit, row) ==
  hit.kind = "image" /\ Row(hit).asset /\ (Row(hit).page = row.page \/ None \in {Row(hit).page, row.page})

\* (mutant of Select) the image is counted only after the check.
SelectUnchecked(selected, hit, c) ==
  LET row    == Row(c)
      attach == Depicts(hit, row) /\ \A i \in DOMAIN selected.chunks : selected.chunks[i].image # hit
      tokens == selected.tokens + row.tokens
  IN IF /\ Goes(hit, row, c.pos, Len(Body[c.mat][c.gen]))
        /\ Len(selected.chunks) < MaxChunks /\ tokens <= MaxTokens
     THEN [chunks |-> Append(selected.chunks, [chunk |-> c, image |-> IF attach THEN hit ELSE None]),
           tokens |-> tokens + (IF attach THEN Row(hit).tokens ELSE 0)]
     ELSE selected

\* One body chunk, after those that are selected already.
Select(selected, hit, c) ==
  LET row    == Row(c)
      attach == Depicts(hit, row) /\ \A i \in DOMAIN selected.chunks : selected.chunks[i].image # hit
      tokens == selected.tokens + row.tokens + (IF attach THEN Row(hit).tokens ELSE 0)
  IN IF /\ Goes(hit, row, c.pos, Len(Body[c.mat][c.gen]))
        /\ Len(selected.chunks) < MaxChunks /\ tokens <= MaxTokens
     THEN [chunks |-> Append(selected.chunks, [chunk |-> c, image |-> IF attach THEN hit ELSE None]),
           tokens |-> tokens]
     ELSE selected

\* (mutant of Bodies) the chunks of the generation that was searched.
BodiesOfSearch(ids, hit) == BodyText(hit.mat, hit.gen)

\* The body chunks that the query finds of the material of the hit, in order.
Bodies(ids, hit) ==
  IF Reached(ids, hit.mat) THEN BodyText(hit.mat, indexed[hit.mat]) ELSE <<>>

\* After the body chunks of one material.
SelectBodies(selected, hit, bodies) ==
  LET sel[i \in 0..Len(bodies)] ==
        IF i = 0 THEN selected ELSE Select(sel[i - 1], hit, bodies[i])
  IN sel[Len(bodies)]

\* After those of all hits.
Selected(ids, hits) ==
  LET sel[i \in 0..Len(hits)] ==
        IF i = 0 THEN [chunks |-> <<>>, tokens |-> 0]
        ELSE SelectBodies(sel[i - 1], hits[i], Bodies(ids, hits[i]))
  IN sel[Len(hits)]

Expand ==
  /\ Stage("bodies", "done") /\ left > 0
  /\ context' = Selected(teamIDs, BestHits(ranked)).chunks
  /\ UNCHANGED <<left, embedded, teamIDs, vector, ranked, degraded>>

\* The database fails, or the time is over: the question fails.
ExpandFails ==
  /\ pc \in {"expand", "bodies"} /\ ranked # <<>> /\ Stage(pc, "failed")
  /\ UNCHANGED <<left, embedded, teamIDs, vector, ranked, context, degraded>>

-----------------------------------------------------------------------------
QuestionNext ==
  \/ \E m \in Materials \cup {None} : Ask(m)
  \/ Authorize \/ Analyze \/ AnalyzeFails \/ ReadTeams \/ VectorSearch \/ LexicalSearch
  \/ SearchFails \/ Rerank \/ RerankFails \/ ReadTeamsAgain \/ Expand \/ ExpandFails

Next == QuestionNext \/ OthersNext

Spec == Init /\ [][Next]_vars

-----------------------------------------------------------------------------
(***************************************************************************)
(* Properties.                                                             *)
(***************************************************************************)

Newly(s, t) == Range(t) \ Range(s)

\* What a search adds to the candidates is of materials that the asker may see
\* at that moment.
SearchesReadVisible ==
  /\ \A c \in Newly(vector, vector') : MaySee(Asker, c.mat)
  /\ pc = "lexical" => \A c \in Newly(vector, ranked') : MaySee(Asker, c.mat)

\* Nobody reads what he may not see: neither a search nor the context takes a
\* chunk of a material that the asker may not see at that moment, although the
\* team ids were read in a query before.
ReadsOnlyVisible ==
  [][/\ SearchesReadVisible
     /\ \A i \in DOMAIN context' : context' # context => MaySee(Asker, context'[i].chunk.mat)]_vars

\* The context is within its limits, whatever was found and attached.
Tokens(e) == Row(e.chunk).tokens + IF e.image = None THEN 0 ELSE Row(e.image).tokens

TokensOf(s) ==
  LET sum[i \in 0..Len(s)] == IF i = 0 THEN 0 ELSE sum[i - 1] + Tokens(s[i])
  IN sum[Len(s)]

ContextWithinLimits ==
  /\ Len(context) <= MaxChunks
  /\ Cardinality({context[i].chunk.mat : i \in DOMAIN context}) <= MaxMaterials
  /\ TokensOf(context) <= MaxTokens

\* The context is text of one generation of each material, the one that is
\* indexed when it is built, each chunk once and in the order of the document.
ContextIsOrdered ==
  [][context' # context =>
       \A i, j \in DOMAIN context' :
         LET c == context'[i].chunk  d == context'[j].chunk IN
           /\ c.gen = indexed[c.mat]
           /\ i < j /\ c.mat = d.mat => c.pos < d.pos]_vars

\* What was found is not lost on the way: if the material of the best candidate
\* is neither withdrawn nor parsed again meanwhile, it is in the context,
\* whether or not the rerank answered.
BestMaterialInContext ==
  [][pc = "bodies" /\ pc' = "done" =>
       LET best == ranked[1] IN
         best \in Found(teamIDs) /\ BodyChunks(best.mat, best.gen) # {} =>
           \E i \in DOMAIN context' : context'[i].chunk.mat = best.mat]_vars

\* A search that found something leaves candidates for the context.
RecallSurvives == [][ranked # <<>> => ranked' # <<>>]_vars
=============================================================================
