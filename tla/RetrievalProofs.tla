--------------------------- MODULE RetrievalProofs ---------------------------
(***************************************************************************)
(* Proofs about Teams and Retrieval for any teams, members and materials,  *)
(* and any chunks and limits.  A search filters by team ids that were read *)
(* in an earlier query; that is sound because nobody loses a team: the ids *)
(* are still visible when the search runs.  The context is the last of the *)
(* selections that a loop over the hits, and one over the body chunks of   *)
(* each, go through; what it promises holds of every selection on the way. *)
(***************************************************************************)
EXTENDS Retrieval, FiniteSetTheorems, WellFoundedInduction, TLAPS

Searching == {"idle", "authorize", "analyze", "teams", "vector", "lexical"}

Entries == [chunk : Chunks, image : Chunks \cup {None}]

IInv ==
  /\ TypeOK /\ teamIDs \subseteq VisibleTeamIDs(Asker)
  /\ pc \in Searching => ranked = <<>>
  /\ pc = "bodies" => ranked # <<>>
  /\ context \in Seq(Entries) /\ ContextWithinLimits
-----------------------------------------------------------------------------
(* Teams.                                                                   *)

LEMMA TeamsStep ==
  ASSUME TeamsTypeOK, TeamsNext
  PROVE  /\ TeamsTypeOK'
         /\ \A t \in TeamIds, u \in Users :
              member[t][u] = "approved" => member'[t][u] = "approved"
<1>1. ASSUME NEW t \in TeamIds, NEW u \in Users, NEW s \in Statuses,
             member' = [member EXCEPT ![t][u] = s]
      PROVE  /\ member' \in [TeamIds -> [Users -> Statuses]]
             /\ member'[t][u] = s
             /\ \A t2 \in TeamIds, u2 \in Users :
                  (t2 # t \/ u2 # u) => member'[t2][u2] = member[t2][u2]
  <2>1. member \in [TeamIds -> [Users -> Statuses]] /\ member[t] \in [Users -> Statuses]
    BY DEF TeamsTypeOK
  <2>2. member' = [member EXCEPT ![t] = [member[t] EXCEPT ![u] = s]]
    BY <1>1
  <2> DEFINE row == [member[t] EXCEPT ![u] = s]
  <2>3. row \in [Users -> Statuses] /\ row[u] = s /\ \A u2 \in Users : u2 # u => row[u2] = member[t][u2]
    BY <2>1
  <2> HIDE DEF row
  <2>4. member' = [member EXCEPT ![t] = row]
    BY <2>2 DEF row
  <2>5. member'[t] = row /\ \A t2 \in TeamIds : t2 # t => member'[t2] = member[t2]
    BY <2>1, <2>4
  <2> QED
    BY <2>1, <2>3, <2>4, <2>5
<1>2. ASSUME NEW j \in Joins, NEW u \in Users, NEW t \in TeamIds, JoinByCode(j, u, t)
      PROVE  TeamsTypeOK' /\ UNCHANGED member
  <2>1. {<<u, t>>} \in SUBSET (Users \X TeamIds)
    OBVIOUS
  <2> QED
    BY <1>2, <2>1 DEF JoinByCode, TeamsTypeOK
<1>3. ASSUME NEW j \in Joins, InsertMember(j)
      PROVE  /\ TeamsTypeOK'
             /\ \A t \in TeamIds, u \in Users :
                  member[t][u] = "approved" => member'[t][u] = "approved"
  <2>1. PICK r \in join[j] :
          /\ \/ member[r[2]][r[1]] = "none" /\ member' = [member EXCEPT ![r[2]][r[1]] = "pending"]
             \/ UNCHANGED member
          /\ join' = [join EXCEPT ![j] = NoJoin]
          /\ UNCHANGED shared
    BY <1>3 DEF InsertMember
  <2>2. r[1] \in Users /\ r[2] \in TeamIds
    BY DEF TeamsTypeOK
  <2>3. join' \in [Joins -> SUBSET (Users \X TeamIds)] /\ shared' \in [Materials -> BOOLEAN]
    BY <2>1 DEF TeamsTypeOK, NoJoin
  <2>4. CASE member[r[2]][r[1]] = "none" /\ member' = [member EXCEPT ![r[2]][r[1]] = "pending"]
    <3>1. /\ member' \in [TeamIds -> [Users -> Statuses]]
          /\ \A t2 \in TeamIds, u2 \in Users :
               (t2 # r[2] \/ u2 # r[1]) => member'[t2][u2] = member[t2][u2]
      BY <1>1, <2>2, <2>4 DEF Statuses
    <3> QED
      BY <2>2, <2>3, <2>4, <3>1 DEF TeamsTypeOK
  <2>5. CASE UNCHANGED member
    BY <2>3, <2>5 DEF TeamsTypeOK
  <2> QED
    BY <2>1, <2>4, <2>5
<1>4. ASSUME NEW t \in TeamIds, NEW u \in Users, ApproveMember(t, u)
      PROVE  /\ TeamsTypeOK'
             /\ \A t2 \in TeamIds, u2 \in Users :
                  member[t2][u2] = "approved" => member'[t2][u2] = "approved"
  <2>1. /\ member' \in [TeamIds -> [Users -> Statuses]] /\ member'[t][u] = "approved"
        /\ \A t2 \in TeamIds, u2 \in Users :
             (t2 # t \/ u2 # u) => member'[t2][u2] = member[t2][u2]
    <3>1. member' = [member EXCEPT ![t][u] = "approved"] /\ "approved" \in Statuses
      BY <1>4 DEF ApproveMember, Statuses
    <3> QED
      BY <1>1, <3>1
  <2> QED
    BY <1>4, <2>1 DEF ApproveMember, TeamsTypeOK
<1>5. ASSUME NEW m \in Materials, Share(m) PROVE TeamsTypeOK' /\ UNCHANGED member
  BY <1>5 DEF Share, TeamsTypeOK
<1> QED
  BY <1>2, <1>3, <1>4, <1>5 DEF TeamsNext

\* Every step of the system is one of the teams, or leaves them.
LEMMA TeamsKept ==
  ASSUME TeamsTypeOK, [Next]_vars
  PROVE  /\ TeamsTypeOK'
         /\ \A t \in TeamIds, u \in Users :
              member[t][u] = "approved" => member'[t][u] = "approved"
<1>1. TeamsNext \/ UNCHANGED teamVars
  BY DEF Next, vars, OthersNext, QuestionNext, Stage, Ask, Authorize, Analyze, AnalyzeFails,
         ReadTeams, VectorSearch, LexicalSearch, SearchFails, Rerank, RerankFails,
         ReadTeamsAgain, Expand, ExpandFails
<1>2. CASE UNCHANGED teamVars
  BY <1>2 DEF teamVars, TeamsTypeOK
<1> QED
  BY <1>1, <1>2, TeamsStep

\* Nobody loses a team.
LEMMA TeamsGrow ==
  ASSUME \A t \in TeamIds, u \in Users :
           member[t][u] = "approved" => member'[t][u] = "approved"
  PROVE  VisibleTeamIDs(Asker) \subseteq VisibleTeamIDs(Asker)'
BY RetrievalAssumption DEF VisibleTeamIDs

\* What is found for team ids that are visible may be seen.
LEMMA FoundIsVisible ==
  ASSUME NEW ids, ids \subseteq VisibleTeamIDs(Asker), NEW c \in Found(ids)
  PROVE  c \in Chunks /\ MaySee(Asker, c.mat)
BY DEF Found, Reached, VisibleMaterials, VisibleTeamIDs, MaySee
-----------------------------------------------------------------------------
(* Rankings.                                                                *)

LEMMA FunctionFacts ==
  ASSUME NEW S, NEW n \in Nat, NEW f \in [1..n -> S]
  PROVE  f \in Seq(S) /\ Len(f) = n /\ Range(f) \subseteq S /\ IsFiniteSet(Range(f))
<1>1. f \in Seq(S) /\ Len(f) = n /\ Range(f) \subseteq S
  BY DEF Range
<1>2. f \in Surjection(1..n, Range(f))
  BY DEF Range, Surjection
<1>3. IsFiniteSet(1..n)
  BY FS_Interval
<1> QED
  BY <1>1, <1>2, <1>3, FS_Surjection

LEMMA RankingFacts ==
  ASSUME NEW S, NEW k \in Nat, NEW s \in Rankings(S, k)
  PROVE  s \in Seq(S) /\ Range(s) \subseteq S /\ IsFiniteSet(Range(s))
<1>1. PICK n \in 0..k : s \in [1..n -> S]
  BY DEF Rankings
<1> QED
  BY <1>1, FunctionFacts

\* The first candidates of a sequence.
LEMMA PrefixFacts ==
  ASSUME NEW S, NEW s \in Seq(S), NEW k \in Nat
  PROVE  LET p == SubSeq(s, 1, Least(Len(s), k)) IN
           /\ p \in Seq(S) /\ Range(p) \subseteq Range(s) /\ Len(p) <= k
           /\ s # <<>> /\ k > 0 => p # <<>>
           /\ IsInjective(s) => IsInjective(p)
<1> DEFINE n == Least(Len(s), k)
<1>1. n \in Nat /\ n <= Len(s) /\ n <= k /\ (s # <<>> /\ k > 0 => n > 0)
  BY DEF Least
<1> HIDE DEF n
<1>2. /\ SubSeq(s, 1, n) \in Seq(S) /\ Len(SubSeq(s, 1, n)) = n
      /\ DOMAIN SubSeq(s, 1, n) = 1..n
      /\ \A i \in 1..n : SubSeq(s, 1, n)[i] = s[i] /\ i \in DOMAIN s
  BY <1>1
<1>3. ASSUME IsInjective(s) PROVE IsInjective(SubSeq(s, 1, n))
  <2>1. ASSUME NEW i \in 1..n, NEW j \in 1..n, SubSeq(s, 1, n)[i] = SubSeq(s, 1, n)[j]
        PROVE  i = j
    <3>1. s[i] = s[j] /\ i \in DOMAIN s /\ j \in DOMAIN s
      BY <1>2, <2>1
    <3> QED
      BY <1>3, <3>1 DEF IsInjective
  <2> QED
    BY <1>2, <2>1 DEF IsInjective
<1> DEFINE p == SubSeq(s, 1, n)
<1>4. p \in Seq(S) /\ Len(p) = n /\ (IsInjective(s) => IsInjective(p))
  BY <1>2, <1>3
<1>5. Range(p) \subseteq Range(s)
  BY <1>2 DEF Range
<1>6. n > 0 => p # <<>>
  BY <1>1, <1>4
<1>7. p = SubSeq(s, 1, Least(Len(s), k))
  BY DEF n
<1> HIDE DEF p
<1> QED
  BY <1>1, <1>4, <1>5, <1>6, <1>7

\* What was merged was found by one of the searches.
LEMMA MergedFacts ==
  ASSUME NEW v \in Seq(Chunks), NEW l \in Seq(Chunks), NEW m \in Merges(v, l)
  PROVE  /\ m \in Seq(Chunks) /\ Range(m) \subseteq Range(v) \cup Range(l)
         /\ IsInjective(m) /\ Len(m) <= DefaultTopK
<1> DEFINE S == Range(v) \cup Range(l)
<1>1. v \in [1..Len(v) -> Chunks] /\ l \in [1..Len(l) -> Chunks] /\ {Len(v), Len(l)} \subseteq Nat
  OBVIOUS
<1>2. IsFiniteSet(S) /\ S \subseteq Chunks
  BY <1>1, FunctionFacts, FS_Union
<1>3. Cardinality(S) \in Nat
  BY <1>2, FS_CardinalityType
<1>4. PICK s \in [1..Cardinality(S) -> S] :
        IsInjective(s) /\ m = SubSeq(s, 1, Least(Len(s), DefaultTopK))
  BY DEF Merges
<1> HIDE DEF S
<1>5. s \in Seq(S) /\ Range(s) \subseteq S
  BY <1>3, <1>4, FunctionFacts
<1>6. m \in Seq(S) /\ Range(m) \subseteq S /\ IsInjective(m) /\ Len(m) <= DefaultTopK
  BY <1>4, <1>5, PrefixFacts, RetrievalAssumption
<1>7. m \in Seq(Chunks)
  BY <1>2, <1>6
<1> QED
  BY <1>6, <1>7 DEF S
-----------------------------------------------------------------------------
(* Iterations: the recursive functions that build the context.              *)

\* Induction up to n.
LEMMA UpTo ==
  ASSUME NEW n \in Nat, NEW T, 0 \in T, \A i \in 1..n : i - 1 \in T => i \in T
  PROVE  0..n \subseteq T
<1> SUFFICES ASSUME (0..n) \ T # {} PROVE FALSE
  OBVIOUS
<1>1. PICK k \in (0..n) \ T : \A j \in (0..n) \ T : ~(<<j, k>> \in OpToRel(<, Nat))
  <2>1. (0..n) \ T \subseteq Nat
    OBVIOUS
  <2> QED
    BY <2>1, WFMin, NatLessThanWellFounded
<1>2. k # 0 /\ k \in 1..n
  <2>1. k \in 0..n /\ k \notin T
    OBVIOUS
  <2>2. k # 0
    BY <2>1
  <2> QED
    BY <2>1, <2>2
<1>3. k - 1 \in T
  <2> SUFFICES ASSUME k - 1 \notin T PROVE FALSE
    OBVIOUS
  <2>1. k - 1 \in (0..n) \ T /\ k - 1 < k /\ {k - 1, k} \subseteq Nat
    BY <1>2
  <2>2. <<k - 1, k>> \in OpToRel(<, Nat)
    BY <2>1 DEF OpToRel
  <2> QED
    BY <1>1, <2>1, <2>2
<1> QED
  BY <1>1, <1>2, <1>3

\* A step that stays in a set has iterations.
StaysIn(step, n, S) == \A i \in 1..n, x \in S : step[<<i, x>>] \in S

IsIteration(f, n, start, step) ==
  f[0] = start /\ \A i \in 1..n : f[i] = step[<<i, f[i - 1]>>]

LEMMA IterationExists ==
  ASSUME NEW n \in Nat, NEW S, NEW start \in S, NEW step, StaysIn(step, n, S)
  PROVE  \E f \in [0..n -> S] : IsIteration(f, n, start, step)
<1> DEFINE Iterates(f, k) == f = [i \in 0..k |-> IF i = 0 THEN start ELSE step[<<i, f[i - 1]>>]]
           T == {k \in 0..n : \E f \in [0..k -> S] : Iterates(f, k)}
<1>1. 0 \in T
  <2> DEFINE f == [i \in 0..0 |-> start]
  <2>1. f \in [0..0 -> S] /\ Iterates(f, 0)
    OBVIOUS
  <2> HIDE DEF f, Iterates
  <2> QED
    BY <2>1
<1>2. ASSUME NEW k \in 1..n, k - 1 \in T PROVE k \in T
  <2>1. PICK f \in [0..(k - 1) -> S] : Iterates(f, k - 1)
    <3> HIDE DEF Iterates
    <3> QED
      BY <1>2
  <2> DEFINE g == [i \in 0..k |-> IF i = k THEN step[<<k, f[k - 1]>>] ELSE f[i]]
  <2>2. f[k - 1] \in S /\ step[<<k, f[k - 1]>>] \in S
    BY <2>1 DEF StaysIn
  <2>3. g \in [0..k -> S]
    <3>1. \A i \in 0..k : i # k => i \in 0..(k - 1)
      OBVIOUS
    <3> QED
      BY <2>1, <2>2, <3>1
  <2>4. ASSUME NEW i \in 0..k PROVE g[i] = IF i = 0 THEN start ELSE step[<<i, g[i - 1]>>]
    <3>1. k # 0 /\ (i # 0 => i - 1 \in 0..(k - 1) /\ g[i - 1] = f[i - 1])
      OBVIOUS
    <3>2. CASE i = k
      <4>1. g[i] = step[<<k, f[k - 1]>>]
        BY <3>2
      <4> QED
        BY <3>1, <3>2, <4>1
    <3>3. CASE i # k
      <4>1. i \in 0..(k - 1) /\ g[i] = f[i]
        BY <3>3
      <4>2. f[i] = IF i = 0 THEN start ELSE step[<<i, f[i - 1]>>]
        BY <2>1, <4>1
      <4> QED
        BY <3>1, <4>1, <4>2
    <3> QED
      BY <3>2, <3>3
  <2>5. Iterates(g, k)
    <3> DEFINE h == [i \in 0..k |-> IF i = 0 THEN start ELSE step[<<i, g[i - 1]>>]]
    <3>1. \A i \in 0..k : g[i] = h[i]
      BY <2>4
    <3>2. DOMAIN g = 0..k /\ DOMAIN h = 0..k /\ g = [i \in DOMAIN g |-> g[i]] /\ h = [i \in DOMAIN h |-> h[i]]
      OBVIOUS
    <3> QED
      BY <3>1, <3>2
  <2>6. k \in 0..n
    OBVIOUS
  <2> HIDE DEF g, Iterates
  <2> QED
    BY <2>3, <2>5, <2>6
<1>3. n \in T
  <2> HIDE DEF T
  <2>1. 0..n \subseteq T
    BY <1>1, <1>2, UpTo
  <2> QED
    BY <2>1
<1>4. PICK f \in [0..n -> S] : Iterates(f, n)
  <2> HIDE DEF Iterates
  <2> QED
    BY <1>3
<1>5. f[0] = start /\ \A i \in 1..n : f[i] = step[<<i, f[i - 1]>>]
  BY <1>4
<1> QED
  BY <1>5 DEF IsIteration
-----------------------------------------------------------------------------
(* The hits.                                                                *)

\* Hits, one of each material, the first of them the best candidate.
IsHits(h, s, i) ==
  /\ h \in Seq(Chunks) /\ Len(h) <= MaxMaterials
  /\ \A j, k \in 1..Len(h) : j # k => h[j].mat # h[k].mat
  /\ IF i = 0 THEN h = <<>> ELSE h # <<>> /\ h[1] = s[1]

LEMMA AddHitStep ==
  ASSUME NEW s \in Seq(Chunks), NEW i \in 1..Len(s), NEW h, IsHits(h, s, i - 1)
  PROVE  IsHits(AddHit(h, s[i]), s, i)
<1>1. /\ h \in Seq(Chunks) /\ Len(h) <= MaxMaterials /\ Len(h) \in Nat
      /\ \A j, k \in 1..Len(h) : j # k => h[j].mat # h[k].mat
      /\ IF i = 1 THEN h = <<>> ELSE h # <<>> /\ h[1] = s[1]
      /\ s[i] \in Chunks /\ MaxMaterials \in Nat \ {0}
  BY RetrievalAssumption DEF IsHits
<1>2. CASE Len(h) < MaxMaterials /\ \A j \in DOMAIN h : h[j].mat # s[i].mat
  <2> DEFINE a == Append(h, s[i])
  <2>1. AddHit(h, s[i]) = a
    BY <1>2 DEF AddHit
  <2>2. /\ a \in Seq(Chunks) /\ Len(a) = Len(h) + 1 /\ a[Len(h) + 1] = s[i]
        /\ \A j \in 1..Len(h) : a[j] = h[j] /\ h[j].mat # s[i].mat
    BY <1>1, <1>2
  <2> HIDE DEF a
  <2>3. ASSUME NEW j \in 1..Len(a), NEW k \in 1..Len(a), j # k PROVE a[j].mat # a[k].mat
    <3>0. j \in 1..(Len(h) + 1) /\ k \in 1..(Len(h) + 1)
      BY <2>2
    <3>1. \/ j \in 1..Len(h) /\ k \in 1..Len(h)
          \/ j \in 1..Len(h) /\ k = Len(h) + 1
          \/ k \in 1..Len(h) /\ j = Len(h) + 1
      BY <1>1, <2>3, <3>0
    <3> QED
      BY <1>1, <2>2, <2>3, <3>1
  <2>4. a # <<>> /\ a[1] = s[1]
    <3>1. CASE h = <<>>
      <4>1. i = 1
        BY <1>1, <3>1
      <4>2. Len(h) = 0 /\ Len(a) # 0 /\ a[1] = s[i]
        BY <2>2, <3>1
      <4> QED
        BY <4>1, <4>2
    <3>2. CASE h # <<>>
      <4>1. 1 \in 1..Len(h)
        BY <1>1, <3>2
      <4>2. h[1] = s[1]
        BY <1>1, <1>2, <3>2
      <4> QED
        BY <2>2, <4>1, <4>2
    <3> QED
      BY <3>1, <3>2
  <2>5. Len(a) <= MaxMaterials
    BY <1>1, <1>2, <2>2
  <2> QED
    BY <2>1, <2>2, <2>3, <2>4, <2>5 DEF IsHits
<1>3. CASE ~(Len(h) < MaxMaterials /\ \A j \in DOMAIN h : h[j].mat # s[i].mat)
  <2>1. AddHit(h, s[i]) = h
    BY <1>3 DEF AddHit
  <2>2. h # <<>>
    BY <1>1, <1>3
  <2>3. h[1] = s[1]
    BY <1>1, <2>2
  <2> QED
    BY <1>1, <2>1, <2>2, <2>3 DEF IsHits
<1> QED
  BY <1>2, <1>3

\* What BestHits computes.
LEMMA BestHitsFacts ==
  ASSUME NEW s \in Seq(Chunks)
  PROVE  IsHits(BestHits(s), s, Len(s))
<1> DEFINE S == Seq(Chunks)
           n == Len(s)
           step == [p \in (1..n) \X S |-> AddHit(p[2], s[p[1]])]
<1>1. n \in Nat /\ <<>> \in S
  OBVIOUS
<1>2. \A i \in 1..n, h \in S : step[<<i, h>>] = AddHit(h, s[i])
  OBVIOUS
<1>3. \A i \in 1..n, h \in S : AddHit(h, s[i]) \in S
  <2>1. \A i \in 1..n, h \in S : Append(h, s[i]) \in S
    OBVIOUS
  <2> HIDE DEF S
  <2> QED
    BY <2>1 DEF AddHit
<1>4. PICK f \in [0..n -> S] : IsIteration(f, n, <<>>, step)
  <2> HIDE DEF step, S, n
  <2>1. StaysIn(step, n, S)
    BY <1>2, <1>3 DEF StaysIn
  <2> QED
    BY <1>1, <2>1, IterationExists
<1> DEFINE hits == CHOOSE g : g = [i \in 0..Len(s) |-> IF i = 0 THEN <<>> ELSE AddHit(g[i - 1], s[i])]
<1> HIDE DEF step, S, hits
<1>5. f = [i \in 0..n |-> IF i = 0 THEN <<>> ELSE AddHit(f[i - 1], s[i])]
  <2>1. ASSUME NEW i \in 1..n PROVE f[i] = AddHit(f[i - 1], s[i])
    <3>1. f[i - 1] \in S
      BY <1>1
    <3> QED
      BY <1>2, <1>4, <3>1 DEF IsIteration
  <2>2. \A i \in 0..n : f[i] = IF i = 0 THEN <<>> ELSE AddHit(f[i - 1], s[i])
    BY <1>1, <1>4, <2>1 DEF IsIteration
  <2> QED
    BY <2>2
<1>6. hits = [i \in 0..Len(s) |-> IF i = 0 THEN <<>> ELSE AddHit(hits[i - 1], s[i])]
  BY <1>5 DEF hits
<1>7. BestHits(s) = hits[Len(s)]
  BY DEF BestHits, hits
<1> DEFINE T == {i \in 0..Len(s) : IsHits(hits[i], s, i)}
<1>8. 0 \in T
  <2>1. hits[0] = <<>>
    BY <1>1, <1>6
  <2>2. IsHits(<<>>, s, 0)
    BY <1>1, RetrievalAssumption DEF IsHits, S
  <2> QED
    BY <1>1, <2>1, <2>2
<1>9. ASSUME NEW i \in 1..Len(s), i - 1 \in T PROVE i \in T
  <2>1. i \in 0..Len(s) /\ hits[i] = AddHit(hits[i - 1], s[i])
    BY <1>1, <1>6
  <2>2. IsHits(hits[i - 1], s, i - 1)
    BY <1>9
  <2>3. IsHits(AddHit(hits[i - 1], s[i]), s, i)
    BY <2>2, AddHitStep
  <2> QED
    BY <2>1, <2>3
<1> HIDE DEF T
<1>10. 0..Len(s) \subseteq T
  BY <1>1, <1>8, <1>9, UpTo
<1>11. IsHits(hits[Len(s)], s, Len(s))
  BY <1>1, <1>10 DEF T
<1> QED
  BY <1>7, <1>11
-----------------------------------------------------------------------------
(* The rows of the chunks.                                                  *)

LEMMA TextFacts ==
  ASSUME NEW m \in Materials, NEW g \in 1..MaxGen
  PROVE  /\ BodyText(m, g) \in Seq(Chunks) /\ Len(BodyText(m, g)) = Len(Body[m][g])
         /\ BodyChunks(m, g) = {BodyText(m, g)[i] : i \in 1..Len(Body[m][g])}
         /\ \A i \in 1..Len(Body[m][g]) :
              BodyText(m, g)[i] = [mat |-> m, gen |-> g, kind |-> "body", pos |-> i]
<1> DEFINE n == Len(Body[m][g])
<1>1. n \in Nat
  BY RetrievalAssumption
<1>2. BodyText(m, g) = [i \in 1..n |-> [mat |-> m, gen |-> g, kind |-> "body", pos |-> i]]
  BY DEF BodyText
<1> HIDE DEF n
<1>3. BodyChunks(m, g) = {BodyText(m, g)[i] : i \in 1..n}
  BY <1>2 DEF BodyChunks, Range
<1>4. BodyChunks(m, g) \subseteq Chunks
  <2>1. ASSUME NEW c \in BodyChunks(m, g) PROVE c \in Chunks
    <3> DEFINE U == BodyChunks(m, g) \cup SignalChunks(m, g)
    <3>1. \E x \in Materials, y \in 1..MaxGen : U = BodyChunks(x, y) \cup SignalChunks(x, y)
      OBVIOUS
    <3>2. c \in U
      OBVIOUS
    <3> HIDE DEF U
    <3>3. U \in {BodyChunks(x, y) \cup SignalChunks(x, y) : x \in Materials, y \in 1..MaxGen}
      BY <3>1
    <3> QED
      BY <3>2, <3>3 DEF Chunks
  <2> QED
    BY <2>1
<1>5. \A i \in 1..n : BodyText(m, g)[i] \in Chunks
  BY <1>3, <1>4
<1>6. BodyText(m, g) \in [1..n -> Chunks]
  BY <1>2, <1>5
<1> QED
  BY <1>1, <1>2, <1>3, <1>6 DEF n

LEMMA ChunkFacts ==
  ASSUME NEW c \in Chunks
  PROVE  /\ c.mat \in Materials /\ c.gen \in 1..MaxGen /\ Row(c).tokens \in Nat
         /\ c.kind = "body" => /\ c.pos \in 1..Len(Body[c.mat][c.gen])
                               /\ c = BodyText(c.mat, c.gen)[c.pos]
<1>1. PICK m \in Materials, g \in 1..MaxGen : c \in BodyChunks(m, g) \cup SignalChunks(m, g)
  BY DEF Chunks
<1>2. CASE c \in BodyChunks(m, g)
  <2>1. PICK i \in 1..Len(Body[m][g]) : c = [mat |-> m, gen |-> g, kind |-> "body", pos |-> i]
    <3>1. c \in {BodyText(m, g)[i] : i \in 1..Len(Body[m][g])}
      BY <1>2, TextFacts, Zenon
    <3>2. PICK i \in 1..Len(Body[m][g]) : c = BodyText(m, g)[i]
      BY <3>1
    <3> QED
      BY <3>2, TextFacts
  <2>2. Body[m][g][i].tokens \in Nat /\ BodyText(m, g)[i] = c
    BY <2>1, TextFacts, RetrievalAssumption
  <2> QED
    BY <2>1, <2>2 DEF Row
<1>3. CASE c \in SignalChunks(m, g)
  <2>1. PICK s \in Signals[m][g] : c = [mat |-> m, gen |-> g, kind |-> s.kind, pos |-> s]
    BY <1>3 DEF SignalChunks
  <2>2. s.tokens \in Nat /\ s.kind # "body"
    BY RetrievalAssumption
  <2> QED
    BY <2>1, <2>2 DEF Row
<1> QED
  BY <1>1, <1>2, <1>3
-----------------------------------------------------------------------------
(* The tokens of a context.                                                 *)

LEMMA EntryTokens == ASSUME NEW e \in Entries PROVE Tokens(e) \in Nat
<1>1. e.chunk \in Chunks /\ (e.image \in Chunks \/ e.image = None)
  BY DEF Entries
<1>2. Row(e.chunk).tokens \in Nat /\ (e.image # None => Row(e.image).tokens \in Nat)
  BY <1>1, ChunkFacts
<1> QED
  BY <1>2 DEF Tokens

LEMMA SumExists ==
  ASSUME NEW s \in Seq(Entries)
  PROVE  \E sum : /\ TokensOf(s) = sum[Len(s)] /\ sum[0] = 0
                  /\ \A i \in 1..Len(s) : sum[i] = sum[i - 1] + Tokens(s[i])
                  /\ \A i \in 0..Len(s) : sum[i] \in Nat
<1> DEFINE n == Len(s)
           step == [p \in (1..n) \X Nat |-> p[2] + Tokens(s[p[1]])]
           sum == CHOOSE g : g = [i \in 0..Len(s) |-> IF i = 0 THEN 0 ELSE g[i - 1] + Tokens(s[i])]
<1>1. n \in Nat /\ \A i \in 1..n : s[i] \in Entries
  OBVIOUS
<1>2. \A i \in 1..n, x \in Nat : step[<<i, x>>] = x + Tokens(s[i])
  OBVIOUS
<1> HIDE DEF step, sum
<1>3. \A i \in 1..n, x \in Nat : x + Tokens(s[i]) \in Nat
  BY <1>1, EntryTokens
<1>4. PICK f \in [0..n -> Nat] : IsIteration(f, n, 0, step)
  <2> HIDE DEF n
  <2>1. StaysIn(step, n, Nat)
    BY <1>2, <1>3 DEF StaysIn
  <2> QED
    BY <1>1, <2>1, IterationExists
<1>5. f = [i \in 0..n |-> IF i = 0 THEN 0 ELSE f[i - 1] + Tokens(s[i])]
  <2>1. ASSUME NEW i \in 1..n PROVE f[i] = f[i - 1] + Tokens(s[i])
    <3>1. f[i - 1] \in Nat
      BY <1>1
    <3> QED
      BY <1>2, <1>4, <3>1 DEF IsIteration
  <2>2. \A i \in 0..n : f[i] = IF i = 0 THEN 0 ELSE f[i - 1] + Tokens(s[i])
    BY <1>1, <1>4, <2>1 DEF IsIteration
  <2> QED
    BY <2>2
<1>6. sum = [i \in 0..n |-> IF i = 0 THEN 0 ELSE sum[i - 1] + Tokens(s[i])]
  BY <1>5 DEF sum
<1>7. TokensOf(s) = sum[n]
  BY DEF TokensOf, sum
<1> HIDE DEF n
<1>8. sum[0] = 0 /\ \A i \in 1..n : sum[i] = sum[i - 1] + Tokens(s[i])
  BY <1>1, <1>6
<1> DEFINE T == {i \in 0..n : sum[i] \in Nat}
<1>9. 0..n \subseteq T
  <2>1. 0 \in T
    BY <1>1, <1>8
  <2>2. ASSUME NEW i \in 1..n, i - 1 \in T PROVE i \in T
    <3>1. sum[i] = sum[i - 1] + Tokens(s[i]) /\ sum[i - 1] \in Nat /\ i \in 0..n
      BY <1>1, <1>8, <2>2
    <3> QED
      BY <1>3, <3>1
  <2> HIDE DEF T
  <2> QED
    BY <1>1, <2>1, <2>2, UpTo
<1> QED
  BY <1>7, <1>8, <1>9 DEF n

LEMMA TokensFacts ==
  ASSUME NEW s \in Seq(Entries), NEW e \in Entries
  PROVE  TokensOf(Append(s, e)) = TokensOf(s) + Tokens(e)
<1> DEFINE n == Len(s)
           t == Append(s, e)
<1>1. /\ n \in Nat /\ t \in Seq(Entries) /\ Len(t) = n + 1 /\ t[n + 1] = e
      /\ \A i \in 1..n : t[i] = s[i]
  OBVIOUS
<1>2. PICK sum : /\ TokensOf(s) = sum[n] /\ sum[0] = 0
                 /\ \A i \in 1..n : sum[i] = sum[i - 1] + Tokens(s[i])
                 /\ \A i \in 0..n : sum[i] \in Nat
  BY SumExists
<1> HIDE DEF n, t
<1>3. PICK tum : /\ TokensOf(t) = tum[n + 1] /\ tum[0] = 0
                 /\ \A i \in 1..(n + 1) : tum[i] = tum[i - 1] + Tokens(t[i])
  <2>1. PICK tum : /\ TokensOf(t) = tum[Len(t)] /\ tum[0] = 0
                   /\ \A i \in 1..Len(t) : tum[i] = tum[i - 1] + Tokens(t[i])
    BY <1>1, SumExists
  <2> QED
    BY <1>1, <2>1
<1> DEFINE T == {i \in 0..n : tum[i] = sum[i]}
<1>4. 0..n \subseteq T
  <2>1. 0 \in T
    BY <1>1, <1>2, <1>3
  <2>2. ASSUME NEW i \in 1..n, i - 1 \in T PROVE i \in T
    <3>1. i \in 1..(n + 1) /\ i \in 0..n /\ tum[i - 1] = sum[i - 1] /\ t[i] = s[i]
      BY <1>1, <2>2
    <3> QED
      BY <1>2, <1>3, <3>1
  <2> HIDE DEF T
  <2> QED
    BY <1>1, <2>1, <2>2, UpTo
<1>5. tum[n] = sum[n] /\ tum[n + 1] = tum[n] + Tokens(e)
  <2>1. n + 1 \in 1..(n + 1) /\ n \in 0..n /\ (n + 1) - 1 = n
    BY <1>1
  <2> QED
    BY <1>1, <1>3, <1>4, <2>1
<1> QED
  BY <1>2, <1>3, <1>5 DEF t

LEMMA NoTokens == TokensOf(<<>>) = 0
<1>1. <<>> \in Seq(Entries) /\ Len(<<>>) = 0
  OBVIOUS
<1> QED
  BY <1>1, SumExists
-----------------------------------------------------------------------------
(* The selection of body chunks.                                            *)

IsSelection(sel) ==
  /\ sel \in [chunks : Seq(Entries), tokens : Nat]
  /\ Len(sel.chunks) <= MaxChunks
  /\ sel.tokens = TokensOf(sel.chunks) /\ sel.tokens <= MaxTokens

\* One body chunk is skipped or appended, within the limits.
LEMMA SelectStep ==
  ASSUME NEW hit \in Chunks, NEW c \in Chunks, c.kind = "body", NEW sel, IsSelection(sel)
  PROVE  /\ IsSelection(Select(sel, hit, c))
         /\ \/ Select(sel, hit, c) = sel
            \/ \E e \in Entries :
                 e.chunk = c /\ Select(sel, hit, c).chunks = Append(sel.chunks, e)
<1> DEFINE attach == Depicts(hit, Row(c)) /\ \A i \in DOMAIN sel.chunks : sel.chunks[i].image # hit
           tokens == sel.tokens + Row(c).tokens + (IF attach THEN Row(hit).tokens ELSE 0)
           e      == [chunk |-> c, image |-> IF attach THEN hit ELSE None]
           more   == [chunks |-> Append(sel.chunks, e), tokens |-> tokens]
           room   == Len(sel.chunks) < MaxChunks /\ tokens <= MaxTokens
<1>1. /\ sel.chunks \in Seq(Entries) /\ sel.tokens \in Nat
      /\ Row(c).tokens \in Nat /\ Row(hit).tokens \in Nat
      /\ Len(sel.chunks) \in Nat /\ MaxChunks \in Nat /\ MaxTokens \in Nat
  BY ChunkFacts, RetrievalAssumption DEF IsSelection
<1>2. \/ Select(sel, hit, c) = sel
      \/ room /\ Select(sel, hit, c) = more
  BY DEF Select
<1>3. /\ e \in Entries /\ e.chunk = c /\ tokens \in Nat
      /\ tokens = sel.tokens + Tokens(e)
  <2>1. hit # None
    BY NoneAssumption
  <2>2. CASE attach
    BY <1>1, <2>1, <2>2 DEF Entries, Tokens
  <2>3. CASE ~attach
    BY <1>1, <2>3 DEF Entries, Tokens
  <2> QED
    BY <2>2, <2>3
<1> HIDE DEF attach, tokens, e
<1>4. CASE room /\ Select(sel, hit, c) = more
  <2>1. more \in [chunks : Seq(Entries), tokens : Nat] /\ more.chunks = Append(sel.chunks, e) /\ more.tokens = tokens
    BY <1>1, <1>3
  <2>2. Len(more.chunks) = Len(sel.chunks) + 1
    BY <1>1, <1>3, <2>1
  <2>3. TokensOf(more.chunks) = TokensOf(sel.chunks) + Tokens(e)
    BY <1>1, <1>3, <2>1, TokensFacts
  <2> HIDE DEF more
  <2>4. Len(more.chunks) <= MaxChunks
    BY <1>1, <1>4, <2>2
  <2>5. more.tokens = TokensOf(more.chunks) /\ more.tokens <= MaxTokens
    BY <1>3, <1>4, <2>1, <2>3 DEF IsSelection
  <2>6. IsSelection(more)
    BY <2>1, <2>4, <2>5 DEF IsSelection
  <2> QED
    BY <1>3, <1>4, <2>1, <2>6
<1> QED
  BY <1>2, <1>4

\* The first body chunk that goes with the hit is taken, if it fits.
ChunksFit ==
  \A c, h \in Chunks :
    c.kind = "body" =>
      /\ Row(c).tokens <= MaxTokens
      /\ h.kind = "image" => Row(c).tokens + Row(h).tokens <= MaxTokens

LEMMA SelectFirst ==
  ASSUME NEW hit \in Chunks, NEW c \in Chunks, c.kind = "body", NEW sel, IsSelection(sel),
         sel.chunks = <<>>, ChunksFit,
         hit.kind # "body" \/ c.pos = hit.pos
  PROVE  Select(sel, hit, c).chunks # <<>>
<1> DEFINE attach == Depicts(hit, Row(c)) /\ \A i \in DOMAIN sel.chunks : sel.chunks[i].image # hit
           tokens == sel.tokens + Row(c).tokens + (IF attach THEN Row(hit).tokens ELSE 0)
           e      == [chunk |-> c, image |-> IF attach THEN hit ELSE None]
           n      == Len(Body[c.mat][c.gen])
<1>1. /\ sel.tokens = 0 /\ Len(sel.chunks) = 0
      /\ Row(c).tokens \in Nat /\ Row(hit).tokens \in Nat /\ MaxChunks > 0 /\ MaxChunks \in Nat
  <2>1. sel.tokens = TokensOf(<<>>)
    BY DEF IsSelection
  <2> QED
    BY <2>1, NoTokens, ChunkFacts, RetrievalAssumption
<1>2. tokens <= MaxTokens
  <2>1. CASE attach
    <3>1. hit.kind = "image"
      BY <2>1 DEF Depicts
    <3> QED
      BY <1>1, <2>1, <3>1, RetrievalAssumption DEF ChunksFit
  <2>2. CASE ~attach
    BY <1>1, <2>2, RetrievalAssumption DEF ChunksFit
  <2> QED
    BY <2>1, <2>2
<1>3. Goes(hit, Row(c), c.pos, n)
  <2>1. CASE hit.kind # "body"
    BY <2>1 DEF Goes
  <2>2. CASE hit.kind = "body"
    <3>1. c.pos \in Nat /\ c.pos = hit.pos
      BY <2>2, ChunkFacts, RetrievalAssumption
    <3>2. c.pos \in (hit.pos - 1)..(hit.pos + 1)
      BY <3>1
    <3> QED
      BY <3>2 DEF Goes
  <2> QED
    BY <2>1, <2>2
<1>4. Select(sel, hit, c) = [chunks |-> Append(sel.chunks, e), tokens |-> tokens]
  BY <1>1, <1>2, <1>3 DEF Select
<1>5. Append(sel.chunks, e) # <<>>
  <2>1. sel.chunks \in Seq(Entries)
    BY DEF IsSelection
  <2> HIDE DEF e
  <2> QED
    BY <2>1
<1> QED
  BY <1>4, <1>5
-----------------------------------------------------------------------------
(* The body chunks of one material.                                         *)

Selections == {sel \in [chunks : Seq(Entries), tokens : Nat] : IsSelection(sel)}

\* The body chunks of a generation in order, or none.
IsText(bodies, m, g) ==
  /\ bodies \in Seq(Chunks)
  /\ \A i \in 1..Len(bodies) : bodies[i] = [mat |-> m, gen |-> g, kind |-> "body", pos |-> i]

\* t is sel and then some of the first i of them.
Adds(sel, t, m, g, i) ==
  LET n == Len(sel.chunks) IN
  /\ IsSelection(t)
  /\ n <= Len(t.chunks)
  /\ \A k \in 1..n : t.chunks[k] = sel.chunks[k]
  /\ \A k \in (n + 1)..Len(t.chunks) :
       LET d == t.chunks[k].chunk IN d.mat = m /\ d.gen = g /\ d.kind = "body" /\ d.pos \in 1..i
  /\ \A k, l \in (n + 1)..Len(t.chunks) :
       k < l => t.chunks[k].chunk.pos < t.chunks[l].chunk.pos

LEMMA BodiesRun ==
  ASSUME NEW hit \in Chunks, NEW sel, IsSelection(sel), NEW bodies \in Seq(Chunks),
         \A i \in 1..Len(bodies) : bodies[i].kind = "body"
  PROVE  \E run : /\ SelectBodies(sel, hit, bodies) = run[Len(bodies)] /\ run[0] = sel
                  /\ \A i \in 1..Len(bodies) : run[i] = Select(run[i - 1], hit, bodies[i])
                  /\ \A i \in 0..Len(bodies) : run[i] \in Selections
<1> DEFINE n == Len(bodies)
           step == [p \in (1..n) \X Selections |-> Select(p[2], hit, bodies[p[1]])]
           run == CHOOSE f : f = [i \in 0..Len(bodies) |->
                                    IF i = 0 THEN sel ELSE Select(f[i - 1], hit, bodies[i])]
<1>1. n \in Nat /\ sel \in Selections /\ \A i \in 1..n : bodies[i] \in Chunks /\ bodies[i].kind = "body"
  BY DEF Selections, IsSelection
<1> HIDE DEF run
<1>2. \A i \in 1..n, x \in Selections : step[<<i, x>>] = Select(x, hit, bodies[i])
  OBVIOUS
<1> HIDE DEF step
<1>3. ASSUME NEW i \in 1..n, NEW x \in Selections PROVE Select(x, hit, bodies[i]) \in Selections
  <2>1. IsSelection(x)
    BY DEF Selections
  <2>2. IsSelection(Select(x, hit, bodies[i]))
    BY <1>1, <2>1, SelectStep
  <2> QED
    BY <2>2 DEF Selections, IsSelection
<1>4. PICK f \in [0..n -> Selections] : IsIteration(f, n, sel, step)
  <2> HIDE DEF n
  <2>1. StaysIn(step, n, Selections)
    BY <1>2, <1>3 DEF StaysIn
  <2> QED
    BY <1>1, <2>1, IterationExists
<1>5. ASSUME NEW i \in 1..n PROVE f[i] = Select(f[i - 1], hit, bodies[i])
  <2>1. f[i - 1] \in Selections
    BY <1>1
  <2> QED
    BY <1>2, <1>4, <2>1 DEF IsIteration
<1>6. f = [i \in 0..n |-> IF i = 0 THEN sel ELSE Select(f[i - 1], hit, bodies[i])]
  <2>1. \A i \in 0..n : f[i] = IF i = 0 THEN sel ELSE Select(f[i - 1], hit, bodies[i])
    BY <1>1, <1>4, <1>5 DEF IsIteration
  <2> QED
    BY <2>1
<1>7. run = [i \in 0..n |-> IF i = 0 THEN sel ELSE Select(run[i - 1], hit, bodies[i])]
  BY <1>6 DEF run
<1>8. SelectBodies(sel, hit, bodies) = run[n]
  BY DEF SelectBodies, run
<1> HIDE DEF n
<1>9. run[0] = sel /\ \A i \in 1..n : run[i] = Select(run[i - 1], hit, bodies[i])
  BY <1>1, <1>7
<1> DEFINE T == {i \in 0..n : run[i] \in Selections}
<1>10. 0..n \subseteq T
  <2>1. 0 \in T
    BY <1>1, <1>9
  <2>2. ASSUME NEW i \in 1..n, i - 1 \in T PROVE i \in T
    <3>1. run[i - 1] \in Selections /\ i \in 0..n
      BY <1>1, <2>2
    <3> QED
      BY <1>3, <1>9, <3>1
  <2> HIDE DEF T
  <2> QED
    BY <1>1, <2>1, <2>2, UpTo
<1> QED
  BY <1>8, <1>9, <1>10 DEF n

LEMMA AddsStep ==
  ASSUME NEW hit \in Chunks, NEW sel, IsSelection(sel), NEW m, NEW g,
         NEW bodies, IsText(bodies, m, g),
         NEW i \in 1..Len(bodies), NEW t, Adds(sel, t, m, g, i - 1)
  PROVE  Adds(sel, Select(t, hit, bodies[i]), m, g, i)
<1> DEFINE n == Len(sel.chunks)
           u == Select(t, hit, bodies[i])
           c == bodies[i]
<1>1. /\ c \in Chunks /\ c = [mat |-> m, gen |-> g, kind |-> "body", pos |-> i]
      /\ IsSelection(t) /\ n <= Len(t.chunks) /\ i \in Nat /\ i > 0
      /\ \A k \in 1..n : t.chunks[k] = sel.chunks[k]
      /\ \A k \in (n + 1)..Len(t.chunks) :
           LET d == t.chunks[k].chunk IN d.mat = m /\ d.gen = g /\ d.kind = "body" /\ d.pos \in 1..(i - 1)
      /\ \A k, l \in (n + 1)..Len(t.chunks) :
           k < l => t.chunks[k].chunk.pos < t.chunks[l].chunk.pos
  BY DEF IsText, Adds
<1>2. /\ n \in Nat /\ t.chunks \in Seq(Entries) /\ Len(t.chunks) \in Nat
  BY <1>1 DEF IsSelection
<1>3. /\ IsSelection(u)
      /\ \/ u = t
         \/ \E e \in Entries : e.chunk = c /\ u.chunks = Append(t.chunks, e)
  BY <1>1, SelectStep
<1> HIDE DEF u, n, c
<1>4. CASE u = t
  <2>1. \A p : p \in 1..(i - 1) => p \in 1..i
    BY <1>1
  <2> QED
    BY <1>1, <1>4, <2>1 DEF Adds, u, n, c
<1>5. CASE u # t
  <2>1. PICK e \in Entries : e.chunk = c /\ u.chunks = Append(t.chunks, e)
    BY <1>3, <1>5
  <2>2. /\ Len(u.chunks) = Len(t.chunks) + 1 /\ u.chunks[Len(t.chunks) + 1] = e
        /\ \A k \in 1..Len(t.chunks) : u.chunks[k] = t.chunks[k]
    BY <1>2, <2>1
  <2>3. n <= Len(u.chunks) /\ \A k \in 1..n : u.chunks[k] = sel.chunks[k]
    BY <1>1, <1>2, <2>2
  <2>4. ASSUME NEW k \in (n + 1)..Len(u.chunks)
        PROVE  \/ k = Len(t.chunks) + 1 /\ u.chunks[k].chunk = c
               \/ k \in (n + 1)..Len(t.chunks) /\ u.chunks[k] = t.chunks[k]
    <3>1. k = Len(t.chunks) + 1 \/ k \in (n + 1)..Len(t.chunks)
      BY <1>2, <2>2
    <3>2. k \in (n + 1)..Len(t.chunks) => k \in 1..Len(t.chunks)
      BY <1>2
    <3>3. CASE k = Len(t.chunks) + 1
      <4>1. u.chunks[k] = e
        BY <2>2, <3>3
      <4> QED
        BY <2>1, <3>3, <4>1
    <3>4. CASE k \in (n + 1)..Len(t.chunks)
      <4>1. u.chunks[k] = t.chunks[k]
        BY <2>2, <3>2, <3>4
      <4> QED
        BY <3>4, <4>1
    <3> QED
      BY <3>1, <3>3, <3>4
  <2>5. ASSUME NEW k \in (n + 1)..Len(u.chunks)
        PROVE  LET d == u.chunks[k].chunk IN
               d.mat = m /\ d.gen = g /\ d.kind = "body" /\ d.pos \in 1..i
    <3>1. CASE k = Len(t.chunks) + 1 /\ u.chunks[k].chunk = c
      BY <1>1, <3>1
    <3>2. CASE k \in (n + 1)..Len(t.chunks) /\ u.chunks[k] = t.chunks[k]
      BY <1>1, <3>2
    <3> QED
      BY <2>4, <3>1, <3>2
  <2>6. ASSUME NEW k \in (n + 1)..Len(u.chunks), NEW l \in (n + 1)..Len(u.chunks), k < l
        PROVE  u.chunks[k].chunk.pos < u.chunks[l].chunk.pos
    <3>1. k \in (n + 1)..Len(t.chunks) /\ u.chunks[k] = t.chunks[k]
      BY <1>2, <2>2, <2>4, <2>6
    <3>2. CASE l = Len(t.chunks) + 1 /\ u.chunks[l].chunk = c
      <4>1. t.chunks[k].chunk.pos \in 1..(i - 1) /\ c.pos = i
        BY <1>1, <3>1
      <4>2. t.chunks[k].chunk.pos < i
        BY <1>1, <4>1
      <4> QED
        BY <3>1, <3>2, <4>1, <4>2
    <3>3. CASE l \in (n + 1)..Len(t.chunks) /\ u.chunks[l] = t.chunks[l]
      BY <1>1, <2>6, <3>1, <3>3
    <3> QED
      BY <2>4, <3>2, <3>3
  <2> QED
    BY <1>3, <2>3, <2>5, <2>6 DEF Adds, u, n, c
<1> QED
  BY <1>4, <1>5

\* The body chunks of one material: some of them are added in their order, and
\* one of a best candidate that is among them.
LEMMA SelectBodiesFacts ==
  ASSUME NEW hit \in Chunks, NEW sel, IsSelection(sel), NEW m, NEW g,
         NEW bodies, IsText(bodies, m, g)
  PROVE  /\ Adds(sel, SelectBodies(sel, hit, bodies), m, g, Len(bodies))
         /\ /\ ChunksFit /\ sel.chunks = <<>> /\ Len(bodies) > 0
            /\ hit.kind = "body" => hit.pos \in 1..Len(bodies)
            => SelectBodies(sel, hit, bodies).chunks # <<>>
<1> DEFINE n == Len(bodies)
<1>1. /\ bodies \in Seq(Chunks) /\ n \in Nat
      /\ \A i \in 1..n : bodies[i] \in Chunks /\ bodies[i].kind = "body" /\ bodies[i].pos = i
  <2>1. bodies \in Seq(Chunks) /\ n \in Nat
    BY DEF IsText
  <2>2. ASSUME NEW i \in 1..n
        PROVE  bodies[i] \in Chunks /\ bodies[i].kind = "body" /\ bodies[i].pos = i
    <3>1. bodies[i] = [mat |-> m, gen |-> g, kind |-> "body", pos |-> i]
      BY DEF IsText
    <3>2. bodies[i] \in Chunks
      BY <2>1
    <3> QED
      BY <3>1, <3>2
  <2> QED
    BY <2>1, <2>2
<1>2. PICK run : /\ SelectBodies(sel, hit, bodies) = run[n] /\ run[0] = sel
                 /\ \A i \in 1..n : run[i] = Select(run[i - 1], hit, bodies[i])
                 /\ \A i \in 0..n : run[i] \in Selections
  BY <1>1, BodiesRun
<1> HIDE DEF n
<1> DEFINE T == {i \in 0..n : Adds(sel, run[i], m, g, i)}
<1>3. 0..n \subseteq T
  <2>1. 0 \in T
    <3>1. Len(sel.chunks) \in Nat
      BY DEF IsSelection
    <3>2. Adds(sel, sel, m, g, 0)
      BY <3>1 DEF Adds
    <3> QED
      BY <1>1, <1>2, <3>2
  <2>2. ASSUME NEW i \in 1..n, i - 1 \in T PROVE i \in T
    <3>1. Adds(sel, run[i - 1], m, g, i - 1) /\ i \in 0..n
      BY <1>1, <2>2
    <3>2. Adds(sel, Select(run[i - 1], hit, bodies[i]), m, g, i)
      BY <3>1, AddsStep DEF n
    <3> QED
      BY <1>2, <3>1, <3>2
  <2> HIDE DEF T
  <2> QED
    BY <1>1, <2>1, <2>2, UpTo
<1>4. Adds(sel, run[n], m, g, n)
  BY <1>1, <1>3
<1>5. ASSUME ChunksFit, sel.chunks = <<>>, n > 0, hit.kind = "body" => hit.pos \in 1..n
      PROVE  run[n].chunks # <<>>
  <2> DEFINE p == IF hit.kind = "body" THEN hit.pos ELSE 1
             W == {i \in 0..n : i >= p => run[i].chunks # <<>>}
  <2>1. p \in 1..n
    BY <1>1, <1>5
  <2>2. 0 \in W
    BY <1>1, <2>1
  <2>3. ASSUME NEW i \in 1..n, i - 1 \in W PROVE i \in W
    <3>1. /\ run[i - 1] \in Selections /\ run[i] = Select(run[i - 1], hit, bodies[i])
          /\ i \in 0..n /\ i - 1 \in 0..n /\ i \in Int
          /\ i - 1 >= p => run[i - 1].chunks # <<>>
      BY <1>1, <1>2, <2>3
    <3>2. IsSelection(run[i - 1]) /\ run[i - 1].chunks \in Seq(Entries)
      BY <3>1 DEF Selections
    <3>3. CASE run[i - 1].chunks # <<>>
      <4>0. bodies[i] \in Chunks /\ bodies[i].kind = "body"
        BY <1>1
      <4> DEFINE x == run[i - 1]
                 c == bodies[i]
      <4>1. \/ run[i] = run[i - 1]
            \/ \E e \in Entries : run[i].chunks = Append(run[i - 1].chunks, e)
        <5>1. IsSelection(x) /\ c \in Chunks /\ c.kind = "body" /\ run[i] = Select(x, hit, c)
          BY <3>1, <3>2, <4>0
        <5> HIDE DEF x, c
        <5>2. \/ Select(x, hit, c) = x
              \/ \E e \in Entries : Select(x, hit, c).chunks = Append(x.chunks, e)
          BY <5>1, SelectStep
        <5> QED
          BY <5>1, <5>2 DEF x
      <4>2. \A e : Append(run[i - 1].chunks, e) # <<>>
        BY <3>2
      <4>3. run[i].chunks # <<>>
        BY <3>3, <4>1, <4>2
      <4> QED
        BY <3>1, <4>3
    <3>4. CASE run[i - 1].chunks = <<>>
      <4>1. CASE i >= p
        <5>1. i = p
          BY <2>1, <3>1, <3>4, <4>1
        <5>2. hit.kind # "body" \/ bodies[i].pos = hit.pos
          BY <1>1, <5>1
        <5>3. Select(run[i - 1], hit, bodies[i]).chunks # <<>>
          BY <1>1, <1>5, <3>2, <3>4, <5>2, SelectFirst
        <5> QED
          BY <3>1, <5>3
      <4>2. CASE ~(i >= p)
        BY <3>1, <4>2
      <4> QED
        BY <4>1, <4>2
    <3> QED
      BY <3>3, <3>4
  <2>4. 0..n \subseteq W
    <3> HIDE DEF W
    <3> QED
      BY <1>1, <2>2, <2>3, UpTo
  <2>5. n \in W /\ n >= p
    BY <1>1, <2>1, <2>4
  <2> QED
    BY <2>5
<1> QED
  BY <1>2, <1>4, <1>5 DEF n
-----------------------------------------------------------------------------
(* The context.                                                             *)

\* Chunks of what is indexed and may be read now, of the first i hits, those of
\* a material in their order.
IsContext(sel, ids, hits, i) ==
  /\ IsSelection(sel)
  /\ \A k \in 1..Len(sel.chunks) :
       LET d == sel.chunks[k].chunk IN
         /\ d.gen = indexed[d.mat] /\ Reached(ids, d.mat)
         /\ \E j \in 1..i : d.mat = hits[j].mat
  /\ \A k, l \in 1..Len(sel.chunks) :
       k < l /\ sel.chunks[k].chunk.mat = sel.chunks[l].chunk.mat
         => sel.chunks[k].chunk.pos < sel.chunks[l].chunk.pos

\* The material of the hit is in the context.
IsIn(sel, m) == \E k \in 1..Len(sel.chunks) : sel.chunks[k].chunk.mat = m

LEMMA BodiesFacts ==
  ASSUME indexed \in [Materials -> 0..MaxGen], NEW ids, NEW hit \in Chunks
  PROVE  /\ IsText(Bodies(ids, hit), hit.mat, indexed[hit.mat])
         /\ Len(Bodies(ids, hit)) > 0 => Reached(ids, hit.mat)
         /\ Reached(ids, hit.mat) => Len(Bodies(ids, hit)) = Len(Body[hit.mat][indexed[hit.mat]])
<1> DEFINE m == hit.mat
           g == indexed[m]
<1>1. m \in Materials /\ g \in 0..MaxGen
  BY ChunkFacts
<1>2. CASE Reached(ids, m)
  <2>1. g \in 1..MaxGen
    BY <1>1, <1>2, RetrievalAssumption DEF Reached
  <2>2. Bodies(ids, hit) = BodyText(m, g)
    BY <1>2 DEF Bodies
  <2> HIDE DEF m, g
  <2>3. IsText(BodyText(m, g), m, g) /\ Len(BodyText(m, g)) = Len(Body[m][g])
    BY <1>1, <2>1, TextFacts DEF IsText
  <2> QED
    BY <1>2, <2>2, <2>3 DEF m, g
<1>3. CASE ~Reached(ids, m)
  <2>1. Bodies(ids, hit) = <<>>
    BY <1>3 DEF Bodies
  <2>2. <<>> \in Seq(Chunks) /\ Len(<<>>) = 0
    OBVIOUS
  <2> QED
    BY <1>3, <2>1, <2>2 DEF IsText
<1> QED
  BY <1>2, <1>3

LEMMA ContextStep ==
  ASSUME indexed \in [Materials -> 0..MaxGen], NEW ids,
         NEW hits \in Seq(Chunks), \A j, k \in 1..Len(hits) : j # k => hits[j].mat # hits[k].mat,
         NEW i \in 1..Len(hits), NEW sel, IsContext(sel, ids, hits, i - 1)
  PROVE  LET t == SelectBodies(sel, hits[i], Bodies(ids, hits[i])) IN
           /\ IsContext(t, ids, hits, i)
           /\ \A m : IsIn(sel, m) => IsIn(t, m)
<1> DEFINE hit    == hits[i]
           bodies == Bodies(ids, hit)
           t      == SelectBodies(sel, hit, bodies)
           m      == hit.mat
           g      == indexed[m]
           n      == Len(sel.chunks)
<1>1. hit \in Chunks
  OBVIOUS
<1>2. IsText(bodies, m, g) /\ (Len(bodies) > 0 => Reached(ids, m))
  BY <1>1, BodiesFacts
<1>3. /\ IsSelection(sel)
      /\ \A k \in 1..n :
           LET d == sel.chunks[k].chunk IN
             /\ d.gen = indexed[d.mat] /\ Reached(ids, d.mat)
             /\ \E j \in 1..(i - 1) : d.mat = hits[j].mat
      /\ \A k, l \in 1..n :
           k < l /\ sel.chunks[k].chunk.mat = sel.chunks[l].chunk.mat
             => sel.chunks[k].chunk.pos < sel.chunks[l].chunk.pos
  BY DEF IsContext
<1> HIDE DEF bodies, g
<1>4. Adds(sel, t, m, g, Len(bodies))
  <2> HIDE DEF hit
  <2>1. Adds(sel, SelectBodies(sel, hit, bodies), m, g, Len(bodies))
    BY <1>1, <1>2, <1>3, SelectBodiesFacts
  <2> QED
    BY <2>1
<1> HIDE DEF t
<1>5. /\ IsSelection(t) /\ n <= Len(t.chunks)
      /\ \A k \in 1..n : t.chunks[k] = sel.chunks[k]
      /\ \A k \in (n + 1)..Len(t.chunks) :
           LET d == t.chunks[k].chunk IN d.mat = m /\ d.gen = g /\ d.kind = "body" /\ d.pos \in 1..Len(bodies)
      /\ \A k, l \in (n + 1)..Len(t.chunks) :
           k < l => t.chunks[k].chunk.pos < t.chunks[l].chunk.pos
  BY <1>4 DEF Adds
<1>6. n \in Nat /\ Len(t.chunks) \in Nat /\ Len(bodies) \in Nat /\ i \in 1..i
  BY <1>2, <1>3, <1>5 DEF IsSelection, IsText
<1>7. \A j \in 1..(i - 1) : j \in 1..i /\ j \in 1..Len(hits) /\ j # i
  OBVIOUS
<1>8. ASSUME NEW k \in 1..Len(t.chunks)
      PROVE  LET d == t.chunks[k].chunk IN
               /\ d.gen = indexed[d.mat] /\ Reached(ids, d.mat)
               /\ \E j \in 1..i : d.mat = hits[j].mat
  <2>1. CASE k \in 1..n
    <3> DEFINE d == sel.chunks[k].chunk
    <3>1. t.chunks[k].chunk = d /\ d.gen = indexed[d.mat] /\ Reached(ids, d.mat)
      BY <1>3, <1>5, <2>1
    <3>2. PICK j \in 1..(i - 1) : d.mat = hits[j].mat
      BY <1>3, <2>1
    <3> HIDE DEF d
    <3> QED
      BY <1>7, <3>1, <3>2
  <2>2. CASE k \notin 1..n
    <3>1. k \in (n + 1)..Len(t.chunks)
      BY <1>6, <2>2
    <3> DEFINE d == t.chunks[k].chunk
    <3>2. d.mat = m /\ d.gen = g /\ d.pos \in 1..Len(bodies)
      BY <1>5, <3>1
    <3>3. Reached(ids, m)
      BY <1>2, <1>6, <3>2
    <3> HIDE DEF d
    <3>4. d.gen = indexed[d.mat] /\ Reached(ids, d.mat) /\ d.mat = hits[i].mat
      BY <3>2, <3>3 DEF g
    <3> QED
      BY <1>6, <3>4 DEF d
  <2> QED
    BY <2>1, <2>2
<1>9. ASSUME NEW k \in 1..Len(t.chunks), NEW l \in 1..Len(t.chunks), k < l,
             t.chunks[k].chunk.mat = t.chunks[l].chunk.mat
      PROVE  t.chunks[k].chunk.pos < t.chunks[l].chunk.pos
  <2>1. CASE l \in 1..n
    <3>1. k \in 1..n
      BY <1>6, <1>9, <2>1
    <3> QED
      BY <1>3, <1>5, <1>9, <2>1, <3>1
  <2>2. CASE k \in (n + 1)..Len(t.chunks)
    <3>1. l \in (n + 1)..Len(t.chunks)
      BY <1>6, <1>9, <2>2
    <3> QED
      BY <1>5, <1>9, <2>2, <3>1
  <2>3. CASE k \in 1..n /\ l \notin 1..n
    <3>1. l \in (n + 1)..Len(t.chunks)
      BY <1>6, <2>3
    <3>2. t.chunks[l].chunk.mat = m
      BY <1>5, <3>1
    <3>3. PICK j \in 1..(i - 1) : t.chunks[k].chunk.mat = hits[j].mat
      BY <1>3, <1>5, <2>3
    <3>4. hits[j].mat # m
      BY <1>7
    <3> QED
      BY <1>9, <3>2, <3>3, <3>4
  <2>4. k \in 1..n \/ k \in (n + 1)..Len(t.chunks)
    BY <1>6
  <2> QED
    BY <2>1, <2>2, <2>3, <2>4
<1>10. IsContext(t, ids, hits, i)
  BY <1>5, <1>8, <1>9 DEF IsContext
<1>11. ASSUME NEW x, IsIn(sel, x) PROVE IsIn(t, x)
  <2>1. PICK k \in 1..n : sel.chunks[k].chunk.mat = x
    BY <1>11 DEF IsIn
  <2>2. k \in 1..Len(t.chunks) /\ t.chunks[k].chunk.mat = x
    BY <1>5, <1>6, <2>1
  <2> QED
    BY <2>2 DEF IsIn
<1> QED
  BY <1>10, <1>11 DEF t, bodies

Nothing == [chunks |-> <<>>, tokens |-> 0]

LEMMA NothingFacts ==
  /\ IsSelection(Nothing) /\ Nothing \in Selections
  /\ Nothing.chunks = <<>> /\ Len(<<>>) = 0
<1>1. <<>> \in Seq(Entries) /\ Len(<<>>) = 0
  OBVIOUS
<1>2. IsSelection(Nothing)
  BY <1>1, NoTokens, RetrievalAssumption DEF Nothing, IsSelection
<1> QED
  BY <1>1, <1>2 DEF Nothing, Selections

LEMMA SelectedRun ==
  ASSUME indexed \in [Materials -> 0..MaxGen], NEW ids, NEW hits \in Seq(Chunks)
  PROVE  \E run : /\ Selected(ids, hits) = run[Len(hits)] /\ run[0] = Nothing
                  /\ \A i \in 1..Len(hits) :
                       run[i] = SelectBodies(run[i - 1], hits[i], Bodies(ids, hits[i]))
<1> DEFINE n == Len(hits)
           Step(x, i) == SelectBodies(x, hits[i], Bodies(ids, hits[i]))
           step == [p \in (1..n) \X Selections |-> Step(p[2], p[1])]
           run == CHOOSE f : f = [i \in 0..Len(hits) |-> IF i = 0 THEN Nothing ELSE Step(f[i - 1], i)]
<1>1. n \in Nat /\ Nothing \in Selections /\ \A i \in 1..n : hits[i] \in Chunks
  BY NothingFacts
<1>2. \A i \in 1..n, x \in Selections : step[<<i, x>>] = Step(x, i)
  OBVIOUS
<1>3. ASSUME NEW i \in 1..n, NEW x \in Selections PROVE Step(x, i) \in Selections
  <2> DEFINE hit == hits[i]
             bodies == Bodies(ids, hit)
             t == Step(x, i)
  <2>1. hit \in Chunks /\ IsSelection(x)
    BY <1>1 DEF Selections
  <2>2. IsText(bodies, hit.mat, indexed[hit.mat])
    BY <2>1, BodiesFacts
  <2> HIDE DEF hit, bodies
  <2>3. Adds(x, SelectBodies(x, hit, bodies), hit.mat, indexed[hit.mat], Len(bodies))
    BY <2>1, <2>2, SelectBodiesFacts
  <2>4. t = SelectBodies(x, hit, bodies)
    BY DEF hit, bodies
  <2> HIDE DEF t, Step
  <2>5. IsSelection(t)
    BY <2>3, <2>4 DEF Adds
  <2> QED
    BY <2>5 DEF Selections, IsSelection, t
<1> HIDE DEF run, step, Step
<1>4. PICK f \in [0..n -> Selections] : IsIteration(f, n, Nothing, step)
  <2> HIDE DEF n
  <2>1. StaysIn(step, n, Selections)
    BY <1>2, <1>3 DEF StaysIn
  <2> QED
    BY <1>1, <2>1, IterationExists
<1>5. ASSUME NEW i \in 1..n PROVE f[i] = Step(f[i - 1], i)
  <2>1. f[i - 1] \in Selections
    BY <1>1
  <2> QED
    BY <1>2, <1>4, <2>1 DEF IsIteration
<1>6. f = [i \in 0..n |-> IF i = 0 THEN Nothing ELSE Step(f[i - 1], i)]
  <2>1. \A i \in 0..n : f[i] = IF i = 0 THEN Nothing ELSE Step(f[i - 1], i)
    BY <1>1, <1>4, <1>5 DEF IsIteration
  <2> QED
    BY <2>1
<1>7. run = [i \in 0..n |-> IF i = 0 THEN Nothing ELSE Step(run[i - 1], i)]
  BY <1>6 DEF run
<1>8. Selected(ids, hits) = run[n]
  BY DEF Selected, run, Step, Nothing
<1> HIDE DEF n
<1>9. run[0] = Nothing /\ \A i \in 1..n : run[i] = Step(run[i - 1], i)
  BY <1>1, <1>7
<1> QED
  BY <1>8, <1>9 DEF n, Step

LEMMA SelectedFacts ==
  ASSUME indexed \in [Materials -> 0..MaxGen], NEW ids, NEW s \in Seq(Chunks)
  PROVE  LET hits == BestHits(s)
             t    == Selected(ids, hits)
         IN /\ hits \in Seq(Chunks) /\ Len(hits) <= MaxMaterials
            /\ IsContext(t, ids, hits, Len(hits))
            /\ /\ ChunksFit /\ s # <<>> /\ s[1] \in Found(ids)
               /\ BodyChunks(s[1].mat, s[1].gen) # {}
               => IsIn(t, s[1].mat)
<1> DEFINE hits == BestHits(s)
           n    == Len(hits)
<1>1. IsHits(hits, s, Len(s))
  BY BestHitsFacts
<1> HIDE DEF hits
<1>2. /\ hits \in Seq(Chunks) /\ n <= MaxMaterials /\ n \in Nat
      /\ \A j, k \in 1..n : j # k => hits[j].mat # hits[k].mat
      /\ s # <<>> => hits # <<>> /\ hits[1] = s[1]
  BY <1>1 DEF IsHits
<1>3. PICK run : /\ Selected(ids, hits) = run[n] /\ run[0] = Nothing
                 /\ \A i \in 1..n :
                      run[i] = SelectBodies(run[i - 1], hits[i], Bodies(ids, hits[i]))
  BY <1>2, SelectedRun
<1>4. ASSUME NEW i \in 1..n, IsContext(run[i - 1], ids, hits, i - 1)
      PROVE  /\ IsContext(run[i], ids, hits, i)
             /\ \A m : IsIn(run[i - 1], m) => IsIn(run[i], m)
  <2> DEFINE sel == run[i - 1]
  <2>1. IsContext(sel, ids, hits, i - 1)
    BY <1>4
  <2> HIDE DEF sel
  <2>2. LET t == SelectBodies(sel, hits[i], Bodies(ids, hits[i])) IN
          /\ IsContext(t, ids, hits, i)
          /\ \A m : IsIn(sel, m) => IsIn(t, m)
    BY <1>2, <2>1, ContextStep
  <2>3. run[i] = SelectBodies(sel, hits[i], Bodies(ids, hits[i]))
    BY <1>3 DEF sel
  <2> HIDE DEF n
  <2> QED
    BY <2>2, <2>3 DEF sel
<1> HIDE DEF n
<1> DEFINE T == {i \in 0..n : IsContext(run[i], ids, hits, i)}
<1>5. IsSelection(Nothing) /\ Nothing.chunks = <<>> /\ Len(<<>>) = 0
  BY NothingFacts
<1>6. 0 \in T
  BY <1>2, <1>3, <1>5 DEF IsContext
<1>7. ASSUME NEW i \in 1..n, i - 1 \in T PROVE i \in T
  BY <1>2, <1>4, <1>7
<1>8. 0..n \subseteq T
  <2> HIDE DEF T
  <2> QED
    BY <1>2, <1>6, <1>7, UpTo
<1>9. IsContext(run[n], ids, hits, n)
  BY <1>2, <1>8
<1>10. ASSUME ChunksFit, s # <<>>, s[1] \in Found(ids), BodyChunks(s[1].mat, s[1].gen) # {}
       PROVE  IsIn(run[n], s[1].mat)
  <2> DEFINE best   == s[1]
             m      == best.mat
             bodies == Bodies(ids, best)
             t      == SelectBodies(Nothing, best, bodies)
             W == {i \in 0..n : i > 0 => IsIn(run[i], m)}
  <2>1. /\ best \in Chunks /\ Reached(ids, m) /\ best.gen = indexed[m]
        /\ m \in Materials /\ best.gen \in 1..MaxGen
        /\ best.kind = "body" => best.pos \in 1..Len(Body[m][best.gen])
    BY <1>10, ChunkFacts DEF Found
  <2>2. IsText(bodies, m, best.gen) /\ Len(bodies) = Len(Body[m][best.gen])
    BY <2>1, BodiesFacts
  <2>3. Len(bodies) > 0
    <3>1. BodyChunks(m, best.gen) # {}
      BY <1>10
    <3>2. Len(Body[m][best.gen]) # 0
      BY <2>1, <3>1, TextFacts
    <3>3. Len(Body[m][best.gen]) \in Nat
      BY <2>1, RetrievalAssumption
    <3> QED
      BY <2>2, <3>2, <3>3
  <2>4. hits[1] = best /\ 1 \in 1..n /\ n > 0
    BY <1>2, <1>10 DEF n
  <2>5. run[1] = t
    BY <1>3, <2>4
  <2> HIDE DEF best, m, bodies
  <2>6. Adds(Nothing, t, m, best.gen, Len(bodies)) /\ t.chunks # <<>>
    <3>1. best.kind = "body" => best.pos \in 1..Len(bodies)
      BY <2>1, <2>2
    <3> QED
      BY <1>5, <1>10, <2>1, <2>2, <2>3, <3>1, SelectBodiesFacts
  <2> HIDE DEF t
  <2>7. IsIn(t, m)
    <3>1. t.chunks \in Seq(Entries) /\ 1 \in 1..Len(t.chunks)
      BY <2>6 DEF Adds, IsSelection
    <3>2. t.chunks[1].chunk.mat = m
      BY <1>5, <2>6, <3>1 DEF Adds
    <3> QED
      BY <3>1, <3>2 DEF IsIn
  <2>8. 0 \in W
    BY <1>2
  <2>9. ASSUME NEW i \in 1..n, i - 1 \in W PROVE i \in W
    <3>1. i \in 0..n /\ i - 1 \in 0..n /\ (i - 1 > 0 => IsIn(run[i - 1], m)) /\ (i - 1 > 0 \/ i = 1)
      BY <1>2, <2>9
    <3>2. CASE i = 1
      BY <2>5, <2>7, <3>1, <3>2
    <3>3. CASE i - 1 > 0
      <4>1. IsContext(run[i - 1], ids, hits, i - 1)
        BY <1>8, <3>1
      <4>2. IsIn(run[i], m)
        BY <1>4, <3>1, <3>3, <4>1
      <4> QED
        BY <3>1, <4>2
    <3> QED
      BY <3>1, <3>2, <3>3
  <2>10. 0..n \subseteq W
    <3> HIDE DEF W
    <3> QED
      BY <1>2, <2>8, <2>9, UpTo
  <2>11. n \in W
    BY <1>2, <2>10
  <2> QED
    BY <2>4, <2>11 DEF m, best
<1> QED
  BY <1>2, <1>3, <1>9, <1>10 DEF hits, n
-----------------------------------------------------------------------------
(* The question.                                                            *)

LEMMA TypeFacts ==
  ASSUME TypeOK
  PROVE  /\ TeamsTypeOK /\ indexed \in [Materials -> 0..MaxGen]
         /\ left \in 0..Total /\ Total \in Nat /\ vector \in Seq(Chunks) /\ ranked \in Seq(Chunks)
         /\ IsInjective(ranked) /\ Len(ranked) <= DefaultTopK /\ Len(ranked) \in Nat
         /\ Range(ranked) \subseteq Chunks
<1>1. vector \in Seq(Chunks) /\ ranked \in Seq(Chunks)
  BY DEF TypeOK
<1> QED
  BY <1>1, RetrievalAssumption DEF TypeOK, Range

LEMMA EntriesType ==
  ASSUME NEW s \in Seq(Entries)
  PROVE  \A i \in DOMAIN s : s[i].chunk \in Chunks /\ s[i].image \in Chunks \cup {None}
<1>1. \A i \in DOMAIN s : s[i] \in Entries
  OBVIOUS
<1> QED
  BY <1>1 DEF Entries

LEMMA IInvInit == ASSUME Init PROVE IInv
<1>1. TeamsTypeOK
  BY DEF Init, TeamsInit, TeamsTypeOK, Statuses, NoJoin
<1>2. /\ <<>> \in Seq(Chunks) /\ <<>> \in Seq(Entries) /\ Len(<<>>) = 0 /\ DOMAIN <<>> = {}
      /\ IsInjective(<<>>)
  <2>1. <<>> \in Seq(Chunks) /\ <<>> \in Seq(Entries) /\ Len(<<>>) = 0
    OBVIOUS
  <2>2. DOMAIN <<>> = {}
    OBVIOUS
  <2> QED
    BY <2>1, <2>2 DEF IsInjective
<1>3. indexed \in [Materials -> 0..MaxGen]
  BY RetrievalAssumption DEF Init
<1>4. TypeOK
  <2>1. context = <<>> /\ vector = <<>> /\ ranked = <<>>
    BY DEF Init
  <2>2. /\ pc = "idle" /\ only \in Materials \cup {None} /\ left \in 0..Total
        /\ embedded \in BOOLEAN /\ teamIDs \subseteq TeamIds
        /\ degraded \subseteq {"query_analysis", "embedding", "retrieve", "rerank"}
    <3>1. Total \in 0..Total
      BY RetrievalAssumption
    <3> QED
      BY <3>1 DEF Init
  <2> QED
    BY <1>1, <1>2, <1>3, <2>1, <2>2, RetrievalAssumption DEF TypeOK
<1>5. ContextWithinLimits
  <2>1. {context[i].chunk.mat : i \in DOMAIN context} = {} /\ context = <<>>
    BY <1>2 DEF Init
  <2>2. Cardinality({}) = 0
    BY FS_EmptySet
  <2>3. Len(context) = 0 /\ TokensOf(context) = 0
    BY <1>2, <2>1, NoTokens
  <2>4. 0 <= MaxChunks /\ 0 <= MaxMaterials /\ 0 <= MaxTokens
    BY RetrievalAssumption
  <2> QED
    BY <2>1, <2>2, <2>3, <2>4 DEF ContextWithinLimits
<1> QED
  BY <1>2, <1>4, <1>5 DEF Init, IInv

\* The lists of candidates: a search adds what it may, a rerank keeps some.
ListFacts ==
  /\ {vector', ranked'} \subseteq Seq(Chunks) /\ IsInjective(ranked') /\ Len(ranked') <= DefaultTopK
  /\ pc' \in Searching => ranked' = <<>>
  /\ pc' = "bodies" => ranked' # <<>>
  /\ SearchesReadVisible
  /\ ranked # <<>> => ranked' # <<>>

LEMMA ListStep == ASSUME IInv, [Next]_vars PROVE ListFacts
<1>0. /\ vector \in Seq(Chunks) /\ ranked \in Seq(Chunks) /\ <<>> \in Seq(Chunks)
      /\ IsInjective(ranked) /\ Len(ranked) <= DefaultTopK /\ Len(ranked) \in Nat
      /\ Range(<<>>) = {} /\ teamIDs \subseteq VisibleTeamIDs(Asker)
      /\ pc \in Searching => ranked = <<>>
      /\ pc = "bodies" => ranked # <<>>
      /\ Range(ranked) \subseteq Chunks
  BY TypeFacts DEF IInv, Range
<1>1. ASSUME vector' \in {vector, <<>>}, ranked' = ranked,
             pc' \in Searching => pc \in Searching,
             pc' = "bodies" => pc = "bodies" \/ ranked # <<>>
      PROVE  ListFacts
  BY <1>0, <1>1 DEF ListFacts, SearchesReadVisible, Newly, Searching
<1>2. CASE VectorSearch
  <2>1. /\ vector' \in Rankings(Found(teamIDs), VectorTopK) /\ ranked' = ranked
        /\ pc = "vector" /\ pc' = "lexical"
    BY <1>2 DEF VectorSearch, Stage
  <2>2. vector' \in Seq(Found(teamIDs)) /\ Range(vector') \subseteq Found(teamIDs)
    BY <2>1, RankingFacts, RetrievalAssumption
  <2>3. Found(teamIDs) \subseteq Chunks /\ \A c \in Found(teamIDs) : MaySee(Asker, c.mat)
    BY <1>0, FoundIsVisible
  <2>4. vector' \in Seq(Chunks)
    BY <2>2, <2>3
  <2> QED
    BY <1>0, <2>1, <2>2, <2>3, <2>4 DEF ListFacts, SearchesReadVisible, Newly, Searching
<1>3. CASE LexicalSearch
  <2>1. PICK l \in Rankings(Found(teamIDs), LexicalTopK) : ranked' \in Merges(vector, l)
    BY <1>3 DEF LexicalSearch
  <2>2. l \in Seq(Found(teamIDs)) /\ Range(l) \subseteq Found(teamIDs)
    BY <2>1, RankingFacts, RetrievalAssumption
  <2>3. Found(teamIDs) \subseteq Chunks /\ \A c \in Found(teamIDs) : MaySee(Asker, c.mat)
    BY <1>0, FoundIsVisible
  <2>4. l \in Seq(Chunks)
    BY <2>2, <2>3
  <2>5. /\ ranked' \in Seq(Chunks) /\ Range(ranked') \subseteq Range(vector) \cup Range(l)
        /\ IsInjective(ranked') /\ Len(ranked') <= DefaultTopK
    BY <1>0, <2>1, <2>4, MergedFacts
  <2>6. vector' = <<>> /\ pc = "lexical" /\ pc' \in {"expand", "rerank"}
    BY <1>3 DEF LexicalSearch, Stage
  <2>7. SearchesReadVisible
    BY <1>0, <2>2, <2>3, <2>5, <2>6 DEF SearchesReadVisible, Newly
  <2> QED
    BY <1>0, <2>5, <2>6, <2>7 DEF ListFacts, Searching
<1>4. CASE Rerank
  <2> DEFINE n == Least(TopN, Len(ranked))
  <2>1. /\ pc = "rerank" /\ pc' = "expand" /\ vector' = vector
        /\ \/ \E s \in [1..n -> Range(ranked)] : IsInjective(s) /\ ranked' = s
           \/ ranked' = SubSeq(ranked, 1, n)
    BY <1>4 DEF Rerank, Stage
  <2>2. /\ n \in Nat /\ n = Least(Len(ranked), TopN) /\ TopN \in Nat /\ TopN > 0
        /\ n <= Len(ranked) /\ DefaultTopK \in Nat
        /\ ranked # <<>> => n > 0
    BY <1>0, RetrievalAssumption DEF Least
  <2>3. /\ ranked' \in Seq(Chunks) /\ (ranked # <<>> => ranked' # <<>>)
        /\ IsInjective(ranked') /\ Len(ranked') <= Len(ranked)
    <3>1. CASE ranked' = SubSeq(ranked, 1, n)
      <4> DEFINE p == SubSeq(ranked, 1, Least(Len(ranked), TopN))
      <4>1. p \in Seq(Chunks) /\ (ranked # <<>> => p # <<>>) /\ IsInjective(p)
        BY <1>0, <2>2, PrefixFacts
      <4>2. ranked' = p /\ Len(ranked') = n
        BY <1>0, <2>2, <3>1
      <4> HIDE DEF p, n
      <4> QED
        BY <2>2, <4>1, <4>2
    <3>2. CASE \E s \in [1..n -> Range(ranked)] : IsInjective(s) /\ ranked' = s
      <4> HIDE DEF n
      <4>1. ranked' \in Seq(Range(ranked)) /\ Len(ranked') = n /\ IsInjective(ranked')
        BY <2>2, <3>2, FunctionFacts
      <4> QED
        BY <1>0, <2>2, <4>1
    <3> QED
      BY <2>1, <3>1, <3>2
  <2>4. Len(ranked') <= DefaultTopK
    BY <1>0, <2>2, <2>3
  <2> QED
    BY <1>0, <2>1, <2>3, <2>4 DEF ListFacts, SearchesReadVisible, Newly, Searching
<1>5. CASE UNCHANGED vars \/ OthersNext
  BY <1>1, <1>5 DEF vars, OthersNext, queryVars
<1>6. CASE \/ \E m \in Materials \cup {None} : Ask(m)
           \/ Authorize \/ Analyze \/ AnalyzeFails \/ ReadTeams \/ SearchFails
  BY <1>1, <1>6 DEF Ask, Authorize, Analyze, AnalyzeFails, ReadTeams, SearchFails, Stage, Searching
<1>7. CASE RerankFails \/ ReadTeamsAgain \/ Expand \/ ExpandFails
  BY <1>1, <1>7 DEF RerankFails, ReadTeamsAgain, Expand, ExpandFails, Stage, Searching
<1> QED
  BY <1>2, <1>3, <1>4, <1>5, <1>6, <1>7 DEF Next, QuestionNext

\* The rest of the state: what a question remembers, and its time.
ScalarsOK ==
  /\ indexed \in [Materials -> 0..MaxGen]
  /\ pc \in {"idle", "authorize", "analyze", "teams", "vector", "lexical", "rerank",
             "expand", "bodies", "done", "refused", "failed"}
  /\ only \in Materials \cup {None}
  /\ embedded \in BOOLEAN
  /\ degraded \subseteq {"query_analysis", "embedding", "retrieve", "rerank"}

LEMMA TimeStep == ASSUME TypeOK, [Next]_vars PROVE left' \in 0..Total
<1>1. /\ left \in 0..Total /\ Total \in Nat
      /\ \A l \in {AnalyzeLimit, SearchLimit, RerankLimit} : l \in Nat /\ l > 0
  BY RetrievalAssumption DEF TypeOK
<1>2. ASSUME NEW l \in {AnalyzeLimit, SearchLimit, RerankLimit}, InTime(l) \/ TimedOut(l)
      PROVE  left' \in 0..Total
  BY <1>1, <1>2 DEF InTime, TimedOut, Least
<1>3. \/ left' = left
      \/ \E l \in {AnalyzeLimit, SearchLimit, RerankLimit} : InTime(l) \/ TimedOut(l)
  BY DEF Next, vars, OthersNext, queryVars, QuestionNext, Ask, Authorize, Analyze, AnalyzeFails,
         ReadTeams, VectorSearch, LexicalSearch, SearchFails, Rerank, RerankFails,
         ReadTeamsAgain, Expand, ExpandFails
<1> QED
  BY <1>1, <1>2, <1>3

LEMMA ScalarsStep == ASSUME TypeOK, [Next]_vars PROVE ScalarsOK'
<1>0. ScalarsOK
  BY DEF TypeOK, ScalarsOK
<1>1. CASE UNCHANGED vars
  BY <1>0, <1>1 DEF ScalarsOK, vars, queryVars
<1>2. CASE OthersNext
  <2>1. UNCHANGED <<pc, only, embedded, degraded>>
    BY <1>2 DEF OthersNext, queryVars
  <2>2. indexed' \in [Materials -> 0..MaxGen]
    <3>1. \A m \in Materials : indexed[m] \in 0..MaxGen
      BY <1>0 DEF ScalarsOK
    <3>2. ASSUME NEW m \in Materials, Reparse(m) \/ DeleteMaterial(m)
          PROVE  \E k \in 0..MaxGen : indexed' = [indexed EXCEPT ![m] = k]
      <4>1. CASE Reparse(m)
        <5>1. indexed[m] + 1 \in 0..MaxGen
          BY <4>1, RetrievalAssumption DEF Reparse
        <5> QED
          BY <4>1, <5>1 DEF Reparse
      <4>2. CASE DeleteMaterial(m)
        <5>1. 0 \in 0..MaxGen
          BY RetrievalAssumption
        <5> QED
          BY <4>2, <5>1 DEF DeleteMaterial
      <4> QED
        BY <3>2, <4>1, <4>2
    <3>3. indexed' = indexed \/ \E m \in Materials : Reparse(m) \/ DeleteMaterial(m)
      BY <1>2 DEF OthersNext
    <3> QED
      BY <1>0, <3>2, <3>3 DEF ScalarsOK
  <2> QED
    BY <1>0, <2>1, <2>2 DEF ScalarsOK
<1>3. CASE \E m \in Materials \cup {None} : Ask(m)
  BY <1>0, <1>3 DEF ScalarsOK, Ask
<1>4. CASE Authorize \/ Analyze
  BY <1>0, <1>4 DEF ScalarsOK, Authorize, Analyze, Stage
<1>5. CASE AnalyzeFails \/ SearchFails
  BY <1>0, <1>5 DEF ScalarsOK, AnalyzeFails, SearchFails, Stage
<1>6. CASE ReadTeams \/ VectorSearch \/ LexicalSearch
  BY <1>0, <1>6 DEF ScalarsOK, ReadTeams, VectorSearch, LexicalSearch, Stage
<1>7. CASE Rerank \/ RerankFails
  BY <1>0, <1>7 DEF ScalarsOK, Rerank, RerankFails, Stage
<1>8. CASE ReadTeamsAgain \/ Expand \/ ExpandFails
  BY <1>0, <1>8 DEF ScalarsOK, ReadTeamsAgain, Expand, ExpandFails, Stage
<1> QED
  BY <1>1, <1>2, <1>3, <1>4, <1>5, <1>6, <1>7, <1>8 DEF Next, QuestionNext
-----------------------------------------------------------------------------
(* The context that is built.                                               *)

LEMMA ContextFacts ==
  ASSUME IInv, Expand
  PROVE  /\ context' \in Seq(Entries) /\ ContextWithinLimits'
         /\ \A i \in DOMAIN context' : MaySee(Asker, context'[i].chunk.mat)
         /\ \A i, j \in DOMAIN context' :
              LET c == context'[i].chunk  d == context'[j].chunk IN
                /\ c.gen = indexed[c.mat]
                /\ i < j /\ c.mat = d.mat => c.pos < d.pos
         /\ LET best == ranked[1] IN
              ChunksFit /\ best \in Found(teamIDs) /\ BodyChunks(best.mat, best.gen) # {} =>
                \E i \in DOMAIN context' : context'[i].chunk.mat = best.mat
<1> DEFINE hits == BestHits(ranked)
           t    == Selected(teamIDs, hits)
           n    == Len(hits)
<1>1. /\ indexed \in [Materials -> 0..MaxGen] /\ ranked \in Seq(Chunks) /\ ranked # <<>>
      /\ context' = t.chunks /\ teamIDs \subseteq VisibleTeamIDs(Asker)
  BY TypeFacts DEF IInv, Expand, Stage
<1>2. /\ hits \in Seq(Chunks) /\ n <= MaxMaterials
      /\ IsContext(t, teamIDs, hits, n)
      /\ ChunksFit /\ ranked # <<>> /\ ranked[1] \in Found(teamIDs)
         /\ BodyChunks(ranked[1].mat, ranked[1].gen) # {}
         => IsIn(t, ranked[1].mat)
  BY <1>1, SelectedFacts
<1> HIDE DEF hits, t
<1>3. /\ t.chunks \in Seq(Entries) /\ Len(t.chunks) <= MaxChunks
      /\ TokensOf(t.chunks) <= MaxTokens
      /\ DOMAIN t.chunks = 1..Len(t.chunks) /\ Len(t.chunks) \in Nat
  BY <1>2 DEF IsContext, IsSelection
<1>4. \A k \in 1..Len(t.chunks) :
        LET d == t.chunks[k].chunk IN
          /\ d \in Chunks /\ d.gen = indexed[d.mat] /\ Reached(teamIDs, d.mat)
          /\ \E j \in 1..n : d.mat = hits[j].mat
  <2>1. \A k \in 1..Len(t.chunks) : t.chunks[k].chunk \in Chunks
    BY <1>3, EntriesType
  <2> QED
    BY <1>2, <2>1 DEF IsContext
<1>5. ContextWithinLimits'
  <2> DEFINE M == {t.chunks[i].chunk.mat : i \in DOMAIN t.chunks}
             N == {hits[j].mat : j \in 1..n}
             f == [j \in 1..n |-> hits[j].mat]
  <2>1. n \in Nat /\ IsFiniteSet(1..n) /\ Cardinality(1..n) = n
    <3>1. n \in Nat
      BY <1>2
    <3> HIDE DEF n
    <3>2. IsFiniteSet(1..n) /\ Cardinality(1..n) = IF 1 > n THEN 0 ELSE n - 1 + 1
      BY <3>1, FS_Interval
    <3> QED
      BY <3>1, <3>2
  <2>2. f \in Surjection(1..n, N)
    BY DEF Surjection
  <2>3. IsFiniteSet(N) /\ Cardinality(N) <= n
    <3> HIDE DEF f, N, n
    <3> QED
      BY <2>1, <2>2, FS_Surjection
  <2>4. M \subseteq N
    BY <1>3, <1>4
  <2> HIDE DEF M, N
  <2>5. IsFiniteSet(M) /\ Cardinality(M) <= Cardinality(N)
    BY <2>3, <2>4, FS_Subset
  <2>6. Cardinality(M) \in Nat /\ Cardinality(N) \in Nat
    BY <2>3, <2>5, FS_CardinalityType
  <2> HIDE DEF n
  <2>7. Cardinality(M) <= MaxMaterials
    BY <1>2, <2>1, <2>3, <2>5, <2>6, RetrievalAssumption
  <2> QED
    BY <1>1, <1>3, <2>7 DEF ContextWithinLimits, M
<1>6. ASSUME NEW k \in DOMAIN context' PROVE MaySee(Asker, context'[k].chunk.mat)
  <2> DEFINE d == context'[k].chunk
  <2>1. d \in Chunks /\ d.gen = indexed[d.mat] /\ Reached(teamIDs, d.mat)
    BY <1>1, <1>3, <1>4
  <2> HIDE DEF d
  <2>2. d \in Found(teamIDs)
    BY <2>1 DEF Found
  <2> QED
    BY <1>1, <2>2, FoundIsVisible DEF d
<1>7. \A i, j \in DOMAIN context' :
        LET c == context'[i].chunk  d == context'[j].chunk IN
          /\ c.gen = indexed[c.mat]
          /\ i < j /\ c.mat = d.mat => c.pos < d.pos
  BY <1>1, <1>2, <1>3, <1>4 DEF IsContext
<1>8. ASSUME ChunksFit, ranked[1] \in Found(teamIDs), BodyChunks(ranked[1].mat, ranked[1].gen) # {}
      PROVE  \E i \in DOMAIN context' : context'[i].chunk.mat = ranked[1].mat
  <2>1. IsIn(t, ranked[1].mat)
    BY <1>1, <1>2, <1>8
  <2> QED
    BY <1>1, <1>3, <2>1 DEF IsIn
<1> QED
  BY <1>1, <1>3, <1>5, <1>6, <1>7, <1>8

LEMMA ContextKept ==
  ASSUME [Next]_vars, context' # context \/ (pc = "bodies" /\ pc' = "done")
  PROVE  Expand
BY DEF Next, vars, OthersNext, queryVars, QuestionNext, Stage, Ask, Authorize, Analyze, AnalyzeFails,
       ReadTeams, VectorSearch, LexicalSearch, SearchFails, Rerank, RerankFails,
       ReadTeamsAgain, Expand, ExpandFails

LEMMA IInvNext == ASSUME IInv, [Next]_vars PROVE IInv'
<1>0. TypeOK /\ TeamsTypeOK /\ context \in Seq(Entries) /\ ContextWithinLimits
  BY TypeFacts DEF IInv
<1>1. /\ TeamsTypeOK'
      /\ VisibleTeamIDs(Asker) \subseteq VisibleTeamIDs(Asker)'
  BY <1>0, TeamsKept, TeamsGrow
<1>2. teamIDs' \in {teamIDs, VisibleTeamIDs(Asker)}
  BY DEF Next, vars, OthersNext, queryVars, QuestionNext, Ask, Authorize, Analyze, AnalyzeFails,
         ReadTeams, VectorSearch, LexicalSearch, SearchFails, Rerank, RerankFails,
         ReadTeamsAgain, Expand, ExpandFails
<1>3. teamIDs' \subseteq VisibleTeamIDs(Asker)' /\ teamIDs' \subseteq TeamIds
  BY <1>0, <1>1, <1>2 DEF IInv, TypeOK, VisibleTeamIDs
<1>4. context' \in Seq(Entries) /\ ContextWithinLimits'
  <2>1. CASE context' = context
    BY <1>0, <2>1 DEF ContextWithinLimits
  <2>2. CASE context' # context
    BY <2>2, ContextKept, ContextFacts
  <2> QED
    BY <2>1, <2>2
<1>5. \A i \in DOMAIN context' : context'[i].chunk \in Chunks /\ context'[i].image \in Chunks \cup {None}
  BY <1>4, EntriesType
<1>6. ListFacts /\ ScalarsOK' /\ left' \in 0..Total
  BY <1>0, ListStep, ScalarsStep, TimeStep
<1>7. TypeOK'
  BY <1>1, <1>3, <1>5, <1>6 DEF TypeOK, ListFacts, ScalarsOK
<1> QED
  BY <1>3, <1>4, <1>6, <1>7 DEF IInv, ListFacts

\* The inductive invariant holds in every reachable state.
THEOREM Invariant == Spec => []IInv
BY IInvInit, IInvNext, PTL DEF Spec

\* A question keeps well-formed candidates, each at most once and no more than
\* the search was asked for, and never more than its time.
THEOREM TypeCorrect == Spec => []TypeOK
<1>1. IInv => TypeOK
  BY DEF IInv
<1> QED
  BY <1>1, Invariant, PTL

\* The context never exceeds its materials, its chunks or its tokens, those of
\* the attached images included (ExpandVisibleContext).
THEOREM ContextIsBounded == Spec => []ContextWithinLimits
<1>1. IInv => ContextWithinLimits
  BY DEF IInv
<1> QED
  BY <1>1, Invariant, PTL

\* An approval is not undone by whatever requests to join were on their way
\* (JoinByCode reads and inserts in two statements).
THEOREM ApprovalsStay == Spec => ApprovalStays
<1>1. IInv /\ [Next]_vars =>
        [\A t \in TeamIds, u \in Users :
           member[t][u] = "approved" => member'[t][u] = "approved"]_teamVars
  BY TeamsKept, TypeFacts DEF IInv
<1> QED
  BY <1>1, Invariant, PTL DEF Spec, ApprovalStays

\* Neither a search nor the context reads a material that the asker may not see
\* at that moment, although the team ids it filters by were read in a query
\* before: they are still his.
THEOREM OnlyVisibleIsRead == Spec => ReadsOnlyVisible
<1>1. IInv /\ [Next]_vars =>
        [/\ SearchesReadVisible
         /\ \A i \in DOMAIN context' : context' # context => MaySee(Asker, context'[i].chunk.mat)]_vars
  <2> SUFFICES ASSUME IInv, [Next]_vars
               PROVE  /\ SearchesReadVisible
                      /\ \A i \in DOMAIN context' :
                           context' # context => MaySee(Asker, context'[i].chunk.mat)
    OBVIOUS
  <2>1. SearchesReadVisible
    BY ListStep DEF ListFacts
  <2>2. context' # context => \A i \in DOMAIN context' : MaySee(Asker, context'[i].chunk.mat)
    BY ContextKept, ContextFacts
  <2> QED
    BY <2>1, <2>2
<1> QED
  BY <1>1, Invariant, PTL DEF Spec, ReadsOnlyVisible

\* The context is text of the indexed generation of each material in its order,
\* each chunk once, although the materials are parsed again meanwhile.
THEOREM ContextOrdered == Spec => ContextIsOrdered
<1>1. IInv /\ [Next]_vars =>
        [context' # context =>
           \A i, j \in DOMAIN context' :
             LET c == context'[i].chunk  d == context'[j].chunk IN
               /\ c.gen = indexed[c.mat]
               /\ i < j /\ c.mat = d.mat => c.pos < d.pos]_vars
  BY ContextKept, ContextFacts
<1> QED
  BY <1>1, Invariant, PTL DEF Spec, ContextIsOrdered

\* If every body chunk fits into the context, alone and with any one image, the
\* material of the best candidate is in it, unless it was withdrawn or parsed
\* again meanwhile.
THEOREM BestMaterialKept ==
  ASSUME ChunksFit
  PROVE  Spec => BestMaterialInContext
<1>1. IInv /\ [Next]_vars =>
        [pc = "bodies" /\ pc' = "done" =>
           LET best == ranked[1] IN
             best \in Found(teamIDs) /\ BodyChunks(best.mat, best.gen) # {} =>
               \E i \in DOMAIN context' : context'[i].chunk.mat = best.mat]_vars
  BY ContextKept, ContextFacts
<1> QED
  BY <1>1, Invariant, PTL DEF Spec, BestMaterialInContext

\* Candidates, once found, do not disappear before the context is built,
\* whether or not the rerank answers.
THEOREM CandidatesSurvive == Spec => RecallSurvives
<1>1. IInv /\ [Next]_vars => [ranked # <<>> => ranked' # <<>>]_vars
  BY ListStep DEF ListFacts
<1> QED
  BY <1>1, Invariant, PTL DEF Spec, RecallSurvives
=============================================================================
