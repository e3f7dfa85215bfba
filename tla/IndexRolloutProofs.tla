-------------------------- MODULE IndexRolloutProofs --------------------------
(***************************************************************************)
(* Proofs about IndexRollout for any materials, cohorts and generations.   *)
(* What keeps a material findable is that the visible version always names *)
(* an index the material has chunks in, but for materials that never had   *)
(* any; and that an active rag-v2 leaves no legacy chunks visible.         *)
(***************************************************************************)
EXTENDS IndexRollout, TLAPS

\* A row has a generation, and its chunks one if they exist; what is not a row
\* has no chunks.
RowFacts(m) ==
  /\ status[m] \in Live => gen[m] > 0
  /\ status[m] \notin Live => m \notin Indexed
  /\ status[m] = "none" => visible[m] = "legacy-v1"

\* The visible version of a row is one it has chunks in, unless it never had any.
VisibleFacts(m) ==
  /\ visible[m] = "rag-v2" /\ status[m] \in Live => m \in Indexed
  /\ visible[m] = "legacy-v1" /\ m \in Indexed => m \in legacy
  /\ status[m] = "done" => Searchable(m)

\* No legacy chunks are visible while rag-v2 is active.
ActiveInv == registry["rag-v2"] = "active" => \A m \in legacy : visible[m] = "rag-v2"

RowInv     == \A m \in Materials : RowFacts(m)
VisibleInv == \A m \in Materials : VisibleFacts(m)

IInv == TypeOK /\ RowInv /\ VisibleInv /\ ActiveInv /\ OneActiveVersion
-----------------------------------------------------------------------------
USE DEF Live, Lifecycle!Live

\* The texts and chunks of the initial state have their types.
LEMMA NoTextType ==
  /\ Lifecycle!NoText \in Lifecycle!Text
  /\ Lifecycle!NoChunks \in [gen: Nat, text: Lifecycle!Text] /\ Lifecycle!NoChunks.gen = 0
BY DEF Lifecycle!NoText, Lifecycle!NoChunks, Lifecycle!Text

LEMMA IInvInit == ASSUME Init PROVE IInv
<1>1. TypeOK
  BY CohortAssumption, NoTextType DEF Init, TypeOK, Rows, Versions, NoText
<1>0. ASSUME NEW m \in Materials
      PROVE  /\ status[m] = IF m \in Imported THEN "done" ELSE "none"
             /\ gen[m] = IF m \in Imported THEN 1 ELSE 0
             /\ m \notin Indexed /\ visible[m] = "legacy-v1" /\ legacy = Imported
  BY NoTextType DEF Init, Indexed
<1>2. RowInv
  <2>1. ASSUME NEW m \in Materials, m \in Imported PROVE RowFacts(m)
    BY <1>0, <2>1 DEF RowFacts
  <2>2. ASSUME NEW m \in Materials, m \notin Imported PROVE RowFacts(m)
    BY <1>0, <2>2 DEF RowFacts
  <2> QED
    BY <2>1, <2>2 DEF RowInv
<1>3. VisibleInv
  BY <1>0 DEF VisibleInv, VisibleFacts, Searchable
<1>4. ActiveInv /\ OneActiveVersion
  BY DEF Init, ActiveInv, OneActiveVersion, Versions
<1> QED
  BY <1>1, <1>2, <1>3, <1>4 DEF IInv

\* An action of the pipeline at one material that writes neither chunks nor the
\* index' tables, and ends a task only when its chunks are there.
LEMMA RowStep ==
  ASSUME IInv, NEW m \in Materials, NEW s \in Live, NEW g \in Nat, g > 0,
         status' = [status EXCEPT ![m] = s], gen' = [gen EXCEPT ![m] = g],
         content' \in [Materials -> Lifecycle!Text],
         UNCHANGED <<chunks, legacy, visible, registry, aged>>,
         status[m] \in Live \cup {"none"},
         s = "done" => m \in Indexed
  PROVE  IInv'
<1>1. TypeOK'
  BY DEF IInv, TypeOK, Rows
<1>2. RowInv'
  BY DEF IInv, TypeOK, RowInv, RowFacts, Indexed
<1>3. VisibleInv'
  BY DEF IInv, TypeOK, RowInv, RowFacts, VisibleInv, VisibleFacts, Indexed, Searchable, Versions
<1>4. ActiveInv' /\ OneActiveVersion'
  BY DEF IInv, ActiveInv, OneActiveVersion
<1> QED
  BY <1>1, <1>2, <1>3, <1>4 DEF IInv

LEMMA CreateStep == ASSUME IInv, NEW m \in Materials, Create(m) PROVE IInv'
<1>1. /\ status' = [status EXCEPT ![m] = "pending"] /\ gen' = [gen EXCEPT ![m] = 1]
      /\ status[m] = "none" /\ content' \in [Materials -> Lifecycle!Text]
      /\ UNCHANGED <<chunks, legacy, visible, registry, aged>>
  BY DEF Create, Lifecycle!Submit, IInv, TypeOK
<1>2. "pending" \in Live /\ 1 \in Nat /\ 1 > 0
  OBVIOUS
<1> QED
  BY <1>1, <1>2, RowStep

\* A new text and a new generation.
LEMMA RequeueOne ==
  ASSUME IInv, NEW m \in Materials, Lifecycle!Requeue({m})
  PROVE  /\ status' = [status EXCEPT ![m] = "pending"]
         /\ gen' = [gen EXCEPT ![m] = gen[m] + 1] /\ gen[m] + 1 \in Nat /\ gen[m] + 1 > 0
<1>1. /\ status \in [Materials -> Live \cup {"none", "deleted"}]
      /\ gen \in [Materials -> Nat]
  BY DEF IInv, TypeOK
<1>2. /\ status' = [n \in Materials |-> IF n \in {m} THEN "pending" ELSE status[n]]
      /\ gen' = [n \in Materials |-> IF n \in {m} THEN gen[n] + 1 ELSE gen[n]]
  BY DEF Lifecycle!Requeue
<1>3. status' = [status EXCEPT ![m] = "pending"]
  BY <1>1, <1>2
<1>4. gen' = [gen EXCEPT ![m] = gen[m] + 1]
  BY <1>1, <1>2
<1> QED
  BY <1>1, <1>3, <1>4

LEMMA UpdateStep == ASSUME IInv, NEW m \in Materials, Update(m) PROVE IInv'
<1>1. /\ status[m] \in Live /\ Lifecycle!Requeue({m}) /\ content'[m] \in Lifecycle!Text
      /\ content' = [content EXCEPT ![m] = content'[m]]
      /\ UNCHANGED <<chunks, legacy, visible, registry, aged>>
  BY DEF Update, Lifecycle!Edit, Lifecycle!Rewrite
<1>2. content' \in [Materials -> Lifecycle!Text]
  BY <1>1 DEF IInv, TypeOK
<1> QED
  BY <1>1, <1>2, RequeueOne, RowStep

LEMMA TaskStep == ASSUME IInv, NEW m \in Materials, Step(m) PROVE IInv'
<1>1. UNCHANGED <<content, chunks, legacy, visible, registry, aged>>
  BY DEF Step, Lifecycle!Begin, Lifecycle!Complete, Lifecycle!GiveUp, Lifecycle!TryAgain
<1>2. content' \in [Materials -> Lifecycle!Text] /\ gen \in [Materials -> Nat]
  BY <1>1 DEF IInv, TypeOK
<1>3. ASSUME gen' = gen, status[m] \in Live, NEW s \in Live, status' = [status EXCEPT ![m] = s],
             s = "done" => m \in Indexed
      PROVE  IInv'
  <2>1. gen' = [gen EXCEPT ![m] = gen[m]] /\ gen[m] \in Nat /\ gen[m] > 0
    BY <1>2, <1>3 DEF IInv, RowInv, RowFacts
  <2> QED
    BY <1>1, <1>2, <1>3, <2>1, RowStep
<1>4. CASE Lifecycle!Begin(m)
  BY <1>3, <1>4 DEF Lifecycle!Begin
<1>5. CASE Lifecycle!GiveUp(m)
  BY <1>3, <1>5 DEF Lifecycle!GiveUp
<1>6. CASE Lifecycle!Complete(m)
  <2>1. gen' = gen /\ status[m] \in Live /\ status' = [status EXCEPT ![m] = "done"]
        /\ chunks[m] = [gen |-> gen[m], text |-> content[m]]
    BY <1>6 DEF Lifecycle!Complete
  <2>2. m \in Indexed
    BY <2>1 DEF Indexed, IInv, RowInv, RowFacts
  <2> QED
    BY <1>3, <2>1, <2>2
<1>7. CASE Lifecycle!TryAgain({m})
  <2>1. Lifecycle!Requeue({m}) /\ status[m] \in Live
    BY <1>7 DEF Lifecycle!TryAgain
  <2> QED
    BY <1>1, <1>2, <2>1, RequeueOne, RowStep
<1> QED
  BY <1>4, <1>5, <1>6, <1>7 DEF Step

LEMMA DeleteStep == ASSUME IInv, NEW m \in Materials, Delete(m) PROVE IInv'
<1>1. /\ status[m] \in Live /\ status' = [status EXCEPT ![m] = "deleted"]
      /\ chunks' = [chunks EXCEPT ![m] = Lifecycle!NoChunks] /\ legacy' = legacy \ {m}
      /\ UNCHANGED <<gen, content, visible, registry, aged>>
  BY DEF Delete, Lifecycle!Remove
<1>2. TypeOK'
  BY <1>1, NoTextType DEF IInv, TypeOK, Rows
<1>3. RowInv'
  BY <1>1, NoTextType DEF IInv, TypeOK, RowInv, RowFacts, Indexed
<1>4. VisibleInv'
  BY <1>1, NoTextType DEF IInv, TypeOK, VisibleInv, VisibleFacts, Indexed, Searchable
<1>5. ActiveInv' /\ OneActiveVersion'
  BY <1>1 DEF IInv, ActiveInv, OneActiveVersion
<1> QED
  BY <1>2, <1>3, <1>4, <1>5 DEF IInv

LEMMA PersistStep == ASSUME IInv, NEW m \in Materials, Persist(m) PROVE IInv'
<1>1. /\ status[m] = "parsing" /\ content'[m] \in Lifecycle!Text
      /\ content' = [content EXCEPT ![m] = content'[m]]
      /\ chunks' = [chunks EXCEPT ![m] = [gen |-> gen[m], text |-> content'[m]]]
      /\ visible' = [visible EXCEPT ![m] = VisibleAfterParse(m)]
      /\ UNCHANGED <<status, gen, legacy, registry, aged>>
  BY DEF Persist, Lifecycle!Publish, Lifecycle!Rewrite
<1>2. gen[m] \in Nat /\ gen[m] > 0 /\ VisibleAfterParse(m) \in Versions
  BY <1>1 DEF IInv, TypeOK, RowInv, RowFacts, VisibleAfterParse, Versions
<1>3. TypeOK'
  BY <1>1, <1>2 DEF IInv, TypeOK, Rows
<1>4. RowInv'
  BY <1>1, <1>2 DEF IInv, TypeOK, RowInv, RowFacts, Indexed
<1>5. VisibleInv'
  BY <1>1, <1>2 DEF IInv, TypeOK, RowInv, RowFacts, VisibleInv, VisibleFacts, Indexed, Searchable, VisibleAfterParse
<1>6. ActiveInv' /\ OneActiveVersion'
  BY <1>1 DEF IInv, TypeOK, ActiveInv, OneActiveVersion, VisibleAfterParse, Rows
<1> QED
  BY <1>3, <1>4, <1>5, <1>6 DEF IInv
-----------------------------------------------------------------------------
(* The scripts.                                                             *)

LEMMA ReindexStep == ASSUME IInv, Reindex PROVE IInv'
<1>1. /\ status' = [m \in Materials |-> IF m \in Unindexed THEN "pending" ELSE status[m]]
      /\ gen' = [m \in Materials |-> IF m \in Unindexed THEN gen[m] + 1 ELSE gen[m]]
      /\ UNCHANGED <<content, chunks, legacy, visible, aged>>
      /\ registry' = IF registry["rag-v2"] = "active" THEN registry
                     ELSE [registry EXCEPT !["rag-v2"] = "building"]
  BY DEF Reindex, Lifecycle!Requeue
<1>2. TypeOK'
  BY <1>1 DEF IInv, TypeOK, Rows, Versions, Unindexed
<1>3. RowInv'
  BY <1>1 DEF IInv, TypeOK, RowInv, RowFacts, Indexed, Unindexed, Rows
<1>4. VisibleInv'
  BY <1>1 DEF IInv, TypeOK, VisibleInv, VisibleFacts, Indexed, Searchable, Unindexed, Rows
<1>5. ActiveInv' /\ OneActiveVersion'
  BY <1>1 DEF IInv, TypeOK, ActiveInv, OneActiveVersion, Versions
<1> QED
  BY <1>2, <1>3, <1>4, <1>5 DEF IInv

LEMMA ActivateStep == ASSUME IInv, NEW p \in Percentages, Activate(p) PROVE IInv'
<1>1. /\ UNCHANGED <<status, gen, content, chunks, legacy>>
      /\ \A m \in Rows : m \in Indexed
      /\ visible' = [m \in Materials |->
           IF m \notin Rows THEN visible[m]
           ELSE IF m \in legacy \ Cohort[p] THEN "legacy-v1" ELSE "rag-v2"]
      /\ aged' \in BOOLEAN
  BY DEF Activate, rowVars, IInv, TypeOK
<1>2. /\ registry' \in [Versions -> {"building", "active", "retired"}]
      /\ registry'["rag-v2"] = "active" <=> p = 100
      /\ registry'["legacy-v1"] = "active" <=> p # 100
  BY DEF Activate, IInv, TypeOK, Versions
<1>3. TypeOK'
  BY <1>1, <1>2 DEF IInv, TypeOK, Rows, Versions
<1>4. RowInv'
  BY <1>1 DEF IInv, TypeOK, RowInv, RowFacts, Indexed, Rows
<1>5. VisibleInv'
  BY <1>1 DEF IInv, TypeOK, RowInv, RowFacts, VisibleInv, VisibleFacts, Indexed, Searchable, Rows
<1>6. ActiveInv' /\ OneActiveVersion'
  BY <1>1, <1>2, CohortAssumption DEF IInv, TypeOK, ActiveInv, OneActiveVersion, Versions, Rows
<1> QED
  BY <1>3, <1>4, <1>5, <1>6 DEF IInv

LEMMA RollbackStep == ASSUME IInv, Rollback PROVE IInv'
<1>1. /\ UNCHANGED <<status, gen, content, chunks, legacy, aged>>
      /\ visible' = [m \in Materials |-> IF m \in legacy THEN "legacy-v1" ELSE visible[m]]
      /\ registry' = [v \in Versions |-> IF v = "rag-v2" THEN "building" ELSE "active"]
  BY DEF Rollback, Demoted, rowVars
<1>2. TypeOK'
  BY <1>1 DEF IInv, TypeOK, Rows, Versions
<1>3. RowInv'
  BY <1>1 DEF IInv, TypeOK, RowInv, RowFacts, Indexed
<1>4. VisibleInv'
  BY <1>1 DEF IInv, TypeOK, VisibleInv, VisibleFacts, Indexed, Searchable, Versions
<1>5. ActiveInv' /\ OneActiveVersion'
  BY <1>1 DEF ActiveInv, OneActiveVersion, Versions
<1> QED
  BY <1>2, <1>3, <1>4, <1>5 DEF IInv

LEMMA RetireStep == ASSUME IInv, Retire PROVE IInv'
<1>1. /\ registry["rag-v2"] = "active" /\ legacy' = {}
      /\ registry' = [registry EXCEPT !["legacy-v1"] = "retired"]
      /\ UNCHANGED <<status, gen, content, chunks, visible, aged>>
  BY DEF Retire, rowVars
<1>2. TypeOK'
  BY <1>1 DEF IInv, TypeOK, Versions
<1>3. RowInv'
  BY <1>1 DEF IInv, RowInv, RowFacts, Indexed
<1>4. VisibleInv'
  BY <1>1 DEF IInv, ActiveInv, VisibleInv, VisibleFacts, Indexed, Searchable
<1>5. ActiveInv' /\ OneActiveVersion'
  BY <1>1 DEF IInv, TypeOK, ActiveInv, OneActiveVersion, Versions
<1> QED
  BY <1>2, <1>3, <1>4, <1>5 DEF IInv

LEMMA AgeStep == ASSUME IInv, Age PROVE IInv'
BY DEF Age, rowVars, IInv, TypeOK, RowInv, RowFacts, VisibleInv, VisibleFacts, ActiveInv,
       OneActiveVersion, Rows, Indexed, Searchable

LEMMA IInvNext == ASSUME IInv, [Next]_vars PROVE IInv'
<1>1. CASE UNCHANGED vars
  BY <1>1 DEF vars, IInv, TypeOK, RowInv, RowFacts, VisibleInv, VisibleFacts, ActiveInv,
              OneActiveVersion, Rows, Indexed, Searchable
<1>2. CASE \E m \in Materials : Create(m) \/ Update(m) \/ Delete(m) \/ Step(m) \/ Persist(m)
  BY <1>2, CreateStep, UpdateStep, DeleteStep, TaskStep, PersistStep
<1>3. CASE ScriptNext
  BY <1>3, ReindexStep, ActivateStep, RollbackStep, RetireStep, AgeStep DEF ScriptNext
<1> QED
  BY <1>1, <1>2, <1>3 DEF Next
-----------------------------------------------------------------------------
\* The inductive invariant.
THEOREM Invariant == Spec => []IInv
BY IInvInit, IInvNext, PTL DEF Spec

\* Rows, chunks, visible versions and registry keep their types, and legacy
\* chunks are those of imported materials that still exist.
THEOREM TypeCorrect == Spec => []TypeOK
<1>1. IInv => TypeOK
  BY DEF IInv
<1> QED
  BY <1>1, Invariant, PTL

\* A done material is found by retrieval, whatever scripts ran while it was parsed.
THEOREM DoneCanBeFound == Spec => []DoneIsSearchable
<1>1. IInv => DoneIsSearchable
  BY DEF IInv, VisibleInv, VisibleFacts, DoneIsSearchable
<1> QED
  BY <1>1, Invariant, PTL

\* The scripts leave exactly one version active.
THEOREM OneVersionIsActive == Spec => []OneActiveVersion
<1>1. IInv => OneActiveVersion
  BY DEF IInv
<1> QED
  BY <1>1, Invariant, PTL

\* While rag-v2 is active, done materials are served from it.
THEOREM ActiveIsServed == Spec => []ActiveMeansServed
<1>1. IInv => ActiveMeansServed
  BY DEF IInv, TypeOK, VisibleInv, VisibleFacts, Searchable, ActiveInv, ActiveMeansServed, Versions
<1> QED
  BY <1>1, Invariant, PTL

\* No step of users, parses or operators takes a material out of retrieval.
LEMMA SearchableStays ==
  ASSUME IInv, IInv', [Next]_vars, NEW m \in Materials, Searchable(m), status'[m] # "deleted"
  PROVE  Searchable(m)'
<1>1. CASE UNCHANGED vars
  BY <1>1 DEF vars, Searchable, Indexed
<1>2. ASSUME NEW n \in Materials, Create(n) \/ Update(n) \/ Step(n) PROVE Searchable(m)'
  <2>1. UNCHANGED <<chunks, legacy, visible>>
    BY <1>2 DEF Create, Lifecycle!Submit, Update, Lifecycle!Edit, Step, Lifecycle!Begin,
                Lifecycle!Complete, Lifecycle!GiveUp, Lifecycle!TryAgain
  <2> QED
    BY <2>1 DEF Searchable, Indexed
<1>3. ASSUME NEW n \in Materials, Delete(n) PROVE Searchable(m)'
  BY <1>3 DEF Delete, Lifecycle!Remove, IInv, TypeOK, Searchable, Indexed
<1>4. ASSUME NEW n \in Materials, Persist(n) PROVE Searchable(m)'
  BY <1>4 DEF Persist, Lifecycle!Publish, IInv, TypeOK, RowInv, RowFacts, Searchable, Indexed, VisibleAfterParse
<1>5. CASE Reindex
  BY <1>5 DEF Reindex, Searchable, Indexed
<1>6. ASSUME NEW p \in Percentages, Activate(p) PROVE Searchable(m)'
  <2>1. /\ UNCHANGED <<chunks, legacy>> /\ \A n \in Rows : n \in Indexed
        /\ visible'[m] = IF m \notin Rows THEN visible[m]
                         ELSE IF m \in legacy \ Cohort[p] THEN "legacy-v1" ELSE "rag-v2"
    BY <1>6 DEF Activate, rowVars
  <2> QED
    BY <2>1 DEF Searchable, Indexed
<1>7. CASE Rollback
  BY <1>7 DEF Rollback, rowVars, Searchable, Indexed
<1>8. CASE Retire
  BY <1>8 DEF Retire, rowVars, IInv, TypeOK, ActiveInv, Searchable, Indexed
<1>9. CASE Age
  BY <1>9 DEF Age, rowVars, Searchable, Indexed
<1> QED
  BY <1>1, <1>2, <1>3, <1>4, <1>5, <1>6, <1>7, <1>8, <1>9 DEF Next, ScriptNext

\* Nothing but a delete makes a material disappear from retrieval.
THEOREM NothingGoesDark == Spec => NeverDark
<1>1. IInv /\ IInv' /\ [Next]_vars =>
        [\A m \in Materials : Searchable(m) /\ status'[m] # "deleted" => Searchable(m)']_vars
  BY SearchableStays
<1> QED
  BY <1>1, Invariant, PTL DEF Spec, NeverDark
=============================================================================
