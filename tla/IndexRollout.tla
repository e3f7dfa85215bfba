----------------------------- MODULE IndexRollout -----------------------------
(***************************************************************************)
(* The roll-out of the rag-v2 index next to the legacy-v1 one it replaces: *)
(* the operator's scripts (backend/scripts: reindex, activate by cohort,   *)
(* roll back, retire) and the choice of the visible version at the end of  *)
(* every parse (agent/rag/orchestrator.py), with users and parses going on *)
(* all the time.                                                           *)
(*                                                                         *)
(* The parse pipeline is taken at the level of MaterialLifecycle, which    *)
(* ParsePipeline implements: "chunks" are the rag-v2 chunks.  Every script *)
(* is one transaction.  The legacy chunks of a material are those of its   *)
(* text before the migration; nothing writes them any more.                *)
(***************************************************************************)
EXTENDS Naturals

CONSTANTS
  Materials,
  Imported,     \* the materials indexed before migration 0008
  Cohort,       \* Cohort[p]: the materials whose id hashes below p percent
  MaxGen        \* bound: users and scripts bump a generation up to this

Percentages == {10, 50, 100}
Versions    == {"legacy-v1", "rag-v2"}

ASSUME CohortAssumption ==
  /\ Imported \subseteq Materials /\ MaxGen \in Nat
  /\ Cohort \in [Percentages -> SUBSET Materials]
  /\ Cohort[10] \subseteq Cohort[50] /\ Cohort[100] = Materials

VARIABLES
  status, gen, content, chunks,   \* as in MaterialLifecycle
  legacy,    \* the materials that have legacy-v1 body chunks
  visible,   \* materials.index_version: the version retrieval joins on
  registry,  \* rag_index_versions.status
  aged       \* rag-v2 was activated 14 days ago or earlier

Lifecycle == INSTANCE MaterialLifecycle
Live      == Lifecycle!Live
NoText    == Lifecycle!NoText

rowVars == <<status, gen, content, chunks>>
vars    == <<status, gen, content, chunks, legacy, visible, registry, aged>>

Rows      == {m \in Materials : status[m] \in Live}
Indexed   == {m \in Materials : chunks[m].gen > 0}

\* Besides the types: the legacy chunks of a deleted material are gone.
TypeOK ==
  /\ status  \in [Materials -> Live \cup {"none", "deleted"}]
  /\ gen     \in [Materials -> Nat]
  /\ content \in [Materials -> Lifecycle!Text]
  /\ chunks  \in [Materials -> [gen: Nat, text: Lifecycle!Text]]
  /\ legacy  \subseteq Imported \cap Rows
  /\ visible \in [Materials -> Versions]
  /\ registry \in [Versions -> {"building", "active", "retired"}]
  /\ aged \in BOOLEAN

\* After migration 0008.
Init ==
  /\ status  = [m \in Materials |-> IF m \in Imported THEN "done" ELSE "none"]
  /\ gen     = [m \in Materials |-> IF m \in Imported THEN 1 ELSE 0]
  /\ content = [m \in Materials |-> NoText]
  /\ chunks  = [m \in Materials |-> Lifecycle!NoChunks]
  /\ legacy  = Imported
  /\ visible = [m \in Materials |-> "legacy-v1"]
  /\ registry = [v \in Versions |-> IF v = "legacy-v1" THEN "active" ELSE "building"]
  /\ aged = FALSE

-----------------------------------------------------------------------------
(* Users and the parse pipeline.                                            *)

Create(m) == Lifecycle!Submit(m) /\ UNCHANGED <<legacy, visible, registry, aged>>

Update(m) ==
  /\ gen[m] < MaxGen
  /\ content' = [content EXCEPT ![m] = [edit |-> gen[m] + 1, passes |-> 0]]
  /\ Lifecycle!Edit(m)
  /\ UNCHANGED <<legacy, visible, registry, aged>>

\* (mutant of Delete) the legacy chunks do not cascade.
DeleteWithoutCascade(m) ==
  Lifecycle!Remove(m) /\ UNCHANGED <<legacy, visible, registry, aged>>

Delete(m) ==
  /\ Lifecycle!Remove(m)
  /\ legacy' = legacy \ {m}
  /\ UNCHANGED <<visible, registry, aged>>

\* A claim, an end of a task, a retry of a failed or an interrupted one.
Step(m) ==
  /\ \/ Lifecycle!Begin(m) \/ Lifecycle!Complete(m) \/ Lifecycle!GiveUp(m)
     \/ gen[m] < MaxGen /\ Lifecycle!TryAgain({m})
  /\ UNCHANGED <<legacy, visible, registry, aged>>

\* (mutants of VisibleAfterParse)
IgnoringTheRegistry(m) == IF m \notin legacy THEN "rag-v2" ELSE "legacy-v1"
IgnoringLegacyChunks(m) == IF registry["rag-v2"] = "active" THEN "rag-v2" ELSE "legacy-v1"

\* visible_index_version in the final transaction of parse.
VisibleAfterParse(m) ==
  IF registry["rag-v2"] = "active" \/ m \notin legacy THEN "rag-v2" ELSE "legacy-v1"

\* The final transaction of parse.
Persist(m) ==
  /\ content' = [content EXCEPT ![m].passes = 1]
  /\ Lifecycle!Publish(m)
  /\ visible' = [visible EXCEPT ![m] = VisibleAfterParse(m)]
  /\ UNCHANGED <<legacy, registry, aged>>

-----------------------------------------------------------------------------
(* The operator's scripts.                                                  *)

Unindexed == Rows \ Indexed

\* (mutant of Reindex) the version goes back to building even when active.
ReindexActive ==
  /\ \A m \in Unindexed : gen[m] < MaxGen
  /\ registry' = [registry EXCEPT !["rag-v2"] = "building"]
  /\ Lifecycle!Requeue(Unindexed)
  /\ UNCHANGED <<content, chunks, legacy, visible, aged>>

\* reindex_rag_v2.sql: every material without a v2 body is queued again,
\* whatever its status.
Reindex ==
  /\ \A m \in Unindexed : gen[m] < MaxGen
  /\ registry' = IF registry["rag-v2"] = "active" THEN registry
                 ELSE [registry EXCEPT !["rag-v2"] = "building"]
  /\ Lifecycle!Requeue(Unindexed)
  /\ UNCHANGED <<content, chunks, legacy, visible, aged>>

\* activate_rag_v2.sql with rollout_percentage = p.
Activate(p) ==
  /\ \A m \in Rows : status[m] = "done" /\ m \in Indexed
  /\ IF p = 100
     THEN /\ registry' = [v \in Versions |->
               IF v = "rag-v2" THEN "active"
               ELSE IF registry[v] = "active" THEN "retired" ELSE registry[v]]
          /\ aged' = FALSE
     ELSE /\ registry' = [v \in Versions |-> IF v = "rag-v2" THEN "building" ELSE "active"]
          /\ UNCHANGED aged
  /\ visible' = [m \in Materials |->
       IF m \notin Rows THEN visible[m]
       ELSE IF m \in legacy \ Cohort[p] THEN "legacy-v1" ELSE "rag-v2"]
  /\ UNCHANGED <<rowVars, legacy>>

Demoted == [v \in Versions |-> IF v = "rag-v2" THEN "building" ELSE "active"]

\* (mutant of Rollback) every material goes back to the legacy index.
RollbackAll ==
  /\ registry' = Demoted
  /\ visible' = [m \in Materials |-> "legacy-v1"]
  /\ UNCHANGED <<rowVars, legacy, aged>>

\* rollback_rag_v2.sql.
Rollback ==
  /\ registry' = Demoted
  /\ visible' = [m \in Materials |-> IF m \in legacy THEN "legacy-v1" ELSE visible[m]]
  /\ UNCHANGED <<rowVars, legacy, aged>>

\* retire_legacy_rag.sql.
Retire ==
  /\ registry["rag-v2"] = "active" /\ aged
  /\ legacy' = {}
  /\ registry' = [registry EXCEPT !["legacy-v1"] = "retired"]
  /\ UNCHANGED <<rowVars, visible, aged>>

\* Fourteen days pass under an active rag-v2.
Age ==
  /\ registry["rag-v2"] = "active" /\ aged' = TRUE
  /\ UNCHANGED <<rowVars, legacy, visible, registry>>

ScriptNext == Reindex \/ (\E p \in Percentages : Activate(p)) \/ Rollback \/ Retire \/ Age

Next ==
  \/ \E m \in Materials : Create(m) \/ Update(m) \/ Delete(m) \/ Step(m) \/ Persist(m)
  \/ ScriptNext

Spec == Init /\ [][Next]_vars

-----------------------------------------------------------------------------
(***************************************************************************)
(* Properties.                                                             *)
(***************************************************************************)
\* Retrieval finds chunks of m: it joins on the visible version and does not
\* look at the parse status.
Searchable(m) == IF visible[m] = "rag-v2" THEN m \in Indexed ELSE m \in legacy

\* A material shown as done can be found, at every stage of the roll-out.
DoneIsSearchable == \A m \in Materials : status[m] = "done" => Searchable(m)

\* Once a material can be found, no edit, parse, activation, rollback or
\* retirement makes it disappear from retrieval; only a delete does.
NeverDark ==
  [][\A m \in Materials :
       Searchable(m) /\ status'[m] # "deleted" => Searchable(m)']_vars

\* Exactly one version is active (uq_rag_index_active forbids two; the scripts
\* must not leave none).
OneActiveVersion ==
  \E v \in Versions : registry[v] = "active" /\ \A u \in Versions \ {v} : registry[u] # "active"

\* While rag-v2 is the active version no done material is served from legacy
\* chunks, so retiring them takes nothing away: a parse that ends after the
\* activation, or after a rollback and another activation, respects it.
ActiveMeansServed ==
  registry["rag-v2"] = "active" =>
    \A m \in Materials : status[m] = "done" => visible[m] = "rag-v2"
=============================================================================
