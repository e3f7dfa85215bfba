------------------------- MODULE ParsePipelineProofs -------------------------
(***************************************************************************)
(* Proofs about ParsePipeline for any number of materials, workers,        *)
(* requests, attempts, generations and restarts.                           *)
(*                                                                         *)
(* The safety properties are not inductive.  What makes them so is the     *)
(* bookkeeping of generations: no task and no request is ahead of its row, *)
(* and one that is level with its row belongs to the row's only worker.    *)
(***************************************************************************)
EXTENDS ParsePipeline, TLAPS

\* Rows: the chunks never are ahead of the row; level with it, they were cut
\* from its content; and a done row is level with its chunks.
RowInv ==
  \A m \in Materials :
    /\ status[m] \in Live => gen[m] > 0
    /\ status[m] = "none" => gen[m] = 0
    /\ chunks[m].gen <= gen[m]
    /\ chunks[m].gen = gen[m] /\ gen[m] > 0 => chunks[m].text = content[m]
    /\ status[m] = "done" => chunks[m].gen = gen[m]
    /\ m \notin FileMaterials => content[m].edit = written[m]

\* A generation that is over for good: its row moved on or went away.
Over(m, g) == g < gen[m] \/ status[m] = "deleted"

\* Tasks: a busy worker level with its row holds the row in "parsing", carries
\* the text the user wrote last, and has a verdict "done" only when the chunks
\* of the generation are in.
TaskFacts(t) ==
  t.pc # "idle" =>
    /\ t.m \in Materials /\ t.gen > 0 /\ t.gen <= gen[t.m]
    /\ ~Over(t.m, t.gen) =>
         /\ t.pc = "alert" => status[t.m] = "failed"
         /\ t.pc # "alert" => status[t.m] = "parsing"
         /\ t.pc # "alert" /\ t.m \notin FileMaterials => t.text.edit = written[t.m]
         /\ t.pc = "finish" /\ t.verdict = "done" => chunks[t.m].gen = gen[t.m]
TaskInv == \A w \in Workers : TaskFacts(worker[w])

\* Requests: none is ahead of its row, and "done" means the chunks are in.
RequestFacts(r) ==
  r.pc # "idle" =>
    /\ r.m \in Materials /\ r.gen > 0 /\ r.gen <= gen[r.m]
    /\ ~Over(r.m, r.gen) =>
         /\ r.m \notin FileMaterials => r.text.edit = written[r.m]
         /\ r.pc = "reply" /\ r.outcome = "done" => chunks[r.m].gen = gen[r.m]
RequestInv == \A c \in Calls : RequestFacts(call[c])

\* A worker waits for a request of its own task, and a "stale" answer it is
\* about to read means that its generation is over.
WaitFacts(w, c) ==
  Waits(w, c) =>
    /\ call[c].pc # "idle"
    /\ call[c].m = worker[w].m /\ call[c].gen = worker[w].gen
    /\ call[c].pc = "reply" /\ call[c].outcome = "stale"
         => Over(call[c].m, call[c].gen)
WaitInv == \A w \in Workers, c \in Calls : WaitFacts(w, c)

\* No other worker, busy or about to alert, shares the generation.
SoleInv ==
  \A v, w \in Workers :
    /\ v # w
    /\ worker[v].pc # "idle" /\ worker[w].pc # "idle"
    /\ worker[v].m = worker[w].m
    => worker[v].gen # worker[w].gen

\* An alert is about a generation that was given up.
AlertFacts(m, g) ==
  /\ m \in Materials /\ 0 < g /\ g <= gen[m]
  /\ ~Over(m, g) => status[m] = "failed"
AlertInv == \A a \in alerted : AlertFacts(a[1], a[2])

IInv == /\ TypeOK
        /\ RowInv /\ TaskInv /\ RequestInv /\ WaitInv /\ SoleInv /\ AlertInv
-----------------------------------------------------------------------------
(* Lemmas about the records of tasks and requests.                          *)

\* The idle records have their types.
LEMMA IdleType == NoTask \in Task /\ NoRequest \in Request
BY SizesAssumption DEF NoTask, Task, NoRequest, Request, Text, Owners

\* What a claim returns is a task of the claimed row.
LEMMA ClaimedType ==
  ASSUME TypeOK, NEW m \in Materials, NEW o \in Owners
  PROVE  Claimed(m, o) \in Task
BY SizesAssumption DEF Claimed, TypeOK, Task, Text, Owners, Materials

\* Whatever an attempt returns, the task stays the same task.
LEMMA FailedTask ==
  ASSUME NEW t \in Task
  PROVE  /\ Failed(t) \in Task
         /\ Failed(t).m = t.m /\ Failed(t).gen = t.gen /\ Failed(t).text = t.text
         /\ \/ Failed(t).pc = "send"
            \/ Failed(t).pc = "finish" /\ Failed(t).verdict = "failed"
<1>1. CASE t.attempt < MaxAttempts
  <2>1. Failed(t) = [t EXCEPT !.pc = "send", !.attempt = t.attempt + 1, !.call = NoCall]
    BY <1>1 DEF Failed
  <2>2. t.attempt + 1 \in Nat
    BY DEF Task
  <2> QED
    BY <2>1, <2>2 DEF Task
<1>2. CASE ~(t.attempt < MaxAttempts)
  BY <1>2 DEF Failed, Task
<1> QED
  BY <1>1, <1>2

\* A task that got its answer is about to finish as done, for the same row.
LEMMA SucceededTask ==
  ASSUME NEW t \in Task
  PROVE  /\ Succeeded(t) \in Task
         /\ Succeeded(t).m = t.m /\ Succeeded(t).gen = t.gen /\ Succeeded(t).text = t.text
         /\ Succeeded(t).pc = "finish" /\ Succeeded(t).verdict = "done"
BY DEF Succeeded, Task

\* A task that was sent keeps its row, generation and text.
LEMMA WaitingTask ==
  ASSUME NEW t \in Task, NEW c \in Calls
  PROVE  [t EXCEPT !.pc = "wait", !.call = c] \in Task
BY DEF Task

\* A task about to alert keeps its row and generation.
LEMMA AlertingTask ==
  ASSUME NEW t \in Task
  PROVE  [t EXCEPT !.pc = "alert"] \in Task
BY DEF Task

\* An answered request keeps its row, generation and text.
LEMMA AnsweredRequest ==
  ASSUME NEW r \in Request, NEW outcome \in {"done", "stale", "error"}
  PROVE  /\ Answered(r, outcome) \in Request
         /\ Answered(r, outcome).m = r.m /\ Answered(r, outcome).gen = r.gen
         /\ Answered(r, outcome).text = r.text
         /\ Answered(r, outcome).pc = "reply" /\ Answered(r, outcome).outcome = outcome
BY DEF Answered, Request

-----------------------------------------------------------------------------
\* The initial state has its types.
LEMMA InitType == Init => TypeOK
BY SizesAssumption DEF Init, TypeOK, Text, NoChunks, NoTask, NoRequest, Task, Request,
   Owners, Live, Materials

\* Every step keeps the types.
LEMMA NextType == TypeOK /\ [Next]_vars => TypeOK'
<1> SUFFICES ASSUME TypeOK, [Next]_vars PROVE TypeOK'
  OBVIOUS
<1> USE SizesAssumption DEF TypeOK, Text, Live, Owners
<1>1. ASSUME NEW m \in Materials, Create(m) PROVE TypeOK'
  BY <1>1 DEF Create, Spawn
<1>2. ASSUME NEW m \in Materials, Update(m) PROVE TypeOK'
  BY <1>2 DEF Update, Spawn
<1>3. ASSUME NEW m \in Materials, RetryParse(m) PROVE TypeOK'
  BY <1>3 DEF RetryParse, Spawn
<1>4. ASSUME NEW m \in Materials, Delete(m) PROVE TypeOK'
  BY <1>4 DEF Delete, NoChunks
<1>5. ASSUME NEW m \in Materials, NEW o \in Owners, NEW w \in Workers, Claim(m, o, w)
      PROVE  TypeOK'
  BY <1>5, ClaimedType DEF Claim
<1>6. ASSUME NEW m \in Materials, NEW o \in Owners, ClaimRefused(m, o) \/ ClaimLost(m, o)
      PROVE  TypeOK'
  BY <1>6 DEF ClaimRefused, ClaimLost, rowVars
<1>7. ASSUME NEW w \in Workers, NEW c \in Calls, Send(w, c) PROVE TypeOK'
  <2>1. [pc |-> "precheck", m |-> worker[w].m, gen |-> worker[w].gen,
         text |-> worker[w].text, outcome |-> "error"] \in Request
    BY DEF Task, Request
  <2>2. [worker[w] EXCEPT !.pc = "wait", !.call = c] \in Task
    BY WaitingTask
  <2> QED
    BY <1>7, <2>1, <2>2 DEF Send, rowVars
<1>8. ASSUME NEW w \in Workers, NEW c \in Calls, Reply(w, c) PROVE TypeOK'
  BY <1>8, IdleType, FailedTask, SucceededTask DEF Reply, rowVars
<1>9. ASSUME NEW w \in Workers, Timeout(w) PROVE TypeOK'
  BY <1>9, FailedTask DEF Timeout, rowVars
<1>10. ASSUME NEW w \in Workers, Finish(w) PROVE TypeOK'
  <2>1. worker[w].verdict \in {"done", "failed"}
    BY DEF Task
  <2>2. status' \in [Materials -> Live \cup {"none", "deleted"}]
    BY <1>10, <2>1 DEF Finish
  <2>3. worker' \in [Workers -> Task]
    BY <1>10, IdleType, AlertingTask DEF Finish
  <2> QED
    BY <1>10, <2>2, <2>3 DEF Finish
<1>11. ASSUME NEW w \in Workers, FinishLost(w) PROVE TypeOK'
  <2>1. worker[w].verdict \in {"done", "failed"}
    BY DEF Task
  <2> QED
    BY <1>11, <2>1, IdleType DEF FinishLost
<1>12. ASSUME NEW w \in Workers, Alert(w) PROVE TypeOK'
  BY <1>12, IdleType DEF Alert, Task, rowVars
<1>a. ASSUME NEW c \in Calls, NEW outcome \in {"done", "stale", "error"}, Answer(c, outcome)
      PROVE  call' \in [Calls -> Request]
  <2>1. Answered(call[c], outcome) \in Request
    BY AnsweredRequest
  <2> QED
    BY <1>a, <2>1 DEF Answer
<1>b. \A r : Turned(r) \in {"done", "stale", "error"}
  BY DEF Turned
<1>13. ASSUME NEW c \in Calls, Precheck(c) PROVE TypeOK'
  <2>1. call' \in [Calls -> Request]
    <3>1. CASE call' = [call EXCEPT ![c].pc = "process"]
      BY <3>1 DEF Request
    <3>2. CASE Answer(c, Turned(call[c]))
      BY <3>2, <1>a, <1>b
    <3> QED
      BY <1>13, <3>1, <3>2 DEF Precheck
  <2> QED
    BY <1>13, <2>1 DEF Precheck, rowVars
<1>14. ASSUME NEW c \in Calls, Persist(c) PROVE TypeOK'
  <2>1. Processed(call[c].m, call[c].text) \in Text
    <3>1. call[c].text \in [edit: Nat, passes: Nat]
      BY DEF Request
    <3> QED
      BY <3>1 DEF Processed
  <2>2. call[c].gen \in Nat
    BY DEF Request
  <2>3. call' \in [Calls -> Request]
    BY <1>14, <1>a, <1>b DEF Persist
  <2> DEFINE text == Processed(call[c].m, call[c].text)
  <2>4. [gen |-> call[c].gen, text |-> text] \in [gen: Nat, text: Text]
    BY <2>1, <2>2
  <2>5. \/ chunks' = [chunks EXCEPT ![call[c].m] = [gen |-> call[c].gen, text |-> text]]
        \/ chunks' = chunks
    BY <1>14 DEF Persist
  <2>6. content' = [content EXCEPT ![call[c].m] = text] \/ content' = content
    BY <1>14 DEF Persist
  <2>7. content' \in [Materials -> Text]
    BY <2>1, <2>6
  <2>8. chunks' \in [Materials -> [gen: Nat, text: Text]]
    <3> HIDE DEF text
    <3> QED
      BY <2>4, <2>5
  <2> QED
    BY <1>14, <2>3, <2>7, <2>8 DEF Persist
<1>15. ASSUME NEW c \in Calls, CallFails(c) \/ Discard(c) PROVE TypeOK'
  <2>1. CASE CallFails(c)
    BY <2>1, <1>a DEF CallFails, rowVars
  <2>2. CASE Discard(c)
    BY <2>2, IdleType DEF Discard, rowVars
  <2> QED
    BY <1>15, <2>1, <2>2
<1>16. CASE AgentCrash
  BY <1>16, FailedTask, IdleType DEF AgentCrash, rowVars
<1>17. CASE Dispatch
  BY <1>17 DEF Dispatch, FirstPending, rowVars
<1>18. CASE Crash \/ Stop \/ Exit
  BY <1>18, IdleType DEF Crash, Stop, Exit, rowVars
<1>19. CASE Start
  BY <1>19 DEF Start, FirstPending
<1>20. CASE UNCHANGED vars
  BY <1>20 DEF vars
<1> QED
  BY <1>1, <1>2, <1>3, <1>4, <1>5, <1>6, <1>7, <1>8, <1>9, <1>10, <1>11, <1>12, <1>13,
     <1>14, <1>15, <1>16, <1>17, <1>18, <1>19, <1>20
     DEF Next, UserNext, ClaimNext, WorkerNext, AgentNext, BackendNext

\* The status, the records of tasks and requests, and every counter keep their
\* type in every behaviour of the pipeline.
THEOREM TypeCorrect == Spec => []TypeOK
BY InitType, NextType, PTL DEF Spec
-----------------------------------------------------------------------------
\* The types the step lemmas use, without the records they come from.
LEMMA Types ==
  ASSUME TypeOK
  PROVE  /\ \A m \in Materials : gen[m] \in Nat /\ chunks[m].gen \in Nat
         /\ \A w \in Workers :
              /\ worker[w] \in Task /\ worker[w].gen \in Nat
              /\ worker[w].verdict \in {"done", "failed"}
         /\ \A c \in Calls : call[c] \in Request /\ call[c].gen \in Nat
         /\ \A a \in alerted : a[2] \in Nat
BY DEF TypeOK, Task, Request

\* The step lemmas: each operation keeps the invariant.  A new row is ahead of
\* everything, for no task or request can know it.
LEMMA CreateStep == ASSUME IInv, NEW m \in Materials, Create(m), TypeOK' PROVE IInv'
<1> USE Types DEF TypeOK, IInv, Over, Live
<1>1. gen[m] = 0
  BY DEF Create, RowInv
<1>2. RowInv'
  BY DEF RowInv, Create
<1>3. TaskInv'
  <2> SUFFICES ASSUME NEW v \in Workers, TaskFacts(worker[v]) PROVE TaskFacts(worker[v])'
    BY DEF TaskInv
  <2> QED
    BY <1>1 DEF TaskFacts, Create
<1>4. RequestInv'
  <2> SUFFICES ASSUME NEW c \in Calls, RequestFacts(call[c]) PROVE RequestFacts(call[c])'
    BY DEF RequestInv
  <2> QED
    BY <1>1 DEF RequestFacts, Create
<1>5. WaitInv'
  <2> SUFFICES ASSUME NEW v \in Workers, NEW c \in Calls, WaitFacts(v, c), RequestFacts(call[c])
               PROVE  WaitFacts(v, c)'
    BY DEF WaitInv, RequestInv
  <2> QED
    BY <1>1 DEF WaitFacts, Create, Waits, RequestFacts
<1>6. SoleInv'
  BY DEF SoleInv, Create
<1>7. AlertInv'
  <2> SUFFICES ASSUME NEW a \in alerted, AlertFacts(a[1], a[2]) PROVE AlertFacts(a[1], a[2])'
    BY DEF AlertInv, Create
  <2> QED
    BY <1>1 DEF AlertFacts, Create
<1> QED
  BY <1>2, <1>3, <1>4, <1>5, <1>6, <1>7

\* A claim makes its worker the only owner of the generation: no task or
\* request was level with a pending row.
LEMMA ClaimStep ==
  ASSUME IInv, NEW m \in Materials, NEW o \in Owners, NEW w \in Workers, Claim(m, o, w), TypeOK'
  PROVE  IInv'
<1> USE Types DEF TypeOK, IInv, Over, Live
<1>1. \A v \in Workers : worker[v].pc # "idle" /\ worker[v].m = m => worker[v].gen < gen[m]
  BY DEF TaskInv, TaskFacts, Claim
<1>2. RowInv'
  BY DEF RowInv, Claim
<1>3. \A v \in Workers \ {w} : worker'[v] = worker[v]
  BY DEF Claim
<1>4. /\ worker'[w].pc = "send" /\ worker'[w].m = m /\ worker'[w].gen = gen[m]
      /\ worker'[w].text = content[m]
  BY DEF Claim, Claimed
<1>5. TaskInv'
  <2> SUFFICES ASSUME NEW v \in Workers, TaskFacts(worker[v]) PROVE TaskFacts(worker[v])'
    BY DEF TaskInv
  <2>1. CASE v = w
    BY <2>1, <1>4 DEF RowInv, Claim, TaskFacts
  <2>2. CASE v # w
    BY <2>2, <1>1, <1>3 DEF TaskFacts, Claim
  <2> QED
    BY <2>1, <2>2
<1>6. RequestInv'
  <2> SUFFICES ASSUME NEW c \in Calls, RequestFacts(call[c]) PROVE RequestFacts(call[c])'
    BY DEF RequestInv
  <2> QED
    BY DEF RequestFacts, Claim
<1>7. WaitInv'
  <2> SUFFICES ASSUME NEW v \in Workers, NEW c \in Calls, WaitFacts(v, c), RequestFacts(call[c])
               PROVE  WaitFacts(v, c)'
    BY DEF WaitInv, RequestInv
  <2>1. CASE v = w
    BY <2>1, <1>4 DEF WaitFacts, Waits
  <2>2. CASE v # w
    BY <2>2, <1>3 DEF WaitFacts, Claim, Waits, RequestFacts
  <2> QED
    BY <2>1, <2>2
<1>8. SoleInv'
  <2> SUFFICES ASSUME NEW u \in Workers, NEW v \in Workers, u # v,
                      worker'[u].pc # "idle", worker'[v].pc # "idle", worker'[u].m = worker'[v].m
               PROVE  worker'[u].gen # worker'[v].gen
    BY DEF SoleInv
  <2>1. CASE u # w /\ v # w
    BY <2>1, <1>3 DEF SoleInv
  <2>2. CASE u = w \/ v = w
    BY <2>2, <1>1, <1>3, <1>4
  <2> QED
    BY <2>1, <2>2
<1>9. AlertInv'
  <2> SUFFICES ASSUME NEW a \in alerted, AlertFacts(a[1], a[2]) PROVE AlertFacts(a[1], a[2])'
    BY DEF AlertInv, Claim
  <2> QED
    BY DEF AlertFacts, Claim
<1> QED
  BY <1>2, <1>5, <1>6, <1>7, <1>8, <1>9

\* An edit leaves every task and request behind the new generation.
LEMMA UpdateStep == ASSUME IInv, NEW m \in Materials, Update(m), TypeOK' PROVE IInv'
<1> USE Types DEF TypeOK, IInv, Over, Live
<1>2. RowInv'
  BY DEF RowInv, Update
<1>3. TaskInv'
  <2> SUFFICES ASSUME NEW v \in Workers, TaskFacts(worker[v]) PROVE TaskFacts(worker[v])'
    BY DEF TaskInv
  <2> QED
    BY DEF TaskFacts, Update
<1>4. RequestInv'
  <2> SUFFICES ASSUME NEW d \in Calls, RequestFacts(call[d]) PROVE RequestFacts(call[d])'
    BY DEF RequestInv
  <2> QED
    BY DEF RequestFacts, Update
<1>5. WaitInv'
  <2> SUFFICES ASSUME NEW v \in Workers, NEW d \in Calls, WaitFacts(v, d), RequestFacts(call[d])
               PROVE  WaitFacts(v, d)'
    BY DEF WaitInv, RequestInv
  <2> QED
    BY DEF WaitFacts, Waits, RequestFacts, Update
<1>6. SoleInv'
  BY DEF SoleInv, Update
<1>7. AlertInv'
  <2> SUFFICES ASSUME NEW a \in alerted, AlertFacts(a[1], a[2]) PROVE AlertFacts(a[1], a[2])'
    BY DEF AlertInv, Update
  <2> QED
    BY DEF AlertFacts, Update
<1> QED
  BY <1>2, <1>3, <1>4, <1>5, <1>6, <1>7

\* A retry of a failed task leaves every earlier attempt behind.
LEMMA RetryParseStep == ASSUME IInv, NEW m \in Materials, RetryParse(m), TypeOK' PROVE IInv'
<1> USE Types DEF TypeOK, IInv, Over, Live
<1>2. RowInv'
  BY DEF RowInv, RetryParse
<1>3. TaskInv'
  <2> SUFFICES ASSUME NEW v \in Workers, TaskFacts(worker[v]) PROVE TaskFacts(worker[v])'
    BY DEF TaskInv
  <2> QED
    BY DEF TaskFacts, RetryParse
<1>4. RequestInv'
  <2> SUFFICES ASSUME NEW d \in Calls, RequestFacts(call[d]) PROVE RequestFacts(call[d])'
    BY DEF RequestInv
  <2> QED
    BY DEF RequestFacts, RetryParse
<1>5. WaitInv'
  <2> SUFFICES ASSUME NEW v \in Workers, NEW d \in Calls, WaitFacts(v, d), RequestFacts(call[d])
               PROVE  WaitFacts(v, d)'
    BY DEF WaitInv, RequestInv
  <2> QED
    BY DEF WaitFacts, Waits, RequestFacts, RetryParse
<1>6. SoleInv'
  BY DEF SoleInv, RetryParse
<1>7. AlertInv'
  <2> SUFFICES ASSUME NEW a \in alerted, AlertFacts(a[1], a[2]) PROVE AlertFacts(a[1], a[2])'
    BY DEF AlertInv, RetryParse
  <2> QED
    BY DEF AlertFacts, RetryParse
<1> QED
  BY <1>2, <1>3, <1>4, <1>5, <1>6, <1>7

\* A deleted row is owned by nobody.
LEMMA DeleteStep == ASSUME IInv, NEW m \in Materials, Delete(m), TypeOK' PROVE IInv'
<1> USE Types DEF TypeOK, IInv, Over, Live
<1>2. RowInv'
  BY DEF RowInv, Delete, NoChunks
<1>3. TaskInv'
  <2> SUFFICES ASSUME NEW v \in Workers, TaskFacts(worker[v]) PROVE TaskFacts(worker[v])'
    BY DEF TaskInv
  <2> QED
    BY DEF TaskFacts, Delete
<1>4. RequestInv'
  <2> SUFFICES ASSUME NEW d \in Calls, RequestFacts(call[d]) PROVE RequestFacts(call[d])'
    BY DEF RequestInv
  <2> QED
    BY DEF RequestFacts, Delete
<1>5. WaitInv'
  <2> SUFFICES ASSUME NEW v \in Workers, NEW d \in Calls, WaitFacts(v, d), RequestFacts(call[d])
               PROVE  WaitFacts(v, d)'
    BY DEF WaitInv, RequestInv
  <2> QED
    BY DEF WaitFacts, Waits, RequestFacts, Delete
<1>6. SoleInv'
  BY DEF SoleInv, Delete
<1>7. AlertInv'
  <2> SUFFICES ASSUME NEW a \in alerted, AlertFacts(a[1], a[2]) PROVE AlertFacts(a[1], a[2])'
    BY DEF AlertInv, Delete
  <2> QED
    BY DEF AlertFacts, Delete
<1> QED
  BY <1>2, <1>3, <1>4, <1>5, <1>6, <1>7

\* A restart requeues under new generations, with no worker left.
LEMMA StartStep == ASSUME IInv, Start, TypeOK' PROVE IInv'
<1> USE Types DEF TypeOK, IInv, Over, Live
<1>2. RowInv'
  BY DEF RowInv, Start
<1>3. TaskInv'
  <2> SUFFICES ASSUME NEW v \in Workers, TaskFacts(worker[v]) PROVE TaskFacts(worker[v])'
    BY DEF TaskInv
  <2> QED
    BY DEF TaskFacts, Start
<1>4. RequestInv'
  <2> SUFFICES ASSUME NEW d \in Calls, RequestFacts(call[d]) PROVE RequestFacts(call[d])'
    BY DEF RequestInv
  <2> QED
    BY DEF RequestFacts, Start
<1>5. WaitInv'
  <2> SUFFICES ASSUME NEW v \in Workers, NEW d \in Calls, WaitFacts(v, d), RequestFacts(call[d])
               PROVE  WaitFacts(v, d)'
    BY DEF WaitInv, RequestInv
  <2> QED
    BY DEF WaitFacts, Waits, RequestFacts, Start
<1>6. SoleInv'
  BY DEF SoleInv, Start
<1>7. AlertInv'
  <2> SUFFICES ASSUME NEW a \in alerted, AlertFacts(a[1], a[2]) PROVE AlertFacts(a[1], a[2])'
    BY DEF AlertInv, Start
  <2> QED
    BY DEF AlertFacts, Start
<1> QED
  BY <1>2, <1>3, <1>4, <1>5, <1>6, <1>7

\* A lost claim leaves at worst a parsing row that nobody owns.
LEMMA ClaimLostStep ==
  ASSUME IInv, NEW m \in Materials, NEW o \in Owners, ClaimLost(m, o), TypeOK'
  PROVE  IInv'
<1> USE Types DEF TypeOK, IInv, Over, Live
<1>1. /\ status[m] = "pending"
      /\ status' = status \/ status' = [status EXCEPT ![m] = "parsing"]
      /\ UNCHANGED <<gen, content, chunks, written, worker, call, alerted>>
  BY DEF ClaimLost
<1>2. RowInv'
  BY <1>1 DEF RowInv
<1>3. TaskInv'
  <2> SUFFICES ASSUME NEW v \in Workers, TaskFacts(worker[v]) PROVE TaskFacts(worker[v])'
    BY DEF TaskInv
  <2> QED
    BY <1>1 DEF TaskFacts
<1>4. RequestInv'
  <2> SUFFICES ASSUME NEW d \in Calls, RequestFacts(call[d]) PROVE RequestFacts(call[d])'
    BY DEF RequestInv
  <2> QED
    BY <1>1 DEF RequestFacts
<1>5. WaitInv'
  <2> SUFFICES ASSUME NEW v \in Workers, NEW d \in Calls, WaitFacts(v, d), RequestFacts(call[d])
               PROVE  WaitFacts(v, d)'
    BY DEF WaitInv, RequestInv
  <2> QED
    BY <1>1 DEF WaitFacts, Waits, RequestFacts
<1>6. SoleInv'
  BY <1>1 DEF SoleInv
<1>7. AlertInv'
  <2> SUFFICES ASSUME NEW a \in alerted, AlertFacts(a[1], a[2]) PROVE AlertFacts(a[1], a[2])'
    BY DEF AlertInv, ClaimLost
  <2> QED
    BY <1>1 DEF AlertFacts
<1> QED
  BY <1>2, <1>3, <1>4, <1>5, <1>6, <1>7

\* Generations that are not level and not ahead are behind.
LEMMA Behind == \A g, h \in Nat : g <= h /\ g # h => g < h
OBVIOUS

\* The only worker of a generation stays so while tasks keep their rows.
LEMMA SoleKept ==
  ASSUME SoleInv,
         \A v \in Workers : worker'[v].pc # "idle" =>
           /\ worker[v].pc # "idle"
           /\ worker'[v].m = worker[v].m /\ worker'[v].gen = worker[v].gen
  PROVE  SoleInv'
BY DEF SoleInv

\* What a step that leaves the rows and the alerts alone cannot disturb.
LEMMA RowsKept ==
  ASSUME IInv, UNCHANGED rowVars
  PROVE  /\ RowInv'
         /\ UNCHANGED alerted => AlertInv'
         /\ \A m \in Materials, g \in Nat : Over(m, g)' = Over(m, g)
BY DEF IInv, RowInv, AlertInv, AlertFacts, rowVars, Over

\* A request carries exactly what its worker claimed.
LEMMA SendStep ==
  ASSUME IInv, NEW w \in Workers, NEW c \in Calls, Send(w, c), TypeOK'
  PROVE  IInv'
<1> USE Types DEF TypeOK, IInv, Over, Live, rowVars
<1>1. /\ worker'[w].pc = "wait" /\ worker'[w].call = c /\ worker'[w].m = worker[w].m
      /\ worker'[w].gen = worker[w].gen /\ worker'[w].text = worker[w].text
      /\ worker[w].pc = "send"
  <2>1. worker[w] \in Task
    OBVIOUS
  <2> QED
    BY <2>1 DEF Send, Task
<1>2. \A v \in Workers \ {w} : worker'[v] = worker[v]
  BY DEF Send
<1>3. /\ call'[c].pc = "precheck" /\ call'[c].m = worker[w].m
      /\ call'[c].gen = worker[w].gen /\ call'[c].text = worker[w].text
      /\ call[c].pc = "idle"
  BY DEF Send
<1>4. \A d \in Calls \ {c} : call'[d] = call[d]
  BY DEF Send
<1>5. UNCHANGED rowVars /\ UNCHANGED alerted
  BY DEF Send
<1>6. TaskInv'
  <2> SUFFICES ASSUME NEW v \in Workers, TaskFacts(worker[v]) PROVE TaskFacts(worker[v])'
    BY DEF TaskInv
  <2>1. CASE v = w
    BY <2>1, <1>1, <1>5 DEF TaskFacts
  <2>2. CASE v # w
    BY <2>2, <1>2, <1>5 DEF TaskFacts
  <2> QED
    BY <2>1, <2>2
<1>7. RequestInv'
  <2> SUFFICES ASSUME NEW d \in Calls, RequestFacts(call[d]) PROVE RequestFacts(call[d])'
    BY DEF RequestInv
  <2>1. CASE d = c
    BY <2>1, <1>1, <1>3, <1>5 DEF RequestFacts, TaskInv, TaskFacts
  <2>2. CASE d # c
    BY <2>2, <1>4, <1>5 DEF RequestFacts
  <2> QED
    BY <2>1, <2>2
<1>8. WaitInv'
  <2> SUFFICES ASSUME NEW v \in Workers, NEW d \in Calls, WaitFacts(v, d), RequestFacts(call[d])
               PROVE  WaitFacts(v, d)'
    BY DEF WaitInv, RequestInv
  <2>1. CASE v = w /\ d = c
    BY <2>1, <1>1, <1>3 DEF WaitFacts, Waits
  <2>2. CASE v = w /\ d # c
    BY <2>2, <1>1 DEF WaitFacts, Waits
  <2>3. CASE v # w /\ d = c
    BY <2>3, <1>2, <1>3 DEF WaitFacts, Waits
  <2>4. CASE v # w /\ d # c
    BY <2>4, <1>2, <1>4, <1>5 DEF WaitFacts, Waits
  <2> QED
    BY <2>1, <2>2, <2>3, <2>4
<1>9. SoleInv'
  BY <1>1, <1>2, SoleKept
<1> QED
  BY <1>5, <1>6, <1>7, <1>8, <1>9, RowsKept

\* Reading an answer: "done" or "stale" becomes done, an error another attempt.
LEMMA ReplyStep ==
  ASSUME IInv, NEW w \in Workers, NEW c \in Calls, Reply(w, c), TypeOK'
  PROVE  IInv'
<1> USE Types DEF TypeOK, IInv, Over, Live, rowVars
<1>1. /\ worker'[w].m = worker[w].m /\ worker'[w].gen = worker[w].gen
      /\ worker'[w].text = worker[w].text /\ Waits(w, c)
      /\ worker'[w].pc \in {"send", "finish"}
  BY FailedTask, SucceededTask DEF Reply
<1>2. worker'[w].pc = "finish" /\ worker'[w].verdict = "done" => call[c].outcome # "error"
  BY FailedTask DEF Reply
<1>3. \A v \in Workers \ {w} : worker'[v] = worker[v]
  BY DEF Reply
<1>4. /\ call[c].pc = "reply" /\ call'[c].pc = "idle"
      /\ \A d \in Calls \ {c} : call'[d] = call[d]
  BY DEF Reply, NoRequest
<1>5. UNCHANGED rowVars /\ UNCHANGED alerted
  BY DEF Reply
<1>6. /\ worker[w].m = call[c].m /\ worker[w].gen = call[c].gen
      /\ call[c].outcome = "stale" => Over(call[c].m, call[c].gen)
  BY <1>1, <1>4 DEF WaitInv, WaitFacts
<1>7. call[c].outcome = "done" /\ ~Over(call[c].m, call[c].gen)
        => chunks[call[c].m].gen = gen[call[c].m]
  BY <1>4 DEF RequestInv, RequestFacts
<1>8. call[c].outcome \in {"done", "stale", "error"}
  BY DEF Request
<1>9. TaskInv'
  <2> SUFFICES ASSUME NEW v \in Workers, TaskFacts(worker[v]) PROVE TaskFacts(worker[v])'
    BY DEF TaskInv
  <2>1. CASE v = w
    <3>1. TaskFacts(worker[w])
      BY DEF TaskInv
    <3>2. worker[w].pc = "wait"
      BY <1>1 DEF Waits
    <3> QED
      BY <2>1, <3>1, <3>2, <1>1, <1>2, <1>5, <1>6, <1>7, <1>8 DEF TaskFacts
  <2>2. CASE v # w
    BY <2>2, <1>3, <1>5 DEF TaskFacts
  <2> QED
    BY <2>1, <2>2
<1>10. RequestInv'
  <2> SUFFICES ASSUME NEW d \in Calls, RequestFacts(call[d]) PROVE RequestFacts(call[d])'
    BY DEF RequestInv
  <2>1. CASE d = c
    BY <2>1, <1>4 DEF RequestFacts
  <2>2. CASE d # c
    BY <2>2, <1>4, <1>5 DEF RequestFacts
  <2> QED
    BY <2>1, <2>2
\* Nobody else waits for c: it would work on the same generation.
<1>11. ASSUME NEW v \in Workers, v # w PROVE ~Waits(v, c)
  <2> SUFFICES ASSUME Waits(v, c) PROVE FALSE
    OBVIOUS
  <2>1. worker[v].m = call[c].m /\ worker[v].gen = call[c].gen
    BY DEF WaitInv, WaitFacts
  <2>2. worker[v].pc # "idle" /\ worker[w].pc # "idle"
    BY <1>1 DEF Waits
  <2> QED
    BY <1>11, <2>1, <2>2, <1>6 DEF SoleInv
<1>12. WaitInv'
  <2> SUFFICES ASSUME NEW v \in Workers, NEW d \in Calls, WaitFacts(v, d), RequestFacts(call[d])
               PROVE  WaitFacts(v, d)'
    BY DEF WaitInv, RequestInv
  <2>1. CASE v = w
    BY <2>1, <1>1 DEF WaitFacts, Waits
  <2>2. CASE v # w /\ d = c
    BY <2>2, <1>3, <1>11 DEF WaitFacts, Waits
  <2>3. CASE v # w /\ d # c
    BY <2>3, <1>3, <1>4, <1>5 DEF WaitFacts, Waits
  <2> QED
    BY <2>1, <2>2, <2>3
<1>13. SoleInv'
  <2>1. worker[w].pc # "idle"
    BY <1>1 DEF Waits
  <2> QED
    BY <2>1, <1>1, <1>3, SoleKept
<1> QED
  BY <1>5, <1>9, <1>10, <1>12, <1>13, RowsKept

\* A timeout leaves its request running, on the same generation or behind.
LEMMA TimeoutStep ==
  ASSUME IInv, NEW w \in Workers, Timeout(w), TypeOK'
  PROVE  IInv'
<1> USE Types DEF TypeOK, IInv, Over, Live, rowVars
<1>1. /\ worker'[w].m = worker[w].m /\ worker'[w].gen = worker[w].gen
      /\ worker'[w].text = worker[w].text /\ worker[w].pc = "wait"
      /\ \/ worker'[w].pc = "send"
         \/ worker'[w].pc = "finish" /\ worker'[w].verdict = "failed"
  BY FailedTask DEF Timeout
<1>2. \A v \in Workers \ {w} : worker'[v] = worker[v]
  BY DEF Timeout
<1>3. UNCHANGED rowVars /\ UNCHANGED <<alerted, call>>
  BY DEF Timeout
<1>4. TaskInv'
  <2> SUFFICES ASSUME NEW v \in Workers, TaskFacts(worker[v]) PROVE TaskFacts(worker[v])'
    BY DEF TaskInv
  <2>1. CASE v = w
    BY <2>1, <1>1, <1>3 DEF TaskFacts
  <2>2. CASE v # w
    BY <2>2, <1>2, <1>3 DEF TaskFacts
  <2> QED
    BY <2>1, <2>2
<1>5. RequestInv'
  <2> SUFFICES ASSUME NEW d \in Calls, RequestFacts(call[d]) PROVE RequestFacts(call[d])'
    BY DEF RequestInv
  <2> QED
    BY <1>3 DEF RequestFacts
<1>6. WaitInv'
  <2> SUFFICES ASSUME NEW v \in Workers, NEW d \in Calls, WaitFacts(v, d), RequestFacts(call[d])
               PROVE  WaitFacts(v, d)'
    BY DEF WaitInv, RequestInv
  <2>1. CASE v = w
    BY <2>1, <1>1 DEF WaitFacts, Waits
  <2>2. CASE v # w
    BY <2>2, <1>2, <1>3 DEF WaitFacts, Waits
  <2> QED
    BY <2>1, <2>2
<1>7. SoleInv'
  BY <1>1, <1>2, SoleKept
<1> QED
  BY <1>3, <1>4, <1>5, <1>6, <1>7, RowsKept

\* A crash of the agent turns every waiting worker to its next attempt.
LEMMA AgentCrashStep == ASSUME IInv, AgentCrash, TypeOK' PROVE IInv'
<1> USE Types DEF TypeOK, IInv, Over, Live, rowVars
<1>1. ASSUME NEW v \in Workers
      PROVE  /\ worker'[v].m = worker[v].m /\ worker'[v].gen = worker[v].gen
             /\ worker'[v].text = worker[v].text
             /\ \/ worker[v].pc # "wait" /\ worker'[v] = worker[v]
                \/ /\ worker[v].pc = "wait"
                   /\ \/ worker'[v].pc = "send"
                      \/ worker'[v].pc = "finish" /\ worker'[v].verdict = "failed"
  BY FailedTask DEF AgentCrash
<1>2. \A d \in Calls : call'[d].pc = "idle"
  BY DEF AgentCrash, NoRequest
<1>3. UNCHANGED rowVars /\ UNCHANGED alerted
  BY DEF AgentCrash
<1>4. TaskInv'
  <2> SUFFICES ASSUME NEW v \in Workers, TaskFacts(worker[v]) PROVE TaskFacts(worker[v])'
    BY DEF TaskInv
  <2> QED
    BY <1>1, <1>3 DEF TaskFacts
<1>5. RequestInv'
  <2> SUFFICES ASSUME NEW d \in Calls, RequestFacts(call[d]) PROVE RequestFacts(call[d])'
    BY DEF RequestInv
  <2> QED
    BY <1>2 DEF RequestFacts
<1>6. WaitInv'
  <2> SUFFICES ASSUME NEW v \in Workers, NEW d \in Calls, WaitFacts(v, d), RequestFacts(call[d])
               PROVE  WaitFacts(v, d)'
    BY DEF WaitInv, RequestInv
  <2> QED
    BY <1>1 DEF WaitFacts, Waits
<1>7. SoleInv'
  BY <1>1, SoleKept
<1> QED
  BY <1>3, <1>4, <1>5, <1>6, <1>7, RowsKept

\* The backend going down in any way only removes workers.
LEMMA DownStep == ASSUME IInv, Crash \/ Stop \/ Exit, TypeOK' PROVE IInv'
<1> USE Types DEF TypeOK, IInv, Over, Live, rowVars
<1>1. ASSUME NEW v \in Workers PROVE worker'[v] = worker[v] \/ worker'[v].pc = "idle"
  BY DEF Crash, Stop, Exit, NoTask
<1>2. UNCHANGED rowVars /\ UNCHANGED <<call, alerted>>
  BY DEF Crash, Stop, Exit
<1>4. TaskInv'
  <2> SUFFICES ASSUME NEW v \in Workers, TaskFacts(worker[v]) PROVE TaskFacts(worker[v])'
    BY DEF TaskInv
  <2> QED
    BY <1>1, <1>2 DEF TaskFacts
<1>5. RequestInv'
  <2> SUFFICES ASSUME NEW d \in Calls, RequestFacts(call[d]) PROVE RequestFacts(call[d])'
    BY DEF RequestInv
  <2> QED
    BY <1>2 DEF RequestFacts
<1>6. WaitInv'
  <2> SUFFICES ASSUME NEW v \in Workers, NEW d \in Calls, WaitFacts(v, d), RequestFacts(call[d])
               PROVE  WaitFacts(v, d)'
    BY DEF WaitInv, RequestInv
  <2> QED
    BY <1>1, <1>2 DEF WaitFacts, Waits
<1>7. SoleInv'
  BY <1>1, SoleKept
<1> QED
  BY <1>2, <1>4, <1>5, <1>6, <1>7, RowsKept

\* A finish ends the row as done only with the chunks of its generation.
LEMMA FinishStep ==
  ASSUME IInv, NEW w \in Workers, Finish(w), TypeOK'
  PROVE  IInv'
<1> USE Types DEF TypeOK, IInv, Over, Live
<1> DEFINE t == worker[w]
<1>1. /\ t.pc = "finish"
      /\ \/ status' = status
         \/ Owns(t) /\ status' = [status EXCEPT ![t.m] = t.verdict]
      /\ UNCHANGED <<gen, content, chunks, written, call, alerted>>
      /\ \A v \in Workers \ {w} : worker'[v] = worker[v]
  BY DEF Finish
<1>2. /\ t.m \in Materials /\ t.gen > 0 /\ t.gen <= gen[t.m]
      /\ t.verdict = "done" /\ Owns(t) => chunks[t.m].gen = gen[t.m]
  BY <1>1 DEF TaskInv, TaskFacts, Owns
<1>3. \/ worker'[w].pc = "idle"
      \/ /\ worker'[w].pc = "alert" /\ worker'[w].m = t.m /\ worker'[w].gen = t.gen
         /\ Owns(t) /\ status' = [status EXCEPT ![t.m] = "failed"]
  <2>1. CASE Owns(t) /\ t.verdict = "failed"
    <3>1. worker'[w] = [t EXCEPT !.pc = "alert"]
      BY <2>1 DEF Finish
    <3> QED
      BY <2>1, <3>1 DEF Finish, Task
  <2>2. CASE ~(Owns(t) /\ t.verdict = "failed")
    BY <2>2 DEF Finish, NoTask
  <2> QED
    BY <2>1, <2>2
<1>4. RowInv'
  BY <1>1, <1>2 DEF RowInv, Owns
<1>5. TaskInv'
  <2> SUFFICES ASSUME NEW v \in Workers, TaskFacts(worker[v]) PROVE TaskFacts(worker[v])'
    BY DEF TaskInv
  <2>1. CASE v = w
    BY <2>1, <1>1, <1>2, <1>3 DEF TaskFacts, Owns
  <2>2. CASE v # w
    <3>1. worker[v].pc # "idle" /\ worker[v].m = t.m => worker[v].gen # t.gen
      BY <1>1, <2>2 DEF SoleInv
    <3>2. worker'[v] = worker[v]
      BY <1>1, <2>2
    <3>3. CASE status'[worker[v].m] = status[worker[v].m]
      BY <3>2, <3>3, <1>1 DEF TaskFacts
    <3>4. CASE status'[worker[v].m] # status[worker[v].m] /\ worker[v].pc # "idle"
      <4>1. worker[v].m \in Materials /\ worker[v].gen > 0 /\ worker[v].gen <= gen[worker[v].m]
        BY <3>4 DEF TaskFacts
      <4>2. worker[v].m = t.m /\ Owns(t)
        BY <3>4, <4>1, <1>1, <1>2
      <4>3. worker[v].gen # gen[worker[v].m]
        BY <3>1, <3>4, <4>2 DEF Owns
      <4> QED
        <5>1. worker[v].gen \in Nat /\ gen[worker[v].m] \in Nat
          BY <4>1
        <5>2. worker[v].gen < gen[worker[v].m]
          BY <4>1, <4>3, <5>1, Behind
        <5> QED
          BY <3>2, <4>1, <5>2, <1>1 DEF TaskFacts
    <3> QED
      BY <3>2, <3>3, <3>4 DEF TaskFacts
  <2> QED
    BY <2>1, <2>2
<1>6. RequestInv'
  <2> SUFFICES ASSUME NEW d \in Calls, RequestFacts(call[d]) PROVE RequestFacts(call[d])'
    BY DEF RequestInv
  <2> QED
    BY <1>1, <1>2 DEF RequestFacts, Owns
<1>7. WaitInv'
  <2> SUFFICES ASSUME NEW v \in Workers, NEW d \in Calls, WaitFacts(v, d), RequestFacts(call[d])
               PROVE  WaitFacts(v, d)'
    BY DEF WaitInv, RequestInv
  <2>1. CASE v = w
    BY <2>1, <1>3 DEF WaitFacts, Waits
  <2>2. CASE v # w
    BY <2>2, <1>1, <1>2 DEF WaitFacts, Waits, RequestFacts, Owns
  <2> QED
    BY <2>1, <2>2
<1>8. SoleInv'
  BY <1>1, <1>3, SoleKept
<1>9. AlertInv'
  <2> SUFFICES ASSUME NEW a \in alerted, AlertFacts(a[1], a[2]) PROVE AlertFacts(a[1], a[2])'
    BY <1>1 DEF AlertInv
  <2> QED
    BY <1>1, <1>2 DEF AlertFacts, Owns
<1> QED
  BY <1>4, <1>5, <1>6, <1>7, <1>8, <1>9

\* So does a finish whose result is lost.
LEMMA FinishLostStep ==
  ASSUME IInv, NEW w \in Workers, FinishLost(w), TypeOK'
  PROVE  IInv'
<1> USE Types DEF TypeOK, IInv, Over, Live
<1> DEFINE t == worker[w]
<1>1. /\ t.pc = "finish"
      /\ \/ status' = status
         \/ Owns(t) /\ status' = [status EXCEPT ![t.m] = t.verdict]
      /\ UNCHANGED <<gen, content, chunks, written, call, alerted>>
      /\ \A v \in Workers \ {w} : worker'[v] = worker[v]
  BY DEF FinishLost
<1>2. /\ t.m \in Materials /\ t.gen > 0 /\ t.gen <= gen[t.m]
      /\ t.verdict = "done" /\ Owns(t) => chunks[t.m].gen = gen[t.m]
  BY <1>1 DEF TaskInv, TaskFacts, Owns
<1>3. worker'[w].pc = "idle"
  BY DEF FinishLost, NoTask
<1>4. RowInv'
  BY <1>1, <1>2 DEF RowInv, Owns
<1>5. TaskInv'
  <2> SUFFICES ASSUME NEW v \in Workers, TaskFacts(worker[v]) PROVE TaskFacts(worker[v])'
    BY DEF TaskInv
  <2>1. CASE v = w
    BY <2>1, <1>1, <1>2, <1>3 DEF TaskFacts, Owns
  <2>2. CASE v # w
    <3>1. worker[v].pc # "idle" /\ worker[v].m = t.m => worker[v].gen # t.gen
      BY <1>1, <2>2 DEF SoleInv
    <3>2. worker'[v] = worker[v]
      BY <1>1, <2>2
    <3>3. CASE status'[worker[v].m] = status[worker[v].m]
      BY <3>2, <3>3, <1>1 DEF TaskFacts
    <3>4. CASE status'[worker[v].m] # status[worker[v].m] /\ worker[v].pc # "idle"
      <4>1. worker[v].m \in Materials /\ worker[v].gen > 0 /\ worker[v].gen <= gen[worker[v].m]
        BY <3>4 DEF TaskFacts
      <4>2. worker[v].m = t.m /\ Owns(t)
        BY <3>4, <4>1, <1>1, <1>2
      <4>3. worker[v].gen # gen[worker[v].m]
        BY <3>1, <3>4, <4>2 DEF Owns
      <4> QED
        <5>1. worker[v].gen \in Nat /\ gen[worker[v].m] \in Nat
          BY <4>1
        <5>2. worker[v].gen < gen[worker[v].m]
          BY <4>1, <4>3, <5>1, Behind
        <5> QED
          BY <3>2, <4>1, <5>2, <1>1 DEF TaskFacts
    <3> QED
      BY <3>2, <3>3, <3>4 DEF TaskFacts
  <2> QED
    BY <2>1, <2>2
<1>6. RequestInv'
  <2> SUFFICES ASSUME NEW d \in Calls, RequestFacts(call[d]) PROVE RequestFacts(call[d])'
    BY DEF RequestInv
  <2> QED
    BY <1>1, <1>2 DEF RequestFacts, Owns
<1>7. WaitInv'
  <2> SUFFICES ASSUME NEW v \in Workers, NEW d \in Calls, WaitFacts(v, d), RequestFacts(call[d])
               PROVE  WaitFacts(v, d)'
    BY DEF WaitInv, RequestInv
  <2>1. CASE v = w
    BY <2>1, <1>3 DEF WaitFacts, Waits
  <2>2. CASE v # w
    BY <2>2, <1>1, <1>2 DEF WaitFacts, Waits, RequestFacts, Owns
  <2> QED
    BY <2>1, <2>2
<1>8. SoleInv'
  BY <1>1, <1>3, SoleKept
<1>9. AlertInv'
  <2> SUFFICES ASSUME NEW a \in alerted, AlertFacts(a[1], a[2]) PROVE AlertFacts(a[1], a[2])'
    BY <1>1 DEF AlertInv
  <2> QED
    BY <1>1, <1>2 DEF AlertFacts, Owns
<1> QED
  BY <1>4, <1>5, <1>6, <1>7, <1>8, <1>9

\* An alert is about a generation that has already failed.
LEMMA AlertStep ==
  ASSUME IInv, NEW w \in Workers, Alert(w), TypeOK'
  PROVE  IInv'
<1> USE Types DEF TypeOK, IInv, Over, Live, rowVars
<1>1. /\ worker[w].pc = "alert" /\ worker'[w].pc = "idle"
      /\ \A v \in Workers \ {w} : worker'[v] = worker[v]
  BY DEF Alert, NoTask
<1>2. UNCHANGED rowVars /\ UNCHANGED call /\ alerted' = alerted \cup {<<worker[w].m, worker[w].gen>>}
  BY DEF Alert
<1>3. TaskInv'
  <2> SUFFICES ASSUME NEW v \in Workers, TaskFacts(worker[v]) PROVE TaskFacts(worker[v])'
    BY DEF TaskInv
  <2> QED
    BY <1>1, <1>2 DEF TaskFacts
<1>4. RequestInv'
  <2> SUFFICES ASSUME NEW d \in Calls, RequestFacts(call[d]) PROVE RequestFacts(call[d])'
    BY DEF RequestInv
  <2> QED
    BY <1>2 DEF RequestFacts
<1>5. WaitInv'
  <2> SUFFICES ASSUME NEW v \in Workers, NEW d \in Calls, WaitFacts(v, d), RequestFacts(call[d])
               PROVE  WaitFacts(v, d)'
    BY DEF WaitInv, RequestInv
  <2> QED
    BY <1>1, <1>2 DEF WaitFacts, Waits
<1>6. SoleInv'
  BY <1>1, SoleKept
<1>7. AlertInv'
  <2>1. AlertFacts(worker[w].m, worker[w].gen)
    BY <1>1 DEF TaskInv, TaskFacts, AlertFacts
  <2> SUFFICES ASSUME NEW a \in alerted', AlertFacts(a[1], a[2]) PROVE AlertFacts(a[1], a[2])'
    BY <1>2, <2>1 DEF AlertInv
  <2> QED
    BY <1>2 DEF AlertFacts
<1> QED
  BY <1>2, <1>3, <1>4, <1>5, <1>6, <1>7, RowsKept

\* An answer: the request is the same, and "stale" means over.
LEMMA AnswerStep ==
  ASSUME IInv, TypeOK', NEW c \in Calls, call[c].pc \in {"precheck", "process"},
         UNCHANGED rowVars, UNCHANGED <<worker, alerted>>,
         \/ call' = [call EXCEPT ![c].pc = "process"]
         \/ Answer(c, "error")
         \/ Answer(c, Turned(call[c])) /\ ~Current(call[c])
  PROVE  IInv'
<1> USE Types DEF TypeOK, IInv, Over, Live, rowVars
<1>1. /\ call'[c].m = call[c].m /\ call'[c].gen = call[c].gen /\ call'[c].text = call[c].text
      /\ \/ call'[c].pc = "process"
         \/ call'[c].pc = "reply" /\ call'[c].outcome = "error"
         \/ call'[c].pc = "reply" /\ call'[c].outcome = "stale" /\ ~Current(call[c])
  <2>1. CASE call' = [call EXCEPT ![c].pc = "process"]
    BY <2>1 DEF Request
  <2>2. CASE Answer(c, "error")
    BY <2>2, AnsweredRequest DEF Answer
  <2>3. CASE Answer(c, Turned(call[c])) /\ ~Current(call[c])
    <3>1. Turned(call[c]) \in {"error", "stale"}
      BY DEF Turned
    <3> QED
      BY <2>3, <3>1, AnsweredRequest DEF Answer
  <2> QED
    BY <2>1, <2>2, <2>3
<1>2. \A d \in Calls \ {c} : call'[d] = call[d]
  BY DEF Answer
<1>3. TaskInv'
  <2> SUFFICES ASSUME NEW v \in Workers, TaskFacts(worker[v]) PROVE TaskFacts(worker[v])'
    BY DEF TaskInv
  <2> QED
    BY DEF TaskFacts
<1>4. RequestInv'
  <2> SUFFICES ASSUME NEW d \in Calls, RequestFacts(call[d]) PROVE RequestFacts(call[d])'
    BY DEF RequestInv
  <2>1. CASE d = c
    BY <2>1, <1>1 DEF RequestFacts
  <2>2. CASE d # c
    BY <2>2, <1>2 DEF RequestFacts
  <2> QED
    BY <2>1, <2>2
\* A worker that waits for c holds the row in "parsing" unless its generation is over.
<1>5. ASSUME NEW v \in Workers, Waits(v, c), ~Current(call[c]) PROVE Over(call[c].m, call[c].gen)
  <2>1. worker[v].m = call[c].m /\ worker[v].gen = call[c].gen /\ worker[v].pc = "wait"
    BY <1>5 DEF WaitInv, WaitFacts, Waits
  <2>2. TaskFacts(worker[v])
    BY DEF TaskInv
  <2>3. /\ worker[v].m \in Materials /\ worker[v].gen <= gen[worker[v].m]
        /\ ~Over(worker[v].m, worker[v].gen) => status[worker[v].m] = "parsing"
    BY <2>1, <2>2 DEF TaskFacts
  <2>4. worker[v].gen \in Nat /\ gen[worker[v].m] \in Nat
    BY <2>3
  <2>5. gen[worker[v].m] = worker[v].gen => status[worker[v].m] # "parsing"
    BY <1>5, <2>1 DEF Current
  <2>6. Over(worker[v].m, worker[v].gen)
    BY <2>3, <2>4, <2>5, Behind
  <2> QED
    BY <2>1, <2>6
<1>6. WaitInv'
  <2> SUFFICES ASSUME NEW v \in Workers, NEW d \in Calls, WaitFacts(v, d), RequestFacts(call[d])
               PROVE  WaitFacts(v, d)'
    BY DEF WaitInv, RequestInv
  <2>1. CASE d = c
    BY <2>1, <1>1, <1>5 DEF WaitFacts, Waits, Current
  <2>2. CASE d # c
    BY <2>2, <1>2 DEF WaitFacts, Waits
  <2> QED
    BY <2>1, <2>2
<1>7. SoleInv'
  BY SoleKept
<1> QED
  BY <1>3, <1>4, <1>6, <1>7, RowsKept

\* The answers that write nothing: the first check, a failure, a reply nobody
\* reads.
LEMMA PrecheckStep == ASSUME IInv, NEW c \in Calls, Precheck(c), TypeOK' PROVE IInv'
BY AnswerStep DEF Precheck

\* A failing request writes nothing.
LEMMA CallFailsStep == ASSUME IInv, NEW c \in Calls, CallFails(c), TypeOK' PROVE IInv'
BY AnswerStep DEF CallFails

\* An answer nobody reads writes nothing.
LEMMA DiscardStep == ASSUME IInv, NEW c \in Calls, Discard(c), TypeOK' PROVE IInv'
<1> USE Types DEF TypeOK, IInv, Over, Live, rowVars
<1>1. /\ call'[c].pc = "idle" /\ \A v \in Workers : ~Waits(v, c)
      /\ \A d \in Calls \ {c} : call'[d] = call[d]
  BY DEF Discard, NoRequest
<1>2. UNCHANGED rowVars /\ UNCHANGED <<worker, alerted>>
  BY DEF Discard
<1>3. TaskInv'
  <2> SUFFICES ASSUME NEW v \in Workers, TaskFacts(worker[v]) PROVE TaskFacts(worker[v])'
    BY DEF TaskInv
  <2> QED
    BY <1>2 DEF TaskFacts
<1>4. RequestInv'
  <2> SUFFICES ASSUME NEW d \in Calls, RequestFacts(call[d]) PROVE RequestFacts(call[d])'
    BY DEF RequestInv
  <2>1. CASE d = c
    BY <2>1, <1>1 DEF RequestFacts
  <2>2. CASE d # c
    BY <2>2, <1>1, <1>2 DEF RequestFacts
  <2> QED
    BY <2>1, <2>2
<1>5. WaitInv'
  <2> SUFFICES ASSUME NEW v \in Workers, NEW d \in Calls, WaitFacts(v, d), RequestFacts(call[d])
               PROVE  WaitFacts(v, d)'
    BY DEF WaitInv, RequestInv
  <2>1. CASE d = c
    BY <2>1, <1>1, <1>2 DEF WaitFacts, Waits
  <2>2. CASE d # c
    BY <2>2, <1>1, <1>2 DEF WaitFacts, Waits
  <2> QED
    BY <2>1, <2>2
<1>6. SoleInv'
  BY <1>2, SoleKept
<1> QED
  BY <1>2, <1>3, <1>4, <1>5, <1>6, RowsKept

\* The final transaction writes only the generation the row still has.
LEMMA PersistStep == ASSUME IInv, NEW c \in Calls, Persist(c), TypeOK' PROVE IInv'
<1>1. CASE ~Current(call[c])
  <2>1. UNCHANGED rowVars
    BY <1>1 DEF Persist, rowVars
  <2> QED
    BY <1>1, <2>1, AnswerStep DEF Persist
<1>2. CASE Current(call[c])
  <2> USE Types DEF TypeOK, IInv, Over, Live
  <2> DEFINE r == call[c]
             text == Processed(r.m, r.text)
  <2>1. /\ r.pc = "process" /\ r.m \in Materials
        /\ gen[r.m] = r.gen /\ status[r.m] = "parsing"
        /\ r.m \notin FileMaterials => r.text.edit = written[r.m]
    BY <1>2 DEF Persist, Current, RequestInv, RequestFacts
  <2>2. text.edit = IF r.m \in FileMaterials THEN 0 ELSE r.text.edit
    <3>1. r.text \in Text
      BY DEF Request
    <3> QED
      BY <3>1 DEF Processed, Text
  <2>3. /\ chunks' = [chunks EXCEPT ![r.m] = [gen |-> r.gen, text |-> text]]
        /\ content' = [content EXCEPT ![r.m] = text]
        /\ UNCHANGED <<status, gen, written, worker, alerted>>
    BY <1>2 DEF Persist
  <2>4. /\ call'[c].pc = "reply" /\ call'[c].outcome = "done"
        /\ call'[c].m = r.m /\ call'[c].gen = r.gen /\ call'[c].text = r.text
        /\ \A d \in Calls \ {c} : call'[d] = call[d]
    BY <1>2, AnsweredRequest DEF Persist, Answer
  <2> HIDE DEF text
  <2>5. /\ chunks'[r.m].gen = gen[r.m] /\ chunks'[r.m].text = text /\ content'[r.m] = text
        /\ \A m \in Materials \ {r.m} : chunks'[m] = chunks[m] /\ content'[m] = content[m]
    BY <2>1, <2>3
  <2>6. RowInv'
    <3> SUFFICES ASSUME NEW m \in Materials
                 PROVE  /\ status'[m] \in Live => gen'[m] > 0
                        /\ status'[m] = "none" => gen'[m] = 0
                        /\ chunks'[m].gen <= gen'[m]
                        /\ chunks'[m].gen = gen'[m] /\ gen'[m] > 0 => chunks'[m].text = content'[m]
                        /\ status'[m] = "done" => chunks'[m].gen = gen'[m]
                        /\ m \notin FileMaterials => content'[m].edit = written'[m]
      BY DEF RowInv
    <3>1. CASE m = r.m
      BY <3>1, <2>1, <2>2, <2>3, <2>5 DEF RowInv
    <3>2. CASE m # r.m
      BY <3>2, <2>3, <2>5 DEF RowInv
    <3> QED
      BY <3>1, <3>2
  <2>7. \A m \in Materials : chunks[m].gen = gen[m] => chunks'[m].gen = gen[m]
    BY <2>1, <2>5
  <2>8. TaskInv'
    <3> SUFFICES ASSUME NEW v \in Workers, TaskFacts(worker[v]) PROVE TaskFacts(worker[v])'
      BY DEF TaskInv
    <3> QED
      BY <2>3, <2>7 DEF TaskFacts
  <2>9. RequestInv'
    <3> SUFFICES ASSUME NEW d \in Calls, RequestFacts(call[d]) PROVE RequestFacts(call[d])'
      BY DEF RequestInv
    <3>1. CASE d = c
      BY <3>1, <2>1, <2>3, <2>4, <2>5 DEF RequestFacts
    <3>2. CASE d # c
      BY <3>2, <2>3, <2>4, <2>7 DEF RequestFacts
    <3> QED
      BY <3>1, <3>2
  <2>10. WaitInv'
    <3> SUFFICES ASSUME NEW v \in Workers, NEW d \in Calls, WaitFacts(v, d) PROVE WaitFacts(v, d)'
      BY DEF WaitInv
    <3>1. CASE d = c
      BY <3>1, <2>3, <2>4 DEF WaitFacts, Waits
    <3>2. CASE d # c
      BY <3>2, <2>3, <2>4 DEF WaitFacts, Waits
    <3> QED
      BY <3>1, <3>2
  <2>11. SoleInv'
    BY <2>3, SoleKept
  <2>12. AlertInv'
    BY <2>3 DEF AlertInv, AlertFacts
  <2> QED
    BY <2>6, <2>8, <2>9, <2>10, <2>11, <2>12
<1> QED
  BY <1>1, <1>2

\* What changes neither rows, workers, requests nor alerts keeps the invariant.
LEMMA IdleStep ==
  ASSUME IInv, UNCHANGED rowVars, UNCHANGED <<worker, call, alerted>>, TypeOK'
  PROVE  IInv'
BY DEF IInv, TypeOK, RowInv, TaskInv, TaskFacts, RequestInv, RequestFacts, WaitInv, WaitFacts,
   Waits, SoleInv, AlertInv, AlertFacts, Over, rowVars

\* The invariant holds before the first material is created.
LEMMA InitInv == Init => IInv
BY InitType DEF Init, IInv, RowInv, TaskInv, RequestInv, WaitInv, SoleInv, AlertInv,
   TaskFacts, RequestFacts, WaitFacts, Waits, NoTask, NoRequest, NoChunks, Live

\* Every step of the pipeline keeps the invariant.
LEMMA NextInv == IInv /\ [Next]_vars => IInv'
<1> SUFFICES ASSUME IInv, [Next]_vars PROVE IInv'
  OBVIOUS
<1>1. TypeOK'
  BY NextType DEF IInv
<1>2. CASE UserNext
  BY <1>1, <1>2, CreateStep, UpdateStep, RetryParseStep, DeleteStep DEF UserNext
<1>3. CASE ClaimNext
  <2>1. ASSUME NEW m \in Materials, NEW o \in Owners, ClaimRefused(m, o) PROVE IInv'
    BY <1>1, <2>1, IdleStep DEF ClaimRefused
  <2> QED
    BY <1>1, <1>3, <2>1, ClaimStep, ClaimLostStep DEF ClaimNext
<1>4. CASE WorkerNext
  BY <1>1, <1>4, SendStep, ReplyStep, TimeoutStep, FinishStep, FinishLostStep, AlertStep
     DEF WorkerNext
<1>5. CASE AgentNext
  BY <1>1, <1>5, PrecheckStep, PersistStep, CallFailsStep, DiscardStep, AgentCrashStep
     DEF AgentNext
<1>6. CASE BackendNext
  <2>1. CASE Dispatch
    BY <1>1, <2>1, IdleStep DEF Dispatch
  <2> QED
    BY <1>1, <1>6, <2>1, DownStep, StartStep DEF BackendNext
<1>7. CASE UNCHANGED vars
  BY <1>1, <1>7, IdleStep DEF vars, rowVars
<1> QED
  BY <1>2, <1>3, <1>4, <1>5, <1>6, <1>7 DEF Next

\* The inductive invariant: no task or request is ahead of its row, and one that
\* is level with its row belongs to the only worker of that generation.
THEOREM Invariant == Spec => []IInv
BY InitInv, NextInv, PTL DEF Spec

-----------------------------------------------------------------------------
\* A material shown as done has the chunks of its present generation, cut from
\* the content it shows: Finish finds the row only if no edit, retry, restart
\* or delete came in between.
THEOREM DoneIsIndexed == Spec => []DoneMeansIndexed
<1>1. IInv => DoneMeansIndexed
  BY DEF IInv, RowInv, DoneMeansIndexed, Published, Live
<1> QED
  BY <1>1, Invariant, PTL

\* No request that parses an earlier text writes it over a later edit.
THEOREM EditsSurvive == Spec => []EditNeverLost
<1>1. IInv => EditNeverLost
  BY DEF IInv, RowInv, EditNeverLost
<1> QED
  BY <1>1, Invariant, PTL

\* A generation of a material is worked on by one goroutine at most, however
\* many the dispatcher and the requests have started for it.
THEOREM WorkersAreSole == Spec => []OneWorkerPerGeneration
<1>1. IInv => OneWorkerPerGeneration
  BY DEF IInv, SoleInv, OneWorkerPerGeneration, Busy
<1> QED
  BY <1>1, Invariant, PTL

\* Taking a "stale" answer for a success is harmless: the row is not the
\* worker's any more when the answer arrives.
THEOREM StaleIsHarmless == Spec => []StaleAnswerIsSuperseded
<1>1. IInv => StaleAnswerIsSuperseded
  <2> SUFFICES ASSUME IInv, NEW w \in Workers, NEW c \in Calls, Waits(w, c),
                      call[c].pc = "reply", call[c].outcome = "stale", Owns(worker[w])
               PROVE  FALSE
    BY DEF StaleAnswerIsSuperseded
  <2>1. Over(worker[w].m, worker[w].gen)
    BY DEF IInv, WaitInv, WaitFacts
  <2>2. worker[w].m \in Materials
    BY DEF IInv, TaskInv, TaskFacts, Waits
  <2>3. gen[worker[w].m] = worker[w].gen /\ worker[w].gen \in Nat
    BY Types DEF Owns, IInv
  <2> QED
    BY <2>1, <2>3 DEF Over, Owns
<1> QED
  BY <1>1, Invariant, PTL

\* A generation reported as a dead letter never runs again.
THEOREM AlertsAreFinal == Spec => []AlertedGenerationIsDead
<1>1. IInv => AlertedGenerationIsDead
  <2> SUFFICES ASSUME IInv, NEW m \in Materials, <<m, gen[m]>> \in alerted
               PROVE  status[m] \in {"failed", "deleted"}
    BY DEF AlertedGenerationIsDead
  <2>1. AlertFacts(m, gen[m])
    BY DEF IInv, AlertInv
  <2> QED
    BY <2>1, Types DEF AlertFacts, Over, IInv
<1> QED
  BY <1>1, Invariant, PTL
-----------------------------------------------------------------------------
(* Action properties: what the steps do to the rows and the chunks.         *)

\* The chunks of a material are never replaced by those of an older generation,
\* whichever of two late requests commits last.
THEOREM IndexAdvances == Spec => IndexNeverGoesBack
<1> DEFINE A == \A m \in Materials : status'[m] # "deleted" => chunks'[m].gen >= chunks[m].gen
<1>1. IInv /\ [Next]_vars => [A]_vars
  <2> SUFFICES ASSUME IInv, Next PROVE A
    BY DEF vars
  <2> SUFFICES ASSUME NEW m \in Materials, status'[m] # "deleted"
               PROVE  chunks'[m].gen >= chunks[m].gen
    OBVIOUS
  <2>1. chunks[m].gen \in Nat /\ gen[m] \in Nat /\ chunks[m].gen <= gen[m]
    BY Types DEF IInv, RowInv
  <2>2. CASE chunks'[m] = chunks[m]
    BY <2>1, <2>2
  <2>3. ASSUME NEW k \in Materials, Delete(k) PROVE chunks'[m] = chunks[m]
    BY <2>3 DEF Delete, IInv, TypeOK
  <2>4. ASSUME NEW c \in Calls, Persist(c)
        PROVE  chunks'[m] = chunks[m] \/ chunks'[m].gen = gen[m]
    BY <2>4 DEF Persist, Current, IInv, TypeOK
  <2>5. \/ chunks' = chunks
        \/ \E k \in Materials : Delete(k)
        \/ \E c \in Calls : Persist(c)
    BY DEF Next, UserNext, ClaimNext, WorkerNext, AgentNext, BackendNext, Create, Update,
       RetryParse, Claim, ClaimRefused, ClaimLost, Send, Reply, Timeout, Finish, FinishLost,
       Alert, Precheck, CallFails, Discard, AgentCrash, Dispatch, Crash, Stop, Exit, Start,
       rowVars
  <2> QED
    BY <2>1, <2>2, <2>3, <2>4, <2>5
<1> QED
  BY <1>1, Invariant, PTL DEF Spec, IndexNeverGoesBack

\* The initial states of the pipeline are those of the life cycle.
LEMMA InitRefines == Init => Lifecycle!Init
BY DEF Init, Lifecycle!Init, NoChunks, Lifecycle!NoChunks, Lifecycle!NoText

\* Every step of the pipeline is a step of the life cycle or changes neither
\* rows nor chunks.
LEMMA StepRefines ==
  ASSUME IInv, TypeOK', Next
  PROVE  Lifecycle!Next \/ UNCHANGED Lifecycle!lifecycleVars
<1> USE Types DEF IInv, TypeOK, Live, Lifecycle!Live, Lifecycle!lifecycleVars
<1>1. ASSUME NEW m \in Materials, Create(m) PROVE Lifecycle!Submit(m)
  BY <1>1 DEF Create, Lifecycle!Submit
<1>2. ASSUME NEW m \in Materials, Update(m) PROVE Lifecycle!Edit(m)
  <2>1. Lifecycle!Requeue({m})
    BY <1>2 DEF Update, Lifecycle!Requeue
  <2>2. Lifecycle!Rewrite(m)
    BY <1>2 DEF Update, Lifecycle!Rewrite, Text, Lifecycle!Text
  <2> QED
    BY <1>2, <2>1, <2>2 DEF Update, Lifecycle!Edit
<1>3. ASSUME NEW m \in Materials, RetryParse(m) PROVE Lifecycle!TryAgain({m})
  BY <1>3 DEF RetryParse, Lifecycle!TryAgain, Lifecycle!Requeue
<1>4. ASSUME NEW m \in Materials, Delete(m) PROVE Lifecycle!Remove(m)
  BY <1>4 DEF Delete, Lifecycle!Remove, NoChunks, Lifecycle!NoChunks, Lifecycle!NoText
<1>5. ASSUME NEW m \in Materials, NEW o \in Owners, NEW w \in Workers, Claim(m, o, w)
      PROVE  Lifecycle!Begin(m)
  BY <1>5 DEF Claim, Lifecycle!Begin
<1>6. ASSUME NEW m \in Materials, NEW o \in Owners, ClaimLost(m, o)
      PROVE  Lifecycle!Begin(m) \/ UNCHANGED Lifecycle!lifecycleVars
  BY <1>6 DEF ClaimLost, Lifecycle!Begin
\* The finish of a worker whose generation is over matches no row; otherwise
\* the invariant has the chunks in place before a row turns done.
<1>7. ASSUME NEW w \in Workers, Finish(w) \/ FinishLost(w)
      PROVE  \/ \E m \in Materials : Lifecycle!Complete(m) \/ Lifecycle!GiveUp(m)
             \/ UNCHANGED Lifecycle!lifecycleVars
  <2> DEFINE t == worker[w]
  <2>1. /\ t.pc = "finish"
        /\ \/ status' = status
           \/ Owns(t) /\ status' = [status EXCEPT ![t.m] = t.verdict]
        /\ UNCHANGED <<gen, content, chunks>>
    BY <1>7 DEF Finish, FinishLost
  <2>2. CASE status' = status
    BY <2>1, <2>2
  <2>3. CASE Owns(t) /\ status' = [status EXCEPT ![t.m] = t.verdict]
    <3>1. t.m \in Materials /\ status[t.m] = "parsing" /\ gen[t.m] > 0
      BY <2>1, <2>3 DEF TaskInv, TaskFacts, Owns
    <3>2. t.verdict \in {"done", "failed"}
      OBVIOUS
    <3>3. CASE t.verdict = "failed"
      BY <2>1, <2>3, <3>1, <3>3 DEF Lifecycle!GiveUp
    <3>4. CASE t.verdict = "done"
      <4>1. chunks[t.m].gen = gen[t.m]
        BY <2>1, <2>3, <3>1, <3>4 DEF TaskInv, TaskFacts, Over, Owns
      <4>2. chunks[t.m].text = content[t.m]
        BY <3>1, <4>1 DEF RowInv
      <4>3. chunks[t.m] = [gen |-> gen[t.m], text |-> content[t.m]]
        <5>1. chunks[t.m] \in [gen: Nat, text: Text]
          BY <3>1
        <5> QED
          BY <4>1, <4>2, <5>1
      <4> QED
        BY <2>1, <2>3, <3>1, <3>4, <4>3 DEF Lifecycle!Complete
    <3> QED
      BY <3>2, <3>3, <3>4
  <2> QED
    BY <2>1, <2>2, <2>3
<1>8. ASSUME NEW c \in Calls, Persist(c)
      PROVE  (\E m \in Materials : Lifecycle!Publish(m)) \/ UNCHANGED Lifecycle!lifecycleVars
  <2> DEFINE r == call[c]
             text == Processed(r.m, r.text)
  <2>1. CASE ~Current(r)
    BY <1>8, <2>1 DEF Persist
  <2>2. CASE Current(r)
    <3>1. r.m \in Materials /\ gen[r.m] = r.gen /\ status[r.m] = "parsing"
      BY <1>8, <2>2 DEF Persist, RequestInv, RequestFacts, Current
    <3>2. /\ chunks' = [chunks EXCEPT ![r.m] = [gen |-> r.gen, text |-> text]]
          /\ content' = [content EXCEPT ![r.m] = text]
          /\ UNCHANGED <<status, gen>>
      BY <1>8, <2>2 DEF Persist
    <3> HIDE DEF text
    <3>3. content'[r.m] = text /\ content'[r.m] \in Lifecycle!Text
      BY <3>1, <3>2 DEF Text, Lifecycle!Text
    <3> QED
      BY <3>1, <3>2, <3>3 DEF Lifecycle!Publish, Lifecycle!Rewrite
  <2> QED
    BY <2>1, <2>2
<1>9. ASSUME Start PROVE Lifecycle!TryAgain({m \in Materials : status[m] = "parsing"})
  BY <1>9 DEF Start, Lifecycle!TryAgain, Lifecycle!Requeue
<1>10. \/ UNCHANGED Lifecycle!lifecycleVars
       \/ UserNext \/ Start
       \/ \E m \in Materials, o \in Owners : (\E w \in Workers : Claim(m, o, w)) \/ ClaimLost(m, o)
       \/ \E w \in Workers : Finish(w) \/ FinishLost(w)
       \/ \E c \in Calls : Persist(c)
  BY DEF Next, ClaimNext, WorkerNext, AgentNext, BackendNext, ClaimRefused, Send, Reply,
     Timeout, Alert, Precheck, CallFails, Discard, AgentCrash, Dispatch, Crash, Stop, Exit,
     rowVars
<1>11. CASE UserNext
  <2>1. PICK m \in Materials : Create(m) \/ Update(m) \/ RetryParse(m) \/ Delete(m)
    BY <1>11 DEF UserNext
  <2>2. {m} \in SUBSET Materials
    OBVIOUS
  <2>3. Lifecycle!Submit(m) \/ Lifecycle!Edit(m) \/ Lifecycle!Remove(m) \/ Lifecycle!TryAgain({m})
    BY <2>1, <1>1, <1>2, <1>3, <1>4
  <2> QED
    BY <2>2, <2>3, Zenon DEF Lifecycle!Next
<1>12. CASE Start
  <2>1. {m \in Materials : status[m] = "parsing"} \in SUBSET Materials
    OBVIOUS
  <2> QED
    BY <1>12, <1>9, <2>1, Zenon DEF Lifecycle!Next
<1>13. ASSUME NEW m \in Materials, NEW o \in Owners,
              (\E w \in Workers : Claim(m, o, w)) \/ ClaimLost(m, o)
       PROVE  Lifecycle!Next \/ UNCHANGED Lifecycle!lifecycleVars
  BY <1>13, <1>5, <1>6, Zenon DEF Lifecycle!Next
<1>14. ASSUME NEW w \in Workers, Finish(w) \/ FinishLost(w)
       PROVE  Lifecycle!Next \/ UNCHANGED Lifecycle!lifecycleVars
  BY <1>14, <1>7, Zenon DEF Lifecycle!Next
<1>15. ASSUME NEW c \in Calls, Persist(c)
       PROVE  Lifecycle!Next \/ UNCHANGED Lifecycle!lifecycleVars
  BY <1>15, <1>8, Zenon DEF Lifecycle!Next
<1> QED
  BY <1>10, <1>11, <1>12, <1>13, <1>14, <1>15

\* Seen from the rows and the chunks alone, the pipeline is the life cycle that
\* the API documents (ImplementsLifecycle).
THEOREM Refinement == Spec => ImplementsLifecycle
<1>1. IInv /\ IInv' /\ [Next]_vars => [Lifecycle!Next]_(Lifecycle!lifecycleVars)
  BY StepRefines DEF vars, Lifecycle!lifecycleVars, IInv
<1> QED
  BY <1>1, InitRefines, Invariant, PTL DEF Spec, ImplementsLifecycle, Lifecycle!Spec
-----------------------------------------------------------------------------
(* Rows in "parsing".  What EverySettles needs of the safe part: the work of *)
(* such a row is in somebody's hands.                                        *)

Works(w, m) == Busy(w) /\ worker[w].m = m /\ worker[w].gen = gen[m]

RowsAreHeld ==
  backend = "up" =>
    \A m \in Materials : status[m] = "parsing" => \E w \in Workers : Works(w, m)

\* Whoever works on a row that stays in "parsing" goes on doing so.
LEMMA HeldKept ==
  ASSUME RowsAreHeld, backend' = "up" => backend = "up",
         \A m \in Materials : status'[m] = "parsing" => status[m] = "parsing",
         \A m \in Materials, w \in Workers :
           status'[m] = "parsing" /\ Works(w, m) => Works(w, m)'
  PROVE  RowsAreHeld'
BY DEF RowsAreHeld

\* A step that touches neither the rows' status nor the workers.
LEMMA HeldIdle ==
  ASSUME RowsAreHeld, UNCHANGED <<status, gen, worker, backend>>
  PROVE  RowsAreHeld'
BY DEF RowsAreHeld, Works, Busy

LEMMA HeldUser == ASSUME IInv, RowsAreHeld, UserNext PROVE RowsAreHeld'
<1>1. PICK m \in Materials : Create(m) \/ Update(m) \/ RetryParse(m) \/ Delete(m)
  BY DEF UserNext
<1>2. /\ UNCHANGED <<worker, backend>> /\ status'[m] # "parsing"
      /\ \A k \in Materials \ {m} : status'[k] = status[k] /\ gen'[k] = gen[k]
  BY <1>1 DEF Create, Update, RetryParse, Delete, IInv, TypeOK
<1>3. \A k \in Materials, w \in Workers : status'[k] = "parsing" /\ Works(w, k) => Works(w, k)'
  BY <1>2 DEF Works, Busy
<1> QED
  BY <1>2, <1>3, HeldKept

\* The claim takes the row and is the only step that leads to "parsing".
LEMMA HeldClaim == ASSUME ~DbFaults, IInv, RowsAreHeld, ClaimNext PROVE RowsAreHeld'
<1>1. PICK m \in Materials, o \in Owners :
        (\E w \in Workers : Claim(m, o, w)) \/ ClaimRefused(m, o)
  BY DEF ClaimNext, ClaimLost
<1>2. ASSUME NEW w \in Workers, Claim(m, o, w) PROVE RowsAreHeld'
  <2>1. /\ UNCHANGED <<gen, backend>> /\ worker'[w] = Claimed(m, o) /\ ~Busy(w)
        /\ \A k \in Materials \ {m} : status'[k] = status[k]
        /\ \A v \in Workers \ {w} : worker'[v] = worker[v]
    BY <1>2 DEF Claim, Busy, IInv, TypeOK
  <2>2. Works(w, m)'
    BY <2>1 DEF Works, Busy, Claimed
  <2>3. \A k \in Materials, v \in Workers : Works(v, k) => Works(v, k)'
    BY <2>1 DEF Works, Busy
  <2> QED
    BY <2>1, <2>2, <2>3 DEF RowsAreHeld
<1> QED
  BY <1>1, <1>2, HeldIdle DEF ClaimRefused, rowVars

\* A worker lets a row go only with the end of its parse.
LEMMA HeldWorker == ASSUME ~DbFaults, IInv, RowsAreHeld, WorkerNext PROVE RowsAreHeld'
<1>1. PICK w \in Workers :
        (\E c \in Calls : Send(w, c) \/ Reply(w, c)) \/ Timeout(w) \/ Finish(w) \/ Alert(w)
  BY DEF WorkerNext, FinishLost
<1>2. worker \in [Workers -> Task] /\ worker[w] \in Task
  BY DEF IInv, TypeOK
<1>3. ASSUME UNCHANGED <<status, gen, backend>>,
             \A v \in Workers \ {w} : worker'[v] = worker[v],
             Busy(w) => /\ worker'[w].pc \in {"send", "wait", "finish"}
                        /\ worker'[w].m = worker[w].m /\ worker'[w].gen = worker[w].gen
      PROVE  RowsAreHeld'
  <2>1. \A m \in Materials, v \in Workers : Works(v, m) => Works(v, m)'
    BY <1>3 DEF Works, Busy
  <2> QED
    BY <1>3, <2>1, HeldKept
<1>4. ASSUME NEW c \in Calls, Send(w, c) PROVE RowsAreHeld'
  <2>1. /\ worker'[w].pc = "wait" /\ worker'[w].m = worker[w].m /\ worker'[w].gen = worker[w].gen
        /\ UNCHANGED <<status, gen, backend>> /\ \A v \in Workers \ {w} : worker'[v] = worker[v]
    BY <1>2, <1>4 DEF Send, Task, rowVars
  <2> QED
    BY <1>3, <2>1
<1>5. ASSUME (\E c \in Calls : Reply(w, c)) \/ Timeout(w) PROVE RowsAreHeld'
  <2>1. /\ worker'[w] \in {Failed(worker[w]), Succeeded(worker[w])}
        /\ UNCHANGED <<status, gen, backend>> /\ \A v \in Workers \ {w} : worker'[v] = worker[v]
    BY <1>2, <1>5 DEF Reply, Timeout, rowVars
  <2>2. /\ worker'[w].pc \in {"send", "wait", "finish"}
        /\ worker'[w].m = worker[w].m /\ worker'[w].gen = worker[w].gen
    BY <1>2, <2>1, FailedTask, SucceededTask
  <2> QED
    BY <1>3, <2>1, <2>2
<1>6. ASSUME Finish(w) PROVE RowsAreHeld'
  <2>1. /\ UNCHANGED <<gen, backend>> /\ \A v \in Workers \ {w} : worker'[v] = worker[v]
        /\ status' = IF Owns(worker[w]) THEN [status EXCEPT ![worker[w].m] = worker[w].verdict]
                                       ELSE status
        /\ worker[w].pc # "idle" /\ worker[w].verdict # "parsing"
    BY <1>2, <1>6 DEF Finish, Task
  <2>2. worker[w].m \in Materials
    BY <2>1 DEF IInv, TaskInv, TaskFacts
  <2>3. \A m \in Materials : status'[m] = "parsing" =>
          status[m] = "parsing" /\ ~(worker[w].m = m /\ worker[w].gen = gen[m])
    BY <2>1, <2>2 DEF Owns, IInv, TypeOK
  <2>4. \A m \in Materials, v \in Workers : status'[m] = "parsing" /\ Works(v, m) => Works(v, m)'
    BY <2>1, <2>3 DEF Works, Busy
  <2> QED
    BY <2>1, <2>3, <2>4, HeldKept
<1>7. ASSUME Alert(w) PROVE RowsAreHeld'
  <2>1. /\ ~Busy(w) /\ UNCHANGED <<status, gen, backend>>
        /\ \A v \in Workers \ {w} : worker'[v] = worker[v]
    BY <1>2, <1>7 DEF Alert, Busy, rowVars
  <2> QED
    BY <1>3, <2>1
<1> QED
  BY <1>1, <1>4, <1>5, <1>6, <1>7

LEMMA HeldAgent == ASSUME IInv, RowsAreHeld, AgentNext PROVE RowsAreHeld'
<1>1. CASE AgentCrash
  <2>1. /\ UNCHANGED <<status, gen, backend>>
        /\ \A w \in Workers : worker'[w] \in {worker[w], Failed(worker[w])}
    BY <1>1 DEF AgentCrash, rowVars
  <2>2. \A w \in Workers : Busy(w) => /\ worker'[w].pc \in {"send", "wait", "finish"}
                                     /\ worker'[w].m = worker[w].m
                                     /\ worker'[w].gen = worker[w].gen
    BY <2>1, FailedTask DEF Busy, IInv, TypeOK
  <2>3. \A m \in Materials, w \in Workers : Works(w, m) => Works(w, m)'
    BY <2>1, <2>2 DEF Works, Busy
  <2> QED
    BY <2>1, <2>3, HeldKept
<1>2. CASE ~AgentCrash
  <2>1. UNCHANGED <<status, gen, worker, backend>>
    BY <1>2 DEF AgentNext, Precheck, Persist, CallFails, Discard, rowVars
  <2> QED
    BY <2>1, HeldIdle
<1> QED
  BY <1>1, <1>2

LEMMA HeldBackend == ASSUME IInv, RowsAreHeld, BackendNext PROVE RowsAreHeld'
<1>1. CASE Dispatch
  BY <1>1, HeldIdle DEF Dispatch, rowVars
<1>2. CASE Crash \/ Stop \/ Exit
  BY <1>2 DEF Crash, Stop, Exit, RowsAreHeld
<1>3. CASE Start
  <2>1. \A m \in Materials : status'[m] # "parsing"
    BY <1>3 DEF Start
  <2> QED
    BY <2>1 DEF RowsAreHeld
<1> QED
  BY <1>1, <1>2, <1>3 DEF BackendNext

\* While the backend is up and its database answers, a row shown as parsing is
\* being worked on, in its present generation: no edit, retry, timeout or late
\* answer leaves one behind, and neither does a restart, because
\* RecoverParseTasks queues the interrupted ones before anything else.  With
\* database errors it does not hold: the finish is only logged.
THEOREM ParsingIsInHand == ASSUME ~DbFaults PROVE Spec => []RowsAreHeld
<1>1. Init => RowsAreHeld
  BY DEF Init, RowsAreHeld
<1>2. IInv /\ RowsAreHeld /\ [Next]_vars => RowsAreHeld'
  <2> SUFFICES ASSUME IInv, RowsAreHeld, [Next]_vars PROVE RowsAreHeld'
    OBVIOUS
  <2>1. CASE UNCHANGED vars
    BY <2>1, HeldIdle DEF vars
  <2> QED
    BY <2>1, HeldUser, HeldClaim, HeldWorker, HeldAgent, HeldBackend DEF Next
<1> QED
  BY <1>1, <1>2, Invariant, PTL DEF Spec
=============================================================================
