---------------------------- MODULE ParsePipeline ----------------------------
(***************************************************************************)
(* The asynchronous parse pipeline of learning_buddy: the materials table  *)
(* as a persistent task queue, the backend goroutines that claim a task    *)
(* and call the agent (service/material.go, repository/parse_tasks.go),    *)
(* the agent requests that check, process and persist a document           *)
(* (agent/rag/orchestrator.py), and the restarts, timeouts and database    *)
(* errors they meet.                                                       *)
(*                                                                         *)
(* A text is identified by the user write it descends from and by how many *)
(* times clean_markdown has been applied to it; chunks are identified by   *)
(* the generation that wrote them and the text they were cut from.         *)
(***************************************************************************)
EXTENDS Naturals, FiniteSets

CONSTANTS
  N,              \* materials have the ids 1..N (a serial primary key)
  FileMaterials,  \* the docx/pdf ones: the parser reads the uploaded file
  Workers,        \* slots for goroutines past ClaimParseTask
  Calls,          \* slots for /parse requests alive in the agent
  NoCall,         \* "waits for no request"
  MaxAttempts,    \* parsePolicy.maxAttempts
  BatchSize,      \* parsePolicy.batchSize
  MaxGen,         \* bound: user operations bump a generation up to this
  MaxCrashes,     \* bound: number of times the backend goes down
  AgentFaults,    \* may the agent fail, crash or time out?
  DbFaults        \* may a claim or a finish end in a database error?

Materials == 1..N

ASSUME SizesAssumption ==
  /\ N \in Nat /\ MaxAttempts \in Nat \ {0} /\ BatchSize \in Nat \ {0}
  /\ MaxGen \in Nat \ {0} /\ MaxCrashes \in Nat
  /\ FileMaterials \subseteq Materials
  /\ NoCall \notin Calls
  /\ AgentFaults \in BOOLEAN /\ DbFaults \in BOOLEAN

VARIABLES
  status,    \* materials.parse_status, with "none" and "deleted" for no row
  gen,       \* materials.parse_generation
  content,   \* materials.content
  chunks,    \* the rag-v2 rows of material_chunks (replaced as a whole)
  written,   \* history: the generation of the last text a user wrote
  spawned,   \* goroutines that have not yet reached ClaimParseTask
  worker,    \* goroutines that hold a claimed task
  call,      \* requests in the agent
  backend,   \* the backend process
  crashes,   \* how often it went down so far
  alerted    \* (material, generation) pairs an alert was sent for

rowVars == <<status, gen, content, chunks, written>>
vars == <<status, gen, content, chunks, written, spawned, worker, call,
          backend, crashes, alerted>>

Live   == {"pending", "parsing", "done", "failed"}
Owners == {"request", "dispatcher"}
Text   == [edit: Nat, passes: Nat]
NoChunks == [gen |-> 0, text |-> [edit |-> 0, passes |-> 0]]

\* ClaimedParseTask plus where the goroutine stands in triggerParse.
NoTask == [pc |-> "idle", m |-> 0, gen |-> 0,
           text |-> [edit |-> 0, passes |-> 0], attempt |-> 0,
           call |-> NoCall, verdict |-> "failed", owner |-> "request"]
Task == [pc: {"idle", "send", "wait", "finish", "alert"}, m: 0..N, gen: Nat,
         text: Text, attempt: Nat, call: Calls \cup {NoCall},
         verdict: {"done", "failed"}, owner: Owners]

NoRequest == [pc |-> "idle", m |-> 0, gen |-> 0,
              text |-> [edit |-> 0, passes |-> 0], outcome |-> "error"]
Request == [pc: {"idle", "precheck", "process", "reply"}, m: 0..N, gen: Nat,
            text: Text, outcome: {"done", "stale", "error"}]

TypeOK ==
  /\ status  \in [Materials -> Live \cup {"none", "deleted"}]
  /\ gen     \in [Materials -> Nat]
  /\ content \in [Materials -> Text]
  /\ chunks  \in [Materials -> [gen: Nat, text: Text]]
  /\ written \in [Materials -> Nat]
  /\ spawned \subseteq Materials \X Owners
  /\ worker  \in [Workers -> Task]
  /\ call    \in [Calls -> Request]
  /\ backend \in {"up", "stopping", "down"}
  /\ crashes \in 0..MaxCrashes
  /\ alerted \subseteq (0..N) \X Nat

Init ==
  /\ status  = [m \in Materials |-> "none"]
  /\ gen     = [m \in Materials |-> 0]
  /\ content = [m \in Materials |-> [edit |-> 0, passes |-> 0]]
  /\ chunks  = [m \in Materials |-> NoChunks]
  /\ written = [m \in Materials |-> 0]
  /\ spawned = {}
  /\ worker  = [w \in Workers |-> NoTask]
  /\ call    = [c \in Calls |-> NoRequest]
  /\ backend = "up"
  /\ crashes = 0
  /\ alerted = {}

-----------------------------------------------------------------------------
(* User operations.  Each commits one transaction and starts a goroutine    *)
(* whose context outlives the request (context.WithoutCancel).  A request   *)
(* still in flight while the server stops commutes with the signal, so      *)
(* these need the backend up.                                               *)

Spawn(m, owner) == spawned' = spawned \cup {<<m, owner>>}

\* Create / CreateWithFile: a pending row of generation 1.
Create(m) ==
  /\ backend = "up" /\ status[m] = "none"
  /\ status' = [status EXCEPT ![m] = "pending"]
  /\ gen'    = [gen EXCEPT ![m] = 1]
  /\ Spawn(m, "request")
  /\ UNCHANGED <<content, chunks, written, worker, call, backend, crashes, alerted>>

\* (mutant of Update) the edit queues the row again under the old generation.
UpdateInPlace(m) ==
  /\ backend = "up" /\ status[m] \in Live /\ gen[m] < MaxGen
  /\ status'  = [status EXCEPT ![m] = "pending"]
  /\ content' = [content EXCEPT ![m] = [edit |-> gen[m] + 1, passes |-> 0]]
  /\ written' = [written EXCEPT ![m] = gen[m] + 1]
  /\ Spawn(m, "request")
  /\ UNCHANGED <<gen, chunks, worker, call, backend, crashes, alerted>>

\* UpdateMaterial with a text that differs from the stored one.
Update(m) ==
  /\ backend = "up" /\ status[m] \in Live /\ gen[m] < MaxGen
  /\ status'  = [status EXCEPT ![m] = "pending"]
  /\ gen'     = [gen EXCEPT ![m] = @ + 1]
  /\ content' = [content EXCEPT ![m] = [edit |-> gen[m] + 1, passes |-> 0]]
  /\ written' = [written EXCEPT ![m] = gen[m] + 1]
  /\ Spawn(m, "request")
  /\ UNCHANGED <<chunks, worker, call, backend, crashes, alerted>>

\* (mutant of RetryParse) the failed row is queued under its old generation.
RetryInPlace(m) ==
  /\ backend = "up" /\ status[m] = "failed"
  /\ status' = [status EXCEPT ![m] = "pending"]
  /\ Spawn(m, "request")
  /\ UNCHANGED <<gen, content, chunks, written, worker, call, backend, crashes, alerted>>

\* RetryParse / RequeueFailedParse: only a failed task is queued again.
RetryParse(m) ==
  /\ backend = "up" /\ status[m] = "failed" /\ gen[m] < MaxGen
  /\ status' = [status EXCEPT ![m] = "pending"]
  /\ gen'    = [gen EXCEPT ![m] = @ + 1]
  /\ Spawn(m, "request")
  /\ UNCHANGED <<content, chunks, written, worker, call, backend, crashes, alerted>>

\* Delete: the row goes and its chunks with it (ON DELETE CASCADE).
Delete(m) ==
  /\ backend = "up" /\ status[m] \in Live
  /\ status' = [status EXCEPT ![m] = "deleted"]
  /\ chunks' = [chunks EXCEPT ![m] = NoChunks]
  /\ UNCHANGED <<gen, content, written, spawned, worker, call, backend, crashes, alerted>>

-----------------------------------------------------------------------------
(* The dispatcher and the claim.                                            *)

\* ListPendingParses: the BatchSize pending rows with the lowest ids.
FirstPending(st) ==
  LET pending == {m \in Materials : st[m] = "pending"}
  IN  {m \in pending : Cardinality({k \in pending : k < m}) < BatchSize}

\* One tick of RunParseDispatcher.
Dispatch ==
  /\ backend = "up"
  /\ spawned' = spawned \cup (FirstPending(status) \X {"dispatcher"})
  /\ UNCHANGED <<rowVars, worker, call, backend, crashes, alerted>>

\* What the claim returns: the row of its own UPDATE.
Claimed(m, owner) ==
  [pc |-> "send", m |-> m, gen |-> gen[m], text |-> content[m], attempt |-> 1,
   call |-> NoCall, verdict |-> "failed", owner |-> owner]

\* (mutant of Claim) the row is updated without asking whether it is pending.
ClaimUnconditional(m, owner, w) ==
  /\ <<m, owner>> \in spawned /\ status[m] \in Live /\ worker[w].pc = "idle"
  /\ status' = [status EXCEPT ![m] = "parsing"]
  /\ spawned' = spawned \ {<<m, owner>>}
  /\ worker' = [worker EXCEPT ![w] = Claimed(m, owner)]
  /\ UNCHANGED <<gen, content, chunks, written, call, backend, crashes, alerted>>

\* ClaimParseTask wins: pending -> parsing, returning the row it updated.
Claim(m, owner, w) ==
  /\ <<m, owner>> \in spawned /\ status[m] = "pending" /\ worker[w].pc = "idle"
  /\ status' = [status EXCEPT ![m] = "parsing"]
  /\ spawned' = spawned \ {<<m, owner>>}
  /\ worker' = [worker EXCEPT ![w] = Claimed(m, owner)]
  /\ UNCHANGED <<gen, content, chunks, written, call, backend, crashes, alerted>>

\* ClaimParseTask matches no row: the goroutine returns.
ClaimRefused(m, owner) ==
  /\ <<m, owner>> \in spawned /\ status[m] # "pending"
  /\ spawned' = spawned \ {<<m, owner>>}
  /\ UNCHANGED <<rowVars, worker, call, backend, crashes, alerted>>

\* The claim ends in an error, before or after the database committed it:
\* the goroutine returns either way.
ClaimLost(m, owner) ==
  /\ DbFaults
  /\ <<m, owner>> \in spawned /\ status[m] = "pending"
  /\ status' \in {status, [status EXCEPT ![m] = "parsing"]}
  /\ spawned' = spawned \ {<<m, owner>>}
  /\ UNCHANGED <<gen, content, chunks, written, worker, call, backend, crashes, alerted>>

-----------------------------------------------------------------------------
(* A worker: parseWithRetry, then FinishParseTask, then the alert.          *)

\* An attempt returned an error: back off and try again, or give up.
Failed(t) ==
  IF t.attempt < MaxAttempts
  THEN [t EXCEPT !.pc = "send", !.attempt = t.attempt + 1, !.call = NoCall]
  ELSE [t EXCEPT !.pc = "finish", !.verdict = "failed", !.call = NoCall]

\* (mutant of Succeeded) the agent's own word becomes the parse status.
SucceededVerbatim(t) ==
  [t EXCEPT !.pc = "finish", !.verdict = call[t.call].outcome, !.call = NoCall]

\* AgentService.Parse reads the HTTP status only: a stale answer is a 200.
Succeeded(t) == [t EXCEPT !.pc = "finish", !.verdict = "done", !.call = NoCall]

Send(w, c) ==
  /\ worker[w].pc = "send" /\ call[c].pc = "idle"
  /\ worker' = [worker EXCEPT ![w].pc = "wait", ![w].call = c]
  /\ call' = [call EXCEPT ![c] =
       [pc |-> "precheck", m |-> worker[w].m, gen |-> worker[w].gen,
        text |-> worker[w].text, outcome |-> "error"]]
  /\ UNCHANGED <<rowVars, spawned, backend, crashes, alerted>>

Waits(w, c) == worker[w].pc = "wait" /\ worker[w].call = c

Reply(w, c) ==
  /\ Waits(w, c) /\ call[c].pc = "reply"
  /\ worker' = [worker EXCEPT ![w] =
       IF call[c].outcome = "error" THEN Failed(worker[w]) ELSE Succeeded(worker[w])]
  /\ call' = [call EXCEPT ![c] = NoRequest]
  /\ UNCHANGED <<rowVars, spawned, backend, crashes, alerted>>

\* The 120s attempt timeout, or a connection lost: the agent's thread runs on.
Timeout(w) ==
  /\ AgentFaults /\ worker[w].pc = "wait"
  /\ worker' = [worker EXCEPT ![w] = Failed(worker[w])]
  /\ UNCHANGED <<rowVars, spawned, call, backend, crashes, alerted>>

\* (mutant of Owns) the finish looks at the status only.
OwnsAnyGeneration(t) == status[t.m] = "parsing"

\* The row of the task is still the worker's: the WHERE of FinishParseTask.
Owns(t) == status[t.m] = "parsing" /\ gen[t.m] = t.gen

Finish(w) ==
  LET t == worker[w] IN
  /\ t.pc = "finish"
  /\ status' = IF Owns(t) THEN [status EXCEPT ![t.m] = t.verdict] ELSE status
  /\ worker' = [worker EXCEPT ![w] =
       IF Owns(t) /\ t.verdict = "failed" THEN [t EXCEPT !.pc = "alert"] ELSE NoTask]
  /\ UNCHANGED <<gen, content, chunks, written, spawned, call, backend, crashes, alerted>>

\* FinishParseTask ends in an error, before or after the commit: it is only
\* logged, and no alert is sent.
FinishLost(w) ==
  LET t == worker[w] IN
  /\ DbFaults /\ t.pc = "finish"
  /\ \/ status' = status
     \/ Owns(t) /\ status' = [status EXCEPT ![t.m] = t.verdict]
  /\ worker' = [worker EXCEPT ![w] = NoTask]
  /\ UNCHANGED <<gen, content, chunks, written, spawned, call, backend, crashes, alerted>>

\* AlertParseFailure: its own failure is logged and changes nothing.
Alert(w) ==
  /\ worker[w].pc = "alert"
  /\ alerted' = alerted \cup {<<worker[w].m, worker[w].gen>>}
  /\ worker' = [worker EXCEPT ![w] = NoTask]
  /\ UNCHANGED <<rowVars, spawned, call, backend, crashes>>

-----------------------------------------------------------------------------
(* A request in the agent: orchestrator.parse.                              *)

Answered(r, outcome) == [r EXCEPT !.pc = "reply", !.outcome = outcome]
Answer(c, outcome) == call' = [call EXCEPT ![c] = Answered(call[c], outcome)]

\* (mutant of Current) the agent compares the status only.
CurrentStatusOnly(r) == status[r.m] = "parsing"

\* The row carries the request's generation and is being parsed.
Current(r) == gen[r.m] = r.gen /\ status[r.m] = "parsing"

\* What both checks of parse answer when they do not let the request go on.
Turned(r) == IF status[r.m] = "deleted" THEN "error" ELSE "stale"

Precheck(c) ==
  /\ call[c].pc = "precheck"
  /\ IF Current(call[c]) THEN call' = [call EXCEPT ![c].pc = "process"]
                         ELSE Answer(c, Turned(call[c]))
  /\ UNCHANGED <<rowVars, spawned, worker, backend, crashes, alerted>>

\* process_document: a docx/pdf is extracted from the uploaded file whatever
\* the request carries; the text is cleaned once more.
Processed(m, text) ==
  IF m \in FileMaterials THEN [edit |-> 0, passes |-> 1]
                         ELSE [text EXCEPT !.passes = @ + 1]

\* The final transaction: lock the row, check again, replace the chunks and
\* write the cleaned text back.
Persist(c) ==
  LET r == call[c]
      text == Processed(r.m, r.text)
  IN
  /\ r.pc = "process"
  /\ IF Current(r)
     THEN /\ chunks'  = [chunks EXCEPT ![r.m] = [gen |-> r.gen, text |-> text]]
          /\ content' = [content EXCEPT ![r.m] = text]
          /\ Answer(c, "done")
     ELSE /\ UNCHANGED <<chunks, content>>
          /\ Answer(c, Turned(r))
  /\ UNCHANGED <<status, gen, written, spawned, worker, backend, crashes, alerted>>

\* An exception before the final transaction commits: a 500.
CallFails(c) ==
  /\ AgentFaults /\ call[c].pc \in {"precheck", "process"}
  /\ Answer(c, "error")
  /\ UNCHANGED <<rowVars, spawned, worker, backend, crashes, alerted>>

\* The client of a finished request has gone.
Discard(c) ==
  /\ call[c].pc = "reply" /\ \A w \in Workers : ~Waits(w, c)
  /\ call' = [call EXCEPT ![c] = NoRequest]
  /\ UNCHANGED <<rowVars, spawned, worker, backend, crashes, alerted>>

\* The agent process dies with its requests; every client sees an error.
AgentCrash ==
  /\ AgentFaults
  /\ call' = [c \in Calls |-> NoRequest]
  /\ worker' = [w \in Workers |->
       IF worker[w].pc = "wait" THEN Failed(worker[w]) ELSE worker[w]]
  /\ UNCHANGED <<rowVars, spawned, backend, crashes, alerted>>

-----------------------------------------------------------------------------
(* The backend process.                                                     *)

Crash ==
  /\ backend = "up" /\ crashes < MaxCrashes
  /\ backend' = "down" /\ crashes' = crashes + 1
  /\ spawned' = {} /\ worker' = [w \in Workers |-> NoTask]
  /\ UNCHANGED <<rowVars, call, alerted>>

\* SIGTERM cancels the dispatcher's context, and with it every later
\* database or HTTP operation of the goroutines the dispatcher started; an
\* alert has a context of its own.
Stop ==
  /\ backend = "up" /\ crashes < MaxCrashes
  /\ backend' = "stopping" /\ crashes' = crashes + 1
  /\ spawned' = {s \in spawned : s[2] = "request"}
  /\ worker' = [w \in Workers |->
       IF worker[w].owner = "dispatcher" /\ worker[w].pc # "alert" THEN NoTask
                                                                  ELSE worker[w]]
  /\ UNCHANGED <<rowVars, call, alerted>>

\* main returns once Shutdown does; goroutines of requests die with it.
Exit ==
  /\ backend = "stopping" /\ backend' = "down"
  /\ spawned' = {} /\ worker' = [w \in Workers |-> NoTask]
  /\ UNCHANGED <<rowVars, call, crashes, alerted>>

\* (mutant of Start) only the pending tasks are dispatched again.
StartWithoutRequeue ==
  /\ backend = "down" /\ backend' = "up"
  /\ spawned' = FirstPending(status) \X {"dispatcher"}
  /\ UNCHANGED <<rowVars, worker, call, crashes, alerted>>

\* RecoverParseTasks: interrupted tasks get a new generation, then the
\* pending ones are dispatched; only then does the server listen.
Start ==
  LET interrupted == {m \in Materials : status[m] = "parsing"} IN
  /\ backend = "down" /\ backend' = "up"
  /\ status' = [m \in Materials |-> IF m \in interrupted THEN "pending" ELSE status[m]]
  /\ gen' = [m \in Materials |-> IF m \in interrupted THEN gen[m] + 1 ELSE gen[m]]
  /\ spawned' = FirstPending(status') \X {"dispatcher"}
  /\ UNCHANGED <<content, chunks, written, worker, call, crashes, alerted>>

-----------------------------------------------------------------------------
UserNext == \E m \in Materials : Create(m) \/ Update(m) \/ RetryParse(m) \/ Delete(m)

ClaimNext ==
  \E m \in Materials, owner \in Owners :
    \/ \E w \in Workers : Claim(m, owner, w)
    \/ ClaimRefused(m, owner)
    \/ ClaimLost(m, owner)

WorkerNext ==
  \E w \in Workers :
    \/ \E c \in Calls : Send(w, c) \/ Reply(w, c)
    \/ Timeout(w) \/ Finish(w) \/ FinishLost(w) \/ Alert(w)

AgentNext ==
  \/ \E c \in Calls : Precheck(c) \/ Persist(c) \/ CallFails(c) \/ Discard(c)
  \/ AgentCrash

BackendNext == Dispatch \/ Crash \/ Stop \/ Exit \/ Start

Next == UserNext \/ ClaimNext \/ WorkerNext \/ AgentNext \/ BackendNext

Spec == Init /\ [][Next]_vars

(***************************************************************************)
(* While the backend is up the ticker keeps ticking and the Go runtime     *)
(* runs every goroutine; a request in the agent ends (each of its stages   *)
(* has a timeout).  Claim and Send are strongly fair because a slot of     *)
(* Workers or Calls, which bounds the model and not the code, may be taken *)
(* now and then.  Users, faults and the start of a backend that is down    *)
(* are not fair.                                                           *)
(***************************************************************************)
Fairness ==
  /\ WF_vars(Dispatch)
  /\ \A m \in Materials, owner \in Owners :
       /\ SF_vars(\E w \in Workers : Claim(m, owner, w))
       /\ WF_vars(ClaimRefused(m, owner))
  /\ \A w \in Workers :
       /\ SF_vars(\E c \in Calls : Send(w, c))
       /\ WF_vars(\E c \in Calls : Reply(w, c))
       /\ WF_vars(Finish(w) \/ FinishLost(w))
       /\ WF_vars(Alert(w))
  /\ \A c \in Calls :
       /\ WF_vars(Precheck(c)) /\ WF_vars(Persist(c)) /\ WF_vars(Discard(c))

FairSpec == Spec /\ Fairness

-----------------------------------------------------------------------------
(***************************************************************************)
(* Properties.                                                             *)
(***************************************************************************)
\* The chunks are those of the material's generation, cut from its content.
Published(m) ==
  /\ chunks[m].gen = gen[m] /\ gen[m] > 0
  /\ chunks[m].text = content[m]

\* A material shown as done has the chunks of its present generation, cut
\* from exactly the content it shows, although AgentService.Parse takes a
\* "stale" answer for a success and late requests go on writing.
DoneMeansIndexed == \A m \in Materials : status[m] = "done" => Published(m)

\* The content of a txt/md material always descends from the last text a user
\* wrote: no request that parses an earlier text overwrites an edit.
EditNeverLost ==
  \A m \in Materials \ FileMaterials :
    status[m] \in Live => content[m].edit = written[m]

Busy(w) == worker[w].pc \in {"send", "wait", "finish"}

\* Two goroutines never work on the same generation of a material: a claim
\* wins once per generation, and whatever queues the row again bumps it.
OneWorkerPerGeneration ==
  \A v, w \in Workers :
    v # w /\ Busy(v) /\ Busy(w) /\ worker[v].m = worker[w].m
      => worker[v].gen # worker[w].gen

\* A worker that is about to read a "stale" answer (as a success) has already
\* lost the row, so its FinishParseTask will match nothing.
StaleAnswerIsSuperseded ==
  \A w \in Workers, c \in Calls :
    Waits(w, c) /\ call[c].pc = "reply" /\ call[c].outcome = "stale"
      => ~Owns(worker[w])

\* A generation that an alert reported as a dead letter never runs again: an
\* operator who reads the alert finds it failed, deleted, or superseded.
AlertedGenerationIsDead ==
  \A m \in Materials :
    <<m, gen[m]>> \in alerted => status[m] \in {"failed", "deleted"}

\* The index never goes back: chunks of a generation are replaced only by
\* those of the same or a later one, whichever request commits last.
IndexNeverGoesBack ==
  [][\A m \in Materials :
       status'[m] # "deleted" => chunks'[m].gen >= chunks[m].gen]_vars

\* The pipeline implements the life cycle the API documents: seen from the
\* rows and chunks alone, every step is one the life cycle allows.
Lifecycle == INSTANCE MaterialLifecycle WITH
  Materials <- Materials, status <- status, gen <- gen,
  content <- content, chunks <- chunks
ImplementsLifecycle == Lifecycle!Spec

\* Every queued or interrupted parse ends, unless the backend goes down: the
\* dispatcher finds what no goroutine picked up, and after a restart the
\* interrupted ones run again.
EverySettles ==
  \A m \in Materials :
    status[m] \in {"pending", "parsing"}
      ~> (status[m] \in {"done", "failed", "deleted"} \/ backend # "up")

-----------------------------------------------------------------------------
(* What comments and docs say and the code does not do: each is checked by  *)
(* a run that expects a counterexample.                                     *)

\* docs/api-reference.md: a changed content triggers a reparse that replaces
\* the chunks.  For a docx/pdf the parser reads the uploaded file again and
\* writes its text over the edit.
EditReachesIndex ==
  \A m \in Materials : status[m] = "done" => content[m].edit = written[m]
=============================================================================
