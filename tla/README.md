# TLA+ models of learning_buddy

learning_buddy is a study platform: a Go backend (gin, gorm, PostgreSQL with
pgvector, Redis), a Python agent service (FastAPI) that parses documents and
answers questions with a language model, and a React frontend. This directory
holds TLA+ modules that model its state machines, TLC configurations that check
them on small instances, and proofs for TLAPS. `PROJECT.json` maps every
definition to the lines it models.

    tlc -workers 2 -config MCParsePipeline.cfg MCParsePipeline.tla
    tlapm ParsePipelineProofs.tla

## 1. The system

| part | code | state it keeps | operations |
|---|---|---|---|
| parse task queue, dispatcher, workers | backend `service/material.go`, `repository/parse_tasks.go`, `service/parse_alert.go`, `main.go` | `materials.parse_status`, `parse_generation`, `content`; goroutines | create, update, retry, delete; dispatcher tick, claim, attempts with back-off, finish, alert; start-up recovery, shutdown |
| agent parse orchestration | agent `rag/orchestrator.py`, `main.py`, `core/db.py` | `material_chunks`, `material_assets`, `rag_processing_runs` | pre-check, processing, one final transaction |
| index roll-out | backend `scripts/*.sql`, `migrations/0008_rag_v2.sql`; `orchestrator.py` | `materials.index_version`, `rag_index_versions` | reindex, activate 10/50/100 %, roll back, retire |
| document pipeline | agent `rag/pipeline.py` | none | extract, clean, chunk, enrich |
| retrieval, context expansion | backend `repository/rag.go`, `service/agent.go`; agent `rag/retrieval.py` | the time budget of a question | query analysis, vector and lexical search, rank fusion, rerank with fallback, expansion |
| chat turn, conversations | backend `handler/agent.go`, `service/conversation.go`; frontend `pages/Companion.tsx`, `api.ts` | `agent_sessions`, `agent_messages`; the page and the browser's storage | ask, stream, store; open, restore, begin a conversation; switch scope |
| accounts, refresh tokens | backend `service/auth.go`, `repository/auth_tokens.go`; frontend `api.ts`, `auth.tsx` | `refresh_tokens` | login, rotation, replay detection, logout |
| teams, visibility | backend `service/team.go`, `repository/team_repo.go`, `repository/repository.go` | `teams`, `team_members` | create, join, approve; the visibility predicate |
| rate limiter, quotas | backend `service/rate_limiter.go`, `handler/plans.go`, `repository/data_repo.go` | Redis windows, local windows, token usage | allow, record |
| circuit breaker | agent `core/http_client.py` | one circuit per host | allow, record, retry |
| parse progress, feedback | backend `repository/rag_feedback.go`, `handler/materials.go`; frontend `Library.tsx` | `rag_processing_runs`, `agent_feedback` | upsert a stage, poll, rate |
| learning records, notes, plans, quizzes | backend `service/learning.go` and handlers | one row each | single statements |
| object storage, model providers, cache, configuration, metrics, evaluation, deployment | | | I/O and wiring |

How they interact. The backend writes a `pending` row and starts a goroutine.
The goroutine, or the dispatcher's, or the recovery's, claims the row
(`pending -> parsing`, one conditional UPDATE) and calls `POST /parse` with the
text and the generation it claimed. The agent reads the row, works for seconds
or minutes, and in a final transaction locks the row, compares generation and
status once more, replaces the chunks and writes the cleaned text back. The
worker then finishes the row under the condition that it still is `parsing` and
of its generation. Retrieval joins chunks with `materials.index_version`, which
the agent's final transaction and the operator's scripts both write. A chat
question passes browser, backend (limits, session, retrieval, storing), agent
and back as a stream of events, any prefix of which may be all that arrives.

What is hard in it: requests that outlive the worker that sent them (timeouts,
crashes and shutdown do not stop the agent's thread); three kinds of goroutines
racing for a claim; an edit in the middle of a parse; database errors whose
transaction did commit; operators' scripts between the check and the commit of a
parse; answers, lists and histories that reach a page which has moved on; pages that switch
teams while their polls and uploads are on their way; tabs
that share one cookie, and transactions under READ COMMITTED that wait for each
other's rows; a question whose queries each see another state of the database;
checks of limits that come late, and calls that end after the circuit they were
let in by has changed. The `hazards` of `PROJECT.json` list these at their lines.

What makes each part correct, in one line each: *pipeline* – what is shown as
`done` is what is indexed, no edit is lost, every parse ends; *roll-out* – a
material that can be found stays so; *chat* – conversations and scopes never
mix, what may be rated was stored and stays so as long as its material, the
composer comes back; *tokens* – one use
per token, and a family ends only for a reason; *teams* – an approval stays,
nobody retrieves what he may not see; *retrieval* – what was found is used,
within the limits, from one generation of a material; *limits* – bounded
overruns, and no refusal without cause; *breaker* – nobody is turned away
without cause, no slot is lost, the circuit closes again; *library page* – it shows what
belongs to its team, and the end of a parse.

## 2. Modules

| module | models | status |
|---|---|---|
| `ParsePipeline` | queue, workers, agent requests, restarts | checked, proved |
| `MaterialLifecycle` | what the pipeline promises: the abstract specification | implemented by `ParsePipeline` (checked and proved) |
| `IndexRollout` | scripts and visible version, on top of `MaterialLifecycle` | checked, proved |
| `ChatTurn` | the companion page and the chat handler | checked, safety proved |
| `TokenRotation` | refresh tokens: tabs, answers, transactions | checked, proved |
| `TokenFamily` | what rotation promises: the abstract specification | implemented by `TokenRotation` (checked and proved) |
| `Teams` | membership, sharing, the visibility predicate | checked and proved with `Retrieval` |
| `Retrieval` | `PrepareVisibleContext`, on top of `Teams` | checked, proved |
| `Admission` | the sliding window and the daily quota | checked, proved |
| `ModelCalls` | circuit, slots and retries of the agent's HTTP clients | checked, safety proved |
| `LibraryPage` | the library page, the progress it polls and the pipeline behind it | checked, safety proved |
| `*Proofs` | the proofs about the module of that name | proved |
| `MC*` | instances for TLC | |

How they fit: `IndexRollout` uses the actions of `MaterialLifecycle`, which
`ParsePipeline` implements; `Retrieval` extends `Teams` and takes over that a
material has the chunks of one generation at a time, which is what the pipeline
and the roll-out provide; a chat passes `Admission`, then `ChatTurn`, whose
handler runs `Retrieval` before it asks the agent, whose calls are `ModelCalls`.
`LibraryPage` watches the rows of `ParsePipeline` from outside.

### ParsePipeline

`status`, `gen`, `content` are the columns of `materials`; `chunks` the rag-v2
rows of a material, replaced as a whole; `written` is a history variable.
`spawned` holds goroutines that have not reached the claim, `worker` those that
hold a task (`pc`: *send*, *wait*, *finish*, *alert*), `call` requests alive in
the agent (*precheck*, *process*, *reply*).

| action | code |
|---|---|
| `Create`, `Update`, `RetryParse`, `Delete` | the services behind the four routes; each commits and starts a goroutine whose context outlives the request |
| `Dispatch`, `Claim`, `ClaimRefused`, `ClaimLost` | a tick of `RunParseDispatcher`; `ClaimParseTask` winning, matching no row, or ending in an error before or after its commit |
| `Send`, `Reply`, `Timeout` | an attempt of `parseWithRetry`; `AgentService.Parse` looks at the HTTP status only, so `stale` counts as success |
| `Finish`, `FinishLost`, `Alert` | `FinishParseTask` with its condition, its failure (only logged), `AlertParseFailure` |
| `Precheck`, `Persist`, `CallFails`, `Discard`, `AgentCrash` | `orchestrator.parse`: first check, final transaction, exceptions; the agent process |
| `Crash`, `Stop`, `Exit`, `Start` | the backend process: death, SIGTERM, return of `main`, `RecoverParseTasks` |

Abstractions. A text is the user write it descends from and how often
`clean_markdown` was applied to it; texts are not empty. Of an uploaded
docx/pdf the parser reads the file, of a txt/md the text of the request.
Goroutines of one material and one kind that wait for the claim are one element
of `spawned`: the claims that lose change nothing. Requests of users need the
backend up; one that is in flight during a shutdown commutes with the signal.
Back-off delays are left out, because every order of the steps is explored.
Changing only a title or `shared` touches neither queue nor index.

### IndexRollout

The pipeline appears as the actions of `MaterialLifecycle`, which is what
`ParsePipeline` is shown to implement. Added are `legacy` (materials with
legacy-v1 body chunks), `visible` (`materials.index_version`), `registry`
(`rag_index_versions.status`) and `aged`. `Persist` is the final transaction
with its choice of the visible version. `Reindex`, `Activate(p)`, `Rollback` and
`Retire` are the four scripts, each one transaction: an activation updates
every row of `materials`, a parse locks its row in the final transaction, so the
two serialise on it. Cohorts are a constant with the inclusions that the hash
of the id gives; the 14 days are the one step `Age`.

### ChatTurn

Turn *t* is the *t*-th question; a session bears the number of the turn that
created it. `turn` is the handler of each question (`pc` along
`handler/agent.go` chat), `wire` the events on their way. `materials` are the
scopes there are; `scopeOf` and `messages` are the two tables as they were
inserted, of which the rows of a session are there while its material is
(`Exists`): migration 0009 deletes sessions, and 0001 their messages, with the
material (`DeleteMaterial`). What was inserted is kept in the model so that a page
that still shows it can be compared with it. The page is `scope` (its `materialId`), `session`,
`stored` (the `lb_chat_session:*` entries), `view`, `busy`, `current`
(`chatRequestRef`), `latest` (`historyRequestRef`), `loading` and `loads` (fetches
of the session list and of histories, with `found`: was the session there when
the request was sent? A session deleted before the answer may be listed or not).

`Mount`, `OpenSession`, `NewConversation` and `Ask` are what a user does; `OnMeta`,
`OnDone`, `OnError`, `OnEnd` and `Ignored` the callbacks of `chatStream`, and
`DropDone` a `done` event that its schema refuses (section 5);
`ForgetSession`, `FetchHistory`, `EndOfList`, `ReceiveHistory` and `LoadFails` the
continuations of the loads; `EnterSession` … `Finish` the handler, with `Refuse`
for every HTTP error, `Break` for a lost connection (a suffix of the events is
lost with it) and `Abandon` for a cancelled context or a dead backend. Tokens,
citations, the history sent to the agent, the run record and feedback are left
out; a refusal, an error event and a broken connection are one event, because
the page treats them alike. A user who opens a session may pick any of the
scope, also one the list he sees does not have yet, or one that was deleted since.

An answer stays on a page that shows it when its material is deleted, and stays
offered for feedback, which is then refused. So `DoneIsSaved` speaks of answers
whose material exists: for these, what is shown as saved is in a session that
exists.

### TokenRotation and TokenFamily

`rows` is `refresh_tokens`; a family is named after its first token. `jar` is the
one `lb_refresh` cookie of a browser, `user` the tabs that show a user, `promise`
the `refreshPromise` of each page, `call` the requests to `/auth` with their step.
`excused` is a history: families that were logged out, lost an answer, or had
their cookie sent twice by two tabs.

| action | code |
|---|---|
| `Login`, `Refresh`, `Logout` | `api.ts` / `auth.tsx`: a request with the cookie of that moment; requests of one page that meet a 401 share one refresh; a logout forgets the user at once |
| `Receive`, `Lose` | the answer with its `Set-Cookie`, or the loss of it |
| `CreateToken` | the INSERT of a login |
| `Lock`, `Rotate` | `RotateRefreshToken`: SELECT … FOR UPDATE with its three decisions, then the commit; an error reported after the commit leaves the token spent |
| `BeginUpdate`, `CommitUpdate` | `RevokeRefreshFamily` of a logout or a replay: the UPDATE works on the rows it saw when it began and waits for those that others hold locked |
| `Abort` | any error before a commit |

Passwords, registration and access tokens are left out (an access token may
expire at any time), and so is the common end of a token and its cookie after
seven days. `TokenFamily` knows only which token of a family can be exchanged:
`Issue`, `Exchange`, `End`.

### Teams and Retrieval

`member` is `team_members.status`, `shared` the column of `materials`, `join` the
requests between the SELECT and the INSERT of `JoinByCode`, which run without a
transaction. `VisibleTeamIDs` and `VisibleMaterials` are translated from the
queries; `MaySee` is the rule of the documents, against which they are checked.
Teams, owners and the teams of materials are constants: no code changes them.

A question (`pc`) goes through *authorize*, *analyze*, *teams*, *vector*,
*lexical*, *rerank*, *expand*, *bodies* and ends *done*, *refused* (its material
is not visible, or the check fails) or *failed*.
`teamIDs` are those read in the query before the one that uses them, `left` is
what remains of the total time, `degraded` the stages that were skipped. Between
any two steps others join, approve, share, withdraw, parse again (`Reparse`) and
delete. `Merges` is the reciprocal rank fusion with scores to six digits, `Reached`
the joins of a visible query, one material of one generation each. The expansion
is what its loops do: `AddHit` and `BestHits` keep the best hit of a material,
`BodiesOfSearch` reads the bodies around a hit, `SelectBodies` takes those that go
(`Goes`) with their images (`Depicts`, `Select`), and `Selected` goes through the
materials with its three limits. Relevance is any order, the rewriting of a question
and the caches of the agent are any choice, and a stage takes no time or almost
all it has: only the sums matter, and those of the extremes bound all others. Of
the two indexes only the visible one is here; `IndexRollout` is about which one
that is.

### Admission

`now` is the backend's clock; `window` the stamps in Redis and in the process, as
bags, of which `CountIn` counts the `Stamps` inside a window; `used` the day's usage; `call` the requests, whose steps are `Arrive` (the
stamp is read), `AskRedis` (the script runs and answers), `AskRedisInVain` (it
runs, the answer is lost, and the client repeats it with the same member or
gives up), `NoRedis`, `AskLocal`, `ReadUsage` (a usage that cannot be read
admits), and `Fail` or `Succeed`. `counted`, `arrived` and `blind` are histories.
The model is of plans and quizzes: a chat passes the same checks and records
nothing (section 5). A day does not end within a behaviour.

### ModelCalls

`failures` and `openFor` are the circuit of a host, with `opened_at` as the time
since; `busy` the slots of the sync and the async client; `call` the calls (`pc`:
*slot*, *send*, *backoff*, *fallback*) and their attempts; `up` whether the
provider answers. `LetIn` and `TurnAway` are `_circuit_allows`, `Send` takes a
slot, `Answered`, `Refused`, `AttemptFails` end an attempt and write the circuit
as the code does, `Retry` ends a back-off without asking the circuit again,
`Cancel` is a cancelled coroutine, `Fallback` the local answer. `streak` and
`fresh` are histories: failures since the last success, and the time since the
last failure.

### LibraryPage

`status` is the row of a material, `run` what `rag_processing_runs` says of its
present generation: an edit or a retry begins a generation without a run,
`Record` is any write of `_record_processing_stage`, which may also never happen
(the code only logs that it failed), come late, or overwrite a later one. The
page is `team`, `shown` (the list), `staged` (`processing`), `canWrite`,
`loading`, `form`, `saving`, `retrying` and `reload` (the timer of 300 ms); `latest`
stands for the counters `materialsRequestRef` and its like, as the request of
each kind that is not superseded.

| action | code |
|---|---|
| `Requeue`, `Claim`, `Record`, `Finish`, `Delete` | the pipeline, in any order and by anybody |
| `ServeList`, `ServePoll`, `ServeCreate`, `ServeRetry`, `Fail` | the four routes the page calls, and every way in which they fail |
| `Enter` | a team is selected: layout effect and first load |
| `ReceiveList`, `ReceivePoll`, `ReceiveCreate`, `ReceiveRetry`, `Ignore` | the continuations, each with its `isCurrentRequest`; `Show` includes the effect on `materials`, which drops poll and timer and polls at once |
| `Poll`, `ReloadFires` | the interval and the timer |
| `ToggleForm`, `Create`, `RetryParse` | what a user does |

The polls of one list are one request, because the page awaits them together.
Titles, texts, files, the names of stages and the error line are left out; the
list of teams is there from the first `Enter` on; leaving the page drops all.

## 3. Runs

| run | asks | instance |
|---|---|---|
| `pipeline_safety` | type; `DoneMeansIndexed`; `EditNeverLost`; `OneWorkerPerGeneration`; `StaleAnswerIsSuperseded`; `AlertedGenerationIsDead`; `IndexNeverGoesBack`; `ImplementsLifecycle` | one text material, two workers, two requests, two attempts, user operations up to generation 2, one crash or shutdown, all faults |
| `pipeline_liveness` | `EverySettles` | two materials (one a file), one worker, one request, batch of one, one restart, agent faults |
| `rollout` | type; `DoneIsSearchable`; `OneActiveVersion`; `ActiveMeansServed`; `NeverDark` | two imported materials in different cohorts and a new one, three generations |
| `chat_loads` | type; `OneConversation` | two questions, one scope that stays, two loads |
| `chat_settles` | `ScopeIsolated`; `DoneIsSaved`; `ComposerComesBack` | one question, two scopes, one of them a material that may be deleted, two loads, entries of an earlier account in the browser |
| `tokens` | type; `OneUsableToken`; `RevokedForAReason`; `ImplementsFamily` | two tabs, two requests, four tokens |
| `retrieval` | type; `ContextWithinLimits`; `ReadsOnlyVisible`; `ContextIsOrdered`; `BestMaterialInContext`; `RecallSurvives`; `ApprovalStays` | one student, three teams, three materials of two generations, two join requests |
| `admission` | type; `WindowHolds`; `OverrunIsBounded`; `RefusalsAreDue` | two requests at a time and four in all, limit two per window of three, quota one |
| `model_calls` | type; `TurnedAwayForAReason`; `Recovers`; `CallSettles` | two sync calls and an async one, a slot each, three attempts, three failures open the circuit for two ticks |
| `library` | `PageIsOfItsTeam`; `RecordedEndIsShown` | two teams, one of them writable and with a material, two requests at a time |
| `docx_edit` | expects `EditReachesIndex` violated | one file material, two workers |
| `logout` | expects `RevocationIsWhole` violated | two tabs, two tokens |

Why the bounds are enough. *Pipeline:* every race is between two holders of one
material – two workers, two requests, a worker and an edit – and needs two
generations, to which a restart adds a third; materials do not interact except
in the dispatcher's batch, which the liveness run fills with two materials and a
batch of one. *Roll-out:* rows interact through the registry and the
activation's precondition only; the instance has a row per case of cohort and
legacy chunks. *Chat:* mixing takes two conversations or two scopes, and
overtaking takes two loads; the two runs each leave out one dimension (with all
three the state space passes ten million states). A deletion meets a question, a
list and a history on their way in `chat_settles`; that no conversations are mixed
under deletions is the theorem `ConversationsStayApart`. *Tokens:* the races are
between two transactions of one family; four tokens allow a second login or
three rotations in a row, so that a replay meets a family that has moved on.
*Retrieval:* the class has a document of two sections with an image, a second
generation and a sharing switch, so each clause of the visibility predicate and
of the expansion decides something; the limits cut in every dimension (the
limits on chunks, tokens and materials are all below what is there); `Total = 1` makes a
stage that times out leave no time, and one that fails at once leave all.
*Admission:* two requests overlap in both the window and the quota; a window of
three ticks and a delay of one let a late check meet a store that a newer one
has cleaned; four arrivals fill both stores. *Model calls:* three callers open a
circuit and meet it open, half of them late; one slot a client makes them wait.
*Library page:* a late answer is one request of another team or an older one of
the same kind, beside the one the page waits for; a row of one team and an empty
team without rights differ in all that the page shows.
The proofs drop the bounds for what is listed in section 4. `MaxGen`,
`MaxCrashes`, `MaxTurns`, `MaxTokens` (of `TokenRotation`), `MaxTime`,
`MaxDelay` and `MaxArrivals` are the bounds in guards; `Workers`, `Calls`, `Joins`,
`Loads` and `Requests` are slots. `MaxTokens` of `Retrieval` is a limit of the code, and
`MaxDelay` is a hypothesis of `WindowHolds` as well: a check that comes later
than it may find a store that has forgotten more.

`DbFaults` is off in `pipeline_liveness`: with it a row can stay in `parsing`
(section 5). Deadlock is checked in every run but
`admission`, whose clock and arrivals end at their bounds; elsewhere users can
always do something, or the model stutters in loops of its own.

### Fairness

*Pipeline.* The dispatcher's ticker is weakly fair while the backend runs, and
so are the steps of goroutines and agent requests: the Go runtime schedules
every goroutine, an attempt has a deadline, every stage in the agent a timeout.
`Claim` and `Send` are strongly fair because they need a slot of `Workers` or
`Calls`; the code has no such limit and never waits for one. Users, faults,
crashes and `Start` are not fair: the compose file gives the backend no restart
policy, hence `EverySettles` excuses a backend that is down.

*Chat.* The browser runs callbacks of what arrives, requests are answered or
fail, and the handler goes on: reading the agent's stream ends with the timeout
of the `http.Client` (120 s), and database calls return. Nothing a user does is
fair, and neither is `Break`.

*Model calls.* Time passes; an attempt ends, at the latest with the client's
timeout; a back-off and the local answer end. `Send` is strongly fair: the slots
are semaphores, whose waiters are served in turn. Nobody has to call, the
provider need not come back, and nobody has to cancel.

*Library page.* Every request is answered or fails, and the browser runs what
arrives, its interval and its timer; `Poll` and `ReloadFires` are strongly fair
because they need a slot of `Requests`, of which a browser has as many as it
wants. Again and again a poll succeeds, and one that has been answered arrives
before the interval of two seconds supersedes it: without that the page never
learns anything, and nothing in the code promises it for a backend that is
always slower. Users need not do anything, and neither need the pipeline.

## 4. Proofs

Each theorem holds for every value of the constants. A line of the table names
the property a theorem states; `Invariant` is the inductive invariant `IInv` of
its module (`StepInv` in `AdmissionProofs`), and `TypeCorrect` its `TypeOK`.
`ParsingIsInHand`, `PageNeverWaitsInVain` and `NoSlotIsLost` state the safe half of
a liveness property: what is waited for is in somebody's hands.

| module | theorems | assumes |
|---|---|---|
| `ParsePipelineProofs` | `Invariant`, `TypeCorrect`, `DoneIsIndexed` (`DoneMeansIndexed`), `EditsSurvive` (`EditNeverLost`), `WorkersAreSole` (`OneWorkerPerGeneration`), `StaleIsHarmless` (`StaleAnswerIsSuperseded`), `AlertsAreFinal` (`AlertedGenerationIsDead`), `IndexAdvances` (`IndexNeverGoesBack`), `Refinement` (`ImplementsLifecycle`), `ParsingIsInHand` | `SizesAssumption`; `ParsingIsInHand`: no `DbFaults` |
| `IndexRolloutProofs` | `Invariant`, `TypeCorrect`, `DoneCanBeFound` (`DoneIsSearchable`), `OneVersionIsActive` (`OneActiveVersion`), `ActiveIsServed` (`ActiveMeansServed`), `NothingGoesDark` (`NeverDark`) | `CohortAssumption` |
| `ChatTurnProofs` | `Invariant`, `TypeCorrect`, `ScopesAreIsolated` (`ScopeIsolated`), `DoneIsStored` (`DoneIsSaved`), `ConversationsStayApart` (`OneConversation`), `PageNeverWaitsInVain` | `TurnsAssumption`; `ConversationsStayApart`: `OneAccount` |
| `TokenRotationProofs` | `Invariant`, `TypeCorrect`, `NoDoubleSpending` (`OneUsableToken`), `RevocationHasReason` (`RevokedForAReason`), `Refinement` (`ImplementsFamily`) | `TokensAssumption` |
| `RetrievalProofs` | `Invariant`, `TypeCorrect`, `ContextIsBounded` (`ContextWithinLimits`), `OnlyVisibleIsRead` (`ReadsOnlyVisible`), `ContextOrdered` (`ContextIsOrdered`), `BestMaterialKept` (`BestMaterialInContext`), `ApprovalsStay` (`ApprovalStays`), `CandidatesSurvive` (`RecallSurvives`) | `TeamsAssumption`, `RetrievalAssumption`, `NoneAssumption`; `BestMaterialKept`: `ChunksFit` |
| `ModelCallsProofs` | `Invariant`, `TypeCorrect`, `TurnedAwayRightly` (`TurnedAwayForAReason`), `NoSlotIsLost` | `ModelCallsAssumption` |
| `LibraryPageProofs` | `Invariant`, `TypeCorrect`, `PageShowsItsTeam` (`PageIsOfItsTeam`) | `LibraryAssumption` |
| `AdmissionProofs` | `Invariant`, `TypeCorrect`, `WindowLimitHolds` (`WindowHolds`), `OverrunHasABound` (`OverrunIsBounded`), `RefusalsHaveCause` (`RefusalsAreDue`) | `AdmissionAssumption` |

The assumptions only say what the constants are: numbers, positive sizes,
cohorts that grow, sets that are finite. The limits of `Retrieval` that have to be
positive are literals of the code or, for the rerank, kept above zero by the
agent's request model; without the latter `RecallSurvives` would not hold.

Three theorems have a hypothesis of their own, because without it the property is
false. `OneAccount`: the browser has no entries of an earlier account; with them a
late list may drop the session of the conversation that is shown (section 5).
No `DbFaults`: a finish that fails is only logged (section 5). `ChunksFit`: a body
chunk, with the description of any one image, fits into the 12000 tokens of a
context. The chunker cuts at 3000 and the overlap it keeps (`max_chunk_tokens`;
section 5), so the text alone fits; the code does not bound the whole description
of an image, and with one that does not fit beside a chunk the best material may
be missing. A fourth condition is part of its property: `WindowHolds` speaks of
the window shortened by `MaxDelay`, the longest time from a stamp to its check.

None of the properties is inductive as it stands. What carries them:

*Pipeline.* From an arbitrary state in which `done` rows are indexed, a worker
with the verdict `done` could finish a row nobody indexed. The bookkeeping of
generations excludes it: no task, request, chunk or alert is ahead of its row
(`RowInv`, `TaskInv`, `RequestInv`, `AlertInv`); a busy worker level with its row
holds it in `parsing`, has the text the user wrote last, and has the verdict
`done` only if the chunks are in; a worker waits for a request of its own task
and generation, and a `stale` answer on its way to it means that the generation
is over (`WaitInv`); no two workers share a material and a generation
(`SoleInv`). There is one lemma per action (`CreateStep` … `PersistStep`), each
with a step per part of `IInv` that the action can disturb. `Refinement` maps
rows and chunks to themselves and needs `IInv` for `Finish` (a step of
`Complete`) and `Persist` (a step of `Publish`).

*Roll-out.* The visible version of a row names an index the row has chunks in,
unless the row never had any; while rag-v2 is active no legacy chunks are
visible. An activation keeps the first because it looks at every row before it
writes, and a retirement because the second holds by then.

*Chat.* Whatever names a session – an entry of the browser, a load, the stream
the page listens to – names one of a turn of its own scope; while an event may
still arrive, the page that listens to it shows that turn's answer last and is
busy; and a `done` event is on its way only after the answer was stored.
For `DoneIsSaved` the messages themselves are followed (`MessageInv`): a session
holds only messages about questions of its own scope, so it exists as long as
the material of the question does.
`OneConversation` needs more (`CleanInv`): what a busy page shows as saved is of
the session of its turn, or nothing is while that turn has no session yet; a
history that will be shown is of the session the page has, or brings its session
along; and a stored session is listed as long as its material exists. A page whose
session was forgotten may go on showing saved messages, but then the material is
gone, so no question asked below them gets a session. `EndIsTold` says that a turn which is over
has left an event that frees the page.

*Tokens.* A request about to rotate has held the lock of a usable token since it
looked, and it alone: then nobody can have spent or revoked it, a rotation moves
a family from one usable token to another, and the table refines `TokenFamily`.
A revocation about to commit has seen rows of one family only. For
`RevokedForAReason` the proof follows the cookie (`ReasonInv`). A page waits for its
one refresh until that settles, so two requests with one token are of two pages,
which is a reason (`TwiceInv`). A token in an answer is unused and known to nobody
else (`AnswerInv`), and the cookie's token is used only while the answer that
replaces it is on its way (`CookieInv`). So a request that finds its token used, or
revokes, has a reason (`RevokeInv`).

*Retrieval.* The ids a search uses were read in an earlier query. They are still
visible when it runs, because nobody loses a team (which is `ApprovalStays`
again); and there are no candidates before the searches. The context is built by
loops within loops. Each is a recursive function whose every value is bounded by
induction on its length (`UpTo`), and which exists because its step stays in a set
(`IterationExists`); both are proved here for predicates over sets, since the
library's induction theorems take an operator as a parameter. On the way every
selection is of one visible material and generation, in order, without a
repetition and within the limits (`SelectStep`, `AddsStep`, `ContextStep`), and the
tokens it counts are those of its entries (`TokensFacts`).

*Model calls.* The slots taken are the calls that send; the circuit counts
failures of the streak since the last success, and when it is open it has
counted them all and was opened by the last.

*Admission.* A store has every stamp it counted until that is older than a window
(`DroppedWhenOld`), and a check comes soon after its stamp: what was counted of a
window is at most what the store holds. What a store counted and may yet count of
a time is at most what arrived then (`CountedArrived`), which makes refusals due.
What is used and the requests at work, which will use more, stay together below
the quota plus one for each request at a time and each blind one (`QuotaInv`).

*Library page.* What the page waits for was sent for its present team, and a
request brings only what is of the team it was sent for. Both are needed: the
first lets a late answer be recognised, the second makes a current one harmless.

Model-checked only:

- liveness (`EverySettles`, `ComposerComesBack`, `Recovers`, `CallSettles`,
  `RecordedEndIsShown`), which is out of the prover's reach, as is `ENABLED`;
- the counterexamples.

Every invariant and action property of a passing run is a theorem.

## 5. Where the code and its documents differ

With a run:

1. Editing the content of an uploaded docx/pdf has no lasting effect: the next
   parse reads the file again and writes its text over the edit
   (`docx_edit`; `docs/api-reference.md:718,735`).
2. A logout revokes the rows of the family that it saw. A rotation that inserts
   its replacement meanwhile leaves a token that can still be exchanged
   (`logout`; `docs/api-reference.md:185`, `docs/system-design.md:200`,
   `repository/auth_tokens.go:82`).

Seen while modelling, without a run:

- A database error at the claim or the finish is only logged, and the dispatcher
  looks at pending rows: the row stays in `parsing` until the backend restarts
  (`docs/engineering-standards.md:30`; `service/material.go:375`).
- A parse that fails without a run that has ended (the agent was never reached,
  or its record was lost or overwritten by a late stage) stays in progress on an
  open library page: only such a run makes it load the list again. `RecordedEndIsShown`
  would fail without its condition on `run` (`docs/api-reference.md:1516`;
  `Library.tsx:148`).
- A chunk may exceed the 3000 tokens of the text by the overlap that is kept when
  a paragraph is appended after a close (`docs/blog/building-production-rag-with-pgvector.md`;
  `rag/pipeline.py:330`).
- After an edit during a parse two workers process one material at a time; only
  a generation has a single worker (comment at `service/material.go:337`). The
  generations make this harmless: that is `DoneMeansIndexed`.
- Before the full activation, an edit of an imported material leaves retrieval
  on the legacy chunks of the old text (`docs/api-reference.md:718`;
  `rag/orchestrator.py:240`).
- When no stage of the retrieval was degraded the handler sends
  `degraded_stages: null` (a nil slice), which the page's schema refuses: it drops
  the `done` event, learns no `message_id` and offers no feedback until the history
  is opened again (`docs/api-reference.md:1161` shows `[]`; `handler/agent.go:260`;
  `api.ts:224,577`). The model has both outcomes.
- An answer that a page shows when its material is deleted stays on it and stays
  offered for feedback, which ends with 404 (`migrations/0009_agent_session_scope.sql:22`;
  `repository/rag_feedback.go:49`).
- Deleting a material leaves its objects in the store (`service/material.go:244`).
- The page stores a session at `meta`, not only at `done`
  (`docs/api-reference.md:1174`; `Companion.tsx:229`).
- A late session list drops the stored session of a newer conversation
  (`docs/system-design.md:263`; `Companion.tsx:131`).
- When long chunks of the best material use up the limits, a later hit is not in
  the context, and the chunk that was hit itself need not be
  (`docs/blog/building-production-rag-with-pgvector.md:182`; `repository/rag.go:308`).
- A rerank that uses up the total time fails the question instead of degrading
  it: the expansion has no time left (same text, line 175; `service/agent.go:277`).
- The agent's `done` event carries no token counts: the usage of a chat is never
  recorded and its daily limit is never reached (`docs/api-reference.md:1182`;
  `docs/prd-security-reliability.md:11`; `handler/agent.go:244`).
- `docs/api-reference.md:657` speaks of up to three retries where the code makes
  three attempts in all; the unique index of chunks is documented on (material,
  index) and includes the version since migration 0008; the run status `stale` is
  never written.

## 6. Not modelled, and what is left

Out of scope: object storage, model providers, the cache, prompts, rendering,
configuration, metrics, evaluation and deployment are I/O or data. Learning
records, notes, plans and quizzes are single statements on one row, read and
written by one user; what comes before a plan or a quiz is in `Admission`.

Left out of modelled parts: creating a teacher team with its random code and the
listings (`Teams`); registration, passwords and access tokens (`TokenRotation`);
citations and their validation, feedback and the record of a run (`ChatTurn`);
the reader, teams and learning pages, which load and show;
the texts of an uploaded txt file that a user clears (`ParsePipeline`: its texts
are not empty).

Left, in this order:

1. `DocumentPipeline` – sections, chunk sizes and overlaps, neighbours as operators
   checked against reference definitions over bounded documents; what a txt/md
   parse reads when the text is empty.
2. The safety that `Recovers` and `RecordedEndIsShown` rest on, stated as invariants
   and proved: that a blocked circuit has a moment at which it admits a trial, and
   that a list which shows a parse in progress will be asked for again.
