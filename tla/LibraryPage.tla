----------------------------- MODULE LibraryPage -----------------------------
(***************************************************************************)
(* The library page (frontend/src/pages/Library.tsx) and what it polls:    *)
(* materials.parse_status, and rag_processing_runs, which the agent writes *)
(* as it parses (agent/rag/orchestrator.py _record_processing_stage) and   *)
(* whose failures it only logs.  The page shows the materials of one team; *)
(* while one of them is in progress it polls their runs, and a run that    *)
(* has ended makes it load the list again.                                 *)
(*                                                                         *)
(* The pipeline is that of ParsePipeline, seen from outside: the status of *)
(* a row and the run of its present generation.  Texts, titles, files and  *)
(* the names of stages are left out; so is leaving the page, which drops   *)
(* everything.                                                             *)
(***************************************************************************)

CONSTANTS
  Teams, Materials,
  TeamOf,     \* the team of each material
  First,      \* the first team of the list
  Writable,   \* the teams the user may write to
  None,       \* no team, no material
  Requests,   \* requests of the page on their way
  NoRequest

ASSUME LibraryAssumption ==
  /\ First \in Teams /\ Writable \subseteq Teams
  /\ TeamOf \in [Materials -> Teams]
  /\ None \notin Teams \cup Materials
  /\ NoRequest \notin Requests

VARIABLES
  status,     \* materials.parse_status; "none" before and after the row
  run,        \* the status of the run of the row's generation, or "none"
  team,       \* teamId
  shown,      \* materials: a function from those listed to their status
  staged,     \* processing: the materials of which a stage is known
  canWrite, loading, form, saving,
  retrying,   \* retryingId
  reload,     \* is the timer of reloadTimerRef running?
  latest,     \* materialsRequestRef and its like: the request of each kind that
              \* the page waits for
  req         \* the requests

rowVars  == <<status, run>>
viewVars == <<team, shown, staged, canWrite, loading, form, saving, retrying, reload>>
vars == <<rowVars, viewVars, latest, req>>

InProgress == {"pending", "parsing"}
Ended      == {"done", "failed"}
Existing   == InProgress \cup Ended
Statuses   == Existing \cup {"none"}
RunStates  == Ended \cup {"none", "running"}
Kinds      == {"list", "poll", "create", "retry"}

Nothing == [m \in {} |-> "none"]
Listings == UNION {[S -> Statuses \cup RunStates] : S \in SUBSET Materials}

Request == [kind: Kinds \cup {"none"}, pc: {"sent", "answered", "failed"},
            team: Teams \cup {None}, about: SUBSET Materials, data: Listings]
NoReq   == [kind |-> "none", pc |-> "sent", team |-> None, about |-> {}, data |-> Nothing]

\* Rows, runs, page and requests are what they are declared as.
TypeOK ==
  /\ status \in [Materials -> Statuses] /\ run \in [Materials -> RunStates]
  /\ team \in Teams \cup {None}
  /\ shown \in Listings /\ staged \subseteq Materials
  /\ {canWrite, loading, form, saving, reload} \subseteq BOOLEAN
  /\ retrying \in Materials \cup {None}
  /\ latest \in [Kinds -> Requests \cup {NoRequest}]
  /\ req \in [Requests -> Request]

Init ==
  /\ status \in [Materials -> {"none", "pending", "done"}]
  /\ run = [m \in Materials |-> IF status[m] = "done" THEN "done" ELSE "none"]
  /\ team = None /\ shown = Nothing /\ staged = {}
  /\ canWrite = FALSE /\ loading = FALSE /\ form = FALSE /\ saving = FALSE
  /\ retrying = None /\ reload = FALSE
  /\ latest = [k \in Kinds |-> NoRequest]
  /\ req = [r \in Requests |-> NoReq]

-----------------------------------------------------------------------------
(* The pipeline.                                                            *)

SetStatus(m, s) == status' = [status EXCEPT ![m] = s]

\* A new row, an edit, a retry: the generation that begins has no run.
Queue(m) ==
  /\ SetStatus(m, "pending")
  /\ run' = [run EXCEPT ![m] = "none"]

\* An edit by somebody else, or a restart that queues an interrupted parse.
Requeue(m) == status[m] \in Existing /\ Queue(m)

Claim(m) ==
  /\ status[m] = "pending" /\ SetStatus(m, "parsing")
  /\ UNCHANGED run

\* A stage begins, the attempt fails, or it has committed its chunks.  Attempts
\* that are late write what they have come to, and each write may be lost.
Record(m) ==
  /\ status[m] \in {"parsing"} \cup Ended
  /\ \E s \in {"running", "failed", "done"} : run' = [run EXCEPT ![m] = s]
  /\ UNCHANGED status

Finish(m) ==
  /\ status[m] = "parsing" /\ \E s \in Ended : SetStatus(m, s)
  /\ UNCHANGED run

Delete(m) ==
  /\ status[m] \in Existing /\ SetStatus(m, "none")
  /\ run' = [run EXCEPT ![m] = "none"]

PipelineNext ==
  /\ \E m \in Materials :
       Requeue(m) \/ Claim(m) \/ Record(m) \/ Finish(m) \/ Delete(m)
  /\ UNCHANGED <<viewVars, latest, req>>

-----------------------------------------------------------------------------
(* Requests.                                                                *)

Sends(r, kind, t, about) ==
  req' = [req EXCEPT ![r] = [NoReq EXCEPT !.kind = kind, !.team = t, !.about = about]]

Answers(r, data) == req' = [req EXCEPT ![r].pc = "answered", ![r].data = data]

\* GET /teams/:id/materials
ServeList(r) ==
  /\ req[r].kind = "list" /\ req[r].pc = "sent"
  /\ LET rows == {m \in Materials : TeamOf[m] = req[r].team /\ status[m] \in Existing}
     IN Answers(r, [m \in rows |-> status[m]])
  /\ UNCHANGED <<rowVars, viewVars, latest>>

\* GET /materials/:id/processing, one for each material in progress.  (They run
\* at the same time; what one answers does not bear on the others.)
ServePoll(r) ==
  /\ req[r].kind = "poll" /\ req[r].pc = "sent"
  /\ Answers(r, [m \in req[r].about |-> run[m]])
  /\ UNCHANGED <<rowVars, viewVars, latest>>

ServeCreate(r) ==
  /\ req[r].kind = "create" /\ req[r].pc = "sent"
  /\ \E m \in Materials : TeamOf[m] = req[r].team /\ status[m] = "none" /\ Queue(m)
  /\ Answers(r, Nothing) \/ req' = [req EXCEPT ![r].pc = "failed"]
  /\ UNCHANGED <<viewVars, latest>>

\* RetryParse answers with a status it has computed itself.
ServeRetry(r) ==
  /\ req[r].kind = "retry" /\ req[r].pc = "sent"
  /\ \E m \in req[r].about : status[m] = "failed" /\ Queue(m)
  /\ Answers(r, [m \in req[r].about |-> "pending"]) \/ req' = [req EXCEPT ![r].pc = "failed"]
  /\ UNCHANGED <<viewVars, latest>>

\* An error of the backend or of the network; a retry of what has not failed.
Fail(r) ==
  /\ req[r].kind # "none" /\ req[r].pc = "sent"
  /\ req' = [req EXCEPT ![r].pc = "failed"]
  /\ UNCHANGED <<rowVars, viewVars, latest>>

ServerNext(r) == ServeList(r) \/ ServePoll(r) \/ ServeCreate(r) \/ ServeRetry(r) \/ Fail(r)

-----------------------------------------------------------------------------
(* The page.                                                                *)

Done(r) == req' = [req EXCEPT ![r] = NoReq]

\* isCurrentRequest
Current(r) == latest[req[r].kind] = r /\ req[r].team = team

Active(list) == {m \in DOMAIN list : list[m] \in InProgress}

\* setMaterials with the effect it causes: the polls and the timer of the list
\* before are dropped, and the list is polled at once if something is in progress.
Show(r, list) ==
  /\ shown' = list /\ reload' = FALSE
  /\ IF Active(list) = {}
     THEN Done(r) /\ latest' = [latest EXCEPT ![req[r].kind] = NoRequest, !.poll = NoRequest]
     ELSE /\ Sends(r, "poll", team, Active(list))
          /\ latest' = [latest EXCEPT ![req[r].kind] = NoRequest, !.poll = r]

\* The answer changes no list.
Drop(r) == Done(r) /\ latest' = [latest EXCEPT ![req[r].kind] = NoRequest]

\* loadMaterials
LoadMaterials(r) ==
  /\ loading' = TRUE /\ shown' = Nothing /\ canWrite' = FALSE /\ reload' = FALSE
  /\ Sends(r, "list", team, {})

\* A team is selected, the first one when the teams arrive: the layout effect
\* forgets all that belongs to the team before.
Enter(t, r) ==
  /\ t # team /\ req[r].kind = "none"
  /\ IF team = None THEN t = First ELSE TRUE
  /\ team' = t
  /\ shown' = Nothing /\ staged' = {} /\ canWrite' = FALSE /\ loading' = TRUE
  /\ form' = FALSE /\ saving' = FALSE /\ retrying' = None /\ reload' = FALSE
  /\ Sends(r, "list", t, {})
  /\ latest' = [k \in Kinds |-> IF k = "list" THEN r ELSE NoRequest]
  /\ UNCHANGED rowVars

\* What nobody waits for any more is ignored.
Ignore(r) ==
  /\ req[r].kind # "none" /\ req[r].pc # "sent" /\ ~Current(r)
  /\ req' = [req EXCEPT ![r] = NoReq]
  /\ UNCHANGED <<rowVars, viewVars, latest>>

Arrives(r, kind) == req[r].kind = kind /\ req[r].pc # "sent" /\ Current(r)

\* (mutant of ReceiveList) the list is shown whoever waits for it.
ReceiveAnyList(r) ==
  /\ req[r].kind = "list" /\ req[r].pc # "sent"
  /\ loading' = FALSE
  /\ \/ /\ req[r].pc = "answered" /\ Show(r, req[r].data)
        /\ canWrite' = (req[r].team \in Writable)
     \/ req[r].pc = "failed" /\ Drop(r) /\ UNCHANGED <<shown, reload, canWrite>>
  /\ UNCHANGED <<rowVars, team, staged, form, saving, retrying>>

\* After an error the list stays empty.
ReceiveList(r) ==
  /\ Arrives(r, "list") /\ loading' = FALSE
  /\ \/ /\ req[r].pc = "answered" /\ Show(r, req[r].data)
        /\ canWrite' = (req[r].team \in Writable)
     \/ req[r].pc = "failed" /\ Drop(r) /\ UNCHANGED <<shown, reload, canWrite>>
  /\ UNCHANGED <<rowVars, team, staged, form, saving, retrying>>

\* The interval: a new poll supersedes the one before, answered or not.
Poll(r) ==
  /\ Active(shown) # {} /\ req[r].kind = "none"
  /\ Sends(r, "poll", team, Active(shown)) /\ latest' = [latest EXCEPT !.poll = r]
  /\ UNCHANGED <<rowVars, viewVars>>

\* (mutant of ReceivePoll) only a run that is done makes the page load its list.
ReceivePollDone(r) ==
  /\ Arrives(r, "poll") /\ Drop(r)
  /\ staged' = staged \cup {m \in DOMAIN req[r].data : req[r].data[m] # "none"}
  /\ reload' = (reload \/ \E m \in DOMAIN req[r].data : req[r].data[m] = "done")
  /\ UNCHANGED <<rowVars, team, shown, canWrite, loading, form, saving, retrying>>

\* One poll that fails makes all of them fail; nothing happens then.
ReceivePoll(r) ==
  /\ Arrives(r, "poll") /\ Drop(r)
  /\ staged' = staged \cup {m \in DOMAIN req[r].data : req[r].data[m] # "none"}
  /\ reload' = (reload \/ \E m \in DOMAIN req[r].data : req[r].data[m] \in Ended)
  /\ UNCHANGED <<rowVars, team, shown, canWrite, loading, form, saving, retrying>>

ReloadFires(r) ==
  /\ reload /\ req[r].kind = "none"
  /\ LoadMaterials(r)
  /\ latest' = [latest EXCEPT !.list = r, !.poll = NoRequest]
  /\ UNCHANGED <<rowVars, team, staged, form, saving, retrying>>

ToggleForm ==
  /\ canWrite /\ form' = ~form
  /\ UNCHANGED <<rowVars, team, shown, staged, canWrite, loading, saving, retrying, reload, latest, req>>

Create(r) ==
  /\ form /\ ~saving /\ req[r].kind = "none"
  /\ saving' = TRUE
  /\ Sends(r, "create", team, {}) /\ latest' = [latest EXCEPT !.create = r]
  /\ UNCHANGED <<rowVars, team, shown, staged, canWrite, loading, form, retrying, reload>>

\* A success closes the form and loads the list again.
ReceiveCreate(r) ==
  /\ Arrives(r, "create") /\ saving' = FALSE
  /\ \/ /\ req[r].pc = "answered" /\ form' = FALSE /\ LoadMaterials(r)
        /\ latest' = [latest EXCEPT !.create = NoRequest, !.list = r, !.poll = NoRequest]
     \/ req[r].pc = "failed" /\ Drop(r) /\ UNCHANGED <<form, loading, shown, canWrite, reload>>
  /\ UNCHANGED <<rowVars, team, staged, retrying>>

RetryParse(r, m) ==
  /\ m \in DOMAIN shown /\ shown[m] = "failed" /\ canWrite
  /\ retrying = None /\ req[r].kind = "none"
  /\ retrying' = m
  /\ Sends(r, "retry", team, {m}) /\ latest' = [latest EXCEPT !.retry = r]
  /\ UNCHANGED <<rowVars, team, shown, staged, canWrite, loading, form, saving, reload>>

\* The answer takes the place of the material, if it is listed.
ReceiveRetry(r) ==
  /\ Arrives(r, "retry") /\ retrying' = None
  /\ \/ /\ req[r].pc = "answered"
        /\ Show(r, [m \in DOMAIN shown |-> IF m \in req[r].about THEN req[r].data[m] ELSE shown[m]])
     \/ req[r].pc = "failed" /\ Drop(r) /\ UNCHANGED <<shown, reload>>
  /\ UNCHANGED <<rowVars, team, staged, canWrite, loading, form, saving>>

-----------------------------------------------------------------------------
Receives(r) == ReceiveList(r) \/ ReceivePoll(r) \/ ReceiveCreate(r) \/ ReceiveRetry(r) \/ Ignore(r)

PageNext ==
  \/ ToggleForm
  \/ \E r \in Requests :
       \/ Receives(r) \/ Poll(r) \/ ReloadFires(r) \/ Create(r)
       \/ \E t \in Teams : Enter(t, r)
       \/ \E m \in Materials : RetryParse(r, m)

Next == PipelineNext \/ PageNext \/ \E r \in Requests : ServerNext(r)

Spec == Init /\ [][Next]_vars

\* Every request is answered or fails, and the browser runs its timers and the
\* callbacks of what arrives.  Again and again a poll succeeds and is answered
\* before the interval sends the next one.  Users and the pipeline may stop.
FairSpec ==
  /\ Spec
  /\ SF_vars(\E r \in Requests : Poll(r)) /\ SF_vars(\E r \in Requests : ReloadFires(r))
  /\ SF_vars(\E r \in Requests : ServePoll(r) /\ Current(r))
  /\ SF_vars(\E r \in Requests : ReceivePoll(r) /\ req[r].pc = "answered")
  /\ \A r \in Requests : WF_vars(ServerNext(r)) /\ WF_vars(Receives(r))

-----------------------------------------------------------------------------
(***************************************************************************)
(* Properties.                                                             *)
(***************************************************************************)

Waits(kind) == \E r \in Requests : req[r].kind = kind /\ Current(r)

\* However late an answer of another team comes, the page shows and offers only
\* what belongs to its team; and a button is locked exactly while a request of
\* this team is on its way for it, so that none stays locked and none is sent
\* twice.
PageIsOfItsTeam ==
  /\ \A m \in DOMAIN shown \cup staged : TeamOf[m] = team
  /\ canWrite => team \in Writable
  /\ retrying # None => TeamOf[retrying] = team
  /\ saving = Waits("create") /\ loading = Waits("list") /\ (retrying # None) = Waits("retry")

\* The row has come to its end for good, and the page stays with its team.
SettledFor(m) == team = TeamOf[m] /\ status[m] \in Ended

ShownInProgress(m) == m \in DOMAIN shown /\ shown[m] \in InProgress

\* A parse whose end the agent has recorded does not stay in progress on the
\* page, whatever polls, reloads, uploads and retries cross each other.
RecordedEndIsShown ==
  \A m \in Materials :
    <>[](SettledFor(m) /\ run[m] \in Ended) => <>[]~ShownInProgress(m)

=============================================================================
