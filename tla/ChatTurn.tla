------------------------------- MODULE ChatTurn -------------------------------
(***************************************************************************)
(* A chat with the study companion: the page (frontend/src/pages/          *)
(* Companion.tsx, api.ts chatStream), which keeps one session per scope in *)
(* the browser, and the backend's handling of every question               *)
(* (handler/agent.go chat, service/conversation.go), which stores the      *)
(* question, streams the agent's answer and stores it, while the user      *)
(* switches scopes, opens old sessions and starts new ones, materials are  *)
(* deleted with their sessions, and connections break.                     *)
(*                                                                         *)
(* Turn t is the t-th question; a session is named after the turn that     *)
(* created it.  The events of a stream wait in wire[t] until the page      *)
(* reads them.  Tokens are text and are left out.                          *)
(***************************************************************************)
EXTENDS Naturals, Sequences

CONSTANTS
  Scopes,      \* a material each, or Global
  Global,      \* the scope of the companion without a material
  MaxTurns,    \* bound: number of questions asked
  Loads,       \* slots for session lists and histories being fetched
  NoLoad,      \* "no load is the latest one"
  LeftOver,    \* scopes whose entry in the browser is of an earlier account
  KeepsLegacy  \* does "lb_chat_session" hold a session of an earlier account?

Turns    == 1..MaxTurns
Foreign  == MaxTurns + 1
Sessions == 0..Foreign     \* with 0 for undefined

ASSUME TurnsAssumption ==
  /\ MaxTurns \in Nat /\ NoLoad \notin Loads
  /\ LeftOver \subseteq Scopes /\ KeepsLegacy \in BOOLEAN

VARIABLES
  materials, \* the scopes there are: Global, and materials until they are deleted
  scopeOf,   \* agent_sessions: the scope each session was made for, {} for none yet
  messages,  \* agent_messages: what was inserted for each session, in order
  turn,      \* the handler of each question
  wire,      \* stream events on their way to the page
  scope,     \* the page: its materialId
  session,   \* sessionId
  stored,    \* the browser's lb_chat_session:* entries
  view,      \* the messages it shows
  busy,      \* busy
  current,   \* the turn chatRequestRef stands for, 0 for none
  latest,    \* the load historyRequestRef stands for
  loading,   \* historyLoading
  loads      \* fetches of session lists and histories

dbVars   == <<materials, scopeOf, messages>>
chatVars == <<session, stored, view, busy, current>>
pageVars == <<scope, session, stored, view, busy, current, latest, loading>>
vars == <<materials, scopeOf, messages, turn, wire, scope, session, stored, view, busy,
          current, latest, loading, loads>>

Message == [role: {"user", "assistant"}, turn: Turns]
Shown   == [role: {"user", "assistant"}, turn: Turns, saved: BOOLEAN, error: BOOLEAN]
Event   == {"meta", "done", "error", "end"}

Turn == [pc: {"none", "request", "append", "call", "stream", "save", "saved",
              "failed", "closed"},
         scope: Scopes \cup {Global}, session: Sessions, cut: BOOLEAN]
Load == [pc: {"idle", "list", "fetch"}, kind: {"mount", "open"},
         scope: Scopes \cup {Global}, target: Sessions, found: BOOLEAN]

NoTurn     == [pc |-> "none", scope |-> Global, session |-> 0, cut |-> FALSE]
NoLoadTask ==
  [pc |-> "idle", kind |-> "mount", scope |-> Global, target |-> 0, found |-> FALSE]

\* Besides the types: the page is shown as loading only while the latest load
\* is on its way.
TypeOK ==
  /\ materials \subseteq Scopes
  /\ scopeOf \in [Turns -> {{}} \cup {{s} : s \in Scopes}]
  /\ messages \in [Turns -> Seq(Message)]
  /\ turn \in [Turns -> Turn]
  /\ wire \in [Turns -> Seq(Event)]
  /\ scope \in Scopes /\ session \in Sessions /\ stored \in [Scopes -> Sessions]
  /\ view \in Seq(Shown) /\ busy \in BOOLEAN /\ current \in 0..MaxTurns
  /\ latest \in Loads \cup {NoLoad}
  /\ loads \in [Loads -> Load]
  /\ loading \in BOOLEAN
  /\ loading => latest # NoLoad /\ loads[latest].pc = "fetch"

-----------------------------------------------------------------------------
(* The tables.                                                              *)

\* The row of a session, and those of its messages, go with its material
\* (ON DELETE CASCADE).
Exists(s) == s \in Turns /\ \E m \in materials : scopeOf[s] = {m}

\* An insert fails without the row it refers to.
AppendMessage(s, role, t) ==
  /\ Exists(s)
  /\ messages' = [messages EXCEPT ![s] = Append(@, [role |-> role, turn |-> t])]

\* Anybody who may write to its team deletes a material.
DeleteMaterial(m) ==
  /\ m \in materials \ {Global}
  /\ materials' = materials \ {m}
  /\ UNCHANGED <<scopeOf, messages, turn, wire, pageVars, loads>>

-----------------------------------------------------------------------------
(* The page.                                                                *)

\* storedSession: the entry of the scope, or the one older versions wrote.
StoredSession(s) ==
  IF stored[s] # 0 THEN stored[s] ELSE IF s = Global /\ KeepsLegacy THEN Foreign ELSE 0

\* The load of a page that opens; without a stored session the list is for
\* display only and is left out.
MountLoad(s) ==
  IF StoredSession(s) = 0 THEN NoLoadTask
  ELSE [NoLoadTask EXCEPT !.pc = "list", !.scope = s, !.target = StoredSession(s),
                          !.found = Exists(StoredSession(s))]

\* The page has been opened for the first time.
Init ==
  /\ materials = Scopes
  /\ scopeOf = [s \in Turns |-> {}] /\ messages = [s \in Turns |-> <<>>]
  /\ turn = [t \in Turns |-> NoTurn] /\ wire = [t \in Turns |-> <<>>]
  /\ stored = [s \in Scopes |-> IF s \in LeftOver THEN Foreign ELSE 0]
  /\ scope \in Scopes /\ session = StoredSession(scope)
  /\ view = <<>> /\ busy = FALSE /\ current = 0 /\ loading = FALSE
  /\ latest \in Loads
  /\ loads = [l \in Loads |-> IF l = latest THEN MountLoad(scope) ELSE NoLoadTask]

\* (mutant of Mount) the turn on its way for the old scope is not disowned.
MountKeepingTurn(s, l) ==
  /\ loads[l].kind = "mount"
  /\ scope' = s /\ session' = StoredSession(s)
  /\ view' = <<>> /\ busy' = FALSE
  /\ latest' = l /\ loading' = FALSE
  /\ loads' = [k \in Loads |-> IF k = l THEN MountLoad(s)
                               ELSE IF loads[k].kind = "mount" THEN NoLoadTask ELSE loads[k]]
  /\ UNCHANGED <<dbVars, turn, wire, stored, current>>

\* The effect on materialId, also of a page that is opened again: the turn on
\* its way for the old one is disowned, its own loads ("active") are dropped.
Mount(s, l) ==
  /\ loads[l].kind = "mount"
  /\ scope' = s /\ session' = StoredSession(s)
  /\ view' = <<>> /\ busy' = FALSE /\ current' = 0
  /\ latest' = l /\ loading' = FALSE
  /\ loads' = [k \in Loads |-> IF k = l THEN MountLoad(s)
                               ELSE IF loads[k].kind = "mount" THEN NoLoadTask ELSE loads[k]]
  /\ UNCHANGED <<dbVars, turn, wire, stored>>

\* openSession, of any session of the scope (the list shows no others, and may
\* show one that is gone).
OpenSession(s, l) ==
  /\ ~busy /\ ~loading /\ loads[l].pc = "idle"
  /\ scopeOf[s] = {scope}
  /\ latest' = l /\ loading' = TRUE
  /\ loads' = [loads EXCEPT ![l] =
       [NoLoadTask EXCEPT !.pc = "fetch", !.kind = "open", !.scope = scope, !.target = s,
                          !.found = Exists(s)]]
  /\ UNCHANGED <<dbVars, turn, wire, scope, chatVars>>

\* (mutant of NewConversation) the page goes on showing that it loads.
NewConversationStillLoading ==
  /\ ~busy
  /\ latest' = NoLoad
  /\ session' = 0 /\ view' = <<>> /\ stored' = [stored EXCEPT ![scope] = 0]
  /\ UNCHANGED <<dbVars, turn, wire, scope, busy, current, loading, loads>>

NewConversation ==
  /\ ~busy
  /\ latest' = NoLoad /\ loading' = FALSE
  /\ session' = 0 /\ view' = <<>> /\ stored' = [stored EXCEPT ![scope] = 0]
  /\ UNCHANGED <<dbVars, turn, wire, scope, busy, current, loads>>

\* ask; the composer is disabled while the page is busy or loading.
Ask(t) ==
  /\ ~busy /\ ~loading
  /\ turn[t].pc = "none" /\ \A u \in 1..(t - 1) : turn[u].pc # "none"
  /\ latest' = NoLoad /\ current' = t /\ busy' = TRUE
  /\ view' = view \o [i \in 1..2 |->
       [role |-> <<"user", "assistant">>[i], turn |-> t, saved |-> FALSE, error |-> FALSE]]
  /\ turn' = [turn EXCEPT ![t] =
       [NoTurn EXCEPT !.pc = "request", !.scope = scope, !.session = session]]
  /\ UNCHANGED <<dbVars, wire, scope, session, stored, loading, loads>>

\* updateLastAssistant: the message id of "done", or the text of an error over
\* what the last message said.
UpdateLast(flag) ==
  view' = IF view = <<>> THEN view
          ELSE [view EXCEPT ![Len(view)].saved = (@ \/ flag = "saved"),
                            ![Len(view)].error = (@ \/ flag = "error")]

Arrives(t, e) ==
  /\ wire[t] # <<>> /\ Head(wire[t]) = e
  /\ wire' = [wire EXCEPT ![t] = Tail(@)]

IsCurrentRequest(t) == current = t

\* The session of an event becomes the page's and the stored one.
Adopt(t) ==
  /\ session' = turn[t].session
  /\ stored' = [stored EXCEPT ![turn[t].scope] = turn[t].session]

OnMeta(t) ==
  /\ Arrives(t, "meta") /\ IsCurrentRequest(t)
  /\ Adopt(t)
  /\ UNCHANGED <<dbVars, turn, scope, view, busy, current, latest, loading, loads>>

OnDone(t) ==
  /\ Arrives(t, "done") /\ IsCurrentRequest(t)
  /\ Adopt(t) /\ UpdateLast("saved")
  /\ UNCHANGED <<dbVars, turn, scope, busy, current, latest, loading, loads>>

\* The page's schema refuses the null that the handler sends as degraded_stages
\* when no stage was degraded: the event is dropped.
DropDone(t) ==
  /\ Arrives(t, "done") /\ IsCurrentRequest(t)
  /\ UNCHANGED <<dbVars, turn, pageVars, loads>>

\* (mutant of OnError) the composer waits for an end that may not come.
OnErrorStaysBusy(t) ==
  /\ Arrives(t, "error") /\ IsCurrentRequest(t)
  /\ UpdateLast("error")
  /\ UNCHANGED <<dbVars, turn, scope, session, stored, busy, current, latest, loading, loads>>

\* An error event, an HTTP error, or a connection that breaks (streamPost throws).
OnError(t) ==
  /\ Arrives(t, "error") /\ IsCurrentRequest(t)
  /\ UpdateLast("error") /\ busy' = FALSE
  /\ UNCHANGED <<dbVars, turn, scope, session, stored, current, latest, loading, loads>>

OnEnd(t) ==
  /\ Arrives(t, "end") /\ IsCurrentRequest(t)
  /\ busy' = FALSE
  /\ UNCHANGED <<dbVars, turn, scope, session, stored, view, current, latest, loading, loads>>

Ignored(t) ==
  /\ wire[t] # <<>> /\ ~IsCurrentRequest(t)
  /\ wire' = [wire EXCEPT ![t] = <<>>]
  /\ UNCHANGED <<dbVars, turn, pageVars, loads>>

-----------------------------------------------------------------------------
(* The loads of the page: GET /sessions when it is mounted, then GET        *)
(* /sessions/:id of the stored one; or the latter when the user opens one.  *)

SetLoad(l, new) == loads' = [loads EXCEPT ![l] = new]

\* "finally": the latest load ends the loading state.
EndLoading(l) == loading' = IF l = latest THEN FALSE ELSE loading

OfScope(l) == loads[l].target \in Turns /\ scopeOf[loads[l].target] = {loads[l].scope}

\* What is read between a request and its answer was there at the request, or is
\* gone by now: a session that is deleted meanwhile may be listed or not.
Listed(l)   == loads[l].found /\ OfScope(l)
Unlisted(l) == ~(Exists(loads[l].target) /\ OfScope(l))

\* The list lacks the session that was stored: it is forgotten.
ForgetSession(l) ==
  /\ loads[l].pc = "list" /\ Unlisted(l)
  /\ session' = 0 /\ stored' = [stored EXCEPT ![loads[l].scope] = 0]
  /\ SetLoad(l, NoLoadTask) /\ EndLoading(l)
  /\ UNCHANGED <<dbVars, turn, wire, scope, view, busy, current, latest>>

\* The stored session is listed and nothing came in between: fetch it.
FetchHistory(l) ==
  /\ loads[l].pc = "list" /\ Listed(l) /\ l = latest
  /\ SetLoad(l, [loads[l] EXCEPT !.pc = "fetch", !.found = Exists(loads[l].target)])
  /\ loading' = TRUE
  /\ UNCHANGED <<dbVars, turn, wire, scope, chatVars, latest>>

\* The stored session is listed, and the page has gone on.
EndOfList(l) ==
  /\ loads[l].pc = "list" /\ Listed(l) /\ l # latest
  /\ SetLoad(l, NoLoadTask) /\ EndLoading(l)
  /\ UNCHANGED <<dbVars, turn, wire, scope, chatVars, latest>>

\* The history arrives as it was when it was read: without the last messages,
\* perhaps.
Histories(s) ==
  {[i \in 1..k |->
      [role |-> messages[s][i].role, turn |-> messages[s][i].turn,
       saved |-> TRUE, error |-> FALSE]] :
     k \in 0..Len(messages[s])}

\* (mutant of ReceiveHistory) a history that was overtaken is shown too.
ReceiveAnyHistory(l) ==
  /\ loads[l].pc = "fetch" /\ loads[l].found
  /\ view' \in Histories(loads[l].target)
  /\ IF loads[l].kind = "open"
     THEN /\ session' = loads[l].target
          /\ stored' = [stored EXCEPT ![loads[l].scope] = loads[l].target]
     ELSE UNCHANGED <<session, stored>>
  /\ SetLoad(l, NoLoadTask) /\ EndLoading(l)
  /\ UNCHANGED <<dbVars, turn, wire, scope, busy, current, latest>>

ReceiveHistory(l) ==
  /\ loads[l].pc = "fetch" /\ loads[l].found
  /\ IF l = latest
     THEN /\ view' \in Histories(loads[l].target)
          /\ IF loads[l].kind = "open"
             THEN /\ session' = loads[l].target
                  /\ stored' = [stored EXCEPT ![loads[l].scope] = loads[l].target]
             ELSE UNCHANGED <<session, stored>>
     ELSE UNCHANGED <<view, session, stored>>
  /\ SetLoad(l, NoLoadTask) /\ EndLoading(l)
  /\ UNCHANGED <<dbVars, turn, wire, scope, busy, current, latest>>

\* An error, or the session is gone.
LoadFails(l) ==
  /\ loads[l].pc # "idle"
  /\ SetLoad(l, NoLoadTask) /\ EndLoading(l)
  /\ UNCHANGED <<dbVars, turn, wire, scope, chatVars, latest>>

-----------------------------------------------------------------------------
(* The handler of POST /agent/chat.  Its context ends with the connection.  *)

Goes(t, from, to) == turn[t].pc = from /\ turn' = [turn EXCEPT ![t].pc = to]

\* Events written to a connection that has broken are lost.
Send(t, events) == wire' = IF turn[t].cut THEN wire ELSE [wire EXCEPT ![t] = @ \o events]

\* A limit, a session or material that is gone or of another scope, a retrieval
\* or database error, or an agent that does not answer: an HTTP error, after
\* whatever was stored.
Refuse(t) ==
  /\ \/ \E pc \in {"request", "append", "call"} : Goes(t, pc, "closed") /\ UNCHANGED messages
     \/ Goes(t, "append", "closed") /\ AppendMessage(turn[t].session, "user", t)
  /\ Send(t, <<"error">>)
  /\ UNCHANGED <<materials, scopeOf, pageVars, loads>>

\* MessagesForScope finds the session, or NewSession makes one; both need the
\* material.
EnterSession(t) ==
  LET s == turn[t].session IN
  /\ turn[t].pc = "request"
  /\ turn[t].scope \in materials
  /\ \/ /\ s \in Turns /\ scopeOf[s] = {turn[t].scope}
        /\ turn' = [turn EXCEPT ![t].pc = "append"]
        /\ UNCHANGED scopeOf
     \/ /\ s = 0
        /\ turn' = [turn EXCEPT ![t].pc = "append", ![t].session = t]
        /\ scopeOf' = [scopeOf EXCEPT ![t] = {turn[t].scope}]
  /\ UNCHANGED <<materials, messages, wire, pageVars, loads>>

StoreQuestion(t) ==
  /\ Goes(t, "append", "call")
  /\ AppendMessage(turn[t].session, "user", t)
  /\ UNCHANGED <<materials, scopeOf, wire, pageVars, loads>>

StartStream(t) ==
  /\ Goes(t, "call", "stream")
  /\ Send(t, <<"meta">>)
  /\ UNCHANGED <<dbVars, pageVars, loads>>

\* The agent's done event after a text that is not empty.
AgentAnswers(t) ==
  /\ Goes(t, "stream", "save")
  /\ UNCHANGED <<dbVars, wire, pageVars, loads>>

\* Its error event, an early end of its stream, or an empty answer.
AgentFails(t) ==
  /\ Goes(t, "stream", "failed")
  /\ Send(t, <<"error">>)
  /\ UNCHANGED <<dbVars, pageVars, loads>>

StoreAnswer(t) ==
  /\ Goes(t, "save", "saved")
  /\ AppendMessage(turn[t].session, "assistant", t)
  /\ UNCHANGED <<materials, scopeOf, wire, pageVars, loads>>

\* The insert ends in an error, before or after its commit; without the session
\* it does.
StoreAnswerFails(t) ==
  /\ Goes(t, "save", "failed")
  /\ Send(t, <<"error">>)
  /\ UNCHANGED messages \/ AppendMessage(turn[t].session, "assistant", t)
  /\ UNCHANGED <<materials, scopeOf, pageVars, loads>>

\* (mutant of Finish) the agent's done event is passed on.
FinishUnsaved(t) ==
  /\ \E pc \in {"saved", "failed"} : Goes(t, pc, "closed")
  /\ Send(t, <<"done", "end">>)
  /\ UNCHANGED <<dbVars, pageVars, loads>>

\* The run is recorded, whatever comes of that, and the stream ends.
Finish(t) ==
  /\ \/ Goes(t, "saved", "closed") /\ Send(t, <<"done", "end">>)
     \/ Goes(t, "failed", "closed") /\ Send(t, <<"end">>)
  /\ UNCHANGED <<dbVars, pageVars, loads>>

\* The connection breaks, and events on their way may be lost.  The handler may
\* go on without noticing; what it sends is lost.
Break(t) ==
  /\ turn[t].pc # "none" /\ ~turn[t].cut
  /\ turn[t].pc # "closed" \/ wire[t] # <<>>
  /\ turn' = [turn EXCEPT ![t].cut = TRUE]
  /\ \E k \in 0..Len(wire[t]) :
       wire' = [wire EXCEPT ![t] = Append(SubSeq(@, 1, k), "error")]
  /\ UNCHANGED <<dbVars, pageVars, loads>>

\* The handler meets its cancelled context, or the backend has died.
Abandon(t) ==
  /\ turn[t].cut /\ turn[t].pc # "closed"
  /\ Goes(t, turn[t].pc, "closed")
  /\ UNCHANGED <<dbVars, wire, pageVars, loads>>

-----------------------------------------------------------------------------
UserNext ==
  \/ \E l \in Loads :
       \/ \E s \in Scopes : Mount(s, l)
       \/ \E s \in Turns : OpenSession(s, l)
  \/ NewConversation
  \/ \E t \in Turns : Ask(t)

EventNext(t) ==
  OnMeta(t) \/ OnDone(t) \/ DropDone(t) \/ OnError(t) \/ OnEnd(t) \/ Ignored(t)

LoadNext(l) ==
  \/ ForgetSession(l) \/ FetchHistory(l) \/ EndOfList(l)
  \/ ReceiveHistory(l) \/ LoadFails(l)

HandlerNext(t) ==
  \/ EnterSession(t) \/ StoreQuestion(t) \/ StartStream(t) \/ AgentAnswers(t)
  \/ AgentFails(t) \/ StoreAnswer(t) \/ StoreAnswerFails(t) \/ Finish(t)
  \/ Refuse(t) \/ Abandon(t)

Next ==
  \/ UserNext
  \/ \E t \in Turns : EventNext(t) \/ HandlerNext(t) \/ Break(t)
  \/ \E l \in Loads : LoadNext(l)
  \/ \E m \in Scopes : DeleteMaterial(m)

Spec == Init /\ [][Next]_vars

(***************************************************************************)
(* The browser runs the callbacks of what arrives; a request is answered   *)
(* or fails; and the handler goes on: reading the agent's stream ends with *)
(* the timeout of the http.Client (120 s), and database calls return.      *)
(***************************************************************************)
Fairness ==
  /\ \A t \in Turns : WF_vars(EventNext(t)) /\ WF_vars(HandlerNext(t))
  /\ \A l \in Loads : WF_vars(LoadNext(l))

FairSpec == Spec /\ Fairness

-----------------------------------------------------------------------------
(***************************************************************************)
(* Properties.                                                             *)
(***************************************************************************)
Holds(s, m) == \E i \in DOMAIN messages[s] : messages[s][i] = [role |-> m.role, turn |-> m.turn]

Saved(m) == \E s \in Turns : Exists(s) /\ Holds(s, m)

\* What the page shows as saved (and offers for feedback) is in the database, as
\* long as the material it was asked in exists: "done" is sent only once the
\* answer is stored, however the insert, the connection and later loads end, and
\* no deletion of another material takes it away.
DoneIsSaved ==
  \A i \in DOMAIN view :
    view[i].saved /\ turn[view[i].turn].scope \in materials => Saved(view[i])

\* Sessions keep to their scope: the page's session and the one the browser
\* stores for a scope are never of another, whatever arrives late.
ScopeIsolated ==
  /\ session \in Turns => scopeOf[session] = {scope}
  /\ \A s \in Scopes : stored[s] \in Turns => scopeOf[stored[s]] = {s}

\* The saved messages on the page were stored in the session that its next
\* question will continue: no late history or stream mixes two conversations.
OneConversation ==
  session \in Turns =>
    \A i \in DOMAIN view : view[i].saved => Holds(session, view[i])

\* The composer comes back: no question and no load leaves the page busy or
\* loading for ever.
ComposerComesBack == (busy ~> ~busy) /\ (loading ~> ~loading)
=============================================================================
