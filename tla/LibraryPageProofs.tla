-------------------------- MODULE LibraryPageProofs --------------------------
(***************************************************************************)
(* The library page shows and offers only what belongs to its team, for    *)
(* any number of teams, materials and requests on their way.               *)
(***************************************************************************)
EXTENDS LibraryPage, TLAPS

Values == Statuses \cup RunStates
OwnTeam(t) == {m \in Materials : TeamOf[m] = t}

\* What a request asks for and what it brings is of its team.
OfItsTeam(q) ==
  /\ q.about \cup DOMAIN q.data \subseteq OwnTeam(q.team)
  /\ q.kind = "retry" /\ q.pc = "answered" => DOMAIN q.data = q.about

\* The request that the page waits for is of its kind and of the page's team.
WaitInv ==
  \A k \in Kinds : latest[k] # NoRequest => req[latest[k]].kind = k /\ req[latest[k]].team = team

RequestInv == \A r \in Requests : OfItsTeam(req[r])

PageInv ==
  /\ DOMAIN shown \cup staged \subseteq OwnTeam(team)
  /\ canWrite => team \in Writable
  /\ retrying # None => TeamOf[retrying] = team
  /\ saving = (latest["create"] # NoRequest)
  /\ loading = (latest["list"] # NoRequest)
  /\ (retrying # None) = (latest["retry"] # NoRequest)

IInv == TypeOK /\ WaitInv /\ RequestInv /\ PageInv

-----------------------------------------------------------------------------
\* A function from some materials to values is a listing, and nothing else is.
LEMMA ListingFacts ==
  /\ \A S \in SUBSET Materials : \A f \in [S -> Values] : f \in Listings /\ DOMAIN f = S
  /\ \A f \in Listings : DOMAIN f \subseteq Materials /\ f \in [DOMAIN f -> Values]
  /\ Nothing \in Listings /\ DOMAIN Nothing = {}
<1>1. \A S \in SUBSET Materials : \A f \in [S -> Values] : f \in Listings /\ DOMAIN f = S
  BY DEF Listings, Values
<1>2. \A f \in Listings : DOMAIN f \subseteq Materials /\ f \in [DOMAIN f -> Values]
  BY DEF Listings, Values
<1>3. DOMAIN Nothing = {} /\ Nothing \in [{} -> Values]
  BY DEF Nothing
<1>4. Nothing \in Listings
  BY <1>1, <1>3
<1> QED BY <1>1, <1>2, <1>3, <1>4

\* A free slot is a request without a team.
LEMMA FreeSlot ==
  /\ NoReq \in Request /\ OfItsTeam(NoReq)
  /\ NoReq = [kind |-> "none", pc |-> "sent", team |-> None, about |-> {}, data |-> Nothing]
BY ListingFacts DEF NoReq, Request, OfItsTeam, OwnTeam

\* A request that is sent has brought nothing yet.
LEMMA Sent ==
  ASSUME TypeOK, NEW r \in Requests, NEW k \in Kinds, NEW t \in Teams \cup {None},
         NEW S \in SUBSET OwnTeam(t), Sends(r, k, t, S)
  PROVE  /\ req' \in [Requests -> Request]
         /\ req'[r].kind = k /\ req'[r].team = t /\ OfItsTeam(req'[r])
         /\ \A s \in Requests \ {r} : req'[s] = req[s]
<1> DEFINE q == [NoReq EXCEPT !.kind = k, !.team = t, !.about = S]
<1>1. S \in SUBSET Materials
  BY DEF OwnTeam
<1>2. q \in Request
  BY <1>1, FreeSlot DEF Request
<1>3. q.kind = k /\ q.team = t /\ q.about = S /\ q.pc = "sent" /\ q.data = Nothing
  BY FreeSlot DEF Request
<1>4. OfItsTeam(q)
  BY <1>3, ListingFacts DEF OfItsTeam
<1>5. req' = [req EXCEPT ![r] = q]
  BY DEF Sends
<1> HIDE DEF q
<1> QED BY <1>2, <1>3, <1>4, <1>5 DEF TypeOK

\* A request that is over leaves a free slot.
LEMMA Over ==
  ASSUME TypeOK, NEW r \in Requests, Done(r)
  PROVE  /\ req' \in [Requests -> Request] /\ OfItsTeam(req'[r])
         /\ \A s \in Requests \ {r} : req'[s] = req[s]
BY FreeSlot DEF TypeOK, Done

\* An answer keeps what the request is.
LEMMA Answered ==
  ASSUME TypeOK, RequestInv, NEW r \in Requests, NEW d \in Listings, Answers(r, d),
         DOMAIN d \subseteq OwnTeam(req[r].team),
         req[r].kind = "retry" => DOMAIN d = req[r].about
  PROVE  /\ req' \in [Requests -> Request]
         /\ req'[r].kind = req[r].kind /\ req'[r].team = req[r].team /\ OfItsTeam(req'[r])
         /\ \A s \in Requests \ {r} : req'[s] = req[s]
<1>1. req[r] \in Request
  BY DEF TypeOK
<1> DEFINE q == [req[r] EXCEPT !.pc = "answered", !.data = d]
<1>2. q \in Request
  BY <1>1 DEF Request
<1>3. /\ q.kind = req[r].kind /\ q.team = req[r].team /\ q.about = req[r].about
      /\ q.data = d
  BY <1>1 DEF Request
<1>4. OfItsTeam(q)
  BY <1>3 DEF RequestInv, OfItsTeam
<1>5. req' = [req EXCEPT ![r] = q]
  BY DEF Answers, TypeOK
<1> HIDE DEF q
<1> QED BY <1>2, <1>3, <1>4, <1>5 DEF TypeOK

\* So does a failure.
LEMMA Failed ==
  ASSUME TypeOK, RequestInv, NEW r \in Requests, req' = [req EXCEPT ![r].pc = "failed"]
  PROVE  /\ req' \in [Requests -> Request]
         /\ req'[r].kind = req[r].kind /\ req'[r].team = req[r].team /\ OfItsTeam(req'[r])
         /\ \A s \in Requests \ {r} : req'[s] = req[s]
<1>1. req[r] \in Request
  BY DEF TypeOK
<1> DEFINE q == [req[r] EXCEPT !.pc = "failed"]
<1>2. q \in Request
  BY <1>1 DEF Request
<1>3. /\ q.kind = req[r].kind /\ q.team = req[r].team /\ q.about = req[r].about
      /\ q.data = req[r].data /\ q.pc = "failed"
  BY <1>1 DEF Request
<1>4. OfItsTeam(q)
  BY <1>3 DEF RequestInv, OfItsTeam
<1>5. req' = [req EXCEPT ![r] = q]
  BY DEF TypeOK
<1> HIDE DEF q
<1> QED BY <1>2, <1>3, <1>4, <1>5 DEF TypeOK

\* Nobody waits for a slot that is free.
LEMMA FreeIsNotAwaited ==
  ASSUME TypeOK, WaitInv, NEW r \in Requests, req[r].kind = "none"
  PROVE  \A k \in Kinds : latest[k] # r
BY LibraryAssumption DEF WaitInv, Kinds

\* The page waits for a request under its own kind only.
LEMMA OneKind ==
  ASSUME TypeOK, WaitInv, NEW r \in Requests
  PROVE  \A k \in Kinds : latest[k] = r => req[r].kind = k /\ req[r].team = team
BY LibraryAssumption DEF WaitInv

-----------------------------------------------------------------------------
\* The pipeline touches neither the page nor its requests.
LEMMA PipelineStep ==
  ASSUME IInv, PipelineNext
  PROVE  IInv'
<1>1. status' \in [Materials -> Statuses] /\ run' \in [Materials -> RunStates]
  BY DEF IInv, TypeOK, PipelineNext, Requeue, Queue, SetStatus, Claim, Record, Finish, Delete,
     Statuses, Existing, InProgress, Ended, RunStates
<1>2. TypeOK'
  BY <1>1 DEF IInv, TypeOK, PipelineNext, viewVars
<1> QED BY <1>2 DEF IInv, WaitInv, RequestInv, PageInv, PipelineNext, viewVars

\* What the backend does with a request leaves the page as it is.
LEMMA ServerKeeps ==
  ASSUME IInv, NEW r \in Requests, viewVars' = viewVars, latest' = latest,
         status' \in [Materials -> Statuses], run' \in [Materials -> RunStates],
         req' \in [Requests -> Request],
         req'[r].kind = req[r].kind, req'[r].team = req[r].team, OfItsTeam(req'[r]),
         \A s \in Requests \ {r} : req'[s] = req[s]
  PROVE  IInv'
<1>1. TypeOK'
  BY DEF IInv, TypeOK, viewVars
<1>2. WaitInv'
  BY DEF IInv, TypeOK, WaitInv, viewVars
<1>3. RequestInv'
  BY DEF IInv, RequestInv, OfItsTeam
<1>4. PageInv'
  BY DEF IInv, PageInv, viewVars
<1> QED BY <1>1, <1>2, <1>3, <1>4 DEF IInv

\* Answers and failures: what a list brings is of the team it was asked for.
LEMMA ServerStep ==
  ASSUME IInv, NEW r \in Requests, ServerNext(r)
  PROVE  IInv'
<1> USE DEF IInv
<1>1. CASE ServeList(r)
  <2> DEFINE rows == {m \in Materials : TeamOf[m] = req[r].team /\ status[m] \in Existing}
             d == [m \in rows |-> status[m]]
  <2>1. d \in Listings /\ DOMAIN d = rows
    <3>1. d \in [rows -> Values]
      BY DEF TypeOK, Values
    <3> QED BY <3>1, ListingFacts
  <2>2. DOMAIN d \subseteq OwnTeam(req[r].team)
    BY <2>1 DEF OwnTeam
  <2>3. Answers(r, d) /\ req[r].kind = "list"
    BY <1>1 DEF ServeList
  <2> HIDE DEF d
  <2> QED BY <1>1, <2>1, <2>2, <2>3, Answered, ServerKeeps DEF ServeList, rowVars, TypeOK
<1>2. CASE ServePoll(r)
  <2> DEFINE d == [m \in req[r].about |-> run[m]]
  <2>1. req[r].about \in SUBSET Materials
    BY DEF TypeOK, Request
  <2>2. d \in Listings /\ DOMAIN d = req[r].about
    <3>1. d \in [req[r].about -> Values]
      BY <2>1 DEF TypeOK, Values
    <3> QED BY <2>1, <3>1, ListingFacts
  <2>3. DOMAIN d \subseteq OwnTeam(req[r].team)
    BY <2>2 DEF RequestInv, OfItsTeam
  <2>4. Answers(r, d) /\ req[r].kind = "poll"
    BY <1>2 DEF ServePoll
  <2> HIDE DEF d
  <2> QED BY <1>2, <2>2, <2>3, <2>4, Answered, ServerKeeps DEF ServePoll, rowVars, TypeOK
<1>3. CASE ServeCreate(r)
  <2>1. status' \in [Materials -> Statuses] /\ run' \in [Materials -> RunStates]
    BY <1>3 DEF ServeCreate, Queue, SetStatus, TypeOK, Statuses, Existing, InProgress, RunStates
  <2>2. CASE Answers(r, Nothing)
    BY <1>3, <2>1, <2>2, ListingFacts, Answered, ServerKeeps DEF ServeCreate
  <2>3. CASE req' = [req EXCEPT ![r].pc = "failed"]
    BY <1>3, <2>1, <2>3, Failed, ServerKeeps DEF ServeCreate
  <2> QED BY <1>3, <2>2, <2>3 DEF ServeCreate
<1>4. CASE ServeRetry(r)
  <2>1. status' \in [Materials -> Statuses] /\ run' \in [Materials -> RunStates]
    BY <1>4 DEF ServeRetry, Queue, SetStatus, TypeOK, Statuses, Existing, InProgress, RunStates
  <2> DEFINE d == [m \in req[r].about |-> "pending"]
  <2>2. d \in Listings /\ DOMAIN d = req[r].about
    <3>1. req[r].about \in SUBSET Materials
      BY DEF TypeOK, Request
    <3>2. d \in [req[r].about -> Values]
      BY DEF Values, Statuses, Existing, InProgress
    <3> QED BY <3>1, <3>2, ListingFacts
  <2>3. DOMAIN d \subseteq OwnTeam(req[r].team)
    BY <2>2 DEF RequestInv, OfItsTeam
  <2>4. Answers(r, d) \/ req' = [req EXCEPT ![r].pc = "failed"]
    BY <1>4 DEF ServeRetry
  <2> HIDE DEF d
  <2>5. CASE Answers(r, d)
    BY <1>4, <2>1, <2>2, <2>3, <2>5, Answered, ServerKeeps DEF ServeRetry
  <2>6. CASE req' = [req EXCEPT ![r].pc = "failed"]
    BY <1>4, <2>1, <2>6, Failed, ServerKeeps DEF ServeRetry
  <2> QED BY <2>4, <2>5, <2>6
<1>5. CASE Fail(r)
  BY <1>5, Failed, ServerKeeps DEF Fail, rowVars, TypeOK
<1> QED BY <1>1, <1>2, <1>3, <1>4, <1>5 DEF ServerNext

-----------------------------------------------------------------------------
\* Another team: everything is forgotten, and the one request that the page
\* waits for is of that team.
LEMMA EnterStep ==
  ASSUME IInv, NEW r \in Requests, NEW t \in Teams, Enter(t, r)
  PROVE  IInv'
<1> USE DEF IInv
<1>1. /\ req' \in [Requests -> Request]
      /\ req'[r].kind = "list" /\ req'[r].team = t /\ OfItsTeam(req'[r])
      /\ \A s \in Requests \ {r} : req'[s] = req[s]
  BY Sent DEF Enter, Kinds
<1>2. TypeOK'
  BY <1>1, ListingFacts DEF Enter, TypeOK, rowVars, Kinds
<1>3. WaitInv'
  BY <1>1 DEF Enter, WaitInv, Kinds
<1>4. RequestInv'
  BY <1>1 DEF RequestInv, OfItsTeam
<1>5. PageInv'
  BY ListingFacts, LibraryAssumption DEF Enter, PageInv, Kinds
<1> QED BY <1>2, <1>3, <1>4, <1>5

\* What nobody waits for is dropped without a trace.
LEMMA IgnoreStep ==
  ASSUME IInv, NEW r \in Requests, Ignore(r)
  PROVE  IInv'
<1> USE DEF IInv
<1>1. /\ req' \in [Requests -> Request] /\ OfItsTeam(req'[r])
      /\ \A s \in Requests \ {r} : req'[s] = req[s]
  BY Over DEF Ignore, Done
<1>2. TypeOK'
  BY <1>1 DEF Ignore, TypeOK, rowVars, viewVars
<1>3. \A k \in Kinds : latest[k] # r
  BY OneKind DEF Ignore, Current
<1>4. WaitInv'
  BY <1>1, <1>3 DEF Ignore, WaitInv, viewVars, TypeOK
<1>5. RequestInv'
  BY <1>1 DEF RequestInv, OfItsTeam
<1>6. PageInv'
  BY DEF Ignore, PageInv, viewVars
<1> QED BY <1>2, <1>4, <1>5, <1>6

\* The button of the form.
LEMMA ToggleStep ==
  ASSUME IInv, ToggleForm
  PROVE  IInv'
BY DEF IInv, TypeOK, WaitInv, RequestInv, PageInv, ToggleForm, rowVars

\* A list that is shown ends the request that brought it, and the page waits
\* for the poll that it causes, if any.
LEMMA ShowStep ==
  ASSUME IInv, NEW r \in Requests, NEW k \in {"list", "retry"}, req[r].kind = k, Current(r),
         NEW list \in Listings, DOMAIN list \subseteq OwnTeam(team), Show(r, list), team' = team
  PROVE  /\ shown' = list /\ reload' = FALSE
         /\ req' \in [Requests -> Request]
         /\ latest' \in [Kinds -> Requests \cup {NoRequest}]
         /\ latest'[k] = NoRequest
         /\ \A j \in Kinds \ {k, "poll"} : latest'[j] = latest[j]
         /\ WaitInv' /\ RequestInv'
<1> USE DEF IInv
<1>1. /\ shown' = list /\ reload' = FALSE /\ k \in Kinds
      /\ latest[k] = r /\ team \in Teams \cup {None}
      /\ latest \in [Kinds -> Requests \cup {NoRequest}] /\ r # NoRequest
  BY LibraryAssumption DEF Show, Current, Kinds, TypeOK
<1>2. \A j \in Kinds : latest[j] = r => j = k
  BY OneKind
<1>3. CASE Active(list) = {}
  <2>1. Done(r) /\ latest' = [latest EXCEPT ![k] = NoRequest, !["poll"] = NoRequest]
    BY <1>3 DEF Show
  <2>2. /\ req' \in [Requests -> Request] /\ OfItsTeam(req'[r])
        /\ \A s \in Requests \ {r} : req'[s] = req[s]
    BY <2>1, Over
  <2>3. WaitInv'
    BY <1>1, <1>2, <2>1, <2>2 DEF WaitInv, Kinds
  <2>4. RequestInv'
    BY <2>2 DEF RequestInv, OfItsTeam
  <2> QED BY <1>1, <2>1, <2>2, <2>3, <2>4 DEF Kinds
<1>4. CASE Active(list) # {}
  <2>1. /\ Sends(r, "poll", team, Active(list))
        /\ latest' = [latest EXCEPT ![k] = NoRequest, !["poll"] = r]
    BY <1>4 DEF Show
  <2>2. Active(list) \subseteq OwnTeam(team)
    BY DEF Active
  <2>3. /\ req' \in [Requests -> Request]
        /\ req'[r].kind = "poll" /\ req'[r].team = team /\ OfItsTeam(req'[r])
        /\ \A s \in Requests \ {r} : req'[s] = req[s]
    BY <1>1, <2>1, <2>2, Sent DEF Kinds
  <2>4. WaitInv'
    BY <1>1, <1>2, <2>1, <2>3 DEF WaitInv, Kinds
  <2>5. RequestInv'
    BY <2>3 DEF RequestInv, OfItsTeam
  <2> QED BY <1>1, <2>1, <2>3, <2>4, <2>5 DEF Kinds
<1> QED BY <1>3, <1>4

\* An answer that changes no list only ends its request.
LEMMA DropStep ==
  ASSUME IInv, NEW r \in Requests, NEW k \in Kinds, req[r].kind = k, Current(r), Drop(r),
         team' = team
  PROVE  /\ req' \in [Requests -> Request]
         /\ latest' \in [Kinds -> Requests \cup {NoRequest}]
         /\ latest'[k] = NoRequest
         /\ \A j \in Kinds \ {k} : latest'[j] = latest[j]
         /\ WaitInv' /\ RequestInv'
<1> USE DEF IInv
<1>1. /\ latest[k] = r /\ latest \in [Kinds -> Requests \cup {NoRequest}]
      /\ latest' = [latest EXCEPT ![k] = NoRequest] /\ Done(r)
  BY DEF Drop, Current, TypeOK
<1>2. /\ req' \in [Requests -> Request] /\ OfItsTeam(req'[r])
      /\ \A s \in Requests \ {r} : req'[s] = req[s]
  BY <1>1, Over
<1>3. \A j \in Kinds : latest[j] = r => j = k
  BY OneKind
<1>4. WaitInv'
  BY <1>1, <1>2, <1>3 DEF WaitInv
<1>5. RequestInv'
  BY <1>2 DEF RequestInv, OfItsTeam
<1> QED BY <1>1, <1>2, <1>4, <1>5

\* A request that is sent from a free slot, and that the page now waits for.
LEMMA SendStep ==
  ASSUME IInv, NEW r \in Requests, req[r].kind = "none", NEW k \in Kinds,
         NEW S \in SUBSET OwnTeam(team), Sends(r, k, team, S), team' = team,
         latest' = [latest EXCEPT ![k] = r]
  PROVE  /\ req' \in [Requests -> Request]
         /\ latest' \in [Kinds -> Requests \cup {NoRequest}]
         /\ latest'[k] # NoRequest
         /\ \A j \in Kinds \ {k} : latest'[j] = latest[j]
         /\ WaitInv' /\ RequestInv'
<1> USE DEF IInv
<1>1. latest \in [Kinds -> Requests \cup {NoRequest}] /\ team \in Teams \cup {None}
  BY DEF TypeOK
<1>2. /\ req' \in [Requests -> Request]
      /\ req'[r].kind = k /\ req'[r].team = team /\ OfItsTeam(req'[r])
      /\ \A s \in Requests \ {r} : req'[s] = req[s]
  BY <1>1, Sent
<1>3. \A j \in Kinds : latest[j] # r
  BY FreeIsNotAwaited
<1>4. WaitInv'
  BY <1>1, <1>2, <1>3 DEF WaitInv
<1>5. RequestInv'
  BY <1>2 DEF RequestInv, OfItsTeam
<1> QED BY <1>1, <1>2, <1>4, <1>5, LibraryAssumption

-----------------------------------------------------------------------------
\* The list of the page's team arrives, or an error in its place.
LEMMA ReceiveListStep ==
  ASSUME IInv, NEW r \in Requests, ReceiveList(r)
  PROVE  IInv'
<1> USE DEF IInv
<1>1. req[r].kind = "list" /\ Current(r) /\ team' = team /\ req[r].team = team
  BY DEF ReceiveList, Arrives, Current
<1>2. CASE req[r].pc = "answered" /\ Show(r, req[r].data) /\ canWrite' = (req[r].team \in Writable)
  <2>1. req[r].data \in Listings /\ DOMAIN req[r].data \subseteq OwnTeam(team)
    BY <1>1 DEF TypeOK, Request, RequestInv, OfItsTeam
  <2>2. /\ shown' = req[r].data /\ reload' = FALSE
        /\ req' \in [Requests -> Request] /\ latest' \in [Kinds -> Requests \cup {NoRequest}]
        /\ latest'["list"] = NoRequest
        /\ \A j \in Kinds \ {"list", "poll"} : latest'[j] = latest[j]
        /\ WaitInv' /\ RequestInv'
    BY <1>1, <1>2, <2>1, ShowStep
  <2>3. TypeOK'
    <3>1. canWrite' \in BOOLEAN
      <4>1. canWrite' = (req[r].team \in Writable)
        BY <1>2
      <4>2. (req[r].team \in Writable) = TRUE \/ (req[r].team \in Writable) = FALSE
        OBVIOUS
      <4> QED BY <4>1, <4>2
    <3>2. {canWrite', loading', form', saving', reload'} \subseteq BOOLEAN
      BY <3>1, <2>2 DEF ReceiveList, TypeOK
    <3> QED BY <3>2, <2>1, <2>2 DEF ReceiveList, TypeOK, rowVars
  <2>4. PageInv'
    BY <1>1, <1>2, <2>1, <2>2 DEF ReceiveList, PageInv, Kinds
  <2> QED BY <2>2, <2>3, <2>4
<1>3. CASE Drop(r) /\ UNCHANGED <<shown, reload, canWrite>>
  <2>1. /\ req' \in [Requests -> Request] /\ latest' \in [Kinds -> Requests \cup {NoRequest}]
        /\ latest'["list"] = NoRequest
        /\ \A j \in Kinds \ {"list"} : latest'[j] = latest[j]
        /\ WaitInv' /\ RequestInv'
    BY <1>1, <1>3, DropStep DEF Kinds
  <2>2. TypeOK'
    BY <1>3, <2>1 DEF ReceiveList, TypeOK, rowVars
  <2>3. PageInv'
    BY <1>1, <1>3, <2>1 DEF ReceiveList, PageInv, Kinds
  <2> QED BY <2>1, <2>2, <2>3
<1> QED BY <1>2, <1>3 DEF ReceiveList

\* A poll is about what is listed.
LEMMA PollStep ==
  ASSUME IInv, NEW r \in Requests, Poll(r)
  PROVE  IInv'
<1> USE DEF IInv
<1>1. Active(shown) \subseteq OwnTeam(team)
  BY DEF Active, PageInv
<1>2. /\ req' \in [Requests -> Request] /\ latest' \in [Kinds -> Requests \cup {NoRequest}]
      /\ \A j \in Kinds \ {"poll"} : latest'[j] = latest[j]
      /\ WaitInv' /\ RequestInv'
  BY <1>1, SendStep DEF Poll, Kinds, viewVars
<1>3. TypeOK'
  BY <1>2 DEF Poll, TypeOK, rowVars, viewVars
<1>4. PageInv'
  BY <1>2 DEF Poll, PageInv, Kinds, viewVars
<1> QED BY <1>2, <1>3, <1>4

\* The stages it brings are of materials of the page's team.
LEMMA ReceivePollStep ==
  ASSUME IInv, NEW r \in Requests, ReceivePoll(r)
  PROVE  IInv'
<1> USE DEF IInv
<1>1. req[r].kind = "poll" /\ Current(r) /\ team' = team /\ req[r].team = team
  BY DEF ReceivePoll, Arrives, Current
<1>2. DOMAIN req[r].data \subseteq OwnTeam(team)
  BY <1>1 DEF RequestInv, OfItsTeam
<1>3. /\ req' \in [Requests -> Request] /\ latest' \in [Kinds -> Requests \cup {NoRequest}]
      /\ \A j \in Kinds \ {"poll"} : latest'[j] = latest[j]
      /\ WaitInv' /\ RequestInv'
  BY <1>1, DropStep DEF ReceivePoll, Kinds
<1>4. staged' \subseteq OwnTeam(team)
  BY <1>2 DEF ReceivePoll, PageInv
<1>5. reload' \in BOOLEAN
  BY DEF ReceivePoll, TypeOK
<1>6. TypeOK'
  BY <1>3, <1>4, <1>5 DEF ReceivePoll, TypeOK, rowVars, OwnTeam
<1>7. PageInv'
  BY <1>1, <1>3, <1>4 DEF ReceivePoll, PageInv, Kinds
<1> QED BY <1>3, <1>6, <1>7

\* The page empties its list and waits for the new one.
LEMMA ReloadStep ==
  ASSUME IInv, NEW r \in Requests, ReloadFires(r)
  PROVE  IInv'
<1> USE DEF IInv
<1>1. /\ team' = team /\ req[r].kind = "none" /\ {} \in SUBSET OwnTeam(team)
      /\ latest \in [Kinds -> Requests \cup {NoRequest}] /\ team \in Teams \cup {None}
      /\ latest' = [latest EXCEPT !["list"] = r, !["poll"] = NoRequest]
      /\ Sends(r, "list", team, {})
  BY DEF ReloadFires, LoadMaterials, TypeOK
<1>2. /\ req' \in [Requests -> Request]
      /\ req'[r].kind = "list" /\ req'[r].team = team /\ OfItsTeam(req'[r])
      /\ \A s \in Requests \ {r} : req'[s] = req[s]
  BY <1>1, Sent DEF Kinds
<1>3. WaitInv'
  BY <1>1, <1>2, FreeIsNotAwaited DEF WaitInv, Kinds
<1>4. RequestInv'
  BY <1>2 DEF RequestInv, OfItsTeam
<1>5. TypeOK'
  <2>1. latest' \in [Kinds -> Requests \cup {NoRequest}]
    BY <1>1 DEF Kinds
  <2>2. shown' \in Listings /\ {canWrite', loading', form', saving', reload'} \subseteq BOOLEAN
    BY ListingFacts DEF ReloadFires, LoadMaterials, TypeOK
  <2> QED BY <1>1, <1>2, <2>1, <2>2 DEF ReloadFires, TypeOK, rowVars
<1>6. PageInv'
  <2>1. /\ latest'["list"] # NoRequest /\ latest'["create"] = latest["create"]
        /\ latest'["retry"] = latest["retry"]
    BY <1>1, LibraryAssumption DEF Kinds
  <2>2. DOMAIN shown' = {} /\ canWrite' = FALSE /\ loading' = TRUE
    BY ListingFacts DEF ReloadFires, LoadMaterials
  <2>3. staged' = staged /\ retrying' = retrying /\ saving' = saving
    BY DEF ReloadFires
  <2> QED BY <1>1, <2>1, <2>2, <2>3 DEF PageInv
<1> QED BY <1>3, <1>4, <1>5, <1>6

\* The form is locked while its request is on its way.
LEMMA CreateStep ==
  ASSUME IInv, NEW r \in Requests, Create(r)
  PROVE  IInv'
<1> USE DEF IInv
<1>1. /\ req' \in [Requests -> Request] /\ latest' \in [Kinds -> Requests \cup {NoRequest}]
      /\ latest'["create"] # NoRequest
      /\ \A j \in Kinds \ {"create"} : latest'[j] = latest[j]
      /\ WaitInv' /\ RequestInv'
  <2>1. {} \in SUBSET OwnTeam(team) /\ "create" \in Kinds
    BY DEF Kinds
  <2>2. /\ req[r].kind = "none" /\ Sends(r, "create", team, {}) /\ team' = team
        /\ latest' = [latest EXCEPT !["create"] = r]
    BY DEF Create
  <2> QED BY <2>1, <2>2, SendStep
<1>2. TypeOK'
  BY <1>1 DEF Create, TypeOK, rowVars
<1>3. PageInv'
  BY <1>1 DEF Create, PageInv, Kinds
<1> QED BY <1>1, <1>2, <1>3

\* A success frees the form and has the list loaded again.
LEMMA ReceiveCreateStep ==
  ASSUME IInv, NEW r \in Requests, ReceiveCreate(r)
  PROVE  IInv'
<1> USE DEF IInv
<1>1. /\ req[r].kind = "create" /\ Current(r) /\ team' = team
      /\ latest \in [Kinds -> Requests \cup {NoRequest}] /\ team \in Teams \cup {None}
  BY DEF ReceiveCreate, Arrives, TypeOK
<1>2. CASE /\ form' = FALSE /\ LoadMaterials(r)
           /\ latest' = [latest EXCEPT !["create"] = NoRequest, !["list"] = r, !["poll"] = NoRequest]
  <2>1. /\ req' \in [Requests -> Request]
        /\ req'[r].kind = "list" /\ req'[r].team = team /\ OfItsTeam(req'[r])
        /\ \A s \in Requests \ {r} : req'[s] = req[s]
    BY <1>1, <1>2, Sent DEF LoadMaterials, Kinds
  <2>2. \A j \in Kinds : latest[j] = r => j = "create"
    BY <1>1, OneKind
  <2>3. WaitInv'
    BY <1>1, <1>2, <2>1, <2>2 DEF WaitInv, Kinds
  <2>4. RequestInv'
    BY <2>1 DEF RequestInv, OfItsTeam
  <2>5. TypeOK'
    BY <1>1, <1>2, <2>1, ListingFacts DEF ReceiveCreate, LoadMaterials, TypeOK, rowVars, Kinds
  <2>6. PageInv'
    <3>1. /\ latest'["list"] # NoRequest /\ latest'["create"] = NoRequest
          /\ latest'["retry"] = latest["retry"]
      BY <1>1, <1>2, LibraryAssumption DEF Kinds
    <3>2. DOMAIN shown' = {} /\ canWrite' = FALSE /\ loading' = TRUE /\ saving' = FALSE
      BY <1>2, ListingFacts DEF ReceiveCreate, LoadMaterials
    <3>3. staged' = staged /\ retrying' = retrying
      BY DEF ReceiveCreate
    <3> QED BY <1>1, <3>1, <3>2, <3>3 DEF PageInv
  <2> QED BY <2>3, <2>4, <2>5, <2>6
<1>3. CASE Drop(r) /\ UNCHANGED <<form, loading, shown, canWrite, reload>>
  <2>1. /\ req' \in [Requests -> Request] /\ latest' \in [Kinds -> Requests \cup {NoRequest}]
        /\ latest'["create"] = NoRequest
        /\ \A j \in Kinds \ {"create"} : latest'[j] = latest[j]
        /\ WaitInv' /\ RequestInv'
    BY <1>1, <1>3, DropStep DEF Kinds
  <2>2. TypeOK'
    BY <1>3, <2>1 DEF ReceiveCreate, TypeOK, rowVars
  <2>3. PageInv'
    BY <1>1, <1>3, <2>1 DEF ReceiveCreate, PageInv, Kinds
  <2> QED BY <2>1, <2>2, <2>3
<1> QED BY <1>2, <1>3 DEF ReceiveCreate

\* Only what is listed is parsed again, one at a time.
LEMMA RetryParseStep ==
  ASSUME IInv, NEW r \in Requests, NEW m \in Materials, RetryParse(r, m)
  PROVE  IInv'
<1> USE DEF IInv
<1>1. {m} \in SUBSET OwnTeam(team) /\ TeamOf[m] = team /\ m # None
  BY LibraryAssumption DEF RetryParse, PageInv, OwnTeam
<1>2. /\ req' \in [Requests -> Request] /\ latest' \in [Kinds -> Requests \cup {NoRequest}]
      /\ latest'["retry"] # NoRequest
      /\ \A j \in Kinds \ {"retry"} : latest'[j] = latest[j]
      /\ WaitInv' /\ RequestInv'
  BY <1>1, SendStep DEF RetryParse, Kinds
<1>3. TypeOK'
  BY <1>2 DEF RetryParse, TypeOK, rowVars
<1>4. PageInv'
  BY <1>1, <1>2 DEF RetryParse, PageInv, Kinds
<1> QED BY <1>2, <1>3, <1>4

\* Its answer changes the status of what is listed, and lists nothing else.
LEMMA ReceiveRetryStep ==
  ASSUME IInv, NEW r \in Requests, ReceiveRetry(r)
  PROVE  IInv'
<1> USE DEF IInv
<1>1. req[r].kind = "retry" /\ Current(r) /\ team' = team /\ retrying' = None
  BY DEF ReceiveRetry, Arrives
<1> DEFINE list == [m \in DOMAIN shown |-> IF m \in req[r].about THEN req[r].data[m] ELSE shown[m]]
<1>2. CASE req[r].pc = "answered" /\ Show(r, list)
  <2>1. /\ req[r].data \in Listings /\ DOMAIN req[r].data = req[r].about /\ shown \in Listings
    BY <1>1, <1>2 DEF TypeOK, Request, RequestInv, OfItsTeam
  <2>2. /\ req[r].data \in [req[r].about -> Values] /\ shown \in [DOMAIN shown -> Values]
        /\ DOMAIN shown \in SUBSET Materials
    BY <2>1, ListingFacts
  <2>3. list \in [DOMAIN shown -> Values]
    BY <2>2
  <2>4. list \in Listings /\ DOMAIN list = DOMAIN shown
    BY <2>2, <2>3, ListingFacts
  <2>5. DOMAIN list \subseteq OwnTeam(team)
    BY <2>4 DEF PageInv
  <2> HIDE DEF list
  <2>6. /\ shown' = list /\ reload' = FALSE
        /\ req' \in [Requests -> Request] /\ latest' \in [Kinds -> Requests \cup {NoRequest}]
        /\ latest'["retry"] = NoRequest
        /\ \A j \in Kinds \ {"retry", "poll"} : latest'[j] = latest[j]
        /\ WaitInv' /\ RequestInv'
    BY <1>1, <1>2, <2>4, <2>5, ShowStep
  <2>7. TypeOK'
    BY <1>1, <2>4, <2>6 DEF ReceiveRetry, TypeOK, rowVars
  <2>8. PageInv'
    BY <1>1, <2>5, <2>6 DEF ReceiveRetry, PageInv, Kinds
  <2> QED BY <2>6, <2>7, <2>8
<1>3. CASE Drop(r) /\ UNCHANGED <<shown, reload>>
  <2>1. /\ req' \in [Requests -> Request] /\ latest' \in [Kinds -> Requests \cup {NoRequest}]
        /\ latest'["retry"] = NoRequest
        /\ \A j \in Kinds \ {"retry"} : latest'[j] = latest[j]
        /\ WaitInv' /\ RequestInv'
    BY <1>1, <1>3, DropStep DEF Kinds
  <2>2. TypeOK'
    BY <1>1, <1>3, <2>1 DEF ReceiveRetry, TypeOK, rowVars
  <2>3. PageInv'
    BY <1>1, <1>3, <2>1 DEF ReceiveRetry, PageInv, Kinds
  <2> QED BY <2>1, <2>2, <2>3
<1> QED BY <1>2, <1>3 DEF ReceiveRetry

-----------------------------------------------------------------------------
\* The page begins without a team and waits for nothing.
LEMMA InitInv == Init => IInv
<1> SUFFICES ASSUME Init PROVE IInv
  OBVIOUS
<1>1. TypeOK
  <2>1. run \in [Materials -> RunStates]
    BY DEF Init, RunStates, Ended
  <2>2. status \in [Materials -> Statuses]
    BY DEF Init, Statuses, Existing, InProgress, Ended
  <2>3. req \in [Requests -> Request] /\ latest \in [Kinds -> Requests \cup {NoRequest}]
    BY FreeSlot DEF Init
  <2>4. shown \in Listings /\ {canWrite, loading, form, saving, reload} \subseteq BOOLEAN
    BY ListingFacts DEF Init
  <2> QED BY <2>1, <2>2, <2>3, <2>4 DEF Init, TypeOK
<1>2. WaitInv /\ RequestInv
  BY FreeSlot DEF Init, WaitInv, RequestInv
<1>3. PageInv
  BY ListingFacts DEF Init, PageInv, Kinds
<1> QED BY <1>1, <1>2, <1>3 DEF IInv

\* Every step keeps the invariant.
LEMMA NextInv == IInv /\ [Next]_vars => IInv'
<1> SUFFICES ASSUME IInv, [Next]_vars PROVE IInv'
  OBVIOUS
<1>1. CASE PipelineNext
  BY <1>1, PipelineStep
<1>2. ASSUME NEW r \in Requests, ServerNext(r) PROVE IInv'
  BY <1>2, ServerStep
<1>3. CASE ToggleForm
  BY <1>3, ToggleStep
<1>4. ASSUME NEW r \in Requests, Receives(r) PROVE IInv'
  BY <1>4, ReceiveListStep, ReceivePollStep, ReceiveCreateStep, ReceiveRetryStep, IgnoreStep
     DEF Receives
<1>5. ASSUME NEW r \in Requests, Poll(r) \/ ReloadFires(r) \/ Create(r) PROVE IInv'
  BY <1>5, PollStep, ReloadStep, CreateStep
<1>6. ASSUME NEW r \in Requests, NEW t \in Teams, Enter(t, r) PROVE IInv'
  BY <1>6, EnterStep
<1>7. ASSUME NEW r \in Requests, NEW m \in Materials, RetryParse(r, m) PROVE IInv'
  BY <1>7, RetryParseStep
<1>8. CASE UNCHANGED vars
  BY <1>8 DEF IInv, TypeOK, WaitInv, RequestInv, PageInv, vars, rowVars, viewVars
<1> QED BY <1>1, <1>2, <1>3, <1>4, <1>5, <1>6, <1>7, <1>8 DEF Next, PageNext

\* The inductive invariant: whatever the page waits for is of its own team, and
\* every request brings only what is of the team it was sent for.
THEOREM Invariant == Spec => []IInv
BY InitInv, NextInv, PTL DEF Spec

\* Rows, runs, the page and its requests keep their types, for any number of
\* teams, materials and requests.
THEOREM TypeCorrect == Spec => []TypeOK
<1>1. IInv => TypeOK
  BY DEF IInv
<1> QED BY <1>1, Invariant, PTL

\* However late answers arrive, the page shows and offers only what belongs to
\* its team, and a button is locked exactly while its request is on its way.
THEOREM PageShowsItsTeam == Spec => []PageIsOfItsTeam
<1>1. IInv => PageIsOfItsTeam
  <2> SUFFICES ASSUME IInv PROVE PageIsOfItsTeam
    OBVIOUS
  <2>1. \A k \in Kinds : Waits(k) <=> latest[k] # NoRequest
    <3> SUFFICES ASSUME NEW k \in Kinds PROVE Waits(k) <=> latest[k] # NoRequest
      OBVIOUS
    <3>1. latest[k] \in Requests \cup {NoRequest}
      BY DEF IInv, TypeOK
    <3> QED BY <3>1, LibraryAssumption DEF IInv, WaitInv, Waits, Current
  <2>2. saving = Waits("create") /\ loading = Waits("list") /\ (retrying # None) = Waits("retry")
    <3>1. /\ Waits("create") <=> latest["create"] # NoRequest
          /\ Waits("list") <=> latest["list"] # NoRequest
          /\ Waits("retry") <=> latest["retry"] # NoRequest
      BY <2>1 DEF Kinds
    <3>2. /\ Waits("create") \in BOOLEAN /\ Waits("list") \in BOOLEAN /\ Waits("retry") \in BOOLEAN
      BY Zenon DEF Waits
    <3> QED BY <3>1, <3>2 DEF IInv, PageInv
  <2> QED BY <2>2 DEF IInv, PageInv, PageIsOfItsTeam, OwnTeam
<1> QED BY <1>1, Invariant, PTL
=============================================================================
