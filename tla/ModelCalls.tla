------------------------------ MODULE ModelCalls ------------------------------
(***************************************************************************)
(* The agent's calls of one model provider (agent/core/http_client.py):    *)
(* the circuit of its host, the slots of the sync and the async client,    *)
(* attempts with retries, and the local answer that takes the place of a   *)
(* failed one (services/llm.py, rag/orchestrator.py run_plan, run_quiz).   *)
(* Calls run in threads and coroutines; the circuit is read when a call    *)
(* begins and written when it ends, each under its lock.                   *)
(***************************************************************************)
EXTENDS Naturals, FiniteSets

CONSTANTS
  Calls,      \* calls at work at the same time
  Async,      \* those of the async client; the others hold a thread
  Slots,      \* requests each client sends at the same time
  Attempts,   \* external_retry_attempts + 1
  Threshold,  \* external_circuit_failures
  Reset       \* external_circuit_reset_s

ASSUME ModelCallsAssumption ==
  /\ {Slots, Attempts, Threshold, Reset} \subseteq Nat \ {0}
  /\ Async \subseteq Calls /\ IsFiniteSet(Calls)

VARIABLES
  up,        \* does the provider answer?
  failures,  \* of the circuit; what exceeds Threshold makes no difference
  openFor,   \* the time since opened_at, at most Reset; Closed for 0.0
  busy,      \* slots taken of the sync and of the async client
  call,      \* the calls
  streak,    \* history: failures since the last success, at most Threshold
  fresh      \* history: the time since the last failure, at most Reset

circuitVars == <<failures, openFor, streak, fresh>>
vars == <<up, failures, openFor, busy, call, streak, fresh>>

Closed == Reset + 1
Least(m, n) == IF m < n THEN m ELSE n

Call == [pc: {"idle", "slot", "send", "backoff", "fallback"}, attempt: 0..Attempts]
Idle == [pc |-> "idle", attempt |-> 0]

Clients == {"sync", "async"}
Client(c) == IF c \in Async THEN "async" ELSE "sync"
Sending(k) == {c \in Calls : Client(c) = k /\ call[c].pc = "send"}

\* Circuit, slots and calls are what they are declared as, and neither client
\* sends more requests than it has slots.
TypeOK ==
  /\ up \in BOOLEAN
  /\ failures \in 0..Threshold /\ openFor \in 0..Closed
  /\ busy \in [Clients -> 0..Slots]
  /\ call \in [Calls -> Call]
  /\ \A k \in Clients : Cardinality(Sending(k)) <= Slots
  /\ streak \in 0..Threshold /\ fresh \in 0..Reset

Init ==
  /\ up \in BOOLEAN
  /\ failures = 0 /\ openFor = Closed
  /\ busy = [k \in Clients |-> 0]
  /\ call = [c \in Calls |-> Idle]
  /\ streak = 0 /\ fresh = Reset

-----------------------------------------------------------------------------
(* The provider and the clock.                                              *)

Flip == up' = ~up /\ UNCHANGED <<circuitVars, busy, call>>

Tick ==
  /\ openFor' = IF openFor = Closed THEN Closed ELSE Least(openFor + 1, Reset)
  /\ fresh' = Least(fresh + 1, Reset)
  /\ UNCHANGED <<up, failures, busy, call, streak>>

-----------------------------------------------------------------------------
(* The circuit.                                                             *)

Goes(c, pc) == call' = [call EXCEPT ![c].pc = pc]

\* _circuit_allows.  The first caller after the reset time closes the circuit,
\* and all who come before Threshold new failures are let in after it.
LetIn(c) ==
  /\ call[c].pc = "idle"
  /\ \/ openFor = Closed /\ UNCHANGED <<failures, openFor>>
     \/ openFor = Reset /\ failures' = 0 /\ openFor' = Closed
  /\ Goes(c, "slot")
  /\ UNCHANGED <<up, busy, streak, fresh>>

\* (mutant of RecordSuccess) a success closes the circuit, the failures stay.
CloseOnly == openFor' = Closed /\ streak' = 0 /\ UNCHANGED <<failures, fresh>>

\* _record: also for a call that was let in before the circuit opened.
RecordSuccess == failures' = 0 /\ openFor' = Closed /\ streak' = 0 /\ UNCHANGED fresh

RecordFailure ==
  /\ failures' = Least(failures + 1, Threshold)
  /\ openFor' = IF failures + 1 >= Threshold THEN 0 ELSE openFor
  /\ streak' = Least(streak + 1, Threshold) /\ fresh' = 0

\* (mutant of TurnAway) a call that is turned away counts as a failure.
TurnAwayFailed(c) ==
  /\ call[c].pc = "idle" /\ openFor < Reset
  /\ Goes(c, "fallback") /\ RecordFailure
  /\ UNCHANGED <<up, busy>>

\* ExternalServiceUnavailable
TurnAway(c) ==
  /\ call[c].pc = "idle" /\ openFor < Reset
  /\ Goes(c, "fallback")
  /\ UNCHANGED <<up, circuitVars, busy>>

-----------------------------------------------------------------------------
(* A call: post_sync, post_async.                                           *)

\* (mutant of Send) the request is sent without a slot.
SendAtOnce(c) ==
  /\ call[c].pc = "slot"
  /\ call' = [call EXCEPT ![c].pc = "send", ![c].attempt = @ + 1]
  /\ UNCHANGED <<up, circuitVars, busy>>

\* with _sync_slots, async with _async_slots.
Send(c) ==
  /\ call[c].pc = "slot" /\ busy[Client(c)] < Slots
  /\ busy' = [busy EXCEPT ![Client(c)] = @ + 1]
  /\ call' = [call EXCEPT ![c].pc = "send", ![c].attempt = @ + 1]
  /\ UNCHANGED <<up, circuitVars>>

\* (mutant of Release) only an answer gives the slot back.
ReleaseAnswered(c) == busy' = [busy EXCEPT ![Client(c)] = IF up THEN @ - 1 ELSE @]

Release(c) == busy' = [busy EXCEPT ![Client(c)] = @ - 1]

Answered(c) ==
  /\ call[c].pc = "send" /\ up /\ Release(c)
  /\ call' = [call EXCEPT ![c] = Idle]
  /\ RecordSuccess
  /\ UNCHANGED up

\* A status below 500 is raised at once and recorded as nothing; so is an answer
\* that cannot be read, after its success was recorded.
Refused(c) ==
  /\ call[c].pc = "send" /\ up /\ Release(c)
  /\ Goes(c, "fallback")
  /\ RecordSuccess \/ UNCHANGED circuitVars
  /\ UNCHANGED up

\* A transport error or a status of 500 and more: another attempt, or the end.
AttemptFails(c) ==
  /\ call[c].pc = "send" /\ ~up /\ Release(c)
  /\ \/ call[c].attempt < Attempts /\ Goes(c, "backoff") /\ UNCHANGED circuitVars
     \/ call[c].attempt = Attempts /\ Goes(c, "fallback") /\ RecordFailure
  /\ UNCHANGED up

\* The backoff is over; nobody asks the circuit again.
Retry(c) ==
  /\ call[c].pc = "backoff" /\ Goes(c, "slot")
  /\ UNCHANGED <<up, circuitVars, busy>>

\* The caller of an async call is gone: its coroutine is cancelled.
Cancel(c) ==
  /\ c \in Async /\ call[c].pc \in {"slot", "send", "backoff"}
  /\ IF call[c].pc = "send" THEN Release(c) ELSE UNCHANGED busy
  /\ call' = [call EXCEPT ![c] = Idle]
  /\ UNCHANGED <<up, circuitVars>>

\* The local model answers in the provider's place.
Fallback(c) ==
  /\ call[c].pc = "fallback"
  /\ call' = [call EXCEPT ![c] = Idle]
  /\ UNCHANGED <<up, circuitVars, busy>>

-----------------------------------------------------------------------------
EndsAttempt(c) == Answered(c) \/ Refused(c) \/ AttemptFails(c)

CallNext(c) ==
  \/ LetIn(c) \/ TurnAway(c) \/ Send(c) \/ EndsAttempt(c)
  \/ Retry(c) \/ Cancel(c) \/ Fallback(c)

Next == Flip \/ Tick \/ \E c \in Calls : CallNext(c)

Spec == Init /\ [][Next]_vars

\* Time passes; an attempt ends, at the latest with its timeout; a backoff ends;
\* those who wait for a slot are served in turn.  Nobody has to call.
FairSpec ==
  /\ Spec /\ WF_vars(Tick)
  /\ \A c \in Calls :
       /\ SF_vars(Send(c))
       /\ WF_vars(EndsAttempt(c)) /\ WF_vars(Retry(c)) /\ WF_vars(Fallback(c))

-----------------------------------------------------------------------------
(***************************************************************************)
(* Properties.                                                             *)
(***************************************************************************)

\* Calls that end late write the circuit that others have opened and closed
\* meanwhile.  Still a call is turned away only if Threshold calls in a row have
\* failed since a call succeeded, the last one less than Reset ago.
TurnedAwayForAReason ==
  [][\A c \in Calls :
       call[c].pc = "idle" /\ call'[c].pc = "fallback"
         => streak = Threshold /\ fresh < Reset]_vars

\* When the provider is back for good, sooner or later nobody is turned away any
\* more, however often and by whomever it is called meanwhile.
Recovers ==
  <>[]up => <>[][\A c \in Calls : ~(call[c].pc = "idle" /\ call'[c].pc = "fallback")]_vars

\* Every call comes to an end, also with the provider down, all slots taken and
\* others retrying: no slot is lost.
CallSettles == \A c \in Calls : call[c].pc # "idle" ~> call[c].pc = "idle"
=============================================================================
