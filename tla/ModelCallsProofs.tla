--------------------------- MODULE ModelCallsProofs ---------------------------
(***************************************************************************)
(* Proofs about ModelCalls for any number of calls, slots, attempts and    *)
(* failures.  A client's count of taken slots is the number of its calls   *)
(* that send; an open circuit has the age of the last failure, and all its *)
(* failures belong to the streak since the last success.                   *)
(***************************************************************************)
EXTENDS ModelCalls, FiniteSetTheorems, TLAPS

\* Slots are counted right.
SlotInv == \A k \in Clients : busy[k] = Cardinality(Sending(k))

\* A call that is about to send has an attempt left.
AttemptInv ==
  \A c \in Calls :
    /\ call[c].pc = "idle" => call[c].attempt = 0
    /\ call[c].pc \in {"slot", "backoff"} => call[c].attempt < Attempts

\* The circuit counts failures of the streak; open, it has counted them all, and
\* was opened by the last one.
CircuitInv ==
  /\ failures <= streak
  /\ openFor # Closed => failures = Threshold /\ streak = Threshold /\ fresh = openFor

\* The types without the bound of the slots, which follows from the rest.
Types ==
  /\ up \in BOOLEAN
  /\ failures \in 0..Threshold /\ openFor \in 0..Closed
  /\ busy \in [Clients -> 0..Slots]
  /\ call \in [Calls -> Call]
  /\ streak \in 0..Threshold /\ fresh \in 0..Reset

IInv == Types /\ SlotInv /\ AttemptInv /\ CircuitInv
-----------------------------------------------------------------------------
(* Slots.                                                                   *)

\* The sizes one by one.
LEMMA Sizes ==
  /\ Slots \in Nat /\ Attempts \in Nat /\ Threshold \in Nat /\ Reset \in Nat
  /\ Slots > 0 /\ Attempts > 0 /\ Threshold > 0 /\ Reset > 0
BY ModelCallsAssumption

\* The calls of a client that send are finitely many.
LEMMA SendingFinite ==
  ASSUME NEW k
  PROVE  IsFiniteSet(Sending(k)) /\ Cardinality(Sending(k)) \in Nat
<1>1. IsFiniteSet(Calls) /\ Sending(k) \in SUBSET Calls
  BY ModelCallsAssumption DEF Sending
<1> QED
  BY <1>1, FS_Subset, FS_CardinalityType

\* What a step of call c does to the calls that send.
LEMMA SendingStep ==
  ASSUME call \in [Calls -> Call], NEW c \in Calls, NEW r \in Call,
         call' = [call EXCEPT ![c] = r], NEW k \in Clients
  PROVE  Sending(k)' = IF k # Client(c) THEN Sending(k)
                       ELSE IF r.pc = "send" THEN Sending(k) \cup {c}
                       ELSE Sending(k) \ {c}
BY DEF Sending, Client

\* A step of call c that neither begins nor ends to send keeps the count.
LEMMA SlotsKept ==
  ASSUME Types, SlotInv, NEW c \in Calls, NEW r \in Call,
         call' = [call EXCEPT ![c] = r], UNCHANGED busy,
         call[c].pc # "send", r.pc # "send"
  PROVE  SlotInv' /\ busy' \in [Clients -> 0..Slots]
<1>1. ASSUME NEW k \in Clients PROVE Sending(k)' = Sending(k)
  BY SendingStep DEF Types, Sending
<1> QED
  BY <1>1 DEF SlotInv, Types

\* One that begins to send takes a slot.
LEMMA SlotTaken ==
  ASSUME Types, SlotInv, NEW c \in Calls, NEW r \in Call,
         call' = [call EXCEPT ![c] = r], call[c].pc # "send", r.pc = "send",
         busy[Client(c)] < Slots, busy' = [busy EXCEPT ![Client(c)] = @ + 1]
  PROVE  SlotInv' /\ busy' \in [Clients -> 0..Slots]
<1>1. Client(c) \in Clients
  BY DEF Client, Clients
<1>2. busy' \in [Clients -> 0..Slots]
  BY <1>1, Sizes DEF Types
<1>3. ASSUME NEW k \in Clients PROVE busy'[k] = Cardinality(Sending(k)')
  <2>1. CASE k # Client(c)
    BY <2>1, SendingStep DEF Types, SlotInv
  <2>2. CASE k = Client(c)
    <3>1. Sending(k)' = Sending(k) \cup {c} /\ c \notin Sending(k)
      BY <2>2, SendingStep DEF Types, Sending
    <3>2. Cardinality(Sending(k) \cup {c}) = Cardinality(Sending(k)) + 1
      BY <3>1, SendingFinite, FS_AddElement
    <3> QED
      BY <2>2, <3>1, <3>2 DEF Types, SlotInv
  <2> QED
    BY <2>1, <2>2
<1> QED
  BY <1>2, <1>3 DEF SlotInv

\* One that ends to send gives its slot back.
LEMMA SlotReleased ==
  ASSUME Types, SlotInv, NEW c \in Calls, NEW r \in Call,
         call' = [call EXCEPT ![c] = r], call[c].pc = "send", r.pc # "send",
         Release(c)
  PROVE  SlotInv' /\ busy' \in [Clients -> 0..Slots]
<1>1. Client(c) \in Clients
  BY DEF Client, Clients
<1>2. busy' = [busy EXCEPT ![Client(c)] = busy[Client(c)] - 1]
  BY DEF Release
<1>3. ASSUME NEW k \in Clients, k = Client(c)
      PROVE  /\ Cardinality(Sending(k)') = Cardinality(Sending(k)) - 1
             /\ Cardinality(Sending(k)') \in Nat
  <2>1. Sending(k)' = Sending(k) \ {c} /\ c \in Sending(k)
    BY <1>3, SendingStep DEF Types, Sending
  <2>2. IsFiniteSet(Sending(k) \ {c}) /\ Cardinality(Sending(k) \ {c}) = Cardinality(Sending(k)) - 1
    BY <2>1, SendingFinite, FS_RemoveElement
  <2> QED
    BY <2>1, <2>2, FS_CardinalityType
<1>4. busy' \in [Clients -> 0..Slots]
  <2>1. busy[Client(c)] - 1 \in 0..Slots
    BY <1>1, <1>3, Sizes DEF Types, SlotInv
  <2> QED
    BY <1>1, <1>2, <2>1 DEF Types
<1>5. ASSUME NEW k \in Clients PROVE busy'[k] = Cardinality(Sending(k)')
  <2>1. CASE k # Client(c)
    BY <1>2, <2>1, SendingStep DEF Types, SlotInv
  <2>2. CASE k = Client(c)
    BY <1>2, <1>3, <2>2 DEF Types, SlotInv
  <2> QED
    BY <2>1, <2>2
<1> QED
  BY <1>4, <1>5 DEF SlotInv

-----------------------------------------------------------------------------
(* One lemma for each action, in the order of Next.                         *)

\* Only the call c moves, to a record that keeps its attempt or begins anew.
LEMMA AttemptsKept ==
  ASSUME Types, AttemptInv, NEW c \in Calls, NEW r \in Call,
         call' = [call EXCEPT ![c] = r],
         r.pc = "idle" => r.attempt = 0,
         r.pc \in {"slot", "backoff"} => r.attempt < Attempts
  PROVE  AttemptInv' /\ call' \in [Calls -> Call]
BY DEF AttemptInv, Types

\* The idle call.
LEMMA IdleType == Idle \in Call /\ Idle.pc = "idle" /\ Idle.attempt = 0
BY Sizes DEF Idle, Call

\* The provider and the clock leave calls and slots alone.
LEMMA FlipStep == ASSUME IInv, Flip PROVE IInv'
BY DEF IInv, Types, SlotInv, AttemptInv, CircuitInv, Sending, Flip, circuitVars

LEMMA TickStep == ASSUME IInv, Tick PROVE IInv'
<1>1. openFor' \in 0..Closed /\ fresh' \in 0..Reset /\ CircuitInv'
  BY Sizes DEF IInv, Types, CircuitInv, Tick, Least, Closed
<1> QED
  BY <1>1 DEF IInv, Types, SlotInv, AttemptInv, Sending, Tick

\* A call that is let in finds the circuit closed, or closes it.
LEMMA LetInStep == ASSUME IInv, NEW c \in Calls, LetIn(c) PROVE IInv'
<1> DEFINE r == [call[c] EXCEPT !.pc = "slot"]
<1>1. r \in Call /\ r.pc = "slot" /\ r.attempt = call[c].attempt
  BY DEF IInv, Types, Call
<1>2. call' = [call EXCEPT ![c] = r] /\ call[c].pc = "idle"
  BY DEF LetIn, Goes
<1>3. r.attempt < Attempts
  BY <1>1, <1>2, Sizes DEF IInv, AttemptInv
<1>4. AttemptInv' /\ call' \in [Calls -> Call]
  BY <1>1, <1>2, <1>3, AttemptsKept DEF IInv
<1>5. SlotInv' /\ busy' \in [Clients -> 0..Slots]
  BY <1>1, <1>2, SlotsKept DEF IInv, LetIn
<1>6. /\ failures' \in 0..Threshold /\ openFor' \in 0..Closed /\ CircuitInv'
  BY Sizes DEF IInv, Types, CircuitInv, LetIn, Closed
<1> QED
  BY <1>4, <1>5, <1>6 DEF IInv, Types, LetIn

\* A call that is turned away leaves the circuit as it is.
LEMMA TurnAwayStep == ASSUME IInv, NEW c \in Calls, TurnAway(c) PROVE IInv'
<1> DEFINE r == [call[c] EXCEPT !.pc = "fallback"]
<1>1. r \in Call /\ r.pc = "fallback"
  BY DEF IInv, Types, Call
<1>2. call' = [call EXCEPT ![c] = r] /\ call[c].pc = "idle"
  BY DEF TurnAway, Goes
<1>3. AttemptInv' /\ call' \in [Calls -> Call]
  BY <1>1, <1>2, AttemptsKept DEF IInv
<1>4. SlotInv' /\ busy' \in [Clients -> 0..Slots]
  BY <1>1, <1>2, SlotsKept DEF IInv, TurnAway
<1> QED
  BY <1>3, <1>4 DEF IInv, Types, CircuitInv, TurnAway, circuitVars

\* A call that sends takes a slot and an attempt.
LEMMA SendStep == ASSUME IInv, NEW c \in Calls, Send(c) PROVE IInv'
<1> DEFINE r == [call[c] EXCEPT !.pc = "send", !.attempt = call[c].attempt + 1]
<1>1. call' = [call EXCEPT ![c] = r] /\ call[c].pc = "slot"
  BY DEF Send
<1>2. r \in Call /\ r.pc = "send"
  <2>1. call[c] \in Call /\ call[c].attempt + 1 \in 0..Attempts
    BY <1>1, Sizes DEF IInv, Types, AttemptInv, Call
  <2> QED
    BY <2>1 DEF Call
<1>3. AttemptInv' /\ call' \in [Calls -> Call]
  BY <1>1, <1>2, AttemptsKept DEF IInv
<1>4. SlotInv' /\ busy' \in [Clients -> 0..Slots]
  BY <1>1, <1>2, SlotTaken DEF IInv, Send
<1> QED
  BY <1>3, <1>4 DEF IInv, Types, CircuitInv, Send, circuitVars

\* What is recorded keeps the circuit in step with the histories.
LEMMA RecordStep ==
  ASSUME Types, CircuitInv, RecordSuccess \/ RecordFailure \/ UNCHANGED circuitVars
  PROVE  /\ CircuitInv' /\ failures' \in 0..Threshold /\ openFor' \in 0..Closed
         /\ streak' \in 0..Threshold /\ fresh' \in 0..Reset
<1>1. CASE RecordSuccess
  BY <1>1, Sizes DEF RecordSuccess, Types, CircuitInv, Closed
<1>2. CASE RecordFailure
  BY <1>2, Sizes DEF RecordFailure, Types, CircuitInv, Closed, Least
<1>3. CASE UNCHANGED circuitVars
  BY <1>3 DEF circuitVars, Types, CircuitInv
<1> QED
  BY <1>1, <1>2, <1>3

\* A call that stops sending gives its slot back, whatever is recorded.
LEMMA EndOfSending ==
  ASSUME IInv, NEW c \in Calls, NEW r \in Call, call[c].pc = "send",
         call' = [call EXCEPT ![c] = r], r.pc \notin {"slot", "send"},
         r.pc = "idle" => r.attempt = 0, r.pc = "backoff" => r.attempt < Attempts,
         Release(c), UNCHANGED up,
         RecordSuccess \/ RecordFailure \/ UNCHANGED circuitVars
  PROVE  IInv'
<1>1. AttemptInv' /\ call' \in [Calls -> Call]
  BY AttemptsKept DEF IInv
<1>2. SlotInv' /\ busy' \in [Clients -> 0..Slots]
  BY SlotReleased DEF IInv
<1> QED
  BY <1>1, <1>2, RecordStep DEF IInv, Types

LEMMA EndsAttemptStep == ASSUME IInv, NEW c \in Calls, EndsAttempt(c) PROVE IInv'
<1> DEFINE f == [call[c] EXCEPT !.pc = "fallback"]
           b == [call[c] EXCEPT !.pc = "backoff"]
<1>1. /\ f \in Call /\ f.pc = "fallback"
      /\ b \in Call /\ b.pc = "backoff" /\ b.attempt = call[c].attempt
  BY DEF IInv, Types, Call
<1>2. CASE Answered(c)
  BY <1>2, IdleType, EndOfSending DEF Answered
<1>3. CASE Refused(c)
  <2>1. call' = [call EXCEPT ![c] = f] /\ call[c].pc = "send"
    BY <1>3 DEF Refused, Goes
  <2> QED
    BY <1>1, <1>3, <2>1, EndOfSending DEF Refused
<1>4. CASE AttemptFails(c)
  <2>1. CASE call[c].attempt < Attempts /\ Goes(c, "backoff") /\ UNCHANGED circuitVars
    <3>1. call' = [call EXCEPT ![c] = b]
      BY <2>1 DEF Goes
    <3> QED
      BY <1>1, <1>4, <2>1, <3>1, EndOfSending DEF AttemptFails
  <2>2. CASE call[c].attempt = Attempts /\ Goes(c, "fallback") /\ RecordFailure
    <3>1. call' = [call EXCEPT ![c] = f]
      BY <2>2 DEF Goes
    <3> QED
      BY <1>1, <1>4, <2>2, <3>1, EndOfSending DEF AttemptFails
  <2> QED
    BY <1>4, <2>1, <2>2 DEF AttemptFails
<1> QED
  BY <1>2, <1>3, <1>4 DEF EndsAttempt

\* A retry waits for a slot with an attempt left.
LEMMA RetryStep == ASSUME IInv, NEW c \in Calls, Retry(c) PROVE IInv'
<1> DEFINE r == [call[c] EXCEPT !.pc = "slot"]
<1>1. r \in Call /\ r.pc = "slot" /\ r.attempt = call[c].attempt
  BY DEF IInv, Types, Call
<1>2. call' = [call EXCEPT ![c] = r] /\ call[c].pc = "backoff"
  BY DEF Retry, Goes
<1>3. AttemptInv' /\ call' \in [Calls -> Call]
  BY <1>1, <1>2, AttemptsKept DEF IInv, AttemptInv
<1>4. SlotInv' /\ busy' \in [Clients -> 0..Slots]
  BY <1>1, <1>2, SlotsKept DEF IInv, Retry
<1> QED
  BY <1>3, <1>4 DEF IInv, Types, CircuitInv, Retry, circuitVars

\* A cancelled call leaves nothing behind.
LEMMA CancelStep == ASSUME IInv, NEW c \in Calls, Cancel(c) PROVE IInv'
<1>1. CASE call[c].pc = "send"
  BY <1>1, IdleType, EndOfSending DEF Cancel
<1>2. CASE call[c].pc # "send"
  <2>1. AttemptInv' /\ call' \in [Calls -> Call]
    BY IdleType, AttemptsKept DEF IInv, Cancel
  <2>2. SlotInv' /\ busy' \in [Clients -> 0..Slots]
    BY <1>2, IdleType, SlotsKept DEF IInv, Cancel
  <2> QED
    BY <2>1, <2>2 DEF IInv, Types, CircuitInv, Cancel, circuitVars
<1> QED
  BY <1>1, <1>2

LEMMA FallbackStep == ASSUME IInv, NEW c \in Calls, Fallback(c) PROVE IInv'
<1>1. AttemptInv' /\ call' \in [Calls -> Call]
  BY IdleType, AttemptsKept DEF IInv, Fallback
<1>2. SlotInv' /\ busy' \in [Clients -> 0..Slots]
  BY IdleType, SlotsKept DEF IInv, Fallback
<1> QED
  BY <1>1, <1>2 DEF IInv, Types, CircuitInv, Fallback, circuitVars

-----------------------------------------------------------------------------
(* The theorems.                                                            *)

LEMMA IInvInit == ASSUME Init PROVE IInv
<1>1. \A k \in Clients : Sending(k) = {}
  BY DEF Init, Idle, Sending
<1>2. SlotInv
  BY <1>1, FS_EmptySet DEF Init, SlotInv
<1>3. AttemptInv /\ CircuitInv /\ Types
  BY IdleType, Sizes
  DEF Init, AttemptInv, CircuitInv, Types, Idle, Closed, Clients
<1> QED
  BY <1>2, <1>3 DEF IInv

LEMMA IInvNext == ASSUME IInv, [Next]_vars PROVE IInv'
<1>1. CASE UNCHANGED vars
  BY <1>1 DEF vars, IInv, Types, SlotInv, AttemptInv, CircuitInv, Sending
<1>2. CASE Flip \/ Tick
  BY <1>2, FlipStep, TickStep
<1>3. ASSUME NEW c \in Calls, CallNext(c) PROVE IInv'
  BY <1>3, LetInStep, TurnAwayStep, SendStep, EndsAttemptStep, RetryStep,
     CancelStep, FallbackStep DEF CallNext
<1> QED
  BY <1>1, <1>2, <1>3 DEF Next

\* The inductive invariant: slots are counted right, calls that are about to send
\* have an attempt left, and an open circuit was opened by the last failure.
THEOREM Invariant == Spec => []IInv
BY IInvInit, IInvNext, PTL DEF Spec

\* Everything has its type, and no client ever sends more requests than it has
\* slots.
THEOREM TypeCorrect == Spec => []TypeOK
<1>1. ASSUME IInv PROVE TypeOK
  BY <1>1 DEF IInv, Types, SlotInv, TypeOK
<1> QED
  BY <1>1, Invariant, PTL

\* A call is turned away only after Threshold failures in a row, the last one less
\* than Reset ago.
THEOREM TurnedAwayRightly == Spec => TurnedAwayForAReason
<1> DEFINE A == \A c \in Calls :
                  call[c].pc = "idle" /\ call'[c].pc = "fallback"
                    => streak = Threshold /\ fresh < Reset
<1>1. ASSUME IInv, [Next]_vars PROVE [A]_vars
  <2>1. SUFFICES ASSUME NEW c \in Calls, call[c].pc = "idle",
                        call'[c].pc = "fallback", Next
                 PROVE  streak = Threshold /\ fresh < Reset
    BY <1>1, <2>1
  <2>2. PICK d \in Calls : CallNext(d)
    BY <2>1 DEF Next, Flip, Tick
  <2>3. TurnAway(d)
    BY <1>1, <2>1, <2>2 DEF IInv, Types, Call, CallNext, EndsAttempt, LetIn, TurnAway,
       Send, Answered, Refused, AttemptFails, Retry, Cancel, Fallback, Goes, Idle
  <2>4. openFor < Reset
    BY <2>3 DEF TurnAway
  <2> QED
    BY <1>1, <2>4, Sizes DEF IInv, Types, CircuitInv, Closed
<1>2. [][A]_vars <=> TurnedAwayForAReason
  BY PTL DEF TurnedAwayForAReason
<1> QED
  BY <1>1, <1>2, Invariant, PTL DEF Spec

-----------------------------------------------------------------------------
\* What CallSettles needs of the safe part: whoever waits for a slot can take
\* one, or a call of the same client sends and will give one back.
SlotsComeBack ==
  \A c \in Calls : call[c].pc = "slot" =>
    busy[Client(c)] < Slots \/ \E d \in Calls : Client(d) = Client(c) /\ call[d].pc = "send"

\* No slot is lost, however attempts end: with an answer, an error, a refusal or
\* a cancelled coroutine (the with blocks of post_sync and post_async).
THEOREM NoSlotIsLost == Spec => []SlotsComeBack
<1>1. IInv => SlotsComeBack
  <2> SUFFICES ASSUME IInv, NEW c \in Calls, ~(busy[Client(c)] < Slots)
               PROVE  \E d \in Calls : Client(d) = Client(c) /\ call[d].pc = "send"
    BY DEF SlotsComeBack
  <2>1. Client(c) \in Clients
    BY DEF Client, Clients
  <2>2. Cardinality(Sending(Client(c))) = Slots /\ Slots > 0
    BY <2>1, Sizes DEF IInv, Types, SlotInv
  <2>3. Sending(Client(c)) # {}
    BY <2>2, FS_EmptySet
  <2> QED
    BY <2>3 DEF Sending
<1> QED
  BY <1>1, Invariant, PTL
=============================================================================
