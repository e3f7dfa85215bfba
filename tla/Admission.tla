------------------------------ MODULE Admission ------------------------------
(***************************************************************************)
(* What one user's requests for plans, or for quizzes, go through:         *)
(* the sliding window (service/rate_limiter.go), kept in Redis and, when   *)
(* Redis does not answer, in the process; the daily quota (handler/        *)
(* plans.go allowAI); the work; and the record of what it used.  The steps *)
(* of concurrent requests interleave: the window is checked with a time    *)
(* that was read before, the quota is read before the work and the usage   *)
(* recorded after it.  A chat passes the same checks; its usage is never   *)
(* recorded, because the agent reports none, and its quota never fills.    *)
(*                                                                         *)
(* A store of stamps is a bag, a function from times to counts.  A day     *)
(* does not end within a behaviour, and the key of Redis does not expire   *)
(* before the stamps in it do.                                             *)
(***************************************************************************)
EXTENDS Naturals, FiniteSets

CONSTANTS
  Calls,        \* requests at work at the same time
  Limit,        \* requests admitted per window
  Window,       \* its length
  DailyLimit,   \* the quota; 0 means none
  MaxDelay,     \* bound: a check comes at most this long after its stamp
  MaxTime,      \* bound: the clock's last time
  MaxArrivals   \* bound: requests ever sent

Times  == 0..MaxTime
Stores == {"redis", "local"}

ASSUME AdmissionAssumption ==
  /\ {Limit, Window} \subseteq Nat \ {0}
  /\ {DailyLimit, MaxDelay, MaxTime, MaxArrivals} \subseteq Nat
  /\ MaxDelay < Window
  /\ IsFiniteSet(Calls)

VARIABLES
  now,       \* the backend's clock
  window,    \* the stamps each store holds
  used,      \* SUM(total_tokens) of the user's token_usage of the last day
  call,      \* the requests
  arrived,   \* history: stamps of all requests
  counted,   \* history: stamps each store has ever counted
  blind      \* history: requests admitted though the usage could not be read

vars == <<now, window, used, call, arrived, counted, blind>>
histories == <<counted, blind>>

Bag  == [Times -> 0..MaxArrivals]
Call == [pc: {"idle", "redis", "local", "quota", "work"}, stamp: Times, listed: BOOLEAN]
Idle == [pc |-> "idle", stamp |-> 0, listed |-> FALSE]

Nothing == [t \in Times |-> 0]
Add(bag, t) == [bag EXCEPT ![t] = @ + 1]

\* The stamps with times in ts, those of one time numbered.
Stamps(bag, ts) == {p \in ts \X (1..MaxArrivals) : p[2] <= bag[p[1]]}
CountIn(bag, ts) == Cardinality(Stamps(bag, ts))

\* Clock, stores, usage and requests are what they are declared as, and a store
\* never holds more stamps than it may admit.
TypeOK ==
  /\ now \in Times
  /\ window \in [Stores -> Bag]
  /\ \A s \in Stores : CountIn(window[s], Times) <= Limit
  /\ used \in 0..MaxArrivals
  /\ call \in [Calls -> Call]
  /\ arrived \in Bag /\ counted \in [Stores -> Bag]
  /\ blind \in 0..MaxArrivals

Init ==
  /\ now = 0 /\ window = [s \in Stores |-> Nothing]
  /\ used = 0
  /\ call = [c \in Calls |-> Idle]
  /\ arrived = Nothing /\ counted = [s \in Stores |-> Nothing]
  /\ blind = 0

-----------------------------------------------------------------------------
(* The sliding window.                                                      *)

Arrive(c) ==
  /\ call[c].pc = "idle"
  /\ CountIn(arrived, Times) < MaxArrivals
  /\ call' = [call EXCEPT ![c] = [Idle EXCEPT !.pc = "redis", !.stamp = now]]
  /\ arrived' = Add(arrived, now)
  /\ UNCHANGED <<now, window, used, histories>>

Tick ==
  /\ now < MaxTime
  /\ \A c \in Calls : call[c].pc \in {"redis", "local"} => now < call[c].stamp + MaxDelay
  /\ now' = now + 1
  /\ UNCHANGED <<window, used, call, arrived, histories>>

\* (mutants of Fresh) the stamps kept are those a moment younger, or older.
FreshTooFew(bag, s)  == [t \in Times |-> IF t + Window > s + 1 THEN bag[t] ELSE 0]
FreshTooMany(bag, s) == [t \in Times |-> IF t + Window >= s THEN bag[t] ELSE 0]

\* ZREMRANGEBYSCORE, and the loop over items: the stamps after the cutoff.
Fresh(bag, s) == [t \in Times |-> IF t + Window > s THEN bag[t] ELSE 0]

\* (mutant of Room) the count may reach the limit before it is refused.
RoomForOneMore(bag) == CountIn(bag, Times) <= Limit

Room(bag) == CountIn(bag, Times) < Limit

Goes(c, pc) == call' = [call EXCEPT ![c].pc = pc]

\* A store drops what left the window, and counts the request if there is room.
\* Redis knows a request that it has listed before: the member is added once.
Enter(s, c) ==
  LET bag == Fresh(window[s], call[c].stamp)
      new == Room(bag) /\ ~(s = "redis" /\ call[c].listed)
  IN /\ window'  = [window EXCEPT ![s] = IF new THEN Add(bag, call[c].stamp) ELSE bag]
     /\ counted' = [counted EXCEPT ![s] = IF new THEN Add(@, call[c].stamp) ELSE @]

\* The store's answer: a refusal is a 429.
Admits(s, c) == Room(Fresh(window[s], call[c].stamp))
Obey(s, c) == Enter(s, c) /\ Goes(c, IF Admits(s, c) THEN "quota" ELSE "idle")

\* The script runs in Redis, which answers.
AskRedis(c) ==
  /\ call[c].pc = "redis" /\ Obey("redis", c)
  /\ UNCHANGED <<now, used, arrived, blind>>

\* It runs and the answer is lost or late: the client of Redis tries again, with
\* the same member, or gives up.
AskRedisInVain(c) ==
  /\ call[c].pc = "redis" /\ Enter("redis", c)
  /\ \E pc \in {"redis", "local"} :
       call' = [call EXCEPT ![c].pc = pc, ![c].listed = @ \/ Admits("redis", c)]
  /\ UNCHANGED <<now, used, arrived, blind>>

\* There is no Redis, or none that can be reached.
NoRedis(c) ==
  /\ call[c].pc = "redis" /\ Goes(c, "local")
  /\ UNCHANGED <<now, window, used, arrived, histories>>

AskLocal(c) ==
  /\ call[c].pc = "local" /\ Obey("local", c)
  /\ UNCHANGED <<now, used, arrived, blind>>

-----------------------------------------------------------------------------
(* The daily quota, the work and its record.                                *)

\* (mutant of WithinQuota) the quota is still open when it is used up.
WithinOrAt(u) == DailyLimit = 0 \/ u <= DailyLimit

WithinQuota(u) == DailyLimit = 0 \/ u < DailyLimit

\* A usage that cannot be read admits the request.
ReadUsage(c) ==
  /\ call[c].pc = "quota"
  /\ \/ Goes(c, IF WithinQuota(used) THEN "work" ELSE "idle") /\ UNCHANGED blind
     \/ DailyLimit > 0 /\ Goes(c, "work") /\ blind' = blind + 1
  /\ UNCHANGED <<now, window, used, arrived, counted>>

\* A malformed body, the agent unavailable, a result that cannot be stored.
Fail(c) ==
  /\ call[c].pc = "work" /\ Goes(c, "idle")
  /\ UNCHANGED <<now, window, used, arrived, histories>>

\* A success is a unit of usage; the error of the INSERT is not looked at.
Succeed(c) ==
  /\ call[c].pc = "work" /\ Goes(c, "idle")
  /\ used' \in {used, used + 1}
  /\ UNCHANGED <<now, window, arrived, histories>>

-----------------------------------------------------------------------------
CallNext(c) ==
  \/ Arrive(c) \/ AskRedis(c) \/ AskRedisInVain(c) \/ NoRedis(c) \/ AskLocal(c)
  \/ ReadUsage(c) \/ Fail(c) \/ Succeed(c)

Next == Tick \/ \E c \in Calls : CallNext(c)

Spec == Init /\ [][Next]_vars

-----------------------------------------------------------------------------
(***************************************************************************)
(* Properties.                                                             *)
(***************************************************************************)

\* Checks arrive out of the order of their stamps, and a late one finds a store
\* from which a newer one has dropped stamps.  Still a store never counts more
\* than the limit in a window shortened by the longest delay; a user can have
\* twice the limit, from both stores, when Redis comes and goes.
WindowHolds ==
  \A s \in Stores, a \in Times :
    CountIn(counted[s], {t \in Times : a <= t /\ t + MaxDelay < a + Window}) <= Limit

\* Refusals do not count and do not prolong themselves: a request is refused
\* only if the limit has been asked for since its window began, whichever store
\* refuses.  (It may itself be part of that: a script that ran in vain has
\* listed the request, and its repetition finds no room.)
RefusalsAreDue ==
  [][\A c \in Calls :
       call[c].pc \in {"redis", "local"} /\ call'[c].pc = "idle"
         => CountIn(arrived, {t \in Times : t + Window > call[c].stamp}) >= Limit]_vars

\* The quota is overrun by no more than the requests that read it at the same
\* time, and those that could not read it.
OverrunIsBounded ==
  DailyLimit > 0 => used < DailyLimit + Cardinality(Calls) + blind

=============================================================================
