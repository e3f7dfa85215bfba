--------------------------- MODULE AdmissionProofs ---------------------------
(***************************************************************************)
(* Proofs about Admission for any number of requests, any limits and any   *)
(* clock.                                                                  *)
(*                                                                         *)
(* The windows.  A check comes soon after its stamp, so a store still has  *)
(* every stamp it counted in a window that ends with the one that enters:  *)
(* what it counted there is at most what it holds, and it holds less than  *)
(* the limit.  What a store counted and may yet count arrived, so a        *)
(* refusal is due.                                                         *)
(*                                                                         *)
(* The quota.  A request that works was let in by a usage below the quota, *)
(* or blindly: what is used, and what those at work will yet use, stays    *)
(* below the quota with one place more for every request at a time and     *)
(* every blind one.                                                        *)
(***************************************************************************)
EXTENDS Admission, FiniteSetTheorems, TLAPS

\* A check comes no later than the longest delay after its stamp.
ChecksAreSoon ==
  \A c \in Calls : call[c].pc \in {"redis", "local"} =>
    call[c].stamp <= now /\ now <= call[c].stamp + MaxDelay

\* A store has all it has counted of a time, until that left the window.
DroppedWhenOld ==
  \A s \in Stores, t \in Times :
    /\ window[s][t] <= counted[s][t]
    /\ window[s][t] = counted[s][t] \/ t + Window <= now

StoresAreCapped == \A s \in Stores : CountIn(window[s], Times) <= Limit

\* The store may yet count the request.
Awaits(s, c) ==
  \/ s = "redis" /\ call[c].pc = "redis" /\ ~call[c].listed
  \/ s = "local" /\ call[c].pc \in {"redis", "local"}

Awaiting(s, t) == {c \in Calls : call[c].stamp = t /\ Awaits(s, c)}

\* A store counts a request once: what it counted and may yet count arrived.
CountedArrived ==
  \A s \in Stores, t \in Times :
    counted[s][t] + Cardinality(Awaiting(s, t)) <= arrived[t]

Busy   == {c \in Calls : call[c].pc # "idle"}
Unread == {c \in Calls : call[c].pc \in {"redis", "local", "quota"}}

\* A request uses one unit at most, and reads the usage once.
UsageArrived ==
  LET all == CountIn(arrived, Times) IN
  /\ used + Cardinality(Busy) <= all
  /\ blind + Cardinality(Unread) <= all
  /\ all <= MaxArrivals

Types ==
  /\ now \in Times
  /\ window \in [Stores -> Bag]
  /\ used \in Nat /\ blind \in Nat
  /\ call \in [Calls -> Call]
  /\ arrived \in Bag /\ counted \in [Stores -> Bag]

StoreInv == ChecksAreSoon /\ DroppedWhenOld /\ StoresAreCapped /\ CountedArrived /\ WindowHolds

StepInv == Types /\ StoreInv /\ UsageArrived
-----------------------------------------------------------------------------
\* What a bag counts is a number.
LEMMA CountFinite ==
  ASSUME NEW bag, NEW ts \in SUBSET Times
  PROVE  IsFiniteSet(Stamps(bag, ts)) /\ CountIn(bag, ts) \in Nat
<1>1. MaxTime \in Nat /\ MaxArrivals \in Nat
  BY AdmissionAssumption
<1>2. IsFiniteSet(ts)
  <2>1. IsFiniteSet(Times)
    BY <1>1, FS_Interval DEF Times
  <2> QED
    BY <2>1, FS_Subset
<1>3. IsFiniteSet(1..MaxArrivals)
  BY <1>1, FS_Interval
<1>4. IsFiniteSet(ts \X (1..MaxArrivals))
  BY <1>2, <1>3, FS_Product
<1>5. Stamps(bag, ts) \in SUBSET (ts \X (1..MaxArrivals))
  BY DEF Stamps
<1>6. IsFiniteSet(Stamps(bag, ts))
  BY <1>4, <1>5, FS_Subset
<1> QED
  BY <1>6, FS_CardinalityType DEF CountIn

\* A bag that has, at every time it has a stamp of, no more than another counts no
\* more.
LEMMA CountMonotone ==
  ASSUME NEW small \in Bag, NEW large \in Bag,
         NEW ss \in SUBSET Times, NEW ts \in SUBSET Times,
         \A t \in ss : small[t] > 0 => t \in ts /\ small[t] <= large[t]
  PROVE  CountIn(small, ss) <= CountIn(large, ts)
<1>1. IsFiniteSet(Stamps(large, ts))
  BY CountFinite
<1>2. ASSUME NEW p \in Stamps(small, ss) PROVE p \in Stamps(large, ts)
  <2>1. p \in ss \X (1..MaxArrivals) /\ p[2] <= small[p[1]]
    BY DEF Stamps
  <2>2. p[1] \in ss /\ p[2] \in 1..MaxArrivals /\ p = <<p[1], p[2]>>
    BY <2>1
  <2>3. small[p[1]] \in Nat /\ large[p[1]] \in Nat
    BY <2>2 DEF Bag
  <2>4. p[1] \in ts /\ p[2] <= large[p[1]]
    BY <2>1, <2>2, <2>3
  <2> QED
    BY <2>2, <2>4 DEF Stamps
<1>3. Stamps(small, ss) \in SUBSET Stamps(large, ts)
  BY <1>2
<1> QED
  BY <1>1, <1>3, FS_Subset DEF CountIn

\* A stamp more counts one more wherever its time is counted.
LEMMA CountAdd ==
  ASSUME NEW bag \in Bag, NEW t \in Times, bag[t] < MaxArrivals, NEW ts \in SUBSET Times
  PROVE  /\ Add(bag, t) \in Bag
         /\ t \in ts => CountIn(Add(bag, t), ts) = CountIn(bag, ts) + 1
         /\ t \notin ts => CountIn(Add(bag, t), ts) = CountIn(bag, ts)
<1>1. MaxArrivals \in Nat /\ bag[t] \in Nat
  BY AdmissionAssumption DEF Bag
<1>2. Add(bag, t) \in Bag
  BY <1>1 DEF Add, Bag
<1>3. \A u \in Times : Add(bag, t)[u] = IF u = t THEN bag[t] + 1 ELSE bag[u]
  BY DEF Add, Bag
<1>4. ASSUME t \in ts PROVE CountIn(Add(bag, t), ts) = CountIn(bag, ts) + 1
  <2> DEFINE n == <<t, bag[t] + 1>>
  <2>1. Stamps(Add(bag, t), ts) = Stamps(bag, ts) \cup {n}
    <3>1. ASSUME NEW p \in ts \X (1..MaxArrivals)
          PROVE  p[2] <= Add(bag, t)[p[1]] <=> (p[2] <= bag[p[1]] \/ p = n)
      <4>1. p[1] \in ts /\ p[2] \in 1..MaxArrivals /\ p = <<p[1], p[2]>>
        BY <3>1
      <4>2. bag[p[1]] \in Nat /\ p[1] \in Times
        BY <4>1 DEF Bag
      <4>3. CASE p[1] = t
        <5>1. Add(bag, t)[p[1]] = bag[p[1]] + 1
          BY <1>3, <4>2, <4>3
        <5>2. p = n <=> p[2] = bag[p[1]] + 1
          BY <4>1, <4>3
        <5> QED
          BY <4>1, <4>2, <5>1, <5>2
      <4>4. CASE p[1] # t
        BY <1>3, <4>1, <4>2, <4>4
      <4> QED
        BY <4>3, <4>4
    <3>2. n \in ts \X (1..MaxArrivals)
      BY <1>1, <1>4
    <3> HIDE DEF n
    <3> QED
      BY <3>1, <3>2 DEF Stamps
  <2>2. n \notin Stamps(bag, ts)
    BY <1>1 DEF Stamps
  <2>3. IsFiniteSet(Stamps(bag, ts))
    BY CountFinite
  <2> HIDE DEF n
  <2> QED
    BY <2>1, <2>2, <2>3, FS_AddElement DEF CountIn
<1>5. ASSUME t \notin ts PROVE CountIn(Add(bag, t), ts) = CountIn(bag, ts)
  <2>1. ASSUME NEW p \in ts \X (1..MaxArrivals) PROVE Add(bag, t)[p[1]] = bag[p[1]]
    BY <1>3, <1>5, <2>1
  <2>2. Stamps(Add(bag, t), ts) = Stamps(bag, ts)
    BY <2>1 DEF Stamps
  <2> QED
    BY <2>2 DEF CountIn
<1> QED
  BY <1>2, <1>4, <1>5

\* A bag has no more stamps of one time than of all.
LEMMA CountAtLeast ==
  ASSUME NEW bag \in Bag, NEW t \in Times
  PROVE  bag[t] <= CountIn(bag, Times)
<1>1. bag[t] \in 0..MaxArrivals /\ MaxArrivals \in Nat
  BY AdmissionAssumption DEF Bag
<1> DEFINE column == {t} \X (1..bag[t])
<1>2. column \in SUBSET Stamps(bag, Times)
  BY <1>1 DEF Stamps
<1>3. Cardinality(column) = bag[t]
  <2>1. IsFiniteSet({t}) /\ Cardinality({t}) = 1
    BY FS_Singleton
  <2>2. IsFiniteSet(1..bag[t]) /\ Cardinality(1..bag[t]) = bag[t]
    <3>1. ASSUME NEW n \in Nat PROVE IsFiniteSet(1..n) /\ Cardinality(1..n) = n
      BY FS_Interval
    <3> QED
      BY <1>1, <3>1
  <2>3. Cardinality(column) = Cardinality({t}) * Cardinality(1..bag[t])
    BY <2>1, <2>2, FS_Product
  <2> HIDE DEF column
  <2> QED
    BY <1>1, <2>1, <2>2, <2>3
<1> HIDE DEF column
<1>4. IsFiniteSet(Stamps(bag, Times))
  BY CountFinite
<1> QED
  BY <1>2, <1>3, <1>4, FS_Subset DEF CountIn

\* The empty bag counts nothing.
LEMMA CountNothing == \A ts \in SUBSET Times : CountIn(Nothing, ts) = 0
<1>1. ASSUME NEW ts \in SUBSET Times PROVE Stamps(Nothing, ts) = {}
  BY DEF Stamps, Nothing
<1> QED
  BY <1>1, FS_EmptySet DEF CountIn

\* Sets of requests are finite.
LEMMA AwaitingFinite ==
  \A s, t : IsFiniteSet(Awaiting(s, t)) /\ Cardinality(Awaiting(s, t)) \in Nat
<1>1. ASSUME NEW s, NEW t PROVE IsFiniteSet(Awaiting(s, t))
  <2>1. Awaiting(s, t) \in SUBSET Calls
    BY DEF Awaiting
  <2> QED
    BY <2>1, FS_Subset, AdmissionAssumption
<1> QED
  BY <1>1, FS_CardinalityType

LEMMA SomeCalls ==
  /\ IsFiniteSet(Busy) /\ Cardinality(Busy) \in Nat
  /\ IsFiniteSet(Unread) /\ Cardinality(Unread) \in Nat
<1>1. Busy \in SUBSET Calls /\ Unread \in SUBSET Calls
  BY DEF Busy, Unread
<1> QED
  BY <1>1, FS_Subset, FS_CardinalityType, AdmissionAssumption
-----------------------------------------------------------------------------
\* What a step of a store does: it keeps what is declared, what it dropped is
\* old, it is capped, and it counts no more than the limit in a window.  A stamp
\* that enters is as old as the longest delay at most, so the store still has
\* every stamp it counted in a window that ends with it.
LEMMA EnterStep ==
  ASSUME Types, StoreInv, NEW s \in Stores, NEW c \in Calls,
         call[c].pc \in {"redis", "local"}, s = "local" \/ call[c].pc = "redis",
         Enter(s, c), now' = now
  PROVE  /\ window' \in [Stores -> Bag] /\ counted' \in [Stores -> Bag]
         /\ DroppedWhenOld' /\ StoresAreCapped' /\ WindowHolds'
         /\ \/ counted' = counted
            \/ /\ Awaits(s, c) /\ Admits(s, c)
               /\ counted' = [counted EXCEPT ![s] = Add(counted[s], call[c].stamp)]
<1> DEFINE stamp == call[c].stamp
           bag   == Fresh(window[s], stamp)
           new   == Room(bag) /\ ~(s = "redis" /\ call[c].listed)
<1>1. /\ now \in Nat /\ stamp \in Times /\ stamp \in Nat /\ stamp <= now /\ now <= stamp + MaxDelay
      /\ {Limit, Window, MaxDelay, MaxArrivals} \subseteq Nat /\ Window > 0 /\ MaxDelay < Window
      /\ window \in [Stores -> Bag] /\ counted \in [Stores -> Bag] /\ arrived \in Bag
      /\ \A t \in Times : t \in Nat
  BY AdmissionAssumption DEF Types, StoreInv, ChecksAreSoon, Call, Times
<1>2. /\ window'  = [window EXCEPT ![s] = IF new THEN Add(bag, stamp) ELSE bag]
      /\ counted' = [counted EXCEPT ![s] = IF new THEN Add(counted[s], stamp) ELSE counted[s]]
  BY DEF Enter
<1>3. \A t \in Times : /\ window[s][t] \in 0..MaxArrivals /\ counted[s][t] \in 0..MaxArrivals
                       /\ arrived[t] \in 0..MaxArrivals
  BY <1>1 DEF Bag
<1>4. /\ bag \in Bag
      /\ \A t \in Times : /\ bag[t] = IF t + Window > stamp THEN window[s][t] ELSE 0
                          /\ bag[t] <= counted[s][t]
                          /\ bag[t] = counted[s][t] \/ t + Window <= now
  <2>1. \A t \in Times : bag[t] = IF t + Window > stamp THEN window[s][t] ELSE 0
    BY DEF Fresh
  <2>2. bag \in Bag
    BY <1>1, <1>3 DEF Fresh, Bag
  <2> HIDE DEF bag, stamp
  <2>3. ASSUME NEW t \in Times
        PROVE  bag[t] <= counted[s][t] /\ (bag[t] = counted[s][t] \/ t + Window <= now)
    <3>1. window[s][t] <= counted[s][t] /\ (window[s][t] = counted[s][t] \/ t + Window <= now)
      BY DEF StoreInv, DroppedWhenOld
    <3> QED
      BY <1>1, <1>3, <2>1, <3>1
  <2> QED
    BY <2>1, <2>2, <2>3
<1>5. CountIn(bag, Times) <= Limit
  <2>1. CountIn(bag, Times) <= CountIn(window[s], Times)
    <3>1. window[s] \in Bag /\ Times \in SUBSET Times
      BY <1>1
    <3>2. \A t \in Times : bag[t] > 0 => bag[t] <= window[s][t]
      BY <1>3, <1>4
    <3> HIDE DEF bag
    <3> QED
      BY <1>4, <3>1, <3>2, CountMonotone
  <2>2. CountIn(window[s], Times) <= Limit
    BY DEF StoreInv, StoresAreCapped
  <2>3. CountIn(bag, Times) \in Nat /\ CountIn(window[s], Times) \in Nat
    BY CountFinite
  <2> HIDE DEF bag
  <2> QED
    BY <1>1, <2>1, <2>2, <2>3
<1>6. CASE ~new
  <2> HIDE DEF bag, new
  <2>1. counted' = counted /\ window' = [window EXCEPT ![s] = bag]
    BY <1>1, <1>2, <1>6
  <2>2. window' \in [Stores -> Bag] /\ window'[s] = bag /\ \A r \in Stores \ {s} : window'[r] = window[r]
    BY <1>1, <1>4, <2>1
  <2>3. DroppedWhenOld'
    <3>1. ASSUME NEW r \in Stores, NEW t \in Times
          PROVE  /\ window'[r][t] <= counted[r][t]
                 /\ window'[r][t] = counted[r][t] \/ t + Window <= now
      BY <1>4, <2>2 DEF StoreInv, DroppedWhenOld
    <3> QED
      BY <2>1, <3>1 DEF DroppedWhenOld
  <2>4. StoresAreCapped'
    BY <1>5, <2>2 DEF StoreInv, StoresAreCapped
  <2>5. WindowHolds'
    BY <2>1 DEF StoreInv, WindowHolds
  <2> QED
    BY <1>1, <2>1, <2>2, <2>3, <2>4, <2>5
<1>7. CASE new
  <2>1. Awaits(s, c) /\ Admits(s, c) /\ CountIn(bag, Times) < Limit
    BY <1>7 DEF Awaits, Admits, Room, Stores
  <2> HIDE DEF bag, new
  <2>2. counted[s][stamp] < MaxArrivals
    <3>1. counted[s][stamp] + Cardinality(Awaiting(s, stamp)) <= arrived[stamp]
      BY <1>1 DEF StoreInv, CountedArrived
    <3>2. c \in Awaiting(s, stamp)
      BY <2>1 DEF Awaiting
    <3> HIDE DEF stamp
    <3>3. Cardinality(Awaiting(s, stamp)) \in Nat /\ Cardinality(Awaiting(s, stamp)) > 0
      BY <3>2, AwaitingFinite, FS_EmptySet
    <3> QED
      BY <1>1, <1>3, <3>1, <3>3
  <2>3. bag[stamp] < MaxArrivals
    <3> HIDE DEF stamp
    <3>1. stamp \in Times /\ bag[stamp] \in Nat /\ counted[s][stamp] \in Nat
      BY <1>1, <1>3, <1>4 DEF Bag
    <3> QED
      BY <1>1, <1>4, <2>2, <3>1
  <2> DEFINE bagNew == Add(bag, stamp)
             countedNew == Add(counted[s], stamp)
  <2>4. /\ bagNew \in Bag /\ CountIn(bagNew, Times) = CountIn(bag, Times) + 1
        /\ countedNew \in Bag
        /\ \A t \in Times : bagNew[t] = IF t = stamp THEN bag[t] + 1 ELSE bag[t]
        /\ \A t \in Times : countedNew[t] = IF t = stamp THEN counted[s][t] + 1 ELSE counted[s][t]
    <3> HIDE DEF stamp
    <3>1. counted[s] \in Bag
      BY <1>1
    <3>2. Times \in SUBSET Times
      OBVIOUS
    <3>3. bagNew \in Bag /\ CountIn(bagNew, Times) = CountIn(bag, Times) + 1
      BY <1>1, <1>4, <2>3, <3>2, CountAdd
    <3>4. countedNew \in Bag
      BY <1>1, <2>2, <3>1, <3>2, CountAdd
    <3>5. \A t \in Times : bagNew[t] = IF t = stamp THEN bag[t] + 1 ELSE bag[t]
      BY <1>4 DEF Add, Bag
    <3>6. \A t \in Times : countedNew[t] = IF t = stamp THEN counted[s][t] + 1 ELSE counted[s][t]
      BY <3>1 DEF Add, Bag
    <3> QED
      BY <3>3, <3>4, <3>5, <3>6
  <2> HIDE DEF bagNew, countedNew
  <2>5. /\ window' = [window EXCEPT ![s] = bagNew]
        /\ counted' = [counted EXCEPT ![s] = countedNew]
    BY <1>2, <1>7 DEF bagNew, countedNew
  <2>6. /\ window' \in [Stores -> Bag] /\ counted' \in [Stores -> Bag]
        /\ window'[s] = bagNew /\ counted'[s] = countedNew
        /\ \A r \in Stores \ {s} : window'[r] = window[r] /\ counted'[r] = counted[r]
    BY <1>1, <2>4, <2>5
  <2>7. DroppedWhenOld'
    <3>1. ASSUME NEW r \in Stores, NEW t \in Times
          PROVE  /\ window'[r][t] <= counted'[r][t]
                 /\ window'[r][t] = counted'[r][t] \/ t + Window <= now
      <4>1. CASE r # s
        BY <2>6, <4>1 DEF StoreInv, DroppedWhenOld
      <4>2. CASE r = s
        <5>1. bag[t] \in Nat /\ counted[s][t] \in Nat
          BY <1>3, <1>4 DEF Bag
        <5>2. /\ bag[t] <= counted[s][t] /\ (bag[t] = counted[s][t] \/ t + Window <= now)
              /\ bagNew[t] = (IF t = stamp THEN bag[t] + 1 ELSE bag[t])
              /\ countedNew[t] = IF t = stamp THEN counted[s][t] + 1 ELSE counted[s][t]
          BY <1>4, <2>4
        <5> HIDE DEF stamp
        <5>3. bagNew[t] <= countedNew[t] /\ (bagNew[t] = countedNew[t] \/ t + Window <= now)
          BY <5>1, <5>2
        <5> QED
          BY <2>6, <4>2, <5>3
      <4> QED
        BY <4>1, <4>2
    <3> QED
      BY <3>1, now' = now DEF DroppedWhenOld
  <2>8. StoresAreCapped'
    <3>1. CountIn(bagNew, Times) <= Limit
      <4>1. CountIn(bag, Times) \in Nat
        BY CountFinite
      <4> QED
        BY <1>1, <2>1, <2>4, <4>1
    <3> QED
      BY <2>6, <3>1 DEF StoreInv, StoresAreCapped
  <2>9. WindowHolds'
    <3> SUFFICES ASSUME NEW r \in Stores, NEW a \in Times
                 PROVE  CountIn(counted'[r], {t \in Times : a <= t /\ t + MaxDelay < a + Window}) <= Limit
      BY DEF WindowHolds
    <3> DEFINE ts == {t \in Times : a <= t /\ t + MaxDelay < a + Window}
    <3>1. CountIn(counted[r], ts) <= Limit /\ ts \in SUBSET Times
      BY DEF StoreInv, WindowHolds
    <3>2. CASE r # s
      BY <2>6, <3>1, <3>2
    <3>3. CASE r = s /\ stamp \notin ts
      <4> HIDE DEF ts, stamp
      <4>1. CountIn(countedNew, ts) = CountIn(counted[s], ts)
        BY <1>1, <2>2, <3>1, <3>3, CountAdd DEF countedNew
      <4> QED
        BY <2>6, <3>1, <3>3, <4>1 DEF ts
    <3>4. CASE r = s /\ stamp \in ts
      <4>1. ASSUME NEW t \in ts PROVE counted[s][t] <= bag[t]
        <5>1. t \in Times /\ t \in Nat /\ a \in Nat /\ a <= t /\ stamp + MaxDelay < a + Window
          BY <1>1, <3>4, <4>1
        <5>2. t + Window > now
          <6> HIDE DEF stamp
          <6> QED
            BY <1>1, <5>1
        <5> HIDE DEF stamp
        <5> QED
          BY <1>1, <1>3, <1>4, <5>1, <5>2
      <4> HIDE DEF ts, stamp
      <4>2. counted[s] \in Bag /\ Times \in SUBSET Times
        BY <1>1
      <4>3. CountIn(counted[s], ts) <= CountIn(bag, Times)
        BY <1>4, <3>1, <4>1, <4>2, CountMonotone
      <4>4. CountIn(countedNew, ts) = CountIn(counted[s], ts) + 1
        BY <1>1, <2>2, <3>1, <3>4, <4>2, CountAdd DEF countedNew
      <4>5. CountIn(counted[s], ts) \in Nat /\ CountIn(bag, Times) \in Nat
        BY <3>1, CountFinite
      <4>6. CountIn(countedNew, ts) <= Limit
        BY <1>1, <2>1, <4>3, <4>4, <4>5
      <4> QED
        BY <2>6, <3>4, <4>6 DEF ts
    <3> QED
      BY <3>2, <3>3, <3>4
  <2> QED
    BY <2>1, <2>5, <2>6, <2>7, <2>8, <2>9 DEF countedNew
<1> QED
  BY <1>6, <1>7
\* A request that goes on as the code lets it keeps its stamp, and once a store
\* has counted it, that store does not await it any more.
LEMMA RequestMoves ==
  ASSUME Types, CountedArrived, NEW c \in Calls, NEW s \in Stores, arrived' = arrived,
         \A d \in Calls \ {c} : call'[d] = call[d],
         call'[c].stamp = call[c].stamp \/ \A r \in Stores : ~Awaits(r, c)',
         \A r \in Stores : Awaits(r, c)' => Awaits(r, c),
         \/ counted' = counted
         \/ /\ Awaits(s, c) /\ ~Awaits(s, c)'
            /\ counted[s][call[c].stamp] \in Nat
            /\ counted' = [counted EXCEPT ![s] = Add(counted[s], call[c].stamp)]
  PROVE  CountedArrived'
<1>1. ASSUME NEW r \in Stores, NEW t \in Times
      PROVE  counted'[r][t] + Cardinality(Awaiting(r, t)') <= arrived[t]
  <2>1. /\ counted[r][t] + Cardinality(Awaiting(r, t)) <= arrived[t]
        /\ counted[r][t] \in Nat /\ arrived[t] \in Nat
    BY DEF CountedArrived, Types, Bag
  <2>2. Awaiting(r, t)' \in SUBSET Awaiting(r, t)
    BY DEF Awaiting, Awaits
  <2>3. Cardinality(Awaiting(r, t)') <= Cardinality(Awaiting(r, t))
    BY <2>2, AwaitingFinite, FS_Subset
  <2>4. Cardinality(Awaiting(r, t)) \in Nat /\ Cardinality(Awaiting(r, t)') \in Nat
    <3>1. IsFiniteSet(Awaiting(r, t)')
      BY <2>2, AwaitingFinite, FS_Subset
    <3> QED
      BY <3>1, AwaitingFinite, FS_CardinalityType
  <2>5. CASE counted'[r][t] = counted[r][t]
    BY <2>1, <2>3, <2>4, <2>5
  <2>6. CASE counted'[r][t] # counted[r][t]
    <3>1. /\ Awaits(s, c) /\ ~Awaits(s, c)' /\ r = s /\ t = call[c].stamp
          /\ counted'[r][t] = counted[r][t] + 1
      BY <2>6 DEF Types, Add, Bag
    <3>2. c \in Awaiting(r, t) /\ c \notin Awaiting(r, t)'
      BY <3>1 DEF Awaiting
    <3>3. Awaiting(r, t)' \in SUBSET (Awaiting(r, t) \ {c})
      BY <2>2, <3>2
    <3>4. /\ IsFiniteSet(Awaiting(r, t) \ {c})
          /\ Cardinality(Awaiting(r, t) \ {c}) = Cardinality(Awaiting(r, t)) - 1
      BY <3>2, AwaitingFinite, FS_RemoveElement
    <3>5. Cardinality(Awaiting(r, t)') <= Cardinality(Awaiting(r, t)) - 1
      BY <3>3, <3>4, FS_Subset
    <3> QED
      BY <2>1, <2>4, <3>1, <3>5
  <2> QED
    BY <2>5, <2>6
<1> QED
  BY <1>1 DEF CountedArrived

\* A request that arrives finds room in the bag of arrivals; the stores may yet
\* count it.
LEMMA ArriveStep ==
  ASSUME Types, StoreInv, UsageArrived, NEW c \in Calls, Arrive(c)
  PROVE  Types' /\ StoreInv' /\ UsageArrived'
<1> DEFINE all == CountIn(arrived, Times)
<1>1. /\ now \in Times /\ now \in Nat /\ arrived \in Bag /\ all \in Nat /\ all < MaxArrivals
      /\ MaxArrivals \in Nat /\ MaxDelay \in Nat /\ used \in Nat /\ blind \in Nat
      /\ call \in [Calls -> Call] /\ Times \in SUBSET Times
  BY CountFinite, AdmissionAssumption DEF Types, Arrive, Times
<1>2. arrived[now] <= all /\ arrived[now] \in Nat
  BY <1>1, CountAtLeast DEF Bag
<1> HIDE DEF all
<1>3. /\ arrived' = Add(arrived, now) /\ arrived' \in Bag
      /\ CountIn(arrived', Times) = all + 1
      /\ \A t \in Times : arrived'[t] = IF t = now THEN arrived[t] + 1 ELSE arrived[t]
  <2>1. arrived' = Add(arrived, now)
    BY DEF Arrive
  <2>2. arrived[now] < MaxArrivals
    BY <1>1, <1>2
  <2>3. Add(arrived, now) \in Bag /\ CountIn(Add(arrived, now), Times) = CountIn(arrived, Times) + 1
    BY <1>1, <2>2, CountAdd
  <2>4. \A t \in Times : Add(arrived, now)[t] = IF t = now THEN arrived[t] + 1 ELSE arrived[t]
    BY <1>1 DEF Add, Bag
  <2> QED
    BY <2>1, <2>3, <2>4 DEF all
<1>4. /\ call'[c] = [pc |-> "redis", stamp |-> now, listed |-> FALSE]
      /\ call' \in [Calls -> Call]
      /\ \A d \in Calls \ {c} : call'[d] = call[d]
      /\ call[c].pc = "idle"
      /\ UNCHANGED <<now, window, used, counted, blind>>
  BY <1>1 DEF Arrive, Idle, Call, histories
<1>5. Types'
  BY <1>3, <1>4 DEF Types
<1>6. ChecksAreSoon' /\ DroppedWhenOld' /\ StoresAreCapped' /\ WindowHolds'
  BY <1>1, <1>4 DEF StoreInv, ChecksAreSoon, DroppedWhenOld, StoresAreCapped, WindowHolds
<1>7. CountedArrived'
  <2>1. ASSUME NEW r \in Stores, NEW t \in Times
        PROVE  counted[r][t] + Cardinality(Awaiting(r, t)') <= arrived'[t]
    <3>1. /\ counted[r][t] + Cardinality(Awaiting(r, t)) <= arrived[t]
          /\ counted[r][t] \in Nat /\ arrived[t] \in Nat
      BY DEF StoreInv, CountedArrived, Types, Bag
    <3>2. Cardinality(Awaiting(r, t)) \in Nat /\ IsFiniteSet(Awaiting(r, t))
      BY AwaitingFinite
    <3>3. c \notin Awaiting(r, t)
      BY <1>4 DEF Awaiting, Awaits
    <3>4. CASE t = now
      <4>1. Awaiting(r, t)' \in SUBSET (Awaiting(r, t) \cup {c})
        BY <1>4 DEF Awaiting, Awaits
      <4>2. /\ IsFiniteSet(Awaiting(r, t) \cup {c})
            /\ Cardinality(Awaiting(r, t) \cup {c}) = Cardinality(Awaiting(r, t)) + 1
        BY <3>2, <3>3, FS_AddElement
      <4>3. IsFiniteSet(Awaiting(r, t)') /\ Cardinality(Awaiting(r, t)') <= Cardinality(Awaiting(r, t)) + 1
        BY <4>1, <4>2, FS_Subset
      <4>4. Cardinality(Awaiting(r, t)') \in Nat
        BY <4>3, FS_CardinalityType
      <4> QED
        BY <1>3, <3>1, <3>2, <3>4, <4>3, <4>4
    <3>5. CASE t # now
      <4>1. Awaiting(r, t)' = Awaiting(r, t)
        BY <1>4, <3>3, <3>5 DEF Awaiting, Awaits
      <4> QED
        BY <1>3, <3>1, <3>5, <4>1
    <3> QED
      BY <3>4, <3>5
  <2> QED
    BY <1>4, <2>1 DEF CountedArrived
<1>8. UsageArrived'
  <2>1. Busy' = Busy \cup {c} /\ Unread' = Unread \cup {c} /\ c \notin Busy /\ c \notin Unread
    BY <1>4 DEF Busy, Unread
  <2>2. /\ Cardinality(Busy') = Cardinality(Busy) + 1 /\ Cardinality(Busy) \in Nat
        /\ Cardinality(Unread') = Cardinality(Unread) + 1 /\ Cardinality(Unread) \in Nat
    BY <2>1, SomeCalls, FS_AddElement
  <2>3. /\ used + Cardinality(Busy) <= all /\ blind + Cardinality(Unread) <= all
    BY DEF UsageArrived, all
  <2>4. /\ used + Cardinality(Busy') <= all + 1 /\ blind + Cardinality(Unread') <= all + 1
        /\ all + 1 <= MaxArrivals
    BY <1>1, <2>2, <2>3
  <2> QED
    BY <1>3, <1>4, <2>4 DEF UsageArrived
<1> QED
  BY <1>5, <1>6, <1>7, <1>8 DEF StoreInv

\* The other steps of a request: it keeps or leaves what it was counted among.
LEMMA UsageMoves ==
  ASSUME Types, UsageArrived, arrived' = arrived,
         \/ used' = used /\ Busy' \subseteq Busy
         \/ used' = used + 1 /\ \E c \in Busy : Busy' \subseteq Busy \ {c},
         \/ blind' = blind /\ Unread' \subseteq Unread
         \/ blind' = blind + 1 /\ \E c \in Unread : Unread' \subseteq Unread \ {c}
  PROVE  UsageArrived' /\ used' \in Nat /\ blind' \in Nat
<1> DEFINE all == CountIn(arrived, Times)
<1>1. /\ used \in Nat /\ blind \in Nat /\ all \in Nat
      /\ used + Cardinality(Busy) <= all /\ blind + Cardinality(Unread) <= all /\ all <= MaxArrivals
  BY CountFinite DEF Types, UsageArrived
<1> HIDE DEF all
<1>2. ASSUME NEW A, IsFiniteSet(A), NEW B, NEW n \in Nat, NEW m,
             n + Cardinality(A) <= all,
             \/ m = n /\ B \subseteq A
             \/ m = n + 1 /\ \E c \in A : B \subseteq A \ {c}
      PROVE  m \in Nat /\ m + Cardinality(B) <= all
  <2>1. Cardinality(A) \in Nat
    BY <1>2, FS_CardinalityType
  <2>2. CASE m = n /\ B \subseteq A
    <3>1. IsFiniteSet(B) /\ Cardinality(B) <= Cardinality(A)
      BY <1>2, <2>2, FS_Subset
    <3>2. Cardinality(B) \in Nat
      BY <3>1, FS_CardinalityType
    <3> QED
      BY <1>1, <1>2, <2>1, <2>2, <3>1, <3>2
  <2>3. CASE m = n + 1 /\ \E c \in A : B \subseteq A \ {c}
    <3>1. PICK c \in A : B \subseteq A \ {c}
      BY <2>3
    <3>2. IsFiniteSet(A \ {c}) /\ Cardinality(A \ {c}) = Cardinality(A) - 1
      BY <1>2, FS_RemoveElement
    <3>3. IsFiniteSet(B) /\ Cardinality(B) <= Cardinality(A) - 1
      BY <3>1, <3>2, FS_Subset
    <3>4. Cardinality(B) \in Nat
      BY <3>3, FS_CardinalityType
    <3> QED
      BY <1>1, <1>2, <2>1, <2>3, <3>3, <3>4
  <2> QED
    BY <1>2, <2>2, <2>3
<1>3. used' \in Nat /\ used' + Cardinality(Busy') <= all
  BY <1>1, <1>2, SomeCalls
<1>4. blind' \in Nat /\ blind' + Cardinality(Unread') <= all
  BY <1>1, <1>2, SomeCalls
<1> QED
  BY <1>1, <1>3, <1>4 DEF UsageArrived, all
-----------------------------------------------------------------------------
\* A request asks a store, which may count it.
LEMMA AskStep ==
  ASSUME StepInv, NEW c \in Calls, NEW s \in Stores,
         call[c].pc \in {"redis", "local"}, s = "local" <=> call[c].pc = "local",
         Enter(s, c), UNCHANGED <<now, used, arrived, blind>>,
         NEW pc, NEW listed \in BOOLEAN,
         call' = [call EXCEPT ![c].pc = pc, ![c].listed = listed],
         \/ pc \in {"idle", "quota"}
         \/ s = "redis" /\ pc \in {"redis", "local"}
            /\ (call[c].listed \/ Admits(s, c) => listed)
  PROVE  StepInv'
<1>1. /\ Types /\ StoreInv /\ CountedArrived /\ UsageArrived
      /\ call[c].pc \in {"redis", "local"} /\ (s = "local" \/ call[c].pc = "redis")
  BY DEF StepInv, StoreInv, Stores
<1>2. /\ window' \in [Stores -> Bag] /\ counted' \in [Stores -> Bag]
      /\ DroppedWhenOld' /\ StoresAreCapped' /\ WindowHolds'
      /\ \/ counted' = counted
         \/ /\ Awaits(s, c) /\ Admits(s, c)
            /\ counted' = [counted EXCEPT ![s] = Add(counted[s], call[c].stamp)]
  BY <1>1, EnterStep
<1>3. /\ call' \in [Calls -> Call] /\ call'[c].pc = pc /\ call'[c].listed = listed
      /\ call'[c].stamp = call[c].stamp /\ \A d \in Calls \ {c} : call'[d] = call[d]
  <2>1. call[c] \in Call /\ call \in [Calls -> Call] /\ pc \in {"idle", "redis", "local", "quota"}
    BY <1>1 DEF Types
  <2> DEFINE q == [call[c] EXCEPT !.pc = pc, !.listed = listed]
  <2>2. q \in Call /\ q.pc = pc /\ q.listed = listed /\ q.stamp = call[c].stamp
    BY <2>1 DEF Call
  <2>3. call' = [call EXCEPT ![c] = q]
    OBVIOUS
  <2> HIDE DEF q
  <2> QED
    BY <2>1, <2>2, <2>3
<1>4. Types'
  BY <1>1, <1>2, <1>3 DEF Types
<1>5. ChecksAreSoon'
  <2>1. ASSUME NEW d \in Calls, call'[d].pc \in {"redis", "local"}
        PROVE  call'[d].stamp <= now /\ now <= call'[d].stamp + MaxDelay
    <3>1. call[d].pc \in {"redis", "local"} /\ call'[d].stamp = call[d].stamp
      BY <1>1, <1>3, <2>1
    <3> QED
      BY <3>1 DEF StepInv, StoreInv, ChecksAreSoon
  <2> QED
    BY <2>1 DEF ChecksAreSoon
<1>6. CountedArrived'
  <2>1. \A r \in Stores : Awaits(r, c)' => Awaits(r, c)
    BY <1>1, <1>3 DEF Awaits
  <2>2. counted[s][call[c].stamp] \in Nat
    <3>1. call[c].stamp \in Times
      BY <1>1 DEF Types, Call
    <3> QED
      BY <1>1, <3>1 DEF Types, Bag
  <2>3. Admits(s, c) => ~Awaits(s, c)'
    BY <1>1, <1>3 DEF Awaits
  <2> QED
    BY <1>1, <1>2, <1>3, <2>1, <2>2, <2>3, RequestMoves
<1>7. UsageArrived'
  <2>1. Busy' \subseteq Busy /\ Unread' \subseteq Unread
    BY <1>1, <1>3 DEF Busy, Unread
  <2> QED
    BY <1>1, <2>1, UsageMoves
<1> QED
  BY <1>2, <1>4, <1>5, <1>6, <1>7 DEF StepInv, StoreInv

\* A request goes on without a store.
LEMMA GoesStep ==
  ASSUME StepInv, NEW c \in Calls, NEW pc, Goes(c, pc),
         UNCHANGED <<now, window, arrived, counted>>,
         \/ call[c].pc = "redis" /\ pc = "local" /\ UNCHANGED <<used, blind>>
         \/ call[c].pc = "quota" /\ pc \in {"work", "idle"} /\ UNCHANGED used
            /\ blind' \in {blind, blind + 1}
         \/ call[c].pc = "work" /\ pc = "idle" /\ UNCHANGED blind
            /\ used' \in {used, used + 1}
  PROVE  StepInv'
<1>1. Types /\ StoreInv /\ CountedArrived /\ UsageArrived
  BY DEF StepInv, StoreInv
<1>2. /\ call' \in [Calls -> Call] /\ call'[c].pc = pc /\ call'[c].listed = call[c].listed
      /\ call'[c].stamp = call[c].stamp /\ \A d \in Calls \ {c} : call'[d] = call[d]
  <2>1. call[c] \in Call /\ call \in [Calls -> Call] /\ pc \in {"local", "work", "idle"}
    BY <1>1 DEF Types
  <2> DEFINE q == [call[c] EXCEPT !.pc = pc]
  <2>2. q \in Call /\ q.pc = pc /\ q.listed = call[c].listed /\ q.stamp = call[c].stamp
    BY <2>1 DEF Call
  <2>3. call' = [call EXCEPT ![c] = q]
    BY DEF Goes
  <2> HIDE DEF q
  <2> QED
    BY <2>1, <2>2, <2>3
<1>3. UsageArrived' /\ used' \in Nat /\ blind' \in Nat
  <2>1. Busy' \subseteq Busy /\ Unread' \subseteq Unread
    BY <1>2 DEF Busy, Unread
  <2>2. call[c].pc = "quota" => c \in Unread /\ Unread' \subseteq Unread \ {c}
    BY <1>2 DEF Unread
  <2>3. call[c].pc = "work" => c \in Busy /\ Busy' \subseteq Busy \ {c}
    BY <1>2 DEF Busy
  <2> QED
    BY <1>1, <2>1, <2>2, <2>3, UsageMoves
<1>4. Types'
  BY <1>1, <1>2, <1>3 DEF Types
<1>5. DroppedWhenOld' /\ StoresAreCapped' /\ WindowHolds'
  BY <1>1 DEF StoreInv, DroppedWhenOld, StoresAreCapped, WindowHolds
<1>6. ChecksAreSoon'
  <2>1. ASSUME NEW d \in Calls, call'[d].pc \in {"redis", "local"}
        PROVE  call[d].pc \in {"redis", "local"} /\ call'[d].stamp = call[d].stamp
    BY <1>2, <2>1
  <2> QED
    BY <1>1, <2>1 DEF StoreInv, ChecksAreSoon
<1>7. CountedArrived'
  <2>1. \A r \in Stores : Awaits(r, c)' => Awaits(r, c)
    BY <1>2 DEF Awaits
  <2>2. "local" \in Stores
    BY DEF Stores
  <2> QED
    BY <1>1, <1>2, <2>1, <2>2, RequestMoves
<1> QED
  BY <1>3, <1>4, <1>5, <1>6, <1>7 DEF StepInv, StoreInv

LEMMA CallKeepsStepInv == ASSUME StepInv, NEW c \in Calls, CallNext(c) PROVE StepInv'
<1> USE DEF histories
<1>1. call \in [Calls -> Call] /\ call[c].listed \in BOOLEAN /\ {"redis", "local"} = Stores
  BY DEF StepInv, Types, Call, Stores
<1>2. ASSUME NEW pc PROVE Goes(c, pc) <=> call' = [call EXCEPT ![c].pc = pc, ![c].listed = call[c].listed]
  <2>1. [call[c] EXCEPT !.pc = pc] = [call[c] EXCEPT !.pc = pc, !.listed = call[c].listed]
    <3>1. call[c] \in Call
      BY <1>1
    <3> QED
      BY <3>1 DEF Call
  <2> QED
    BY <2>1 DEF Goes
<1>3. CASE Arrive(c)
  BY <1>3, ArriveStep DEF StepInv
<1>4. CASE AskRedis(c)
  <2>1. PICK pc \in {"idle", "quota"} : Goes(c, pc)
    BY <1>4 DEF AskRedis, Obey
  <2>2. /\ call[c].pc = "redis" /\ Enter("redis", c) /\ UNCHANGED <<now, used, arrived, blind>>
    BY <1>4 DEF AskRedis, Obey
  <2>3. call' = [call EXCEPT ![c].pc = pc, ![c].listed = call[c].listed]
    BY <1>2, <2>1
  <2> QED
    BY <1>1, <2>2, <2>3, AskStep
<1>5. CASE AskLocal(c)
  <2>1. PICK pc \in {"idle", "quota"} : Goes(c, pc)
    BY <1>5 DEF AskLocal, Obey
  <2>2. /\ call[c].pc = "local" /\ Enter("local", c) /\ UNCHANGED <<now, used, arrived, blind>>
    BY <1>5 DEF AskLocal, Obey
  <2>3. call' = [call EXCEPT ![c].pc = pc, ![c].listed = call[c].listed]
    BY <1>2, <2>1
  <2> QED
    BY <1>1, <2>2, <2>3, AskStep
<1>6. CASE AskRedisInVain(c)
  <2> DEFINE b == call[c].listed \/ Admits("redis", c)
  <2>1. PICK pc \in {"redis", "local"} : call' = [call EXCEPT ![c].pc = pc, ![c].listed = b]
    BY <1>6 DEF AskRedisInVain
  <2>2. /\ call[c].pc = "redis" /\ Enter("redis", c) /\ UNCHANGED <<now, used, arrived, blind>>
    BY <1>6 DEF AskRedisInVain
  <2>3. b \in BOOLEAN /\ (call[c].listed \/ Admits("redis", c) => b)
    OBVIOUS
  <2> HIDE DEF b
  <2> QED
    BY <1>1, <2>1, <2>2, <2>3, AskStep
<1>7. CASE NoRedis(c)
  BY <1>7, GoesStep DEF NoRedis
<1>8. CASE ReadUsage(c)
  <2>1. \E pc \in {"work", "idle"} : Goes(c, pc)
    BY <1>8 DEF ReadUsage
  <2>2. /\ call[c].pc = "quota" /\ blind' \in {blind, blind + 1}
        /\ UNCHANGED <<now, window, used, arrived, counted>>
    BY <1>8 DEF ReadUsage
  <2> QED
    BY <2>1, <2>2, GoesStep
<1>9. CASE Fail(c) \/ Succeed(c)
  <2>1. /\ call[c].pc = "work" /\ Goes(c, "idle") /\ used' \in {used, used + 1}
        /\ UNCHANGED <<now, window, arrived, counted, blind>>
    BY <1>9 DEF Fail, Succeed
  <2> QED
    BY <2>1, GoesStep
<1> QED
  BY <1>3, <1>4, <1>5, <1>6, <1>7, <1>8, <1>9 DEF CallNext

LEMMA TickKeepsStepInv == ASSUME StepInv, Tick PROVE StepInv'
<1>1. /\ now \in Nat /\ now < MaxTime /\ now' = now + 1 /\ now' \in Times
      /\ UNCHANGED <<window, used, call, arrived, counted, blind>>
      /\ {Window, MaxDelay, MaxTime} \subseteq Nat
      /\ \A t \in Times : t \in Nat
  BY AdmissionAssumption DEF StepInv, Types, Tick, Times, histories
<1>2. Types' /\ UsageArrived'
  BY <1>1 DEF StepInv, Types, UsageArrived, Busy, Unread
<1>3. StoresAreCapped' /\ WindowHolds' /\ CountedArrived'
  BY <1>1 DEF StepInv, StoreInv, StoresAreCapped, WindowHolds, CountedArrived, Awaiting, Awaits
<1>4. DroppedWhenOld'
  <2>1. ASSUME NEW s \in Stores, NEW t \in Times, t + Window <= now PROVE t + Window <= now'
    BY <1>1, <2>1
  <2> QED
    BY <1>1, <2>1 DEF StepInv, StoreInv, DroppedWhenOld
<1>5. ChecksAreSoon'
  <2>1. ASSUME NEW c \in Calls, call[c].pc \in {"redis", "local"}
        PROVE  call[c].stamp <= now' /\ now' <= call[c].stamp + MaxDelay
    <3>1. call[c].stamp \in Nat
      BY <1>1 DEF StepInv, Types, Call
    <3>2. call[c].stamp <= now /\ now < call[c].stamp + MaxDelay
      BY <2>1 DEF StepInv, StoreInv, ChecksAreSoon, Tick
    <3> QED
      BY <1>1, <3>1, <3>2
  <2> QED
    BY <1>1, <2>1 DEF ChecksAreSoon
<1> QED
  BY <1>2, <1>3, <1>4, <1>5 DEF StepInv, StoreInv

LEMMA StepInvNext == ASSUME StepInv, [Next]_vars PROVE StepInv'
<1>1. CASE UNCHANGED vars
  BY <1>1 DEF vars, StepInv, Types, StoreInv, ChecksAreSoon, DroppedWhenOld, StoresAreCapped,
              CountedArrived, Awaiting, Awaits, WindowHolds, UsageArrived, Busy, Unread
<1> QED
  BY <1>1, CallKeepsStepInv, TickKeepsStepInv DEF Next

LEMMA StepInvInit == ASSUME Init PROVE StepInv
<1>1. /\ 0 \in Times /\ MaxArrivals \in Nat /\ Limit \in Nat /\ Window \in Nat
  BY AdmissionAssumption DEF Times
<1>2. Nothing \in Bag /\ \A t \in Times : Nothing[t] = 0
  BY <1>1 DEF Nothing, Bag
<1>3. Types
  BY <1>1, <1>2 DEF Init, Types, Idle, Call
<1>4. Busy = {} /\ Unread = {} /\ \A s, t : Awaiting(s, t) = {}
  BY DEF Init, Idle, Busy, Unread, Awaiting, Awaits
<1>5. /\ Cardinality(Busy) = 0 /\ Cardinality(Unread) = 0
      /\ \A s, t : Cardinality(Awaiting(s, t)) = 0
  BY <1>4, FS_EmptySet
<1>6. ChecksAreSoon
  BY DEF Init, Idle, ChecksAreSoon
<1>7. DroppedWhenOld
  BY <1>2 DEF Init, DroppedWhenOld
<1>8. StoresAreCapped /\ WindowHolds
  <2>1. CountIn(Nothing, Times) <= Limit
    BY <1>1, CountNothing
  <2>2. ASSUME NEW a PROVE CountIn(Nothing, {t \in Times : a <= t /\ t + MaxDelay < a + Window}) <= Limit
    <3>1. {t \in Times : a <= t /\ t + MaxDelay < a + Window} \in SUBSET Times
      OBVIOUS
    <3> QED
      BY <1>1, <3>1, CountNothing
  <2> QED
    BY <2>1, <2>2 DEF Init, StoresAreCapped, WindowHolds
<1>9. CountedArrived
  BY <1>2, <1>5 DEF Init, CountedArrived
<1>10. UsageArrived
  <2>1. CountIn(Nothing, Times) = 0
    BY CountNothing
  <2> QED
    BY <1>1, <1>5, <2>1 DEF Init, UsageArrived
<1> QED
  BY <1>3, <1>6, <1>7, <1>8, <1>9, <1>10 DEF StepInv, StoreInv

THEOREM Invariant == Spec => []StepInv
  BY StepInvInit, StepInvNext, PTL DEF Spec
-----------------------------------------------------------------------------
\* Clock, stores, usage and requests are what they are declared as: a store
\* never holds more stamps than it may admit, and no bound of a count is passed
\* (rate_limiter.go, the ZCARD test before the ZADD and the local list).
THEOREM TypeCorrect == Spec => []TypeOK
<1>1. ASSUME StepInv PROVE TypeOK
  <2> DEFINE all == CountIn(arrived, Times)
  <2>1. /\ used \in Nat /\ blind \in Nat /\ all \in Nat /\ MaxArrivals \in Nat
        /\ Cardinality(Busy) \in Nat /\ Cardinality(Unread) \in Nat
    BY <1>1, CountFinite, SomeCalls, AdmissionAssumption DEF StepInv, Types
  <2>2. /\ used + Cardinality(Busy) <= all /\ blind + Cardinality(Unread) <= all
        /\ all <= MaxArrivals
    BY <1>1 DEF StepInv, UsageArrived
  <2> HIDE DEF all
  <2>3. used \in 0..MaxArrivals /\ blind \in 0..MaxArrivals
    BY <2>1, <2>2
  <2> QED
    BY <1>1, <2>3 DEF StepInv, Types, StoreInv, StoresAreCapped, TypeOK
<1> QED
  BY <1>1, Invariant, PTL

\* A store never counts more requests than the limit in a window shortened by
\* the longest delay between a stamp and its check (rate_limiter.go Allow reads
\* the clock before it waits for the store).
THEOREM WindowLimitHolds == Spec => []WindowHolds
<1>1. StepInv => WindowHolds
  BY DEF StepInv, StoreInv
<1> QED
  BY <1>1, Invariant, PTL

\* A request is refused only if as many requests as the limit arrived in its
\* window: a refusal by itself never prolongs a refusal (rate_limiter.go adds
\* the stamp only when there is room).
THEOREM RefusalsHaveCause == Spec => RefusalsAreDue
<1>1. ASSUME StepInv, [Next]_vars
      PROVE  [\A c \in Calls : call[c].pc \in {"redis", "local"} /\ call'[c].pc = "idle"
                => CountIn(arrived, {t \in Times : t + Window > call[c].stamp}) >= Limit]_vars
  <2> SUFFICES ASSUME Next, NEW c \in Calls,
                      call[c].pc \in {"redis", "local"}, call'[c].pc = "idle"
               PROVE  CountIn(arrived, {t \in Times : t + Window > call[c].stamp}) >= Limit
    BY <1>1
  <2>1. \E s \in Stores : ~Admits(s, c)
    <3>1. call \in [Calls -> Call] /\ call'[c] # call[c]
      BY <1>1 DEF StepInv, Types
    <3>2. ASSUME NEW d \in Calls, CallNext(d), call'[d] # call[d], d # c PROVE FALSE
      BY <3>1, <3>2 DEF CallNext, Arrive, AskRedis, AskRedisInVain, NoRedis, AskLocal, Obey, Goes,
                        ReadUsage, Fail, Succeed
    <3>3. ~Tick
      BY <3>1 DEF Tick
    <3>4. PICK d \in Calls : CallNext(d)
      BY <3>3 DEF Next
    <3>5. d = c
      BY <3>1, <3>4 DEF CallNext, Arrive, AskRedis, AskRedisInVain, NoRedis, AskLocal, Obey, Goes,
                        ReadUsage, Fail, Succeed
    <3>6. AskRedis(c) \/ AskLocal(c)
      <4>1. call[c] \in Call
        BY <1>1 DEF StepInv, Types
      <4>2. ~AskRedisInVain(c)
        <5>1. ASSUME NEW b, NEW pc \in {"redis", "local"},
                     call' = [call EXCEPT ![c].pc = pc, ![c].listed = b]
              PROVE  FALSE
          <6>1. call'[c] = [call[c] EXCEPT !.pc = pc, !.listed = b]
            BY <3>1, <5>1
          <6> QED
            BY <4>1, <6>1 DEF Call
        <5> QED
          BY <5>1 DEF AskRedisInVain
      <4>3. ~NoRedis(c)
        BY <3>1, <4>1 DEF NoRedis, Goes, Call
      <4>4. ~Arrive(c) /\ ~ReadUsage(c) /\ ~Fail(c) /\ ~Succeed(c)
        BY DEF Arrive, ReadUsage, Fail, Succeed
      <4> QED
        BY <3>4, <3>5, <4>2, <4>3, <4>4 DEF CallNext
    <3>7. \E s \in Stores : Obey(s, c)
      BY <3>6 DEF AskRedis, AskLocal, Stores
    <3> QED
      BY <3>1, <3>7 DEF Obey, Goes
  <2>2. PICK s \in Stores : ~Room(Fresh(window[s], call[c].stamp))
    BY <2>1 DEF Admits
  <2> DEFINE bag == Fresh(window[s], call[c].stamp)
             ts  == {t \in Times : t + Window > call[c].stamp}
  <2>3. /\ \A t \in Times : bag[t] = IF t + Window > call[c].stamp THEN window[s][t] ELSE 0
        /\ bag \in Bag /\ arrived \in Bag /\ ts \in SUBSET Times /\ Times \in SUBSET Times
    <3>1. \A t \in Times : window[s][t] \in 0..MaxArrivals
      BY <1>1 DEF StepInv, Types, Bag
    <3>2. MaxArrivals \in Nat
      BY AdmissionAssumption
    <3> QED
      BY <1>1, <3>1, <3>2 DEF Fresh, Bag, StepInv, Types
  <2>4. ASSUME NEW t \in Times, bag[t] > 0 PROVE t \in ts /\ bag[t] <= arrived[t]
    <3>1. bag[t] = window[s][t] /\ t \in ts
      BY <2>3, <2>4
    <3>2. window[s][t] <= counted[s][t] /\ counted[s][t] + Cardinality(Awaiting(s, t)) <= arrived[t]
      BY <1>1 DEF StepInv, StoreInv, DroppedWhenOld, CountedArrived
    <3>3. window[s][t] \in Nat /\ counted[s][t] \in Nat /\ arrived[t] \in Nat
      BY <1>1 DEF StepInv, Types, Bag
    <3>4. Cardinality(Awaiting(s, t)) \in Nat
      BY AwaitingFinite
    <3>5. window[s][t] <= arrived[t]
      BY <3>2, <3>3, <3>4
    <3> QED
      BY <3>1, <3>5
  <2>5. ~(CountIn(bag, Times) < Limit)
    BY <2>2 DEF Room
  <2> HIDE DEF bag, ts
  <2>6. CountIn(bag, Times) <= CountIn(arrived, ts)
    BY <2>3, <2>4, CountMonotone
  <2>7. CountIn(bag, Times) \in Nat /\ CountIn(arrived, ts) \in Nat /\ Limit \in Nat
    BY <2>3, CountFinite, AdmissionAssumption
  <2>8. CountIn(arrived, ts) >= Limit
    BY <2>5, <2>6, <2>7
  <2> QED
    BY <2>8 DEF ts
<1> QED
  BY <1>1, Invariant, PTL DEF Spec, RefusalsAreDue
-----------------------------------------------------------------------------
Working == {c \in Calls : call[c].pc = "work"}

QuotaInv ==
  DailyLimit > 0 =>
    used + Cardinality(Working) < DailyLimit + Cardinality(Calls) + blind

\* The requests at work are some of the requests; one more or one less of them
\* counts one.
LEMMA WorkingFacts ==
  /\ IsFiniteSet(Working) /\ Cardinality(Working) \in Nat /\ Cardinality(Calls) \in Nat
  /\ Cardinality(Working) <= Cardinality(Calls)
  /\ \A c \in Calls \ Working :
       /\ Cardinality(Working \cup {c}) = Cardinality(Working) + 1
       /\ Cardinality(Working) + 1 <= Cardinality(Calls)
  /\ \A c \in Working : Cardinality(Working \ {c}) = Cardinality(Working) - 1
<1>1. /\ Working \subseteq Calls /\ IsFiniteSet(Calls) /\ IsFiniteSet(Working)
      /\ Cardinality(Working) <= Cardinality(Calls)
  BY FS_Subset, AdmissionAssumption DEF Working
<1>2. Cardinality(Working) \in Nat /\ Cardinality(Calls) \in Nat
  BY <1>1, FS_CardinalityType
<1>3. ASSUME NEW c \in Calls \ Working
      PROVE  /\ Cardinality(Working \cup {c}) = Cardinality(Working) + 1
             /\ Cardinality(Working) + 1 <= Cardinality(Calls)
  <2>1. Cardinality(Working \cup {c}) = Cardinality(Working) + 1
    BY <1>1, FS_AddElement
  <2>2. Working \cup {c} \subseteq Calls
    BY <1>1
  <2>3. Cardinality(Working \cup {c}) <= Cardinality(Calls)
    BY <1>1, <2>2, FS_Subset
  <2> QED
    BY <2>1, <2>3
<1>4. ASSUME NEW c \in Working PROVE Cardinality(Working \ {c}) = Cardinality(Working) - 1
  BY <1>1, FS_RemoveElement
<1> QED
  BY <1>1, <1>2, <1>3, <1>4

LEMMA QuotaInit == ASSUME Init PROVE QuotaInv
<1>1. Working = {}
  BY DEF Init, Working, Idle
<1>2. Cardinality(Working) = 0
  BY <1>1, FS_EmptySet
<1> QED
  BY <1>2, WorkingFacts, AdmissionAssumption DEF Init, QuotaInv

\* A request begins to work, or ends; the others leave the quota alone.
LEMMA QuotaCall == ASSUME StepInv, QuotaInv, NEW c \in Calls, CallNext(c) PROVE QuotaInv'
<1>1. call \in [Calls -> Call] /\ call[c] \in Call /\ used \in Nat /\ blind \in Nat
  BY DEF StepInv, Types
<1>2. ASSUME NEW pc, Goes(c, pc)
      PROVE  call'[c].pc = pc /\ \A d \in Calls \ {c} : call'[d] = call[d]
  BY <1>1, <1>2 DEF Goes, Call
<1>3. CASE Arrive(c) \/ AskRedis(c) \/ AskRedisInVain(c) \/ NoRedis(c) \/ AskLocal(c)
  <2>1. call[c].pc # "work" /\ UNCHANGED <<used, blind>>
    BY <1>3 DEF Arrive, AskRedis, AskRedisInVain, NoRedis, AskLocal, histories
  <2>2. call'[c].pc # "work" /\ \A d \in Calls \ {c} : call'[d] = call[d]
    <3>1. CASE Arrive(c)
      BY <1>1, <3>1 DEF Arrive, Idle
    <3>2. CASE AskRedis(c) \/ NoRedis(c) \/ AskLocal(c)
      <4>1. \E pc \in {"idle", "local", "quota"} : Goes(c, pc)
        BY <3>2 DEF AskRedis, NoRedis, AskLocal, Obey
      <4> QED
        BY <1>2, <4>1
    <3>3. CASE AskRedisInVain(c)
      <4>1. PICK pc \in {"redis", "local"} :
              call' = [call EXCEPT ![c].pc = pc,
                                   ![c].listed = call[c].listed \/ Admits("redis", c)]
        BY <3>3 DEF AskRedisInVain
      <4> QED
        BY <1>1, <4>1 DEF Call
    <3> QED
      BY <1>3, <3>1, <3>2, <3>3
  <2>3. Working' = Working
    BY <2>1, <2>2 DEF Working
  <2> QED
    BY <2>1, <2>3 DEF QuotaInv
<1>4. CASE ReadUsage(c)
  <2>1. c \in Calls \ Working /\ UNCHANGED used
    BY <1>4 DEF ReadUsage, Working
  <2>2. \/ Goes(c, "work") /\ (blind' = blind + 1 \/ (WithinQuota(used) /\ blind' = blind))
        \/ Goes(c, "idle") /\ blind' = blind
    BY <1>4 DEF ReadUsage
  <2>3. CASE Goes(c, "work") /\ (blind' = blind + 1 \/ (WithinQuota(used) /\ blind' = blind))
    <3>1. Working' = Working \cup {c}
      BY <1>2, <2>1, <2>3 DEF Working
    <3>2. /\ Cardinality(Working') = Cardinality(Working) + 1
          /\ Cardinality(Working) + 1 <= Cardinality(Calls)
          /\ Cardinality(Working) \in Nat /\ Cardinality(Calls) \in Nat
      BY <2>1, <3>1, WorkingFacts
    <3> QED
      BY <1>1, <2>1, <2>3, <3>2, AdmissionAssumption DEF QuotaInv, WithinQuota
  <2>4. CASE Goes(c, "idle") /\ blind' = blind
    <3>1. Working' = Working
      BY <1>2, <2>1, <2>4 DEF Working
    <3> QED
      BY <2>1, <2>4, <3>1 DEF QuotaInv
  <2> QED
    BY <2>2, <2>3, <2>4
<1>5. CASE Fail(c) \/ Succeed(c)
  <2>1. c \in Working /\ Goes(c, "idle") /\ used' \in {used, used + 1} /\ UNCHANGED blind
    BY <1>5 DEF Fail, Succeed, Working, histories
  <2>2. Working' = Working \ {c}
    BY <1>2, <2>1 DEF Working
  <2>3. /\ Cardinality(Working') = Cardinality(Working) - 1
        /\ Cardinality(Working) \in Nat /\ Cardinality(Calls) \in Nat
    BY <2>1, <2>2, WorkingFacts
  <2> QED
    BY <1>1, <2>1, <2>3, AdmissionAssumption DEF QuotaInv
<1> QED
  BY <1>3, <1>4, <1>5 DEF CallNext

LEMMA QuotaNext == ASSUME StepInv, QuotaInv, [Next]_vars PROVE QuotaInv'
<1>1. CASE Tick \/ UNCHANGED vars
  BY <1>1 DEF Tick, vars, histories, QuotaInv, Working
<1> QED
  BY <1>1, QuotaCall DEF Next

\* The daily quota is overrun by no more than the requests that read it at the
\* same time and those that could not read it (plans.go allowAI reads the usage
\* before the work, which records it after).
THEOREM OverrunHasABound == Spec => []OverrunIsBounded
<1>1. ASSUME StepInv, QuotaInv PROVE OverrunIsBounded
  BY <1>1, WorkingFacts, AdmissionAssumption DEF StepInv, Types, QuotaInv, OverrunIsBounded
<1> QED
  BY <1>1, Invariant, QuotaInit, QuotaNext, PTL DEF Spec
=============================================================================
