------------------------- MODULE TokenRotationProofs -------------------------
(***************************************************************************)
(* Proofs about TokenRotation for any number of tabs, requests and tokens. *)
(* A transaction that is about to rotate holds the lock of its row since   *)
(* it found the token usable; nobody else can have spent or revoked it.    *)
(***************************************************************************)
EXTENDS TokenRotation, TLAPS

\* A family is named after a token of the table.
FamilyInv == \A t \in Issued : rows[t].family \in Issued

\* A request comes from a tab, a refresh that is about to rotate has a usable token, and a revocation about
\* to commit has seen rows of one family only.
CallFacts(r) ==
  /\ r.pc # "idle" => r.tab \in Tabs
  /\ r.pc \in {"lock", "rotate"} => r.kind = "refresh"
  /\ r.pc = "rotate" => r.token \in Issued /\ Usable(r.token)
  /\ r.pc = "commit" => r.token \in Issued /\ r.seen \subseteq Family(rows[r.token].family)
CallInv == \A c \in Calls : CallFacts(call[c])

\* No two requests are about to rotate the same token.
LockInv ==
  \A c, d \in Calls :
    c # d /\ call[c].pc = "rotate" /\ call[d].pc = "rotate" => call[c].token # call[d].token

\* The types but for those of the requests' tokens.
Types ==
  /\ rows \in [Tokens -> Row]
  /\ jar \in Issued \cup {None}
  /\ user \subseteq Tabs
  /\ promise \in [Tabs -> Calls \cup {NoCall}]
  /\ call \in [Calls -> Call]
  /\ excused \subseteq Tokens

RefInv == \A c \in Calls : {call[c].token, call[c].result} \subseteq Issued \cup {None}

IInv == Types /\ RefInv /\ FamilyInv /\ CallInv /\ LockInv /\ OneUsableToken
-----------------------------------------------------------------------------
(* Lemmas about rows and requests.                                          *)

\* None is no token, and a row is issued when it has a family.
LEMMA NoneFacts ==
  /\ Tokens \subseteq Nat \ {0} /\ None = 0 /\ None \notin Tokens
  /\ NoRow \in Row
BY TokensAssumption DEF Tokens, None, NoRow, Row

LEMMA IdleFacts == Idle \in Call /\ CallFacts(Idle) /\ Idle.pc = "idle"
                   /\ Idle.token = None /\ Idle.result = None
BY NoneFacts DEF Idle, Call, CallFacts

\* A step of one request that leaves the table alone keeps what is known of
\* requests and table, if the request's new record is right.
LEMMA CallStep ==
  ASSUME IInv, NEW c \in Calls, NEW r \in Call, call' = [call EXCEPT ![c] = r],
         UNCHANGED rows, CallFacts(r), {r.token, r.result} \subseteq Issued \cup {None},
         r.pc = "rotate" =>
           \A d \in Calls \ {c} : call[d].pc = "rotate" => call[d].token # r.token
  PROVE  /\ call' \in [Calls -> Call] /\ rows' \in [Tokens -> Row] /\ Issued' = Issued
         /\ RefInv' /\ FamilyInv' /\ CallInv' /\ LockInv' /\ OneUsableToken'
<1>1. /\ call' \in [Calls -> Call] /\ rows' \in [Tokens -> Row] /\ Issued' = Issued
      /\ \A d \in Calls : call'[d] = IF d = c THEN r ELSE call[d]
  BY DEF IInv, Types, Issued
<1>2. RefInv' /\ FamilyInv' /\ OneUsableToken'
  BY <1>1 DEF IInv, RefInv, FamilyInv, OneUsableToken, Usable
<1>3. CallInv'
  <2>1. ASSUME NEW d \in Calls PROVE CallFacts(call'[d])
    BY <1>1 DEF IInv, CallInv
  <2> QED
    BY <1>1, <2>1 DEF CallInv, CallFacts, Usable, Family, Issued
<1>4. LockInv'
  BY <1>1 DEF IInv, LockInv
<1> QED
  BY <1>1, <1>2, <1>3, <1>4

\* A request whose program counter and result change.
LEMMA Answered ==
  ASSUME NEW r \in Call, CallFacts(r), r.pc # "idle", NEW t \in Tokens \cup {None}
  PROVE  LET a == [r EXCEPT !.pc = "answer", !.result = t] IN
         /\ a \in Call /\ a.pc = "answer" /\ a.token = r.token /\ a.result = t
         /\ CallFacts(a)
BY DEF Call, CallFacts

\* An answer that changes no row.
LEMMA AnswerStep ==
  ASSUME IInv, NEW c \in Calls, call[c].pc # "idle", NEW t \in Issued \cup {None},
         Answer(c, t), UNCHANGED rows
  PROVE  /\ call' \in [Calls -> Call] /\ rows' \in [Tokens -> Row] /\ Issued' = Issued
         /\ RefInv' /\ FamilyInv' /\ CallInv' /\ LockInv' /\ OneUsableToken'
<1> DEFINE r == [call[c] EXCEPT !.pc = "answer", !.result = t]
<1>1. call[c] \in Call /\ t \in Tokens \cup {None} /\ call[c].token \in Issued \cup {None}
  BY DEF IInv, Types, RefInv, Issued
<1> CallFacts(call[c])
  BY DEF IInv, CallInv
<1>2. /\ r \in Call /\ r.pc = "answer" /\ r.token = call[c].token /\ r.result = t
      /\ CallFacts(r)
  BY <1>1, Answered
<1>3. call' = [call EXCEPT ![c] = r]
  BY DEF Answer
<1> QED
  BY <1>1, <1>2, <1>3, CallStep

\* A request that becomes idle.
LEMMA HangStep ==
  ASSUME IInv, NEW c \in Calls, Hang(c), UNCHANGED rows
  PROVE  /\ call' \in [Calls -> Call] /\ rows' \in [Tokens -> Row] /\ Issued' = Issued
         /\ RefInv' /\ FamilyInv' /\ CallInv' /\ LockInv' /\ OneUsableToken'
BY IdleFacts, CallStep DEF Hang

-----------------------------------------------------------------------------
(* The browser's steps.                                                     *)

\* A request that is sent carries the cookie of the jar.
LEMMA RequestStep ==
  ASSUME IInv, NEW c \in Calls, NEW b \in Tabs, NEW kind \in {"login", "refresh", "logout"},
         NEW pc \in {"create", "lock", "update"}, pc = "lock" => kind = "refresh",
         Request(c, kind, b, pc), UNCHANGED rows
  PROVE  /\ call' \in [Calls -> Call] /\ rows' \in [Tokens -> Row] /\ Issued' = Issued
         /\ RefInv' /\ FamilyInv' /\ CallInv' /\ LockInv' /\ OneUsableToken'
<1> DEFINE r == [Idle EXCEPT !.pc = pc, !.kind = kind, !.tab = b, !.token = jar]
<1>1. jar \in Tokens \cup {None} /\ jar \in Issued \cup {None}
  BY DEF IInv, Types, Issued
<1>2. /\ r \in Call /\ r.pc = pc /\ r.kind = kind /\ r.tab = b
      /\ r.token = jar /\ r.result = None
  BY <1>1 DEF Idle, Call
<1>3. CallFacts(r)
  BY <1>2 DEF CallFacts
<1>4. call' = [call EXCEPT ![c] = r]
  BY DEF Request
<1> QED
  BY <1>1, <1>2, <1>3, <1>4, CallStep

LEMMA LoginStep == ASSUME IInv, NEW b \in Tabs, NEW c \in Calls, Login(b, c) PROVE IInv'
<1>1. Request(c, "login", b, "create") /\ UNCHANGED <<rows, jar, user, promise, excused>>
  BY DEF Login
<1> QED
  BY <1>1, RequestStep DEF IInv, Types

LEMMA RefreshStep == ASSUME IInv, NEW b \in Tabs, NEW c \in Calls, Refresh(b, c) PROVE IInv'
<1>1. Request(c, "refresh", b, "lock") /\ UNCHANGED <<rows, jar, user>>
  BY DEF Refresh
<1>2. promise' \in [Tabs -> Calls \cup {NoCall}] /\ excused' \subseteq Tokens
  BY DEF Refresh, IInv, Types, FamilyInv, Issued
<1> QED
  BY <1>1, <1>2, RequestStep DEF IInv, Types

LEMMA LogoutStep == ASSUME IInv, NEW b \in Tabs, NEW c \in Calls, Logout(b, c) PROVE IInv'
<1>1. Request(c, "logout", b, "update") /\ UNCHANGED <<rows, jar, promise>>
  BY DEF Logout
<1>2. user' \subseteq Tabs /\ excused' \subseteq Tokens
  BY DEF Logout, IInv, Types, FamilyInv, Issued
<1> QED
  BY <1>1, <1>2, RequestStep DEF IInv, Types

\* A settled promise is forgotten.
LEMMA SettleType ==
  ASSUME Types, NEW c \in Calls, Settle(c)
  PROVE  promise' \in [Tabs -> Calls \cup {NoCall}]
BY DEF Types, Settle

LEMMA ReceiveStep == ASSUME IInv, NEW c \in Calls, Receive(c) PROVE IInv'
<1>1. Hang(c) /\ Settle(c) /\ UNCHANGED <<rows, excused>>
  BY DEF Receive
<1>2. jar' \in Issued \cup {None}
  BY DEF Receive, IInv, Types, RefInv
<1>3. user' \subseteq Tabs
  BY DEF Receive, IInv, Types, CallInv, CallFacts
<1> QED
  BY <1>1, <1>2, <1>3, HangStep, SettleType DEF IInv, Types

LEMMA LoseStep == ASSUME IInv, NEW c \in Calls, Lose(c) PROVE IInv'
<1>1. Hang(c) /\ Settle(c) /\ UNCHANGED <<rows, jar, user>>
  BY DEF Lose
<1>2. excused' \subseteq Tokens
  BY DEF Lose, IInv, Types, RefInv, FamilyInv, Issued
<1> QED
  BY <1>1, <1>2, HangStep, SettleType DEF IInv, Types

-----------------------------------------------------------------------------
(* The backend's steps.                                                     *)

\* Lock looks at a row that no other transaction has locked.
LEMMA LockStep == ASSUME IInv, NEW c \in Calls, Lock(c) PROVE IInv'
<1> DEFINE t == call[c].token
<1>1. /\ call[c].pc = "lock" /\ call[c] \in Call /\ CallFacts(call[c])
      /\ UNCHANGED <<rows, jar, user, promise, excused>>
  BY DEF Lock, IInv, Types, CallInv
<1>2. CASE Answer(c, None)
  BY <1>1, <1>2, AnswerStep DEF IInv, Types
<1>3. CASE t \in Issued /\ Step(c, "lock", "update")
  <2> DEFINE r == [call[c] EXCEPT !.pc = "update"]
  <2>1. r \in Call /\ r.pc = "update" /\ r.token = t /\ r.result = call[c].result /\ r.tab = call[c].tab
    BY <1>1 DEF Call
  <2>2. CallFacts(r)
    BY <1>1, <2>1 DEF CallFacts
  <2>3. call' = [call EXCEPT ![c] = r]
    BY <1>3 DEF Step
  <2> QED
    BY <1>1, <2>1, <2>2, <2>3, CallStep DEF IInv, Types, RefInv
<1>4. CASE t \in Issued /\ Usable(t) /\ Step(c, "lock", "rotate")
           /\ \A d \in Calls : t \notin Locked(d)
  <2> DEFINE r == [call[c] EXCEPT !.pc = "rotate"]
  <2>1. /\ r \in Call /\ r.pc = "rotate" /\ r.token = t /\ r.result = call[c].result
        /\ r.tab = call[c].tab /\ r.kind = call[c].kind
    BY <1>1 DEF Call
  <2>2. CallFacts(r)
    BY <1>1, <1>4, <2>1 DEF CallFacts
  <2>3. call' = [call EXCEPT ![c] = r]
    BY <1>4 DEF Step
  <2>4. ASSUME NEW d \in Calls, call[d].pc = "rotate" PROVE call[d].token # t
    BY <1>4, <2>4 DEF Locked, IInv, CallInv, CallFacts
  <2> QED
    BY <1>1, <2>1, <2>2, <2>3, <2>4, CallStep DEF IInv, Types, RefInv
<1> QED
  BY <1>2, <1>3, <1>4 DEF Lock

\* A revocation begins with the rows of one family.
LEMMA BeginUpdateStep == ASSUME IInv, NEW c \in Calls, BeginUpdate(c) PROVE IInv'
<1> DEFINE t == call[c].token
           seen == {s \in Family(rows[t].family) : ~rows[s].revoked}
           r == [call[c] EXCEPT !.pc = "commit", !.seen = seen]
<1>1. /\ call[c].pc = "update" /\ call[c] \in Call /\ CallFacts(call[c])
      /\ UNCHANGED <<rows, jar, user, promise, excused>>
  BY DEF BeginUpdate, IInv, Types, CallInv
<1>2. CASE Answer(c, None)
  BY <1>1, <1>2, AnswerStep DEF IInv, Types
<1>3. CASE t \in Issued /\ call' = [call EXCEPT ![c] = r]
  <2>1. /\ r \in Call /\ r.pc = "commit" /\ r.token = t /\ r.result = call[c].result
        /\ r.tab = call[c].tab /\ r.seen = seen
    BY <1>1 DEF Call, Family
  <2>2. CallFacts(r)
    BY <1>1, <1>3, <2>1 DEF CallFacts
  <2> QED
    BY <1>1, <1>3, <2>1, <2>2, CallStep DEF IInv, Types, RefInv
<1> QED
  BY <1>2, <1>3 DEF BeginUpdate

LEMMA AbortStep == ASSUME IInv, NEW c \in Calls, Abort(c) PROVE IInv'
BY AnswerStep DEF Abort, IInv, Types

\* The table and the requests after a token was inserted and, in the same
\* transaction, t spent; nobody else was about to rotate t.
LEMMA InsertStep ==
  ASSUME IInv, NEW c \in Calls, call[c].pc # "idle", NEW u \in Tokens \ Issued,
         NEW f \in Issued \cup {u},
         NEW spent \in SUBSET Issued,
         \A t \in Issued \ spent : Usable(t) => rows[t].family # f,
         \A d \in Calls \ {c} : call[d].pc = "rotate" => call[d].token \notin spent,
         rows' \in [Tokens -> Row],
         rows'[u].family = f, ~rows'[u].used, ~rows'[u].revoked,
         \A t \in Tokens \ {u} :
           /\ rows'[t].family = rows[t].family
           /\ IF t \in spent THEN rows'[t].used ELSE rows'[t] = rows[t],
         NEW a \in {u, None}, Answer(c, a), UNCHANGED jar
  PROVE  /\ call' \in [Calls -> Call] /\ rows' \in [Tokens -> Row]
         /\ Issued' = Issued \cup {u} /\ jar' \in Issued' \cup {None}
         /\ RefInv' /\ FamilyInv' /\ CallInv' /\ LockInv' /\ OneUsableToken'
<1> DEFINE r == [call[c] EXCEPT !.pc = "answer", !.result = a]
<1>1. f \in Tokens /\ f # None /\ Issued \subseteq Tokens
  BY NoneFacts DEF Issued
<1>4. Issued' = Issued \cup {u}
  BY <1>1, NoneFacts DEF Issued
<1>5. FamilyInv'
  <2>1. ASSUME NEW t \in Issued' PROVE rows'[t].family \in Issued'
    BY <1>1, <1>4, <2>1 DEF IInv, FamilyInv
  <2> QED
    BY <2>1 DEF FamilyInv
<1>6. OneUsableToken'
  <2>1. ASSUME NEW t \in Tokens, Usable(t)', t # u
        PROVE  t \in Issued \ spent /\ Usable(t) /\ rows'[t].family # f
    BY <2>1 DEF Usable, Issued
  <2>2. ASSUME NEW t \in Tokens, NEW v \in Tokens, t # u, v # u, Usable(t)', Usable(v)',
               rows'[t].family = rows'[v].family
        PROVE  t = v
    BY <2>1, <2>2 DEF IInv, OneUsableToken
  <2> QED
    BY <2>1, <2>2 DEF OneUsableToken
<1>7. /\ r \in Call /\ r.pc = "answer" /\ r.token = call[c].token /\ r.result = a
      /\ CallFacts(r) /\ call' = [call EXCEPT ![c] = r]
  <2>1. call[c] \in Call /\ CallFacts(call[c]) /\ a \in Tokens \cup {None}
    BY DEF IInv, Types, CallInv
  <2> QED
    BY <2>1, Answered DEF Answer
<1>8. /\ call' \in [Calls -> Call]
      /\ \A d \in Calls : call'[d] = IF d = c THEN r ELSE call[d]
  BY <1>7 DEF IInv, Types
<1>9. RefInv'
  BY <1>4, <1>7, <1>8 DEF IInv, RefInv
<1>10. CallInv'
  <2>1. ASSUME NEW d \in Calls \ {c} PROVE CallFacts(call[d])'
    <3>1. CallFacts(call[d]) /\ call'[d] = call[d]
      BY <1>8 DEF IInv, CallInv
    <3>2. ASSUME call[d].pc = "rotate"
          PROVE  call[d].token \in Issued' /\ Usable(call[d].token)'
      <4>1. call[d].token \in Issued /\ Usable(call[d].token) /\ call[d].token \notin spent
        BY <3>1, <3>2 DEF CallFacts
      <4> QED
        BY <1>1, <1>4, <3>1, <4>1 DEF Usable
    <3>3. ASSUME call[d].pc = "commit"
          PROVE  /\ call[d].token \in Issued'
                 /\ call[d].seen \subseteq Family(rows[call[d].token].family)'
      <4>1. call[d].token \in Tokens \ {u} /\ call[d].token \in Issued'
        BY <1>1, <1>4, <3>1, <3>3 DEF CallFacts
      <4>2. ASSUME NEW s \in call[d].seen
            PROVE  s \in Tokens \ {u} /\ rows[s].family = rows[call[d].token].family
        <5>1. s \in Family(rows[call[d].token].family) /\ rows[call[d].token].family # None
          BY <3>1, <3>3 DEF CallFacts, Issued
        <5> QED
          BY <5>1 DEF Family, Issued
      <4> QED
        BY <3>1, <4>1, <4>2 DEF Family
    <3> QED
      BY <3>1, <3>2, <3>3 DEF CallFacts
  <2>2. CallFacts(call[c])'
    BY <1>7, <1>8 DEF CallFacts
  <2> QED
    BY <2>1, <2>2 DEF CallInv
<1>11. LockInv'
  BY <1>7, <1>8 DEF IInv, LockInv
<1> QED
  BY <1>4, <1>5, <1>6, <1>8, <1>9, <1>10, <1>11 DEF IInv, Types

\* A login inserts the first token of a new family.
LEMMA CreateTokenStep == ASSUME IInv, NEW c \in Calls, CreateToken(c) PROVE IInv'
<1>1. PICK u \in Tokens \ Issued : rows' = Insert(u, u, rows) /\ Answer(c, u)
  BY DEF CreateToken
<1>2. /\ rows' \in [Tokens -> Row]
      /\ rows'[u].family = u /\ ~rows'[u].used /\ ~rows'[u].revoked
      /\ \A t \in Tokens \ {u} : rows'[t] = rows[t]
  BY <1>1 DEF Insert, IInv, Types, Row, NoRow
<1>3. \A t \in Issued : rows[t].family # u
  BY DEF IInv, FamilyInv
<1>4. call[c].pc # "idle" /\ UNCHANGED <<jar, user, promise, excused>>
  BY DEF CreateToken
<1>5. /\ call' \in [Calls -> Call] /\ jar' \in Issued' \cup {None}
      /\ RefInv' /\ FamilyInv' /\ CallInv' /\ LockInv' /\ OneUsableToken'
  <2>1. {} \in SUBSET Issued /\ u \in {u, None} /\ u \in Issued \cup {u}
    OBVIOUS
  <2> QED
    BY <1>1, <1>2, <1>3, <1>4, <2>1, InsertStep
<1> QED
  BY <1>2, <1>4, <1>5 DEF IInv, Types

\* A rotation spends its token for one of the same family.
LEMMA RotateStep == ASSUME IInv, NEW c \in Calls, Rotate(c) PROVE IInv'
<1> DEFINE t == call[c].token
           f == rows[t].family
           S == {t}
<1>1. /\ call[c].pc = "rotate" /\ t \in Issued /\ Usable(t) /\ f \in Issued
      /\ UNCHANGED <<jar, user, promise>>
  BY DEF Rotate, IInv, CallInv, CallFacts, FamilyInv
<1>2. PICK u \in Tokens \ Issued :
        /\ rows' = Insert(u, f, [rows EXCEPT ![t].used = TRUE])
        /\ \/ Answer(c, u) /\ UNCHANGED excused
           \/ Answer(c, None) /\ excused' = excused \cup {f}
  BY DEF Rotate
<1>3. /\ rows' \in [Tokens -> Row]
      /\ rows'[u].family = f /\ ~rows'[u].used /\ ~rows'[u].revoked
      /\ \A v \in Tokens \ {u} :
           /\ rows'[v].family = rows[v].family
           /\ IF v \in S THEN rows'[v].used ELSE rows'[v] = rows[v]
  BY <1>1, <1>2 DEF Insert, IInv, Types, Row, NoRow, Issued
<1>4. \A v \in Issued \ S : Usable(v) => rows[v].family # f
  BY <1>1 DEF IInv, OneUsableToken, Issued
<1>5. \A d \in Calls \ {c} : call[d].pc = "rotate" => call[d].token \notin S
  BY <1>1 DEF IInv, LockInv
<1>6. PICK a \in {u, None} : Answer(c, a)
  BY <1>2
<1>7. excused' \subseteq Tokens
  BY <1>1, <1>2 DEF IInv, Types, Issued
<1>8. /\ call' \in [Calls -> Call] /\ jar' \in Issued' \cup {None}
      /\ RefInv' /\ FamilyInv' /\ CallInv' /\ LockInv' /\ OneUsableToken'
  <2>1. S \in SUBSET Issued /\ f \in Issued \cup {u} /\ call[c].pc # "idle"
    BY <1>1
  <2> HIDE DEF f, S
  <2> QED
    BY <1>1, <1>2, <1>3, <1>4, <1>5, <1>6, <2>1, InsertStep
<1> QED
  BY <1>1, <1>3, <1>7, <1>8 DEF IInv, Types

\* A revocation that commits touches no row that another transaction has locked.
LEMMA CommitUpdateStep == ASSUME IInv, NEW c \in Calls, CommitUpdate(c) PROVE IInv'
<1> DEFINE r == [call[c] EXCEPT !.pc = "answer", !.result = None]
<1>1. /\ call[c].pc = "commit" /\ Answer(c, None)
      /\ UNCHANGED <<jar, user, promise, excused>>
      /\ \A d \in Calls \ {c} : Locked(d) \cap call[c].seen = {}
      /\ rows' = [t \in Tokens |->
           IF t \in call[c].seen THEN [rows[t] EXCEPT !.revoked = TRUE] ELSE rows[t]]
  BY DEF CommitUpdate
<1>2. /\ rows' \in [Tokens -> Row]
      /\ \A t \in Tokens : /\ rows'[t].family = rows[t].family
                           /\ rows'[t].used = rows[t].used
                           /\ t \notin call[c].seen => rows'[t] = rows[t]
                           /\ rows[t].revoked => rows'[t].revoked
  BY <1>1 DEF IInv, Types, Row
<1>3. Issued' = Issued /\ \A t \in Tokens : Usable(t)' => Usable(t)
  BY <1>2 DEF Issued, Usable
<1>4. FamilyInv' /\ OneUsableToken'
  BY <1>2, <1>3 DEF IInv, FamilyInv, OneUsableToken, Issued
<1>5. /\ r \in Call /\ r.pc = "answer" /\ r.token = call[c].token /\ r.result = None
      /\ CallFacts(r) /\ call' = [call EXCEPT ![c] = r]
  <2>1. call[c] \in Call /\ CallFacts(call[c]) /\ None \in Tokens \cup {None}
    BY DEF IInv, Types, CallInv
  <2> QED
    BY <1>1, <2>1, Answered DEF Answer
<1>6. /\ call' \in [Calls -> Call]
      /\ \A d \in Calls : call'[d] = IF d = c THEN r ELSE call[d]
  BY <1>5 DEF IInv, Types
<1>7. CallInv'
  <2>1. ASSUME NEW d \in Calls \ {c} PROVE CallFacts(call[d])'
    <3>1. CallFacts(call[d]) /\ call'[d] = call[d]
      BY <1>6 DEF IInv, CallInv
    <3>2. ASSUME call[d].pc = "rotate"
          PROVE  call[d].token \in Issued' /\ Usable(call[d].token)'
      <4>1. call[d].token \in Issued /\ Usable(call[d].token) /\ call[d].kind = "refresh"
        BY <3>1, <3>2 DEF CallFacts
      <4>2. call[d].token \notin call[c].seen
        BY <1>1, <3>2, <4>1 DEF Locked
      <4> QED
        BY <1>2, <1>3, <3>1, <4>1, <4>2 DEF Usable, Issued
    <3>3. ASSUME call[d].pc = "commit"
          PROVE  /\ call[d].token \in Issued'
                 /\ call[d].seen \subseteq Family(rows[call[d].token].family)'
      BY <1>2, <1>3, <3>1, <3>3 DEF CallFacts, Family, Issued
    <3> QED
      BY <3>1, <3>2, <3>3 DEF CallFacts
  <2>2. CallFacts(call[c])'
    BY <1>5, <1>6 DEF CallFacts
  <2> QED
    BY <2>1, <2>2 DEF CallInv
<1>8. RefInv' /\ LockInv'
  BY <1>3, <1>5, <1>6 DEF IInv, RefInv, LockInv
<1> QED
  BY <1>1, <1>2, <1>3, <1>4, <1>6, <1>7, <1>8 DEF IInv, Types

-----------------------------------------------------------------------------
(* The invariant.                                                           *)

LEMMA IInvInit == ASSUME Init PROVE IInv
<1>1. Issued = {} /\ \A t \in Tokens : ~Usable(t)
  BY DEF Init, Issued, Usable, NoRow
<1>2. Types /\ RefInv
  BY <1>1, NoneFacts, IdleFacts DEF Init, Types, RefInv
<1>3. FamilyInv /\ CallInv /\ LockInv /\ OneUsableToken
  BY <1>1, IdleFacts DEF Init, FamilyInv, CallInv, LockInv, OneUsableToken
<1> QED
  BY <1>2, <1>3 DEF IInv

LEMMA IInvNext == ASSUME IInv, [Next]_vars PROVE IInv'
<1>1. CASE UNCHANGED vars
  BY <1>1 DEF vars, IInv, Types, RefInv, FamilyInv, CallInv, CallFacts, LockInv,
     OneUsableToken, Usable, Issued, Family
<1>2. ASSUME NEW b \in Tabs, NEW c \in Calls, Login(b, c) \/ Refresh(b, c) \/ Logout(b, c)
      PROVE  IInv'
  BY <1>2, LoginStep, RefreshStep, LogoutStep
<1>3. ASSUME NEW c \in Calls, BackendNext(c) PROVE IInv'
  BY <1>3, CreateTokenStep, LockStep, RotateStep, BeginUpdateStep, CommitUpdateStep,
     AbortStep DEF BackendNext
<1>4. ASSUME NEW c \in Calls, AnswerNext(c) PROVE IInv'
  BY <1>4, ReceiveStep, LoseStep DEF AnswerNext
<1> QED
  BY <1>1, <1>2, <1>3, <1>4 DEF Next

\* The inductive invariant: a transaction that is about to rotate holds the lock of
\* a usable token, alone, and a family has at most one such token.
THEOREM Invariant == Spec => []IInv
BY IInvInit, IInvNext, PTL DEF Spec

\* Every variable keeps its type, and cookies and tokens on their way are rows.
THEOREM TypeCorrect == Spec => []TypeOK
<1>1. ASSUME IInv PROVE TypeOK
  BY <1>1 DEF IInv, Types, RefInv, TypeOK
<1> QED
  BY <1>1, Invariant, PTL

\* No double spending: a family has at most one token that can be exchanged.
THEOREM NoDoubleSpending == Spec => []OneUsableToken
<1>1. IInv => OneUsableToken
  BY DEF IInv
<1> QED
  BY <1>1, Invariant, PTL

-----------------------------------------------------------------------------
(* The reason of a revocation.  It follows the cookie through every request  *)
(* on its way: a token is used only by the rotation whose answer will replace *)
(* the cookie, or that has a reason; whoever else sends it has one too.       *)

Excused(t) == t \in Issued => rows[t].family \in excused
Refreshes(c) == call[c].kind = "refresh" /\ call[c].pc # "idle"

\* A page waits for its refresh until that settles.
PromiseInv == \A c \in Calls : Refreshes(c) => promise[call[c].tab] = c

\* Two pages that refresh with one cookie are a reason.
TwiceInv ==
  \A c, d \in Calls :
    c # d /\ Refreshes(c) /\ Refreshes(d) /\ call[c].token = call[d].token
      => Excused(call[c].token)

\* A request that revokes, or finds its token used, has a reason.
RevokeInv ==
  \A c \in Calls :
    \/ call[c].pc \in {"update", "commit"}
    \/ call[c].pc = "lock" /\ call[c].token \in Issued /\ rows[call[c].token].used
    => Excused(call[c].token)

\* A token in an answer is known to nobody else yet, and nobody has used it; that
\* of a refresh is of the family of the token it replaces.
AnswerInv ==
  \A c \in Calls : call[c].result # None =>
    /\ call[c].pc = "answer"
    /\ ~rows[call[c].result].used
    /\ jar # call[c].result
    /\ \A d \in Calls : call[d].token # call[c].result
                        /\ (d # c => call[d].result # call[c].result)
    /\ call[c].kind = "refresh" =>
         call[c].token \in Issued /\ rows[call[c].result].family = rows[call[c].token].family

\* The cookie's token is used only while the answer that replaces it is on its way.
CookieInv ==
  jar \in Issued /\ rows[jar].used =>
    \/ Excused(jar)
    \/ \E d \in Calls : call[d].kind = "refresh" /\ call[d].token = jar /\ call[d].result # None

\* A request that creates a token is a login.
LoginInv == \A c \in Calls : call[c].pc = "create" => call[c].kind = "login"

ReasonInv ==
  LoginInv /\ PromiseInv /\ TwiceInv /\ RevokeInv /\ AnswerInv /\ CookieInv /\ RevokedForAReason

\* What is known of a token in a request.
LEMMA RequestFacts ==
  ASSUME IInv, NEW c \in Calls
  PROVE  /\ call[c] \in Call /\ call[c].token \in Issued \cup {None}
         /\ call[c].result \in Issued \cup {None}
         /\ call[c].pc # "idle" => call[c].tab \in Tabs
BY DEF IInv, Types, RefInv, CallInv, CallFacts

\* A reason stays one: families do not change, and nothing is un-excused.
LEMMA ExcusedStays ==
  ASSUME IInv, excused \subseteq excused', \A t \in Issued : rows'[t].family = rows[t].family
  PROVE  \A t \in Issued \cup {None} : Excused(t) => Excused(t)'
<1>1. None \notin Issued /\ None \notin Issued'
  BY NoneFacts DEF Issued
<1> QED
  BY <1>1 DEF Excused

\* The backend goes on with a request, and perhaps revokes what has a reason.
LEMMA ReasonMoves ==
  ASSUME IInv, ReasonInv, NEW c \in Calls, NEW r \in Call, call' = [call EXCEPT ![c] = r],
         call[c].pc \notin {"idle", "answer"}, r.pc \notin {"idle", "create", "lock"},
         r.kind = call[c].kind, r.tab = call[c].tab, r.token = call[c].token, r.result = None,
         r.pc \in {"update", "commit"} => Excused(r.token),
         UNCHANGED <<jar, promise, excused>>, Issued' = Issued,
         \A t \in Issued : /\ rows'[t].family = rows[t].family
                           /\ rows'[t].used = rows[t].used
                           /\ rows'[t].revoked => rows[t].revoked \/ rows[t].family \in excused
  PROVE  ReasonInv'
<1>1. \A d \in Calls : call'[d] = IF d = c THEN r ELSE call[d]
  BY DEF IInv, Types
<1>2. \A t \in Issued \cup {None} : Excused(t) => Excused(t)'
  BY ExcusedStays
<1>3. \A d \in Calls : Refreshes(d)' <=> Refreshes(d)
  BY <1>1 DEF Refreshes
<1>4. \A d \in Calls : call'[d].token = call[d].token /\ call'[d].tab = call[d].tab
                       /\ call'[d].kind = call[d].kind
  BY <1>1
<1>5. call[c].result = None /\ \A d \in Calls : call'[d].result = call[d].result
  BY <1>1 DEF ReasonInv, AnswerInv
<1>6. LoginInv'
  BY <1>1 DEF ReasonInv, LoginInv
<1>7. PromiseInv'
  BY <1>3, <1>4 DEF ReasonInv, PromiseInv
<1>8. TwiceInv'
  BY <1>2, <1>3, <1>4, RequestFacts DEF ReasonInv, TwiceInv
<1>9. RevokeInv'
  <2>1. ASSUME NEW d \in Calls,
               \/ call'[d].pc \in {"update", "commit"}
               \/ call'[d].pc = "lock" /\ call[d].token \in Issued /\ rows'[call[d].token].used
        PROVE  Excused(call[d].token)'
    <3>1. Excused(call[d].token)
      BY <1>1, <2>1 DEF ReasonInv, RevokeInv
    <3> QED
      BY <1>2, <3>1, RequestFacts
  <2> QED
    BY <1>4, <2>1 DEF RevokeInv
<1>10. AnswerInv'
  <2>1. ASSUME NEW d \in Calls, call[d].result # None
        PROVE  /\ call'[d].pc = "answer" /\ call[d].result \in Issued
               /\ call[d].kind = "refresh" => call[d].token \in Issued
    BY <1>1, <1>5, <2>1, RequestFacts DEF ReasonInv, AnswerInv
  <2> QED
    BY <1>4, <1>5, <2>1 DEF ReasonInv, AnswerInv
<1>11. CookieInv'
  BY <1>2, <1>4, <1>5 DEF ReasonInv, CookieInv
<1>12. RevokedForAReason'
  BY DEF ReasonInv, RevokedForAReason
<1> QED
  BY <1>6, <1>7, <1>8, <1>9, <1>10, <1>11, <1>12 DEF ReasonInv

\* The browser sends a request with the cookie of the jar.
LEMMA ReasonRequest ==
  ASSUME IInv, ReasonInv, NEW c \in Calls, NEW b \in Tabs,
         NEW kind \in {"login", "refresh", "logout"}, NEW pc \in {"create", "lock", "update"},
         Request(c, kind, b, pc), UNCHANGED <<rows, jar>>, excused \subseteq excused', PromiseInv',
         pc = "create" => kind = "login",
         kind = "refresh" /\ (\E d \in Calls \ {c} : Refreshes(d) /\ call[d].token = jar)
           => Excused(jar)',
         pc = "update" \/ (pc = "lock" /\ jar \in Issued /\ rows[jar].used) => Excused(jar)'
  PROVE  ReasonInv'
<1> DEFINE r == [Idle EXCEPT !.pc = pc, !.kind = kind, !.tab = b, !.token = jar]
<1>1. /\ r.pc = pc /\ r.kind = kind /\ r.tab = b /\ r.token = jar /\ r.result = None
      /\ call[c].pc = "idle" /\ call' = [call EXCEPT ![c] = r]
  BY DEF Idle, Request
<1> HIDE DEF r
<1>2. /\ \A d \in Calls : call'[d] = IF d = c THEN r ELSE call[d]
      /\ Issued' = Issued /\ jar \in Issued \cup {None}
  BY <1>1 DEF IInv, Types, Issued
<1>3. \A t \in Issued \cup {None} : Excused(t) => Excused(t)'
  BY ExcusedStays
<1>4. \A d \in Calls \ {c} : Refreshes(d)' <=> Refreshes(d)
  BY <1>2 DEF Refreshes
<1>5. Refreshes(c)' <=> kind = "refresh"
  BY <1>1, <1>2 DEF Refreshes
<1>6. LoginInv'
  BY <1>1, <1>2 DEF ReasonInv, LoginInv
<1>7. TwiceInv'
  <2>1. ASSUME NEW d \in Calls, NEW e \in Calls, d # e, Refreshes(d)', Refreshes(e)',
               call'[d].token = call'[e].token
        PROVE  Excused(call[d].token)'
    <3>1. CASE c \notin {d, e}
      <4>1. Excused(call[d].token) /\ call'[d].token = call[d].token
        BY <1>2, <1>4, <2>1, <3>1 DEF ReasonInv, TwiceInv
      <4> QED
        BY <1>3, <4>1, RequestFacts
    <3>2. CASE c \in {d, e}
      <4>1. PICK o \in {d, e} : o # c
        BY <2>1
      <4>2. Refreshes(o) /\ call[o].token = jar /\ call'[d].token = jar /\ kind = "refresh"
        BY <1>1, <1>2, <1>4, <1>5, <2>1, <3>2, <4>1
      <4> QED
        BY <4>1, <4>2
    <3> QED
      BY <3>1, <3>2
  <2> QED
    BY <2>1 DEF TwiceInv
<1>8. RevokeInv'
  <2>1. ASSUME NEW d \in Calls,
               \/ call'[d].pc \in {"update", "commit"}
               \/ call'[d].pc = "lock" /\ call'[d].token \in Issued /\ rows[call'[d].token].used
        PROVE  Excused(call[d].token)'
    <3>1. CASE d = c
      BY <1>1, <1>2, <2>1, <3>1
    <3>2. CASE d # c
      <4>1. Excused(call[d].token) /\ call'[d] = call[d]
        BY <1>2, <2>1, <3>2 DEF ReasonInv, RevokeInv
      <4> QED
        BY <1>3, <4>1, RequestFacts
    <3> QED
      BY <3>1, <3>2
  <2> QED
    BY <1>2, <2>1 DEF RevokeInv
<1>9. call[c].result = None
  BY <1>1 DEF ReasonInv, AnswerInv
<1>10. AnswerInv'
  <2>1. ASSUME NEW d \in Calls, call'[d].result # None PROVE d # c /\ call'[d] = call[d]
    BY <1>1, <1>2, <2>1
  <2>2. ASSUME NEW d \in Calls, call[d].result # None, NEW e \in Calls
        PROVE  /\ call'[e].token # call[d].result
               /\ e # d => call'[e].result # call[d].result
    BY <1>1, <1>2, <2>2 DEF ReasonInv, AnswerInv
  <2> QED
    BY <1>2, <2>1, <2>2 DEF ReasonInv, AnswerInv
<1>11. CookieInv'
  <2> SUFFICES ASSUME jar \in Issued, rows[jar].used, ~Excused(jar)'
               PROVE  \E d \in Calls : call'[d].kind = "refresh" /\ call'[d].token = jar
                                         /\ call'[d].result # None
    BY <1>2 DEF CookieInv
  <2>1. ~Excused(jar)
    BY <1>3
  <2>2. PICK d \in Calls : call[d].kind = "refresh" /\ call[d].token = jar /\ call[d].result # None
    BY <2>1 DEF ReasonInv, CookieInv
  <2> QED
    BY <1>2, <1>9, <2>2
<1>12. RevokedForAReason'
  BY <1>2 DEF ReasonInv, RevokedForAReason
<1> QED
  BY <1>6, <1>7, <1>8, <1>10, <1>11, <1>12 DEF ReasonInv

\* An answer ends a request; its token is in the jar, or nobody has it.
LEMMA ReasonHangs ==
  ASSUME IInv, ReasonInv, NEW c \in Calls, Hang(c), Settle(c), UNCHANGED rows,
         excused \subseteq excused', jar' \in {None, jar, call[c].result},
         jar' = jar => jar = None \/ call[c].result = None \/ rows[call[c].result].family \in excused'
  PROVE  ReasonInv'
<1>1. /\ \A d \in Calls : call'[d] = IF d = c THEN Idle ELSE call[d]
      /\ Idle.pc = "idle" /\ Idle.kind = "login" /\ Idle.token = None /\ Idle.result = None
      /\ Issued' = Issued /\ jar \in Issued \cup {None}
  BY DEF IInv, Types, Hang, Issued, Idle
<1>2. \A t \in Issued \cup {None} : Excused(t) => Excused(t)'
  BY ExcusedStays
<1>3. \A d \in Calls : Refreshes(d)' <=> d # c /\ Refreshes(d)
  BY <1>1 DEF Refreshes
<1>4. LoginInv'
  BY <1>1 DEF ReasonInv, LoginInv
<1>5. PromiseInv'
  <2>1. ASSUME NEW d \in Calls, Refreshes(d)' PROVE promise'[call'[d].tab] = d
    <3>1. d # c /\ call'[d] = call[d] /\ Refreshes(d)
      BY <1>1, <1>3, <2>1
    <3>2. promise[call[d].tab] = d /\ call[d].tab \in Tabs
      BY <3>1, RequestFacts DEF ReasonInv, PromiseInv, Refreshes
    <3> QED
      BY <3>1, <3>2 DEF Settle
  <2> QED
    BY <2>1 DEF PromiseInv
<1>6. TwiceInv'
  <2>1. ASSUME NEW d \in Calls, NEW e \in Calls, d # e, Refreshes(d)', Refreshes(e)',
               call'[d].token = call'[e].token
        PROVE  Excused(call[d].token)'
    <3>1. Excused(call[d].token) /\ call'[d].token = call[d].token
      BY <1>1, <1>3, <2>1 DEF ReasonInv, TwiceInv
    <3> QED
      BY <1>2, <3>1, RequestFacts
  <2> QED
    BY <2>1 DEF TwiceInv
<1>7. RevokeInv'
  <2>1. ASSUME NEW d \in Calls,
               \/ call'[d].pc \in {"update", "commit"}
               \/ call'[d].pc = "lock" /\ call'[d].token \in Issued /\ rows[call'[d].token].used
        PROVE  Excused(call[d].token)'
    <3>1. Excused(call[d].token) /\ call'[d] = call[d]
      BY <1>1, <2>1 DEF ReasonInv, RevokeInv
    <3> QED
      BY <1>2, <3>1, RequestFacts
  <2> QED
    BY <1>1, <2>1 DEF RevokeInv
<1>8. AnswerInv'
  <2>1. ASSUME NEW d \in Calls, call'[d].result # None
        PROVE  /\ d # c /\ call'[d] = call[d] /\ call[d].result # None
               /\ jar' # call[d].result
               /\ \A e \in Calls : /\ call'[e].token # call[d].result
                                   /\ e # d => call'[e].result # call[d].result
    <3>1. d # c /\ call'[d] = call[d] /\ call[d].result # None
      BY <1>1, <2>1
    <3>2. /\ jar # call[d].result /\ call[c].result # call[d].result
          /\ \A e \in Calls : /\ call[e].token # call[d].result
                              /\ e # d => call[e].result # call[d].result
      BY <3>1 DEF ReasonInv, AnswerInv
    <3> QED
      BY <1>1, <3>1, <3>2
  <2>2. ASSUME NEW d \in Calls, call[d].result # None
        PROVE  /\ call[d].pc = "answer" /\ ~rows[call[d].result].used
               /\ call[d].kind = "refresh" =>
                    call[d].token \in Issued
                    /\ rows[call[d].result].family = rows[call[d].token].family
    BY <2>2 DEF ReasonInv, AnswerInv
  <2>3. ASSUME NEW d \in Calls, call'[d].result # None
        PROVE  /\ call'[d].pc = "answer" /\ ~rows[call'[d].result].used
               /\ jar' # call'[d].result
               /\ \A e \in Calls : call'[e].token # call'[d].result
                                   /\ (e # d => call'[e].result # call'[d].result)
               /\ call'[d].kind = "refresh" =>
                    call'[d].token \in Issued
                    /\ rows[call'[d].result].family = rows[call'[d].token].family
    BY <2>1, <2>2, <2>3
  <2> QED
    BY <1>1, <2>3 DEF AnswerInv
<1>9. CookieInv'
  <2> SUFFICES ASSUME jar' \in Issued, rows[jar'].used, ~Excused(jar)'
               PROVE  \E d \in Calls : call'[d].kind = "refresh" /\ call'[d].token = jar'
                                         /\ call'[d].result # None
    BY <1>1 DEF CookieInv
  <2>1. jar' = jar
    BY NoneFacts DEF ReasonInv, AnswerInv, Issued
  <2>2. PICK d \in Calls : call[d].kind = "refresh" /\ call[d].token = jar /\ call[d].result # None
    BY <1>2, <2>1 DEF ReasonInv, CookieInv
  <2>3. d # c
    <3> SUFFICES ASSUME d = c PROVE FALSE
      OBVIOUS
    <3>1. rows[call[c].result].family \in excused'
      BY <2>1, <2>2, NoneFacts DEF Issued
    <3>2. rows[call[c].result].family = rows[jar].family
      BY <2>2 DEF ReasonInv, AnswerInv
    <3> QED
      BY <1>1, <2>1, <3>1, <3>2 DEF Excused
  <2> QED
    BY <1>1, <2>1, <2>2, <2>3
<1>10. RevokedForAReason'
  BY <1>1 DEF ReasonInv, RevokedForAReason
<1> QED
  BY <1>4, <1>5, <1>6, <1>7, <1>8, <1>9, <1>10 DEF ReasonInv

\* A token is inserted, and in the same transaction the token of a rotation spent.
LEMMA ReasonInserts ==
  ASSUME IInv, ReasonInv, NEW c \in Calls, NEW u \in Tokens \ Issued, NEW a \in {u, None},
         Answer(c, a), UNCHANGED <<jar, promise>>, excused \subseteq excused',
         Issued' = Issued \cup {u}, ~rows'[u].used, ~rows'[u].revoked,
         NEW spent \in SUBSET {call[c].token}, spent \subseteq Issued,
         \A t \in Issued : /\ rows'[t].family = rows[t].family
                           /\ rows'[t].used => rows[t].used \/ t \in spent
                           /\ rows'[t].revoked = rows[t].revoked,
         \/ call[c].pc = "create" /\ spent = {}
         \/ /\ call[c].pc = "rotate" /\ call[c].token \in Issued
            /\ rows'[u].family = rows[call[c].token].family
            /\ a = None => rows[call[c].token].family \in excused'
  PROVE  ReasonInv'
<1> DEFINE r == [call[c] EXCEPT !.pc = "answer", !.result = a]
<1>1. /\ r.pc = "answer" /\ r.kind = call[c].kind /\ r.tab = call[c].tab
      /\ r.token = call[c].token /\ r.result = a /\ call' = [call EXCEPT ![c] = r]
  BY RequestFacts DEF Call, Answer
<1> HIDE DEF r
<1>2. /\ \A d \in Calls : call'[d] = IF d = c THEN r ELSE call[d]
      /\ \A d \in Calls : call'[d].token = call[d].token /\ call'[d].tab = call[d].tab
                          /\ call'[d].kind = call[d].kind
  BY <1>1 DEF IInv, Types
<1>3. \A t \in Issued \cup {None} : Excused(t) => Excused(t)'
  BY ExcusedStays
<1>4. /\ \A d \in Calls : call[d].token \in Issued \cup {None} /\ call[d].token # u
                          /\ call[d].result \in Issued \cup {None} /\ call[d].result # u
      /\ jar # u /\ jar \in Issued \cup {None} /\ u # None
  BY RequestFacts, NoneFacts DEF IInv, Types, Issued
<1>5. \A d \in Calls : Refreshes(d)' <=> Refreshes(d)
  BY <1>1, <1>2 DEF Refreshes
<1>6. LoginInv'
  BY <1>1, <1>2 DEF ReasonInv, LoginInv
<1>7. PromiseInv'
  BY <1>2, <1>5 DEF ReasonInv, PromiseInv
<1>8. TwiceInv'
  <2>1. ASSUME NEW d \in Calls, NEW e \in Calls, d # e, Refreshes(d)', Refreshes(e)',
               call'[d].token = call'[e].token
        PROVE  Excused(call[d].token)'
    <3>1. Excused(call[d].token)
      BY <1>2, <1>5, <2>1 DEF ReasonInv, TwiceInv
    <3> QED
      BY <1>2, <1>3, <1>4, <3>1
  <2> QED
    BY <2>1 DEF TwiceInv
<1>9. call[c].pc = "rotate" => Refreshes(c)
  BY DEF IInv, CallInv, CallFacts, Refreshes
<1>10. RevokeInv'
  <2>1. ASSUME NEW d \in Calls,
               \/ call'[d].pc \in {"update", "commit"}
               \/ call'[d].pc = "lock" /\ call'[d].token \in Issued' /\ rows'[call'[d].token].used
        PROVE  Excused(call[d].token)'
    <3>1. d # c /\ call'[d] = call[d]
      BY <1>1, <1>2, <2>1
    <3>2. Excused(call[d].token)
      <4>1. CASE call[d].pc = "lock" /\ call[d].token \in spent
        <5>1. Refreshes(d)
          BY <4>1 DEF IInv, CallInv, CallFacts, Refreshes
        <5>2. Refreshes(c) /\ call[d].token = call[c].token
          BY <1>9, <4>1
        <5> QED
          BY <3>1, <5>1, <5>2 DEF ReasonInv, TwiceInv
      <4>2. CASE ~(call[d].pc = "lock" /\ call[d].token \in spent)
        BY <1>4, <2>1, <3>1, <4>2 DEF ReasonInv, RevokeInv
      <4> QED
        BY <4>1, <4>2
    <3> QED
      BY <1>3, <1>4, <3>1, <3>2
  <2> QED
    BY <2>1 DEF RevokeInv
<1>11. call[c].result = None
  BY DEF ReasonInv, AnswerInv
<1>12. AnswerInv'
  <2>1. ASSUME NEW d \in Calls, d # c, call[d].result # None
        PROVE  /\ call'[d].pc = "answer" /\ call'[d].result = call[d].result
               /\ ~rows'[call[d].result].used /\ jar # call[d].result
               /\ \A e \in Calls : call[e].token # call[d].result
                                   /\ (e # d => call'[e].result # call[d].result)
               /\ call[d].kind = "refresh" =>
                    call[d].token \in Issued'
                    /\ rows'[call[d].result].family = rows'[call[d].token].family
    <3>1. /\ call[d].pc = "answer" /\ ~rows[call[d].result].used /\ jar # call[d].result
          /\ call[d].result \in Issued
          /\ \A e \in Calls : call[e].token # call[d].result
                              /\ (e # d => call[e].result # call[d].result)
          /\ call[d].kind = "refresh" =>
               call[d].token \in Issued
               /\ rows[call[d].result].family = rows[call[d].token].family
      BY <1>4, <2>1 DEF ReasonInv, AnswerInv
    <3>2. \A e \in Calls : e # d => call'[e].result # call[d].result
      BY <1>1, <1>2, <1>4, <2>1, <3>1
    <3> QED
      BY <1>2, <2>1, <3>1, <3>2
  <2>2. ASSUME a # None
        PROVE  /\ call'[c].pc = "answer" /\ call'[c].result = u
               /\ \A e \in Calls \ {c} : call'[e].result # u
               /\ call[c].kind = "refresh" =>
                    call[c].token \in Issued' /\ rows'[u].family = rows'[call[c].token].family
    <3>1. call[c].kind = "refresh" => call[c].pc = "rotate"
      BY DEF ReasonInv, LoginInv
    <3> QED
      BY <1>1, <1>2, <1>4, <2>2, <3>1
  <2>3. ASSUME NEW d \in Calls, call'[d].result # None
        PROVE  /\ call'[d].pc = "answer" /\ ~rows'[call'[d].result].used
               /\ jar # call'[d].result
               /\ \A e \in Calls : call'[e].token # call'[d].result
                                   /\ (e # d => call'[e].result # call'[d].result)
               /\ call'[d].kind = "refresh" =>
                    call'[d].token \in Issued'
                    /\ rows'[call'[d].result].family = rows'[call'[d].token].family
    <3>1. CASE d = c
      <4>1. a # None
        BY <1>1, <1>2, <2>3, <3>1
      <4> QED
        BY <1>2, <1>4, <2>2, <3>1, <4>1
    <3>2. CASE d # c
      <4>1. call[d].result # None
        BY <1>2, <2>3, <3>2
      <4> QED
        BY <1>2, <2>1, <3>2, <4>1
    <3> QED
      BY <3>1, <3>2
  <2> QED
    BY <2>3 DEF AnswerInv
<1>13. CookieInv'
  <2> SUFFICES ASSUME jar \in Issued', rows'[jar].used, ~Excused(jar)'
               PROVE  \E d \in Calls : call'[d].kind = "refresh" /\ call'[d].token = jar
                                         /\ call'[d].result # None
    BY DEF CookieInv
  <2>1. jar \in Issued /\ ~Excused(jar)
    BY <1>3, <1>4
  <2>2. CASE rows[jar].used
    <3>1. PICK d \in Calls : call[d].kind = "refresh" /\ call[d].token = jar /\ call[d].result # None
      BY <2>1, <2>2 DEF ReasonInv, CookieInv
    <3> QED
      BY <1>2, <1>11, <3>1
  <2>3. CASE ~rows[jar].used
    <3>1. jar = call[c].token /\ call[c].pc = "rotate"
      BY <2>1, <2>3
    <3>2. a # None
      BY <2>1, <3>1 DEF Excused
    <3> QED
      BY <1>1, <1>2, <1>9, <3>1, <3>2 DEF Refreshes
  <2> QED
    BY <2>2, <2>3
<1>14. RevokedForAReason'
  BY DEF ReasonInv, RevokedForAReason
<1> QED
  BY <1>6, <1>7, <1>8, <1>10, <1>12, <1>13, <1>14 DEF ReasonInv

\* The steps of the browser.
LEMMA ReasonBrowser ==
  ASSUME IInv, ReasonInv, NEW b \in Tabs, NEW c \in Calls,
         Login(b, c) \/ Refresh(b, c) \/ Logout(b, c)
  PROVE  ReasonInv'
<1>1. \A d \in Calls : Refreshes(d) => call[d].tab \in Tabs /\ promise[call[d].tab] = d
  BY RequestFacts DEF ReasonInv, PromiseInv, Refreshes
<1>2. promise \in [Tabs -> Calls \cup {NoCall}] /\ NoCall \notin Calls
  BY TokensAssumption DEF IInv, Types
<1>3. ASSUME NEW kind, NEW pc, Request(c, kind, b, pc)
      PROVE  /\ call[c].pc = "idle" /\ \A d \in Calls \ {c} : call'[d] = call[d]
             /\ call'[c].kind = kind /\ call'[c].tab = b /\ call'[c].pc = pc
  BY <1>3 DEF Request, Idle, IInv, Types
<1>4. CASE Login(b, c)
  <2>1. Request(c, "login", b, "create") /\ UNCHANGED <<rows, jar, user, promise, excused>>
    BY <1>4 DEF Login
  <2>2. PromiseInv'
    BY <1>1, <1>3, <2>1 DEF PromiseInv, Refreshes
  <2> QED
    BY <2>1, <2>2, ReasonRequest
<1>5. CASE Refresh(b, c)
  <2>1. /\ promise[b] = NoCall /\ Request(c, "refresh", b, "lock")
        /\ promise' = [promise EXCEPT ![b] = c] /\ UNCHANGED <<rows, jar, user>>
        /\ excused' = IF jar \in Issued /\ SentTwice(b) THEN excused \cup {rows[jar].family}
                      ELSE excused
    BY <1>5 DEF Refresh
  <2>2. PromiseInv'
    <3>1. ASSUME NEW d \in Calls, Refreshes(d)' PROVE promise'[call'[d].tab] = d
      <4>1. CASE d = c
        BY <1>2, <1>3, <2>1, <4>1
      <4>2. CASE d # c
        <5>1. Refreshes(d) /\ call'[d] = call[d]
          BY <1>3, <2>1, <3>1, <4>2 DEF Refreshes
        <5>2. call[d].tab # b
          BY <1>1, <1>2, <2>1, <5>1
        <5> QED
          BY <1>1, <1>2, <2>1, <5>1, <5>2
      <4> QED
        BY <4>1, <4>2
    <3> QED
      BY <3>1 DEF PromiseInv
  <2>3. excused \subseteq excused' /\ (jar \in Issued /\ SentTwice(b) => rows[jar].family \in excused')
    BY <2>1
  <2>4. SentTwice(b) => Excused(jar)'
    BY <2>1, <2>3 DEF Excused, Issued
  <2>5. ASSUME NEW d \in Calls, Refreshes(d), call[d].token = jar PROVE SentTwice(b)
    BY <1>1, <1>2, <2>1, <2>5 DEF SentTwice, Refreshes
  <2>6. jar \in Issued /\ rows[jar].used => Excused(jar)'
    <3>1. ASSUME jar \in Issued, rows[jar].used PROVE SentTwice(b) \/ Excused(jar)
      <4>1. ASSUME NEW d \in Calls, call[d].kind = "refresh", call[d].token = jar, call[d].result # None
            PROVE  SentTwice(b)
        <5>1. Refreshes(d)
          BY <4>1 DEF ReasonInv, AnswerInv, Refreshes
        <5> QED
          BY <2>5, <4>1, <5>1
      <4> QED
        BY <3>1, <4>1 DEF ReasonInv, CookieInv
    <3>2. Excused(jar) => Excused(jar)'
      BY <2>1, <2>3 DEF Excused, Issued
    <3> QED
      BY <2>4, <3>1, <3>2
  <2> QED
    BY <2>1, <2>2, <2>3, <2>4, <2>5, <2>6, ReasonRequest
<1>6. CASE Logout(b, c)
  <2>1. Request(c, "logout", b, "update") /\ UNCHANGED <<rows, jar, promise>>
    BY <1>6 DEF Logout
  <2>2. excused \subseteq excused' /\ Excused(jar)'
    BY <1>6, <2>1 DEF Logout, Excused, Issued
  <2>3. PromiseInv'
    BY <1>1, <1>3, <2>1 DEF PromiseInv, Refreshes
  <2> QED
    BY <2>1, <2>2, <2>3, ReasonRequest
<1> QED
  BY <1>4, <1>5, <1>6

LEMMA ReasonAnswers ==
  ASSUME IInv, ReasonInv, NEW c \in Calls, AnswerNext(c) PROVE ReasonInv'
<1>1. CASE Receive(c)
  <2>1. Hang(c) /\ Settle(c) /\ UNCHANGED <<rows, excused>>
    BY <1>1 DEF Receive
  <2>2. /\ jar' \in {None, jar, call[c].result}
        /\ jar' = jar => jar = None \/ call[c].result = None
    BY <1>1 DEF Receive, ReasonInv, AnswerInv
  <2> QED
    BY <2>1, <2>2, ReasonHangs
<1>2. CASE Lose(c)
  <2>1. Hang(c) /\ Settle(c) /\ UNCHANGED <<rows, jar>>
    BY <1>2 DEF Lose
  <2>2. excused \subseteq excused' /\ (call[c].result # None => rows[call[c].result].family \in excused')
    BY <1>2 DEF Lose
  <2> QED
    BY <2>1, <2>2, ReasonHangs
<1> QED
  BY <1>1, <1>2 DEF AnswerNext

\* The steps of the backend.
LEMMA ReasonBackend ==
  ASSUME IInv, ReasonInv, NEW c \in Calls, BackendNext(c) PROVE ReasonInv'
<1>1. /\ call[c] \in Call /\ call[c].token \in Issued \cup {None} /\ None \notin Issued
      /\ None \in Tokens \cup {None}
  BY RequestFacts, NoneFacts DEF Issued
<1>2. ASSUME NEW t \in Tokens \cup {None}
      PROVE  LET r == [call[c] EXCEPT !.pc = "answer", !.result = t] IN
             /\ r \in Call /\ r.pc = "answer" /\ r.result = t
             /\ r.kind = call[c].kind /\ r.tab = call[c].tab /\ r.token = call[c].token
  BY <1>1, <1>2 DEF Call
<1>3. ASSUME Answer(c, None), UNCHANGED <<rows, jar, promise, excused>>,
             call[c].pc \notin {"idle", "answer"}
      PROVE  ReasonInv'
  <2> DEFINE r == [call[c] EXCEPT !.pc = "answer", !.result = None]
  <2>1. /\ r \in Call /\ r.pc = "answer" /\ r.result = None
        /\ r.kind = call[c].kind /\ r.tab = call[c].tab /\ r.token = call[c].token
    BY <1>1, <1>2
  <2>2. call' = [call EXCEPT ![c] = r]
    BY <1>3 DEF Answer
  <2>3. Issued' = Issued
    BY <1>3 DEF Issued
  <2> HIDE DEF r
  <2> QED
    BY <1>3, <2>1, <2>2, <2>3, ReasonMoves
<1>4. CASE CreateToken(c)
  <2>1. PICK u \in Tokens \ Issued : rows' = Insert(u, u, rows) /\ Answer(c, u)
    BY <1>4 DEF CreateToken
  <2>2. /\ call[c].pc = "create" /\ UNCHANGED <<jar, user, promise, excused>>
    BY <1>4 DEF CreateToken
  <2>3. /\ ~rows'[u].used /\ ~rows'[u].revoked /\ rows'[u].family = u
        /\ \A t \in Tokens \ {u} : rows'[t] = rows[t]
    BY <2>1 DEF Insert, IInv, Types, Row, NoRow
  <2>4. Issued' = Issued \cup {u} /\ \A t \in Issued : rows'[t] = rows[t]
    <3>1. u # None /\ \A t \in Issued : t \in Tokens \ {u}
      BY NoneFacts DEF Issued
    <3>2. \A t \in Tokens : rows'[t].family # None <=> t = u \/ rows[t].family # None
      BY <2>3, <3>1
    <3> QED
      BY <2>3, <3>1, <3>2 DEF Issued
  <2>5. {} \in SUBSET {call[c].token} /\ {} \subseteq Issued /\ u \in {u, None}
    OBVIOUS
  <2> QED
    BY <2>1, <2>2, <2>3, <2>4, <2>5, ReasonInserts
<1>5. CASE Rotate(c)
  <2> DEFINE t == call[c].token
             f == rows[t].family
  <2>1. call[c].pc = "rotate" /\ t \in Issued /\ f \in Issued /\ UNCHANGED <<jar, promise>>
    BY <1>5 DEF Rotate, IInv, CallInv, CallFacts, FamilyInv
  <2>2. PICK u \in Tokens \ Issued :
          /\ rows' = Insert(u, f, [rows EXCEPT ![t].used = TRUE])
          /\ \/ Answer(c, u) /\ UNCHANGED excused
             \/ Answer(c, None) /\ excused' = excused \cup {f}
    BY <1>5 DEF Rotate
  <2>3. PICK a \in {u, None} : Answer(c, a) /\ excused \subseteq excused' /\ (a = None => f \in excused')
    BY <1>1, <2>2, NoneFacts
  <2>4. /\ ~rows'[u].used /\ ~rows'[u].revoked /\ rows'[u].family = f
        /\ \A v \in Tokens \ {u} : /\ rows'[v].family = rows[v].family
                                   /\ rows'[v].revoked = rows[v].revoked
                                   /\ rows'[v].used => rows[v].used \/ v = t
    BY <2>1, <2>2 DEF Insert, IInv, Types, Row, NoRow, Issued
  <2>5. Issued' = Issued \cup {u}
    BY <1>1, <2>1, <2>4, NoneFacts DEF Issued
  <2> DEFINE spent == {t}
  <2>6. spent \in SUBSET {call[c].token} /\ spent \subseteq Issued
    BY <2>1
  <2>7. \A v \in Issued : /\ rows'[v].family = rows[v].family
                          /\ rows'[v].used => rows[v].used \/ v \in spent
                          /\ rows'[v].revoked = rows[v].revoked
    BY <2>4 DEF Issued
  <2>8. /\ call[c].token \in Issued /\ rows'[u].family = rows[call[c].token].family
        /\ a = None => rows[call[c].token].family \in excused'
    BY <2>1, <2>3, <2>4
  <2> HIDE DEF f, t, spent
  <2> QED
    BY <2>1, <2>3, <2>4, <2>5, <2>6, <2>7, <2>8, ReasonInserts
<1>6. CASE Lock(c)
  <2>1. call[c].pc = "lock" /\ UNCHANGED <<rows, jar, promise, excused>> /\ Issued' = Issued
    BY <1>6 DEF Lock, Issued
  <2>2. CASE Answer(c, None)
    BY <1>3, <2>1, <2>2
  <2>3. ASSUME NEW pc \in {"rotate", "update"}, Step(c, "lock", pc),
               pc = "update" => Excused(call[c].token)
        PROVE  ReasonInv'
    <3> DEFINE r == [call[c] EXCEPT !.pc = pc]
    <3>1. /\ r \in Call /\ r.pc = pc /\ r.result = call[c].result
          /\ r.kind = call[c].kind /\ r.tab = call[c].tab /\ r.token = call[c].token
      BY <1>1 DEF Call
    <3>2. call[c].result = None
      BY <2>1 DEF ReasonInv, AnswerInv
    <3>3. call' = [call EXCEPT ![c] = r]
      BY <2>3 DEF Step
    <3> HIDE DEF r
    <3> QED
      BY <2>1, <2>3, <3>1, <3>2, <3>3, ReasonMoves
  <2>4. call[c].token \in Issued /\ rows[call[c].token].used => Excused(call[c].token)
    BY <2>1 DEF ReasonInv, RevokeInv
  <2> QED
    BY <1>6, <2>2, <2>3, <2>4 DEF Lock
<1>7. CASE BeginUpdate(c)
  <2>1. call[c].pc = "update" /\ UNCHANGED <<rows, jar, promise, excused>> /\ Issued' = Issued
    BY <1>7 DEF BeginUpdate, Issued
  <2>2. CASE Answer(c, None)
    BY <1>3, <2>1, <2>2
  <2> DEFINE seen == {s \in Family(rows[call[c].token].family) : ~rows[s].revoked}
             r == [call[c] EXCEPT !.pc = "commit", !.seen = seen]
  <2>3. CASE call' = [call EXCEPT ![c] = r]
    <3>1. /\ r \in Call /\ r.pc = "commit" /\ r.result = call[c].result
          /\ r.kind = call[c].kind /\ r.tab = call[c].tab /\ r.token = call[c].token
      BY <1>1 DEF Call, Family
    <3>2. call[c].result = None /\ Excused(call[c].token)
      BY <2>1 DEF ReasonInv, AnswerInv, RevokeInv
    <3> HIDE DEF r
    <3> QED
      BY <2>1, <2>3, <3>1, <3>2, ReasonMoves
  <2> QED
    BY <1>7, <2>2, <2>3 DEF BeginUpdate
<1>8. CASE CommitUpdate(c)
  <2>1. /\ call[c].pc = "commit" /\ Answer(c, None) /\ UNCHANGED <<jar, promise, excused>>
        /\ rows' = [t \in Tokens |->
             IF t \in call[c].seen THEN [rows[t] EXCEPT !.revoked = TRUE] ELSE rows[t]]
    BY <1>8 DEF CommitUpdate
  <2>2. /\ call[c].token \in Issued /\ call[c].seen \subseteq Family(rows[call[c].token].family)
        /\ rows[call[c].token].family \in excused
    BY <2>1 DEF IInv, CallInv, CallFacts, ReasonInv, RevokeInv, Excused
  <2>3. /\ \A t \in Tokens : /\ rows'[t].family = rows[t].family
                             /\ rows'[t].used = rows[t].used
                             /\ t \notin call[c].seen => rows'[t].revoked = rows[t].revoked
    BY <2>1 DEF IInv, Types, Row
  <2>4. Issued' = Issued /\ \A t \in Issued : t \in Tokens
    BY <2>3 DEF Issued
  <2>5. \A t \in call[c].seen : rows[t].family \in excused
    BY <2>2 DEF Family
  <2> DEFINE r == [call[c] EXCEPT !.pc = "answer", !.result = None]
  <2>6. /\ r \in Call /\ r.pc = "answer" /\ r.result = None
        /\ r.kind = call[c].kind /\ r.tab = call[c].tab /\ r.token = call[c].token
    BY <1>1, <1>2
  <2>7. call' = [call EXCEPT ![c] = r]
    BY <2>1 DEF Answer
  <2> HIDE DEF r
  <2> QED
    BY <2>1, <2>3, <2>4, <2>5, <2>6, <2>7, ReasonMoves
<1>9. CASE Abort(c)
  BY <1>3, <1>9 DEF Abort
<1> QED
  BY <1>4, <1>5, <1>6, <1>7, <1>8, <1>9 DEF BackendNext

LEMMA ReasonInit == ASSUME Init PROVE ReasonInv
<1>1. Issued = {} /\ jar = None
  BY DEF Init, Issued, NoRow
<1>2. \A c \in Calls : call[c].pc = "idle" /\ call[c].result = None
  BY DEF Init, Idle
<1> QED
  BY <1>1, <1>2, NoneFacts DEF ReasonInv, LoginInv, PromiseInv, TwiceInv, RevokeInv, AnswerInv,
     CookieInv, RevokedForAReason, Refreshes, Excused

LEMMA ReasonNext == ASSUME IInv, ReasonInv, [Next]_vars PROVE ReasonInv'
<1>1. CASE UNCHANGED vars
  BY <1>1 DEF vars, ReasonInv, LoginInv, PromiseInv, TwiceInv, RevokeInv, AnswerInv, CookieInv,
     RevokedForAReason, Refreshes, Excused, Issued
<1> QED
  BY <1>1, ReasonBrowser, ReasonBackend, ReasonAnswers DEF Next

\* Nobody is thrown out for nothing: the tokens of a family are revoked only
\* after a logout, a lost answer, or a cookie sent by two pages (api.ts,
\* refreshAccessToken: the requests of one page share one refresh).
THEOREM RevocationHasReason == Spec => []RevokedForAReason
<1>1. ReasonInv => RevokedForAReason
  BY DEF ReasonInv
<1> QED
  BY <1>1, Invariant, IInvInit, IInvNext, ReasonInit, ReasonNext, PTL DEF Spec

-----------------------------------------------------------------------------
(* The refinement.                                                          *)

\* The usable tokens of a family, and what a step that keeps the table makes of it.
Live(f) == {t \in Family(f) : Usable(t)}

LEMMA TableKept ==
  ASSUME UNCHANGED rows
  PROVE  UNCHANGED <<[f \in Tokens |-> Live(f)], Issued>>
BY DEF Live, Family, Usable, Issued

\* A family has at most one usable token.
LEMMA LiveIsOne ==
  ASSUME IInv, NEW f \in Tokens, NEW t \in Live(f)
  PROVE  Live(f) = {t}
BY DEF IInv, OneUsableToken, Live, Family

\* A login issues a token.
LEMMA CreateTokenIssues ==
  ASSUME IInv, NEW c \in Calls, CreateToken(c)
  PROVE  \E u \in Tokens :
           /\ u \notin Issued /\ Issued' = Issued \cup {u}
           /\ [f \in Tokens |-> Live(f)]' = [[f \in Tokens |-> Live(f)] EXCEPT ![u] = {u}]
<1>1. PICK u \in Tokens \ Issued : rows' = Insert(u, u, rows)
  BY DEF CreateToken
<1>2. /\ rows'[u].family = u /\ ~rows'[u].used /\ ~rows'[u].revoked
      /\ \A t \in Tokens \ {u} : rows'[t] = rows[t] /\ (t \in Issued => rows[t].family # u)
  BY <1>1 DEF Insert, IInv, Types, FamilyInv, Row, NoRow
<1>3. Issued' = Issued \cup {u} /\ u # None
  BY <1>2, NoneFacts DEF Issued
<1>4. ASSUME NEW f \in Tokens PROVE Live(f)' = IF f = u THEN {u} ELSE Live(f)
  BY <1>1, <1>2, <1>3, NoneFacts DEF Live, Family, Usable, Issued
<1> QED
  BY <1>1, <1>3, <1>4

\* A rotation exchanges the usable token of its family.
LEMMA RotateExchanges ==
  ASSUME IInv, NEW c \in Calls, Rotate(c)
  PROVE  \E f \in Tokens, t \in Issued, u \in Tokens \ Issued :
           /\ Live(f) = {t} /\ Issued' = Issued \cup {u}
           /\ [g \in Tokens |-> Live(g)]' = [[g \in Tokens |-> Live(g)] EXCEPT ![f] = {u}]
<1> DEFINE t == call[c].token
           f == rows[t].family
<1>1. t \in Issued /\ Usable(t) /\ f \in Issued /\ f \in Tokens
  BY DEF Rotate, IInv, CallInv, CallFacts, FamilyInv, Issued
<1>2. PICK u \in Tokens \ Issued : rows' = Insert(u, f, [rows EXCEPT ![t].used = TRUE])
  BY DEF Rotate
<1>3. /\ rows'[u].family = f /\ ~rows'[u].used /\ ~rows'[u].revoked /\ rows'[t].used
      /\ \A v \in Tokens \ {u} : rows'[v].family = rows[v].family
      /\ \A v \in Tokens \ {u, t} : rows'[v] = rows[v]
  BY <1>1, <1>2 DEF Insert, IInv, Types, Row, NoRow, Issued
<1>4. Live(f) = {t}
  BY <1>1, LiveIsOne DEF Live, Family, Issued
<1>5. Issued' = Issued \cup {u}
  BY <1>1, <1>3, NoneFacts DEF Issued
<1>6. ASSUME NEW g \in Tokens PROVE Live(g)' = IF g = f THEN {u} ELSE Live(g)
  <2>1. ASSUME NEW v \in Tokens \ {u, t} PROVE v \in Live(g)' <=> v \in Live(g)
    BY <1>3 DEF Live, Family, Usable
  <2>2. u \notin Live(g) /\ (u \in Live(g)' <=> g = f)
    BY <1>1, <1>2, <1>3, NoneFacts DEF Live, Family, Usable, Issued
  <2>3. t \notin Live(g)' /\ (t \in Live(g) => g = f)
    BY <1>1, <1>3 DEF Live, Family, Usable
  <2>4. \A v \in Live(g)' \cup Live(g) : v \in Tokens
    BY DEF Live, Family
  <2>5. CASE g = f
    BY <1>4, <2>1, <2>2, <2>3, <2>4, <2>5
  <2>6. CASE g # f
    BY <2>1, <2>2, <2>3, <2>4, <2>6
  <2> QED
    BY <2>5, <2>6
<1> QED
  BY <1>1, <1>2, <1>4, <1>5, <1>6

\* A revocation ends its family, or changes nothing that can be seen of it.
LEMMA CommitUpdateEnds ==
  ASSUME IInv, NEW c \in Calls, CommitUpdate(c)
  PROVE  /\ Issued' = Issued
         /\ \E f \in Tokens :
              \/ [g \in Tokens |-> Live(g)]' = [g \in Tokens |-> Live(g)]
              \/ /\ Live(f) # {}
                 /\ [g \in Tokens |-> Live(g)]' = [[g \in Tokens |-> Live(g)] EXCEPT ![f] = {}]
<1> DEFINE seen == call[c].seen
<1>1. PICK f \in Tokens : seen \subseteq Family(f)
  BY DEF CommitUpdate, IInv, CallInv, CallFacts, FamilyInv, Issued
<1>2. \A t \in Tokens : /\ rows'[t].family = rows[t].family
                        /\ IF t \in seen THEN rows'[t].revoked ELSE rows'[t] = rows[t]
  BY DEF CommitUpdate, IInv, Types, Row
<1>3. \A t \in seen : ~Usable(t)'
  BY <1>1, <1>2 DEF Usable, Family
<1>4. Issued' = Issued
  BY <1>2 DEF Issued
<1>5. \A g \in Tokens : Live(g)' = Live(g) \ seen
  BY <1>2, <1>3 DEF Live, Family, Usable
<1>6. \A g \in Tokens \ {f} : Live(g)' = Live(g)
  BY <1>1, <1>5 DEF Live, Family
<1>7. CASE Live(f) \cap seen = {}
  <2>1. \A g \in Tokens : Live(g)' = Live(g)
    BY <1>1, <1>5, <1>6, <1>7
  <2> QED
    BY <1>1, <1>4, <2>1
<1>8. CASE Live(f) \cap seen # {}
  <2>1. PICK t \in Live(f) : t \in seen
    BY <1>8
  <2>2. Live(f) = {t}
    BY <1>1, <2>1, LiveIsOne
  <2>3. Live(f)' = {}
    BY <1>5, <2>1, <2>2
  <2>4. [g \in Tokens |-> Live(g)]' = [[g \in Tokens |-> Live(g)] EXCEPT ![f] = {}]
    BY <1>6, <2>3
  <2>5. Live(f) # {}
    BY <2>1
  <2> QED
    BY <1>4, <2>4, <2>5
<1> QED
  BY <1>7, <1>8

\* Rotation implements TokenFamily: usable tokens are issued by logins, exchanged
\* one for one, and a family that has none left stays without.
THEOREM Refinement == Spec => ImplementsFamily
<1> DEFINE live == [f \in Tokens |-> Live(f)]
<1>1. ASSUME Init PROVE Promised!Init
  BY <1>1 DEF Init, Promised!Init, Issued, Family, Usable, NoRow
<1>2. ASSUME IInv, [Next]_vars PROVE [Promised!Next]_(Promised!familyVars)
  <2>1. ASSUME UNCHANGED rows PROVE UNCHANGED Promised!familyVars
    BY <2>1, TableKept DEF Promised!familyVars, Live
  <2>2. ASSUME NEW c \in Calls, CreateToken(c) PROVE Promised!Next
    <3>1. PICK u \in Tokens : /\ u \notin Issued /\ Issued' = Issued \cup {u}
                              /\ live' = [live EXCEPT ![u] = {u}]
      BY <1>2, <2>2, CreateTokenIssues
    <3>2. Promised!Issue(u)
      BY <3>1 DEF Promised!Issue, Live
    <3> QED
      BY <3>2 DEF Promised!Next
  <2>3. ASSUME NEW c \in Calls, Rotate(c) PROVE Promised!Next
    <3>1. PICK f \in Tokens, t \in Issued, u \in Tokens \ Issued :
            /\ Live(f) = {t} /\ Issued' = Issued \cup {u}
            /\ live' = [live EXCEPT ![f] = {u}]
      BY <1>2, <2>3, RotateExchanges
    <3>2. Promised!Exchange(f, t, u)
      BY <3>1 DEF Promised!Exchange, Live
    <3>3. t \in live[f]
      BY <3>1
    <3> QED
      BY <3>1, <3>2, <3>3 DEF Promised!Next, Live
  <2>4. ASSUME NEW c \in Calls, CommitUpdate(c)
        PROVE  Promised!Next \/ UNCHANGED Promised!familyVars
    <3>1. Issued' = Issued
      BY <1>2, <2>4, CommitUpdateEnds
    <3>2. PICK f \in Tokens :
            \/ live' = live
            \/ Live(f) # {} /\ live' = [live EXCEPT ![f] = {}]
      BY <1>2, <2>4, CommitUpdateEnds
    <3>3. CASE live' = live
      BY <3>1, <3>3 DEF Promised!familyVars, Live
    <3>4. CASE Live(f) # {} /\ live' = [live EXCEPT ![f] = {}]
      <4>1. Promised!End(f)
        BY <3>1, <3>4 DEF Promised!End, Live
      <4> QED
        BY <4>1 DEF Promised!Next
    <3> QED
      BY <3>2, <3>3, <3>4
  <2> QED
    BY <1>2, <2>1, <2>2, <2>3, <2>4 DEF Next, BackendNext, AnswerNext, Login, Refresh,
       Logout, Receive, Lose, Lock, BeginUpdate, Abort, vars
<1> QED
  BY <1>1, <1>2, Invariant, PTL DEF Spec, ImplementsFamily, Promised!Spec
=============================================================================
