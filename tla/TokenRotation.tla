---------------------------- MODULE TokenRotation ----------------------------
(***************************************************************************)
(* Refresh tokens: the browser's tabs, which share one cookie jar          *)
(* (frontend/src/api.ts, auth.tsx), and the backend's transactions on      *)
(* refresh_tokens (service/auth.go, repository/auth_tokens.go), under READ *)
(* COMMITTED: a rotation locks the row of its token until it commits; the  *)
(* UPDATE that revokes a family works on the rows it saw when it began and *)
(* waits for those that others have locked.                                *)
(*                                                                         *)
(* A family is named after its first token.  Access tokens expire at any   *)
(* time: a page with a user may need a new one at every moment.  A refresh *)
(* token and its cookie expire together, seven days after they were        *)
(* issued; both are left out.                                              *)
(***************************************************************************)
EXTENDS Naturals, FiniteSets

CONSTANTS
  Tabs,       \* pages of one browser
  Calls,      \* requests to /auth on their way
  NoCall,     \* "no refresh is on its way"
  Nobody,     \* the tab of a request slot that is free
  MaxTokens   \* bound: tokens ever issued

Tokens == 1..MaxTokens
None   == 0                  \* no cookie, no token, no family

ASSUME TokensAssumption == MaxTokens \in Nat /\ NoCall \notin Calls

VARIABLES
  rows,     \* refresh_tokens
  jar,      \* the lb_refresh cookie
  user,     \* the tabs that show a user
  promise,  \* refreshPromise of each tab
  call,     \* requests to /auth
  excused   \* history: families that were logged out, or whose last token
            \* the browser may not have, or has sent twice from two tabs

vars == <<rows, jar, user, promise, call, excused>>

Row == [family: Tokens \cup {None}, used: BOOLEAN, revoked: BOOLEAN]
NoRow == [family |-> None, used |-> FALSE, revoked |-> FALSE]

Call == [pc: {"idle", "create", "lock", "rotate", "update", "commit", "answer"},
         kind: {"login", "refresh", "logout"}, tab: Tabs \cup {Nobody},
         token: Tokens \cup {None}, result: Tokens \cup {None}, seen: SUBSET Tokens]
Idle == [pc |-> "idle", kind |-> "login", tab |-> Nobody,
         token |-> None, result |-> None, seen |-> {}]

Issued == {t \in Tokens : rows[t].family # None}
Usable(t) == rows[t].family # None /\ ~rows[t].used /\ ~rows[t].revoked
Family(f) == {t \in Tokens : rows[t].family = f}

\* What is kept where; a cookie, and a token in a request or an answer, is a
\* row of the table.
TypeOK ==
  /\ rows \in [Tokens -> Row]
  /\ jar \in Issued \cup {None}
  /\ user \subseteq Tabs
  /\ promise \in [Tabs -> Calls \cup {NoCall}]
  /\ call \in [Calls -> Call]
  /\ \A c \in Calls : {call[c].token, call[c].result} \subseteq Issued \cup {None}
  /\ excused \subseteq Tokens

Init ==
  /\ rows = [t \in Tokens |-> NoRow]
  /\ jar = None /\ user = {} /\ promise = [b \in Tabs |-> NoCall]
  /\ call = [c \in Calls |-> Idle]
  /\ excused = {}

-----------------------------------------------------------------------------
(* The browser.                                                             *)

\* The request carries the cookie of the jar.
Request(c, kind, b, pc) ==
  /\ call[c].pc = "idle"
  /\ call' = [call EXCEPT ![c] =
       [Idle EXCEPT !.pc = pc, !.kind = kind, !.tab = b, !.token = jar]]

Login(b, c) ==
  /\ b \notin user
  /\ Request(c, "login", b, "create")
  /\ UNCHANGED <<rows, jar, user, promise, excused>>

\* Another tab's refresh is on its way with the cookie of the jar.
SentTwice(b) ==
  \E d \in Calls : call[d].kind = "refresh" /\ call[d].pc # "idle"
                     /\ call[d].tab # b /\ call[d].token = jar

\* (mutant of Refresh) a request that meets a 401 does not join the refresh
\* that another one has begun.
RefreshApart(b, c) ==
  /\ b \in user
  /\ Request(c, "refresh", b, "lock")
  /\ promise' = [promise EXCEPT ![b] = c]
  /\ excused' = IF jar \in Issued /\ SentTwice(b) THEN excused \cup {rows[jar].family} ELSE excused
  /\ UNCHANGED <<rows, jar, user>>

\* refreshAccessToken: requests of a page that meet a 401 share one refresh.
Refresh(b, c) ==
  /\ b \in user /\ promise[b] = NoCall
  /\ Request(c, "refresh", b, "lock")
  /\ promise' = [promise EXCEPT ![b] = c]
  /\ excused' = IF jar \in Issued /\ SentTwice(b) THEN excused \cup {rows[jar].family} ELSE excused
  /\ UNCHANGED <<rows, jar, user>>

\* logout forgets the user at once, whatever becomes of the request.
Logout(b, c) ==
  /\ b \in user
  /\ Request(c, "logout", b, "update")
  /\ user' = user \ {b}
  /\ excused' = IF jar \in Issued THEN excused \cup {rows[jar].family} ELSE excused
  /\ UNCHANGED <<rows, jar, promise>>

\* "finally": the promise is forgotten, however the refresh ended.
Settle(c) == promise' = [b \in Tabs |-> IF promise[b] = c THEN NoCall ELSE promise[b]]

Hang(c) == call' = [call EXCEPT ![c] = Idle]

\* The answer arrives: a success sets the cookie, a logout deletes it.
Receive(c) ==
  /\ call[c].pc = "answer"
  /\ jar' = IF call[c].kind = "logout" THEN None
            ELSE IF call[c].result # None THEN call[c].result ELSE jar
  /\ user' = IF call[c].kind = "login" /\ call[c].result # None
             THEN user \cup {call[c].tab} ELSE user
  /\ Settle(c) /\ Hang(c)
  /\ UNCHANGED <<rows, excused>>

\* The answer is lost.
Lose(c) ==
  /\ call[c].pc = "answer"
  /\ excused' = IF call[c].result = None THEN excused
                ELSE excused \cup {rows[call[c].result].family}
  /\ Settle(c) /\ Hang(c)
  /\ UNCHANGED <<rows, jar, user>>

-----------------------------------------------------------------------------
(* The backend.                                                             *)

\* The token row that a rotation has locked (SELECT ... FOR UPDATE).
Locked(c) ==
  IF call[c].kind = "refresh" /\ call[c].pc \in {"rotate", "update", "commit"}
  THEN {call[c].token} ELSE {}

Step(c, from, to) == call[c].pc = from /\ call' = [call EXCEPT ![c].pc = to]

\* The answer of the request: a token, or none for an error.
Answer(c, t) == call' = [call EXCEPT ![c].pc = "answer", ![c].result = t]

Insert(u, f, table) == [table EXCEPT ![u] = [NoRow EXCEPT !.family = f]]

\* (mutant of CreateToken) the error of the INSERT is not looked at.
CreateUnchecked(c) ==
  /\ call[c].pc = "create"
  /\ \E u \in Tokens \ Issued :
       /\ \A t \in 1..(u - 1) : t \in Issued
       /\ rows' \in {rows, Insert(u, u, rows)} /\ Answer(c, u)
  /\ UNCHANGED <<jar, user, promise, excused>>

\* The password was right: a token of a new family.
CreateToken(c) ==
  /\ call[c].pc = "create"
  /\ \E u \in Tokens \ Issued :
       /\ \A t \in 1..(u - 1) : t \in Issued
       /\ rows' = Insert(u, u, rows) /\ Answer(c, u)
  /\ UNCHANGED <<jar, user, promise, excused>>

\* (mutant of Lock) the row is read without a lock.
ReadUnlocked(c) ==
  LET t == call[c].token IN
  /\ call[c].pc = "lock"
  /\ \/ t \notin Issued /\ Answer(c, None)
     \/ /\ t \in Issued
        /\ \/ rows[t].used /\ Step(c, "lock", "update")
           \/ ~rows[t].used /\ ~Usable(t) /\ Answer(c, None)
           \/ Usable(t) /\ Step(c, "lock", "rotate")
  /\ UNCHANGED <<rows, jar, user, promise, excused>>

\* (mutant of Lock) a revoked token is exchanged like any other.
LockRevoked(c) ==
  LET t == call[c].token IN
  /\ call[c].pc = "lock"
  /\ \/ t \notin Issued /\ Answer(c, None)
     \/ /\ t \in Issued
        /\ \A d \in Calls : t \notin Locked(d)
        /\ IF rows[t].used THEN Step(c, "lock", "update") ELSE Step(c, "lock", "rotate")
  /\ UNCHANGED <<rows, jar, user, promise, excused>>

\* RotateRefreshToken up to its decision: a token that was used is a replay, a
\* revoked or expired one is refused, and one that is usable will be rotated.
Lock(c) ==
  LET t == call[c].token IN
  /\ call[c].pc = "lock"
  /\ \/ t \notin Issued /\ Answer(c, None)
     \/ /\ t \in Issued
        /\ \A d \in Calls : t \notin Locked(d)
        /\ \/ rows[t].used /\ Step(c, "lock", "update")
           \/ ~rows[t].used /\ ~Usable(t) /\ Answer(c, None)
           \/ Usable(t) /\ Step(c, "lock", "rotate")
  /\ UNCHANGED <<rows, jar, user, promise, excused>>

\* The rotation commits.  If the commit is reported as an error, or the user
\* cannot be read afterwards, the answer is 401, and the token is spent.
Rotate(c) ==
  LET t == call[c].token IN
  /\ call[c].pc = "rotate"
  /\ \E u \in Tokens \ Issued :
       /\ \A v \in 1..(u - 1) : v \in Issued
       /\ rows' = Insert(u, rows[t].family, [rows EXCEPT ![t].used = TRUE])
       /\ \/ Answer(c, u) /\ UNCHANGED excused
          \/ Answer(c, None) /\ excused' = excused \cup {rows[t].family}
  /\ UNCHANGED <<jar, user, promise>>

\* RevokeRefreshFamily, for a logout or in the transaction of a replay: the
\* UPDATE begins, with the rows that are committed now.
BeginUpdate(c) ==
  LET t == call[c].token IN
  /\ call[c].pc = "update"
  /\ \/ t \notin Issued /\ Answer(c, None)
     \/ /\ t \in Issued
        /\ call' = [call EXCEPT ![c].pc = "commit",
             ![c].seen = {s \in Family(rows[t].family) : ~rows[s].revoked}]
  /\ UNCHANGED <<rows, jar, user, promise, excused>>

CommitUpdate(c) ==
  /\ call[c].pc = "commit"
  /\ \A d \in Calls \ {c} : Locked(d) \cap call[c].seen = {}
  /\ rows' = [t \in Tokens |->
       IF t \in call[c].seen THEN [rows[t] EXCEPT !.revoked = TRUE] ELSE rows[t]]
  /\ Answer(c, None)
  /\ UNCHANGED <<jar, user, promise, excused>>

\* A wrong password, a database error, a cancelled request, a deadlock that the
\* database resolves, or a backend that dies: nothing is committed.
Abort(c) ==
  /\ call[c].pc \in {"create", "lock", "rotate", "update", "commit"}
  /\ Answer(c, None)
  /\ UNCHANGED <<rows, jar, user, promise, excused>>

-----------------------------------------------------------------------------
BackendNext(c) ==
  \/ CreateToken(c) \/ Lock(c) \/ Rotate(c) \/ BeginUpdate(c) \/ CommitUpdate(c) \/ Abort(c)

AnswerNext(c) == Receive(c) \/ Lose(c)

Next ==
  \/ \E b \in Tabs, c \in Calls : Login(b, c) \/ Refresh(b, c) \/ Logout(b, c)
  \/ \E c \in Calls : BackendNext(c) \/ AnswerNext(c)

Spec == Init /\ [][Next]_vars

-----------------------------------------------------------------------------
(***************************************************************************)
(* Properties.                                                             *)
(***************************************************************************)

\* No double spending: however refreshes of one token and revocations of its
\* family interleave, a family has at most one token that can be exchanged.
OneUsableToken ==
  \A t, u \in Tokens :
    Usable(t) /\ Usable(u) /\ rows[t].family = rows[u].family => t = u

\* Nobody is thrown out for nothing: the tokens of a family are revoked only
\* after a logout, a lost answer, or a cookie sent twice by two tabs; the
\* requests of a single page, which meet the expiry together, never do it.
RevokedForAReason ==
  \A t \in Issued : rows[t].revoked => rows[t].family \in excused

\* Rotation implements the promise of TokenFamily: a family without a usable
\* token stays without one, and tokens become usable once.
Promised == INSTANCE TokenFamily WITH
  live <- [f \in Tokens |-> {t \in Family(f) : Usable(t)}],
  born <- Issued
ImplementsFamily == Promised!Spec

-----------------------------------------------------------------------------
(* What the docs say and the code does not do: a run expects a counterexample. *)

\* docs/api-reference.md: a logout revokes the family of the token.  The UPDATE
\* does not see the replacement that a rotation inserts while the UPDATE waits
\* for the row of the old token: it stays usable.
RevocationIsWhole ==
  \A t, u \in Issued :
    rows[t].revoked /\ rows[t].family = rows[u].family => ~Usable(u)
=============================================================================
