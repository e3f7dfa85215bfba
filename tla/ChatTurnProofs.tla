---------------------------- MODULE ChatTurnProofs ----------------------------
(***************************************************************************)
(* Proofs about ChatTurn for any number of questions, scopes and loads.    *)
(* An event that names a session was sent by a turn that has entered a     *)
(* session of its own scope; the page listens to one turn at most, of the  *)
(* scope it shows; and while a "meta" or a "done" may still come the page  *)
(* is busy and its last message is the answer that "done" is about.        *)
(***************************************************************************)
EXTENDS ChatTurn, TLAPS

Entered == {"append", "call", "stream", "save", "saved", "failed"}

\* The turn's session is one of its scope; its answer is stored; and what it
\* sends from now on has no "done".
Good(t)     == turn[t].session \in Turns /\ scopeOf[turn[t].session] = {turn[t].scope}
Answered(t) == Holds(turn[t].session, [role |-> "assistant", turn |-> t])
Over(t)     == turn[t].cut \/ turn[t].pc \in {"failed", "closed"}

\* What the page shows as saved was stored.
Stored(m)     == \E s \in Turns : Holds(s, m)
ShownIsStored == \A i \in DOMAIN view : view[i].saved => Stored(view[i])

TurnFacts(t) ==
  /\ turn[t].pc = "none" => wire[t] = <<>> /\ ~turn[t].cut
  /\ turn[t].pc \in {"none", "request"} => scopeOf[t] = {}
  /\ turn[t].pc \in Entered => Good(t)
  /\ turn[t].pc = "saved" => Answered(t)

\* Events on their way: neither "meta" nor "done" follows an error or an end.
WireFacts(t) ==
  \A i \in DOMAIN wire[t] :
    /\ wire[t][i] \in {"meta", "done"} => Good(t)
    /\ wire[t][i] = "done" => Answered(t)
    /\ wire[t][i] \in {"error", "end"} =>
         Over(t) /\ \A j \in DOMAIN wire[t] : j > i => wire[t][j] \notin {"meta", "done"}

LoadFacts(l) ==
  /\ loads[l].pc # "idle" => loads[l].scope \in Scopes
  /\ loads[l].pc = "list" => loads[l].kind = "mount"
  /\ loads[l].pc = "fetch" => loads[l].target \in Turns
  /\ loads[l].pc = "fetch" /\ loads[l].kind = "open" =>
       /\ scopeOf[loads[l].target] = {loads[l].scope}
       /\ l = latest => loads[l].scope = scope

TurnInv == \A t \in Turns : TurnFacts(t)
WireInv == \A t \in Turns : WireFacts(t)
LoadInv == \A l \in Loads : LoadFacts(l)

\* The turn the page listens to.
CurrentInv ==
  current # 0 =>
    /\ turn[current].pc # "none" /\ turn[current].scope = scope
    /\ ~busy => Over(current) /\ \A i \in DOMAIN wire[current] : wire[current][i] \notin {"meta", "done"}

BusyInv ==
  busy => /\ current # 0 /\ latest = NoLoad
          /\ Len(view) > 0
          /\ view[Len(view)].role = "assistant" /\ view[Len(view)].turn = current

PageInv == CurrentInv /\ BusyInv /\ ScopeIsolated /\ ShownIsStored

IInv == TypeOK /\ TurnInv /\ WireInv /\ LoadInv /\ PageInv
-----------------------------------------------------------------------------
(* Types.                                                                   *)

LEMMA TurnsFacts ==
  /\ Turns \subseteq Nat /\ 0 \notin Turns /\ Foreign \notin Turns
  /\ Turns \subseteq Sessions /\ {0, Foreign} \subseteq Sessions
  /\ Turns = (0..MaxTurns) \ {0}
BY TurnsAssumption DEF Turns, Foreign, Sessions

LEMMA IdleTypes ==
  /\ NoTurn \in Turn /\ NoTurn.pc = "none" /\ ~NoTurn.cut
  /\ NoLoadTask \in Load /\ NoLoadTask.pc = "idle" /\ NoLoadTask.kind = "mount"
BY TurnsAssumption, TurnsFacts DEF NoTurn, Turn, NoLoadTask, Load

\* The load of a page that opens.
LEMMA MountLoadType ==
  ASSUME stored \in [Scopes -> Sessions], NEW s \in Scopes
  PROVE  /\ MountLoad(s) \in Load /\ MountLoad(s).pc \in {"idle", "list"}
         /\ MountLoad(s).kind = "mount"
         /\ MountLoad(s).pc # "idle" => MountLoad(s).scope = s
         /\ StoredSession(s) \in Sessions
         /\ StoredSession(s) = stored[s] \/ StoredSession(s) \in {0, Foreign}
<1>1. /\ StoredSession(s) \in Sessions
      /\ StoredSession(s) = stored[s] \/ StoredSession(s) \in {0, Foreign}
  BY TurnsFacts DEF StoredSession
<1>2. MountLoad(s) \in {NoLoadTask, [NoLoadTask EXCEPT !.pc = "list", !.scope = s,
          !.target = StoredSession(s), !.found = Exists(StoredSession(s))]}
  BY DEF MountLoad
<1>3. Exists(StoredSession(s)) \in BOOLEAN
  BY DEF Exists
<1> QED
  BY <1>1, <1>2, <1>3, IdleTypes DEF Load

LEMMA IInvInit == ASSUME Init PROVE IInv
<1>0. scope \in Scopes
  BY DEF Init
<1>1. stored \in [Scopes -> Sessions] /\ \A s \in Scopes : stored[s] \notin Turns
  BY TurnsFacts DEF Init
<1>2. TypeOK
  <2>1. session \in Sessions /\ MountLoad(scope) \in Load
    BY <1>0, <1>1, MountLoadType DEF Init
  <2>2. /\ scopeOf \in [Turns -> {{}} \cup {{s} : s \in Scopes}]
        /\ messages \in [Turns -> Seq(Message)] /\ wire \in [Turns -> Seq(Event)]
        /\ view \in Seq(Shown) /\ turn \in [Turns -> Turn]
    BY IdleTypes DEF Init
  <2>3. loads \in [Loads -> Load] /\ current \in 0..MaxTurns /\ scope \in Scopes
    BY <2>1, IdleTypes, TurnsAssumption DEF Init
  <2> QED
    BY <1>1, <2>1, <2>2, <2>3 DEF Init, TypeOK
<1>3. TurnInv /\ WireInv
  BY IdleTypes DEF Init, TurnInv, TurnFacts, WireInv, WireFacts, Entered
<1>4. LoadInv
  BY <1>0, <1>1, IdleTypes, MountLoadType, TurnsAssumption DEF Init, LoadInv, LoadFacts
<1>5. session \notin Turns
  BY <1>0, <1>1, MountLoadType, TurnsFacts DEF Init
<1>6. PageInv
  BY <1>1, <1>5 DEF Init, PageInv, CurrentInv, BusyInv, ScopeIsolated, ShownIsStored
<1> QED
  BY <1>2, <1>3, <1>4, <1>6 DEF IInv
-----------------------------------------------------------------------------
(* The handler.                                                             *)

\* Messages are only added.
LEMMA Appended ==
  ASSUME TypeOK, NEW t \in Turns, Good(t), NEW role \in {"user", "assistant"},
         AppendMessage(turn[t].session, role, t)
  PROVE  /\ messages' \in [Turns -> Seq(Message)]
         /\ \A s \in Turns : \A i \in DOMAIN messages[s] :
              i \in DOMAIN messages'[s] /\ messages'[s][i] = messages[s][i]
         /\ \E i \in DOMAIN messages'[turn[t].session] :
              messages'[turn[t].session][i] = [role |-> role, turn |-> t]
<1> DEFINE s == turn[t].session  m == [role |-> role, turn |-> t]
<1>1. s \in Turns /\ m \in Message /\ messages \in [Turns -> Seq(Message)]
  BY DEF Good, Message, TypeOK
<1>2. messages' = [messages EXCEPT ![s] = Append(messages[s], m)]
  BY DEF AppendMessage
<1> HIDE DEF s, m
<1>3. messages[s] \in Seq(Message) /\ Append(messages[s], m) \in Seq(Message)
      /\ Len(Append(messages[s], m)) = Len(messages[s]) + 1 /\ Len(messages[s]) \in Nat
      /\ Append(messages[s], m)[Len(messages[s]) + 1] = m
      /\ \A i \in 1..Len(messages[s]) : Append(messages[s], m)[i] = messages[s][i]
  BY <1>1
<1>4. messages' \in [Turns -> Seq(Message)]
  BY <1>1, <1>2, <1>3
<1>5. \A u \in Turns : \A i \in DOMAIN messages[u] :
        i \in DOMAIN messages'[u] /\ messages'[u][i] = messages[u][i]
  BY <1>1, <1>2, <1>3
<1>6. Len(messages[s]) + 1 \in DOMAIN messages'[s] /\ messages'[s][Len(messages[s]) + 1] = m
  BY <1>1, <1>2, <1>3
<1> QED
  BY <1>4, <1>5, <1>6 DEF s, m

\* The messages stay where they are.
Kept == /\ messages' \in [Turns -> Seq(Message)]
        /\ \A s \in Turns : \A i \in DOMAIN messages[s] :
             i \in DOMAIN messages'[s] /\ messages'[s][i] = messages[s][i]

Sent == {<<>>, <<"meta">>, <<"error">>, <<"end">>, <<"done", "end">>}

\* What a turn has on its way after it sent some events.
LEMMA SendFacts ==
  ASSUME TypeOK, NEW t \in Turns, NEW events \in Sent,
         ~turn[t].cut, wire' = [wire EXCEPT ![t] = wire[t] \o events]
  PROVE  /\ wire' \in [Turns -> Seq(Event)]
         /\ \A u \in Turns \ {t} : wire'[u] = wire[u]
         /\ Len(wire[t]) \in Nat /\ DOMAIN wire[t] = 1..Len(wire[t])
         /\ DOMAIN wire'[t] = 1..(Len(wire[t]) + Len(events))
         /\ Len(events) \in 0..2
         /\ \A i \in DOMAIN wire[t] : wire'[t][i] = wire[t][i]
         /\ \A i \in DOMAIN wire'[t] :
              i \notin DOMAIN wire[t] => i - Len(wire[t]) \in 1..Len(events)
                                         /\ wire'[t][i] = events[i - Len(wire[t])]
<1>1. wire \in [Turns -> Seq(Event)] /\ wire[t] \in Seq(Event)
  BY DEF TypeOK
<1>2. events \in Seq(Event) /\ Len(events) \in 0..2
  <2>1. CASE events = <<>>
    BY <2>1
  <2>2. CASE events = <<"meta">>
    BY <2>2 DEF Event
  <2>3. CASE events = <<"error">>
    BY <2>3 DEF Event
  <2>4. CASE events = <<"end">>
    BY <2>4 DEF Event
  <2>5. CASE events = <<"done", "end">>
    BY <2>5 DEF Event
  <2> QED
    BY <2>1, <2>2, <2>3, <2>4, <2>5 DEF Sent
<1>3. wire[t] \o events \in Seq(Event) /\ Len(wire[t] \o events) = Len(wire[t]) + Len(events)
  BY <1>1, <1>2
<1>4. \A i \in 1..(Len(wire[t]) + Len(events)) :
        (wire[t] \o events)[i] = IF i <= Len(wire[t]) THEN wire[t][i] ELSE events[i - Len(wire[t])]
  BY <1>1, <1>2
<1>5. wire'[t] = wire[t] \o events /\ wire' \in [Turns -> Seq(Event)]
      /\ \A u \in Turns \ {t} : wire'[u] = wire[u]
  BY <1>1, <1>3
<1> QED
  BY <1>1, <1>2, <1>3, <1>4, <1>5

\* A step of a handler that has its session: it goes on, may store a message,
\* and may send events that fit.
LEMMA HandlerStep ==
  ASSUME IInv, NEW t \in Turns, NEW to \in Entered \cup {"closed"}, NEW events \in Sent,
         turn' = [turn EXCEPT ![t].pc = to], turn[t].pc \notin {"none"},
         wire' = wire \/ (~turn[t].cut /\ wire' = [wire EXCEPT ![t] = wire[t] \o events]),
         Kept, UNCHANGED <<materials, scopeOf, pageVars, loads>>,
         to \in Entered \/ events = <<"meta">> => Good(t),
         to = "saved" => Answered(t)',
         events = <<"meta">> => turn[t].pc = "call",
         turn[t].pc \in {"failed", "closed"} => to \in {"failed", "closed"},
         events \in {<<"error">>, <<"end">>} => to \in {"failed", "closed"},
         events = <<"done", "end">> => turn[t].pc = "saved" /\ to = "closed"
  PROVE  IInv'
<1>1. /\ turn \in [Turns -> Turn] /\ turn' \in [Turns -> Turn]
      /\ turn'[t].pc = to /\ turn'[t].session = turn[t].session
      /\ turn'[t].scope = turn[t].scope /\ turn'[t].cut = turn[t].cut
      /\ \A u \in Turns \ {t} : turn'[u] = turn[u]
  BY DEF IInv, TypeOK, Turn, Entered
<1>2. \A u \in Turns : (Good(u) => Good(u)') /\ (Over(u) => Over(u)')
  BY <1>1 DEF Good, Over, pageVars
<1>3. \A u \in Turns : Good(u) /\ Answered(u) => Answered(u)'
  BY <1>1 DEF Kept, Good, Answered, Holds
<1>4. wire' \in [Turns -> Seq(Event)] /\ \A u \in Turns \ {t} : wire'[u] = wire[u]
  BY SendFacts DEF IInv, TypeOK
<1>5. TypeOK'
  BY <1>1, <1>4 DEF IInv, TypeOK, Kept, pageVars
<1>6. TurnInv'
  BY <1>1, <1>2, <1>3, <1>4 DEF IInv, TurnInv, TurnFacts, Entered
<1>7. ASSUME NEW u \in Turns, u # t PROVE WireFacts(u)'
  BY <1>1, <1>2, <1>3, <1>4, <1>7 DEF IInv, WireInv, WireFacts
<1>8. WireFacts(t)'
  <2>1. CASE wire' = wire
    BY <1>2, <1>3, <2>1 DEF IInv, WireInv, WireFacts
  <2>2. CASE wire' # wire
    <3>1. ~turn[t].cut /\ wire' = [wire EXCEPT ![t] = wire[t] \o events]
      BY <2>2
    <3>2. /\ Len(wire[t]) \in Nat /\ DOMAIN wire[t] = 1..Len(wire[t])
          /\ DOMAIN wire'[t] = 1..(Len(wire[t]) + Len(events))
          /\ \A i \in DOMAIN wire[t] : wire'[t][i] = wire[t][i]
          /\ \A i \in DOMAIN wire'[t] :
               i \notin DOMAIN wire[t] => i - Len(wire[t]) \in 1..Len(events)
                                          /\ wire'[t][i] = events[i - Len(wire[t])]
      BY <3>1, SendFacts DEF IInv
    <3>3. WireFacts(t)
      BY DEF IInv, WireInv
    <3>4. CASE events = <<>>
      BY <1>2, <1>3, <3>2, <3>3, <3>4 DEF WireFacts
    <3>5. CASE events = <<"meta">>
      <4>1. \A i \in DOMAIN wire'[t] : i \notin DOMAIN wire[t] => wire'[t][i] = "meta"
        BY <3>2, <3>5
      <4>2. \A i \in DOMAIN wire[t] : wire[t][i] \notin {"error", "end"}
        BY <3>1, <3>3, <3>5 DEF WireFacts, Over
      <4> QED
        BY <1>2, <1>3, <3>2, <3>3, <3>5, <4>1, <4>2 DEF WireFacts
    <3>6. CASE events \in {<<"error">>, <<"end">>}
      <4>1. /\ \A i \in DOMAIN wire'[t] : i \notin DOMAIN wire[t] => wire'[t][i] \in {"error", "end"}
            /\ Over(t)'
        BY <1>1, <3>2, <3>6 DEF Over
      <4>2. \A i \in DOMAIN wire'[t] :
               i \notin DOMAIN wire[t] => \A j \in DOMAIN wire'[t] : j > i => j \notin DOMAIN wire[t]
        BY <3>2
      <4> QED
        BY <1>2, <1>3, <3>2, <3>3, <4>1, <4>2 DEF WireFacts
    <3>7. CASE events = <<"done", "end">>
      <4>1. /\ turn[t].pc = "saved" /\ Over(t)' /\ ~Over(t) /\ Good(t) /\ Answered(t)
        BY <1>1, <3>1, <3>7 DEF IInv, TurnInv, TurnFacts, Entered, Over
      <4>2. \A i \in DOMAIN wire[t] : wire[t][i] \notin {"error", "end"}
        BY <3>3, <4>1 DEF WireFacts
      <4>3. \A i \in DOMAIN wire'[t] : i \notin DOMAIN wire[t] =>
              \/ i = Len(wire[t]) + 1 /\ wire'[t][i] = "done"
              \/ i = Len(wire[t]) + 2 /\ wire'[t][i] = "end"
        BY <3>2, <3>7
      <4>4. Good(t)' /\ Answered(t)'
        BY <1>2, <1>3, <4>1
      <4>5. \A i \in DOMAIN wire'[t] : wire'[t][i] \in {"error", "end"} =>
              \A j \in DOMAIN wire'[t] : j > i => FALSE
        BY <3>2, <3>7, <4>2, <4>3
      <4> QED
        BY <4>1, <4>4, <4>5 DEF WireFacts
    <3> QED
      BY <3>4, <3>5, <3>6, <3>7 DEF Sent
  <2> QED
    BY <2>1, <2>2
<1>9. LoadInv'
  BY DEF IInv, LoadInv, LoadFacts, pageVars
<1>10. CurrentInv'
  <2>1. CASE current # t
    BY <1>1, <1>4, <2>1 DEF IInv, PageInv, CurrentInv, Over, TypeOK, Turns, pageVars
  <2>2. CASE current = t /\ wire' = wire
    BY <1>1, <1>2, <2>2 DEF IInv, PageInv, CurrentInv, pageVars, Entered
  <2>3. CASE current = t /\ wire' # wire
    <3>1. ~turn[t].cut /\ wire' = [wire EXCEPT ![t] = wire[t] \o events]
      BY <2>3
    <3>2. ASSUME Over(t), NEW i \in DOMAIN wire'[t], i \notin DOMAIN wire[t] PROVE wire'[t][i] \notin {"meta", "done"}
      <4>1. events \notin {<<"meta">>, <<"done", "end">>}
        BY <3>1, <3>2 DEF Over
      <4>2. i - Len(wire[t]) \in 1..Len(events) /\ wire'[t][i] = events[i - Len(wire[t])]
        BY <3>1, <3>2, SendFacts DEF IInv
      <4> QED
        BY <4>1, <4>2 DEF Sent
    <3>3. \A i \in DOMAIN wire[t] : wire'[t][i] = wire[t][i]
      BY <3>1, SendFacts DEF IInv
    <3> QED
      BY <1>1, <1>2, <2>3, <3>2, <3>3 DEF IInv, PageInv, CurrentInv, pageVars, Entered
  <2> QED
    BY <2>1, <2>2, <2>3
<1>11. BusyInv' /\ ScopeIsolated'
  BY DEF IInv, PageInv, BusyInv, ScopeIsolated, pageVars
<1>12. ShownIsStored'
  BY DEF IInv, PageInv, ShownIsStored, Stored, Holds, Kept, pageVars
<1> QED
  BY <1>5, <1>6, <1>7, <1>8, <1>9, <1>10, <1>11, <1>12 DEF IInv, WireInv, PageInv

\* What a handler sends.
LEMMA SendCases ==
  ASSUME NEW t \in Turns, NEW events, Send(t, events)
  PROVE  wire' = wire \/ (~turn[t].cut /\ wire' = [wire EXCEPT ![t] = wire[t] \o events])
BY DEF Send

LEMMA KeptFacts ==
  ASSUME IInv, NEW t \in Turns
  PROVE  /\ UNCHANGED messages => Kept
         /\ turn[t].pc \in Entered => Good(t)
         /\ \A role \in {"user", "assistant"} :
              turn[t].pc \in Entered /\ AppendMessage(turn[t].session, role, t) =>
                /\ Kept
                /\ \E i \in DOMAIN messages'[turn[t].session] :
                     messages'[turn[t].session][i] = [role |-> role, turn |-> t]
<1>1. UNCHANGED messages => Kept
  BY DEF IInv, TypeOK, Kept
<1>2. turn[t].pc \in Entered => Good(t)
  BY DEF IInv, TurnInv, TurnFacts
<1> QED
  BY <1>1, <1>2, Appended DEF IInv, Kept

\* A question gets its session: its own if it names one of its scope, else a
\* new one, which had no scope so far.
LEMMA EnterStep == ASSUME IInv, NEW t \in Turns, EnterSession(t) PROVE IInv'
<1> DEFINE s == turn[t].session
<1>1. CASE /\ s \in Turns /\ scopeOf[s] = {turn[t].scope}
           /\ turn' = [turn EXCEPT ![t].pc = "append"] /\ UNCHANGED scopeOf
  <2>1. Good(t) /\ Kept /\ <<>> \in Sent /\ "append" \in Entered
    BY <1>1, KeptFacts DEF EnterSession, Good, Sent, Entered
  <2>2. <<>> \notin {<<"meta">>, <<"error">>, <<"end">>, <<"done", "end">>}
    OBVIOUS
  <2>3. wire' = wire /\ turn[t].pc = "request" /\ UNCHANGED <<materials, scopeOf, pageVars, loads>>
    BY <1>1 DEF EnterSession
  <2>4. /\ turn' = [turn EXCEPT ![t].pc = "append"] /\ turn[t].pc \notin {"none"}
        /\ wire' = wire \/ (~turn[t].cut /\ wire' = [wire EXCEPT ![t] = wire[t] \o <<>>])
        /\ "append" # "saved" /\ turn[t].pc \notin {"failed", "closed"}
    BY <1>1, <2>3
  <2> HIDE DEF s
  <2> QED
    BY <2>1, <2>2, <2>3, <2>4, HandlerStep
<1>2. CASE /\ s = 0 /\ turn' = [turn EXCEPT ![t].pc = "append", ![t].session = t]
           /\ scopeOf' = [scopeOf EXCEPT ![t] = {turn[t].scope}]
  <2>1. /\ turn \in [Turns -> Turn] /\ turn' \in [Turns -> Turn]
        /\ turn'[t].pc = "append" /\ turn'[t].session = t
        /\ turn'[t].scope = turn[t].scope /\ turn'[t].cut = turn[t].cut
        /\ turn[t].pc = "request" /\ \A u \in Turns \ {t} : turn'[u] = turn[u]
    BY <1>2, TurnsFacts DEF IInv, TypeOK, Turn, EnterSession
  <2>2. /\ scopeOf[t] = {} /\ scopeOf'[t] = {turn[t].scope} /\ Good(t)' /\ ~Good(t)
        /\ \A u \in Turns \ {t} : scopeOf'[u] = scopeOf[u]
        /\ \A u \in Turns, x \in Scopes : scopeOf[u] = {x} => scopeOf'[u] = {x}
    <3>1. scopeOf[t] = {} /\ scopeOf \in [Turns -> {{}} \cup {{x} : x \in Scopes}]
      BY <2>1 DEF IInv, TypeOK, TurnInv, TurnFacts
    <3>2. scopeOf'[t] = {turn[t].scope} /\ \A u \in Turns \ {t} : scopeOf'[u] = scopeOf[u]
      BY <1>2, <3>1
    <3>3. Good(t)' /\ ~Good(t)
      BY <1>2, <2>1, <3>2, TurnsFacts DEF Good
    <3> QED
      BY <3>1, <3>2, <3>3
  <2>3. \A u \in Turns : /\ Good(u) => Good(u)'
                         /\ u # t /\ Answered(u) => Answered(u)'
                         /\ Over(u) => Over(u)'
    <3>1. ASSUME NEW u \in Turns, Good(u) PROVE Good(u)' /\ u # t
      <4>1. u # t /\ turn'[u] = turn[u]
        BY <2>1, <2>2, <3>1
      <4>2. turn[u].session \in Turns \ {t}
        BY <2>2, <3>1 DEF Good
      <4> QED
        BY <2>2, <3>1, <4>1, <4>2 DEF Good
    <3>2. ASSUME NEW u \in Turns \ {t}, Answered(u) PROVE Answered(u)'
      <4>1. messages' = messages /\ turn'[u] = turn[u]
        BY <2>1 DEF EnterSession
      <4> QED
        BY <3>2, <4>1 DEF Answered, Holds
    <3>3. ASSUME NEW u \in Turns, Over(u) PROVE Over(u)'
      BY <2>1, <3>3 DEF Over
    <3> QED
      BY <3>1, <3>2, <3>3
  <2>4. TypeOK'
    BY <1>2, <2>1 DEF IInv, TypeOK, Turn, EnterSession, pageVars
  <2>5. TurnInv'
    BY <2>1, <2>2, <2>3 DEF IInv, TurnInv, TurnFacts, EnterSession, Entered
  <2>6. WireInv'
    BY <2>2, <2>3 DEF IInv, WireInv, WireFacts, EnterSession
  <2>7. LoadInv'
    BY <2>2 DEF IInv, TypeOK, Load, LoadInv, LoadFacts, EnterSession, pageVars
  <2>8. PageInv'
    <3>1. CurrentInv'
      <4>1. current # 0 => current \in Turns
        BY TurnsFacts DEF IInv, TypeOK
      <4> QED
        BY <2>1, <2>3, <4>1 DEF IInv, PageInv, CurrentInv, EnterSession, pageVars
    <3>2. BusyInv' /\ ShownIsStored'
      BY DEF IInv, PageInv, BusyInv, ShownIsStored, Stored, Holds, EnterSession, pageVars
    <3>3. ScopeIsolated'
      BY <2>2 DEF IInv, TypeOK, PageInv, ScopeIsolated, EnterSession, pageVars
    <3> QED
      BY <3>1, <3>2, <3>3 DEF PageInv
  <2> QED
    BY <2>4, <2>5, <2>6, <2>7, <2>8 DEF IInv
<1> QED
  BY <1>1, <1>2 DEF EnterSession

LEMMA HandlerNextStep == ASSUME IInv, NEW t \in Turns, HandlerNext(t) PROVE IInv'
<1>0. /\ Entered = {"append", "call", "stream", "save", "saved", "failed"}
      /\ turn \in [Turns -> Turn]
      /\ Sent = {<<>>, <<"meta">>, <<"error">>, <<"end">>, <<"done", "end">>}
  BY DEF Entered, Sent, IInv, TypeOK
<1> DEFINE Step(to, events) ==
      /\ turn' = [turn EXCEPT ![t].pc = to] /\ turn[t].pc # "none"
      /\ wire' = wire \/ (~turn[t].cut /\ wire' = [wire EXCEPT ![t] = wire[t] \o events])
      /\ Kept /\ UNCHANGED <<materials, scopeOf, pageVars, loads>>
      /\ to \in Entered \/ events = <<"meta">> => Good(t)
      /\ to = "saved" => Answered(t)'
      /\ events = <<"meta">> => turn[t].pc = "call"
      /\ turn[t].pc \in {"failed", "closed"} => to \in {"failed", "closed"}
      /\ events \in {<<"error">>, <<"end">>} => to \in {"failed", "closed"}
      /\ events = <<"done", "end">> => turn[t].pc = "saved" /\ to = "closed"
<1>1. ASSUME NEW to \in Entered \cup {"closed"}, NEW events \in Sent, Step(to, events)
      PROVE  IInv'
  BY <1>1, HandlerStep
<1>2. /\ \A a, b, c, d \in Event : <<a>> # <<c, d>> /\ <<a>> # <<>> /\ <<a, b>> # <<>>
      /\ \A a, b \in Event : <<a>> = <<b>> => a = b
  OBVIOUS
<1>3. {"meta", "done", "error", "end"} = Event
  BY DEF Event
<1>4. \A e \in Event : Send(t, <<e>>) =>
        wire' = wire \/ (~turn[t].cut /\ wire' = [wire EXCEPT ![t] = wire[t] \o <<e>>])
  BY SendCases
<1>5. CASE EnterSession(t)
  BY <1>5, EnterStep
<1>6. CASE StoreQuestion(t)
  <2>1. Step("call", <<>>)
    BY <1>0, <1>2, <1>3, <1>6, KeptFacts DEF StoreQuestion, Goes
  <2> QED
    BY <1>0, <1>1, <2>1
<1>7. CASE StartStream(t)
  <2>1. Step("stream", <<"meta">>)
    BY <1>0, <1>2, <1>3, <1>4, <1>7, KeptFacts DEF StartStream, Goes, dbVars
  <2> QED
    BY <1>0, <1>1, <2>1
<1>8. CASE AgentAnswers(t)
  <2>1. Step("save", <<>>)
    BY <1>0, <1>2, <1>3, <1>8, KeptFacts DEF AgentAnswers, Goes, dbVars
  <2> QED
    BY <1>0, <1>1, <2>1
<1>9. CASE AgentFails(t)
  <2>1. Step("failed", <<"error">>)
    BY <1>0, <1>2, <1>3, <1>4, <1>9, KeptFacts DEF AgentFails, Goes, dbVars
  <2> QED
    BY <1>0, <1>1, <2>1
<1>10. CASE StoreAnswer(t)
  <2>1. Answered(t)'
    <3>1. \E i \in DOMAIN messages'[turn[t].session] :
            messages'[turn[t].session][i] = [role |-> "assistant", turn |-> t]
      BY <1>0, <1>10, KeptFacts DEF StoreAnswer, Goes
    <3>2. turn'[t].session = turn[t].session
      BY <1>0, <1>10 DEF StoreAnswer, Goes, Turn
    <3> QED
      BY <3>1, <3>2 DEF Answered, Holds
  <2>2. Step("saved", <<>>)
    BY <1>0, <1>2, <1>3, <1>10, <2>1, KeptFacts DEF StoreAnswer, Goes
  <2> QED
    BY <1>0, <1>1, <2>2
<1>11. CASE StoreAnswerFails(t)
  <2>1. Step("failed", <<"error">>)
    BY <1>0, <1>2, <1>3, <1>4, <1>11, KeptFacts DEF StoreAnswerFails, Goes
  <2> QED
    BY <1>0, <1>1, <2>1
<1>12. CASE Finish(t)
  <2>1. CASE Goes(t, "saved", "closed") /\ Send(t, <<"done", "end">>)
    <3>1. Step("closed", <<"done", "end">>)
      BY <1>0, <1>2, <1>3, <1>12, <2>1, KeptFacts, SendCases DEF Finish, Goes, dbVars
    <3> QED
      BY <1>0, <1>1, <3>1
  <2>2. CASE Goes(t, "failed", "closed") /\ Send(t, <<"end">>)
    <3>1. Step("closed", <<"end">>)
      BY <1>0, <1>2, <1>3, <1>4, <1>12, <2>2, KeptFacts DEF Finish, Goes, dbVars
    <3> QED
      BY <1>0, <1>1, <3>1
  <2> QED
    BY <1>12, <2>1, <2>2 DEF Finish
<1>13. CASE Refuse(t)
  <2>1. Step("closed", <<"error">>)
    BY <1>0, <1>2, <1>3, <1>4, <1>13, KeptFacts DEF Refuse, Goes
  <2> QED
    BY <1>0, <1>1, <2>1
<1>14. CASE Abandon(t)
  <2>1. turn[t].pc # "none"
    BY <1>14 DEF Abandon, IInv, TurnInv, TurnFacts
  <2>2. turn[t].pc \notin {"failed", "closed"} \/ "closed" \in {"failed", "closed"}
    OBVIOUS
  <2>3. Step("closed", <<>>)
    BY <1>0, <1>2, <1>3, <1>14, <2>1, KeptFacts DEF Abandon, Goes, dbVars
  <2> QED
    BY <1>0, <1>1, <2>3
<1> QED
  BY <1>5, <1>6, <1>7, <1>8, <1>9, <1>10, <1>11, <1>12, <1>13, <1>14 DEF HandlerNext

\* The connection breaks: an error ends what was on its way.
LEMMA BreakStep == ASSUME IInv, NEW t \in Turns, Break(t) PROVE IInv'
<1>1. /\ turn \in [Turns -> Turn] /\ turn' \in [Turns -> Turn]
      /\ turn'[t].pc = turn[t].pc /\ turn'[t].session = turn[t].session
      /\ turn'[t].scope = turn[t].scope /\ turn'[t].cut /\ turn[t].pc # "none"
      /\ \A u \in Turns \ {t} : turn'[u] = turn[u]
  BY DEF IInv, TypeOK, Turn, Break
<1>2. PICK k \in 0..Len(wire[t]) : wire' = [wire EXCEPT ![t] = Append(SubSeq(wire[t], 1, k), "error")]
  BY DEF Break
<1>3. wire \in [Turns -> Seq(Event)] /\ wire[t] \in Seq(Event) /\ "error" \in Event
  BY DEF IInv, TypeOK, Event
<1>4. /\ k \in Nat /\ k <= Len(wire[t]) /\ Len(wire[t]) \in Nat
      /\ SubSeq(wire[t], 1, k) \in Seq(Event) /\ Len(SubSeq(wire[t], 1, k)) = k
      /\ \A i \in 1..k : SubSeq(wire[t], 1, k)[i] = wire[t][i]
  BY <1>3
<1>5. /\ wire' \in [Turns -> Seq(Event)] /\ \A u \in Turns \ {t} : wire'[u] = wire[u]
      /\ DOMAIN wire'[t] = 1..(k + 1) /\ wire'[t][k + 1] = "error"
      /\ \A i \in 1..k : i \in DOMAIN wire[t] /\ wire'[t][i] = wire[t][i]
  BY <1>2, <1>3, <1>4
<1>6. \A u \in Turns : (Good(u) <=> Good(u)') /\ (Answered(u) <=> Answered(u)')
                       /\ (Over(u) => Over(u)')
  <2>1. /\ \A u \in Turns : /\ turn'[u].pc = turn[u].pc /\ turn'[u].session = turn[u].session
                            /\ turn'[u].scope = turn[u].scope /\ (turn[u].cut => turn'[u].cut)
        /\ messages' = messages /\ scopeOf' = scopeOf
    BY <1>1 DEF Break, dbVars
  <2> QED
    BY <2>1 DEF Good, Answered, Holds, Over
<1>7. TypeOK'
  BY <1>1, <1>5 DEF IInv, TypeOK, Break, dbVars, pageVars
<1>8. TurnInv'
  BY <1>1, <1>5, <1>6 DEF IInv, TurnInv, TurnFacts, Break, dbVars
<1>9. WireInv'
  <2>1. ASSUME NEW u \in Turns, u # t PROVE WireFacts(u)'
    BY <1>5, <1>6, <2>1 DEF IInv, WireInv, WireFacts
  <2>2. WireFacts(t) /\ Over(t)'
    BY <1>1 DEF IInv, WireInv, Over
  <2>3. WireFacts(t)'
    BY <1>4, <1>5, <1>6, <2>2 DEF WireFacts
  <2> QED
    BY <2>1, <2>3 DEF WireInv
<1>10. LoadInv'
  BY DEF IInv, LoadInv, LoadFacts, Break, dbVars, pageVars
<1>11. CurrentInv'
  <2>1. current # 0 => current \in Turns
    BY TurnsFacts DEF IInv, TypeOK
  <2>2. current = t /\ ~busy => \A i \in DOMAIN wire'[t] : wire'[t][i] \notin {"meta", "done"}
    BY <1>4, <1>5, TurnsFacts DEF IInv, PageInv, CurrentInv
  <2> QED
    BY <1>1, <1>5, <1>6, <2>1, <2>2 DEF IInv, PageInv, CurrentInv, Break, pageVars
<1>12. BusyInv' /\ ScopeIsolated'
  BY DEF IInv, PageInv, BusyInv, ScopeIsolated, Break, dbVars, pageVars
<1>13. ShownIsStored'
  BY DEF IInv, PageInv, ShownIsStored, Stored, Holds, Break, dbVars, pageVars
<1> QED
  BY <1>7, <1>8, <1>9, <1>10, <1>11, <1>12, <1>13 DEF IInv, PageInv
-----------------------------------------------------------------------------
(* The events the page reads.                                               *)

\* What remains on its way when the page has read one event.
LEMMA ArrivedFacts ==
  ASSUME IInv, NEW t \in Turns, NEW e \in Event, Arrives(t, e), UNCHANGED <<dbVars, turn>>
  PROVE  /\ wire' \in [Turns -> Seq(Event)] /\ TurnInv' /\ WireInv'
         /\ e \in {"meta", "done"} => Good(t)
         /\ e = "done" => Answered(t) /\ \E i \in DOMAIN wire[t] : wire[t][i] = "done"
         /\ e \in {"error", "end"} => Over(t) /\ \A i \in DOMAIN wire'[t] : wire'[t][i] \notin {"meta", "done"}
         /\ (\A i \in DOMAIN wire[t] : wire[t][i] \notin {"meta", "done"}) =>
              \A i \in DOMAIN wire'[t] : wire'[t][i] \notin {"meta", "done"}
<1>1. wire \in [Turns -> Seq(Event)] /\ wire[t] \in Seq(Event) /\ wire[t] # <<>>
  BY DEF IInv, TypeOK, Arrives
<1>2. /\ Len(wire[t]) \in Nat /\ Len(wire[t]) > 0 /\ DOMAIN wire[t] = 1..Len(wire[t])
      /\ wire[t][1] = e /\ Tail(wire[t]) \in Seq(Event)
      /\ Len(Tail(wire[t])) = Len(wire[t]) - 1
      /\ \A i \in 1..(Len(wire[t]) - 1) : Tail(wire[t])[i] = wire[t][i + 1]
  BY <1>1 DEF Arrives
<1>3. /\ wire' \in [Turns -> Seq(Event)] /\ \A u \in Turns \ {t} : wire'[u] = wire[u]
      /\ DOMAIN wire'[t] = 1..(Len(wire[t]) - 1)
      /\ \A i \in 1..(Len(wire[t]) - 1) : wire'[t][i] = wire[t][i + 1]
  BY <1>1, <1>2 DEF Arrives
<1>4. \A u \in Turns : (Good(u) <=> Good(u)') /\ (Answered(u) <=> Answered(u)')
                       /\ (Over(u) <=> Over(u)')
  BY DEF Good, Answered, Holds, Over, dbVars
<1>5. TurnInv'
  BY <1>1, <1>3, <1>4 DEF IInv, TurnInv, TurnFacts, dbVars
<1>6. WireFacts(t) /\ 1 \in DOMAIN wire[t]
  BY <1>2 DEF IInv, WireInv
<1>10. \A i \in DOMAIN wire'[t] : /\ i + 1 \in DOMAIN wire[t] /\ wire'[t][i] = wire[t][i + 1]
                                  /\ i + 1 > 1
                                  /\ \A j \in DOMAIN wire'[t] : j > i => j + 1 > i + 1
  BY <1>2, <1>3
<1>7. WireFacts(t)'
  <2>1. ASSUME NEW i \in DOMAIN wire'[t]
        PROVE  /\ wire'[t][i] \in {"meta", "done"} => Good(t)'
               /\ wire'[t][i] = "done" => Answered(t)'
               /\ wire'[t][i] \in {"error", "end"} =>
                    Over(t)' /\ \A j \in DOMAIN wire'[t] : j > i => wire'[t][j] \notin {"meta", "done"}
    BY <1>4, <1>6, <1>10 DEF WireFacts
  <2> QED
    BY <2>1 DEF WireFacts
<1>8. ASSUME NEW u \in Turns, u # t PROVE WireFacts(u)'
  BY <1>3, <1>4, <1>8 DEF IInv, WireInv, WireFacts
<1>9. e \in {"error", "end"} => Over(t) /\ \A i \in DOMAIN wire'[t] : wire'[t][i] \notin {"meta", "done"}
  BY <1>2, <1>6, <1>10 DEF WireFacts
<1>11. /\ e \in {"meta", "done"} => Good(t)
       /\ e = "done" => Answered(t) /\ \E i \in DOMAIN wire[t] : wire[t][i] = "done"
  BY <1>2, <1>6 DEF WireFacts
<1>12. WireInv'
  BY <1>7, <1>8 DEF WireInv
<1> QED
  BY <1>3, <1>5, <1>9, <1>10, <1>11, <1>12

\* Only the last message changes, and not in what it is about.
LEMMA UpdateFacts ==
  ASSUME view \in Seq(Shown), NEW flag \in {"saved", "error"}, UpdateLast(flag)
  PROVE  /\ view' \in Seq(Shown) /\ Len(view') = Len(view) /\ DOMAIN view' = DOMAIN view
         /\ \A i \in DOMAIN view :
              /\ view'[i].role = view[i].role /\ view'[i].turn = view[i].turn
              /\ view'[i].saved => view[i].saved \/ (i = Len(view) /\ flag = "saved")
<1>1. CASE view = <<>>
  BY <1>1 DEF UpdateLast
<1>2. CASE view # <<>>
  <2> DEFINE n == Len(view)
  <2>1. n \in Nat /\ n > 0 /\ DOMAIN view = 1..n /\ view[n] \in Shown
        /\ \A i \in 1..n : view[i] \in Shown
    BY <1>2
  <2>2. view' = [view EXCEPT ![n] = [view[n] EXCEPT !.saved = (view[n].saved \/ flag = "saved"),
                                                    !.error = (view[n].error \/ flag = "error")]]
    BY <1>2, <2>1 DEF UpdateLast, Shown
  <2> DEFINE m == [view[n] EXCEPT !.saved = (view[n].saved \/ flag = "saved"),
                                  !.error = (view[n].error \/ flag = "error")]
  <2>3. m \in Shown /\ m.role = view[n].role /\ m.turn = view[n].turn
        /\ m.saved = (view[n].saved \/ flag = "saved")
    BY <2>1 DEF Shown
  <2>4. view' = [view EXCEPT ![n] = m]
    BY <2>2
  <2> HIDE DEF m, n
  <2>5. view' \in Seq(Shown) /\ Len(view') = Len(view) /\ DOMAIN view' = DOMAIN view
    BY <2>1, <2>3, <2>4 DEF n
  <2>6. \A i \in DOMAIN view : view'[i] = IF i = n THEN m ELSE view[i]
    BY <2>1, <2>4
  <2> QED
    BY <2>3, <2>5, <2>6 DEF n
<1> QED
  BY <1>1, <1>2

LEMMA EventStep == ASSUME IInv, NEW t \in Turns, EventNext(t) PROVE IInv'
<1>0. t # 0 /\ view \in Seq(Shown) /\ {"meta", "done", "error", "end"} = Event
  BY TurnsFacts DEF IInv, TypeOK, Event
<1>1. ASSUME OnMeta(t) \/ OnDone(t) \/ OnError(t) \/ OnEnd(t)
      PROVE  UNCHANGED <<dbVars, turn, scope, current, latest, loading, loads>> /\ current = t
  BY <1>1 DEF OnMeta, OnDone, OnError, OnEnd, IsCurrentRequest
<1>2. ASSUME Good(t), Adopt(t), current = t, UNCHANGED <<dbVars, scope>>
      PROVE  ScopeIsolated' /\ session' \in Sessions /\ stored' \in [Scopes -> Sessions]
  <2>1. turn[t].scope = scope /\ scope \in Scopes /\ turn[t].session \in Sessions
    BY <1>0, <1>2, TurnsFacts DEF Good, IInv, TypeOK, PageInv, CurrentInv
  <2> QED
    BY <1>2, <2>1 DEF Adopt, Good, IInv, TypeOK, PageInv, ScopeIsolated, dbVars
<1>3. ASSUME UNCHANGED <<scopeOf, scope, latest, loads>> PROVE LoadInv'
  BY <1>3 DEF IInv, LoadInv, LoadFacts
<1>4. CASE OnMeta(t)
  <2>1. /\ wire' \in [Turns -> Seq(Event)] /\ TurnInv' /\ WireInv' /\ Good(t)
        /\ (\A i \in DOMAIN wire[t] : wire[t][i] \notin {"meta", "done"}) =>
              \A i \in DOMAIN wire'[t] : wire'[t][i] \notin {"meta", "done"}
    BY <1>0, <1>1, <1>4, ArrivedFacts DEF OnMeta
  <2>2. ScopeIsolated' /\ TypeOK'
    BY <1>1, <1>2, <1>4, <2>1 DEF OnMeta, IInv, TypeOK, dbVars
  <2>3. CurrentInv' /\ BusyInv' /\ ShownIsStored'
    BY <1>1, <1>4, <2>1 DEF OnMeta, IInv, PageInv, CurrentInv, Over, BusyInv, ShownIsStored, Stored, Holds, dbVars
  <2> QED
    BY <1>1, <1>3, <1>4, <2>1, <2>2, <2>3 DEF IInv, PageInv, dbVars
<1>5. CASE OnDone(t)
  <2>1. /\ wire' \in [Turns -> Seq(Event)] /\ TurnInv' /\ WireInv' /\ Good(t) /\ Answered(t)
        /\ \E i \in DOMAIN wire[t] : wire[t][i] = "done"
    BY <1>0, <1>1, <1>5, ArrivedFacts DEF OnDone
  <2>2. /\ view' \in Seq(Shown) /\ Len(view') = Len(view) /\ DOMAIN view' = DOMAIN view
        /\ \A i \in DOMAIN view :
              /\ view'[i].role = view[i].role /\ view'[i].turn = view[i].turn
              /\ view'[i].saved => view[i].saved \/ i = Len(view)
    BY <1>0, <1>5, UpdateFacts DEF OnDone
  <2>3. ScopeIsolated' /\ TypeOK'
    BY <1>1, <1>2, <1>5, <2>1, <2>2 DEF OnDone, IInv, TypeOK, dbVars
  <2>4. busy /\ Len(view) > 0 /\ Len(view) \in DOMAIN view
        /\ view[Len(view)].role = "assistant" /\ view[Len(view)].turn = t
    BY <1>0, <1>1, <1>5, <2>1 DEF IInv, PageInv, CurrentInv, BusyInv
  <2>5. CurrentInv' /\ BusyInv'
    BY <1>0, <1>1, <1>5, <2>2, <2>4 DEF OnDone, IInv, PageInv, CurrentInv, BusyInv
  <2>6. ShownIsStored'
    <3>1. ASSUME NEW i \in DOMAIN view', view'[i].saved PROVE Stored(view[i])'
      <4>1. CASE i = Len(view)
        BY <1>1, <1>5, <2>1, <2>2, <2>4, <4>1 DEF Good, Answered, Stored, Holds, dbVars
      <4>2. CASE i # Len(view)
        <5>1. Stored(view[i])
          BY <2>2, <3>1, <4>2 DEF IInv, PageInv, ShownIsStored
        <5> QED
          BY <1>1, <1>5, <2>2, <3>1, <5>1 DEF Stored, Holds, dbVars
      <4> QED
        BY <4>1, <4>2
    <3> QED
      BY <3>1 DEF ShownIsStored
  <2> QED
    BY <1>1, <1>3, <1>5, <2>1, <2>3, <2>5, <2>6 DEF IInv, PageInv, dbVars
<1>9. CASE DropDone(t)
  <2>1. /\ wire' \in [Turns -> Seq(Event)] /\ TurnInv' /\ WireInv'
        /\ (\A i \in DOMAIN wire[t] : wire[t][i] \notin {"meta", "done"}) =>
              \A i \in DOMAIN wire'[t] : wire'[t][i] \notin {"meta", "done"}
    BY <1>0, <1>9, ArrivedFacts DEF DropDone
  <2>2. UNCHANGED <<dbVars, turn, pageVars, loads>> /\ current = t
    BY <1>9 DEF DropDone, IsCurrentRequest
  <2>3. TypeOK' /\ LoadInv'
    BY <2>1, <2>2 DEF IInv, TypeOK, LoadInv, LoadFacts, dbVars, pageVars
  <2>4. CurrentInv' /\ BusyInv' /\ ScopeIsolated'
    BY <2>1, <2>2 DEF IInv, PageInv, CurrentInv, Over, BusyInv, ScopeIsolated, dbVars, pageVars
  <2>5. ShownIsStored'
    BY <2>2 DEF IInv, PageInv, ShownIsStored, Stored, Holds, dbVars, pageVars
  <2> QED
    BY <2>1, <2>3, <2>4, <2>5 DEF IInv, PageInv
<1>6. CASE OnError(t)
  <2>1. /\ wire' \in [Turns -> Seq(Event)] /\ TurnInv' /\ WireInv' /\ Over(t)
        /\ \A i \in DOMAIN wire'[t] : wire'[t][i] \notin {"meta", "done"}
    BY <1>0, <1>1, <1>6, ArrivedFacts DEF OnError
  <2>2. /\ view' \in Seq(Shown) /\ DOMAIN view' = DOMAIN view
        /\ \A i \in DOMAIN view :
              /\ view'[i].role = view[i].role /\ view'[i].turn = view[i].turn
              /\ view'[i].saved => view[i].saved
    BY <1>0, <1>6, UpdateFacts DEF OnError
  <2>3. TypeOK'
    BY <1>1, <1>6, <2>1, <2>2 DEF OnError, IInv, TypeOK, dbVars
  <2>4. CurrentInv' /\ BusyInv' /\ ScopeIsolated'
    BY <1>1, <1>6, <2>1 DEF OnError, IInv, PageInv, CurrentInv, Over, BusyInv, ScopeIsolated, dbVars
  <2>5. ShownIsStored'
    BY <1>1, <1>6, <2>2 DEF IInv, PageInv, ShownIsStored, Stored, Holds, dbVars
  <2> QED
    BY <1>1, <1>3, <1>6, <2>1, <2>3, <2>4, <2>5 DEF IInv, PageInv, dbVars
<1>7. CASE OnEnd(t)
  <2>1. /\ wire' \in [Turns -> Seq(Event)] /\ TurnInv' /\ WireInv' /\ Over(t)
        /\ \A i \in DOMAIN wire'[t] : wire'[t][i] \notin {"meta", "done"}
    BY <1>0, <1>1, <1>7, ArrivedFacts DEF OnEnd
  <2>2. TypeOK'
    BY <1>1, <1>7, <2>1 DEF OnEnd, IInv, TypeOK, dbVars
  <2>3. CurrentInv' /\ BusyInv' /\ ScopeIsolated'
    BY <1>1, <1>7, <2>1 DEF OnEnd, IInv, PageInv, CurrentInv, Over, BusyInv, ScopeIsolated, dbVars
  <2>4. ShownIsStored'
    BY <1>1, <1>7 DEF OnEnd, IInv, PageInv, ShownIsStored, Stored, Holds, dbVars
  <2> QED
    BY <1>1, <1>3, <1>7, <2>1, <2>2, <2>3, <2>4 DEF IInv, PageInv, dbVars
<1>8. CASE Ignored(t)
  <2>1. /\ wire' \in [Turns -> Seq(Event)] /\ wire'[t] = <<>> /\ wire[t] # <<>> /\ current # t
        /\ \A u \in Turns \ {t} : wire'[u] = wire[u]
    BY <1>8 DEF Ignored, IInv, TypeOK, IsCurrentRequest
  <2>2. TypeOK' /\ LoadInv'
    BY <1>8, <2>1 DEF Ignored, IInv, TypeOK, LoadInv, LoadFacts, dbVars, pageVars
  <2>3. TurnInv' /\ WireInv'
    <3>1. UNCHANGED <<scopeOf, messages, turn>>
      BY <1>8 DEF Ignored, dbVars
    <3>2. \A u \in Turns : (Good(u) <=> Good(u)') /\ (Answered(u) <=> Answered(u)')
                           /\ (Over(u) <=> Over(u)')
      BY <3>1 DEF Good, Answered, Holds, Over
    <3>3. ASSUME NEW u \in Turns, u # t PROVE TurnFacts(u)' /\ WireFacts(u)'
      BY <2>1, <3>1, <3>2, <3>3 DEF IInv, TurnInv, TurnFacts, WireInv, WireFacts
    <3>4. TurnFacts(t)' /\ WireFacts(t)'
      BY <2>1, <3>1, <3>2 DEF IInv, TurnInv, TurnFacts, WireFacts
    <3> QED
      BY <3>3, <3>4 DEF TurnInv, WireInv
  <2>4. current # 0 => current \in Turns
    BY TurnsFacts DEF IInv, TypeOK
  <2>5. PageInv'
    <3>1. CurrentInv' /\ BusyInv' /\ ScopeIsolated'
      BY <1>8, <2>1, <2>4
         DEF Ignored, IInv, PageInv, CurrentInv, Over, BusyInv, ScopeIsolated, dbVars, pageVars
    <3>2. ShownIsStored'
      BY <1>8 DEF Ignored, IInv, PageInv, ShownIsStored, Stored, Holds, dbVars, pageVars
    <3> QED
      BY <3>1, <3>2 DEF PageInv
  <2> QED
    BY <2>2, <2>3, <2>5 DEF IInv
<1> QED
  BY <1>4, <1>5, <1>6, <1>7, <1>8, <1>9 DEF EventNext
-----------------------------------------------------------------------------
(* The user and the loads.                                                  *)

\* Stored messages stay saved while no message goes; a view of old messages and
\* of none marked saved shows saved ones only.
LEMMA SavedKept ==
  ASSUME ShownIsStored, UNCHANGED messages,
         \A i \in DOMAIN view' : view'[i].saved => i \in DOMAIN view /\ view'[i] = view[i]
  PROVE  ShownIsStored'
BY DEF ShownIsStored, Stored, Holds

\* The turns are untouched.
LEMMA TurnsKept ==
  ASSUME TurnInv, WireInv, UNCHANGED <<dbVars, turn, wire>>
  PROVE  TurnInv' /\ WireInv'
<1>1. \A u \in Turns : (Good(u) <=> Good(u)') /\ (Answered(u) <=> Answered(u)')
                       /\ (Over(u) <=> Over(u)')
  BY DEF Good, Answered, Holds, Over, dbVars
<1> QED
  BY <1>1 DEF TurnInv, TurnFacts, WireInv, WireFacts, dbVars

LEMMA MountStep ==
  ASSUME IInv, NEW s \in Scopes, NEW l \in Loads, Mount(s, l)
  PROVE  IInv'
<1>1. /\ MountLoad(s) \in Load /\ MountLoad(s).pc \in {"idle", "list"} /\ MountLoad(s).kind = "mount"
      /\ StoredSession(s) \in Sessions
      /\ MountLoad(s).pc # "idle" => MountLoad(s).scope = s
      /\ StoredSession(s) = stored[s] \/ StoredSession(s) \in {0, Foreign}
  BY MountLoadType DEF IInv, TypeOK
<1>2. /\ loads' \in [Loads -> Load]
      /\ \A k \in Loads : \/ /\ loads'[k].kind = "mount" /\ loads'[k].pc # "fetch"
                             /\ loads'[k].pc # "idle" => loads'[k].scope = s
                          \/ k # l /\ loads'[k] = loads[k] /\ loads[k].kind # "mount"
  BY <1>1, IdleTypes DEF Mount, IInv, TypeOK
<1>3. TypeOK'
  <2>1. <<>> \in Seq(Shown) /\ 0 \in 0..MaxTurns
    BY TurnsAssumption
  <2> QED
    BY <1>1, <1>2, <2>1 DEF Mount, IInv, TypeOK, dbVars
<1>4. TurnInv' /\ WireInv'
  BY TurnsKept DEF IInv, Mount
<1>5. LoadInv'
  BY <1>2 DEF Mount, IInv, LoadInv, LoadFacts, dbVars
<1>6. ScopeIsolated'
  BY <1>1, TurnsFacts DEF Mount, IInv, PageInv, ScopeIsolated, dbVars
<1>7. ShownIsStored'
  BY SavedKept DEF Mount, IInv, PageInv, dbVars
<1>8. CurrentInv' /\ BusyInv'
  BY DEF Mount, CurrentInv, BusyInv
<1> QED
  BY <1>3, <1>4, <1>5, <1>6, <1>7, <1>8 DEF IInv, PageInv

LEMMA OpenStep ==
  ASSUME IInv, NEW s \in Turns, NEW l \in Loads, OpenSession(s, l)
  PROVE  IInv'
<1> DEFINE new == [NoLoadTask EXCEPT !.pc = "fetch", !.kind = "open", !.scope = scope, !.target = s,
                                    !.found = Exists(s)]
<1>0. Exists(s) \in BOOLEAN
  BY DEF Exists
<1>1. new \in Load /\ new.pc = "fetch" /\ new.kind = "open" /\ new.scope = scope /\ new.target = s
  BY <1>0, IdleTypes, TurnsFacts DEF IInv, TypeOK, Load
<1>2. loads' = [loads EXCEPT ![l] = new]
  BY DEF OpenSession
<1> HIDE DEF new
<1>3. loads' \in [Loads -> Load] /\ loads'[l] = new /\ \A k \in Loads \ {l} : loads'[k] = loads[k]
  BY <1>1, <1>2 DEF IInv, TypeOK
<1>4. TypeOK'
  BY <1>1, <1>3, TurnsAssumption DEF OpenSession, IInv, TypeOK, dbVars, chatVars
<1>5. TurnInv' /\ WireInv'
  BY TurnsKept DEF IInv, OpenSession
<1>6. LoadInv'
  BY <1>1, <1>3 DEF OpenSession, IInv, TypeOK, LoadInv, LoadFacts, dbVars, chatVars
<1>7. CurrentInv' /\ BusyInv' /\ ScopeIsolated'
  BY DEF OpenSession, IInv, PageInv, CurrentInv, Over, BusyInv, ScopeIsolated, dbVars, chatVars
<1>8. ShownIsStored'
  BY SavedKept DEF OpenSession, IInv, PageInv, dbVars, chatVars
<1> QED
  BY <1>4, <1>5, <1>6, <1>7, <1>8 DEF IInv, PageInv

LEMMA NewStep == ASSUME IInv, NewConversation PROVE IInv'
<1>1. TypeOK'
  <2>1. <<>> \in Seq(Shown) /\ 0 \in Sessions
    BY TurnsFacts
  <2>2. stored' \in [Scopes -> Sessions]
    BY <2>1 DEF NewConversation, IInv, TypeOK
  <2> QED
    BY <2>1, <2>2 DEF NewConversation, IInv, TypeOK, dbVars
<1>2. TurnInv' /\ WireInv'
  BY TurnsKept DEF IInv, NewConversation
<1>3. LoadInv'
  BY TurnsAssumption DEF NewConversation, IInv, LoadInv, LoadFacts, dbVars
<1>4. CurrentInv' /\ BusyInv'
  BY DEF NewConversation, IInv, PageInv, CurrentInv, Over, BusyInv
<1>5. ScopeIsolated'
  BY TurnsFacts DEF NewConversation, IInv, TypeOK, PageInv, ScopeIsolated, dbVars
<1>6. ShownIsStored'
  BY SavedKept DEF NewConversation, IInv, PageInv, dbVars
<1> QED
  BY <1>1, <1>2, <1>3, <1>4, <1>5, <1>6 DEF IInv, PageInv

LEMMA SeqOfFunction ==
  ASSUME NEW S, NEW n \in Nat, NEW f \in [1..n -> S]
  PROVE  f \in Seq(S) /\ Len(f) = n
OBVIOUS

\* The question and the answer to come are shown last, neither saved.
LEMMA AskStep == ASSUME IInv, NEW t \in Turns, Ask(t) PROVE IInv'
<1> DEFINE q == [NoTurn EXCEPT !.pc = "request", !.scope = scope, !.session = session]
           two == [i \in 1..2 |->
             [role |-> <<"user", "assistant">>[i], turn |-> t, saved |-> FALSE, error |-> FALSE]]
<1>1. q \in Turn /\ q.pc = "request" /\ q.scope = scope /\ ~q.cut
  BY IdleTypes DEF IInv, TypeOK, Turn, NoTurn
<1>2. turn' = [turn EXCEPT ![t] = q] /\ view' = view \o two
  BY DEF Ask
<1>3. /\ \A i \in 1..2 : two[i] \in Shown /\ two[i].saved = FALSE /\ two[i].turn = t
      /\ two[2].role = "assistant"
  BY DEF Shown
<1>4. two \in Seq(Shown) /\ Len(two) = 2
  <2>1. two \in [1..2 -> Shown] /\ 2 \in Nat
    BY <1>3
  <2> HIDE DEF two
  <2> QED
    BY <2>1, SeqOfFunction
<1> HIDE DEF q, two
<1>5. /\ turn' \in [Turns -> Turn] /\ turn'[t] = q /\ \A u \in Turns \ {t} : turn'[u] = turn[u]
  BY <1>1, <1>2 DEF IInv, TypeOK
<1>6. /\ view' \in Seq(Shown) /\ Len(view') = Len(view) + 2 /\ Len(view) \in Nat
      /\ \A i \in 1..Len(view) : view'[i] = view[i]
      /\ \A i \in DOMAIN view' : i \notin DOMAIN view => i - Len(view) \in 1..2 /\ view'[i] = two[i - Len(view)]
      /\ view'[Len(view')] = two[2]
  <2>1. view \in Seq(Shown) /\ DOMAIN view = 1..Len(view)
    BY DEF IInv, TypeOK
  <2>2. /\ view' \in Seq(Shown) /\ Len(view') = Len(view) + Len(two) /\ Len(view) \in Nat
        /\ DOMAIN view' = 1..(Len(view) + Len(two))
        /\ \A i \in 1..Len(view) : view'[i] = view[i]
        /\ \A i \in 1..(Len(view) + Len(two)) : i > Len(view) => view'[i] = two[i - Len(view)]
    <3>1. view' = view \o two /\ view \in Seq(Shown) /\ two \in Seq(Shown)
      BY <1>2, <1>4, <2>1
    <3>2. /\ view \o two \in Seq(Shown) /\ Len(view \o two) = Len(view) + Len(two)
          /\ Len(view) \in Nat /\ DOMAIN (view \o two) = 1..(Len(view) + Len(two))
      BY <3>1
    <3>3. \A i \in 1..(Len(view) + Len(two)) :
            (view \o two)[i] = IF i <= Len(view) THEN view[i] ELSE two[i - Len(view)]
      BY <3>1
    <3>4. \A i \in 1..Len(view) : i \in 1..(Len(view) + Len(two)) /\ i <= Len(view)
      BY <1>4, <3>2
    <3>5. \A i \in 1..(Len(view) + Len(two)) : i > Len(view) => ~(i <= Len(view))
      BY <1>4, <3>2
    <3> QED
      BY <3>1, <3>2, <3>3, <3>4, <3>5
  <2>3. \A i \in DOMAIN view' : i \notin DOMAIN view =>
          i - Len(view) \in 1..2 /\ view'[i] = two[i - Len(view)]
    BY <1>4, <2>1, <2>2
  <2>4. view'[Len(view) + 2] = two[(Len(view) + 2) - Len(view)] /\ (Len(view) + 2) - Len(view) = 2
    BY <1>4, <2>2
  <2> QED
    BY <1>4, <2>2, <2>3, <2>4
<1>7. turn[t].pc = "none" /\ wire[t] = <<>> /\ scopeOf[t] = {} /\ t # 0
  BY TurnsFacts DEF Ask, IInv, TurnInv, TurnFacts
<1>8. TypeOK'
  BY <1>5, <1>6, TurnsFacts DEF Ask, IInv, TypeOK, dbVars
<1>9. TurnInv' /\ WireInv'
  <2>1. ASSUME NEW u \in Turns, u # t
        PROVE (Good(u) <=> Good(u)') /\ (Answered(u) <=> Answered(u)') /\ (Over(u) <=> Over(u)')
    <3>1. turn'[u] = turn[u] /\ UNCHANGED <<scopeOf, messages>>
      BY <1>5, <2>1 DEF Ask, dbVars
    <3> QED
      BY <3>1 DEF Good, Answered, Holds, Over
  <2>2. TurnFacts(t)' /\ WireFacts(t)'
    BY <1>1, <1>5, <1>7 DEF Ask, TurnFacts, WireFacts, Entered, dbVars
  <2>3. ASSUME NEW u \in Turns, u # t PROVE TurnFacts(u)' /\ WireFacts(u)'
    BY <1>5, <2>1, <2>3 DEF Ask, IInv, TurnInv, TurnFacts, WireInv, WireFacts, dbVars
  <2> QED
    BY <2>2, <2>3 DEF TurnInv, WireInv
<1>10. LoadInv'
  BY TurnsAssumption DEF Ask, IInv, LoadInv, LoadFacts, dbVars
<1>11. CurrentInv' /\ BusyInv'
  BY <1>1, <1>3, <1>5, <1>6, <1>7 DEF Ask, CurrentInv, BusyInv
<1>12. ScopeIsolated'
  BY DEF Ask, IInv, PageInv, ScopeIsolated, dbVars
<1>13. ShownIsStored'
  <2>1. \A i \in DOMAIN view' : view'[i].saved => i \in DOMAIN view /\ view'[i] = view[i]
    BY <1>3, <1>6
  <2> QED
    BY <2>1, SavedKept DEF Ask, IInv, PageInv, dbVars
<1> QED
  BY <1>8, <1>9, <1>10, <1>11, <1>12, <1>13 DEF IInv, PageInv

LEMMA LoadStep == ASSUME IInv, NEW l \in Loads, LoadNext(l) PROVE IInv'
<1>1. UNCHANGED <<dbVars, turn, wire, scope, busy, current, latest>>
  BY DEF LoadNext, ForgetSession, FetchHistory, EndOfList, ReceiveHistory, LoadFails, chatVars
<1>2. TurnInv' /\ WireInv'
  BY <1>1, TurnsKept DEF IInv
<1>3. CurrentInv'
  BY <1>1 DEF IInv, PageInv, CurrentInv, Over
<1>4. loads \in [Loads -> Load] /\ loads[l] \in Load /\ LoadFacts(l) /\ l # NoLoad
  BY TurnsAssumption DEF IInv, TypeOK, LoadInv
<1>5. ASSUME SetLoad(l, NoLoadTask), EndLoading(l)
      PROVE  /\ LoadInv' /\ loads' \in [Loads -> Load] /\ loading' \in BOOLEAN
             /\ loading' => latest # NoLoad /\ loads'[latest].pc = "fetch"
  <2>1. loads' \in [Loads -> Load] /\ loads'[l] = NoLoadTask /\ \A k \in Loads \ {l} : loads'[k] = loads[k]
    BY <1>4, <1>5, IdleTypes DEF SetLoad
  <2>2. LoadInv'
    BY <1>1, <2>1, IdleTypes DEF IInv, LoadInv, LoadFacts, dbVars
  <2>3. loading' \in BOOLEAN /\ (loading' => loading /\ latest # l)
    BY <1>5 DEF EndLoading, IInv, TypeOK
  <2> QED
    BY <2>1, <2>2, <2>3 DEF IInv, TypeOK
<1>6. ASSUME UNCHANGED <<view, session, stored>> PROVE BusyInv' /\ ScopeIsolated' /\ ShownIsStored'
  <2>1. BusyInv' /\ ScopeIsolated'
    BY <1>1, <1>6 DEF IInv, PageInv, BusyInv, ScopeIsolated, dbVars
  <2> QED
    BY <1>1, <1>6, <2>1, SavedKept DEF IInv, PageInv, dbVars
<1>7. CASE ForgetSession(l)
  <2>1. TypeOK' /\ LoadInv'
    BY <1>1, <1>4, <1>5, <1>7, TurnsFacts DEF ForgetSession, IInv, TypeOK, Load, dbVars
  <2>2. BusyInv'
    BY <1>1, <1>7 DEF ForgetSession, IInv, PageInv, BusyInv
  <2>3. ScopeIsolated'
    BY <1>1, <1>4, <1>7, TurnsFacts DEF ForgetSession, IInv, TypeOK, Load, PageInv, ScopeIsolated, dbVars
  <2>4. ShownIsStored'
    BY <1>1, <1>7, SavedKept DEF ForgetSession, IInv, PageInv, dbVars
  <2> QED
    BY <1>2, <1>3, <2>1, <2>2, <2>3, <2>4 DEF IInv, PageInv
<1>8. CASE FetchHistory(l)
  <2> DEFINE new == [loads[l] EXCEPT !.pc = "fetch", !.found = Exists(loads[l].target)]
  <2>0. Exists(loads[l].target) \in BOOLEAN
    BY DEF Exists
  <2>1. new \in Load /\ new.pc = "fetch" /\ new.kind = "mount" /\ new.target \in Turns
        /\ new.scope \in Scopes
    BY <1>4, <1>8, <2>0 DEF FetchHistory, Listed, OfScope, LoadFacts, Load
  <2>2. loads' = [loads EXCEPT ![l] = new] /\ loading' = TRUE /\ latest = l
    BY <1>8 DEF FetchHistory, SetLoad
  <2> HIDE DEF new
  <2>3. loads' \in [Loads -> Load] /\ loads'[l] = new /\ \A k \in Loads \ {l} : loads'[k] = loads[k]
    BY <1>4, <2>1, <2>2
  <2>4. UNCHANGED <<view, session, stored>>
    BY <1>8 DEF FetchHistory, chatVars
  <2>5. TypeOK'
    BY <1>1, <1>4, <2>1, <2>2, <2>3, <2>4 DEF IInv, TypeOK, dbVars
  <2>6. LoadInv'
    BY <1>1, <2>1, <2>3 DEF IInv, LoadInv, LoadFacts, dbVars
  <2> QED
    BY <1>2, <1>3, <1>6, <2>4, <2>5, <2>6 DEF IInv, PageInv
<1>9. CASE EndOfList(l) \/ LoadFails(l)
  <2>1. SetLoad(l, NoLoadTask) /\ EndLoading(l) /\ UNCHANGED <<view, session, stored>>
    BY <1>9 DEF EndOfList, LoadFails, chatVars
  <2>2. TypeOK' /\ LoadInv'
    BY <1>1, <1>5, <2>1 DEF IInv, TypeOK, dbVars
  <2> QED
    BY <1>2, <1>3, <1>6, <2>1, <2>2 DEF IInv, PageInv
<1>10. CASE ReceiveHistory(l) /\ l # latest
  <2>1. SetLoad(l, NoLoadTask) /\ EndLoading(l) /\ UNCHANGED <<view, session, stored>>
    BY <1>10 DEF ReceiveHistory
  <2>2. TypeOK' /\ LoadInv'
    BY <1>1, <1>5, <2>1 DEF IInv, TypeOK, dbVars
  <2> QED
    BY <1>2, <1>3, <1>6, <2>1, <2>2 DEF IInv, PageInv
<1>11. CASE ReceiveHistory(l) /\ l = latest
  <2> DEFINE s == loads[l].target
  <2>1. s \in Turns /\ ~busy /\ SetLoad(l, NoLoadTask) /\ EndLoading(l) /\ view' \in Histories(s)
    BY <1>4, <1>11 DEF ReceiveHistory, LoadFacts, IInv, PageInv, BusyInv
  <2> HIDE DEF s
  <2>2. PICK k \in 0..Len(messages[s]) :
          view' = [i \in 1..k |-> [role |-> messages[s][i].role, turn |-> messages[s][i].turn,
                                   saved |-> TRUE, error |-> FALSE]]
    BY <2>1 DEF Histories
  <2>3. messages[s] \in Seq(Message) /\ Len(messages[s]) \in Nat
    BY <2>1 DEF IInv, TypeOK
  <2>4. \A i \in 1..k : messages[s][i] \in Message /\ i \in DOMAIN messages[s]
    BY <2>3
  <2>5. view' \in Seq(Shown)
    <3>1. \A i \in 1..k : [role |-> messages[s][i].role, turn |-> messages[s][i].turn,
                           saved |-> TRUE, error |-> FALSE] \in Shown
      BY <2>4 DEF Message, Shown
    <3>2. view' \in [1..k -> Shown] /\ k \in Nat
      BY <2>2, <2>3, <3>1
    <3> QED
      BY <3>2
  <2>6. ShownIsStored'
    <3>1. ASSUME NEW i \in DOMAIN view' PROVE Stored(view'[i])
      <4>1. i \in 1..k /\ view'[i].role = messages[s][i].role /\ view'[i].turn = messages[s][i].turn
        BY <2>2, <3>1
      <4>2. messages[s][i] = [role |-> view'[i].role, turn |-> view'[i].turn]
        BY <2>4, <4>1 DEF Message
      <4> QED
        BY <2>1, <2>4, <4>1, <4>2 DEF Stored, Holds
    <3> QED
      BY <1>1, <3>1 DEF ShownIsStored, Stored, Holds, dbVars
  <2>7. \/ loads[l].kind = "open" /\ session' = s /\ stored' = [stored EXCEPT ![scope] = s]
           /\ scopeOf[s] = {scope}
        \/ UNCHANGED <<session, stored>>
    BY <1>4, <1>11 DEF ReceiveHistory, LoadFacts, s
  <2>8. ScopeIsolated'
    BY <1>1, <2>1, <2>7 DEF IInv, TypeOK, PageInv, ScopeIsolated, dbVars
  <2>9. TypeOK' /\ LoadInv'
    BY <1>1, <1>5, <2>1, <2>5, <2>7, TurnsFacts DEF IInv, TypeOK, dbVars
  <2>10. BusyInv'
    BY <1>1, <2>1 DEF BusyInv
  <2> QED
    BY <1>2, <1>3, <2>6, <2>8, <2>9, <2>10 DEF IInv, PageInv
<1> QED
  BY <1>7, <1>8, <1>9, <1>10, <1>11 DEF LoadNext
-----------------------------------------------------------------------------
\* A material goes: the sessions are remembered with their scope, and the rows
\* that are there are told by Exists.
LEMMA DeleteStep == ASSUME IInv, NEW m \in Scopes, DeleteMaterial(m) PROVE IInv'
<1>1. /\ UNCHANGED <<scopeOf, messages, turn, wire, pageVars, loads>>
      /\ materials' \subseteq Scopes
  BY DEF DeleteMaterial, IInv, TypeOK
<1>2. \A u \in Turns : (Good(u) <=> Good(u)') /\ (Answered(u) <=> Answered(u)')
                       /\ (Over(u) <=> Over(u)')
  BY <1>1 DEF Good, Answered, Holds, Over
<1>3. TypeOK' /\ LoadInv'
  BY <1>1 DEF IInv, TypeOK, LoadInv, LoadFacts, pageVars
<1>4. TurnInv' /\ WireInv'
  BY <1>1, <1>2 DEF IInv, TurnInv, TurnFacts, WireInv, WireFacts
<1>5. CurrentInv' /\ BusyInv' /\ ScopeIsolated'
  BY <1>1 DEF IInv, PageInv, CurrentInv, Over, BusyInv, ScopeIsolated, pageVars
<1>6. ShownIsStored'
  BY <1>1 DEF IInv, PageInv, ShownIsStored, Stored, Holds, pageVars
<1> QED
  BY <1>3, <1>4, <1>5, <1>6 DEF IInv, PageInv

LEMMA IInvNext == ASSUME IInv, [Next]_vars PROVE IInv'
<1>1. CASE Next
  <2>1. ASSUME NEW t \in Turns, EventNext(t) \/ HandlerNext(t) \/ Break(t) PROVE IInv'
    BY <2>1, EventStep, HandlerNextStep, BreakStep
  <2>2. ASSUME UserNext PROVE IInv'
    BY <2>2, MountStep, OpenStep, NewStep, AskStep DEF UserNext
  <2> QED
    BY <1>1, <2>1, <2>2, LoadStep, DeleteStep DEF Next
<1>2. CASE UNCHANGED vars
  <2>1. UNCHANGED <<dbVars, turn, wire>> /\ UNCHANGED <<messages, view>>
    BY <1>2 DEF vars, dbVars
  <2>2. TurnInv' /\ WireInv'
    BY <2>1, TurnsKept DEF IInv
  <2>3. TypeOK' /\ LoadInv'
    BY <1>2 DEF vars, IInv, TypeOK, LoadInv, LoadFacts
  <2>4. CurrentInv' /\ BusyInv' /\ ScopeIsolated'
    BY <1>2 DEF vars, IInv, PageInv, CurrentInv, Over, BusyInv, ScopeIsolated
  <2>5. ShownIsStored'
    BY <2>1, SavedKept DEF IInv, PageInv
  <2> QED
    BY <2>2, <2>3, <2>4, <2>5 DEF IInv, PageInv
<1> QED
  BY <1>1, <1>2

\* The inductive invariant holds in every reachable state.
THEOREM Invariant == Spec => []IInv
BY IInvInit, IInvNext, PTL DEF Spec

\* Type correctness, for any number of questions, scopes and loads.
THEOREM TypeCorrect == Spec => []TypeOK
<1>1. IInv => TypeOK
  BY DEF IInv
<1> QED
  BY <1>1, Invariant, PTL

\* Neither the session the page continues nor one the browser stores for a
\* scope belongs to another scope, whatever answers, lists and histories
\* arrive late (Companion.tsx adopts them in callbacks).
THEOREM ScopesAreIsolated == Spec => []ScopeIsolated
<1>1. IInv => ScopeIsolated
  BY DEF IInv, PageInv
<1> QED
  BY <1>1, Invariant, PTL

-----------------------------------------------------------------------------
(* What is stored, and where.                                               *)

\* A message is in a session of the scope its question was asked in.
MessageFacts(s) ==
  \A i \in DOMAIN messages[s] :
    LET t == messages[s][i].turn
    IN  turn[t].pc # "none" /\ scopeOf[s] = {turn[t].scope}

MessageInv == \A s \in Turns : MessageFacts(s)

\* A message is about a question.
LEMMA MessageTurn ==
  ASSUME messages \in [Turns -> Seq(Message)], NEW s \in Turns, NEW i \in DOMAIN messages[s]
  PROVE  messages[s][i].turn \in Turns
<1>1. messages[s] \in Seq(Message)
  OBVIOUS
<1>2. DOMAIN messages[s] = 1..Len(messages[s])
      /\ \A j \in 1..Len(messages[s]) : messages[s][j] \in Message
  BY <1>1
<1>3. messages[s][i] \in Message
  BY <1>2
<1> QED
  BY <1>3 DEF Message

LEMMA MessageKept ==
  ASSUME IInv, MessageInv, UNCHANGED <<scopeOf, messages>>,
         \A t \in Turns : turn[t].pc # "none" =>
           turn'[t].pc # "none" /\ turn'[t].scope = turn[t].scope
  PROVE  MessageInv'
<1>1. ASSUME NEW s \in Turns, NEW i \in DOMAIN messages[s] PROVE messages[s][i].turn \in Turns
  BY <1>1, MessageTurn DEF IInv, TypeOK
<1> QED
  BY <1>1 DEF MessageInv, MessageFacts

\* A message that is appended is about the turn whose session it joins.
LEMMA MessageAppended ==
  ASSUME IInv, MessageInv, NEW t \in Turns, turn[t].pc # "none", Good(t),
         NEW role \in {"user", "assistant"}, AppendMessage(turn[t].session, role, t),
         UNCHANGED scopeOf, NEW to, to # "none", turn' = [turn EXCEPT ![t].pc = to]
  PROVE  MessageInv'
<1> DEFINE m == [role |-> role, turn |-> t]
<1>0. PICK s \in Turns : s = turn[t].session
  BY DEF Good
<1>1. m \in Message /\ messages \in [Turns -> Seq(Message)]
      /\ turn \in [Turns -> Turn] /\ scopeOf[s] = {turn[t].scope} /\ m.turn = t
  BY <1>0 DEF Good, Message, IInv, TypeOK
<1>2. messages' = [messages EXCEPT ![s] = Append(messages[s], m)]
  BY <1>0 DEF AppendMessage
<1>3. \A u \in Turns : turn'[u].scope = turn[u].scope /\ (turn[u].pc # "none" => turn'[u].pc # "none")
  BY <1>1 DEF Turn
<1>4. \A u \in Turns : \A i \in DOMAIN messages[u] : messages[u][i].turn \in Turns
  BY <1>1, MessageTurn
<1> HIDE DEF m
<1>5. ASSUME NEW u \in Turns, u # s PROVE MessageFacts(u)'
  <2>1. messages'[u] = messages[u] /\ messages[u] \in Seq(Message)
    BY <1>1, <1>2, <1>5
  <2> QED
    BY <1>3, <1>4, <2>1 DEF MessageInv, MessageFacts
<1>6. MessageFacts(s)'
  <2>1. /\ messages[s] \in Seq(Message) /\ Len(messages[s]) \in Nat
        /\ messages'[s] = Append(messages[s], m)
    BY <1>1, <1>2
  <2>2. /\ DOMAIN messages'[s] = 1..(Len(messages[s]) + 1)
        /\ messages'[s][Len(messages[s]) + 1] = m
        /\ \A i \in 1..Len(messages[s]) : messages'[s][i] = messages[s][i]
    BY <1>1, <2>1
  <2>3. ASSUME NEW i \in DOMAIN messages'[s]
        PROVE  /\ turn'[messages'[s][i].turn].pc # "none"
               /\ scopeOf'[s] = {turn'[messages'[s][i].turn].scope}
    <3>1. CASE i = Len(messages[s]) + 1
      BY <1>1, <1>3, <2>2, <3>1
    <3>2. CASE i # Len(messages[s]) + 1
      <4>1. i \in 1..Len(messages[s]) /\ i \in DOMAIN messages[s] /\ i \in Nat
        BY <2>1, <2>2, <2>3, <3>2
      <4>2. messages'[s][i] = messages[s][i] /\ messages[s][i].turn \in Turns
        BY <1>1, <1>4, <2>2, <4>1
      <4> QED
        BY <1>1, <1>3, <4>1, <4>2 DEF MessageInv, MessageFacts
    <3> QED
      BY <3>1, <3>2
  <2> QED
    BY <2>3 DEF MessageFacts
<1> QED
  BY <1>5, <1>6 DEF MessageInv

LEMMA MessageHandler ==
  ASSUME IInv, MessageInv, NEW t \in Turns, HandlerNext(t)
  PROVE  MessageInv'
<1>1. turn \in [Turns -> Turn]
  BY DEF IInv, TypeOK
<1>2. CASE EnterSession(t)
  <2>1. /\ \A u \in Turns : turn'[u].scope = turn[u].scope /\ (turn[u].pc # "none" => turn'[u].pc # "none")
        /\ UNCHANGED messages
    BY <1>1, <1>2 DEF EnterSession, Turn
  <2>2. CASE UNCHANGED scopeOf
    BY <2>1, <2>2, MessageKept
  <2>3. CASE scopeOf' = [scopeOf EXCEPT ![t] = {turn[t].scope}]
    <3>1. scopeOf[t] = {} /\ scopeOf \in [Turns -> {{}} \cup {{x} : x \in Scopes}]
      BY <1>2 DEF EnterSession, IInv, TypeOK, TurnInv, TurnFacts
    <3>2. messages \in [Turns -> Seq(Message)]
      BY DEF IInv, TypeOK
    <3>3. \A i \in DOMAIN messages[t] : FALSE
      BY <3>1 DEF MessageInv, MessageFacts
    <3>4. ASSUME NEW s \in Turns \ {t} PROVE MessageFacts(s)'
      <4>1. scopeOf'[s] = scopeOf[s] /\ messages[s] \in Seq(Message)
        BY <2>3, <3>1, <3>2
      <4>2. \A i \in DOMAIN messages[s] : messages[s][i].turn \in Turns
        BY <3>2, MessageTurn
      <4> QED
        BY <2>1, <4>1, <4>2 DEF MessageInv, MessageFacts
    <3>5. MessageFacts(t)'
      BY <2>1, <3>3 DEF MessageFacts
    <3> QED
      BY <3>4, <3>5 DEF MessageInv
  <2> QED
    BY <1>2, <2>2, <2>3 DEF EnterSession
<1>3. CASE HandlerNext(t) /\ ~EnterSession(t)
  <2>1. PICK to \in {"call", "stream", "save", "saved", "failed", "closed"} :
          turn' = [turn EXCEPT ![t].pc = to]
    BY <1>3 DEF HandlerNext, StoreQuestion, StartStream, AgentAnswers, AgentFails,
         StoreAnswer, StoreAnswerFails, Finish, Refuse, Abandon, Goes
  <2>2. UNCHANGED scopeOf
    BY <1>3 DEF HandlerNext, StoreQuestion, StartStream, AgentAnswers, AgentFails,
         StoreAnswer, StoreAnswerFails, Finish, Refuse, Abandon, dbVars
  <2>3. \/ UNCHANGED messages
        \/ turn[t].pc \in Entered /\ \E role \in {"user", "assistant"} :
             AppendMessage(turn[t].session, role, t)
    BY <1>3 DEF HandlerNext, StoreQuestion, StartStream, AgentAnswers, AgentFails,
         StoreAnswer, StoreAnswerFails, Finish, Refuse, Abandon, dbVars, Goes, Entered
  <2>4. CASE UNCHANGED messages
    <3>1. \A u \in Turns : turn'[u].scope = turn[u].scope /\ (turn[u].pc # "none" => turn'[u].pc # "none")
      BY <1>1, <2>1 DEF Turn
    <3> QED
      BY <2>2, <2>4, <3>1, MessageKept
  <2>5. CASE turn[t].pc \in Entered /\ \E role \in {"user", "assistant"} :
               AppendMessage(turn[t].session, role, t)
    <3>1. Good(t) /\ turn[t].pc # "none" /\ to # "none"
      BY <2>1, <2>5 DEF IInv, TurnInv, TurnFacts, Entered
    <3> QED
      BY <2>1, <2>2, <2>5, <3>1, MessageAppended
  <2> QED
    BY <2>3, <2>4, <2>5
<1> QED
  BY <1>2, <1>3

LEMMA MessageNext == ASSUME IInv, MessageInv, [Next]_vars PROVE MessageInv'
<1>1. turn \in [Turns -> Turn]
  BY DEF IInv, TypeOK
<1>2. ASSUME NEW t \in Turns, HandlerNext(t) PROVE MessageInv'
  BY <1>2, MessageHandler
<1>3. ASSUME NEW t \in Turns, Ask(t) PROVE MessageInv'
  <2>1. /\ turn[t].pc = "none" /\ \A u \in Turns \ {t} : turn'[u] = turn[u]
        /\ UNCHANGED <<scopeOf, messages>>
    BY <1>1, <1>3 DEF Ask, dbVars
  <2> QED
    BY <2>1, MessageKept
<1>4. ASSUME NEW t \in Turns, Break(t) PROVE MessageInv'
  <2>1. /\ UNCHANGED <<scopeOf, messages>>
        /\ \A u \in Turns : turn'[u].pc = turn[u].pc /\ turn'[u].scope = turn[u].scope
    BY <1>1, <1>4 DEF Break, dbVars, Turn
  <2> QED
    BY <2>1, MessageKept
<1>5. ASSUME UNCHANGED <<scopeOf, messages, turn>> PROVE MessageInv'
  BY <1>5, MessageKept
<1>6. ASSUME NEW t \in Turns, EventNext(t) PROVE MessageInv'
  BY <1>5, <1>6 DEF EventNext, OnMeta, OnDone, DropDone, OnError, OnEnd, Ignored, dbVars
<1>7. ASSUME NEW l \in Loads, LoadNext(l) PROVE MessageInv'
  BY <1>5, <1>7 DEF LoadNext, ForgetSession, FetchHistory, EndOfList, ReceiveHistory, LoadFails, dbVars
<1>8. CASE UserNext /\ ~(\E t \in Turns : Ask(t))
  <2>1. ASSUME NEW l \in Loads, NEW s \in Scopes, Mount(s, l) PROVE MessageInv'
    BY <1>5, <2>1 DEF Mount, dbVars
  <2>2. ASSUME NEW l \in Loads, NEW s \in Turns, OpenSession(s, l) PROVE MessageInv'
    BY <1>5, <2>2 DEF OpenSession, dbVars
  <2>3. CASE NewConversation
    BY <1>5, <2>3 DEF NewConversation, dbVars
  <2> QED
    BY <1>8, <2>1, <2>2, <2>3 DEF UserNext
<1>9. CASE (\E m \in Scopes : DeleteMaterial(m)) \/ UNCHANGED vars
  BY <1>5, <1>9 DEF DeleteMaterial, vars
<1> QED
  BY <1>2, <1>3, <1>4, <1>6, <1>7, <1>8, <1>9 DEF Next

\* What the page shows as saved, and offers for feedback, is in the database as
\* long as the material of its question exists, however the turn ended and
\* whatever other materials are deleted.
THEOREM DoneIsStored == Spec => []DoneIsSaved
<1>1. Init => MessageInv
  BY DEF Init, MessageInv, MessageFacts
<1>2. IInv /\ MessageInv /\ [Next]_vars => MessageInv'
  BY MessageNext
<1>3. IInv /\ MessageInv => DoneIsSaved
  <2> SUFFICES ASSUME IInv, MessageInv, NEW i \in DOMAIN view, view[i].saved,
                      turn[view[i].turn].scope \in materials
               PROVE  Saved(view[i])
    BY DEF DoneIsSaved
  <2>1. PICK s \in Turns : Holds(s, view[i])
    BY DEF IInv, PageInv, ShownIsStored, Stored
  <2>2. PICK j \in DOMAIN messages[s] :
          messages[s][j] = [role |-> view[i].role, turn |-> view[i].turn]
    BY <2>1 DEF Holds
  <2>3. scopeOf[s] = {turn[view[i].turn].scope}
    BY <2>2 DEF MessageInv, MessageFacts
  <2> QED
    BY <2>1, <2>3 DEF Saved, Exists
<1> QED
  BY <1>1, <1>2, <1>3, Invariant, PTL DEF Spec
-----------------------------------------------------------------------------
(* One conversation, in a browser no earlier account has used.  While the   *)
(* page is busy, its turn is of the session it shows, or the page has none; *)
(* and a history that will be shown is of the session the page has or takes *)
(* with it.  Saved messages on a page without a session are of one that was *)
(* forgotten, and then the material is gone: the next question makes no     *)
(* session that would be shown below them.                                  *)

OneAccount == LeftOver = {} /\ KeepsLegacy = FALSE

OwnSessions ==
  /\ session # Foreign /\ \A s \in Scopes : stored[s] # Foreign
  /\ \A t \in Turns : turn[t].session # Foreign

NothingSaved == \A i \in DOMAIN view : ~view[i].saved
ShowsOnly(s) == \A i \in DOMAIN view : view[i].saved => Holds(s, view[i])

ListInv ==
  \A l \in Loads : loads[l].pc = "list" =>
    /\ loads[l].scope = scope
    /\ loads[l].target \in Turns /\ scopeOf[loads[l].target] = {scope}

LatestInv ==
  \A l \in Loads : l = latest /\ loads[l].kind = "mount" /\ loads[l].pc # "idle" =>
    loads[l].target = session \/ (session = 0 /\ scope \notin materials)

AskedInv ==
  busy =>
    /\ session \in {0, turn[current].session}
    /\ turn[current].session \in Turns => ShowsOnly(turn[current].session)
    /\ turn[current].session = 0 /\ scope \in materials => NothingSaved

FreshInv == session = 0 /\ scope \in materials => NothingSaved

CleanInv == OwnSessions /\ ListInv /\ LatestInv /\ AskedInv /\ FreshInv /\ OneConversation

\* No message of a question that is asked is shown as saved.
LEMMA AskShows ==
  ASSUME view \in Seq(Shown), NEW t \in Turns, Ask(t)
  PROVE  \A i \in DOMAIN view' : view'[i].saved => i \in DOMAIN view /\ view'[i] = view[i]
<1> DEFINE two == [i \in 1..2 |->
             [role |-> <<"user", "assistant">>[i], turn |-> t, saved |-> FALSE, error |-> FALSE]]
<1>1. view' = view \o two
  BY DEF Ask
<1>2. \A i \in 1..2 : two[i] \in Shown /\ two[i].saved = FALSE
  BY DEF Shown
<1>3. two \in Seq(Shown) /\ Len(two) = 2
  <2>1. two \in [1..2 -> Shown] /\ 2 \in Nat
    BY <1>2
  <2> HIDE DEF two
  <2> QED
    BY <2>1, SeqOfFunction
<1> HIDE DEF two
<1>4. /\ Len(view) \in Nat /\ DOMAIN view = 1..Len(view)
      /\ DOMAIN view' = 1..(Len(view) + 2)
      /\ \A i \in 1..(Len(view) + 2) :
           view'[i] = IF i <= Len(view) THEN view[i] ELSE two[i - Len(view)]
  <2>1. view' = view \o two /\ view \in Seq(Shown) /\ two \in Seq(Shown)
    BY <1>1, <1>3
  <2>2. /\ Len(view) \in Nat /\ DOMAIN view = 1..Len(view)
        /\ DOMAIN (view \o two) = 1..(Len(view) + Len(two))
    BY <2>1
  <2>3. \A i \in 1..(Len(view) + Len(two)) :
          (view \o two)[i] = IF i <= Len(view) THEN view[i] ELSE two[i - Len(view)]
    BY <2>1
  <2> QED
    BY <1>3, <2>1, <2>2, <2>3
<1>5. \A i \in DOMAIN view' : i \notin DOMAIN view => ~view'[i].saved
  <2>1. ASSUME NEW i \in DOMAIN view', i \notin DOMAIN view
        PROVE  i - Len(view) \in 1..2 /\ view'[i] = two[i - Len(view)]
    BY <1>4, <2>1
  <2> QED
    BY <1>2, <2>1
<1> QED
  BY <1>4, <1>5

\* A history that arrives is of messages of its session.
LEMMA HistoryHolds ==
  ASSUME messages \in [Turns -> Seq(Message)], NEW s \in Turns, NEW v \in Histories(s)
  PROVE  \A i \in DOMAIN v : Holds(s, v[i])
<1>1. PICK k \in 0..Len(messages[s]) :
        v = [i \in 1..k |-> [role |-> messages[s][i].role, turn |-> messages[s][i].turn,
                             saved |-> TRUE, error |-> FALSE]]
  BY DEF Histories
<1>2. messages[s] \in Seq(Message) /\ Len(messages[s]) \in Nat
  OBVIOUS
<1>3. \A i \in 1..k : messages[s][i] \in Message /\ i \in DOMAIN messages[s]
  BY <1>2
<1>4. ASSUME NEW i \in DOMAIN v PROVE Holds(s, v[i])
  <2>1. i \in 1..k /\ v[i].role = messages[s][i].role /\ v[i].turn = messages[s][i].turn
    BY <1>1, <1>4
  <2>2. messages[s][i] = [role |-> v[i].role, turn |-> v[i].turn]
    BY <1>3, <2>1 DEF Message
  <2> QED
    BY <1>3, <2>1, <2>2 DEF Holds
<1> QED
  BY <1>4

\* The session a page starts with when it opens, and its load.
LEMMA CleanMount ==
  ASSUME OneAccount, IInv, NEW s \in Scopes, stored[s] # Foreign
  PROVE  /\ StoredSession(s) = stored[s] /\ stored[s] \in {0} \cup Turns
         /\ MountLoad(s).pc # "idle" =>
              /\ MountLoad(s).pc = "list" /\ MountLoad(s).scope = s
              /\ MountLoad(s).target = stored[s]
              /\ stored[s] \in Turns /\ scopeOf[stored[s]] = {s}
<1>1. StoredSession(s) = stored[s]
  BY DEF StoredSession, OneAccount
<1>2. stored[s] \in {0} \cup Turns
  BY TurnsAssumption DEF IInv, TypeOK, Sessions, Turns, Foreign
<1>3. stored[s] \in Turns => scopeOf[stored[s]] = {s}
  BY DEF IInv, PageInv, ScopeIsolated
<1>4. CASE stored[s] = 0
  BY <1>1, <1>2, <1>3, <1>4, IdleTypes DEF MountLoad
<1>5. CASE stored[s] # 0
  <2>1. MountLoad(s) = [NoLoadTask EXCEPT !.pc = "list", !.scope = s, !.target = stored[s],
                                          !.found = Exists(stored[s])]
    BY <1>1, <1>5 DEF MountLoad
  <2>2. MountLoad(s).pc = "list" /\ MountLoad(s).scope = s /\ MountLoad(s).target = stored[s]
    BY <2>1 DEF NoLoadTask
  <2> QED
    BY <1>1, <1>2, <1>3, <1>5, <2>2
<1> QED
  BY <1>4, <1>5

LEMMA CleanInit == ASSUME OneAccount, Init PROVE CleanInv
<1>1. /\ stored = [s \in Scopes |-> 0] /\ session = StoredSession(scope) /\ scope \in Scopes
      /\ view = <<>> /\ busy = FALSE /\ turn = [t \in Turns |-> NoTurn]
  BY TurnsAssumption DEF Init, OneAccount
<1>2. StoredSession(scope) = 0 /\ MountLoad(scope) = NoLoadTask
  BY <1>1 DEF StoredSession, MountLoad, OneAccount
<1>3. \A l \in Loads : loads[l] = NoLoadTask
  BY <1>2 DEF Init
<1>4. 0 # Foreign /\ NoTurn.session = 0 /\ NoLoadTask.pc = "idle"
  BY TurnsAssumption DEF Foreign, NoTurn, NoLoadTask
<1>5. OwnSessions
  BY <1>1, <1>2, <1>4 DEF OwnSessions
<1>6. ListInv /\ LatestInv
  BY <1>3, <1>4 DEF ListInv, LatestInv
<1>7. AskedInv /\ FreshInv /\ OneConversation
  BY <1>1 DEF AskedInv, FreshInv, NothingSaved, OneConversation
<1> QED
  BY <1>5, <1>6, <1>7 DEF CleanInv

\* What a handler, or a connection that breaks, does to the conversations:
\* stored messages stay, sessions keep their scope, and a turn without a
\* session may get its own while the material is there.
LEMMA HandlerSessions ==
  ASSUME IInv, NEW t \in Turns, HandlerNext(t) \/ Break(t)
  PROVE  /\ UNCHANGED <<materials, pageVars, loads>>
         /\ Kept
         /\ \A u \in Turns : \/ turn'[u].session = turn[u].session
                             \/ /\ turn[u].session = 0 /\ turn'[u].session = u
                                /\ turn[u].scope \in materials
         /\ \A u \in Turns, x \in Scopes : scopeOf[u] = {x} => scopeOf'[u] = {x}
<1>1. turn \in [Turns -> Turn] /\ scopeOf \in [Turns -> {{}} \cup {{x} : x \in Scopes}]
  BY DEF IInv, TypeOK
<1>2. UNCHANGED <<materials, pageVars, loads>>
  BY DEF HandlerNext, EnterSession, StoreQuestion, StartStream, AgentAnswers, AgentFails,
         StoreAnswer, StoreAnswerFails, Finish, Refuse, Abandon, Break, dbVars
<1>3. CASE EnterSession(t)
  <2>1. Kept
    BY <1>3, KeptFacts DEF EnterSession
  <2>2. scopeOf[t] = {}
    BY <1>3 DEF EnterSession, IInv, TurnInv, TurnFacts
  <2>3. \A u \in Turns, x \in Scopes : scopeOf[u] = {x} => scopeOf'[u] = {x}
    BY <1>1, <1>3, <2>2 DEF EnterSession
  <2>4. \A u \in Turns : \/ turn'[u].session = turn[u].session
                         \/ /\ turn[u].session = 0 /\ turn'[u].session = u
                            /\ turn[u].scope \in materials
    BY <1>1, <1>3 DEF EnterSession, Turn
  <2> QED
    BY <1>2, <2>1, <2>3, <2>4
<1>4. CASE Break(t)
  <2>1. UNCHANGED <<scopeOf, messages>> /\ \A u \in Turns : turn'[u].session = turn[u].session
    BY <1>1, <1>4 DEF Break, dbVars, Turn
  <2> QED
    BY <1>2, <2>1, KeptFacts
<1>5. CASE HandlerNext(t) /\ ~EnterSession(t)
  <2>1. \E to : turn' = [turn EXCEPT ![t].pc = to]
    BY <1>5 DEF HandlerNext, StoreQuestion, StartStream, AgentAnswers, AgentFails,
         StoreAnswer, StoreAnswerFails, Finish, Refuse, Abandon, Goes
  <2>2. \A u \in Turns : turn'[u].session = turn[u].session
    BY <1>1, <2>1 DEF Turn
  <2>3. UNCHANGED scopeOf
    BY <1>5 DEF HandlerNext, StoreQuestion, StartStream, AgentAnswers, AgentFails,
         StoreAnswer, StoreAnswerFails, Finish, Refuse, Abandon, dbVars
  <2>4. \/ UNCHANGED messages
        \/ turn[t].pc \in Entered /\ \E role \in {"user", "assistant"} :
             AppendMessage(turn[t].session, role, t)
    BY <1>5 DEF HandlerNext, StoreQuestion, StartStream, AgentAnswers, AgentFails,
         StoreAnswer, StoreAnswerFails, Finish, Refuse, Abandon, dbVars, Goes, Entered
  <2> QED
    BY <1>2, <2>2, <2>3, <2>4, KeptFacts
<1> QED
  BY <1>3, <1>4, <1>5

LEMMA CleanHandler ==
  ASSUME OneAccount, IInv, CleanInv, NEW t \in Turns, HandlerNext(t) \/ Break(t)
  PROVE  CleanInv'
<1>1. /\ UNCHANGED <<materials, pageVars, loads>> /\ Kept
      /\ \A u \in Turns : \/ turn'[u].session = turn[u].session
                          \/ /\ turn[u].session = 0 /\ turn'[u].session = u
                             /\ turn[u].scope \in materials
      /\ \A u \in Turns, x \in Scopes : scopeOf[u] = {x} => scopeOf'[u] = {x}
  BY HandlerSessions
<1>2. OwnSessions'
  BY <1>1, TurnsFacts DEF CleanInv, OwnSessions, pageVars
<1>3. ListInv'
  BY <1>1 DEF CleanInv, ListInv, IInv, TypeOK, pageVars
<1>4. NothingSaved => NothingSaved'
  BY <1>1 DEF NothingSaved, pageVars
<1>5. \A s \in Turns : ShowsOnly(s) => ShowsOnly(s)'
  BY <1>1 DEF ShowsOnly, Kept, Holds, pageVars
<1>6. LatestInv' /\ FreshInv'
  BY <1>1, <1>4 DEF CleanInv, LatestInv, FreshInv, pageVars
<1>7. ASSUME busy PROVE AskedInv'
  <2>1. PICK c \in Turns : c = current
    BY <1>7, TurnsFacts DEF IInv, TypeOK, PageInv, BusyInv
  <2>2. c = current' /\ turn[c].scope = scope
    BY <1>1, <2>1, TurnsFacts DEF pageVars, IInv, PageInv, CurrentInv
  <2>3. CASE turn'[c].session = turn[c].session
    <3>1. ASSUME turn[c].session \in Turns PROVE ShowsOnly(turn[c].session)'
      <4>1. PICK s \in Turns : s = turn[c].session
        BY <3>1
      <4>2. ShowsOnly(s)
        BY <1>7, <2>1, <4>1 DEF CleanInv, AskedInv
      <4>3. ShowsOnly(s)' /\ s = turn'[c].session
        BY <1>5, <2>3, <4>1, <4>2
      <4> QED
        BY <4>3 DEF ShowsOnly
    <3> QED
      BY <1>1, <1>4, <1>7, <2>1, <2>2, <2>3, <3>1 DEF CleanInv, AskedInv, pageVars
  <2>4. CASE turn[c].session = 0 /\ turn'[c].session = c /\ turn[c].scope \in materials
    <3>1. NothingSaved
      BY <1>7, <2>1, <2>2, <2>4 DEF CleanInv, AskedInv
    <3>2. NothingSaved' /\ \A s \in Turns : ShowsOnly(s)'
      BY <1>1, <3>1 DEF NothingSaved, ShowsOnly, pageVars
    <3> QED
      BY <1>1, <1>7, <2>1, <2>2, <2>4, <3>2 DEF CleanInv, AskedInv, pageVars
  <2> QED
    BY <1>1, <2>3, <2>4
<1>8. ASSUME ~busy PROVE AskedInv'
  BY <1>1, <1>8 DEF AskedInv, pageVars
<1>9. OneConversation'
  BY <1>1, <1>5 DEF CleanInv, OneConversation, ShowsOnly, pageVars
<1> QED
  BY <1>2, <1>3, <1>6, <1>7, <1>8, <1>9 DEF CleanInv

\* The event says which session the page continues, and the page was waiting
\* for it: what it showed as saved is of that session.
LEMMA CleanAdopt ==
  ASSUME IInv, CleanInv, NEW t \in Turns, OnMeta(t) \/ OnDone(t),
         NEW s \in Turns, s = turn[t].session
  PROVE  /\ UNCHANGED messages /\ busy /\ ShowsOnly(s)
         /\ OwnSessions' /\ ListInv' /\ LatestInv' /\ FreshInv'
         /\ ShowsOnly(s)' => AskedInv' /\ OneConversation'
<1>1. PICK e \in {"meta", "done"} : Arrives(t, e)
  BY DEF OnMeta, OnDone
<1>2. /\ UNCHANGED <<dbVars, turn, scope, busy, current, latest, loading, loads>>
      /\ current = t /\ Adopt(t) /\ e \in Event /\ t # 0
  BY TurnsFacts DEF OnMeta, OnDone, IsCurrentRequest, Event
<1>3. 1 \in DOMAIN wire[t] /\ wire[t][1] = e
  BY <1>1 DEF IInv, TypeOK, Arrives
<1>4. busy /\ latest = NoLoad
  BY <1>2, <1>3 DEF IInv, PageInv, CurrentInv, BusyInv
<1>5. session' = s /\ s # 0 /\ s # Foreign
  BY <1>2, TurnsFacts DEF Adopt
<1>6. ShowsOnly(s)
  BY <1>2, <1>4 DEF CleanInv, AskedInv
<1>7. OwnSessions'
  BY <1>2, <1>5 DEF Adopt, CleanInv, OwnSessions, IInv, TypeOK
<1>8. ListInv'
  BY <1>2 DEF CleanInv, ListInv, dbVars
<1>9. LatestInv'
  BY <1>2, <1>4, TurnsAssumption DEF LatestInv
<1>10. FreshInv'
  BY <1>5 DEF FreshInv
<1>11. ASSUME ShowsOnly(s)' PROVE AskedInv' /\ OneConversation'
  <2>1. turn'[current'].session = s /\ session' = s
    BY <1>2, <1>5
  <2>2. AskedInv'
    BY <1>5, <1>11, <2>1 DEF AskedInv
  <2>3. OneConversation'
    BY <1>11, <2>1 DEF OneConversation, ShowsOnly
  <2> QED
    BY <2>2, <2>3
<1> QED
  BY <1>2, <1>4, <1>6, <1>7, <1>8, <1>9, <1>10, <1>11 DEF dbVars

\* Nothing more is shown as saved.
LEMMA NothingMoreSaved ==
  ASSUME UNCHANGED messages,
         \A i \in DOMAIN view' : view'[i].saved =>
           /\ i \in DOMAIN view /\ view[i].saved
           /\ view'[i].role = view[i].role /\ view'[i].turn = view[i].turn
  PROVE  /\ NothingSaved => NothingSaved'
         /\ \A s \in Turns : ShowsOnly(s) => ShowsOnly(s)'
BY DEF NothingSaved, ShowsOnly, Holds

\* The page keeps its session and shows nothing more as saved.
LEMMA ConversationKept ==
  ASSUME CleanInv, UNCHANGED <<materials, messages, scope, session>>,
         \A i \in DOMAIN view' : view'[i].saved =>
           /\ i \in DOMAIN view /\ view[i].saved
           /\ view'[i].role = view[i].role /\ view'[i].turn = view[i].turn
  PROVE  /\ OneConversation' /\ FreshInv'
         /\ UNCHANGED <<turn, current>> /\ (busy' => busy) => AskedInv'
<1>1. /\ NothingSaved => NothingSaved'
      /\ \A s \in Turns : ShowsOnly(s) => ShowsOnly(s)'
  BY NothingMoreSaved
<1>2. OneConversation'
  <2>1. session \in Turns => ShowsOnly(session)
    BY DEF CleanInv, OneConversation, ShowsOnly
  <2>2. ASSUME session \in Turns PROVE ShowsOnly(session)'
    <3>1. PICK s \in Turns : s = session
      BY <2>2
    <3>2. ShowsOnly(s)' /\ s = session'
      BY <1>1, <2>1, <3>1
    <3> QED
      BY <3>2 DEF ShowsOnly
  <2> QED
    BY <2>2 DEF OneConversation, ShowsOnly
<1>3. FreshInv'
  BY <1>1 DEF CleanInv, FreshInv
<1>4. ASSUME UNCHANGED <<turn, current>>, busy' => busy PROVE AskedInv'
  <2>1. ASSUME busy', turn[current].session \in Turns PROVE ShowsOnly(turn[current].session)'
    <3>1. PICK s \in Turns : s = turn[current].session
      BY <2>1
    <3>2. ShowsOnly(s)' /\ s = turn'[current'].session
      BY <1>1, <1>4, <2>1, <3>1 DEF CleanInv, AskedInv
    <3> QED
      BY <3>2 DEF ShowsOnly
  <2> QED
    BY <1>1, <1>4, <2>1 DEF CleanInv, AskedInv
<1> QED
  BY <1>2, <1>3, <1>4

LEMMA CleanEvent ==
  ASSUME OneAccount, IInv, CleanInv, NEW t \in Turns, EventNext(t)
  PROVE  CleanInv'
<1>1. view \in Seq(Shown)
  BY DEF IInv, TypeOK
<1>2. ASSUME OnMeta(t) \/ OnDone(t)
      PROVE  \E s \in Turns : s = turn[t].session
  <2>1. 1 \in DOMAIN wire[t] /\ wire[t][1] \in {"meta", "done"}
    BY <1>2 DEF OnMeta, OnDone, IInv, TypeOK, Arrives
  <2> QED
    BY <2>1 DEF IInv, WireInv, WireFacts, Good
<1>3. CASE OnMeta(t)
  <2>1. PICK s \in Turns : s = turn[t].session
    BY <1>2, <1>3
  <2>2. ShowsOnly(s)'
    BY <1>3, <2>1, CleanAdopt DEF OnMeta, ShowsOnly, Holds
  <2> QED
    BY <1>3, <2>1, <2>2, CleanAdopt DEF CleanInv
<1>4. CASE OnDone(t)
  <2>1. PICK s \in Turns : s = turn[t].session
    BY <1>2, <1>4
  <2>2. UNCHANGED messages /\ busy /\ ShowsOnly(s)
    BY <1>4, <2>1, CleanAdopt
  <2>3. Answered(t)
    <3>1. 1 \in DOMAIN wire[t] /\ wire[t][1] = "done"
      BY <1>4 DEF OnDone, IInv, TypeOK, Arrives
    <3> QED
      BY <3>1 DEF IInv, WireInv, WireFacts
  <2>4. /\ DOMAIN view' = DOMAIN view
        /\ \A i \in DOMAIN view :
              /\ view'[i].role = view[i].role /\ view'[i].turn = view[i].turn
              /\ view'[i].saved => view[i].saved \/ i = Len(view)
    BY <1>1, <1>4, UpdateFacts DEF OnDone
  <2>5. view[Len(view)].role = "assistant" /\ view[Len(view)].turn = t
    BY <1>4, <2>2 DEF OnDone, IsCurrentRequest, IInv, PageInv, BusyInv
  <2>6. ASSUME NEW i \in DOMAIN view', view'[i].saved PROVE Holds(s, view'[i])
    <3>1. CASE i = Len(view)
      BY <2>1, <2>3, <2>4, <2>5, <2>6, <3>1 DEF Answered, Holds
    <3>2. CASE i # Len(view)
      BY <2>2, <2>4, <2>6, <3>2 DEF ShowsOnly, Holds
    <3> QED
      BY <3>1, <3>2
  <2>7. ShowsOnly(s)'
    <3>1. ASSUME NEW i \in DOMAIN view', view'[i].saved PROVE Holds(s, view[i])'
      <4>1. Holds(s, view'[i]) /\ UNCHANGED messages
        BY <2>2, <2>6, <3>1
      <4> QED
        BY <4>1 DEF Holds
    <3> QED
      BY <3>1 DEF ShowsOnly
  <2> QED
    BY <1>4, <2>1, <2>7, CleanAdopt DEF CleanInv
<1>5. CASE OnError(t) \/ OnEnd(t) \/ DropDone(t) \/ Ignored(t)
  <2>1. /\ UNCHANGED <<dbVars, turn, scope, session, stored, current, latest, loads>>
        /\ busy' => busy
    BY <1>5 DEF OnError, OnEnd, DropDone, Ignored, pageVars
  <2>2. \A i \in DOMAIN view' : view'[i].saved =>
           /\ i \in DOMAIN view /\ view[i].saved
           /\ view'[i].role = view[i].role /\ view'[i].turn = view[i].turn
    <3>1. CASE OnError(t)
      <4>1. /\ DOMAIN view' = DOMAIN view
            /\ \A i \in DOMAIN view :
                 /\ view'[i].role = view[i].role /\ view'[i].turn = view[i].turn
                 /\ view'[i].saved => view[i].saved
        BY <1>1, <3>1, UpdateFacts DEF OnError
      <4> QED
        BY <4>1
    <3>2. CASE OnEnd(t) \/ DropDone(t) \/ Ignored(t)
      BY <3>2 DEF OnEnd, DropDone, Ignored, pageVars
    <3> QED
      BY <1>5, <3>1, <3>2
  <2>3. OneConversation' /\ FreshInv' /\ AskedInv'
    BY <2>1, <2>2, ConversationKept DEF dbVars
  <2>4. OwnSessions' /\ ListInv' /\ LatestInv'
    BY <2>1 DEF CleanInv, OwnSessions, ListInv, LatestInv, dbVars
  <2> QED
    BY <2>3, <2>4 DEF CleanInv
<1> QED
  BY <1>3, <1>4, <1>5 DEF EventNext

LEMMA CleanUser == ASSUME OneAccount, IInv, CleanInv, UserNext PROVE CleanInv'
<1>0. 0 # Foreign
  BY TurnsAssumption DEF Foreign
<1>1. /\ loads \in [Loads -> Load] /\ stored \in [Scopes -> Sessions] /\ scope \in Scopes
      /\ NoLoad \notin Loads /\ turn \in [Turns -> Turn] /\ view \in Seq(Shown)
  BY TurnsAssumption DEF IInv, TypeOK
<1>2. ASSUME NEW l \in Loads, NEW s \in Scopes, Mount(s, l) PROVE CleanInv'
  <2>1. /\ StoredSession(s) = stored[s] /\ stored[s] # Foreign
        /\ MountLoad(s).pc # "idle" =>
              /\ MountLoad(s).pc = "list" /\ MountLoad(s).scope = s
              /\ MountLoad(s).target = stored[s]
              /\ stored[s] \in Turns /\ scopeOf[stored[s]] = {s}
    BY CleanMount DEF CleanInv, OwnSessions
  <2>2. /\ loads'[l] = MountLoad(s)
        /\ \A k \in Loads \ {l} : loads'[k] = NoLoadTask \/ (loads'[k] = loads[k] /\ loads[k].pc # "list")
    BY <1>1, <1>2 DEF Mount, IInv, LoadInv, LoadFacts
  <2>3. OwnSessions' /\ AskedInv' /\ FreshInv' /\ OneConversation'
    BY <1>2, <2>1 DEF Mount, CleanInv, OwnSessions, AskedInv, FreshInv, NothingSaved, OneConversation
  <2>4. ListInv'
    BY <1>2, <2>1, <2>2, IdleTypes DEF Mount, ListInv, dbVars
  <2>5. LatestInv'
    BY <1>2, <2>1, <2>2 DEF Mount, LatestInv
  <2> QED
    BY <2>3, <2>4, <2>5 DEF CleanInv
<1>3. ASSUME NEW l \in Loads, NEW s \in Turns, OpenSession(s, l) PROVE CleanInv'
  <2>1. /\ loads'[l].pc = "fetch" /\ loads'[l].kind = "open" /\ latest' = l
        /\ \A k \in Loads \ {l} : loads'[k] = loads[k]
    BY <1>1, <1>3 DEF OpenSession, NoLoadTask
  <2>2. UNCHANGED <<dbVars, turn, scope, session, stored, view, busy, current>>
    BY <1>3 DEF OpenSession, dbVars, chatVars
  <2>3. ListInv' /\ LatestInv'
    BY <2>1, <2>2 DEF CleanInv, ListInv, LatestInv, dbVars
  <2>4. OneConversation' /\ FreshInv' /\ AskedInv'
    BY <2>2, ConversationKept DEF dbVars
  <2> QED
    BY <2>2, <2>3, <2>4 DEF CleanInv, OwnSessions
<1>4. ASSUME NewConversation PROVE CleanInv'
  <2>1. OwnSessions'
    BY <1>0, <1>1, <1>4 DEF NewConversation, CleanInv, OwnSessions
  <2>2. ListInv' /\ LatestInv'
    BY <1>1, <1>4 DEF NewConversation, CleanInv, ListInv, LatestInv, dbVars
  <2>3. AskedInv' /\ FreshInv' /\ OneConversation'
    BY <1>4 DEF NewConversation, AskedInv, FreshInv, NothingSaved, OneConversation
  <2> QED
    BY <2>1, <2>2, <2>3 DEF CleanInv
<1>5. ASSUME NEW t \in Turns, Ask(t) PROVE CleanInv'
  <2>1. /\ turn'[t].session = session /\ \A u \in Turns \ {t} : turn'[u] = turn[u]
        /\ current' = t /\ latest' = NoLoad
        /\ UNCHANGED <<dbVars, scope, session, stored, loads>>
    BY <1>1, <1>5 DEF Ask, NoTurn, dbVars
  <2>2. \A i \in DOMAIN view' : view'[i].saved => i \in DOMAIN view /\ view'[i] = view[i]
    BY <1>1, <1>5, AskShows
  <2>3. OneConversation' /\ FreshInv'
    BY <2>1, <2>2, ConversationKept DEF dbVars
  <2>4. OwnSessions'
    BY <2>1 DEF CleanInv, OwnSessions
  <2>5. ListInv' /\ LatestInv'
    BY <1>1, <2>1 DEF CleanInv, ListInv, LatestInv, dbVars
  <2>6. AskedInv'
    <3>1. turn'[current'].session = session'
      BY <2>1
    <3> QED
      BY <2>3, <3>1 DEF AskedInv, OneConversation, ShowsOnly, FreshInv
  <2> QED
    BY <2>3, <2>4, <2>5, <2>6 DEF CleanInv
<1> QED
  BY <1>2, <1>3, <1>4, <1>5 DEF UserNext

LEMMA CleanLoad ==
  ASSUME OneAccount, IInv, CleanInv, NEW l \in Loads, LoadNext(l)
  PROVE  CleanInv'
<1>1. UNCHANGED <<materials, scopeOf, messages, turn, wire, scope, busy, current, latest>>
  BY DEF LoadNext, ForgetSession, FetchHistory, EndOfList, ReceiveHistory, LoadFails, chatVars, dbVars
<1>2. /\ loads \in [Loads -> Load] /\ loads[l] \in Load /\ LoadFacts(l) /\ l # NoLoad
      /\ stored \in [Scopes -> Sessions] /\ messages \in [Turns -> Seq(Message)]
  BY TurnsAssumption DEF IInv, TypeOK, LoadInv
<1>4. ASSUME SetLoad(l, NoLoadTask)
      PROVE  /\ ListInv'
             /\ session' = session \/ l = latest \/ (session' = 0 /\ scope \notin materials) => LatestInv'
  <2>1. loads'[l] = NoLoadTask /\ \A k \in Loads \ {l} : loads'[k] = loads[k]
    BY <1>2, <1>4 DEF SetLoad
  <2> QED
    BY <1>1, <2>1, IdleTypes DEF CleanInv, ListInv, LatestInv
<1>5. ASSUME UNCHANGED <<view, session, stored>>
      PROVE  OwnSessions' /\ AskedInv' /\ FreshInv' /\ OneConversation'
  BY <1>1, <1>5, ConversationKept DEF CleanInv, OwnSessions
<1>3. CASE ForgetSession(l)
  <2>1. /\ SetLoad(l, NoLoadTask) /\ session' = 0 /\ UNCHANGED view
        /\ stored' = [stored EXCEPT ![loads[l].scope] = 0]
    BY <1>3 DEF ForgetSession
  <2>2. scope \notin materials
    BY <1>3 DEF ForgetSession, Unlisted, OfScope, Exists, CleanInv, ListInv
  <2>3. OwnSessions'
    BY <1>1, <1>2, <2>1, TurnsAssumption DEF CleanInv, OwnSessions, Foreign
  <2>4. FreshInv' /\ OneConversation'
    BY <1>1, <2>1, <2>2, TurnsFacts DEF FreshInv, OneConversation
  <2>5. AskedInv'
    <3>1. \A s \in Turns : ShowsOnly(s) => ShowsOnly(s)'
      BY <1>1, <2>1 DEF ShowsOnly, Holds
    <3>2. ASSUME busy, turn[current].session \in Turns PROVE ShowsOnly(turn[current].session)'
      <4>1. PICK s \in Turns : s = turn[current].session
        BY <3>2
      <4>2. ShowsOnly(s)' /\ s = turn'[current'].session
        BY <1>1, <3>1, <3>2, <4>1 DEF CleanInv, AskedInv
      <4> QED
        BY <4>2 DEF ShowsOnly
    <3> QED
      BY <1>1, <2>1, <2>2, <3>2 DEF AskedInv
  <2> QED
    BY <1>4, <2>1, <2>2, <2>3, <2>4, <2>5 DEF CleanInv
<1>6. CASE FetchHistory(l)
  <2>1. /\ loads'[l].pc = "fetch" /\ loads'[l].kind = loads[l].kind
        /\ loads'[l].target = loads[l].target /\ loads[l].pc = "list"
        /\ \A k \in Loads \ {l} : loads'[k] = loads[k]
        /\ UNCHANGED <<view, session, stored>>
    BY <1>2, <1>6 DEF FetchHistory, SetLoad, Load, chatVars
  <2>2. ListInv' /\ LatestInv'
    BY <1>1, <2>1 DEF CleanInv, ListInv, LatestInv
  <2> QED
    BY <1>5, <2>1, <2>2 DEF CleanInv
<1>7. CASE EndOfList(l) \/ LoadFails(l) \/ (ReceiveHistory(l) /\ l # latest)
  <2>1. SetLoad(l, NoLoadTask) /\ UNCHANGED <<view, session, stored>>
    BY <1>7 DEF EndOfList, LoadFails, ReceiveHistory, chatVars
  <2> QED
    BY <1>4, <1>5, <2>1 DEF CleanInv
<1>8. CASE ReceiveHistory(l) /\ l = latest
  <2> DEFINE s == loads[l].target
  <2>1. /\ s \in Turns /\ s # Foreign /\ s # 0 /\ ~busy /\ SetLoad(l, NoLoadTask)
        /\ view' \in Histories(s)
    BY <1>2, <1>8, TurnsFacts DEF ReceiveHistory, LoadFacts, IInv, PageInv, BusyInv
  <2>2. /\ session' = s \/ (session' = 0 /\ scope \notin materials)
        /\ \/ stored' = [stored EXCEPT ![loads[l].scope] = s]
           \/ UNCHANGED stored
    <3>1. CASE loads[l].kind = "open"
      BY <1>8, <3>1 DEF ReceiveHistory
    <3>2. CASE loads[l].kind = "mount"
      BY <1>8, <3>2 DEF ReceiveHistory, CleanInv, LatestInv
    <3> QED
      BY <1>2, <3>1, <3>2 DEF Load
  <2>3. loads[l].scope \in Scopes
    BY <1>2, <1>8 DEF ReceiveHistory, LoadFacts
  <2> HIDE DEF s
  <2>4. OwnSessions'
    BY <1>1, <1>2, <2>1, <2>2, <2>3, TurnsAssumption DEF CleanInv, OwnSessions, Foreign
  <2>5. AskedInv' /\ FreshInv'
    BY <1>1, <2>1, <2>2 DEF AskedInv, FreshInv
  <2>6. \A i \in DOMAIN view' : Holds(s, view'[i])
    BY <1>2, <2>1, HistoryHolds
  <2>7. OneConversation'
    <3>1. CASE session' = s
      <4>1. ASSUME NEW i \in DOMAIN view' PROVE Holds(session, view[i])'
        <5>1. Holds(s, view'[i]) /\ messages' = messages
          BY <1>1, <2>6, <4>1
        <5> QED
          BY <3>1, <5>1 DEF Holds
      <4> QED
        BY <4>1 DEF OneConversation
    <3>2. CASE session' = 0
      BY <3>2, TurnsFacts DEF OneConversation
    <3> QED
      BY <2>2, <3>1, <3>2
  <2> QED
    BY <1>4, <1>8, <2>1, <2>4, <2>5, <2>7 DEF CleanInv
<1> QED
  BY <1>3, <1>6, <1>7, <1>8 DEF LoadNext

LEMMA CleanNext == ASSUME OneAccount, IInv, CleanInv, [Next]_vars PROVE CleanInv'
<1>1. ASSUME NEW m \in Scopes, DeleteMaterial(m) PROVE CleanInv'
  <2>1. /\ UNCHANGED <<scopeOf, messages, turn, scope, session, stored, view, busy, current, latest, loads>>
        /\ \A x : x \in materials' => x \in materials
    BY <1>1 DEF DeleteMaterial, pageVars
  <2>2. OwnSessions' /\ ListInv' /\ LatestInv' /\ OneConversation'
    BY <2>1 DEF CleanInv, OwnSessions, ListInv, LatestInv, OneConversation, Holds
  <2>3. AskedInv' /\ FreshInv'
    BY <2>1 DEF CleanInv, AskedInv, FreshInv, NothingSaved, ShowsOnly, Holds
  <2> QED
    BY <2>2, <2>3 DEF CleanInv
<1>2. CASE Next
  BY <1>1, <1>2, CleanHandler, CleanEvent, CleanUser, CleanLoad DEF Next
<1>3. CASE UNCHANGED vars
  BY <1>3 DEF vars, CleanInv, OwnSessions, ListInv, LatestInv, AskedInv, FreshInv,
              NothingSaved, ShowsOnly, OneConversation, Holds
<1> QED
  BY <1>2, <1>3

\* In a browser that no earlier account has used, the saved messages on the
\* page are those of the session the next question continues: the events of a
\* stream that is no longer the page's, a list or a history that was overtaken,
\* and a scope the user has left never mix two conversations (Companion.tsx,
\* chatRequestRef and historyRequestRef).
THEOREM ConversationsStayApart == ASSUME OneAccount PROVE Spec => []OneConversation
<1>1. Init => CleanInv
  BY CleanInit
<1>2. IInv /\ CleanInv /\ [Next]_vars => CleanInv'
  BY CleanNext
<1>3. CleanInv => OneConversation
  BY DEF CleanInv
<1> QED
  BY <1>1, <1>2, <1>3, Invariant, PTL DEF Spec
-----------------------------------------------------------------------------
(* What ComposerComesBack needs of the safe part: the page waits for a turn  *)
(* that goes on or for an event that is on its way.                          *)

EndOnItsWay(t) == \E i \in DOMAIN wire[t] : wire[t][i] \in {"error", "end"}

\* A turn that is over has said so.
EndIsTold == busy => (Over(current) => EndOnItsWay(current))

\* The turn the page is busy with, and the load it shows, are not over and done
\* with.
NothingAwaitedInVain ==
  /\ busy => turn[current].pc # "closed" \/ wire[current] # <<>>
  /\ loading => latest \in Loads /\ loads[latest].pc # "idle"

\* A connection that breaks leaves an error behind what was sent.
LEMMA BreakSends ==
  ASSUME NEW t \in Turns, Break(t)
  PROVE  \E k \in 0..Len(wire[t]) : wire' = [wire EXCEPT ![t] = Append(SubSeq(wire[t], 1, k), "error")]
BY DEF Break

\* A handler that is done, and a connection that breaks, leave the page an
\* event that frees it.
LEMMA EndToldByHandler ==
  ASSUME IInv, EndIsTold, NEW t \in Turns, HandlerNext(t) \/ Break(t)
  PROVE  EndIsTold'
<1>1. UNCHANGED <<busy, current>> /\ (busy => current \in Turns)
  BY HandlerSessions, TurnsFacts DEF pageVars, IInv, TypeOK, PageInv, BusyInv
<1>2. turn \in [Turns -> Turn] /\ wire \in [Turns -> Seq(Event)] /\ wire[t] \in Seq(Event)
  BY DEF IInv, TypeOK
<1>3. \A u \in Turns \ {t} : turn'[u] = turn[u] /\ wire'[u] = wire[u]
  BY <1>2 DEF HandlerNext, EnterSession, StoreQuestion, StartStream, AgentAnswers, AgentFails,
         StoreAnswer, StoreAnswerFails, Finish, Refuse, Abandon, Break, Goes, Send
<1>4. CASE Break(t)
  <2>1. PICK k \in 0..Len(wire[t]) : wire' = [wire EXCEPT ![t] = Append(SubSeq(wire[t], 1, k), "error")]
    BY <1>4, BreakSends
  <2>2. Len(wire[t]) \in Nat /\ k \in Nat /\ k <= Len(wire[t])
    BY <1>2
  <2>3. SubSeq(wire[t], 1, k) \in Seq(Event) /\ Len(SubSeq(wire[t], 1, k)) = k
    BY <1>2, <2>2
  <2>4. k + 1 \in DOMAIN wire'[t] /\ wire'[t][k + 1] = "error"
    BY <1>2, <2>1, <2>2, <2>3
  <2>5. EndOnItsWay(t)'
    BY <2>4 DEF EndOnItsWay
  <2> QED
    BY <1>1, <1>3, <2>5 DEF EndIsTold, EndOnItsWay, Over
<1>5. CASE HandlerNext(t)
  <2>1. wire' = wire \/ \E events \in Sent :
          ~turn[t].cut /\ wire' = [wire EXCEPT ![t] = wire[t] \o events]
    BY <1>5 DEF HandlerNext, EnterSession, StoreQuestion, StartStream, AgentAnswers, AgentFails,
         StoreAnswer, StoreAnswerFails, Finish, Refuse, Abandon, Send, Sent
  <2>2. EndOnItsWay(t) => EndOnItsWay(t)'
    <3>1. CASE wire' = wire
      BY <3>1 DEF EndOnItsWay
    <3>2. CASE wire' # wire
      <4>1. PICK events \in Sent : ~turn[t].cut /\ wire' = [wire EXCEPT ![t] = wire[t] \o events]
        BY <2>1, <3>2
      <4>2. /\ \A i \in DOMAIN wire[t] : wire'[t][i] = wire[t][i]
            /\ Len(wire[t]) \in Nat /\ DOMAIN wire[t] = 1..Len(wire[t])
            /\ DOMAIN wire'[t] = 1..(Len(wire[t]) + Len(events)) /\ Len(events) \in 0..2
        BY <4>1, SendFacts DEF IInv
      <4>3. \A i \in DOMAIN wire[t] : i \in DOMAIN wire'[t]
        BY <4>2
      <4> QED
        BY <4>2, <4>3 DEF EndOnItsWay
    <3> QED
      BY <3>1, <3>2
  <2>3. turn'[t].cut = turn[t].cut
    BY <1>2, <1>5 DEF HandlerNext, EnterSession, StoreQuestion, StartStream, AgentAnswers, AgentFails,
         StoreAnswer, StoreAnswerFails, Finish, Refuse, Abandon, Goes, Turn
  <2>4. CASE Over(t)'
    <3>1. CASE Over(t)
      BY <1>1, <1>3, <2>2, <3>1 DEF EndIsTold, EndOnItsWay, Over
    <3>2. CASE ~Over(t)
      <4>1. /\ ~turn[t].cut /\ turn[t].pc \notin {"failed", "closed"}
            /\ turn'[t].pc \in {"failed", "closed"}
        BY <2>3, <2>4, <3>2 DEF Over
      <4>2. \E events \in {<<"error">>, <<"done", "end">>} : Send(t, events)
        <5>1. ~EnterSession(t) /\ ~StoreQuestion(t) /\ ~StartStream(t) /\ ~AgentAnswers(t)
              /\ ~StoreAnswer(t) /\ ~Abandon(t)
          BY <1>2, <4>1 DEF EnterSession, StoreQuestion, StartStream, AgentAnswers,
               StoreAnswer, Abandon, Goes, Turn
        <5>2. AgentFails(t) \/ StoreAnswerFails(t) \/ Finish(t) \/ Refuse(t)
          BY <1>5, <5>1 DEF HandlerNext
        <5> QED
          BY <4>1, <5>2 DEF AgentFails, StoreAnswerFails, Finish, Refuse, Goes
      <4>3. PICK events \in {<<"error">>, <<"done", "end">>} :
              wire' = [wire EXCEPT ![t] = wire[t] \o events]
        BY <4>1, <4>2, SendCases DEF Send
      <4>4. events \in Sent /\ Len(events) \in 1..2 /\ events[Len(events)] \in {"error", "end"}
        BY DEF Sent
      <4>5. /\ Len(wire[t]) \in Nat
            /\ DOMAIN wire'[t] = 1..(Len(wire[t]) + Len(events))
            /\ wire'[t] = wire[t] \o events
        <5>1. TypeOK
          BY DEF IInv
        <5>2. wire'[t] = wire[t] \o events
          BY <1>2, <4>3
        <5> QED
          BY <4>1, <4>3, <4>4, <5>1, <5>2, SendFacts
      <4>6. /\ Len(wire[t]) + Len(events) \in DOMAIN wire'[t]
            /\ wire'[t][Len(wire[t]) + Len(events)] = events[Len(events)]
        <5>1. events \in Seq(Event)
          <6>1. {"error", "done", "end"} \subseteq Event
            BY DEF Event
          <6>2. <<"error">> \in Seq(Event) /\ <<"done", "end">> \in Seq(Event)
            BY <6>1
          <6> QED
            BY <6>2
        <5>2. \A i \in 1..(Len(wire[t]) + Len(events)) :
                (wire[t] \o events)[i] = IF i <= Len(wire[t]) THEN wire[t][i]
                                         ELSE events[i - Len(wire[t])]
          BY <1>2, <5>1
        <5>3. /\ Len(wire[t]) + Len(events) \in 1..(Len(wire[t]) + Len(events))
              /\ ~(Len(wire[t]) + Len(events) <= Len(wire[t]))
              /\ Len(wire[t]) + Len(events) - Len(wire[t]) = Len(events)
          BY <4>4, <4>5
        <5> QED
          BY <4>5, <5>2, <5>3
      <4>7. EndOnItsWay(t)'
        BY <4>4, <4>6 DEF EndOnItsWay
      <4> QED
        BY <1>1, <1>3, <4>7 DEF EndIsTold, EndOnItsWay, Over
    <3> QED
      BY <3>1, <3>2
  <2>5. CASE ~Over(t)'
    BY <1>1, <1>3, <2>5 DEF EndIsTold, EndOnItsWay, Over
  <2> QED
    BY <2>4, <2>5
<1> QED
  BY <1>4, <1>5

\* The page reads an event: either it is freed, or the end is still to come.
LEMMA EndToldByEvent ==
  ASSUME IInv, EndIsTold, NEW t \in Turns, EventNext(t)
  PROVE  EndIsTold'
<1>1. UNCHANGED <<turn, current>> /\ (busy' => busy) /\ (busy => current \in Turns)
  BY TurnsFacts DEF EventNext, OnMeta, OnDone, DropDone, OnError, OnEnd, Ignored, pageVars, IInv,
                    TypeOK, PageInv, BusyInv
<1>2. wire \in [Turns -> Seq(Event)] /\ wire[t] \in Seq(Event)
  BY DEF IInv, TypeOK
<1>3. CASE OnError(t) \/ OnEnd(t)
  BY <1>3 DEF OnError, OnEnd, EndIsTold
<1>4. CASE OnMeta(t) \/ OnDone(t) \/ DropDone(t)
  <2>1. PICK e \in {"meta", "done"} : Arrives(t, e)
    BY <1>4 DEF OnMeta, OnDone, DropDone
  <2>2. /\ Len(wire[t]) \in Nat /\ Len(wire[t]) > 0 /\ DOMAIN wire[t] = 1..Len(wire[t])
        /\ wire[t][1] = e /\ Tail(wire[t]) \in Seq(Event)
        /\ Len(Tail(wire[t])) = Len(wire[t]) - 1
        /\ \A i \in 1..(Len(wire[t]) - 1) : Tail(wire[t])[i] = wire[t][i + 1]
    BY <1>2, <2>1 DEF Arrives
  <2>3. /\ \A u \in Turns \ {t} : wire'[u] = wire[u]
        /\ DOMAIN wire'[t] = 1..(Len(wire[t]) - 1)
        /\ \A i \in 1..(Len(wire[t]) - 1) : wire'[t][i] = wire[t][i + 1]
    BY <1>2, <2>1, <2>2 DEF Arrives
  <2>4. EndOnItsWay(t) => EndOnItsWay(t)'
    <3>1. ASSUME NEW i \in DOMAIN wire[t], wire[t][i] \in {"error", "end"} PROVE EndOnItsWay(t)'
      <4>1. i # 1 /\ i - 1 \in 1..(Len(wire[t]) - 1) /\ (i - 1) + 1 = i
        BY <2>1, <2>2, <3>1
      <4>2. wire'[t][i - 1] = wire[t][i]
        BY <2>3, <4>1
      <4> QED
        BY <2>3, <3>1, <4>1, <4>2 DEF EndOnItsWay
    <3> QED
      BY <3>1 DEF EndOnItsWay
  <2> QED
    BY <1>1, <2>3, <2>4 DEF EndIsTold, EndOnItsWay, Over
<1>5. CASE Ignored(t)
  <2>1. current # t /\ \A u \in Turns \ {t} : wire'[u] = wire[u]
    BY <1>2, <1>5 DEF Ignored, IsCurrentRequest
  <2> QED
    BY <1>1, <2>1 DEF EndIsTold, EndOnItsWay, Over
<1> QED
  BY <1>3, <1>4, <1>5 DEF EventNext

\* A load touches neither the question nor what is on its way.
LEMMA LoadKeepsTurns ==
  ASSUME NEW l \in Loads, LoadNext(l)
  PROVE  UNCHANGED <<turn, wire, busy, current>>
BY DEF LoadNext, ForgetSession, FetchHistory, EndOfList, ReceiveHistory, LoadFails, chatVars

LEMMA EndToldByPage ==
  ASSUME IInv, EndIsTold,
         \/ UserNext \/ (\E l \in Loads : LoadNext(l))
         \/ (\E m \in Scopes : DeleteMaterial(m)) \/ UNCHANGED vars
  PROVE  EndIsTold'
<1>1. ASSUME UNCHANGED <<turn, wire, current>>, busy' => busy PROVE EndIsTold'
  BY <1>1 DEF EndIsTold, EndOnItsWay, Over
<1>2. ASSUME NEW t \in Turns, Ask(t) PROVE EndIsTold'
  <2>1. current' = t /\ turn'[t].pc = "request" /\ ~turn'[t].cut
    BY <1>2 DEF Ask, NoTurn, IInv, TypeOK
  <2> QED
    BY <2>1 DEF EndIsTold, Over
<1>3. ASSUME NEW l \in Loads, NEW s \in Scopes, Mount(s, l) PROVE EndIsTold'
  BY <1>3 DEF Mount, EndIsTold
<1>4. ASSUME NEW l \in Loads, NEW s \in Turns, OpenSession(s, l) PROVE EndIsTold'
  BY <1>1, <1>4 DEF OpenSession, chatVars
<1>5. CASE NewConversation
  BY <1>1, <1>5 DEF NewConversation
<1>6. ASSUME NEW l \in Loads, LoadNext(l) PROVE EndIsTold'
  <2>1. UNCHANGED <<turn, wire, busy, current>>
    BY <1>6, LoadKeepsTurns
  <2> QED
    BY <1>1, <2>1
<1>7. CASE (\E m \in Scopes : DeleteMaterial(m)) \/ UNCHANGED vars
  BY <1>1, <1>7 DEF vars, DeleteMaterial, pageVars
<1> QED
  BY <1>2, <1>3, <1>4, <1>5, <1>6, <1>7 DEF UserNext

\* The page never waits in vain: while it is busy, its turn's handler goes on or
\* an event is on its way to it, however the handler, the agent, the database
\* or the connection failed; while it loads, so does the latest load.
THEOREM PageNeverWaitsInVain == Spec => []NothingAwaitedInVain
<1>1. Init => EndIsTold
  BY DEF Init, EndIsTold
<1>2. IInv /\ EndIsTold /\ [Next]_vars => EndIsTold'
  BY EndToldByHandler, EndToldByEvent, EndToldByPage DEF Next
<1>3. IInv /\ EndIsTold => NothingAwaitedInVain
  <2> SUFFICES ASSUME IInv, EndIsTold PROVE NothingAwaitedInVain
    OBVIOUS
  <2>1. loading => latest \in Loads /\ loads[latest].pc # "idle"
    BY DEF IInv, TypeOK
  <2>2. busy => turn[current].pc # "closed" \/ wire[current] # <<>>
    BY DEF EndIsTold, EndOnItsWay, Over
  <2> QED
    BY <2>1, <2>2 DEF NothingAwaitedInVain
<1> QED
  BY <1>1, <1>2, <1>3, Invariant, PTL DEF Spec
=============================================================================
