-------------------------------- MODULE Teams --------------------------------
(***************************************************************************)
(* Teams, their members, and who sees which material (backend              *)
(* service/team.go, repository/repository.go).  A private team has its     *)
(* owner, a teacher team its owner and the members that the owner has      *)
(* approved, and everybody sees the public team.  Materials of a teacher   *)
(* team are seen by its members only when they are shared.                 *)
(*                                                                         *)
(* Teams, their owners and the teams of the materials are fixed: no code   *)
(* changes them.  A request that joins a team reads and inserts in two     *)
(* statements without a transaction.                                       *)
(***************************************************************************)
EXTENDS Naturals, FiniteSets

CONSTANTS
  Users, TeamIds, Materials,
  TypeOf,    \* the type of each team
  OwnerOf,   \* its owner; the public team has none
  TeamOf,    \* the team of each material
  Joins      \* requests to join a team

ASSUME TeamsAssumption ==
  /\ TypeOf \in [TeamIds -> {"private", "teacher", "public"}]
  /\ DOMAIN OwnerOf = TeamIds
  /\ TeamOf \in [Materials -> TeamIds]

VARIABLES
  member,   \* team_members.status, or "none"
  shared,   \* materials.shared
  join      \* the join requests that are about to insert, with user and team

teamVars == <<member, shared, join>>

Statuses == {"none", "pending", "approved"}
NoJoin   == {}

TeamsTypeOK ==
  /\ member \in [TeamIds -> [Users -> Statuses]]
  /\ shared \in [Materials -> BOOLEAN]
  /\ join \in [Joins -> SUBSET (Users \X TeamIds)]

TeamsInit ==
  /\ member = [t \in TeamIds |-> [u \in Users |-> "none"]]
  /\ shared = [m \in Materials |-> FALSE]
  /\ join = [j \in Joins |-> NoJoin]

-----------------------------------------------------------------------------
(* Visibility.                                                              *)

\* (mutant of VisibleTeamIDs) a pending member is taken for a member.
PendingTeamIDs(u) ==
  {t \in TeamIds :
     \/ TypeOf[t] \in {"private", "teacher"} /\ OwnerOf[t] = u
     \/ TypeOf[t] = "public"
     \/ TypeOf[t] = "teacher" /\ member[t][u] # "none"}

VisibleTeamIDs(u) ==
  {t \in TeamIds :
     \/ TypeOf[t] \in {"private", "teacher"} /\ OwnerOf[t] = u
     \/ TypeOf[t] = "public"
     \/ TypeOf[t] = "teacher" /\ member[t][u] = "approved"}

\* VisibleMaterialsScope: the query of user u that has read the team ids before.
VisibleMaterials(u, ids) ==
  {m \in Materials :
     /\ TeamOf[m] \in ids
     /\ OwnerOf[TeamOf[m]] = u \/ TypeOf[TeamOf[m]] # "teacher" \/ shared[m]}

-----------------------------------------------------------------------------
(* Operations.                                                              *)

\* JoinByCode up to its SELECT: who is a member already is told so.
JoinByCode(j, u, t) ==
  /\ join[j] = NoJoin /\ TypeOf[t] = "teacher" /\ member[t][u] = "none"
  /\ join' = [join EXCEPT ![j] = {<<u, t>>}]
  /\ UNCHANGED <<member, shared>>

\* (mutant of InsertMember) the INSERT is an upsert.
UpsertMember(j) ==
  \E r \in join[j] :
    /\ member' = [member EXCEPT ![r[2]][r[1]] = "pending"]
    /\ join' = [join EXCEPT ![j] = NoJoin]
    /\ UNCHANGED shared

\* The INSERT, which fails if the key is taken by now, or for another reason.
InsertMember(j) ==
  \E r \in join[j] :
    /\ \/ member[r[2]][r[1]] = "none" /\ member' = [member EXCEPT ![r[2]][r[1]] = "pending"]
       \/ UNCHANGED member
    /\ join' = [join EXCEPT ![j] = NoJoin]
    /\ UNCHANGED shared

\* The owner approves; nobody is ever removed.
ApproveMember(t, u) ==
  /\ member[t][u] # "none"
  /\ member' = [member EXCEPT ![t][u] = "approved"]
  /\ UNCHANGED <<shared, join>>

\* The owner of a teacher team shares a material, or takes it back.
Share(m) ==
  /\ TypeOf[TeamOf[m]] = "teacher"
  /\ shared' = [shared EXCEPT ![m] = ~@]
  /\ UNCHANGED <<member, join>>

TeamsNext ==
  \/ \E j \in Joins, u \in Users, t \in TeamIds : JoinByCode(j, u, t)
  \/ \E j \in Joins : InsertMember(j)
  \/ \E t \in TeamIds, u \in Users : ApproveMember(t, u)
  \/ \E m \in Materials : Share(m)

-----------------------------------------------------------------------------
(***************************************************************************)
(* Properties.                                                             *)
(***************************************************************************)

\* The rule of the documents: the owner of a team sees all its materials,
\* everybody those of the public team, and an approved member of a teacher
\* team those that are shared.
MaySee(u, m) ==
  LET t == TeamOf[m] IN
    \/ OwnerOf[t] = u
    \/ TypeOf[t] = "public"
    \/ TypeOf[t] = "teacher" /\ member[t][u] = "approved" /\ shared[m]

\* An approval is not undone, whatever requests to join were on their way.
ApprovalStays ==
  [][\A t \in TeamIds, u \in Users :
       member[t][u] = "approved" => member'[t][u] = "approved"]_teamVars
=============================================================================
