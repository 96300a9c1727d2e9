---------------------------------- MODULE Projects ----------------------------------
(***************************************************************************)
(* A project, its members and the comments on it: ProjectService and       *)
(* CommentService.  Every request checks the rights of its user with one   *)
(* query and writes with another.  A slot is a request being served; one   *)
(* that is refused changes nothing, so it is no step.                      *)
(***************************************************************************)
EXTENDS Integers, FiniteSets

CONSTANTS
  Owner,           \* the user in ownerId
  Guests,          \* other users
  NoUser,          \* not a user
  Targets,         \* the users whom changes of the members are about
  CommentIds,
  NoComment,       \* not a comment
  ProjectSlots

Users == {Owner} \cup Guests

ASSUME ProjectsAssumption ==
  /\ Owner \notin Guests /\ NoUser \notin Users /\ NoComment \notin CommentIds
  /\ Targets \subseteq Users

VARIABLES
  project,     \* its status, or "none"
  member,      \* member[u]: the role of the row of u, or "none"
  comment,     \* comment[c]: its author, and whether it is still there
  askPc, ask,  \* whether a slot is idle or about to write; the request, and whether
               \* its user's role was written since it was checked (history)
  invited,     \* users who ever had a row (history)
  expelled,    \* users whose row was removed (history)
  overreached  \* the operations written by a user without the right, whose role
               \* was not written since it was checked (history)

projectVars == <<project, member, comment, askPc, ask, invited, expelled, overreached>>

\* The role is a free text; owner is the only one the code asks for.  No code tells
\* archived from active, or an open comment from a resolved one.
Roles == {"none", "editor", "owner"}
Statuses == {"active", "deleted"}
Ops == {"create", "join", "rename", "status", "delete", "add", "remove",
        "comment", "edit", "erase"}
NoAsk == [op |-> "create", user |-> NoUser, arg |-> "none", target |-> NoUser,
          comment |-> NoComment, overtaken |-> FALSE]

ProjectsTypeOK ==
  /\ project \in Statuses \cup {"none"}
  /\ member \in [Users -> Roles]
  /\ comment \in [CommentIds -> [author : Users \cup {NoUser}, there : BOOLEAN]]
  /\ askPc \in [ProjectSlots -> {"idle", "write"}]
  /\ ask \in [ProjectSlots -> [op : Ops, user : Users \cup {NoUser},
                               arg : Roles \cup Statuses,
                               target : Users \cup {NoUser},
                               comment : CommentIds \cup {NoComment},
                               overtaken : BOOLEAN]]
  /\ invited \subseteq Users /\ expelled \subseteq Users /\ overreached \subseteq Ops

ProjectsInit ==
  /\ project = "none" /\ member = [u \in Users |-> "none"]
  /\ comment = [c \in CommentIds |-> [author |-> NoUser, there |-> FALSE]]
  /\ askPc = [s \in ProjectSlots |-> "idle"] /\ ask = [s \in ProjectSlots |-> NoAsk]
  /\ invited = {} /\ expelled = {} /\ overreached = {}
-------------------------------------------------------------------------------
(* The checks. *)

getMemberRole(u) == IF u = Owner THEN "owner" ELSE member[u]
canAccessProject(u) == u = Owner \/ member[u] # "none"
\* Mutant of canModifyComment: any member may.
canModifyCommentAsMember(u, c) == canAccessProject(u)
canModifyComment(u, c) == u \in {comment[c].author, Owner}

Asks(s, r) ==
  /\ askPc[s] = "idle" /\ project # "none"
  /\ askPc' = [askPc EXCEPT ![s] = "write"]
  /\ ask' = [ask EXCEPT ![s] = r]
  /\ UNCHANGED <<project, member, comment, invited, expelled, overreached>>

AskUpdate(s, u, status) ==
  /\ getMemberRole(u) # "none"
  /\ status # "none" => getMemberRole(u) = "owner"
  /\ Asks(s, [NoAsk EXCEPT !.op = IF status = "none" THEN "rename" ELSE "status",
                           !.user = u, !.arg = status])

AskDelete(s, u) ==
  /\ getMemberRole(u) = "owner"
  /\ Asks(s, [NoAsk EXCEPT !.op = "delete", !.user = u])

AskAddMember(s, u, v, role) ==
  /\ getMemberRole(u) = "owner"
  /\ Asks(s, [NoAsk EXCEPT !.op = "add", !.user = u, !.target = v, !.arg = role])

AskRemoveMember(s, u, v) ==
  /\ getMemberRole(u) = "owner"
  /\ Asks(s, [NoAsk EXCEPT !.op = "remove", !.user = u, !.target = v])

\* A comment may name a layer; one of another project is refused.
AskComment(s, u) ==
  /\ canAccessProject(u)
  /\ Asks(s, [NoAsk EXCEPT !.op = "comment", !.user = u])

AskEditComment(s, u, c) ==
  /\ comment[c].there /\ canModifyComment(u, c)
  /\ Asks(s, [NoAsk EXCEPT !.op = "edit", !.user = u, !.comment = c])

AskDeleteComment(s, u, c) ==
  /\ comment[c].there /\ canModifyComment(u, c)
  /\ Asks(s, [NoAsk EXCEPT !.op = "erase", !.user = u, !.comment = c])
-------------------------------------------------------------------------------
(* The writes. *)

\* Who may do what: an owner by role everything about the project and its members,
\* a member rename and comment, an author change the comment.
Entitled(r) ==
  CASE r.op \in {"rename", "comment"} -> r.user = Owner \/ member[r.user] # "none"
    [] r.op \in {"edit", "erase"} -> r.user \in {Owner, comment[r.comment].author}
    [] OTHER -> r.user = Owner \/ member[r.user] = "owner"

\* The slot writes for op; the rights of the users in changed, changed.
Writes(s, op, changed) ==
  /\ askPc[s] = "write" /\ ask[s].op = op
  /\ askPc' = [askPc EXCEPT ![s] = "idle"]
  /\ ask' = [r \in ProjectSlots |->
               IF r = s THEN NoAsk ELSE [ask[r] EXCEPT !.overtaken = @ \/ ask[r].user \in changed]]
  /\ overreached' = IF ask[s].overtaken \/ Entitled(ask[s]) THEN overreached
                    ELSE overreached \cup {op}

UpdateProject(s) ==
  \/ /\ Writes(s, "rename", {})
     /\ UNCHANGED <<project, member, comment, invited, expelled>>
  \/ /\ Writes(s, "status", {})
     /\ project' = ask[s].arg
     /\ UNCHANGED <<member, comment, invited, expelled>>

SoftDelete(s) ==
  /\ Writes(s, "delete", {})
  /\ project' = "deleted"
  /\ UNCHANGED <<member, comment, invited, expelled>>

\* An upsert: a member gets the new role.
AddMember(s) ==
  LET v == ask[s].target
  IN /\ Writes(s, "add", {v})
     /\ member' = [member EXCEPT ![v] = ask[s].arg]
     /\ invited' = invited \cup {v}
     /\ UNCHANGED <<project, comment, expelled>>

\* Without a row the delete fails.
RemoveMember(s) ==
  LET v == ask[s].target
  IN /\ Writes(s, "remove", {v})
     /\ member' = [member EXCEPT ![v] = "none"]
     /\ expelled' = IF member[v] = "none" THEN expelled ELSE expelled \cup {v}
     /\ UNCHANGED <<project, comment, invited>>

CreateComment(s, c) ==
  /\ comment[c].author = NoUser
  /\ Writes(s, "comment", {})
  /\ comment' = [comment EXCEPT ![c] = [author |-> ask[s].user, there |-> TRUE]]
  /\ UNCHANGED <<project, member, invited, expelled>>

\* The update and the delete of a deleted comment fail.
UpdateComment(s) ==
  /\ Writes(s, "edit", {})
  /\ UNCHANGED <<project, member, comment, invited, expelled>>

DeleteComment(s) ==
  /\ Writes(s, "erase", {})
  /\ comment' = [comment EXCEPT ![ask[s].comment].there = FALSE]
  /\ UNCHANGED <<project, member, invited, expelled>>
-------------------------------------------------------------------------------
(* Creation: the project, then the owner's row. *)

CreateProject(s) ==
  /\ project = "none" /\ askPc[s] = "idle"
  /\ project' = "active"
  /\ askPc' = [askPc EXCEPT ![s] = "write"]
  /\ ask' = [ask EXCEPT ![s] = [NoAsk EXCEPT !.op = "join", !.user = Owner]]
  /\ UNCHANGED <<member, comment, invited, expelled, overreached>>

AddOwner(s) ==
  /\ Writes(s, "join", {Owner})
  /\ member' = [member EXCEPT ![Owner] = "owner"]
  /\ invited' = invited \cup {Owner}
  /\ UNCHANGED <<project, comment, expelled>>

\* A database error or a crash.
ProjectAbort(s) ==
  /\ askPc[s] = "write"
  /\ askPc' = [askPc EXCEPT ![s] = "idle"] /\ ask' = [ask EXCEPT ![s] = NoAsk]
  /\ UNCHANGED <<project, member, comment, invited, expelled, overreached>>

ProjectsNext ==
  \E s \in ProjectSlots :
    \/ CreateProject(s) \/ AddOwner(s) \/ ProjectAbort(s)
    \/ \E u \in Users :
         \/ \E status \in Statuses \cup {"none"} : AskUpdate(s, u, status)
         \/ AskDelete(s, u) \/ AskComment(s, u)
         \/ \E v \in Targets : \/ \E role \in Roles \ {"none"} : AskAddMember(s, u, v, role)
                             \/ AskRemoveMember(s, u, v)
         \/ \E c \in CommentIds : AskEditComment(s, u, c) \/ AskDeleteComment(s, u, c)
    \/ UpdateProject(s) \/ SoftDelete(s) \/ AddMember(s) \/ RemoveMember(s)
    \/ UpdateComment(s) \/ DeleteComment(s)
    \/ \E c \in CommentIds : CreateComment(s, c)

ProjectsSpec == ProjectsInit /\ [][ProjectsNext]_projectVars
-------------------------------------------------------------------------------
\* Only a request whose user lost the right between its check and its write writes
\* without it; and who wrote a comment was a member once, and can still change it
\* without access to the project only after being removed.
RightsRespected ==
  /\ overreached = {}
  /\ \A c \in CommentIds : LET u == comment[c].author IN
       u # NoUser => /\ u = Owner \/ u \in invited
                     /\ canAccessProject(u) \/ u \in expelled
===================================================================================
