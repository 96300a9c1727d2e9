---------------------------------- MODULE Likes ----------------------------------
(***************************************************************************)
(* The likes of one message card: toggleLikeController, and the summary    *)
(* with its count cached in Redis for 30 seconds.  A slot is a request     *)
(* being served.                                                           *)
(***************************************************************************)
EXTENDS Integers, FiniteSets

CONSTANTS
  Fans,         \* users
  NoFan,        \* not a user
  LikeSlots

ASSUME LikesAssumption == NoFan \notin Fans /\ IsFiniteSet(Fans)

VARIABLES
  likes,        \* the users with a Like row
  cached,       \* the value of likes:card:<id>, NoCount without one
  likePc, likeReq,   \* the step a slot takes next; its user, its count, and
                     \* whether the likes changed since it counted (history)
  odd,          \* users who toggled an odd number of times (history)
  stale,        \* an overtaken count was cached, or an invalidation was lost (history)
  doubled       \* users of whom two toggles overlapped or one broke off (history)

likeVars == <<likes, cached, likePc, likeReq, odd, stale, doubled>>

NoCount == -1
Count == Cardinality(likes)
NoLikeRequest == [fan |-> NoFan, count |-> NoCount, overtaken |-> FALSE]

LikesTypeOK ==
  /\ likes \subseteq Fans
  /\ cached \in NoCount .. Cardinality(Fans)
  /\ likePc \in [LikeSlots -> {"idle", "delete", "create", "invalidate", "count", "fill"}]
  /\ likeReq \in [LikeSlots -> [fan : Fans \cup {NoFan},
                                count : NoCount .. Cardinality(Fans), overtaken : BOOLEAN]]
  /\ odd \subseteq Fans /\ doubled \subseteq Fans /\ stale \in BOOLEAN

LikesInit ==
  /\ likes = {} /\ cached = NoCount
  /\ likePc = [s \in LikeSlots |-> "idle"]
  /\ likeReq = [s \in LikeSlots |-> NoLikeRequest]
  /\ odd = {} /\ stale = FALSE /\ doubled = {}

LikeDone(s) ==
  /\ likePc' = [likePc EXCEPT ![s] = "idle"]
  /\ likeReq' = [likeReq EXCEPT ![s] = NoLikeRequest]

\* The likes become those of users; every count taken before is overtaken.
Change(users) ==
  /\ likes' = users
  /\ likeReq' = [r \in LikeSlots |-> [likeReq[r] EXCEPT !.overtaken = likePc[r] = "fill"]]

Toggling(u) == {s \in LikeSlots : likeReq[s].fan = u /\ likePc[s] \in {"delete", "create"}}
Invalidating == {s \in LikeSlots : likePc[s] = "invalidate"}
-------------------------------------------------------------------------------
(* Toggle: delete; if there was none, create; then drop the cached count. *)

Toggle(s, u) ==
  /\ likePc[s] = "idle"
  /\ likePc' = [likePc EXCEPT ![s] = "delete"]
  /\ likeReq' = [likeReq EXCEPT ![s].fan = u]
  /\ odd' = (odd \ {u}) \cup ({u} \ odd)
  /\ doubled' = IF Toggling(u) # {} THEN doubled \cup {u} ELSE doubled
  /\ UNCHANGED <<likes, cached, stale>>

\* Mutant of DeleteLike: an unlike leaves the cached count.
DeleteLikeOnly(s) ==
  LET u == likeReq[s].fan
  IN /\ likePc[s] = "delete"
     /\ likePc' = [likePc EXCEPT ![s] = IF u \in likes THEN "idle" ELSE "create"]
     /\ IF u \in likes THEN Change(likes \ {u}) ELSE UNCHANGED <<likes, likeReq>>
     /\ UNCHANGED <<cached, odd, stale, doubled>>

DeleteLike(s) ==
  LET u == likeReq[s].fan
  IN /\ likePc[s] = "delete"
     /\ likePc' = [likePc EXCEPT ![s] = IF u \in likes THEN "invalidate" ELSE "create"]
     /\ IF u \in likes THEN Change(likes \ {u}) ELSE UNCHANGED <<likes, likeReq>>
     /\ UNCHANGED <<cached, odd, stale, doubled>>

\* A row that another request created meanwhile is as good.
CreateLike(s) ==
  LET u == likeReq[s].fan
  IN /\ likePc[s] = "create"
     /\ likePc' = [likePc EXCEPT ![s] = "invalidate"]
     /\ IF u \in likes THEN UNCHANGED <<likes, likeReq>> ELSE Change(likes \cup {u})
     /\ UNCHANGED <<cached, odd, stale, doubled>>

\* Mutant of Invalidate: the cached count is counted down, there or not.
CountDown(s) ==
  /\ likePc[s] = "invalidate"
  /\ cached' = cached - 1
  /\ LikeDone(s)
  /\ UNCHANGED <<likes, odd, stale, doubled>>

\* Redis may not answer, and that is only logged.
Invalidate(s) ==
  /\ likePc[s] = "invalidate"
  /\ \/ cached' = NoCount /\ stale' = FALSE
     \/ stale' = TRUE /\ UNCHANGED cached
  /\ LikeDone(s)
  /\ UNCHANGED <<likes, odd, doubled>>
-------------------------------------------------------------------------------
(* Summary: the cached count, or count the rows and cache that. *)

\* A cached count is the answer, unless Redis does not give it.
Summary(s) ==
  /\ likePc[s] = "idle"
  /\ likePc' = [likePc EXCEPT ![s] = "count"]
  /\ UNCHANGED <<likes, cached, likeReq, odd, stale, doubled>>

CountLikes(s) ==
  /\ likePc[s] = "count"
  /\ likePc' = [likePc EXCEPT ![s] = "fill"]
  /\ likeReq' = [likeReq EXCEPT ![s].count = Count]
  /\ UNCHANGED <<likes, cached, odd, stale, doubled>>

FillCache(s) ==
  /\ likePc[s] = "fill"
  /\ cached' = likeReq[s].count
  /\ stale' = likeReq[s].overtaken
  /\ LikeDone(s)
  /\ UNCHANGED <<likes, odd, doubled>>

\* The 30 seconds are over.
CacheExpires ==
  /\ cached # NoCount
  /\ cached' = NoCount /\ stale' = FALSE
  /\ UNCHANGED <<likes, likePc, likeReq, odd, doubled>>

\* A database or Redis error, or a crash.
LikeAbort(s) ==
  /\ likePc[s] # "idle"
  /\ doubled' = IF likePc[s] \in {"delete", "create"} THEN doubled \cup {likeReq[s].fan}
                ELSE doubled
  /\ stale' = (stale \/ likePc[s] = "invalidate")
  /\ LikeDone(s)
  /\ UNCHANGED <<likes, cached, odd>>

LikesNext ==
  \/ \E s \in LikeSlots :
       \/ \E u \in Fans : Toggle(s, u)
       \/ DeleteLike(s) \/ CreateLike(s) \/ Invalidate(s)
       \/ Summary(s) \/ CountLikes(s) \/ FillCache(s) \/ LikeAbort(s)
  \/ CacheExpires

LikesSpec == LikesInit /\ [][LikesNext]_likeVars
-------------------------------------------------------------------------------
\* A card shows its number of likes, and a user likes it after an odd number of
\* toggles.  A cached count differs from the rows only while a toggle is about to
\* drop it, or after a count that a toggle overtook was cached or a drop was
\* lost; a user's like differs only after two toggles of the user overlapped or
\* one broke off.
LikesShown ==
  /\ stale \/ Invalidating # {} \/ cached \in {NoCount, Count}
  /\ \A u \in Fans : u \in doubled \/ Toggling(u) # {} \/ (u \in likes <=> u \in odd)
===================================================================================
