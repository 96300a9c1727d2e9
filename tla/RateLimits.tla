--------------------------------- MODULE RateLimits ---------------------------------
(***************************************************************************)
(* The rate limiters in front of the routes.  A middleware consumes a      *)
(* point of one or two keys and either calls the next one or answers 429.  *)
(* Time passes in ticks; every limiter's duration is Window of them, and   *)
(* its points are scaled down.  A failing store refuses the request.       *)
(* Four of them know a request by the address its X-Forwarded-For header   *)
(* names first, whoever sent it: they bound what comes under one such      *)
(* address, not what one client sends.                                     *)
(***************************************************************************)
EXTENDS Integers, Sequences, FiniteSets, FiniteSetsExt

CONSTANTS
  Clients,           \* users, or addresses that requests come from or name
  Objects,           \* e-mails as typed, drafts or carriers, whichever a route names
  NoOne,             \* neither a client nor an object
  LowerCase,         \* LowerCase[o]: the e-mail o in lower case
  LimitSlots,        \* requests being served
  Requests,          \* the requests that come: route, client, the address their
                     \* X-Forwarded-For header names first, and object
  Window,            \* ticks
  Points             \* Points[l]: of limiter l

Blocking == {"global", "verification", "reset", "phone", "contact"}
Limiters ==
  Blocking \cup {"aiUser", "aiDraft", "search", "like", "wallet", "tracking", "webhook"}
Routes == {"login", "forgot", "resend", "contact", "generate", "phone", "search",
           "toggle", "purchase", "track", "report"}

ASSUME RateLimitsAssumption ==
  /\ NoOne \notin Clients \cup Objects
  /\ LowerCase \in [Objects -> Objects]
  /\ \A r \in Requests :
       /\ r.route \in Routes /\ r.client \in Clients /\ r.named \in Clients \cup {NoOne}
       /\ r.object \in IF r.route \in {"forgot", "resend", "generate", "report"}
                      THEN Objects ELSE {NoOne}
  /\ Window \in Nat \ {0} /\ Points \in [Limiters -> Nat \ {0}]

VARIABLES
  store,       \* where the counters are kept
  served,      \* the routes requests come for
  counter,     \* counter[k]: points used, and ticks until they come back
  limitReq,    \* the request a slot serves: its stage, the keys still to consume
               \* for it, and whether a limiter refused
  spent,       \* spent[x][i]: points x was given i - 1 ticks ago (history)
  grounds      \* the points the last one refused had been given (history)

limitVars == <<store, served, counter, limitReq, spent, grounds>>

Key(l, c, o) == [limiter |-> l, client |-> c, object |-> o]
Keys == [limiter : Limiters, client : Clients \cup {NoOne}, object : Objects \cup {NoOne}]
NoRequest == [route |-> "login", client |-> NoOne, named |-> NoOne, object |-> NoOne,
              stage |-> 0, keys |-> {}, refused |-> FALSE]
-------------------------------------------------------------------------------
(* The keys each middleware consumes for a request. *)

\* The address in the header, the client's own without one.  The client of the other
\* limiters is the user who signed in, or the address Express takes from the proxy.
Address(r) == IF r.named = NoOne THEN r.client ELSE r.named

GlobalKeys(r) == {Key("global", r.client, NoOne)}
AiKeys(r) == {Key("aiUser", r.client, NoOne), Key("aiDraft", r.client, r.object)}
EmailVerificationKeys(r) == {Key("verification", NoOne, LowerCase[r.object])}
\* Mutant of PasswordResetKeys: the e-mail as it was typed.
PasswordResetKeysAsTyped(r) == {Key("reset", NoOne, r.object)}
PasswordResetKeys(r) == {Key("reset", NoOne, LowerCase[r.object])}
PhoneVerifyKeys(r) == {Key("phone", r.client, NoOne)}
SearchKeys(r) == {Key("search", Address(r), NoOne)}
LikeKeys(r) == {Key("like", r.client, NoOne)}
WalletKeys(r) == {Key("wallet", r.client, NoOne)}
ContactKeys(r) == {Key("contact", Address(r), NoOne)}
ShipmentKeys(r) == {Key("tracking", Address(r), NoOne)}
WebhookKeys(r) == {Key("webhook", Address(r), r.object)}

\* The middlewares of a route, in their order.
Stages(r) ==
  CASE r.route = "login" -> <<GlobalKeys(r)>>
    [] r.route = "forgot" -> <<GlobalKeys(r), PasswordResetKeys(r)>>
    [] r.route = "resend" -> <<GlobalKeys(r), EmailVerificationKeys(r)>>
    [] r.route = "contact" -> <<GlobalKeys(r), ContactKeys(r)>>
    [] r.route = "generate" -> <<AiKeys(r)>>
    [] r.route = "phone" -> <<PhoneVerifyKeys(r)>>
    [] r.route = "search" -> <<SearchKeys(r)>>
    [] r.route = "toggle" -> <<LikeKeys(r)>>
    [] r.route = "purchase" -> <<WalletKeys(r)>>
    [] r.route = "track" -> <<ShipmentKeys(r)>>
    [] r.route = "report" -> <<WebhookKeys(r)>>

\* Whose requests a limiter counts together: those about an e-mail whatever its
\* spelling, of a user and one draft, under an address and of one carrier, under an
\* address, or of a client.
Subject(l, r) ==
  CASE l \in {"verification", "reset"} -> Key(l, NoOne, LowerCase[r.object])
    [] l = "aiDraft" -> Key(l, r.client, r.object)
    [] l = "webhook" -> Key(l, Address(r), r.object)
    [] l \in {"search", "contact", "tracking"} -> Key(l, Address(r), NoOne)
    [] OTHER -> Key(l, r.client, NoOne)

\* The points given to x in the last n ticks.
Spent(x, n) == MapThenSumSet(LAMBDA i : spent[x][i], 1 .. n)
MostSpent == 2 * Max({Points[l] : l \in Limiters})
-------------------------------------------------------------------------------
LimitsTypeOK ==
  /\ store \in {"redis", "memory"} /\ served \subseteq Routes
  /\ DOMAIN counter \subseteq Keys
  /\ \A k \in DOMAIN counter :
       counter[k] \in [used : 1 .. Points[k.limiter] + 2, left : 1 .. Window]
  /\ limitReq \in [LimitSlots -> [route : Routes, client : Clients \cup {NoOne},
                                  named : Clients \cup {NoOne},
                                  object : Objects \cup {NoOne}, stage : 0 .. 2,
                                  keys : SUBSET Keys, refused : BOOLEAN]]
  /\ DOMAIN spent \subseteq Keys
  /\ \A x \in DOMAIN spent : spent[x] \in [1 .. 2 * Window -> 0 .. MostSpent]
  /\ grounds \in [limiter : Limiters, given : 0 .. 2 * MostSpent]

\* Requests for one route at a time, or for two that share a limiter.
LimitsInit ==
  /\ store \in {"redis", "memory"}
  /\ served \in {{r} : r \in Routes} \cup {{"login", "contact"}}
  /\ counter = [k \in {} |-> {}] /\ spent = [x \in {} |-> {}]
  /\ limitReq = [s \in LimitSlots |-> NoRequest]
  /\ grounds = [limiter |-> "global", given |-> Points["global"]]

RequestArrives(s, r) ==
  /\ limitReq[s].stage = 0
  /\ r.route \in served
  /\ limitReq' = [limitReq EXCEPT ![s] =
       [route |-> r.route, client |-> r.client, named |-> r.named, object |-> r.object,
        stage |-> 1, keys |-> Stages(r)[1], refused |-> FALSE]]
  /\ UNCHANGED <<store, served, counter, spent, grounds>>

\* A window starts with its first point.  The first point too many of a blocking
\* limiter starts a window again; used is counted up to the second too many.
Counted(k) ==
  LET fresh == k \notin DOMAIN counter
      used == IF fresh THEN 1 ELSE counter[k].used + 1
      block == k.limiter \in Blocking /\ used = Points[k.limiter] + 1
  IN [used |-> IF used > Points[k.limiter] + 2 THEN Points[k.limiter] + 2 ELSE used,
      left |-> IF fresh \/ block THEN Window ELSE counter[k].left]

\* The first point of x in its history, unless there is one.
Give(x) ==
  LET ages == IF x \in DOMAIN spent THEN spent[x] ELSE [i \in 1 .. 2 * Window |-> 0]
  IN [y \in DOMAIN spent \cup {x} |-> IF y = x THEN [ages EXCEPT ![1] = @ + 1] ELSE spent[y]]

\* The limiter counts and answers; the store may fail before it counted or after.
Consume(s, k) ==
  LET x == Subject(k.limiter, limitReq[s])
      counted == [j \in DOMAIN counter \cup {k} |-> IF j = k THEN Counted(k) ELSE counter[j]]
      within == Counted(k).used <= Points[k.limiter]
      take(refused) == limitReq' = [limitReq EXCEPT ![s].keys = @ \ {k},
                                                     ![s].refused = @ \/ refused]
  IN /\ k \in limitReq[s].keys
     /\ \/ /\ counter' = counted
           /\ spent' = IF within THEN Give(x) ELSE spent
           /\ take(~within) \/ (store = "redis" /\ take(TRUE))
           /\ grounds' = IF within THEN grounds
                         ELSE [limiter |-> k.limiter,
                               given |-> IF x \in DOMAIN spent THEN Spent(x, 2 * Window) ELSE 0]
        \/ /\ store = "redis"
           /\ take(TRUE)
           /\ UNCHANGED <<counter, spent, grounds>>
     /\ UNCHANGED <<store, served>>

\* Every key of the stage was consumed: the next middleware, the handler, or 429.
NextMiddleware(s) ==
  LET r == limitReq[s]
      last == r.stage = Len(Stages(r))
  IN /\ r.stage > 0 /\ r.keys = {}
     /\ limitReq' = [limitReq EXCEPT ![s] =
                       IF r.refused \/ last THEN NoRequest
                       ELSE [r EXCEPT !.stage = @ + 1, !.keys = Stages(r)[r.stage + 1]]]
     /\ UNCHANGED <<store, served, counter, spent, grounds>>

Tick ==
  /\ counter' = [k \in {j \in DOMAIN counter : counter[j].left > 1} |->
                   [counter[k] EXCEPT !.left = @ - 1]]
  /\ spent' = [x \in {y \in DOMAIN spent : Spent(y, 2 * Window - 1) > 0} |->
                 [i \in 1 .. 2 * Window |-> IF i = 1 THEN 0 ELSE spent[x][i - 1]]]
  /\ UNCHANGED <<store, served, limitReq, grounds>>

\* Counters in memory are lost with the process, and so is what they gave.
LimitsRestart ==
  /\ limitReq' = [s \in LimitSlots |-> NoRequest]
  /\ IF store = "redis" THEN UNCHANGED <<counter, spent>>
     ELSE counter' = [k \in {} |-> {}] /\ spent' = [x \in {} |-> {}]
  /\ UNCHANGED <<store, served, grounds>>

LimitsNext ==
  \/ \E s \in LimitSlots :
       \/ \E r \in Requests : RequestArrives(s, r)
       \/ \E k \in limitReq[s].keys : Consume(s, k)
       \/ NextMiddleware(s)
  \/ Tick \/ LimitsRestart

LimitsSpec == LimitsInit /\ [][LimitsNext]_limitVars
-------------------------------------------------------------------------------
\* Within any duration a limiter lets less than twice its points of one subject
\* pass, since a window starts with the first of them; and it refuses one only if
\* it gave all its points to that subject in the last two durations, whatever
\* requests of other subjects did.  For the contact form, the search, the tracking
\* and the webhook a subject is an address as headers name it: neither half says
\* anything of one client whose requests name several, or of several under one name.
\* A store that fails may refuse anyone.
RateLimited ==
  /\ \A x \in DOMAIN spent : Spent(x, Window) <= 2 * Points[x.limiter] - 1
  /\ grounds.given >= Points[grounds.limiter]
===================================================================================
