-------------------------------- MODULE Sessions --------------------------------
(***************************************************************************)
(* The sessions of one user: login behind the account lock, and the        *)
(* rotation of refresh tokens with its reuse detection (AuthService.login  *)
(* and refresh, tokenRepo.ts, accountLock.ts).  Devices hold the refresh   *)
(* cookie of the last answer they received.                                *)
(*                                                                         *)
(* logout has no step here: its route attaches no user, so it revokes      *)
(* nothing, and it clears the refresh cookie under a path other than the   *)
(* one it was set with.  changePassword and resetPassword revoke nothing   *)
(* either.                                                                 *)
(***************************************************************************)
EXTENDS Integers, Sequences, FiniteSets

CONSTANTS
  Devices,
  NoDevice,       \* not a device
  AuthSlots,      \* requests being served
  MaxTokens,      \* bound: rows of RefreshToken
  MaxFailures,    \* env.MAX_FAILED_LOGIN_ATTEMPTS
  FailureBound    \* bound: login_failed events, where no lock stops them

ASSUME SessionsAssumption ==
  /\ NoDevice \notin Devices
  /\ MaxTokens \in Nat /\ MaxFailures \in Nat \ {0} /\ FailureBound \in Nat
  /\ IsFiniteSet(AuthSlots)

VARIABLES
  tokens,       \* the RefreshToken rows in the order of createdAt; root is the
                \* token of the login a token descends from (history)
  held,         \* held[d]: the token of d's refresh cookie, 0 if none
  authPc, authReq,   \* the step a slot takes next; the device and its token
  failures,     \* login_failed events within the lockout window
  lowerCase,    \* the user's e-mail has no capital: the lock looks for that
  ended,        \* how many tokens there were when all were last revoked (history)
  raced,        \* roots of tokens whose refreshes overlapped each other, or the
                \* revocation of all (history)
  excuse        \* two devices hold cookies, two requests overlapped, or an
                \* answer was lost (history)

sessionVars ==
  <<tokens, held, authPc, authReq, failures, lowerCase, ended, raced, excuse>>

TokenIds == 1 .. MaxTokens
NoAuthRequest == [device |-> NoDevice, token |-> 0]

SessionsTypeOK ==
  /\ tokens \in Seq([revoked : BOOLEAN, root : TokenIds]) /\ Len(tokens) <= MaxTokens
  /\ held \in [Devices -> 0 .. Len(tokens)]
  /\ authPc \in [AuthSlots -> {"idle", "password", "rotate", "issue", "answer",
                               "revokeAll"}]
  /\ authReq \in [AuthSlots -> [device : Devices \cup {NoDevice},
                                token : 0 .. Len(tokens)]]
  /\ failures \in Nat
  /\ lowerCase \in BOOLEAN /\ excuse \in BOOLEAN
  /\ ended \in 0 .. Len(tokens)
  /\ raced \subseteq TokenIds

SessionsInit ==
  /\ tokens = <<>>
  /\ held = [d \in Devices |-> 0]
  /\ authPc = [s \in AuthSlots |-> "idle"]
  /\ authReq = [s \in AuthSlots |-> NoAuthRequest]
  /\ failures = 0 /\ ended = 0 /\ raced = {}
  /\ lowerCase \in BOOLEAN
  /\ excuse = FALSE

AuthGoto(s, next, token) ==
  /\ authPc' = [authPc EXCEPT ![s] = next]
  /\ authReq' = [authReq EXCEPT ![s].token = token]

AuthDone(s) ==
  /\ authPc' = [authPc EXCEPT ![s] = "idle"]
  /\ authReq' = [authReq EXCEPT ![s] = NoAuthRequest]

Live == {t \in DOMAIN tokens : ~tokens[t].revoked}
Latest == CHOOSE t \in Live : \A u \in Live : u <= t
Others(s) == {r \in AuthSlots \ {s} : authPc[r] # "idle"}
Root(t) == tokens[t].root

\* The slots between the read and the end of the rotation of a token of root.
Rotating(root) ==
  {s \in AuthSlots : authPc[s] \in {"rotate", "issue"} /\ Root(authReq[s].token) = root}
Guessing == {s \in AuthSlots : authPc[s] = "password"}
-------------------------------------------------------------------------------
(* login: the lock counts, the password is verified, the outcome recorded. *)

\* Mutant of LoginCheck: one failure too many is let through.
LoginCheckLate(s, d) ==
  /\ authPc[s] = "idle"
  /\ failures < FailureBound
  /\ lowerCase => failures <= MaxFailures
  /\ authPc' = [authPc EXCEPT ![s] = "password"]
  /\ authReq' = [authReq EXCEPT ![s].device = d]
  /\ excuse' = (excuse \/ Others(s) # {} \/ \E e \in Devices \ {d} : held[e] # 0)
  /\ UNCHANGED <<tokens, held, failures, lowerCase, ended, raced>>

\* checkAccountLock looks the e-mail up in lower case, and lets an address it
\* does not find through.
LoginCheck(s, d) ==
  /\ authPc[s] = "idle"
  /\ failures < FailureBound
  /\ lowerCase => failures < MaxFailures
  /\ authPc' = [authPc EXCEPT ![s] = "password"]
  /\ authReq' = [authReq EXCEPT ![s].device = d]
  /\ excuse' = (excuse \/ Others(s) # {} \/ \E e \in Devices \ {d} : held[e] # 0)
  /\ UNCHANGED <<tokens, held, failures, lowerCase, ended, raced>>

\* A failure that cannot be recorded is ignored.
WrongPassword(s) ==
  /\ authPc[s] = "password"
  /\ failures' \in {failures, failures + 1}
  /\ AuthDone(s)
  /\ UNCHANGED <<tokens, held, lowerCase, ended, raced, excuse>>

RightPassword(s) ==
  LET t == Len(tokens) + 1
  IN /\ authPc[s] = "password"
     /\ t <= MaxTokens
     /\ tokens' = Append(tokens, [revoked |-> FALSE, root |-> t])
     /\ AuthGoto(s, "answer", t)
     /\ UNCHANGED <<held, failures, lowerCase, ended, raced, excuse>>

\* A failure grows older than LOGIN_LOCKOUT_WINDOW_MINUTES.
FailureExpires ==
  /\ failures > 0
  /\ failures' = failures - 1
  /\ UNCHANGED <<tokens, held, authPc, authReq, lowerCase, ended, raced, excuse>>
-------------------------------------------------------------------------------
(* refresh: compare with the newest live token, revoke it, issue the next. *)

\* Without a live token the request is refused and nothing changes.
RefreshRead(s, d) ==
  /\ authPc[s] = "idle"
  /\ held[d] # 0
  /\ Live # {}
  /\ authReq' = [authReq EXCEPT ![s] = [device |-> d, token |-> held[d]]]
  /\ authPc' = [authPc EXCEPT ![s] = IF Latest = held[d] THEN "rotate" ELSE "revokeAll"]
  /\ raced' = IF Latest = held[d] /\ Rotating(Root(held[d])) # {}
              THEN raced \cup {Root(held[d])} ELSE raced
  /\ excuse' = (excuse \/ Others(s) # {})
  /\ UNCHANGED <<tokens, held, failures, lowerCase, ended>>

\* Mutant of Rotate: the presented token stays live.
RotateKeeping(s) ==
  /\ authPc[s] = "rotate"
  /\ AuthGoto(s, "issue", authReq[s].token)
  /\ UNCHANGED <<tokens, held, failures, lowerCase, ended, raced, excuse>>

Rotate(s) ==
  LET t == authReq[s].token
  IN /\ authPc[s] = "rotate"
     /\ tokens' = [tokens EXCEPT ![t].revoked = TRUE]
     /\ AuthGoto(s, "issue", t)
     /\ UNCHANGED <<held, failures, lowerCase, ended, raced, excuse>>

Issue(s) ==
  /\ authPc[s] = "issue"
  /\ Len(tokens) < MaxTokens
  /\ tokens' = Append(tokens, [revoked |-> FALSE, root |-> Root(authReq[s].token)])
  /\ AuthGoto(s, "answer", Len(tokens) + 1)
  /\ UNCHANGED <<held, failures, lowerCase, ended, raced, excuse>>

\* The device receives the cookie.
Answer(s) ==
  /\ authPc[s] = "answer"
  /\ held' = [held EXCEPT ![authReq[s].device] = authReq[s].token]
  /\ AuthDone(s)
  /\ UNCHANGED <<tokens, failures, lowerCase, ended, raced, excuse>>

\* Reuse detected: every live token of the user is revoked.
RevokeAll(s) ==
  /\ authPc[s] = "revokeAll"
  /\ tokens' = [t \in DOMAIN tokens |-> [tokens[t] EXCEPT !.revoked = TRUE]]
  /\ ended' = Len(tokens)
  /\ raced' = raced \cup {root \in TokenIds : Rotating(root) # {}}
  /\ AuthDone(s)
  /\ UNCHANGED <<held, failures, lowerCase, excuse>>

\* A crash, a database error, or an answer that does not arrive.
AuthAbort(s) ==
  /\ authPc[s] # "idle"
  /\ AuthDone(s)
  /\ excuse' = TRUE
  /\ UNCHANGED <<tokens, held, failures, lowerCase, ended, raced>>

SessionsNext ==
  \/ \E s \in AuthSlots :
       \/ \E d \in Devices : LoginCheck(s, d) \/ RefreshRead(s, d)
       \/ WrongPassword(s) \/ RightPassword(s) \/ Rotate(s) \/ Issue(s)
       \/ Answer(s) \/ RevokeAll(s) \/ AuthAbort(s)
  \/ FailureExpires

SessionsSpec == SessionsInit /\ [][SessionsNext]_sessionVars
-------------------------------------------------------------------------------
\* Every live token descends from a login made after the last reuse alarm, and
\* is the only live one of that login: neither the token it replaced nor one
\* the alarm revoked has a living successor, unless a rotation overlapped
\* another or the alarm.
SessionsFollowLogins ==
  \A t \in Live : Root(t) \in raced \/
    /\ Root(t) > ended
    /\ \A u \in Live : Root(u) = Root(t) => u = t

\* No false alarm: a user with one device, whose requests do not overlap and
\* whose answers all arrive, is never taken for a thief of the user's own token
\* and logged out everywhere.
NoFalseAlarm == ended > 0 => excuse

\* A login yields one living token, and ends only by the alarm it deserves.
SessionsSound == SessionsFollowLogins /\ NoFalseAlarm

\* The lock holds under concurrent guesses: the failures in the window and the
\* passwords being verified exceed the limit by no more than the requests that
\* were served at once.  (An address with a capital is never locked.)
FailuresBounded ==
  lowerCase =>
    failures + Cardinality(Guessing) <= MaxFailures + Cardinality(AuthSlots) - 1
===============================================================================
