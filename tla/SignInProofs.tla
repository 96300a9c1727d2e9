----------------------------- MODULE SignInProofs -----------------------------
(* Theorems about Sessions and OneTimeCodes. *)
EXTENDS Sessions, OneTimeCodes, SequenceTheorems, FiniteSetTheorems,
        WellFoundedInduction, TLAPS
-------------------------------------------------------------------------------
(* What holds of Sessions for every number of devices, tokens and requests. *)

TokenRows == [revoked : BOOLEAN, root : TokenIds]
AuthSteps == {"idle", "password", "rotate", "issue", "answer", "revokeAll"}
AuthRequests(n) == [device : Devices \cup {NoDevice}, token : 0 .. n]

\* A set of numbers with a bound has a greatest one.
LEMMA GreatestExists ==
  ASSUME NEW n \in Nat, NEW S \in SUBSET (0 .. n), S # {}
  PROVE  \E t \in S : \A u \in S : u <= t
  <1> DEFINE T == {m \in Nat : \E t \in S : m = n - t}
             R == OpToRel(<, Nat)
  <1>1. T \subseteq Nat /\ T # {} /\ (\A t \in S : n - t \in T)
    <2>1. \A t \in S : t \in 0 .. n /\ n - t \in Nat
      OBVIOUS
    <2>2. QED BY <2>1
  <1>2. IsWellFoundedOn(R, Nat)
    BY NatLessThanWellFounded
  <1>3. \A x, y \in Nat : y < x => <<y, x>> \in R
    BY DEF OpToRel
  <1> HIDE DEF R, T
  <1>4. PICK x \in T : \A y \in T : ~(<<y, x>> \in R)
    BY <1>1, <1>2, WFMin
  <1>5. ASSUME NEW y \in T PROVE x <= y
    <2>1. x \in Nat /\ y \in Nat
      BY <1>1
    <2>2. ~(y < x)
      BY <1>3, <1>4, <2>1
    <2>3. QED BY <2>1, <2>2
  <1>6. PICK t \in S : x = n - t
    BY <1>4 DEF T
  <1>7. ASSUME NEW u \in S PROVE u <= t
    <2>1. n - t <= n - u
      BY <1>1, <1>5, <1>6
    <2>2. t \in 0 .. n /\ u \in 0 .. n
      OBVIOUS
    <2>3. QED BY <2>1, <2>2
  <1>8. QED BY <1>7

\* A request knows its device, a rotation its token; a token descends from one
\* that is not younger.
Linked ==
  /\ \A s \in AuthSlots : authPc[s] # "idle" => authReq[s].device \in Devices
  /\ \A s \in AuthSlots :
       authPc[s] \in {"rotate", "issue"} => authReq[s].token \in DOMAIN tokens
  /\ \A t \in DOMAIN tokens : tokens[t].root <= t

LiveOf(t, root) == ~tokens[t].revoked /\ tokens[t].root = root
Rotates(s, root) ==
  authPc[s] \in {"rotate", "issue"} /\ tokens[authReq[s].token].root = root

\* The tokens of one login: one lives, or one request is about to issue the next.
OneLine(root) ==
  /\ \A t, u \in DOMAIN tokens : LiveOf(t, root) /\ LiveOf(u, root) => t = u
  /\ \A t \in DOMAIN tokens : LiveOf(t, root) => root > ended
  /\ \A r, s \in AuthSlots : Rotates(r, root) /\ Rotates(s, root) => r = s
  /\ \A s \in AuthSlots : Rotates(s, root) =>
       /\ root > ended
       /\ authPc[s] = "rotate" => LiveOf(authReq[s].token, root)
       /\ authPc[s] = "issue" => \A t \in DOMAIN tokens : ~LiveOf(t, root)

Lines == \A root \in TokenIds : root \in raced \/ OneLine(root)

\* The last token is a live one.
LastLives == tokens # <<>> /\ ~tokens[Len(tokens)].revoked

\* One device, one request at a time, and the cookie is the last token unless a
\* new one is on its way.
Calm == excuse \/
  /\ ended = 0
  /\ \A r, s \in AuthSlots : authPc[r] # "idle" /\ authPc[s] # "idle" => r = s
  /\ \A d, e \in Devices : held[d] # 0 /\ held[e] # 0 => d = e
  /\ \A s \in AuthSlots : authPc[s] # "idle" =>
       /\ authPc[s] # "revokeAll"
       /\ \A d \in Devices : held[d] # 0 => d = authReq[s].device
       /\ authPc[s] = "answer" => authReq[s].token = Len(tokens) /\ LastLives
  /\ (\A s \in AuthSlots : authPc[s] \notin {"issue", "answer"}) =>
       \A d \in Devices : held[d] # 0 => held[d] = Len(tokens) /\ LastLives

SessInv == SessionsTypeOK /\ Linked /\ Lines /\ Calm

LEMMA TokensNumbered ==
  ASSUME SessionsTypeOK
  PROVE  /\ Len(tokens) \in Nat /\ DOMAIN tokens = 1 .. Len(tokens)
         /\ \A t \in DOMAIN tokens : tokens[t] \in TokenRows /\ tokens[t].root \in TokenIds
         /\ MaxTokens \in Nat /\ DOMAIN tokens \subseteq TokenIds
  <1>1. tokens \in Seq(TokenRows) /\ Len(tokens) <= MaxTokens /\ MaxTokens \in Nat
    BY SessionsAssumption DEF SessionsTypeOK, TokenRows
  <1>2. /\ Len(tokens) \in Nat /\ DOMAIN tokens = 1 .. Len(tokens)
        /\ \A t \in DOMAIN tokens : tokens[t] \in TokenRows
    BY <1>1, LenProperties, ElementOfSeq
  <1>3. \A t \in DOMAIN tokens : tokens[t].root \in TokenIds
    BY <1>2 DEF TokenRows
  <1>4. QED BY <1>1, <1>2, <1>3 DEF TokenIds

LEMMA InvIsSound == SessInv => SessionsSound
  <1> SUFFICES ASSUME SessInv PROVE SessionsSound
    OBVIOUS
  <1>1. SessionsFollowLogins
    <2> SUFFICES ASSUME NEW t \in Live, Root(t) \notin raced
                 PROVE  Root(t) > ended /\ \A u \in Live : Root(u) = Root(t) => u = t
      BY DEF SessionsFollowLogins
    <2>1. t \in DOMAIN tokens /\ tokens[t].root \in TokenIds
      BY TokensNumbered DEF SessInv, Live
    <2>2. OneLine(Root(t))
      BY <2>1 DEF SessInv, Lines, Root
    <2>3. QED BY <2>1, <2>2 DEF OneLine, LiveOf, Live, Root
  <1>2. NoFalseAlarm
    BY DEF SessInv, Calm, NoFalseAlarm
  <1>3. QED BY <1>1, <1>2 DEF SessionsSound

LEMMA SessionsAtFirst == SessionsInit => SessInv
  <1> SUFFICES ASSUME SessionsInit PROVE SessInv
    OBVIOUS
  <1>1. tokens = <<>> /\ Len(tokens) = 0 /\ DOMAIN tokens = {} /\ tokens \in Seq(TokenRows)
    BY EmptySeq DEF SessionsInit
  <1>2. SessionsTypeOK
    <2>1. Len(tokens) <= MaxTokens
      BY <1>1, SessionsAssumption
    <2>2. /\ held \in [Devices -> 0 .. Len(tokens)]
          /\ authPc \in [AuthSlots -> AuthSteps]
          /\ authReq \in [AuthSlots -> AuthRequests(Len(tokens))]
      BY <1>1 DEF SessionsInit, AuthSteps, AuthRequests, NoAuthRequest
    <2>3. failures \in Nat /\ ended \in 0 .. Len(tokens) /\ raced \subseteq TokenIds
      BY <1>1 DEF SessionsInit
    <2>4. lowerCase \in BOOLEAN /\ excuse \in BOOLEAN
      BY Zenon DEF SessionsInit
    <2>5. QED
      BY <1>1, <2>1, <2>2, <2>3, <2>4 DEF SessionsTypeOK, TokenRows, AuthSteps, AuthRequests
  <1>3. /\ \A s \in AuthSlots : authPc[s] = "idle"
        /\ \A d \in Devices : held[d] = 0
        /\ ended = 0
    BY DEF SessionsInit
  <1>4. Linked /\ Lines /\ Calm
    BY <1>1, <1>3 DEF Linked, Lines, OneLine, Rotates, Calm
  <1>5. QED BY <1>2, <1>4 DEF SessInv
-------------------------------------------------------------------------------
\* One slot goes to a step with a request, and the others stay where they are.
Moves(s, step, req) ==
  /\ authPc' = [authPc EXCEPT ![s] = step]
  /\ authReq' = [authReq EXCEPT ![s] = req]

LEMMA Moved ==
  ASSUME SessionsTypeOK, NEW s \in AuthSlots, NEW step \in AuthSteps,
         NEW n \in Nat, Len(tokens) <= n, NEW req \in AuthRequests(n), Moves(s, step, req)
  PROVE  /\ authPc' \in [AuthSlots -> AuthSteps] /\ authReq' \in [AuthSlots -> AuthRequests(n)]
         /\ authPc'[s] = step /\ authReq'[s] = req
         /\ \A r \in AuthSlots \ {s} : authPc'[r] = authPc[r] /\ authReq'[r] = authReq[r]
  <1>1. Len(tokens) \in Nat
    BY TokensNumbered
  <1>2. authReq \in [AuthSlots -> AuthRequests(n)]
    <2>1. AuthRequests(Len(tokens)) \subseteq AuthRequests(n)
      BY <1>1 DEF AuthRequests
    <2>2. QED BY <2>1 DEF SessionsTypeOK, AuthRequests
  <1>3. authPc \in [AuthSlots -> AuthSteps]
    BY DEF SessionsTypeOK, AuthSteps
  <1>4. QED BY <1>2, <1>3 DEF Moves

LEMMA DoneMoves ==
  ASSUME NEW s \in AuthSlots, AuthDone(s), NEW n \in Nat
  PROVE  NoAuthRequest \in AuthRequests(n) /\ Moves(s, "idle", NoAuthRequest)
  BY DEF AuthDone, Moves, NoAuthRequest, AuthRequests

LEMMA GotoMoves ==
  ASSUME SessionsTypeOK, NEW s \in AuthSlots, NEW step, NEW n \in Nat, Len(tokens) <= n,
         NEW token \in 0 .. n, AuthGoto(s, step, token)
  PROVE  \E req \in AuthRequests(n) :
           /\ req.device = authReq[s].device /\ req.token = token
           /\ Moves(s, step, req)
  <1> DEFINE req == [authReq[s] EXCEPT !.token = token]
  <1>1. authReq[s] \in AuthRequests(Len(tokens))
    BY DEF SessionsTypeOK, AuthRequests
  <1>2. req \in AuthRequests(n) /\ req.device = authReq[s].device /\ req.token = token
    BY <1>1 DEF AuthRequests
  <1>3. Moves(s, step, req)
    BY DEF AuthGoto, Moves
  <1>4. QED BY <1>2, <1>3

LEMMA Grown ==
  ASSUME SessionsTypeOK, NEW row \in TokenRows, tokens' = Append(tokens, row)
  PROVE  /\ tokens' \in Seq(TokenRows) /\ Len(tokens') = Len(tokens) + 1
         /\ DOMAIN tokens' = 1 .. Len(tokens) + 1
         /\ DOMAIN tokens = 1 .. Len(tokens) /\ Len(tokens) \in Nat
         /\ \A t \in DOMAIN tokens : t # Len(tokens) + 1 /\ tokens'[t] = tokens[t]
         /\ tokens'[Len(tokens) + 1] = row
  <1>1. tokens \in Seq(TokenRows)
    BY DEF SessionsTypeOK, TokenRows
  <1>2. QED BY <1>1, TokensNumbered, AppendProperties

\* A step that leaves the tokens alone and moves one slot.
LEMMA LinesKept ==
  ASSUME SessInv, NEW s \in AuthSlots, UNCHANGED <<tokens, ended>>, raced \subseteq raced',
         \A r \in AuthSlots \ {s} : authPc'[r] = authPc[r] /\ authReq'[r] = authReq[r],
         \A root \in TokenIds : Rotates(s, root)' /\ root \notin raced' =>
           /\ root > ended /\ \A r \in AuthSlots \ {s} : ~Rotates(r, root)
           /\ authPc'[s] = "rotate" /\ LiveOf(authReq'[s].token, root)
  PROVE  Lines'
  <1> SUFFICES ASSUME NEW root \in TokenIds, root \notin raced' PROVE OneLine(root)'
    BY DEF Lines
  <1>1. OneLine(root)
    BY DEF SessInv, Lines
  <1>2. \A t : LiveOf(t, root)' <=> LiveOf(t, root)
    BY DEF LiveOf
  <1>3. \A r \in AuthSlots \ {s} : Rotates(r, root)' <=> Rotates(r, root)
    BY DEF Rotates
  <1>4. \A q, r \in AuthSlots : Rotates(q, root)' /\ Rotates(r, root)' => q = r
    BY <1>1, <1>3 DEF OneLine
  <1>5. ASSUME NEW r \in AuthSlots, Rotates(r, root)'
        PROVE  /\ root > ended'
               /\ authPc'[r] = "rotate" => LiveOf(authReq[r].token, root)'
               /\ authPc'[r] = "issue" => \A t \in DOMAIN tokens' : ~LiveOf(t, root)'
    <2>1. CASE r = s
      BY <1>5, <2>1 DEF LiveOf
    <2>2. CASE r # s
      BY <1>1, <1>3, <1>5, <2>2 DEF OneLine, LiveOf
    <2>3. QED BY <2>1, <2>2
  <1>6. QED BY <1>1, <1>2, <1>4, <1>5 DEF OneLine, LiveOf
-------------------------------------------------------------------------------
(* The steps that leave the tokens alone. *)

\* The types after a step that moves one slot and no token.
LEMMA TypesKept ==
  ASSUME SessInv, NEW s \in AuthSlots, NEW step \in AuthSteps,
         NEW req \in AuthRequests(Len(tokens)), Moves(s, step, req),
         UNCHANGED <<tokens, lowerCase, ended>>,
         held' \in [Devices -> 0 .. Len(tokens)], failures' \in Nat,
         raced' \subseteq TokenIds, excuse' \in BOOLEAN,
         step # "idle" => req.device \in Devices,
         step \in {"rotate", "issue"} => req.token \in DOMAIN tokens
  PROVE  /\ SessionsTypeOK' /\ Linked'
         /\ authPc'[s] = step /\ authReq'[s] = req
         /\ \A r \in AuthSlots \ {s} : authPc'[r] = authPc[r] /\ authReq'[r] = authReq[r]
  <1>1. SessionsTypeOK /\ Linked /\ Len(tokens) \in Nat
    BY TokensNumbered DEF SessInv
  <1>2. /\ authPc' \in [AuthSlots -> AuthSteps]
        /\ authReq' \in [AuthSlots -> AuthRequests(Len(tokens))]
        /\ authPc'[s] = step /\ authReq'[s] = req
        /\ \A r \in AuthSlots \ {s} : authPc'[r] = authPc[r] /\ authReq'[r] = authReq[r]
    BY <1>1, Moved
  <1>3. SessionsTypeOK'
    BY <1>1, <1>2 DEF SessionsTypeOK, AuthSteps, AuthRequests
  <1>4. Linked'
    BY <1>1, <1>2 DEF Linked
  <1>5. QED BY <1>2, <1>3, <1>4

LEMMA LoginCheckKeeps ==
  ASSUME SessInv, NEW s \in AuthSlots, NEW d \in Devices, LoginCheck(s, d)
  PROVE  SessInv'
  <1>1. SessionsTypeOK
    BY DEF SessInv
  <1> DEFINE req == [authReq[s] EXCEPT !.device = d]
  <1>2. req \in AuthRequests(Len(tokens)) /\ req.device = d
    BY <1>1 DEF SessionsTypeOK, AuthRequests
  <1>3. /\ Moves(s, "password", req) /\ authPc[s] = "idle"
        /\ UNCHANGED <<tokens, held, failures, lowerCase, ended, raced>>
        /\ excuse' = (excuse \/ Others(s) # {} \/ \E e \in Devices \ {d} : held[e] # 0)
    BY DEF LoginCheck, Moves
  <1> HIDE DEF req
  <1>4. /\ held' \in [Devices -> 0 .. Len(tokens)] /\ failures' \in Nat
        /\ raced' \subseteq TokenIds /\ excuse' \in BOOLEAN
    BY <1>1, <1>3 DEF SessionsTypeOK
  <1>5. /\ SessionsTypeOK' /\ Linked'
        /\ authPc'[s] = "password" /\ authReq'[s] = req
        /\ \A r \in AuthSlots \ {s} : authPc'[r] = authPc[r] /\ authReq'[r] = authReq[r]
    BY <1>2, <1>3, <1>4, TypesKept DEF AuthSteps
  <1>6. Lines'
    <2>1. \A root \in TokenIds : ~Rotates(s, root)'
      BY <1>5 DEF Rotates
    <2>2. QED BY <1>3, <1>5, <2>1, LinesKept
  <1>7. Calm'
    <2> SUFFICES ASSUME ~excuse' PROVE Calm'
      BY DEF Calm
    <2>1. ~excuse /\ (\A r \in AuthSlots \ {s} : authPc[r] = "idle")
          /\ (\A e \in Devices : held[e] # 0 => e = d)
      BY <1>3 DEF Others
    <2>2. QED BY <1>2, <1>3, <1>5, <2>1 DEF SessInv, Calm, LastLives
  <1>8. QED BY <1>5, <1>6, <1>7 DEF SessInv

\* The newest living token, if one lives.
LEMMA LatestLives ==
  ASSUME SessionsTypeOK, Live # {}
  PROVE  Latest \in Live /\ \A u \in Live : u <= Latest
  <1>1. Len(tokens) \in Nat /\ Live \in SUBSET (0 .. Len(tokens))
    BY TokensNumbered DEF Live
  <1>2. \E t \in Live : \A u \in Live : u <= t
    BY <1>1, GreatestExists
  <1>3. QED BY <1>2 DEF Latest

LEMMA RefreshReadKeeps ==
  ASSUME SessInv, NEW s \in AuthSlots, NEW d \in Devices, RefreshRead(s, d)
  PROVE  SessInv'
  <1> DEFINE newest == Latest = held[d]
             step == IF newest THEN "rotate" ELSE "revokeAll"
             req == [device |-> d, token |-> held[d]]
  <1>1. /\ SessionsTypeOK /\ Live # {} /\ authPc[s] = "idle" /\ held[d] # 0
        /\ Moves(s, step, req)
        /\ UNCHANGED <<tokens, held, failures, lowerCase, ended>>
        /\ excuse' = (excuse \/ Others(s) # {})
    BY DEF SessInv, RefreshRead, Moves
  <1>2. raced' = IF newest /\ Rotating(Root(held[d])) # {}
                 THEN raced \cup {Root(held[d])} ELSE raced
    BY DEF RefreshRead
  <1>3. /\ Latest \in Live /\ (\A u \in Live : u <= Latest)
        /\ Live \subseteq DOMAIN tokens
    BY <1>1, LatestLives DEF Live
  <1>4. /\ req \in AuthRequests(Len(tokens)) /\ step \in AuthSteps /\ req.device = d
        /\ newest => held[d] \in Live /\ Root(held[d]) \in TokenIds
    BY <1>1, <1>3, TokensNumbered DEF SessionsTypeOK, AuthRequests, AuthSteps, Root
  <1>5. raced' \subseteq TokenIds /\ raced \subseteq raced'
    BY <1>1, <1>2, <1>4 DEF SessionsTypeOK
  <1>6. held' \in [Devices -> 0 .. Len(tokens)] /\ failures' \in Nat
    BY <1>1 DEF SessionsTypeOK
  <1>7. excuse' \in BOOLEAN
    BY <1>1, Zenon DEF SessionsTypeOK
  <1>8. step \in {"rotate", "issue"} => req.token \in DOMAIN tokens
    BY <1>3, <1>4
  <1>9. /\ SessionsTypeOK' /\ Linked'
        /\ authPc'[s] = step /\ authReq'[s] = req
        /\ \A r \in AuthSlots \ {s} : authPc'[r] = authPc[r] /\ authReq'[r] = authReq[r]
    <2> HIDE DEF step, req
    <2>1. QED BY <1>1, <1>4, <1>5, <1>6, <1>7, <1>8, TypesKept
  <1>10. Lines'
    <2>1. ASSUME NEW root \in TokenIds, Rotates(s, root)', root \notin raced'
          PROVE  /\ root > ended /\ \A r \in AuthSlots \ {s} : ~Rotates(r, root)
                 /\ authPc'[s] = "rotate" /\ LiveOf(authReq'[s].token, root)
      <3>1. newest /\ root = Root(held[d])
        BY <1>1, <1>9, <2>1 DEF Rotates, Root
      <3>2. Rotating(root) = {} /\ root \notin raced
        BY <1>2, <1>5, <2>1, <3>1
      <3>3. held[d] \in DOMAIN tokens /\ LiveOf(held[d], root)
        BY <1>3, <1>4, <3>1 DEF Live, LiveOf, Root
      <3>4. root > ended
        BY <3>2, <3>3 DEF SessInv, Lines, OneLine
      <3>5. \A r \in AuthSlots : ~Rotates(r, root)
        BY <3>2 DEF Rotating, Rotates, Root
      <3>6. QED BY <1>9, <3>1, <3>3, <3>4, <3>5
    <2>2. QED BY <1>1, <1>5, <1>9, <2>1, LinesKept
  <1>11. Calm'
    <2> SUFFICES ASSUME ~excuse' PROVE Calm'
      BY DEF Calm
    <2>1. ~excuse /\ (\A r \in AuthSlots : authPc[r] = "idle")
      BY <1>1 DEF Others
    <2>2. held[d] = Len(tokens) /\ LastLives /\ (\A e \in Devices : held[e] # 0 => e = d)
          /\ ended = 0
      BY <1>1, <2>1 DEF SessInv, Calm
    <2>3. Len(tokens) \in Live /\ (\A u \in Live : u <= Len(tokens) /\ u \in Nat)
      BY <1>1, <1>3, <2>2, TokensNumbered DEF Live, LastLives
    <2>4. newest
      BY <1>3, <2>2, <2>3
    <2>5. authPc'[s] = "rotate" /\ authReq'[s].device = d
      BY <1>9, <2>4
    <2>6. \A r \in AuthSlots : authPc'[r] # "idle" => r = s
      BY <1>9, <2>1
    <2>7. LastLives'
      BY <1>1, <2>2 DEF LastLives
    <2>8. QED BY <1>1, <2>2, <2>5, <2>6, <2>7 DEF Calm
  <1>12. QED BY <1>9, <1>10, <1>11 DEF SessInv

\* A request that ends; its answer, if it has one, changes the cookie.
LEMMA EndKeeps ==
  ASSUME SessInv, NEW s \in AuthSlots, AuthDone(s),
         UNCHANGED <<tokens, lowerCase, ended, raced>>,
         held' \in [Devices -> 0 .. Len(tokens)], failures' \in Nat, excuse' \in BOOLEAN,
         Calm'
  PROVE  SessInv'
  <1>1. SessionsTypeOK /\ Len(tokens) \in Nat /\ raced' \subseteq TokenIds
    BY TokensNumbered DEF SessInv, SessionsTypeOK
  <1>2. NoAuthRequest \in AuthRequests(Len(tokens)) /\ Moves(s, "idle", NoAuthRequest)
    BY <1>1, DoneMoves
  <1>3. /\ SessionsTypeOK' /\ Linked' /\ authPc'[s] = "idle"
        /\ \A r \in AuthSlots \ {s} : authPc'[r] = authPc[r] /\ authReq'[r] = authReq[r]
    BY <1>1, <1>2, TypesKept DEF AuthSteps
  <1>4. \A root \in TokenIds : ~Rotates(s, root)'
    BY <1>3 DEF Rotates
  <1>5. Lines'
    BY <1>3, <1>4, LinesKept
  <1>6. QED BY <1>3, <1>5 DEF SessInv

LEMMA Ended ==
  ASSUME SessionsTypeOK, NEW s \in AuthSlots, AuthDone(s)
  PROVE  /\ authPc'[s] = "idle"
         /\ \A r \in AuthSlots \ {s} : authPc'[r] = authPc[r] /\ authReq'[r] = authReq[r]
  BY DEF SessionsTypeOK, AuthDone

LEMMA WrongPasswordKeeps ==
  ASSUME SessInv, NEW s \in AuthSlots, WrongPassword(s)
  PROVE  SessInv'
  <1>1. /\ SessionsTypeOK /\ authPc[s] = "password" /\ AuthDone(s)
        /\ failures' \in {failures, failures + 1}
        /\ UNCHANGED <<tokens, held, lowerCase, ended, raced, excuse>>
    BY DEF SessInv, WrongPassword
  <1>2. /\ held' \in [Devices -> 0 .. Len(tokens)] /\ failures' \in Nat
        /\ excuse' \in BOOLEAN
    BY <1>1 DEF SessionsTypeOK
  <1>3. Calm'
    BY <1>1, Ended DEF SessInv, Calm, LastLives
  <1>4. QED BY <1>1, <1>2, <1>3, EndKeeps

LEMMA AnswerKeeps ==
  ASSUME SessInv, NEW s \in AuthSlots, Answer(s)
  PROVE  SessInv'
  <1>0. PICK d \in Devices, t \in 0 .. Len(tokens) :
          d = authReq[s].device /\ t = authReq[s].token
    BY DEF SessInv, SessionsTypeOK, Linked, Answer
  <1>1. /\ SessionsTypeOK /\ authPc[s] = "answer" /\ AuthDone(s)
        /\ held' = [held EXCEPT ![d] = t]
        /\ UNCHANGED <<tokens, failures, lowerCase, ended, raced, excuse>>
    BY <1>0 DEF SessInv, Answer
  <1>2. /\ held' \in [Devices -> 0 .. Len(tokens)] /\ failures' \in Nat
        /\ excuse' \in BOOLEAN
        /\ held'[d] = t /\ \A e \in Devices \ {d} : held'[e] = held[e]
    BY <1>0, <1>1 DEF SessionsTypeOK
  <1>3. Calm'
    <2> SUFFICES ASSUME ~excuse PROVE Calm'
      BY <1>1 DEF Calm
    <2>1. /\ t = Len(tokens) /\ LastLives /\ ended = 0
          /\ \A r \in AuthSlots : authPc[r] # "idle" => r = s
          /\ \A e \in Devices : held[e] # 0 => e = d
      BY <1>0, <1>1 DEF SessInv, Calm
    <2>2. \A r \in AuthSlots : authPc'[r] = "idle"
      BY <1>1, <2>1, Ended
    <2>3. \A e \in Devices : held'[e] # 0 => e = d
      BY <1>2, <2>1
    <2>4. LastLives'
      BY <1>1, <2>1 DEF LastLives
    <2>5. QED BY <1>1, <1>2, <2>1, <2>2, <2>3, <2>4 DEF Calm
  <1>4. QED BY <1>1, <1>2, <1>3, EndKeeps

LEMMA AbortKeeps ==
  ASSUME SessInv, NEW s \in AuthSlots, AuthAbort(s)
  PROVE  SessInv'
  <1>1. /\ AuthDone(s) /\ excuse' = TRUE
        /\ UNCHANGED <<tokens, held, failures, lowerCase, ended, raced>>
    BY DEF AuthAbort
  <1>2. /\ held' \in [Devices -> 0 .. Len(tokens)] /\ failures' \in Nat
        /\ excuse' \in BOOLEAN /\ Calm'
    BY <1>1 DEF SessInv, SessionsTypeOK, Calm
  <1>3. QED BY <1>1, <1>2, EndKeeps

LEMMA FailureExpiresKeeps ==
  ASSUME SessInv, FailureExpires
  PROVE  SessInv'
  <1>1. /\ failures > 0 /\ failures' = failures - 1
        /\ UNCHANGED <<tokens, held, authPc, authReq, lowerCase, ended, raced, excuse>>
    BY DEF FailureExpires
  <1>2. SessionsTypeOK' /\ Linked'
    BY <1>1 DEF SessInv, SessionsTypeOK, Linked
  <1>3. Lines'
    BY <1>1 DEF SessInv, Lines, OneLine, Rotates, LiveOf
  <1>4. Calm'
    BY <1>1 DEF SessInv, Calm, LastLives
  <1>5. QED BY <1>2, <1>3, <1>4 DEF SessInv
-------------------------------------------------------------------------------
(* The steps that write tokens. *)

\* The types after a new token and a move to "answer" with it.
LEMMA GrowthTyped ==
  ASSUME SessInv, NEW s \in AuthSlots, authPc[s] # "idle", Len(tokens) < MaxTokens,
         NEW row \in TokenRows, tokens' = Append(tokens, row), row.root <= Len(tokens) + 1,
         AuthGoto(s, "answer", Len(tokens) + 1),
         UNCHANGED <<held, failures, lowerCase, ended, raced, excuse>>
  PROVE  /\ SessionsTypeOK' /\ Linked'
         /\ authPc'[s] = "answer" /\ authReq'[s].token = Len(tokens')
         /\ authReq'[s].device = authReq[s].device
         /\ \A r \in AuthSlots \ {s} : authPc'[r] = authPc[r] /\ authReq'[r] = authReq[r]
         /\ \A root \in TokenIds : \A r \in AuthSlots :
              Rotates(r, root)' <=> r # s /\ Rotates(r, root)
  <1> DEFINE n == Len(tokens) + 1
  <1>1. SessionsTypeOK /\ Linked /\ n \in Nat /\ Len(tokens) <= n /\ n \in 0 .. n
    BY TokensNumbered DEF SessInv
  <1>2. /\ tokens' \in Seq(TokenRows) /\ Len(tokens') = n
        /\ DOMAIN tokens' = 1 .. n /\ DOMAIN tokens = 1 .. Len(tokens)
        /\ Len(tokens) \in Nat
        /\ \A t \in DOMAIN tokens : t # n /\ tokens'[t] = tokens[t]
        /\ tokens'[n] = row
    BY <1>1, Grown
  <1>3. PICK req \in AuthRequests(n) :
          /\ req.device = authReq[s].device /\ req.token = n
          /\ Moves(s, "answer", req)
    BY <1>1, GotoMoves
  <1> HIDE DEF n
  <1>4. /\ authPc' \in [AuthSlots -> AuthSteps] /\ authReq' \in [AuthSlots -> AuthRequests(n)]
        /\ authPc'[s] = "answer" /\ authReq'[s] = req
        /\ \A r \in AuthSlots \ {s} : authPc'[r] = authPc[r] /\ authReq'[r] = authReq[r]
    BY <1>1, <1>3, Moved DEF AuthSteps
  <1>5. SessionsTypeOK'
    <2>1. n <= MaxTokens
      BY <1>1, <1>2, SessionsAssumption DEF n
    <2>2. held' \in [Devices -> 0 .. n] /\ ended' \in 0 .. n
      <3>1. 0 .. Len(tokens) \subseteq 0 .. n
        BY <1>1, <1>2
      <3>2. QED BY <1>1, <3>1 DEF SessionsTypeOK
    <2>3. QED
      BY <1>1, <1>2, <1>4, <2>1, <2>2 DEF SessionsTypeOK, TokenRows, AuthSteps, AuthRequests
  <1>6. DOMAIN tokens \subseteq DOMAIN tokens' /\ DOMAIN tokens' = DOMAIN tokens \cup {n}
    BY <1>1, <1>2 DEF n
  <1>7. Linked'
    <2>1. \A r \in AuthSlots : authPc'[r] # "idle" => authReq'[r].device \in Devices
      BY <1>1, <1>3, <1>4 DEF Linked
    <2>2. \A r \in AuthSlots :
             authPc'[r] \in {"rotate", "issue"} => authReq'[r].token \in DOMAIN tokens'
      BY <1>1, <1>4, <1>6 DEF Linked
    <2>3. \A t \in DOMAIN tokens' : tokens'[t].root <= t
      BY <1>1, <1>2, <1>6 DEF Linked, n
    <2>4. QED BY <2>1, <2>2, <2>3 DEF Linked
  <1>8. \A root \in TokenIds : \A r \in AuthSlots :
           Rotates(r, root)' <=> r # s /\ Rotates(r, root)
    BY <1>1, <1>2, <1>4 DEF Linked, Rotates
  <1>9. QED BY <1>2, <1>3, <1>4, <1>5, <1>7, <1>8

\* The lines after it: the new token is the only living one of its login.
LEMMA GrowthLines ==
  ASSUME SessInv, NEW s \in AuthSlots, NEW row \in TokenRows,
         tokens' = Append(tokens, row), ~row.revoked,
         UNCHANGED <<ended, raced>>,
         \A r \in AuthSlots \ {s} : authPc'[r] = authPc[r] /\ authReq'[r] = authReq[r],
         \A root \in TokenIds : \A r \in AuthSlots :
           Rotates(r, root)' <=> r # s /\ Rotates(r, root),
         row.root \notin raced =>
           /\ row.root > ended
           /\ \A t \in DOMAIN tokens : ~LiveOf(t, row.root)
           /\ \A r \in AuthSlots : ~Rotates(r, row.root)'
  PROVE  Lines'
  <1>0. PICK n \in Nat : n = Len(tokens) + 1
    BY TokensNumbered DEF SessInv
  <1>1. SessionsTypeOK /\ Linked
    BY DEF SessInv
  <1>2. /\ DOMAIN tokens' = 1 .. n /\ DOMAIN tokens = 1 .. Len(tokens)
        /\ Len(tokens) \in Nat
        /\ \A t \in DOMAIN tokens : t # n /\ tokens'[t] = tokens[t]
        /\ tokens'[n] = row
    BY <1>0, <1>1, Grown
  <1>3. DOMAIN tokens' = DOMAIN tokens \cup {n}
    BY <1>0, <1>2
  <1> SUFFICES ASSUME NEW root \in TokenIds, root \notin raced PROVE OneLine(root)'
    BY DEF Lines
  <1>4. OneLine(root)
    BY DEF SessInv, Lines
  <1>5. /\ \A t \in DOMAIN tokens : LiveOf(t, root)' <=> LiveOf(t, root)
        /\ LiveOf(n, root)' <=> row.root = root
    BY <1>2 DEF LiveOf
  <1>6. CASE row.root = root
    <2>1. /\ \A t \in DOMAIN tokens' : LiveOf(t, root)' => t = n
          /\ \A r \in AuthSlots : ~Rotates(r, root)'
      BY <1>3, <1>5, <1>6
    <2>2. QED BY <1>6, <2>1 DEF OneLine
  <1>7. CASE row.root # root
    <2>1. \A t \in DOMAIN tokens' : LiveOf(t, root)' <=> t \in DOMAIN tokens /\ LiveOf(t, root)
      BY <1>2, <1>3, <1>5, <1>7
    <2>2. \A r \in AuthSlots : Rotates(r, root)' =>
            /\ Rotates(r, root) /\ authPc'[r] = authPc[r] /\ authReq'[r] = authReq[r]
      OBVIOUS
    <2>3. \A r \in AuthSlots : Rotates(r, root) => authReq[r].token \in DOMAIN tokens
      BY <1>1 DEF Rotates, Linked
    <2>4. ASSUME NEW r \in AuthSlots, Rotates(r, root)'
          PROVE  /\ root > ended'
                 /\ authPc'[r] = "rotate" => LiveOf(authReq[r].token, root)'
                 /\ authPc'[r] = "issue" => \A t \in DOMAIN tokens' : ~LiveOf(t, root)'
      <3>1. /\ root > ended
            /\ authPc[r] = "rotate" => LiveOf(authReq[r].token, root)
            /\ authPc[r] = "issue" => \A t \in DOMAIN tokens : ~LiveOf(t, root)
        BY <1>4, <2>2, <2>4 DEF OneLine
      <3>2. PICK t \in DOMAIN tokens : t = authReq[r].token /\ t = authReq'[r].token
        BY <2>2, <2>3, <2>4
      <3>3. authPc'[r] = "rotate" => LiveOf(t, root)'
        BY <1>5, <2>2, <2>4, <3>1, <3>2
      <3>4. QED BY <2>1, <2>2, <2>4, <3>1, <3>2, <3>3 DEF LiveOf
    <2>5. QED BY <1>4, <2>1, <2>2, <2>4 DEF OneLine
  <1>8. QED BY <1>6, <1>7

\* What a user with one device and one request at a time sees of a new token.
LEMMA GrowthCalm ==
  ASSUME SessInv, NEW s \in AuthSlots, authPc[s] # "idle",
         NEW row \in TokenRows, tokens' = Append(tokens, row), ~row.revoked,
         authPc'[s] = "answer", authReq'[s].token = Len(tokens'),
         authReq'[s].device = authReq[s].device,
         \A r \in AuthSlots \ {s} : authPc'[r] = authPc[r],
         UNCHANGED <<held, ended, excuse>>
  PROVE  Calm'
  <1> SUFFICES ASSUME ~excuse PROVE Calm'
    BY DEF Calm
  <1>1. SessionsTypeOK
    BY DEF SessInv
  <1>2. /\ Len(tokens') = Len(tokens) + 1 /\ tokens'[Len(tokens) + 1] = row
        /\ DOMAIN tokens' = 1 .. Len(tokens) + 1 /\ Len(tokens) \in Nat
    BY <1>1, Grown
  <1>3. LastLives'
    <2>1. tokens' # <<>>
      BY <1>2
    <2>2. QED BY <1>2, <2>1 DEF LastLives
  <1>4. /\ ended = 0
        /\ \A r \in AuthSlots : authPc[r] # "idle" => r = s
        /\ \A d, e \in Devices : held[d] # 0 /\ held[e] # 0 => d = e
        /\ \A d \in Devices : held[d] # 0 => d = authReq[s].device
    BY DEF SessInv, Calm
  <1>5. \A r \in AuthSlots : authPc'[r] # "idle" => r = s
    BY <1>4
  <1>6. QED BY <1>3, <1>4, <1>5 DEF Calm

LEMMA RightPasswordKeeps ==
  ASSUME SessInv, NEW s \in AuthSlots, RightPassword(s)
  PROVE  SessInv'
  <1>0. PICK n \in Nat : n = Len(tokens) + 1
    BY TokensNumbered DEF SessInv
  <1> DEFINE row == [revoked |-> FALSE, root |-> n]
  <1>1. /\ SessionsTypeOK /\ Linked /\ Len(tokens) \in Nat /\ DOMAIN tokens = 1 .. Len(tokens)
        /\ MaxTokens \in Nat /\ ended \in 0 .. Len(tokens)
    BY TokensNumbered DEF SessInv, SessionsTypeOK
  <1>2. /\ authPc[s] # "idle" /\ n <= MaxTokens /\ tokens' = Append(tokens, row)
        /\ AuthGoto(s, "answer", n)
        /\ UNCHANGED <<held, failures, lowerCase, ended, raced, excuse>>
    BY <1>0 DEF RightPassword
  <1>3. row \in TokenRows /\ row.root = n /\ ~row.revoked /\ n > ended
    BY <1>0, <1>1, <1>2 DEF TokenRows, TokenIds
  <1>4. \A t \in DOMAIN tokens : tokens[t].root # n /\ ~LiveOf(t, n)
    <2>1. \A t \in DOMAIN tokens : tokens[t].root <= t /\ t <= Len(tokens)
                                   /\ tokens[t].root \in Int
      BY <1>1, TokensNumbered DEF Linked, TokenIds
    <2>2. QED BY <1>0, <1>1, <2>1 DEF LiveOf
  <1> HIDE DEF row
  <1>5. Len(tokens) < MaxTokens /\ row.root <= Len(tokens) + 1
    BY <1>0, <1>1, <1>2, <1>3
  <1>6. /\ SessionsTypeOK' /\ Linked'
        /\ authPc'[s] = "answer" /\ authReq'[s].token = Len(tokens')
        /\ authReq'[s].device = authReq[s].device
        /\ \A r \in AuthSlots \ {s} : authPc'[r] = authPc[r] /\ authReq'[r] = authReq[r]
        /\ \A root \in TokenIds : \A r \in AuthSlots :
             Rotates(r, root)' <=> r # s /\ Rotates(r, root)
    BY <1>0, <1>2, <1>3, <1>5, GrowthTyped
  <1>7. \A r \in AuthSlots : ~Rotates(r, n)
    BY <1>1, <1>4 DEF Rotates, Linked
  <1>8. row.root \in TokenIds
    BY <1>3 DEF TokenRows
  <1>9. \A r \in AuthSlots : ~Rotates(r, row.root)'
    BY <1>3, <1>6, <1>7, <1>8
  <1>10. Lines'
    BY <1>2, <1>3, <1>4, <1>6, <1>9, GrowthLines
  <1>11. Calm'
    BY <1>2, <1>3, <1>6, GrowthCalm
  <1>12. QED BY <1>6, <1>10, <1>11 DEF SessInv

LEMMA IssueKeeps ==
  ASSUME SessInv, NEW s \in AuthSlots, Issue(s)
  PROVE  SessInv'
  <1>1. /\ SessionsTypeOK /\ Linked /\ Len(tokens) \in Nat /\ DOMAIN tokens = 1 .. Len(tokens)
    BY TokensNumbered DEF SessInv
  <1>2. PICK t \in DOMAIN tokens : t = authReq[s].token
    BY <1>1 DEF Linked, Issue
  <1>3. PICK root \in TokenIds : root = tokens[t].root /\ root <= Len(tokens)
    BY <1>1, TokensNumbered DEF Linked, TokenIds
  <1> DEFINE row == [revoked |-> FALSE, root |-> root]
  <1>4. /\ authPc[s] = "issue" /\ Len(tokens) < MaxTokens /\ tokens' = Append(tokens, row)
        /\ AuthGoto(s, "answer", Len(tokens) + 1)
        /\ UNCHANGED <<held, failures, lowerCase, ended, raced, excuse>>
    BY <1>2, <1>3 DEF Issue, Root
  <1>5. row \in TokenRows /\ row.root = root /\ ~row.revoked /\ row.root <= Len(tokens) + 1
    BY <1>1, <1>3 DEF TokenRows, TokenIds
  <1> HIDE DEF row
  <1>6. /\ SessionsTypeOK' /\ Linked'
        /\ authPc'[s] = "answer" /\ authReq'[s].token = Len(tokens')
        /\ authReq'[s].device = authReq[s].device
        /\ \A r \in AuthSlots \ {s} : authPc'[r] = authPc[r] /\ authReq'[r] = authReq[r]
        /\ \A x \in TokenIds : \A r \in AuthSlots :
             Rotates(r, x)' <=> r # s /\ Rotates(r, x)
    BY <1>4, <1>5, GrowthTyped
  <1>7. Rotates(s, root)
    BY <1>2, <1>3, <1>4 DEF Rotates
  <1>8. root \notin raced =>
          /\ root > ended
          /\ \A u \in DOMAIN tokens : ~LiveOf(u, root)
          /\ \A r \in AuthSlots : ~Rotates(r, root)'
    BY <1>4, <1>6, <1>7 DEF SessInv, Lines, OneLine
  <1>9. row.root \notin raced =>
          /\ row.root > ended
          /\ \A u \in DOMAIN tokens : ~LiveOf(u, row.root)
          /\ \A r \in AuthSlots : ~Rotates(r, row.root)'
    BY <1>5, <1>8 DEF row
  <1>10. Lines'
    BY <1>4, <1>5, <1>6, <1>9, GrowthLines
  <1>11. Calm'
    BY <1>4, <1>5, <1>6, GrowthCalm
  <1>12. QED BY <1>6, <1>10, <1>11 DEF SessInv

LEMMA RotateKeeps ==
  ASSUME SessInv, NEW s \in AuthSlots, Rotate(s)
  PROVE  SessInv'
  <1>1. /\ SessionsTypeOK /\ Linked /\ Len(tokens) \in Nat /\ DOMAIN tokens = 1 .. Len(tokens)
        /\ authPc[s] = "rotate"
    BY TokensNumbered DEF SessInv, Rotate
  <1>2. PICK t \in DOMAIN tokens : t = authReq[s].token
    BY <1>1 DEF Linked
  <1>3. PICK root \in TokenIds : root = tokens[t].root
    BY <1>1, TokensNumbered
  <1> DEFINE row == [tokens[t] EXCEPT !.revoked = TRUE]
  <1>4. row \in TokenRows /\ row.root = root /\ row.revoked
    BY <1>1, <1>3, TokensNumbered DEF TokenRows
  <1>5. /\ tokens' = [tokens EXCEPT ![t] = row] /\ AuthGoto(s, "issue", t)
        /\ UNCHANGED <<held, failures, lowerCase, ended, raced, excuse>>
    BY <1>2 DEF Rotate
  <1> HIDE DEF row
  <1>6. /\ tokens' \in Seq(TokenRows) /\ Len(tokens') = Len(tokens)
        /\ DOMAIN tokens' = DOMAIN tokens /\ tokens'[t] = row
        /\ \A u \in DOMAIN tokens \ {t} : tokens'[u] = tokens[u]
    <2>1. tokens \in Seq(TokenRows) /\ t \in 1 .. Len(tokens)
      BY <1>1 DEF SessionsTypeOK, TokenRows
    <2>2. /\ tokens' \in Seq(TokenRows) /\ Len(tokens') = Len(tokens)
          /\ \A u \in 1 .. Len(tokens) : tokens'[u] = IF u = t THEN row ELSE tokens[u]
      BY <1>4, <1>5, <2>1, ExceptSeq
    <2>3. QED BY <1>1, <1>5, <2>1, <2>2
  <1>7. t \in 0 .. Len(tokens)
    BY <1>1
  <1>8. PICK req \in AuthRequests(Len(tokens)) :
          /\ req.device = authReq[s].device /\ req.token = t
          /\ Moves(s, "issue", req)
    BY <1>1, <1>5, <1>7, GotoMoves
  <1>9. /\ authPc' \in [AuthSlots -> AuthSteps]
        /\ authReq' \in [AuthSlots -> AuthRequests(Len(tokens))]
        /\ authPc'[s] = "issue" /\ authReq'[s] = req
        /\ \A r \in AuthSlots \ {s} : authPc'[r] = authPc[r] /\ authReq'[r] = authReq[r]
    BY <1>1, <1>8, Moved DEF AuthSteps
  <1>10. SessionsTypeOK'
    BY <1>1, <1>5, <1>6, <1>9 DEF SessionsTypeOK, TokenRows, AuthSteps, AuthRequests
  <1>11. \A u \in DOMAIN tokens : tokens'[u].root = tokens[u].root
    BY <1>3, <1>4, <1>6
  <1>12. Linked'
    BY <1>1, <1>2, <1>6, <1>8, <1>9, <1>11 DEF Linked
  <1>13. \A x \in TokenIds : \A r \in AuthSlots : Rotates(r, x)' <=> Rotates(r, x)
    BY <1>1, <1>2, <1>8, <1>9, <1>11 DEF Rotates, Linked
  <1>14. Rotates(s, root)
    BY <1>1, <1>2, <1>3 DEF Rotates
  <1>15. Lines'
    <2> SUFFICES ASSUME NEW x \in TokenIds, x \notin raced PROVE OneLine(x)'
      BY <1>5 DEF Lines
    <2>1. OneLine(x)
      BY DEF SessInv, Lines
    <2>2. \A u \in DOMAIN tokens : LiveOf(u, x)' <=> u # t /\ LiveOf(u, x)
      BY <1>4, <1>6 DEF LiveOf
    <2>3. ASSUME NEW r \in AuthSlots, Rotates(r, x)'
          PROVE  /\ x > ended'
                 /\ authPc'[r] = "rotate" => LiveOf(authReq[r].token, x)'
                 /\ authPc'[r] = "issue" => \A u \in DOMAIN tokens' : ~LiveOf(u, x)'
      <3>1. /\ x > ended
            /\ authPc[r] = "rotate" => LiveOf(authReq[r].token, x)
            /\ authPc[r] = "issue" => \A u \in DOMAIN tokens : ~LiveOf(u, x)
        BY <1>13, <2>1, <2>3 DEF OneLine
      <3>2. CASE x = root
        <4>1. r = s
          BY <1>13, <1>14, <2>1, <2>3, <3>2 DEF OneLine
        <4>2. LiveOf(t, x)
          BY <1>1, <1>2, <3>1, <4>1
        <4>3. \A u \in DOMAIN tokens : ~LiveOf(u, x)'
          BY <2>1, <2>2, <4>2 DEF OneLine
        <4>4. QED BY <1>5, <1>6, <1>9, <3>1, <4>1, <4>3
      <3>3. CASE x # root
        <4>1. r # s /\ ~LiveOf(t, x)
          BY <1>2, <1>3, <1>13, <2>3, <3>3 DEF Rotates, LiveOf
        <4>2. \A u \in DOMAIN tokens : LiveOf(u, x)' <=> LiveOf(u, x)
          BY <2>2, <4>1
        <4>3. authPc'[r] = authPc[r] /\ authReq'[r] = authReq[r]
          BY <1>9, <4>1
        <4>4. PICK u \in DOMAIN tokens : u = authReq[r].token /\ u = authReq'[r].token
          BY <1>1, <1>13, <2>3, <4>3 DEF Rotates, Linked
        <4>5. authPc'[r] = "rotate" => LiveOf(u, x)'
          BY <3>1, <4>2, <4>3, <4>4
        <4>6. QED BY <1>5, <1>6, <3>1, <4>2, <4>3, <4>4, <4>5 DEF LiveOf
      <3>4. QED BY <3>2, <3>3
    <2>4. QED BY <1>5, <1>6, <1>13, <2>1, <2>2, <2>3 DEF OneLine
  <1>16. Calm'
    <2> SUFFICES ASSUME ~excuse PROVE Calm'
      BY <1>5 DEF Calm
    <2>1. /\ ended = 0
          /\ \A r \in AuthSlots : authPc[r] # "idle" => r = s
          /\ \A d, e \in Devices : held[d] # 0 /\ held[e] # 0 => d = e
          /\ \A d \in Devices : held[d] # 0 => d = authReq[s].device
      BY <1>1 DEF SessInv, Calm
    <2>2. \A r \in AuthSlots : authPc'[r] # "idle" => r = s
      BY <1>9, <2>1
    <2>3. QED BY <1>5, <1>8, <1>9, <2>1, <2>2 DEF Calm
  <1>17. QED BY <1>10, <1>12, <1>15, <1>16 DEF SessInv

LEMMA RevokeAllKeeps ==
  ASSUME SessInv, NEW s \in AuthSlots, RevokeAll(s)
  PROVE  SessInv'
  <1>0. PICK n \in Nat : n = Len(tokens)
    BY TokensNumbered DEF SessInv
  <1>1. /\ SessionsTypeOK /\ Linked /\ DOMAIN tokens = 1 .. n /\ authPc[s] = "revokeAll"
        /\ AuthDone(s) /\ ended' = n
        /\ tokens' = [t \in DOMAIN tokens |-> [tokens[t] EXCEPT !.revoked = TRUE]]
        /\ raced' = raced \cup {root \in TokenIds : Rotating(root) # {}}
        /\ UNCHANGED <<held, failures, lowerCase, excuse>>
    BY <1>0, TokensNumbered DEF SessInv, RevokeAll
  <1>2. \A t \in DOMAIN tokens :
          /\ [tokens[t] EXCEPT !.revoked = TRUE] \in TokenRows
          /\ [tokens[t] EXCEPT !.revoked = TRUE].root = tokens[t].root
          /\ [tokens[t] EXCEPT !.revoked = TRUE].revoked
    BY <1>1, TokensNumbered DEF TokenRows
  <1>3. /\ tokens' \in [1 .. n -> TokenRows] /\ DOMAIN tokens' = DOMAIN tokens
        /\ \A t \in DOMAIN tokens : tokens'[t].revoked /\ tokens'[t].root = tokens[t].root
    BY <1>1, <1>2
  <1>4. tokens' \in Seq(TokenRows) /\ Len(tokens') = n
    <2>1. tokens' \in Seq(TokenRows)
      BY <1>3, SeqDef
    <2>2. DOMAIN tokens' = 1 .. Len(tokens') /\ Len(tokens') \in Nat
      BY <2>1, LenProperties
    <2>3. QED BY <1>1, <1>3, <2>1, <2>2
  <1>5. NoAuthRequest \in AuthRequests(n) /\ Moves(s, "idle", NoAuthRequest)
    BY <1>1, DoneMoves
  <1>6. /\ authPc' \in [AuthSlots -> AuthSteps] /\ authReq' \in [AuthSlots -> AuthRequests(n)]
        /\ authPc'[s] = "idle"
        /\ \A r \in AuthSlots \ {s} : authPc'[r] = authPc[r] /\ authReq'[r] = authReq[r]
    BY <1>0, <1>1, <1>5, Moved DEF AuthSteps
  <1>7. SessionsTypeOK'
    BY <1>0, <1>1, <1>4, <1>6 DEF SessionsTypeOK, TokenRows, AuthSteps, AuthRequests
  <1>8. Linked'
    BY <1>1, <1>3, <1>6 DEF Linked
  <1>9. Lines'
    <2> SUFFICES ASSUME NEW root \in TokenIds, root \notin raced' PROVE OneLine(root)'
      BY DEF Lines
    <2>1. \A r \in AuthSlots : ~Rotates(r, root)
      BY <1>1 DEF Rotating, Rotates, Root
    <2>2. \A r \in AuthSlots : ~Rotates(r, root)'
      BY <1>1, <1>3, <1>6, <2>1 DEF Rotates, Linked
    <2>3. \A t \in DOMAIN tokens' : ~LiveOf(t, root)'
      BY <1>3 DEF LiveOf
    <2>4. QED BY <2>2, <2>3 DEF OneLine
  <1>10. excuse
    BY <1>1 DEF SessInv, Calm
  <1>11. Calm'
    BY <1>1, <1>10 DEF Calm
  <1>12. QED BY <1>7, <1>8, <1>9, <1>11 DEF SessInv
-------------------------------------------------------------------------------
\* Every step of the specification keeps the invariant.
LEMMA SessionsStepKeeps == SessInv /\ [SessionsNext]_sessionVars => SessInv'
  <1> SUFFICES ASSUME SessInv, [SessionsNext]_sessionVars PROVE SessInv'
    OBVIOUS
  <1>1. ASSUME NEW s \in AuthSlots, NEW d \in Devices, LoginCheck(s, d) \/ RefreshRead(s, d)
        PROVE  SessInv'
    BY <1>1, LoginCheckKeeps, RefreshReadKeeps
  <1>2. ASSUME NEW s \in AuthSlots,
               WrongPassword(s) \/ RightPassword(s) \/ Rotate(s) \/ Issue(s)
        PROVE  SessInv'
    BY <1>2, WrongPasswordKeeps, RightPasswordKeeps, RotateKeeps, IssueKeeps
  <1>3. ASSUME NEW s \in AuthSlots, Answer(s) \/ RevokeAll(s) \/ AuthAbort(s)
        PROVE  SessInv'
    BY <1>3, AnswerKeeps, RevokeAllKeeps, AbortKeeps
  <1>4. CASE FailureExpires
    BY <1>4, FailureExpiresKeeps
  <1>5. CASE UNCHANGED sessionVars
    <2>1. UNCHANGED <<tokens, held, authPc, authReq, failures, lowerCase, ended, raced, excuse>>
      BY <1>5 DEF sessionVars
    <2>2. SessionsTypeOK' /\ Linked'
      BY <2>1 DEF SessInv, SessionsTypeOK, Linked
    <2>3. Lines'
      BY <2>1 DEF SessInv, Lines, OneLine, Rotates, LiveOf
    <2>4. Calm'
      BY <2>1 DEF SessInv, Calm, LastLives
    <2>5. QED BY <2>2, <2>3, <2>4 DEF SessInv
  <1>6. QED BY <1>1, <1>2, <1>3, <1>4, <1>5 DEF SessionsNext

LEMMA SessInvHolds == SessionsSpec => []SessInv
  BY SessionsAtFirst, SessionsStepKeeps, PTL DEF SessionsSpec

\* Tokens, cookies and requests keep their types.
THEOREM SessionsTypeCorrect == SessionsSpec => []SessionsTypeOK
  <1>1. SessInv => SessionsTypeOK
    BY DEF SessInv
  <1>2. QED BY <1>1, SessInvHolds, PTL

\* A login has one living token at a time, none after an alarm, unless two
\* rotations of it overlapped each other or the alarm; and a user with one device
\* and one request at a time, all answered, never raises the alarm.
THEOREM OneTokenPerLogin == SessionsSpec => []SessionsSound
  BY InvIsSound, SessInvHolds, PTL
-------------------------------------------------------------------------------
(* The lock. *)

LEMMA GuessingFinite ==
  /\ IsFiniteSet(Guessing) /\ Cardinality(Guessing) \in Nat
  /\ Cardinality(AuthSlots) \in Nat /\ Cardinality(Guessing) <= Cardinality(AuthSlots)
  <1>1. IsFiniteSet(AuthSlots) /\ Guessing \in SUBSET AuthSlots
    BY SessionsAssumption DEF Guessing
  <1>2. QED BY <1>1, FS_Subset, FS_CardinalityType

\* A slot whose guess is over no longer counts; others do not start.
LEMMA GuessEnds ==
  ASSUME NEW s \in Guessing, Guessing' = Guessing \ {s}
  PROVE  Cardinality(Guessing') = Cardinality(Guessing) - 1
  BY GuessingFinite, FS_RemoveElement

LEMMA LockHolds ==
  ASSUME SessInv, FailuresBounded, [SessionsNext]_sessionVars
  PROVE  FailuresBounded'
  <1>1. /\ failures \in Nat /\ MaxFailures \in Nat /\ MaxFailures > 0
        /\ authPc \in [AuthSlots -> AuthSteps]
    BY SessionsAssumption DEF SessInv, SessionsTypeOK, AuthSteps
  <1>2. /\ Cardinality(Guessing) \in Nat /\ Cardinality(AuthSlots) \in Nat
    BY GuessingFinite
  <1>3. lowerCase' = lowerCase
    BY DEF SessionsNext, sessionVars, LoginCheck, RefreshRead, WrongPassword, RightPassword,
           Rotate, Issue, Answer, RevokeAll, AuthAbort, FailureExpires
  <1> SUFFICES ASSUME lowerCase
               PROVE  failures' + Cardinality(Guessing')
                        <= MaxFailures + Cardinality(AuthSlots) - 1
    BY <1>3 DEF FailuresBounded
  <1>4. failures + Cardinality(Guessing) <= MaxFailures + Cardinality(AuthSlots) - 1
    BY DEF FailuresBounded
  <1>5. ASSUME NEW s \in AuthSlots, NEW d \in Devices, LoginCheck(s, d)
        PROVE  failures' + Cardinality(Guessing') <= MaxFailures + Cardinality(AuthSlots) - 1
    <2>1. failures' = failures /\ failures < MaxFailures
      BY <1>5 DEF LoginCheck
    <2>2. Cardinality(Guessing') \in Nat /\ Cardinality(Guessing') <= Cardinality(AuthSlots)
      <3>1. IsFiniteSet(AuthSlots) /\ Guessing' \in SUBSET AuthSlots
        BY SessionsAssumption DEF Guessing
      <3>2. QED BY <3>1, FS_Subset, FS_CardinalityType
    <2>3. QED BY <1>1, <1>2, <2>1, <2>2
  <1>6. ASSUME failures' \in Nat, failures' <= failures + 1,
               NEW s \in Guessing, Guessing' = Guessing \ {s}
        PROVE  failures' + Cardinality(Guessing') <= MaxFailures + Cardinality(AuthSlots) - 1
    <2>1. Cardinality(Guessing') = Cardinality(Guessing) - 1
      BY <1>6, GuessEnds
    <2>2. QED BY <1>1, <1>2, <1>4, <1>6, <2>1
  <1>7. ASSUME failures' \in Nat, failures' <= failures, Guessing' = Guessing
        PROVE  failures' + Cardinality(Guessing') <= MaxFailures + Cardinality(AuthSlots) - 1
    BY <1>1, <1>2, <1>4, <1>7
  <1>8. ASSUME NEW s \in AuthSlots, authPc'[s] # "password",
               \A r \in AuthSlots \ {s} : authPc'[r] = authPc[r], failures' \in Nat,
               failures' <= failures \/ (authPc[s] = "password" /\ failures' = failures + 1)
        PROVE  failures' + Cardinality(Guessing') <= MaxFailures + Cardinality(AuthSlots) - 1
    <2>1. CASE authPc[s] = "password"
      <3>1. s \in Guessing /\ Guessing' = Guessing \ {s}
        BY <1>8, <2>1 DEF Guessing
      <3>2. failures' <= failures + 1
        BY <1>1, <1>8
      <3>3. QED BY <1>6, <1>8, <3>1, <3>2
    <2>2. CASE authPc[s] # "password"
      <3>1. Guessing' = Guessing
        BY <1>8, <2>2 DEF Guessing
      <3>2. QED BY <1>7, <1>8, <2>2, <3>1
    <2>3. QED BY <2>1, <2>2
  <1>9. ASSUME NEW s \in AuthSlots,
               \/ \E d \in Devices : RefreshRead(s, d)
               \/ WrongPassword(s) \/ RightPassword(s) \/ Rotate(s) \/ Issue(s)
               \/ Answer(s) \/ RevokeAll(s) \/ AuthAbort(s)
        PROVE  failures' + Cardinality(Guessing') <= MaxFailures + Cardinality(AuthSlots) - 1
    <2>1. CASE \E d \in Devices : RefreshRead(s, d)
      <3>1. /\ authPc'[s] # "password" /\ failures' = failures
            /\ \A r \in AuthSlots \ {s} : authPc'[r] = authPc[r]
        BY <1>1, <2>1 DEF RefreshRead
      <3>2. QED BY <1>1, <1>8, <3>1
    <2>2. CASE WrongPassword(s)
      <3>1. /\ authPc'[s] # "password" /\ authPc[s] = "password"
            /\ failures' \in {failures, failures + 1}
            /\ \A r \in AuthSlots \ {s} : authPc'[r] = authPc[r]
        BY <1>1, <2>2 DEF WrongPassword, AuthDone
      <3>2. QED BY <1>1, <1>8, <3>1
    <2>3. CASE RightPassword(s) \/ Rotate(s) \/ Issue(s)
      <3>1. /\ authPc'[s] # "password" /\ failures' = failures
            /\ \A r \in AuthSlots \ {s} : authPc'[r] = authPc[r]
        BY <1>1, <2>3 DEF RightPassword, Rotate, Issue, AuthGoto
      <3>2. QED BY <1>1, <1>8, <3>1
    <2>4. CASE Answer(s) \/ RevokeAll(s) \/ AuthAbort(s)
      <3>1. /\ authPc'[s] # "password" /\ failures' = failures
            /\ \A r \in AuthSlots \ {s} : authPc'[r] = authPc[r]
        BY <1>1, <2>4 DEF Answer, RevokeAll, AuthAbort, AuthDone
      <3>2. QED BY <1>1, <1>8, <3>1
    <2>5. QED BY <1>9, <2>1, <2>2, <2>3, <2>4
  <1>10. CASE FailureExpires
    BY <1>1, <1>7, <1>10 DEF FailureExpires, Guessing
  <1>11. CASE UNCHANGED sessionVars
    BY <1>1, <1>7, <1>11 DEF sessionVars, Guessing
  <1>12. QED BY <1>5, <1>9, <1>10, <1>11 DEF SessionsNext

\* However many guesses are checked at once: for an address without capitals the
\* failures counted in the window and the guesses being checked exceed the limit
\* by no more than the requests that are served together, less one.
THEOREM LockBoundsGuesses == SessionsSpec => []FailuresBounded
  <1>1. SessionsInit => FailuresBounded
    <2> SUFFICES ASSUME SessionsInit PROVE FailuresBounded
      OBVIOUS
    <2>1. failures = 0 /\ Guessing = {}
      BY DEF SessionsInit, Guessing
    <2>2. Cardinality(Guessing) = 0
      BY <2>1, FS_EmptySet
    <2>3. QED BY <2>1, <2>2, GuessingFinite, SessionsAssumption DEF FailuresBounded
  <1>2. QED BY <1>1, LockHolds, SessInvHolds, PTL DEF SessionsSpec
-------------------------------------------------------------------------------
(* What holds of OneTimeCodes for every number of codes, phone numbers and requests. *)

CodeRows == [kind : CodeKinds, phone : AnyPhone, used : BOOLEAN, expired : BOOLEAN]
CodeSteps == {"idle", "use", "newPhone", "samePhone"}

\* The types; a phone code names a phone number, and a request that uses a code
\* one that was sent.
Typed ==
  /\ codes \in Seq(CodeRows) /\ Len(codes) <= MaxCodes
  /\ emailVerified \in BOOLEAN
  /\ profile \in [phone : AnyPhone, verified : BOOLEAN]
  /\ codePc \in [CodeSlots -> CodeSteps]
  /\ codeReq \in [CodeSlots -> [code : 0 .. Len(codes), phone : AnyPhone]]
  /\ uses \in [CodeIds -> Nat]
  /\ proven \subseteq Phones /\ codeRaced \subseteq CodeIds
  /\ phoneRaced \in BOOLEAN
  /\ \A c \in DOMAIN codes : codes[c].kind = "phone" => codes[c].phone \in Phones
  /\ \A s \in CodeSlots : codePc[s] = "use" => codeReq[s].code \in DOMAIN codes

LEMMA TypedIsTypeOK == Typed => CodesTypeOK
  BY DEF Typed, CodesTypeOK, CodeRows, CodeSteps

\* The codes sent are numbered from 1, within the bound.
LEMMA CodesNumbered ==
  ASSUME Typed
  PROVE  /\ Len(codes) \in Nat /\ DOMAIN codes = 1 .. Len(codes)
         /\ DOMAIN codes \subseteq CodeIds
         /\ \A c \in DOMAIN codes : codes[c] \in CodeRows
  BY CodesAssumption DEF Typed, CodeIds

\* One code more.
LEMMA Inserted ==
  ASSUME Typed, NEW kind \in CodeKinds, NEW phone \in AnyPhone,
         kind = "phone" => phone \in Phones, InsertCode(kind, phone)
  PROVE  /\ Typed'
         /\ Len(codes') = Len(codes) + 1
         /\ \A c \in DOMAIN codes : c \in DOMAIN codes' /\ codes'[c] = codes[c]
         /\ \A c \in DOMAIN codes' \ DOMAIN codes : ~codes'[c].used
         /\ UNCHANGED <<profile, codePc, codeReq, uses, proven, codeRaced, phoneRaced>>
  <1> DEFINE row == [kind |-> kind, phone |-> phone, used |-> FALSE, expired |-> FALSE]
  <1>0. row \in CodeRows /\ row.kind = kind /\ row.phone = phone /\ row.used = FALSE
    BY DEF CodeRows
  <1> HIDE DEF row
  <1>1. codes' = Append(codes, row) /\ Len(codes) < MaxCodes
        /\ UNCHANGED <<emailVerified, profile, codePc, codeReq, uses, proven,
                       codeRaced, phoneRaced>>
    BY DEF InsertCode, row
  <1>2. codes \in Seq(CodeRows) /\ Len(codes) \in Nat
    BY DEF Typed
  <1>3. /\ codes' \in Seq(CodeRows) /\ Len(codes') = Len(codes) + 1
        /\ DOMAIN codes = 1 .. Len(codes) /\ DOMAIN codes' = 1 .. Len(codes) + 1
        /\ \A c \in 1 .. Len(codes) : codes'[c] = codes[c]
        /\ codes'[Len(codes) + 1] = row
    BY <1>0, <1>1, <1>2, AppendProperties
  <1>4. Len(codes') <= MaxCodes
    BY <1>1, <1>2, <1>3, CodesAssumption
  <1>5. codeReq' \in [CodeSlots -> [code : 0 .. Len(codes'), phone : AnyPhone]]
    <2>1. 0 .. Len(codes) \subseteq 0 .. Len(codes')
      BY <1>2, <1>3
    <2>2. QED BY <1>1, <2>1 DEF Typed
  <1>6. \A c \in DOMAIN codes' \ DOMAIN codes : codes'[c] = row
    BY <1>2, <1>3
  <1>7. \A c \in DOMAIN codes' : codes'[c].kind = "phone" => codes'[c].phone \in Phones
    BY <1>0, <1>3, <1>6 DEF Typed
  <1>8. \A s \in CodeSlots : codePc'[s] = "use" => codeReq'[s].code \in DOMAIN codes'
    BY <1>1, <1>2, <1>3 DEF Typed
  <1>9. QED
    BY <1>0, <1>1, <1>3, <1>4, <1>5, <1>6, <1>7, <1>8 DEF Typed

\* A slot that is done leaves the types alone.
LEMMA DoneTyped ==
  ASSUME Typed, NEW s \in CodeSlots, CodeDone(s)
  PROVE  /\ codePc' \in [CodeSlots -> CodeSteps]
         /\ codeReq' \in [CodeSlots -> [code : 0 .. Len(codes), phone : AnyPhone]]
         /\ codePc'[s] = "idle"
         /\ \A r \in CodeSlots \ {s} : codePc'[r] = codePc[r] /\ codeReq'[r] = codeReq[r]
  <1>1. NoCodeRequest \in [code : 0 .. Len(codes), phone : AnyPhone]
    BY CodesNumbered DEF NoCodeRequest, AnyPhone
  <1>2. QED BY <1>1 DEF CodeDone, Typed, CodeSteps

\* A row is replaced.
LEMMA Replaced ==
  ASSUME NEW s, NEW S, s \in Seq(S), NEW c \in DOMAIN s, NEW row \in S
  PROVE  /\ [s EXCEPT ![c] = row] \in Seq(S)
         /\ Len([s EXCEPT ![c] = row]) = Len(s)
         /\ DOMAIN [s EXCEPT ![c] = row] = DOMAIN s
         /\ [s EXCEPT ![c] = row][c] = row
         /\ \A d \in DOMAIN s \ {c} : [s EXCEPT ![c] = row][d] = s[d]
  <1>1. Len(s) \in Nat /\ DOMAIN s = 1 .. Len(s) /\ c \in 1 .. Len(s)
    BY LenProperties
  <1>2. QED BY <1>1, ExceptSeq

\* A code is marked, as used or expired.
LEMMA Marked ==
  ASSUME Typed, NEW c \in DOMAIN codes, NEW row \in CodeRows,
         row.kind = codes[c].kind, row.phone = codes[c].phone,
         codes' = [codes EXCEPT ![c] = row]
  PROVE  /\ codes' \in Seq(CodeRows) /\ Len(codes') = Len(codes)
         /\ DOMAIN codes' = DOMAIN codes /\ codes'[c] = row
         /\ \A d \in DOMAIN codes \ {c} : codes'[d] = codes[d]
         /\ \A d \in DOMAIN codes' : codes'[d].kind = "phone" => codes'[d].phone \in Phones
  <1> DEFINE new == [codes EXCEPT ![c] = row]
  <1>1. codes \in Seq(CodeRows)
    BY DEF Typed
  <1>2. /\ new \in Seq(CodeRows) /\ Len(new) = Len(codes)
        /\ DOMAIN new = DOMAIN codes /\ new[c] = row
        /\ \A d \in DOMAIN codes \ {c} : new[d] = codes[d]
    BY <1>1, Replaced
  <1>3. codes' = new
    OBVIOUS
  <1> HIDE DEF new
  <1>4. \A d \in DOMAIN codes : codes[d].kind = "phone" => codes[d].phone \in Phones
    BY DEF Typed
  <1>5. \A d \in DOMAIN new : new[d].kind = "phone" => new[d].phone \in Phones
    BY <1>2, <1>4
  <1>6. QED BY <1>2, <1>3, <1>5
-------------------------------------------------------------------------------
\* A code that was never in two hands has one request using it at most, which
\* has not used it yet; and it was used as often as its row says.
UsedTrue ==
  \A c \in CodeIds \ codeRaced :
    /\ uses[c] = IF c \in DOMAIN codes /\ codes[c].used THEN 1 ELSE 0
    /\ \A r, s \in CodeSlots :
         codePc[r] = "use" /\ codeReq[r].code = c
           /\ codePc[s] = "use" /\ codeReq[s].code = c => r = s
    /\ \A s \in CodeSlots :
         codePc[s] = "use" /\ codeReq[s].code = c => ~codes[c].used

CodesInv == Typed /\ UsedTrue /\ PhoneProven

LEMMA UsedOnce == CodesInv => CodesUsedOnce
  BY DEF CodesInv, UsedTrue, CodesUsedOnce

LEMMA CodesAtFirst == CodesInit => CodesInv
  <1> SUFFICES ASSUME CodesInit PROVE CodesInv
    OBVIOUS
  <1>1. codes = <<>> /\ Len(codes) = 0 /\ DOMAIN codes = {} /\ codes \in Seq(CodeRows)
    BY EmptySeq DEF CodesInit
  <1>2. NoCodeRequest \in [code : 0 .. Len(codes), phone : AnyPhone]
    BY <1>1 DEF NoCodeRequest, AnyPhone
  <1>3. Typed
    <2>1. Len(codes) <= MaxCodes
      BY <1>1, CodesAssumption
    <2>2. /\ codePc \in [CodeSlots -> CodeSteps]
          /\ codeReq \in [CodeSlots -> [code : 0 .. Len(codes), phone : AnyPhone]]
      BY <1>2 DEF CodesInit, CodeSteps
    <2>3. profile \in [phone : AnyPhone, verified : BOOLEAN] /\ uses \in [CodeIds -> Nat]
      BY DEF CodesInit, AnyPhone
    <2>4. \A s \in CodeSlots : codePc[s] # "use"
      BY DEF CodesInit
    <2>5. QED BY <1>1, <2>1, <2>2, <2>3, <2>4 DEF CodesInit, Typed
  <1>4. UsedTrue /\ PhoneProven
    BY <1>1 DEF CodesInit, UsedTrue, PhoneProven
  <1>5. QED BY <1>3, <1>4 DEF CodesInv

\* One code more leaves the others as they were.
LEMMA InsertKeeps ==
  ASSUME CodesInv, NEW kind \in CodeKinds, NEW phone \in AnyPhone,
         kind = "phone" => phone \in Phones, InsertCode(kind, phone)
  PROVE  CodesInv'
  <1>1. Typed
    BY DEF CodesInv
  <1>2. /\ Typed'
        /\ \A c \in DOMAIN codes : c \in DOMAIN codes' /\ codes'[c] = codes[c]
        /\ \A c \in DOMAIN codes' \ DOMAIN codes : ~codes'[c].used
        /\ UNCHANGED <<profile, codePc, codeReq, uses, proven, codeRaced, phoneRaced>>
    BY <1>1, Inserted
  <1>3. \A s \in CodeSlots : codePc[s] = "use" => codeReq[s].code \in DOMAIN codes
    BY <1>1 DEF Typed
  <1>4. UsedTrue'
    BY <1>2, <1>3 DEF CodesInv, UsedTrue
  <1>5. PhoneProven'
    BY <1>2 DEF CodesInv, PhoneProven
  <1>6. QED BY <1>2, <1>4, <1>5 DEF CodesInv

LEMMA ExpiryKeeps ==
  ASSUME CodesInv, NEW c \in DOMAIN codes, CodeExpires(c)
  PROVE  CodesInv'
  <1> DEFINE row == [codes[c] EXCEPT !.expired = TRUE]
  <1>1. Typed /\ codes[c] \in CodeRows /\ DOMAIN codes \subseteq CodeIds
    BY CodesNumbered DEF CodesInv
  <1>2. row \in CodeRows /\ row.kind = codes[c].kind /\ row.phone = codes[c].phone
        /\ row.used = codes[c].used
    BY <1>1 DEF CodeRows
  <1>3. codes' = [codes EXCEPT ![c] = row]
    BY DEF CodeExpires
  <1> HIDE DEF row
  <1>4. /\ codes' \in Seq(CodeRows) /\ Len(codes') = Len(codes)
        /\ DOMAIN codes' = DOMAIN codes /\ codes'[c] = row
        /\ \A d \in DOMAIN codes \ {c} : codes'[d] = codes[d]
        /\ \A d \in DOMAIN codes' : codes'[d].kind = "phone" => codes'[d].phone \in Phones
    BY <1>1, <1>2, <1>3, Marked
  <1>5. UNCHANGED <<emailVerified, profile, codePc, codeReq, uses, proven,
                    codeRaced, phoneRaced>>
    BY DEF CodeExpires
  <1>6. \A d \in DOMAIN codes : codes'[d].used = codes[d].used
    BY <1>2, <1>4
  <1>7. Typed'
    BY <1>1, <1>4, <1>5 DEF Typed
  <1>8. \A s \in CodeSlots : codePc[s] = "use" => codeReq[s].code \in DOMAIN codes
    BY <1>1 DEF Typed
  <1>9. UsedTrue'
    BY <1>4, <1>5, <1>6, <1>8 DEF CodesInv, UsedTrue
  <1>10. PhoneProven'
    BY <1>5 DEF CodesInv, PhoneProven
  <1>11. QED BY <1>7, <1>9, <1>10 DEF CodesInv

LEMMA CheckKeeps ==
  ASSUME CodesInv, NEW s \in CodeSlots, NEW c \in DOMAIN codes, CheckCode(s, c)
  PROVE  CodesInv'
  <1>1. Typed /\ DOMAIN codes = 1 .. Len(codes) /\ DOMAIN codes \subseteq CodeIds
    BY CodesNumbered DEF CodesInv
  <1>2. /\ codePc' = [codePc EXCEPT ![s] = "use"]
        /\ codeReq' = [codeReq EXCEPT ![s].code = c]
        /\ UNCHANGED <<codes, emailVerified, profile, uses, proven, phoneRaced>>
        /\ ~codes[c].used
    BY DEF CheckCode, Accepted, Valid
  <1>3. codeRaced \subseteq codeRaced' /\ codeRaced' \subseteq CodeIds
        /\ (c \notin codeRaced' =>
              \A r \in CodeSlots : ~(codePc[r] = "use" /\ codeReq[r].code = c))
    BY <1>1 DEF CheckCode, Using, Typed
  <1>4. /\ codePc'[s] = "use" /\ codeReq'[s].code = c
        /\ \A r \in CodeSlots \ {s} : codePc'[r] = codePc[r] /\ codeReq'[r] = codeReq[r]
    BY <1>1, <1>2 DEF Typed
  <1>5. Typed'
    <2>1. codeReq' \in [CodeSlots -> [code : 0 .. Len(codes), phone : AnyPhone]]
      <3>1. codeReq' = [codeReq EXCEPT ![s] = [codeReq[s] EXCEPT !.code = c]]
        BY <1>2
      <3>2. /\ codeReq \in [CodeSlots -> [code : 0 .. Len(codes), phone : AnyPhone]]
            /\ c \in 0 .. Len(codes)
        BY <1>1, CodesNumbered DEF Typed
      <3>3. [codeReq[s] EXCEPT !.code = c] \in [code : 0 .. Len(codes), phone : AnyPhone]
        BY <3>2
      <3>4. QED BY <3>1, <3>2, <3>3
    <2>2. codePc' \in [CodeSlots -> CodeSteps]
      BY <1>1, <1>2 DEF Typed, CodeSteps
    <2>3. \A r \in CodeSlots : codePc'[r] = "use" => codeReq'[r].code \in DOMAIN codes
      BY <1>1, <1>4 DEF Typed
    <2>4. QED BY <1>1, <1>2, <1>3, <2>1, <2>2, <2>3 DEF Typed
  <1>6. UsedTrue'
    BY <1>2, <1>3, <1>4 DEF CodesInv, UsedTrue
  <1>7. PhoneProven'
    BY <1>2 DEF CodesInv, PhoneProven
  <1>8. QED BY <1>5, <1>6, <1>7 DEF CodesInv

LEMMA UseKeeps ==
  ASSUME CodesInv, NEW s \in CodeSlots, UseCode(s)
  PROVE  CodesInv'
  <1>1. Typed /\ DOMAIN codes \subseteq CodeIds /\ codePc[s] = "use" /\ CodeDone(s)
    BY CodesNumbered DEF CodesInv, UseCode
  <1> DEFINE c == codeReq[s].code
             row == [codes[c] EXCEPT !.used = TRUE]
  <1>2. c \in DOMAIN codes /\ codes[c] \in CodeRows
    BY <1>1, CodesNumbered DEF Typed
  <1>3. row \in CodeRows /\ row.kind = codes[c].kind /\ row.phone = codes[c].phone
        /\ row.used
    BY <1>2 DEF CodeRows
  <1>4. /\ codes' = [codes EXCEPT ![c] = row]
        /\ uses' = [uses EXCEPT ![c] = @ + 1]
        /\ UNCHANGED <<codeRaced, phoneRaced>>
    BY DEF UseCode
  <1>5. /\ emailVerified' \in BOOLEAN
        /\ \/ UNCHANGED <<profile, proven>>
           \/ /\ codes[c].phone \in Phones
              /\ profile' = [phone |-> codes[c].phone, verified |-> TRUE]
              /\ proven' = proven \cup {codes[c].phone}
    BY <1>1, <1>2 DEF UseCode, Typed
  <1> HIDE DEF c, row
  <1>6. /\ codes' \in Seq(CodeRows) /\ Len(codes') = Len(codes)
        /\ DOMAIN codes' = DOMAIN codes /\ codes'[c] = row
        /\ \A d \in DOMAIN codes \ {c} : codes'[d] = codes[d]
        /\ \A d \in DOMAIN codes' : codes'[d].kind = "phone" => codes'[d].phone \in Phones
    BY <1>1, <1>2, <1>3, <1>4, Marked
  <1>7. /\ codePc' \in [CodeSlots -> CodeSteps]
        /\ codeReq' \in [CodeSlots -> [code : 0 .. Len(codes), phone : AnyPhone]]
        /\ codePc'[s] = "idle"
        /\ \A r \in CodeSlots \ {s} : codePc'[r] = codePc[r] /\ codeReq'[r] = codeReq[r]
    BY <1>1, DoneTyped
  <1>8. Typed'
    <2>1. uses' \in [CodeIds -> Nat]
      BY <1>1, <1>2, <1>4 DEF Typed
    <2>2. profile' \in [phone : AnyPhone, verified : BOOLEAN] /\ proven' \subseteq Phones
      <3>1. /\ profile \in [phone : AnyPhone, verified : BOOLEAN]
            /\ proven \subseteq Phones /\ Phones \subseteq AnyPhone
        BY <1>1 DEF Typed, AnyPhone
      <3>2. CASE UNCHANGED <<profile, proven>>
        BY <3>1, <3>2
      <3>3. ASSUME NEW phone \in Phones,
                   profile' = [phone |-> phone, verified |-> TRUE],
                   proven' = proven \cup {phone}
            PROVE  /\ profile' \in [phone : AnyPhone, verified : BOOLEAN]
                   /\ proven' \subseteq Phones
        BY <3>1, <3>3
      <3>4. QED BY <1>5, <3>2, <3>3
    <2>3. \A r \in CodeSlots : codePc'[r] = "use" => codeReq'[r].code \in DOMAIN codes
      BY <1>1, <1>7 DEF Typed
    <2>4. QED BY <1>1, <1>4, <1>5, <1>6, <1>7, <2>1, <2>2, <2>3 DEF Typed
  <1>9. UsedTrue'
    <2> SUFFICES ASSUME NEW d \in CodeIds \ codeRaced
                 PROVE  /\ uses'[d] = IF d \in DOMAIN codes /\ codes'[d].used THEN 1 ELSE 0
                        /\ \A q, r \in CodeSlots :
                             codePc'[q] = "use" /\ codeReq'[q].code = d
                               /\ codePc'[r] = "use" /\ codeReq'[r].code = d => q = r
                        /\ \A r \in CodeSlots :
                             codePc'[r] = "use" /\ codeReq'[r].code = d => ~codes'[d].used
      BY <1>4, <1>6 DEF UsedTrue
    <2>1. /\ uses[d] = IF d \in DOMAIN codes /\ codes[d].used THEN 1 ELSE 0
          /\ \A q, r \in CodeSlots :
               codePc[q] = "use" /\ codeReq[q].code = d
                 /\ codePc[r] = "use" /\ codeReq[r].code = d => q = r
          /\ \A r \in CodeSlots :
               codePc[r] = "use" /\ codeReq[r].code = d => ~codes[d].used
      BY DEF CodesInv, UsedTrue
    <2>2. \A r \in CodeSlots : codePc'[r] = "use" =>
             r # s /\ codePc[r] = "use" /\ codeReq'[r].code = codeReq[r].code
      BY <1>7
    <2>3. \A r \in CodeSlots : codePc[r] = "use" => codeReq[r].code \in DOMAIN codes
      BY <1>1 DEF Typed
    <2>4. CASE d = c
      <3>1. ~codes[d].used /\ uses[d] = 0
        BY <1>1, <2>1, <2>4 DEF c
      <3>2. uses'[d] = 1 /\ codes'[d].used
        BY <1>1, <1>3, <1>4, <1>6, <2>4, <3>1 DEF Typed
      <3>3. \A r \in CodeSlots : ~(codePc'[r] = "use" /\ codeReq'[r].code = d)
        BY <1>1, <2>1, <2>2, <2>4 DEF c
      <3>4. QED BY <1>2, <2>4, <3>2, <3>3
    <2>5. CASE d # c
      <3>1. uses'[d] = uses[d]
        BY <1>1, <1>4, <2>5 DEF Typed
      <3>2. d \in DOMAIN codes => codes'[d] = codes[d]
        BY <1>6, <2>5
      <3>3. QED BY <2>1, <2>2, <2>3, <3>1, <3>2
    <2>6. QED BY <2>4, <2>5
  <1>10. PhoneProven'
    BY <1>4, <1>5 DEF CodesInv, PhoneProven
  <1>11. QED BY <1>8, <1>9, <1>10 DEF CodesInv

\* A step of a slot that touches no code and leaves no use behind.
LEMMA OtherSlotKeeps ==
  ASSUME CodesInv, NEW s \in CodeSlots, UNCHANGED <<codes, emailVerified, uses, codeRaced>>,
         codePc' \in [CodeSlots -> CodeSteps], codePc'[s] # "use",
         codeReq' \in [CodeSlots -> [code : 0 .. Len(codes), phone : AnyPhone]],
         \A r \in CodeSlots \ {s} : codePc'[r] = codePc[r] /\ codeReq'[r] = codeReq[r],
         profile' \in [phone : AnyPhone, verified : BOOLEAN],
         proven' \subseteq Phones, phoneRaced' \in BOOLEAN, PhoneProven'
  PROVE  CodesInv'
  <1>1. Typed'
    <2>1. \A r \in CodeSlots : codePc'[r] = "use" => codeReq'[r].code \in DOMAIN codes
      BY DEF CodesInv, Typed
    <2>2. QED BY <2>1 DEF CodesInv, Typed
  <1>2. UsedTrue'
    <2>1. \A r \in CodeSlots : codePc'[r] = "use" =>
             codePc[r] = "use" /\ codeReq'[r].code = codeReq[r].code
      OBVIOUS
    <2>2. QED BY <2>1 DEF CodesInv, UsedTrue
  <1>3. QED BY <1>1, <1>2 DEF CodesInv

LEMMA ProfileStepsKeep ==
  ASSUME CodesInv, NEW s \in CodeSlots,
         \/ \E phone \in AnyPhone : UpdateProfileRead(s, phone)
         \/ WriteNewPhone(s) \/ WriteSamePhone(s) \/ CodeAbort(s)
  PROVE  CodesInv'
  <1>1. Typed /\ codeReq[s].phone \in AnyPhone /\ profile.verified \in BOOLEAN
        /\ (profile.verified => phoneRaced \/ profile.phone \in proven)
    BY DEF CodesInv, Typed, PhoneProven
  <1>2. ASSUME NEW phone \in AnyPhone, UpdateProfileRead(s, phone) PROVE CodesInv'
    <2>1. /\ codePc' \in [CodeSlots -> CodeSteps] /\ codePc'[s] # "use"
          /\ codeReq' \in [CodeSlots -> [code : 0 .. Len(codes), phone : AnyPhone]]
          /\ \A r \in CodeSlots \ {s} : codePc'[r] = codePc[r] /\ codeReq'[r] = codeReq[r]
      BY <1>1, <1>2 DEF UpdateProfileRead, Typed, CodeSteps
    <2>2. UNCHANGED <<codes, emailVerified, profile, uses, proven, codeRaced, phoneRaced>>
      BY <1>2 DEF UpdateProfileRead
    <2>3. PhoneProven'
      BY <1>1, <2>2 DEF PhoneProven
    <2>4. QED BY <1>1, <2>1, <2>2, <2>3, OtherSlotKeeps DEF Typed
  <1>3. ASSUME CodeDone(s), UNCHANGED <<codes, emailVerified, uses, proven, codeRaced>>,
               profile' \in [phone : AnyPhone, verified : BOOLEAN],
               phoneRaced' \in BOOLEAN, PhoneProven'
        PROVE  CodesInv'
    <2>1. /\ codePc' \in [CodeSlots -> CodeSteps] /\ codePc'[s] = "idle"
          /\ codeReq' \in [CodeSlots -> [code : 0 .. Len(codes), phone : AnyPhone]]
          /\ \A r \in CodeSlots \ {s} : codePc'[r] = codePc[r] /\ codeReq'[r] = codeReq[r]
      BY <1>1, <1>3, DoneTyped
    <2>2. codePc'[s] # "use" /\ proven' \subseteq Phones
      BY <1>1, <1>3, <2>1 DEF Typed
    <2>3. QED BY <1>3, <2>1, <2>2, OtherSlotKeeps
  <1>4. CASE WriteNewPhone(s)
    BY <1>1, <1>3, <1>4 DEF WriteNewPhone, Typed, PhoneProven
  <1>5. CASE WriteSamePhone(s)
    <2>1. /\ profile' = [profile EXCEPT !.phone = codeReq[s].phone]
          /\ phoneRaced' = (phoneRaced \/ profile.phone # codeReq[s].phone)
          /\ CodeDone(s) /\ UNCHANGED <<codes, emailVerified, uses, proven, codeRaced>>
      BY <1>5 DEF WriteSamePhone
    <2>2. /\ profile' \in [phone : AnyPhone, verified : BOOLEAN]
          /\ profile'.phone = codeReq[s].phone /\ profile'.verified = profile.verified
      BY <1>1, <2>1 DEF Typed
    <2>3. PhoneProven'
      BY <1>1, <2>1, <2>2 DEF PhoneProven
    <2>4. QED BY <1>1, <1>3, <2>1, <2>2, <2>3 DEF Typed
  <1>6. CASE CodeAbort(s)
    <2>1. PhoneProven'
      BY <1>1, <1>6 DEF PhoneProven, CodeAbort
    <2>2. QED BY <1>1, <1>3, <1>6, <2>1 DEF CodeAbort, Typed
  <1>7. QED BY <1>2, <1>4, <1>5, <1>6

LEMMA FirebaseKeeps ==
  ASSUME CodesInv, NEW phone \in Phones, FirebaseVerify(phone)
  PROVE  CodesInv'
  <1>1. /\ profile' = [phone |-> phone, verified |-> TRUE] /\ proven' = proven \cup {phone}
        /\ UNCHANGED <<codes, emailVerified, codePc, codeReq, uses, codeRaced, phoneRaced>>
    BY DEF FirebaseVerify
  <1>2. Typed'
    BY <1>1 DEF CodesInv, Typed, AnyPhone
  <1>3. UsedTrue'
    BY <1>1 DEF CodesInv, UsedTrue
  <1>4. QED BY <1>1, <1>2, <1>3 DEF CodesInv, PhoneProven

\* Every step of the specification keeps the invariant.
LEMMA CodesStepKeeps == CodesInv /\ [CodesNext]_codeVars => CodesInv'
  <1> SUFFICES ASSUME CodesInv, [CodesNext]_codeVars PROVE CodesInv'
    OBVIOUS
  <1>1. CASE ResendVerification
    BY <1>1, InsertKeeps DEF ResendVerification, CodeKinds, AnyPhone
  <1>2. CASE ForgotPassword
    BY <1>2, InsertKeeps DEF ForgotPassword, CodeKinds, AnyPhone
  <1>3. CASE \E phone \in Phones : SendPhoneCode(phone)
    BY <1>3, InsertKeeps DEF SendPhoneCode, CodeKinds, AnyPhone
  <1>4. CASE \E c \in DOMAIN codes : CodeExpires(c)
    BY <1>4, ExpiryKeeps
  <1>5. CASE \E phone \in Phones : FirebaseVerify(phone)
    BY <1>5, FirebaseKeeps
  <1>6. CASE \E s \in CodeSlots : \E c \in DOMAIN codes : CheckCode(s, c)
    BY <1>6, CheckKeeps
  <1>7. CASE \E s \in CodeSlots : UseCode(s)
    BY <1>7, UseKeeps
  <1>8. CASE \E s \in CodeSlots :
               \/ \E phone \in AnyPhone : UpdateProfileRead(s, phone)
               \/ WriteNewPhone(s) \/ WriteSamePhone(s) \/ CodeAbort(s)
    BY <1>8, ProfileStepsKeep
  <1>9. CASE UNCHANGED codeVars
    <2>1. Typed' /\ UsedTrue' /\ PhoneProven'
      BY <1>9 DEF codeVars, CodesInv, Typed, UsedTrue, PhoneProven
    <2>2. QED BY <2>1 DEF CodesInv
  <1>10. QED
    BY <1>1, <1>2, <1>3, <1>4, <1>5, <1>6, <1>7, <1>8, <1>9 DEF CodesNext

\* The variables keep their types, whatever requests are served at once.
THEOREM CodesTypeCorrect == CodesSpec => []CodesTypeOK
  <1>1. CodesInv => CodesTypeOK
    BY TypedIsTypeOK DEF CodesInv
  <1>2. QED BY <1>1, CodesAtFirst, CodesStepKeeps, PTL DEF CodesSpec

\* A code works once unless two requests had checked it before either used it,
\* and a number shown as verified was proved by its owner unless a profile
\* update wrote a number it had read before another change.
THEOREM CodesProveOnce == CodesSpec => []CodesSound
  <1>1. CodesInv => CodesSound
    BY UsedOnce DEF CodesInv, CodesSound
  <1>2. QED BY <1>1, CodesAtFirst, CodesStepKeeps, PTL DEF CodesSpec
===============================================================================
