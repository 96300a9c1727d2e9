--------------------------------- MODULE Wallet ---------------------------------
(***************************************************************************)
(* How users come to have credits: AuthService.register with its welcome   *)
(* bonus, WalletService (first read, purchase, grant) and the wallet the   *)
(* AI controller creates when it finds none.                               *)
(*                                                                         *)
(* register opens an interactive transaction and creates the user in it    *)
(* with the global client, on a connection of its own: the user is there   *)
(* at once and stays when the transaction is rolled back.  Each connection *)
(* comes from the pool of Connections; a transaction holds one, a single   *)
(* statement only borrows one.                                             *)
(***************************************************************************)
EXTENDS Ledger, FiniteSets, FiniteSetsExt

CONSTANTS
  WalletSlots,       \* requests being served
  NoUser,            \* not a user
  PurchaseOrders,    \* ids of the orders purchase creates: bounds how many
  NoOrder,           \* not an order
  Packages,          \* credits of the packages, CREDIT_PACKAGES
  SignUpBonus,       \* env.WELCOME_BONUS_CREDITS
  FirstReadBonus,    \* WELCOME_BONUS of wallet.service.ts
  GrantAmounts,      \* what an admin grants
  MaxGifts,          \* bound: credits given to a user before another grant
  Connections        \* size of the connection pool

ASSUME WalletAssumption ==
  /\ NoUser \notin Users /\ NoOrder \notin PurchaseOrders
  /\ Packages \subseteq Nat \ {0} /\ GrantAmounts \subseteq Nat \ {0}
  /\ SignUpBonus \in Nat /\ FirstReadBonus \in Nat /\ MaxGifts \in Nat
  /\ Connections \in Nat \ {0}

VARIABLES
  hasUser,      \* hasUser[u]: the User row exists
  hasWallet,    \* hasWallet[u]: the CreditWallet row exists
  walletPc, walletReq,   \* the step a slot takes next, and for what
  purchase,     \* purchase[o]: who bought order o, and which package
  welcomes,     \* welcomes[u]: welcome-bonus rows of u
  unearned,     \* unearned[u]: u's wallet came from elsewhere than a welcome,
                \* or was read while the sign-up ran (history)
  lost          \* purchase orders whose request ended before the credits (history)

walletSlotVars == <<walletPc, walletReq>>
walletHistory == <<welcomes, unearned, lost>>
walletVars ==
  <<ledgerVars, hasUser, hasWallet, walletSlotVars, purchase, walletHistory>>

NoWalletRequest == [user |-> NoUser, order |-> NoOrder]
NotPurchased == [user |-> NoUser, credits |-> 0]

WalletTypeOK ==
  /\ LedgerTypeOK
  /\ hasUser \in [Users -> BOOLEAN] /\ hasWallet \in [Users -> BOOLEAN]
  /\ walletPc \in [WalletSlots -> {"idle", "begin", "create", "bonus", "orphan",
                                   "open", "credit"}]
  /\ walletReq \in [WalletSlots -> [user : Users \cup {NoUser},
                                    order : PurchaseOrders \cup {NoOrder}]]
  /\ purchase \in [PurchaseOrders -> [user : Users \cup {NoUser},
                                      credits : Packages \cup {0}]]
  /\ welcomes \in [Users -> Nat] /\ unearned \in [Users -> BOOLEAN]
  /\ lost \subseteq PurchaseOrders

WalletInit ==
  /\ OpenedWith([u \in Users |-> 0])
  /\ hasUser = [u \in Users |-> FALSE] /\ hasWallet = [u \in Users |-> FALSE]
  /\ walletPc = [s \in WalletSlots |-> "idle"]
  /\ walletReq = [s \in WalletSlots |-> NoWalletRequest]
  /\ purchase = [o \in PurchaseOrders |-> NotPurchased]
  /\ welcomes = [u \in Users |-> 0] /\ unearned = [u \in Users |-> FALSE]
  /\ lost = {}

WalletGoto(s, next) ==
  walletPc' = [walletPc EXCEPT ![s] = next] /\ UNCHANGED walletReq

WalletStart(s, next, r) ==
  /\ walletPc[s] = "idle"
  /\ walletPc' = [walletPc EXCEPT ![s] = next]
  /\ walletReq' = [walletReq EXCEPT ![s] = r]

WalletDone(s) ==
  /\ walletPc' = [walletPc EXCEPT ![s] = "idle"]
  /\ walletReq' = [walletReq EXCEPT ![s] = NoWalletRequest]

\* The connections that open transactions hold.
Held == {s \in WalletSlots : walletPc[s] \in {"create", "bonus"}}
ConnectionFree == Cardinality(Held) < Connections

SigningUp(u) ==
  \E s \in WalletSlots :
    walletPc[s] \in {"create", "bonus", "orphan"} /\ walletReq[s].user = u

\* One transaction: upsert the wallet, append the row.
Increase(u, amount, kind) ==
  /\ Post(u, kind, amount)
  /\ hasWallet' = [hasWallet EXCEPT ![u] = TRUE]
-------------------------------------------------------------------------------
(* register: find by e-mail, begin, create the user, give the bonus. *)

Register(s, u) ==
  /\ ~hasUser[u]
  /\ WalletStart(s, "begin", [NoWalletRequest EXCEPT !.user = u])
  /\ UNCHANGED <<ledgerVars, hasUser, hasWallet, purchase, walletHistory>>

Begin(s) ==
  /\ walletPc[s] = "begin"
  /\ ConnectionFree
  /\ WalletGoto(s, "create")
  /\ UNCHANGED <<ledgerVars, hasUser, hasWallet, purchase, walletHistory>>

\* The unique e-mail makes the second of two sign-ups fail and roll back.
CreateUser(s) ==
  LET u == walletReq[s].user
  IN /\ walletPc[s] = "create"
     /\ ConnectionFree
     /\ hasUser' = [hasUser EXCEPT ![u] = TRUE]
     /\ IF hasUser[u] THEN WalletDone(s) ELSE WalletGoto(s, "bonus")
     /\ UNCHANGED <<ledgerVars, hasWallet, purchase, walletHistory>>

WelcomeOnSignUp(s) ==
  LET u == walletReq[s].user
  IN /\ walletPc[s] = "bonus"
     /\ Increase(u, SignUpBonus, "gift")
     /\ welcomes' = [welcomes EXCEPT ![u] = @ + 1]
     /\ WalletDone(s)
     /\ UNCHANGED <<hasUser, purchase, unearned, lost>>

\* Mutant of TimeOut: the transaction waits for its connection for ever.
TimeOutOfBonusOnly(s) ==
  /\ walletPc[s] = "bonus"
  /\ WalletDone(s)
  /\ UNCHANGED <<ledgerVars, hasUser, hasWallet, purchase, walletHistory>>

\* The transaction outlives its five seconds: rolled back, its connection
\* given back.  A createUser still waiting for a connection will run.
TimeOut(s) ==
  /\ \/ walletPc[s] = "create" /\ WalletGoto(s, "orphan")
     \/ walletPc[s] = "bonus" /\ WalletDone(s)
  /\ UNCHANGED <<ledgerVars, hasUser, hasWallet, purchase, walletHistory>>

OrphanUser(s) ==
  /\ walletPc[s] = "orphan"
  /\ ConnectionFree
  /\ hasUser' = [hasUser EXCEPT ![walletReq[s].user] = TRUE]
  /\ WalletDone(s)
  /\ UNCHANGED <<ledgerVars, hasWallet, purchase, walletHistory>>
-------------------------------------------------------------------------------
(* A user's first read of the wallet, and the AI controller's upsert. *)

ReadNoWallet(s, u) ==
  /\ hasUser[u] /\ ~hasWallet[u]
  /\ WalletStart(s, "open", [NoWalletRequest EXCEPT !.user = u])
  /\ UNCHANGED <<ledgerVars, hasUser, hasWallet, purchase, walletHistory>>

\* Mutant of WelcomeOnFirstRead: the create is an upsert.
WelcomeOnEveryRead(s) ==
  LET u == walletReq[s].user
  IN /\ walletPc[s] = "open"
     /\ Increase(u, FirstReadBonus, "gift")
     /\ welcomes' = [welcomes EXCEPT ![u] = @ + 1]
     /\ unearned' = [unearned EXCEPT ![u] = @ \/ SigningUp(u)]
     /\ WalletDone(s)
     /\ UNCHANGED <<hasUser, purchase, lost>>

\* The primary key makes the second of two first reads fail.
WelcomeOnFirstRead(s) ==
  LET u == walletReq[s].user
  IN /\ walletPc[s] = "open"
     /\ ConnectionFree
     /\ IF hasWallet[u] THEN UNCHANGED <<ledgerVars, hasWallet, welcomes, unearned>>
        ELSE /\ Increase(u, FirstReadBonus, "gift")
             /\ welcomes' = [welcomes EXCEPT ![u] = @ + 1]
             /\ unearned' = [unearned EXCEPT ![u] = @ \/ SigningUp(u)]
     /\ WalletDone(s)
     /\ UNCHANGED <<hasUser, purchase, lost>>

TouchWallet(u) ==
  /\ hasUser[u] /\ ~hasWallet[u]
  /\ ConnectionFree
  /\ hasWallet' = [hasWallet EXCEPT ![u] = TRUE]
  /\ unearned' = [unearned EXCEPT ![u] = TRUE]
  /\ UNCHANGED <<ledgerVars, hasUser, walletSlotVars, purchase, welcomes, lost>>
-------------------------------------------------------------------------------
(* Grant and purchase. *)

GrantCredits(u) ==
  /\ hasUser[u]
  /\ ConnectionFree
  /\ ledger[u]["gift"] <= MaxGifts
  /\ \E amount \in GrantAmounts : Increase(u, amount, "gift")
  /\ unearned' = [unearned EXCEPT ![u] = @ \/ ~hasWallet[u]]
  /\ UNCHANGED <<hasUser, walletSlotVars, purchase, welcomes, lost>>

\* The controller's order, paid from the start; a second one in the same
\* millisecond fails on its id.
CreatePaidOrder(s, u) ==
  /\ hasUser[u]
  /\ ConnectionFree
  /\ \E o \in PurchaseOrders, credits \in Packages :
       /\ purchase[o] = NotPurchased
       /\ purchase' = [purchase EXCEPT ![o] = [user |-> u, credits |-> credits]]
       /\ WalletStart(s, "credit", [user |-> u, order |-> o])
  /\ UNCHANGED <<ledgerVars, hasUser, hasWallet, walletHistory>>

\* purchaseCredits: the order is the user's and paid.
CreditPurchase(s) ==
  LET u == walletReq[s].user
      o == walletReq[s].order
  IN /\ walletPc[s] = "credit"
     /\ ConnectionFree
     /\ Increase(u, purchase[o].credits, "purchase")
     /\ unearned' = [unearned EXCEPT ![u] = @ \/ ~hasWallet[u]]
     /\ WalletDone(s)
     /\ UNCHANGED <<hasUser, purchase, welcomes, lost>>

\* A database error or a crash.
WalletAbort(s) ==
  /\ walletPc[s] # "idle"
  /\ lost' = IF walletPc[s] = "credit" THEN lost \cup {walletReq[s].order} ELSE lost
  /\ WalletDone(s)
  /\ UNCHANGED <<ledgerVars, hasUser, hasWallet, purchase, welcomes, unearned>>

SignUpStep(s) ==
  Begin(s) \/ CreateUser(s) \/ WelcomeOnSignUp(s) \/ TimeOut(s) \/ OrphanUser(s)

WalletNext ==
  \/ \E s \in WalletSlots :
       \/ \E u \in Users : Register(s, u) \/ ReadNoWallet(s, u) \/ CreatePaidOrder(s, u)
       \/ SignUpStep(s) \/ WelcomeOnFirstRead(s) \/ CreditPurchase(s) \/ WalletAbort(s)
  \/ \E u \in Users : TouchWallet(u) \/ GrantCredits(u)

WalletSpec == WalletInit /\ [][WalletNext]_walletVars
-------------------------------------------------------------------------------
\* Everyone is welcomed once: a wallet that a welcome opened has exactly one
\* welcome bonus, from the sign-up or from the first read, through sign-ups that
\* failed half-way, that ran twice, and reads that raced each other.
WelcomedOnce ==
  \A u \in Users :
    unearned[u] \/ welcomes[u] = (IF hasWallet[u] THEN 1 ELSE 0)

\* The orders of u whose credits were added.
Credited(u) ==
  {o \in PurchaseOrders :
     /\ purchase[o].user = u
     /\ o \notin lost
     /\ \A s \in WalletSlots : walletReq[s].order # o}

\* The credits a user bought are those of the user's paid orders, each counted
\* once; only a request that ended between its order and its credits leaves an
\* order without them.  And the balance is the sum of the rows.
CreditsMatchOrders ==
  /\ BalanceMatchesLedger
  /\ \A u \in Users :
       ledger[u]["purchase"] = MapThenSumSet(LAMBDA o : purchase[o].credits, Credited(u))

\* Credits are earned once: no welcome and no purchase is missing or counted twice,
\* whatever sign-ups, reads, purchases, timeouts and errors overlap.
CreditsEarned == WelcomedOnce /\ CreditsMatchOrders

\* Sign-ups that hold all connections and wait for one more do not wait for
\* ever: a transaction always gives its connection back.  Fairness: a statement
\* that has its connection runs, and the engine times transactions out.
SignUpFairness == \A s \in WalletSlots : WF_walletVars(SignUpStep(s))
ConnectionsComeBack == \A s \in WalletSlots : s \in Held ~> s \notin Held
===============================================================================
