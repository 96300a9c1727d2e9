-------------------------------- MODULE Ledger --------------------------------
(***************************************************************************)
(* The two credit tables of the database: one CreditWallet row per user    *)
(* (its balance) and the CreditTransaction rows, which the code only ever  *)
(* appends to and reads back as one total per type (WalletService.getStats *)
(* groups by type).  Every service that moves credits EXTENDS this module. *)
(***************************************************************************)
EXTENDS Integers

CONSTANT Users

VARIABLES
  balance,   \* balance[u]: CreditWallet.balance, a signed Int column
  ledger     \* ledger[u][k]: sum of the deltas of u's rows of type k

ledgerVars == <<balance, ledger>>

Kinds == {"gift", "purchase", "spend", "refund"}

\* The totals after a sign-up gift of b[u] credits and nothing else.
OpenedWith(b) ==
  /\ balance = b
  /\ ledger = [u \in Users |-> [k \in Kinds |-> IF k = "gift" THEN b[u] ELSE 0]]

\* Mutant of Post: the row is forgotten.
PostWithoutRow(u, kind, delta) ==
  /\ balance' = [balance EXCEPT ![u] = @ + delta]
  /\ UNCHANGED ledger

\* One database transaction: move the balance and append the row that says so.
Post(u, kind, delta) ==
  /\ balance' = [balance EXCEPT ![u] = @ + delta]
  /\ ledger' = [ledger EXCEPT ![u] = [@ EXCEPT ![kind] = ledger[u][kind] + delta]]

LedgerTypeOK ==
  /\ balance \in [Users -> Int]
  /\ ledger \in [Users -> [Kinds -> Int]]

LedgerTotal(u) ==
  ledger[u]["gift"] + ledger[u]["purchase"] + ledger[u]["spend"] + ledger[u]["refund"]

\* The balance a user sees is the sum of the rows of the user's history, after
\* every charge, refund, gift and purchase: the two tables never disagree.
BalanceMatchesLedger == \A u \in Users : balance[u] = LedgerTotal(u)
===============================================================================
