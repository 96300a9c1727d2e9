----------------------------- MODULE CreditAccount -----------------------------
(***************************************************************************)
(* What the credit system promises about paid jobs, whatever runs them: a  *)
(* job is charged at most once, one refund at most gives back exactly what *)
(* was charged and to the payer, and nothing else takes credits.           *)
(***************************************************************************)
EXTENDS Ledger

CONSTANTS
  Jobs,
  Prices,    \* what a job may cost
  Amounts    \* what a top-up may add

VARIABLE charge   \* charge[j]: what is known of j's payment

accountVars == <<balance, ledger, charge>>

NoCharge == [state |-> "none"]

Init ==
  /\ balance \in [Users -> Nat]
  /\ OpenedWith(balance)
  /\ charge = [j \in Jobs |-> NoCharge]

Spend(j) ==
  /\ charge[j] = NoCharge
  /\ \E u \in Users, a \in Prices :
       /\ charge' = [charge EXCEPT ![j] =
                       [state |-> "spent", payer |-> u, amount |-> a]]
       /\ Post(u, "spend", -a)

GiveBack(j) ==
  /\ charge[j] # NoCharge
  /\ charge[j].state = "spent"
  /\ charge' = [charge EXCEPT ![j] =
                  [state |-> "returned", payer |-> charge[j].payer,
                   amount |-> charge[j].amount]]
  /\ Post(charge[j].payer, "refund", charge[j].amount)

TopUp(u) ==
  /\ \E kind \in {"gift", "purchase"}, a \in Amounts : Post(u, kind, a)
  /\ UNCHANGED charge

Next ==
  \/ \E j \in Jobs : Spend(j) \/ GiveBack(j)
  \/ \E u \in Users : TopUp(u)

Spec == Init /\ [][Next]_accountVars
===============================================================================
