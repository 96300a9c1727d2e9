--------------------------------- MODULE MCShop ---------------------------------
(* Instances of OrderPayments and Wallet for TLC.  The two share no state, so *)
(* a behaviour runs one of them.                                              *)
EXTENDS OrderPayments, Wallet

CONSTANT Parts

VARIABLE part

allVars == <<part, payVars, walletVars>>

MCTotalCents == [o \in Orders |-> 4000]

Init ==
  /\ part \in Parts /\ PaymentsInit /\ WalletInit
  /\ part = "wallet" => payProvider = "mock"

Next ==
  /\ UNCHANGED part
  /\ \/ part = "payments" /\ PaymentsNext /\ UNCHANGED walletVars
     \/ part = "wallet" /\ WalletNext /\ UNCHANGED payVars

Spec == Init /\ [][Next]_allVars /\ SignUpFairness

\* Every variable of the two modules has its type.
ShopTypeOK == PaymentsTypeOK /\ WalletTypeOK
=================================================================================
