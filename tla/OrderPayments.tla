----------------------------- MODULE OrderPayments -----------------------------
(***************************************************************************)
(* Orders and their payments: PaymentService with its two providers,       *)
(* PaymentValidator.validatePaymentInitiation, and the order operations    *)
(* of order.service.ts.  An order is pending from its commit on.           *)
(*                                                                         *)
(* A slot is a request being served.  Requests for another user's order or *)
(* payment are refused and change nothing, so they are no steps.           *)
(*                                                                         *)
(* As written, initiatePayment hands the validator amount 0 and an empty   *)
(* user ("Will be set from order", say its comments, and nothing sets      *)
(* them).  InitiationArgs = "blank" is that code; "order" is the service   *)
(* with the arguments its comments announce, so that all the code behind   *)
(* the validation can be reached.                                          *)
(***************************************************************************)
EXTENDS Integers, FiniteSets

CONSTANTS
  Orders, Payments,   \* ids; Payments bounds how many rows are inserted
  PaySlots,
  NoPayment,          \* not a payment
  TotalCents,         \* TotalCents[o]: Order.totalCents
  MaxRefunds,         \* bound: refunds of a payment the provider carries out
  InitiationArgs,     \* what the validator is given
  PayProviders        \* the values of env.PAYMENT_PROVIDER explored

ASSUME PaymentsAssumption ==
  /\ TotalCents \in [Orders -> Nat] /\ MaxRefunds \in Nat
  /\ InitiationArgs \in {"blank", "order"}
  /\ NoPayment \notin Payments
  /\ PayProviders \subseteq {"mock", "iyzico"}

VARIABLES
  payProvider,   \* env.PAYMENT_PROVIDER
  orderStatus,   \* orderStatus[o]: Order.status
  payment,       \* payment[p]: the row; status "none" before it is inserted
  payPc, payReq, \* the step a slot takes next, and for what
  refusal,       \* refusal[s]: the validator's errors, while s answers 400
  refunds,       \* refunds[p]: refunds of p that the provider carried out
  irregular,     \* irregular[o]: one of the events of Irregular happened (history)
  unsure         \* unsure[p]: two refunds of p overlapped, the provider declined
                 \* one, or one was never recorded (history)

paySlotVars == <<payPc, payReq, refusal>>
payTables == <<orderStatus, payment, refunds, irregular, unsure>>
payVars == <<payProvider, payTables, paySlotVars>>

OrderStatuses == {"pending", "paid", "failed", "canceled", "refunded"}
PaymentStatuses == {"pending", "success", "failed", "refunded"}
Errors == {"foreign", "status", "amount", "duplicate", "small", "large"}

PaymentRows == [order : Orders, status : PaymentStatuses \cup {"none"}]

NoPayRequest(o) ==
  [order |-> o, payment |-> NoPayment, card |-> FALSE, outcome |-> "failed"]

PaymentsTypeOK ==
  /\ payProvider \in PayProviders
  /\ orderStatus \in [Orders -> OrderStatuses]
  /\ payment \in [Payments -> PaymentRows]
  /\ payPc \in [PaySlots -> {"idle", "charge", "insert", "refused", "retrieve",
                             "settle", "refund", "record", "cancel"}]
  /\ payReq \in [PaySlots -> [order : Orders, payment : Payments \cup {NoPayment},
                              card : BOOLEAN, outcome : PaymentStatuses]]
  /\ refusal \in [PaySlots -> SUBSET Errors]
  /\ refunds \in [Payments -> Nat]
  /\ irregular \in [Orders -> BOOLEAN]
  /\ unsure \in [Payments -> BOOLEAN]

PaymentsInit ==
  /\ payProvider \in PayProviders
  /\ orderStatus = [o \in Orders |-> "pending"]
  /\ \E o \in Orders :
       /\ payment = [p \in Payments |-> [order |-> o, status |-> "none"]]
       /\ payReq = [s \in PaySlots |-> NoPayRequest(o)]
  /\ payPc = [s \in PaySlots |-> "idle"]
  /\ refusal = [s \in PaySlots |-> {}]
  /\ refunds = [p \in Payments |-> 0]
  /\ irregular = [o \in Orders |-> FALSE]
  /\ unsure = [p \in Payments |-> FALSE]

PaymentsOf(o, statuses) ==
  {p \in Payments : payment[p].order = o /\ payment[p].status \in statuses}

PayGoto(s, next) == payPc' = [payPc EXCEPT ![s] = next] /\ UNCHANGED <<payReq, refusal>>

PayDone(s) ==
  /\ payPc' = [payPc EXCEPT ![s] = "idle"]
  /\ payReq' = [payReq EXCEPT ![s] = NoPayRequest(payReq[s].order)]
  /\ refusal' = [refusal EXCEPT ![s] = {}]

PayStart(s, next, r) ==
  /\ payPc[s] = "idle"
  /\ payPc' = [payPc EXCEPT ![s] = next]
  /\ payReq' = [payReq EXCEPT ![s] = r]
  /\ UNCHANGED refusal

\* An initiation for o between its validation and its row.
Initiating(o) ==
  {s \in PaySlots : payPc[s] \in {"charge", "insert"} /\ payReq[s].order = o}
Refunding(p) ==
  {s \in PaySlots : payPc[s] \in {"refund", "record"} /\ payReq[s].payment = p}

\* The events after which an order and its payments may disagree: two
\* initiations overlap; a card is charged at once, which leaves the order
\* pending; the order is canceled, or its status set by hand, while a payment
\* of it is under way or done.
Irregular(o) == irregular' = [irregular EXCEPT ![o] = TRUE]
IrregularIf(o, condition) ==
  irregular' = [irregular EXCEPT ![o] = @ \/ condition]
-------------------------------------------------------------------------------
(* Initiation: validate, let the provider charge, insert the row. *)

\* Mutant of ValidationErrors: a pending payment does not rule out another.
ValidationErrorsAllowingMore(o) ==
  IF InitiationArgs = "blank" THEN {"foreign"}
  ELSE (IF orderStatus[o] # "pending" THEN {"status"} ELSE {})

ValidationErrors(o) ==
  LET amount == IF InitiationArgs = "order" THEN TotalCents[o] ELSE 0
      own    == InitiationArgs = "order"
  IN IF ~own THEN {"foreign"}
     ELSE (IF orderStatus[o] # "pending" THEN {"status"} ELSE {})
       \cup (IF amount # TotalCents[o] THEN {"amount"} ELSE {})
       \cup (IF PaymentsOf(o, {"pending"}) # {} THEN {"duplicate"} ELSE {})
       \cup (IF amount < 100 THEN {"small"} ELSE {})
       \cup (IF amount > 10000000 THEN {"large"} ELSE {})

Initiate(s, o, card) ==
  /\ payPc[s] = "idle"
  /\ payReq' = [payReq EXCEPT ![s] = [NoPayRequest(o) EXCEPT !.card = card]]
  /\ refusal' = [refusal EXCEPT ![s] = ValidationErrors(o)]
  /\ LET valid == ValidationErrors(o) = {}
     IN /\ payPc' = [payPc EXCEPT ![s] = IF valid THEN "charge" ELSE "refused"]
        /\ IrregularIf(o, valid /\ Initiating(o) # {})
  /\ UNCHANGED <<payProvider, orderStatus, payment, refunds, unsure>>

Refuse(s) ==
  /\ payPc[s] = "refused"
  /\ PayDone(s)
  /\ UNCHANGED <<payProvider, payTables>>

\* The mock draws its answer, whatever the method.
MockOutcomes == {"pending", "failed"}

\* Iyzico charges a card at once, and otherwise opens a checkout form.
IyzicoOutcomes(card) == IF card THEN {"success", "failed"} ELSE {"pending", "failed"}

InitiationOutcomes(card) ==
  IF payProvider = "iyzico" THEN IyzicoOutcomes(card) ELSE MockOutcomes

\* The order is read again, and the provider called with its total.
Charge(s) ==
  LET o == payReq[s].order
  IN /\ payPc[s] = "charge"
     /\ IF orderStatus[o] # "pending"
        THEN PayDone(s) /\ UNCHANGED irregular
        ELSE \E outcome \in InitiationOutcomes(payReq[s].card) :
               /\ payPc' = [payPc EXCEPT ![s] = "insert"]
               /\ payReq' = [payReq EXCEPT ![s].outcome = outcome, ![s].card = FALSE]
               /\ IrregularIf(o, outcome = "success")
               /\ UNCHANGED refusal
     /\ UNCHANGED <<payProvider, orderStatus, payment, refunds, unsure>>

InsertPayment(s) ==
  /\ payPc[s] = "insert"
  /\ \E p \in Payments :
       /\ payment[p].status = "none"
       /\ payment' = [payment EXCEPT ![p] =
                        [order |-> payReq[s].order, status |-> payReq[s].outcome]]
  /\ PayDone(s)
  /\ UNCHANGED <<payProvider, orderStatus, refunds, irregular, unsure>>
-------------------------------------------------------------------------------
(* The callback of a provider, at any time and any number of times; the    *)
(* mock's two test routes run the same handler.                            *)

Callback(s, p) ==
  /\ payment[p].status # "none"
  /\ PayStart(s, "retrieve", [NoPayRequest(payment[p].order) EXCEPT !.payment = p])
  /\ UNCHANGED <<payProvider, payTables>>

\* Mutant of Retrieve: the status of the request's body is believed.
RetrieveClaimed(s) ==
  /\ payPc[s] = "retrieve"
  /\ \E outcome \in {"success", "failed", "cancelled"} :
       payReq' = [payReq EXCEPT ![s].outcome = outcome]
  /\ payPc' = [payPc EXCEPT ![s] = "settle"]
  /\ UNCHANGED <<payProvider, payTables, refusal>>

\* What a provider's processCallback can answer; none ever says "cancelled".
RetrieveOutcomes == {"success", "failed"}

Retrieve(s) ==
  /\ payPc[s] = "retrieve"
  /\ \E outcome \in RetrieveOutcomes : payReq' = [payReq EXCEPT ![s].outcome = outcome]
  /\ payPc' = [payPc EXCEPT ![s] = "settle"]
  /\ UNCHANGED <<payProvider, payTables, refusal>>

\* Mutant of Settle: the payment need not be pending.
SettleAnyPayment(s) ==
  LET r == payReq[s]
  IN /\ payPc[s] = "settle"
     /\ payment' = [payment EXCEPT ![r.payment].status = r.outcome]
     /\ orderStatus' =
          IF orderStatus[r.order] # "pending" THEN orderStatus
          ELSE [orderStatus EXCEPT ![r.order] =
                  IF r.outcome = "success" THEN "paid" ELSE "failed"]
     /\ PayDone(s)
     /\ UNCHANGED <<payProvider, refunds, irregular, unsure>>

\* One transaction: the payment if it is still pending, then the order if it
\* still is.
Settle(s) ==
  LET r == payReq[s]
  IN /\ payPc[s] = "settle"
     /\ IF payment[r.payment].status # "pending" THEN UNCHANGED <<payment, orderStatus>>
        ELSE /\ payment' = [payment EXCEPT ![r.payment].status = r.outcome]
             /\ orderStatus' =
                  IF orderStatus[r.order] # "pending" THEN orderStatus
                  ELSE [orderStatus EXCEPT ![r.order] =
                          IF r.outcome = "success" THEN "paid" ELSE "failed"]
     /\ PayDone(s)
     /\ UNCHANGED <<payProvider, refunds, irregular, unsure>>
-------------------------------------------------------------------------------
(* Refund: read, let the provider pay back, record. *)

\* Mutant of Refund: a payment may be refunded again.
RefundAgain(s, p) ==
  /\ payment[p].status \in {"success", "refunded"}
  /\ PayStart(s, "refund", [NoPayRequest(payment[p].order) EXCEPT !.payment = p])
  /\ unsure' = [unsure EXCEPT ![p] = @ \/ Refunding(p) # {}]
  /\ UNCHANGED <<payProvider, orderStatus, payment, refunds, irregular>>

Refund(s, p) ==
  /\ payment[p].status = "success"
  /\ PayStart(s, "refund", [NoPayRequest(payment[p].order) EXCEPT !.payment = p])
  /\ unsure' = [unsure EXCEPT ![p] = @ \/ Refunding(p) # {}]
  /\ UNCHANGED <<payProvider, orderStatus, payment, refunds, irregular>>

\* The mock always refunds; Iyzico may decline, and its answer is not read.
MayDecline == payProvider = "iyzico"

GiveBack(s) ==
  LET p == payReq[s].payment
  IN /\ payPc[s] = "refund"
     /\ \/ /\ refunds[p] < MaxRefunds
           /\ refunds' = [refunds EXCEPT ![p] = @ + 1]
           /\ UNCHANGED unsure
        \/ /\ MayDecline
           /\ unsure' = [unsure EXCEPT ![p] = TRUE]
           /\ UNCHANGED refunds
     /\ PayGoto(s, "record")
     /\ UNCHANGED <<payProvider, orderStatus, payment, irregular>>

\* Both rows by id, for a partial refund too.
RecordRefund(s) ==
  LET r == payReq[s]
  IN /\ payPc[s] = "record"
     /\ payment' = [payment EXCEPT ![r.payment].status = "refunded"]
     /\ orderStatus' = [orderStatus EXCEPT ![r.order] = "refunded"]
     /\ PayDone(s)
     /\ UNCHANGED <<payProvider, refunds, irregular, unsure>>
-------------------------------------------------------------------------------
(* Orders. *)

Underway(o) ==
  \/ PaymentsOf(o, {"pending", "success", "refunded"}) # {}
  \/ Initiating(o) # {}

CancelRead(s, o) ==
  /\ orderStatus[o] = "pending"
  /\ PayStart(s, "cancel", NoPayRequest(o))
  /\ UNCHANGED <<payProvider, payTables>>

CancelWrite(s) ==
  LET o == payReq[s].order
  IN /\ payPc[s] = "cancel"
     /\ orderStatus' = [orderStatus EXCEPT ![o] = "canceled"]
     /\ IrregularIf(o, Underway(o))
     /\ PayDone(s)
     /\ UNCHANGED <<payProvider, payment, refunds, unsure>>

\* The test route: any status, by id.
UpdateStatusForTesting(o) ==
  /\ \E status \in OrderStatuses \ {orderStatus[o]} :
       orderStatus' = [orderStatus EXCEPT ![o] = status]
  /\ Irregular(o)
  /\ UNCHANGED <<payProvider, payment, refunds, unsure, paySlotVars>>

\* A provider that rejects, a lost database connection or a crash: the
\* request ends where it is.
PayAbort(s) ==
  /\ payPc[s] \notin {"idle", "refused"}
  /\ unsure' = IF payPc[s] = "record" THEN [unsure EXCEPT ![payReq[s].payment] = TRUE]
               ELSE unsure
  /\ PayDone(s)
  /\ UNCHANGED <<payProvider, orderStatus, payment, refunds, irregular>>

PaymentsNext ==
  \/ \E s \in PaySlots :
       \/ \E o \in Orders : \/ \E card \in BOOLEAN : Initiate(s, o, card)
                            \/ CancelRead(s, o)
       \/ \E p \in Payments : Callback(s, p) \/ Refund(s, p)
       \/ Refuse(s) \/ Charge(s) \/ InsertPayment(s) \/ Retrieve(s) \/ Settle(s)
       \/ GiveBack(s) \/ RecordRefund(s) \/ CancelWrite(s) \/ PayAbort(s)
  \/ \E o \in Orders : UpdateStatusForTesting(o)

PaymentsSpec == PaymentsInit /\ [][PaymentsNext]_payVars
-------------------------------------------------------------------------------
\* An order and its payments tell one story: it is paid exactly when one
\* payment of it succeeded, and it was never charged by two.  Callbacks may be
\* repeated, be late or race each other, and a refund may run meanwhile; only
\* the events of Irregular break it.
OrderMatchesPayments ==
  \A o \in Orders : irregular[o] \/
    /\ (orderStatus[o] = "paid") <=> (PaymentsOf(o, {"success"}) # {})
    /\ (orderStatus[o] = "refunded") <=> (PaymentsOf(o, {"refunded"}) # {})
    /\ Cardinality(PaymentsOf(o, {"success", "refunded"})) <= 1

\* A payment settles once (processCallback calls its update idempotent):
\* success is only ever followed by a refund, failed and refunded by nothing,
\* however many callbacks and refunds are in flight.
PaymentSettlesOnce ==
  [][\A p \in Payments :
       \/ payment'[p] = payment[p]
       \/ payment[p].status \in {"none", "pending"}
       \/ payment[p].status = "success" /\ payment'[p].status = "refunded"]_payment

\* The provider pays a payment back at most once, and exactly when the row says
\* so, unless two refunds overlapped, one was declined or never recorded.
RefundedOnce ==
  \A p \in Payments :
    \/ unsure[p]
    \/ refunds[p] = (IF payment[p].status = "refunded" THEN 1 ELSE 0)
    \/ refunds[p] = 1 /\ \E s \in Refunding(p) : payPc[s] = "record"

\* What the tests of the repository expect of a user who starts a payment for
\* an order of his: it is refused only because the order is not pending, or has
\* a payment that is.
RefusedForCause == \A s \in PaySlots : refusal[s] \subseteq {"status", "duplicate"}
===============================================================================
