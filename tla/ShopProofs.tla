------------------------------ MODULE ShopProofs ------------------------------
(* Theorems about OrderPayments and Wallet, and about MCShop, which runs them. *)
EXTENDS MCShop, FiniteSums
-------------------------------------------------------------------------------
(* What holds of OrderPayments for every number of orders, payments and requests, whatever their totals, and for both providers. *)

PaySteps == {"idle", "charge", "insert", "refused", "retrieve", "settle", "refund",
             "record", "cancel"}
PayRequests == [order : Orders, payment : Payments \cup {NoPayment},
                card : BOOLEAN, outcome : PaymentStatuses]

\* What a request knows of the payment it read is still so: the row is there,
\* and a payment once seen as paid is paid or refunded.
InFlight(s) ==
  /\ payPc[s] \in {"retrieve", "settle", "refund", "record"} =>
       /\ payReq[s].payment \in Payments
       /\ payment[payReq[s].payment].status # "none"
       /\ payment[payReq[s].payment].order = payReq[s].order
  /\ payPc[s] = "settle" => payReq[s].outcome \in {"success", "failed"}
  /\ payPc[s] = "insert" => payReq[s].outcome # "refunded"
  /\ payPc[s] \in {"refund", "record"} =>
       payment[payReq[s].payment].status \in {"success", "refunded"}

RequestsInFlight == \A s \in PaySlots : InFlight(s)

Refunds(s, p) == payPc[s] \in {"refund", "record"} /\ payReq[s].payment = p

\* One refund of p at a time, and what the provider did so far.
RefundTrue(p) ==
  /\ \A r, s \in PaySlots : Refunds(r, p) /\ Refunds(s, p) => r = s
  /\ \A s \in PaySlots : Refunds(s, p) =>
       payment[p].status = "success" /\ refunds[p] = IF payPc[s] = "record" THEN 1 ELSE 0
  /\ (\A s \in PaySlots : ~Refunds(s, p)) =>
       refunds[p] = IF payment[p].status = "refunded" THEN 1 ELSE 0

RefundsTrue == \A p \in Payments : unsure[p] \/ RefundTrue(p)

Initiates(s, o) == payPc[s] \in {"charge", "insert"} /\ payReq[s].order = o
PaymentIn(p, o, statuses) == payment[p].order = o /\ payment[p].status \in statuses
Alive(p, o) == PaymentIn(p, o, {"pending", "success", "refunded"})

\* One payment of o at a time, from its initiation to its refund.
Story(o) ==
  /\ \A r, s \in PaySlots : Initiates(r, o) /\ Initiates(s, o) => r = s
  /\ \A s \in PaySlots : Initiates(s, o) =>
       /\ orderStatus[o] = "pending"
       /\ \A p \in Payments : ~Alive(p, o)
       /\ payPc[s] = "insert" => payReq[s].outcome # "success"
  /\ \A p, q \in Payments : Alive(p, o) /\ Alive(q, o) => p = q
  /\ \A p \in Payments : PaymentIn(p, o, {"pending"}) => orderStatus[o] = "pending"
  /\ (orderStatus[o] = "paid") <=> (\E p \in Payments : PaymentIn(p, o, {"success"}))
  /\ (orderStatus[o] = "refunded") <=> (\E p \in Payments : PaymentIn(p, o, {"refunded"}))

Stories == \A o \in Orders : irregular[o] \/ Story(o)

PayInv == PaymentsTypeOK /\ RequestsInFlight /\ RefundsTrue /\ Stories

LEMMA RefundsKnown == PayInv => RefundedOnce
  <1> SUFFICES ASSUME PayInv, NEW p \in Payments, ~unsure[p]
               PROVE  \/ refunds[p] = (IF payment[p].status = "refunded" THEN 1 ELSE 0)
                      \/ refunds[p] = 1 /\ \E s \in Refunding(p) : payPc[s] = "record"
    BY DEF RefundedOnce
  <1>1. RefundTrue(p)
    BY DEF PayInv, RefundsTrue
  <1>2. CASE \A s \in PaySlots : ~Refunds(s, p)
    BY <1>1, <1>2 DEF RefundTrue
  <1>3. ASSUME NEW s \in PaySlots, Refunds(s, p)
        PROVE  \/ refunds[p] = (IF payment[p].status = "refunded" THEN 1 ELSE 0)
               \/ refunds[p] = 1 /\ \E r \in Refunding(p) : payPc[r] = "record"
    <2>1. payment[p].status = "success" /\ refunds[p] = IF payPc[s] = "record" THEN 1 ELSE 0
      BY <1>1, <1>3 DEF RefundTrue
    <2>2. s \in Refunding(p)
      BY <1>3 DEF Refunds, Refunding
    <2>3. QED BY <2>1, <2>2
  <1>4. QED BY <1>2, <1>3

LEMMA StoriesTold == PayInv => OrderMatchesPayments
  <1> SUFFICES ASSUME PayInv, NEW o \in Orders, ~irregular[o]
               PROVE  /\ (orderStatus[o] = "paid") <=> (PaymentsOf(o, {"success"}) # {})
                      /\ (orderStatus[o] = "refunded") <=> (PaymentsOf(o, {"refunded"}) # {})
                      /\ Cardinality(PaymentsOf(o, {"success", "refunded"})) <= 1
    BY DEF OrderMatchesPayments
  <1>1. Story(o)
    BY DEF PayInv, Stories
  <1>2. /\ (orderStatus[o] = "paid") <=> (PaymentsOf(o, {"success"}) # {})
        /\ (orderStatus[o] = "refunded") <=> (PaymentsOf(o, {"refunded"}) # {})
    BY <1>1 DEF Story, PaymentsOf, PaymentIn
  <1> DEFINE settled == PaymentsOf(o, {"success", "refunded"})
  <1>3. \A p, q \in settled : p = q
    BY <1>1 DEF Story, PaymentsOf, PaymentIn, Alive
  <1>4. settled = {} \/ \E p \in settled : settled = {p}
    BY <1>3
  <1> HIDE DEF settled
  <1>5. Cardinality(settled) <= 1
    <2>1. CASE settled = {}
      BY <2>1, FS_EmptySet
    <2>2. ASSUME NEW p, settled = {p} PROVE Cardinality(settled) <= 1
      BY <2>2, FS_Singleton
    <2>3. QED BY <1>4, <2>1, <2>2
  <1>6. QED BY <1>2, <1>5 DEF settled

LEMMA AtFirst == PaymentsInit => PayInv
  <1> SUFFICES ASSUME PaymentsInit PROVE PayInv
    OBVIOUS
  <1>1. PICK o \in Orders :
          /\ payment = [p \in Payments |-> [order |-> o, status |-> "none"]]
          /\ payReq = [s \in PaySlots |-> NoPayRequest(o)]
    BY DEF PaymentsInit
  <1>2. NoPayRequest(o) \in PayRequests
    BY DEF NoPayRequest, PayRequests, PaymentStatuses
  <1>3. payReq \in [PaySlots -> PayRequests] /\ payment \in [Payments -> PaymentRows]
    BY <1>1, <1>2 DEF PaymentRows
  <1>4. PaymentsTypeOK
    BY <1>3 DEF PaymentsInit, PaymentsTypeOK, PayRequests, OrderStatuses
  <1>5. /\ \A s \in PaySlots : payPc[s] = "idle"
        /\ \A p \in Payments : payment[p].status = "none" /\ refunds[p] = 0
        /\ \A q \in Orders : orderStatus[q] = "pending"
    BY <1>1 DEF PaymentsInit
  <1>6. RequestsInFlight /\ RefundsTrue
    BY <1>5 DEF RequestsInFlight, InFlight, RefundsTrue, RefundTrue, Refunds
  <1>7. Stories
    BY <1>5 DEF Stories, Story, Initiates, Alive, PaymentIn
  <1>8. QED BY <1>4, <1>6, <1>7 DEF PayInv
-------------------------------------------------------------------------------
\* One slot goes to a step with a request, and the others stay where they are.
Moves(s, step, req) ==
  /\ payPc' = [payPc EXCEPT ![s] = step]
  /\ payReq' = [payReq EXCEPT ![s] = req]

LEMMA Moved ==
  ASSUME PaymentsTypeOK, NEW s \in PaySlots, NEW step \in PaySteps, NEW req \in PayRequests,
         Moves(s, step, req)
  PROVE  /\ payPc' \in [PaySlots -> PaySteps] /\ payReq' \in [PaySlots -> PayRequests]
         /\ payPc'[s] = step /\ payReq'[s] = req
         /\ \A r \in PaySlots \ {s} : payPc'[r] = payPc[r] /\ payReq'[r] = payReq[r]
  BY DEF PaymentsTypeOK, Moves, PaySteps, PayRequests

LEMMA BlankRequest ==
  ASSUME NEW o \in Orders
  PROVE  /\ NoPayRequest(o) \in PayRequests /\ NoPayRequest(o).order = o
         /\ \A p \in Payments :
              LET r == [NoPayRequest(o) EXCEPT !.payment = p]
              IN r \in PayRequests /\ r.order = o /\ r.payment = p
         /\ \A card \in BOOLEAN :
              LET r == [NoPayRequest(o) EXCEPT !.card = card]
              IN r \in PayRequests /\ r.order = o
  BY DEF NoPayRequest, PayRequests, PaymentStatuses

LEMMA DoneMoves ==
  ASSUME PaymentsTypeOK, NEW s \in PaySlots, PayDone(s)
  PROVE  \E req \in PayRequests : Moves(s, "idle", req)
  BY BlankRequest DEF PaymentsTypeOK, PayDone, Moves

LEMMA DoneRefusal ==
  ASSUME PaymentsTypeOK, NEW s \in PaySlots, PayDone(s)
  PROVE  refusal' \in [PaySlots -> SUBSET Errors]
  BY DEF PaymentsTypeOK, PayDone

\* A step that only moves one slot; the histories may grow.
LEMMA PaySlotMoves ==
  ASSUME PayInv, NEW s \in PaySlots, NEW step \in PaySteps, NEW req \in PayRequests,
         Moves(s, step, req),
         UNCHANGED <<payProvider, orderStatus, payment, refunds>>,
         refusal' \in [PaySlots -> SUBSET Errors],
         irregular' \in [Orders -> BOOLEAN], unsure' \in [Payments -> BOOLEAN],
         \A o \in Orders : irregular[o] => irregular'[o],
         \A p \in Payments : unsure[p] => unsure'[p],
         InFlight(s)',
         \A o \in Orders : Initiates(s, o)' /\ ~irregular'[o] =>
           /\ orderStatus[o] = "pending"
           /\ \A p \in Payments : ~Alive(p, o)
           /\ \A r \in PaySlots \ {s} : ~Initiates(r, o)
           /\ step = "insert" => req.outcome # "success",
         \A p \in Payments : Refunds(s, p)' /\ ~unsure'[p] =>
           /\ payment[p].status = "success"
           /\ refunds[p] = IF step = "record" THEN 1 ELSE 0
           /\ \A r \in PaySlots \ {s} : ~Refunds(r, p),
         \A p \in Payments : Refunds(s, p) /\ payPc[s] = "record" => unsure'[p]
  PROVE  PayInv'
  <1>1. /\ payPc' \in [PaySlots -> PaySteps] /\ payReq' \in [PaySlots -> PayRequests]
        /\ payPc'[s] = step /\ payReq'[s] = req
        /\ \A r \in PaySlots \ {s} : payPc'[r] = payPc[r] /\ payReq'[r] = payReq[r]
    BY Moved DEF PayInv
  <1>2. PaymentsTypeOK'
    BY <1>1 DEF PayInv, PaymentsTypeOK, PaySteps, PayRequests
  <1>3. RequestsInFlight'
    BY <1>1 DEF PayInv, RequestsInFlight, InFlight
  <1>4. RefundsTrue'
    <2> SUFFICES ASSUME NEW p \in Payments, ~unsure'[p] PROVE RefundTrue(p)'
      BY DEF RefundsTrue
    <2>1. RefundTrue(p)
      BY DEF PayInv, RefundsTrue
    <2>2. \A r \in PaySlots \ {s} : Refunds(r, p)' <=> Refunds(r, p)
      BY <1>1 DEF Refunds
    <2>3. CASE Refunds(s, p)'
      BY <1>1, <2>2, <2>3 DEF RefundTrue
    <2>4. CASE ~Refunds(s, p)'
      <3>1. CASE Refunds(s, p)
        <4>1. payment[p].status = "success" /\ refunds[p] = 0
          BY <2>1, <3>1 DEF RefundTrue
        <4>2. \A r \in PaySlots : ~Refunds(r, p)'
          BY <2>1, <2>2, <2>4, <3>1 DEF RefundTrue
        <4>3. QED BY <4>1, <4>2 DEF RefundTrue
      <3>2. CASE ~Refunds(s, p)
        <4>1. \A r \in PaySlots : Refunds(r, p)' <=> Refunds(r, p)
          BY <2>2, <2>4, <3>2
        <4>2. \A r \in PaySlots : Refunds(r, p)' => payPc'[r] = payPc[r]
          BY <1>1, <2>4
        <4>3. QED BY <2>1, <4>1, <4>2 DEF RefundTrue
      <3>3. QED BY <3>1, <3>2
    <2>5. QED BY <2>3, <2>4
  <1>5. Stories'
    <2> SUFFICES ASSUME NEW o \in Orders, ~irregular'[o] PROVE Story(o)'
      BY DEF Stories
    <2>1. Story(o)
      BY DEF PayInv, Stories
    <2>2. \A r \in PaySlots \ {s} : Initiates(r, o)' <=> Initiates(r, o)
      BY <1>1 DEF Initiates
    <2>3. \A p \in Payments, statuses \in SUBSET PaymentStatuses :
             PaymentIn(p, o, statuses)' <=> PaymentIn(p, o, statuses)
      BY DEF PaymentIn
    <2>4. \A p \in Payments : Alive(p, o)' <=> Alive(p, o)
      BY DEF Alive, PaymentIn
    <2>5. \A q, r \in PaySlots : Initiates(q, o)' /\ Initiates(r, o)' => q = r
      BY <2>1, <2>2 DEF Story
    <2>6. \A r \in PaySlots : Initiates(r, o)' =>
             /\ orderStatus'[o] = "pending"
             /\ \A p \in Payments : ~Alive(p, o)'
             /\ payPc'[r] = "insert" => payReq'[r].outcome # "success"
      BY <1>1, <2>1, <2>2, <2>4 DEF Story
    <2>7. QED BY <2>1, <2>4, <2>5, <2>6 DEF Story, PaymentIn
  <1>6. QED BY <1>2, <1>3, <1>4, <1>5 DEF PayInv

\* A step that leaves a slot neither initiating nor refunding, which was not
\* between the provider's refund and its record.
LEMMA PlainMove ==
  ASSUME PayInv, NEW s \in PaySlots, NEW step \in PaySteps \ {"charge", "insert", "refund", "record"},
         NEW req \in PayRequests, Moves(s, step, req), InFlight(s)', payPc[s] # "record",
         UNCHANGED <<payProvider, payTables>>, refusal' \in [PaySlots -> SUBSET Errors]
  PROVE  PayInv'
  <1>1. payPc'[s] = step
    BY Moved DEF PayInv
  <1>2. \A o \in Orders : ~Initiates(s, o)'
    BY <1>1 DEF Initiates
  <1>3. \A p \in Payments : ~Refunds(s, p)'
    BY <1>1 DEF Refunds
  <1>4. irregular' \in [Orders -> BOOLEAN] /\ unsure' \in [Payments -> BOOLEAN]
    BY DEF PayInv, PaymentsTypeOK, payTables
  <1>5. UNCHANGED <<payProvider, orderStatus, payment, refunds, irregular, unsure>>
    BY DEF payTables
  <1>6. QED BY <1>2, <1>3, <1>4, <1>5, PaySlotMoves
-------------------------------------------------------------------------------
(* The steps of one slot, one lemma per operation. *)

\* A request that ends idle, with nothing to record, changes nothing else.
LEMMA DoneKeeps ==
  ASSUME PayInv, NEW s \in PaySlots, PayDone(s), payPc[s] # "record",
         UNCHANGED <<payProvider, payTables>>
  PROVE  PayInv'
  <1>1. PaymentsTypeOK
    BY DEF PayInv
  <1>2. PICK req \in PayRequests : Moves(s, "idle", req)
    BY <1>1, DoneMoves
  <1>3. refusal' \in [PaySlots -> SUBSET Errors]
    BY <1>1, DoneRefusal
  <1>4. payPc'[s] = "idle"
    BY <1>1, <1>2, Moved DEF PaySteps
  <1>5. InFlight(s)'
    BY <1>4 DEF InFlight
  <1>6. QED BY <1>2, <1>3, <1>5, PlainMove DEF PaySteps

LEMMA ErrorsTyped ==
  ASSUME NEW o \in Orders
  PROVE  ValidationErrors(o) \subseteq Errors
  BY DEF ValidationErrors, Errors

LEMMA InitiateKeeps ==
  ASSUME PayInv, NEW s \in PaySlots, NEW o \in Orders, NEW card \in BOOLEAN,
         Initiate(s, o, card)
  PROVE  PayInv'
  <1> DEFINE valid == ValidationErrors(o) = {}
             step == IF valid THEN "charge" ELSE "refused"
  <1>1. PaymentsTypeOK /\ step \in PaySteps
    BY DEF PayInv, PaySteps
  <1>2. PICK req \in PayRequests : req.order = o /\ Moves(s, step, req)
    BY BlankRequest DEF Initiate, Moves
  <1>3. /\ UNCHANGED <<payProvider, orderStatus, payment, refunds, unsure>>
        /\ irregular' = [irregular EXCEPT ![o] = @ \/ (valid /\ Initiating(o) # {})]
        /\ refusal' = [refusal EXCEPT ![s] = ValidationErrors(o)]
    BY DEF Initiate, IrregularIf
  <1>4. /\ irregular' \in [Orders -> BOOLEAN] /\ unsure' \in [Payments -> BOOLEAN]
        /\ refusal' \in [PaySlots -> SUBSET Errors]
        /\ \A q \in Orders : irregular[q] => irregular'[q]
    BY <1>1, <1>3, ErrorsTyped DEF PaymentsTypeOK
  <1>5. payPc'[s] = step /\ payReq'[s] = req
    BY <1>1, <1>2, Moved
  <1>6. InFlight(s)' /\ \A p \in Payments : ~Refunds(s, p)'
    BY <1>5 DEF InFlight, Refunds
  <1>7. \A p \in Payments : ~Refunds(s, p)
    BY DEF Initiate, Refunds
  <1>8. ASSUME NEW q \in Orders, Initiates(s, q)', ~irregular'[q]
        PROVE  /\ orderStatus[q] = "pending"
               /\ \A p \in Payments : ~Alive(p, q)
               /\ \A r \in PaySlots \ {s} : ~Initiates(r, q)
               /\ step # "insert"
    <2>1. valid /\ q = o
      BY <1>2, <1>5, <1>8 DEF Initiates
    <2>2. ~irregular[o] /\ Initiating(o) = {}
      BY <1>1, <1>3, <1>8, <2>1 DEF PaymentsTypeOK
    <2>3. orderStatus[o] = "pending" /\ PaymentsOf(o, {"pending"}) = {}
      BY <2>1 DEF ValidationErrors
    <2>4. Story(o)
      BY <2>2 DEF PayInv, Stories
    <2>5. \A p \in Payments : ~Alive(p, o)
      BY <2>3, <2>4 DEF Story, Alive, PaymentIn, PaymentsOf
    <2>6. \A r \in PaySlots : ~Initiates(r, o)
      BY <2>2 DEF Initiating, Initiates
    <2>7. QED BY <2>1, <2>3, <2>5, <2>6
  <1> HIDE DEF step
  <1>9. QED BY <1>1, <1>2, <1>3, <1>4, <1>6, <1>7, <1>8, PaySlotMoves

LEMMA ChargeKeeps ==
  ASSUME PayInv, NEW s \in PaySlots, Charge(s)
  PROVE  PayInv'
  <1> DEFINE o == payReq[s].order
  <1>1. PaymentsTypeOK /\ o \in Orders /\ payReq[s] \in PayRequests /\ payPc[s] = "charge"
    BY DEF PayInv, PaymentsTypeOK, PayRequests, Charge
  <1>2. UNCHANGED <<payProvider, orderStatus, payment, refunds, unsure>>
    BY DEF Charge
  <1>3. CASE orderStatus[o] # "pending"
    <2>1. PayDone(s) /\ UNCHANGED irregular
      BY <1>3 DEF Charge
    <2>2. QED BY <1>1, <1>2, <2>1, DoneKeeps DEF payTables
  <1>4. CASE orderStatus[o] = "pending"
    <2>1. PICK outcome \in InitiationOutcomes(payReq[s].card) :
            /\ payPc' = [payPc EXCEPT ![s] = "insert"]
            /\ payReq' = [payReq EXCEPT ![s].outcome = outcome, ![s].card = FALSE]
            /\ irregular' = [irregular EXCEPT ![o] = @ \/ outcome = "success"]
            /\ UNCHANGED refusal
      BY <1>4 DEF Charge, IrregularIf
    <2>2. outcome \in {"pending", "failed", "success"}
      BY DEF InitiationOutcomes, IyzicoOutcomes, MockOutcomes
    <2> DEFINE req == [payReq[s] EXCEPT !.outcome = outcome, !.card = FALSE]
    <2>3. req \in PayRequests /\ req.order = o /\ req.outcome = outcome
      BY <1>1, <2>2 DEF PayRequests, PaymentStatuses
    <2>4. Moves(s, "insert", req)
      BY <1>1, <2>1 DEF Moves, PaymentsTypeOK
    <2> HIDE DEF req
    <2>5. payPc'[s] = "insert" /\ payReq'[s] = req
      BY <1>1, <2>3, <2>4, Moved DEF PaySteps
    <2>6. InFlight(s)' /\ (\A p \in Payments : ~Refunds(s, p)')
      BY <2>2, <2>3, <2>5 DEF InFlight, Refunds
    <2>7. /\ irregular' \in [Orders -> BOOLEAN] /\ unsure' \in [Payments -> BOOLEAN]
          /\ refusal' \in [PaySlots -> SUBSET Errors]
          /\ \A q \in Orders : irregular[q] => irregular'[q]
      BY <1>1, <1>2, <2>1 DEF PaymentsTypeOK
    <2>8. \A p \in Payments : ~Refunds(s, p)
      BY <1>1 DEF Refunds
    <2>9. ASSUME NEW q \in Orders, Initiates(s, q)', ~irregular'[q]
          PROVE  /\ orderStatus[q] = "pending"
                 /\ \A p \in Payments : ~Alive(p, q)
                 /\ \A r \in PaySlots \ {s} : ~Initiates(r, q)
                 /\ req.outcome # "success"
      <3>1. q = o
        BY <2>3, <2>5, <2>9 DEF Initiates
      <3>2. ~irregular[o] /\ outcome # "success"
        BY <1>1, <2>1, <2>9, <3>1 DEF PaymentsTypeOK
      <3>3. Story(o) /\ Initiates(s, o)
        BY <1>1, <3>2 DEF PayInv, Stories, Initiates
      <3>4. /\ \A p \in Payments : ~Alive(p, o)
            /\ \A r \in PaySlots \ {s} : ~Initiates(r, o)
        BY <3>3 DEF Story
      <3>5. QED BY <1>4, <2>3, <3>1, <3>2, <3>4
    <2> HIDE DEF o
    <2>10. QED
      BY <1>2, <2>3, <2>4, <2>6, <2>7, <2>8, <2>9, PaySlotMoves DEF PaySteps
  <1>5. QED BY <1>3, <1>4

LEMMA CallbackKeeps ==
  ASSUME PayInv, NEW s \in PaySlots, NEW p \in Payments, Callback(s, p)
  PROVE  PayInv'
  <1> DEFINE req == [NoPayRequest(payment[p].order) EXCEPT !.payment = p]
  <1>1. PaymentsTypeOK /\ payment[p].order \in Orders
    BY DEF PayInv, PaymentsTypeOK, PaymentRows
  <1>2. req \in PayRequests /\ req.order = payment[p].order /\ req.payment = p
    BY <1>1, BlankRequest
  <1>3. /\ Moves(s, "retrieve", req) /\ payPc[s] = "idle"
        /\ UNCHANGED <<payProvider, payTables, refusal>> /\ payment[p].status # "none"
    BY DEF Callback, PayStart, Moves
  <1> HIDE DEF req
  <1>4. payPc'[s] = "retrieve" /\ payReq'[s] = req
    BY <1>1, <1>2, <1>3, Moved DEF PaySteps
  <1>5. InFlight(s)'
    BY <1>2, <1>3, <1>4 DEF InFlight, payTables
  <1>6. refusal' \in [PaySlots -> SUBSET Errors]
    BY <1>1, <1>3 DEF PaymentsTypeOK
  <1>7. QED BY <1>2, <1>3, <1>5, <1>6, PlainMove DEF PaySteps

LEMMA RetrieveKeeps ==
  ASSUME PayInv, NEW s \in PaySlots, Retrieve(s)
  PROVE  PayInv'
  <1>1. PaymentsTypeOK /\ InFlight(s) /\ payReq[s] \in PayRequests
    BY DEF PayInv, PaymentsTypeOK, PayRequests, RequestsInFlight
  <1>2. PICK outcome \in {"success", "failed"} :
          payReq' = [payReq EXCEPT ![s].outcome = outcome]
    BY DEF Retrieve, RetrieveOutcomes
  <1> DEFINE req == [payReq[s] EXCEPT !.outcome = outcome]
  <1>3. /\ req \in PayRequests /\ req.outcome = outcome
        /\ req.order = payReq[s].order /\ req.payment = payReq[s].payment
    BY <1>1 DEF PayRequests, PaymentStatuses
  <1>4. /\ Moves(s, "settle", req) /\ payPc[s] = "retrieve"
        /\ UNCHANGED <<payProvider, payTables, refusal>>
    BY <1>1, <1>2 DEF Retrieve, Moves, PaymentsTypeOK
  <1> HIDE DEF req
  <1>5. payPc'[s] = "settle" /\ payReq'[s] = req
    BY <1>1, <1>3, <1>4, Moved DEF PaySteps
  <1>6. InFlight(s)'
    BY <1>1, <1>3, <1>4, <1>5 DEF InFlight, payTables
  <1>7. refusal' \in [PaySlots -> SUBSET Errors]
    BY <1>1, <1>4 DEF PaymentsTypeOK
  <1>8. QED BY <1>3, <1>4, <1>6, <1>7, PlainMove DEF PaySteps

LEMMA RefundKeeps ==
  ASSUME PayInv, NEW s \in PaySlots, NEW p \in Payments, Refund(s, p)
  PROVE  PayInv'
  <1> DEFINE req == [NoPayRequest(payment[p].order) EXCEPT !.payment = p]
  <1>1. PaymentsTypeOK /\ payment[p].order \in Orders
    BY DEF PayInv, PaymentsTypeOK, PaymentRows
  <1>2. req \in PayRequests /\ req.order = payment[p].order /\ req.payment = p
    BY <1>1, BlankRequest
  <1>3. /\ Moves(s, "refund", req) /\ payPc[s] = "idle" /\ payment[p].status = "success"
        /\ unsure' = [unsure EXCEPT ![p] = @ \/ Refunding(p) # {}]
        /\ UNCHANGED <<payProvider, orderStatus, payment, refunds, irregular, refusal>>
    BY DEF Refund, PayStart, Moves
  <1> HIDE DEF req
  <1>4. payPc'[s] = "refund" /\ payReq'[s] = req
    BY <1>1, <1>2, <1>3, Moved DEF PaySteps
  <1>5. InFlight(s)' /\ (\A o \in Orders : ~Initiates(s, o)')
    BY <1>2, <1>3, <1>4 DEF InFlight, Initiates
  <1>6. /\ irregular' \in [Orders -> BOOLEAN] /\ unsure' \in [Payments -> BOOLEAN]
        /\ refusal' \in [PaySlots -> SUBSET Errors]
        /\ \A q \in Payments : unsure[q] => unsure'[q]
    BY <1>1, <1>3 DEF PaymentsTypeOK
  <1>7. ASSUME NEW q \in Payments, Refunds(s, q)', ~unsure'[q]
        PROVE  /\ payment[q].status = "success" /\ refunds[q] = 0
               /\ \A r \in PaySlots \ {s} : ~Refunds(r, q)
    <2>1. q = p
      BY <1>2, <1>4, <1>7 DEF Refunds
    <2>2. ~unsure[p] /\ Refunding(p) = {}
      BY <1>1, <1>3, <1>7, <2>1 DEF PaymentsTypeOK
    <2>3. RefundTrue(p) /\ \A r \in PaySlots : ~Refunds(r, p)
      BY <2>2 DEF PayInv, RefundsTrue, Refunding, Refunds
    <2>4. QED BY <1>3, <2>1, <2>3 DEF RefundTrue
  <1>8. \A q \in Payments : ~(Refunds(s, q) /\ payPc[s] = "record")
    BY <1>3
  <1>9. QED BY <1>2, <1>3, <1>5, <1>6, <1>7, <1>8, PaySlotMoves DEF PaySteps

LEMMA CancelReadKeeps ==
  ASSUME PayInv, NEW s \in PaySlots, NEW o \in Orders, CancelRead(s, o)
  PROVE  PayInv'
  <1>1. PaymentsTypeOK /\ NoPayRequest(o) \in PayRequests
    BY BlankRequest DEF PayInv
  <1>2. /\ Moves(s, "cancel", NoPayRequest(o)) /\ payPc[s] = "idle"
        /\ UNCHANGED <<payProvider, payTables, refusal>>
    BY DEF CancelRead, PayStart, Moves
  <1>3. payPc'[s] = "cancel"
    BY <1>1, <1>2, Moved DEF PaySteps
  <1>4. InFlight(s)'
    BY <1>3 DEF InFlight
  <1>5. refusal' \in [PaySlots -> SUBSET Errors]
    BY <1>1, <1>2 DEF PaymentsTypeOK
  <1>6. QED BY <1>1, <1>2, <1>4, <1>5, PlainMove DEF PaySteps

LEMMA AbortKeeps ==
  ASSUME PayInv, NEW s \in PaySlots, PayAbort(s)
  PROVE  PayInv'
  <1>1. PaymentsTypeOK /\ InFlight(s)
    BY DEF PayInv, RequestsInFlight
  <1>2. PICK req \in PayRequests : Moves(s, "idle", req)
    BY <1>1, DoneMoves DEF PayAbort
  <1>3. refusal' \in [PaySlots -> SUBSET Errors]
    BY <1>1, DoneRefusal DEF PayAbort
  <1>4. payPc'[s] = "idle"
    BY <1>1, <1>2, Moved DEF PaySteps
  <1>5. /\ InFlight(s)' /\ (\A o \in Orders : ~Initiates(s, o)')
        /\ (\A p \in Payments : ~Refunds(s, p)')
    BY <1>4 DEF InFlight, Initiates, Refunds
  <1>6. /\ UNCHANGED <<payProvider, orderStatus, payment, refunds, irregular>>
        /\ unsure' = IF payPc[s] = "record" THEN [unsure EXCEPT ![payReq[s].payment] = TRUE]
                     ELSE unsure
    BY DEF PayAbort
  <1>7. payPc[s] = "record" => payReq[s].payment \in Payments
    BY <1>1 DEF InFlight
  <1>8. /\ irregular' \in [Orders -> BOOLEAN] /\ unsure' \in [Payments -> BOOLEAN]
        /\ \A q \in Payments : unsure[q] => unsure'[q]
        /\ \A q \in Payments : Refunds(s, q) /\ payPc[s] = "record" => unsure'[q]
    BY <1>1, <1>6, <1>7 DEF PaymentsTypeOK, Refunds
  <1>9. QED BY <1>2, <1>3, <1>5, <1>6, <1>8, PaySlotMoves DEF PaySteps
-------------------------------------------------------------------------------
(* The steps that write a table.                                             *)

\* A request that ends: its slot is idle, the others are where they were.
LEMMA Ended ==
  ASSUME PaymentsTypeOK, NEW s \in PaySlots, PayDone(s)
  PROVE  /\ payPc' \in [PaySlots -> PaySteps] /\ payReq' \in [PaySlots -> PayRequests]
         /\ refusal' \in [PaySlots -> SUBSET Errors]
         /\ payPc'[s] = "idle"
         /\ \A r \in PaySlots \ {s} : payPc'[r] = payPc[r] /\ payReq'[r] = payReq[r]
         /\ \A o \in Orders : \A r \in PaySlots :
              Initiates(r, o)' <=> r # s /\ Initiates(r, o)
         /\ \A p \in Payments : \A r \in PaySlots :
              Refunds(r, p)' <=> r # s /\ Refunds(r, p)
  <1>1. PICK req \in PayRequests : Moves(s, "idle", req)
    BY DoneMoves
  <1>2. /\ payPc' \in [PaySlots -> PaySteps] /\ payReq' \in [PaySlots -> PayRequests]
        /\ payPc'[s] = "idle"
        /\ \A r \in PaySlots \ {s} : payPc'[r] = payPc[r] /\ payReq'[r] = payReq[r]
    BY <1>1, Moved DEF PaySteps
  <1>3. refusal' \in [PaySlots -> SUBSET Errors]
    BY DoneRefusal
  <1>4. QED BY <1>2, <1>3 DEF Initiates, Refunds

\* The stories of the orders that a step leaves alone.
LEMMA OtherStories ==
  ASSUME PayInv, NEW s \in PaySlots, PayDone(s), NEW o \in Orders, Story(o),
         orderStatus'[o] = orderStatus[o],
         \A p \in Payments :
           \/ payment'[p] = payment[p]
           \/ /\ payment[p].order # o \/ payment[p].status = "none"
              /\ payment'[p].order # o
  PROVE  Story(o)'
  <1>1. /\ \A r \in PaySlots \ {s} : payPc'[r] = payPc[r] /\ payReq'[r] = payReq[r]
        /\ \A r \in PaySlots : Initiates(r, o)' <=> r # s /\ Initiates(r, o)
    BY Ended DEF PayInv
  <1>2. \A p \in Payments :
          /\ Alive(p, o)' <=> Alive(p, o)
          /\ PaymentIn(p, o, {"pending"})' <=> PaymentIn(p, o, {"pending"})
          /\ PaymentIn(p, o, {"success"})' <=> PaymentIn(p, o, {"success"})
          /\ PaymentIn(p, o, {"refunded"})' <=> PaymentIn(p, o, {"refunded"})
    BY DEF Alive, PaymentIn
  <1>3. \A q, r \in PaySlots : Initiates(q, o)' /\ Initiates(r, o)' => q = r
    BY <1>1 DEF Story
  <1>4. \A r \in PaySlots : Initiates(r, o)' =>
          /\ orderStatus'[o] = "pending"
          /\ \A p \in Payments : ~Alive(p, o)'
          /\ payPc'[r] = "insert" => payReq'[r].outcome # "success"
    BY <1>1, <1>2 DEF Story
  <1>5. QED BY <1>2, <1>3, <1>4 DEF Story

\* The refunds of the payments that a step leaves alone.
LEMMA OtherRefunds ==
  ASSUME PayInv, NEW s \in PaySlots, PayDone(s), NEW p \in Payments, RefundTrue(p),
         ~Refunds(s, p), refunds'[p] = refunds[p], payment'[p] = payment[p]
  PROVE  RefundTrue(p)'
  <1>1. /\ \A r \in PaySlots \ {s} : payPc'[r] = payPc[r]
        /\ \A r \in PaySlots : Refunds(r, p)' <=> Refunds(r, p)
    BY Ended DEF PayInv
  <1>2. QED BY <1>1 DEF RefundTrue, Refunds

LEMMA InsertKeeps ==
  ASSUME PayInv, NEW s \in PaySlots, InsertPayment(s)
  PROVE  PayInv'
  <1>0. PICK o \in Orders, outcome \in PaymentStatuses \ {"refunded"} :
          o = payReq[s].order /\ outcome = payReq[s].outcome
    BY DEF PayInv, PaymentsTypeOK, InsertPayment, RequestsInFlight, InFlight
  <1>1. /\ PaymentsTypeOK /\ payPc[s] = "insert" /\ PayDone(s)
        /\ UNCHANGED <<payProvider, orderStatus, refunds, irregular, unsure>>
    BY DEF PayInv, InsertPayment
  <1>2. PICK p \in Payments :
          /\ payment[p].status = "none"
          /\ payment' = [payment EXCEPT ![p] = [order |-> o, status |-> outcome]]
    BY <1>0 DEF InsertPayment
  <1>3. /\ payment' \in [Payments -> PaymentRows]
        /\ payment'[p].order = o /\ payment'[p].status = outcome
        /\ \A q \in Payments \ {p} : payment'[q] = payment[q]
    BY <1>1, <1>2 DEF PaymentsTypeOK, PaymentRows
  <1>4. Initiates(s, o) /\ (\A q \in Payments : ~Refunds(s, q))
    BY <1>0, <1>1 DEF Initiates, Refunds
  <1>5. PaymentsTypeOK'
    BY <1>1, <1>3, Ended DEF PaymentsTypeOK, PaySteps, PayRequests
  <1>6. RequestsInFlight'
    BY <1>1, <1>2, <1>3, Ended DEF PayInv, RequestsInFlight, InFlight
  <1>7. RefundsTrue'
    <2> SUFFICES ASSUME NEW q \in Payments, ~unsure[q] PROVE RefundTrue(q)'
      BY <1>1 DEF RefundsTrue
    <2>1. RefundTrue(q)
      BY DEF PayInv, RefundsTrue
    <2>2. CASE q = p
      <3>1. \A r \in PaySlots : ~Refunds(r, p)
        BY <1>2 DEF PayInv, RequestsInFlight, InFlight, Refunds
      <3>2. \A r \in PaySlots : ~Refunds(r, p)'
        BY <1>1, <3>1, Ended
      <3>3. refunds'[p] = 0 /\ payment'[p].status # "refunded"
        BY <1>1, <1>2, <1>3, <2>1, <2>2, <3>1 DEF RefundTrue
      <3>4. QED BY <2>2, <3>2, <3>3 DEF RefundTrue
    <2>3. CASE q # p
      BY <1>1, <1>3, <1>4, <2>1, <2>3, OtherRefunds
    <2>4. QED BY <2>2, <2>3
  <1>8. Stories'
    <2> SUFFICES ASSUME NEW q \in Orders, ~irregular[q] PROVE Story(q)'
      BY <1>1 DEF Stories
    <2>1. Story(q)
      BY DEF PayInv, Stories
    <2>2. CASE q # o
      <3>1. \A x \in Payments :
              \/ payment'[x] = payment[x]
              \/ /\ payment[x].order # q \/ payment[x].status = "none"
                 /\ payment'[x].order # q
        BY <1>2, <1>3, <2>2
      <3>2. QED BY <1>1, <2>1, <3>1, OtherStories
    <2>3. CASE q = o
      <3>1. /\ orderStatus[o] = "pending" /\ (\A x \in Payments : ~Alive(x, o))
            /\ outcome # "success"
        BY <1>0, <1>1, <1>4, <2>1, <2>3 DEF Story
      <3>2. \A r \in PaySlots : ~Initiates(r, o)'
        BY <1>1, <1>4, <2>1, <2>3, Ended DEF Story
      <3>3. \A x \in Payments \ {p} : ~Alive(x, o)'
        BY <1>3, <3>1 DEF Alive, PaymentIn
      <3>4. /\ ~PaymentIn(p, o, {"success"})' /\ ~PaymentIn(p, o, {"refunded"})'
            /\ orderStatus'[o] = "pending"
        BY <1>1, <1>3, <3>1 DEF PaymentIn
      <3>5. \A x \in Payments : /\ ~PaymentIn(x, o, {"success"})'
                                /\ ~PaymentIn(x, o, {"refunded"})'
        BY <3>3, <3>4 DEF Alive, PaymentIn
      <3>6. QED BY <2>3, <3>2, <3>3, <3>4, <3>5 DEF Story
    <2>4. QED BY <2>2, <2>3
  <1>9. QED BY <1>5, <1>6, <1>7, <1>8 DEF PayInv

LEMMA SettleKeeps ==
  ASSUME PayInv, NEW s \in PaySlots, Settle(s)
  PROVE  PayInv'
  <1>0. PICK p \in Payments, o \in Orders, outcome \in {"success", "failed"} :
          /\ p = payReq[s].payment /\ o = payReq[s].order /\ outcome = payReq[s].outcome
          /\ payment[p].order = o
    BY DEF PayInv, PaymentsTypeOK, Settle, RequestsInFlight, InFlight
  <1>1. /\ PaymentsTypeOK /\ payPc[s] = "settle" /\ PayDone(s)
        /\ UNCHANGED <<payProvider, refunds, irregular, unsure>>
    BY DEF PayInv, Settle
  <1>2. CASE payment[p].status # "pending"
    <2>1. UNCHANGED <<payProvider, payTables>>
      BY <1>0, <1>1, <1>2 DEF Settle, payTables
    <2>2. QED BY <1>1, <2>1, DoneKeeps
  <1>3. CASE payment[p].status = "pending"
    <2>1. /\ payment' = [payment EXCEPT ![p].status = outcome]
          /\ orderStatus' = IF orderStatus[o] # "pending" THEN orderStatus
                            ELSE [orderStatus EXCEPT ![o] =
                                    IF outcome = "success" THEN "paid" ELSE "failed"]
      BY <1>0, <1>3 DEF Settle
    <2>2. /\ payment' \in [Payments -> PaymentRows]
          /\ payment'[p].order = o /\ payment'[p].status = outcome
          /\ \A q \in Payments \ {p} : payment'[q] = payment[q]
      BY <1>0, <1>1, <2>1 DEF PaymentsTypeOK, PaymentRows, PaymentStatuses
    <2>3. /\ orderStatus' \in [Orders -> OrderStatuses]
          /\ \A q \in Orders \ {o} : orderStatus'[q] = orderStatus[q]
      BY <1>1, <2>1 DEF PaymentsTypeOK, OrderStatuses
    <2>4. /\ \A q \in Payments : ~Refunds(s, q)
          /\ \A r \in PaySlots : ~Refunds(r, p)
      BY <1>1, <1>3 DEF PayInv, RequestsInFlight, InFlight, Refunds
    <2>5. PaymentsTypeOK'
      BY <1>1, <2>2, <2>3, Ended DEF PaymentsTypeOK, PaySteps, PayRequests
    <2>6. RequestsInFlight'
      <3> SUFFICES ASSUME NEW r \in PaySlots PROVE InFlight(r)'
        BY DEF RequestsInFlight
      <3>1. InFlight(r)
        BY DEF PayInv, RequestsInFlight
      <3>2. CASE r = s
        BY <1>1, <3>2, Ended DEF InFlight
      <3>3. CASE r # s
        <4>1. payPc'[r] = payPc[r] /\ payReq'[r] = payReq[r]
          BY <1>1, <3>3, Ended
        <4>2. CASE payReq[r].payment = p
          BY <1>0, <1>1, <2>2, <2>4, <3>1, <4>1, <4>2 DEF InFlight, Refunds
        <4>3. CASE payReq[r].payment # p
          BY <2>2, <3>1, <4>1, <4>3 DEF InFlight
        <4>4. QED BY <4>2, <4>3
      <3>4. QED BY <3>2, <3>3
    <2>7. RefundsTrue'
      <3> SUFFICES ASSUME NEW q \in Payments, ~unsure[q] PROVE RefundTrue(q)'
        BY <1>1 DEF RefundsTrue
      <3>1. RefundTrue(q)
        BY DEF PayInv, RefundsTrue
      <3>2. CASE q = p
        <4>1. \A r \in PaySlots : ~Refunds(r, p)'
          BY <1>1, <2>4, Ended
        <4>2. refunds'[p] = 0 /\ payment'[p].status # "refunded"
          BY <1>1, <1>3, <2>2, <2>4, <3>1, <3>2 DEF RefundTrue
        <4>3. QED BY <3>2, <4>1, <4>2 DEF RefundTrue
      <3>3. CASE q # p
        BY <1>1, <2>2, <2>4, <3>1, <3>3, OtherRefunds
      <3>4. QED BY <3>2, <3>3
    <2>8. Stories'
      <3> SUFFICES ASSUME NEW q \in Orders, ~irregular[q] PROVE Story(q)'
        BY <1>1 DEF Stories
      <3>1. Story(q)
        BY DEF PayInv, Stories
      <3>2. CASE q # o
        <4>1. \A x \in Payments :
                \/ payment'[x] = payment[x]
                \/ /\ payment[x].order # q \/ payment[x].status = "none"
                   /\ payment'[x].order # q
          BY <1>0, <2>2, <3>2
        <4>2. QED BY <1>1, <2>3, <3>1, <3>2, <4>1, OtherStories
      <3>3. CASE q = o
        <4>1. Alive(p, o) /\ PaymentIn(p, o, {"pending"})
          BY <1>0, <1>3 DEF Alive, PaymentIn
        <4>2. /\ orderStatus[o] = "pending"
              /\ \A x \in Payments \ {p} : ~Alive(x, o)
              /\ \A r \in PaySlots : ~Initiates(r, o)
          BY <1>1, <3>1, <3>3, <4>1 DEF Story
        <4>3. orderStatus'[o] = IF outcome = "success" THEN "paid" ELSE "failed"
          BY <1>1, <2>1, <4>2 DEF PaymentsTypeOK
        <4>4. /\ \A r \in PaySlots : ~Initiates(r, o)'
              /\ \A x \in Payments \ {p} : ~Alive(x, o)'
          BY <1>1, <2>2, <4>2, Ended DEF Alive, PaymentIn
        <4>5. \A x \in Payments : /\ ~PaymentIn(x, o, {"pending"})'
                                  /\ ~PaymentIn(x, o, {"refunded"})'
                                  /\ PaymentIn(x, o, {"success"})' <=>
                                       x = p /\ outcome = "success"
          BY <1>1, <2>2, <4>4 DEF Alive, PaymentIn
        <4>6. QED BY <1>1, <3>3, <4>3, <4>4, <4>5 DEF Story
      <3>4. QED BY <3>2, <3>3
    <2>9. QED BY <2>5, <2>6, <2>7, <2>8 DEF PayInv
  <1>4. QED BY <1>2, <1>3

LEMMA GiveBackKeeps ==
  ASSUME PayInv, NEW s \in PaySlots, GiveBack(s)
  PROVE  PayInv'
  <1>0. PICK p \in Payments : p = payReq[s].payment
    BY DEF PayInv, GiveBack, RequestsInFlight, InFlight
  <1> DEFINE req == payReq[s]
  <1>1. /\ PaymentsTypeOK /\ InFlight(s) /\ req \in PayRequests /\ payPc[s] = "refund"
        /\ Moves(s, "record", req)
        /\ UNCHANGED <<payProvider, orderStatus, payment, irregular, refusal>>
    BY DEF PayInv, PaymentsTypeOK, GiveBack, PayGoto, Moves, RequestsInFlight, PayRequests
  <1>2. /\ payPc' \in [PaySlots -> PaySteps] /\ payReq' \in [PaySlots -> PayRequests]
        /\ payPc'[s] = "record" /\ payReq'[s] = req
        /\ \A r \in PaySlots \ {s} : payPc'[r] = payPc[r] /\ payReq'[r] = payReq[r]
    BY <1>1, Moved DEF PaySteps
  <1>3. InFlight(s)' /\ (\A o \in Orders : ~Initiates(s, o)')
    BY <1>1, <1>2 DEF InFlight, Initiates
  <1>4. /\ irregular' \in [Orders -> BOOLEAN] /\ refusal' \in [PaySlots -> SUBSET Errors]
    BY <1>1 DEF PaymentsTypeOK
  <1>5. CASE unsure' = [unsure EXCEPT ![p] = TRUE] /\ UNCHANGED refunds
    <2>1. /\ unsure' \in [Payments -> BOOLEAN] /\ unsure'[p]
          /\ \A q \in Payments : unsure[q] => unsure'[q]
      BY <1>1, <1>5 DEF PaymentsTypeOK
    <2>2. \A q \in Payments : Refunds(s, q)' => unsure'[q]
      BY <1>0, <1>2, <2>1 DEF Refunds
    <2>3. \A q \in Payments : ~(Refunds(s, q) /\ payPc[s] = "record")
      BY <1>1
    <2> HIDE DEF req
    <2>4. QED BY <1>1, <1>3, <1>4, <1>5, <2>1, <2>2, <2>3, PaySlotMoves DEF PaySteps
  <1>6. CASE refunds' = [refunds EXCEPT ![p] = @ + 1] /\ UNCHANGED unsure
    <2>1. /\ refunds' \in [Payments -> Nat] /\ refunds'[p] = refunds[p] + 1
          /\ \A q \in Payments \ {p} : refunds'[q] = refunds[q]
      BY <1>1, <1>6 DEF PaymentsTypeOK
    <2>2. PaymentsTypeOK'
      BY <1>1, <1>2, <1>6, <2>1 DEF PaymentsTypeOK, PaySteps, PayRequests
    <2>3. RequestsInFlight'
      BY <1>1, <1>2, <1>3 DEF PayInv, RequestsInFlight, InFlight
    <2>4. RefundsTrue'
      <3> SUFFICES ASSUME NEW q \in Payments, ~unsure[q] PROVE RefundTrue(q)'
        BY <1>6 DEF RefundsTrue
      <3>1. RefundTrue(q)
        BY DEF PayInv, RefundsTrue
      <3>2. \A r \in PaySlots : Refunds(r, q)' <=> Refunds(r, q)
        BY <1>1, <1>2 DEF Refunds
      <3>3. CASE q = p
        <4>1. Refunds(s, p) /\ Refunds(s, p)'
          BY <1>0, <1>1, <1>2 DEF Refunds
        <4>2. \A r \in PaySlots : Refunds(r, p)' => r = s
          BY <3>1, <3>2, <3>3, <4>1 DEF RefundTrue
        <4>3. payment[p].status = "success" /\ refunds[p] = 0
          BY <1>1, <3>1, <3>3, <4>1 DEF RefundTrue
        <4>4. payment'[p].status = "success" /\ refunds'[p] = 1 /\ payPc'[s] = "record"
          BY <1>1, <1>2, <2>1, <4>3
        <4>5. QED BY <3>3, <4>1, <4>2, <4>4 DEF RefundTrue
      <3>4. CASE q # p
        <4>1. ~Refunds(s, q)
          BY <1>0, <3>4 DEF Refunds
        <4>2. \A r \in PaySlots : Refunds(r, q) => payPc'[r] = payPc[r]
          BY <1>2, <4>1
        <4>3. payment'[q] = payment[q] /\ refunds'[q] = refunds[q]
          BY <1>1, <2>1, <3>4
        <4>4. QED BY <3>1, <3>2, <4>2, <4>3 DEF RefundTrue
      <3>5. QED BY <3>3, <3>4
    <2>5. Stories'
      <3> SUFFICES ASSUME NEW o \in Orders, ~irregular[o] PROVE Story(o)'
        BY <1>1 DEF Stories
      <3>1. Story(o) /\ ~Initiates(s, o)
        BY <1>1 DEF PayInv, Stories, Initiates
      <3>2. \A r \in PaySlots : Initiates(r, o)' <=> Initiates(r, o)
        BY <1>1, <1>2 DEF Initiates
      <3>3. \A r \in PaySlots : Initiates(r, o) => payPc'[r] = payPc[r] /\ payReq'[r] = payReq[r]
        BY <1>2, <3>1
      <3>4. \A q \in Payments :
              /\ Alive(q, o)' <=> Alive(q, o)
              /\ PaymentIn(q, o, {"pending"})' <=> PaymentIn(q, o, {"pending"})
              /\ PaymentIn(q, o, {"success"})' <=> PaymentIn(q, o, {"success"})
              /\ PaymentIn(q, o, {"refunded"})' <=> PaymentIn(q, o, {"refunded"})
        BY <1>1 DEF Alive, PaymentIn
      <3>5. orderStatus'[o] = orderStatus[o]
        BY <1>1
      <3>6. QED BY <3>1, <3>2, <3>3, <3>4, <3>5 DEF Story
    <2>6. QED BY <2>2, <2>3, <2>4, <2>5 DEF PayInv
  <1>7. QED BY <1>0, <1>5, <1>6 DEF GiveBack

LEMMA RecordKeeps ==
  ASSUME PayInv, NEW s \in PaySlots, RecordRefund(s)
  PROVE  PayInv'
  <1>0. PICK p \in Payments, o \in Orders :
          /\ p = payReq[s].payment /\ o = payReq[s].order
          /\ payment[p].order = o /\ payment[p].status \in {"success", "refunded"}
    BY DEF PayInv, PaymentsTypeOK, RecordRefund, RequestsInFlight, InFlight
  <1>1. /\ PaymentsTypeOK /\ payPc[s] = "record" /\ PayDone(s)
        /\ payment' = [payment EXCEPT ![p].status = "refunded"]
        /\ orderStatus' = [orderStatus EXCEPT ![o] = "refunded"]
        /\ UNCHANGED <<payProvider, refunds, irregular, unsure>>
    BY <1>0 DEF PayInv, RecordRefund
  <1>2. /\ payment' \in [Payments -> PaymentRows]
        /\ payment'[p].order = o /\ payment'[p].status = "refunded"
        /\ \A q \in Payments \ {p} : payment'[q] = payment[q]
    BY <1>0, <1>1 DEF PaymentsTypeOK, PaymentRows, PaymentStatuses
  <1>3. /\ orderStatus' \in [Orders -> OrderStatuses] /\ orderStatus'[o] = "refunded"
        /\ \A q \in Orders \ {o} : orderStatus'[q] = orderStatus[q]
    BY <1>1 DEF PaymentsTypeOK, OrderStatuses
  <1>4. PaymentsTypeOK'
    BY <1>1, <1>2, <1>3, Ended DEF PaymentsTypeOK, PaySteps, PayRequests
  <1>5. RequestsInFlight'
    <2> SUFFICES ASSUME NEW r \in PaySlots PROVE InFlight(r)'
      BY DEF RequestsInFlight
    <2>1. InFlight(r)
      BY DEF PayInv, RequestsInFlight
    <2>2. CASE r = s
      BY <1>1, <2>2, Ended DEF InFlight
    <2>3. CASE r # s
      <3>1. payPc'[r] = payPc[r] /\ payReq'[r] = payReq[r]
        BY <1>1, <2>3, Ended
      <3>2. CASE payReq[r].payment = p
        BY <1>0, <1>2, <2>1, <3>1, <3>2 DEF InFlight
      <3>3. CASE payReq[r].payment # p
        BY <1>2, <2>1, <3>1, <3>3 DEF InFlight
      <3>4. QED BY <3>2, <3>3
    <2>4. QED BY <2>2, <2>3
  <1>6. RefundsTrue'
    <2> SUFFICES ASSUME NEW q \in Payments, ~unsure[q] PROVE RefundTrue(q)'
      BY <1>1 DEF RefundsTrue
    <2>1. RefundTrue(q)
      BY DEF PayInv, RefundsTrue
    <2>2. CASE q = p
      <3>1. Refunds(s, p)
        BY <1>0, <1>1 DEF Refunds
      <3>2. refunds[p] = 1 /\ \A r \in PaySlots \ {s} : ~Refunds(r, p)
        BY <1>1, <2>1, <2>2, <3>1 DEF RefundTrue
      <3>3. \A r \in PaySlots : ~Refunds(r, p)'
        BY <1>1, <3>2, Ended
      <3>4. refunds'[p] = 1 /\ payment'[p].status = "refunded"
        BY <1>1, <1>2, <3>2
      <3>5. QED BY <2>2, <3>3, <3>4 DEF RefundTrue
    <2>3. CASE q # p
      <3>1. ~Refunds(s, q)
        BY <1>0, <2>3 DEF Refunds
      <3>2. QED BY <1>1, <1>2, <2>1, <2>3, <3>1, OtherRefunds
    <2>4. QED BY <2>2, <2>3
  <1>7. Stories'
    <2> SUFFICES ASSUME NEW q \in Orders, ~irregular[q] PROVE Story(q)'
      BY <1>1 DEF Stories
    <2>1. Story(q)
      BY DEF PayInv, Stories
    <2>2. CASE q # o
      <3>1. \A x \in Payments :
              \/ payment'[x] = payment[x]
              \/ /\ payment[x].order # q \/ payment[x].status = "none"
                 /\ payment'[x].order # q
        BY <1>0, <1>2, <2>2
      <3>2. QED BY <1>1, <1>3, <2>1, <2>2, <3>1, OtherStories
    <2>3. CASE q = o
      <3>1. Alive(p, o)
        BY <1>0 DEF Alive, PaymentIn
      <3>2. /\ \A x \in Payments \ {p} : ~Alive(x, o)
            /\ \A r \in PaySlots : ~Initiates(r, o)
        BY <2>1, <2>3, <3>1 DEF Story
      <3>3. /\ \A r \in PaySlots : ~Initiates(r, o)'
            /\ \A x \in Payments \ {p} : ~Alive(x, o)'
        BY <1>1, <1>2, <3>2, Ended DEF Alive, PaymentIn
      <3>4. \A x \in Payments : /\ ~PaymentIn(x, o, {"pending"})'
                                /\ ~PaymentIn(x, o, {"success"})'
                                /\ PaymentIn(x, o, {"refunded"})' <=> x = p
        BY <1>2, <3>3 DEF Alive, PaymentIn
      <3>5. QED BY <1>3, <2>3, <3>3, <3>4 DEF Story
    <2>4. QED BY <2>2, <2>3
  <1>8. QED BY <1>4, <1>5, <1>6, <1>7 DEF PayInv

LEMMA CancelKeeps ==
  ASSUME PayInv, NEW s \in PaySlots, CancelWrite(s)
  PROVE  PayInv'
  <1>0. PICK o \in Orders : o = payReq[s].order
    BY DEF PayInv, PaymentsTypeOK
  <1>1. /\ PaymentsTypeOK /\ payPc[s] = "cancel" /\ PayDone(s)
        /\ orderStatus' = [orderStatus EXCEPT ![o] = "canceled"]
        /\ irregular' = [irregular EXCEPT ![o] = @ \/ Underway(o)]
        /\ UNCHANGED <<payProvider, payment, refunds, unsure>>
    BY <1>0 DEF PayInv, CancelWrite, IrregularIf
  <1>2. /\ orderStatus' \in [Orders -> OrderStatuses] /\ orderStatus'[o] = "canceled"
        /\ \A q \in Orders \ {o} : orderStatus'[q] = orderStatus[q]
    BY <1>1 DEF PaymentsTypeOK, OrderStatuses
  <1>3. /\ irregular' \in [Orders -> BOOLEAN]
        /\ \A q \in Orders : irregular[q] => irregular'[q]
        /\ ~irregular'[o] => ~Underway(o)
    BY <1>1 DEF PaymentsTypeOK
  <1>4. PaymentsTypeOK'
    BY <1>1, <1>2, <1>3, Ended DEF PaymentsTypeOK, PaySteps, PayRequests
  <1>5. RequestsInFlight'
    BY <1>1, Ended DEF PayInv, RequestsInFlight, InFlight
  <1>6. RefundsTrue'
    <2> SUFFICES ASSUME NEW q \in Payments, ~unsure[q] PROVE RefundTrue(q)'
      BY <1>1 DEF RefundsTrue
    <2>1. RefundTrue(q) /\ ~Refunds(s, q)
      BY <1>1 DEF PayInv, RefundsTrue, Refunds
    <2>2. QED BY <1>1, <2>1, OtherRefunds
  <1>7. Stories'
    <2> SUFFICES ASSUME NEW q \in Orders, ~irregular'[q] PROVE Story(q)'
      BY DEF Stories
    <2>1. Story(q)
      BY <1>3 DEF PayInv, Stories
    <2>2. CASE q # o
      BY <1>1, <1>2, <2>1, <2>2, OtherStories
    <2>3. CASE q = o
      <3>1. /\ \A x \in Payments : ~Alive(x, o)
            /\ \A r \in PaySlots : ~Initiates(r, o)
        BY <1>3, <2>3 DEF Underway, PaymentsOf, Initiating, Alive, PaymentIn, Initiates
      <3>2. /\ \A x \in Payments : ~Alive(x, o)'
            /\ \A r \in PaySlots : ~Initiates(r, o)'
        BY <1>1, <3>1, Ended DEF Alive, PaymentIn
      <3>3. \A x \in Payments : /\ ~PaymentIn(x, o, {"pending"})'
                                /\ ~PaymentIn(x, o, {"success"})'
                                /\ ~PaymentIn(x, o, {"refunded"})'
        BY <3>2 DEF Alive, PaymentIn
      <3>4. QED BY <1>2, <2>3, <3>2, <3>3 DEF Story
    <2>4. QED BY <2>2, <2>3
  <1>8. QED BY <1>4, <1>5, <1>6, <1>7 DEF PayInv

LEMMA TestStatusKeeps ==
  ASSUME PayInv, NEW o \in Orders, UpdateStatusForTesting(o)
  PROVE  PayInv'
  <1>1. PICK status \in OrderStatuses :
          /\ orderStatus' = [orderStatus EXCEPT ![o] = status]
          /\ irregular' = [irregular EXCEPT ![o] = TRUE]
          /\ UNCHANGED <<payProvider, payment, refunds, unsure, payPc, payReq, refusal>>
    BY DEF UpdateStatusForTesting, Irregular, paySlotVars
  <1>2. PaymentsTypeOK'
    BY <1>1 DEF PayInv, PaymentsTypeOK
  <1>3. RequestsInFlight' /\ RefundsTrue'
    BY <1>1 DEF PayInv, RequestsInFlight, InFlight, RefundsTrue, RefundTrue, Refunds
  <1>4. Stories'
    <2> SUFFICES ASSUME NEW q \in Orders, ~irregular'[q] PROVE Story(q)'
      BY DEF Stories
    <2>1. ~irregular[q] /\ orderStatus'[q] = orderStatus[q]
      BY <1>1 DEF PayInv, PaymentsTypeOK
    <2>2. QED BY <1>1, <2>1 DEF PayInv, Stories, Story, Initiates, Alive, PaymentIn
  <1>5. QED BY <1>2, <1>3, <1>4 DEF PayInv
-------------------------------------------------------------------------------
\* Every step of the specification keeps the invariant.
LEMMA StepKeeps == PayInv /\ [PaymentsNext]_payVars => PayInv'
  <1> SUFFICES ASSUME PayInv, [PaymentsNext]_payVars PROVE PayInv'
    OBVIOUS
  <1>1. ASSUME NEW s \in PaySlots, NEW o \in Orders, NEW card \in BOOLEAN,
               Initiate(s, o, card) \/ CancelRead(s, o)
        PROVE  PayInv'
    BY <1>1, InitiateKeeps, CancelReadKeeps
  <1>2. ASSUME NEW s \in PaySlots, NEW p \in Payments, Callback(s, p) \/ Refund(s, p)
        PROVE  PayInv'
    BY <1>2, CallbackKeeps, RefundKeeps
  <1>3. ASSUME NEW s \in PaySlots, Refuse(s) PROVE PayInv'
    BY <1>3, DoneKeeps DEF Refuse
  <1>4. ASSUME NEW s \in PaySlots,
               Charge(s) \/ InsertPayment(s) \/ Retrieve(s) \/ Settle(s)
        PROVE  PayInv'
    BY <1>4, ChargeKeeps, InsertKeeps, RetrieveKeeps, SettleKeeps
  <1>5. ASSUME NEW s \in PaySlots,
               GiveBack(s) \/ RecordRefund(s) \/ CancelWrite(s) \/ PayAbort(s)
        PROVE  PayInv'
    BY <1>5, GiveBackKeeps, RecordKeeps, CancelKeeps, AbortKeeps
  <1>6. ASSUME NEW o \in Orders, UpdateStatusForTesting(o) PROVE PayInv'
    BY <1>6, TestStatusKeeps
  <1>7. CASE UNCHANGED payVars
    <2>1. UNCHANGED <<payProvider, orderStatus, payment, refunds, irregular, unsure,
                      payPc, payReq, refusal>>
      BY <1>7 DEF payVars, payTables, paySlotVars
    <2>2. PaymentsTypeOK' /\ RequestsInFlight' /\ RefundsTrue'
      BY <2>1 DEF PayInv, PaymentsTypeOK, RequestsInFlight, InFlight, RefundsTrue,
                  RefundTrue, Refunds
    <2>3. Stories'
      BY <2>1 DEF PayInv, Stories, Story, Initiates, Alive, PaymentIn
    <2>4. QED BY <2>2, <2>3 DEF PayInv
  <1>8. QED BY <1>1, <1>2, <1>3, <1>4, <1>5, <1>6, <1>7 DEF PaymentsNext

LEMMA PayInvHolds == PaymentsSpec => []PayInv
  BY AtFirst, StepKeeps, PTL DEF PaymentsSpec

\* Orders, payments and requests keep their types.
THEOREM PaymentsTypeCorrect == PaymentsSpec => []PaymentsTypeOK
  <1>1. PayInv => PaymentsTypeOK
    BY DEF PayInv
  <1>2. QED BY <1>1, PayInvHolds, PTL

\* Outside the events of Irregular an order is paid exactly when one payment of
\* it succeeded, refunded exactly when one was refunded, and settled by one
\* payment at most, whatever callbacks and refunds are in flight.
THEOREM OrdersTellTheirPayments == PaymentsSpec => []OrderMatchesPayments
  BY StoriesTold, PayInvHolds, PTL

\* The provider pays a payment back at most once, unless two refunds of it
\* overlapped, one was declined or one never recorded.
THEOREM PaidBackOnce == PaymentsSpec => []RefundedOnce
  BY RefundsKnown, PayInvHolds, PTL

\* A payment that succeeded is only ever refunded, and one that failed or was
\* refunded never changes.
THEOREM SettledForGood == PaymentsSpec => PaymentSettlesOnce
  <1> DEFINE Settles(p) ==
        \/ payment'[p] = payment[p]
        \/ payment[p].status \in {"none", "pending"}
        \/ payment[p].status = "success" /\ payment'[p].status = "refunded"
  <1>1. ASSUME PayInv, [PaymentsNext]_payVars
        PROVE  [\A p \in Payments : Settles(p)]_payment
    <2> SUFFICES ASSUME payment' # payment, NEW p \in Payments PROVE Settles(p)
      OBVIOUS
    <2>1. ASSUME NEW s \in PaySlots, InsertPayment(s) PROVE Settles(p)
      BY <1>1, <2>1 DEF InsertPayment, PayInv, PaymentsTypeOK
    <2>2. ASSUME NEW s \in PaySlots, Settle(s) PROVE Settles(p)
      BY <1>1, <2>2 DEF Settle, PayInv, PaymentsTypeOK
    <2>3. ASSUME NEW s \in PaySlots, RecordRefund(s) PROVE Settles(p)
      <3>1. /\ payPc[s] = "record" /\ payment \in [Payments -> PaymentRows]
            /\ payment' = [payment EXCEPT ![payReq[s].payment].status = "refunded"]
        BY <1>1, <2>3 DEF RecordRefund, PayInv, PaymentsTypeOK
      <3>2. /\ payReq[s].payment \in Payments
            /\ payment[payReq[s].payment].status \in {"success", "refunded"}
        BY <1>1, <3>1 DEF PayInv, RequestsInFlight, InFlight
      <3>3. QED BY <3>1, <3>2 DEF PaymentRows
    <2>4. QED
      BY <1>1, <2>1, <2>2, <2>3
      DEF PaymentsNext, payVars, payTables, Initiate, CancelRead, PayStart, Callback,
          Refund, Refuse, Charge, Retrieve, GiveBack, CancelWrite, PayAbort,
          UpdateStatusForTesting
  <1>2. QED BY <1>1, PayInvHolds, PTL DEF PaymentsSpec, PaymentSettlesOnce
-------------------------------------------------------------------------------
(* What holds of Wallet for every number of users, requests, packages and orders. *)

WalletSteps == {"idle", "begin", "create", "bonus", "orphan", "open", "credit"}
WalletRequests == [user : Users \cup {NoUser}, order : PurchaseOrders \cup {NoOrder}]
Purchases == [user : Users \cup {NoUser}, credits : Packages \cup {0}]

\* What a request about to take its next step has found or written.
Asks(s) ==
  LET r == walletReq[s]
  IN /\ walletPc[s] # "idle" => r.user \in Users
     /\ walletPc[s] \in {"bonus", "open", "credit"} => hasUser[r.user]
     /\ walletPc[s] = "bonus" => unearned[r.user] \/ ~hasWallet[r.user]
     /\ walletPc[s] = "credit" => /\ r.order \in PurchaseOrders
                                  /\ purchase[r.order].user = r.user
     /\ walletPc[s] # "credit" => r.order = NoOrder

\* One sign-up of a user gives the bonus, and one request the credits of an order.
Alone(s, o) ==
  s # o => /\ walletPc[s] = "bonus" /\ walletPc[o] = "bonus" =>
                walletReq[s].user # walletReq[o].user
           /\ walletReq[s].order # NoOrder => walletReq[s].order # walletReq[o].order

\* A wallet belongs to a user, and what a welcome opened has one.
Welcomed(u) ==
  /\ hasWallet[u] => hasUser[u]
  /\ unearned[u] \/ welcomes[u] = IF hasWallet[u] THEN 1 ELSE 0

\* Orders that were purchased, and what came of them.
Purchased == {o \in PurchaseOrders : purchase[o] # NotPurchased}
OrdersTrue ==
  /\ IsFiniteSet(Purchased) /\ lost \subseteq Purchased
  /\ \A s \in WalletSlots : walletReq[s].order \notin lost

CreditsTrue(u) == ledger[u]["purchase"] = CreditsOf(purchase, Credited(u))

WalletInv ==
  /\ WalletTypeOK
  /\ \A s \in WalletSlots : Asks(s)
  /\ \A s, o \in WalletSlots : Alone(s, o)
  /\ \A u \in Users : Welcomed(u)
  /\ BalanceMatchesLedger
  /\ OrdersTrue /\ \A u \in Users : CreditsTrue(u)

LEMMA WalletTyping ==
  ASSUME WalletTypeOK
  PROVE  /\ balance \in [Users -> Int] /\ ledger \in [Users -> [Kinds -> Int]]
         /\ hasUser \in [Users -> BOOLEAN] /\ hasWallet \in [Users -> BOOLEAN]
         /\ walletPc \in [WalletSlots -> WalletSteps]
         /\ walletReq \in [WalletSlots -> WalletRequests]
         /\ purchase \in [PurchaseOrders -> Purchases]
         /\ welcomes \in [Users -> Nat] /\ unearned \in [Users -> BOOLEAN]
         /\ lost \subseteq PurchaseOrders
         /\ NoUser \notin Users /\ NoOrder \notin PurchaseOrders
         /\ NoWalletRequest \in WalletRequests /\ NotPurchased \in Purchases
  BY WalletAssumption DEF WalletTypeOK, LedgerTypeOK, WalletSteps, WalletRequests, Purchases,
     NoWalletRequest, NotPurchased

\* A posting moves the balance by what its row says.
LEMMA PostAdds ==
  ASSUME WalletTypeOK, BalanceMatchesLedger, NEW u \in Users, NEW kind \in Kinds,
         NEW delta \in Int, Post(u, kind, delta)
  PROVE  /\ balance' \in [Users -> Int] /\ ledger' \in [Users -> [Kinds -> Int]]
         /\ BalanceMatchesLedger'
         /\ ledger'[u][kind] = ledger[u][kind] + delta
         /\ \A k \in Kinds : k # kind => ledger'[u][k] = ledger[u][k]
         /\ \A v \in Users \ {u} : ledger'[v] = ledger[v]
  <1>1. balance \in [Users -> Int] /\ ledger \in [Users -> [Kinds -> Int]]
    BY WalletTyping
  <1>2. /\ balance' = [balance EXCEPT ![u] = @ + delta]
        /\ ledger' = [ledger EXCEPT ![u] = [@ EXCEPT ![kind] = ledger[u][kind] + delta]]
    BY DEF Post
  <1>3. /\ ledger'[u][kind] = ledger[u][kind] + delta
        /\ \A k \in Kinds : k # kind => ledger'[u][k] = ledger[u][k]
        /\ \A v \in Users \ {u} : ledger'[v] = ledger[v]
        /\ balance'[u] = balance[u] + delta
        /\ \A v \in Users \ {u} : balance'[v] = balance[v]
    BY <1>1, <1>2
  <1>4. balance' \in [Users -> Int] /\ ledger' \in [Users -> [Kinds -> Int]]
    BY <1>1, <1>2
  <1>5. ASSUME NEW v \in Users PROVE balance'[v] = LedgerTotal(v)'
    <2>1. balance[v] = LedgerTotal(v)
      BY DEF BalanceMatchesLedger
    <2>2. CASE v # u
      BY <1>3, <2>1, <2>2 DEF LedgerTotal
    <2>3. CASE v = u
      <3>1. \A k \in Kinds : ledger[u][k] \in Int
        BY <1>1
      <3>2. kind \in {"gift", "purchase", "spend", "refund"}
        BY DEF Kinds
      <3>3. QED BY <1>3, <2>1, <2>3, <3>1, <3>2 DEF LedgerTotal, Kinds
    <2>4. QED BY <2>2, <2>3
  <1>6. QED BY <1>3, <1>4, <1>5 DEF BalanceMatchesLedger

\* Slot s moves to step next with the request r.
WalletMoved(s, next, r) ==
  /\ walletPc'[s] = next /\ walletReq'[s] = r
  /\ \A o \in WalletSlots \ {s} : walletPc'[o] = walletPc[o] /\ walletReq'[o] = walletReq[o]

LEMMA WalletMoves ==
  ASSUME WalletTypeOK, NEW s \in WalletSlots, NEW next \in WalletSteps,
         NEW r \in WalletRequests,
         \/ WalletStart(s, next, r)
         \/ WalletGoto(s, next) /\ r = walletReq[s]
         \/ WalletDone(s) /\ next = "idle" /\ r = NoWalletRequest
  PROVE  /\ WalletMoved(s, next, r)
         /\ walletPc' \in [WalletSlots -> WalletSteps]
         /\ walletReq' \in [WalletSlots -> WalletRequests]
  <1>1. walletPc \in [WalletSlots -> WalletSteps] /\ walletReq \in [WalletSlots -> WalletRequests]
    BY WalletTyping
  <1>2. walletPc' = [walletPc EXCEPT ![s] = next] /\ walletReq' = [walletReq EXCEPT ![s] = r]
    <2>1. CASE WalletStart(s, next, r)
      BY <2>1 DEF WalletStart
    <2>2. CASE WalletGoto(s, next) /\ r = walletReq[s]
      BY <1>1, <2>2 DEF WalletGoto
    <2>3. CASE WalletDone(s) /\ next = "idle" /\ r = NoWalletRequest
      BY <2>3 DEF WalletDone
    <2>4. QED BY <2>1, <2>2, <2>3
  <1>3. QED BY <1>1, <1>2 DEF WalletMoved

\* A request that does not move finds what it found, unless a wallet was opened for
\* the user it welcomes.
LEMMA StillAsks ==
  ASSUME WalletInv, NEW o \in WalletSlots, walletPc'[o] = walletPc[o],
         walletReq'[o] = walletReq[o],
         \A u \in Users : hasUser[u] => hasUser'[u],
         \A u \in Users : unearned[u] => unearned'[u],
         walletPc[o] = "bonus" =>
           \/ unearned'[walletReq[o].user]
           \/ hasWallet'[walletReq[o].user] => hasWallet[walletReq[o].user],
         \A x \in Purchased : purchase'[x] = purchase[x]
  PROVE  Asks(o)'
  <1>1. Asks(o) /\ NoUser \notin Users
    BY WalletAssumption DEF WalletInv
  <1>2. walletPc[o] = "credit" => walletReq[o].order \in Purchased
    BY <1>1 DEF Asks, Purchased, NotPurchased
  <1>3. QED BY <1>1, <1>2 DEF Asks

\* Orders and credits of a step that is about neither.
LEMMA OrdersStay ==
  ASSUME WalletInv, UNCHANGED <<purchase, lost>>,
         \A o \in WalletSlots : walletReq'[o].order = walletReq[o].order,
         \A u \in Users : ledger'[u]["purchase"] = ledger[u]["purchase"]
  PROVE  OrdersTrue' /\ \A u \in Users : CreditsTrue(u)'
  <1>1. Purchased' = Purchased
    BY DEF Purchased
  <1>2. OrdersTrue'
    BY <1>1 DEF WalletInv, OrdersTrue
  <1>3. ASSUME NEW u \in Users PROVE CreditsTrue(u)'
    <2>1. Credited(u)' = Credited(u)
      BY DEF Credited
    <2>2. CreditsTrue(u)
      BY DEF WalletInv
    <2>3. QED BY <2>1, <2>2 DEF CreditsTrue
  <1>4. QED BY <1>2, <1>3

LEMMA LedgerStays ==
  ASSUME WalletInv, UNCHANGED ledgerVars
  PROVE  /\ balance' \in [Users -> Int] /\ ledger' \in [Users -> [Kinds -> Int]]
         /\ BalanceMatchesLedger'
         /\ \A u \in Users : ledger'[u] = ledger[u]
  BY WalletTyping DEF WalletInv, BalanceMatchesLedger, LedgerTotal, ledgerVars

LEMMA WalletTyped ==
  ASSUME balance' \in [Users -> Int], ledger' \in [Users -> [Kinds -> Int]],
         hasUser' \in [Users -> BOOLEAN], hasWallet' \in [Users -> BOOLEAN],
         walletPc' \in [WalletSlots -> WalletSteps],
         walletReq' \in [WalletSlots -> WalletRequests],
         purchase' \in [PurchaseOrders -> Purchases],
         welcomes' \in [Users -> Nat], unearned' \in [Users -> BOOLEAN],
         lost' \subseteq PurchaseOrders
  PROVE  WalletTypeOK'
  BY DEF WalletTypeOK, LedgerTypeOK, WalletSteps, WalletRequests, Purchases

\* A step of slot s that is about no order and opens no wallet: what has to be shown.
LEMMA SlotMoves ==
  ASSUME WalletInv, NEW s \in WalletSlots, NEW next \in WalletSteps, NEW r \in WalletRequests,
         \/ WalletStart(s, next, r)
         \/ WalletGoto(s, next) /\ r = walletReq[s]
         \/ WalletDone(s) /\ next = "idle" /\ r = NoWalletRequest,
         UNCHANGED <<ledgerVars, hasWallet, purchase, walletHistory>>,
         hasUser' \in [Users -> BOOLEAN], \A u \in Users : hasUser[u] => hasUser'[u],
         r.order = NoOrder, walletReq[s].order = NoOrder, next # "credit",
         next # "idle" => r.user \in Users,
         next \in {"bonus", "open"} => hasUser'[r.user],
         next = "bonus" => unearned[r.user] \/ ~hasWallet[r.user],
         next = "bonus" => \A o \in WalletSlots \ {s} :
                             ~(walletPc[o] = "bonus" /\ walletReq[o].user = r.user)
  PROVE  WalletInv'
  <1>1. /\ WalletMoved(s, next, r)
        /\ walletPc' \in [WalletSlots -> WalletSteps]
        /\ walletReq' \in [WalletSlots -> WalletRequests]
    BY WalletMoves DEF WalletInv
  <1>2. UNCHANGED <<hasWallet, purchase, welcomes, unearned, lost>>
    BY DEF walletHistory
  <1>3. /\ balance' \in [Users -> Int] /\ ledger' \in [Users -> [Kinds -> Int]]
        /\ BalanceMatchesLedger' /\ \A u \in Users : ledger'[u] = ledger[u]
    BY LedgerStays
  <1>4. WalletTypeOK'
    BY <1>1, <1>2, <1>3, WalletTyped, WalletTyping DEF WalletInv
  <1>5. Asks(s)'
    BY <1>1, <1>2 DEF Asks, WalletMoved
  <1>6. \A o \in WalletSlots \ {s} : Asks(o)'
    BY <1>1, <1>2, StillAsks DEF WalletMoved
  <1>7. ASSUME NEW o \in WalletSlots, NEW q \in WalletSlots PROVE Alone(o, q)'
    <2>1. Alone(o, q) /\ Alone(q, o)
      BY DEF WalletInv
    <2>2. QED BY <1>1, <2>1 DEF Alone, WalletMoved
  <1>8. \A u \in Users : Welcomed(u)'
    BY <1>2 DEF WalletInv, Welcomed
  <1>9. OrdersTrue' /\ \A u \in Users : CreditsTrue(u)'
    <2>1. \A o \in WalletSlots : walletReq'[o].order = walletReq[o].order
      BY <1>1 DEF WalletMoved
    <2>2. QED BY <1>2, <1>3, <2>1, OrdersStay
  <1>10. QED BY <1>3, <1>4, <1>5, <1>6, <1>7, <1>8, <1>9 DEF WalletInv

LEMMA RegisterKeeps ==
  ASSUME WalletInv, NEW s \in WalletSlots, NEW u \in Users, Register(s, u)
  PROVE  WalletInv'
  <1> DEFINE r == [NoWalletRequest EXCEPT !.user = u]
  <1>1. r \in WalletRequests /\ r.user = u /\ r.order = NoOrder
    BY DEF WalletRequests, NoWalletRequest
  <1>2. walletReq[s].order = NoOrder
    BY DEF WalletInv, Asks, Register, WalletStart
  <1>3. UNCHANGED hasUser /\ hasUser \in [Users -> BOOLEAN]
    BY WalletTyping DEF Register, WalletInv
  <1>4. WalletStart(s, "begin", r) /\ UNCHANGED <<ledgerVars, hasWallet, purchase, walletHistory>>
    BY DEF Register
  <1> HIDE DEF r
  <1>5. "begin" \in WalletSteps
    BY DEF WalletSteps
  <1>6. QED BY <1>1, <1>2, <1>3, <1>4, <1>5, SlotMoves

LEMMA ReadNoWalletKeeps ==
  ASSUME WalletInv, NEW s \in WalletSlots, NEW u \in Users, ReadNoWallet(s, u)
  PROVE  WalletInv'
  <1> DEFINE r == [NoWalletRequest EXCEPT !.user = u]
  <1>1. r \in WalletRequests /\ r.user = u /\ r.order = NoOrder
    BY DEF WalletRequests, NoWalletRequest
  <1>2. walletReq[s].order = NoOrder
    BY DEF WalletInv, Asks, ReadNoWallet, WalletStart
  <1>3. UNCHANGED hasUser /\ hasUser \in [Users -> BOOLEAN] /\ hasUser'[u]
    BY WalletTyping DEF ReadNoWallet, WalletInv
  <1>4. WalletStart(s, "open", r) /\ UNCHANGED <<ledgerVars, hasWallet, purchase, walletHistory>>
    BY DEF ReadNoWallet
  <1> HIDE DEF r
  <1>5. "open" \in WalletSteps
    BY DEF WalletSteps
  <1>6. QED BY <1>1, <1>2, <1>3, <1>4, <1>5, SlotMoves

\* The request and the user of a slot that serves one.
LEMMA Served ==
  ASSUME WalletInv, NEW s \in WalletSlots, walletPc[s] # "idle"
  PROVE  /\ walletReq[s] \in WalletRequests /\ walletReq[s].user \in Users
         /\ walletPc[s] # "credit" => walletReq[s].order = NoOrder
         /\ NoWalletRequest \in WalletRequests /\ NoWalletRequest.order = NoOrder
         /\ hasUser \in [Users -> BOOLEAN] /\ {"idle", "create", "bonus", "orphan"} \subseteq WalletSteps
  BY WalletTyping DEF WalletInv, Asks, NoWalletRequest, WalletSteps

LEMMA BeginKeeps ==
  ASSUME WalletInv, NEW s \in WalletSlots, Begin(s)
  PROVE  WalletInv'
  <1>1. walletPc[s] = "begin" /\ WalletGoto(s, "create")
        /\ UNCHANGED <<ledgerVars, hasUser, hasWallet, purchase, walletHistory>>
    BY DEF Begin
  <1>2. PICK r : r = walletReq[s]
    OBVIOUS
  <1>3. r \in WalletRequests /\ r.user \in Users /\ r.order = NoOrder
        /\ hasUser \in [Users -> BOOLEAN] /\ "create" \in WalletSteps
    BY <1>1, <1>2, Served
  <1>4. QED BY <1>1, <1>2, <1>3, SlotMoves

LEMMA TimeOutKeeps ==
  ASSUME WalletInv, NEW s \in WalletSlots, TimeOut(s)
  PROVE  WalletInv'
  <1>1. UNCHANGED <<ledgerVars, hasUser, hasWallet, purchase, walletHistory>>
    BY DEF TimeOut
  <1>2. CASE walletPc[s] = "create" /\ WalletGoto(s, "orphan")
    <2>1. PICK r : r = walletReq[s]
      OBVIOUS
    <2>2. r \in WalletRequests /\ r.user \in Users /\ r.order = NoOrder
          /\ hasUser \in [Users -> BOOLEAN] /\ "orphan" \in WalletSteps
      BY <1>2, <2>1, Served
    <2>3. QED BY <1>1, <1>2, <2>1, <2>2, SlotMoves
  <1>3. CASE walletPc[s] = "bonus" /\ WalletDone(s)
    <2>1. NoWalletRequest \in WalletRequests /\ walletReq[s].order = NoOrder
          /\ hasUser \in [Users -> BOOLEAN] /\ "idle" \in WalletSteps
          /\ NoWalletRequest.order = NoOrder
      BY <1>3, Served
    <2>2. QED BY <1>1, <1>3, <2>1, SlotMoves
  <1>4. QED BY <1>2, <1>3 DEF TimeOut

LEMMA OrphanUserKeeps ==
  ASSUME WalletInv, NEW s \in WalletSlots, OrphanUser(s)
  PROVE  WalletInv'
  <1>1. walletPc[s] = "orphan" /\ WalletDone(s)
        /\ hasUser' = [hasUser EXCEPT ![walletReq[s].user] = TRUE]
        /\ UNCHANGED <<ledgerVars, hasWallet, purchase, walletHistory>>
    BY DEF OrphanUser
  <1>2. NoWalletRequest \in WalletRequests /\ walletReq[s].order = NoOrder
        /\ hasUser \in [Users -> BOOLEAN] /\ "idle" \in WalletSteps
        /\ NoWalletRequest.order = NoOrder /\ walletReq[s].user \in Users
    BY <1>1, Served
  <1>3. hasUser' \in [Users -> BOOLEAN] /\ \A v \in Users : hasUser[v] => hasUser'[v]
    BY <1>1, <1>2
  <1>4. QED BY <1>1, <1>2, <1>3, SlotMoves

LEMMA CreateUserKeeps ==
  ASSUME WalletInv, NEW s \in WalletSlots, CreateUser(s)
  PROVE  WalletInv'
  <1>1. PICK u : u = walletReq[s].user
    OBVIOUS
  <1>2. walletPc[s] = "create" /\ hasUser' = [hasUser EXCEPT ![u] = TRUE]
        /\ (IF hasUser[u] THEN WalletDone(s) ELSE WalletGoto(s, "bonus"))
        /\ UNCHANGED <<ledgerVars, hasWallet, purchase, walletHistory>>
    BY <1>1 DEF CreateUser
  <1>3. NoWalletRequest \in WalletRequests /\ walletReq[s].order = NoOrder
        /\ hasUser \in [Users -> BOOLEAN] /\ {"idle", "bonus"} \subseteq WalletSteps
        /\ NoWalletRequest.order = NoOrder /\ u \in Users /\ walletReq[s] \in WalletRequests
    BY <1>1, <1>2, Served
  <1>4. hasUser' \in [Users -> BOOLEAN] /\ hasUser'[u]
        /\ \A v \in Users : hasUser[v] => hasUser'[v]
    BY <1>2, <1>3
  <1>5. CASE hasUser[u]
    <2>1. WalletDone(s)
      BY <1>2, <1>5
    <2>2. QED BY <1>2, <1>3, <1>4, <2>1, SlotMoves
  <1>6. CASE ~hasUser[u]
    <2>1. WalletGoto(s, "bonus")
      BY <1>2, <1>6
    <2>2. PICK r : r = walletReq[s]
      OBVIOUS
    <2>3. ~hasWallet[u]
      BY <1>3, <1>6 DEF WalletInv, Welcomed
    <2>4. \A o \in WalletSlots \ {s} : ~(walletPc[o] = "bonus" /\ walletReq[o].user = u)
      BY <1>6 DEF WalletInv, Asks
    <2>5. r.user = u /\ r.order = NoOrder /\ r \in WalletRequests
      BY <1>1, <1>3, <2>2
    <2>6. "bonus" \in WalletSteps
      BY <1>3
    <2>7. QED BY <1>2, <1>3, <1>4, <2>1, <2>2, <2>3, <2>4, <2>5, <2>6, SlotMoves
  <1>7. QED BY <1>5, <1>6


\* The wallet of u is there, with a posting or without: what has to be shown but for
\* the orders.
LEMMA WalletOpens ==
  ASSUME WalletInv, NEW u \in Users, hasUser[u], UNCHANGED <<hasUser, purchase, lost>>,
         hasWallet' = [hasWallet EXCEPT ![u] = TRUE],
         UNCHANGED ledgerVars \/ \E kind \in Kinds, amount \in Int : Post(u, kind, amount),
         walletPc' \in [WalletSlots -> WalletSteps],
         walletReq' \in [WalletSlots -> WalletRequests],
         \A o \in WalletSlots :
           \/ /\ walletPc'[o] = walletPc[o] /\ walletReq'[o] = walletReq[o]
              /\ walletPc[o] = "bonus" /\ walletReq[o].user = u => unearned'[u] \/ hasWallet[u]
           \/ walletPc'[o] = "idle" /\ walletReq'[o] = NoWalletRequest,
         welcomes' \in [Users -> Nat], unearned' \in [Users -> BOOLEAN],
         \A v \in Users : unearned[v] => unearned'[v],
         \A v \in Users \ {u} : welcomes'[v] = welcomes[v],
         unearned'[u] \/ welcomes'[u] = 1
  PROVE  /\ WalletTypeOK'
         /\ \A s \in WalletSlots : Asks(s)'
         /\ \A s, o \in WalletSlots : Alone(s, o)'
         /\ \A v \in Users : Welcomed(v)'
         /\ BalanceMatchesLedger'
  <1>1. /\ balance' \in [Users -> Int] /\ ledger' \in [Users -> [Kinds -> Int]]
        /\ BalanceMatchesLedger'
    <2>1. CASE UNCHANGED ledgerVars
      BY <2>1, LedgerStays
    <2>2. ASSUME NEW kind \in Kinds, NEW amount \in Int, Post(u, kind, amount)
          PROVE  /\ balance' \in [Users -> Int] /\ ledger' \in [Users -> [Kinds -> Int]]
                 /\ BalanceMatchesLedger'
      BY <2>2, PostAdds DEF WalletInv
    <2>3. QED BY <2>1, <2>2
  <1>2. /\ hasWallet \in [Users -> BOOLEAN] /\ hasUser \in [Users -> BOOLEAN]
        /\ purchase \in [PurchaseOrders -> Purchases] /\ lost \subseteq PurchaseOrders
        /\ NoWalletRequest.order = NoOrder
    BY WalletTyping DEF WalletInv, NoWalletRequest
  <1>3. hasWallet' \in [Users -> BOOLEAN] /\ hasWallet'[u]
        /\ \A v \in Users \ {u} : hasWallet'[v] = hasWallet[v]
    BY <1>2
  <1>4. WalletTypeOK'
    BY <1>1, <1>2, <1>3, WalletTyped
  <1>5. ASSUME NEW o \in WalletSlots PROVE Asks(o)'
    <2>1. CASE walletPc'[o] = "idle" /\ walletReq'[o] = NoWalletRequest
      BY <1>2, <2>1 DEF Asks
    <2>2. CASE /\ walletPc'[o] = walletPc[o] /\ walletReq'[o] = walletReq[o]
               /\ walletPc[o] = "bonus" /\ walletReq[o].user = u => unearned'[u] \/ hasWallet[u]
      <3>1. walletPc[o] = "bonus" => walletReq[o].user \in Users
        BY DEF WalletInv, Asks
      <3>2. walletPc[o] = "bonus" =>
              \/ unearned'[walletReq[o].user]
              \/ hasWallet'[walletReq[o].user] => hasWallet[walletReq[o].user]
        BY <1>3, <2>2, <3>1
      <3>3. QED BY <2>2, <3>2, StillAsks
    <2>3. QED BY <2>1, <2>2
  <1>6. ASSUME NEW s \in WalletSlots, NEW o \in WalletSlots PROVE Alone(s, o)'
    <2>1. Alone(s, o)
      BY DEF WalletInv
    <2>2. /\ walletPc'[s] = "bonus" => walletPc[s] = "bonus" /\ walletReq'[s] = walletReq[s]
          /\ walletPc'[o] = "bonus" => walletPc[o] = "bonus" /\ walletReq'[o] = walletReq[o]
          /\ walletReq'[s].order \in {NoOrder, walletReq[s].order}
          /\ walletReq'[o].order \in {NoOrder, walletReq[o].order}
      BY <1>2
    <2>3. QED BY <2>1, <2>2 DEF Alone
  <1>7. ASSUME NEW v \in Users PROVE Welcomed(v)'
    <2>1. Welcomed(v)
      BY DEF WalletInv
    <2>2. CASE v # u
      BY <1>3, <2>1, <2>2 DEF Welcomed
    <2>3. CASE v = u
      BY <1>3, <2>3 DEF Welcomed
    <2>4. QED BY <2>2, <2>3
  <1>8. QED BY <1>1, <1>4, <1>5, <1>6, <1>7

\* The same of a gift, or of no posting, by a step that is about no order.
LEMMA GiftKeeps ==
  ASSUME WalletInv, NEW u \in Users, hasUser[u], UNCHANGED <<hasUser, purchase, lost>>,
         hasWallet' = [hasWallet EXCEPT ![u] = TRUE],
         UNCHANGED ledgerVars \/ \E amount \in Int : Post(u, "gift", amount),
         walletPc' \in [WalletSlots -> WalletSteps],
         walletReq' \in [WalletSlots -> WalletRequests],
         \A o \in WalletSlots :
           \/ /\ walletPc'[o] = walletPc[o] /\ walletReq'[o] = walletReq[o]
              /\ walletPc[o] = "bonus" /\ walletReq[o].user = u => unearned'[u] \/ hasWallet[u]
           \/ /\ walletPc'[o] = "idle" /\ walletReq'[o] = NoWalletRequest
              /\ walletReq[o].order = NoOrder,
         welcomes' \in [Users -> Nat], unearned' \in [Users -> BOOLEAN],
         \A v \in Users : unearned[v] => unearned'[v],
         \A v \in Users \ {u} : welcomes'[v] = welcomes[v],
         unearned'[u] \/ welcomes'[u] = 1
  PROVE  WalletInv'
  <1>1. "gift" \in Kinds /\ "purchase" \in Kinds
    BY DEF Kinds
  <1>2. UNCHANGED ledgerVars \/ \E kind \in Kinds, amount \in Int : Post(u, kind, amount)
    BY <1>1
  <1>3. \A o \in WalletSlots :
           \/ /\ walletPc'[o] = walletPc[o] /\ walletReq'[o] = walletReq[o]
              /\ walletPc[o] = "bonus" /\ walletReq[o].user = u => unearned'[u] \/ hasWallet[u]
           \/ walletPc'[o] = "idle" /\ walletReq'[o] = NoWalletRequest
    OBVIOUS
  <1>4. /\ WalletTypeOK'
        /\ \A s \in WalletSlots : Asks(s)'
        /\ \A s, o \in WalletSlots : Alone(s, o)'
        /\ \A v \in Users : Welcomed(v)'
        /\ BalanceMatchesLedger'
    BY <1>2, <1>3, WalletOpens
  <1>5. \A v \in Users : ledger'[v]["purchase"] = ledger[v]["purchase"]
    <2>1. CASE UNCHANGED ledgerVars
      BY <2>1 DEF ledgerVars
    <2>2. ASSUME NEW amount \in Int, Post(u, "gift", amount)
          PROVE  \A v \in Users : ledger'[v]["purchase"] = ledger[v]["purchase"]
      <3>1. /\ \A k \in Kinds : k # "gift" => ledger'[u][k] = ledger[u][k]
            /\ \A v \in Users \ {u} : ledger'[v] = ledger[v]
        BY <1>1, <2>2, PostAdds DEF WalletInv
      <3>2. QED BY <1>1, <3>1
    <2>3. QED BY <2>1, <2>2
  <1>6. \A o \in WalletSlots : walletReq'[o].order = walletReq[o].order
    BY DEF NoWalletRequest
  <1>7. OrdersTrue' /\ \A v \in Users : CreditsTrue(v)'
    BY <1>5, <1>6, OrdersStay
  <1>8. QED BY <1>4, <1>7 DEF WalletInv

LEMMA WelcomeOnSignUpKeeps ==
  ASSUME WalletInv, NEW s \in WalletSlots, WelcomeOnSignUp(s)
  PROVE  WalletInv'
  <1>1. PICK u : u = walletReq[s].user
    OBVIOUS
  <1>2. /\ walletPc[s] = "bonus" /\ Post(u, "gift", SignUpBonus)
        /\ hasWallet' = [hasWallet EXCEPT ![u] = TRUE]
        /\ welcomes' = [welcomes EXCEPT ![u] = @ + 1]
        /\ WalletDone(s) /\ UNCHANGED <<hasUser, purchase, unearned, lost>>
    BY <1>1 DEF WelcomeOnSignUp, Increase
  <1>3. /\ u \in Users /\ walletReq[s].order = NoOrder
        /\ NoWalletRequest \in WalletRequests /\ "idle" \in WalletSteps
    BY <1>1, <1>2, Served
  <1>4. hasUser[u] /\ (unearned[u] \/ ~hasWallet[u])
    BY <1>1, <1>2 DEF WalletInv, Asks
  <1>5. /\ WalletMoved(s, "idle", NoWalletRequest)
        /\ walletPc' \in [WalletSlots -> WalletSteps]
        /\ walletReq' \in [WalletSlots -> WalletRequests]
    BY <1>2, <1>3, WalletMoves DEF WalletInv
  <1>6. \A o \in WalletSlots \ {s} : ~(walletPc[o] = "bonus" /\ walletReq[o].user = u)
    BY <1>1, <1>2 DEF WalletInv, Alone
  <1>7. welcomes \in [Users -> Nat] /\ unearned \in [Users -> BOOLEAN]
    BY WalletTyping DEF WalletInv
  <1>8. /\ welcomes' \in [Users -> Nat] /\ welcomes'[u] = welcomes[u] + 1
        /\ \A v \in Users \ {u} : welcomes'[v] = welcomes[v]
    BY <1>2, <1>3, <1>7
  <1>9. unearned'[u] \/ welcomes'[u] = 1
    <2>1. unearned[u] \/ welcomes[u] = 0
      BY <1>3, <1>4 DEF WalletInv, Welcomed
    <2>2. QED BY <1>2, <1>8, <2>1
  <1>10. SignUpBonus \in Int
    BY WalletAssumption
  <1>11. unearned' \in [Users -> BOOLEAN] /\ \A v \in Users : unearned[v] => unearned'[v]
    BY <1>2, <1>7
  <1>12. \A o \in WalletSlots :
           \/ /\ walletPc'[o] = walletPc[o] /\ walletReq'[o] = walletReq[o]
              /\ walletPc[o] = "bonus" /\ walletReq[o].user = u => unearned'[u] \/ hasWallet[u]
           \/ /\ walletPc'[o] = "idle" /\ walletReq'[o] = NoWalletRequest
              /\ walletReq[o].order = NoOrder
    BY <1>3, <1>5, <1>6 DEF WalletMoved
  <1>13. UNCHANGED <<hasUser, purchase, lost>> /\ \E amount \in Int : Post(u, "gift", amount)
    BY <1>2, <1>10
  <1>14. QED BY <1>2, <1>3, <1>4, <1>5, <1>8, <1>9, <1>11, <1>12, <1>13, GiftKeeps

LEMMA WelcomeOnFirstReadKeeps ==
  ASSUME WalletInv, NEW s \in WalletSlots, WelcomeOnFirstRead(s)
  PROVE  WalletInv'
  <1>1. PICK u : u = walletReq[s].user
    OBVIOUS
  <1>2. /\ walletPc[s] = "open"
        /\ IF hasWallet[u] THEN UNCHANGED <<ledgerVars, hasWallet, welcomes, unearned>>
           ELSE /\ Increase(u, FirstReadBonus, "gift")
                /\ welcomes' = [welcomes EXCEPT ![u] = @ + 1]
                /\ unearned' = [unearned EXCEPT ![u] = @ \/ SigningUp(u)]
        /\ WalletDone(s) /\ UNCHANGED <<hasUser, purchase, lost>>
    BY <1>1 DEF WelcomeOnFirstRead
  <1>3. /\ u \in Users /\ walletReq[s].order = NoOrder
        /\ NoWalletRequest \in WalletRequests /\ "idle" \in WalletSteps
        /\ NoWalletRequest.order = NoOrder /\ hasUser \in [Users -> BOOLEAN]
    BY <1>1, <1>2, Served
  <1>4. hasUser[u]
    BY <1>1, <1>2 DEF WalletInv, Asks
  <1>5. /\ WalletMoved(s, "idle", NoWalletRequest)
        /\ walletPc' \in [WalletSlots -> WalletSteps]
        /\ walletReq' \in [WalletSlots -> WalletRequests]
    BY <1>2, <1>3, WalletMoves DEF WalletInv
  <1>6. CASE hasWallet[u]
    <2>1. /\ UNCHANGED <<ledgerVars, hasWallet, purchase, walletHistory>>
          /\ UNCHANGED hasUser /\ WalletDone(s)
      BY <1>2, <1>6 DEF walletHistory
    <2>2. QED BY <1>3, <2>1, SlotMoves
  <1>7. CASE ~hasWallet[u]
    <2>1. /\ Post(u, "gift", FirstReadBonus)
          /\ hasWallet' = [hasWallet EXCEPT ![u] = TRUE]
          /\ welcomes' = [welcomes EXCEPT ![u] = @ + 1]
          /\ unearned' = [unearned EXCEPT ![u] = @ \/ SigningUp(u)]
      BY <1>2, <1>7 DEF Increase
    <2>2. welcomes \in [Users -> Nat] /\ unearned \in [Users -> BOOLEAN]
      BY WalletTyping DEF WalletInv
    <2>3. /\ welcomes' \in [Users -> Nat] /\ welcomes'[u] = welcomes[u] + 1
          /\ \A v \in Users \ {u} : welcomes'[v] = welcomes[v]
      BY <1>3, <2>1, <2>2
    <2>4. SigningUp(u) \in BOOLEAN
      BY DEF SigningUp
    <2>5. /\ unearned' \in [Users -> BOOLEAN] /\ \A v \in Users : unearned[v] => unearned'[v]
          /\ SigningUp(u) => unearned'[u]
      BY <1>3, <2>1, <2>2, <2>4
    <2>6. unearned'[u] \/ welcomes'[u] = 1
      <3>1. unearned[u] \/ welcomes[u] = 0
        BY <1>3, <1>7 DEF WalletInv, Welcomed
      <3>2. QED BY <1>3, <2>3, <2>5, <3>1
    <2>7. \A o \in WalletSlots : walletPc[o] = "bonus" /\ walletReq[o].user = u => unearned'[u]
      BY <2>5 DEF SigningUp
    <2>8. \A o \in WalletSlots :
           \/ /\ walletPc'[o] = walletPc[o] /\ walletReq'[o] = walletReq[o]
              /\ walletPc[o] = "bonus" /\ walletReq[o].user = u => unearned'[u] \/ hasWallet[u]
           \/ /\ walletPc'[o] = "idle" /\ walletReq'[o] = NoWalletRequest
              /\ walletReq[o].order = NoOrder
      BY <1>3, <1>5, <2>7 DEF WalletMoved
    <2>9. \E amount \in Int : Post(u, "gift", amount)
      BY <2>1, WalletAssumption
    <2>10. UNCHANGED <<hasUser, purchase, lost>>
      BY <1>2
    <2>11. QED BY <1>3, <1>4, <1>5, <2>1, <2>3, <2>5, <2>6, <2>8, <2>9, <2>10, GiftKeeps
  <1>8. QED BY <1>6, <1>7

LEMMA TouchWalletKeeps ==
  ASSUME WalletInv, NEW u \in Users, TouchWallet(u)
  PROVE  WalletInv'
  <1>1. /\ hasUser[u] /\ hasWallet' = [hasWallet EXCEPT ![u] = TRUE]
        /\ unearned' = [unearned EXCEPT ![u] = TRUE]
        /\ UNCHANGED <<ledgerVars, hasUser, walletPc, walletReq, purchase, welcomes, lost>>
    BY DEF TouchWallet, walletSlotVars
  <1>2. /\ welcomes \in [Users -> Nat] /\ unearned \in [Users -> BOOLEAN]
        /\ walletPc \in [WalletSlots -> WalletSteps]
        /\ walletReq \in [WalletSlots -> WalletRequests]
    BY WalletTyping DEF WalletInv
  <1>3. /\ unearned' \in [Users -> BOOLEAN] /\ \A v \in Users : unearned[v] => unearned'[v]
        /\ unearned'[u]
    BY <1>1, <1>2
  <1>4. UNCHANGED <<hasUser, purchase, lost>> /\ UNCHANGED <<walletPc, walletReq, welcomes>>
    BY <1>1
  <1>5. QED BY <1>1, <1>2, <1>3, <1>4, GiftKeeps

LEMMA GrantCreditsKeeps ==
  ASSUME WalletInv, NEW u \in Users, GrantCredits(u)
  PROVE  WalletInv'
  <1>1. PICK amount \in GrantAmounts : Increase(u, amount, "gift")
    BY DEF GrantCredits
  <1>2. /\ hasUser[u] /\ hasWallet' = [hasWallet EXCEPT ![u] = TRUE]
        /\ unearned' = [unearned EXCEPT ![u] = @ \/ ~hasWallet[u]]
        /\ UNCHANGED <<hasUser, walletPc, walletReq, purchase, welcomes, lost>>
    BY <1>1 DEF GrantCredits, walletSlotVars, Increase
  <1>3. /\ welcomes \in [Users -> Nat] /\ unearned \in [Users -> BOOLEAN]
        /\ hasWallet \in [Users -> BOOLEAN]
        /\ walletPc \in [WalletSlots -> WalletSteps]
        /\ walletReq \in [WalletSlots -> WalletRequests]
    BY WalletTyping DEF WalletInv
  <1>4. /\ unearned' \in [Users -> BOOLEAN] /\ \A v \in Users : unearned[v] => unearned'[v]
        /\ unearned'[u] \/ hasWallet[u]
        /\ ~unearned'[u] => ~unearned[u]
    BY <1>2, <1>3
  <1>5. unearned'[u] \/ welcomes'[u] = 1
    BY <1>2, <1>4 DEF WalletInv, Welcomed
  <1>6. \E n \in Int : Post(u, "gift", n)
    <2>1. amount \in Int
      BY WalletAssumption
    <2>2. QED BY <1>1, <2>1 DEF Increase
  <1>7. UNCHANGED <<hasUser, purchase, lost>> /\ UNCHANGED <<walletPc, walletReq, welcomes>>
    BY <1>2
  <1>8. QED BY <1>2, <1>3, <1>4, <1>5, <1>6, <1>7, GiftKeeps


\* One more order, and a request that is to add its credits.
LEMMA CreatePaidOrderKeeps ==
  ASSUME WalletInv, NEW s \in WalletSlots, NEW u \in Users, CreatePaidOrder(s, u)
  PROVE  WalletInv'
  <1>1. PICK o \in PurchaseOrders, credits \in Packages :
          /\ purchase[o] = NotPurchased
          /\ purchase' = [purchase EXCEPT ![o] = [user |-> u, credits |-> credits]]
          /\ WalletStart(s, "credit", [user |-> u, order |-> o])
    BY DEF CreatePaidOrder
  <1>2. hasUser[u] /\ UNCHANGED <<ledgerVars, hasUser, hasWallet, welcomes, unearned, lost>>
    BY DEF CreatePaidOrder, walletHistory
  <1>3. /\ hasUser \in [Users -> BOOLEAN] /\ hasWallet \in [Users -> BOOLEAN]
        /\ purchase \in [PurchaseOrders -> Purchases] /\ lost \subseteq PurchaseOrders
        /\ welcomes \in [Users -> Nat] /\ unearned \in [Users -> BOOLEAN]
        /\ NoUser \notin Users /\ NoOrder \notin PurchaseOrders
    BY WalletTyping DEF WalletInv
  <1> DEFINE r == [user |-> u, order |-> o]
             bought == [user |-> u, credits |-> credits]
  <1>4. r \in WalletRequests /\ r.user = u /\ r.order = o /\ "credit" \in WalletSteps
    BY DEF WalletRequests, WalletSteps
  <1>5. bought \in Purchases /\ bought.user = u /\ bought # NotPurchased
    BY <1>3 DEF Purchases, NotPurchased
  <1>6. purchase' = [purchase EXCEPT ![o] = bought] /\ WalletStart(s, "credit", r)
    BY <1>1
  <1> HIDE DEF r, bought
  <1>7. /\ purchase' \in [PurchaseOrders -> Purchases] /\ purchase'[o] = bought
        /\ \A x \in PurchaseOrders \ {o} : purchase'[x] = purchase[x]
    BY <1>3, <1>5, <1>6
  <1>8. /\ WalletMoved(s, "credit", r)
        /\ walletPc' \in [WalletSlots -> WalletSteps]
        /\ walletReq' \in [WalletSlots -> WalletRequests]
    BY <1>4, <1>6, WalletMoves DEF WalletInv
  <1>9. walletPc[s] = "idle" /\ walletReq[s].order = NoOrder
    BY <1>6 DEF WalletInv, Asks, WalletStart
  <1>10. /\ balance' \in [Users -> Int] /\ ledger' \in [Users -> [Kinds -> Int]]
         /\ BalanceMatchesLedger' /\ \A v \in Users : ledger'[v] = ledger[v]
    BY <1>2, LedgerStays
  <1>11. WalletTypeOK'
    BY <1>2, <1>3, <1>7, <1>8, <1>10, WalletTyped
  <1>12. o \notin Purchased /\ o \notin lost
    BY <1>1 DEF WalletInv, OrdersTrue, Purchased
  <1>13. ASSUME NEW q \in WalletSlots PROVE Asks(q)'
    <2>1. CASE q = s
      BY <1>2, <1>4, <1>5, <1>7, <1>8, <2>1 DEF Asks, WalletMoved
    <2>2. CASE q # s
      <3>1. \A x \in Purchased : purchase'[x] = purchase[x]
        BY <1>7, <1>12 DEF Purchased
      <3>2. walletPc'[q] = walletPc[q] /\ walletReq'[q] = walletReq[q]
        BY <1>8, <2>2 DEF WalletMoved
      <3>3. QED BY <1>2, <3>1, <3>2, StillAsks
    <2>3. QED BY <2>1, <2>2
  <1>14. ASSUME NEW q \in WalletSlots, walletReq[q].order = o PROVE FALSE
    <2>1. walletPc[q] = "credit" /\ purchase[o].user = walletReq[q].user
          /\ walletReq[q].user \in Users
      BY <1>3, <1>14 DEF WalletInv, Asks
    <2>2. QED BY <1>1, <1>3, <2>1 DEF NotPurchased
  <1>15. ASSUME NEW p \in WalletSlots, NEW q \in WalletSlots PROVE Alone(p, q)'
    <2>1. Alone(p, q) /\ Alone(q, p)
      BY DEF WalletInv
    <2>2. QED BY <1>3, <1>4, <1>8, <1>14, <2>1 DEF Alone, WalletMoved
  <1>16. \A v \in Users : Welcomed(v)'
    BY <1>2 DEF WalletInv, Welcomed
  <1>17. Purchased' = Purchased \cup {o}
    BY <1>5, <1>7 DEF Purchased
  <1>18. OrdersTrue'
    <2>1. IsFiniteSet(Purchased \cup {o})
      BY FS_AddElement DEF WalletInv, OrdersTrue
    <2>2. ASSUME NEW q \in WalletSlots PROVE walletReq'[q].order \notin lost
      BY <1>4, <1>8, <1>12 DEF WalletMoved, WalletInv, OrdersTrue
    <2>3. lost' \subseteq Purchased'
      BY <1>2, <1>17 DEF WalletInv, OrdersTrue
    <2>4. QED BY <1>2, <1>17, <2>1, <2>2, <2>3 DEF OrdersTrue
  <1>19. ASSUME NEW v \in Users PROVE CreditsTrue(v)'
    <2>1. Credited(v)' = Credited(v) /\ o \notin Credited(v)
      <3>1. o \notin Credited(v)'
        BY <1>4, <1>8 DEF Credited, WalletMoved
      <3>2. o \notin Credited(v)
        BY <1>1, <1>3 DEF Credited, NotPurchased
      <3>3. ASSUME NEW x \in PurchaseOrders \ {o} PROVE x \in Credited(v)' <=> x \in Credited(v)
        <4>1. purchase'[x] = purchase[x] /\ (x \in lost' <=> x \in lost)
          BY <1>2, <1>7
        <4>2. (\A q \in WalletSlots : walletReq'[q].order # x)
                <=> \A q \in WalletSlots : walletReq[q].order # x
          BY <1>3, <1>4, <1>8, <1>9 DEF WalletMoved
        <4>3. QED BY <4>1, <4>2 DEF Credited
      <3>4. Credited(v) \subseteq PurchaseOrders /\ Credited(v)' \subseteq PurchaseOrders
        BY DEF Credited
      <3>5. QED BY <3>1, <3>2, <3>3, <3>4
    <2>2. Credited(v) \subseteq Purchased
      BY <1>3 DEF Credited, Purchased, NotPurchased
    <2>3. IsFiniteSet(Credited(v))
      BY <2>2, FS_Subset DEF WalletInv, OrdersTrue
    <2>4. \A x \in Credited(v) : purchase[x].credits = purchase'[x].credits
      BY <1>7, <2>1 DEF Credited
    <2>5. CreditsOf(purchase, Credited(v)) = CreditsOf(purchase', Credited(v))
      BY <2>3, <2>4, CreditsSame
    <2>6. CreditsTrue(v)
      BY DEF WalletInv
    <2>7. QED BY <1>10, <2>1, <2>5, <2>6 DEF CreditsTrue
  <1>20. QED BY <1>10, <1>11, <1>13, <1>15, <1>16, <1>18, <1>19 DEF WalletInv

\* The orders whose credits a user has are of those purchased: finitely many.
LEMMA CreditedFinite ==
  ASSUME WalletInv, NEW v \in Users
  PROVE  Credited(v) \subseteq Purchased /\ IsFiniteSet(Credited(v))
  <1>1. Credited(v) \subseteq Purchased
    BY WalletTyping DEF WalletInv, Credited, Purchased, NotPurchased
  <1>2. QED BY <1>1, FS_Subset DEF WalletInv, OrdersTrue

LEMMA CreditPurchaseKeeps ==
  ASSUME WalletInv, NEW s \in WalletSlots, CreditPurchase(s)
  PROVE  WalletInv'
  <1>1. PICK u, o : u = walletReq[s].user /\ o = walletReq[s].order
    OBVIOUS
  <1>2. /\ walletPc[s] = "credit" /\ Post(u, "purchase", purchase[o].credits)
        /\ hasWallet' = [hasWallet EXCEPT ![u] = TRUE]
        /\ unearned' = [unearned EXCEPT ![u] = @ \/ ~hasWallet[u]]
        /\ WalletDone(s) /\ UNCHANGED <<hasUser, purchase, welcomes, lost>>
    BY <1>1 DEF CreditPurchase, Increase
  <1>3. /\ u \in Users /\ o \in PurchaseOrders /\ hasUser[u] /\ purchase[o].user = u
    BY <1>1, <1>2 DEF WalletInv, Asks
  <1>4. /\ welcomes \in [Users -> Nat] /\ unearned \in [Users -> BOOLEAN]
        /\ hasWallet \in [Users -> BOOLEAN] /\ purchase \in [PurchaseOrders -> Purchases]
        /\ NoOrder \notin PurchaseOrders /\ NoUser \notin Users
        /\ NoWalletRequest \in WalletRequests /\ NoWalletRequest.order = NoOrder
        /\ "idle" \in WalletSteps /\ "purchase" \in Kinds
    BY WalletTyping DEF WalletInv, NoWalletRequest, WalletSteps, Kinds
  <1>5. \A x \in PurchaseOrders : purchase[x].credits \in Int
    <2>1. Packages \cup {0} \subseteq Int
      BY WalletAssumption
    <2>2. \A p \in Purchases : p.credits \in Packages \cup {0}
      BY DEF Purchases
    <2>3. QED BY <1>4, <2>1, <2>2
  <1>6. /\ WalletMoved(s, "idle", NoWalletRequest)
        /\ walletPc' \in [WalletSlots -> WalletSteps]
        /\ walletReq' \in [WalletSlots -> WalletRequests]
    BY <1>2, <1>4, WalletMoves DEF WalletInv
  <1>7. /\ unearned' \in [Users -> BOOLEAN] /\ \A v \in Users : unearned[v] => unearned'[v]
        /\ unearned'[u] \/ hasWallet[u]
        /\ ~unearned'[u] => ~unearned[u]
    BY <1>2, <1>3, <1>4
  <1>8. unearned'[u] \/ welcomes'[u] = 1
    BY <1>2, <1>3, <1>7 DEF WalletInv, Welcomed
  <1>9. /\ WalletTypeOK'
        /\ \A q \in WalletSlots : Asks(q)'
        /\ \A p, q \in WalletSlots : Alone(p, q)'
        /\ \A v \in Users : Welcomed(v)'
        /\ BalanceMatchesLedger'
    <2>1. \E kind \in Kinds, amount \in Int : Post(u, kind, amount)
      BY <1>2, <1>3, <1>4, <1>5
    <2>2. \A q \in WalletSlots :
           \/ /\ walletPc'[q] = walletPc[q] /\ walletReq'[q] = walletReq[q]
              /\ walletPc[q] = "bonus" /\ walletReq[q].user = u => unearned'[u] \/ hasWallet[u]
           \/ walletPc'[q] = "idle" /\ walletReq'[q] = NoWalletRequest
      BY <1>6, <1>7 DEF WalletMoved
    <2>3. /\ UNCHANGED <<hasUser, purchase, lost>>
          /\ welcomes' \in [Users -> Nat] /\ \A v \in Users \ {u} : welcomes'[v] = welcomes[v]
          /\ hasWallet' = [hasWallet EXCEPT ![u] = TRUE]
      BY <1>2, <1>4
    <2>4. QED BY <1>3, <1>6, <1>7, <1>8, <2>1, <2>2, <2>3, WalletOpens
  <1>10. /\ ledger'[u]["purchase"] = ledger[u]["purchase"] + purchase[o].credits
         /\ \A v \in Users \ {u} : ledger'[v] = ledger[v]
    BY <1>2, <1>3, <1>4, <1>5, PostAdds DEF WalletInv
  <1>11. \A q \in WalletSlots \ {s} : walletReq[q].order # o
    BY <1>1, <1>3, <1>4 DEF WalletInv, Alone
  <1>12. \A q \in WalletSlots : walletReq'[q].order # o
    BY <1>3, <1>4, <1>6, <1>11 DEF WalletMoved
  <1>13. OrdersTrue'
    <2>1. Purchased' = Purchased
      BY <1>2 DEF Purchased
    <2>2. NoOrder \notin lost
      BY <1>4 DEF WalletInv, OrdersTrue, Purchased
    <2>3. QED BY <1>2, <1>4, <1>6, <2>1, <2>2 DEF WalletInv, OrdersTrue, WalletMoved
  <1>14. ASSUME NEW v \in Users PROVE CreditsTrue(v)'
    <2>1. CreditsTrue(v) /\ IsFiniteSet(Credited(v))
      BY CreditedFinite DEF WalletInv
    <2>2. ASSUME NEW x \in PurchaseOrders \ {o} PROVE x \in Credited(v)' <=> x \in Credited(v)
      <3>1. (\A q \in WalletSlots : walletReq'[q].order # x)
              <=> \A q \in WalletSlots : walletReq[q].order # x
        BY <1>1, <1>4, <1>6 DEF WalletMoved
      <3>2. QED BY <1>2, <3>1 DEF Credited
    <2>3. Credited(v) \subseteq PurchaseOrders /\ Credited(v)' \subseteq PurchaseOrders
          /\ o \notin Credited(v)
      BY <1>1 DEF Credited
    <2>4. CASE v = u
      <3>1. o \in Credited(v)'
        <4>1. o \notin lost
          BY <1>1 DEF WalletInv, OrdersTrue
        <4>2. QED BY <1>2, <1>3, <1>12, <2>4, <4>1 DEF Credited
      <3>2. Credited(v)' = Credited(v) \cup {o}
        BY <1>3, <2>2, <2>3, <3>1
      <3>3. /\ \A x \in Credited(v) : purchase[x].credits = purchase[x].credits
            /\ \A x \in Credited(v) \cup {o} : purchase[x].credits \in Int
        BY <1>3, <1>5, <2>3
      <3>4. CreditsOf(purchase, Credited(v) \cup {o})
              = CreditsOf(purchase, Credited(v)) + purchase[o].credits
        BY <2>1, <2>3, <3>3, CreditsAdd
      <3>5. QED BY <1>2, <1>10, <2>1, <2>4, <3>2, <3>4 DEF CreditsTrue
    <2>5. CASE v # u
      <3>1. o \notin Credited(v)'
        BY <1>2, <1>3, <2>5 DEF Credited
      <3>2. Credited(v)' = Credited(v)
        BY <2>2, <2>3, <3>1
      <3>3. QED BY <1>2, <1>10, <2>1, <2>5, <3>2 DEF CreditsTrue
    <2>6. QED BY <2>4, <2>5
  <1>15. QED BY <1>9, <1>13, <1>14 DEF WalletInv

LEMMA WalletAbortKeeps ==
  ASSUME WalletInv, NEW s \in WalletSlots, WalletAbort(s)
  PROVE  WalletInv'
  <1>1. /\ walletPc[s] # "idle" /\ WalletDone(s)
        /\ UNCHANGED <<ledgerVars, hasUser, hasWallet, purchase, welcomes, unearned>>
        /\ walletPc[s] # "credit" => lost' = lost
        /\ walletPc[s] = "credit" => lost' = lost \cup {walletReq[s].order}
    BY DEF WalletAbort
  <1>2. /\ NoWalletRequest \in WalletRequests /\ NoWalletRequest.order = NoOrder
        /\ hasUser \in [Users -> BOOLEAN] /\ "idle" \in WalletSteps
        /\ walletPc[s] # "credit" => walletReq[s].order = NoOrder
    BY <1>1, Served
  <1>3. CASE walletPc[s] # "credit"
    <2>1. UNCHANGED <<ledgerVars, hasWallet, purchase, walletHistory>> /\ UNCHANGED hasUser
      BY <1>1, <1>3 DEF walletHistory
    <2>2. QED BY <1>1, <1>2, <1>3, <2>1, SlotMoves
  <1>4. CASE walletPc[s] = "credit"
    <2>1. PICK o : o = walletReq[s].order
      OBVIOUS
    <2>2. o \in PurchaseOrders /\ purchase[o].user \in Users /\ lost' = lost \cup {o}
      BY <1>1, <1>4, <2>1 DEF WalletInv, Asks
    <2>3. /\ hasWallet \in [Users -> BOOLEAN] /\ purchase \in [PurchaseOrders -> Purchases]
          /\ lost \subseteq PurchaseOrders /\ welcomes \in [Users -> Nat]
          /\ unearned \in [Users -> BOOLEAN]
          /\ NoOrder \notin PurchaseOrders /\ NoUser \notin Users
      BY WalletTyping DEF WalletInv
    <2>4. /\ WalletMoved(s, "idle", NoWalletRequest)
          /\ walletPc' \in [WalletSlots -> WalletSteps]
          /\ walletReq' \in [WalletSlots -> WalletRequests]
      BY <1>1, <1>2, WalletMoves DEF WalletInv
    <2>5. /\ balance' \in [Users -> Int] /\ ledger' \in [Users -> [Kinds -> Int]]
          /\ BalanceMatchesLedger' /\ \A v \in Users : ledger'[v] = ledger[v]
      BY <1>1, LedgerStays
    <2>6. WalletTypeOK'
      <3>1. lost' \subseteq PurchaseOrders
        BY <2>2, <2>3
      <3>2. QED BY <1>1, <1>2, <2>3, <2>4, <2>5, <3>1, WalletTyped
    <2>7. ASSUME NEW q \in WalletSlots PROVE Asks(q)'
      <3>1. CASE q = s
        BY <1>2, <2>4, <3>1 DEF Asks, WalletMoved
      <3>2. CASE q # s
        <4>1. walletPc'[q] = walletPc[q] /\ walletReq'[q] = walletReq[q]
          BY <2>4, <3>2 DEF WalletMoved
        <4>2. QED BY <1>1, <4>1, StillAsks
      <3>3. QED BY <3>1, <3>2
    <2>8. ASSUME NEW p \in WalletSlots, NEW q \in WalletSlots PROVE Alone(p, q)'
      <3>1. Alone(p, q)
        BY DEF WalletInv
      <3>2. QED BY <1>2, <2>4, <3>1 DEF Alone, WalletMoved
    <2>9. \A v \in Users : Welcomed(v)'
      BY <1>1 DEF WalletInv, Welcomed
    <2>10. \A q \in WalletSlots \ {s} : walletReq[q].order # o
      BY <2>1, <2>2, <2>3 DEF WalletInv, Alone
    <2>11. OrdersTrue'
      <3>1. Purchased' = Purchased
        BY <1>1 DEF Purchased
      <3>2. o \in Purchased /\ NoOrder \notin lost /\ NoOrder # o
        BY <2>2, <2>3 DEF Purchased, NotPurchased
      <3>3. QED BY <1>2, <2>2, <2>4, <2>10, <3>1, <3>2 DEF WalletInv, OrdersTrue, WalletMoved
    <2>12. ASSUME NEW v \in Users PROVE CreditsTrue(v)'
      <3>1. CreditsTrue(v)
        BY DEF WalletInv
      <3>2. ASSUME NEW x \in PurchaseOrders \ {o} PROVE x \in Credited(v)' <=> x \in Credited(v)
        <4>1. (\A q \in WalletSlots : walletReq'[q].order # x)
                <=> \A q \in WalletSlots : walletReq[q].order # x
          BY <1>2, <2>1, <2>3, <2>4 DEF WalletMoved
        <4>2. QED BY <1>1, <2>2, <4>1 DEF Credited
      <3>3. /\ Credited(v) \subseteq PurchaseOrders /\ Credited(v)' \subseteq PurchaseOrders
            /\ o \notin Credited(v) /\ o \notin Credited(v)'
        BY <2>1, <2>2 DEF Credited
      <3>4. Credited(v)' = Credited(v)
        BY <3>2, <3>3
      <3>5. QED BY <1>1, <2>5, <3>1, <3>4 DEF CreditsTrue
    <2>13. QED BY <2>5, <2>6, <2>7, <2>8, <2>9, <2>11, <2>12 DEF WalletInv
  <1>5. QED BY <1>3, <1>4


LEMMA WalletStarts ==
  ASSUME WalletInit
  PROVE  WalletInv
  <1>1. /\ balance = [u \in Users |-> 0]
        /\ ledger = [u \in Users |-> [k \in Kinds |-> IF k = "gift" THEN balance[u] ELSE 0]]
        /\ hasUser = [u \in Users |-> FALSE] /\ hasWallet = [u \in Users |-> FALSE]
        /\ walletPc = [s \in WalletSlots |-> "idle"]
        /\ walletReq = [s \in WalletSlots |-> NoWalletRequest]
        /\ purchase = [o \in PurchaseOrders |-> NotPurchased]
        /\ welcomes = [u \in Users |-> 0] /\ unearned = [u \in Users |-> FALSE] /\ lost = {}
    BY DEF WalletInit, OpenedWith
  <1>2. /\ NoWalletRequest \in WalletRequests /\ NotPurchased \in Purchases
        /\ NoWalletRequest.order = NoOrder /\ NotPurchased.user = NoUser
        /\ NoUser \notin Users
    BY WalletAssumption DEF WalletRequests, Purchases, NoWalletRequest, NotPurchased
  <1>3. \A u \in Users, k \in Kinds : ledger[u][k] = 0
    BY <1>1
  <1>4. WalletTypeOK
    <2>1. balance \in [Users -> Int] /\ ledger \in [Users -> [Kinds -> Int]]
      BY <1>1
    <2>2. /\ walletReq \in [WalletSlots -> WalletRequests]
          /\ purchase \in [PurchaseOrders -> Purchases]
      BY <1>1, <1>2
    <2>3. /\ hasUser \in [Users -> BOOLEAN] /\ hasWallet \in [Users -> BOOLEAN]
          /\ walletPc \in [WalletSlots -> WalletSteps]
          /\ welcomes \in [Users -> Nat] /\ unearned \in [Users -> BOOLEAN]
          /\ lost \subseteq PurchaseOrders
      BY <1>1 DEF WalletSteps
    <2>4. QED BY <2>1, <2>2, <2>3
              DEF WalletTypeOK, LedgerTypeOK, WalletSteps, WalletRequests, Purchases
  <1>5. \A s \in WalletSlots : Asks(s)
    BY <1>1, <1>2 DEF Asks
  <1>6. \A s, o \in WalletSlots : Alone(s, o)
    BY <1>1, <1>2 DEF Alone
  <1>7. \A u \in Users : Welcomed(u)
    BY <1>1 DEF Welcomed
  <1>8. ASSUME NEW u \in Users PROVE balance[u] = LedgerTotal(u)
    <2>1. /\ balance[u] = 0 /\ ledger[u]["gift"] = 0 /\ ledger[u]["purchase"] = 0
          /\ ledger[u]["spend"] = 0 /\ ledger[u]["refund"] = 0
      BY <1>1, <1>3 DEF Kinds
    <2>2. QED BY <2>1 DEF LedgerTotal
  <1>9. OrdersTrue
    <2>1. Purchased = {}
      BY <1>1 DEF Purchased
    <2>2. QED BY <1>1, <2>1, FS_EmptySet DEF OrdersTrue
  <1>10. ASSUME NEW u \in Users PROVE CreditsTrue(u)
    <2>1. Credited(u) = {}
      BY <1>1, <1>2 DEF Credited
    <2>2. ledger[u]["purchase"] = 0
      BY <1>3 DEF Kinds
    <2>3. QED BY <2>1, <2>2, NoCredits DEF CreditsTrue
  <1>11. QED BY <1>4, <1>5, <1>6, <1>7, <1>8, <1>9, <1>10 DEF WalletInv, BalanceMatchesLedger

LEMMA WalletStepKeeps ==
  ASSUME WalletInv, [WalletNext]_walletVars
  PROVE  WalletInv'
  <1>1. CASE UNCHANGED walletVars
    <2>1. UNCHANGED <<balance, ledger, hasUser, hasWallet, walletPc, walletReq, purchase,
                      welcomes, unearned, lost>>
      BY <1>1 DEF walletVars, ledgerVars, walletSlotVars, walletHistory
    <2>2. WalletTypeOK' /\ BalanceMatchesLedger'
      BY <2>1 DEF WalletInv, WalletTypeOK, LedgerTypeOK, BalanceMatchesLedger, LedgerTotal
    <2>3. \A s \in WalletSlots : Asks(s)'
      BY <2>1, StillAsks
    <2>4. \A s, o \in WalletSlots : Alone(s, o)'
      BY <2>1 DEF WalletInv, Alone
    <2>5. \A u \in Users : Welcomed(u)'
      BY <2>1 DEF WalletInv, Welcomed
    <2>6. OrdersTrue' /\ \A u \in Users : CreditsTrue(u)'
      BY <2>1, OrdersStay
    <2>7. QED BY <2>2, <2>3, <2>4, <2>5, <2>6 DEF WalletInv
  <1>2. ASSUME NEW s \in WalletSlots, NEW u \in Users,
               Register(s, u) \/ ReadNoWallet(s, u) \/ CreatePaidOrder(s, u)
        PROVE  WalletInv'
    BY <1>2, RegisterKeeps, ReadNoWalletKeeps, CreatePaidOrderKeeps
  <1>3. ASSUME NEW s \in WalletSlots, SignUpStep(s)
        PROVE  WalletInv'
    BY <1>3, BeginKeeps, CreateUserKeeps, WelcomeOnSignUpKeeps, TimeOutKeeps, OrphanUserKeeps
       DEF SignUpStep
  <1>4. ASSUME NEW s \in WalletSlots,
               WelcomeOnFirstRead(s) \/ CreditPurchase(s) \/ WalletAbort(s)
        PROVE  WalletInv'
    BY <1>4, WelcomeOnFirstReadKeeps, CreditPurchaseKeeps, WalletAbortKeeps
  <1>5. ASSUME NEW u \in Users, TouchWallet(u) \/ GrantCredits(u)
        PROVE  WalletInv'
    BY <1>5, TouchWalletKeeps, GrantCreditsKeeps
  <1>6. QED BY <1>1, <1>2, <1>3, <1>4, <1>5 DEF WalletNext

LEMMA WalletInvariant == WalletSpec => []WalletInv
  <1>1. QED BY WalletStarts, WalletStepKeeps, PTL DEF WalletSpec

\* The state of the wallets has its type, whatever the number of users and requests:
\* in particular no step counts a welcome or posts a row for a user that is not there.
THEOREM WalletIsTyped == WalletSpec => []WalletTypeOK
  <1>1. WalletInv => WalletTypeOK
    BY DEF WalletInv
  <1>2. QED BY <1>1, WalletInvariant, PTL

\* No welcome and no purchase is missing or counted twice, whatever sign-ups, reads,
\* purchases, timeouts and errors overlap: AuthService.register, getWallet and
\* purchaseCredits.
THEOREM CreditsAreEarnedOnce == WalletSpec => []CreditsEarned
  <1>1. ASSUME WalletInv PROVE CreditsEarned
    <2>1. WelcomedOnce
      BY <1>1 DEF WalletInv, Welcomed, WelcomedOnce
    <2>2. ASSUME NEW u \in Users
          PROVE  ledger[u]["purchase"]
                   = MapThenSumSet(LAMBDA o : purchase[o].credits, Credited(u))
      <3>1. CreditsTrue(u)
        BY <1>1 DEF WalletInv
      <3>2. QED BY <3>1 DEF CreditsTrue, CreditsOf
    <2>3. BalanceMatchesLedger
      BY <1>1 DEF WalletInv
    <2>4. QED BY <2>1, <2>2, <2>3 DEF CreditsEarned, CreditsMatchOrders
  <1>2. QED BY <1>1, WalletInvariant, PTL
-------------------------------------------------------------------------------
(* Both together, as MCShop runs them: each module takes its own steps. *)

LEMMA ShopRunsBoth == Spec => PaymentsSpec /\ WalletSpec
  <1>1. Init => PaymentsInit /\ WalletInit
    BY DEF Init
  <1>2. [Next]_allVars => [PaymentsNext]_payVars /\ [WalletNext]_walletVars
    <2>1. UNCHANGED allVars => UNCHANGED payVars /\ UNCHANGED walletVars
      BY DEF allVars
    <2>2. QED BY <2>1 DEF Next
  <1>3. QED BY <1>1, <1>2, PTL DEF Spec, PaymentsSpec, WalletSpec

\* Every variable of orders, payments and wallets has its type in every behaviour.
THEOREM ShopTypeCorrect == Spec => []ShopTypeOK
  <1>1. PaymentsTypeOK /\ WalletTypeOK => ShopTypeOK
    BY DEF ShopTypeOK
  <1>2. QED BY <1>1, ShopRunsBoth, PaymentsTypeCorrect, WalletIsTyped, PTL
===============================================================================
