---------------------------- MODULE OutsideProofs -----------------------------
(* Theorems about Shipments, Mail, Likes, Projects and Files. *)
EXTENDS MCOutside, FiniteSetTheorems, TLAPS
-------------------------------------------------------------------------------
(* What holds of Shipments for every number of labels, requests and reports. *)

Carriers == {"report", "poll", "sync"}
ShipmentSteps == {"idle", "insert", "report", "poll", "sync"}
ShipmentRequests == [label : Labels \cup {NoLabel}, report : 0 .. Polled]
Rows == [exists : BOOLEAN, status : ShipmentStatuses, external : BOOLEAN]

\* A request being served is about a label, a report has a number, and a sync has the
\* status it fetched or none.
Named(s) ==
  /\ shipmentPc[s] # "idle" => shipmentReq[s].label \in Labels
  /\ shipmentPc[s] = "report" => shipmentReq[s].report \in 1 .. MaxReports
  /\ shipmentPc[s] = "poll" => shipmentReq[s].report = 0
  /\ shipmentPc[s] = "sync" => shipmentReq[s].report \in {0, Polled}

\* What s will write about l is what the carrier of l told last, or the row shows it.
Told(s, l) ==
  /\ shipmentPc[s] = "poll" => shipment[l].status = news[l]
  /\ shipmentPc[s] = "sync" =>
       IF shipmentReq[s].report = Polled THEN news[l] = Polled ELSE shipment[l].status = news[l]
  /\ shipmentPc[s] = "report" =>
       IF shipmentReq[s].report \in SilentReports THEN shipment[l].status = news[l]
       ELSE news[l] = shipmentReq[s].report

\* While nothing was out of order one request at most is about to write.
InOrder(l) ==
  \/ l \in disordered
  \/ /\ \A s, o \in Writing(l) : s = o
     /\ (\A s \in ShipmentSlots : s \notin Writing(l)) => shipment[l].status = news[l]
     /\ \A s \in Writing(l) : Told(s, l)

\* A label's own keys are of its own events; a carrier's id is of reports it numbered.
KeyTrue(k) ==
  LET e == events[k]
  IN /\ k.label # NoLabel => e.of = k.label /\ e.about = k.label
     /\ k.label = NoLabel => /\ e.of \in numbered /\ k.at \in handled[e.of]
                             /\ e.about \in numbered /\ k.at \in handled[e.about]

\* A label is registered, or about to be, when its row is there, and once.
Registers(l) ==
  /\ l \in registering => registered[l] = 0
  /\ l \in registering \/ registered[l] > 0 => shipment[l].exists
  /\ registered[l] <= 1 /\ (shipment[l].external => registered[l] = 1)

\* The reports of l that must have their event: those answered with success and the one
\* whose status the row shows, but for what was refused or rolled back.
Owed(l) ==
  ((handled[l] \ undone[l]) \cup ({shipment[l].status} \cap (1 .. MaxReports))) \ malformed
EventsThere == \A l \in Labels : \A n \in Owed(l) : EventKey(l, n) \in DOMAIN events

ShipmentsInv ==
  /\ ShipmentsTypeOK
  /\ \A s \in ShipmentSlots : Named(s)
  /\ \A l \in Labels : InOrder(l)
  /\ EventsThere /\ \A k \in DOMAIN events : KeyTrue(k)
  /\ \A l \in Labels : Registers(l)

LEMMA ShipmentsTyping ==
  ASSUME ShipmentsTypeOK
  PROVE  /\ shipment \in [Labels -> Rows]
         /\ DOMAIN events \subseteq EventKeys /\ events \in [DOMAIN events -> EventRows]
         /\ registering \subseteq Labels /\ numbered \subseteq Labels
         /\ malformed \subseteq 1 .. MaxReports
         /\ shipmentPc \in [ShipmentSlots -> ShipmentSteps]
         /\ shipmentReq \in [ShipmentSlots -> ShipmentRequests]
         /\ sent \in [Labels -> 0 .. MaxReports] /\ polls \in [Labels -> Nat]
         /\ handled \in [Labels -> SUBSET (1 .. MaxReports)]
         /\ undone \in [Labels -> SUBSET (1 .. MaxReports)]
         /\ news \in [Labels -> ShipmentStatuses]
         /\ registered \in [Labels -> Nat] /\ disordered \subseteq Labels
         /\ NoLabel \notin Labels /\ MaxReports \in Nat
         /\ NoShipmentRequest \in ShipmentRequests
  <1>1. 0 \in 0 .. Polled
    BY ShipmentsAssumption DEF Polled
  <1>2. QED BY <1>1, ShipmentsAssumption DEF ShipmentsTypeOK, Rows, ShipmentSteps,
               ShipmentRequests, NoShipmentRequest

\* Slot s moves to step next with the request r.
ShipmentMoved(s, next, r) ==
  /\ shipmentPc'[s] = next /\ shipmentReq'[s] = r
  /\ \A o \in ShipmentSlots \ {s} :
       shipmentPc'[o] = shipmentPc[o] /\ shipmentReq'[o] = shipmentReq[o]

LEMMA ShipmentStarts ==
  ASSUME ShipmentsTypeOK, NEW s \in ShipmentSlots, NEW next \in ShipmentSteps,
         NEW l \in Labels, NEW n \in 0 .. MaxReports, ShipmentStart(s, next, l, n)
  PROVE  /\ ShipmentMoved(s, next, [label |-> l, report |-> n]) /\ shipmentPc[s] = "idle"
         /\ shipmentPc' \in [ShipmentSlots -> ShipmentSteps]
         /\ shipmentReq' \in [ShipmentSlots -> ShipmentRequests]
  <1>1. [label |-> l, report |-> n] \in ShipmentRequests
    <2>1. n \in 0 .. Polled
      BY ShipmentsAssumption DEF Polled
    <2>2. QED BY <2>1 DEF ShipmentRequests
  <1> DEFINE r == [label |-> l, report |-> n]
  <1>2. shipmentReq' = [shipmentReq EXCEPT ![s] = r]
    BY DEF ShipmentStart
  <1> HIDE DEF r
  <1>3. r \in ShipmentRequests
    BY <1>1 DEF r
  <1>4. QED BY <1>2, <1>3, ShipmentsTyping DEF ShipmentStart, ShipmentMoved, r

LEMMA ShipmentEnds ==
  ASSUME ShipmentsTypeOK, NEW s \in ShipmentSlots, ShipmentDone(s)
  PROVE  /\ ShipmentMoved(s, "idle", NoShipmentRequest)
         /\ shipmentPc' \in [ShipmentSlots -> ShipmentSteps]
         /\ shipmentReq' \in [ShipmentSlots -> ShipmentRequests]
  BY ShipmentsTyping DEF ShipmentDone, ShipmentMoved, ShipmentSteps

\* Who writes about a label after slot s has moved.
LEMMA WritingMoves ==
  ASSUME NEW s \in ShipmentSlots, NEW next, NEW r, ShipmentMoved(s, next, r), NEW l
  PROVE  /\ \A o \in ShipmentSlots \ {s} : o \in Writing(l)' <=> o \in Writing(l)
         /\ s \in Writing(l)' <=> next \in Carriers /\ r.label = l
         /\ Writing(l) \subseteq ShipmentSlots /\ Writing(l)' \subseteq ShipmentSlots
  BY DEF Writing, ShipmentMoved, Carriers

\* A label that slot s does not touch stays in order.
LEMMA OthersInOrder ==
  ASSUME ShipmentsInv, NEW s \in ShipmentSlots, NEW next, NEW r, ShipmentMoved(s, next, r),
         NEW l \in Labels, s \notin Writing(l), ~(next \in Carriers /\ r.label = l),
         shipment'[l].status = shipment[l].status, news'[l] = news[l],
         l \in disordered => l \in disordered'
  PROVE  InOrder(l)'
  <1>1. InOrder(l) /\ Writing(l)' = Writing(l)
    <2>1. \A o \in ShipmentSlots : o \in Writing(l)' <=> o \in Writing(l)
      BY WritingMoves
    <2>2. QED BY <2>1, WritingMoves DEF ShipmentsInv
  <1>2. \A o \in Writing(l) : o # s /\ o \in ShipmentSlots
    BY DEF Writing
  <1>3. ASSUME NEW o \in Writing(l), Told(o, l) PROVE Told(o, l)'
    BY <1>2, <1>3 DEF Told, ShipmentMoved
  <1>4. QED BY <1>1, <1>2, <1>3 DEF InOrder

LEMMA NamedMoves ==
  ASSUME ShipmentsInv, NEW s \in ShipmentSlots, NEW next, NEW r, ShipmentMoved(s, next, r),
         next # "idle" => r.label \in Labels,
         next = "report" => r.report \in 1 .. MaxReports,
         next = "poll" => r.report = 0, next = "sync" => r.report \in {0, Polled}
  PROVE  \A o \in ShipmentSlots : Named(o)'
  BY DEF ShipmentsInv, Named, ShipmentMoved

\* Events that are there stay true as long as nothing more is owed.
LEMMA NothingOwed ==
  ASSUME ShipmentsInv, UNCHANGED <<events, numbered>>,
         \A l \in Labels : handled[l] \subseteq handled'[l] /\ Owed(l)' \subseteq Owed(l)
  PROVE  EventsThere' /\ \A k \in DOMAIN events' : KeyTrue(k)'
  <1>1. EventsThere'
    BY DEF ShipmentsInv, EventsThere, EventKey
  <1>2. ASSUME NEW k \in DOMAIN events' PROVE KeyTrue(k)'
    <2>1. KeyTrue(k) /\ events'[k] = events[k] /\ events[k] \in EventRows
      BY ShipmentsTyping DEF ShipmentsInv
    <2>2. events[k].of \in Labels /\ events[k].about \in Labels
      BY <2>1 DEF EventRows
    <2>3. QED BY <2>1, <2>2 DEF KeyTrue
  <1>3. QED BY <1>1, <1>2

LEMMA EventsStay ==
  ASSUME ShipmentsInv, UNCHANGED <<events, numbered, malformed, handled, undone>>,
         \A l \in Labels : shipment'[l].status = shipment[l].status
  PROVE  EventsThere' /\ \A k \in DOMAIN events' : KeyTrue(k)'
  <1>1. \A l \in Labels : Owed(l)' = Owed(l)
    BY DEF Owed
  <1>2. QED BY <1>1, NothingOwed

LEMMA RegistersStay ==
  ASSUME ShipmentsInv, UNCHANGED <<registering, registered>>,
         \A l \in Labels : /\ shipment'[l].exists = shipment[l].exists
                           /\ shipment'[l].external = shipment[l].external
  PROVE  \A l \in Labels : Registers(l)'
  BY DEF ShipmentsInv, Registers

LEMMA FindDuplicateKeeps ==
  ASSUME ShipmentsInv, NEW s \in ShipmentSlots, NEW l \in Labels, FindDuplicate(s, l)
  PROVE  ShipmentsInv'
  <1> DEFINE r == [label |-> l, report |-> 0]
  <1>1. /\ ShipmentMoved(s, "insert", r) /\ shipmentPc[s] = "idle"
        /\ shipmentPc' \in [ShipmentSlots -> ShipmentSteps]
        /\ shipmentReq' \in [ShipmentSlots -> ShipmentRequests]
    <2>1. 0 \in 0 .. MaxReports /\ "insert" \in ShipmentSteps
      BY ShipmentsTyping DEF ShipmentsInv, ShipmentSteps
    <2>2. ShipmentsTypeOK /\ ShipmentStart(s, "insert", l, 0)
      BY DEF ShipmentsInv, FindDuplicate
    <2>3. QED BY <2>1, <2>2, ShipmentStarts
  <1>2. UNCHANGED <<shipment, events, registering, numbered, malformed, sent, polls, handled, undone, news,
                    registered, disordered>>
    BY DEF FindDuplicate, carrierVars
  <1>3. r.label \in Labels /\ r.report = 0
    OBVIOUS
  <1> HIDE DEF r
  <1>4. ShipmentsTypeOK'
    BY <1>1, <1>2 DEF ShipmentsInv, ShipmentsTypeOK, ShipmentSteps, ShipmentRequests
  <1>5. \A o \in ShipmentSlots : Named(o)'
    BY <1>1, <1>3, NamedMoves
  <1>6. ASSUME NEW k \in Labels PROVE InOrder(k)'
    <2>1. s \notin Writing(k)
      BY <1>1 DEF Writing
    <2>2. QED BY <1>1, <1>2, <2>1, OthersInOrder DEF Carriers
  <1>7. QED BY <1>2, <1>4, <1>5, <1>6, EventsStay, RegistersStay DEF ShipmentsInv

LEMMA InsertShipmentKeeps ==
  ASSUME ShipmentsInv, NEW s \in ShipmentSlots, InsertShipment(s)
  PROVE  ShipmentsInv'
  <1> DEFINE l == shipmentReq[s].label
  <1>1. /\ shipmentPc[s] = "insert" /\ Named(s) /\ ShipmentDone(s)
        /\ UNCHANGED <<events, numbered, malformed, sent, polls, handled, undone, news, registered, disordered>>
    BY DEF InsertShipment, ShipmentsInv, carrierVars
  <1>2. /\ ShipmentMoved(s, "idle", NoShipmentRequest)
        /\ shipmentPc' \in [ShipmentSlots -> ShipmentSteps]
        /\ shipmentReq' \in [ShipmentSlots -> ShipmentRequests]
    BY <1>1, ShipmentEnds DEF ShipmentsInv
  <1>3. l \in Labels
    BY <1>1 DEF Named
  <1>4. \/ UNCHANGED <<shipment, registering>>
        \/ /\ shipment' = [shipment EXCEPT ![l].exists = TRUE] /\ ~shipment[l].exists
           /\ registering' \in {registering \cup {l}, registering}
    BY DEF InsertShipment
  <1>5. /\ shipment \in [Labels -> Rows] /\ registering \subseteq Labels
        /\ registered \in [Labels -> Nat]
    BY ShipmentsTyping DEF ShipmentsInv
  <1> HIDE DEF l
  <1>6. shipment' \in [Labels -> Rows] /\ registering' \subseteq Labels
    BY <1>3, <1>4, <1>5 DEF Rows
  <1>7. \A k \in Labels : /\ shipment'[k].status = shipment[k].status
                          /\ shipment'[k].external = shipment[k].external
    BY <1>3, <1>4, <1>5 DEF Rows
  <1>8. ShipmentsTypeOK'
    BY <1>1, <1>2, <1>6
    DEF ShipmentsInv, ShipmentsTypeOK, ShipmentSteps, ShipmentRequests, Rows
  <1>9. \A o \in ShipmentSlots : Named(o)'
    BY <1>2, NamedMoves
  <1>10. ASSUME NEW k \in Labels PROVE InOrder(k)'
    <2>1. s \notin Writing(k)
      BY <1>1 DEF Writing
    <2>2. QED BY <1>1, <1>2, <1>7, <2>1, OthersInOrder DEF Carriers
  <1>11. \A k \in Labels : Registers(k)'
    <2>1. CASE UNCHANGED <<shipment, registering>>
      BY <1>1, <2>1, RegistersStay
    <2>2. CASE /\ shipment' = [shipment EXCEPT ![l].exists = TRUE] /\ ~shipment[l].exists
               /\ registering' \in {registering \cup {l}, registering}
      <3>1. ASSUME NEW k \in Labels PROVE Registers(k)'
        <4>1. Registers(k) /\ registered[k] \in Nat
          BY <1>5 DEF ShipmentsInv
        <4>2. shipment'[k].exists <=> shipment[k].exists \/ k = l
          BY <1>3, <1>5, <2>2 DEF Rows
        <4>3. CASE k = l
          <5>1. registered[k] = 0
            BY <2>2, <4>1, <4>3 DEF Registers
          <5>2. QED BY <1>1, <1>7, <4>1, <4>2, <4>3, <5>1 DEF Registers
        <4>4. CASE k # l
          <5>1. k \in registering' <=> k \in registering
            BY <2>2, <4>4
          <5>2. QED BY <1>1, <1>7, <4>1, <4>2, <4>4, <5>1 DEF Registers
        <4>5. QED BY <4>3, <4>4
      <3>2. QED BY <3>1
    <2>3. QED BY <1>4, <2>1, <2>2
  <1>12. QED BY <1>1, <1>7, <1>8, <1>9, <1>10, <1>11, EventsStay DEF ShipmentsInv

LEMMA RegisterKeeps ==
  ASSUME ShipmentsInv, NEW l \in Labels, Register(l)
  PROVE  ShipmentsInv'
  <1>1. /\ l \in registering /\ registering' = registering \ {l}
        /\ UNCHANGED <<events, shipmentPc, shipmentReq, numbered, malformed, sent, polls, handled, undone, news,
                       disordered>>
    BY DEF Register, shipmentSlotVars
  <1>2. /\ shipment \in [Labels -> Rows] /\ registering \subseteq Labels
        /\ registered \in [Labels -> Nat]
    BY ShipmentsTyping DEF ShipmentsInv
  <1>3. PICK recorded \in BOOLEAN :
          \/ /\ registered' = [registered EXCEPT ![l] = @ + 1]
             /\ shipment' = [shipment EXCEPT ![l].external = @ \/ recorded]
          \/ UNCHANGED <<registered, shipment>>
    BY DEF Register
  <1>4. shipment' \in [Labels -> Rows] /\ registered' \in [Labels -> Nat]
    BY <1>2, <1>3 DEF Rows
  <1>5. \A k \in Labels : /\ shipment'[k].status = shipment[k].status
                          /\ shipment'[k].exists = shipment[k].exists
    BY <1>2, <1>3 DEF Rows
  <1>6. ShipmentsTypeOK'
    BY <1>1, <1>2, <1>4 DEF ShipmentsInv, ShipmentsTypeOK, Rows
  <1>7. \A s \in ShipmentSlots : Named(s)'
    BY <1>1 DEF ShipmentsInv, Named
  <1>8. \A k \in Labels : InOrder(k)'
    BY <1>1, <1>5 DEF ShipmentsInv, InOrder, Told, Writing
  <1>9. ASSUME NEW k \in Labels PROVE Registers(k)'
    <2>1. Registers(k) /\ registered[k] \in Nat
      BY <1>2 DEF ShipmentsInv
    <2>2. CASE k # l
      <3>1. /\ registered'[k] = registered[k] /\ shipment'[k] = shipment[k]
            /\ k \in registering' <=> k \in registering
        BY <1>1, <1>2, <1>3, <2>2
      <3>2. QED BY <2>1, <3>1 DEF Registers
    <2>3. CASE k = l
      <3>1. registered[l] = 0 /\ shipment[l].exists /\ l \notin registering'
        BY <1>1, <2>1, <2>3 DEF Registers
      <3>2. \/ registered'[l] = 1
            \/ registered'[l] = 0 /\ shipment'[l] = shipment[l]
        BY <1>2, <1>3, <3>1
      <3>3. QED BY <1>5, <2>1, <2>3, <3>1, <3>2 DEF Registers
    <2>4. QED BY <2>2, <2>3
  <1>10. QED BY <1>1, <1>5, <1>6, <1>7, <1>8, <1>9, EventsStay DEF ShipmentsInv

LEMMA ReportArrivesKeeps ==
  ASSUME ShipmentsInv, NEW s \in ShipmentSlots, NEW l \in Labels, NEW n \in 1 .. MaxReports,
         ReportArrives(s, l, n)
  PROVE  ShipmentsInv'
  <1> DEFINE r == [label |-> l, report |-> n]
  <1>1. /\ ShipmentMoved(s, "report", r) /\ shipmentPc[s] = "idle"
        /\ shipmentPc' \in [ShipmentSlots -> ShipmentSteps]
        /\ shipmentReq' \in [ShipmentSlots -> ShipmentRequests]
    BY ShipmentStarts, ShipmentsTyping DEF ReportArrives, ShipmentsInv, ShipmentSteps
  <1>2. /\ UNCHANGED <<shipment, events, registering, numbered, malformed, polls, handled, undone, registered>>
        /\ sent' = [sent EXCEPT ![l] = IF n > @ THEN n ELSE @]
        /\ news' = IF n > sent[l] /\ n \notin SilentReports THEN [news EXCEPT ![l] = n] ELSE news
        /\ disordered' = IF n <= sent[l] \/ Writing(l) # {} THEN disordered \cup {l}
                         ELSE disordered
    BY DEF ReportArrives, DisorderIf
  <1>3. r.label = l /\ r.report = n /\ n \in 0 .. MaxReports /\ n >= 1 /\ n \in ShipmentStatuses
        /\ r.report \in 1 .. MaxReports
    BY ShipmentsTyping DEF ShipmentsInv, ShipmentStatuses, Polled
  <1>4. /\ sent \in [Labels -> 0 .. MaxReports] /\ news \in [Labels -> ShipmentStatuses]
        /\ disordered \subseteq Labels /\ MaxReports \in Nat
    BY ShipmentsTyping DEF ShipmentsInv
  <1> HIDE DEF r
  <1>5. /\ sent' \in [Labels -> 0 .. MaxReports] /\ news' \in [Labels -> ShipmentStatuses]
        /\ disordered' \subseteq Labels
    BY <1>2, <1>3, <1>4
  <1>6. ShipmentsTypeOK'
    BY <1>1, <1>2, <1>5 DEF ShipmentsInv, ShipmentsTypeOK, ShipmentSteps, ShipmentRequests
  <1>7. \A o \in ShipmentSlots : Named(o)'
    BY <1>1, <1>3, NamedMoves
  <1>8. ASSUME NEW k \in Labels PROVE InOrder(k)'
    <2>1. s \notin Writing(k)
      BY <1>1 DEF Writing
    <2>2. CASE k # l
      <3>1. news'[k] = news[k] /\ (k \in disordered => k \in disordered')
        BY <1>2, <1>4, <2>2
      <3>2. ~("report" \in Carriers /\ r.label = k)
        BY <1>3, <2>2
      <3>3. QED BY <1>1, <1>2, <2>1, <3>1, <3>2, OthersInOrder
    <2>3. CASE k = l /\ l \notin disordered'
      <3>1. n > sent[l] /\ Writing(l) = {} /\ l \notin disordered
        BY <1>2, <1>3, <1>4, <2>3
      <3>2. shipment[l].status = news[l]
        BY <3>1 DEF ShipmentsInv, InOrder
      <3>3. \A o \in Writing(l)' : o = s
        BY <1>1, <3>1, WritingMoves
      <3>4. s \in Writing(l)'
        BY <1>1, <1>3, WritingMoves DEF Carriers
      <3>5. Told(s, l)'
        BY <1>1, <1>2, <1>3, <1>4, <3>1, <3>2 DEF Told, ShipmentMoved
      <3>6. QED BY <2>3, <3>3, <3>4, <3>5 DEF InOrder
    <2>4. CASE k = l /\ l \in disordered'
      BY <2>4 DEF InOrder
    <2>5. QED BY <2>2, <2>3, <2>4
  <1>9. QED BY <1>2, <1>6, <1>7, <1>8, EventsStay, RegistersStay DEF ShipmentsInv

LEMMA SyncReadKeeps ==
  ASSUME ShipmentsInv, NEW s \in ShipmentSlots, NEW l \in Labels, SyncRead(s, l)
  PROVE  ShipmentsInv'
  <1> DEFINE r == [label |-> l, report |-> 0]
  <1>1. /\ ShipmentMoved(s, "poll", r) /\ shipmentPc[s] = "idle"
        /\ shipmentPc' \in [ShipmentSlots -> ShipmentSteps]
        /\ shipmentReq' \in [ShipmentSlots -> ShipmentRequests]
    <2>1. 0 \in 0 .. MaxReports /\ "poll" \in ShipmentSteps
      BY ShipmentsTyping DEF ShipmentsInv, ShipmentSteps
    <2>2. ShipmentsTypeOK /\ ShipmentStart(s, "poll", l, 0)
      BY DEF ShipmentsInv, SyncRead
    <2>3. QED BY <2>1, <2>2, ShipmentStarts
  <1>2. /\ UNCHANGED <<shipment, events, registering, numbered, malformed, sent, polls, handled, undone, news,
                       registered>>
        /\ disordered' = IF Writing(l) # {} THEN disordered \cup {l} ELSE disordered
    BY DEF SyncRead, DisorderIf
  <1>3. r.label = l /\ r.report = 0
    OBVIOUS
  <1>4. disordered \subseteq Labels
    BY ShipmentsTyping DEF ShipmentsInv
  <1> HIDE DEF r
  <1>5. ShipmentsTypeOK'
    BY <1>1, <1>2, <1>4 DEF ShipmentsInv, ShipmentsTypeOK, ShipmentSteps, ShipmentRequests
  <1>6. \A o \in ShipmentSlots : Named(o)'
    BY <1>1, <1>3, NamedMoves
  <1>7. ASSUME NEW k \in Labels PROVE InOrder(k)'
    <2>1. s \notin Writing(k)
      BY <1>1 DEF Writing
    <2>2. CASE k # l
      <3>1. k \in disordered => k \in disordered'
        BY <1>2
      <3>2. ~("poll" \in Carriers /\ r.label = k)
        BY <1>3, <2>2
      <3>3. QED BY <1>1, <1>2, <2>1, <3>1, <3>2, OthersInOrder
    <2>3. CASE k = l /\ l \notin disordered'
      <3>1. Writing(l) = {} /\ l \notin disordered
        BY <1>2, <2>3
      <3>2. shipment[l].status = news[l]
        BY <3>1 DEF ShipmentsInv, InOrder
      <3>3. \A o \in Writing(l)' : o = s
        BY <1>1, <3>1, WritingMoves
      <3>4. s \in Writing(l)'
        BY <1>1, <1>3, WritingMoves DEF Carriers
      <3>5. Told(s, l)'
        BY <1>1, <1>2, <3>2 DEF Told, ShipmentMoved
      <3>6. QED BY <2>3, <3>3, <3>4, <3>5 DEF InOrder
    <2>4. CASE k = l /\ l \in disordered'
      BY <2>4 DEF InOrder
    <2>5. QED BY <2>2, <2>3, <2>4
  <1>8. QED BY <1>2, <1>5, <1>6, <1>7, EventsStay, RegistersStay DEF ShipmentsInv

LEMMA PollKeeps ==
  ASSUME ShipmentsInv, NEW s \in ShipmentSlots, Poll(s)
  PROVE  ShipmentsInv'
  <1>1. PICK l \in Labels : l = shipmentReq[s].label
    BY DEF ShipmentsInv, Named, Poll
  <1>2. /\ shipmentPc[s] = "poll" /\ Named(s)
        /\ polls' = [polls EXCEPT ![l] = @ + 1] /\ shipmentPc' = [shipmentPc EXCEPT ![s] = "sync"]
        /\ \/ /\ shipmentReq' = [shipmentReq EXCEPT ![s].report = Polled]
              /\ news' = [news EXCEPT ![l] = Polled]
           \/ UNCHANGED <<shipmentReq, news>>
        /\ UNCHANGED <<shipment, events, registering, numbered, malformed, sent, handled, undone, registered,
                       disordered>>
    BY <1>1 DEF Poll, ShipmentsInv
  <1>3. l \in Labels
    OBVIOUS
  <1>4. /\ shipmentPc \in [ShipmentSlots -> ShipmentSteps]
        /\ shipmentReq \in [ShipmentSlots -> ShipmentRequests]
    BY ShipmentsTyping DEF ShipmentsInv
  <1>5. PICK r \in ShipmentRequests :
          /\ r.label = l /\ r.report \in {0, Polled} /\ ShipmentMoved(s, "sync", r)
          /\ shipmentPc' \in [ShipmentSlots -> ShipmentSteps]
          /\ shipmentReq' \in [ShipmentSlots -> ShipmentRequests]
          /\ \/ r.report = Polled /\ news' = [news EXCEPT ![l] = Polled]
             \/ r.report = 0 /\ UNCHANGED news
    <2>1. /\ shipmentReq[s] \in ShipmentRequests /\ shipmentReq[s].label = l
          /\ shipmentReq[s].report = 0 /\ Polled \in 0 .. Polled
      BY <1>1, <1>2, <1>4, ShipmentsAssumption DEF Named, Polled
    <2>2. CASE /\ shipmentReq' = [shipmentReq EXCEPT ![s].report = Polled]
               /\ news' = [news EXCEPT ![l] = Polled]
      <3> DEFINE r == [shipmentReq[s] EXCEPT !.report = Polled]
      <3>1. shipmentReq' = [shipmentReq EXCEPT ![s] = r]
        BY <1>4, <2>2
      <3>2. r \in ShipmentRequests /\ r.label = l /\ r.report = Polled
        BY <2>1 DEF ShipmentRequests
      <3> HIDE DEF r
      <3>3. QED BY <1>2, <1>4, <2>2, <3>1, <3>2 DEF ShipmentMoved, ShipmentSteps
    <2>3. CASE UNCHANGED <<shipmentReq, news>>
      BY <1>2, <1>4, <2>1, <2>3 DEF ShipmentMoved, ShipmentSteps
    <2>4. QED BY <1>2, <2>2, <2>3
  <1>6. /\ polls \in [Labels -> Nat] /\ news \in [Labels -> ShipmentStatuses]
        /\ Polled \in ShipmentStatuses
    BY ShipmentsTyping DEF ShipmentsInv, ShipmentStatuses, Polled
  <1>7. polls' \in [Labels -> Nat] /\ news' \in [Labels -> ShipmentStatuses]
    BY <1>2, <1>3, <1>5, <1>6
  <1>8. ShipmentsTypeOK'
    BY <1>2, <1>5, <1>7 DEF ShipmentsInv, ShipmentsTypeOK, ShipmentSteps, ShipmentRequests
  <1>9. \A o \in ShipmentSlots : Named(o)'
    BY <1>5, NamedMoves
  <1>10. ASSUME NEW k \in Labels PROVE InOrder(k)'
    <2>1. CASE k # l
      <3>1. s \notin Writing(k) /\ ~("sync" \in Carriers /\ r.label = k)
        BY <1>1, <1>5, <2>1 DEF Writing
      <3>2. news'[k] = news[k]
        BY <1>3, <1>5, <1>6, <2>1
      <3>3. QED BY <1>2, <1>5, <3>1, <3>2, OthersInOrder
    <2>2. CASE k = l /\ l \notin disordered
      <3>1. InOrder(l) /\ s \in Writing(l)
        BY <1>2, <1>3, <1>1 DEF ShipmentsInv, Writing
      <3>2. \A o \in Writing(l) : o = s
        BY <2>2, <3>1 DEF InOrder
      <3>3. s \in Writing(l)' /\ \A o \in Writing(l)' : o = s
        BY <1>5, <1>1, <3>2, WritingMoves DEF Carriers
      <3>4. Told(s, l)'
        <4>1. Told(s, l)
          BY <2>2, <3>1 DEF InOrder
        <4>2. shipmentPc'[s] = "sync" /\ shipmentReq'[s] = r /\ 0 # Polled
          BY <1>5, ShipmentsAssumption DEF ShipmentMoved, Polled
        <4>3. CASE r.report = Polled /\ news' = [news EXCEPT ![l] = Polled]
          <5>1. news'[l] = Polled
            BY <1>3, <1>6, <4>3
          <5>2. QED BY <4>2, <4>3, <5>1 DEF Told
        <4>4. CASE r.report = 0 /\ UNCHANGED news
          BY <1>2, <4>1, <4>2, <4>4 DEF Told
        <4>5. QED BY <1>5, <4>3, <4>4
      <3>5. QED BY <2>2, <3>3, <3>4 DEF InOrder
    <2>3. CASE k = l /\ l \in disordered
      BY <1>2, <2>3 DEF InOrder
    <2>4. QED BY <2>1, <2>2, <2>3
  <1>11. QED BY <1>2, <1>8, <1>9, <1>10, EventsStay, RegistersStay DEF ShipmentsInv

\* A status that is written shows what the carrier told last, or the label stays
\* out of order.
LEMMA WrittenInOrder ==
  ASSUME ShipmentsInv, NEW s \in ShipmentSlots, NEW l \in Labels, NEW status,
         ShipmentMoved(s, "idle", NoShipmentRequest), s \in Writing(l),
         shipmentReq[s].label = l,
         UNCHANGED news, shipment \in [Labels -> Rows],
         \/ /\ WriteStatus(s, l, status)
            /\ Told(s, l) => status = news[l]
         \/ /\ UNCHANGED <<shipment, disordered>>
            /\ Told(s, l) => shipment[l].status = news[l]
  PROVE  \A k \in Labels : InOrder(k)'
  <1>1. ASSUME NEW k \in Labels PROVE InOrder(k)'
    <2>1. CASE k # l
      <3>1. s \notin Writing(k) /\ (k \in disordered => k \in disordered')
        BY <2>1 DEF Writing, WriteStatus
      <3>2. shipment'[k] = shipment[k]
        BY <2>1 DEF WriteStatus
      <3>3. QED BY <3>1, <3>2, OthersInOrder DEF Carriers
    <2>2. CASE k = l /\ l \notin disordered'
      <3>1. Writing(l) = {s} /\ shipment'[l].status = news[l]
        <4>1. CASE l \in disordered
          BY <2>2, <4>1 DEF WriteStatus, Rows
        <4>2. CASE l \notin disordered
          <5>1. Told(s, l) /\ \A o \in Writing(l) : o = s
            BY <4>2 DEF ShipmentsInv, InOrder
          <5>2. shipment'[l].status = news[l]
            BY <5>1 DEF WriteStatus, Rows
          <5>3. QED BY <5>1, <5>2
        <4>3. QED BY <4>1, <4>2
      <3>2. Writing(l)' = {}
        BY <3>1, WritingMoves DEF Carriers
      <3>3. QED BY <2>2, <3>1, <3>2 DEF InOrder
    <2>3. CASE k = l /\ l \in disordered'
      BY <2>3 DEF InOrder
    <2>4. QED BY <2>1, <2>2, <2>3
  <1>2. QED BY <1>1

LEMMA WriteStatusTypes ==
  ASSUME ShipmentsTypeOK, NEW s \in ShipmentSlots, NEW l \in Labels,
         NEW status \in ShipmentStatuses,
         WriteStatus(s, l, status) \/ UNCHANGED <<shipment, disordered>>
  PROVE  /\ shipment' \in [Labels -> Rows] /\ disordered' \subseteq Labels
         /\ \A k \in Labels : /\ shipment'[k].exists = shipment[k].exists
                              /\ shipment'[k].external = shipment[k].external
  <1>1. shipment \in [Labels -> Rows] /\ disordered \subseteq Labels
    BY ShipmentsTyping
  <1>2. disordered' \subseteq Labels
    BY <1>1 DEF WriteStatus
  <1>3. shipment' = shipment \/ shipment' = [shipment EXCEPT ![l].status = status]
    BY DEF WriteStatus
  <1>4. CASE shipment' = shipment
    BY <1>1, <1>2, <1>4
  <1>5. CASE shipment' = [shipment EXCEPT ![l].status = status]
    <2>1. \A k \in Labels : k # l => shipment'[k] = shipment[k]
      BY <1>1, <1>5
    <2>2. shipment'[l] = [shipment[l] EXCEPT !.status = status]
      BY <1>1, <1>5
    <2>3. /\ shipment'[l] \in Rows /\ shipment'[l].exists = shipment[l].exists
          /\ shipment'[l].external = shipment[l].external
      BY <1>1, <2>2 DEF Rows
    <2>4. shipment' \in [Labels -> Rows]
      BY <1>1, <1>5, <2>3
    <2>5. QED BY <1>2, <2>1, <2>3, <2>4
  <1>6. QED BY <1>3, <1>4, <1>5

\* Events that are upserted under their own label's keys, or under ids their carriers
\* gave, are kept.
LEMMA UpsertKeeps ==
  ASSUME ShipmentsInv, NEW l \in Labels, NEW keys \in SUBSET EventKeys, Upsert(l, keys),
         UNCHANGED numbered, \A k \in Labels : handled[k] \subseteq handled'[k],
         \A k \in keys : \/ k.label = l
                         \/ k.label = NoLabel /\ l \in numbered /\ k.at \in handled'[l],
         \A k \in Labels : \A n \in Owed(k)' \ Owed(k) : EventKey(k, n) \in keys
  PROVE  /\ DOMAIN events' \subseteq EventKeys /\ events' \in [DOMAIN events' -> EventRows]
         /\ EventsThere' /\ \A k \in DOMAIN events' : KeyTrue(k)'
  <1>1. /\ DOMAIN events \subseteq EventKeys /\ events \in [DOMAIN events -> EventRows]
        /\ NoLabel \notin Labels
    BY ShipmentsTyping DEF ShipmentsInv
  <1>2. /\ DOMAIN events' = DOMAIN events \cup keys
        /\ \A k \in DOMAIN events' :
             events'[k] = IF k \notin keys THEN events[k]
                          ELSE [of |-> IF k \in DOMAIN events THEN events[k].of ELSE l,
                                about |-> l]
        /\ events' = [k \in DOMAIN events' |-> events'[k]]
    BY DEF Upsert
  <1>3. ASSUME NEW k \in DOMAIN events', k \notin keys
        PROVE  events'[k] = events[k] /\ k \in DOMAIN events
    BY <1>2, <1>3
  <1>4. ASSUME NEW k \in keys
        PROVE  /\ events'[k].about = l /\ events'[k] \in EventRows
               /\ \/ events'[k].of = l
                  \/ k \in DOMAIN events /\ events'[k].of = events[k].of
    <2> DEFINE old == IF k \in DOMAIN events THEN events[k].of ELSE l
    <2>1. events'[k] = [of |-> old, about |-> l]
      BY <1>2
    <2>2. k \in DOMAIN events => events[k].of \in Labels
      BY <1>1 DEF EventRows
    <2>3. old \in Labels
      BY <2>2
    <2>4. old = l \/ (k \in DOMAIN events /\ old = events[k].of)
      OBVIOUS
    <2> HIDE DEF old
    <2>5. [of |-> old, about |-> l] \in EventRows
      BY <2>3 DEF EventRows
    <2>6. events'[k].of = old /\ events'[k].about = l
      BY <2>1
    <2>7. QED BY <2>1, <2>4, <2>5, <2>6
  <1>5. \A k \in DOMAIN events' : events'[k] \in EventRows
    BY <1>1, <1>3, <1>4
  <1>6. DOMAIN events' \subseteq EventKeys /\ events' \in [DOMAIN events' -> EventRows]
    BY <1>1, <1>2, <1>5
  <1>7. EventsThere'
    BY <1>2 DEF EventsThere, ShipmentsInv, EventKey
  <1>8. ASSUME NEW k \in DOMAIN events' PROVE KeyTrue(k)'
    <2>1. CASE k \notin keys
      <3>1. KeyTrue(k) /\ events'[k] = events[k] /\ events[k] \in EventRows
        BY <1>1, <1>3, <2>1 DEF ShipmentsInv
      <3>2. events[k].of \in Labels /\ events[k].about \in Labels
        BY <3>1 DEF EventRows
      <3>3. QED BY <3>1, <3>2 DEF KeyTrue
    <2>2. CASE k \in keys
      <3>1. k \in DOMAIN events => KeyTrue(k) /\ events[k].of \in Labels
        BY <1>1 DEF ShipmentsInv, EventRows
      <3>2. CASE k.label = l
        <4>1. k.label # NoLabel
          BY <1>1, <3>2
        <4>2. k \in DOMAIN events => events[k].of = l
          BY <3>1, <3>2, <4>1 DEF KeyTrue
        <4>3. events'[k].of = l /\ events'[k].about = l
          BY <1>4, <2>2, <4>2
        <4>4. QED BY <3>2, <4>1, <4>3 DEF KeyTrue
      <3>3. CASE k.label = NoLabel /\ l \in numbered /\ k.at \in handled'[l]
        <4>1. k \in DOMAIN events => events[k].of \in numbered /\ k.at \in handled'[events[k].of]
          BY <3>1, <3>3 DEF KeyTrue
        <4>2. events'[k].of \in numbered /\ k.at \in handled'[events'[k].of]
          BY <1>4, <2>2, <3>3, <4>1
        <4>3. QED BY <1>4, <2>2, <3>3, <4>2 DEF KeyTrue
      <3>4. QED BY <2>2, <3>2, <3>3
    <2>3. QED BY <2>1, <2>2
  <1>9. QED BY <1>6, <1>7, <1>8

LEMMA WriteReportKeeps ==
  ASSUME ShipmentsInv, NEW s \in ShipmentSlots, WriteReport(s)
  PROVE  ShipmentsInv'
  <1>1. PICK l \in Labels, n \in 1 .. MaxReports :
          l = shipmentReq[s].label /\ n = shipmentReq[s].report
    BY ShipmentsTyping DEF ShipmentsInv, Named, WriteReport, ShipmentRequests
  <1>2. /\ shipmentPc[s] = "report" /\ ShipmentDone(s)
        /\ IF n \in SilentReports THEN UNCHANGED <<shipment, disordered>>
           ELSE WriteStatus(s, l, n)
        /\ IF n \in malformed THEN UNCHANGED <<events, undone>>
           ELSE /\ Upsert(l, {EventKey(l, n)})
                /\ undone' = [undone EXCEPT ![l] = @ \ {n}]
        /\ handled' = [handled EXCEPT ![l] = @ \cup {n}]
        /\ UNCHANGED <<registering, numbered, malformed, sent, polls, news, registered>>
    BY <1>1 DEF WriteReport
  <1>3. /\ ShipmentMoved(s, "idle", NoShipmentRequest)
        /\ shipmentPc' \in [ShipmentSlots -> ShipmentSteps]
        /\ shipmentReq' \in [ShipmentSlots -> ShipmentRequests]
    BY <1>2, ShipmentEnds DEF ShipmentsInv
  <1>4. /\ shipment \in [Labels -> Rows] /\ MaxReports \in Nat
        /\ handled \in [Labels -> SUBSET (1 .. MaxReports)]
        /\ undone \in [Labels -> SUBSET (1 .. MaxReports)]
        /\ DOMAIN events \subseteq EventKeys /\ events \in [DOMAIN events -> EventRows]
    BY ShipmentsTyping DEF ShipmentsInv
  <1>5. /\ shipment' \in [Labels -> Rows] /\ disordered' \subseteq Labels
        /\ \A k \in Labels : /\ shipment'[k].exists = shipment[k].exists
                             /\ shipment'[k].external = shipment[k].external
    <2>1. n \in ShipmentStatuses
      BY <1>4 DEF ShipmentStatuses, Polled
    <2>2. QED BY <1>2, <2>1, WriteStatusTypes DEF ShipmentsInv
  <1>6. /\ handled' \in [Labels -> SUBSET (1 .. MaxReports)]
        /\ undone' \in [Labels -> SUBSET (1 .. MaxReports)]
    BY <1>2, <1>4
  <1>6a. \A k \in Labels : handled[k] \subseteq handled'[k] /\ (k = l \/ handled'[k] = handled[k])
    BY <1>2, <1>4
  <1>6b. ASSUME NEW k \in Labels PROVE Owed(k)' \subseteq Owed(k) \cup ({n} \ malformed) /\ (k # l => Owed(k)' = Owed(k))
    <2>1. shipment'[k].status = shipment[k].status \/ (k = l /\ shipment'[k].status = n)
      BY <1>2, <1>4 DEF WriteStatus, Rows
    <2>2. handled'[k] = IF k = l THEN handled[k] \cup {n} ELSE handled[k]
      BY <1>2, <1>4
    <2>3. undone'[k] = undone[k] \/ (k = l /\ undone'[k] = undone[k] \ {n})
      BY <1>2, <1>4
    <2>4. QED BY <1>2, <2>1, <2>2, <2>3 DEF Owed
  <1>7. /\ DOMAIN events' \subseteq EventKeys /\ events' \in [DOMAIN events' -> EventRows]
        /\ EventsThere' /\ \A k \in DOMAIN events' : KeyTrue(k)'
    <2>1. CASE n \in malformed
      <3>1. \A k \in Labels : handled[k] \subseteq handled'[k] /\ Owed(k)' \subseteq Owed(k)
        BY <1>6a, <1>6b, <2>1
      <3>2. UNCHANGED <<events, numbered>>
        BY <1>2, <2>1
      <3>3. QED BY <1>4, <3>1, <3>2, NothingOwed
    <2>2. CASE n \notin malformed
      <3> DEFINE keys == {EventKey(l, n)}
      <3>1. EventKey(l, n) \in EventKeys
        BY <1>4 DEF EventKey, EventKeys
      <3>2. Upsert(l, keys) /\ keys \in SUBSET EventKeys
        BY <1>2, <2>2, <3>1
      <3>3. \A k \in keys : \/ k.label = l
                            \/ k.label = NoLabel /\ l \in numbered /\ k.at \in handled'[l]
        BY <1>2, <1>4 DEF EventKey
      <3>4. \A k \in Labels : \A m \in Owed(k)' \ Owed(k) : EventKey(k, m) \in keys
        BY <1>6b
      <3> HIDE DEF keys
      <3>5. QED BY <1>2, <1>6a, <3>2, <3>3, <3>4, UpsertKeeps
    <2>3. QED BY <2>1, <2>2
  <1>8. ShipmentsTypeOK'
    BY <1>2, <1>3, <1>5, <1>6, <1>7
    DEF ShipmentsInv, ShipmentsTypeOK, ShipmentSteps, ShipmentRequests, Rows
  <1>9. \A o \in ShipmentSlots : Named(o)'
    BY <1>3, NamedMoves
  <1>10. \A k \in Labels : InOrder(k)'
    <2>1. s \in Writing(l)
      BY <1>1, <1>2 DEF Writing
    <2>2. Told(s, l) => IF n \in SilentReports THEN shipment[l].status = news[l] ELSE news[l] = n
      BY <1>1, <1>2 DEF Told
    <2>3. QED BY <1>1, <1>2, <1>3, <1>4, <2>1, <2>2, WrittenInOrder
  <1>11. QED BY <1>2, <1>5, <1>7, <1>8, <1>9, <1>10, RegistersStay DEF ShipmentsInv

LEMMA WriteSyncKeeps ==
  ASSUME ShipmentsInv, NEW s \in ShipmentSlots, WriteSync(s)
  PROVE  ShipmentsInv'
  <1>1. PICK l \in Labels : l = shipmentReq[s].label
    BY DEF ShipmentsInv, Named, WriteSync
  <1>2. /\ shipmentPc[s] = "sync" /\ ShipmentDone(s) /\ Named(s)
        /\ IF shipmentReq[s].report = Polled THEN WriteStatus(s, l, Polled)
           ELSE UNCHANGED <<shipment, disordered>>
        /\ Upsert(l, PollKeys(l)) \/ UNCHANGED events
        /\ UNCHANGED <<registering, numbered, malformed, sent, polls, handled, undone, news, registered>>
    BY <1>1 DEF WriteSync, ShipmentsInv
  <1>3. /\ ShipmentMoved(s, "idle", NoShipmentRequest)
        /\ shipmentPc' \in [ShipmentSlots -> ShipmentSteps]
        /\ shipmentReq' \in [ShipmentSlots -> ShipmentRequests]
    BY <1>2, ShipmentEnds DEF ShipmentsInv
  <1>4. shipment \in [Labels -> Rows] /\ MaxReports \in Nat /\ polls \in [Labels -> Nat]
        /\ DOMAIN events \subseteq EventKeys /\ events \in [DOMAIN events -> EventRows]
    BY ShipmentsTyping DEF ShipmentsInv
  <1>5. /\ shipment' \in [Labels -> Rows] /\ disordered' \subseteq Labels
        /\ \A k \in Labels : /\ shipment'[k].exists = shipment[k].exists
                             /\ shipment'[k].external = shipment[k].external
    <2>1. Polled \in ShipmentStatuses
      BY <1>4 DEF ShipmentStatuses, Polled
    <2>2. QED BY <1>2, <2>1, WriteStatusTypes DEF ShipmentsInv
  <1>6. /\ DOMAIN events' \subseteq EventKeys /\ events' \in [DOMAIN events' -> EventRows]
        /\ EventsThere' /\ \A k \in DOMAIN events' : KeyTrue(k)'
    <2>1. \A k \in Labels : handled[k] \subseteq handled'[k] /\ Owed(k)' \subseteq Owed(k)
      <3>1. Polled \notin 1 .. MaxReports
        BY <1>4 DEF Polled
      <3>2. \A k \in Labels : shipment'[k].status \in {shipment[k].status, Polled}
        BY <1>2, <1>4 DEF WriteStatus, Rows
      <3>3. QED BY <1>2, <3>1, <3>2 DEF Owed
    <2>2. CASE Upsert(l, PollKeys(l))
      <3> DEFINE keys == PollKeys(l)
      <3>1. \A k \in keys : k.label = l /\ k \in EventKeys
        <4>1. \A i \in {1, 2} : MaxReports + 2 * polls[l] + i \in Nat
          BY <1>4
        <4>2. QED BY <4>1 DEF PollKeys, EventKeys
      <3>2. Upsert(l, keys)
        BY <2>2
      <3> HIDE DEF keys
      <3>3. keys \in SUBSET EventKeys
        BY <3>1
      <3>4. QED BY <1>2, <2>1, <3>1, <3>2, <3>3, UpsertKeeps
    <2>3. CASE UNCHANGED events
      BY <1>2, <1>4, <2>1, <2>3, NothingOwed
    <2>4. QED BY <1>2, <2>2, <2>3
  <1>7. ShipmentsTypeOK'
    BY <1>2, <1>3, <1>5, <1>6
    DEF ShipmentsInv, ShipmentsTypeOK, ShipmentSteps, ShipmentRequests, Rows
  <1>8. \A o \in ShipmentSlots : Named(o)'
    BY <1>3, NamedMoves
  <1>9. \A k \in Labels : InOrder(k)'
    <2>1. s \in Writing(l)
      BY <1>1, <1>2 DEF Writing
    <2>2. Told(s, l) => IF shipmentReq[s].report = Polled THEN Polled = news[l]
                        ELSE shipment[l].status = news[l]
      BY <1>2 DEF Told
    <2>3. QED BY <1>1, <1>2, <1>3, <1>4, <2>1, <2>2, WrittenInOrder
  <1>10. QED BY <1>2, <1>5, <1>6, <1>7, <1>8, <1>9, RegistersStay DEF ShipmentsInv

\* What a request that fails or is rolled back leaves of the order: a label is out of
\* order, or the request had no status to write.
LEMMA UnwrittenInOrder ==
  ASSUME ShipmentsInv, NEW s \in ShipmentSlots, NEW l \in Labels, l = shipmentReq[s].label,
         ShipmentMoved(s, "idle", NoShipmentRequest), UNCHANGED <<shipment, news>>,
         disordered \subseteq disordered',
         s \in Writing(l) /\ l \notin disordered' /\ Told(s, l) => shipment[l].status = news[l]
  PROVE  \A k \in Labels : InOrder(k)'
  <1>1. ASSUME NEW k \in Labels PROVE InOrder(k)'
    <2>1. CASE s \notin Writing(k)
      BY <2>1, OthersInOrder DEF Carriers
    <2>2. CASE s \in Writing(k) /\ k \notin disordered'
      <3>1. k = l /\ k \notin disordered
        BY <2>2 DEF Writing
      <3>2. Told(s, k) /\ \A o \in Writing(k) : o = s
        BY <2>2, <3>1 DEF ShipmentsInv, InOrder
      <3>3. shipment[k].status = news[k]
        BY <2>2, <3>1, <3>2
      <3>4. Writing(k)' = {}
        BY <3>2, WritingMoves DEF Carriers
      <3>5. QED BY <3>3, <3>4 DEF InOrder
    <2>3. CASE k \in disordered'
      BY <2>3 DEF InOrder
    <2>4. QED BY <2>1, <2>2, <2>3
  <1>2. QED BY <1>1

LEMMA UpsertFailsKeeps ==
  ASSUME ShipmentsInv, NEW s \in ShipmentSlots, UpsertFails(s)
  PROVE  ShipmentsInv'
  <1>1. PICK l \in Labels : l = shipmentReq[s].label
    BY DEF ShipmentsInv, Named, UpsertFails
  <1>2. PICK n : n = shipmentReq[s].report
    OBVIOUS
  <1>3. /\ ShipmentDone(s) /\ Named(s) /\ shipmentPc[s] \in {"report", "sync"}
        /\ UNCHANGED <<shipment, events, registering, numbered, malformed, sent, polls, news,
                       registered>>
        /\ disordered' = IF n \notin SilentReports \cup {0} THEN disordered \cup {l}
                         ELSE disordered
        /\ \/ /\ shipmentPc[s] = "report"
              /\ handled' = [handled EXCEPT ![l] = @ \cup {n}]
              /\ undone' = IF n \in handled[l] THEN undone
                           ELSE [undone EXCEPT ![l] = @ \cup {n}]
           \/ UNCHANGED <<handled, undone>>
    BY <1>1, <1>2 DEF UpsertFails, DisorderIf, ShipmentsInv
  <1>4. /\ ShipmentMoved(s, "idle", NoShipmentRequest)
        /\ shipmentPc' \in [ShipmentSlots -> ShipmentSteps]
        /\ shipmentReq' \in [ShipmentSlots -> ShipmentRequests]
    BY <1>3, ShipmentEnds DEF ShipmentsInv
  <1>5. /\ disordered \subseteq Labels /\ MaxReports \in Nat
        /\ handled \in [Labels -> SUBSET (1 .. MaxReports)]
        /\ undone \in [Labels -> SUBSET (1 .. MaxReports)]
    BY ShipmentsTyping DEF ShipmentsInv
  <1>6. disordered' \subseteq Labels /\ disordered \subseteq disordered'
    BY <1>3, <1>5
  <1>7. shipmentPc[s] = "report" => n \in 1 .. MaxReports
    BY <1>2, <1>3 DEF Named
  <1>8. /\ handled' \in [Labels -> SUBSET (1 .. MaxReports)]
        /\ undone' \in [Labels -> SUBSET (1 .. MaxReports)]
        /\ \A k \in Labels : /\ handled[k] \subseteq handled'[k]
                             /\ handled'[k] \ undone'[k] \subseteq handled[k] \ undone[k]
    BY <1>3, <1>5, <1>7
  <1>9. EventsThere' /\ \A k \in DOMAIN events' : KeyTrue(k)'
    <2>1. \A k \in Labels : Owed(k)' \subseteq Owed(k)
      BY <1>3, <1>8 DEF Owed
    <2>2. QED BY <1>3, <1>8, <2>1, NothingOwed
  <1>10. ShipmentsTypeOK'
    BY <1>3, <1>4, <1>6, <1>8 DEF ShipmentsInv, ShipmentsTypeOK, ShipmentSteps, ShipmentRequests
  <1>11. \A o \in ShipmentSlots : Named(o)'
    BY <1>4, NamedMoves
  <1>12. \A k \in Labels : InOrder(k)'
    <2>1. l \notin disordered' /\ Told(s, l) => shipment[l].status = news[l]
      <3>1. l \notin disordered' => n \in SilentReports \cup {0}
        BY <1>3
      <3>2. 0 # Polled /\ 0 \notin 1 .. MaxReports
        BY <1>5 DEF Polled
      <3>3. ASSUME n = 0 PROVE shipmentPc[s] = "sync"
        BY <1>3, <1>7, <3>2, <3>3
      <3>4. ASSUME n \in SilentReports PROVE n # Polled
        BY <1>5, <3>4, ShipmentsAssumption DEF Polled
      <3>5. QED BY <1>2, <1>3, <3>1, <3>2, <3>3, <3>4 DEF Told
    <2>2. QED BY <1>1, <1>3, <1>4, <1>6, <2>1, UnwrittenInOrder
  <1>13. QED BY <1>3, <1>9, <1>10, <1>11, <1>12, RegistersStay DEF ShipmentsInv

LEMMA ShipmentAbortKeeps ==
  ASSUME ShipmentsInv, NEW s \in ShipmentSlots, ShipmentAbort(s)
  PROVE  ShipmentsInv'
  <1>1. PICK l \in Labels : l = shipmentReq[s].label
    BY DEF ShipmentsInv, Named, ShipmentAbort
  <1>2. /\ ShipmentDone(s)
        /\ UNCHANGED <<shipment, events, registering, numbered, malformed, sent, polls, handled, undone, news,
                       registered>>
        /\ disordered' = IF shipmentPc[s] \in {"report", "sync"} THEN disordered \cup {l}
                         ELSE disordered
    BY <1>1 DEF ShipmentAbort, DisorderIf
  <1>3. /\ ShipmentMoved(s, "idle", NoShipmentRequest)
        /\ shipmentPc' \in [ShipmentSlots -> ShipmentSteps]
        /\ shipmentReq' \in [ShipmentSlots -> ShipmentRequests]
    BY <1>2, ShipmentEnds DEF ShipmentsInv
  <1>4. disordered' \subseteq Labels /\ disordered \subseteq disordered'
    BY <1>2, ShipmentsTyping DEF ShipmentsInv
  <1>5. ShipmentsTypeOK'
    BY <1>2, <1>3, <1>4 DEF ShipmentsInv, ShipmentsTypeOK, ShipmentSteps, ShipmentRequests
  <1>6. \A o \in ShipmentSlots : Named(o)'
    BY <1>3, NamedMoves
  <1>7. \A k \in Labels : InOrder(k)'
    <2>1. s \in Writing(l) /\ l \notin disordered' => shipmentPc[s] = "poll"
      BY <1>2 DEF Writing
    <2>2. QED BY <1>1, <1>2, <1>3, <1>4, <2>1, UnwrittenInOrder DEF Told
  <1>8. QED BY <1>2, <1>5, <1>6, <1>7, EventsStay, RegistersStay DEF ShipmentsInv

LEMMA ShipmentsAtFirst == ShipmentsInit => ShipmentsInv
  <1> SUFFICES ASSUME ShipmentsInit PROVE ShipmentsInv
    OBVIOUS
  <1>1. MaxReports \in Nat /\ Created \in ShipmentStatuses
    BY ShipmentsAssumption DEF ShipmentStatuses, Polled, Created
  <1>2. DOMAIN events = {}
    BY DEF ShipmentsInit
  <1>3. ShipmentsTypeOK
    <2>1. 0 \in 0 .. MaxReports /\ 0 \in 0 .. Polled
      BY <1>1 DEF Polled
    <2>2. events \in [DOMAIN events -> EventRows] /\ DOMAIN events \subseteq EventKeys
      BY <1>2 DEF ShipmentsInit
    <2>3. /\ shipment \in [Labels -> [exists : BOOLEAN, status : ShipmentStatuses,
                                      external : BOOLEAN]]
          /\ shipmentReq \in [ShipmentSlots -> [label : Labels \cup {NoLabel},
                                                report : 0 .. Polled]]
      BY <1>1, <2>1 DEF ShipmentsInit, NoShipmentRequest
    <2>4. QED BY <1>1, <2>1, <2>2, <2>3 DEF ShipmentsInit, ShipmentsTypeOK
  <1>4. (\A s \in ShipmentSlots : Named(s)) /\ \A l \in Labels : InOrder(l)
    BY DEF ShipmentsInit, Named, InOrder, Writing
  <1>5. EventsThere /\ \A k \in DOMAIN events : KeyTrue(k)
    <2>1. 0 \notin 1 .. MaxReports
      BY <1>1
    <2>2. QED BY <1>2, <2>1 DEF ShipmentsInit, EventsThere, Owed, Created
  <1>6. \A l \in Labels : Registers(l)
    BY DEF ShipmentsInit, Registers
  <1>7. QED BY <1>3, <1>4, <1>5, <1>6 DEF ShipmentsInv

LEMMA ShipmentsStepKeeps == ShipmentsInv /\ [ShipmentsNext]_shipmentVars => ShipmentsInv'
  <1> SUFFICES ASSUME ShipmentsInv, [ShipmentsNext]_shipmentVars PROVE ShipmentsInv'
    OBVIOUS
  <1>1. ASSUME NEW l \in Labels,
               \/ Register(l)
               \/ \E s \in ShipmentSlots :
                    \/ FindDuplicate(s, l) \/ SyncRead(s, l)
                    \/ \E n \in 1 .. MaxReports : ReportArrives(s, l, n)
        PROVE  ShipmentsInv'
    BY <1>1, RegisterKeeps, FindDuplicateKeeps, SyncReadKeeps, ReportArrivesKeeps
  <1>2. ASSUME NEW s \in ShipmentSlots,
               \/ InsertShipment(s) \/ WriteReport(s) \/ Poll(s) \/ WriteSync(s)
               \/ UpsertFails(s) \/ ShipmentAbort(s)
        PROVE  ShipmentsInv'
    BY <1>2, InsertShipmentKeeps, WriteReportKeeps, PollKeeps, WriteSyncKeeps,
       UpsertFailsKeeps, ShipmentAbortKeeps
  <1>3. CASE UNCHANGED shipmentVars
    BY <1>3 DEF ShipmentsInv, ShipmentsTypeOK, Named, InOrder, Told, Writing, EventsThere,
         Owed, EventKey, KeyTrue, Registers, shipmentVars, shipmentSlotVars, carrierVars
  <1>4. QED BY <1>1, <1>2, <1>3 DEF ShipmentsNext

LEMMA ShipmentsInvHolds == ShipmentsSpec => []ShipmentsInv
  BY ShipmentsAtFirst, ShipmentsStepKeeps, PTL DEF ShipmentsSpec

\* Labels, requests, events and reports keep their types.
THEOREM ShipmentsTypeCorrect == ShipmentsSpec => []ShipmentsTypeOK
  <1>1. ShipmentsInv => ShipmentsTypeOK
    BY DEF ShipmentsInv
  <1>2. QED BY <1>1, ShipmentsInvHolds, PTL

\* What a carrier told last is what the shipment shows, whoever asks and however
\* often a report comes again, but for labels whose reports ran out of order or were
\* rolled back; a report answered with success and the status that is shown keep their
\* event, but for what the database client refused or a failed upsert took back; and two
\* creations that race register a label once (ShipmentService.handleWebhook,
\* syncShipment and createAndRegisterShipment).
THEOREM CarrierIsFollowed == ShipmentsSpec => []ShipmentFollowsCarrier
  <1>1. ShipmentsInv => StatusIsNews
    BY DEF ShipmentsInv, InOrder, StatusIsNews
  <1>2. ASSUME ShipmentsInv, NEW l \in Labels, NEW n \in Owed(l) PROVE Kept(l, n)
    <2> SUFFICES ASSUME ~\E other \in Labels \ {l} :
                           {l, other} \subseteq numbered /\ n \in handled[other]
                 PROVE  /\ EventKey(l, n) \in DOMAIN events
                        /\ events[EventKey(l, n)] = [of |-> l, about |-> l]
      BY DEF Kept
    <2>1. PICK k \in DOMAIN events : k = EventKey(l, n) /\ KeyTrue(k)
      BY <1>2 DEF ShipmentsInv, EventsThere
    <2>2. events[k] \in EventRows /\ NoLabel \notin Labels
      BY <1>2, ShipmentsTyping DEF ShipmentsInv
    <2>3. events[k].of = l /\ events[k].about = l
      BY <2>1, <2>2 DEF KeyTrue, EventKey, EventRows
    <2>4. events[k] = [of |-> l, about |-> l]
      BY <2>2, <2>3 DEF EventRows
    <2>5. QED BY <2>1, <2>4
  <1>3. ShipmentsInv => EventsKept /\ StatusHasEvent
    BY <1>2 DEF EventsKept, StatusHasEvent, Owed
  <1>4. ShipmentsInv => RegisteredOnce
    BY DEF ShipmentsInv, Registers, RegisteredOnce
  <1>5. ShipmentsInv => ShipmentFollowsCarrier
    BY <1>1, <1>3, <1>4 DEF ShipmentFollowsCarrier
  <1>6. QED BY <1>5, ShipmentsInvHolds, PTL
-------------------------------------------------------------------------------
(* What holds of Mail for every number of submissions, visitors and notices. *)

MailRows == [Receivers -> {"none", "queued", "sent", "failed", "deleted"}]
MailSteps == {"new", "store", "prepare", "queue", "smtp", "sent", "failed", "sentAll", "done"}
SubmissionRows == [visitor : Visitors \cup {NoVisitor}, stored : BOOLEAN, recent : BOOLEAN,
                   emailSent : BOOLEAN]

\* The row of x's mail to k, unless it could not be known or recorded.
RowTrue(x, k) ==
  \/ <<x, k>> \in unsure
  \/ /\ mail[x][k] = "sent" => k \in delivered[x]
     /\ mail[x][k] = "queued" => mailTo[x] = k /\ mailPc[x] \in {"smtp", "sent", "failed"}
     /\ mail[x][k] = "deleted" => x \in Settled
     /\ mail[x][k] \in {"none", "failed"} => k \notin delivered[x]

\* Where x is with the mail it is at, to k.
AtMail(x, k) ==
  /\ mailPc[x] \in {"new", "store", "prepare", "queue"} =>
       mail[x][k] = "none" /\ k \notin delivered[x]
  /\ mailPc[x] = "smtp" => mail[x][k] = "queued" /\ k \notin delivered[x]
  /\ mailPc[x] = "sent" => mail[x][k] = "queued" /\ k \in delivered[x]
  /\ mailPc[x] = "failed" => /\ mail[x][k] = "queued"
                             /\ k \in delivered[x] => <<x, k>> \in unsure

\* The admin is mailed before the visitor, and a notification mails its user.
InTurn(x) ==
  /\ mailTo[x] = "admin" => mail[x]["user"] = "none" /\ "user" \notin delivered[x]
  /\ x \in Submissions /\ mailTo[x] = "user" => "admin" \in delivered[x]
  /\ x \in Notices => mailTo[x] = "user"
  /\ mailPc[x] = "sentAll" => delivered[x] = Receivers

\* What is mailed is on record.
OnRecord ==
  /\ \A c \in Submissions :
       /\ mailPc[c] \in {"queue", "smtp", "sent", "failed", "sentAll"} => submission[c].stored
       /\ delivered[c] # {} => submission[c].stored
       /\ submission[c].emailSent => delivered[c] = Receivers
  /\ \A n \in Notices : mailPc[n] # "new" \/ delivered[n] # {} => notice[n] # "none"

\* Submissions of v that are younger than ten minutes, or about to be stored.
Busy(v) == {c \in Submissions : /\ submission[c].visitor = v
                                /\ submission[c].recent \/ mailPc[c] = "store"}
OneAtATime == \A v \in Visitors : v \in crowded \/ \A c, d \in Busy(v) : c = d

MailInv ==
  /\ MailTypeOK
  /\ \A x \in Senders : AtMail(x, mailTo[x]) /\ InTurn(x)
  /\ \A x \in Senders, k \in Receivers : RowTrue(x, k)
  /\ OnRecord /\ OneAtATime

LEMMA MailTyping ==
  ASSUME MailTypeOK
  PROVE  /\ mail \in [Senders -> MailRows] /\ mailPc \in [Senders -> MailSteps]
         /\ mailTo \in [Senders -> Receivers]
         /\ submission \in [Submissions -> SubmissionRows]
         /\ notice \in [Notices -> {"none", "unread", "read", "deleted"}]
         /\ delivered \in [Senders -> SUBSET Receivers]
         /\ unsure \subseteq Senders \X Receivers /\ crowded \subseteq Visitors
         /\ Submissions \subseteq Senders /\ Notices \subseteq Senders
         /\ Submissions \cap Notices = {}
  BY MailAssumption DEF MailTypeOK, MailRows, MailSteps, SubmissionRows, Senders

\* Only the sender x moves.
OnlyMoves(x) ==
  \A y \in Senders \ {x} :
    /\ mailPc'[y] = mailPc[y] /\ mailTo'[y] = mailTo[y]
    /\ mail'[y] = mail[y] /\ delivered'[y] = delivered[y]

LEMMA OthersStay ==
  ASSUME MailInv, NEW x \in Senders, OnlyMoves(x), unsure \subseteq unsure',
         \A c \in Submissions \ {x} : submission'[c] = submission[c]
  PROVE  \A y \in Senders \ {x} : /\ AtMail(y, mailTo[y])' /\ InTurn(y)'
                                  /\ \A k \in Receivers : RowTrue(y, k)'
  <1> SUFFICES ASSUME NEW y \in Senders \ {x}, NEW k \in Receivers
               PROVE  AtMail(y, mailTo[y])' /\ InTurn(y)' /\ RowTrue(y, k)'
    BY DEF Receivers
  <1>1. /\ mailPc'[y] = mailPc[y] /\ mailTo'[y] = mailTo[y] /\ mail'[y] = mail[y]
        /\ delivered'[y] = delivered[y]
    BY DEF OnlyMoves
  <1>2. AtMail(y, mailTo[y]) /\ InTurn(y) /\ RowTrue(y, k)
    BY DEF MailInv
  <1>3. AtMail(y, mailTo[y])' /\ InTurn(y)'
    BY <1>1, <1>2 DEF AtMail, InTurn
  <1>4. y \in Settled => y \in Settled'
    BY <1>1 DEF Settled
  <1>5. RowTrue(y, k)'
    BY <1>1, <1>2, <1>4 DEF RowTrue
  <1>6. QED BY <1>3, <1>5

LEMMA GotoMoves ==
  ASSUME MailTypeOK, NEW x \in Senders, NEW next \in MailSteps, MailGoto(x, next)
  PROVE  /\ mailPc'[x] = next /\ mailTo' = mailTo
         /\ \A y \in Senders \ {x} : mailPc'[y] = mailPc[y] /\ mailTo'[y] = mailTo[y]
         /\ mailPc' \in [Senders -> MailSteps]
  BY MailTyping DEF MailGoto

\* A row is given a status.
LEMMA RowGets ==
  ASSUME MailTypeOK, NEW x \in Senders, NEW k \in Receivers,
         NEW status \in {"none", "queued", "sent", "failed", "deleted"},
         mail' = [mail EXCEPT ![x][k] = status]
  PROVE  /\ mail' \in [Senders -> MailRows] /\ mail'[x][k] = status
         /\ \A j \in Receivers \ {k} : mail'[x][j] = mail[x][j]
         /\ \A y \in Senders \ {x} : mail'[y] = mail[y]
  BY MailTyping DEF MailRows

\* Steps that touch no row of the contact form.
LEMMA FormStays ==
  ASSUME MailInv, UNCHANGED <<submission, crowded>>,
         \A c \in Submissions : mailPc'[c] = "store" => mailPc[c] = "store"
  PROVE  OneAtATime'
  BY DEF MailInv, OneAtATime, Busy

LEMMA RecordsStay ==
  ASSUME MailInv, NEW x \in Senders, OnlyMoves(x), UNCHANGED <<submission, notice>>,
         delivered[x] \subseteq delivered'[x], delivered'[x] \subseteq Receivers,
         mailPc[x] # "new",
         x \in Submissions /\ (\/ mailPc'[x] \in {"queue", "smtp", "sent", "failed", "sentAll"}
                               \/ delivered'[x] # delivered[x]) =>
           mailPc[x] \in {"queue", "smtp", "sent", "failed", "sentAll"}
  PROVE  OnRecord'
  <1>1. ASSUME NEW c \in Submissions
        PROVE  /\ mailPc'[c] \in {"queue", "smtp", "sent", "failed", "sentAll"} =>
                    submission[c].stored
               /\ delivered'[c] # {} => submission[c].stored
               /\ submission[c].emailSent => delivered'[c] = Receivers
    <2>1. CASE c = x
      BY <2>1 DEF MailInv, OnRecord
    <2>2. CASE c # x
      <3>1. mailPc'[c] = mailPc[c] /\ delivered'[c] = delivered[c]
        BY <2>2 DEF OnlyMoves, Senders
      <3>2. QED BY <3>1 DEF MailInv, OnRecord
    <2>3. QED BY <2>1, <2>2
  <1>2. ASSUME NEW n \in Notices, mailPc'[n] # "new" \/ delivered'[n] # {}
        PROVE  notice[n] # "none"
    <2>1. CASE n = x
      BY <2>1 DEF MailInv, OnRecord
    <2>2. CASE n # x
      <3>1. mailPc'[n] = mailPc[n] /\ delivered'[n] = delivered[n]
        BY <2>2 DEF OnlyMoves, Senders
      <3>2. QED BY <1>2, <3>1 DEF MailInv, OnRecord
    <2>3. QED BY <2>1, <2>2
  <1>3. QED BY <1>1, <1>2 DEF OnRecord

\* A step of x on its mail: what has to be shown of x alone.
LEMMA MailMoves ==
  ASSUME MailInv, NEW x \in Senders, OnlyMoves(x), UNCHANGED <<submission, notice, crowded>>,
         mail' \in [Senders -> MailRows], mailPc' \in [Senders -> MailSteps],
         mailTo' \in [Senders -> Receivers], delivered' \in [Senders -> SUBSET Receivers],
         unsure \subseteq unsure', unsure' \subseteq Senders \X Receivers,
         delivered[x] \subseteq delivered'[x], mailPc[x] # "new", mailPc'[x] # "store",
         x \in Submissions /\ (\/ mailPc'[x] \in {"queue", "smtp", "sent", "failed", "sentAll"}
                               \/ delivered'[x] # delivered[x]) =>
           mailPc[x] \in {"queue", "smtp", "sent", "failed", "sentAll"},
         AtMail(x, mailTo[x])', InTurn(x)', \A k \in Receivers : RowTrue(x, k)'
  PROVE  MailInv'
  <1>1. MailTypeOK'
    BY DEF MailInv, MailTypeOK, MailRows, MailSteps
  <1>2. \A y \in Senders : /\ AtMail(y, mailTo[y])' /\ InTurn(y)'
                           /\ \A k \in Receivers : RowTrue(y, k)'
    BY OthersStay
  <1>3. OnRecord'
    BY RecordsStay
  <1>4. OneAtATime'
    BY FormStays DEF OnlyMoves, Senders
  <1>5. QED BY <1>1, <1>2, <1>3, <1>4 DEF MailInv

LEMMA PrepareMailKeeps ==
  ASSUME MailInv, NEW n \in Notices, PrepareMail(n)
  PROVE  MailInv'
  <1>1. PICK next \in {"queue", "done"} : MailGoto(n, next)
    BY DEF PrepareMail
  <1>2. /\ mailPc[n] = "prepare"
        /\ UNCHANGED <<mail, submission, notice, delivered, unsure, crowded>>
    BY DEF PrepareMail
  <1>3. n \in Senders /\ n \notin Submissions
    BY MailTyping DEF MailInv
  <1>4. /\ mailPc'[n] = next /\ mailTo' = mailTo /\ OnlyMoves(n)
        /\ mailPc' \in [Senders -> MailSteps]
    BY <1>1, <1>2, <1>3, GotoMoves DEF MailInv, MailSteps, OnlyMoves
  <1>5. PICK k \in Receivers : k = mailTo[n] /\ k = mailTo'[n]
    BY <1>3, <1>4, MailTyping DEF MailInv
  <1>6. AtMail(n, k) /\ InTurn(n)
    BY <1>3, <1>5 DEF MailInv
  <1>7. AtMail(n, mailTo[n])'
    BY <1>2, <1>4, <1>5, <1>6 DEF AtMail
  <1>8. InTurn(n)'
    BY <1>2, <1>4, <1>6 DEF InTurn
  <1>9. ASSUME NEW j \in Receivers PROVE RowTrue(n, j)'
    <2>1. RowTrue(n, j)
      BY <1>3 DEF MailInv
    <2>2. n \notin Settled
      BY <1>2 DEF Settled
    <2>3. QED BY <1>2, <1>4, <2>1, <2>2 DEF RowTrue
  <1>10. QED
    BY <1>2, <1>3, <1>4, <1>7, <1>8, <1>9, MailMoves, MailTyping DEF MailInv

LEMMA QueueMailKeeps ==
  ASSUME MailInv, NEW x \in Senders, QueueMail(x)
  PROVE  MailInv'
  <1>1. PICK k \in Receivers : k = mailTo[x]
    BY MailTyping DEF MailInv
  <1>2. /\ mailPc[x] = "queue" /\ mail' = [mail EXCEPT ![x][k] = "queued"]
        /\ MailGoto(x, "smtp") /\ UNCHANGED <<submission, notice, delivered, unsure, crowded>>
    BY <1>1 DEF QueueMail
  <1>3. /\ mailPc'[x] = "smtp" /\ mailTo' = mailTo /\ mailPc' \in [Senders -> MailSteps]
        /\ \A y \in Senders \ {x} : mailPc'[y] = mailPc[y] /\ mailTo'[y] = mailTo[y]
    BY <1>2, GotoMoves DEF MailInv, MailSteps
  <1>4. /\ mail' \in [Senders -> MailRows] /\ mail'[x][k] = "queued"
        /\ \A j \in Receivers \ {k} : mail'[x][j] = mail[x][j]
        /\ \A y \in Senders \ {x} : mail'[y] = mail[y]
    BY <1>2, RowGets DEF MailInv
  <1>5. AtMail(x, k) /\ InTurn(x) /\ \A j \in Receivers : RowTrue(x, j)
    BY <1>1 DEF MailInv
  <1>6. AtMail(x, mailTo[x])'
    BY <1>1, <1>2, <1>3, <1>4, <1>5 DEF AtMail
  <1>7. InTurn(x)'
    BY <1>1, <1>2, <1>3, <1>4, <1>5 DEF InTurn, Receivers
  <1>8. ASSUME NEW j \in Receivers PROVE RowTrue(x, j)'
    <2>1. x \notin Settled
      BY <1>2 DEF Settled
    <2>2. CASE j = k
      BY <1>1, <1>3, <1>4, <2>2 DEF RowTrue
    <2>3. CASE j # k
      BY <1>1, <1>2, <1>3, <1>4, <1>5, <2>1, <2>3 DEF RowTrue
    <2>4. QED BY <2>2, <2>3
  <1>9. OnlyMoves(x)
    BY <1>2, <1>3, <1>4 DEF OnlyMoves
  <1>10. QED
    BY <1>2, <1>3, <1>4, <1>6, <1>7, <1>8, <1>9, MailMoves, MailTyping DEF MailInv

LEMMA SendMailKeeps ==
  ASSUME MailInv, NEW x \in Senders, SendMail(x)
  PROVE  MailInv'
  <1>1. PICK k \in Receivers : k = mailTo[x]
    BY MailTyping DEF MailInv
  <1>2. PICK taken \in BOOLEAN, answered \in BOOLEAN :
          /\ delivered' = IF taken THEN [delivered EXCEPT ![x] = @ \cup {k}] ELSE delivered
          /\ unsure' = IF taken /\ ~answered THEN unsure \cup {<<x, k>>} ELSE unsure
          /\ MailGoto(x, IF taken /\ answered THEN "sent" ELSE "failed")
    BY <1>1 DEF SendMail
  <1>3. /\ mailPc[x] = "smtp" /\ UNCHANGED <<mail, submission, notice, crowded>>
    BY DEF SendMail
  <1>4. /\ mailPc'[x] = (IF taken /\ answered THEN "sent" ELSE "failed")
        /\ mailTo' = mailTo /\ mailPc' \in [Senders -> MailSteps]
        /\ \A y \in Senders \ {x} : mailPc'[y] = mailPc[y] /\ mailTo'[y] = mailTo[y]
    BY <1>2, GotoMoves DEF MailInv, MailSteps
  <1>5. delivered \in [Senders -> SUBSET Receivers]
    BY MailTyping DEF MailInv
  <1>6. /\ delivered' \in [Senders -> SUBSET Receivers]
        /\ delivered'[x] = IF taken THEN delivered[x] \cup {k} ELSE delivered[x]
        /\ \A y \in Senders \ {x} : delivered'[y] = delivered[y]
    BY <1>2, <1>5
  <1>7. AtMail(x, k) /\ InTurn(x) /\ \A j \in Receivers : RowTrue(x, j)
    BY <1>1 DEF MailInv
  <1>8. unsure \subseteq unsure' /\ unsure' \subseteq Senders \X Receivers
    BY <1>2, MailTyping DEF MailInv
  <1>9. mail[x][k] = "queued" /\ k \notin delivered[x]
    BY <1>3, <1>7 DEF AtMail
  <1>10. AtMail(x, mailTo[x])'
    BY <1>1, <1>2, <1>3, <1>4, <1>6, <1>9 DEF AtMail
  <1>11. InTurn(x)'
    BY <1>1, <1>3, <1>4, <1>6, <1>7 DEF InTurn, Receivers
  <1>12. ASSUME NEW j \in Receivers PROVE RowTrue(x, j)'
    <2>1. CASE j = k
      BY <1>1, <1>3, <1>4, <1>9, <2>1 DEF RowTrue
    <2>2. CASE j # k
      <3>1. x \notin Settled
        BY <1>3 DEF Settled
      <3>2. j \in delivered'[x] <=> j \in delivered[x]
        BY <1>6, <2>2
      <3>3. mail[x][j] # "queued" \/ <<x, j>> \in unsure
        BY <1>1, <1>7, <2>2 DEF RowTrue
      <3>4. QED BY <1>3, <1>7, <1>8, <3>1, <3>2, <3>3 DEF RowTrue
    <2>3. QED BY <2>1, <2>2
  <1>13. OnlyMoves(x)
    BY <1>3, <1>4, <1>6 DEF OnlyMoves
  <1>14. QED
    BY <1>3, <1>4, <1>6, <1>8, <1>10, <1>11, <1>12, <1>13, MailMoves, MailTyping DEF MailInv

LEMMA MarkSentKeeps ==
  ASSUME MailInv, NEW x \in Senders, MarkSent(x)
  PROVE  MailInv'
  <1>1. PICK k \in Receivers : k = mailTo[x]
    BY MailTyping DEF MailInv
  <1>2. mailPc[x] = "sent" /\ UNCHANGED <<submission, notice, delivered, crowded>>
    BY DEF MarkSent
  <1>3. AtMail(x, k) /\ InTurn(x) /\ \A j \in Receivers : RowTrue(x, j)
    BY <1>1 DEF MailInv
  <1>4. mail[x][k] = "queued" /\ k \in delivered[x]
    BY <1>2, <1>3 DEF AtMail
  <1>5. /\ mail \in [Senders -> MailRows] /\ mailPc \in [Senders -> MailSteps]
        /\ mailTo \in [Senders -> Receivers] /\ delivered \in [Senders -> SUBSET Receivers]
        /\ unsure \subseteq Senders \X Receivers /\ Submissions \cap Notices = {}
    BY MailTyping DEF MailInv
  <1>6. x \notin Settled
    BY <1>2 DEF Settled
  <1>7. CASE mail' = [mail EXCEPT ![x][k] = "sent"] /\ Continue(x) /\ UNCHANGED unsure
    <2>1. /\ mail' \in [Senders -> MailRows] /\ mail'[x][k] = "sent"
          /\ \A j \in Receivers \ {k} : mail'[x][j] = mail[x][j]
          /\ \A y \in Senders \ {x} : mail'[y] = mail[y]
      BY <1>7, RowGets DEF MailInv
    <2>2. /\ mailTo' \in [Senders -> Receivers] /\ mailTo'[x] = "user"
          /\ mailPc' \in [Senders -> MailSteps]
          /\ mailPc'[x] = IF x \in Notices THEN "done"
                          ELSE IF k = "admin" THEN "queue" ELSE "sentAll"
          /\ \A y \in Senders \ {x} : mailPc'[y] = mailPc[y] /\ mailTo'[y] = mailTo[y]
      BY <1>1, <1>5, <1>7 DEF Continue, Receivers, MailSteps
    <2>3. k = "admin" => mail'[x]["user"] = "none" /\ "user" \notin delivered[x]
      BY <1>1, <1>3, <2>1 DEF InTurn, Receivers
    <2>4. AtMail(x, mailTo[x])'
      BY <1>2, <2>2, <2>3 DEF AtMail
    <2>5. InTurn(x)'
      <3>1. x \in Submissions => "admin" \in delivered[x]
        BY <1>1, <1>3, <1>4 DEF InTurn, Receivers
      <3>2. mailPc'[x] = "sentAll" => "user" \in delivered[x] /\ x \in Submissions
        BY <1>4, <2>2 DEF Receivers, Senders
      <3>3. mailPc'[x] = "sentAll" => delivered[x] = Receivers
        BY <1>5, <3>1, <3>2 DEF Receivers
      <3>4. QED BY <1>2, <2>2, <3>1, <3>3 DEF InTurn
    <2>6. ASSUME NEW j \in Receivers PROVE RowTrue(x, j)'
      <3>1. CASE j = k
        BY <1>2, <1>4, <2>1, <3>1 DEF RowTrue
      <3>2. CASE j # k
        BY <1>1, <1>2, <1>3, <1>6, <1>7, <2>1, <3>2 DEF RowTrue
      <3>3. QED BY <3>1, <3>2
    <2>7. OnlyMoves(x)
      BY <1>2, <2>1, <2>2 DEF OnlyMoves
    <2>8. mailPc'[x] # "store"
      BY <2>2
    <2>9. QED
      BY <1>2, <1>5, <1>7, <2>1, <2>2, <2>4, <2>5, <2>6, <2>7, <2>8, MailMoves
  <1>8. CASE unsure' = unsure \cup {<<x, k>>} /\ MailGoto(x, "failed") /\ UNCHANGED mail
    <2>1. /\ mailPc'[x] = "failed" /\ mailTo' = mailTo /\ mailPc' \in [Senders -> MailSteps]
          /\ \A y \in Senders \ {x} : mailPc'[y] = mailPc[y] /\ mailTo'[y] = mailTo[y]
      BY <1>8, GotoMoves DEF MailInv, MailSteps
    <2>2. AtMail(x, mailTo[x])'
      BY <1>1, <1>2, <1>4, <1>8, <2>1 DEF AtMail
    <2>3. InTurn(x)'
      BY <1>2, <1>3, <1>8, <2>1 DEF InTurn
    <2>4. \A j \in Receivers : RowTrue(x, j)'
      BY <1>1, <1>2, <1>3, <1>6, <1>8, <2>1 DEF RowTrue
    <2>5. OnlyMoves(x)
      BY <1>2, <1>8, <2>1 DEF OnlyMoves
    <2>6. unsure \subseteq unsure' /\ unsure' \subseteq Senders \X Receivers
      BY <1>5, <1>8
    <2>7. QED
      BY <1>2, <1>5, <1>8, <2>1, <2>2, <2>3, <2>4, <2>5, <2>6, MailMoves
  <1>9. QED BY <1>1, <1>7, <1>8 DEF MarkSent

LEMMA MarkFailedKeeps ==
  ASSUME MailInv, NEW x \in Senders, MarkFailed(x)
  PROVE  MailInv'
  <1>1. PICK k \in Receivers : k = mailTo[x]
    BY MailTyping DEF MailInv
  <1>2. /\ mailPc[x] = "failed" /\ UNCHANGED <<submission, notice, delivered, crowded>>
        /\ MailGoto(x, "done")
        /\ \/ mail' = [mail EXCEPT ![x][k] = "failed"] /\ UNCHANGED unsure
           \/ unsure' = unsure \cup {<<x, k>>} /\ UNCHANGED mail
    BY <1>1 DEF MarkFailed
  <1>3. AtMail(x, k) /\ InTurn(x) /\ \A j \in Receivers : RowTrue(x, j)
    BY <1>1 DEF MailInv
  <1>4. mail[x][k] = "queued" /\ (k \in delivered[x] => <<x, k>> \in unsure)
    BY <1>2, <1>3 DEF AtMail
  <1>5. /\ mail \in [Senders -> MailRows] /\ mailTo \in [Senders -> Receivers]
        /\ delivered \in [Senders -> SUBSET Receivers] /\ unsure \subseteq Senders \X Receivers
    BY MailTyping DEF MailInv
  <1>6. /\ mailPc'[x] = "done" /\ mailTo' = mailTo /\ mailPc' \in [Senders -> MailSteps]
        /\ \A y \in Senders \ {x} : mailPc'[y] = mailPc[y] /\ mailTo'[y] = mailTo[y]
    BY <1>2, GotoMoves DEF MailInv, MailSteps
  <1>7. /\ mail' \in [Senders -> MailRows]
        /\ mail'[x][k] = "failed" \/ <<x, k>> \in unsure'
        /\ \A j \in Receivers \ {k} : mail'[x][j] = mail[x][j]
        /\ \A y \in Senders \ {x} : mail'[y] = mail[y]
    <2>1. CASE mail' = [mail EXCEPT ![x][k] = "failed"]
      BY <2>1, RowGets DEF MailInv
    <2>2. CASE unsure' = unsure \cup {<<x, k>>} /\ UNCHANGED mail
      BY <1>5, <2>2
    <2>3. QED BY <1>2, <2>1, <2>2
  <1>8. unsure \subseteq unsure' /\ unsure' \subseteq Senders \X Receivers
    BY <1>2, <1>5
  <1>9. x \notin Settled
    BY <1>2 DEF Settled
  <1>10. AtMail(x, mailTo[x])'
    BY <1>6 DEF AtMail
  <1>11. InTurn(x)'
    BY <1>1, <1>2, <1>3, <1>6, <1>7 DEF InTurn, Receivers
  <1>12. ASSUME NEW j \in Receivers PROVE RowTrue(x, j)'
    <2>1. CASE j = k
      BY <1>2, <1>4, <1>7, <1>8, <2>1 DEF RowTrue
    <2>2. CASE j # k
      BY <1>1, <1>2, <1>3, <1>7, <1>8, <1>9, <2>2 DEF RowTrue
    <2>3. QED BY <2>1, <2>2
  <1>13. OnlyMoves(x)
    BY <1>2, <1>6, <1>7 DEF OnlyMoves
  <1>14. QED
    BY <1>2, <1>5, <1>6, <1>7, <1>8, <1>10, <1>11, <1>12, <1>13, MailMoves

LEMMA MailAbortKeeps ==
  ASSUME MailInv, NEW x \in Senders, MailAbort(x)
  PROVE  MailInv'
  <1>1. PICK k \in Receivers : k = mailTo[x]
    BY MailTyping DEF MailInv
  <1>2. /\ mailPc[x] \notin {"new", "done"} /\ MailGoto(x, "done")
        /\ UNCHANGED <<mail, submission, notice, delivered, crowded>>
        /\ unsure' = IF mailPc[x] \in {"smtp", "sent", "failed"} THEN unsure \cup {<<x, k>>}
                     ELSE unsure
    BY <1>1 DEF MailAbort
  <1>3. InTurn(x) /\ \A j \in Receivers : RowTrue(x, j)
    BY DEF MailInv
  <1>4. /\ mailPc'[x] = "done" /\ mailTo' = mailTo /\ mailPc' \in [Senders -> MailSteps]
        /\ \A y \in Senders \ {x} : mailPc'[y] = mailPc[y] /\ mailTo'[y] = mailTo[y]
    BY <1>2, GotoMoves DEF MailInv, MailSteps
  <1>5. unsure \subseteq unsure' /\ unsure' \subseteq Senders \X Receivers
    BY <1>2, MailTyping DEF MailInv
  <1>6. x \notin Settled
    BY <1>2 DEF Settled
  <1>7. AtMail(x, mailTo[x])'
    BY <1>4 DEF AtMail
  <1>8. InTurn(x)'
    BY <1>2, <1>3, <1>4 DEF InTurn
  <1>9. \A j \in Receivers : RowTrue(x, j)'
    BY <1>1, <1>2, <1>3, <1>4, <1>5, <1>6 DEF RowTrue
  <1>10. OnlyMoves(x)
    BY <1>2, <1>4 DEF OnlyMoves
  <1>11. QED
    BY <1>2, <1>4, <1>5, <1>7, <1>8, <1>9, <1>10, MailMoves, MailTyping DEF MailInv

\* A step of x that is about no mail.
LEMMA RecordMoves ==
  ASSUME MailInv, NEW x \in Senders, UNCHANGED <<mail, mailTo, delivered, unsure>>,
         \A y \in Senders \ {x} : mailPc'[y] = mailPc[y],
         \A c \in Submissions \ {x} : submission'[c] = submission[c],
         \/ /\ mailPc[x] \in {"new", "store", "prepare", "queue"}
            /\ mailPc'[x] \in {"store", "prepare", "queue"}
         \/ mailPc[x] = "sentAll" /\ mailPc'[x] = "done"
         \/ mailPc'[x] = mailPc[x] /\ (x \in Settled => x \in Settled')
  PROVE  \A y \in Senders : /\ AtMail(y, mailTo[y])' /\ InTurn(y)'
                            /\ \A k \in Receivers : RowTrue(y, k)'
  <1>1. OnlyMoves(x)
    BY DEF OnlyMoves
  <1>2. PICK k \in Receivers : k = mailTo[x] /\ k = mailTo'[x]
    BY MailTyping DEF MailInv
  <1>3. AtMail(x, k) /\ InTurn(x) /\ \A j \in Receivers : RowTrue(x, j)
    BY <1>2 DEF MailInv
  <1>4. AtMail(x, mailTo[x])'
    BY <1>2, <1>3 DEF AtMail
  <1>5. InTurn(x)'
    BY <1>3 DEF InTurn
  <1>6. ASSUME NEW j \in Receivers PROVE RowTrue(x, j)'
    <2>1. mailPc[x] \in {"new", "store", "prepare", "queue", "sentAll"} => x \notin Settled
      BY DEF Settled
    <2>2. x \in Settled => x \in Settled'
      BY <2>1
    <2>3. mailPc[x] \in {"smtp", "sent", "failed"} => mailPc'[x] = mailPc[x]
      OBVIOUS
    <2>4. QED BY <1>2, <1>3, <2>2, <2>3 DEF RowTrue, AtMail
  <1>7. QED BY <1>1, <1>4, <1>5, <1>6, OthersStay

LEMMA CheckRecentKeeps ==
  ASSUME MailInv, NEW c \in Submissions, NEW v \in Visitors, CheckRecent(c, v)
  PROVE  MailInv'
  <1>1. /\ mailPc[c] = "new" /\ RecentOf(v) = {} /\ MailGoto(c, "store")
        /\ submission' = [submission EXCEPT ![c].visitor = v]
        /\ crowded' = IF Submitting(v) # {} THEN crowded \cup {v} ELSE crowded
        /\ UNCHANGED <<mail, notice, delivered, unsure>>
    BY DEF CheckRecent
  <1>2. c \in Senders /\ c \notin Notices /\ submission \in [Submissions -> SubmissionRows]
    BY MailTyping DEF MailInv
  <1>3. /\ mailPc'[c] = "store" /\ mailTo' = mailTo /\ mailPc' \in [Senders -> MailSteps]
        /\ \A y \in Senders \ {c} : mailPc'[y] = mailPc[y]
    BY <1>1, <1>2, GotoMoves DEF MailInv, MailSteps
  <1>4. /\ submission' \in [Submissions -> SubmissionRows] /\ submission'[c].visitor = v
        /\ submission'[c].stored = submission[c].stored
        /\ submission'[c].emailSent = submission[c].emailSent
        /\ \A d \in Submissions \ {c} : submission'[d] = submission[d]
    BY <1>1, <1>2 DEF SubmissionRows
  <1>5. crowded' \subseteq Visitors /\ crowded \subseteq crowded'
    BY <1>1, MailTyping DEF MailInv
  <1>6. MailTypeOK'
    BY <1>1, <1>3, <1>4, <1>5 DEF MailInv, MailTypeOK, MailSteps, SubmissionRows
  <1>7. \A y \in Senders : /\ AtMail(y, mailTo[y])' /\ InTurn(y)'
                           /\ \A k \in Receivers : RowTrue(y, k)'
    BY <1>1, <1>2, <1>3, <1>4, RecordMoves
  <1>8. OnRecord'
    BY <1>1, <1>2, <1>3, <1>4 DEF MailInv, OnRecord, Senders
  <1>9. OneAtATime'
    <2>1. ASSUME NEW u \in Visitors, u \notin crowded', NEW d \in Busy(u)', NEW e \in Busy(u)'
          PROVE  d = e
      <3>1. u \notin crowded /\ \A f, g \in Busy(u) : f = g
        BY <1>5, <2>1 DEF MailInv, OneAtATime
      <3>2. \A f \in Busy(u)' : f = c \/ f \in Busy(u)
        BY <1>3, <1>4 DEF Busy, Senders
      <3>3. CASE u # v
        <4>1. c \notin Busy(u)'
          BY <1>4, <3>3 DEF Busy
        <4>2. QED BY <2>1, <3>1, <3>2, <4>1
      <3>4. CASE u = v
        <4>1. Submitting(v) = {}
          BY <1>1, <2>1, <3>4
        <4>2. Busy(v) = {}
          BY <1>1, <4>1 DEF Busy, Submitting, RecentOf
        <4>3. QED BY <2>1, <3>2, <3>4, <4>2
      <3>5. QED BY <3>3, <3>4
    <2>2. QED BY <2>1 DEF OneAtATime
  <1>10. QED BY <1>6, <1>7, <1>8, <1>9 DEF MailInv

LEMMA StoreSubmissionKeeps ==
  ASSUME MailInv, NEW c \in Submissions, StoreSubmission(c)
  PROVE  MailInv'
  <1>1. /\ mailPc[c] = "store" /\ MailGoto(c, "queue")
        /\ submission' = [submission EXCEPT ![c].stored = TRUE, ![c].recent = TRUE]
        /\ UNCHANGED <<mail, notice, delivered, unsure, crowded>>
    BY DEF StoreSubmission
  <1>2. c \in Senders /\ c \notin Notices /\ submission \in [Submissions -> SubmissionRows]
    BY MailTyping DEF MailInv
  <1>3. /\ mailPc'[c] = "queue" /\ mailTo' = mailTo /\ mailPc' \in [Senders -> MailSteps]
        /\ \A y \in Senders \ {c} : mailPc'[y] = mailPc[y]
    BY <1>1, <1>2, GotoMoves DEF MailInv, MailSteps
  <1>4. /\ submission' \in [Submissions -> SubmissionRows] /\ submission'[c].stored
        /\ submission'[c].visitor = submission[c].visitor
        /\ submission'[c].emailSent = submission[c].emailSent
        /\ \A d \in Submissions \ {c} : submission'[d] = submission[d]
    BY <1>1, <1>2 DEF SubmissionRows
  <1>5. MailTypeOK'
    BY <1>1, <1>3, <1>4 DEF MailInv, MailTypeOK, MailSteps, SubmissionRows
  <1>6. \A y \in Senders : /\ AtMail(y, mailTo[y])' /\ InTurn(y)'
                           /\ \A k \in Receivers : RowTrue(y, k)'
    BY <1>1, <1>2, <1>3, <1>4, RecordMoves
  <1>7. OnRecord'
    BY <1>1, <1>2, <1>3, <1>4 DEF MailInv, OnRecord, Senders
  <1>8. OneAtATime'
    <2>1. \A v \in Visitors : \A d \in Busy(v)' : d \in Busy(v)
      BY <1>1, <1>3, <1>4 DEF Busy, Senders
    <2>2. QED BY <1>1, <2>1 DEF MailInv, OneAtATime
  <1>9. QED BY <1>5, <1>6, <1>7, <1>8 DEF MailInv

LEMMA TenMinutesPassKeeps ==
  ASSUME MailInv, NEW c \in Submissions, TenMinutesPass(c)
  PROVE  MailInv'
  <1>1. /\ submission' = [submission EXCEPT ![c].recent = FALSE]
        /\ UNCHANGED <<mail, mailPc, mailTo, notice, delivered, unsure, crowded>>
    BY DEF TenMinutesPass
  <1>2. c \in Senders /\ submission \in [Submissions -> SubmissionRows]
    BY MailTyping DEF MailInv
  <1>3. /\ submission' \in [Submissions -> SubmissionRows] /\ ~submission'[c].recent
        /\ submission'[c].stored = submission[c].stored
        /\ submission'[c].visitor = submission[c].visitor
        /\ submission'[c].emailSent = submission[c].emailSent
        /\ \A d \in Submissions \ {c} : submission'[d] = submission[d]
    BY <1>1, <1>2 DEF SubmissionRows
  <1>4. MailTypeOK'
    BY <1>1, <1>3 DEF MailInv, MailTypeOK, SubmissionRows
  <1>5. c \in Settled => c \in Settled'
    BY <1>1, <1>3 DEF Settled
  <1>6. \A y \in Senders : /\ AtMail(y, mailTo[y])' /\ InTurn(y)'
                           /\ \A k \in Receivers : RowTrue(y, k)'
    BY <1>1, <1>2, <1>3, <1>5, RecordMoves
  <1>7. OnRecord'
    BY <1>1, <1>3 DEF MailInv, OnRecord
  <1>8. OneAtATime'
    <2>1. \A v \in Visitors : \A d \in Busy(v)' : d \in Busy(v)
      BY <1>1, <1>3 DEF Busy
    <2>2. QED BY <1>1, <2>1 DEF MailInv, OneAtATime
  <1>9. QED BY <1>4, <1>6, <1>7, <1>8 DEF MailInv

LEMMA MarkEmailSentKeeps ==
  ASSUME MailInv, NEW c \in Submissions, MarkEmailSent(c)
  PROVE  MailInv'
  <1>1. /\ mailPc[c] = "sentAll" /\ MailGoto(c, "done")
        /\ submission' = [submission EXCEPT ![c].emailSent = TRUE]
        /\ UNCHANGED <<mail, notice, delivered, unsure, crowded>>
    BY DEF MarkEmailSent
  <1>2. c \in Senders /\ c \notin Notices /\ submission \in [Submissions -> SubmissionRows]
    BY MailTyping DEF MailInv
  <1>3. /\ mailPc'[c] = "done" /\ mailTo' = mailTo /\ mailPc' \in [Senders -> MailSteps]
        /\ \A y \in Senders \ {c} : mailPc'[y] = mailPc[y]
    BY <1>1, <1>2, GotoMoves DEF MailInv, MailSteps
  <1>4. /\ submission' \in [Submissions -> SubmissionRows]
        /\ submission'[c].stored = submission[c].stored
        /\ submission'[c].recent = submission[c].recent
        /\ submission'[c].visitor = submission[c].visitor
        /\ \A d \in Submissions \ {c} : submission'[d] = submission[d]
    BY <1>1, <1>2 DEF SubmissionRows
  <1>5. MailTypeOK'
    BY <1>1, <1>3, <1>4 DEF MailInv, MailTypeOK, MailSteps, SubmissionRows
  <1>6. \A y \in Senders : /\ AtMail(y, mailTo[y])' /\ InTurn(y)'
                           /\ \A k \in Receivers : RowTrue(y, k)'
    BY <1>1, <1>2, <1>3, <1>4, RecordMoves
  <1>7. delivered[c] = Receivers
    BY <1>1, <1>2 DEF MailInv, InTurn
  <1>8. OnRecord'
    BY <1>1, <1>2, <1>3, <1>4, <1>7 DEF MailInv, OnRecord, Senders
  <1>9. OneAtATime'
    <2>1. \A v \in Visitors : \A d \in Busy(v)' : d \in Busy(v)
      BY <1>1, <1>3, <1>4 DEF Busy, Senders
    <2>2. QED BY <1>1, <2>1 DEF MailInv, OneAtATime
  <1>10. QED BY <1>5, <1>6, <1>8, <1>9 DEF MailInv

LEMMA StoreNoticeKeeps ==
  ASSUME MailInv, NEW n \in Notices, StoreNotice(n)
  PROVE  MailInv'
  <1>1. /\ mailPc[n] = "new" /\ MailGoto(n, "prepare")
        /\ notice' = [notice EXCEPT ![n] = "unread"]
        /\ UNCHANGED <<mail, submission, delivered, unsure, crowded>>
    BY DEF StoreNotice
  <1>2. /\ n \in Senders /\ n \notin Submissions
        /\ notice \in [Notices -> {"none", "unread", "read", "deleted"}]
    BY MailTyping DEF MailInv
  <1>3. /\ mailPc'[n] = "prepare" /\ mailTo' = mailTo /\ mailPc' \in [Senders -> MailSteps]
        /\ \A y \in Senders \ {n} : mailPc'[y] = mailPc[y]
    BY <1>1, <1>2, GotoMoves DEF MailInv, MailSteps
  <1>4. MailTypeOK'
    BY <1>1, <1>2, <1>3 DEF MailInv, MailTypeOK, MailSteps
  <1>5. \A y \in Senders : /\ AtMail(y, mailTo[y])' /\ InTurn(y)'
                           /\ \A k \in Receivers : RowTrue(y, k)'
    BY <1>1, <1>2, <1>3, RecordMoves
  <1>6. OnRecord'
    BY <1>1, <1>2, <1>3 DEF MailInv, OnRecord, Senders
  <1>7. OneAtATime'
    BY <1>1, <1>2, <1>3, FormStays DEF Senders
  <1>8. QED BY <1>4, <1>5, <1>6, <1>7 DEF MailInv

\* What a user does with a notification makes none appear or vanish.
LEMMA NoticeKeeps ==
  ASSUME MailInv, (\E n \in Notices : MarkRead(n) \/ DeleteNotice(n)) \/ MarkAllRead
  PROVE  MailInv'
  <1>1. UNCHANGED <<mail, mailPc, mailTo, submission, delivered, unsure, crowded>>
    BY DEF MarkRead, DeleteNotice, MarkAllRead
  <1>2. notice \in [Notices -> {"none", "unread", "read", "deleted"}]
    BY MailTyping DEF MailInv
  <1>3. /\ notice' \in [Notices -> {"none", "unread", "read", "deleted"}]
        /\ \A n \in Notices : notice[n] # "none" => notice'[n] # "none"
    BY <1>2 DEF MarkRead, DeleteNotice, MarkAllRead
  <1>4. MailTypeOK'
    BY <1>1, <1>3 DEF MailInv, MailTypeOK
  <1>5. \A x \in Senders : AtMail(x, mailTo[x])' /\ InTurn(x)'
    BY <1>1 DEF MailInv, AtMail, InTurn
  <1>6. \A x \in Senders, k \in Receivers : RowTrue(x, k)'
    <2>1. TAKE x \in Senders, k \in Receivers
    <2>2. RowTrue(x, k)
      BY DEF MailInv
    <2>3. Settled' = Settled
      BY <1>1 DEF Settled
    <2>4. QED BY <1>1, <2>2, <2>3 DEF RowTrue
  <1>7. OnRecord'
    BY <1>1, <1>3 DEF MailInv, OnRecord
  <1>8. OneAtATime'
    BY <1>1 DEF MailInv, OneAtATime, Busy
  <1>9. QED BY <1>4, <1>5, <1>6, <1>7, <1>8 DEF MailInv

LEMMA DeleteRowsKeeps ==
  ASSUME MailInv, NEW old \in SUBSET Settled, NEW statuses \in SUBSET {"sent", "failed"},
         DeleteRows(old, statuses)
  PROVE  MailInv'
  <1>1. /\ UNCHANGED <<mailPc, mailTo, submission, notice, delivered, unsure, crowded>>
        /\ mail' = [x \in Senders |-> [k \in Receivers |->
              IF x \in old /\ mail[x][k] \in statuses THEN "deleted" ELSE mail[x][k]]]
    BY DEF DeleteRows
  <1>2. mail \in [Senders -> MailRows] /\ mailTo \in [Senders -> Receivers]
    BY MailTyping DEF MailInv
  <1>3. ASSUME NEW x \in Senders, NEW k \in Receivers
        PROVE  \/ mail'[x][k] = mail[x][k]
               \/ /\ mail'[x][k] = "deleted" /\ x \in Settled
                  /\ mail[x][k] \in {"sent", "failed"}
    BY <1>1
  <1>4. mail' \in [Senders -> MailRows]
    BY <1>1, <1>2 DEF MailRows
  <1>5. MailTypeOK'
    BY <1>1, <1>4 DEF MailInv, MailTypeOK, MailRows
  <1>6. ASSUME NEW x \in Senders, NEW k \in Receivers PROVE RowTrue(x, k)'
    BY <1>1, <1>3 DEF MailInv, RowTrue, Settled
  <1>7. ASSUME NEW x \in Senders PROVE AtMail(x, mailTo[x])' /\ InTurn(x)'
    <2>1. PICK k \in Receivers : k = mailTo[x] /\ k = mailTo'[x]
      BY <1>1, <1>2
    <2>2. AtMail(x, k) /\ InTurn(x)
      BY <2>1 DEF MailInv
    <2>3. AtMail(x, mailTo[x])'
      BY <1>1, <1>3, <2>1, <2>2 DEF AtMail
    <2>4. mail[x]["user"] = "none" => mail'[x]["user"] = "none"
      BY <1>3 DEF Receivers
    <2>5. QED BY <1>1, <2>2, <2>3, <2>4 DEF InTurn
  <1>8. OnRecord' /\ OneAtATime'
    BY <1>1 DEF MailInv, OnRecord, OneAtATime, Busy
  <1>9. QED BY <1>5, <1>6, <1>7, <1>8 DEF MailInv

LEMMA MailAtFirst == MailInit => MailInv
  <1> SUFFICES ASSUME MailInit PROVE MailInv
    OBVIOUS
  <1>1. MailTypeOK
    BY DEF MailInit, MailTypeOK, NoSubmission, Receivers
  <1>2. \A x \in Senders : AtMail(x, mailTo[x]) /\ InTurn(x)
    BY MailAssumption DEF MailInit, AtMail, InTurn, Receivers, Senders
  <1>3. \A x \in Senders, k \in Receivers : RowTrue(x, k)
    BY DEF MailInit, RowTrue
  <1>4. OnRecord /\ OneAtATime
    BY MailAssumption DEF MailInit, OnRecord, OneAtATime, Busy, NoSubmission, Senders
  <1>5. QED BY <1>1, <1>2, <1>3, <1>4 DEF MailInv

LEMMA MailStepKeeps == MailInv /\ [MailNext]_mailVars => MailInv'
  <1> SUFFICES ASSUME MailInv, [MailNext]_mailVars PROVE MailInv'
    OBVIOUS
  <1>1. ASSUME NEW c \in Submissions,
               \/ \E v \in Visitors : CheckRecent(c, v)
               \/ StoreSubmission(c) \/ TenMinutesPass(c) \/ MarkEmailSent(c)
        PROVE  MailInv'
    BY <1>1, CheckRecentKeeps, StoreSubmissionKeeps, TenMinutesPassKeeps, MarkEmailSentKeeps
  <1>2. ASSUME NEW n \in Notices, StoreNotice(n) \/ PrepareMail(n) PROVE MailInv'
    BY <1>2, StoreNoticeKeeps, PrepareMailKeeps
  <1>3. ASSUME (\E n \in Notices : MarkRead(n) \/ DeleteNotice(n)) \/ MarkAllRead
        PROVE  MailInv'
    BY <1>3, NoticeKeeps
  <1>4. ASSUME NEW old \in SUBSET Settled, CleanupOldRecords(old) \/ CleanupFailedRecords(old)
        PROVE  MailInv'
    BY <1>4, DeleteRowsKeeps DEF CleanupOldRecords, CleanupFailedRecords
  <1>5. ASSUME NEW x \in Senders,
               QueueMail(x) \/ SendMail(x) \/ MarkSent(x) \/ MarkFailed(x) \/ MailAbort(x)
        PROVE  MailInv'
    BY <1>5, QueueMailKeeps, SendMailKeeps, MarkSentKeeps, MarkFailedKeeps, MailAbortKeeps
  <1>6. CASE UNCHANGED mailVars
    BY <1>6 DEF MailInv, MailTypeOK, AtMail, InTurn, RowTrue, Settled, OnRecord, OneAtATime,
         Busy, mailVars
  <1>7. QED BY <1>1, <1>2, <1>3, <1>4, <1>5, <1>6 DEF MailNext

LEMMA MailInvHolds == MailSpec => []MailInv
  BY MailAtFirst, MailStepKeeps, PTL DEF MailSpec

\* Mails, submissions, notices and their senders keep their types.
THEOREM MailTypeCorrect == MailSpec => []MailTypeOK
  <1>1. MailInv => MailTypeOK
    BY DEF MailInv
  <1>2. QED BY <1>1, MailInvHolds, PTL

\* A row of the mail queue tells what became of its mail unless an answer or an update
\* was lost, rows are deleted only of settled mails, every mail belongs to a record, the
\* admin's goes before the visitor's, and a visitor has one submission in ten minutes
\* unless two were checked at once (sendEmail, ContactService.submitContactForm).
THEOREM RecordsMatchMails == MailSpec => []MailMatchesRecords
  <1>1. MailInv => QueueTellsTruth
    <2> SUFFICES ASSUME MailInv, NEW x \in Senders, NEW k \in Receivers, <<x, k>> \notin unsure
                 PROVE  CASE mail[x][k] = "sent"   -> k \in delivered[x]
                          [] mail[x][k] = "queued" ->
                               mailTo[x] = k /\ mailPc[x] \in {"smtp", "sent", "failed"}
                          [] mail[x][k] = "deleted" -> x \in Settled
                          [] OTHER                 -> k \notin delivered[x]
      BY DEF QueueTellsTruth
    <2>1. RowTrue(x, k) /\ mail[x][k] \in {"none", "queued", "sent", "failed", "deleted"}
      BY MailTyping DEF MailInv, MailRows
    <2>2. QED BY <2>1 DEF RowTrue
  <1>2. MailInv => MailsBelongToRecords
    <2> SUFFICES ASSUME MailInv PROVE MailsBelongToRecords
      OBVIOUS
    <2>1. ASSUME NEW c \in Submissions, "user" \in delivered[c] PROVE "admin" \in delivered[c]
      <3>1. c \in Senders /\ InTurn(c) /\ mailTo[c] \in Receivers
        BY MailTyping DEF MailInv
      <3>2. QED BY <2>1, <3>1 DEF InTurn, Receivers
    <2>2. ASSUME NEW v \in Visitors, v \notin crowded PROVE Cardinality(RecentOf(v)) <= 1
      <3>1. \A c, d \in RecentOf(v) : c = d
        BY <2>2 DEF MailInv, OneAtATime, Busy, RecentOf
      <3>2. CASE RecentOf(v) = {}
        <4>1. Cardinality(RecentOf(v)) = 0
          BY <3>2, FS_EmptySet
        <4>2. QED BY <4>1
      <3>3. CASE RecentOf(v) # {}
        <4>1. PICK c \in RecentOf(v) : TRUE
          BY <3>3
        <4>2. RecentOf(v) = {c}
          BY <3>1, <4>1
        <4>3. Cardinality(RecentOf(v)) = 1
          BY <4>2, FS_Singleton
        <4>4. QED BY <4>3
      <3>4. QED BY <3>2, <3>3
    <2>3. QED BY <2>1, <2>2 DEF MailInv, OnRecord, MailsBelongToRecords
  <1>3. MailInv => MailMatchesRecords
    BY <1>1, <1>2 DEF MailMatchesRecords
  <1>4. QED BY <1>3, MailInvHolds, PTL
-------------------------------------------------------------------------------
(* What holds of Likes for every number of users and requests. *)

Counts == NoCount .. Cardinality(Fans)
LikeRequests == [fan : Fans \cup {NoFan}, count : Counts, overtaken : BOOLEAN]
LikeSteps == {"idle", "delete", "create", "invalidate", "count", "fill"}

\* The types, and that a toggle knows its user.
Typed ==
  /\ likes \subseteq Fans /\ cached \in Counts
  /\ likePc \in [LikeSlots -> LikeSteps]
  /\ likeReq \in [LikeSlots -> LikeRequests]
  /\ odd \subseteq Fans /\ doubled \subseteq Fans /\ stale \in BOOLEAN
  /\ \A s \in LikeSlots :
       likePc[s] \in {"delete", "create", "invalidate"} => likeReq[s].fan \in Fans

LEMMA TypedIsTypeOK == Typed => LikesTypeOK
  BY DEF Typed, LikesTypeOK, Counts, LikeRequests, LikeSteps

\* The number of likes is between none and one of every user.
LEMMA CountTyped ==
  /\ NoCount \in Counts
  /\ \A users \in SUBSET Fans : Cardinality(users) \in Counts
  <1>1. IsFiniteSet(Fans) /\ Cardinality(Fans) \in Nat
    BY LikesAssumption, FS_CardinalityType
  <1>2. ASSUME NEW users \in SUBSET Fans
        PROVE  Cardinality(users) \in Counts
    <2>1. IsFiniteSet(users) /\ Cardinality(users) <= Cardinality(Fans)
      BY <1>1, FS_Subset
    <2>2. Cardinality(users) \in Nat
      BY <2>1, FS_CardinalityType
    <2>3. QED BY <1>1, <2>1, <2>2 DEF Counts, NoCount
  <1>3. QED BY <1>1, <1>2 DEF Counts, NoCount

LEMMA NothingAskedTyped == NoLikeRequest \in LikeRequests
  BY CountTyped DEF NoLikeRequest, LikeRequests

\* What the requests remember after a change of the likes: a count taken before is
\* overtaken, and nothing else changes.
LEMMA ChangeOvertakes ==
  ASSUME Typed, NEW users, Change(users)
  PROVE  /\ likeReq' \in [LikeSlots -> LikeRequests]
         /\ \A r \in LikeSlots : /\ likeReq'[r].fan = likeReq[r].fan
                                 /\ likeReq'[r].overtaken = (likePc[r] = "fill")
  <1>1. ASSUME NEW r \in LikeSlots
        PROVE  /\ [likeReq[r] EXCEPT !.overtaken = likePc[r] = "fill"] \in LikeRequests
               /\ [likeReq[r] EXCEPT !.overtaken = likePc[r] = "fill"].fan = likeReq[r].fan
               /\ [likeReq[r] EXCEPT !.overtaken = likePc[r] = "fill"].overtaken
                    = (likePc[r] = "fill")
    <2>1. (likePc[r] = "fill") \in BOOLEAN
      OBVIOUS
    <2>2. likeReq[r] \in LikeRequests
      BY DEF Typed
    <2>3. QED BY <2>1, <2>2, Zenon DEF LikeRequests
  <1>2. likeReq' = [r \in LikeSlots |-> [likeReq[r] EXCEPT !.overtaken = likePc[r] = "fill"]]
    BY DEF Change
  <1> HIDE DEF Typed
  <1>3. \A r \in LikeSlots :
          likeReq'[r] = [likeReq[r] EXCEPT !.overtaken = likePc[r] = "fill"]
    BY <1>2
  <1>4. QED BY <1>1, <1>2, <1>3, Zenon

\* Deleting and creating are steps of a toggle that drop the count next, or go on.
LEMMA WriteOfLike ==
  ASSUME Typed, NEW s \in LikeSlots, DeleteLike(s) \/ CreateLike(s)
  PROVE  /\ likeReq[s].fan \in Fans
         /\ likes' \subseteq Fans /\ UNCHANGED <<cached, odd, doubled, stale>>
         /\ likePc' \in [LikeSlots -> LikeSteps]
         /\ \A r \in LikeSlots \ {s} : likePc'[r] = likePc[r]
         /\ UNCHANGED <<likes, likeReq>> \/ (likePc'[s] = "invalidate" /\ Change(likes'))
  <1>1. likeReq[s].fan \in Fans
    BY DEF DeleteLike, CreateLike, Typed
  <1>2. QED BY <1>1 DEF DeleteLike, CreateLike, Change, Typed, LikeSteps

LEMMA TypedKept ==
  ASSUME Typed, [LikesNext]_likeVars
  PROVE  Typed'
  <1>1. ASSUME NEW s \in LikeSlots, NEW u \in Fans, Toggle(s, u)
        PROVE  Typed'
    BY <1>1 DEF Toggle, Typed, LikeRequests, LikeSteps
  <1>2. ASSUME NEW s \in LikeSlots, DeleteLike(s) \/ CreateLike(s)
        PROVE  Typed'
    <2>1. /\ likeReq' \in [LikeSlots -> LikeRequests]
          /\ \A r \in LikeSlots : likeReq'[r].fan = likeReq[r].fan
      BY <1>2, WriteOfLike, ChangeOvertakes DEF Typed
    <2>2. QED BY <1>2, <2>1, WriteOfLike DEF Typed
  <1>3. ASSUME NEW s \in LikeSlots, Invalidate(s) \/ FillCache(s) \/ LikeAbort(s)
        PROVE  Typed'
    <2>1. likeReq[s] \in LikeRequests
      BY DEF Typed
    <2>2. likes' \subseteq Fans /\ cached' \in Counts /\ odd' \subseteq Fans /\ LikeDone(s)
      BY <1>3, <2>1, CountTyped DEF Invalidate, FillCache, LikeAbort, LikeRequests, Typed
    <2>3. doubled' \subseteq Fans
      BY <1>3 DEF Invalidate, FillCache, LikeAbort, Typed
    <2>4. stale' \in BOOLEAN
      BY <1>3, <2>1 DEF Invalidate, FillCache, LikeAbort, LikeRequests, Typed
    <2>5. QED BY <2>2, <2>3, <2>4, NothingAskedTyped DEF LikeDone, Typed, LikeSteps
  <1>4. ASSUME NEW s \in LikeSlots, Summary(s) \/ CountLikes(s)
        PROVE  Typed'
    <2>1. Count \in Counts
      BY CountTyped DEF Count, Typed
    <2>2. likeReq' \in [LikeSlots -> LikeRequests]
      BY <1>4, <2>1 DEF Summary, CountLikes, LikeRequests, Typed
    <2>3. QED BY <1>4, <2>2 DEF Summary, CountLikes, Typed, LikeSteps
  <1>5. CASE CacheExpires
    BY <1>5, CountTyped DEF CacheExpires, Typed
  <1>6. CASE UNCHANGED likeVars
    BY <1>6 DEF likeVars, Typed
  <1>7. QED BY <1>1, <1>2, <1>3, <1>4, <1>5, <1>6 DEF LikesNext

LEMMA TypedAtFirst == LikesInit => Typed
  BY CountTyped, NothingAskedTyped DEF LikesInit, Typed, LikeSteps

\* Every variable keeps its type.
THEOREM LikesTypeCorrect == LikesSpec => []LikesTypeOK
  <1>1. QED BY TypedAtFirst, TypedKept, TypedIsTypeOK, PTL DEF LikesSpec
-------------------------------------------------------------------------------
\* A count that no toggle overtook is still the number of likes.
CountsTrue ==
  \A s \in LikeSlots :
    likePc[s] = "fill" => likeReq[s].overtaken \/ likeReq[s].count = Count

\* A cached number is right, or about to be dropped, or known to be stale.
CacheTrue == stale \/ Invalidating # {} \/ cached \in {NoCount, Count}

\* A user whose toggles neither overlapped nor broke off has at most one under way,
\* which has not changed anything yet; otherwise the like is as often toggled.
TogglesTrue ==
  \A u \in Fans \ doubled :
    /\ \A s, r \in Toggling(u) : s = r
    /\ Toggling(u) = {} => (u \in likes <=> u \in odd)
    /\ \A s \in Toggling(u) : /\ u \in likes <=> u \notin odd
                              /\ likePc[s] = "create" => u \notin likes

LEMMA CacheKept ==
  ASSUME Typed, CountsTrue, CacheTrue, [LikesNext]_likeVars
  PROVE  CountsTrue' /\ CacheTrue'
  <1>1. ASSUME NEW s \in LikeSlots, NEW u \in Fans, Toggle(s, u)
        PROVE  CountsTrue' /\ CacheTrue'
    BY <1>1 DEF Toggle, Typed, CountsTrue, CacheTrue, Invalidating, Count
  <1>2. ASSUME NEW s \in LikeSlots, DeleteLike(s) \/ CreateLike(s)
        PROVE  CountsTrue' /\ CacheTrue'
    <2>1. CASE UNCHANGED <<likes, likeReq>>
      BY <1>2, <2>1, WriteOfLike
        DEF DeleteLike, CreateLike, Typed, CountsTrue, CacheTrue, Invalidating, Count
    <2>2. CASE likePc'[s] = "invalidate" /\ Change(likes')
      <3>1. \A r \in LikeSlots : likeReq'[r].overtaken = (likePc[r] = "fill")
        BY <2>2, ChangeOvertakes
      <3>2. CountsTrue'
        BY <1>2, <2>2, <3>1, WriteOfLike DEF CountsTrue
      <3>3. s \in Invalidating'
        BY <2>2 DEF Invalidating
      <3>4. QED BY <3>2, <3>3 DEF CacheTrue
    <2>3. QED BY <1>2, <2>1, <2>2, WriteOfLike
  <1>3. ASSUME NEW s \in LikeSlots, Invalidate(s) \/ FillCache(s) \/ LikeAbort(s)
        PROVE  CountsTrue' /\ CacheTrue'
    <2>1. UNCHANGED likes /\ LikeDone(s)
      BY <1>3 DEF Invalidate, FillCache, LikeAbort
    <2>2. CountsTrue'
      BY <2>1 DEF LikeDone, Typed, CountsTrue, Count
    <2>3. CASE Invalidate(s)
      BY <2>1, <2>2, <2>3 DEF Invalidate, CacheTrue
    <2>4. CASE FillCache(s)
      BY <2>1, <2>2, <2>4 DEF FillCache, CacheTrue, CountsTrue, Count
    <2>5. CASE LikeAbort(s)
      <3>1. CASE likePc[s] = "invalidate"
        BY <2>2, <2>5, <3>1 DEF LikeAbort, CacheTrue
      <3>2. CASE likePc[s] # "invalidate"
        BY <2>1, <2>2, <2>5, <3>2 DEF LikeAbort, LikeDone, Typed, CacheTrue, Invalidating, Count
      <3>3. QED BY <3>1, <3>2
    <2>6. QED BY <1>3, <2>2, <2>3, <2>4, <2>5
  <1>4. ASSUME NEW s \in LikeSlots, Summary(s) \/ CountLikes(s)
        PROVE  CountsTrue' /\ CacheTrue'
    BY <1>4 DEF Summary, CountLikes, Typed, LikeRequests, CountsTrue, CacheTrue,
                Invalidating, Count
  <1>5. CASE CacheExpires
    BY <1>5 DEF CacheExpires, CountsTrue, CacheTrue, Count
  <1>6. CASE UNCHANGED likeVars
    BY <1>6 DEF likeVars, CountsTrue, CacheTrue, Invalidating, Count
  <1>7. QED BY <1>1, <1>2, <1>3, <1>4, <1>5, <1>6 DEF LikesNext

LEMMA TogglesKept ==
  ASSUME Typed, TogglesTrue, [LikesNext]_likeVars
  PROVE  TogglesTrue'
  <1>1. ASSUME NEW s \in LikeSlots, NEW u \in Fans, Toggle(s, u)
        PROVE  TogglesTrue'
    BY <1>1 DEF Toggle, Typed, LikeRequests, TogglesTrue, Toggling
  <1>2. ASSUME NEW s \in LikeSlots, DeleteLike(s) \/ CreateLike(s)
        PROVE  TogglesTrue'
    <2>0. PICK u \in Fans : u = likeReq[s].fan
      BY <1>2, WriteOfLike
    <2>1. /\ likePc' \in [LikeSlots -> LikeSteps]
          /\ \A r \in LikeSlots : likeReq'[r].fan = likeReq[r].fan
      BY <1>2, WriteOfLike, ChangeOvertakes
    <2>2. s \in Toggling(u)
      BY <1>2, <2>0 DEF DeleteLike, CreateLike, Toggling
    <2>3. \A v \in Fans \ {u} : Toggling(v)' = Toggling(v)
      BY <1>2, <2>0, <2>1, WriteOfLike DEF Toggling
    <2>4. \A v \in Fans \ {u} : v \in likes' <=> v \in likes
      BY <1>2, <2>0 DEF DeleteLike, CreateLike, Change
    <2>5. UNCHANGED <<odd, doubled>>
      BY <1>2, WriteOfLike
    <2>6. ASSUME u \notin doubled
          PROVE  /\ \A r, q \in Toggling(u)' : r = q
                 /\ Toggling(u)' = {} => (u \in likes' <=> u \in odd)
                 /\ \A r \in Toggling(u)' : /\ u \in likes' <=> u \notin odd
                                            /\ likePc'[r] = "create" => u \notin likes'
      <3>1. \A r \in Toggling(u) : r = s
        BY <2>2, <2>5, <2>6 DEF TogglesTrue
      <3>2. Toggling(u)' = IF likePc'[s] \in {"delete", "create"} THEN {s} ELSE {}
        BY <1>2, <2>0, <2>1, <3>1, WriteOfLike DEF Toggling
      <3>3. (u \in likes <=> u \notin odd) /\ (likePc[s] = "create" => u \notin likes)
        BY <2>2, <2>5, <2>6 DEF TogglesTrue
      <3>4. CASE DeleteLike(s)
        BY <2>0, <3>2, <3>3, <3>4 DEF DeleteLike, Change, Typed
      <3>5. CASE CreateLike(s)
        BY <2>0, <3>2, <3>3, <3>5 DEF CreateLike, Change, Typed
      <3>6. QED BY <1>2, <3>4, <3>5
    <2>7. QED
      <3> SUFFICES ASSUME NEW v \in Fans \ doubled'
                   PROVE  /\ \A r, q \in Toggling(v)' : r = q
                          /\ Toggling(v)' = {} => (v \in likes' <=> v \in odd')
                          /\ \A r \in Toggling(v)' :
                               /\ v \in likes' <=> v \notin odd'
                               /\ likePc'[r] = "create" => v \notin likes'
        BY DEF TogglesTrue
      <3>1. CASE v = u
        BY <2>5, <2>6, <3>1
      <3>2. CASE v # u
        <4>1. \A r \in Toggling(v) : likePc'[r] = likePc[r]
          BY <1>2, <2>0, <3>2, WriteOfLike DEF Toggling
        <4>2. /\ v \in Fans \ doubled /\ Toggling(v)' = Toggling(v)
              /\ v \in likes' <=> v \in likes
              /\ v \in odd' <=> v \in odd
          BY <2>3, <2>4, <2>5, <3>2
        <4>3. /\ \A r, q \in Toggling(v) : r = q
              /\ Toggling(v) = {} => (v \in likes <=> v \in odd)
              /\ \A r \in Toggling(v) : /\ v \in likes <=> v \notin odd
                                        /\ likePc[r] = "create" => v \notin likes
          BY <4>2 DEF TogglesTrue
        <4>4. QED BY <4>1, <4>2, <4>3
      <3>3. QED BY <3>1, <3>2
  <1>3. ASSUME NEW s \in LikeSlots, Invalidate(s) \/ FillCache(s) \/ LikeAbort(s)
        PROVE  TogglesTrue'
    <2>1. /\ UNCHANGED <<likes, odd>> /\ LikeDone(s)
          /\ doubled \subseteq doubled'
          /\ likePc[s] \in {"delete", "create"} => likeReq[s].fan \in doubled'
      BY <1>3 DEF Invalidate, FillCache, LikeAbort
    <2>2. ASSUME NEW v \in Fans \ doubled'
          PROVE  Toggling(v)' = Toggling(v) /\ \A r \in Toggling(v) : likePc'[r] = likePc[r]
      BY <2>1, LikesAssumption DEF LikeDone, NoLikeRequest, Toggling, Typed
    <2>3. QED BY <2>1, <2>2 DEF TogglesTrue
  <1>4. ASSUME NEW s \in LikeSlots, Summary(s) \/ CountLikes(s)
        PROVE  TogglesTrue'
    BY <1>4 DEF Summary, CountLikes, Typed, LikeRequests, TogglesTrue, Toggling
  <1>5. CASE CacheExpires \/ UNCHANGED likeVars
    BY <1>5 DEF CacheExpires, likeVars, TogglesTrue, Toggling
  <1>6. QED BY <1>1, <1>2, <1>3, <1>4, <1>5 DEF LikesNext

\* A card shows its number of likes, and a user likes it after an odd number of
\* toggles, but for what the history variables say; however many users toggle
\* and read at once.
THEOREM LikesAreShown == LikesSpec => []LikesShown
  <1>1. LikesInit => CountsTrue /\ CacheTrue /\ TogglesTrue
    BY DEF LikesInit, CountsTrue, CacheTrue, TogglesTrue, Toggling
  <1>2. Typed /\ CountsTrue /\ CacheTrue /\ TogglesTrue /\ [LikesNext]_likeVars
          => CountsTrue' /\ CacheTrue' /\ TogglesTrue'
    BY CacheKept, TogglesKept
  <1>3. CacheTrue /\ TogglesTrue => LikesShown
    BY DEF CacheTrue, TogglesTrue, LikesShown
  <1>4. QED BY <1>1, <1>2, <1>3, TypedAtFirst, TypedKept, PTL DEF LikesSpec
-------------------------------------------------------------------------------
(* What holds of Projects for every number of guests, comments and requests. *)

AskRows == [op : Ops, user : Users \cup {NoUser}, arg : Roles \cup Statuses,
            target : Users \cup {NoUser}, comment : CommentIds \cup {NoComment},
            overtaken : BOOLEAN]
CommentRows == [author : Users \cup {NoUser}, there : BOOLEAN]

\* u is the owner, or had a row, and has it still unless it was removed.
Known(u) ==
  u = Owner \/ (u \in invited /\ (member[u] # "none" \/ u \in expelled))

\* A request about to write was made by a user who was known then and is since,
\* names what its write is about, and is still rightful unless it was overtaken.
AskTrue(s) ==
  askPc[s] = "write" =>
    /\ ask[s].user \in Users
    /\ ask[s].op \in {"add", "remove"} => ask[s].target \in Users
    /\ ask[s].op = "add" => ask[s].arg \in Roles \ {"none"}
    /\ ask[s].op = "status" => ask[s].arg \in Statuses
    /\ ask[s].op \in {"edit", "erase"} =>
         ask[s].comment \in CommentIds /\ comment[ask[s].comment].author \in Users
    /\ ask[s].op = "comment" => Known(ask[s].user)
    /\ ask[s].overtaken \/ Entitled(ask[s])

MembersInvited == \A u \in Users : member[u] # "none" => u \in invited

CommentTrue(c) ==
  /\ comment[c].there => comment[c].author \in Users
  /\ comment[c].author # NoUser => Known(comment[c].author)

ProjectsInv ==
  /\ ProjectsTypeOK
  /\ MembersInvited
  /\ overreached = {}
  /\ \A s \in ProjectSlots : AskTrue(s)
  /\ \A c \in CommentIds : CommentTrue(c)

LEMMA InvRespectsRights == ProjectsInv => RightsRespected
  BY DEF ProjectsInv, RightsRespected, CommentTrue, Known, canAccessProject

LEMMA NothingAsked == NoAsk \in AskRows
  BY DEF NoAsk, AskRows, Ops, Roles, Statuses

LEMMA ProjectsAtFirst == ProjectsInit => ProjectsInv
  <1> SUFFICES ASSUME ProjectsInit PROVE ProjectsInv
    OBVIOUS
  <1>1. ProjectsTypeOK
    BY NothingAsked DEF ProjectsInit, ProjectsTypeOK, AskRows, Roles
  <1>2. MembersInvited /\ \A s \in ProjectSlots : AskTrue(s)
    BY DEF ProjectsInit, MembersInvited, AskTrue
  <1>3. \A c \in CommentIds : CommentTrue(c)
    BY DEF ProjectsInit, CommentTrue
  <1>4. QED BY <1>1, <1>2, <1>3 DEF ProjectsInv, ProjectsInit
-------------------------------------------------------------------------------
(* The checks. *)

\* A request that is rightful when it is made is what AskTrue says.
LEMMA AskKept ==
  ASSUME ProjectsInv, NEW s \in ProjectSlots, NEW r \in AskRows,
         askPc' = [askPc EXCEPT ![s] = "write"], ask' = [ask EXCEPT ![s] = r],
         UNCHANGED <<member, comment, invited, expelled, overreached>>,
         project' \in Statuses \cup {"none"},
         r.user \in Users,
         r.op \in {"add", "remove"} => r.target \in Users,
         r.op = "add" => r.arg \in Roles \ {"none"},
         r.op = "status" => r.arg \in Statuses,
         r.op \in {"edit", "erase"} =>
           r.comment \in CommentIds /\ comment[r.comment].there,
         Entitled(r)
  PROVE  ProjectsInv'
  <1>1. ProjectsTypeOK'
    BY DEF ProjectsInv, ProjectsTypeOK, AskRows
  <1>2. MembersInvited' /\ overreached' = {}
    BY DEF ProjectsInv, MembersInvited
  <1>3. \A c \in CommentIds : CommentTrue(c)'
    BY DEF ProjectsInv, CommentTrue, Known
  <1>4. /\ askPc \in [ProjectSlots -> {"idle", "write"}]
        /\ ask \in [ProjectSlots -> AskRows]
    BY DEF ProjectsInv, ProjectsTypeOK, AskRows
  <1>5. ASSUME NEW t \in ProjectSlots PROVE AskTrue(t)'
    <2>1. CASE t = s
      <3>1. ask'[t] = r
        BY <1>4, <2>1
      <3>2. r.op \in {"edit", "erase"} => comment[r.comment].author \in Users
        BY DEF ProjectsInv, CommentTrue
      <3>3. r.op = "comment" => Known(r.user)
        BY DEF Entitled, ProjectsInv, MembersInvited, Known
      <3>4. Entitled(r)'
        BY DEF Entitled
      <3>5. QED BY <3>1, <3>2, <3>3, <3>4 DEF AskTrue, Known, Entitled
    <2>2. CASE t # s
      <3>1. askPc'[t] = askPc[t] /\ ask'[t] = ask[t]
        BY <1>4, <2>2
      <3>2. AskTrue(t)
        BY DEF ProjectsInv
      <3>3. QED BY <3>1, <3>2 DEF AskTrue, Known, Entitled
    <2>3. QED BY <2>1, <2>2
  <1>6. QED BY <1>1, <1>2, <1>3, <1>5 DEF ProjectsInv

LEMMA AsksKept ==
  ASSUME ProjectsInv, NEW s \in ProjectSlots, NEW u \in Users,
         \/ \E status \in Statuses \cup {"none"} : AskUpdate(s, u, status)
         \/ AskDelete(s, u) \/ AskComment(s, u)
         \/ \E v \in Targets : \/ \E role \in Roles \ {"none"} : AskAddMember(s, u, v, role)
                             \/ AskRemoveMember(s, u, v)
         \/ \E c \in CommentIds : AskEditComment(s, u, c) \/ AskDeleteComment(s, u, c)
  PROVE  ProjectsInv'
  <1>0. Targets \subseteq Users
    BY ProjectsAssumption
  <1>1. ASSUME NEW r \in AskRows, Asks(s, r),
               r.user = u,
               r.op \in {"add", "remove"} => r.target \in Users,
               r.op = "add" => r.arg \in Roles \ {"none"},
               r.op = "status" => r.arg \in Statuses,
               r.op \in {"edit", "erase"} =>
                 r.comment \in CommentIds /\ comment[r.comment].there,
               Entitled(r)
        PROVE  ProjectsInv'
    <2>1. project' \in Statuses \cup {"none"}
      BY <1>1 DEF Asks, ProjectsInv, ProjectsTypeOK
    <2>2. QED BY <1>1, <2>1, AskKept DEF Asks
  <1>2. ASSUME NEW status \in Statuses \cup {"none"}, AskUpdate(s, u, status)
        PROVE  ProjectsInv'
    <2> DEFINE r == [NoAsk EXCEPT !.op = IF status = "none" THEN "rename" ELSE "status",
                                  !.user = u, !.arg = status]
    <2>1. /\ r \in AskRows /\ r.user = u /\ r.arg = status
          /\ r.op = IF status = "none" THEN "rename" ELSE "status"
      BY NothingAsked DEF NoAsk, AskRows, Ops, Roles
    <2>2. Asks(s, r)
      BY <1>2 DEF AskUpdate
    <2> HIDE DEF r
    <2>3. Entitled(r)
      BY <1>2, <2>1 DEF AskUpdate, getMemberRole, Entitled
    <2>4. QED BY <1>1, <2>1, <2>2, <2>3
  <1>3. ASSUME AskDelete(s, u) PROVE ProjectsInv'
    <2> DEFINE r == [NoAsk EXCEPT !.op = "delete", !.user = u]
    <2>1. r \in AskRows /\ r.user = u /\ r.op = "delete"
      BY NothingAsked DEF NoAsk, AskRows, Ops
    <2>2. Asks(s, r)
      BY <1>3 DEF AskDelete
    <2> HIDE DEF r
    <2>3. Entitled(r)
      BY <1>3, <2>1 DEF AskDelete, getMemberRole, Entitled
    <2>4. QED BY <1>1, <2>1, <2>2, <2>3
  <1>4. ASSUME AskComment(s, u) PROVE ProjectsInv'
    <2> DEFINE r == [NoAsk EXCEPT !.op = "comment", !.user = u]
    <2>1. r \in AskRows /\ r.user = u /\ r.op = "comment"
      BY NothingAsked DEF NoAsk, AskRows, Ops
    <2>2. Asks(s, r)
      BY <1>4 DEF AskComment
    <2> HIDE DEF r
    <2>3. Entitled(r)
      BY <1>4, <2>1 DEF AskComment, canAccessProject, Entitled
    <2>4. QED BY <1>1, <2>1, <2>2, <2>3
  <1>5. ASSUME NEW v \in Targets, NEW role \in Roles \ {"none"}, AskAddMember(s, u, v, role)
        PROVE  ProjectsInv'
    <2> DEFINE r == [NoAsk EXCEPT !.op = "add", !.user = u, !.target = v, !.arg = role]
    <2>1. r \in AskRows /\ r.user = u /\ r.op = "add" /\ r.target = v /\ r.arg = role
      BY <1>0, NothingAsked DEF NoAsk, AskRows, Ops
    <2>2. Asks(s, r)
      BY <1>5 DEF AskAddMember
    <2> HIDE DEF r
    <2>3. Entitled(r)
      BY <1>5, <2>1 DEF AskAddMember, getMemberRole, Entitled
    <2>4. QED BY <1>0, <1>1, <2>1, <2>2, <2>3
  <1>6. ASSUME NEW v \in Targets, AskRemoveMember(s, u, v)
        PROVE  ProjectsInv'
    <2> DEFINE r == [NoAsk EXCEPT !.op = "remove", !.user = u, !.target = v]
    <2>1. r \in AskRows /\ r.user = u /\ r.op = "remove" /\ r.target = v
      BY <1>0, NothingAsked DEF NoAsk, AskRows, Ops
    <2>2. Asks(s, r)
      BY <1>6 DEF AskRemoveMember
    <2> HIDE DEF r
    <2>3. Entitled(r)
      BY <1>6, <2>1 DEF AskRemoveMember, getMemberRole, Entitled
    <2>4. QED BY <1>0, <1>1, <2>1, <2>2, <2>3
  <1>7. ASSUME NEW c \in CommentIds, AskEditComment(s, u, c) PROVE ProjectsInv'
    <2> DEFINE r == [NoAsk EXCEPT !.op = "edit", !.user = u, !.comment = c]
    <2>1. r \in AskRows /\ r.user = u /\ r.op = "edit" /\ r.comment = c
      BY NothingAsked DEF NoAsk, AskRows, Ops
    <2>2. Asks(s, r) /\ comment[c].there
      BY <1>7 DEF AskEditComment
    <2> HIDE DEF r
    <2>3. Entitled(r)
      BY <1>7, <2>1 DEF AskEditComment, canModifyComment, Entitled
    <2>4. QED BY <1>1, <2>1, <2>2, <2>3
  <1>8. ASSUME NEW c \in CommentIds, AskDeleteComment(s, u, c) PROVE ProjectsInv'
    <2> DEFINE r == [NoAsk EXCEPT !.op = "erase", !.user = u, !.comment = c]
    <2>1. r \in AskRows /\ r.user = u /\ r.op = "erase" /\ r.comment = c
      BY NothingAsked DEF NoAsk, AskRows, Ops
    <2>2. Asks(s, r) /\ comment[c].there
      BY <1>8 DEF AskDeleteComment
    <2> HIDE DEF r
    <2>3. Entitled(r)
      BY <1>8, <2>1 DEF AskDeleteComment, canModifyComment, Entitled
    <2>4. QED BY <1>1, <2>1, <2>2, <2>3
  <1>9. QED BY <1>2, <1>3, <1>4, <1>5, <1>6, <1>7, <1>8
-------------------------------------------------------------------------------
(* The writes. *)

\* A write ends its request, without having overreached, and tells the others whose
\* users it is about that they are overtaken.
LEMMA WriteEnds ==
  ASSUME ProjectsInv, NEW s \in ProjectSlots, NEW op \in Ops, NEW changed,
         Writes(s, op, changed)
  PROVE  /\ askPc' \in [ProjectSlots -> {"idle", "write"}]
         /\ ask' \in [ProjectSlots -> AskRows]
         /\ overreached' = {}
         /\ askPc[s] = "write" /\ ask[s].op = op /\ AskTrue(s)
         /\ \A t \in ProjectSlots : askPc'[t] = "write" =>
              /\ t # s /\ askPc[t] = "write"
              /\ ask'[t].op = ask[t].op /\ ask'[t].user = ask[t].user
              /\ ask'[t].target = ask[t].target /\ ask'[t].arg = ask[t].arg
              /\ ask'[t].comment = ask[t].comment
              /\ ~ask'[t].overtaken => ~ask[t].overtaken /\ ask[t].user \notin changed
  <1>1. /\ askPc \in [ProjectSlots -> {"idle", "write"}]
        /\ ask \in [ProjectSlots -> AskRows]
    BY DEF ProjectsInv, ProjectsTypeOK, AskRows
  <1>2. /\ askPc[s] = "write" /\ ask[s].op = op
        /\ askPc' = [askPc EXCEPT ![s] = "idle"]
        /\ ask' = [t \in ProjectSlots |-> IF t = s THEN NoAsk ELSE
                     [ask[t] EXCEPT !.overtaken = ask[t].overtaken \/ ask[t].user \in changed]]
        /\ overreached' = IF ask[s].overtaken \/ Entitled(ask[s]) THEN overreached
                          ELSE overreached \cup {op}
    BY DEF Writes
  <1>3. AskTrue(s)
    BY DEF ProjectsInv
  <1>4. overreached' = {}
    BY <1>2, <1>3 DEF AskTrue, ProjectsInv
  <1>5. ASSUME NEW t \in ProjectSlots, NEW b \in BOOLEAN
        PROVE  [ask[t] EXCEPT !.overtaken = b] \in AskRows
    <2>1. ask[t] \in AskRows
      BY <1>1
    <2>2. QED BY <2>1 DEF AskRows
  <1>6. \A t \in ProjectSlots : (ask[t].overtaken \/ ask[t].user \in changed) \in BOOLEAN
    OBVIOUS
  <1>7. ask' \in [ProjectSlots -> AskRows]
    <2>1. ASSUME NEW t \in ProjectSlots PROVE ask'[t] \in AskRows
      <3>1. CASE t = s
        BY <1>2, <3>1, NothingAsked
      <3>2. CASE t # s
        BY <1>2, <1>5, <1>6, <3>2, Zenon
      <3>3. QED BY <3>1, <3>2
    <2>2. QED BY <1>2, <2>1
  <1>8. ASSUME NEW t \in ProjectSlots, t # s
        PROVE  /\ ask'[t].op = ask[t].op /\ ask'[t].user = ask[t].user
               /\ ask'[t].target = ask[t].target /\ ask'[t].arg = ask[t].arg
               /\ ask'[t].comment = ask[t].comment
               /\ ask'[t].overtaken = (ask[t].overtaken \/ ask[t].user \in changed)
    <2>1. ask'[t] = [ask[t] EXCEPT !.overtaken = ask[t].overtaken \/ ask[t].user \in changed]
      BY <1>2, <1>8
    <2>2. ask[t] \in AskRows
      BY <1>1
    <2>3. QED BY <2>1, <2>2, Zenon DEF AskRows
  <1>9. ASSUME NEW t \in ProjectSlots, askPc'[t] = "write"
        PROVE  t # s /\ askPc[t] = "write"
    BY <1>1, <1>2, <1>9
  <1>10. askPc' \in [ProjectSlots -> {"idle", "write"}]
    BY <1>1, <1>2
  <1>11. QED BY <1>2, <1>3, <1>4, <1>7, <1>8, <1>9, <1>10

\* What is known and rightful survives a write: roles change only of users in
\* changed, no row is removed unnoticed, and a comment keeps its author.
LEMMA WriteKept ==
  ASSUME ProjectsInv, NEW s \in ProjectSlots, NEW op \in Ops, NEW changed,
         Writes(s, op, changed), ProjectsTypeOK', MembersInvited',
         \A u \in Users : u \notin changed => member'[u] = member[u],
         \A u \in Users : Known(u) => Known(u)',
         \A c \in CommentIds :
           comment[c].author # NoUser => comment'[c].author = comment[c].author,
         \A c \in CommentIds : CommentTrue(c)'
  PROVE  ProjectsInv'
  <1>1. ASSUME NEW t \in ProjectSlots, askPc'[t] = "write"
        PROVE  /\ AskTrue(t) /\ t # s /\ askPc[t] = "write"
               /\ ask'[t].op = ask[t].op /\ ask'[t].user = ask[t].user
               /\ ask'[t].target = ask[t].target /\ ask'[t].arg = ask[t].arg
               /\ ask'[t].comment = ask[t].comment
               /\ ~ask'[t].overtaken => ~ask[t].overtaken /\ ask[t].user \notin changed
    <2>1. AskTrue(t)
      BY DEF ProjectsInv
    <2>2. QED BY <1>1, <2>1, WriteEnds
  <1>2. ASSUME NEW t \in ProjectSlots, askPc'[t] = "write"
        PROVE  /\ ask[t].user \in Users
               /\ ask[t].op \in {"edit", "erase"} =>
                    /\ ask[t].comment \in CommentIds
                    /\ comment[ask[t].comment].author \in Users
                    /\ comment'[ask[t].comment].author = comment[ask[t].comment].author
    <2>1. NoUser \notin Users
      BY ProjectsAssumption
    <2>2. QED BY <1>1, <1>2, <2>1 DEF AskTrue
  <1>3. ASSUME NEW t \in ProjectSlots, askPc'[t] = "write", ~ask'[t].overtaken
        PROVE  Entitled(ask[t])'
    <2>1. Entitled(ask[t]) /\ member'[ask[t].user] = member[ask[t].user]
      BY <1>1, <1>2, <1>3 DEF AskTrue
    <2>2. QED BY <1>1, <1>2, <1>3, <2>1 DEF Entitled
  <1>4. ASSUME NEW t \in ProjectSlots PROVE AskTrue(t)'
    <2> SUFFICES ASSUME askPc'[t] = "write" PROVE AskTrue(t)'
      BY DEF AskTrue
    <2>1. ask'[t].op = "comment" => Known(ask[t].user)
      BY <1>1 DEF AskTrue
    <2>2. ask'[t].op = "comment" => Known(ask[t].user)'
      <3>1. PICK u \in Users : u = ask[t].user
        BY <1>2
      <3>2. Known(u) => Known(u)'
        OBVIOUS
      <3>3. ask'[t].user = u
        BY <1>1, <3>1
      <3>4. QED BY <2>1, <3>1, <3>2, <3>3 DEF Known
    <2>3. QED BY <1>1, <1>2, <1>3, <2>2 DEF AskTrue
  <1>5. QED BY <1>4, WriteEnds DEF ProjectsInv

\* A write that touches neither roles nor comments.
LEMMA OtherWriteKept ==
  ASSUME ProjectsInv, NEW s \in ProjectSlots, NEW op \in Ops, Writes(s, op, {}),
         UNCHANGED <<member, comment, invited, expelled>>,
         project' \in Statuses \cup {"none"}
  PROVE  ProjectsInv'
  <1>1. ProjectsTypeOK'
    BY WriteEnds DEF ProjectsInv, ProjectsTypeOK, AskRows
  <1>2. MembersInvited'
    BY DEF ProjectsInv, MembersInvited
  <1>3. \A u \in Users : Known(u) => Known(u)'
    BY DEF Known
  <1>4. \A c \in CommentIds : CommentTrue(c)'
    BY DEF ProjectsInv, CommentTrue, Known
  <1>5. QED BY <1>1, <1>2, <1>3, <1>4, WriteKept

\* A write of one role.
LEMMA RoleKept ==
  ASSUME ProjectsInv, NEW s \in ProjectSlots, NEW op \in Ops, NEW v \in Users,
         NEW role \in Roles, Writes(s, op, {v}),
         member' = [member EXCEPT ![v] = role],
         UNCHANGED <<project, comment>>,
         \/ role # "none" /\ invited' = invited \cup {v} /\ expelled' = expelled
         \/ /\ role = "none" /\ invited' = invited
            /\ expelled' = IF member[v] = "none" THEN expelled ELSE expelled \cup {v}
  PROVE  ProjectsInv'
  <1>0. member \in [Users -> Roles] /\ invited \subseteq Users /\ expelled \subseteq Users
    BY DEF ProjectsInv, ProjectsTypeOK
  <1>1. ProjectsTypeOK'
    <2>1. member' \in [Users -> Roles] /\ invited' \subseteq Users /\ expelled' \subseteq Users
      BY <1>0
    <2>2. QED BY <2>1, WriteEnds DEF ProjectsInv, ProjectsTypeOK, AskRows
  <1>2. /\ \A u \in Users : u # v => member'[u] = member[u]
        /\ member'[v] = role
        /\ invited \subseteq invited' /\ expelled \subseteq expelled'
    BY <1>0
  <1>3. MembersInvited'
    BY <1>2 DEF ProjectsInv, MembersInvited
  <1>4. \A u \in Users : Known(u) => Known(u)'
    BY <1>2 DEF Known
  <1>5. ASSUME NEW c \in CommentIds PROVE CommentTrue(c)'
    <2>1. comment[c].author \in Users \cup {NoUser}
      BY DEF ProjectsInv, ProjectsTypeOK
    <2>2. CommentTrue(c)
      BY DEF ProjectsInv
    <2>3. comment[c].author # NoUser => Known(comment[c].author)'
      BY <1>4, <2>1, <2>2 DEF CommentTrue
    <2>4. QED BY <2>2, <2>3 DEF CommentTrue, Known
  <1>6. QED BY <1>1, <1>2, <1>3, <1>4, <1>5, WriteKept

\* A comment that is new, or is there no longer.
LEMMA CommentKept ==
  ASSUME ProjectsInv, NEW s \in ProjectSlots, NEW op \in Ops, NEW c \in CommentIds,
         NEW newRow \in CommentRows, Writes(s, op, {}),
         comment' = [comment EXCEPT ![c] = newRow],
         UNCHANGED <<project, member, invited, expelled>>,
         comment[c].author # NoUser => newRow.author = comment[c].author,
         newRow.there => newRow.author \in Users,
         newRow.author # NoUser => Known(newRow.author)
  PROVE  ProjectsInv'
  <1>0. comment \in [CommentIds -> CommentRows]
    BY DEF ProjectsInv, ProjectsTypeOK, CommentRows
  <1>1. ProjectsTypeOK'
    <2>1. comment' \in [CommentIds -> CommentRows]
      BY <1>0
    <2>2. QED BY <2>1, WriteEnds DEF ProjectsInv, ProjectsTypeOK, AskRows, CommentRows
  <1>2. comment'[c] = newRow /\ \A d \in CommentIds : d # c => comment'[d] = comment[d]
    BY <1>0
  <1>3. MembersInvited'
    BY DEF ProjectsInv, MembersInvited
  <1>4. \A u \in Users : Known(u) => Known(u)'
    BY DEF Known
  <1>5. ASSUME NEW d \in CommentIds PROVE CommentTrue(d)'
    <2>1. CASE d = c
      BY <1>2, <2>1 DEF CommentTrue, Known
    <2>2. CASE d # c
      BY <1>2, <2>2 DEF ProjectsInv, CommentTrue, Known
    <2>3. QED BY <2>1, <2>2
  <1>6. QED BY <1>1, <1>2, <1>3, <1>4, <1>5, WriteKept

LEMMA ProjectsStepKeeps == ProjectsInv /\ [ProjectsNext]_projectVars => ProjectsInv'
  <1> SUFFICES ASSUME ProjectsInv, [ProjectsNext]_projectVars PROVE ProjectsInv'
    OBVIOUS
  <1>1. /\ askPc \in [ProjectSlots -> {"idle", "write"}]
        /\ ask \in [ProjectSlots -> AskRows]
        /\ comment \in [CommentIds -> CommentRows]
        /\ project \in Statuses \cup {"none"}
    BY DEF ProjectsInv, ProjectsTypeOK, AskRows, CommentRows
  <1>2. ASSUME NEW s \in ProjectSlots, CreateProject(s) PROVE ProjectsInv'
    <2> DEFINE r == [NoAsk EXCEPT !.op = "join", !.user = Owner]
    <2>1. r \in AskRows /\ r.user = Owner /\ r.op = "join" /\ Owner \in Users
      BY NothingAsked DEF NoAsk, AskRows, Ops, Users
    <2>2. /\ askPc' = [askPc EXCEPT ![s] = "write"] /\ ask' = [ask EXCEPT ![s] = r]
          /\ project' \in Statuses \cup {"none"}
          /\ UNCHANGED <<member, comment, invited, expelled, overreached>>
      BY <1>2 DEF CreateProject, Statuses
    <2> HIDE DEF r
    <2>3. Entitled(r)
      BY <2>1 DEF Entitled
    <2>4. QED BY <2>1, <2>2, <2>3, AskKept
  <1>3. ASSUME NEW s \in ProjectSlots, AddOwner(s) PROVE ProjectsInv'
    <2>1. Owner \in Users /\ "owner" \in Roles \ {"none"} /\ "join" \in Ops
      BY DEF Users, Roles, Ops
    <2>2. QED BY <1>3, <2>1, RoleKept DEF AddOwner
  <1>4. ASSUME NEW s \in ProjectSlots, ProjectAbort(s) PROVE ProjectsInv'
    <2>1. ProjectsTypeOK'
      BY <1>4, NothingAsked DEF ProjectAbort, ProjectsInv, ProjectsTypeOK, AskRows
    <2>2. ASSUME NEW t \in ProjectSlots PROVE AskTrue(t)'
      <3>1. CASE t = s
        BY <1>1, <1>4, <3>1 DEF ProjectAbort, AskTrue
      <3>2. CASE t # s
        <4>1. askPc'[t] = askPc[t] /\ ask'[t] = ask[t]
          BY <1>1, <1>4, <3>2 DEF ProjectAbort
        <4>2. AskTrue(t)
          BY DEF ProjectsInv
        <4>3. QED BY <1>4, <4>1, <4>2 DEF ProjectAbort, AskTrue, Known, Entitled
      <3>3. QED BY <3>1, <3>2
    <2>3. QED BY <1>4, <2>1, <2>2
      DEF ProjectAbort, ProjectsInv, MembersInvited, CommentTrue, Known
  <1>5. ASSUME NEW s \in ProjectSlots, UpdateProject(s) \/ SoftDelete(s) \/ UpdateComment(s)
        PROVE  ProjectsInv'
    <2>1. AskTrue(s)
      BY DEF ProjectsInv
    <2>2. PICK op \in {"rename", "status", "delete", "edit"} :
            /\ Writes(s, op, {})
            /\ UNCHANGED <<member, comment, invited, expelled>>
            /\ \/ project' = project \/ project' = "deleted"
               \/ op = "status" /\ project' = ask[s].arg
      BY <1>5 DEF UpdateProject, SoftDelete, UpdateComment
    <2>3. op \in Ops /\ "deleted" \in Statuses
      BY DEF Ops, Statuses
    <2>4. project' \in Statuses \cup {"none"}
      BY <1>1, <2>1, <2>2, <2>3 DEF Writes, AskTrue
    <2>5. QED BY <2>2, <2>3, <2>4, OtherWriteKept
  <1>6. ASSUME NEW s \in ProjectSlots, AddMember(s) PROVE ProjectsInv'
    <2>1. AskTrue(s) /\ "add" \in Ops
      BY DEF ProjectsInv, Ops
    <2>2. ask[s].target \in Users /\ ask[s].arg \in Roles \ {"none"}
      BY <1>6, <2>1 DEF AddMember, Writes, AskTrue
    <2>3. QED BY <1>6, <2>1, <2>2, RoleKept DEF AddMember
  <1>7. ASSUME NEW s \in ProjectSlots, RemoveMember(s) PROVE ProjectsInv'
    <2>1. AskTrue(s) /\ "remove" \in Ops /\ "none" \in Roles
      BY DEF ProjectsInv, Ops, Roles
    <2>2. ask[s].target \in Users
      BY <1>7, <2>1 DEF RemoveMember, Writes, AskTrue
    <2>3. QED BY <1>7, <2>1, <2>2, RoleKept DEF RemoveMember
  <1>8. ASSUME NEW s \in ProjectSlots, NEW c \in CommentIds, CreateComment(s, c)
        PROVE  ProjectsInv'
    <2> DEFINE new == [author |-> ask[s].user, there |-> TRUE]
    <2>1. AskTrue(s) /\ "comment" \in Ops
      BY DEF ProjectsInv, Ops
    <2>2. ask[s].user \in Users /\ Known(ask[s].user)
      BY <1>8, <2>1 DEF CreateComment, Writes, AskTrue
    <2>3. new \in CommentRows /\ new.author = ask[s].user
      BY <2>2 DEF CommentRows
    <2>4. /\ comment[c].author = NoUser /\ Writes(s, "comment", {})
          /\ comment' = [comment EXCEPT ![c] = new]
          /\ UNCHANGED <<project, member, invited, expelled>>
      BY <1>8 DEF CreateComment
    <2> HIDE DEF new
    <2>5. QED BY <2>1, <2>2, <2>3, <2>4, CommentKept
  <1>9. ASSUME NEW s \in ProjectSlots, DeleteComment(s) PROVE ProjectsInv'
    <2>1. AskTrue(s) /\ "erase" \in Ops
      BY DEF ProjectsInv, Ops
    <2>2. PICK c \in CommentIds : c = ask[s].comment
      BY <1>9, <2>1 DEF DeleteComment, Writes, AskTrue
    <2>3. PICK gone \in CommentRows : gone = [comment[c] EXCEPT !.there = FALSE]
      BY <1>1 DEF CommentRows
    <2>4. gone.author = comment[c].author /\ gone.there = FALSE
      BY <1>1, <2>3 DEF CommentRows
    <2>5. comment[c].author # NoUser => Known(comment[c].author)
      BY DEF ProjectsInv, CommentTrue
    <2>6. /\ Writes(s, "erase", {})
          /\ comment' = [comment EXCEPT ![c] = gone]
          /\ UNCHANGED <<project, member, invited, expelled>>
      BY <1>9, <2>2, <2>3 DEF DeleteComment
    <2>7. QED BY <2>1, <2>4, <2>5, <2>6, CommentKept
  <1>10. CASE UNCHANGED projectVars
    BY <1>10 DEF projectVars, ProjectsInv, ProjectsTypeOK, MembersInvited, AskTrue,
                 CommentTrue, Known, Entitled
  <1>11. QED
    BY <1>2, <1>3, <1>4, <1>5, <1>6, <1>7, <1>8, <1>9, <1>10, AsksKept DEF ProjectsNext

LEMMA ProjectsInvHolds == ProjectsSpec => []ProjectsInv
  BY ProjectsAtFirst, ProjectsStepKeeps, PTL DEF ProjectsSpec

\* Project, members, comments and requests keep their types.
THEOREM ProjectsTypeCorrect == ProjectsSpec => []ProjectsTypeOK
  <1>1. ProjectsInv => ProjectsTypeOK
    BY DEF ProjectsInv
  <1>2. QED BY <1>1, ProjectsInvHolds, PTL

\* However checks and writes of members, owners and authors interleave, nobody writes
\* without a right except who lost it between check and write, and an author was a
\* member once, and is one unless removed.
THEOREM RightsAreRespected == ProjectsSpec => []RightsRespected
  BY InvRespectsRights, ProjectsInvHolds, PTL
-------------------------------------------------------------------------------
(* What holds of Files for every number of uploads, jobs and images. *)

UploadRows == [step : {"parse", "detect", "sanitize", "201", "400", "error"},
               says : AllowedMime \cup {"other"}, is : AllowedMime \cup {"other"},
               disk : {"none", "raw", "clean"}]

\* What an upload has passed so far.
UploadTrue(u) ==
  /\ upload[u].step \in {"detect", "sanitize"} => upload[u].disk = "raw"
  /\ upload[u].step = "sanitize" => isAllowedMime(upload[u].is)
  /\ upload[u].step = "201" =>
       /\ upload[u].disk # "none" /\ isAllowedMime(upload[u].is)
       /\ upload[u].says \in Pictures => upload[u].disk = "clean"

\* What the writer of an image has left behind so far, even if its job has failed.
ImageTrue(x) ==
  /\ writer[x] \in {"mark", "copy", "row", "done"} => original[x]
  /\ writer[x] \in {"row", "done"} => shown[x] # "none"
  /\ shown[x] = "deleted" => x \in aged
  /\ writer[x] = "done" => row[x]
  /\ row[x] => /\ original[x] /\ shown[x] # "none"
               /\ writer[x] = "done" \/ (writer[x] = "failed" /\ x[1] \in unanswered)

\* What the end of a job says of its writers, which end for good.
JobTrue(j) ==
  /\ attempt[j] = "queued" => \A i \in Images : writer[<<j, i>>] = "none"
  /\ attempt[j] = "completed" => \A i \in Images : writer[<<j, i>>] = "done"
  /\ attempt[j] = "failed" =>
       j \in unanswered \/ \E i \in Images : writer[<<j, i>>] \in {"none", "failed"}

FilesInv ==
  /\ FilesTypeOK
  /\ \A u \in Uploads : UploadTrue(u)
  /\ \A x \in AllImages : ImageTrue(x)
  /\ \A j \in Jobs : JobTrue(j)

LEMMA InvMatchesRows == FilesInv => FilesMatchRows
  <1> SUFFICES ASSUME FilesInv PROVE FilesMatchRows
    OBVIOUS
  <1>1. UploadsKept
    BY DEF FilesInv, UploadTrue, UploadsKept
  <1>2. \A j \in Jobs, i \in Images : <<j, i>> \in AllImages
    BY DEF AllImages
  <1>3. ASSUME NEW j \in Jobs
        PROVE  /\ attempt[j] = "completed" => \A i \in Images : row[<<j, i>>]
               /\ attempt[j] = "failed" =>
                    j \in unanswered \/ \E i \in Images : ~row[<<j, i>>]
    <2>1. JobTrue(j)
      BY DEF FilesInv
    <2>2. \A i \in Images : writer[<<j, i>>] = "done" => row[<<j, i>>]
      BY <1>2 DEF FilesInv, ImageTrue
    <2>3. ASSUME NEW i \in Images, writer[<<j, i>>] # "done", row[<<j, i>>]
          PROVE  j \in unanswered
      <3>1. <<j, i>>[1] = j
        OBVIOUS
      <3>2. QED BY <1>2, <2>3, <3>1 DEF FilesInv, ImageTrue
    <2>4. QED BY <2>1, <2>2, <2>3 DEF JobTrue
  <1>4. ASSUME NEW x \in AllImages, row[x]
        PROVE  /\ original[x]
               /\ shown[x] = "there" \/ (shown[x] = "deleted" /\ x \in aged)
    <2>1. ImageTrue(x) /\ shown[x] \in {"none", "there", "deleted"}
      BY DEF FilesInv, FilesTypeOK
    <2>2. QED BY <1>4, <2>1 DEF ImageTrue
  <1>5. QED BY <1>1, <1>3, <1>4 DEF FilesMatchRows, ImagesWhole

LEMMA FilesAtFirst == FilesInit => FilesInv
  <1> SUFFICES ASSUME FilesInit PROVE FilesInv
    OBVIOUS
  <1>1. FilesTypeOK
    BY DEF FilesInit, FilesTypeOK, AllowedMime, Pictures
  <1>2. \A u \in Uploads : upload[u].step = "parse"
    BY DEF FilesInit
  <1>3. \A j \in Jobs, i \in Images : <<j, i>> \in AllImages
    BY DEF AllImages
  <1>4. \A j \in Jobs : JobTrue(j)
    BY <1>3 DEF FilesInit, JobTrue
  <1>5. \A x \in AllImages : ImageTrue(x)
    BY DEF FilesInit, ImageTrue
  <1>6. QED BY <1>1, <1>2, <1>4, <1>5 DEF FilesInv, UploadTrue
-------------------------------------------------------------------------------
\* A step of an upload keeps what there is to say of uploads if it does so for its own.
LEMMA UploadKept ==
  ASSUME FilesInv, NEW u \in Uploads, NEW from, NEW to, NEW disk,
         UploadStep(u, from, to, disk),
         to \in {"detect", "sanitize", "201", "400", "error"},
         disk \in {"none", "raw", "clean"},
         to \in {"detect", "sanitize"} => disk = "raw",
         to \in {"sanitize", "201"} => isAllowedMime(upload[u].is),
         to = "201" => /\ disk # "none"
                       /\ upload[u].says \in Pictures => disk = "clean"
  PROVE  FilesInv'
  <1>1. /\ UNCHANGED <<attempt, writer, original, shown, aged, row, unanswered, sweep, swept>>
        /\ upload' = [upload EXCEPT ![u].step = to, ![u].disk = disk]
    BY DEF UploadStep, imageVars
  <1>2. FilesTypeOK'
    <2>1. upload \in [Uploads -> UploadRows]
      BY DEF FilesInv, FilesTypeOK, UploadRows
    <2>2. [upload[u] EXCEPT !.step = to, !.disk = disk] \in UploadRows
      <3>1. upload[u] \in UploadRows
        BY <2>1
      <3>2. QED BY <3>1 DEF UploadRows
    <2>3. upload' = [upload EXCEPT ![u] = [upload[u] EXCEPT !.step = to, !.disk = disk]]
      BY <1>1, <2>1
    <2>4. upload' \in [Uploads -> UploadRows]
      BY <2>1, <2>2, <2>3
    <2>5. QED BY <1>1, <2>4 DEF FilesInv, FilesTypeOK, UploadRows
  <1>3. ASSUME NEW v \in Uploads PROVE UploadTrue(v)'
    <2>1. CASE v = u
      <3>1. /\ upload'[u].step = to /\ upload'[u].disk = disk
            /\ upload'[u].is = upload[u].is /\ upload'[u].says = upload[u].says
        BY <1>1 DEF FilesInv, FilesTypeOK
      <3>2. QED BY <2>1, <3>1 DEF UploadTrue, isAllowedMime
    <2>2. CASE v # u
      <3>1. upload'[v] = upload[v]
        BY <1>1, <2>2 DEF FilesInv, FilesTypeOK
      <3>2. QED BY <3>1 DEF FilesInv, UploadTrue, isAllowedMime
    <2>3. QED BY <2>1, <2>2
  <1>4. /\ \A x \in AllImages : ImageTrue(x)'
        /\ \A j \in Jobs : JobTrue(j)'
    BY <1>1 DEF FilesInv, ImageTrue, JobTrue
  <1>5. QED BY <1>2, <1>3, <1>4 DEF FilesInv

\* A step of an image's writer: other images stay as they are, and the job's end, if
\* it has come, still agrees with its writers.
LEMMA ImageKept ==
  ASSUME FilesInv, NEW x \in AllImages, NEW from, NEW to, ImageStep(x, from, to),
         from \in {"original", "mark", "copy", "row"},
         to \in {"mark", "copy", "row", "done", "failed"},
         original' \in {original, [original EXCEPT ![x] = TRUE]},
         shown' \in {shown, [shown EXCEPT ![x] = "there"]},
         row' \in {row, [row EXCEPT ![x] = TRUE]},
         unanswered' \in {unanswered, unanswered \cup {x[1]}},
         ImageTrue(x)'
  PROVE  FilesInv'
  <1>1. /\ UNCHANGED <<upload, attempt, aged, sweep, swept>>
        /\ writer[x] = from /\ writer' = [writer EXCEPT ![x] = to]
    BY DEF ImageStep
  <1>2. FilesTypeOK'
    <2>1. x[1] \in Jobs
      BY DEF AllImages
    <2>2. unanswered' \subseteq Jobs
      BY <2>1 DEF FilesInv, FilesTypeOK
    <2>3. QED BY <1>1, <2>2 DEF FilesInv, FilesTypeOK
  <1>3. ASSUME NEW y \in AllImages PROVE ImageTrue(y)'
    <2>1. CASE y # x
      <3>1. /\ writer'[y] = writer[y] /\ original'[y] = original[y]
            /\ shown'[y] = shown[y] /\ row'[y] = row[y]
        BY <1>1, <2>1 DEF FilesInv, FilesTypeOK
      <3>2. aged' = aged /\ (y[1] \in unanswered => y[1] \in unanswered') /\ ImageTrue(y)
        BY <1>1 DEF FilesInv
      <3>3. QED BY <3>1, <3>2 DEF ImageTrue
    <2>2. QED BY <2>1
  <1>4. ASSUME NEW j \in Jobs PROVE JobTrue(j)'
    <2>1. \A i \in Images : <<j, i>> \in AllImages
      BY DEF AllImages
    <2>2. \A y \in AllImages : writer[y] \in {"none", "done", "failed"} =>
            writer'[y] = writer[y]
      BY <1>1 DEF FilesInv, FilesTypeOK
    <2>3. /\ attempt'[j] = attempt[j] /\ JobTrue(j)
          /\ j \in unanswered => j \in unanswered'
      BY <1>1 DEF FilesInv
    <2>4. QED BY <2>1, <2>2, <2>3 DEF JobTrue
  <1>5. \A u \in Uploads : UploadTrue(u)'
    BY <1>1 DEF FilesInv, UploadTrue, isAllowedMime
  <1>6. QED BY <1>2, <1>3, <1>4, <1>5 DEF FilesInv

\* A change of the copies that takes none away keeps the rest.
LEMMA CopiesKept ==
  ASSUME FilesInv, UNCHANGED <<upload, attempt, writer, original, row, swept>>,
         UNCHANGED unanswered, FilesTypeOK',
         \A x \in AllImages : /\ shown[x] # "none" => shown'[x] # "none"
                              /\ shown[x] = "deleted" => shown'[x] = "deleted"
                              /\ x \in aged => x \in aged'
                              /\ shown'[x] = "deleted" => shown[x] = "deleted" \/ x \in aged
  PROVE  FilesInv'
  BY DEF FilesInv, UploadTrue, ImageTrue, JobTrue, isAllowedMime

LEMMA FilesStepKeeps == FilesInv /\ [FilesNext]_fileVars => FilesInv'
  <1> SUFFICES ASSUME FilesInv, [FilesNext]_fileVars PROVE FilesInv'
    OBVIOUS
  <1>1. FilesTypeOK
    BY DEF FilesInv
  <1>2. \A j \in Jobs, i \in Images : <<j, i>> \in AllImages
    BY DEF AllImages
  <1>3. ASSUME NEW u \in Uploads,
               Refuse(u) \/ Store(u) \/ ValidateMagicBytes(u) \/ SanitizeImage(u)
                 \/ UploadFails(u)
        PROVE  FilesInv'
    <2>1. CASE Refuse(u)
      BY <2>1, UploadKept DEF Refuse
    <2>2. CASE Store(u)
      BY <2>2, UploadKept DEF Store
    <2>3. CASE ValidateMagicBytes(u)
      <3>1. CASE isAllowedMime(upload[u].is)
        BY <2>3, <3>1, UploadKept DEF ValidateMagicBytes
      <3>2. CASE ~isAllowedMime(upload[u].is)
        BY <2>3, <3>2, UploadKept DEF ValidateMagicBytes
      <3>3. QED BY <3>1, <3>2
    <2>4. CASE SanitizeImage(u)
      <3>1. upload[u].step = "sanitize" => isAllowedMime(upload[u].is)
        BY DEF FilesInv, UploadTrue
      <3>2. CASE upload[u].says \notin Pictures
        <4>1. UploadStep(u, "sanitize", "201", "raw")
          BY <2>4, <3>2 DEF SanitizeImage
        <4>2. upload[u].step = "sanitize"
          BY <4>1 DEF UploadStep
        <4>3. QED BY <3>1, <3>2, <4>1, <4>2, UploadKept
      <3>3. CASE upload[u].says \in Pictures
        <4>1. UploadStep(u, "sanitize", "201", "clean")
          BY <2>4, <3>3 DEF SanitizeImage
        <4>2. upload[u].step = "sanitize"
          BY <4>1 DEF UploadStep
        <4>3. QED BY <3>1, <4>1, <4>2, UploadKept
      <3>4. QED BY <3>2, <3>3
    <2>5. CASE UploadFails(u)
      <3>1. PICK step \in {"detect", "sanitize"} :
              UploadStep(u, step, "error", upload[u].disk)
        BY <2>5 DEF UploadFails
      <3>2. upload[u].disk \in {"none", "raw", "clean"}
        BY <1>1 DEF FilesTypeOK
      <3>3. QED BY <3>1, <3>2, UploadKept
    <2>6. QED BY <1>3, <2>1, <2>2, <2>3, <2>4, <2>5
  <1>4. ASSUME NEW j \in Jobs, Generate(j) PROVE FilesInv'
    <2>1. /\ attempt[j] = "queued" /\ attempt' = [attempt EXCEPT ![j] = "generating"]
          /\ writer' = [x \in AllImages |-> IF x[1] = j THEN "original" ELSE writer[x]]
          /\ UNCHANGED <<upload, original, shown, aged, row, unanswered, sweep, swept>>
      BY <1>4 DEF Generate
    <2>2. FilesTypeOK'
      BY <1>1, <2>1 DEF FilesTypeOK
    <2>3. ASSUME NEW x \in AllImages PROVE ImageTrue(x)'
      <3>1. PICK k \in Jobs, i \in Images : x = <<k, i>>
        BY DEF AllImages
      <3>2. CASE k = j
        <4>1. writer[x] = "none" /\ writer'[x] = "original"
          BY <1>2, <2>1, <3>1, <3>2 DEF FilesInv, JobTrue
        <4>2. ImageTrue(x)
          BY DEF FilesInv
        <4>3. QED BY <2>1, <4>1, <4>2 DEF ImageTrue
      <3>3. CASE k # j
        <4>1. writer'[x] = writer[x]
          BY <2>1, <3>1, <3>3
        <4>2. ImageTrue(x)
          BY DEF FilesInv
        <4>3. QED BY <2>1, <4>1, <4>2 DEF ImageTrue
      <3>4. QED BY <3>2, <3>3
    <2>4. ASSUME NEW k \in Jobs PROVE JobTrue(k)'
      <3>1. CASE k = j
        BY <1>1, <2>1, <3>1 DEF FilesTypeOK, JobTrue
      <3>2. CASE k # j
        <4>1. \A i \in Images : writer'[<<k, i>>] = writer[<<k, i>>]
          BY <1>2, <2>1, <3>2
        <4>2. attempt'[k] = attempt[k]
          BY <1>1, <2>1, <3>2 DEF FilesTypeOK
        <4>3. QED BY <2>1, <4>1, <4>2 DEF FilesInv, JobTrue
      <3>3. QED BY <3>1, <3>2
    <2>5. \A u \in Uploads : UploadTrue(u)'
      BY <2>1 DEF FilesInv, UploadTrue, isAllowedMime
    <2>6. QED BY <2>2, <2>3, <2>4, <2>5 DEF FilesInv
  <1>5. ASSUME NEW j \in Jobs, Complete(j) \/ FailJob(j) PROVE FilesInv'
    <2>1. /\ attempt' \in {[attempt EXCEPT ![j] = "completed"], [attempt EXCEPT ![j] = "failed"]}
          /\ unanswered' \in {unanswered, unanswered \cup {j}}
          /\ UNCHANGED <<upload, writer, original, shown, aged, row, sweep, swept>>
      BY <1>5 DEF Complete, FailJob
    <2>2. FilesTypeOK'
      BY <1>1, <2>1 DEF FilesTypeOK
    <2>3. JobTrue(j)'
      <3>1. CASE Complete(j)
        BY <1>1, <3>1 DEF Complete, FilesTypeOK, JobTrue
      <3>2. CASE FailJob(j)
        <4>1. attempt'[j] = "failed"
          BY <1>1, <3>2 DEF FailJob, FilesTypeOK
        <4>2. attempt[j] = "queued" => \A i \in Images : writer[<<j, i>>] = "none"
          BY DEF FilesInv, JobTrue
        <4>3. j \in unanswered' \/ \E i \in Images : writer'[<<j, i>>] \in {"none", "failed"}
          BY <3>2, <4>2 DEF FailJob
        <4>4. QED BY <4>1, <4>3 DEF JobTrue
      <3>3. QED BY <1>5, <3>1, <3>2
    <2>4. ASSUME NEW k \in Jobs, k # j PROVE JobTrue(k)'
      <3>1. attempt'[k] = attempt[k] /\ (k \in unanswered => k \in unanswered')
        BY <1>1, <2>1, <2>4 DEF FilesTypeOK
      <3>2. QED BY <2>1, <3>1 DEF FilesInv, JobTrue
    <2>5. \A x \in AllImages : ImageTrue(x)'
      <3>1. \A k : k \in unanswered => k \in unanswered'
        BY <2>1
      <3>2. QED BY <2>1, <3>1 DEF FilesInv, ImageTrue
    <2>6. \A u \in Uploads : UploadTrue(u)'
      BY <2>1 DEF FilesInv, UploadTrue, isAllowedMime
    <2>7. QED BY <2>2, <2>3, <2>4, <2>5, <2>6 DEF FilesInv
  <1>6. ASSUME NEW x \in AllImages, WriteOriginal(x) \/ Watermark(x) \/ WriteCopy(x)
                                      \/ CreateRow(x) \/ ImageFails(x)
        PROVE  FilesInv'
    <2>0. ImageTrue(x)
      BY DEF FilesInv
    <2>1. CASE WriteOriginal(x)
      <3>1. ImageTrue(x)'
        BY <1>1, <2>0, <2>1 DEF WriteOriginal, ImageStep, FilesTypeOK, ImageTrue
      <3>2. QED BY <2>1, <3>1, ImageKept DEF WriteOriginal
    <2>2. CASE Watermark(x)
      <3>1. ImageTrue(x)'
        BY <1>1, <2>0, <2>2 DEF Watermark, ImageStep, FilesTypeOK, ImageTrue
      <3>2. QED BY <2>2, <3>1, ImageKept DEF Watermark
    <2>3. CASE WriteCopy(x)
      <3>1. ImageTrue(x)'
        BY <1>1, <2>0, <2>3 DEF WriteCopy, ImageStep, FilesTypeOK, ImageTrue
      <3>2. QED BY <2>3, <3>1, ImageKept DEF WriteCopy
    <2>4. CASE CreateRow(x)
      <3>1. ImageTrue(x)'
        BY <1>1, <2>0, <2>4 DEF CreateRow, ImageStep, FilesTypeOK, ImageTrue
      <3>2. QED BY <2>4, <3>1, ImageKept DEF CreateRow
    <2>5. CASE ImageFails(x)
      <3>1. PICK step \in {"original", "mark", "copy", "row"} : ImageStep(x, step, "failed")
        BY <2>5 DEF ImageFails
      <3>2. /\ UNCHANGED <<original, shown, aged>> /\ row[x] \in BOOLEAN
            /\ row' \in {row, [row EXCEPT ![x] = writer[x] = "row"]}
            /\ unanswered' = IF row' = row THEN unanswered ELSE unanswered \cup {x[1]}
            /\ row \in [AllImages -> BOOLEAN] /\ writer[x] = step /\ writer'[x] = "failed"
        BY <1>1, <2>5, <3>1 DEF ImageFails, ImageStep, FilesTypeOK
      <3>3. ~row[x]
        BY <2>0, <3>1, <3>2 DEF ImageTrue
      <3>4. CASE row' = row
        <4>1. ImageTrue(x)'
          BY <2>0, <3>2, <3>3, <3>4 DEF ImageTrue
        <4>2. QED BY <3>1, <3>2, <3>4, <4>1, ImageKept
      <3>5. CASE row' # row
        <4>1. step = "row" /\ row' = [row EXCEPT ![x] = TRUE]
          <5>1. row' = [row EXCEPT ![x] = writer[x] = "row"]
            BY <3>2, <3>5
          <5>2. CASE writer[x] = "row"
            BY <3>2, <5>1, <5>2
          <5>3. CASE writer[x] # "row"
            <6>1. row' = [row EXCEPT ![x] = FALSE]
              BY <5>1, <5>3
            <6>2. row' = row
              BY <3>2, <3>3, <6>1
            <6>3. QED BY <3>5, <6>2
          <5>4. QED BY <5>2, <5>3
        <4>2. /\ unanswered' = unanswered \cup {x[1]} /\ row'[x]
              /\ original[x] /\ shown[x] # "none"
          BY <2>0, <3>2, <3>5, <4>1 DEF ImageTrue
        <4>3. ImageTrue(x)'
          BY <2>0, <3>2, <4>2 DEF ImageTrue
        <4>4. QED BY <3>1, <3>2, <4>1, <4>2, <4>3, ImageKept
      <3>6. QED BY <3>4, <3>5
    <2>6. QED BY <1>6, <2>1, <2>2, <2>3, <2>4, <2>5
  <1>7. ASSUME NEW x \in AllImages, DayPasses(x) \/ Unlink(x) PROVE FilesInv'
    <2>1. /\ FilesTypeOK'
          /\ UNCHANGED <<upload, attempt, writer, original, row, unanswered, swept>>
      BY <1>1, <1>7 DEF DayPasses, Unlink, FilesTypeOK
    <2>2. ASSUME NEW y \in AllImages
          PROVE  /\ shown[y] # "none" => shown'[y] # "none"
                 /\ shown[y] = "deleted" => shown'[y] = "deleted"
                 /\ y \in aged => y \in aged'
                 /\ shown'[y] = "deleted" => shown[y] = "deleted" \/ y \in aged
      BY <1>1, <1>7 DEF DayPasses, Unlink, FilesTypeOK
    <2>3. QED BY <2>1, <2>2, CopiesKept
  <1>8. CASE Walk
    <2>1. /\ FilesTypeOK'
          /\ UNCHANGED <<upload, attempt, writer, original, row, shown, aged, unanswered, swept>>
      BY <1>1, <1>8 DEF Walk, FilesTypeOK
    <2>2. QED BY <2>1, CopiesKept
  <1>9. CASE UNCHANGED fileVars
    <2>1. /\ FilesTypeOK'
          /\ UNCHANGED <<upload, attempt, writer, original, row, shown, aged, unanswered, swept>>
      BY <1>1, <1>9 DEF fileVars, imageVars, FilesTypeOK
    <2>2. QED BY <2>1, CopiesKept
  <1>10. QED BY <1>3, <1>4, <1>5, <1>6, <1>7, <1>8, <1>9 DEF FilesNext

LEMMA FilesInvHolds == FilesSpec => []FilesInv
  BY FilesAtFirst, FilesStepKeeps, PTL DEF FilesSpec

\* Uploads, jobs, writers, files and rows keep their types.
THEOREM FilesTypeCorrect == FilesSpec => []FilesTypeOK
  <1>1. FilesInv => FilesTypeOK
    BY DEF FilesInv
  <1>2. QED BY <1>1, FilesInvHolds, PTL

\* However many writers of however many jobs go on while others fail, and whatever
\* the script deletes meanwhile: a row has its original, and its copy until that is a
\* day old; a completed job has all its rows, and a failed one has not unless the
\* database failed at a row or at the end; an accepted upload is on the disk as it
\* should be.
THEOREM FilesBackRows == FilesSpec => []FilesMatchRows
  BY InvMatchesRows, FilesInvHolds, PTL
-------------------------------------------------------------------------------
(* All of them, as MCOutside runs them: each module takes its own steps. *)

LEMMA OutsideRunsAll ==
  Spec => ShipmentsSpec /\ MailSpec /\ LikesSpec /\ ProjectsSpec /\ FilesSpec
  <1>1. Init => ShipmentsInit /\ MailInit /\ LikesInit /\ ProjectsInit /\ FilesInit
    BY DEF Init
  <1>2. [Next]_allVars => /\ [ShipmentsNext]_shipmentVars /\ [MailNext]_mailVars
                          /\ [LikesNext]_likeVars /\ [ProjectsNext]_projectVars
                          /\ [FilesNext]_fileVars
    <2>1. UNCHANGED allVars => /\ UNCHANGED shipmentVars /\ UNCHANGED mailVars
                               /\ UNCHANGED likeVars /\ UNCHANGED projectVars
                               /\ UNCHANGED fileVars
      BY DEF allVars
    <2>2. QED BY <2>1 DEF Next
  <1>3. QED BY <1>1, <1>2, PTL
            DEF Spec, ShipmentsSpec, MailSpec, LikesSpec, ProjectsSpec, FilesSpec

\* Every variable of the module that runs has its type in every behaviour.
THEOREM OutsideTypeCorrect == Spec => []OutsideTypeOK
  <1>1. ShipmentsTypeOK /\ MailTypeOK /\ LikesTypeOK /\ ProjectsTypeOK /\ FilesTypeOK
          /\ part \in {"shipments", "mail", "likes", "projects", "files"} => OutsideTypeOK
    BY DEF OutsideTypeOK
  <1>2. Init => part \in {"shipments", "mail", "likes", "projects", "files"}
    BY DEF Init
  <1>3. [Next]_allVars /\ part \in {"shipments", "mail", "likes", "projects", "files"}
          => (part \in {"shipments", "mail", "likes", "projects", "files"})'
    BY DEF Next, allVars
  <1>4. QED BY <1>1, <1>2, <1>3, OutsideRunsAll, ShipmentsTypeCorrect, MailTypeCorrect,
               LikesTypeCorrect, ProjectsTypeCorrect, FilesTypeCorrect, PTL DEF Spec
===============================================================================
