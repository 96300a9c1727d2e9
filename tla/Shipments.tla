-------------------------------- MODULE Shipments --------------------------------
(***************************************************************************)
(* ShipmentService: creating a shipment and registering it with the        *)
(* provider, the webhook of a carrier and the sync an admin asks for.      *)
(*                                                                         *)
(* A label is a (carrier, tracking number) pair.  What its carrier sends   *)
(* are reports numbered in the order it wrote them, each with one event    *)
(* and, but for SilentReports, a status of its own; it may send an old one *)
(* again.  Reports that name no known shipment or cannot be parsed are     *)
(* refused and change nothing, so they are no steps.                       *)
(***************************************************************************)
EXTENDS Integers, FiniteSets

CONSTANTS
  Labels,
  NoLabel,          \* not a label
  ShipmentSlots,    \* requests being served
  MaxReports,       \* bound: reports a carrier writes about any label
  ReportBound, PollBound,   \* bounds: reports and syncs of each label
  SilentReports     \* the reports that carry no status

ASSUME ShipmentsAssumption ==
  /\ NoLabel \notin Labels
  /\ MaxReports \in Nat
  /\ ReportBound \in [Labels -> 0 .. MaxReports] /\ PollBound \in [Labels -> Nat]
  /\ SilentReports \subseteq 1 .. MaxReports

VARIABLES
  shipment,     \* shipment[l]: whether the row exists, its status and whether
                \* its externalId is set
  events,       \* events[k]: the row with providerEventId k: the label of its
                \* shipment, and the label whose event it describes
  registering,  \* labels whose registerWithProvider runs in the background
  numbered,     \* labels whose carrier gives its events ids, counted from 1
  malformed,    \* reports whose event the database client refuses before it sends
                \* it: a date or an id that is none
  shipmentPc, shipmentReq,   \* the step a slot takes next, and for what
  sent, polls,  \* sent[l]: the newest report of l; polls[l]: how often l was polled
  handled,      \* handled[l]: reports of l whose transaction ended without an error,
                \* so that success is answered (history)
  undone,       \* undone[l]: those of which a failed upsert rolled all back (history)
  news,         \* news[l]: the status the carrier told last (history)
  registered,   \* registered[l]: calls of registerTracking for l (history)
  disordered    \* labels of which, since a report written alone and in order, two
                \* requests overlapped, an old report came again, or one was lost or
                \* rolled back (history)

shipmentSlotVars == <<shipmentPc, shipmentReq>>
carrierVars == <<numbered, malformed, sent, polls, handled, undone, news, registered,
                 disordered>>
shipmentVars == <<shipment, events, registering, shipmentSlotVars, carrierVars>>

\* A status is the number of the report that told it; 0 is created.
Created == 0
Polled == MaxReports + 1
ShipmentStatuses == 0 .. Polled

\* The id the carrier gave, else the shipment and the time; a poll's two events
\* have times of their own.
\* Mutant of EventKey: the time alone.
EventKeyByTime(l, n) == [label |-> NoLabel, at |-> n]
EventKey(l, n) == [label |-> IF l \in numbered THEN NoLabel ELSE l, at |-> n]
PollKeys(l) ==
  {[label |-> l, at |-> MaxReports + 2 * polls[l] + i] : i \in {1, 2}}

EventKeys == [label : Labels \cup {NoLabel}, at : Nat]
EventRows == [of : Labels, about : Labels]
NoShipmentRequest == [label |-> NoLabel, report |-> 0]

ShipmentsTypeOK ==
  /\ shipment \in [Labels -> [exists : BOOLEAN, status : ShipmentStatuses,
                              external : BOOLEAN]]
  /\ DOMAIN events \subseteq EventKeys /\ events \in [DOMAIN events -> EventRows]
  /\ registering \subseteq Labels /\ numbered \subseteq Labels
  /\ malformed \subseteq 1 .. MaxReports
  /\ shipmentPc \in [ShipmentSlots -> {"idle", "insert", "report", "poll", "sync"}]
  /\ shipmentReq \in [ShipmentSlots -> [label : Labels \cup {NoLabel},
                                        report : 0 .. Polled]]
  /\ sent \in [Labels -> 0 .. MaxReports] /\ polls \in [Labels -> Nat]
  /\ handled \in [Labels -> SUBSET (1 .. MaxReports)]
  /\ undone \in [Labels -> SUBSET (1 .. MaxReports)]
  /\ news \in [Labels -> ShipmentStatuses]
  /\ registered \in [Labels -> Nat] /\ disordered \subseteq Labels

ShipmentsInit ==
  /\ shipment = [l \in Labels |-> [exists |-> FALSE, status |-> Created,
                                   external |-> FALSE]]
  /\ events = [k \in {} |-> {}]
  /\ registering = {} /\ numbered \in SUBSET Labels
  /\ malformed \in SUBSET (1 .. MaxReports)
  /\ shipmentPc = [s \in ShipmentSlots |-> "idle"]
  /\ shipmentReq = [s \in ShipmentSlots |-> NoShipmentRequest]
  /\ sent = [l \in Labels |-> 0] /\ polls = [l \in Labels |-> 0]
  /\ handled = [l \in Labels |-> {}] /\ undone = [l \in Labels |-> {}]
  /\ news = [l \in Labels |-> Created]
  /\ registered = [l \in Labels |-> 0] /\ disordered = {}

ShipmentStart(s, next, l, n) ==
  /\ shipmentPc[s] = "idle"
  /\ shipmentPc' = [shipmentPc EXCEPT ![s] = next]
  /\ shipmentReq' = [shipmentReq EXCEPT ![s] = [label |-> l, report |-> n]]

ShipmentDone(s) ==
  /\ shipmentPc' = [shipmentPc EXCEPT ![s] = "idle"]
  /\ shipmentReq' = [shipmentReq EXCEPT ![s] = NoShipmentRequest]

\* The requests that are about to write what the carrier of l told.
Writing(l) ==
  {s \in ShipmentSlots :
     shipmentPc[s] \in {"report", "poll", "sync"} /\ shipmentReq[s].label = l}

DisorderIf(l, condition) ==
  disordered' = IF condition THEN disordered \cup {l} ELSE disordered

\* Upserts: an event known under its key keeps its shipment.
Upsert(l, keys) ==
  events' = [k \in DOMAIN events \cup keys |->
               IF k \notin keys THEN events[k]
               ELSE [of |-> IF k \in DOMAIN events THEN events[k].of ELSE l, about |-> l]]
-------------------------------------------------------------------------------
(* Creation, and the registration that runs behind the answer. *)

FindDuplicate(s, l) ==
  /\ ~shipment[l].exists
  /\ ShipmentStart(s, "insert", l, 0)
  /\ UNCHANGED <<shipment, events, registering, carrierVars>>

\* The unique pair makes the second of two inserts fail; an insert whose answer is
\* lost leaves a row that nothing registers.
InsertShipment(s) ==
  LET l == shipmentReq[s].label
  IN /\ shipmentPc[s] = "insert"
     /\ IF shipment[l].exists THEN UNCHANGED <<shipment, registering>>
        ELSE /\ shipment' = [shipment EXCEPT ![l].exists = TRUE]
             /\ (registering' = registering \cup {l} \/ UNCHANGED registering)
     /\ ShipmentDone(s)
     /\ UNCHANGED <<events, carrierVars>>

\* A failure before or after the call is swallowed, and nothing tries again.
Register(l) ==
  /\ l \in registering
  /\ registering' = registering \ {l}
  /\ \/ /\ registered' = [registered EXCEPT ![l] = @ + 1]
        /\ \E recorded \in BOOLEAN :
             shipment' = [shipment EXCEPT ![l].external = @ \/ recorded]
     \/ UNCHANGED <<registered, shipment>>
  /\ UNCHANGED <<events, shipmentSlotVars, numbered, malformed, sent, polls, handled,
                 undone, news, disordered>>
-------------------------------------------------------------------------------
(* The webhook: find the shipment, then one transaction. *)

\* A new report, or one sent before.
ReportArrives(s, l, n) ==
  /\ shipment[l].exists
  /\ n <= sent[l] + 1 /\ n <= ReportBound[l]
  /\ ShipmentStart(s, "report", l, n)
  /\ sent' = [sent EXCEPT ![l] = IF n > @ THEN n ELSE @]
  /\ news' = IF n > sent[l] /\ n \notin SilentReports THEN [news EXCEPT ![l] = n] ELSE news
  /\ DisorderIf(l, n <= sent[l] \/ Writing(l) # {})
  /\ UNCHANGED <<shipment, events, registering, numbered, malformed, polls, handled,
                 undone, registered>>

\* The carrier's order is restored by a status that was written while no other
\* request about the shipment was under way.
WriteStatus(s, l, status) ==
  /\ shipment' = [shipment EXCEPT ![l].status = status]
  /\ disordered' = IF Writing(l) = {s} /\ news[l] = status THEN disordered \ {l}
                   ELSE disordered

\* The status, and the event unless the client refuses it, which the catch around
\* the upsert swallows.
WriteReport(s) ==
  LET l == shipmentReq[s].label
      n == shipmentReq[s].report
  IN /\ shipmentPc[s] = "report"
     /\ IF n \in SilentReports THEN UNCHANGED <<shipment, disordered>>
        ELSE WriteStatus(s, l, n)
     /\ IF n \in malformed THEN UNCHANGED <<events, undone>>
        ELSE /\ Upsert(l, {EventKey(l, n)})
             /\ undone' = [undone EXCEPT ![l] = @ \ {n}]
     /\ handled' = [handled EXCEPT ![l] = @ \cup {n}]
     /\ ShipmentDone(s)
     /\ UNCHANGED <<registering, numbered, malformed, sent, polls, news, registered>>

\* The database refuses an upsert: the catch swallows that too, the commit of the
\* transaction rolls it back without an error, and the answer is success.
UpsertFails(s) ==
  LET l == shipmentReq[s].label
      n == shipmentReq[s].report
  IN /\ \/ /\ shipmentPc[s] = "report" /\ n \notin malformed
           /\ handled' = [handled EXCEPT ![l] = @ \cup {n}]
           /\ undone' = IF n \in handled[l] THEN undone
                        ELSE [undone EXCEPT ![l] = @ \cup {n}]
        \/ /\ shipmentPc[s] = "sync"
           /\ UNCHANGED <<handled, undone>>
     /\ DisorderIf(l, n \notin SilentReports \cup {0})
     /\ ShipmentDone(s)
     /\ UNCHANGED <<shipment, events, registering, numbered, malformed, sent, polls,
                    news, registered>>
-------------------------------------------------------------------------------
(* The sync: read the row, ask the provider, then one transaction. *)

SyncRead(s, l) ==
  /\ shipment[l].exists
  /\ ShipmentStart(s, "poll", l, 0)
  /\ DisorderIf(l, Writing(l) # {})
  /\ UNCHANGED <<shipment, events, registering, numbered, malformed, sent, polls,
                 handled, undone, news, registered>>

\* The status, unless the call that fetches it fails.
Poll(s) ==
  LET l == shipmentReq[s].label
  IN /\ shipmentPc[s] = "poll"
     /\ polls[l] < PollBound[l]
     /\ polls' = [polls EXCEPT ![l] = @ + 1]
     /\ \/ /\ shipmentReq' = [shipmentReq EXCEPT ![s].report = Polled]
           /\ news' = [news EXCEPT ![l] = Polled]
        \/ UNCHANGED <<shipmentReq, news>>
     /\ shipmentPc' = [shipmentPc EXCEPT ![s] = "sync"]
     /\ UNCHANGED <<shipment, events, registering, numbered, malformed, sent,
                    handled, undone, registered, disordered>>

\* The status and the events, of each what was fetched.
WriteSync(s) ==
  LET l == shipmentReq[s].label
  IN /\ shipmentPc[s] = "sync"
     /\ IF shipmentReq[s].report = Polled THEN WriteStatus(s, l, Polled)
        ELSE UNCHANGED <<shipment, disordered>>
     /\ (Upsert(l, PollKeys(l)) \/ UNCHANGED events)
     /\ ShipmentDone(s)
     /\ UNCHANGED <<registering, numbered, malformed, sent, polls, handled, undone,
                    news, registered>>

\* A status the schema does not know, a database error before the first upsert or
\* at the commit, or a crash: nothing is written and the request fails.
ShipmentAbort(s) ==
  /\ shipmentPc[s] # "idle"
  /\ DisorderIf(shipmentReq[s].label, shipmentPc[s] \in {"report", "sync"})
  /\ ShipmentDone(s)
  /\ UNCHANGED <<shipment, events, registering, numbered, malformed, sent, polls,
                 handled, undone, news, registered>>

ShipmentsNext ==
  \/ \E l \in Labels :
       \/ Register(l)
       \/ \E s \in ShipmentSlots :
            \/ FindDuplicate(s, l) \/ SyncRead(s, l)
            \/ \E n \in 1 .. MaxReports : ReportArrives(s, l, n)
  \/ \E s \in ShipmentSlots :
       \/ InsertShipment(s) \/ WriteReport(s) \/ Poll(s) \/ WriteSync(s)
       \/ UpsertFails(s) \/ ShipmentAbort(s)

ShipmentsSpec == ShipmentsInit /\ [][ShipmentsNext]_shipmentVars
-------------------------------------------------------------------------------
\* A shipment shows what its carrier told last, by webhook or when polled, as
\* soon as no request about it is under way; reports that overlapped, came again,
\* were lost or were rolled back break that, until one is written alone and in order.
StatusIsNews ==
  \A l \in Labels : l \in disordered \/ Writing(l) # {} \/ shipment[l].status = news[l]

\* The event of report n is kept, under its own shipment and as its own carrier
\* described it, unless another carrier gave an event the same id.
Kept(l, n) ==
  \/ \E other \in Labels \ {l} : {l, other} \subseteq numbered /\ n \in handled[other]
  \/ /\ EventKey(l, n) \in DOMAIN events
     /\ events[EventKey(l, n)] = [of |-> l, about |-> l]

\* Each report answered with success keeps its event, but for one that the database
\* client refused and one whose upsert failed and took all back.
EventsKept == \A l \in Labels : \A n \in handled[l] \ (malformed \cup undone[l]) : Kept(l, n)

\* The status a shipment shows has its event: the two are written together or not,
\* but for an event that the database client refused.
StatusHasEvent ==
  \A l \in Labels :
    shipment[l].status \in (1 .. MaxReports) \ malformed => Kept(l, shipment[l].status)

\* Two creations that raced register a label once.
RegisteredOnce ==
  \A l \in Labels : registered[l] <= 1 /\ (shipment[l].external => registered[l] = 1)

ShipmentFollowsCarrier == StatusIsNews /\ EventsKept /\ StatusHasEvent /\ RegisteredOnce
==================================================================================
