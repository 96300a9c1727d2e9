---------------------------- MODULE DraftLifecycle ----------------------------
(***************************************************************************)
(* Drafts: how customers and designers take a draft from its creation to   *)
(* an order (draft.service.ts, raft-workflow.service.ts, selectController  *)
(* of ai.controller.ts).  Every request reads the draft row once, decides  *)
(* on that snapshot, and later updates the row by its id alone; the table  *)
(* has no version column.  Commit writes in a RepeatableRead transaction   *)
(* run by TransactionManager, but its read and its checks come before it.  *)
(*                                                                         *)
(* A slot is a request being served; it serves one after the other.  A     *)
(* request that is refused changes nothing, so only the others are steps.  *)
(* The JSON column data is the set of the sections it holds, except for    *)
(* data.revisions, whose length is notes.                                  *)
(***************************************************************************)
EXTENDS Integers, Sequences

CONSTANTS
  Slots, Drafts, Designers,
  NoOne,          \* not a designer
  Methods,        \* the methods drafts are created with
  Inputs,         \* what a request may ask
  MaxRevisions,   \* Draft.maxRevisions, env.MAX_DRAFT_REVISIONS
  MaxRetries,     \* TransactionConfig.DRAFT_COMMIT.maxRetries
  Faults          \* which of FaultKinds a behaviour may contain

Ops == {"update", "assign", "card", "ship", "billing", "select",
        "preview", "revision", "approve", "cancel", "commit"}
FaultKinds == {"error", "reset"}

ASSUME DraftAssumption ==
  /\ NoOne \notin Designers
  /\ Methods \subseteq {"upload", "ai", "artist"}
  /\ Inputs \subseteq [op : Ops, draft : Drafts, designer : Designers \cup {NoOne},
                       full : BOOLEAN]
  /\ \A i \in Inputs : i.op \in {"assign", "preview"} => i.designer \in Designers
  /\ MaxRevisions \in Nat /\ MaxRetries \in Nat
  /\ Faults \subseteq FaultKinds

VARIABLES
  draft,      \* draft[d]: the row, and its method "none" before it exists
  orders,     \* orders[d]: how many orders have d as their item
  history,    \* history[d]: revisionNumber of the revision_requested events
  pc, req,    \* the step a slot takes next, and for which input
  snap,       \* snap[s]: the draft row as s read it, where s uses it again
  tries,      \* retries of s's commit transaction
  stale,      \* stale[s]: the row has changed since s's transaction began
  exposed     \* exposed[d]: two requests were once between reading d and their
              \* last write of it at the same time, or lost the connection
              \* in the transaction (history)

slotVars == <<pc, req, snap, tries>>
vars == <<draft, orders, history, slotVars, stale, exposed>>

Statuses == {"PENDING", "IN_PROGRESS", "PREVIEW_SENT", "REVISION", "COMPLETED",
             "CANCELED"}
Settled == {"COMPLETED", "CANCELED"}
Sections == {"form", "messageCard", "billing", "aiSelected", "cancellation"}
Rows == [method : {"none", "upload", "ai", "artist"}, status : Statuses,
         revisions : Nat, designer : Designers \cup {NoOne}, card : BOOLEAN,
         shipping : BOOLEAN, data : SUBSET Sections, notes : Nat,
         committed : BOOLEAN]

Snapshots == [status : Statuses, revisions : Nat, data : SUBSET Sections, notes : Nat]

NewDraft(method) ==
  [method |-> method, status |-> "PENDING", revisions |-> 0, designer |-> NoOne,
   card |-> FALSE, shipping |-> FALSE, data |-> {}, notes |-> 0, committed |-> FALSE]
Absent == NewDraft("none")

NoRequest == [op |-> "none"]

\* The columns that some requests use after their checks.
Columns(row) == [status |-> row.status, revisions |-> row.revisions,
                 data |-> row.data, notes |-> row.notes]
Nothing == Columns(Absent)
UsesSnapshot(op) == op \in {"assign", "card", "billing", "select", "revision", "cancel"}

TypeOK ==
  /\ draft \in [Drafts -> Rows]
  /\ orders \in [Drafts -> Nat]
  /\ history \in [Drafts -> Seq(Nat)]
  /\ pc \in [Slots -> {"idle", "write", "event", "begin", "insert"}]
  /\ req \in [Slots -> Inputs \cup {NoRequest}]
  /\ \A s \in Slots : pc[s] # "idle" => req[s] \in Inputs
  /\ snap \in [Slots -> Snapshots]
  /\ tries \in [Slots -> 0 .. MaxRetries]
  /\ stale \in [Slots -> BOOLEAN]
  /\ exposed \in [Drafts -> BOOLEAN]

Draft(s) == req[s].draft
Row(s) == draft[Draft(s)]

\* s has read draft d and may still write it.
InFlight(s, d) == pc[s] \in {"write", "begin", "insert"} /\ Draft(s) = d

Init ==
  /\ draft = [d \in Drafts |-> Absent]
  /\ orders = [d \in Drafts |-> 0]
  /\ history = [d \in Drafts |-> <<>>]
  /\ pc = [s \in Slots |-> "idle"]
  /\ req = [s \in Slots |-> NoRequest]
  /\ snap = [s \in Slots |-> Nothing]
  /\ tries = [s \in Slots |-> 0]
  /\ stale = [s \in Slots |-> FALSE]
  /\ exposed = [d \in Drafts |-> FALSE]

Create(d) ==
  /\ draft[d] = Absent
  /\ \E m \in Methods : draft' = [draft EXCEPT ![d] = NewDraft(m)]
  /\ UNCHANGED <<orders, history, slotVars, stale, exposed>>
-------------------------------------------------------------------------------
(* A request: read and decide, then write. *)

Goto(s, next) == pc' = [pc EXCEPT ![s] = next] /\ UNCHANGED <<req, snap, tries>>

Done(s) ==
  /\ pc' = [pc EXCEPT ![s] = "idle"]
  /\ req' = [req EXCEPT ![s] = NoRequest]
  /\ snap' = [snap EXCEPT ![s] = Nothing]
  /\ tries' = [tries EXCEPT ![s] = 0]

\* The statuses an operation starts from: the transition table, and
\* canAssignDesigner.
From == [assign   |-> Statuses \ Settled,
         preview  |-> {"IN_PROGRESS", "REVISION"},
         revision |-> {"PREVIEW_SENT"},
         approve  |-> {"PREVIEW_SENT"},
         cancel   |-> Statuses \ Settled]

\* Mutants of CanCommit: an order does not rule out another one; the design
\* need not be approved.
CanCommitAgain(row) ==
  /\ row.card /\ row.shipping
  /\ row.method = "artist" => row.status = "COMPLETED"
CanCommitUnapproved(row) == ~row.committed /\ row.card /\ row.shipping

CanCommit(row) ==
  /\ ~row.committed
  /\ row.card /\ row.shipping
  /\ row.method = "artist" => row.status = "COMPLETED"

\* Mutant of CanRequestRevision: one revision too many.
CanRequestRevisionOnceMore(row) == row.revisions <= MaxRevisions

CanRequestRevision(row) == row.revisions < MaxRevisions

\* The checks of the handler for input, on the row it has read.  What they say
\* of steps, roles, cards, addresses and images is not modelled.
Accepts(input, row) ==
  /\ row.method # "none"
  /\ input.op \in DOMAIN From => row.status \in From[input.op]
  /\ input.op = "preview" => row.designer = input.designer
  /\ input.op = "revision" => CanRequestRevision(row)
  /\ input.op = "commit" => CanCommit(row)

Receive(s, input) ==
  /\ pc[s] = "idle"
  /\ Accepts(input, draft[input.draft])
  /\ pc' = [pc EXCEPT ![s] = IF input.op = "commit" THEN "begin" ELSE "write"]
  /\ req' = [req EXCEPT ![s] = input]
  /\ snap' = [snap EXCEPT ![s] = IF UsesSnapshot(input.op)
                                   THEN Columns(draft[input.draft]) ELSE Nothing]
  /\ exposed' = [exposed EXCEPT ![input.draft] =
                   @ \/ \E t \in Slots \ {s} : InFlight(t, input.draft)]
  /\ UNCHANGED <<draft, orders, history, tries, stale>>

Doing(s, op) == pc[s] = "write" /\ req[s].op = op

\* Open transactions that will find the row of draft d changed.
Outdated(d) ==
  [t \in Slots |-> stale[t] \/ (pc[t] = "insert" /\ Draft(t) = d)]

\* repository.update: the columns named, whatever the others are by now.
Store(s, row) ==
  /\ draft' = [draft EXCEPT ![Draft(s)] = row]
  /\ stale' = Outdated(Draft(s))
  /\ UNCHANGED <<orders, history, exposed>>

\* The row with data rewritten from the snapshot and one section set in it;
\* without the optional content the snapshot's data is all that is written.
Merged(s, section) ==
  [Row(s) EXCEPT !.notes = snap[s].notes,
                 !.data = snap[s].data \cup (IF req[s].full THEN {section} ELSE {})]

\* update: the client's data replaces the column; steps are not modelled.
Update(s) ==
  /\ Doing(s, "update")
  /\ Store(s, IF req[s].full THEN [Row(s) EXCEPT !.data = {"form"}, !.notes = 0]
              ELSE [Row(s) EXCEPT !.card = TRUE])
  /\ Done(s)

\* Mutant of Assign: the work is restarted whatever it had come to.
AssignRestarting(s) ==
  /\ Doing(s, "assign")
  /\ Store(s, [Row(s) EXCEPT !.designer = req[s].designer, !.status = "IN_PROGRESS"])
  /\ Done(s)

Assign(s) ==
  /\ Doing(s, "assign")
  /\ Store(s, [Row(s) EXCEPT
                 !.designer = req[s].designer,
                 !.status = IF snap[s].status = "PENDING" THEN "IN_PROGRESS" ELSE @])
  /\ Done(s)

SetMessageCard(s) ==
  /\ Doing(s, "card")
  /\ LET row == IF req[s].full THEN Merged(s, "messageCard") ELSE Row(s)
     IN  Store(s, [row EXCEPT !.card = TRUE])
  /\ Done(s)

\* From the body or from a saved address.
SetShipping(s) ==
  /\ Doing(s, "ship")
  /\ Store(s, [Row(s) EXCEPT !.shipping = TRUE])
  /\ Done(s)

\* Mutant of AddSection: the section becomes the whole of data.
AddSectionAlone(s) ==
  /\ \/ Doing(s, "billing") /\ Store(s, [Row(s) EXCEPT !.data = {"billing"}, !.notes = 0])
     \/ Doing(s, "select") /\ Store(s, [Row(s) EXCEPT !.data = {"aiSelected"}, !.notes = 0])
  /\ Done(s)

\* setBillingAddress, and selectController.
AddSection(s) ==
  /\ Doing(s, "billing") \/ Doing(s, "select")
  /\ Store(s, Merged(s, IF req[s].op = "billing" THEN "billing" ELSE "aiSelected"))
  /\ Done(s)

SendPreview(s) ==
  /\ Doing(s, "preview")
  /\ Store(s, [Row(s) EXCEPT !.status = "PREVIEW_SENT"])
  /\ Done(s)

\* The count is incremented by the database, the notes are appended to the
\* snapshot's.
RequestRevision(s) ==
  /\ Doing(s, "revision")
  /\ Store(s, [Row(s) EXCEPT
                 !.status = "REVISION", !.revisions = @ + 1,
                 !.data = snap[s].data,
                 !.notes = snap[s].notes + (IF req[s].full THEN 1 ELSE 0)])
  /\ Goto(s, "event")

\* The event, whose revisionNumber comes from the snapshot.
RecordRevision(s) ==
  /\ pc[s] = "event"
  /\ history' = [history EXCEPT ![Draft(s)] = Append(@, snap[s].revisions + 1)]
  /\ Done(s)
  /\ UNCHANGED <<draft, orders, stale, exposed>>

Approve(s) ==
  /\ Doing(s, "approve")
  /\ Store(s, [Row(s) EXCEPT !.status = "COMPLETED"])
  /\ Done(s)

\* Mutant of Cancel: the other spelling of the word.
CancelMisspelt(s) ==
  /\ Doing(s, "cancel")
  /\ Store(s, [Merged(s, "cancellation") EXCEPT !.status = "CANCELLED"])
  /\ Done(s)

Cancel(s) ==
  /\ Doing(s, "cancel")
  /\ Store(s, [Merged(s, "cancellation") EXCEPT !.status = "CANCELED"])
  /\ Done(s)
-------------------------------------------------------------------------------
(* Commit: the transaction and the retries of its manager. *)

\* The first statement fixes the transaction's view of the database.
Begin(s) ==
  /\ pc[s] = "begin"
  /\ stale' = [stale EXCEPT ![s] = FALSE]
  /\ Goto(s, "insert")
  /\ UNCHANGED <<draft, orders, history, exposed>>

\* Mutant of SaveOrder: the draft is not marked.
SaveOrderOnly(s) ==
  /\ orders' = [orders EXCEPT ![Draft(s)] = @ + 1]
  /\ UNCHANGED <<draft, stale>>

\* The order, its item and invoice, and committedAt.
SaveOrder(s) ==
  /\ orders' = [orders EXCEPT ![Draft(s)] = @ + 1]
  /\ draft' = [draft EXCEPT ![Draft(s)] = [Row(s) EXCEPT !.committed = TRUE]]
  /\ stale' = Outdated(Draft(s))

FinishCommit(s) ==
  /\ pc[s] = "insert" /\ ~stale[s]
  /\ SaveOrder(s)
  /\ Done(s)
  /\ UNCHANGED <<history, exposed>>

\* Whether an error has one of the codes isRetryableError knows is the
\* driver's choice.  A retry does not read the draft again.
RetryOrThrow(s) ==
  \/ /\ tries[s] < MaxRetries
     /\ pc' = [pc EXCEPT ![s] = "begin"]
     /\ tries' = [tries EXCEPT ![s] = @ + 1]
     /\ UNCHANGED <<req, snap>>
  \/ Done(s)

\* The update of a row that changed under the transaction fails.
Conflict(s) ==
  /\ pc[s] = "insert" /\ stale[s]
  /\ RetryOrThrow(s)
  /\ UNCHANGED <<draft, orders, history, stale, exposed>>

\* The connection is lost, before the transaction is committed or after it.
Reset(s) ==
  /\ "reset" \in Faults
  /\ pc[s] = "insert"
  /\ \/ ~stale[s] /\ SaveOrder(s)
     \/ UNCHANGED <<draft, orders, stale>>
  /\ RetryOrThrow(s)
  /\ exposed' = [exposed EXCEPT ![Draft(s)] = TRUE]
  /\ UNCHANGED history
-------------------------------------------------------------------------------
\* A database error, or the end of the process, wherever the request is.  In
\* the transaction also a failed insert of the invoice: its catch block does
\* not keep PostgreSQL from rolling back the rest.
Abort(s) ==
  /\ "error" \in Faults
  /\ pc[s] # "idle"
  /\ Done(s)
  /\ UNCHANGED <<draft, orders, history, stale, exposed>>

\* regenController's update of aiRegenCount: nothing of what is modelled here,
\* but a change of the row.
CountRegen(d) ==
  /\ draft[d].method # "none"
  /\ stale' = Outdated(d)
  /\ UNCHANGED <<draft, orders, history, slotVars, exposed>>

Serve(s) ==
  \/ Update(s) \/ Assign(s) \/ SetMessageCard(s) \/ SetShipping(s)
  \/ AddSection(s) \/ SendPreview(s) \/ RequestRevision(s) \/ RecordRevision(s)
  \/ Approve(s) \/ Cancel(s)
  \/ Begin(s) \/ FinishCommit(s) \/ Conflict(s) \/ Reset(s) \/ Abort(s)

Next ==
  \/ \E s \in Slots, input \in Inputs : Receive(s, input)
  \/ \E s \in Slots : Serve(s)
  \/ \E d \in Drafts : Create(d) \/ CountRegen(d)

Spec == Init /\ [][Next]_vars
-------------------------------------------------------------------------------
(* What the code keeps. *)

\* A draft becomes two orders only after overlapping requests, or a retry
\* after a lost connection, however its requests are ordered otherwise.
AtMostOneOrder == \A d \in Drafts : orders[d] <= 1 \/ exposed[d]

\* committedAt and the order are one transaction: a draft is marked exactly if
\* it has an order, whatever conflicts, resets and retries there were.
OrderMatchesCommit == \A d \in Drafts : draft[d].committed <=> orders[d] > 0

\* What was ordered can be made and sent: nothing that requests do before or
\* after the order takes the card, the address or the designer from the draft,
\* and the design of an artist's draft is and stays approved.
OrderComplete ==
  \A d \in Drafts :
    draft[d].committed =>
      /\ draft[d].card /\ draft[d].shipping
      /\ draft[d].method = "artist" =>
           /\ draft[d].designer \in Designers
           /\ draft[d].status = "COMPLETED" \/ exposed[d]

\* The revision limit is kept, and no two revision events have one number nor
\* a number that was not requested.
RevisionsNumbered ==
  \A d \in Drafts :
    ~exposed[d] =>
      /\ draft[d].revisions <= MaxRevisions
      /\ \A i \in DOMAIN history[d] :
           /\ history[d][i] \in 1 .. draft[d].revisions
           /\ \A j \in DOMAIN history[d] : history[d][i] = history[d][j] => i = j

\* Which status may follow which.
Follows == {<<"PENDING", "IN_PROGRESS">>, <<"IN_PROGRESS", "PREVIEW_SENT">>,
            <<"PREVIEW_SENT", "REVISION">>, <<"REVISION", "PREVIEW_SENT">>,
            <<"PREVIEW_SENT", "COMPLETED">>}
           \cup (Statuses \ Settled) \X {"CANCELED"}

\* The status of a draft moves as the transition table says, whatever mixture
\* of designers' and customers' requests moves it; so a settled draft stays so.
WorkflowFollowsTable ==
  [][\A d \in Drafts :
       draft'[d].status # draft[d].status /\ draft[d] # Absent /\ ~exposed[d] =>
         <<draft[d].status, draft'[d].status>> \in Follows]_vars

\* A request that adds to data keeps what other requests put there; only an
\* update replaces it.
NoSectionLost ==
  [][\A d \in Drafts :
       \/ exposed[d]
       \/ draft[d].data \subseteq draft'[d].data /\ draft[d].notes <= draft'[d].notes
       \/ \E s \in Slots : Update(s) /\ Draft(s) = d]_vars
-------------------------------------------------------------------------------
(* What the repository says and the code does not do. *)

\* Concurrent commits of a draft create one order.
OneOrderPerDraft == \A d \in Drafts : orders[d] <= 1
===============================================================================
