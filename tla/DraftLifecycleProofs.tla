------------------------- MODULE DraftLifecycleProofs -------------------------
(***************************************************************************)
(* What DraftLifecycle's requests keep, for any number of requests served  *)
(* at a time and any of the faults.  The argument has two parts: what any  *)
(* write may do to the row (Effect), and that until two requests overlap   *)
(* on a draft whoever is in flight on it still sees the row it read        *)
(* (FreshView).                                                            *)
(***************************************************************************)
EXTENDS DraftLifecycle, TLAPS

-------------------------------------------------------------------------------
(* Types, and the shape of a write. *)

\* What DraftAssumption says of the fields of an input.
LEMMA InputsTyped ==
  ASSUME NEW input \in Inputs
  PROVE  /\ input.op \in Ops /\ input.draft \in Drafts
         /\ input.designer \in Designers \cup {NoOne} /\ input.full \in BOOLEAN
         /\ input.op \in {"assign", "preview"} => input.designer \in Designers
  BY DraftAssumption

\* A request being served has a draft, a row and a snapshot of the right types.
LEMMA BusyTyped ==
  ASSUME TypeOK, NEW s \in Slots, pc[s] # "idle"
  PROVE  /\ req[s] \in Inputs /\ req[s].op \in Ops /\ req[s].full \in BOOLEAN
         /\ Draft(s) \in Drafts /\ Row(s) \in Rows /\ snap[s] \in Snapshots
         /\ req[s].op = "assign" => req[s].designer \in Designers
  <1>1. req[s] \in Inputs /\ snap[s] \in Snapshots /\ draft \in [Drafts -> Rows]
    BY DEF TypeOK
  <1>2. QED BY <1>1, InputsTyped DEF Draft, Row

\* What a write of s may make of the row it finds.
Effect(s, row) ==
  /\ row \in Rows
  /\ row.method = Row(s).method /\ row.committed = Row(s).committed
  /\ Row(s).card => row.card
  /\ Row(s).shipping => row.shipping
  /\ row.designer = Row(s).designer \/ row.designer \in Designers
  /\ \/ row.status = Row(s).status
     \/ /\ req[s].op = "assign" /\ snap[s].status = "PENDING"
        /\ row.status = "IN_PROGRESS" /\ row.designer \in Designers
     \/ req[s].op = "preview" /\ row.status = "PREVIEW_SENT"
     \/ req[s].op = "revision" /\ row.status = "REVISION"
     \/ req[s].op = "approve" /\ row.status = "COMPLETED"
     \/ req[s].op = "cancel" /\ row.status = "CANCELED"
  /\ row.revisions = Row(s).revisions + (IF req[s].op = "revision" THEN 1 ELSE 0)
  /\ \/ row.data = Row(s).data /\ row.notes = Row(s).notes
     \/ /\ UsesSnapshot(req[s].op)
        /\ snap[s].data \subseteq row.data /\ snap[s].notes <= row.notes
     \/ req[s].op = "update"

\* A write, and where it leaves s.
Writes(s) ==
  /\ pc[s] = "write"
  /\ \E row \in Rows : Effect(s, row) /\ Store(s, row)
  /\ \/ req[s].op # "revision" /\ Done(s)
     \/ req[s].op = "revision" /\ Goto(s, "event")

\* Merging a section into data leaves the rest of the row alone, and loses
\* nothing of the snapshot.
LEMMA MergedTyped ==
  ASSUME TypeOK, NEW s \in Slots, pc[s] # "idle", NEW section \in Sections
  PROVE  /\ Merged(s, section) \in Rows
         /\ Merged(s, section).method = Row(s).method
         /\ Merged(s, section).status = Row(s).status
         /\ Merged(s, section).revisions = Row(s).revisions
         /\ Merged(s, section).designer = Row(s).designer
         /\ Merged(s, section).card = Row(s).card
         /\ Merged(s, section).shipping = Row(s).shipping
         /\ Merged(s, section).committed = Row(s).committed
         /\ snap[s].data \subseteq Merged(s, section).data
         /\ Merged(s, section).notes = snap[s].notes
  <1>1. Row(s) \in Rows /\ snap[s] \in Snapshots
    BY BusyTyped
  <1>2. snap[s].data \in SUBSET Sections /\ snap[s].notes \in Nat
    BY <1>1 DEF Snapshots
  <1>3. snap[s].data \cup (IF req[s].full THEN {section} ELSE {}) \in SUBSET Sections
    BY <1>2
  <1>4. QED BY <1>1, <1>2, <1>3 DEF Merged, Rows

\* Every writing request writes as Effect says.
LEMMA RequestsWrite ==
  ASSUME TypeOK, NEW s \in Slots,
         Update(s) \/ Assign(s) \/ SetMessageCard(s) \/ SetShipping(s) \/ AddSection(s)
           \/ SendPreview(s) \/ RequestRevision(s) \/ Approve(s) \/ Cancel(s)
  PROVE  Writes(s)
  <1>1. pc[s] = "write"
    BY DEF Update, Assign, SetMessageCard, SetShipping, AddSection, SendPreview,
           RequestRevision, Approve, Cancel, Doing
  <1>2. /\ req[s].full \in BOOLEAN /\ Row(s) \in Rows /\ snap[s] \in Snapshots
        /\ req[s].op = "assign" => req[s].designer \in Designers
    BY <1>1, BusyTyped
  <1>3. CASE Update(s)
    <2> DEFINE row == IF req[s].full THEN [Row(s) EXCEPT !.data = {"form"}, !.notes = 0]
                      ELSE [Row(s) EXCEPT !.card = TRUE]
    <2>1. row \in Rows
      BY <1>2 DEF Rows, Sections
    <2>2. Effect(s, row)
      BY <1>2, <1>3, <2>1 DEF Effect, Update, Doing, Rows
    <2>3. QED BY <1>1, <1>3, <2>1, <2>2 DEF Writes, Update, Doing
  <1>4. CASE Assign(s)
    <2> DEFINE row == [Row(s) EXCEPT !.designer = req[s].designer,
                         !.status = IF snap[s].status = "PENDING" THEN "IN_PROGRESS"
                                    ELSE Row(s).status]
    <2>1. Store(s, row) /\ Done(s) /\ req[s].op = "assign"
      BY <1>4 DEF Assign, Doing
    <2>2. row \in Rows
      BY <1>2, <2>1 DEF Rows, Statuses
    <2>3. Effect(s, row)
      BY <1>2, <2>1, <2>2 DEF Effect, Rows
    <2>4. QED BY <1>1, <2>1, <2>2, <2>3 DEF Writes
  <1>5. CASE SetMessageCard(s)
    <2> DEFINE old == IF req[s].full THEN Merged(s, "messageCard") ELSE Row(s)
               row == [old EXCEPT !.card = TRUE]
    <2>1. Store(s, row) /\ Done(s) /\ req[s].op = "card"
      BY <1>5 DEF SetMessageCard, Doing
    <2>2. /\ old \in Rows
          /\ old.method = Row(s).method /\ old.committed = Row(s).committed
          /\ old.shipping = Row(s).shipping /\ old.designer = Row(s).designer
          /\ old.status = Row(s).status /\ old.revisions = Row(s).revisions
          /\ \/ old.data = Row(s).data /\ old.notes = Row(s).notes
             \/ snap[s].data \subseteq old.data /\ snap[s].notes <= old.notes
      BY <1>1, <1>2, MergedTyped DEF Sections, Snapshots
    <2> HIDE DEF old
    <2>3. row \in Rows
      BY <2>2 DEF Rows
    <2>4. Effect(s, row)
      BY <1>2, <2>1, <2>2, <2>3 DEF Effect, Rows, UsesSnapshot
    <2>5. QED BY <1>1, <2>1, <2>3, <2>4 DEF Writes
  <1>6. CASE SetShipping(s)
    <2> DEFINE row == [Row(s) EXCEPT !.shipping = TRUE]
    <2>1. row \in Rows
      BY <1>2 DEF Rows
    <2>2. Effect(s, row)
      BY <1>2, <1>6, <2>1 DEF Effect, SetShipping, Doing, Rows
    <2>3. QED BY <1>1, <1>6, <2>1, <2>2 DEF Writes, SetShipping, Doing
  <1>7. CASE AddSection(s)
    <2> DEFINE section == IF req[s].op = "billing" THEN "billing" ELSE "aiSelected"
               row == Merged(s, section)
    <2>1. Store(s, row) /\ Done(s) /\ req[s].op \in {"billing", "select"}
      BY <1>7 DEF AddSection, Doing
    <2>2. section \in Sections
      BY DEF Sections
    <2>3. Effect(s, row)
      BY <1>1, <1>2, <2>1, <2>2, MergedTyped DEF Effect, Rows, Snapshots, UsesSnapshot
    <2>4. QED BY <1>1, <2>1, <2>3 DEF Writes, Effect
  <1>8. CASE SendPreview(s)
    <2> DEFINE row == [Row(s) EXCEPT !.status = "PREVIEW_SENT"]
    <2>1. row \in Rows
      BY <1>2 DEF Rows, Statuses
    <2>2. Effect(s, row)
      BY <1>2, <1>8, <2>1 DEF Effect, SendPreview, Doing, Rows
    <2>3. QED BY <1>1, <1>8, <2>1, <2>2 DEF Writes, SendPreview, Doing
  <1>9. CASE RequestRevision(s)
    <2> DEFINE notes == snap[s].notes + (IF req[s].full THEN 1 ELSE 0)
               row == [Row(s) EXCEPT
                         !.status = "REVISION", !.revisions = Row(s).revisions + 1,
                         !.data = snap[s].data, !.notes = notes]
    <2>1. Store(s, row) /\ Goto(s, "event") /\ req[s].op = "revision"
      BY <1>9 DEF RequestRevision, Doing
    <2>2. /\ notes \in Nat /\ snap[s].notes <= notes
          /\ snap[s].data \in SUBSET Sections
          /\ Row(s).revisions + 1 \in Nat
      <3>1. snap[s].notes \in Nat /\ snap[s].data \in SUBSET Sections
        BY <1>2 DEF Snapshots
      <3>2. Row(s).revisions \in Nat
        BY <1>2 DEF Rows
      <3>3. QED BY <3>1, <3>2
    <2> HIDE DEF notes
    <2>3. row \in Rows
      BY <1>2, <2>2 DEF Rows, Statuses
    <2>4. Effect(s, row)
      BY <1>2, <2>1, <2>2, <2>3 DEF Effect, Rows, UsesSnapshot
    <2>5. QED BY <1>1, <2>1, <2>3, <2>4 DEF Writes
  <1>10. CASE Approve(s)
    <2> DEFINE row == [Row(s) EXCEPT !.status = "COMPLETED"]
    <2>1. row \in Rows
      BY <1>2 DEF Rows, Statuses
    <2>2. Effect(s, row)
      BY <1>2, <1>10, <2>1 DEF Effect, Approve, Doing, Rows
    <2>3. QED BY <1>1, <1>10, <2>1, <2>2 DEF Writes, Approve, Doing
  <1>11. CASE Cancel(s)
    <2> DEFINE old == Merged(s, "cancellation")
               row == [old EXCEPT !.status = "CANCELED"]
    <2>1. Store(s, row) /\ Done(s) /\ req[s].op = "cancel"
      BY <1>11 DEF Cancel, Doing
    <2>2. /\ old \in Rows
          /\ old.method = Row(s).method /\ old.committed = Row(s).committed
          /\ old.card = Row(s).card /\ old.shipping = Row(s).shipping
          /\ old.designer = Row(s).designer /\ old.revisions = Row(s).revisions
          /\ snap[s].data \subseteq old.data /\ snap[s].notes <= old.notes
      BY <1>1, <1>2, MergedTyped DEF Sections, Snapshots
    <2> HIDE DEF old
    <2>3. row \in Rows
      BY <2>2 DEF Rows, Statuses
    <2>4. Effect(s, row)
      BY <1>2, <2>1, <2>2, <2>3 DEF Effect, Rows, UsesSnapshot
    <2>5. QED BY <1>1, <2>1, <2>3, <2>4 DEF Writes
  <1>12. QED
    BY <1>3, <1>4, <1>5, <1>6, <1>7, <1>8, <1>9, <1>10, <1>11

\* The steps that change state, the nine writes taken together.
LEMMA Steps ==
  ASSUME TypeOK, [Next]_vars
  PROVE  \/ \E s \in Slots, input \in Inputs : Receive(s, input)
         \/ \E s \in Slots : Writes(s) /\ (req[s].op = "update" => Update(s))
         \/ \E s \in Slots : RecordRevision(s)
         \/ \E s \in Slots : Begin(s)
         \/ \E s \in Slots : FinishCommit(s)
         \/ \E s \in Slots : Conflict(s)
         \/ \E s \in Slots : Reset(s)
         \/ \E s \in Slots : Abort(s)
         \/ \E d \in Drafts : Create(d)
         \/ \E d \in Drafts : CountRegen(d)
         \/ UNCHANGED vars
  <1>1. ASSUME NEW s \in Slots,
               \/ Update(s) \/ Assign(s) \/ SetMessageCard(s) \/ SetShipping(s)
               \/ AddSection(s) \/ SendPreview(s) \/ RequestRevision(s) \/ Approve(s)
               \/ Cancel(s)
        PROVE  Writes(s) /\ (req[s].op = "update" => Update(s))
    <2>1. Writes(s)
      BY <1>1, RequestsWrite
    <2>2. req[s].op = "update" => Update(s)
      BY <1>1 DEF Assign, SetMessageCard, SetShipping, AddSection, SendPreview,
                  RequestRevision, Approve, Cancel, Doing
    <2>3. QED BY <2>1, <2>2
  <1>2. QED BY <1>1 DEF Next, Serve

\* Values from which the slots' variables start and to which they return.
LEMMA IdleTyped == Nothing \in Snapshots /\ Absent \in Rows
  BY DEF Nothing, Columns, Absent, NewDraft, Snapshots, Rows, Statuses, Sections

\* A request that ends leaves the variables of the slots typed.
LEMMA DoneTyped ==
  ASSUME TypeOK, NEW s \in Slots, Done(s)
  PROVE  /\ pc' \in [Slots -> {"idle", "write", "event", "begin", "insert"}]
         /\ req' \in [Slots -> Inputs \cup {NoRequest}]
         /\ \A t \in Slots : pc'[t] # "idle" => req'[t] \in Inputs
         /\ snap' \in [Slots -> Snapshots]
         /\ tries' \in [Slots -> 0 .. MaxRetries]
  BY IdleTyped, DraftAssumption DEF TypeOK, Done

\* So does a commit that is retried or given up.
LEMMA RetryTyped ==
  ASSUME TypeOK, NEW s \in Slots, pc[s] # "idle", RetryOrThrow(s)
  PROVE  /\ pc' \in [Slots -> {"idle", "write", "event", "begin", "insert"}]
         /\ req' \in [Slots -> Inputs \cup {NoRequest}]
         /\ \A t \in Slots : pc'[t] # "idle" => req'[t] \in Inputs
         /\ snap' \in [Slots -> Snapshots]
         /\ tries' \in [Slots -> 0 .. MaxRetries]
  <1>1. CASE Done(s)
    BY <1>1, DoneTyped
  <1>2. CASE /\ tries[s] < MaxRetries
             /\ pc' = [pc EXCEPT ![s] = "begin"]
             /\ tries' = [tries EXCEPT ![s] = @ + 1]
             /\ UNCHANGED <<req, snap>>
    <2>1. tries[s] + 1 \in 0 .. MaxRetries
      BY <1>2, DraftAssumption DEF TypeOK
    <2>2. QED BY <1>2, <2>1 DEF TypeOK
  <1>3. QED BY <1>1, <1>2 DEF RetryOrThrow

\* The row and the order count after SaveOrder.
LEMMA SaveOrderTyped ==
  ASSUME TypeOK, NEW s \in Slots, pc[s] # "idle", SaveOrder(s)
  PROVE  /\ draft' \in [Drafts -> Rows]
         /\ orders' \in [Drafts -> Nat]
         /\ stale' \in [Slots -> BOOLEAN]
  <1>1. Draft(s) \in Drafts /\ Row(s) \in Rows
    BY BusyTyped
  <1>2. [Row(s) EXCEPT !.committed = TRUE] \in Rows
    BY <1>1 DEF Rows
  <1>3. orders[Draft(s)] + 1 \in Nat
    BY <1>1 DEF TypeOK
  <1>4. QED BY <1>1, <1>2, <1>3 DEF TypeOK, SaveOrder, Outdated

\* No step leaves the types.
LEMMA TypeStep ==
  ASSUME TypeOK, [Next]_vars
  PROVE  TypeOK'
  <1>1. CASE \E s \in Slots, input \in Inputs : Receive(s, input)
    <2>1. PICK s \in Slots, input \in Inputs : Receive(s, input)
      BY <1>1
    <2>2. input.draft \in Drafts /\ draft[input.draft] \in Rows
      BY InputsTyped DEF TypeOK
    <2>3. Columns(draft[input.draft]) \in Snapshots
      BY <2>2 DEF Columns, Snapshots, Rows
    <2>4. (exposed[input.draft] \/ \E t \in Slots \ {s} : InFlight(t, input.draft)) \in BOOLEAN
      BY <2>2 DEF TypeOK
    <2>5. exposed' \in [Drafts -> BOOLEAN]
      BY <2>1, <2>2, <2>4 DEF TypeOK, Receive
    <2>6. snap' \in [Slots -> Snapshots]
      BY <2>1, <2>3, IdleTyped DEF TypeOK, Receive
    <2>7. /\ pc' \in [Slots -> {"idle", "write", "event", "begin", "insert"}]
          /\ req' \in [Slots -> Inputs \cup {NoRequest}]
          /\ \A t \in Slots : pc'[t] # "idle" => req'[t] \in Inputs
      BY <2>1 DEF TypeOK, Receive
    <2>8. QED BY <2>1, <2>5, <2>6, <2>7 DEF TypeOK, Receive
  <1>2. CASE \E s \in Slots : Writes(s)
    <2>1. PICK s \in Slots : Writes(s)
      BY <1>2
    <2>2. PICK row \in Rows : Store(s, row)
      BY <2>1 DEF Writes
    <2>3. /\ draft' \in [Drafts -> Rows] /\ stale' \in [Slots -> BOOLEAN]
          /\ UNCHANGED <<orders, history, exposed>>
      BY <2>2 DEF TypeOK, Store, Outdated
    <2>4. CASE Done(s)
      BY <2>3, <2>4, DoneTyped DEF TypeOK
    <2>5. CASE Goto(s, "event")
      BY <2>1, <2>3, <2>5 DEF TypeOK, Goto, Writes
    <2>6. QED BY <2>1, <2>4, <2>5 DEF Writes
  <1>3. CASE \E s \in Slots : RecordRevision(s)
    <2>1. PICK s \in Slots : RecordRevision(s)
      BY <1>3
    <2>2. Draft(s) \in Drafts /\ snap[s] \in Snapshots
      BY <2>1, BusyTyped DEF RecordRevision
    <2>3. snap[s].revisions + 1 \in Nat
      BY <2>2 DEF Snapshots
    <2>4. history' \in [Drafts -> Seq(Nat)]
      BY <2>1, <2>2, <2>3 DEF TypeOK, RecordRevision
    <2>5. QED BY <2>1, <2>4, DoneTyped DEF TypeOK, RecordRevision
  <1>4. CASE \E s \in Slots : Begin(s)
    BY <1>4 DEF TypeOK, Begin, Goto
  <1>5. CASE \E s \in Slots : FinishCommit(s)
    <2>1. PICK s \in Slots : FinishCommit(s)
      BY <1>5
    <2>2. QED BY <2>1, SaveOrderTyped, DoneTyped DEF TypeOK, FinishCommit
  <1>6. CASE \E s \in Slots : Conflict(s)
    <2>1. PICK s \in Slots : Conflict(s)
      BY <1>6
    <2>2. QED BY <2>1, RetryTyped DEF TypeOK, Conflict
  <1>7. CASE \E s \in Slots : Reset(s)
    <2>1. PICK s \in Slots : Reset(s)
      BY <1>7
    <2>2. /\ draft' \in [Drafts -> Rows] /\ orders' \in [Drafts -> Nat]
          /\ stale' \in [Slots -> BOOLEAN]
      BY <2>1, SaveOrderTyped DEF TypeOK, Reset
    <2>3. exposed' \in [Drafts -> BOOLEAN] /\ history' = history
      BY <2>1 DEF TypeOK, Reset
    <2>4. QED BY <2>1, <2>2, <2>3, RetryTyped DEF TypeOK, Reset
  <1>8. CASE \E s \in Slots : Abort(s)
    <2>1. PICK s \in Slots : Abort(s)
      BY <1>8
    <2>2. QED BY <2>1, DoneTyped DEF TypeOK, Abort
  <1>9. CASE \E d \in Drafts : Create(d)
    <2>1. PICK d \in Drafts : Create(d)
      BY <1>9
    <2>2. \A m \in Methods : NewDraft(m) \in Rows
      BY DraftAssumption DEF NewDraft, Rows, Statuses, Sections
    <2>3. draft' \in [Drafts -> Rows]
      BY <2>1, <2>2 DEF TypeOK, Create
    <2>4. QED BY <2>1, <2>3 DEF TypeOK, Create, slotVars
  <1>10. CASE \E d \in Drafts : CountRegen(d)
    BY <1>10 DEF TypeOK, CountRegen, Outdated, slotVars
  <1>11. CASE UNCHANGED vars
    BY <1>11 DEF TypeOK, vars, slotVars
  <1>12. QED
    BY <1>1, <1>2, <1>3, <1>4, <1>5, <1>6, <1>7, <1>8, <1>9, <1>10, <1>11, Steps

\* Every reachable state is typed: among others the count of retries stays
\* within its limit, and no write leaves an unknown status or section.
THEOREM TypeCorrect == Spec => []TypeOK
  <1>1. Init => TypeOK
    BY IdleTyped, DraftAssumption DEF Init, TypeOK
  <1>2. QED BY <1>1, TypeStep, PTL DEF Spec
-------------------------------------------------------------------------------
(* Orders, and what a request in flight still sees. *)

\* Which requests take which steps.
Purpose ==
  \A s \in Slots :
    /\ pc[s] \in {"begin", "insert"} => req[s].op = "commit"
    /\ pc[s] = "event" => req[s].op = "revision"
    /\ pc[s] = "write" => req[s].op # "commit"

\* Until two requests overlap on d, at most one is in flight on it, and the
\* row is one that its checks accept and from which its snapshot was taken.
FreshView(d) ==
  ~exposed[d] =>
    /\ \A s, t \in Slots : InFlight(s, d) /\ InFlight(t, d) => s = t
    /\ \A s \in Slots :
         InFlight(s, d) =>
           /\ Accepts(req[s], draft[d])
           /\ UsesSnapshot(req[s].op) => snap[s] = Columns(draft[d])

\* Whoever is in flight after s has finished or retried was so before, with
\* the same request and the same snapshot.
LEMMA DoneFlight ==
  ASSUME TypeOK, NEW s \in Slots, Done(s)
  PROVE  \A t \in Slots :
           pc'[t] # "idle" =>
             t # s /\ pc'[t] = pc[t] /\ req'[t] = req[t] /\ snap'[t] = snap[t]
  BY DEF TypeOK, Done

\* A retried commit keeps its request, and is in flight as before.
LEMMA RetryFlight ==
  ASSUME TypeOK, NEW s \in Slots, pc[s] = "insert", RetryOrThrow(s)
  PROVE  \A t \in Slots :
           pc'[t] # "idle" =>
             /\ pc'[t] = pc[t] \/ (t = s /\ pc'[t] = "begin")
             /\ req'[t] = req[t] /\ snap'[t] = snap[t]
  BY DoneFlight DEF TypeOK, RetryOrThrow

\* No step puts a request where its operation has no business.
LEMMA PurposeStep ==
  ASSUME TypeOK, Purpose, [Next]_vars
  PROVE  Purpose'
  <1>1. CASE \E s \in Slots, input \in Inputs : Receive(s, input)
    BY <1>1 DEF TypeOK, Purpose, Receive
  <1>2. CASE \E s \in Slots : Writes(s)
    <2>1. PICK s \in Slots : Writes(s)
      BY <1>2
    <2>2. CASE Done(s)
      BY <2>2, DoneFlight DEF Purpose
    <2>3. CASE req[s].op = "revision" /\ Goto(s, "event")
      BY <2>3 DEF TypeOK, Purpose, Goto
    <2>4. QED BY <2>1, <2>2, <2>3 DEF Writes
  <1>3. CASE \E s \in Slots : RecordRevision(s) \/ FinishCommit(s) \/ Abort(s)
    <2>1. PICK s \in Slots : Done(s)
      BY <1>3 DEF RecordRevision, FinishCommit, Abort
    <2>2. pc' \in [Slots -> {"idle", "write", "event", "begin", "insert"}]
      BY <2>1, DoneTyped
    <2>3. QED BY <2>1, <2>2, DoneFlight DEF Purpose
  <1>4. CASE \E s \in Slots : Begin(s)
    BY <1>4 DEF TypeOK, Purpose, Begin, Goto
  <1>5. CASE \E s \in Slots : Conflict(s) \/ Reset(s)
    <2>1. PICK s \in Slots : pc[s] = "insert" /\ RetryOrThrow(s)
      BY <1>5 DEF Conflict, Reset
    <2>2. QED BY <2>1, RetryFlight DEF Purpose
  <1>6. CASE (\E d \in Drafts : Create(d) \/ CountRegen(d)) \/ UNCHANGED vars
    BY <1>6 DEF Purpose, Create, CountRegen, vars, slotVars
  <1>7. QED BY <1>1, <1>2, <1>3, <1>4, <1>5, <1>6, Steps

\* Two ways in which a step keeps FreshView(d).
LEMMA StillFresh ==
  ASSUME NEW d \in Drafts, FreshView(d), draft'[d] = draft[d],
         exposed[d] => exposed'[d],
         \A t \in Slots :
           InFlight(t, d)' => InFlight(t, d) /\ req'[t] = req[t] /\ snap'[t] = snap[t]
  PROVE  FreshView(d)'
  <1> SUFFICES ASSUME ~exposed'[d]
               PROVE  /\ \A s, t \in Slots : InFlight(s, d)' /\ InFlight(t, d)' => s = t
                      /\ \A s \in Slots :
                           InFlight(s, d)' =>
                             /\ Accepts(req'[s], draft'[d])
                             /\ UsesSnapshot(req'[s].op) => snap'[s] = Columns(draft'[d])
    BY DEF FreshView, Accepts, Columns, UsesSnapshot, From, CanRequestRevision, CanCommit,
           Settled, Statuses
  <1>1. QED BY DEF FreshView

\* Without anybody in flight, or once requests have overlapped, it holds anyway.
LEMMA AloneFresh ==
  ASSUME NEW d \in Drafts, exposed'[d] \/ \A t \in Slots : ~InFlight(t, d)'
  PROVE  FreshView(d)'
  BY DEF FreshView

\* A write ends the flight of the only request that could still see the old
\* row, and a request that joins another one marks the overlap.
LEMMA FreshStep ==
  ASSUME TypeOK, \A d \in Drafts : FreshView(d), [Next]_vars, NEW d \in Drafts
  PROVE  FreshView(d)'
  <1>0. FreshView(d)
    OBVIOUS
  <1>1. CASE \E s \in Slots, input \in Inputs : Receive(s, input)
    <2>1. PICK s \in Slots, input \in Inputs : Receive(s, input)
      BY <1>1
    <2>2. /\ draft'[d] = draft[d]
          /\ exposed[d] => exposed'[d]
          /\ \A t \in Slots \ {s} :
               /\ pc'[t] = pc[t] /\ req'[t] = req[t] /\ snap'[t] = snap[t]
               /\ InFlight(t, d)' <=> InFlight(t, d)
          /\ req'[s] = input /\ input.draft \in Drafts
      BY <2>1, InputsTyped DEF TypeOK, Receive, InFlight, Draft
    <2>3. CASE input.draft # d
      <3>1. ~InFlight(s, d)'
        BY <2>2, <2>3 DEF InFlight, Draft
      <3>2. QED BY <1>0, <2>2, <3>1, StillFresh
    <2>4. CASE input.draft = d /\ exposed'[d]
      BY <2>4, AloneFresh
    <2>5. CASE input.draft = d /\ ~exposed'[d]
      <3>1. exposed'[d] = (exposed[d] \/ \E t \in Slots \ {s} : InFlight(t, d))
        BY <2>1, <2>5 DEF TypeOK, Receive
      <3>2. \A t \in Slots : InFlight(t, d)' => t = s
        BY <2>2, <2>5, <3>1
      <3>3. /\ Accepts(input, draft[d])
            /\ UsesSnapshot(input.op) => snap'[s] = Columns(draft[d])
        BY <2>1, <2>5 DEF TypeOK, Receive
      <3>4. Accepts(req'[s], draft'[d])
        BY <2>2, <3>3
      <3>5. UsesSnapshot(req'[s].op) => snap'[s] = Columns(draft'[d])
        BY <2>2, <3>3
      <3>6. QED BY <3>2, <3>4, <3>5 DEF FreshView, Accepts, Columns, UsesSnapshot
    <2>6. QED BY <2>3, <2>4, <2>5
  <1>2. CASE \E s \in Slots : Writes(s) \/ FinishCommit(s)
    <2>1. PICK s \in Slots : Writes(s) \/ FinishCommit(s)
      BY <1>2
    <2>2. /\ InFlight(s, Draft(s)) /\ exposed' = exposed
          /\ d # Draft(s) => draft'[d] = draft[d]
      BY <2>1 DEF TypeOK, Writes, FinishCommit, InFlight, Store, SaveOrder
    <2>3. /\ ~InFlight(s, d)'
          /\ \A t \in Slots :
               InFlight(t, d)' => InFlight(t, d) /\ req'[t] = req[t] /\ snap'[t] = snap[t]
      <3>1. CASE Done(s)
        BY <3>1, DoneFlight DEF InFlight, Draft
      <3>2. CASE Goto(s, "event")
        BY <3>2 DEF TypeOK, Goto, InFlight, Draft
      <3>3. QED BY <2>1, <3>1, <3>2 DEF Writes, FinishCommit
    <2>4. CASE d # Draft(s)
      BY <1>0, <2>2, <2>3, <2>4, StillFresh
    <2>5. CASE d = Draft(s)
      <3>1. exposed[d] \/ \A t \in Slots : ~InFlight(t, d)'
        BY <1>0, <2>2, <2>3, <2>5 DEF FreshView
      <3>2. QED BY <2>2, <3>1, AloneFresh
    <2>6. QED BY <2>4, <2>5
  <1>3. CASE \E s \in Slots : RecordRevision(s) \/ Abort(s)
    <2>1. PICK s \in Slots : RecordRevision(s) \/ Abort(s)
      BY <1>3
    <2>2. Done(s) /\ draft' = draft /\ exposed' = exposed
      BY <2>1 DEF RecordRevision, Abort
    <2>3. \A t \in Slots :
            InFlight(t, d)' => InFlight(t, d) /\ req'[t] = req[t] /\ snap'[t] = snap[t]
      BY <2>2, DoneFlight DEF InFlight, Draft
    <2>4. QED BY <1>0, <2>2, <2>3, StillFresh
  <1>4. CASE \E s \in Slots : Begin(s)
    <2>1. PICK s \in Slots : Begin(s)
      BY <1>4
    <2>2. draft' = draft /\ exposed' = exposed
      BY <2>1 DEF Begin
    <2>3. \A t \in Slots :
            InFlight(t, d)' => InFlight(t, d) /\ req'[t] = req[t] /\ snap'[t] = snap[t]
      BY <2>1 DEF TypeOK, Begin, Goto, InFlight, Draft
    <2>4. QED BY <1>0, <2>2, <2>3, StillFresh
  <1>5. CASE \E s \in Slots : Conflict(s) \/ Reset(s)
    <2>1. PICK s \in Slots : Conflict(s) \/ Reset(s)
      BY <1>5
    <2>2. pc[s] = "insert" /\ RetryOrThrow(s) /\ Draft(s) \in Drafts
      BY <2>1, BusyTyped DEF Conflict, Reset
    <2>3. \A t \in Slots :
            InFlight(t, d)' => InFlight(t, d) /\ req'[t] = req[t] /\ snap'[t] = snap[t]
      BY <2>2, RetryFlight DEF InFlight, Draft
    <2>4. exposed'[d] \/ (draft'[d] = draft[d] /\ ~exposed[d])
      BY <2>1, <2>2 DEF TypeOK, Conflict, Reset, SaveOrder
    <2>5. QED BY <1>0, <2>3, <2>4, StillFresh, AloneFresh
  <1>6. CASE \E e \in Drafts : Create(e)
    <2>1. PICK e \in Drafts : Create(e)
      BY <1>6
    <2>2. /\ exposed' = exposed /\ req' = req /\ snap' = snap
          /\ \A t \in Slots : InFlight(t, d)' <=> InFlight(t, d)
          /\ d # e => draft'[d] = draft[d]
      BY <2>1 DEF TypeOK, Create, slotVars, InFlight, Draft
    <2>3. CASE d # e
      BY <1>0, <2>2, <2>3, StillFresh
    <2>4. CASE d = e
      <3>1. draft[d].method = "none"
        BY <2>1, <2>4 DEF Create, Absent, NewDraft
      <3>2. exposed[d] \/ \A t \in Slots : ~InFlight(t, d)
        BY <1>0, <3>1 DEF FreshView, Accepts
      <3>3. QED BY <2>2, <3>2, AloneFresh
    <2>5. QED BY <2>3, <2>4
  <1>7. CASE (\E e \in Drafts : CountRegen(e)) \/ UNCHANGED vars
    <2>1. draft' = draft /\ exposed' = exposed /\ UNCHANGED <<pc, req, snap>>
      BY <1>7 DEF CountRegen, vars, slotVars
    <2>2. \A t \in Slots : InFlight(t, d)' <=> InFlight(t, d)
      BY <2>1 DEF InFlight, Draft
    <2>3. QED BY <1>0, <2>1, <2>2, StillFresh
  <1>8. QED BY <1>1, <1>2, <1>3, <1>4, <1>5, <1>6, <1>7, Steps

\* A write of a request, and the creation of a draft, leave orders and the mark
\* as they were; SaveOrder changes both.
LEMMA WritesKeepOrders ==
  ASSUME TypeOK, NEW s \in Slots, Writes(s), NEW d \in Drafts
  PROVE  orders' = orders /\ draft'[d].committed = draft[d].committed
  <1>1. PICK row \in Rows : Effect(s, row) /\ Store(s, row)
    BY DEF Writes
  <1>2. QED BY <1>1 DEF TypeOK, Effect, Store, Row

\* SaveOrder adds one order to its draft and marks it; others are untouched.
LEMMA SaveOrderMarks ==
  ASSUME TypeOK, NEW s \in Slots, pc[s] # "idle", SaveOrder(s), NEW d \in Drafts
  PROVE  /\ d = Draft(s) => orders'[d] = orders[d] + 1 /\ draft'[d].committed
         /\ d # Draft(s) => orders'[d] = orders[d] /\ draft'[d] = draft[d]
  <1>1. Row(s) \in Rows
    BY BusyTyped
  <1>2. [Row(s) EXCEPT !.committed = TRUE].committed
    BY <1>1 DEF Rows
  <1>3. QED BY <1>2 DEF TypeOK, SaveOrder

\* Order and mark are written by one step, and by no other.
LEMMA OrderMatchesCommitStep ==
  ASSUME TypeOK, OrderMatchesCommit, [Next]_vars
  PROVE  OrderMatchesCommit'
  <1> SUFFICES ASSUME NEW d \in Drafts
               PROVE  draft'[d].committed <=> orders'[d] > 0
    BY DEF OrderMatchesCommit
  <1>0. orders[d] \in Nat /\ (draft[d].committed <=> orders[d] > 0)
    BY DEF TypeOK, OrderMatchesCommit
  <1>1. CASE \E s \in Slots : Writes(s)
    <2>1. orders' = orders /\ draft'[d].committed = draft[d].committed
      BY <1>1, WritesKeepOrders
    <2>2. QED BY <1>0, <2>1
  <1>2. CASE \E s \in Slots : FinishCommit(s) \/ Reset(s)
    <2>1. PICK s \in Slots : pc[s] # "idle" /\ (SaveOrder(s) \/ UNCHANGED <<draft, orders>>)
      BY <1>2 DEF FinishCommit, Reset
    <2>2. CASE UNCHANGED <<draft, orders>>
      BY <1>0, <2>2
    <2>3. CASE SaveOrder(s)
      <3>1. \/ orders'[d] = orders[d] + 1 /\ draft'[d].committed
            \/ orders'[d] = orders[d] /\ draft'[d] = draft[d]
        BY <2>1, <2>3, SaveOrderMarks
      <3>2. QED BY <1>0, <3>1
    <2>4. QED BY <2>1, <2>2, <2>3
  <1>3. CASE \E e \in Drafts : Create(e)
    <2>1. PICK e \in Drafts : Create(e)
      BY <1>3
    <2>2. orders' = orders /\ (d # e => draft'[d] = draft[d])
      BY <2>1 DEF TypeOK, Create
    <2>3. d = e => ~draft[d].committed /\ ~draft'[d].committed
      BY <2>1 DEF TypeOK, Create, Absent, NewDraft
    <2>4. QED BY <1>0, <2>2, <2>3
  <1>4. CASE \/ \E s \in Slots, input \in Inputs : Receive(s, input)
             \/ \E s \in Slots : RecordRevision(s) \/ Begin(s) \/ Conflict(s) \/ Abort(s)
             \/ \E e \in Drafts : CountRegen(e)
             \/ UNCHANGED vars
    <2>1. draft' = draft /\ orders' = orders
      BY <1>4 DEF Receive, RecordRevision, Begin, Conflict, Abort, CountRegen, vars
    <2>2. QED BY <1>0, <2>1
  <1>5. QED BY <1>1, <1>2, <1>3, <1>4, Steps

\* A commit that saves its order found the draft without one.
LEMMA AtMostOneOrderStep ==
  ASSUME TypeOK, Purpose, \A d \in Drafts : FreshView(d), OrderMatchesCommit,
         AtMostOneOrder, [Next]_vars
  PROVE  AtMostOneOrder'
  <1> SUFFICES ASSUME NEW d \in Drafts, ~exposed'[d]
               PROVE  orders'[d] <= 1
    BY DEF AtMostOneOrder
  <1>1. CASE \E s \in Slots : FinishCommit(s)
    <2>1. PICK s \in Slots : FinishCommit(s)
      BY <1>1
    <2>2. pc[s] = "insert" /\ SaveOrder(s) /\ ~exposed[d] /\ orders[d] \in Nat
      BY <2>1 DEF FinishCommit, TypeOK
    <2>3. CASE d = Draft(s)
      <3>1. InFlight(s, d) /\ req[s].op = "commit"
        BY <2>2, <2>3 DEF InFlight, Purpose
      <3>2. ~draft[d].committed
        BY <2>2, <3>1 DEF FreshView, Accepts, CanCommit
      <3>3. orders[d] = 0
        BY <2>2, <3>2 DEF OrderMatchesCommit
      <3>4. QED BY <2>2, <2>3, <3>3, SaveOrderMarks
    <2>4. CASE d # Draft(s)
      BY <2>2, <2>4, SaveOrderMarks DEF AtMostOneOrder
    <2>5. QED BY <2>3, <2>4
  <1>2. CASE \E s \in Slots : Reset(s)
    <2>1. PICK s \in Slots : Reset(s)
      BY <1>2
    <2>2. Draft(s) \in Drafts
      BY <2>1, BusyTyped DEF Reset
    <2>3. d # Draft(s) /\ ~exposed[d]
      BY <2>1, <2>2 DEF TypeOK, Reset
    <2>4. orders'[d] = orders[d]
      BY <2>1, <2>3 DEF TypeOK, Reset, SaveOrder
    <2>5. QED BY <2>3, <2>4 DEF AtMostOneOrder
  <1>3. CASE \E s \in Slots, input \in Inputs : Receive(s, input)
    <2>1. orders' = orders /\ ~exposed[d]
      BY <1>3, InputsTyped DEF TypeOK, Receive
    <2>2. QED BY <2>1 DEF AtMostOneOrder
  <1>4. CASE \/ \E s \in Slots : \/ Writes(s) \/ RecordRevision(s) \/ Begin(s)
                                 \/ Conflict(s) \/ Abort(s)
             \/ \E e \in Drafts : Create(e) \/ CountRegen(e)
             \/ UNCHANGED vars
    <2>1. orders' = orders /\ exposed' = exposed
      BY <1>4 DEF Writes, Store, RecordRevision, Begin, Conflict, Abort, Create, CountRegen,
                  vars
    <2>2. QED BY <2>1 DEF AtMostOneOrder
  <1>5. QED BY <1>1, <1>2, <1>3, <1>4, Steps

\* What has to hold with these for a step to keep them.
OrdersInv ==
  /\ Purpose
  /\ \A d \in Drafts : FreshView(d)
  /\ OrderMatchesCommit
  /\ AtMostOneOrder

\* The four facts hold together in every reachable state.
LEMMA OrdersInvHolds == Spec => []OrdersInv
  <1>1. Init => OrdersInv
    BY DEF Init, OrdersInv, Purpose, FreshView, InFlight, OrderMatchesCommit, AtMostOneOrder,
           Absent, NewDraft
  <1>2. ASSUME TypeOK, OrdersInv, [Next]_vars PROVE OrdersInv'
    <2>1. Purpose'
      BY <1>2, PurposeStep DEF OrdersInv
    <2>2. \A d \in Drafts : FreshView(d)'
      BY <1>2, FreshStep DEF OrdersInv
    <2>3. OrderMatchesCommit'
      BY <1>2, OrderMatchesCommitStep DEF OrdersInv
    <2>4. AtMostOneOrder'
      BY <1>2, AtMostOneOrderStep DEF OrdersInv
    <2>5. QED BY <2>1, <2>2, <2>3, <2>4 DEF OrdersInv
  <1>3. QED BY <1>1, <1>2, TypeCorrect, PTL DEF Spec

\* A draft is marked as committed exactly if it has an order, whatever
\* conflicts, lost connections and retries its commits have met.
THEOREM MarkedIffOrdered == Spec => []OrderMatchesCommit
  BY OrdersInvHolds, PTL DEF OrdersInv

\* Without overlapping requests and lost connections a draft is ordered once
\* at most, for any number of slots, inputs and retries.
THEOREM OrderedOnce == Spec => []AtMostOneOrder
  BY OrdersInvHolds, PTL DEF OrdersInv
-------------------------------------------------------------------------------
(* The workflow, and what an order needs. *)

\* What a write does to a draft on which no two requests have overlapped.
LEMMA FreshWrite ==
  ASSUME TypeOK, NEW s \in Slots, Writes(s), FreshView(Draft(s)), ~exposed[Draft(s)]
  PROVE  LET row == draft[Draft(s)]
             new == draft'[Draft(s)]
         IN  /\ row.status = new.status \/ <<row.status, new.status>> \in Follows
             /\ \/ req[s].op = "update"
                \/ row.data \subseteq new.data /\ row.notes <= new.notes
             /\ req[s].op = "revision" =>
                  /\ row.revisions < MaxRevisions
                  /\ snap[s].revisions = row.revisions
  <1> DEFINE row == draft[Draft(s)]
             new == draft'[Draft(s)]
  <1>1. /\ row \in Rows /\ Row(s) = row
        /\ Draft(s) \in Drafts
    BY BusyTyped DEF Writes, Row
  <1>2. Effect(s, new)
    <2>1. PICK r \in Rows : Effect(s, r) /\ Store(s, r)
      BY DEF Writes
    <2>2. new = r
      BY <1>1, <2>1 DEF TypeOK, Store
    <2>3. QED BY <2>1, <2>2
  <1>3. /\ Accepts(req[s], row)
        /\ UsesSnapshot(req[s].op) => snap[s] = Columns(row)
    BY DEF FreshView, InFlight, Writes
  <1>4. /\ row.status \in Statuses /\ row.notes \in Nat
        /\ UsesSnapshot(req[s].op) =>
             /\ snap[s].status = row.status /\ snap[s].revisions = row.revisions
             /\ snap[s].data = row.data /\ snap[s].notes = row.notes
    BY <1>1, <1>3 DEF Columns, Rows
  <1> HIDE DEF row, new
  <1>5. row.status = new.status \/ <<row.status, new.status>> \in Follows
    BY <1>1, <1>2, <1>3, <1>4 DEF Effect, Accepts, From, Follows, UsesSnapshot, Statuses, Settled
  <1>6. \/ req[s].op = "update"
        \/ row.data \subseteq new.data /\ row.notes <= new.notes
    BY <1>1, <1>2, <1>4 DEF Effect
  <1>7. req[s].op = "revision" =>
          row.revisions < MaxRevisions /\ snap[s].revisions = row.revisions
    BY <1>3, <1>4 DEF Accepts, CanRequestRevision, UsesSnapshot
  <1>8. QED BY <1>5, <1>6, <1>7 DEF row, new

\* The other steps leave the columns of a draft alone, but for its creation and
\* the mark of an order.
LEMMA OtherSteps ==
  ASSUME TypeOK, [Next]_vars, NEW d \in Drafts, ~Create(d),
         ~ \E s \in Slots : /\ Writes(s) /\ Draft(s) = d
                            /\ req[s].op = "update" => Update(s)
  PROVE  /\ Columns(draft'[d]) = Columns(draft[d])
         /\ draft'[d].method = draft[d].method /\ draft'[d].designer = draft[d].designer
         /\ draft'[d].card = draft[d].card /\ draft'[d].shipping = draft[d].shipping
  <1> DEFINE Same == draft'[d] = draft[d]
  <1>1. CASE Same
    BY <1>1
  <1>2. CASE \E s \in Slots : FinishCommit(s) \/ Reset(s)
    <2>1. PICK s \in Slots : pc[s] # "idle" /\ (SaveOrder(s) \/ UNCHANGED <<draft, orders>>)
      BY <1>2 DEF FinishCommit, Reset
    <2>2. CASE SaveOrder(s) /\ d = Draft(s)
      <3>1. draft[d] \in Rows
        BY DEF TypeOK
      <3>2. draft'[d] = [draft[d] EXCEPT !.committed = TRUE]
        BY <2>2 DEF TypeOK, SaveOrder, Row
      <3>3. QED BY <3>1, <3>2 DEF Columns, Rows
    <2>3. CASE ~(SaveOrder(s) /\ d = Draft(s))
      <3>1. Same
        BY <2>1, <2>3 DEF TypeOK, SaveOrder
      <3>2. QED BY <3>1, <1>1
    <2>4. QED BY <2>2, <2>3
  <1>3. CASE \E s \in Slots : Writes(s) /\ (req[s].op = "update" => Update(s))
    <2>1. Same
      BY <1>3 DEF TypeOK, Writes, Store
    <2>2. QED BY <2>1, <1>1
  <1>4. CASE \E e \in Drafts : Create(e)
    <2>1. Same
      BY <1>4 DEF TypeOK, Create
    <2>2. QED BY <2>1, <1>1
  <1>5. CASE \/ \E s \in Slots, input \in Inputs : Receive(s, input)
             \/ \E s \in Slots : RecordRevision(s) \/ Begin(s) \/ Conflict(s) \/ Abort(s)
             \/ \E e \in Drafts : CountRegen(e)
             \/ UNCHANGED vars
    <2>1. Same
      BY <1>5 DEF Receive, RecordRevision, Begin, Conflict, Abort, CountRegen, vars
    <2>2. QED BY <2>1, <1>1
  <1>6. QED BY <1>2, <1>3, <1>4, <1>5, Steps

\* Without overlapping requests the status of a draft moves as the transition
\* table says, so a design that is approved or cancelled stays so.
THEOREM TableFollowed == Spec => WorkflowFollowsTable
  <1> DEFINE Step == \A d \in Drafts :
                       draft'[d].status # draft[d].status /\ draft[d] # Absent /\ ~exposed[d] =>
                         <<draft[d].status, draft'[d].status>> \in Follows
  <1>1. ASSUME TypeOK, OrdersInv, [Next]_vars PROVE Step
    <2> SUFFICES ASSUME NEW d \in Drafts, draft'[d].status # draft[d].status,
                        draft[d] # Absent, ~exposed[d]
                 PROVE  <<draft[d].status, draft'[d].status>> \in Follows
      OBVIOUS
    <2>1. CASE \E s \in Slots : Writes(s) /\ Draft(s) = d
      BY <1>1, <2>1, FreshWrite DEF OrdersInv
    <2>2. CASE ~ \E s \in Slots : Writes(s) /\ Draft(s) = d
      <3>1. Columns(draft'[d]) = Columns(draft[d])
        BY <1>1, <2>2, OtherSteps DEF Create
      <3>2. QED BY <3>1 DEF Columns
    <2>3. QED BY <2>1, <2>2
  <1>2. QED BY <1>1, TypeCorrect, OrdersInvHolds, PTL DEF Spec, WorkflowFollowsTable

\* Without overlapping requests only an update takes a section or a revision
\* note out of data.
THEOREM SectionsKept == Spec => NoSectionLost
  <1> DEFINE Step == \A d \in Drafts :
                       \/ exposed[d]
                       \/ draft[d].data \subseteq draft'[d].data
                          /\ draft[d].notes <= draft'[d].notes
                       \/ \E s \in Slots : Update(s) /\ Draft(s) = d
  <1>1. ASSUME TypeOK, OrdersInv, [Next]_vars PROVE Step
    <2> SUFFICES ASSUME NEW d \in Drafts, ~exposed[d]
                 PROVE  \/ draft[d].data \subseteq draft'[d].data
                           /\ draft[d].notes <= draft'[d].notes
                        \/ \E s \in Slots : Update(s) /\ Draft(s) = d
      OBVIOUS
    <2>0. draft[d] \in Rows /\ draft[d].notes \in Nat
      BY <1>1 DEF TypeOK, Rows
    <2>1. CASE \E s \in Slots : /\ Writes(s) /\ Draft(s) = d
                                /\ req[s].op = "update" => Update(s)
      BY <1>1, <2>1, FreshWrite DEF OrdersInv
    <2>2. CASE /\ draft[d] # Absent
               /\ ~ \E s \in Slots : /\ Writes(s) /\ Draft(s) = d
                                     /\ req[s].op = "update" => Update(s)
      <3>1. Columns(draft'[d]) = Columns(draft[d])
        BY <1>1, <2>2, OtherSteps DEF Create
      <3>2. QED BY <2>0, <3>1 DEF Columns
    <2>3. CASE draft[d] = Absent
      <3>1. draft[d].data = {} /\ draft[d].notes = 0
        BY <2>3 DEF Absent, NewDraft
      <3>2. draft'[d] \in Rows /\ draft'[d].notes \in Nat
        BY <1>1, TypeStep DEF TypeOK, Rows
      <3>3. QED BY <3>1, <3>2
    <2>4. QED BY <2>1, <2>2, <2>3
  <1>2. QED BY <1>1, TypeCorrect, OrdersInvHolds, PTL DEF Spec, NoSectionLost

\* What an order can be made and sent from.
Committable(row) ==
  /\ row.card /\ row.shipping
  /\ row.method = "artist" => row.designer \in Designers

\* Work on a design has a designer, and nothing that a request in flight relies
\* on is taken from the draft, overlap or not.
Staffed(d) ==
  /\ draft[d].status \notin {"PENDING", "CANCELED"} => draft[d].designer \in Designers
  /\ draft[d].committed => Committable(draft[d])
  /\ \A s \in Slots :
       InFlight(s, d) =>
         /\ draft[d].method # "none"
         /\ req[s].op \in {"preview", "revision", "approve"} => draft[d].designer \in Designers
         /\ req[s].op = "commit" => Committable(draft[d])

\* A draft once created keeps its method, and what it has of card, address and
\* designer.
LEMMA RowsGrow ==
  ASSUME TypeOK, [Next]_vars, NEW d \in Drafts, draft[d].method # "none"
  PROVE  /\ draft'[d].method = draft[d].method
         /\ draft[d].card => draft'[d].card
         /\ draft[d].shipping => draft'[d].shipping
         /\ draft[d].designer \in Designers => draft'[d].designer \in Designers
  <1>1. CASE \E s \in Slots : Writes(s) /\ Draft(s) = d
    <2>1. PICK s \in Slots, row \in Rows : Effect(s, row) /\ Store(s, row) /\ Draft(s) = d
      BY <1>1 DEF Writes
    <2>2. draft'[d] = row /\ Row(s) = draft[d]
      BY <2>1 DEF TypeOK, Store, Row
    <2>3. QED BY <2>1, <2>2 DEF Effect
  <1>2. CASE ~ \E s \in Slots : Writes(s) /\ Draft(s) = d
    <2>1. ~Create(d)
      BY DEF Create, Absent, NewDraft
    <2>2. QED BY <1>2, <2>1, OtherSteps
  <1>3. QED BY <1>1, <1>2

\* Whoever is in flight after a step was so before, or has just been accepted.
LEMMA Joins ==
  ASSUME TypeOK, [Next]_vars, NEW d \in Drafts, NEW t \in Slots, InFlight(t, d)'
  PROVE  \/ InFlight(t, d) /\ req'[t] = req[t]
         \/ req'[t] \in Inputs /\ Accepts(req'[t], draft[d]) /\ draft'[d] = draft[d]
  <1> DEFINE Was == InFlight(t, d) /\ req'[t] = req[t]
  <1>1. CASE \E s \in Slots, input \in Inputs : Receive(s, input)
    <2>1. PICK s \in Slots, input \in Inputs : Receive(s, input)
      BY <1>1
    <2>2. CASE t = s
      <3>1. req'[t] = input /\ input.draft = d
        BY <2>1, <2>2 DEF TypeOK, Receive, InFlight, Draft
      <3>2. QED BY <2>1, <3>1 DEF Receive
    <2>3. CASE t # s
      BY <2>1, <2>3 DEF TypeOK, Receive, InFlight, Draft
    <2>4. QED BY <2>2, <2>3
  <1>2. CASE \E s \in Slots : Done(s)
    BY <1>2, DoneFlight DEF InFlight, Draft
  <1>3. CASE \E s \in Slots : pc[s] = "insert" /\ RetryOrThrow(s)
    BY <1>3, RetryFlight DEF InFlight, Draft
  <1>4. CASE \E s \in Slots : Goto(s, "event")
    BY <1>4 DEF TypeOK, Goto, InFlight, Draft
  <1>5. CASE \E s \in Slots : pc[s] = "begin" /\ Goto(s, "insert")
    BY <1>5 DEF TypeOK, Goto, InFlight, Draft
  <1>6. CASE UNCHANGED slotVars
    BY <1>6 DEF slotVars, InFlight, Draft
  <1>7. QED
    BY <1>1, <1>2, <1>3, <1>4, <1>5, <1>6, Steps
    DEF Writes, RecordRevision, Begin, FinishCommit, Conflict, Reset, Abort, Create,
        CountRegen, vars

\* A draft is marked by a commit in its transaction, which then is at its end or
\* has lost the connection.
LEMMA MarkedBy ==
  ASSUME TypeOK, [Next]_vars, NEW d \in Drafts, ~draft[d].committed, draft'[d].committed
  PROVE  /\ ~Create(d)
         /\ ~ \E s \in Slots : Writes(s) /\ Draft(s) = d
         /\ \E s \in Slots : pc[s] = "insert" /\ Draft(s) = d
  <1>1. ~Create(d)
    BY DEF TypeOK, Create, NewDraft
  <1>2. ~ \E s \in Slots : Writes(s)
    BY WritesKeepOrders
  <1>3. \E s \in Slots : FinishCommit(s) \/ Reset(s)
    <2>1. draft'[d] # draft[d]
      OBVIOUS
    <2>2. ~ \E e \in Drafts : Create(e)
      BY <1>1, <2>1 DEF TypeOK, Create
    <2>3. QED
      BY <1>2, <2>1, <2>2, Steps
      DEF Receive, RecordRevision, Begin, Conflict, Abort, CountRegen, vars
  <1>4. \E s \in Slots : pc[s] = "insert" /\ Draft(s) = d
    BY <1>3 DEF TypeOK, FinishCommit, Reset, SaveOrder
  <1>5. QED BY <1>1, <1>2, <1>4

\* The designer, the card and the address that somebody relies on stay.
LEMMA StaffedStep ==
  ASSUME TypeOK, Purpose, [Next]_vars, NEW d \in Drafts, Staffed(d)
  PROVE  Staffed(d)'
  <1>0. draft[d].status \in Statuses
    BY DEF TypeOK, Rows
  <1>1. ASSUME NEW t \in Slots, InFlight(t, d)'
        PROVE  /\ draft'[d].method # "none"
               /\ req'[t].op \in {"preview", "revision", "approve"} =>
                    draft'[d].designer \in Designers
               /\ req'[t].op = "commit" => Committable(draft'[d])
    <2>1. CASE InFlight(t, d) /\ req'[t] = req[t]
      <3>1. /\ draft[d].method # "none"
            /\ req[t].op \in {"preview", "revision", "approve"} =>
                 draft[d].designer \in Designers
            /\ req[t].op = "commit" => Committable(draft[d])
        BY <2>1 DEF Staffed
      <3>2. QED BY <2>1, <3>1, RowsGrow DEF Committable
    <2>2. CASE req'[t] \in Inputs /\ Accepts(req'[t], draft[d]) /\ draft'[d] = draft[d]
      <3>1. draft[d].method # "none"
        BY <2>2 DEF Accepts
      <3>2. req'[t].op = "preview" => draft[d].designer \in Designers
        BY <2>2, InputsTyped DEF Accepts
      <3>3. req'[t].op \in {"revision", "approve"} => draft[d].designer \in Designers
        BY <2>2 DEF Accepts, From, Staffed
      <3>4. req'[t].op = "commit" => Committable(draft[d])
        BY <2>2 DEF Accepts, CanCommit, Committable, Staffed
      <3>5. QED BY <2>2, <3>1, <3>2, <3>3, <3>4
    <2>3. QED BY <1>1, <2>1, <2>2, Joins
  <1>2. draft'[d].status \notin {"PENDING", "CANCELED"} => draft'[d].designer \in Designers
    <2>1. CASE \E s \in Slots : Writes(s) /\ Draft(s) = d
      <3>1. PICK s \in Slots, row \in Rows :
              /\ pc[s] = "write" /\ Effect(s, row) /\ Store(s, row) /\ Draft(s) = d
        BY <2>1 DEF Writes
      <3>2. draft'[d] = row /\ Row(s) = draft[d] /\ InFlight(s, d)
        BY <3>1 DEF TypeOK, Store, Row, InFlight
      <3>3. QED BY <3>1, <3>2 DEF Effect, Staffed
    <2>2. CASE Create(d)
      BY <2>2 DEF TypeOK, Create, NewDraft
    <2>3. CASE ~Create(d) /\ ~ \E s \in Slots : Writes(s) /\ Draft(s) = d
      <3>1. draft'[d].status = draft[d].status /\ draft'[d].designer = draft[d].designer
        BY <2>3, OtherSteps DEF Columns
      <3>2. QED BY <3>1 DEF Staffed
    <2>4. QED BY <2>1, <2>2, <2>3
  <1>3. draft'[d].committed => Committable(draft'[d])
    <2>1. CASE draft'[d].committed /\ draft[d].committed
      <3>1. Committable(draft[d])
        BY <2>1 DEF Staffed
      <3>2. CASE draft[d].method # "none"
        BY <3>1, <3>2, RowsGrow DEF Committable
      <3>3. CASE draft[d].method = "none"
        <4>1. ~ \E s \in Slots : Writes(s) /\ Draft(s) = d
          BY <3>3 DEF Staffed, Writes, InFlight
        <4>2. ~Create(d)
          BY <2>1 DEF Create, Absent, NewDraft
        <4>3. QED BY <3>1, <4>1, <4>2, OtherSteps DEF Committable
      <3>4. QED BY <3>2, <3>3
    <2>2. CASE draft'[d].committed /\ ~draft[d].committed
      <3>1. PICK s \in Slots : pc[s] = "insert" /\ Draft(s) = d
        BY <2>2, MarkedBy
      <3>2. draft[d].method # "none" /\ Committable(draft[d])
        BY <3>1 DEF Staffed, InFlight, Purpose
      <3>3. QED BY <3>2, RowsGrow DEF Committable
    <2>3. QED BY <2>1, <2>2
  <1>4. QED BY <1>1, <1>2, <1>3 DEF Staffed

\* The design of an ordered artist's draft stays approved.
Approved(d) ==
  ~exposed[d] /\ draft[d].committed /\ draft[d].method = "artist" =>
    draft[d].status = "COMPLETED"

\* No step takes back that two requests have overlapped.
LEMMA ExposedStays ==
  ASSUME TypeOK, [Next]_vars, NEW d \in Drafts, exposed[d]
  PROVE  exposed'[d]
  <1>1. CASE \E s \in Slots, input \in Inputs : Receive(s, input)
    BY <1>1, InputsTyped DEF TypeOK, Receive
  <1>2. CASE \E s \in Slots : Reset(s)
    BY <1>2 DEF TypeOK, Reset
  <1>3. CASE UNCHANGED exposed
    BY <1>3
  <1>4. QED
    BY <1>1, <1>2, <1>3, Steps
    DEF Writes, Store, RecordRevision, Begin, FinishCommit, Conflict, Abort, Create,
        CountRegen, vars

\* An order is saved of an approved design only, and no status follows
\* COMPLETED.
LEMMA ApprovedStep ==
  ASSUME TypeOK, Purpose, [Next]_vars, NEW d \in Drafts, FreshView(d), Approved(d)
  PROVE  Approved(d)'
  <1> SUFFICES ASSUME ~exposed'[d], draft'[d].committed, draft'[d].method = "artist"
               PROVE  draft'[d].status = "COMPLETED"
    BY DEF Approved
  <1>1. ~exposed[d]
    BY ExposedStays
  <1>2. CASE \E s \in Slots : Writes(s) /\ Draft(s) = d
    <2>1. PICK s \in Slots : Writes(s) /\ Draft(s) = d
      BY <1>2
    <2>2. PICK row \in Rows : Effect(s, row) /\ Store(s, row)
      BY <2>1 DEF Writes
    <2>3. draft[d].method = "artist" /\ draft[d].committed
      BY <2>1, <2>2 DEF TypeOK, Effect, Store, Row
    <2>4. draft[d].status = "COMPLETED"
      BY <1>1, <2>3 DEF Approved
    <2>5. \/ draft'[d].status = draft[d].status
          \/ <<draft[d].status, draft'[d].status>> \in Follows
      BY <1>1, <2>1, FreshWrite
    <2>6. QED BY <2>4, <2>5 DEF Follows, Settled
  <1>3. CASE Create(d)
    BY <1>3 DEF TypeOK, Create, NewDraft
  <1>4. CASE ~Create(d) /\ ~ \E s \in Slots : Writes(s) /\ Draft(s) = d
    <2>1. draft'[d].status = draft[d].status /\ draft'[d].method = draft[d].method
      BY <1>4, OtherSteps DEF Columns
    <2>2. CASE draft[d].committed
      BY <1>1, <2>1, <2>2 DEF Approved
    <2>3. CASE ~draft[d].committed
      <3>1. PICK s \in Slots : pc[s] = "insert" /\ Draft(s) = d
        BY <2>3, MarkedBy
      <3>2. CanCommit(draft[d])
        BY <1>1, <3>1 DEF FreshView, InFlight, Accepts, Purpose
      <3>3. QED BY <2>1, <3>2 DEF CanCommit
    <2>4. QED BY <2>2, <2>3
  <1>5. QED BY <1>2, <1>3, <1>4

\* Every ordered draft has its card, its address and, if an artist works on it,
\* its designer; without overlapping requests its design is approved too.
THEOREM OrdersAreComplete == Spec => []OrderComplete
  <1> DEFINE Kept == \A d \in Drafts : Staffed(d) /\ Approved(d)
  <1>1. Init => Kept
    BY DEF Init, Staffed, Approved, InFlight, Absent, NewDraft
  <1>2. ASSUME TypeOK, OrdersInv, Kept, [Next]_vars PROVE Kept'
    BY <1>2, StaffedStep, ApprovedStep DEF OrdersInv
  <1>3. Kept => OrderComplete
    BY DEF Staffed, Approved, Committable, OrderComplete
  <1> HIDE DEF Kept
  <1>4. QED BY <1>1, <1>2, <1>3, TypeCorrect, OrdersInvHolds, PTL DEF Spec
-------------------------------------------------------------------------------
(* The revisions. *)

\* s has requested a revision of d and has its event still to record.
Owes(s, d) == pc[s] = "event" /\ Draft(s) = d
Number(s) == snap[s].revisions + 1

\* The revisions of d are within the limit; the recorded events and those still
\* to be recorded have numbers of requested revisions, all different.
Numbered(d) ==
  ~exposed[d] =>
    /\ draft[d].revisions <= MaxRevisions
    /\ \A i \in DOMAIN history[d] : history[d][i] \in 1 .. draft[d].revisions
    /\ \A i, j \in DOMAIN history[d] : history[d][i] = history[d][j] => i = j
    /\ \A s \in Slots :
         Owes(s, d) =>
           /\ Number(s) \in 1 .. draft[d].revisions
           /\ \A i \in DOMAIN history[d] : history[d][i] # Number(s)
    /\ \A s, t \in Slots : Owes(s, d) /\ Owes(t, d) /\ Number(s) = Number(t) => s = t

\* A step after which the count is the same and nobody owes a new event.
LEMMA StillNumbered ==
  ASSUME NEW d \in Drafts, Numbered(d), exposed[d] => exposed'[d],
         draft'[d].revisions = draft[d].revisions, history'[d] = history[d],
         \A t \in Slots : Owes(t, d)' => Owes(t, d) /\ snap'[t] = snap[t]
  PROVE  Numbered(d)'
  <1> SUFFICES ASSUME ~exposed[d], ~exposed'[d] PROVE Numbered(d)'
    BY DEF Numbered
  <1>1. \A t \in Slots : Owes(t, d)' => Owes(t, d) /\ Number(t)' = Number(t)
    BY DEF Number
  <1>2. QED BY <1>1 DEF Numbered

\* A request counts and takes the next number in one write, and its event
\* later records that number.
LEMMA NumberedStep ==
  ASSUME TypeOK, [Next]_vars, NEW d \in Drafts, FreshView(d), Numbered(d)
  PROVE  Numbered(d)'
  <1>0. /\ exposed[d] => exposed'[d]
        /\ draft[d].revisions \in Nat /\ history[d] \in Seq(Nat)
    BY ExposedStays DEF TypeOK, Rows
  <1>1. CASE \E s \in Slots : Writes(s)
    <2>1. PICK s \in Slots, row \in Rows :
            /\ pc[s] = "write" /\ Effect(s, row) /\ Store(s, row) /\ Writes(s)
      BY <1>1 DEF Writes
    <2>2. history' = history /\ exposed' = exposed /\ (d # Draft(s) => draft'[d] = draft[d])
      BY <2>1 DEF TypeOK, Store
    <2>3. CASE Done(s)
      <3>1. \A t \in Slots : Owes(t, d)' => Owes(t, d) /\ snap'[t] = snap[t]
        BY <2>3, DoneFlight DEF Owes, Draft
      <3>2. CASE d # Draft(s)
        BY <1>0, <2>2, <3>1, <3>2, StillNumbered
      <3>3. CASE d = Draft(s)
        <4>1. req[s].op # "revision"
          BY <2>1, <2>3 DEF TypeOK, Writes, Done, Goto
        <4>2. draft'[d].revisions = draft[d].revisions
          BY <1>0, <2>1, <3>3, <4>1 DEF TypeOK, Effect, Store, Row
        <4>3. QED BY <1>0, <2>2, <3>1, <4>2, StillNumbered
      <3>4. QED BY <3>2, <3>3
    <2>4. CASE req[s].op = "revision" /\ Goto(s, "event")
      <3>1. /\ \A t \in Slots \ {s} : Owes(t, d)' <=> Owes(t, d)
            /\ Draft(s)' = Draft(s) /\ snap' = snap
        BY <2>4 DEF TypeOK, Goto, Owes, Draft
      <3>2. CASE d # Draft(s)
        <4>1. ~Owes(s, d)'
          BY <3>1, <3>2 DEF Owes
        <4>2. QED BY <1>0, <2>2, <3>1, <3>2, <4>1, StillNumbered
      <3>3. CASE d = Draft(s)
        <4> SUFFICES ASSUME ~exposed[d] PROVE Numbered(d)'
          BY <2>2 DEF Numbered
        <4>1. draft[d].revisions < MaxRevisions /\ snap[s].revisions = draft[d].revisions
          BY <2>1, <2>4, <3>3, FreshWrite
        <4>2. draft'[d].revisions = draft[d].revisions + 1
          BY <2>1, <2>4, <3>3 DEF TypeOK, Effect, Store, Row
        <4>3. Number(s)' = draft[d].revisions + 1
          BY <3>1, <4>1 DEF Number
        <4>4. \A t \in Slots \ {s} :
                Owes(t, d)' => Owes(t, d) /\ Number(t)' = Number(t)
          BY <3>1 DEF Number
        <4>5. \A t \in Slots \ {s} :
                Owes(t, d)' =>
                  /\ Number(t)' \in 1 .. draft[d].revisions
                  /\ \A i \in DOMAIN history[d] : history[d][i] # Number(t)'
          BY <4>4 DEF Numbered
        <4>6. \A i \in DOMAIN history[d] : history[d][i] \in 1 .. draft[d].revisions
          BY DEF Numbered
        <4>7. draft'[d].revisions <= MaxRevisions
          BY <1>0, <4>1, <4>2, DraftAssumption
        <4>8. \A i \in DOMAIN history'[d] : history'[d][i] \in 1 .. draft'[d].revisions
          BY <1>0, <2>2, <4>2, <4>6
        <4>9. \A i, j \in DOMAIN history'[d] : history'[d][i] = history'[d][j] => i = j
          BY <2>2 DEF Numbered
        <4>10. ASSUME NEW t \in Slots, Owes(t, d)'
               PROVE  /\ Number(t)' \in 1 .. draft'[d].revisions
                      /\ \A i \in DOMAIN history'[d] : history'[d][i] # Number(t)'
          <5>1. CASE t = s
            BY <1>0, <2>2, <4>2, <4>3, <4>6, <5>1
          <5>2. CASE t # s
            BY <1>0, <2>2, <4>2, <4>5, <4>10, <5>2
          <5>3. QED BY <5>1, <5>2
        <4>11. ASSUME NEW t \in Slots, NEW u \in Slots, Owes(t, d)', Owes(u, d)',
                      Number(t)' = Number(u)'
               PROVE  t = u
          <5>1. CASE t = s /\ u # s
            BY <1>0, <4>3, <4>5, <4>11, <5>1
          <5>2. CASE t # s /\ u = s
            BY <1>0, <4>3, <4>5, <4>11, <5>2
          <5>3. CASE t # s /\ u # s
            BY <4>4, <4>11, <5>3 DEF Numbered
          <5>4. QED BY <5>1, <5>2, <5>3
        <4>12. QED BY <4>7, <4>8, <4>9, <4>10, <4>11 DEF Numbered
      <3>4. QED BY <3>2, <3>3
    <2>5. QED BY <2>1, <2>3, <2>4 DEF Writes
  <1>2. CASE \E s \in Slots : RecordRevision(s)
    <2>1. PICK s \in Slots : RecordRevision(s)
      BY <1>2
    <2>2. /\ draft' = draft /\ exposed' = exposed /\ Draft(s) \in Drafts
          /\ snap[s] \in Snapshots /\ pc[s] = "event" /\ Done(s)
          /\ history' = [history EXCEPT ![Draft(s)] = Append(@, Number(s))]
      BY <2>1, BusyTyped DEF RecordRevision, Number
    <2>3. \A t \in Slots : Owes(t, d)' => t # s /\ Owes(t, d) /\ snap'[t] = snap[t]
      BY <2>2, DoneFlight DEF Owes, Draft
    <2>4. CASE d # Draft(s)
      <3>1. history'[d] = history[d]
        BY <2>2, <2>4 DEF TypeOK
      <3>2. QED BY <1>0, <2>2, <2>3, <3>1, StillNumbered
    <2>5. CASE d = Draft(s)
      <3> SUFFICES ASSUME ~exposed[d] PROVE Numbered(d)'
        BY <2>2 DEF Numbered
      <3> DEFINE new == Append(history[d], Number(s))
      <3>1. history'[d] = new
        BY <2>2, <2>5 DEF TypeOK
      <3>2. Number(s) \in Nat
        BY <2>2 DEF Number, Snapshots
      <3>3. Owes(s, d)
        BY <2>2, <2>5 DEF Owes
      <3>4. /\ Number(s) \in 1 .. draft[d].revisions
            /\ \A i \in DOMAIN history[d] : history[d][i] # Number(s)
            /\ \A t \in Slots : Owes(t, d) /\ Number(t) = Number(s) => t = s
        BY <3>3 DEF Numbered
      <3>5. /\ DOMAIN history[d] = 1 .. Len(history[d]) /\ Len(history[d]) \in Nat
            /\ DOMAIN new = 1 .. (Len(history[d]) + 1)
            /\ \A i \in DOMAIN history[d] : new[i] = history[d][i]
            /\ new[Len(history[d]) + 1] = Number(s)
        BY <1>0, <3>2
      <3> HIDE DEF new
      <3>6. \A i \in DOMAIN new :
              \/ i \in DOMAIN history[d] /\ new[i] = history[d][i]
              \/ i = Len(history[d]) + 1 /\ new[i] = Number(s)
        BY <3>5
      <3>7. \A i \in DOMAIN new : new[i] \in 1 .. draft[d].revisions
        BY <3>4, <3>6 DEF Numbered
      <3>8. \A i, j \in DOMAIN new : new[i] = new[j] => i = j
        BY <3>4, <3>6 DEF Numbered
      <3>9. \A t \in Slots : Owes(t, d)' => t # s /\ Owes(t, d) /\ Number(t)' = Number(t)
        BY <2>3 DEF Number
      <3>10. ASSUME NEW t \in Slots, Owes(t, d)'
             PROVE  /\ Number(t)' \in 1 .. draft[d].revisions
                    /\ \A i \in DOMAIN new : new[i] # Number(t)'
        <4>1. t # s /\ Owes(t, d) /\ Number(t)' = Number(t)
          BY <3>9, <3>10
        <4>2. /\ Number(t) \in 1 .. draft[d].revisions
              /\ \A i \in DOMAIN history[d] : history[d][i] # Number(t)
          BY <4>1 DEF Numbered
        <4>3. QED BY <3>4, <3>6, <4>1, <4>2
      <3>11. \A t, u \in Slots : Owes(t, d)' /\ Owes(u, d)' /\ Number(t)' = Number(u)' => t = u
        BY <3>9 DEF Numbered
      <3>12. draft'[d].revisions <= MaxRevisions
        BY <2>2 DEF Numbered
      <3>13. \A i \in DOMAIN history'[d] : history'[d][i] \in 1 .. draft'[d].revisions
        BY <2>2, <3>1, <3>7
      <3>14. \A i, j \in DOMAIN history'[d] : history'[d][i] = history'[d][j] => i = j
        BY <3>1, <3>8
      <3>15. ASSUME NEW t \in Slots, Owes(t, d)'
             PROVE  /\ Number(t)' \in 1 .. draft'[d].revisions
                    /\ \A i \in DOMAIN history'[d] : history'[d][i] # Number(t)'
        BY <2>2, <3>1, <3>10, <3>15
      <3>16. QED BY <3>11, <3>12, <3>13, <3>14, <3>15 DEF Numbered
    <2>6. QED BY <2>4, <2>5
  <1>3. CASE Create(d)
    <2>1. /\ draft[d].revisions = 0 /\ draft'[d].revisions = 0
          /\ UNCHANGED <<history, exposed, pc, req, snap>>
      BY <1>3 DEF TypeOK, Create, Absent, NewDraft, slotVars
    <2>2. \A t \in Slots : Owes(t, d)' <=> Owes(t, d)
      BY <2>1 DEF Owes, Draft
    <2>3. QED BY <2>1, <2>2, StillNumbered
  <1>4. CASE /\ ~Create(d)
             /\ ~ \E s \in Slots : Writes(s) \/ RecordRevision(s)
    <2>1. draft'[d].revisions = draft[d].revisions
      BY <1>4, OtherSteps DEF Columns
    <2>2. history' = history
      BY <1>4, Steps DEF Receive, Begin, FinishCommit, Conflict, Reset, Abort, Create,
                         CountRegen, vars
    <2>3. \A t \in Slots : Owes(t, d)' => Owes(t, d) /\ snap'[t] = snap[t]
      <3>1. CASE \E s \in Slots, input \in Inputs : Receive(s, input)
        BY <3>1 DEF TypeOK, Receive, Owes, Draft
      <3>2. CASE \E s \in Slots : Done(s)
        BY <3>2, DoneFlight DEF Owes, Draft
      <3>3. CASE \E s \in Slots : pc[s] = "insert" /\ RetryOrThrow(s)
        BY <3>3, RetryFlight DEF Owes, Draft
      <3>4. CASE \E s \in Slots : Goto(s, "insert")
        BY <3>4 DEF TypeOK, Goto, Owes, Draft
      <3>5. CASE UNCHANGED slotVars
        BY <3>5 DEF slotVars, Owes, Draft
      <3>6. QED
        BY <1>4, <3>1, <3>2, <3>3, <3>4, <3>5, Steps
        DEF Begin, FinishCommit, Conflict, Reset, Abort, Create, CountRegen, vars
    <2>4. QED BY <1>0, <2>1, <2>2, <2>3, StillNumbered
  <1>5. QED BY <1>1, <1>2, <1>3, <1>4

\* Without overlapping requests the revision limit is kept, and the revision
\* events of a draft have different numbers, each of a requested revision.
THEOREM NumbersOfRevisions == Spec => []RevisionsNumbered
  <1> DEFINE Kept == \A d \in Drafts : Numbered(d)
  <1>1. Init => Kept
    BY DraftAssumption DEF Init, Numbered, Owes, Absent, NewDraft
  <1>2. ASSUME TypeOK, OrdersInv, Kept, [Next]_vars PROVE Kept'
    BY <1>2, NumberedStep DEF OrdersInv
  <1>3. Kept => RevisionsNumbered
    BY DEF Numbered, RevisionsNumbered
  <1> HIDE DEF Kept
  <1>4. QED BY <1>1, <1>2, <1>3, TypeCorrect, OrdersInvHolds, PTL DEF Spec
===============================================================================
