--------------------------- MODULE MCDraftLifecycle ---------------------------
(* Small instances of DraftLifecycle: one draft, and slots serving requests. *)
EXTENDS DraftLifecycle, TLC

CONSTANTS q1, q2, d1, g1

Input(op, g, full) == [op |-> op, draft |-> d1, designer |-> g, full |-> full]

\* The work on a design, and what is added to the draft meanwhile.
WorkflowInputs ==
  {Input(op, g1, TRUE) : op \in {"assign", "preview"}}
    \cup {Input(op, NoOne, TRUE) : op \in {"update", "select", "revision", "cancel"}}
    \cup {Input("approve", NoOne, FALSE)}

\* The shortest work on a design, and everything that an order needs.
CommitInputs ==
  {Input(op, g1, TRUE) : op \in {"assign", "preview"}}
    \cup {Input(op, NoOne, TRUE) : op \in {"card", "billing"}}
    \cup {Input(op, NoOne, FALSE) : op \in {"update", "ship", "approve", "cancel", "commit"}}

\* What an uploaded design needs to be ordered.
OrderInputs == {Input(op, NoOne, FALSE) : op \in {"card", "ship", "commit"}}

SlotSymmetry == Permutations(Slots)
===============================================================================
