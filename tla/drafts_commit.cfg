SPECIFICATION Spec
CONSTANTS
  q1 = q1
  q2 = q2
  d1 = d1
  g1 = g1
  NoOne = NoOne
  Slots = {q1, q2}
  Drafts = {d1}
  Designers = {g1}
  Methods = {"artist", "upload"}
  Inputs <- CommitInputs
  MaxRevisions = 1
  MaxRetries = 2
  Faults = {"error", "reset"}
SYMMETRY SlotSymmetry
INVARIANTS TypeOK AtMostOneOrder OrderMatchesCommit OrderComplete
