SPECIFICATION Spec
CONSTANTS
  q1 = q1
  q2 = q2
  d1 = d1
  g1 = g1
  NoOne = NoOne
  Slots = {q1, q2}
  Drafts = {d1}
  Designers = {g1}
  Methods = {"artist"}
  Inputs <- WorkflowInputs
  MaxRevisions = 2
  MaxRetries = 1
  Faults = {"error"}
SYMMETRY SlotSymmetry
INVARIANTS RevisionsNumbered
PROPERTIES WorkflowFollowsTable NoSectionLost
