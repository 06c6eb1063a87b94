SPECIFICATION FairSpec
CONSTANTS
  MaxPageSize = 2
  MaxDepth = 7
  ComplexityLimit = 20
  WordSize = 8
  Documents <- MCDocuments
  Admissions <- MCAdmissions
  o1 = o1
  o2 = o2
  http = http
  socket = socket
  l1 = l1
  a1 = a1
  a2 = a2
  Operation = {o1, o2, o3}
  Selection <- MCSelection
  Sessions = {http, socket}
  SessionOf <- MCSessionOf
  ScopeOf <- MCScopeOf
  Lists = {l1}
  Args = {a1, a2}
  MaxRows = 1
  Null = Null
INVARIANTS
  AdmittedIsBounded
  AnswersAreOfTheRequest
  CountCoversPage
PROPERTY LoadsAreAnswered
CHECK_DEADLOCK FALSE
