\* Either backend: two requests of any kind, one connection, every failure, restarts.
SPECIFICATION Spec
CONSTANTS
  Requests = {r1, r2}
  SeedPosts = {p1, p2}
  Users = {alice, bob}
  MaxConns = 1
  Backends = {"memory", "postgres"}
  Inputs <- AllInputs
  Null = Null
INVARIANTS
  TypeOK
  ThreadIntegrity
  AcceptedWhileEnabled
  EventsAreFaithful
  AnswersAreTrue
  ConnectionsAccounted
PROPERTY OnlyAuthorToggles
SYMMETRY RequestSymmetry
