\* Three requests on one post, two connections: pool and row-lock contention.
SPECIFICATION FairSpec
CONSTANTS
  Requests = {r1, r2, r3}
  SeedPosts = {p1}
  Users = {alice}
  MaxConns = 2
  Backends = {"postgres"}
  Inputs <- ValidInputs
  Null = Null
PROPERTY EveryRequestReturns
