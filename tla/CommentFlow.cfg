\* Two mutations; one subscription whose client goes on reading and one whose
\* client need not; buffers of one.
SPECIFICATION FairSpec
CONSTANTS
  Requests = {r1, r2}
  SeedPosts = {p1}
  Users = {alice}
  Inputs <- MCInputs
  Subs = {s1, s2}
  BufferSize = 1
  Topics = {p1}
  Attentive = {s1}
  Faulty = {s1}
  Null = Null
INVARIANTS
  AcknowledgedIsNotLost
  ShownFaithfully
PROPERTIES
  ClientsHaveAFeed
  AcknowledgedAreShown
  ResolversEnd
CHECK_DEADLOCK FALSE
