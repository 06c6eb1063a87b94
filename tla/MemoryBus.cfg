\* Two subscriptions on two posts, two events of one post, buffers of one;
\* consumers may never receive.
SPECIFICATION FairSpec
CONSTANTS
  s1 = s1
  s2 = s2
  e1 = e1
  e2 = e2
  p1 = p1
  p2 = p2
  Subs = {s1, s2}
  Posts = {p1, p2}
  Events <- MCEvents
  Carriers <- MCEvents
  PostOf <- MCPostOf
  BufferSize = 1
  Null = Null
INVARIANTS
  RegistryIsSound
  FaithfulDelivery
  OnlyLaggardsMiss
PROPERTIES
  IsAFeed
  PublishersFinish
  CancelledAreClosed
CHECK_DEADLOCK FALSE
