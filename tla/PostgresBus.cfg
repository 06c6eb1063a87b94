\* Two subscriptions on two posts, two events and one payload that does not decode;
\* consumers may never receive.
SPECIFICATION FairSpec
CONSTANTS
  s1 = s1
  s2 = s2
  e1 = e1
  e2 = e2
  p1 = p1
  p2 = p2
  Subs = {s1, s2}
  Posts = {p1, p2}
  Events <- MCEvents
  PostOf <- MCPostOf
  Listener = listener
  Malformed = {m1}
  Carriers <- MCCarriers
  BufferSize = 1
  Null = Null
INVARIANTS
  TypeOK
  InNotifyOrder
  OnlyLaggardsMiss
  ShutdownIsSafe
PROPERTIES
  IsAFeed
  CloseReturns
  QueuedIsDispatched
CHECK_DEADLOCK FALSE
