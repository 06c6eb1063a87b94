\* A subscription that ends while an event is on its way to it.
SPECIFICATION Spec
CONSTANTS
  s1 = s1
  s2 = s2
  e1 = e1
  e2 = e2
  p1 = p1
  p2 = p2
  Subs = {s1, s2}
  Posts = {p1}
  Events <- MCEvents
  Carriers <- MCEvents
  PostOf <- MCPostOf
  BufferSize = 1
  Null = Null
INVARIANT PublisherNeverPanics
CHECK_DEADLOCK FALSE
