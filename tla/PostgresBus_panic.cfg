\* A subscription that ends while an event is fanned out to it.
SPECIFICATION Spec
CONSTANTS
  s1 = s1
  s2 = s2
  e1 = e1
  e2 = e2
  p1 = p1
  p2 = p2
  Subs = {s1, s2}
  Posts = {p1}
  Events <- MCEvents
  PostOf <- MCPostOf
  Listener = listener
  Malformed = {}
  Carriers <- MCCarriers
  BufferSize = 1
  Null = Null
INVARIANT ListenerNeverPanics
CHECK_DEADLOCK FALSE
