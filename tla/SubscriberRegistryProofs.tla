---------------------- MODULE SubscriberRegistryProofs ----------------------
(***************************************************************************)
(* What every step of the registry keeps, and what it does to a            *)
(* subscription as its consumer sees it: its status, its topic and its log.*)
(* The proofs about both buses rest on these lemmas.                       *)
(***************************************************************************)
EXTENDS SubscriberRegistry, TLAPS, SequenceTheorems

\* A subscription has a topic as soon as it has a channel.
Subscribed == \A s \in Subs : channel[s] = Null <=> topic[s] = Null

NoDuplicates ==
    \A s \in Subs : \A i, j \in DOMAIN Delivered(s) :
        Delivered(s)[i] = Delivered(s)[j] => i = j

RegistryInv == RegistryTypeOK /\ Subscribed /\ RegisteredIffOpen /\ BuffersBounded

\* What a step may do without any event being delivered or any subscription
\* losing what it has.
LogsKept == \A q \in Subs : Delivered(q)' = Delivered(q) /\ Sent(q)' = Sent(q)
TopicsKept ==
    \A q \in Subs : channel[q] # Null => channel'[q] # Null /\ topic'[q] = topic[q]
StatusesKept == \A q \in Subs : Status(q)' = Status(q)

-----------------------------------------------------------------------------
\* Taking the head of a buffer leaves the log as it is.
LEMMA TakeKeepsLog ==
    ASSUME NEW a \in Seq(Events), NEW b \in Seq(Events), b # <<>>
    PROVE  Append(a, Head(b)) \o Tail(b) = a \o b
<1>1. /\ Head(b) \in Events /\ Tail(b) \in Seq(Events) /\ Len(Tail(b)) = Len(b) - 1
      /\ \A i \in 1 .. Len(Tail(b)) : Tail(b)[i] = b[i + 1]
      /\ Head(b) = b[1] /\ Len(b) \in Nat \ {0}
  BY HeadTailProperties
<1> DEFINE l == Append(a, Head(b)) \o Tail(b)
           r == a \o b
<1>2. l \in Seq(Events) /\ r \in Seq(Events) /\ Len(l) = Len(a) + Len(b) /\ Len(r) = Len(a) + Len(b)
  BY <1>1
<1>3. ASSUME NEW i \in 1 .. Len(l) PROVE l[i] = r[i]
  BY <1>1, <1>2
<1>4. QED
  BY <1>2, <1>3

\* Sending to a buffer appends to the log.
LEMMA SendAppendsLog ==
    ASSUME NEW a \in Seq(Events), NEW b \in Seq(Events), NEW e \in Events
    PROVE  a \o Append(b, e) = Append(a \o b, e)
<1> DEFINE l == a \o Append(b, e)
           r == Append(a \o b, e)
<1>1. l \in Seq(Events) /\ r \in Seq(Events) /\ Len(l) = Len(a) + Len(b) + 1 /\ Len(r) = Len(l)
  OBVIOUS
<1>2. ASSUME NEW i \in 1 .. Len(l) PROVE l[i] = r[i]
  BY <1>1
<1>3. QED
  BY <1>1, <1>2

\* An appended event is the one new element.
LEMMA AppendElements ==
    ASSUME NEW a \in Seq(Events), NEW e \in Events
    PROVE  {Append(a, e)[i] : i \in DOMAIN Append(a, e)} = {a[i] : i \in DOMAIN a} \cup {e}
<1>1. /\ DOMAIN a = 1 .. Len(a) /\ DOMAIN Append(a, e) = 1 .. Len(a) + 1
      /\ Len(a) \in Nat
      /\ \A i \in 1 .. Len(a) : Append(a, e)[i] = a[i]
      /\ Append(a, e)[Len(a) + 1] = e
  OBVIOUS
<1>2. 1 .. Len(a) + 1 = (1 .. Len(a)) \cup {Len(a) + 1}
  BY <1>1
<1>3. QED
  BY <1>1, <1>2

\* A log is a sequence of events.
LEMMA LogType ==
    ASSUME RegistryTypeOK, NEW s \in Subs
    PROVE  /\ Delivered(s) \in Seq(Events)
           /\ Sent(s) \subseteq Events
           /\ received[s] \in Seq(Events)
           /\ channel[s] # Null => /\ channel[s] \in Channel
                                   /\ channel[s].buffer \in Seq(Events)
                                   /\ Len(channel[s].buffer) \in Nat
                                   /\ channel[s].open \in BOOLEAN
<1>1. received[s] \in Seq(Events)
  BY DEF RegistryTypeOK
<1>2. channel[s] # Null => channel[s] \in Channel /\ channel[s].buffer \in Seq(Events)
                           /\ channel[s].open \in BOOLEAN
  BY DEF RegistryTypeOK, Channel
<1>3. channel[s] # Null => Len(channel[s].buffer) \in Nat
  BY <1>2
<1>4. Delivered(s) \in Seq(Events)
  BY <1>1, <1>2 DEF Delivered
<1>5. QED
  BY <1>1, <1>2, <1>3, <1>4 DEF Sent

\* The values a channel takes.
LEMMA ChannelNotNull == ASSUME NEW c \in Channel PROVE c # Null
BY NoChannelAssumption DEF Channel

LEMMA NewChannel ==
    LET new == [open |-> TRUE, buffer |-> <<>>] IN
    new \in Channel /\ new # Null /\ new.open /\ new.buffer = <<>>
<1> DEFINE new == [open |-> TRUE, buffer |-> <<>>]
<1>1. <<>> \in Seq(Events)
  OBVIOUS
<1>2. new \in Channel /\ new.open /\ new.buffer = <<>>
  BY <1>1 DEF Channel
<1>3. QED
  BY <1>2, ChannelNotNull

LEMMA ClosedChannel ==
    ASSUME NEW c \in Channel
    PROVE  /\ [c EXCEPT !.open = FALSE] \in Channel
           /\ [c EXCEPT !.open = FALSE] # Null
           /\ [c EXCEPT !.open = FALSE].buffer = c.buffer
           /\ ~[c EXCEPT !.open = FALSE].open
<1>1. [c EXCEPT !.open = FALSE] \in Channel
  BY DEF Channel
<1>2. QED
  BY <1>1, ChannelNotNull DEF Channel

LEMMA RefilledChannel ==
    ASSUME NEW c \in Channel, NEW b \in Seq(Events)
    PROVE  /\ [c EXCEPT !.buffer = b] \in Channel
           /\ [c EXCEPT !.buffer = b] # Null
           /\ [c EXCEPT !.buffer = b].buffer = b
           /\ [c EXCEPT !.buffer = b].open = c.open
<1>1. [c EXCEPT !.buffer = b] \in Channel
  BY DEF Channel
<1>2. QED
  BY <1>1, ChannelNotNull DEF Channel

\* A subscription is open when its status says so.
LEMMA OpenStatus ==
    ASSUME NEW s \in Subs
    PROVE  /\ IsOpen(s) <=> Status(s) = "open"
           /\ channel[s] = Null <=> Status(s) = "new"
           /\ Status(s) \in {"new", "open", "ended"}
BY DEF IsOpen, Status

\* A registered subscription is an open one, and the other way around.
LEMMA RegisteredIsOpen ==
    ASSUME RegistryInv, NEW s \in Subs, channel[s] # Null
    PROVE  topic[s] \in Posts /\ (s \in subscribers[topic[s]] <=> channel[s].open)
<1>1. topic[s] \in Posts
  BY DEF RegistryInv, Subscribed, RegistryTypeOK
<1>2. QED
  BY <1>1 DEF RegistryInv, RegisteredIffOpen, IsOpen

\* A step that touches one channel bounds the buffers if it bounds that one.
LEMMA BoundedElsewhere ==
    ASSUME NEW s \in Subs, BuffersBounded,
           \A q \in Subs \ {s} : channel'[q] = channel[q],
           Len(channel'[s].buffer) <= BufferSize
    PROVE  BuffersBounded'
<1> SUFFICES ASSUME NEW q \in Subs, channel'[q] # Null
             PROVE  Len(channel'[q].buffer) <= BufferSize
  BY DEF BuffersBounded
<1>1. CASE q = s
  BY <1>1
<1>2. CASE q # s
  BY <1>2 DEF BuffersBounded
<1>3. QED
  BY <1>1, <1>2

\* A registry in which only the bookkeeping of carriers and contexts changes.
LEMMA LogsDependOn ==
    ASSUME UNCHANGED <<channel, received>>
    PROVE  LogsKept /\ StatusesKept
BY DEF LogsKept, StatusesKept, Delivered, Sent, Status

-----------------------------------------------------------------------------
LEMMA RegistryInitHolds ==
    ASSUME RegistryInit
    PROVE  /\ RegistryInv
           /\ \A s \in Subs : Delivered(s) = <<>> /\ Sent(s) = {} /\ Status(s) = "new"
<1> USE DEF RegistryInit
<1>1. RegistryTypeOK
  <2>1. <<>> \in Seq(Events) /\ FALSE \in BOOLEAN
    OBVIOUS
  <2>2. QED
    BY <2>1 DEF RegistryTypeOK
<1>2. \A s \in Subs : Delivered(s) = <<>> /\ Sent(s) = {} /\ Status(s) = "new" /\ ~IsOpen(s)
  BY DEF Delivered, Sent, Status, IsOpen
<1>3. Subscribed /\ BuffersBounded /\ RegisteredIffOpen
  BY <1>2 DEF Subscribed, BuffersBounded, RegisteredIffOpen
<1>4. QED
  BY <1>1, <1>2, <1>3 DEF RegistryInv

LEMMA SubscribeRegisters ==
    ASSUME NEW s \in Subs, NEW p \in Posts, RegistryInv, Subscribe(s, p)
    PROVE  /\ RegistryInv' /\ LogsKept /\ TopicsKept
           /\ Status(s) = "new" /\ topic' = [topic EXCEPT ![s] = p]
           /\ \A q \in Subs : Status(q)' = IF q = s THEN "open" ELSE Status(q)
<1> DEFINE new == [open |-> TRUE, buffer |-> <<>>]
<1>1. new \in Channel /\ new # Null /\ new.open /\ new.buffer = <<>>
  BY NewChannel
<1>2. /\ channel[s] = Null /\ channel' = [channel EXCEPT ![s] = new]
      /\ channel \in [Subs -> Channel \cup {Null}] /\ received' = received
  BY DEF Subscribe, RegistryInv, RegistryTypeOK
<1> HIDE DEF new
<1>3. RegistryTypeOK'
  <2>1. channel' \in [Subs -> Channel \cup {Null}]
    BY <1>1, <1>2
  <2>2. subscribers' \in [Posts -> SUBSET Subs]
    BY DEF RegistryInv, RegistryTypeOK, Subscribe
  <2>3. topic' \in [Subs -> Posts \cup {Null}]
    BY DEF RegistryInv, RegistryTypeOK, Subscribe
  <2>4. QED
    BY <2>1, <2>2, <2>3 DEF RegistryInv, RegistryTypeOK, Subscribe
<1>4. /\ channel'[s] = new /\ \A q \in Subs \ {s} : channel'[q] = channel[q]
      /\ topic'[s] = p /\ \A q \in Subs \ {s} : topic'[q] = topic[q]
  BY <1>2 DEF Subscribe, RegistryInv, RegistryTypeOK
<1>5. Subscribed'
  BY <1>1, <1>4, NoChannelAssumption DEF RegistryInv, Subscribed
<1>6. RegisteredIffOpen'
  <2>1. \A x \in Posts : subscribers'[x] = IF x = p THEN subscribers[p] \cup {s} ELSE subscribers[x]
    BY DEF Subscribe, RegistryInv, RegistryTypeOK
  <2>2. \A x \in Posts : s \notin subscribers[x]
    BY <1>2 DEF RegistryInv, RegisteredIffOpen, IsOpen
  <2>3. IsOpen(s)' /\ \A q \in Subs \ {s} : IsOpen(q)' = IsOpen(q)
    BY <1>1, <1>4 DEF IsOpen
  <2>4. QED
    BY <1>4, <2>1, <2>2, <2>3 DEF RegistryInv, RegisteredIffOpen
<1>7. BuffersBounded'
  <2>1. Len(channel'[s].buffer) <= BufferSize
    <3>1. channel'[s].buffer = <<>>
      BY <1>1, <1>4
    <3>2. Len(<<>>) = 0
      OBVIOUS
    <3>3. QED
      BY <3>1, <3>2, BufferAssumption
  <2>2. QED
    BY <1>4, <2>1, BoundedElsewhere DEF RegistryInv
<1>8. LogsKept
  <2>1. received[s] \in Seq(Events)
    BY LogType DEF RegistryInv
  <2>2. received[s] \o <<>> = received[s]
    BY <2>1
  <2>3. \A q \in Subs : Delivered(q)' = Delivered(q)
    BY <1>1, <1>2, <1>4, <2>2 DEF Delivered
  <2>4. QED
    BY <2>3 DEF LogsKept, Sent
<1>9. Status(s) = "new" /\ \A q \in Subs : Status(q)' = IF q = s THEN "open" ELSE Status(q)
  BY <1>1, <1>2, <1>4 DEF Status
<1>10. QED
  BY <1>2, <1>3, <1>4, <1>5, <1>6, <1>7, <1>8, <1>9 DEF RegistryInv, TopicsKept, Subscribe

LEMMA UnsubscribeEndsOne ==
    ASSUME NEW s \in Subs, RegistryInv, Unsubscribe(s)
    PROVE  /\ RegistryInv' /\ LogsKept /\ TopicsKept
           /\ \A q \in Subs :
                Status(q)' = IF q = s /\ Status(q) = "open" THEN "ended" ELSE Status(q)
<1> DEFINE old == [channel[s] EXCEPT !.open = FALSE]
<1>1. /\ channel[s] # Null /\ topic[s] \in Posts
      /\ s \in subscribers[topic[s]] <=> channel[s].open
      /\ old \in Channel /\ old # Null /\ old.buffer = channel[s].buffer
      /\ ~old.open
  <2>1. channel[s] # Null /\ channel[s] \in Channel
    BY LogType DEF RegistryInv, Unsubscribe
  <2>2. QED
    BY <2>1, ClosedChannel, RegisteredIsOpen
<1>2. /\ UNCHANGED <<closed, topic, cancelled, targets, received, lagged>>
      /\ unsubscribed' \in SUBSET Subs
      /\ channel \in [Subs -> Channel \cup {Null}]
      /\ subscribers \in [Posts -> SUBSET Subs]
      /\ channel' = IF channel[s].open THEN [channel EXCEPT ![s] = old] ELSE channel
      /\ subscribers' = IF channel[s].open
                          THEN [subscribers EXCEPT ![topic[s]] = @ \ {s}] ELSE subscribers
  BY <1>1 DEF Unsubscribe, RegistryInv, RegistryTypeOK
<1> HIDE DEF old
<1>3. /\ subscribers' \in [Posts -> SUBSET Subs] /\ channel' \in [Subs -> Channel \cup {Null}]
      /\ channel'[s] # Null /\ ~channel'[s].open /\ channel'[s].buffer = channel[s].buffer
      /\ \A q \in Subs \ {s} : channel'[q] = channel[q]
  BY <1>1, <1>2
<1>4. RegistryTypeOK'
  BY <1>2, <1>3 DEF RegistryInv, RegistryTypeOK
<1>5. Subscribed' /\ BuffersBounded'
  BY <1>1, <1>2, <1>3 DEF RegistryInv, Subscribed, BuffersBounded
<1>6. LogsKept
  <2>1. \A q \in Subs : Delivered(q)' = Delivered(q)
    BY <1>1, <1>2, <1>3 DEF Delivered
  <2>2. QED
    BY <2>1 DEF LogsKept, Sent
<1>7. RegisteredIffOpen'
  <2>1. \A p \in Posts : s \in subscribers[p] => p = topic[s] /\ channel[s].open
    BY DEF RegistryInv, RegisteredIffOpen, IsOpen
  <2>2. \A p \in Posts : s \notin subscribers'[p]
    BY <1>1, <1>2, <2>1
  <2>3. ~IsOpen(s)'
    BY <1>3 DEF IsOpen
  <2>4. ASSUME NEW q \in Subs, q # s, NEW p \in Posts
        PROVE  /\ q \in subscribers'[p] <=> q \in subscribers[p]
               /\ channel'[q] = channel[q] /\ topic'[q] = topic[q]
    BY <1>1, <1>2, <1>3, <2>4
  <2>5. QED
    BY <2>2, <2>3, <2>4 DEF RegistryInv, RegisteredIffOpen, IsOpen
<1>8. \A q \in Subs :
        Status(q)' = IF q = s /\ Status(q) = "open" THEN "ended" ELSE Status(q)
  BY <1>1, <1>3 DEF Status
<1>9. QED
  BY <1>1, <1>2, <1>3, <1>4, <1>5, <1>6, <1>7, <1>8 DEF RegistryInv, TopicsKept

LEMMA CloseAllEnds ==
    ASSUME RegistryInv, CloseAll, closed' \in BOOLEAN,
           UNCHANGED <<topic, unsubscribed, cancelled, targets, received, lagged>>
    PROVE  /\ RegistryInv' /\ LogsKept /\ TopicsKept
           /\ \A q \in Subs : Status(q)' = IF Status(q) = "open" THEN "ended" ELSE Status(q)
<1>1. ASSUME NEW q \in Subs
      PROVE  /\ channel[q] = Null => channel'[q] = Null
             /\ channel[q] # Null => /\ channel'[q] \in Channel /\ channel'[q] # Null
                                     /\ channel'[q].buffer = channel[q].buffer
                                     /\ ~channel'[q].open
  <2>1. CASE channel[q] = Null
    BY <2>1 DEF CloseAll
  <2>2. CASE channel[q] # Null
    <3> DEFINE old == [channel[q] EXCEPT !.open = FALSE]
    <3>1. channel[q] \in Channel
      BY <2>2, LogType DEF RegistryInv
    <3>2. old \in Channel /\ old # Null /\ old.buffer = channel[q].buffer /\ ~old.open
      BY <3>1, ClosedChannel
    <3>3. channel'[q] = IF channel[q].open THEN old ELSE channel[q]
      BY <2>2, RegisteredIsOpen DEF CloseAll
    <3>4. QED
      BY <2>2, <3>1, <3>2, <3>3
  <2>3. QED
    BY <2>1, <2>2
<1>2. RegistryTypeOK'
  BY <1>1 DEF RegistryInv, RegistryTypeOK, CloseAll
<1>3. Subscribed' /\ BuffersBounded'
  BY <1>1 DEF RegistryInv, Subscribed, BuffersBounded
<1>4. LogsKept
  <2>1. \A q \in Subs : Delivered(q)' = Delivered(q)
    BY <1>1 DEF Delivered
  <2>2. QED
    BY <2>1 DEF LogsKept, Sent
<1>5. \A q \in Subs : Status(q)' = IF Status(q) = "open" THEN "ended" ELSE Status(q)
  BY <1>1 DEF Status
<1>6. RegisteredIffOpen'
  BY <1>1 DEF RegisteredIffOpen, IsOpen, CloseAll
<1>7. QED
  BY <1>1, <1>2, <1>3, <1>4, <1>5, <1>6 DEF RegistryInv, TopicsKept

\* Besides: how far the consumer has got.
LEMMA ReceiveMovesOne ==
    ASSUME NEW s \in Subs, RegistryInv, Receive(s)
    PROVE  /\ RegistryInv' /\ LogsKept /\ TopicsKept /\ StatusesKept
           /\ Len(received[s]) \in Nat /\ Len(received[s]) < Len(Delivered(s))
           /\ \A q \in Subs :
                Len(received'[q]) = IF q = s THEN Len(received[s]) + 1 ELSE Len(received[q])
<1> DEFINE b == channel[s].buffer
           rest == [channel[s] EXCEPT !.buffer = Tail(b)]
<1>1. /\ channel[s] \in Channel /\ b \in Seq(Events) /\ channel[s] # Null /\ b # <<>>
      /\ received[s] \in Seq(Events)
  BY LogType DEF RegistryInv, Receive
<1>2. /\ Tail(b) \in Seq(Events) /\ Head(b) \in Events
      /\ Len(Tail(b)) = Len(b) - 1 /\ Len(b) \in Nat \ {0} /\ Len(Tail(b)) <= Len(b)
  BY <1>1
<1>3. /\ rest \in Channel /\ rest # Null /\ rest.open = channel[s].open
      /\ rest.buffer = Tail(b)
  BY <1>1, <1>2, RefilledChannel
<1>4. /\ channel \in [Subs -> Channel \cup {Null}] /\ received \in [Subs -> Seq(Events)]
      /\ channel' = [channel EXCEPT ![s] = rest]
      /\ received' = [received EXCEPT ![s] = Append(received[s], Head(b))]
      /\ UNCHANGED <<subscribers, closed, topic, unsubscribed, cancelled, targets, lagged>>
  BY DEF Receive, RegistryInv, RegistryTypeOK
<1>5. Append(received[s], Head(b)) \o Tail(b) = received[s] \o b
  BY <1>1, TakeKeepsLog
<1>6. /\ Append(received[s], Head(b)) \in Seq(Events)
      /\ Len(Append(received[s], Head(b))) = Len(received[s]) + 1
      /\ Len(received[s]) \in Nat
      /\ Len(received[s] \o b) = Len(received[s]) + Len(b)
  BY <1>1, <1>2
<1> HIDE DEF rest
<1>7. /\ channel' \in [Subs -> Channel \cup {Null}] /\ channel'[s] = rest
      /\ \A q \in Subs \ {s} : channel'[q] = channel[q]
      /\ received' \in [Subs -> Seq(Events)] /\ received'[s] = Append(received[s], Head(b))
      /\ \A q \in Subs \ {s} : received'[q] = received[q]
  BY <1>3, <1>4, <1>6
<1>8. RegistryTypeOK'
  BY <1>4, <1>7 DEF RegistryInv, RegistryTypeOK
<1>9. Subscribed' /\ BuffersBounded'
  <2>1. Subscribed'
    BY <1>1, <1>3, <1>4, <1>7 DEF RegistryInv, Subscribed
  <2>2. channel'[s].buffer = Tail(b)
    BY <1>3, <1>7
  <2>3. Len(b) <= BufferSize
    BY <1>1 DEF RegistryInv, BuffersBounded
  <2> DEFINE l == Len(b)
  <2> HIDE DEF b, l
  <2>4. Len(channel'[s].buffer) <= BufferSize
    <3>1. l \in Nat /\ l <= BufferSize /\ Len(Tail(b)) = l - 1
      BY <1>2, <2>3 DEF l
    <3>2. QED
      BY <2>2, <3>1, BufferAssumption
  <2>5. BuffersBounded'
    BY <1>7, <2>4, BoundedElsewhere DEF RegistryInv
  <2>6. QED
    BY <2>1, <2>5
<1>10. StatusesKept
  BY <1>1, <1>3, <1>7 DEF StatusesKept, Status
<1>11. RegisteredIffOpen'
  <2>1. \A q \in Subs : IsOpen(q)' = IsOpen(q)
    BY <1>1, <1>3, <1>7 DEF IsOpen
  <2>2. QED
    BY <1>4, <2>1 DEF RegistryInv, RegisteredIffOpen
<1>12. LogsKept
  <2>1. \A q \in Subs : Delivered(q)' = Delivered(q)
    BY <1>1, <1>3, <1>5, <1>7 DEF Delivered
  <2>2. QED
    BY <2>1 DEF LogsKept, Sent
<1>13. Len(received[s]) < Len(Delivered(s))
  <2>1. Delivered(s) = received[s] \o b
    BY <1>1 DEF Delivered
  <2> HIDE DEF b
  <2>2. QED
    BY <1>2, <1>6, <2>1
<1>14. QED
  BY <1>1, <1>3, <1>4, <1>6, <1>7, <1>8, <1>9, <1>10, <1>11, <1>12, <1>13
     DEF RegistryInv, TopicsKept

-----------------------------------------------------------------------------
\* The bookkeeping of contexts and carriers.
LEMMA BookkeepingKeeps ==
    ASSUME RegistryInv, closed' \in BOOLEAN, cancelled' \in SUBSET Subs,
           targets' \in [Carriers -> SUBSET Subs],
           UNCHANGED <<subscribers, topic, channel, unsubscribed, received>>,
           lagged' \in SUBSET Subs
    PROVE  RegistryInv' /\ LogsKept /\ TopicsKept /\ StatusesKept
<1>1. LogsKept /\ StatusesKept /\ TopicsKept
  BY LogsDependOn DEF TopicsKept
<1>2. QED
  BY <1>1
     DEF RegistryInv, RegistryTypeOK, Subscribed, RegisteredIffOpen, BuffersBounded, IsOpen

\* The targets of an event are the open subscriptions to its post.
LEMMA TargetsAreOpen ==
    ASSUME NEW c \in Carriers, NEW e \in Events, RegistryInv, TakeTargets(c, e)
    PROVE  /\ RegistryInv' /\ LogsKept /\ TopicsKept /\ StatusesKept
           /\ targets' = [targets EXCEPT ![c] = {s \in Subs : IsOpen(s) /\ topic[s] = PostOf[e]}]
<1>1. /\ PostOf[e] \in Posts /\ subscribers[PostOf[e]] \in SUBSET Subs
      /\ targets \in [Carriers -> SUBSET Subs]
  BY PostOfAssumption DEF RegistryInv, RegistryTypeOK
<1>2. subscribers[PostOf[e]] = {s \in Subs : IsOpen(s) /\ topic[s] = PostOf[e]}
  BY <1>1 DEF RegistryInv, RegisteredIffOpen
<1>3. targets' \in [Carriers -> SUBSET Subs]
  BY <1>1 DEF TakeTargets
<1>4. RegistryInv' /\ LogsKept /\ TopicsKept /\ StatusesKept
  BY <1>3, BookkeepingKeeps DEF TakeTargets, RegistryInv, RegistryTypeOK
<1>5. QED
  BY <1>2, <1>4 DEF TakeTargets

LEMMA CancelKeepsRegistry ==
    ASSUME NEW s \in Subs, RegistryInv, Cancel(s)
    PROVE  RegistryInv' /\ LogsKept /\ TopicsKept /\ StatusesKept
BY BookkeepingKeeps DEF Cancel, RegistryInv, RegistryTypeOK

LEMMA PanicDropsTargets ==
    ASSUME NEW c \in Carriers, RegistryInv, SendPanics(c)
    PROVE  /\ RegistryInv' /\ LogsKept /\ TopicsKept /\ StatusesKept
           /\ targets' = [targets EXCEPT ![c] = {}]
<1>1. targets' \in [Carriers -> SUBSET Subs]
  BY DEF SendPanics, RegistryInv, RegistryTypeOK
<1>2. QED
  BY <1>1, BookkeepingKeeps DEF SendPanics, RegistryInv, RegistryTypeOK

\* A send to a subscription that has been subscribed: to a buffer with room the
\* event is delivered, and a full buffer costs a slow consumer the event.
LEMMA SendDeliversOrDrops ==
    ASSUME NEW c \in Carriers, NEW s \in Subs, NEW e \in Events, RegistryInv,
           channel[s] # Null, Send(c, s, e)
    PROVE  /\ RegistryInv' /\ TopicsKept /\ StatusesKept
           /\ Status(s) = "open"
           /\ targets' = [targets EXCEPT ![c] = @ \ {s}]
           /\ \/ /\ Delivered(s)' = Append(Delivered(s), e)
                 /\ Sent(s)' = Sent(s) \cup {e}
                 /\ \A q \in Subs \ {s} : Delivered(q)' = Delivered(q) /\ Sent(q)' = Sent(q)
                 /\ lagged' = lagged
                 /\ Len(Delivered(s)) - Len(received[s]) < BufferSize
              \/ LogsKept /\ lagged' = lagged \cup {s} /\ channel' = channel
<1> DEFINE b == Append(channel[s].buffer, e)
           more == [channel[s] EXCEPT !.buffer = b]
<1>1. /\ channel[s] \in Channel /\ channel[s].buffer \in Seq(Events)
      /\ Len(channel[s].buffer) \in Nat /\ received[s] \in Seq(Events)
      /\ Delivered(s) \in Seq(Events)
  BY LogType DEF RegistryInv
<1>2. b \in Seq(Events) /\ Len(b) = Len(channel[s].buffer) + 1
  BY <1>1
<1>3. /\ more \in Channel /\ more # Null /\ more.buffer = b
      /\ more.open = channel[s].open
  BY <1>1, <1>2, RefilledChannel
<1>4. /\ channel \in [Subs -> Channel \cup {Null}] /\ targets \in [Carriers -> SUBSET Subs]
      /\ targets' = [targets EXCEPT ![c] = @ \ {s}]
      /\ targets' \in [Carriers -> SUBSET Subs]
      /\ UNCHANGED <<subscribers, closed, topic, unsubscribed, cancelled, received>>
      /\ channel[s].open
  BY DEF Send, RegistryInv, RegistryTypeOK
<1>5. Status(s) = "open"
  BY <1>4 DEF Status
<1>6. CASE Len(channel[s].buffer) < BufferSize
  <2>1. channel' = [channel EXCEPT ![s] = more] /\ lagged' = lagged
    BY <1>6 DEF Send
  <2> HIDE DEF more
  <2>2. /\ channel'[s] = more
        /\ \A q \in Subs \ {s} : channel'[q] = channel[q]
        /\ channel' \in [Subs -> Channel \cup {Null}]
    BY <1>3, <1>4, <2>1
  <2>3. RegistryTypeOK'
    BY <1>4, <2>1, <2>2 DEF RegistryInv, RegistryTypeOK
  <2>4. Subscribed' /\ BuffersBounded'
    <3>1. Subscribed'
      BY <1>3, <1>4, <2>2 DEF RegistryInv, Subscribed
    <3>2. Len(channel'[s].buffer) <= BufferSize
      BY <1>1, <1>2, <1>3, <1>6, <2>2, BufferAssumption
    <3>3. BuffersBounded'
      BY <2>2, <3>2, BoundedElsewhere DEF RegistryInv
    <3>4. QED
      BY <3>1, <3>3
  <2>5. StatusesKept /\ TopicsKept
    BY <1>3, <1>4, <2>2 DEF StatusesKept, TopicsKept, Status
  <2>6. RegisteredIffOpen'
    <3>1. \A q \in Subs : IsOpen(q)' = IsOpen(q)
      BY <1>3, <2>2 DEF IsOpen
    <3>2. QED
      BY <1>4, <3>1 DEF RegistryInv, RegisteredIffOpen
  <2>7. Delivered(s)' = Append(Delivered(s), e)
    <3>1. Delivered(s)' = received[s] \o b
      BY <1>3, <1>4, <2>2 DEF Delivered
    <3>2. Delivered(s) = received[s] \o channel[s].buffer
      BY DEF Delivered
    <3>3. received[s] \o b = Append(received[s] \o channel[s].buffer, e)
      BY <1>1, SendAppendsLog
    <3>4. QED
      BY <3>1, <3>2, <3>3
  <2>8. Sent(s)' = Sent(s) \cup {e}
    <3>1. Sent(s)' = {Append(Delivered(s), e)[i] : i \in DOMAIN Append(Delivered(s), e)}
      BY <2>7 DEF Sent
    <3>2. Sent(s) = {Delivered(s)[i] : i \in DOMAIN Delivered(s)}
      BY DEF Sent
    <3>3. QED
      BY <1>1, <3>1, <3>2, AppendElements
  <2>9. \A q \in Subs \ {s} : Delivered(q)' = Delivered(q) /\ Sent(q)' = Sent(q)
    BY <1>4, <2>2 DEF Delivered, Sent
  <2>10. Len(Delivered(s)) - Len(received[s]) < BufferSize
    <3>1. Delivered(s) = received[s] \o channel[s].buffer
      BY DEF Delivered
    <3>2. Len(received[s] \o channel[s].buffer) = Len(received[s]) + Len(channel[s].buffer)
      BY <1>1
    <3> DEFINE l == Len(channel[s].buffer)
               m == Len(received[s])
    <3>3. l \in Nat /\ m \in Nat /\ l < BufferSize /\ Len(Delivered(s)) = m + l
      BY <1>1, <1>6, <3>1, <3>2
    <3> HIDE DEF l, m
    <3>4. Len(Delivered(s)) - m < BufferSize
      BY <3>3, BufferAssumption
    <3>5. QED
      BY <3>4 DEF m
  <2>11. QED
    BY <1>4, <1>5, <2>1, <2>3, <2>4, <2>5, <2>6, <2>7, <2>8, <2>9, <2>10 DEF RegistryInv
<1>7. CASE ~(Len(channel[s].buffer) < BufferSize)
  <2>1. channel' = channel /\ lagged' = lagged \cup {s}
    BY <1>7 DEF Send
  <2>2. lagged' \in SUBSET Subs /\ closed' \in BOOLEAN /\ cancelled' \in SUBSET Subs
    BY <1>4, <2>1 DEF RegistryInv, RegistryTypeOK
  <2>3. RegistryInv' /\ LogsKept /\ TopicsKept /\ StatusesKept
    BY <1>4, <2>1, <2>2, BookkeepingKeeps
  <2>4. QED
    BY <1>4, <1>5, <2>1, <2>3
<1>8. QED
  BY <1>6, <1>7

\* A log without duplicates stays one when it is given an event it has not got.
LEMMA NewEventIsNoDuplicate ==
    ASSUME NEW a \in Seq(Events), NEW e \in Events,
           \A i, j \in DOMAIN a : a[i] = a[j] => i = j,
           \A i \in DOMAIN a : a[i] # e
    PROVE  \A i, j \in DOMAIN Append(a, e) : Append(a, e)[i] = Append(a, e)[j] => i = j
OBVIOUS
=============================================================================
