-------------------------- MODULE PostgresBusProofs --------------------------
(***************************************************************************)
(* The safety of PostgresBus, and that it implements CommentFeed, for any  *)
(* subscriptions, posts, events and buffer size.                           *)
(*                                                                         *)
(* The inductive invariant orders what the listen loop is through with,    *)
(* the event it holds and the notifications on their way by the positions  *)
(* at which they were announced; the order of the logs follows from it.    *)
(***************************************************************************)
EXTENDS PostgresBus, SubscriberRegistryProofs

\* A log has m before n.
Precedes(log, m, n) == \E a, b \in DOMAIN log : a < b /\ log[a] = m /\ log[b] = n

AnnouncedOnce ==
    \A a, b \in DOMAIN announced : announced[a] = announced[b] => a = b

\* What is on its way keeps its order, behind the event the loop holds, and that
\* behind the events the loop is through with.
InOrder ==
    /\ \A i \in DOMAIN queue : queue[i] \in Announced
    /\ \A i, j \in DOMAIN queue : i < j => Precedes(announced, queue[i], queue[j])
    /\ current # Null => /\ current \in Announced
                         /\ \A i \in DOMAIN queue : Precedes(announced, current, queue[i])
    /\ \A e \in dispatched :
         /\ e \in Announced
         /\ \A i \in DOMAIN queue : Precedes(announced, e, queue[i])
         /\ current # Null => Precedes(announced, e, current)

\* The loop holds an event from the time it has decoded it; it has targets only
\* while it sends, a part of the audience of that event.
HoldsOne ==
    /\ current = Null <=> loop \in {"waiting", "stopped"}
    /\ loop # "sending" => targets[Listener] = {}
    /\ loop = "sending" => targets[Listener] \subseteq audience[current]

\* An event is for the audience it found, and sent to nobody else.
OnItsWay ==
    \A e \in Events :
        /\ \A s \in audience[e] : channel[s] # Null /\ topic[s] = PostOf[e]
        /\ e \notin dispatched /\ (e = current => loop = "decoded") => audience[e] = {}
        /\ \A s \in Subs : e \in Sent(s) =>
             s \in audience[e] /\ (e = current => s \notin targets[Listener])

\* Who has been through it got the event or was too slow.
Served ==
    /\ \A e \in dispatched : \A s \in audience[e] : e \in Sent(s) \/ s \in lagged
    /\ loop = "sending" => \A s \in audience[current] :
         s \in targets[Listener] \/ current \in Sent(s) \/ s \in lagged

\* Where Close stands, and who can have ended a subscription.
Shutdown ==
    /\ closing = "no" <=> ~closed
    /\ closing \in {"listenerClosed", "failed", "closed"} => loop = "stopped"
    /\ closing = "closed" => \A s \in Subs : Status(s) # "open"
    /\ \A s \in Subs : Status(s) = "ended" => s \in unsubscribed \/ closing = "closed"
    /\ loop = "panicked" => \E s \in unsubscribed : topic[s] = PostOf[current]

IInv ==
    /\ TypeOK /\ RegistryInv
    /\ AnnouncedOnce /\ InOrder /\ HoldsOne
    /\ OnItsWay /\ Served
    /\ InNotifyOrder
    /\ Shutdown

-----------------------------------------------------------------------------
\* Nothing is announced before itself.
LEMMA NotBeforeItself ==
    ASSUME AnnouncedOnce, announced \in Seq(Notifications), NEW n
    PROVE  ~Precedes(announced, n, n)
BY DEF AnnouncedOnce, Precedes

\* So the event the loop holds is not one it is through with.
LEMMA CurrentIsNew ==
    ASSUME IInv, current # Null
    PROVE  current \in Events /\ current \notin dispatched /\ current \in Announced
<1>1. ~Precedes(announced, current, current)
  BY NotBeforeItself DEF IInv, TypeOK
<1>2. QED
  BY <1>1 DEF IInv, TypeOK, InOrder

\* The log of announcements grows at its end only.
LEMMA AnnouncedGrows ==
    ASSUME announced \in Seq(Notifications), NEW n \in Notifications, n \notin Announced,
           announced' = Append(announced, n), AnnouncedOnce
    PROVE  /\ AnnouncedOnce'
           /\ announced' \in Seq(Notifications)
           /\ Announced' = Announced \cup {n}
           /\ \A x, y : Precedes(announced, x, y) => Precedes(announced', x, y)
           /\ \A x \in Announced : Precedes(announced', x, n)
<1>1. /\ Len(announced) \in Nat /\ DOMAIN announced = 1 .. Len(announced)
      /\ announced' \in Seq(Notifications)
      /\ DOMAIN announced' = 1 .. Len(announced) + 1
      /\ \A a \in 1 .. Len(announced) : announced'[a] = announced[a]
      /\ announced'[Len(announced) + 1] = n
  OBVIOUS
<1>2. \A a \in 1 .. Len(announced) : announced[a] # n
  BY <1>1 DEF Announced
<1>3. AnnouncedOnce'
  BY <1>1, <1>2 DEF AnnouncedOnce
<1>4. Announced' = Announced \cup {n}
  <2>1. 1 .. Len(announced) + 1 = (1 .. Len(announced)) \cup {Len(announced) + 1}
    BY <1>1
  <2>2. QED
    BY <1>1, <2>1 DEF Announced
<1>5. ASSUME NEW x, NEW y, Precedes(announced, x, y) PROVE Precedes(announced', x, y)
  BY <1>1, <1>5 DEF Precedes
<1>6. ASSUME NEW x \in Announced PROVE Precedes(announced', x, n)
  BY <1>1 DEF Announced, Precedes
<1>7. QED
  BY <1>1, <1>3, <1>4, <1>5, <1>6

\* Steps that leave the loop's event and its targets, the audiences and the logs
\* alone keep what is said of the events.
LEMMA EventsKeep ==
    ASSUME IInv, LogsKept, TopicsKept,
           UNCHANGED <<loop, current, dispatched, audience, targets, lagged>>
    PROVE  HoldsOne' /\ OnItsWay' /\ Served'
<1>1. HoldsOne'
  BY DEF IInv, HoldsOne
<1>2. OnItsWay'
  BY DEF IInv, OnItsWay, TypeOK, LogsKept, TopicsKept
<1>3. Served'
  <2>1. dispatched \subseteq Events /\ \A e \in Events : audience[e] \subseteq Subs
    BY DEF IInv, TypeOK
  <2>2. loop = "sending" => current \in Events
    BY DEF IInv, TypeOK, HoldsOne
  <2>3. QED
    BY <2>1, <2>2 DEF IInv, Served, LogsKept
<1>4. QED
  BY <1>1, <1>2, <1>3

\* A step of the registry alone.
LEMMA RegistryStepKeeps ==
    ASSUME IInv, RegistryInv', LogsKept, TopicsKept, UNCHANGED <<busVars, targets, lagged>>,
           Shutdown'
    PROVE  IInv'
<1>1. UNCHANGED <<announced, queue, connected, loop, current, closing, dispatched, audience>>
  BY DEF busVars
<1>2. HoldsOne' /\ OnItsWay' /\ Served'
  BY <1>1, EventsKeep
<1>3. AnnouncedOnce' /\ InOrder'
  BY <1>1 DEF IInv, AnnouncedOnce, InOrder, Precedes, Announced
<1>4. InNotifyOrder'
  BY <1>1 DEF IInv, InNotifyOrder, LogsKept
<1>5. TypeOK'
  BY <1>1 DEF IInv, TypeOK, RegistryInv
<1>6. QED
  BY <1>2, <1>3, <1>4, <1>5 DEF IInv

LEMMA SubscribeKeeps ==
    ASSUME NEW s \in Subs, NEW p \in Posts, IInv, Subscribe(s, p), UNCHANGED busVars
    PROVE  IInv'
<1>1. /\ RegistryInv' /\ LogsKept /\ TopicsKept
      /\ Status(s) = "new"
      /\ \A q \in Subs : Status(q)' = IF q = s THEN "open" ELSE Status(q)
  BY SubscribeRegisters DEF IInv
<1>2. UNCHANGED <<closed, unsubscribed, targets, lagged, loop, current, closing>> /\ ~closed
  BY DEF Subscribe, busVars
<1>3. \A q \in Subs : q \in unsubscribed => channel[q] = Null \/ topic'[q] = topic[q]
  BY <1>1 DEF TopicsKept
<1>4. Shutdown'
  <2>1. loop # "panicked" \/ \E q \in unsubscribed : topic'[q] = PostOf[current]
    <3>1. CASE loop = "panicked"
      <4>1. current \in Events /\ PostOf[current] \in Posts
        BY <3>1, PostOfAssumption DEF IInv, TypeOK, HoldsOne
      <4>2. PICK q \in unsubscribed : topic[q] = PostOf[current]
        BY <3>1 DEF IInv, Shutdown
      <4>3. q \in Subs /\ channel[q] # Null
        BY <4>1, <4>2, NoChannelAssumption DEF IInv, RegistryInv, Subscribed, RegistryTypeOK
      <4>4. QED
        BY <1>1, <4>2, <4>3 DEF TopicsKept
    <3>2. QED
      BY <3>1
  <2>2. QED
    BY <1>1, <1>2, <2>1 DEF IInv, Shutdown
<1>5. QED
  BY <1>1, <1>2, <1>4, RegistryStepKeeps

\* The steps of the registry that open nothing.
LEMMA NoOpeningKeeps ==
    ASSUME IInv, UNCHANGED <<closed, loop, current, closing, topic>>,
           unsubscribed \subseteq unsubscribed',
           \A q \in Subs : \/ Status(q)' = Status(q)
                           \/ Status(q)' = "ended" /\ q \in unsubscribed'
    PROVE  Shutdown'
BY DEF IInv, Shutdown

LEMMA UnsubscribeKeeps ==
    ASSUME NEW s \in Subs, IInv, Unsubscribe(s), UNCHANGED busVars
    PROVE  IInv'
<1>1. /\ RegistryInv' /\ LogsKept /\ TopicsKept
      /\ \A q \in Subs :
           Status(q)' = IF q = s /\ Status(q) = "open" THEN "ended" ELSE Status(q)
  BY UnsubscribeEndsOne DEF IInv
<1>2. /\ UNCHANGED <<closed, topic, targets, lagged, loop, current, closing>>
      /\ unsubscribed' = unsubscribed \cup {s}
  BY DEF Unsubscribe, busVars
<1>3. Shutdown'
  BY <1>1, <1>2, NoOpeningKeeps
<1>4. QED
  BY <1>1, <1>2, <1>3, RegistryStepKeeps

LEMMA ReceiveKeeps ==
    ASSUME NEW s \in Subs, IInv, Receive(s), UNCHANGED busVars
    PROVE  IInv'
<1>1. RegistryInv' /\ LogsKept /\ TopicsKept /\ StatusesKept
  BY ReceiveMovesOne DEF IInv
<1>2. UNCHANGED <<closed, topic, unsubscribed, targets, lagged, loop, current, closing>>
  BY DEF Receive, busVars
<1>3. Shutdown'
  BY <1>1, <1>2, NoOpeningKeeps DEF StatusesKept
<1>4. QED
  BY <1>1, <1>2, <1>3, RegistryStepKeeps

LEMMA CancelKeeps ==
    ASSUME NEW s \in Subs, IInv, Cancel(s), UNCHANGED busVars
    PROVE  IInv'
<1>1. RegistryInv' /\ LogsKept /\ TopicsKept /\ StatusesKept
  BY CancelKeepsRegistry DEF IInv
<1>2. UNCHANGED <<closed, topic, unsubscribed, targets, lagged, loop, current, closing>>
  BY DEF Cancel, busVars
<1>3. Shutdown'
  BY <1>1, <1>2, NoOpeningKeeps DEF StatusesKept
<1>4. QED
  BY <1>1, <1>2, <1>3, RegistryStepKeeps

\* Nothing happens.
LEMMA IdleKeeps == ASSUME IInv, UNCHANGED vars PROVE IInv'
<1>1. UNCHANGED <<registryVars, busVars>>
  BY DEF vars
<1>2. UNCHANGED <<closed, topic, unsubscribed, targets, lagged, loop, current, closing>>
  BY <1>1 DEF registryVars, busVars
<1>3. RegistryInv' /\ LogsKept /\ TopicsKept /\ StatusesKept
  BY <1>1, BookkeepingKeeps DEF registryVars, IInv, RegistryInv, RegistryTypeOK
<1>4. Shutdown'
  BY <1>2, <1>3, NoOpeningKeeps DEF StatusesKept
<1>5. QED
  BY <1>1, <1>2, <1>3, <1>4, RegistryStepKeeps

-----------------------------------------------------------------------------
\* Steps that leave the registry alone.
LEMMA RegistryIdle ==
    ASSUME IInv, UNCHANGED registryVars
    PROVE  RegistryInv' /\ LogsKept /\ TopicsKept /\ StatusesKept
BY BookkeepingKeeps DEF registryVars, IInv, RegistryInv, RegistryTypeOK

LEMMA AnnounceKeeps ==
    ASSUME NEW n \in Notifications, IInv, PublishCommentAdded(n)
    PROVE  IInv'
<1>1. RegistryInv' /\ LogsKept /\ TopicsKept /\ StatusesKept
  BY RegistryIdle DEF PublishCommentAdded
<1>2. /\ UNCHANGED <<connected, loop, current, closing, dispatched, audience>>
      /\ UNCHANGED <<closed, topic, unsubscribed, targets, lagged>>
      /\ n \notin Announced /\ announced' = Append(announced, n)
      /\ queue' = IF connected THEN Append(queue, n) ELSE queue
  BY DEF PublishCommentAdded, registryVars
<1>3. announced \in Seq(Notifications) /\ queue \in Seq(Notifications)
  BY DEF IInv, TypeOK
<1>4. /\ AnnouncedOnce'
      /\ announced' \in Seq(Notifications)
      /\ Announced' = Announced \cup {n}
      /\ \A x, y : Precedes(announced, x, y) => Precedes(announced', x, y)
      /\ \A x \in Announced : Precedes(announced', x, n)
  BY <1>2, <1>3, AnnouncedGrows DEF IInv
<1>5. /\ queue' \in Seq(Notifications)
      /\ \A i \in DOMAIN queue' : \/ i \in DOMAIN queue /\ queue'[i] = queue[i]
                                  \/ i = Len(queue) + 1 /\ queue'[i] = n
      /\ Len(queue) \in Nat /\ DOMAIN queue = 1 .. Len(queue)
      /\ DOMAIN queue' \in {1 .. Len(queue), 1 .. Len(queue) + 1}
  BY <1>2, <1>3
<1>6. HoldsOne' /\ OnItsWay' /\ Served'
  BY <1>1, <1>2, EventsKeep
<1>7. InOrder'
  <2>1. \A i \in DOMAIN queue' : queue'[i] \in Announced'
    BY <1>4, <1>5 DEF IInv, InOrder
  <2>2. ASSUME NEW i \in DOMAIN queue', NEW j \in DOMAIN queue', i < j
        PROVE  Precedes(announced', queue'[i], queue'[j])
    <3>1. i \in DOMAIN queue /\ queue'[i] = queue[i] /\ queue[i] \in Announced
      BY <1>5, <2>2 DEF IInv, InOrder
    <3>2. CASE queue'[j] = n
      BY <1>4, <3>1, <3>2
    <3>3. CASE j \in DOMAIN queue /\ queue'[j] = queue[j]
      BY <1>4, <2>2, <3>1, <3>3 DEF IInv, InOrder
    <3>4. QED
      BY <1>5, <3>2, <3>3
  <2>3. ASSUME NEW x \in Announced, \A i \in DOMAIN queue : Precedes(announced, x, queue[i])
        PROVE  \A i \in DOMAIN queue' : Precedes(announced', x, queue'[i])
    BY <1>4, <1>5, <2>3
  <2>4. QED
    BY <1>2, <1>4, <2>1, <2>2, <2>3 DEF IInv, InOrder
<1>8. InNotifyOrder'
  <2> SUFFICES ASSUME NEW s \in Subs, NEW i \in DOMAIN Delivered(s)',
                      NEW j \in DOMAIN Delivered(s)', i < j
               PROVE  Precedes(announced', Delivered(s)'[i], Delivered(s)'[j])
    BY DEF InNotifyOrder, Precedes
  <2>1. Delivered(s)' = Delivered(s)
    BY <1>1 DEF LogsKept
  <2>2. Precedes(announced, Delivered(s)[i], Delivered(s)[j])
    BY <2>1 DEF IInv, InNotifyOrder, Precedes
  <2>3. QED
    BY <1>4, <2>1, <2>2
<1>9. Shutdown'
  BY <1>1, <1>2, NoOpeningKeeps DEF StatusesKept
<1>10. TypeOK'
  BY <1>1, <1>2, <1>4, <1>5 DEF IInv, TypeOK, RegistryInv
<1>11. QED
  BY <1>1, <1>4, <1>6, <1>7, <1>8, <1>9, <1>10 DEF IInv

LEMMA LostKeeps ==
    ASSUME IInv, ConnectionLost
    PROVE  IInv'
<1>1. RegistryInv' /\ LogsKept /\ TopicsKept /\ StatusesKept
  BY RegistryIdle DEF ConnectionLost
<1>2. /\ UNCHANGED <<announced, loop, current, closing, dispatched, audience>>
      /\ UNCHANGED <<closed, topic, unsubscribed, targets, lagged>>
      /\ connected' = FALSE
  BY DEF ConnectionLost, registryVars
<1>3. /\ queue' \in Seq(Notifications)
      /\ \A i \in DOMAIN queue' : i \in DOMAIN queue /\ queue'[i] = queue[i]
  <2>1. PICK n \in 0 .. Len(queue) : queue' = SubSeq(queue, 1, n)
    BY DEF ConnectionLost
  <2>2. queue \in Seq(Notifications)
    BY DEF IInv, TypeOK
  <2>3. /\ n \in Int /\ \A i \in 1 .. n : i \in 1 .. Len(queue) /\ queue[i] \in Notifications
        /\ DOMAIN queue = 1 .. Len(queue)
    BY <2>2
  <2>4. /\ queue' \in Seq(Notifications)
        /\ Len(queue') = IF 1 <= n THEN n - 1 + 1 ELSE 0
        /\ \A i \in 1 .. n - 1 + 1 : queue'[i] = queue[1 + i - 1]
    BY <2>1, <2>3, SubSeqProperties
  <2>5. DOMAIN queue' = 1 .. n /\ \A i \in 1 .. n : queue'[i] = queue[i]
    BY <2>1, <2>4
  <2>6. QED
    BY <2>3, <2>4, <2>5
<1>4. HoldsOne' /\ OnItsWay' /\ Served'
  BY <1>1, <1>2, EventsKeep
<1>5. AnnouncedOnce' /\ InOrder'
  BY <1>2, <1>3 DEF IInv, AnnouncedOnce, InOrder, Precedes, Announced
<1>6. InNotifyOrder'
  BY <1>1, <1>2 DEF IInv, InNotifyOrder, LogsKept
<1>7. Shutdown'
  BY <1>1, <1>2, NoOpeningKeeps DEF StatusesKept
<1>8. TypeOK'
  BY <1>1, <1>2, <1>3 DEF IInv, TypeOK, RegistryInv
<1>9. QED
  BY <1>1, <1>4, <1>5, <1>6, <1>7, <1>8 DEF IInv

LEMMA NotificationKeeps ==
    ASSUME IInv, ReceiveNotification
    PROVE  IInv'
<1>1. RegistryInv' /\ LogsKept /\ TopicsKept /\ StatusesKept
  BY RegistryIdle DEF ReceiveNotification
<1>2. /\ UNCHANGED <<announced, connected, closing, dispatched, audience>>
      /\ UNCHANGED <<closed, topic, unsubscribed, targets, lagged>>
      /\ loop = "waiting"
  BY DEF ReceiveNotification, registryVars
<1>3. /\ queue' \in Seq(Notifications)
      /\ \A i \in DOMAIN queue' : /\ i \in Nat /\ 1 < i + 1 /\ i + 1 \in DOMAIN queue
                                  /\ queue'[i] = queue[i + 1]
      /\ 1 \in DOMAIN queue /\ Head(queue) = queue[1] /\ queue[1] \in Notifications
  BY DEF ReceiveNotification, IInv, TypeOK
<1>4. \/ loop' = "waiting" /\ current' = current
      \/ loop' = "decoded" /\ current' = queue[1] /\ queue[1] \in Events
  BY <1>2, <1>3 DEF ReceiveNotification, Notifications
<1>5. current = Null /\ targets[Listener] = {} /\ closing \notin {"listenerClosed", "failed", "closed"}
  BY <1>2 DEF IInv, HoldsOne, Shutdown
<1>6. InOrder'
  <2>1. /\ \A i \in DOMAIN queue' : queue'[i] \in Announced'
        /\ \A i, j \in DOMAIN queue' : i < j => Precedes(announced', queue'[i], queue'[j])
    <3>1. \A i \in DOMAIN queue' : queue'[i] \in Announced'
      BY <1>2, <1>3 DEF IInv, InOrder, Announced
    <3>2. ASSUME NEW i \in DOMAIN queue', NEW j \in DOMAIN queue', i < j
          PROVE  Precedes(announced', queue'[i], queue'[j])
      <4>1. i + 1 \in DOMAIN queue /\ j + 1 \in DOMAIN queue /\ i + 1 < j + 1
        BY <1>3, <3>2
      <4>2. Precedes(announced, queue[i + 1], queue[j + 1])
        BY <4>1 DEF IInv, InOrder
      <4>3. QED
        BY <1>2, <1>3, <4>2 DEF Precedes
    <3>3. QED
      BY <3>1, <3>2
  <2>2. /\ queue[1] \in Announced'
        /\ \A i \in DOMAIN queue' : Precedes(announced', queue[1], queue'[i])
    BY <1>2, <1>3 DEF IInv, InOrder, Announced, Precedes
  <2>3. \A e \in dispatched : /\ e \in Announced'
                              /\ \A i \in DOMAIN queue' : Precedes(announced', e, queue'[i])
                              /\ Precedes(announced', e, queue[1])
    BY <1>2, <1>3 DEF IInv, InOrder, Announced, Precedes
  <2>4. QED
    BY <1>2, <1>4, <1>5, <2>1, <2>2, <2>3 DEF InOrder
<1>7. ASSUME current' # Null
      PROVE  /\ loop' = "decoded" /\ current' \in Events
             /\ current' \notin dispatched
  <2>1. loop' = "decoded" /\ current' = queue[1] /\ queue[1] \in Events
    BY <1>4, <1>5, <1>7
  <2>2. ~Precedes(announced, queue[1], queue[1])
    BY NotBeforeItself DEF IInv, TypeOK
  <2>3. QED
    BY <1>3, <2>1, <2>2 DEF IInv, InOrder
<1>8. HoldsOne'
  BY <1>2, <1>4, <1>5, MalformedAssumption DEF HoldsOne
<1>9. OnItsWay'
  <2> SUFFICES ASSUME NEW e \in Events PROVE OnItsWay!(e)'
    BY DEF OnItsWay
  <2>1. OnItsWay!(e) /\ audience[e] \subseteq Subs
    BY DEF IInv, OnItsWay, TypeOK
  <2>2. e # current
    BY <1>5, MalformedAssumption
  <2>3. e = current' => loop' = "decoded" /\ e \notin dispatched
    BY <1>7, MalformedAssumption
  <2>4. QED
    BY <1>1, <1>2, <1>5, <2>1, <2>2, <2>3 DEF LogsKept, TopicsKept
<1>10. Served'
  BY <1>1, <1>2, <1>4 DEF IInv, Served, TypeOK, LogsKept
<1>11. AnnouncedOnce' /\ InNotifyOrder'
  BY <1>1, <1>2 DEF IInv, AnnouncedOnce, InNotifyOrder, LogsKept
<1>12. Shutdown'
  BY <1>1, <1>2, <1>4, <1>5 DEF IInv, Shutdown, StatusesKept
<1>13. TypeOK'
  BY <1>1, <1>2, <1>3, <1>4, <1>5 DEF IInv, TypeOK, RegistryInv, Loops
<1>14. QED
  BY <1>1, <1>6, <1>8, <1>9, <1>10, <1>11, <1>12, <1>13 DEF IInv

-----------------------------------------------------------------------------
\* Steps of the loop after the notification: the order stays.
LEMMA OrderKeeps ==
    ASSUME IInv, UNCHANGED <<announced, queue, dispatched>>,
           current' = current \/ current' = Null
    PROVE  AnnouncedOnce' /\ InOrder'
BY DEF IInv, AnnouncedOnce, InOrder, Announced

LEMMA DispatchKeeps ==
    ASSUME IInv, Dispatch
    PROVE  IInv'
<1> DEFINE listeners == {s \in Subs : IsOpen(s) /\ topic[s] = PostOf[current]}
<1>1. /\ loop = "decoded" /\ loop' = "sending"
      /\ UNCHANGED <<announced, queue, connected, current, closing, dispatched>>
      /\ UNCHANGED <<closed, topic, channel, unsubscribed, lagged>>
      /\ audience' = [audience EXCEPT ![current] = listeners]
      /\ TakeTargets(Listener, current)
  BY DEF Dispatch, TakeTargets
<1>2. current # Null /\ current \in Events /\ current \notin dispatched
  BY <1>1, CurrentIsNew DEF IInv, HoldsOne
<1>3. /\ RegistryInv' /\ LogsKept /\ TopicsKept /\ StatusesKept
      /\ targets' = [targets EXCEPT ![Listener] = listeners]
  BY <1>1, <1>2, TargetsAreOpen, ListenerAssumption DEF IInv
<1>4. /\ audience \in [Events -> SUBSET Subs] /\ targets \in [Carriers -> SUBSET Subs]
      /\ targets'[Listener] = listeners /\ audience'[current] = listeners
      /\ \A e \in Events \ {current} : audience'[e] = audience[e]
      /\ audience' \in [Events -> SUBSET Subs]
  BY <1>1, <1>2, <1>3, ListenerAssumption DEF IInv, TypeOK, RegistryTypeOK
<1>5. \A s \in Subs : current \notin Sent(s)
  BY <1>1, <1>2 DEF IInv, OnItsWay
<1>6. \A s \in listeners : channel[s] # Null /\ topic[s] = PostOf[current]
  BY DEF IsOpen
<1> HIDE DEF listeners
<1>7. HoldsOne'
  BY <1>1, <1>2, <1>4 DEF HoldsOne
<1>8. OnItsWay'
  <2> SUFFICES ASSUME NEW e \in Events PROVE OnItsWay!(e)'
    BY DEF OnItsWay
  <2>1. OnItsWay!(e)
    BY DEF IInv, OnItsWay
  <2>2. CASE e = current
    BY <1>1, <1>3, <1>4, <1>5, <1>6, <2>2 DEF LogsKept
  <2>3. CASE e # current
    BY <1>1, <1>3, <1>4, <2>1, <2>3 DEF LogsKept
  <2>4. QED
    BY <2>2, <2>3
<1>9. Served'
  <2>1. /\ dispatched \subseteq Events /\ current \notin dispatched
        /\ \A e \in Events : audience[e] \subseteq Subs
    BY <1>2 DEF IInv, TypeOK
  <2>2. QED
    BY <1>1, <1>3, <1>4, <2>1 DEF IInv, Served, LogsKept
<1>10. AnnouncedOnce' /\ InOrder' /\ InNotifyOrder'
  BY <1>1, <1>3, OrderKeeps DEF IInv, InNotifyOrder, LogsKept
<1>11. Shutdown'
  BY <1>1, <1>3 DEF IInv, Shutdown, StatusesKept
<1>12. TypeOK'
  BY <1>1, <1>3, <1>4 DEF IInv, TypeOK, RegistryInv, Loops
<1>13. QED
  BY <1>3, <1>7, <1>8, <1>9, <1>10, <1>11, <1>12 DEF IInv

\* What a turn of the sending loop meets and does.
LEMMA SendSteps ==
    ASSUME NEW s \in Subs, IInv, loop = "sending", Send(Listener, s, current)
    PROVE  /\ RegistryInv' /\ TopicsKept /\ StatusesKept
           /\ current \in Events /\ current \notin dispatched /\ current \in Announced
           /\ Status(s) = "open" /\ topic[s] = PostOf[current]
           /\ s \in audience[current] /\ current \notin Sent(s)
           /\ targets'[Listener] = targets[Listener] \ {s}
           /\ UNCHANGED <<closed, topic, unsubscribed, received>>
           /\ \/ /\ Delivered(s)' = Append(Delivered(s), current)
                 /\ Sent(s)' = Sent(s) \cup {current}
                 /\ \A q \in Subs \ {s} : Delivered(q)' = Delivered(q) /\ Sent(q)' = Sent(q)
                 /\ lagged' = lagged
                 /\ Len(Delivered(s)) - Len(received[s]) < BufferSize
              \/ LogsKept /\ lagged' = lagged \cup {s} /\ channel' = channel
<1>1. current # Null
  BY DEF IInv, HoldsOne
<1>2. current \in Events /\ current \notin dispatched /\ current \in Announced
  BY <1>1, CurrentIsNew
<1>3. s \in targets[Listener] /\ s \in audience[current]
  BY DEF Send, IInv, HoldsOne
<1>4. channel[s] # Null /\ topic[s] = PostOf[current] /\ current \notin Sent(s)
  BY <1>2, <1>3 DEF IInv, OnItsWay
<1>5. /\ RegistryInv' /\ TopicsKept /\ StatusesKept
      /\ Status(s) = "open"
      /\ targets' = [targets EXCEPT ![Listener] = @ \ {s}]
      /\ \/ /\ Delivered(s)' = Append(Delivered(s), current)
            /\ Sent(s)' = Sent(s) \cup {current}
            /\ \A q \in Subs \ {s} : Delivered(q)' = Delivered(q) /\ Sent(q)' = Sent(q)
            /\ lagged' = lagged
            /\ Len(Delivered(s)) - Len(received[s]) < BufferSize
         \/ LogsKept /\ lagged' = lagged \cup {s} /\ channel' = channel
  BY <1>2, <1>4, ListenerAssumption, SendDeliversOrDrops DEF IInv
<1>6. targets'[Listener] = targets[Listener] \ {s}
  BY <1>5, ListenerAssumption DEF IInv, TypeOK, RegistryTypeOK
<1>7. UNCHANGED <<closed, topic, unsubscribed, received>>
  BY DEF Send
<1>8. QED
  BY <1>2, <1>3, <1>4, <1>5, <1>6, <1>7

\* An event that is behind all others of a log may be appended.
LEMMA AppendInOrder ==
    ASSUME NEW log \in Seq(Events), NEW e \in Events,
           \A i, j \in DOMAIN log : i < j => Precedes(announced, log[i], log[j]),
           \A i \in DOMAIN log : Precedes(announced, log[i], e)
    PROVE  \A i, j \in DOMAIN Append(log, e) :
             i < j => Precedes(announced, Append(log, e)[i], Append(log, e)[j])
<1>1. /\ Len(log) \in Nat /\ DOMAIN log = 1 .. Len(log)
      /\ DOMAIN Append(log, e) = 1 .. Len(log) + 1
      /\ \A i \in 1 .. Len(log) : Append(log, e)[i] = log[i]
      /\ Append(log, e)[Len(log) + 1] = e
  OBVIOUS
<1>2. QED
  BY <1>1

LEMMA SendKeeps ==
    ASSUME NEW s \in Subs, IInv, loop = "sending", Send(Listener, s, current),
           UNCHANGED busVars
    PROVE  IInv'
<1>1. UNCHANGED <<announced, queue, connected, loop, current, closing, dispatched, audience>>
  BY DEF busVars
<1>2. /\ RegistryInv' /\ TopicsKept /\ StatusesKept
      /\ current \in Events /\ current \notin dispatched
      /\ s \in audience[current] /\ current \notin Sent(s)
      /\ targets'[Listener] = targets[Listener] \ {s}
      /\ UNCHANGED <<closed, topic, unsubscribed, received>>
      /\ \/ /\ Delivered(s)' = Append(Delivered(s), current)
            /\ Sent(s)' = Sent(s) \cup {current}
            /\ \A q \in Subs \ {s} : Delivered(q)' = Delivered(q) /\ Sent(q)' = Sent(q)
            /\ lagged' = lagged
         \/ LogsKept /\ lagged' = lagged \cup {s}
  BY SendSteps
<1>3. /\ \A q \in Subs : Sent(q)' = Sent(q) \/ (q = s /\ Sent(q)' = Sent(q) \cup {current})
      /\ \A q \in Subs : Sent(q) \subseteq Sent(q)'
      /\ lagged \subseteq lagged'
      /\ current \in Sent(s)' \/ s \in lagged'
  BY <1>2 DEF LogsKept
<1>4. HoldsOne'
  BY <1>1, <1>2 DEF IInv, HoldsOne
<1>5. OnItsWay'
  <2> SUFFICES ASSUME NEW e \in Events PROVE OnItsWay!(e)'
    BY DEF OnItsWay
  <2>1. OnItsWay!(e) /\ audience[e] \subseteq Subs
    BY DEF IInv, OnItsWay, TypeOK
  <2>2. QED
    BY <1>1, <1>2, <1>3, <2>1 DEF TopicsKept
<1>6. Served'
  <2>1. dispatched \subseteq Events /\ \A e \in Events : audience[e] \subseteq Subs
    BY DEF IInv, TypeOK
  <2>2. QED
    BY <1>1, <1>2, <1>3, <2>1 DEF IInv, Served
<1>7. InNotifyOrder'
  <2>1. Delivered(s) \in Seq(Events)
    BY LogType DEF IInv, TypeOK
  <2>2. ASSUME NEW i \in DOMAIN Delivered(s)
        PROVE  Precedes(announced, Delivered(s)[i], current)
    <3>1. Delivered(s)[i] \in Sent(s) /\ Delivered(s)[i] \in Events
      BY <2>1 DEF Sent
    <3>2. Delivered(s)[i] # current
      BY <1>2, <3>1
    <3>3. Delivered(s)[i] \in dispatched
      BY <3>1, <3>2 DEF IInv, OnItsWay
    <3>4. current # Null
      BY DEF IInv, HoldsOne
    <3>5. QED
      BY <3>3, <3>4 DEF IInv, InOrder
  <2>3. \A q \in Subs : \A i, j \in DOMAIN Delivered(q) :
          i < j => Precedes(announced, Delivered(q)[i], Delivered(q)[j])
    BY DEF IInv, InNotifyOrder, Precedes
  <2>4. \A i, j \in DOMAIN Append(Delivered(s), current) :
          i < j => Precedes(announced, Append(Delivered(s), current)[i],
                                       Append(Delivered(s), current)[j])
    BY <1>2, <2>1, <2>2, <2>3, AppendInOrder
  <2>5. \A q \in Subs : \/ Delivered(q)' = Delivered(q)
                        \/ q = s /\ Delivered(q)' = Append(Delivered(s), current)
    BY <1>2 DEF LogsKept
  <2>6. \A q \in Subs : \A i, j \in DOMAIN Delivered(q)' :
          i < j => Precedes(announced, Delivered(q)'[i], Delivered(q)'[j])
    BY <2>3, <2>4, <2>5
  <2>7. QED
    BY <1>1, <2>6 DEF InNotifyOrder, Precedes
<1>8. AnnouncedOnce' /\ InOrder'
  BY <1>1, OrderKeeps
<1>9. Shutdown'
  BY <1>1, <1>2 DEF IInv, Shutdown, StatusesKept
<1>10. TypeOK'
  BY <1>1, <1>2 DEF IInv, TypeOK, RegistryInv
<1>11. QED
  BY <1>2, <1>4, <1>5, <1>6, <1>7, <1>8, <1>9, <1>10 DEF IInv

LEMMA ReturnKeeps ==
    ASSUME IInv, DispatchReturns
    PROVE  IInv'
<1>1. RegistryInv' /\ LogsKept /\ TopicsKept /\ StatusesKept
  BY RegistryIdle DEF DispatchReturns
<1>2. /\ UNCHANGED <<announced, queue, connected, closing, audience>>
      /\ UNCHANGED <<closed, topic, unsubscribed, targets, lagged>>
      /\ loop = "sending" /\ loop' = "waiting" /\ current' = Null
      /\ targets[Listener] = {} /\ dispatched' = dispatched \cup {current}
  BY DEF DispatchReturns, registryVars
<1>3. current # Null /\ current \in Events /\ current \in Announced
  BY <1>2, CurrentIsNew DEF IInv, HoldsOne
<1>4. HoldsOne'
  BY <1>2 DEF HoldsOne
<1>5. OnItsWay'
  <2> SUFFICES ASSUME NEW e \in Events PROVE OnItsWay!(e)'
    BY DEF OnItsWay
  <2>1. OnItsWay!(e) /\ audience[e] \subseteq Subs /\ e # Null
    BY MalformedAssumption DEF IInv, OnItsWay, TypeOK
  <2>2. QED
    BY <1>1, <1>2, <1>3, <2>1 DEF LogsKept, TopicsKept
<1>6. Served'
  <2>1. dispatched \subseteq Events /\ \A e \in Events : audience[e] \subseteq Subs
    BY DEF IInv, TypeOK
  <2>2. QED
    BY <1>1, <1>2, <1>3, <2>1 DEF IInv, Served, LogsKept
<1>7. AnnouncedOnce' /\ InNotifyOrder'
  BY <1>1, <1>2 DEF IInv, AnnouncedOnce, InNotifyOrder, LogsKept
<1>8. InOrder'
  BY <1>2, <1>3 DEF IInv, InOrder, Announced
<1>9. Shutdown'
  BY <1>1, <1>2 DEF IInv, Shutdown, StatusesKept
<1>10. TypeOK'
  BY <1>1, <1>2, <1>3 DEF IInv, TypeOK, RegistryInv, Loops
<1>11. QED
  BY <1>1, <1>4, <1>5, <1>6, <1>7, <1>8, <1>9, <1>10 DEF IInv

\* A target that is no longer open has been unsubscribed: Close is not so far.
LEMMA PanicKeeps ==
    ASSUME IInv, DispatchPanics
    PROVE  IInv'
<1>1. /\ UNCHANGED <<announced, queue, connected, current, closing, dispatched, audience>>
      /\ UNCHANGED <<closed, topic, unsubscribed, lagged>>
      /\ loop = "sending" /\ loop' = "panicked"
      /\ SendPanics(Listener)
  BY DEF DispatchPanics, SendPanics
<1>2. /\ RegistryInv' /\ LogsKept /\ TopicsKept /\ StatusesKept
      /\ targets' = [targets EXCEPT ![Listener] = {}]
  BY <1>1, PanicDropsTargets, ListenerAssumption DEF IInv
<1>3. targets'[Listener] = {}
  BY <1>2, ListenerAssumption DEF IInv, TypeOK, RegistryTypeOK
<1>4. current # Null /\ current \in Events /\ current \notin dispatched
  BY <1>1, CurrentIsNew DEF IInv, HoldsOne
<1>5. \E s \in unsubscribed : topic[s] = PostOf[current]
  <2>1. PICK s \in targets[Listener] : ~channel[s].open
    BY <1>1 DEF SendPanics
  <2>2. s \in audience[current] /\ s \in Subs
    BY <1>1, <1>4, <2>1 DEF IInv, HoldsOne, TypeOK
  <2>3. channel[s] # Null /\ topic[s] = PostOf[current]
    BY <1>4, <2>2 DEF IInv, OnItsWay
  <2>4. Status(s) = "ended" /\ closing # "closed"
    BY <1>1, <2>1, <2>3 DEF Status, IInv, Shutdown
  <2>5. QED
    BY <2>2, <2>3, <2>4 DEF IInv, Shutdown
<1>6. HoldsOne'
  BY <1>1, <1>3, <1>4 DEF HoldsOne
<1>7. OnItsWay'
  <2> SUFFICES ASSUME NEW e \in Events PROVE OnItsWay!(e)'
    BY DEF OnItsWay
  <2>1. OnItsWay!(e) /\ audience[e] \subseteq Subs
    BY DEF IInv, OnItsWay, TypeOK
  <2>2. QED
    BY <1>1, <1>2, <1>3, <2>1 DEF LogsKept, TopicsKept
<1>8. Served'
  BY <1>1, <1>2 DEF IInv, Served, TypeOK, LogsKept
<1>9. AnnouncedOnce' /\ InOrder' /\ InNotifyOrder'
  BY <1>1, <1>2, OrderKeeps DEF IInv, InNotifyOrder, LogsKept
<1>10. Shutdown'
  BY <1>1, <1>2, <1>5 DEF IInv, Shutdown, StatusesKept
<1>11. TypeOK'
  BY <1>1, <1>2 DEF IInv, TypeOK, RegistryInv, Loops
<1>12. QED
  BY <1>2, <1>6, <1>7, <1>8, <1>9, <1>10, <1>11 DEF IInv

\* The loop stops between two events, and Close goes on only then.
LEMMA StopKeeps ==
    ASSUME IInv, Stop \/ CloseListener
    PROVE  IInv'
<1>1. RegistryInv' /\ LogsKept /\ TopicsKept /\ StatusesKept
  BY RegistryIdle DEF Stop, CloseListener
<1>2. /\ UNCHANGED <<announced, queue, current, dispatched, audience>>
      /\ UNCHANGED <<closed, topic, unsubscribed, targets, lagged>>
      /\ loop \in {"waiting", "stopped"} /\ loop' = "stopped"
      /\ closing # "no" /\ closing # "closed"
      /\ closing' = closing \/ closing' \in {"listenerClosed", "failed"}
      /\ connected' \in BOOLEAN
  BY DEF Stop, CloseListener, registryVars, IInv, Shutdown, TypeOK
<1>3. HoldsOne'
  BY <1>2 DEF IInv, HoldsOne
<1>4. OnItsWay'
  <2> SUFFICES ASSUME NEW e \in Events PROVE OnItsWay!(e)'
    BY DEF OnItsWay
  <2>1. OnItsWay!(e) /\ audience[e] \subseteq Subs /\ e # current
    BY <1>2, MalformedAssumption DEF IInv, OnItsWay, TypeOK, HoldsOne
  <2>2. QED
    BY <1>1, <1>2, <2>1 DEF LogsKept, TopicsKept
<1>5. Served'
  BY <1>1, <1>2 DEF IInv, Served, TypeOK, LogsKept
<1>6. AnnouncedOnce' /\ InOrder' /\ InNotifyOrder'
  BY <1>1, <1>2, OrderKeeps DEF IInv, InNotifyOrder, LogsKept
<1>7. Shutdown'
  BY <1>1, <1>2 DEF IInv, Shutdown, StatusesKept
<1>8. TypeOK'
  BY <1>1, <1>2 DEF IInv, TypeOK, RegistryInv, Loops, Closings
<1>9. QED
  BY <1>1, <1>3, <1>4, <1>5, <1>6, <1>7, <1>8 DEF IInv

LEMMA CloseKeeps ==
    ASSUME IInv, Close
    PROVE  IInv'
<1>1. /\ UNCHANGED <<announced, queue, connected, loop, current, dispatched, audience>>
      /\ UNCHANGED <<topic, channel, received, unsubscribed, targets, lagged>>
      /\ ~closed /\ closed' = TRUE /\ closing' = "cancelled"
  BY DEF Close
<1>2. RegistryInv' /\ LogsKept /\ TopicsKept /\ StatusesKept
  BY <1>1, BookkeepingKeeps DEF Close, IInv, RegistryInv, RegistryTypeOK
<1>3. HoldsOne' /\ OnItsWay' /\ Served'
  BY <1>1, <1>2, EventsKeep
<1>4. AnnouncedOnce' /\ InOrder' /\ InNotifyOrder'
  BY <1>1, <1>2, OrderKeeps DEF IInv, InNotifyOrder, LogsKept
<1>5. Shutdown'
  BY <1>1, <1>2 DEF IInv, Shutdown, StatusesKept
<1>6. TypeOK'
  BY <1>1, <1>2 DEF IInv, TypeOK, RegistryInv, Closings
<1>7. QED
  BY <1>2, <1>3, <1>4, <1>5, <1>6 DEF IInv

LEMMA CloseSubscribersKeeps ==
    ASSUME IInv, CloseSubscribers
    PROVE  IInv'
<1>1. /\ UNCHANGED <<announced, queue, connected, loop, current, dispatched, audience>>
      /\ UNCHANGED <<closed, topic, unsubscribed, targets, lagged>>
      /\ closing = "listenerClosed" /\ closing' = "closed"
  BY DEF CloseSubscribers
<1>2. /\ RegistryInv' /\ LogsKept /\ TopicsKept
      /\ \A q \in Subs : Status(q)' = IF Status(q) = "open" THEN "ended" ELSE Status(q)
  BY CloseAllEnds DEF CloseSubscribers, IInv, RegistryInv, RegistryTypeOK
<1>3. HoldsOne' /\ OnItsWay' /\ Served'
  BY <1>1, <1>2, EventsKeep
<1>4. AnnouncedOnce' /\ InOrder' /\ InNotifyOrder'
  BY <1>1, <1>2, OrderKeeps DEF IInv, InNotifyOrder, LogsKept
<1>5. Shutdown'
  BY <1>1, <1>2 DEF IInv, Shutdown
<1>6. TypeOK'
  BY <1>1, <1>2 DEF IInv, TypeOK, RegistryInv, Closings
<1>7. QED
  BY <1>2, <1>3, <1>4, <1>5, <1>6 DEF IInv

-----------------------------------------------------------------------------
LEMMA InitHolds == Init => IInv
<1> SUFFICES ASSUME Init PROVE IInv
  OBVIOUS
<1>1. RegistryInv /\ \A s \in Subs : Delivered(s) = <<>> /\ Sent(s) = {} /\ Status(s) = "new"
  BY RegistryInitHolds DEF Init
<1>2. targets[Listener] = {} /\ ~closed
  BY ListenerAssumption DEF Init, RegistryInit
<1> USE DEF Init
<1>3. TypeOK
  <2>1. <<>> \in Seq(Notifications)
    OBVIOUS
  <2>2. QED
    BY <1>1, <2>1 DEF RegistryInv, TypeOK, Loops, Closings
<1>4. AnnouncedOnce /\ InOrder /\ HoldsOne /\ Served
  BY <1>2 DEF AnnouncedOnce, InOrder, HoldsOne, Served
<1>5. OnItsWay
  BY <1>1 DEF OnItsWay
<1>6. InNotifyOrder
  BY <1>1 DEF InNotifyOrder
<1>7. Shutdown
  BY <1>1, <1>2 DEF Shutdown
<1>8. QED
  BY <1>1, <1>3, <1>4, <1>5, <1>6, <1>7 DEF IInv

LEMMA NextKeeps == IInv /\ [Next]_vars => IInv'
<1> SUFFICES ASSUME IInv, [Next]_vars PROVE IInv'
  OBVIOUS
<1>1. ASSUME NEW s \in Subs, Client(s) PROVE IInv'
  BY <1>1, SubscribeKeeps, UnsubscribeKeeps, CancelKeeps DEF Client
<1>2. ASSUME NEW s \in Subs, Cleaner(s) PROVE IInv'
  BY <1>2, UnsubscribeKeeps DEF Cleaner, CleanUp
<1>3. ASSUME NEW s \in Subs, Consumer(s) PROVE IInv'
  BY <1>3, ReceiveKeeps DEF Consumer
<1>4. ASSUME NEW n \in Notifications, PublishCommentAdded(n) PROVE IInv'
  BY <1>4, AnnounceKeeps
<1>5. CASE ConnectionLost
  BY <1>5, LostKeeps
<1>6. CASE Loop
  <2>1. CASE ReceiveNotification
    BY <2>1, NotificationKeeps
  <2>2. CASE Dispatch
    BY <2>2, DispatchKeeps
  <2>3. CASE SendNext
    BY <2>3, SendKeeps DEF SendNext
  <2>4. CASE DispatchReturns
    BY <2>4, ReturnKeeps
  <2>5. CASE DispatchPanics
    BY <2>5, PanicKeeps
  <2>6. CASE Stop
    BY <2>6, StopKeeps
  <2>7. QED
    BY <1>6, <2>1, <2>2, <2>3, <2>4, <2>5, <2>6 DEF Loop
<1>7. CASE Close
  BY <1>7, CloseKeeps
<1>8. CASE Closer
  BY <1>8, StopKeeps, CloseSubscribersKeeps DEF Closer
<1>9. CASE UNCHANGED vars
  BY <1>9, IdleKeeps
<1>10. QED
  BY <1>1, <1>2, <1>3, <1>4, <1>5, <1>6, <1>7, <1>8, <1>9 DEF Next

LEMMA IInvHolds == Spec => []IInv
BY InitHolds, NextKeeps, PTL DEF Spec

-----------------------------------------------------------------------------
\* Every variable always holds what the code's variables can hold.
THEOREM TypeCorrect == Spec => []TypeOK
<1>1. IInv => TypeOK
  BY DEF IInv
<1>2. QED
  BY <1>1, IInvHolds, PTL

\* Whatever is lost with the connection and dropped at full buffers, subscribers
\* get events in the order in which the server committed them.
THEOREM NotifyOrderHolds == Spec => []InNotifyOrder
<1>1. IInv => InNotifyOrder
  BY DEF IInv
<1>2. QED
  BY <1>1, IInvHolds, PTL

\* An event the loop is through with has reached its whole audience, but for
\* those whose buffer it or another one found full.
THEOREM OnlyLaggardsMissHolds == Spec => []OnlyLaggardsMiss
<1>1. IInv => OnlyLaggardsMiss
  BY DEF IInv, Served, OnlyLaggardsMiss
<1>2. QED
  BY <1>1, IInvHolds, PTL

\* Close closes no channel while the loop may still send to it: a send on a
\* closed channel is the work of an unsubscribe.
THEOREM ShutdownHolds == Spec => []ShutdownIsSafe
<1>1. IInv => ShutdownIsSafe
  BY OpenStatus DEF IInv, Shutdown, ShutdownIsSafe
<1>2. QED
  BY <1>1, IInvHolds, PTL

\* The registry is as sound under the listen loop as under the publishers of
\* the memory bus: open channels are the registered ones, consumers get events
\* of their post only and none twice, out of buffers that never overflow.
THEOREM DeliveryHolds ==
    Spec => [](RegisteredIffOpen /\ FaithfulDelivery /\ BuffersBounded)
<1>1. IInv => FaithfulDelivery
  <2> SUFFICES ASSUME IInv, NEW s \in Subs
               PROVE  /\ \A e \in Sent(s) : PostOf[e] = topic[s]
                      /\ \A i, j \in DOMAIN Delivered(s) :
                           Delivered(s)[i] = Delivered(s)[j] => i = j
    BY DEF FaithfulDelivery
  <2>1. Delivered(s) \in Seq(Events) /\ Sent(s) \subseteq Events
    BY LogType DEF IInv, TypeOK
  <2>2. \A e \in Sent(s) : PostOf[e] = topic[s]
    BY <2>1 DEF IInv, OnItsWay
  <2>3. ASSUME NEW i \in DOMAIN Delivered(s), NEW j \in DOMAIN Delivered(s), i < j
        PROVE  Delivered(s)[i] # Delivered(s)[j]
    <3>1. Precedes(announced, Delivered(s)[i], Delivered(s)[j])
      BY <2>3 DEF IInv, InNotifyOrder, Precedes
    <3>2. ~Precedes(announced, Delivered(s)[j], Delivered(s)[j])
      BY NotBeforeItself DEF IInv, TypeOK
    <3>3. QED
      BY <3>1, <3>2
  <2>4. QED
    BY <2>1, <2>2, <2>3
<1>2. IInv => RegisteredIffOpen /\ BuffersBounded
  BY DEF IInv, RegistryInv
<1>3. QED
  BY <1>1, <1>2, IInvHolds, PTL

-----------------------------------------------------------------------------
(* The refinement: each step of the bus is a step of the feed or none.       *)

\* What of the bus the feed can see.
LEMMA Unseen ==
    ASSUME LogsKept, StatusesKept, UNCHANGED <<topic, received, closed>>,
           \A e \in Events : Life(e)' = Life(e)
    PROVE  UNCHANGED Feed!vars
BY DEF Feed!vars, LogsKept, StatusesKept

LEMMA LivesKept ==
    ASSUME UNCHANGED <<announced, dispatched>>
    PROVE  \A e \in Events : Life(e)' = Life(e)
BY DEF Life, Announced

\* Only what was announced is ever through, which tells the lives apart.
LEMMA Lives ==
    /\ dispatched \subseteq Announced => \A e \in Events :
         Life(e) = IF e \notin Announced THEN "unborn"
                   ELSE IF e \in dispatched THEN "over" ELSE "live"
    /\ dispatched' \subseteq Announced' => \A e \in Events :
         Life(e)' = IF e \notin Announced' THEN "unborn"
                    ELSE IF e \in dispatched' THEN "over" ELSE "live"
BY DEF Life

\* A cancelled context, the loop's bookkeeping, a lost connection.
LEMMA InnerStepStutters ==
    ASSUME IInv, UNCHANGED <<channel, received, topic, closed, announced, dispatched>>
    PROVE  UNCHANGED Feed!vars
BY LogsDependOn, LivesKept, Unseen

LEMMA SubscribeBegins ==
    ASSUME NEW s \in Subs, NEW p \in Posts, IInv, Subscribe(s, p), UNCHANGED busVars
    PROVE  Feed!Begin(s, p)
<1>1. /\ LogsKept /\ Status(s) = "new"
      /\ \A q \in Subs : Status(q)' = IF q = s THEN "open" ELSE Status(q)
  BY SubscribeRegisters DEF IInv
<1>2. [q \in Subs |-> Status(q)'] = [[q \in Subs |-> Status(q)] EXCEPT ![s] = "open"]
  BY <1>1
<1>3. [q \in Subs |-> Delivered(q)'] = [q \in Subs |-> Delivered(q)]
  BY <1>1 DEF LogsKept
<1>4. [e \in Events |-> Life(e)'] = [e \in Events |-> Life(e)]
  BY LivesKept DEF busVars
<1>5. QED
  BY <1>1, <1>2, <1>3, <1>4 DEF Subscribe, Feed!Begin

LEMMA UnsubscribeEnds ==
    ASSUME NEW s \in Subs, IInv, Unsubscribe(s), UNCHANGED busVars
    PROVE  Feed!End({s})
<1>1. /\ LogsKept
      /\ \A q \in Subs :
           Status(q)' = IF q = s /\ Status(q) = "open" THEN "ended" ELSE Status(q)
  BY UnsubscribeEndsOne DEF IInv
<1>2. [q \in Subs |-> Status(q)'] =
        [q \in Subs |-> IF q \in {s} /\ Status(q) = "open" THEN "ended" ELSE Status(q)]
  BY <1>1
<1>3. [q \in Subs |-> Delivered(q)'] = [q \in Subs |-> Delivered(q)]
  BY <1>1 DEF LogsKept
<1>4. [e \in Events |-> Life(e)'] = [e \in Events |-> Life(e)]
  BY LivesKept DEF busVars
<1>5. QED
  BY <1>2, <1>3, <1>4 DEF Unsubscribe, Feed!End, Feed!Ended

LEMMA ReceiveTakes ==
    ASSUME NEW s \in Subs, IInv, Receive(s), UNCHANGED busVars
    PROVE  Feed!Take(s)
<1>1. /\ LogsKept /\ StatusesKept
      /\ Len(received[s]) \in Nat /\ Len(received[s]) < Len(Delivered(s))
      /\ \A q \in Subs :
           Len(received'[q]) = IF q = s THEN Len(received[s]) + 1 ELSE Len(received[q])
  BY ReceiveMovesOne DEF IInv
<1>2. [q \in Subs |-> Status(q)'] = [q \in Subs |-> Status(q)]
  BY <1>1 DEF StatusesKept
<1>3. [q \in Subs |-> Delivered(q)'] = [q \in Subs |-> Delivered(q)]
  BY <1>1 DEF LogsKept
<1>4. [q \in Subs |-> Len(received'[q])] =
        [[q \in Subs |-> Len(received[q])] EXCEPT ![s] = Len(received[s]) + 1]
  BY <1>1
<1>5. [e \in Events |-> Life(e)'] = [e \in Events |-> Life(e)]
  BY LivesKept DEF busVars
<1>6. QED
  BY <1>1, <1>2, <1>3, <1>4, <1>5 DEF Receive, Feed!Take

\* A payload that does not decode is no event of the feed.
LEMMA PublishAnnounces ==
    ASSUME NEW n \in Notifications, IInv, PublishCommentAdded(n)
    PROVE  (n \in Events /\ Feed!Announce(n)) \/ UNCHANGED Feed!vars
<1>1. /\ UNCHANGED <<closed, topic, channel, received, dispatched>>
      /\ n \notin Announced /\ announced' = Append(announced, n)
  BY DEF PublishCommentAdded, registryVars
<1>2. /\ Announced' = Announced \cup {n}
      /\ dispatched \subseteq Announced /\ dispatched' \subseteq Announced'
  BY <1>1, AnnouncedGrows DEF IInv, TypeOK, InOrder
<1>3. LogsKept /\ StatusesKept
  BY <1>1, LogsDependOn
<1>4. CASE n \in Events
  <2>1. n \notin dispatched
    BY <1>1 DEF IInv, InOrder
  <2>2. [e \in Events |-> Life(e)'] = [[e \in Events |-> Life(e)] EXCEPT ![n] = "live"]
    BY <1>1, <1>2, <2>1, Lives
  <2>3. /\ [q \in Subs |-> Status(q)'] = [q \in Subs |-> Status(q)]
        /\ [q \in Subs |-> Delivered(q)'] = [q \in Subs |-> Delivered(q)]
    BY <1>3 DEF StatusesKept, LogsKept
  <2>4. Life(n) = "unborn"
    BY <1>1, <1>2, <1>4, Lives
  <2>5. Feed!Announce(n)
    BY <1>1, <1>4, <2>2, <2>3, <2>4 DEF Feed!Announce
  <2>6. QED
    BY <1>4, <2>5
<1>5. CASE n \notin Events
  <2>1. \A e \in Events : Life(e)' = Life(e)
    BY <1>1, <1>2, <1>5, Lives
  <2>2. QED
    BY <1>1, <1>3, <2>1, Unseen
<1>6. QED
  BY <1>4, <1>5

LEMMA SendDelivers ==
    ASSUME NEW s \in Subs, IInv, loop = "sending", Send(Listener, s, current),
           UNCHANGED busVars
    PROVE  (current \in Events /\ Feed!Deliver(s, current)) \/ UNCHANGED Feed!vars
<1>1. /\ current \in Events /\ current \notin dispatched /\ current \in Announced
      /\ Status(s) = "open" /\ topic[s] = PostOf[current] /\ current \notin Sent(s)
      /\ StatusesKept
      /\ UNCHANGED <<closed, topic, received>>
      /\ \/ /\ Delivered(s)' = Append(Delivered(s), current)
            /\ \A q \in Subs \ {s} : Delivered(q)' = Delivered(q) /\ Sent(q)' = Sent(q)
            /\ Len(Delivered(s)) - Len(received[s]) < BufferSize
         \/ channel' = channel
  BY SendSteps
<1>2. \A e \in Events : Life(e)' = Life(e)
  BY LivesKept DEF busVars
<1>3. CASE channel' = channel
  BY <1>1, <1>2, <1>3, LogsDependOn, Unseen
<1>4. CASE /\ Delivered(s)' = Append(Delivered(s), current)
           /\ \A q \in Subs \ {s} : Delivered(q)' = Delivered(q) /\ Sent(q)' = Sent(q)
           /\ Len(Delivered(s)) - Len(received[s]) < BufferSize
  <2>1. [q \in Subs |-> Status(q)'] = [q \in Subs |-> Status(q)]
    BY <1>1 DEF StatusesKept
  <2>2. [q \in Subs |-> Delivered(q)'] =
          [[q \in Subs |-> Delivered(q)] EXCEPT ![s] = Append(Delivered(s), current)]
    BY <1>4
  <2>3. \A i \in DOMAIN Delivered(s) : Delivered(s)[i] # current
    BY <1>1 DEF Sent
  <2>4. Life(current) = "live" /\ [e \in Events |-> Life(e)'] = [e \in Events |-> Life(e)]
    BY <1>1, <1>2 DEF Life
  <2>5. QED
    BY <1>1, <1>4, <2>1, <2>2, <2>3, <2>4 DEF Feed!Deliver
<1>5. QED
  BY <1>1, <1>3, <1>4

LEMMA ReturnSettles ==
    ASSUME IInv, DispatchReturns
    PROVE  current \in Events /\ Feed!Settle(current)
<1>1. /\ UNCHANGED <<closed, topic, channel, received, announced>>
      /\ dispatched' = dispatched \cup {current} /\ loop = "sending"
  BY DEF DispatchReturns, registryVars
<1>2. current \in Events /\ current \notin dispatched /\ current \in Announced
  BY <1>1, CurrentIsNew DEF IInv, HoldsOne
<1>3. LogsKept /\ StatusesKept
  BY <1>1, LogsDependOn
<1>4. /\ [q \in Subs |-> Status(q)'] = [q \in Subs |-> Status(q)]
      /\ [q \in Subs |-> Delivered(q)'] = [q \in Subs |-> Delivered(q)]
  BY <1>3 DEF StatusesKept, LogsKept
<1>5. /\ Life(current) = "live"
      /\ [e \in Events |-> Life(e)'] = [[e \in Events |-> Life(e)] EXCEPT ![current] = "over"]
  <2>1. /\ Announced' = Announced
        /\ dispatched \subseteq Announced /\ dispatched' \subseteq Announced'
    BY <1>1, <1>2 DEF IInv, InOrder, Announced
  <2>2. QED
    BY <1>1, <1>2, <2>1, Lives
<1>6. QED
  BY <1>1, <1>2, <1>4, <1>5 DEF Feed!Settle

\* Close begins the shutdown of the feed without ending a subscription ...
LEMMA CloseShutsDown ==
    ASSUME IInv, Close
    PROVE  Feed!Shutdown({})
<1>1. LogsKept /\ StatusesKept
  BY LogsDependOn DEF Close
<1>2. /\ [q \in Subs |-> Status(q)'] = [q \in Subs |-> Status(q)]
      /\ [q \in Subs |-> Delivered(q)'] = [q \in Subs |-> Delivered(q)]
  BY <1>1 DEF StatusesKept, LogsKept
<1>3. [e \in Events |-> Life(e)'] = [e \in Events |-> Life(e)]
  BY LivesKept DEF Close
<1>4. QED
  BY <1>2, <1>3 DEF Close, Feed!Shutdown, Feed!Ended

\* ... and ends those that are left when the loop has stopped.
LEMMA CloseSubscribersEnds ==
    ASSUME IInv, CloseSubscribers
    PROVE  Feed!End(Subs)
<1>1. /\ LogsKept
      /\ \A q \in Subs : Status(q)' = IF Status(q) = "open" THEN "ended" ELSE Status(q)
  BY CloseAllEnds DEF CloseSubscribers, IInv, RegistryInv, RegistryTypeOK
<1>2. [q \in Subs |-> Delivered(q)'] = [q \in Subs |-> Delivered(q)]
  BY <1>1 DEF LogsKept
<1>3. [e \in Events |-> Life(e)'] = [e \in Events |-> Life(e)]
  BY LivesKept DEF CloseSubscribers
<1>4. QED
  BY <1>1, <1>2, <1>3 DEF CloseSubscribers, Feed!End, Feed!Ended

\* The bus keeps the promise of CommentFeed, whatever is lost on the way to it
\* and in however many steps it is closed.
THEOREM BusIsAFeed == Spec => IsAFeed
<1>1. Init => Feed!Init
  <2> SUFFICES ASSUME Init PROVE Feed!Init
    OBVIOUS
  <2>1. \A s \in Subs : Delivered(s) = <<>> /\ Status(s) = "new" /\ Len(received[s]) = 0
    BY RegistryInitHolds DEF Init, RegistryInit
  <2>2. \A e \in Events : Life(e) = "unborn"
    BY DEF Init, Life, Announced
  <2>3. QED
    BY <2>1, <2>2 DEF Init, RegistryInit, Feed!Init
<1>2. IInv /\ [Next]_vars => [Feed!Next]_(Feed!vars)
  <2> SUFFICES ASSUME IInv, [Next]_vars PROVE [Feed!Next]_(Feed!vars)
    OBVIOUS
  <2>1. ASSUME NEW s \in Subs, Client(s) \/ Cleaner(s) \/ Consumer(s)
        PROVE  [Feed!Next]_(Feed!vars)
    <3>1. UNCHANGED busVars
      BY <2>1 DEF Client, Cleaner, Consumer
    <3>2. CASE \E p \in Posts : Subscribe(s, p)
      BY <3>1, <3>2, SubscribeBegins DEF Feed!Next
    <3>3. CASE Unsubscribe(s)
      <4>1. Feed!End({s}) /\ {s} \in SUBSET Subs
        BY <3>1, <3>3, UnsubscribeEnds
      <4>2. QED
        BY <4>1 DEF Feed!Next
    <3>4. CASE Receive(s)
      BY <3>1, <3>4, ReceiveTakes DEF Feed!Next
    <3>5. CASE Cancel(s)
      BY <3>1, <3>5, InnerStepStutters DEF Cancel, busVars
    <3>6. QED
      BY <2>1, <3>2, <3>3, <3>4, <3>5 DEF Client, Cleaner, CleanUp, Consumer
  <2>2. ASSUME NEW n \in Notifications, PublishCommentAdded(n)
        PROVE  [Feed!Next]_(Feed!vars)
    BY <2>2, PublishAnnounces DEF Feed!Next
  <2>3. CASE ConnectionLost \/ ReceiveNotification \/ Dispatch \/ DispatchPanics
             \/ Stop \/ CloseListener
    <3>1. UNCHANGED <<channel, received, topic, closed, announced, dispatched>>
      BY <2>3 DEF ConnectionLost, ReceiveNotification, Dispatch, TakeTargets,
                  DispatchPanics, SendPanics, Stop, CloseListener, registryVars
    <3>2. QED
      BY <3>1, InnerStepStutters
  <2>4. CASE SendNext
    <3>1. PICK s \in Subs : Send(Listener, s, current)
      BY <2>4 DEF SendNext
    <3>2. (current \in Events /\ Feed!Deliver(s, current)) \/ UNCHANGED Feed!vars
      BY <2>4, <3>1, SendDelivers DEF SendNext
    <3>3. QED
      BY <3>2 DEF Feed!Next
  <2>5. CASE DispatchReturns
    BY <2>5, ReturnSettles DEF Feed!Next
  <2>6. CASE Close
    <3>1. Feed!Shutdown({}) /\ {} \in SUBSET Subs
      BY <2>6, CloseShutsDown
    <3>2. QED
      BY <3>1 DEF Feed!Next
  <2>7. CASE CloseSubscribers
    <3>1. Feed!End(Subs) /\ Subs \in SUBSET Subs
      BY <2>7, CloseSubscribersEnds
    <3>2. QED
      BY <3>1 DEF Feed!Next
  <2>8. CASE UNCHANGED vars
    BY <2>8, InnerStepStutters DEF vars, registryVars, busVars
  <2>9. QED
    BY <2>1, <2>2, <2>3, <2>4, <2>5, <2>6, <2>7, <2>8 DEF Next, Loop, Closer
<1>3. QED
  BY <1>1, <1>2, IInvHolds, PTL DEF Spec, IsAFeed, Feed!Spec
=============================================================================
