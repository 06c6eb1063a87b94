--------------------------- MODULE MemoryBusProofs ---------------------------
(***************************************************************************)
(* The safety of MemoryBus, and that it implements CommentFeed, for any    *)
(* subscriptions, posts, events and buffer size.                           *)
(*                                                                         *)
(* The inductive invariant follows an event from its publication to the    *)
(* log of a subscription: the subscribers a publication still has to send  *)
(* to are those it found registered, less those it has been through.  What *)
(* the steps of the registry do is proved in SubscriberRegistryProofs.     *)
(***************************************************************************)
EXTENDS MemoryBus, SubscriberRegistryProofs

\* A publication's targets are the part of its audience it has not sent to, and
\* what is in a log was sent to a member of the audience.
OnItsWay ==
    \A e \in Events :
        /\ publication[e] = "idle" => audience[e] = {}
        /\ publication[e] # "sending" => targets[e] = {}
        /\ targets[e] \subseteq audience[e]
        /\ \A s \in audience[e] : channel[s] # Null /\ topic[s] = PostOf[e]
        /\ \A s \in Subs : e \in Sent(s) => s \in audience[e] /\ s \notin targets[e]

\* Who has been through it got the event or was too slow.
Served ==
    \A e \in Events : publication[e] \in {"sending", "returned"} =>
        \A s \in audience[e] : s \in targets[e] \/ e \in Sent(s) \/ s \in lagged

IInv ==
    /\ TypeOK /\ RegistryInv
    /\ OnItsWay /\ Served /\ NoDuplicates
    /\ ClosedForGood

-----------------------------------------------------------------------------
\* No channel is open when none has the status of an open one.
LEMMA ClosedStatus ==
    /\ ClosedForGood <=> (closed => \A s \in Subs : Status(s) # "open")
    /\ ClosedForGood' <=> (closed' => \A s \in Subs : Status(s)' # "open")
BY DEF ClosedForGood, IsOpen, Status

\* Where the logs stay, the audiences stay, and no subscription loses its topic,
\* what was said of the events stays true.
LEMMA LogsSameKeeps ==
    ASSUME IInv, LogsKept, TopicsKept, UNCHANGED <<publication, audience, targets>>,
           lagged \subseteq lagged'
    PROVE  OnItsWay' /\ Served' /\ NoDuplicates'
<1>1. OnItsWay'
  BY DEF IInv, OnItsWay, TypeOK, LogsKept, TopicsKept
<1>2. Served'
  BY DEF IInv, Served, TypeOK, LogsKept
<1>3. NoDuplicates'
  BY DEF IInv, NoDuplicates, LogsKept
<1>4. QED
  BY <1>1, <1>2, <1>3

\* So a step of the registry alone keeps the invariant if it opens nothing once
\* the bus is closed.
LEMMA RegistryStepKeeps ==
    ASSUME IInv, RegistryInv', LogsKept, TopicsKept,
           UNCHANGED <<publication, audience, targets, lagged>>, ClosedForGood'
    PROVE  IInv'
<1>1. OnItsWay' /\ Served' /\ NoDuplicates'
  BY LogsSameKeeps
<1>2. QED
  BY <1>1 DEF IInv, TypeOK, RegistryInv

LEMMA SubscribeKeeps ==
    ASSUME NEW s \in Subs, NEW p \in Posts, IInv, Subscribe(s, p),
           UNCHANGED <<publication, audience>>
    PROVE  IInv'
<1>1. RegistryInv' /\ LogsKept /\ TopicsKept
  BY SubscribeRegisters DEF IInv
<1>2. ClosedForGood'
  BY DEF Subscribe, ClosedForGood
<1>3. QED
  BY <1>1, <1>2, RegistryStepKeeps DEF Subscribe

LEMMA UnsubscribeKeeps ==
    ASSUME NEW s \in Subs, IInv, Unsubscribe(s), UNCHANGED <<publication, audience>>
    PROVE  IInv'
<1>1. /\ RegistryInv' /\ LogsKept /\ TopicsKept
      /\ \A q \in Subs :
           Status(q)' = IF q = s /\ Status(q) = "open" THEN "ended" ELSE Status(q)
  BY UnsubscribeEndsOne DEF IInv
<1>2. ClosedForGood'
  BY <1>1, ClosedStatus DEF IInv, Unsubscribe
<1>3. QED
  BY <1>1, <1>2, RegistryStepKeeps DEF Unsubscribe

LEMMA ReceiveKeeps ==
    ASSUME NEW s \in Subs, IInv, Receive(s), UNCHANGED <<publication, audience>>
    PROVE  IInv'
<1>1. RegistryInv' /\ LogsKept /\ TopicsKept /\ StatusesKept
  BY ReceiveMovesOne DEF IInv
<1>2. ClosedForGood'
  BY <1>1, ClosedStatus DEF IInv, Receive, StatusesKept
<1>3. QED
  BY <1>1, <1>2, RegistryStepKeeps DEF Receive

LEMMA CancelKeeps ==
    ASSUME NEW s \in Subs, IInv, Cancel(s), UNCHANGED <<publication, audience>>
    PROVE  IInv'
<1>1. RegistryInv' /\ LogsKept /\ TopicsKept /\ StatusesKept
  BY CancelKeepsRegistry DEF IInv
<1>2. ClosedForGood'
  BY <1>1, ClosedStatus DEF IInv, Cancel, StatusesKept
<1>3. QED
  BY <1>1, <1>2, RegistryStepKeeps DEF Cancel

LEMMA CloseKeeps ==
    ASSUME IInv, Close, UNCHANGED <<publication, audience>>
    PROVE  IInv'
<1>1. /\ RegistryInv' /\ LogsKept /\ TopicsKept
      /\ \A q \in Subs : Status(q)' = IF Status(q) = "open" THEN "ended" ELSE Status(q)
  BY CloseAllEnds DEF IInv, Close
<1>2. ClosedForGood'
  BY <1>1, ClosedStatus
<1>3. QED
  BY <1>1, <1>2, RegistryStepKeeps DEF Close

\* Taking the targets: the registered subscribers become audience and targets.
LEMMA PublishKeeps ==
    ASSUME NEW e \in Events, IInv, PublishCommentAdded(e)
    PROVE  IInv'
<1> DEFINE listeners == {s \in Subs : IsOpen(s) /\ topic[s] = PostOf[e]}
<1>1. /\ RegistryInv' /\ LogsKept /\ TopicsKept /\ StatusesKept
      /\ targets' = [targets EXCEPT ![e] = listeners]
  BY TargetsAreOpen, CarriersAssumption DEF IInv, PublishCommentAdded
<1>2. /\ audience' = [audience EXCEPT ![e] = listeners]
      /\ publication' = [publication EXCEPT ![e] = "sending"]
      /\ UNCHANGED <<closed, topic, channel, lagged>>
      /\ publication[e] = "idle"
  BY DEF PublishCommentAdded, TakeTargets, Goto
<1>3. /\ targets'[e] = audience'[e]
      /\ \A f \in Events \ {e} : /\ targets'[f] = targets[f]
                                 /\ audience'[f] = audience[f]
                                 /\ publication'[f] = publication[f]
      /\ publication'[e] = "sending"
      /\ \A s \in audience'[e] : channel[s] # Null /\ topic[s] = PostOf[e]
  BY <1>1, <1>2, CarriersAssumption DEF IInv, TypeOK, RegistryTypeOK, IsOpen
<1>4. TypeOK'
  BY <1>1, <1>2 DEF IInv, TypeOK, RegistryInv, Phases
<1>5. \A q \in Subs : e \notin Sent(q)
  BY <1>2 DEF IInv, OnItsWay
<1>6. OnItsWay'
  <2> SUFFICES ASSUME NEW f \in Events PROVE OnItsWay!(f)'
    BY DEF OnItsWay
  <2>1. CASE f = e
    BY <1>1, <1>2, <1>3, <1>5, <2>1 DEF LogsKept
  <2>2. CASE f # e
    BY <1>1, <1>2, <1>3, <2>2 DEF IInv, OnItsWay, LogsKept
  <2>3. QED
    BY <2>1, <2>2
<1>7. Served'
  <2> SUFFICES ASSUME NEW f \in Events PROVE Served!(f)'
    BY DEF Served
  <2>1. CASE f = e
    BY <1>3, <2>1
  <2>2. CASE f # e
    <3>1. audience[f] \subseteq Subs
      BY DEF IInv, TypeOK
    <3>2. QED
      BY <1>1, <1>2, <1>3, <2>2, <3>1 DEF IInv, Served, LogsKept
  <2>3. QED
    BY <2>1, <2>2
<1>8. NoDuplicates'
  BY <1>1 DEF IInv, NoDuplicates, LogsKept
<1>9. ClosedForGood'
  BY <1>1, <1>2, ClosedStatus DEF IInv, StatusesKept
<1>10. QED
  BY <1>1, <1>4, <1>6, <1>7, <1>8, <1>9 DEF IInv

\* What a turn of the sending loop meets and does.
LEMMA SendSteps ==
    ASSUME NEW e \in Events, NEW s \in Subs, IInv, publication[e] = "sending",
           Send(e, s, e)
    PROVE  /\ RegistryInv' /\ TopicsKept /\ StatusesKept
           /\ Status(s) = "open" /\ topic[s] = PostOf[e]
           /\ s \in audience[e] /\ e \notin Sent(s)
           /\ targets'[e] = targets[e] \ {s}
           /\ \A f \in Events \ {e} : targets'[f] = targets[f]
           /\ UNCHANGED <<closed, topic, received>>
           /\ \/ /\ Delivered(s)' = Append(Delivered(s), e)
                 /\ Sent(s)' = Sent(s) \cup {e}
                 /\ \A q \in Subs \ {s} : Delivered(q)' = Delivered(q) /\ Sent(q)' = Sent(q)
                 /\ lagged' = lagged
                 /\ Len(Delivered(s)) - Len(received[s]) < BufferSize
              \/ LogsKept /\ lagged' = lagged \cup {s} /\ channel' = channel
<1>1. /\ channel[s] # Null /\ topic[s] = PostOf[e] /\ e \notin Sent(s)
      /\ s \in audience[e]
  BY DEF IInv, OnItsWay, Send
<1>2. /\ RegistryInv' /\ TopicsKept /\ StatusesKept
      /\ Status(s) = "open"
      /\ targets' = [targets EXCEPT ![e] = @ \ {s}]
      /\ \/ /\ Delivered(s)' = Append(Delivered(s), e)
            /\ Sent(s)' = Sent(s) \cup {e}
            /\ \A q \in Subs \ {s} : Delivered(q)' = Delivered(q) /\ Sent(q)' = Sent(q)
            /\ lagged' = lagged
            /\ Len(Delivered(s)) - Len(received[s]) < BufferSize
         \/ LogsKept /\ lagged' = lagged \cup {s} /\ channel' = channel
  BY <1>1, CarriersAssumption, SendDeliversOrDrops DEF IInv
<1>3. /\ targets'[e] = targets[e] \ {s}
      /\ \A f \in Events \ {e} : targets'[f] = targets[f]
  BY <1>2, CarriersAssumption DEF IInv, TypeOK, RegistryTypeOK
<1>4. UNCHANGED <<closed, topic, received>>
  BY DEF Send
<1>5. QED
  BY <1>1, <1>2, <1>3, <1>4

LEMMA SendKeeps ==
    ASSUME NEW e \in Events, NEW s \in Subs, IInv, publication[e] = "sending",
           Send(e, s, e), UNCHANGED <<publication, audience>>
    PROVE  IInv'
<1>1. /\ RegistryInv' /\ TopicsKept /\ StatusesKept
      /\ s \in audience[e] /\ e \notin Sent(s)
      /\ targets'[e] = targets[e] \ {s}
      /\ \A f \in Events \ {e} : targets'[f] = targets[f]
      /\ UNCHANGED <<closed, topic, received>>
      /\ \/ /\ Delivered(s)' = Append(Delivered(s), e)
            /\ Sent(s)' = Sent(s) \cup {e}
            /\ \A q \in Subs \ {s} : Delivered(q)' = Delivered(q) /\ Sent(q)' = Sent(q)
            /\ lagged' = lagged
         \/ LogsKept /\ lagged' = lagged \cup {s}
  BY SendSteps
<1>2. /\ \A q \in Subs : Sent(q)' = Sent(q) \/ (q = s /\ Sent(q)' = Sent(q) \cup {e})
      /\ \A q \in Subs : Sent(q) \subseteq Sent(q)'
      /\ lagged \subseteq lagged'
      /\ e \in Sent(s)' \/ s \in lagged'
  BY <1>1 DEF LogsKept
<1>3. TypeOK'
  BY <1>1 DEF IInv, TypeOK, RegistryInv
<1>4. OnItsWay'
  <2> SUFFICES ASSUME NEW f \in Events PROVE OnItsWay!(f)'
    BY DEF OnItsWay
  <2>1. OnItsWay!(f) /\ audience[f] \subseteq Subs
    BY DEF IInv, OnItsWay, TypeOK
  <2>2. CASE f = e
    BY <1>1, <1>2, <2>1, <2>2 DEF TopicsKept
  <2>3. CASE f # e
    BY <1>1, <1>2, <2>1, <2>3 DEF TopicsKept
  <2>4. QED
    BY <2>2, <2>3
<1>5. Served'
  <2> SUFFICES ASSUME NEW f \in Events, publication[f] \in {"sending", "returned"},
                      NEW q \in audience[f]
               PROVE  q \in targets'[f] \/ f \in Sent(q)' \/ q \in lagged'
    BY DEF Served
  <2>1. q \in targets[f] \/ f \in Sent(q) \/ q \in lagged
    BY DEF IInv, Served
  <2>2. q \in Subs
    BY DEF IInv, TypeOK
  <2>3. QED
    BY <1>1, <1>2, <2>1, <2>2
<1>6. NoDuplicates'
  <2>1. Delivered(s) \in Seq(Events)
    BY LogType DEF IInv, TypeOK
  <2>2. \A i \in DOMAIN Delivered(s) : Delivered(s)[i] # e
    BY <1>1 DEF Sent
  <2>3. \A i, j \in DOMAIN Append(Delivered(s), e) :
          Append(Delivered(s), e)[i] = Append(Delivered(s), e)[j] => i = j
    BY <2>1, <2>2, NewEventIsNoDuplicate DEF IInv, NoDuplicates
  <2>4. QED
    BY <1>1, <2>3 DEF IInv, NoDuplicates, LogsKept
<1>7. ClosedForGood'
  BY <1>1, ClosedStatus DEF IInv, StatusesKept
<1>8. QED
  BY <1>1, <1>3, <1>4, <1>5, <1>6, <1>7 DEF IInv

\* The end of a publication, by return or by panic.
LEMMA EndKeeps ==
    ASSUME NEW e \in Events, IInv, PublishReturns(e) \/ PublishPanics(e)
    PROVE  IInv'
<1>1. /\ publication'[e] \in {"returned", "panicked"} /\ targets'[e] = {}
      /\ publication'[e] = "returned" => targets[e] = {}
      /\ publication[e] = "sending"
      /\ \A f \in Events \ {e} : publication'[f] = publication[f] /\ targets'[f] = targets[f]
      /\ publication' \in [Events -> Phases] /\ targets' \in [Carriers -> SUBSET Subs]
      /\ UNCHANGED <<subscribers, closed, topic, channel, unsubscribed, cancelled,
                     received, lagged, audience>>
  BY CarriersAssumption
     DEF PublishReturns, PublishPanics, SendPanics, Goto, registryVars, IInv, TypeOK,
         RegistryTypeOK, Phases
<1>2. RegistryInv' /\ LogsKept /\ TopicsKept /\ StatusesKept
  BY <1>1, BookkeepingKeeps DEF IInv, RegistryInv, RegistryTypeOK
<1>3. TypeOK'
  BY <1>1, <1>2 DEF IInv, TypeOK, RegistryInv
<1>4. OnItsWay'
  <2> SUFFICES ASSUME NEW f \in Events PROVE OnItsWay!(f)'
    BY DEF OnItsWay
  <2>1. OnItsWay!(f)
    BY DEF IInv, OnItsWay
  <2>2. CASE f = e
    BY <1>1, <1>2, <2>1, <2>2 DEF LogsKept
  <2>3. CASE f # e
    BY <1>1, <1>2, <2>1, <2>3 DEF LogsKept
  <2>4. QED
    BY <2>2, <2>3
<1>5. Served'
  BY <1>1, <1>2 DEF IInv, Served, TypeOK, LogsKept
<1>6. NoDuplicates' /\ ClosedForGood'
  BY <1>1, <1>2, ClosedStatus DEF IInv, NoDuplicates, LogsKept, StatusesKept
<1>7. QED
  BY <1>2, <1>3, <1>4, <1>5, <1>6 DEF IInv

LEMMA IdleKeeps == ASSUME IInv, UNCHANGED vars PROVE IInv'
<1>1. RegistryInv' /\ LogsKept /\ TopicsKept /\ StatusesKept
  BY BookkeepingKeeps DEF vars, registryVars, IInv, RegistryInv, RegistryTypeOK
<1>2. ClosedForGood'
  BY <1>1, ClosedStatus DEF IInv, StatusesKept, vars, registryVars
<1>3. QED
  BY <1>1, <1>2, RegistryStepKeeps DEF vars, registryVars

-----------------------------------------------------------------------------
LEMMA InitHolds == Init => IInv
<1> SUFFICES ASSUME Init PROVE IInv
  OBVIOUS
<1>1. RegistryInv /\ \A s \in Subs : Delivered(s) = <<>> /\ Sent(s) = {} /\ Status(s) = "new"
  BY RegistryInitHolds DEF Init
<1> USE DEF Init, RegistryInit
<1>2. TypeOK
  BY <1>1 DEF RegistryInv, TypeOK, Phases
<1>3. Served /\ ClosedForGood
  BY DEF Served, ClosedForGood
<1>4. OnItsWay
  BY <1>1, CarriersAssumption DEF OnItsWay
<1>5. NoDuplicates
  BY <1>1 DEF NoDuplicates
<1>6. QED
  BY <1>1, <1>2, <1>3, <1>4, <1>5 DEF IInv

LEMMA NextKeeps == IInv /\ [Next]_vars => IInv'
<1> SUFFICES ASSUME IInv, [Next]_vars PROVE IInv'
  OBVIOUS
<1>1. ASSUME NEW s \in Subs, Client(s) PROVE IInv'
  BY <1>1, SubscribeKeeps, UnsubscribeKeeps, CancelKeeps DEF Client
<1>2. ASSUME NEW s \in Subs, Cleaner(s) PROVE IInv'
  BY <1>2, UnsubscribeKeeps DEF Cleaner, CleanUp
<1>3. ASSUME NEW s \in Subs, Consumer(s) PROVE IInv'
  BY <1>3, ReceiveKeeps DEF Consumer
<1>4. ASSUME NEW e \in Events, PublishCommentAdded(e) PROVE IInv'
  BY <1>4, PublishKeeps
<1>5. ASSUME NEW e \in Events, SendNext(e) PROVE IInv'
  BY <1>5, SendKeeps DEF SendNext
<1>6. ASSUME NEW e \in Events, PublishReturns(e) \/ PublishPanics(e) PROVE IInv'
  BY <1>6, EndKeeps
<1>7. CASE Close /\ UNCHANGED <<publication, audience>>
  BY <1>7, CloseKeeps
<1>8. CASE UNCHANGED vars
  BY <1>8, IdleKeeps
<1>9. QED
  BY <1>1, <1>2, <1>3, <1>4, <1>5, <1>6, <1>7, <1>8 DEF Next, Sender

LEMMA IInvHolds == Spec => []IInv
BY InitHolds, NextKeeps, PTL DEF Spec

-----------------------------------------------------------------------------
\* Every variable always holds what the code's variables can hold.
THEOREM TypeCorrect == Spec => []TypeOK
<1>1. IInv => TypeOK
  BY DEF IInv
<1>2. QED
  BY <1>1, IInvHolds, PTL

\* Channels are open exactly while they are registered, and none after Close:
\* neither unsubscribe nor Close ever closes a channel twice or forgets one.
THEOREM RegistryHolds == Spec => []RegistryIsSound
<1>1. IInv => RegistryIsSound
  BY DEF IInv, RegistryInv, RegistryIsSound
<1>2. QED
  BY <1>1, IInvHolds, PTL

\* A consumer only gets events of its post, published while it was subscribed,
\* and none of them twice, out of a buffer that never overflows.
THEOREM DeliveryHolds == Spec => [](FaithfulDelivery /\ NothingUnannounced /\ BuffersBounded)
<1>1. IInv => FaithfulDelivery
  <2> SUFFICES ASSUME IInv, NEW s \in Subs
               PROVE  /\ \A e \in Sent(s) : PostOf[e] = topic[s]
                      /\ \A i, j \in DOMAIN Delivered(s) :
                           Delivered(s)[i] = Delivered(s)[j] => i = j
    BY DEF FaithfulDelivery
  <2>1. Sent(s) \subseteq Events
    BY LogType DEF IInv, TypeOK
  <2>2. QED
    BY <2>1 DEF IInv, OnItsWay, NoDuplicates
<1>2. IInv => NothingUnannounced
  <2> SUFFICES ASSUME IInv, NEW s \in Subs, NEW e \in Sent(s)
               PROVE  s \in audience[e] /\ publication[e] # "idle"
    BY DEF NothingUnannounced
  <2>1. e \in Events
    BY LogType DEF IInv, TypeOK
  <2>2. QED
    BY <2>1 DEF IInv, OnItsWay
<1>3. IInv => BuffersBounded
  BY DEF IInv, RegistryInv
<1>4. QED
  BY <1>1, <1>2, <1>3, IInvHolds, PTL

\* A publication that returned has reached its whole audience, but for those
\* whose buffer it or another one found full.
THEOREM OnlyLaggardsMissHolds == Spec => []OnlyLaggardsMiss
<1>1. IInv => OnlyLaggardsMiss
  BY DEF IInv, Served, OnItsWay, OnlyLaggardsMiss
<1>2. QED
  BY <1>1, IInvHolds, PTL

-----------------------------------------------------------------------------
(* The refinement: each step of the bus is a step of the feed or none.       *)

LEMMA SubscribeBegins ==
    ASSUME NEW s \in Subs, NEW p \in Posts, IInv, Subscribe(s, p),
           UNCHANGED <<publication, audience>>
    PROVE  Feed!Begin(s, p)
<1>1. /\ LogsKept /\ Status(s) = "new"
      /\ \A q \in Subs : Status(q)' = IF q = s THEN "open" ELSE Status(q)
  BY SubscribeRegisters DEF IInv
<1>2. [q \in Subs |-> Status(q)'] = [[q \in Subs |-> Status(q)] EXCEPT ![s] = "open"]
  BY <1>1
<1>3. [q \in Subs |-> Delivered(q)'] = [q \in Subs |-> Delivered(q)]
  BY <1>1 DEF LogsKept
<1>4. QED
  BY <1>1, <1>2, <1>3 DEF Subscribe, Feed!Begin, Life

LEMMA UnsubscribeEnds ==
    ASSUME NEW s \in Subs, IInv, Unsubscribe(s), UNCHANGED <<publication, audience>>
    PROVE  Feed!End({s})
<1>1. /\ LogsKept
      /\ \A q \in Subs :
           Status(q)' = IF q = s /\ Status(q) = "open" THEN "ended" ELSE Status(q)
  BY UnsubscribeEndsOne DEF IInv
<1>2. [q \in Subs |-> Status(q)'] =
        [q \in Subs |-> IF q \in {s} /\ Status(q) = "open" THEN "ended" ELSE Status(q)]
  BY <1>1
<1>3. [q \in Subs |-> Delivered(q)'] = [q \in Subs |-> Delivered(q)]
  BY <1>1 DEF LogsKept
<1>4. QED
  BY <1>2, <1>3 DEF Unsubscribe, Feed!End, Feed!Ended, Life

LEMMA ReceiveTakes ==
    ASSUME NEW s \in Subs, IInv, Receive(s), UNCHANGED <<publication, audience>>
    PROVE  Feed!Take(s)
<1>1. /\ LogsKept /\ StatusesKept
      /\ Len(received[s]) \in Nat /\ Len(received[s]) < Len(Delivered(s))
      /\ \A q \in Subs :
           Len(received'[q]) = IF q = s THEN Len(received[s]) + 1 ELSE Len(received[q])
  BY ReceiveMovesOne DEF IInv
<1>2. [q \in Subs |-> Status(q)'] = [q \in Subs |-> Status(q)]
  BY <1>1 DEF StatusesKept
<1>3. [q \in Subs |-> Delivered(q)'] = [q \in Subs |-> Delivered(q)]
  BY <1>1 DEF LogsKept
<1>4. [q \in Subs |-> Len(received'[q])] =
        [[q \in Subs |-> Len(received[q])] EXCEPT ![s] = Len(received[s]) + 1]
  BY <1>1
<1>5. QED
  BY <1>1, <1>2, <1>3, <1>4 DEF Receive, Feed!Take, Life

LEMMA PublishAnnounces ==
    ASSUME NEW e \in Events, IInv, PublishCommentAdded(e)
    PROVE  Feed!Announce(e)
<1>1. /\ UNCHANGED <<closed, topic, channel, received>>
      /\ publication \in [Events -> Phases] /\ publication[e] = "idle"
      /\ publication' = [publication EXCEPT ![e] = "sending"]
  BY DEF PublishCommentAdded, TakeTargets, Goto, IInv, TypeOK
<1>2. [f \in Events |-> Life(f)'] = [[f \in Events |-> Life(f)] EXCEPT ![e] = "live"]
  BY <1>1 DEF Life
<1>3. QED
  BY <1>1, <1>2 DEF Feed!Announce, Life, Status, Delivered

LEMMA IdleStutters ==
    ASSUME UNCHANGED <<channel, topic, received, closed, publication>>
    PROVE  UNCHANGED Feed!vars
BY DEF Feed!vars, Status, Life, Delivered

LEMMA SendDelivers ==
    ASSUME NEW e \in Events, NEW s \in Subs, IInv, publication[e] = "sending",
           Send(e, s, e), UNCHANGED <<publication, audience>>
    PROVE  Feed!Deliver(s, e) \/ UNCHANGED Feed!vars
<1>1. /\ Status(s) = "open" /\ topic[s] = PostOf[e] /\ e \notin Sent(s)
      /\ StatusesKept
      /\ UNCHANGED <<closed, topic, received>>
      /\ \/ /\ Delivered(s)' = Append(Delivered(s), e)
            /\ \A q \in Subs \ {s} : Delivered(q)' = Delivered(q) /\ Sent(q)' = Sent(q)
            /\ Len(Delivered(s)) - Len(received[s]) < BufferSize
         \/ channel' = channel
  BY SendSteps
<1>2. CASE channel' = channel
  BY <1>1, <1>2, IdleStutters
<1>3. CASE /\ Delivered(s)' = Append(Delivered(s), e)
           /\ \A q \in Subs \ {s} : Delivered(q)' = Delivered(q) /\ Sent(q)' = Sent(q)
           /\ Len(Delivered(s)) - Len(received[s]) < BufferSize
  <2>1. [q \in Subs |-> Status(q)'] = [q \in Subs |-> Status(q)]
    BY <1>1 DEF StatusesKept
  <2>2. [q \in Subs |-> Delivered(q)'] =
          [[q \in Subs |-> Delivered(q)] EXCEPT ![s] = Append(Delivered(s), e)]
    BY <1>3
  <2>3. \A i \in DOMAIN Delivered(s) : Delivered(s)[i] # e
    BY <1>1 DEF Sent
  <2>4. Life(e) = "live" /\ [f \in Events |-> Life(f)'] = [f \in Events |-> Life(f)]
    BY DEF Life
  <2>5. QED
    BY <1>1, <1>3, <2>1, <2>2, <2>3, <2>4 DEF Feed!Deliver
<1>4. QED
  BY <1>1, <1>2, <1>3

LEMMA EndSettles ==
    ASSUME NEW e \in Events, IInv, PublishReturns(e) \/ PublishPanics(e)
    PROVE  Feed!Settle(e)
<1>1. /\ UNCHANGED <<closed, topic, channel, received>>
      /\ publication \in [Events -> Phases] /\ publication[e] = "sending"
      /\ \E end \in {"returned", "panicked"} :
           publication' = [publication EXCEPT ![e] = end]
  BY DEF PublishReturns, PublishPanics, SendPanics, Goto, registryVars, IInv, TypeOK
<1>2. [f \in Events |-> Life(f)'] = [[f \in Events |-> Life(f)] EXCEPT ![e] = "over"]
  BY <1>1 DEF Life
<1>3. QED
  BY <1>1, <1>2 DEF Feed!Settle, Life, Status, Delivered

LEMMA CloseShutsDown ==
    ASSUME IInv, Close, UNCHANGED <<publication, audience>>
    PROVE  Feed!Shutdown(Subs)
<1>1. /\ LogsKept
      /\ \A q \in Subs : Status(q)' = IF Status(q) = "open" THEN "ended" ELSE Status(q)
  BY CloseAllEnds DEF IInv, Close
<1>2. [q \in Subs |-> Delivered(q)'] = [q \in Subs |-> Delivered(q)]
  BY <1>1 DEF LogsKept
<1>3. QED
  BY <1>1, <1>2 DEF Close, Feed!Shutdown, Feed!Ended, Life

\* The bus keeps the promise of CommentFeed.
THEOREM BusIsAFeed == Spec => IsAFeed
<1>1. Init => Feed!Init
  BY DEF Init, RegistryInit, Feed!Init, Status, Life, Delivered
<1>2. IInv /\ [Next]_vars => [Feed!Next]_(Feed!vars)
  <2> SUFFICES ASSUME IInv, [Next]_vars PROVE [Feed!Next]_(Feed!vars)
    OBVIOUS
  <2>1. ASSUME NEW s \in Subs, Client(s) \/ Cleaner(s) \/ Consumer(s)
        PROVE  [Feed!Next]_(Feed!vars)
    <3> USE DEF Client, Cleaner, Consumer, CleanUp
    <3>1. CASE \E p \in Posts : Subscribe(s, p)
      BY <2>1, <3>1, SubscribeBegins DEF Feed!Next, Subscribe, Unsubscribe, Receive, Cancel
    <3>2. CASE Unsubscribe(s)
      <4>1. UNCHANGED <<publication, audience>>
        BY <2>1
      <4>2. Feed!End({s}) /\ {s} \in SUBSET Subs
        BY <3>2, <4>1, UnsubscribeEnds
      <4>3. QED
        BY <4>2 DEF Feed!Next
    <3>3. CASE Receive(s)
      BY <2>1, <3>3, ReceiveTakes DEF Feed!Next
    <3>4. CASE Cancel(s)
      BY <2>1, <3>4, IdleStutters DEF Cancel
    <3>5. QED
      BY <2>1, <3>1, <3>2, <3>3, <3>4
  <2>2. ASSUME NEW e \in Events, PublishCommentAdded(e)
        PROVE  [Feed!Next]_(Feed!vars)
    BY <2>2, PublishAnnounces DEF Feed!Next
  <2>3. ASSUME NEW e \in Events, SendNext(e)
        PROVE  [Feed!Next]_(Feed!vars)
    BY <2>3, SendDelivers DEF Feed!Next, SendNext
  <2>4. ASSUME NEW e \in Events, PublishReturns(e) \/ PublishPanics(e)
        PROVE  [Feed!Next]_(Feed!vars)
    BY <2>4, EndSettles DEF Feed!Next
  <2>5. CASE Close /\ UNCHANGED <<publication, audience>>
    <3>1. Feed!Shutdown(Subs) /\ Subs \in SUBSET Subs
      BY <2>5, CloseShutsDown
    <3>2. QED
      BY <3>1 DEF Feed!Next
  <2>6. CASE UNCHANGED vars
    BY <2>6, IdleStutters DEF vars, registryVars
  <2>7. QED
    BY <2>1, <2>2, <2>3, <2>4, <2>5, <2>6 DEF Next, Sender
<1>3. QED
  BY <1>1, <1>2, IInvHolds, PTL DEF Spec, IsAFeed, Feed!Spec
=============================================================================
