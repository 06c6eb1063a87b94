------------------------- MODULE SubscriberRegistry -------------------------
(***************************************************************************)
(* The registry of subscribers that the memory bus and the PostgreSQL bus  *)
(* implement with the same code: subscriptions with a buffered Go channel  *)
(* each, and the fan-out of an event to the subscribers of its post.       *)
(*                                                                         *)
(* Every critical section of Bus.mu is one step.  The fan-out takes its    *)
(* targets in one critical section and sends to them one by one after it   *)
(* has released the lock, so subscriptions come and go between its sends.  *)
(*                                                                         *)
(* A carrier is a goroutine that fans an event out: a publisher of the     *)
(* memory bus, the listen loop of the PostgreSQL bus.                      *)
(***************************************************************************)
EXTENDS Naturals, Sequences, FiniteSets

CONSTANTS
    Subs,       \* the subscriptions, each with a consumer of its own
    Posts,
    Events,     \* the events, one for each comment
    PostOf,     \* the post of each event
    Carriers,   \* the goroutines that fan out
    BufferSize, \* the capacity of a subscription's channel
    Null        \* no channel, no post

ASSUME PostOfAssumption == PostOf \in [Events -> Posts]
ASSUME BufferAssumption == BufferSize \in Nat \ {0}
ASSUME NoChannelAssumption == /\ Null \notin [open: BOOLEAN, buffer: Seq(Events)]
                              /\ Null \notin Posts

VARIABLES
    subscribers, \* Bus.subscribers: the registered subscriptions of each post
    closed,      \* Bus.closed
    topic,       \* the post each subscription is for
    channel,     \* the channel of each subscription
    unsubscribed,\* subscriptions whose sync.Once has run
    cancelled,   \* subscriptions whose context is done
    targets,     \* the subscribers a carrier has still to send to
    received,    \* what each consumer has taken from its channel
    lagged       \* history: subscriptions whose full buffer has dropped an event

registryVars == <<subscribers, closed, topic, channel, unsubscribed, cancelled,
                  targets, received, lagged>>

Channel == [open: BOOLEAN, buffer: Seq(Events)]

\* What the channel of s has been sent, in order.
Delivered(s) == IF channel[s] = Null THEN received[s]
                                     ELSE received[s] \o channel[s].buffer
Sent(s) == {Delivered(s)[i] : i \in DOMAIN Delivered(s)}

IsOpen(s) == channel[s] # Null /\ channel[s].open

\* A subscription as its consumer sees it.
Status(s) == IF channel[s] = Null THEN "new"
             ELSE IF channel[s].open THEN "open" ELSE "ended"

RegistryInit ==
    /\ subscribers = [p \in Posts |-> {}]
    /\ closed = FALSE
    /\ topic = [s \in Subs |-> Null]
    /\ channel = [s \in Subs |-> Null]
    /\ unsubscribed = {}
    /\ cancelled = {}
    /\ targets = [c \in Carriers |-> {}]
    /\ received = [s \in Subs |-> <<>>]
    /\ lagged = {}

-----------------------------------------------------------------------------
\* Mutant of Subscribe: a closed bus accepts subscriptions.
SubscribeAnyTime(s, p) ==
    /\ channel[s] = Null
    /\ channel' = [channel EXCEPT ![s] = [open |-> TRUE, buffer |-> <<>>]]
    /\ topic' = [topic EXCEPT ![s] = p]
    /\ subscribers' = [subscribers EXCEPT ![p] = @ \cup {s}]
    /\ UNCHANGED <<closed, unsubscribed, cancelled, targets, received, lagged>>

\* Subscribe; a closed bus answers ConflictError and changes nothing.
Subscribe(s, p) ==
    /\ channel[s] = Null
    /\ ~closed
    /\ channel' = [channel EXCEPT ![s] = [open |-> TRUE, buffer |-> <<>>]]
    /\ topic' = [topic EXCEPT ![s] = p]
    /\ subscribers' = [subscribers EXCEPT ![p] = @ \cup {s}]
    /\ UNCHANGED <<closed, unsubscribed, cancelled, targets, received, lagged>>

\* Mutants of Unsubscribe: the entry stays in the map; the channel stays open.
UnsubscribeKeepingEntry(s) ==
    /\ channel[s] # Null
    /\ s \notin unsubscribed
    /\ unsubscribed' = unsubscribed \cup {s}
    /\ channel' = [channel EXCEPT ![s].open = FALSE]
    /\ UNCHANGED <<subscribers, closed, topic, cancelled, targets, received, lagged>>

UnsubscribeWithoutClose(s) ==
    /\ channel[s] # Null
    /\ s \notin unsubscribed
    /\ unsubscribed' = unsubscribed \cup {s}
    /\ subscribers' = [subscribers EXCEPT ![topic[s]] = @ \ {s}]
    /\ UNCHANGED <<closed, topic, channel, cancelled, targets, received, lagged>>

\* unsubscribe, by the consumer or by the goroutine that waits for the context:
\* the first of them runs the body of the Once, which looks s up and closes the
\* channel only if s is still registered.
Unsubscribe(s) ==
    /\ channel[s] # Null
    /\ s \notin unsubscribed
    /\ unsubscribed' = unsubscribed \cup {s}
    /\ IF s \in subscribers[topic[s]]
         THEN /\ subscribers' = [subscribers EXCEPT ![topic[s]] = @ \ {s}]
              /\ channel' = [channel EXCEPT ![s].open = FALSE]
         ELSE UNCHANGED <<subscribers, channel>>
    /\ UNCHANGED <<closed, topic, cancelled, targets, received, lagged>>

\* The client's connection or its operation ends: ctx.Done() is closed.
Cancel(s) ==
    /\ s \notin cancelled
    /\ cancelled' = cancelled \cup {s}
    /\ UNCHANGED <<subscribers, closed, topic, channel, unsubscribed, targets,
                   received, lagged>>

\* The goroutine started by Subscribe.
CleanUp(s) ==
    /\ s \in cancelled
    /\ Unsubscribe(s)

\* The loops of Close, under the lock: every registered channel is closed.
CloseAll ==
    /\ channel' = [s \in Subs |->
                     IF channel[s] # Null /\ s \in subscribers[topic[s]]
                       THEN [channel[s] EXCEPT !.open = FALSE] ELSE channel[s]]
    /\ subscribers' = [p \in Posts |-> {}]

\* Mutant of Receive: the second result of the receive is not looked at.
ReceiveIgnoringOk(s) ==
    /\ channel[s] # Null
    /\ channel[s].buffer # <<>> \/ ~channel[s].open
    /\ IF channel[s].buffer # <<>>
         THEN /\ received' = [received EXCEPT ![s] = Append(@, Head(channel[s].buffer))]
              /\ channel' = [channel EXCEPT ![s].buffer = Tail(@)]
         ELSE /\ received' = [received EXCEPT ![s] = Append(@, Null)]
              /\ UNCHANGED channel
    /\ UNCHANGED <<subscribers, closed, topic, unsubscribed, cancelled, targets,
                   lagged>>

\* The consumer takes the next event, also from a channel closed meanwhile.
Receive(s) ==
    /\ channel[s] # Null
    /\ channel[s].buffer # <<>>
    /\ received' = [received EXCEPT ![s] = Append(@, Head(channel[s].buffer))]
    /\ channel' = [channel EXCEPT ![s].buffer = Tail(@)]
    /\ UNCHANGED <<subscribers, closed, topic, unsubscribed, cancelled, targets,
                   lagged>>

-----------------------------------------------------------------------------
\* Mutant of TakeTargets: the subscribers of every post.
TakeAllTargets(c, e) ==
    /\ targets' = [targets EXCEPT ![c] = UNION {subscribers[p] : p \in Posts}]
    /\ UNCHANGED <<subscribers, closed, topic, channel, unsubscribed, cancelled,
                   received, lagged>>

\* The critical section of the fan-out: copy the subscribers of the post.
TakeTargets(c, e) ==
    /\ targets' = [targets EXCEPT ![c] = subscribers[PostOf[e]]]
    /\ UNCHANGED <<subscribers, closed, topic, channel, unsubscribed, cancelled,
                   received, lagged>>

\* Mutants of Send: a target is sent to again; a send waits for room.
SendAgain(c, s, e) ==
    /\ s \in targets[c]
    /\ channel[s].open
    /\ Len(channel[s].buffer) < BufferSize
    /\ channel' = [channel EXCEPT ![s].buffer = Append(@, e)]
    /\ UNCHANGED <<subscribers, closed, topic, unsubscribed, cancelled, targets,
                   received, lagged>>

SendBlocking(c, s, e) ==
    /\ s \in targets[c]
    /\ channel[s].open
    /\ Len(channel[s].buffer) < BufferSize
    /\ targets' = [targets EXCEPT ![c] = @ \ {s}]
    /\ channel' = [channel EXCEPT ![s].buffer = Append(@, e)]
    /\ UNCHANGED <<subscribers, closed, topic, unsubscribed, cancelled, received, lagged>>

\* One turn of the sending loop, in whatever order the map gave the targets:
\* a send that never blocks, and drops the event when the buffer is full.
Send(c, s, e) ==
    /\ s \in targets[c]
    /\ channel[s].open
    /\ targets' = [targets EXCEPT ![c] = @ \ {s}]
    /\ IF Len(channel[s].buffer) < BufferSize
         THEN /\ channel' = [channel EXCEPT ![s].buffer = Append(@, e)]
              /\ UNCHANGED lagged
         ELSE /\ lagged' = lagged \cup {s}
              /\ UNCHANGED channel
    /\ UNCHANGED <<subscribers, closed, topic, unsubscribed, cancelled, received>>

\* A send on a channel closed after the targets were taken panics, whatever the
\* select's default says, and the remaining targets get nothing.
SendPanics(c) ==
    /\ \E s \in targets[c] : ~channel[s].open
    /\ targets' = [targets EXCEPT ![c] = {}]
    /\ UNCHANGED <<subscribers, closed, topic, channel, unsubscribed, cancelled,
                   received, lagged>>

-----------------------------------------------------------------------------
RegistryTypeOK ==
    /\ subscribers \in [Posts -> SUBSET Subs]
    /\ closed \in BOOLEAN
    /\ topic \in [Subs -> Posts \cup {Null}]
    /\ channel \in [Subs -> Channel \cup {Null}]
    /\ unsubscribed \in SUBSET Subs
    /\ cancelled \in SUBSET Subs
    /\ targets \in [Carriers -> SUBSET Subs]
    /\ received \in [Subs -> Seq(Events)]
    /\ lagged \in SUBSET Subs

\* A channel is open exactly while its subscription is registered, under its own
\* post and no other: what Unsubscribe and Close find in the map they can close,
\* so no channel is closed twice (which would panic) and none is forgotten.
RegisteredIffOpen ==
    \A s \in Subs, p \in Posts : s \in subscribers[p] <=> IsOpen(s) /\ topic[s] = p

\* No consumer sees an event of another post, and none sees an event twice.
FaithfulDelivery ==
    \A s \in Subs :
        /\ \A e \in Sent(s) : PostOf[e] = topic[s]
        /\ \A i, j \in DOMAIN Delivered(s) :
             Delivered(s)[i] = Delivered(s)[j] => i = j

\* A slow consumer costs memory for BufferSize events at most.
BuffersBounded ==
    \A s \in Subs : channel[s] # Null => Len(channel[s].buffer) <= BufferSize
=============================================================================
