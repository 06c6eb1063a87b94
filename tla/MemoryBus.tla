----------------------------- MODULE MemoryBus -----------------------------
(***************************************************************************)
(* The event bus of the memory backend.  Each publication is a call of     *)
(* PublishCommentAdded by the goroutine of a createComment mutation; many  *)
(* run at once, among subscriptions that begin, are cancelled, are consumed*)
(* fast or slowly, and a Close at shutdown.                                *)
(***************************************************************************)
EXTENDS SubscriberRegistry

\* Each event is published by a goroutine of its own.
ASSUME CarriersAssumption == Carriers = Events

VARIABLES
    publication, \* where each PublishCommentAdded stands
    audience     \* history: the subscribers registered when it took its targets

vars == <<registryVars, publication, audience>>

Phases == {"idle", "sending", "returned", "panicked"}

Init ==
    /\ RegistryInit
    /\ publication = [e \in Events |-> "idle"]
    /\ audience = [e \in Events |-> {}]

Goto(e, phase) == publication' = [publication EXCEPT ![e] = phase]

\* PublishCommentAdded, up to RUnlock.
PublishCommentAdded(e) ==
    /\ publication[e] = "idle"
    /\ TakeTargets(e, e)
    /\ audience' = [audience EXCEPT ![e] = {s \in Subs : IsOpen(s) /\ topic[s] = PostOf[e]}]
    /\ Goto(e, "sending")

SendNext(e) ==
    /\ publication[e] = "sending"
    /\ \E s \in Subs : Send(e, s, e)
    /\ UNCHANGED <<publication, audience>>

\* Mutant of PublishReturns: the loop is left before its last turn.
PublishReturnsEarly(e) ==
    /\ publication[e] = "sending"
    /\ Goto(e, "returned")
    /\ targets' = [targets EXCEPT ![e] = {}]
    /\ UNCHANGED <<subscribers, closed, topic, channel, unsubscribed, cancelled,
                   received, lagged, audience>>

PublishReturns(e) ==
    /\ publication[e] = "sending"
    /\ targets[e] = {}
    /\ Goto(e, "returned")
    /\ UNCHANGED <<registryVars, audience>>

\* The panic unwinds the mutation; the GraphQL server recovers from it.
PublishPanics(e) ==
    /\ publication[e] = "sending"
    /\ SendPanics(e)
    /\ Goto(e, "panicked")
    /\ UNCHANGED audience

\* Close: one critical section; a second call returns at once.
Close ==
    /\ ~closed
    /\ closed' = TRUE
    /\ CloseAll
    /\ UNCHANGED <<topic, unsubscribed, cancelled, targets, received, lagged>>

Client(s) ==
    /\ \/ \E p \in Posts : Subscribe(s, p)
       \/ Unsubscribe(s)
       \/ Cancel(s)
    /\ UNCHANGED <<publication, audience>>

Cleaner(s) == CleanUp(s) /\ UNCHANGED <<publication, audience>>
Consumer(s) == Receive(s) /\ UNCHANGED <<publication, audience>>
Sender(e) == SendNext(e) \/ PublishReturns(e) \/ PublishPanics(e)

Next ==
    \/ \E s \in Subs : Client(s) \/ Cleaner(s) \/ Consumer(s)
    \/ \E e \in Events : PublishCommentAdded(e) \/ Sender(e)
    \/ Close /\ UNCHANGED <<publication, audience>>

Spec == Init /\ [][Next]_vars

\* Goroutines that can run are run; clients and consumers owe nothing.
FairSpec ==
    /\ Spec
    /\ \A e \in Events : WF_vars(Sender(e))
    /\ \A s \in Subs : WF_vars(Cleaner(s))

-----------------------------------------------------------------------------
\* The variables hold what the code's variables can hold.
TypeOK ==
    /\ RegistryTypeOK
    /\ publication \in [Events -> Phases]
    /\ audience \in [Events -> SUBSET Subs]

\* A publication that returned reached every subscription that was registered
\* when it took its targets, except those whose buffer was full at some time:
\* the only loss the non-blocking send allows.
OnlyLaggardsMiss ==
    \A e \in Events : publication[e] = "returned" =>
        \A s \in audience[e] : e \in Sent(s) \/ s \in lagged

\* Nobody is sent an event that was published before the subscription began or
\* that the bus has not been given.
NothingUnannounced ==
    \A s \in Subs : \A e \in Sent(s) : s \in audience[e] /\ publication[e] # "idle"

ClosedForGood == closed => \A s \in Subs : ~IsOpen(s)

\* Channels are open exactly while they are registered, so that none is closed
\* twice or forgotten; once Close has returned no channel is open, and none is
\* ever opened again.
RegistryIsSound == RegisteredIffOpen /\ ClosedForGood

\* Slow or absent consumers never hold up a publisher, hence no mutation.
PublishersFinish ==
    \A e \in Events : publication[e] = "sending" ~> publication[e] # "sending"

\* When its context is done, a subscription is removed and its channel closed,
\* so that the consumer's loop ends.
CancelledAreClosed ==
    \A s \in Subs : s \in cancelled /\ IsOpen(s) ~> ~IsOpen(s)

\* PublishCommentAdded has no error to return: it drops what it cannot send.
PublisherNeverPanics == \A e \in Events : publication[e] # "panicked"

-----------------------------------------------------------------------------
\* The bus read as a CommentFeed: its channels as subscriptions, what it sent
\* them as their logs, its publications as the lives of the events.
Life(e) == CASE publication[e] = "idle" -> "unborn"
             [] publication[e] = "sending" -> "live"
             [] OTHER -> "over"

Feed == INSTANCE CommentFeed WITH
    Capacity <- BufferSize,
    status <- [s \in Subs |-> Status(s)],
    log <- [s \in Subs |-> Delivered(s)],
    taken <- [s \in Subs |-> Len(received[s])],
    life <- [e \in Events |-> Life(e)],
    down <- closed

\* Every behaviour of the bus is one of the feed: late sends, panics and the
\* shutdown included, a subscription is only ever given what it was promised.
IsAFeed == Feed!Spec
=============================================================================
