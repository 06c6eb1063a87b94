---------------------------- MODULE CommentFlow ----------------------------
(***************************************************************************)
(* A comment on its way from one client to another, in a process with the  *)
(* memory backend: the mutation that stores it (CommentsService), the bus  *)
(* that announces it (MemoryBus) and the goroutine of the commentAdded     *)
(* subscription, which reads it back and hands it to its client.           *)
(*                                                                         *)
(* The mutation is stopped at its stage "publish" while the bus fans its   *)
(* event out, and ends as the publication does.  The consumer of a channel *)
(* of the bus is the goroutine of the resolver, and nobody else.           *)
(***************************************************************************)
EXTENDS Naturals, Sequences, FiniteSets

CONSTANTS
    Requests, SeedPosts, Users, Inputs, \* of CommentsService
    Subs, BufferSize,                   \* of MemoryBus
    Topics,     \* the posts clients subscribe to, stored or not
    Attentive,  \* subscriptions whose clients stay and go on reading
    Faulty,     \* subscriptions whose reads fail at times, as PostgreSQL's do
    Null

PostId == SeedPosts \cup Requests

ASSUME FlowAssumption ==
    Topics \subseteq PostId /\ Attentive \subseteq Subs /\ Faulty \subseteq Subs

VARIABLES
    posts, comments, stage, call, draft, afterCommit, conns, events, result,
    openDuring,
    subscribers, closed, topic, channel, unsubscribed, cancelled, targets,
    received, lagged, publication, audience,
    resolver, \* where the goroutine of each subscription stands
    shown,    \* the events whose comments the client of a subscription was given
    skipped   \* history: the events whose comments could not be read

\* CommentAddedEvent: the comment, which its request names, and its post.
CommentAddedEvent == Requests \X PostId

Service == INSTANCE CommentsService WITH
    Backends <- {"memory"}, backend <- "memory", MaxConns <- 1

Bus == INSTANCE MemoryBus WITH
    Posts <- PostId, Events <- CommentAddedEvent, Carriers <- CommentAddedEvent,
    PostOf <- [e \in CommentAddedEvent |-> e[2]]

\* What the parts ask of their constants.
ASSUME ServiceAssumption ==
    /\ SeedPosts \cap Requests = {}
    /\ Inputs \subseteq Service!Calls
    /\ Null \notin PostId \cup Users
    /\ Null \notin Service!Post /\ Null \notin Service!Comment /\ Null \notin Service!Call

ASSUME BusAssumption == BufferSize \in Nat \ {0} /\ Null \notin Bus!Channel

serviceVars == <<posts, comments, stage, call, draft, afterCommit, conns, events,
                 result, openDuring>>
registryVars == <<subscribers, closed, topic, channel, unsubscribed, cancelled,
                  targets, received, lagged>>
busVars == <<registryVars, publication, audience>>
resolverVars == <<resolver, shown, skipped>>
vars == <<serviceVars, busVars, resolverVars>>

EventOf(r) == <<r, call[r].post>>

\* The event the resolver holds: the last it has taken from its channel.
Event(s) == received[s][Len(received[s])]

-----------------------------------------------------------------------------
Init ==
    /\ Service!Init
    /\ Bus!Init
    /\ resolver = [s \in Subs |-> "none"]
    /\ shown = [s \in Subs |-> <<>>]
    /\ skipped = [s \in Subs |-> {}]

\* Everything a mutation does but its publication.
Serve(r) ==
    /\ stage[r] # "publish"
    /\ Service!Progress(r)
    /\ UNCHANGED <<busVars, resolverVars>>

Invoke(r) == Service!Invoke(r) /\ UNCHANGED <<busVars, resolverVars>>

\* Mutant of Publish: the event is announced before the comment is stored.
PublishEarly(r) ==
    /\ stage[r] \in {"write", "publish"}
    /\ call[r].op = "createComment"
    /\ Bus!PublishCommentAdded(EventOf(r))
    /\ UNCHANGED <<serviceVars, resolverVars>>

\* The registry of the mutation calls PublishCommentAdded.
Publish(r) ==
    /\ stage[r] = "publish"
    /\ Bus!PublishCommentAdded(EventOf(r))
    /\ UNCHANGED <<serviceVars, resolverVars>>

SendNext(r) ==
    /\ \E e \in {r} \X PostId : Bus!SendNext(e)
    /\ UNCHANGED <<serviceVars, resolverVars>>

\* Mutant of PublishReturns: the fan-out is left to a goroutine of its own.
PublishReturnsAtOnce(r) ==
    /\ stage[r] = "publish"
    /\ publication[EventOf(r)] = "sending"
    /\ Service!PublishInMemory(r)
    /\ UNCHANGED <<busVars, resolverVars>>

PublishReturns(r) ==
    /\ stage[r] = "publish"
    /\ Bus!PublishReturns(EventOf(r))
    /\ Service!PublishInMemory(r)
    /\ UNCHANGED resolverVars

PublishPanics(r) ==
    /\ stage[r] = "publish"
    /\ Bus!PublishPanics(EventOf(r))
    /\ Service!PublishPanics(r)
    /\ UNCHANGED resolverVars

Mutation(r) ==
    Serve(r) \/ Publish(r) \/ SendNext(r) \/ PublishReturns(r) \/ PublishPanics(r)

-----------------------------------------------------------------------------
Goto(s, place) == resolver' = [resolver EXCEPT ![s] = place]

\* A step of a resolver that touches nothing else.
Local == UNCHANGED <<serviceVars, busVars>>

\* CommentAdded: subscribe and start the goroutine.  That the post exists is
\* not asked.
CommentAdded(s, p) ==
    /\ resolver[s] = "none"
    /\ Bus!Subscribe(s, p)
    /\ Goto(s, "waiting")
    /\ UNCHANGED <<serviceVars, publication, audience, shown, skipped>>

\* The outer select: an event.
TakeEvent(s) ==
    /\ resolver[s] = "waiting"
    /\ Bus!Receive(s)
    /\ Goto(s, "loading")
    /\ UNCHANGED <<serviceVars, publication, audience, shown, skipped>>

\* The outer select: the bus has closed the channel, and nothing is left in it.
SeeClosed(s) ==
    /\ resolver[s] = "waiting"
    /\ ~channel[s].open /\ channel[s].buffer = <<>>
    /\ Goto(s, "closing")
    /\ Local /\ UNCHANGED <<shown, skipped>>

\* Mutant of SeeDone: a resolver that has a comment to hand over waits for
\* its client only.
SeeDoneWhileWaiting(s) ==
    /\ resolver[s] = "waiting"
    /\ s \in cancelled
    /\ Goto(s, "closing")
    /\ Local /\ UNCHANGED <<shown, skipped>>

\* Either select: the context is done.  Go chooses freely among ready cases.
SeeDone(s) ==
    /\ resolver[s] \in {"waiting", "sending"}
    /\ s \in cancelled
    /\ Goto(s, "closing")
    /\ Local /\ UNCHANGED <<shown, skipped>>

\* GetComment answers, with the comment or with NOT_FOUND.
LoadComment(s) ==
    /\ resolver[s] = "loading"
    /\ IF comments[Event(s)[1]] # Null
         THEN Goto(s, "sending") /\ UNCHANGED skipped
         ELSE /\ Goto(s, "waiting")
              /\ skipped' = [skipped EXCEPT ![s] = @ \cup {Event(s)}]
    /\ Local /\ UNCHANGED shown

\* Mutant of GetCommentFails: the goroutine returns instead of going on.
GetCommentFailsForGood(s) ==
    /\ resolver[s] = "loading"
    /\ s \in Faulty
    /\ skipped' = [skipped EXCEPT ![s] = @ \cup {Event(s)}]
    /\ Goto(s, "closing")
    /\ Local /\ UNCHANGED shown

\* GetComment fails for another reason: logged, and the loop goes on.
GetCommentFails(s) ==
    /\ resolver[s] = "loading"
    /\ s \in Faulty
    /\ skipped' = [skipped EXCEPT ![s] = @ \cup {Event(s)}]
    /\ Goto(s, "waiting")
    /\ Local /\ UNCHANGED shown

\* Mutant of HandOver: the loop goes on with the event it has handed over.
HandOverAndRepeat(s) ==
    /\ resolver[s] = "sending"
    /\ shown' = [shown EXCEPT ![s] = Append(@, Event(s))]
    /\ Goto(s, "loading")
    /\ Local /\ UNCHANGED skipped

\* The client's side takes the comment from the unbuffered channel.
HandOver(s) ==
    /\ resolver[s] = "sending"
    /\ shown' = [shown EXCEPT ![s] = Append(@, Event(s))]
    /\ Goto(s, "waiting")
    /\ Local /\ UNCHANGED skipped

\* The deferred close(result) and unsubscribe, which the goroutine of the
\* bus's Subscribe may have run before.
Return(s) ==
    /\ resolver[s] = "closing"
    /\ \/ Bus!Unsubscribe(s)
       \/ s \in unsubscribed /\ UNCHANGED registryVars
    /\ Goto(s, "done")
    /\ UNCHANGED <<serviceVars, publication, audience, shown, skipped>>

\* What the goroutine does without its client.
Resolve(s) ==
    \/ TakeEvent(s) \/ SeeClosed(s) \/ SeeDone(s)
    \/ LoadComment(s) \/ GetCommentFails(s) \/ Return(s)

-----------------------------------------------------------------------------
\* The client leaves.
Cancel(s) ==
    /\ s \notin Attentive
    /\ resolver[s] # "none"
    /\ Bus!Cancel(s)
    /\ UNCHANGED <<serviceVars, publication, audience, resolverVars>>

CleanUp(s) == Bus!Cleaner(s) /\ UNCHANGED <<serviceVars, resolverVars>>

\* Container.Close, when the process shuts down.
CloseBus ==
    /\ Bus!Close
    /\ UNCHANGED <<serviceVars, publication, audience, resolverVars>>

Next ==
    \/ \E r \in Requests : Invoke(r) \/ Mutation(r)
    \/ \E s \in Subs : \/ \E p \in Topics : CommentAdded(s, p)
                       \/ Resolve(s) \/ HandOver(s) \/ Cancel(s) \/ CleanUp(s)
    \/ CloseBus

Spec == Init /\ [][Next]_vars

\* Goroutines that can run are run.  A resolver runs as long as its client takes
\* what it is handed, which only attentive clients are owed to do.
FairSpec ==
    /\ Spec
    /\ \A r \in Requests : WF_vars(Mutation(r))
    /\ \A s \in Subs : WF_vars(Resolve(s) \/ (s \in Attentive /\ HandOver(s)))

-----------------------------------------------------------------------------
Places == {"none", "waiting", "loading", "sending", "closing", "done"}

\* The variables of the parts and of the resolvers have their types.
TypeOK ==
    /\ Service!TypeOK
    /\ Bus!TypeOK
    /\ resolver \in [Subs -> Places]
    /\ shown \in [Subs -> Seq(CommentAddedEvent)]
    /\ skipped \in [Subs -> SUBSET CommentAddedEvent]

\* Where an event is that the bus has given to a subscription: with the client,
\* given up, in the hands of the resolver, or in the channel.
Holds(s, e) ==
    \/ \E i \in DOMAIN shown[s] : shown[s][i] = e
    \/ e \in skipped[s]
    \/ resolver[s] \in {"loading", "sending"} /\ Event(s) = e
    \/ \E i \in DOMAIN channel[s].buffer : channel[s].buffer[i] = e

\* createComment is only acknowledged when the bus is through with its event:
\* from then on every subscription of the time whose client stays is somewhere
\* on the way to showing it, also past a shutdown of the bus and behind failed
\* reads, unless its buffer was full.
AcknowledgedIsNotLost ==
    \A r \in Requests : result[r] = "ok" /\ call[r].op = "createComment" =>
        /\ publication[EventOf(r)] = "returned"
        /\ \A s \in audience[EventOf(r)] \ (lagged \cup cancelled) : Holds(s, EventOf(r))

\* The events the resolver is through with.
HandledCount(s) ==
    IF resolver[s] \in {"loading", "sending"} THEN Len(received[s]) - 1
                                              ELSE Len(received[s])
Handled(s) == {received[s][i] : i \in 1..HandledCount(s)}

\* A client is shown the comments of its post, in the order in which the bus
\* delivered them, each once and none left out but those that could not be
\* read; a comment that was announced can always be found.
ShownFaithfully ==
    \A s \in Subs :
        /\ s \notin Faulty => skipped[s] = {}
        /\ \A i \in DOMAIN shown[s] :
             LET comment == comments[shown[s][i][1]] IN
               comment # Null /\ comment.post = topic[s]
        /\ \A i, j \in DOMAIN shown[s] : i < j =>
             \E a, b \in DOMAIN received[s] : /\ a < b
                                             /\ received[s][a] = shown[s][i]
                                             /\ received[s][b] = shown[s][j]
        /\ \A i, j \in DOMAIN shown[s] : shown[s][i] = shown[s][j] => i = j
        /\ s \notin cancelled =>
             {shown[s][i] : i \in DOMAIN shown[s]} = Handled(s) \ skipped[s]

\* The flow read as a CommentFeed whose consumers are the clients: an event is
\* taken when its comment was handed over or could not be read.
TakenByClient(s) == Len(shown[s]) + Cardinality(skipped[s])

ClientFeed == INSTANCE CommentFeed WITH
    Posts <- PostId, Events <- CommentAddedEvent,
    PostOf <- [e \in CommentAddedEvent |-> e[2]],
    Capacity <- BufferSize + 1,
    status <- [s \in Subs |-> Bus!Status(s)],
    log <- [s \in Subs |-> Bus!Delivered(s)],
    taken <- [s \in Subs |-> TakenByClient(s)],
    life <- [e \in CommentAddedEvent |-> Bus!Life(e)],
    down <- closed

\* Mutations, bus and resolvers together are a feed again, now for the clients:
\* what was delivered is taken one by one and never twice, and the resolver makes
\* room for one event more than the buffer has.
ClientsHaveAFeed == ClientFeed!Spec

\* When createComment has been acknowledged, whoever had subscribed before and
\* stays and reads gets to see the comment, unless its buffer was full or the
\* comment could not be read; a failed read costs that one comment, and the
\* shutdown of the bus none.  (Answers, audiences, and what was shown, read or
\* dropped only ever grow, so that <>[] says what ~> would.)
AcknowledgedAreShown ==
    \A e \in Requests \X Topics, s \in Attentive :
        <>[](result[e[1]] = "ok" /\ s \in audience[e]
             => \/ \E i \in DOMAIN shown[s] : shown[s][i] = e
                \/ e \in skipped[s]
                \/ s \in lagged)

\* The goroutine of a subscription ends, and its channel in the bus is closed,
\* when its client leaves, even one that had stopped reading; and when the bus
\* is closed, if its client reads.  (Clients that left, a closed bus and a
\* goroutine that ended stay so.)
ResolversEnd ==
    \A s \in Subs :
        <>[](resolver[s] # "none" /\ (s \in cancelled \/ (closed /\ s \in Attentive))
             => resolver[s] = "done" /\ ~Bus!IsOpen(s))
=============================================================================
