---------------------------- MODULE PostgresBus ----------------------------
(***************************************************************************)
(* The event bus of the PostgreSQL backend in one process.  Any process of *)
(* the deployment notifies the channel; the server hands the notifications *)
(* to every listening connection in the order it committed them.  One      *)
(* goroutine of this process waits on such a connection and fans out.      *)
(*                                                                         *)
(* A failed pg_notify announces nothing and changes nothing here (it is an *)
(* action of CommentsService).  Nobody recovers from a panic of the listen *)
(* goroutine: the process ends, and nothing happens in this module after.  *)
(***************************************************************************)
EXTENDS SubscriberRegistry

CONSTANTS
    Listener,   \* the goroutine that runs listen
    Malformed   \* notifications of the channel that decodePayload rejects

ASSUME ListenerAssumption == Carriers = {Listener}
ASSUME MalformedAssumption == /\ Malformed \cap Events = {}
                              /\ Null \notin Events

Notifications == Events \cup Malformed

VARIABLES
    announced,  \* history: the notifications, in the order of their commits
    queue,      \* those on their way to this process
    connected,  \* the listening connection is up
    loop,       \* where the listen goroutine stands
    current,    \* the event it dispatches
    closing,    \* where the first call of Close stands
    dispatched, \* history: the events whose fan-out was completed
    audience    \* history: the subscribers registered when an event was fanned out

busVars == <<announced, queue, connected, loop, current, closing, dispatched, audience>>
vars == <<registryVars, busVars>>

Loops == {"waiting", "decoded", "sending", "stopped", "panicked"}
Closings == {"no", "cancelled", "listenerClosed", "failed", "closed"}

\* New: the channel is listened to before the bus is handed out.
Init ==
    /\ RegistryInit
    /\ announced = <<>>
    /\ queue = <<>>
    /\ connected = TRUE
    /\ loop = "waiting"
    /\ current = Null
    /\ closing = "no"
    /\ dispatched = {}
    /\ audience = [e \in Events |-> {}]

-----------------------------------------------------------------------------
Announced == {announced[i] : i \in DOMAIN announced}

\* Some process has run pg_notify; a connection that is down misses it.
PublishCommentAdded(n) ==
    /\ n \notin Announced
    /\ announced' = Append(announced, n)
    /\ queue' = IF connected THEN Append(queue, n) ELSE queue
    /\ UNCHANGED <<registryVars, connected, loop, current, closing, dispatched, audience>>

\* The network or the server drops the connection, with any of what was on its
\* way.  The loop logs the errors of WaitForNotification and tries again on the
\* same connection: no step of it ever brings one up.
ConnectionLost ==
    /\ connected
    /\ connected' = FALSE
    /\ \E n \in 0 .. Len(queue) : queue' = SubSeq(queue, 1, n)
    /\ UNCHANGED <<registryVars, announced, loop, current, closing, dispatched, audience>>

\* Mutants of ReceiveNotification: the newest notification is taken first; a
\* payload that does not decode ends the loop.
ReceiveNewest ==
    /\ loop = "waiting"
    /\ queue # <<>>
    /\ queue' = SubSeq(queue, 1, Len(queue) - 1)
    /\ IF queue[Len(queue)] \in Malformed
         THEN UNCHANGED <<loop, current>>
         ELSE loop' = "decoded" /\ current' = queue[Len(queue)]
    /\ UNCHANGED <<registryVars, announced, connected, closing, dispatched, audience>>

ReceiveOrQuit ==
    /\ loop = "waiting"
    /\ queue # <<>>
    /\ queue' = Tail(queue)
    /\ IF Head(queue) \in Malformed
         THEN loop' = "stopped" /\ UNCHANGED current
         ELSE loop' = "decoded" /\ current' = Head(queue)
    /\ UNCHANGED <<registryVars, announced, connected, closing, dispatched, audience>>

\* WaitForNotification returns the next notification, also one received before
\* the connection was lost or the loop cancelled, and decodePayload looks at it.
ReceiveNotification ==
    /\ loop = "waiting"
    /\ queue # <<>>
    /\ queue' = Tail(queue)
    /\ IF Head(queue) \in Malformed
         THEN UNCHANGED <<loop, current>>
         ELSE loop' = "decoded" /\ current' = Head(queue)
    /\ UNCHANGED <<registryVars, announced, connected, closing, dispatched, audience>>

\* dispatch, up to RUnlock.
Dispatch ==
    /\ loop = "decoded"
    /\ TakeTargets(Listener, current)
    /\ audience' = [audience EXCEPT ![current] =
                      {s \in Subs : IsOpen(s) /\ topic[s] = PostOf[current]}]
    /\ loop' = "sending"
    /\ UNCHANGED <<announced, queue, connected, current, closing, dispatched>>

SendNext ==
    /\ loop = "sending"
    /\ \E s \in Subs : Send(Listener, s, current)
    /\ UNCHANGED busVars

\* Mutant of DispatchReturns: the loop is left before its last turn.
DispatchReturnsEarly ==
    /\ loop = "sending"
    /\ loop' = "waiting"
    /\ current' = Null
    /\ dispatched' = dispatched \cup {current}
    /\ targets' = [targets EXCEPT ![Listener] = {}]
    /\ UNCHANGED <<subscribers, closed, topic, channel, unsubscribed, cancelled,
                   received, lagged, announced, queue, connected, closing, audience>>

DispatchReturns ==
    /\ loop = "sending"
    /\ targets[Listener] = {}
    /\ loop' = "waiting"
    /\ current' = Null
    /\ dispatched' = dispatched \cup {current}
    /\ UNCHANGED <<registryVars, announced, queue, connected, closing, audience>>

\* The panic ends the process.
DispatchPanics ==
    /\ loop = "sending"
    /\ SendPanics(Listener)
    /\ loop' = "panicked"
    /\ UNCHANGED <<announced, queue, connected, current, closing, dispatched, audience>>

\* WaitForNotification returns the error of the cancelled context.
Stop ==
    /\ loop = "waiting"
    /\ closing # "no"
    /\ loop' = "stopped"
    /\ UNCHANGED <<registryVars, announced, queue, connected, current, closing,
                   dispatched, audience>>

-----------------------------------------------------------------------------
\* Close: the flag is set under the lock, then the loop is cancelled; a second
\* call returns at once.
Close ==
    /\ ~closed
    /\ closed' = TRUE
    /\ closing' = "cancelled"
    /\ UNCHANGED <<subscribers, topic, channel, unsubscribed, cancelled, targets, received,
                   lagged, announced, queue, connected, loop, current, dispatched, audience>>

\* Mutant of CloseListener: it does not wait for the loop.
CloseListenerAtOnce ==
    /\ closing = "cancelled"
    /\ connected' = FALSE
    /\ closing' \in {"listenerClosed", "failed"}
    /\ UNCHANGED <<registryVars, announced, queue, loop, current, dispatched, audience>>

\* <-b.done, then the connection is closed, for which it has five seconds.
CloseListener ==
    /\ closing = "cancelled"
    /\ loop = "stopped"
    /\ connected' = FALSE
    /\ closing' \in {"listenerClosed", "failed"}
    /\ UNCHANGED <<registryVars, announced, queue, loop, current, dispatched, audience>>

\* The loops over the subscribers; a failed close of the connection has returned
\* before them, and left the subscriptions to their contexts.
CloseSubscribers ==
    /\ closing = "listenerClosed"
    /\ CloseAll
    /\ closing' = "closed"
    /\ UNCHANGED <<closed, topic, unsubscribed, cancelled, targets, received, lagged,
                   announced, queue, connected, loop, current, dispatched, audience>>

-----------------------------------------------------------------------------
Client(s) ==
    /\ \/ \E p \in Posts : Subscribe(s, p)
       \/ Unsubscribe(s)
       \/ Cancel(s)
    /\ UNCHANGED busVars

Cleaner(s) == CleanUp(s) /\ UNCHANGED busVars
Consumer(s) == Receive(s) /\ UNCHANGED busVars

Loop ==
    ReceiveNotification \/ Dispatch \/ SendNext \/ DispatchReturns \/ DispatchPanics \/ Stop

Closer == CloseListener \/ CloseSubscribers

Next ==
    /\ loop # "panicked"
    /\ \/ \E s \in Subs : Client(s) \/ Cleaner(s) \/ Consumer(s)
       \/ \E n \in Notifications : PublishCommentAdded(n)
       \/ ConnectionLost
       \/ Loop
       \/ Close
       \/ Closer

Spec == Init /\ [][Next]_vars

\* The runtime runs the goroutines that can run.  Clients and consumers owe
\* nothing, the connection need never be lost, and nobody need call Close.
FairSpec == Spec /\ WF_vars(Loop) /\ WF_vars(Closer)

-----------------------------------------------------------------------------
\* The variables hold what the code's variables can hold.
TypeOK ==
    /\ RegistryTypeOK
    /\ announced \in Seq(Notifications)
    /\ queue \in Seq(Notifications)
    /\ connected \in BOOLEAN
    /\ loop \in Loops
    /\ current \in Events \cup {Null}
    /\ closing \in Closings
    /\ dispatched \in SUBSET Events
    /\ audience \in [Events -> SUBSET Subs]

\* Each subscriber is given events in the order in which they were announced,
\* whichever processes announced them and whatever is lost in between.
InNotifyOrder ==
    \A s \in Subs : \A i, j \in DOMAIN Delivered(s) : i < j =>
        \E a, b \in DOMAIN announced :
            a < b /\ announced[a] = Delivered(s)[i] /\ announced[b] = Delivered(s)[j]

\* An event that was dispatched reached every subscription registered at that
\* time, except those whose buffer was full at some time.
OnlyLaggardsMiss ==
    \A e \in dispatched : \A s \in audience[e] : e \in Sent(s) \/ s \in lagged

\* Close waits for the loop before it closes the channels, so that a shutdown
\* never makes the loop send on a closed channel: only an unsubscribe does.  A
\* Close that returned without an error has closed every channel for good.
ShutdownIsSafe ==
    /\ closing \in {"listenerClosed", "failed", "closed"} => loop = "stopped"
    /\ loop = "panicked" => \E s \in unsubscribed : topic[s] = PostOf[current]
    /\ closing = "closed" => \A s \in Subs : ~IsOpen(s)

\* Close returns, however slow the consumers and whatever is still being fanned
\* out, unless the process ends first.
CloseReturns == closed ~> closing \in {"closed", "failed"} \/ loop = "panicked"

\* A notification on its way to a connection that stays up is fanned out, also
\* behind payloads that do not decode, unless the bus is closed or panics.
QueuedIsDispatched ==
    \A e \in Events :
        (\E i \in DOMAIN queue : queue[i] = e)
            ~> e \in dispatched \/ ~connected \/ closed \/ loop = "panicked"

\* Unsubscribing closes the subscription's channel and does no other harm.
ListenerNeverPanics == loop # "panicked"

\* An announced event is fanned out by every process that is not shut down: the
\* loop goes on after an error of WaitForNotification.
AnnouncedIsDispatched ==
    \A e \in Events :
        e \in Announced ~> e \in dispatched \/ closed \/ loop = "panicked"

-----------------------------------------------------------------------------
\* The bus read as a CommentFeed.  What is lost on the way stays announced and
\* is never delivered.
Life(e) == CASE e \notin Announced -> "unborn"
             [] e \in dispatched -> "over"
             [] OTHER -> "live"

Feed == INSTANCE CommentFeed WITH
    Capacity <- BufferSize,
    status <- [s \in Subs |-> Status(s)],
    log <- [s \in Subs |-> Delivered(s)],
    taken <- [s \in Subs |-> Len(received[s])],
    life <- [e \in Events |-> Life(e)],
    down <- closed

\* Every behaviour of this bus is one of the feed, the shutdown in several steps,
\* lost connections and undecodable payloads included.
IsAFeed == Feed!Spec
=============================================================================
