------------------------- MODULE CommentFlowProofs -------------------------
(***************************************************************************)
(* The safety of CommentFlow, by composition: a behaviour of the flow is   *)
(* one of CommentsService and one of MemoryBus, so what is proved of them  *)
(* holds of the flow, and only what relates the parts is proved anew.      *)
(***************************************************************************)
EXTENDS CommentFlow, TLAPS, SequenceTheorems, FiniteSetTheorems

\* The parts, with what is proved about them.
ServiceProofs == INSTANCE CommentsServiceProofs WITH
    Backends <- {"memory"}, backend <- "memory", MaxConns <- 1

BusProofs == INSTANCE MemoryBusProofs WITH
    Posts <- PostId, Events <- CommentAddedEvent, Carriers <- CommentAddedEvent,
    PostOf <- [e \in CommentAddedEvent |-> e[2]]

\* An event is announced by the mutation that stored its comment, while it
\* stands at "publish" and only once.
AnnouncedByItsMutation ==
    \A e \in CommentAddedEvent : publication[e] # "idle" =>
        /\ e = EventOf(e[1])
        /\ comments[e[1]] # Null
        /\ \/ stage[e[1]] = "publish" /\ publication[e] = "sending"
           \/ stage[e[1]] = "done" /\ publication[e] # "sending"

\* A createComment that reaches its commit has an event to announce, never by a
\* notification, and is acknowledged when the announcement is over.
AcknowledgedLast ==
    \A r \in Requests :
        /\ stage[r] # "notify"
        /\ call[r] # Null /\ call[r].op = "createComment" =>
             /\ stage[r] = "commit" => r \in afterCommit
             /\ result[r] = "ok" => publication[EventOf(r)] = "returned"

\* A resolver that holds an event has taken it.
HoldsEvent ==
    \A s \in Subs : resolver[s] \in {"loading", "sending"} => received[s] # <<>>

\* What was shown or skipped is what the resolver is through with.
HandledOnly ==
    \A s \in Subs :
        /\ \A i \in DOMAIN shown[s] : shown[s][i] \in Handled(s)
        /\ skipped[s] \subseteq Handled(s)

\* The types of the variables of the resolvers.
ResolverTypeOK ==
    /\ resolver \in [Subs -> Places]
    /\ shown \in [Subs -> Seq(CommentAddedEvent)]
    /\ skipped \in [Subs -> SUBSET CommentAddedEvent]

\* What was shown, as its subscription was delivered it.
ShownInOrder ==
    \A s \in Subs : \A i, j \in DOMAIN shown[s] : i < j =>
        \E a, b \in DOMAIN received[s] : /\ a < b
                                         /\ received[s][a] = shown[s][i]
                                         /\ received[s][b] = shown[s][j]

\* Of what a resolver is through with, only failed reads are missing, as long as
\* its client stays.
ShownCompletely ==
    \A s \in Subs :
        /\ s \notin Faulty => skipped[s] = {}
        /\ s \notin cancelled =>
             {shown[s][i] : i \in DOMAIN shown[s]} = Handled(s) \ skipped[s]

\* The service and the bus agree.
Routes == AnnouncedByItsMutation /\ AcknowledgedLast

\* Each resolver does its job.
Resolvers == ResolverTypeOK /\ HoldsEvent /\ HandledOnly /\ ShownInOrder /\ ShownCompletely

IInv == ServiceProofs!IInv /\ BusProofs!IInv /\ Routes /\ Resolvers

-----------------------------------------------------------------------------
(* The parts: what is proved about them, for the constants of the flow.  The *)
(* definitions Service!D and ServiceProofs!D are the same, read twice.       *)

\* The assumptions CommentsService makes on its constants.
LEMMA ServiceConstants ==
    /\ {"memory"} \subseteq {"memory", "postgres"} /\ 1 \in Nat \ {0}
    /\ SeedPosts \cap Requests = {}
    /\ Inputs \subseteq ServiceProofs!Calls
    /\ Null \notin ServiceProofs!PostId \cup Users
    /\ Null \notin ServiceProofs!Post /\ Null \notin ServiceProofs!Comment
    /\ Null \notin ServiceProofs!Call
BY ServiceAssumption
   DEF PostId,
       Service!Calls, ServiceProofs!Calls,
       Service!CreatePostCalls, ServiceProofs!CreatePostCalls,
       Service!SetCommentsEnabledCalls, ServiceProofs!SetCommentsEnabledCalls,
       Service!CreateCommentCalls, ServiceProofs!CreateCommentCalls,
       Service!Call, ServiceProofs!Call, Service!Post, ServiceProofs!Post,
       Service!Comment, ServiceProofs!Comment,
       Service!PostId, ServiceProofs!PostId,
       Service!CommentId, ServiceProofs!CommentId

\* The invariant of the mutations, for a process with the memory backend.
LEMMA ServiceHolds == Service!Spec => []ServiceProofs!IInv
<1>1. Service!Init => ServiceProofs!Init
  BY DEF Service!Init, ServiceProofs!Init, Service!PostId, ServiceProofs!PostId,
         Service!CommentId, ServiceProofs!CommentId,
         Service!Post, ServiceProofs!Post
<1>2. [Service!Next]_(Service!vars) => [ServiceProofs!Next]_(ServiceProofs!vars)
  <2>1. \A r \in Requests : Service!Invoke(r) => ServiceProofs!Invoke(r)
    BY DEF Service!Invoke, ServiceProofs!Invoke, Service!Goto, ServiceProofs!Goto,
           Service!OpenPosts, ServiceProofs!OpenPosts,
           Service!PostId, ServiceProofs!PostId
  <2>2. ASSUME NEW r \in Requests, Service!Progress(r)
        PROVE ServiceProofs!Progress(r)
    <3>1. Service!BeginTx(r) => ServiceProofs!BeginTx(r)
      BY DEF Service!BeginTx, ServiceProofs!BeginTx, Service!FreeConn,
             ServiceProofs!FreeConn, Service!Goto, ServiceProofs!Goto, Service!store,
             ServiceProofs!store
    <3>2. Service!GetPost(r) => ServiceProofs!GetPost(r)
      BY DEF Service!GetPost, ServiceProofs!GetPost, Service!GetPostRefusal,
             ServiceProofs!GetPostRefusal, Service!Goto, ServiceProofs!Goto,
             Service!store, ServiceProofs!store
    <3>3. Service!GetPostRefused(r) => ServiceProofs!GetPostRefused(r)
      BY DEF Service!GetPostRefused, ServiceProofs!GetPostRefused,
             Service!GetPostRefusal, ServiceProofs!GetPostRefusal, Service!Abort,
             ServiceProofs!Abort, Service!Goto, ServiceProofs!Goto, Service!store,
             ServiceProofs!store
    <3>4. Service!GetParent(r) => ServiceProofs!GetParent(r)
      BY DEF Service!GetParent, ServiceProofs!GetParent, Service!Goto,
             ServiceProofs!Goto, Service!store, ServiceProofs!store
    <3>5. Service!GetParentRefused(r) => ServiceProofs!GetParentRefused(r)
      BY DEF Service!GetParentRefused, ServiceProofs!GetParentRefused, Service!Abort,
             ServiceProofs!Abort, Service!Goto, ServiceProofs!Goto, Service!store,
             ServiceProofs!store
    <3>6. Service!Write(r) => ServiceProofs!Write(r)
      BY DEF Service!Write, ServiceProofs!Write, Service!RowLocked,
             ServiceProofs!RowLocked, Service!Goto, ServiceProofs!Goto,
             Service!WriteRows, ServiceProofs!WriteRows, Service!PutPost,
             ServiceProofs!PutPost, Service!OpenPosts, ServiceProofs!OpenPosts,
             Service!InFlight, ServiceProofs!InFlight, Service!PostId,
             ServiceProofs!PostId, Service!NewPost, ServiceProofs!NewPost,
             Service!NewComment, ServiceProofs!NewComment, Service!store,
             ServiceProofs!store
    <3>7. Service!WriteRefused(r) => ServiceProofs!WriteRefused(r)
      BY DEF Service!WriteRefused, ServiceProofs!WriteRefused, Service!Abort,
             ServiceProofs!Abort, Service!Goto, ServiceProofs!Goto, Service!store,
             ServiceProofs!store
    <3>8. Service!Rollback(r) => ServiceProofs!Rollback(r)
      BY DEF Service!Rollback, ServiceProofs!Rollback, Service!Return,
             ServiceProofs!Return, Service!Goto, ServiceProofs!Goto, Service!store,
             ServiceProofs!store
    <3>9. Service!Commit(r) => ServiceProofs!Commit(r)
      BY DEF Service!Commit, ServiceProofs!Commit, Service!Return,
             ServiceProofs!Return, Service!Goto, ServiceProofs!Goto,
             Service!WriteRows, ServiceProofs!WriteRows, Service!PutPost,
             ServiceProofs!PutPost, Service!OpenPosts, ServiceProofs!OpenPosts,
             Service!InFlight, ServiceProofs!InFlight, Service!PostId,
             ServiceProofs!PostId, Service!NewPost, ServiceProofs!NewPost,
             Service!NewComment, ServiceProofs!NewComment, Service!store,
             ServiceProofs!store
    <3>10. Service!PublishInMemory(r) => ServiceProofs!PublishInMemory(r)
      BY DEF Service!PublishInMemory, ServiceProofs!PublishInMemory, Service!Return,
             ServiceProofs!Return, Service!Goto, ServiceProofs!Goto, Service!store,
             ServiceProofs!store
    <3>11. Service!AcquireForNotify(r) => ServiceProofs!AcquireForNotify(r)
      BY DEF Service!AcquireForNotify, ServiceProofs!AcquireForNotify,
             Service!FreeConn, ServiceProofs!FreeConn, Service!Goto,
             ServiceProofs!Goto, Service!store, ServiceProofs!store
    <3>12. Service!Notify(r) => ServiceProofs!Notify(r)
      BY DEF Service!Notify, ServiceProofs!Notify, Service!Return,
             ServiceProofs!Return, Service!Goto, ServiceProofs!Goto, Service!store,
             ServiceProofs!store
    <3>13. QED
      BY <2>2, <3>1, <3>2, <3>3, <3>4, <3>5, <3>6, <3>7, <3>8, <3>9,
         <3>10, <3>11, <3>12
         DEF Service!Progress, ServiceProofs!Progress
  <2>3. ASSUME NEW r \in Requests, Service!Failure(r)
        PROVE ServiceProofs!Failure(r)
    <3>1. Service!BeginTxFails(r) => ServiceProofs!BeginTxFails(r)
      BY DEF Service!BeginTxFails, ServiceProofs!BeginTxFails, Service!Return,
             ServiceProofs!Return, Service!Goto, ServiceProofs!Goto, Service!store,
             ServiceProofs!store
    <3>2. Service!StatementFails(r) => ServiceProofs!StatementFails(r)
      BY DEF Service!StatementFails, ServiceProofs!StatementFails, Service!Abort,
             ServiceProofs!Abort, Service!Goto, ServiceProofs!Goto, Service!store,
             ServiceProofs!store
    <3>3. Service!CommitFails(r) => ServiceProofs!CommitFails(r)
      BY DEF Service!CommitFails, ServiceProofs!CommitFails, Service!Return,
             ServiceProofs!Return, Service!Goto, ServiceProofs!Goto,
             Service!WriteRows, ServiceProofs!WriteRows, Service!PutPost,
             ServiceProofs!PutPost, Service!OpenPosts, ServiceProofs!OpenPosts,
             Service!InFlight, ServiceProofs!InFlight, Service!PostId,
             ServiceProofs!PostId, Service!NewPost, ServiceProofs!NewPost,
             Service!NewComment, ServiceProofs!NewComment, Service!store,
             ServiceProofs!store
    <3>4. Service!PublishPanics(r) => ServiceProofs!PublishPanics(r)
      BY DEF Service!PublishPanics, ServiceProofs!PublishPanics, Service!Return,
             ServiceProofs!Return, Service!Goto, ServiceProofs!Goto, Service!store,
             ServiceProofs!store
    <3>5. Service!NotifyFails(r) => ServiceProofs!NotifyFails(r)
      BY DEF Service!NotifyFails, ServiceProofs!NotifyFails, Service!Return,
             ServiceProofs!Return, Service!Goto, ServiceProofs!Goto, Service!store,
             ServiceProofs!store
    <3>6. QED
      BY <2>3, <3>1, <3>2, <3>3, <3>4, <3>5
         DEF Service!Failure, ServiceProofs!Failure
  <2>4. Service!Restart \/ Service!Quiescent =>
          ServiceProofs!Restart \/ ServiceProofs!Quiescent
    BY DEF Service!Restart, ServiceProofs!Restart,
           Service!Quiescent, ServiceProofs!Quiescent,
           Service!InFlight, ServiceProofs!InFlight,
           Service!store, ServiceProofs!store, Service!vars, ServiceProofs!vars
  <2>5. UNCHANGED Service!vars => UNCHANGED ServiceProofs!vars
    BY DEF Service!vars, ServiceProofs!vars
  <2>6. QED
    BY <2>1, <2>2, <2>3, <2>4, <2>5 DEF Service!Next, ServiceProofs!Next
<1>3. Service!Spec => ServiceProofs!Spec
  BY <1>1, <1>2, PTL DEF Service!Spec, ServiceProofs!Spec
<1>4. ServiceProofs!Spec => []ServiceProofs!IInv
  BY ServiceConstants, ServiceProofs!IInvHolds
<1>5. QED
  BY <1>3, <1>4

\* What of it the flow states about the mutations.
LEMMA ServiceInvariants == ServiceProofs!IInv => Service!TypeOK
BY DEF ServiceProofs!IInv,
       Service!TypeOK, ServiceProofs!TypeOK, Service!PostId, ServiceProofs!PostId,
       Service!Post, ServiceProofs!Post,
       Service!CommentId, ServiceProofs!CommentId,
       Service!Comment, ServiceProofs!Comment,
       Service!Stages, ServiceProofs!Stages, Service!Calls, ServiceProofs!Calls,
       Service!CreatePostCalls, ServiceProofs!CreatePostCalls,
       Service!SetCommentsEnabledCalls, ServiceProofs!SetCommentsEnabledCalls,
       Service!CreateCommentCalls, ServiceProofs!CreateCommentCalls,
       Service!Call, ServiceProofs!Call, Service!Results, ServiceProofs!Results,
       Service!Refusals, ServiceProofs!Refusals

\* The assumptions MemoryBus makes on its constants.
LEMMA BusConstants ==
    /\ [e \in CommentAddedEvent |-> e[2]] \in [CommentAddedEvent -> PostId]
    /\ BufferSize \in Nat \ {0}
    /\ Null \notin [open: BOOLEAN, buffer: Seq(CommentAddedEvent)]
    /\ Null \notin PostId
    /\ CommentAddedEvent = CommentAddedEvent
BY BusAssumption, ServiceAssumption DEF CommentAddedEvent, Bus!Channel

\* The invariant of the bus, whose carriers are the mutations.
LEMMA BusHolds == Bus!Spec => []BusProofs!IInv
<1>1. Bus!Init => BusProofs!Init
  BY DEF Bus!Init, BusProofs!Init, Bus!RegistryInit, BusProofs!RegistryInit
<1>2. [Bus!Next]_(Bus!vars) => [BusProofs!Next]_(BusProofs!vars)
  BY DEF
         Bus!Next, BusProofs!Next, Bus!Client, BusProofs!Client,
         Bus!Cleaner, BusProofs!Cleaner, Bus!Consumer, BusProofs!Consumer,
         Bus!Sender, BusProofs!Sender, Bus!Subscribe, BusProofs!Subscribe,
         Bus!Unsubscribe, BusProofs!Unsubscribe, Bus!Cancel, BusProofs!Cancel,
         Bus!CleanUp, BusProofs!CleanUp, Bus!Receive, BusProofs!Receive,
         Bus!PublishCommentAdded, BusProofs!PublishCommentAdded,
         Bus!SendNext, BusProofs!SendNext,
         Bus!PublishReturns, BusProofs!PublishReturns,
         Bus!PublishPanics, BusProofs!PublishPanics,
         Bus!TakeTargets, BusProofs!TakeTargets, Bus!Send, BusProofs!Send,
         Bus!SendPanics, BusProofs!SendPanics, Bus!IsOpen, BusProofs!IsOpen,
         Bus!Goto, BusProofs!Goto, Bus!Close, BusProofs!Close,
         Bus!CloseAll, BusProofs!CloseAll,
         Bus!registryVars, BusProofs!registryVars, Bus!vars, BusProofs!vars
<1>3. Bus!Spec => BusProofs!Spec
  BY <1>1, <1>2, PTL DEF Bus!Spec, BusProofs!Spec
<1>4. BusProofs!Spec => []BusProofs!IInv
  BY BusConstants, BusProofs!IInvHolds
<1>5. QED
  BY <1>3, <1>4

\* What of it the flow states about the bus.
LEMMA BusInvariants == BusProofs!IInv => Bus!TypeOK
BY DEF BusProofs!IInv, Bus!TypeOK, BusProofs!TypeOK, Bus!RegistryTypeOK, BusProofs!RegistryTypeOK,
       Bus!Channel, BusProofs!Channel, Bus!Phases, BusProofs!Phases

-----------------------------------------------------------------------------
(* Composition: each step of the flow is a step of either part or leaves it  *)
(* alone.                                                                    *)

\* What the mutation of a publication is about.
LEMMA Announceable ==
    ASSUME ServiceProofs!IInv, NEW r \in Requests, stage[r] = "publish"
    PROVE  /\ call[r] # Null /\ call[r].op = "createComment"
           /\ EventOf(r) \in CommentAddedEvent /\ EventOf(r)[1] = r
           /\ comments[r] # Null
<1>1. /\ call[r] \in ServiceProofs!Calls /\ call[r].op = "createComment"
      /\ comments[r] # Null
  BY DEF ServiceProofs!IInv, ServiceProofs!Routed, ServiceProofs!Answered
<1>2. call[r] # Null /\ call[r].post \in ServiceProofs!PostId
  BY <1>1, ServiceConstants, ServiceProofs!CallFields
<1>3. QED
  BY <1>1, <1>2 DEF ServiceProofs!PostId, PostId, EventOf, CommentAddedEvent

\* What is not a step of a mutation leaves the service alone.
LEMMA ClientsLeaveService ==
    ASSUME NEW s \in Subs,
           \/ \E p \in Topics : CommentAdded(s, p)
           \/ Resolve(s) \/ HandOver(s) \/ Cancel(s) \/ CleanUp(s)
    PROVE  UNCHANGED serviceVars
BY DEF CommentAdded, Resolve, HandOver, Cancel, CleanUp, Local, TakeEvent, SeeClosed,
       SeeDone, LoadComment, GetCommentFails, Return

\* The mutations notice nothing of the resolvers, and of the bus only its panics.
LEMMA FlowServes == Spec => Service!Spec
<1>1. Init => Service!Init
  BY DEF Init
<1>2. [Next]_vars => [Service!Next]_(Service!vars)
  <2> SUFFICES ASSUME [Next]_vars PROVE [Service!Next]_(Service!vars)
    OBVIOUS
  <2>1. ASSUME NEW r \in Requests, Invoke(r) PROVE Service!Next
    BY <2>1 DEF Invoke, Service!Next
  <2>2. ASSUME NEW r \in Requests, Mutation(r) PROVE [Service!Next]_(Service!vars)
    BY <2>2 DEF Mutation, Serve, Publish, SendNext, PublishReturns, PublishPanics,
                Service!Next, Service!Progress, Service!Failure, serviceVars, Service!vars
  <2>3. CASE UNCHANGED serviceVars
    BY <2>3 DEF serviceVars, Service!vars
  <2>4. QED
    BY <2>1, <2>2, <2>3, ClientsLeaveService DEF Next, CloseBus, vars
<1>3. QED
  BY <1>1, <1>2, PTL DEF Spec, Service!Spec

\* A step of the flow is a step of the bus, or none: only for events of stored
\* comments, which is where the invariant of the mutations is needed.
LEMMA FlowStepBroadcasts ==
    ServiceProofs!IInv /\ [Next]_vars => [Bus!Next]_(Bus!vars)
<1> SUFFICES ASSUME ServiceProofs!IInv, [Next]_vars PROVE [Bus!Next]_(Bus!vars)
  OBVIOUS
<1>1. CASE UNCHANGED busVars
  BY <1>1 DEF busVars, registryVars, Bus!vars, Bus!registryVars
<1>2. ASSUME NEW r \in Requests, Publish(r) \/ PublishReturns(r) \/ PublishPanics(r)
      PROVE  Bus!Next
  <2>1. EventOf(r) \in CommentAddedEvent
    BY <1>2, Announceable DEF Publish, PublishReturns, PublishPanics
  <2>2. QED
    BY <1>2, <2>1 DEF Publish, PublishReturns, PublishPanics, Bus!Next, Bus!Sender
<1>3. ASSUME NEW r \in Requests, SendNext(r) PROVE Bus!Next
  BY <1>3 DEF SendNext, Bus!Next, Bus!Sender, CommentAddedEvent
<1>4. ASSUME NEW r \in Requests, Invoke(r) \/ Serve(r) PROVE UNCHANGED busVars
  BY <1>4 DEF Invoke, Serve
<1>5. ASSUME NEW s \in Subs, NEW p \in Topics, CommentAdded(s, p) PROVE Bus!Next
  BY <1>5, FlowAssumption DEF CommentAdded, Bus!Next, Bus!Client
<1>6. ASSUME NEW s \in Subs, TakeEvent(s) \/ Cancel(s) \/ CleanUp(s) PROVE Bus!Next
  BY <1>6 DEF TakeEvent, Cancel, CleanUp, Bus!Next, Bus!Client, Bus!Consumer
<1>7. ASSUME NEW s \in Subs, Return(s) PROVE Bus!Next \/ UNCHANGED busVars
  BY <1>7 DEF Return, Bus!Next, Bus!Client, busVars
<1>8. ASSUME NEW s \in Subs,
             \/ SeeClosed(s) \/ SeeDone(s) \/ LoadComment(s) \/ GetCommentFails(s)
             \/ HandOver(s)
      PROVE  UNCHANGED busVars
  BY <1>8 DEF SeeClosed, SeeDone, LoadComment, GetCommentFails, HandOver, Local
<1>9. CASE CloseBus
  BY <1>9 DEF CloseBus, Bus!Next
<1>10. CASE UNCHANGED vars
  BY <1>1, <1>10 DEF vars
<1>11. QED
  BY <1>1, <1>2, <1>3, <1>4, <1>5, <1>6, <1>7, <1>8, <1>9, <1>10
     DEF Next, Mutation, Resolve

\* The flow is its parts run together: each of its behaviours, seen from the
\* mutations, is one CommentsService allows, and, seen from the bus, one
\* MemoryBus allows; so every property of either holds of the flow.
THEOREM FlowComposes == Spec => Service!Spec /\ Bus!Spec
<1>1. Init => Bus!Init
  BY DEF Init
<1>2. Spec => [](ServiceProofs!IInv)
  BY FlowServes, ServiceHolds
<1>3. Spec => Bus!Spec
  BY <1>1, <1>2, FlowStepBroadcasts, PTL DEF Spec, Bus!Spec
<1>4. QED
  BY <1>3, FlowServes

-----------------------------------------------------------------------------
(* What relates the service to the bus.                                      *)

\* A step of a mutation before its publication: nothing it stored is changed,
\* a createComment commits with an event, and only one without is acknowledged.
LEMMA ServeSteps ==
    ASSUME ServiceProofs!IInv, NEW r \in Requests, Serve(r), stage[r] # "notify"
    PROVE  /\ stage[r] \notin {"idle", "publish", "done"} /\ stage'[r] # "notify"
           /\ call' = call
           /\ \A q \in Requests \ {r} : /\ stage'[q] = stage[q]
                                        /\ result'[q] = result[q]
                                        /\ comments'[q] = comments[q]
                                        /\ q \in afterCommit => q \in afterCommit'
           /\ stage'[r] = "commit" /\ call[r].op = "createComment" => r \in afterCommit'
           /\ result'[r] = "ok" => stage[r] = "commit" /\ r \notin afterCommit
<1>1. /\ stage \in [Requests -> ServiceProofs!Stages]
      /\ result \in [Requests -> ServiceProofs!Results]
      /\ comments \in [Requests -> ServiceProofs!Comment \cup {Null}]
  BY DEF ServiceProofs!IInv, ServiceProofs!TypeOK, ServiceProofs!CommentId
<1>2. stage[r] \notin {"done"} => result[r] # "ok"
  BY DEF ServiceProofs!IInv, ServiceProofs!Answered, ServiceProofs!Refusals
<1>3. stage[r] # "publish" /\ Service!Progress(r)
  BY DEF Serve
<1> USE DEF Service!Goto, Service!Return, Service!Abort, Service!store
<1>4. CASE Service!BeginTx(r)
  BY <1>1, <1>2, <1>4 DEF Service!BeginTx
<1>5. CASE Service!GetPost(r) \/ Service!GetParent(r)
  BY <1>1, <1>2, <1>5 DEF Service!GetPost, Service!GetParent
<1>6. CASE Service!GetPostRefused(r)
  BY <1>1, <1>2, <1>6 DEF Service!GetPostRefused, Service!GetPostRefusal
<1>7. CASE Service!GetParentRefused(r) \/ Service!WriteRefused(r)
  BY <1>1, <1>2, <1>7 DEF Service!GetParentRefused, Service!WriteRefused
<1>8. CASE Service!Write(r)
  <2>1. call[r].op \in {"createPost", "setCommentsEnabled", "createComment"}
    <3>1. call[r] \in ServiceProofs!Calls
      BY <1>8 DEF ServiceProofs!IInv, ServiceProofs!Routed, Service!Write
    <3>2. QED
      BY <3>1, ServiceConstants, ServiceProofs!CallFields
  <2>2. comments' = comments \/ comments' = [comments EXCEPT ![r] = Service!NewComment(r)]
    BY <1>8, <2>1 DEF Service!Write, Service!WriteRows
  <2>3. QED
    BY <1>1, <1>2, <1>8, <2>2 DEF Service!Write
<1>9. CASE Service!Commit(r) \/ Service!Rollback(r)
  BY <1>1, <1>2, <1>9 DEF Service!Commit, Service!Rollback
<1>10. QED
  BY <1>3, <1>4, <1>5, <1>6, <1>7, <1>8, <1>9
     DEF Service!Progress, Service!PublishInMemory, Service!AcquireForNotify,
         Service!Notify

LEMMA InvokeKeepsRoutes ==
    ASSUME ServiceProofs!IInv, BusProofs!IInv, Routes, NEW r \in Requests, Invoke(r)
    PROVE  Routes'
<1>1. /\ stage[r] = "idle" /\ stage'[r] = "begin"
      /\ result'[r] # "ok"
      /\ \A q \in Requests \ {r} : stage'[q] = stage[q] /\ call'[q] = call[q]
      /\ UNCHANGED <<comments, afterCommit, result, publication>>
  BY DEF Invoke, Service!Invoke, Service!Goto, busVars, ServiceProofs!IInv,
         ServiceProofs!TypeOK, ServiceProofs!Answered
<1>2. \A q \in Requests \ {r} : EventOf(q)' = EventOf(q)
  BY <1>1 DEF EventOf
<1>3. AnnouncedByItsMutation'
  <2> SUFFICES ASSUME NEW e \in CommentAddedEvent, publication[e] # "idle"
               PROVE  AnnouncedByItsMutation!(e)'
    BY <1>1 DEF AnnouncedByItsMutation
  <2>1. e[1] \in Requests
    BY DEF CommentAddedEvent
  <2>2. QED
    BY <1>1, <1>2, <2>1 DEF Routes, AnnouncedByItsMutation
<1>4. AcknowledgedLast'
  BY <1>1, <1>2 DEF Routes, AcknowledgedLast
<1>5. QED
  BY <1>3, <1>4 DEF Routes

LEMMA ServeKeepsRoutes ==
    ASSUME ServiceProofs!IInv, BusProofs!IInv, Routes, NEW r \in Requests, Serve(r)
    PROVE  Routes'
<1>1. /\ stage[r] \notin {"idle", "publish", "done"} /\ stage'[r] # "notify"
      /\ call' = call
      /\ \A q \in Requests \ {r} : /\ stage'[q] = stage[q]
                                   /\ result'[q] = result[q]
                                   /\ comments'[q] = comments[q]
                                   /\ q \in afterCommit => q \in afterCommit'
      /\ stage'[r] = "commit" /\ call[r].op = "createComment" => r \in afterCommit'
      /\ result'[r] = "ok" => stage[r] = "commit" /\ r \notin afterCommit
  BY ServeSteps DEF Routes, AcknowledgedLast
<1>2. UNCHANGED publication
  BY DEF Serve, busVars
<1>3. \A q \in Requests : EventOf(q)' = EventOf(q)
  BY <1>1 DEF EventOf
<1>4. AnnouncedByItsMutation'
  <2> SUFFICES ASSUME NEW e \in CommentAddedEvent, publication[e] # "idle"
               PROVE  AnnouncedByItsMutation!(e)'
    BY <1>2 DEF AnnouncedByItsMutation
  <2>1. e[1] \in Requests
    BY DEF CommentAddedEvent
  <2>2. QED
    BY <1>1, <1>2, <1>3, <2>1 DEF Routes, AnnouncedByItsMutation
<1>5. AcknowledgedLast'
  BY <1>1, <1>2, <1>3 DEF Routes, AcknowledgedLast
<1>6. QED
  BY <1>4, <1>5 DEF Routes

LEMMA PublishKeepsRoutes ==
    ASSUME ServiceProofs!IInv, BusProofs!IInv, Routes, NEW r \in Requests, Publish(r)
    PROVE  Routes'
<1>1. /\ stage[r] = "publish"
      /\ UNCHANGED <<stage, call, comments, afterCommit, result>>
      /\ publication[EventOf(r)] = "idle"
      /\ publication' = [publication EXCEPT ![EventOf(r)] = "sending"]
  BY DEF Publish, serviceVars, Bus!PublishCommentAdded, Bus!Goto
<1>2. EventOf(r) \in CommentAddedEvent /\ EventOf(r)[1] = r /\ comments[r] # Null
  BY <1>1, Announceable
<1>3. \A e \in CommentAddedEvent :
        publication'[e] = IF e = EventOf(r) THEN "sending" ELSE publication[e]
  BY <1>1, <1>2 DEF BusProofs!IInv, BusProofs!TypeOK
<1>4. \A q \in Requests : EventOf(q)' = EventOf(q)
  BY <1>1 DEF EventOf
<1>5. AnnouncedByItsMutation'
  <2> SUFFICES ASSUME NEW e \in CommentAddedEvent, publication'[e] # "idle"
               PROVE  AnnouncedByItsMutation!(e)'
    BY DEF AnnouncedByItsMutation
  <2>1. e[1] \in Requests
    BY DEF CommentAddedEvent
  <2>2. QED
    BY <1>1, <1>2, <1>3, <1>4, <2>1 DEF Routes, AnnouncedByItsMutation
<1>6. AcknowledgedLast'
  <2>1. \A q \in Requests : publication[EventOf(q)] = "returned" =>
                              publication'[EventOf(q)] = "returned"
    BY <1>1, <1>2 DEF BusProofs!IInv, BusProofs!TypeOK
  <2>2. QED
    BY <1>1, <1>4, <2>1 DEF Routes, AcknowledgedLast
<1>7. QED
  BY <1>5, <1>6 DEF Routes

\* The publication and its mutation end together.
LEMMA EndKeepsRoutes ==
    ASSUME ServiceProofs!IInv, BusProofs!IInv, Routes, NEW r \in Requests,
           PublishReturns(r) \/ PublishPanics(r)
    PROVE  Routes'
<1>1. /\ stage[r] = "publish"
      /\ UNCHANGED <<call, comments, afterCommit>>
      /\ publication[EventOf(r)] = "sending"
      /\ \E phase \in {"returned", "panicked"} :
           /\ publication' = [publication EXCEPT ![EventOf(r)] = phase]
           /\ result'[r] = "ok" => phase = "returned"
      /\ \A q \in Requests \ {r} : stage'[q] = stage[q] /\ result'[q] = result[q]
      /\ stage'[r] = "done"
  BY DEF PublishReturns, PublishPanics, Bus!PublishReturns, Bus!PublishPanics, Bus!Goto,
         Service!PublishInMemory, Service!PublishPanics, Service!Return, Service!Goto,
         Service!store, ServiceProofs!IInv, ServiceProofs!TypeOK
<1>2. EventOf(r) \in CommentAddedEvent /\ EventOf(r)[1] = r
  BY <1>1, Announceable
<1>3. PICK end \in {"returned", "panicked"} :
        /\ publication' = [publication EXCEPT ![EventOf(r)] = end]
        /\ result'[r] = "ok" => end = "returned"
  BY <1>1
<1>4. \A e \in CommentAddedEvent :
        publication'[e] = IF e = EventOf(r) THEN end ELSE publication[e]
  BY <1>2, <1>3 DEF BusProofs!IInv, BusProofs!TypeOK
<1>5. \A q \in Requests : EventOf(q)' = EventOf(q)
  BY <1>1 DEF EventOf
<1>6. AnnouncedByItsMutation'
  <2> SUFFICES ASSUME NEW e \in CommentAddedEvent, publication'[e] # "idle"
               PROVE  AnnouncedByItsMutation!(e)'
    BY DEF AnnouncedByItsMutation
  <2>1. e[1] \in Requests
    BY DEF CommentAddedEvent
  <2>2. publication[e] # "idle"
    BY <1>1, <1>2, <1>4
  <2>3. AnnouncedByItsMutation!(e)
    BY <2>2 DEF Routes, AnnouncedByItsMutation
  <2>4. QED
    BY <1>1, <1>2, <1>3, <1>4, <1>5, <2>1, <2>2, <2>3
<1>7. AcknowledgedLast'
  <2>1. \A q \in Requests \ {r} : publication[EventOf(q)] = "returned" =>
                                    publication'[EventOf(q)] = "returned"
    BY <1>1, <1>2 DEF BusProofs!IInv, BusProofs!TypeOK
  <2>2. result'[r] = "ok" => publication'[EventOf(r)] = "returned"
    BY <1>2, <1>3, <1>4
  <2>3. QED
    BY <1>1, <1>5, <2>1, <2>2 DEF Routes, AcknowledgedLast
<1>8. QED
  BY <1>6, <1>7 DEF Routes

LEMMA RoutesStay ==
    ASSUME Routes, UNCHANGED <<stage, call, comments, afterCommit, result, publication>>
    PROVE  Routes'
BY DEF Routes, AnnouncedByItsMutation, AcknowledgedLast, EventOf

-----------------------------------------------------------------------------
(* The resolvers.                                                            *)

LEMMA Prefix ==
    ASSUME NEW S, NEW a \in Seq(S), NEW b \in Seq(S)
    PROVE  \A i \in DOMAIN a : i \in DOMAIN (a \o b) /\ (a \o b)[i] = a[i]
OBVIOUS

\* An element of two sequences put together is one of the first or of the second.
LEMMA FirstOrSecond ==
    ASSUME NEW S, NEW a \in Seq(S), NEW b \in Seq(S), NEW i \in DOMAIN (a \o b)
    PROVE  \/ i \in DOMAIN a /\ (a \o b)[i] = a[i]
           \/ i - Len(a) \in DOMAIN b /\ (a \o b)[i] = b[i - Len(a)]
<1>1. i \in 1 .. Len(a) + Len(b)
  BY LenProperties
<1>2. CASE i <= Len(a)
  BY <1>1, <1>2
<1>3. CASE i > Len(a)
  BY <1>1, <1>3
<1>4. QED
  BY <1>1, <1>2, <1>3

\* What a resolver has taken: published events of its topic, none twice.
LEMMA TakenEvents ==
    ASSUME BusProofs!IInv, NEW s \in Subs
    PROVE  /\ received[s] \in Seq(CommentAddedEvent)
           /\ \A i \in DOMAIN received[s] :
                /\ received[s][i] \in CommentAddedEvent
                /\ publication[received[s][i]] # "idle"
                /\ received[s][i][2] = topic[s]
           /\ \A i, j \in DOMAIN received[s] : received[s][i] = received[s][j] => i = j
<1> DEFINE log == BusProofs!Delivered(s)
<1>1. /\ received[s] \in Seq(CommentAddedEvent)
      /\ channel[s] # Null => channel[s].buffer \in Seq(CommentAddedEvent)
  BY DEF BusProofs!IInv, BusProofs!TypeOK, BusProofs!RegistryTypeOK, BusProofs!Channel
<1>2. \A i \in DOMAIN received[s] : i \in DOMAIN log /\ log[i] = received[s][i]
  <2>1. CASE channel[s] = Null
    BY <2>1 DEF BusProofs!Delivered
  <2>2. CASE channel[s] # Null
    <3>1. log = received[s] \o channel[s].buffer
      BY <2>2 DEF BusProofs!Delivered
    <3>2. channel[s].buffer \in Seq(CommentAddedEvent)
      BY <1>1, <2>2
    <3> HIDE DEF log
    <3>3. QED
      BY <1>1, <3>1, <3>2, Prefix
  <2>3. QED
    BY <2>1, <2>2
<1>3. \A i \in DOMAIN received[s] : received[s][i] \in CommentAddedEvent
  BY <1>1
<1>4. \A i \in DOMAIN received[s] : received[s][i] \in BusProofs!Sent(s)
  BY <1>2 DEF BusProofs!Sent
<1>5. \A e \in CommentAddedEvent : e \in BusProofs!Sent(s) =>
        publication[e] # "idle" /\ e[2] = topic[s]
  BY DEF BusProofs!IInv, BusProofs!OnItsWay
<1>6. \A i, j \in DOMAIN log : log[i] = log[j] => i = j
  BY DEF BusProofs!IInv, BusProofs!NoDuplicates
<1>7. QED
  BY <1>1, <1>2, <1>3, <1>4, <1>5, <1>6

\* A step that takes no event and shows none.
LEMMA ElsewhereKeepsResolvers ==
    ASSUME Resolvers, UNCHANGED <<resolverVars, received>>, cancelled \subseteq cancelled'
    PROVE  Resolvers'
<1>1. \A s \in Subs : Handled(s)' = Handled(s)
  BY DEF Handled, HandledCount, resolverVars
<1>2. QED
  BY <1>1 DEF resolverVars, Resolvers, ResolverTypeOK, HoldsEvent, HandledOnly,
              ShownInOrder, ShownCompletely

\* A resolver that goes on between events, or leaves, the one it holds unshown,
\* when its client has left.
LEMMA GoKeepsResolvers ==
    ASSUME BusProofs!IInv, Resolvers, NEW s \in Subs, NEW place \in Places,
           place \notin {"loading", "sending"}, Goto(s, place),
           resolver[s] \notin {"loading", "sending"} \/ s \in cancelled,
           UNCHANGED <<shown, skipped, received, cancelled>>
    PROVE  Resolvers'
<1>1. received[s] \in Seq(CommentAddedEvent)
  BY TakenEvents
<1>2. /\ \A q \in Subs \ {s} : Handled(q)' = Handled(q)
      /\ Handled(s) \subseteq Handled(s)'
      /\ s \notin cancelled => Handled(s)' = Handled(s)
  BY <1>1 DEF Handled, HandledCount, Goto, Resolvers, ResolverTypeOK
<1>3. ResolverTypeOK' /\ HoldsEvent'
  BY DEF Goto, Resolvers, ResolverTypeOK, HoldsEvent
<1>4. HandledOnly'
  BY <1>2 DEF Resolvers, HandledOnly
<1>5. ShownInOrder' /\ ShownCompletely'
  BY <1>2 DEF Resolvers, ShownInOrder, ShownCompletely
<1>6. QED
  BY <1>3, <1>4, <1>5 DEF Resolvers

LEMMA TakeKeepsResolvers ==
    ASSUME BusProofs!IInv, Resolvers, NEW s \in Subs, TakeEvent(s)
    PROVE  Resolvers'
<1>1. received[s] \in Seq(CommentAddedEvent) /\ received \in [Subs -> Seq(CommentAddedEvent)]
  BY TakenEvents DEF BusProofs!IInv, BusProofs!TypeOK, BusProofs!RegistryTypeOK
<1>2. PICK e \in CommentAddedEvent : received' = [received EXCEPT ![s] = Append(@, e)]
  <2>1. channel[s].buffer \in Seq(CommentAddedEvent) /\ channel[s].buffer # <<>>
    BY DEF TakeEvent, Bus!Receive, BusProofs!IInv, BusProofs!TypeOK,
           BusProofs!RegistryTypeOK, BusProofs!Channel
  <2>2. Head(channel[s].buffer) \in CommentAddedEvent
    BY <2>1, HeadTailProperties
  <2>3. QED
    BY <2>2 DEF TakeEvent, Bus!Receive
<1>3. /\ resolver[s] = "waiting" /\ resolver' = [resolver EXCEPT ![s] = "loading"]
      /\ UNCHANGED <<shown, skipped, cancelled>>
  BY DEF TakeEvent, Bus!Receive, Goto
<1>4. /\ Len(received'[s]) = Len(received[s]) + 1
      /\ \A i \in 1..Len(received[s]) : received'[s][i] = received[s][i]
      /\ \A q \in Subs \ {s} : received'[q] = received[q]
  BY <1>1, <1>2
<1>5. \A q \in Subs : Handled(q)' = Handled(q)
  <2>1. \A q \in Subs \ {s} : Handled(q)' = Handled(q)
    BY <1>3, <1>4 DEF Handled, HandledCount, Resolvers, ResolverTypeOK
  <2>2. HandledCount(s) = Len(received[s]) /\ HandledCount(s)' = Len(received[s])
    BY <1>1, <1>3, <1>4 DEF HandledCount, Resolvers, ResolverTypeOK
  <2>3. Handled(s)' = Handled(s)
    BY <1>4, <2>2 DEF Handled
  <2>4. QED
    BY <2>1, <2>3
<1>6. ResolverTypeOK' /\ HoldsEvent'
  <2>1. received'[s] # <<>>
    BY <1>1, <1>4
  <2>2. QED
    BY <1>3, <1>4, <2>1 DEF Resolvers, ResolverTypeOK, HoldsEvent, Places
<1>7. HandledOnly' /\ ShownCompletely'
  BY <1>3, <1>5 DEF Resolvers, HandledOnly, ShownCompletely
<1>8. ShownInOrder'
  <2>1. \A q \in Subs : \A i \in DOMAIN received[q] :
          i \in DOMAIN received'[q] /\ received'[q][i] = received[q][i]
    BY <1>1, <1>2, <1>4
  <2>2. QED
    BY <1>3, <2>1 DEF Resolvers, ShownInOrder
<1>9. QED
  BY <1>6, <1>7, <1>8 DEF Resolvers

\* What changes when a resolver is through with the event it holds.
LEMMA FinishedEvent ==
    ASSUME BusProofs!IInv, Resolvers, NEW s \in Subs,
           resolver[s] \in {"loading", "sending"}, Goto(s, "waiting"),
           UNCHANGED received
    PROVE  /\ Event(s) \in CommentAddedEvent
           /\ Len(received[s]) \in DOMAIN received[s]
           /\ Handled(s)' = Handled(s) \cup {Event(s)}
           /\ Event(s) \notin Handled(s)
           /\ \A q \in Subs \ {s} : Handled(q)' = Handled(q)
           /\ \A e \in Handled(s) : \E a \in 1..(Len(received[s]) - 1) : e = received[s][a]
           /\ resolver' \in [Subs -> Places] /\ HoldsEvent'
<1>1. /\ received[s] \in Seq(CommentAddedEvent) /\ received[s] # <<>>
      /\ \A i, j \in DOMAIN received[s] : received[s][i] = received[s][j] => i = j
  BY TakenEvents DEF Resolvers, HoldsEvent
<1>2. /\ Len(received[s]) \in Nat \ {0} /\ DOMAIN received[s] = 1..Len(received[s])
      /\ Event(s) \in CommentAddedEvent
  BY <1>1 DEF Event
<1>3. HandledCount(s) = Len(received[s]) - 1
  BY DEF HandledCount
<1>4. HandledCount(s)' = Len(received[s])
  BY DEF HandledCount, Goto, Resolvers, ResolverTypeOK
<1>5. Handled(s)' = Handled(s) \cup {Event(s)}
  BY <1>2, <1>3, <1>4 DEF Handled, Event
<1>6. Event(s) \notin Handled(s)
  BY <1>1, <1>2, <1>3 DEF Handled, Event
<1>7. \A q \in Subs \ {s} : Handled(q)' = Handled(q)
  BY DEF Handled, HandledCount, Goto, Resolvers, ResolverTypeOK
<1>8. resolver' \in [Subs -> Places] /\ HoldsEvent'
  BY DEF Resolvers, ResolverTypeOK, HoldsEvent, Goto, Places
<1>9. \A e \in Handled(s) : \E a \in 1..(Len(received[s]) - 1) : e = received[s][a]
  BY <1>3 DEF Handled
<1>10. QED
  BY <1>2, <1>5, <1>6, <1>7, <1>8, <1>9

LEMMA SkipKeepsResolvers ==
    ASSUME BusProofs!IInv, Resolvers, NEW s \in Subs, s \in Faulty,
           resolver[s] = "loading", Goto(s, "waiting"),
           skipped' = [skipped EXCEPT ![s] = @ \cup {Event(s)}],
           UNCHANGED <<shown, received, cancelled>>
    PROVE  Resolvers'
<1>1. /\ Event(s) \in CommentAddedEvent
      /\ Handled(s)' = Handled(s) \cup {Event(s)}
      /\ Event(s) \notin Handled(s)
      /\ \A q \in Subs \ {s} : Handled(q)' = Handled(q)
      /\ resolver' \in [Subs -> Places] /\ HoldsEvent'
  BY FinishedEvent
<1>2. /\ skipped'[s] = skipped[s] \cup {Event(s)}
      /\ \A q \in Subs \ {s} : skipped'[q] = skipped[q]
  BY DEF Resolvers, ResolverTypeOK
<1>3. ResolverTypeOK'
  BY <1>1 DEF Resolvers, ResolverTypeOK
<1>4. HandledOnly'
  BY <1>1, <1>2 DEF Resolvers, HandledOnly
<1>5. ShownInOrder'
  BY DEF Resolvers, ShownInOrder
<1>6. ShownCompletely'
  BY <1>1, <1>2 DEF Resolvers, ShownCompletely
<1>7. QED
  BY <1>1, <1>3, <1>4, <1>5, <1>6 DEF Resolvers

LEMMA HandOverKeepsResolvers ==
    ASSUME BusProofs!IInv, Resolvers, NEW s \in Subs, HandOver(s),
           UNCHANGED <<received, cancelled>>
    PROVE  Resolvers'
<1>1. /\ Event(s) \in CommentAddedEvent
      /\ Len(received[s]) \in DOMAIN received[s]
      /\ Handled(s)' = Handled(s) \cup {Event(s)}
      /\ Event(s) \notin Handled(s)
      /\ \A q \in Subs \ {s} : Handled(q)' = Handled(q)
      /\ \A e \in Handled(s) : \E a \in 1..(Len(received[s]) - 1) : e = received[s][a]
      /\ resolver' \in [Subs -> Places] /\ HoldsEvent'
  BY FinishedEvent DEF HandOver
<1>2. /\ shown[s] \in Seq(CommentAddedEvent)
      /\ shown' = [shown EXCEPT ![s] = Append(shown[s], Event(s))]
      /\ UNCHANGED skipped
  BY DEF HandOver, Resolvers, ResolverTypeOK
<1>3. /\ DOMAIN shown'[s] = 1..(Len(shown[s]) + 1) /\ Len(shown[s]) \in Nat
      /\ DOMAIN shown[s] = 1..Len(shown[s])
      /\ \A i \in DOMAIN shown[s] : shown'[s][i] = shown[s][i]
      /\ shown'[s][Len(shown[s]) + 1] = Event(s)
      /\ \A q \in Subs \ {s} : shown'[q] = shown[q]
  BY <1>1, <1>2 DEF Resolvers, ResolverTypeOK
<1>4. ResolverTypeOK'
  BY <1>1, <1>2 DEF Resolvers, ResolverTypeOK
<1>5. HandledOnly'
  BY <1>1, <1>2, <1>3 DEF Resolvers, HandledOnly
<1>6. ShownInOrder'
  <2>1. ASSUME NEW i \in DOMAIN shown'[s], NEW j \in DOMAIN shown'[s], i < j
        PROVE  \E a, b \in DOMAIN received[s] : /\ a < b
                                                /\ received[s][a] = shown'[s][i]
                                                /\ received[s][b] = shown'[s][j]
    <3>1. i \in DOMAIN shown[s] /\ shown'[s][i] = shown[s][i]
      BY <1>3, <2>1
    <3>2. CASE j \in DOMAIN shown[s]
      BY <1>3, <2>1, <3>1, <3>2 DEF Resolvers, ShownInOrder
    <3>3. CASE j = Len(shown[s]) + 1
      <4>1. PICK a \in 1..(Len(received[s]) - 1) : shown[s][i] = received[s][a]
        BY <1>1, <3>1 DEF Resolvers, HandledOnly
      <4>2. a \in DOMAIN received[s] /\ a < Len(received[s])
        BY <1>1, TakenEvents
      <4>3. received[s][Len(received[s])] = shown'[s][j]
        BY <1>3, <3>3 DEF Event
      <4>4. QED
        BY <1>1, <3>1, <4>1, <4>2, <4>3
    <3>4. QED
      BY <1>3, <2>1, <3>2, <3>3
  <2>2. ASSUME NEW q \in Subs \ {s}
        PROVE  \A i, j \in DOMAIN shown'[q] : i < j =>
                 \E a, b \in DOMAIN received[q] : /\ a < b
                                                 /\ received[q][a] = shown'[q][i]
                                                 /\ received[q][b] = shown'[q][j]
    BY <1>3 DEF Resolvers, ShownInOrder
  <2>3. received' = received
    OBVIOUS
  <2>4. QED
    BY <2>1, <2>2, <2>3 DEF ShownInOrder
<1>7. ShownCompletely'
  <2>1. {shown'[s][i] : i \in DOMAIN shown'[s]} =
          {shown[s][i] : i \in DOMAIN shown[s]} \cup {Event(s)}
    BY <1>3
  <2>2. Event(s) \notin skipped[s]
    BY <1>1 DEF Resolvers, HandledOnly
  <2>3. QED
    BY <1>1, <1>2, <1>3, <2>1, <2>2 DEF Resolvers, ShownCompletely
<1>8. QED
  BY <1>1, <1>4, <1>5, <1>6, <1>7 DEF Resolvers

\* The comment of an event that was announced is there to be loaded.
LEMMA AnnouncedIsThere ==
    ASSUME BusProofs!IInv, Routes, Resolvers, NEW s \in Subs, LoadComment(s)
    PROVE  comments[Event(s)[1]] # Null
<1>1. received[s] \in Seq(CommentAddedEvent) /\ received[s] # <<>>
  BY TakenEvents DEF LoadComment, Resolvers, HoldsEvent
<1>2. Len(received[s]) \in DOMAIN received[s]
  BY <1>1
<1>3. Event(s) \in CommentAddedEvent /\ publication[Event(s)] # "idle"
  BY <1>2, TakenEvents DEF Event
<1>4. QED
  BY <1>3 DEF Routes, AnnouncedByItsMutation

LEMMA LoadKeepsResolvers ==
    ASSUME BusProofs!IInv, Routes, Resolvers, NEW s \in Subs, LoadComment(s)
    PROVE  Resolvers'
<1>1. /\ resolver[s] = "loading"
      /\ UNCHANGED <<shown, received, cancelled>>
  BY DEF LoadComment, Local, busVars, registryVars
<1>2. comments[Event(s)[1]] # Null
  BY AnnouncedIsThere
<1>3. resolver' = [resolver EXCEPT ![s] = "sending"] /\ skipped' = skipped
  BY <1>2 DEF LoadComment, Goto
<1>4. \A q \in Subs : Handled(q)' = Handled(q)
  BY <1>1, <1>3 DEF Handled, HandledCount, Resolvers, ResolverTypeOK
<1>5. ResolverTypeOK' /\ HoldsEvent'
  BY <1>1, <1>3 DEF Resolvers, ResolverTypeOK, HoldsEvent, Places
<1>6. HandledOnly' /\ ShownInOrder' /\ ShownCompletely'
  BY <1>1, <1>3, <1>4 DEF Resolvers, HandledOnly, ShownInOrder, ShownCompletely
<1>7. QED
  BY <1>5, <1>6 DEF Resolvers

\* Mutations leave the resolvers alone, and what they have taken.
LEMMA MutationsLeaveResolvers ==
    ASSUME NEW r \in Requests, Invoke(r) \/ Mutation(r)
    PROVE  UNCHANGED <<resolverVars, received, cancelled>>
<1>1. CASE Invoke(r) \/ Serve(r)
  BY <1>1 DEF Invoke, Serve, busVars, registryVars
<1>2. CASE Publish(r) \/ SendNext(r)
  BY <1>2 DEF Publish, SendNext, Bus!PublishCommentAdded, Bus!TakeTargets,
              Bus!SendNext, Bus!Send
<1>3. CASE PublishReturns(r) \/ PublishPanics(r)
  BY <1>3 DEF PublishReturns, PublishPanics, Bus!PublishReturns, Bus!PublishPanics,
              Bus!SendPanics, Bus!registryVars
<1>4. QED
  BY <1>1, <1>2, <1>3 DEF Mutation

LEMMA MutationKeeps ==
    ASSUME ServiceProofs!IInv, BusProofs!IInv, Routes, Resolvers,
           NEW r \in Requests, Invoke(r) \/ Mutation(r)
    PROVE  Routes' /\ Resolvers'
<1>1. Routes'
  <2>1. CASE SendNext(r)
    BY <2>1, RoutesStay DEF SendNext, Bus!SendNext, serviceVars
  <2>2. QED
    BY <2>1, InvokeKeepsRoutes, ServeKeepsRoutes, PublishKeepsRoutes, EndKeepsRoutes
       DEF Mutation
<1>2. UNCHANGED <<resolverVars, received, cancelled>>
  BY MutationsLeaveResolvers
<1>3. QED
  BY <1>1, <1>2, ElsewhereKeepsResolvers

LEMMA SubscriptionKeeps ==
    ASSUME ServiceProofs!IInv, BusProofs!IInv, Routes, Resolvers, NEW s \in Subs,
           \/ \E p \in Topics : CommentAdded(s, p)
           \/ Resolve(s) \/ HandOver(s) \/ Cancel(s) \/ CleanUp(s)
    PROVE  Routes' /\ Resolvers'
<1>1. Routes'
  <2>1. UNCHANGED publication
    BY DEF CommentAdded, Resolve, HandOver, Cancel, CleanUp, Bus!Cleaner, Local, TakeEvent,
           SeeClosed, SeeDone, LoadComment, GetCommentFails, Return, busVars
  <2>2. QED
    BY <2>1, ClientsLeaveService, RoutesStay DEF serviceVars
<1>2. CASE \E p \in Topics : CommentAdded(s, p)
  BY <1>1, <1>2, GoKeepsResolvers DEF CommentAdded, Bus!Subscribe, Places
<1>3. CASE TakeEvent(s)
  BY <1>1, <1>3, TakeKeepsResolvers
<1>4. CASE SeeClosed(s) \/ SeeDone(s)
  BY <1>1, <1>4, GoKeepsResolvers
     DEF SeeClosed, SeeDone, Local, busVars, registryVars, Places
<1>5. CASE LoadComment(s)
  BY <1>1, <1>5, LoadKeepsResolvers
<1>6. CASE GetCommentFails(s)
  BY <1>1, <1>6, SkipKeepsResolvers DEF GetCommentFails, Local, busVars, registryVars
<1>7. CASE Return(s)
  BY <1>1, <1>7, GoKeepsResolvers DEF Return, Bus!Unsubscribe, registryVars, Places
<1>8. CASE HandOver(s)
  BY <1>1, <1>8, HandOverKeepsResolvers DEF HandOver, Local, busVars, registryVars
<1>9. CASE Cancel(s) \/ CleanUp(s)
  BY <1>1, <1>9, ElsewhereKeepsResolvers
     DEF Cancel, CleanUp, Bus!Cancel, Bus!Cleaner, Bus!CleanUp, Bus!Unsubscribe
<1>10. QED
  BY <1>1, <1>2, <1>3, <1>4, <1>5, <1>6, <1>7, <1>8, <1>9 DEF Resolve

LEMMA IInvHolds == Spec => []IInv
<1>1. Spec => []ServiceProofs!IInv
  BY FlowServes, ServiceHolds
<1>2. Spec => []BusProofs!IInv
  BY FlowComposes, BusHolds
<1>3. Init => Routes /\ Resolvers
  <2> SUFFICES ASSUME Init PROVE Routes /\ Resolvers
    OBVIOUS
  <2> USE DEF Init, Service!Init, Bus!Init
  <2>1. Routes
    BY DEF Routes, AnnouncedByItsMutation, AcknowledgedLast
  <2>2. ResolverTypeOK /\ HoldsEvent
    BY DEF ResolverTypeOK, HoldsEvent, Places
  <2>3. HandledOnly /\ ShownInOrder
    BY DEF HandledOnly, ShownInOrder
  <2>4. ShownCompletely
    BY DEF ShownCompletely, Bus!RegistryInit, Handled, HandledCount
  <2>5. QED
    BY <2>1, <2>2, <2>3, <2>4 DEF Resolvers
<1>4. /\ ServiceProofs!IInv /\ BusProofs!IInv
      /\ Routes /\ Resolvers /\ [Next]_vars
      => Routes' /\ Resolvers'
  <2> SUFFICES ASSUME ServiceProofs!IInv, BusProofs!IInv, Routes, Resolvers, [Next]_vars
               PROVE  Routes' /\ Resolvers'
    OBVIOUS
  <2>1. CASE CloseBus
    BY <2>1, RoutesStay, ElsewhereKeepsResolvers DEF CloseBus, Bus!Close, serviceVars
  <2>2. CASE UNCHANGED vars
    BY <2>2, RoutesStay, ElsewhereKeepsResolvers
       DEF vars, serviceVars, busVars, registryVars
  <2>3. QED
    BY <2>1, <2>2, MutationKeeps, SubscriptionKeeps DEF Next
<1>5. QED
  BY <1>1, <1>2, <1>3, <1>4, PTL DEF Spec, IInv

-----------------------------------------------------------------------------
\* The variables of the mutations, the bus and the resolvers always have their
\* types.
THEOREM TypeCorrect == Spec => []TypeOK
<1>1. IInv => TypeOK
  BY ServiceInvariants, BusInvariants DEF IInv, Resolvers, ResolverTypeOK, TypeOK
<1>2. QED
  BY <1>1, IInvHolds, PTL

\* Once createComment is acknowledged, its event has been sent to everybody it
\* was published for, and until it is shown or cannot be read it stays with the
\* resolver or in the channel of each client that stays and whose buffer had room.
THEOREM AcknowledgedIsNotLostHolds == Spec => []AcknowledgedIsNotLost
<1>1. IInv => AcknowledgedIsNotLost
  <2> SUFFICES ASSUME IInv, NEW r \in Requests, result[r] = "ok",
                      call[r].op = "createComment"
               PROVE  /\ publication[EventOf(r)] = "returned"
                      /\ \A s \in audience[EventOf(r)] \ (lagged \cup cancelled) :
                            Holds(s, EventOf(r))
    BY DEF AcknowledgedIsNotLost
  <2> DEFINE e == EventOf(r)
  <2>1. call[r] # Null /\ e \in CommentAddedEvent
    <3>1. stage[r] # "idle"
      BY DEF IInv, ServiceProofs!IInv, ServiceProofs!Answered
    <3>2. call[r] \in ServiceProofs!Calls
      BY <3>1 DEF IInv, ServiceProofs!IInv, ServiceProofs!Routed
    <3>3. call[r] # Null /\ call[r].post \in ServiceProofs!PostId
      BY <3>2, ServiceConstants, ServiceProofs!CallFields
    <3>4. QED
      BY <3>3 DEF ServiceProofs!PostId, PostId, EventOf, CommentAddedEvent
  <2>2. publication[e] = "returned"
    BY <2>1 DEF IInv, Routes, AcknowledgedLast
  <2>3. ASSUME NEW s \in audience[e] \ (lagged \cup cancelled)
        PROVE  Holds(s, e)
    <3>1. /\ s \in Subs /\ channel[s] # Null
          /\ e \in BusProofs!Sent(s)
      BY <2>1, <2>2, <2>3 DEF IInv, BusProofs!IInv, BusProofs!TypeOK,
         BusProofs!OnItsWay, BusProofs!Served
    <3>2. /\ received[s] \in Seq(CommentAddedEvent)
          /\ channel[s].buffer \in Seq(CommentAddedEvent)
      BY <3>1 DEF IInv, BusProofs!IInv, BusProofs!TypeOK, BusProofs!RegistryTypeOK,
         BusProofs!Channel
    <3>3. PICK i \in DOMAIN (received[s] \o channel[s].buffer) :
            (received[s] \o channel[s].buffer)[i] = e
      BY <3>1 DEF BusProofs!Sent, BusProofs!Delivered
    <3>4. CASE i \in DOMAIN received[s] /\ received[s][i] = e
      <4>1. received[s][i] = e
        BY <3>4
      <4>2. CASE i <= HandledCount(s)
        <5>1. i \in 1..HandledCount(s)
          BY <3>2, <3>4, <4>2
        <5>2. e \in Handled(s)
          BY <4>1, <5>1 DEF Handled
        <5>3. QED
          BY <2>3, <3>1, <5>2 DEF IInv, Resolvers, ShownCompletely, Holds
      <4>3. CASE ~(i <= HandledCount(s))
        <5>1. resolver[s] \in {"loading", "sending"} /\ i = Len(received[s])
          BY <3>2, <3>4, <4>3 DEF HandledCount
        <5>2. QED
          BY <4>1, <5>1 DEF Event, Holds
      <4>4. QED
        BY <4>2, <4>3
    <3>5. CASE /\ i - Len(received[s]) \in DOMAIN channel[s].buffer
               /\ channel[s].buffer[i - Len(received[s])] = e
      BY <3>5 DEF Holds
    <3>6. \/ /\ i \in DOMAIN received[s]
             /\ (received[s] \o channel[s].buffer)[i] = received[s][i]
          \/ /\ i - Len(received[s]) \in DOMAIN channel[s].buffer
             /\ (received[s] \o channel[s].buffer)[i]
                  = channel[s].buffer[i - Len(received[s])]
      <4> DEFINE a == received[s]
                 b == channel[s].buffer
      <4>1. a \in Seq(CommentAddedEvent) /\ b \in Seq(CommentAddedEvent) /\ i \in DOMAIN (a \o b)
        BY <3>2
      <4> HIDE DEF a, b
      <4>2. \/ i \in DOMAIN a /\ (a \o b)[i] = a[i]
            \/ i - Len(a) \in DOMAIN b /\ (a \o b)[i] = b[i - Len(a)]
        BY <4>1, FirstOrSecond, ZenonT(60)
      <4>3. QED
        BY <4>2 DEF a, b
    <3>7. QED
      BY <3>3, <3>4, <3>5, <3>6
  <2>4. QED
    BY <2>2, <2>3
<1>2. QED
  BY <1>1, IInvHolds, PTL

\* A client is shown the stored comments of its post, in the order of the bus,
\* each once, and misses none that its subscription was delivered and that could
\* be read.
THEOREM ShownFaithfullyHolds == Spec => []ShownFaithfully
<1>1. IInv => ShownFaithfully
  <2> SUFFICES ASSUME IInv, NEW s \in Subs PROVE ShownFaithfully!(s)
    BY DEF ShownFaithfully
  <2>1. /\ received[s] \in Seq(CommentAddedEvent)
        /\ \A i \in DOMAIN received[s] :
             /\ received[s][i] \in CommentAddedEvent
             /\ publication[received[s][i]] # "idle"
             /\ received[s][i][2] = topic[s]
        /\ \A i, j \in DOMAIN received[s] : received[s][i] = received[s][j] => i = j
    BY TakenEvents DEF IInv
  <2>2. ASSUME NEW i \in DOMAIN shown[s]
        PROVE  /\ comments[shown[s][i][1]] # Null
               /\ comments[shown[s][i][1]].post = topic[s]
    <3>1. PICK k \in 1..HandledCount(s) : shown[s][i] = received[s][k]
      BY DEF IInv, Resolvers, HandledOnly, Handled
    <3>2. k \in DOMAIN received[s]
      BY <2>1 DEF HandledCount
    <3> DEFINE e == received[s][k]
    <3>3. /\ e \in CommentAddedEvent /\ e[1] \in Requests /\ e[2] = topic[s]
          /\ e = EventOf(e[1]) /\ comments[e[1]] # Null
      BY <2>1, <3>2 DEF IInv, Routes, AnnouncedByItsMutation, CommentAddedEvent
    <3>4. comments[e[1]].post = call[e[1]].post
      <4>1. comments[e[1]] = ServiceProofs!NewComment(e[1])
        BY <3>3 DEF IInv, ServiceProofs!IInv, ServiceProofs!Owned
      <4>2. QED
        BY <4>1 DEF ServiceProofs!NewComment
    <3>5. QED
      BY <3>1, <3>3, <3>4 DEF EventOf
  <2>3. ShownInOrder!(s) /\ ShownCompletely!(s)
    BY DEF IInv, Resolvers, ShownInOrder, ShownCompletely
  <2>4. \A i, j \in DOMAIN shown[s] : shown[s][i] = shown[s][j] => i = j
    <3> SUFFICES ASSUME NEW i \in DOMAIN shown[s], NEW j \in DOMAIN shown[s],
                        shown[s][i] = shown[s][j], i < j
                 PROVE  FALSE
      <4>1. shown[s] \in Seq(CommentAddedEvent)
        BY DEF IInv, Resolvers, ResolverTypeOK
      <4>2. \A i, j \in DOMAIN shown[s] : i < j \/ j < i \/ i = j
        BY <4>1
      <4>3. QED
        BY <4>2
    <3>1. PICK a \in DOMAIN received[s], b \in DOMAIN received[s] :
            a < b /\ received[s][a] = shown[s][i] /\ received[s][b] = shown[s][j]
      BY <2>3
    <3>2. QED
      BY <2>1, <3>1
  <2>5. QED
    BY <2>2, <2>3, <2>4
<1>2. QED
  BY <1>1, IInvHolds, PTL

-----------------------------------------------------------------------------
\* A resolver that waits before an empty channel has seen to every acknowledged
\* comment whose publication found it: its client was shown the comment, or it
\* could not be read, or the buffer was full.  AcknowledgedAreShown is the promise
\* that such a state is reached.
IdleResolversOweNothing ==
    \A e \in CommentAddedEvent, s \in Subs :
        /\ result[e[1]] = "ok" /\ s \in audience[e]
        /\ s \notin cancelled
        /\ resolver[s] = "waiting" /\ channel[s].buffer = <<>>
        => \/ \E i \in DOMAIN shown[s] : shown[s][i] = e
           \/ e \in skipped[s]
           \/ s \in lagged

\* From the answer of createComment to the client of a subscription nothing is
\* lost on the way but what the code says it drops.
THEOREM IdleResolversHold == Spec => []IdleResolversOweNothing
<1>1. IInv /\ AcknowledgedIsNotLost => IdleResolversOweNothing
  <2> SUFFICES ASSUME IInv, AcknowledgedIsNotLost,
                      NEW e \in CommentAddedEvent, NEW s \in Subs,
                      result[e[1]] = "ok", s \in audience[e], s \notin cancelled,
                      resolver[s] = "waiting", channel[s].buffer = <<>>, s \notin lagged
               PROVE  (\E i \in DOMAIN shown[s] : shown[s][i] = e) \/ e \in skipped[s]
    BY DEF IdleResolversOweNothing
  <2>1. publication[e] # "idle"
    BY DEF IInv, BusProofs!IInv, BusProofs!OnItsWay
  <2>2. e[1] \in Requests /\ e = EventOf(e[1]) /\ comments[e[1]] # Null
    BY <2>1 DEF IInv, Routes, AnnouncedByItsMutation, CommentAddedEvent
  <2>3. call[e[1]].op = "createComment"
    BY <2>2 DEF IInv, ServiceProofs!IInv, ServiceProofs!Owned
  <2>4. Holds(s, e)
    BY <2>2, <2>3 DEF AcknowledgedIsNotLost
  <2>5. QED
    BY <2>4 DEF Holds
<1>2. QED
  BY <1>1, IInvHolds, AcknowledgedIsNotLostHolds, PTL

-----------------------------------------------------------------------------
(* The refinement: the flow is a CommentFeed for the clients.                *)

\* A client has taken what its resolver is through with, but for the event that a
\* resolver dropped when its client left.
Accounted ==
    \A s \in Subs :
        /\ IsFiniteSet(skipped[s])
        /\ \/ TakenByClient(s) = HandledCount(s)
           \/ resolver[s] \in {"closing", "done"} /\ TakenByClient(s) = HandledCount(s) - 1

\* The sizes that are compared.
LEMMA Counts ==
    ASSUME BusProofs!IInv, Resolvers, Accounted, NEW s \in Subs
    PROVE  /\ Len(received[s]) \in Nat /\ Len(shown[s]) \in Nat
           /\ Cardinality(skipped[s]) \in Nat
           /\ TakenByClient(s) \in Nat
           /\ Len(received[s]) <= TakenByClient(s) + 1
           /\ resolver[s] \in {"loading", "sending"} =>
                TakenByClient(s) + 1 = Len(received[s])
<1>1. /\ received[s] \in Seq(CommentAddedEvent) /\ shown[s] \in Seq(CommentAddedEvent)
  BY TakenEvents DEF Resolvers, ResolverTypeOK
<1>2. Len(received[s]) \in Nat /\ Len(shown[s]) \in Nat
  BY <1>1
<1>3. Cardinality(skipped[s]) \in Nat
  BY FS_CardinalityType DEF Accounted
<1>4. TakenByClient(s) \in Nat
  BY <1>2, <1>3 DEF TakenByClient
<1>5. \/ TakenByClient(s) = HandledCount(s)
      \/ resolver[s] \in {"closing", "done"} /\ TakenByClient(s) = HandledCount(s) - 1
  BY DEF Accounted
<1>6. QED
  BY <1>2, <1>3, <1>4, <1>5 DEF HandledCount

LEMMA ConcatIsLonger ==
    ASSUME NEW S, NEW a \in Seq(S), NEW b \in Seq(S)
    PROVE  Len(a \o b) \in Nat /\ Len(a) <= Len(a \o b)
<1>1. Len(a \o b) = Len(a) + Len(b)
  OBVIOUS
<1>2. \A m, n \in Nat : m + n \in Nat /\ m <= m + n
  OBVIOUS
<1>3. Len(a) \in Nat /\ Len(b) \in Nat
  OBVIOUS
<1>4. QED
  BY <1>1, <1>2, <1>3

\* What a consumer has taken is part of what its channel was sent.
LEMMA DeliveredHoldsReceived ==
    ASSUME BusProofs!IInv, NEW s \in Subs
    PROVE  /\ Len(BusProofs!Delivered(s)) \in Nat
           /\ Len(received[s]) <= Len(BusProofs!Delivered(s))
<1>1. /\ received[s] \in Seq(CommentAddedEvent)
      /\ channel[s] # Null => channel[s].buffer \in Seq(CommentAddedEvent)
  BY DEF BusProofs!IInv, BusProofs!TypeOK, BusProofs!RegistryTypeOK, BusProofs!Channel
<1>2. CASE channel[s] = Null
  BY <1>1, <1>2 DEF BusProofs!Delivered
<1>3. CASE channel[s] # Null
  <2>1. BusProofs!Delivered(s) = received[s] \o channel[s].buffer
    BY <1>3 DEF BusProofs!Delivered
  <2>2. channel[s].buffer \in Seq(CommentAddedEvent)
    BY <1>1, <1>3
  <2>3. QED
    BY <1>1, <2>1, <2>2, ConcatIsLonger
<1>4. QED
  BY <1>2, <1>3

\* Of the accounts only that of one subscription can change in a step.
LEMMA AccountsOfOthers ==
    ASSUME Accounted, NEW s \in Subs, NEW q \in Subs,
           /\ resolver'[q] = resolver[q] /\ shown'[q] = shown[q]
           /\ skipped'[q] = skipped[q] /\ Len(received'[q]) = Len(received[q])
    PROVE  Accounted!(q)' /\ TakenByClient(q)' = TakenByClient(q)
BY DEF Accounted, TakenByClient, HandledCount

\* Steps that take no event and show none.
LEMMA ElsewhereKeepsAccounts ==
    ASSUME Accounted, UNCHANGED <<resolverVars, received>>
    PROVE  Accounted' /\ \A q \in Subs : TakenByClient(q)' = TakenByClient(q)
<1>1. \A q \in Subs : Accounted!(q)' /\ TakenByClient(q)' = TakenByClient(q)
  BY AccountsOfOthers DEF resolverVars
<1>2. QED
  BY <1>1 DEF Accounted

\* Steps of a resolver that leave its client as it is.
LEMMA GoKeepsAccounts ==
    ASSUME BusProofs!IInv, Resolvers, Accounted, NEW s \in Subs, NEW place \in Places,
           Goto(s, place), UNCHANGED <<shown, skipped, received>>,
           \/ resolver[s] = "loading" /\ place = "sending"
           \/ resolver[s] \in {"none", "waiting"} /\ place \in {"waiting", "closing"}
           \/ resolver[s] = "sending" /\ place = "closing"
           \/ resolver[s] = "closing" /\ place = "done"
    PROVE  Accounted' /\ \A q \in Subs : TakenByClient(q)' = TakenByClient(q)
<1>1. resolver'[s] = place /\ \A q \in Subs \ {s} : resolver'[q] = resolver[q]
  BY DEF Goto, Resolvers, ResolverTypeOK
<1>2. \A q \in Subs \ {s} : Accounted!(q)'
  BY <1>1, AccountsOfOthers
<1>3. \A q \in Subs : TakenByClient(q)' = TakenByClient(q)
  BY DEF TakenByClient
<1>4. IsFiniteSet(skipped'[s])
  BY DEF Accounted
<1>5. Accounted!(s)
  BY DEF Accounted
<1>6. Len(received[s]) \in Nat /\ received' = received
  BY Counts
<1>7. Accounted!(s)'
  BY <1>1, <1>3, <1>4, <1>5, <1>6 DEF HandledCount
<1>8. QED
  BY <1>2, <1>3, <1>7 DEF Accounted

LEMMA TakeKeepsAccounts ==
    ASSUME BusProofs!IInv, Resolvers, Accounted, NEW s \in Subs, TakeEvent(s),
           \A q \in Subs :
             Len(received'[q]) = IF q = s THEN Len(received[s]) + 1 ELSE Len(received[q])
    PROVE  Accounted' /\ \A q \in Subs : TakenByClient(q)' = TakenByClient(q)
<1>1. /\ resolver[s] = "waiting" /\ resolver'[s] = "loading"
      /\ \A q \in Subs \ {s} : resolver'[q] = resolver[q]
      /\ UNCHANGED <<shown, skipped>>
  BY DEF TakeEvent, Goto, Resolvers, ResolverTypeOK
<1>2. \A q \in Subs \ {s} : Accounted!(q)'
  BY <1>1, AccountsOfOthers
<1>3. \A q \in Subs : TakenByClient(q)' = TakenByClient(q)
  BY <1>1 DEF TakenByClient
<1>4. Accounted!(s) /\ Len(received[s]) \in Nat
  BY Counts DEF Accounted
<1>5. Accounted!(s)'
  BY <1>1, <1>3, <1>4 DEF HandledCount
<1>6. QED
  BY <1>2, <1>3, <1>5 DEF Accounted

\* A resolver that is through with an event has given its client one more.
LEMMA FinishedCounts ==
    ASSUME BusProofs!IInv, Resolvers, Accounted, NEW s \in Subs,
           resolver[s] \in {"loading", "sending"}, Goto(s, "waiting"), UNCHANGED received,
           \/ /\ shown' = [shown EXCEPT ![s] = Append(@, Event(s))]
              /\ skipped' = skipped
           \/ /\ skipped' = [skipped EXCEPT ![s] = @ \cup {Event(s)}]
              /\ shown' = shown
    PROVE  /\ Accounted'
           /\ \A q \in Subs : TakenByClient(q)' =
                IF q = s THEN TakenByClient(q) + 1 ELSE TakenByClient(q)
<1>1. /\ Event(s) \in CommentAddedEvent /\ Event(s) \notin Handled(s)
      /\ resolver'[s] = "waiting"
      /\ \A q \in Subs \ {s} : resolver'[q] = resolver[q]
  BY FinishedEvent DEF Goto, Resolvers, ResolverTypeOK
<1>2. /\ Len(received[s]) \in Nat /\ Len(shown[s]) \in Nat
      /\ Cardinality(skipped[s]) \in Nat
      /\ TakenByClient(s) + 1 = Len(received[s])
  BY Counts
<1>3. \A q \in Subs \ {s} : shown'[q] = shown[q] /\ skipped'[q] = skipped[q]
  BY DEF Resolvers, ResolverTypeOK
<1>4. /\ IsFiniteSet(skipped'[s])
      /\ Len(shown'[s]) + Cardinality(skipped'[s])
           = Len(shown[s]) + Cardinality(skipped[s]) + 1
  <2>1. IsFiniteSet(skipped[s]) /\ Event(s) \notin skipped[s]
    BY <1>1 DEF Accounted, Resolvers, HandledOnly
  <2>2. CASE shown' = [shown EXCEPT ![s] = Append(@, Event(s))] /\ skipped' = skipped
    <3>1. shown[s] \in Seq(CommentAddedEvent) /\ shown'[s] = Append(shown[s], Event(s))
      BY <2>2 DEF Resolvers, ResolverTypeOK
    <3>2. Len(shown'[s]) = Len(shown[s]) + 1
      BY <1>1, <3>1
    <3>3. QED
      BY <1>2, <2>1, <2>2, <3>2
  <2>3. CASE skipped' = [skipped EXCEPT ![s] = @ \cup {Event(s)}] /\ shown' = shown
    <3>1. skipped'[s] = skipped[s] \cup {Event(s)}
      BY <2>3 DEF Resolvers, ResolverTypeOK
    <3>2. \A S, x : IsFiniteSet(S) /\ x \notin S =>
            IsFiniteSet(S \cup {x}) /\ Cardinality(S \cup {x}) = Cardinality(S) + 1
      BY FS_AddElement
    <3>3. /\ IsFiniteSet(skipped[s] \cup {Event(s)})
          /\ Cardinality(skipped[s] \cup {Event(s)}) = Cardinality(skipped[s]) + 1
      BY <2>1, <3>2
    <3>4. /\ IsFiniteSet(skipped'[s])
          /\ Cardinality(skipped'[s]) = Cardinality(skipped[s]) + 1
          /\ Len(shown'[s]) = Len(shown[s])
      BY <2>3, <3>1, <3>3
    <3>5. \A m, n \in Nat : m + (n + 1) = m + n + 1
      OBVIOUS
    <3>6. QED
      BY <1>2, <3>4, <3>5
  <2>4. QED
    BY <2>2, <2>3
<1>5. TakenByClient(s)' = TakenByClient(s) + 1
  BY <1>4 DEF TakenByClient
<1>6. \A q \in Subs \ {s} : Accounted!(q)' /\ TakenByClient(q)' = TakenByClient(q)
  BY <1>1, <1>3, AccountsOfOthers
<1>7. HandledCount(s)' = Len(received[s])
  BY <1>1 DEF HandledCount
<1>8. Accounted!(s)'
  BY <1>2, <1>4, <1>5, <1>7
<1>9. QED
  BY <1>5, <1>6, <1>8 DEF Accounted

\* What the flow reads of the bus is what the bus reads of itself.
LEMMA SameReadings ==
    /\ \A q \in Subs : /\ Bus!Status(q) = BusProofs!Status(q)
                       /\ Bus!Delivered(q) = BusProofs!Delivered(q)
                       /\ Bus!Status(q)' = BusProofs!Status(q)'
                       /\ Bus!Delivered(q)' = BusProofs!Delivered(q)'
    /\ \A e \in CommentAddedEvent : /\ Bus!Life(e) = BusProofs!Life(e)
                                    /\ Bus!Life(e)' = BusProofs!Life(e)'
BY DEF Bus!Status, BusProofs!Status, Bus!Delivered, BusProofs!Delivered,
       Bus!Life, BusProofs!Life

LEMMA CommentAddedBegins ==
    ASSUME BusProofs!IInv, Resolvers, Accounted, NEW s \in Subs, NEW p \in Topics,
           CommentAdded(s, p)
    PROVE  Accounted' /\ ClientFeed!Begin(s, p)
<1>1. BusProofs!Feed!Begin(s, p)
  <2>1. BusProofs!Subscribe(s, p) /\ UNCHANGED <<publication, audience>>
    BY DEF CommentAdded, Bus!Subscribe, BusProofs!Subscribe
  <2>2. QED
    BY <2>1, FlowAssumption, BusConstants, BusProofs!SubscribeBegins
<1>2. Accounted' /\ \A q \in Subs : TakenByClient(q)' = TakenByClient(q)
  BY GoKeepsAccounts DEF CommentAdded, Bus!Subscribe, Places
<1>3. QED
  BY <1>1, <1>2, SameReadings DEF ClientFeed!Begin, BusProofs!Feed!Begin

\* The event is on its way until the client has it.
LEMMA TakeEventStutters ==
    ASSUME BusProofs!IInv, Resolvers, Accounted, NEW s \in Subs, TakeEvent(s)
    PROVE  Accounted' /\ UNCHANGED ClientFeed!vars
<1>1. BusProofs!Receive(s) /\ UNCHANGED <<publication, audience>>
  BY DEF TakeEvent, Bus!Receive, BusProofs!Receive
<1>2. /\ BusProofs!LogsKept /\ BusProofs!StatusesKept
      /\ \A q \in Subs :
           Len(received'[q]) = IF q = s THEN Len(received[s]) + 1 ELSE Len(received[q])
  BY <1>1, BusConstants, BusProofs!ReceiveMovesOne DEF BusProofs!IInv
<1>3. Accounted' /\ \A q \in Subs : TakenByClient(q)' = TakenByClient(q)
  BY <1>2, TakeKeepsAccounts
<1>4. UNCHANGED <<topic, closed, publication>>
  BY <1>1 DEF BusProofs!Receive
<1>5. QED
  BY <1>2, <1>3, <1>4, SameReadings
     DEF ClientFeed!vars, BusProofs!LogsKept, BusProofs!StatusesKept, Bus!Life

\* Steps that leave alone what is read of the bus and the accounts.
LEMMA AsideStutters ==
    ASSUME UNCHANGED <<channel, topic, received, closed, publication>>,
           \A q \in Subs : TakenByClient(q)' = TakenByClient(q)
    PROVE  UNCHANGED ClientFeed!vars
BY DEF ClientFeed!vars, Bus!Status, Bus!Delivered, Bus!Life

LEMMA ResolverStutters ==
    ASSUME BusProofs!IInv, Routes, Resolvers, Accounted, NEW s \in Subs,
           SeeClosed(s) \/ SeeDone(s) \/ LoadComment(s)
    PROVE  Accounted' /\ UNCHANGED ClientFeed!vars
<1>1. UNCHANGED <<channel, topic, received, closed, publication>>
  BY DEF SeeClosed, SeeDone, LoadComment, Local, busVars, registryVars
<1>2. Accounted' /\ \A q \in Subs : TakenByClient(q)' = TakenByClient(q)
  <2>1. CASE SeeClosed(s) \/ SeeDone(s)
    BY <1>1, <2>1, GoKeepsAccounts DEF SeeClosed, SeeDone, Places
  <2>2. CASE LoadComment(s)
    BY <1>1, <2>2, AnnouncedIsThere, GoKeepsAccounts DEF LoadComment, Places
  <2>3. QED
    BY <2>1, <2>2
<1>3. QED
  BY <1>1, <1>2, AsideStutters

\* The client takes an event, or goes without it.
LEMMA FinishedTakes ==
    ASSUME BusProofs!IInv, Resolvers, Accounted, NEW s \in Subs,
           HandOver(s) \/ GetCommentFails(s)
    PROVE  Accounted' /\ ClientFeed!Take(s)
<1>1. UNCHANGED <<channel, topic, received, closed, publication>>
  BY DEF HandOver, GetCommentFails, Local, busVars, registryVars
<1>2. /\ Accounted'
      /\ \A q \in Subs : TakenByClient(q)' =
           IF q = s THEN TakenByClient(q) + 1 ELSE TakenByClient(q)
  BY <1>1, FinishedCounts DEF HandOver, GetCommentFails
<1>3. [q \in Subs |-> TakenByClient(q)'] =
        [[q \in Subs |-> TakenByClient(q)] EXCEPT ![s] = TakenByClient(s) + 1]
  BY <1>2
<1>4. TakenByClient(s) < Len(Bus!Delivered(s))
  <2>1. TakenByClient(s) \in Nat /\ TakenByClient(s) + 1 = Len(received[s])
    BY Counts DEF HandOver, GetCommentFails
  <2>2. Len(received[s]) <= Len(BusProofs!Delivered(s)) /\ Len(BusProofs!Delivered(s)) \in Nat
    BY DeliveredHoldsReceived
  <2>3. QED
    BY <2>1, <2>2, SameReadings
<1>5. /\ [q \in Subs |-> Bus!Status(q)'] = [q \in Subs |-> Bus!Status(q)]
      /\ [q \in Subs |-> Bus!Delivered(q)'] = [q \in Subs |-> Bus!Delivered(q)]
      /\ [e \in CommentAddedEvent |-> Bus!Life(e)'] = [e \in CommentAddedEvent |-> Bus!Life(e)]
  BY <1>1 DEF Bus!Status, Bus!Delivered, Bus!Life
<1>6. QED
  BY <1>1, <1>2, <1>3, <1>4, <1>5 DEF ClientFeed!Take

\* A subscription that is removed ends for its client too.
LEMMA UnsubscribedEnds ==
    ASSUME BusProofs!IInv, NEW s \in Subs, Bus!Unsubscribe(s),
           UNCHANGED <<publication, audience>>,
           \A q \in Subs : TakenByClient(q)' = TakenByClient(q)
    PROVE  ClientFeed!End({s})
<1>1. BusProofs!Unsubscribe(s)
  BY DEF Bus!Unsubscribe, BusProofs!Unsubscribe
<1>2. BusProofs!Feed!End({s})
  BY <1>1, BusConstants, BusProofs!UnsubscribeEnds
<1>3. QED
  BY <1>2, SameReadings DEF ClientFeed!End, ClientFeed!Ended,
                            BusProofs!Feed!End, BusProofs!Feed!Ended

LEMMA ReturnEnds ==
    ASSUME BusProofs!IInv, Resolvers, Accounted, NEW s \in Subs, Return(s)
    PROVE  Accounted' /\ (ClientFeed!End({s}) \/ UNCHANGED ClientFeed!vars)
<1>1. UNCHANGED <<publication, audience, shown, skipped, received>>
  BY DEF Return, Bus!Unsubscribe, registryVars
<1>2. Accounted' /\ \A q \in Subs : TakenByClient(q)' = TakenByClient(q)
  BY <1>1, GoKeepsAccounts DEF Return, Places
<1>3. CASE Bus!Unsubscribe(s)
  BY <1>1, <1>2, <1>3, UnsubscribedEnds
<1>4. CASE UNCHANGED registryVars
  BY <1>1, <1>2, <1>4, AsideStutters DEF registryVars
<1>5. QED
  BY <1>2, <1>3, <1>4 DEF Return

LEMMA LeavingEnds ==
    ASSUME BusProofs!IInv, Accounted, NEW s \in Subs, Cancel(s) \/ CleanUp(s)
    PROVE  Accounted' /\ (ClientFeed!End({s}) \/ UNCHANGED ClientFeed!vars)
<1>1. UNCHANGED <<resolverVars, received, publication, audience>>
  BY DEF Cancel, CleanUp, Bus!Cancel, Bus!Cleaner, Bus!CleanUp, Bus!Unsubscribe
<1>2. Accounted' /\ \A q \in Subs : TakenByClient(q)' = TakenByClient(q)
  BY <1>1, ElsewhereKeepsAccounts
<1>3. CASE Cancel(s)
  BY <1>1, <1>2, <1>3, AsideStutters DEF Cancel, Bus!Cancel
<1>4. CASE CleanUp(s)
  BY <1>1, <1>2, <1>4, UnsubscribedEnds DEF CleanUp, Bus!Cleaner, Bus!CleanUp
<1>5. QED
  BY <1>2, <1>3, <1>4

LEMMA CloseBusShutsDown ==
    ASSUME BusProofs!IInv, Accounted, CloseBus
    PROVE  Accounted' /\ ClientFeed!Shutdown(Subs)
<1>1. UNCHANGED <<resolverVars, received, publication, audience>>
  BY DEF CloseBus, Bus!Close
<1>2. Accounted' /\ \A q \in Subs : TakenByClient(q)' = TakenByClient(q)
  BY <1>1, ElsewhereKeepsAccounts
<1>3. BusProofs!Close
  BY DEF CloseBus, Bus!Close, BusProofs!Close, Bus!CloseAll, BusProofs!CloseAll
<1>4. BusProofs!Feed!Shutdown(Subs)
  BY <1>1, <1>3, BusConstants, BusProofs!CloseShutsDown
<1>5. QED
  BY <1>2, <1>4, SameReadings DEF ClientFeed!Shutdown, ClientFeed!Ended,
                                  BusProofs!Feed!Shutdown, BusProofs!Feed!Ended

-----------------------------------------------------------------------------
\* Mutations do not touch the resolvers, nor what they have taken.
LEMMA MutationsKeepAccounts ==
    ASSUME Accounted, NEW r \in Requests, Invoke(r) \/ Mutation(r)
    PROVE  Accounted' /\ \A q \in Subs : TakenByClient(q)' = TakenByClient(q)
<1>1. UNCHANGED <<resolverVars, received>>
  BY MutationsLeaveResolvers
<1>2. QED
  BY <1>1, ElsewhereKeepsAccounts

LEMMA PublishAnnounces ==
    ASSUME ServiceProofs!IInv, BusProofs!IInv, Accounted, NEW r \in Requests, Publish(r)
    PROVE  ClientFeed!Announce(EventOf(r))
<1>1. EventOf(r) \in CommentAddedEvent
  BY Announceable DEF Publish
<1>2. BusProofs!PublishCommentAdded(EventOf(r))
  BY DEF Publish, Bus!PublishCommentAdded, BusProofs!PublishCommentAdded,
         Bus!TakeTargets, BusProofs!TakeTargets, Bus!Goto, BusProofs!Goto,
         Bus!IsOpen, BusProofs!IsOpen
<1>3. BusProofs!Feed!Announce(EventOf(r))
  BY <1>1, <1>2, BusConstants, BusProofs!PublishAnnounces
<1>4. \A q \in Subs : TakenByClient(q)' = TakenByClient(q)
  BY MutationsKeepAccounts DEF Mutation
<1>5. QED
  BY <1>1, <1>3, <1>4, SameReadings DEF ClientFeed!Announce, BusProofs!Feed!Announce

\* One more event than the buffer holds can be on its way to a client.
LEMMA SendDelivers ==
    ASSUME BusProofs!IInv, Resolvers, Accounted, NEW r \in Requests, SendNext(r)
    PROVE  \/ \E e \in CommentAddedEvent, s \in Subs : ClientFeed!Deliver(s, e)
           \/ UNCHANGED ClientFeed!vars
<1>1. PICK e \in CommentAddedEvent : Bus!SendNext(e)
  BY DEF SendNext, CommentAddedEvent
<1>2. PICK s \in Subs : Bus!Send(e, s, e)
  BY <1>1 DEF Bus!SendNext
<1>3. /\ publication[e] = "sending" /\ BusProofs!Send(e, s, e)
      /\ UNCHANGED <<publication, audience>>
  BY <1>1, <1>2 DEF Bus!SendNext, Bus!Send, BusProofs!Send
<1>4. BusProofs!Feed!Deliver(s, e) \/ UNCHANGED BusProofs!Feed!vars
  BY <1>3, BusConstants, BusProofs!SendDelivers
<1>5. \A q \in Subs : TakenByClient(q)' = TakenByClient(q)
  BY MutationsKeepAccounts DEF Mutation
<1>6. CASE UNCHANGED BusProofs!Feed!vars
  BY <1>5, <1>6, SameReadings DEF ClientFeed!vars, BusProofs!Feed!vars
<1>7. CASE BusProofs!Feed!Deliver(s, e)
  <2>1. Len(BusProofs!Delivered(s)) - Len(received[s]) < BufferSize
    BY <1>7 DEF BusProofs!Feed!Deliver
  <2>2. /\ Len(received[s]) \in Nat /\ TakenByClient(s) \in Nat
        /\ Len(received[s]) <= TakenByClient(s) + 1
    BY Counts
  <2>3. Len(BusProofs!Delivered(s)) \in Nat
    BY DeliveredHoldsReceived
  <2>4. Len(BusProofs!Delivered(s)) - TakenByClient(s) < BufferSize + 1
    BY <2>1, <2>2, <2>3, BusAssumption
  <2>5. /\ [q \in Subs |-> Bus!Status(q)] = [q \in Subs |-> BusProofs!Status(q)]
        /\ [q \in Subs |-> Bus!Status(q)]' = [q \in Subs |-> BusProofs!Status(q)]'
        /\ [q \in Subs |-> Bus!Delivered(q)] = [q \in Subs |-> BusProofs!Delivered(q)]
        /\ [q \in Subs |-> Bus!Delivered(q)]' = [q \in Subs |-> BusProofs!Delivered(q)]'
        /\ [f \in CommentAddedEvent |-> Bus!Life(f)]
             = [f \in CommentAddedEvent |-> BusProofs!Life(f)]
        /\ [f \in CommentAddedEvent |-> Bus!Life(f)]'
             = [f \in CommentAddedEvent |-> BusProofs!Life(f)]'
    BY SameReadings
  <2>6. [q \in Subs |-> TakenByClient(q)]' = [q \in Subs |-> TakenByClient(q)]
    BY <1>5
  <2>7. Len([q \in Subs |-> BusProofs!Delivered(q)][s])
          - [q \in Subs |-> TakenByClient(q)][s] < BufferSize + 1
    BY <2>4
  <2>8. ClientFeed!Deliver(s, e)
    BY <1>7, <2>5, <2>6, <2>7 DEF ClientFeed!Deliver, BusProofs!Feed!Deliver
  <2>9. QED
    BY <2>8
<1>8. QED
  BY <1>4, <1>6, <1>7

\* A publication is over when its mutation goes on, or panics.
LEMMA EndSettles ==
    ASSUME ServiceProofs!IInv, BusProofs!IInv, Accounted, NEW r \in Requests,
           PublishReturns(r) \/ PublishPanics(r)
    PROVE  ClientFeed!Settle(EventOf(r))
<1>1. EventOf(r) \in CommentAddedEvent
  BY Announceable DEF PublishReturns, PublishPanics
<1>2. BusProofs!PublishReturns(EventOf(r)) \/ BusProofs!PublishPanics(EventOf(r))
  BY DEF PublishReturns, PublishPanics, Bus!PublishReturns, BusProofs!PublishReturns,
         Bus!PublishPanics, BusProofs!PublishPanics, Bus!SendPanics, BusProofs!SendPanics,
         Bus!Goto, BusProofs!Goto, Bus!registryVars, BusProofs!registryVars
<1>3. BusProofs!Feed!Settle(EventOf(r))
  BY <1>1, <1>2, BusConstants, BusProofs!EndSettles
<1>4. \A q \in Subs : TakenByClient(q)' = TakenByClient(q)
  BY MutationsKeepAccounts DEF Mutation
<1>5. QED
  BY <1>1, <1>3, <1>4, SameReadings DEF ClientFeed!Settle, BusProofs!Feed!Settle

\* Before a mutation publishes, the bus knows nothing of it.
LEMMA ServeStutters ==
    ASSUME Accounted, NEW r \in Requests, Invoke(r) \/ Serve(r)
    PROVE  UNCHANGED ClientFeed!vars
<1>1. UNCHANGED <<channel, topic, received, closed, publication>>
  BY DEF Invoke, Serve, busVars, registryVars
<1>2. \A q \in Subs : TakenByClient(q)' = TakenByClient(q)
  BY MutationsKeepAccounts DEF Mutation
<1>3. QED
  BY <1>1, <1>2, AsideStutters

\* The flow keeps the promise of CommentFeed to its clients.
THEOREM ClientsHaveAFeedHolds == Spec => ClientsHaveAFeed
<1>1. Init => Accounted /\ ClientFeed!Init
  <2> SUFFICES ASSUME Init PROVE Accounted /\ ClientFeed!Init
    OBVIOUS
  <2>1. \A s \in Subs : IsFiniteSet(skipped[s]) /\ TakenByClient(s) = 0
    BY FS_EmptySet DEF Init, TakenByClient
  <2>2. \A s \in Subs : HandledCount(s) = 0
    BY DEF Init, HandledCount, Bus!Init, Bus!RegistryInit
  <2>3. ClientFeed!Init
    BY <2>1 DEF Init, Bus!Init, Bus!RegistryInit, ClientFeed!Init,
                Bus!Status, Bus!Delivered, Bus!Life
  <2>4. QED
    BY <2>1, <2>2, <2>3 DEF Accounted
<1>2. IInv /\ Accounted /\ [Next]_vars => Accounted' /\ [ClientFeed!Next]_(ClientFeed!vars)
  <2> SUFFICES ASSUME IInv, Accounted, [Next]_vars
               PROVE  Accounted' /\ [ClientFeed!Next]_(ClientFeed!vars)
    OBVIOUS
  <2>1. ServiceProofs!IInv /\ BusProofs!IInv /\ Routes /\ Resolvers
    BY DEF IInv
  <2>2. ASSUME NEW r \in Requests, Invoke(r) \/ Mutation(r)
        PROVE  Accounted' /\ [ClientFeed!Next]_(ClientFeed!vars)
    <3>1. Accounted'
      BY <2>2, MutationsKeepAccounts
    <3>2. CASE Invoke(r) \/ Serve(r)
      BY <3>1, <3>2, ServeStutters
    <3>3. CASE Publish(r)
      <4>1. EventOf(r) \in CommentAddedEvent
        BY <2>1, <3>3, Announceable DEF Publish
      <4>2. QED
        BY <2>1, <3>1, <3>3, <4>1, PublishAnnounces DEF ClientFeed!Next
    <3>4. CASE SendNext(r)
      BY <2>1, <3>1, <3>4, SendDelivers DEF ClientFeed!Next
    <3>5. CASE PublishReturns(r) \/ PublishPanics(r)
      <4>1. EventOf(r) \in CommentAddedEvent
        BY <2>1, <3>5, Announceable DEF PublishReturns, PublishPanics
      <4>2. QED
        BY <2>1, <3>1, <3>5, <4>1, EndSettles DEF ClientFeed!Next
    <3>6. QED
      BY <2>2, <3>2, <3>3, <3>4, <3>5 DEF Mutation
  <2>3. ASSUME NEW s \in Subs, NEW p \in Topics, CommentAdded(s, p)
        PROVE  Accounted' /\ [ClientFeed!Next]_(ClientFeed!vars)
    BY <2>1, <2>3, CommentAddedBegins, FlowAssumption DEF ClientFeed!Next
  <2>4. ASSUME NEW s \in Subs, Resolve(s) \/ HandOver(s) \/ Cancel(s) \/ CleanUp(s)
        PROVE  Accounted' /\ [ClientFeed!Next]_(ClientFeed!vars)
    <3>1. ClientFeed!End({s}) => ClientFeed!Next
      <4>1. {s} \in SUBSET Subs
        OBVIOUS
      <4>2. QED
        BY <4>1 DEF ClientFeed!Next
    <3>2. ClientFeed!Take(s) => ClientFeed!Next
      BY DEF ClientFeed!Next
    <3>3. QED
      BY <2>1, <2>4, <3>1, <3>2, TakeEventStutters, ResolverStutters, FinishedTakes,
         ReturnEnds, LeavingEnds DEF Resolve
  <2>5. CASE CloseBus
    <3>1. Subs \in SUBSET Subs
      OBVIOUS
    <3>2. QED
      BY <2>1, <2>5, <3>1, CloseBusShutsDown DEF ClientFeed!Next
  <2>6. CASE UNCHANGED vars
    <3>1. UNCHANGED <<resolverVars, channel, topic, received, closed, publication>>
      BY <2>6 DEF vars, busVars, registryVars
    <3>2. QED
      BY <3>1, ElsewhereKeepsAccounts, AsideStutters
  <2>7. QED
    BY <2>2, <2>3, <2>4, <2>5, <2>6 DEF Next
<1>3. QED
  BY <1>1, <1>2, IInvHolds, PTL DEF Spec, ClientsHaveAFeed, ClientFeed!Spec
=============================================================================
