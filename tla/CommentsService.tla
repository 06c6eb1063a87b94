-------------------------- MODULE CommentsService --------------------------
(***************************************************************************)
(* The three mutations of the service (createPost, setCommentsEnabled and  *)
(* createComment) as goroutines that interleave at every repository call,  *)
(* running inside TxManager.WithinTx over either storage backend.          *)
(*                                                                         *)
(*   memory    a write is visible at once and nothing is ever rolled back; *)
(*             the repositories ignore the context and never fail.         *)
(*   postgres  READ COMMITTED transactions on connections of a bounded     *)
(*             pool: a write is visible when its transaction commits, every*)
(*             statement may fail (a cancelled context, a lost connection),*)
(*             and so may BEGIN, COMMIT, ROLLBACK and the notification that*)
(*             follows the commit.                                         *)
(*                                                                         *)
(* Abstractions.  uuid.New never repeats, so what a request creates is     *)
(* named by the request.  Titles, bodies and zero identifiers are reduced  *)
(* to whether the constructor of the domain accepts them ("valid").        *)
(***************************************************************************)
EXTENDS Naturals, Sequences, FiniteSets

CONSTANTS
    Requests,   \* the mutations, each served by a goroutine of its own
    SeedPosts,  \* posts that earlier requests have stored
    Users,      \* authors and acting users
    MaxConns,   \* size of the PostgreSQL connection pool
    Backends,   \* the backends the process may be started with
    Inputs,     \* the calls clients make
    Null        \* no such row, no parent, no input

ASSUME BackendAssumption == Backends \subseteq {"memory", "postgres"}
ASSUME PoolAssumption == MaxConns \in Nat \ {0}

\* uuid.New does not return the identifier of a stored row.
ASSUME IdAssumption == SeedPosts \cap Requests = {}

PostId == SeedPosts \cup Requests
CommentId == Requests

\* A stored post and a stored comment, without the fields no guard reads.
Post == [author: Users, commentsEnabled: BOOLEAN]
Comment == [post: PostId, parent: CommentId \cup {Null}]

\* What a mutation is called with; fields an operation does not have are fixed.
Call == [op: {"createPost", "setCommentsEnabled", "createComment"},
         post: PostId \cup {Null}, parent: CommentId \cup {Null},
         user: Users \cup {Null}, enabled: BOOLEAN, valid: BOOLEAN]

CreatePostCalls ==
    {c \in Call : /\ c.op = "createPost" /\ c.user # Null
                  /\ c.post = Null /\ c.parent = Null /\ c.enabled}
SetCommentsEnabledCalls ==
    {c \in Call : /\ c.op = "setCommentsEnabled" /\ c.user # Null /\ c.post # Null
                  /\ c.parent = Null /\ c.valid}
CreateCommentCalls ==
    {c \in Call : /\ c.op = "createComment" /\ c.post # Null
                  /\ c.user = Null /\ c.enabled}

Calls == CreatePostCalls \cup SetCommentsEnabledCalls \cup CreateCommentCalls

ASSUME InputsAssumption == Inputs \subseteq Calls
ASSUME NullAssumption ==
    /\ Null \notin PostId \cup Users
    /\ Null \notin Post /\ Null \notin Comment /\ Null \notin Call

Refusals == {"VALIDATION", "NOT_FOUND", "CONFLICT", "FORBIDDEN"}
Results == {"none", "ok", "INTERNAL", "lost"} \cup Refusals

Stages == {"idle", "begin", "getPost", "getParent", "write", "commit",
           "rollback", "publish", "notify", "done"}

VARIABLES
    backend,    \* config.Storage.backend, chosen when the process starts
    posts,      \* the committed posts (memory: Store.posts)
    comments,   \* the committed comments (memory: Store.comments)
    stage,      \* where each request's goroutine stands
    call,       \* the input of each request
    draft,      \* the post a request has read or built, as it will write it
    afterCommit,\* requests whose after-commit registry holds an event
    conns,      \* requests that hold a connection of the pool
    events,     \* comments handed to the event bus, in that order
    result,     \* what each request answered
    openDuring  \* history: posts seen accepting comments during a request

vars == <<backend, posts, comments, stage, call, draft, afterCommit, conns, events,
          result, openDuring>>

store == <<posts, comments, openDuring>>

-----------------------------------------------------------------------------
InFlight(r) == stage[r] \notin {"idle", "done"}

OpenPosts(ps) == {p \in PostId : ps[p] # Null /\ ps[p].commentsEnabled}

\* Every write of a post passes here, so that the history of the requests in
\* flight is kept.
PutPost(p, post) ==
    /\ posts' = [posts EXCEPT ![p] = post]
    /\ openDuring' = [r \in Requests |->
                        IF InFlight(r) THEN openDuring[r] \cup OpenPosts(posts')
                                       ELSE openDuring[r]]

\* A request moves on, in a process that keeps its backend.
Goto(r, s) ==
    /\ stage' = [stage EXCEPT ![r] = s]
    /\ UNCHANGED backend

\* fn returned an error: PostgreSQL rolls back, the memory manager returns.
Abort(r, err) ==
    /\ result' = [result EXCEPT ![r] = err]
    /\ Goto(r, IF backend = "postgres" THEN "rollback" ELSE "done")

Return(r, res) ==
    /\ result' = [result EXCEPT ![r] = res]
    /\ Goto(r, "done")

\* pgxpool: a connection can be taken when fewer than MaxConns are out.
FreeConn == Cardinality(conns) < MaxConns

-----------------------------------------------------------------------------
Init ==
    /\ backend \in Backends
    /\ posts \in [PostId -> Post \cup {Null}]
    /\ \A p \in PostId : posts[p] = Null <=> p \notin SeedPosts
    /\ comments = [c \in CommentId |-> Null]
    /\ stage = [r \in Requests |-> "idle"]
    /\ call = [r \in Requests |-> Null]
    /\ draft = [r \in Requests |-> Null]
    /\ afterCommit = {}
    /\ conns = {}
    /\ events = <<>>
    /\ result = [r \in Requests |-> "none"]
    /\ openDuring = [r \in Requests |-> {}]

\* The resolver calls the service with what the client sent.
Invoke(r) ==
    /\ stage[r] = "idle"
    /\ \E c \in Inputs : call' = [call EXCEPT ![r] = c]
    /\ openDuring' = [openDuring EXCEPT ![r] = OpenPosts(posts)]
    /\ Goto(r, "begin")
    /\ UNCHANGED <<posts, comments, draft, afterCommit, conns, events, result>>

\* WithinTx up to the call of fn: a transaction (on a connection of the pool)
\* and an empty after-commit registry.
BeginTx(r) ==
    /\ stage[r] = "begin"
    /\ IF backend = "postgres"
         THEN FreeConn /\ conns' = conns \cup {r}
         ELSE UNCHANGED conns
    /\ Goto(r, IF call[r].op = "createPost" THEN "write" ELSE "getPost")
    /\ UNCHANGED <<store, call, draft, afterCommit, events, result>>

BeginTxFails(r) ==
    /\ stage[r] = "begin"
    /\ backend = "postgres"
    /\ Return(r, "INTERNAL")
    /\ UNCHANGED <<store, call, draft, afterCommit, conns, events>>

\* Mutants of GetPostRefusal: the check of CommentsEnabled, of the actor, forgotten.
GetPostRefusalWhenClosed(r) ==
    LET post == posts[call[r].post] IN
    CASE post = Null -> "NOT_FOUND"
      [] post # Null /\ call[r].op = "setCommentsEnabled" /\ call[r].user # post.author
           -> "FORBIDDEN"
      [] OTHER -> "none"

GetPostRefusalAnyActor(r) ==
    LET post == posts[call[r].post] IN
    CASE post = Null -> "NOT_FOUND"
      [] post # Null /\ call[r].op = "createComment" /\ ~post.commentsEnabled
           -> "CONFLICT"
      [] OTHER -> "none"

\* postRepo.GetByID and the check on the post that follows it.
GetPostRefusal(r) ==
    LET post == posts[call[r].post] IN
    CASE post = Null -> "NOT_FOUND"
      [] post # Null /\ call[r].op = "createComment" /\ ~post.commentsEnabled
           -> "CONFLICT"
      [] post # Null /\ call[r].op = "setCommentsEnabled" /\ call[r].user # post.author
           -> "FORBIDDEN"
      [] OTHER -> "none"

GetPost(r) ==
    /\ stage[r] = "getPost"
    /\ GetPostRefusal(r) = "none"
    /\ draft' = [draft EXCEPT ![r] =
                   IF call[r].op = "setCommentsEnabled"
                     THEN [posts[call[r].post] EXCEPT !.commentsEnabled = call[r].enabled]
                     ELSE posts[call[r].post]]
    /\ Goto(r, IF call[r].parent # Null THEN "getParent" ELSE "write")
    /\ UNCHANGED <<store, call, afterCommit, conns, events, result>>

GetPostRefused(r) ==
    /\ stage[r] = "getPost"
    /\ GetPostRefusal(r) # "none"
    /\ Abort(r, GetPostRefusal(r))
    /\ UNCHANGED <<store, call, draft, afterCommit, conns, events>>

\* Mutant of GetParent: the parent may be on any post.
GetParentOfAnyPost(r) ==
    /\ stage[r] = "getParent"
    /\ comments[call[r].parent] # Null
    /\ Goto(r, "write")
    /\ UNCHANGED <<store, call, draft, afterCommit, conns, events, result>>

\* commentRepo.GetByID and the check that the parent is on the same post.
GetParent(r) ==
    /\ stage[r] = "getParent"
    /\ LET parent == comments[call[r].parent] IN
         /\ parent # Null
         /\ parent.post = call[r].post
    /\ Goto(r, "write")
    /\ UNCHANGED <<store, call, draft, afterCommit, conns, events, result>>

GetParentRefused(r) ==
    /\ stage[r] = "getParent"
    /\ LET parent == comments[call[r].parent] IN
         \/ parent = Null /\ Abort(r, "NOT_FOUND")
         \/ parent # Null /\ parent.post # call[r].post /\ Abort(r, "CONFLICT")
    /\ UNCHANGED <<store, call, draft, afterCommit, conns, events>>

-----------------------------------------------------------------------------
NewPost(r) == [author |-> call[r].user, commentsEnabled |-> TRUE]
\* Mutant of NewComment: post and parent swapped.
NewCommentSwapped(r) == [post |-> call[r].parent, parent |-> call[r].post]

NewComment(r) == [post |-> call[r].post, parent |-> call[r].parent]

\* PostRepository.Create, PostRepository.Update or CommentRepository.Create
\* of request r, on the rows other requests see.
WriteRows(r) ==
    CASE call[r].op = "createPost" ->
           PutPost(r, NewPost(r)) /\ UNCHANGED comments
      [] call[r].op = "setCommentsEnabled" ->
           PutPost(call[r].post, draft[r]) /\ UNCHANGED comments
      [] call[r].op = "createComment" ->
           /\ comments' = [comments EXCEPT ![r] = NewComment(r)]
           /\ UNCHANGED <<posts, openDuring>>

\* An UPDATE waits for the row lock of a transaction that has updated the same
\* post; the foreign key of an INSERT takes no lock that conflicts with it.
RowLocked(r) ==
    /\ backend = "postgres"
    /\ call[r].op = "setCommentsEnabled"
    /\ \E q \in Requests \ {r} : /\ stage[q] = "commit"
                                 /\ call[q].op = "setCommentsEnabled"
                                 /\ call[q].post = call[r].post

\* Mutant of Write: the event is published inside the transaction.
WriteAnnouncing(r) ==
    /\ stage[r] = "write"
    /\ call[r].valid
    /\ ~RowLocked(r)
    /\ IF backend = "memory" THEN WriteRows(r) ELSE UNCHANGED store
    /\ events' = IF call[r].op = "createComment" THEN Append(events, r) ELSE events
    /\ Goto(r, "commit")
    /\ UNCHANGED <<call, draft, afterCommit, conns, result>>

\* The constructor accepts the input, the statement runs, and createComment
\* queues its event for after the commit.
Write(r) ==
    /\ stage[r] = "write"
    /\ call[r].valid
    /\ ~RowLocked(r)
    /\ IF backend = "memory" THEN WriteRows(r) ELSE UNCHANGED store
    /\ afterCommit' = IF call[r].op = "createComment"
                        THEN afterCommit \cup {r} ELSE afterCommit
    /\ Goto(r, "commit")
    /\ UNCHANGED <<call, draft, conns, events, result>>

WriteRefused(r) ==
    /\ stage[r] = "write"
    /\ ~call[r].valid
    /\ Abort(r, "VALIDATION")
    /\ UNCHANGED <<store, call, draft, afterCommit, conns, events>>

\* A statement of the transaction fails.
StatementFails(r) ==
    /\ backend = "postgres"
    /\ stage[r] \in {"getPost", "getParent", "write"}
    /\ Abort(r, "INTERNAL")
    /\ UNCHANGED <<store, call, draft, afterCommit, conns, events>>

-----------------------------------------------------------------------------
\* Mutant of Rollback: it keeps the connection.
RollbackLeaking(r) ==
    /\ stage[r] = "rollback"
    /\ Return(r, result[r])
    /\ UNCHANGED <<store, call, draft, afterCommit, conns, events>>

\* The rollback gives the connection back; when it fails, its error replaces
\* the one fn returned.
Rollback(r) ==
    /\ stage[r] = "rollback"
    /\ conns' = conns \ {r}
    /\ \/ Return(r, result[r])
       \/ Return(r, "INTERNAL")
    /\ UNCHANGED <<store, call, draft, afterCommit, events>>

\* Mutant of Commit: the registry is run before the connection is given back.
CommitKeepingConn(r) ==
    /\ stage[r] = "commit"
    /\ IF backend = "postgres" THEN WriteRows(r) ELSE UNCHANGED store
    /\ IF r \in afterCommit
         THEN Goto(r, "publish") /\ UNCHANGED <<result, conns>>
         ELSE Return(r, "ok") /\ conns' = conns \ {r}
    /\ UNCHANGED <<call, draft, afterCommit, events>>

\* fn returned nil: commit, give the connection back and run the registry.
Commit(r) ==
    /\ stage[r] = "commit"
    /\ IF backend = "postgres" THEN WriteRows(r) ELSE UNCHANGED store
    /\ conns' = conns \ {r}
    /\ IF r \in afterCommit
         THEN Goto(r, "publish") /\ UNCHANGED result
         ELSE Return(r, "ok")
    /\ UNCHANGED <<call, draft, afterCommit, events>>

\* Mutant of CommitFails: the error of Commit is not looked at.
CommitFailsUnnoticed(r) ==
    /\ stage[r] = "commit"
    /\ backend = "postgres"
    /\ conns' = conns \ {r}
    /\ Return(r, "ok")
    /\ UNCHANGED <<store, call, draft, afterCommit, events>>

\* COMMIT returned an error.  The server may have committed before the
\* connection was lost; WithinTx returns the error without running the registry.
CommitFails(r) ==
    /\ stage[r] = "commit"
    /\ backend = "postgres"
    /\ WriteRows(r) \/ UNCHANGED store
    /\ conns' = conns \ {r}
    /\ Return(r, "INTERNAL")
    /\ UNCHANGED <<call, draft, afterCommit, events>>

\* registry.Run with the memory bus.
PublishInMemory(r) ==
    /\ stage[r] = "publish"
    /\ backend = "memory"
    /\ events' = Append(events, r)
    /\ Return(r, "ok")
    /\ UNCHANGED <<store, call, draft, afterCommit, conns>>

\* A subscription ended while the bus was sending to it (module MemoryBus): the
\* send on the closed channel panics, the GraphQL server recovers and answers
\* INTERNAL for a comment that is stored, announced to some or to nobody.
PublishPanics(r) ==
    /\ stage[r] = "publish"
    /\ backend = "memory"
    /\ events' \in {events, Append(events, r)}
    /\ Return(r, "INTERNAL")
    /\ UNCHANGED <<store, call, draft, afterCommit, conns>>

\* registry.Run with the PostgreSQL bus: pg_notify on a connection of the pool.
AcquireForNotify(r) ==
    /\ stage[r] = "publish"
    /\ backend = "postgres"
    /\ FreeConn
    /\ conns' = conns \cup {r}
    /\ Goto(r, "notify")
    /\ UNCHANGED <<store, call, draft, afterCommit, events, result>>

Notify(r) ==
    /\ stage[r] = "notify"
    /\ events' = Append(events, r)
    /\ conns' = conns \ {r}
    /\ Return(r, "ok")
    /\ UNCHANGED <<store, call, draft, afterCommit>>

\* The connection or the statement of the notification fails: it is logged and
\* not repeated, and the mutation succeeds all the same.  The server may have
\* executed the statement.
NotifyFails(r) ==
    /\ stage[r] \in {"publish", "notify"}
    /\ backend = "postgres"
    /\ \/ UNCHANGED events
       \/ stage[r] = "notify" /\ events' = Append(events, r)
    /\ conns' = conns \ {r}
    /\ Return(r, "ok")
    /\ UNCHANGED <<store, call, draft, afterCommit>>

-----------------------------------------------------------------------------
\* The process dies and is restarted on the same database: open transactions
\* are rolled back and their clients get no answer.  (A COMMIT or a notification
\* the server still executes is CommitFails or Notify just before.)
Restart ==
    /\ backend = "postgres"
    /\ \E r \in Requests : InFlight(r)
    /\ stage' = [r \in Requests |-> IF InFlight(r) THEN "done" ELSE stage[r]]
    /\ result' = [r \in Requests |-> IF InFlight(r) THEN "lost" ELSE result[r]]
    /\ conns' = {}
    /\ UNCHANGED <<backend, store, call, draft, afterCommit, events>>

\* Every request has answered; not a step of the program.
Quiescent ==
    /\ \A r \in Requests : stage[r] = "done"
    /\ UNCHANGED vars

\* What a request does when everything it calls answers without an error.
Progress(r) ==
    \/ BeginTx(r) \/ GetPost(r) \/ GetPostRefused(r)
    \/ GetParent(r) \/ GetParentRefused(r)
    \/ Write(r) \/ WriteRefused(r) \/ Rollback(r) \/ Commit(r)
    \/ PublishInMemory(r) \/ AcquireForNotify(r) \/ Notify(r)

Failure(r) ==
    \/ BeginTxFails(r) \/ StatementFails(r) \/ CommitFails(r)
    \/ PublishPanics(r) \/ NotifyFails(r)

Next ==
    \/ \E r \in Requests : Invoke(r) \/ Progress(r) \/ Failure(r)
    \/ Restart
    \/ Quiescent

Spec == Init /\ [][Next]_vars

\* The runtime schedules every goroutine that can run and the database answers
\* what it is asked; no failure and no client is owed to anybody.
FairSpec == Spec /\ \A r \in Requests : WF_vars(Progress(r))

-----------------------------------------------------------------------------
\* The variables hold what the code's variables can hold.
TypeOK ==
    /\ backend \in {"memory", "postgres"}
    /\ posts \in [PostId -> Post \cup {Null}]
    /\ comments \in [CommentId -> Comment \cup {Null}]
    /\ stage \in [Requests -> Stages]
    /\ call \in [Requests -> Calls \cup {Null}]
    /\ draft \in [Requests -> Post \cup {Null}]
    /\ afterCommit \in SUBSET Requests
    /\ conns \in SUBSET Requests
    /\ events \in Seq(CommentId)
    /\ result \in [Requests -> Results]
    /\ openDuring \in [Requests -> SUBSET PostId]

\* Every stored comment hangs on a stored post, and a reply on a stored comment
\* of the same post: the checks CreateComment makes before its insert still
\* hold when the insert becomes visible, whatever other requests do meanwhile.
ThreadIntegrity ==
    \A c \in CommentId : comments[c] # Null =>
        /\ posts[comments[c].post] # Null
        /\ comments[c].parent # Null =>
             /\ comments[comments[c].parent] # Null
             /\ comments[comments[c].parent].post = comments[c].post

\* A comment is only stored on a post that accepted comments at some instant
\* between the arrival of its request and the insert: CreateComment may act on
\* a check a concurrent SetCommentsEnabled has outdated, but never on one that
\* was already outdated when the request came in.
AcceptedWhileEnabled ==
    \A c \in CommentId : comments[c] # Null => comments[c].post \in openDuring[c]

\* An event never precedes its comment: when the bus is handed one, any reader
\* finds the comment, so the subscription resolver's GetComment does.
EventsAreVisible ==
    \A i \in DOMAIN events : comments[events[i]] # Null

\* The registry of a request runs at most once: no event is announced twice.
AnnouncedAtMostOnce ==
    \A i, j \in DOMAIN events : events[i] = events[j] => i = j

\* A request that was refused has written nothing; the memory backend, which
\* has no rollback, needs every check to come before the first write.
RefusedLeavesNoTrace ==
    \A r \in Requests : result[r] \in Refusals => /\ comments[r] = Null
                                                 /\ posts[r] = Null

\* A request that succeeded is in the store as asked, restarts included.
AcknowledgedIsStored ==
    \A r \in Requests : result[r] = "ok" =>
        /\ call[r].op = "createComment" => comments[r] = NewComment(r)
        /\ call[r].op = "createPost" =>
             posts[r] # Null /\ posts[r].author = call[r].user

\* An event is only announced for a comment every reader finds, and only once.
EventsAreFaithful == EventsAreVisible /\ AnnouncedAtMostOnce

\* What a client was told is what happened: nothing of a refused request is in
\* the store, and all of an acknowledged one.
AnswersAreTrue == RefusedLeavesNoTrace /\ AcknowledgedIsStored

\* A request holds a connection exactly while its transaction or its
\* notification is open: none leaks, and no request waits for a connection
\* while it keeps another one from the pool.
HoldsConn(r) ==
    stage[r] \in {"getPost", "getParent", "write", "commit", "rollback", "notify"}

ConnectionsAccounted ==
    /\ conns = {r \in Requests : backend = "postgres" /\ HoldsConn(r)}
    /\ Cardinality(conns) <= MaxConns

\* A stored post only ever changes by a SetCommentsEnabled of its own author,
\* to the value asked for, although Update rewrites every column from a copy
\* read earlier.
Toggled ==
    \A p \in PostId : posts[p] # Null /\ posts'[p] # posts[p] =>
        /\ posts'[p] # Null /\ posts'[p].author = posts[p].author
        /\ \E r \in Requests :
             /\ stage[r] # stage'[r]
             /\ call[r].op = "setCommentsEnabled"
             /\ call[r].post = p /\ call[r].user = posts[p].author
             /\ posts'[p].commentsEnabled = call[r].enabled

OnlyAuthorToggles == [][Toggled]_vars

\* A request that reached the service is answered, also when there are fewer
\* connections than requests: nobody waits for a connection or a row lock whose
\* holder waits in turn.
EveryRequestReturns ==
    \A r \in Requests : stage[r] = "begin" ~> stage[r] = "done"

=============================================================================
