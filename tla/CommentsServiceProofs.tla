----------------------- MODULE CommentsServiceProofs -----------------------
(***************************************************************************)
(* The safety of CommentsService for any requests, posts, users, pool size *)
(* and inputs, over either backend.  No invariant of CommentsService is    *)
(* inductive: each rests on what a request has established at the stage it *)
(* has reached.  IInv says that, stage by stage.                           *)
(***************************************************************************)
EXTENDS CommentsService, TLAPS, FiniteSetTheorems

\* A request that has arrived has an input, and it stands where its operation
\* can be.
Routed ==
    \A r \in Requests :
        /\ stage[r] # "idle" => call[r] \in Calls
        /\ stage[r] = "getPost" => call[r].op # "createPost"
        /\ stage[r] \in {"getParent", "publish", "notify"} =>
             call[r].op = "createComment"
        /\ stage[r] = "getParent" => call[r].parent # Null
        /\ r \in afterCommit => /\ call[r] \in Calls
                                /\ call[r].op = "createComment"
                                /\ stage[r] \in {"commit", "publish", "notify", "done"}

\* What is named by a request was written by it, and not before its write.
Owned ==
    \A r \in Requests :
        /\ \/ stage[r] \in {"idle", "begin", "getPost", "getParent", "write", "rollback"}
           \/ stage[r] = "commit" /\ backend = "postgres"
           => comments[r] = Null /\ posts[r] = Null
        /\ comments[r] # Null => /\ call[r] \in Calls
                                 /\ call[r].op = "createComment"
                                 /\ comments[r] = NewComment(r)
        /\ posts[r] # Null => /\ call[r] \in Calls
                              /\ call[r].op = "createPost"
                              /\ posts[r].author = call[r].user

\* The checks a request has passed still stand when it writes.
Checked ==
    \A r \in Requests :
        /\ stage[r] \in {"getParent", "write", "commit"} /\ call[r].op # "createPost" =>
             /\ posts[call[r].post] # Null
             /\ call[r].op = "createComment" => call[r].post \in openDuring[r]
        /\ /\ stage[r] \in {"write", "commit"}
           /\ call[r].op = "createComment" /\ call[r].parent # Null
           => /\ comments[call[r].parent] # Null
              /\ comments[call[r].parent].post = call[r].post
        /\ stage[r] \in {"write", "commit"} /\ call[r].op = "setCommentsEnabled" =>
             /\ draft[r] # Null
             /\ draft[r].author = posts[call[r].post].author
             /\ draft[r].author = call[r].user
             /\ draft[r].commentsEnabled = call[r].enabled

\* The history of a request in flight holds every post open now.
SeesOpen ==
    \A r \in Requests : InFlight(r) => OpenPosts(posts) \subseteq openDuring[r]

\* Nothing is answered before the end, and past the write the row is there.
Answered ==
    \A r \in Requests :
        /\ stage[r] \notin {"rollback", "done"} => result[r] = "none"
        /\ stage[r] = "rollback" => result[r] \in Refusals \cup {"INTERNAL"}
        /\ \/ backend = "memory" /\ stage[r] = "commit"
           \/ stage[r] \in {"publish", "notify"}
           => /\ call[r].op = "createComment" => comments[r] # Null
              /\ call[r].op = "createPost" => posts[r] # Null

\* A request is announced by its last step.
AnnouncedLast == \A i \in DOMAIN events : stage[events[i]] = "done"

IInv ==
    /\ TypeOK
    /\ Routed /\ Owned /\ Checked /\ SeesOpen /\ Answered /\ AnnouncedLast
    /\ ThreadIntegrity
    /\ AcceptedWhileEnabled
    /\ EventsAreVisible
    /\ AnnouncedAtMostOnce
    /\ RefusedLeavesNoTrace
    /\ AcknowledgedIsStored

-----------------------------------------------------------------------------
\* The fields of a call, by operation.
LEMMA CallFields ==
    ASSUME NEW c \in Calls
    PROVE  /\ c \in Call
           /\ c # Null
           /\ c.op \in {"createPost", "setCommentsEnabled", "createComment"}
           /\ c.parent \in CommentId \cup {Null}
           /\ c.enabled \in BOOLEAN /\ c.valid \in BOOLEAN
           /\ c.op # "createComment" => c.user \in Users
           /\ c.op # "createPost" => c.post \in PostId
           /\ c.op # "createComment" => c.parent = Null
BY NullAssumption
   DEF Calls, CreatePostCalls, SetCommentsEnabledCalls, CreateCommentCalls, Call

LEMMA RefusalKinds ==
    ASSUME NEW r \in Requests
    PROVE  GetPostRefusal(r) \in Refusals \cup {"none"}
BY DEF GetPostRefusal, Refusals

LEMMA InitHolds == Init => IInv
<1> SUFFICES ASSUME Init PROVE IInv
  OBVIOUS
<1> USE DEF Init
<1>1. TypeOK
  BY BackendAssumption DEF TypeOK, Stages, Results
<1>2. Routed /\ Owned
  BY IdAssumption DEF Routed, Owned, PostId, CommentId
<1>3. Checked /\ SeesOpen /\ Answered /\ AnnouncedLast
  BY DEF Checked, SeesOpen, InFlight, Answered, AnnouncedLast
<1>4. /\ ThreadIntegrity /\ AcceptedWhileEnabled /\ EventsAreVisible
      /\ AnnouncedAtMostOnce /\ RefusedLeavesNoTrace /\ AcknowledgedIsStored
  BY DEF ThreadIntegrity, AcceptedWhileEnabled, EventsAreVisible,
         AnnouncedAtMostOnce, RefusedLeavesNoTrace, AcknowledgedIsStored, Refusals
<1>5. QED
  BY <1>1, <1>2, <1>3, <1>4 DEF IInv

-----------------------------------------------------------------------------
(* One lemma per group of actions, one step per part the group can disturb. *)

LEMMA InvokeKeeps ==
    ASSUME NEW r \in Requests, IInv, Invoke(r)
    PROVE  IInv'
<1> USE DEF Invoke, Goto, TypeOK, PostId, CommentId
<1>1. TypeOK'
  BY InputsAssumption DEF IInv, Stages, OpenPosts
<1>2. Routed'
  BY InputsAssumption DEF IInv, Routed
<1>3. Owned'
  BY DEF IInv, Owned, NewComment
<1>4. Checked'
  BY DEF IInv, Checked
<1>5. SeesOpen'
  BY DEF IInv, SeesOpen, InFlight, OpenPosts
<1>6. Answered' /\ AnnouncedLast'
  BY DEF IInv, Answered, AnnouncedLast, EventsAreVisible
<1>7. ThreadIntegrity' /\ EventsAreVisible' /\ AnnouncedAtMostOnce'
  BY DEF IInv, ThreadIntegrity, EventsAreVisible, AnnouncedAtMostOnce
<1>8. AcceptedWhileEnabled'
  BY DEF IInv, AcceptedWhileEnabled, Owned
<1>9. RefusedLeavesNoTrace' /\ AcknowledgedIsStored'
  BY DEF IInv, RefusedLeavesNoTrace, AcknowledgedIsStored, NewComment, Answered,
         Refusals
<1>10. QED
  BY <1>1, <1>2, <1>3, <1>4, <1>5, <1>6, <1>7, <1>8, <1>9 DEF IInv

\* Steps that write nothing and announce nothing.
Control(r) ==
    \/ BeginTx(r) \/ BeginTxFails(r) \/ GetPostRefused(r)
    \/ GetParent(r) \/ GetParentRefused(r) \/ WriteRefused(r)
    \/ StatementFails(r) \/ Rollback(r) \/ AcquireForNotify(r)

LEMMA ControlKeeps ==
    ASSUME NEW r \in Requests, IInv, Control(r)
    PROVE  IInv'
<1> USE RefusalKinds
    DEF Goto, Return, Abort, Refusals, store, Control, BeginTx, BeginTxFails,
        GetPostRefused, GetParent, GetParentRefused, WriteRefused,
        StatementFails, Rollback, AcquireForNotify
<1>1. TypeOK'
  BY DEF IInv, TypeOK, Stages, Results
<1>2. Routed'
  BY CallFields DEF IInv, TypeOK, Routed
<1>3. Owned'
  BY DEF IInv, TypeOK, Routed, Owned, NewComment
<1>4. Checked'
  <2>1. CASE GetParent(r)
    BY <2>1, CallFields DEF IInv, TypeOK, Routed, Checked
  <2>2. CASE BeginTx(r)
    BY <2>2, CallFields DEF IInv, TypeOK, Routed, Checked
  <2>3. CASE ~GetParent(r) /\ ~BeginTx(r)
    <3>1. /\ stage'[r] \in {"rollback", "notify", "done"}
          /\ \A q \in Requests \ {r} : stage'[q] = stage[q]
          /\ UNCHANGED <<posts, comments, call, draft>>
      BY <2>3 DEF IInv, TypeOK
    <3>2. QED
      BY <3>1 DEF IInv, Checked
  <2>4. QED
    BY <2>1, <2>2, <2>3
<1>5. SeesOpen'
  BY DEF IInv, TypeOK, SeesOpen, InFlight, OpenPosts
<1>6. Answered' /\ AnnouncedLast'
  BY DEF IInv, TypeOK, Answered, AnnouncedLast, CommentId
<1>7. ThreadIntegrity' /\ AcceptedWhileEnabled' /\ EventsAreVisible' /\ AnnouncedAtMostOnce'
  BY DEF IInv, ThreadIntegrity, AcceptedWhileEnabled, EventsAreVisible,
         AnnouncedAtMostOnce
<1>8. RefusedLeavesNoTrace'
  BY DEF IInv, TypeOK, RefusedLeavesNoTrace, Owned
<1>9. AcknowledgedIsStored'
  BY DEF IInv, TypeOK, AcknowledgedIsStored, NewComment, Answered
<1>10. QED
  BY <1>1, <1>2, <1>3, <1>4, <1>5, <1>6, <1>7, <1>8, <1>9 DEF IInv

LEMMA GetPostKeeps ==
    ASSUME NEW r \in Requests, IInv, GetPost(r)
    PROVE  IInv'
<1> DEFINE p == call[r].post
<1>1. /\ call[r] \in Calls /\ call[r].op # "createPost"
      /\ p \in PostId /\ call[r].enabled \in BOOLEAN
  BY CallFields DEF IInv, Routed, GetPost
<1>2. /\ posts[p] # Null /\ posts[p] \in Post
      /\ call[r].op = "createComment" => posts[p].commentsEnabled
      /\ call[r].op = "setCommentsEnabled" => call[r].user = posts[p].author
  BY <1>1 DEF IInv, TypeOK, GetPost, GetPostRefusal
<1>3. /\ draft' \in [Requests -> Post \cup {Null}]
      /\ call[r].op = "setCommentsEnabled" =>
           /\ draft'[r] # Null
           /\ draft'[r].author = posts[p].author
           /\ draft'[r].commentsEnabled = call[r].enabled
      /\ \A q \in Requests \ {r} : draft'[q] = draft[q]
  BY <1>1, <1>2, NullAssumption DEF IInv, TypeOK, GetPost, Post
<1>4. TypeOK'
  BY <1>3 DEF IInv, TypeOK, GetPost, Goto, Stages, store
<1> USE DEF GetPost, Goto, store
<1>5. Routed'
  BY <1>1, CallFields DEF IInv, TypeOK, Routed
<1>6. Owned'
  BY DEF IInv, TypeOK, Owned, NewComment
<1>7. InFlight(r) /\ (call[r].op = "createComment" => p \in OpenPosts(posts))
  BY <1>1, <1>2, CallFields DEF OpenPosts, InFlight
<1>8. Checked'
  <2> SUFFICES ASSUME NEW q \in Requests PROVE Checked!(q)'
    BY DEF Checked
  <2>1. CASE q # r
    BY <2>1, <1>3 DEF IInv, TypeOK, Checked
  <2>2. CASE q = r
    BY <2>2, <1>1, <1>2, <1>3, <1>7 DEF IInv, TypeOK, SeesOpen
  <2>3. QED
    BY <2>1, <2>2
<1>9. SeesOpen' /\ Answered' /\ AnnouncedLast'
  BY DEF IInv, TypeOK, SeesOpen, InFlight, OpenPosts, Answered, AnnouncedLast, CommentId
<1>10. /\ ThreadIntegrity' /\ AcceptedWhileEnabled' /\ EventsAreVisible'
       /\ AnnouncedAtMostOnce' /\ RefusedLeavesNoTrace' /\ AcknowledgedIsStored'
  BY DEF IInv, ThreadIntegrity, AcceptedWhileEnabled, EventsAreVisible,
         AnnouncedAtMostOnce, RefusedLeavesNoTrace, AcknowledgedIsStored, NewComment
<1>11. QED
  BY <1>4, <1>5, <1>6, <1>8, <1>9, <1>10 DEF IInv
-----------------------------------------------------------------------------
\* What a write of request r may do to the rows: nothing is lost, authors stay,
\* and what is new is what r was asked to create.
StoreStep(r) ==
    /\ posts' \in [PostId -> Post \cup {Null}]
    /\ comments' \in [CommentId -> Comment \cup {Null}]
    /\ openDuring' \in [Requests -> SUBSET PostId]
    /\ \A p \in PostId : posts[p] # Null =>
         posts'[p] # Null /\ posts'[p].author = posts[p].author
    /\ \A q \in Requests \ {r} : /\ posts[q] = Null => posts'[q] = Null
                                 /\ comments'[q] = comments[q]
    /\ comments[r] # Null => comments'[r] = comments[r]
    /\ posts'[r] # Null => /\ call[r].op = "createPost"
                           /\ posts'[r].author = call[r].user
    /\ comments'[r] # Null => /\ call[r].op = "createComment"
                              /\ comments'[r] = NewComment(r)
    /\ \A q \in Requests : openDuring[q] \subseteq openDuring'[q]
    /\ \A q \in Requests : InFlight(q) => OpenPosts(posts') \subseteq openDuring'[q]

LEMMA WriteRowsSteps ==
    ASSUME NEW r \in Requests, IInv, stage[r] \in {"write", "commit"},
           WriteRows(r) \/ UNCHANGED store
    PROVE  /\ StoreStep(r)
           /\ WriteRows(r) => /\ call[r].op = "createPost" => posts'[r] # Null
                              /\ call[r].op = "createComment" => comments'[r] # Null
<1>1. call[r] \in Calls
  BY DEF IInv, Routed
<1>2. CASE UNCHANGED store /\ ~WriteRows(r)
  BY <1>2 DEF IInv, TypeOK, StoreStep, store, Owned, SeesOpen, NewComment, PostId, CommentId
<1>3. CASE WriteRows(r) /\ call[r].op = "createComment"
  <2>1. NewComment(r) \in Comment
    BY <1>1, <1>3, CallFields DEF NewComment, Comment
  <2>2. QED
    BY <1>3, <2>1, NullAssumption
       DEF WriteRows, IInv, TypeOK, StoreStep, Owned, SeesOpen, NewComment, PostId, CommentId
<1>4. CASE WriteRows(r) /\ call[r].op = "createPost"
  <2>1. NewPost(r) \in Post /\ NewPost(r) # Null
    <3>1. call[r].user \in Users
      BY <1>1, <1>4, CallFields
    <3>2. NewPost(r) \in Post
      BY <3>1 DEF NewPost, Post
    <3>3. QED
      BY <3>2, NullAssumption
  <2>2. posts' = [posts EXCEPT ![r] = NewPost(r)] /\ comments' = comments
    BY <1>4 DEF WriteRows, PutPost
  <2>3. openDuring' = [q \in Requests |-> IF InFlight(q)
                         THEN openDuring[q] \cup OpenPosts(posts') ELSE openDuring[q]]
    BY <1>4 DEF WriteRows, PutPost
  <2>4. posts[r] # Null => posts[r].author = call[r].user
    BY DEF IInv, Owned
  <2>5. QED
    BY <1>4, <2>1, <2>2, <2>3, <2>4
       DEF IInv, TypeOK, StoreStep, Owned, NewComment, NewPost, PostId, CommentId, OpenPosts
<1>5. CASE WriteRows(r) /\ call[r].op = "setCommentsEnabled"
  <2> DEFINE p == call[r].post
  <2>1. p \in PostId /\ posts[p] # Null
    BY <1>1, <1>5, CallFields DEF IInv, Checked
  <2>2. draft[r] \in Post /\ draft[r] # Null /\ draft[r].author = posts[p].author
    BY <1>5 DEF IInv, TypeOK, Checked
  <2>3. posts' = [posts EXCEPT ![p] = draft[r]] /\ comments' = comments
    BY <1>5 DEF WriteRows, PutPost
  <2>4. openDuring' = [q \in Requests |-> IF InFlight(q)
                         THEN openDuring[q] \cup OpenPosts(posts') ELSE openDuring[q]]
    BY <1>5 DEF WriteRows, PutPost
  <2>5. posts[r] = Null /\ comments[r] = Null /\ p # r
    BY <1>5, <2>1 DEF IInv, Owned
  <2>6. QED
    BY <1>5, <2>1, <2>2, <2>3, <2>4, <2>5
       DEF IInv, TypeOK, StoreStep, PostId, CommentId, OpenPosts
<1>6. QED
  BY <1>1, <1>2, <1>3, <1>4, <1>5, CallFields

\* A write, a commit and a failed commit: the store steps and r moves on.
Stores(r) == Write(r) \/ Commit(r) \/ CommitFails(r)

LEMMA StoresKeeps ==
    ASSUME NEW r \in Requests, IInv, Stores(r)
    PROVE  IInv'
<1>1. /\ stage[r] \in {"write", "commit"}
      /\ WriteRows(r) \/ UNCHANGED store
      /\ UNCHANGED <<backend, call, draft, events>>
  BY DEF Stores, Write, Commit, CommitFails, Return, Goto
<1>2. StoreStep(r)
  BY <1>1, WriteRowsSteps
<1>3. \/ backend = "memory" /\ stage'[r] = "commit"
      \/ stage'[r] = "publish"
      \/ result'[r] = "ok"
      => /\ call[r].op = "createPost" => posts'[r] # Null
         /\ call[r].op = "createComment" => comments'[r] # Null
  BY <1>1, WriteRowsSteps
     DEF Stores, Write, Commit, CommitFails, Return, Goto, IInv, TypeOK, Answered, store
<1>4. /\ \A q \in Requests \ {r} : stage'[q] = stage[q] /\ result'[q] = result[q]
      /\ stage'[r] \in {"commit", "publish", "done"}
      /\ stage'[r] = "commit" => result'[r] = "none" /\ stage[r] = "write"
      /\ stage'[r] = "publish" => result'[r] = "none" /\ r \in afterCommit
      /\ result'[r] \notin Refusals
      /\ stage' \in [Requests -> Stages]
      /\ result' \in [Requests -> Results]
      /\ conns' \in SUBSET Requests
  BY DEF Stores, Write, Commit, CommitFails, Return, Goto, IInv, TypeOK, Answered,
         Stages, Results, Refusals
<1>5. /\ afterCommit' \in SUBSET Requests
      /\ afterCommit' \subseteq afterCommit \cup {r}
      /\ r \in afterCommit' => /\ call[r].op = "createComment"
                               /\ stage'[r] \in {"commit", "publish", "done"}
  BY <1>4 DEF Stores, Write, Commit, CommitFails, IInv, TypeOK, Routed
<1>6. TypeOK'
  BY <1>1, <1>2, <1>4, <1>5 DEF IInv, TypeOK, StoreStep
<1>7. Routed'
  BY <1>1, <1>4, <1>5 DEF IInv, TypeOK, Routed
<1>8. Owned'
  <2> SUFFICES ASSUME NEW q \in Requests PROVE Owned!(q)'
    BY DEF Owned
  <2>1. Owned!(q) /\ (stage[q] # "idle" => call[q] \in Calls) /\ call'[q] = call[q]
    BY <1>1 DEF IInv, Owned, Routed
  <2>2. stage'[r] = "commit" /\ backend = "postgres" =>
          comments'[r] = Null /\ posts'[r] = Null
    <3>1. stage'[r] = "commit" => Write(r)
      BY <1>4 DEF Stores, Commit, CommitFails
    <3>2. QED
      BY <1>4, <3>1 DEF Write, store, IInv, Owned
  <2>3. CASE q = r
    BY <1>1, <1>2, <1>4, <2>1, <2>2, <2>3 DEF StoreStep, NewComment
  <2>4. CASE q # r
    BY <1>1, <1>2, <1>4, <2>1, <2>4 DEF StoreStep, NewComment, PostId
  <2>5. QED
    BY <2>3, <2>4
<1>9. Checked'
  <2> SUFFICES ASSUME NEW q \in Requests PROVE Checked!(q)'
    BY DEF Checked
  <2>1. stage'[q] \in {"getParent", "write", "commit"} =>
          /\ \/ stage[q] = stage'[q]
             \/ stage[q] = "write" /\ stage'[q] = "commit"
          /\ call[q] \in Calls
    <3>1. stage[q] # "idle" => call[q] \in Calls
      BY DEF IInv, Routed
    <3>2. QED
      BY <1>1, <1>4, <3>1
  <2>2. Checked!(q)
    BY DEF IInv, Checked
  <2>3. \A c \in CommentId : comments[c] # Null => comments'[c] = comments[c]
    BY <1>2 DEF StoreStep, CommentId
  <2>4. QED
    BY <1>1, <1>2, <2>1, <2>2, <2>3, CallFields DEF StoreStep
<1>10. SeesOpen'
  BY <1>1, <1>2, <1>4 DEF IInv, SeesOpen, InFlight, StoreStep
<1>11. Answered'
  BY <1>1, <1>2, <1>3, <1>4 DEF IInv, Answered, StoreStep, PostId, CommentId
<1>12. AnnouncedLast'
  BY <1>1, <1>4 DEF IInv, TypeOK, AnnouncedLast, CommentId
<1>13. EventsAreVisible' /\ AnnouncedAtMostOnce'
  BY <1>1, <1>2 DEF IInv, TypeOK, EventsAreVisible, AnnouncedAtMostOnce, StoreStep, CommentId
<1>14. ThreadIntegrity'
  <2> SUFFICES ASSUME NEW c \in CommentId, comments'[c] # Null
               PROVE  /\ posts'[comments'[c].post] # Null
                      /\ comments'[c].parent # Null =>
                           /\ comments'[comments'[c].parent] # Null
                           /\ comments'[comments'[c].parent].post = comments'[c].post
    BY DEF ThreadIntegrity
  <2>1. \A d \in CommentId : comments[d] # Null => comments'[d] = comments[d]
    BY <1>2 DEF StoreStep, CommentId
  <2>2. CASE comments[c] # Null
    <3>1. comments[c] \in Comment
      BY <2>2 DEF IInv, TypeOK
    <3>2. QED
      BY <1>2, <2>1, <2>2, <3>1 DEF IInv, ThreadIntegrity, StoreStep, Comment
  <2>3. CASE comments[c] = Null
    <3>1. c = r /\ call[r].op = "createComment" /\ comments'[r] = NewComment(r)
      BY <1>2, <2>3 DEF StoreStep, CommentId
    <3>2. call[r] \in Calls
      BY <1>1 DEF IInv, Routed
    <3>3. /\ posts[call[r].post] # Null
          /\ call[r].parent # Null => /\ comments[call[r].parent] # Null
                                      /\ comments[call[r].parent].post = call[r].post
      BY <1>1, <3>1 DEF IInv, Checked
    <3>4. QED
      BY <1>2, <2>1, <3>1, <3>2, <3>3, CallFields DEF StoreStep, NewComment
  <2>4. QED
    BY <2>2, <2>3
<1>15. AcceptedWhileEnabled'
  BY <1>1, <1>2 DEF IInv, AcceptedWhileEnabled, Checked, StoreStep, NewComment, CommentId
<1>16. RefusedLeavesNoTrace'
  BY <1>2, <1>4 DEF IInv, RefusedLeavesNoTrace, StoreStep, PostId, CommentId
<1>17. AcknowledgedIsStored'
  <2> SUFFICES ASSUME NEW q \in Requests, result'[q] = "ok"
               PROVE  /\ call[q].op = "createComment" => comments'[q] = NewComment(q)
                      /\ call[q].op = "createPost" =>
                           posts'[q] # Null /\ posts'[q].author = call[q].user
    BY <1>1 DEF AcknowledgedIsStored, NewComment
  <2>1. CASE q = r
    BY <1>2, <1>3, <2>1 DEF StoreStep
  <2>2. CASE q # r
    <3>1. /\ call[q].op = "createComment" => comments[q] = NewComment(q)
          /\ call[q].op = "createPost" => posts[q] # Null /\ posts[q].author = call[q].user
      BY <1>4, <2>2 DEF IInv, AcknowledgedIsStored
    <3>2. QED
      BY <1>2, <2>2, <3>1 DEF StoreStep, PostId
  <2>3. QED
    BY <2>1, <2>2
<1>18. QED
  BY <1>6, <1>7, <1>8, <1>9, <1>10, <1>11, <1>12, <1>13, <1>14, <1>15, <1>16, <1>17
     DEF IInv
-----------------------------------------------------------------------------
\* What runs after the commit: only the events and the answers change.
Announces(r) == PublishInMemory(r) \/ PublishPanics(r) \/ Notify(r) \/ NotifyFails(r)

LEMMA AnnouncesKeeps ==
    ASSUME NEW r \in Requests, IInv, Announces(r)
    PROVE  IInv'
<1>1. /\ stage[r] \in {"publish", "notify"}
      /\ events' \in {events, Append(events, r)}
      /\ result' = [result EXCEPT ![r] = result'[r]] /\ result'[r] \in {"ok", "INTERNAL"}
      /\ stage' = [stage EXCEPT ![r] = "done"]
      /\ conns' \in SUBSET Requests
      /\ UNCHANGED <<backend, store, call, draft, afterCommit>>
  BY DEF Announces, PublishInMemory, PublishPanics, Notify, NotifyFails, Return,
         Goto, IInv, TypeOK
<1>2. /\ comments[r] # Null /\ call[r].op = "createComment"
      /\ comments[r] = NewComment(r)
      /\ \A i \in DOMAIN events : events[i] # r
  BY <1>1 DEF IInv, Routed, Answered, Owned, AnnouncedLast
<1>3. /\ events' \in Seq(CommentId)
      /\ \A i \in DOMAIN events' : \/ i \in DOMAIN events /\ events'[i] = events[i]
                                   \/ i = Len(events) + 1 /\ events'[i] = r
      /\ \A i \in DOMAIN events : i # Len(events) + 1
  <2>1. events \in Seq(CommentId) /\ r \in CommentId
    BY DEF IInv, TypeOK, CommentId
  <2>2. CASE events' = events
    BY <2>1, <2>2
  <2>3. CASE events' = Append(events, r)
    BY <2>1, <2>3
  <2>4. QED
    BY <1>1, <2>2, <2>3
<1>4. TypeOK'
  BY <1>1, <1>3 DEF IInv, TypeOK, store, Stages, Results
<1>5. Routed' /\ Owned'
  BY <1>1 DEF IInv, TypeOK, Routed, Owned, store, NewComment
<1>6. Checked' /\ SeesOpen'
  BY <1>1 DEF IInv, TypeOK, Checked, SeesOpen, InFlight, OpenPosts, store
<1>7. Answered'
  BY <1>1 DEF IInv, TypeOK, Answered, store
<1>8. AnnouncedLast'
  BY <1>1, <1>3 DEF IInv, TypeOK, AnnouncedLast, CommentId
<1>9. ThreadIntegrity' /\ AcceptedWhileEnabled'
  BY <1>1 DEF IInv, ThreadIntegrity, AcceptedWhileEnabled, store
<1>10. EventsAreVisible'
  BY <1>1, <1>2, <1>3 DEF IInv, EventsAreVisible, store
<1>11. AnnouncedAtMostOnce'
  BY <1>2, <1>3 DEF IInv, AnnouncedAtMostOnce
<1>12. RefusedLeavesNoTrace'
  BY <1>1 DEF IInv, TypeOK, RefusedLeavesNoTrace, store, Refusals
<1>13. AcknowledgedIsStored'
  BY <1>1, <1>2 DEF IInv, TypeOK, AcknowledgedIsStored, store, NewComment
<1>14. QED
  BY <1>4, <1>5, <1>6, <1>7, <1>8, <1>9, <1>10, <1>11, <1>12, <1>13 DEF IInv

LEMMA RestartKeeps ==
    ASSUME IInv, Restart
    PROVE  IInv'
<1>1. /\ \A r \in Requests :
           \/ stage'[r] = stage[r] /\ result'[r] = result[r] /\ ~InFlight(r)
           \/ stage'[r] = "done" /\ result'[r] = "lost" /\ InFlight(r)
      /\ \A r \in Requests : stage[r] = "done" => stage'[r] = "done"
      /\ stage' \in [Requests -> Stages] /\ result' \in [Requests -> Results]
      /\ conns' = {}
      /\ UNCHANGED <<backend, store, call, draft, afterCommit, events>>
  BY DEF Restart, InFlight, IInv, TypeOK, Stages, Results
<1>2. TypeOK'
  BY <1>1 DEF IInv, TypeOK, store
<1>3. Routed' /\ Owned'
  BY <1>1 DEF IInv, Routed, Owned, InFlight, store, NewComment
<1>4. Checked' /\ SeesOpen' /\ Answered'
  BY <1>1 DEF IInv, Checked, SeesOpen, Answered, InFlight, store
<1>5. AnnouncedLast'
  BY <1>1 DEF IInv, TypeOK, AnnouncedLast, CommentId
<1>6. ThreadIntegrity' /\ AcceptedWhileEnabled' /\ EventsAreVisible' /\ AnnouncedAtMostOnce'
  BY <1>1 DEF IInv, ThreadIntegrity, AcceptedWhileEnabled, EventsAreVisible,
              AnnouncedAtMostOnce, store
<1>7. RefusedLeavesNoTrace' /\ AcknowledgedIsStored'
  BY <1>1 DEF IInv, RefusedLeavesNoTrace, AcknowledgedIsStored, NewComment, store, Refusals
<1>8. QED
  BY <1>2, <1>3, <1>4, <1>5, <1>6, <1>7 DEF IInv

LEMMA StutterKeeps ==
    ASSUME IInv, UNCHANGED vars
    PROVE  IInv'
<1>1. TypeOK' /\ Routed' /\ Owned'
  BY DEF vars, IInv, TypeOK, Routed, Owned, NewComment
<1>2. Checked' /\ SeesOpen'
  BY DEF vars, IInv, Checked, SeesOpen, InFlight, OpenPosts
<1>3. Answered' /\ AnnouncedLast'
  BY DEF vars, IInv, Answered, AnnouncedLast
<1>4. ThreadIntegrity' /\ AcceptedWhileEnabled' /\ EventsAreVisible' /\ AnnouncedAtMostOnce'
  BY DEF vars, IInv, ThreadIntegrity, AcceptedWhileEnabled, EventsAreVisible,
         AnnouncedAtMostOnce
<1>5. RefusedLeavesNoTrace' /\ AcknowledgedIsStored'
  BY DEF vars, IInv, RefusedLeavesNoTrace, AcknowledgedIsStored, NewComment
<1>6. QED
  BY <1>1, <1>2, <1>3, <1>4, <1>5 DEF IInv

LEMMA NextKeeps == IInv /\ [Next]_vars => IInv'
<1> SUFFICES ASSUME IInv, [Next]_vars PROVE IInv'
  OBVIOUS
<1>1. ASSUME NEW r \in Requests, Invoke(r) PROVE IInv'
  BY <1>1, InvokeKeeps
<1>2. ASSUME NEW r \in Requests, Progress(r) PROVE IInv'
  <2>1. CASE Control(r)
    BY <2>1, ControlKeeps
  <2>2. CASE GetPost(r)
    BY <2>2, GetPostKeeps
  <2>3. CASE Stores(r)
    BY <2>3, StoresKeeps
  <2>4. CASE Announces(r)
    BY <2>4, AnnouncesKeeps
  <2>5. QED
    BY <1>2, <2>1, <2>2, <2>3, <2>4 DEF Progress, Control, Stores, Announces
<1>3. ASSUME NEW r \in Requests, Failure(r) PROVE IInv'
  <2>1. CASE Control(r)
    BY <2>1, ControlKeeps
  <2>2. CASE Stores(r)
    BY <2>2, StoresKeeps
  <2>3. CASE Announces(r)
    BY <2>3, AnnouncesKeeps
  <2>4. QED
    BY <1>3, <2>1, <2>2, <2>3 DEF Failure, Control, Stores, Announces
<1>4. CASE Restart
  BY <1>4, RestartKeeps
<1>5. CASE Quiescent \/ UNCHANGED vars
  BY <1>5, StutterKeeps DEF Quiescent
<1>6. QED
  BY <1>1, <1>2, <1>3, <1>4, <1>5 DEF Next

LEMMA IInvHolds == Spec => []IInv
BY InitHolds, NextKeeps, PTL DEF Spec

-----------------------------------------------------------------------------
\* Every variable always holds what the code's variables can hold.
THEOREM TypeCorrect == Spec => []TypeOK
<1>1. IInv => TypeOK
  BY DEF IInv
<1>2. QED
  BY <1>1, IInvHolds, PTL

\* No comment is ever stored without its post, and no reply without its parent
\* on the same post, whatever requests interleave, fail or are cut off.
THEOREM ThreadIntegrityHolds == Spec => []ThreadIntegrity
<1>1. IInv => ThreadIntegrity
  BY DEF IInv
<1>2. QED
  BY <1>1, IInvHolds, PTL

\* A comment's post accepted comments at some instant of the comment's request.
THEOREM AcceptedWhileEnabledHolds == Spec => []AcceptedWhileEnabled
<1>1. IInv => AcceptedWhileEnabled
  BY DEF IInv
<1>2. QED
  BY <1>1, IInvHolds, PTL

\* The event bus is only handed comments that every reader finds, each of them
\* at most once.
THEOREM EventsHold == Spec => []EventsAreFaithful
<1>1. IInv => EventsAreFaithful
  BY DEF IInv, EventsAreFaithful
<1>2. QED
  BY <1>1, IInvHolds, PTL

\* What a request answers agrees with what it left in the store: a refusal left
\* nothing, a success what was asked.
THEOREM AnswersHold == Spec => []AnswersAreTrue
<1>1. IInv => AnswersAreTrue
  BY DEF IInv, AnswersAreTrue
<1>2. QED
  BY <1>1, IInvHolds, PTL

-----------------------------------------------------------------------------
LEMMA WritesToggle ==
    ASSUME NEW r \in Requests, IInv, Stores(r)
    PROVE  Toggled
<1>1. /\ stage[r] \in {"write", "commit"} /\ stage'[r] # stage[r]
      /\ WriteRows(r) \/ UNCHANGED posts
  BY DEF Stores, Write, Commit, CommitFails, Return, Goto, IInv, TypeOK, store
<1>2. call[r] \in Calls
  BY <1>1 DEF IInv, Routed
<1>3. StoreStep(r)
  BY <1>1, WriteRowsSteps DEF Stores, Write, Commit, CommitFails
<1>4. SUFFICES ASSUME NEW p \in PostId, posts[p] # Null, posts'[p] # posts[p]
               PROVE  /\ call[r].op = "setCommentsEnabled"
                      /\ call[r].post = p /\ call[r].user = posts[p].author
                      /\ posts'[p].commentsEnabled = call[r].enabled
  BY <1>1, <1>3 DEF Toggled, StoreStep
<1>5. WriteRows(r)
  BY <1>1, <1>4
<1>6. call[r].op # "createComment"
  BY <1>4, <1>5 DEF WriteRows
<1>7. call[r].op = "setCommentsEnabled"
  <2>1. CASE call[r].op = "createPost"
    <3>1. p = r
      BY <1>4, <1>5, <2>1 DEF WriteRows, PutPost, IInv, TypeOK
    <3>2. backend = "memory" => stage[r] = "write"
      BY <1>1, <1>4 DEF Stores, Write, Commit, CommitFails, store
    <3>3. posts[r] = Null
      BY <1>1, <3>2 DEF IInv, TypeOK, Owned
    <3>4. QED
      BY <1>4, <3>1, <3>3
  <2>2. QED
    BY <1>2, <1>6, <2>1, CallFields
<1>8. QED
  BY <1>1, <1>4, <1>5, <1>7 DEF WriteRows, PutPost, IInv, TypeOK, Checked

\* A stored post changes only by a toggle of its own author, to the value the
\* author asked for, although Update rewrites the whole row from an older copy.
THEOREM OnlyAuthorTogglesHolds == Spec => OnlyAuthorToggles
<1>1. ASSUME IInv, [Next]_vars PROVE [Toggled]_vars
  <2>1. CASE \E r \in Requests : Stores(r)
    BY <1>1, <2>1, WritesToggle
  <2>2. CASE posts' = posts
    BY <2>2 DEF Toggled
  <2>3. QED
    BY <1>1, <2>1, <2>2
       DEF Next, Invoke, Progress, Failure, Stores, Restart, Quiescent, vars, store,
           BeginTx, BeginTxFails, GetPost, GetPostRefused, GetParent, GetParentRefused,
           WriteRefused, StatementFails, Rollback, AcquireForNotify,
           PublishInMemory, PublishPanics, Notify, NotifyFails
<1>2. QED
  BY <1>1, IInvHolds, PTL DEF Spec, OnlyAuthorToggles

-----------------------------------------------------------------------------
(* The pool: connections are taken one at a time, under the guard, and each  *)
(* is given back by the step that leaves the stage that needs it.            *)

PoolInv == ConnectionsAccounted /\ IsFiniteSet(conns)

LEMMA TakeKeepsPool ==
    ASSUME NEW r \in Requests, TypeOK, PoolInv, FreeConn, backend = "postgres",
           UNCHANGED backend, conns' = conns \cup {r}, NEW s \in Stages,
           s \in {"getPost", "write", "notify"}, stage' = [stage EXCEPT ![r] = s]
    PROVE  PoolInv'
<1>1. IsFiniteSet(conns')
  BY FS_AddElement DEF PoolInv
<1>2. Cardinality(conns') <= MaxConns
  <2>1. Cardinality(conns) \in Nat
    BY FS_CardinalityType DEF PoolInv
  <2>2. Cardinality(conns') \in {Cardinality(conns), Cardinality(conns) + 1}
    BY FS_AddElement DEF PoolInv
  <2>3. QED
    BY <2>1, <2>2, PoolAssumption DEF FreeConn
<1>3. conns' = {q \in Requests : backend = "postgres" /\ HoldsConn(q)'}
  BY DEF PoolInv, ConnectionsAccounted, HoldsConn, TypeOK
<1>4. QED
  BY <1>1, <1>2, <1>3 DEF PoolInv, ConnectionsAccounted, HoldsConn

LEMMA GiveKeepsPool ==
    ASSUME TypeOK, PoolInv, UNCHANGED backend, conns' \in SUBSET conns,
           conns' = {q \in Requests : backend = "postgres" /\ HoldsConn(q)'}
    PROVE  PoolInv'
<1>1. IsFiniteSet(conns') /\ Cardinality(conns') <= Cardinality(conns)
  BY FS_Subset DEF PoolInv
<1>2. Cardinality(conns) \in Nat /\ Cardinality(conns') \in Nat
  BY <1>1, FS_CardinalityType DEF PoolInv
<1>3. Cardinality(conns') <= MaxConns
  BY <1>1, <1>2, PoolAssumption DEF PoolInv, ConnectionsAccounted
<1>4. QED
  BY <1>1, <1>3 DEF PoolInv, ConnectionsAccounted, HoldsConn

LEMMA StepKeepsPool ==
    ASSUME NEW r \in Requests, TypeOK, PoolInv,
           Invoke(r) \/ Progress(r) \/ Failure(r)
    PROVE  PoolInv'
<1> USE DEF Goto, Return, Abort
<1>1. CASE BeginTx(r)
  <2>1. CASE backend = "postgres"
    <3> DEFINE s == IF call[r].op = "createPost" THEN "write" ELSE "getPost"
    <3>1. s \in Stages /\ s \in {"getPost", "write", "notify"}
      BY DEF Stages
    <3>2. /\ FreeConn /\ UNCHANGED backend
          /\ conns' = conns \cup {r} /\ stage' = [stage EXCEPT ![r] = s]
      BY <1>1, <2>1 DEF BeginTx
    <3>3. QED
      BY <2>1, <3>1, <3>2, TakeKeepsPool
  <2>2. CASE backend # "postgres"
    BY <1>1, <2>2, GiveKeepsPool DEF BeginTx, PoolInv, ConnectionsAccounted
  <2>3. QED
    BY <2>1, <2>2
<1>2. CASE AcquireForNotify(r)
  BY <1>2, TakeKeepsPool DEF AcquireForNotify, Stages
<1>3. CASE \/ Invoke(r) \/ BeginTxFails(r)
           \/ GetPost(r) \/ GetPostRefused(r) \/ GetParent(r) \/ GetParentRefused(r)
           \/ Write(r) \/ WriteRefused(r) \/ StatementFails(r)
  <2>1. conns' = conns /\ conns' \in SUBSET conns /\ UNCHANGED backend
    BY <1>3 DEF Invoke, BeginTxFails, GetPost, GetPostRefused, GetParent,
                GetParentRefused, Write, WriteRefused, StatementFails
  <2>2. \A q \in Requests \ {r} : stage'[q] = stage[q]
    BY <1>3 DEF Invoke, BeginTxFails, GetPost, GetPostRefused, GetParent, TypeOK,
                GetParentRefused, Write, WriteRefused, StatementFails
  <2>3. backend = "postgres" => (HoldsConn(r)' <=> HoldsConn(r))
    BY <1>3 DEF Invoke, BeginTxFails, GetPost, GetPostRefused, GetParent, TypeOK, HoldsConn,
                GetParentRefused, Write, WriteRefused, StatementFails
  <2>4. QED
    BY <2>1, <2>2, <2>3, GiveKeepsPool DEF PoolInv, ConnectionsAccounted, HoldsConn
<1>4. CASE \/ Rollback(r) \/ Commit(r) \/ CommitFails(r)
           \/ PublishInMemory(r) \/ PublishPanics(r) \/ Notify(r) \/ NotifyFails(r)
  <2>1. backend = "postgres" => conns' = conns \ {r}
    BY <1>4 DEF Rollback, Commit, CommitFails, PublishInMemory, PublishPanics,
                Notify, NotifyFails
  <2>2. /\ conns' \in {conns, conns \ {r}} /\ UNCHANGED backend
        /\ backend # "postgres" => conns = {}
    BY <1>4 DEF Rollback, Commit, CommitFails, PublishInMemory, PublishPanics,
                Notify, NotifyFails, PoolInv, ConnectionsAccounted
  <2>3. /\ ~HoldsConn(r)'
        /\ \A q \in Requests \ {r} : stage'[q] = stage[q]
    BY <1>4 DEF Rollback, Commit, CommitFails, PublishInMemory, PublishPanics,
                Notify, NotifyFails, TypeOK, HoldsConn
  <2>4. conns' = {q \in Requests : backend = "postgres" /\ HoldsConn(q)'}
    BY <2>1, <2>2, <2>3 DEF PoolInv, ConnectionsAccounted, HoldsConn
  <2>5. QED
    BY <2>2, <2>4, GiveKeepsPool
<1>5. QED
  BY <1>1, <1>2, <1>3, <1>4 DEF Progress, Failure

\* Connections are neither leaked nor shared, no more than MaxConns are out, and
\* a request that waits for one holds none: the pool cannot deadlock on itself.
THEOREM ConnectionsHold == Spec => []ConnectionsAccounted
<1>1. Init => PoolInv
  <2>1. Cardinality({}) = 0 /\ IsFiniteSet({})
    BY FS_EmptySet
  <2>2. QED
    BY <2>1, PoolAssumption DEF Init, PoolInv, ConnectionsAccounted, HoldsConn
<1>2. IInv /\ PoolInv /\ [Next]_vars => PoolInv'
  <2> SUFFICES ASSUME IInv, PoolInv, [Next]_vars PROVE PoolInv'
    OBVIOUS
  <2>1. TypeOK
    BY DEF IInv
  <2>2. ASSUME NEW r \in Requests, Invoke(r) \/ Progress(r) \/ Failure(r)
        PROVE  PoolInv'
    BY <2>1, <2>2, StepKeepsPool
  <2>3. CASE Restart
    <3>1. conns' = {q \in Requests : backend = "postgres" /\ HoldsConn(q)'}
      BY <2>1, <2>3 DEF Restart, HoldsConn, InFlight, TypeOK
    <3>2. QED
      BY <2>1, <2>3, <3>1, GiveKeepsPool DEF Restart
  <2>4. CASE Quiescent \/ UNCHANGED vars
    BY <2>4 DEF Quiescent, vars, PoolInv, ConnectionsAccounted, HoldsConn
  <2>5. QED
    BY <2>2, <2>3, <2>4 DEF Next
<1>3. PoolInv => ConnectionsAccounted
  BY DEF PoolInv
<1>4. QED
  BY <1>1, <1>2, <1>3, IInvHolds, PTL DEF Spec
=============================================================================
