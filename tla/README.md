# Comments-Service: TLA+ specification, model checking and proofs

Comments-Service is a Go service with a GraphQL API: users create posts, comment on
them in threads, switch the comments of their own posts on and off, page through posts
and comments, and subscribe to the new comments of a post. It runs on one of two
backends: process memory, or PostgreSQL with `LISTEN`/`NOTIFY` for the events.

This directory holds TLA+ models of it, from the flags of `main` to the comment a
subscriber is shown, TLC configurations that check
them on small instances, and TLAPS proofs of the main properties for every instance.
`PROJECT.json` lists for each definition the source lines it models.

Run a check with `tlc -config <X>.cfg <MC module>.tla`, a proof with
`tlapm <module>Proofs.tla`.

## 1. The system

| component | source | state | operations | talks to |
|---|---|---|---|---|
| mutations | `internal/application` | none of its own; an after-commit registry per call | `CreatePost`, `SetCommentsEnabled`, `CreateComment`, reads | repositories, `TxManager`, event publisher |
| PostgreSQL transactions | `storage/postgres/tx_manager.go`, `dbtx.go`, `context.go` | the pool's connections; the transaction in the context | `WithinTx` | pool, registry |
| memory storage | `storage/memory` | two maps under one `RWMutex` | create, get, update, list, count, batch | - |
| PostgreSQL storage | `storage/postgres` | tables `posts`, `comments` | the same | transaction or pool |
| memory bus | `events/memory/bus.go` | map post -> subscribers, `closed`; a buffered channel each | publish, subscribe, unsubscribe, close | resolver goroutines |
| PostgreSQL bus | `events/postgres/bus.go` | the same, a listening connection, a listen goroutine | the same; `listen`, `dispatch` | pool, PostgreSQL |
| subscription resolver | `graphql/schema.resolvers.go` | a goroutine and an unbuffered channel per subscription | `CommentAdded` | bus, comments service |
| request state, loaders | `graphql/request_state.go`, `loaders.go` | caches per HTTP request or WebSocket | batched loads, lazy counts | services |
| pagination | `domain/pagination.go`, the repositories | none | keyset pages | - |
| domain | `domain/*.go` | entities | constructors, authorization, cursors | - |
| GraphQL transport | `graphql/server.go`, `guards.go`, `actor.go`, `errors.go` | none | limits, the acting user, error codes, recover | services |
| container, `main` | `di/container.go`, `httpserver`, `cmd` | the container's fields, the stack of closers, the server's goroutine | init, build, close, shutdown | everything |
| configuration | `config`, `logging` | none | load, validate | - |
| generated executor | `graphql/generated` | none | complexity, which resolver follows which | resolvers |

What is hard here, and what makes each part correct:

* **Mutations** run concurrently, one goroutine each, and check before they write: the
  post exists, accepts comments and belongs to the actor, the parent is on the same post.
  In PostgreSQL each statement of a READ COMMITTED transaction sees a newer snapshot; in
  memory each repository call is its own critical section. Correct means: threads stay
  within one post, no comment is accepted on a check that was already false when the
  request arrived, posts change only as their authors ask, refused requests leave nothing,
  acknowledged ones are stored.
* **Transactions** can fail at every step, COMMIT ambiguously. The event of a comment must
  follow the commit, once, and never precede a visible comment. The same pool serves the
  transaction and the later notification, so a call that kept the first connection while
  asking for the second could starve everybody.
* **The buses** hand events to subscribers that come, are cancelled from two goroutines,
  lag, and are closed at shutdown. Correct means: registered exactly while open, faithful
  delivery, loss only to laggards, publishers never held up, cancelled subscriptions
  closed.
* **The resolver** stands between a bus that drops events, a store that may fail, and a
  client that may leave or stop reading. Correct means: what is acknowledged is shown to
  whoever had subscribed and reads, in the bus's order, once; and the goroutine ends.
* **The guards** bound what an operation may cost before it runs, with arithmetic that
  overflows and fragments that may be spread many times. Correct means: whatever is
  executed has an answer within the limits.
* **The loaders** join the loads of several fields, over a WebSocket of several operations,
  into batches, and keep results and errors for good. Correct means: every load is answered,
  from its own request, with nothing older than the request, and a count covers its page.
* **The lifecycle**: inits that fail half-way, a shutdown with a deadline that waits for
  plain requests and not for hijacked connections, a pool whose closing waits without a
  deadline. Correct means: nothing is served before all is there, nothing is taken from a
  request before the deadline, nothing stays open, and the process ends.

## 2. The modules

| module | models | role |
|---|---|---|
| `CommentsService` | the three mutations, both transaction managers, both stores, the pool, publication | component |
| `CommentsServiceProofs` | | inductive invariant and theorems |
| `MCCommentsService` | | instances for TLC |
| `SubscriberRegistry` | the code both buses share: registry, channels, fan-out | part, extended by the buses |
| `SubscriberRegistryProofs` | | lemmas on its steps, extended by the proofs of the buses |
| `MemoryBus` | `events/memory/bus.go`: many publishers at once | component, refines `CommentFeed` |
| `CommentFeed` | the promise of `application.CommentEvents` | abstract specification |
| `MemoryBusProofs` | | invariants, refinement |
| `PostgresBus` | `events/postgres/bus.go`: one listen loop, a connection, `Close` in steps | component, refines `CommentFeed` |
| `PostgresBusProofs` | | inductive invariant, theorems, refinement |
| `MCMemoryBus`, `MCPostgresBus` | | instances for TLC |
| `Keyset` | what a page of a list is: order, cursor, page, next page | definitions |
| `PageWalk` | a client that follows the cursors while rows are inserted | component |
| `PaginationProofs` | | lemmas on pages and sorted lists, invariant and theorems |
| `ListQueries` | lists, batches and counts of both repositories, grouping of the loaders | algorithms against `Keyset`; extends `PageWalk` |
| `CommentFlow` | the resolver of `commentAdded`, between mutations, bus and client | composition of `CommentsService` and `MemoryBus` |
| `CommentFlowProofs` | | composition of the proofs about both, invariant and theorems |
| `Guards` | complexity, depth and `first` of a document | algorithms against the size of the answer |
| `Operations` | request states, loaders and their batches, behind the guards | component, joined with `Guards` by `MCOperations` |
| `OperationsProofs` | | inductive invariant and theorems |
| `Configuration` | flags, variables, defaults, `Validate` | definitions |
| `Lifecycle` | `main`, container, HTTP server, shutdown, requests in flight | component, extends `Configuration` |
| `LifecycleProofs` | | invariant and theorems |
| `MCLists`, `MCCommentFlow`, `MCOperations`, `MCLifecycle` | | instances for TLC |

### CommentsService

One request is one goroutine; `stage` is the repository or pool call it makes next. A step
is one such call with the code up to the next one, which is the grain at which others can
interleave: the memory store takes its mutex per call, PostgreSQL answers per statement.
Both backends are one text: `backend` is the configured one, chosen at the start among
`Backends`, for good.

| variable | code |
|---|---|
| `backend` | `config.Storage.Backend` |
| `posts`, `comments` | `Store.posts`, `Store.comments`; the committed rows |
| `stage`, `call`, `result` | the goroutine, its input, its answer (the code presented to the client) |
| `draft` | the local variable `post` of `SetCommentsEnabled`, stale as it may be |
| `afterCommit` | requests whose `txctx.Registry` holds the publication |
| `conns` | the connections out of the `pgxpool.Pool` and who has them |
| `events` | what the bus has been handed |
| `openDuring` | history only: the posts seen open since the request arrived |

`Invoke` is the resolver's call. `BeginTx`, `GetPost`, `GetParent`, `Write`, `Commit`,
`PublishInMemory`, `AcquireForNotify` and `Notify` follow `WithinTx` and its function;
`GetPostRefused`, `GetParentRefused`, `WriteRefused` and `Rollback` are the early returns;
`BeginTxFails`, `StatementFails`, `CommitFails`, `NotifyFails` and `PublishPanics` the
failures. In the memory backend `Write` changes the store at once; in PostgreSQL `Commit`
does, and also the branch of `CommitFails` in which the server committed before the
connection was lost. An `UPDATE` waits for the row lock of another one (`RowLocked`). `Restart` stops the process: requests in
flight get no answer and the database rolls their transactions back. The memory backend
loses everything at a restart, which is `Init` again, so it has no such action.
`PublishPanics` is the panic found in `MemoryBus`, as the mutation sees it: the GraphQL
server recovers and answers INTERNAL for a comment that is stored.

Reduced: `uuid.New` never repeats, so the rows a request creates carry the request's name;
titles, bodies and zero identifiers are one bit, `valid`, "the constructor accepts it".
Posts start in any state an earlier run can have left (`SeedPosts`, any author, open or
closed).

### SubscriberRegistry and MemoryBus

A step is one critical section of `Bus.mu` or one turn of the sending loop, which runs
outside the lock. A subscription is a member of `Subs`, used once; `channel[s]` is its Go
channel (`open`, `buffer`), `subscribers` the map of the bus, `unsubscribed` the
`sync.Once` of its `unsubscribe`, `cancelled` its done context. `targets[c]` is the slice a
fan-out still has to send to, `received[s]` what the consumer has taken. `Unsubscribe` is
the call by the consumer, `CleanUp` the one by the goroutine that waits for the context.
Go maps are iterated in any order, hence `SendNext` picks any target. A send on a closed
channel panics whatever the `default` of the `select` says (`SendPanics`).
`lagged` and `audience` are histories: who has lost an event to a full buffer, and who was
registered when a publication took its targets. Ids are never reused in the code (`nextID`), hence one name per
subscription.

### PostgresBus

The same registry under a single carrier, the listen goroutine. `announced` is the order in
which PostgreSQL committed the notifications of all processes, `queue` what has not reached
`WaitForNotification`; `loop` is where the goroutine stands, `current` the event it
dispatches. `ReceiveNotification` is one turn of `listen` (a payload that `decodePayload`
rejects, a member of `Malformed`, is dropped); `Dispatch`, `SendNext` and `DispatchReturns`
are `dispatch`; `Stop` is the return on the cancelled context. `ConnectionLost` cuts `queue` and
clears `connected`, which no action sets again, as in the code: the loop calls
`WaitForNotification` on the same connection for ever. `Close` is three steps of its caller
(`closing`): the flag and the cancellation, the wait for the loop and the close of the
connection, which may fail and then returns, and the loops over the subscribers. A panic of
the loop ends the process, since nothing recovers on that goroutine; the module stops there.
`dispatched` and `audience` are histories.

### Keyset, PageWalk and ListQueries

`Keyset` defines the lists (all posts, the comments of a post, the replies to a comment),
their order and their pages: those of what is left after the cursor whose `Rank` is at
most `first`. A row has the fields the queries look at; identifiers are integers in the
order of the UUIDs. `PageWalk` has one client: `FirstPage` and `NextPage` are the resolvers
`Posts`, `Comments` and `Replies` with an `after` taken from the page before, `TotalCount`
the lazy count. `Insert` puts a row at any position, because `created_at` is taken from the
clock before the transaction commits; the foreign keys are what `CommentsService` guarantees.
`seen` and `atStart` are histories. `ListQueries` computes the answers as the code does, with
sequences in memory and ranks in SQL, and compares them with `Keyset` on every table that
the inserts of `PageWalk` reach. `SortRows` says what `sort.Slice` and `order by` promise of a
strict order: at place `i` stands the row that has `i - 1` newer ones. `Scan` is what the loop of
the memory store appends, the rows at the places it does not skip; the limit, the row too many
that is cut off, `row_number` by partition and the grouping of the loaders are steps of their
own. Each page is a request of its own here; what the caches of
the loaders add is the subject of `Operations`.

### CommentFlow

A process with the memory backend, end to end. The variables are those of
`CommentsService` and `MemoryBus`, which are instantiated, and three of the resolver:
`resolver` (where the goroutine of a subscription stands), `shown` (what its client was
given) and the history `skipped`. An event is a comment and its post, and the carriers of the
bus are the mutations: one stands at its stage `publish` from `Publish` through the bus's
`SendNext` to `PublishReturns`, which joins the bus's return with the mutation's, or
`PublishPanics`. `CommentAdded` subscribes, and does not ask whether the post exists.
`TakeEvent`, `SeeClosed` and `SeeDone` are the cases of the two `select`s, between which Go
chooses freely when several are ready; `LoadComment` and `GetCommentFails` the call of
`GetComment`; `HandOver` the client's receive from the unbuffered channel; `Return` the
deferred calls. Reads fail only for the subscriptions in `Faulty`, as PostgreSQL's would.
`ClientFeed` reads the whole as a `CommentFeed` whose consumers are the clients: what they
have taken is what they were shown or what could not be read.

### Guards and Operations

A document is a selection of fields, inline fragments and spreads; of fields only their
part in a list matters. `Complexity` is gqlgen's, over the costs that `NewHandler` sets
(`ListCost`) and the generated table of fields that have a cost (`HasCost`), in words of
`WordSize` bits: `child * first` wraps around, and `SafeAdd` saturates.
`selectionDepth` and `validateFirstArguments` are the two walks of `guardMiddleware`, and
`Verdict` their order. They are compared with `AnswerSize` and `Nesting`, the size and depth
of the largest answer, in unbounded integers.

`Operations` runs what is admitted. Its constant `Admissions` is what the guards can find of
an operation; `MCOperations` gives it `Guards!Outcomes`, the verdicts on the documents of the
instance. The two are modules of their own because `Guards` is recursive, and proofs about
the loaders need none of it. A session is one HTTP request, plain or upgraded to a
WebSocket: `Open` makes its loaders. `LoadPage` and `LoadCount` are what resolvers load;
`Join` begins a batch or joins one, under the context of the operation that has begun it;
`Fire` is the end of the loader's wait; `ReadGroup` and `GroupFails` are one statement for the
keys of the same scope and arguments, or for all keys of a loader of counts; `Deliver` the
return of the batch function. `cached` and
`value` are the thunks, which are never cleared. Lists only grow, so the length of a list
stands for its content. `opened`, `bounded`, `through` and `failed` are histories.

### Configuration and Lifecycle

`Configuration.Read` is `config.Load` on the settings that can be wrong or that others depend
on, `Validate` its checks; a variable that does not parse is `Garbage` and falls back to the
default, but a flag without its value is an error of `flag.Parse` (`Parse`). Defaults that depend on the profile follow the variable, not the flag.

`Lifecycle` has three kinds of goroutines. `main` runs `run` in `cmd/comment-service`:
`Load`, `initMemory` or `InitPool` and `InitBus` with their failures, the four steps of
`Build`, `Start`, the `select`, `Drain` or `DrainTimesOut` (`http.Server.Shutdown`), and the
loop over the closers (`CloseBus`, `ClosePool`), which `Shutdown` and the deferred `Close`
share and only the first runs. `server` is the goroutine of `ListenAndServe`, with its
channel `serverErr`. `work` are requests: `Accept`, `Acquire` and `Release` of a connection of the
pool, `Finish`. Those in `Sockets` are on hijacked connections, which `Drain` does not wait
for. `ServerPanics` is the dereference of `container.HTTPServer` after `Shutdown` has set it
to nil, when a signal comes before the goroutine has started.

### CommentFeed

The abstract promise: a subscription is a log of events of one post; an announced event may
be added once to the log of an open subscription whose consumer is not too far behind, or be
lost; an ended subscription is over for good; after a shutdown none begins. `MemoryBus`
implements it under the mapping at its end: channels are subscriptions, what was delivered is
the log, a publication is the life of an event. `PostgresBus` implements it too, and so does
`CommentFlow`, where not the resolver but its client is the consumer.

## 3. What the runs check

| run | instance | states | shows |
|---|---|---|---|
| `mutations` | 2 requests of any kind, 2 posts, 2 users, 1 connection, either backend | 1,067,636 | the safety properties with every failure and restarts |
| `mutations_liveness` | 3 requests, 2 connections, 1 post | 117,986 | `EveryRequestReturns` |
| `memory_bus` | 2 subscriptions, 2 posts, 2 events of one post, buffers of 1 | 58,220 | registry, delivery, loss, shutdown; `IsAFeed`; publishers finish, cancelled subscriptions are closed |
| `memory_bus_panic` | the same, 1 post | - | **violated**: a publisher panics |
| `postgres_bus` | the same with a payload that does not decode | 423,156 | order, loss, shutdown; `IsAFeed`; `Close` returns, the queue is worked off |
| `postgres_bus_panic` | 1 post | - | **violated**: the listen goroutine panics |
| `postgres_bus_lost` | 1 post | - | **violated**: an announced event is never fanned out |
| `flow` | 2 mutations, 2 subscriptions of one post, one with a client that goes on reading and reads that fail, buffers of 1 | 254,572 | acknowledged comments are not lost and are shown, in order, once; `ClientsHaveAFeed`; resolvers end |
| `lists` | a post and a comment, 3 rows inserted anywhere, pages of 1 or 2 | 36,427 | all queries give the page that `Keyset` defines; walks repeat and skip nothing |
| `operations` | 441 documents; 3 operations, 2 of them over one WebSocket, 1 list, 2 arguments, 1 row | 180,273 | only bounded operations run; answers are of the own request; counts cover pages; every load is answered |
| `lifecycle` | 41 configurations, 2 plain requests, 1 WebSocket | 20,610 | serves only when complete, takes nothing before the deadline, leaves nothing open, ends |

Bounds. Every property of `CommentsService` is about at most two requests that meet (a
reader and a writer of one post, a parent and a reply, two holders of one connection), and
each hazard already shows with two: a single connection makes them exclude each other or wait, two users
give a stranger and an author, two posts a wrong parent. Liveness needs one request more
than connections, and a third to queue behind a row lock. In the bus, a buffer of one is
full after one event and two events of a post are one too many for it; a subscription may be
on the other post; two are enough for one to leave, lag or subscribe elsewhere
while the other is being sent to. In the lists, two values of `created_at` and five
identifiers around the seeded ones give ties, boundaries of pages between them, full and
half-full last pages and lists of up to four rows. In the flow, two mutations make two events,
one too many for a buffer of one, and the two subscriptions are the attentive client whose
reads fail and the one that may leave or stall. In `operations`, words of 8 bits let a list
of 86 rows of 3 fields cost 3: of the 441 documents 175 overflow, 197 are refused for their
complexity, 141 for their depth, 83 for `first`, and 20 pass. Two operations of one socket
share a batch or find the other's result, two arguments make two statements of one batch, and
one row tells an old result from a new one. In `lifecycle`, each setting of the
configuration deviates alone from a working one of either backend, and one
request of each kind is enough to be waited for or not; the second plain one is there to
finish while the first does not. The proofs lift the safety results to every
size, but for `AdmittedIsBounded` (section 5).
Symmetry is used only in safety runs, over sets that appear in no `CHOOSE`.

`AdmittedIsBounded` is about the documents of the instance, not about all.

Deadlock is checked for the mutations: apart from `Quiescent`, which stands for "all
requests have answered", some request can always take a step. It is switched off for the
buses, where every subscription can be over, every event published and the bus closed (or the
process ended), for the flow, where in addition all mutations can have been answered, for
the lists, where all identifiers of the instance are used up, for the operations, which can
all be answered, and for the lifecycle, which ends when the process does.

### The violations

* `PublisherNeverPanics`: the memory bus sends outside its lock to channels that
  `unsubscribe` and `Close` close under it (`events/memory/bus.go:44-49`, `:93`). The
  panic is recovered by the GraphQL server, so the client of `createComment` is told
  INTERNAL although its comment is stored, and the remaining subscribers get nothing.
* `ListenerNeverPanics`: the same race in `dispatch` (`events/postgres/bus.go:239`), on a
  goroutine that nobody recovers: the process ends. `ShutdownIsSafe` shows that `Close`
  itself is free of it, because it waits for the loop.
* `AnnouncedIsDispatched`: after the listening connection is lost, the loop logs the error of
  `WaitForNotification` and goes on with the dead connection (`events/postgres/bus.go:216`).
  Subscriptions stay open and silent until the process is restarted.

Races and losses that the code accepts, and that no line of the repository denies, have no
run of their own:

* A `SetCommentsEnabled(false)` between `CreateComment`'s check (`application/comments.go:26`)
  and its insert (`:59`) leaves a comment on a closed post, in both backends. How stale
  that check may be is `AcceptedWhileEnabled`, which is proved.
* A process that dies after a commit, or a notification that fails, loses the event.
* `Close` of the PostgreSQL bus gives up, and leaves the subscriptions to their contexts, when
  it cannot close its connection (`closing = "failed"`, excepted in `ShutdownIsSafe`).
* Profile defaults follow the variable and not the flag (`Configuration.Read`).

### Fairness

* `CommentsService`: weak fairness of each request's `Progress`, that is, the Go runtime
  runs a goroutine that can run, PostgreSQL answers what it is asked, and `pgxpool` serves
  the requests that wait. Weak fairness suffices for the pool although connections come and
  go under competition, because every request makes only finitely many steps. Nothing is
  assumed of failures or clients: a request may never come and nothing need fail.
* `MemoryBus`: weak fairness of each publisher's loop and of each subscription's
  context goroutine. Consumers and clients may stop for ever.
* `PostgresBus`: weak fairness of the listen goroutine and of the caller of `Close` once it
  has begun. The connection need never be lost, and nobody need close the bus.
* `CommentFlow`: weak fairness of each mutation's goroutine and of each resolver's. The
  client's receive (`HandOver`) is part of it only for `Attentive` clients; others may stop
  reading for ever, and `ResolversEnd` is stated for them too. The goroutine of the bus that
  waits for the context is not needed: the resolver unsubscribes itself.
* `Operations`: timers fire, and a statement ends, with a result or an error. That the
  client asks for anything is not assumed.
* `Lifecycle`: weak fairness of the goroutine of `main`, of the deadline's timer and of
  the release of a connection (a statement or a transaction ends). That a handler or a WebSocket
  ever ends is not assumed, which is what makes `ProcessEnds` say something.

## 4. What is proved

TLAPS proves, for every value of the constants that satisfies the named assumptions:

| module | theorem | says |
|---|---|---|
| `CommentsServiceProofs` | `TypeCorrect` | `Spec => []TypeOK` |
| | `ThreadIntegrityHolds` | threads stay within stored posts |
| | `AcceptedWhileEnabledHolds` | a comment's post was open at some instant of its request |
| | `EventsHold` | `EventsAreFaithful`: announced comments are visible, announced at most once |
| | `AnswersHold` | `AnswersAreTrue`: refused requests leave no trace, acknowledged comments are stored |
| | `OnlyAuthorTogglesHolds` | the action property on posts |
| | `ConnectionsHold` | `ConnectionsAccounted` |
| `MemoryBusProofs` | `TypeCorrect` | `Spec => []TypeOK` |
| | `RegistryHolds` | `RegistryIsSound`: registered exactly while open, ended and closed for good |
| | `DeliveryHolds` | `FaithfulDelivery`, `NothingUnannounced`, `BuffersBounded` |
| | `OnlyLaggardsMissHolds` | loss only to laggards |
| | `BusIsAFeed` | the bus implements `CommentFeed` |
| `PostgresBusProofs` | `TypeCorrect` | `Spec => []TypeOK` |
| | `NotifyOrderHolds` | `InNotifyOrder`: logs are in the order of the commits |
| | `OnlyLaggardsMissHolds` | what the loop is through with has reached all but laggards |
| | `ShutdownHolds` | `ShutdownIsSafe`: no channel is closed under the loop, none stays open |
| | `DeliveryHolds` | `RegisteredIffOpen`, `FaithfulDelivery`, `BuffersBounded` |
| | `BusIsAFeed` | the bus implements `CommentFeed` |
| `CommentFlowProofs` | `FlowComposes` | `Spec => Service!Spec /\ Bus!Spec`: the flow is its parts run together |
| | `TypeCorrect` | `Spec => []TypeOK` |
| | `AcknowledgedIsNotLostHolds` | an acknowledged comment is announced, fanned out, and on its way to each client that stays |
| | `ShownFaithfullyHolds` | clients are shown what was delivered, in order, once |
| | `IdleResolversHold` | a resolver with nothing to do owes its client no acknowledged comment |
| | `ClientsHaveAFeedHolds` | the flow implements `CommentFeed` for the clients, one event above the buffers |
| `OperationsProofs` | `TypeCorrect` | `Spec => []TypeOK` |
| | `AnswersHold` | `AnswersAreOfTheRequest` |
| | `CountCoversHolds` | `CountCoversPage` |
| `PaginationProofs` | `TypeCorrect` | `Spec => []TypeOK` |
| | `PagesDescendHolds` | pages go on to older rows and repeat none |
| | `NothingSkippedHolds` | a finished walk has shown all that was there when it began |
| | `PageInfoAlwaysHolds` | `PageInfoHolds`: after `hasNextPage` a row is left, `totalCount` covers what was shown |
| | `ListsAgreeHolds` | lists and counts of both backends are those of `Keyset`, on every table |
| | `BatchesAgreeHolds` | so is each list of a batch, by statement and by loader |
| `LifecycleProofs` | `TypeCorrect` | `Spec => []TypeOK` |
| | `ReadyToServeHolds` | the server starts only with a valid configuration and a complete container |
| | `NothingLeftOpenHolds` | the pool outlives bus and requests; a process that returns has closed both |
| | `GracefulHolds` | nothing is taken from a plain request before the deadline |

Assumptions: `Backends` are some of the two, the pool has at least one connection (both are
checks of `Config.Validate`), new identifiers differ from stored ones, inputs are calls of
the API, `Null` is none of the values; for the bus, buffers have room for one event
(`NewBus` replaces smaller sizes), each event has a post and a publisher of its own; for the
lists, identifiers and times are integers and the seeded table is finite; for the lifecycle,
limits are read as integers or not at all (`strconv`); for the operations, each comes with one
request and selects pages. Those of the flow are the ones of its parts. That
the sets are finite is assumed only where connections are counted: nowhere else does a
proof depend on it, but for the table of `PageWalk`, whose rows are counted to rank them.

The argument for `CommentsService`: none of the properties is inductive, because what a
request may write later depends on what it has checked earlier. The invariant `IInv` adds
to them, among others, `Routed` (the stage a request is at fits its operation), `Owned`
(what is stored under a request's name was written by it, as its call says, and is absent until
then), `Checked` (a request past its checks has a stored post, and a stored parent on it),
`SeesOpen` (a comment request past the check of the post has recorded that post in
`openDuring`), `Answered` (what an answer says of the stage and the store) and
`AnnouncedLast` (an event is of a request that is past its commit). Rows are never
deleted, so that checks of existence stay true; the check of `CommentsEnabled` does not, which is why
`SeesOpen` speaks of the history. `IInv` was model-checked on both backends before it was
proved.

For the buses: `SubscriberRegistryProofs` says of each step of the registry what it keeps
(`RegistryInv`: typing, `RegisteredIffOpen`, bounded buffers) and what it does to the status,
the topic and the log of a subscription. Both buses add what ties a subscription to an event:
`OnItsWay` (a target still to be served is in the audience of its event and has not got it; the
audience is of the event's post) and `Served` (who was passed got the event or lagged). The
refinement maps each step of a bus to one of the feed or to a stutter, the panic included
(the event's life is over), using those facts for `Deliver`.

`PostgresBus` needs more, because its order is that of another system: `InOrder` places what
the loop is through with, the event it holds and the queue one behind the other in `announced`,
so that an event sent now is behind all of the log. `HoldsOne` says when the loop has an event
and targets, `Shutdown` where `Close` stands, and that only an unsubscribe, or the last step of
`Close`, which waits for the loop, has ended a subscription.

For the flow: nothing of the mutations or the bus is proved again. `FlowComposes` shows that
each step of the flow is a step of either part or leaves its variables alone, so that the
invariants of both hold of it; that a publication is a step of the bus needs the invariant of
the mutations, which says that the event is of a stored comment. `Routes` relates the two (an
event is sent by the mutation that stands at `publish`, and `createComment` is acknowledged when
its event is through), `Resolvers` the goroutine, what it was delivered and what it has
shown. `AcknowledgedIsNotLost` joins the two: what an acknowledged comment's audience was
sent is in the channel, with the resolver, shown or skipped (`Holds`). `AcknowledgedAreShown` itself is liveness; `IdleResolversHold` is its safety half: when
a resolver waits and its channel is empty, nothing acknowledged is missing. The refinement to
`CommentFeed` takes the steps of the bus from the refinement of `MemoryBus`, where the resolver
is the consumer, and moves the consumer to the client. `Accounted` counts for it: what was shown
and what could not be read make up what the resolver is through with, but for one event that
it drops when its client leaves. So at most one event is between the channel and the client,
which is the one place `ClientFeed` has more than a buffer. `Accounted` was model-checked before.

For the operations: a key is in one place at a time (`InOnePlace`): in the batch its loader
collects, in one that is read, or answered. So no answer is ever replaced. `Fresh` says that
what was read is of the request, and `Covered` that a count which was asked for has a page that
had been answered before: a statement that counts later finds at least as many rows.
`Made` is what keeps both: no loader works before its request state was made.

For the walk: the cursor separates the list. `Behind` says that what was shown is not past
the cursor, `Ahead` that what was there at the start was shown or is past it. An insert
disturbs neither. That a page moves the cursor without losing a row rests on the lemmas:
ranks grow along the order (`RankMonotone`), so a page is newer than what it leaves
(`PageIsNewest`), is everything unless `hasNextPage` (`LastPageIsAll`), and leaves something
if `hasNextPage` (`MoreIsLeft`, by the pigeonhole principle). The endCursor exists because
a finite page has a row of greatest rank (`EndCursorOfLast`, from the least element of a set of
natural numbers).

For the lists: no induction is needed, because ranks number a list. Different rows have
different ranks (`RankNumbers`), so that by the pigeonhole principle the `n` rows of a list have
just the ranks 1 to `n` (`RankIsOnto`): a place each. A sequence whose places are the ranks of
its rows is the sorted list, and the only one (`SortRowsSorts`, `SortedIsUnique`). What a limit
leaves of it is the page of that size (`LimitIsPage`), and cutting off the row too many leaves
the page and tells whether there was more (`CutIsPage`). The two backends differ in where the
cursor is applied: SQL sorts what is past it, memory sorts everything and scans what is past
it, which is sorted again because the rows that are skipped leave the order as it is
(`ScanIsSorted`, `WhereIsPast`). A batch numbers rows by partition; each row is in one list of the batch,
so its number is its rank in that list (`SqlBatchListIsPage`), and a loader's group has one
scope, size and cursor (`LoadedPageIsPage`). The table is finite and has identifiers without
duplicates, by the invariant of the walk (`TableIsList`).

For the lifecycle: `StackIsOpen` says that the stack of closers is exactly what is open, in
the order of its making, and `StackOfMain` how far `main` is with it, so that a `return`
past the closing loop has an empty stack. `Filled` follows the fields of the container
through the steps of `Build`, whose needs are therefore always met (`BuildProceeds`).
`Served` ties the server, its error channel and the deadline to `main`, and `Requested` says
that after the shutdown has begun to close, plain requests are gone, or the deadline has passed,
or the server had failed; a request that is new cannot come, because the listener closes before.

## 5. Only model-checked

Liveness (`EveryRequestReturns`, `PublishersFinish`, `CancelledAreClosed`, `CloseReturns`,
`QueuedIsDispatched`, `AcknowledgedAreShown`, `ResolversEnd`, `LoadsAreAnswered`,
`ProcessEnds`): fairness and `ENABLED` are out of the prover's reach.

`AdmittedIsBounded` is about `Guards`, whose operators recurse over documents of any depth: it
needs induction over data. The run checks it on the documents of its instance.

## 6. Not modelled

* The executor that gqlgen generates, beyond the costs of fields and the order in which it
  calls resolvers: marshalling of arguments and results.
* HTTP: decoding of requests, CORS, the health endpoint beyond the connection it takes, the
  playground, the cache of parsed queries and of persisted ones; the UUID in the header that
  names the acting user (a request has a user or none).
* Parsing and formatting: UUIDs, cursors as text, the syntax of flags and variables
  beyond "does not parse", JSON of
  notifications beyond "does not decode", wording of errors and logs. A title or a body is one
  bit, whether its constructor accepts it.
* Mocks, fixtures and test containers.

External, and modelled only as the code uses them: `pgxpool` (a bounded set of connections;
`FreeConn`), PostgreSQL (atomic commit, READ COMMITTED, row locks), gqlgen (one goroutine per
mutation, recover, complexity), `dataloader` (a wait, a batch, a cache), `net/http`
(`Shutdown` and hijacked connections), the Go runtime (channels, contexts, `select`).

The flow is composed with the memory backend only. On PostgreSQL an acknowledged
comment need not be announced at all (`NotifyFails` is logged and swallowed), so that
`AcknowledgedAreShown` is not promised there; what the two halves do is in `CommentsService`
and `PostgresBus`.

## 7. What could follow

Every safety property of the runs is proved, but for `AdmittedIsBounded`. What would add most
is the composition of the mutations and the resolvers with `PostgresBus`: which of the flow's
promises survive `NotifyFails` and a lost connection. `InNotifyOrder` and `BusIsAFeed` are its
lower half.
