----------------------------- MODULE Lifecycle -----------------------------
(***************************************************************************)
(* A process of the service from main to its exit: configuration, the      *)
(* container with its stack of closers, the HTTP server on a goroutine of  *)
(* its own, the signal, and the shutdown against the requests in flight.   *)
(*                                                                         *)
(* A request over a plain connection is one http.Server.Shutdown waits for.*)
(* One over a WebSocket runs on a hijacked connection, which the server    *)
(* has forgotten.  Either may take a connection of the pool and is owed to *)
(* give it back; whether its handler ever ends is up to its client.        *)
(***************************************************************************)
EXTENDS Configuration, Sequences, SequencesExt

CONSTANTS
    Work,       \* the clients' requests
    Sockets     \* those that come over a WebSocket

ASSUME WorkAssumption == Sockets \subseteq Work

VARIABLES
    main,       \* where the goroutine of main stands
    exit,       \* what run returns, or "panic"
    config,     \* config.Config, once loaded
    container,  \* the fields of the Container that are filled
    steps,      \* the steps Build has still to take
    closers,    \* Container.Closers
    isClosed,   \* Container.closed
    pool,       \* the PostgreSQL pool
    bus,        \* the event bus of either backend
    server,     \* the goroutine that serves
    serverErr,  \* the channel it reports to main with
    signalled,  \* SIGINT or SIGTERM has come
    deadline,   \* of the context Shutdown is called with
    work        \* where each request stands

vars == <<main, exit, config, container, steps, closers, isClosed, pool, bus,
          server, serverErr, signalled, deadline, work>>

resources == <<closers, pool, bus>>
process == <<server, serverErr, signalled, deadline, work>>

Alive == main # "exited"
Serving == server = "serving" /\ deadline = "off"

\* The goroutine of main returns from run: the deferred Close is next, if it
\* has been deferred already.
ReturnFromRun(err) == main' = "return" /\ exit' = err
ExitAtOnce(err) == main' = "exited" /\ exit' = err

-----------------------------------------------------------------------------
Init ==
    /\ main = "load" /\ exit = "none"
    /\ config \in {Read(s) : s \in Settings}
    /\ container = {}
    /\ steps = <<"repositories", "services", "graphql", "http">>
    /\ closers = <<>> /\ isClosed = FALSE
    /\ pool = "none" /\ bus = "none"
    /\ server = "none" /\ serverErr = "empty"
    /\ signalled = FALSE /\ deadline = "off"
    /\ work = [w \in Work |-> "idle"]

\* config.Load, logging.New and the first lines of NewContainer.
Load ==
    /\ main = "load"
    /\ IF config.parsed /\ Validate(config) /\ Loggable(config)
         THEN main' = "init" /\ UNCHANGED exit
         ELSE ExitAtOnce("error")
    /\ UNCHANGED <<config, container, steps, isClosed, resources, process>>

initMemory ==
    /\ main = "init" /\ config.backend = "memory"
    /\ container' = {"MemoryStore", "TxManager", "Events"}
    /\ bus' = "open"
    /\ closers' = Append(closers, "bus")
    /\ main' = "build"
    /\ UNCHANGED <<exit, config, steps, isClosed, pool, process>>

\* initPostgres: the pool, which may refuse its configuration.
InitPool ==
    /\ main = "init" /\ config.backend = "postgres"
    /\ container' = {"Pool", "HealthCheck", "TxManager"}
    /\ pool' = "open"
    /\ closers' = Append(closers, "pool")
    /\ main' = "initBus"
    /\ UNCHANGED <<exit, config, steps, isClosed, bus, process>>

InitPoolFails ==
    /\ main = "init" /\ config.backend = "postgres"
    /\ ExitAtOnce("error")
    /\ UNCHANGED <<config, container, steps, isClosed, resources, process>>

\* initPostgres: the bus, which connects under the context of the signal.
InitBus ==
    /\ main = "initBus" /\ ~signalled
    /\ container' = container \cup {"Events"}
    /\ bus' = "open"
    /\ closers' = Append(closers, "bus")
    /\ main' = "build"
    /\ UNCHANGED <<exit, config, steps, isClosed, pool, process>>

\* NewContainer returns no container, so that no Close is deferred.
InitBusFails ==
    /\ main = "initBus"
    /\ container' = container \ {"Pool"}
    /\ pool' = "closed"
    /\ closers' = Front(closers)
    /\ ExitAtOnce("error")
    /\ UNCHANGED <<config, steps, isClosed, bus, process>>

-----------------------------------------------------------------------------
\* What a step of Build fills in, and what it asks for.
Fills(step) ==
    CASE step = "repositories" -> {"PostRepository", "CommentRepository"}
      [] step = "services" -> {"PostsService", "CommentsService"}
      [] step = "graphql" -> {"GraphQLHandler"}
      [] step = "http" -> {"HTTPServer"}

Needs(step) ==
    CASE step = "repositories" ->
           {IF config.backend = "memory" THEN "MemoryStore" ELSE "Pool"}
      [] step = "services" ->
           {"PostRepository", "CommentRepository", "TxManager", "Events"}
      [] step = "graphql" -> {"PostsService", "CommentsService", "Events"}
      [] step = "http" -> {"GraphQLHandler"}

\* One step of Build: a MissingDependencyError ends it.  (That a step does
\* nothing when its fields are filled is for containers main does not make.)
Build ==
    /\ main = "build" /\ steps # <<>>
    /\ steps' = Tail(steps)
    /\ IF Needs(Head(steps)) \subseteq container
         THEN /\ container' = container \cup Fills(Head(steps))
              /\ UNCHANGED <<main, exit>>
         ELSE ReturnFromRun("error") /\ UNCHANGED container
    /\ UNCHANGED <<config, isClosed, resources, process>>

\* Build has returned: start the goroutine of the server, and wait.
Start ==
    /\ main = "build" /\ steps = <<>>
    /\ main' = "select"
    /\ server' = "starting"
    /\ UNCHANGED <<exit, config, container, steps, isClosed, resources,
                   serverErr, signalled, deadline, work>>

\* The select of run: the signal, and the call of Shutdown.
SelectSignal ==
    /\ main = "select" /\ signalled
    /\ main' = "drain"
    /\ deadline' = "running"
    /\ UNCHANGED <<exit, config, container, steps, isClosed, resources, server,
                   serverErr, signalled, work>>

\* The select of run: the server has ended by itself.
SelectServerErr ==
    /\ main = "select" /\ serverErr # "empty"
    /\ ReturnFromRun(IF serverErr = "error" THEN "error" ELSE "ok")
    /\ UNCHANGED <<config, container, steps, isClosed, resources, process>>

\* Shutdown has its answer from the HTTP server: forget it, close the rest.
Drained(err) ==
    /\ container' = container \ {"HTTPServer"}
    /\ exit' = err
    /\ main' = "closing" /\ isClosed' = TRUE
    /\ UNCHANGED <<config, steps, resources, process>>

Plain == {w \in Work \ Sockets : work[w] \in {"active", "holding"}}

\* Mutant of Drain: the requests in flight are not waited for.
DrainAtOnce == main = "drain" /\ Drained("ok")

\* http.Server.Shutdown: no request is left on a connection it knows of.
Drain == main = "drain" /\ Plain = {} /\ Drained("ok")

\* Mutant of DrainTimesOut: Shutdown is given a context without a deadline.
DrainNeverTimesOut == FALSE

DrainTimesOut == main = "drain" /\ deadline = "expired" /\ Drained("error")

\* Container.Close by the function main has deferred; a second one does nothing.
Deferred ==
    /\ main = "return"
    /\ IF isClosed THEN main' = "exited" ELSE main' = "closing"
    /\ isClosed' = TRUE
    /\ UNCHANGED <<exit, config, container, steps, resources, process>>

-----------------------------------------------------------------------------
\* Mutant of NextCloser: the closers are called in the order of their making.
FirstCloser == Head(closers)

\* The loop of Close takes the closers from the last to the first.
NextCloser == Last(closers)

Closing(closer) == main = "closing" /\ closers # <<>> /\ NextCloser = closer
CloserDone == closers' = Front(closers)

\* Bus.Close (PostgresBus, MemoryBus).  Closing the connection of the PostgreSQL
\* bus may fail, which is reported (Shutdown) or logged (the deferred Close) and
\* stops nothing.
CloseBus ==
    /\ Closing("bus")
    /\ CloserDone
    /\ \/ bus' = "closed" /\ UNCHANGED exit
       \/ config.backend = "postgres" /\ bus' = "failed"
            /\ exit' = IF exit = "ok" THEN "error" ELSE exit
    /\ UNCHANGED <<main, config, container, steps, isClosed, pool, process>>

\* pool.Close gives out no connection any more, and waits for those it has
\* given out, whatever the deadline says.
ClosePool ==
    /\ Closing("pool")
    /\ \/ pool = "open" /\ pool' = "closing" /\ UNCHANGED closers
       \/ /\ pool = "closing"
          /\ \A w \in Work : work[w] # "holding"
          /\ pool' = "closed" /\ CloserDone
    /\ UNCHANGED <<main, exit, config, container, steps, isClosed, bus, process>>

Closed ==
    /\ main = "closing" /\ closers = <<>>
    /\ main' = "return"
    /\ UNCHANGED <<exit, config, container, steps, isClosed, resources, process>>

Main ==
    \/ Load \/ initMemory \/ InitPool \/ InitBus \/ Build \/ Start
    \/ SelectSignal \/ SelectServerErr \/ Drain \/ DrainTimesOut
    \/ CloseBus \/ ClosePool \/ Closed \/ Deferred

-----------------------------------------------------------------------------
others == <<config, container, steps, isClosed, resources, signalled, deadline, work>>

\* ListenAndServe, called on the field as it is by then.
ServerStarts ==
    /\ Alive /\ server = "starting" /\ "HTTPServer" \in container
    /\ IF deadline = "off"
         THEN server' = "serving" /\ UNCHANGED serverErr
         ELSE server' = "done" /\ serverErr' = "closed"
    /\ UNCHANGED <<main, exit, others>>

\* Shutdown has set the field to nil before the goroutine has looked at it.
ServerPanics ==
    /\ Alive /\ server = "starting" /\ "HTTPServer" \notin container
    /\ server' = "done"
    /\ ExitAtOnce("panic")
    /\ UNCHANGED <<serverErr, others>>

\* The address is taken, or accepting fails for good.
ServerFails ==
    /\ Alive /\ server \in {"starting", "serving"} /\ "HTTPServer" \in container
    /\ deadline = "off"
    /\ server' = "done" /\ serverErr' = "error"
    /\ UNCHANGED <<main, exit, others>>

\* Shutdown has closed the listener: ErrServerClosed, which is not reported.
ServerStops ==
    /\ Alive /\ server = "serving" /\ deadline # "off"
    /\ server' = "done" /\ serverErr' = "closed"
    /\ UNCHANGED <<main, exit, others>>

\* The signal is noticed once main has asked for it; a second one is ignored.
Signal ==
    /\ Alive /\ main # "load" /\ ~signalled
    /\ signalled' = TRUE
    /\ UNCHANGED <<main, exit, config, container, steps, isClosed, resources,
                   server, serverErr, deadline, work>>

Expire ==
    /\ deadline = "running" /\ main = "drain"
    /\ deadline' = "expired"
    /\ UNCHANGED <<main, exit, config, container, steps, isClosed, resources,
                   server, serverErr, signalled, work>>

-----------------------------------------------------------------------------
Step(w, from, to) ==
    /\ Alive /\ work[w] = from
    /\ work' = [work EXCEPT ![w] = to]
    /\ UNCHANGED <<main, exit, config, container, steps, isClosed, resources,
                   server, serverErr, signalled, deadline>>

\* The mux gets a request, or hands a connection over to the WebSocket.
Accept(w) ==
    Serving /\ Step(w, "idle", IF w \in Sockets THEN "connected" ELSE "active")

\* An operation over a WebSocket, whose reader goes on after a shutdown.
Operation(w) == w \in Sockets /\ Step(w, "connected", "active")

\* A transaction, a read or a ping of the health check.
Acquire(w) == pool = "open" /\ Step(w, "active", "holding")
Release(w) == Step(w, "holding", "active")

Finish(w) == Step(w, "active", IF w \in Sockets THEN "connected" ELSE "done")

Client(w) == Accept(w) \/ Operation(w) \/ Acquire(w) \/ Release(w) \/ Finish(w)

Next ==
    \/ Main \/ InitPoolFails \/ InitBusFails
    \/ ServerStarts \/ ServerPanics \/ ServerFails \/ ServerStops
    \/ Signal \/ Expire
    \/ \E w \in Work : Client(w)

Spec == Init /\ [][Next]_vars

\* The goroutine of main is run, time passes, and PostgreSQL answers: the bus
\* can be reached or not, and a connection of the pool is given back when its
\* statement has ended.  That handlers end is owed by nobody.
FairSpec ==
    /\ Spec
    /\ WF_vars(Main \/ InitBusFails)
    /\ WF_vars(Expire)
    /\ \A w \in Work : WF_vars(Release(w))

-----------------------------------------------------------------------------
\* Nothing is served before the container is complete, both halves of the
\* backend are up, and the limits are what the other modules assume of them;
\* and a Build that follows an init never misses a dependency.
ReadyToServe ==
    /\ server # "none" =>
         /\ config.maxConns >= 1 /\ config.bufferSize >= 1
         /\ config.maxPageSize >= 1 /\ config.maxDepth >= 1 /\ config.complexity >= 1
         /\ config.environment = "prod" => config.origins # {}
    /\ main = "select" =>
         /\ bus = "open" /\ (pool = "open" <=> config.backend = "postgres")
         /\ {"PostsService", "CommentsService", "GraphQLHandler", "HTTPServer"}
              \subseteq container
    /\ main = "return" => server # "none"

\* The pool is not closed under the bus, which notifies through it, nor under
\* a request that has a connection, WebSockets included; and whatever went
\* wrong, a process that returns from main has left nothing open.
NothingLeftOpen ==
    /\ pool \in {"closing", "closed"} => bus # "open"
    /\ pool = "closed" => \A w \in Work : work[w] # "holding"
    /\ main = "exited" /\ exit # "panic" => pool \in {"none", "closed"} /\ bus # "open"

\* A shutdown on a signal takes neither the bus nor the pool away from a
\* request on a plain connection before the deadline.
Graceful ==
    (/\ bus # "open" \/ pool \in {"closing", "closed"}
     /\ Plain # {})
    => deadline = "expired" \/ serverErr = "error"

\* A signal, and a server that has failed, end the process, although handlers
\* may hang and WebSockets stay.
ProcessEnds == signalled \/ serverErr = "error" ~> main = "exited"
=============================================================================
