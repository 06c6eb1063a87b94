--------------------------- MODULE LifecycleProofs ---------------------------
(***************************************************************************)
(* The safety of Lifecycle for any configurations, any requests and any    *)
(* WebSockets: what is served is complete, what was opened is closed, in   *)
(* an order that hurts nobody before the deadline.                         *)
(*                                                                         *)
(* The inductive invariant ties the stack of closers to what is open, and  *)
(* both to the place of main.                                              *)
(***************************************************************************)
EXTENDS Lifecycle, TLAPS, SequenceTheorems

Mains == {"load", "init", "initBus", "build", "select", "drain", "closing",
          "return", "exited"}
Fields == {"MemoryStore", "Pool", "HealthCheck", "TxManager", "Events",
           "PostRepository", "CommentRepository", "PostsService",
           "CommentsService", "GraphQLHandler", "HTTPServer"}

\* The variables hold what the process can hold.
TypeOK ==
    /\ main \in Mains
    /\ exit \in {"none", "ok", "error", "panic"}
    /\ container \in SUBSET Fields
    /\ isClosed \in BOOLEAN
    /\ pool \in {"none", "open", "closing", "closed"}
    /\ bus \in {"none", "open", "closed", "failed"}
    /\ server \in {"none", "starting", "serving", "done"}
    /\ serverErr \in {"empty", "error", "closed"}
    /\ signalled \in BOOLEAN
    /\ deadline \in {"off", "running", "expired"}
    /\ work \in [Work -> {"idle", "connected", "active", "holding", "done"}]

\* The stacks of closers there are.
NoCloser == <<>>
OnlyBus == <<"bus">>
OnlyPool == <<"pool">>
PoolAndBus == <<"pool", "bus">>

\* The steps of Build there are left.
FromHTTP == <<"http">>
FromGraphQL == <<"graphql", "http">>
FromServices == <<"services", "graphql", "http">>
AllSteps == <<"repositories", "services", "graphql", "http">>

\* main goes on only with a configuration that is valid.
Configured ==
    /\ config \in {Read(s) : s \in Settings}
    /\ main \notin {"load", "exited"} => Validate(config)
    /\ server # "none" => Validate(config)

\* The stack of closers is what is open, in the order of its making.
StackIsOpen ==
    /\ closers \in {NoCloser, OnlyBus, OnlyPool, PoolAndBus}
    /\ closers = NoCloser => pool \in {"none", "closed"} /\ bus # "open"
    /\ closers = OnlyBus => pool = "none" /\ bus = "open"
    /\ closers = OnlyPool => pool \in {"open", "closing"} /\ bus # "open"
    /\ closers = PoolAndBus => pool = "open" /\ bus = "open"

\* How far main is with the stack.
StackOfMain ==
    /\ main \in {"load", "init"} => closers = NoCloser /\ pool = "none"
    /\ main = "initBus" => closers = OnlyPool /\ pool = "open"
    /\ main = "initBus" => config.backend = "postgres"
    /\ main \in {"build", "select", "drain"} =>
         closers = IF config.backend = "memory" THEN OnlyBus ELSE PoolAndBus
    /\ isClosed => main \in {"closing", "return", "exited"}
    /\ main = "closing" => isClosed
    /\ main = "return" /\ isClosed => closers = NoCloser
    /\ main = "exited" /\ exit # "panic" => closers = NoCloser

\* What Build has filled in when it is as far as its steps say.
Base == {"TxManager", "Events", IF config.backend = "memory" THEN "MemoryStore" ELSE "Pool"}
Repositories == {"PostRepository", "CommentRepository"}
Services == {"PostsService", "CommentsService"}

Filled ==
    /\ main \in {"load", "init", "initBus"} => steps = AllSteps
    /\ main = "initBus" => {"Pool", "TxManager"} \subseteq container
    /\ main \in {"build", "select"} => Base \subseteq container
    /\ main = "select" => steps = <<>>
    /\ server # "none" /\ ~isClosed => "HTTPServer" \in container
    /\ main \in {"build", "select"} =>
         \/ steps = AllSteps
         \/ steps = FromServices /\ Repositories \subseteq container
         \/ steps = FromGraphQL /\ Repositories \cup Services \subseteq container
         \/ /\ steps = FromHTTP
            /\ Repositories \cup Services \cup {"GraphQLHandler"} \subseteq container
         \/ /\ steps = <<>>
            /\ Repositories \cup Services \cup {"GraphQLHandler", "HTTPServer"}
                 \subseteq container

\* The server and the deadline, as main has started them.
Served ==
    /\ main \in {"load", "init", "initBus", "build"} => server = "none"
    /\ main \in {"select", "drain", "return", "closing"} => server # "none"
    /\ deadline # "off" => main \in {"drain", "closing", "return", "exited"}
    /\ main = "drain" => deadline # "off"
    /\ serverErr # "empty" => server = "done"
    /\ serverErr = "closed" => deadline # "off"
    /\ main = "return" /\ ~isClosed => serverErr = "error"
    /\ main = "exited" /\ server # "none" => isClosed
    /\ isClosed => deadline # "off" \/ serverErr = "error"

\* The requests: there are none before the server, and none on a plain
\* connection after the shutdown, unless its deadline has passed.
Requested ==
    /\ server = "none" => \A w \in Work : work[w] = "idle"
    /\ pool = "closed" => \A w \in Work : work[w] # "holding"
    /\ isClosed => Plain = {} \/ deadline = "expired" \/ serverErr = "error"

IInv ==
    /\ TypeOK /\ Configured /\ StackIsOpen /\ StackOfMain /\ Filled /\ Served
    /\ Requested

-----------------------------------------------------------------------------
\* What pushing and popping does to the stacks there are.
LEMMA Stacks ==
    /\ Append(NoCloser, "bus") = OnlyBus
    /\ Append(NoCloser, "pool") = OnlyPool
    /\ Append(OnlyPool, "bus") = PoolAndBus
    /\ Front(OnlyBus) = NoCloser /\ Last(OnlyBus) = "bus"
    /\ Front(OnlyPool) = NoCloser /\ Last(OnlyPool) = "pool"
    /\ Front(PoolAndBus) = OnlyPool /\ Last(PoolAndBus) = "bus"
    /\ NoCloser # OnlyBus /\ NoCloser # OnlyPool /\ NoCloser # PoolAndBus
    /\ OnlyBus # OnlyPool /\ OnlyBus # PoolAndBus /\ OnlyPool # PoolAndBus
<1> USE DEF NoCloser, OnlyBus, OnlyPool, PoolAndBus
<1> DEFINE C == {"pool", "bus"}
           pushed == Append(OnlyPool, "bus")
           popped == SubSeq(PoolAndBus, 1, 1)
<1>1. Append(NoCloser, "bus") = OnlyBus /\ Append(NoCloser, "pool") = OnlyPool
  OBVIOUS
<1>2. /\ OnlyPool \in Seq(C) /\ PoolAndBus \in Seq(C)
      /\ Len(NoCloser) = 0
      /\ Len(OnlyBus) = 1 /\ Len(OnlyPool) = 1 /\ Len(PoolAndBus) = 2
      /\ OnlyBus[1] = "bus" /\ OnlyPool[1] = "pool"
      /\ PoolAndBus[1] = "pool" /\ PoolAndBus[2] = "bus"
  OBVIOUS
<1>3. SubSeq(OnlyBus, 1, 0) = NoCloser /\ SubSeq(OnlyPool, 1, 0) = NoCloser
  OBVIOUS
<1> HIDE DEF NoCloser, OnlyBus, OnlyPool, PoolAndBus
<1>4. pushed = PoolAndBus
  <2>1. /\ pushed \in Seq(C) /\ Len(pushed) = 2
        /\ pushed[1] = "pool" /\ pushed[2] = "bus"
    BY <1>2
  <2>2. \A i \in 1 .. 2 : pushed[i] = PoolAndBus[i]
    BY <1>2, <2>1
  <2> HIDE DEF pushed
  <2>3. QED
    BY <1>2, <2>1, <2>2, SeqEqual
<1>5. popped = OnlyPool
  <2>1. popped \in Seq(C) /\ Len(popped) = 1 /\ popped[1] = "pool"
    BY <1>2
  <2>2. \A i \in 1 .. 1 : popped[i] = OnlyPool[i]
    BY <1>2, <2>1
  <2> HIDE DEF popped
  <2>3. QED
    BY <1>2, <2>1, <2>2, SeqEqual
<1>6. QED
  BY <1>1, <1>2, <1>3, <1>4, <1>5 DEF Front, Last

\* The steps of Build, one after the other.
LEMMA BuildSteps ==
    /\ Head(AllSteps) = "repositories" /\ Tail(AllSteps) = FromServices
    /\ Head(FromServices) = "services" /\ Tail(FromServices) = FromGraphQL
    /\ Head(FromGraphQL) = "graphql" /\ Tail(FromGraphQL) = FromHTTP
    /\ Head(FromHTTP) = "http" /\ Tail(FromHTTP) = <<>>
    /\ AllSteps # <<>> /\ FromServices # <<>> /\ FromGraphQL # <<>> /\ FromHTTP # <<>>
BY DEF AllSteps, FromServices, FromGraphQL, FromHTTP

\* A valid configuration has the limits the rest of the program relies on.
LEMMA ValidLimits ==
    ASSUME NEW c \in {Read(s) : s \in Settings}, Validate(c)
    PROVE  /\ c.maxConns >= 1 /\ c.bufferSize >= 1 /\ c.maxPageSize >= 1
           /\ c.maxDepth >= 1 /\ c.complexity >= 1
           /\ c.environment = "prod" => c.origins # {}
           /\ c.backend \in {"memory", "postgres"}
<1>1. PICK s \in Settings : c = Read(s)
  OBVIOUS
<1>2. ASSUME NEW raw, NEW d \in Int, raw \in {Unset, Garbage} \/ raw \in Int,
             envInt(raw, d) > 0
      PROVE  envInt(raw, d) >= 1
  BY <1>2 DEF envInt
<1>3. /\ c.maxConns = envInt(s.env.maxConns, 10)
      /\ c.bufferSize = envInt(s.env.bufferSize, 16)
      /\ c.maxPageSize = envInt(s.env.maxPageSize, 100)
      /\ c.maxDepth = envInt(s.env.maxDepth, 12)
      /\ c.complexity = envInt(s.env.complexity, 500)
  BY <1>1 DEF Read
<1>4. /\ c.maxConns > 0 /\ c.bufferSize > 0 /\ c.maxPageSize > 0
      /\ c.maxDepth > 0 /\ c.complexity > 0
      /\ c.environment = "prod" => c.origins # {}
      /\ c.backend \in {"memory", "postgres"}
  BY DEF Validate
<1>5. /\ s.env.maxConns \in {Unset, Garbage} \/ s.env.maxConns \in Int
      /\ s.env.bufferSize \in {Unset, Garbage} \/ s.env.bufferSize \in Int
      /\ s.env.maxPageSize \in {Unset, Garbage} \/ s.env.maxPageSize \in Int
      /\ s.env.maxDepth \in {Unset, Garbage} \/ s.env.maxDepth \in Int
      /\ s.env.complexity \in {Unset, Garbage} \/ s.env.complexity \in Int
  BY SettingsAssumption
<1> HIDE DEF Validate, Read
<1>6. QED
  BY <1>2, <1>3, <1>4, <1>5

\* Before config.Load nothing is open and nothing runs.
LEMMA InitHolds == Init => IInv
<1> SUFFICES ASSUME Init PROVE IInv
  OBVIOUS
<1>1. TypeOK
  BY DEF Init, TypeOK, Mains
<1>2. Configured /\ StackIsOpen /\ StackOfMain
  BY Stacks DEF Init, Configured, StackIsOpen, StackOfMain, NoCloser
<1>3. Filled /\ Served /\ Requested
  BY DEF Init, Filled, Served, Requested, AllSteps
<1>4. QED
  BY <1>1, <1>2, <1>3 DEF IInv

-----------------------------------------------------------------------------
\* After an init, no step of Build misses what it needs.
LEMMA BuildProceeds ==
    ASSUME IInv, Build
    PROVE  /\ UNCHANGED <<main, exit, config, isClosed, resources, process>>
           /\ \/ steps = AllSteps /\ steps' = FromServices
                   /\ container' = container \cup Repositories
              \/ steps = FromServices /\ steps' = FromGraphQL
                   /\ container' = container \cup Services
              \/ steps = FromGraphQL /\ steps' = FromHTTP
                   /\ container' = container \cup {"GraphQLHandler"}
              \/ steps = FromHTTP /\ steps' = <<>>
                   /\ container' = container \cup {"HTTPServer"}
<1>1. /\ main = "build" /\ steps # <<>> /\ steps' = Tail(steps)
      /\ Base \subseteq container
      /\ UNCHANGED <<config, isClosed, resources, process>>
  BY DEF Build, IInv, Filled
<1>2. ASSUME Needs(Head(steps)) \subseteq container
      PROVE  /\ container' = container \cup Fills(Head(steps))
             /\ UNCHANGED <<main, exit>>
  BY <1>2 DEF Build
<1>3. CASE steps = AllSteps
  <2>1. Needs("repositories") \subseteq container /\ Fills("repositories") = Repositories
    BY <1>1 DEF Needs, Fills, Base, Repositories
  <2>2. QED
    BY <1>1, <1>2, <1>3, <2>1, BuildSteps
<1>4. CASE steps = FromServices /\ Repositories \subseteq container
  <2>1. Needs("services") \subseteq container /\ Fills("services") = Services
    BY <1>1, <1>4 DEF Needs, Fills, Base, Repositories, Services
  <2>2. QED
    BY <1>1, <1>2, <1>4, <2>1, BuildSteps
<1>5. CASE steps = FromGraphQL /\ Repositories \cup Services \subseteq container
  <2>1. Needs("graphql") \subseteq container /\ Fills("graphql") = {"GraphQLHandler"}
    BY <1>1, <1>5 DEF Needs, Fills, Base, Services
  <2>2. QED
    BY <1>1, <1>2, <1>5, <2>1, BuildSteps
<1>6. CASE /\ steps = FromHTTP
           /\ Repositories \cup Services \cup {"GraphQLHandler"} \subseteq container
  <2>1. Needs("http") \subseteq container /\ Fills("http") = {"HTTPServer"}
    BY <1>6 DEF Needs, Fills
  <2>2. QED
    BY <1>1, <1>2, <1>6, <2>1, BuildSteps
<1>7. QED
  BY <1>1, <1>3, <1>4, <1>5, <1>6 DEF IInv, Filled

\* What inits and builds fill in are fields of the Container.
LEMMA FilledAreFields ==
    /\ {"MemoryStore", "TxManager", "Events"} \subseteq Fields
    /\ {"Pool", "HealthCheck", "TxManager"} \subseteq Fields
    /\ {"Events"} \subseteq Fields
    /\ Repositories \subseteq Fields /\ Services \subseteq Fields
    /\ {"GraphQLHandler"} \subseteq Fields /\ {"HTTPServer"} \subseteq Fields
BY DEF Repositories, Services, Fields

\* No step leaves the types.
LEMMA TypeKept == IInv /\ [Next]_vars => TypeOK'
<1> SUFFICES ASSUME IInv, [Next]_vars PROVE TypeOK'
  OBVIOUS
<1>1. TypeOK
  BY DEF IInv
<1> USE DEF TypeOK, process, resources, others, ReturnFromRun, ExitAtOnce, Drained,
            Closing, CloserDone, Mains
<1>2. CASE Load \/ InitPoolFails \/ InitBusFails
  BY <1>1, <1>2 DEF Load, InitPoolFails, InitBusFails
<1>3. CASE initMemory \/ InitPool \/ InitBus
  <2>1. container' \in SUBSET Fields
    BY <1>1, <1>3, FilledAreFields DEF initMemory, InitPool, InitBus
  <2>2. QED
    BY <1>1, <1>3, <2>1 DEF initMemory, InitPool, InitBus
<1>4. CASE Build
  <2>1. container' \in SUBSET Fields
    BY <1>1, <1>4, BuildProceeds, FilledAreFields
  <2>2. QED
    BY <1>1, <1>4, <2>1, BuildProceeds
<1>5. CASE Start \/ SelectSignal \/ SelectServerErr \/ Drain \/ DrainTimesOut \/ Deferred
  BY <1>1, <1>5 DEF Start, SelectSignal, SelectServerErr, Drain, DrainTimesOut, Deferred
<1>6. CASE CloseBus \/ ClosePool \/ Closed
  BY <1>1, <1>6 DEF CloseBus, ClosePool, Closed
<1>7. CASE ServerStarts \/ ServerPanics \/ ServerFails \/ ServerStops \/ Signal \/ Expire
  BY <1>1, <1>7 DEF ServerStarts, ServerPanics, ServerFails, ServerStops, Signal, Expire
<1>8. CASE \E w \in Work : Client(w)
  BY <1>1, <1>8 DEF Client, Accept, Operation, Acquire, Release, Finish, Step
<1>9. CASE UNCHANGED vars
  BY <1>1, <1>9 DEF vars
<1>10. QED
  BY <1>2, <1>3, <1>5, <1>6, <1>7, <1>8, <1>9, <1>4 DEF Next, Main

\* The configuration is never changed, and only a valid one gets past Load.
LEMMA ConfiguredKept == IInv /\ [Next]_vars => Configured'
<1> SUFFICES ASSUME IInv, [Next]_vars PROVE Configured'
  OBVIOUS
<1>1. Configured /\ Served
  BY DEF IInv
<1>2. config' = config
  BY DEF Next, Main, Load, initMemory, InitPool, InitPoolFails, InitBus, InitBusFails,
         Build, Start, SelectSignal, SelectServerErr, Drain, DrainTimesOut, Drained,
         Deferred, CloseBus, ClosePool, Closed, ServerStarts, ServerPanics, ServerFails,
         ServerStops, Signal, Expire, Client, Accept, Operation, Acquire, Release,
         Finish, Step, others, vars
<1>3. CASE Load
  BY <1>1, <1>2, <1>3 DEF Load, Configured, ExitAtOnce, process
<1>4. CASE ~Load
  <2>1. main \in {"load", "exited"} => main' \in {main, "exited"}
    BY <1>4 DEF Next, Main, initMemory, InitPool, InitPoolFails, InitBus,
         InitBusFails, Build, Start, SelectSignal, SelectServerErr, Drain,
         DrainTimesOut, Drained, Deferred, CloseBus, ClosePool, Closed, Closing,
         ServerStarts, ServerPanics, ServerFails, ServerStops, Signal, Expire, Alive,
         Client, Accept, Operation, Acquire, Release, Finish, Step, others, vars,
         ExitAtOnce
  <2>2. server = "none" /\ server' # "none" => main = "build"
    BY DEF Next, Main, Load, initMemory, InitPool, InitPoolFails, InitBus,
         InitBusFails, Build, Start, SelectSignal, SelectServerErr, Drain,
         DrainTimesOut, Drained, Deferred, CloseBus, ClosePool, Closed,
         ServerStarts, ServerPanics, ServerFails, ServerStops, Signal, Expire,
         Client, Accept, Operation, Acquire, Release, Finish, Step, others, process, vars
  <2>3. QED
    BY <1>1, <1>2, <2>1, <2>2 DEF Configured
<1>5. QED
  BY <1>3, <1>4

\* The closers are pushed as things are opened and popped as they are closed.
LEMMA StackKept == IInv /\ [Next]_vars => StackIsOpen' /\ StackOfMain'
<1> SUFFICES ASSUME IInv, [Next]_vars PROVE StackIsOpen' /\ StackOfMain'
  OBVIOUS
<1>1. StackIsOpen /\ StackOfMain /\ TypeOK
  BY DEF IInv
<1>2. main \notin {"load", "exited"} => config.backend \in {"memory", "postgres"}
  BY ValidLimits DEF IInv, Configured
<1> USE DEF StackIsOpen, StackOfMain, resources, process, others, ExitAtOnce, ReturnFromRun
<1>3. CASE Load
  BY <1>1, <1>3, Stacks DEF Load
<1>4. CASE initMemory \/ InitPool \/ InitPoolFails
  <2>1. main = "init" /\ closers = NoCloser /\ pool = "none" /\ ~isClosed
    BY <1>1, <1>4 DEF initMemory, InitPool, InitPoolFails
  <2>2. CASE initMemory
    BY <1>1, <2>1, <2>2, Stacks DEF initMemory
  <2>3. CASE InitPool
    BY <1>1, <2>1, <2>3, Stacks DEF InitPool
  <2>4. CASE InitPoolFails
    BY <1>1, <2>1, <2>4, Stacks DEF InitPoolFails
  <2>5. QED
    BY <1>4, <2>2, <2>3, <2>4
<1>5. CASE InitBus \/ InitBusFails
  <2>1. main = "initBus" /\ closers = OnlyPool /\ config.backend = "postgres"
    BY <1>1, <1>5 DEF InitBus, InitBusFails
  <2>2. CASE InitBus
    BY <1>1, <2>1, <2>2, Stacks DEF InitBus
  <2>3. CASE InitBusFails
    BY <1>1, <2>1, <2>3, Stacks DEF InitBusFails
  <2>4. QED
    BY <1>5, <2>2, <2>3
<1>6. CASE Build \/ Start
  BY <1>1, <1>6, BuildProceeds DEF Build, Start
<1>7. CASE SelectSignal \/ SelectServerErr \/ Drain \/ DrainTimesOut
  BY <1>1, <1>7 DEF SelectSignal, SelectServerErr, Drain, DrainTimesOut, Drained
<1>8. CASE Deferred
  BY <1>1, <1>8 DEF Deferred
<1>9. CASE CloseBus \/ ClosePool
  <2>1. main = "closing" /\ closers # NoCloser
    BY <1>9 DEF CloseBus, ClosePool, Closing, NoCloser
  <2>2. QED
    BY <1>1, <1>9, <2>1, Stacks DEF CloseBus, ClosePool, Closing, NextCloser, CloserDone
<1>10. CASE Closed
  BY <1>1, <1>10 DEF Closed, NoCloser
<1>11. CASE ServerStarts \/ ServerPanics \/ ServerFails \/ ServerStops \/ Signal \/ Expire
  BY <1>1, <1>11 DEF ServerStarts, ServerPanics, ServerFails, ServerStops, Signal, Expire
<1>12. CASE \E w \in Work : Client(w)
  BY <1>1, <1>12 DEF Client, Accept, Operation, Acquire, Release, Finish, Step
<1>13. CASE UNCHANGED vars
  BY <1>1, <1>13 DEF vars
<1>14. QED
  BY <1>3, <1>4, <1>5, <1>6, <1>7, <1>8, <1>9, <1>10, <1>11, <1>12, <1>13 DEF Next, Main

\* The container is complete when its server is started.
LEMMA FilledKept == IInv /\ [Next]_vars => Filled'
<1> SUFFICES ASSUME IInv, [Next]_vars PROVE Filled'
  OBVIOUS
<1>1. Filled /\ (main \in {"load", "init", "initBus", "build"} => server = "none")
  BY DEF IInv, Served
<1> USE DEF resources, process, others, ExitAtOnce, ReturnFromRun
<1>2. CASE Load \/ InitPoolFails \/ InitBusFails
  BY <1>1, <1>2 DEF Load, InitPoolFails, InitBusFails, Filled
<1>3. CASE initMemory \/ InitPool
  BY <1>1, <1>3, BuildSteps DEF initMemory, InitPool, Filled, Base
<1>4. CASE InitBus
  <2>1. config.backend # "memory"
    BY <1>4 DEF InitBus, IInv, StackOfMain
  <2>2. QED
    BY <1>1, <1>4, <2>1 DEF InitBus, Filled, Base
<1>5. CASE Build
  BY <1>1, <1>5, BuildProceeds, BuildSteps DEF Build, Filled, Base
<1>6. CASE Start \/ SelectSignal \/ SelectServerErr \/ Drain \/ DrainTimesOut \/ Deferred
  <2>1. CASE Start
    BY <1>1, <2>1, BuildSteps DEF Start, Filled, Base
  <2>2. CASE SelectSignal \/ SelectServerErr
    BY <1>1, <2>2 DEF SelectSignal, SelectServerErr, Filled
  <2>3. CASE Drain \/ DrainTimesOut \/ Deferred
    BY <1>1, <2>3 DEF Drain, DrainTimesOut, Drained, Deferred, Filled
  <2>4. QED
    BY <1>6, <2>1, <2>2, <2>3
<1>7. CASE CloseBus \/ ClosePool \/ Closed
  BY <1>1, <1>7 DEF CloseBus, ClosePool, Closed, Closing, Filled
<1>8. CASE ServerStarts \/ ServerPanics \/ ServerFails \/ ServerStops \/ Signal \/ Expire
  BY <1>1, <1>8 DEF ServerStarts, ServerPanics, ServerFails, ServerStops, Signal, Expire,
                    Filled, Base
<1>9. CASE \E w \in Work : Client(w)
  BY <1>1, <1>9 DEF Client, Accept, Operation, Acquire, Release, Finish, Step, Filled, Base
<1>10. CASE UNCHANGED vars
  BY <1>1, <1>10 DEF vars, Filled, Base
<1>11. QED
  BY <1>2, <1>3, <1>4, <1>5, <1>6, <1>7, <1>8, <1>9, <1>10 DEF Next, Main

\* The server is started by main and stopped by the shutdown or by itself.
LEMMA ServedKept == IInv /\ [Next]_vars => Served'
<1> SUFFICES ASSUME IInv, [Next]_vars PROVE Served'
  OBVIOUS
<1>1. Served /\ StackOfMain /\ Filled /\ TypeOK
  BY DEF IInv
<1> USE DEF Served, StackOfMain, resources, process, others, ExitAtOnce, ReturnFromRun
<1>2. CASE Load \/ initMemory \/ InitPool \/ InitBus \/ InitPoolFails \/ InitBusFails
  BY <1>1, <1>2 DEF Load, initMemory, InitPool, InitBus, InitPoolFails, InitBusFails
<1>3. CASE Build
  BY <1>1, <1>3, BuildProceeds DEF Build
<1>4. CASE Start
  BY <1>1, <1>4 DEF Start
<1>5. CASE SelectSignal \/ Drain \/ DrainTimesOut
  BY <1>1, <1>5 DEF SelectSignal, Drain, DrainTimesOut, Drained
<1>6. CASE SelectServerErr
  BY <1>1, <1>6 DEF SelectServerErr, TypeOK
<1>7. CASE Deferred \/ CloseBus \/ ClosePool \/ Closed
  BY <1>1, <1>7 DEF Deferred, CloseBus, ClosePool, Closed, Closing
<1>8. CASE ServerStarts \/ ServerPanics \/ ServerFails \/ ServerStops
  BY <1>1, <1>8 DEF ServerStarts, ServerPanics, ServerFails, ServerStops, Filled
<1>9. CASE Signal \/ Expire
  BY <1>1, <1>9 DEF Signal, Expire
<1>10. CASE \E w \in Work : Client(w)
  BY <1>1, <1>10 DEF Client, Accept, Operation, Acquire, Release, Finish, Step
<1>11. CASE UNCHANGED vars
  BY <1>1, <1>11 DEF vars
<1>12. QED
  BY <1>2, <1>3, <1>4, <1>5, <1>6, <1>7, <1>8, <1>9, <1>10, <1>11 DEF Next, Main

\* Only a client's step moves a request.
LEMMA RequestedKept == IInv /\ [Next]_vars => Requested'
<1> SUFFICES ASSUME IInv, [Next]_vars PROVE Requested'
  OBVIOUS
<1>1. Requested /\ Served /\ StackOfMain /\ TypeOK
  BY DEF IInv
<1> USE DEF resources, process, others, ExitAtOnce, ReturnFromRun
<1>2. CASE \E w \in Work : Client(w)
  <2>1. PICK w \in Work : Client(w)
    BY <1>2
  <2>2. UNCHANGED <<server, pool, isClosed, deadline, serverErr>>
    BY <2>1 DEF Client, Accept, Operation, Acquire, Release, Finish, Step
  <2>3. PICK to : /\ work' = [work EXCEPT ![w] = to]
                  /\ work[w] = "idle" => Serving
                  /\ to = "holding" => pool = "open"
                  /\ to \in {"active", "holding"} =>
                       w \in Sockets \/ Serving \/ work[w] \in {"active", "holding"}
    BY <2>1 DEF Client, Accept, Operation, Acquire, Release, Finish, Step
  <2>4. server # "none"
    BY <1>1, <2>1, <2>3 DEF Requested, Serving, Client, Accept, Operation, Acquire,
                      Release, Finish, Step
  <2>5. \A v \in Work : work'[v] = IF v = w THEN to ELSE work[v]
    BY <1>1, <2>3 DEF TypeOK
  <2>6. pool' = "closed" => \A v \in Work : work'[v] # "holding"
    BY <1>1, <2>2, <2>3, <2>5 DEF Requested
  <2>7. ASSUME isClosed, deadline # "expired", serverErr # "error"
        PROVE  Plain' = {}
    <3>1. Plain = {} /\ ~Serving
      BY <1>1, <2>7 DEF Requested, Served, Serving
    <3>2. \A v \in Work \ Sockets : work[v] \notin {"active", "holding"}
      BY <3>1 DEF Plain
    <3>3. \A v \in Work \ Sockets : work'[v] \notin {"active", "holding"}
      BY <2>3, <2>5, <3>1, <3>2
    <3>4. QED
      BY <3>3 DEF Plain
  <2>8. QED
    BY <2>2, <2>4, <2>6, <2>7 DEF Requested
<1>3. CASE work' = work
  <2>1. Plain' = Plain
    BY <1>3 DEF Plain
  <2>2. server' = "none" => server = "none"
    BY DEF Next, Main, Load, initMemory, InitPool, InitPoolFails, InitBus,
         InitBusFails, Build, Start, SelectSignal, SelectServerErr, Drain,
         DrainTimesOut, Drained, Deferred, CloseBus, ClosePool, Closed,
         ServerStarts, ServerPanics, ServerFails, ServerStops, Signal, Expire,
         Client, Accept, Operation, Acquire, Release, Finish, Step, vars
  <2>3. pool' = "closed" => \A w \in Work : work[w] # "holding"
    <3>1. CASE InitBusFails
      <4>1. server = "none"
        BY <1>1, <3>1 DEF InitBusFails, Served
      <4>2. QED
        BY <1>1, <4>1 DEF Requested
    <3>2. CASE ClosePool
      BY <1>1, <3>2 DEF ClosePool, Requested
    <3>3. CASE ~InitBusFails /\ ~ClosePool
      <4>1. pool' = "closed" => pool = "closed"
        BY <3>3 DEF Next, Main, Load, initMemory, InitPool, InitPoolFails, InitBus,
             Build, Start, SelectSignal, SelectServerErr, Drain,
             DrainTimesOut, Drained, Deferred, CloseBus, Closed,
             ServerStarts, ServerPanics, ServerFails, ServerStops, Signal, Expire,
             Client, Accept, Operation, Acquire, Release, Finish, Step, vars
      <4>2. QED
        BY <1>1, <4>1 DEF Requested
    <3>4. QED
      BY <3>1, <3>2, <3>3
  <2>4. isClosed' => Plain = {} \/ deadline' = "expired" \/ serverErr' = "error"
    <3>1. CASE Drain
      BY <3>1 DEF Drain
    <3>2. CASE DrainTimesOut
      BY <3>2 DEF DrainTimesOut, Drained
    <3>3. CASE Deferred
      <4>1. isClosed \/ serverErr = "error"
        BY <1>1, <3>3 DEF Deferred, Served
      <4>2. QED
        BY <1>1, <3>3, <4>1 DEF Deferred, Requested
    <3>4. CASE SelectSignal \/ Start
      BY <1>1, <3>4 DEF SelectSignal, Start, StackOfMain
    <3>5. CASE ServerStarts \/ ServerPanics \/ ServerFails \/ ServerStops \/ Expire
      BY <1>1, <3>5 DEF ServerStarts, ServerPanics, ServerFails, ServerStops, Expire,
                        Requested, Served
    <3>6. CASE UNCHANGED <<isClosed, deadline, serverErr>>
      BY <1>1, <3>6 DEF Requested
    <3>7. QED
      BY <1>3, <3>1, <3>2, <3>3, <3>4, <3>5, <3>6
         DEF Next, Main, Load, initMemory, InitPool, InitPoolFails, InitBus,
             InitBusFails, Build, SelectServerErr, CloseBus, ClosePool, Closed, Signal,
             Client, Accept, Operation, Acquire, Release, Finish, Step, vars
  <2>5. QED
    BY <1>1, <1>3, <2>1, <2>2, <2>3, <2>4 DEF Requested
<1>4. QED
  BY <1>2, <1>3
     DEF Next, Main, Load, initMemory, InitPool, InitPoolFails, InitBus, InitBusFails,
         Build, Start, SelectSignal, SelectServerErr, Drain, DrainTimesOut, Drained,
         Deferred, CloseBus, ClosePool, Closed, ServerStarts, ServerPanics, ServerFails,
         ServerStops, Signal, Expire, vars

-----------------------------------------------------------------------------
\* The stack of closers, the container, the server and the requests fit the place
\* of main at every instant, whatever fails.
THEOREM IInvHolds == Spec => []IInv
<1>1. IInv /\ [Next]_vars => IInv'
  BY TypeKept, ConfiguredKept, StackKept, FilledKept, ServedKept, RequestedKept DEF IInv
<1>2. QED
  BY <1>1, InitHolds, PTL DEF Spec

\* The variables of the process have their types, for any configuration.
THEOREM TypeCorrect == Spec => []TypeOK
<1>1. IInv => TypeOK
  BY DEF IInv
<1>2. QED
  BY <1>1, IInvHolds, PTL

\* The process serves only with a valid configuration and a complete container,
\* and a Build after an init never misses a dependency.
THEOREM ReadyToServeHolds == Spec => []ReadyToServe
<1>1. IInv => ReadyToServe
  <2> SUFFICES ASSUME IInv PROVE ReadyToServe
    OBVIOUS
  <2>1. server # "none" =>
          /\ config.maxConns >= 1 /\ config.bufferSize >= 1
          /\ config.maxPageSize >= 1 /\ config.maxDepth >= 1 /\ config.complexity >= 1
          /\ config.environment = "prod" => config.origins # {}
    BY ValidLimits DEF IInv, Configured
  <2>2. main = "select" =>
          /\ bus = "open" /\ (pool = "open" <=> config.backend = "postgres")
          /\ {"PostsService", "CommentsService", "GraphQLHandler", "HTTPServer"}
               \subseteq container
    <3>1. SUFFICES ASSUME main = "select"
                   PROVE  /\ bus = "open" /\ (pool = "open" <=> config.backend = "postgres")
                          /\ {"PostsService", "CommentsService", "GraphQLHandler",
                              "HTTPServer"} \subseteq container
      OBVIOUS
    <3>2. config.backend \in {"memory", "postgres"}
      BY <3>1, ValidLimits DEF IInv, Configured
    <3>3. bus = "open" /\ (pool = "open" <=> config.backend = "postgres")
      BY <3>1, <3>2 DEF IInv, StackIsOpen, StackOfMain
    <3>4. {"PostsService", "CommentsService", "GraphQLHandler", "HTTPServer"}
            \subseteq container
      BY <3>1, BuildSteps DEF IInv, Filled, Services
    <3>5. QED
      BY <3>3, <3>4
  <2>3. main = "return" => server # "none"
    BY DEF IInv, Served
  <2>4. QED
    BY <2>1, <2>2, <2>3 DEF ReadyToServe
<1>2. QED
  BY <1>1, IInvHolds, PTL

\* The pool outlives the bus and every request that has a connection, and a
\* process that returns has closed both, whatever failed.
THEOREM NothingLeftOpenHolds == Spec => []NothingLeftOpen
<1>1. IInv => NothingLeftOpen
  BY Stacks DEF IInv, TypeOK, StackIsOpen, StackOfMain, Requested, NothingLeftOpen
<1>2. QED
  BY <1>1, IInvHolds, PTL

\* A shutdown takes nothing from a request on a plain connection before its
\* deadline, for any number of requests.
THEOREM GracefulHolds == Spec => []Graceful
<1>1. IInv => Graceful
  <2> SUFFICES ASSUME IInv, bus # "open" \/ pool \in {"closing", "closed"}, Plain # {}
               PROVE  deadline = "expired" \/ serverErr = "error"
    BY DEF Graceful
  <2>1. server # "none"
    BY DEF IInv, Requested, Plain
  <2>2. closers \in {NoCloser, OnlyPool}
    BY DEF IInv, StackIsOpen
  <2>3. main \notin {"load", "init", "initBus", "build", "select", "drain"}
    BY <2>1, <2>2, Stacks DEF IInv, Served, StackOfMain
  <2>4. QED
    BY <2>1, <2>2, <2>3 DEF IInv, TypeOK, Mains, Served, StackOfMain, Requested
<1>2. QED
  BY <1>1, IInvHolds, PTL
=============================================================================
