----------------------------- MODULE Operations -----------------------------
(***************************************************************************)
(* Operations that read lists, from their guards to their answers, through *)
(* the data loaders of their request state.  A request state lives as long *)
(* as the HTTP request it was made for: one operation over plain HTTP, all *)
(* operations of the connection over a WebSocket.                          *)
(*                                                                         *)
(* A loader joins the keys asked for within its wait into a batch, reads   *)
(* them group by group, and keeps every result, errors included, for good. *)
(* Lists only grow, so that a result is told by the length its list had.   *)
(***************************************************************************)
EXTENDS Naturals, FiniteSets

CONSTANTS
    Admissions, \* what the guards find about operations (module Guards)
    Operation,  \* the operations
    Sessions,   \* the HTTP requests, upgraded or not
    SessionOf,  \* the request each operation comes with
    Lists,      \* lists of comments
    ScopeOf,    \* whether a list is of a "post" or of a "comment"
    Args,       \* the pairs of `first` and `after` pages are asked with
    Selection,  \* the pages that each operation asks for
    MaxRows,    \* bound: how long a list gets
    Null        \* no result, no batch

ASSUME SessionAssumption == SessionOf \in [Operation -> Sessions]

ASSUME ScopeAssumption == ScopeOf \in [Lists -> {"post", "comment"}]

\* The loaders of a request state.
Kinds == {"commentConnections", "topLevelCounts", "replyCounts"}

\* Their keys: of a page (commentConnectionKey), of the count of a list.
PageKeys == [kind: {"commentConnections"}, list: Lists, args: Args]
CountOf(l) ==
    [kind |-> IF ScopeOf[l] = "post" THEN "topLevelCounts" ELSE "replyCounts", list |-> l]
CountKeys == {CountOf(l) : l \in Lists}
Keys == PageKeys \cup CountKeys

ASSUME SelectionAssumption == Selection \in [Operation -> SUBSET PageKeys]

\* With the verdict, whether the largest answer is within the limits.
ASSUME AdmissionsAssumption == \A a \in Admissions : a.bounded \in BOOLEAN

Result == [ok: BOOLEAN, rows: 0..MaxRows]

\* A batch as its loader collects it, and as it is read: the keys still to be
\* read, and the results of the others.
Batch == [ctx: Operation, keys: SUBSET Keys]
Running == [session: Sessions, kind: Kinds, ctx: Operation, left: SUBSET Keys,
            read: UNION {[keys -> Result] : keys \in SUBSET Keys}]

ASSUME BoundAssumption == MaxRows \in Nat
ASSUME NullAssumption ==
    /\ Null \notin [Lists -> 0..MaxRows] /\ Null \notin PageKeys
    /\ Null \notin Result /\ Null \notin Batch

VARIABLES
    rows,       \* the length of each list in the storage
    opened,     \* history: the lengths when a request state was made, or Null
    stage,      \* where each operation stands
    bounded,    \* history: whether its largest answer is within the limits
    asked,      \* the keys an operation has asked its loaders for
    cached,     \* the keys a request state has a thunk for
    value,      \* what the thunks answer, or Null as long as they wait
    batch,      \* the batch each loader collects, or Null
    running,    \* the batches that are being read
    through,    \* history: the page a count was first asked for through
    failed      \* history: request states one of whose statements has failed

vars == <<rows, opened, stage, bounded, asked, cached, value, batch, running,
          through, failed>>

loaders == <<cached, value, batch, running, through, failed>>

Init ==
    /\ rows = [l \in Lists |-> 0]
    /\ opened = [s \in Sessions |-> Null]
    /\ stage = [o \in Operation |-> "new"]
    /\ bounded = [o \in Operation |-> FALSE]
    /\ asked = [o \in Operation |-> {}]
    /\ cached = [s \in Sessions |-> {}]
    /\ value = [s \in Sessions |-> [k \in Keys |-> Null]]
    /\ batch = [s \in Sessions |-> [t \in Kinds |-> Null]]
    /\ running = {}
    /\ through = [s \in Sessions |-> [l \in Lists |-> Null]]
    /\ failed = {}

-----------------------------------------------------------------------------
\* Mutant of State: one request state for the process.
StateOfProcess(o) == CHOOSE s \in Sessions : TRUE

\* requestStateFromContext.
State(o) == SessionOf[o]

Answer(o, k) == value[State(o)][k]
Answered(o, k) == k \in asked[o] /\ Answer(o, k) # Null

\* A comment is stored.
Insert(l) ==
    /\ rows[l] < MaxRows
    /\ rows' = [rows EXCEPT ![l] = @ + 1]
    /\ UNCHANGED <<opened, stage, bounded, asked, loaders>>

\* withRequestState: new loaders, with nothing in them.
Open(s) ==
    /\ opened[s] = Null
    /\ opened' = [opened EXCEPT ![s] = rows]
    /\ UNCHANGED <<rows, stage, bounded, asked, loaders>>

\* The operation is parsed and validated, and passes the guards or is refused.
Arrive(o) ==
    /\ stage[o] = "new"
    /\ opened[SessionOf[o]] # Null
    /\ \E a \in Admissions :
         /\ bounded' = [bounded EXCEPT ![o] = a.bounded]
         /\ stage' = [stage EXCEPT ![o] = IF a.verdict = "ok" THEN "executing" ELSE "refused"]
    /\ UNCHANGED <<rows, opened, asked, loaders>>

\* Load of a key that has no thunk yet: it joins the batch of its loader, or
\* begins one, with the context of its own operation.
Join(s, o, k) ==
    LET b == batch[s][k.kind] IN
    /\ cached' = [cached EXCEPT ![s] = @ \cup {k}]
    /\ batch' = [batch EXCEPT ![s][k.kind] =
                   IF b = Null THEN [ctx |-> o, keys |-> {k}]
                               ELSE [b EXCEPT !.keys = @ \cup {k}]]

\* Load: of a key that has a thunk, or joins a batch.
Ask(o, k) ==
    /\ stage[o] = "executing"
    /\ k \notin asked[o]
    /\ asked' = [asked EXCEPT ![o] = @ \cup {k}]
    /\ IF k \in cached[State(o)] THEN UNCHANGED <<cached, batch>> ELSE Join(State(o), o, k)
    /\ UNCHANGED <<rows, opened, stage, bounded, value, running, failed>>

\* The resolver of a list loads a page.
LoadPage(o, k) ==
    /\ k \in Selection[o]
    /\ Ask(o, k)
    /\ UNCHANGED through

\* Mutant of HasConnection: the count is read ahead, together with the page.
HasConnectionAhead(o, p) == p \in asked[o]

\* Only a page that was read gives a connection, with a totalCount to ask for.
HasConnection(o, p) == Answered(o, p) /\ Answer(o, p).ok

\* The resolver of totalCount loads the count of the connection's list.
LoadCount(o, p) ==
    LET k == CountOf(p.list) IN
    /\ HasConnection(o, p)
    /\ Ask(o, k)
    /\ through' = IF k \in cached[State(o)] THEN through
                  ELSE [through EXCEPT ![State(o)][p.list] = p]

\* The wait of a loader is over: its batch runs, and the next Load begins
\* another one.
Fire(s, t) ==
    /\ batch[s][t] # Null
    /\ running' = running \cup {[session |-> s, kind |-> t, ctx |-> batch[s][t].ctx,
                                 left |-> batch[s][t].keys, read |-> <<>>]}
    /\ batch' = [batch EXCEPT ![s][t] = Null]
    /\ UNCHANGED <<rows, opened, stage, bounded, asked, cached, value, through, failed>>

\* The keys one statement reads: the pages of the same scope and arguments, or
\* all counts.
GroupOf(k) == <<ScopeOf[k.list], k.args>>

Groups(b) ==
    IF b.kind # "commentConnections" THEN {b.left}
    ELSE {{k \in b.left : GroupOf(k) = g} : g \in {GroupOf(k) : k \in b.left}}

\* A batch function has results for some more of its keys.
Filled(b, group, result) ==
    running' = (running \ {b}) \cup
        {[b EXCEPT !.left = @ \ group,
                   !.read = [k \in group \cup DOMAIN @ |-> IF k \in group THEN result[k]
                                                                     ELSE @[k]]]}

\* The statement of a group, on one snapshot of the table.
ReadGroup(b) ==
    /\ b.left # {}
    /\ \E group \in Groups(b) :
         Filled(b, group, [k \in group |-> [ok |-> TRUE, rows |-> rows[k.list]]])
    /\ UNCHANGED <<rows, opened, stage, bounded, asked, cached, value, batch,
                   through, failed>>

\* Mutant of GroupFails: the keys of a failed group are forgotten.
GroupFailsSilently(b) ==
    /\ b.left # {}
    /\ \E group \in Groups(b) :
         running' = (running \ {b}) \cup {[b EXCEPT !.left = @ \ group]}
    /\ failed' = failed \cup {b.session}
    /\ UNCHANGED <<rows, opened, stage, bounded, asked, cached, value, batch, through>>

\* The statement fails: its own fault, or the context of the operation that has
\* begun the batch is done.  Every key of the group gets the error.
GroupFails(b) ==
    /\ b.left # {}
    /\ \E group \in Groups(b) :
         Filled(b, group, [k \in group |-> [ok |-> FALSE, rows |-> 0]])
    /\ failed' = failed \cup {b.session}
    /\ UNCHANGED <<rows, opened, stage, bounded, asked, cached, value, batch, through>>

\* The batch function returns: all its thunks answer at once.
Deliver(b) ==
    /\ b.left = {}
    /\ value' = [value EXCEPT ![b.session] =
                   [k \in Keys |-> IF k \in DOMAIN b.read THEN b.read[k] ELSE @[k]]]
    /\ running' = running \ {b}
    /\ UNCHANGED <<rows, opened, stage, bounded, asked, cached, batch, through, failed>>

Next ==
    \/ \E l \in Lists : Insert(l)
    \/ \E s \in Sessions : Open(s)
    \/ \E o \in Operation : Arrive(o)
    \/ \E o \in Operation, p \in PageKeys : LoadPage(o, p) \/ LoadCount(o, p)
    \/ \E s \in Sessions, t \in Kinds : Fire(s, t)
    \/ \E b \in running : ReadGroup(b) \/ GroupFails(b) \/ Deliver(b)

Spec == Init /\ [][Next]_vars

\* Timers fire, goroutines run, and a statement ends, well or not.
FairSpec ==
    /\ Spec
    /\ \A s \in Sessions, t \in Kinds : WF_vars(Fire(s, t))
    /\ WF_vars(\E b \in running : ReadGroup(b) \/ GroupFails(b) \/ Deliver(b))

-----------------------------------------------------------------------------
Stages == {"new", "refused", "executing"}

\* The variables hold what the request states and loaders can hold.
TypeOK ==
    /\ rows \in [Lists -> 0..MaxRows]
    /\ opened \in [Sessions -> [Lists -> 0..MaxRows] \cup {Null}]
    /\ stage \in [Operation -> Stages]
    /\ bounded \in [Operation -> BOOLEAN]
    /\ asked \in [Operation -> SUBSET Keys]
    /\ cached \in [Sessions -> SUBSET Keys]
    /\ value \in [Sessions -> [Keys -> Result \cup {Null}]]
    /\ batch \in [Sessions -> [Kinds -> Batch \cup {Null}]]
    /\ running \in SUBSET Running
    /\ through \in [Sessions -> [Lists -> PageKeys \cup {Null}]]
    /\ failed \in SUBSET Sessions

\* Only operations whose largest answer fits the limits are executed, although
\* their complexity is computed in words that overflow: the limits on `first`
\* and on the depth, which come after it, keep it from doing so.
AdmittedIsBounded ==
    \A o \in Operation : stage[o] = "executing" => bounded[o]

\* What an operation is answered comes from its own HTTP request: a list as it
\* was at some instant since the request began, and an error only if a statement
\* of this request has failed.  Over a WebSocket that may be long ago.
AnswersAreOfTheRequest ==
    \A o \in Operation, k \in Keys : Answered(o, k) =>
        LET r == Answer(o, k) IN
        IF r.ok THEN opened[SessionOf[o]][k.list] <= r.rows /\ r.rows <= rows[k.list]
                ELSE SessionOf[o] \in failed

\* A count is not older than the page it was first asked for through, although
\* it is read by another loader, in a batch of other operations.
CountCoversPage ==
    \A s \in Sessions, l \in Lists :
        LET page == value[s][through[s][l]]
            count == value[s][CountOf(l)]
        IN  /\ through[s][l] # Null /\ page # Null /\ page.ok
            /\ count # Null /\ count.ok
            => page.rows <= count.rows

\* Every Load is answered, whichever batch it joins, and whatever fails.
LoadsAreAnswered ==
    \A o \in Operation, k \in Keys :
        k \in Selection[o] \cup CountKeys => (k \in asked[o] ~> Answered(o, k))
=============================================================================
