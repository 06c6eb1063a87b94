---------------------------- MODULE CommentFeed ----------------------------
(***************************************************************************)
(* What application.CommentEvents promises, with no goroutine, lock,       *)
(* channel or database in sight.  A subscription to a post is a log of     *)
(* events of that post.  While an event is being announced it may be added *)
(* to the log of an open subscription, once, if the consumer is not too far*)
(* behind; it may also be lost.  An ended subscription stays ended and gets*)
(* nothing new, and after a shutdown none begins.                          *)
(***************************************************************************)
EXTENDS Naturals, Sequences

CONSTANTS
    Subs,
    Posts,
    Events,
    PostOf,     \* the post of each event
    Capacity,   \* how far behind a consumer may be
    Null        \* no post yet

VARIABLES
    status,     \* "new", "open" or "ended", for each subscription
    topic,      \* the post of each subscription
    log,        \* all the events a subscription was given
    taken,      \* how many of them its consumer has taken
    life,       \* "unborn", "live" or "over", for each event
    down        \* the feed has been shut down

vars == <<status, topic, log, taken, life, down>>

Init ==
    /\ status = [s \in Subs |-> "new"]
    /\ topic = [s \in Subs |-> Null]
    /\ log = [s \in Subs |-> <<>>]
    /\ taken = [s \in Subs |-> 0]
    /\ life = [e \in Events |-> "unborn"]
    /\ down = FALSE

Begin(s, p) ==
    /\ status[s] = "new" /\ ~down
    /\ status' = [status EXCEPT ![s] = "open"]
    /\ topic' = [topic EXCEPT ![s] = p]
    /\ UNCHANGED <<log, taken, life, down>>

Announce(e) ==
    /\ life[e] = "unborn"
    /\ life' = [life EXCEPT ![e] = "live"]
    /\ UNCHANGED <<status, topic, log, taken, down>>

Deliver(s, e) ==
    /\ life[e] = "live"
    /\ status[s] = "open" /\ topic[s] = PostOf[e]
    /\ \A i \in DOMAIN log[s] : log[s][i] # e
    /\ Len(log[s]) - taken[s] < Capacity
    /\ log' = [log EXCEPT ![s] = Append(@, e)]
    /\ UNCHANGED <<status, topic, taken, life, down>>

Settle(e) ==
    /\ life[e] = "live"
    /\ life' = [life EXCEPT ![e] = "over"]
    /\ UNCHANGED <<status, topic, log, taken, down>>

Take(s) ==
    /\ taken[s] < Len(log[s])
    /\ taken' = [taken EXCEPT ![s] = @ + 1]
    /\ UNCHANGED <<status, topic, log, life, down>>

\* Some subscriptions end together.
Ended(S) ==
    status' = [s \in Subs |-> IF s \in S /\ status[s] = "open"
                                THEN "ended" ELSE status[s]]

End(S) == Ended(S) /\ UNCHANGED <<topic, log, taken, life, down>>

Shutdown(S) ==
    /\ ~down /\ down' = TRUE
    /\ Ended(S)
    /\ UNCHANGED <<topic, log, taken, life>>

Next ==
    \/ \E s \in Subs : (\E p \in Posts : Begin(s, p)) \/ Take(s)
    \/ \E e \in Events : Announce(e) \/ Settle(e) \/ \E s \in Subs : Deliver(s, e)
    \/ \E S \in SUBSET Subs : End(S) \/ Shutdown(S)

Spec == Init /\ [][Next]_vars
=============================================================================
