------------------------------ MODULE PageWalk ------------------------------
(***************************************************************************)
(* A client reads a list page by page, each time after the endCursor of    *)
(* the page before, as long as hasNextPage says so, while others insert    *)
(* rows.  Each page is one statement or one lock of the store; totalCount  *)
(* is another one, later.  An insert stamps its row with a time, and the   *)
(* row becomes visible later, so it may appear at any position.            *)
(*                                                                         *)
(* Each page is a request of its own, with loaders of its own.  A request  *)
(* state that serves several pages of one list, in one operation or over a *)
(* WebSocket, may answer totalCount from its cache, which is not modelled. *)
(***************************************************************************)
EXTENDS Keyset

CONSTANT SeedRows   \* the rows stored when we start to look

ASSUME SeedAssumption ==
    /\ SeedRows \subseteq Rows
    /\ IsFiniteSet(SeedRows)
    /\ \A r, s \in SeedRows : r.id = s.id => r = s

VARIABLES
    rows,     \* the tables posts and comments
    status,   \* the walk: not begun, with a next page, or at its end
    key,      \* the list that is read
    page,     \* the rows of the last page
    after,    \* the last endCursor the client was given
    total,    \* its totalCount, once it is asked for
    seen,     \* history: the rows of the pages before it
    atStart   \* history: the rows of the list when its first page was read

vars == <<rows, status, key, page, after, total, seen, atStart>>

Init ==
    /\ rows = SeedRows
    /\ status = "idle"
    /\ key = Null
    /\ page = {}
    /\ after = Null
    /\ total = Null
    /\ seen = {}
    /\ atStart = {}

-----------------------------------------------------------------------------
\* Mutant of Insert: without the check of the primary key.
InsertAnyId ==
    /\ \E row \in Rows :
         /\ row \notin rows
         /\ Insertable({r \in rows : r.id # row.id}, row)
         /\ rows' = rows \cup {row}
    /\ UNCHANGED <<status, key, page, after, total, seen, atStart>>

Insert ==
    /\ \E row \in Rows : Insertable(rows, row) /\ rows' = rows \cup {row}
    /\ UNCHANGED <<status, key, page, after, total, seen, atStart>>

\* One page of list k after the cursor.  An empty page has no endCursor, and is
\* the last: the client keeps the cursor it has.
ReadPage(k, first) ==
    LET left == Remaining(rows, k, after) IN
    /\ page' = PageItems(left, first)
    /\ status' = IF HasNextPage(left, first) THEN "more" ELSE "end"
    /\ after' = IF page' = {} THEN after ELSE EndCursor(page')
    /\ total' = Null
    /\ seen' = seen \cup page

FirstPage(k, first) ==
    /\ status = "idle"
    /\ Askable(rows, k)
    /\ ReadPage(k, first)
    /\ key' = k
    /\ atStart' = Matching(rows, k)
    /\ UNCHANGED rows

NextPage(first) ==
    /\ status = "more"
    /\ ReadPage(key, first)
    /\ UNCHANGED <<rows, key, atStart>>

\* The count is resolved when the field is, after the page.
TotalCount ==
    /\ status # "idle"
    /\ total = Null
    /\ total' = Cardinality(Matching(rows, key))
    /\ UNCHANGED <<rows, status, key, page, after, seen, atStart>>

Next ==
    \/ Insert
    \/ \E first \in Firsts : (\E k \in Keys : FirstPage(k, first)) \/ NextPage(first)
    \/ TotalCount

Spec == Init /\ [][Next]_vars

-----------------------------------------------------------------------------
\* The variables hold what the program and its client can hold; identifiers are
\* primary keys.
TypeOK ==
    /\ rows \subseteq Rows /\ IsFiniteSet(rows)
    /\ \A r, s \in rows : r.id = s.id => r = s
    /\ status \in {"idle", "more", "end"}
    /\ key \in Keys \cup {Null}
    /\ page \subseteq Rows
    /\ after \in Cursors \cup {Null}
    /\ total \in Nat \cup {Null}
    /\ seen \subseteq Rows
    /\ atStart \subseteq Rows

\* Each page goes on where the one before has ended: everything on it is older
\* than everything seen before, and nothing comes twice, whatever is inserted
\* between the pages and wherever in the order.
PagesDescend == \A s \in seen, r \in page : Newer(s, r)

\* A client that has followed the cursors to the end has seen every row that was
\* in the list when it began.
NothingSkipped == status = "end" => atStart \subseteq seen \cup page

NextPageIsThere == status = "more" => Remaining(rows, key, after) # {}

TotalCoversPages == total # Null => total >= Cardinality(seen \cup page)

\* What comes with a page is no empty promise: after hasNextPage a row is left
\* past the endCursor, now and whenever the client comes back for it; totalCount,
\* read later than the page, is never less than what the client has been shown.
PageInfoHolds == NextPageIsThere /\ TotalCoversPages
=============================================================================
