------------------------------- MODULE Keyset -------------------------------
(***************************************************************************)
(* Keyset pagination: what a page of a list is.  There are three kinds of  *)
(* list: all posts, the top-level comments of a post, the replies to a     *)
(* comment.  All are ordered from the newest to the oldest row, rows of    *)
(* one instant by their identifiers, and a cursor is a position in that    *)
(* order, not a row: it stays good whatever is inserted.                   *)
(*                                                                         *)
(* The order of identifiers is that of the texts of UUIDs, which is the    *)
(* order of the uuid type of PostgreSQL; here they are integers.           *)
(***************************************************************************)
EXTENDS Integers, FiniteSets

CONSTANTS
    Ids,          \* identifiers of posts and of comments
    Times,        \* values of created_at
    MaxPageSize,  \* the largest accepted "first"
    Null

ASSUME OrderAssumption == Ids \subseteq Int /\ Times \subseteq Int
ASSUME PageSizeAssumption == MaxPageSize \in Nat \ {0}

\* A post has neither a post nor a parent; a top-level comment has no parent.
Rows == [id : Ids, at : Times, post : Ids \cup {Null}, parent : Ids \cup {Null}]

Cursors == [at : Times, id : Ids]
NewCursor(row) == [at |-> row.at, id |-> row.id]

\* The lists that can be asked for.
Keys ==
    [scope : {"posts"}, of : {Null}] \cup [scope : {"post", "comment"}, of : Ids]

Firsts == 1 .. MaxPageSize

ASSUME NullAssumption == Null \notin Ids /\ Null \notin Cursors /\ Null \notin Nat

-----------------------------------------------------------------------------
\* created_at desc, id desc
Newer(a, b) == a.at > b.at \/ (a.at = b.at /\ a.id > b.id)

\* Mutants of CursorMatchesAfter: the row of the cursor is included; the
\* identifier is forgotten.
CursorMatchesFrom(row, after) ==
    after = Null \/ Newer(after, row) \/ NewCursor(row) = after

CursorMatchesBefore(row, after) ==
    after = Null \/ row.at < after.at

\* Whether a row is past the cursor.
CursorMatchesAfter(row, after) ==
    \/ after = Null
    \/ row.at < after.at
    \/ row.at = after.at /\ row.id < after.id

\* The rows of a list: the predicates and WHERE clauses of the repositories.
InList(row, key) ==
    \/ key.scope = "posts" /\ row.post = Null
    \/ key.scope = "post" /\ row.post = key.of /\ row.parent = Null
    \/ key.scope = "comment" /\ row.parent = key.of

Matching(rows, key) == {r \in rows : InList(r, key)}

\* What is left of a list after a cursor.
Remaining(rows, key, after) ==
    {r \in Matching(rows, key) : CursorMatchesAfter(r, after)}

\* The position of a row in a list, from 1.
Rank(list, row) == Cardinality({r \in list : Newer(r, row)}) + 1

\* The page of what is left, as a set, and whether anything follows it.
PageItems(left, first) == {r \in left : Rank(left, r) <= first}

\* Mutant of HasNextPage: a full page always promises another.
HasNextPageWhenFull(left, first) == Cardinality(left) >= first

HasNextPage(left, first) == Cardinality(left) > first

IsLast(row, page) ==
    /\ row \in page
    /\ \A r \in page : r = row \/ Newer(r, row)

\* The cursor of the last row of a page that has rows.
EndCursor(page) == NewCursor(CHOOSE row \in page : IsLast(row, page))

-----------------------------------------------------------------------------
\* Inserts.  CommentsService guarantees the post and the parent; the identifier
\* is new; the time is any, since it is taken before the row is visible.
Insertable(rows, row) ==
    /\ \A r \in rows : r.id # row.id
    /\ row.post # Null => \E p \in rows : p.id = row.post /\ p.post = Null
    /\ row.parent # Null =>
         \E c \in rows : c.id = row.parent /\ c.post = row.post /\ c.post # Null

\* A list is asked for through the post or comment it hangs on.
Askable(rows, key) ==
    \/ key.scope = "posts"
    \/ key.scope = "post" /\ \E p \in rows : p.id = key.of /\ p.post = Null
    \/ key.scope = "comment" /\ \E c \in rows : c.id = key.of /\ c.post # Null
=============================================================================
