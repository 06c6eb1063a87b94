---------------------------- MODULE ListQueries ----------------------------
(***************************************************************************)
(* The list queries of both repositories and the batches of the loaders,   *)
(* as they compute their answers: sorting and cutting sequences in memory, *)
(* ranking partitions in SQL, grouping keys in the loaders.  Each is meant *)
(* to give, for each list asked for, the page that Keyset defines.         *)
(***************************************************************************)
EXTENDS PageWalk, Sequences

-----------------------------------------------------------------------------
\* Mutant of LimitPlusOne: no row more than the page.
LimitOfFirst(first) == first

\* One row more than the page, to learn whether there is one.
LimitPlusOne(first) == first + 1

\* The row that was too many is cut off.
Cut(items, first) ==
    [items |-> IF Len(items) > first THEN SubSeq(items, 1, first) ELSE items,
     hasNextPage |-> Len(items) > first]

Limit(items, n) == IF Len(items) > n THEN SubSeq(items, 1, n) ELSE items

\* sort.Slice and ORDER BY: at place i comes the row that has i - 1 newer ones.
SortRows(set) == [i \in 1 .. Cardinality(set) |-> CHOOSE r \in set : Rank(set, r) = i]

\* What a loop appends that skips all places but some.
Scan(items, places) ==
    [n \in 1 .. Cardinality(places) |->
       items[CHOOSE i \in places : Cardinality({j \in places : j < i}) + 1 = n]]

\* Memory: sort everything, skip what is not past the cursor, stop after the limit.
PaginateComments(set, first, cursor) ==
    LET sorted == SortRows(set)
        past == {i \in DOMAIN sorted : CursorMatchesAfter(sorted[i], cursor)}
    IN  Cut(Limit(Scan(sorted, past), LimitPlusOne(first)), first)

MemoryList(list, first, cursor) ==
    PaginateComments(Matching(rows, list), first, cursor)

\* SQL: (created_at, id) < ($2, $3), order by, limit.
KeysetAfterPredicate(row, cursor) == Newer(cursor, row)

SqlWhere(set, cursor) ==
    IF cursor = Null THEN set ELSE {r \in set : KeysetAfterPredicate(r, cursor)}

SqlList(list, first, cursor) ==
    Cut(Limit(SortRows(SqlWhere(Matching(rows, list), cursor)), LimitPlusOne(first)), first)

-----------------------------------------------------------------------------
\* Batches: lists of one scope with one first and one cursor.
MemoryBatchList(keys, first, cursor) ==
    [k \in keys |-> PaginateComments(Matching(rows, k), first, cursor)]

\* Mutant of RowNumber: over all lists of the batch, not by partition.
RowNumberOverall(row, selected, keys) == Rank(selected, row)

\* row_number() over (partition by the list, newest first)
RowNumber(row, selected, keys) ==
    LET list == CHOOSE k \in keys : InList(row, k)
    IN  Rank(Matching(selected, list), row)

\* The rows of all lists in one statement, grouped afterwards.
SqlBatchList(keys, first, cursor) ==
    LET selected == SqlWhere(UNION {Matching(rows, k) : k \in keys}, cursor)
        ranked == {r \in selected : RowNumber(r, selected, keys) <= LimitPlusOne(first)}
    IN  [k \in keys |-> Cut(SortRows(Matching(ranked, k)), first)]

\* The requests of one batch of a loader, by scope, first and cursor.
GroupCommentConnectionKeys(requests) ==
    {{r \in requests : <<r.key.scope, r.first, r.after>> = <<q.key.scope, q.first, q.after>>}
       : q \in requests}

BatchCommentConnections(requests) ==
    LET group(r) == CHOOSE g \in GroupCommentConnectionKeys(requests) : r \in g
        pages(r) == SqlBatchList({q.key : q \in group(r)}, r.first, r.after)
    IN  [r \in requests |-> pages(r)[r.key]]

-----------------------------------------------------------------------------
MemoryBatchCount(keys) == [k \in keys |-> Cardinality(Matching(rows, k))]

\* group by gives only lists that have rows; the others were set to zero.
SqlBatchCount(keys) ==
    LET counted == [k \in {k \in keys : Matching(rows, k) # {}} |->
                      Cardinality(Matching(rows, k))]
    IN  [k \in keys |-> IF k \in DOMAIN counted THEN counted[k] ELSE 0]

-----------------------------------------------------------------------------
\* The lists and cursors that clients can have.
AskedKeys == {k \in Keys : Askable(rows, k)}
CommentKeys == {k \in AskedKeys : k.scope # "posts"}
AskedCursors == {NewCursor(r) : r \in rows} \cup {Null}
Requests == [key : CommentKeys, first : Firsts, after : AskedCursors]

\* What Keyset defines, newest first.
PageOf(list, first, cursor) ==
    LET left == Remaining(rows, list, cursor)
    IN  [items |-> SortRows(PageItems(left, first)), hasNextPage |-> HasNextPage(left, first)]

PagesAgree ==
    \A list \in AskedKeys, first \in Firsts, cursor \in AskedCursors :
        LET expected == PageOf(list, first, cursor)
        IN  MemoryList(list, first, cursor) = expected /\ SqlList(list, first, cursor) = expected

CountsAgree ==
    \A scope \in {"post", "comment"} :
        LET keys == {k \in AskedKeys : k.scope = scope}
        IN  SqlBatchCount(keys) = MemoryBatchCount(keys)

\* Both backends answer a list with the page and the hasNextPage of Keyset, for
\* every list, size and cursor, cursors of other lists included; and every list
\* has the same count in both, the empty ones too.  No walk changes a table, so
\* that it is enough to look before the walk begins.
ListsAgree == status = "idle" => PagesAgree /\ CountsAgree

StatementsAgree ==
    \A scope \in {"post", "comment"}, first \in Firsts, cursor \in AskedCursors :
        LET keys == {k \in AskedKeys : k.scope = scope}
            expected == [k \in keys |-> PageOf(k, first, cursor)]
        IN  /\ MemoryBatchList(keys, first, cursor) = expected
            /\ SqlBatchList(keys, first, cursor) = expected

LoadersAgree ==
    \A r, q \in Requests :
        BatchCommentConnections({r, q}) =
            [s \in {r, q} |-> PageOf(s.key, s.first, s.after)]

\* A batch gives each of its lists the same page as if it were asked for alone:
\* the limit holds for each list, not for the batch.  So do the loaders for
\* fields that are loaded together, posts and comments, with sizes and cursors
\* of their own.
BatchesAgree == status = "idle" => StatementsAgree /\ LoadersAgree
=============================================================================
