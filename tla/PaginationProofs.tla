-------------------------- MODULE PaginationProofs --------------------------
(***************************************************************************)
(* Proofs about keyset pages, about a walk along them and about the        *)
(* algorithms of both backends, for every set of identifiers and times and *)
(* every page size.                                                        *)
(*                                                                         *)
(* The lemmas say what a page is: the newest rows of what is left, all of  *)
(* it unless hasNextPage.  The invariant says that the cursor separates    *)
(* what the client has seen from what it has still to see.  The algorithms *)
(* are followed by ranks: the row at place i of a sorted list is the one   *)
(* of rank i, and to cut, to skip and to number by partition do to ranks   *)
(* what they should.                                                       *)
(***************************************************************************)
EXTENDS ListQueries, FiniteSetTheorems, SequenceTheorems, WellFoundedInduction, TLAPS

UniqueIds(S) == \A r, s \in S : r.id = s.id => r = s

\* Newer is a strict order.
LEMMA NewerOrder ==
    ASSUME NEW a \in Rows, NEW b \in Rows, NEW c \in Rows
    PROVE  /\ ~Newer(a, a)
           /\ Newer(a, b) /\ Newer(b, c) => Newer(a, c)
  <1>1. /\ a.id \in Int /\ b.id \in Int /\ c.id \in Int
        /\ a.at \in Int /\ b.at \in Int /\ c.at \in Int
    BY OrderAssumption DEF Rows
  <1>2. QED
    BY <1>1 DEF Newer

\* Rows with different identifiers are ordered.
LEMMA NewerTotal ==
    ASSUME NEW a \in Rows, NEW b \in Rows, a.id # b.id
    PROVE  Newer(a, b) \/ Newer(b, a)
  <1>1. a.id \in Int /\ b.id \in Int /\ a.at \in Int /\ b.at \in Int
    BY OrderAssumption DEF Rows
  <1>2. QED
    BY <1>1 DEF Newer

\* The rows past the cursor of a row are those older than it.
LEMMA CursorIsPosition ==
    ASSUME NEW a \in Rows, NEW b \in Rows
    PROVE  /\ NewCursor(a) \in Cursors
           /\ NewCursor(a) # Null
           /\ CursorMatchesAfter(b, NewCursor(a)) <=> Newer(a, b)
  <1>1. a.id \in Int /\ b.id \in Int /\ a.at \in Int /\ b.at \in Int
    BY OrderAssumption DEF Rows
  <1>2. NewCursor(a) \in Cursors
    BY DEF NewCursor, Cursors, Rows
  <1>3. NewCursor(a) # Null
    BY <1>2, NullAssumption
  <1>4. QED
    BY <1>1, <1>2, <1>3 DEF CursorMatchesAfter, NewCursor, Newer

\* A row's position grows along the order, and stays within the list.
LEMMA RankMonotone ==
    ASSUME NEW S \in SUBSET Rows, IsFiniteSet(S), NEW a \in S, NEW b \in S
    PROVE  /\ Rank(S, a) \in Nat
           /\ Rank(S, a) >= 1
           /\ Rank(S, a) <= Cardinality(S)
           /\ Newer(a, b) => Rank(S, a) < Rank(S, b)
  <1> DEFINE Before(x) == {r \in S : Newer(r, x)}
  <1>1. ASSUME NEW x \in S PROVE IsFiniteSet(Before(x)) /\ Cardinality(Before(x)) \in Nat
    <2>1. IsFiniteSet(Before(x))
      BY FS_Subset
    <2>2. QED
      BY <2>1, FS_CardinalityType
  <1>2. a \notin Before(a)
    BY NewerOrder
  <1>3. Cardinality(Before(a)) < Cardinality(S)
    BY <1>1, <1>2, FS_Subset, FS_CardinalityType
  <1>4. ASSUME Newer(a, b) PROVE Cardinality(Before(a)) < Cardinality(Before(b))
    <2>1. Before(a) \subseteq Before(b)
      BY <1>4, NewerOrder
    <2>2. a \in Before(b)
      BY <1>4
    <2>3. IsFiniteSet(Before(b))
      BY <1>1
    <2>4. Cardinality(Before(a)) \in Nat /\ Cardinality(Before(b)) \in Nat
      BY <1>1
    <2>5. /\ Cardinality(Before(a)) <= Cardinality(Before(b))
          /\ Cardinality(Before(b)) = Cardinality(Before(a)) => Before(b) = Before(a)
      BY <2>1, <2>3, FS_Subset
    <2>6. Before(b) # Before(a)
      BY <1>2, <2>2
    <2>7. QED
      BY <2>4, <2>5, <2>6
  <1>5. Cardinality(S) \in Nat
    BY FS_CardinalityType
  <1>6. QED
    BY <1>1, <1>3, <1>4, <1>5 DEF Rank

\* A page is the newest part of what is left.
LEMMA PageIsNewest ==
    ASSUME NEW S \in SUBSET Rows, IsFiniteSet(S), UniqueIds(S), NEW first \in Nat,
           NEW a \in PageItems(S, first), NEW b \in S \ PageItems(S, first)
    PROVE  Newer(a, b)
  <1>1. a \in S /\ b \in S
    BY DEF PageItems
  <1>2. Rank(S, a) <= first /\ ~(Rank(S, b) <= first)
    BY DEF PageItems
  <1>3. /\ Rank(S, a) \in Nat /\ Rank(S, b) \in Nat
        /\ Newer(b, a) => Rank(S, b) < Rank(S, a)
    BY <1>1, RankMonotone
  <1>4. ~Newer(b, a)
    BY <1>2, <1>3
  <1>5. a.id # b.id
    BY <1>1, <1>2 DEF UniqueIds
  <1>6. QED
    BY <1>1, <1>4, <1>5, NewerTotal

\* Without a next page, the page is all that is left.
LEMMA LastPageIsAll ==
    ASSUME NEW S \in SUBSET Rows, IsFiniteSet(S), NEW first \in Nat,
           ~HasNextPage(S, first)
    PROVE  PageItems(S, first) = S
  <1>1. Cardinality(S) \in Nat
    BY FS_CardinalityType
  <1>2. Cardinality(S) <= first
    BY <1>1 DEF HasNextPage
  <1>3. ASSUME NEW r \in S PROVE Rank(S, r) <= first
    <2>1. Rank(S, r) \in Nat /\ Rank(S, r) <= Cardinality(S)
      BY RankMonotone
    <2>2. QED
      BY <1>1, <1>2, <2>1
  <1>4. QED
    BY <1>3 DEF PageItems

\* With a next page, something is left beyond the page: otherwise more rows
\* than the page has positions would have different positions on it.
LEMMA MoreIsLeft ==
    ASSUME NEW S \in SUBSET Rows, IsFiniteSet(S), UniqueIds(S), NEW first \in Nat,
           HasNextPage(S, first)
    PROVE  S \ PageItems(S, first) # {}
  <1> SUFFICES ASSUME \A r \in S : Rank(S, r) <= first
               PROVE  FALSE
    BY DEF PageItems
  <1> DEFINE position == [r \in S |-> Rank(S, r)]
  <1>1. position \in [S -> 1 .. first]
    <2>1. ASSUME NEW r \in S PROVE Rank(S, r) \in 1 .. first
      BY RankMonotone
    <2>2. QED
      BY <2>1
  <1>2. IsFiniteSet(1 .. first) /\ Cardinality(1 .. first) = first
    BY FS_Interval
  <1>3. Cardinality(1 .. first) < Cardinality(S)
    BY <1>2, FS_CardinalityType DEF HasNextPage
  <1>4. PICK x, y \in S : x # y /\ position[x] = position[y]
    <2> HIDE DEF position
    <2>1. QED
      BY <1>1, <1>2, <1>3, FS_PigeonHole
  <1>5. x.id # y.id
    BY <1>4 DEF UniqueIds
  <1>6. Newer(x, y) \/ Newer(y, x)
    BY <1>5, NewerTotal
  <1>7. /\ Rank(S, x) \in Nat /\ Rank(S, y) \in Nat
        /\ Newer(x, y) => Rank(S, x) < Rank(S, y)
        /\ Newer(y, x) => Rank(S, y) < Rank(S, x)
    BY RankMonotone
  <1>8. Rank(S, x) = Rank(S, y)
    BY <1>4
  <1>9. QED
    BY <1>6, <1>7, <1>8

\* A set of natural numbers has a least one.
LEMMA NatMinimum ==
    ASSUME NEW T \in SUBSET Nat, T # {}
    PROVE  \E m \in T : \A n \in T : m <= n
  <1> DEFINE R == OpToRel(<, Nat)
  <1>1. IsWellFoundedOn(R, Nat)
    BY NatLessThanWellFounded
  <1>2. \A x, y \in Nat : x < y => <<x, y>> \in R
    BY DEF OpToRel
  <1> HIDE DEF R
  <1>3. PICK m \in T : \A n \in T : ~(<<n, m>> \in R)
    BY <1>1, WFMin
  <1>4. \A n \in T : ~(n < m)
    BY <1>2, <1>3
  <1>5. \A n \in T : m \in Nat /\ n \in Nat
    OBVIOUS
  <1>6. \A n \in T : m <= n
    BY <1>4, <1>5
  <1>7. QED
    BY <1>6

\* A page that has rows has a last one: the row of the greatest rank.
LEMMA EndCursorOfLast ==
    ASSUME NEW S \in SUBSET Rows, IsFiniteSet(S), UniqueIds(S), S # {}
    PROVE  \E row \in S : IsLast(row, S) /\ EndCursor(S) = NewCursor(row)
  <1> DEFINE toEnd(r) == Cardinality(S) - Rank(S, r)
             T == {toEnd(r) : r \in S}
  <1>1. Cardinality(S) \in Nat
    BY FS_CardinalityType
  <1>2. \A r \in S : Rank(S, r) \in Nat /\ Rank(S, r) <= Cardinality(S)
    BY RankMonotone
  <1>3. T \in SUBSET Nat /\ T # {}
    BY <1>1, <1>2
  <1>4. PICK m \in T : \A n \in T : m <= n
    <2> HIDE DEF T
    <2>1. QED
      BY <1>3, NatMinimum
  <1>5. PICK row \in S : m = toEnd(row)
    BY <1>4
  <1>6. ASSUME NEW r \in S, r # row PROVE Newer(r, row)
    <2>1. toEnd(row) <= toEnd(r)
      BY <1>4, <1>5
    <2>2. ~(Rank(S, row) < Rank(S, r))
      BY <1>1, <1>2, <2>1
    <2>3. ~Newer(row, r)
      BY <2>2, RankMonotone
    <2>4. QED
      BY <1>6, <2>3, NewerTotal DEF UniqueIds
  <1>7. IsLast(row, S)
    BY <1>6 DEF IsLast
  <1>8. QED
    BY <1>7 DEF EndCursor, IsLast

\* What is not past a cursor is newer than what is.
LEMMA CursorSeparates ==
    ASSUME NEW s \in Rows, NEW r \in Rows, NEW c \in Cursors \cup {Null},
           ~CursorMatchesAfter(s, c), CursorMatchesAfter(r, c)
    PROVE  Newer(s, r) /\ ~Newer(r, s)
  <1>1. c # Null
    BY DEF CursorMatchesAfter
  <1>2. /\ s.id \in Int /\ s.at \in Int /\ r.id \in Int /\ r.at \in Int
        /\ c.id \in Int /\ c.at \in Int
    BY <1>1, OrderAssumption DEF Rows, Cursors
  <1>3. QED
    BY <1>1, <1>2 DEF CursorMatchesAfter, Newer

-----------------------------------------------------------------------------
\* Before the walk there is nothing; after its first page it has a list.
Begun ==
    /\ status = "idle" => page = {} /\ seen = {} /\ after = Null /\ atStart = {} /\ total = Null
    /\ status # "idle" => key \in Keys

\* What was shown is not past the cursor, and is of the list.
Behind ==
    /\ \A s \in seen \cup page : ~CursorMatchesAfter(s, after)
    /\ status # "idle" => seen \cup page \subseteq Matching(rows, key)

\* What was there at the start is still there, and was shown or is past the cursor.
Ahead ==
    \A r \in atStart :
        /\ r \in Matching(rows, key)
        /\ r \in seen \cup page \/ CursorMatchesAfter(r, after)

IInv ==
    /\ TypeOK
    /\ Begun
    /\ Behind
    /\ Ahead
    /\ PagesDescend
    /\ NothingSkipped
    /\ NextPageIsThere
    /\ TotalCoversPages

\* Reading a page: what it does to the cursor and to both sides of it.
LEMMA ReadPageMoves ==
    ASSUME TypeOK, NEW k \in Keys, NEW first \in Firsts, ReadPage(k, first),
           \A s \in seen \cup page : ~CursorMatchesAfter(s, after)
    PROVE  LET left == Remaining(rows, k, after) IN
           /\ page' \subseteq left
           /\ after' \in Cursors \cup {Null}
           /\ \A s \in seen' \cup page' : ~CursorMatchesAfter(s, after')
           /\ \A r \in left : r \in page' \/ CursorMatchesAfter(r, after')
           /\ PagesDescend'
           /\ status' = "end" => page' = left
           /\ status' = "more" => \E r \in left : CursorMatchesAfter(r, after')
           /\ status' \in {"more", "end"}
  <1> DEFINE left == Remaining(rows, k, after)
  <1>1. /\ left \subseteq rows /\ left \in SUBSET Rows /\ IsFiniteSet(left) /\ UniqueIds(left)
        /\ \A r \in left : CursorMatchesAfter(r, after)
    <2>1. left \subseteq rows /\ \A r \in left : CursorMatchesAfter(r, after)
      BY DEF Remaining, Matching
    <2>2. QED
      BY <2>1, FS_Subset DEF TypeOK, UniqueIds
  <1>2. first \in Nat
    BY PageSizeAssumption DEF Firsts
  <1>3. page' = PageItems(left, first) /\ page' \subseteq left /\ seen' = seen \cup page
    BY DEF ReadPage, PageItems
  <1>4. /\ after \in Cursors \cup {Null}
        /\ seen \cup page \subseteq Rows
    BY DEF TypeOK
  <1>5. ASSUME NEW s \in seen \cup page, NEW r \in left
        PROVE  Newer(s, r) /\ ~Newer(r, s)
    BY <1>1, <1>4, <1>5, CursorSeparates
  <1> HIDE DEF left
  <1>6. CASE page' = {}
    <2>1. after' = after
      BY <1>6 DEF ReadPage
    <2>2. \A r \in left : CursorMatchesAfter(r, after')
      BY <1>1, <2>1
    <2>3. status' = "end" => page' = left
      <3>1. status' = "end" => ~HasNextPage(left, first)
        BY DEF ReadPage, left
      <3>2. QED
        BY <1>1, <1>2, <1>3, <3>1, LastPageIsAll
    <2>4. status' = "more" => \E r \in left : CursorMatchesAfter(r, after')
      <3>1. status' = "more" => HasNextPage(left, first)
        BY DEF ReadPage, left
      <3>2. QED
        BY <1>1, <1>2, <2>2, <3>1, MoreIsLeft
    <2>5. PagesDescend'
      BY <1>6 DEF PagesDescend
    <2>6. status' \in {"more", "end"}
      BY DEF ReadPage
    <2>7. \A s \in seen' \cup page' : ~CursorMatchesAfter(s, after')
      BY <1>3, <1>6, <2>1
    <2>8. QED
      BY <1>3, <1>4, <2>1, <2>2, <2>3, <2>4, <2>5, <2>6, <2>7 DEF left
  <1>7. CASE page' # {}
    <2>1. PICK c \in page' : IsLast(c, page') /\ after' = NewCursor(c)
      <3>1. after' = EndCursor(page')
        BY <1>7 DEF ReadPage
      <3>2. IsFiniteSet(page') /\ UniqueIds(page') /\ page' \in SUBSET Rows
        BY <1>1, <1>3, FS_Subset DEF UniqueIds
      <3>3. QED
        BY <1>7, <3>1, <3>2, EndCursorOfLast
    <2>2. c \in left /\ c \in Rows
      BY <1>1, <1>3, <2>1
    <2>3. after' \in Cursors \cup {Null}
      BY <2>1, <2>2, CursorIsPosition
    <2>4. ASSUME NEW s \in seen' \cup page' PROVE ~CursorMatchesAfter(s, after')
      <3>1. s \in Rows
        BY <1>1, <1>3, <1>4
      <3>2. ~Newer(c, s)
        <4>1. CASE s \in seen \cup page
          BY <4>1, <2>2, <1>5
        <4>2. CASE s \in page'
          BY <4>2, <2>1, <2>2, <3>1, NewerOrder DEF IsLast
        <4>3. QED
          BY <1>3, <4>1, <4>2
      <3>3. QED
        BY <2>1, <2>2, <3>1, <3>2, CursorIsPosition
    <2>5. ASSUME NEW r \in left, r \notin page' PROVE CursorMatchesAfter(r, after')
      <3>1. Newer(c, r)
        BY <1>1, <1>2, <1>3, <2>1, <2>5, PageIsNewest
      <3>2. QED
        BY <1>1, <2>1, <2>2, <3>1, CursorIsPosition
    <2>6. PagesDescend'
      BY <1>3, <1>5 DEF PagesDescend
    <2>7. status' = "end" => page' = left
      <3>1. status' = "end" => ~HasNextPage(left, first)
        BY DEF ReadPage, left
      <3>2. QED
        BY <1>1, <1>2, <1>3, <3>1, LastPageIsAll
    <2>8. status' = "more" => \E r \in left : CursorMatchesAfter(r, after')
      <3>1. status' = "more" => HasNextPage(left, first)
        BY DEF ReadPage, left
      <3>2. status' = "more" => left \ page' # {}
        BY <1>1, <1>2, <1>3, <3>1, MoreIsLeft
      <3>3. QED
        BY <3>2, <2>5
    <2>9. status' \in {"more", "end"}
      BY DEF ReadPage
    <2>10. QED
      BY <1>3, <2>3, <2>4, <2>5, <2>6, <2>7, <2>8, <2>9 DEF left
  <1>8. QED
    BY <1>6, <1>7

LEMMA InitHolds == Init => IInv
  <1> SUFFICES ASSUME Init PROVE IInv
    OBVIOUS
  <1>1. TypeOK
    BY SeedAssumption DEF Init, TypeOK
  <1>2. QED
    BY <1>1 DEF Init, IInv, Begun, Behind, Ahead, PagesDescend, NothingSkipped,
                NextPageIsThere, TotalCoversPages

\* An insert takes no row away, wherever the new one comes in the order.
LEMMA InsertKeeps == IInv /\ Insert => IInv'
  <1> SUFFICES ASSUME IInv, Insert PROVE IInv'
    OBVIOUS
  <1> USE DEF IInv
  <1>1. PICK row \in Rows : Insertable(rows, row) /\ rows' = rows \cup {row}
    BY DEF Insert
  <1>2. /\ status' = status /\ key' = key /\ page' = page /\ after' = after
        /\ total' = total /\ seen' = seen /\ atStart' = atStart
    BY DEF Insert
  <1>3. TypeOK'
    <2>1. rows' \subseteq Rows /\ IsFiniteSet(rows')
      BY <1>1, FS_AddElement DEF TypeOK
    <2>2. \A r, s \in rows' : r.id = s.id => r = s
      BY <1>1 DEF TypeOK, Insertable
    <2>3. QED
      BY <1>2, <2>1, <2>2 DEF TypeOK
  <1>4. Matching(rows, key) \subseteq Matching(rows', key)
    BY <1>1 DEF Matching
  <1>5. Begun' /\ PagesDescend' /\ NothingSkipped' /\ TotalCoversPages'
    BY <1>2 DEF Begun, PagesDescend, NothingSkipped, TotalCoversPages
  <1>6. Behind'
    BY <1>2, <1>4 DEF Behind
  <1>7. Ahead'
    BY <1>2, <1>4 DEF Ahead
  <1>8. NextPageIsThere'
    BY <1>2, <1>4 DEF NextPageIsThere, Remaining
  <1>9. QED
    BY <1>3, <1>5, <1>6, <1>7, <1>8

\* What a first or later page leaves true, given that its list is the walk's.
LEMMA PageKeeps ==
    ASSUME IInv, NEW k \in Keys, NEW first \in Firsts, ReadPage(k, first),
           rows' = rows, key' = k,
           status # "idle" => key = k,
           \A r \in atStart' : /\ r \in Matching(rows, k)
                               /\ r \in seen \cup page \/ CursorMatchesAfter(r, after)
    PROVE  IInv'
  <1> USE DEF IInv
  <1> DEFINE left == Remaining(rows, k, after)
  <1>1. \A s \in seen \cup page : ~CursorMatchesAfter(s, after)
    BY DEF Behind
  <1>2. /\ page' \subseteq left
        /\ after' \in Cursors \cup {Null}
        /\ \A s \in seen' \cup page' : ~CursorMatchesAfter(s, after')
        /\ \A r \in left : r \in page' \/ CursorMatchesAfter(r, after')
        /\ PagesDescend'
        /\ status' = "end" => page' = left
        /\ status' = "more" => \E r \in left : CursorMatchesAfter(r, after')
        /\ status' \in {"more", "end"}
    BY <1>1, ReadPageMoves
  <1>3. seen' = seen \cup page /\ total' = Null
    BY DEF ReadPage
  <1>4. left \subseteq Matching(rows, k) /\ Matching(rows, k) \subseteq rows
    BY DEF Remaining, Matching
  <1>5. \A r \in Matching(rows, k) : CursorMatchesAfter(r, after) => r \in left
    BY DEF Remaining
  <1> HIDE DEF left
  <1>6. seen' \cup page' \subseteq Matching(rows, k)
    BY <1>2, <1>3, <1>4 DEF Behind, Begun
  <1>7. TypeOK'
    <2>1. page' \subseteq Rows /\ seen' \subseteq Rows /\ atStart' \subseteq Rows
      BY <1>4, <1>6 DEF TypeOK
    <2>2. QED
      BY <1>2, <1>3, <2>1 DEF TypeOK
  <1>8. Begun'
    BY <1>2 DEF Begun
  <1>9. Behind'
    BY <1>2, <1>6 DEF Behind
  <1>10. Ahead'
    BY <1>2, <1>3, <1>5 DEF Ahead
  <1>11. NothingSkipped'
    BY <1>2, <1>3, <1>5 DEF NothingSkipped
  <1>12. NextPageIsThere'
    BY <1>2, <1>4 DEF NextPageIsThere, Remaining
  <1>13. TotalCoversPages'
    BY <1>3 DEF TotalCoversPages
  <1>14. QED
    BY <1>2, <1>7, <1>8, <1>9, <1>10, <1>11, <1>12, <1>13

LEMMA FirstPageKeeps ==
    ASSUME IInv, NEW k \in Keys, NEW first \in Firsts, FirstPage(k, first)
    PROVE  IInv'
  <1>1. /\ ReadPage(k, first) /\ rows' = rows /\ key' = k
        /\ status = "idle" /\ atStart' = Matching(rows, k)
    BY DEF FirstPage
  <1>2. \A r \in atStart' : CursorMatchesAfter(r, after)
    BY <1>1 DEF IInv, Begun, CursorMatchesAfter
  <1>3. QED
    BY <1>1, <1>2, PageKeeps

LEMMA NextPageKeeps ==
    ASSUME IInv, NEW first \in Firsts, NextPage(first)
    PROVE  IInv'
  <1>1. /\ ReadPage(key, first) /\ rows' = rows /\ key' = key
        /\ status = "more" /\ atStart' = atStart
    BY DEF NextPage
  <1>2. key \in Keys
    BY <1>1 DEF IInv, Begun
  <1>3. \A r \in atStart' : /\ r \in Matching(rows, key)
                            /\ r \in seen \cup page \/ CursorMatchesAfter(r, after)
    BY <1>1 DEF IInv, Ahead
  <1>4. QED
    BY <1>1, <1>2, <1>3, PageKeeps

\* The list has what was shown of it.
LEMMA TotalCountKeeps == IInv /\ TotalCount => IInv'
  <1> SUFFICES ASSUME IInv, TotalCount PROVE IInv'
    OBVIOUS
  <1> USE DEF IInv
  <1>1. /\ rows' = rows /\ status' = status /\ key' = key /\ page' = page
        /\ after' = after /\ seen' = seen /\ atStart' = atStart
        /\ status # "idle" /\ total' = Cardinality(Matching(rows, key))
    BY DEF TotalCount
  <1>2. IsFiniteSet(Matching(rows, key)) /\ Cardinality(Matching(rows, key)) \in Nat
    <2>1. Matching(rows, key) \in SUBSET rows
      BY DEF Matching
    <2>2. QED
      BY <2>1, FS_Subset, FS_CardinalityType DEF TypeOK
  <1>3. TypeOK'
    BY <1>1, <1>2 DEF TypeOK
  <1>4. TotalCoversPages'
    <2>1. seen \cup page \in SUBSET Matching(rows, key)
      BY <1>1 DEF Behind
    <2>2. Cardinality(seen \cup page) <= Cardinality(Matching(rows, key))
      BY <1>2, <2>1, FS_Subset
    <2>3. Cardinality(seen \cup page) \in Nat
      BY <1>2, <2>1, FS_Subset, FS_CardinalityType
    <2>4. QED
      BY <1>1, <1>2, <2>2, <2>3 DEF TotalCoversPages
  <1>5. Begun' /\ Behind' /\ Ahead' /\ PagesDescend' /\ NothingSkipped' /\ NextPageIsThere'
    BY <1>1 DEF Begun, Behind, Ahead, PagesDescend, NothingSkipped, NextPageIsThere
  <1>6. QED
    BY <1>3, <1>4, <1>5

LEMMA Invariance == Spec => []IInv
  <1>1. ASSUME IInv, [Next]_vars PROVE IInv'
    <2>1. CASE Insert
      BY <1>1, <2>1, InsertKeeps
    <2>2. ASSUME NEW first \in Firsts, NEW k \in Keys, FirstPage(k, first) PROVE IInv'
      BY <1>1, <2>2, FirstPageKeeps
    <2>3. ASSUME NEW first \in Firsts, NextPage(first) PROVE IInv'
      BY <1>1, <2>3, NextPageKeeps
    <2>4. CASE TotalCount
      BY <1>1, <2>4, TotalCountKeeps
    <2>5. CASE UNCHANGED vars
      BY <1>1, <2>5 DEF vars, IInv, TypeOK, Begun, Behind, Ahead, PagesDescend,
                        NothingSkipped, NextPageIsThere, TotalCoversPages
    <2>6. QED
      BY <1>1, <2>1, <2>2, <2>3, <2>4, <2>5 DEF Next
  <1>2. QED
    BY <1>1, InitHolds, PTL DEF Spec

-----------------------------------------------------------------------------
\* The table keeps its primary key, and the client's data their types.
THEOREM TypeCorrect == Spec => []TypeOK
  <1>1. IInv => TypeOK
    BY DEF IInv
  <1>2. QED
    BY <1>1, Invariance, PTL

\* CursorMatchesAfter and the order of the lists: no page repeats a row or goes
\* back, whatever is inserted between the pages.
THEOREM PagesDescendHolds == Spec => []PagesDescend
  <1>1. IInv => PagesDescend
    BY DEF IInv
  <1>2. QED
    BY <1>1, Invariance, PTL

\* A walk along the endCursors to its end has shown all that was there when it
\* began, however its pages were cut.
THEOREM NothingSkippedHolds == Spec => []NothingSkipped
  <1>1. IInv => NothingSkipped
    BY DEF IInv
  <1>2. QED
    BY <1>1, Invariance, PTL

\* hasNextPage, computed from one row more than the page, is kept, and the lazily
\* read totalCount covers the pages shown before it.
THEOREM PageInfoAlwaysHolds == Spec => []PageInfoHolds
  <1>1. IInv => PageInfoHolds
    BY DEF IInv, PageInfoHolds
  <1>2. QED
    BY <1>1, Invariance, PTL

-----------------------------------------------------------------------------
(* Sorted lists and their places.                                            *)

\* What the algorithms are given: rows that have an order.
IsList(S) == S \in SUBSET Rows /\ IsFiniteSet(S) /\ UniqueIds(S)

LEMMA PartOfList ==
    ASSUME NEW S, IsList(S), NEW T \in SUBSET S
    PROVE  IsList(T) /\ Cardinality(T) \in Nat
  <1>1. IsFiniteSet(T)
    BY FS_Subset DEF IsList
  <1>2. QED
    BY <1>1, FS_CardinalityType DEF IsList, UniqueIds

\* Ranks number a list from 1, without repetition, along its order.
LEMMA RankNumbers ==
    ASSUME NEW S, IsList(S)
    PROVE  /\ Cardinality(S) \in Nat
           /\ \A r \in S : Rank(S, r) \in 1 .. Cardinality(S)
           /\ \A r, q \in S : Newer(r, q) <=> Rank(S, r) < Rank(S, q)
           /\ \A r, q \in S : Rank(S, r) = Rank(S, q) => r = q
  <1>1. Cardinality(S) \in Nat
    BY FS_CardinalityType DEF IsList
  <1>2. ASSUME NEW r \in S, NEW q \in S
        PROVE  /\ Rank(S, r) \in 1 .. Cardinality(S) /\ Rank(S, q) \in Nat
               /\ Newer(r, q) => Rank(S, r) < Rank(S, q)
               /\ Newer(q, r) => Rank(S, q) < Rank(S, r)
    BY <1>1, RankMonotone DEF IsList
  <1>3. \A r, q \in S : r = q \/ Newer(r, q) \/ Newer(q, r)
    BY NewerTotal DEF IsList, UniqueIds
  <1>4. ASSUME NEW r \in S, NEW q \in S
        PROVE  /\ Newer(r, q) <=> Rank(S, r) < Rank(S, q)
               /\ Rank(S, r) = Rank(S, q) => r = q
    <2>1. Rank(S, r) \in Nat /\ Rank(S, q) \in Nat
      BY <1>1, <1>2
    <2>2. QED
      BY <1>2, <1>3, <2>1
  <1>5. QED
    BY <1>1, <1>2, <1>4

\* A set of places has as many members as there are rows at them.
LEMMA RowsAtPlaces ==
    ASSUME NEW S, IsList(S), NEW P \in SUBSET (1 .. Cardinality(S))
    PROVE  Cardinality({r \in S : Rank(S, r) \in P}) = Cardinality(P)
  <1> DEFINE T == {r \in S : Rank(S, r) \in P}
             position == [r \in S |-> Rank(S, r)]
             n == Cardinality(S)
  <1>1. n \in Nat /\ IsFiniteSet(1 .. n) /\ Cardinality(1 .. n) = n
    BY RankNumbers, FS_Interval
  <1>2. position \in Injection(S, 1 .. n)
    <2>1. position \in [S -> 1 .. n]
      BY RankNumbers
    <2>2. \A r, q \in S : position[r] = position[q] => r = q
      BY RankNumbers
    <2>3. QED
      BY <2>1, <2>2 DEF Injection, IsInjective
  <1>3. position \in Surjection(S, 1 .. n)
    <2> HIDE DEF position
    <2>1. QED
      BY <1>1, <1>2, FS_Injection
  <1>4. \A i \in P : \E r \in S : Rank(S, r) = i
    BY <1>3 DEF Surjection
  <1> DEFINE f == [r \in T |-> Rank(S, r)]
  <1>5. f \in Bijection(T, P)
    <2>1. f \in [T -> P]
      OBVIOUS
    <2>2. \A r, q \in T : f[r] = f[q] => r = q
      BY RankNumbers
    <2>3. \A i \in P : \E r \in T : f[r] = i
      BY <1>4
    <2>4. QED
      BY <2>1, <2>2, <2>3 DEF Bijection, Injection, Surjection, IsInjective
  <1>6. ExistsBijection(T, P)
    <2> HIDE DEF f
    <2>1. QED
      BY <1>5 DEF ExistsBijection
  <1>7. IsFiniteSet(T)
    BY PartOfList DEF IsList
  <1>8. QED
    <2> HIDE DEF T
    <2>1. Cardinality(T) = Cardinality(P)
      BY <1>6, <1>7, FS_Bijection
    <2>2. QED
      BY <2>1 DEF T

LEMMA RankIsOnto ==
    ASSUME NEW S, IsList(S), NEW i \in 1 .. Cardinality(S)
    PROVE  \E r \in S : Rank(S, r) = i
  <1>1. Cardinality({r \in S : Rank(S, r) \in {i}}) = 1
    <2>1. {i} \in SUBSET (1 .. Cardinality(S)) /\ Cardinality({i}) = 1
      BY FS_Singleton
    <2>2. QED
      BY <2>1, RowsAtPlaces
  <1>2. {r \in S : Rank(S, r) \in {i}} # {}
    BY <1>1, FS_EmptySet
  <1>3. QED
    BY <1>2

\* SortRows sorts: it has every row once, at the place of its rank, and so the
\* newer rows first.
LEMMA SortRowsSorts ==
    ASSUME NEW S, IsList(S)
    PROVE  /\ SortRows(S) \in Seq(S)
           /\ Len(SortRows(S)) = Cardinality(S)
           /\ DOMAIN SortRows(S) = 1 .. Cardinality(S)
           /\ \A i \in 1 .. Cardinality(S) :
                SortRows(S)[i] \in S /\ Rank(S, SortRows(S)[i]) = i
           /\ \A r \in S : SortRows(S)[Rank(S, r)] = r
           /\ \A i, j \in 1 .. Cardinality(S) :
                i < j <=> Newer(SortRows(S)[i], SortRows(S)[j])
  <1> DEFINE s == SortRows(S)
             n == Cardinality(S)
  <1>1. n \in Nat
    BY RankNumbers
  <1>2. \A i \in 1 .. n : s[i] \in S /\ Rank(S, s[i]) = i
    BY RankIsOnto DEF SortRows
  <1>3. s \in [1 .. n -> S]
    BY <1>2 DEF SortRows
  <1> HIDE DEF s, n
  <1>4. s \in Seq(S) /\ Len(s) = n /\ DOMAIN s = 1 .. n
    BY <1>1, <1>3
  <1>5. \A r \in S : s[Rank(S, r)] = r
    BY <1>2, RankNumbers DEF n
  <1>6. \A i, j \in 1 .. n : i < j <=> Newer(s[i], s[j])
    BY <1>2, RankNumbers
  <1>7. QED
    BY <1>2, <1>4, <1>5, <1>6 DEF s, n

LEMMA SortedIsUnique ==
    ASSUME NEW S, IsList(S), NEW R, NEW s \in Seq(R), Len(s) = Cardinality(S),
           \A i \in 1 .. Len(s) : s[i] \in S /\ Rank(S, s[i]) = i
    PROVE  s = SortRows(S)
  <1>1. \A i \in 1 .. Len(s) : s[i] = SortRows(S)[i]
    BY SortRowsSorts
  <1>2. s \in [1 .. Len(s) -> S] /\ Len(s) \in Nat
    OBVIOUS
  <1>3. s \in Seq(S)
    BY <1>2
  <1>4. QED
    BY <1>1, <1>3, SortRowsSorts, SeqEqual

\* The first m rows of a sorted list are the page of m rows, sorted.
LEMMA LimitIsPage ==
    ASSUME NEW S, IsList(S), NEW m \in Nat
    PROVE  /\ Limit(SortRows(S), m) = SortRows(PageItems(S, m))
           /\ Cardinality(PageItems(S, m)) =
                IF Cardinality(S) > m THEN m ELSE Cardinality(S)
  <1> DEFINE T == PageItems(S, m)
             n == Cardinality(S)
             k == IF n > m THEN m ELSE n
             s == SortRows(S)
             l == Limit(s, m)
  <1>1. n \in Nat /\ k \in Nat /\ k <= n /\ k <= m
    BY RankNumbers
  <1>2. \A r \in S : Rank(S, r) <= m <=> Rank(S, r) \in 1 .. k
    BY RankNumbers
  <1>3. Cardinality(T) = k
    <2>1. T = {r \in S : Rank(S, r) \in 1 .. k}
      BY <1>2 DEF PageItems
    <2>2. Cardinality(1 .. k) = k
      <3> HIDE DEF k
      <3>1. Cardinality(1 .. k) = IF 1 > k THEN 0 ELSE k - 1 + 1
        BY <1>1, FS_Interval
      <3>2. QED
        BY <1>1, <3>1
    <2>3. 1 .. k \in SUBSET (1 .. n)
      BY <1>1
    <2> HIDE DEF T, k
    <2>4. QED
      BY <2>1, <2>2, <2>3, RowsAtPlaces
  <1>4. IsList(T) /\ T \in SUBSET S
    BY PartOfList DEF PageItems
  <1>5. ASSUME NEW r \in T PROVE Rank(T, r) = Rank(S, r)
    <2>1. \A q \in S : Newer(q, r) => q \in T
      <3>1. ASSUME NEW q \in S, Newer(q, r) PROVE Rank(S, q) <= m
        <4>1. /\ Rank(S, q) < Rank(S, r) /\ Rank(S, r) <= m
              /\ Rank(S, q) \in Nat /\ Rank(S, r) \in Nat
          BY <3>1, RankNumbers DEF PageItems
        <4>2. QED
          BY <4>1
      <3>2. QED
        BY <3>1 DEF PageItems
    <2>2. {q \in T : Newer(q, r)} = {q \in S : Newer(q, r)}
      BY <2>1 DEF PageItems
    <2>3. QED
      BY <2>2 DEF Rank
  <1>6. s \in Seq(S) /\ Len(s) = n /\ \A i \in 1 .. n : s[i] \in S /\ Rank(S, s[i]) = i
    BY SortRowsSorts
  <1>7. l \in Seq(S) /\ Len(l) = k /\ \A i \in 1 .. k : l[i] = s[i]
    <2> HIDE DEF s
    <2>1. CASE n > m
      BY <1>1, <1>6, <2>1 DEF Limit
    <2>2. CASE ~(n > m)
      BY <1>1, <1>6, <2>2 DEF Limit
    <2>3. QED
      BY <2>1, <2>2
  <1>8. \A i \in 1 .. k : l[i] \in T /\ Rank(T, l[i]) = i
    <2> SUFFICES ASSUME NEW i \in 1 .. k PROVE l[i] \in T /\ Rank(T, l[i]) = i
      OBVIOUS
    <2>1. l[i] \in S /\ Rank(S, l[i]) = i /\ i <= m
      BY <1>1, <1>6, <1>7
    <2>2. l[i] \in T
      BY <2>1 DEF PageItems
    <2>3. QED
      BY <1>5, <2>1, <2>2
  <1>9. l = SortRows(T)
    <2> HIDE DEF l, T, k
    <2>1. QED
      BY <1>3, <1>4, <1>7, <1>8, SortedIsUnique
  <1>10. QED
    BY <1>3, <1>9

\* Cutting a list after one row more than the page gives the page, and tells
\* whether there is more.
LEMMA CutIsPage ==
    ASSUME NEW S, IsList(S), NEW first \in Nat
    PROVE  Cut(Limit(SortRows(S), LimitPlusOne(first)), first) =
             [items |-> SortRows(PageItems(S, first)),
              hasNextPage |-> HasNextPage(S, first)]
  <1> DEFINE s == SortRows(S)
             n == Cardinality(S)
             l == Limit(s, first + 1)
  <1>1. /\ n \in Nat /\ s \in Seq(S) /\ Len(s) = n
        /\ \A i \in 1 .. n : s[i] \in S
    BY RankNumbers, SortRowsSorts
  <1> HIDE DEF s, n
  <1>2. CASE n > first
    <2>1. l \in Seq(S) /\ Len(l) = first + 1 /\ \A i \in 1 .. first + 1 : l[i] = s[i]
      BY <1>1, <1>2 DEF Limit
    <2>2. SubSeq(l, 1, first) = SubSeq(s, 1, first)
      <3> HIDE DEF l
      <3>1. /\ SubSeq(l, 1, first) \in Seq(S) /\ Len(SubSeq(l, 1, first)) = first
            /\ \A i \in 1 .. first : SubSeq(l, 1, first)[i] = l[i]
        BY <1>1, <1>2, <2>1
      <3>2. /\ SubSeq(s, 1, first) \in Seq(S) /\ Len(SubSeq(s, 1, first)) = first
            /\ \A i \in 1 .. first : SubSeq(s, 1, first)[i] = s[i]
        BY <1>1, <1>2
      <3>3. \A i \in 1 .. first : SubSeq(l, 1, first)[i] = SubSeq(s, 1, first)[i]
        BY <2>1, <3>1, <3>2
      <3>4. QED
        BY <3>1, <3>2, <3>3, SeqEqual
    <2>3. Len(l) > first
      BY <2>1
    <2> HIDE DEF l
    <2>4. Cut(l, first) = [items |-> SubSeq(s, 1, first), hasNextPage |-> TRUE]
      BY <2>2, <2>3 DEF Cut
    <2>5. Limit(s, first) = SubSeq(s, 1, first)
      BY <1>1, <1>2 DEF Limit
    <2>6. HasNextPage(S, first)
      BY <1>2 DEF HasNextPage, n
    <2>7. QED
      BY <2>4, <2>5, <2>6, LimitIsPage DEF LimitPlusOne, l, s
  <1>3. CASE ~(n > first)
    <2>1. l = s /\ Limit(s, first) = s
      BY <1>1, <1>3 DEF Limit
    <2>2. Cut(s, first) = [items |-> s, hasNextPage |-> FALSE]
      <3>1. (Len(s) > first) = FALSE
        BY <1>1, <1>3
      <3>2. Cut(s, first) =
              [items |-> IF Len(s) > first THEN SubSeq(s, 1, first) ELSE s,
               hasNextPage |-> Len(s) > first]
        BY DEF Cut
      <3>3. QED
        BY <3>1, <3>2, Zenon
    <2>3. HasNextPage(S, first) = FALSE
      BY <1>3 DEF HasNextPage, n
    <2>4. QED
      BY <2>1, <2>2, <2>3, LimitIsPage DEF LimitPlusOne, l, s
  <1>4. QED
    BY <1>2, <1>3

\* A scan of a sorted list takes the rows at its places in their order.
LEMMA ScanIsSorted ==
    ASSUME NEW S, IsList(S), NEW T \in SUBSET S
    PROVE  Scan(SortRows(S), {i \in DOMAIN SortRows(S) : SortRows(S)[i] \in T}) = SortRows(T)
  <1> DEFINE s == SortRows(S)
             n == Cardinality(S)
             places == {i \in DOMAIN s : s[i] \in T}
             before(i) == {j \in places : j < i}
             c == Cardinality(T)
             scan == Scan(s, places)
  <1>1. /\ n \in Nat /\ DOMAIN s = 1 .. n
        /\ \A i \in 1 .. n : s[i] \in S /\ Rank(S, s[i]) = i
        /\ \A r \in S : s[Rank(S, r)] = r /\ Rank(S, r) \in 1 .. n
        /\ \A r, q \in S : Newer(r, q) <=> Rank(S, r) < Rank(S, q)
    BY RankNumbers, SortRowsSorts
  <1>2. IsList(T) /\ c \in Nat
    BY PartOfList
  <1>3. places \in SUBSET (1 .. n)
    BY <1>1
  <1> HIDE DEF s, n
  <1>4. \A r \in S : r \in T <=> Rank(S, r) \in places
    BY <1>1
  <1>5. Cardinality(places) = c
    <2>1. {r \in S : Rank(S, r) \in places} = T
      BY <1>4
    <2> HIDE DEF places
    <2>2. QED
      BY <1>3, <2>1, RowsAtPlaces DEF n
  <1>6. ASSUME NEW i \in places
        PROVE  s[i] \in T /\ Cardinality(before(i)) + 1 = Rank(T, s[i])
    <2>1. i \in 1 .. n /\ s[i] \in T /\ s[i] \in S /\ Rank(S, s[i]) = i
      BY <1>1
    <2>2. ASSUME NEW r \in S
          PROVE  Rank(S, r) \in before(i) <=> r \in T /\ Newer(r, s[i])
      BY <1>1, <1>4, <2>1
    <2>3. {r \in S : Rank(S, r) \in before(i)} = {r \in T : Newer(r, s[i])}
      BY <2>2
    <2>4. before(i) \in SUBSET (1 .. n)
      BY <1>3
    <2> HIDE DEF before
    <2>5. Cardinality(before(i)) = Cardinality({r \in T : Newer(r, s[i])})
      BY <2>3, <2>4, RowsAtPlaces DEF n
    <2>6. QED
      BY <2>1, <2>5 DEF Rank
  <1>7. ASSUME NEW m \in 1 .. c
        PROVE  scan[m] \in T /\ Rank(T, scan[m]) = m
    <2>1. PICK r \in T : Rank(T, r) = m
      BY <1>2, RankIsOnto
    <2>2. Rank(S, r) \in places /\ s[Rank(S, r)] = r
      BY <1>1, <1>4
    <2>3. \E i \in places : Cardinality(before(i)) + 1 = m
      BY <1>6, <2>1, <2>2
    <2>4. PICK i \in places : Cardinality(before(i)) + 1 = m /\ scan[m] = s[i]
      BY <1>5, <2>3 DEF Scan
    <2>5. QED
      BY <1>6, <2>4
  <1>8. scan \in Seq(T) /\ Len(scan) = c
    <2>1. scan \in [1 .. c -> T]
      BY <1>5, <1>7 DEF Scan
    <2> HIDE DEF scan
    <2>2. QED
      BY <1>2, <2>1
  <1>9. scan = SortRows(T)
    <2> HIDE DEF scan
    <2>1. QED
      BY <1>2, <1>7, <1>8, SortedIsUnique
  <1>10. QED
    BY <1>9 DEF s

-----------------------------------------------------------------------------
(* The queries of both backends.                                             *)

\* A table whose lists have an order, as IInv says.
LEMMA ListsOfTable ==
    ASSUME IsList(rows), NEW list, NEW cursor
    PROVE  /\ IsList(Matching(rows, list))
           /\ IsList(Remaining(rows, list, cursor))
           /\ Remaining(rows, list, cursor) \in SUBSET Matching(rows, list)
  <1>1. Matching(rows, list) \in SUBSET rows
    BY DEF Matching
  <1>2. Remaining(rows, list, cursor) \in SUBSET Matching(rows, list)
    BY DEF Remaining
  <1>3. QED
    BY <1>1, <1>2, PartOfList

\* The predicate of SQL is the one of the domain.
LEMMA WhereIsPast ==
    ASSUME IsList(rows), NEW cursor \in AskedCursors, NEW S \in SUBSET rows
    PROVE  SqlWhere(S, cursor) = {r \in S : CursorMatchesAfter(r, cursor)}
  <1>1. CASE cursor = Null
    BY <1>1 DEF SqlWhere, CursorMatchesAfter
  <1>2. CASE cursor # Null
    <2>1. PICK c \in rows : cursor = NewCursor(c)
      BY <1>2 DEF AskedCursors
    <2>2. ASSUME NEW r \in S
          PROVE  KeysetAfterPredicate(r, cursor) <=> CursorMatchesAfter(r, cursor)
      <3>1. Newer(cursor, r) <=> Newer(c, r)
        BY <2>1 DEF Newer, NewCursor
      <3>2. r \in Rows /\ c \in Rows
        BY DEF IsList
      <3>3. QED
        BY <2>1, <3>1, <3>2, CursorIsPosition DEF KeysetAfterPredicate
    <2>3. QED
      BY <1>2, <2>2 DEF SqlWhere
  <1>3. QED
    BY <1>1, <1>2

LEMMA MemoryListIsPage ==
    ASSUME IsList(rows), NEW list, NEW first \in Nat, NEW cursor
    PROVE  PaginateComments(Matching(rows, list), first, cursor) =
             PageOf(list, first, cursor)
  <1> DEFINE S == Matching(rows, list)
             T == Remaining(rows, list, cursor)
             s == SortRows(S)
             past == {i \in DOMAIN s : CursorMatchesAfter(s[i], cursor)}
  <1>1. IsList(S) /\ IsList(T) /\ T \in SUBSET S
    BY ListsOfTable
  <1>2. past = {i \in DOMAIN s : s[i] \in T}
    <2>1. \A i \in DOMAIN s : s[i] \in S
      BY <1>1, SortRowsSorts
    <2>2. QED
      BY <2>1 DEF Remaining
  <1> HIDE DEF S, T
  <1>3. Scan(s, past) = SortRows(T)
    <2> HIDE DEF past
    <2>1. QED
      BY <1>1, <1>2, ScanIsSorted
  <1>4. Cut(Limit(SortRows(T), LimitPlusOne(first)), first) =
          [items |-> SortRows(PageItems(T, first)), hasNextPage |-> HasNextPage(T, first)]
    BY <1>1, CutIsPage
  <1>5. QED
    BY <1>3, <1>4 DEF PaginateComments, PageOf, S, T

LEMMA SqlListIsPage ==
    ASSUME IsList(rows), NEW list, NEW first \in Nat, NEW cursor \in AskedCursors
    PROVE  SqlList(list, first, cursor) = PageOf(list, first, cursor)
  <1>1. SqlWhere(Matching(rows, list), cursor) = Remaining(rows, list, cursor)
    BY WhereIsPast DEF Remaining, Matching
  <1>2. IsList(Remaining(rows, list, cursor))
    BY ListsOfTable
  <1>3. QED
    BY <1>1, <1>2, CutIsPage DEF SqlList, PageOf

\* The rows that a batch selects and ranks by partition are, of each of its
\* lists, the page with one row more.
LEMMA SqlBatchListIsPage ==
    ASSUME IsList(rows), NEW scope \in {"post", "comment"},
           NEW keys \in SUBSET {k \in Keys : k.scope = scope},
           NEW first \in Nat, NEW cursor \in AskedCursors
    PROVE  SqlBatchList(keys, first, cursor) = [k \in keys |-> PageOf(k, first, cursor)]
  <1> DEFINE all == UNION {Matching(rows, k) : k \in keys}
             selected == SqlWhere(all, cursor)
             m == LimitPlusOne(first)
             ranked == {r \in selected : RowNumber(r, selected, keys) <= m}
             left(k) == Remaining(rows, k, cursor)
  <1>1. \A k, l \in keys : \A r : InList(r, k) /\ InList(r, l) => k = l
    <2>1. \A k \in keys : /\ k.scope = scope
                          /\ k = [scope |-> k.scope, of |-> k.of]
      BY DEF Keys
    <2>2. \A k, l \in keys : k.of = l.of => k = l
      BY <2>1
    <2>3. \A k \in keys : \A r : InList(r, k) =>
            k.of = IF scope = "post" THEN r.post ELSE r.parent
      BY <2>1 DEF InList
    <2>4. QED
      BY <2>2, <2>3
  <1>2. selected = {r \in all : CursorMatchesAfter(r, cursor)}
    <2>1. all \in SUBSET rows
      BY DEF Matching
    <2> HIDE DEF all
    <2>2. QED
      BY <2>1, WhereIsPast
  <1>3. \A k \in keys : Matching(selected, k) = left(k)
    BY <1>2 DEF Matching, Remaining
  <1>4. ASSUME NEW k \in keys, NEW r \in selected, InList(r, k)
        PROVE  RowNumber(r, selected, keys) = Rank(left(k), r)
    <2>1. (CHOOSE l \in keys : InList(r, l)) = k
      BY <1>1, <1>4
    <2> HIDE DEF selected, left
    <2>2. QED
      BY <1>3, <2>1 DEF RowNumber
  <1>5. ASSUME NEW k \in keys
        PROVE  Matching(ranked, k) = PageItems(left(k), m)
    <2>1. Matching(ranked, k) =
            {r \in Matching(selected, k) : RowNumber(r, selected, keys) <= m}
      BY DEF Matching
    <2>2. \A r \in Matching(selected, k) : RowNumber(r, selected, keys) = Rank(left(k), r)
      BY <1>4 DEF Matching
    <2> HIDE DEF selected, left, ranked, m
    <2>3. QED
      BY <1>3, <2>1, <2>2 DEF PageItems
  <1>6. ASSUME NEW k \in keys
        PROVE  Cut(SortRows(Matching(ranked, k)), first) = PageOf(k, first, cursor)
    <2>1. IsList(left(k))
      BY ListsOfTable
    <2>2. m \in Nat
      BY DEF LimitPlusOne
    <2> HIDE DEF left, m
    <2>3. SortRows(PageItems(left(k), m)) = Limit(SortRows(left(k)), m)
      BY <2>1, <2>2, LimitIsPage
    <2>4. Cut(Limit(SortRows(left(k)), m), first) =
            [items |-> SortRows(PageItems(left(k), first)),
             hasNextPage |-> HasNextPage(left(k), first)]
      BY <2>1, CutIsPage DEF m
    <2>5. QED
      BY <1>5, <2>3, <2>4 DEF PageOf, left
  <1>7. QED
    <2>1. SqlBatchList(keys, first, cursor) =
            [k \in keys |-> Cut(SortRows(Matching(ranked, k)), first)]
      BY DEF SqlBatchList
    <2> HIDE DEF ranked
    <2>2. QED
      BY <1>6, <2>1

\* Both count the rows of each list.
LEMMA CountsAreEqual ==
    ASSUME NEW keys
    PROVE  SqlBatchCount(keys) = MemoryBatchCount(keys)
  <1>1. Cardinality({}) = 0
    BY FS_EmptySet
  <1>2. QED
    BY <1>1 DEF SqlBatchCount, MemoryBatchCount

\* The loaders split what is asked of them into batches, and each request finds
\* its own list in its own batch.
LEMMA LoadedPageIsPage ==
    ASSUME IsList(rows), NEW requests \in SUBSET Requests
    PROVE  BatchCommentConnections(requests) =
             [r \in requests |-> PageOf(r.key, r.first, r.after)]
  <1> DEFINE same(r) == {q \in requests : <<q.key.scope, q.first, q.after>> =
                                            <<r.key.scope, r.first, r.after>>}
             group(r) == CHOOSE g \in GroupCommentConnectionKeys(requests) : r \in g
             keys(r) == {q.key : q \in group(r)}
  <1>1. GroupCommentConnectionKeys(requests) = {same(q) : q \in requests}
    BY DEF GroupCommentConnectionKeys
  <1>2. ASSUME NEW r \in requests PROVE group(r) = same(r)
    <2>1. \A q \in requests : r \in same(q) => same(q) = same(r)
      OBVIOUS
    <2>2. same(r) \in GroupCommentConnectionKeys(requests) /\ r \in same(r)
      BY <1>1
    <2> HIDE DEF same
    <2>3. QED
      BY <1>1, <2>1, <2>2
  <1>3. ASSUME NEW r \in requests
        PROVE  SqlBatchList(keys(r), r.first, r.after)[r.key] =
                 PageOf(r.key, r.first, r.after)
    <2>1. /\ r.key.scope \in {"post", "comment"}
          /\ r.first \in Nat /\ r.after \in AskedCursors
      BY PageSizeAssumption DEF Requests, CommentKeys, AskedKeys, Keys, Firsts
    <2>2. \A q \in same(r) : q.key \in Keys /\ q.key.scope = r.key.scope
      BY DEF Requests, CommentKeys, AskedKeys
    <2>3. keys(r) = {q.key : q \in same(r)} /\ r \in same(r)
      BY <1>2
    <2>4. /\ keys(r) \in SUBSET {k \in Keys : k.scope = r.key.scope}
          /\ r.key \in keys(r)
      <3> HIDE DEF keys, same
      <3>1. QED
        BY <2>2, <2>3
    <2> HIDE DEF keys
    <2>5. \A scope \in {"post", "comment"} :
            \A K \in SUBSET {k \in Keys : k.scope = scope} :
              \A first \in Nat, cursor \in AskedCursors :
                SqlBatchList(K, first, cursor) = [k \in K |-> PageOf(k, first, cursor)]
      BY SqlBatchListIsPage
    <2>6. SqlBatchList(keys(r), r.first, r.after) =
            [k \in keys(r) |-> PageOf(k, r.first, r.after)]
      <3>1. \A first \in Nat, cursor \in AskedCursors :
              SqlBatchList(keys(r), first, cursor) =
                [k \in keys(r) |-> PageOf(k, first, cursor)]
        BY <2>1, <2>4, <2>5
      <3>2. QED
        BY <2>1, <3>1
    <2>7. QED
      BY <2>4, <2>6
  <1>4. BatchCommentConnections(requests) =
          [r \in requests |-> SqlBatchList(keys(r), r.first, r.after)[r.key]]
    BY DEF BatchCommentConnections
  <1> HIDE DEF keys
  <1>5. QED
    BY <1>3, <1>4

LEMMA TableIsList == IInv => IsList(rows)
  BY DEF IInv, TypeOK, IsList, UniqueIds

-----------------------------------------------------------------------------
\* On every table that inserts can make, the lists of both repositories, which
\* sort, skip and cut sequences or filter and order rows, are the pages of Keyset,
\* and both count the same rows.
THEOREM ListsAgreeHolds == Spec => []ListsAgree
  <1>1. IsList(rows) => ListsAgree
    <2> SUFFICES ASSUME IsList(rows) PROVE PagesAgree /\ CountsAgree
      BY DEF ListsAgree
    <2>1. Firsts \subseteq Nat
      BY PageSizeAssumption DEF Firsts
    <2>2. PagesAgree
      BY <2>1, MemoryListIsPage, SqlListIsPage DEF PagesAgree, MemoryList
    <2>3. CountsAgree
      BY CountsAreEqual DEF CountsAgree
    <2>4. QED
      BY <2>2, <2>3
  <1>2. QED
    BY <1>1, TableIsList, Invariance, PTL

\* The batches of both repositories, and the loaders above them, give each list
\* the page it would have been given alone.
THEOREM BatchesAgreeHolds == Spec => []BatchesAgree
  <1>1. IsList(rows) => BatchesAgree
    <2> SUFFICES ASSUME IsList(rows) PROVE StatementsAgree /\ LoadersAgree
      BY DEF BatchesAgree
    <2>1. Firsts \subseteq Nat
      BY PageSizeAssumption DEF Firsts
    <2>2. StatementsAgree
      <3> SUFFICES ASSUME NEW scope \in {"post", "comment"}, NEW first \in Firsts,
                          NEW cursor \in AskedCursors
                   PROVE  LET keys == {k \in AskedKeys : k.scope = scope}
                              expected == [k \in keys |-> PageOf(k, first, cursor)]
                          IN  /\ MemoryBatchList(keys, first, cursor) = expected
                              /\ SqlBatchList(keys, first, cursor) = expected
        BY DEF StatementsAgree
      <3> DEFINE keys == {k \in AskedKeys : k.scope = scope}
      <3>1. keys \in SUBSET {k \in Keys : k.scope = scope} /\ first \in Nat
        BY <2>1 DEF AskedKeys
      <3> HIDE DEF keys
      <3>2. SqlBatchList(keys, first, cursor) = [k \in keys |-> PageOf(k, first, cursor)]
        BY <3>1, SqlBatchListIsPage
      <3>3. MemoryBatchList(keys, first, cursor) = [k \in keys |-> PageOf(k, first, cursor)]
        BY <3>1, MemoryListIsPage DEF MemoryBatchList
      <3>4. QED
        BY <3>2, <3>3 DEF keys
    <2>3. LoadersAgree
      BY LoadedPageIsPage DEF LoadersAgree
    <2>4. QED
      BY <2>2, <2>3
  <1>2. QED
    BY <1>1, TableIsList, Invariance, PTL
=============================================================================
