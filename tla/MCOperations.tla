---------------------------- MODULE MCOperations ----------------------------
(***************************************************************************)
(* An instance of Operations, behind the guards of Guards, for TLC.  With  *)
(* words of 8 bits, 86 rows of 3 fields cost 3: the documents have such    *)
(* lists, at the top, below another list, and in fragments that are spread *)
(* once, twice and in each other.                                          *)
(***************************************************************************)
EXTENDS Operations, Guards

CONSTANTS o1, o2, http, socket, l1, a1, a2

Firsts == {-1, 0, 1, 2, 3, 43, 86}

\* One list in another, plain and in fragments.
Below(n) ==
    {<<Leaf>>, <<List(n, <<Leaf>>)>>, <<Leaf, List(n, <<Leaf>>)>>,
     <<InlineFragment(<<List(n, <<Leaf>>)>>)>>,
     <<Spread("f")>>, <<Spread("f"), Spread("f")>>,
     <<Spread("g")>>, <<List(n, <<Spread("f")>>), Spread("f")>>,
     <<List(1, <<List(n, <<Leaf>>)>>)>>}

MCDocuments ==
    {[selection |-> <<List(n, x)>>,
      fragments |-> [f |-> <<List(m, <<Leaf>>)>>, g |-> <<Leaf, Spread("f")>>]] :
        <<n, m, x>> \in UNION {{n} \X {m} \X Below(m) : n, m \in Firsts}}

MCAdmissions == Outcomes

MCScopeOf == [l \in Lists |-> "post"]

MCSessionOf == [o \in Operation |-> IF o = o1 THEN http ELSE socket]

Page(l, a) == [kind |-> "commentConnections", list |-> l, args |-> a]

\* The socket's operations ask for the same page, and one of them for another,
\* which takes a statement of its own.
MCSelection ==
    [o \in Operation |-> IF o = o2 THEN {Page(l1, a1), Page(l1, a2)} ELSE {Page(l1, a1)}]
=============================================================================
