------------------------------ MODULE MCLists ------------------------------
(***************************************************************************)
(* An instance of PageWalk and ListQueries for TLC: a post with a comment, *)
(* and room for rows before, between and after them, at the same time or   *)
(* another.                                                                *)
(***************************************************************************)
EXTENDS ListQueries

MCSeedRows ==
    {[id |-> 3, at |-> 1, post |-> Null, parent |-> Null],
     [id |-> 2, at |-> 1, post |-> 3, parent |-> Null]}
=============================================================================
