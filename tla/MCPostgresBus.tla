--------------------------- MODULE MCPostgresBus ---------------------------
(***************************************************************************)
(* Instances of PostgresBus for TLC.                                       *)
(***************************************************************************)
EXTENDS PostgresBus, TLC

CONSTANTS s1, s2, e1, e2, p1, p2

\* Two events of one post.
MCEvents == {e1, e2}
MCPostOf == e1 :> p1 @@ e2 :> p1

\* The only carrier.
MCCarriers == {Listener}
=============================================================================
