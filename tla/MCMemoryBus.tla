---------------------------- MODULE MCMemoryBus ----------------------------
(***************************************************************************)
(* Instances of MemoryBus for TLC: two events of one post, and a post that *)
(* has none.                                                               *)
(***************************************************************************)
EXTENDS MemoryBus, TLC

CONSTANTS s1, s2, e1, e2, p1, p2

MCEvents == {e1, e2}
MCPostOf == e1 :> p1 @@ e2 :> p1
=============================================================================
