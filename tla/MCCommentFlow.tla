--------------------------- MODULE MCCommentFlow ---------------------------
(***************************************************************************)
(* Instances of CommentFlow for TLC.                                       *)
(***************************************************************************)
EXTENDS CommentFlow

\* Comments on the seeded posts, accepted and refused.
MCInputs ==
    [op: {"createComment"}, post: SeedPosts, user: {Null}, parent: {Null},
     enabled: {TRUE}, valid: BOOLEAN]
=============================================================================
