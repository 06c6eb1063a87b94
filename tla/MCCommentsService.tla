-------------------------- MODULE MCCommentsService --------------------------
(***************************************************************************)
(* Instances of CommentsService for TLC.                                   *)
(***************************************************************************)
EXTENDS CommentsService, TLC

\* Every call there is.
AllInputs == Calls

\* One post, one author: accepted and invalid comments, replies, both toggles.
ThreadInputs ==
    {c \in CreateCommentCalls : c.post \in SeedPosts}
        \cup {c \in SetCommentsEnabledCalls : c.post \in SeedPosts}

\* Valid comments and toggles only, for the runs that check liveness.
ValidInputs == {c \in ThreadInputs : c.valid /\ c.parent = Null}

RequestSymmetry == Permutations(Requests)
=============================================================================
