------------------------ MODULE MCContainerReplace ------------------------
(***************************************************************************)
(* Two services in two stacks.  One is updated by hand, which sweeps the   *)
(* host first; the other by the automation, unverified, and by the restore *)
(* of a stack rollback.                                                    *)
(***************************************************************************)
EXTENDS ContainerReplace, TLC

CONSTANTS web, db

MCServices == {web, db}

MCRequests == web :> {<<"manual", TRUE>>} @@ db :> {<<"automatic", FALSE>>, <<"restore", TRUE>>}

MCOriginal == web :> 1 @@ db :> 2
=============================================================================
