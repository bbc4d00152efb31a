------------------------- MODULE MCUpdateExecution -------------------------
(***************************************************************************)
(* A stack of two services, db before web; and a single container beside a *)
(* stack of one.  All are deployed from one reference.                     *)
(***************************************************************************)
EXTENDS UpdateExecution, TLC

CONSTANTS db, web, solo, stack, tag

StackMembers == {db, web}
StackOrder == stack :> <<db, web>>
StackNames == <<db, web>>
StackTagOf == db :> tag @@ web :> tag
StackChoices == stack :> {"off", "rollback"}
StackMaxId == db :> 3 @@ web :> 2

PairMembers == {solo, web}
PairOrder == stack :> <<web>>
PairNames == <<solo, web>>
PairTagOf == solo :> tag @@ web :> tag
PairChoices == solo :> {"off", "keep"} @@ stack :> {"keep"}
PairMaxId == solo :> 2 @@ web :> 1
=============================================================================
