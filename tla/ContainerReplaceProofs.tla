----------------------- MODULE ContainerReplaceProofs -----------------------
(***************************************************************************)
(* Proofs about ContainerReplace, for every set of services, every         *)
(* workload and any number of replacements: type correctness, that a       *)
(* service never loses its last sound container, that old and new never    *)
(* run side by side, and that what an update reports is so.                *)
(*                                                                         *)
(* ServiceKept is not inductive: which container may go next depends on    *)
(* how far the worker of the service is.  Kept says more: as long as a     *)
(* replacement is not accepted, a container other than it is sound.  The   *)
(* other properties need to know which containers run, and that no other   *)
(* worker starts or stops them: that is the second invariant, HeldInv.     *)
(***************************************************************************)
EXTENDS ContainerReplace, TLAPS

Uncreated == {"list", "sweep", "pull", "inspect", "createCold", "stop", "unstop", "create"}

Swapping == {"removeCold", "start", "check", "await", "labels", "removeOld"}

Accepted == {"rename", "relist"}

Discarding == {"dropCold", "drop", "undoNew"}

Undoing == Discarding \cup {"rollback", "restartOld"}

(* The container a worker replaces stays until the replacement is accepted *)
(* or given up on; a removal may have failed and taken effect by then.     *)
OldInPlace ==
    \A s \in Services :
      wk[s].pc \notin Accepted \cup Undoing \cup {"idle"} =>
        wk[s].old \in present /\ cont[wk[s].old].svc = s

(* The replacement of every busy worker is its own, and where it should be. *)
NewOwned ==
    \A s \in Services :
      wk[s].pc # "idle" =>
        /\ wk[s].new \in used
        /\ wk[s].new # wk[s].old
        /\ \A t \in Services : t # s /\ wk[t].pc # "idle" => wk[s].new # wk[t].new
        /\ wk[s].pc \in Uncreated => wk[s].new \notin present /\ wk[s].new \notin rejected
        /\ wk[s].pc \in Swapping \cup Accepted => wk[s].new \in present /\ wk[s].new \notin rejected
        /\ wk[s].pc \in Swapping \cup Accepted \cup Discarding => cont[wk[s].new].svc = s

(* A sound container besides the replacement, or the accepted replacement. *)
Kept ==
    \A s \in Services \ vanished :
      \E i \in present :
        /\ i \notin rejected
        /\ cont[i].svc = s
        /\ wk[s].pc \notin Accepted \cup {"idle"} => i # wk[s].new

IInv == TypeOK /\ OldInPlace /\ NewOwned /\ Kept

-----------------------------------------------------------------------------
(***************************************************************************)
(* The kinds of steps a worker takes, by what they do to the containers.   *)
(***************************************************************************)
Moves(s) ==
    /\ wk' \in [Services -> Workers]
    /\ wk'[s].pc # "idle" => wk'[s].old = wk[s].old /\ wk'[s].new = wk[s].new
    /\ \A t \in Services : t # s => wk'[t] = wk[t]

SameOwners ==
    /\ cont' \in [Ids -> Containers]
    /\ \A i \in Ids : cont'[i].svc = cont[i].svc

Works(s) == wk[s].pc # "idle" /\ used' = used /\ Moves(s)

Frame(s) == Works(s) /\ vanished' = vanished

(* Containers are started, stopped or renamed, or nothing happens to them. *)
Quiet(s) ==
    /\ Frame(s) /\ SameOwners
    /\ present' = present /\ rejected' = rejected
    /\ \/ wk'[s].pc = "idle"
       \/ wk[s].pc \in Uncreated /\ wk'[s].pc \in Uncreated \cup {"rollback"}
       \/ wk[s].pc \in Swapping /\ wk'[s].pc \in Swapping
       \/ wk[s].pc \in Accepted /\ wk'[s].pc \in Accepted

(* The replacement is created.                                             *)
Creates(s) ==
    /\ Frame(s)
    /\ present' = present \cup {wk[s].new} /\ rejected' = rejected
    /\ cont' \in [Ids -> Containers]
    /\ cont'[wk[s].new].svc = s
    /\ \A i \in Ids : i # wk[s].new => cont'[i] = cont[i]
    /\ wk[s].pc \in Uncreated /\ wk'[s].pc \in Swapping

(* The replacement is given up on.                                         *)
Rejects(s) ==
    /\ Frame(s) /\ SameOwners
    /\ present' = present /\ rejected' = rejected \cup {wk[s].new}
    /\ wk[s].pc \in Swapping /\ wk'[s].pc \in Discarding

(* The old container went with the attempt to remove it.                   *)
Loses(s) ==
    /\ Works(s) /\ SameOwners
    /\ present' = present \ {wk[s].old} /\ rejected' = rejected \cup {wk[s].new}
    /\ vanished' = vanished \cup {s}
    /\ wk[s].pc \in Swapping /\ wk'[s].pc \in Discarding

(* The removal of the replacement is tried.                                *)
Discards(s) ==
    /\ Frame(s) /\ SameOwners
    /\ present' \in {present, present \ {wk[s].new}} /\ rejected' = rejected
    /\ wk[s].pc \in Discarding /\ wk'[s].pc \in {"rollback", "restartOld", "idle"}

(* The old container is removed for an accepted replacement.               *)
Accepts(s) ==
    /\ Frame(s) /\ SameOwners
    /\ present' = present \ {wk[s].old} /\ rejected' = rejected
    /\ wk[s].pc \in Swapping /\ wk'[s].pc \in Accepted

-----------------------------------------------------------------------------

LEMMA FreshIdType ==
    ASSUME used \subseteq Ids, used # Ids
    PROVE  FreshId \in Ids /\ FreshId \notin used
  <1>1. \E i \in Ids : i \notin used
    OBVIOUS
  <1> QED BY <1>1 DEF FreshId

LEMMA IdleType == ASSUME NEW s \in Services PROVE Idle(s) \in Workers
  BY ReplaceAssumption DEF Idle, Workers, Steps, Kinds, Verdicts, Names

LEMMA InitTypeOK == Init => TypeOK
  <1> SUFFICES ASSUME Init PROVE TypeOK
    OBVIOUS
  <1>1. present \subseteq Ids /\ used = present /\ rejected = {} /\ vanished = {}
    BY ReplaceAssumption DEF Init
  <1>2. wk \in [Services -> Workers]
    BY IdleType DEF Init
  <1>3. cont \in [Ids -> Containers]
    <2>1. PICK running \in SUBSET Services :
            cont = [i \in Ids |->
                   LET owner == IF i \in present
                                THEN CHOOSE s \in Services : Original[s] = i
                                ELSE CHOOSE s \in Services : TRUE
                   IN  [svc |-> owner, tail |-> <<>>,
                        up |-> i \in present /\ owner \in running,
                        health |-> "none"]]
      BY DEF Init
    <2> DEFINE owner(i) == IF i \in present
                           THEN CHOOSE s \in Services : Original[s] = i
                           ELSE CHOOSE s \in Services : TRUE
    <2>2. \A i \in Ids : owner(i) \in Services
      BY ReplaceAssumption DEF Init
    <2>3. <<>> \in Seq(Ids)
      OBVIOUS
    <2> HIDE DEF owner
    <2>4. cont = [i \in Ids |-> [svc |-> owner(i), tail |-> <<>>,
                        up |-> i \in present /\ owner(i) \in running,
                        health |-> "none"]]
      BY <2>1 DEF owner
    <2>5. \A i \in Ids : [svc |-> owner(i), tail |-> <<>>,
                        up |-> i \in present /\ owner(i) \in running,
                        health |-> "none"] \in Containers
      BY <2>2, <2>3 DEF Containers, Healths
    <2> QED BY <2>4, <2>5
  <1> QED BY <1>1, <1>2, <1>3 DEF TypeOK

-----------------------------------------------------------------------------
(* What the worker updates of the actions change, and that they keep types. *)

LEMMA BecomeFacts ==
    ASSUME NEW s \in Services, NEW w \in Workers,
           wk \in [Services -> Workers], Become(s, w)
    PROVE  /\ wk' \in [Services -> Workers]
           /\ wk'[s] = w
           /\ \A t \in Services : t # s => wk'[t] = wk[t]
  BY DEF Become

LEMMA GotoFacts ==
    ASSUME NEW s \in Services, NEW pc \in Steps,
           wk \in [Services -> Workers], Goto(s, pc)
    PROVE  /\ wk' \in [Services -> Workers]
           /\ wk'[s].pc = pc
           /\ wk'[s].old = wk[s].old
           /\ wk'[s].new = wk[s].new
           /\ \A t \in Services : t # s => wk'[t] = wk[t]
  <1>1. [wk[s] EXCEPT !.pc = pc] \in Workers
    BY DEF Workers
  <1>2. Become(s, [wk[s] EXCEPT !.pc = pc])
    BY DEF Goto
  <1>3. wk[s] \in Workers
    OBVIOUS
  <1>4. /\ wk' \in [Services -> Workers]
        /\ wk'[s] = [wk[s] EXCEPT !.pc = pc]
        /\ \A t \in Services : t # s => wk'[t] = wk[t]
    BY <1>1, <1>2, BecomeFacts
  <1> QED BY <1>3, <1>4 DEF Workers

LEMMA ReportFacts ==
    ASSUME NEW s \in Services, NEW verdict \in Verdicts, NEW told \in BOOLEAN,
           wk \in [Services -> Workers], Report(s, verdict, told)
    PROVE  /\ wk' \in [Services -> Workers]
           /\ wk'[s].pc = "idle"
           /\ \A t \in Services : t # s => wk'[t] = wk[t]
  <1> DEFINE w == [Idle(s) EXCEPT !.hot = wk[s].hot, !.old = wk[s].old, !.new = wk[s].new,
                                  !.told = told, !.verdict = verdict]
  <1>1. w \in Workers /\ w.pc = "idle"
    BY IdleType DEF Idle, Workers
  <1>2. Become(s, w)
    BY DEF Report
  <1> HIDE DEF w
  <1> QED BY <1>1, <1>2, BecomeFacts

LEMMA FinishFacts ==
    ASSUME NEW s \in Services, NEW verdict \in Verdicts,
           wk \in [Services -> Workers], Finish(s, verdict)
    PROVE  /\ wk' \in [Services -> Workers]
           /\ wk'[s].pc = "idle"
           /\ \A t \in Services : t # s => wk'[t] = wk[t]
  <1>1. wk[s].told \in BOOLEAN
    BY DEF Workers
  <1> QED BY <1>1, ReportFacts DEF Finish

LEMMA SetUpFacts ==
    ASSUME NEW i \in Ids, NEW up \in BOOLEAN, cont \in [Ids -> Containers],
           MaybeSetUp(i, up)
    PROVE  SameOwners
  <1>1. CASE cont' = cont
    BY <1>1 DEF SameOwners
  <1>2. CASE cont' = [cont EXCEPT ![i].up = up]
    <2>1. [cont[i] EXCEPT !.up = up] \in Containers
      BY DEF Containers
    <2>2. [cont[i] EXCEPT !.up = up].svc = cont[i].svc
      BY DEF Containers
    <2>3. cont' = [cont EXCEPT ![i] = [cont[i] EXCEPT !.up = up]]
      BY <1>2
    <2> QED BY <2>1, <2>2, <2>3 DEF SameOwners
  <1> QED BY <1>1, <1>2 DEF MaybeSetUp, SetUp

LEMMA CreateFacts ==
    ASSUME NEW s \in Services, TypeOK, CreateReplacement(s)
    PROVE  /\ present' = present \cup {wk[s].new}
           /\ cont' \in [Ids -> Containers]
           /\ cont'[wk[s].new].svc = s
           /\ \A j \in Ids : j # wk[s].new => cont'[j] = cont[j]
  <1>1. wk[s].new \in Ids /\ wk[s].name \in Seq(Ids)
    BY DEF TypeOK, Workers
  <1>2. Append(wk[s].name, wk[s].new) \in Seq(Ids)
    BY <1>1
  <1>3. PICK h \in {"none", "starting"} :
          cont' = [cont EXCEPT ![wk[s].new] =
                    [svc |-> s, tail |-> Append(wk[s].name, wk[s].new),
                     up |-> FALSE, health |-> h]]
    BY DEF CreateReplacement
  <1>4. [svc |-> s, tail |-> Append(wk[s].name, wk[s].new),
         up |-> FALSE, health |-> h] \in Containers
    BY <1>2 DEF Containers, Healths
  <1>5. cont \in [Ids -> Containers]
    BY DEF TypeOK
  <1> QED BY <1>1, <1>3, <1>4, <1>5 DEF CreateReplacement

LEMMA RenameFacts ==
    ASSUME NEW i \in Ids, NEW q \in Seq(Ids), cont \in [Ids -> Containers],
           cont' = [cont EXCEPT ![i].tail = q]
    PROVE  SameOwners
  BY DEF SameOwners, Containers

LEMMA FrontType ==
    ASSUME NEW q \in Seq(Ids)
    PROVE  SubSeq(q, 1, Len(q) - 1) \in Seq(Ids)
  OBVIOUS

LEMMA WorkerFields ==
    ASSUME TypeOK, NEW s \in Services
    PROVE  /\ wk[s].old \in Ids /\ wk[s].new \in Ids
           /\ wk[s].pc \in Steps /\ wk[s].name \in Seq(Ids)
           /\ wk[s].events \in Seq(Events)
  BY DEF TypeOK, Workers

LEMMA UpdateFacts ==
    ASSUME TypeOK, NEW s \in Services, NEW w \in Workers, Become(s, w),
           w.old = wk[s].old, w.new = wk[s].new
    PROVE  Moves(s)
  BY BecomeFacts DEF TypeOK, Moves

-----------------------------------------------------------------------------
(* Every action of a worker is a step of one of five kinds.                *)

LEMMA SweepKinds ==
    ASSUME TypeOK, NEW s \in Services, SweepList(s) \/ SweepOne(s) \/ SweepDone(s)
    PROVE  Quiet(s)
  <1>0. wk[s] \in Workers /\ wk[s].pc # "idle"
    BY DEF TypeOK, SweepList, SweepOne, SweepDone
  <1>1. CASE SweepList(s)
    <2> DEFINE todo == {[id |-> i, svc |-> cont[i].svc, tail |-> cont[i].tail] :
                                  i \in {j \in present : cont[j].tail # <<>>}}
               taken == {<<cont[i].svc, cont[i].tail>> : i \in present}
               v == [wk[s] EXCEPT !.pc = "sweep", !.todo = todo, !.taken = taken]
               w == [wk[s] EXCEPT !.pc = "pull", !.name = cont[wk[s].old].tail]
    <2>1. todo \in SUBSET [id : Ids, svc : Services, tail : Seq(Ids)]
      BY DEF TypeOK, Containers
    <2>2. taken \in SUBSET Names
      BY DEF TypeOK, Containers, Names
    <2>3. cont[wk[s].old].tail \in Seq(Ids)
      BY WorkerFields DEF TypeOK, Containers
    <2>4. Become(s, v) \/ Become(s, w)
      BY <1>1 DEF SweepList
    <2> HIDE DEF todo, taken
    <2>5. v \in Workers /\ w \in Workers
      BY <1>0, <2>1, <2>2, <2>3 DEF Workers, Steps
    <2>6. /\ v.old = wk[s].old /\ v.new = wk[s].new /\ v.pc \in Uncreated
          /\ w.old = wk[s].old /\ w.new = wk[s].new /\ w.pc \in Uncreated
      BY <1>0 DEF Workers, Uncreated
    <2> HIDE DEF v, w
    <2>7. Moves(s) /\ wk'[s].pc \in Uncreated
      BY <2>4, <2>5, <2>6, UpdateFacts, BecomeFacts DEF TypeOK
    <2> QED BY <1>0, <1>1, <2>7 DEF SweepList, Quiet, Frame, Works, SameOwners, TypeOK, Uncreated
  <1>2. CASE SweepOne(s)
    <2>1. PICK item \in wk[s].todo :
            LET front   == SubSeq(item.tail, 1, Len(item.tail) - 1)
                target  == <<item.svc, front>>
            IN  \/ Become(s, [wk[s] EXCEPT !.todo = @ \ {item}]) /\ UNCHANGED cont
                \/ /\ cont' = [cont EXCEPT ![item.id].tail = front]
                   /\ Become(s, [wk[s] EXCEPT
                         !.todo = @ \ {item},
                         !.taken = (@ \ {<<item.svc, item.tail>>}) \cup {target}])
      BY <1>2 DEF SweepOne
    <2> DEFINE front == SubSeq(item.tail, 1, Len(item.tail) - 1)
               v == [wk[s] EXCEPT !.todo = @ \ {item}]
               w == [wk[s] EXCEPT !.todo = @ \ {item},
                       !.taken = (@ \ {<<item.svc, item.tail>>}) \cup {<<item.svc, front>>}]
    <2>2. item \in [id : Ids, svc : Services, tail : Seq(Ids)]
      BY <1>0 DEF Workers
    <2>3. front \in Seq(Ids)
      BY <2>2, FrontType
    <2>4. \/ Become(s, v) /\ cont' = cont
          \/ Become(s, w) /\ cont' = [cont EXCEPT ![item.id].tail = front]
      BY <2>1
    <2> HIDE DEF front
    <2>5. <<item.svc, front>> \in Names
      BY <2>2, <2>3 DEF Names
    <2>6. v \in Workers /\ w \in Workers
      BY <1>0, <2>5 DEF Workers
    <2>7. /\ v.old = wk[s].old /\ v.new = wk[s].new /\ v.pc = wk[s].pc
          /\ w.old = wk[s].old /\ w.new = wk[s].new /\ w.pc = wk[s].pc
      BY <1>0 DEF Workers
    <2> HIDE DEF v, w
    <2>8. Moves(s) /\ wk'[s].pc = wk[s].pc
      BY <2>4, <2>6, <2>7, UpdateFacts, BecomeFacts DEF TypeOK
    <2>9. SameOwners
      <3>1. CASE cont' = cont
        BY <3>1 DEF SameOwners, TypeOK
      <3>2. CASE cont' = [cont EXCEPT ![item.id].tail = front]
        BY <2>2, <2>3, <3>2, RenameFacts DEF TypeOK
      <3> QED BY <2>4, <3>1, <3>2
    <2> QED BY <1>0, <1>2, <2>8, <2>9 DEF SweepOne, Quiet, Frame, Works, Uncreated
  <1>3. CASE SweepDone(s)
    <2> DEFINE w == [wk[s] EXCEPT !.pc = "pull", !.taken = {}, !.name = cont[wk[s].old].tail]
    <2>1. cont[wk[s].old].tail \in Seq(Ids)
      BY WorkerFields DEF TypeOK, Containers
    <2>2. w \in Workers
      BY <1>0, <2>1 DEF Workers, Steps
    <2>3. w.old = wk[s].old /\ w.new = wk[s].new /\ w.pc = "pull"
      BY <1>0 DEF Workers
    <2>4. Become(s, w)
      BY <1>3 DEF SweepDone
    <2> HIDE DEF w
    <2>5. Moves(s) /\ wk'[s].pc = "pull"
      BY <2>2, <2>3, <2>4, UpdateFacts, BecomeFacts DEF TypeOK
    <2> QED BY <1>0, <1>3, <2>5 DEF SweepDone, Quiet, Frame, Works, SameOwners, TypeOK, Uncreated
  <1> QED BY <1>1, <1>2, <1>3

LEMMA InspectKind ==
    ASSUME TypeOK, NEW s \in Services, Inspect(s)
    PROVE  Quiet(s)
  <1> DEFINE w == [wk[s] EXCEPT !.pc = "stop", !.hot = TRUE]
  <1>1. wk[s] \in Workers /\ wk[s].pc = "inspect"
    BY DEF TypeOK, Inspect
  <1>2. w \in Workers /\ w.old = wk[s].old /\ w.new = wk[s].new /\ w.pc = "stop"
    BY <1>1 DEF Workers, Steps
  <1>3. Finish(s, "untouched") \/ Become(s, w) \/ Goto(s, "createCold")
    BY DEF Inspect
  <1> HIDE DEF w
  <1>4. Moves(s) /\ wk'[s].pc \in {"idle", "stop", "createCold"}
    BY <1>2, <1>3, UpdateFacts, BecomeFacts, GotoFacts, FinishFacts
       DEF TypeOK, Moves, Steps, Verdicts
  <1> QED BY <1>1, <1>4 DEF Inspect, Quiet, Frame, Works, SameOwners, TypeOK, Uncreated

LEMMA QuietKinds ==
    ASSUME TypeOK, NEW s \in Services,
           \/ Pull(s) \/ Stop(s) \/ Unstop(s) \/ Rollback(s) \/ RestartOld(s)
           \/ Rename(s) \/ Relist(s)
    PROVE  Quiet(s)
  <1>0. wk[s].pc # "idle" /\ wk[s].old \in Ids /\ wk[s].new \in Ids /\ wk[s].name \in Seq(Ids)
    BY WorkerFields DEF Pull, Stop, Unstop, Rollback, RestartOld, Rename, Relist
  <1> USE DEF Quiet, Frame, Works, Moves
  <1>1. CASE Pull(s)
    BY <1>0, <1>1, GotoFacts, FinishFacts DEF Pull, TypeOK, SameOwners, Steps, Verdicts, Uncreated
  <1>2. CASE Stop(s)
    <2>1. SameOwners
      BY <1>0, <1>2, SetUpFacts DEF Stop, MaybeSetUp, TypeOK
    <2> QED BY <1>0, <1>2, <2>1, GotoFacts DEF Stop, TypeOK, Steps, Uncreated
  <1>3. CASE Unstop(s)
    <2>1. SameOwners
      BY <1>0, <1>3, SetUpFacts DEF Unstop, MaybeSetUp, TypeOK
    <2> QED BY <1>0, <1>3, <2>1, FinishFacts DEF Unstop, TypeOK, Verdicts
  <1>4. CASE Rollback(s)
    <2>1. SameOwners
      BY <1>0, <1>4, SetUpFacts DEF Rollback, MaybeSetUp, TypeOK
    <2> QED BY <1>0, <1>4, <2>1, FinishFacts DEF Rollback, TypeOK, Verdicts
  <1>5. CASE RestartOld(s)
    <2>1. SameOwners
      BY <1>0, <1>5, SetUpFacts DEF RestartOld, MaybeSetUp, TypeOK
    <2> QED BY <1>0, <1>5, <2>1, FinishFacts DEF RestartOld, TypeOK, Verdicts
  <1>6. CASE Rename(s)
    <2>1. SameOwners
      <3>1. CASE cont' = cont
        BY <3>1 DEF SameOwners, TypeOK
      <3>2. CASE cont' = [cont EXCEPT ![wk[s].new].tail = wk[s].name]
        BY <1>0, <3>2, RenameFacts DEF TypeOK
      <3> QED BY <1>6, <3>1, <3>2 DEF Rename
    <2> QED BY <1>0, <1>6, <2>1, GotoFacts, FinishFacts
            DEF Rename, TypeOK, Steps, Verdicts, Accepted
  <1>7. CASE Relist(s)
    BY <1>0, <1>7, FinishFacts DEF Relist, TypeOK, SameOwners, Verdicts
  <1> QED BY <1>1, <1>2, <1>3, <1>4, <1>5, <1>6, <1>7

LEMMA CreateKinds ==
    ASSUME TypeOK, NEW s \in Services, CreateCold(s) \/ Create(s)
    PROVE  Creates(s) \/ Quiet(s)
  <1> USE DEF Frame, Works, Moves
  <1>0. wk[s].pc # "idle" /\ wk[s].pc \in Uncreated
    BY DEF CreateCold, Create, Uncreated
  <1>1. CASE CreateReplacement(s) /\ (Goto(s, "removeCold") \/ Goto(s, "start"))
    <2>1. Creates(s)
      BY <1>0, <1>1, GotoFacts, CreateFacts
         DEF TypeOK, Steps, Creates, Swapping, CreateCold, Create
    <2> QED BY <2>1
  <1>2. CASE UNCHANGED <<present, cont>> /\ (Finish(s, "kept") \/ Goto(s, "rollback"))
    <2>1. Quiet(s)
      BY <1>0, <1>2, GotoFacts, FinishFacts
         DEF TypeOK, Steps, Verdicts, Quiet, SameOwners, CreateCold, Create
    <2> QED BY <2>1
  <1> QED BY <1>1, <1>2 DEF CreateCold, Create

LEMMA DiscardKinds ==
    ASSUME TypeOK, NEW s \in Services, DropCold(s) \/ Drop(s) \/ UndoNew(s)
    PROVE  Discards(s)
  <1> USE DEF Discards, Frame, Works, Moves, Discarding, RemoveNew
  <1>0. SameOwners /\ wk[s] \in Workers
    BY DEF DropCold, Drop, UndoNew, SameOwners, TypeOK
  <1>1. CASE DropCold(s)
    BY <1>0, <1>1, FinishFacts, ReportFacts DEF DropCold, TypeOK, Verdicts
  <1>2. CASE Drop(s)
    <2> DEFINE w == [wk[s] EXCEPT !.pc = "rollback", !.told = TRUE]
    <2>1. w \in Workers /\ w.old = wk[s].old /\ w.new = wk[s].new /\ w.pc = "rollback"
      BY <1>0 DEF Workers, Steps
    <2>2. Goto(s, "rollback") \/ Become(s, w)
      BY <1>2 DEF Drop
    <2> HIDE DEF w
    <2>3. Moves(s) /\ wk'[s].pc = "rollback"
      BY <2>1, <2>2, UpdateFacts, BecomeFacts, GotoFacts DEF TypeOK, Steps
    <2> QED BY <1>0, <1>2, <2>3 DEF Drop
  <1>3. CASE UndoNew(s)
    BY <1>0, <1>3, GotoFacts DEF UndoNew, TypeOK, Steps
  <1> QED BY <1>1, <1>2, <1>3

LEMMA VerdictFacts ==
    ASSUME TypeOK, NEW s \in Services
    PROVE  /\ Verified(s) => Moves(s) /\ wk'[s].pc = "labels"
           /\ Reject(s) => /\ Moves(s) /\ wk'[s].pc = "drop"
                           /\ rejected' = rejected \cup {wk[s].new}
  <1> DEFINE v == [wk[s] EXCEPT !.pc = "labels", !.events = <<>>]
             w == [wk[s] EXCEPT !.pc = "drop", !.events = <<>>]
  <1>1. wk[s] \in Workers /\ <<>> \in Seq(Events)
    BY DEF TypeOK
  <1>2. v \in Workers /\ w \in Workers
    BY <1>1 DEF Workers, Steps
  <1>3. /\ v.old = wk[s].old /\ v.new = wk[s].new /\ v.pc = "labels"
        /\ w.old = wk[s].old /\ w.new = wk[s].new /\ w.pc = "drop"
    BY <1>1 DEF Workers
  <1>4. Verified(s) => Become(s, v)
    BY DEF Verified
  <1>5. Reject(s) => Become(s, w) /\ rejected' = rejected \cup {wk[s].new}
    BY DEF Reject
  <1> HIDE DEF v, w
  <1> QED BY <1>2, <1>3, <1>4, <1>5, UpdateFacts, BecomeFacts DEF TypeOK

LEMMA VerifyKinds ==
    ASSUME TypeOK, NEW s \in Services,
           Start(s) \/ Check(s) \/ AwaitEvent(s) \/ AwaitTimer(s) \/ Labels(s)
    PROVE  Quiet(s) \/ Rejects(s)
  <1> USE DEF Frame, Works
  <1>0. wk[s].pc # "idle" /\ wk[s] \in Workers /\ wk[s].new \in Ids
    BY WorkerFields DEF Start, Check, AwaitEvent, AwaitTimer, Labels, TypeOK
  <1>1. CASE Start(s)
    <2>1. SameOwners
      BY <1>0, <1>1, SetUpFacts DEF Start, MaybeSetUp, TypeOK
    <2>2. CASE /\ Goto(s, IF wk[s].verify THEN "check" ELSE "removeOld")
               /\ UNCHANGED rejected
      <3>1. Quiet(s)
        BY <1>0, <1>1, <2>1, <2>2, GotoFacts
           DEF Start, TypeOK, Steps, Swapping, Quiet, Moves
      <3> QED BY <3>1
    <2>3. CASE Goto(s, "drop") /\ rejected' = rejected \cup {wk[s].new}
      <3>1. Rejects(s)
        BY <1>0, <1>1, <2>1, <2>3, GotoFacts
           DEF Start, TypeOK, Steps, Swapping, Discarding, Rejects, Moves
      <3> QED BY <3>1
    <2> QED BY <1>1, <2>2, <2>3 DEF Start
  <1>2. CASE Check(s) \/ AwaitEvent(s) \/ AwaitTimer(s) \/ Labels(s)
    <2>1. /\ SameOwners /\ present' = present /\ used' = used /\ vanished' = vanished
          /\ wk[s].pc \in Swapping
      BY <1>2 DEF Check, AwaitEvent, AwaitTimer, Labels, SameOwners, TypeOK, Swapping
    <2> DEFINE u == [wk[s] EXCEPT !.events = Tail(@)]
    <2>2. CASE Reject(s)
      <3>1. Rejects(s)
        BY <1>0, <2>1, <2>2, VerdictFacts DEF Rejects, Discarding
      <3> QED BY <3>1
    <2>3. CASE UNCHANGED rejected /\ (Verified(s) \/ Goto(s, "await") \/ Goto(s, "removeOld"))
      <3>1. Moves(s) /\ wk'[s].pc \in Swapping
        BY <2>3, VerdictFacts, GotoFacts DEF TypeOK, Steps, Swapping, Moves
      <3>2. Quiet(s)
        BY <1>0, <2>1, <2>3, <3>1 DEF Quiet
      <3> QED BY <3>2
    <2>4. CASE UNCHANGED rejected /\ wk[s].events # <<>> /\ Become(s, u)
      <3>1. Tail(wk[s].events) \in Seq(Events)
        BY <2>4, WorkerFields
      <3>2. u \in Workers /\ u.old = wk[s].old /\ u.new = wk[s].new /\ u.pc = wk[s].pc
        BY <1>0, <3>1 DEF Workers
      <3> HIDE DEF u
      <3>3. Moves(s) /\ wk'[s].pc = wk[s].pc
        BY <2>4, <3>2, UpdateFacts, BecomeFacts DEF TypeOK
      <3>4. Quiet(s)
        BY <1>0, <2>1, <2>4, <3>3 DEF Quiet
      <3> QED BY <3>4
    <2> QED BY <1>2, <2>2, <2>3, <2>4 DEF Check, AwaitEvent, AwaitTimer, Labels
  <1> QED BY <1>1, <1>2

LEMMA AcceptKinds ==
    ASSUME TypeOK, NEW s \in Services, RemoveCold(s) \/ RemoveOld(s)
    PROVE  Accepts(s) \/ Rejects(s) \/ Loses(s)
  <1> USE DEF Frame, Works, Moves
  <1>0. wk[s].pc # "idle" /\ wk[s].pc \in Swapping /\ SameOwners /\ used' = used
    BY DEF RemoveCold, RemoveOld, Swapping, SameOwners, TypeOK
  <1>1. CASE /\ present' = present \ {wk[s].old} /\ Goto(s, "rename")
             /\ UNCHANGED <<rejected, vanished>>
    <2>1. Accepts(s)
      BY <1>0, <1>1, GotoFacts DEF TypeOK, Steps, Accepts, Accepted
    <2> QED BY <2>1
  <1>2. CASE /\ Goto(s, "dropCold") \/ Goto(s, "undoNew")
             /\ GiveUp(s, FALSE)
    <2>1. Rejects(s)
      BY <1>0, <1>2, GotoFacts DEF TypeOK, Steps, Rejects, Discarding, GiveUp
    <2> QED BY <2>1
  <1>3. CASE /\ Goto(s, "dropCold") \/ Goto(s, "undoNew")
             /\ GiveUp(s, TRUE)
    <2>1. Loses(s)
      BY <1>0, <1>3, GotoFacts DEF TypeOK, Steps, Loses, Discarding, GiveUp
    <2> QED BY <2>1
  <1>4. cont[wk[s].old].up \in BOOLEAN
    BY WorkerFields DEF TypeOK, Containers
  <1> QED BY <1>1, <1>2, <1>3, <1>4 DEF RemoveCold, RemoveOld

LEMMA EnvironmentKind ==
    ASSUME TypeOK, NEW s \in Services, Environment(s)
    PROVE  Quiet(s)
  <1>0. /\ wk[s] \in Workers /\ wk[s].new \in Ids /\ wk[s].events \in Seq(Events)
        /\ wk[s].crashed \in BOOLEAN
    BY WorkerFields DEF TypeOK, Workers
  <1>1. wk[s].pc # "idle" /\ wk[s].pc \in Swapping
    BY DEF Environment, Die, HealthTurns, Verifying, Swapping
  <1>2. \A e \in Events : Delivered(s, e) \subseteq Seq(Events)
    BY <1>0 DEF Delivered
  <1>3. ASSUME NEW w \in Workers, Become(s, w), w.old = wk[s].old, w.new = wk[s].new,
               w.pc = wk[s].pc, SameOwners, UNCHANGED <<present, used, rejected, vanished>>
        PROVE  Quiet(s)
    <2>1. Moves(s) /\ wk'[s].pc = wk[s].pc
      BY <1>3, UpdateFacts, BecomeFacts DEF TypeOK
    <2> QED BY <1>1, <1>3, <2>1 DEF Quiet, Frame, Works
  <1>4. ASSUME NEW restarts \in BOOLEAN, Die(s, restarts) PROVE Quiet(s)
    <2>1. PICK events \in Delivered(s, "die") :
            Become(s, [wk[s] EXCEPT !.events = events, !.crashed = @ \/ ~restarts])
      BY <1>4 DEF Die
    <2> DEFINE w == [wk[s] EXCEPT !.events = events, !.crashed = @ \/ ~restarts]
    <2>2. events \in Seq(Events)
      BY <1>2 DEF Events
    <2>3. w \in Workers /\ w.old = wk[s].old /\ w.new = wk[s].new /\ w.pc = wk[s].pc
      BY <1>0, <2>2 DEF Workers
    <2>4. SameOwners
      BY <1>0, <1>4, SetUpFacts DEF Die, MaybeSetUp, TypeOK
    <2> HIDE DEF w
    <2> QED BY <1>3, <1>4, <2>1, <2>3, <2>4 DEF Die, w
  <1>5. ASSUME NEW health \in {"healthy", "unhealthy"}, HealthTurns(s, health) PROVE Quiet(s)
    <2>1. PICK events \in Delivered(s, health) : Become(s, [wk[s] EXCEPT !.events = events])
      BY <1>5 DEF HealthTurns
    <2> DEFINE w == [wk[s] EXCEPT !.events = events]
    <2>2. events \in Seq(Events)
      BY <1>2 DEF Events
    <2>3. w \in Workers /\ w.old = wk[s].old /\ w.new = wk[s].new /\ w.pc = wk[s].pc
      BY <1>0, <2>2 DEF Workers
    <2>4. SameOwners
      BY <1>0, <1>5 DEF HealthTurns, SameOwners, TypeOK, Containers, Healths
    <2> HIDE DEF w
    <2> QED BY <1>3, <1>5, <2>1, <2>3, <2>4 DEF HealthTurns, w
  <1> QED BY <1>4, <1>5 DEF Environment

-----------------------------------------------------------------------------
(* Every kind of step keeps the invariant.                                 *)

LEMMA QuietInvariant ==
    ASSUME IInv, NEW s \in Services, Quiet(s)
    PROVE  IInv'
  <1> USE DEF Quiet, Frame, Works, Moves, SameOwners
  <1>0. /\ TypeOK /\ wk[s].old \in Ids /\ wk[s].new \in Ids
        /\ \A t \in Services : wk[t].old \in Ids /\ wk[t].new \in Ids
    BY WorkerFields DEF IInv
  <1>1. TypeOK'
    BY <1>0 DEF IInv, TypeOK, NewOwned
  <1>2. OldInPlace'
    BY <1>0 DEF IInv, OldInPlace, NewOwned, TypeOK, Uncreated, Swapping, Accepted, Discarding, Undoing
  <1>3. NewOwned'
    BY <1>0 DEF IInv, NewOwned, OldInPlace, TypeOK, Uncreated, Swapping, Accepted, Discarding, Undoing
  <1>4. Kept'
    BY <1>0 DEF IInv, Kept, NewOwned, OldInPlace, TypeOK, Uncreated, Swapping, Accepted, Discarding, Undoing
  <1> QED BY <1>1, <1>2, <1>3, <1>4 DEF IInv

LEMMA CreatesInvariant ==
    ASSUME IInv, NEW s \in Services, Creates(s)
    PROVE  IInv'
  <1> USE DEF Creates, Frame, Works, Moves
  <1>0. /\ TypeOK /\ wk[s].old \in Ids /\ wk[s].new \in Ids
        /\ \A t \in Services : wk[t].old \in Ids /\ wk[t].new \in Ids
    BY WorkerFields DEF IInv
  <1>1. TypeOK'
    BY <1>0 DEF IInv, TypeOK, NewOwned
  <1>2. OldInPlace'
    BY <1>0 DEF IInv, OldInPlace, NewOwned, TypeOK, Uncreated, Swapping, Accepted, Discarding, Undoing
  <1>3. NewOwned'
    BY <1>0 DEF IInv, NewOwned, OldInPlace, TypeOK, Uncreated, Swapping, Accepted, Discarding, Undoing
  <1>4. Kept'
    BY <1>0 DEF IInv, Kept, NewOwned, OldInPlace, TypeOK, Uncreated, Swapping, Accepted, Discarding, Undoing
  <1> QED BY <1>1, <1>2, <1>3, <1>4 DEF IInv

LEMMA RejectsInvariant ==
    ASSUME IInv, NEW s \in Services, Rejects(s)
    PROVE  IInv'
  <1> USE DEF Rejects, Frame, Works, Moves, SameOwners
  <1>0. /\ TypeOK /\ wk[s].old \in Ids /\ wk[s].new \in Ids
        /\ \A t \in Services : wk[t].old \in Ids /\ wk[t].new \in Ids
    BY WorkerFields DEF IInv
  <1>1. TypeOK'
    BY <1>0 DEF IInv, TypeOK, NewOwned
  <1>2. OldInPlace'
    BY <1>0 DEF IInv, OldInPlace, NewOwned, TypeOK, Uncreated, Swapping, Accepted, Discarding, Undoing
  <1>3. NewOwned'
    BY <1>0 DEF IInv, NewOwned, OldInPlace, TypeOK, Uncreated, Swapping, Accepted, Discarding, Undoing
  <1>4. Kept'
    BY <1>0 DEF IInv, Kept, NewOwned, OldInPlace, TypeOK, Uncreated, Swapping, Accepted, Discarding, Undoing
  <1> QED BY <1>1, <1>2, <1>3, <1>4 DEF IInv

LEMMA DiscardsInvariant ==
    ASSUME IInv, NEW s \in Services, Discards(s)
    PROVE  IInv'
  <1> USE DEF Discards, Frame, Works, Moves, SameOwners
  <1>0. /\ TypeOK /\ wk[s].old \in Ids /\ wk[s].new \in Ids
        /\ \A t \in Services : wk[t].old \in Ids /\ wk[t].new \in Ids
    BY WorkerFields DEF IInv
  <1>1. TypeOK'
    BY <1>0 DEF IInv, TypeOK, NewOwned
  <1>2. OldInPlace'
    BY <1>0 DEF IInv, OldInPlace, NewOwned, TypeOK, Uncreated, Swapping, Accepted, Discarding, Undoing
  <1>3. NewOwned'
    BY <1>0 DEF IInv, NewOwned, OldInPlace, TypeOK, Uncreated, Swapping, Accepted, Discarding, Undoing
  <1>4. Kept'
    BY <1>0 DEF IInv, Kept, NewOwned, OldInPlace, TypeOK, Uncreated, Swapping, Accepted, Discarding, Undoing
  <1> QED BY <1>1, <1>2, <1>3, <1>4 DEF IInv

LEMMA AcceptsInvariant ==
    ASSUME IInv, NEW s \in Services, Accepts(s)
    PROVE  IInv'
  <1> USE DEF Accepts, Frame, Works, Moves, SameOwners
  <1>0. /\ TypeOK /\ wk[s].old \in Ids /\ wk[s].new \in Ids
        /\ \A t \in Services : wk[t].old \in Ids /\ wk[t].new \in Ids
    BY WorkerFields DEF IInv
  <1>1. TypeOK'
    BY <1>0 DEF IInv, TypeOK, NewOwned
  <1>2. OldInPlace'
    BY <1>0 DEF IInv, OldInPlace, NewOwned, TypeOK, Uncreated, Swapping, Accepted, Discarding, Undoing
  <1>3. NewOwned'
    BY <1>0 DEF IInv, NewOwned, OldInPlace, TypeOK, Uncreated, Swapping, Accepted, Discarding, Undoing
  <1>4. Kept'
    BY <1>0 DEF IInv, Kept, NewOwned, OldInPlace, TypeOK, Uncreated, Swapping, Accepted, Discarding, Undoing
  <1> QED BY <1>1, <1>2, <1>3, <1>4 DEF IInv

LEMMA LosesInvariant ==
    ASSUME IInv, NEW s \in Services, Loses(s)
    PROVE  IInv'
  <1> USE DEF Loses, Works, Moves, SameOwners
  <1>0. /\ TypeOK /\ wk[s].old \in Ids /\ wk[s].new \in Ids
        /\ \A t \in Services : wk[t].old \in Ids /\ wk[t].new \in Ids
    BY WorkerFields DEF IInv
  <1>1. TypeOK'
    BY <1>0 DEF IInv, TypeOK, NewOwned
  <1>2. OldInPlace'
    BY <1>0 DEF IInv, OldInPlace, NewOwned, TypeOK, Uncreated, Swapping, Accepted, Discarding, Undoing
  <1>3. NewOwned'
    BY <1>0 DEF IInv, NewOwned, OldInPlace, TypeOK, Uncreated, Swapping, Accepted, Discarding, Undoing
  <1>4. Kept'
    BY <1>0 DEF IInv, Kept, NewOwned, OldInPlace, TypeOK, Uncreated, Swapping, Accepted, Discarding, Undoing
  <1> QED BY <1>1, <1>2, <1>3, <1>4 DEF IInv

LEMMA BeginInvariant ==
    ASSUME IInv, NEW s \in Services, NEW i \in Ids, NEW kind \in Kinds,
           NEW verify \in BOOLEAN, Begin(s, i, kind, verify)
    PROVE  IInv'
  <1> DEFINE w == [Idle(s) EXCEPT !.pc = FirstStep(kind), !.kind = kind,
                                  !.verify = verify, !.old = i, !.new = FreshId,
                                  !.name = cont[i].tail]
  <1>0. TypeOK /\ \A t \in Services : wk[t].old \in Ids /\ wk[t].new \in Ids
    BY WorkerFields DEF IInv
  <1>1. FreshId \in Ids /\ FreshId \notin used
    BY <1>0, FreshIdType DEF Begin, TypeOK
  <1>2. FirstStep(kind) \in Steps /\ FirstStep(kind) \in Uncreated
    BY DEF FirstStep, Kinds, Steps, Uncreated
  <1>3. cont[i].tail \in Seq(Ids)
    BY <1>0 DEF TypeOK, Containers
  <1>4. w \in Workers
    BY <1>1, <1>2, <1>3, IdleType DEF Workers
  <1>5. w.old = i /\ w.new = FreshId /\ w.pc = FirstStep(kind)
    BY IdleType DEF Workers
  <1>6. Become(s, w)
    BY DEF Begin
  <1> HIDE DEF w
  <1>7. /\ wk' \in [Services -> Workers]
        /\ wk'[s].old = i /\ wk'[s].new = FreshId /\ wk'[s].pc \in Uncreated
        /\ \A t \in Services : t # s => wk'[t] = wk[t]
    BY <1>0, <1>2, <1>4, <1>5, <1>6, BecomeFacts DEF TypeOK
  <1>8. /\ wk[s].pc = "idle" /\ i \in present /\ cont[i].svc = s
        /\ used' = used \cup {FreshId}
        /\ present' = present /\ cont' = cont /\ rejected' = rejected
        /\ vanished' = vanished
    BY DEF Begin
  <1> HIDE DEF FreshId
  <1>9. TypeOK'
    BY <1>0, <1>1, <1>7, <1>8 DEF TypeOK
  <1>10. OldInPlace'
    BY <1>0, <1>7, <1>8 DEF IInv, OldInPlace
  <1>11. NewOwned'
    BY <1>0, <1>1, <1>7, <1>8
       DEF IInv, NewOwned, TypeOK, Uncreated, Swapping, Accepted, Discarding, Undoing
  <1>12. Kept'
    BY <1>0, <1>1, <1>7, <1>8 DEF IInv, Kept, TypeOK
  <1> QED BY <1>9, <1>10, <1>11, <1>12 DEF IInv

LEMMA CrashInvariant ==
    ASSUME IInv, Crash
    PROVE  IInv'
  <1>1. /\ present' = present /\ cont' = cont /\ used' = used /\ rejected' = rejected
        /\ vanished' = vanished
        /\ wk' \in [Services -> Workers]
    BY IdleType DEF Crash
  <1>2. \A s \in Services : wk'[s].pc = "idle"
    BY DEF Crash, Idle
  <1>3. TypeOK'
    BY <1>1 DEF IInv, TypeOK
  <1> QED BY <1>1, <1>2, <1>3 DEF IInv, OldInPlace, NewOwned, Kept

LEMMA StutterInvariant ==
    ASSUME IInv, UNCHANGED vars
    PROVE  IInv'
  BY DEF vars, IInv, TypeOK, OldInPlace, NewOwned, Kept

LEMMA InitInvariant == Init => IInv
  <1> SUFFICES ASSUME Init PROVE IInv
    OBVIOUS
  <1>1. TypeOK
    BY InitTypeOK
  <1>2. \A s \in Services : wk[s].pc = "idle"
    BY DEF Init, Idle
  <1>3. \A s \in Services : cont[Original[s]].svc = s
    <2> SUFFICES ASSUME NEW s \in Services PROVE cont[Original[s]].svc = s
      OBVIOUS
    <2>1. Original[s] \in Ids /\ Original[s] \in present
      BY ReplaceAssumption DEF Init
    <2>2. (CHOOSE t \in Services : Original[t] = Original[s]) = s
      BY ReplaceAssumption
    <2> QED BY <2>1, <2>2 DEF Init
  <1>4. Kept
    BY <1>2, <1>3 DEF Kept, Init
  <1> QED BY <1>1, <1>2, <1>4 DEF IInv, OldInPlace, NewOwned

LEMMA NextInvariant == IInv /\ [Next]_vars => IInv'
  <1> SUFFICES ASSUME IInv, [Next]_vars PROVE IInv'
    OBVIOUS
  <1>0. TypeOK
    BY DEF IInv
  <1>1. CASE UNCHANGED vars
    BY <1>1, StutterInvariant
  <1>2. CASE Crash
    BY <1>2, CrashInvariant
  <1>3. ASSUME NEW s \in Services, NEW i \in Ids, NEW kind \in Kinds,
               NEW verify \in BOOLEAN, Begin(s, i, kind, verify)
        PROVE  IInv'
    BY <1>3, BeginInvariant
  <1>4. ASSUME NEW s \in Services, Environment(s) PROVE IInv'
    BY <1>0, <1>4, EnvironmentKind, QuietInvariant
  <1>5. ASSUME NEW s \in Services, WorkerStep(s) PROVE IInv'
    <2>1. CASE SweepList(s) \/ SweepOne(s) \/ SweepDone(s)
      BY <1>0, <2>1, SweepKinds, QuietInvariant
    <2>2. CASE Inspect(s)
      BY <1>0, <2>2, InspectKind, QuietInvariant
    <2>3. CASE \/ Pull(s) \/ Stop(s) \/ Unstop(s) \/ Rollback(s) \/ RestartOld(s)
               \/ Rename(s) \/ Relist(s)
      BY <1>0, <2>3, QuietKinds, QuietInvariant
    <2>4. CASE CreateCold(s) \/ Create(s)
      BY <1>0, <2>4, CreateKinds, QuietInvariant, CreatesInvariant
    <2>5. CASE DropCold(s) \/ Drop(s) \/ UndoNew(s)
      BY <1>0, <2>5, DiscardKinds, DiscardsInvariant
    <2>6. CASE Start(s) \/ Check(s) \/ AwaitEvent(s) \/ AwaitTimer(s) \/ Labels(s)
      BY <1>0, <2>6, VerifyKinds, QuietInvariant, RejectsInvariant
    <2>7. CASE RemoveCold(s) \/ RemoveOld(s)
      BY <1>0, <2>7, AcceptKinds, AcceptsInvariant, RejectsInvariant, LosesInvariant
    <2> QED BY <1>5, <2>1, <2>2, <2>3, <2>4, <2>5, <2>6, <2>7 DEF WorkerStep
  <1> QED BY <1>1, <1>2, <1>3, <1>4, <1>5 DEF Next

-----------------------------------------------------------------------------

(* The types hold in every reachable state of every update workload.       *)
THEOREM TypeCorrect == Spec => []TypeOK
  <1>1. IInv => TypeOK
    BY DEF IInv
  <1> QED BY <1>1, InitInvariant, NextInvariant, PTL DEF Spec

(***************************************************************************)
(* Whatever daemon call of ContainerRecreateWithOptions fails, wherever    *)
(* Dockman crashes and whatever other services are doing, a service keeps  *)
(* a container that no update has given up on, unless the removal of its   *)
(* old one took effect and reported an error.                              *)
(***************************************************************************)
THEOREM ServiceNeverLost == Spec => []ServiceKept
  <1>1. IInv => ServiceKept
    BY DEF IInv, Kept, ServiceKept
  <1> QED BY <1>1, InitInvariant, NextInvariant, PTL DEF Spec

-----------------------------------------------------------------------------
(***************************************************************************)
(* The second invariant follows one worker.  What it knows of its two      *)
(* containers stays true because no other worker starts, stops or removes  *)
(* them: the containers two workers hold are apart, also those a worker    *)
(* that returned has reported on.  A sweep may rename them, no more.       *)
(***************************************************************************)
Holds(s) == {wk[s].old, wk[s].new}

Apart == \A s, t \in Services : s # t => Holds(s) \cap Holds(t) = {}

HeldOwned == \A s \in Services :
    Holds(s) \subseteq used /\ \A i \in Holds(s) \cap present : cont[i].svc = s

(* The containers a service was deployed with are never somebody's         *)
(* replacement: a worker that starts over after a crash holds them.        *)
FirstOwned == \A t \in Services :
    /\ Original[t] \in used
    /\ Original[t] \in present => cont[Original[t]].svc = t
    /\ \A s \in Services : wk[s].pc # "idle" => wk[s].new # Original[t]

(* From the stop of the container, or the sight of a stopped one, to its   *)
(* removal or restart.                                                     *)
OldDown(s) ==
    wk[s].pc \in {"createCold", "removeCold", "dropCold", "create", "start",
                  "check", "await", "labels", "removeOld"}
    => ~cont[wk[s].old].up

(* A replacement that failed is gone, or known to be left.                 *)
GivenUp(s) ==
    wk[s].pc \in Discarding \cup {"rollback", "restartOld"}
    => wk[s].new \notin present \/ wk[s].new \in rejected

(* Only an update of a running container is hot.                           *)
Cold(s) ==
    wk[s].pc \in {"list", "sweep", "pull", "inspect", "createCold", "removeCold", "dropCold"}
    => ~wk[s].hot

(* A replacement that crashed for good is down until the verdict; the      *)
(* verdict looks at it, unless its health check has spoken.                *)
CrashNoted(s) ==
    /\ wk[s].pc \in Uncreated \cup {"start", "removeCold"} => ~wk[s].crashed
    /\ wk[s].pc \in {"check", "await"} /\ wk[s].crashed => ~cont[wk[s].new].up
    /\ /\ wk[s].pc \in {"labels", "removeOld", "rename", "relist"}
       /\ cont[wk[s].new].health = "none"
       => ~wk[s].crashed

Alone(s) ==
    /\ wk[s].old # wk[s].new
    /\ Holds(s) \subseteq present
    /\ cont[wk[s].old].up /\ cont[wk[s].new].up
    => wk[s].new \in rejected

Told(s) ==
    wk[s].pc = "idle" =>
      /\ wk[s].verdict \in {"current", "untouched", "rolled_back", "kept"} => wk[s].old \in present
      /\ wk[s].verdict = "rolled_back" => cont[wk[s].old].up
      /\ wk[s].verdict = "kept" /\ wk[s].hot => cont[wk[s].old].up

Sound(s) == OldDown(s) /\ GivenUp(s) /\ Cold(s) /\ CrashNoted(s) /\ Alone(s) /\ Told(s)

HeldInv == Apart /\ HeldOwned /\ FirstOwned /\ \A s \in Services : Sound(s)

(* A container looks the same to everyone but for its name.                *)
Same(i) ==
    /\ cont'[i].svc = cont[i].svc
    /\ cont'[i].up = cont[i].up
    /\ cont'[i].health = cont[i].health

(* A step that concerns the containers its worker holds, and no other.     *)
Within(s) ==
    /\ used' = used
    /\ wk'[s].old = wk[s].old /\ wk'[s].new = wk[s].new
    /\ \A t \in Services : t # s => wk'[t] = wk[t]
    /\ \A i \in Ids \ Holds(s) :
         Same(i) /\ (i \in present' <=> i \in present) /\ (i \in rejected' <=> i \in rejected)
    /\ \A i \in Holds(s) \cap present' :
         \/ i \in present /\ cont'[i].svc = cont[i].svc
         \/ i = wk[s].new /\ cont'[i].svc = s

(* The other workers do not notice such a step.                            *)
LEMMA WithinKeeps ==
  ASSUME TypeOK, HeldInv, NEW s \in Services, wk[s].pc # "idle", Within(s), Sound(s)'
  PROVE  HeldInv'
<1>1. \A t \in Services : Holds(t)' = Holds(t) /\ Holds(t) \subseteq Ids
  BY WorkerFields DEF Within, Holds
<1>2. Apart'
  BY <1>1 DEF HeldInv, Apart
<1>3. ASSUME NEW t \in Services, t # s
      PROVE  \A i \in Holds(t) : /\ i \in Ids /\ Same(i)
                                 /\ i \in present' <=> i \in present
                                 /\ i \in rejected' <=> i \in rejected
  BY <1>1, <1>3 DEF HeldInv, Apart, Within
<1>4. HeldOwned'
  <2> SUFFICES ASSUME NEW t \in Services
               PROVE  /\ Holds(t) \subseteq used'
                      /\ \A i \in Holds(t) \cap present' : cont'[i].svc = t
    BY <1>1 DEF HeldOwned
  <2>1. CASE t = s  BY <2>1 DEF Within, HeldInv, HeldOwned
  <2>2. CASE t # s  BY <1>3, <2>2 DEF Within, HeldInv, HeldOwned, Same
  <2> QED  BY <2>1, <2>2
<1>5. ASSUME NEW t \in Services, t # s PROVE Sound(t)'
  <2>1. wk'[t] = wk[t]
    BY <1>5 DEF Within
  <2>2. Same(wk[t].old) /\ Same(wk[t].new)
    BY <1>3, <1>5 DEF Holds
  <2>3. /\ wk[t].old \in present' <=> wk[t].old \in present
        /\ wk[t].new \in present' <=> wk[t].new \in present
        /\ wk[t].new \in rejected' <=> wk[t].new \in rejected
    BY <1>3, <1>5 DEF Holds
  <2>4. Sound(t)
    BY DEF HeldInv
  <2>5. OldDown(t)' /\ GivenUp(t)' /\ Cold(t)'
    BY <2>1, <2>2, <2>3, <2>4 DEF Sound, OldDown, GivenUp, Cold, Same
  <2>6. CrashNoted(t)'
    BY <2>1, <2>2, <2>4 DEF Sound, CrashNoted, Same
  <2>7. Alone(t)' /\ Told(t)'
    BY <2>1, <2>2, <2>3, <2>4 DEF Sound, Alone, Told, Same, Holds
  <2> QED  BY <2>5, <2>6, <2>7 DEF Sound
<1>6. FirstOwned'
  <2> SUFFICES ASSUME NEW t \in Services
               PROVE  /\ Original[t] \in used'
                      /\ Original[t] \in present' => cont'[Original[t]].svc = t
                      /\ \A u \in Services : wk'[u].pc # "idle" => wk'[u].new # Original[t]
    BY DEF FirstOwned
  <2>1. /\ Original[t] \in used /\ Original[t] \in Ids
        /\ Original[t] \in present => cont[Original[t]].svc = t
        /\ \A u \in Services : wk[u].pc # "idle" => wk[u].new # Original[t]
    BY ReplaceAssumption DEF HeldInv, FirstOwned
  <2>2. CASE Original[t] \in Holds(s)  BY <2>1, <2>2 DEF Within
  <2>3. CASE Original[t] \notin Holds(s)  BY <2>1, <2>3 DEF Within, Same
  <2> QED  BY <2>2, <2>3
<1> QED  BY <1>2, <1>4, <1>5, <1>6 DEF HeldInv

(* The worker goes on with what it knows, or returns with a verdict.       *)
GoesOn(s, pc) ==
    /\ wk'[s].pc = pc /\ wk'[s].old = wk[s].old /\ wk'[s].new = wk[s].new
    /\ wk'[s].hot = wk[s].hot /\ wk'[s].crashed = wk[s].crashed
    /\ \A t \in Services : t # s => wk'[t] = wk[t]

Returns(s, verdict) ==
    /\ wk'[s].pc = "idle" /\ wk'[s].old = wk[s].old /\ wk'[s].new = wk[s].new
    /\ wk'[s].hot = wk[s].hot /\ wk'[s].verdict = verdict
    /\ \A t \in Services : t # s => wk'[t] = wk[t]

(* A worker that becomes another one with the same knowledge goes on.      *)
LEMMA BecomeGoes ==
  ASSUME TypeOK, NEW s \in Services, NEW w \in Workers, Become(s, w),
         w.old = wk[s].old, w.new = wk[s].new, w.hot = wk[s].hot, w.crashed = wk[s].crashed
  PROVE  GoesOn(s, w.pc)
  BY BecomeFacts DEF TypeOK, GoesOn

(* Goto and the verdicts of a check go on.                                 *)
LEMMA GoesFacts ==
  ASSUME TypeOK, NEW s \in Services
  PROVE  /\ \A pc \in Steps : Goto(s, pc) => GoesOn(s, pc)
         /\ Verified(s) => GoesOn(s, "labels")
         /\ Reject(s) => GoesOn(s, "drop") /\ rejected' = rejected \cup {wk[s].new}
<1>0. wk[s] \in Workers /\ <<>> \in Seq(Events)
  BY DEF TypeOK
<1>1. ASSUME NEW pc \in Steps, Goto(s, pc) PROVE GoesOn(s, pc)
  <2> DEFINE w == [wk[s] EXCEPT !.pc = pc]
  <2>1. /\ w \in Workers /\ w.old = wk[s].old /\ w.new = wk[s].new /\ w.hot = wk[s].hot
        /\ w.crashed = wk[s].crashed /\ w.pc = pc
    BY <1>0 DEF Workers
  <2>2. Become(s, w)
    BY <1>1 DEF Goto
  <2> HIDE DEF w
  <2> QED  BY <2>1, <2>2, BecomeGoes
<1>2. ASSUME NEW pc \in {"labels", "drop"}, Become(s, [wk[s] EXCEPT !.pc = pc, !.events = <<>>])
      PROVE  GoesOn(s, pc)
  <2> DEFINE w == [wk[s] EXCEPT !.pc = pc, !.events = <<>>]
  <2>1. /\ w \in Workers /\ w.old = wk[s].old /\ w.new = wk[s].new /\ w.hot = wk[s].hot
        /\ w.crashed = wk[s].crashed /\ w.pc = pc
    BY <1>0 DEF Workers, Steps
  <2>2. Become(s, w)
    BY <1>2
  <2> HIDE DEF w
  <2> QED  BY <2>1, <2>2, BecomeGoes
<1> QED  BY <1>1, <1>2 DEF Verified, Reject

(* Finish and Report return.                                               *)
LEMMA ReturnFacts ==
  ASSUME TypeOK, NEW s \in Services, NEW verdict \in Verdicts
  PROVE  /\ \A told \in BOOLEAN : Report(s, verdict, told) => Returns(s, verdict)
         /\ Finish(s, verdict) => Returns(s, verdict)
<1>1. ASSUME NEW told \in BOOLEAN, Report(s, verdict, told) PROVE Returns(s, verdict)
  <2> DEFINE w == [Idle(s) EXCEPT !.hot = wk[s].hot, !.old = wk[s].old, !.new = wk[s].new,
                                  !.told = told, !.verdict = verdict]
  <2>0. wk[s] \in Workers
    BY DEF TypeOK
  <2>1. /\ w \in Workers /\ w.pc = "idle" /\ w.hot = wk[s].hot /\ w.old = wk[s].old
        /\ w.new = wk[s].new /\ w.verdict = verdict
    <3>1. Idle(s).pc = "idle"  BY DEF Idle
    <3> QED  BY <2>0, <3>1, IdleType DEF Workers
  <2>2. Become(s, w)
    BY <1>1 DEF Report
  <2> HIDE DEF w
  <2> QED  BY <2>1, <2>2, BecomeFacts DEF TypeOK, Returns
<1>2. wk[s].told \in BOOLEAN
  BY DEF TypeOK, Workers
<1> QED  BY <1>1, <1>2 DEF Finish

(* A start or a stop changes one container.                                *)
LEMMA SwitchFacts ==
  ASSUME TypeOK, NEW i \in Ids, NEW up \in BOOLEAN
  PROVE  /\ SetUp(i, up) => cont'[i].up = up
         /\ MaybeSetUp(i, up) => /\ cont'[i].up \in {cont[i].up, up}
                                 /\ cont'[i].health = cont[i].health
                                 /\ \A j \in Ids : cont'[j].svc = cont[j].svc
                                 /\ \A j \in Ids \ {i} : Same(j)
         /\ SetUp(i, up) => MaybeSetUp(i, up)
<1> DEFINE c == [cont[i] EXCEPT !.up = up]
<1>1. /\ c.up = up /\ c.svc = cont[i].svc /\ c.health = cont[i].health
      /\ cont \in [Ids -> Containers]
  BY DEF TypeOK, Containers
<1>2. SetUp(i, up) => cont' = [cont EXCEPT ![i] = c]
  BY DEF SetUp
<1> HIDE DEF c
<1>3. SetUp(i, up) => /\ cont'[i] = c
                      /\ \A j \in Ids \ {i} : cont'[j] = cont[j]
  BY <1>1, <1>2
<1> QED  BY <1>1, <1>3 DEF MaybeSetUp, Same

(* A rename changes nothing but the name.                                  *)
LEMMA NameFacts ==
  ASSUME TypeOK, NEW i \in Ids, NEW q, cont' = [cont EXCEPT ![i].tail = q]
  PROVE  \A j \in Ids : Same(j)
<1> DEFINE c == [cont[i] EXCEPT !.tail = q]
<1>1. /\ c.up = cont[i].up /\ c.svc = cont[i].svc /\ c.health = cont[i].health
      /\ cont \in [Ids -> Containers] /\ cont' = [cont EXCEPT ![i] = c]
  BY DEF TypeOK, Containers
<1> HIDE DEF c
<1> QED  BY <1>1 DEF Same

(* A replacement is created stopped.                                       *)
LEMMA BornFacts ==
  ASSUME TypeOK, NEW s \in Services, CreateReplacement(s)
  PROVE  /\ present' = present \cup {wk[s].new}
         /\ cont'[wk[s].new].svc = s /\ cont'[wk[s].new].up = FALSE
         /\ \A j \in Ids \ {wk[s].new} : Same(j)
<1>1. PICK h \in {"none", "starting"} :
        cont' = [cont EXCEPT ![wk[s].new] =
                   [svc |-> s, tail |-> Append(wk[s].name, wk[s].new), up |-> FALSE, health |-> h]]
  BY DEF CreateReplacement
<1>2. wk[s].new \in Ids /\ cont \in [Ids -> Containers]
  BY WorkerFields DEF TypeOK
<1>3. /\ cont'[wk[s].new].svc = s /\ cont'[wk[s].new].up = FALSE
      /\ \A j \in Ids \ {wk[s].new} : cont'[j] = cont[j]
  BY <1>1, <1>2
<1> QED  BY <1>3 DEF CreateReplacement, Same

-----------------------------------------------------------------------------
(* Every action of a worker stays within what it holds, and stays sound.   *)
Stays(s) == Within(s) /\ Sound(s)'

(* Nothing happens to any container.                                       *)
Untouched == UNCHANGED <<present, used, rejected>> /\ \A i \in Ids : Same(i)

(* Nothing but the worker, or the container it starts or stops, changes.   *)
Switches(i) ==
    /\ UNCHANGED <<present, used>>
    /\ \A j \in Ids : cont'[j].svc = cont[j].svc
    /\ \A j \in Ids \ {i} : Same(j)

(* A worker at work holds two containers.                                  *)
LEMMA BusyFacts ==
  ASSUME IInv, HeldInv, NEW s \in Services, wk[s].pc # "idle"
  PROVE  /\ TypeOK /\ wk[s].old \in Ids /\ wk[s].new \in Ids /\ wk[s].new # wk[s].old
         /\ wk[s].pc \notin Accepted \cup Undoing => wk[s].old \in present
         /\ wk[s].pc \in Uncreated => wk[s].new \notin present
         /\ wk[s].hot \in BOOLEAN /\ wk[s].crashed \in BOOLEAN /\ Sound(s)
<1>1. TypeOK /\ Sound(s)
  BY DEF IInv, HeldInv
<1>2. wk[s].old \in Ids /\ wk[s].new \in Ids /\ wk[s].hot \in BOOLEAN /\ wk[s].crashed \in BOOLEAN
  BY <1>1 DEF TypeOK, Workers
<1>3. wk[s].pc \notin Accepted \cup Undoing => wk[s].old \in present
  BY DEF IInv, OldInPlace
<1>4. wk[s].new # wk[s].old /\ (wk[s].pc \in Uncreated => wk[s].new \notin present)
  BY DEF IInv, NewOwned
<1> QED  BY <1>1, <1>2, <1>3, <1>4

(* The part of each step that is about the other workers.                  *)
LEMMA WithinFacts ==
  ASSUME NEW s \in Services, NEW x, GoesOn(s, x) \/ Returns(s, x),
         wk[s].old \in Ids, wk[s].new \in Ids
  PROVE  /\ Untouched => Within(s)
         /\ \A i \in Holds(s) :
              Switches(i) /\ rejected' \in {rejected, rejected \cup {wk[s].new}} => Within(s)
         /\ /\ \A i \in Ids : Same(i)
            /\ UNCHANGED used
            /\ \E i \in Holds(s) : present' \in {present, present \ {i}}
            /\ rejected' \in {rejected, rejected \cup {wk[s].new}}
            => Within(s)
<1>1. /\ wk'[s].old = wk[s].old /\ wk'[s].new = wk[s].new
      /\ \A t \in Services : t # s => wk'[t] = wk[t]
  BY DEF GoesOn, Returns
<1>2. Untouched => Within(s)
  BY <1>1 DEF Untouched, Within, Same, Holds
<1>3. ASSUME NEW i \in Holds(s), Switches(i),
             rejected' \in {rejected, rejected \cup {wk[s].new}}
      PROVE  Within(s)
  BY <1>1, <1>3 DEF Switches, Within, Same, Holds
<1>4. ASSUME \A i \in Ids : Same(i), UNCHANGED used,
             NEW i \in Holds(s), present' \in {present, present \ {i}},
             rejected' \in {rejected, rejected \cup {wk[s].new}}
      PROVE  Within(s)
  BY <1>1, <1>4 DEF Within, Same, Holds
<1> QED  BY <1>2, <1>3, <1>4

(* Steps that only look.                                                   *)
LEMMA LooksStays ==
  ASSUME IInv, HeldInv, NEW s \in Services, NEW pc, GoesOn(s, pc), Untouched,
         \/ wk[s].pc \in {"list", "sweep", "pull"} /\ pc \in {"sweep", "pull", "inspect"}
         \/ wk[s].pc = "inspect" /\ pc = "createCold" /\ ~cont[wk[s].old].up
         \/ wk[s].pc = "create" /\ pc = "rollback"
         \/ wk[s].pc \in {"check", "await"} /\ pc = "await"
         \/ wk[s].pc \in {"check", "await"} /\ pc = "labels"
            /\ (cont[wk[s].new].up \/ cont[wk[s].new].health # "none")
         \/ wk[s].pc = "labels" /\ pc = "removeOld"
         \/ wk[s].pc = "rename" /\ pc = "relist"
  PROVE  Stays(s)
<1>1. /\ wk[s].old \in Ids /\ wk[s].new \in Ids /\ Sound(s)
      /\ wk[s].pc = "create" => wk[s].new \notin present
  BY BusyFacts DEF Uncreated
<1>2. Within(s)
  BY <1>1, WithinFacts
<1>3. /\ wk'[s].pc = pc /\ wk'[s].old = wk[s].old /\ wk'[s].new = wk[s].new
      /\ wk'[s].hot = wk[s].hot /\ wk'[s].crashed = wk[s].crashed
      /\ present' = present /\ rejected' = rejected
      /\ cont'[wk[s].old].up = cont[wk[s].old].up /\ cont'[wk[s].new].up = cont[wk[s].new].up
      /\ cont'[wk[s].new].health = cont[wk[s].new].health
  BY <1>1 DEF GoesOn, Untouched, Same
<1>4. OldDown(s)' /\ GivenUp(s)' /\ Cold(s)'
  BY <1>1, <1>3 DEF Sound, OldDown, GivenUp, Cold, Discarding
<1>5. CrashNoted(s)'
  BY <1>1, <1>3 DEF Sound, CrashNoted, Uncreated
<1>6. Alone(s)' /\ Told(s)'
  BY <1>1, <1>3 DEF Sound, Alone, Told, Holds
<1> QED  BY <1>2, <1>4, <1>5, <1>6 DEF Stays, Sound

(* A worker that returns is judged by what it says.                        *)
LEMMA ReturnSound ==
  ASSUME NEW s \in Services, NEW verdict, Returns(s, verdict), Alone(s)',
         /\ verdict \in {"current", "untouched", "rolled_back", "kept"} => wk[s].old \in present'
         /\ verdict = "rolled_back" => cont'[wk[s].old].up
         /\ verdict = "kept" /\ wk[s].hot => cont'[wk[s].old].up
  PROVE  Sound(s)'
<1>1. /\ wk'[s].pc = "idle" /\ wk'[s].old = wk[s].old /\ wk'[s].hot = wk[s].hot
      /\ wk'[s].verdict = verdict
  BY DEF Returns
<1>2. OldDown(s)' /\ GivenUp(s)' /\ Cold(s)'
  BY <1>1 DEF OldDown, GivenUp, Cold, Discarding
<1>3. CrashNoted(s)' /\ Told(s)'
  BY <1>1 DEF CrashNoted, Uncreated, Told
<1> QED  BY <1>2, <1>3 DEF Sound

(* A worker that returns without touching a container.                     *)
LEMMA QuietReturn ==
  ASSUME IInv, HeldInv, NEW s \in Services, wk[s].pc # "idle", NEW verdict,
         Returns(s, verdict), Untouched,
         verdict \in {"current", "untouched", "kept"} => wk[s].pc \notin Accepted \cup Undoing,
         verdict = "kept" => ~wk[s].hot,
         verdict # "rolled_back"
  PROVE  Stays(s)
<1>1. /\ wk[s].old \in Ids /\ wk[s].new \in Ids /\ Sound(s)
      /\ wk[s].pc \notin Accepted \cup Undoing => wk[s].old \in present
  BY BusyFacts
<1>2. Within(s)
  BY <1>1, WithinFacts
<1>3. Alone(s)'
  BY <1>1 DEF Sound, Alone, Untouched, Returns, Same, Holds
<1> QED  BY <1>1, <1>2, <1>3, ReturnSound DEF Stays, Untouched

(* The sweep renames containers of others, and that is all.                *)
LEMMA SweepStays ==
  ASSUME IInv, HeldInv, NEW s \in Services, SweepList(s) \/ SweepOne(s) \/ SweepDone(s)
  PROVE  Stays(s)
<1>0. TypeOK /\ wk[s] \in Workers /\ wk[s].pc \in {"list", "sweep"}
  BY DEF IInv, TypeOK, SweepList, SweepOne, SweepDone
<1>1. cont[wk[s].old].tail \in Seq(Ids)
  BY <1>0, WorkerFields DEF TypeOK, Containers
<1>2. cont' = cont => \A i \in Ids : Same(i)
  BY DEF Same
<1>3. ASSUME NEW w \in Workers, Become(s, w), Untouched, w.pc \in {"sweep", "pull"},
             w.old = wk[s].old, w.new = wk[s].new, w.hot = wk[s].hot, w.crashed = wk[s].crashed
      PROVE  Stays(s)
  BY <1>0, <1>3, BecomeGoes, LooksStays
<1>4. CASE SweepList(s)
  <2> DEFINE todo == {[id |-> i, svc |-> cont[i].svc, tail |-> cont[i].tail] :
                                i \in {j \in present : cont[j].tail # <<>>}}
             taken == {<<cont[i].svc, cont[i].tail>> : i \in present}
             v == [wk[s] EXCEPT !.pc = "sweep", !.todo = todo, !.taken = taken]
             w == [wk[s] EXCEPT !.pc = "pull", !.name = cont[wk[s].old].tail]
  <2>1. todo \in SUBSET [id : Ids, svc : Services, tail : Seq(Ids)]
    BY <1>0 DEF TypeOK, Containers
  <2>2. taken \in SUBSET Names
    BY <1>0 DEF TypeOK, Containers, Names
  <2>3. (Become(s, v) \/ Become(s, w)) /\ Untouched
    BY <1>2, <1>4 DEF SweepList, Untouched
  <2> HIDE DEF todo, taken
  <2>4. /\ v \in Workers /\ v.pc = "sweep" /\ v.old = wk[s].old /\ v.new = wk[s].new
        /\ v.hot = wk[s].hot /\ v.crashed = wk[s].crashed
    BY <1>0, <2>1, <2>2 DEF Workers, Steps
  <2>5. /\ w \in Workers /\ w.pc = "pull" /\ w.old = wk[s].old /\ w.new = wk[s].new
        /\ w.hot = wk[s].hot /\ w.crashed = wk[s].crashed
    BY <1>0, <1>1 DEF Workers, Steps
  <2> HIDE DEF v, w
  <2> QED  BY <1>3, <2>3, <2>4, <2>5
<1>5. CASE SweepOne(s)
  <2>1. PICK item \in wk[s].todo :
          LET front   == SubSeq(item.tail, 1, Len(item.tail) - 1)
              target  == <<item.svc, front>>
          IN  \/ Become(s, [wk[s] EXCEPT !.todo = @ \ {item}]) /\ UNCHANGED cont
              \/ /\ cont' = [cont EXCEPT ![item.id].tail = front]
                 /\ Become(s, [wk[s] EXCEPT
                       !.todo = @ \ {item},
                       !.taken = (@ \ {<<item.svc, item.tail>>}) \cup {target}])
    BY <1>5 DEF SweepOne
  <2> DEFINE front == SubSeq(item.tail, 1, Len(item.tail) - 1)
             v == [wk[s] EXCEPT !.todo = @ \ {item}]
             w == [wk[s] EXCEPT !.todo = @ \ {item},
                     !.taken = (@ \ {<<item.svc, item.tail>>}) \cup {<<item.svc, front>>}]
  <2>2. item \in [id : Ids, svc : Services, tail : Seq(Ids)]
    BY <1>0 DEF Workers
  <2>3. front \in Seq(Ids)
    BY <2>2, FrontType
  <2>4. \/ Become(s, v) /\ cont' = cont
        \/ Become(s, w) /\ cont' = [cont EXCEPT ![item.id].tail = front]
    BY <2>1
  <2> HIDE DEF front
  <2>5. <<item.svc, front>> \in Names
    BY <2>2, <2>3 DEF Names
  <2>6. /\ v \in Workers /\ v.pc = wk[s].pc /\ v.old = wk[s].old /\ v.new = wk[s].new
        /\ v.hot = wk[s].hot /\ v.crashed = wk[s].crashed
    BY <1>0 DEF Workers
  <2>7. /\ w \in Workers /\ w.pc = wk[s].pc /\ w.old = wk[s].old /\ w.new = wk[s].new
        /\ w.hot = wk[s].hot /\ w.crashed = wk[s].crashed
    BY <1>0, <2>5 DEF Workers
  <2>8. (\A i \in Ids : Same(i)) /\ wk[s].pc = "sweep" /\ UNCHANGED <<present, used, rejected>>
    BY <1>0, <1>2, <1>5, <2>2, <2>4, NameFacts DEF SweepOne
  <2> HIDE DEF v, w
  <2> QED  BY <1>3, <2>4, <2>6, <2>7, <2>8 DEF Untouched
<1>6. CASE SweepDone(s)
  <2> DEFINE w == [wk[s] EXCEPT !.pc = "pull", !.taken = {}, !.name = cont[wk[s].old].tail]
  <2>1. /\ w \in Workers /\ w.pc = "pull" /\ w.old = wk[s].old /\ w.new = wk[s].new
        /\ w.hot = wk[s].hot /\ w.crashed = wk[s].crashed
    BY <1>0, <1>1 DEF Workers, Steps
  <2>2. Become(s, w) /\ Untouched
    BY <1>2, <1>6 DEF SweepDone, Untouched
  <2> HIDE DEF w
  <2> QED  BY <1>3, <2>1, <2>2
<1> QED  BY <1>4, <1>5, <1>6

(* Up to the first change.                                                 *)
LEMMA BeforeStays ==
  ASSUME IInv, HeldInv, NEW s \in Services, Pull(s) \/ Inspect(s) PROVE Stays(s)
<1>0. /\ TypeOK /\ wk[s] \in Workers /\ wk[s].pc \in {"pull", "inspect"}
      /\ UNCHANGED <<present, cont, used, rejected>>
  BY DEF IInv, TypeOK, Pull, Inspect
<1>1. Untouched
  BY <1>0 DEF Untouched, Same
<1>2. ASSUME NEW verdict \in {"untouched", "current"}, Finish(s, verdict) PROVE Stays(s)
  <2>1. Returns(s, verdict)
    BY <1>0, <1>2, ReturnFacts DEF Verdicts
  <2> QED  BY <1>0, <1>1, <1>2, <2>1, QuietReturn DEF Accepted, Undoing, Discarding
<1>3. CASE Pull(s) /\ Goto(s, "inspect")
  BY <1>0, <1>1, <1>3, GoesFacts, LooksStays DEF Pull, Steps
<1>4. CASE Inspect(s) /\ ~cont[wk[s].old].up /\ Goto(s, "createCold")
  BY <1>0, <1>1, <1>4, GoesFacts, LooksStays DEF Inspect, Steps
<1>5. CASE Inspect(s) /\ Become(s, [wk[s] EXCEPT !.pc = "stop", !.hot = TRUE])
  <2> DEFINE w == [wk[s] EXCEPT !.pc = "stop", !.hot = TRUE]
  <2>1. /\ w \in Workers /\ w.pc = "stop" /\ w.old = wk[s].old /\ w.new = wk[s].new
        /\ w.crashed = wk[s].crashed
    BY <1>0 DEF Workers, Steps
  <2>2. Become(s, w)
    BY <1>5
  <2> HIDE DEF w
  <2>3. wk'[s] = w /\ \A t \in Services : t # s => wk'[t] = wk[t]
    BY <1>0, <2>1, <2>2, BecomeFacts DEF TypeOK
  <2>4. /\ Sound(s) /\ wk[s].old \in Ids /\ wk[s].new \in Ids
        /\ wk[s].pc \in Uncreated /\ wk[s].new \notin present
    BY <1>0, BusyFacts DEF Uncreated
  <2>5. Within(s)
    BY <1>0, <1>1, <2>1, <2>3 DEF Within, Untouched, Same, Holds
  <2>6. OldDown(s)' /\ GivenUp(s)' /\ Cold(s)'
    BY <2>1, <2>3 DEF OldDown, GivenUp, Cold, Discarding
  <2>7. CrashNoted(s)'
    BY <2>1, <2>3, <2>4 DEF Sound, CrashNoted
  <2>8. Alone(s)' /\ Told(s)'
    BY <1>0, <2>1, <2>3, <2>4 DEF Sound, Alone, Told, Holds
  <2> QED  BY <2>5, <2>6, <2>7, <2>8 DEF Stays, Sound
<1> QED  BY <1>2, <1>3, <1>4, <1>5 DEF Pull, Inspect

(* The replacement is created, or could not be.                            *)
LEMMA CreateStays ==
  ASSUME IInv, HeldInv, NEW s \in Services, Create(s) \/ CreateCold(s) PROVE Stays(s)
<1>0. /\ TypeOK /\ wk[s].pc \in {"create", "createCold"} /\ UNCHANGED <<used, rejected>>
  BY DEF IInv, Create, CreateCold
<1>1. /\ Sound(s) /\ wk[s].old \in Ids /\ wk[s].new \in Ids /\ wk[s].new # wk[s].old
      /\ wk[s].pc \in Uncreated /\ ~cont[wk[s].old].up
      /\ wk[s].pc = "createCold" => ~wk[s].hot
  <2>1. /\ Sound(s) /\ wk[s].old \in Ids /\ wk[s].new \in Ids /\ wk[s].new # wk[s].old
        /\ wk[s].pc \in Uncreated
    BY <1>0, BusyFacts DEF Uncreated
  <2> QED  BY <1>0, <2>1 DEF Sound, OldDown, Cold
<1>2. CASE UNCHANGED <<present, cont>>
  <2>1. Untouched
    BY <1>0, <1>2 DEF Untouched, Same
  <2>2. CASE wk[s].pc = "create" /\ Goto(s, "rollback")
    BY <1>0, <2>1, <2>2, GoesFacts, LooksStays DEF Steps
  <2>3. CASE wk[s].pc = "createCold" /\ Finish(s, "kept")
    <3>1. Returns(s, "kept")
      BY <1>0, <2>3, ReturnFacts DEF Verdicts
    <3> QED  BY <1>0, <1>1, <2>1, <2>3, <3>1, QuietReturn DEF Accepted, Undoing, Discarding
  <2>4. CASE CreateReplacement(s)
    <3>1. wk[s].new \notin present /\ wk[s].new \in present'
      BY <1>0, <2>4, BusyFacts, BornFacts DEF Uncreated
    <3> QED  BY <1>2, <3>1
  <2> QED  BY <2>2, <2>3, <2>4 DEF Create, CreateCold
<1>3. ASSUME CreateReplacement(s), NEW pc \in {"start", "removeCold"}, Goto(s, pc),
             pc = "removeCold" => wk[s].pc = "createCold"
      PROVE  Stays(s)
  <2>1. /\ present' = present \cup {wk[s].new}
        /\ cont'[wk[s].new].svc = s /\ cont'[wk[s].new].up = FALSE
        /\ \A j \in Ids \ {wk[s].new} : Same(j)
    BY <1>0, <1>3, BornFacts
  <2>2. GoesOn(s, pc)
    BY <1>0, <1>3, GoesFacts DEF Steps
  <2>3. Within(s)
    BY <1>0, <1>1, <2>1, <2>2 DEF Within, GoesOn, Same, Holds
  <2>4. OldDown(s)' /\ GivenUp(s)' /\ Cold(s)'
    BY <1>1, <1>3, <2>1, <2>2 DEF OldDown, GivenUp, Cold, GoesOn, Same, Discarding
  <2>5. CrashNoted(s)'
    BY <1>1, <2>2 DEF Sound, CrashNoted, GoesOn
  <2>6. Alone(s)' /\ Told(s)'
    BY <1>3, <2>1, <2>2 DEF Alone, Told, GoesOn
  <2> QED  BY <2>3, <2>4, <2>5, <2>6 DEF Stays, Sound
<1> QED  BY <1>2, <1>3 DEF Create, CreateCold

(* The old container is removed: two containers have become one.           *)
LEMMA AcceptStays ==
  ASSUME IInv, HeldInv, NEW s \in Services, wk[s].pc \in {"removeCold", "removeOld"},
         GoesOn(s, "rename"), present' = present \ {wk[s].old}, UNCHANGED <<cont, used, rejected>>
  PROVE  Stays(s)
<1>1. /\ Sound(s) /\ wk[s].old \in Ids /\ wk[s].new \in Ids
  BY BusyFacts
<1>2. Within(s)
  BY <1>1, WithinFacts DEF Same, Holds
<1>3. OldDown(s)' /\ GivenUp(s)' /\ Cold(s)'
  BY DEF OldDown, GivenUp, Cold, GoesOn, Discarding
<1>4. CrashNoted(s)'
  BY <1>1 DEF Sound, CrashNoted, GoesOn, Uncreated
<1>5. Alone(s)' /\ Told(s)'
  BY DEF Alone, Told, GoesOn, Holds
<1> QED  BY <1>2, <1>3, <1>4, <1>5 DEF Stays, Sound

(* The replacement is given up on: it may run on beside the old container, *)
(* which is not running yet.                                               *)
LEMMA RejectStays ==
  ASSUME IInv, HeldInv, NEW s \in Services, NEW pc \in Discarding, GoesOn(s, pc),
         wk[s].pc # "idle", pc = "dropCold" => wk[s].pc = "removeCold",
         rejected' = rejected \cup {wk[s].new}, Switches(wk[s].new)
  PROVE  Stays(s)
<1>1. /\ Sound(s) /\ wk[s].old \in Ids /\ wk[s].new \in Ids /\ wk[s].old # wk[s].new
  BY BusyFacts
<1>2. Within(s)
  BY <1>1, WithinFacts DEF Holds
<1>3. cont'[wk[s].old].up = cont[wk[s].old].up
  BY <1>1 DEF Switches, Same
<1>4. OldDown(s)' /\ GivenUp(s)' /\ Cold(s)'
  BY <1>1, <1>3 DEF Sound, OldDown, GivenUp, Cold, GoesOn, Discarding
<1>5. CrashNoted(s)'
  BY DEF CrashNoted, GoesOn, Uncreated, Discarding
<1>6. Alone(s)' /\ Told(s)'
  BY DEF Alone, Told, GoesOn, Discarding
<1> QED  BY <1>2, <1>4, <1>5, <1>6 DEF Stays, Sound

(* The same when the old container is gone.                                *)
LEMMA LoseStays ==
  ASSUME IInv, HeldInv, NEW s \in Services, NEW pc \in {"dropCold", "undoNew"}, GoesOn(s, pc),
         wk[s].pc # "idle", pc = "dropCold" => wk[s].pc = "removeCold",
         rejected' = rejected \cup {wk[s].new}, present' = present \ {wk[s].old},
         UNCHANGED <<cont, used>>
  PROVE  Stays(s)
<1>1. /\ Sound(s) /\ wk[s].old \in Ids /\ wk[s].new \in Ids
  BY BusyFacts
<1>2. Within(s)
  BY <1>1, WithinFacts DEF Same, Holds
<1>3. OldDown(s)' /\ GivenUp(s)' /\ Cold(s)'
  BY <1>1 DEF Sound, OldDown, GivenUp, Cold, GoesOn, Discarding
<1>4. CrashNoted(s)'
  BY DEF CrashNoted, GoesOn, Uncreated
<1>5. Alone(s)' /\ Told(s)'
  BY DEF Alone, Told, GoesOn, Holds
<1> QED  BY <1>2, <1>3, <1>4, <1>5 DEF Stays, Sound

(* RemoveCold and RemoveOld do one or the other.                           *)
LEMMA RemoveStays ==
  ASSUME IInv, HeldInv, NEW s \in Services, RemoveCold(s) \/ RemoveOld(s) PROVE Stays(s)
<1>0. TypeOK /\ wk[s].pc \in {"removeCold", "removeOld"} /\ UNCHANGED <<cont, used>>
  BY DEF IInv, RemoveCold, RemoveOld
<1>1. CASE present' = present \ {wk[s].old} /\ Goto(s, "rename") /\ UNCHANGED rejected
  BY <1>0, <1>1, GoesFacts, AcceptStays DEF Steps
<1>2. ASSUME NEW pc \in {"dropCold", "undoNew"}, Goto(s, pc),
             pc = "dropCold" => wk[s].pc = "removeCold",
             NEW removed \in BOOLEAN, GiveUp(s, removed)
      PROVE  Stays(s)
  <2>1. GoesOn(s, pc) /\ pc \in Discarding
    BY <1>0, <1>2, GoesFacts DEF Steps, Discarding
  <2>2. CASE removed
    <3>1. rejected' = rejected \cup {wk[s].new} /\ present' = present \ {wk[s].old}
      BY <1>2, <2>2 DEF GiveUp
    <3> QED  BY <1>0, <1>2, <2>1, <3>1, LoseStays
  <2>3. CASE ~removed
    <3>1. rejected' = rejected \cup {wk[s].new} /\ UNCHANGED present
      BY <1>2, <2>3 DEF GiveUp
    <3>2. Switches(wk[s].new)
      BY <1>0, <3>1 DEF Switches, Same
    <3> QED  BY <1>0, <1>2, <2>1, <3>1, <3>2, RejectStays
  <2> QED  BY <2>2, <2>3
<1>3. cont[wk[s].old].up \in BOOLEAN
  BY <1>0, WorkerFields DEF TypeOK, Containers
<1> QED  BY <1>1, <1>2, <1>3 DEF RemoveCold, RemoveOld

(* The removal of a replacement that was given up on.                      *)
LEMMA DropStays ==
  ASSUME IInv, HeldInv, NEW s \in Services, DropCold(s) \/ Drop(s) \/ UndoNew(s)
  PROVE  Stays(s)
<1>0. /\ TypeOK /\ wk[s].pc \in Discarding /\ wk[s] \in Workers
      /\ UNCHANGED <<cont, used, rejected>>
      /\ present' \in {present, present \ {wk[s].new}}
  BY DEF IInv, TypeOK, DropCold, Drop, UndoNew, RemoveNew, Discarding
<1>1. /\ Sound(s) /\ wk[s].old \in Ids /\ wk[s].new \in Ids /\ wk[s].old # wk[s].new
  BY <1>0, BusyFacts DEF Accepted, Discarding
<1>2. wk[s].new \notin present' \/ wk[s].new \in rejected'
  BY <1>0, <1>1 DEF Sound, GivenUp
<1>3. \A i \in Ids : Same(i)
  BY <1>0 DEF Same
<1>4. ASSUME NEW pc \in {"rollback", "restartOld"}, GoesOn(s, pc) PROVE Stays(s)
  <2>1. Within(s)
    BY <1>0, <1>1, <1>3, <1>4, WithinFacts DEF Holds
  <2>2. OldDown(s)' /\ GivenUp(s)' /\ Cold(s)'
    BY <1>2, <1>4 DEF OldDown, GivenUp, Cold, GoesOn
  <2>3. CrashNoted(s)' /\ Alone(s)' /\ Told(s)'
    BY <1>2, <1>4 DEF CrashNoted, Alone, Told, GoesOn, Uncreated, Holds
  <2> QED  BY <2>1, <2>2, <2>3 DEF Stays, Sound
<1>5. CASE DropCold(s)
  <2>1. Returns(s, "unremoved")
    BY <1>0, <1>1, <1>5, ReturnFacts DEF DropCold, Verdicts
  <2>2. Within(s)
    BY <1>0, <1>1, <1>3, <2>1, WithinFacts DEF Holds
  <2>3. Alone(s)'
    BY <1>2, <2>1 DEF Alone, Returns, Holds
  <2> QED  BY <1>0, <1>1, <2>1, <2>2, <2>3, ReturnSound DEF Stays
<1>6. CASE Drop(s)
  <2> DEFINE w == [wk[s] EXCEPT !.pc = "rollback", !.told = TRUE]
  <2>1. /\ w \in Workers /\ w.pc = "rollback" /\ w.old = wk[s].old /\ w.new = wk[s].new
        /\ w.hot = wk[s].hot /\ w.crashed = wk[s].crashed
    BY <1>0 DEF Workers, Steps
  <2>2. Goto(s, "rollback") \/ Become(s, w)
    BY <1>6 DEF Drop
  <2> HIDE DEF w
  <2>3. GoesOn(s, "rollback")
    BY <1>0, <2>1, <2>2, BecomeGoes, GoesFacts DEF Steps
  <2> QED  BY <1>4, <2>3
<1>7. CASE UndoNew(s)
  BY <1>0, <1>4, <1>7, GoesFacts DEF UndoNew, Steps
<1> QED  BY <1>5, <1>6, <1>7

(* Every SetUp of a container a worker holds is a switch.                  *)
LEMMA SwitchIs ==
  ASSUME TypeOK, NEW i \in Ids, NEW up \in BOOLEAN, MaybeSetUp(i, up), UNCHANGED <<present, used>>
  PROVE  Switches(i) /\ cont'[i].health = cont[i].health
  BY SwitchFacts DEF Switches

(* The stop of the old container, and its restart if that failed.          *)
LEMMA StopStays ==
  ASSUME IInv, HeldInv, NEW s \in Services, Stop(s) \/ Unstop(s) PROVE Stays(s)
<1>0. TypeOK /\ wk[s].pc \in {"stop", "unstop"} /\ UNCHANGED <<present, used, rejected>>
  BY DEF IInv, Stop, Unstop
<1>1. /\ Sound(s) /\ wk[s].old \in Ids /\ wk[s].new \in Ids /\ wk[s].new \notin present
      /\ wk[s].old \in present /\ wk[s].pc \in Uncreated
  BY <1>0, BusyFacts DEF Uncreated, Accepted, Undoing, Discarding
<1>2. \E up \in BOOLEAN : MaybeSetUp(wk[s].old, up)
  BY <1>0, <1>1, SwitchFacts DEF Stop, Unstop
<1>3. Switches(wk[s].old)
  BY <1>0, <1>1, <1>2, SwitchIs
<1>4. ASSUME NEW pc \in {"create", "unstop"}, Goto(s, pc),
             pc = "create" => cont'[wk[s].old].up = FALSE
      PROVE  Stays(s)
  <2>1. GoesOn(s, pc)
    BY <1>0, <1>4, GoesFacts DEF Steps
  <2>2. Within(s)
    BY <1>0, <1>1, <1>3, <2>1, WithinFacts DEF Holds
  <2>3. OldDown(s)' /\ GivenUp(s)' /\ Cold(s)'
    BY <1>4, <2>1 DEF OldDown, GivenUp, Cold, GoesOn, Discarding
  <2>4. CrashNoted(s)'
    BY <1>1, <2>1 DEF Sound, CrashNoted, GoesOn
  <2>5. Alone(s)' /\ Told(s)'
    BY <1>0, <1>1, <2>1 DEF Alone, Told, GoesOn, Holds
  <2> QED  BY <2>2, <2>3, <2>4, <2>5 DEF Stays, Sound
<1>5. ASSUME NEW verdict \in {"kept", "down"}, Finish(s, verdict),
             verdict = "kept" => cont'[wk[s].old].up
      PROVE  Stays(s)
  <2>1. Returns(s, verdict)
    BY <1>0, <1>5, ReturnFacts DEF Verdicts
  <2>2. Within(s)
    BY <1>0, <1>1, <1>3, <2>1, WithinFacts DEF Holds
  <2>3. Alone(s)'
    BY <1>0, <1>1, <2>1 DEF Alone, Returns, Holds
  <2> QED  BY <1>0, <1>1, <1>5, <2>1, <2>2, <2>3, ReturnSound DEF Stays
<1>6. CASE Stop(s)
  BY <1>0, <1>1, <1>4, <1>6, SwitchFacts DEF Stop
<1>7. CASE Unstop(s)
  BY <1>0, <1>1, <1>5, <1>7, SwitchFacts DEF Unstop
<1> QED  BY <1>6, <1>7

(* The restart of the old container once the replacement is out of the way. *)
LEMMA RestartStays ==
  ASSUME IInv, HeldInv, NEW s \in Services, Rollback(s) \/ RestartOld(s) PROVE Stays(s)
<1>0. TypeOK /\ wk[s].pc \in {"rollback", "restartOld"} /\ UNCHANGED <<present, used, rejected>>
  BY DEF IInv, Rollback, RestartOld
<1>1. /\ Sound(s) /\ wk[s].old \in Ids /\ wk[s].new \in Ids
  BY <1>0, BusyFacts
<1>2. wk[s].new \notin present \/ wk[s].new \in rejected
  BY <1>0, <1>1 DEF Sound, GivenUp
<1>3. MaybeSetUp(wk[s].old, TRUE)
  BY <1>0, <1>1, SwitchFacts DEF Rollback, RestartOld
<1>4. Switches(wk[s].old)
  BY <1>0, <1>1, <1>3, SwitchIs
<1>5. ASSUME NEW verdict \in {"rolled_back", "kept", "down"}, Finish(s, verdict),
             verdict # "down" => wk[s].old \in present /\ cont'[wk[s].old].up
      PROVE  Stays(s)
  <2>1. Returns(s, verdict)
    BY <1>0, <1>5, ReturnFacts DEF Verdicts
  <2>2. Within(s)
    BY <1>0, <1>1, <1>4, <2>1, WithinFacts DEF Holds
  <2>3. Alone(s)'
    BY <1>0, <1>2, <2>1 DEF Alone, Returns, Holds
  <2> QED  BY <1>0, <1>1, <1>5, <2>1, <2>2, <2>3, ReturnSound DEF Stays
<1>6. SetUp(wk[s].old, TRUE) => wk[s].old \in present
  BY DEF SetUp
<1> QED  BY <1>0, <1>1, <1>5, <1>6, SwitchFacts DEF Rollback, RestartOld

(* The replacement is started while the old container is down.             *)
LEMMA StartStays == ASSUME IInv, HeldInv, NEW s \in Services, Start(s) PROVE Stays(s)
<1>0. TypeOK /\ wk[s].pc = "start" /\ UNCHANGED <<present, used>>
  BY DEF IInv, Start
<1>1. /\ Sound(s) /\ wk[s].old \in Ids /\ wk[s].new \in Ids /\ wk[s].old # wk[s].new
      /\ ~cont[wk[s].old].up /\ ~wk[s].crashed
  BY <1>0, BusyFacts DEF Sound, OldDown, CrashNoted
<1>2. MaybeSetUp(wk[s].new, TRUE)
  BY <1>0, <1>1, SwitchFacts DEF Start
<1>3. Switches(wk[s].new)
  BY <1>0, <1>1, <1>2, SwitchIs
<1>4. CASE Goto(s, "drop") /\ rejected' = rejected \cup {wk[s].new}
  BY <1>0, <1>3, <1>4, GoesFacts, RejectStays DEF Steps, Discarding
<1>5. ASSUME NEW pc \in {"check", "removeOld"}, Goto(s, pc), UNCHANGED rejected
      PROVE  Stays(s)
  <2>1. GoesOn(s, pc)
    BY <1>0, <1>5, GoesFacts DEF Steps
  <2>2. Within(s)
    BY <1>0, <1>1, <1>3, <1>5, <2>1, WithinFacts DEF Holds
  <2>3. ~cont'[wk[s].old].up
    BY <1>1, <1>3 DEF Switches, Same
  <2>4. OldDown(s)' /\ GivenUp(s)' /\ Cold(s)'
    BY <1>5, <2>1, <2>3 DEF OldDown, GivenUp, Cold, GoesOn, Discarding
  <2>5. CrashNoted(s)'
    BY <1>1, <2>1 DEF CrashNoted, GoesOn
  <2>6. Alone(s)' /\ Told(s)'
    BY <1>5, <2>1, <2>3 DEF Alone, Told, GoesOn
  <2> QED  BY <2>2, <2>4, <2>5, <2>6 DEF Stays, Sound
<1> QED  BY <1>0, <1>4, <1>5 DEF Start

(* The verification: a replacement without a health check is accepted only *)
(* after a look at it.                                                     *)
LEMMA VerifyStays ==
  ASSUME IInv, HeldInv, NEW s \in Services,
         Check(s) \/ AwaitEvent(s) \/ AwaitTimer(s) \/ Labels(s)
  PROVE  Stays(s)
<1>0. /\ TypeOK /\ wk[s].pc \in {"check", "await", "labels"} /\ wk[s] \in Workers
      /\ UNCHANGED <<present, cont, used>>
  BY DEF IInv, TypeOK, Check, AwaitEvent, AwaitTimer, Labels
<1>1. CASE Reject(s)
  <2>1. GoesOn(s, "drop") /\ rejected' = rejected \cup {wk[s].new}
    BY <1>0, <1>1, GoesFacts
  <2>2. Switches(wk[s].new)
    BY <1>0 DEF Switches, Same
  <2> QED  BY <1>0, <2>1, <2>2, RejectStays DEF Discarding
<1>2. UNCHANGED rejected => Untouched
  BY <1>0 DEF Untouched, Same
<1>3. CASE UNCHANGED rejected /\ wk[s].pc \in {"check", "await"} /\ Verified(s)
           /\ (cont[wk[s].new].up \/ cont[wk[s].new].health # "none")
  BY <1>0, <1>2, <1>3, GoesFacts, LooksStays
<1>4. CASE UNCHANGED rejected /\ wk[s].pc = "check" /\ Goto(s, "await")
  BY <1>0, <1>2, <1>4, GoesFacts, LooksStays DEF Steps
<1>5. CASE UNCHANGED rejected /\ wk[s].pc = "labels" /\ Goto(s, "removeOld")
  BY <1>0, <1>2, <1>5, GoesFacts, LooksStays DEF Steps
<1>6. CASE /\ UNCHANGED rejected /\ wk[s].pc = "await" /\ wk[s].events # <<>>
           /\ Become(s, [wk[s] EXCEPT !.events = Tail(@)])
  <2> DEFINE w == [wk[s] EXCEPT !.events = Tail(@)]
  <2>1. Tail(wk[s].events) \in Seq(Events)
    BY <1>0, <1>6, WorkerFields
  <2>2. /\ w \in Workers /\ w.pc = "await" /\ w.old = wk[s].old /\ w.new = wk[s].new
        /\ w.hot = wk[s].hot /\ w.crashed = wk[s].crashed
    BY <1>0, <1>6, <2>1 DEF Workers
  <2>3. Become(s, w)
    BY <1>6
  <2> HIDE DEF w
  <2>4. GoesOn(s, "await")
    BY <1>0, <2>2, <2>3, BecomeGoes
  <2> QED  BY <1>0, <1>2, <1>6, <2>4, LooksStays
<1>7. CASE Check(s)
  BY <1>1, <1>3, <1>4, <1>7 DEF Check
<1>8. CASE AwaitEvent(s)
  BY <1>1, <1>3, <1>6, <1>8 DEF AwaitEvent
<1>9. CASE AwaitTimer(s)
  BY <1>1, <1>3, <1>9 DEF AwaitTimer, Confirmed
<1>10. CASE Labels(s)
  BY <1>1, <1>5, <1>10 DEF Labels
<1> QED  BY <1>7, <1>8, <1>9, <1>10

(* The final name.                                                         *)
LEMMA RenameStays ==
  ASSUME IInv, HeldInv, NEW s \in Services, Rename(s) \/ Relist(s) PROVE Stays(s)
<1>0. /\ TypeOK /\ wk[s].pc \in {"rename", "relist"} /\ wk[s].new \in Ids
      /\ UNCHANGED <<present, used, rejected>>
  BY WorkerFields DEF IInv, Rename, Relist
<1>1. Untouched
  <2>1. cont' = cont \/ cont' = [cont EXCEPT ![wk[s].new].tail = wk[s].name]
    BY DEF Rename, Relist
  <2>2. \A i \in Ids : Same(i)
    BY <1>0, <2>1, NameFacts DEF Same
  <2> QED  BY <1>0, <2>2 DEF Untouched
<1>2. ASSUME NEW verdict \in {"updated", "unnamed", "unverified"}, Finish(s, verdict)
      PROVE  Stays(s)
  <2>1. Returns(s, verdict)
    BY <1>0, <1>2, ReturnFacts DEF Verdicts
  <2> QED  BY <1>0, <1>1, <1>2, <2>1, QuietReturn
<1>3. CASE wk[s].pc = "rename" /\ Goto(s, "relist")
  BY <1>0, <1>1, <1>3, GoesFacts, LooksStays DEF Steps
<1> QED  BY <1>2, <1>3 DEF Rename, Relist

(* The replacement dies, or its health turns, while it is verified.        *)
LEMMA EnvironmentStays ==
  ASSUME IInv, HeldInv, NEW s \in Services, Environment(s) PROVE Stays(s)
<1>0. /\ TypeOK /\ wk[s].pc \in {"check", "await"} /\ wk[s] \in Workers
      /\ UNCHANGED <<present, used, rejected>>
  BY DEF IInv, TypeOK, Environment, Die, HealthTurns, Verifying
<1>1. /\ Sound(s) /\ wk[s].old \in Ids /\ wk[s].new \in Ids /\ wk[s].old # wk[s].new
      /\ ~cont[wk[s].old].up /\ wk[s].events \in Seq(Events) /\ wk[s].crashed \in BOOLEAN
  BY <1>0, BusyFacts, WorkerFields DEF Sound, OldDown
<1>2. \A e \in Events : Delivered(s, e) \subseteq Seq(Events)
  BY <1>1 DEF Delivered
<1>3. ASSUME NEW w \in Workers, Become(s, w), w.pc = wk[s].pc, w.old = wk[s].old,
             w.new = wk[s].new, w.hot = wk[s].hot,
             w.crashed => ~cont'[wk[s].new].up,
             Switches(wk[s].new)
      PROVE  Stays(s)
  <2>1. wk'[s] = w /\ \A t \in Services : t # s => wk'[t] = wk[t]
    BY <1>0, <1>3, BecomeFacts DEF TypeOK
  <2>2. Within(s)
    BY <1>0, <1>1, <1>3, <2>1 DEF Within, Switches, Same, Holds
  <2>3. ~cont'[wk[s].old].up
    BY <1>1, <1>3 DEF Switches, Same
  <2>4. OldDown(s)' /\ GivenUp(s)' /\ Cold(s)'
    BY <1>0, <1>3, <2>1, <2>3 DEF OldDown, GivenUp, Cold, Discarding
  <2>5. CrashNoted(s)'
    BY <1>0, <1>3, <2>1 DEF CrashNoted, Uncreated
  <2>6. Alone(s)' /\ Told(s)'
    BY <1>0, <1>3, <2>1, <2>3 DEF Alone, Told
  <2> QED  BY <2>2, <2>4, <2>5, <2>6 DEF Stays, Sound
<1>4. wk[s].crashed => ~cont[wk[s].new].up
  BY <1>0, <1>1 DEF Sound, CrashNoted
<1>5. ASSUME NEW restarts \in BOOLEAN, Die(s, restarts) PROVE Stays(s)
  <2>1. PICK events \in Delivered(s, "die") :
          Become(s, [wk[s] EXCEPT !.events = events, !.crashed = @ \/ ~restarts])
    BY <1>5 DEF Die
  <2> DEFINE w == [wk[s] EXCEPT !.events = events, !.crashed = @ \/ ~restarts]
  <2>2. events \in Seq(Events)
    BY <1>2 DEF Events
  <2>3. /\ w \in Workers /\ w.pc = wk[s].pc /\ w.old = wk[s].old /\ w.new = wk[s].new
        /\ w.hot = wk[s].hot /\ w.crashed = (wk[s].crashed \/ ~restarts)
    BY <1>0, <1>1, <2>2 DEF Workers
  <2>4. MaybeSetUp(wk[s].new, FALSE)
    BY <1>5 DEF Die, MaybeSetUp
  <2>5. Switches(wk[s].new)
    BY <1>0, <1>1, <2>4, SwitchIs
  <2>6. cont[wk[s].new].up /\ (~restarts => ~cont'[wk[s].new].up)
    BY <1>0, <1>1, <1>5, SwitchFacts DEF Die
  <2>7. w.crashed => ~cont'[wk[s].new].up
    BY <1>4, <2>3, <2>6
  <2> HIDE DEF w
  <2>8. Become(s, w)
    BY <2>1 DEF w
  <2> QED  BY <1>3, <2>3, <2>5, <2>7, <2>8
<1>6. ASSUME NEW health \in {"healthy", "unhealthy"}, HealthTurns(s, health) PROVE Stays(s)
  <2>1. PICK events \in Delivered(s, health) : Become(s, [wk[s] EXCEPT !.events = events])
    BY <1>6 DEF HealthTurns
  <2> DEFINE w == [wk[s] EXCEPT !.events = events]
  <2>2. events \in Seq(Events)
    BY <1>2 DEF Events
  <2>3. /\ w \in Workers /\ w.pc = wk[s].pc /\ w.old = wk[s].old /\ w.new = wk[s].new
        /\ w.hot = wk[s].hot /\ w.crashed = wk[s].crashed
    BY <1>0, <2>2 DEF Workers
  <2>4. cont[wk[s].new].up /\ cont' = [cont EXCEPT ![wk[s].new].health = health]
    BY <1>6 DEF HealthTurns
  <2>5. Switches(wk[s].new)
    BY <1>0, <1>1, <2>4 DEF Switches, Same, TypeOK, Containers
  <2>6. ~w.crashed
    BY <1>4, <2>3, <2>4
  <2> HIDE DEF w
  <2>7. Become(s, w)
    BY <2>1 DEF w
  <2> QED  BY <1>3, <2>3, <2>5, <2>6, <2>7
<1> QED  BY <1>5, <1>6 DEF Environment

(* A worker that begins holds a container of its service and a fresh id.   *)
LEMMA BeginKeeps ==
  ASSUME IInv, HeldInv, NEW s \in Services, NEW i \in Ids, NEW kind \in Kinds,
         NEW verify \in BOOLEAN, Begin(s, i, kind, verify)
  PROVE  HeldInv'
<1> DEFINE w == [Idle(s) EXCEPT !.pc = FirstStep(kind), !.kind = kind,
                                !.verify = verify, !.old = i, !.new = FreshId,
                                !.name = cont[i].tail]
<1>0. TypeOK /\ used \subseteq Ids /\ present \subseteq used
  BY DEF IInv, TypeOK
<1>1. FreshId \in Ids /\ FreshId \notin used
  BY <1>0, FreshIdType DEF Begin
<1>2. FirstStep(kind) \in Steps /\ FirstStep(kind) \in {"list", "pull", "inspect"}
  BY DEF FirstStep, Kinds, Steps
<1>3. cont[i].tail \in Seq(Ids)
  BY <1>0 DEF TypeOK, Containers
<1>4. /\ w \in Workers /\ w.old = i /\ w.new = FreshId /\ w.pc = FirstStep(kind)
      /\ w.hot = FALSE /\ w.crashed = FALSE
  <2>1. Idle(s).hot = FALSE /\ Idle(s).crashed = FALSE  BY DEF Idle
  <2> QED  BY <1>1, <1>2, <1>3, <2>1, IdleType DEF Workers
<1>5. Become(s, w)
  BY DEF Begin
<1> HIDE DEF w
<1>6. wk'[s] = w /\ \A t \in Services : t # s => wk'[t] = wk[t]
  BY <1>0, <1>4, <1>5, BecomeFacts DEF TypeOK
<1>7. /\ i \in present /\ cont[i].svc = s /\ used' = used \cup {FreshId}
      /\ UNCHANGED <<present, cont, rejected>>
  BY DEF Begin
<1> HIDE DEF FreshId
<1>8. /\ Holds(s)' = {i, FreshId}
      /\ \A t \in Services : t # s => Holds(t)' = Holds(t)
  BY <1>4, <1>6 DEF Holds
<1>9. \A t \in Services : t # s => i \notin Holds(t) /\ FreshId \notin Holds(t)
  BY <1>1, <1>7 DEF HeldInv, HeldOwned
<1>10. Apart'
  BY <1>8, <1>9 DEF HeldInv, Apart
<1>11. HeldOwned'
  BY <1>0, <1>1, <1>7, <1>8 DEF HeldInv, HeldOwned
<1>12. FirstOwned'
  BY <1>1, <1>4, <1>6, <1>7 DEF HeldInv, FirstOwned
<1>13. Sound(s)'
  <2>1. OldDown(s)' /\ GivenUp(s)' /\ Cold(s)'
    BY <1>2, <1>4, <1>6 DEF OldDown, GivenUp, Cold, Discarding
  <2>2. CrashNoted(s)'
    BY <1>2, <1>4, <1>6 DEF CrashNoted
  <2>3. Alone(s)' /\ Told(s)'
    BY <1>0, <1>1, <1>2, <1>4, <1>6, <1>7, <1>8 DEF Alone, Told
  <2> QED  BY <2>1, <2>2, <2>3 DEF Sound
<1>14. ASSUME NEW t \in Services, t # s PROVE Sound(t)'
  BY <1>6, <1>7, <1>14
     DEF HeldInv, Sound, OldDown, GivenUp, Cold, CrashNoted, Alone, Told, Holds
<1> QED  BY <1>10, <1>11, <1>12, <1>13, <1>14 DEF HeldInv

(* Workers that know nothing have nothing to be wrong about.               *)
LEMMA IdleSound ==
  ASSUME wk = [s \in Services |-> Idle(s)]
  PROVE  Apart /\ \A s \in Services : Sound(s) /\ Holds(s) = {Original[s]} /\ wk[s].pc = "idle"
<1>1. \A s \in Services : /\ wk[s].old = Original[s] /\ wk[s].new = Original[s]
                          /\ wk[s].pc = "idle" /\ wk[s].verdict = "none"
  BY DEF Idle
<1>2. \A s \in Services : Holds(s) = {Original[s]}
  BY <1>1 DEF Holds
<1>3. Apart
  BY <1>2, ReplaceAssumption DEF Apart
<1>4. \A s \in Services : Sound(s)
  BY <1>1 DEF Sound, OldDown, GivenUp, Cold, CrashNoted, Alone, Told, Uncreated, Discarding
<1> QED  BY <1>1, <1>2, <1>3, <1>4

(* The same in the next state, after a crash.                              *)
LEMMA CrashKeeps == ASSUME HeldInv, Crash PROVE HeldInv'
<1>1. wk' = [s \in Services |-> Idle(s)] /\ UNCHANGED <<present, cont, used, rejected>>
  BY DEF Crash
<1>2. \A s \in Services : /\ wk'[s].old = Original[s] /\ wk'[s].new = Original[s]
                          /\ wk'[s].pc = "idle" /\ wk'[s].verdict = "none"
  BY <1>1 DEF Idle
<1>3. \A s \in Services : Holds(s)' = {Original[s]}
  BY <1>2 DEF Holds
<1>4. Apart'
  BY <1>3, ReplaceAssumption DEF Apart
<1>5. \A s \in Services : Sound(s)'
  BY <1>2 DEF Sound, OldDown, GivenUp, Cold, CrashNoted, Alone, Told, Uncreated, Discarding
<1>6. HeldOwned' /\ FirstOwned'
  BY <1>1, <1>2, <1>3 DEF HeldInv, HeldOwned, FirstOwned
<1> QED  BY <1>4, <1>5, <1>6 DEF HeldInv

(* The containers of the first deployment.                                 *)
LEMMA HeldInit == Init => HeldInv
<1> SUFFICES ASSUME Init PROVE HeldInv
  OBVIOUS
<1>1. wk = [s \in Services |-> Idle(s)] /\ used = present
  BY DEF Init
<1>2. \A s \in Services : Original[s] \in present /\ cont[Original[s]].svc = s
  <2> SUFFICES ASSUME NEW s \in Services
               PROVE  Original[s] \in present /\ cont[Original[s]].svc = s
    OBVIOUS
  <2>1. Original[s] \in Ids /\ Original[s] \in present
    BY ReplaceAssumption DEF Init
  <2>2. (CHOOSE t \in Services : Original[t] = Original[s]) = s
    BY ReplaceAssumption
  <2> QED  BY <2>1, <2>2 DEF Init
<1>3. Apart /\ \A s \in Services : Sound(s) /\ Holds(s) = {Original[s]} /\ wk[s].pc = "idle"
  BY <1>1, IdleSound
<1>4. HeldOwned /\ FirstOwned
  BY <1>1, <1>2, <1>3 DEF HeldOwned, FirstOwned
<1> QED  BY <1>3, <1>4 DEF HeldInv

(* Every step keeps both invariants.                                       *)
LEMMA HeldStep == IInv /\ HeldInv /\ [Next]_vars => HeldInv'
<1> SUFFICES ASSUME IInv, HeldInv, [Next]_vars PROVE HeldInv'
  OBVIOUS
<1>1. ASSUME NEW s \in Services, wk[s].pc # "idle", Stays(s) PROVE HeldInv'
  BY <1>1, WithinKeeps DEF IInv, Stays
<1>2. ASSUME NEW s \in Services, WorkerStep(s) PROVE HeldInv'
  <2>1. wk[s].pc # "idle"
    BY <1>2 DEF WorkerStep, SweepList, SweepOne, SweepDone, Pull, Inspect, CreateCold,
                RemoveCold, DropCold, Stop, Unstop, Create, Start, Check, AwaitEvent,
                AwaitTimer, Labels, Drop, Rollback, RemoveOld, UndoNew, RestartOld,
                Rename, Relist
  <2>2. CASE SweepList(s) \/ SweepOne(s) \/ SweepDone(s)
    BY <1>1, <2>1, <2>2, SweepStays
  <2>3. CASE Pull(s) \/ Inspect(s)
    BY <1>1, <2>1, <2>3, BeforeStays
  <2>4. CASE Create(s) \/ CreateCold(s)
    BY <1>1, <2>1, <2>4, CreateStays
  <2>5. CASE RemoveCold(s) \/ RemoveOld(s)
    BY <1>1, <2>1, <2>5, RemoveStays
  <2>6. CASE DropCold(s) \/ Drop(s) \/ UndoNew(s)
    BY <1>1, <2>1, <2>6, DropStays
  <2>7. CASE Stop(s) \/ Unstop(s)
    BY <1>1, <2>1, <2>7, StopStays
  <2>8. CASE Rollback(s) \/ RestartOld(s)
    BY <1>1, <2>1, <2>8, RestartStays
  <2>9. CASE Start(s)
    BY <1>1, <2>1, <2>9, StartStays
  <2>10. CASE Check(s) \/ AwaitEvent(s) \/ AwaitTimer(s) \/ Labels(s)
    BY <1>1, <2>1, <2>10, VerifyStays
  <2>11. CASE Rename(s) \/ Relist(s)
    BY <1>1, <2>1, <2>11, RenameStays
  <2> QED  BY <1>2, <2>2, <2>3, <2>4, <2>5, <2>6, <2>7, <2>8, <2>9, <2>10, <2>11 DEF WorkerStep
<1>3. ASSUME NEW s \in Services, Environment(s) PROVE HeldInv'
  <2>1. wk[s].pc # "idle"
    BY <1>3 DEF Environment, Die, HealthTurns, Verifying
  <2> QED  BY <1>1, <1>3, <2>1, EnvironmentStays
<1>4. ASSUME NEW s \in Services, NEW i \in Ids, NEW kind \in Kinds,
             NEW verify \in BOOLEAN, Begin(s, i, kind, verify)
      PROVE  HeldInv'
  BY <1>4, BeginKeeps
<1>5. CASE Crash
  BY <1>5, CrashKeeps
<1>6. CASE UNCHANGED vars
  BY <1>6 DEF vars, HeldInv, Apart, HeldOwned, FirstOwned, Holds, Sound, OldDown, GivenUp, Cold,
              CrashNoted, Alone, Told
<1> QED  BY <1>2, <1>3, <1>4, <1>5, <1>6 DEF Next

(* Both invariants hold of every workload.                                 *)
LEMMA HeldAlways == Spec => []HeldInv
  BY InitInvariant, NextInvariant, HeldInit, HeldStep, PTL DEF Spec

(***************************************************************************)
(* ContainerRecreateWithOptions never runs two containers of a service on  *)
(* the same volumes and ports, however many services are updated at once,  *)
(* unless it gave the replacement up and could not remove it.              *)
(***************************************************************************)
THEOREM NeverSideBySide == Spec => []NoOverlap
<1>1. HeldInv => NoOverlap
  BY DEF HeldInv, Sound, Alone, Holds, NoOverlap
<1> QED  BY <1>1, HeldAlways, PTL

(***************************************************************************)
(* What an update reported stays true until the next one of that service:  *)
(* after a rollback, or an error that claims the running container was     *)
(* left or put back, that container is there and runs.                     *)
(***************************************************************************)
THEOREM VerdictsStayTrue == Spec => []VerdictTrue
<1>1. HeldInv => VerdictTrue
  BY DEF HeldInv, Sound, Told, VerdictTrue
<1> QED  BY <1>1, HeldAlways, PTL

(***************************************************************************)
(* However many events the hub loses, ContainerHealthCheck accepts no      *)
(* replacement without a health check that crashed and stayed down.        *)
(***************************************************************************)
THEOREM CrashesAreCaught == Spec => []BootCrashCaught
<1>1. HeldInv => BootCrashCaught
  BY DEF HeldInv, Sound, CrashNoted, BootCrashCaught
<1> QED  BY <1>1, HeldAlways, PTL
=============================================================================
