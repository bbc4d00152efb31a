--------------------------- MODULE GitFilesProofs ---------------------------
(***************************************************************************)
(* Proofs about the files of a linked folder: automatic synchronization    *)
(* (GitAutomation), what takes part in a transfer (GitPolicy), deletions   *)
(* (GitDeletion) and recoveries (GitRecovery).  Each part is about one     *)
(* module and uses nothing of the others.                                  *)
(***************************************************************************)
EXTENDS GitAutomation, GitPolicy, GitDeletion, GitRecovery, FiniteSetTheorems,
        TLAPS

-----------------------------------------------------------------------------
(***************************************************************************)
(* Proofs about automatic synchronization (GitAutomation).                 *)
(***************************************************************************)

AutoContents == Contents \cup {Absent}
AutoTrees == [GitStacks -> AutoContents]
StackRow == [sync : SyncStates, deploy : terminalStackDeployStates \cup {"provisioning"},
             pause : {"none", "manual"}]
DeployRow == [state : terminalDeploymentStates \cup {"none", "validating"}, commit : Int]
LinkColumns ==
    [sync : {"idle", "watching", "syncing", "up_to_date", "partial", "blocked",
             "conflict", "error"},
     deletion : BOOLEAN, last : Int,
     deploy : {"watching", "pending", "success", "partial", "failed"}]
Clone == [head : Int, tree : AutoTrees]
TokenEntry == EntryKinds \X AutoContents \X AutoContents
Tokens == UNION {[P -> TokenEntry] : P \in SUBSET GitStacks}
Outcomes == terminalDeploymentStates \cup {"none", "deferred"}
CycleRec ==
    [at : {"idle", "import", "write", "deploy", "restore", "close"},
     explicit : BOOLEAN, commit : Int,
     token : Tokens, held : SUBSET GitStacks,
     stale : {"none", "failed", "partial", "pending"}, before : AutoTrees,
     wrote : SUBSET GitStacks, unwritten : SUBSET GitStacks,
     todo : SUBSET GitStacks, now : SUBSET GitStacks,
     out : [GitStacks -> Outcomes], result : {"up_to_date", "blocked", "partial"},
     preserved : BOOLEAN, edited : SUBSET GitStacks, invalid : SUBSET GitStacks]

AutoShapes ==
    /\ provider \in AutoTrees /\ files \in AutoTrees /\ base \in AutoTrees
    /\ running \in AutoTrees /\ clone \in Clone /\ broken \subseteq Contents
    /\ row \in [GitStacks -> StackRow] /\ drow \in [GitStacks -> DeployRow]
    /\ link \in LinkColumns /\ cycle \in CycleRec
    /\ authorized \subseteq GitStacks /\ busy \subseteq GitStacks
    /\ dirty \subseteq GitStacks /\ touched \subseteq GitStacks
    /\ late \subseteq GitStacks
    /\ marking \in [GitStacks -> {"none", "edit", "delete"}]

AutoNumbers ==
    /\ commit \in 0..MaxCommits /\ events \in 0..MaxEvents
    /\ clone.head \in 0..commit /\ link.last \in NoCommit..commit
    /\ cycle.commit \in 0..commit
    /\ \A s \in GitStacks : drow[s].commit \in NoCommit..commit

HeldKinds == {"conflict", "deleted_locally", "restore"}

(* One stack is deployed at a time, the scan held back what awaits a       *)
(* decision, the baseline of what is still to be deployed is what the      *)
(* import wrote, and so is the file of a stack that is being restored.     *)
CyclePlan ==
    /\ cycle.now # {} => cycle.at \in {"deploy", "restore"}
    /\ \A s, t \in cycle.now : s = t
    /\ cycle.now \cap cycle.todo = {}
    /\ cycle.at \in {"import", "write"} =>
         cycle.held = {s \in DOMAIN cycle.token : cycle.token[s][1] \in HeldKinds}
    /\ cycle.at \in {"deploy", "restore"} =>
         \A s \in cycle.wrote \cap (cycle.todo \cup cycle.now) : base[s] = cycle.token[s][2]
    /\ cycle.at = "restore" =>
         \A s \in cycle.now :
            /\ s \in cycle.wrote
            /\ s \in late \/ files[s] \in {cycle.token[s][2], cycle.before[s]}

(* What an import is still to write was changed on Git only, and the file  *)
(* is as the comparison found it unless it was saved since.                *)
WritePlan ==
    cycle.at = "write" =>
      /\ cycle.unwritten \subseteq cycle.wrote
      /\ DOMAIN cycle.token \subseteq activeAutomationComposePaths
      /\ \A s \in cycle.wrote :
           /\ s \in DOMAIN cycle.token
           /\ cycle.token[s][1] \in {"add", "modify"}
           /\ cycle.token[s][2] # Absent
      /\ \A s \in cycle.unwritten \ late : files[s] = base[s]

(* A change whose mark is still to run counts as made during the cycle.    *)
EditMarks ==
    cycle.at # "idle" => \A s \in GitStacks : marking[s] # "none" => s \in touched

(* From the comparison of an import on, the untouched rows that await a    *)
(* decision are those of the stacks that are held back.                    *)
Decided ==
    cycle.at \in {"write", "deploy", "restore", "close"} =>
      \A s \in activeAutomationComposePaths \ touched :
         row[s].sync \in {"conflict", "locally_deleted"} => s \in cycle.held

AutoInv == AutoShapes /\ AutoNumbers /\ CyclePlan /\ WritePlan /\ EditMarks
                      /\ Decided /\ InFlightIsRunning

(* What one step may not do: NoEditLost and DecisionKept.                  *)
EditStep ==
    cycle' # cycle =>
      \A s \in GitStacks : files'[s] # files[s] => files[s] = base[s] \/ s \in late

DecisionStep ==
    cycle' # cycle \/ link' # link =>
      \A s \in GitStacks \ touched' :
         /\ row[s].sync \in {"conflict", "locally_deleted"}
         /\ row'[s].sync = "up_to_date"
         => ImportEntry(provider'[s], files'[s], base'[s]) \notin {"conflict", "restore"}

AutoStep == AutoInv' /\ EditStep /\ DecisionStep

(* The rows differ in what they show of the two sides at most.             *)
DeployKept(rows, old) ==
    \A s \in GitStacks : rows[s].deploy = old[s].deploy /\ rows[s].pause = old[s].pause

SyncKept(rows, old) ==
    \A s \in GitStacks : rows[s].sync = old[s].sync /\ rows[s].pause = old[s].pause

AutoRows == [GitStacks -> StackRow]
-----------------------------------------------------------------------------
(* The comparison of one stack.                                            *)
LEMMA ImportKinds ==
    ASSUME NEW src, NEW dst, NEW b
    PROVE  /\ ImportEntry(src, dst, b) \in {"unchanged", "add", "restore", "modify",
                                            "conflict", "deleted_on_git"}
           /\ ImportEntry(src, dst, b) \in EntryKinds
           /\ src = dst => ImportEntry(src, dst, b) = "unchanged"
           /\ dst = b => ImportEntry(src, dst, b) \notin {"conflict", "restore"}
           /\ ImportEntry(src, dst, b) \in {"add", "modify"} => src # Absent /\ dst = b
           /\ ImportEntry(src, dst, b) = "restore" => src # Absent
           /\ ImportEntry(src, dst, b) = "deleted_on_git" => src = Absent
           /\ ImportEntry(src, dst, b) = "unchanged" =>
                /\ src = Absent \/ src = dst
                /\ ImportEntry(src, dst, src) = "unchanged"
BY DEF ImportEntry, EntryKinds

LEMMA ExportKinds ==
    ASSUME NEW src, NEW dst, NEW b
    PROVE  /\ ExportEntry(src, dst, b) \in {"unchanged", "add", "modify", "conflict",
                                            "deleted_locally"}
           /\ ExportEntry(src, dst, b) = "unchanged" =>
                ImportEntry(dst, src, b) \notin {"conflict", "restore"}
BY DEF ImportEntry, ExportEntry

LEMMA Unseen == Absent \in AutoContents /\ Original \in AutoContents
                /\ Edit \in AutoContents
                /\ \A n \in 1..MaxCommits : CommitContent(n) \in AutoContents
BY GitAutomationAssumption DEF AutoContents, Contents, Absent, Original, Edit, CommitContent
-----------------------------------------------------------------------------
(* The status rows.                                                        *)
LEMMA SyncSet ==
    ASSUME NEW rows \in AutoRows, NEW stacks, NEW state \in SyncStates
    PROVE  /\ SetSync(rows, stacks, state) \in AutoRows
           /\ DeployKept(SetSync(rows, stacks, state), rows)
           /\ \A s \in GitStacks : SetSync(rows, stacks, state)[s].sync =
                                     IF s \in stacks THEN state ELSE rows[s].sync
<1> DEFINE r == SetSync(rows, stacks, state)
<1>1. ASSUME NEW s \in GitStacks
      PROVE  r[s] = IF s \in stacks THEN [rows[s] EXCEPT !.sync = state] ELSE rows[s]
  BY DEF SetSync
<1>2. \A s \in GitStacks : rows[s] \in StackRow BY DEF AutoRows
<1>3. DOMAIN r = GitStacks /\ r = [s \in GitStacks |-> r[s]] BY DEF SetSync
<1>4. ASSUME NEW s \in GitStacks
      PROVE  /\ r[s] \in StackRow /\ r[s].deploy = rows[s].deploy
             /\ r[s].pause = rows[s].pause
             /\ r[s].sync = IF s \in stacks THEN state ELSE rows[s].sync
  BY <1>1, <1>2, <1>4 DEF StackRow
<1> HIDE DEF r
<1>5. r \in AutoRows BY <1>3, <1>4 DEF AutoRows
<1>6. DeployKept(r, rows) BY <1>4 DEF DeployKept
<1> QED BY <1>4, <1>5, <1>6 DEF r

LEMMA PreviewStates ==
    ASSUME NEW kind \in EntryKinds
    PROVE  /\ PreviewState(kind) \in SyncStates
           /\ PreviewState(kind) = "up_to_date" => kind \in {"unchanged", "deleted_locally"}
           /\ PreviewState(kind) \in {"conflict", "locally_deleted"} =>
                kind \in {"conflict", "restore"}
BY DEF EntryKinds, PreviewState, SyncStates

LEMMA PreviewRows ==
    ASSUME NEW rows \in AutoRows, NEW preview,
           \A s \in DOMAIN preview : preview[s] \in EntryKinds
    PROVE  /\ recordPreviewStackStatuses(rows, preview) \in AutoRows
           /\ DeployKept(recordPreviewStackStatuses(rows, preview), rows)
           /\ \A s \in GitStacks : recordPreviewStackStatuses(rows, preview)[s].sync =
                IF s \in DOMAIN preview THEN PreviewState(preview[s]) ELSE rows[s].sync
<1> DEFINE r == recordPreviewStackStatuses(rows, preview)
<1>1. ASSUME NEW s \in GitStacks
      PROVE  r[s] = IF s \in DOMAIN preview
                    THEN [rows[s] EXCEPT !.sync = PreviewState(preview[s])] ELSE rows[s]
  BY DEF recordPreviewStackStatuses
<1>2. \A s \in GitStacks : rows[s] \in StackRow BY DEF AutoRows
<1>3. r = [s \in GitStacks |-> r[s]] BY DEF recordPreviewStackStatuses
<1>4. \A s \in DOMAIN preview : PreviewState(preview[s]) \in SyncStates BY PreviewStates
<1> HIDE DEF r
<1>5. ASSUME NEW s \in GitStacks
      PROVE  /\ r[s] \in StackRow /\ r[s].deploy = rows[s].deploy
             /\ r[s].pause = rows[s].pause
             /\ r[s].sync = IF s \in DOMAIN preview THEN PreviewState(preview[s])
                            ELSE rows[s].sync
  <2>1. CASE s \in DOMAIN preview BY <1>1, <1>2, <1>4, <2>1 DEF StackRow
  <2>2. CASE s \notin DOMAIN preview BY <1>1, <1>2, <2>2 DEF StackRow
  <2> QED BY <2>1, <2>2
<1>6. r \in AutoRows BY <1>3, <1>5 DEF AutoRows
<1>7. DeployKept(r, rows) BY <1>5 DEF DeployKept
<1> QED BY <1>5, <1>6, <1>7 DEF r

LEMMA ExportStates ==
    ASSUME NEW kind \in {"unchanged", "add", "modify", "conflict", "deleted_locally"}
    PROVE  /\ ExportState(kind) \in SyncStates
           /\ ExportState(kind) = "up_to_date" => kind = "unchanged"
BY DEF ExportState, SyncStates

LEMMA ExportedRows ==
    ASSUME NEW rows \in AutoRows, NEW tree, NEW b
    PROVE  /\ ExportRows(rows, tree, b) \in AutoRows
           /\ DeployKept(ExportRows(rows, tree, b), rows)
           /\ \A s \in GitStacks : ExportRows(rows, tree, b)[s].sync = "up_to_date" =>
                ImportEntry(tree[s], files[s], b[s]) \notin {"conflict", "restore"}
<1> DEFINE r == ExportRows(rows, tree, b)
           k(s) == ExportEntry(files[s], tree[s], b[s])
<1>1. \A s \in GitStacks : r[s] = [rows[s] EXCEPT !.sync = ExportState(k(s))]
  BY DEF ExportRows
<1>2. \A s \in GitStacks : rows[s] \in StackRow BY DEF AutoRows
<1>3. r = [s \in GitStacks |-> r[s]] BY DEF ExportRows
<1>4. \A s \in GitStacks :
        k(s) \in {"unchanged", "add", "modify", "conflict", "deleted_locally"}
  BY ExportKinds
<1>5. \A s \in GitStacks : k(s) = "unchanged" =>
        ImportEntry(tree[s], files[s], b[s]) \notin {"conflict", "restore"}
  BY ExportKinds
<1> HIDE DEF r, k
<1>6. \A s \in GitStacks : /\ ExportState(k(s)) \in SyncStates
                           /\ ExportState(k(s)) = "up_to_date" => k(s) = "unchanged"
  BY <1>4, ExportStates
<1>7. \A s \in GitStacks : /\ r[s] \in StackRow /\ r[s].deploy = rows[s].deploy
                           /\ r[s].pause = rows[s].pause
                           /\ r[s].sync = ExportState(k(s))
  BY <1>1, <1>2, <1>6 DEF StackRow
<1>8. r \in AutoRows BY <1>3, <1>7 DEF AutoRows
<1>9. DeployKept(r, rows) BY <1>7 DEF DeployKept
<1> QED BY <1>5, <1>6, <1>7, <1>8, <1>9 DEF r

LEMMA Resolved ==
    ASSUME NEW rows \in AutoRows, NEW lnk \in LinkColumns, NEW complete
    PROVE  LET c == clearResolvedDeploymentStates(rows, lnk, complete)
           IN /\ c[1] \in AutoRows /\ c[2] \in LinkColumns
              /\ SyncKept(c[1], rows)
              /\ \A s \in GitStacks : c[1][s].deploy \in {rows[s].deploy, "idle"}
              /\ c[2].last = lnk.last
<1> DEFINE c == clearResolvedDeploymentStates(rows, lnk, complete)
           cleared == {s \in complete : rows[s].deploy \in Unsuccessful}
           r == [s \in GitStacks |-> IF s \in cleared
                   THEN [rows[s] EXCEPT !.deploy = "idle"] ELSE rows[s]]
<1> SUFFICES /\ c[1] \in AutoRows /\ c[2] \in LinkColumns
             /\ SyncKept(c[1], rows)
             /\ \A s \in GitStacks : c[1][s].deploy \in {rows[s].deploy, "idle"}
             /\ c[2].last = lnk.last
  OBVIOUS
<1>1. \A s \in GitStacks : rows[s] \in StackRow BY DEF AutoRows
<1>2. \A s \in GitStacks : /\ r[s] \in StackRow /\ r[s].sync = rows[s].sync
                           /\ r[s].pause = rows[s].pause
                           /\ r[s].deploy \in {rows[s].deploy, "idle"}
  BY <1>1 DEF StackRow, terminalStackDeployStates
<1>3. r \in AutoRows BY <1>2 DEF AutoRows
<1>4. PICK d \in {"failed", "partial", "watching"} :
        cleared # {} => c = <<r, [lnk EXCEPT !.deploy = d]>>
  BY DEF clearResolvedDeploymentStates
<1>5. cleared = {} => c = <<rows, lnk>> BY DEF clearResolvedDeploymentStates
<1>6. /\ [lnk EXCEPT !.deploy = d] \in LinkColumns
      /\ [lnk EXCEPT !.deploy = d].last = lnk.last
  BY DEF LinkColumns
<1>7. SyncKept(rows, rows) /\ SyncKept(r, rows) BY <1>2 DEF SyncKept
<1> HIDE DEF c, r, cleared
<1>8. CASE cleared = {} BY <1>5, <1>7, <1>8
<1>9. CASE cleared # {}
  <2>1. c[1] = r /\ c[2] = [lnk EXCEPT !.deploy = d] BY <1>4, <1>9
  <2> QED BY <2>1, <1>2, <1>3, <1>6, <1>7
<1> QED BY <1>8, <1>9

-----------------------------------------------------------------------------
(* The scan and the previews.                                              *)
LEMMA Previews ==
    ASSUME NEW paths \in SUBSET GitStacks, NEW src, NEW dst, NEW b
    PROVE  LET p == ImportPreview(paths, src, dst, b)
           IN /\ DOMAIN p = paths
              /\ \A s \in paths : /\ p[s] = ImportEntry(src[s], dst[s], b[s])
                                  /\ p[s] \in EntryKinds
              /\ src \in AutoTrees /\ dst \in AutoTrees =>
                   PreviewToken(p, src, dst) \in Tokens
<1> DEFINE p == ImportPreview(paths, src, dst, b)
           t == PreviewToken(p, src, dst)
<1>1. DOMAIN p = paths /\ \A s \in paths : p[s] = ImportEntry(src[s], dst[s], b[s])
  BY DEF ImportPreview
<1>2. \A s \in paths : p[s] \in EntryKinds BY <1>1, ImportKinds
<1>3. t = [s \in paths |-> <<p[s], src[s], dst[s]>>] BY <1>1 DEF PreviewToken
<1> HIDE DEF p, t
<1>4. ASSUME src \in AutoTrees, dst \in AutoTrees PROVE t \in Tokens
  <2>1. \A s \in paths : src[s] \in AutoContents /\ dst[s] \in AutoContents
    BY <1>4 DEF AutoTrees
  <2>2. t \in [paths -> TokenEntry] BY <1>2, <1>3, <2>1 DEF TokenEntry
  <2> QED BY <2>2 DEF Tokens
<1>5. /\ DOMAIN p = paths
      /\ \A s \in paths : /\ p[s] = ImportEntry(src[s], dst[s], b[s])
                          /\ p[s] \in EntryKinds
      /\ src \in AutoTrees /\ dst \in AutoTrees => t \in Tokens
  BY <1>1, <1>2, <1>4
<1> QED BY <1>5 DEF p, t

LEMMA IdleCycle == /\ Idle \in CycleRec /\ Idle.at = "idle" /\ Idle.now = {}
                   /\ Idle.commit = 0
<1>1. << >> \in Tokens
  <2>1. << >> = [s \in {} |-> s] OBVIOUS
  <2>2. << >> \in [{} -> TokenEntry] BY <2>1
  <2> QED BY <2>2 DEF Tokens
<1>2. [s \in GitStacks |-> Absent] \in AutoTrees BY Unseen DEF AutoTrees
<1>3. [s \in GitStacks |-> "none"] \in [GitStacks -> Outcomes] BY DEF Outcomes
<1> QED BY <1>1, <1>2, <1>3 DEF Idle, CycleRec

LEMMA AutoInitInv == AutoInit => AutoInv
<1> SUFFICES ASSUME AutoInit PROVE AutoInv OBVIOUS
<1>1. provider \in AutoTrees BY Unseen DEF AutoInit, AutoTrees
<1>2. /\ files \in AutoTrees /\ base \in AutoTrees /\ running \in AutoTrees
      /\ clone = [head |-> 0, tree |-> provider]
  BY <1>1 DEF AutoInit
<1>3. clone \in Clone /\ clone.head = 0 BY <1>1, <1>2 DEF Clone
<1>4. row \in [GitStacks -> StackRow]
  BY DEF AutoInit, StackRow, SyncStates, terminalStackDeployStates
<1>5. drow \in [GitStacks -> DeployRow] /\ \A s \in GitStacks : drow[s].commit = NoCommit
  BY DEF AutoInit, DeployRow, NoCommit
<1>6. link \in LinkColumns /\ link.last = NoCommit
  BY DEF AutoInit, LinkColumns, NoCommit
<1>7. AutoShapes
  BY <1>1, <1>2, <1>3, <1>4, <1>5, <1>6, IdleCycle, GitAutomationAssumption
  DEF AutoInit, AutoShapes
<1>8. AutoNumbers
  BY <1>3, <1>5, <1>6, IdleCycle, GitAutomationAssumption
  DEF AutoInit, AutoNumbers, NoCommit
<1>9. CyclePlan /\ WritePlan /\ EditMarks /\ Decided
  BY IdleCycle DEF AutoInit, CyclePlan, WritePlan, EditMarks, Decided
<1>10. InFlightIsRunning
  BY DEF AutoInit, InFlightIsRunning, terminalStackDeployStates
<1> QED BY <1>7, <1>8, <1>9, <1>10 DEF AutoInv
-----------------------------------------------------------------------------
(* What a step that takes no part in a cycle leaves alone.                 *)
LEMMA AutoOutside ==
    ASSUME AutoInv, AutoShapes', AutoNumbers', EditMarks',
           UNCHANGED <<base, cycle>>,
           \A s \in GitStacks : files'[s] # files[s] => s \in late',
           late \subseteq late',
           activeAutomationComposePaths' = activeAutomationComposePaths,
           \A s \in GitStacks : /\ drow'[s].state = drow[s].state
                                /\ row'[s].deploy = row[s].deploy,
           Decided'
    PROVE  AutoInv'
<1>1. cycle.now \subseteq GitStacks /\ cycle.wrote \subseteq GitStacks
  BY DEF AutoInv, AutoShapes, CycleRec
<1>2. CyclePlan' BY <1>1 DEF AutoInv, CyclePlan
<1>3. WritePlan' BY <1>1 DEF AutoInv, WritePlan
<1>4. InFlightIsRunning' BY DEF AutoInv, InFlightIsRunning
<1> QED BY <1>2, <1>3, <1>4 DEF AutoInv

(* Between two cycles nothing is planned or being deployed.                *)
LEMMA AutoBetween ==
    ASSUME AutoInv, AutoShapes', AutoNumbers', cycle.at = "idle",
           cycle' = cycle \/ cycle' = Idle,
           \A s \in GitStacks : /\ drow'[s].state = drow[s].state
                                /\ row'[s].deploy \in {row[s].deploy, "idle"}
    PROVE  AutoInv'
<1>1. cycle'.at = "idle" /\ cycle'.now = {} /\ cycle.now = {}
  BY IdleCycle DEF AutoInv, CyclePlan
<1>2. CyclePlan' /\ WritePlan' /\ EditMarks' /\ Decided'
  BY <1>1 DEF CyclePlan, WritePlan, EditMarks, Decided
<1>3. InFlightIsRunning'
  BY <1>1 DEF AutoInv, InFlightIsRunning, terminalStackDeployStates
<1> QED BY <1>2, <1>3 DEF AutoInv

LEMMA AutoProvider ==
    ASSUME AutoInv, NEW s \in GitStacks, PushToProvider(s) PROVE AutoStep
<1>1. PICK content \in {CommitContent(commit'), Absent} :
        /\ provider' = [provider EXCEPT ![s] = content]
        /\ \E bad \in SUBSET ({content} \ {Absent}) : broken' = broken \cup bad
  BY DEF PushToProvider
<1>2. /\ commit' = commit + 1 /\ commit' \in 1..MaxCommits
      /\ UNCHANGED <<clone, files, base, running, row, drow, link, authorized,
                     busy, dirty, cycle, marking, touched, late, events>>
  BY GitAutomationAssumption DEF PushToProvider, AutoInv, AutoNumbers
<1>3. content \in AutoContents BY <1>2, Unseen
<1>4. provider' \in AutoTrees BY <1>1, <1>3 DEF AutoInv, AutoShapes, AutoTrees
<1>5. broken' \subseteq Contents BY <1>1, <1>3 DEF AutoInv, AutoShapes, AutoContents
<1>6. AutoShapes' BY <1>2, <1>4, <1>5 DEF AutoInv, AutoShapes
<1>7. AutoNumbers'
  BY <1>2, GitAutomationAssumption DEF AutoInv, AutoNumbers, NoCommit
<1>8. EditMarks' /\ Decided'
  BY <1>2 DEF AutoInv, EditMarks, Decided, activeAutomationComposePaths
<1>9. activeAutomationComposePaths' = activeAutomationComposePaths
  BY <1>2 DEF activeAutomationComposePaths
<1>10. AutoInv' BY <1>2, <1>6, <1>7, <1>8, <1>9, AutoOutside
<1> QED BY <1>2, <1>10 DEF AutoStep, EditStep, DecisionStep

LEMMA AutoSave ==
    ASSUME AutoInv, NEW s \in GitStacks, SaveStackFile(s) PROVE AutoStep
<1>1. PICK content \in {Edit, Absent} :
        /\ files' = [files EXCEPT ![s] = content]
        /\ marking' = [marking EXCEPT ![s] =
                         IF content = Absent THEN "delete" ELSE "edit"]
  BY DEF SaveStackFile
<1>2. /\ touched' = touched \cup {s} /\ late' = late \cup {s}
      /\ events' = events + 1 /\ events < MaxEvents
      /\ UNCHANGED <<commit, provider, broken, clone, base, running, row, drow,
                     link, authorized, busy, dirty, cycle>>
  BY DEF SaveStackFile, Spend
<1>3. content \in AutoContents BY Unseen
<1>4. files' \in AutoTrees /\ \A t \in GitStacks \ {s} : files'[t] = files[t]
  BY <1>1, <1>3 DEF AutoInv, AutoShapes, AutoTrees
<1>5. marking' \in [GitStacks -> {"none", "edit", "delete"}]
  BY <1>1 DEF AutoInv, AutoShapes
<1>6. AutoShapes' BY <1>2, <1>4, <1>5 DEF AutoInv, AutoShapes
<1>7. AutoNumbers'
  BY <1>2, GitAutomationAssumption DEF AutoInv, AutoNumbers
<1>8. EditMarks' BY <1>1, <1>2 DEF AutoInv, AutoShapes, EditMarks
<1>9. Decided'
  BY <1>2, <1>4 DEF AutoInv, Decided, activeAutomationComposePaths
<1>10. /\ \A t \in GitStacks : files'[t] # files[t] => t \in late'
       /\ late \subseteq late'
       /\ activeAutomationComposePaths' = activeAutomationComposePaths
  BY <1>2, <1>4 DEF activeAutomationComposePaths
<1>11. AutoInv' BY <1>2, <1>6, <1>7, <1>8, <1>9, <1>10, AutoOutside
<1> QED BY <1>2, <1>11 DEF AutoStep, EditStep, DecisionStep

LEMMA AutoMark ==
    ASSUME AutoInv, NEW s \in GitStacks, MarkLocalChange(s) PROVE AutoStep
<1> DEFINE state == IF files[s] = Absent THEN "locally_deleted" ELSE "local_changes"
<1>1. /\ marking[s] # "none"
      /\ marking[s] = "delete" => cycle.at = "idle"
      /\ marking' = [marking EXCEPT ![s] = "none"]
      /\ row' = [row EXCEPT ![s].sync = state]
      /\ UNCHANGED <<commit, provider, broken, clone, files, base, running, drow,
                     link, authorized, busy, dirty, cycle, touched, late, events>>
  BY DEF MarkLocalChange
<1>2. state \in SyncStates /\ state # "conflict" BY DEF SyncStates
<1> HIDE DEF state
<1>3. /\ row' \in AutoRows
      /\ \A t \in GitStacks : /\ row'[t].deploy = row[t].deploy
                              /\ row'[t].pause = row[t].pause
      /\ \A t \in GitStacks \ {s} : row'[t].sync = row[t].sync
      /\ row'[s].sync = state
  BY <1>1, <1>2 DEF AutoInv, AutoShapes, StackRow, AutoRows
<1>4. marking' \in [GitStacks -> {"none", "edit", "delete"}]
  BY <1>1 DEF AutoInv, AutoShapes
<1>5. AutoShapes' BY <1>1, <1>3, <1>4 DEF AutoInv, AutoShapes, AutoRows
<1>6. AutoNumbers' BY <1>1 DEF AutoInv, AutoNumbers
<1>7. EditMarks' BY <1>1 DEF AutoInv, AutoShapes, EditMarks
<1>8. cycle.at # "idle" => s \in touched BY <1>1 DEF AutoInv, EditMarks
<1>9. activeAutomationComposePaths' = activeAutomationComposePaths
  BY <1>3 DEF activeAutomationComposePaths
<1>10. Decided'
  BY <1>1, <1>3, <1>8, <1>9 DEF AutoInv, Decided, activeAutomationComposePaths
<1>11. AutoInv' BY <1>1, <1>3, <1>5, <1>6, <1>7, <1>9, <1>10, AutoOutside
<1> QED BY <1>1, <1>11 DEF AutoStep, EditStep, DecisionStep

LEMMA AutoEditor ==
    ASSUME AutoInv, NEW s \in GitStacks, ChangeEditor(s) \/ ChangeLock(s) PROVE AutoStep
<1>1. /\ events' \in 0..MaxEvents
      /\ dirty' \subseteq GitStacks /\ busy' \subseteq GitStacks
      /\ UNCHANGED <<commit, provider, broken, clone, files, base, running, row,
                     drow, link, authorized, cycle, marking, touched, late>>
  BY GitAutomationAssumption
  DEF ChangeEditor, ChangeLock, Spend, AutoInv, AutoShapes, AutoNumbers
<1>2. AutoShapes' BY <1>1 DEF AutoInv, AutoShapes
<1>3. AutoNumbers' BY <1>1 DEF AutoInv, AutoNumbers
<1>4. EditMarks' /\ Decided'
  BY <1>1 DEF AutoInv, EditMarks, Decided, activeAutomationComposePaths
<1>5. activeAutomationComposePaths' = activeAutomationComposePaths
  BY <1>1 DEF activeAutomationComposePaths
<1>6. AutoInv' BY <1>1, <1>2, <1>3, <1>4, <1>5, AutoOutside
<1> QED BY <1>1, <1>6 DEF AutoStep, EditStep, DecisionStep

-----------------------------------------------------------------------------
(* What an operator does between two cycles.                               *)
LEMMA AutoPause ==
    ASSUME AutoInv, NEW s \in GitStacks, SetGitStackAutomationPause(s) PROVE AutoStep
<1>1. /\ cycle.at = "idle" /\ events < MaxEvents /\ events' = events + 1
      /\ row' = [row EXCEPT ![s].pause = "manual"]
      /\ UNCHANGED <<commit, provider, broken, clone, files, base, running, drow,
                     link, authorized, busy, dirty, cycle, marking, touched, late>>
  BY DEF SetGitStackAutomationPause, Spend
<1>2. row' \in AutoRows /\ \A t \in GitStacks : row'[t].deploy = row[t].deploy
  BY <1>1 DEF AutoInv, AutoShapes, StackRow, AutoRows
<1>3. AutoShapes' BY <1>1, <1>2 DEF AutoInv, AutoShapes, AutoRows
<1>4. AutoNumbers' BY <1>1, GitAutomationAssumption DEF AutoInv, AutoNumbers
<1>5. AutoInv' BY <1>1, <1>2, <1>3, <1>4, AutoBetween
<1> QED BY <1>1, <1>5 DEF AutoStep, EditStep, DecisionStep

(* The export of one stack.                                                *)
LEMMA AutoPush ==
    ASSUME AutoInv, NEW s \in GitStacks, NEW pause \in {"none", "manual"},
           PushGitStack(s, pause), cycle.at = "idle", events' \in 0..MaxEvents,
           UNCHANGED <<broken, files, running, drow, authorized, busy, dirty,
                       cycle, marking, touched, late>>
    PROVE  AutoStep
<1> DEFINE cleared == clearResolvedDeploymentStates(row, link, {s})
           rows == ExportRows(cleared[1], provider', base')
<1>1. /\ clone.head = commit /\ commit < MaxCommits /\ commit' = commit + 1
      /\ provider' = [provider EXCEPT ![s] = files[s]]
      /\ clone' = [head |-> commit', tree |-> provider']
      /\ base' = [base EXCEPT ![s] = files[s]]
      /\ link' = cleared[2]
      /\ row' = [rows EXCEPT ![s].pause = pause]
  BY DEF PushGitStack
<1>2. row \in AutoRows /\ link \in LinkColumns
  BY DEF AutoInv, AutoShapes, AutoRows
<1>3. /\ cleared[1] \in AutoRows /\ cleared[2] \in LinkColumns
      /\ \A t \in GitStacks : cleared[1][t].deploy \in {row[t].deploy, "idle"}
      /\ cleared[2].last = link.last
  BY <1>2, Resolved
<1> HIDE DEF cleared
<1>4. /\ rows \in AutoRows /\ DeployKept(rows, cleared[1])
      /\ \A t \in GitStacks : rows[t].sync = "up_to_date" =>
           ImportEntry(provider'[t], files[t], base'[t]) \notin {"conflict", "restore"}
  BY <1>3, ExportedRows
<1> HIDE DEF rows
<1>5. /\ row' \in AutoRows
      /\ \A t \in GitStacks : row'[t].sync = rows[t].sync
                              /\ row'[t].deploy = rows[t].deploy
  BY <1>1, <1>4 DEF AutoRows, StackRow
<1>6. \A t \in GitStacks : row'[t].deploy \in {row[t].deploy, "idle"}
  BY <1>3, <1>4, <1>5 DEF DeployKept
<1>7. provider' \in AutoTrees /\ base' \in AutoTrees
  BY <1>1 DEF AutoInv, AutoShapes, AutoTrees
<1>8. commit' \in 0..MaxCommits /\ commit' \in Nat
  BY <1>1, GitAutomationAssumption DEF AutoInv, AutoNumbers
<1>9. clone' \in Clone /\ clone'.head = commit'
  BY <1>1, <1>7, <1>8 DEF Clone
<1>10. AutoShapes'
  BY <1>1, <1>3, <1>5, <1>7, <1>9 DEF AutoInv, AutoShapes, AutoRows
<1>11. AutoNumbers'
  BY <1>1, <1>3, <1>8, <1>9 DEF AutoInv, AutoNumbers, NoCommit
<1>12. AutoInv' BY <1>6, <1>10, <1>11, AutoBetween
<1>13. DecisionStep BY <1>4, <1>5 DEF DecisionStep
<1> QED BY <1>12, <1>13 DEF AutoStep, EditStep

(* The rows are rewritten and nothing else that a property is about.       *)
LEMMA AutoShown ==
    ASSUME AutoInv, cycle.at = "idle", row' \in AutoRows, events' \in 0..MaxEvents,
           \A t \in GitStacks : row'[t].deploy = row[t].deploy,
           UNCHANGED <<commit, provider, base, link, broken, files, running, drow,
                       authorized, busy, dirty, cycle, marking, touched, late>>,
           clone' = clone \/ clone' = [head |-> commit, tree |-> provider]
    PROVE  AutoStep
<1>1. clone' \in Clone /\ clone'.head \in 0..commit
  BY GitAutomationAssumption DEF AutoInv, AutoShapes, AutoNumbers, Clone
<1>2. AutoShapes' BY <1>1 DEF AutoInv, AutoShapes, AutoRows
<1>3. AutoNumbers' BY <1>1 DEF AutoInv, AutoNumbers
<1>4. AutoInv' BY <1>2, <1>3, AutoBetween
<1> QED BY <1>4 DEF AutoStep, EditStep, DecisionStep

LEMMA AutoResume ==
    ASSUME AutoInv, NEW s \in GitStacks, ResumeGitStackAutomation(s) PROVE AutoStep
<1> DEFINE rows == ExportRows(row, clone.tree, base)
<1>1. /\ cycle.at = "idle" /\ events' = events
      /\ UNCHANGED <<broken, files, running, drow, authorized, busy, dirty,
                     cycle, marking, touched, late>>
      /\ \/ PushGitStack(s, "none")
         \/ /\ UNCHANGED <<commit, clone, provider, base, link>>
            /\ \/ row' = [row EXCEPT ![s].pause = "none"]
               \/ row' = rows
               \/ row' = [rows EXCEPT ![s].pause = "none"]
  BY DEF ResumeGitStackAutomation
<1>2. events' \in 0..MaxEvents /\ row \in AutoRows
  BY <1>1 DEF AutoInv, AutoShapes, AutoNumbers, AutoRows
<1>3. rows \in AutoRows /\ \A t \in GitStacks : rows[t].deploy = row[t].deploy
  BY <1>2, ExportedRows DEF DeployKept
<1> HIDE DEF rows
<1>4. CASE PushGitStack(s, "none") BY <1>1, <1>2, <1>4, AutoPush
<1>5. CASE /\ UNCHANGED <<commit, clone, provider, base, link>>
           /\ \/ row' = [row EXCEPT ![s].pause = "none"]
              \/ row' = rows
              \/ row' = [rows EXCEPT ![s].pause = "none"]
  <2>1. row' \in AutoRows /\ \A t \in GitStacks : row'[t].deploy = row[t].deploy
    <3>1. CASE row' = [row EXCEPT ![s].pause = "none"]
      BY <1>2, <3>1 DEF AutoRows, StackRow
    <3>2. CASE row' = rows BY <1>3, <3>2
    <3>3. CASE row' = [rows EXCEPT ![s].pause = "none"]
      BY <1>3, <3>3 DEF AutoRows, StackRow
    <3> QED BY <1>5, <3>1, <3>2, <3>3
  <2> QED BY <1>1, <1>2, <1>5, <2>1, AutoShown
<1> QED BY <1>1, <1>4, <1>5

LEMMA AutoPublish ==
    ASSUME AutoInv, NEW s \in GitStacks, PushGitStackAndResume(s) PROVE AutoStep
<1>1. /\ cycle.at = "idle" /\ events < MaxEvents /\ events' = events + 1
      /\ UNCHANGED <<broken, files, running, drow, authorized, busy, dirty,
                     cycle, marking, touched, late>>
      /\ \/ PushGitStack(s, row[s].pause)
         \/ /\ row' = ExportRows(row, clone.tree, base)
            /\ UNCHANGED <<commit, clone, provider, base, link>>
  BY DEF PushGitStackAndResume, Spend
<1>2. events' \in 0..MaxEvents /\ row \in AutoRows
  BY <1>1, GitAutomationAssumption DEF AutoInv, AutoShapes, AutoNumbers, AutoRows
<1>3. row[s].pause \in {"none", "manual"} BY <1>2 DEF AutoRows, StackRow
<1>4. CASE PushGitStack(s, row[s].pause) BY <1>1, <1>2, <1>3, <1>4, AutoPush
<1>5. CASE /\ row' = ExportRows(row, clone.tree, base)
           /\ UNCHANGED <<commit, clone, provider, base, link>>
  <2>1. row' \in AutoRows /\ \A t \in GitStacks : row'[t].deploy = row[t].deploy
    BY <1>2, <1>5, ExportedRows DEF DeployKept
  <2> QED BY <1>1, <1>2, <1>5, <2>1, AutoShown
<1> QED BY <1>1, <1>4, <1>5

(* What a transfer leaves as the baseline of a path: its old one or what   *)
(* the source holds, and the latter for what was transferred.              *)
Transferred(n, b, paths, src, dst, selected) ==
    \A s \in GitStacks :
       /\ n[s] = b[s] \/ (s \in paths /\ n[s] = src[s])
       /\ s \in paths /\ src[s] # Absent /\ (s \in selected \/ dst[s] = src[s])
            => n[s] = src[s]
       /\ n[s] # b[s] => s \in paths /\ src[s] # Absent
                         /\ (s \in selected \/ dst[s] = src[s])

LEMMA Baselines ==
    ASSUME NEW b \in AutoTrees, NEW paths \in SUBSET GitStacks,
           NEW src \in [paths -> AutoContents], NEW dst, NEW selected,
           NEW n, n = BaselineAfterTransfer(b, src, dst, selected)
    PROVE  n \in AutoTrees /\ Transferred(n, b, paths, src, dst, selected)
<1>1. DOMAIN b = GitStacks /\ \A s \in GitStacks : b[s] \in AutoContents
  BY DEF AutoTrees
<1>2. n = [s \in GitStacks |->
             IF s \in paths /\ src[s] # Absent /\ (s \in selected \/ dst[s] = src[s])
             THEN src[s] ELSE b[s]]
  BY <1>1 DEF BaselineAfterTransfer
<1>3. n \in AutoTrees BY <1>1, <1>2 DEF AutoTrees
<1>4. \A s \in GitStacks :
        n[s] = IF s \in paths /\ src[s] # Absent /\ (s \in selected \/ dst[s] = src[s])
               THEN src[s] ELSE b[s]
  BY <1>2
<1> QED BY <1>3, <1>4 DEF Transferred

LEMMA AutoSyncNow ==
    ASSUME AutoInv, NEW s \in GitStacks, SyncGitStackNow(s) PROVE AutoStep
<1> DEFINE preview == ImportPreview(GitStacks, provider, files, base)
           rows == recordPreviewStackStatuses(row, preview)
           shown == IF dirty = {} THEN {s} ELSE {}
<1>1. /\ cycle.at = "idle" /\ events < MaxEvents /\ events' = events + 1
      /\ clone' = [head |-> commit, tree |-> provider]
      /\ UNCHANGED <<commit, provider, broken, running, drow, authorized, busy,
                     dirty, cycle, marking, touched, late>>
      /\ \/ /\ preview[s] \in {"add", "modify"}
            /\ files' = [files EXCEPT ![s] = provider[s]]
            /\ base' = BaselineAfterTransfer(base, provider, files, {s})
            /\ link' = [link EXCEPT
                 !.deploy = IF s \in authorized THEN "pending" ELSE @,
                 !.sync = IF @ = "conflict" /\ Conflicts(preview) = {}
                          THEN "watching" ELSE @]
            /\ row' = SetSync(rows, shown, "up_to_date")
         \/ row' = rows /\ UNCHANGED <<files, base, link>>
  BY DEF SyncGitStackNow, Pull, Spend
<1>2. events' \in 0..MaxEvents /\ row \in AutoRows /\ link \in LinkColumns
  BY <1>1, GitAutomationAssumption DEF AutoInv, AutoShapes, AutoNumbers, AutoRows
<1>3. /\ DOMAIN preview = GitStacks
      /\ \A t \in GitStacks : /\ preview[t] = ImportEntry(provider[t], files[t], base[t])
                              /\ preview[t] \in EntryKinds
  BY Previews
<1>4. /\ rows \in AutoRows /\ DeployKept(rows, row)
      /\ \A t \in GitStacks : rows[t].sync = PreviewState(preview[t])
  BY <1>2, <1>3, PreviewRows
<1> HIDE DEF rows
<1>5. \A t \in GitStacks : rows[t].sync = "up_to_date" =>
        preview[t] \in {"unchanged", "deleted_locally"}
  BY <1>3, <1>4, PreviewStates
<1>6. \A t \in GitStacks : preview[t] # "deleted_locally" BY <1>3, ImportKinds
<1>7. CASE row' = rows /\ UNCHANGED <<files, base, link>>
  BY <1>1, <1>2, <1>4, <1>7, AutoShown DEF DeployKept
<1>8. CASE /\ preview[s] \in {"add", "modify"}
           /\ files' = [files EXCEPT ![s] = provider[s]]
           /\ base' = BaselineAfterTransfer(base, provider, files, {s})
           /\ link' = [link EXCEPT
                !.deploy = IF s \in authorized THEN "pending" ELSE @,
                !.sync = IF @ = "conflict" /\ Conflicts(preview) = {}
                         THEN "watching" ELSE @]
           /\ row' = SetSync(rows, shown, "up_to_date")
  <2>1. /\ provider \in AutoTrees /\ files \in AutoTrees /\ base \in AutoTrees
        /\ DOMAIN provider = GitStacks
        /\ \A t \in GitStacks : provider[t] \in AutoContents
    BY DEF AutoInv, AutoShapes, AutoTrees
  <2>2. /\ files' \in AutoTrees /\ files'[s] = provider[s]
        /\ \A t \in GitStacks \ {s} : files'[t] = files[t]
    BY <1>8, <2>1 DEF AutoTrees
  <2>3. /\ base' \in AutoTrees
        /\ \A t \in GitStacks :
             /\ base'[t] = base[t] \/ base'[t] = provider[t]
             /\ base'[t] # base[t] => provider[t] # Absent
                                      /\ (t = s \/ files[t] = provider[t])
    <3>1. GitStacks \in SUBSET GitStacks OBVIOUS
    <3>2. provider \in [GitStacks -> AutoContents] BY <2>1 DEF AutoTrees
    <3>3. base' = BaselineAfterTransfer(base, provider, files, {s}) BY <1>8
    <3>4. base' \in AutoTrees /\ Transferred(base', base, GitStacks, provider, files, {s})
      BY <2>1, <3>1, <3>2, <3>3, Baselines
    <3> QED BY <3>4 DEF Transferred
  <2>4. link' \in LinkColumns /\ link'.last = link.last
    BY <1>2, <1>8 DEF LinkColumns
  <2>5. "up_to_date" \in SyncStates BY DEF SyncStates
  <2>6. /\ row' \in AutoRows /\ DeployKept(row', rows)
        /\ \A t \in GitStacks :
             row'[t].sync = IF t \in shown THEN "up_to_date" ELSE rows[t].sync
    BY <1>4, <1>8, <2>5, SyncSet
  <2>7. clone' \in Clone /\ clone'.head \in 0..commit
    BY <1>1, <2>1, GitAutomationAssumption DEF AutoInv, AutoNumbers, Clone
  <2>8. AutoShapes'
    BY <1>1, <2>2, <2>3, <2>4, <2>6, <2>7 DEF AutoInv, AutoShapes, AutoRows
  <2>9. AutoNumbers' BY <1>1, <1>2, <2>4, <2>7 DEF AutoInv, AutoNumbers
  <2>10. \A t \in GitStacks : row'[t].deploy \in {row[t].deploy, "idle"}
    BY <1>4, <2>6 DEF DeployKept
  <2>11. AutoInv' BY <1>1, <2>8, <2>9, <2>10, AutoBetween
  <2>12. ASSUME NEW t \in GitStacks, row'[t].sync = "up_to_date"
         PROVE  ImportEntry(provider'[t], files'[t], base'[t]) \notin {"conflict", "restore"}
    <3>1. provider' = provider BY <1>1
    <3>2. CASE t = s BY <2>2, <3>1, <3>2, ImportKinds
    <3>3. CASE t # s
      <4>1. preview[t] = "unchanged" BY <1>5, <1>6, <2>6, <2>12, <3>3
      <4>2. /\ ImportEntry(provider[t], files[t], base[t]) = "unchanged"
            /\ ImportEntry(provider[t], files[t], provider[t]) = "unchanged"
        BY <1>3, <4>1, ImportKinds
      <4> QED BY <2>2, <2>3, <3>1, <3>3, <4>2
    <3> QED BY <3>2, <3>3
  <2>13. DecisionStep BY <2>12 DEF DecisionStep
  <2> QED BY <1>1, <2>11, <2>13 DEF AutoStep, EditStep
<1> QED BY <1>1, <1>7, <1>8

LEMMA AutoReset == ASSUME AutoInv, ResetBindingAutomationState PROVE AutoStep
<1>1. /\ cycle.at = "idle" /\ events < MaxEvents /\ events' = events + 1
      /\ row' = [s \in GitStacks |->
                   IF row[s].deploy \in Unsuccessful
                   THEN [row[s] EXCEPT !.deploy = "idle"] ELSE row[s]]
      /\ link' = [link EXCEPT !.sync = "idle", !.deletion = FALSE,
                    !.last = NoCommit, !.deploy = "watching"]
      /\ UNCHANGED <<commit, provider, broken, clone, files, base, running, drow,
                     authorized, busy, dirty, cycle, marking, touched, late>>
  BY DEF ResetBindingAutomationState, Spend
<1>2. \A s \in GitStacks : row[s] \in StackRow BY DEF AutoInv, AutoShapes
<1>3. \A s \in GitStacks : /\ row'[s] \in StackRow /\ row'[s].sync = row[s].sync
                           /\ row'[s].deploy \in {row[s].deploy, "idle"}
  BY <1>1, <1>2 DEF StackRow, terminalStackDeployStates
<1>4. row' \in [GitStacks -> StackRow] BY <1>1, <1>3
<1>5. link' \in LinkColumns /\ link'.last = NoCommit
  <2>1. link \in LinkColumns /\ NoCommit \in Int BY DEF AutoInv, AutoShapes, NoCommit
  <2> QED BY <1>1, <2>1 DEF LinkColumns
<1>6. AutoShapes' BY <1>1, <1>4, <1>5 DEF AutoInv, AutoShapes
<1>7. AutoNumbers'
  BY <1>1, <1>5, GitAutomationAssumption DEF AutoInv, AutoNumbers, NoCommit
<1>8. AutoInv' BY <1>1, <1>3, <1>6, <1>7, AutoBetween
<1>9. DecisionStep BY <1>3 DEF DecisionStep
<1> QED BY <1>1, <1>8, <1>9 DEF AutoStep, EditStep

(* What a rollback writes back, in a deployment or before a stop: over     *)
(* what the import wrote, which is the baseline by then, or over what was  *)
(* saved since the comparison.                                             *)
LEMMA RollsBackOwn ==
    ASSUME AutoInv, NEW s \in cycle.now, cycle.at = "restore"
    PROVE  /\ files[s] # cycle.before[s] => files[s] = base[s] \/ s \in late
           /\ cycle.before \in AutoTrees /\ s \in cycle.wrote
<1>1. s \in cycle.wrote /\ (s \in late \/ files[s] \in {cycle.token[s][2], cycle.before[s]})
  BY DEF AutoInv, CyclePlan
<1>2. base[s] = cycle.token[s][2] BY <1>1 DEF AutoInv, CyclePlan
<1>3. cycle.before \in AutoTrees BY DEF AutoInv, AutoShapes, CycleRec
<1> QED BY <1>1, <1>2, <1>3

LEMMA AutoRecover == ASSUME AutoInv, RecoverInterruptedOperations PROVE AutoStep
<1>1. /\ events < MaxEvents /\ events' = events + 1
      /\ drow' = MarkInterruptedDeployments(drow)
      /\ row' = ClearInterruptedStackDeployStates(row)
      /\ link' = ClearStaleAutoSyncBlocks(link)
      /\ cycle' = Idle /\ busy' = {} /\ dirty' = {}
      /\ marking' = [s \in GitStacks |-> "none"]
      /\ UNCHANGED <<commit, provider, broken, clone, base, authorized, touched, late>>
  BY DEF RecoverInterruptedOperations, Spend
<1>2. cycle.now \subseteq GitStacks /\ files \in AutoTrees /\ running \in AutoTrees
  BY DEF AutoInv, AutoShapes, CycleRec
<1>3. /\ files' \in AutoTrees /\ running' \in AutoTrees
      /\ \A t \in GitStacks : files'[t] # files[t] => files[t] = base[t] \/ t \in late
  <2>1. CASE UNCHANGED <<running, files>> BY <1>2, <2>1
  <2>2. ASSUME NEW s \in cycle.now,
               \E content \in {running[s], files[s]} :
                 running' = [running EXCEPT ![s] = content],
               \/ UNCHANGED files
               \/ /\ cycle.at = "restore"
                  /\ files' = [files EXCEPT ![s] = cycle.before[s]]
        PROVE  /\ files' \in AutoTrees /\ running' \in AutoTrees
               /\ \A t \in GitStacks : files'[t] # files[t] => files[t] = base[t] \/ t \in late
    <3>1. running' \in AutoTrees BY <1>2, <2>2 DEF AutoTrees
    <3>2. CASE UNCHANGED files BY <1>2, <3>1, <3>2
    <3>3. CASE /\ cycle.at = "restore"
               /\ files' = [files EXCEPT ![s] = cycle.before[s]]
      <4>1. files' \in AutoTrees BY <1>2, <3>3, RollsBackOwn DEF AutoTrees
      <4>2. \A t \in GitStacks : files'[t] # files[t] => files[t] = base[t] \/ t \in late
        BY <1>2, <3>3, RollsBackOwn DEF AutoTrees
      <4> QED BY <3>1, <4>1, <4>2
    <3> QED BY <2>2, <3>2, <3>3
  <2> QED BY <2>1, <2>2 DEF RecoverInterruptedOperations
<1>4. \A s \in GitStacks : row[s] \in StackRow /\ drow[s] \in DeployRow
  BY DEF AutoInv, AutoShapes
<1>5. \A s \in GitStacks :
        /\ row'[s] \in StackRow /\ row'[s].sync = row[s].sync
        /\ row'[s].deploy \in terminalStackDeployStates
        /\ drow'[s] \in DeployRow /\ drow'[s].commit = drow[s].commit
        /\ drow'[s].state # "validating"
  BY <1>1, <1>4
  DEF ClearInterruptedStackDeployStates, MarkInterruptedDeployments, StackRow,
      DeployRow, terminalStackDeployStates, terminalDeploymentStates
<1>6. row' \in [GitStacks -> StackRow] /\ drow' \in [GitStacks -> DeployRow]
  BY <1>1, <1>5 DEF ClearInterruptedStackDeployStates, MarkInterruptedDeployments
<1>7. link' \in LinkColumns /\ link'.last \in {link.last, NoCommit}
  BY <1>1 DEF ClearStaleAutoSyncBlocks, AutoInv, AutoShapes, LinkColumns, NoCommit
<1>8. AutoShapes' BY <1>1, <1>3, <1>6, <1>7, IdleCycle DEF AutoInv, AutoShapes
<1>9. AutoNumbers'
  BY <1>1, <1>5, <1>7, IdleCycle, GitAutomationAssumption
  DEF AutoInv, AutoNumbers, NoCommit
<1>10. CyclePlan' /\ WritePlan' /\ Decided' /\ EditMarks'
  BY <1>1, IdleCycle DEF CyclePlan, WritePlan, Decided, EditMarks
<1>11. InFlightIsRunning' BY <1>5 DEF InFlightIsRunning
<1>12. AutoInv' BY <1>8, <1>9, <1>10, <1>11 DEF AutoInv
<1>13. EditStep /\ DecisionStep BY <1>3, <1>5 DEF EditStep, DecisionStep
<1> QED BY <1>12, <1>13 DEF AutoStep

-----------------------------------------------------------------------------
(* The deployment of one stack within a cycle.                             *)
LEMMA CycleFields ==
    ASSUME AutoInv
    PROVE  /\ cycle.token \in Tokens /\ cycle.held \subseteq GitStacks
           /\ cycle.before \in AutoTrees /\ cycle.wrote \subseteq GitStacks
           /\ cycle.unwritten \subseteq GitStacks
           /\ cycle.todo \subseteq GitStacks /\ cycle.now \subseteq GitStacks
           /\ cycle.out \in [GitStacks -> Outcomes]
           /\ cycle.edited \subseteq GitStacks /\ cycle.invalid \subseteq GitStacks
BY DEF AutoInv, AutoShapes, CycleRec

(* Between the stages of a deployment only the plan moves on.              *)
PlanMoves ==
    /\ cycle' \in CycleRec /\ cycle'.at = "deploy" /\ cycle'.commit = cycle.commit
    /\ cycle'.token = cycle.token /\ cycle'.held = cycle.held
    /\ cycle'.wrote = cycle.wrote

LEMMA AutoPlans ==
    ASSUME AutoInv, cycle.at \in {"deploy", "restore"}, PlanMoves,
           cycle'.todo \subseteq cycle.todo,
           cycle'.now \subseteq cycle.todo \cup cycle.now,
           cycle'.now \cap cycle'.todo = {}, \A s, t \in cycle'.now : s = t,
           AutoShapes', AutoNumbers', InFlightIsRunning',
           \A s \in cycle'.todo \cup cycle'.now : base'[s] = base[s],
           SyncKept(row', row), UNCHANGED <<marking, touched>>
    PROVE  AutoInv'
<1>1. \A s \in cycle.wrote \cap (cycle'.todo \cup cycle'.now) :
         base'[s] = cycle.token[s][2]
  BY CycleFields DEF AutoInv, CyclePlan
<1>2. CyclePlan' /\ WritePlan' BY <1>1 DEF CyclePlan, WritePlan, PlanMoves
<1>3. activeAutomationComposePaths' = activeAutomationComposePaths
  BY DEF activeAutomationComposePaths, SyncKept
<1>4. \A s \in GitStacks : row'[s].sync = row[s].sync BY DEF SyncKept
<1>5. activeAutomationComposePaths \subseteq GitStacks
  BY DEF activeAutomationComposePaths
<1>6. Decided' BY <1>3, <1>4, <1>5 DEF AutoInv, Decided, PlanMoves
<1>7. EditMarks' BY DEF AutoInv, EditMarks, PlanMoves
<1> QED BY <1>2, <1>6, <1>7 DEF AutoInv

LEMMA AutoDefer ==
    ASSUME AutoInv, NEW s \in GitStacks, DeferStack(s) PROVE AutoStep
<1> DEFINE out == [cycle.out EXCEPT ![s] = "deferred"]
<1>1. /\ cycle.at = "deploy" /\ cycle.now = {}
      /\ cycle' = [cycle EXCEPT !.todo = @ \ {s}, !.out = out]
      /\ UNCHANGED <<commit, provider, broken, clone, files, base, running, row,
                     drow, link, authorized, busy, dirty, marking, touched, late, events>>
  BY DEF DeferStack
<1>2. cycle \in CycleRec BY DEF AutoInv, AutoShapes
<1>3. out \in [GitStacks -> Outcomes] BY CycleFields DEF Outcomes
<1> HIDE DEF out
<1>4. PlanMoves /\ cycle'.todo = cycle.todo \ {s} /\ cycle'.now = {}
  BY <1>1, <1>2, <1>3 DEF PlanMoves, CycleRec
<1>5. AutoShapes' BY <1>1, <1>4 DEF AutoInv, AutoShapes, PlanMoves
<1>6. AutoNumbers' BY <1>1, <1>4 DEF AutoInv, AutoNumbers, PlanMoves
<1>7. InFlightIsRunning' BY <1>1, <1>4 DEF AutoInv, InFlightIsRunning
<1>8. SyncKept(row', row) BY <1>1 DEF SyncKept
<1>9. AutoInv' BY <1>1, <1>4, <1>5, <1>6, <1>7, <1>8, AutoPlans
<1> QED BY <1>1, <1>9 DEF AutoStep, EditStep, DecisionStep

(* A new deployment state of one stack.                                    *)
DeployIs(r, rows, s, state) ==
    /\ r \in AutoRows /\ SyncKept(r, rows) /\ r[s].deploy = state
    /\ \A t \in GitStacks \ {s} : r[t].deploy = rows[t].deploy

LEMMA DeploySet ==
    ASSUME NEW rows \in AutoRows, NEW s \in GitStacks,
           NEW state \in terminalStackDeployStates \cup {"provisioning"},
           NEW r, r = [rows EXCEPT ![s].deploy = state]
    PROVE  DeployIs(r, rows, s, state)
BY DEF DeployIs, AutoRows, StackRow, SyncKept

LEMMA AutoStart ==
    ASSUME AutoInv, NEW s \in GitStacks, StartDeployment(s) PROVE AutoStep
<1>1. /\ cycle.at = "deploy" /\ cycle.now = {} /\ s \in cycle.todo
      /\ cycle' = [cycle EXCEPT !.todo = @ \ {s}, !.now = {s}]
      /\ drow' = [drow EXCEPT ![s] = [state |-> "validating", commit |-> cycle.commit]]
      /\ row' = [row EXCEPT ![s].deploy = "provisioning"]
      /\ UNCHANGED <<commit, provider, broken, clone, files, base, running, link,
                     authorized, busy, dirty, marking, touched, late, events>>
  BY DEF StartDeployment
<1>2. cycle \in CycleRec /\ row \in AutoRows BY DEF AutoInv, AutoShapes, AutoRows
<1>3. PlanMoves /\ cycle'.todo = cycle.todo \ {s} /\ cycle'.now = {s}
  BY <1>1, <1>2 DEF PlanMoves, CycleRec
<1>4. /\ row' \in AutoRows /\ SyncKept(row', row)
      /\ \A t \in GitStacks \ {s} : row'[t].deploy = row[t].deploy
  <2>1. DeployIs(row', row, s, "provisioning") BY <1>1, <1>2, DeploySet
  <2> QED BY <2>1 DEF DeployIs
<1>5. cycle.commit \in 0..commit /\ cycle.commit \in Int
  BY <1>2 DEF AutoInv, AutoNumbers, CycleRec
<1>6. /\ drow' \in [GitStacks -> DeployRow] /\ drow'[s].commit = cycle.commit
      /\ \A t \in GitStacks \ {s} : drow'[t] = drow[t]
  BY <1>1, <1>5 DEF AutoInv, AutoShapes, DeployRow
<1>7. AutoShapes' BY <1>1, <1>3, <1>4, <1>6 DEF AutoInv, AutoShapes, AutoRows, PlanMoves
<1>8. AutoNumbers'
  BY <1>1, <1>3, <1>5, <1>6 DEF AutoInv, AutoNumbers, PlanMoves, NoCommit
<1>9. InFlightIsRunning' BY <1>1, <1>3, <1>4, <1>6 DEF AutoInv, InFlightIsRunning
<1>10. AutoInv' BY <1>1, <1>3, <1>4, <1>7, <1>8, <1>9, AutoPlans
<1>11. EditStep BY <1>1 DEF EditStep
<1>12. DecisionStep BY <1>4 DEF DecisionStep, SyncKept
<1> QED BY <1>10, <1>11, <1>12 DEF AutoStep

(* A deployment ends, with the files as they are or as they were.          *)
LEMMA AutoFinish ==
    ASSUME AutoInv, NEW s \in cycle.now, NEW state \in terminalDeploymentStates,
           FinishDeployment(s, state), running' \in AutoTrees,
           files' \in AutoTrees, base' \in AutoTrees,
           \A t \in GitStacks \ {s} : files'[t] = files[t] /\ base'[t] = base[t],
           files'[s] # files[s] => files[s] = base[s] \/ s \in late,
           UNCHANGED <<commit, provider, broken, clone, link, authorized, busy,
                       dirty, marking, touched, late, events>>
    PROVE  AutoStep
<1> DEFINE out == [cycle.out EXCEPT ![s] = state]
<1>1. /\ cycle' = [cycle EXCEPT !.at = "deploy", !.now = {}, !.out = out]
      /\ drow' = [drow EXCEPT ![s].state = state]
      /\ row' = [row EXCEPT ![s].deploy = state]
  BY DEF FinishDeployment
<1>2. /\ s \in GitStacks /\ cycle.at \in {"deploy", "restore"}
      /\ s \notin cycle.todo
  BY CycleFields DEF AutoInv, CyclePlan
<1>3. cycle \in CycleRec /\ row \in AutoRows BY DEF AutoInv, AutoShapes, AutoRows
<1>4. out \in [GitStacks -> Outcomes] BY <1>2, CycleFields DEF Outcomes
<1> HIDE DEF out
<1>5. PlanMoves /\ cycle'.todo = cycle.todo /\ cycle'.now = {}
  BY <1>1, <1>2, <1>3, <1>4 DEF PlanMoves, CycleRec
<1>6. state \in terminalStackDeployStates \cup {"provisioning"}
  BY DEF terminalStackDeployStates
<1>7. /\ row' \in AutoRows /\ SyncKept(row', row) /\ row'[s].deploy = state
      /\ \A t \in GitStacks \ {s} : row'[t].deploy = row[t].deploy
  <2>1. DeployIs(row', row, s, state) BY <1>1, <1>2, <1>3, <1>6, DeploySet
  <2> QED BY <2>1 DEF DeployIs
<1>8. /\ drow' \in [GitStacks -> DeployRow] /\ drow'[s].state = state
      /\ \A t \in GitStacks \ {s} : drow'[t] = drow[t]
      /\ drow'[s].commit = drow[s].commit
  BY <1>1, <1>2 DEF AutoInv, AutoShapes, DeployRow
<1>9. AutoShapes'
  BY <1>5, <1>7, <1>8 DEF AutoInv, AutoShapes, AutoRows, PlanMoves
<1>10. AutoNumbers' BY <1>2, <1>5, <1>8 DEF AutoInv, AutoNumbers, PlanMoves
<1>11. \A t \in cycle.now : t = s BY DEF AutoInv, CyclePlan
<1>12. state # "validating" /\ state \in terminalStackDeployStates
  BY DEF terminalStackDeployStates, terminalDeploymentStates
<1>13. InFlightIsRunning'
  BY <1>7, <1>8, <1>11, <1>12 DEF AutoInv, InFlightIsRunning
<1>14. AutoInv'
  <2>1. \A t \in cycle'.todo \cup cycle'.now : base'[t] = base[t]
    BY <1>2, <1>5, CycleFields
  <2>2. cycle'.now \cap cycle'.todo = {} /\ \A t, u \in cycle'.now : t = u BY <1>5
  <2>3. /\ cycle'.todo \subseteq cycle.todo /\ UNCHANGED <<marking, touched>>
        /\ cycle'.now \subseteq cycle.todo \cup cycle.now
    BY <1>5
  <2> QED BY <1>2, <1>5, <1>7, <1>9, <1>10, <1>13, <2>1, <2>2, <2>3, AutoPlans
<1>15. EditStep BY <1>2 DEF EditStep
<1>16. DecisionStep BY <1>7 DEF DecisionStep, SyncKept
<1> QED BY <1>14, <1>15, <1>16 DEF AutoStep

LEMMA AutoDeployed ==
    ASSUME AutoInv, NEW s \in GitStacks,
           DeploymentSucceeds(s) \/ DeploymentFails(s) PROVE AutoStep
<1>1. files \in AutoTrees /\ base \in AutoTrees /\ running \in AutoTrees
  BY DEF AutoInv, AutoShapes
<1>2. /\ s \in cycle.now
      /\ UNCHANGED <<commit, provider, broken, clone, files, base, link,
                     authorized, busy, dirty, marking, touched, late, events>>
      /\ \E content \in {running[s], files[s]} :
           running' = [running EXCEPT ![s] = content]
  BY DEF DeploymentSucceeds, DeploymentFails
<1>3. running' \in AutoTrees BY <1>1, <1>2 DEF AutoTrees
<1>4. PICK state \in terminalDeploymentStates : FinishDeployment(s, state)
  BY DEF DeploymentSucceeds, DeploymentFails, terminalDeploymentStates
<1> QED BY <1>1, <1>2, <1>3, <1>4, AutoFinish

LEMMA AutoRollsBack ==
    ASSUME AutoInv, NEW s \in GitStacks, DeploymentRollsBack(s) PROVE AutoStep
<1> DEFINE restored == [files EXCEPT ![s] = cycle.before[s]]
           based == [base EXCEPT ![s] = cycle.before[s]]
<1>1. /\ s \in cycle.now
      /\ \/ UNCHANGED <<files, base>>
         \/ cycle.at = "restore" /\ files' = restored /\ base' \in {base, based}
      /\ UNCHANGED <<commit, provider, broken, clone, link, authorized, busy,
                     dirty, marking, touched, late, events>>
      /\ \E content \in {running[s], files[s], files'[s], Absent} :
           running' = [running EXCEPT ![s] = content]
  BY DEF DeploymentRollsBack
<1>2. PICK state \in terminalDeploymentStates : FinishDeployment(s, state)
  BY DEF DeploymentRollsBack, terminalDeploymentStates
<1>3. files \in AutoTrees /\ base \in AutoTrees /\ running \in AutoTrees
  BY DEF AutoInv, AutoShapes
<1>4. /\ files' \in AutoTrees /\ base' \in AutoTrees
      /\ \A t \in GitStacks \ {s} : files'[t] = files[t] /\ base'[t] = base[t]
      /\ files'[s] # files[s] => files[s] = base[s] \/ s \in late
  <2>1. CASE cycle.at = "restore" /\ files' = restored /\ base' \in {base, based}
    <3>1. /\ cycle.before \in AutoTrees
          /\ files[s] # cycle.before[s] => files[s] = base[s] \/ s \in late
      BY <1>1, <2>1, RollsBackOwn
    <3>2. CASE base' = base BY <1>3, <2>1, <3>1, <3>2 DEF AutoTrees
    <3>3. CASE base' = based BY <1>3, <2>1, <3>1, <3>3 DEF AutoTrees
    <3> QED BY <2>1, <3>2, <3>3
  <2>2. CASE UNCHANGED <<files, base>> BY <1>3, <2>2
  <2> QED BY <1>1, <2>1, <2>2
<1>5. running' \in AutoTrees
  <2>1. \A c \in {running[s], files[s], files'[s], Absent} : c \in AutoContents
    BY <1>3, <1>4, Unseen DEF AutoTrees
  <2> QED BY <1>1, <1>3, <2>1 DEF AutoTrees
<1> QED BY <1>1, <1>2, <1>4, <1>5, AutoFinish

(* The comparison of a rollback: the file may be restored from here on.    *)
LEMMA AutoCompare ==
    ASSUME AutoInv, NEW s \in GitStacks, CompareForRollback(s) PROVE AutoStep
<1>1. /\ cycle.at = "deploy" /\ s \in cycle.now /\ rollbackDeploymentFiles(s)
      /\ cycle' = [cycle EXCEPT !.at = "restore"]
      /\ late' = late \ {s}
      /\ UNCHANGED <<commit, provider, broken, clone, files, base, running, row, drow,
                     link, authorized, busy, dirty, marking, touched, events>>
  BY DEF CompareForRollback
<1>2. cycle \in CycleRec BY DEF AutoInv, AutoShapes
<1>3. /\ cycle' \in CycleRec /\ cycle'.at = "restore" /\ cycle'.commit = cycle.commit
      /\ cycle'.token = cycle.token /\ cycle'.held = cycle.held
      /\ cycle'.wrote = cycle.wrote /\ cycle'.before = cycle.before
      /\ cycle'.now = cycle.now /\ cycle'.todo = cycle.todo
  BY <1>1, <1>2 DEF CycleRec
<1>4. AutoShapes' BY <1>1, <1>3 DEF AutoInv, AutoShapes
<1>5. AutoNumbers' BY <1>1, <1>3 DEF AutoInv, AutoNumbers
<1>6. \A t \in cycle.now : t = s BY <1>1 DEF AutoInv, CyclePlan
<1>7. s \in cycle.wrote /\ files[s] \in {cycle.token[s][2], cycle.before[s]}
  BY <1>1 DEF rollbackDeploymentFiles
<1>8. CyclePlan' BY <1>1, <1>3, <1>6, <1>7 DEF AutoInv, CyclePlan
<1>9. WritePlan' BY <1>3 DEF WritePlan
<1>10. EditMarks' BY <1>1 DEF AutoInv, EditMarks
<1>11. Decided' BY <1>1, <1>3 DEF AutoInv, Decided, activeAutomationComposePaths
<1>12. InFlightIsRunning' BY <1>1, <1>3 DEF AutoInv, InFlightIsRunning
<1>13. AutoInv' BY <1>4, <1>5, <1>8, <1>9, <1>10, <1>11, <1>12 DEF AutoInv
<1> QED BY <1>1, <1>13 DEF AutoStep, EditStep, DecisionStep

-----------------------------------------------------------------------------
(* The end of a cycle.                                                     *)
LEMMA CloseStates ==
    ASSUME NEW out
    PROVE  BatchState(out) \in {"watching", "pending", "success", "partial", "failed"}
BY DEF BatchState

(* Rows painted green by a cycle that held nothing back, or one that does  *)
(* not scan, are none that await a decision.                               *)
LEMMA AutoCloses ==
    ASSUME AutoInv, cycle.now = {},
           cycle' = Idle, link' \in LinkColumns, link'.last \in NoCommit..commit,
           row' \in AutoRows, DeployKept(row', row), events' \in 0..MaxEvents,
           clone' = clone \/ clone' = [head |-> commit, tree |-> provider],
           authorized' \subseteq GitStacks, touched' \subseteq GitStacks,
           UNCHANGED <<commit, provider, broken, files, base, running, drow,
                       busy, dirty, marking, late>>
    PROVE  AutoInv'
<1>1. clone' \in Clone /\ clone'.head \in 0..commit
  BY GitAutomationAssumption DEF AutoInv, AutoShapes, AutoNumbers, Clone
<1>2. AutoShapes' BY <1>1, IdleCycle DEF AutoInv, AutoShapes, AutoRows
<1>3. AutoNumbers'
  BY <1>1, IdleCycle, GitAutomationAssumption DEF AutoInv, AutoNumbers
<1>4. CyclePlan' /\ WritePlan' BY IdleCycle DEF CyclePlan, WritePlan
<1>5. EditMarks' /\ Decided' BY IdleCycle DEF EditMarks, Decided
<1>6. InFlightIsRunning' BY IdleCycle DEF AutoInv, InFlightIsRunning, DeployKept
<1> QED BY <1>2, <1>3, <1>4, <1>5, <1>6 DEF AutoInv

LEMMA AutoClose == ASSUME AutoInv, CloseCycle PROVE AutoStep
<1> DEFINE attempted == \E s \in GitStacks : cycle.out[s] # "none"
           failed == \E s \in GitStacks : cycle.out[s] \in Unsuccessful
           conflicts == \E s \in DOMAIN cycle.token : cycle.token[s][1] = "conflict"
           state == CASE cycle.held # {} -> IF conflicts THEN "conflict" ELSE "blocked"
                      [] cycle.held = {} /\ failed -> "partial"
                      [] OTHER -> cycle.result
           green == SetSync(row, activeAutomationComposePaths \ cycle.invalid, "up_to_date")
<1>1. PICK del \in BOOLEAN :
        link' = [link EXCEPT !.sync = state, !.deletion = del,
            !.last = IF state \in {"conflict", "blocked"} /\ ~cycle.preserved
                     THEN @ ELSE cycle.commit,
            !.deploy = IF attempted THEN BatchState(cycle.out) ELSE @]
  BY DEF CloseCycle
<1>2. /\ cycle.at \in {"close", "deploy"}
      /\ cycle.at = "deploy" => cycle.now = {}
      /\ row' = IF state \in {"conflict", "blocked"} THEN row ELSE green
      /\ cycle' = Idle
      /\ UNCHANGED <<commit, provider, broken, clone, files, base, running,
                     drow, authorized, busy, dirty, marking, touched, late, events>>
  BY DEF CloseCycle
<1>3. cycle.now = {} BY <1>2 DEF AutoInv, CyclePlan
<1>4. /\ cycle.commit \in 0..commit /\ cycle.commit \in Int
      /\ cycle.result \in {"up_to_date", "blocked", "partial"}
  BY DEF AutoInv, AutoShapes, AutoNumbers, CycleRec
<1>5. /\ state \in {"up_to_date", "partial", "blocked", "conflict"}
      /\ state \notin {"conflict", "blocked"} => cycle.held = {}
  <2>1. CASE cycle.held # {} BY <2>1
  <2>2. CASE cycle.held = {} /\ failed BY <2>2
  <2>3. CASE cycle.held = {} /\ ~failed BY <1>4, <2>3
  <2> QED BY <2>1, <2>2, <2>3
<1> HIDE DEF state, attempted
<1>6. link' \in LinkColumns /\ link'.last \in {link.last, cycle.commit}
  <2>1. link \in LinkColumns BY DEF AutoInv, AutoShapes
  <2> QED BY <1>1, <1>4, <1>5, <2>1, CloseStates DEF LinkColumns
<1>7. link'.last \in NoCommit..commit
  BY <1>4, <1>6 DEF AutoInv, AutoNumbers, NoCommit
<1>8. row \in AutoRows /\ "up_to_date" \in SyncStates
  BY DEF AutoInv, AutoShapes, AutoRows, SyncStates
<1>9. /\ green \in AutoRows /\ DeployKept(green, row)
      /\ \A s \in GitStacks : green[s].sync =
           IF s \in activeAutomationComposePaths \ cycle.invalid
           THEN "up_to_date" ELSE row[s].sync
  BY <1>8, SyncSet
<1> HIDE DEF green
<1>10. row' \in AutoRows /\ DeployKept(row', row)
  BY <1>2, <1>8, <1>9 DEF DeployKept
<1>11. AutoInv'
  <2>1. /\ events' \in 0..MaxEvents /\ authorized' \subseteq GitStacks
        /\ touched' \subseteq GitStacks
    BY <1>2 DEF AutoInv, AutoShapes, AutoNumbers
  <2> QED BY <1>2, <1>3, <1>6, <1>7, <1>10, <2>1, AutoCloses
<1>12. ASSUME NEW s \in GitStacks \ touched', row'[s].sync = "up_to_date",
              row[s].sync \in {"conflict", "locally_deleted"}
       PROVE  ImportEntry(provider'[s], files'[s], base'[s]) \notin {"conflict", "restore"}
  <2>1. state \notin {"conflict", "blocked"} /\ s \in activeAutomationComposePaths
    BY <1>2, <1>9, <1>12
  <2>2. Decided /\ s \in activeAutomationComposePaths \ touched
    BY <1>2, <2>1 DEF AutoInv
  <2>3. cycle.held = {} BY <1>5, <2>1
  <2> QED BY <1>2, <1>12, <2>2, <2>3 DEF Decided
<1>13. DecisionStep BY <1>12 DEF DecisionStep
<1>14. EditStep BY <1>2 DEF EditStep
<1> QED BY <1>11, <1>13, <1>14 DEF AutoStep
-----------------------------------------------------------------------------
(* The start of a cycle.                                                   *)
LEMMA AutoSkip ==
    ASSUME AutoInv, cycle.at = "idle", SkipScan, Pull, touched' \subseteq GitStacks,
           events' \in 0..MaxEvents,
           UNCHANGED <<commit, provider, broken, files, base, running, drow, busy,
                       dirty, marking, late>>
    PROVE  AutoStep
<1> DEFINE state ==
             IF \/ bindingHasActiveStackState("locally_deleted")
                \/ link.sync = "blocked" /\ link.deletion THEN "blocked"
             ELSE IF link.sync = "partial" THEN "partial" ELSE "up_to_date"
           kept(preserved) == {s \in activeAutomationComposePaths :
               row[s].sync \notin preserved \cup
                 {"local_changes", "locally_deleted", "orphaned", "conflict"}}
<1>1. PICK del \in BOOLEAN : link' = [link EXCEPT !.sync = state, !.deletion = del]
  <2>1. ((link.sync = "blocked" /\ link.deletion)
          /\ ~bindingHasActiveStackState("locally_deleted")) \in BOOLEAN
    OBVIOUS
  <2> QED BY <2>1 DEF SkipScan
<1>2. /\ cycle' = Idle /\ UNCHANGED authorized
      /\ \/ row' = row
         \/ row' = SetSync(row, kept({"error"}), "up_to_date")
         \/ row' = SetSync(row, kept({}), "up_to_date")
  BY DEF SkipScan, updateActiveStackStatusesPreservingLocal
<1>3. link' \in LinkColumns /\ link'.last = link.last
  <2>1. link \in LinkColumns BY DEF AutoInv, AutoShapes
  <2> QED BY <1>1, <2>1 DEF LinkColumns
<1>4. row \in AutoRows /\ "up_to_date" \in SyncStates
  BY DEF AutoInv, AutoShapes, AutoRows, SyncStates
<1>5. /\ row' \in AutoRows /\ DeployKept(row', row)
      /\ \A s \in GitStacks : row[s].sync \in {"conflict", "locally_deleted"} =>
           row'[s].sync = row[s].sync
  <2>1. CASE row' = row BY <1>4, <2>1 DEF DeployKept
  <2>2. ASSUME NEW preserved, row' = SetSync(row, kept(preserved), "up_to_date")
        PROVE  /\ row' \in AutoRows /\ DeployKept(row', row)
               /\ \A s \in GitStacks : row[s].sync \in {"conflict", "locally_deleted"} =>
                    row'[s].sync = row[s].sync
    <3>1. \A s \in GitStacks : row[s].sync \in {"conflict", "locally_deleted"} =>
            s \notin kept(preserved)
      OBVIOUS
    <3> HIDE DEF kept
    <3> QED BY <1>4, <2>2, <3>1, SyncSet
  <2> QED BY <1>2, <2>1, <2>2
<1>6. cycle.now = {} /\ link'.last \in NoCommit..commit
  BY <1>3 DEF AutoInv, CyclePlan, AutoNumbers
<1>7. /\ authorized' \subseteq GitStacks /\ touched' \subseteq GitStacks
      /\ clone' = [head |-> commit, tree |-> provider]
  BY <1>2 DEF AutoInv, AutoShapes, Pull
<1>8. AutoInv' BY <1>2, <1>3, <1>5, <1>6, <1>7, AutoCloses
<1>9. DecisionStep BY <1>5 DEF DecisionStep
<1> QED BY <1>8, <1>9 DEF AutoStep, EditStep

(* What a scan records turns a row green only where the sides agree.       *)
LEMMA ScannedRows ==
    ASSUME AutoInv, NEW rows, rows = recordPreviewStackStatuses(row, Preview)
    PROVE  /\ rows \in AutoRows /\ DeployKept(rows, row)
           /\ \A s \in GitStacks :
                /\ s \notin activeAutomationComposePaths => rows[s].sync = row[s].sync
                /\ s \in activeAutomationComposePaths =>
                     rows[s].sync = PreviewState(Preview[s])
           /\ \A s \in activeAutomationComposePaths :
                rows[s].sync = "up_to_date" =>
                  ImportEntry(provider[s], files[s], base[s]) = "unchanged"
<1>1. row \in AutoRows /\ activeAutomationComposePaths \in SUBSET GitStacks
  BY DEF AutoInv, AutoShapes, AutoRows, activeAutomationComposePaths
<1>2. /\ DOMAIN Preview = activeAutomationComposePaths
      /\ \A s \in activeAutomationComposePaths :
           /\ Preview[s] = ImportEntry(provider[s], files[s], base[s])
           /\ Preview[s] \in EntryKinds
  BY <1>1, Previews DEF Preview
<1>3. /\ rows \in AutoRows /\ DeployKept(rows, row)
      /\ \A s \in GitStacks : rows[s].sync =
           IF s \in DOMAIN Preview THEN PreviewState(Preview[s]) ELSE row[s].sync
  BY <1>1, <1>2, PreviewRows
<1>4. \A s \in activeAutomationComposePaths :
        /\ PreviewState(Preview[s]) = "up_to_date" =>
             Preview[s] \in {"unchanged", "deleted_locally"}
        /\ Preview[s] # "deleted_locally"
  BY <1>2, PreviewStates, ImportKinds
<1> QED BY <1>1, <1>2, <1>3, <1>4

LEMMA AutoScan ==
    ASSUME AutoInv, cycle.at = "idle", NEW explicit \in BOOLEAN, ScanStacks(explicit),
           Pull, touched' = {s \in GitStacks : marking[s] # "none"},
           events' \in 0..MaxEvents,
           UNCHANGED <<commit, provider, broken, files, base, running, drow, busy,
                       dirty, marking, late>>
    PROVE  AutoStep
<1> DEFINE heldBack == HeldBackComposeStacks(Preview)
           new == newComposeDeploymentTargets(Preview)
           token == PreviewToken(Preview, provider, files)
           kept == Preserved(Preview) # {}
<1>1. row' = recordPreviewStackStatuses(row, Preview) BY DEF ScanStacks
<1>2. /\ row' \in AutoRows /\ DeployKept(row', row)
      /\ \A s \in GitStacks :
           s \notin activeAutomationComposePaths => row'[s].sync = row[s].sync
      /\ \A s \in activeAutomationComposePaths : row'[s].sync = "up_to_date" =>
           ImportEntry(provider[s], files[s], base[s]) = "unchanged"
  BY <1>1, ScannedRows
<1>3. DecisionStep
  <2>1. ASSUME NEW s \in GitStacks, row'[s].sync = "up_to_date",
               row[s].sync \in {"conflict", "locally_deleted"}
        PROVE  ImportEntry(provider'[s], files'[s], base'[s]) \notin {"conflict", "restore"}
    BY <1>2, <2>1
  <2> QED BY <2>1 DEF DecisionStep
<1>4. activeAutomationComposePaths \in SUBSET GitStacks
  BY DEF activeAutomationComposePaths
<1>5. /\ DOMAIN Preview = activeAutomationComposePaths /\ token \in Tokens
      /\ \A s \in activeAutomationComposePaths : Preview[s] \in EntryKinds
  BY <1>4, Previews DEF Preview, AutoInv, AutoShapes
<1>6. /\ DOMAIN token = activeAutomationComposePaths
      /\ \A s \in activeAutomationComposePaths : token[s][1] = Preview[s]
  BY <1>5 DEF PreviewToken
<1>7. heldBack = {s \in DOMAIN token : token[s][1] \in HeldKinds}
  BY <1>5, <1>6 DEF HeldBackComposeStacks, OfKind, HeldKinds
<1>8. heldBack \subseteq GitStacks /\ new \subseteq GitStacks
  BY <1>4, <1>5 DEF HeldBackComposeStacks, OfKind, newComposeDeploymentTargets
<1>9. /\ commit \in 0..commit /\ commit \in Int /\ commit \in NoCommit..commit
      /\ link.last \in NoCommit..commit
  BY GitAutomationAssumption DEF AutoInv, AutoNumbers, NoCommit
<1>10. \E l \in LinkColumns :
         link' = l /\ l.last \in {link.last, commit}
  <2>1. link \in LinkColumns BY DEF AutoInv, AutoShapes
  <2> DEFINE sync == IF Conflicts(Preview) # {} THEN "conflict" ELSE "blocked"
             last == IF kept THEN commit ELSE link.last
             deploy == IF new # {} THEN "pending" ELSE link.deploy
  <2>2. /\ sync \in {"conflict", "blocked"} /\ last \in {link.last, commit}
        /\ deploy \in {"pending", link.deploy}
    OBVIOUS
  <2>3. \/ link' = [link EXCEPT !.sync = sync, !.deletion = FALSE, !.last = last]
        \/ link' = [link EXCEPT !.sync = "watching"]
        \/ link' = [link EXCEPT !.sync = "syncing", !.deploy = deploy]
    BY DEF ScanStacks
  <2> HIDE DEF sync, last, deploy
  <2>4. CASE link' = [link EXCEPT !.sync = sync, !.deletion = FALSE, !.last = last]
    <3>1. link' \in LinkColumns /\ link'.last = last
      BY <1>9, <2>1, <2>2, <2>4 DEF LinkColumns
    <3> QED BY <2>2, <3>1
  <2>5. CASE link' = [link EXCEPT !.sync = "watching"]
    <3>1. link' \in LinkColumns /\ link'.last = link.last
      BY <2>1, <2>5 DEF LinkColumns
    <3> QED BY <3>1
  <2>6. CASE link' = [link EXCEPT !.sync = "syncing", !.deploy = deploy]
    <3>1. link' \in LinkColumns /\ link'.last = link.last
      BY <2>1, <2>2, <2>6 DEF LinkColumns
    <3> QED BY <3>1
  <2> QED BY <2>3, <2>4, <2>5, <2>6
<1>11. \/ cycle' = Idle
       \/ \E stale \in {"none", "failed", "partial", "pending"} :
            cycle' = [Idle EXCEPT
                    !.at = "import", !.explicit = explicit, !.commit = commit,
                    !.token = token, !.held = heldBack, !.preserved = kept,
                    !.stale = stale]
  BY DEF ScanStacks, isRetryableAutoDeployState
<1>12. authorized' \subseteq GitStacks
  BY <1>8 DEF ScanStacks, AutoInv, AutoShapes
<1> HIDE DEF heldBack, new, token, kept
<1>13. CASE cycle' = Idle
  <2>1. cycle.now = {} BY DEF AutoInv, CyclePlan
  <2>2. clone' = [head |-> commit, tree |-> provider] BY DEF Pull
  <2>3. touched' \subseteq GitStacks OBVIOUS
  <2>4. AutoInv'
    BY <1>2, <1>9, <1>10, <1>12, <1>13, <2>1, <2>2, <2>3, AutoCloses
  <2> QED BY <1>3, <2>4 DEF AutoStep, EditStep
<1>14. ASSUME NEW stale \in {"none", "failed", "partial", "pending"},
              cycle' = [Idle EXCEPT
                    !.at = "import", !.explicit = explicit, !.commit = commit,
                    !.token = token, !.held = heldBack, !.preserved = kept,
                    !.stale = stale]
       PROVE  AutoStep
  <2>1. kept \in BOOLEAN BY DEF kept
  <2>2. /\ cycle' \in CycleRec /\ cycle'.at = "import" /\ cycle'.now = {}
        /\ cycle'.commit = commit /\ cycle'.token = token /\ cycle'.held = heldBack
    BY <1>5, <1>8, <1>9, <1>14, <2>1, IdleCycle DEF CycleRec
  <2>3. clone' \in Clone /\ clone'.head \in 0..commit
    BY <1>9 DEF Pull, AutoInv, AutoShapes, Clone
  <2>4. AutoShapes'
    BY <1>2, <1>10, <1>12, <2>2, <2>3 DEF AutoInv, AutoShapes, AutoRows
  <2>5. AutoNumbers' BY <1>9, <1>10, <2>2, <2>3 DEF AutoInv, AutoNumbers
  <2>6. CyclePlan' /\ WritePlan' BY <1>7, <2>2 DEF CyclePlan, WritePlan
  <2>7. EditMarks' /\ Decided' BY <2>2 DEF EditMarks, Decided
  <2>8. cycle.now = {} BY DEF AutoInv, CyclePlan
  <2>9. InFlightIsRunning'
    BY <1>2, <2>2, <2>8 DEF AutoInv, InFlightIsRunning, DeployKept
  <2>10. AutoInv' BY <2>4, <2>5, <2>6, <2>7, <2>9 DEF AutoInv
  <2> QED BY <1>3, <2>10 DEF AutoStep, EditStep
<1> QED BY <1>11, <1>13, <1>14

LEMMA AutoCheck ==
    ASSUME AutoInv, NEW explicit \in BOOLEAN, runBindingAutoSync(explicit),
           events' \in 0..MaxEvents
    PROVE  AutoStep
<1>1. /\ cycle.at = "idle" /\ touched' = {s \in GitStacks : marking[s] # "none"}
      /\ touched' \subseteq GitStacks
      /\ UNCHANGED <<commit, provider, broken, files, base, running, drow, busy,
                     dirty, marking, late>>
  BY DEF runBindingAutoSync
<1>2. row \in AutoRows /\ link \in LinkColumns /\ authorized \subseteq GitStacks
  BY DEF AutoInv, AutoShapes, AutoRows
<1>3. CASE UNCHANGED <<clone, row, cycle, authorized>>
           /\ \E sync \in {"watching", "error"} : link' = [link EXCEPT !.sync = sync]
  <2>1. link' \in LinkColumns /\ link'.last = link.last
    BY <1>2, <1>3 DEF LinkColumns
  <2>2. AutoShapes' BY <1>1, <1>3, <2>1 DEF AutoInv, AutoShapes
  <2>3. AutoNumbers' BY <1>1, <1>3, <2>1 DEF AutoInv, AutoNumbers
  <2>4. AutoInv' BY <1>1, <1>3, <2>2, <2>3, AutoBetween
  <2> QED BY <1>1, <1>3, <2>4 DEF AutoStep, EditStep, DecisionStep
<1>4. CASE /\ link' = [link EXCEPT !.sync = "blocked", !.deletion = FALSE]
           /\ row' = SetSync(row, activeAutomationComposePaths, "remote_changes")
           /\ UNCHANGED <<clone, cycle, authorized>>
  <2>1. link' \in LinkColumns /\ link'.last = link.last
    BY <1>2, <1>4 DEF LinkColumns
  <2>2. "remote_changes" \in SyncStates BY DEF SyncStates
  <2>3. /\ row' \in AutoRows /\ DeployKept(row', row)
        /\ \A s \in GitStacks : row'[s].sync =
             IF s \in activeAutomationComposePaths THEN "remote_changes" ELSE row[s].sync
    BY <1>2, <1>4, <2>2, SyncSet
  <2>4. AutoShapes' BY <1>1, <1>4, <2>1, <2>3 DEF AutoInv, AutoShapes, AutoRows
  <2>5. AutoNumbers' BY <1>1, <1>4, <2>1 DEF AutoInv, AutoNumbers
  <2>6. AutoInv' BY <1>1, <1>4, <2>3, <2>4, <2>5, AutoBetween DEF DeployKept
  <2>7. DecisionStep BY <2>3 DEF DecisionStep
  <2> QED BY <1>1, <2>6, <2>7 DEF AutoStep, EditStep
<1>5. CASE Pull /\ SkipScan BY <1>1, <1>5, AutoSkip
<1>6. CASE Pull /\ ScanStacks(explicit) BY <1>1, <1>6, AutoScan
<1> QED BY <1>3, <1>4, <1>5, <1>6 DEF runBindingAutoSync

-----------------------------------------------------------------------------
(* The import of a cycle.                                                  *)
importChosen == SelectedTransferFiles(Preview, {})
importClean == excludeDirtyEditorStacks(importChosen)
importValid == excludeInvalidComposeStacks(importClean)
importSelected == excludeHeldBackStacks(importValid)
importRows == recordPreviewStackStatuses(row, Preview)
importCurrent ==
    /\ cycle.at = "import" /\ cycle.token = PreviewToken(Preview, provider, files)

(* What a cycle imports was changed on Git only, and a row that awaits a   *)
(* decision is that of a stack that is held back.                          *)
LEMMA ImportChoice ==
    ASSUME AutoInv, importCurrent
    PROVE  /\ DOMAIN cycle.token = activeAutomationComposePaths
           /\ importClean \subseteq GitStacks
           /\ importSelected \subseteq activeAutomationComposePaths
           /\ \A s \in importSelected :
                /\ cycle.token[s][1] \in {"add", "modify"}
                /\ cycle.token[s][2] # Absent /\ files[s] = base[s]
           /\ \A s \in activeAutomationComposePaths :
                importRows[s].sync \in {"conflict", "locally_deleted"} => s \in cycle.held
<1>1. activeAutomationComposePaths \in SUBSET GitStacks
  BY DEF activeAutomationComposePaths
<1>2. /\ DOMAIN Preview = activeAutomationComposePaths
      /\ \A s \in activeAutomationComposePaths :
           /\ Preview[s] = ImportEntry(provider[s], files[s], base[s])
           /\ Preview[s] \in EntryKinds
  BY <1>1, Previews DEF Preview
<1>3. /\ DOMAIN cycle.token = activeAutomationComposePaths
      /\ \A s \in activeAutomationComposePaths :
           cycle.token[s][1] = Preview[s] /\ cycle.token[s][2] = provider[s]
  BY <1>2 DEF importCurrent, PreviewToken
<1>4. cycle.held = {s \in activeAutomationComposePaths : Preview[s] \in HeldKinds}
  BY <1>3 DEF importCurrent, AutoInv, CyclePlan
<1>5. importChosen = {s \in activeAutomationComposePaths :
                        Preview[s] \in {"add", "restore", "modify"}}
  BY <1>2 DEF importChosen, SelectedTransferFiles, OfKind, Conflicts
<1>6. importSelected \subseteq importChosen \ cycle.held /\ importClean \subseteq importChosen
  BY DEF importSelected, importValid, importClean,
         excludeHeldBackStacks, excludeInvalidComposeStacks, excludeDirtyEditorStacks
<1>7. \A s \in importSelected : /\ s \in activeAutomationComposePaths
                                /\ Preview[s] \in {"add", "modify"}
  BY <1>4, <1>5, <1>6 DEF HeldKinds
<1>8. \A s \in importSelected : provider[s] # Absent /\ files[s] = base[s]
  BY <1>2, <1>7, ImportKinds
<1>9. \A s \in activeAutomationComposePaths :
        importRows[s].sync \in {"conflict", "locally_deleted"} => s \in cycle.held
  <2>1. \A s \in activeAutomationComposePaths :
          importRows[s].sync = PreviewState(Preview[s])
    BY <1>1, ScannedRows DEF importRows
  <2>2. \A s \in activeAutomationComposePaths :
          PreviewState(Preview[s]) \in {"conflict", "locally_deleted"} =>
            Preview[s] \in {"conflict", "restore"}
    BY <1>2, PreviewStates
  <2> QED BY <1>4, <2>1, <2>2 DEF HeldKinds
<1> QED BY <1>1, <1>3, <1>5, <1>6, <1>7, <1>8, <1>9

(* An import that fails: the rows may show what the preview found.         *)
LEMMA AutoImportFails ==
    ASSUME AutoInv, cycle.at \in {"import", "write"},
           CycleFails(row) \/ CycleFails(importRows),
           UNCHANGED <<commit, provider, broken, clone, running, drow,
                       authorized, busy, dirty, marking, touched, late, events>>
    PROVE  AutoStep
<1>1. link' = [link EXCEPT !.sync = "error"] /\ cycle' = Idle
      /\ UNCHANGED <<files, base>> /\ row' \in {row, importRows}
  BY DEF CycleFails
<1>2. /\ importRows \in AutoRows /\ DeployKept(importRows, row)
      /\ \A s \in GitStacks :
           s \notin activeAutomationComposePaths => importRows[s].sync = row[s].sync
      /\ \A s \in activeAutomationComposePaths : importRows[s].sync = "up_to_date" =>
           ImportEntry(provider[s], files[s], base[s]) = "unchanged"
  BY ScannedRows DEF importRows
<1>3. row \in AutoRows /\ DeployKept(row, row)
  BY DEF AutoInv, AutoShapes, AutoRows, DeployKept
<1>4. cycle.now = {} BY DEF AutoInv, CyclePlan
<1>5. link' \in LinkColumns /\ link'.last = link.last
  <2>1. link \in LinkColumns BY DEF AutoInv, AutoShapes
  <2> QED BY <1>1, <2>1 DEF LinkColumns
<1>6. /\ link'.last \in NoCommit..commit /\ events' \in 0..MaxEvents
      /\ authorized' \subseteq GitStacks /\ touched' \subseteq GitStacks
  BY <1>5 DEF AutoInv, AutoShapes, AutoNumbers
<1>7. row' \in AutoRows /\ DeployKept(row', row) BY <1>1, <1>2, <1>3
<1>8. AutoInv' BY <1>1, <1>4, <1>5, <1>6, <1>7, AutoCloses
<1>9. \A s \in GitStacks :
        /\ row[s].sync \in {"conflict", "locally_deleted"}
        /\ row'[s].sync = "up_to_date"
        => ImportEntry(provider[s], files[s], base[s]) = "unchanged"
  BY <1>1, <1>2
<1>10. DecisionStep BY <1>1, <1>9 DEF DecisionStep
<1> QED BY <1>1, <1>8, <1>10 DEF AutoStep, EditStep

(* The comparison of an import.                                            *)
LEMMA AutoImport == ASSUME AutoInv, ImportStacks PROVE AutoStep
<1> DEFINE edited == IF importChosen = {} THEN {} ELSE dirty
           invalid == importClean \ importValid
<1>1. /\ cycle.at = "import"
      /\ UNCHANGED <<commit, provider, broken, clone, running, drow,
                     authorized, busy, dirty, marking, touched, events>>
  BY DEF ImportStacks
<1>2. CASE (CycleFails(row) \/ CycleFails(importRows)) /\ UNCHANGED late
  BY <1>1, <1>2, AutoImportFails
<1>3. ASSUME ~((CycleFails(row) \/ CycleFails(importRows)) /\ UNCHANGED late)
      PROVE  AutoStep
  <2>1. /\ importCurrent /\ row' = importRows /\ late' = {}
        /\ cycle' = [cycle EXCEPT
             !.at = "write", !.before = files, !.wrote = importSelected,
             !.unwritten = importSelected, !.edited = edited, !.invalid = invalid]
        /\ UNCHANGED <<files, base, link>>
    BY <1>1, <1>3
    DEF ImportStacks, importCurrent, importRows, importSelected, importValid,
        importClean, importChosen
  <2>2. /\ DOMAIN cycle.token = activeAutomationComposePaths
        /\ importClean \subseteq GitStacks
        /\ importSelected \subseteq activeAutomationComposePaths
        /\ \A s \in importSelected :
             /\ cycle.token[s][1] \in {"add", "modify"}
             /\ cycle.token[s][2] # Absent /\ files[s] = base[s]
        /\ \A s \in activeAutomationComposePaths :
             importRows[s].sync \in {"conflict", "locally_deleted"} => s \in cycle.held
    BY <2>1, ImportChoice
  <2>3. /\ cycle \in CycleRec /\ files \in AutoTrees /\ dirty \subseteq GitStacks
        /\ activeAutomationComposePaths \subseteq GitStacks /\ cycle.now = {}
    BY <1>1 DEF AutoInv, AutoShapes, CyclePlan, activeAutomationComposePaths
  <2>4. edited \subseteq GitStacks /\ invalid \subseteq GitStacks BY <2>2, <2>3
  <2> HIDE DEF edited, invalid
  <2>5. /\ cycle' \in CycleRec /\ cycle'.at = "write" /\ cycle'.now = {}
        /\ cycle'.token = cycle.token /\ cycle'.held = cycle.held
        /\ cycle'.wrote = importSelected /\ cycle'.unwritten = importSelected
        /\ cycle'.commit = cycle.commit
    BY <2>1, <2>2, <2>3, <2>4 DEF CycleRec
  <2>6. /\ importRows \in AutoRows /\ DeployKept(importRows, row)
        /\ \A s \in GitStacks :
             s \notin activeAutomationComposePaths => importRows[s].sync = row[s].sync
        /\ \A s \in activeAutomationComposePaths : importRows[s].sync = "up_to_date" =>
             ImportEntry(provider[s], files[s], base[s]) = "unchanged"
    BY ScannedRows DEF importRows
  <2>7. AutoShapes' BY <1>1, <2>1, <2>5, <2>6 DEF AutoInv, AutoShapes, AutoRows
  <2>8. AutoNumbers' BY <1>1, <2>1, <2>5 DEF AutoInv, AutoNumbers
  <2>9. CyclePlan' BY <1>1, <2>5 DEF AutoInv, CyclePlan
  <2>10. EditMarks' BY <1>1, <2>5 DEF AutoInv, EditMarks
  <2>11. activeAutomationComposePaths' = activeAutomationComposePaths
    BY <2>1, <2>6 DEF activeAutomationComposePaths, DeployKept
  <2>12. WritePlan' BY <2>1, <2>2, <2>5, <2>11 DEF WritePlan
  <2>13. Decided' BY <2>1, <2>2, <2>5, <2>11 DEF Decided
  <2>14. InFlightIsRunning'
    BY <1>1, <2>1, <2>3, <2>5, <2>6 DEF AutoInv, InFlightIsRunning, DeployKept
  <2>15. AutoInv' BY <2>7, <2>8, <2>9, <2>10, <2>12, <2>13, <2>14 DEF AutoInv
  <2>16. EditStep BY <2>1 DEF EditStep
  <2>17. ASSUME NEW s \in GitStacks, row[s].sync \in {"conflict", "locally_deleted"},
                row'[s].sync = "up_to_date"
         PROVE  ImportEntry(provider'[s], files'[s], base'[s]) \notin {"conflict", "restore"}
    <3>1. s \in activeAutomationComposePaths BY <2>1, <2>6, <2>17
    <3>2. ImportEntry(provider[s], files[s], base[s]) = "unchanged"
      BY <2>1, <2>6, <2>17, <3>1
    <3> QED BY <1>1, <2>1, <3>2
  <2>18. DecisionStep BY <2>17 DEF DecisionStep
  <2> QED BY <2>15, <2>16, <2>18 DEF AutoStep
<1> QED BY <1>2, <1>3

(* A file is written: over what was last synchronized, or over what was    *)
(* saved since the comparison.                                             *)
LEMMA AutoWrite ==
    ASSUME AutoInv, NEW s \in GitStacks, WriteStackFile(s) PROVE AutoStep
<1>1. /\ cycle.at = "write" /\ s \in cycle.unwritten
      /\ files' = [files EXCEPT ![s] = cycle.token[s][2]]
      /\ cycle' = [cycle EXCEPT !.unwritten = @ \ {s}]
      /\ UNCHANGED <<commit, provider, broken, clone, base, running, row, drow, link,
                     authorized, busy, dirty, marking, touched, late, events>>
  BY DEF WriteStackFile
<1>2. cycle \in CycleRec BY DEF AutoInv, AutoShapes
<1>3. /\ cycle' \in CycleRec /\ cycle'.at = "write" /\ cycle'.commit = cycle.commit
      /\ cycle'.token = cycle.token /\ cycle'.held = cycle.held
      /\ cycle'.wrote = cycle.wrote /\ cycle'.unwritten = cycle.unwritten \ {s}
      /\ cycle'.now = cycle.now /\ cycle'.todo = cycle.todo
  BY <1>1, <1>2 DEF CycleRec
<1>4. s \in DOMAIN cycle.token BY <1>1 DEF AutoInv, WritePlan
<1>5. cycle.token[s][2] \in AutoContents
  <2>1. PICK P \in SUBSET GitStacks : cycle.token \in [P -> TokenEntry]
    BY CycleFields DEF Tokens
  <2>2. cycle.token[s] \in TokenEntry BY <1>4, <2>1
  <2> QED BY <2>2 DEF TokenEntry
<1>6. files' \in AutoTrees /\ \A t \in GitStacks \ {s} : files'[t] = files[t]
  BY <1>1, <1>5 DEF AutoInv, AutoShapes, AutoTrees
<1>7. AutoShapes' BY <1>1, <1>3, <1>6 DEF AutoInv, AutoShapes
<1>8. AutoNumbers' BY <1>1, <1>3 DEF AutoInv, AutoNumbers
<1>9. CyclePlan' BY <1>1, <1>3 DEF AutoInv, CyclePlan
<1>10. WritePlan'
  <2>1. cycle.unwritten \subseteq GitStacks BY CycleFields
  <2> QED BY <1>1, <1>3, <1>6, <2>1
      DEF AutoInv, WritePlan, activeAutomationComposePaths
<1>11. EditMarks' BY <1>1, <1>3 DEF AutoInv, EditMarks
<1>12. Decided' BY <1>1, <1>3 DEF AutoInv, Decided, activeAutomationComposePaths
<1>13. InFlightIsRunning' BY <1>1, <1>3 DEF AutoInv, InFlightIsRunning
<1>14. AutoInv' BY <1>7, <1>8, <1>9, <1>10, <1>11, <1>12, <1>13 DEF AutoInv
<1>15. EditStep BY <1>1, <1>6 DEF EditStep, AutoInv, WritePlan
<1> QED BY <1>1, <1>14, <1>15 DEF AutoStep, DecisionStep

finishPaths == DOMAIN cycle.token
finishSource == [s \in finishPaths |-> cycle.token[s][2]]
finishSame == \A s \in finishPaths : cycle.token[s][1] = "unchanged"
finishPainted == finishPaths \ (cycle.invalid \cup cycle.held \cup cycle.edited)
finishRefreshed ==
    IF ~cycle.preserved
    THEN SetSync(SetSync(row, finishPainted, "up_to_date"), cycle.invalid, "error")
    ELSE row
finishBase ==
    IF finishSame THEN BaselineFromSource(base, finishPaths, finishSource)
    ELSE IF cycle.wrote = {} THEN base
    ELSE BaselineAfterTransfer(base, finishSource, cycle.before, cycle.wrote)

(* The baseline of what was imported is what the import wrote.             *)
LEMMA FinishBase ==
    ASSUME AutoInv, cycle.at = "write"
    PROVE  /\ finishBase \in AutoTrees
           /\ \A s \in cycle.wrote : finishBase[s] = cycle.token[s][2]
<1>1. PICK P \in SUBSET GitStacks : cycle.token \in [P -> TokenEntry]
  BY CycleFields DEF Tokens
<1>2. /\ finishPaths = P /\ base \in AutoTrees
      /\ finishSource \in [finishPaths -> AutoContents]
      /\ \A s \in finishPaths : finishSource[s] = cycle.token[s][2]
  BY <1>1 DEF finishPaths, finishSource, TokenEntry, AutoInv, AutoShapes
<1>3. \A s \in cycle.wrote : /\ s \in finishPaths
                             /\ cycle.token[s][1] \in {"add", "modify"}
                             /\ cycle.token[s][2] # Absent
  BY DEF AutoInv, WritePlan, finishPaths
<1>4. CASE finishSame
  <2>1. cycle.wrote = {} BY <1>3, <1>4 DEF finishSame
  <2>2. finishBase = [p \in GitStacks |-> IF p \in finishPaths THEN finishSource[p]
                                          ELSE Absent]
    BY <1>2, <1>4 DEF finishBase, BaselineFromSource, AutoTrees
  <2>3. finishBase \in AutoTrees BY <1>2, <2>2, Unseen DEF AutoTrees
  <2> QED BY <2>1, <2>3
<1>5. CASE ~finishSame /\ cycle.wrote = {} BY <1>2, <1>5 DEF finishBase
<1>6. CASE ~finishSame /\ cycle.wrote # {}
  <2>1. finishBase = BaselineAfterTransfer(base, finishSource, cycle.before, cycle.wrote)
    BY <1>6 DEF finishBase
  <2>2. finishPaths \in SUBSET GitStacks BY <1>2
  <2>3. /\ finishBase \in AutoTrees
        /\ Transferred(finishBase, base, finishPaths, finishSource, cycle.before,
                       cycle.wrote)
    BY <1>2, <2>1, <2>2, Baselines
  <2>4. cycle.wrote \subseteq GitStacks BY CycleFields
  <2>5. ASSUME NEW s \in cycle.wrote PROVE finishBase[s] = cycle.token[s][2]
    <3>1. s \in finishPaths /\ finishSource[s] = cycle.token[s][2]
          /\ finishSource[s] # Absent
      BY <1>2, <1>3
    <3> QED BY <2>3, <2>4, <3>1 DEF Transferred
  <2> QED BY <2>3, <2>5
<1> QED BY <1>4, <1>5, <1>6

(* The rows an import paints green are not of stacks that are held back.   *)
LEMMA FinishShown ==
    ASSUME AutoInv
    PROVE  /\ finishRefreshed \in AutoRows /\ DeployKept(finishRefreshed, row)
           /\ \A s \in GitStacks :
                /\ finishRefreshed[s].sync \in {row[s].sync, "up_to_date", "error"}
                /\ s \notin finishPaths \/ s \in cycle.held =>
                     finishRefreshed[s].sync \in {row[s].sync, "error"}
<1>1. /\ row \in AutoRows /\ DeployKept(row, row)
      /\ "up_to_date" \in SyncStates /\ "error" \in SyncStates
  BY DEF AutoInv, AutoShapes, AutoRows, DeployKept, SyncStates
<1>2. CASE cycle.preserved BY <1>1, <1>2 DEF finishRefreshed
<1>3. CASE ~cycle.preserved
  <2> DEFINE green == SetSync(row, finishPainted, "up_to_date")
  <2>1. /\ green \in AutoRows /\ DeployKept(green, row)
        /\ \A s \in GitStacks : green[s].sync =
             IF s \in finishPainted THEN "up_to_date" ELSE row[s].sync
    BY <1>1, SyncSet
  <2>2. finishRefreshed = SetSync(green, cycle.invalid, "error")
    BY <1>3 DEF finishRefreshed
  <2> HIDE DEF green
  <2>3. /\ finishRefreshed \in AutoRows /\ DeployKept(finishRefreshed, green)
        /\ \A s \in GitStacks : finishRefreshed[s].sync =
             IF s \in cycle.invalid THEN "error" ELSE green[s].sync
    BY <1>1, <2>1, <2>2, SyncSet
  <2>4. DeployKept(finishRefreshed, row) BY <2>1, <2>3 DEF DeployKept
  <2>5. \A s \in finishPainted : s \in finishPaths /\ s \notin cycle.held
    BY DEF finishPainted
  <2> QED BY <2>1, <2>3, <2>4, <2>5
<1> QED BY <1>2, <1>3

(* The end of an import: nothing that awaits a decision is painted green.  *)
LEMMA AutoFinishImport == ASSUME AutoInv, FinishImport PROVE AutoStep
<1> DEFINE targets == cycle.wrote \cap authorized
           todo == targets \cup staleDeployTargets
           imported == [link EXCEPT !.deploy = IF targets # {} THEN "pending" ELSE @]
           settled == IF finishSame
                      THEN clearIdenticalRollbackStates(finishRefreshed, imported)
                      ELSE <<finishRefreshed, imported>>
           at == IF todo = {} THEN "close" ELSE "deploy"
           result == CASE cycle.edited # {} \/ cycle.preserved -> "blocked"
                       [] cycle.invalid # {} /\ cycle.edited = {} /\ ~cycle.preserved
                            -> "partial"
                       [] OTHER -> "up_to_date"
<1>1. /\ cycle.at = "write"
      /\ UNCHANGED <<commit, provider, broken, clone, running, drow,
                     authorized, busy, dirty, marking, touched, late, events>>
  BY DEF FinishImport
<1>2. CASE CycleFails(row) BY <1>1, <1>2, AutoImportFails
<1>3. ASSUME ~CycleFails(row) PROVE AutoStep
  <2>1. /\ base' = finishBase /\ row' = settled[1] /\ UNCHANGED files
        /\ link' = [settled[2] EXCEPT !.deploy =
                      IF cycle.stale # "none" /\ todo = {} THEN "watching" ELSE @]
        /\ cycle' = [cycle EXCEPT !.at = at, !.todo = todo, !.result = result]
    BY <1>1, <1>3
    DEF FinishImport, finishBase, finishSame, finishRefreshed, finishPainted,
        finishSource, finishPaths
  <2>2. /\ finishRefreshed \in AutoRows /\ DeployKept(finishRefreshed, row)
        /\ \A s \in GitStacks :
             /\ finishRefreshed[s].sync \in {row[s].sync, "up_to_date", "error"}
             /\ s \notin finishPaths \/ s \in cycle.held =>
                  finishRefreshed[s].sync \in {row[s].sync, "error"}
    BY FinishShown
  <2>3. /\ link \in LinkColumns /\ authorized \subseteq GitStacks /\ cycle \in CycleRec
        /\ cycle.wrote \subseteq GitStacks /\ cycle.now = {}
    BY <1>1, CycleFields DEF AutoInv, AutoShapes, CyclePlan
  <2>4. imported \in LinkColumns /\ imported.last = link.last
    BY <2>3 DEF LinkColumns
  <2> HIDE DEF imported
  <2>5. /\ settled[1] \in AutoRows /\ settled[2] \in LinkColumns
        /\ SyncKept(settled[1], finishRefreshed)
        /\ \A s \in GitStacks : settled[1][s].deploy \in {finishRefreshed[s].deploy, "idle"}
        /\ settled[2].last = link.last
    <3>1. CASE finishSame
      <4> DEFINE back == {s \in authorized : finishRefreshed[s].deploy = "rolled_back"}
                 c == clearResolvedDeploymentStates(finishRefreshed, imported, back)
      <4>1. settled = c BY <3>1 DEF clearIdenticalRollbackStates
      <4> HIDE DEF back
      <4>2. /\ c[1] \in AutoRows /\ c[2] \in LinkColumns
            /\ SyncKept(c[1], finishRefreshed)
            /\ \A s \in GitStacks : c[1][s].deploy \in {finishRefreshed[s].deploy, "idle"}
            /\ c[2].last = imported.last
        BY <2>2, <2>4, Resolved
      <4> HIDE DEF c, settled
      <4> QED BY <2>4, <4>1, <4>2
    <3>2. CASE ~finishSame
      <4>1. settled[1] = finishRefreshed /\ settled[2] = imported BY <3>2
      <4> HIDE DEF settled
      <4> QED BY <2>2, <2>4, <4>1 DEF SyncKept
    <3> QED BY <3>1, <3>2
  <2> HIDE DEF settled
  <2>6. link' \in LinkColumns /\ link'.last = link.last
    BY <2>1, <2>5 DEF LinkColumns
  <2>7. /\ row' \in AutoRows
        /\ \A s \in GitStacks :
             /\ row'[s].sync = finishRefreshed[s].sync
             /\ row'[s].pause = row[s].pause
             /\ row'[s].deploy \in {row[s].deploy, "idle"}
    BY <2>1, <2>2, <2>5 DEF SyncKept, DeployKept
  <2>8. todo \subseteq GitStacks
    <3>1. staleDeployTargets \subseteq authorized
      BY DEF staleDeployTargets, stacksAwaitingDeployRetry
    <3> QED BY <2>3, <3>1
  <2>9. at \in {"close", "deploy"} OBVIOUS
  <2>10. result \in {"up_to_date", "blocked", "partial"}
    <3>1. CASE cycle.edited # {} \/ cycle.preserved BY <3>1
    <3>2. CASE ~(cycle.edited # {} \/ cycle.preserved) /\ cycle.invalid # {}
      BY <3>2
    <3>3. CASE ~(cycle.edited # {} \/ cycle.preserved) /\ cycle.invalid = {}
      BY <3>3
    <3> QED BY <3>1, <3>2, <3>3
  <2> HIDE DEF at, result, todo
  <2>11. /\ cycle' \in CycleRec /\ cycle'.at = at /\ cycle'.now = {}
         /\ cycle'.token = cycle.token /\ cycle'.held = cycle.held
         /\ cycle'.wrote = cycle.wrote /\ cycle'.commit = cycle.commit
         /\ cycle'.todo = todo
    BY <2>1, <2>3, <2>8, <2>9, <2>10 DEF CycleRec
  <2>12. /\ finishBase \in AutoTrees
         /\ \A s \in cycle.wrote : finishBase[s] = cycle.token[s][2]
    BY <1>1, FinishBase
  <2>13. AutoShapes'
    BY <1>1, <2>1, <2>6, <2>7, <2>11, <2>12 DEF AutoInv, AutoShapes, AutoRows
  <2>14. AutoNumbers' BY <1>1, <2>6, <2>11 DEF AutoInv, AutoNumbers
  <2>15. CyclePlan' /\ WritePlan'
    BY <2>1, <2>9, <2>11, <2>12 DEF CyclePlan, WritePlan
  <2>16. EditMarks' BY <1>1 DEF AutoInv, EditMarks
  <2>17. activeAutomationComposePaths' = activeAutomationComposePaths
    BY <2>7 DEF activeAutomationComposePaths
  <2>18. Decided'
    <3>1. activeAutomationComposePaths \subseteq GitStacks
      BY DEF activeAutomationComposePaths
    <3> QED BY <1>1, <2>2, <2>7, <2>11, <2>17, <3>1 DEF AutoInv, Decided
  <2>19. InFlightIsRunning'
    <3>1. \A s \in GitStacks : row[s].deploy \in terminalStackDeployStates
                               /\ drow[s].state # "validating"
      BY <2>3 DEF AutoInv, InFlightIsRunning
    <3>2. \A s \in GitStacks : row'[s].deploy \in terminalStackDeployStates
      BY <2>7, <3>1 DEF terminalStackDeployStates
    <3> QED BY <1>1, <3>1, <3>2 DEF InFlightIsRunning
  <2>20. AutoInv'
    BY <2>13, <2>14, <2>15, <2>16, <2>18, <2>19 DEF AutoInv
  <2>21. EditStep BY <2>1 DEF EditStep
  <2>22. DecisionStep
    <3>1. ASSUME NEW s \in GitStacks \ touched', row'[s].sync = "up_to_date",
                 row[s].sync \in {"conflict", "locally_deleted"}
          PROVE  FALSE
      <4>1. s \in finishPaths /\ s \notin cycle.held BY <2>2, <2>7, <3>1
      <4>2. s \in activeAutomationComposePaths \ touched
        BY <1>1, <3>1, <4>1 DEF AutoInv, WritePlan, finishPaths
      <4> QED BY <1>1, <3>1, <4>1, <4>2 DEF AutoInv, Decided
    <3> QED BY <3>1 DEF DecisionStep
  <2> QED BY <2>20, <2>21, <2>22 DEF AutoStep
<1> QED BY <1>2, <1>3
-----------------------------------------------------------------------------
LEMMA AutoSteps == ASSUME AutoInv, AutoNext PROVE AutoStep
<1>1. CASE RunBindingAutoSync
  <2>1. events' \in 0..MaxEvents
    BY <1>1 DEF RunBindingAutoSync, AutoInv, AutoNumbers
  <2> QED BY <1>1, <2>1, AutoCheck DEF RunBindingAutoSync
<1>2. CASE RunBindingAutoSyncNow
  <2>1. events' \in 0..MaxEvents
    BY <1>2, GitAutomationAssumption DEF RunBindingAutoSyncNow, AutoInv, AutoNumbers
  <2> QED BY <1>2, <2>1, AutoCheck DEF RunBindingAutoSyncNow
<1>3. CASE ImportStacks \/ FinishImport \/ CloseCycle \/ ResetBindingAutomationState
           \/ RecoverInterruptedOperations
  BY <1>3, AutoImport, AutoFinishImport, AutoClose, AutoReset, AutoRecover
<1>4. ASSUME NEW s \in GitStacks,
             \/ DeferStack(s) \/ StartDeployment(s) \/ WriteStackFile(s)
             \/ DeploymentSucceeds(s) \/ DeploymentFails(s)
             \/ CompareForRollback(s) \/ DeploymentRollsBack(s)
      PROVE  AutoStep
  BY <1>4, AutoDefer, AutoStart, AutoWrite, AutoDeployed, AutoCompare, AutoRollsBack
<1>5. ASSUME NEW s \in GitStacks,
             \/ PushToProvider(s) \/ SaveStackFile(s) \/ MarkLocalChange(s)
             \/ ChangeEditor(s) \/ ChangeLock(s)
      PROVE  AutoStep
  BY <1>5, AutoProvider, AutoSave, AutoMark, AutoEditor
<1>6. ASSUME NEW s \in GitStacks,
             \/ SetGitStackAutomationPause(s) \/ ResumeGitStackAutomation(s)
             \/ PushGitStackAndResume(s) \/ SyncGitStackNow(s)
      PROVE  AutoStep
  BY <1>6, AutoPause, AutoResume, AutoPublish, AutoSyncNow
<1> QED BY <1>1, <1>2, <1>3, <1>4, <1>5, <1>6 DEF AutoNext

LEMMA AutoSteady == ASSUME AutoInv, UNCHANGED autoVars PROVE AutoInv'
<1> USE DEF autoVars
<1>1. AutoShapes' /\ AutoNumbers' BY DEF AutoInv, AutoShapes, AutoNumbers
<1>2. CyclePlan' /\ EditMarks' /\ InFlightIsRunning'
  BY DEF AutoInv, CyclePlan, EditMarks, InFlightIsRunning
<1>3. Decided' /\ WritePlan'
  BY DEF AutoInv, Decided, WritePlan, activeAutomationComposePaths
<1> QED BY <1>1, <1>2, <1>3 DEF AutoInv

LEMMA AutoAlways == AutoSpec => []AutoInv
<1>1. AutoInv /\ [AutoNext]_autoVars => AutoInv'
  BY AutoSteps, AutoSteady DEF AutoStep
<1> QED BY <1>1, AutoInitInv, PTL DEF AutoSpec

(* Types, and a deployment reported as going on is one that is going on:   *)
(* StartDeployment, FinishDeployment and RecoverInterruptedOperations keep *)
(* the Deployment rows and the status rows in step (deployment.go and      *)
(* service.go).                                                            *)
THEOREM AutomationInFlight == AutoSpec => [](AutoTypeOK /\ InFlightIsRunning)
<1>1. AutoInv => AutoTypeOK
  BY DEF AutoInv, AutoShapes, AutoNumbers, AutoTypeOK, AutoTrees, AutoContents,
         StackRow, DeployRow, LinkColumns, CycleRec, Clone, Outcomes
<1>2. AutoInv => InFlightIsRunning BY DEF AutoInv
<1> QED BY <1>1, <1>2, AutoAlways, PTL

(* An automatic cycle loses no edit it could have seen: what               *)
(* writeStackFiles writes and what the rollback of a deployment puts back, *)
(* before a stop of the process too, replaces a file only while it holds   *)
(* what was last synchronized, or when it was changed by hand after the    *)
(* import or the rollback had compared it.                                 *)
THEOREM AutomationKeepsEdits == AutoSpec => NoEditLost
<1>1. AutoInv /\ [AutoNext]_autoVars => [EditStep]_autoVars
  BY AutoSteps DEF AutoStep
<1>2. NoEditLost <=> [][EditStep]_autoVars BY DEF NoEditLost, EditStep
<1> QED BY <1>1, <1>2, AutoAlways, PTL DEF AutoSpec

(* A conflict or a local deletion that awaits the operator is not painted  *)
(* green by a cycle, whatever it scans, skips, imports or closes with.     *)
THEOREM DecisionsAreKept == AutoSpec => DecisionKept
<1>1. AutoInv /\ [AutoNext]_autoVars => [DecisionStep]_autoVars
  BY AutoSteps DEF AutoStep
<1>2. DecisionKept <=> [][DecisionStep]_autoVars BY DEF DecisionKept, DecisionStep
<1> QED BY <1>1, <1>2, AutoAlways, PTL DEF AutoSpec

-----------------------------------------------------------------------------
(***************************************************************************)
(* Proofs about what takes part in a transfer (GitPolicy).                 *)
(***************************************************************************)

PolicyFile == PolicyContents \cup {Absent}

PolicyShapes ==
    /\ profile \in {"compose_only", "compose_config", "all_files"}
    /\ inc \subseteq Rules /\ exc \subseteq Rules
    /\ held \subseteq PolicyPaths /\ acl \subseteq PolicyPaths \cup {DataDir}
    /\ policyFiles \in [Sides -> [PolicyPaths -> PolicyFile]]
    /\ baseP \in [PolicyPaths -> PolicyFile]
    /\ psteps \in Nat

(* What was deleted while it was held out is still held out.               *)
GoneIsHeld ==
    \A p \in goneP \ {"compose"} :
        p \in PolicyPaths /\ p \in held /\ policyFiles["host"][p] = Absent

(* What the import in progress will write is neither held out nor, as far  *)
(* as nothing changed since it looked, a file that cannot be read.         *)
TransferSafe ==
    \A p \in transferP.write :
        /\ p \in held => p = "compose"
        /\ ignores["host"] \subseteq ignores["git"] /\ p \notin sinceP =>
             Readable(p) \/ policyFiles["host"][p] = Absent

TransferShape ==
    /\ transferP.write \subseteq PolicyPaths
    /\ transferP # NoTransfer => /\ transferP.content \in [PolicyPaths -> PolicyFile]
                                 /\ transferP.base \in [PolicyPaths -> PolicyFile]

PolicyInv == PolicyShapes /\ GoneIsHeld /\ TransferShape /\ TransferSafe
-----------------------------------------------------------------------------
LEMMA PolicyInitInv == PolicyInit => PolicyInv
<1> SUFFICES ASSUME PolicyInit PROVE PolicyInv OBVIOUS
<1>1. policyFiles \in [Sides -> [PolicyPaths -> PolicyFile]]
  BY DEF PolicyInit, PolicyFile, PolicyContents
<1>2. baseP \in [PolicyPaths -> PolicyFile]
  BY DEF PolicyInit, PolicyFile, PolicyContents, Absent
<1>3. inc \subseteq Rules BY DEF PolicyInit, Rules
<1>4. TransferShape /\ TransferSafe
  BY DEF PolicyInit, TransferShape, TransferSafe, NoTransfer
<1> QED BY <1>1, <1>2, <1>3, <1>4 DEF PolicyInit, PolicyInv, PolicyShapes, GoneIsHeld

(* A rule set that names more excludes more.                               *)
LEMMA ExclusionGrows ==
    ASSUME NEW p, NEW rules, NEW more, rules \subseteq more, exclusionApplies(p, rules)
    PROVE  exclusionApplies(p, more)
BY DEF exclusionApplies, matchesIgnoreRule

LEMMA HeldIsExcluded ==
    ASSUME NEW p, p \in held, NEW rules PROVE exclusionApplies(p, rules)
BY DEF exclusionApplies, holdsUnreadable

(* When the collectors of each side take a path for a file.                *)
LEMMA FileInGit ==
    ASSUME NEW p, collectRepositoryTreeFiles(p) = "file"
    PROVE  /\ Within(p, DataDir) => /\ ~exclusionApplies(DataDir, ignores["git"])
                                    /\ ~(profile = "compose_only"
                                          /\ ~explicitIncludeCanMatchBelow(DataDir))
           /\ policyFiles["git"][p] # Absent
           /\ exclusionApplies(p, ignores["git"]) => p = "compose"
           /\ includesFile(p)
<1>1. ASSUME Within(p, DataDir) PROVE DirVerdict("git") = "open"
  BY <1>1 DEF collectRepositoryTreeFiles, DirVerdict
<1>2. FileVerdict("git", p) = "file" BY <1>1 DEF collectRepositoryTreeFiles
<1>3. ASSUME Within(p, DataDir)
      PROVE /\ ~exclusionApplies(DataDir, ignores["git"])
            /\ ~(profile = "compose_only" /\ ~explicitIncludeCanMatchBelow(DataDir))
  BY <1>1, <1>3 DEF DirVerdict
<1> QED BY <1>2, <1>3 DEF FileVerdict

LEMMA HostFileHidden ==
    ASSUME NEW p, ~Readable(p), policyFiles["host"][p] # Absent,
           ignores["host"] \subseteq ignores["git"],
           collectRepositoryTreeFiles(p) = "file"
    PROVE  blockedTargetDirectory(p) \/ collectStackFiles(p) = "permission"
<1>1. /\ Within(p, DataDir) => /\ ~exclusionApplies(DataDir, ignores["host"])
                               /\ ~(profile = "compose_only"
                                     /\ ~explicitIncludeCanMatchBelow(DataDir))
      /\ exclusionApplies(p, ignores["host"]) => p = "compose"
      /\ includesFile(p)
  BY FileInGit, ExclusionGrows
<1>2. CASE Within(p, DataDir) /\ DirVerdict("host") # "open"
  <2>1. DirVerdict("host") \in {"permission", "large_directory"}
    BY <1>1, <1>2 DEF DirVerdict
  <2> QED BY <1>2, <2>1 DEF blockedTargetDirectory
<1>3. CASE ~(Within(p, DataDir) /\ DirVerdict("host") # "open")
  <2>1. collectStackFiles(p) = FileVerdict("host", p) BY <1>3 DEF collectStackFiles
  <2>2. FileVerdict("host", p) = "permission" BY <1>1 DEF FileVerdict
  <2> QED BY <2>1, <2>2
<1> QED BY <1>2, <1>3

(* A held path other than the Compose file is no file of Git's inventory.  *)
LEMMA HeldIsSkipped ==
    ASSUME NEW p, p \in held, p # "compose" PROVE ImportVerdict(p) = "skipped"
<1>1. exclusionApplies(p, ignores["git"]) BY HeldIsExcluded
<1>2. collectRepositoryTreeFiles(p) # "file" BY <1>1, FileInGit
<1> QED BY <1>2 DEF ImportVerdict
-----------------------------------------------------------------------------
(* What one cycle settles to write.                                        *)
CycleWrites == {p \in PolicyPaths : ImportVerdict(p) \in {"add", "modify"}}

LEMMA CycleWritesSafe ==
    ASSUME NEW p \in CycleWrites
    PROVE  /\ p \in held => p = "compose"
           /\ ignores["host"] \subseteq ignores["git"] =>
                Readable(p) \/ policyFiles["host"][p] = Absent
<1>1. ImportVerdict(p) \notin {"skipped", "skipped_large", "skipped_permission"}
  BY DEF CycleWrites
<1>2. p \in held => p = "compose" BY <1>1, HeldIsSkipped
<1>3. collectRepositoryTreeFiles(p) = "file" BY <1>1 DEF ImportVerdict
<1>4. ~(blockedTargetDirectory(p) \/ collectStackFiles(p) = "permission")
  BY <1>1, <1>3 DEF ImportVerdict
<1> QED BY <1>2, <1>3, <1>4, HostFileHidden

LEMMA CycleHolds ==
    ASSUME PolicyInv, ImportCycle, held = refreshUnreadableExclusions
    PROVE  \E added \in SUBSET {p \in PolicyPaths : ImportVerdict(p) = "skipped_permission"},
              after \in [PolicyPaths -> PolicyFile] :
             /\ held' = held \cup added
             /\ baseP' \in [PolicyPaths -> PolicyFile]
             /\ \/ transferP' = NoTransfer
                \/ transferP' = [write |-> CycleWrites, content |-> policyFiles["git"],
                                 base |-> after]
<1> DEFINE verdict == [p \in PolicyPaths |-> ImportVerdict(p)]
           blocked == OfKind(verdict, {"skipped_permission"})
           written == OfKind(verdict, {"add", "modify"})
           same == OfKind(verdict, {"unchanged"})
           pruned(added) == [p \in PolicyPaths |-> IF p \in added THEN Absent ELSE baseP[p]]
           after(added) == [p \in PolicyPaths |->
                              IF p \in written \cup same THEN policyFiles["git"][p]
                              ELSE pruned(added)[p]]
<1>1. PICK added \in SUBSET (blocked \ held) :
        /\ held' = held \cup added
        /\ baseP' = IF written = {} THEN after(added) ELSE pruned(added)
        /\ transferP' = IF written = {} THEN NoTransfer
             ELSE [write |-> written, content |-> policyFiles["git"], base |-> after(added)]
  BY DEF ImportCycle
<1>2. /\ blocked = {p \in PolicyPaths : ImportVerdict(p) = "skipped_permission"}
      /\ written = CycleWrites
  BY DEF OfKind, CycleWrites
<1> HIDE DEF verdict, blocked, written, same
<1>3. Absent \in PolicyFile /\ "git" \in Sides BY DEF PolicyFile, Sides
<1>4. policyFiles["git"] \in [PolicyPaths -> PolicyFile] BY <1>3 DEF PolicyInv, PolicyShapes
<1>5. pruned(added) \in [PolicyPaths -> PolicyFile] BY <1>3 DEF PolicyInv, PolicyShapes
<1> HIDE DEF pruned
<1>6. after(added) \in [PolicyPaths -> PolicyFile] BY <1>4, <1>5
<1> HIDE DEF after
<1>7. baseP' \in [PolicyPaths -> PolicyFile] BY <1>1, <1>5, <1>6
<1> QED BY <1>1, <1>2, <1>6, <1>7

LEMMA CycleFrame ==
    ASSUME PolicyInv, ImportCycle
    PROVE  /\ UNCHANGED <<profile, inc, exc, ignores, acl, large, policyFiles, goneP, sinceP,
                          psteps>>
           /\ held' \subseteq PolicyPaths /\ baseP' \in [PolicyPaths -> PolicyFile]
           /\ \A p \in held : policyFiles["host"][p] = Absent => p \in held'
           /\ TransferShape' /\ TransferSafe'
<1>0. UNCHANGED <<profile, inc, exc, ignores, acl, large, policyFiles, goneP, sinceP, psteps>>
  BY DEF ImportCycle
<1>1. ASSUME transferP' = NoTransfer PROVE TransferShape' /\ TransferSafe'
  BY <1>1 DEF TransferShape, TransferSafe, NoTransfer
<1>2. CASE held # refreshUnreadableExclusions
  <2>1. held' = refreshUnreadableExclusions /\ UNCHANGED baseP /\ transferP' = NoTransfer
    BY <1>2 DEF ImportCycle
  <2>2. \A p \in held : policyFiles["host"][p] = Absent => p \in held'
    BY <2>1 DEF refreshUnreadableExclusions
  <2>3. held' \subseteq PolicyPaths
    BY <2>1 DEF refreshUnreadableExclusions, PolicyInv, PolicyShapes
  <2> QED BY <1>0, <1>1, <2>1, <2>2, <2>3 DEF PolicyInv, PolicyShapes
<1>3. CASE held = refreshUnreadableExclusions
  <2>1. PICK added \in SUBSET {p \in PolicyPaths : ImportVerdict(p) = "skipped_permission"},
             after \in [PolicyPaths -> PolicyFile] :
          /\ held' = held \cup added
          /\ baseP' \in [PolicyPaths -> PolicyFile]
          /\ \/ transferP' = NoTransfer
             \/ transferP' = [write |-> CycleWrites, content |-> policyFiles["git"],
                              base |-> after]
    BY <1>3, CycleHolds
  <2>2. held' \subseteq PolicyPaths BY <2>1 DEF PolicyInv, PolicyShapes
  <2>3. ASSUME transferP' = [write |-> CycleWrites, content |-> policyFiles["git"],
                             base |-> after]
        PROVE  TransferShape' /\ TransferSafe'
    <3>1. /\ transferP'.write = CycleWrites /\ transferP'.content = policyFiles["git"]
          /\ transferP'.base = after
      BY <2>3
    <3>2. "git" \in Sides BY DEF Sides
    <3>3. TransferShape'
      BY <3>1, <3>2 DEF TransferShape, CycleWrites, PolicyInv, PolicyShapes
    <3>4. ASSUME NEW p \in CycleWrites
          PROVE  /\ p \in held' => p = "compose"
                 /\ ignores'["host"] \subseteq ignores'["git"] /\ p \notin sinceP' =>
                      Readable(p)' \/ policyFiles'["host"][p] = Absent
      <4>1. p \notin added BY <2>1 DEF CycleWrites
      <4>2. Readable(p)' <=> Readable(p) BY <1>0 DEF Readable
      <4> QED BY <1>0, <2>1, <4>1, <4>2, CycleWritesSafe
    <3>5. TransferSafe' BY <3>1, <3>4 DEF TransferSafe
    <3> QED BY <3>3, <3>5
  <2> QED BY <1>0, <1>1, <2>1, <2>2, <2>3
<1> QED BY <1>2, <1>3

LEMMA PolicyCycle == ASSUME PolicyInv, ImportCycle PROVE PolicyInv'
<1>1. PolicyShapes' BY CycleFrame DEF PolicyInv, PolicyShapes
<1>2. GoneIsHeld' BY CycleFrame DEF PolicyInv, GoneIsHeld
<1> QED BY <1>1, <1>2, CycleFrame DEF PolicyInv

(* The writes touch nothing but what was settled.                          *)
LEMMA WritesFrame ==
    ASSUME PolicyInv, NEW done \in SUBSET transferP.write, ImportWrites(done)
    PROVE  /\ policyFiles' \in [Sides -> [PolicyPaths -> PolicyFile]]
           /\ \A p \in PolicyPaths \ transferP.write :
                policyFiles'["host"][p] = policyFiles["host"][p]
           /\ baseP' \in [PolicyPaths -> PolicyFile] /\ transferP' = NoTransfer
           /\ UNCHANGED <<profile, inc, exc, ignores, held, acl, large, goneP, psteps>>
<1> DEFINE host == [p \in PolicyPaths |->
                      IF p \in done THEN transferP.content[p] ELSE policyFiles["host"][p]]
<1>1. "host" \in Sides BY DEF Sides
<1>2. transferP # NoTransfer BY DEF ImportWrites
<1>3. policyFiles' = [policyFiles EXCEPT !["host"] = host]
  BY <1>1 DEF ImportWrites, PolicyInv, PolicyShapes
<1>4. host \in [PolicyPaths -> PolicyFile]
  BY <1>1, <1>2 DEF PolicyInv, PolicyShapes, TransferShape
<1>5. \A p \in PolicyPaths \ transferP.write : host[p] = policyFiles["host"][p] OBVIOUS
<1> HIDE DEF host
<1>6. policyFiles' \in [Sides -> [PolicyPaths -> PolicyFile]] /\ policyFiles'["host"] = host
  BY <1>1, <1>3, <1>4 DEF PolicyInv, PolicyShapes
<1>7. baseP' \in [PolicyPaths -> PolicyFile]
  BY <1>2 DEF ImportWrites, PolicyInv, PolicyShapes, TransferShape
<1> QED BY <1>5, <1>6, <1>7 DEF ImportWrites

LEMMA PolicyWrites ==
    ASSUME PolicyInv, NEW done \in SUBSET transferP.write, ImportWrites(done) PROVE PolicyInv'
<1>1. PolicyShapes' BY WritesFrame DEF PolicyInv, PolicyShapes
<1>2. ASSUME NEW p \in goneP' \ {"compose"}
      PROVE  p \in PolicyPaths /\ p \in held' /\ policyFiles'["host"][p] = Absent
  <2>1. p \in PolicyPaths /\ p \in held /\ policyFiles["host"][p] = Absent
    BY WritesFrame DEF PolicyInv, GoneIsHeld
  <2>2. p \notin transferP.write BY <2>1 DEF PolicyInv, TransferSafe
  <2> QED BY <2>1, <2>2, WritesFrame
<1>3. GoneIsHeld' BY <1>2 DEF GoneIsHeld
<1>4. TransferShape' /\ TransferSafe'
  BY WritesFrame DEF TransferShape, TransferSafe, NoTransfer
<1> QED BY <1>1, <1>3, <1>4 DEF PolicyInv

(* What the import will write stays safe while what changes is noted.      *)
LEMMA TransferNoted ==
    ASSUME PolicyInv, NEW paths, sinceP' = Touched(paths), UNCHANGED <<held, ignores, transferP>>,
           \A p \in PolicyPaths \ paths :
              /\ Readable(p) => Readable(p)'
              /\ policyFiles["host"][p] = Absent => policyFiles'["host"][p] = Absent
    PROVE  TransferShape' /\ TransferSafe'
<1>1. TransferShape' BY DEF PolicyInv, TransferShape
<1>2. ASSUME NEW p \in transferP.write
      PROVE  /\ p \in held' => p = "compose"
             /\ ignores'["host"] \subseteq ignores'["git"] /\ p \notin sinceP' =>
                  Readable(p)' \/ policyFiles'["host"][p] = Absent
  <2>1. transferP # NoTransfer BY DEF NoTransfer
  <2>2. sinceP' = sinceP \cup paths BY <2>1 DEF Touched
  <2>3. p \in PolicyPaths BY DEF PolicyInv, TransferShape
  <2> QED BY <2>2, <2>3 DEF PolicyInv, TransferSafe
<1>3. TransferSafe' BY <1>2 DEF TransferSafe
<1> QED BY <1>1, <1>3

LEMMA PolicyRights ==
    ASSUME PolicyInv, NEW p \in PolicyPaths \cup {DataDir}, ChangeRights(p) PROVE PolicyInv'
<1>1. psteps' \in Nat BY DEF ChangeRights, PolicyAct, PolicyInv, PolicyShapes
<1>2. PolicyShapes' BY <1>1 DEF ChangeRights, PolicyInv, PolicyShapes
<1>3. GoneIsHeld' BY DEF ChangeRights, PolicyInv, GoneIsHeld
<1> DEFINE paths == {q \in PolicyPaths : q = p \/ Within(q, p)}
<1>4. sinceP' = Touched(paths) /\ UNCHANGED <<held, ignores, transferP, policyFiles>>
  BY DEF ChangeRights
<1>5. ASSUME NEW q \in PolicyPaths \ paths, Readable(q) PROVE Readable(q)'
  <2>1. acl' \subseteq acl \cup {p} BY DEF ChangeRights
  <2> QED BY <1>5, <2>1 DEF Readable
<1> HIDE DEF paths
<1>6. TransferShape' /\ TransferSafe' BY <1>4, <1>5, TransferNoted
<1> QED BY <1>2, <1>3, <1>6 DEF PolicyInv

LEMMA PolicyWrite ==
    ASSUME PolicyInv, NEW p \in PolicyPaths, NEW c \in PolicyFile, WriteHost(p, c)
    PROVE  PolicyInv'
<1>1. psteps' \in Nat BY DEF WriteHost, PolicyAct, PolicyInv, PolicyShapes
<1>2. policyFiles' = [policyFiles EXCEPT !["host"][p] = c] /\ UNCHANGED held
  BY DEF WriteHost
<1>3. /\ policyFiles' \in [Sides -> [PolicyPaths -> PolicyFile]]
      /\ policyFiles'["host"][p] = c
      /\ \A q \in PolicyPaths \ {p} : policyFiles'["host"][q] = policyFiles["host"][q]
  BY <1>2 DEF PolicyInv, PolicyShapes, Sides
<1>4. PolicyShapes' BY <1>1, <1>3 DEF WriteHost, PolicyInv, PolicyShapes
<1>5. goneP' = IF c = Absent /\ p \in held /\ ~Readable(p) THEN goneP \cup {p} ELSE goneP \ {p}
  BY DEF WriteHost
<1>6. GoneIsHeld' BY <1>2, <1>3, <1>5 DEF PolicyInv, GoneIsHeld
<1>7. sinceP' = Touched({p}) /\ UNCHANGED <<held, ignores, transferP, acl>> BY DEF WriteHost
<1>8. \A q \in PolicyPaths : Readable(q) => Readable(q)' BY <1>7 DEF Readable
<1>9. TransferShape' /\ TransferSafe' BY <1>3, <1>7, <1>8, TransferNoted
<1> QED BY <1>4, <1>6, <1>9 DEF PolicyInv

LEMMA PolicyCommit ==
    ASSUME PolicyInv, NEW p \in PolicyPaths, NEW c \in PolicyFile, CommitPath(p, c)
    PROVE  PolicyInv'
<1>1. psteps' \in Nat BY DEF CommitPath, PolicyAct, PolicyInv, PolicyShapes
<1>2. policyFiles' = [policyFiles EXCEPT !["git"][p] = c]
      /\ UNCHANGED <<profile, inc, exc, ignores, held, acl, large, baseP, transferP, goneP,
                     sinceP>>
  BY DEF CommitPath
<1>3. /\ policyFiles' \in [Sides -> [PolicyPaths -> PolicyFile]]
      /\ policyFiles'["host"] = policyFiles["host"]
  BY <1>2 DEF PolicyInv, PolicyShapes, Sides
<1>4. PolicyShapes' BY <1>1, <1>2, <1>3 DEF PolicyInv, PolicyShapes
<1>5. GoneIsHeld' BY <1>2, <1>3 DEF PolicyInv, GoneIsHeld
<1>6. TransferShape' BY <1>2 DEF PolicyInv, TransferShape
<1>7. TransferSafe' BY <1>2, <1>3 DEF PolicyInv, TransferSafe, Readable
<1> QED BY <1>4, <1>5, <1>6, <1>7 DEF PolicyInv

LEMMA PolicyRules ==
    ASSUME PolicyInv, \/ \E p \in PolicyPaths, tracked, deleted \in BOOLEAN :
                           SetGitFileTracking(p, tracked, deleted)
                      \/ \E to \in {"compose_only", "compose_config", "all_files"} :
                           UpdatePolicy(to)
    PROVE  PolicyInv'
<1>1. /\ psteps' \in Nat /\ UNCHANGED <<ignores, acl, large, policyFiles, sinceP>>
      /\ UNCHANGED <<held, goneP>> \/ (held' = {} /\ goneP' = {})
      /\ transferP' = NoTransfer
  <2>1. PolicyAct => psteps' \in Nat BY DEF PolicyAct, PolicyInv, PolicyShapes
  <2> QED BY <2>1 DEF SetGitFileTracking, UpdatePolicy
<1>2. GoneIsHeld' BY <1>1 DEF PolicyInv, GoneIsHeld
<1>5. TransferShape' /\ TransferSafe' BY <1>1 DEF TransferShape, TransferSafe, NoTransfer
<1>3. ASSUME NEW p \in PolicyPaths, NEW tracked \in BOOLEAN, NEW deleted \in BOOLEAN,
             SetGitFileTracking(p, tracked, deleted)
      PROVE  PolicyShapes'
  <2>1. <<"exact", p>> \in Rules
    BY <1>3, GitPolicyAssumption DEF SetGitFileTracking, mutableGitFilePolicyPath, Rules
  <2>2. inc' \subseteq Rules /\ exc' \subseteq Rules /\ UNCHANGED profile
    BY <1>3, <2>1 DEF SetGitFileTracking, PolicyInv, PolicyShapes
  <2>3. baseP' \in [PolicyPaths -> PolicyFile]
    <3>1. Absent \in PolicyFile BY DEF PolicyFile
    <3> QED BY <1>3, <3>1 DEF SetGitFileTracking, PolicyInv, PolicyShapes
  <2> QED BY <1>1, <2>2, <2>3 DEF PolicyInv, PolicyShapes
<1>4. ASSUME NEW to \in {"compose_only", "compose_config", "all_files"}, UpdatePolicy(to)
      PROVE  PolicyShapes'
  <2>1. <<"dir", DataDir>> \in Rules BY DEF Rules
  <2> QED BY <1>1, <1>4, <2>1 DEF UpdatePolicy, PolicyInv, PolicyShapes
<1> QED BY <1>2, <1>3, <1>4, <1>5 DEF PolicyInv

LEMMA PolicyStep == PolicyInv /\ [PolicyNext]_policyVars => PolicyInv'
<1> SUFFICES ASSUME PolicyInv, [PolicyNext]_policyVars PROVE PolicyInv' OBVIOUS
<1>1. CASE UNCHANGED policyVars
  <2>1. PolicyShapes' BY <1>1 DEF policyVars, PolicyInv, PolicyShapes
  <2>2. GoneIsHeld' BY <1>1 DEF policyVars, PolicyInv, GoneIsHeld
  <2>3. TransferShape' BY <1>1 DEF policyVars, PolicyInv, TransferShape
  <2>4. TransferSafe' BY <1>1 DEF policyVars, PolicyInv, TransferSafe, Readable
  <2> QED BY <2>1, <2>2, <2>3, <2>4 DEF PolicyInv
<1>2. CASE ImportCycle BY <1>2, PolicyCycle
<1>6. CASE \E done \in SUBSET transferP.write : ImportWrites(done) BY <1>6, PolicyWrites
<1>3. CASE \E p \in PolicyPaths \cup {DataDir} : ChangeRights(p) BY <1>3, PolicyRights
<1>4. CASE \E p \in PolicyPaths : \E c \in PolicyContents \cup {Absent} :
             WriteHost(p, c) \/ CommitPath(p, c)
  BY <1>4, PolicyWrite, PolicyCommit DEF PolicyFile
<1>5. CASE \/ \E p \in PolicyPaths, tracked, deleted \in BOOLEAN :
                SetGitFileTracking(p, tracked, deleted)
           \/ \E to \in {"compose_only", "compose_config", "all_files"} : UpdatePolicy(to)
  BY <1>5, PolicyRules
<1> QED BY <1>1, <1>2, <1>3, <1>4, <1>5, <1>6 DEF PolicyNext
-----------------------------------------------------------------------------
UnreadKept ==
    policyFiles' # policyFiles /\ psteps' = psteps =>
      \A p \in PolicyPaths :
         /\ ignores["host"] \subseteq ignores["git"]
         /\ ~Readable(p) /\ policyFiles["host"][p] # Absent /\ p \notin sinceP
         => policyFiles'["host"][p] = policyFiles["host"][p]

LEMMA CycleKeeps == PolicyInv /\ [PolicyNext]_policyVars => [UnreadKept]_policyVars
<1> SUFFICES ASSUME PolicyInv, PolicyNext, psteps' = psteps, NEW p \in PolicyPaths,
                    ignores["host"] \subseteq ignores["git"], ~Readable(p),
                    policyFiles["host"][p] # Absent, p \notin sinceP
             PROVE  policyFiles'["host"][p] = policyFiles["host"][p]
  BY DEF UnreadKept
<1>1. ~PolicyAct BY DEF PolicyInv, PolicyShapes, PolicyAct
<1>2. ImportCycle \/ \E done \in SUBSET transferP.write : ImportWrites(done)
  BY <1>1 DEF PolicyNext, ChangeRights, WriteHost, CommitPath, SetGitFileTracking,
              UpdatePolicy
<1>3. p \notin transferP.write BY DEF PolicyInv, TransferSafe
<1> QED BY <1>2, <1>3, WritesFrame DEF ImportCycle

(* What Dockman cannot read on the host no cycle replaces by what is on    *)
(* Git (unreadable.go, binding.go:blockedTargetDirectory), for every       *)
(* profile, rules and rights, held out yet or not, unless it was made or   *)
(* changed after the import had looked.                                    *)
THEOREM UnreadIsKept == PolicySpec => UnreadNeverOverwritten
<1>1. UnreadNeverOverwritten <=> [][UnreadKept]_policyVars
  BY DEF UnreadNeverOverwritten, UnreadKept
<1> QED BY <1>1, PolicyInitInv, PolicyStep, CycleKeeps, PTL DEF PolicySpec

LEMMA ViewsTellTheTruth == PolicyInv => ViewsAgree
<1> SUFFICES ASSUME NEW p \in PolicyPaths, ignores["host"] = ignores["git"]
             PROVE  LET dir == IF Within(p, DataDir) THEN DataDir ELSE "."
                        listed == BindingPolicyTree(dir)
                        open(side) == dir = DataDir => DirVerdict(side) = "open"
                    IN /\ policyFiles["git"][p] # Absent /\ open("git") =>
                            (listed[p] = "included" <=> collectRepositoryTreeFiles(p) = "file")
                       /\ policyFiles["host"][p] # Absent /\ open("host") /\ Readable(p) =>
                            /\ p \in GitTrackedFiles(PolicyPaths) <=> collectStackFiles(p) = "file"
                            /\ bindingTracksLocalMutation(p) <=> collectStackFiles(p) = "file"
  BY DEF ViewsAgree
<1> DEFINE dir == IF Within(p, DataDir) THEN DataDir ELSE "."
           open(side) == dir = DataDir => DirVerdict(side) = "open"
<1>1. includesFile("compose") BY DEF includesFile
<1>2. ASSUME policyFiles["git"][p] # Absent, open("git")
      PROVE  BindingPolicyTree(dir)[p] = "included" <=> collectRepositoryTreeFiles(p) = "file"
  <2>1. BindingPolicyTree(dir)[p] = evaluatePolicyTreeEntry(p)
    BY <1>2 DEF BindingPolicyTree, Within, DataDir
  <2>2. collectRepositoryTreeFiles(p) = FileVerdict("git", p)
    BY <1>2 DEF collectRepositoryTreeFiles
  <2>3. FileVerdict("git", p) = "file" <=>
          /\ exclusionApplies(p, ignores["git"]) => p = "compose"
          /\ includesFile(p)
    BY <1>2 DEF FileVerdict
  <2>4. evaluatePolicyTreeEntry(p) = "included" <=>
          \/ p = "compose"
          \/ ~exclusionApplies(p, ignores["git"]) /\ includesFile(p)
    <3>1. ignores["host"] \cup ignores["git"] = ignores["git"] OBVIOUS
    <3>2. exclusionApplies(p, ignores["host"] \cup ignores["git"])
            <=> exclusionApplies(p, ignores["git"])
      BY <3>1
    <3>3. CASE p = "compose" BY <3>3 DEF evaluatePolicyTreeEntry
    <3>4. CASE p # "compose" BY <3>2, <3>4 DEF evaluatePolicyTreeEntry
    <3> QED BY <3>3, <3>4
  <2> QED BY <1>1, <2>1, <2>2, <2>3, <2>4
<1>3. ASSUME policyFiles["host"][p] # Absent, open("host"), Readable(p)
      PROVE  /\ p \in GitTrackedFiles(PolicyPaths) <=> collectStackFiles(p) = "file"
             /\ bindingTracksLocalMutation(p) <=> collectStackFiles(p) = "file"
  <2>1. collectStackFiles(p) = FileVerdict("host", p) BY <1>3 DEF collectStackFiles
  <2>2. FileVerdict("host", p) = "file" <=> policyTracksLocalFile(p)
    BY <1>3 DEF FileVerdict, policyTracksLocalFile
  <2>3. p # DataDir BY GitPolicyAssumption DEF DataDir
  <2> QED BY <2>1, <2>2, <2>3 DEF GitTrackedFiles, bindingTracksLocalMutation
<1> QED BY <1>2, <1>3

(* What was deleted while it was held out does not come back from Git      *)
(* while the policy stays the same, and the policy picker, the badges and  *)
(* the transfer agree on every file (unreadable.go, policy_tree.go).       *)
THEOREM IgnoredIsHonest == PolicySpec => [](PolicyTypeOK /\ PolicyHonest)
<1>1. PolicyInv => PolicyTypeOK
  BY DEF PolicyInv, PolicyShapes, TransferShape, PolicyTypeOK, PolicyFile, Sides
<1>2. PolicyInv => IgnoredStaysDeleted BY DEF PolicyInv, GoneIsHeld, IgnoredStaysDeleted
<1> QED BY <1>1, <1>2, ViewsTellTheTruth, PolicyInitInv, PolicyStep, PTL
        DEF PolicySpec, PolicyHonest

-----------------------------------------------------------------------------
(***************************************************************************)
(* Proofs about deletion decisions (GitDeletion).                          *)
(***************************************************************************)

DTrees == [DFiles -> DContents]

DelOps ==
    [kind : {"none", "file", "stack", "restore", "orphan", "folder"},
     step : {"none", "check", "push", "backup", "compare", "remove", "forget"},
     tree : DTrees, from : DTrees, file : DFiles \cup {"none"}]

DelShapes ==
    /\ dHost \in DTrees /\ dGit \in DTrees /\ dBase \in DTrees /\ dBackup \in DTrees
    /\ dCommit \in [tree : DTrees, from : DTrees, made : BOOLEAN]
    /\ dOp \in DelOps
    /\ dSelected \in BOOLEAN /\ dLinked \in BOOLEAN /\ dBusy \in BOOLEAN
    /\ dExcluded \subseteq DFiles /\ dIncluded \subseteq DFiles
    /\ dState \in {"up_to_date", "watching", "blocked", "conflict", "disabled"}

(* The steps each kind of decision goes through.                           *)
DelStages ==
    /\ dOp.kind = "none" <=> dOp.step = "none"
    /\ dOp.kind = "file" => dOp.step \in {"check", "push"} /\ dOp.file \in DFiles
    /\ dOp.kind \in {"stack", "restore"} => dOp.step = "push"
    /\ dOp.kind = "orphan" => dOp.step \in {"backup", "compare", "remove", "forget"}
    /\ dOp.kind = "folder" => dOp.step \in {"push", "remove", "forget"}

(* The backup holds the snapshot, and after the second snapshot the host   *)
(* as it is but for what was written since.                                *)
DelSaved ==
    /\ dOp.step = "compare" => dBackup = dOp.tree
    /\ dOp.kind = "orphan" /\ dOp.step = "remove" =>
         \A f \in DFiles \ dTouched : dBackup[f] = dHost[f]

(* The branch a file is deleted from holds its baseline.                   *)
DelAgreed ==
    dOp.kind = "file" /\ dOp.step = "push" => dOp.from[dOp.file] = dBase[dOp.file]

DelInv == DelShapes /\ DelStages /\ DelSaved /\ DelAgreed
-----------------------------------------------------------------------------
LEMMA DelNone == /\ NoFiles \in DTrees /\ NoOp \in DelOps
                 /\ NoOp.kind = "none" /\ NoOp.step = "none"
                 /\ NoDelCommit \in [tree : DTrees, from : DTrees, made : BOOLEAN]
BY DEF NoFiles, NoOp, NoDelCommit, DTrees, DelOps, DContents, Absent

LEMMA SettledState ==
    ASSUME NEW scope, NEW h, NEW g, NEW b
    PROVE  settleBindingAfterOrphanDecision(scope, h, g, b)
             \in {"up_to_date", "watching", "blocked", "conflict", "disabled"}
BY DEF settleBindingAfterOrphanDecision

LEMMA DelInitInv == DelInit => DelInv
<1> SUFFICES ASSUME DelInit PROVE DelInv OBVIOUS
<1>1. [f \in DFiles |-> 1] \in DTrees BY DEF DTrees, DContents
<1>2. dHost \in DTrees /\ dGit \in DTrees /\ dBase \in DTrees BY <1>1 DEF DelInit
<1>3. dIncluded \subseteq DFiles BY DEF DelInit, DFiles
<1>4. DelShapes BY <1>2, <1>3, DelNone DEF DelInit, DelShapes
<1> QED BY <1>4, DelNone DEF DelInit, DelInv, DelStages, DelSaved, DelAgreed

(* What goes on outside a decision: the host, the branch and the stack.    *)
LEMMA DelOutside ==
    ASSUME DelInv, DelShapes', UNCHANGED <<dOp, dBase, dBackup>>,
           dTouched \subseteq dTouched',
           \A f \in DFiles \ dTouched' : dHost'[f] = dHost[f]
    PROVE  DelInv'
<1>1. DelStages' /\ DelAgreed' BY DEF DelInv, DelStages, DelAgreed
<1>2. DelSaved' BY DEF DelInv, DelSaved
<1> QED BY <1>1, <1>2 DEF DelInv

(* A decision ends.                                                        *)
LEMMA DelEnds == ASSUME DelShapes', dOp' = NoOp PROVE DelInv'
BY DelNone DEF DelInv, DelStages, DelSaved, DelAgreed

LEMMA DelHost ==
    ASSUME DelInv, NEW f \in DFiles, NEW c \in DContents, HostWrites(f, c) PROVE DelInv'
<1>1. dHost' = [dHost EXCEPT ![f] = c] /\ dTouched' = dTouched \cup {f} BY DEF HostWrites
<1>2. DelShapes' BY <1>1 DEF HostWrites, DelInv, DelShapes, DTrees
<1>3. \A g \in DFiles \ dTouched' : dHost'[g] = dHost[g]
  BY <1>1 DEF DelInv, DelShapes, DTrees
<1> QED BY <1>1, <1>2, <1>3, DelOutside DEF HostWrites

LEMMA DelFiles ==
    ASSUME DelInv, NEW path, FilesDelete(path) PROVE DelInv'
<1>1. DelShapes' BY DelNone DEF FilesDelete, DelInv, DelShapes
<1>2. dTouched' = DFiles BY DEF FilesDelete
<1>3. DelStages' /\ DelAgreed' BY DEF FilesDelete, DelInv, DelStages, DelAgreed
<1>4. DelSaved' BY <1>2 DEF FilesDelete, DelInv, DelSaved
<1> QED BY <1>1, <1>3, <1>4 DEF DelInv

LEMMA DelCommitter ==
    ASSUME DelInv, NEW tree \in DTrees, OtherCommitter(tree) PROVE DelInv'
<1>1. DelShapes' BY DEF OtherCommitter, DelInv, DelShapes
<1> QED BY <1>1, DelOutside DEF OtherCommitter

LEMMA DelBusy == ASSUME DelInv, StackBusy PROVE DelInv'
<1>1. DelShapes' BY DEF StackBusy, DelInv, DelShapes
<1> QED BY <1>1, DelOutside DEF StackBusy

LEMMA DelIdleKeeps ==
    ASSUME DelInv, DelIdle, DelShapes', UNCHANGED dOp PROVE DelInv'
BY DEF DelInv, DelIdle, DelStages, DelSaved, DelAgreed
-----------------------------------------------------------------------------
LEMMA DelRestoreStack == ASSUME DelInv, ResolveLocalStackDeletion PROVE DelInv'
<1> DEFINE paths == OfKind(ImportPreview(InScope, dGit, dHost, dBase),
                           {"add", "restore", "modify"})
<1>1. /\ dHost' = [f \in DFiles |-> IF f \in paths THEN dGit[f] ELSE dHost[f]]
      /\ dBase' = BaselineAfterTransfer(dBase, dGit, dHost, paths)
      /\ dState' = settleBindingAfterOrphanDecision(InScope, dHost', dGit, dBase')
      /\ UNCHANGED <<dGit, dCommit, dSelected, dExcluded, dIncluded, dLinked,
                     dBackup, dBusy, dOp, dTouched>>
      /\ DelIdle
  BY DEF ResolveLocalStackDeletion
<1> HIDE DEF paths
<1>2. dHost' \in DTrees BY <1>1 DEF DelInv, DelShapes, DTrees
<1>3. dBase' \in DTrees
  BY <1>1 DEF BaselineAfterTransfer, DelInv, DelShapes, DTrees, DContents, Absent
<1>4. dState' \in {"up_to_date", "watching", "blocked", "conflict", "disabled"}
  BY <1>1, SettledState
<1>5. DelShapes' BY <1>1, <1>2, <1>3, <1>4 DEF DelInv, DelShapes
<1> QED BY <1>1, <1>5, DelIdleKeeps

LEMMA DelDeselect == ASSUME DelInv, deselectLocallyDeletedStack PROVE DelInv'
<1>1. DelShapes'
  BY SettledState DEF deselectLocallyDeletedStack, DelInv, DelShapes
<1> QED BY <1>1, DelIdleKeeps DEF deselectLocallyDeletedStack

LEMMA DelFileChoice ==
    ASSUME DelInv, NEW f \in DFiles, NEW action, resolveLocallyDeletedFile(f, action)
    PROVE  DelInv'
<1>1. /\ DelIdle
      /\ UNCHANGED <<dGit, dBase, dCommit, dSelected, dIncluded, dLinked, dBackup,
                     dBusy, dTouched>>
  BY DEF resolveLocallyDeletedFile
<1>2. CASE action = "restore"
  <2>1. /\ dHost' = [dHost EXCEPT ![f] = dGit[f]] /\ UNCHANGED <<dExcluded, dOp>>
        /\ dState' = settleBindingAfterOrphanDecision(InScope, dHost', dGit, dBase)
    BY <1>2 DEF resolveLocallyDeletedFile
  <2>2. dHost' \in DTrees BY <2>1 DEF DelInv, DelShapes, DTrees
  <2>3. DelShapes' BY <1>1, <2>1, <2>2, SettledState DEF DelInv, DelShapes
  <2> QED BY <1>1, <2>1, <2>3, DelIdleKeeps
<1>3. CASE action = "exclude"
  <2>1. /\ dExcluded' = dExcluded \cup {f} /\ UNCHANGED <<dHost, dOp>>
        /\ dState' = settleBindingAfterOrphanDecision(InScope \ {f}, dHost, dGit, dBase)
    BY <1>3 DEF resolveLocallyDeletedFile
  <2>2. DelShapes' BY <1>1, <2>1, SettledState DEF DelInv, DelShapes
  <2> QED BY <1>1, <2>1, <2>2, DelIdleKeeps
<1>4. CASE action = "delete_git"
  <2> DEFINE o == [NoOp EXCEPT !.kind = "file", !.step = "check", !.file = f, !.from = dGit]
  <2>1. dOp' = o /\ UNCHANGED <<dHost, dExcluded, dState>>
    BY <1>4 DEF resolveLocallyDeletedFile
  <2>2. /\ o \in DelOps /\ o.kind = "file" /\ o.step = "check" /\ o.file = f
    BY DelNone DEF DelInv, DelShapes, DelOps
  <2> HIDE DEF o
  <2>3. DelShapes' BY <1>1, <2>1, <2>2 DEF DelInv, DelShapes
  <2> QED BY <2>1, <2>2, <2>3 DEF DelInv, DelStages, DelSaved, DelAgreed
<1> QED BY <1>2, <1>3, <1>4 DEF resolveLocallyDeletedFile

(* Forgetting a file only takes its baseline and its inclusion away.       *)
LEMMA DelForget ==
    ASSUME DelShapes, NEW f, ForgetFile(f)
    PROVE  /\ dBase' \in DTrees /\ dIncluded' \subseteq DFiles /\ dOp' = NoOp /\ dOp' \in DelOps
<1>1. dBase' = [dBase EXCEPT ![f] = Absent] /\ dBase \in DTrees
  BY DEF ForgetFile, DelShapes
<1>2. Absent \in DContents BY DEF DContents, Absent
<1>3. dBase' \in DTrees BY <1>1, <1>2 DEF DTrees
<1> QED BY <1>3, DelNone DEF ForgetFile, DelShapes

LEMMA DelFileCheck == ASSUME DelInv, deleteLocallyDeletedFileFromGit PROVE DelInv'
<1> DEFINE f == dOp.file
           refused == dOp.from # dGit \/ dHost[f] # Absent
           o == [dOp EXCEPT !.step = "push", !.tree = [dGit EXCEPT ![f] = Absent]]
<1>1. /\ dOp.kind = "file" /\ dOp.step = "check"
      /\ UNCHANGED <<dHost, dGit, dCommit, dSelected, dExcluded, dLinked, dBackup,
                     dBusy, dTouched, dSteps>>
  BY DEF deleteLocallyDeletedFileFromGit
<1>2. CASE dOp' = NoOp /\ UNCHANGED <<dBase, dIncluded, dState>>
  <2>1. DelShapes' BY <1>1, <1>2, DelNone DEF DelInv, DelShapes
  <2> QED BY <1>2, <2>1, DelEnds
<1>3. CASE /\ ForgetFile(f)
           /\ dState' = settleBindingAfterOrphanDecision(InScope, dHost, dGit, dBase')
  <2>1. /\ dBase' \in DTrees /\ dIncluded' \subseteq DFiles /\ dOp' = NoOp /\ dOp' \in DelOps
    BY <1>3, DelForget DEF DelInv
  <2>2. DelShapes' BY <1>1, <1>3, <2>1, SettledState DEF DelInv, DelShapes
  <2> QED BY <2>1, <2>2, DelEnds
<1>4. CASE ~refused /\ Synchronized(f) /\ dOp' = o /\ UNCHANGED <<dBase, dIncluded, dState>>
  <2>1. dOp \in DelOps /\ dGit \in DTrees /\ f \in DFiles
    BY <1>1 DEF DelInv, DelShapes, DelStages
  <2>2. [dGit EXCEPT ![f] = Absent] \in DTrees BY <2>1 DEF DTrees, DContents, Absent
  <2>3. /\ o \in DelOps /\ o.kind = "file" /\ o.step = "push" /\ o.file = f
        /\ o.from = dOp.from
    BY <1>1, <2>1, <2>2 DEF DelOps
  <2>4. dOp.from[f] = dBase[f] BY <1>4 DEF Synchronized
  <2> HIDE DEF o
  <2>5. DelShapes' BY <1>1, <1>4, <2>3 DEF DelInv, DelShapes
  <2>6. DelStages' BY <1>4, <2>1, <2>3 DEF DelStages
  <2>7. DelSaved' BY <1>4, <2>3 DEF DelSaved
  <2>8. DelAgreed' BY <1>4, <2>3, <2>4 DEF DelAgreed
  <2> QED BY <2>5, <2>6, <2>7, <2>8 DEF DelInv
<1> QED BY <1>2, <1>3, <1>4 DEF deleteLocallyDeletedFileFromGit

(* A decision starts: its first step neither removes nor has hashed.       *)
LEMMA DelStarts ==
    ASSUME DelInv, DelIdle,
           UNCHANGED <<dHost, dGit, dBase, dCommit, dSelected, dExcluded, dIncluded,
                       dLinked, dState, dBackup, dBusy, dTouched>>,
           NEW o \in DelOps, dOp' = o,
           \/ o.kind \in {"stack", "restore"} /\ o.step = "push"
           \/ o.kind = "orphan" /\ o.step = "backup"
           \/ o.kind = "folder" /\ o.step \in {"push", "remove"}
    PROVE  DelInv'
<1>1. DelShapes' BY DEF DelInv, DelShapes
<1>2. DelStages' /\ DelSaved' /\ DelAgreed' BY DEF DelStages, DelSaved, DelAgreed
<1> QED BY <1>1, <1>2 DEF DelInv

LEMMA DelStackChoice == ASSUME DelInv, deleteLocallyDeletedStackFromGit PROVE DelInv'
<1> DEFINE o == [NoOp EXCEPT !.kind = "stack", !.step = "push", !.from = dGit]
<1>1. o \in DelOps /\ o.kind = "stack" /\ o.step = "push"
  BY DelNone DEF DelInv, DelShapes, DelOps
<1>2. dOp' = o BY DEF deleteLocallyDeletedStackFromGit
<1> HIDE DEF o
<1> QED BY <1>1, <1>2, DelStarts DEF deleteLocallyDeletedStackFromGit

LEMMA DelRestoreChoice == ASSUME DelInv, RestoreGitOrphan PROVE DelInv'
<1> DEFINE tree == [f \in DFiles |-> IF f \in InScope THEN dHost[f] ELSE dGit[f]]
           o == [NoOp EXCEPT !.kind = "restore", !.step = "push", !.from = dGit, !.tree = tree]
<1>1. tree \in DTrees BY DEF DelInv, DelShapes, DTrees
<1>2. dOp' = o BY DEF RestoreGitOrphan
<1> HIDE DEF tree
<1>3. o \in DelOps /\ o.kind = "restore" /\ o.step = "push"
  BY <1>1, DelNone DEF DelInv, DelShapes, DelOps
<1> HIDE DEF o
<1> QED BY <1>2, <1>3, DelStarts DEF RestoreGitOrphan

LEMMA DelOrphanChoice == ASSUME DelInv, ResolveGitOrphan PROVE DelInv'
<1> DEFINE o == [NoOp EXCEPT !.kind = "orphan", !.step = "backup", !.tree = dHost]
<1>1. o \in DelOps /\ o.kind = "orphan" /\ o.step = "backup"
  BY DelNone DEF DelInv, DelShapes, DelOps
<1>2. dOp' = o BY DEF ResolveGitOrphan
<1> HIDE DEF o
<1> QED BY <1>1, <1>2, DelStarts DEF ResolveGitOrphan

LEMMA DelRootChoice == ASSUME DelInv, NEW action, DeleteFolderLinkRoot(action) PROVE DelInv'
<1>1. PICK written :
        dOp' = [NoOp EXCEPT
                  !.kind = "folder", !.from = dGit,
                  !.step = IF written = {} THEN "remove" ELSE "push",
                  !.tree = [f \in DFiles |-> IF f \notin written THEN dGit[f]
                              ELSE IF action = "sync_git" THEN dHost[f] ELSE Absent]]
  BY DEF DeleteFolderLinkRoot
<1> DEFINE tree == [f \in DFiles |-> IF f \notin written THEN dGit[f]
                                     ELSE IF action = "sync_git" THEN dHost[f] ELSE Absent]
           step == IF written = {} THEN "remove" ELSE "push"
           o == [NoOp EXCEPT !.kind = "folder", !.from = dGit, !.step = step, !.tree = tree]
<1>2. dOp' = o BY <1>1
<1>3. tree \in DTrees BY DEF DelInv, DelShapes, DTrees, DContents, Absent
<1>4. step \in {"push", "remove"} OBVIOUS
<1> HIDE DEF tree, step
<1>5. o \in DelOps /\ o.kind = "folder" /\ o.step \in {"push", "remove"}
  BY <1>3, <1>4, DelNone DEF DelInv, DelShapes, DelOps
<1> HIDE DEF o
<1> QED BY <1>2, <1>5, DelStarts DEF DeleteFolderLinkRoot
-----------------------------------------------------------------------------
LEMMA DelBackup == ASSUME DelInv, backupOrphanSnapshot PROVE DelInv'
<1> DEFINE o == [dOp EXCEPT !.step = "compare"]
<1>1. CASE dHost = dOp.tree
  <2>1. /\ o \in DelOps /\ o.kind = "orphan" /\ o.step = "compare" /\ o.tree = dOp.tree
    BY DEF backupOrphanSnapshot, DelInv, DelShapes, DelOps
  <2>2. dOp' = o /\ dBackup' = dOp.tree /\ dOp.tree \in DTrees
    BY <1>1 DEF backupOrphanSnapshot, DelInv, DelShapes, DelOps
  <2> HIDE DEF o
  <2>3. DelShapes' BY <2>1, <2>2 DEF backupOrphanSnapshot, DelInv, DelShapes
  <2> QED BY <2>1, <2>2, <2>3 DEF DelInv, DelStages, DelSaved, DelAgreed
<1>2. CASE dHost # dOp.tree
  <2>1. dOp' = NoOp /\ UNCHANGED dBackup BY <1>2 DEF backupOrphanSnapshot
  <2>2. DelShapes' BY <2>1, DelNone DEF backupOrphanSnapshot, DelInv, DelShapes
  <2> QED BY <2>1, <2>2, DelEnds
<1> QED BY <1>1, <1>2

LEMMA DelCompare == ASSUME DelInv, CompareSnapshots PROVE DelInv'
<1> DEFINE o == [dOp EXCEPT !.step = "remove"]
<1>1. CASE sameTransferSnapshot(dOp.tree, dHost)
  <2>1. /\ o \in DelOps /\ o.kind = "orphan" /\ o.step = "remove"
    BY DEF CompareSnapshots, DelInv, DelShapes, DelOps
  <2>2. dOp' = o BY <1>1 DEF CompareSnapshots
  <2>3. dBackup = dHost
    BY <1>1 DEF sameTransferSnapshot, CompareSnapshots, DelInv, DelSaved
  <2> HIDE DEF o
  <2>4. DelShapes' BY <2>1, <2>2 DEF CompareSnapshots, DelInv, DelShapes
  <2>5. DelSaved' BY <2>1, <2>2, <2>3 DEF CompareSnapshots, DelSaved
  <2> QED BY <2>1, <2>2, <2>4, <2>5 DEF DelInv, DelStages, DelAgreed
<1>2. CASE ~sameTransferSnapshot(dOp.tree, dHost)
  <2>1. dOp' = NoOp BY <1>2 DEF CompareSnapshots
  <2>2. DelShapes' BY <2>1, DelNone DEF CompareSnapshots, DelInv, DelShapes
  <2> QED BY <2>1, <2>2, DelEnds
<1> QED BY <1>1, <1>2

LEMMA DelRemove == ASSUME DelInv, RemoveLocalDirectory PROVE DelInv'
<1> DEFINE o == [dOp EXCEPT !.step = "forget"]
<1>1. o \in DelOps /\ o.kind = dOp.kind /\ o.step = "forget"
  BY DEF DelInv, DelShapes, DelOps
<1>2. dOp.kind \in {"orphan", "folder"}
  BY DEF RemoveLocalDirectory, DelInv, DelStages, DelShapes, DelOps
<1>3. dOp' = o BY DEF RemoveLocalDirectory
<1> HIDE DEF o
<1>4. DelShapes' BY <1>1, <1>3, DelNone DEF RemoveLocalDirectory, DelInv, DelShapes
<1> QED BY <1>1, <1>2, <1>3, <1>4 DEF DelInv, DelStages, DelSaved, DelAgreed

LEMMA DelForgets ==
    ASSUME DelInv, forgetOrphanedStack \/ deleteBindingLocked \/ StopDuringDecision
                     \/ PushDecisionFails
    PROVE  DelInv'
<1>1. CASE forgetOrphanedStack
  <2>1. DelShapes'
    BY <1>1, SettledState, DelNone DEF forgetOrphanedStack, DelInv, DelShapes
  <2> QED BY <1>1, <2>1, DelEnds DEF forgetOrphanedStack
<1>2. CASE deleteBindingLocked
  <2>1. DelShapes' BY <1>2, DelNone DEF deleteBindingLocked, DelInv, DelShapes
  <2> QED BY <1>2, <2>1, DelEnds DEF deleteBindingLocked
<1>3. CASE StopDuringDecision
  <2>1. DelShapes' BY <1>3, DelNone DEF StopDuringDecision, DelInv, DelShapes
  <2> QED BY <1>3, <2>1, DelEnds DEF StopDuringDecision
<1>4. CASE PushDecisionFails
  <2>1. dCommit' \in [tree : DTrees, from : DTrees, made : BOOLEAN]
    BY <1>4 DEF PushDecisionFails, DelInv, DelShapes, DelOps
  <2>2. DelShapes' BY <1>4, <2>1, DelNone DEF PushDecisionFails, DelInv, DelShapes
  <2> QED BY <1>4, <2>2, DelEnds DEF PushDecisionFails
<1> QED BY <1>1, <1>2, <1>3, <1>4

LEMMA DelPush == ASSUME DelInv, PushDecision PROVE DelInv'
<1>1. /\ dOp.step = "push" /\ dGit' = dOp.tree /\ dOp.tree \in DTrees
      /\ UNCHANGED <<dHost, dCommit, dExcluded, dLinked, dBackup, dBusy, dTouched, dSteps>>
      /\ dState' = IF dOp.kind = "folder" THEN dState
                   ELSE settleBindingAfterOrphanDecision(
                          IF dSelected' THEN InScope ELSE {}, dHost, dGit', dBase')
  BY DEF PushDecision, DelInv, DelShapes, DelOps
<1>2. dState' \in {"up_to_date", "watching", "blocked", "conflict", "disabled"}
  <2>1. CASE dOp.kind = "folder" BY <1>1, <2>1 DEF DelInv, DelShapes
  <2>2. CASE dOp.kind # "folder" BY <1>1, <2>2, SettledState
  <2> QED BY <2>1, <2>2
<1>3. CASE dOp.kind = "file"
  <2>1. ForgetFile(dOp.file) /\ UNCHANGED dSelected BY <1>3 DEF PushDecision
  <2>2. /\ dBase' \in DTrees /\ dIncluded' \subseteq DFiles /\ dOp' = NoOp /\ dOp' \in DelOps
    BY <2>1, DelForget DEF DelInv
  <2>3. DelShapes' BY <1>1, <1>2, <2>1, <2>2 DEF DelInv, DelShapes
  <2> QED BY <2>2, <2>3, DelEnds
<1>4. CASE dOp.kind = "stack"
  <2>1. dBase' = NoFiles /\ dSelected' = FALSE /\ dOp' = NoOp /\ UNCHANGED dIncluded
    BY <1>4 DEF PushDecision
  <2>2. DelShapes' BY <1>1, <1>2, <2>1, DelNone DEF DelInv, DelShapes
  <2> QED BY <2>1, <2>2, DelEnds
<1>5. CASE dOp.kind = "restore"
  <2>1. /\ dBase' = [f \in DFiles |-> IF f \in InScope THEN dOp.tree[f] ELSE dBase[f]]
        /\ dOp' = NoOp /\ UNCHANGED <<dSelected, dIncluded>>
    BY <1>5 DEF PushDecision
  <2>2. dBase' \in DTrees BY <1>1, <2>1 DEF DelInv, DelShapes, DTrees
  <2>3. DelShapes' BY <1>1, <1>2, <2>1, <2>2, DelNone DEF DelInv, DelShapes
  <2> QED BY <2>1, <2>3, DelEnds
<1>6. CASE dOp.kind = "folder"
  <2> DEFINE o == [dOp EXCEPT !.step = "remove"]
  <2>1. /\ o \in DelOps /\ o.kind = "folder" /\ o.step = "remove"
    BY <1>6 DEF DelInv, DelShapes, DelOps
  <2>2. dOp' = o /\ UNCHANGED <<dBase, dSelected, dIncluded>>
    BY <1>6 DEF PushDecision
  <2> HIDE DEF o
  <2>3. DelShapes' BY <1>1, <1>2, <2>1, <2>2 DEF DelInv, DelShapes
  <2> QED BY <2>1, <2>2, <2>3 DEF DelInv, DelStages, DelSaved, DelAgreed
<1>7. dOp.kind \in {"file", "stack", "restore", "folder"}
  BY <1>1 DEF DelInv, DelShapes, DelOps, DelStages
<1> QED BY <1>3, <1>4, <1>5, <1>6, <1>7

LEMMA DelSettle == ASSUME DelInv, SettleBranch PROVE DelInv'
<1>1. dGit' \in DTrees BY DEF SettleBranch, DelInv, DelShapes
<1>2. DelShapes' BY <1>1, DelNone DEF SettleBranch, DelInv, DelShapes
<1> QED BY <1>2, DelOutside DEF SettleBranch
-----------------------------------------------------------------------------
LEMMA DelStep == DelInv /\ [DelNext]_delVars => DelInv'
<1> SUFFICES ASSUME DelInv, [DelNext]_delVars PROVE DelInv' OBVIOUS
<1>1. CASE UNCHANGED delVars
  BY <1>1 DEF delVars, DelInv, DelShapes, DelStages, DelSaved, DelAgreed
<1>2. CASE \E f \in DFiles, c \in DContents : HostWrites(f, c) BY <1>2, DelHost
<1>3. CASE \E path \in {"root", "stack"} : FilesDelete(path) BY <1>3, DelFiles
<1>4. CASE \E tree \in {NoFiles, [f \in DFiles |-> 2], [NoFiles EXCEPT !["data"] = 2]} :
             OtherCommitter(tree)
  <2>1. {NoFiles, [f \in DFiles |-> 2], [NoFiles EXCEPT !["data"] = 2]} \subseteq DTrees
    <3>1. [f \in DFiles |-> 2] \in DTrees BY DEF DTrees, DContents
    <3>2. 2 \in DContents BY DEF DContents
    <3>3. [NoFiles EXCEPT !["data"] = 2] \in DTrees BY <3>2, DelNone DEF DTrees
    <3> QED BY <3>1, <3>3, DelNone
  <2> QED BY <1>4, <2>1, DelCommitter
<1>5. CASE \E f \in DFiles, action \in {"restore", "exclude", "delete_git"} :
             resolveLocallyDeletedFile(f, action)
  BY <1>5, DelFileChoice
<1>6. CASE \E action \in {"preserve_git", "sync_git", "delete_git"} :
             DeleteFolderLinkRoot(action)
  BY <1>6, DelRootChoice
<1>7. CASE \/ StackBusy \/ ResolveLocalStackDeletion \/ deselectLocallyDeletedStack
           \/ deleteLocallyDeletedFileFromGit \/ deleteLocallyDeletedStackFromGit
           \/ RestoreGitOrphan \/ ResolveGitOrphan \/ backupOrphanSnapshot
           \/ CompareSnapshots \/ RemoveLocalDirectory
  BY <1>7, DelBusy, DelRestoreStack, DelDeselect, DelFileCheck, DelStackChoice,
     DelRestoreChoice, DelOrphanChoice, DelBackup, DelCompare, DelRemove
<1>8. CASE \/ forgetOrphanedStack \/ deleteBindingLocked \/ PushDecision
           \/ PushDecisionFails \/ StopDuringDecision \/ SettleBranch
  BY <1>8, DelForgets, DelPush, DelSettle
<1> QED BY <1>1, <1>2, <1>3, <1>4, <1>5, <1>6, <1>7, <1>8 DEF DelNext

(* Only the push of a decision on a file changes the branch and ends it.   *)
LEMMA DelOnlyPush ==
    ASSUME DelInv, DelNext, dOp.kind = "file", dGit' # dGit, dOp'.kind = "none"
    PROVE  PushDecision
BY DEF DelNext, HostWrites, FilesDelete, OtherCommitter, resolveLocallyDeletedFile,
       DeleteFolderLinkRoot, StackBusy, ResolveLocalStackDeletion,
       deselectLocallyDeletedStack, deleteLocallyDeletedFileFromGit,
       deleteLocallyDeletedStackFromGit, RestoreGitOrphan, ResolveGitOrphan,
       backupOrphanSnapshot, CompareSnapshots, RemoveLocalDirectory,
       forgetOrphanedStack, deleteBindingLocked, PushDecisionFails,
       StopDuringDecision, SettleBranch

LEMMA DelKeeps == DelInv /\ [DelNext]_delVars => [RemovedIsSaved /\ DeletedWasSynchronized]_delVars
<1> SUFFICES ASSUME DelInv, DelNext PROVE RemovedIsSaved /\ DeletedWasSynchronized
  OBVIOUS
<1>1. RemovedIsSaved BY DEF RemovedIsSaved, DelInv, DelSaved
<1>2. DeletedWasSynchronized
  <2> SUFFICES ASSUME dOp.kind = "file", dGit' # dGit, dOp'.kind = "none"
               PROVE  dGit[dOp.file] = dBase[dOp.file]
    BY DEF DeletedWasSynchronized
  <2>1. dGit = dOp.from /\ dOp.step = "push" BY DelOnlyPush DEF PushDecision
  <2> QED BY <2>1 DEF DelInv, DelAgreed
<1> QED BY <1>1, <1>2

(* Nothing a deletion takes is lost (local_deletion.go, orphan.go,         *)
(* folder_deletion.go): the files of a removed orphan are in its backup,   *)
(* but for what the host wrote after the second snapshot, and a file       *)
(* deleted from Git is the one both sides last agreed on, whatever the     *)
(* host, the other committers and stops do meanwhile.                      *)
THEOREM DeletionsAreSafe == DelSpec => DeletionSafe
<1>1. DeletionSafe <=> [][RemovedIsSaved /\ DeletedWasSynchronized]_delVars
  BY DEF DeletionSafe
<1> QED BY <1>1, DelInitInv, DelStep, DelKeeps, PTL DEF DelSpec

(* The state a decision keeps has its shape.                               *)
THEOREM DeletionsTyped == DelSpec => []DelTypeOK
<1>1. DelInv => DelTypeOK BY DEF DelInv, DelShapes, DelTypeOK, DTrees, DelOps
<1> QED BY <1>1, DelInitInv, DelStep, PTL DEF DelSpec

-----------------------------------------------------------------------------
(***************************************************************************)
(* Proofs about recoveries (GitRecovery).                                  *)
(***************************************************************************)

RecFiles == [RFiles -> RContents \cup {Torn}]
RecManifest == [before : RecFiles, after : RecFiles, files : SUBSET RFiles]
RecOp == [kind : {"none", "restore", "rollback"},
          step : {"none", "backup", "pause", "write", "rename"},
          source : 0..MaxBackups, safety : 0..MaxBackups,
          desired : RecFiles, todo : SUBSET RFiles]

RecShapes ==
    /\ rHost \in RecFiles /\ rGit \in RTrees /\ rBase \in RTrees
    /\ rCommits \subseteq RTrees
    /\ rManifest \in [1..MaxBackups -> RecManifest]
    /\ rPaused \in BOOLEAN /\ rDirty \in BOOLEAN
    /\ rOp \in RecOp
    /\ rOp.kind = "none" <=> rOp.step = "none"

(* Backups are numbered one after the other, and a row has its archive.    *)
UsedBackups == {b \in 1..MaxBackups : rManifest[b] # NoManifest}

RecNumbers ==
    /\ UsedBackups = 1..Cardinality(UsedBackups)
    /\ rRows \subseteq UsedBackups /\ rExpired \subseteq UsedBackups
    /\ rDropped \subseteq UsedBackups
    /\ rArchives = rRows
    /\ Cardinality(rRows) <= Retention + 1

RecSource ==
    rOp.kind = "restore" => rOp.source \in rRows \cup rDropped

(* What is still to be written is in the safety backup as the host has it, *)
(* but for what the host wrote since.                                      *)
RecSafety ==
    /\ rOp.step = "backup" =>
         /\ rOp.todo # {}
         /\ \A f \in rOp.todo \ rTouched : rOp.desired[f] # rHost[f]
    /\ rOp.step \in {"pause", "write", "rename"} =>
         /\ rOp.safety \in UsedBackups
         /\ rOp.safety \in rRows \cup rDropped
         /\ rOp.todo \subseteq rManifest[rOp.safety].files
         /\ rManifest[rOp.safety].after = rOp.desired
         /\ \A f \in rOp.todo \ rTouched :
              rHost[f] \in {rManifest[rOp.safety].before[f], Torn}

RecInv == RecShapes /\ RecNumbers /\ RecSource /\ RecSafety

-----------------------------------------------------------------------------
(* Of a set of numbers, those with less than n larger ones in it (or in a  *)
(* larger set) are at most n.                                              *)
LEMMA NewestAreFew ==
    ASSUME NEW V, IsFiniteSet(V), V \subseteq Nat, NEW T \in SUBSET V, NEW n \in Nat,
           \A b \in T : Cardinality({c \in V : c > b}) < n
    PROVE  IsFiniteSet(T) /\ Cardinality(T) <= n
<1> DEFINE above(b) == {c \in V : c > b}
           rank == [b \in T |-> Cardinality(above(b))]
<1>1. \A b \in V : IsFiniteSet(above(b)) /\ Cardinality(above(b)) \in Nat
  <2> TAKE b \in V
  <2>1. above(b) \in SUBSET V OBVIOUS
  <2> HIDE DEF above
  <2> QED BY <2>1, FS_Subset, FS_CardinalityType
<1>2. ASSUME NEW b \in T, NEW d \in T, b < d
      PROVE  Cardinality(above(b)) # Cardinality(above(d))
  <2>0. b \in Nat /\ d \in Nat /\ d \in V OBVIOUS
  <2>1. \A c \in above(d) : c \in above(b) BY <1>2, <2>0
  <2>2. d \in above(b) /\ d \notin above(d) BY <1>2, <2>0
  <2> HIDE DEF above
  <2>3. above(d) \in SUBSET above(b) BY <2>1
  <2> QED BY <1>1, <2>2, <2>3, FS_Subset
<1>3. \A b, d \in T : Cardinality(above(b)) = Cardinality(above(d)) => b = d
  <2> SUFFICES ASSUME NEW b \in T, NEW d \in T, b # d
               PROVE  Cardinality(above(b)) # Cardinality(above(d))
    OBVIOUS
  <2>1. b < d \/ d < b OBVIOUS
  <2> QED BY <1>2, <2>1
<1>4. \A b \in T : Cardinality(above(b)) \in 0..n - 1 BY <1>1
<1> HIDE DEF above
<1>5. rank \in [T -> 0..n - 1] BY <1>4
<1>6. rank \in Injection(T, 0..n - 1) BY <1>3, <1>5 DEF Injection, IsInjective
<1>7. IsFiniteSet(0..n - 1) /\ Cardinality(0..n - 1) = n
  <2>1. 0 \in Int /\ n - 1 \in Int OBVIOUS
  <2>2. /\ IsFiniteSet(0..n - 1)
        /\ Cardinality(0..n - 1) = IF 0 > n - 1 THEN 0 ELSE (n - 1) - 0 + 1
    BY <2>1, FS_Interval
  <2> QED BY <2>2
<1>8. IsFiniteSet(T) /\ Cardinality(T) <= Cardinality(0..n - 1)
  BY <1>6, <1>7, FS_Injection
<1> QED BY <1>7, <1>8

(* Pruning keeps at most the retention and what it protects.               *)
LEMMA PruneKeeps ==
    ASSUME NEW rows, IsFiniteSet(rows), rows \subseteq Nat,
           NEW protected, IsFiniteSet(protected), Cardinality(protected) <= 1
    PROVE  /\ pruneManagedBackups(rows, protected) \subseteq rows
           /\ rows \cap protected \subseteq pruneManagedBackups(rows, protected)
           /\ Cardinality(pruneManagedBackups(rows, protected)) <= Retention + 1
<1> DEFINE kept == pruneManagedBackups(rows, protected)
           V == {c \in rows : c \in protected \/ c \notin rExpired}
           T == {b \in V : Cardinality({c \in V : c > b}) < Retention}
<1>1. kept \subseteq rows /\ rows \cap protected \subseteq kept
  BY DEF pruneManagedBackups
<1>2. V \in SUBSET rows /\ T \in SUBSET V OBVIOUS
<1>3. IsFiniteSet(V) /\ V \subseteq Nat
  <2> HIDE DEF V
  <2> QED BY <1>2, FS_Subset
<1>4. Retention \in Nat BY GitRecoveryAssumption
<1>5. \A b \in T : Cardinality({c \in V : c > b}) < Retention OBVIOUS
<1>6. IsFiniteSet(T) /\ Cardinality(T) <= Retention
  <2> HIDE DEF V, T
  <2> QED BY <1>2, <1>3, <1>4, <1>5, NewestAreFew
<1>7. kept \subseteq T \cup protected
  <2> SUFFICES ASSUME NEW b \in kept, b \notin protected PROVE b \in T OBVIOUS
  <2>1. /\ b \in rows /\ b \notin rExpired
        /\ Cardinality({c \in Newer(b, rows) : c \in protected \/ c \notin rExpired}) < Retention
    BY DEF pruneManagedBackups
  <2>2. {c \in Newer(b, rows) : c \in protected \/ c \notin rExpired} = {c \in V : c > b}
    BY DEF Newer
  <2> QED BY <2>1, <2>2
<1>8. Cardinality(kept) <= Retention + 1
  <2> HIDE DEF T, kept
  <2>1. /\ IsFiniteSet(T \cup protected)
        /\ Cardinality(T \cup protected) =
             Cardinality(T) + Cardinality(protected) - Cardinality(T \cap protected)
    BY <1>6, FS_Union
  <2>2. T \cap protected \in SUBSET T OBVIOUS
  <2>3. IsFiniteSet(T \cap protected) BY <1>6, <2>2, FS_Subset
  <2>4. /\ Cardinality(T) \in Nat /\ Cardinality(protected) \in Nat
        /\ Cardinality(T \cap protected) \in Nat
    BY <1>6, <2>3, FS_CardinalityType
  <2>5. kept \in SUBSET (T \cup protected) BY <1>7
  <2>6. IsFiniteSet(kept) /\ Cardinality(kept) <= Cardinality(T \cup protected)
    BY <2>1, <2>5, FS_Subset
  <2>7. Cardinality(kept) \in Nat BY <2>6, FS_CardinalityType
  <2> QED BY <1>4, <1>6, <2>1, <2>4, <2>6, <2>7
<1> QED BY <1>1, <1>8

LEMMA BackupsAreFinite ==
    ASSUME NEW S \in SUBSET (1..MaxBackups)
    PROVE  /\ IsFiniteSet(S) /\ Cardinality(S) \in Nat
           /\ \A T \in SUBSET S : IsFiniteSet(T) /\ Cardinality(T) \in Nat
                                   /\ Cardinality(T) <= Cardinality(S)
<1>1. 1 \in Int /\ MaxBackups \in Int BY GitRecoveryAssumption
<1>2. IsFiniteSet(1..MaxBackups) BY <1>1, FS_Interval
<1>3. IsFiniteSet(S) BY <1>2, FS_Subset
<1> QED BY <1>3, FS_Subset, FS_CardinalityType

(* A new backup has the next number, stays in the prune that follows it,   *)
(* and pushes out nothing that is protected.                               *)
LEMMA BackupMade ==
    ASSUME RecShapes, RecNumbers, NEW desired \in RecFiles, NEW chosen \in SUBSET RFiles,
           \E f \in chosen : desired[f] # rHost[f],
           NEW protected \in SUBSET (1..MaxBackups), Cardinality(protected) <= 1,
           backupChangedFiles(desired, chosen, protected),
           UNCHANGED <<rExpired, rDropped>>
    PROVE  /\ RecNumbers' /\ rManifest' \in [1..MaxBackups -> RecManifest]
           /\ FreshRun \in 1..MaxBackups /\ FreshRun \in UsedBackups' /\ FreshRun \in rRows'
           /\ rRows \cap protected \subseteq rRows'
           /\ rManifest'[FreshRun] =
                [before |-> rHost, after |-> desired,
                 files |-> {f \in chosen : desired[f] # rHost[f]}]
<1> DEFINE m == [before |-> rHost, after |-> desired,
                 files |-> {f \in chosen : desired[f] # rHost[f]}]
           k == Cardinality(UsedBackups)
           F == FreshRun
           rows == rRows \cup {F}
<1>1. m \in RecManifest /\ m # NoManifest
  <2>1. m \in RecManifest BY DEF RecShapes, RecManifest
  <2>2. m.files # {} /\ NoManifest.files = {} BY DEF NoManifest
  <2> QED BY <2>1, <2>2
<1>2. /\ F = k + 1 /\ k \in Nat /\ F <= MaxBackups
  <2>1. UsedBackups \in SUBSET (1..MaxBackups) BY DEF UsedBackups
  <2>2. k \in Nat BY <2>1, BackupsAreFinite
  <2> QED BY <2>2 DEF FreshRun, UsedBackups, backupChangedFiles
<1>3. /\ rManifest' = [rManifest EXCEPT ![F] = m]
      /\ rRows' = pruneManagedBackups(rows, protected)
      /\ rArchives' = (rArchives \cup {F}) \cap rRows'
  BY DEF backupChangedFiles
<1>4. MaxBackups \in Nat /\ Retention \in Nat \ {0} BY GitRecoveryAssumption
<1>5. F \in 1..MaxBackups /\ UsedBackups = 1..k /\ F \notin UsedBackups
  BY <1>2, <1>4 DEF RecNumbers
<1> HIDE DEF m, F
<1>6. rManifest' \in [1..MaxBackups -> RecManifest] /\ rManifest'[F] = m
  BY <1>1, <1>3, <1>5 DEF RecShapes
<1>7. UsedBackups' = UsedBackups \cup {F}
  BY <1>1, <1>3, <1>5 DEF RecShapes, UsedBackups
<1>8. UsedBackups' = 1..Cardinality(UsedBackups')
  <2>1. UsedBackups \in SUBSET (1..MaxBackups) BY DEF UsedBackups
  <2>2. IsFiniteSet(UsedBackups) BY <2>1, BackupsAreFinite
  <2>3. Cardinality(UsedBackups \cup {F}) = k + 1 BY <1>5, <2>2, FS_AddElement
  <2> HIDE DEF k
  <2>4. 1..k + 1 = (1..k) \cup {k + 1} BY <1>2
  <2> QED BY <1>2, <1>5, <1>7, <2>3, <2>4
<1>9. rows \subseteq 1..MaxBackups /\ IsFiniteSet(rows) /\ rows \subseteq Nat
      /\ IsFiniteSet(protected)
  <2>1. rows \in SUBSET (1..MaxBackups) BY <1>5 DEF RecNumbers, UsedBackups
  <2>2. IsFiniteSet(rows) /\ IsFiniteSet(protected) BY <2>1, BackupsAreFinite
  <2> QED BY <2>1, <2>2
<1>10. /\ rRows' \subseteq rows /\ rows \cap protected \subseteq rRows'
       /\ Cardinality(rRows') <= Retention + 1
  BY <1>3, <1>9, PruneKeeps
<1>11. F \in rRows'
  <2>1. F \notin rExpired BY <1>5 DEF RecNumbers
  <2>2. Newer(F, rows) = {}
    <3>1. \A c \in rows : c <= F BY <1>2, <1>5 DEF RecNumbers
    <3> QED BY <1>2, <1>9, <3>1 DEF Newer
  <2>3. {c \in Newer(F, rows) : c \in protected \/ c \notin rExpired} = {} BY <2>2
  <2>4. Cardinality({c \in Newer(F, rows) : c \in protected \/ c \notin rExpired}) < Retention
    BY <1>4, <2>3, FS_EmptySet
  <2> QED BY <1>3, <2>1, <2>4 DEF pruneManagedBackups
<1>12. rArchives' = rRows' BY <1>3, <1>10 DEF RecNumbers
<1>13. RecNumbers'
  BY <1>7, <1>8, <1>10, <1>12 DEF RecNumbers
<1> QED BY <1>5, <1>6, <1>7, <1>10, <1>11, <1>13 DEF m, F

-----------------------------------------------------------------------------
LEMMA RecNone ==
    /\ NoRecovery \in RecOp /\ NoRecovery.kind = "none" /\ NoRecovery.step = "none"
    /\ NoManifest \in RecManifest
<1>1. Uniform(0) \in RecFiles BY DEF Uniform, RecFiles, RContents
<1>2. 0 \in 0..MaxBackups BY GitRecoveryAssumption
<1> QED BY <1>1, <1>2 DEF NoRecovery, NoManifest, RecOp, RecManifest

LEMMA RecInitInv == RecInit => RecInv
<1> SUFFICES ASSUME RecInit PROVE RecInv OBVIOUS
<1>1. rHost \in RTrees /\ rHost \in RecFiles
  BY DEF RecInit, Uniform, RTrees, RecFiles, RContents
<1>2. Absent \in RContents BY DEF Absent, RContents
<1>3. [rHost EXCEPT !["env"] = Absent] \in RTrees BY <1>1, <1>2 DEF RTrees
<1>4. RecShapes BY <1>1, <1>3, RecNone DEF RecInit, RecShapes
<1>5. UsedBackups = {} BY DEF RecInit, UsedBackups
<1>6. RecNumbers
  <2>1. Cardinality(UsedBackups) = 0 /\ Cardinality(rRows) = 0
    BY <1>5, FS_EmptySet DEF RecInit
  <2>2. 1..0 = {} OBVIOUS
  <2> QED BY <1>5, <2>1, <2>2, GitRecoveryAssumption DEF RecInit, RecNumbers
<1>7. RecSource /\ RecSafety BY RecNone DEF RecInit, RecSource, RecSafety
<1> QED BY <1>4, <1>6, <1>7 DEF RecInv

LEMMA RowsRemoved ==
    ASSUME RecNumbers, rRows' \subseteq rRows, rArchives' = rRows',
           rDropped' \subseteq UsedBackups, rExpired' \subseteq UsedBackups,
           UNCHANGED rManifest
    PROVE  RecNumbers'
<1>1. UsedBackups' = UsedBackups BY DEF UsedBackups
<1>2. rRows \in SUBSET (1..MaxBackups) /\ rRows' \in SUBSET rRows
  BY DEF RecNumbers, UsedBackups
<1>3. /\ Cardinality(rRows) \in Nat /\ Cardinality(rRows') \in Nat
      /\ Cardinality(rRows') <= Cardinality(rRows)
  BY <1>2, BackupsAreFinite
<1>4. Retention \in Nat BY GitRecoveryAssumption
<1>5. Cardinality(rRows') <= Retention + 1 BY <1>3, <1>4 DEF RecNumbers
<1> QED BY <1>1, <1>2, <1>5 DEF RecNumbers

LEMMA BackupsKept ==
    ASSUME RecNumbers, UNCHANGED <<rManifest, rRows, rArchives, rExpired, rDropped>>
    PROVE  RecNumbers' /\ UsedBackups' = UsedBackups
BY DEF RecNumbers, UsedBackups

(* What goes on around a recovery leaves what it holds, but for the files  *)
(* the host writes and the backups that are dropped.                       *)
LEMMA RecOutside ==
    ASSUME RecInv, RecShapes', RecNumbers', UNCHANGED <<rManifest, rOp>>,
           rRows \cup rDropped \subseteq rRows' \cup rDropped', rTouched \subseteq rTouched',
           \A f \in RFiles \ rTouched' : rHost'[f] = rHost[f]
    PROVE  RecInv'
<1>1. rOp.todo \subseteq RFiles BY DEF RecInv, RecShapes, RecOp
<1>2. RecSource' BY DEF RecInv, RecSource
<1>3. UsedBackups' = UsedBackups BY DEF UsedBackups
<1>4. RecSafety' BY <1>1, <1>3 DEF RecInv, RecSafety
<1> QED BY <1>2, <1>4 DEF RecInv

LEMMA RecEnds == ASSUME RecShapes', RecNumbers', rOp' = NoRecovery PROVE RecInv'
BY RecNone DEF RecInv, RecSource, RecSafety
-----------------------------------------------------------------------------
LEMMA RecBackupsGo ==
    ASSUME RecInv, \/ \E b \in 1..MaxBackups : DeleteBackup(b) \/ ExpireBackups(b)
                   \/ pruneExpiredBackups
    PROVE  RecInv'
<1>1. ASSUME NEW b \in 1..MaxBackups, DeleteBackup(b) PROVE RecInv'
  <2>1. RecShapes' BY <1>1 DEF DeleteBackup, RecInv, RecShapes
  <2>2. RecNumbers' BY <1>1, RowsRemoved DEF DeleteBackup, RecInv, RecNumbers
  <2>3. rRows \cup rDropped \subseteq rRows' \cup rDropped' BY <1>1 DEF DeleteBackup
  <2> QED BY <1>1, <2>1, <2>2, <2>3, RecOutside DEF DeleteBackup
<1>2. ASSUME NEW b \in 1..MaxBackups, ExpireBackups(b) PROVE RecInv'
  <2>1. RecShapes' BY <1>2 DEF ExpireBackups, RecInv, RecShapes
  <2>2. RecNumbers' BY <1>2, RowsRemoved DEF ExpireBackups, RecInv, RecNumbers
  <2> QED BY <1>2, <2>1, <2>2, RecOutside DEF ExpireBackups
<1>3. CASE pruneExpiredBackups
  <2>1. RecShapes' BY <1>3 DEF pruneExpiredBackups, RecInv, RecShapes
  <2>2. RecNumbers' BY <1>3, RowsRemoved DEF pruneExpiredBackups, RecInv, RecNumbers
  <2>3. rRows \cup rDropped \subseteq rRows' \cup rDropped' BY <1>3 DEF pruneExpiredBackups
  <2> QED BY <1>3, <2>1, <2>2, <2>3, RecOutside DEF pruneExpiredBackups
<1> QED BY <1>1, <1>2, <1>3

LEMMA RecWorld ==
    ASSUME RecInv, \/ \E f \in RFiles, c \in RContents : HostWritesRec(f, c)
                   \/ \E tree \in RTrees : CommitToGit(tree)
                   \/ EditorOpens \/ ResumeStack
    PROVE  RecInv'
<1>1. RecNumbers'
  BY BackupsKept DEF HostWritesRec, CommitToGit, EditorOpens, ResumeStack, RecInv
<1>2. ASSUME NEW f \in RFiles, NEW c \in RContents, HostWritesRec(f, c) PROVE RecInv'
  <2>1. rHost' = [rHost EXCEPT ![f] = c] /\ rTouched' = rTouched \cup {f}
    BY <1>2 DEF HostWritesRec
  <2>2. rHost' \in RecFiles /\ \A g \in RFiles \ rTouched' : rHost'[g] = rHost[g]
    BY <2>1 DEF RecInv, RecShapes, RecFiles
  <2>3. RecShapes' BY <1>2, <2>2 DEF HostWritesRec, RecInv, RecShapes
  <2> QED BY <1>1, <1>2, <2>1, <2>2, <2>3, RecOutside DEF HostWritesRec
<1>3. ASSUME NEW tree \in RTrees, CommitToGit(tree) PROVE RecInv'
  <2>1. RecShapes' BY <1>3 DEF CommitToGit, RecInv, RecShapes
  <2> QED BY <1>1, <1>3, <2>1, RecOutside DEF CommitToGit
<1>4. CASE EditorOpens \/ ResumeStack
  <2>1. RecShapes' BY <1>4 DEF EditorOpens, ResumeStack, RecInv, RecShapes
  <2> QED BY <1>1, <1>4, <2>1, RecOutside DEF EditorOpens, ResumeStack
<1> QED BY <1>2, <1>3, <1>4

LEMMA RecImport == ASSUME RecInv, RecoveryImport PROVE RecInv'
<1> DEFINE preview == ImportPreview(RFiles, rGit, rHost, rBase)
           chosen == OfKind(preview, {"add", "modify"})
<1>1. /\ chosen # {} /\ backupChangedFiles(rGit, chosen, {}) /\ ~Recovering
      /\ rHost' = [f \in RFiles |-> IF f \in chosen THEN rGit[f] ELSE rHost[f]]
      /\ rBase' = BaselineAfterTransfer(rBase, rGit, rHost, chosen)
      /\ UNCHANGED <<rGit, rCommits, rExpired, rPaused, rDirty, rTemp, rOp, rTouched,
                     rDropped, rSteps>>
  BY DEF RecoveryImport
<1>2. chosen \in SUBSET RFiles /\ \A f \in chosen : rGit[f] # rHost[f]
  BY DEF OfKind, ImportPreview, ImportEntry
<1> HIDE DEF chosen
<1>3. rGit \in RecFiles BY DEF RecInv, RecShapes, RTrees, RecFiles
<1>4. \E f \in chosen : rGit[f] # rHost[f] BY <1>1, <1>2
<1>5. {} \in SUBSET (1..MaxBackups) /\ Cardinality({}) <= 1 BY FS_EmptySet
<1>6. /\ RecNumbers' /\ rManifest' \in [1..MaxBackups -> RecManifest]
  BY <1>1, <1>2, <1>3, <1>4, <1>5, BackupMade DEF RecInv
<1>7. rHost' \in RecFiles BY <1>1, <1>3 DEF RecInv, RecShapes, RecFiles
<1>8. rBase' \in RTrees
  <2>1. /\ rBase' = [p \in DOMAIN rBase |->
                       IF p \in DOMAIN rGit /\ rGit[p] # Absent
                            /\ (p \in chosen \/ rHost[p] = rGit[p])
                       THEN rGit[p] ELSE rBase[p]]
        /\ rBase \in [RFiles -> RContents] /\ rGit \in [RFiles -> RContents]
    BY <1>1 DEF BaselineAfterTransfer, RecInv, RecShapes, RTrees
  <2> QED BY <2>1 DEF RTrees
<1>9. RecShapes' BY <1>1, <1>6, <1>7, <1>8 DEF RecInv, RecShapes
<1>10. rOp.kind = "none" /\ rOp.step = "none" BY <1>1 DEF Recovering, RecInv, RecShapes
<1> QED BY <1>1, <1>6, <1>9, <1>10 DEF RecInv, RecSource, RecSafety
-----------------------------------------------------------------------------
LEMMA RecStarts ==
    ASSUME RecInv, NEW kind \in {"restore", "rollback"}, NEW source \in 0..MaxBackups,
           kind = "restore" => source \in rRows, NEW desired \in RecFiles,
           NEW chosen \in SUBSET RFiles, \A f \in chosen : desired[f] # rHost[f],
           StartRecovery(kind, source, desired, chosen)
    PROVE  RecInv'
<1> DEFINE o == [kind |-> kind, step |-> "backup", source |-> source, safety |-> 0,
                 desired |-> desired, todo |-> chosen]
<1>1. /\ rOp' = o /\ chosen # {}
      /\ UNCHANGED <<rHost, rGit, rCommits, rBase, rRows, rArchives, rManifest, rExpired,
                     rPaused, rDirty, rStatus, rTemp, rDropped>>
  BY DEF StartRecovery
<1>2. 0 \in 0..MaxBackups BY GitRecoveryAssumption
<1>3. /\ o \in RecOp /\ o.kind = kind /\ o.step = "backup" /\ o.source = source
      /\ o.desired = desired /\ o.todo = chosen
  BY <1>2 DEF RecOp
<1> HIDE DEF o
<1>4. RecShapes' BY <1>1, <1>3 DEF RecInv, RecShapes
<1>5. RecNumbers' BY <1>1, BackupsKept DEF RecInv
<1>6. RecSource' /\ RecSafety' BY <1>1, <1>3 DEF RecSource, RecSafety
<1> QED BY <1>4, <1>5, <1>6 DEF RecInv

LEMMA RecRestore ==
    ASSUME RecInv, NEW b \in rRows, NEW chosen \in SUBSET RFiles, RestoreBackup(b, chosen)
    PROVE  RecInv'
<1>1. /\ chosen \subseteq Acts([f \in rManifest[b].files |-> PreviewBackupRestore(b, f)])
      /\ StartRecovery("restore", b, rManifest[b].before, chosen)
  BY DEF RestoreBackup
<1>2. b \in 1..MaxBackups /\ b \in 0..MaxBackups
  BY GitRecoveryAssumption DEF RecInv, RecNumbers, UsedBackups
<1>3. rManifest[b].before \in RecFiles BY <1>2 DEF RecInv, RecShapes, RecManifest
<1>4. \A f \in chosen : PreviewBackupRestore(b, f) \in {"restore", "remove"}
  BY <1>1 DEF Acts, OfKind
<1>5. ASSUME NEW f \in chosen PROVE rManifest[b].before[f] # rHost[f]
  BY <1>4 DEF PreviewBackupRestore
<1> QED BY <1>1, <1>2, <1>3, <1>5, RecStarts

LEMMA RecRollback ==
    ASSUME RecInv, NEW tree \in rCommits, NEW chosen \in SUBSET RFiles,
           ApplyCommitRollback(tree, chosen)
    PROVE  RecInv'
<1>1. /\ chosen \subseteq Acts([f \in RFiles |-> buildCommitRollbackPreview(tree, f)])
      /\ StartRecovery("rollback", 0, tree, chosen)
  BY DEF ApplyCommitRollback
<1>2. tree \in RecFiles BY DEF RecInv, RecShapes, RTrees, RecFiles
<1>3. ASSUME NEW f \in chosen PROVE tree[f] # rHost[f]
  <2>1. buildCommitRollbackPreview(tree, f) \in {"restore", "remove"}
    BY <1>1 DEF Acts, OfKind
  <2>2. CASE tree[f] = rHost[f]
    <3>1. buildCommitRollbackPreview(tree, f) = "noop"
      BY <2>2 DEF buildCommitRollbackPreview
    <3> QED BY <2>1, <3>1
  <2> QED BY <2>2
<1>4. 0 \in 0..MaxBackups BY GitRecoveryAssumption
<1> QED BY <1>1, <1>2, <1>3, <1>4, RecStarts

LEMMA RecSafetyBackup == ASSUME RecInv, SafetyBackup PROVE RecInv'
<1>1. CASE rTouched \cap rOp.todo # {}
  <2>1. /\ rOp' = NoRecovery
        /\ UNCHANGED <<rHost, rGit, rCommits, rBase, rRows, rArchives, rManifest, rExpired,
                       rPaused, rDirty, rDropped>>
    BY <1>1 DEF SafetyBackup
  <2>2. RecShapes' BY <2>1, RecNone DEF RecInv, RecShapes
  <2> QED BY <2>1, <2>2, BackupsKept, RecEnds DEF RecInv
<1>2. CASE rTouched \cap rOp.todo = {} /\ rOp.todo # {}
  <2> DEFINE protected == IF rOp.kind = "restore" THEN {rOp.source} ELSE {}
             o == [rOp EXCEPT !.step = "pause", !.safety = FreshRun]
  <2>1. /\ rOp.step = "backup" /\ rOp' = o
        /\ backupChangedFiles(rOp.desired, rOp.todo, protected)
        /\ UNCHANGED <<rHost, rGit, rCommits, rBase, rExpired, rPaused, rDirty, rDropped>>
    BY <1>2 DEF SafetyBackup
  <2>2. /\ rOp \in RecOp /\ rOp.desired \in RecFiles /\ rOp.todo \in SUBSET RFiles
    BY DEF RecInv, RecShapes, RecOp
  <2>3. \A f \in rOp.todo : rOp.desired[f] # rHost[f]
    BY <1>2, <2>1 DEF RecInv, RecSafety
  <2>4. protected \in SUBSET (1..MaxBackups) /\ Cardinality(protected) <= 1
    <3>1. CASE rOp.kind = "restore"
      <4>1. rOp.source \in 1..MaxBackups
        BY <3>1 DEF RecInv, RecSource, RecNumbers, UsedBackups
      <4>2. protected = {rOp.source} BY <3>1
      <4>3. Cardinality({rOp.source}) = 1 BY FS_Singleton
      <4> QED BY <4>1, <4>2, <4>3
    <3>2. CASE rOp.kind # "restore"
      <4>1. protected = {} BY <3>2
      <4> QED BY <4>1, FS_EmptySet
    <3> QED BY <3>1, <3>2
  <2>5. rOp.kind = "restore" => protected = {rOp.source} OBVIOUS
  <2> HIDE DEF protected
  <2> DEFINE F == FreshRun
  <2>6. /\ RecNumbers' /\ rManifest' \in [1..MaxBackups -> RecManifest]
        /\ F \in 1..MaxBackups /\ F \in UsedBackups' /\ F \in rRows'
        /\ rRows \cap protected \subseteq rRows'
        /\ rManifest'[F] =
             [before |-> rHost, after |-> rOp.desired,
              files |-> {f \in rOp.todo : rOp.desired[f] # rHost[f]}]
    BY <1>2, <2>1, <2>2, <2>3, <2>4, BackupMade DEF RecInv
  <2>7. o = [rOp EXCEPT !.step = "pause", !.safety = F] OBVIOUS
  <2> HIDE DEF F
  <2>8. /\ o \in RecOp /\ o.kind = rOp.kind /\ o.step = "pause" /\ o.source = rOp.source
        /\ o.safety = F /\ o.desired = rOp.desired /\ o.todo = rOp.todo
    <3>1. F \in 0..MaxBackups BY <2>6
    <3> HIDE DEF o
    <3> QED BY <2>2, <2>7, <3>1 DEF RecOp
  <2> HIDE DEF o
  <2>9. RecShapes' BY <2>1, <2>6, <2>8 DEF RecInv, RecShapes
  <2>10. RecSource' BY <2>1, <2>5, <2>6, <2>8 DEF RecInv, RecSource
  <2>11. /\ rManifest'[F].before = rHost /\ rManifest'[F].after = rOp.desired
         /\ rManifest'[F].files = {f \in rOp.todo : rOp.desired[f] # rHost[f]}
    BY <2>6
  <2>12. RecSafety' BY <2>1, <2>3, <2>6, <2>8, <2>11 DEF RecSafety
  <2> QED BY <2>6, <2>9, <2>10, <2>12 DEF RecInv
<1>3. rOp.todo # {} BY DEF SafetyBackup, RecInv, RecSafety
<1> QED BY <1>1, <1>2, <1>3

-----------------------------------------------------------------------------
(* The recovery goes to another step, or ends, and nothing else changes    *)
(* that it depends on.                                                     *)
LEMMA RecMoves ==
    ASSUME RecInv, rOp.step \in {"pause", "write", "rename"},
           UNCHANGED <<rHost, rGit, rCommits, rBase, rRows, rArchives, rManifest, rExpired,
                       rDirty, rTouched, rDropped>>,
           rPaused' \in BOOLEAN, NEW step \in {"pause", "write", "rename"},
           rOp' = [rOp EXCEPT !.step = step]
    PROVE  RecInv'
<1>1. rOp \in RecOp /\ rOp.kind # "none" BY DEF RecInv, RecShapes
<1> DEFINE o == [rOp EXCEPT !.step = step]
<1>2. /\ o \in RecOp /\ o.kind = rOp.kind /\ o.step = step /\ o.source = rOp.source
      /\ o.safety = rOp.safety /\ o.desired = rOp.desired /\ o.todo = rOp.todo
  BY <1>1 DEF RecOp
<1>3. rOp' = o OBVIOUS
<1> HIDE DEF o
<1>4. RecShapes' BY <1>1, <1>2, <1>3 DEF RecInv, RecShapes
<1>5. RecNumbers' /\ UsedBackups' = UsedBackups BY BackupsKept DEF RecInv
<1>6. RecSource' BY <1>2, <1>3 DEF RecInv, RecSource
<1>7. RecSafety' BY <1>2, <1>3, <1>5 DEF RecInv, RecSafety
<1> QED BY <1>4, <1>5, <1>6, <1>7 DEF RecInv

LEMMA RecPause == ASSUME RecInv, PauseForRecovery PROVE RecInv'
<1>1. CASE rOp.kind = "restore" /\ rOp.source \notin rArchives
  <2>1. RecShapes' BY <1>1, RecNone DEF PauseForRecovery, RecInv, RecShapes
  <2> QED BY <1>1, <2>1, BackupsKept, RecEnds DEF PauseForRecovery, RecInv
<1>2. CASE ~(rOp.kind = "restore" /\ rOp.source \notin rArchives)
  <2>1. rOp' = [rOp EXCEPT !.step = "write"] BY <1>2 DEF PauseForRecovery
  <2> QED BY <2>1, RecMoves DEF PauseForRecovery
<1> QED BY <1>1, <1>2

LEMMA RecOpens ==
    ASSUME RecInv, NEW f \in RFiles, applyBackupArchive(f) PROVE RecInv'
BY RecMoves DEF applyBackupArchive, RecInv, RecShapes

(* One file is written or removed as the recovery wants it.                *)
LEMMA RecWrites ==
    ASSUME RecInv, rOp.step \in {"write", "rename"}, NEW f \in rOp.todo,
           rHost' = [rHost EXCEPT ![f] = rOp.desired[f]], NEW o \in RecOp, rOp' = o,
           o.kind = rOp.kind, o.step = "write", o.source = rOp.source,
           o.safety = rOp.safety, o.desired = rOp.desired, o.todo = rOp.todo \ {f},
           UNCHANGED <<rGit, rCommits, rBase, rRows, rArchives, rManifest, rExpired,
                       rPaused, rDirty, rTouched, rDropped>>
    PROVE  RecInv'
<1>1. rOp.todo \subseteq RFiles /\ rOp.desired \in RecFiles /\ rOp.kind # "none"
  BY DEF RecInv, RecShapes, RecOp
<1>2. /\ rHost' \in RecFiles /\ \A g \in RFiles \ {f} : rHost'[g] = rHost[g]
  BY <1>1 DEF RecInv, RecShapes, RecFiles
<1>3. RecShapes' BY <1>1, <1>2 DEF RecInv, RecShapes
<1>4. RecNumbers' /\ UsedBackups' = UsedBackups BY BackupsKept DEF RecInv
<1>5. RecSource' BY DEF RecInv, RecSource
<1>6. RecSafety' BY <1>1, <1>2, <1>4 DEF RecInv, RecSafety
<1> QED BY <1>3, <1>4, <1>5, <1>6 DEF RecInv

LEMMA OpWritten ==
    ASSUME NEW op \in RecOp, NEW f
    PROVE  LET o == [op EXCEPT !.step = "write", !.todo = @ \ {f}]
           IN /\ o \in RecOp /\ o.kind = op.kind /\ o.step = "write" /\ o.source = op.source
              /\ o.safety = op.safety /\ o.desired = op.desired /\ o.todo = op.todo \ {f}
BY DEF RecOp

LEMMA OpShorter ==
    ASSUME NEW op \in RecOp, NEW f
    PROVE  LET o == [op EXCEPT !.todo = @ \ {f}]
           IN /\ o \in RecOp /\ o.kind = op.kind /\ o.step = op.step /\ o.source = op.source
              /\ o.safety = op.safety /\ o.desired = op.desired /\ o.todo = op.todo \ {f}
BY DEF RecOp

(* What a step that writes a file of the recovery does.                    *)
RecFileStep(f) ==
    /\ rOp.step \in {"write", "rename"} /\ f \in rOp.todo
    /\ rHost' = [rHost EXCEPT ![f] = rOp.desired[f]]
    /\ rOp' \in RecOp /\ rOp'.kind = rOp.kind /\ rOp'.step = "write"
    /\ rOp'.source = rOp.source /\ rOp'.safety = rOp.safety
    /\ rOp'.desired = rOp.desired /\ rOp'.todo = rOp.todo \ {f}
    /\ UNCHANGED <<rGit, rCommits, rBase, rRows, rArchives, rManifest, rExpired,
                   rPaused, rDirty, rTouched, rDropped>>

LEMMA RecFileSteps ==
    ASSUME RecInv, NEW f \in RFiles,
           RenameRestored(f) \/ writeStackFiles(f) \/ RemoveRecovered(f)
    PROVE  RecFileStep(f)
<1>1. rOp \in RecOp BY DEF RecInv, RecShapes
<1>2. CASE RenameRestored(f)
  BY <1>1, <1>2, OpWritten DEF RenameRestored, RecFileStep
<1>3. CASE writeStackFiles(f)
  BY <1>1, <1>3, OpShorter DEF writeStackFiles, RecFileStep
<1>4. CASE RemoveRecovered(f)
  <2>1. rOp.desired[f] = Absent BY <1>4 DEF RemoveRecovered, Removes
  <2> QED BY <1>1, <1>4, <2>1, OpShorter DEF RemoveRecovered, RecFileStep
<1> QED BY <1>2, <1>3, <1>4

LEMMA RecTears ==
    ASSUME RecInv, NEW f \in RFiles, writeExistingStackFile(f) PROVE RecInv'
<1>1. /\ rHost' = [rHost EXCEPT ![f] = Torn] /\ rOp.step = "write"
      /\ UNCHANGED <<rGit, rCommits, rBase, rRows, rArchives, rManifest, rExpired,
                     rPaused, rDirty, rOp, rTouched, rDropped>>
  BY DEF writeExistingStackFile
<1>2. /\ rHost' \in RecFiles /\ rHost'[f] = Torn
      /\ \A g \in RFiles \ {f} : rHost'[g] = rHost[g]
  BY <1>1 DEF RecInv, RecShapes, RecFiles
<1>3. RecShapes' BY <1>1, <1>2 DEF RecInv, RecShapes
<1>4. RecNumbers' /\ UsedBackups' = UsedBackups BY <1>1, BackupsKept DEF RecInv
<1>5. RecSource' BY <1>1 DEF RecInv, RecSource
<1>6. rOp.todo \subseteq RFiles BY DEF RecInv, RecShapes, RecOp
<1>7. RecSafety' BY <1>1, <1>2, <1>4, <1>6 DEF RecInv, RecSafety
<1> QED BY <1>3, <1>4, <1>5, <1>7 DEF RecInv

LEMMA RecStops ==
    ASSUME RecInv, RecordRecovery \/ RecoveryFails \/ StopDuringRecovery PROVE RecInv'
<1>1. /\ rOp' = NoRecovery
      /\ UNCHANGED <<rHost, rGit, rCommits, rBase, rRows, rArchives, rManifest, rExpired,
                     rPaused, rDirty, rTouched, rDropped>>
  BY DEF RecordRecovery, RecoveryFails, StopDuringRecovery
<1>2. RecShapes' BY <1>1, RecNone DEF RecInv, RecShapes
<1> QED BY <1>1, <1>2, BackupsKept, RecEnds DEF RecInv
-----------------------------------------------------------------------------
LEMMA RecStep == RecInv /\ [RecNext]_recVars => RecInv'
<1> SUFFICES ASSUME RecInv, [RecNext]_recVars PROVE RecInv' OBVIOUS
<1>1. CASE UNCHANGED recVars
  BY <1>1 DEF recVars, RecInv, RecShapes, RecNumbers, UsedBackups, RecSource, RecSafety
<1>2. CASE \/ \E b \in 1..MaxBackups : DeleteBackup(b) \/ ExpireBackups(b)
           \/ pruneExpiredBackups
  BY <1>2, RecBackupsGo
<1>3. CASE \/ \E f \in RFiles, c \in RContents : HostWritesRec(f, c)
           \/ \E tree \in {Uniform(2), [rGit EXCEPT !["env"] = Absent]} : CommitToGit(tree)
           \/ EditorOpens \/ ResumeStack
  <2>1. Absent \in RContents /\ 2 \in RContents BY DEF Absent, RContents
  <2>2. Uniform(2) \in RTrees BY <2>1 DEF Uniform, RTrees
  <2>3. [rGit EXCEPT !["env"] = Absent] \in RTrees
    BY <2>1 DEF RecInv, RecShapes, RTrees
  <2> QED BY <1>3, <2>2, <2>3, RecWorld
<1>4. CASE \E b \in rRows, chosen \in SUBSET RFiles : RestoreBackup(b, chosen)
  BY <1>4, RecRestore
<1>5. CASE \E tree \in rCommits, chosen \in SUBSET RFiles : ApplyCommitRollback(tree, chosen)
  BY <1>5, RecRollback
<1>6. CASE \E f \in RFiles : \/ applyBackupArchive(f) \/ writeExistingStackFile(f)
  BY <1>6, RecOpens, RecTears
<1>7. CASE \E f \in RFiles : RenameRestored(f) \/ writeStackFiles(f) \/ RemoveRecovered(f)
  <2>1. PICK f \in RFiles : RecFileStep(f) BY <1>7, RecFileSteps
  <2> QED BY <2>1, RecWrites DEF RecFileStep
<1>8. CASE RecoveryImport BY <1>8, RecImport
<1>9. CASE SafetyBackup BY <1>9, RecSafetyBackup
<1>10. CASE PauseForRecovery BY <1>10, RecPause
<1>11. CASE RecordRecovery \/ RecoveryFails \/ StopDuringRecovery BY <1>11, RecStops
<1> QED BY <1>1, <1>2, <1>3, <1>4, <1>5, <1>6, <1>7, <1>8, <1>9, <1>10, <1>11 DEF RecNext

(* A file on the list of the recovery that changes and leaves the list was *)
(* written by the recovery.                                                *)
LEMMA RecOnlyWrites ==
    ASSUME RecInv, RecNext, NEW f \in RFiles, rOp.step \in {"write", "rename"},
           rOp'.todo = rOp.todo \ {f}, f \in rOp.todo, rHost'[f] # rHost[f]
    PROVE  RecFileStep(f)
<1>1. rOp.kind # "none" BY DEF RecInv, RecShapes
<1>2. rOp' # rOp /\ rHost' # rHost OBVIOUS
<1>3. PICK g \in RFiles : RenameRestored(g) \/ writeStackFiles(g) \/ RemoveRecovered(g)
  BY <1>1, <1>2
  DEF RecNext, DeleteBackup, ExpireBackups, pruneExpiredBackups, HostWritesRec, CommitToGit,
      EditorOpens, RecoveryImport, Recovering, ResumeStack, RestoreBackup, StartRecovery,
      ApplyCommitRollback, SafetyBackup, PauseForRecovery, applyBackupArchive,
      writeExistingStackFile, RecordRecovery, RecoveryFails, StopDuringRecovery
<1>4. RecFileStep(g) BY <1>3, RecFileSteps
<1>5. rOp.todo \ {g} = rOp.todo \ {f} /\ g \in rOp.todo BY <1>4 DEF RecFileStep
<1>6. g = f BY <1>5
<1> QED BY <1>4, <1>6

RecUndo(f) ==
    /\ rOp.safety \in rRows \cap rArchives
    /\ f \in rManifest[rOp.safety].files
    /\ rHost[f] \in {rManifest[rOp.safety].before[f], Torn}
    /\ rHost'[f] = rManifest[rOp.safety].after[f]

RecUndoStep ==
    rHost' # rHost => \A f \in RFiles \ rTouched :
      rOp.step \in {"write", "rename"} /\ rOp'.todo = rOp.todo \ {f} /\ f \in rOp.todo
        /\ rHost'[f] # rHost[f] /\ rOp.safety \notin rDropped
      => RecUndo(f)

LEMMA RecUndoes == RecInv /\ [RecNext]_recVars => [RecUndoStep]_recVars
<1> SUFFICES ASSUME RecInv, RecNext, NEW f \in RFiles \ rTouched,
                    rOp.step \in {"write", "rename"}, rOp'.todo = rOp.todo \ {f},
                    f \in rOp.todo, rHost'[f] # rHost[f], rOp.safety \notin rDropped
             PROVE  RecUndo(f)
  BY DEF RecUndoStep
<1>1. RecFileStep(f) BY RecOnlyWrites
<1>2. rHost'[f] = rOp.desired[f] BY <1>1 DEF RecFileStep, RecInv, RecShapes, RecFiles
<1>3. /\ rOp.safety \in rRows /\ rOp.safety \in rArchives
      /\ f \in rManifest[rOp.safety].files
      /\ rManifest[rOp.safety].after = rOp.desired
      /\ rHost[f] \in {rManifest[rOp.safety].before[f], Torn}
  BY DEF RecInv, RecSafety, RecNumbers
<1> QED BY <1>2, <1>3 DEF RecUndo

(* What a recovery overwrites or removes can be brought back               *)
(* (backup_restore.go, commit_rollback.go): its safety backup is still     *)
(* there, lists the file with the content it had, and recognizes the       *)
(* content it was given, whatever prunes, stops and the host do meanwhile. *)
THEOREM RecoveriesAreUndoable == RecSpec => RecoveryUndoable
<1>1. RecoveryUndoable <=> [][RecUndoStep]_recVars
  BY DEF RecoveryUndoable, RecUndoStep, RecUndo
<1> QED BY <1>1, RecInitInv, RecStep, RecUndoes, PTL DEF RecSpec

(* The backup a restore reads is not pushed out by the safety backup made  *)
(* before it (backup.go:pruneManagedBackups), and no more rows stay than   *)
(* the retention and the protected one.                                    *)
THEOREM RestoreKeepsItsSource == RecSpec => [](RecTypeOK /\ SourceKept)
<1>1. RecInv => RecTypeOK
  BY DEF RecInv, RecShapes, RecNumbers, UsedBackups, RecTypeOK, RecFiles, RecOp
<1>2. RecInv => SourceKept BY DEF RecInv, RecSource, RecNumbers, SourceKept
<1> QED BY <1>1, <1>2, RecInitInv, RecStep, PTL DEF RecSpec
=============================================================================
