------------------------------ MODULE GitLinks ------------------------------
(***************************************************************************)
(* The Folder Link rows of gitsync: creation, relinking and unlinking, the *)
(* catalog of Compose files, which stacks are selected, polled and         *)
(* deployed, who owns which folder, and the status rows that follow the    *)
(* selection (binding.go, automation.go, stack_status.go, store.go).       *)
(*                                                                         *)
(* Two links of one host, the folder of Inner nested in the folder of      *)
(* Outer, each with a repository of its own.  An operation that reads,     *)
(* changes and saves its row under the automation lock of the link is one  *)
(* step, but a background cycle and an unlinking hold that lock over       *)
(* several.  Adding an exclusion or an inclusion, and the first            *)
(* synchronization of a new link, do not take it: they hold a copy of the  *)
(* row, look whether it was unlinked, and then write the whole copy.       *)
(***************************************************************************)
EXTENDS Naturals, FiniteSets

CONSTANTS
    OuterStacks,    \* the stacks below the folder of Outer
    InnerStacks,    \* those of them below the folder of Inner
    MaxLinkSteps    \* bound: acts of operators

ASSUME GitLinksAssumption ==
    InnerStacks \subseteq OuterStacks /\ MaxLinkSteps \in Nat

VARIABLES
    lrow,       \* the StackBinding row of each link
    lstatus,    \* GitStackStatus rows: a state, or "none" without a row
    disk,       \* stacks whose Compose file is on the host
    remote,     \* stacks whose Compose file is in the repository of the link
    synced,     \* stacks whose Compose file is in the baseline of the link
    copy,       \* the rows held without the automation lock: by an edit of the
                \* policy, and by a creation, which holds the ownership lock
    lcycle,     \* the cycle or the unlinking that holds the lock of each link
    inspected,  \* history: stacks a cycle scanned at the head of the branch
    blurred,    \* history: links that came back, or whose row an unlocked save
                \* replaced under a cycle, since the branch last moved
    overtaken,  \* history: links whose row an unlocked save replaced while they
                \* were being unlinked
    lsteps

linkVars == <<lrow, lstatus, disk, remote, synced, copy, lcycle, inspected, blurred,
              overtaken, lsteps>>

GitLinkNames == {"outer", "inner"}
Below(l) == IF l = "outer" THEN OuterStacks ELSE InnerStacks

NoRow == [live |-> "none", catalog |-> {}, mode |-> "all", sel |-> {},
          amode |-> "all", asel |-> {}, sync |-> FALSE, deploy |-> FALSE,
          fresh |-> FALSE, targets |-> {}, last |-> FALSE, first |-> "none"]

(* A copy: read, looked up by SaveBinding, unlinked since it was looked    *)
(* up; and whether its row was deleted from the table since it was read.   *)
RowHolders == {"edit", "create"}
NoCopy == [link |-> "outer", row |-> NoRow, stage |-> "none", gone |-> FALSE]

NoCycle == [step |-> "idle", row |-> NoRow, moved |-> FALSE]

LinksInit ==
    /\ lrow = [l \in GitLinkNames |-> NoRow]
    /\ lstatus = [l \in GitLinkNames |-> [s \in OuterStacks |-> "none"]]
    /\ disk = OuterStacks
    /\ remote = [l \in GitLinkNames |-> {}]
    /\ synced = [l \in GitLinkNames |-> {}]
    /\ copy = [k \in RowHolders |-> NoCopy]
    /\ lcycle = [l \in GitLinkNames |-> NoCycle]
    /\ inspected = [l \in GitLinkNames |-> {}]
    /\ blurred = {} /\ overtaken = {}
    /\ lsteps = 0

Act == lsteps < MaxLinkSteps /\ lsteps' = lsteps + 1

(* Nobody holds the automation lock of the link, or the ownership lock.    *)
LinkFree(l) == lcycle[l].step = "idle"
OwnershipHeld == copy["create"].stage # "none"

selectedComposePaths(r) == IF r.mode = "all" THEN r.catalog ELSE r.sel

autoSyncComposePaths(r) ==
    IF r.amode = "all" THEN selectedComposePaths(r)
    ELSE r.asel \cap selectedComposePaths(r)

Discovered(l) == (disk \cap Below(l)) \cup remote[l]

(* The whole folder, or the folders of the selected stacks.                *)
bindingOwnerships(l, r) == IF r.mode = "all" THEN Below(l) ELSE r.sel

(* No other live link may own what this one would own.                     *)
validateBindingOwnership(l, r) ==
    \A m \in GitLinkNames \ {l} :
        lrow[m].live = "live" =>
            bindingOwnerships(m, lrow[m]) \cap bindingOwnerships(l, r) = {}

(* Mutant of KeepShortcut: the shortcut outlives the set it was taken for. *)
ShortcutKept(old, new) == new

(* A changed set of polled stacks drops the commit shortcut.               *)
KeepShortcut(old, new) ==
    [new EXCEPT !.last = @ /\ autoSyncComposePaths(old) = autoSyncComposePaths(new)]

(* Mutant of NotUnlinked: the row is written whatever became of it.        *)
SaveAnyway(l) == TRUE

(* What SaveBinding looks up first: an unlinked row is not written.        *)
NotUnlinked(l) == lrow[l].live # "archived"

(* Under the lock of the link nothing comes between the two.               *)
SaveBinding(l, r) == NotUnlinked(l) /\ lrow' = [lrow EXCEPT ![l] = r]

(* Without it the whole copy is written later.  A row that is no longer in *)
(* the table is inserted again, unless another row has its ends by now.    *)
Overwritten(c) ==
    IF c.gone /\ lrow[c.link].live # "none" THEN lrow
    ELSE [lrow EXCEPT ![c.link] = c.row]

SaveUnlocked(c) ==
    /\ blurred' = IF LinkFree(c.link) THEN blurred ELSE blurred \cup {c.link}
    /\ overtaken' = IF lcycle[c.link].step \in {"unlink", "forget"}
                    THEN overtaken \cup {c.link} ELSE overtaken

(* Status rows are created for what is selected and removed otherwise.     *)
ReconcileGitStackStatuses(states, r) ==
    [s \in OuterStacks |->
        IF s \notin selectedComposePaths(r) THEN "none"
        ELSE IF states[s] # "none" THEN states[s]
        ELSE IF r.first = "done" THEN "up_to_date" ELSE "pending"]

(* A selected stack that is not on the host awaits a decision or a pull.   *)
recordMissingLocalComposeStatuses(l, states, r) ==
    [s \in OuterStacks |->
        IF /\ s \in selectedComposePaths(r) \ disk
           /\ states[s] # "conflict"
        THEN IF s \in synced'[l] THEN "locally_deleted" ELSE "remote_changes"
        ELSE states[s]]

(* The catalog follows both sides; what appears is not selected, what is   *)
(* gone loses its selection, its authorizations and its baseline.          *)
RefreshedRow(l, r) ==
    LET found == Discovered(l)
        added == found \ r.catalog
        sel == selectedComposePaths(r) \cap found
    IN IF found = r.catalog THEN r
       ELSE [r EXCEPT
               !.catalog = found,
               !.mode = IF added # {} THEN "selected"
                        ELSE IF sel = found THEN "all" ELSE @,
               !.sel = sel,
               !.asel = @ \cap found,
               !.targets = @ \cap found]

(* What the stack view lists of a live link: the stacks with a status row, *)
(* and the catalogued ones nobody selected.                                *)
ListGitStackStatusViews(l) ==
    LET r == lrow[l]
        shown == {s \in OuterStacks : lstatus[l][s] # "none"}
        offered == r.catalog \ (selectedComposePaths(r) \cup shown)
    IN [s \in shown \cup offered |->
          IF s \in offered
          THEN [state |-> "unselected", polled |-> FALSE, deploys |-> FALSE]
          ELSE [state |-> lstatus[l][s], polled |-> s \in autoSyncComposePaths(r),
                deploys |-> r.deploy /\ s \in r.targets]]

(* A Compose file that is new to the catalog, or that is no longer there.  *)
composeCatalogMayHaveChanged(l, s) == s \notin lrow[l].catalog \/ s \notin disk

refreshBindingComposeCatalogLocked(l, r) ==
    synced' = [synced EXCEPT ![l] = @ \ (r.catalog \ Discovered(l))]
-----------------------------------------------------------------------------
(* The link is created, or an unlinked one of the same ends comes back,    *)
(* with the catalog of both sides.  The ownership lock stays held.         *)
CreateBinding(l, mode, sel) ==
    LET found == Discovered(l)
        old == lrow[l]
        new == [NoRow EXCEPT !.live = "live", !.catalog = found,
                  !.mode = mode, !.sel = sel, !.first = "checking"]
        back == [old EXCEPT !.live = "live", !.catalog = found,
                   !.mode = mode, !.sel = sel, !.first = "checking"]
        row == IF old.live = "archived" THEN back ELSE new
    IN /\ Act /\ ~OwnershipHeld
       /\ old.live # "live"
       /\ IF mode = "all" THEN sel = {} ELSE sel \subseteq found
       /\ validateBindingOwnership(l, row)
       /\ lrow' = [lrow EXCEPT ![l] = row]
       /\ lstatus' = [lstatus EXCEPT ![l] = ReconcileGitStackStatuses(@, row)]
       /\ copy' = [copy EXCEPT !["create"] =
            [link |-> l, row |-> row, stage |-> "read", gone |-> FALSE]]
       /\ blurred' = IF old.live = "archived" THEN blurred \cup {l} ELSE blurred
       /\ UNCHANGED <<disk, remote, synced, lcycle, inspected, overtaken>>

(* The repository is pulled and the catalog of the row that was created is *)
(* refreshed; an initial choice of all stacks is kept when it covered      *)
(* none.  A row whose catalog changed is looked up in order to be saved.   *)
refreshInitialCatalog ==
    LET c == copy["create"]
        fresh == RefreshedRow(c.link, c.row)
        kept == IF c.row.catalog = {} /\ c.row.mode = "all" /\ fresh.catalog # {}
                THEN [fresh EXCEPT !.mode = "all", !.sel = {}] ELSE fresh
    IN /\ c.stage = "read" /\ fresh # c.row
       /\ NotUnlinked(c.link)
       /\ copy' = [copy EXCEPT !["create"].row = kept, !["create"].stage = "looked"]
       /\ refreshBindingComposeCatalogLocked(c.link, c.row)
       /\ UNCHANGED <<lrow, lstatus, disk, remote, lcycle, inspected, blurred, overtaken,
                      lsteps>>

(* It is saved, both sides are compared or transferred, and the outcome is *)
(* stored: open when something failed or nothing was asked for.  Nothing   *)
(* is saved where the pull or the refresh fails or nothing was asked for,  *)
(* or where the catalog is as it was.                                      *)
initializeBinding(outcome) ==
    LET c == copy["create"]
        l == c.link
        saves == c.stage # "read"
        rows == IF saves THEN Overwritten(c) ELSE lrow
        done == outcome # "open"
        states == IF saves THEN ReconcileGitStackStatuses(lstatus[l], c.row)
                  ELSE lstatus[l]
    IN /\ OwnershipHeld
       /\ saves \/ ~done \/ RefreshedRow(l, c.row) = c.row
       /\ done => rows[l].live = "live"
       /\ lrow' = IF rows[l].live # "live" THEN rows
                  ELSE [rows EXCEPT ![l].first = IF done THEN "done" ELSE "open"]
       /\ IF saves THEN SaveUnlocked(c) ELSE UNCHANGED <<blurred, overtaken>>
       /\ synced' = [synced EXCEPT ![l] =
                       IF done THEN @ \cup selectedComposePaths(rows[l]) ELSE @]
       /\ disk' = IF outcome = "imported"
                  THEN disk \cup (selectedComposePaths(rows[l]) \cap remote[l]) ELSE disk
       /\ lstatus' = [lstatus EXCEPT ![l] =
            [s \in OuterStacks |->
               IF states[s] # "none" /\ s \in selectedComposePaths(c.row)
               THEN IF done THEN "up_to_date" ELSE "pending"
               ELSE states[s]]]
       /\ copy' = [copy EXCEPT !["create"] = NoCopy]
       /\ UNCHANGED <<remote, lcycle, inspected, lsteps>>

UpdateBindingComposeSelection(l, asked, sel) ==
    LET old == lrow[l]
        r == RefreshedRow(l, old)
        mode == IF asked = "all" /\ r.catalog \ old.catalog # {}
                THEN "selected" ELSE asked
        deploy == r.targets \cap sel
        narrowed == IF mode = "all" THEN [r EXCEPT !.mode = mode, !.sel = {}]
                    ELSE [r EXCEPT !.mode = mode, !.sel = sel, !.targets = deploy,
                            !.asel = IF r.amode = "selected" THEN @ \cap sel ELSE @,
                            !.deploy = @ /\ (deploy # {} \/ r.fresh)]
    IN /\ Act /\ ~OwnershipHeld /\ LinkFree(l)
       /\ old.live = "live"
       /\ sel \subseteq r.catalog
       /\ validateBindingOwnership(l, narrowed)
       /\ SaveBinding(l, KeepShortcut(old, narrowed))
       /\ refreshBindingComposeCatalogLocked(l, old)
       /\ lstatus' = [lstatus EXCEPT ![l] =
            ReconcileGitStackStatuses(recordMissingLocalComposeStatuses(l,
              ReconcileGitStackStatuses(@, r), r), narrowed)]
       /\ UNCHANGED <<disk, remote, copy, lcycle, inspected, blurred, overtaken>>

(* One stack of the catalog joins the selection.                           *)
EnableGitStackSynchronization(l, s) ==
    LET old == lrow[l]
        sel == selectedComposePaths(old) \cup {s}
        r == [old EXCEPT !.sel = sel,
                !.mode = IF sel = old.catalog THEN "all" ELSE "selected"]
    IN /\ Act /\ ~OwnershipHeld /\ LinkFree(l)
       /\ old.live = "live" /\ s \in old.catalog
       /\ validateBindingOwnership(l, r)
       /\ SaveBinding(l, KeepShortcut(old, r))
       /\ lstatus' = [lstatus EXCEPT ![l] =
            [ReconcileGitStackStatuses(@, r) EXCEPT ![s] =
               CASE s \in disk -> "local_changes"
                 [] s \notin disk /\ s \in synced[l] -> "locally_deleted"
                 [] OTHER -> "remote_changes"]]
       /\ UNCHANGED <<disk, remote, synced, copy, lcycle, inspected, blurred, overtaken>>

RefreshBindingComposeCatalog(l) ==
    LET r == RefreshedRow(l, lrow[l])
    IN /\ lrow[l].live = "live" /\ LinkFree(l)
       /\ SaveBinding(l, r)
       /\ refreshBindingComposeCatalogLocked(l, lrow[l])
       /\ lstatus' = [lstatus EXCEPT ![l] =
            recordMissingLocalComposeStatuses(l,
              IF r = lrow[l] THEN @ ELSE ReconcileGitStackStatuses(@, r), r)]
       /\ UNCHANGED <<disk, remote, copy, lcycle, inspected, blurred, overtaken, lsteps>>

(* After a file operation of Dockman on the Compose file of a stack: the   *)
(* catalog is refreshed where it may have changed, and the row of the      *)
(* stack, when it is selected, says what the host has now.                 *)
MarkComposeChange(l, s) ==
    LET fresh == composeCatalogMayHaveChanged(l, s)
        r == IF fresh THEN RefreshedRow(l, lrow[l]) ELSE lrow[l]
        states == IF fresh
                  THEN recordMissingLocalComposeStatuses(l,
                         ReconcileGitStackStatuses(lstatus[l], r), r)
                  ELSE lstatus[l]
    IN /\ Act /\ lrow[l].live = "live" /\ LinkFree(l)
       /\ SaveBinding(l, r)
       /\ IF fresh THEN refreshBindingComposeCatalogLocked(l, lrow[l])
          ELSE UNCHANGED synced
       /\ lstatus' = [lstatus EXCEPT ![l] =
            [states EXCEPT ![s] =
               IF s \notin selectedComposePaths(r) \/ @ = "none" THEN @
               ELSE IF s \in disk THEN "local_changes" ELSE "locally_deleted"]]
       /\ UNCHANGED <<disk, remote, copy, lcycle, inspected, blurred, overtaken>>

(* A changed policy makes the next cycle look again at every stack.        *)
UpdateBindingPolicy(l) ==
    /\ Act /\ ~OwnershipHeld /\ LinkFree(l)
    /\ lrow[l].live = "live"
    /\ validateBindingOwnership(l, lrow[l])
    /\ SaveBinding(l, [lrow[l] EXCEPT !.last = FALSE])
    /\ lstatus' = [lstatus EXCEPT ![l] =
         [s \in OuterStacks |->
            IF s \in selectedComposePaths(lrow[l]) /\ @[s] # "none"
            THEN "pending" ELSE @[s]]]
    /\ UNCHANGED <<disk, remote, synced, copy, lcycle, inspected, blurred, overtaken>>

(* Deployment targets must be polled stacks, and there must be one unless  *)
(* new stacks are deployed.                                                *)
UpdateBindingAutomation(l, sync, amode, asel, deploy, fresh, targets) ==
    LET old == lrow[l]
        r == [old EXCEPT !.sync = sync, !.amode = amode,
                !.asel = IF amode = "all" THEN {} ELSE asel,
                !.deploy = sync /\ deploy, !.fresh = sync /\ deploy /\ fresh,
                !.targets = IF sync /\ deploy THEN targets ELSE {}]
    IN /\ Act /\ old.live = "live" /\ LinkFree(l)
       /\ asel \subseteq selectedComposePaths(old)
       /\ r.targets \subseteq autoSyncComposePaths(r)
       /\ r.deploy => r.targets # {} \/ r.fresh
       /\ SaveBinding(l, KeepShortcut(old, r))
       /\ UNCHANGED <<lstatus, disk, remote, synced, copy, lcycle, inspected, blurred,
                      overtaken>>

(* AddBindingExclusions and AddBindingInclusions take no lock: the row is  *)
(* read, looked up and written in three steps.                             *)
ReadBindingPolicy(l) ==
    /\ Act
    /\ copy["edit"].stage = "none"
    /\ lrow[l].live = "live"
    /\ copy' = [copy EXCEPT !["edit"] =
         [link |-> l, row |-> lrow[l], stage |-> "read", gone |-> FALSE]]
    /\ UNCHANGED <<lrow, lstatus, disk, remote, synced, lcycle, inspected, blurred,
                   overtaken>>

LookUpBinding ==
    /\ copy["edit"].stage = "read"
    /\ copy' = [copy EXCEPT !["edit"] =
         IF @.gone \/ NotUnlinked(@.link) THEN [@ EXCEPT !.stage = "looked"] ELSE NoCopy]
    /\ UNCHANGED <<lrow, lstatus, disk, remote, synced, lcycle, inspected, blurred,
                   overtaken, lsteps>>

AddBindingExclusions ==
    /\ copy["edit"].stage \in {"looked", "unlinked"}
    /\ lrow' = Overwritten(copy["edit"])
    /\ SaveUnlocked(copy["edit"])
    /\ copy' = [copy EXCEPT !["edit"] = NoCopy]
    /\ UNCHANGED <<lstatus, disk, remote, synced, lcycle, inspected, lsteps>>

(* Unlinking disables the automation of the row...                         *)
DeleteBinding(l, forget) ==
    /\ Act /\ lrow[l].live = "live" /\ LinkFree(l)
    /\ SaveBinding(l, [lrow[l] EXCEPT !.sync = FALSE, !.deploy = FALSE, !.fresh = FALSE])
    /\ lcycle' = [lcycle EXCEPT ![l].step = IF forget THEN "forget" ELSE "unlink"]
    /\ UNCHANGED <<lstatus, disk, remote, synced, copy, inspected, blurred, overtaken>>

(* ... and the row is marked as deleted, for a later relink, or deleted    *)
(* with its status rows and its baseline.                                  *)
UnlinkBinding(l) ==
    LET forget == lcycle[l].step = "forget"
    IN /\ lcycle[l].step \in {"unlink", "forget"}
       /\ lrow' = [lrow EXCEPT ![l] =
            IF forget THEN NoRow ELSE [@ EXCEPT !.live = "archived"]]
       /\ copy' = [k \in RowHolders |->
            IF copy[k].stage = "none" \/ copy[k].link # l THEN copy[k]
            ELSE IF forget THEN [copy[k] EXCEPT !.gone = TRUE]
            ELSE IF copy[k].stage = "looked" THEN [copy[k] EXCEPT !.stage = "unlinked"]
            ELSE copy[k]]
       /\ IF forget
          THEN /\ lstatus' = [lstatus EXCEPT ![l] = [s \in OuterStacks |-> "none"]]
               /\ synced' = [synced EXCEPT ![l] = {}]
          ELSE UNCHANGED <<lstatus, synced>>
       /\ lcycle' = [lcycle EXCEPT ![l] = NoCycle]
       /\ UNCHANGED <<disk, remote, inspected, blurred, overtaken, lsteps>>

(* A background cycle reads its row and keeps it to the end.               *)
BeginLink(l) ==
    /\ LinkFree(l) /\ lrow[l].live = "live" /\ lrow[l].sync
    /\ autoSyncComposePaths(lrow[l]) # {} \/ (lrow[l].deploy /\ lrow[l].fresh)
    /\ lcycle' = [lcycle EXCEPT ![l] = [step |-> "scan", row |-> lrow[l], moved |-> FALSE]]
    /\ lstatus' = [lstatus EXCEPT ![l] = ReconcileGitStackStatuses(@, lrow[l])]
    /\ UNCHANGED <<lrow, disk, remote, synced, copy, inspected, blurred, overtaken, lsteps>>

(* Without a new commit the scan is skipped, and the commit stored again.  *)
SkipLink(l) ==
    /\ lcycle[l].step = "scan" /\ lcycle[l].row.last
    /\ lrow' = [lrow EXCEPT ![l].last = TRUE]
    /\ lcycle' = [lcycle EXCEPT ![l] = NoCycle]
    /\ UNCHANGED <<lstatus, disk, remote, synced, copy, inspected, blurred, overtaken,
                   lsteps>>

(* The branch is fetched and the polled stacks of the stored row are       *)
(* scanned.  What is held out for being unreadable is saved with the row   *)
(* of the cycle.                                                           *)
InspectLink(l) ==
    /\ lcycle[l].step = "scan"
    /\ inspected' = [inspected EXCEPT ![l] = @ \cup autoSyncComposePaths(lrow[l])]
    /\ \/ UNCHANGED lrow
       \/ SaveBinding(l, lcycle[l].row)
    /\ lcycle' = [lcycle EXCEPT ![l].step = "seen"]
    /\ UNCHANGED <<lstatus, disk, remote, synced, copy, blurred, overtaken, lsteps>>

(* New stacks of the repository, and changed ones that are polled, that    *)
(* may be deployed from now on.                                            *)
DiscoveredTargets(l, r) ==
    IF ~(r.deploy /\ r.fresh) THEN {}
    ELSE {s \in remote[l] \ r.targets :
            \/ s \in autoSyncComposePaths(r) /\ (s \in disk \/ s \notin synced[l])
            \/ s \notin r.catalog \cup disk \cup synced[l]}

registerDiscoveredDeploymentTargets(l, found) ==
    LET c == lcycle[l].row
        r == [c EXCEPT !.catalog = @ \cup found,
                !.sel = IF c.mode = "selected" THEN @ \cup found ELSE @,
                !.asel = IF c.amode = "selected" THEN @ \cup found ELSE @,
                !.targets = @ \cup found]
    IN /\ lcycle[l].step = "seen" /\ ~OwnershipHeld
       /\ found # {} /\ found \subseteq DiscoveredTargets(l, c)
       /\ validateBindingOwnership(l, r)
       /\ SaveBinding(l, r)
       /\ lstatus' = [lstatus EXCEPT ![l] = ReconcileGitStackStatuses(@, r)]
       /\ inspected' = IF lcycle[l].moved THEN inspected
                       ELSE [inspected EXCEPT ![l] = @ \cup found]
       /\ lcycle' = [lcycle EXCEPT ![l].row = r, ![l].step = "registered"]
       /\ UNCHANGED <<disk, remote, synced, copy, blurred, overtaken, lsteps>>

(* The import of the polled stacks, unless one was deleted on the host,    *)
(* and the commit the link has inspected.                                  *)
FinishLink(l) ==
    LET got == {s \in autoSyncComposePaths(lrow[l]) \cap remote[l] :
                  s \in disk \/ s \notin synced[l]}
    IN /\ lcycle[l].step \in {"seen", "registered"} /\ ~lcycle[l].moved
       /\ disk' = disk \cup got
       /\ synced' = [synced EXCEPT ![l] = @ \cup got]
       /\ lrow' = [lrow EXCEPT ![l].last = TRUE]
       /\ lcycle' = [lcycle EXCEPT ![l] = NoCycle]
       /\ UNCHANGED <<lstatus, remote, copy, inspected, blurred, overtaken, lsteps>>

(* The cycle fails, waits for a decision, or finds that the branch moved.  *)
AbandonLink(l) ==
    /\ lcycle[l].step \in {"scan", "seen", "registered"}
    /\ lcycle' = [lcycle EXCEPT ![l] = NoCycle]
    /\ UNCHANGED <<lrow, lstatus, disk, remote, synced, copy, inspected, blurred,
                   overtaken, lsteps>>

(* A Compose file appears or disappears on the host.                       *)
ChangeDisk(s) ==
    /\ Act
    /\ disk' = IF s \in disk THEN disk \ {s} ELSE disk \cup {s}
    /\ UNCHANGED <<lrow, lstatus, remote, synced, copy, lcycle, inspected, blurred,
                   overtaken>>

(* A commit adds or removes a Compose file: the last commit a link has     *)
(* inspected is no longer the head.                                        *)
ChangeRemote(l, s) ==
    /\ Act /\ s \in Below(l)
    /\ remote' = [remote EXCEPT ![l] = IF s \in @ THEN @ \ {s} ELSE @ \cup {s}]
    /\ inspected' = [inspected EXCEPT ![l] = {}]
    /\ lrow' = [lrow EXCEPT ![l].last = FALSE]
    /\ copy' = [k \in RowHolders |->
         IF copy[k].link = l THEN [copy[k] EXCEPT !.row.last = FALSE] ELSE copy[k]]
    /\ lcycle' = [lcycle EXCEPT ![l].row.last = FALSE,
                              ![l].moved = lcycle[l].step \in {"seen", "registered"}]
    /\ blurred' = IF LinkFree(l) THEN blurred \ {l} ELSE blurred
    /\ UNCHANGED <<lstatus, disk, synced, overtaken>>

(* A restart: an initial synchronization it cut short is an error, and     *)
(* InitializeGitStackStatuses makes the status rows follow the links.      *)
MarkInterruptedInitialSyncs ==
    /\ Act
    /\ lrow' = [l \in GitLinkNames |->
         IF lrow[l].live = "live" /\ lrow[l].first = "checking"
         THEN [lrow[l] EXCEPT !.first = "open"] ELSE lrow[l]]
    /\ copy' = [k \in RowHolders |-> NoCopy]
    /\ lcycle' = [l \in GitLinkNames |-> NoCycle]
    /\ lstatus' = [l \in GitLinkNames |->
         IF lrow[l].live = "live"
         THEN ReconcileGitStackStatuses(lstatus[l], lrow'[l]) ELSE lstatus[l]]
    /\ UNCHANGED <<disk, remote, synced, inspected, blurred, overtaken>>

LinksNext ==
    \/ LookUpBinding \/ AddBindingExclusions \/ MarkInterruptedInitialSyncs
    \/ refreshInitialCatalog
    \/ \E outcome \in {"open", "compared", "imported"} : initializeBinding(outcome)
    \/ \E s \in OuterStacks : ChangeDisk(s)
    \/ \E l \in GitLinkNames :
         \/ RefreshBindingComposeCatalog(l) \/ UpdateBindingPolicy(l)
         \/ ReadBindingPolicy(l) \/ UnlinkBinding(l)
         \/ BeginLink(l) \/ SkipLink(l) \/ InspectLink(l) \/ FinishLink(l)
         \/ AbandonLink(l)
         \/ \E found \in SUBSET Below(l) : registerDiscoveredDeploymentTargets(l, found)
         \/ \E forget \in BOOLEAN : DeleteBinding(l, forget)
         \/ \E mode \in {"all", "selected"}, sel \in SUBSET Below(l) :
              \/ CreateBinding(l, mode, sel)
              \/ UpdateBindingComposeSelection(l, mode, sel)
              \/ UpdateBindingAutomation(l, TRUE, mode, sel, FALSE, FALSE, {})
              \/ \E fresh \in BOOLEAN, targets \in SUBSET Below(l) :
                   UpdateBindingAutomation(l, TRUE, mode, sel, TRUE, fresh, targets)
         \/ UpdateBindingAutomation(l, FALSE, "all", {}, FALSE, FALSE, {})
         \/ \E s \in Below(l) :
              \/ EnableGitStackSynchronization(l, s)
              \/ MarkComposeChange(l, s) \/ ChangeRemote(l, s)

LinksSpec == LinksInit /\ [][LinksNext]_linkVars
-----------------------------------------------------------------------------
LinksTypeOK ==
    /\ \A l \in GitLinkNames :
         LET r == lrow[l]
         IN /\ r.live \in {"none", "live", "archived"}
            /\ {r.catalog, r.sel, r.asel, r.targets, remote[l], synced[l]}
                 \subseteq SUBSET Below(l)
            /\ {r.mode, r.amode} \subseteq {"all", "selected"}
            /\ {r.sync, r.deploy, r.fresh, r.last} \subseteq BOOLEAN
            /\ \A s \in OuterStacks : lstatus[l][s] \in
                 {"none", "pending", "up_to_date", "local_changes",
                  "locally_deleted", "remote_changes"}
    /\ disk \subseteq OuterStacks
    /\ \A k \in RowHolders :
         copy[k].stage \in {"none", "read", "looked", "unlinked"}

(* A link that was unlinked does not come back because something that held *)
(* its row in memory saves it (SaveBinding looks for deleted_at): it is    *)
(* live again only by being created.  Excepted is what SaveBinding cannot  *)
(* see: an unlinking between its look and its write, and a row that was    *)
(* deleted from the table since it was read.                               *)
NotResurrected ==
    [][lrow' # lrow => \A l \in GitLinkNames :
         lrow[l].live # "live" /\ lrow'[l].live = "live" =>
            \/ ~OwnershipHeld /\ OwnershipHeld' /\ copy'["create"].link = l
            \/ \E k \in RowHolders :
                 /\ copy[k].link = l
                 /\ copy[k].stage = "unlinked" \/ copy[k].gone]_linkVars

(* The cheap commit shortcut never hides a stack: when the link believes   *)
(* it has inspected the head, every stack it polls was in a scan of it.    *)
(* Excepted, until the branch moves, is a link that was unlinked and came  *)
(* back with the commit of its former life, which RestoreBinding keeps,    *)
(* and one whose row an unlocked save replaced in the course of a cycle.   *)
ShortcutCoversTargets ==
    \A l \in GitLinkNames :
        lrow[l].live = "live" /\ lrow[l].sync /\ lrow[l].last /\ l \notin blurred =>
            autoSyncComposePaths(lrow[l]) \subseteq inspected[l]

(* What a link may deploy it polls, what it polls is selected, and what is *)
(* selected is in its catalog, however the catalog and the choices change; *)
(* and a stack shown as deploying is shown as selected and polled.         *)
(* Excepted is a link that came back from an unlinking whose disabling of  *)
(* the automation an unlocked save undid.                                  *)
AuthorityBounded ==
    \A l \in GitLinkNames :
        LET r == lrow[l]
            views == ListGitStackStatusViews(l)
        IN r.live = "live" /\ l \notin overtaken =>
             /\ r.deploy => r.targets \subseteq autoSyncComposePaths(r)
             /\ selectedComposePaths(r) \subseteq r.catalog
             /\ \A s \in DOMAIN views :
                  views[s].deploys => views[s].polled /\ views[s].state # "unselected"

(* A link believes of its head and of its authority only what is so.       *)
LinksCoherent == ShortcutCoversTargets /\ AuthorityBounded
=============================================================================
