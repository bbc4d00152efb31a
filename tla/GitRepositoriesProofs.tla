------------------------ MODULE GitRepositoriesProofs ------------------------
(***************************************************************************)
(* Proofs about Git repositories and their links: what a link polls        *)
(* (GitLinks), the credential (GitRepository), what an import replaces     *)
(* (GitHistory), the pushes webhooks announce (GitWebhook) and             *)
(* provisioning (GitProvision).  Each part is about one module and uses    *)
(* nothing of the others.                                                  *)
(***************************************************************************)
EXTENDS GitLinks, GitRepository, GitHistory, GitWebhook, GitProvision,
        SequenceTheorems, TLAPS

-----------------------------------------------------------------------------
(***************************************************************************)
(* Proofs about the Folder Link rows (GitLinks).                           *)
(***************************************************************************)

LinkStates == {"none", "pending", "up_to_date", "local_changes", "locally_deleted",
               "remote_changes"}

(* The rows a link can have.                                               *)
LinkRow(l) ==
    [live : {"none", "live", "archived"}, catalog : SUBSET Below(l),
     mode : {"all", "selected"}, sel : SUBSET Below(l),
     amode : {"all", "selected"}, asel : SUBSET Below(l),
     sync : BOOLEAN, deploy : BOOLEAN, fresh : BOOLEAN,
     targets : SUBSET Below(l), last : BOOLEAN,
     first : {"none", "checking", "open", "done"}]

LinkCopy == [link : GitLinkNames, row : LinkRow("outer"), gone : BOOLEAN,
             stage : {"none", "read", "looked", "unlinked"}]
LinkCycle == [step : {"idle", "scan", "seen", "registered", "unlink", "forget"},
              row : LinkRow("outer"), moved : BOOLEAN]

(* A row of the link l, given what was inspected (i), and the links that   *)
(* are blurred (b) and overtaken (o): what it selects is catalogued, what  *)
(* it may deploy it polls, and its shortcut covers what it polls.          *)
SoundRow(l, r, i, b, o) ==
    /\ r \in LinkRow(l)
    /\ selectedComposePaths(r) \subseteq r.catalog
    /\ r.deploy /\ l \notin o => r.targets \subseteq autoSyncComposePaths(r)
    /\ r.last /\ l \notin b => autoSyncComposePaths(r) \subseteq i[l]

(* The stored row: one that is not live, or is about to be unlinked, does  *)
(* not deploy.                                                             *)
StoredOK(l, r, c, i, b, o) ==
    /\ SoundRow(l, r, i, b, o)
    /\ r.live # "live" \/ c.step \in {"unlink", "forget"} => ~r.deploy \/ l \in o

(* A copy held without the lock, beside the stored row r of its link.      *)
CopyOK(k, c, r, i, b, o) ==
    /\ c \in LinkCopy /\ SoundRow(c.link, c.row, i, b, o)
    /\ c.stage # "none" => c.row.live = "live" /\ (c.gone \/ r.live # "none")
    /\ c.stage = "looked" => c.gone \/ r.live = "live"
    /\ k = "create" /\ c.row.last => c.link \in b

(* A cycle beside the stored row of its link: they poll the same stacks,   *)
(* and those were scanned once the cycle has looked.                       *)
CycleOK(l, c, r, i, b, o) ==
    /\ c \in LinkCycle /\ SoundRow(l, c.row, i, b, o)
    /\ c.step # "idle" => r.live = "live"
    /\ c.step \in {"scan", "seen", "registered"} =>
         /\ c.row.live = "live"
         /\ l \notin b => autoSyncComposePaths(c.row) = autoSyncComposePaths(r)
    /\ c.step \in {"seen", "registered"} /\ ~c.moved /\ l \notin b =>
         autoSyncComposePaths(r) \subseteq i[l]
    /\ c.moved => ~c.row.last

LinkFolders ==
    /\ disk \subseteq OuterStacks
    /\ remote = [l \in GitLinkNames |-> remote[l]]
    /\ synced = [l \in GitLinkNames |-> synced[l]]
    /\ \A l \in GitLinkNames : remote[l] \subseteq Below(l) /\ synced[l] \subseteq Below(l)
    /\ lstatus \in [GitLinkNames -> [OuterStacks -> LinkStates]]

LinkShapes ==
    /\ lrow = [l \in GitLinkNames |-> lrow[l]]
    /\ lcycle = [l \in GitLinkNames |-> lcycle[l]]
    /\ inspected = [l \in GitLinkNames |-> inspected[l]]
    /\ copy = [k \in RowHolders |-> copy[k]]

LinkRows ==
    /\ LinkShapes
    /\ \A l \in GitLinkNames :
         /\ StoredOK(l, lrow[l], lcycle[l], inspected, blurred, overtaken)
         /\ CycleOK(l, lcycle[l], lrow[l], inspected, blurred, overtaken)
    /\ \A k \in RowHolders :
         CopyOK(k, copy[k], lrow[copy[k].link], inspected, blurred, overtaken)

LinkInv == LinkFolders /\ LinkRows

(* The same of a row at this moment.                                       *)
RowBounded(l, r) ==
    /\ r.deploy /\ l \notin overtaken => r.targets \subseteq autoSyncComposePaths(r)
    /\ selectedComposePaths(r) \subseteq r.catalog

RowCovered(l, r) ==
    r.last /\ l \notin blurred => autoSyncComposePaths(r) \subseteq inspected[l]

RowSound(l, r) == RowBounded(l, r) /\ RowCovered(l, r)
-----------------------------------------------------------------------------
(* The operators the rows are built with.                                  *)

LEMMA BelowOuter ==
    ASSUME NEW l \in GitLinkNames PROVE Below(l) \subseteq OuterStacks
BY GitLinksAssumption DEF Below

LEMMA AutoWithinSelected ==
    ASSUME NEW r PROVE autoSyncComposePaths(r) \subseteq selectedComposePaths(r)
BY DEF autoSyncComposePaths

LEMMA LinkRowOuter ==
    ASSUME NEW l \in GitLinkNames PROVE LinkRow(l) \subseteq LinkRow("outer")
<1>1. Below(l) \subseteq Below("outer") BY GitLinksAssumption DEF Below, GitLinkNames
<1> QED BY <1>1 DEF LinkRow

LEMMA DiscoveredBelow ==
    ASSUME LinkFolders, NEW l \in GitLinkNames PROVE Discovered(l) \subseteq Below(l)
BY DEF LinkFolders, Discovered

(* RefreshedRow: the selection and the polled stacks lose what is gone,    *)
(* and gain nothing.                                                       *)
LEMMA Refreshed ==
    ASSUME LinkFolders, NEW l \in GitLinkNames, NEW r \in LinkRow(l),
           selectedComposePaths(r) \subseteq r.catalog
    PROVE  LET n == RefreshedRow(l, r) IN
           /\ n \in LinkRow(l)
           /\ n.live = r.live /\ n.amode = r.amode /\ n.deploy = r.deploy
           /\ n.last = r.last /\ n.fresh = r.fresh
           /\ n.catalog = Discovered(l)
           /\ selectedComposePaths(n) = selectedComposePaths(r) \cap Discovered(l)
           /\ autoSyncComposePaths(n) = autoSyncComposePaths(r) \cap Discovered(l)
           /\ n.targets = r.targets \cap Discovered(l) \/ (n = r /\ Discovered(l) = r.catalog)
<1> DEFINE found == Discovered(l)
           added == found \ r.catalog
           sel == selectedComposePaths(r) \cap found
           mode == IF added # {} THEN "selected" ELSE IF sel = found THEN "all" ELSE r.mode
           n == RefreshedRow(l, r)
<1>1. found \subseteq Below(l) BY DiscoveredBelow
<1>2. CASE found = r.catalog
  <2>1. n = r BY <1>2 DEF RefreshedRow
  <2> QED BY <2>1, <1>2, AutoWithinSelected
<1>3. CASE found # r.catalog
  <2>1. n = [r EXCEPT !.catalog = found, !.mode = mode, !.sel = sel,
                      !.asel = @ \cap found, !.targets = @ \cap found]
    BY <1>3 DEF RefreshedRow
  <2>2. mode \in {"all", "selected"} BY DEF LinkRow
  <2>3. sel \subseteq Below(l) BY <1>1
  <2>a. r.asel \cap found \in SUBSET Below(l) /\ r.targets \cap found \in SUBSET Below(l)
    BY <1>1
  <2> HIDE DEF mode, sel, n, found
  <2>4. /\ n \in LinkRow(l) /\ n.live = r.live /\ n.amode = r.amode /\ n.deploy = r.deploy
        /\ n.last = r.last /\ n.fresh = r.fresh /\ n.catalog = found
        /\ n.mode = mode /\ n.sel = sel /\ n.asel = r.asel \cap found
        /\ n.targets = r.targets \cap found
    BY <1>1, <2>1, <2>2, <2>3, <2>a DEF LinkRow
  <2>5. selectedComposePaths(n) = sel
    <3>1. CASE mode = "selected" BY <2>4, <3>1 DEF selectedComposePaths
    <3>2. CASE mode = "all"
      <4>1. selectedComposePaths(n) = found BY <2>4, <3>2 DEF selectedComposePaths
      <4>2. CASE sel = found BY <4>1, <4>2
      <4>3. CASE sel # found
        <5>1. added = {} /\ r.mode = "all" BY <3>2, <4>3 DEF mode
        <5>2. found \subseteq r.catalog BY <5>1 DEF added, found
        <5> QED BY <5>1, <5>2, <4>3 DEF sel, selectedComposePaths
      <4> QED BY <4>2, <4>3
    <3> QED BY <2>2, <3>1, <3>2
  <2>6. autoSyncComposePaths(n) = autoSyncComposePaths(r) \cap found
    BY <2>4, <2>5 DEF autoSyncComposePaths, sel, LinkRow
  <2> QED BY <2>4, <2>5, <2>6 DEF n, sel, found
<1> QED BY <1>2, <1>3

(* KeepShortcut: a kept shortcut covers the same stacks.                   *)
LEMMA KeptShortcut ==
    ASSUME NEW l \in GitLinkNames, NEW old \in LinkRow(l), NEW new \in LinkRow(l),
           RowCovered(l, old), RowBounded(l, new), new.last = old.last
    PROVE  LET k == KeepShortcut(old, new) IN
           /\ k \in LinkRow(l) /\ RowSound(l, k) /\ k.live = new.live
           /\ k.catalog = new.catalog /\ (k.last => old.last)
<1> DEFINE same == autoSyncComposePaths(old) = autoSyncComposePaths(new)
           k == KeepShortcut(old, new)
<1>1. k = [new EXCEPT !.last = new.last /\ same] BY DEF KeepShortcut
<1>2. (new.last /\ same) \in BOOLEAN BY DEF LinkRow
<1> DEFINE last == new.last /\ same
<1>3. last \in BOOLEAN /\ (last => new.last /\ same) BY <1>2
<1>4. k = [new EXCEPT !.last = last] BY <1>1
<1> HIDE DEF last, k, same
<1>5. /\ k \in LinkRow(l) /\ k.live = new.live /\ k.catalog = new.catalog /\ k.last = last
      /\ k.mode = new.mode /\ k.sel = new.sel /\ k.amode = new.amode /\ k.asel = new.asel
      /\ k.deploy = new.deploy /\ k.targets = new.targets
  BY <1>3, <1>4 DEF LinkRow
<1>6. selectedComposePaths(k) = selectedComposePaths(new) BY <1>5 DEF selectedComposePaths
<1>7. autoSyncComposePaths(k) = autoSyncComposePaths(new)
  BY <1>5, <1>6 DEF autoSyncComposePaths
<1>8. RowBounded(l, k) BY <1>5, <1>6, <1>7 DEF RowBounded
<1>9. RowCovered(l, k) BY <1>3, <1>5, <1>7 DEF RowCovered, same
<1> QED BY <1>3, <1>5, <1>8, <1>9 DEF RowSound, k

LEMMA ReconciledStates ==
    ASSUME NEW states \in [OuterStacks -> LinkStates], NEW r
    PROVE  ReconcileGitStackStatuses(states, r) \in [OuterStacks -> LinkStates]
BY DEF ReconcileGitStackStatuses, LinkStates

LEMMA MissingStates ==
    ASSUME NEW l, NEW states \in [OuterStacks -> LinkStates], NEW r
    PROVE  recordMissingLocalComposeStatuses(l, states, r) \in [OuterStacks -> LinkStates]
BY DEF recordMissingLocalComposeStatuses, LinkStates

-----------------------------------------------------------------------------
(* Rows, copies and cycles are judged by what was inspected and by the     *)
(* links that are blurred or overtaken.  While these only grow, what was   *)
(* sound stays sound.                                                      *)

LEMMA RowSoundIs ==
    ASSUME NEW l, NEW r \in LinkRow(l)
    PROVE  RowSound(l, r) <=> SoundRow(l, r, inspected, blurred, overtaken)
BY DEF RowSound, RowBounded, RowCovered, SoundRow

LEMMA SoundGrows ==
    ASSUME NEW l, NEW r, NEW i, NEW b, NEW o, NEW i2, NEW b2, NEW o2,
           SoundRow(l, r, i, b, o), i[l] \subseteq i2[l], b \subseteq b2, o \subseteq o2
    PROVE  SoundRow(l, r, i2, b2, o2)
BY DEF SoundRow

LEMMA StoredGrows ==
    ASSUME NEW l, NEW r, NEW c, NEW i, NEW b, NEW o, NEW i2, NEW b2, NEW o2,
           StoredOK(l, r, c, i, b, o), i[l] \subseteq i2[l], b \subseteq b2, o \subseteq o2
    PROVE  StoredOK(l, r, c, i2, b2, o2)
BY SoundGrows DEF StoredOK

LEMMA CopyGrows ==
    ASSUME NEW k, NEW c, NEW r, NEW r2, NEW i, NEW b, NEW o, NEW i2, NEW b2, NEW o2,
           CopyOK(k, c, r, i, b, o), r.live # "none" => r2.live # "none",
           r.live = "live" => r2.live = "live",
           i[c.link] \subseteq i2[c.link], b \subseteq b2, o \subseteq o2
    PROVE  CopyOK(k, c, r2, i2, b2, o2)
<1>1. SoundRow(c.link, c.row, i2, b2, o2) BY SoundGrows DEF CopyOK
<1> QED BY <1>1 DEF CopyOK

LEMMA CycleGrows ==
    ASSUME NEW l, NEW c, NEW r, NEW i, NEW b, NEW o, NEW i2, NEW b2, NEW o2,
           CycleOK(l, c, r, i, b, o), i[l] \subseteq i2[l], b \subseteq b2, o \subseteq o2
    PROVE  CycleOK(l, c, r, i2, b2, o2)
<1>1. SoundRow(l, c.row, i2, b2, o2) BY SoundGrows DEF CycleOK
<1> QED BY <1>1 DEF CycleOK

(* A row that makes the same choices is as sound.                          *)
LEMMA SameChoices ==
    ASSUME NEW l, NEW r, NEW n \in LinkRow(l), NEW i, NEW b, NEW o, SoundRow(l, r, i, b, o),
           n.catalog = r.catalog, n.mode = r.mode, n.sel = r.sel, n.amode = r.amode,
           n.asel = r.asel, n.targets = r.targets, n.deploy => r.deploy \/ l \in o,
           n.last => r.last \/ l \in b \/ autoSyncComposePaths(r) \subseteq i[l]
    PROVE  SoundRow(l, n, i, b, o) /\ autoSyncComposePaths(n) = autoSyncComposePaths(r)
<1>1. selectedComposePaths(n) = selectedComposePaths(r) BY DEF selectedComposePaths
<1>2. autoSyncComposePaths(n) = autoSyncComposePaths(r) BY <1>1 DEF autoSyncComposePaths
<1> QED BY <1>1, <1>2 DEF SoundRow

(* The history does not shrink.                                            *)
Grows ==
    /\ inspected' = [l \in GitLinkNames |-> inspected'[l]]
    /\ \A l \in GitLinkNames : inspected[l] \subseteq inspected'[l]
    /\ blurred \subseteq blurred' /\ overtaken \subseteq overtaken'

(* A copy stays, while the row r that the link l gets is there or live if  *)
(* the link was, or it is sound after the step.                            *)
CopiesFollow(l, r) ==
    /\ copy' = [k \in RowHolders |-> copy'[k]]
    /\ \A k \in RowHolders :
          \/ /\ copy'[k] = copy[k]
             /\ copy[k].link = l => /\ lrow[l].live # "none" => r.live # "none"
                                    /\ lrow[l].live = "live" => r.live = "live"
          \/ CopyOK(k, copy'[k], lrow'[copy'[k].link], inspected', blurred', overtaken')

(* A step in the row and the cycle of one link.                            *)
LEMMA OneLink ==
    ASSUME LinkRows, Grows, NEW l \in GitLinkNames, NEW r, NEW c,
           lrow' = [lrow EXCEPT ![l] = r], lcycle' = [lcycle EXCEPT ![l] = c],
           CopiesFollow(l, r),
           StoredOK(l, r, c, inspected', blurred', overtaken'),
           CycleOK(l, c, r, inspected', blurred', overtaken')
    PROVE  LinkRows'
<1>1. lrow'[l] = r /\ lcycle'[l] = c BY DEF LinkRows, LinkShapes
<1>2. \A m \in GitLinkNames \ {l} : lrow'[m] = lrow[m] /\ lcycle'[m] = lcycle[m]
  BY DEF LinkRows, LinkShapes
<1>3. LinkShapes'
  <2>1. lrow' = [m \in GitLinkNames |-> lrow'[m]] BY DEF LinkRows, LinkShapes
  <2>2. lcycle' = [m \in GitLinkNames |-> lcycle'[m]] BY DEF LinkRows, LinkShapes
  <2> QED BY <2>1, <2>2 DEF LinkShapes, Grows, CopiesFollow
<1>4. ASSUME NEW m \in GitLinkNames
      PROVE /\ StoredOK(m, lrow'[m], lcycle'[m], inspected', blurred', overtaken')
            /\ CycleOK(m, lcycle'[m], lrow'[m], inspected', blurred', overtaken')
  <2>1. CASE m = l BY <1>1, <2>1
  <2>2. CASE m # l
    <3>1. lrow'[m] = lrow[m] /\ lcycle'[m] = lcycle[m] BY <1>2, <2>2
    <3>2. /\ StoredOK(m, lrow[m], lcycle[m], inspected, blurred, overtaken)
          /\ CycleOK(m, lcycle[m], lrow[m], inspected, blurred, overtaken)
      BY DEF LinkRows
    <3>3. /\ StoredOK(m, lrow[m], lcycle[m], inspected', blurred', overtaken')
          /\ CycleOK(m, lcycle[m], lrow[m], inspected', blurred', overtaken')
      BY <3>2, StoredGrows, CycleGrows DEF Grows
    <3> QED BY <3>1, <3>3
  <2> QED BY <2>1, <2>2
<1>5. ASSUME NEW k \in RowHolders,
             copy'[k] = copy[k],
             copy[k].link = l => /\ lrow[l].live # "none" => r.live # "none"
                                 /\ lrow[l].live = "live" => r.live = "live"
      PROVE CopyOK(k, copy'[k], lrow'[copy'[k].link], inspected', blurred', overtaken')
  <2> DEFINE m == copy[k].link
  <2>1. CopyOK(k, copy[k], lrow[m], inspected, blurred, overtaken) BY DEF LinkRows
  <2>2. m \in GitLinkNames BY <2>1 DEF CopyOK, LinkCopy
  <2>3. /\ lrow[m].live # "none" => lrow'[m].live # "none"
        /\ lrow[m].live = "live" => lrow'[m].live = "live"
    BY <1>1, <1>2, <1>5, <2>2
  <2>4. inspected[m] \subseteq inspected'[m] BY <2>2 DEF Grows
  <2> DEFINE x == lrow[m]
             y == lrow'[m]
             z == copy[k]
  <2> HIDE DEF m, x, y, z
  <2>5. CopyOK(k, z, y, inspected', blurred', overtaken')
    BY <2>1, <2>3, <2>4, CopyGrows DEF Grows, m, x, y, z
  <2> QED BY <1>5, <2>5 DEF m, y, z
<1>6. \A k \in RowHolders :
        CopyOK(k, copy'[k], lrow'[copy'[k].link], inspected', blurred', overtaken')
  BY <1>5 DEF CopiesFollow
<1> QED BY <1>3, <1>4, <1>6 DEF LinkRows

(* A step in one copy.                                                     *)
LEMMA OneCopy ==
    ASSUME LinkRows, NEW k \in RowHolders, NEW c, copy' = [copy EXCEPT ![k] = c],
           UNCHANGED <<lrow, lcycle, inspected, blurred, overtaken>>,
           CopyOK(k, c, lrow[c.link], inspected, blurred, overtaken)
    PROVE  LinkRows'
<1>1. copy'[k] = c /\ \A j \in RowHolders \ {k} : copy'[j] = copy[j]
  BY DEF LinkRows, LinkShapes
<1>2. LinkShapes' BY DEF LinkRows, LinkShapes
<1>3. ASSUME NEW j \in RowHolders
      PROVE CopyOK(j, copy'[j], lrow[copy'[j].link], inspected, blurred, overtaken)
  <2>1. CASE j = k BY <1>1, <2>1
  <2>2. CASE j # k BY <1>1, <2>2 DEF LinkRows
  <2> QED BY <2>1, <2>2
<1> QED BY <1>2, <1>3 DEF LinkRows

LEMMA NothingGrows ==
    ASSUME LinkRows, UNCHANGED <<inspected, blurred, overtaken>> PROVE Grows
BY DEF LinkRows, LinkShapes, Grows

(* An operation under the lock saves a row built from the live one: enough *)
(* that the new row is sound.                                              *)
LEMMA SavedRow ==
    ASSUME LinkInv, NEW l \in GitLinkNames, NEW r \in LinkRow(l), lrow[l].live = "live",
           LinkFree(l), SaveBinding(l, r), r.live = "live", RowSound(l, r),
           UNCHANGED <<copy, lcycle, inspected, blurred, overtaken>>
    PROVE  LinkRows'
<1> DEFINE c == lcycle[l]
<1>1. lrow' = [lrow EXCEPT ![l] = r] BY DEF SaveBinding
<1>2. lcycle' = [lcycle EXCEPT ![l] = c] BY DEF LinkInv, LinkRows, LinkShapes
<1>3. c.step = "idle" BY DEF LinkFree
<1>4. SoundRow(l, r, inspected, blurred, overtaken) BY RowSoundIs
<1>5. CycleOK(l, c, lrow[l], inspected, blurred, overtaken) BY DEF LinkInv, LinkRows
<1> HIDE DEF c
<1>6. StoredOK(l, r, c, inspected, blurred, overtaken) BY <1>3, <1>4 DEF StoredOK
<1>7. CycleOK(l, c, r, inspected, blurred, overtaken) BY <1>3, <1>5 DEF CycleOK
<1>8. Grows BY NothingGrows DEF LinkInv
<1>9. LinkRows BY DEF LinkInv
<1>10. CopiesFollow(l, r) BY DEF CopiesFollow, LinkInv, LinkRows, LinkShapes
<1>11. /\ StoredOK(l, r, c, inspected', blurred', overtaken')
       /\ CycleOK(l, c, r, inspected', blurred', overtaken')
  BY <1>6, <1>7
<1> QED BY <1>1, <1>2, <1>8, <1>9, <1>10, <1>11, OneLink

(* The host, the repositories, the baselines and the status rows.          *)

(* The host, the repositories, the baselines and the status rows.          *)
LEMMA SavedFolders ==
    ASSUME LinkFolders, NEW l \in GitLinkNames, NEW states \in [OuterStacks -> LinkStates],
           lstatus' = [lstatus EXCEPT ![l] = states], disk' \subseteq OuterStacks,
           UNCHANGED remote,
           NEW base \in SUBSET Below(l), synced' = [synced EXCEPT ![l] = base]
    PROVE  LinkFolders'
BY DEF LinkFolders

LEMMA KeptFolders ==
    ASSUME LinkFolders, UNCHANGED <<lstatus, disk, remote, synced>> PROVE LinkFolders'
BY DEF LinkFolders

LEMMA StatusFolders ==
    ASSUME LinkFolders, NEW l \in GitLinkNames, NEW states \in [OuterStacks -> LinkStates],
           lstatus' = [lstatus EXCEPT ![l] = states], UNCHANGED <<disk, remote, synced>>
    PROVE  LinkFolders'
BY DEF LinkFolders

LEMMA NoRowShape ==
    ASSUME NEW l \in GitLinkNames, NEW i, NEW b, NEW o
    PROVE  /\ NoRow.live = "none" /\ NoRow.deploy = FALSE /\ NoRow.last = FALSE
           /\ SoundRow(l, NoRow, i, b, o)
<1>1. /\ NoRow.live = "none" /\ NoRow.deploy = FALSE /\ NoRow.last = FALSE
      /\ NoRow.mode = "all" /\ NoRow.catalog = {}
  BY DEF NoRow
<1>2. NoRow \in LinkRow(l) BY DEF NoRow, LinkRow
<1>3. selectedComposePaths(NoRow) \subseteq NoRow.catalog BY <1>1 DEF selectedComposePaths
<1> QED BY <1>1, <1>2, <1>3 DEF SoundRow

LEMMA NoCopyOK ==
    ASSUME NEW k, NEW r, NEW i, NEW b, NEW o PROVE CopyOK(k, NoCopy, r, i, b, o)
<1>1. "outer" \in GitLinkNames BY DEF GitLinkNames
<1>2. SoundRow("outer", NoRow, i, b, o) /\ NoRow.last = FALSE BY <1>1, NoRowShape
<1>3. NoRow \in LinkRow("outer") BY <1>2 DEF SoundRow
<1> HIDE DEF NoRow
<1>4. /\ NoCopy.link = "outer" /\ NoCopy.row = NoRow /\ NoCopy.stage = "none"
      /\ NoCopy.gone = FALSE /\ NoCopy \in LinkCopy
  BY <1>1, <1>3 DEF NoCopy, LinkCopy
<1> QED BY <1>2, <1>4 DEF CopyOK

LEMMA NoCycleOK ==
    ASSUME NEW l \in GitLinkNames, NEW r, NEW i, NEW b, NEW o
    PROVE  CycleOK(l, NoCycle, r, i, b, o) /\ NoCycle.step = "idle"
<1>1. "outer" \in GitLinkNames BY DEF GitLinkNames
<1>2. SoundRow(l, NoRow, i, b, o) /\ NoRow \in LinkRow("outer")
  BY <1>1, NoRowShape DEF SoundRow
<1> HIDE DEF NoRow
<1>3. /\ NoCycle.step = "idle" /\ NoCycle.row = NoRow /\ NoCycle.moved = FALSE
      /\ NoCycle \in LinkCycle
  BY <1>2 DEF NoCycle, LinkCycle
<1> QED BY <1>2, <1>3 DEF CycleOK
-----------------------------------------------------------------------------
LEMMA LinkInitInv == LinksInit => LinkInv
<1> SUFFICES ASSUME LinksInit PROVE LinkInv OBVIOUS
<1>1. LinkFolders BY DEF LinksInit, LinkFolders, LinkStates
<1>2. /\ \A l \in GitLinkNames : lrow[l] = NoRow /\ lcycle[l] = NoCycle
      /\ \A k \in RowHolders : copy[k] = NoCopy
  BY DEF LinksInit
<1>3. LinkShapes BY DEF LinksInit, LinkShapes
<1>4. ASSUME NEW l \in GitLinkNames
      PROVE /\ StoredOK(l, NoRow, NoCycle, inspected, blurred, overtaken)
            /\ CycleOK(l, NoCycle, NoRow, inspected, blurred, overtaken)
  BY NoRowShape, NoCycleOK DEF StoredOK
<1>5. LinkRows BY <1>2, <1>3, <1>4, NoCopyOK DEF LinkRows
<1> QED BY <1>1, <1>5 DEF LinkInv

(* The row of a live link, and what refreshing its catalog gives.          *)
LEMMA LiveRow ==
    ASSUME LinkInv, NEW l \in GitLinkNames, lrow[l].live = "live"
    PROVE  /\ lrow[l] \in LinkRow(l) /\ RowSound(l, lrow[l])
           /\ LET n == RefreshedRow(l, lrow[l]) IN
                /\ n \in LinkRow(l) /\ n.live = "live" /\ n.last = lrow[l].last
                /\ n.amode = lrow[l].amode
                /\ RowSound(l, n) /\ n.catalog = Discovered(l)
<1>1. lrow[l] \in LinkRow(l) /\ RowSound(l, lrow[l])
  BY RowSoundIs DEF LinkInv, LinkRows, StoredOK, SoundRow
<1> DEFINE n == RefreshedRow(l, lrow[l])
<1>2. /\ n \in LinkRow(l) /\ n.live = "live" /\ n.last = lrow[l].last
      /\ n.deploy = lrow[l].deploy /\ n.amode = lrow[l].amode /\ n.catalog = Discovered(l)
      /\ selectedComposePaths(n) = selectedComposePaths(lrow[l]) \cap Discovered(l)
      /\ autoSyncComposePaths(n) = autoSyncComposePaths(lrow[l]) \cap Discovered(l)
      /\ n.targets = lrow[l].targets \cap Discovered(l)
           \/ (n = lrow[l] /\ Discovered(l) = lrow[l].catalog)
  BY <1>1, Refreshed DEF LinkInv, RowSound, RowBounded
<1> HIDE DEF n
<1>3. RowSound(l, n)
  BY <1>1, <1>2 DEF RowSound, RowBounded, RowCovered
<1> QED BY <1>1, <1>2, <1>3 DEF n

LEMMA RefreshedBaseline ==
    ASSUME LinkFolders, NEW l \in GitLinkNames, NEW r,
           NEW states \in [OuterStacks -> LinkStates],
           refreshBindingComposeCatalogLocked(l, r),
           lstatus' = [lstatus EXCEPT ![l] = states], UNCHANGED <<disk, remote>>
    PROVE  LinkFolders'
<1> DEFINE base == synced[l] \ (r.catalog \ Discovered(l))
<1>1. synced' = [synced EXCEPT ![l] = base]
  BY DEF refreshBindingComposeCatalogLocked, LinkFolders
<1>2. base \in SUBSET Below(l) /\ disk' \subseteq OuterStacks BY DEF LinkFolders
<1> HIDE DEF base
<1> QED BY <1>1, <1>2, SavedFolders

LEMMA LinkRefresh ==
    ASSUME LinkInv, NEW l \in GitLinkNames, RefreshBindingComposeCatalog(l) PROVE LinkInv'
<1> DEFINE r == RefreshedRow(l, lrow[l])
           first == IF r = lrow[l] THEN lstatus[l] ELSE ReconcileGitStackStatuses(lstatus[l], r)
           states == recordMissingLocalComposeStatuses(l, first, r)
<1>1. /\ lrow[l].live = "live" /\ LinkFree(l) /\ SaveBinding(l, r)
      /\ refreshBindingComposeCatalogLocked(l, lrow[l])
      /\ UNCHANGED <<disk, remote, copy, lcycle, inspected, blurred,
                     overtaken, lsteps>>
  BY DEF RefreshBindingComposeCatalog
<1>2. lstatus' = [lstatus EXCEPT ![l] = states]
  BY DEF RefreshBindingComposeCatalog, LinkInv, LinkFolders
<1>3. r \in LinkRow(l) /\ r.live = "live" /\ RowSound(l, r) BY <1>1, LiveRow
<1> HIDE DEF r
<1>4. LinkRows' BY <1>1, <1>3, SavedRow
<1>5. first \in [OuterStacks -> LinkStates]
  <2>1. lstatus[l] \in [OuterStacks -> LinkStates] BY DEF LinkInv, LinkFolders
  <2> QED BY <2>1, ReconciledStates
<1> HIDE DEF first
<1>6. states \in [OuterStacks -> LinkStates] BY <1>5, MissingStates
<1> HIDE DEF states
<1>7. LinkFolders' BY <1>1, <1>2, <1>6, RefreshedBaseline DEF LinkInv
<1> QED BY <1>4, <1>7 DEF LinkInv

LEMMA LinkMark ==
    ASSUME LinkInv, NEW l \in GitLinkNames, NEW s \in OuterStacks, MarkComposeChange(l, s)
    PROVE  LinkInv'
<1> DEFINE fresh == composeCatalogMayHaveChanged(l, s)
           r == IF fresh THEN RefreshedRow(l, lrow[l]) ELSE lrow[l]
           states == IF fresh
                     THEN recordMissingLocalComposeStatuses(l,
                            ReconcileGitStackStatuses(lstatus[l], r), r)
                     ELSE lstatus[l]
           mine == IF s \notin selectedComposePaths(r) \/ states[s] = "none" THEN states[s]
                   ELSE IF s \in disk THEN "local_changes" ELSE "locally_deleted"
           marked == [states EXCEPT ![s] = mine]
<1>1. /\ lrow[l].live = "live" /\ LinkFree(l) /\ SaveBinding(l, r)
      /\ IF fresh THEN refreshBindingComposeCatalogLocked(l, lrow[l]) ELSE UNCHANGED synced
      /\ UNCHANGED <<disk, remote, copy, lcycle, inspected, blurred,
                     overtaken>>
  BY DEF MarkComposeChange
<1>2. r \in LinkRow(l) /\ r.live = "live" /\ RowSound(l, r) BY <1>1, LiveRow
<1>3. lstatus[l] \in [OuterStacks -> LinkStates] BY DEF LinkInv, LinkFolders
<1>4. states \in [OuterStacks -> LinkStates]
  <2> HIDE DEF r
  <2>1. ReconcileGitStackStatuses(lstatus[l], r) \in [OuterStacks -> LinkStates]
    BY <1>3, ReconciledStates
  <2> QED BY <1>3, <2>1, MissingStates
<1>5. lstatus' = [lstatus EXCEPT ![l] =
         [states EXCEPT ![s] =
            IF s \notin selectedComposePaths(r) \/ @ = "none" THEN @
            ELSE IF s \in disk THEN "local_changes" ELSE "locally_deleted"]]
  BY DEF MarkComposeChange
<1> HIDE DEF fresh, r, states
<1>6. lstatus' = [lstatus EXCEPT ![l] = marked] BY <1>4, <1>5
<1>7. marked \in [OuterStacks -> LinkStates] BY <1>4 DEF LinkStates
<1>8. LinkRows' BY <1>1, <1>2, SavedRow
<1> HIDE DEF marked
<1>9. LinkFolders'
  <2>1. CASE fresh BY <1>1, <1>6, <1>7, <2>1, RefreshedBaseline DEF LinkInv
  <2>2. CASE ~fresh BY <1>1, <1>6, <1>7, <2>2, StatusFolders DEF LinkInv
  <2> QED BY <2>1, <2>2
<1> QED BY <1>8, <1>9 DEF LinkInv

LEMMA LinkPolicy ==
    ASSUME LinkInv, NEW l \in GitLinkNames, UpdateBindingPolicy(l) PROVE LinkInv'
<1> DEFINE r == [lrow[l] EXCEPT !.last = FALSE]
           states == [s \in OuterStacks |->
                        IF s \in selectedComposePaths(lrow[l]) /\ lstatus[l][s] # "none"
                        THEN "pending" ELSE lstatus[l][s]]
<1>1. /\ lrow[l].live = "live" /\ SaveBinding(l, r) /\ LinkFree(l)
      /\ UNCHANGED <<disk, remote, synced, copy, lcycle, inspected, blurred,
                     overtaken>>
  BY DEF UpdateBindingPolicy
<1>2. lstatus' = [lstatus EXCEPT ![l] = states]
  BY DEF UpdateBindingPolicy, LinkInv, LinkFolders
<1>3. lrow[l] \in LinkRow(l) /\ RowSound(l, lrow[l]) BY <1>1, LiveRow
<1>4. /\ r \in LinkRow(l) /\ r.live = "live" /\ r.last = FALSE /\ r.catalog = lrow[l].catalog
      /\ r.mode = lrow[l].mode /\ r.sel = lrow[l].sel /\ r.amode = lrow[l].amode
      /\ r.asel = lrow[l].asel /\ r.deploy = lrow[l].deploy /\ r.targets = lrow[l].targets
  BY <1>1, <1>3 DEF LinkRow
<1> HIDE DEF r
<1>5. selectedComposePaths(r) = selectedComposePaths(lrow[l])
  BY <1>4 DEF selectedComposePaths
<1>6. autoSyncComposePaths(r) = autoSyncComposePaths(lrow[l])
  BY <1>4, <1>5 DEF autoSyncComposePaths
<1>7. RowSound(l, r) BY <1>3, <1>4, <1>5, <1>6 DEF RowSound, RowBounded, RowCovered
<1>8. LinkRows' BY <1>1, <1>4, <1>7, SavedRow
<1>9. states \in [OuterStacks -> LinkStates] BY DEF LinkInv, LinkFolders, LinkStates
<1> HIDE DEF states
<1>10. LinkFolders' BY <1>1, <1>2, <1>9, StatusFolders DEF LinkInv
<1> QED BY <1>8, <1>10 DEF LinkInv

LEMMA LinkSelect ==
    ASSUME LinkInv, NEW l \in GitLinkNames, NEW asked \in {"all", "selected"},
           NEW sel \in SUBSET Below(l), UpdateBindingComposeSelection(l, asked, sel)
    PROVE  LinkInv'
<1> DEFINE old == lrow[l]
           r == RefreshedRow(l, old)
           mode == IF asked = "all" /\ r.catalog \ old.catalog # {} THEN "selected" ELSE asked
           deploy == r.targets \cap sel
           whole == [r EXCEPT !.mode = mode, !.sel = {}]
           some == [r EXCEPT !.mode = mode, !.sel = sel, !.targets = deploy,
                      !.asel = IF r.amode = "selected" THEN @ \cap sel ELSE @,
                      !.deploy = @ /\ (deploy # {} \/ r.fresh)]
           narrowed == IF mode = "all" THEN whole ELSE some
           states == ReconcileGitStackStatuses(recordMissingLocalComposeStatuses(l,
                       ReconcileGitStackStatuses(lstatus[l], r), r), narrowed)
<1>1. /\ old.live = "live" /\ LinkFree(l) /\ sel \subseteq r.catalog
      /\ SaveBinding(l, KeepShortcut(old, narrowed))
      /\ refreshBindingComposeCatalogLocked(l, old)
      /\ UNCHANGED <<disk, remote, copy, lcycle, inspected, blurred,
                     overtaken>>
  BY DEF UpdateBindingComposeSelection
<1>2. lstatus' = [lstatus EXCEPT ![l] = states]
  BY DEF UpdateBindingComposeSelection, LinkInv, LinkFolders
<1>3. /\ old \in LinkRow(l) /\ RowSound(l, old)
      /\ r \in LinkRow(l) /\ r.live = "live" /\ r.last = old.last /\ RowSound(l, r)
  BY <1>1, LiveRow
<1>4. mode \in {"all", "selected"} OBVIOUS
<1> HIDE DEF r, mode
<1>5. ASSUME mode = "all"
      PROVE whole \in LinkRow(l) /\ whole.live = "live" /\ whole.last = old.last
            /\ RowBounded(l, whole)
  <2>1. /\ whole \in LinkRow(l) /\ whole.live = "live" /\ whole.last = old.last
        /\ whole.mode = "all" /\ whole.catalog = r.catalog /\ whole.amode = r.amode
        /\ whole.asel = r.asel /\ whole.deploy = r.deploy /\ whole.targets = r.targets
    BY <1>3, <1>5 DEF LinkRow
  <2> HIDE DEF whole
  <2>2. selectedComposePaths(whole) = r.catalog BY <2>1 DEF selectedComposePaths
  <2>3. selectedComposePaths(r) \subseteq r.catalog BY <1>3 DEF RowSound, RowBounded
  <2>4. autoSyncComposePaths(r) \subseteq autoSyncComposePaths(whole)
    BY <2>1, <2>2, <2>3 DEF autoSyncComposePaths
  <2> QED BY <1>3, <2>1, <2>2, <2>4 DEF RowSound, RowBounded
<1>6. ASSUME mode # "all"
      PROVE some \in LinkRow(l) /\ some.live = "live" /\ some.last = old.last
            /\ RowBounded(l, some)
  <2> DEFINE keep == IF r.amode = "selected" THEN r.asel \cap sel ELSE r.asel
             go == r.deploy /\ (deploy # {} \/ r.fresh)
  <2>1. keep \in SUBSET Below(l) /\ deploy \in SUBSET Below(l) BY <1>3 DEF LinkRow
  <2>2. go \in BOOLEAN /\ (go => r.deploy) OBVIOUS
  <2>3. some = [r EXCEPT !.mode = mode, !.sel = sel, !.targets = deploy, !.asel = keep,
                  !.deploy = go]
    BY <1>3 DEF LinkRow
  <2>4. deploy \subseteq r.targets /\ deploy \subseteq sel OBVIOUS
  <2>5. r.amode = "selected" => keep = r.asel \cap sel OBVIOUS
  <2> HIDE DEF some, keep, go, deploy
  <2>6. /\ some \in LinkRow(l) /\ some.live = "live" /\ some.last = old.last
        /\ some.mode = mode /\ some.sel = sel /\ some.catalog = r.catalog
        /\ some.amode = r.amode /\ some.asel = keep /\ some.deploy = go
        /\ some.targets = deploy
    BY <1>3, <1>4, <2>1, <2>2, <2>3 DEF LinkRow
  <2>7. selectedComposePaths(some) = sel BY <1>6, <2>6 DEF selectedComposePaths
  <2>8. go /\ l \notin overtaken => deploy \subseteq autoSyncComposePaths(some)
    <3> SUFFICES ASSUME go, l \notin overtaken
                 PROVE deploy \subseteq autoSyncComposePaths(some)
      OBVIOUS
    <3>1. deploy \subseteq autoSyncComposePaths(r)
      BY <1>3, <2>2, <2>4 DEF RowSound, RowBounded
    <3>2. CASE r.amode = "all" BY <2>4, <2>6, <2>7, <3>2 DEF autoSyncComposePaths
    <3>3. CASE r.amode = "selected"
      BY <2>4, <2>5, <2>6, <2>7, <3>1, <3>3 DEF autoSyncComposePaths
    <3> QED BY <1>3, <3>2, <3>3 DEF LinkRow
  <2> QED BY <1>1, <2>6, <2>7, <2>8 DEF RowBounded
<1> HIDE DEF whole, some
<1>7. narrowed \in LinkRow(l) /\ narrowed.live = "live" /\ narrowed.last = old.last
      /\ RowBounded(l, narrowed)
  BY <1>5, <1>6
<1> HIDE DEF narrowed, old
<1> DEFINE k == KeepShortcut(old, narrowed)
<1>8. k \in LinkRow(l) /\ k.live = "live" /\ RowSound(l, k)
  BY <1>3, <1>7, KeptShortcut DEF RowSound
<1> HIDE DEF k
<1>9. LinkRows' BY <1>1, <1>8, SavedRow DEF k, old
<1>10. states \in [OuterStacks -> LinkStates]
  <2>1. lstatus[l] \in [OuterStacks -> LinkStates] BY DEF LinkInv, LinkFolders
  <2>2. ReconcileGitStackStatuses(lstatus[l], r) \in [OuterStacks -> LinkStates]
    BY <2>1, ReconciledStates
  <2> QED BY <2>2, MissingStates, ReconciledStates
<1> HIDE DEF states
<1>11. LinkFolders' BY <1>1, <1>2, <1>10, RefreshedBaseline DEF LinkInv
<1> QED BY <1>9, <1>11 DEF LinkInv

LEMMA LinkEnable ==
    ASSUME LinkInv, NEW l \in GitLinkNames, NEW s \in OuterStacks,
           EnableGitStackSynchronization(l, s)
    PROVE  LinkInv'
<1> DEFINE old == lrow[l]
           sel == selectedComposePaths(old) \cup {s}
           mode == IF sel = old.catalog THEN "all" ELSE "selected"
           r == [old EXCEPT !.sel = sel, !.mode = mode]
           mine == CASE s \in disk -> "local_changes"
                     [] s \notin disk /\ s \in synced[l] -> "locally_deleted"
                     [] OTHER -> "remote_changes"
           states == [ReconcileGitStackStatuses(lstatus[l], r) EXCEPT ![s] = mine]
<1>1. /\ old.live = "live" /\ LinkFree(l) /\ s \in old.catalog
      /\ SaveBinding(l, KeepShortcut(old, r))
      /\ UNCHANGED <<disk, remote, synced, copy, lcycle, inspected, blurred,
                     overtaken>>
  BY DEF EnableGitStackSynchronization
<1>2. lstatus' = [lstatus EXCEPT ![l] = states]
  BY DEF EnableGitStackSynchronization, LinkInv, LinkFolders
<1>3. old \in LinkRow(l) /\ RowSound(l, old) BY <1>1, LiveRow
<1> HIDE DEF old
<1>4. selectedComposePaths(old) \subseteq old.catalog BY <1>3 DEF RowSound, RowBounded
<1>5. sel \subseteq old.catalog /\ sel \in SUBSET Below(l)
  BY <1>1, <1>3, <1>4 DEF LinkRow
<1>6. mode \in {"all", "selected"} /\ (mode = "all" => sel = old.catalog) OBVIOUS
<1>7. selectedComposePaths(old) \subseteq sel OBVIOUS
<1> HIDE DEF sel, mode
<1>8. /\ r \in LinkRow(l) /\ r.live = "live" /\ r.last = old.last /\ r.sel = sel
      /\ r.mode = mode /\ r.catalog = old.catalog /\ r.amode = old.amode
      /\ r.asel = old.asel /\ r.deploy = old.deploy /\ r.targets = old.targets
  BY <1>1, <1>3, <1>5, <1>6 DEF LinkRow
<1> HIDE DEF r
<1>9. selectedComposePaths(r) = sel BY <1>6, <1>8 DEF selectedComposePaths
<1>10. autoSyncComposePaths(old) \subseteq autoSyncComposePaths(r)
  BY <1>7, <1>8, <1>9 DEF autoSyncComposePaths
<1>11. RowBounded(l, r) BY <1>3, <1>5, <1>8, <1>9, <1>10 DEF RowSound, RowBounded
<1> DEFINE k == KeepShortcut(old, r)
<1>12. k \in LinkRow(l) /\ k.live = "live" /\ RowSound(l, k)
  BY <1>3, <1>8, <1>11, KeptShortcut DEF RowSound
<1> HIDE DEF k
<1>13. LinkRows' BY <1>1, <1>12, SavedRow DEF k, old
<1>14. mine \in LinkStates
  <2>1. CASE s \in disk BY <2>1 DEF LinkStates
  <2>2. CASE s \notin disk /\ s \in synced[l] BY <2>2 DEF LinkStates
  <2>3. CASE s \notin disk /\ s \notin synced[l] BY <2>3 DEF LinkStates
  <2> QED BY <2>1, <2>2, <2>3
<1> HIDE DEF mine
<1>15. states \in [OuterStacks -> LinkStates]
  <2>1. ReconcileGitStackStatuses(lstatus[l], r) \in [OuterStacks -> LinkStates]
    BY ReconciledStates DEF LinkInv, LinkFolders
  <2> QED BY <1>14, <2>1
<1> HIDE DEF states
<1>16. LinkFolders' BY <1>1, <1>2, <1>15, StatusFolders DEF LinkInv
<1> QED BY <1>13, <1>16 DEF LinkInv

LEMMA LinkAutomation ==
    ASSUME LinkInv, NEW l \in GitLinkNames, NEW sync \in BOOLEAN,
           NEW amode \in {"all", "selected"}, NEW asel \in SUBSET Below(l),
           NEW deploy \in BOOLEAN, NEW fresh \in BOOLEAN, NEW targets \in SUBSET Below(l),
           UpdateBindingAutomation(l, sync, amode, asel, deploy, fresh, targets)
    PROVE  LinkInv'
<1> DEFINE old == lrow[l]
           polled == IF amode = "all" THEN {} ELSE asel
           goes == IF sync /\ deploy THEN targets ELSE {}
           r == [old EXCEPT !.sync = sync, !.amode = amode, !.asel = polled,
                   !.deploy = sync /\ deploy, !.fresh = sync /\ deploy /\ fresh,
                   !.targets = goes]
<1>1. /\ old.live = "live" /\ LinkFree(l)
      /\ r.targets \subseteq autoSyncComposePaths(r)
      /\ SaveBinding(l, KeepShortcut(old, r))
      /\ UNCHANGED <<lstatus, disk, remote, synced, copy, lcycle, inspected, blurred,
                     overtaken>>
  BY DEF UpdateBindingAutomation
<1>2. old \in LinkRow(l) /\ RowSound(l, old) BY <1>1, LiveRow
<1>3. polled \in SUBSET Below(l) /\ goes \in SUBSET Below(l)
      /\ (sync /\ deploy) \in BOOLEAN /\ (sync /\ deploy /\ fresh) \in BOOLEAN
  OBVIOUS
<1> HIDE DEF old, polled, goes
<1>4. /\ r \in LinkRow(l) /\ r.live = "live" /\ r.last = old.last /\ r.sel = old.sel
      /\ r.mode = old.mode /\ r.catalog = old.catalog
  BY <1>1, <1>2, <1>3 DEF LinkRow
<1> HIDE DEF r
<1>5. selectedComposePaths(r) = selectedComposePaths(old)
  BY <1>4 DEF selectedComposePaths
<1>6. RowBounded(l, r) BY <1>1, <1>2, <1>4, <1>5 DEF RowSound, RowBounded
<1> DEFINE k == KeepShortcut(old, r)
<1>7. k \in LinkRow(l) /\ k.live = "live" /\ RowSound(l, k)
  BY <1>2, <1>4, <1>6, KeptShortcut DEF RowSound
<1> HIDE DEF k
<1>8. LinkRows' BY <1>1, <1>7, SavedRow DEF k, old
<1>9. LinkFolders' BY <1>1, KeptFolders DEF LinkInv
<1> QED BY <1>8, <1>9 DEF LinkInv

-----------------------------------------------------------------------------
LEMMA LinkCreate ==
    ASSUME LinkInv, NEW l \in GitLinkNames, NEW mode \in {"all", "selected"},
           NEW sel \in SUBSET Below(l), CreateBinding(l, mode, sel)
    PROVE  LinkInv'
<1> DEFINE found == Discovered(l)
           old == lrow[l]
           new == [NoRow EXCEPT !.live = "live", !.catalog = found,
                     !.mode = mode, !.sel = sel, !.first = "checking"]
           back == [old EXCEPT !.live = "live", !.catalog = found,
                      !.mode = mode, !.sel = sel, !.first = "checking"]
           row == IF old.live = "archived" THEN back ELSE new
           made == [link |-> l, row |-> row, stage |-> "read", gone |-> FALSE]
<1>1. /\ lrow' = [lrow EXCEPT ![l] = row]
      /\ copy' = [copy EXCEPT !["create"] = made]
      /\ blurred' = IF old.live = "archived" THEN blurred \cup {l} ELSE blurred
      /\ old.live # "live"
      /\ IF mode = "all" THEN sel = {} ELSE sel \subseteq found
      /\ lstatus' = [lstatus EXCEPT ![l] = ReconcileGitStackStatuses(lstatus[l], row)]
      /\ UNCHANGED <<disk, remote, synced, lcycle, inspected, overtaken>>
  BY DEF CreateBinding, LinkInv, LinkFolders
<1>2. found \subseteq Below(l) BY DiscoveredBelow DEF LinkInv
<1>3. old \in LinkRow(l) /\ (~old.deploy \/ l \in overtaken)
  BY <1>1 DEF LinkInv, LinkRows, StoredOK, SoundRow
<1> HIDE DEF found, old
<1>0. ASSUME NEW o \in LinkRow(l), NEW n, n = [o EXCEPT !.live = "live", !.catalog = found,
                                        !.mode = mode, !.sel = sel, !.first = "checking"]
      PROVE  /\ n \in LinkRow(l) /\ n.live = "live" /\ n.deploy = o.deploy /\ n.last = o.last
             /\ n.catalog = found /\ n.mode = mode /\ n.sel = sel
  <2>1. /\ n.live = "live" /\ n.deploy = o.deploy /\ n.last = o.last
        /\ n.catalog = found /\ n.mode = mode /\ n.sel = sel
    BY <1>0 DEF LinkRow
  <2>2. n \in LinkRow(l) BY <1>0, <1>2 DEF LinkRow
  <2> QED BY <2>1, <2>2
<1>4. /\ new \in LinkRow(l) /\ new.live = "live" /\ new.deploy = FALSE /\ new.last = FALSE
      /\ new.catalog = found /\ new.mode = mode /\ new.sel = sel
  <2>1. NoRow \in LinkRow(l) /\ NoRow.deploy = FALSE /\ NoRow.last = FALSE
    BY NoRowShape DEF SoundRow
  <2>2. new = [NoRow EXCEPT !.live = "live", !.catalog = found,
                 !.mode = mode, !.sel = sel, !.first = "checking"] OBVIOUS
  <2> HIDE DEF new
  <2>3. /\ new \in LinkRow(l) /\ new.live = "live" /\ new.deploy = NoRow.deploy
        /\ new.last = NoRow.last /\ new.catalog = found /\ new.mode = mode /\ new.sel = sel
    BY <1>0, <2>1, <2>2
  <2> QED BY <2>1, <2>3
<1>5. /\ back \in LinkRow(l) /\ back.live = "live" /\ back.deploy = old.deploy
      /\ back.catalog = found /\ back.mode = mode /\ back.sel = sel
  BY <1>0, <1>3
<1> HIDE DEF new, back
<1>6. /\ row \in LinkRow(l) /\ row.live = "live" /\ row.catalog = found
      /\ row.mode = mode /\ row.sel = sel /\ (row.deploy => l \in overtaken)
      /\ row.last => old.live = "archived"
  BY <1>3, <1>4, <1>5
<1> HIDE DEF row
<1>7. row.last => l \in blurred' BY <1>1, <1>6
<1>8. SoundRow(l, row, inspected', blurred', overtaken')
  BY <1>1, <1>6, <1>7 DEF SoundRow, selectedComposePaths
<1>9. Grows BY <1>1 DEF Grows, LinkInv, LinkRows, LinkShapes
<1>10. CycleOK(l, lcycle[l], lrow[l], inspected', blurred', overtaken')
  BY <1>9, CycleGrows DEF LinkInv, LinkRows, Grows
<1>11. lcycle[l].step = "idle" BY <1>1, <1>10 DEF CycleOK, old
<1>12. /\ StoredOK(l, row, lcycle[l], inspected', blurred', overtaken')
       /\ CycleOK(l, lcycle[l], row, inspected', blurred', overtaken')
  BY <1>6, <1>8, <1>10, <1>11 DEF StoredOK, CycleOK
<1>13. /\ made \in LinkCopy /\ made.link = l /\ made.row = row /\ made.stage = "read"
       /\ made.gone = FALSE
  BY <1>6, LinkRowOuter DEF LinkCopy
<1> HIDE DEF made
<1>14. lrow'[l] = row BY <1>1 DEF LinkInv, LinkRows, LinkShapes
<1>15. CopyOK("create", made, row, inspected', blurred', overtaken')
  BY <1>6, <1>7, <1>8, <1>13 DEF CopyOK
<1>16. copy'["create"] = made /\ copy'["edit"] = copy["edit"]
       /\ copy' = [k \in RowHolders |-> copy'[k]]
  BY <1>1 DEF LinkInv, LinkRows, LinkShapes, RowHolders
<1>17. CopiesFollow(l, row)
  BY <1>6, <1>13, <1>14, <1>15, <1>16 DEF RowHolders, CopiesFollow
<1>18. LinkRows /\ lcycle' = [lcycle EXCEPT ![l] = lcycle[l]]
  BY <1>1 DEF LinkInv, LinkRows, LinkShapes
<1>19. LinkRows' BY <1>1, <1>9, <1>12, <1>17, <1>18, OneLink
<1>20. LinkFolders'
  <2>1. ReconcileGitStackStatuses(lstatus[l], row) \in [OuterStacks -> LinkStates]
    BY ReconciledStates DEF LinkInv, LinkFolders
  <2> QED BY <1>1, <2>1, StatusFolders DEF LinkInv
<1> QED BY <1>19, <1>20 DEF LinkInv

(* The row of a creation: what is added to its choice was never polled.    *)
LEMMA LinkFirstCatalog ==
    ASSUME LinkInv, refreshInitialCatalog PROVE LinkInv'
<1> DEFINE c == copy["create"]
           l == c.link
           r == c.row
           fresh == RefreshedRow(l, r)
           kept == IF r.catalog = {} /\ r.mode = "all" /\ fresh.catalog # {}
                   THEN [fresh EXCEPT !.mode = "all", !.sel = {}] ELSE fresh
           n == [c EXCEPT !.row = kept, !.stage = "looked"]
<1>1. /\ c.stage = "read" /\ NotUnlinked(l)
      /\ copy' = [copy EXCEPT !["create"] = n]
      /\ refreshBindingComposeCatalogLocked(l, r)
      /\ UNCHANGED <<lrow, lstatus, disk, remote, lcycle, inspected, blurred, overtaken>>
  BY DEF refreshInitialCatalog, LinkInv, LinkRows, LinkShapes, RowHolders
<1>2. CopyOK("create", c, lrow[l], inspected, blurred, overtaken)
  BY DEF LinkInv, LinkRows, RowHolders
<1>3. /\ c \in LinkCopy /\ l \in GitLinkNames /\ r \in LinkRow(l) /\ r.live = "live"
      /\ SoundRow(l, r, inspected, blurred, overtaken)
      /\ selectedComposePaths(r) \subseteq r.catalog
      /\ (r.last => l \in blurred) /\ (c.gone \/ lrow[l].live # "none")
  BY <1>1, <1>2 DEF CopyOK, LinkCopy, SoundRow
<1>4. lrow[l] \in LinkRow(l) BY <1>3 DEF LinkInv, LinkRows, StoredOK, SoundRow
<1>5. c.gone \/ lrow[l].live = "live" BY <1>1, <1>3, <1>4 DEF NotUnlinked, LinkRow
<1> HIDE DEF c, l, r
<1>6. /\ fresh \in LinkRow(l) /\ fresh.live = "live" /\ fresh.deploy = r.deploy
      /\ fresh.last = r.last /\ fresh.catalog = Discovered(l) /\ fresh.amode = r.amode
      /\ selectedComposePaths(fresh) = selectedComposePaths(r) \cap Discovered(l)
      /\ autoSyncComposePaths(fresh) = autoSyncComposePaths(r) \cap Discovered(l)
      /\ fresh.targets = r.targets \cap Discovered(l)
           \/ (fresh = r /\ Discovered(l) = r.catalog)
  BY <1>3, Refreshed DEF LinkInv
<1> HIDE DEF fresh
<1>7. SoundRow(l, fresh, inspected, blurred, overtaken)
  BY <1>3, <1>6 DEF SoundRow
<1>8. /\ kept \in LinkRow(l) /\ kept.live = "live" /\ kept.last = r.last
      /\ SoundRow(l, kept, inspected, blurred, overtaken)
  <2>1. CASE r.catalog = {} /\ r.mode = "all" /\ fresh.catalog # {}
    <3> DEFINE wide == [fresh EXCEPT !.mode = "all", !.sel = {}]
    <3>1. kept = wide BY <2>1
    <3>2. /\ wide \in LinkRow(l) /\ wide.live = "live" /\ wide.deploy = r.deploy
          /\ wide.last = r.last /\ wide.catalog = fresh.catalog /\ wide.mode = "all"
          /\ wide.targets = fresh.targets
      BY <1>6 DEF LinkRow
    <3> HIDE DEF wide
    <3>3. selectedComposePaths(wide) \subseteq wide.catalog
      BY <3>2 DEF selectedComposePaths
    <3>4. autoSyncComposePaths(r) = {}
      BY <2>1, AutoWithinSelected DEF selectedComposePaths
    <3>5. fresh.targets \subseteq r.targets BY <1>6
    <3>6. wide.deploy /\ l \notin overtaken => wide.targets = {}
      BY <1>3, <3>2, <3>4, <3>5 DEF SoundRow
    <3>7. SoundRow(l, wide, inspected, blurred, overtaken)
      BY <1>3, <3>2, <3>3, <3>6 DEF SoundRow
    <3> QED BY <3>1, <3>2, <3>7
  <2>2. CASE ~(r.catalog = {} /\ r.mode = "all" /\ fresh.catalog # {})
    BY <1>6, <1>7, <2>2
  <2> QED BY <2>1, <2>2
<1> HIDE DEF kept
<1>9. /\ n \in LinkCopy /\ n.link = l /\ n.row = kept /\ n.stage = "looked"
      /\ n.gone = c.gone
  BY <1>3, <1>8, LinkRowOuter DEF LinkCopy, l
<1> HIDE DEF n
<1>10. CopyOK("create", n, lrow[n.link], inspected, blurred, overtaken)
  BY <1>3, <1>5, <1>8, <1>9 DEF CopyOK
<1>11. LinkRows'
  <2>1. "create" \in RowHolders /\ LinkRows BY DEF RowHolders, LinkInv
  <2> QED BY <1>1, <1>10, <2>1, OneCopy
<1>12. LinkFolders'
  <2>1. /\ lstatus[l] \in [OuterStacks -> LinkStates]
        /\ lstatus' = [lstatus EXCEPT ![l] = lstatus[l]]
    BY <1>1, <1>3 DEF LinkInv, LinkFolders
  <2> QED BY <1>1, <1>3, <2>1, RefreshedBaseline DEF LinkInv
<1> QED BY <1>11, <1>12 DEF LinkInv

(* A row saved without the lock, by the holder k, which is done with it.   *)
LEMMA UnlockedRow ==
    ASSUME LinkInv, NEW k \in RowHolders, NEW n,
           copy[k].stage # "none", n.live = "live",
           SoundRow(copy[k].link, n, inspected, blurred, overtaken),
           lrow' = [lrow EXCEPT ![copy[k].link] = n],
           copy' = [copy EXCEPT ![k] = NoCopy],
           SaveUnlocked(copy[k]), UNCHANGED <<lcycle, inspected>>
    PROVE  LinkRows'
<1> DEFINE l == copy[k].link
           c == lcycle[l]
<1>1. CopyOK(k, copy[k], lrow[l], inspected, blurred, overtaken)
  BY DEF LinkInv, LinkRows
<1>2. l \in GitLinkNames BY <1>1 DEF CopyOK, LinkCopy
<1>3. LinkRows /\ LinkShapes BY DEF LinkInv, LinkRows
<1>4. /\ blurred' = IF c.step = "idle" THEN blurred ELSE blurred \cup {l}
      /\ overtaken' = IF c.step \in {"unlink", "forget"} THEN overtaken \cup {l}
                      ELSE overtaken
  BY DEF SaveUnlocked, LinkFree
<1>5. Grows BY <1>3, <1>4 DEF Grows, LinkShapes
<1>6. lrow' = [lrow EXCEPT ![l] = n] /\ lcycle' = [lcycle EXCEPT ![l] = c]
  BY <1>3 DEF LinkShapes
<1>7. CycleOK(l, c, lrow[l], inspected, blurred, overtaken) BY <1>2, <1>3 DEF LinkRows
<1>a. SoundRow(l, n, inspected, blurred, overtaken) OBVIOUS
<1>b. copy' = [j \in RowHolders |-> copy'[j]]
      /\ \A j \in RowHolders : copy'[j] = copy[j] \/ copy'[j] = NoCopy
  BY <1>3 DEF LinkShapes
<1> HIDE DEF l, c
<1>8. SoundRow(l, n, inspected', blurred', overtaken')
  BY <1>2, <1>5, <1>a, SoundGrows DEF Grows
<1>9. CycleOK(l, c, lrow[l], inspected', blurred', overtaken')
  BY <1>2, <1>5, <1>7, CycleGrows DEF Grows
<1>10. StoredOK(l, n, c, inspected', blurred', overtaken')
  BY <1>4, <1>8 DEF StoredOK
<1>11. CycleOK(l, c, n, inspected', blurred', overtaken')
  BY <1>4, <1>9 DEF CycleOK
<1>12. CopiesFollow(l, n)
  BY <1>b, NoCopyOK DEF CopiesFollow
<1> QED BY <1>2, <1>3, <1>5, <1>6, <1>10, <1>11, <1>12, OneLink

(* The row is not replaced, and the holder k is done.                      *)
LEMMA ReleasedCopy ==
    ASSUME LinkInv, NEW k \in RowHolders, NEW l \in GitLinkNames, NEW n \in LinkRow(l),
           lrow' = [lrow EXCEPT ![l] = n], copy' = [copy EXCEPT ![k] = NoCopy],
           n.catalog = lrow[l].catalog, n.mode = lrow[l].mode, n.sel = lrow[l].sel,
           n.amode = lrow[l].amode, n.asel = lrow[l].asel, n.targets = lrow[l].targets,
           n.deploy = lrow[l].deploy, n.last = lrow[l].last, n.live = lrow[l].live,
           blurred \subseteq blurred', overtaken \subseteq overtaken',
           UNCHANGED <<lcycle, inspected>>
    PROVE  LinkRows'
<1> DEFINE c == lcycle[l]
           r == lrow[l]
<1>1. LinkRows /\ LinkShapes BY DEF LinkInv, LinkRows
<1>2. Grows BY <1>1 DEF Grows, LinkShapes
<1>3. lcycle' = [lcycle EXCEPT ![l] = c] BY <1>1 DEF LinkShapes
<1>4. /\ StoredOK(l, r, c, inspected', blurred', overtaken')
      /\ CycleOK(l, c, r, inspected', blurred', overtaken')
  BY <1>1, <1>2, StoredGrows, CycleGrows DEF LinkRows, Grows
<1>5. copy' = [j \in RowHolders |-> copy'[j]]
      /\ \A j \in RowHolders : copy'[j] = copy[j] \/ copy'[j] = NoCopy
  BY <1>1 DEF LinkShapes
<1>6. n.deploy = r.deploy /\ n.live = r.live OBVIOUS
<1>7. CopiesFollow(l, n) BY <1>5, <1>6, NoCopyOK DEF CopiesFollow
<1>8. SoundRow(l, n, inspected', blurred', overtaken')
      /\ autoSyncComposePaths(n) = autoSyncComposePaths(r)
  BY <1>4, SameChoices DEF StoredOK
<1> HIDE DEF c, r
<1>9. StoredOK(l, n, c, inspected', blurred', overtaken') BY <1>4, <1>6, <1>8 DEF StoredOK
<1>10. CycleOK(l, c, n, inspected', blurred', overtaken') BY <1>4, <1>6, <1>8 DEF CycleOK
<1> QED BY <1>1, <1>2, <1>3, <1>7, <1>9, <1>10, OneLink

LEMMA LinkInitialize ==
    ASSUME LinkInv,
           NEW outcome \in {"open", "compared", "imported"}, initializeBinding(outcome)
    PROVE  LinkInv'
<1> DEFINE c == copy["create"]
           l == c.link
           saves == c.stage # "read"
           replaced == saves /\ ~(c.gone /\ lrow[l].live # "none")
           rows == IF saves THEN Overwritten(c) ELSE lrow
           done == outcome # "open"
           first == IF done THEN "done" ELSE "open"
           states == IF saves THEN ReconcileGitStackStatuses(lstatus[l], c.row)
                     ELSE lstatus[l]
           old == rows[l]
           n == [old EXCEPT !.first = first]
           after == IF old.live = "live" THEN n ELSE old
<1>1. /\ c.stage # "none"
      /\ lrow' = IF rows[l].live # "live" THEN rows ELSE [rows EXCEPT ![l].first = first]
      /\ IF saves THEN SaveUnlocked(c) ELSE UNCHANGED <<blurred, overtaken>>
      /\ copy' = [copy EXCEPT !["create"] = NoCopy]
      /\ UNCHANGED <<remote, lcycle, inspected>>
  BY DEF initializeBinding, OwnershipHeld
<1>2. LinkRows /\ LinkShapes BY DEF LinkInv, LinkRows
<1>3. CopyOK("create", c, lrow[l], inspected, blurred, overtaken)
  BY <1>2 DEF LinkRows, RowHolders
<1>4. /\ l \in GitLinkNames /\ c.row.live = "live"
      /\ SoundRow(l, c.row, inspected, blurred, overtaken)
  BY <1>1, <1>3 DEF CopyOK, LinkCopy
<1>5. SoundRow(l, lrow[l], inspected, blurred, overtaken)
  BY <1>2, <1>4 DEF LinkRows, StoredOK
<1>6. rows = IF replaced THEN [lrow EXCEPT ![l] = c.row] ELSE lrow BY DEF Overwritten
<1>7. old = IF replaced THEN c.row ELSE lrow[l] BY <1>2, <1>4, <1>6 DEF LinkShapes
<1>8. lrow' = [lrow EXCEPT ![l] = after] BY <1>1, <1>2, <1>4, <1>6, <1>7 DEF LinkShapes
<1>9. SoundRow(l, old, inspected, blurred, overtaken) BY <1>4, <1>5, <1>7
<1>10. old \in LinkRow(l) BY <1>9 DEF SoundRow
<1> HIDE DEF old
<1>11. /\ n \in LinkRow(l) /\ n.live = old.live /\ n.last = old.last
       /\ n.catalog = old.catalog /\ n.mode = old.mode /\ n.sel = old.sel
       /\ n.amode = old.amode /\ n.asel = old.asel /\ n.deploy = old.deploy
       /\ n.targets = old.targets
  BY <1>10 DEF LinkRow
<1> HIDE DEF n
<1>12. /\ after \in LinkRow(l) /\ after.live = old.live /\ after.last = old.last
       /\ after.catalog = old.catalog /\ after.mode = old.mode /\ after.sel = old.sel
       /\ after.amode = old.amode /\ after.asel = old.asel /\ after.deploy = old.deploy
       /\ after.targets = old.targets
  BY <1>10, <1>11
<1> HIDE DEF after
<1>13. LinkRows'
  <2>1. CASE replaced
    <3>1. old = c.row /\ after.live = "live" BY <1>4, <1>7, <1>12, <2>1
    <3>2. SoundRow(l, after, inspected, blurred, overtaken)
      BY <1>9, <1>12, SameChoices
    <3>3. SaveUnlocked(c) /\ "create" \in RowHolders BY <1>1, <2>1 DEF RowHolders
    <3> QED BY <1>1, <1>8, <3>1, <3>2, <3>3, UnlockedRow
  <2>2. CASE ~replaced
    <3>1. old = lrow[l] BY <1>7, <2>2
    <3>2. blurred \subseteq blurred' /\ overtaken \subseteq overtaken'
      BY <1>1 DEF SaveUnlocked
    <3>3. "create" \in RowHolders BY DEF RowHolders
    <3> QED BY <1>1, <1>4, <1>8, <1>12, <3>1, <3>2, <3>3, ReleasedCopy
  <2> QED BY <2>1, <2>2
<1>14. LinkFolders'
  <2> DEFINE shown == [s \in OuterStacks |->
                        IF states[s] # "none" /\ s \in selectedComposePaths(c.row)
                        THEN IF done THEN "up_to_date" ELSE "pending" ELSE states[s]]
             known == IF done THEN synced[l] \cup selectedComposePaths(rows[l])
                      ELSE synced[l]
  <2>1. /\ lstatus' = [lstatus EXCEPT ![l] = shown]
        /\ synced' = [synced EXCEPT ![l] = known]
        /\ disk' = IF outcome = "imported"
                   THEN disk \cup (selectedComposePaths(rows[l]) \cap remote[l]) ELSE disk
    BY <1>4 DEF initializeBinding, LinkInv, LinkFolders
  <2>2. states \in [OuterStacks -> LinkStates]
    <3>1. lstatus[l] \in [OuterStacks -> LinkStates] BY <1>4 DEF LinkInv, LinkFolders
    <3> QED BY <3>1, ReconciledStates
  <2> HIDE DEF states
  <2>3. shown \in [OuterStacks -> LinkStates] BY <2>2 DEF LinkStates
  <2>4. selectedComposePaths(old) \subseteq Below(l) BY <1>9 DEF SoundRow, LinkRow
  <2>5. known \in SUBSET Below(l) BY <1>4, <2>4 DEF LinkInv, LinkFolders, old
  <2>6. disk' \subseteq OuterStacks
    <3>1. remote[l] \subseteq OuterStacks BY <1>4, BelowOuter DEF LinkInv, LinkFolders
    <3> QED BY <2>1, <3>1 DEF LinkInv, LinkFolders
  <2> HIDE DEF shown, known
  <2> QED BY <1>1, <1>4, <2>1, <2>3, <2>5, <2>6, SavedFolders DEF LinkInv
<1> QED BY <1>13, <1>14 DEF LinkInv

LEMMA LinkRead ==
    ASSUME LinkInv, NEW l \in GitLinkNames, ReadBindingPolicy(l) PROVE LinkInv'
<1> DEFINE n == [link |-> l, row |-> lrow[l], stage |-> "read", gone |-> FALSE]
<1>1. /\ lrow[l].live = "live" /\ copy' = [copy EXCEPT !["edit"] = n]
      /\ UNCHANGED <<lrow, lstatus, disk, remote, synced, lcycle, inspected, blurred,
                     overtaken>>
  BY DEF ReadBindingPolicy
<1>2. SoundRow(l, lrow[l], inspected, blurred, overtaken) BY DEF LinkInv, LinkRows, StoredOK
<1>3. lrow[l] \in LinkRow("outer") BY <1>2, LinkRowOuter DEF SoundRow
<1>4. /\ n \in LinkCopy /\ n.link = l /\ n.row = lrow[l] /\ n.stage = "read"
      /\ n.gone = FALSE
  BY <1>3 DEF LinkCopy
<1> HIDE DEF n
<1>5. CopyOK("edit", n, lrow[n.link], inspected, blurred, overtaken)
  BY <1>1, <1>2, <1>4 DEF CopyOK
<1>6. "edit" \in RowHolders /\ LinkRows BY DEF RowHolders, LinkInv
<1>7. LinkRows' BY <1>1, <1>5, <1>6, OneCopy
<1>8. LinkFolders' BY <1>1, KeptFolders DEF LinkInv
<1> QED BY <1>7, <1>8 DEF LinkInv

LEMMA LinkLookUp ==
    ASSUME LinkInv, LookUpBinding PROVE LinkInv'
<1> DEFINE c == copy["edit"]
           l == c.link
           n == [c EXCEPT !.stage = "looked"]
           now == IF c.gone \/ NotUnlinked(l) THEN n ELSE NoCopy
<1>1. /\ c.stage = "read" /\ copy' = [copy EXCEPT !["edit"] = now]
      /\ UNCHANGED <<lrow, lstatus, disk, remote, synced, lcycle, inspected, blurred,
                     overtaken>>
  BY DEF LookUpBinding, LinkInv, LinkRows, LinkShapes, RowHolders
<1>2. CopyOK("edit", c, lrow[l], inspected, blurred, overtaken)
  BY DEF LinkInv, LinkRows, RowHolders
<1>3. c \in LinkCopy /\ l \in GitLinkNames BY <1>2 DEF CopyOK, LinkCopy
<1>4. lrow[l] \in LinkRow(l) BY <1>3 DEF LinkInv, LinkRows, StoredOK, SoundRow
<1>5. c.gone \/ NotUnlinked(l) => c.gone \/ lrow[l].live = "live"
  BY <1>1, <1>2, <1>4 DEF CopyOK, NotUnlinked, LinkRow
<1>6. /\ n \in LinkCopy /\ n.link = l /\ n.row = c.row /\ n.stage = "looked"
      /\ n.gone = c.gone /\ c.link = l
  BY <1>3 DEF LinkCopy
<1> HIDE DEF n, l, c
<1>7. ASSUME c.gone \/ NotUnlinked(l)
      PROVE  CopyOK("edit", n, lrow[l], inspected, blurred, overtaken)
  BY <1>1, <1>2, <1>5, <1>6, <1>7 DEF CopyOK
<1>8. CopyOK("edit", now, lrow[now.link], inspected, blurred, overtaken)
  BY <1>6, <1>7, NoCopyOK
<1>9. "edit" \in RowHolders /\ LinkRows BY DEF RowHolders, LinkInv
<1> HIDE DEF now
<1>10. LinkRows' BY <1>1, <1>8, <1>9, OneCopy
<1>11. LinkFolders' BY <1>1, KeptFolders DEF LinkInv
<1> QED BY <1>10, <1>11 DEF LinkInv

LEMMA LinkExclude ==
    ASSUME LinkInv, AddBindingExclusions PROVE LinkInv'
<1> DEFINE c == copy["edit"]
           l == c.link
<1>1. /\ c.stage # "none" /\ copy' = [copy EXCEPT !["edit"] = NoCopy] /\ SaveUnlocked(c)
      /\ lrow' = IF c.gone /\ lrow[l].live # "none" THEN lrow
                 ELSE [lrow EXCEPT ![l] = c.row]
      /\ UNCHANGED <<lstatus, disk, remote, synced, lcycle, inspected>>
  BY DEF AddBindingExclusions, Overwritten
<1>2. CopyOK("edit", c, lrow[l], inspected, blurred, overtaken)
  BY DEF LinkInv, LinkRows, RowHolders
<1>3. /\ l \in GitLinkNames /\ c.row.live = "live" /\ "edit" \in RowHolders
      /\ SoundRow(l, c.row, inspected, blurred, overtaken)
  BY <1>1, <1>2 DEF CopyOK, LinkCopy, RowHolders
<1>4. LinkRows'
  <2>1. CASE c.gone /\ lrow[l].live # "none"
    <3>1. lrow' = [lrow EXCEPT ![l] = lrow[l]] /\ lrow[l] \in LinkRow(l)
      BY <1>1, <1>3, <2>1 DEF LinkInv, LinkRows, LinkShapes, StoredOK, SoundRow
    <3>2. blurred \subseteq blurred' /\ overtaken \subseteq overtaken'
      BY <1>1 DEF SaveUnlocked
    <3> QED BY <1>1, <1>3, <3>1, <3>2, ReleasedCopy
  <2>2. CASE ~(c.gone /\ lrow[l].live # "none")
    BY <1>1, <1>3, <2>2, UnlockedRow
  <2> QED BY <2>1, <2>2
<1>5. LinkFolders' BY <1>1, KeptFolders DEF LinkInv
<1> QED BY <1>4, <1>5 DEF LinkInv

(* A step in the cycle of one link, and in its row, the copies staying.    *)
LEMMA LinkCycleStep ==
    ASSUME LinkInv, Grows, NEW l \in GitLinkNames, NEW r, NEW c,
           lrow' = [lrow EXCEPT ![l] = r], lcycle' = [lcycle EXCEPT ![l] = c],
           UNCHANGED copy, r.live = lrow[l].live \/ r.live = "live",
           StoredOK(l, r, c, inspected', blurred', overtaken'),
           CycleOK(l, c, r, inspected', blurred', overtaken')
    PROVE  LinkRows'
<1>1. LinkRows BY DEF LinkInv
<1>2. CopiesFollow(l, r) BY <1>1 DEF CopiesFollow, LinkRows, LinkShapes
<1> QED BY <1>1, <1>2, OneLink

(* What is known of the link of a cycle or an unlinking under way.         *)
LEMMA BusyRow ==
    ASSUME LinkInv, NEW l \in GitLinkNames, lcycle[l].step # "idle"
    PROVE  /\ lrow[l].live = "live" /\ lrow[l] \in LinkRow(l) /\ lcycle[l] \in LinkCycle
           /\ lcycle[l].row \in LinkRow(l)
           /\ SoundRow(l, lrow[l], inspected, blurred, overtaken)
           /\ SoundRow(l, lcycle[l].row, inspected, blurred, overtaken)
           /\ StoredOK(l, lrow[l], lcycle[l], inspected, blurred, overtaken)
           /\ CycleOK(l, lcycle[l], lrow[l], inspected, blurred, overtaken)
<1>1. /\ StoredOK(l, lrow[l], lcycle[l], inspected, blurred, overtaken)
      /\ CycleOK(l, lcycle[l], lrow[l], inspected, blurred, overtaken)
  BY DEF LinkInv, LinkRows
<1>2. /\ lrow[l].live = "live" /\ lcycle[l] \in LinkCycle
      /\ SoundRow(l, lrow[l], inspected, blurred, overtaken)
      /\ SoundRow(l, lcycle[l].row, inspected, blurred, overtaken)
  BY <1>1 DEF StoredOK, CycleOK
<1> QED BY <1>1, <1>2 DEF SoundRow

LEMMA LinkDelete ==
    ASSUME LinkInv, NEW l \in GitLinkNames, NEW forget \in BOOLEAN, DeleteBinding(l, forget)
    PROVE  LinkInv'
<1> DEFINE old == lrow[l]
           r == [old EXCEPT !.sync = FALSE, !.deploy = FALSE, !.fresh = FALSE]
           how == IF forget THEN "forget" ELSE "unlink"
           c == [lcycle[l] EXCEPT !.step = how]
<1>1. /\ old.live = "live" /\ lcycle[l].step = "idle" /\ lrow' = [lrow EXCEPT ![l] = r]
      /\ lcycle' = [lcycle EXCEPT ![l] = c]
      /\ UNCHANGED <<lstatus, disk, remote, synced, copy, inspected, blurred, overtaken>>
  BY DEF DeleteBinding, SaveBinding, LinkFree, LinkInv, LinkRows, LinkShapes
<1>2. /\ SoundRow(l, old, inspected, blurred, overtaken) /\ old \in LinkRow(l)
      /\ CycleOK(l, lcycle[l], old, inspected, blurred, overtaken)
      /\ lcycle[l] \in LinkCycle
  BY DEF LinkInv, LinkRows, StoredOK, CycleOK, SoundRow
<1> HIDE DEF old
<1>3. /\ r \in LinkRow(l) /\ r.live = "live" /\ r.deploy = FALSE /\ r.last = old.last
      /\ r.catalog = old.catalog /\ r.mode = old.mode /\ r.sel = old.sel
      /\ r.amode = old.amode /\ r.asel = old.asel /\ r.targets = old.targets
  BY <1>1, <1>2 DEF LinkRow
<1> HIDE DEF r
<1>4. SoundRow(l, r, inspected, blurred, overtaken) BY <1>2, <1>3, SameChoices
<1>5. how \in {"unlink", "forget"} OBVIOUS
<1> HIDE DEF how
<1>6. c \in LinkCycle /\ c.step = how /\ c.row = lcycle[l].row /\ c.moved = lcycle[l].moved
  BY <1>2, <1>5 DEF LinkCycle
<1> HIDE DEF c
<1>7. StoredOK(l, r, c, inspected', blurred', overtaken') BY <1>1, <1>3, <1>4 DEF StoredOK
<1>8. CycleOK(l, c, r, inspected', blurred', overtaken')
  BY <1>1, <1>2, <1>3, <1>5, <1>6 DEF CycleOK
<1>9. Grows BY <1>1, NothingGrows DEF LinkInv
<1>10. LinkRows' BY <1>1, <1>3, <1>7, <1>8, <1>9, LinkCycleStep
<1>11. LinkFolders' BY <1>1, KeptFolders DEF LinkInv
<1> QED BY <1>10, <1>11 DEF LinkInv

LEMMA LinkUnlink ==
    ASSUME LinkInv, NEW l \in GitLinkNames, UnlinkBinding(l) PROVE LinkInv'
<1> DEFINE forget == lcycle[l].step = "forget"
           old == lrow[l]
           gone == [old EXCEPT !.live = "archived"]
           row == IF forget THEN NoRow ELSE gone
<1>1. /\ lcycle[l].step \in {"unlink", "forget"}
      /\ lrow' = [lrow EXCEPT ![l] = row]
      /\ lcycle' = [lcycle EXCEPT ![l] = NoCycle]
      /\ UNCHANGED <<disk, remote, inspected, blurred, overtaken>>
      /\ copy' = [k \in RowHolders |->
            IF copy[k].stage = "none" \/ copy[k].link # l THEN copy[k]
            ELSE IF forget THEN [copy[k] EXCEPT !.gone = TRUE]
            ELSE IF copy[k].stage = "looked" THEN [copy[k] EXCEPT !.stage = "unlinked"]
            ELSE copy[k]]
  BY DEF UnlinkBinding, LinkInv, LinkRows, LinkShapes
<1>2. /\ SoundRow(l, old, inspected, blurred, overtaken) /\ old \in LinkRow(l)
      /\ old.live = "live" /\ (~old.deploy \/ l \in overtaken)
  BY <1>1, BusyRow DEF StoredOK
<1> HIDE DEF old
<1>3. /\ gone \in LinkRow(l) /\ gone.live = "archived" /\ gone.deploy = old.deploy
      /\ gone.last = old.last /\ gone.catalog = old.catalog /\ gone.mode = old.mode
      /\ gone.sel = old.sel /\ gone.amode = old.amode /\ gone.asel = old.asel
      /\ gone.targets = old.targets
  BY <1>2 DEF LinkRow
<1> HIDE DEF gone
<1>4. SoundRow(l, gone, inspected, blurred, overtaken) BY <1>2, <1>3, SameChoices
<1>5. /\ SoundRow(l, row, inspected, blurred, overtaken) /\ (~row.deploy \/ l \in overtaken)
      /\ ~forget => row.live = "archived"
  <2>1. CASE forget
    <3>1. row = NoRow BY <2>1
    <3>2. SoundRow(l, NoRow, inspected, blurred, overtaken) /\ NoRow.deploy = FALSE
      BY NoRowShape
    <3> HIDE DEF row
    <3> QED BY <2>1, <3>1, <3>2
  <2>2. CASE ~forget BY <1>2, <1>3, <1>4, <2>2
  <2> QED BY <2>1, <2>2
<1> HIDE DEF row
<1>6. /\ StoredOK(l, row, NoCycle, inspected', blurred', overtaken')
      /\ CycleOK(l, NoCycle, row, inspected', blurred', overtaken')
  BY <1>1, <1>5, NoCycleOK DEF StoredOK
<1>7. lrow'[l] = row BY <1>1 DEF LinkInv, LinkRows, LinkShapes
<1>8. ASSUME NEW k \in RowHolders, copy[k].link = l
      PROVE  CopyOK(k, copy'[k], lrow'[copy'[k].link], inspected', blurred', overtaken')
  <2> DEFINE c == copy[k]
             now == copy'[k]
  <2>1. CopyOK(k, c, old, inspected, blurred, overtaken)
    BY <1>8 DEF LinkInv, LinkRows, old
  <2>2. c \in LinkCopy BY <2>1 DEF CopyOK
  <2>3. /\ now \in LinkCopy /\ now.link = l /\ now.row = c.row
        /\ (c.stage = "none" => now.stage = "none")
        /\ now.stage # "looked" \/ now.gone = TRUE
        /\ now.gone = TRUE \/ now.stage = "none" \/ ~forget
    <3>1. CASE c.stage = "none"
      <4>1. now = c BY <1>1, <3>1
      <4> HIDE DEF now, c
      <4> QED BY <1>8, <2>2, <3>1, <4>1 DEF c
    <3>2. CASE c.stage # "none" /\ forget
      <4>1. now = [c EXCEPT !.gone = TRUE] BY <1>1, <1>8, <3>2
      <4>2. c.link = l BY <1>8
      <4> HIDE DEF now, c
      <4> QED BY <2>2, <3>2, <4>1, <4>2 DEF LinkCopy
    <3>3. CASE c.stage = "looked" /\ ~forget
      <4>1. now = [c EXCEPT !.stage = "unlinked"] BY <1>1, <1>8, <3>3
      <4>2. c.link = l BY <1>8
      <4> HIDE DEF now, c
      <4> QED BY <2>2, <3>3, <4>1, <4>2 DEF LinkCopy
    <3>4. CASE c.stage \notin {"none", "looked"} /\ ~forget
      <4>1. now = c BY <1>1, <1>8, <3>4
      <4>2. c.link = l BY <1>8
      <4> HIDE DEF now, c
      <4> QED BY <2>2, <3>4, <4>1, <4>2
    <3> QED BY <3>1, <3>2, <3>3, <3>4
  <2>4. c.link = l BY <1>8
  <2> HIDE DEF c, now
  <2>5. CopyOK(k, now, row, inspected, blurred, overtaken)
    BY <1>5, <2>1, <2>3, <2>4 DEF CopyOK
  <2> QED BY <1>1, <1>7, <2>3, <2>5 DEF now
<1>9. CopiesFollow(l, row)
  <2>1. copy' = [k \in RowHolders |-> copy'[k]] BY <1>1
  <2>2. \A k \in RowHolders : copy[k].link # l => copy'[k] = copy[k] BY <1>1
  <2> QED BY <1>8, <2>1, <2>2 DEF CopiesFollow
<1>10. Grows /\ LinkRows BY <1>1, NothingGrows DEF LinkInv
<1>11. LinkRows' BY <1>1, <1>6, <1>9, <1>10, OneLink
<1>12. LinkFolders'
  <2>1. CASE ~forget
    <3>1. UNCHANGED <<lstatus, synced>> BY <2>1 DEF UnlinkBinding
    <3> QED BY <1>1, <3>1, KeptFolders DEF LinkInv
  <2>2. CASE forget
    <3> DEFINE states == [s \in OuterStacks |-> "none"]
    <3>1. lstatus' = [lstatus EXCEPT ![l] = states] /\ synced' = [synced EXCEPT ![l] = {}]
      BY <2>2 DEF UnlinkBinding
    <3>2. states \in [OuterStacks -> LinkStates] /\ {} \in SUBSET Below(l)
          /\ disk' \subseteq OuterStacks
      BY <1>1 DEF LinkStates, LinkInv, LinkFolders
    <3> HIDE DEF states
    <3> QED BY <1>1, <3>1, <3>2, SavedFolders DEF LinkInv
  <2> QED BY <2>1, <2>2
<1> QED BY <1>11, <1>12 DEF LinkInv

LEMMA LinkBegin ==
    ASSUME LinkInv, NEW l \in GitLinkNames, BeginLink(l) PROVE LinkInv'
<1> DEFINE r == lrow[l]
           c == [step |-> "scan", row |-> r, moved |-> FALSE]
           states == ReconcileGitStackStatuses(lstatus[l], r)
<1>1. /\ r.live = "live" /\ lcycle[l].step = "idle" /\ lcycle' = [lcycle EXCEPT ![l] = c]
      /\ UNCHANGED <<lrow, disk, remote, synced, copy, inspected, blurred, overtaken>>
  BY DEF BeginLink, LinkFree
<1>2. lstatus' = [lstatus EXCEPT ![l] = states]
  BY DEF BeginLink, LinkInv, LinkFolders
<1>3. SoundRow(l, r, inspected, blurred, overtaken) BY DEF LinkInv, LinkRows, StoredOK
<1>4. r \in LinkRow("outer") BY <1>3, LinkRowOuter DEF SoundRow
<1>a. lrow' = [lrow EXCEPT ![l] = r] /\ lrow[l] = r
  BY <1>1 DEF LinkInv, LinkRows, LinkShapes
<1> HIDE DEF r
<1>5. c \in LinkCycle /\ c.step = "scan" /\ c.row = r /\ c.moved = FALSE
  BY <1>4 DEF LinkCycle
<1> HIDE DEF c
<1>6. /\ StoredOK(l, r, c, inspected', blurred', overtaken')
      /\ CycleOK(l, c, r, inspected', blurred', overtaken')
  BY <1>1, <1>3, <1>5 DEF StoredOK, CycleOK
<1>7. Grows BY <1>1, NothingGrows DEF LinkInv
<1>8. LinkRows' BY <1>1, <1>a, <1>6, <1>7, LinkCycleStep
<1>9. LinkFolders'
  <2>1. states \in [OuterStacks -> LinkStates]
    BY ReconciledStates DEF LinkInv, LinkFolders
  <2> HIDE DEF states
  <2> QED BY <1>1, <1>2, <2>1, StatusFolders DEF LinkInv
<1> QED BY <1>8, <1>9 DEF LinkInv

(* The end of a cycle: the commit is stored, of which the polled stacks    *)
(* were scanned.                                                           *)
LEMMA StoredCommit ==
    ASSUME LinkInv, NEW l \in GitLinkNames, lcycle[l].step \in {"scan", "seen", "registered"},
           lrow' = [lrow EXCEPT ![l].last = TRUE], lcycle' = [lcycle EXCEPT ![l] = NoCycle],
           l \notin blurred => autoSyncComposePaths(lrow[l]) \subseteq inspected[l],
           UNCHANGED <<copy, inspected, blurred, overtaken>>
    PROVE  LinkRows'
<1> DEFINE old == lrow[l]
           r == [old EXCEPT !.last = TRUE]
<1>1. lrow' = [lrow EXCEPT ![l] = r] BY DEF LinkInv, LinkRows, LinkShapes
<1>2. /\ SoundRow(l, old, inspected, blurred, overtaken) /\ old \in LinkRow(l)
      /\ old.live = "live" /\ lrow[l] = old
  BY BusyRow
<1>a. l \notin blurred => autoSyncComposePaths(old) \subseteq inspected[l] OBVIOUS
<1> HIDE DEF old
<1>3. /\ r \in LinkRow(l) /\ r.live = "live" /\ r.deploy = old.deploy
      /\ r.catalog = old.catalog /\ r.mode = old.mode /\ r.sel = old.sel
      /\ r.amode = old.amode /\ r.asel = old.asel /\ r.targets = old.targets
  BY <1>2 DEF LinkRow
<1> HIDE DEF r
<1>4. SoundRow(l, r, inspected, blurred, overtaken) BY <1>2, <1>a, <1>3, SameChoices
<1>5. /\ StoredOK(l, r, NoCycle, inspected', blurred', overtaken')
      /\ CycleOK(l, NoCycle, r, inspected', blurred', overtaken')
  BY <1>3, <1>4, NoCycleOK DEF StoredOK
<1>6. Grows BY NothingGrows DEF LinkInv
<1> QED BY <1>1, <1>3, <1>5, <1>6, LinkCycleStep

LEMMA LinkSkip ==
    ASSUME LinkInv, NEW l \in GitLinkNames, SkipLink(l) PROVE LinkInv'
<1>1. /\ lcycle[l].step = "scan" /\ lcycle[l].row.last
      /\ lrow' = [lrow EXCEPT ![l].last = TRUE] /\ lcycle' = [lcycle EXCEPT ![l] = NoCycle]
      /\ UNCHANGED <<lstatus, disk, remote, synced, copy, inspected, blurred, overtaken>>
  BY DEF SkipLink
<1>2. l \notin blurred => autoSyncComposePaths(lrow[l]) \subseteq inspected[l]
  <2>1. /\ CycleOK(l, lcycle[l], lrow[l], inspected, blurred, overtaken)
        /\ SoundRow(l, lcycle[l].row, inspected, blurred, overtaken)
    BY <1>1, BusyRow
  <2> QED BY <1>1, <2>1 DEF CycleOK, SoundRow
<1>3. LinkRows' BY <1>1, <1>2, StoredCommit
<1>4. LinkFolders' BY <1>1, KeptFolders DEF LinkInv
<1> QED BY <1>3, <1>4 DEF LinkInv

LEMMA LinkFinish ==
    ASSUME LinkInv, NEW l \in GitLinkNames, FinishLink(l) PROVE LinkInv'
<1> DEFINE got == {s \in autoSyncComposePaths(lrow[l]) \cap remote[l] :
                     s \in disk \/ s \notin synced[l]}
<1>1. /\ lcycle[l].step \in {"seen", "registered"} /\ ~lcycle[l].moved
      /\ disk' = disk \cup got /\ synced' = [synced EXCEPT ![l] = @ \cup got]
      /\ lrow' = [lrow EXCEPT ![l].last = TRUE] /\ lcycle' = [lcycle EXCEPT ![l] = NoCycle]
      /\ UNCHANGED <<lstatus, remote, copy, inspected, blurred, overtaken>>
  BY DEF FinishLink
<1>2. l \notin blurred => autoSyncComposePaths(lrow[l]) \subseteq inspected[l]
  <2>1. CycleOK(l, lcycle[l], lrow[l], inspected, blurred, overtaken) BY <1>1, BusyRow
  <2> QED BY <1>1, <2>1 DEF CycleOK
<1>3. LinkRows' BY <1>1, <1>2, StoredCommit
<1>4. LinkFolders'
  <2>1. got \subseteq Below(l) /\ got \subseteq OuterStacks
    BY BelowOuter DEF LinkInv, LinkFolders
  <2> HIDE DEF got
  <2> DEFINE base == synced[l] \cup got
  <2>2. /\ base \in SUBSET Below(l) /\ synced' = [synced EXCEPT ![l] = base]
        /\ disk' \subseteq OuterStacks /\ lstatus[l] \in [OuterStacks -> LinkStates]
        /\ lstatus' = [lstatus EXCEPT ![l] = lstatus[l]]
    BY <1>1, <2>1 DEF LinkInv, LinkFolders
  <2> HIDE DEF base
  <2> QED BY <1>1, <2>2, SavedFolders DEF LinkInv
<1> QED BY <1>3, <1>4 DEF LinkInv

LEMMA LinkAbandon ==
    ASSUME LinkInv, NEW l \in GitLinkNames, AbandonLink(l) PROVE LinkInv'
<1> DEFINE r == lrow[l]
<1>1. /\ lcycle[l].step \in {"scan", "seen", "registered"}
      /\ lcycle' = [lcycle EXCEPT ![l] = NoCycle]
      /\ UNCHANGED <<lrow, lstatus, disk, remote, synced, copy, inspected, blurred,
                     overtaken>>
  BY DEF AbandonLink
<1>2. r.live = "live" /\ SoundRow(l, r, inspected, blurred, overtaken) BY <1>1, BusyRow
<1>3. lrow' = [lrow EXCEPT ![l] = r] /\ r.live = lrow[l].live
  BY <1>1 DEF LinkInv, LinkRows, LinkShapes
<1> HIDE DEF r
<1>4. /\ StoredOK(l, r, NoCycle, inspected', blurred', overtaken')
      /\ CycleOK(l, NoCycle, r, inspected', blurred', overtaken')
  BY <1>1, <1>2, NoCycleOK DEF StoredOK
<1>5. Grows BY <1>1, NothingGrows DEF LinkInv
<1>6. LinkRows' BY <1>1, <1>3, <1>4, <1>5, LinkCycleStep
<1>7. LinkFolders' BY <1>1, KeptFolders DEF LinkInv
<1> QED BY <1>6, <1>7 DEF LinkInv

LEMMA LinkInspect ==
    ASSUME LinkInv, NEW l \in GitLinkNames, InspectLink(l) PROVE LinkInv'
<1> DEFINE old == lrow[l]
           c == lcycle[l]
           n == [c EXCEPT !.step = "seen"]
           seen == inspected[l] \cup autoSyncComposePaths(old)
<1>1. /\ c.step = "scan" /\ inspected' = [inspected EXCEPT ![l] = seen]
      /\ lrow' = [lrow EXCEPT ![l] = old] \/ lrow' = [lrow EXCEPT ![l] = c.row]
      /\ lcycle' = [lcycle EXCEPT ![l] = n]
      /\ UNCHANGED <<lstatus, disk, remote, synced, copy, blurred, overtaken>>
  BY DEF InspectLink, SaveBinding, LinkInv, LinkRows, LinkShapes
<1>2. /\ old.live = "live" /\ c \in LinkCycle
      /\ SoundRow(l, old, inspected, blurred, overtaken)
      /\ CycleOK(l, c, old, inspected, blurred, overtaken)
  BY <1>1, BusyRow
<1>3. inspected'[l] = seen /\ inspected[l] \subseteq seen
  BY <1>1 DEF LinkInv, LinkRows, LinkShapes
<1>4. Grows
  <2>1. inspected' = [m \in GitLinkNames |-> inspected'[m]]
    BY <1>1 DEF LinkInv, LinkRows, LinkShapes
  <2>2. \A m \in GitLinkNames \ {l} : inspected'[m] = inspected[m]
    BY <1>1 DEF LinkInv, LinkRows, LinkShapes
  <2> QED BY <1>1, <1>3, <2>1, <2>2 DEF Grows
<1>5. n \in LinkCycle /\ n.step = "seen" /\ n.row = c.row /\ n.moved = c.moved
  BY <1>2 DEF LinkCycle
<1>6. /\ SoundRow(l, old, inspected', blurred', overtaken')
      /\ CycleOK(l, c, old, inspected', blurred', overtaken')
  BY <1>2, <1>4, SoundGrows, CycleGrows DEF Grows
<1>7. autoSyncComposePaths(old) \subseteq inspected'[l] BY <1>3
<1> HIDE DEF old, c, n, seen
<1>10. LinkFolders' BY <1>1, KeptFolders DEF LinkInv
<1>8. CASE lrow' = [lrow EXCEPT ![l] = old]
  <2>1. /\ StoredOK(l, old, n, inspected', blurred', overtaken')
        /\ CycleOK(l, n, old, inspected', blurred', overtaken')
    BY <1>1, <1>2, <1>5, <1>6, <1>7 DEF StoredOK, CycleOK
  <2>2. LinkRows' BY <1>1, <1>2, <1>4, <1>8, <2>1, LinkCycleStep
  <2> QED BY <1>10, <2>2 DEF LinkInv
<1>9. CASE lrow' = [lrow EXCEPT ![l] = c.row]
  <2>1. c.row.live = "live" BY <1>1, <1>2 DEF CycleOK
  <2>2. l \notin blurred' => autoSyncComposePaths(c.row) \subseteq inspected'[l]
    BY <1>1, <1>2, <1>7 DEF CycleOK
  <2>3. /\ StoredOK(l, c.row, n, inspected', blurred', overtaken')
        /\ CycleOK(l, n, c.row, inspected', blurred', overtaken')
    BY <1>5, <1>6, <2>1, <2>2 DEF StoredOK, CycleOK
  <2>4. LinkRows' BY <1>1, <1>4, <1>9, <2>1, <2>3, LinkCycleStep
  <2> QED BY <1>10, <2>4 DEF LinkInv
<1> QED BY <1>1, <1>8, <1>9

(* Registered stacks join every choice of the row together.                *)
Widened(c, found) ==
    [c EXCEPT !.catalog = @ \cup found,
              !.sel = IF c.mode = "selected" THEN @ \cup found ELSE @,
              !.asel = IF c.amode = "selected" THEN @ \cup found ELSE @,
              !.targets = @ \cup found]

LEMMA WidenedRow ==
    ASSUME NEW l \in GitLinkNames, NEW c \in LinkRow(l), NEW i, NEW b, NEW o,
           SoundRow(l, c, i, b, o), NEW found \in SUBSET Below(l), NEW r, r = Widened(c, found)
    PROVE  /\ r \in LinkRow(l) /\ r.live = c.live /\ r.last = c.last /\ r.deploy = c.deploy
           /\ selectedComposePaths(r) \subseteq r.catalog
           /\ r.deploy /\ l \notin o => r.targets \subseteq autoSyncComposePaths(r)
           /\ autoSyncComposePaths(r) \subseteq autoSyncComposePaths(c) \cup found
<1> DEFINE sel == IF c.mode = "selected" THEN c.sel \cup found ELSE c.sel
           asel == IF c.amode = "selected" THEN c.asel \cup found ELSE c.asel
           cat == c.catalog \cup found
           goes == c.targets \cup found
<1>1. r = [c EXCEPT !.catalog = cat, !.sel = sel, !.asel = asel, !.targets = goes]
  BY DEF LinkRow, Widened
<1>2. /\ sel \in SUBSET Below(l) /\ asel \in SUBSET Below(l) /\ cat \in SUBSET Below(l)
      /\ goes \in SUBSET Below(l)
  BY DEF LinkRow
<1>3. /\ c.mode = "selected" => sel = c.sel \cup found
      /\ c.amode = "selected" => asel = c.asel \cup found
      /\ cat = c.catalog \cup found /\ goes = c.targets \cup found
      /\ c.mode \in {"all", "selected"} /\ c.amode \in {"all", "selected"}
  BY DEF LinkRow
<1> HIDE DEF sel, asel, cat, goes
<1>4. /\ r \in LinkRow(l) /\ r.live = c.live /\ r.last = c.last /\ r.deploy = c.deploy
      /\ r.catalog = cat /\ r.mode = c.mode /\ r.sel = sel /\ r.amode = c.amode
      /\ r.asel = asel /\ r.targets = goes
  BY <1>1, <1>2 DEF LinkRow
<1>5. selectedComposePaths(r) = selectedComposePaths(c) \cup found
  BY <1>3, <1>4 DEF selectedComposePaths
<1>6. selectedComposePaths(c) \subseteq c.catalog
      /\ (c.deploy /\ l \notin o => c.targets \subseteq autoSyncComposePaths(c))
  BY DEF SoundRow
<1>7. autoSyncComposePaths(r) = autoSyncComposePaths(c) \cup found
  <2>1. CASE c.amode = "all" BY <1>4, <1>5, <2>1 DEF autoSyncComposePaths
  <2>2. CASE c.amode = "selected" BY <1>3, <1>4, <1>5, <2>2 DEF autoSyncComposePaths
  <2> QED BY <1>3, <2>1, <2>2
<1> QED BY <1>3, <1>4, <1>5, <1>6, <1>7

LEMMA LinkRegister ==
    ASSUME LinkInv, NEW l \in GitLinkNames, NEW found \in SUBSET Below(l),
           registerDiscoveredDeploymentTargets(l, found)
    PROVE  LinkInv'
<1> DEFINE c == lcycle[l]
           r == Widened(c.row, found)
           n == [c EXCEPT !.row = r, !.step = "registered"]
           states == ReconcileGitStackStatuses(lstatus[l], r)
<1>1. /\ c.step = "seen" /\ lrow' = [lrow EXCEPT ![l] = r]
      /\ lcycle' = [lcycle EXCEPT ![l] = n]
      /\ inspected' = IF c.moved THEN inspected
                      ELSE [inspected EXCEPT ![l] = @ \cup found]
      /\ lstatus' = [lstatus EXCEPT ![l] = states]
      /\ UNCHANGED <<disk, remote, synced, copy, blurred, overtaken>>
  BY DEF registerDiscoveredDeploymentTargets, Widened, SaveBinding, LinkInv, LinkRows,
         LinkShapes, LinkFolders
<1>2. /\ c \in LinkCycle /\ c.row \in LinkRow(l) /\ lrow[l] \in LinkRow(l)
      /\ SoundRow(l, c.row, inspected, blurred, overtaken)
      /\ CycleOK(l, c, lrow[l], inspected, blurred, overtaken)
  BY <1>1, BusyRow
<1>3. /\ r \in LinkRow(l) /\ r.live = c.row.live /\ r.last = c.row.last
      /\ r.deploy = c.row.deploy /\ selectedComposePaths(r) \subseteq r.catalog
      /\ r.deploy /\ l \notin overtaken => r.targets \subseteq autoSyncComposePaths(r)
      /\ autoSyncComposePaths(r) \subseteq autoSyncComposePaths(c.row) \cup found
  BY <1>2, WidenedRow
<1>a. LinkShapes BY DEF LinkInv, LinkRows
<1> HIDE DEF r, c
<1>4. r \in LinkRow("outer") BY <1>3, LinkRowOuter
<1>5. n \in LinkCycle /\ n.step = "registered" /\ n.row = r /\ n.moved = c.moved
  BY <1>2, <1>4 DEF LinkCycle
<1> HIDE DEF n
<1>6. /\ inspected[l] \subseteq inspected'[l]
      /\ ~c.moved => found \subseteq inspected'[l]
      /\ Grows
  <2>1. CASE c.moved BY <1>1, <1>a, <2>1 DEF Grows, LinkShapes
  <2>2. CASE ~c.moved
    <3>1. inspected' = [inspected EXCEPT ![l] = inspected[l] \cup found]
      BY <1>1, <1>a, <2>2 DEF LinkShapes
    <3>2. inspected'[l] = inspected[l] \cup found BY <1>a, <3>1 DEF LinkShapes
    <3>3. \A m \in GitLinkNames \ {l} : inspected'[m] = inspected[m]
      BY <1>a, <3>1 DEF LinkShapes
    <3>4. inspected' = [m \in GitLinkNames |-> inspected'[m]]
      BY <1>a, <3>1 DEF LinkShapes
    <3> QED BY <1>1, <2>2, <3>2, <3>3, <3>4 DEF Grows
  <2> QED BY <2>1, <2>2
<1>7. c.row.live = "live" /\ (c.moved => ~r.last)
      /\ (~c.moved /\ l \notin blurred => autoSyncComposePaths(c.row) \subseteq inspected[l])
  BY <1>1, <1>2, <1>3 DEF CycleOK
<1>8. ~c.moved /\ l \notin blurred => autoSyncComposePaths(r) \subseteq inspected'[l]
  BY <1>3, <1>6, <1>7
<1>9. SoundRow(l, r, inspected', blurred', overtaken')
  BY <1>1, <1>3, <1>7, <1>8 DEF SoundRow
<1>10. /\ StoredOK(l, r, n, inspected', blurred', overtaken')
       /\ CycleOK(l, n, r, inspected', blurred', overtaken')
  BY <1>1, <1>3, <1>5, <1>7, <1>8, <1>9 DEF StoredOK, CycleOK
<1>11. LinkRows'
  <2>1. r.live = "live" BY <1>3, <1>7
  <2> QED BY <1>1, <1>6, <1>10, <2>1, LinkCycleStep
<1>12. LinkFolders'
  <2>1. states \in [OuterStacks -> LinkStates]
    BY ReconciledStates DEF LinkInv, LinkFolders
  <2> HIDE DEF states
  <2> QED BY <1>1, <2>1, StatusFolders DEF LinkInv
<1> QED BY <1>11, <1>12 DEF LinkInv

LEMMA LinkDisk ==
    ASSUME LinkInv, NEW s \in OuterStacks, ChangeDisk(s) PROVE LinkInv'
<1>1. /\ disk' \subseteq OuterStacks
      /\ UNCHANGED <<lrow, lstatus, remote, synced, copy, lcycle, inspected, blurred,
                     overtaken>>
  BY DEF ChangeDisk, LinkInv, LinkFolders
<1>2. LinkFolders' BY <1>1 DEF LinkInv, LinkFolders
<1>3. LinkRows' BY <1>1 DEF LinkInv, LinkRows, LinkShapes
<1> QED BY <1>2, <1>3 DEF LinkInv

(* What a new head leaves of a row: no shortcut, whatever was inspected.   *)
Shortened(r) == [r EXCEPT !.last = FALSE]

LEMMA Unshortened ==
    ASSUME NEW l \in GitLinkNames, NEW old, NEW i, NEW b, NEW o, SoundRow(l, old, i, b, o)
    PROVE  /\ \A i2, b2 : SoundRow(l, Shortened(old), i2, b2, o)
           /\ Shortened(old).last = FALSE
           /\ Shortened(old).live = old.live /\ Shortened(old).deploy = old.deploy
           /\ autoSyncComposePaths(Shortened(old)) = autoSyncComposePaths(old)
<1> DEFINE r == Shortened(old)
<1>1. old \in LinkRow(l) BY DEF SoundRow
<1>2. /\ r \in LinkRow(l) /\ r.live = old.live /\ r.last = FALSE /\ r.catalog = old.catalog
      /\ r.mode = old.mode /\ r.sel = old.sel /\ r.amode = old.amode
      /\ r.asel = old.asel /\ r.deploy = old.deploy /\ r.targets = old.targets
  BY <1>1 DEF LinkRow, Shortened
<1> HIDE DEF r
<1>3. selectedComposePaths(r) = selectedComposePaths(old) BY <1>2 DEF selectedComposePaths
<1>4. autoSyncComposePaths(r) = autoSyncComposePaths(old)
  BY <1>2, <1>3 DEF autoSyncComposePaths
<1>5. \A i2, b2 : SoundRow(l, r, i2, b2, o) BY <1>2, <1>3, <1>4 DEF SoundRow
<1> QED BY <1>2, <1>4, <1>5 DEF r

LEMMA LinkRemote ==
    ASSUME LinkInv, NEW l \in GitLinkNames, NEW s \in OuterStacks, ChangeRemote(l, s)
    PROVE  LinkInv'
<1> DEFINE old == lrow[l]
           r == Shortened(old)
           c == lcycle[l]
           ahead == c.step \in {"seen", "registered"}
           mine == Shortened(c.row)
           n == [c EXCEPT !.row = mine, !.moved = ahead]
           now == IF s \in remote[l] THEN remote[l] \ {s} ELSE remote[l] \cup {s}
<1>1. /\ s \in Below(l) /\ UNCHANGED <<lstatus, disk, synced, overtaken>>
      /\ remote' = [remote EXCEPT ![l] = now]
      /\ inspected' = [inspected EXCEPT ![l] = {}]
      /\ lrow' = [lrow EXCEPT ![l] = r]
      /\ copy' = [k \in RowHolders |->
           IF copy[k].link = l THEN [copy[k] EXCEPT !.row.last = FALSE] ELSE copy[k]]
      /\ lcycle' = [lcycle EXCEPT ![l].row.last = FALSE, ![l].moved = ahead]
      /\ blurred' = IF c.step = "idle" THEN blurred \ {l} ELSE blurred
  BY DEF ChangeRemote, Shortened, LinkFree, LinkInv, LinkFolders, LinkRows, LinkShapes
<1>a. LinkShapes BY DEF LinkInv, LinkRows
<1>b. /\ StoredOK(l, old, c, inspected, blurred, overtaken)
      /\ CycleOK(l, c, old, inspected, blurred, overtaken)
  BY DEF LinkInv, LinkRows
<1>2. c \in LinkCycle BY <1>b DEF CycleOK
<1>3. lcycle' = [lcycle EXCEPT ![l] = n]
  BY <1>1, <1>2, <1>a DEF LinkShapes, LinkCycle, Shortened
<1>4. /\ SoundRow(l, r, inspected', blurred', overtaken') /\ r.last = FALSE
      /\ r.live = old.live /\ r.deploy = old.deploy
      /\ autoSyncComposePaths(r) = autoSyncComposePaths(old)
  <2>1. SoundRow(l, old, inspected, blurred, overtaken) BY <1>b DEF StoredOK
  <2> HIDE DEF old
  <2> QED BY <1>1, <2>1, Unshortened
<1>5. /\ SoundRow(l, mine, inspected', blurred', overtaken') /\ mine.last = FALSE
      /\ mine.live = c.row.live
      /\ autoSyncComposePaths(mine) = autoSyncComposePaths(c.row)
  <2>1. SoundRow(l, c.row, inspected, blurred, overtaken) BY <1>b DEF CycleOK
  <2> HIDE DEF c
  <2> QED BY <1>1, <2>1, Unshortened
<1> HIDE DEF r, mine
<1>6. mine \in LinkRow("outer") BY <1>5, LinkRowOuter DEF SoundRow
<1>7. /\ n \in LinkCycle /\ n.step = c.step /\ n.row = mine
      /\ n.moved => c.step \in {"seen", "registered"}
      /\ ~n.moved => c.step \notin {"seen", "registered"}
  <2>1. ahead \in BOOLEAN /\ (ahead <=> c.step \in {"seen", "registered"}) OBVIOUS
  <2> HIDE DEF ahead
  <2>2. n \in LinkCycle /\ n.step = c.step /\ n.row = mine /\ n.moved = ahead
    BY <1>2, <1>6, <2>1 DEF LinkCycle
  <2>3. n.moved <=> ahead BY <2>2
  <2> QED BY <2>1, <2>2, <2>3
<1>8. LinkFolders'
  <2>1. now \subseteq Below(l) BY <1>1 DEF LinkInv, LinkFolders
  <2> HIDE DEF now
  <2> QED BY <1>1, <2>1 DEF LinkInv, LinkFolders
<1> HIDE DEF n, c, old, now
<1>9. StoredOK(l, r, n, inspected', blurred', overtaken')
  BY <1>1, <1>b, <1>4, <1>7 DEF StoredOK
<1>10. CycleOK(l, n, r, inspected', blurred', overtaken')
  <2>1. c.step # "idle" => r.live = "live" BY <1>b, <1>4 DEF CycleOK
  <2>2. c.step \in {"scan", "seen", "registered"} =>
          /\ mine.live = "live"
          /\ l \notin blurred' => autoSyncComposePaths(mine) = autoSyncComposePaths(r)
    BY <1>1, <1>b, <1>4, <1>5 DEF CycleOK
  <2> QED BY <1>5, <1>7, <2>1, <2>2 DEF CycleOK
<1>11. lrow'[l] = r /\ lcycle'[l] = n BY <1>1, <1>3, <1>a DEF LinkShapes
<1>12. ASSUME NEW m \in GitLinkNames \ {l}
       PROVE  /\ lrow'[m] = lrow[m] /\ lcycle'[m] = lcycle[m]
              /\ inspected'[m] = inspected[m] /\ (m \in blurred' <=> m \in blurred)
  BY <1>1, <1>3, <1>a DEF LinkShapes
<1>13. ASSUME NEW m \in GitLinkNames \ {l}, NEW x,
              SoundRow(m, x, inspected, blurred, overtaken)
       PROVE  SoundRow(m, x, inspected', blurred', overtaken')
  BY <1>1, <1>12, <1>13 DEF SoundRow
<1>14. ASSUME NEW m \in GitLinkNames
       PROVE  /\ StoredOK(m, lrow'[m], lcycle'[m], inspected', blurred', overtaken')
              /\ CycleOK(m, lcycle'[m], lrow'[m], inspected', blurred', overtaken')
  <2>1. CASE m = l BY <1>9, <1>10, <1>11, <2>1
  <2>2. CASE m # l
    <3> DEFINE x == lrow[m]
               y == lcycle[m]
    <3>1. /\ StoredOK(m, x, y, inspected, blurred, overtaken)
          /\ CycleOK(m, y, x, inspected, blurred, overtaken)
      BY DEF LinkInv, LinkRows
    <3>2. lrow'[m] = x /\ lcycle'[m] = y BY <1>12, <2>2
    <3> HIDE DEF x, y
    <3>3. StoredOK(m, x, y, inspected', blurred', overtaken')
      BY <1>1, <1>13, <2>2, <3>1 DEF StoredOK
    <3>4. SoundRow(m, y.row, inspected', blurred', overtaken')
      BY <1>13, <2>2, <3>1 DEF CycleOK
    <3>5. CycleOK(m, y, x, inspected', blurred', overtaken')
      BY <1>12, <2>2, <3>1, <3>4 DEF CycleOK
    <3> QED BY <3>2, <3>3, <3>5
  <2> QED BY <2>1, <2>2
<1>15. ASSUME NEW k \in RowHolders
       PROVE  CopyOK(k, copy'[k], lrow'[copy'[k].link], inspected', blurred', overtaken')
  <2> DEFINE x == copy[k]
             y == copy'[k]
             m == x.link
             z == lrow[m]
  <2>1. CopyOK(k, x, z, inspected, blurred, overtaken) BY DEF LinkInv, LinkRows
  <2>2. x \in LinkCopy /\ m \in GitLinkNames BY <2>1 DEF CopyOK, LinkCopy
  <2>3. CASE m = l
    <3> DEFINE q == Shortened(x.row)
    <3>1. y = [x EXCEPT !.row = q] BY <1>1, <2>2, <2>3 DEF LinkCopy, Shortened
    <3>2. SoundRow(l, x.row, inspected, blurred, overtaken) /\ z = old
      BY <2>1, <2>3 DEF CopyOK, old
    <3>3. x.link = l BY <2>3
    <3> HIDE DEF x, y, z, m
    <3>4. /\ SoundRow(l, q, inspected', blurred', overtaken') /\ q.last = FALSE
          /\ q.live = x.row.live
      BY <1>1, <3>2, Unshortened
    <3> HIDE DEF q
    <3>5. q \in LinkRow("outer") BY <3>4, LinkRowOuter DEF SoundRow
    <3>6. /\ y \in LinkCopy /\ y.link = l /\ y.row = q /\ y.stage = x.stage
          /\ y.gone = x.gone
      BY <2>2, <3>1, <3>3, <3>5 DEF LinkCopy
    <3>7. CopyOK(k, y, r, inspected', blurred', overtaken')
      BY <1>4, <2>1, <3>2, <3>4, <3>6 DEF CopyOK
    <3> QED BY <1>11, <3>6, <3>7 DEF y
  <2>4. CASE m # l
    <3>1. y = x /\ lrow'[m] = z BY <1>1, <1>12, <2>2, <2>4
    <3>2. m \in GitLinkNames \ {l} /\ x.link = m BY <2>2, <2>4
    <3> HIDE DEF x, y, z, m
    <3>3. SoundRow(m, x.row, inspected', blurred', overtaken')
      BY <1>13, <2>1, <3>2 DEF CopyOK
    <3>4. CopyOK(k, x, z, inspected', blurred', overtaken')
      BY <1>12, <2>1, <3>2, <3>3 DEF CopyOK
    <3> QED BY <3>1, <3>2, <3>4 DEF y
  <2> QED BY <2>3, <2>4
<1>16. LinkShapes' BY <1>1, <1>3, <1>a DEF LinkShapes
<1>17. LinkRows' BY <1>14, <1>15, <1>16 DEF LinkRows
<1> QED BY <1>8, <1>17 DEF LinkInv

LEMMA LinkRestart ==
    ASSUME LinkInv, MarkInterruptedInitialSyncs PROVE LinkInv'
<1>1. /\ lrow' = [l \in GitLinkNames |->
           IF lrow[l].live = "live" /\ lrow[l].first = "checking"
           THEN [lrow[l] EXCEPT !.first = "open"] ELSE lrow[l]]
      /\ copy' = [k \in RowHolders |-> NoCopy] /\ lcycle' = [l \in GitLinkNames |-> NoCycle]
      /\ lstatus' = [l \in GitLinkNames |->
           IF lrow[l].live = "live"
           THEN ReconcileGitStackStatuses(lstatus[l], lrow'[l]) ELSE lstatus[l]]
      /\ UNCHANGED <<disk, remote, synced, inspected, blurred, overtaken>>
  BY DEF MarkInterruptedInitialSyncs
<1>2. LinkFolders'
  <2>1. ASSUME NEW l \in GitLinkNames PROVE lstatus'[l] \in [OuterStacks -> LinkStates]
    <3>1. lstatus[l] \in [OuterStacks -> LinkStates] BY DEF LinkInv, LinkFolders
    <3>2. ReconcileGitStackStatuses(lstatus[l], lrow'[l]) \in [OuterStacks -> LinkStates]
      BY <3>1, ReconciledStates
    <3> QED BY <1>1, <3>1, <3>2
  <2>2. lstatus' \in [GitLinkNames -> [OuterStacks -> LinkStates]] BY <1>1, <2>1
  <2> QED BY <1>1, <2>2 DEF LinkInv, LinkFolders
<1>3. ASSUME NEW l \in GitLinkNames
      PROVE  /\ StoredOK(l, lrow'[l], lcycle'[l], inspected', blurred', overtaken')
             /\ CycleOK(l, lcycle'[l], lrow'[l], inspected', blurred', overtaken')
  <2> DEFINE old == lrow[l]
             n == [old EXCEPT !.first = "open"]
  <2>1. /\ SoundRow(l, old, inspected, blurred, overtaken) /\ old \in LinkRow(l)
        /\ old.live # "live" => ~old.deploy \/ l \in overtaken
    BY DEF LinkInv, LinkRows, StoredOK, SoundRow
  <2>2. (lrow'[l] = old \/ lrow'[l] = n) /\ lcycle'[l] = NoCycle BY <1>1
  <2> HIDE DEF old
  <2>3. /\ n \in LinkRow(l) /\ n.live = old.live /\ n.last = old.last
        /\ n.catalog = old.catalog /\ n.mode = old.mode /\ n.sel = old.sel
        /\ n.amode = old.amode /\ n.asel = old.asel /\ n.deploy = old.deploy
        /\ n.targets = old.targets
    BY <2>1 DEF LinkRow
  <2> HIDE DEF n
  <2>4. SoundRow(l, n, inspected, blurred, overtaken) BY <2>1, <2>3, SameChoices
  <2>5. NoCycle.step = "idle" BY NoCycleOK
  <2>6. ASSUME NEW x \in {old, n}
        PROVE  /\ StoredOK(l, x, NoCycle, inspected', blurred', overtaken')
               /\ CycleOK(l, NoCycle, x, inspected', blurred', overtaken')
    BY <1>1, <2>1, <2>3, <2>4, <2>5, NoCycleOK DEF StoredOK
  <2> QED BY <2>2, <2>6
<1>4. LinkShapes' BY <1>1 DEF LinkInv, LinkRows, LinkShapes
<1>5. \A k \in RowHolders : copy'[k] = NoCopy BY <1>1
<1>6. LinkRows' BY <1>3, <1>4, <1>5, NoCopyOK DEF LinkRows
<1> QED BY <1>2, <1>6 DEF LinkInv

-----------------------------------------------------------------------------
LEMMA LinkStep == LinkInv /\ [LinksNext]_linkVars => LinkInv'
<1> SUFFICES ASSUME LinkInv, [LinksNext]_linkVars PROVE LinkInv' OBVIOUS
<1>1. CASE UNCHANGED linkVars
  BY <1>1 DEF LinkInv, LinkFolders, LinkRows, LinkShapes, linkVars
<1>2. CASE LookUpBinding \/ AddBindingExclusions \/ MarkInterruptedInitialSyncs
           \/ refreshInitialCatalog
  BY <1>2, LinkLookUp, LinkExclude, LinkRestart, LinkFirstCatalog
<1>3. ASSUME NEW outcome \in {"open", "compared", "imported"}, initializeBinding(outcome)
      PROVE LinkInv'
  BY <1>3, LinkInitialize
<1>4. ASSUME NEW s \in OuterStacks, ChangeDisk(s) PROVE LinkInv' BY <1>4, LinkDisk
<1>5. ASSUME NEW l \in GitLinkNames,
             \/ RefreshBindingComposeCatalog(l) \/ UpdateBindingPolicy(l)
             \/ ReadBindingPolicy(l) \/ UnlinkBinding(l)
             \/ BeginLink(l) \/ SkipLink(l) \/ InspectLink(l) \/ FinishLink(l)
             \/ AbandonLink(l)
             \/ \E found \in SUBSET Below(l) : registerDiscoveredDeploymentTargets(l, found)
             \/ \E forget \in BOOLEAN : DeleteBinding(l, forget)
      PROVE LinkInv'
  <2>1. CASE RefreshBindingComposeCatalog(l) \/ UpdateBindingPolicy(l)
             \/ ReadBindingPolicy(l) \/ UnlinkBinding(l)
    BY <2>1, LinkRefresh, LinkPolicy, LinkRead, LinkUnlink
  <2>2. CASE BeginLink(l) \/ SkipLink(l) \/ InspectLink(l) \/ FinishLink(l) \/ AbandonLink(l)
    BY <2>2, LinkBegin, LinkSkip, LinkInspect, LinkFinish, LinkAbandon
  <2>3. ASSUME NEW found \in SUBSET Below(l), registerDiscoveredDeploymentTargets(l, found)
        PROVE LinkInv'
    BY <2>3, LinkRegister
  <2>4. ASSUME NEW forget \in BOOLEAN, DeleteBinding(l, forget) PROVE LinkInv'
    BY <2>4, LinkDelete
  <2> QED BY <1>5, <2>1, <2>2, <2>3, <2>4
<1>6. ASSUME NEW l \in GitLinkNames, NEW mode \in {"all", "selected"},
             NEW sel \in SUBSET Below(l),
             \/ CreateBinding(l, mode, sel)
             \/ UpdateBindingComposeSelection(l, mode, sel)
             \/ UpdateBindingAutomation(l, TRUE, mode, sel, FALSE, FALSE, {})
             \/ \E fresh \in BOOLEAN, targets \in SUBSET Below(l) :
                  UpdateBindingAutomation(l, TRUE, mode, sel, TRUE, fresh, targets)
      PROVE LinkInv'
  <2>1. CASE CreateBinding(l, mode, sel) BY <2>1, LinkCreate
  <2>2. CASE UpdateBindingComposeSelection(l, mode, sel) BY <2>2, LinkSelect
  <2>3. ASSUME NEW deploy \in BOOLEAN, NEW fresh \in BOOLEAN, NEW targets \in SUBSET Below(l),
               UpdateBindingAutomation(l, TRUE, mode, sel, deploy, fresh, targets)
        PROVE LinkInv'
    <3>1. ASSUME NEW sync \in BOOLEAN,
                 UpdateBindingAutomation(l, sync, mode, sel, deploy, fresh, targets)
          PROVE LinkInv'
      BY <3>1, LinkAutomation
    <3>2. TRUE \in BOOLEAN OBVIOUS
    <3> QED BY <2>3, <3>1, <3>2, Zenon
  <2>4. FALSE \in BOOLEAN /\ TRUE \in BOOLEAN /\ {} \in SUBSET Below(l) OBVIOUS
  <2>5. CASE UpdateBindingAutomation(l, TRUE, mode, sel, FALSE, FALSE, {})
    BY <2>3, <2>4, <2>5, Zenon
  <2>6. CASE \E fresh \in BOOLEAN, targets \in SUBSET Below(l) :
               UpdateBindingAutomation(l, TRUE, mode, sel, TRUE, fresh, targets)
    BY <2>3, <2>4, <2>6, Zenon
  <2> QED BY <1>6, <2>1, <2>2, <2>5, <2>6, Zenon
<1>7. ASSUME NEW l \in GitLinkNames,
             UpdateBindingAutomation(l, FALSE, "all", {}, FALSE, FALSE, {})
      PROVE LinkInv'
  <2>1. FALSE \in BOOLEAN /\ "all" \in {"all", "selected"} /\ {} \in SUBSET Below(l) OBVIOUS
  <2> QED BY <1>7, <2>1, LinkAutomation, Zenon
<1>8. ASSUME NEW l \in GitLinkNames, NEW s \in Below(l),
             \/ EnableGitStackSynchronization(l, s)
             \/ MarkComposeChange(l, s) \/ ChangeRemote(l, s)
      PROVE LinkInv'
  <2>1. s \in OuterStacks BY BelowOuter
  <2> QED BY <1>8, <2>1, LinkEnable, LinkMark, LinkRemote
<1> QED BY <1>1, <1>2, <1>3, <1>4, <1>5, <1>6, <1>7, <1>8 DEF LinksNext

LEMMA LinkInvariant == LinksSpec => []LinkInv
BY LinkInitInv, LinkStep, PTL DEF LinksSpec

LEMMA LinkInvTyped == LinkInv => LinksTypeOK
<1> SUFFICES ASSUME LinkInv PROVE LinksTypeOK OBVIOUS
<1>1. ASSUME NEW l \in GitLinkNames
      PROVE LET r == lrow[l] IN
            /\ r.live \in {"none", "live", "archived"}
            /\ {r.catalog, r.sel, r.asel, r.targets, remote[l], synced[l]}
                 \subseteq SUBSET Below(l)
            /\ {r.mode, r.amode} \subseteq {"all", "selected"}
            /\ {r.sync, r.deploy, r.fresh, r.last} \subseteq BOOLEAN
  <2>1. lrow[l] \in LinkRow(l) BY DEF LinkInv, LinkRows, StoredOK, SoundRow
  <2> QED BY <2>1 DEF LinkRow, LinkInv, LinkFolders
<1>2. ASSUME NEW l \in GitLinkNames, NEW s \in OuterStacks
      PROVE lstatus[l][s] \in
              {"none", "pending", "up_to_date", "local_changes", "locally_deleted",
               "remote_changes"}
  BY DEF LinkInv, LinkFolders, LinkStates
<1>3. disk \subseteq OuterStacks BY DEF LinkInv, LinkFolders
<1>4. ASSUME NEW k \in RowHolders
      PROVE copy[k].stage \in {"none", "read", "looked", "unlinked"}
  BY DEF LinkInv, LinkRows, CopyOK, LinkCopy
<1> QED BY <1>1, <1>2, <1>3, <1>4 DEF LinksTypeOK

LEMMA LinkInvCoherent == LinkInv => LinksCoherent
<1> SUFFICES ASSUME LinkInv PROVE LinksCoherent OBVIOUS
<1>1. ShortcutCoversTargets
  BY DEF LinkInv, LinkRows, StoredOK, SoundRow, ShortcutCoversTargets
<1>2. AuthorityBounded
  <2> SUFFICES ASSUME NEW l \in GitLinkNames, lrow[l].live = "live", l \notin overtaken
               PROVE LET r == lrow[l]
                         views == ListGitStackStatusViews(l)
                     IN /\ r.deploy => r.targets \subseteq autoSyncComposePaths(r)
                        /\ selectedComposePaths(r) \subseteq r.catalog
                        /\ \A s \in DOMAIN views :
                             views[s].deploys => views[s].polled
                                                 /\ views[s].state # "unselected"
    BY DEF AuthorityBounded
  <2> DEFINE r == lrow[l]
             shown == {s \in OuterStacks : lstatus[l][s] # "none"}
             offered == r.catalog \ (selectedComposePaths(r) \cup shown)
             views == ListGitStackStatusViews(l)
  <2>1. /\ r.deploy => r.targets \subseteq autoSyncComposePaths(r)
        /\ selectedComposePaths(r) \subseteq r.catalog
    BY DEF LinkInv, LinkRows, StoredOK, SoundRow
  <2>2. views = [s \in shown \cup offered |->
          IF s \in offered
          THEN [state |-> "unselected", polled |-> FALSE, deploys |-> FALSE]
          ELSE [state |-> lstatus[l][s], polled |-> s \in autoSyncComposePaths(r),
                deploys |-> r.deploy /\ s \in r.targets]]
    BY DEF ListGitStackStatusViews
  <2>3. ASSUME NEW s \in DOMAIN views, views[s].deploys
        PROVE views[s].polled /\ views[s].state # "unselected"
    <3>1. s \in shown \cup offered BY <2>2, <2>3
    <3>2. s \notin offered BY <2>2, <2>3, <3>1
    <3>3. views[s] = [state |-> lstatus[l][s], polled |-> s \in autoSyncComposePaths(r),
                      deploys |-> r.deploy /\ s \in r.targets]
      BY <2>2, <3>1, <3>2
    <3>4. s \in OuterStacks BY <3>1, <3>2
    <3>5. lstatus[l][s] # "unselected" BY <3>4 DEF LinkInv, LinkFolders, LinkStates
    <3> DEFINE polled == s \in autoSyncComposePaths(r)
               goes == r.deploy /\ s \in r.targets
    <3> HIDE DEF r, views
    <3>6. goes => polled BY <2>1
    <3>7. views[s] = [state |-> lstatus[l][s], polled |-> polled, deploys |-> goes] BY <3>3
    <3> HIDE DEF polled, goes
    <3>8. /\ views[s].state = lstatus[l][s] /\ views[s].polled = polled
          /\ views[s].deploys = goes
      BY <3>7
    <3>9. goes BY <2>3, <3>8, Zenon
    <3>10. views[s].polled BY <3>6, <3>8, <3>9, Zenon
    <3> QED BY <3>5, <3>8, <3>10
  <2> QED BY <2>1, <2>3
<1> QED BY <1>1, <1>2 DEF LinksCoherent

(* However links are created, edited with or without the lock, unlinked,   *)
(* forgotten and brought back, while cycles run and files and commits      *)
(* change under them, their rows stay well formed and coherent: the commit *)
(* shortcut of runBindingAutomation hides no polled stack, what is         *)
(* deployed is polled, what is polled selected, what is selected           *)
(* catalogued, and the stack view says so.  The properties except a link   *)
(* that came back from an unlinking, or whose row an unlocked save         *)
(* replaced under a cycle or an unlinking.                                 *)
THEOREM LinksAreCoherent == LinksSpec => [](LinksTypeOK /\ LinksCoherent)
BY LinkInvariant, LinkInvTyped, LinkInvCoherent, PTL

(* An unlinked row comes back by a creation, or by the two saves that      *)
(* SaveBinding cannot tell: one that looked at the row before it was       *)
(* unlinked, and one of a row that is no longer in the table.              *)
THEOREM LinksStayUnlinked == LinksSpec => NotResurrected
<1> DEFINE Revived(l) == lrow[l].live # "live" /\ lrow'[l].live = "live"
           Allowed(l) == \/ ~OwnershipHeld /\ OwnershipHeld' /\ copy'["create"].link = l
                         \/ \E k \in RowHolders :
                              /\ copy[k].link = l
                              /\ copy[k].stage = "unlinked" \/ copy[k].gone
<1>1. ASSUME LinkInv, LinksNext, NEW l \in GitLinkNames, Revived(l) PROVE Allowed(l)
  <2>0. LinkShapes /\ lrow' # lrow BY <1>1 DEF LinkInv, LinkRows
  <2>1. lcycle[l].step = "idle" BY <1>1 DEF LinkInv, LinkRows, CycleOK
  <2>2. ASSUME NEW m \in GitLinkNames, NEW r, lrow[m].live = "live", SaveBinding(m, r)
        PROVE FALSE
    BY <1>1, <2>0, <2>2 DEF SaveBinding, LinkShapes
  <2>3. ASSUME NEW k \in RowHolders, copy[k].stage \in {"looked", "unlinked"},
               lrow'[l] # lrow[l], copy[k].link = l
        PROVE Allowed(l)
    <3>1. CopyOK(k, copy[k], lrow[l], inspected, blurred, overtaken)
      BY <1>1, <2>3 DEF LinkInv, LinkRows
    <3>2. CASE copy[k].stage = "unlinked" BY <2>3, <3>2
    <3>3. CASE copy[k].stage = "looked"
      <4>1. copy[k].gone BY <1>1, <3>1, <3>3 DEF CopyOK
      <4> QED BY <2>3, <4>1
    <3> QED BY <2>3, <3>2, <3>3
  <2>4. CASE AddBindingExclusions
    <3>1. copy["edit"].link \in GitLinkNames
      BY <1>1 DEF LinkInv, LinkRows, CopyOK, LinkCopy, RowHolders
    <3>2. copy["edit"].link # l => lrow'[l] = lrow[l]
      BY <2>0, <2>4, <3>1 DEF AddBindingExclusions, Overwritten, LinkShapes
    <3>3. copy["edit"].link = l /\ "edit" \in RowHolders /\ lrow'[l] # lrow[l]
      BY <1>1, <3>2 DEF RowHolders
    <3> QED BY <2>3, <2>4, <3>3 DEF AddBindingExclusions
  <2>5. CASE \E outcome \in {"open", "compared", "imported"} : initializeBinding(outcome)
    <3> DEFINE c == copy["create"]
               rows == IF c.stage # "read" THEN Overwritten(c) ELSE lrow
    <3>1. PICK first \in {"open", "done"} :
            /\ c.stage # "none"
            /\ lrow' = IF rows[c.link].live # "live" THEN rows
                       ELSE [rows EXCEPT ![c.link].first = first]
      BY <2>5 DEF initializeBinding, OwnershipHeld
    <3>2. /\ c.link \in GitLinkNames /\ c.stage \in {"none", "read", "looked", "unlinked"}
          /\ lrow[l] \in LinkRow(l) /\ c.row \in LinkRow(c.link)
          /\ lrow[c.link] \in LinkRow(c.link)
      BY <1>1 DEF LinkInv, LinkRows, CopyOK, LinkCopy, RowHolders, StoredOK, SoundRow
    <3>3. CASE c.stage = "read"
      <4>1. rows = lrow BY <3>3
      <4>2. lrow'[l].live = lrow[l].live
        BY <2>0, <3>1, <3>2, <4>1 DEF LinkShapes, LinkRow
      <4> QED BY <1>1, <4>2
    <3>4. CASE c.stage # "read"
      <4>1. rows = lrow \/ rows = [lrow EXCEPT ![c.link] = c.row]
        BY <3>4 DEF Overwritten
      <4>2. c.link # l => lrow'[l] = lrow[l]
        BY <2>0, <3>1, <3>2, <4>1 DEF LinkShapes
      <4>3. c.link = l /\ "create" \in RowHolders /\ lrow'[l] # lrow[l]
        BY <1>1, <4>2 DEF RowHolders
      <4> QED BY <2>3, <3>1, <3>2, <3>4, <4>3
    <3> QED BY <3>3, <3>4
  <2>6. CASE MarkInterruptedInitialSyncs
    <3>1. lrow[l] \in LinkRow(l) BY <1>1 DEF LinkInv, LinkRows, StoredOK, SoundRow
    <3> QED BY <1>1, <2>6, <3>1 DEF MarkInterruptedInitialSyncs
  <2>7. CASE LookUpBinding \/ refreshInitialCatalog \/ \E s \in OuterStacks : ChangeDisk(s)
    BY <2>0, <2>7 DEF LookUpBinding, refreshInitialCatalog, ChangeDisk
  <2>8. ASSUME NEW m \in GitLinkNames,
               \/ RefreshBindingComposeCatalog(m) \/ UpdateBindingPolicy(m)
               \/ ReadBindingPolicy(m) \/ BeginLink(m) \/ AbandonLink(m)
        PROVE FALSE
    BY <2>0, <2>2, <2>8
    DEF RefreshBindingComposeCatalog, UpdateBindingPolicy, ReadBindingPolicy, BeginLink,
        AbandonLink
  <2>10. ASSUME NEW m \in GitLinkNames,
                \/ SkipLink(m) \/ InspectLink(m) \/ FinishLink(m) \/ UnlinkBinding(m)
                \/ \E found \in SUBSET Below(m) : registerDiscoveredDeploymentTargets(m, found)
         PROVE FALSE
    <3>1. lcycle[m].step # "idle"
      BY <2>10 DEF SkipLink, InspectLink, FinishLink, UnlinkBinding,
                   registerDiscoveredDeploymentTargets
    <3>2. m # l BY <2>1, <3>1
    <3>3. lrow'[l] = lrow[l]
      BY <2>0, <2>10, <3>2 DEF SkipLink, InspectLink, FinishLink, UnlinkBinding, SaveBinding,
                               registerDiscoveredDeploymentTargets, LinkShapes
    <3> QED BY <1>1, <3>3
  <2>11. ASSUME NEW m \in GitLinkNames, NEW forget \in BOOLEAN, DeleteBinding(m, forget)
         PROVE FALSE
    BY <2>2, <2>11 DEF DeleteBinding
  <2>12. ASSUME NEW m \in GitLinkNames, NEW mode, NEW sel, CreateBinding(m, mode, sel)
         PROVE Allowed(l)
    <3>1. m # l => lrow'[l] = lrow[l] BY <2>0, <2>12 DEF CreateBinding, LinkShapes
    <3>2. m = l BY <1>1, <3>1
    <3>3. ~OwnershipHeld /\ copy'["create"].stage = "read" /\ copy'["create"].link = m
      BY <2>0, <2>12 DEF CreateBinding, LinkShapes, RowHolders
    <3> QED BY <3>2, <3>3 DEF OwnershipHeld
  <2>13. ASSUME NEW m \in GitLinkNames, NEW mode, NEW sel,
                UpdateBindingComposeSelection(m, mode, sel)
         PROVE FALSE
    BY <2>2, <2>13 DEF UpdateBindingComposeSelection
  <2>14. ASSUME NEW m \in GitLinkNames, NEW sync, NEW amode, NEW asel, NEW deploy,
                NEW fresh, NEW targets,
                UpdateBindingAutomation(m, sync, amode, asel, deploy, fresh, targets)
         PROVE FALSE
    BY <2>2, <2>14 DEF UpdateBindingAutomation
  <2>15. ASSUME NEW m \in GitLinkNames, NEW s,
                EnableGitStackSynchronization(m, s) \/ MarkComposeChange(m, s)
         PROVE FALSE
    BY <2>2, <2>15 DEF EnableGitStackSynchronization, MarkComposeChange
  <2>16. ASSUME NEW m \in GitLinkNames, NEW s, ChangeRemote(m, s) PROVE FALSE
    <3>1. lrow[m] \in LinkRow(m) BY <1>1 DEF LinkInv, LinkRows, StoredOK, SoundRow
    <3>2. lrow'[l].live = lrow[l].live
      BY <2>0, <2>16, <3>1 DEF ChangeRemote, LinkShapes, LinkRow
    <3> QED BY <1>1, <3>2
  <2> QED BY <1>1, <2>4, <2>5, <2>6, <2>7, <2>8, <2>10, <2>11, <2>12, <2>13, <2>14, <2>15,
             <2>16 DEF LinksNext
<1>2. LinkInv /\ [LinksNext]_linkVars =>
        [lrow' # lrow => \A l \in GitLinkNames : Revived(l) => Allowed(l)]_linkVars
  BY <1>1
<1>3. NotResurrected <=>
        [][lrow' # lrow => \A l \in GitLinkNames : Revived(l) => Allowed(l)]_linkVars
  BY DEF NotResurrected
<1> QED BY <1>2, <1>3, LinkInvariant, PTL DEF LinksSpec

-----------------------------------------------------------------------------
(***************************************************************************)
(* The credential of a repository.  Registering checks the credential      *)
(* before there is a row that protects it from deletion, so "a row that is *)
(* ready has its credential" is not inductive: between the clone and the   *)
(* row that says so, it is the row "cloning" that keeps the credential,    *)
(* and the clone that proves it was there.  And a row that was not saved   *)
(* past a request on the credential has no deletion under way against it.  *)
(***************************************************************************)
Registered ==
    /\ register \in {"inspect", "save"} => repoRow = "none"
    /\ register \in {"clone", "cloned"} => repoRow = "cloning"

CloneResolved == repoRow = "ready" \/ register = "cloned"

Undeletable == repoRow # "none" /\ withCred /\ ~raced => "delete" \notin asking

(* What a policy request has read is the row, or an earlier status of it.  *)
PolicyRead ==
    /\ register \in {"inspect", "save"} => policyRow.row = "none"
    /\ register \in {"clone", "cloned"} => policyRow.row \in {"none", "cloning"}
    /\ policyRow.row # "none" /\ repoRow # "none" => policyRow.named = withCred
    /\ policyRow.row = "ready" /\ policyRow.named /\ repoRow # "none" /\ ~raced =>
         cred \in AuthTypes

RepoInv ==
    /\ RepoTypeOK /\ Registered /\ Undeletable /\ PolicyRead
    /\ CloneResolved /\ withCred /\ ~raced => cred \in AuthTypes

LEMMA ResolvedCredential ==
    ASSUME authForRepository, withCred
    PROVE  cred \in AuthTypes
BY DEF authForRepository, validateRepositoryCredential, AuthTypes

LEMMA NoPolicyRowTyped ==
    NoPolicyRow \in [row : {"none", "cloning", "ready", "error"}, named : BOOLEAN]
BY DEF NoPolicyRow

LEMMA RepoTypesKept == RepoTypeOK /\ [RepoNext]_repoVars => RepoTypeOK'
<1> SUFFICES ASSUME RepoTypeOK, [RepoNext]_repoVars PROVE RepoTypeOK' OBVIOUS
<1> USE NoPolicyRowTyped DEF askVars, RepoTypeOK
<1>1. ASSUME NEW type \in AuthTypes, CreateCredential(type) \/ SaveCredential(type)
      PROVE  RepoTypeOK'
  BY <1>1 DEF CreateCredential, SaveCredential
<1>2. ASSUME NEW named \in BOOLEAN, CreateRepository(named) PROVE RepoTypeOK'
  BY <1>2 DEF CreateRepository
<1>3. CASE inspectRemoteBranch \/ cloneRepository \/ SaveReadyRow \/ fetchRepositoryLocked
  BY <1>3 DEF inspectRemoteBranch, cloneRepository, SaveReadyRow, fetchRepositoryLocked
<1>4. CASE SaveCloningRow BY <1>4 DEF SaveCloningRow
<1>5. CASE StopDuringRegistration BY <1>5 DEF StopDuringRegistration
<1>6. CASE UpdateCredential \/ DeleteCredential \/ DeleteCredentialRow
  <2>1. CASE UpdateCredential BY <2>1 DEF UpdateCredential, Ask
  <2>2. CASE DeleteCredential BY <2>2 DEF DeleteCredential, Ask
  <2>3. CASE DeleteCredentialRow BY <2>3 DEF DeleteCredentialRow
  <2> QED BY <1>6, <2>1, <2>2, <2>3
<1>7. CASE UpdateRepositoryPolicy BY <1>7 DEF UpdateRepositoryPolicy
<1>8. CASE SaveRepositoryPolicy
  <2>1. repoRow' \in {"none", "cloning", "ready", "error"} /\ withCred' \in BOOLEAN
    BY <1>8 DEF SaveRepositoryPolicy
  <2>2. raced' \in BOOLEAN BY <1>8 DEF SaveRepositoryPolicy
  <2> QED BY <1>8, <2>1, <2>2 DEF SaveRepositoryPolicy
<1>9. CASE DeleteRepositoryWorkspace \/ DeleteRepository
  BY <1>9 DEF DeleteRepositoryWorkspace, DeleteRepository
<1>10. CASE \/ verifyLegacyWorktreeContainsOnlyTracked \/ ensureCompactRepository
            \/ writeStorageMarker \/ UNCHANGED repoVars
  <2>1. CASE verifyLegacyWorktreeContainsOnlyTracked
    BY <2>1 DEF verifyLegacyWorktreeContainsOnlyTracked
  <2>2. CASE ensureCompactRepository BY <2>2 DEF ensureCompactRepository
  <2>3. CASE writeStorageMarker BY <2>3 DEF writeStorageMarker
  <2>4. CASE UNCHANGED repoVars BY <2>4 DEF repoVars
  <2> QED BY <1>10, <2>1, <2>2, <2>3, <2>4
<1> QED BY <1>1, <1>2, <1>3, <1>4, <1>5, <1>6, <1>7, <1>8, <1>9, <1>10 DEF RepoNext

LEMMA RepoTyped == RepoInit => RepoTypeOK
<1> SUFFICES ASSUME RepoInit PROVE RepoTypeOK OBVIOUS
<1>1. withCred \in BOOLEAN /\ extra \in BOOLEAN BY DEF RepoInit
<1> QED BY <1>1, NoPolicyRowTyped DEF RepoInit, RepoTypeOK, AuthTypes

LEMMA RepoStarts == RepoInit => RepoInv
<1> SUFFICES ASSUME RepoInit PROVE RepoInv OBVIOUS
<1>1. register = "none" /\ repoRow \in {"none", "ready"} /\ policyRow.row = "none" /\ asking = {}
  BY DEF RepoInit, NoPolicyRow
<1>2. ASSUME repoRow = "ready", withCred PROVE cred \in AuthTypes
  BY <1>2 DEF RepoInit, validateRepositoryCredential, AuthTypes
<1> QED BY <1>1, <1>2, RepoTyped
     DEF RepoInv, Registered, CloneResolved, Undeletable, PolicyRead

(* The steps on credentials: a row that names one keeps it from going.     *)
LEMMA CredentialStep ==
    ASSUME RepoInv, RepoTypeOK',
           \/ \E type \in AuthTypes : CreateCredential(type) \/ SaveCredential(type)
           \/ UpdateCredential \/ DeleteCredential \/ DeleteCredentialRow
    PROVE  RepoInv'
<1> USE DEF RepoInv, Registered, CloneResolved, Undeletable, PolicyRead, askVars
<1>1. CASE \E type \in AuthTypes : CreateCredential(type) \/ SaveCredential(type)
  BY <1>1 DEF CreateCredential, SaveCredential
<1>2. CASE UpdateCredential BY <1>2 DEF UpdateCredential, Ask
<1>3. CASE DeleteCredential BY <1>3 DEF DeleteCredential, Ask
<1>4. CASE DeleteCredentialRow
  <2>1. ~(repoRow # "none" /\ withCred /\ ~raced) BY <1>4 DEF DeleteCredentialRow
  <2> QED BY <1>4, <2>1 DEF DeleteCredentialRow
<1> QED BY <1>1, <1>2, <1>3, <1>4

(* The steps of a registration.                                            *)
LEMMA RegistrationStep ==
    ASSUME RepoInv, RepoTypeOK',
           \/ \E named \in BOOLEAN : CreateRepository(named)
           \/ inspectRemoteBranch \/ SaveCloningRow \/ cloneRepository \/ SaveReadyRow
           \/ StopDuringRegistration
    PROVE  RepoInv'
<1> USE DEF RepoInv, Registered, CloneResolved, Undeletable, PolicyRead, askVars, NoPolicyRow
<1>1. CASE \E named \in BOOLEAN : CreateRepository(named)
  BY <1>1 DEF CreateRepository
<1>2. CASE inspectRemoteBranch BY <1>2 DEF inspectRemoteBranch
<1>3. CASE SaveCloningRow BY <1>3 DEF SaveCloningRow
<1>4. CASE cloneRepository BY <1>4, ResolvedCredential DEF cloneRepository
<1>5. CASE SaveReadyRow BY <1>5 DEF SaveReadyRow
<1>6. CASE StopDuringRegistration BY <1>6 DEF StopDuringRegistration
<1> QED BY <1>1, <1>2, <1>3, <1>4, <1>5, <1>6

(* A policy request writes back what it read.                              *)
LEMMA PolicyRowStep ==
    ASSUME RepoInv, RepoTypeOK', UpdateRepositoryPolicy \/ SaveRepositoryPolicy
    PROVE  RepoInv'
<1> USE DEF RepoInv, Registered, CloneResolved, Undeletable, PolicyRead, askVars, NoPolicyRow
<1>1. CASE UpdateRepositoryPolicy BY <1>1 DEF UpdateRepositoryPolicy
<1>2. CASE SaveRepositoryPolicy BY <1>2 DEF SaveRepositoryPolicy
<1> QED BY <1>1, <1>2

LEMMA RepoStep == RepoInv /\ [RepoNext]_repoVars => RepoInv'
<1> SUFFICES ASSUME RepoInv, [RepoNext]_repoVars PROVE RepoInv' OBVIOUS
<1>0. RepoTypeOK' BY RepoTypesKept DEF RepoInv
<1>1. CASE \/ \E type \in AuthTypes : CreateCredential(type) \/ SaveCredential(type)
           \/ UpdateCredential \/ DeleteCredential \/ DeleteCredentialRow
  BY <1>0, <1>1, CredentialStep
<1>2. CASE \/ \E named \in BOOLEAN : CreateRepository(named)
           \/ inspectRemoteBranch \/ SaveCloningRow \/ cloneRepository \/ SaveReadyRow
           \/ StopDuringRegistration
  BY <1>0, <1>2, RegistrationStep
<1>3. CASE UpdateRepositoryPolicy \/ SaveRepositoryPolicy
  BY <1>0, <1>3, PolicyRowStep
<1>4. CASE \/ fetchRepositoryLocked \/ DeleteRepositoryWorkspace \/ DeleteRepository
           \/ verifyLegacyWorktreeContainsOnlyTracked \/ ensureCompactRepository
           \/ writeStorageMarker \/ UNCHANGED repoVars
  <2> USE DEF RepoInv, Registered, CloneResolved, Undeletable, PolicyRead, askVars
  <2>1. CASE fetchRepositoryLocked BY <1>0, <2>1, ResolvedCredential DEF fetchRepositoryLocked
  <2>2. CASE DeleteRepositoryWorkspace BY <1>0, <2>2 DEF DeleteRepositoryWorkspace
  <2>3. CASE DeleteRepository BY <1>0, <2>3 DEF DeleteRepository
  <2>4. CASE \/ verifyLegacyWorktreeContainsOnlyTracked \/ ensureCompactRepository
             \/ writeStorageMarker \/ UNCHANGED repoVars
    BY <1>0, <2>4 DEF verifyLegacyWorktreeContainsOnlyTracked, ensureCompactRepository,
                      writeStorageMarker, repoVars
  <2> QED BY <1>4, <2>1, <2>2, <2>3, <2>4
<1> QED BY <1>1, <1>2, <1>3, <1>4 DEF RepoNext

(* A repository whose row says it is ready has the credential the row      *)
(* names, however registrations, fetches, stops and changes of the         *)
(* credential interleave (repository.go, CreateRepository; service.go,     *)
(* DeleteCredential), unless the row was saved past a deletion that had    *)
(* found the credential unused, or by a policy request after its own       *)
(* deletion.                                                               *)
THEOREM ReadyRepositoryHasCredential == RepoSpec => []ReadyHasCredential
<1>1. RepoInv => ReadyHasCredential BY DEF RepoInv, CloneResolved, ReadyHasCredential
<1> QED BY RepoStarts, RepoStep, <1>1, PTL DEF RepoSpec

(* The row, the registration, the clone and its markers have the values    *)
(* the code gives them (repository.go, repository_storage.go).             *)
THEOREM RepositoryTyped == RepoSpec => []RepoTypeOK
BY RepoTyped, RepoTypesKept, PTL DEF RepoSpec

-----------------------------------------------------------------------------
(***************************************************************************)
(* Proof that an import that asks nobody only replaces content the         *)
(* provider has had, as long as no reset dropped local commits: for any    *)
(* number of commits and edits, with pushes that fail or land late, other  *)
(* committers and rewritten branches in between.                           *)
(*                                                                         *)
(* The property speaks of the step of the import alone; what makes it hold *)
(* was decided earlier.  A baseline may be content the provider never had: *)
(* an export that finds nothing to transfer settles it on a commit whose   *)
(* push failed.  Then the file can equal its baseline without being        *)
(* anywhere else, and the local branch is what protects it (Held): it      *)
(* still ends in that content, and it has commits the provider does not    *)
(* (Settled), so no pull moves it and no import reads it.                  *)
(***************************************************************************)

(* Commits and contents are below the next one to be made; the provider    *)
(* keeps its first commit.                                                 *)
FreshCommits ==
    /\ next \in Nat \ {0}
    /\ \A b \in {origin, branch} :
         /\ b.log \subseteq 1 .. next - 1 /\ 1 \in b.log
         /\ b.file \in 1 .. next - 1
    /\ baseFile \in 1 .. next - 1 /\ hostFile \in 1 .. next - 1

(* A local branch without commits of its own ends in content the provider  *)
(* has had.                                                                *)
Settled == /\ origin.file \in shared
           /\ ~Ahead(branch, origin) => branch.file \in shared

(* A file that equals its baseline, and that the provider never had, is at *)
(* least the tip of the local branch.                                      *)
Held == ~wasReset /\ hostFile = baseFile /\ hostFile \notin shared
          => branch.file = baseFile

(* What an import is about to replace without a decision is its baseline,  *)
(* unless it was edited since.                                             *)
Compared ==
    /\ pushing = "none" \/ importing = "none"
    /\ importing = "modify" /\ ~edited => hostFile = baseFile /\ branch.file # baseFile

HistoryInv == FreshCommits /\ Settled /\ Held /\ Compared

(* The distances that the status is made of.                               *)
LEMMA StatusMeans ==
  ASSUME NEW b, NEW o
  PROVE  /\ RepositoryStatus(b, o) = "up-to-date" => ~Ahead(b, o)
         /\ RepositoryStatus(b, o) = "behind" => ~Ahead(b, o)
<1>1. CASE b.log = o.log  BY <1>1 DEF RepositoryStatus, Ahead
<1>2. CASE b.log # o.log /\ Ahead(b, o)
  BY <1>2 DEF RepositoryStatus
<1>3. CASE ~Ahead(b, o)  BY <1>3
<1> QED  BY <1>1, <1>2, <1>3

(* A commit of somebody else brings the local branch nothing it had.       *)
LEMMA RemoteCommitKeeps == ASSUME HistoryInv, RemoteCommit PROVE HistoryInv'
<1> USE DEF HistoryInv, RemoteCommit, HistoryTick, Quiet
<1>1. PICK kept \in {origin.log, {1}} :
        origin' = [log |-> kept \cup {next}, file |-> next]
  OBVIOUS
<1>2. kept \subseteq origin.log /\ 1 \in kept
  BY DEF FreshCommits
<1>3. FreshCommits'
  BY <1>1, <1>2 DEF FreshCommits
<1>4. next \notin branch.log
  BY DEF FreshCommits
<1>5. ~Ahead(branch, origin)' => ~Ahead(branch, origin)
  BY <1>1, <1>2, <1>4 DEF Ahead
<1>6. Settled'
  BY <1>1, <1>5 DEF Settled
<1>7. Held' /\ Compared'
  BY DEF Held, Compared
<1> QED  BY <1>3, <1>6, <1>7

(* An edit is content nobody has had: it is not the baseline.              *)
LEMMA EditKeeps == ASSUME HistoryInv, EditHostFile PROVE HistoryInv'
<1> USE DEF HistoryInv, EditHostFile, HistoryTick
<1>1. FreshCommits'    BY DEF FreshCommits
<1>2. Settled'  BY DEF Settled, Ahead
<1>3. Held'     BY DEF Held, FreshCommits
<1>4. Compared' BY DEF Compared
<1> QED  BY <1>1, <1>2, <1>3, <1>4

(* A fast-forward leaves only a branch that ends in shared content.        *)
LEMMA PullKeeps == ASSUME HistoryInv, PullRepository PROVE HistoryInv'
<1> USE DEF HistoryInv, PullRepository, Quiet, Unlocked
<1>0. Compared' BY DEF Compared
<1>1. CASE RepositoryStatus(branch, origin) = "behind"
  <2>1. ~Ahead(branch, origin)  BY <1>1, StatusMeans
  <2>2. branch' = origin        BY <1>1
  <2>3. FreshCommits'    BY <2>2 DEF FreshCommits
  <2>4. Settled'  BY <2>2 DEF Settled
  <2>5. Held'     BY <2>1, <2>2 DEF Held, Settled
  <2> QED  BY <1>0, <2>3, <2>4, <2>5
<1>2. CASE RepositoryStatus(branch, origin) # "behind"
  BY <1>0, <1>2 DEF FreshCommits, Settled, Held, Ahead
<1> QED  BY <1>1, <1>2

(* A reset that drops commits ends the promise; one that does not changes  *)
(* nothing.                                                                *)
LEMMA ResetKeeps == ASSUME HistoryInv, ResetRepositoryToRemote PROVE HistoryInv'
<1> USE DEF HistoryInv, ResetRepositoryToRemote, Quiet, Unlocked
<1>0. Compared' BY DEF Compared
<1>1. CASE Ahead(branch, origin)
  BY <1>0, <1>1 DEF FreshCommits, Settled, Held
<1>2. CASE ~Ahead(branch, origin)
  BY <1>0, <1>2 DEF FreshCommits, Settled, Held, Ahead
<1> QED  BY <1>1, <1>2

(* An export commits the file on top of the branch, or settles a baseline  *)
(* that the branch ends in.                                                *)
LEMMA ExportKeeps ==
  ASSUME HistoryInv, NEW resolved \in BOOLEAN, ExportBinding(resolved) PROVE HistoryInv'
<1> DEFINE entry == ExportEntry(hostFile, branch.file, baseFile)
<1>0. UNCHANGED <<origin, hostFile, shared, wasReset>> /\ Compared'
  BY DEF ExportBinding, Quiet, Unlocked, HistoryInv, Compared
<1>1. CASE UNCHANGED <<branch, baseFile, next>>
  BY <1>0, <1>1 DEF HistoryInv, FreshCommits, Settled, Held, Ahead
<1>2. CASE entry = "unchanged" /\ baseFile' = hostFile /\ UNCHANGED <<branch, next>>
  <2>0. hostFile # Absent
    BY DEF HistoryInv, FreshCommits, Absent
  <2>1. hostFile = branch.file
    BY <1>2, <2>0 DEF ExportEntry
  <2> QED  BY <1>0, <1>2, <2>1 DEF HistoryInv, FreshCommits, Settled, Held, Ahead
<1>3. CASE /\ HistoryTick
           /\ branch' = [log |-> branch.log \cup {next}, file |-> hostFile]
           /\ UNCHANGED baseFile
  <2>1. next \notin origin.log /\ next \in branch'.log /\ branch'.file = hostFile
    BY <1>3 DEF HistoryInv, FreshCommits
  <2>2. FreshCommits'    BY <1>0, <1>3 DEF HistoryInv, FreshCommits, HistoryTick
  <2>3. Settled'  BY <1>0, <2>1 DEF HistoryInv, Settled, Ahead
  <2>4. Held'     BY <1>0, <1>3, <2>1 DEF Held
  <2> QED  BY <1>0, <2>2, <2>3, <2>4 DEF HistoryInv
<1> QED  BY <1>1, <1>2, <1>3 DEF ExportBinding

(* What lands is shared from then on.                                      *)
LEMMA PushLandsKeeps == ASSUME HistoryInv, PushLands PROVE HistoryInv'
<1> USE DEF HistoryInv, PushLands, Quiet
<1>1. FreshCommits'    BY DEF FreshCommits
<1>2. Settled'  BY DEF Settled
<1>3. Held'     BY DEF Held
<1>4. Compared' BY DEF Compared
<1> QED  BY <1>1, <1>2, <1>3, <1>4

(* The comparison of an import settles a baseline the branch ends in, or   *)
(* leaves the file as it is for now.                                       *)
LEMMA ImportKeeps ==
  ASSUME HistoryInv, NEW resolved \in BOOLEAN, ImportBinding(resolved) PROVE HistoryInv'
<1>0. /\ UNCHANGED <<origin, branch, hostFile, pushing, shared, wasReset, next>>
      /\ pushing = "none"
  BY DEF ImportBinding, Unlocked
<1>1. importing' = "modify" => hostFile = baseFile' /\ branch.file # baseFile'
  BY DEF ImportBinding, ImportEntry
<1>2. Compared' BY <1>0, <1>1 DEF Compared
<1>3. CASE baseFile' = branch.file
  BY <1>0, <1>2, <1>3 DEF HistoryInv, FreshCommits, Settled, Held, Ahead
<1>4. CASE UNCHANGED baseFile
  BY <1>0, <1>2, <1>4 DEF HistoryInv, FreshCommits, Settled, Held, Ahead
<1> QED  BY <1>3, <1>4 DEF ImportBinding

(* What an import writes is what the branch ends in.                       *)
LEMMA WriteKeeps == ASSUME HistoryInv, WriteHostFile PROVE HistoryInv'
<1>1. Compared' BY DEF WriteHostFile, Compared
<1>2. FreshCommits' /\ Settled' /\ Held'
  BY DEF WriteHostFile, HistoryInv, FreshCommits, Settled, Held, Ahead
<1> QED  BY <1>1, <1>2 DEF HistoryInv

(* Fetches, pushes that begin or fail and imports that fail leave the      *)
(* contents alone.                                                         *)
LEMMA OthersKeep ==
  ASSUME HistoryInv, Compared',
         UNCHANGED <<origin, branch, hostFile, baseFile, shared, wasReset, next>>
  PROVE  HistoryInv'
  BY DEF HistoryInv, FreshCommits, Settled, Held, Ahead

(* Every step preserves the invariant.                                     *)
LEMMA HistoryStep == HistoryInv /\ [HistoryNext]_historyVars => HistoryInv'
<1> SUFFICES ASSUME HistoryInv, [HistoryNext]_historyVars PROVE HistoryInv'
  OBVIOUS
<1>1. CASE \/ FetchRepository \/ PushRepository \/ PushFails \/ ImportFails
           \/ UNCHANGED historyVars
  <2>1. UNCHANGED <<origin, branch, hostFile, baseFile, shared, wasReset, next>>
    BY <1>1 DEF FetchRepository, PushRepository, PushFails, ImportFails, historyVars
  <2>2. Compared'
    BY <1>1 DEF FetchRepository, PushRepository, PushFails, ImportFails, historyVars,
                Quiet, Unlocked, HistoryInv, Compared
  <2> QED BY <2>1, <2>2, OthersKeep
<1> QED
  BY <1>1, RemoteCommitKeeps, EditKeeps, PullKeeps, ResetKeeps, ExportKeeps,
     PushLandsKeeps, ImportKeeps, WriteKeeps DEF HistoryNext

(* At the start everything is the first commit.                            *)
LEMMA HistoryStart == HistoryInit => HistoryInv
  BY DEF HistoryInit, HistoryInv, FreshCommits, Settled, Held, Compared, Ahead

(***************************************************************************)
(* While nobody reset the repository, an import that writes without a      *)
(* decision replaces only content the provider has had, or what was edited *)
(* after it had compared (binding.go, the three-way preview against the    *)
(* baseline, and writeStackFiles, which does not compare again).           *)
(***************************************************************************)
THEOREM ImportsReplaceShared == HistorySpec => SharedBeforeReplaced
<1>1. ASSUME HistoryInv, [HistoryNext]_historyVars
      PROVE  [imported' /\ ~wasReset => hostFile \in shared \/ edited]_historyVars
  <2> SUFFICES ASSUME HistoryNext, imported', ~wasReset, ~edited PROVE hostFile \in shared
    BY <1>1
  <2>1. importing = "modify"
    BY DEF HistoryNext, RemoteCommit, EditHostFile, FetchRepository, PullRepository,
           PushRepository, ResetRepositoryToRemote, PushLands, PushFails, ExportBinding,
           ImportBinding, WriteHostFile, ImportFails, Quiet
  <2>2. hostFile = baseFile /\ branch.file # baseFile
    BY <1>1, <2>1 DEF HistoryInv, Compared
  <2> QED  BY <1>1, <2>2 DEF HistoryInv, Held
<1> QED  BY <1>1, HistoryStart, HistoryStep, PTL DEF HistorySpec, SharedBeforeReplaced

(* The bounds alone: a step takes the next number while there is one.      *)
BranchIn(I, b) == b.log \subseteq I /\ b.file \in I

LEMMA HistoryTypesKept == HistoryTypeOK /\ [HistoryNext]_historyVars => HistoryTypeOK'
<1> SUFFICES ASSUME HistoryTypeOK, [HistoryNext]_historyVars PROVE HistoryTypeOK' OBVIOUS
<1> DEFINE I == 1..MaxHistory
           N == 1..MaxHistory + 1
<1>0. 1 \in I BY GitHistoryAssumption
<1>1. HistoryTick => next \in I /\ next' \in N
  BY GitHistoryAssumption DEF HistoryTick, HistoryTypeOK
<1>2. /\ BranchIn(I, origin) /\ BranchIn(I, tracking) /\ BranchIn(I, branch)
      /\ hostFile \in I /\ baseFile \in I /\ pushing \in {"none", "push", "export"}
      /\ importing \in {"none", "add", "modify", "conflict"}
      /\ shared \subseteq I /\ next \in N
  BY DEF HistoryTypeOK, BranchIn
<1>3. ASSUME BranchIn(I, origin'), BranchIn(I, tracking'), BranchIn(I, branch'),
             hostFile' \in I, baseFile' \in I, pushing' \in {"none", "push", "export"},
             importing' \in {"none", "add", "modify", "conflict"},
             shared' \subseteq I, next' \in N
      PROVE  HistoryTypeOK'
  BY <1>3 DEF HistoryTypeOK, BranchIn
<1> HIDE DEF I, N
<1>4. CASE RemoteCommit \/ EditHostFile
  BY <1>0, <1>1, <1>2, <1>3, <1>4 DEF RemoteCommit, EditHostFile, BranchIn, Quiet
<1>5. CASE FetchRepository \/ PullRepository \/ PushRepository \/ ResetRepositoryToRemote
  BY <1>2, <1>3, <1>5
  DEF FetchRepository, PullRepository, PushRepository, ResetRepositoryToRemote, Quiet
<1>6. CASE PushLands \/ PushFails \/ WriteHostFile \/ ImportFails
  <2>1. CASE PushLands BY <1>2, <1>3, <2>1 DEF PushLands, BranchIn, Quiet
  <2>2. CASE PushFails BY <1>2, <1>3, <2>2 DEF PushFails, Quiet
  <2>3. CASE WriteHostFile BY <1>2, <1>3, <2>3 DEF WriteHostFile, BranchIn
  <2>4. CASE ImportFails BY <1>2, <1>3, <2>4 DEF ImportFails
  <2> QED BY <1>6, <2>1, <2>2, <2>3, <2>4
<1>7. ASSUME NEW resolved \in BOOLEAN, ExportBinding(resolved) PROVE HistoryTypeOK'
  <2>1. /\ tracking' = origin /\ UNCHANGED <<origin, hostFile, importing, shared>>
        /\ \/ UNCHANGED <<branch, baseFile, pushing, next>>
           \/ baseFile' = hostFile /\ UNCHANGED <<branch, pushing, next>>
           \/ /\ HistoryTick /\ pushing' = "export" /\ baseFile' = baseFile
              /\ branch' = [log |-> branch.log \cup {next}, file |-> hostFile]
    BY <1>7 DEF ExportBinding, Quiet
  <2> QED BY <1>1, <1>2, <1>3, <2>1 DEF BranchIn
<1>8. ASSUME NEW resolved \in BOOLEAN, ImportBinding(resolved) PROVE HistoryTypeOK'
  <2>1. /\ tracking' = origin
        /\ UNCHANGED <<origin, branch, hostFile, pushing, shared, next>>
        /\ baseFile' \in {baseFile, branch.file}
        /\ importing' \in {"none", "add", "modify", "conflict"}
    BY <1>8 DEF ImportBinding
  <2> QED BY <1>2, <1>3, <2>1 DEF BranchIn
<1>9. CASE UNCHANGED historyVars BY <1>2, <1>3, <1>9 DEF historyVars
<1> QED BY <1>4, <1>5, <1>6, <1>7, <1>8, <1>9 DEF HistoryNext

(* Branches, files and baselines hold commits and contents there are, and  *)
(* an unanswered push is one of the two kinds (repository.go, binding.go). *)
THEOREM HistoryTyped == HistorySpec => []HistoryTypeOK
<1>1. HistoryInit => HistoryTypeOK BY GitHistoryAssumption DEF HistoryInit, HistoryTypeOK
<1> QED BY <1>1, HistoryTypesKept, PTL DEF HistorySpec

-----------------------------------------------------------------------------
(***************************************************************************)
(* Proof that coalescing loses no push: a delivery that was answered as    *)
(* queued or coalesced, and that no stop and no full queue lost, has been  *)
(* fetched or has a run ahead of it.  For any number of repositories,      *)
(* deliveries and handlers, and any capacity of the queue.                 *)
(*                                                                         *)
(* The mark a delivery relies on is set under the mutex and the queue is   *)
(* filled after it, so a mark has three forms: a handler on its way to the *)
(* queue, a place in the queue, the worker that has just taken it.         *)
(* Marked says a pending repository has one of them, and OneHolder that it *)
(* has only one: were there two, the full queue that takes the mark from   *)
(* under one would leave the deliveries that rely on the other alone.      *)
(***************************************************************************)

Steps == {"none", "sent", "enqueue", "send"} \cup Finished

Sending(r, e) == hRequest[e].repo = r /\ hRequest[e].step = "send"
Taken(r) == hWorker.repo = r /\ hWorker.step = "taken"
Fetching(r) == hWorker.repo = r /\ hWorker.step \in {"taken", "run"}

HookShape ==
    /\ hRequest \in [Deliveries -> [repo : Hooked \cup {"none"}, step : Steps, secret : Nat]]
    /\ \A d \in Deliveries : hRequest[d].step # "none" => hRequest[d].repo \in Hooked
    /\ hSecret \in Nat
    /\ hQueue \in Seq(Hooked)
    /\ hWorker \in [repo : Hooked \cup {"none"}, step : {"idle", "taken", "run", "report"}]

(* A repository that is marked is on its way to a run.                     *)
Marked ==
    \A r \in hPending : \/ \E e \in Deliveries : Sending(r, e)
                        \/ r \in InQueue
                        \/ Taken(r)

(* What is on its way is marked, and is on its way once.                   *)
OneHolder ==
    /\ \A e \in Deliveries : hRequest[e].step = "send" =>
         /\ hRequest[e].repo \in hPending
         /\ hRequest[e].repo \notin InQueue
         /\ ~Taken(hRequest[e].repo)
    /\ \A d, e \in Deliveries :
         hRequest[d].step = "send" /\ Sending(hRequest[d].repo, e) => d = e
    /\ InQueue \subseteq hPending
    /\ hWorker.step = "taken" => hWorker.repo \in hPending /\ hWorker.repo \notin InQueue
    /\ \A i, j \in 1 .. Len(hQueue) : hQueue[i] = hQueue[j] => i = j

(* A delivery that waits for a run: one that was queued has its run ahead, *)
(* one that was coalesced may still rely on a handler.                     *)
Unserved(d) == d \in Deliveries /\ d \notin hSeen \cup hLost

QueuedServed ==
    \A d \in Deliveries : Unserved(d) /\ hRequest[d].step = "queued" =>
        hRequest[d].repo \in InQueue \/ Fetching(hRequest[d].repo)

CoalescedServed ==
    \A d \in Deliveries : Unserved(d) /\ hRequest[d].step = "coalesced" =>
        \/ hRequest[d].repo \in InQueue \/ Fetching(hRequest[d].repo)
        \/ \E e \in Deliveries : Sending(hRequest[d].repo, e)

HookInv == HookShape /\ Marked /\ OneHolder /\ QueuedServed /\ CoalescedServed

-----------------------------------------------------------------------------
(* The channel: what is sent joins the queue, what is received leaves it,  *)
(* and in a queue without duplicates it is gone then.                      *)
LEMMA QueueGrows ==
  ASSUME hQueue \in Seq(Hooked), NEW r \in Hooked, hQueue' = Append(hQueue, r)
  PROVE  /\ hQueue' \in Seq(Hooked)
         /\ InQueue' = InQueue \cup {r}
         /\ r \notin InQueue /\ (\A i, j \in 1 .. Len(hQueue) : hQueue[i] = hQueue[j] => i = j)
              => \A i, j \in 1 .. Len(hQueue') : hQueue'[i] = hQueue'[j] => i = j
<1>1. /\ Len(hQueue') = Len(hQueue) + 1 /\ Len(hQueue) \in Nat
      /\ hQueue'[Len(hQueue) + 1] = r
      /\ \A i \in 1 .. Len(hQueue) : hQueue'[i] = hQueue[i]
  OBVIOUS
<1>2. 1 .. Len(hQueue') = 1 .. Len(hQueue) \cup {Len(hQueue) + 1}
  BY <1>1
<1>3. InQueue' = InQueue \cup {r}
  BY <1>1, <1>2 DEF InQueue
<1> QED  BY <1>1, <1>2, <1>3 DEF InQueue

(* The other end of the channel.                                           *)
LEMMA QueueShrinks ==
  ASSUME hQueue \in Seq(Hooked), hQueue # <<>>, hQueue' = Tail(hQueue)
  PROVE  /\ hQueue' \in Seq(Hooked) /\ Head(hQueue) \in Hooked
         /\ InQueue = InQueue' \cup {Head(hQueue)}
         /\ (\A i, j \in 1 .. Len(hQueue) : hQueue[i] = hQueue[j] => i = j)
              => /\ Head(hQueue) \notin InQueue'
                 /\ \A i, j \in 1 .. Len(hQueue') : hQueue'[i] = hQueue'[j] => i = j
<1>1. /\ Len(hQueue) \in Nat \ {0} /\ Len(hQueue') = Len(hQueue) - 1
      /\ Head(hQueue) = hQueue[1]
      /\ hQueue' \in Seq(Hooked)
      /\ \A i \in 1 .. Len(hQueue') : hQueue'[i] = hQueue[i + 1]
  OBVIOUS
<1>2. \A i \in 1 .. Len(hQueue) : i = 1 \/ (i - 1 \in 1 .. Len(hQueue') /\ hQueue[i] = hQueue'[i - 1])
  BY <1>1
<1>3. \A i \in 1 .. Len(hQueue') : i + 1 \in 1 .. Len(hQueue)
  BY <1>1
<1>4. InQueue \subseteq InQueue' \cup {Head(hQueue)}
  <2> SUFFICES ASSUME NEW i \in 1 .. Len(hQueue), hQueue[i] # Head(hQueue)
               PROVE  hQueue[i] \in InQueue'
    BY DEF InQueue
  <2>1. i - 1 \in 1 .. Len(hQueue') /\ hQueue[i] = hQueue'[i - 1]
    BY <1>1, <1>2
  <2> QED  BY <2>1 DEF InQueue
<1>5. InQueue' \cup {Head(hQueue)} \subseteq InQueue
  BY <1>1, <1>3 DEF InQueue
<1>6. ASSUME \A i, j \in 1 .. Len(hQueue) : hQueue[i] = hQueue[j] => i = j
      PROVE  /\ Head(hQueue) \notin InQueue'
             /\ \A i, j \in 1 .. Len(hQueue') : hQueue'[i] = hQueue'[j] => i = j
  <2>1. ASSUME NEW i \in 1 .. Len(hQueue'), hQueue'[i] = Head(hQueue) PROVE FALSE
    BY <1>1, <1>3, <1>6, <2>1
  <2>2. ASSUME NEW i \in 1 .. Len(hQueue'), NEW j \in 1 .. Len(hQueue'),
               hQueue'[i] = hQueue'[j]
        PROVE  i = j
    <3>1. i + 1 = j + 1  BY <1>1, <1>3, <1>6, <2>2
    <3> QED  BY <3>1, <1>1
  <2> QED  BY <2>1, <2>2 DEF InQueue
<1> QED  BY <1>1, <1>4, <1>5, <1>6

(* The answer of one handler leaves the others and its repository alone.   *)
LEMMA AnswerMeans ==
  ASSUME HookShape, NEW d \in Deliveries, NEW step \in Steps, HookAnswer(d, step)
  PROVE  /\ hRequest' \in [Deliveries -> [repo : Hooked \cup {"none"}, step : Steps,
                                          secret : Nat]]
         /\ hRequest'[d].step = step
         /\ \A e \in Deliveries : hRequest'[e].repo = hRequest[e].repo
         /\ \A e \in Deliveries \ {d} : hRequest'[e].step = hRequest[e].step
  BY DEF HookShape, HookAnswer

-----------------------------------------------------------------------------
(* Steps of handlers before they enqueue: whatever they answer, they are   *)
(* not on their way and rely on nobody.                                    *)
Aside == {"none", "sent", "enqueue", "full", "ignored", "refused"}

LEMMA AsideKeeps ==
  ASSUME HookInv, NEW d \in Deliveries,
         HookShape',
         hRequest[d].step \in Aside, hRequest'[d].step \in Aside,
         \A e \in Deliveries \ {d} : hRequest'[e] = hRequest[e],
         UNCHANGED <<hPending, hQueue, hWorker, hSeen, hLost>>
  PROVE  HookInv'
<1> USE DEF HookInv, Aside, Sending, Taken, Fetching, InQueue
<1>1. \A e \in Deliveries : hRequest'[e].step \notin Aside \/ hRequest[e].step \notin Aside
                              => hRequest'[e] = hRequest[e] /\ e # d
  OBVIOUS
<1>2. \A r, e : e \in Deliveries => (Sending(r, e)' <=> Sending(r, e))
  BY <1>1
<1>3. Marked'           BY <1>2 DEF Marked
<1>4. OneHolder'        BY <1>1 DEF OneHolder
<1>5. QueuedServed'     BY <1>1 DEF QueuedServed, Unserved
<1>6. CoalescedServed'  BY <1>1, <1>2 DEF CoalescedServed, Unserved
<1> QED  BY <1>3, <1>4, <1>5, <1>6

(* A delivery arrives, again or for the first time.                        *)
LEMMA DeliverKeeps == ASSUME HookInv, NEW d \in Deliveries, Deliver(d) PROVE HookInv'
<1>1. RepoOf[d] \in Hooked
  BY GitWebhookAssumption DEF Deliveries
<1>2. hRequest'[d] = [repo |-> RepoOf[d], step |-> "sent", secret |-> hSecret]
  BY DEF Deliver, HookInv, HookShape
<1>3. \A e \in Deliveries \ {d} : hRequest'[e] = hRequest[e]
  BY DEF Deliver, HookInv, HookShape
<1>4. HookShape'
  <2>1. [repo |-> RepoOf[d], step |-> "sent", secret |-> hSecret]
          \in [repo : Hooked \cup {"none"}, step : Steps, secret : Nat]
    BY <1>1 DEF HookInv, HookShape, Steps
  <2>2. hRequest' \in [Deliveries -> [repo : Hooked \cup {"none"}, step : Steps,
                                      secret : Nat]]
    BY <2>1 DEF Deliver, HookInv, HookShape
  <2>3. \A e \in Deliveries : hRequest'[e].step # "none" => hRequest'[e].repo \in Hooked
    BY <1>1, <1>2, <1>3 DEF HookInv, HookShape
  <2> QED  BY <2>2, <2>3 DEF Deliver, HookInv, HookShape
<1>5. hRequest[d].step \in Aside /\ hRequest'[d].step \in Aside
  BY <1>2 DEF Deliver, Aside
<1>6. UNCHANGED <<hPending, hQueue, hWorker, hSeen, hLost>>
  BY DEF Deliver
<1> QED  BY <1>3, <1>4, <1>5, <1>6, AsideKeeps

(* The handler checks the signature and records the delivery.              *)
LEMMA ReceiveKeeps ==
  ASSUME HookInv, NEW d \in Deliveries, receiveGitHubWebhook(d) PROVE HookInv'
<1>1. PICK step \in {"refused", "enqueue", "ignored"} : HookAnswer(d, step)
  BY DEF receiveGitHubWebhook
<1>2. step \in Steps
  BY DEF Steps, Finished
<1>3. /\ hRequest' \in [Deliveries -> [repo : Hooked \cup {"none"}, step : Steps,
                                       secret : Nat]]
      /\ hRequest'[d].step = step
      /\ \A e \in Deliveries : hRequest'[e].repo = hRequest[e].repo
      /\ \A e \in Deliveries \ {d} : hRequest'[e].step = hRequest[e].step
  BY <1>1, <1>2, AnswerMeans DEF HookInv
<1>4. UNCHANGED <<hSecret, hPending, hQueue, hWorker, hSeen, hLost>> /\ hRequest[d].step = "sent"
  BY DEF receiveGitHubWebhook
<1>5. \A e \in Deliveries \ {d} : hRequest'[e] = hRequest[e]
  BY <1>1 DEF HookAnswer, HookInv, HookShape
<1>6. HookShape'
  BY <1>3, <1>4 DEF HookInv, HookShape
<1> QED  BY <1>3, <1>4, <1>5, <1>6, AsideKeeps DEF Aside

-----------------------------------------------------------------------------
(* The mark: a delivery of a marked repository relies on what marked it,   *)
(* the first one is itself on its way.                                     *)
LEMMA MarkKeeps == ASSUME HookInv, NEW d \in Deliveries, MarkPending(d) PROVE HookInv'
<1> DEFINE r == hRequest[d].repo
<1>0. r \in Hooked /\ hRequest[d].step = "enqueue"
  BY DEF MarkPending, HookInv, HookShape
<1>1. UNCHANGED <<hSecret, hQueue, hWorker, hSeen, hLost>> /\ InQueue' = InQueue
  BY DEF MarkPending, InQueue
<1>2. CASE r \in hPending /\ HookAnswer(d, "coalesced") /\ UNCHANGED hPending
  <2>1. /\ hRequest' \in [Deliveries -> [repo : Hooked \cup {"none"}, step : Steps,
                                         secret : Nat]]
        /\ hRequest'[d].step = "coalesced"
        /\ \A e \in Deliveries : hRequest'[e].repo = hRequest[e].repo
        /\ \A e \in Deliveries \ {d} : hRequest'[e].step = hRequest[e].step
    BY <1>2, AnswerMeans DEF HookInv, Steps, Finished
  <2> HIDE DEF r
  <2>2. \A q, e : e \in Deliveries => (Sending(q, e)' <=> Sending(q, e))
    BY <1>0, <2>1 DEF Sending
  <2>3. HookShape'
    BY <1>0, <1>1, <2>1 DEF HookInv, HookShape, r
  <2>4. Marked'
    BY <1>1, <1>2, <2>2 DEF HookInv, Marked, Taken
  <2>5. OneHolder'
    BY <1>0, <1>1, <1>2, <2>1 DEF HookInv, OneHolder, Taken, Sending
  <2>6. QueuedServed'
    BY <1>1, <2>1 DEF HookInv, QueuedServed, Unserved, Fetching
  <2>7. CoalescedServed'
    <3> SUFFICES ASSUME NEW e \in Deliveries, Unserved(e)', hRequest'[e].step = "coalesced"
                 PROVE  \/ hRequest'[e].repo \in InQueue' \/ Fetching(hRequest[e].repo)'
                        \/ \E f \in Deliveries : Sending(hRequest[e].repo, f)'
      BY DEF CoalescedServed
    <3>1. Unserved(e)  BY <1>1 DEF Unserved
    <3>2. CASE e = d
      BY <1>1, <1>2, <2>1, <2>2, <3>2 DEF HookInv, Marked, Taken, Fetching, r
    <3>3. CASE e # d
      BY <1>1, <2>1, <2>2, <3>1, <3>3 DEF HookInv, CoalescedServed, Fetching
    <3> QED  BY <3>2, <3>3
  <2> QED  BY <2>3, <2>4, <2>5, <2>6, <2>7 DEF HookInv
<1>3. CASE r \notin hPending /\ HookAnswer(d, "send") /\ hPending' = hPending \cup {r}
  <2>1. /\ hRequest' \in [Deliveries -> [repo : Hooked \cup {"none"}, step : Steps,
                                         secret : Nat]]
        /\ hRequest'[d].step = "send"
        /\ \A e \in Deliveries : hRequest'[e].repo = hRequest[e].repo
        /\ \A e \in Deliveries \ {d} : hRequest'[e].step = hRequest[e].step
    BY <1>3, AnswerMeans DEF HookInv, Steps, Finished
  <2>2. \A q, e : e \in Deliveries => (Sending(q, e) => Sending(q, e)')
    BY <1>0, <2>1 DEF Sending
  <2>3. HookShape'
    BY <1>0, <1>1, <2>1 DEF HookInv, HookShape
  <2>4. Marked'
    BY <1>0, <1>1, <1>3, <2>1, <2>2 DEF HookInv, Marked, Taken, Sending
  <2>5. /\ r \notin InQueue /\ ~Taken(r)
        /\ \A e \in Deliveries : hRequest[e].step = "send" => hRequest[e].repo # r
    BY <1>3 DEF HookInv, OneHolder, Taken
  <2>6. OneHolder'
    <3>1. \A e \in Deliveries : hRequest'[e].step = "send" =>
             /\ hRequest'[e].repo \in hPending'
             /\ hRequest'[e].repo \notin InQueue'
             /\ ~Taken(hRequest[e].repo)'
      BY <1>1, <1>3, <2>1, <2>5 DEF HookInv, OneHolder, Taken
    <3>2. \A c, e \in Deliveries :
            hRequest'[c].step = "send" /\ Sending(hRequest[c].repo, e)' => c = e
      BY <2>1, <2>5 DEF HookInv, OneHolder, Sending
    <3> QED  BY <1>1, <1>3, <3>1, <3>2 DEF HookInv, OneHolder
  <2>7. QueuedServed'
    BY <1>1, <2>1 DEF HookInv, QueuedServed, Unserved, Fetching
  <2>8. CoalescedServed'
    BY <1>1, <2>1, <2>2 DEF HookInv, CoalescedServed, Unserved, Fetching
  <2> QED  BY <2>3, <2>4, <2>6, <2>7, <2>8 DEF HookInv
<1> QED  BY <1>2, <1>3 DEF MarkPending

(* The queue: room turns the handler into a place in it; a full one takes  *)
(* the mark back, and with it the deliveries that relied on this handler.  *)
LEMMA EnqueueKeeps ==
  ASSUME HookInv, NEW d \in Deliveries, enqueueWebhookRepository(d) PROVE HookInv'
<1> DEFINE r == hRequest[d].repo
<1>0. r \in Hooked /\ hRequest[d].step = "send"
  BY DEF enqueueWebhookRepository, HookInv, HookShape
<1>1. UNCHANGED <<hSecret, hWorker, hSeen>>
  BY DEF enqueueWebhookRepository
<1>2. /\ r \in hPending /\ r \notin InQueue /\ ~Taken(r)
      /\ \A e \in Deliveries : Sending(r, e) => e = d
  BY <1>0 DEF HookInv, OneHolder
<1>3. CASE hQueue' = Append(hQueue, r) /\ HookAnswer(d, "queued") /\ UNCHANGED <<hPending, hLost>>
  <2>1. /\ hRequest' \in [Deliveries -> [repo : Hooked \cup {"none"}, step : Steps,
                                         secret : Nat]]
        /\ hRequest'[d].step = "queued"
        /\ \A e \in Deliveries : hRequest'[e].repo = hRequest[e].repo
        /\ \A e \in Deliveries \ {d} : hRequest'[e].step = hRequest[e].step
    BY <1>3, AnswerMeans DEF HookInv, Steps, Finished
  <2>2. /\ hQueue' \in Seq(Hooked)
        /\ InQueue' = InQueue \cup {r}
        /\ \A i, j \in 1 .. Len(hQueue') : hQueue'[i] = hQueue'[j] => i = j
    BY <1>0, <1>2, <1>3, QueueGrows DEF HookInv, HookShape, OneHolder
  <2>3. HookShape'
    BY <1>0, <1>1, <2>1, <2>2 DEF HookInv, HookShape
  <2>4. \A q, e : e \in Deliveries /\ Sending(q, e) => Sending(q, e)' \/ q = r
    BY <2>1 DEF Sending
  <2>5. \A q, e : e \in Deliveries /\ Sending(q, e)' => Sending(q, e) /\ q # r
    BY <1>2, <2>1 DEF Sending
  <2>6. Marked'
    BY <1>1, <1>3, <2>2, <2>4 DEF HookInv, Marked, Taken
  <2>7. OneHolder'
    <3>1. \A e \in Deliveries : hRequest'[e].step = "send" =>
             /\ hRequest'[e].repo \in hPending'
             /\ hRequest'[e].repo \notin InQueue'
             /\ ~Taken(hRequest[e].repo)'
      BY <1>1, <1>2, <1>3, <2>1, <2>2 DEF HookInv, OneHolder, Taken, Sending
    <3>2. \A c, e \in Deliveries :
            hRequest'[c].step = "send" /\ Sending(hRequest[c].repo, e)' => c = e
      BY <2>1 DEF HookInv, OneHolder, Sending
    <3>3. InQueue' \subseteq hPending'
      BY <1>2, <1>3, <2>2 DEF HookInv, OneHolder
    <3>4. hWorker'.step = "taken" => hWorker'.repo \in hPending' /\ hWorker'.repo \notin InQueue'
      BY <1>1, <1>2, <1>3, <2>2 DEF HookInv, OneHolder, Taken
    <3> QED  BY <2>1, <2>2, <3>1, <3>2, <3>3, <3>4 DEF OneHolder
  <2>8. QueuedServed'
    BY <1>1, <1>3, <2>1, <2>2 DEF HookInv, QueuedServed, Unserved, Fetching
  <2>9. CoalescedServed'
    BY <1>1, <1>3, <2>1, <2>2, <2>4 DEF HookInv, CoalescedServed, Unserved, Fetching
  <2> QED  BY <2>3, <2>6, <2>7, <2>8, <2>9 DEF HookInv
<1>4. CASE /\ hPending' = hPending \ {r} /\ HookAnswer(d, "full") /\ UNCHANGED hQueue
           /\ hLost' = hLost \cup CoalescedUnseen(r)
  <2>1. /\ hRequest' \in [Deliveries -> [repo : Hooked \cup {"none"}, step : Steps,
                                         secret : Nat]]
        /\ hRequest'[d].step = "full"
        /\ \A e \in Deliveries : hRequest'[e].repo = hRequest[e].repo
        /\ \A e \in Deliveries \ {d} : hRequest'[e].step = hRequest[e].step
    BY <1>4, AnswerMeans DEF HookInv, Steps, Finished
  <2>2. InQueue' = InQueue
    BY <1>4 DEF InQueue
  <2>3. HookShape'
    BY <1>0, <1>1, <1>4, <2>1 DEF HookInv, HookShape
  <2>4. \A q, e : e \in Deliveries /\ Sending(q, e) => Sending(q, e)' \/ q = r
    BY <2>1 DEF Sending
  <2>5. \A e \in Deliveries : hRequest'[e].step = "send" =>
          hRequest[e].step = "send" /\ hRequest[e].repo # r
    BY <1>2, <2>1 DEF Sending
  <2>6. Marked'
    BY <1>1, <1>4, <2>2, <2>4 DEF HookInv, Marked, Taken
  <2>7. OneHolder'
    <3>1. \A e \in Deliveries : hRequest'[e].step = "send" =>
             /\ hRequest'[e].repo \in hPending'
             /\ hRequest'[e].repo \notin InQueue'
             /\ ~Taken(hRequest[e].repo)'
      BY <1>1, <1>4, <2>1, <2>2, <2>5 DEF HookInv, OneHolder, Taken
    <3>2. \A c, e \in Deliveries :
            hRequest'[c].step = "send" /\ Sending(hRequest[c].repo, e)' => c = e
      BY <2>1 DEF HookInv, OneHolder, Sending
    <3>3. InQueue' \subseteq hPending'
      BY <1>2, <1>4, <2>2 DEF HookInv, OneHolder
    <3>4. hWorker'.step = "taken" => hWorker'.repo \in hPending' /\ hWorker'.repo \notin InQueue'
      BY <1>1, <1>2, <1>4, <2>2 DEF HookInv, OneHolder, Taken
    <3> QED  BY <1>4, <2>1, <3>1, <3>2, <3>3, <3>4 DEF HookInv, OneHolder
  <2>8. QueuedServed'
    BY <1>1, <1>4, <2>1, <2>2 DEF HookInv, QueuedServed, Unserved, Fetching
  <2>9. CoalescedServed'
    <3> SUFFICES ASSUME NEW e \in Deliveries, Unserved(e)', hRequest'[e].step = "coalesced"
                 PROVE  \/ hRequest'[e].repo \in InQueue' \/ Fetching(hRequest[e].repo)'
                        \/ \E f \in Deliveries : Sending(hRequest[e].repo, f)'
      BY DEF CoalescedServed
    <3>1. e # d /\ hRequest[e].step = "coalesced" /\ Unserved(e)
      BY <1>1, <1>4, <2>1 DEF Unserved
    <3>2. hRequest[e].repo # r
      BY <1>1, <1>4, <3>1 DEF Unserved, CoalescedUnseen
    <3>3. \/ hRequest[e].repo \in InQueue \/ Fetching(hRequest[e].repo)
          \/ \E f \in Deliveries : Sending(hRequest[e].repo, f)
      BY <3>1 DEF HookInv, CoalescedServed
    <3>4. hRequest'[e].repo = hRequest[e].repo  BY <2>1
    <3> HIDE DEF r
    <3> QED  BY <1>1, <2>1, <2>2, <2>4, <3>2, <3>3, <3>4 DEF Fetching
  <2> QED  BY <2>3, <2>6, <2>7, <2>8, <2>9 DEF HookInv
<1> QED  BY <1>3, <1>4 DEF enqueueWebhookRepository

-----------------------------------------------------------------------------
(* The worker takes the head of the queue: its mark is the worker's now.   *)
LEMMA TakeKeeps == ASSUME HookInv, TakeFromQueue PROVE HookInv'
<1>1. UNCHANGED <<hSecret, hRequest, hPending, hSeen, hLost>> /\ hWorker.step = "idle"
  BY DEF TakeFromQueue
<1>2. /\ hQueue' \in Seq(Hooked) /\ Head(hQueue) \in Hooked
      /\ InQueue = InQueue' \cup {Head(hQueue)}
      /\ Head(hQueue) \notin InQueue'
      /\ \A i, j \in 1 .. Len(hQueue') : hQueue'[i] = hQueue'[j] => i = j
  BY QueueShrinks DEF TakeFromQueue, HookInv, HookShape, OneHolder
<1>3. hWorker' = [repo |-> Head(hQueue), step |-> "taken"]
  BY DEF TakeFromQueue
<1>4. HookShape'
  BY <1>1, <1>2, <1>3 DEF HookInv, HookShape
<1>5. Marked'
  BY <1>1, <1>2, <1>3 DEF HookInv, Marked, Taken, Sending
<1>6. OneHolder'
  BY <1>1, <1>2, <1>3 DEF HookInv, OneHolder, Taken, Sending
<1>7. QueuedServed'
  BY <1>1, <1>2, <1>3 DEF HookInv, QueuedServed, Unserved, Fetching
<1>8. CoalescedServed'
  BY <1>1, <1>2, <1>3 DEF HookInv, CoalescedServed, Unserved, Fetching, Sending
<1> QED  BY <1>4, <1>5, <1>6, <1>7, <1>8 DEF HookInv

(* The mark goes, and the run that follows serves who relied on it.        *)
LEMMA StartKeeps == ASSUME HookInv, StartWebhookWorker PROVE HookInv'
<1>1. /\ UNCHANGED <<hSecret, hRequest, hQueue, hSeen, hLost>> /\ InQueue' = InQueue
      /\ hWorker.step = "taken" /\ hPending' = hPending \ {hWorker.repo}
  BY DEF StartWebhookWorker, InQueue
<1>2. hWorker'.repo = hWorker.repo /\ hWorker'.step = "run"
  BY DEF StartWebhookWorker, HookInv, HookShape
<1>3. HookShape'
  BY DEF StartWebhookWorker, HookInv, HookShape
<1>4. Marked'
  BY <1>1, <1>2 DEF HookInv, Marked, Taken, Sending
<1>5. OneHolder'
  BY <1>1, <1>2 DEF HookInv, OneHolder, Taken, Sending
<1>6. QueuedServed'
  BY <1>1, <1>2 DEF HookInv, QueuedServed, Unserved, Fetching
<1>7. CoalescedServed'
  BY <1>1, <1>2 DEF HookInv, CoalescedServed, Unserved, Fetching, Sending
<1> QED  BY <1>3, <1>4, <1>5, <1>6, <1>7 DEF HookInv

(* The run fetches every push that was announced before it.                *)
LEMMA FetchKeeps == ASSUME HookInv, FetchForWebhook PROVE HookInv'
<1>1. /\ UNCHANGED <<hSecret, hRequest, hPending, hQueue, hLost>> /\ InQueue' = InQueue
      /\ hWorker.step = "run"
      /\ hSeen' = hSeen \cup {d \in Deliveries : hRequest[d].repo = hWorker.repo}
  BY DEF FetchForWebhook, InQueue
<1>2. hWorker'.repo = hWorker.repo /\ hWorker'.step = "report"
  BY DEF FetchForWebhook, HookInv, HookShape
<1>3. HookShape'
  BY DEF FetchForWebhook, HookInv, HookShape
<1>4. Marked'
  BY <1>1, <1>2 DEF HookInv, Marked, Taken, Sending
<1>5. OneHolder'
  BY <1>1, <1>2 DEF HookInv, OneHolder, Taken, Sending
<1>6. QueuedServed'
  BY <1>1, <1>2 DEF HookInv, QueuedServed, Unserved, Fetching
<1>7. CoalescedServed'
  BY <1>1, <1>2 DEF HookInv, CoalescedServed, Unserved, Fetching, Sending
<1> QED  BY <1>3, <1>4, <1>5, <1>6, <1>7 DEF HookInv

(* The end of a run: nobody waits for it any more.                         *)
LEMMA ReportKeeps == ASSUME HookInv, runWebhookRepository PROVE HookInv'
<1>1. /\ UNCHANGED <<hSecret, hRequest, hPending, hQueue, hSeen, hLost>> /\ InQueue' = InQueue
      /\ hWorker.step = "report" /\ hWorker' = IdleWorker
  BY DEF runWebhookRepository, InQueue
<1>2. hWorker'.step = "idle"
  BY <1>1 DEF IdleWorker
<1>3. HookShape'
  BY <1>1 DEF HookInv, HookShape, IdleWorker
<1>4. Marked'
  BY <1>1 DEF HookInv, Marked, Taken, Sending
<1>5. OneHolder'
  BY <1>1, <1>2 DEF HookInv, OneHolder, Taken, Sending
<1>6. QueuedServed'
  BY <1>1 DEF HookInv, QueuedServed, Unserved, Fetching
<1>7. CoalescedServed'
  BY <1>1 DEF HookInv, CoalescedServed, Unserved, Fetching, Sending
<1> QED  BY <1>3, <1>4, <1>5, <1>6, <1>7 DEF HookInv

(* A stop forgets the marks with everything that held them.                *)
LEMMA StopKeeps == ASSUME HookInv, StopWebhooks PROVE HookInv'
<1>1. /\ hPending' = {} /\ hQueue' = <<>> /\ hWorker' = IdleWorker
      /\ UNCHANGED <<hSecret, hSeen>>
      /\ hLost' = hLost \cup {d \in Deliveries \ hSeen :
                                hRequest[d].step \in {"queued", "coalesced"}}
      /\ hRequest' = [d \in Deliveries |->
                        IF hRequest[d].step \in {"sent", "enqueue", "send"}
                        THEN [hRequest[d] EXCEPT !.step = "refused"] ELSE hRequest[d]]
  BY DEF StopWebhooks
<1>2. \A d \in Deliveries :
        /\ hRequest'[d] \in [repo : Hooked \cup {"none"}, step : Steps, secret : Nat]
        /\ hRequest'[d].repo = hRequest[d].repo
        /\ \/ hRequest'[d].step = "refused" /\ hRequest[d].step # "none"
           \/ hRequest'[d].step = hRequest[d].step
        /\ hRequest'[d].step # "send"
  <2> SUFFICES ASSUME NEW d \in Deliveries
               PROVE /\ hRequest'[d] \in [repo : Hooked \cup {"none"}, step : Steps,
                                          secret : Nat]
                     /\ hRequest'[d].repo = hRequest[d].repo
                     /\ \/ hRequest'[d].step = "refused" /\ hRequest[d].step # "none"
                        \/ hRequest'[d].step = hRequest[d].step
                     /\ hRequest'[d].step # "send"
    OBVIOUS
  <2>1. hRequest[d] \in [repo : Hooked \cup {"none"}, step : Steps, secret : Nat]
    BY DEF HookInv, HookShape
  <2>2. CASE hRequest[d].step \in {"sent", "enqueue", "send"}
    <3>1. hRequest'[d] = [hRequest[d] EXCEPT !.step = "refused"]  BY <1>1, <2>2
    <3> QED  BY <2>1, <2>2, <3>1 DEF Steps, Finished
  <2>3. CASE hRequest[d].step \notin {"sent", "enqueue", "send"}
    <3>1. hRequest'[d] = hRequest[d]  BY <1>1, <2>3
    <3> QED  BY <2>1, <2>3, <3>1
  <2> QED  BY <2>2, <2>3
<1>3. hQueue' \in Seq(Hooked) /\ Len(hQueue') = 0 /\ InQueue' = {} /\ hWorker'.step = "idle"
  BY <1>1 DEF InQueue, IdleWorker
<1>4. HookShape'
  <2>1. hRequest' \in [Deliveries -> [repo : Hooked \cup {"none"}, step : Steps,
                                      secret : Nat]]
    BY <1>1, <1>2
  <2> QED  BY <1>1, <1>2, <1>3, <2>1 DEF HookInv, HookShape, IdleWorker
<1>5. Marked' /\ OneHolder'
  BY <1>1, <1>2, <1>3 DEF Marked, OneHolder
<1>6. QueuedServed' /\ CoalescedServed'
  BY <1>1, <1>2 DEF QueuedServed, CoalescedServed, Unserved
<1> QED  BY <1>4, <1>5, <1>6 DEF HookInv

(* A new configuration touches no delivery that is on its way.             *)
LEMMA ConfigureKeeps ==
  ASSUME HookInv, NEW on \in BOOLEAN, NEW rotate \in BOOLEAN,
         ConfigureRepositoryWebhook(on, rotate)
  PROVE  HookInv'
<1>1. UNCHANGED <<hRequest, hPending, hQueue, hWorker, hSeen, hLost>> /\ hSecret' \in Nat
  BY DEF ConfigureRepositoryWebhook, HookInv, HookShape
<1> QED
  BY <1>1 DEF HookInv, HookShape, Marked, OneHolder, QueuedServed, CoalescedServed, Unserved,
              InQueue, Taken, Fetching, Sending

(* Every step preserves the invariant.                                     *)
LEMMA HookStep == HookInv /\ [HookNext]_hookVars => HookInv'
<1> SUFFICES ASSUME HookInv, [HookNext]_hookVars PROVE HookInv'
  OBVIOUS
<1>1. CASE UNCHANGED hookVars
  BY <1>1 DEF hookVars, HookInv, HookShape, Marked, OneHolder, QueuedServed, CoalescedServed,
              Unserved, InQueue, Taken, Fetching, Sending
<1> QED
  BY <1>1, ConfigureKeeps, DeliverKeeps, ReceiveKeeps, MarkKeeps, EnqueueKeeps, TakeKeeps,
     StartKeeps, FetchKeeps, ReportKeeps, StopKeeps DEF HookNext

(* At the start there is no delivery.                                      *)
LEMMA HookStart == HookInit => HookInv
<1> SUFFICES ASSUME HookInit PROVE HookInv
  OBVIOUS
<1>1. \A d \in Deliveries : hRequest[d] = NoRequest
  BY DEF HookInit
<1>2. HookShape
  <2>1. NoRequest \in [repo : Hooked \cup {"none"}, step : Steps, secret : Nat]
    BY DEF NoRequest, Steps
  <2> QED  BY <2>1 DEF HookInit, HookShape, NoRequest, IdleWorker
<1>3. Marked /\ OneHolder /\ QueuedServed /\ CoalescedServed
  BY <1>1 DEF HookInit, Marked, OneHolder, QueuedServed, CoalescedServed, InQueue, NoRequest,
              IdleWorker
<1> QED  BY <1>2, <1>3 DEF HookInv

(***************************************************************************)
(* A webhook that was answered with "queued" or "coalesced" is followed by *)
(* a run of its repository, however the handlers and the worker interleave *)
(* and wherever the secret is rotated; only a stop of Dockman, or the full *)
(* queue that a later delivery meets, may lose it (webhook.go,             *)
(* enqueueWebhookRepository and StartWebhookWorker).                       *)
(***************************************************************************)
THEOREM AcceptedHasItsRun == HookSpec => []AcceptedIsSeen
<1>1. HookInv => AcceptedIsSeen
  BY DEF HookInv, QueuedServed, CoalescedServed, AcceptedIsSeen, Unserved, Fetching, Sending
<1> QED  BY <1>1, HookStart, HookStep, PTL DEF HookSpec

(* The marks and the channel; the shapes of the rest are in HookInv.       *)
QueueBounds == hPending \subseteq Hooked /\ Len(hQueue) <= QueueSize

LEMMA BoundsKept == HookInv /\ QueueBounds /\ [HookNext]_hookVars => QueueBounds'
<1> SUFFICES ASSUME HookInv, QueueBounds, [HookNext]_hookVars PROVE QueueBounds' OBVIOUS
<1>1. HookShape /\ QueueSize \in Nat /\ hQueue \in Seq(Hooked) /\ Len(hQueue) \in Nat
  BY GitWebhookAssumption, LenProperties DEF HookInv, HookShape
<1>2. CASE UNCHANGED <<hPending, hQueue>> BY <1>2 DEF QueueBounds
<1>3. CASE \/ \E on, rotate \in BOOLEAN : ConfigureRepositoryWebhook(on, rotate)
           \/ \E d \in Deliveries : Deliver(d) \/ receiveGitHubWebhook(d)
           \/ FetchForWebhook \/ runWebhookRepository \/ UNCHANGED hookVars
  BY <1>2, <1>3 DEF ConfigureRepositoryWebhook, Deliver, receiveGitHubWebhook, FetchForWebhook,
                    runWebhookRepository, hookVars
<1>4. ASSUME NEW d \in Deliveries, MarkPending(d) PROVE QueueBounds'
  <2>1. hRequest[d].step = "enqueue" /\ hQueue' = hQueue
        /\ (hPending' = hPending \/ hPending' = hPending \cup {hRequest[d].repo})
    BY <1>4 DEF MarkPending
  <2>2. hRequest[d].repo \in Hooked BY <1>1, <2>1 DEF HookShape
  <2> QED BY <2>1, <2>2 DEF QueueBounds
<1>5. ASSUME NEW d \in Deliveries, enqueueWebhookRepository(d) PROVE QueueBounds'
  <2>1. /\ hRequest[d].step = "send"
        /\ \/ /\ Len(hQueue) < QueueSize /\ hQueue' = Append(hQueue, hRequest[d].repo)
              /\ hPending' = hPending
           \/ hPending' \subseteq hPending /\ hQueue' = hQueue
    BY <1>5 DEF enqueueWebhookRepository
  <2>2. hRequest[d].repo \in Hooked BY <1>1, <2>1 DEF HookShape
  <2>3. Len(Append(hQueue, hRequest[d].repo)) = Len(hQueue) + 1 BY <1>1, <2>2, AppendProperties
  <2> QED BY <1>1, <2>1, <2>3 DEF QueueBounds
<1>6. CASE TakeFromQueue
  <2>1. hQueue # <<>> /\ hQueue' = Tail(hQueue) /\ hPending' = hPending BY <1>6 DEF TakeFromQueue
  <2>2. Len(Tail(hQueue)) = Len(hQueue) - 1 BY <1>1, <2>1, HeadTailProperties
  <2> QED BY <1>1, <2>1, <2>2 DEF QueueBounds
<1>7. CASE StartWebhookWorker BY <1>7 DEF StartWebhookWorker, QueueBounds
<1>8. CASE StopWebhooks
  <2>1. hPending' = {} /\ hQueue' = <<>> BY <1>8 DEF StopWebhooks
  <2> QED BY <1>1, <2>1, EmptySeq DEF QueueBounds
<1> QED BY <1>3, <1>4, <1>5, <1>6, <1>7, <1>8 DEF HookNext

(* Only repositories with a webhook are marked and queued, and no more     *)
(* than the channel holds (webhook.go: enqueueWebhookRepository).          *)
THEOREM WebhooksTyped == HookSpec => []HookTypeOK
<1>1. HookInit => QueueBounds BY GitWebhookAssumption, EmptySeq DEF HookInit, QueueBounds
<1>2. HookInv /\ QueueBounds => HookTypeOK
  <2> SUFFICES ASSUME HookInv, QueueBounds PROVE HookTypeOK OBVIOUS
  <2>1. HookShape BY DEF HookInv
  <2>2. InQueue \subseteq Hooked BY <2>1, ElementOfSeq DEF InQueue, HookShape
  <2>3. \A d \in Deliveries : hRequest[d].step \in Steps BY <2>1 DEF HookShape
  <2>4. hWorker.step \in {"idle", "taken", "run", "report"} BY <2>1 DEF HookShape
  <2> QED BY <2>2, <2>3, <2>4 DEF HookTypeOK, QueueBounds, Steps
<1> QED BY <1>1, <1>2, BoundsKept, HookStart, HookStep, PTL DEF HookSpec

-----------------------------------------------------------------------------
(***************************************************************************)
(* Proofs about GitProvision: for any number of runs, outside writes and   *)
(* stops, a rollback that reports success put every path back that nobody  *)
(* else wrote, and what a manifest removed is still somewhere.             *)
(*                                                                         *)
(* ProvisionSafe speaks of the end of a rollback.  Its inductive form says *)
(* how far each path is from what the transaction found, at every step:    *)
(* what the transaction has changed is exactly what it remembers as        *)
(* changed or what a call changed that reported an error (DirKnown,        *)
(* MetaKnown, FileKnown), and a content is removed only after it was saved *)
(* (SavedFirst).                                                           *)
(***************************************************************************)

Forward == {"backup", "dir", "chmod", "chown", "stage", "deploy", "undo"}
Undoing == {"unstage", "unstage_failing"}
Clearing == {"rmdir", "rmdir_failing"}
TxSteps == Forward \cup Undoing \cup Clearing \cup
           {"none", "commit", "rolled_back", "rollback_failed"}

Targets == {<<>>} \cup {m.path : m \in loadProvisionManifest}

Txs ==
    [step : TxSteps, created : BOOLEAN, restoreMode : BOOLEAN, restoreOwner : BOOLEAN,
     staged : BOOLEAN, target : Targets,
     was : [dir : {"absent", "empty", "used"}, mode : {0, 1}, owner : {0, 1}, file : 0..2]]

ValuesOK ==
    /\ vDir \in {"absent", "empty", "used"}
    /\ vMode \in {0, 1} /\ vOwner \in {0, 1} /\ vFile \in 0..2 /\ vStaged \in 0..2

TargetSafe == vTx.step # "none" => ~Covers(vTx.target, <<"app", "compose">>)

(* The directory is as it was found, or was created and is still empty.    *)
DirKnown ==
    /\ vTx.step \in {"backup", "dir"} => ~vTx.created
    /\ vTx.step \in Forward \cup Undoing \cup Clearing /\ "dir" \notin vTouched \cup vHidden =>
         IF vTx.created THEN vTx.was.dir = "absent" /\ vDir = "empty"
                        ELSE vDir = vTx.was.dir
    /\ vTx.step = "rolled_back" /\ "dir" \notin vTouched \cup vHidden => vDir = vTx.was.dir

(* A mode or an owner that is not to be restored has not changed.          *)
MetaKnown ==
    /\ vTx.step \in {"backup", "dir", "chmod"} => ~vTx.restoreMode
    /\ vTx.step \in {"backup", "dir", "chmod", "chown"} => ~vTx.restoreOwner
    /\ vTx.step \in Forward =>
         /\ "owner" \notin vHidden /\ ~vTx.restoreOwner => vOwner = vTx.was.owner
         /\ "path" \notin vTouched /\ "mode" \notin vHidden /\ ~vTx.restoreMode =>
              vMode = vTx.was.mode
    /\ vTx.step \in {"unstage", "rmdir", "rolled_back"} =>
         /\ "owner" \notin vHidden => vOwner = vTx.was.owner
         /\ "path" \notin vTouched /\ "mode" \notin vHidden => vMode = vTx.was.mode

(* The file is in its place, or the staging directory holds it.            *)
FileKnown ==
    /\ vTx.step \in {"backup", "dir", "chmod", "chown", "stage"} =>
         ~vTx.staged /\ "file" \notin vHidden
    /\ vTx.step \in Forward \cup Undoing =>
         /\ vTx.staged => vStaging
         /\ "file" \notin vTouched \cup vHidden =>
              IF vTx.staged THEN vFile = 0 /\ vStaged = vTx.was.file
                            ELSE vFile = vTx.was.file
    /\ vTx.step \in {"rmdir", "rolled_back"} /\ "file" \notin vTouched \cup vHidden =>
         vFile = vTx.was.file

(* What the transaction found is saved before its first change.            *)
SavedFirst ==
    /\ vTx.step \in {"dir", "chmod", "chown", "stage"} /\ vTx.was.file # 0 =>
         vTx.was.file \in vSaved
    /\ vRemoved \subseteq vSaved

ProvInv ==
    /\ vTx \in Txs /\ ValuesOK /\ TargetSafe /\ vCompose = TRUE
    /\ DirKnown /\ MetaKnown /\ FileKnown /\ SavedFirst

-----------------------------------------------------------------------------
LEMMA NoTxKnown == NoTx \in Txs /\ NoTx.step = "none"
  BY DEF NoTx, Txs, TxSteps, Targets

(* A transaction that is over, or was never begun, promises nothing more.  *)
LEMMA EndKnown ==
    ASSUME ProvInv, vTx' = NoTx, ValuesOK', UNCHANGED <<vCompose, vRemoved>>,
           vSaved \subseteq vSaved'
    PROVE  ProvInv'
<1> USE DEF Forward, Undoing, Clearing
<1>1. vTx' \in Txs /\ vTx'.step = "none"
  BY NoTxKnown
<1>2. DirKnown' /\ MetaKnown'
  BY <1>1 DEF DirKnown, MetaKnown
<1>3. FileKnown' /\ SavedFirst' /\ TargetSafe'
  BY <1>1 DEF ProvInv, FileKnown, SavedFirst, TargetSafe
<1> QED
  BY <1>1, <1>2, <1>3 DEF ProvInv

LEMMA OutsideKnown ==
    ASSUME ProvInv, NEW p \in Paths, OutsideWrite(p)
    PROVE  ProvInv'
<1> USE DEF Forward, Undoing, Clearing
<1>0. vTx \in Txs /\ ValuesOK
  BY DEF ProvInv
<1>1. vTx' \in Txs
  BY <1>0 DEF Txs, TxSteps, ValuesOK, OutsideWrite
<1>2. ValuesOK' /\ vCompose' = TRUE
  BY <1>0 DEF ProvInv, TargetSafe, Txs, ValuesOK, OutsideWrite
<1>3. TargetSafe'
  BY <1>0 DEF ProvInv, TargetSafe, Txs, OutsideWrite
<1>4. DirKnown'
  BY <1>0 DEF ProvInv, Txs, ValuesOK, DirKnown, OutsideWrite
<1>5. MetaKnown'
  BY <1>0 DEF ProvInv, Txs, ValuesOK, MetaKnown, OutsideWrite
<1>6. FileKnown'
  BY <1>0 DEF ProvInv, Txs, ValuesOK, FileKnown, OutsideWrite
<1>7. SavedFirst'
  BY <1>0 DEF ProvInv, Txs, ValuesOK, FileKnown, SavedFirst, OutsideWrite
<1> QED
  BY <1>1, <1>2, <1>3, <1>4, <1>5, <1>6, <1>7 DEF ProvInv

LEMMA DeployKnown ==
    ASSUME ProvInv, NEW rollback \in BOOLEAN, DeployProvisioned(rollback)
    PROVE  ProvInv'
<1> USE DEF Forward, Undoing, Clearing
<1>0. vTx \in Txs /\ ValuesOK
  BY DEF ProvInv
<1>1. vTx' \in Txs
  BY <1>0 DEF Txs, TxSteps, ValuesOK, DeployProvisioned, At, Go
<1>2. ValuesOK' /\ vCompose' = TRUE
  BY <1>0 DEF ProvInv, TargetSafe, Txs, ValuesOK, DeployProvisioned, At, Go
<1>3. TargetSafe'
  BY <1>0 DEF ProvInv, TargetSafe, Txs, DeployProvisioned, At, Go
<1>4. DirKnown'
  BY <1>0 DEF ProvInv, Txs, ValuesOK, DirKnown, DeployProvisioned, At, Go
<1>5. MetaKnown'
  BY <1>0 DEF ProvInv, Txs, ValuesOK, MetaKnown, DeployProvisioned, At, Go
<1>6. FileKnown'
  BY <1>0 DEF ProvInv, Txs, ValuesOK, FileKnown, DeployProvisioned, At, Go
<1>7. SavedFirst'
  BY <1>0 DEF ProvInv, Txs, ValuesOK, FileKnown, SavedFirst, DeployProvisioned, At, Go
<1> QED
  BY <1>1, <1>2, <1>3, <1>4, <1>5, <1>6, <1>7 DEF ProvInv

LEMMA CreateKnown ==
    ASSUME ProvInv, CreateDirectory
    PROVE  ProvInv'
<1> USE DEF Forward, Undoing, Clearing
<1>0. vTx \in Txs /\ ValuesOK
  BY DEF ProvInv
<1>1. vTx' \in Txs
  BY <1>0 DEF Txs, TxSteps, ValuesOK, CreateDirectory, At, Go, Hide
<1>2. ValuesOK' /\ vCompose' = TRUE
  BY <1>0 DEF ProvInv, TargetSafe, Txs, ValuesOK, CreateDirectory, At, Go, Hide
<1>3. TargetSafe'
  BY <1>0 DEF ProvInv, TargetSafe, Txs, CreateDirectory, At, Go, Hide
<1>4. DirKnown'
  BY <1>0 DEF ProvInv, Txs, ValuesOK, DirKnown, CreateDirectory, At, Go, Hide
<1>5. MetaKnown'
  BY <1>0 DEF ProvInv, Txs, ValuesOK, MetaKnown, CreateDirectory, At, Go, Hide
<1>6. FileKnown'
  BY <1>0 DEF ProvInv, Txs, ValuesOK, FileKnown, CreateDirectory, At, Go, Hide
<1>7. SavedFirst'
  BY <1>0 DEF ProvInv, Txs, ValuesOK, FileKnown, SavedFirst, CreateDirectory, At, Go, Hide
<1> QED
  BY <1>1, <1>2, <1>3, <1>4, <1>5, <1>6, <1>7 DEF ProvInv

LEMMA ChownKnown ==
    ASSUME ProvInv, Chown
    PROVE  ProvInv'
<1> USE DEF Forward, Undoing, Clearing
<1>0. vTx \in Txs /\ ValuesOK
  BY DEF ProvInv
<1>1. vTx' \in Txs
  BY <1>0 DEF Txs, TxSteps, ValuesOK, Chown, At, Go, Hide
<1>2. ValuesOK' /\ vCompose' = TRUE
  BY <1>0 DEF ProvInv, TargetSafe, Txs, ValuesOK, Chown, At, Go, Hide
<1>3. TargetSafe'
  BY <1>0 DEF ProvInv, TargetSafe, Txs, Chown, At, Go, Hide
<1>4. DirKnown'
  BY <1>0 DEF ProvInv, Txs, ValuesOK, DirKnown, Chown, At, Go, Hide
<1>5. MetaKnown'
  BY <1>0 DEF ProvInv, Txs, ValuesOK, MetaKnown, Chown, At, Go, Hide
<1>6. FileKnown'
  BY <1>0 DEF ProvInv, Txs, ValuesOK, FileKnown, Chown, At, Go, Hide
<1>7. SavedFirst'
  BY <1>0 DEF ProvInv, Txs, ValuesOK, FileKnown, SavedFirst, Chown, At, Go, Hide
<1> QED
  BY <1>1, <1>2, <1>3, <1>4, <1>5, <1>6, <1>7 DEF ProvInv

LEMMA StageKnown ==
    ASSUME ProvInv, StageRemoval
    PROVE  ProvInv'
<1> USE DEF Forward, Undoing, Clearing
<1>0. vTx \in Txs /\ ValuesOK
  BY DEF ProvInv
<1>1. vTx' \in Txs
  BY <1>0 DEF Txs, TxSteps, ValuesOK, StageRemoval, At, Go, Hide
<1>2. ValuesOK' /\ vCompose' = TRUE
  <2>1. ValuesOK'
    BY <1>0 DEF ValuesOK, StageRemoval
  <2>2. vCompose = TRUE /\ ~Covers(vTx.target, <<"app", "compose">>)
    BY DEF ProvInv, TargetSafe, StageRemoval, At
  <2>3. vCompose' = vCompose
        \/ vCompose' = (vCompose /\ ~Covers(vTx.target, <<"app", "compose">>))
    BY DEF StageRemoval
  <2> QED
    BY <2>1, <2>2, <2>3
<1>3. TargetSafe'
  BY <1>0 DEF ProvInv, TargetSafe, Txs, StageRemoval, At, Go, Hide
<1>4. DirKnown'
  BY <1>0 DEF ProvInv, Txs, ValuesOK, DirKnown, StageRemoval, At, Go, Hide
<1>5. MetaKnown'
  BY <1>0, ZenonT(60) DEF ProvInv, Txs, ValuesOK, MetaKnown, StageRemoval, At, Go, Hide
<1>6. FileKnown'
  BY <1>0 DEF ProvInv, Txs, ValuesOK, FileKnown, StageRemoval, At, Go, Hide
<1>7. SavedFirst'
  BY <1>0, ZenonT(60) DEF ProvInv, Txs, ValuesOK, FileKnown, SavedFirst, StageRemoval, At, Go, Hide
<1> QED
  BY <1>1, <1>2, <1>3, <1>4, <1>5, <1>6, <1>7 DEF ProvInv

LEMMA MetadataKnown ==
    ASSUME ProvInv, RollbackMetadata
    PROVE  ProvInv'
<1> USE DEF Forward, Undoing, Clearing
<1>0. vTx \in Txs /\ ValuesOK
  BY DEF ProvInv
<1>1. vTx' \in Txs
  BY <1>0 DEF Txs, TxSteps, ValuesOK, RollbackMetadata, At, Go
<1>2. ValuesOK' /\ vCompose' = TRUE
  BY <1>0 DEF ProvInv, TargetSafe, Txs, ValuesOK, RollbackMetadata, At, Go
<1>3. TargetSafe'
  BY <1>0 DEF ProvInv, TargetSafe, Txs, RollbackMetadata, At, Go
<1>4. DirKnown'
  BY <1>0 DEF ProvInv, Txs, ValuesOK, DirKnown, RollbackMetadata, At, Go
<1>5. MetaKnown'
  BY <1>0 DEF ProvInv, Txs, ValuesOK, MetaKnown, RollbackMetadata, At, Go
<1>6. FileKnown'
  BY <1>0 DEF ProvInv, Txs, ValuesOK, FileKnown, RollbackMetadata, At, Go
<1>7. SavedFirst'
  BY <1>0 DEF ProvInv, Txs, ValuesOK, FileKnown, SavedFirst, RollbackMetadata, At, Go
<1> QED
  BY <1>1, <1>2, <1>3, <1>4, <1>5, <1>6, <1>7 DEF ProvInv

LEMMA UnstageKnown ==
    ASSUME ProvInv, RollbackRemovedPaths
    PROVE  ProvInv'
<1> USE DEF Forward, Undoing, Clearing
<1>0. vTx \in Txs /\ ValuesOK
  BY DEF ProvInv
<1>1. vTx' \in Txs
  BY <1>0 DEF Txs, TxSteps, ValuesOK, RollbackRemovedPaths, At, Go
<1>2. ValuesOK' /\ vCompose' = TRUE
  BY <1>0 DEF ProvInv, TargetSafe, Txs, ValuesOK, RollbackRemovedPaths, At, Go
<1>3. TargetSafe'
  BY <1>0 DEF ProvInv, TargetSafe, Txs, RollbackRemovedPaths, At, Go
<1>4. DirKnown'
  BY <1>0 DEF ProvInv, Txs, ValuesOK, DirKnown, RollbackRemovedPaths, At, Go
<1>5. MetaKnown'
  BY <1>0 DEF ProvInv, Txs, ValuesOK, MetaKnown, RollbackRemovedPaths, At, Go
<1>6. FileKnown'
  BY <1>0 DEF ProvInv, Txs, ValuesOK, FileKnown, RollbackRemovedPaths, At, Go
<1>7. SavedFirst'
  BY <1>0 DEF ProvInv, Txs, ValuesOK, FileKnown, SavedFirst, RollbackRemovedPaths, At, Go
<1> QED
  BY <1>1, <1>2, <1>3, <1>4, <1>5, <1>6, <1>7 DEF ProvInv

LEMMA RmdirKnown ==
    ASSUME ProvInv, RollbackCreatedDirectories
    PROVE  ProvInv'
<1> USE DEF Forward, Undoing, Clearing
<1>0. vTx \in Txs /\ ValuesOK
  BY DEF ProvInv
<1>1. vTx' \in Txs
  BY <1>0 DEF Txs, TxSteps, ValuesOK, RollbackCreatedDirectories, At, Go
<1>2. ValuesOK' /\ vCompose' = TRUE
  BY <1>0 DEF ProvInv, TargetSafe, Txs, ValuesOK, RollbackCreatedDirectories, At, Go
<1>3. TargetSafe'
  BY <1>0 DEF ProvInv, TargetSafe, Txs, RollbackCreatedDirectories, At, Go
<1>4. DirKnown'
  BY <1>0 DEF ProvInv, Txs, ValuesOK, DirKnown, RollbackCreatedDirectories, At, Go
<1>5. MetaKnown'
  BY <1>0 DEF ProvInv, Txs, ValuesOK, MetaKnown, RollbackCreatedDirectories, At, Go
<1>6. FileKnown'
  BY <1>0 DEF ProvInv, Txs, ValuesOK, FileKnown, RollbackCreatedDirectories, At, Go
<1>7. SavedFirst'
  BY <1>0 DEF ProvInv, Txs, ValuesOK, FileKnown, SavedFirst, RollbackCreatedDirectories, At, Go
<1> QED
  BY <1>1, <1>2, <1>3, <1>4, <1>5, <1>6, <1>7 DEF ProvInv

LEMMA StaleKnown ==
    ASSUME ProvInv, cleanupStaleProvisionStaging
    PROVE  ProvInv'
<1> USE DEF Forward, Undoing, Clearing
<1>0. vTx \in Txs /\ ValuesOK
  BY DEF ProvInv
<1>1. vTx' \in Txs
  BY <1>0 DEF Txs, TxSteps, ValuesOK, cleanupStaleProvisionStaging, At
<1>2. ValuesOK' /\ vCompose' = TRUE
  BY <1>0 DEF ProvInv, TargetSafe, Txs, ValuesOK, cleanupStaleProvisionStaging, At
<1>3. TargetSafe'
  BY <1>0 DEF ProvInv, TargetSafe, Txs, cleanupStaleProvisionStaging, At
<1>4. DirKnown'
  BY <1>0 DEF ProvInv, Txs, ValuesOK, DirKnown, cleanupStaleProvisionStaging, At
<1>5. MetaKnown'
  BY <1>0 DEF ProvInv, Txs, ValuesOK, MetaKnown, cleanupStaleProvisionStaging, At
<1>6. FileKnown'
  BY <1>0 DEF ProvInv, Txs, ValuesOK, FileKnown, cleanupStaleProvisionStaging, At
<1>7. SavedFirst'
  BY <1>0 DEF ProvInv, Txs, ValuesOK, FileKnown, SavedFirst, cleanupStaleProvisionStaging, At
<1> QED
  BY <1>1, <1>2, <1>3, <1>4, <1>5, <1>6, <1>7 DEF ProvInv

(* The backup takes the content it saves for what the transaction found.   *)
LEMMA BackupKnown ==
    ASSUME ProvInv, backupProvisionRemovals
    PROVE  ProvInv'
<1> USE DEF Forward, Undoing, Clearing
<1>0. vTx \in Txs /\ ValuesOK /\ vTx.step = "backup"
  BY DEF ProvInv, backupProvisionRemovals, At
<1>1. ASSUME vTx' = NoTx, UNCHANGED <<vSaved, vTouched>> PROVE ProvInv'
  BY <1>1, EndKnown DEF ProvInv, ValuesOK, backupProvisionRemovals
<1>2. ASSUME vSaved' = (IF vFile = 0 THEN vSaved ELSE vSaved \cup {vFile}),
             vTouched' = vTouched \ {"file"},
             vTx' = [vTx EXCEPT !.step = "dir", !.was.file = vFile]
      PROVE  ProvInv'
  <2> DEFINE w == [vTx.was EXCEPT !.file = vFile]
  <2>1. vTx' = [vTx EXCEPT !.step = "dir", !.was = w]
    BY <1>0, <1>2 DEF Txs
  <2>2. /\ w \in [dir : {"absent", "empty", "used"}, mode : {0, 1}, owner : {0, 1}, file : 0..2]
        /\ w.dir = vTx.was.dir /\ w.mode = vTx.was.mode /\ w.owner = vTx.was.owner
        /\ w.file = vFile
    BY <1>0 DEF Txs, ValuesOK
  <2> HIDE DEF w
  <2>3. /\ vTx' \in Txs /\ vTx'.step = "dir" /\ vTx'.was = w /\ vTx'.target = vTx.target
        /\ vTx'.created = vTx.created /\ vTx'.restoreMode = vTx.restoreMode
        /\ vTx'.restoreOwner = vTx.restoreOwner /\ vTx'.staged = vTx.staged
    BY <1>0, <2>1, <2>2 DEF Txs, TxSteps
  <2>4. UNCHANGED <<vCompose, vDir, vMode, vOwner, vFile, vStaged, vStaging, vRemoved, vHidden>>
    BY DEF backupProvisionRemovals
  <2>5. ValuesOK' /\ TargetSafe' /\ vCompose' = TRUE
    BY <1>0, <2>3, <2>4 DEF ProvInv, ValuesOK, TargetSafe
  <2>6. DirKnown' /\ MetaKnown'
    BY <1>0, <1>2, <2>2, <2>3, <2>4 DEF ProvInv, DirKnown, MetaKnown
  <2>7. FileKnown' /\ SavedFirst'
    BY <1>0, <1>2, <2>2, <2>3, <2>4 DEF ProvInv, FileKnown, SavedFirst
  <2> QED
    BY <2>3, <2>5, <2>6, <2>7 DEF ProvInv
<1> QED
  BY <1>1, <1>2 DEF backupProvisionRemovals

(* The mode that is remembered is the one that is replaced.                *)
LEMMA ChmodKnown ==
    ASSUME ProvInv, Chmod
    PROVE  ProvInv'
<1> USE DEF Forward, Undoing, Clearing
<1>0. /\ vTx \in Txs /\ ValuesOK /\ vTx.step = "chmod"
      /\ UNCHANGED <<vCompose, vDir, vOwner, vFile, vStaged, vStaging, vSaved, vTouched, vRemoved>>
  BY DEF ProvInv, Chmod, At
<1>1. ASSUME NEW nx \in {"chown", "undo"}, vTx' = [vTx EXCEPT !.step = nx],
             \/ nx = "undo" /\ UNCHANGED <<vMode, vHidden>>
             \/ vMode' = 1 /\ vHidden' = vHidden \cup {"mode"}
      PROVE  ProvInv'
  <2>1. /\ vTx' \in Txs /\ vTx'.step = nx /\ vTx'.was = vTx.was /\ vTx'.target = vTx.target
        /\ vTx'.created = vTx.created /\ vTx'.restoreMode = vTx.restoreMode
        /\ vTx'.restoreOwner = vTx.restoreOwner /\ vTx'.staged = vTx.staged
    BY <1>0, <1>1 DEF Txs, TxSteps
  <2>2. ValuesOK' /\ TargetSafe' /\ vCompose' = TRUE /\ DirKnown'
    BY <1>0, <1>1, <2>1 DEF ProvInv, ValuesOK, TargetSafe, DirKnown
  <2>3. MetaKnown'
    BY <1>0, <1>1, <2>1 DEF ProvInv, MetaKnown
  <2>4. FileKnown' /\ SavedFirst'
    BY <1>0, <1>1, <2>1 DEF ProvInv, FileKnown, SavedFirst
  <2> QED
    BY <2>1, <2>2, <2>3, <2>4 DEF ProvInv
<1>2. ASSUME vMode' = 1,
             vTx' = [vTx EXCEPT !.step = "chown", !.restoreMode = (vMode # 1), !.was.mode = vMode],
             UNCHANGED vHidden
      PROVE  ProvInv'
  <2> DEFINE w == [vTx.was EXCEPT !.mode = vMode]
  <2>1. vTx' = [vTx EXCEPT !.step = "chown", !.restoreMode = (vMode # 1), !.was = w]
    BY <1>0, <1>2 DEF Txs
  <2>2. /\ w \in [dir : {"absent", "empty", "used"}, mode : {0, 1}, owner : {0, 1}, file : 0..2]
        /\ w.dir = vTx.was.dir /\ w.mode = vMode /\ w.owner = vTx.was.owner
        /\ w.file = vTx.was.file
    BY <1>0 DEF Txs, ValuesOK
  <2> HIDE DEF w
  <2>3. /\ vTx' \in Txs /\ vTx'.step = "chown" /\ vTx'.was = w /\ vTx'.target = vTx.target
        /\ vTx'.created = vTx.created /\ vTx'.restoreMode = (vMode # 1)
        /\ vTx'.restoreOwner = vTx.restoreOwner /\ vTx'.staged = vTx.staged
    BY <1>0, <2>1, <2>2 DEF Txs, TxSteps
  <2>4. ValuesOK' /\ TargetSafe' /\ vCompose' = TRUE /\ DirKnown'
    BY <1>0, <1>2, <2>2, <2>3 DEF ProvInv, ValuesOK, TargetSafe, DirKnown
  <2>5. MetaKnown'
    <3>1. ~vTx'.restoreMode => vMode = 1
      BY <2>3
    <3>2. ~vTx.restoreOwner /\ ("owner" \notin vHidden => vOwner = vTx.was.owner)
      BY <1>0 DEF ProvInv, MetaKnown
    <3> QED
      BY <1>0, <1>2, <2>2, <2>3, <3>1, <3>2 DEF MetaKnown
  <2>6. FileKnown' /\ SavedFirst'
    BY <1>0, <1>2, <2>2, <2>3 DEF ProvInv, FileKnown, SavedFirst
  <2> QED
    BY <2>3, <2>4, <2>5, <2>6 DEF ProvInv
<1> QED
  BY <1>1, <1>2 DEF Chmod, Go, Hide

(* Only a manifest that leaves the Compose file alone begins.              *)
LEMMA ApplyKnown ==
    ASSUME ProvInv, applyStackProvisioning
    PROVE  ProvInv'
<1> USE DEF Forward, Undoing, Clearing
<1>0. /\ ValuesOK /\ vTouched' = {} /\ vHidden' = {}
      /\ UNCHANGED <<vDir, vMode, vOwner, vFile, vCompose, vStaged, vStaging, vSaved, vRemoved>>
  BY DEF ProvInv, applyStackProvisioning
<1> DEFINE w == [dir |-> vDir, mode |-> vMode, owner |-> vOwner, file |-> vFile]
<1>1. PICK m \in loadProvisionManifest :
         /\ validateProtectedProvisionRemovals(m)
         /\ vTx' = [NoTx EXCEPT !.step = "backup", !.target = m.path, !.was = w]
  BY DEF applyStackProvisioning
<1>2. ~Covers(m.path, <<"app", "compose">>)
  BY <1>1 DEF validateProtectedProvisionRemovals
<1>3. m.path \in Targets
  BY DEF Targets
<1>4. /\ w \in [dir : {"absent", "empty", "used"}, mode : {0, 1}, owner : {0, 1}, file : 0..2]
      /\ w.dir = vDir /\ w.mode = vMode /\ w.owner = vOwner /\ w.file = vFile
  BY <1>0 DEF ValuesOK
<1> HIDE DEF w
<1>5. /\ vTx' \in Txs /\ vTx'.step = "backup" /\ vTx'.target = m.path /\ vTx'.was = w
      /\ ~vTx'.created /\ ~vTx'.restoreMode /\ ~vTx'.restoreOwner /\ ~vTx'.staged
  BY <1>1, <1>3, <1>4 DEF NoTx, Txs, TxSteps
<1>6. ValuesOK' /\ TargetSafe' /\ vCompose' = TRUE
  BY <1>0, <1>2, <1>5 DEF ProvInv, ValuesOK, TargetSafe
<1>7. DirKnown' /\ MetaKnown' /\ FileKnown' /\ SavedFirst'
  BY <1>0, <1>4, <1>5 DEF ProvInv, DirKnown, MetaKnown, FileKnown, SavedFirst
<1> QED
  BY <1>5, <1>6, <1>7 DEF ProvInv
-----------------------------------------------------------------------------
LEMMA ProvStarts == ProvInit => ProvInv
<1> SUFFICES ASSUME ProvInit PROVE ProvInv
  OBVIOUS
<1>1. vTx \in Txs /\ vTx.step = "none" /\ ValuesOK
  BY NoTxKnown DEF ProvInit, ValuesOK
<1> QED
  BY <1>1 DEF ProvInit, ProvInv, TargetSafe, DirKnown, MetaKnown, FileKnown, SavedFirst,
              Forward, Undoing, Clearing

LEMMA ProvKept == ProvInv /\ [ProvNext]_provVars => ProvInv'
<1> SUFFICES ASSUME ProvInv, [ProvNext]_provVars PROVE ProvInv'
  OBVIOUS
<1>1. CASE UNCHANGED provVars
  BY <1>1 DEF provVars, ProvInv, ValuesOK, TargetSafe, DirKnown, MetaKnown, FileKnown, SavedFirst
<1>2. CASE CommitProvisioning
  <2>1. /\ vTx' = NoTx /\ vStaged' = 0
        /\ UNCHANGED <<vCompose, vDir, vMode, vOwner, vFile, vSaved, vRemoved>>
    BY <1>2 DEF CommitProvisioning, EndTransaction
  <2> QED
    BY <2>1, EndKnown DEF ProvInv, ValuesOK
<1>3. CASE ReportProvisioning
  <2>1. /\ vTx' = NoTx /\ vStaged' = 0
        /\ UNCHANGED <<vCompose, vDir, vMode, vOwner, vFile, vSaved, vRemoved>>
    BY <1>3 DEF ReportProvisioning, EndTransaction
  <2> QED
    BY <2>1, EndKnown DEF ProvInv, ValuesOK
<1>4. CASE StopProvisioning
  <2>1. /\ vTx' = NoTx /\ vStaged' = 0
        /\ UNCHANGED <<vCompose, vDir, vMode, vOwner, vFile, vSaved, vRemoved>>
    BY <1>4 DEF StopProvisioning, EndTransaction
  <2> QED
    BY <2>1, EndKnown DEF ProvInv, ValuesOK
<1> QED
  BY <1>1, <1>2, <1>3, <1>4, OutsideKnown, DeployKnown, ApplyKnown, BackupKnown, CreateKnown,
     ChmodKnown, ChownKnown, StageKnown, MetadataKnown, UnstageKnown, RmdirKnown, StaleKnown
     DEF ProvNext

(* A manifest undoes what it reports as undone, and loses nothing, however *)
(* often it runs, is stopped and is interleaved with other writers; only   *)
(* what a failing call changed all the same stays (provision.go,           *)
(* provision_backup.go).                                                   *)
THEOREM ProvisioningIsSafe == ProvSpec => []ProvisionSafe
<1>1. ProvInv => RollbackExact
  BY DEF ProvInv, RollbackExact, At, DirKnown, MetaKnown, FileKnown
<1>2. ProvInv => RemovedIsKept
  BY DEF ProvInv, SavedFirst, RemovedIsKept
<1> QED
  BY <1>1, <1>2, ProvStarts, ProvKept, PTL DEF ProvSpec, ProvisionSafe

(* What was saved, removed and left are contents, and what is staged is in *)
(* the directory of a transaction that knows it.                           *)
StagingTyped ==
    /\ vSaved \subseteq 1..2 /\ vRemoved \subseteq 1..2 /\ vStale \subseteq 1..2
    /\ vTouched \subseteq Paths /\ vHidden \subseteq {"dir", "mode", "owner", "file"}
    /\ vStaged # 0 => vStaging /\ (vTx.staged \/ "file" \in vHidden) /\ vTx.step # "none"

LEMMA StagingKept == ProvInv /\ StagingTyped /\ [ProvNext]_provVars => StagingTyped'
<1> SUFFICES ASSUME ProvInv, StagingTyped, [ProvNext]_provVars PROVE StagingTyped' OBVIOUS
<1>1. /\ vTx \in Txs /\ vFile \in 0..2 /\ vStaged \in 0..2
      /\ vTx.step \in {"backup", "dir", "chmod", "chown", "stage"} =>
           ~vTx.staged /\ "file" \notin vHidden
  BY DEF ProvInv, ValuesOK, FileKnown
<1>2. vFile # 0 => vFile \in 1..2 BY <1>1
<1>3. \A n \in 0..2 : {n} \ {0} \subseteq 1..2 OBVIOUS
<1>4. CASE EndTransaction /\ UNCHANGED <<vSaved, vTouched, vRemoved, vHidden>>
  BY <1>1, <1>3, <1>4 DEF EndTransaction, StagingTyped
<1>5. ASSUME NEW p \in Paths, OutsideWrite(p) PROVE StagingTyped'
  BY <1>5 DEF OutsideWrite, StagingTyped
<1>6. CASE applyStackProvisioning \/ backupProvisionRemovals
  <2>1. vTx.step = "none" \/ vTx.step = "backup" BY <1>6 DEF applyStackProvisioning,
                                                            backupProvisionRemovals, At
  <2>2. vTouched' \subseteq Paths /\ vHidden' \subseteq {"dir", "mode", "owner", "file"}
    BY <1>6 DEF applyStackProvisioning, backupProvisionRemovals, StagingTyped
  <2>3. vSaved' = vSaved \/ (vSaved' = IF vFile = 0 THEN vSaved ELSE vSaved \cup {vFile})
    BY <1>6 DEF applyStackProvisioning, backupProvisionRemovals
  <2>6. vSaved' \subseteq 1..2 BY <1>2, <2>3 DEF StagingTyped
  <2>4. UNCHANGED <<vRemoved, vStale, vStaged, vStaging>>
    BY <1>6 DEF applyStackProvisioning, backupProvisionRemovals
  <2>5. vStaged = 0 BY <1>1, <2>1 DEF StagingTyped
  <2> QED BY <2>2, <2>4, <2>5, <2>6 DEF StagingTyped
<1>7. CASE CreateDirectory \/ Chmod \/ Chown \/ (\E rollback \in BOOLEAN : DeployProvisioned(rollback))
  <2>1. UNCHANGED <<vSaved, vRemoved, vStale, vTouched, vStaged, vStaging>>
    BY <1>7 DEF CreateDirectory, Chmod, Chown, DeployProvisioned
  <2>2. vTx'.staged = vTx.staged /\ vTx'.step # "none"
    BY <1>1, <1>7 DEF CreateDirectory, Chmod, Chown, DeployProvisioned, Go, Txs
  <2>3. vHidden \subseteq vHidden' /\ vHidden' \subseteq vHidden \cup {"dir", "mode", "owner"}
    BY <1>7 DEF CreateDirectory, Chmod, Chown, DeployProvisioned, Hide
  <2> QED BY <2>1, <2>2, <2>3 DEF StagingTyped
<1>8. CASE StageRemoval
  <2>1. /\ UNCHANGED <<vSaved, vStale, vTouched>> /\ vRemoved' \subseteq 1..2
    BY <1>2, <1>8 DEF StageRemoval, StagingTyped
  <2>2. vTx.step = "stage" /\ vStaged = 0 BY <1>1, <1>8 DEF StageRemoval, StagingTyped, At
  <2>3. \/ vStaged' = vStaged
        \/ vStaging' = TRUE /\ vTx' = [vTx EXCEPT !.step = "deploy", !.staged = TRUE]
        \/ vStaging' = TRUE /\ vTx' = [vTx EXCEPT !.step = "undo"] /\ "file" \in vHidden'
    BY <1>8 DEF StageRemoval, Go, Hide
  <2>4. vStaged' # 0 =>
           vStaging' /\ (vTx'.staged \/ "file" \in vHidden') /\ vTx'.step # "none"
    BY <1>1, <2>2, <2>3 DEF Txs
  <2>5. vHidden' \subseteq vHidden \cup {"file"} BY <1>8 DEF StageRemoval, Hide
  <2> QED BY <2>1, <2>4, <2>5 DEF StagingTyped
<1>9. CASE CommitProvisioning
  BY <1>1, <1>3, <1>9 DEF CommitProvisioning, EndTransaction, StagingTyped
<1>10. CASE RollbackMetadata \/ RollbackCreatedDirectories
  <2>1. UNCHANGED <<vSaved, vRemoved, vStale, vTouched, vStaged, vStaging, vHidden>>
    BY <1>10 DEF RollbackMetadata, RollbackCreatedDirectories
  <2>2. vTx'.staged = vTx.staged /\ vTx'.step # "none"
    BY <1>1, <1>10 DEF RollbackMetadata, RollbackCreatedDirectories, Go, Txs
  <2> QED BY <2>1, <2>2 DEF StagingTyped
<1>11. CASE RollbackRemovedPaths
  <2>1. UNCHANGED <<vSaved, vRemoved, vStale, vTouched, vHidden>> BY <1>11 DEF RollbackRemovedPaths
  <2>2. vTx'.staged = vTx.staged /\ vTx'.step # "none"
    BY <1>1, <1>11 DEF RollbackRemovedPaths, Go, Txs
  <2>3. \/ UNCHANGED <<vStaged, vStaging>>
        \/ vStaged' = 0
    BY <1>11 DEF RollbackRemovedPaths
  <2> QED BY <2>1, <2>2, <2>3 DEF StagingTyped
<1>12. CASE ReportProvisioning \/ StopProvisioning
  BY <1>4, <1>12 DEF ReportProvisioning, StopProvisioning
<1>13. CASE cleanupStaleProvisionStaging
  BY <1>13 DEF cleanupStaleProvisionStaging, StagingTyped
<1>14. CASE UNCHANGED provVars BY <1>14 DEF provVars, StagingTyped
<1> QED
  BY <1>5, <1>6, <1>7, <1>8, <1>9, <1>10, <1>11, <1>12, <1>13, <1>14 DEF ProvNext

(* The paths have the states the manifest and its undoing give them, and   *)
(* what is staged has its staging directory (provision.go).                *)
THEOREM ProvisioningTyped == ProvSpec => []ProvTypeOK
<1>1. ProvInit => StagingTyped BY DEF ProvInit, StagingTyped
<1>2. ProvInv /\ StagingTyped => ProvTypeOK
  BY DEF ProvInv, ValuesOK, StagingTyped, ProvTypeOK
<1> QED BY <1>1, <1>2, ProvStarts, ProvKept, StagingKept, PTL DEF ProvSpec
=============================================================================
