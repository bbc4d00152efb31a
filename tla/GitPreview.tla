----------------------------- MODULE GitPreview -----------------------------
(***************************************************************************)
(* The three-way comparison of a Folder Link, gitsync/binding.go: what one *)
(* side holds, what the other side holds, and the baseline, the content    *)
(* both sides had when they were last synchronized.  A path is compared by *)
(* the digest of its content; a side or a baseline without it is Absent.   *)
(* Paths that the policy skips are outside the domain of the functions.    *)
(***************************************************************************)
EXTENDS Naturals, FiniteSets

Absent == 0

(* Git -> Dockman: src is Git, dst the stack.  "restore" is the status     *)
(* "add" with the conflict kind destination_deleted: the path was deleted  *)
(* locally and Git still holds the synchronized content.                   *)
ImportEntry(src, dst, base) ==
    IF src = Absent
    THEN IF dst = Absent \/ base = Absent THEN "unchanged"
         ELSE IF base = dst THEN "deleted_on_git" ELSE "conflict"
    ELSE IF src = dst THEN "unchanged"
    ELSE IF dst = Absent /\ base = Absent THEN "add"
    ELSE IF dst = Absent /\ base = src THEN "restore"
    ELSE IF dst = base THEN "modify" ELSE "conflict"

(* Dockman -> Git: src is the stack, dst is Git.                           *)
ExportEntry(src, dst, base) ==
    IF src = Absent
    THEN IF dst = Absent \/ base = Absent THEN "unchanged"
         ELSE IF base = dst THEN "deleted_locally" ELSE "conflict"
    ELSE IF src = dst THEN "unchanged"
    ELSE IF dst = Absent THEN "add"
    ELSE IF dst = base THEN "modify" ELSE "conflict"

EntryKinds == {"unchanged", "add", "restore", "modify", "conflict",
               "deleted_on_git", "deleted_locally"}

ImportPreview(paths, src, dst, base) ==
    [p \in paths |-> ImportEntry(src[p], dst[p], base[p])]

ExportPreview(paths, src, dst, base) ==
    [p \in paths |-> ExportEntry(src[p], dst[p], base[p])]

OfKind(preview, kinds) == {p \in DOMAIN preview : preview[p] \in kinds}

Changed(preview) == OfKind(preview, EntryKinds \ {"unchanged"})

Conflicts(preview) == OfKind(preview, {"conflict"})

(* The token covers the status and both digests of every entry.            *)
PreviewToken(preview, src, dst) ==
    [p \in DOMAIN preview |-> <<preview[p], src[p], dst[p]>>]

(* Without a choice of paths every add and modify is transferred, and the  *)
(* conflicts the operator resolved; deletions never are.                   *)
SelectedTransferFiles(preview, resolved) ==
    OfKind(preview, {"add", "restore", "modify"}) \cup
    (Conflicts(preview) \cap resolved)

(* The stacks an automatic cycle leaves alone until somebody decides.      *)
HeldBackComposeStacks(preview) ==
    OfKind(preview, {"conflict", "deleted_locally", "restore"})

(* Applied paths and paths that agree become the baseline, the others keep *)
(* theirs.                                                                 *)
BaselineAfterTransfer(base, src, dst, selected) ==
    [p \in DOMAIN base |->
        IF p \in DOMAIN src /\ src[p] # Absent
             /\ (p \in selected \/ dst[p] = src[p])
        THEN src[p] ELSE base[p]]

(* The whole baseline is replaced: a path the source does not list loses   *)
(* its entry.                                                              *)
BaselineFromSource(base, paths, src) ==
    [p \in DOMAIN base |-> IF p \in paths THEN src[p] ELSE Absent]
=============================================================================
