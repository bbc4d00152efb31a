------------------------------ MODULE GitPolicy ------------------------------
(***************************************************************************)
(* Which files of a Folder Link take part in a transfer: the inventory of  *)
(* the host and of the Git tree under the rules of the link, and the paths *)
(* the host does not let Dockman read (gitsync/binding.go, unreadable.go,  *)
(* policy_tree.go).                                                        *)
(*                                                                         *)
(* One stack with its Compose file, a configuration file beside it and a   *)
(* file of application data in a directory of its own.  A rule names a     *)
(* path exactly, a name wherever it is, or a directory and all below it.   *)
(* The host and the Git tree each have a .dockmanignore.                   *)
(***************************************************************************)
EXTENDS GitPreview

CONSTANTS
    PolicyPaths,    \* of "compose", "conf" and "data/x"
    MaxHeldOut,     \* maxAutoExcludedPaths
    MaxPolicySteps  \* bound: changes to files, rights and rules

ASSUME GitPolicyAssumption ==
    /\ PolicyPaths \subseteq {"compose", "conf", "data/x"}
    /\ MaxHeldOut \in Nat /\ MaxPolicySteps \in Nat

VARIABLES
    profile,    \* SyncProfile
    inc, exc,   \* IncludePatterns, ExcludePatterns
    ignores,    \* .dockmanignore of each side
    held,       \* AutoExcludedPaths
    acl,        \* paths of the host that cannot be read
    large,      \* the data directory of the host has too many files
    policyFiles,      \* content of the paths on each side
    baseP,      \* the baseline
    transferP,   \* what the import in progress will write, or NoTransfer
    goneP,      \* history: held paths the operator deleted while unreadable
    sinceP,     \* history: paths that changed after the import looked at them
    psteps

policyVars == <<profile, inc, exc, ignores, held, acl, large, policyFiles, baseP,
                transferP, goneP, sinceP, psteps>>

DataDir == "data"
Sides == {"host", "git"}
PolicyContents == 1..2
NoTransfer == [write |-> {}]

(* The directory of a path that is not the root of the link.               *)
Within(p, d) == p = "data/x" /\ d = DataDir

Rules == {<<"exact", "conf">>, <<"exact", "data/x">>, <<"dir", DataDir>>}

PolicyInit ==
    /\ profile \in {"compose_only", "compose_config", "all_files"}
    /\ inc \in SUBSET {<<"exact", "data/x">>} /\ exc = {}
    /\ ignores \in [Sides -> {{}, {<<"dir", DataDir>>}}]
    /\ held = {} /\ acl = {}
    /\ large \in BOOLEAN
    /\ policyFiles = [s \in Sides |-> [p \in PolicyPaths |-> 1]]
    /\ baseP = [p \in PolicyPaths |-> IF p = "compose" THEN 1 ELSE Absent]
    /\ transferP = NoTransfer /\ goneP = {} /\ sinceP = {}
    /\ psteps = 0

PolicyAct == psteps < MaxPolicySteps /\ psteps' = psteps + 1
-----------------------------------------------------------------------------
matchesIgnoreRule(rules, p) ==
    \E r \in rules : r[2] = p \/ (r[1] = "dir" /\ Within(p, r[2]))

explicitIncludeCanMatchBelow(d) ==
    \E r \in inc : Within(r[2], d) \/ r = <<"dir", d>>

exactly(rules, p) == <<"exact", p>> \in rules

holdsUnreadable(p) == \E h \in held : p = h \/ Within(p, h)

(* A path nobody could read is out whatever the rules say; an include wins *)
(* over an exclusion unless the exclusion is the more precise of the two.  *)
exclusionApplies(p, rules) ==
    \/ holdsUnreadable(p)
    \/ /\ matchesIgnoreRule(exc \cup rules, p)
       /\ \/ ~matchesIgnoreRule(inc, p)
          \/ exactly(exc, p) /\ ~exactly(inc, p)

includesFile(p) ==
    \/ matchesIgnoreRule(inc, p)
    \/ p = "compose"
    \/ profile = "compose_config" /\ p = "conf"
    \/ profile = "all_files"

Readable(p) == p \notin acl /\ ~\E d \in acl : Within(p, d)

(* What the collectors make of the data directory: they do not enter what  *)
(* is excluded, what an allow-list cannot reach, or what they cannot list, *)
(* and give up where there are too many files.                             *)
DirVerdict(side) ==
    IF exclusionApplies(DataDir, ignores[side]) THEN "excluded"
    ELSE IF profile = "compose_only" /\ ~explicitIncludeCanMatchBelow(DataDir)
    THEN "outside"
    ELSE IF side = "host" /\ DataDir \in acl THEN "permission"
    ELSE IF side = "host" /\ large THEN "large_directory" ELSE "open"

(* What they make of a file.  The catalogued Compose file is never excluded. *)
FileVerdict(side, p) ==
    IF policyFiles[side][p] = Absent THEN "absent"
    ELSE IF exclusionApplies(p, ignores[side]) /\ p # "compose" THEN "excluded"
    ELSE IF profile = "compose_only" /\ ~includesFile(p) THEN "outside"
    ELSE IF side = "host" /\ ~Readable(p) THEN "permission"
    ELSE IF ~includesFile(p) THEN "type" ELSE "file"

collectStackFiles(p) ==
    IF Within(p, DataDir) /\ DirVerdict("host") # "open"
    THEN DirVerdict("host") ELSE FileVerdict("host", p)

collectRepositoryTreeFiles(p) ==
    IF Within(p, DataDir) /\ DirVerdict("git") # "open"
    THEN DirVerdict("git") ELSE FileVerdict("git", p)

(* Mutant of blockedTargetDirectory: nothing is shielded.                  *)
NothingBlocked(p) == FALSE

(* A directory of the host that could not be looked into shields what Git  *)
(* has below it.                                                           *)
blockedTargetDirectory(p) ==
    Within(p, DataDir) /\ DirVerdict("host") \in {"permission", "large_directory"}

(* Git -> Dockman for one path; a path that is not a file of the host's    *)
(* inventory counts as missing there.                                      *)
ImportVerdict(p) ==
    LET src == collectRepositoryTreeFiles(p)
        dst == IF collectStackFiles(p) = "file" THEN policyFiles["host"][p] ELSE Absent
    IN IF src # "file" THEN "skipped"
       ELSE IF blockedTargetDirectory(p) \/ collectStackFiles(p) = "permission"
       THEN IF large /\ DataDir \notin acl /\ Within(p, DataDir)
            THEN "skipped_large" ELSE "skipped_permission"
       ELSE ImportEntry(policyFiles["git"][p], dst, baseP[p])

(* What the policy picker shows for a file: it looks at one directory at a *)
(* time, reads no file, and takes the .dockmanignore of both sides.        *)
evaluatePolicyTreeEntry(p) ==
    IF p = "compose" THEN "included"
    ELSE IF exclusionApplies(p, ignores["host"] \cup ignores["git"]) THEN "excluded"
    ELSE IF includesFile(p) THEN "included" ELSE "excluded"

(* What the picker lists of a directory (or of the root): what the host    *)
(* lets Dockman list there, and what Git has.                              *)
BindingPolicyTree(d) ==
    LET there == {p \in PolicyPaths : IF d = DataDir THEN Within(p, d) ELSE ~Within(p, DataDir)}
        local == {p \in there : policyFiles["host"][p] # Absent /\ d \notin acl}
        onGit == {p \in there : policyFiles["git"][p] # Absent}
    IN [p \in local \cup onGit |-> evaluatePolicyTreeEntry(p)]

(* Mutant of policyTracksLocalFile: the allow-list is not asked.           *)
AllowListIgnored(p) == exclusionApplies(p, ignores["host"]) => p = "compose"

(* What the editor and the Files view take a file of the host for, with    *)
(* path comparisons only.                                                  *)
policyTracksLocalFile(p) ==
    /\ exclusionApplies(p, ignores["host"]) => p = "compose"
    /\ includesFile(p)

(* The badges of the Files view, and what its menu may change.             *)
mutableGitFilePolicyPath(p) == p # "compose"
GitTrackedFiles(paths) == {p \in paths : policyTracksLocalFile(p)}

(* A file operation of Dockman on this path is shown as a change to push;  *)
(* an operation on a directory always is.                                  *)
bindingTracksLocalMutation(p) == p = DataDir \/ policyTracksLocalFile(p)

(* Mutant of refreshUnreadableExclusions: a path that is gone rejoins too. *)
GoneRejoins == {p \in held : policyFiles["host"][p] # Absent /\ ~Readable(p)}

(* Paths that became readable again rejoin; a path that is gone stays out. *)
refreshUnreadableExclusions ==
    {p \in held : policyFiles["host"][p] = Absent \/ ~Readable(p)}

(* One cycle: the exclusions are refreshed; what cannot be read is held    *)
(* out, as far as there is room for it, and loses its baseline; and what   *)
(* is safe to write is settled, with the baseline it leaves.  The import   *)
(* makes an inventory of its own, which must give the token of this one.   *)
ImportCycle ==
    /\ transferP = NoTransfer
    /\ held # refreshUnreadableExclusions =>
         /\ held' = refreshUnreadableExclusions
         /\ UNCHANGED <<baseP, transferP>>
    /\ held = refreshUnreadableExclusions =>
         LET verdict == [p \in PolicyPaths |-> ImportVerdict(p)]
             blocked == OfKind(verdict, {"skipped_permission"})
             written == OfKind(verdict, {"add", "modify"})
             same == OfKind(verdict, {"unchanged"})
         IN \E added \in SUBSET (blocked \ held) :
              LET pruned == [p \in PolicyPaths |-> IF p \in added THEN Absent ELSE baseP[p]]
                  after == [p \in PolicyPaths |->
                              IF p \in written \cup same THEN policyFiles["git"][p] ELSE pruned[p]]
              IN /\ added = blocked \ held \/ Cardinality(held \cup added) = MaxHeldOut
                 /\ added = {} \/ Cardinality(held \cup added) <= MaxHeldOut
                 /\ held' = held \cup added
                 /\ baseP' = IF written = {} THEN after ELSE pruned
                 /\ transferP' = IF written = {} THEN NoTransfer
                      ELSE [write |-> written, content |-> policyFiles["git"], base |-> after]
    /\ UNCHANGED <<profile, inc, exc, ignores, acl, large, policyFiles, goneP, sinceP, psteps>>

(* The files are written without a second look, and the baseline replaced  *)
(* once all of them are; the first one that fails ends it.                 *)
ImportWrites(done) ==
    /\ transferP # NoTransfer
    /\ policyFiles' = [policyFiles EXCEPT !["host"] =
         [p \in PolicyPaths |-> IF p \in done THEN transferP.content[p] ELSE @[p]]]
    /\ baseP' = IF done = transferP.write THEN transferP.base ELSE baseP
    /\ transferP' = NoTransfer
    /\ sinceP' = {}
    /\ UNCHANGED <<profile, inc, exc, ignores, held, acl, large, goneP, psteps>>
-----------------------------------------------------------------------------
(* Paths that changed while an import is between its look and its writes.  *)
Touched(paths) == IF transferP = NoTransfer THEN {} ELSE sinceP \cup paths

(* The rights of a path of the host change.                                *)
ChangeRights(p) ==
    /\ PolicyAct
    /\ acl' = IF p \in acl THEN acl \ {p} ELSE acl \cup {p}
    /\ goneP' = {q \in goneP : ~(p \in acl /\ (q = p \/ Within(q, p)))}
    /\ sinceP' = Touched({q \in PolicyPaths : q = p \/ Within(q, p)})
    /\ UNCHANGED <<profile, inc, exc, ignores, held, large, policyFiles, baseP, transferP>>

(* Somebody edits or deletes a file of the host, with or without Dockman.  *)
WriteHost(p, c) ==
    /\ PolicyAct /\ c # policyFiles["host"][p]
    /\ policyFiles' = [policyFiles EXCEPT !["host"][p] = c]
    /\ goneP' = IF c = Absent /\ p \in held /\ ~Readable(p)
                THEN goneP \cup {p} ELSE goneP \ {p}
    /\ sinceP' = Touched({p})
    /\ UNCHANGED <<profile, inc, exc, ignores, held, acl, large, baseP, transferP>>

CommitPath(p, c) ==
    /\ PolicyAct /\ c # policyFiles["git"][p]
    /\ policyFiles' = [policyFiles EXCEPT !["git"][p] = c]
    /\ UNCHANGED <<profile, inc, exc, ignores, held, acl, large, baseP, transferP, goneP,
                   sinceP>>

(* The Files menu: the exact rules of the path are replaced by one, or by  *)
(* none when the file was deleted; a path that is out loses its baseline.  *)
(* It waits for a cycle that is running, and so does UpdateBindingPolicy.  *)
SetGitFileTracking(p, tracked, deleted) ==
    LET rule == <<"exact", p>>
    IN /\ PolicyAct /\ transferP = NoTransfer /\ mutableGitFilePolicyPath(p)
       /\ tracked /\ ~deleted => policyFiles["host"][p] # Absent
       /\ inc' = (inc \ {rule}) \cup (IF tracked /\ ~deleted THEN {rule} ELSE {})
       /\ exc' = (exc \ {rule}) \cup (IF ~tracked /\ ~deleted THEN {rule} ELSE {})
       /\ baseP' = IF ~tracked /\ (~deleted \/ rule \in inc)
                   THEN [baseP EXCEPT ![p] = Absent] ELSE baseP
       /\ UNCHANGED <<profile, ignores, held, acl, large, policyFiles, transferP, goneP, sinceP>>

(* UpdateBindingPolicy: another profile, or a directory excluded; a policy *)
(* that changed holds nothing out any more.                                *)
UpdatePolicy(to) ==
    /\ PolicyAct /\ transferP = NoTransfer
    /\ profile' = to
    /\ exc' \in {exc, exc \cup {<<"dir", DataDir>>}}
    /\ IF profile' # profile \/ exc' # exc
       THEN held' = {} /\ goneP' = {} ELSE UNCHANGED <<held, goneP>>
    /\ UNCHANGED <<inc, ignores, acl, large, policyFiles, baseP, transferP, sinceP>>

PolicyNext ==
    \/ ImportCycle
    \/ \E done \in SUBSET transferP.write : ImportWrites(done)
    \/ \E p \in PolicyPaths \cup {DataDir} : ChangeRights(p)
    \/ \E p \in PolicyPaths :
         \/ \E c \in PolicyContents \cup {Absent} : WriteHost(p, c) \/ CommitPath(p, c)
         \/ \E tracked, deleted \in BOOLEAN : SetGitFileTracking(p, tracked, deleted)
    \/ \E to \in {"compose_only", "compose_config", "all_files"} : UpdatePolicy(to)

PolicySpec == PolicyInit /\ [][PolicyNext]_policyVars
-----------------------------------------------------------------------------
PolicyTypeOK ==
    /\ profile \in {"compose_only", "compose_config", "all_files"}
    /\ inc \subseteq Rules /\ exc \subseteq Rules
    /\ held \subseteq PolicyPaths /\ acl \subseteq PolicyPaths \cup {DataDir}
    /\ \A s \in Sides, p \in PolicyPaths : policyFiles[s][p] \in PolicyContents \cup {Absent}
    /\ \A p \in PolicyPaths : baseP[p] \in PolicyContents \cup {Absent}
    /\ transferP.write \subseteq PolicyPaths

(* What Dockman cannot read on the host it never replaces by what is on    *)
(* Git: not the file itself, nor a file in a directory it cannot list,     *)
(* whatever the rules include and whether or not the path is held out yet. *)
(* The .dockmanignore of the host must be on Git too: a path only the host *)
(* ignores is missing from the host's inventory, so Git's is added over it. *)
(* And the import looks before it writes: a file that was made or edited,  *)
(* or whose rights were changed, in between is replaced.                   *)
UnreadNeverOverwritten ==
    [][policyFiles' # policyFiles /\ psteps' = psteps =>
         \A p \in PolicyPaths :
            /\ ignores["host"] \subseteq ignores["git"]
            /\ ~Readable(p) /\ policyFiles["host"][p] # Absent /\ p \notin sinceP
            => policyFiles'["host"][p] = policyFiles["host"][p]]_policyVars

(* A file that was held out because it could not be read, and that the     *)
(* operator then deleted, does not come back from Git until the policy is  *)
(* changed, which looks at everything anew.  The Compose file is left out: *)
(* it is never excluded, so it does come back.                             *)
IgnoredStaysDeleted ==
    \A p \in goneP \ {"compose"} : policyFiles["host"][p] = Absent

(* The views tell the truth: for a file in a directory that is looked      *)
(* into, when the two sides ignore the same, the picker shows it as        *)
(* included exactly when the transfer inventories Git's, and the badge and *)
(* the local-change mark are on exactly when the transfer inventories a    *)
(* file of the host it can read.                                           *)
ViewsAgree ==
    \A p \in PolicyPaths :
        LET dir == IF Within(p, DataDir) THEN DataDir ELSE "."
            listed == BindingPolicyTree(dir)
            open(side) == dir = DataDir => DirVerdict(side) = "open"
        IN ignores["host"] = ignores["git"] =>
             /\ policyFiles["git"][p] # Absent /\ open("git") =>
                  (listed[p] = "included" <=> collectRepositoryTreeFiles(p) = "file")
             /\ policyFiles["host"][p] # Absent /\ open("host") /\ Readable(p) =>
                  /\ p \in GitTrackedFiles(PolicyPaths) <=> collectStackFiles(p) = "file"
                  /\ bindingTracksLocalMutation(p) <=> collectStackFiles(p) = "file"

(* What is ignored stays ignored, and every view says so.                  *)
PolicyHonest == IgnoredStaysDeleted /\ ViewsAgree
=============================================================================
