---------------------------- MODULE FileBrowser -----------------------------
(***************************************************************************)
(* The file browser of running containers and of volumes                   *)
(* (docker/file_browser_http.go and cmd/filehelper).                       *)
(*                                                                         *)
(* A request on a container copies a helper binary into it, under a name   *)
(* of its own, runs it once and removes it; where no place takes the       *)
(* binary it falls back on the container's own tools.  A request on a      *)
(* volume runs the helper in a container of its own.  Requests run         *)
(* concurrently, the container may stop or be recreated at any moment, and *)
(* Dockman may be stopped with requests under way.                         *)
(***************************************************************************)
EXTENDS Naturals, FiniteSets, Sequences

CONSTANTS
    BrowserRequests,
    BrowserShapes,    \* containers: read-only root, writable mount, places that can execute
    MaxBrowserSteps   \* bound: requests and outside events

ASSUME FileBrowserAssumption ==
    /\ MaxBrowserSteps \in Nat
    /\ BrowserShapes \subseteq [ro : BOOLEAN, rw : BOOLEAN,
                               exec : SUBSET {"mount", "tmp", "root"}]

Places == <<"mount", "tmp", "root">>   \* where a helper may be copied
BrowsedPaths == {"mount", "root"}      \* a file below the mount, one on the root filesystem

VARIABLES
    bShape,    \* the container
    bUp,       \* the container is running
    bBins,     \* helper binaries in it
    bVols,     \* helper containers on volumes, by their request
    bTree,     \* the content of each path, 0 if it does not exist
    bReq,      \* the requests
    bExcused,  \* history: binaries whose copy, probe or removal failed
    bStuck,    \* history: helper containers that could not be removed
    browserSteps

browserVars == <<bShape, bUp, bBins, bVols, bTree, bReq, bExcused, bStuck, browserSteps>>

NoBrowse == [at |-> "idle", kind |-> "none", op |-> "none", path |-> "root", left |-> <<>>,
             place |-> "none", native |-> FALSE, gone |-> FALSE]

BrowserInit ==
    /\ bShape \in BrowserShapes
    /\ bUp = TRUE /\ bBins = {} /\ bVols = {} /\ bExcused = {} /\ bStuck = {}
    /\ bTree = [p \in BrowsedPaths |-> 1] /\ browserSteps = 0
    /\ bReq = [r \in BrowserRequests |-> NoBrowse]

BrowserEvent == browserSteps < MaxBrowserSteps /\ browserSteps' = browserSteps + 1
Browsing(r, rec) == bReq' = [bReq EXCEPT ![r] = rec]
Writes(op) == op \notin {"list", "download"}
-----------------------------------------------------------------------------
(* containerPathReadOnly: the innermost mount decides, else the root.      *)
containerPathReadOnly(p) == IF p = "mount" THEN ~bShape.rw ELSE bShape.ro

(* helperDestinations: on a read-only root the requested writable mount    *)
(* comes first.                                                            *)
helperDestinations(p) ==
    SelectSeq(Places, LAMBDA d : IF d = "mount" THEN bShape.ro /\ bShape.rw /\ p = "mount"
                                 ELSE ~bShape.ro)

(* prepareBrowserTarget for a container: it must be running, and a write   *)
(* needs every path it names to be writable.                               *)
prepareBrowserTarget(r, op, p) ==
    /\ BrowserEvent /\ bReq[r].at = "idle" /\ bUp
    /\ Writes(op) => ~containerPathReadOnly(p)
    /\ op = "rename" => \A q \in BrowsedPaths : ~containerPathReadOnly(q)
    /\ LET helper == op \notin {"upload", "download"} /\ ~containerPathReadOnly(p) IN
       Browsing(r, [NoBrowse EXCEPT !.at = IF helper THEN "install" ELSE "run",
                                    !.kind = "container", !.op = op, !.path = p,
                                    !.left = IF helper THEN helperDestinations(p) ELSE <<>>,
                                    !.native = ~helper])
    /\ UNCHANGED <<bShape, bUp, bBins, bVols, bTree, bExcused, bStuck>>

(* Mutant of helperName: every request uses the same name.                 *)
SharedName(r) == "helper"

(* The random suffix: no other request has it.                             *)
helperName(r) == r

Binary(r, place) == [place |-> place, name |-> helperName(r)]

(* installFileHelper, one destination: nothing is copied; or the binary is *)
(* there, and the probe runs it; or it is there, though the copy or the    *)
(* probe failed (for a moment, or because nothing executes there), and     *)
(* stays.  Without a destination the request goes on with the container's  *)
(* tools.                                                                  *)
installFileHelper(r) ==
    LET q == bReq[r]
        b == Binary(r, Head(q.left))
    IN /\ q.at = "install"
       /\ \/ /\ q.left = <<>>
             /\ Browsing(r, [q EXCEPT !.at = "run", !.native = TRUE])
             /\ UNCHANGED <<bBins, bExcused>>
          \/ /\ q.left # <<>>
             /\ Browsing(r, [q EXCEPT !.left = Tail(@)])
             /\ UNCHANGED <<bBins, bExcused>>
          \/ /\ q.left # <<>> /\ bUp /\ Head(q.left) \in bShape.exec
             /\ Browsing(r, [q EXCEPT !.at = "run", !.place = Head(q.left)])
             /\ bBins' = bBins \cup {b} /\ bExcused' = bExcused \ {b}
          \/ /\ q.left # <<>>
             /\ Browsing(r, [q EXCEPT !.left = Tail(@)])
             /\ bBins' = bBins \cup {b} /\ bExcused' = bExcused \cup {b}
       /\ UNCHANGED <<bShape, bUp, bVols, bTree, bStuck, browserSteps>>
-----------------------------------------------------------------------------
(* What an operation does to the files.  The helper creates exclusively,   *)
(* touch does not; rename and upload replace what is there.                *)
Other(p) == CHOOSE q \in BrowsedPaths : q # p

containerFilesUpload(p) == [bTree EXCEPT ![p] = 2]

Effect(q) ==
    CASE q.op = "create" -> [bTree EXCEPT ![q.path] = IF @ = 0 THEN 1 ELSE @]
      [] q.op = "delete" -> [bTree EXCEPT ![q.path] = 0]
      [] q.op = "rename" -> IF bTree[q.path] = 0 THEN bTree
                            ELSE [bTree EXCEPT ![Other(q.path)] = bTree[q.path], ![q.path] = 0]
      [] q.op = "upload" -> containerFilesUpload(q.path)
      [] OTHER -> bTree

(* runFileHelper: the binary unlinks itself and then works.                *)
runFileHelper(r) ==
    LET q == bReq[r] IN
    /\ q.at = "run" /\ q.kind = "container" /\ ~q.native
    /\ \/ /\ bUp /\ Binary(r, q.place) \in bBins
          /\ bBins' = bBins \ {Binary(r, q.place)}
          /\ bTree' \in {Effect(q), bTree}
       \/ UNCHANGED <<bBins, bTree>>
    /\ Browsing(r, [q EXCEPT !.at = "clean"])
    /\ UNCHANGED <<bShape, bUp, bVols, bExcused, bStuck, browserSteps>>

(* nativeFileAction, nativeFileUpload, nativeFileList and the archive      *)
(* requests of the daemon: the container's tools may be missing.           *)
nativeFileAction(r) ==
    LET q == bReq[r] IN
    /\ q.at = "run" /\ q.native
    /\ bTree' \in {bTree} \cup (IF bUp THEN {Effect(q)} ELSE {})
    /\ Browsing(r, NoBrowse)
    /\ UNCHANGED <<bShape, bUp, bBins, bVols, bExcused, bStuck, browserSteps>>

(* The deferred cleanup: the helper once more, to remove itself.  That     *)
(* fails when the container stopped, and may fail when it runs.            *)
BrowserCleanup(r) ==
    LET q == bReq[r] IN
    /\ q.at = "clean" /\ q.kind = "container"
    /\ \/ bUp /\ bBins' = bBins \ {Binary(r, q.place)} /\ UNCHANGED bExcused
       \/ bExcused' = bExcused \cup {Binary(r, q.place)} /\ UNCHANGED bBins
    /\ Browsing(r, NoBrowse)
    /\ UNCHANGED <<bShape, bUp, bVols, bTree, bStuck, browserSteps>>
-----------------------------------------------------------------------------
(* createVolumeBrowserTarget: the helper's container is created, then      *)
(* filled and started; when that fails it is removed.                      *)
createVolumeBrowserTarget(r, op) ==
    /\ BrowserEvent /\ bReq[r].at = "idle"
    /\ bVols' = bVols \cup {r}
    /\ \E at \in {"run", "clean"} : Browsing(r, [NoBrowse EXCEPT !.at = at, !.kind = "volume",
                                                                 !.op = op])
    /\ UNCHANGED <<bShape, bUp, bBins, bTree, bExcused, bStuck>>

RunOnVolume(r) ==
    /\ bReq[r].at = "run" /\ bReq[r].kind = "volume"
    /\ Browsing(r, [bReq[r] EXCEPT !.at = "clean"])
    /\ UNCHANGED <<bShape, bUp, bBins, bVols, bTree, bExcused, bStuck, browserSteps>>

RemoveVolumeHelper(r) ==
    /\ bReq[r].at = "clean" /\ bReq[r].kind = "volume"
    /\ \/ bVols' = bVols \ {r} /\ bStuck' = bStuck \ {r}
       \/ bStuck' = bStuck \cup {r} /\ UNCHANGED bVols
    /\ Browsing(r, NoBrowse)
    /\ UNCHANGED <<bShape, bUp, bBins, bTree, bExcused, browserSteps>>
-----------------------------------------------------------------------------
ContainerTurns ==
    /\ BrowserEvent /\ bUp' = ~bUp
    /\ UNCHANGED <<bShape, bBins, bVols, bTree, bReq, bExcused, bStuck>>

(* Somebody recreates the container: its filesystem is new.                *)
ContainerRecreated ==
    /\ BrowserEvent /\ bUp' = TRUE /\ bBins' = {}
    /\ bReq' = [r \in BrowserRequests |-> [bReq[r] EXCEPT !.gone = bReq[r].at # "idle"]]
    /\ bExcused' = {}
    /\ UNCHANGED <<bShape, bVols, bTree, bStuck>>

(* Dockman is stopped, and when it starts it removes the helper containers *)
(* it finds, those it cannot remove excepted.                              *)
CleanupFileBrowserHelpers ==
    /\ BrowserEvent
    /\ bReq' = [r \in BrowserRequests |-> NoBrowse]
    /\ bVols' \in SUBSET bVols /\ bStuck' = bVols' /\ bExcused' = bBins
    /\ UNCHANGED <<bShape, bUp, bBins, bTree>>

BrowserNext ==
    \/ \E r \in BrowserRequests :
         \/ \E op \in {"list", "create", "rename", "delete", "upload", "download"},
               p \in BrowsedPaths : prepareBrowserTarget(r, op, p)
         \/ \E op \in {"list", "delete"} : createVolumeBrowserTarget(r, op)
         \/ installFileHelper(r) \/ runFileHelper(r) \/ nativeFileAction(r) \/ BrowserCleanup(r)
         \/ RunOnVolume(r) \/ RemoveVolumeHelper(r)
    \/ ContainerTurns \/ ContainerRecreated \/ CleanupFileBrowserHelpers

BrowserSpec == BrowserInit /\ [][BrowserNext]_browserVars
-----------------------------------------------------------------------------
BrowserTypeOK ==
    /\ bTree \in [BrowsedPaths -> 0..2] /\ bUp \in BOOLEAN /\ bVols \subseteq BrowserRequests
    /\ \A r \in BrowserRequests : bReq[r].at \in {"idle", "install", "run", "clean"}
    /\ browserSteps \in 0..MaxBrowserSteps

InUse(b) == \E r \in BrowserRequests :
              bReq[r].at # "idle" /\ bReq[r].kind = "container" /\ helperName(r) = b.name

(* A request that was given a helper finds it when it comes to use it,     *)
(* whatever other requests on the same container do, unless the container  *)
(* was recreated; and a helper nobody uses is left behind only where its   *)
(* copy, its probe or its removal failed, or Dockman stopped before it was *)
(* removed (CleanupFileBrowserHelpers: "left by a process restart").       *)
HelperOwned ==
    /\ \A r \in BrowserRequests :
         bReq[r].at = "run" /\ ~bReq[r].native /\ ~bReq[r].gone =>
           IF bReq[r].kind = "volume" THEN r \in bVols ELSE Binary(r, bReq[r].place) \in bBins
    /\ \A b \in bBins : InUse(b) \/ b \in bExcused
    /\ \A r \in bVols : bReq[r].kind = "volume" \/ r \in bStuck
=============================================================================
