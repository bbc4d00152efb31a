---------------------------- MODULE EditorFiles ----------------------------
(***************************************************************************)
(* The file service of a host (files/): editors open a file with its       *)
(* revision, announce unsaved work with a lease, save against the revision *)
(* and follow an event stream; uploads, copies, renames, deletions,        *)
(* templates and Git imports write the same files.                         *)
(*                                                                         *)
(* No lock covers a file: the check of a revision, the truncation of the   *)
(* file, the write and the reading back of the revision are four steps,    *)
(* and so are the look at the destination of a rename and the rename.  A   *)
(* write may fail half way.  Every content is a version number, 0 for a    *)
(* file that is absent.                                                    *)
(***************************************************************************)
EXTENDS Naturals, Sequences, FiniteSets

CONSTANTS
    FilePaths,      \* paths of the host
    AliasOf,        \* the linked folder of each path
    FoldOf,         \* each path without its case
    Editors,        \* browser sessions
    RenameGuarded,  \* paths Dockman still points at
    EventBuffer,    \* events a session's stream can hold
    MaxFileSteps    \* bound: requests

ASSUME EditorFilesAssumption ==
    /\ RenameGuarded \subseteq FilePaths /\ EventBuffer \in Nat /\ MaxFileSteps \in Nat
    /\ DOMAIN AliasOf = FilePaths /\ DOMAIN FoldOf = FilePaths
    /\ "none" \notin FilePaths /\ "none" \notin Editors

VARIABLES
    fFile,     \* version of each file
    fOpen,     \* what each session has open: path, revision, unsaved
    fKnown,    \* history: the versions whose revision each session was handed
    fLease,    \* the session whose unsaved work is announced for a path
    fEvents,   \* the stream of each session
    fReq,      \* the save or rename in progress for each session
    fNext,     \* the next version
    fSteps

fileVars == <<fFile, fOpen, fKnown, fLease, fEvents, fReq, fNext, fSteps>>

NoReq == [at |-> "none", p |-> "none", to |-> "none", rev |-> 0, create |-> FALSE,
          raced |-> FALSE]
Closed == [p |-> "none", rev |-> 0, dirty |-> FALSE]

FileInit ==
    /\ fFile \in [FilePaths -> {0, 1}]
    /\ fOpen = [s \in Editors |-> Closed]
    /\ fKnown = [s \in Editors |-> {}]
    /\ fLease = [p \in FilePaths |-> "none"]
    /\ fEvents = [s \in Editors |-> <<>>]
    /\ fReq = [s \in Editors |-> NoReq]
    /\ fNext = 2 /\ fSteps = 0

FileAct == fSteps < MaxFileSteps /\ fSteps' = fSteps + 1
FileAt(s, at) == fReq[s].at = at

(* The files ps get new contents; a request of another session that is     *)
(* between its check and its end on one of them is overtaken.              *)
Written(me, ps, f, req) ==
    /\ fFile' = f
    /\ fReq' = [s \in Editors |->
                  IF s # me /\ req[s].at # "none" /\ {req[s].p, req[s].to} \cap ps # {}
                    THEN [req[s] EXCEPT !.raced = TRUE] ELSE req[s]]

(* Mutant of publish: the event is added to a full stream.                 *)
PublishAlways(p) ==
    fEvents' = [s \in Editors |-> IF fOpen[s].p # "none"
                                    THEN Append(fEvents[s], p) ELSE fEvents[s]]

(* publish: a stream that is full does not get the event.                  *)
publish(p) ==
    fEvents' = [s \in Editors |-> IF fOpen[s].p # "none" /\ Len(fEvents[s]) < EventBuffer
                                    THEN Append(fEvents[s], p) ELSE fEvents[s]]
-----------------------------------------------------------------------------
(* loadFile: the contents and the revision come from one reading.          *)
loadFile(s, p) ==
    /\ FileAct /\ FileAt(s, "none") /\ fFile[p] # 0
    /\ fOpen' = [fOpen EXCEPT ![s] = [p |-> p, rev |-> fFile[p], dirty |-> FALSE]]
    /\ fKnown' = [fKnown EXCEPT ![s] = @ \cup {fFile[p]}]
    /\ UNCHANGED <<fFile, fLease, fEvents, fReq, fNext>>

(* editLease: one lease for a path; the last session to ask holds it.      *)
setLease(s) ==
    /\ fOpen[s].p # "none" /\ ~fOpen[s].dirty
    /\ fOpen' = [fOpen EXCEPT ![s].dirty = TRUE]
    /\ fLease' = [fLease EXCEPT ![fOpen[s].p] = s]
    /\ UNCHANGED <<fFile, fKnown, fEvents, fReq, fNext, fSteps>>

releaseLease(s) ==
    /\ fOpen[s].p # "none" /\ fLease[fOpen[s].p] = s
    /\ fLease' = [fLease EXCEPT ![fOpen[s].p] = "none"]
    /\ UNCHANGED <<fFile, fOpen, fKnown, fEvents, fReq, fNext, fSteps>>

(* pruneLocked: a lease not renewed for editorLeaseTTL is gone.            *)
pruneEditorsLocked(p) ==
    /\ fLease[p] # "none"
    /\ fLease' = [fLease EXCEPT ![p] = "none"]
    /\ UNCHANGED <<fFile, fOpen, fKnown, fEvents, fReq, fNext, fSteps>>

dirtyPaths == {p \in FilePaths : fLease[p] # "none"}

(* fileEvents: the browser reads its stream and reloads the file unless it *)
(* holds unsaved work.                                                     *)
fileEvents(s) ==
    /\ fEvents[s] # <<>>
    /\ fEvents' = [fEvents EXCEPT ![s] = Tail(@)]
    /\ LET p == Head(fEvents[s])
           reload == p = fOpen[s].p /\ ~fOpen[s].dirty /\ fFile[p] # 0
       IN /\ fOpen' = IF reload THEN [fOpen EXCEPT ![s].rev = fFile[p]] ELSE fOpen
          /\ fKnown' = IF reload THEN [fKnown EXCEPT ![s] = @ \cup {fFile[p]}] ELSE fKnown
    /\ UNCHANGED <<fFile, fLease, fReq, fNext, fSteps>>

(* Mutant of editorSaveNeedsRevision: a save without revision is accepted. *)
BlindSaveAccepted(rev, create) == FALSE

(* A session that loaded no revision may not save, unless the request says *)
(* that it creates the file: whether the file is there is not looked at.   *)
editorSaveNeedsRevision(rev, create) == ~create /\ rev = 0

(* saveFile of a session: what it has open, perhaps without the revision   *)
(* it lost, or a file it says it creates.  SaveIfRevision reads the        *)
(* revision of the file, if one was sent, and refuses if it is not that.   *)
SaveIfRevision(s) ==
    /\ FileAct /\ FileAt(s, "none")
    /\ \E p \in FilePaths, rev \in {0, fOpen[s].rev}, create \in BOOLEAN :
         /\ IF create THEN rev = 0 ELSE fOpen[s].dirty /\ p = fOpen[s].p
         /\ ~editorSaveNeedsRevision(rev, create)
         /\ rev # 0 => fFile[p] = rev
         /\ fReq' = [fReq EXCEPT ![s] = [NoReq EXCEPT !.at = "write", !.p = p, !.rev = rev,
                                                      !.create = create]]
    /\ UNCHANGED <<fFile, fOpen, fKnown, fLease, fEvents, fNext>>

(* Save: the file is truncated, then the upload is copied into it.  A copy *)
(* that fails leaves a part of the contents, which nobody has seen.        *)
FileSave(s) ==
    /\ FileAt(s, "write")
    /\ \E whole \in BOOLEAN :
         /\ Written(s, {fReq[s].p}, [fFile EXCEPT ![fReq[s].p] = fNext],
                    [fReq EXCEPT ![s] = IF whole THEN [@ EXCEPT !.at = "reread"] ELSE NoReq])
         /\ fKnown' = IF whole THEN [fKnown EXCEPT ![s] = @ \cup {fNext}] ELSE fKnown
    /\ fNext' = fNext + 1
    /\ UNCHANGED <<fOpen, fLease, fEvents, fSteps>>

(* The revision after the write, which a save without one does not read.   *)
RevisionAfter(s) == IF fReq[s].rev = 0 THEN 0 ELSE fFile[fReq[s].p]

(* Revision after the write, the answer to the editor and the event.  What *)
(* is read back may already be another's version.                          *)
Revision(s) ==
    /\ FileAt(s, "reread")
    /\ fOpen' = IF fOpen[s].p = fReq[s].p
                  THEN [fOpen EXCEPT ![s].rev = RevisionAfter(s), ![s].dirty = FALSE]
                  ELSE fOpen
    /\ fKnown' = [fKnown EXCEPT ![s] = @ \cup {RevisionAfter(s)}]
    /\ fLease' = IF fLease[fReq[s].p] = s THEN [fLease EXCEPT ![fReq[s].p] = "none"] ELSE fLease
    /\ fReq' = [fReq EXCEPT ![s] = NoReq]
    /\ publish(fReq[s].p)
    /\ UNCHANGED <<fFile, fNext, fSteps>>
-----------------------------------------------------------------------------
(* Uploads, new files, copies and templates replace without a question.    *)
Blind(ps) ==
    /\ FileAct
    /\ Written("none", ps, [p \in FilePaths |-> IF p \in ps THEN fNext ELSE fFile[p]], fReq)
    /\ fNext' = fNext + 1
    /\ UNCHANGED <<fOpen, fKnown, fLease, fEvents>>

upload(p) == Blind({p})

(* Create opens without truncation: an existing file stays as it is.       *)
Create(p) == fFile[p] = 0 /\ Blind({p})

Copy(p, to) ==
    /\ FileAct /\ p # to /\ fFile[p] # 0
    /\ Written("none", {to}, [fFile EXCEPT ![to] = fFile[p]], fReq)
    /\ UNCHANGED <<fOpen, fKnown, fLease, fEvents, fNext>>

(* WriteTemplate writes its files one by one, in no fixed order, and stops *)
(* at the first that lacks a variable.                                     *)
WriteTemplate(ps) == ps # {} /\ Blind(ps)

(* Delete, once the guard has agreed.                                      *)
FileDelete(p) ==
    /\ FileAct /\ fFile[p] # 0
    /\ Written("none", {p}, [fFile EXCEPT ![p] = 0], fReq)
    /\ UNCHANGED <<fOpen, fKnown, fLease, fEvents, fNext>>

(* Mutant of DestinationFree: rename(2) decides.                           *)
DestinationIgnored(p, to) == TRUE

EqualFold(p, to) == FoldOf[p] = FoldOf[to]

(* rename(2) replaces the destination, so Rename looks first, unless the   *)
(* names differ in their case only: what it finds may be the source itself *)
(* (where case matters, as here, it is another file).                      *)
DestinationFree(p, to) == EqualFold(p, to) \/ fFile[to] = 0

RenameBegin(s, p, to) ==
    /\ FileAct /\ FileAt(s, "none") /\ p \notin RenameGuarded
    /\ p # to /\ AliasOf[p] = AliasOf[to] /\ DestinationFree(p, to)
    /\ fReq' = [fReq EXCEPT ![s] = [NoReq EXCEPT !.at = "rename", !.p = p, !.to = to]]
    /\ UNCHANGED <<fFile, fOpen, fKnown, fLease, fEvents, fNext>>

Rename(s) ==
    /\ FileAt(s, "rename")
    /\ LET r == fReq[s] IN
       IF fFile[r.p] = 0 THEN fReq' = [fReq EXCEPT ![s] = NoReq] /\ UNCHANGED fFile
       ELSE Written(s, {r.p, r.to}, [fFile EXCEPT ![r.to] = fFile[r.p], ![r.p] = 0],
                    [fReq EXCEPT ![s] = NoReq])
    /\ UNCHANGED <<fOpen, fKnown, fLease, fEvents, fNext, fSteps>>

(* A Git import leaves a path with unsaved work alone, and tells the       *)
(* editors of what it wrote.                                               *)
NotifyExternalChange(p) ==
    /\ FileAct /\ p \notin dirtyPaths
    /\ Written("none", {p}, [fFile EXCEPT ![p] = fNext], fReq)
    /\ fNext' = fNext + 1 /\ publish(p)
    /\ UNCHANGED <<fOpen, fKnown, fLease>>

FileNext ==
    \/ \E s \in Editors : \/ \E p \in FilePaths : loadFile(s, p)
                          \/ setLease(s) \/ releaseLease(s) \/ fileEvents(s)
                          \/ SaveIfRevision(s) \/ FileSave(s) \/ Revision(s)
                          \/ \E p, to \in FilePaths : RenameBegin(s, p, to)
                          \/ Rename(s)
    \/ \E p \in FilePaths : \/ pruneEditorsLocked(p) \/ upload(p) \/ Create(p) \/ FileDelete(p)
                            \/ NotifyExternalChange(p)
                            \/ \E to \in FilePaths : Copy(p, to)
    \/ \E ps \in SUBSET FilePaths : WriteTemplate(ps)

FileSpec == FileInit /\ [][FileNext]_fileVars
-----------------------------------------------------------------------------
FileTypeOK ==
    /\ fFile \in [FilePaths -> 0..fNext] /\ fLease \in [FilePaths -> Editors \cup {"none"}]
    /\ \A s \in Editors : fReq[s].at \in {"none", "write", "reread", "rename"}
    /\ \A s \in Editors : Len(fEvents[s]) <= EventBuffer
    /\ fNext \in Nat /\ fSteps \in 0..MaxFileSteps

(* A save of an editor replaces only a version whose revision this editor  *)
(* was handed, and a rename replaces nothing, whatever leases expired,     *)
(* were taken over or released, and whichever imports, uploads or torn     *)
(* writes came before (handler_http.go: the revision is the editor's "only *)
(* concurrency protection").  Excepted are a write that lands between the  *)
(* check and the write itself, which no lock prevents, a save that says it *)
(* creates its file, and a rename that changes the case only: neither of   *)
(* the two looks.                                                          *)
NothingReplacedUnseen ==
    [][fFile' # fFile => \A s \in Editors : ~fReq[s].raced =>
         /\ FileSave(s) /\ ~fReq[s].create => fFile[fReq[s].p] \in fKnown[s]
         /\ Rename(s) => \/ fFile[fReq[s].to] = 0
                         \/ EqualFold(fReq[s].p, fReq[s].to)]_fileVars
=============================================================================
