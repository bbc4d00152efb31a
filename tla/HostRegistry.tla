---------------------------- MODULE HostRegistry ----------------------------
(***************************************************************************)
(* Docker hosts: their rows, the registry of connections, the folder links *)
(* that name a host, and the event watcher that follows a connection       *)
(* (host/service.go, host/handler.go, ssh/service.go, app/host_watch.go).  *)
(*                                                                         *)
(* The registry and the watchers are keyed by name, the rows by id, and    *)
(* nothing locks a host: two requests and the background retry of a host   *)
(* that was not reachable at startup interleave at every read and write of *)
(* a row, a link or the registry.  A row is read by one statement and      *)
(* saved whole by a later one, and two hosts may have one name: nothing    *)
(* in the table or in the handlers keeps names apart.  A connection is     *)
(* there or not: which one it is, nothing here depends on.                 *)
(***************************************************************************)
EXTENDS Naturals, FiniteSets

CONSTANTS
    HostIds,
    HostNames,
    MaxRetries,     \* retryLoad's maxAttempts
    MaxHostSteps    \* bound: requests of the operators

ASSUME HostRegistryAssumption == MaxRetries \in Nat /\ MaxHostSteps \in Nat /\ 1 \in HostIds

NoName == "none"
Operators == {"first", "second"}
Callers == Operators \cup {"retry"}

VARIABLES
    hRow,       \* the host rows: name and enabled
    hLink,      \* the host name in the folder link of each host
    hReg,       \* activeClients: the names a connection is registered under
    hCall,      \* the callers: requests under way, and the retry
    hTries,     \* attempts of retryLoad
    hWatcher,   \* the watcher goroutines
    hActive,    \* hostWatchers.active: the generation watching each name
    hLostTrack, \* the hosts whose links may have lost their name
    hostSteps

hostVars == <<hRow, hLink, hReg, hCall, hTries, hWatcher, hActive, hLostTrack,
              hostSteps>>
watchVars == <<hWatcher, hActive>>

NoHostRow == [name |-> NoName, on |-> FALSE]
NoHostCall == [at |-> "none", id |-> 1, conf |-> NoHostRow, then |-> "none",
               seen |-> NoName]
Alive(id) == hRow[id].name # NoName

(* Host 1 is connected and watched.  The others were enabled but could not *)
(* be reached when LoadAll ran, or do not exist yet.                       *)
HostInit ==
    /\ \E names \in [HostIds -> HostNames \cup {NoName}] :
         /\ \A i, j \in HostIds : i # j => names[i] = NoName \/ names[i] # names[j]
         /\ names[1] # NoName
         /\ hRow = [i \in HostIds |-> [name |-> names[i], on |-> names[i] # NoName]]
    /\ hLink = [i \in HostIds |-> hRow[i].name]
    /\ hReg = {hRow[1].name}
    /\ \E i \in HostIds \ {1} :
         hCall = [c \in Callers |-> IF c = "retry" /\ Alive(i)
                                      THEN [NoHostCall EXCEPT !.at = "sleep", !.id = i,
                                                          !.conf = hRow[i]]
                                      ELSE NoHostCall]
    /\ hTries = 0 /\ hLostTrack = {} /\ hostSteps = 0
    /\ hWatcher = {[name |-> hRow[1].name, gen |-> 1, up |-> TRUE, ctx |-> TRUE]}
    /\ hActive = [n \in HostNames |-> IF n = hRow[1].name THEN 1 ELSE 0]

Call(c, r) == hCall' = [hCall EXCEPT ![c] = r]
Step(c, at) == Call(c, [hCall[c] EXCEPT !.at = at])
Done(c) == Call(c, NoHostCall)
-----------------------------------------------------------------------------
(* hostWatchers.                                                           *)

Cancelled(n) == {IF w.name = n /\ w.gen = hActive[n] THEN [w EXCEPT !.ctx = FALSE] ELSE w :
                   w \in hWatcher}
Generation == CHOOSE g \in 1..(Cardinality(hWatcher) + 1) : \A w \in hWatcher : w.gen # g

(* watch: the previous watcher of the name is cancelled.                   *)
watch(n) ==
    /\ hWatcher' = Cancelled(n) \cup {[name |-> n, gen |-> Generation, up |-> FALSE, ctx |-> TRUE]}
    /\ hActive' = [hActive EXCEPT ![n] = Generation]

release(n) ==
    /\ hWatcher' = Cancelled(n)
    /\ hActive' = [hActive EXCEPT ![n] = 0]

(* Mutant of finished: the watcher drops whatever is registered.           *)
FinishedAny(w) == [hActive EXCEPT ![w.name] = 0]

(* finished: a watcher unregisters itself, never its successor.            *)
finished(w) == IF hActive[w.name] = w.gen THEN [hActive EXCEPT ![w.name] = 0] ELSE hActive

(* The goroutine: the connection is looked up by name when it starts.      *)
WatcherStarts(w) ==
    /\ ~w.up /\ w.name \in hReg
    /\ hWatcher' = (hWatcher \ {w}) \cup {[w EXCEPT !.up = TRUE]}
    /\ UNCHANGED <<hRow, hLink, hReg, hCall, hTries, hActive, hLostTrack, hostSteps>>

(* It returns when it finds no host or is cancelled; closing the           *)
(* connection does not close the channel it reads.                         *)
WatcherEnds(w) ==
    /\ ~w.ctx \/ (~w.up /\ w.name \notin hReg)
    /\ hWatcher' = hWatcher \ {w}
    /\ hActive' = finished(w)
    /\ UNCHANGED <<hRow, hLink, hReg, hCall, hTries, hLostTrack, hostSteps>>
-----------------------------------------------------------------------------
(* Add, for both callers.                                                  *)

(* loadHost: the SSH client, the Docker client and a first request to the  *)
(* daemon; what was opened is closed again when one of them fails.         *)
loadHost(c) ==
    /\ hCall[c].at = "dial"
    /\ \/ Step(c, "opened")
       \/ IF c = "retry" /\ hTries < MaxRetries THEN Step(c, "sleep") ELSE Done(c)
    /\ UNCHANGED <<hRow, hLink, hReg, hTries, watchVars, hLostTrack, hostSteps>>

(* A new row is saved once the host has answered, under an id no row ever  *)
(* had, and without it the connection is closed.  Folder links are made    *)
(* for the host from then on.  A disabled host is only tried out.          *)
AddFails(c) ==
    /\ hCall[c].at = "opened" /\ hCall[c].then = "create"
    /\ Done(c)
    /\ UNCHANGED <<hRow, hLink, hReg, hTries, watchVars, hLostTrack, hostSteps>>

Add(c) ==
    LET r == hCall[c] IN
    /\ r.at = "opened"
    /\ IF r.then # "create" THEN UNCHANGED <<hRow, hLink>>
       ELSE \E id \in HostIds : /\ hLink[id] = NoName
                               /\ hRow' = [hRow EXCEPT ![id] = r.conf]
                               /\ hLink' = [hLink EXCEPT ![id] = r.conf.name]
    /\ IF r.conf.on
         THEN Step(c, "take") /\ UNCHANGED watchVars
         ELSE Done(c) /\ release(r.conf.name)
    /\ UNCHANGED <<hReg, hTries, hLostTrack, hostSteps>>

(* LoadAndDelete, and the previous connection is closed.                   *)
LoadAndDelete(n) == hReg' = hReg \ {n}

AddTakes(c) ==
    /\ hCall[c].at = "take" /\ LoadAndDelete(hCall[c].conf.name) /\ Step(c, "store")
    /\ UNCHANGED <<hRow, hLink, hTries, watchVars, hLostTrack, hostSteps>>

AddStores(c) ==
    /\ hCall[c].at = "store"
    /\ hReg' = hReg \cup {hCall[c].conf.name}
    /\ Step(c, "notify")
    /\ UNCHANGED <<hRow, hLink, hTries, watchVars, hLostTrack, hostSteps>>

(* notifyConnected, on every connection.                                   *)
notifyConnected(c) ==
    /\ hCall[c].at = "notify" /\ watch(hCall[c].conf.name) /\ Done(c)
    /\ UNCHANGED <<hRow, hLink, hReg, hTries, hLostTrack, hostSteps>>

(* retryLoad reads the row again by name, and stops when it is gone or     *)
(* disabled.                                                               *)
retryLoad ==
    /\ hCall["retry"].at = "sleep"
    /\ hTries' = hTries + 1
    /\ \/ \E id \in HostIds : /\ hRow[id].name = hCall["retry"].conf.name /\ hRow[id].on
                              /\ Call("retry", [hCall["retry"] EXCEPT !.at = "dial", !.id = id,
                                                                      !.conf = hRow[id]])
       \/ /\ \/ \A id \in HostIds : hRow[id].name # hCall["retry"].conf.name
             \/ \E id \in HostIds : hRow[id].name = hCall["retry"].conf.name /\ ~hRow[id].on
          /\ Call("retry", NoHostCall)
    /\ UNCHANGED <<hRow, hLink, hReg, watchVars, hLostTrack, hostSteps>>
-----------------------------------------------------------------------------
(* The operators' requests.  A row is read first, and every later step     *)
(* works on the copy; "seen" is the name it had then.                      *)

HostRequest(c) ==
    /\ hCall[c].at = "none" /\ c = CHOOSE d \in Operators : hCall[d].at = "none"
    /\ hostSteps < MaxHostSteps /\ hostSteps' = hostSteps + 1
Asked(c, id, conf, at, then, seen) ==
    Call(c, [at |-> at, id |-> id, conf |-> conf, then |-> then, seen |-> seen])
requestVars == <<hRow, hLink, hReg, hTries, hWatcher, hActive, hLostTrack>>

(* A row or links that no longer have the name a request read.             *)
RowMoved(r) == IF hRow[r.id].name # r.seen THEN {r.id} ELSE {}
LinksMoved(r) == IF hLink[r.id] # r.seen THEN {r.id} ELSE {}
SharedBy(r, n) == {i \in HostIds \ {r.id} : hLink[i] = n}

CreateHost(c, n, on) ==
    /\ HostRequest(c) /\ n # NoName
    /\ Asked(c, 1, [name |-> n, on |-> on], "dial", "create", NoName)
    /\ UNCHANGED requestVars

ToggleReads(c, id) ==
    /\ HostRequest(c) /\ Alive(id)
    /\ Asked(c, id, [hRow[id] EXCEPT !.on = ~@], "toggle", "none", hRow[id].name)
    /\ UNCHANGED requestVars

(* The whole row; a disabled host is dropped, and either way Add follows.  *)
Toggle(c) ==
    LET r == hCall[c] IN
    /\ r.at = "toggle"
    /\ \/ /\ hRow' = [hRow EXCEPT ![r.id] = r.conf]
          /\ hLostTrack' = hLostTrack \cup RowMoved(r)
          /\ Step(c, IF r.conf.on THEN "dial" ELSE "drop")
       \/ Done(c) /\ UNCHANGED <<hRow, hLostTrack>>
    /\ UNCHANGED <<hLink, hReg, hTries, watchVars, hostSteps>>

DeleteHost(c, id) ==
    /\ HostRequest(c) /\ Alive(id)
    /\ Asked(c, id, hRow[id], "drop", "delete", hRow[id].name)
    /\ UNCHANGED requestVars

Drop(c) ==
    /\ hCall[c].at = "drop" /\ LoadAndDelete(hCall[c].conf.name)
    /\ Step(c, "gone")
    /\ UNCHANGED <<hRow, hLink, hTries, watchVars, hLostTrack, hostSteps>>

notifyDisconnected(c) ==
    LET r == hCall[c] IN
    /\ r.at = "gone" /\ release(r.conf.name)
    /\ Step(c, IF r.then = "delete" THEN "erase" ELSE "dial")
    /\ UNCHANGED <<hRow, hLink, hReg, hTries, hLostTrack, hostSteps>>

(* Then the row of a deleted host, unless an error stops it; its folder    *)
(* links stay and go on naming it.                                         *)
DeleteRow(c) ==
    LET r == hCall[c] IN
    /\ r.at = "erase" /\ Done(c)
    /\ \/ hRow' = [hRow EXCEPT ![r.id] = NoHostRow]
       \/ UNCHANGED hRow
    /\ UNCHANGED <<hLink, hReg, hTries, watchVars, hLostTrack, hostSteps>>

(* Mutant of renameHost: the links keep the old name.                      *)
LinksLeft(from, to) == hLink

(* RenameHostBindings: every link of one name.                             *)
renameHost(from, to) == [i \in HostIds |-> IF hLink[i] = from THEN to ELSE hLink[i]]

(* Edit: the previous row by its id.  To another name, the links go first. *)
EditHost(c, id, n, on) ==
    /\ HostRequest(c) /\ Alive(id) /\ n # NoName
    /\ Asked(c, id, [name |-> n, on |-> on], IF n = hRow[id].name THEN "save" ELSE "edit",
             "none", hRow[id].name)
    /\ UNCHANGED requestVars

EditRenames(c) ==
    LET r == hCall[c] IN
    /\ r.at = "edit"
    /\ \/ /\ hLink' = renameHost(r.seen, r.conf.name)
          /\ hLostTrack' = hLostTrack \cup RowMoved(r) \cup LinksMoved(r) \cup SharedBy(r, r.seen)
          /\ Step(c, "save")
       \/ Done(c) /\ UNCHANGED <<hLink, hLostTrack>>
    /\ UNCHANGED <<hRow, hReg, hTries, watchVars, hostSteps>>

(* Then the row.  If that fails the links are put back, or the answer says *)
(* that they could not be.  Without a rename nothing follows.              *)
EditSaves(c) ==
    LET r == hCall[c] IN
    /\ r.at = "save"
    /\ \/ /\ hRow' = [hRow EXCEPT ![r.id] = r.conf]
          /\ hLostTrack' = hLostTrack \cup RowMoved(r)
          /\ IF r.conf.name = r.seen THEN Done(c) ELSE Step(c, "load")
          /\ UNCHANGED hLink
       \/ /\ r.conf.name # r.seen
          /\ hLink' = renameHost(r.conf.name, r.seen)
          /\ hLostTrack' = hLostTrack \cup SharedBy(r, r.conf.name)
          /\ Done(c) /\ UNCHANGED hRow
       \/ /\ r.conf.name # r.seen /\ hLostTrack' = hLostTrack \cup {r.id}
          /\ Done(c) /\ UNCHANGED <<hRow, hLink>>
       \/ /\ r.conf.name = r.seen /\ Done(c) /\ UNCHANGED <<hRow, hLink, hLostTrack>>
    /\ UNCHANGED <<hReg, hTries, watchVars, hostSteps>>

(* Last the registry, in three operations, and the watcher.                *)
EditLoads(c) ==
    /\ hCall[c].at = "load"
    /\ IF hCall[c].seen \in hReg THEN Step(c, "move") ELSE Done(c)
    /\ UNCHANGED <<requestVars, hostSteps>>

EditDeletes(c) ==
    /\ hCall[c].at = "move" /\ Step(c, "place")
    /\ hReg' = hReg \ {hCall[c].seen}
    /\ UNCHANGED <<hRow, hLink, hTries, watchVars, hLostTrack, hostSteps>>

EditStores(c) ==
    /\ hCall[c].at = "place" /\ Step(c, "leave")
    /\ hReg' = hReg \cup {hCall[c].conf.name}
    /\ UNCHANGED <<hRow, hLink, hTries, watchVars, hLostTrack, hostSteps>>

EditReleases(c) ==
    /\ hCall[c].at = "leave" /\ release(hCall[c].seen) /\ Step(c, "notify")
    /\ UNCHANGED <<hRow, hLink, hReg, hTries, hLostTrack, hostSteps>>

HostNext ==
    \/ \E c \in Callers : \/ loadHost(c) \/ Add(c) \/ AddFails(c) \/ AddTakes(c) \/ AddStores(c)
                          \/ notifyConnected(c)
    \/ retryLoad
    \/ \E c \in Operators :
         \/ Toggle(c) \/ Drop(c) \/ notifyDisconnected(c) \/ DeleteRow(c)
         \/ EditRenames(c) \/ EditSaves(c) \/ EditLoads(c)
         \/ EditDeletes(c) \/ EditStores(c) \/ EditReleases(c)
         \/ \E id \in HostIds : ToggleReads(c, id) \/ DeleteHost(c, id)
         \/ \E n \in HostNames, on \in BOOLEAN :
              CreateHost(c, n, on) \/ \E id \in HostIds : EditHost(c, id, n, on)
    \/ \E w \in hWatcher : WatcherStarts(w) \/ WatcherEnds(w)

HostSpec == HostInit /\ [][HostNext]_hostVars
-----------------------------------------------------------------------------
HostTypeOK ==
    /\ hRow \in [HostIds -> [name : HostNames \cup {NoName}, on : BOOLEAN]]
    /\ hLink \in [HostIds -> HostNames \cup {NoName}]
    /\ hReg \subseteq HostNames /\ hTries \in 0..(MaxRetries + 1)
    /\ \A w \in hWatcher : w.name \in HostNames /\ w.up \in BOOLEAN /\ w.ctx \in BOOLEAN

(* However connects, disconnects, renames and retries interleave, a host   *)
(* has at most one watcher that was not cancelled, and that one is         *)
(* registered, so that a later disconnect or reconnect still reaches it    *)
(* (host_watch.go: "exactly one watcher, not a growing pile of             *)
(* goroutines").                                                           *)
OneWatcher ==
    \A w \in hWatcher : w.ctx => w.gen = hActive[w.name]

(* However requests interleave, a folder link names its host by the name   *)
(* the host's row has, except while a rename of that host is between the   *)
(* links and the row (service.go, Edit).  Not covered are the hosts whose  *)
(* row was saved or renamed by a request that had read it under another    *)
(* name than it or its links had by then, the hosts that shared their name *)
(* with a renamed one, and those whose links could not be put back, which  *)
(* the operator was told.                                                  *)
LinksFollowRename ==
    \A i \in HostIds \ hLostTrack :
      /\ Alive(i)
      /\ \A c \in Operators : ~(hCall[c].at = "save" /\ hCall[c].id = i)
      => hLink[i] = hRow[i].name

HostsCoherent == OneWatcher /\ LinksFollowRename
=============================================================================
