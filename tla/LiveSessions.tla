---------------------------- MODULE LiveSessions ----------------------------
(***************************************************************************)
(* The interactive sessions a browser holds open: a shell in a container,  *)
(* a debug container beside it, a shell on the host, the log socket and    *)
(* the database viewer (docker/handler_http.go, hostshell_http.go,         *)
(* debug/debug.go, compose/shell.go, viewer/).                             *)
(*                                                                         *)
(* A session joins the browser's socket with a connection to the far end,  *)
(* read by a goroutine of its own; either side may end at any time.  Debug *)
(* and viewer sessions run in a container made for them.                   *)
(***************************************************************************)
EXTENDS Naturals

CONSTANTS
    LiveIds,        \* sessions
    MaxLiveSteps    \* bound: sessions opened and stops of Dockman

ASSUME LiveAssumption == MaxLiveSteps \in Nat

VARIABLES
    lvAllow,    \* DOCKMAN_ALLOW_SELF_EXEC
    lv,         \* the sessions
    liveSteps   \* see MaxLiveSteps

liveVars == <<lvAllow, lv, liveSteps>>

LiveKinds == {"exec", "debug", "shell", "logs", "viewer"}

(* at: where the handler is; self: the far end is Dockman itself, or the   *)
(* host it runs on; socket, conn: open; reader: the goroutine runs; box:   *)
(* the container made for it; url: in viewer's sessions; fault: what went  *)
(* wrong, as answered or logged.                                           *)
NoLive == [at |-> "none", kind |-> "exec", self |-> FALSE, socket |-> FALSE, conn |-> FALSE,
           reader |-> FALSE, box |-> "none", url |-> FALSE, fault |-> "none"]

LiveInit == lvAllow \in BOOLEAN /\ lv = [q \in LiveIds |-> NoLive] /\ liveSteps = 0

Moves(q, r) == lv' = [lv EXCEPT ![q] = r] /\ UNCHANGED <<lvAllow, liveSteps>>
-----------------------------------------------------------------------------
(* Mutant of execAllowed: the debug container is taken for another one.    *)
DebugIsOther(kind, self) == lvAllow \/ kind \in {"debug", "logs", "viewer"} \/ ~self

(* The policy: a privileged debug container, a shell in Dockman's container*)
(* and a shell on the local host need the operator's word.                 *)
execAllowed(kind, self) ==
    lvAllow \/ (kind # "debug" /\ (kind \in {"exec", "shell"} => ~self))

Opens(q, kind, self, r) ==
    /\ liveSteps < MaxLiveSteps /\ liveSteps' = liveSteps + 1
    /\ lv[q].at = "none" /\ execAllowed(kind, self)
    /\ lv' = [lv EXCEPT ![q] = r]
    /\ UNCHANGED lvAllow

Opened(kind, self, at) ==
    [NoLive EXCEPT !.kind = kind, !.self = self, !.socket = TRUE, !.at = at]

(* containerExec: the policy, then the upgrade to a socket.  A debug       *)
(* request that names no image goes on as a plain shell.                   *)
OpenExec(q, self) ==
    \/ Opens(q, "exec", self, Opened("exec", self, "connect"))
    \/ Opens(q, "debug", self, Opened("debug", self, "make"))
    \/ Opens(q, "debug", self, Opened("exec", self, "connect"))

(* hostShell: the policy is about Dockman's own host.                      *)
OpenShell(q, self) == Opens(q, "shell", self, Opened("shell", self, "connect"))

(* containerLogs opens the stream before the socket, so a failed upgrade   *)
(* has the stream to close.                                                *)
OpenLogs(q, self) ==
    \/ Opens(q, "logs", self, [Opened("logs", self, "open") EXCEPT !.conn = TRUE, !.reader = TRUE])
    \/ Opens(q, "logs", self, [Opened("logs", self, "close") EXCEPT !.conn = TRUE, !.socket = FALSE])

(* StartSqliteSession: the path and the network of Dockman's container are *)
(* found, and the image is pulled.                                         *)
OpenViewer(q) == Opens(q, "viewer", FALSE, Opened("viewer", FALSE, "make"))

SetupFails(q) == Moves(q, [lv[q] EXCEPT !.at = "close", !.fault = "setup"])

MakeBox(q, kind, next) ==
    /\ lv[q].kind = kind
    /\ \/ /\ lv[q].at = "make"
          /\ \/ Moves(q, [lv[q] EXCEPT !.at = "start", !.box = "created"])
             \/ SetupFails(q)
       \/ /\ lv[q].at = "start"
          /\ \/ Moves(q, [lv[q] EXCEPT !.at = next, !.box = "up"])
             \/ SetupFails(q)

(* ContainerExecDebug: the image, the target, the container and its start. *)
ContainerExecDebug(q) == MakeBox(q, "debug", "connect")

(* StartSession: the container that serves the file, and its start.        *)
StartSession(q) == MakeBox(q, "viewer", "port")

(* The exec, the debug container's terminal or the shell is attached and   *)
(* its reader started.                                                     *)
Attach(q, kinds) ==
    /\ lv[q].at = "connect" /\ lv[q].kind \in kinds
    /\ \/ Moves(q, [lv[q] EXCEPT !.at = "open", !.conn = TRUE, !.reader = TRUE])
       \/ SetupFails(q)

AttachExec(q) == Attach(q, {"exec"})
AttachDebug(q) == Attach(q, {"debug"})
StartShell(q) == Attach(q, {"shell"})

(* The viewer waits for its port, and then has an address for the proxy.   *)
ServeViewer(q) ==
    /\ lv[q].at = "port"
    /\ \/ Moves(q, [lv[q] EXCEPT !.at = "open", !.url = TRUE])
       \/ SetupFails(q)

FarEndStops(q, kinds, socket) ==
    /\ lv[q].at = "open" /\ lv[q].reader /\ lv[q].kind \in kinds
    /\ Moves(q, [lv[q] EXCEPT !.reader = FALSE, !.socket = @ /\ socket, !.box = "none"])

(* The process ends: the goroutine cancels, which the loop sees only at    *)
(* the browser's next message.  A debug container that ends is removed by  *)
(* the daemon (AutoRemove).                                                *)
ExecStops(q) == FarEndStops(q, {"exec", "debug"}, TRUE)

(* The host shell and the log stream unblock the handler's read as well.   *)
ShellStops(q) == FarEndStops(q, {"shell"}, FALSE)
LogsStop(q) == FarEndStops(q, {"logs"}, FALSE)

ClientLeaves(q) ==
    /\ lv[q].at # "none" /\ lv[q].socket
    /\ Moves(q, [lv[q] EXCEPT !.socket = FALSE])

(* The handler's loop ends: the socket is gone, a write to the far end     *)
(* failed or the context was cancelled.                                    *)
LoopEnds(q) ==
    /\ lv[q].at = "open" /\ lv[q].kind # "viewer"
    /\ ~lv[q].socket \/ ~lv[q].reader
    /\ Moves(q, [lv[q] EXCEPT !.at = "close"])

(* The viewer's handler only waits for its client.                         *)
ViewerEnds(q) ==
    /\ lv[q].at = "open" /\ lv[q].kind = "viewer" /\ ~lv[q].socket
    /\ Moves(q, [lv[q] EXCEPT !.at = "close"])

(* Mutant of CloseLive: only the write side of the connection is closed.   *)
WriteClosed(q) ==
    /\ lv[q].at = "close"
    /\ Moves(q, [lv[q] EXCEPT !.at = "clean", !.url = FALSE])

(* The deferred calls: the connection is closed in both directions, so     *)
(* that the goroutine's read returns; the viewer's address is dropped.     *)
CloseLive(q) ==
    /\ lv[q].at = "close"
    /\ Moves(q, [lv[q] EXCEPT !.at = "clean", !.conn = FALSE, !.reader = FALSE, !.url = FALSE])

Cleaned(q, kinds) ==
    /\ lv[q].at = "clean" /\ lv[q].kind \in kinds
    /\ \/ Moves(q, [lv[q] EXCEPT !.at = "done", !.socket = FALSE,
                                 !.box = IF lv[q].fault = "setup" THEN @ ELSE "none"])
       \/ /\ lv[q].box = "up" /\ lv[q].fault = "none"
          /\ Moves(q, [lv[q] EXCEPT !.at = "done", !.socket = FALSE, !.fault = "removal"])

(* The cleanup removes the container by force.  It exists only once the    *)
(* setup was through; the daemon may refuse, which is logged.              *)
CleanLive(q) == Cleaned(q, LiveKinds \ {"viewer"})
CloseViewer(q) == Cleaned(q, {"viewer"})

(* Dockman stops: its sockets and goroutines are gone, containers stay.    *)
StopLive ==
    /\ liveSteps < MaxLiveSteps /\ liveSteps' = liveSteps + 1
    /\ lv' = [q \in LiveIds |->
                IF lv[q].at \in {"none", "done"} THEN lv[q]
                ELSE [NoLive EXCEPT !.at = "done", !.kind = lv[q].kind, !.self = lv[q].self,
                                    !.box = lv[q].box, !.fault = "stop"]]
    /\ lvAllow' \in BOOLEAN

LiveNext ==
    \/ StopLive
    \/ \E q \in LiveIds :
         \/ \E self \in BOOLEAN : OpenExec(q, self) \/ OpenShell(q, self) \/ OpenLogs(q, self)
         \/ OpenViewer(q) \/ ContainerExecDebug(q) \/ StartSession(q)
         \/ AttachExec(q) \/ AttachDebug(q) \/ StartShell(q) \/ ServeViewer(q)
         \/ ExecStops(q) \/ ShellStops(q) \/ LogsStop(q) \/ ClientLeaves(q)
         \/ LoopEnds(q) \/ ViewerEnds(q) \/ CloseLive(q) \/ CleanLive(q) \/ CloseViewer(q)

LiveSpec == LiveInit /\ [][LiveNext]_liveVars
-----------------------------------------------------------------------------
LiveTypeOK ==
    /\ lvAllow \in BOOLEAN /\ liveSteps \in 0..MaxLiveSteps
    /\ \A q \in LiveIds :
         /\ lv[q].kind \in LiveKinds /\ lv[q].box \in {"none", "created", "up"}
         /\ lv[q].at \in {"none", "make", "start", "connect", "port", "open", "close", "clean", "done"}
         /\ lv[q].fault \in {"none", "setup", "removal", "stop"}

(* A session that is over holds nothing: no socket, connection, goroutine  *)
(* or viewer address, whichever side ended first, and a container it made  *)
(* stays only after a fault that was reported (containerExec, closer).     *)
NothingHeld ==
    \A q \in LiveIds : lv[q].at = "done" =>
        /\ ~lv[q].socket /\ ~lv[q].conn /\ ~lv[q].reader /\ ~lv[q].url
        /\ lv[q].box # "none" => lv[q].fault # "none"

(* While the policy is closed no live session is a shell inside Dockman or *)
(* on its host, and none has a privileged container (checkExecAllowed).    *)
PolicyHolds ==
    \A q \in LiveIds : ~lvAllow /\ lv[q].at \notin {"none", "done"} =>
        lv[q].kind # "debug" /\ ~(lv[q].self /\ lv[q].kind \in {"exec", "shell"})

SessionsSafe == NothingHeld /\ PolicyHolds
=============================================================================
