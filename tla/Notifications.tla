--------------------------- MODULE Notifications ---------------------------
(***************************************************************************)
(* Notification channels of one host (notifications/): the rows an         *)
(* operator saves, the former single SMTP row and its migration at start,  *)
(* the fingerprints that keep a scheduled scan from announcing the same    *)
(* thing twice, and the bounded queue of operational events.               *)
(*                                                                         *)
(* A scan and the operator interleave: a row may be saved or deleted while *)
(* a message is on its way.  A send may fail, and Dockman may stop between *)
(* any two steps.  Destination 0 is the former SMTP row.                   *)
(***************************************************************************)
EXTENDS Naturals, Sequences, FiniteSets

CONSTANTS
    ChannelIds,      \* the identities of channels
    Findings,        \* what a scan can find, as the fingerprint of the list
    NotifyQueue,     \* capacity of the event queue
    MaxDeliveries,   \* deliveries kept
    MaxNotifySteps   \* bound: requests, scans, events and stops

ASSUME NotificationsAssumption ==
    /\ ChannelIds \subseteq Nat \ {0} /\ Findings \subseteq Nat \ {0}
    /\ NotifyQueue \in Nat /\ MaxDeliveries \in Nat \ {0} /\ MaxNotifySteps \in Nat

VARIABLES
    nRow,      \* the configuration rows
    nState,    \* the fingerprints saved for each destination
    nTold,     \* history: what has reached each destination
    nScan,     \* the NotifyScan in progress
    nQueue,    \* operational events waiting for the dispatcher
    nLog,      \* deliveries recorded
    nBoot,     \* where the process is
    nSteps

notifyVars == <<nRow, nState, nTold, nScan, nQueue, nLog, nBoot, nSteps>>

Destinations == ChannelIds \cup {0}
EventKinds == {"available", "success", "failure"}
NoChannelRow == [there |-> FALSE, smtp |-> FALSE, on |-> FALSE, events |-> {}, moved |-> FALSE]
NoScan == [at |-> "none", left |-> {}, rows |-> [k \in Destinations |-> NoChannelRow], av |-> 0,
           er |-> 0, k |-> 0, st |-> [av |-> 0, er |-> 0]]
Forgotten == [av |-> 0, er |-> 0]

(* validateChannelInput: what an operator may save, the data abstracted to *)
(* the kind of channel and the events it is subscribed to.                 *)
validateChannelInput(r) == r.events \subseteq EventKinds

(* normalizeEventTypes for the two switches of the former row.             *)
normalizeEventTypes(updates, errors) ==
    (IF updates THEN {"available", "success"} ELSE {}) \cup (IF errors THEN {"failure"} ELSE {})

NotifyInit ==
    /\ nRow \in {[k \in Destinations |-> IF k = 0 THEN r ELSE NoChannelRow] :
                   r \in {NoChannelRow, [NoChannelRow EXCEPT !.there = TRUE, !.smtp = TRUE, !.on = TRUE,
                                               !.events = EventKinds]}}
    /\ nState = [k \in Destinations |-> Forgotten]
    /\ nTold = [k \in Destinations |-> {}]
    /\ nScan = NoScan /\ nQueue = <<>> /\ nLog = 0 /\ nBoot = "migrate" /\ nSteps = 0

NotifyAct == nBoot = "up" /\ nSteps < MaxNotifySteps /\ nSteps' = nSteps + 1
-----------------------------------------------------------------------------
(* Rows.  A saved row forgets what its destination was told, in the same   *)
(* transaction.                                                            *)
PutRow(k, r) ==
    nRow' = [nRow EXCEPT ![k] = r] /\ nState' = [nState EXCEPT ![k] = Forgotten]

(* Service.Save: the former row, still accepted by its endpoint.           *)
Save(updates, errors) ==
    /\ NotifyAct
    /\ PutRow(0, [there |-> TRUE, smtp |-> TRUE, on |-> TRUE, moved |-> FALSE,
                  events |-> normalizeEventTypes(updates, errors)])
    /\ UNCHANGED <<nTold, nScan, nQueue, nLog, nBoot>>

(* An identity that is not in the table is an error; a new row takes a     *)
(* fresh one.                                                              *)
SaveChannel(k, smtp, on, events) ==
    /\ NotifyAct
    /\ LET r == [there |-> TRUE, smtp |-> smtp, on |-> on, events |-> events, moved |-> FALSE]
       IN validateChannelInput(r) /\ PutRow(k, r)
    /\ UNCHANGED <<nTold, nScan, nQueue, nLog, nBoot>>

DeleteChannel(k) ==
    /\ NotifyAct /\ nRow[k].there
    /\ PutRow(k, NoChannelRow)
    /\ UNCHANGED <<nTold, nScan, nQueue, nLog, nBoot>>

(* Mutant of SupersededLegacy: the table is not asked for a replacement.   *)
NeverSuperseded == FALSE

(* A channel of the SMTP type is already there, a migrated one included.   *)
SupersededLegacy == \E k \in ChannelIds : nRow[k].there /\ nRow[k].smtp

(* MigrateLegacySMTPConfigs: the replacement is committed, then the former *)
(* row is deleted; a stop may come between the two.  A row that cannot be  *)
(* decrypted stops the migration and stays.                                *)
MigrateLegacySMTPConfigs ==
    /\ nBoot \in {"migrate", "delete"}
    /\ \/ /\ nBoot = "migrate" /\ nRow[0].there /\ ~SupersededLegacy
          /\ \/ \E k \in ChannelIds :
                  /\ ~nRow[k].there
                  /\ PutRow(k, [nRow[0] EXCEPT !.moved = TRUE])
                  /\ nBoot' = "delete"
             \/ nBoot' = "up" /\ UNCHANGED <<nRow, nState>>
       \/ /\ nBoot = "delete" \/ SupersededLegacy
          /\ nRow' = [nRow EXCEPT ![0] = NoChannelRow] /\ nBoot' = "up" /\ UNCHANGED nState
       \/ /\ nBoot = "migrate" /\ ~nRow[0].there
          /\ nBoot' = "up" /\ UNCHANGED <<nRow, nState>>
    /\ UNCHANGED <<nTold, nScan, nQueue, nLog, nSteps>>
-----------------------------------------------------------------------------
(* Deliveries.                                                             *)
enabledDestinations == {k \in Destinations : nRow[k].there /\ nRow[k].on}

(* recordDelivery prunes what exceeds the limit in the same transaction.   *)
recordDelivery(n) == nLog' = IF nLog + n > MaxDeliveries THEN MaxDeliveries ELSE nLog + n

(* NotifyScan captures the enabled rows and what the scan found: available *)
(* updates and failures, 0 for none.  Only a scheduled run notifies.       *)
NotifyScan(av, er) ==
    /\ NotifyAct /\ nScan = NoScan /\ enabledDestinations # {}
    /\ nScan' = [NoScan EXCEPT !.at = "load", !.left = enabledDestinations, !.rows = nRow,
                               !.av = av, !.er = er]
    /\ UNCHANGED <<nRow, nState, nTold, nQueue, nLog, nBoot>>

Subscribed(kind) == kind \in nScan.rows[nScan.k].events
notifyAvailable == Subscribed("available") /\ nScan.av # 0 /\ nScan.av # nScan.st.av
notifyErrors == Subscribed("failure") /\ nScan.er # 0 /\ nScan.er # nScan.st.er

(* loadChannelState for the next destination, in the order of the ids.     *)
loadChannelState ==
    /\ nScan.at = "load"
    /\ IF nScan.left = {} THEN nScan' = NoScan
       ELSE LET k == CHOOSE x \in nScan.left : \A y \in nScan.left : x <= y
            IN nScan' = [nScan EXCEPT !.at = "send", !.left = @ \ {k}, !.k = k,
                                      !.st = nState[k]]
    /\ UNCHANGED <<nRow, nState, nTold, nQueue, nLog, nBoot, nSteps>>

(* Nothing new: a fingerprint whose cause is gone is cleared, in the row   *)
(* that is there now.                                                      *)
resetResolvedChannelFingerprints ==
    /\ nScan.at = "send" /\ ~notifyAvailable /\ ~notifyErrors
    /\ nState' = [nState EXCEPT ![nScan.k] =
                    [av |-> IF nScan.av = 0 THEN 0 ELSE @.av,
                     er |-> IF nScan.er = 0 THEN 0 ELSE @.er]]
    /\ nScan' = [nScan EXCEPT !.at = "load"]
    /\ UNCHANGED <<nRow, nTold, nQueue, nLog, nBoot, nSteps>>

(* Mutant of Noted: the fingerprints are kept whether or not the message   *)
(* was accepted.                                                           *)
NotedAnyway(sent) ==
    [av |-> IF notifyAvailable THEN nScan.av ELSE nScan.st.av,
     er |-> IF notifyErrors THEN nScan.er ELSE nScan.st.er]

(* The fingerprints after the send: only what was accepted is noted.       *)
Noted(sent) ==
    [av |-> IF sent /\ notifyAvailable THEN nScan.av ELSE nScan.st.av,
     er |-> IF sent /\ notifyErrors THEN nScan.er ELSE nScan.st.er]

(* NetworkSender.Send: any step of the session may fail, and the closing   *)
(* one fails after the server has accepted the message; an HTTP endpoint   *)
(* may likewise accept it and its answer be lost.                          *)
NetworkSend(reached, sent) == sent => reached

(* destination.send: one message, of both lists when both are new.  A row  *)
(* that cannot be decrypted and an endpoint that refuses are failures.     *)
send ==
    /\ nScan.at = "send" /\ (notifyAvailable \/ notifyErrors)
    /\ recordDelivery(1)
    /\ \E reached, sent \in BOOLEAN :
         /\ NetworkSend(reached, sent)
         /\ nScan' = [nScan EXCEPT !.at = "save", !.st = Noted(sent)]
         /\ nTold' = IF ~reached THEN nTold
                     ELSE [nTold EXCEPT ![nScan.k] = @ \cup
                             (IF notifyAvailable THEN {<<"av", nScan.av>>} ELSE {}) \cup
                             (IF notifyErrors THEN {<<"er", nScan.er>>} ELSE {})]
    /\ UNCHANGED <<nRow, nState, nQueue, nBoot, nSteps>>

(* An upsert of both fingerprints, also when the row has been saved or     *)
(* deleted meanwhile.                                                      *)
saveChannelState ==
    /\ nScan.at = "save"
    /\ nState' = [nState EXCEPT ![nScan.k] = nScan.st]
    /\ nScan' = [nScan EXCEPT !.at = "load"]
    /\ UNCHANGED <<nRow, nTold, nQueue, nLog, nBoot, nSteps>>

(* NotifyExecution: one message when a destination wants both lists.       *)
NotifyExecution(ok, failed) ==
    /\ NotifyAct /\ enabledDestinations # {}
    /\ LET kinds == (IF ok THEN {"success"} ELSE {}) \cup (IF failed THEN {"failure"} ELSE {})
           wanting == {k \in enabledDestinations : nRow[k].events \cap kinds # {}}
       IN recordDelivery(Cardinality(wanting))
    /\ UNCHANGED <<nRow, nState, nTold, nScan, nQueue, nBoot>>

(* The queue never blocks the action that produces an event: a full queue  *)
(* drops it.                                                               *)
Enqueue(kind) ==
    /\ NotifyAct
    /\ nQueue' = IF Len(nQueue) < NotifyQueue THEN Append(nQueue, kind) ELSE nQueue
    /\ UNCHANGED <<nRow, nState, nTold, nScan, nLog, nBoot>>

(* The one dispatcher takes the head and publishes it to the rows that are *)
(* enabled and subscribed at that time.                                    *)
Publish ==
    /\ nBoot = "up" /\ nQueue # <<>>
    /\ nQueue' = Tail(nQueue)
    /\ recordDelivery(Cardinality({k \in enabledDestinations : Head(nQueue) \in nRow[k].events}))
    /\ UNCHANGED <<nRow, nState, nTold, nScan, nBoot, nSteps>>

(* Dockman stops and starts again: what is in memory is lost.              *)
NotifyStop ==
    /\ nSteps < MaxNotifySteps /\ nSteps' = nSteps + 1
    /\ nScan' = NoScan /\ nQueue' = <<>> /\ nBoot' = "migrate"
    /\ UNCHANGED <<nRow, nState, nTold, nLog>>

NotifyNext ==
    \/ \E u, e \in BOOLEAN : Save(u, e)
    \/ \E k \in ChannelIds, smtp, on \in BOOLEAN, ev \in {{"available"}, {"failure"}, EventKinds} :
         SaveChannel(k, smtp, on, ev)
    \/ \E k \in ChannelIds : DeleteChannel(k)
    \/ MigrateLegacySMTPConfigs
    \/ \E av, er \in Findings \cup {0} : NotifyScan(av, er)
    \/ loadChannelState \/ resetResolvedChannelFingerprints \/ send \/ saveChannelState
    \/ \E ok, failed \in BOOLEAN : NotifyExecution(ok, failed)
    \/ \E kind \in {"success", "failure"} : Enqueue(kind)
    \/ Publish
    \/ NotifyStop

NotifySpec == NotifyInit /\ [][NotifyNext]_notifyVars
-----------------------------------------------------------------------------
NotifyTypeOK ==
    /\ nRow \in [Destinations -> [there : BOOLEAN, smtp : BOOLEAN, on : BOOLEAN,
                                  events : SUBSET EventKinds, moved : BOOLEAN]]
    /\ nState \in [Destinations -> [av : Findings \cup {0}, er : Findings \cup {0}]]
    /\ nLog \in 0..MaxDeliveries /\ Len(nQueue) <= NotifyQueue
    /\ nScan.at \in {"none", "load", "send", "save"} /\ nScan.left \subseteq Destinations
    /\ nBoot \in {"migrate", "delete", "up"} /\ nSteps \in 0..MaxNotifySteps

(* What is not announced again has been announced, and the former SMTP row *)
(* becomes one channel only, whatever is stopped, saved or deleted on the  *)
(* way (smtp.go, NotifyScan saves a fingerprint only after the send;       *)
(* channels.go, the migration asks for a replacement first, because of "a  *)
(* crash between the two writes").                                         *)
NotifiedOnce ==
    /\ \A k \in Destinations :
         /\ nState[k].av # 0 => <<"av", nState[k].av>> \in nTold[k]
         /\ nState[k].er # 0 => <<"er", nState[k].er>> \in nTold[k]
    /\ \A i, j \in ChannelIds : nRow[i].moved /\ nRow[j].moved => i = j
=============================================================================
