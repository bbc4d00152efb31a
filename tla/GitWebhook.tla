----------------------------- MODULE GitWebhook -----------------------------
(***************************************************************************)
(* Inbound webhooks (gitsync/webhook.go): deliveries that announce pushes, *)
(* the bounded queue of repositories, and the one worker that synchronizes *)
(* the links of a repository.  Deliveries of one repository are coalesced  *)
(* while it is pending.                                                    *)
(*                                                                         *)
(* A delivery announces a push that is at the provider already: a run that *)
(* fetches afterwards sees it.  Handlers run concurrently with each other  *)
(* and with the worker; a delivery may be sent again with the same id.     *)
(***************************************************************************)
EXTENDS Naturals, FiniteSets, Sequences

CONSTANTS
    Hooked,         \* repositories with a webhook
    RepoOf,         \* ids of deliveries, each with the repository it announces
    QueueSize,      \* capacity of the queue
    MaxRotations    \* bound: rotations of the secret, switches and stops

ASSUME GitWebhookAssumption ==
    /\ QueueSize \in Nat \ {0} /\ MaxRotations \in Nat
    /\ RepoOf \in [DOMAIN RepoOf -> Hooked]

VARIABLES
    hOn,        \* the webhooks are enabled
    hSecret,    \* version of their secret
    hRequest,   \* per delivery: its repository and the step of its handler
    hRecorded,  \* ids that were recorded
    hPending,   \* webhookPending
    hQueue,     \* webhookQueue
    hWorker,    \* what the worker is doing
    hStatus,    \* last_status of each webhook
    hSeen,      \* history: deliveries whose push a run fetched
    hLost,      \* history: accepted deliveries that a stop or a full queue lost
    hSteps

hookVars == <<hOn, hSecret, hRequest, hRecorded, hPending, hQueue, hWorker, hStatus,
              hSeen, hLost, hSteps>>

Deliveries == DOMAIN RepoOf
NoRequest == [repo |-> "none", step |-> "none", secret |-> 0]
IdleWorker == [repo |-> "none", step |-> "idle"]
Finished == {"queued", "coalesced", "full", "ignored", "refused"}
InQueue == {hQueue[i] : i \in 1..Len(hQueue)}

HookInit ==
    /\ hOn = TRUE /\ hSecret = 0
    /\ hRequest = [d \in Deliveries |-> NoRequest]
    /\ hRecorded = {} /\ hPending = {} /\ hQueue = <<>>
    /\ hWorker = IdleWorker
    /\ hStatus = [r \in Hooked |-> "none"]
    /\ hSeen = {} /\ hLost = {} /\ hSteps = 0

HookAct == hSteps < MaxRotations /\ hSteps' = hSteps + 1

ConfigureRepositoryWebhook(on, rotate) ==
    /\ HookAct
    /\ hOn' = on
    /\ hSecret' = IF rotate THEN hSecret + 1 ELSE hSecret
    /\ UNCHANGED <<hRequest, hRecorded, hPending, hQueue, hWorker, hStatus, hSeen, hLost>>

(* The provider delivers, or delivers again what was answered already.     *)
Deliver(d) ==
    /\ \/ hRequest[d].step = "none"
       \/ hRequest[d].step \in {"full", "refused"} /\ HookAct
    /\ hRequest[d].step = "none" => UNCHANGED hSteps
    /\ hRequest' = [hRequest EXCEPT ![d] = [repo |-> RepoOf[d], step |-> "sent",
                                            secret |-> hSecret]]
    /\ UNCHANGED <<hOn, hSecret, hRecorded, hPending, hQueue, hWorker, hStatus, hSeen, hLost>>

HookAnswer(d, step) == hRequest' = [hRequest EXCEPT ![d].step = step]

(* The signature, then the record that refuses a second delivery of an id, *)
(* whatever became of the first.                                           *)
recordWebhookDelivery(d) == hRecorded' = hRecorded \cup {d}

receiveGitHubWebhook(d) ==
    /\ hRequest[d].step = "sent"
    /\ IF ~hOn \/ hRequest[d].secret # hSecret \/ d \in hRecorded
       THEN HookAnswer(d, "refused") /\ UNCHANGED <<hRecorded, hStatus>>
       ELSE /\ recordWebhookDelivery(d)
            /\ \/ HookAnswer(d, "enqueue") /\ UNCHANGED hStatus
               \/ /\ HookAnswer(d, "ignored")
                  /\ hStatus' = [hStatus EXCEPT ![hRequest[d].repo] = "ignored"]
    /\ UNCHANGED <<hOn, hSecret, hPending, hQueue, hWorker, hSeen, hLost, hSteps>>

(* Marked pending under the mutex, and sent to the channel after it.       *)
MarkPending(d) ==
    LET r == hRequest[d].repo
    IN /\ hRequest[d].step = "enqueue"
       /\ IF r \in hPending
          THEN /\ HookAnswer(d, "coalesced") /\ UNCHANGED hPending
               /\ hStatus' = [hStatus EXCEPT ![r] = "coalesced"]
          ELSE HookAnswer(d, "send") /\ hPending' = hPending \cup {r} /\ UNCHANGED hStatus
       /\ UNCHANGED <<hOn, hSecret, hRecorded, hQueue, hWorker, hSeen, hLost, hSteps>>

CoalescedUnseen(r) ==
    {d \in Deliveries : /\ hRequest[d].repo = r /\ hRequest[d].step = "coalesced"
                        /\ d \notin hSeen}

(* A full queue takes the mark back, under those who relied on it too.     *)
enqueueWebhookRepository(d) ==
    LET r == hRequest[d].repo
    IN /\ hRequest[d].step = "send"
       /\ IF Len(hQueue) < QueueSize
          THEN /\ hQueue' = Append(hQueue, r) /\ HookAnswer(d, "queued")
               /\ hStatus' = [hStatus EXCEPT ![r] = "accepted"]
               /\ UNCHANGED <<hPending, hLost>>
          ELSE /\ hPending' = hPending \ {r} /\ HookAnswer(d, "full")
               /\ hStatus' = [hStatus EXCEPT ![r] = "error"]
               /\ hLost' = hLost \cup CoalescedUnseen(r)
               /\ UNCHANGED hQueue
       /\ UNCHANGED <<hOn, hSecret, hRecorded, hWorker, hSeen, hSteps>>
-----------------------------------------------------------------------------
TakeFromQueue ==
    /\ hWorker.step = "idle" /\ hQueue # <<>>
    /\ hWorker' = [repo |-> Head(hQueue), step |-> "taken"]
    /\ hQueue' = Tail(hQueue)
    /\ UNCHANGED <<hOn, hSecret, hRequest, hRecorded, hPending, hStatus, hSeen, hLost, hSteps>>

(* Mutant of StartWebhookWorker: the mark is left for the run to clear.    *)
StartMarked ==
    /\ hWorker.step = "taken"
    /\ hWorker' = [hWorker EXCEPT !.step = "run"]
    /\ UNCHANGED <<hOn, hSecret, hRequest, hRecorded, hPending, hQueue, hStatus, hSeen,
                   hLost, hSteps>>

(* The mark goes before the run, so a later delivery queues again.         *)
StartWebhookWorker ==
    /\ hWorker.step = "taken"
    /\ hPending' = hPending \ {hWorker.repo}
    /\ hWorker' = [hWorker EXCEPT !.step = "run"]
    /\ UNCHANGED <<hOn, hSecret, hRequest, hRecorded, hQueue, hStatus, hSeen, hLost, hSteps>>

(* Every enabled link of the repository fetches.                           *)
FetchForWebhook ==
    /\ hWorker.step = "run"
    /\ hSeen' = hSeen \cup {d \in Deliveries : hRequest[d].repo = hWorker.repo}
    /\ hWorker' = [hWorker EXCEPT !.step = "report"]
    /\ UNCHANGED <<hOn, hSecret, hRequest, hRecorded, hPending, hQueue, hStatus, hLost, hSteps>>

runWebhookRepository ==
    /\ hWorker.step = "report"
    /\ \E outcome \in {"processed", "ignored", "error"} :
         hStatus' = [hStatus EXCEPT ![hWorker.repo] = outcome]
    /\ hWorker' = IdleWorker
    /\ UNCHANGED <<hOn, hSecret, hRequest, hRecorded, hPending, hQueue, hSeen, hLost, hSteps>>

(* A stop loses the queue and the requests; the recorded ids stay.         *)
StopWebhooks ==
    /\ HookAct
    /\ hPending' = {} /\ hQueue' = <<>> /\ hWorker' = IdleWorker
    /\ hLost' = hLost \cup {d \in Deliveries \ hSeen :
                              hRequest[d].step \in {"queued", "coalesced"}}
    /\ hRequest' = [d \in Deliveries |->
                      IF hRequest[d].step \in {"sent", "enqueue", "send"}
                      THEN [hRequest[d] EXCEPT !.step = "refused"] ELSE hRequest[d]]
    /\ UNCHANGED <<hOn, hSecret, hRecorded, hStatus, hSeen>>

HookNext ==
    \/ \E on, rotate \in BOOLEAN : ConfigureRepositoryWebhook(on, rotate)
    \/ \E d \in Deliveries : \/ Deliver(d) \/ receiveGitHubWebhook(d) \/ MarkPending(d)
                             \/ enqueueWebhookRepository(d)
    \/ TakeFromQueue \/ StartWebhookWorker \/ FetchForWebhook \/ runWebhookRepository
    \/ StopWebhooks

HookSpec == HookInit /\ [][HookNext]_hookVars
-----------------------------------------------------------------------------
HookTypeOK ==
    /\ hPending \subseteq Hooked
    /\ Len(hQueue) <= QueueSize /\ InQueue \subseteq Hooked
    /\ \A d \in Deliveries :
         hRequest[d].step \in {"none", "sent", "enqueue", "send"} \cup Finished
    /\ hWorker.step \in {"idle", "taken", "run", "report"}

(* A delivery that was answered as queued or coalesced and whose push no   *)
(* run has fetched has a run ahead of it: coalescing never hides a push    *)
(* behind a run that fetched before it.                                    *)
AcceptedIsSeen ==
    \A d \in Deliveries \ (hSeen \cup hLost) :
        hRequest[d].step \in {"queued", "coalesced"} =>
            \/ hRequest[d].repo \in InQueue
            \/ hWorker.repo = hRequest[d].repo /\ hWorker.step \in {"taken", "run"}
            \/ \E e \in Deliveries : /\ hRequest[e].repo = hRequest[d].repo
                                     /\ hRequest[e].step = "send"
=============================================================================
