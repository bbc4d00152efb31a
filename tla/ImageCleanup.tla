---------------------------- MODULE ImageCleanup ----------------------------
(***************************************************************************)
(* The safe removal of previous images, updater/cleanup.go, and the daemon *)
(* side of it, RemovePreviousImageIfUnused of update_automation.go.        *)
(*                                                                         *)
(* Every successful update queues the image it replaced under the key of   *)
(* its target, then processes the host's candidates.  An operator's retry  *)
(* processes the same candidates at any time, so two workers may go        *)
(* through the table at once, each from its own reading of it.             *)
(***************************************************************************)
EXTENDS Naturals, FiniteSets

CONSTANTS
    Keys,        \* cleanup keys: one per service or container
    Images,
    First,       \* the image every key starts on
    Retentions,  \* the numbers of rollback images a policy may keep
    MaxAttempts, \* maxAutomaticCleanupAttempts
    MaxHistory,  \* maxImageCleanupHistory
    MaxQueued    \* bound: candidates queued

ASSUME CleanupAssumption ==
    /\ First \in Images
    /\ Retentions \subseteq Nat
    /\ MaxAttempts \in Nat \ {0}
    /\ MaxHistory \in Nat \ {0}
    /\ MaxQueued \in Nat

VARIABLES
    host,      \* the images on the host
    tag,       \* the image the reference of each key names
    runs,      \* the image the container of each key runs
    others,    \* the images other containers reference
    rows,      \* UpdateImageCleanup, by key and image
    queued,    \* how many candidates were queued: the clock of created_at
    wk,        \* who goes through the candidates
    times,     \* history: how often each image was queued, up to twice
    asked,     \* history: refusals of automatic runs since the budget began
    latest     \* history: the image each key replaced last, and its retention

vars == <<host, tag, runs, others, rows, queued, wk, times, asked, latest>>

Workers == {"automatic", "retry"}

Statuses == {"absent", "pending", "removed"}

RowType == [at : 0 .. MaxQueued, keep : Nat, status : Statuses,
            attempts : Nat]

NoRow == [at |-> 0, keep |-> 0, status |-> "absent", attempts |-> 0]

Candidates == Keys \X Images

(* A worker holds the rows it read: created_at tells a row from the one    *)
(* that replaced it after the history dropped it.                          *)
WorkerType == [busy : BOOLEAN, todo : SUBSET (Candidates \X (1 .. MaxQueued))]

Init ==
    /\ host = {First}
    /\ tag = [k \in Keys |-> First]
    /\ runs = tag
    /\ others = {}
    /\ rows = [c \in Candidates |-> NoRow]
    /\ queued = 0
    /\ wk = [w \in Workers |-> [busy |-> FALSE, todo |-> {}]]
    /\ times = [i \in Images |-> 0]
    /\ asked = [c \in Candidates |-> 0]
    /\ latest = [k \in Keys |-> [img |-> First, keep |-> 0]]

-----------------------------------------------------------------------------
(* The table.                                                              *)

(***************************************************************************)
(* QueueImageCleanup: a new row, or the old one with a fresh budget.  The  *)
(* old row keeps its created_at.                                           *)
(***************************************************************************)
Queued(c, keep) ==
    [rows EXCEPT ![c] =
       [at |-> IF @.status = "absent" THEN queued + 1 ELSE @.at,
        keep |-> keep, status |-> "pending", attempts |-> 0]]

PendingOf(table, k) == {i \in Images : table[<<k, i>>].status = "pending"}

(* The pending rows of the same key that were created later.               *)
Newer(table, k, i) ==
    {j \in PendingOf(table, k) : table[<<k, j>>].at > table[<<k, i>>].at}

(* The retention in force is that of the newest row.                       *)
KeepOf(table, k) ==
    LET newest == CHOOSE i \in PendingOf(table, k) : Newer(table, k, i) = {}
    IN  table[<<k, newest>>].keep

(* Mutant of Retired: the window is counted from the oldest row.           *)
RetiredFromOldest(table, budget) ==
    {c \in Candidates :
       /\ table[c].status = "pending"
       /\ Cardinality({j \in PendingOf(table, c[1]) : table[<<c[1], j>>].at < table[c].at})
            >= KeepOf(table, c[1])
       /\ budget > 0 => table[c].attempts < budget}

(* The rows past the retention window that the worker asks the daemon for. *)
Retired(table, budget) ==
    {c \in Candidates :
       /\ table[c].status = "pending"
       /\ Cardinality(Newer(table, c[1], c[2])) >= KeepOf(table, c[1])
       /\ budget > 0 => table[c].attempts < budget}

(* What a worker reads of the table.                                       *)
Listed(table, budget) == {<<c, table[c].at>> : c \in Retired(table, budget)}

(* Mutant of Marked: a refusal is not counted.                             *)
MarkedUncounted(c, at, removed) ==
    IF rows[c].at # at THEN rows
    ELSE [rows EXCEPT ![c].status = IF removed THEN "removed" ELSE "pending"]

(* markImageCleanup, which changes nothing when the row was dropped.       *)
Marked(c, at, removed) ==
    IF rows[c].at # at THEN rows
    ELSE [rows EXCEPT ![c].status = IF removed THEN "removed" ELSE "pending",
                      ![c].attempts = IF removed THEN @ ELSE @ + 1]

(* The order of the history: pending rows first, then the newest.          *)
Before(c, d) ==
    \/ rows[c].status = "pending" /\ rows[d].status = "removed"
    \/ rows[c].status = rows[d].status /\ rows[c].at > rows[d].at

Recorded == {c \in Candidates : rows[c].status # "absent"}

(* Mutant of History: only the removed rows are capped.                    *)
HistoryOfRemoved ==
    [c \in Candidates |->
       IF /\ rows[c].status = "removed"
          /\ Cardinality({d \in Recorded : Before(d, c)}) >= MaxHistory
       THEN NoRow ELSE rows[c]]

(* pruneImageCleanupHistory                                                *)
History ==
    [c \in Candidates |->
       IF Cardinality({d \in Recorded : Before(d, c)}) >= MaxHistory
       THEN NoRow ELSE rows[c]]

-----------------------------------------------------------------------------
(* queueAndProcessImageCleanup and RetryImageCleanup.                      *)

(***************************************************************************)
(* A successful update of key k to image i, the queue of what it replaced, *)
(* and the reading of the candidates.  cleanup: the policy asks for it and *)
(* no member of the stack failed.                                          *)
(***************************************************************************)
Update(k, i, keep, cleanup) ==
    LET c == <<k, runs[k]>> IN
    /\ ~wk["automatic"].busy
    /\ i # runs[k]
    /\ queued < MaxQueued
    /\ host' = host \cup {i}
    /\ tag' = [tag EXCEPT ![k] = i]
    /\ runs' = [runs EXCEPT ![k] = i]
    /\ rows' = IF cleanup THEN Queued(c, keep) ELSE rows
    /\ queued' = queued + 1
    /\ asked' = IF cleanup THEN [asked EXCEPT ![c] = 0] ELSE asked
    /\ times' = [times EXCEPT ![runs[k]] = IF cleanup /\ @ < 2 THEN @ + 1 ELSE @]
    /\ latest' = [latest EXCEPT ![k] = [img |-> runs[k], keep |-> IF cleanup THEN keep ELSE 0]]
    /\ wk' = [wk EXCEPT !["automatic"] =
                [busy |-> TRUE, todo |-> Listed(rows', MaxAttempts)]]
    /\ UNCHANGED others

(* The update succeeded and the database refused the candidate: nothing is *)
(* queued and nothing processed.                                           *)
UpdateUnqueued(k, i) ==
    /\ ~wk["automatic"].busy
    /\ i # runs[k]
    /\ queued < MaxQueued
    /\ host' = host \cup {i}
    /\ tag' = [tag EXCEPT ![k] = i]
    /\ runs' = [runs EXCEPT ![k] = i]
    /\ queued' = queued + 1
    /\ latest' = [latest EXCEPT ![k] = [img |-> runs[k], keep |-> 0]]
    /\ UNCHANGED <<others, rows, wk, times, asked>>

(* The operator's retry gives every pending row a fresh budget first.      *)
Retry ==
    LET reset == [c \in Candidates |->
                    IF rows[c].status = "pending"
                    THEN [rows[c] EXCEPT !.attempts = 0] ELSE rows[c]]
    IN
    /\ ~wk["retry"].busy
    /\ rows' = reset
    /\ asked' = [c \in Candidates |-> IF rows[c].status = "pending" THEN 0 ELSE asked[c]]
    /\ wk' = [wk EXCEPT !["retry"] = [busy |-> TRUE, todo |-> Listed(reset, 0)]]
    /\ UNCHANGED <<host, tag, runs, others, queued, times, latest>>

(* Mutant of Referenced: only the containers of updates are looked at.     *)
ReferencedByTargets(i) == \E k \in Keys : runs[k] = i

Referenced(i) == i \in others \/ \E k \in Keys : runs[k] = i

Tagged(i) == \E k \in Keys : tag[k] = i

(***************************************************************************)
(* RemovePreviousImageIfUnused and the mark that follows it.  An image     *)
(* that is gone counts as removed; Docker may refuse for reasons of its    *)
(* own, such as a child image.  A mark that fails is reported and the next *)
(* candidate is tried: the row stays as it was.                            *)
(***************************************************************************)
Ask(w, c, at) ==
    /\ <<c, at>> \in wk[w].todo
    /\ wk' = [wk EXCEPT ![w].todo = @ \ {<<c, at>>}]
    /\ \/ /\ ~Referenced(c[2]) /\ ~Tagged(c[2])   \* removed now, or gone before
          /\ host' = host \ {c[2]} /\ asked' = asked
          /\ rows' \in {Marked(c, at, TRUE), rows}
       \/ /\ c[2] \in host
          /\ host' = host /\ rows' = Marked(c, at, FALSE)
          /\ asked' = IF w = "automatic" THEN [asked EXCEPT ![c] = @ + 1] ELSE asked
       \/ UNCHANGED <<host, rows, asked>>
    /\ UNCHANGED <<tag, runs, others, queued, times, latest>>

Done(w) ==
    /\ wk[w].busy /\ wk[w].todo = {}
    /\ wk' = [wk EXCEPT ![w].busy = FALSE]
    /\ rows' = History
    /\ UNCHANGED <<host, tag, runs, others, queued, times, asked, latest>>

(* Other containers of the host come and go.                               *)
Reference(i) ==
    /\ i \in host
    /\ others' = IF i \in others THEN others \ {i} ELSE others \cup {i}
    /\ UNCHANGED <<host, tag, runs, rows, queued, wk, times, asked, latest>>

Next ==
    \/ \E k \in Keys, i \in Images, keep \in Retentions, cleanup \in BOOLEAN :
         Update(k, i, keep, cleanup)
    \/ \E k \in Keys, i \in Images : UpdateUnqueued(k, i)
    \/ Retry
    \/ \E w \in Workers :
         \/ Done(w)
         \/ \E c \in Candidates, at \in 1 .. MaxQueued : Ask(w, c, at)
    \/ \E i \in Images : Reference(i)

Spec == Init /\ [][Next]_vars

-----------------------------------------------------------------------------

(***************************************************************************)
(* Every variable has its type, and everything containers or references    *)
(* name is on the host: cleanup never takes an image that is in use.       *)
(***************************************************************************)
TypeOK ==
    /\ host \subseteq Images
    /\ tag \in [Keys -> host]
    /\ runs \in [Keys -> host]
    /\ others \subseteq host
    /\ rows \in [Candidates -> RowType]
    /\ queued \in 0 .. MaxQueued
    /\ wk \in [Workers -> WorkerType]
    /\ times \in [Images -> 0 .. 2]
    /\ asked \in [Candidates -> Nat]
    /\ latest \in [Keys -> [img : Images, keep : Nat]]

(***************************************************************************)
(* A doomed removal is not "retried on every single automation cycle,      *)
(* forever": automatic runs record at most MaxAttempts refusals per budget,*)
(* which only an update or an operator's retry starts over.                *)
(***************************************************************************)
BudgetRespected == \A c \in Recorded : asked[c] <= MaxAttempts

(***************************************************************************)
(* The table does not grow with what Docker refuses: no more rows than the *)
(* history holds outlive the processing.                                   *)
(***************************************************************************)
HistoryBounded ==
    (\A w \in Workers : ~wk[w].busy) => Cardinality(Recorded) <= MaxHistory

(***************************************************************************)
(* The image a key replaced last stays on the host, whoever processes the  *)
(* table, if the policy keeps one: provided the image was queued this once *)
(* only, by this key or by another.                                        *)
(***************************************************************************)
FirstRollbackKept ==
    \A k \in Keys :
      latest[k].keep > 0 /\ times[latest[k].img] = 1 => latest[k].img \in host

-----------------------------------------------------------------------------
(* A statement of the documents that the code does not meet.               *)

(***************************************************************************)
(* "the most recent previous image is kept": with a retention of at least  *)
(* one, the image a key replaced last stays on the host.                   *)
(***************************************************************************)
LatestRollbackKept ==
    \A k \in Keys : latest[k].keep > 0 => latest[k].img \in host
=============================================================================
