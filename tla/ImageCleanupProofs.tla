------------------------- MODULE ImageCleanupProofs -------------------------
(***************************************************************************)
(* Proofs about ImageCleanup, for any keys, images, retentions and limits  *)
(* (updater/cleanup.go): images in use are never removed, refusals and     *)
(* rows are bounded, and the image replaced last is kept.                  *)
(*                                                                         *)
(* Two workers go through the table, each from its own reading of it.  A   *)
(* row is known by its created_at: no two rows share one, and a worker's   *)
(* reading is of a row that still has it, or was dropped since.            *)
(***************************************************************************)
EXTENDS ImageCleanup, FiniteSetTheorems, TLAPS

(* Rows have a created_at of their own; the others are empty.              *)
RowsTimed ==
    \A c \in Candidates :
      \/ rows[c] = NoRow
      \/ rows[c].status \in {"pending", "removed"} /\ rows[c].at \in 1 .. queued

RowsDistinct == \A c, d \in Recorded : rows[c].at = rows[d].at => c = d

(* A worker at rest has nothing to ask.                                    *)
RestIsEmpty == \A w \in Workers : ~wk[w].busy => wk[w].todo = {}

(* What the automatic worker has to ask of a row is in the row's budget.   *)
InBudget ==
    /\ \A c \in Recorded : asked[c] <= rows[c].attempts
    /\ \A c \in Recorded : asked[c] <= MaxAttempts
    /\ \A c \in Candidates, a, b \in 1 .. MaxQueued :
         <<c, a>> \in wk["automatic"].todo =>
           /\ <<c, b>> \in wk["automatic"].todo => a = b
           /\ c \in Recorded => rows[c].at = a /\ asked[c] < MaxAttempts

(* Nobody asks for image i.                                                *)
Unasked(i) ==
    \A k \in Keys, w \in Workers, a \in 1 .. MaxQueued : <<<<k, i>>, a>> \notin wk[w].todo

(* The row of the image a key replaced last is the newest of its key.      *)
NewestRow(k, i) ==
    LET c == <<k, i>> IN
      c \in Recorded =>
        /\ rows[c].status = "pending" /\ rows[c].keep = latest[k].keep
        /\ \A j \in Images : <<k, j>> \in Recorded => rows[<<k, j>>].at <= rows[c].at

Guarded(k) == latest[k].keep > 0 /\ times[latest[k].img] = 1

RowsSafe ==
    /\ \A i \in Images : times[i] = 0 => \A k \in Keys : rows[<<k, i>>] = NoRow
    /\ \A k \in Keys : latest[k].keep > 0 => times[latest[k].img] # 0
    /\ \A k \in Keys : Guarded(k) =>
         /\ latest[k].img \in host
         /\ \A l \in Keys \ {k} : rows[<<l, latest[k].img>>] = NoRow
         /\ NewestRow(k, latest[k].img)

TodoSafe ==
    /\ \A i \in Images : times[i] = 0 => Unasked(i)
    /\ \A k \in Keys : Guarded(k) => Unasked(latest[k].img)

RollbackSafe == RowsSafe /\ TodoSafe

TableInv == TypeOK /\ RowsTimed /\ RowsDistinct /\ RestIsEmpty
-----------------------------------------------------------------------------
(***************************************************************************)
(* What happens to the table, apart from new rows: rows are dropped, and   *)
(* change their status and attempts.                                       *)
(***************************************************************************)
Thinned(new) ==
    /\ new \in [Candidates -> RowType]
    /\ \A c \in Candidates :
         \/ new[c] = NoRow
         \/ /\ rows[c] # NoRow
            /\ new[c].status \in {"pending", "removed"}
            /\ new[c].at = rows[c].at /\ new[c].keep = rows[c].keep

(* Recorded rows are those that are not empty.                             *)
LEMMA RecordedRows ==
  ASSUME RowsTimed
  PROVE  Recorded = {c \in Candidates : rows[c] # NoRow}
  BY DEF RowsTimed, Recorded, NoRow

(* A mark changes the row that was read, and only its outcome.             *)
LEMMA MarkedRow ==
  ASSUME TableInv, NEW c \in Candidates, NEW at \in 1 .. MaxQueued, NEW removed \in BOOLEAN
  PROVE  /\ Thinned(Marked(c, at, removed))
         /\ \A d \in Candidates : d # c => Marked(c, at, removed)[d] = rows[d]
         /\ rows[c] = NoRow <=> Marked(c, at, removed)[c] = NoRow
         /\ Marked(c, at, removed)[c].attempts =
              IF rows[c].at = at /\ ~removed THEN rows[c].attempts + 1 ELSE rows[c].attempts
<1> DEFINE new == Marked(c, at, removed)
<1> USE DEF TableInv, TypeOK
<1>1. CASE rows[c].at # at
  BY <1>1 DEF Marked, Thinned, RowsTimed, RowType
<1>2. CASE rows[c].at = at
  <2>1. rows[c] # NoRow /\ rows[c].status \in {"pending", "removed"}
    BY <1>2 DEF RowsTimed, NoRow
  <2>2. rows[c] \in RowType
    OBVIOUS
  <2>3. new \in [Candidates -> RowType]
    <3>1. CASE removed
      BY <1>2, <2>2, <3>1 DEF Marked, RowType, Statuses
    <3>2. CASE ~removed
      <4>1. rows[c].attempts + 1 \in Nat /\ rows[c].attempts \in Nat
        BY <2>2 DEF RowType
      <4>2. [rows[c] EXCEPT !.status = "pending", !.attempts = rows[c].attempts + 1] \in RowType
        BY <2>2, <4>1 DEF RowType, Statuses
      <4>3. new = [rows EXCEPT ![c] = [rows[c] EXCEPT !.status = "pending",
                                                       !.attempts = rows[c].attempts + 1]]
        BY <1>2, <3>2, <4>1 DEF Marked
      <4> QED
        BY <4>2, <4>3
    <3> QED
      BY <3>1, <3>2
  <2>4. /\ new[c].status \in {"pending", "removed"} /\ new[c] # NoRow
        /\ new[c].at = rows[c].at /\ new[c].keep = rows[c].keep
        /\ new[c].attempts = IF removed THEN rows[c].attempts ELSE rows[c].attempts + 1
    BY <1>2, <2>2 DEF Marked, RowType, NoRow
  <2>5. \A d \in Candidates : d # c => new[d] = rows[d]
    BY <1>2 DEF Marked
  <2>6. Thinned(new)
    BY <2>1, <2>3, <2>4, <2>5 DEF Thinned, RowsTimed
  <2> QED
    BY <1>2, <2>1, <2>4, <2>5, <2>6
<1> QED
  BY <1>1, <1>2

(* The history only drops rows.                                            *)
LEMMA HistoryThins == ASSUME TableInv PROVE Thinned(History)
<1> USE DEF TableInv, TypeOK
<1>1. NoRow \in RowType
  BY CleanupAssumption DEF NoRow, RowType, Statuses, CleanupAssumption
<1> QED
  BY <1>1 DEF History, Thinned, RowsTimed

(* A thinned table keeps its clock.                                        *)
LEMMA ThinnedTable ==
  ASSUME TableInv, Thinned(rows'), queued' = queued
  PROVE  RowsTimed' /\ RowsDistinct'
<1> USE DEF TableInv, Thinned
<1>1. RowsTimed'
  BY DEF RowsTimed
<1>2. Recorded' \subseteq Recorded
  BY <1>1, RecordedRows DEF Recorded, RowsTimed, NoRow
<1>3. \A c \in Recorded' : rows'[c].at = rows[c].at
  BY <1>1 DEF Recorded, NoRow
<1> QED
  BY <1>1, <1>2, <1>3 DEF RowsDistinct
-----------------------------------------------------------------------------
(* The table's own invariant.                                              *)

(* What a worker reads are rows that exist.                                *)
LEMMA ListedRows ==
  ASSUME NEW table \in [Candidates -> RowType], NEW b,
         \A c \in Candidates : table[c] = NoRow \/ table[c].at \in 1 .. MaxQueued
  PROVE  /\ Listed(table, b) \in SUBSET (Candidates \X (1 .. MaxQueued))
         /\ \A c \in Candidates, a \in 1 .. MaxQueued :
              <<c, a>> \in Listed(table, b) =>
                c \in Retired(table, b) /\ table[c].status = "pending" /\ a = table[c].at
  BY DEF Listed, Retired, NoRow

(* The row of a queued image is new, or one that exists.                   *)
LEMMA QueuedRow ==
  ASSUME TableInv, NEW c \in Candidates, NEW keep \in Nat, queued < MaxQueued
  PROVE  /\ Queued(c, keep) \in [Candidates -> RowType]
         /\ \A d \in Candidates : d # c => Queued(c, keep)[d] = rows[d]
         /\ Queued(c, keep)[c] =
              [at |-> IF rows[c] = NoRow THEN queued + 1 ELSE rows[c].at,
               keep |-> keep, status |-> "pending", attempts |-> 0]
<1>1. rows[c] \in RowType
  BY DEF TableInv, TypeOK
<1>2. rows[c].status = "absent" <=> rows[c] = NoRow
  BY <1>1 DEF TableInv, RowsTimed, NoRow
<1>3. queued + 1 \in 0 .. MaxQueued
  BY CleanupAssumption DEF CleanupAssumption, TableInv, TypeOK
<1> DEFINE row == [at |-> IF rows[c] = NoRow THEN queued + 1 ELSE rows[c].at,
                   keep |-> keep, status |-> "pending", attempts |-> 0]
<1>4. row \in RowType
  BY <1>1, <1>3 DEF RowType, Statuses
<1>5. Queued(c, keep) = [rows EXCEPT ![c] = row]
  BY <1>1, <1>2 DEF Queued, TableInv, TypeOK
<1> QED
  BY <1>1, <1>4, <1>5 DEF TableInv, TypeOK

LEMMA UpdateTable ==
  ASSUME TableInv, NEW k \in Keys, NEW i \in Images, NEW keep \in Retentions,
         NEW cleanup \in BOOLEAN, Update(k, i, keep, cleanup)
  PROVE  TableInv'
<1> USE CleanupAssumption DEF CleanupAssumption
<1> DEFINE c == <<k, runs[k]>>
<1>1. keep \in Nat /\ queued < MaxQueued /\ queued' = queued + 1 /\ queued' \in 1 .. MaxQueued
  BY DEF Update, TableInv, TypeOK
<1>2. c \in Candidates /\ rows' = IF cleanup THEN Queued(c, keep) ELSE rows
  BY DEF Update, TableInv, TypeOK, Candidates
<1> HIDE DEF c
<1>3. /\ rows' \in [Candidates -> RowType]
      /\ \A d \in Candidates : d # c => rows'[d] = rows[d]
      /\ rows'[c] = rows[c] \/
         rows'[c] = [at |-> IF rows[c] = NoRow THEN queued + 1 ELSE rows[c].at,
                     keep |-> keep, status |-> "pending", attempts |-> 0]
  BY <1>1, <1>2, QueuedRow DEF TableInv, TypeOK
<1>4. RowsTimed'
  <2>1. queued \in Nat
    BY DEF TableInv, TypeOK
  <2>2. ASSUME NEW d \in Candidates
        PROVE  \/ rows'[d] = NoRow
               \/ rows'[d].status \in {"pending", "removed"} /\ rows'[d].at \in 1 .. queued'
    <3>1. CASE rows'[d] = rows[d]
      BY <2>1, <3>1, <1>1 DEF RowsTimed, TableInv
    <3>2. CASE rows'[d] # rows[d]
      BY <2>1, <3>2, <1>1, <1>2, <1>3 DEF RowsTimed, TableInv
    <3> QED
      BY <3>1, <3>2
  <2> QED
    BY <2>2 DEF RowsTimed
<1>5. Listed(rows', MaxAttempts) \in SUBSET (Candidates \X (1 .. MaxQueued))
  BY <1>1, <1>3, <1>4, ListedRows DEF RowsTimed
<1>6. TypeOK'
  <2>1. host' \subseteq Images /\ tag' \in [Keys -> host'] /\ runs' \in [Keys -> host']
    BY DEF Update, TableInv, TypeOK
  <2>2. wk' \in [Workers -> WorkerType]
    <3>1. "automatic" \in Workers
      BY DEF Workers
    <3> QED
      BY <1>5, <3>1 DEF Update, TableInv, TypeOK, WorkerType
  <2>3. times' \in [Images -> 0 .. 2]
    BY DEF Update, TableInv, TypeOK
  <2>4. asked' \in [Candidates -> Nat]
    BY <1>2 DEF Update, TableInv, TypeOK, c
  <2>5. latest' \in [Keys -> [img : Images, keep : Nat]]
    BY <1>1 DEF Update, TableInv, TypeOK
  <2>6. others' \subseteq host'
    BY DEF Update, TableInv, TypeOK
  <2> QED
    BY <1>1, <1>3, <2>1, <2>2, <2>3, <2>4, <2>5, <2>6 DEF TypeOK
<1>7. RowsDistinct'
  <2> SUFFICES ASSUME NEW d \in Recorded', NEW e \in Recorded', rows'[d].at = rows'[e].at
               PROVE  d = e
    BY DEF RowsDistinct
  <2>1. d \in Candidates /\ e \in Candidates /\ rows'[d] # NoRow /\ rows'[e] # NoRow
    BY DEF Recorded, NoRow
  <2>2. \A x \in Candidates : rows'[x] # NoRow =>
          \/ x \in Recorded /\ rows'[x].at = rows[x].at /\ rows[x].at \in 1 .. queued
          \/ x = c /\ rows'[x].at = queued + 1
    BY <1>3, RecordedRows DEF TableInv, RowsTimed
  <2> QED
    BY <2>1, <2>2 DEF TableInv, RowsDistinct, TypeOK
<1>8. RestIsEmpty'
  BY DEF Update, TableInv, RestIsEmpty, TypeOK, Workers
<1> QED
  BY <1>4, <1>6, <1>7, <1>8 DEF TableInv

LEMMA UnqueuedTable ==
  ASSUME TableInv, NEW k \in Keys, NEW i \in Images, UpdateUnqueued(k, i)
  PROVE  TableInv'
<1>1. queued' \in 1 .. MaxQueued /\ queued' = queued + 1 /\ queued \in Nat
  BY CleanupAssumption DEF CleanupAssumption, UpdateUnqueued, TableInv, TypeOK
<1>2. TypeOK'
  BY <1>1 DEF UpdateUnqueued, TableInv, TypeOK
<1>3. RowsTimed' /\ RowsDistinct' /\ RestIsEmpty'
  BY <1>1 DEF UpdateUnqueued, TableInv, RowsTimed, RowsDistinct, RestIsEmpty, Recorded
<1> QED
  BY <1>2, <1>3 DEF TableInv

(* What the retry leaves of a row.                                         *)
LEMMA RetryThins ==
  ASSUME TableInv, Retry
  PROVE  /\ Thinned(rows')
         /\ \A c \in Candidates : /\ rows'[c].status = rows[c].status
                                  /\ rows'[c].at = rows[c].at
                                  /\ rows'[c] = NoRow <=> rows[c] = NoRow
         /\ wk'["retry"] = [busy |-> TRUE, todo |-> Listed(rows', 0)]
         /\ wk'["automatic"] = wk["automatic"]
<1>1. ASSUME NEW c \in Candidates
      PROVE  /\ rows'[c] \in RowType
             /\ rows'[c].status = rows[c].status /\ rows'[c].at = rows[c].at
             /\ rows'[c].keep = rows[c].keep
             /\ rows'[c] = NoRow <=> rows[c] = NoRow
  <2>1. rows[c] \in RowType
    BY DEF TableInv, TypeOK
  <2>2. CASE rows[c].status = "pending"
    BY <2>1, <2>2 DEF Retry, RowType, NoRow
  <2>3. CASE rows[c].status # "pending"
    BY <2>1, <2>3 DEF Retry
  <2> QED
    BY <2>2, <2>3
<1>2. rows' = [c \in Candidates |-> rows'[c]]
  BY DEF Retry
<1>3. Thinned(rows')
  BY <1>1, <1>2 DEF Thinned, TableInv, RowsTimed
<1>4. /\ wk'["retry"] = [busy |-> TRUE, todo |-> Listed(rows', 0)]
      /\ wk'["automatic"] = wk["automatic"]
  BY DEF Retry, TableInv, TypeOK, Workers
<1> QED
  BY <1>1, <1>3, <1>4

LEMMA RetryTable == ASSUME TableInv, Retry PROVE TableInv'
<1>1. RowsTimed' /\ RowsDistinct'
  BY RetryThins, ThinnedTable DEF Retry
<1>2. Listed(rows', 0) \in SUBSET (Candidates \X (1 .. MaxQueued))
  <2>1. \A c \in Candidates : rows'[c] = NoRow \/ rows'[c].at \in 1 .. MaxQueued
    BY <1>1, CleanupAssumption DEF CleanupAssumption, RowsTimed, TableInv, TypeOK, Retry
  <2> QED
    BY <2>1, RetryThins, ListedRows DEF Thinned
<1>3. wk' \in [Workers -> WorkerType]
  BY <1>2, RetryThins DEF Retry, TableInv, TypeOK, WorkerType, Workers
<1>4. asked' \in [Candidates -> Nat]
  BY DEF Retry, TableInv, TypeOK
<1>5. TypeOK'
  BY <1>3, <1>4, RetryThins DEF Retry, TableInv, TypeOK, Thinned
<1>6. RestIsEmpty'
  BY RetryThins DEF TableInv, RestIsEmpty, Workers
<1> QED
  BY <1>1, <1>5, <1>6 DEF TableInv

(* What the daemon's answer leaves of the table, and of the host.          *)
LEMMA AskEffect ==
  ASSUME TableInv, NEW w \in Workers, NEW c \in Candidates, NEW at \in 1 .. MaxQueued,
         Ask(w, c, at)
  PROVE  /\ Thinned(rows')
         /\ \A d \in Candidates : d # c => rows'[d] = rows[d]
         /\ rows[c] = NoRow <=> rows'[c] = NoRow
         /\ \/ host' = host
            \/ host' = host \ {c[2]} /\ ~Referenced(c[2]) /\ ~Tagged(c[2])
         /\ <<c, at>> \in wk[w].todo
         /\ wk'[w].todo = wk[w].todo \ {<<c, at>>} /\ wk'[w].busy = wk[w].busy
         /\ \A v \in Workers : v # w => wk'[v] = wk[v]
         /\ UNCHANGED <<tag, runs, others, queued, times, latest>>
<1>1. rows' \in {Marked(c, at, TRUE), Marked(c, at, FALSE), rows}
  BY DEF Ask
<1>2. Thinned(rows)
  BY DEF Thinned, TableInv, TypeOK, RowsTimed
<1>3. /\ Thinned(rows')
      /\ \A d \in Candidates : d # c => rows'[d] = rows[d]
      /\ rows[c] = NoRow <=> rows'[c] = NoRow
  <2>1. ASSUME NEW removed \in BOOLEAN, rows' = Marked(c, at, removed)
        PROVE  /\ Thinned(rows')
               /\ \A d \in Candidates : d # c => rows'[d] = rows[d]
               /\ rows[c] = NoRow <=> rows'[c] = NoRow
    BY <2>1, MarkedRow
  <2> QED
    BY <1>1, <1>2, <2>1
<1>4. /\ wk'[w].todo = wk[w].todo \ {<<c, at>>} /\ wk'[w].busy = wk[w].busy
      /\ \A v \in Workers : v # w => wk'[v] = wk[v]
  BY DEF Ask, TableInv, TypeOK, WorkerType
<1> QED
  BY <1>3, <1>4 DEF Ask

LEMMA AskTable ==
  ASSUME TableInv, NEW w \in Workers, NEW c \in Candidates, NEW at \in 1 .. MaxQueued,
         Ask(w, c, at)
  PROVE  TableInv'
<1>1. RowsTimed' /\ RowsDistinct'
  BY AskEffect, ThinnedTable
<1>2. wk' \in [Workers -> WorkerType]
  BY DEF Ask, TableInv, TypeOK, WorkerType
<1>3. asked' \in [Candidates -> Nat]
  <2>1. asked[c] + 1 \in Nat
    BY DEF TableInv, TypeOK
  <2>2. asked' = asked \/ asked' = [asked EXCEPT ![c] = asked[c] + 1]
    BY DEF Ask
  <2> QED
    BY <2>1, <2>2 DEF TableInv, TypeOK
<1>4. /\ host' \subseteq Images /\ others' \subseteq host'
      /\ tag' \in [Keys -> host'] /\ runs' \in [Keys -> host']
  <2>1. UNCHANGED <<tag, runs, others>>
    BY AskEffect
  <2>2. CASE host' = host
    BY <2>1, <2>2 DEF TableInv, TypeOK
  <2>3. CASE host' = host \ {c[2]} /\ ~Referenced(c[2]) /\ ~Tagged(c[2])
    BY <2>1, <2>3 DEF TableInv, TypeOK, Referenced, Tagged
  <2> QED
    BY <2>2, <2>3, AskEffect
<1>5. TypeOK'
  BY <1>2, <1>3, <1>4, AskEffect DEF TableInv, TypeOK, Thinned
<1>6. RestIsEmpty'
  BY AskEffect DEF TableInv, RestIsEmpty
<1> QED
  BY <1>1, <1>5, <1>6 DEF TableInv

LEMMA DoneTable == ASSUME TableInv, NEW w \in Workers, Done(w) PROVE TableInv'
<1>1. Thinned(rows') /\ queued' = queued
  BY HistoryThins DEF Done
<1>2. RowsTimed' /\ RowsDistinct'
  BY <1>1, ThinnedTable
<1>3. wk' \in [Workers -> WorkerType]
  BY DEF Done, TableInv, TypeOK, WorkerType
<1>4. TypeOK'
  BY <1>1, <1>3 DEF Done, TableInv, TypeOK, Thinned
<1>5. RestIsEmpty'
  BY DEF Done, TableInv, TypeOK, WorkerType, RestIsEmpty
<1> QED
  BY <1>2, <1>4, <1>5 DEF TableInv

LEMMA ReferenceTable == ASSUME TableInv, NEW i \in Images, Reference(i) PROVE TableInv'
  BY DEF Reference, TableInv, TypeOK, RowsTimed, RowsDistinct, RestIsEmpty, Recorded

LEMMA InitTable == Init => TableInv
<1> SUFFICES ASSUME Init PROVE TableInv
  OBVIOUS
<1> USE CleanupAssumption DEF CleanupAssumption
<1>1. NoRow \in RowType
  BY DEF NoRow, RowType, Statuses
<1>2. TypeOK
  BY <1>1 DEF Init, TypeOK, WorkerType
<1>3. RowsTimed /\ RowsDistinct /\ RestIsEmpty
  BY DEF Init, RowsTimed, RowsDistinct, RestIsEmpty, Recorded, NoRow
<1> QED
  BY <1>2, <1>3 DEF TableInv

LEMMA StepTable == TableInv /\ [Next]_vars => TableInv'
<1> SUFFICES ASSUME TableInv, [Next]_vars PROVE TableInv'
  OBVIOUS
<1>1. CASE UNCHANGED vars
  BY <1>1 DEF vars, TableInv, TypeOK, RowsTimed, RowsDistinct, RestIsEmpty, Recorded
<1> QED
  BY <1>1, UpdateTable, UnqueuedTable, RetryTable, AskTable, DoneTable, ReferenceTable
     DEF Next

(***************************************************************************)
(* Whatever the two workers, Docker and other containers do, no image that *)
(* a container or a reference names is removed (update_automation.go,      *)
(* RemovePreviousImageIfUnused), and every variable keeps its type.        *)
(***************************************************************************)
THEOREM InUseIsKept == Spec => []TypeOK
<1>1. TableInv => TypeOK
  BY DEF TableInv
<1> QED
  BY <1>1, InitTable, StepTable, PTL DEF Spec
-----------------------------------------------------------------------------
(* The history.                                                            *)

Ahead(c) == {d \in Recorded : Before(d, c)}

LEMMA RecordedFinite == ASSUME TableInv PROVE IsFiniteSet(Recorded)
<1> DEFINE f == [c \in Recorded |-> rows[c].at]
<1>1. f \in [Recorded -> 0 .. MaxQueued]
  BY DEF TableInv, TypeOK, Recorded, RowType
<1>2. \A c, d \in Recorded : f[c] = f[d] => c = d
  BY DEF TableInv, RowsDistinct
<1>3. f \in Injection(Recorded, 0 .. MaxQueued)
  BY <1>1, <1>2 DEF Injection, IsInjective
<1>4. IsFiniteSet(0 .. MaxQueued)
  BY CleanupAssumption, FS_Interval DEF CleanupAssumption
<1> QED
  BY <1>3, <1>4, FS_Injection

(* The order of the history is strict and total.                           *)
LEMMA HistoryOrder ==
  ASSUME TableInv, NEW c \in Recorded, NEW d \in Recorded, c # d
  PROVE  /\ Before(c, d) \/ Before(d, c)
         /\ Before(c, d) => Ahead(c) \subseteq Ahead(d) /\ c \in Ahead(d) /\ c \notin Ahead(c)
<1>1. \A e \in Recorded : rows[e].status \in {"pending", "removed"} /\ rows[e].at \in Nat
  BY DEF TableInv, TypeOK, Recorded, RowType, Statuses
<1>2. rows[c].at # rows[d].at
  BY DEF TableInv, RowsDistinct
<1>3. Before(c, d) \/ Before(d, c)
  BY <1>1, <1>2 DEF Before
<1>4. ASSUME Before(c, d), NEW e \in Recorded, Before(e, c) PROVE Before(e, d)
  BY <1>1, <1>4 DEF Before
<1>5. ~Before(c, c)
  BY <1>1 DEF Before
<1> QED
  BY <1>3, <1>4, <1>5 DEF Ahead

(* So the number of rows ahead tells rows apart.                           *)
LEMMA AheadCounts ==
  ASSUME TableInv
  PROVE  /\ \A c \in Recorded : Cardinality(Ahead(c)) \in Nat
         /\ \A c, d \in Recorded : Cardinality(Ahead(c)) = Cardinality(Ahead(d)) => c = d
<1>1. ASSUME NEW c \in Recorded
      PROVE  IsFiniteSet(Ahead(c)) /\ Cardinality(Ahead(c)) \in Nat
  <2>1. Ahead(c) \subseteq Recorded
    BY DEF Ahead
  <2> QED
    BY <2>1, RecordedFinite, FS_Subset, FS_CardinalityType
<1>2. ASSUME NEW c \in Recorded, NEW d \in Recorded, c # d, Before(c, d)
      PROVE  Cardinality(Ahead(c)) # Cardinality(Ahead(d))
  <2>1. Ahead(c) \subseteq Ahead(d) /\ Ahead(c) # Ahead(d)
    BY <1>2, HistoryOrder
  <2> QED
    BY <2>1, <1>1, FS_Subset
<1> QED
  BY <1>1, <1>2, HistoryOrder

LEMMA DoneCaps ==
  ASSUME TableInv, NEW w \in Workers, Done(w)
  PROVE  Cardinality(Recorded') <= MaxHistory
<1> USE CleanupAssumption DEF CleanupAssumption
<1>1. \A c \in Recorded' : c \in Recorded /\ Cardinality(Ahead(c)) < MaxHistory
  <2> SUFFICES ASSUME NEW c \in Recorded'
               PROVE  c \in Recorded /\ Cardinality(Ahead(c)) < MaxHistory
    OBVIOUS
  <2>1. /\ c \in Candidates /\ rows'[c] # NoRow
        /\ rows'[c] = IF Cardinality(Ahead(c)) >= MaxHistory THEN NoRow ELSE rows[c]
    BY DEF Done, History, Recorded, Ahead, NoRow
  <2>2. rows[c] # NoRow /\ ~(Cardinality(Ahead(c)) >= MaxHistory)
    BY <2>1
  <2>3. c \in Recorded
    BY <2>1, <2>2, RecordedRows DEF TableInv
  <2>4. Cardinality(Ahead(c)) \in Nat
    BY <2>3, AheadCounts
  <2> QED
    BY <2>2, <2>3, <2>4
<1> DEFINE f == [c \in Recorded' |-> Cardinality(Ahead(c))]
<1>2. f \in [Recorded' -> 0 .. MaxHistory - 1]
  BY <1>1, AheadCounts
<1>3. \A c, d \in Recorded' : f[c] = f[d] => c = d
  BY <1>1, AheadCounts
<1>4. f \in Injection(Recorded', 0 .. MaxHistory - 1)
  BY <1>2, <1>3 DEF Injection, IsInjective
<1>5. IsFiniteSet(0 .. MaxHistory - 1) /\ Cardinality(0 .. MaxHistory - 1) = MaxHistory
  BY FS_Interval
<1> QED
  BY <1>4, <1>5, FS_Injection

LEMMA StepCapped ==
  ASSUME TableInv, HistoryBounded, [Next]_vars
  PROVE  HistoryBounded'
<1>1. ASSUME NEW k \in Keys, NEW i \in Images, NEW keep \in Retentions, NEW cleanup \in BOOLEAN,
             Update(k, i, keep, cleanup)
      PROVE  HistoryBounded'
  BY <1>1 DEF Update, HistoryBounded, TableInv, TypeOK, Workers
<1>2. ASSUME NEW k \in Keys, NEW i \in Images, UpdateUnqueued(k, i) PROVE HistoryBounded'
  BY <1>2 DEF UpdateUnqueued, HistoryBounded, Recorded
<1>3. ASSUME Retry PROVE HistoryBounded'
  BY <1>3, RetryThins DEF HistoryBounded, Workers
<1>4. ASSUME NEW w \in Workers, NEW c \in Candidates, NEW at \in 1 .. MaxQueued, Ask(w, c, at)
      PROVE  HistoryBounded'
  <2>1. wk'[w].busy
    BY <1>4, AskEffect DEF TableInv, TypeOK, WorkerType, RestIsEmpty
  <2> QED
    BY <2>1 DEF HistoryBounded
<1>5. ASSUME NEW w \in Workers, Done(w) PROVE HistoryBounded'
  BY <1>5, DoneCaps DEF HistoryBounded
<1>6. ASSUME NEW i \in Images, Reference(i) PROVE HistoryBounded'
  BY <1>6 DEF Reference, HistoryBounded, Recorded
<1>7. CASE UNCHANGED vars
  BY <1>7 DEF vars, HistoryBounded, Recorded
<1> QED
  BY <1>1, <1>2, <1>3, <1>4, <1>5, <1>6, <1>7 DEF Next

LEMMA InitCapped == Init => HistoryBounded
<1> SUFFICES ASSUME Init PROVE HistoryBounded
  OBVIOUS
<1>1. Recorded = {}
  BY DEF Init, Recorded, NoRow
<1> QED
  BY <1>1, FS_EmptySet, CleanupAssumption DEF HistoryBounded, CleanupAssumption

(***************************************************************************)
(* Between two processings the table has no more rows than the history may *)
(* hold, whatever Docker refused and however the workers overlapped        *)
(* (cleanup.go, pruneImageCleanupHistory).                                 *)
(***************************************************************************)
THEOREM HistoryStaysBounded == Spec => []HistoryBounded
<1>1. Init => TableInv /\ HistoryBounded
  BY InitTable, InitCapped
<1>2. (TableInv /\ HistoryBounded) /\ [Next]_vars => (TableInv /\ HistoryBounded)'
  BY StepTable, StepCapped
<1> QED
  BY <1>1, <1>2, PTL DEF Spec
-----------------------------------------------------------------------------
(* The budget of a row.                                                    *)

(* An update reads when the automatic worker has nothing left to ask.      *)
LEMMA UpdateBudget ==
  ASSUME TableInv, InBudget, NEW k \in Keys, NEW i \in Images, NEW keep \in Retentions,
         NEW cleanup \in BOOLEAN, Update(k, i, keep, cleanup)
  PROVE  InBudget'
<1> USE CleanupAssumption DEF CleanupAssumption
<1> DEFINE c == <<k, runs[k]>>
<1>1. c \in Candidates /\ keep \in Nat /\ queued < MaxQueued
  BY DEF Update, TableInv, TypeOK, Candidates
<1>2. /\ rows' = IF cleanup THEN Queued(c, keep) ELSE rows
      /\ asked' = IF cleanup THEN [asked EXCEPT ![c] = 0] ELSE asked
      /\ wk' = [wk EXCEPT !["automatic"] =
                  [busy |-> TRUE, todo |-> Listed(rows', MaxAttempts)]]
  BY DEF Update
<1> HIDE DEF c
<1>3. TableInv' /\ Recorded' \subseteq Candidates
  BY UpdateTable DEF Recorded
<1>4. ASSUME NEW d \in Recorded'
      PROVE  asked'[d] <= rows'[d].attempts /\ asked'[d] <= MaxAttempts
  <2>1. /\ \A e \in Candidates : e # c => Queued(c, keep)[e] = rows[e]
        /\ Queued(c, keep)[c] = [at |-> IF rows[c] = NoRow THEN queued + 1 ELSE rows[c].at,
                                 keep |-> keep, status |-> "pending", attempts |-> 0]
    BY <1>1, QueuedRow
  <2>2. CASE d = c /\ cleanup
    <3>1. asked'[d] = 0 /\ rows'[d].attempts = 0
      BY <2>1, <2>2, <1>1, <1>2 DEF TableInv, TypeOK
    <3> QED
      BY <3>1
  <2>3. CASE ~(d = c /\ cleanup)
    <3>1. rows'[d] = rows[d] /\ asked'[d] = asked[d]
      BY <2>1, <2>3, <1>2, <1>3 DEF TableInv, TypeOK
    <3>2. d \in Recorded
      BY <3>1, <1>3 DEF Recorded
    <3> QED
      BY <3>1, <3>2 DEF InBudget
  <2> QED
    BY <2>2, <2>3
<1>5. ASSUME NEW d \in Candidates, NEW a \in 1 .. MaxQueued,
             <<d, a>> \in wk'["automatic"].todo
      PROVE  rows'[d].at = a /\ rows'[d].attempts < MaxAttempts
  <2>1. wk'["automatic"].todo = Listed(rows', MaxAttempts)
    BY <1>2 DEF TableInv, TypeOK, Workers
  <2> QED
    BY <1>5, <2>1 DEF Listed, Retired
<1>6. ASSUME NEW d \in Recorded'
      PROVE  rows'[d].attempts \in Nat /\ asked'[d] \in Nat
  BY <1>3 DEF TableInv, TypeOK, RowType
<1> QED
  BY <1>4, <1>5, <1>6 DEF InBudget

(* The retry starts the budget of pending rows over.                       *)
LEMMA RetryBudget == ASSUME TableInv, InBudget, Retry PROVE InBudget'
<1>1. ASSUME NEW d \in Candidates
      PROVE  /\ rows'[d].at = rows[d].at
             /\ d \in Recorded' <=> d \in Recorded
             /\ \/ rows'[d].attempts = 0 /\ asked'[d] = 0
                \/ rows'[d] = rows[d] /\ asked'[d] = asked[d]
  <2>1. rows[d] \in RowType
    BY DEF TableInv, TypeOK
  <2>2. rows'[d] = IF rows[d].status = "pending" THEN [rows[d] EXCEPT !.attempts = 0]
                   ELSE rows[d]
    BY DEF Retry
  <2>3. asked'[d] = IF rows[d].status = "pending" THEN 0 ELSE asked[d]
    BY DEF Retry
  <2> QED
    BY <2>1, <2>2, <2>3, RetryThins DEF RowType, Recorded
<1>2. wk'["automatic"] = wk["automatic"]
  BY RetryThins
<1>3. \A d \in Recorded' : asked'[d] <= rows'[d].attempts /\ asked'[d] <= MaxAttempts
  BY <1>1, CleanupAssumption DEF InBudget, CleanupAssumption, Recorded
<1> QED
  BY <1>1, <1>2, <1>3, CleanupAssumption DEF InBudget, CleanupAssumption, Recorded

(* A refusal uses up one of the attempts the automatic worker found left.  *)
LEMMA AskBudget ==
  ASSUME TableInv, InBudget, NEW w \in Workers, NEW c \in Candidates,
         NEW at \in 1 .. MaxQueued, Ask(w, c, at)
  PROVE  InBudget'
<1>1. /\ \A d \in Candidates : d # c => rows'[d] = rows[d]
      /\ rows[c] = NoRow <=> rows'[c] = NoRow
      /\ Thinned(rows')
      /\ <<c, at>> \in wk[w].todo
      /\ wk'[w].todo = wk[w].todo \ {<<c, at>>}
      /\ \A v \in Workers : v # w => wk'[v] = wk[v]
  BY AskEffect
<1>2. TableInv'
  BY AskTable
<1>3. Recorded' = Recorded
  BY <1>1, <1>2, RecordedRows DEF TableInv, RowsTimed, Recorded, NoRow
<1>4. \A d \in Recorded : rows'[d].at = rows[d].at
  BY <1>1, <1>3, RecordedRows DEF Thinned, TableInv, Recorded, NoRow
<1>5. rows[c].attempts \in Nat /\ asked[c] \in Nat
  BY DEF TableInv, TypeOK, RowType
<1>6. /\ rows'[c].attempts \in {rows[c].attempts, rows[c].attempts + 1}
      /\ asked' \in [Candidates -> Nat]
      /\ \A d \in Candidates : d # c => asked'[d] = asked[d]
      /\ \/ asked'[c] = asked[c]
         \/ /\ w = "automatic" /\ asked'[c] = asked[c] + 1
            /\ rows[c].at = at => rows'[c].attempts = rows[c].attempts + 1
  <2>1. \A removed \in BOOLEAN :
          Marked(c, at, removed)[c].attempts =
            IF rows[c].at = at /\ ~removed THEN rows[c].attempts + 1 ELSE rows[c].attempts
    BY MarkedRow
  <2>2. \/ asked' = asked /\ rows' \in {Marked(c, at, TRUE), Marked(c, at, FALSE), rows}
        \/ /\ rows' = Marked(c, at, FALSE)
           /\ w = "automatic" /\ asked' = [asked EXCEPT ![c] = asked[c] + 1]
    BY DEF Ask
  <2>3. CASE asked' = asked /\ rows' \in {Marked(c, at, TRUE), Marked(c, at, FALSE), rows}
    BY <2>1, <2>3 DEF TableInv, TypeOK
  <2>4. CASE /\ rows' = Marked(c, at, FALSE)
             /\ w = "automatic" /\ asked' = [asked EXCEPT ![c] = asked[c] + 1]
    <3>1. asked' \in [Candidates -> Nat] /\ asked'[c] = asked[c] + 1
          /\ \A d \in Candidates : d # c => asked'[d] = asked[d]
      BY <2>4, <1>5 DEF TableInv, TypeOK
    <3>2. rows'[c].attempts = IF rows[c].at = at THEN rows[c].attempts + 1 ELSE rows[c].attempts
      BY <2>1, <2>4
    <3> QED
      BY <3>1, <3>2, <2>4
  <2> QED
    BY <2>2, <2>3, <2>4
<1>7. ASSUME NEW d \in Recorded'
      PROVE  asked'[d] <= rows'[d].attempts /\ asked'[d] <= MaxAttempts
  <2>1. d \in Recorded /\ d \in Candidates
    BY <1>3 DEF Recorded
  <2>2. CASE d # c
    BY <2>1, <2>2, <1>1, <1>6 DEF InBudget
  <2>3. CASE d = c /\ asked'[c] = asked[c]
    BY <2>1, <2>3, <1>5, <1>6 DEF InBudget
  <2>4. CASE d = c /\ asked'[c] # asked[c]
    <3>1. w = "automatic" /\ asked'[c] = asked[c] + 1
      BY <2>4, <1>6
    <3>2. rows[c].at = at /\ asked[c] < MaxAttempts
      BY <3>1, <2>1, <2>4, <1>1 DEF InBudget
    <3> QED
      BY <2>1, <2>4, <3>1, <3>2, <1>5, <1>6, CleanupAssumption
         DEF InBudget, CleanupAssumption
  <2> QED
    BY <2>2, <2>3, <2>4
<1>8. ASSUME NEW d \in Candidates, NEW a \in 1 .. MaxQueued, NEW b \in 1 .. MaxQueued,
             <<d, a>> \in wk'["automatic"].todo
      PROVE  /\ <<d, b>> \in wk'["automatic"].todo => a = b
             /\ d \in Recorded' => rows'[d].at = a /\ asked'[d] < MaxAttempts
  <2>1. "automatic" \in Workers
    BY DEF Workers
  <2>2. wk'["automatic"].todo \subseteq wk["automatic"].todo
    BY <2>1, <1>1
  <2>3. <<d, b>> \in wk'["automatic"].todo => a = b
    BY <1>8, <2>2 DEF InBudget
  <2>4. d \in Recorded' => rows'[d].at = a
    BY <1>8, <2>2, <1>3, <1>4 DEF InBudget
  <2>5. d \in Recorded' => asked'[d] < MaxAttempts
    <3>1. CASE w = "automatic"
      <4>1. d # c
        BY <1>8, <2>2, <3>1, <1>1 DEF InBudget
      <4> QED
        BY <4>1, <1>8, <2>2, <1>3, <1>6 DEF InBudget
    <3>2. CASE w # "automatic"
      BY <3>2, <1>8, <2>2, <1>3, <1>6 DEF InBudget
    <3> QED
      BY <3>1, <3>2
  <2> QED
    BY <2>3, <2>4, <2>5
<1> QED
  BY <1>7, <1>8 DEF InBudget

(* Rows that are dropped leave the others as they are.                     *)
LEMMA DoneBudget ==
  ASSUME TableInv, InBudget, NEW w \in Workers, Done(w)
  PROVE  InBudget'
<1>1. \A c \in Recorded' : c \in Recorded /\ rows'[c] = rows[c]
  BY DEF Done, History, Recorded, NoRow
<1>2. asked' = asked /\ wk'["automatic"].todo = wk["automatic"].todo
  BY DEF Done, TableInv, TypeOK, WorkerType, Workers
<1>3. \A c \in Recorded' : asked'[c] <= rows'[c].attempts /\ asked'[c] <= MaxAttempts
  BY <1>1, <1>2 DEF InBudget
<1>4. ASSUME NEW c \in Candidates, NEW a \in 1 .. MaxQueued, NEW b \in 1 .. MaxQueued,
             <<c, a>> \in wk'["automatic"].todo
      PROVE  /\ <<c, b>> \in wk'["automatic"].todo => a = b
             /\ c \in Recorded' => rows'[c].at = a /\ asked'[c] < MaxAttempts
  BY <1>1, <1>2, <1>4 DEF InBudget
<1> QED
  BY <1>3, <1>4 DEF InBudget

LEMMA StepBudget == ASSUME TableInv, InBudget, [Next]_vars PROVE InBudget'
<1>1. ASSUME NEW k \in Keys, NEW i \in Images, UpdateUnqueued(k, i) PROVE InBudget'
  BY <1>1 DEF UpdateUnqueued, InBudget, Recorded
<1>2. ASSUME NEW i \in Images, Reference(i) PROVE InBudget'
  BY <1>2 DEF Reference, InBudget, Recorded
<1>3. CASE UNCHANGED vars
  BY <1>3 DEF vars, InBudget, Recorded
<1> QED
  BY <1>1, <1>2, <1>3, UpdateBudget, RetryBudget, AskBudget, DoneBudget DEF Next

LEMMA InitBudget == Init => InBudget
<1> SUFFICES ASSUME Init PROVE InBudget
  OBVIOUS
<1>1. Recorded = {} /\ wk["automatic"].todo = {}
  BY DEF Init, Recorded, NoRow, Workers
<1> QED
  BY <1>1 DEF InBudget

(***************************************************************************)
(* Between two updates or retries, the automatic runs record no more       *)
(* refusals of an image than its row's budget, also while an operator's    *)
(* retry works on the same rows (cleanup.go, maxAutomaticCleanupAttempts). *)
(***************************************************************************)
THEOREM BudgetHolds == Spec => []BudgetRespected
<1>1. Init => TableInv /\ InBudget
  BY InitTable, InitBudget
<1>2. (TableInv /\ InBudget) /\ [Next]_vars => (TableInv /\ InBudget)'
  BY StepTable, StepBudget
<1>3. InBudget => BudgetRespected
  BY DEF InBudget, BudgetRespected
<1> QED
  BY <1>1, <1>2, <1>3, PTL DEF Spec
-----------------------------------------------------------------------------
(* The image replaced last.                                                *)

(* The newest row of a key decides what is kept, and is kept itself unless *)
(* nothing is.                                                             *)
LEMMA NewestNotRetired ==
  ASSUME TableInv, NEW k \in Keys, NEW i \in Images, NEW b, <<k, i>> \in Recorded,
         rows[<<k, i>>].keep > 0,
         \A j \in Images : <<k, j>> \in Recorded => rows[<<k, j>>].at <= rows[<<k, i>>].at
  PROVE  <<k, i>> \notin Retired(rows, b)
<1> SUFFICES ASSUME rows[<<k, i>>].status = "pending",
                    Cardinality(Newer(rows, k, i)) >= KeepOf(rows, k)
             PROVE  FALSE
  BY DEF Retired
<1>1. \A j \in PendingOf(rows, k) :
        j \in Images /\ <<k, j>> \in Recorded /\ rows[<<k, j>>].at \in Nat
  BY DEF PendingOf, Recorded, TableInv, TypeOK, RowType, Candidates
<1>2. i \in PendingOf(rows, k)
  BY DEF PendingOf
<1>3. Newer(rows, k, i) = {}
  BY <1>1, <1>2 DEF Newer
<1>4. ASSUME NEW j \in PendingOf(rows, k), Newer(rows, k, j) = {} PROVE j = i
  <2>1. rows[<<k, j>>].at = rows[<<k, i>>].at
    BY <1>1, <1>2, <1>4 DEF Newer, PendingOf
  <2> QED
    BY <2>1, <1>1, <1>2 DEF TableInv, RowsDistinct
<1>5. KeepOf(rows, k) = rows[<<k, i>>].keep
  BY <1>2, <1>3, <1>4 DEF KeepOf
<1>6. rows[<<k, i>>].keep \in Nat
  BY DEF TableInv, TypeOK, RowType, Candidates
<1> QED
  BY <1>3, <1>5, <1>6, FS_EmptySet

(* So nobody who reads the table reads what must stay.                     *)
ReadsSafely ==
    \A l \in Keys, a \in 1 .. MaxQueued, b \in Nat :
      /\ \A i \in Images : times[i] = 0 => <<<<l, i>>, a>> \notin Listed(rows, b)
      /\ \A k \in Keys : Guarded(k) => <<<<l, latest[k].img>>, a>> \notin Listed(rows, b)

LEMMA SafeReading == TableInv /\ RowsSafe => ReadsSafely
<1> SUFFICES ASSUME TableInv, RowsSafe, NEW l \in Keys, NEW a \in 1 .. MaxQueued, NEW b \in Nat
             PROVE  /\ \A i \in Images : times[i] = 0 => <<<<l, i>>, a>> \notin Listed(rows, b)
                    /\ \A k \in Keys : Guarded(k) =>
                         <<<<l, latest[k].img>>, a>> \notin Listed(rows, b)
  BY DEF ReadsSafely
<1>1. \A c \in Candidates : rows[c] = NoRow => c \notin Retired(rows, b)
  BY DEF Retired, NoRow
<1>2. \A c : <<c, a>> \in Listed(rows, b) => c \in Retired(rows, b)
  BY DEF Listed
<1>3. ASSUME NEW i \in Images, times[i] = 0 PROVE <<l, i>> \notin Retired(rows, b)
  BY <1>1, <1>3 DEF RowsSafe, Candidates
<1>4. ASSUME NEW k \in Keys, Guarded(k)
      PROVE  <<l, latest[k].img>> \notin Retired(rows, b)
  <2> DEFINE i == latest[k].img
  <2>1. i \in Images /\ <<l, i>> \in Candidates
    BY DEF TableInv, TypeOK, Candidates
  <2>2. CASE l # k
    BY <2>1, <2>2, <1>1, <1>4 DEF RowsSafe
  <2>3. CASE l = k /\ <<k, i>> \in Recorded
    BY <2>1, <2>3, <1>4, NewestNotRetired DEF RowsSafe, NewestRow, Guarded
  <2>4. CASE l = k /\ <<k, i>> \notin Recorded
    BY <2>1, <2>4, <1>1, RecordedRows DEF TableInv
  <2> QED
    BY <2>2, <2>3, <2>4
<1> QED
  BY <1>2, <1>3, <1>4

(* Rows that are dropped or marked do not bring the guarded one down.      *)
LEMMA ThinnedRows ==
  ASSUME TableInv, TableInv', RowsSafe, Thinned(rows'), UNCHANGED <<times, latest>>,
         ASSUME NEW k \in Keys, Guarded(k)
         PROVE  /\ latest[k].img \in host'
                /\ \/ rows'[<<k, latest[k].img>>] = NoRow
                   \/ rows'[<<k, latest[k].img>>].status = rows[<<k, latest[k].img>>].status
  PROVE  RowsSafe'
<1>1. \A c \in Candidates : rows[c] = NoRow => rows'[c] = NoRow
  BY DEF Thinned
<1>2. \A k \in Keys, i \in Images : <<k, i>> \in Candidates
  BY DEF Candidates
<1>3. ASSUME NEW k \in Keys, Guarded(k)
      PROVE  NewestRow(k, latest[k].img)'
  <2> DEFINE i == latest[k].img
  <2>1. i \in Images /\ latest'[k] = latest[k]
    BY DEF TableInv, TypeOK
  <2>2. ASSUME NEW c \in Recorded'
        PROVE  c \in Recorded /\ rows'[c].at = rows[c].at /\ rows'[c].keep = rows[c].keep
    <3>1. c \in Candidates /\ rows'[c] # NoRow
      BY DEF Recorded, NoRow
    <3> QED
      BY <3>1, RecordedRows DEF Thinned, TableInv
  <2>3. NewestRow(k, i)
    BY <1>3 DEF RowsSafe
  <2>4. <<k, i>> \in Recorded' => rows'[<<k, i>>].status = rows[<<k, i>>].status
    <3>1. <<k, i>> \in Recorded' => rows'[<<k, i>>] # NoRow
      BY DEF Recorded, NoRow
    <3> QED
      BY <3>1, <1>3
  <2> QED
    BY <2>1, <2>2, <2>3, <2>4 DEF NewestRow
<1>4. \A k \in Keys : Guarded(k)' <=> Guarded(k)
  BY DEF Guarded
<1>5. \A k \in Keys : latest[k].img \in Images
  BY DEF TableInv, TypeOK
<1> QED
  BY <1>1, <1>2, <1>3, <1>4, <1>5 DEF RowsSafe

(* What a step leaves guarded was guarded before, unless it is replaced    *)
(* right now and was never queued.                                         *)
LEMMA UpdateGuards ==
  ASSUME TableInv, RowsSafe, NEW k \in Keys, NEW i \in Images, NEW keep \in Retentions,
         NEW cleanup \in BOOLEAN, Update(k, i, keep, cleanup)
  PROVE  /\ runs[k] \in host
         /\ \A j \in Images : /\ times[j] # 0 => times'[j] # 0
                              /\ times'[j] = 0 => j # runs[k] \/ ~cleanup
         /\ latest'[k].img = runs[k]
         /\ latest'[k].keep > 0 => cleanup /\ latest'[k].keep = keep /\ times'[runs[k]] # 0
         /\ Guarded(k)' => cleanup /\ times[runs[k]] = 0
         /\ \A l \in Keys \ {k} :
              /\ latest'[l] = latest[l]
              /\ Guarded(l)' => Guarded(l) /\ (cleanup => latest[l].img # runs[k])
<1>1. runs[k] \in host /\ runs[k] \in Images /\ keep \in Nat
  BY CleanupAssumption DEF CleanupAssumption, TableInv, TypeOK
<1>2. \A j \in Images :
        /\ times[j] \in 0 .. 2
        /\ times'[j] = IF j = runs[k] /\ cleanup /\ times[j] < 2 THEN times[j] + 1 ELSE times[j]
  BY DEF Update, TableInv, TypeOK
<1>3. /\ latest'[k] = [img |-> runs[k], keep |-> IF cleanup THEN keep ELSE 0]
      /\ \A l \in Keys \ {k} : latest'[l] = latest[l]
  BY DEF Update, TableInv, TypeOK
<1>4. \A l \in Keys : latest[l].img \in Images
  BY DEF TableInv, TypeOK
<1>5. latest'[k].keep > 0 => cleanup /\ latest'[k].keep = keep /\ times'[runs[k]] # 0
  BY <1>1, <1>2, <1>3
<1>6. Guarded(k)' => cleanup /\ times[runs[k]] = 0
  BY <1>1, <1>2, <1>3, <1>5 DEF Guarded
<1>7. ASSUME NEW l \in Keys \ {k}, Guarded(l)'
      PROVE  Guarded(l) /\ (cleanup => latest[l].img # runs[k])
  <2>1. latest[l].keep > 0 /\ times'[latest[l].img] = 1 /\ times[latest[l].img] # 0
    BY <1>3, <1>7 DEF Guarded, RowsSafe
  <2> QED
    BY <2>1, <1>2, <1>4 DEF Guarded
<1> QED
  BY <1>1, <1>2, <1>3, <1>5, <1>6, <1>7

LEMMA UpdateRollback ==
  ASSUME TableInv, RollbackSafe, NEW k \in Keys, NEW i \in Images, NEW keep \in Retentions,
         NEW cleanup \in BOOLEAN, Update(k, i, keep, cleanup)
  PROVE  RollbackSafe'
<1> USE CleanupAssumption DEF CleanupAssumption, RollbackSafe
<1> DEFINE c == <<k, runs[k]>>
<1>1. c \in Candidates /\ keep \in Nat /\ queued < MaxQueued /\ runs[k] \in Images
  BY DEF Update, TableInv, TypeOK, Candidates
<1>2. rows' = IF cleanup THEN Queued(c, keep) ELSE rows
  BY DEF Update
<1>3. /\ \A d \in Candidates : d # c => Queued(c, keep)[d] = rows[d]
      /\ Queued(c, keep)[c] = [at |-> IF rows[c] = NoRow THEN queued + 1 ELSE rows[c].at,
                               keep |-> keep, status |-> "pending", attempts |-> 0]
  BY <1>1, QueuedRow
<1>4. TableInv' /\ host \subseteq host'
  BY UpdateTable DEF Update
<1>5. \A l \in Keys, j \in Images :
        /\ <<l, j>> \in Candidates
        /\ l # k \/ j # runs[k] \/ ~cleanup => rows'[<<l, j>>] = rows[<<l, j>>]
  BY <1>2, <1>3 DEF Candidates
<1>6. \A l \in Keys : latest[l].img \in Images
  BY DEF TableInv, TypeOK
<1>7. ASSUME NEW l \in Keys \ {k}, Guarded(l)'
      PROVE  /\ latest'[l].img \in host'
             /\ \A m \in Keys \ {l} : rows'[<<m, latest'[l].img>>] = NoRow
             /\ NewestRow(l, latest[l].img)'
  <2>1. /\ Guarded(l) /\ latest'[l] = latest[l]
        /\ cleanup => latest[l].img # runs[k]
    BY <1>7, UpdateGuards
  <2>2. \A m \in Keys : rows'[<<m, latest[l].img>>] = rows[<<m, latest[l].img>>]
    BY <2>1, <1>5, <1>6
  <2>3. \A j \in Images : rows'[<<l, j>>] = rows[<<l, j>>] /\ <<l, j>> \in Candidates
    BY <1>5
  <2> QED
    BY <2>1, <2>2, <2>3, <1>4, <1>6 DEF RowsSafe, NewestRow, Recorded
<1>8. ASSUME Guarded(k)'
      PROVE  /\ latest'[k].img \in host'
             /\ \A m \in Keys \ {k} : rows'[<<m, latest'[k].img>>] = NoRow
             /\ NewestRow(k, latest[k].img)'
  <2>1. /\ latest'[k].img = runs[k] /\ latest'[k].keep = keep /\ cleanup
        /\ times[runs[k]] = 0 /\ runs[k] \in host
    BY <1>8, UpdateGuards DEF Guarded
  <2>2. \A m \in Keys : rows[<<m, runs[k]>>] = NoRow
    BY <2>1, <1>1 DEF RowsSafe
  <2>3. rows'[c] = [at |-> queued + 1, keep |-> keep, status |-> "pending", attempts |-> 0]
    BY <2>1, <2>2, <1>2, <1>3
  <2>4. queued \in Nat /\ queued' = queued + 1
    BY DEF Update, TableInv, TypeOK
  <2>5. ASSUME NEW j \in Images, <<k, j>> \in Recorded'
        PROVE  rows'[<<k, j>>].at <= queued + 1
    <3>1. <<k, j>> \in Candidates /\ rows'[<<k, j>>] # NoRow
      BY <2>5 DEF Recorded, NoRow
    <3> QED
      BY <3>1, <2>4, <1>4 DEF TableInv, RowsTimed
  <2>6. NewestRow(k, latest[k].img)'
    BY <2>1, <2>3, <2>5 DEF NewestRow
  <2> QED
    BY <2>1, <2>2, <2>6, <1>1, <1>4, <1>5
<1>9. RowsSafe'
  <2>1. ASSUME NEW j \in Images, times'[j] = 0, NEW l \in Keys
        PROVE  rows'[<<l, j>>] = NoRow
    <3>1. times[j] = 0 /\ (j # runs[k] \/ ~cleanup)
      BY <2>1, UpdateGuards
    <3> QED
      BY <3>1, <1>5 DEF RowsSafe
  <2>2. ASSUME NEW l \in Keys, latest'[l].keep > 0 PROVE times'[latest'[l].img] # 0
    <3>1. CASE l = k
      BY <2>2, <3>1, UpdateGuards
    <3>2. CASE l # k
      BY <2>2, <3>2, <1>6, UpdateGuards DEF RowsSafe
    <3> QED
      BY <3>1, <3>2
  <2> QED
    BY <2>1, <2>2, <1>7, <1>8 DEF RowsSafe
<1>10. ReadsSafely'
  <2>1. (TableInv /\ RowsSafe => ReadsSafely)'
    BY SafeReading, PTL
  <2> QED
    BY <2>1, <1>4, <1>9
<1>11. /\ wk'["automatic"].todo = Listed(rows', MaxAttempts)
       /\ \A w \in Workers : w # "automatic" => wk'[w] = wk[w]
  BY DEF Update, TableInv, TypeOK, Workers
<1>12. ASSUME NEW j \in Images, times'[j] = 0 PROVE Unasked(j)'
  <2>1. Unasked(j)
    BY <1>12, UpdateGuards DEF TodoSafe
  <2> QED
    BY <2>1, <1>10, <1>11, <1>12 DEF Unasked, ReadsSafely
<1>13. ASSUME NEW l \in Keys, Guarded(l)' PROVE Unasked(latest[l].img)'
  <2>1. Unasked(latest'[l].img)
    <3>1. CASE l = k
      BY <3>1, <1>13, <1>1, UpdateGuards DEF TodoSafe
    <3>2. CASE l # k
      BY <3>2, <1>13, UpdateGuards DEF TodoSafe
    <3> QED
      BY <3>1, <3>2
  <2> QED
    BY <2>1, <1>10, <1>11, <1>13 DEF Unasked, ReadsSafely
<1> QED
  BY <1>9, <1>12, <1>13 DEF TodoSafe

(* Without a candidate in the table nothing is promised of the image.      *)
LEMMA UnqueuedRollback ==
  ASSUME TableInv, RollbackSafe, NEW k \in Keys, NEW i \in Images, UpdateUnqueued(k, i)
  PROVE  RollbackSafe'
<1>1. /\ UNCHANGED <<rows, wk, times>> /\ host \subseteq host'
      /\ latest'[k].keep = 0
      /\ \A l \in Keys \ {k} : latest'[l] = latest[l]
  BY DEF UpdateUnqueued, TableInv, TypeOK
<1>2. \A l \in Keys : Guarded(l)' => Guarded(l) /\ l # k
  BY <1>1 DEF Guarded
<1>3. \A l \in Keys, j \in Images : l # k => NewestRow(l, j)' = NewestRow(l, j)
  BY <1>1 DEF NewestRow, Recorded
<1>4. \A j \in Images : Unasked(j)' = Unasked(j)
  BY <1>1 DEF Unasked
<1>5. \A l \in Keys : latest[l].img \in Images
  BY DEF TableInv, TypeOK
<1>6. RowsSafe'
  <2>1. ASSUME NEW l \in Keys, Guarded(l)'
        PROVE  /\ latest'[l].img \in host'
               /\ \A m \in Keys \ {l} : rows'[<<m, latest'[l].img>>] = NoRow
               /\ NewestRow(l, latest[l].img)'
    <3>1. Guarded(l) /\ l # k /\ latest'[l] = latest[l]
      BY <2>1, <1>1, <1>2
    <3>2. NewestRow(l, latest[l].img)'
      BY <3>1, <1>1 DEF RollbackSafe, RowsSafe, NewestRow, Recorded
    <3> QED
      BY <3>1, <3>2, <1>1 DEF RollbackSafe, RowsSafe
  <2>2. ASSUME NEW l \in Keys, latest'[l].keep > 0 PROVE times'[latest'[l].img] # 0
    BY <2>2, <1>1 DEF RollbackSafe, RowsSafe
  <2> QED
    BY <2>1, <2>2, <1>1 DEF RollbackSafe, RowsSafe
<1>7. TodoSafe'
  <2>1. ASSUME NEW l \in Keys, Guarded(l)' PROVE Unasked(latest[l].img)'
    BY <2>1, <1>1, <1>2 DEF RollbackSafe, TodoSafe, Unasked
  <2> QED
    BY <2>1, <1>1, <1>4 DEF RollbackSafe, TodoSafe
<1> QED
  BY <1>6, <1>7 DEF RollbackSafe

(* The retry asks for what it reads, and resets attempts.                  *)
LEMMA RetryRollback == ASSUME TableInv, RollbackSafe, Retry PROVE RollbackSafe'
<1>1. TableInv' /\ Thinned(rows') /\ UNCHANGED <<times, latest, host>>
  BY RetryTable, RetryThins DEF Retry
<1>2. RowsSafe'
  <2>1. ASSUME NEW k \in Keys, Guarded(k)
        PROVE  /\ latest[k].img \in host'
               /\ rows'[<<k, latest[k].img>>].status = rows[<<k, latest[k].img>>].status
    <3>1. <<k, latest[k].img>> \in Candidates
      BY DEF TableInv, TypeOK, Candidates
    <3> QED
      BY <2>1, <3>1, <1>1, RetryThins DEF RollbackSafe, RowsSafe
  <2> QED
    BY <2>1, <1>1, ThinnedRows DEF RollbackSafe
<1>3. ReadsSafely'
  <2>1. (TableInv /\ RowsSafe => ReadsSafely)'
    BY SafeReading, PTL
  <2> QED
    BY <2>1, <1>1, <1>2
<1>4. /\ wk'["retry"].todo = Listed(rows', 0)
      /\ wk'["automatic"] = wk["automatic"] /\ Workers = {"automatic", "retry"}
  BY RetryThins DEF Workers
<1>5. \A j \in Images : times[j] = 0 => Unasked(j)'
  BY <1>1, <1>3, <1>4 DEF Unasked, ReadsSafely, RollbackSafe, TodoSafe
<1>6. ASSUME NEW k \in Keys, Guarded(k)' PROVE Unasked(latest[k].img)'
  <2>1. Guarded(k)
    BY <1>1, <1>6 DEF Guarded
  <2> QED
    BY <2>1, <1>1, <1>3, <1>4, <1>6 DEF Unasked, ReadsSafely, RollbackSafe, TodoSafe
<1> QED
  BY <1>1, <1>2, <1>5, <1>6 DEF RollbackSafe, TodoSafe

(* Nobody reads anew: what is not asked for stays so.                      *)
LEMMA FewerAsked ==
  ASSUME TodoSafe, UNCHANGED <<times, latest>>,
         \A w \in Workers : wk'[w].todo \subseteq wk[w].todo
  PROVE  TodoSafe'
<1>1. \A i : Unasked(i) => Unasked(i)'
  BY DEF Unasked
<1>2. \A k \in Keys : Guarded(k)' => Guarded(k)
  BY DEF Guarded
<1>3. ASSUME NEW k \in Keys, Guarded(k)' PROVE Unasked(latest[k].img)'
  BY <1>2, <1>3 DEF TodoSafe, Unasked
<1> QED
  BY <1>1, <1>3 DEF TodoSafe

(* What is guarded is not what the daemon is asked for.                    *)
LEMMA AskRollback ==
  ASSUME TableInv, RollbackSafe, NEW w \in Workers, NEW c \in Candidates,
         NEW at \in 1 .. MaxQueued, Ask(w, c, at)
  PROVE  RollbackSafe'
<1>1. /\ TableInv' /\ Thinned(rows') /\ UNCHANGED <<times, latest>>
      /\ \A d \in Candidates : d # c => rows'[d] = rows[d]
      /\ host' = host \/ host' = host \ {c[2]}
      /\ <<c, at>> \in wk[w].todo
  BY AskTable, AskEffect
<1>2. \A v \in Workers : wk'[v].todo \subseteq wk[v].todo
  BY AskEffect
<1>3. ASSUME NEW k \in Keys, Guarded(k)
      PROVE  /\ latest[k].img \in host'
             /\ rows'[<<k, latest[k].img>>].status = rows[<<k, latest[k].img>>].status
  <2>1. c[2] # latest[k].img
    <3>1. c = <<c[1], c[2]>> /\ c[1] \in Keys
      BY DEF Candidates
    <3> QED
      BY <3>1, <1>1, <1>3 DEF RollbackSafe, TodoSafe, Unasked
  <2>2. <<k, latest[k].img>> \in Candidates /\ <<k, latest[k].img>> # c
    BY <2>1 DEF TableInv, TypeOK, Candidates
  <2> QED
    BY <2>1, <2>2, <1>1, <1>3 DEF RollbackSafe, RowsSafe
<1>4. RowsSafe'
  BY <1>1, <1>3, ThinnedRows DEF RollbackSafe
<1> QED
  BY <1>1, <1>2, <1>4, FewerAsked DEF RollbackSafe

LEMMA DoneRollback ==
  ASSUME TableInv, RollbackSafe, NEW w \in Workers, Done(w)
  PROVE  RollbackSafe'
<1>1. TableInv' /\ Thinned(rows') /\ UNCHANGED <<times, latest, host>>
  BY DoneTable, HistoryThins DEF Done
<1>2. \A v \in Workers : wk'[v].todo = wk[v].todo
  BY DEF Done, TableInv, TypeOK, WorkerType
<1>3. \A c \in Candidates : rows'[c] = NoRow \/ rows'[c] = rows[c]
  BY DEF Done, History
<1>4. \A k \in Keys : <<k, latest[k].img>> \in Candidates
  BY DEF TableInv, TypeOK, Candidates
<1>5. RowsSafe'
  BY <1>1, <1>3, <1>4, ThinnedRows DEF RollbackSafe, RowsSafe
<1> QED
  BY <1>1, <1>2, <1>5, FewerAsked DEF RollbackSafe

LEMMA StepRollback == ASSUME TableInv, RollbackSafe, [Next]_vars PROVE RollbackSafe'
<1>1. ASSUME UNCHANGED <<host, rows, wk, times, latest>> PROVE RollbackSafe'
  BY <1>1 DEF RollbackSafe, RowsSafe, TodoSafe, Guarded, Unasked, NewestRow, Recorded
<1>2. ASSUME NEW i \in Images, Reference(i) PROVE RollbackSafe'
  BY <1>1, <1>2 DEF Reference
<1>3. CASE UNCHANGED vars
  BY <1>1, <1>3 DEF vars
<1> QED
  BY <1>2, <1>3, UpdateRollback, UnqueuedRollback, RetryRollback, AskRollback, DoneRollback
     DEF Next

LEMMA InitRollback == Init => RollbackSafe
  BY DEF Init, RollbackSafe, RowsSafe, TodoSafe, Guarded, Unasked, Candidates

(***************************************************************************)
(* Whoever processes the table, and whatever rows it drops or asks for     *)
(* again, the image a key replaced last stays on the host when the policy  *)
(* keeps one, provided it was queued this once (cleanup.go,                *)
(* processImageCleanup).                                                   *)
(***************************************************************************)
THEOREM FirstRollbackStays == Spec => []FirstRollbackKept
<1>1. Init => TableInv /\ RollbackSafe
  BY InitTable, InitRollback
<1>2. (TableInv /\ RollbackSafe) /\ [Next]_vars => (TableInv /\ RollbackSafe)'
  BY StepTable, StepRollback
<1>3. RollbackSafe => FirstRollbackKept
  BY DEF RollbackSafe, RowsSafe, Guarded, FirstRollbackKept
<1> QED
  BY <1>1, <1>2, <1>3, PTL DEF Spec
=============================================================================
