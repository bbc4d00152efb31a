# Dockman: a TLA+ verification project

Dockman manages Docker hosts: it runs Compose stacks, updates containers by hand
and automatically, synchronises stack folders with Git, keeps secrets, and serves
a web interface. The project models the parts of it that keep state of their own
or change running services: 29 modules of the system, eight of proofs, and the
modules that instantiate them for TLC. Paths below are relative to
`core/internal/` of the repository.

Contents: [inventory](#inventory), [plan](#plan), [modules](#modules),
[runs](#runs), [findings](#findings), [observations](#observations),
[proofs](#proofs), [what is not modelled](#what-is-not-modelled).

## Inventory

| component | state | operations | interacts with | what is hard | module |
|---|---|---|---|---|---|
| container replacement (`docker/updater/updater.go`) | the daemon's containers, names, health | recreate, verify, compensate, sweep | daemon, events hub, stack lock | a failure or a crash between any two calls; errors that hide an effect; lost events | `ContainerReplace` |
| automatic update runs (`docker/updater/automation.go`, `execution.go`, `scan.go`, `docker/update_automation.go`) | policies, control, execution rows, breakers | run, execute, record, recover, clear | replacement, registry, stack lock, cleanup | stale inventory, ids that change under records, stack rollback, restart | `UpdateExecution` |
| image cleanup (`docker/updater/cleanup.go`) | cleanup rows | queue, process, prune | update runs, images | two passes at once, shared images | `ImageCleanup` |
| stack action lock (`docker/compose/stack_lock.go`) | counted lock objects per host and file | `TryLockStack` and its release | every action that changes a stack | lookup, lock and removal are separate steps | `StackLocks`, `StackMutex` |
| compose and protected actions (`docker/handler.go`, `update_compose.go`, `protected_update.go`, `compose/`) | manifest, containers, stopped mark, helper | up, down, restart, update, Git deploy, protected update | stack lock, replacement, daemon | a plan that ages, partial failures, a helper that outlives its lock | `ComposeActions` |
| build jobs (`docker/build_jobs.go`, `compose/build_limits.go`) | jobs, logs, slots, the limited builder | start, run, cancel, read, prune | compose, notifications | limits, cancel against completion, offsets into a cut log | `BuildJobs` |
| versions (`docker/updater/version.go`, `registry.go`) | cache, look-ups in flight | discover, page, compare | registry, scans | shared errors, expiry, pages | `VersionDiscovery` |
| events and schedules (`docker/container/events_hub.go`, `app/restart_tracker.go`, `updater/automation.go`) | subscribers, memories, pending refresh | subscribe, broadcast, watch, refresh | daemon, policies, notifications | full buffers, reconnection, coalescing | `HostEvents` |
| hosts (`host/`, `app/host_watch.go`) | rows, connections, watchers | create, edit, toggle, delete, retry | every component, Folder Links | callbacks and loads that cross a rename or a toggle | `HostRegistry` |
| Git history (`gitsync/repository.go`, `binding.go`) | clone, tracking branch, baseline | fetch, pull, push, reset, import, export | the remote, other committers | a commit that is not pushed, divergence, reset | `GitHistory` |
| Git repositories (`gitsync/repository.go`, `repository_storage.go`, `service.go`) | credentials, rows, clones | register, clone, convert, delete | Git history | stops between the row and the clone | `GitRepository` |
| Git preview (`gitsync/binding.go`) | none | three-way comparison, selection, baseline | all transfers | every pair of sides against the baseline | `GitPreview` |
| Folder Links (`gitsync/binding.go`, `automation.go`) | rows, selection, polled stacks, status rows | link, relink, edit, unlink | automation, catalog | rows saved late, nested links | `GitLinks` |
| file policy (`gitsync/binding.go`, `unreadable.go`, `policy_tree.go`) | profile, inclusions, ignore files, held paths | collect, show, import, export | transfers, editor | unreadable paths, views that disagree | `GitPolicy` |
| Git automation (`gitsync/automation.go`, `deployment.go`) | link and stack rows, deployments | cycle, deploy, roll back, pause, push, recover | editor, stack lock, compose | edits and decisions against a running cycle | `GitAutomation` |
| deletions (`gitsync/local_deletion.go`, `orphan.go`, `folder_deletion.go`) | states, exclusions, backups | decide, export, remove | files service, backups | writes between the check and the removal | `GitDeletion` |
| recovery (`gitsync/backup.go`, `backup_restore.go`, `commit_rollback.go`) | archives, rows, pauses | back up, prune, restore, roll back | transfers, editor | retention during a restore, torn writes | `GitRecovery` |
| webhooks (`gitsync/webhook.go`) | replay table, queue, worker | deliver, coalesce, run | automation | full queue, restart, redelivery | `GitWebhook` |
| provisioning (`gitsync/provision.go`, `provision_backup.go`) | a transaction and its staging | apply, commit, roll back | deployments | undoing what others changed | `GitProvision` |
| secrets (`secrets/`) | plain files, history, encrypted source, mounted runtime | write, enable, export, assign, delete | compose, files, host runtime | requests that interleave, partial failure | `StackSecrets` |
| secrets on the host (`secrets/host_install.go`, `host_runtime.go`) | unit files, mounts, requests | install, reconcile, boot | systemd, Docker | boot order, a half installation | `HostRuntime` |
| files and editor (`files/`) | revisions, leases, open editors | save, rename, copy, delete, watch | Git automation, host tools | two names of one file, blind writers | `EditorFiles` |
| file browser (`docker/file_browser_http.go`, `cmd/filehelper`) | helper binaries and containers | browse, change, clean up | daemon | recreated containers, failed clean-up | `FileBrowser` |
| sessions (`docker/handler_http.go`, `debug/`, `viewer/`, `compose/shell.go`) | sockets, connections, containers | open, attach, end | daemon | either end leaves at any step | `LiveSessions` |
| followed logs (`docker/container/logs_stream.go`) | position, buffered lines | follow, resume | daemon, sessions | gaps and repeats over a restart | `LogStream` |
| notifications (`notifications/`) | channels, fingerprints, queue | save, scan, send, migrate | updates, restarts, builds | failed deliveries, saves during a scan | `Notifications` |
| cleaner (`cleaner/`) | configuration, task, jobs | edit, schedule, prune | Docker | edits against each other and a job | `PruneSchedule` |
| authentication (`auth/`) | sessions, failed attempts | sign in and out, verify | handlers | bounds, expiry, two attempts at once | `SignIn` |
| self update, image/network/volume services, command lines, file systems, views, desktop, generated code, user interface | little of their own | | | | none, see the end |

## Plan

Done: the modules above. The core of container updates came first, because it
changes services without anyone watching; Git synchronisation second, because it
overwrites files; then what the two depend on (locks, secrets, files, hosts,
events), then the rest by the state it keeps.

To come, in this order:

1. `UpdateOrder`: the topological order of a stack update against the reference
   "every dependency before its dependents";
2. `SelfUpdate`: the hand-over to the helper that replaces Dockman.

The safety properties of the passing runs are all proved (see [proofs](#proofs)).

## Modules

### ContainerReplace

One worker per service. A service is what one stack lock protects, so that
workers of different services interleave and workers of one service do not.

* `present`, `cont`: the containers of the host, with service, name, running
  state and health. A name is the service's name and the temporary suffixes that
  have not been taken off yet (`temporaryReplacementName`).
* `used`: ids, which stand for the random suffixes too, handed out so far.
* `wk`: the worker: its step, its request, the old and the new container, the
  sweep's listing, the events it was sent, and what it returned last (`verdict`,
  and `told`: the error names a replacement left behind).
* `rejected`: the replacements given up on; `vanished`: the services whose old
  container went with a removal that reported an error (both history).

Every daemon call is an action. A stop, a start, or a removal of the old container
that reports an error may have taken effect: the deadline of the context may be
reached while Docker is at work. A create or a rename that reports an error is
taken not to have; a container that was created all the same would be one the
code does not know of. The code removes the replacement when the removal of the
old container reports an error (`updater.go:561-568, 640-643`), so a removal that
took effect loses both: `ServiceKept` and `VerdictTrue` say nothing of that
service and that verdict (`unremoved`), and promise the rest. `Begin` is the request that got the lock; `SweepList`, `SweepOne`,
`SweepDone` are `RecoverInterruptedReplacements`; `Pull`, `Inspect` lead to the
cold path (`CreateCold`, `RemoveCold`, `DropCold`) for a stopped container or to
the hot one (`Stop`, `Unstop`, `Create`, `Start`); `Check`, `AwaitEvent`,
`AwaitTimer`, `Labels` are the verification; `Drop`, `Rollback`, `RemoveOld`,
`UndoNew`, `RestartOld`, `Rename`, `Relist` finish or undo. `Die` and
`HealthTurns` are the daemon's doing; the hub's event may be dropped (`Delivered`).
`Crash` forgets every worker and leaves the containers.

### UpdateExecution

The automatic runs of one host. `cur` is the container of each member with its
id, image and whether Docker lists it by tag; `reg` and `local` the digest each
reference has in the registry and on the host; `block` the breakers by container
id, `open` the execution rows without an end, `control` the pause and the group
limit, `lock` the action locks, `run` the run in progress with everything it read
earlier. `broken` and `review` are history: the digest last recorded as breaking
the container a member still has, and whether an interrupted execution waits for
an operator; `since` counts the executions recorded since an outcome that could
not be stored, whose open row the retention of `SaveExecution` deletes after
`MaxRuns` of them (50 in the code). A failure counts against a container only if it runs the image the
member had: a replacement that failed and stayed in place is a new container,
and its failure is recorded under the id of the old one. The breaker also records
the digest the scan found; when the registry moves on before the pull, that is not
the image that failed. `NoRetryOfBroken` promises nothing about either case.

`Trigger`, `Inventory`, `Scan`, `Gate`, `Gather` are `AutomationService.run` and
the first half of `executeAvailable`; `ExecuteSingle` is a single container;
`StackPreflight`, `StackMember`, `Restore`, `Unlock` the transaction of a stack;
`SaveExecution` the record with its breakers. `SaveControl`, `SetPolicy`,
`ClearExecutionBlock`, `ManualBegin` and `ManualEnd` are operators; `Publish` and
`PullElsewhere` the world outside; `Crash`, `CrashWhilePulling`, `CrashInStack`
stop Dockman before, between and inside the changes; `Restart` is
`NewAutomationService`. Members' dependency order is the constant `Order`.

### ImageCleanup

`host`, `tag`, `runs`, `others`: images, and who needs them. `rows` is the table
by target key and image, `queued` the clock behind `created_at`. `Update` is a
successful update with its queue and the reading of the candidates,
`UpdateUnqueued` one whose candidate the database refused, `Retry` the operator's
request, `Ask` one question to the daemon with its mark, `Done` the pruning of
the history. The check of an image and its removal are one step, since the
daemon refuses to remove an image that a container uses; a tag given between the
two calls is not covered. The deletion of old history is taken to succeed. `Update` queues and reads in one
step: a pass that ends at once because another candidate could not be queued, or the
table not be read (`cleanup.go:163-166, 232-234`), is not represented; its rows wait
for the next pass.

### Git synchronisation

`GitPreview` has no state: `ImportPreview` and `ExportPreview` compare the two
sides of a link and the baseline path by path, and `BaselineAfterTransfer` is what
a transfer remembers. `GitAutomation`, `GitDeletion` and `GitRecovery` use it.

* `GitHistory`: `origin` (the provider's branch), `tracking`, `branch` (each a set
  of commits with the content of the tip), the host's file and the baseline.
  Every operation of `repository.go` is an action; an export commits in one and
  pushes in another, so that a push may be refused and the process may stop
  between the two. An import compares in one (`importing`) and writes in another.
  `shared` and `edited` are history: what the provider's branch ever had, and
  whether the file was edited since an import compared it.
* `GitRepository`: `cred`, `repoRow`, `register` (the step of a registration) and
  the clone with its storage markers. `asking` are the requests on the credential
  between the look for its users and the statement that changes it, `policyRow` the
  row a policy request has read and saves whole later.
* `GitLinks`: two links with their rows, the Compose files of both sides, the
  status rows, and the requests that took a row and have not saved it yet: `copy`
  is the row an unlocked edit or a first synchronization has read, looked up and
  will write, `lcycle` the cycle of each link from the reading of its row to the
  commit it saves (with the registration of discovered targets in between), or the
  unlinking between its two saves. `inspected`, `blurred` and `overtaken` are
  history: the stacks a scan of the head covered, and the links that came back with
  what they remembered or whose row an unlocked save replaced under a cycle or an
  unlinking. An initial synchronization ends with both sides compared or the host
  imported; an export changes nothing the module has, and is one of the former.
* `GitPolicy`: for three kinds of path, what the host and Git hold, who can read
  it, the rules and the profile; `collectStackFiles`, `collectRepositoryTreeFiles`,
  `BindingPolicyTree` and `bindingTracksLocalMutation` are operators on them.
  `transferP` is an import or export between its look at both sides and its write.
* `GitAutomation`: `cycle` is the step of the one automatic cycle, `row` the status
  rows, `drow` the deployments, `link` the row of the Folder Link, `files`, `base`
  and `provider` the contents, `busy` the stacks whose lock another action holds,
  `dirty` those an editor has open. `marking` are the saves of Dockman whose mark on
  the row comes in a second step, `touched` and `late` history: what was changed by
  hand since the scan, and since an import or a rollback compared it. An operator's
  synchronization of one stack (`SyncGitStackNow`) is one step.
* `GitDeletion`: one deletion or orphan decision (`dOp`) over the files of a
  stack, with a second committer and the host writing in between.
* `GitRecovery`: archives, their rows and manifests, and one restore or commit
  rollback (`rOp`), file by file.
* `GitWebhook`: requests by delivery id, `hPending`, `hQueue` and the worker.
* `GitProvision`: one transaction (`vTx`) over a directory, a path's mode and
  owner, and a removed file, with its staging directory.

### Stacks, containers and hosts

* `StackLocks` is the table of `stack_lock.go` in its three critical sections;
  `StackMutex` is what it promises. `SerializesActions` is the refinement: the
  holders are the actors that were told they hold the lock, with the key they
  asked for.
* `ComposeActions`: `cMan`, `cBox`, `cLocal`, `cRemote` are the manifest, the
  containers, the local and the registry's images; `cReq` is the action that has
  the lock, `cHelper` the detached helper of a protected update.
* `BuildJobs`: `bJob` by id, `bTurn` the limited builder's turn, `bBuilder` what
  it was created with, `bReader` a client that follows a log.
* `HostRegistry`: `hRow` and `hLink` by id, `hReg`, `hActive` and `hWatcher` by
  name, and the calls in progress: two requests of operators and the retry, each
  with the row it read. Several rows may have one name, as in the table. Which
  connection a name stands for, and when it is closed, is left out.
* `HostEvents`: stream, buffers, label version, restart memory, refresh; a host that
  goes and comes back gets a new watcher with an empty tracker.
* `VersionDiscovery`: the registry's tags, the cache, and a scan per reader;
  `newestAllowedTag` is the loop over a catalog, as a recursive function of the
  position.

### Files, secrets, sessions and the rest

* `StackSecrets`: per stack the files on disk, their history, the encrypted
  source, the mounted runtime; `sReq` are the requests, `sLock` the mutex. A plain
  write or deletion, which takes no lock, is its backup and its replacement; a
  write may report an error after it took effect. A pass of the host unit may
  unmount a stack whose directory it cannot walk. What a failed materialization
  undoes is abstracted to its net effect.
* `HostRuntime`: the unit files written so far, what systemd loaded, enabled and
  runs, and what the stack on the host sees; a reconciliation unmounts what its
  walk could not claim.
* `EditorFiles`: the revision of each path, the sessions with what they last saw,
  and the requests between their check and their write.
* `FileBrowser`, `LiveSessions`, `LogStream`, `Notifications`, `PruneSchedule` and
  `SignIn` keep the state the inventory names, with one action per step between
  two calls that may fail or be overtaken.

In every module an action named `Stop...` or `...Crash` is a stop of Dockman:
it forgets what is in memory and keeps what is on disk. The `Max...Steps` (or
`MaxHistory`) constant of a module bounds the requests and outside events of a
behaviour; the steps a request causes are not counted. `MC` modules give the
constants their values.

`MCComponents` extends these 24 modules. Its variable `scene` names the component
that moves; the others stay in one initial state, so that the run is the sum of
24 explorations and not their product. They share no variables: where one
component depends on another it models the other's promise (a lock as a mutex, a
busy stack as a set).

## Runs

| run | configuration | shows |
|---|---|---|
| `replace` | two services (one by hand and verified, one automatic without verification or restored), 4 ids, event buffer 1 | `TypeOK`, `ServiceKept`, `NoOverlap`, `VerdictTrue`, `BootCrashCaught`, `UpdateTerminates` |
| `execution_stack` | a stack of two members on one reference, 2 digests, policies off and rollback | `TypeOK`, `NoRetryOfBroken`, `InterruptedPauses`, `StackCoherent`, `NoPartialStack`, `RunEnds` |
| `execution_pair` | a single container beside a stack of one, 3 digests, group limit 1, no rollback | `NoRetryOfBroken` |
| `cleanup` | one key, 3 images, retention 0 and 1, budget 2, history 1, 4 updates | `TypeOK`, `BudgetRespected`, `HistoryBounded`, `FirstRollbackKept` |
| `components` | the 24 other modules, one at a time (see below) | types, and one or more properties of each component |
| `git_reset` | `GitHistory`, 5 steps | a violation: see the findings |
| `replace_leftover`, `replace_sweep_race`, `execution_transient`, `execution_record`, `execution_superseded`, `cleanup_retention` | as above, one property each | a violation: see the findings |

Bounds, and why they are enough for what is asked:

* `Ids` (4): two replacements for two services, in any distribution, so that a
  swap meets a sweep, a leftover, and a second update of the same service. Event
  buffer 1 (the code's 16): one event fills it, so that drops happen.
* `MaxDigest` (2; 3 where an image supersedes a broken one or the registry moves on
  between the scan and the pull) and `MaxId` (2 or 3
  containers per member): an update, its restore, and a manual replacement in
  between. A reference may return to an earlier digest, so that runs are not
  bounded.
* `MaxRuns` (2, and 1 where the pause is not asked about; the code's 50): an
  execution is recorded, another begins, and the row of the first is still there;
  and the row is deleted.
* `MaxQueued` (4), `MaxHistory` (1, the code's 250), `MaxAttempts` (2, the code's
  3): images leave the window, come back, exhaust their budget, and rows are
  dropped while another worker has them in hand.
* Symmetry is used for two interchangeable images in `cleanup`, which has no
  liveness property.

The three replacement configurations and `cleanup` do not check deadlock: the pool
of ids, or the number of updates, runs out. The execution runs and
`cleanup_retention` check it.

The bounds of `components` are in `MCComponents.cfg`, module by module. They are
the smallest for which every property has been seen to fail when the code behind
it is changed (one change or more is recorded for each): two stacks, links, jobs,
clients, requests or sessions, so that two of them meet; three to five requests or
outside events; a limit of one or two where the code has a table, a queue, a
history or a retention (10 backups, 100 webhooks, 250 rows, 256 tags), so that the
limit is reached. A few modules were explored with more as well, without a
violation: `GitAutomation` with two commits, `ComposeActions` and `Notifications`
with 3 steps, `GitRecovery` with 4, `HostRegistry` with three names. Deadlock is not checked, because the steps run out.
No fairness is assumed: the properties are about what a step may never do.

Fairness. `ContainerReplace` assumes weak fairness of each worker's steps: every
daemon call has a context with a deadline, the waits have timers, and the sweep's
listing is finite. `UpdateExecution` assumes weak fairness of the steps of a run:
the scheduled run has a two-hour context and every unit one of its own. Nothing
is assumed of operators, registry, daemon events, crashes or restarts.

What the properties are about. Most have exceptions, each a race the code does not
close, or a fault after which it cannot know; they are named here and in the
comment of the property, and everything outside them is promised:

* `ServiceKept`: after any failures and crashes every service has a container on
  the host that no update gave up on; except where the removal of its old container
  took effect and reported an error. `NoOverlap`: old and new do not run
  together, unless a rejected one could not be removed. `VerdictTrue`: after
  "rolled back", or an error that says the container was kept, it is there and,
  if it ran, runs. `BootCrashCaught`: a dropped `die` event does not let a dead
  replacement through. `UpdateTerminates`: every update ends.
* `NoRetryOfBroken`: a digest recorded as breaking a container is no target until
  an operator clears it, across policy toggles, empty listings, restores with new
  ids and restarts. `InterruptedPauses`: after an interruption, or an outcome that
  could not be stored and a restart, nothing executes before an operator resumes,
  unless `MaxRuns` executions recorded since took the open row with them.
  `StackCoherent`: with rollback on, no member stays updated beside one that
  failed; what is called rolled back or skipped has its old image or container.
  `NoPartialStack`: a blocked member holds its stack back. `RunEnds`: every run ends.
* `TypeOK` of `ImageCleanup` includes that no image in use or tagged is gone.
  `BudgetRespected`, `HistoryBounded`: refusals and rows are bounded.
  `FirstRollbackKept`: with a retention, the image replaced last is kept,
  provided it was queued once.
* `NoEditLost`: a cycle, its deployments and their rollbacks write a file only if
  it still holds what was synchronised last, or was changed after they had compared
  it: the code does not compare again when it writes. `DecisionKept`: a conflict or
  a local deletion is not painted green while it waits, unless the stack was changed
  by hand since the cycle began, or just before and not marked yet. `GitHonest`: a
  deployment shown as running runs, also after a restart; a repository that is ready
  has its credential (two races are left: its row was saved after a deletion had
  found the credential unused, or a policy request brought a deleted row back);
  ignored paths stay out until the policy changes, and the editor, the policy tree
  and the transfers agree; the archive a restore reads survives its safety backup.
* `SharedBeforeReplaced`: an import replaces only content the remote branch has
  had, unless the operator reset the repository or the file was edited after it had
  been compared. `UnreadNeverOverwritten`: content that could not be read is not
  overwritten, unless it was made, or its rights changed, after the import looked.
* `NotResurrected`: an unlinked row comes live again only by being created, or by a
  save without the lock that had looked before the unlinking, or that held a row
  which was then deleted from the table. `LinksCoherent`: the commit shortcut hides
  no stack that is polled, but for a link that was linked again or whose row an
  unlocked save replaced during a cycle; what a link deploys it polls, what it
  selects is in its catalog, and the status view says so, but for a link whose
  unlinking an unlocked save crossed.
* `DeletionSafe`: what a decision removes from one side is saved on the other or
  in a backup, but for what the host writes after the backup was made.
  `RecoveryUndoable`: what a recovery overwrites is in its safety backup.
  `ProvisionSafe`: a rolled back transaction leaves modes, owners and files as
  before, except where others wrote or a call that reported an error had changed
  something all the same; what it removes is in its place, staged or saved.
  `AcceptedIsSeen`: a push whose delivery was accepted is seen by a later
  synchronisation, unless Dockman stops or the full queue refused it.
* `NoLostSecret`: requests for different secrets lose neither, and a plain value
  that is replaced is the newest in the history, unless another request put it there
  after the backup, or a mount covered it then. `AssignHonest`: an assignment to
  many stacks leaves all changed, or all as before but for those it names, as
  stranded or as the one that failed. `RuntimeHolds`: an installation or a
  reconciliation does not take the decrypted files from a running stack, unless the
  directory of the stack could not be read; and after an installation Docker does
  not start without them when they could be materialized.
* `NothingReplacedUnseen`: a save replaces the revision its author saw, and a
  rename nothing, unless somebody wrote between the check and the write, the save
  says that it creates its file, or the rename changes the case only.
* `SerializesActions`: the refinement. `StackActionsHonest`: an update that
  reports success leaves each service of its plan on the new configuration and
  image, running unless it exited by itself; a protected update ends on a sound
  container; a capped build runs in a builder with its caps, unless the builder of an
  earlier run could not be removed; and a log reader misses no byte silently.
* `HostsSound`: one watcher per connection; links follow a rename, but for hosts
  whose row was saved by a request that had read it under another name, hosts that
  shared a name, and links whose undo failed; the last refresh request is followed
  by a refresh; one tracker reports a crash loop once per quiet period, unless it
  is over its cap.
* `ServicesHonest`: helpers are removed by their owner, unless their copy, probe or
  removal failed or Dockman stopped; a switched off pruning does not run, a closed
  session holds nothing, a followed log has no gap, and the newest version shown is
  the newest of a whole catalog.
* `NotifiedOnce`: what is remembered as told was told. `SignInFair`: live sessions
  are dropped only by sign-out or the cap, failures are forgotten only by a right
  password or time.

## Findings

Each is a run in which TLC finds a statement of the source or the documents
violated by what the code does; `PROJECT.json` quotes the lines.

1. `replace_leftover`: when the old container cannot be removed, the removal of
   the replacement is not checked and the error claims it happened.
2. `replace_sweep_race`: the sweep for interrupted replacements, run under
   another stack's lock, finishes a swap that is still in progress; the update
   then reports that manual recovery is required.
3. `execution_transient`: a failed pull of a single container arms the permanent
   breaker although the container was never touched.
4. `execution_record`: a restored stack member is recorded twice, once as rolled
   back and once as failed without an outcome.
5. `execution_superseded`: after a rollback the container is listed by image id
   and skipped as locally built, so that a superseding digest is never found.
6. `cleanup_retention`: retention is counted per service and images are shared;
   the rollback image of one service is removed on behalf of another. One service
   that returns to an earlier image loses its rollback image too, because a
   requeued row keeps its age.
7. `git_reset`: an export whose push fails leaves its commit in the clone; the
   retried export then replaces the baseline; the reset drops the commit, and the
   next import takes the host's edit, which nobody else has, for synchronised and
   overwrites it without a conflict.

## Observations

Met while modelling, each visible in the named module, and not stated as a
property because the source promises nothing else or the run would repeat one
above:

* `GitAutomation`: a stack deferred because its lock was taken is not taken up by
  the next background cycle when no new commit arrives, although
  `deployment.go:574-576` says so; the shortcut of a commit saved while a stack
  was paused marks it as up to date when it is resumed; a broken stack is
  redeployed by every cycle (`automation.go:398-401`).
* `GitAutomation`: "rolling_back" is never saved, so that a rollback that was
  interrupted ends as "failed" (`store.go:528-537`).
* `GitLinks`: two simultaneous exclusions or inclusions lose one, since neither
  takes the automation lock; refreshing the catalog may turn a selection into "all"
  without checking who owns the folder (`binding.go:739-741`).
* `GitLinks`: linking a removed link again (`RestoreBinding`, `store.go:375`) keeps
  the commit it had inspected, and enabling its automation clears that commit only
  if the polled set changes (`automation.go:99-112`, "so the newly enabled target is
  inspected on the next regular cycle"). With another selection and the automation
  enabled again, stacks that were never inspected are skipped until the branch moves.
* `GitLinks`: `SaveBinding` (`store.go:156-189`, "Refusing is the only safe answer:
  the caller is writing to something that no longer exists") looks for a row that was
  unlinked, not for one that was deleted from the table, and writes in a second
  statement. An edit of exclusions or inclusions or a first synchronization, which
  do not take the automation lock, can insert such a row again with its automation,
  undo an unlinking that came between the two statements, or undo the disabling of
  the automation it began with.
* `GitAutomation`, `GitHistory`, `GitPolicy`: an import compares
  (`binding.go:1601`) and writes (`1685`) without comparing again, and so does the
  rollback of a deployment (`deployment_rollback.go:78-112`): an edit in between is
  overwritten.
* `GitRepository`: `DeleteCredential` looks for users of the credential and deletes
  it in two statements (`service.go:374-383`), and a policy request saves the whole
  row it read (`repository.go:153-179`), which brings a row deleted meanwhile back.
  Such a row beside a new registration is not represented.
* `GitProvision`: content that is written after the backup of a removal, and was
  staged by a move that reported an error, is deleted with the staging directory by
  the rollback.
* `ContainerReplace`: a removal of the old container that takes effect and reports
  an error is followed by the removal of the replacement (`updater.go:640-648`).
* `UpdateExecution`: the retention of `execution.go:160-174` deletes open rows too,
  and with them the only trace of an outcome that could not be stored.
* `StackSecrets`: two writers of one secret both back up the value that was there
  before them (`store.go:200, 229`), so that the first of the two new values is in
  no history. A stack whose write took effect and reported an error is named only as
  the one that failed (`catalog.go:202-223`) and keeps the new value.
* `HostEvents`: a host that is toggled, renamed or reconnected gets a watcher with
  an empty tracker (`app.go:509`), which may report a crash loop again at once.
* `HostRegistry`: `Toggle` and `Edit` save whole rows they read before
  (`service.go:304-314`), so that one that crosses a rename undoes its name and
  leaves the links with the other. The links of a deleted host go on naming it.
* `BuildJobs`: both commands that remove a builder ignore their errors
  (`build_limits.go:180-185`); a builder that stays keeps its old limits.
* `GitPolicy`: an import may add a file over one that only the host ignores; an
  unreadable Compose file that is then deleted is restored by the next import.
* `GitRepository`: a stop while cloning leaves the row "cloning" for good.
* `GitRecovery`: a stop between the temporary file and its rename makes each
  retry of that restore fail on the exclusive creation.
* `GitWebhook`: the delivery id is recorded before the queue is asked, so that a
  delivery refused with 503 is answered 409 when it is sent again.
* `ComposeActions`: a selective update with orphans runs `up` on the whole project
  though its report says the rest was left alone (`update_compose.go:83-89`).
* `HostRegistry`: renaming a host to a name another one has is not refused, and
  the undo of a failed rename moves every link of that name.
* `HostRuntime`: an alias added after the installation is not watched until the
  runtime is installed again.
* `SignIn`: "a correct password clears it immediately" (`auth/throttle.go:24`), but
  during the delay the password is not looked at (`service.go:107-109`).
* `Notifications`: a channel saved while a scan is being sent gets the fingerprint
  of that scan, which the save had reset.
* `EditorFiles`: the revision is checked and the file written in two steps, and
  the answer's revision is read after the write: a writer in between is not seen.
* `FileBrowser`: a helper whose copy or probe failed is not removed, whether or not
  it could have run there (`file_browser_http.go:449-461`); nor is one whose clean-up
  command failed while the container ran (`344-351`).

## Proofs

`ContainerReplaceProofs` proves, for every set of services, ids and requests that
satisfies `ReplaceAssumption`:

* `TypeCorrect`: `Spec => []TypeOK`, which includes that no id is handed out twice;
* `ServiceNeverLost`: `Spec => []ServiceKept`;
* `NeverSideBySide`: `Spec => []NoOverlap`;
* `VerdictsStayTrue`: `Spec => []VerdictTrue`;
* `CrashesAreCaught`: `Spec => []BootCrashCaught`.

`ServiceKept` is not inductive: whether a container may be removed depends on
where the worker is, and on nobody else owning it. The invariant is
`IInv == TypeOK /\ OldInPlace /\ NewOwned /\ Kept`. `OldInPlace`: the container
being replaced stays until the replacement is accepted or given up. `NewOwned`: the
replacement belongs to one worker only, does not exist before it is created, and
is neither lost nor rejected until it is discarded. `Kept`: every service, but for
those whose old container went with a removal that reported an error (`vanished`),
has a sound container that is not the replacement of a worker still deciding about
it. The worker actions are first shown to be of a few kinds (`Quiet`, `Creates`,
`Loses` for that removal, steps that discard, remove, reject), and the invariant is
preserved by each kind; sweeps of other workers change names only, which the
invariant does not mention.

The other three need to know which containers run. The second invariant is
`HeldInv == Apart /\ HeldOwned /\ FirstOwned /\ \A s \in Services : Sound(s)`.
`Sound(s)` is what the worker of `s` knows of its two containers at each of its
steps: the old one is down from its stop to its restart, a replacement that failed
is gone or known to be left, one that crashed is down until the verdict looks at
it, the two do not run together, and what was reported is so. It stays true because
no other worker starts, stops or removes those two (`Apart`, `HeldOwned`,
`FirstOwned`); each worker action is shown to stay within what its worker holds
and to keep it sound (`Stays`).

`UpdateExecutionProofs` proves, for every host that satisfies
`ExecutionAssumption` (any members, stacks, references, policies, digests and ids;
each member is in one unit):

* `InterruptedStaysPaused`: `Spec => []InterruptedPauses`;
* `ExecutionTypeCorrect`: `Spec => []TypeOK`;
* `BrokenNotRetried`: `Spec => []NoRetryOfBroken`;
* `NoPartialGroups`: `Spec => []NoPartialStack`;
* `StacksStayCoherent`: `Spec => []StackCoherent`.

The invariant of the first is
`PauseInv == Shape /\ Alive /\ Remembered /\ Clear /\ RowsOpen`.
`InterruptedPauses` alone is not inductive, because a run that has passed the gate
and not yet begun to execute would break it (`Clear` extends it to those), and
because what keeps a run from passing the gate changes form: while Dockman is down
it is the open execution row, from the restart on the pause (`Remembered`). That
there is no run while Dockman is down (`Alive`) rules out a gate in between. An
outcome that was lost leaves its open row until the retention or the recovery at a
start takes it (`RowsOpen`). The
steps of a run are shown to be of one kind, `Goes`: they stay on their side of the
gate or pass it when there is no pause, and touch none of the other records.

The others share `ExecutionInv == TypeOK /\ BreakerInv /\ StackInv`.
`NoRetryOfBroken` speaks of targets, which come from a scan, which comes from a
listing, while ids change and breakers are stored by id. `BreakerInv` follows the
chain: the broken digest is blocked for the id the member has now (`Breaker`); a
listing or a finding that has aged is still about that container, or about one
that nothing broke (`ListedStill`, `FoundStill`, `TargetsFound`); and while the run
executes, what its end will record is under the right id (`LeftBehind`, `Booked`).
`StackInv` says that a stack outside its own transaction is untouched or done
(`WholeStacks`), and inside it which members are updated, restored and still to
come, against the order of the stack (`UnderTransaction`). Proving `Breaker`
showed that the breaker does not cover a failed replacement that stays in place,
which two digests are too few to see: the property was made precise, and
`execution_pair` now has three digests.

`ImageCleanupProofs` proves, for any keys, images, retentions and limits that
satisfy `CleanupAssumption`:

* `InUseIsKept`: `Spec => []TypeOK`, which includes that the images in use are on
  the host;
* `HistoryStaysBounded`: `Spec => []HistoryBounded`;
* `BudgetHolds`: `Spec => []BudgetRespected`;
* `FirstRollbackStays`: `Spec => []FirstRollbackKept`.

Two workers go through the table, each from a reading that ages. `TableInv`
identifies rows by their time of creation, which no two share; so a row read
earlier is the same row or one that was dropped. On top of it, `InBudget` bounds
what the automatic worker may still ask by what the row has left, and `RollbackSafe`
says that the image replaced last is the newest row of its key, is nobody else's,
and is in no worker's hands.

The proofs about the other 24 modules are in four modules, part by part; a part
uses nothing of the others. For each module they prove its type invariant, as a
theorem of its own or together with the module's property. The step bounds
(`MaxProvSteps`, `MaxNotifySteps` and so on) are constants of these theorems like
any other: they hold for every value. So do the sets of stacks, paths, requests,
clients and sessions, and the limits of tables, queues, histories and retentions,
within the `...Assumption` of each module, which TLC evaluates on `components`.

`GitRepositoriesProofs`:

* `LinksAreCoherent`: `LinksSpec => [](LinksTypeOK /\ LinksCoherent)`, and
  `LinksStayUnlinked`: `LinksSpec => NotResurrected`. Whether a row may be saved is
  decided when it is read, so `LinkInv` says the same of the rows in the table
  (`StoredOK`), of the copies that requests hold without the lock (`CopyOK`) and of
  the row a cycle works on (`CycleOK`): what it deploys it polls, what it selects is
  catalogued, and its shortcut covers what it polls (`SoundRow`). A cycle polls what
  the stored row polls, and has scanned it before it saves the shortcut. Without the
  exceptions (`blurred`, `overtaken`) this is not so: the attempt to prove it led to
  the observations on `RestoreBinding` and `SaveBinding`.
* `ReadyRepositoryHasCredential`: `RepoSpec => []ReadyHasCredential`. Not inductive:
  the credential is checked before there is a row that protects it, and between the
  clone and the row "ready" it is the clone that proves it was there (`RepoInv`). A
  row that was not saved past a deletion has none under way against its credential
  (`Undeletable`), and what a policy request has read is the row or an earlier status
  of it (`PolicyRead`).
* `ImportsReplaceShared`: `HistorySpec => SharedBeforeReplaced`, an action property.
  A baseline may be content the provider never had (an export that found nothing to
  transfer settles it on a commit whose push failed); what protects the file then is
  the local branch: it still ends in that content (`Held`) and is ahead of the
  provider, so that nothing is imported (`Settled`). Between its comparison and its
  write an import replaces its baseline, unless the file was edited (`Compared`).
* `AcceptedHasItsRun`: `HookSpec => []AcceptedIsSeen`. The mark a delivery relies on
  is a handler on its way to the queue, a place in the queue, or the worker that has
  just taken it: a marked repository has one of them (`Marked`) and only one
  (`OneHolder`), since a full queue takes the mark away.
* `ProvisioningIsSafe`: `ProvSpec => []ProvisionSafe`. At each step the transaction
  remembers as changed exactly what it has changed (`DirKnown`, `MetaKnown`,
  `FileKnown`), and it saves what it found before its first change (`SavedFirst`).
  The manifest has one operation of each kind, as in the module.

`GitFilesProofs`:

* `AutomationKeepsEdits`, `DecisionsAreKept`: `AutoSpec => NoEditLost` and
  `AutoSpec => DecisionKept`, and `AutomationInFlight` for `InFlightIsRunning`. A cycle
  decides what to import at its preview, writes later, and may roll back later still;
  `AutoInv` carries what it needs from one to the next: the preview held back what
  awaits a decision, and the baseline of what is still to be deployed is what the
  import wrote, as is the file of a stack that is being restored (`CyclePlan`); what
  is still to be written is as the comparison found it, unless it was edited since
  (`WritePlan`); a file whose edit is not marked yet is absent only where
  the baseline is (`EditMarks`); and after an import that held nothing back no
  untouched row awaits a decision the two sides still disagree on (`Decided`). The
  two action properties are proved together with the invariant, action by action
  (`AutoStep`).
* `UnreadIsKept`: `PolicySpec => UnreadNeverOverwritten`, and `IgnoredIsHonest`:
  `PolicySpec => [](PolicyTypeOK /\ PolicyHonest)`. What was deleted while it was held
  out is still held out (`GoneIsHeld`); what the import in progress will write is
  neither held out nor, unless it changed since the import looked, unreadable
  (`TransferSafe`); the agreement of picker, badges and transfer
  is a fact about the three operators, proved from their definitions.
* `DeletionsAreSafe`: `DelSpec => DeletionSafe`. Between its second snapshot and the
  removal a decision holds a backup of what the host has, but for what was written
  since (`DelSaved`), and the branch it pushes to holds its baseline (`DelAgreed`).
* `RecoveriesAreUndoable`: `RecSpec => RecoveryUndoable`, and `RestoreKeepsItsSource`
  for `SourceKept`. Until a file is written it is as the safety backup has it, or torn
  (`RecSafety`). That the safety backup does not push its source out is a fact about
  the retention: of a set of rows, those with less than n newer ones are at most n.

`StackProofs`:

* `LocksTypeCorrect`: `LockSpec => []LockTypeOK`, and `StackLocksRefine`:
  `LockSpec => SerializesActions`, the refinement of `StackMutex`, for every finite set
  of actors, any keys, and any finite set of object identities larger than the set of
  actors. Mutual exclusion per key does not follow from the mutex of an object, since
  objects come and go. The invariant is `LockInv`: an actor that refers to an object
  refers to the one the table has for its key (`RefsInTable`); the counter of an object
  is the number of actors that refer to it (`Counted`), so that the entry is removed
  by the last of them only; different keys have different objects (`LocksDistinct`);
  the object of a holder is locked, and has no other holder (`LocksTaken`).
* `ComposeIsHonest`: `ComposeSpec => []ComposeHonest`. Every service with a
  declaration in the manifest that was read is in one of the two groups of the plan,
  and what either has done runs as that manifest declares (`UpdateWork`);
  `HelperWork` says the same of each step of the helper's script.
* `BuildsAreHonest`: `BuildSpec => []BuildHonest`. The job that has the turn is at one
  of three places, and between removing the builder and creating it there is none,
  unless the removal failed (`TurnHeld`); a log is the end of what was written (`LogKept`), and a reader's offset
  is within it (`ReaderFollows`).
* `AssignmentsAreHonest`: `SecSpec => [](SecTypeOK /\ AssignHonest)`, and
  `SecretsAreKept`: `SecSpec => NoLostSecret`. `SecInv` says for each step of a request
  what it holds while it has the mutex (`SecHeld`), and for an assignment at its k-th
  stack which stacks have the value and which are as before, are stranded or failed
  (`AssignState`). A plain value that a writer has backed up is the newest version of
  its history while it is there (`Covered`), although no lock joins the backup to the
  replacement.
* `EditorReplacesOnlySeen`: `FileSpec => NothingReplacedUnseen`. What a request found
  at its check is still so unless it was overtaken (`FileChecked`), and the revision a
  session holds is one it was handed (`FileHanded`).

`ServicesProofs`:

* `RuntimeIsSafe`: `RuntimeSpec => RuntimeHolds`. Past the step that removes the units
  of former installations none comes back (`NoStaleLeft`), and during a boot nothing
  takes away what the main unit materialized (`BootKeeps`).
* `HostsAreCoherent`: `HostSpec => []HostsCoherent`. Generations identify watchers, so
  that the one that ends cannot unregister another (`WatchersAreTheirs`). Several
  operators' requests are under way at once; for a host that none of them led astray
  (`hLostTrack`), the links have the new name exactly while a rename of that host is
  between the links and the row, and only one can be (`LinksTold`).
* `EventsAreHonest`: `EventSpec => []EventsHonest`. What the watcher has still to hear,
  the timer to trigger, a refresh to read, and a refresh that read the present labels
  are the four ways in which jobs that are out of date are made anew (`LabelsFollow`);
  what the present watcher reported within the quiet period is in its tracker, which
  forgets only what it has not seen for longer (`LoopsQuiet`).
* `SignInIsFair`: `SignInSpec => SignInFair`. Rows have ids of their own
  (`SessionRows`), so that the rows a login keeps are counted by their rank; the type
  theorem counts the failures and sessions together with the calls that are pending
  (`CallsPending`).
* `AnnouncedOnce`: `NotifySpec => []NotifiedOnce`. The fingerprints a scan carries
  between its two transactions have been told as well (`ScanTold`), and a migrated
  channel is one the migration finds when it starts over (`LegacySmtp`, `MovedFound`).
  Nothing depends on the number of channels: the rows are finitely many (`Tabled`).
* `HelpersAreOwned`: `BrowserSpec => []HelperOwned`. A binary that can execute belongs
  to the one request that runs it or is about to remove it, or was excused because its
  copy, its probe or its removal failed or a stop came first (`Owned`).
* `OffStaysOff`, `SessionsAreSafe`: `PruneSpec => [](PruneTypeOK /\ OffMeansOff)`,
  `LiveSpec => []SessionsSafe`. The row says off whenever an operator was told so
  (`PruneInv`); what a session holds follows from its step (`Released`).
* `LogIsContiguous`: `LogSpec => []LogContiguous`. The reader's mark is the last line
  that went through, and each later stream starts right after it (`Resumes`).
* `CatalogsAreWhole`: `VersionSpec => []CatalogWhole`. The one scan that reads has
  exactly the pages it has counted, and those that wait began no later than the
  reading may take (`Leading`); what is kept begins the registry's list (`Kept`).
* `NewestIsFound`: `ASSUME SemanticOrder PROVE VersionSpec => []NewestShown`, by
  induction over the catalog: what the pass has kept after n tags is the newest of
  those it has seen that fit. The induction is by a least counterexample, since the
  library's induction theorems cannot be instantiated here. `SemanticOrder` says that
  `compareSemanticTag` gives the catalog a strict order; it is a hypothesis because
  the comparison is a fact about the tags of a catalog. It holds of the catalog of
  `components`, where `ServicesHonest` checks the same without the hypothesis.

`ComponentProofs` is about `MCComponents`, the composition that is run. One lemma
per component (`AutomationAlone`, `LinksAlone`, ...) says that a behaviour of the
composition is a behaviour of the component, since the others do not touch its
variables. From these and the theorems above: `ComponentsAreTyped`
(`ComponentsSpec => []ComponentsTypeOK`), `GitIsHonest`, `StackActionsAreHonest`,
`HostsAreSound`, and `ServicesAreHonest` under `SemanticOrder`.

Only model-checked: liveness (`UpdateTerminates`, `RunEnds`), which is out of the
prover's reach, and that `compareSemanticTag` orders the tags of a catalog. The
seven runs that expect a violation state what does not hold. The operators of
`GitPreview` are used in the proofs through their definitions and have no theorem
of their own.

## What is not modelled

* Self update (`docker/selfupdate.go`): the process that starts it is replaced by
  it, and what goes on is a helper container running a script.
* The image, network and volume services and handlers, the statistics cache,
  command lines, path resolution, file systems, SSH keys, views, the language
  server proxy, settings, the desktop tray: one call of a library or a daemon
  each, or no state of their own. The topological order of a stack update is a
  constant of `UpdateExecution`.
* Generated RPC code and the user interface.
* Within the modelled parts: logs, messages, progress reports, stored scan rows,
  signatures and encryption beyond their result, the Git protocol, the syntax of
  manifests, and the label, self-protection and Docker-socket guards beyond their
  result: the target is held back. External software (Docker, systemd, Git, the
  registry, SMTP) does what its interface says, may fail at each call, and may be
  changed by others in between.
