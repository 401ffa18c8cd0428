# A verification project for the wayfinding sign workbench

The program is a single-process Go web service. A designer freezes a survey of
a building (nodes, one-way edges, entrances, destinations), saves a plan of
signs, lets rules check it, answers the issues with evidence, a reviewer walks
the route, and the approved result is frozen as an installation package that
can be verified later. State is one file per project, with the records of
its answered requests, one event file per project and one file per package.

The TLA+ here is translated from the Go source (`src/`); line references in the
modules are to those files.

## 1. Inventory

| component | source | state it keeps | operations |
|---|---|---|---|
| survey and sign rules | `internal/domain/{preflight,signs,rules,impact,types}.go` | none (pure) | `PreflightBaseline`, `NormalizeSigns`, `PreflightSigns`, `ChangedSignScope`, `ValidateRules`, `Reachable`, `deterministicPath`, `AnalyzeIssueImpact`, `QueryIssues` |
| project life cycle | `internal/domain/{types,rules,walkthrough,package}.go`, `internal/application/{project_ops,review_ops}.go` | `LayoutProject` | `CreateProject`, `FreezeBaseline`, `ReplaceSigns`, `Validate`, `ResolveIssue`, `Reverify`, `Walkthrough`, `FreezePackage` and three read-only preflights |
| project locks | `internal/application/coordinator.go` | map of reference-counted mutexes | `Lock`, the returned unlock, `Active` |
| command pipeline | `internal/application/{service,ports,commands}.go` | idempotency records (in the store) | `execute`, `replay`, `persistFailure` |
| file store | `internal/store/*.go` | project envelopes, request records, event frames, package files, a store-wide mutex | `Open`, `LoadProject`, `ListProjects`, `Commit`, `SaveRequest`, `FindRequest`, `SavePackage`, `LoadPackage`, `Events`, `Verify` |
| queries and deep verification | `internal/application/service.go`, `internal/domain/package.go` | none | `GetProjectFiltered`, `ListProjects`, `VerifyPackageDeep`, the download |
| HTTP interface | `internal/httpui/*.go` | none | one handler per command and query |
| browser workbench | `internal/httpui/web/*` | `state.project`, `state.signs`, `state.approval`, the input fields | loads, previews and preflights, and the commands, with the revision of the project it shows |
| program start and self test | `cmd/wayfinding/*.go` | none | flags, listening address, shutdown, a scripted client |

How they interact. A handler decodes a request and calls one `Service` method.
Every method that changes something goes through `execute`: take the lock of
the project, look for a record of the request, load the project, compare
revisions, run the command's mutation on a copy, and commit copy, record and
event together. The mutation of `FreezePackage` also calls the repository (it
writes the package file). `CreateProject` repeats the same steps by hand. The
queries take no project lock.

What is hard, and what makes each component correct:

* **Life cycle.** About a dozen fields (`status`, two sign revisions, the
  validation moment, issues with evidence histories, rounds, route, remediated
  checkpoints) are updated by eight commands, each of which updates some of
  them; three of the commands are allowed in several statuses and one
  (`Validate`) in all but the last. The long command sequences matter: edit,
  resolve, edit, reverify, walk, fail, remediate, validate again. Correct means:
  what is walked and approved is exactly what the rules last passed; an issue is
  closed only on evidence that is still about the current signs; each round
  after a failed one visits what failed, on later signs; nothing changes behind
  the reviewer; what was frozen verifies.
* **Locks.** Entries are created and deleted on demand. Between the look-up of
  an entry and the acquisition of its mutex, the last user may leave. Correct
  means: one project, one mutex; every waiter is served; the table drains.
* **Pipeline.** Retries of lost answers, at-most-once, revision conflicts,
  failures that are recorded for ever. Correct means: a request is applied at
  most once, whatever is repeated, and repeated requests get the same answer.
* **File store.** One command writes two or three files one after the other.
  Correct means: after a crash between any two writes the store opens, and
  project, records, events and packages agree, now or after a retry.
* **Deep verification.** Reads project, package and events one after the other,
  without the project lock. Correct means: what it reports valid is consistent,
  although it saw three moments; what was frozen and answered is reported valid.
* **Browser workbench.** Every call is asynchronous; its answer may find the
  window on another project, at another revision or with another text. Correct
  means: commands act on what the user saw when clicking; what is saved was
  previewed; what is frozen was shown in an approval preflight.

The list of hazards, each at its line and with the properties that watch it, is
in `PROJECT.json`.

## 2. Modules

| module | role |
|---|---|
| `SurveyRules` | the pure operators of `internal/domain`: preflights, sign diff, rules |
| `SurveySearch` | the two breadth-first loops and the impact of an issue; `EXTENDS SurveyRules` |
| `SurveySearchProofs` | theorems about those loops, by induction over their turns |
| `ReleaseGate` | the life of one project: `LayoutProject` as variables, one action per accepted command; `EXTENDS SurveySearch` |
| `ReleasePromise` | abstract specification: a plan is edited, then walked, then released |
| `ReleaseGateProofs` | theorems about `ReleaseGate`, refinement of `ReleasePromise` included |
| `MCReleaseGate` | surveys and sign plans for TLC |
| `Coordinator` | the lock table at the grain of its critical sections |
| `ProjectLock` | abstract specification: one lasting, fair mutex per project |
| `CoordinatorProofs` | theorems about `Coordinator`, refinement of `ProjectLock` included |
| `CommandPipeline` | handlers that carry out commands on one project, from the lock to the answer, with the store's files and everything that may fail |
| `RequestLedger` | abstract specification: one lasting answer per request |
| `MCCommandPipeline` | commands for TLC |
| `CommandPipelineProofs` | theorems about `CommandPipeline`, refinement of `RequestLedger` included |
| `FileStore` | the calls of the store that write, one step per file operation, with errors, kills, power failures and starts |
| `AtomicStore` | abstract specification: values replaced in whole, durable once answered |
| `MCFileStore` | symmetry for TLC |
| `FileStoreProofs` | theorems about `FileStore`, refinement of `AtomicStore` included |
| `VerifyDeep` | the reads of a deep verification and the download, composed with `FileStore` |
| `MCVerifyDeep` | symmetry for TLC |
| `VerifyDeepProofs` | theorems about `VerifyDeep`, on top of those about `FileStore` |
| `Workbench` | browser windows, their calls under way, the service and other clients |
| `MCWorkbench` | projects and plans for TLC |
| `WorkbenchProofs` | theorems about `Workbench` |

How they fit together. `ReleaseGate` says what a command does, `Coordinator` that
commands on one project never overlap, `CommandPipeline` how a command gets from
the lock to the answer, `FileStore` what its calls on the repository do to the
disk, `VerifyDeep` what a reader sees of that, `Workbench` what a user sees.
`CommandPipeline` takes the lock as `ProjectLock` describes it.

`ReleaseGate` takes a command to be one step because commands on one project
never overlap; that is what `Coordinator` shows to be so (`MutualExclusion`,
`IsProjectLock`). A command works on a copy that is committed at the end, so a
refused command changes nothing and is a stuttering step.

### State and actions of `ReleaseGate`

| variable | field of `LayoutProject` |
|---|---|
| `status` | `status`; `"absent"` before `CreateProject` |
| `designer`, `reviewer` | `designer_id`, `reviewer_id` |
| `survey`, `signs` | `survey`, `signs` (a set: ids are unique and the list is sorted by id) |
| `signsRevision`, `validatedSignsRevision` | the fields of these names |
| `validatedAt` | `last_validated_at`: a moment, or `NoMoment` before the first `Validate` |
| `issues` | `issues`, as a list per issue id (an id is made of rule and node, and two issues *can* share one) |
| `walkthroughs` | `walkthroughs`; of a checkpoint its node and whether it failed |
| `walkthroughRoute`, `walkthroughRemediated` | `walkthrough_route`, `walkthrough_remediated_checkpoint_ids` |
| `package` | `package` |

Each action is the whole `mutate` function of a command, with the calls it
makes: `ReplaceSigns` fills up legacy signs, checks the batch, invalidates the
evidence of affected issues, marks checkpoints as remediated and leaves
`walkthrough_failed`; `Validate` merges the issues and sets the route;
`FreezePackage` compares digests before and after signing, and so on.
`Transition` is the code's table of allowed statuses.

Abstractions: texts are tokens up to case and white space; a digest of content
is the content; names, reasons, notes, messages and moments are left out, but for
that of the last validation, which is part of the content and of its digest
(`Validate` takes any moment, so also the one that is there: the code's clock may
stand still between two validations); `issue_summary`
and `revision` are left out (the first is computed from `issues`; the second
belongs to the pipeline). The order of issues with equal ids is that of a stable sort:
`sort.Slice` is one for up to twelve elements, the surveys here give fewer.
Routes are sets, since no check depends on their order beyond equality with the
expected route. An issue is `[status, history]`: it has a resolution text
exactly when it has an evidence version, because `AppendResolution` sets both.

`ReleasePromise` knows no statuses, issues, evidence or validations: a survey, a
plan, who walked it, what has not passed yet, which of those places no edit
touched since they failed, and what is released. A place is walked again only
after an edit touched it; an edit that was taken back later did touch it, as in the
code (`MarkWalkthroughRemediation` adds to the checkpoints that were remediated and
removes none). The mapping takes `phase` from `status` (all
that is neither walked, approved nor frozen is editing), `walker` and `toPass`
from the last round, `untouched` from its failed checkpoints and
`walkthroughRemediated`, `released` from the package; `Touches` are the nodes
and destinations of `ChangedSignScope`. `Validate` and `Reverify` are `Offer` where they reach
`ready_for_walkthrough` and a stutter elsewhere; `ReplaceSigns` and the signs of
`ResolveIssue` are `Edit`.

### State and actions of `Coordinator`

`locks`, `refs` and `mu` are the table and the fields of its entries, `pc`, `id`
and `e` where a command is and what its closure captured. `Enter` is `Lock` up
to `c.mu.Unlock()`, `Acquire` the return of `e.mu.Lock()`, `Release` the
`e.mu.Unlock()` of the deferred function, `Leave` the rest of it. Sections under
`c.mu` are single steps, as nothing in them waits. Entries are addresses; a new
entry may get any address no command holds, as a garbage collector would hand
it out, and starts unlocked with count 0.

`ProjectLock` knows no table: per project a set of waiting commands and a
holder. The mapping takes `waiting` from `pc` and `id`, and `holder` from the
mutex of the entry in the table, if there is one.

### State and actions of `CommandPipeline`

One project, any number of handlers. A step is what `execute` or `CreateProject`
does between two points where another handler, the client or a crash can
interfere: the return of `Lock`, and the calls on the repository.

| variable | code |
|---|---|
| `project`, `records` | the envelope file: `Project` and `Requests` of `projectEnvelope` |
| `events` | the event file; of an event its revision |
| `packages` | the package files, named by digest; of a package its content and `frozen_at` |
| `holder` | who holds the lock of the project; `Acquire` is the grant of `ProjectLock` |
| `pc`, `command`, `copy`, `answer` | where a handler is, its command, the clone `cp`, and what it will return |
| `cancelled` | the context of the request is cancelled (the client went away) |
| `told` | the acceptances that clients received |
| `moments`, `failures` | the clock as far as `frozen_at` needs it; the bound |

`Replay`, `Create`, `Load`, `Refuse`, `Mutate`, `FreezePackage`, `PersistFailure`,
`Commit`, `AppendEvent` and `Respond` follow the source in order. `Commit` is the
part up to the renamed envelope, `AppendEvent` the rest, so a crash or an error
may come between. A call on the repository fails when the context is cancelled,
and may fail otherwise; `Commit` and `SaveRequest` may also report an error
after the new envelope is visible (`atomic.go`, the sync of the directory).
`Crash` clears handlers and lock and keeps the files.

Abstractions: what a mutation does is left to `ReleaseGate`; here it is refused or
accepted, and the content of a project is the list of the commands that made
it. The statuses between baseline and frozen package are one, `"working"`. A
fingerprint is the command itself, at the moment it is taken: `FreezeBaseline`
normalises the survey of its command in place, so the command a record keeps is
the normalised one (`AfterMutation`). Which error a mutation returned is not
kept (`"refused"`). Requests that `meta.validate` turns away change nothing and
are left out, and so is a second project: locks and files are per project.

### State and actions of `SurveySearch`

`ReachStep` and `SearchStep` are one turn of the loops of `Reachable` and
`deterministicPath`: the queue, the nodes seen and, for the second, the path
found. `ReachRun` and `SearchRun` give the state after each number of turns;
entrances and edges together, and nodes, are turns enough to end the first and
the second loop. `AnalyzeIssueImpact` puts two paths together for every pair of
entrance and destination. The neighbours of a node are a set, listed in one
order (`SetToSeq`): the sort of the code decides which shortest path is found,
which nothing here depends on.

### State and actions of `FileStore`

| variable | code |
|---|---|
| `envelopes`, `envelopesOnDisk` | `projects/<id>.json` as readers see it; the contents a power failure may leave under that name |
| `leftovers`, `temp` | pending files: of calls that ended in a crash or could not remove theirs, and of the call at work |
| `frames`, `framesSynced`, `framesListed` | `events/<id>.frames`, of a frame whether it has its newline (`ended`); how many of its frames are synced, whether its name is known to be on the disk |
| `packages`, `packagesOnDisk`, `packagesSynced` | `packages/<digest>.json`, likewise; of a package its project, content, `source_revision` and `frozen_at` |
| `running` | the service has the store open |
| `work`, `step` | the call that holds the mutex of the store, and its next file operation |
| `approved` | packages saved by freezes that did not commit yet |
| `calls`, `errors`, `kills`, `powerFailures` | bounds; `calls` is the clock of `frozen_at` too |
| `unremoved` | errors after which the file of the call stayed because its removal failed too, which the code does not report |
| `answered`, `cutOff`, `vanished` | what the properties speak of: last revision answered, appends not completed, event files that a power failure took |

`CommitEdit`, `CommitFreeze`, `SaveRequest` and `SavePackage` begin a call. `CreateTemp`,
`WriteTemp`, `SyncTemp`, `RenameTemp`, `SyncProjects` are `atomicJSON`, `WriteFrame`
and `SyncFrame` the append of an event, `OpenPackage` to `SyncPackages` the rest
of `SavePackage`; each may fail as the code lets it fail and clean up as the code
does, or fail in that too (`Fail`). An append that fails or is interrupted leaves
a part of its frame, or all of it but the newline (`AppendCut`). `Kill` ends the process and keeps everything written. `PowerFailure` picks
for every file one of the contents it may have: what is written and not synced
may be torn; what is created, renamed or removed may be undone until its
directory is synced; the directory of the event files is never synced by the
code. `Start` is `Open`, which refuses a store with an unreadable event file.

Abstractions: a content is its digest; an event's digest is its revision; the
records of an envelope are counted. A frame is there, there without its newline,
torn or not there. One without its newline reads well until the next frame comes
to stand on the same line (`Joined`). A disk keeps what was synced; a failed sync leaves things open.

### State and actions of `VerifyDeep`

It adds to `FileStore` a verification with its query (a project or a package),
what it has read and its verdict. `ReadProject`, `ReadPackage`, `ReadOwner` and
`ReadEvents` are the reads of `VerifyPackageDeep` in their order; each happens while
no call that writes is at work, since the store's mutex is a read-write lock;
between them everything of `FileStore` may happen. `LoadPackage` goes through the
files in the order of their digests, as the code does, and fails at the first
it cannot read. `Business` has the checks of `VerifyPackageContent` on the package
and the project that was read: project, source revision, content, moment and
status; `EventChain` those on the event. The structure checks, and the signer, are
in `ReleaseGate` (`FreezeThenVerify`).

### State and actions of `Workbench`

| variable | code |
|---|---|
| `project` | the projects of the service: status, revision, signs |
| `state` | of each window `state.project`, `state.signs`, `state.approval` and the field of the signs |
| `requests`, `answers` | calls of `fetch` under way, as sets: any order, any loss |
| `previewed`, `shown` | what a window showed its user: plans previewed without errors, preflights without blockers |
| `commands` | the bound |

The user's actions are the click handlers of `app.js`; the handlers of the service
take a request and leave an answer; `LoadProject` to `ShowApproval` are what the
continuations of the calls do. A request keeps the `view`, the project the window
showed at the click: `meta()` takes the expected revision from it, the properties
compare it with what the command meets. `mutate` goes on after its answer with the
list and then with the project the window shows *by then* (`AfterMutation`,
`AfterList`). `Fail` stands for refusals, lost requests and lost answers, which are
all a toast to the window. `OtherClient` stands for other windows and programs.

Abstractions: the three statuses that take signs are one; a candidate is known by
project and revision, which is exact while a project waits for its approval (the
comment at `PreflightApproval` says why); the reviewer of a window is the one that
`render` fills in. Resolutions carry the field of the signs, unpreviewed, as the
code does. A connection number makes equal requests distinct.

## 3. Runs

Passing runs:

| run | configuration | what it shows |
|---|---|---|
| `path` | `MCPath.cfg`, survey E -> J -> D, 4 sign revisions, 2 evidence versions, 4 rounds, 2 moments; and baselines of every shape, well formed and not, most of which are refused | types; what each status stands for; rounds answer failures; every node passed when approved; a frozen package has no structure finding, nor one on signer, content and status; after a passed walkthrough nothing changes but the moment of a validation; the preflight lets no baseline through that breaks a rule signs cannot repair; on every accepted baseline both breadth-first loops agree with reachability, and paths are shortest; refinement of `ReleasePromise` |
| `branch` | `MCBranch.cfg`, a decision point with two destinations, signs that repeat a text, 3 / 2 / 2 / 1 | what is reviewed is clean; resolved means current evidence; a missing-sign rule never fires behind a resolved issue; evidence is a trail |
| `locks` | `Coordinator.cfg`, 3 commands, 2 projects, 3 entries | the table is exact; exclusion; who waits, waits for one that works; every waiter runs; refinement of `ProjectLock` with its fairness; no deadlock |
| `commands` | `MCCommands.cfg`, 2 handlers, 6 commands under 4 request ids, 2 failures | each request is applied once, to the revision it was sent for; what clients were told is stored; events follow revisions; a frozen project has its package; refinement of `RequestLedger`; every command ends; no deadlock |
| `files` | `MCFiles.cfg`, 2 projects, 3 digests, 4 commands, one failing operation, one kill, one power failure | no envelope is ever torn; events follow envelopes; event files are readable but for an append that was cut off; what was answered has its event, and a reader gets to it but for a joined line; a frozen project has its package; the list of projects works; refinement of `AtomicStore` |
| `verify` | `MCVerify.cfg`, 2 projects, 2 digests, 4 commands, one failing operation, one kill | what is reported valid is consistent; what was frozen and answered is reported valid |
| `workbench` | `MCWorkbench.cfg`, a window, 2 projects, 2 plans, 2 commands, 2 calls under way | commands act on what was shown; what is frozen was shown; what is saved was previewed; no deadlock |

Bounds of `ReleaseGate`. The counters are unbounded in the code; guards stop them
at `MaxSignsRevision`, `MaxEvidence` and `MaxRounds`. Four rounds give a failed
round that answers a failed one that answers a failed one, with a last passed
round, and each of the three needs its own later sign revision. Two evidence
versions are the least with a version that is not the latest. A new version or
revision never looks further back than the latest. Two moments are a validation
that changes the moment and one that does not; no check compares moments
otherwise, so `branch` has one. Sign plans contain each
single sign, both, none, the form of the old protocol and a batch with one bad
sign, so that each command that takes signs has cases it accepts and refuses;
the branch survey adds equal texts, where the rule depends on two signs at
different nodes. Two people suffice, as a command compares its actor with the
designer and the reviewer only, and they are symmetric. These runs do not check
deadlock: a project may stop for good, be it frozen.

Bounds of `Coordinator`. Three commands give a leaver, a newcomer and a waiter on
one entry while another project is in use; an entry off the free list is always
in use, so as many entries as commands are enough.

Bounds of `CommandPipeline`. Two handlers give every overlap of two commands, and
a third could only wait for the lock as well. The six commands are a creation
with the right and with a wrong revision under one request id, a baseline with an
unsorted survey, an edit and a freeze for the same revision, and an edit for
the next one under the request id of the first edit, which may find the project
frozen. Each may be sent any number of times. `MaxFailures` counts cancellations,
failing calls and crashes together; two of them give a failure during the retry
of what failed before.

Bounds of `FileStore` and `VerifyDeep`. Four commands are a creation, an edit, a
freeze (which counts once, at its `SavePackage`) and one more: a failure to record,
a retry of the freeze, or a command on the other project, whose directory syncs
settle the names of the first. One error, one kill and one power failure in any
order give a failed freeze, a restart and a power failure after it. Three digests
allow a content replaced and another project beside it. One error is one failed
operation, with or without the removal of its file. In `verify` there is no
power failure: it ends every verification under way, and what is left is in
`files`. Both runs do not check deadlock: the commands are counted, and a store
with a torn event file never opens again.

Bounds of `Workbench`. Two calls under way are one late answer beside whatever the
user does next, or two answers in the wrong order. Two commands are one that
makes what is shown stale and one that acts on it. `OtherClient` does what other
windows could do to a window, so one window is enough for its own promises. Two
projects and two plans are the least that can be confused; the plan `Short` is
faulty for one project only. The projects start before any signs, ready to be
walked, or walked, so that two commands reach every status.

Fairness is assumed of `Coordinator` and `CommandPipeline`. `Acquire` is strongly
fair: a waiter sees the mutex free only now and then, and Go's `sync.Mutex` puts a
waiter of more than a millisecond first in line. `Release` and `Leave` are weakly
fair: every mutation returns, the unlock is deferred, and `c.mu` is never held
across a wait. `Enter` is not fair: nobody has to send a command. In
`CommandPipeline` `Acquire` has the fairness `ProjectLock` provides, and a handler
that holds the lock goes on (weak fairness of `Run`), as none of its calls waits
for another handler; `Receive`, `Cancel` and `Crash` are not fair. The other modules
have no liveness property: people owe the project no command, a store no disk
operation that succeeds, and a browser gets no answer for sure.

Runs that end in a violation: each checks one sentence of a document, a comment
or a test that the code does not keep.

| run | sentence | what happens |
|---|---|---|
| `stuck` | "没有关联标识整改时不得取得定向复验资格" (`service_test.go:143`) | after a failed walkthrough, saving the *same* signs leaves `walkthrough_failed` for `needs_remediation`; `Validate` goes on to `ready_for_walkthrough`, where the targeted round is refused (no checkpoint was remediated) and so is every edit: the project is stuck |
| `porch_answered` | "规则通过且证据完整后应关闭" (`rules_test.go:47`) | two entrances lead to one node: two issues with one id; evidence goes to the first only, and the second never closes |
| `resend` | "同一 `request_id` 改变请求内容返回 `idempotency_conflict`" (`README.md:49`) | a baseline with an unsorted survey is recorded under the fingerprint of the sorted one; the same request, sent again unchanged, is answered with a conflict |
| `refrozen` | the deep verification of a frozen project passes (`service_test.go:75`) | a freeze writes its package and its commit does not happen (crash, error, cancelled request); the retry keeps the package file and stores another `frozen_at` in the project, which the deep verification compares (`package.go:195`) |
| `download` | "项目冻结后只允许读取时间线、下载安装包" (`README.md:49`) | a freeze fails after writing its package; after a change the project is frozen with another one; the download by project id gives the file that sorts first, be it the leftover |

Where properties hold only in part:

* `EvidenceIsATrail` excepts a validation of issues that share an id, as those of
  two entrances to one node do: it copies the empty history of the last of them
  over the first. Every other command, and every validation of a single issue,
  keeps the trail, on every survey.
* `ApprovalKeepsContent` leaves out the moment of a validation: `Validate` is
  accepted between the passed walkthrough and the freeze, and changes it, so that
  a preflight shown before no longer names the candidate. All else stays.
* `IsReleasePromise` asks that an edit touched a place that failed before it is
  walked again, not that the plan is another one: an edit may be taken back.
* `AnsweredFreezeIsValid` asks for `packages[seen.content] = seen.package`, which
  leaves out what `refrozen` shows; for a process that never ended and failed calls
  that removed their files, since a torn package file or event file makes
  verifications fail; and for no two events on one line.
* `FrozenHasPackage` leaves out behaviours with a power failure after a kill or a
  failed removal: a retry keeps the package file those left, and it is not synced.
* `ListShowsProjects` leaves out behaviours with a crash or a failed removal: their
  pending files match the pattern of `ListProjects`.
* `AnsweredHasEvent` leaves out event files that a power failure took, as their
  directory is never synced; and where the append before was cut right before its
  newline, the event is there, whole, on a line that no reader accepts. (The
  append that failed left a line that reads well, so the next one succeeds and is
  answered; after it the timeline fails, as after a torn line, and so does `Open`.)
* `PreviewBeforeSave` is about the text: the preview names neither project nor
  revision, and the service checks the signs again.

Every property of a passing run has a mutant in `PROJECT.json`: a small change
to a definition that the run must refute. The mutated forms stand before the
definition they replace, under a comment that says what they drop.

## 4. Proofs

TLC checks the instances above. TLAPS checks the following for every set of
nodes, surveys, plans, people, commands, projects, digests and windows, and for
every value of the bounds; the assumptions used are the `ASSUME`s of the modules:
sentinels are not members of the sets they stand beside, surveys and plans have
their types, flags are a map, bounds are natural numbers, `Commands` is finite,
digests are ordered as numbers (`VerifyDeep` only).

`SurveySearchProofs`, for every survey. The library's induction theorems take a
predicate, which the provers cannot instantiate; a set of numbers can be
instantiated, and that it has a least element (`Smallest`) follows from the
theorem on well-founded orderings of finite sets. From it come induction
(`InductionOnSets`) and that the recursive functions of the two loops exist and
step as they are written (`Iteration`).

* `ReachableLoop`: `ReachInv` says that every node that the entrances or a node seen
  lead to is seen or queued, and that whatever is seen or queued is reachable. `ReachLeft`, the
  queue and the edges of the nodes not yet seen, goes down at every turn. So the
  queue empties within `Len(entranceIDs) + Len(edges)` turns, and what was seen is
  closed.
* `PathLoop`: `SearchInv` says that the queue holds shortest walks in the order of
  their length; that a place seen that none of them ends at is not the one looked
  for, and all it leads to was seen; and that everything nearer than the end of
  the head was seen. `SearchLeft` counts the nodes that are not seen and the paths
  in the queue. So an empty queue means that there is no path, and the path
  found is as short as any.
* `ImpactLoop` puts the two paths together and gets `ImpactDestinations`.

`ReleaseGateProofs`:

* `TypeCorrect`, `ProgressMatches`. `TypeOK` is not inductive alone: that a
  route consists of nodes needs a survey, and that there is one follows from the
  status. `TypeOK /\ StatusMatchesProgress` is inductive.
* `EvidenceBehindResolution` (`ResolvedHasCurrentEvidence`): the lemmas on the
  four operations on issue tables say what each does to a resolved issue.
* `ResolvedStaysSatisfied` (`ResolvedNodeRuleQuiet`): an edit makes a missing-sign
  rule fire only at a node it changes (`NodeRuleBreaks`), and so takes the evidence
  of the issue there. `QuietInv` adds that evidence is current and that there are
  no issues before there is a baseline.
* `CleanFromWalkthroughOn` (`ReadyImpliesClean`). The two ways in are `Validate`
  and `Reverify`; after both, every rule that fires has an open issue
  (`MergeFacts`, `ReverifyFacts`), so no open issue means a clean plan. Signs
  are there because an empty plan always breaks `CONTINUITY` when the survey has
  a destination (`NoSignsFires`, the step that needs the reachability check of
  the preflight).
* `RepairableWithSigns` (`BaselineRulesQuiet`): from the preflight.
* `RoundsInOrder`, `ApprovedIsWalked`. The properties are strengthened to
  `RoundsInv`: a node that the current route leaves out already passed and was
  not visited since. Without it a targeted round says nothing of the other nodes.
* `FrozenVerifies` (`FreezeThenVerify`): `PackageInv` keeps that a package is the
  signed content of its project, the other theorems give the structure checks:
  complete signs, issues resolved on evidence, a last round that passed. Project,
  source revision and `frozen_at` are compared between files, which
  `AnsweredFreezeVerifies` is about.
* `ContentSettled` (`ApprovalKeepsContent`), an action property: in a clean
  project `MergeValidationIssues` is the identity, so a validation changes the moment
  only, and in `frozen` there is no validation.
* `LoopsAgree` (`ImpactIsReachability`), `PathsFound` (`PathsAreShortest`): an accepted
  baseline is a survey without repeated edges, to which the theorems on the
  loops apply.
* `TrailKept` (`EvidenceIsATrail`), an action property: each operation on the issue
  table extends every history or leaves it; the merge does where an id has one
  issue.
* `KeepsPromise` (`IsReleasePromise`): every command maps to a step of
  `ReleasePromise` or a stutter. `LastRoundInv` adds what the other invariants do
  not say: that there is a designer exactly when there is a project, and that the
  last round was walked by the reviewer of the project. `untouched` is empty when a
  round is walked, as `TargetedRemediationComplete` asks for every failed
  checkpoint; and an edit adds to `walkthroughRemediated` what it touches of them.

`CoordinatorProofs`: the inductive invariant is `TypeOK`, `TableMatchesUsers` and
`MutexInv` (the mutex of an entry in use names the command that holds it, and no
other). From it `TypeCorrect`, `TableExact`, `CommandsExclude`, `NoCircularWait`
(`WaitsForWorker`), and `ImplementsProjectLock`: every step maps to `Request`, `Grant`, `Free` or a
stutter, so `Spec => LockOf!Safe`.

`CommandPipelineProofs`, for every set of handlers, requests and commands and any
number of failures (further assumption: normalising twice is normalising once):

* `TypeCorrect`; `LockExact` (`LockIsWorkers`: the lock is with the handler that
  works, whatever return, error or crash ends its work); then the inductive invariant `IInv`. It adds to the properties
  that whoever is past the lock holds it (`LockIsWorkers`), that a handler between
  replay and commit works on a request without a record (`Fresh`), that whatever
  made the project has a record and whatever is recorded as accepted made it
  (`RecordsTrue`), and, per place in the code, how copy, command and answer
  relate to the project (`WorkInv`). The lock is what makes these last: while
  one handler is inside, the others wait (`OthersWait`).
* `RequestsApplyOnce`, `AcceptancesStay`: from `IInv`. Only `Commit` changes the
  project, and `CommitAdds` says that it adds one command.
* `ImplementsLedger`: `PersistFailure` maps to `Refuse`, `Commit` to `Accept`, all
  else to a stutter.
* `EventsAgree`: while a handler appends, the last revision has no event yet
  (`EventsInv`). `PackageFirst`: the package is there when a frozen copy is about
  to be committed (`PackageInv`).

`FileStoreProofs`, for any number of errors, kills and power failures:

* `TypeCorrect`: `TypeOK` with what a call has at hand at each of its steps
  (`WorkInv`; in particular the pending file is complete and synced when it is
  renamed, so no envelope on the disk is torn) and with the freezes between their
  two calls (`ApprovedInv`).
* `ImplementsAtomicStore`: `StoreInv` says that what readers see may survive a
  power failure, that a call writes a successor of what is there, and that its
  event comes after the envelope is settled. `RenameTemp` maps to `Replace`,
  `SyncProjects` to `Settle`, `SyncFrame` to `Answer`, `PowerFailure` to itself.
* `EventsBehind` (`EventsFollowEnvelopes`): `EventInv` adds that a commit on its way
  carries a later revision than every event.
* `ChainsReadable`, `AnsweredKept`: `ChainInv` says that a file is whole and synced to
  its end but for the call at work or a cut-off append, which only its last frame
  (what comes before is `Front`) can show; so a power failure leaves a prefix of
  what is readable (`FrameOutcomesReadable`), and an answered event (`HasEvent`),
  being synced, stays.
* `ProjectsListed`: only a crash or a failed removal leaves a pending file
  (`NoLitter`), and neither is forgotten (`MishapsGrow`).
* `PackageKept` (`FrozenHasPackage`): `OwnInv` says whose content is whose, on the
  disk and on its way there, without which one project's failing freeze could
  remove another's package; `HeldInv` that what is frozen, or about to be, has a
  package file no one removes, and one that is synced while nothing was left
  behind unsynced (`Tidy`).

`VerifyDeepProofs`, on top of these:

* `ValidMeansConsistent` (`ValidIsConsistent`): while the process runs, a frozen
  project stays at its revision with its package (`FrozenStays`), a whole package
  file stays (`PackageStays`), the events of a frozen project stay (`EventsStay`).
  `ReaderInv` keeps that of what was read; `NameInv` (a file is named after its
  content, a project is frozen with its own package, made from the revision
  before) ties the three together.
* `AnsweredFreezeVerifies` (`AnsweredFreezeIsValid`): without crashes and failed
  removals (`Uncrashed`), an answered revision that is still the last has the last
  event, readable unless two events share a line (`AnswerInv`, `Apart`); no idle
  store has a torn package (`TornInv`), and so the look-up ends at the package
  (`FindPackage`).

`WorkbenchProofs`, for any number of windows, calls, projects and plans:
`TypeCorrect`, `PreviewedFirst`, `ActsOnTheShown` and `FreezesTheShown`. The
inductive invariant `IInv` is a conjunction over windows (`WindowOK`), requests
(`RequestOK`) and answers (`AnswerOK`): what a window shows, a call carries or an
answer brings is the project or one of an earlier revision (`Past`), and a kept
preview or preflight is among those shown. From an equal revision it follows
that the shown project *is* the project. A preflight that is answered late is
of an earlier revision, or of the project as it is.

Only model-checked: `EveryWaiterRuns`, `EveryCommandEnds` and the fairness part of
`IsProjectLock` (the theorem has the safety part, `LockOf!Safe`), which are liveness
and out of the prover's reach. `Reached` is defined by closed sets, without
recursion, so that proofs can use it.

## 5. Not modelled, and the plan

Not modelled for good: the program start and the self test (flags, address,
signals, a scripted client; no state), decoding, status codes and assets of the
HTTP interface, formatting and messages, the filter and the counts of
`QueryIssues`, in the browser the creation dialog, the timeline and the layout.

Not modelled and said where it matters: that a replay answers from an envelope whose directory sync failed;
the preview of a baseline in the browser, which works as that of the signs.

Open, in this order:

1. Several windows with reviewers of their own, where the reviewer field of one
   project is submitted for another.
2. The actions of `Workbench` composed with `CommandPipeline`, so that a lost
   answer and a new click with a new request id meet the recorded request.
