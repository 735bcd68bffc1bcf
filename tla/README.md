# Verification of workrun

`workrun` drives one *run* per tracker item through the workflow
`tracked-change`: discover the requirements, get a brief approved, write,
verify and publish code, answer the review, resolve the item. A local agent
does the work; `workrun` decides what is to be done next, checks the evidence
the agent brings back, and keeps everything in one SQLite database. Its value
is in what it refuses: code before approval, a publication nobody verified, a
resolution without a merge, two sessions working at once. This directory
models that core in TLA+, checks it with TLC, and proves its safety with TLAPS.

## The system

| Component | State it keeps | Operations | Hard part | What makes it correct |
|---|---|---|---|---|
| Workflow table (`internal/assets/tracked-change.yaml`, `internal/domain/types.go`) | none | states, outcomes and targets, actions, gates, capabilities, retry policies | every path has to pass the human gates | gates cannot be walked around |
| Run engine (`internal/engine/engine.go`) | the run snapshot (`domain.Run`) | `Next`, `Complete`, `Fail`, `Approve`, `Pause`, `Resume`, `Terminal` | any command in any state, resume points, actions that stay pending across pauses, retries, wake times | work only after approval, a pending action fits its state, ended runs stay ended, retries are bounded, a run does not hang |
| Evidence validation (`internal/engine/evidence.go`) | none of its own; reads the run | `validateTypedEvidence`, `processReviewEvidence`, drift detection | evidence is the agent's word; events repeat; review feedback overlaps a plan in force | heads are verified before they are published, no review thread is lost, a merge is observed before the item is resolved |
| Run store (`internal/store/store.go`) | tables `runs`, `events`, `schedules`, `work_groups`; the schema version | `Open` with backup and migrations, `CreateOrResumeRun`, `UpdateRun`, `ListRuns` | read-compute-write across transactions, several processes opening an old file at once, the unique active run | one active run per item, schedule and snapshot agree, an old file is saved before it is changed |
| Control store (`internal/store/control.go`) | tables `leases`, `actions`, `approvals`, `briefs`, `artifacts`, `review_events`, `proposals` | lease operations, `CreateAction`, `RebindPendingAction`, `commitAction`, `CommitApproval`, proposals, purge | leases expire while their holders work, results arrive late or twice | a result counts once and only under the live lease |
| Workflow checks (`internal/workflow/config.go`) | none | `Validate`, `validateSafetyFlow` | any YAML file may replace the table | a workflow that passes has the gates the engine relies on |
| Command line (`cmd/workrun/main.go`) | none | one process per command; `migrate`, `cleanup`, proposals | commands of several processes interleave | |
| Configuration, assets, path security, release tool | none | parsing, file checks, packing | pure I/O | |

The components meet in the database. A command (`workrun agent next`,
`workrun pause`, ...) is one process: it opens the file, reads the run, the engine
computes the next snapshot, and a commit of the store writes the snapshot together
with the action, lease, approval and schedule rows that go with it. The agent
session holds a lease with a time limit, asks `Next` for an action, does it, and
reports with `Complete` or `Fail`; the operator approves, pauses, resumes and
cancels at any moment, without a lease.

## Modules

| Module | What it models |
|---|---|
| `Workflow` | The table. `Transitions` is every `on:` line, gates and waits included; `Targets(s, o)` is the lookup of `Complete` and `Approve`; `AllowedOutcomes`, `RequiredCaps`, `Capable`, the retry classes. |
| `Lifecycle` | One run with atomic commands: the engine, the evidence checks that depend on the run, and the rows its commits write. |
| `WriteRetries` | `Lifecycle` with a history variable that counts failures in a row of a remote write. |
| `Progress` | `Lifecycle` under fairness: an agent that does its part, an operator who approves. |
| `Sessions` | One run with several processes: each command split into its reads and its commit; leases with tokens and a clock; commands that die. |
| `Ownership` | The abstract promise of the leases, which `Sessions` implements. |
| `Milestones` | Abstract: what a run has been through (approved, checked, under review, merged, resolved), which `Lifecycle` implements. |
| `Feedback` | Abstract: the threads of the review that wait, are planned, are answered, which `Lifecycle` implements. |
| `Commands` | Abstract: what moves a run (results, approvals, stops), which both `Lifecycle` and `Sessions` implement. |
| `Schema` | Opening the database file: version check, backup, migrations, by several processes at once. |
| `Registry` | On top of `Schema`: work groups, starting and ending runs, proposals, by several processes at once. |
| `Timing` | Retry delays, review wakes, times compared as text. No state. |
| `Definitions` | What `Validate` and `validateSafetyFlow` accept. No state. |
| `Algorithms` | The reference definitions and the properties of `Timing` and `Definitions`, for every input. |
| `LifecycleProofs`, `SessionsProofs`, `RegistryProofs`, `AlgorithmsProofs` | The theorems about invariants, action properties and algorithms. |
| `LifecycleRefinement`, `SessionsRefinement` | The theorems that the abstract specifications are implemented. |
| `Recursion` | Lemmas that stand in for induction: least counterexamples, recursive functions on the numbers. |
| `MCLifecycle`, `MCWriteRetries`, `MCProgress`, `MCSessions`, `MCRegistry`, `MCAlgorithms` | The instances TLC checks; the last one holds the inputs of `Algorithms`. |

The engine appears twice on purpose. `Lifecycle` keeps all of what the engine
decides and makes a command one step; `Sessions` keeps where a command may be
overtaken and lets an action have any outcome its state has. Both use the same
table, and both implement `Commands`: what a command may do to the run is the same
whether it is one step or many.

### `Lifecycle`

| Variable | Code |
|---|---|
| `run.state`, `resume`, `wait`, `retry` | `State`, `ResumeState`, `WaitKind`, `RetryAttempt` of `domain.Run` |
| `run.wake` | `NextWakeAt`: `none` (nil), `future` (after now), `due` (passed) |
| `run.brief`, `head`, `verified`, `cr`, `plan`, `planThreads`, `pending`, `seen` | `BriefHash`, `Head`, `VerifiedHead`, `ChangeRequest` (its identity), `ReviewPlanHash`, `ReviewPlanThreadIDs`, `PendingReviewThreadIDs`, `SeenReviewEventIDs` |
| `action` | the type of the row of `actions` with `state='pending'`; a partial unique index allows one per run |
| `lease` | the row of `leases`: absent or expired, live, or live and equal to the `lease_token` of the pending action |
| `schedule` | is there a row in `schedules` |
| `approvals` | the rows of `approvals` |
| `green`, `answered` | history: heads that a committed check evidence passed, threads a committed receipt covers. No guard reads them. |

The actions: `AcquireLease`, `LeaseEnds` (release or expiry), `WakePasses` (the
clock), `NextBlocked`, `NextRebinds`, `NextCreates` (the three results of
`Engine.Next`), `CompleteReconcile` ... `CompleteResolve` (`Engine.Complete` with
the evidence of each type), `CompleteDrift` (evidence that reports other
revisions than the brief's), `FailRetries`, `FailBlocks` (`Engine.Fail`),
`Approve`, `Pause`, `Resume`, `Terminal`. Each contains the commit it makes
(`UpdateRun`, `CommitAction`, or the approval's own), with the lease and
schedule rows.

What is abstracted. Hashes, commits, threads, events are model values. The agent
is not trusted: every outcome and every evidence that the validators accept may
come. Checks that only look at the evidence itself (formats, receipts, hosts,
timestamps, redaction, sizes) are taken to pass: failing them changes nothing.
Revisions are not values: evidence agrees with the revisions stored with the
brief, or drifts. The thread and the type of an event are fixed by its
deduplication key, because only its first report is read. `PollAttempt`, wait
reasons and durations are left out. The clock is the two facts whether a wake-up
has passed and whether the lease is live. A host announces one of
`Inventories`.

### `Sessions`

| Variable | Code |
|---|---|
| `run`, `version` | the row of `runs`: the parts of the snapshot that commands copy, and `version` |
| `lease` | the row of `leases`; the token stays when its time is over, as the row does |
| `actions` | the table: state, type and `lease_token` of each row |
| `approvals` | the table, as the set of approved hashes |
| `issued` | history: the tokens made so far |
| `pc`, `copy`, `mark`, `job` | where the command of a process stands; the run it read or is about to write; the version `UpdateRun` read; the row `PendingAction` returned |
| `held`, `envelope` | what a session remembers between commands: its token and the action it was handed |

Every statement or transaction that a command makes is one step:
`AcquireLease`, `RenewLease`, `ReleaseLease`; `NextValidates`, `NextReads`,
`NextLooks`, then `NextRebinds` or `NextCreates`, or `UpdateRun` for a block;
`CompleteFinds`, `CompleteReads`, `CompleteCommits`; `PauseReads`,
`ResumeReads`, `TerminalReads`, `CleanupReads`, `MigrateReads` with
`MigrateChecks`, each followed by `UpdateReads` and `UpdateCommits`;
`ApproveReads`, `ApproveCommits`. `Tick` is the clock, and `Dies` ends a command
between any two of its steps: a killed process, or an answer that is lost.
`Accepts` is the test of `commitAction`, whose refusals and repetitions change
nothing. What evidence says is left out: `Completions` and `Setbacks` are all the
runs that a result may lead to.

### `Schema` and `Registry`

| Variable | Code |
|---|---|
| `schema` | `user_version`, and what `runs_one_active` covers: before schema 3 a group in one repository, now a group |
| `backups` | the backup files: the version in the name and the version of the content |
| `origin` | history: the file as it was found |
| `runs`, `groups`, `proposals` | the tables; a group is named by the run it was made with |
| `pc`, `seen`, `local` | where the command of a client stands, the version it saves a backup of, what it has read and will write |

`Init` has a file that does not exist yet, one of this version, one of an older
version with the runs its index let in (and one that was interrupted after its
index was made anew), and one of a newer version. `OpenReads`, `Saves`,
`MakesTables`, `Numbers`, `Stamps`, `MigratesToSecond`, `ChecksConflicts`,
`MigratesToThird` are `store.Open`. A start is `Looks`, `StartFindsGroup`,
`StartInserts`, `StartLooksAgain`, the statements of `CreateOrResumeRun`, and two commands
begin it: `start` (`StartLooks`), for any reference of a provider in
`trust.allowed_providers`, and `proposal start-change` (`StartChangeLooks`), for an
approved proposal and without asking for trust. `ChangeReads`, `UpdateReads`,
`UpdateCommits` are any command that ends or changes a run; `CreateProposal`,
`ApproveReads`, `ApproveCommits` are the proposals. `Dies` as above.

`Trusted` are the items that `start` may take, by any policy the user has while the
commands run. A proposal's run is an item of `workrun-evolution`, and a policy may name that
provider like any other; then `start` makes the run and asks for no approval.

### `Milestones`, `Feedback` and `Commands`

What the engine promises, without how. `Milestones` has the approved briefs, the checked
heads, the head and its change request, whether it is under review, whether its merge was
seen, and how the run ended: each step rests on the one before (`Check` needs an
approval, `MayEnter` a checked head, `Merge` a review, `Resolve` a merge). `Feedback`
has the reported, waiting, planned and answered threads; `File`, `Plan`, `Overlap` and
`Answer` move whole batches, and `End` closes the account. `Commands` has the state, the
resume point, the two artifacts, the type of the pending action and the approvals:
`Complete` moves the run it finds along a line of the table, `Approve` takes the artifact
of the gate it finds, and what an operator writes without having looked (`Reread`) only
stops the run or goes on with a stopped one.

### `Timing`, `Definitions` and `Algorithms`

Operators, translated from `Fail`, `nextReviewWake`, `formatTime` and the queries
that compare its texts, and from the two checks of a definition. Loops are
recursive functions. A definition is a record of its states, policies and wakes.
`Algorithms` says what they have to compute: a power of two cut at the maximum, the
first work time after the interval, the order of the moments, the paths of a flow.

## Runs

| Run | Instance | States | Shows |
|---|---|---|---|
| `review` | 1 brief, 1 plan, 2 heads, 1 change request; comments on two threads and a merge; a host with everything and one without `change_request.poll`; `RetryBound` 1 | 522 455 | type correctness, seven safety properties and `Strengthening` of `Lifecycle`, and that it implements `Milestones`, `Feedback` and `Commands` |
| `gates` | 2 briefs, 2 plans; the two comments, a merge and a decline; specification `UninterruptedSpec` | 890 968 | `WorkIsOnApprovedBrief`, `FixesAreOnApprovedPlan`, `AnalysisHasThreads` |
| `progress` | 1 brief, 1 plan, 2 heads; two comments and a merge; `SetbackBound` 2; specification `FairSpec` | 185 311 | `AlwaysSettles`, `CommentsAreAnswered` |
| `sessions` | 2 sessions, hosts with every capability and with none, 1 operator, 3 tokens, 2 actions; `VersionBound` 4 | 1 291 705 | type correctness, `Freshness`, `ApproversSeeRun`, `ResultsAreNotStale`, `ApprovalsAreNotStale`, and that `Sessions` implements `Ownership` and `Commands` |
| `one_agent` | 1 session, capable and incapable hosts, leases of 1 and 2 ticks, 2 definitions, 1 operator; `VersionBound` 6 | 1 521 438 | `NobodyWorksElsewhere` and `Strengthening` of `Sessions` |
| `registry` | 2 clients, 1 item and 1 proposal, 2 repositories, 2 runs; `VersionBound` 3 | 3 517 337 | type correctness, `OneActiveRun`, `ApprovedOnce`, `OpenedIsIndexed`, `OldFileIsSaved` |
| `algorithms` | one input per behaviour, see *Bounds* | 28 856 | the four properties of `Algorithms` |

The properties of `Lifecycle`:

- `ActionFitsState`: a pending action survives pauses, blocks and takeovers and is
  handed out again in the state of that moment; except in `reconciling` it is the
  action of that state.
- `SomeBriefApproved`: no coding, publishing or review state is entered, or is kept
  as a resume point, before some brief was approved. "Some" is the most that holds
  once runs are resumed, see `unapproved`.
- `PublishedBeforeReview`, `MergeObserved`: review has a change request; a resolved
  item was merged.
- `ThreadsAccounted`: a comment marked as seen is never reported again, so its
  thread is pending, planned or answered until the change request ends.
- `ScheduleMirrorsWake`: three commits keep `schedules` in step with `NextWakeAt`.
- `TerminalIsFinal`, `PublishedHeadIsGreen`: action properties.
- `MilestonesKept`: the refinement of `Milestones`. Pauses, drift, resume points,
  actions from another state and reconciliations that find things done reorder what a
  run goes through, and still no head comes under review unchecked, no work is checked
  unapproved, no item is resolved unmerged.
- `FeedbackKept`: the refinement of `Feedback`. Comments arrive at any moment of the
  life of a plan; no thread is lost on the way, a batch is planned as a whole and never
  over a plan in force, and a plan is answered as a whole.
- `CommandsKept`: the refinement of `Commands`, see `Sessions`.
- `WorkIsOnApprovedBrief`, `FixesAreOnApprovedPlan`, `AnalysisHasThreads`: what the
  gates guarantee while nobody resumes a run (drift, scope changes, overlaps,
  failed and reconciled writes still happen).

Of `Progress`:

- `AlwaysSettles`: a run comes to wait for its reviewers or its operator again and
  again, whatever was lost, rebound, failed or reconciled on the way.
- `CommentsAreAnswered`: a thread that polling filed is answered, unless the analysis
  decides that nothing is to be done, or the run stops. The hard case is feedback
  that arrives after the approval of a plan and has to wait for that plan.

Of `Sessions`:

- `OwnershipKept`: the refinement of `Ownership`. `owner` is the token of a live
  lease, `spent` the tokens made, `counted` the finished actions with the token they
  were bound to. Commits that re-read nothing, rebinding without a look at the lease,
  expiry between any two statements and dying commands do not break it.
- `NobodyWorksElsewhere`: `Next` validates the lease first and creates or rebinds the
  action later, so an action may appear in a stopped run; but its token is never the
  one of the `leases` row there.
- `ResultsAreNotStale`: `commitAction` does not compare versions. With one operator
  who does not migrate (one definition), whoever changes the run takes the lease away,
  so a result that is taken was computed from the present run. `Freshness` is what makes
  that inductive.
- `ApprovalsAreNotStale`: `CommitApproval` compares the state and not the version. With
  one operator the test is enough: nobody else brings a run that left a gate back to it.
  `ApproversSeeRun` is what makes that inductive.
- `CommandsKept`: the refinement of `Commands`. Every move along the table starts from
  the present run, as if its command were atomic; what is late can stop the run, and
  never moves it.

Of `Schema` and `Registry`: `OpenedIsIndexed`, `OldFileIsSaved` (whoever else opens
the file, and wherever a process dies), `OneActiveRun` (although starts decide on
old reads, ended runs come back, and old files hold several), `ApprovedOnce` (two
approvals of a proposal count as one, and the run of a proposal that is not `Trusted`
comes after it).

Of `Algorithms`: `DelayIsClippedDoubling`, `WakesAtFirstWorkTime`,
`TextOrderIsRightToTheSecond` (RFC3339Nano texts do not sort within a second, so a
wake or a purge may be off by less than that), `AcceptedFlowsAreGuarded` (in every
accepted definition the *good* outcomes cannot get round a gate or the
verification, and can end).

### Where the documents and the code disagree

A run states what the document says and TLC shows how the code breaks it:

| Run | The document says | The code does |
|---|---|---|
| `unapproved` | README.md:19, SPEC.md:112: no code before a hash-bound approval | a resume point survives a new inspection; the next reconciliation jumps past the gate, on a brief nobody approved |
| `skipped` | README.md:368: resume always reconciles | an action pending since before the pause is handed out in `reconciling`, and its completion leaves the state |
| `stuck_feedback` | SPEC.md:305: comments form one new batch | after `no_action` a plan stays stored; in `awaiting_review` every poll that reports a comment is then rejected |
| `write_retries` | tracked-change.yaml:13, SPEC.md:401: at most 3 attempts | the reconciliation between attempts resets the counter |
| `revived` | SPEC.md:211, SPEC.md:559: a cancelled run has ended and is released | a pause that read the run before the cancellation writes it back: `UpdateRun` reads the version after the run was computed |

Others were seen while modelling and have no run of their own; `Sessions`,
`Registry`, `Lifecycle` and `Definitions` contain the steps that lead to them:

- A pause that read the run before a result was committed overwrites that result,
  the prepared workspace included, where SPEC.md:474 has a pause preserve it.
- `CommitApproval` compares the state only. With two operators, a run that left the gate
  and came back with another brief is approved with the old snapshot (control.go:149,
  SPEC.md:168). With one operator `ApprovalsAreFresh` proves that it cannot happen.
- `Next` may rebind an action after its lease expired and was taken over, so the
  new holder's results are refused until it asks again (engine.go:182, README.md:281,
  SPEC.md:397).
- `CreateAction` inserts the action of the state that was read, and the run may have
  moved on (engine.go:200, SPEC.md:112).
- `migrate` checks for a pending action in one statement and writes in another; a
  session may be handed an action in between (main.go:443, README.md:427).
- With two operators a result can be stale: a pause and a resume that overlap can
  change a run and leave the lease (control.go:451, SPEC.md:181).
- Of two first starts of an item, the loser gets the database's error for its work
  group instead of the run; of a start and a reopened run, an answer without the link
  (store.go:371, main.go:218, SPEC.md:74).
- A failed reconciliation stores `reconciling` as the resume point (engine.go:357,
  SPEC.md:206).
- `scope_changed` during `address_review` keeps a batch that waits behind the plan,
  and the run may be resolved without taking it up (SPEC.md:313, README.md:267).
- `validateSafetyFlow` (SPEC.md:223) looks at good outcomes and not at the others or
  at `initial`: a definition whose inspection goes to the implementation on
  `needs_input` is accepted. States that the engine names (`blocked`, `brief_stale`,
  `reconciling`) need not exist.
- Two processes that open a file at once can lower `user_version` for a moment;
  SPEC.md:175 has migrations go forward only. The file is still usable and the last
  one to finish sets it right.
- `start --provider workrun-evolution <id>` makes the run of a proposal that nobody
  approved, if the user's policy trusts that provider: `start` asks for trust only
  (main.go:209), the approval is asked for by `start-change` (main.go:561), and
  SPEC.md:598 has an *approved* proposal become a change run.
- `clockMinutes` accepts a time like `-1:00`, which `ConfigureWorkHours` then refuses.

### Bounds

`Lifecycle`. One of each identity is enough where a property does not compare two of
them; a second brief, plan or head is there where it does. Two comments on two
threads give overlap, independent feedback and a batch that waits behind a plan; the
decline gives a batch with two terminal events. `RetryBound` stops `Fail` once
`RetryAttempt` reaches it: the counter is compared with the policy's maximum only,
so larger values repeat the same choice; `write_retries` uses 4, beyond the maximum of
3. `SUBSET Events` covers every batch, already seen events included.

`Progress`. Two setbacks anywhere give a failed write whose reconciliation fails too,
and a lease lost while another failure is pending. `RetryBound` 5 is the largest
`max_attempts`, so here the counter is not cut. Two heads let a fix move the head.

`Sessions`. Two sessions and three tokens give a takeover and one more; two actions a
result after the one that is late; four versions a pause and a resume between a read and
its commit. `one_agent` trades the second session for time (leases of two ticks, one
renewal across a command), a second definition and two more versions.
`VersionBound` cuts commits; reads and lease operations go on.

`Registry`. Two clients race every pair of commands; two runs are what uniqueness is
about; the proposal is an item too. The item is `Trusted` and the proposal is not, as in
a policy of trackers only, so `ApprovedOnce` says all it can. `VersionBound` 3 lets a run end, come back and end.

`algorithms`. A tick of ten minutes, the step of the review intervals, over a week, all
intervals and the cap, hours inside the day, of the whole day, of one tick at either
end, and one that must be refused. Retry policies at the borders of `Validate`. Times of
three seconds with two digits of fraction. The canonical definition, 7 additions of a
state, every single redirection or removal of an outcome of these, and changes of
`initial`, `terminal`, `retry` and wakes.

Symmetry is used in `review` (the two heads; the two comments with their threads) and in
the runs over `Sessions` and `Registry`, on sets whose members the modules never tell
apart, and for safety properties only.

Deadlock is checked except in `progress`, where a resolved run has nothing left to do
and the environment is bounded, and in `algorithms`, which makes one step.

### Fairness

`FairSpec` has weak fairness of `AgentLoop` (the loop of the agent instructions: take
the lease, ask for the next action, work, complete; `WakePasses`, the clock, is part of
it) and of `Approval`. The agent loop is what `workrun` is made for; a program that runs
only when it is called progresses only if it is called. Setbacks (failures, lost leases,
results that lead back) are finitely many, because a run that fails for ever cannot
settle: `SetbackBound` names the number. Requirements are steady (no drift, no change of
scope), for the same reason. The operator approves in the end and may pause or cancel
at any time, which settles the run; resuming is left out since it can alternate with
pausing for ever. `GivesUp` is the agent of a poll that the validators reject whatever it
says (`stuck_feedback`): it reports a failure, which blocks the run.

### Mutants

Each checked property has a mutant: a definition replaced by one with a plausible
bug (the operators whose comments say "seeded bug"), which TLC has to notice.

## Proofs

All for every set of values and every bound.

| Module | Theorem | States |
|---|---|---|
| `LifecycleProofs` | `TypeCorrect` | `Spec => []TypeOK` |
| | `StrengtheningHolds` | `Spec => []Strengthening` |
| | `ActionFits` | `Spec => []ActionFitsState` |
| | `WorkIsApproved` | `Spec => []SomeBriefApproved` |
| | `ReviewIsPublished` | `Spec => []PublishedBeforeReview` |
| | `ResolvedIsMerged` | `Spec => []MergeObserved` |
| | `NoThreadLost` | `Spec => []ThreadsAccounted` |
| | `ScheduleFollows` | `Spec => []ScheduleMirrorsWake` |
| | `PublishedIsGreen` | `Spec => PublishedHeadIsGreen` |
| | `EndsForGood` | `Spec => TerminalIsFinal` |
| | `WorkIsOnBrief` | `UninterruptedSpec => []WorkIsOnApprovedBrief` |
| | `FixesAreOnPlan` | `UninterruptedSpec => []FixesAreOnApprovedPlan` |
| | `AnalysesHaveThreads` | `UninterruptedSpec => []AnalysisHasThreads` |
| `LifecycleRefinement` | `RunKeepsMilestones` | `Spec => MilestonesKept`: `Lifecycle` implements `Milestones` |
| | `ReviewKeepsFeedback` | `Spec => FeedbackKept`: `Lifecycle` implements `Feedback` |
| | `RunKeepsCommands` | `Spec => CommandsKept`: `Lifecycle` implements `Commands` |
| `SessionsProofs` | `TypeCorrect` | `Spec => []TypeOK` |
| | `LeasesKeepPromise` | `Spec => OwnershipKept`: `Sessions` implements `Ownership` |
| | `StrengtheningHolds` | `Spec => []Strengthening` |
| | `NoResultElsewhere` | `Spec => []NobodyWorksElsewhere` |
| | `FreshnessHolds` | `LoneOperator` implies `Spec => []Freshness` |
| | `ResultsAreFresh` | `LoneOperator` implies `Spec => ResultsAreNotStale` |
| | `ApproversAreCurrent` | `OneOperator` implies `Spec => []ApproversSeeRun` |
| | `ApprovalsAreFresh` | `OneOperator` implies `Spec => ApprovalsAreNotStale` |
| `SessionsRefinement` | `SessionsKeepCommands` | `LoneOperator` implies `Spec => CommandsKept`: `Sessions` implements `Commands` |
| `RegistryProofs` | `TypeCorrect` | `Spec => []TypeOK` |
| | `OpenMigrates` | `Spec => []OpenedIsIndexed` |
| | `BackupFirst` | `Spec => []OldFileIsSaved` |
| | `OneRunAtATime` | `Spec => []OneActiveRun` |
| | `ApprovalsCountOnce` | `Spec => []ApprovedOnce` |
| `AlgorithmsProofs` | `DelaysClip` | `DelayIsClippedDoubling` for every policy and attempt |
| | `WakesInTime` | `WakesAtFirstWorkTime` for every schedule and moment |
| | `TextOrderHolds` | `TextOrderIsRightToTheSecond` for every two moments |
| | `FlowsAreGuarded` | `AcceptedFlowsAreGuarded` for every definition |

Assumptions, which TLC evaluates in every run: `None` is none of the other values,
every event has a type and a thread, bounds are numbers; in `Sessions` sessions and
operators are different processes, lease times are positive, the embedded definition is a
definition; in `Registry` proposals and trusted items are items; in `Timing` and
`Algorithms` a day has ticks, there is a list of review intervals, and the inputs have the types that the
program parses them to. Two hypotheses are not assumptions of a module but part of the
theorems that need them: `OneOperator` (there is one at most, who may migrate), and
`LoneOperator` (there is no second definition to migrate to either). Without them the
theorems are false, see *Where the documents and the code disagree*.

*Lifecycle.* `IInv` is the inductive invariant: `TypeOK`, the safety invariants,
and `Strengthening`, each conjunct a fact of the engine. No run at a gate has an
action pending (or approval would put it under the wrong state). A token is bound
only where work is possible (so no result arrives at a gate, a block or an end).
No resume point is terminal. Later work is pending only after an approval (an
address action completed in `reconciling` leads to review). The verified head is
green. A batch that waits behind a plan never reaches the analysis, which would
overwrite the plan's threads. The table enters as lemmas about `Targets` (where
review, work, the analysis and the resolution can be entered from). Two lemmas cut
the cases: `Completion` says what a completed action of any type does to the run,
and `StepShape` says that every other step leaves the work data alone and moves the
state in one of five ways. Each property then needs six cases.

Without a resume, a run reconciles only after a failed write, with nothing but a
`reconcile` action pending. `WorkIsOnBrief` adds this to `IInv`. `FixesAreOnPlan` and
`AnalysesHaveThreads` are proved together (`Review`), since the approval of a plan may be
followed by feedback that sends the run back to the analysis: `CompletionOnPlan` goes
through the ways into the analysis and the confirmation, `IntoFixes` says that the table
has no others.

*Sessions.* `TypeOK` holds the unique pending action. `TokensKnown` (names of tokens are
names of tokens made) is all that the refinement needs: a new token is on no action and
not spent. For `NobodyWorksElsewhere` the late commands count. `HeldApart` keeps one
session's late rebinding off another one's live token. `WorksOrStops` says that every run
that is going to be written works or gives up the lease, so leaving the working states
kills the token. `LateTokensAreDead` says that a `Next` which validated before that holds
the dead one. For `ResultsAreNotStale`, `ResultsSeeRun` says that whoever could still
deliver has seen the present run, and `UpdatesFit` that a session writes only a block, and
an operator puts a run to work again only while it is stopped; with a second operator
that last fact fails. For `ApprovalsAreNotStale`, a run that somebody is about to approve
is at a gate or blocked, so no result arrives; what sessions write is a block; and nobody
else writes. So a run that is still in the state of the copy is the copy (`ApproversSeeRun`).

*Registry.* `IInv` is `TypeOK`, the properties, and: `IndexOK` (there is no index
only while the file is new, empty, and opened by nobody), `TableFits` (the table keeps to the index of the moment),
`GroupsOK` (each run's group is its item's), `LocalOK` (what a command carries is of an
item and a group that exist, and approved if only `start-change` takes it), `ProposalsOK`
(the count is the status, and such an item has a run only when approved), `Untouched` (an old file is as it was until
a backup of it exists). Uniqueness then is: whoever has opened the file has seen the
new index, the index never changes back, and an item has one group.

*The refinements of `Lifecycle`.* Step by step from `IInv`, in the same cases as the
invariants. For `Milestones`, `reviewing` is "review is where the run is, or where its
resume point leads": entering it takes a publication, whose head `Publishable` has
verified, or a resume point that was under review before. For `Feedback`, the analysis
plans the whole batch because the validator compares the threads, and never over a plan
in force because `IInv` has no plan stored in a run that could analyse
(`PlanKeepsAnalysisAway`). For `Commands`, `Landing` names the line of the table a
completion takes, or why it takes none.

*`Sessions` implements `Commands`.* This is what ties the two modules together: the moves
that `Lifecycle` makes in one step are those that `Sessions` makes in several. A result
that is taken and an approval that is taken have the present run before them
(`ResultsSeeRun`, `ApproversSeeRun`), so both are moves along the table from where the run
is. An update may carry an older run, and there `WorkersOnlyBlock` (a session's is a block)
and `OperatorsWrite` say what it can do: an operator who is about to write pauses or ends
the run, or has read it paused, blocked or resolved, and since then a session blocked it
at most, so the write goes on with a run that is stopped. `PendingIsTyped` and the unique
pending action make `Handed`, the pending action's type, change with the actions table.

*Algorithms.* A recursive function on the numbers is one only if some function satisfies
its equation; `Recursion` builds it (`Iteration`), from the fact that every set of numbers
that is not empty has a least one, and gets from the same fact the induction that the
provers cannot be asked for in its usual form, over sets instead of predicates. `DelaysClip`
is then the step of the loop. `WakesInTime` follows the search from one candidate to the
next: no work time lies between them, and a week has one. `TextOrderHolds` compares texts
at their first differing character, which in different seconds is one of the second.
`FlowsAreGuarded` shows that what `validateSafetyFlow` computes is closed under the good
outcomes: a path that avoids the gate can be followed in at most as many steps as there
are states.

What is only model-checked: the liveness of `Progress`, for fairness and ENABLED are beyond
the prover; and the disagreements, which are counterexamples. Every invariant and action
property of a passing run is proved.

## Not modelled

User and repository configuration, embedded assets and schemas, path security, the
release tool, redaction, export, diagnostics, listings and printing: pure functions of
files or pure I/O, with no state that a step could damage. Of the evidence validators
the checks that look at the evidence alone. Of the stores the event log, the copies of
evidence (requirement sources, artifacts, review events, cursors), the snapshots of
workflows and manifests, and which five tables a purge empties. Of `cleanup` the removal
of directories. Of proposals the listing and the diffs. Of a definition's validation the
check that the wake policy a state names exists; of the files that `Open` may find, one of
version 0 whose tables an older program made.

## What is left

1. What remains true with several operators and with migrations, where a result and an
   approval may be stale (control.go:451, control.go:149, main.go:443). So far it is that
   a result counts once and under a live lease (`OwnershipKept`), and only where the run
   works (`NobodyWorksElsewhere`).
2. The evidence of `Lifecycle` under the interleavings of `Sessions`. `Commands` has the
   state, the resume point and the artifacts of the run in common; its heads, threads and
   change request are not in `Sessions`.
3. The event log as a history that the snapshot can be compared with.
