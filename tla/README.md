# A verification of the k3 plugin's runtime

`runtime/` of this repository is a set of short-lived commands (`/k3:ask`,
`/k3:rescue`, `/k3:review`, `/k3:cancel`, ...) that Claude Code or Codex runs as
separate `node` processes. They start the Kimi CLI as a child, wait for it, and
agree with one another through a SQLite table, artifact files, lock files and
signals. There is no daemon: every process may start, die or be killed at any
point, and what one of them believes about another is a row it read some time
ago. That is what the modules here model.

The modules are TLA+, checked by TLC on small instances and, where a theorem
says so, proved by TLAPS for every value of the constants. Paths below are
relative to the repository.

## 1. Inventory

| Component (source) | State it keeps | Operations | What is hard | What makes it correct |
|---|---|---|---|---|
| Job store (`runtime/job-store.ts`) | one row per job: status, type, owner pid, session, phase | insert with admission, compare-and-set of the owner, patch of a running row, three endings | all processes write it; every write is a transaction or a guarded `UPDATE` | one model job at a time; no session runs twice; ended rows never change; a row that blocks has an owner |
| Admission (`runtime/admission.ts`) | none (reads the table) | early check, check inside the insert | check and insert must not be separated | as above |
| Endings, stale sweep, waiting (`runtime/jobs.ts`) | artifact files | `markJobFailed`, `markJobCancelled`, `sweepStaleJobs`, `waitForTerminalJob` | the sweep works from a list it read before; artifact and row are two writes | a live owner is not swept; a dead one is; the artifact agrees with the row |
| Background spawn (`runtime/background-spawn.ts`) | none of its own | spawn, handover, early exit, `--wait` | launcher and worker race for the row, a sweep or a cancel between them | exactly one of them runs the job; none does if the row was ended |
| Cancellation latch (`runtime/cli-cancellation.ts`) | `cancelling`, an `AbortController` | SIGTERM, SIGINT | signals before the handlers are installed kill | a cancelled runner does not report success |
| Commands ask, rescue, review, challenge (`runtime/commands/`) | the steps of a launch | insert, header, hook check, call, artifact, ending | cancellation between any two awaits; every await may fail | every row ends; kimi is gone when it does |
| Command cancel (`runtime/commands/cancel.ts`) | the row it looked up | look-up, SIGTERM, wait, SIGKILL, re-check, ending | the row changes owner or ends under it | the cancelled job stops; a completed one keeps its result |
| Commands status, result, replay | none | sweep, then read | as the sweep | what they show is what the row says |
| Kimi child process (`runtime/cli-client.ts`) | one event machine per call | spawn, marker check, records, abort, budget, teardown, settle | events in any order: error, exit, close, abort, budget, marker | settles once, after the process tree is gone; nothing before the marker |
| Process tree (`runtime/process-tree.ts`) | none | enumerate descendants, signal them | pids change while they are listed | nothing but the captured tree is signalled |
| Config lock (`runtime/hooks/config-safety.ts`) | lock files next to `config.toml` | acquire, recover a stale lock, release | several processes recover at once; holders die | mutual exclusion, and a dead holder does not block for ever |
| Hook installation (`runtime/hooks/install.ts`, `managed-block.ts`, `commands/setup.ts`) | a block of `config.toml` | install, verify, remove | foreign edits, broken blocks | everything outside the block survives |
| Data directory rename (`runtime/legacy-names.ts`, `plugin-data.ts`) | two directory names, one alias | rename under the store's write lock | old processes, crashes, running jobs | the data is always under one of the names, with one owner |
| Approval hook (`runtime/hooks/approval-*.ts`) | none | decide on one tool call | what a shell command may do | a read-only run writes nothing |
| Plan and resume lineage (`runtime/kimi-engine.ts`) | columns of the row | record, check before a resume | several engines and versions | only the engine that made a session resumes it |
| Stream parser (`runtime/stream-json.ts`) | a partial line | chunk in, records out | chunk borders, oversize lines | same records however the stream is cut |
| Session titles and recovery (`runtime/session-title.ts`, `kimi-session-recovery.ts`) | kimi's `state.json` | compare and rename | kimi writes the same file | kimi's updates survive; the right session is found |
| pursue and swarm (`runtime/commands/pursue.ts`, `swarm.ts`) | worktrees, patches | create, run, capture, remove, orphan sweep | crashes between the steps | work is captured before it is removed |
| Review gate (`runtime/commands/review-gate.ts`, `hooks/review-gate-stop.ts`) | a row without a pid | insert, call, ending | the host kills the hook | the row ends; a cancelled gate does not allow |
| Error classification, parsing, read-only commands | none | | | data only |

**How they interact.** A command first sweeps the table, then asks admission,
then inserts a row whose owner pid is its own. A foreground command goes on to
call kimi itself; a background one spawns a detached worker of the same program
and hands it the row by compare-and-set. Whoever calls kimi (here: the *runner*)
installs signal handlers, calls, stores what it observed, writes the artifact and
ends the row. A cancel finds the row, signals its owner, waits, kills, and ends
the row itself if nobody has. Every later command sweeps rows of dead owners.
No process ever sends a message to another; the table, the artifact (one file per
job), the liveness of a pid and two signals are all they share.

## 2. Modules

| Module | Models | State | Composition |
|---|---|---|---|
| `ModelSlot` | abstract: what the store promises, without a table | who holds the slot, who has left it, who took it with `--allow-concurrent` | |
| `JobStore` | `runtime/job-store.ts`, `runtime/admission.ts`, callers open | `jobs`, the table | implements `ModelSlot` under the mapping `Slot` |
| `JobLifecycle` | `runtime/jobs.ts`, `background-spawn.ts`, `cli-cancellation.ts`, `commands/{ask,rescue,review,cancel,status,result,worker}.ts`, the model probe of `commands/setup.ts` | the table, artifacts, a program counter per process, the signal latch, the call, the list of a sweep, the target of a cancel | uses the operations of `JobStore` through `INSTANCE`, and implements its open specification (`ImplementsStore`) |
| `KimiCall` | abstract: what a call of kimi promises the command that makes it | kimi, the answer | |
| `CliClient` | `runtime/cli-client.ts`, with what it asks of `process-tree.ts` | the event machine of one call: kimi, its descendants, teardowns, settlement | implements `KimiCall` under the mapping `Promise` |
| `ConfigLock` | the lock of `hooks/config-safety.ts` | the public lock file, the recovery leases, a program counter per setup | |
| `HookConfig` | `hooks/managed-block.ts`, `legacy-brand.ts`, the rest of `config-safety.ts`, the texts of `commands/setup.ts`, the verifier of `hooks/install.ts` | none: operators over a file of classified lines | |
| `Setup` | `commands/setup.ts` around those texts, kimi and the user beside it | `config.toml`, the setup under way, the installed versions | extends `HookConfig`; the lock of `ConfigLock` is one process at a time |
| `DataDir` | `legacy-names.ts`, `paths.ts`, the path columns and the write lock of `job-store.ts` | what is under each of two names, the rows, the holder of the lock, the steps of a setup | |
| `WriteSwarm` | `commands/swarm.ts`, `git.ts`, foreground jobs as far as directory and row go | worktrees with their age, edits, patches and what went wrong with them, calls held open, a program counter per job | extends `DataDir` |
| `Provenance` | the decisions of `kimi-engine.ts` | none: operators over versions, plans and evidence | |
| `Engine` | plan, worker, preflight, marker, resume: `kimi-engine.ts`, `native-v2-preflight.ts`, `kimi-version-probe.ts`, `kimi-session-recovery.ts`, `commands/{ask,rescue}.ts` | kimi's binary, its config and sessions, rows, logs, a program counter and a child per job | extends `Provenance` |
| `MCJobStore`, `MCJobLifecycle`, `MCSetup`, `MCWriteSwarm` | instances for TLC (the other modules need no definitions of their own) | | |
| `JobStore_proofs`, `JobLifecycle_proofs`, `CliClient_proofs`, `ConfigLock_proofs`, `Setup_proofs`, `SetupInstall_proofs`, `WriteSwarm_proofs`, `Engine_proofs` | theorems | | each extends the module it is about; `SetupInstall_proofs` extends `Setup_proofs` |

The store, the lifecycle and the call are one stack (a process uses the store and
makes a call). The lock and the hook file are another (setup's edit happens under
the lock). `WriteSwarm` and `Engine` each look at a job from a side the lifecycle
leaves out: where its files are, and which engine and session it has. They repeat
of its steps only those that matter there.

**JobStore.** One action per transaction. `CreateJob(j, row)` is `createJob`: the
insert, the partial unique index and the admission check are one `BEGIN
IMMEDIATE` transaction and therefore one step. `ClaimRunningJobPid` is the
compare-and-set of the owner; `UpdateRunningPhase` and `UpdateRunningSession`
are the patches of a running row that some later decision reads; `MarkEnded` is
the three `UPDATE ... WHERE status = 'running'`. Which process calls what is left
open, so what holds here holds for any use of the store.

**JobLifecycle.** A process is a program counter; each step is what the code does
between two awaits, transactions or signals that another process can observe.
The state corresponds to the code as follows.

| Variable | In the code |
|---|---|
| `jobs` | the table, through the operators of `JobStore` |
| `artifact[j]` | what the one artifact file of the job says: nothing, a result, a failure text, a cancellation text |
| `fresh` | rows whose `updated_at` is less than 15 s old (`jobs.ts` STALE threshold) |
| `pc[p]` | where a process is: launcher and worker of a job, cancels, watchers (`status`/`result`); `Gone` = not alive |
| `armed`, `cancelling` | the runner has installed its handlers; a signal has been seen |
| `call[j]` | the kimi call: none, live, ended |
| `sweep[p]` | rows listed by `sweepStaleJobs` that are still to be judged, with the pid and age they had when listed |
| `mark[p]` | the ending that `markJobFailed`/`markJobCancelled` is half way through |
| `target[c]` | the `job` a cancel looked up, with the pid it had |
| `overtaken` | history: rows that somebody ended while going by the launcher's pid although the row was the worker's already; findings 1 and 2 below are about those |
| `crashes` | how many processes died by themselves |

Abstractions, in `JobStore` and `JobLifecycle`: prompts, engines, rendered text and log lines are
left out; session ids and pids are model values; `repo_id` is one repository (the
table is per data directory and admission is not per repository); `kimi_pid` is
left out because no code path ever stores a value in it; process ids are not
reused (the code accepts that risk in a comment, `jobs.ts:240-248`); a time limit
may strike at any moment; the retries of `persistBackgroundFailure` are one
attempt; an early exit of the worker is noticed only while the launcher waits; that
no cancel has been seen and the artifact of a result are one step (`WriteResult`), where
the code tests (`ask.ts:276`, `rescue.ts:308`), awaits the session title and then writes: a
cancel in that window has the row ended by the same process either way.

**CliClient.** An action is one turn of the event loop: a handler together with
the microtasks it releases. `Data`, `Exit` and `Close` are the events of the child,
`Cancel` and `Timeout` fire the abort signal, `Drained` ends the wait for the log,
`Answer` is the settled promise going through `runCliPromptWithBudget`, and the
steps of a teardown (`Capture`, `Quiet`, `Escalate`, `Confirm`) interleave with
all of them. Two teardowns exist, one per owner (`onAbort`,
`handleEngineMismatch`); `cancellationTeardown` names the current one, as in the
code, and `awaited` is the one the settlement captured. `kimi` distinguishes
*dead* from *exited*: between the two the process is gone and its exit event has
not been handled, which is what `processExited` guards in the code. A descendant
may be in kimi's process group or not and may hold kimi's pipes or not; both are
chosen at the start. Abstractions: what records say (an item of output is one of
five kinds); SIGTERM has no effect of its own, since kimi may exit at any time
and may also ignore it; SIGKILL kills at once; the list of descendants may come
back empty but identity reads do not fail; the stderr channel of session ids,
which only legacy plans use, is one with the record channel (`cli-client.ts:881-893` does
not test for a mismatch as the records' channel does, but such an id travels in the
result only, and a mismatch yields none); the platform is POSIX. The branches for a teardown that throws are not modelled: none of its
steps can, outside the test that makes it.

The model probe of setup (`--probe-model`) is a command of its own in `JobLifecycle`,
in the foreground, with its handlers in place from the start. Admission counts it like
the others; its row stands as an ask that no ask resumes.

**ConfigLock.** A step is one file operation that another setup can observe:
`link`, `rename`, or a read that a later step relies on. `Acquire` is the link to
the public path, `FindStale` to `ReturnLease` are `tryRecoverStaleLock` with its
recovery lease, `RemoveLease` is the removal of a dead recoverer's lease, and
`LookAtLock`, `ReleaseLock` are the release: look first, then rename whatever is
there and compare afterwards, as the code does. `Crash` is possible at every step.
`raced` is what the code itself reports as a recovery race after the fact. A lock
whose owner is dead counts as old enough at once.

**HookConfig and Setup.** `config.toml` is a sequence of lines, a line a kind
(marker, header, key, command, ...) with the host of a marker or the command of a
command line. `HookEntries`, `ValidHookSet` and `Fires` are what a TOML parser and kimi
make of it, `EvaluateInstalled` what the verifier makes of it by line patterns,
`Installed` and `Uninstalled` the texts setup computes; that these readings of one
file agree is what the properties are about. In `Setup`, `Read` computes under the
lock and `Write` renames into place; between the two and at any other time kimi
rewrites the file without comments, the user adds a hook, deletes an END marker or
adds a matcher, the plugin is updated or its interpreter moves. What a parser makes of
a text is defined for any set of its lines that are `kept`, since the verifier parses
the file without its blocks. The lines of a text that are kept, or of one kind, are
listed by number (`InOrder`), so that removals can be reasoned about as
order-preserving maps. One spelling per
kind of line is modelled; runs of blank lines count as one. The properties of what
setup writes speak of files in which no key is cut off from its table by a marker or a
blank line (`KeyAdrift`): setup removes tables up to such a line, and the key would
fall to the table above; and what stands behind a BEGIN goes with the pair, although it
belongs to a table before it.

**DataDir and WriteSwarm.** `at` says for each of the two names whether it is
absent, the directory, or an alias. A command resolves a name once and keeps it;
setup's migration is `Look`, `Move`, `MakeAlias`, `Rebase`, `Commit` (under the
write lock of the store, which moves with the directory) and `DropAlias`, and it
may die after any of them. A swarm goes from `idle` over the sweep of orphans, its
worktree and its row to the call, the patch and the removal, and may die anywhere.
Between row and call `Execute` resolves the paths again and may fail to open the store,
which leaves the row running. Time advances in units. The budget ends a call unless a
descendant of kimi holds it open (finding 4): `Orphan` says so of a swarm whose time is up, and
only such a swarm grows older than budget and margin. What is assumed of the rest is
that the clock of `mtime` and the timers run alike (no suspended machine).
`Capture` takes the edits of files that were there and the new ones into the patch;
`git diff` (by its output limit, too) and the write of the file may fail at any time,
which the code reports, and `git add -N` may fail, which it does not. `fault`
remembers which. Left out is a second capture after a first one: when the result
cannot be written, or a cancel comes after the first, the error path captures again
(`swarm.ts:696-709`), and a write that fails then may truncate a good patch.
`Forget` drops what a process that is gone knew, so that dead processes are alike.

**Engine.** A job resolves a source to resume, plans an engine for the binary that
is installed, inserts its row, is checked again in the worker and at the spawn,
runs a child of the engine the binary then is, and writes back what it learned;
`Reconciled` is the later look at its log. `Upgrade`, `EditConfig`, `TouchSession`
and `OpenDesk` are the world around, between any two steps. `log` is a set of
evidence (marker, sign of life, ...), `journal` what a scan of a session would
find. ask and rescue are one kind of job, which differ only in names here. Left out:
the bypass of the version probe for tests, `--allow-concurrent` (`JobStore` has it),
and ask's first look at the hook, which is before any row and is repeated later.

## 3. Runs

| Run | Instance | Shows |
|---|---|---|
| `store` | 3 jobs, 2 pids, 1 session, all callers open | an unforced model job runs alone; no session is continued twice; a row that blocks has an owner; ended rows are frozen; the table implements `ModelSlot` |
| `two_jobs` | 2 launches (background rescue or foreground ask, in all combinations), 1 cancel, no crash | `OneCallAtATime`: two *calls*, not only two rows, never overlap, although row and call are ended by different steps of different processes; every step of every process is a step of the open store |
| `one_job` | 1 job, started in each of its ways (the probe included), 1 cancel, 1 repeated status, 1 crash anywhere, fairness | call and row agree (`CallOnRunningRow`, `EndedRowHasNoCall`); a cancel never overwrites a result (`CancelSparesResult`); every running row ends (`RunningRowEnds`) |
| `one_call` | one call on either plan, 1 descendant of each of four kinds, 2 items of output and one flushed at close, fairness | the call implements `KimiCall`; output and sessions reach the caller only from a proven engine (`OutputIsProven`) and never after a mismatch (`NothingAfterMismatch`); an abort is not lost (`AbortIsReported`); the captured tree is gone at the answer (`CapturedTreeIsGone`); every call ends (`CallEnds`) |
| `config_lock` | 3 setups, 2 processes dead before, 2 recovery attempts each, crashes anywhere, fairness | one setup inside at a time (`MutualExclusion`), one recoverer before the rename (`OneRecoverer`), nobody takes a live owner's file (`LiveOwnerKept`), a dead owner or a dead recoverer does not keep the lock (`DeadOwnerCleared`) |
| `setup` | 2 hosts, 6 initial files, 2 setups, 2 edits or updates by others | what the verifier accepts is a hook that kimi runs (`VerifiedIsEnforced`); hosts and foreign hooks survive (`HostsCoexist`, `ForeignKept`); installing is accepted and idempotent (`InstallEstablishes`); the advice to run setup and retry is right (`RetryConverges`); uninstalling disarms (`UninstallDisarms`) |
| `worktrees` | 2 write swarms, one of them forced, 2 setups, crashes anywhere, budget 1 and margin 1 | a running job keeps its directory (`RunningKeepsDir`); a live swarm keeps its worktree and a dead one's is reaped (`LiveWorktreeKept`, `OrphansReaped`), orphaned calls excepted; before the worktree goes, edits are in the patch or the capture failed in one of the ways the code accepts (`WorkCaptured`); a later setup repairs what a dead one left (`SetupRepairsPaths`) |
| `engine` | 3 jobs, 2 kinds of installed kimi, 1 replacement of the binary, 1 edit by others, failures anywhere | the row names the engine that ran (`ObservedIsTrue`) and a session of its own (`SessionIsOwn`); no call without hook or, on native-v2, in plan mode (`GuardsHold`); a session stays on its engine (`EngineSticky`) |
| `cancel_starting` | 1 background job, 1 cancel | finding 1 |
| `sweep_done` | 1 foreground job, 1 status | finding 2 |
| `call_barrier` | as `one_call`, 1 item | finding 3 |
| `call_orphan` | as `one_call`, 1 item, fairness | finding 4 |

*Bounds.* The store's properties relate at most two rows, and a third one lets a
row end while two others change; two pids tell an old owner from a new one; one
session is the only way to collide. In `two_jobs` the hard cases are two launches
between the same check and insert and a cancel or a sweep between them: two jobs
and one cancel reach all of them, and the launches sweep as every command does,
so no watcher is needed. In `one_job` the interesting actors are the two
processes of the job, one cancel and one sweep, and the interesting failure is
one death: a second crash could only stop the sweep or the cancel, which is as
if that command had not been started. The repeated watcher is not bounded.
The action `Age` (15 s pass) makes any row stale at any time. In `one_call` the
order of two items is all that the marker rule can tell apart (before and after
the first), a third may come with the flush, and descendants do not interact.
In `config_lock` a recovery involves a dead owner, a recoverer and one who comes
between, and the second generation (a recoverer dies too) needs a dead lease holder:
three processes and two ghosts. In `setup` the initial files are the states that
releases of this plugin and of the upstream one have left behind, beside an empty
file and the user's own hooks; two edits reach what one setup cannot foresee, and
two setups reach the second of another host. In `worktrees` one swarm is the orphan
and the other sweeps, one setup dies and the other repairs; the limit is compared
with an age, so the smallest budget and margin already separate *older* from *not*. The
two setups are symmetric: nothing distinguishes them, and the properties are safety.
In `engine` a lineage of three jobs is a session continued twice; one replacement
of the binary can fall between any two steps, and a second would only hide the
first. Two actions, `OpenDesk` and `Cancelled`, are explored only where their effect can
still be mistaken for something else; their comments say why that is enough.

*Deadlock* is not checked: the commands are finite, or bounded by a named constant,
and the system stops when they are done.

*Fairness* (`FairSpec`, used by `one_job`). Steps of a live launcher, runner and
cancel are weakly fair: each is a line of a Node program whose next line runs
when its await settles. That a call settles is part of this, and
`one_call` is the reason: `CallEnds` shows that every call ends, however stubborn
kimi is, except in the situation of finding 4, which the liveness result of
`one_job` does not cover. `Age` is fair because time passes. A watcher
that starts again and again is the user, or the agent told by the skill texts to
look at the status of its job; without any later command a row of a dead
process does stay running, because nothing else runs in this system. `KimiEnds`,
`Crash`, `Interrupt` and the start of a command or a cancel are not fair.

*Fairness* of `ConfigLock`: the steps of a setup that has come are weakly fair, as
lines of a Node program. Coming, giving up and dying are not; a process that polls
may poll for its deadline, so `DeadOwnerCleared` excuses processes that gave up or
made as many attempts as the bound allows. The other new modules state safety only.

*Fairness* of `CliClient`: the event loop of a live process runs its handlers and
timers, each step of a teardown is bounded by a timeout of its own in the code, and
the kernel reports a death. kimi and its descendants owe nothing: they may run for
ever unless they are killed.

## 4. Findings

1. **A cancel that races the worker's start** (`cancel_starting`).
   README.md:257-258: "`/k3:cancel` works on a starting job, and a worker whose
   row was swept or cancelled makes no model call". `cancel.ts` signals the pid
   of the row it looked up first (116, 131) but re-reads the row for its wait and
   last check (118, 134). If the worker claims the row after the look-up, both
   signals go to the launcher, the row is still running and is marked cancelled,
   and the worker, which looked at the row for the last time when it claimed it,
   is inside its model call.
2. **A sweep that listed a job before it completed** (`sweep_done`).
   commands/result.md:2 promises the stored result of a terminal job. A sweep
   judges the rows of a list read once (`jobs.ts:115`). If the job completes and
   its process exits before the sweep gets to it, `markJobFailed` writes the
   failure text to the artifact (`jobs.ts:65`) before its guarded `UPDATE` finds
   nothing to do: the row says completed, the artifact says failed.

3. **A mismatch found during the teardown of an abort** (`call_barrier`).
   docs/invariants.md:82 calls the teardown a "settlement barrier".
   `handleEngineMismatch` replaces `cancellationTeardown` (`cli-client.ts:730`)
   without looking whether an abort has one under way. If kimi has exited by then,
   the new one returns at once (651), and the call is rejected, as a budget error
   when the budget aborted it, while the first is still at work.
4. **A budget that ends nothing** (`call_orphan`). cli-client.ts:967-968: on expiry
   the call will "await the subprocess/tree teardown, then reject". An abort settles
   only through the close event, and close waits for whoever holds kimi's pipes. If
   kimi has exited and a process it started holds them, the teardown returns at
   once (651) and the call waits for that process, however long.

The first two are excused by name (`overtaken`) in the invariants that they would
break, the third in `CapturedTreeIsGone` and the fourth in `CallEnds` (`Orphaned`) and,
for its consequence in a swarm, in `LiveWorktreeKept` and `WorkCaptured` (`orphaned`), so
that those say what holds everywhere else.

Less than a finding, since no run of its own shows them: places where the code does
not do what one might expect, found while the properties were written. Where a
property would break over one, the excuse is a named operator or variable.

- *A key after an END marker.* `stripManagedBlocks` (`managed-block.ts:684`,
  `setup.ts:1346-1347`, and for old blocks `legacy-brand.ts:129-132`) leaves a key
  that follows the END marker in the file, where it falls to the table above: it may
  disarm another hook, and a refusal marked retryable is then not repaired by setup.
  `KeyAdrift` excuses it in four properties of `setup`.
- *A key in a block without a header.* The comment at `managed-block.ts:606-607` says of
  the bare table that the parser "sees the whole table regardless of layout"; it sees what
  is left of it outside other hosts' blocks. The proof of `VerifierSound` needed that no
  block holds such a key; section 5 says which file would make the difference.
- An inline `hooks = [...]` followed by another root key is refused as an unknown
  field; the refusal is modelled and no property is about it.
- kimi's or the user's edit between setup's read and its rename is lost. The
  properties of `setup` hold in spite of it.
- *Two data directories.* `swarm.ts:363`, `logging.ts:22,28` and `cli-client.ts:268`
  make directories under the name they resolved earlier, and so create the old one
  anew between setup's rename and its alias; comments at `paths.ts:74-82` and
  `legacy-names.ts:38-40` have it otherwise. `OrphansReaped` has the premise
  `NeverSplit`.
- `swarm.ts:79-80` says that an orphan only survives SIGKILL; a SIGTERM before the
  handlers are in place, or after they are removed, leaves one as well. The sweep
  takes those too.
- *A live worktree swept.* `swarm.ts:84-92` calls the age limit of the sweep a
  "provably-safe delay", and docs/safety.md:223 says that it "can never force-remove a
  still-live worktree". Both go by the budget as a bound on life, which finding 4
  refutes: while a descendant holds its call open, a swarm outlives the limit, and a
  later swarm started with `--allow-concurrent` removes its worktree
  (`swarm.ts:485-489`); the capture then finds none. `LiveWorktreeKept` and
  `WorkCaptured` are violated at once when their excuse `orphaned` is dropped.
- *A capture that fails.* `swarm.ts:312-317`, docs/safety.md:223 and docs/invariants.md:74
  have the patch captured "on every terminal path" before the worktree is removed.
  `capturePatchArtifact` swallows any failure of `git diff` (a diff beyond
  `MAX_PATCH_BYTES`, `git.ts:232-247`) and of the write (`swarm.ts:507-517`), says "capture
  FAILED", and the worktree is removed with `--force` all the same (446-450). A `git add
  -N` that fails leaves new files out, and nothing but a smaller patch shows it
  (`git.ts:226-231`). `fault` names the three ways in `WorkCaptured`.
- *A race on the recovery lease.* A lease is renamed away before it is compared, so a
  fresh one can be taken by mistake. The code notices and fails that process, but by
  then another may recover beside the true owner of the lease, and a live owner's lock
  may be taken, against the comment at `config-safety.ts:78-85`. The properties
  of `config_lock` hold until then (`raced`).
- *A resume that ends before its marker.* A row that continued a native-v2 session and
  whose call ended before the marker has no engine of its own and may be resumed on
  legacy after a downgrade; and a resume planned for legacy whose binary was replaced
  is recorded as native-v2 by `Reconciled`. Compare
  `docs/native-v2-certification-provenance.md:113`, `docs/invariants.md:12` and the
  comment at `kimi-engine.ts:466-471`. `crossed` excuses the sessions of such rows in
  `EngineSticky`.

## 5. Proofs

`JobStore_proofs` proves, for any sets of jobs, pids and sessions: `TypeOK`,
`AdmittedAlone`, `OneRunningJobPerSession`, `BlockingRowHasOwner`,
`EndedRowsAreFrozen`, and that the table implements `ModelSlot`. The four
invariants are inductive beside the types; the inductive invariant `IInv` adds that
a job without a row was never forced in, without which the mapping of an insert to
`ModelSlot`'s `Acquire` (which leaves `beside` alone) does not go through. The
argument: only an insert makes a row run, and it looks at all rows in the same
transaction; every other step keeps type and `forced` of a row, and can only stop it
from blocking; a session is stored only if the index allows it.

`JobLifecycle_proofs` proves, for any jobs, commands, cancels, watchers and
crashes, type correctness (including that a process in the middle of an ending
knows which, and a cancel past its look-up has a target) and that every step of
every process is a step of the open store (`UsesStore`). Together they give a
chain: the processes implement the store, the store implements the slot. TLAPS
cannot cite a theorem through an `INSTANCE` with substitution of a proof module, so
where a later proof needs what the store's theorem says of the table (admission, in
`OneCallAtATime`), its invariant has it as a conjunct of its own.

The second part of `JobLifecycle_proofs` goes on from rows to processes: `CallOnRunningRow`,
`EndedRowHasNoCall`, `OneCallAtATime` and `CancelSparesResult`, for any jobs,
commands, cancels, watchers and crashes. Whoever ends a row (its owner, a sweep, a
cancel) goes by an owner that the row had at some earlier look, so none of the four is
inductive. The invariant `IInv` has three parts:

- *What was remembered was true once.* Every pid in a sweep's list, a cancel's target
  or a half-made ending is one of the two processes of that job, and has started
  (`ListedOwners`, `TargetedOwner`, `MarkedOwner`). When the ending is written, that
  owner has finished (`Finished`), and a finished owner never works again (lemma
  `OwnersGoOn`), so it does not matter how long ago the look was.
- *Who works on a row.* A worker is spawned once, by a launcher that has inserted the
  row and then only waits (`Placed`). A running row names a process that has started,
  and while its runner works it names the runner (`Owned`); a runner that works on a row
  that is not running has been overtaken (`WorksOnRunningRow`), because the ending went
  by the launcher after the row had passed to the worker. `overtaken` is exactly the
  excuse of findings 1 and 2; the proof shows that there is no further one.
- *Calls and artifacts.* A live call has its runner at the call, or has lost it to
  SIGKILL (`CalledByRunner`); a cancel writes over an artifact only when nobody can
  complete the row any more (`Spared`).

`OneCallAtATime` then follows from admission over rows: two live calls whose runners
are alive and whose rows were not overtaken are on two running rows, and of those one
is forced. The proof needs the assumption `OwnersAreApart`: a process that runs a job
is neither a cancel nor a watcher, since a pid is one process.

`CliClient_proofs` proves, for any descendants and any bound on the output, type
correctness, `NothingAfterMismatch`, and that the call implements `KimiCall`
(`Implementation`). That kimi is dead when the call answers is not inductive: it
depends on what the settlement waits for. The inductive invariant `IInv` says that
nothing happens before the spawn (`BeforeSpawn`), that a teardown which got as far
as SIGKILL has seen kimi's end (`TeardownEndsKimi`), and that a settlement either
waits for a teardown or comes when kimi never started or has exited
(`SettlementWaits`).

The second part of that module goes on to what the caller gets: `OutputIsProven`,
`AbortIsReported` and `CapturedTreeIsGone`. Each flag of the event machine is set in
one handler and read in others at any later time, so the invariant `Answers` says what
the flags mean for one another: a settlement is the last word (`SettledLast`: it comes
after the close event, for a kimi that never started, or with the mismatch itself, and
in none of these can output or an abort still be handled); a teardown has the flag of
its owner (`TeardownsAreOwned`); a signal is an abort from the spawn to the settlement
(`SignalIsAbort`); what a finished teardown captured is dead (`CaptureIsEnded`).

`ConfigLock_proofs` proves type correctness, `MutualExclusion`, `OneRecoverer` and
`LiveOwnerKept` for any number of setups, dead processes and attempts. A recoverer
renames the public path by name, not by identity, so the file there has to be known to
be the stale one (`StealsStale`); that is because no other recoverer of that file is at
work; and that is because the lease at its recovery path is this recoverer's
(`LeaseIsKept`), for a lease is removed by its owner or as a dead process's. All of it
holds until a lease is taken by mistake (`raced`), which the properties excuse.

`Engine_proofs` proves `ObservedIsTrue`, `SessionIsOwn`, `GuardsHold` and `EngineSticky`
for any number of jobs, replacements and edits, and its own `TypeOK`, which no run checks because
nothing in it could go wrong before one of the others does. The argument for the first
three is in three parts. What a log can hold at each stage of its job: nothing before kimi starts, and
then a marker of native-v2 only, and a sign of life without one only from a kimi that
did what its plan forced; so a classification of the log is right whenever it is made. A
source row has ended and keeps its session, so a row that continues it keeps naming that
one; a session that no kimi has made has no journal, so it is not found. And what
a check has seen is still so when kimi reads it, or `edited` says that the call was
exposed.

`EngineSticky` speaks of every earlier turn of a session, through a chain of resumes
of any length, while a job looks at its source row only. `SInv` carries what is needed
along the chain: a call that got under way left the proof of its engine in its own log
(`TookProves`), so the row it ends says it, or a later look at the log will; what a
resume learned about its lineage when it began still holds when its kimi gets under way
(`LineageKnown`), since a session is handed on by ended rows only and the first row of
a session has ended before anyone continues it (`RootIsOver`); so all the turns of a
session that was not `crossed` took one engine (`OneEngine`).

`WriteSwarm_proofs` proves all five properties of its run for any jobs, setups, swarms,
budget and margin, with its own `TypeOK`. The sweep goes by age and
knows nothing of the owner; that it spares the living rests on the age of a live
swarm's worktree, which never exceeds the limit where the budget ends the call
(`LiveTreeIsYoung`). For a call held open by a descendant nothing bounds it, so
the theorem says what is so: the excuse `orphaned` is the only one. A directory keeps its name because whoever takes a
name away has counted the running jobs in the same transaction; with a row running, no
name goes away at all (lemma `NamesStay`). The invariant `PlacesInv` says where things
are meanwhile: a job that works has a running row, under a name that leads to the
directory, and a swarm holds its edits until its patch accounts for them (`AtWork`, `Accounted`); the
current directory, once made, stays (`CurrentMade`); and worktrees lie in a directory,
never under an alias of their own (`TreesInDir`). From this follow `WorkCaptured`, for
the capture finds the worktree where the swarm made it; `OrphansReaped`, for a sweep
that sees a directory sees every worktree, unless there are two (`NeverSplit`); and
`SetupRepairsPaths`, for the transaction that ends a setup rewrites whatever an
earlier setup left under the old name.

`Setup_proofs` and, on its lemmas, `SetupInstall_proofs` prove all six properties of
the run `setup` for a `config.toml` of any length
and content, any hosts, and any interleaving of setups, crashes and edits, with
`TypeOK` (that whatever setup computes and whoever edits, the file is a sequence of
lines; no run checks it by itself).

*The verifier is sound* (`VerifierSound`, along every run `SetupVerifierSound`). Where
the host has a block of its own, the verifier parses
the whole file and has seen the entry kimi runs. Where it has none, the verifier parses
what is left outside the blocks, another text than kimi's. The two agree because no
table outside gets a key from a block (`TableSeenOutside`) and because the whole set
of hooks has been validated: the table has an event and a command in kimi's reading,
keys are unique in the verifier's, so they are the same lines (`SameLineRead`). The
first of these is an assumption on the file, `BlocksOpenTables`: a key in a block
belongs to a table opened in the blocks. Without it the theorem is false: take the
`[[hooks]]` line out of another host's block that follows our bare table, leave a
`matcher` in it, and kimi counts the matcher to our table while
`hasCleanEnforcingHookEntry` (`managed-block.ts:545-564`) does not see it. A file
without `KeyAdrift` satisfies it.

*Setup* is a pipeline: an inline `hooks` key is unfolded (`Normalized`), old blocks,
bare tables and, for an uninstall, pairs of markers are removed, runs of blank lines
are collapsed, and the block is spliced in or appended. The invariant ties what a run
has computed to what it has read (`RunOK`); the rest is about the pipeline.

- *A removal drops whole tables* (`Closed`), for it drops stretches of lines into which
  no table reaches and out of which none does (`Sealed`), and that is so where no key
  is cut off from its table (`Tied`). Then every other table keeps its keys, so the text
  still parses, and kimi runs what it ran (the `Keep` lemmas). `Stage` sums up a
  removal with the collapsing that follows it, as an order-preserving map.
- *The block takes the place of some lines* (`Replaced`): tables above and below keep
  their keys and are those of the old text, moved (`Shifted`).
- `SetupHostsCoexist`: the hook of the other host stands in no removed stretch and not
  in the replaced block.
- `SetupInstallAccepted`, `SetupInstallEstablishes`: the block in place is the one that
  the verifier looks for. Of a second run it is to be shown that every stage is the
  identity. It prunes nothing, since the bare tables of the new text are those of a text
  that has just been pruned. It strips no old block: what it would strip is a bare table
  of this plugin outside the pairs (`OldTableBare`), hence one that pruning would have
  removed (`NoOldLeft`). So it splices the same block into the same place.
- `SetupUninstallDisarms`: a pair that the verifier could accept is one that is removed,
  and no removal makes another (`Armed`); a clean table outside the pairs is pruned.
- `SetupRetryConverges`: a file for which the verifier advises another try has one block
  of this host or none, and no inline key (`RetryState`). Each stage keeps that and the
  soundness of the whole set of hooks, so no check of `runInstall` refuses.
- `SetupForeignKept`: every stage matches the foreign tables of two texts in order, and
  a list of increasing line numbers is determined by its set (`Listed`), so the lists of
  entries and of other data are equal (`SameData`), without an induction over either.

The hypotheses of these theorems are about the file a run has read (`Base`). Each is
there because without it the property does not hold of every file: for each, TLC was
given files outside it and found the property violated (but for the first half of
`OldMoved`, which the proof uses and no file tried so far calls for).

| hypothesis | says | without it |
|---|---|---|
| `~KeyAdrift(Base)` | no key is cut off from its table by a marker or a blank line | of a table whose command stands below a blank line nothing is pruned, and the verifier still accepts it after an uninstall |
| `TidyPairs(Base)` (with `OldLabelled`: `Tidy`) | a pair of markers encloses one command at most, of the host that its BEGIN names, and no old marker (an old BEGIN names the host of its command) | a hook of another host, moved by hand into this host's block, is replaced with it; taking out an old block from inside a pair makes the rest one that the verifier accepts |
| `OldMoved(Base, cmd, host)` | no old marker between a pair; an old BEGIN that names this host above a command for another is removed, or a command of no host stands between | pruning takes out what made an old block malformed, and the second run removes that block |
| `OldConfirmed(Base, cmd, host)` | the exactness check on old blocks (`removalChangesOnlyTheseHooks`) passes | the command of an old block also stands in a table above, with another hook between: the check expects the first of the two to go, and setup refuses, although the verifier advised it |
| `OnlyOurs(Base)` | only tables of this plugin stand between a pair of markers | a foreign table put between the markers is removed with them |
| `InlineLast(Base)` | no top-level key stands below an inline `hooks` key | a top-level key such as `timeout` becomes one of the table that the inline key unfolds to |

All of these take a hand at the file. In the 82356 states of the run `setup`, edits
included, TLC found `TidyPairs`, `OldLabelled`, `OldMoved`, `InlineLast` and
`BlocksOpenTables` without exception, `OnlyOurs` wherever the file parses and
`OldConfirmed` wherever the verifier advises another try; and the run checks the six
properties without these hypotheses (`KeyAdrift` is a precondition that four of them
name themselves).

Each of these strengthened invariants was checked by TLC on the instance of its run
(the ones about ownership on three instances) before it was proved.

The assumptions are the named `ASSUME`s of the modules: null values are none of
the real ones, bounds are numbers, setups are no jobs, and the command shapes are those
the argument parser lets through.

Only model-checked:

- `RunningRowEnds`, `CallEnds` and `DeadOwnerCleared`: liveness under fairness, out of
  the prover's reach.
- The six properties of the run `setup` for the files that the hypotheses above leave
  out, as far as the initial texts and edits of `MCSetup` make such files.

## 6. Not modelled

- *Stream parser* (`stream-json.ts`), *argument parsing* (`parsing.ts`), *error
  classification*, *rendering, telemetry, the read-only commands*: data in, data out,
  without a state that another part branches on. The outcomes that matter (a record, a
  marker, a session, junk) are the items of `CliClient`.
- *Approval policy* (`rescue-approval.ts`, `approval-policy.ts`): a function of one tool
  call over the grammar of shell commands. Only its refusal of the tools of plan mode is
  used, in `Engine`.
- *Session titles*: a compare and a rename on kimi's file, which nothing here reads.
- *The steps of the review gate*: its row is in `JobStore`; it is neither swept nor
  signalled, and meets the other processes in the table only.
- Opening the database, its schema migration, rows of old releases; the reading of
  `/proc` and `ps`; the hook probe of setup, which runs the hook once and changes
  nothing; finding the binary on `PATH` and the grammar of versions.
- *Windows*: the branches for it in the teardown, the lock and the migration.
- *Reuse of process ids*: accepted by the code in its comments; listed as a hazard.

## 7. Plan

1. Proofs: an abstract specification of the config lock and of the data directory with
   their refinements.
2. `ReviewGate`: the hook, its artifact and a host that kills it.
3. The retries of `persistBackgroundFailure`.
