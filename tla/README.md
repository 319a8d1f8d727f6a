# dispatch: TLA+ models, checks and proofs

`dispatch` is a terminal board that runs coding agents. A task is a row of a
SQLite database; dispatching it creates a git worktree and a tmux window in which
Claude Code works; hooks of Claude Code and an MCP server report back. Four kinds
of writer share the row without sharing memory: the **board** (the TUI process and
its background commands), the **MCP server** (tokio tasks of the same process),
the **hook processes** (`dispatch hook...`, one per event, each with a database
connection of its own) and the **epic chain** (a finished task dispatching the
next). Every transaction is atomic; what is hard is what happens between two of
them. Paths below are relative to `src/src/` unless they start with `docs/` or
`plugin/`, which are relative to `src/`.

## 1. Inventory

| Component | State | Operations | Talks to |
|---|---|---|---|
| Deferred-Stop protocol (`db/queries/{tasks,subagents,shells,mod}.rs`, `main.rs`, `plugin/hooks`) | `status`, `stop_pending`, `stop_pending_at`, `task_subagents`, `task_shells`, `live_subagents`, `live_shells` | Stop, UserPromptSubmit, SubagentStart/Stop, shell start/stop, SessionStart | Claude Code fires; the board reads |
| Agent health service (`service/tasks/crud.rs`, `runtime/tasks.rs`, `tui/update/*`) | the same row, `worktree`, `tmux_window` | `update_task`, `close_session`, claim, crash, detach, resume, retry-fresh | board, MCP, hooks |
| Dispatch claim and provisioning (`service/tasks/dispatch.rs`, `dispatch/{worktree,agents}.rs`) | `status`, pointers, directory on disk, tmux windows, the board's `dispatching` marker | claim, provision, launch, record, release, watchdog, retry-fresh, teardown | board, MCP, chain, git, tmux |
| Activity and sub-status (`models/tasks.rs`, `tui/update/agent.rs`) | `sub_status`, activity stamps | classify on tick, batch persist | hooks write stamps |
| Board refresh (`runtime/mod.rs`, `tui/mod.rs`) | the board's copy of every task, the `total_changes` watermark | refresh, optimistic edit, persist whole card | database |
| Session close (`mcp/handlers/tasks/wrap_up.rs`, `service/tasks/crud.rs`) | exit tokens, the row, its `phoenix` flag | wrap_up, exit_session, MCP close, status writes, delete, phoenix successor, epic chain | tmux, watchers, dispatch |
| Watchers (`service/tasks/watchers.rs`) | watch rows | subscribe, notify on finish or delete | task status writes |
| Teardown (`runtime/tasks.rs`, `dispatch/worktree.rs`) | pointers, directory, window | archive, delete, cleanup and its gate | git, tmux |
| Feeds (`feed/*`) | feed tasks, in-flight registry | cycle, upsert, route, stale delete | epics, teardown |
| Epics (`db/queries/epics.rs`, `service/{epics,grouping}.rs`) | tree, derived status | reparent, group, recalculate | task status writes |
| Repository sync and finish (`repo_sync.rs`, `dispatch/finish.rs`) | the primary checkout: base branch, `origin/base`, MERGE_HEAD; a rebase per worktree; `RepoSyncCache` | finish, sync, measure | git, origin, the user in the checkout |
| Editor, split pane, PR polling | one in-flight marker or session each | open, swap, poll | tmux, gh |
| Learnings, todos, usage, settings, migrations, prompts, setup, TUI drawing | rows without interleavings of their own, or none | CRUD, text | - |

What makes them correct, component by component:

* **Deferred Stop.** A finished turn is recorded once whatever the order of its
  hooks; no Stop is withheld with nothing left to drain it; the counters agree
  with the tables; nobody's live row is evicted.
* **Agent health.** The service's multi-call operations keep what each hook
  transaction keeps; where they do not, the exceptions are known.
* **Dispatch.** One worker per task; a failure leaves the task dispatchable; a
  task out of Backlog has its agent; nothing removes a directory under an agent.
* **Sub-status.** A classification is never written for a status it was not
  computed from. **Board.** A change made elsewhere becomes visible, and the board
  overwrites nothing it has not seen. **Session close.** A token closes only the
  session it was issued to; a successor is created once. **Watchers.** Every
  subscriber of a task hears of its end exactly once. **Teardown.** No worktree is
  orphaned and none is removed in use. **Feeds.** A cycle leaves the subtree a
  mirror of what the feed emitted, deletes nothing it just moved or created, and
  always releases its guard. **Epics.** The tree has no cycle and no dangling row,
  and an epic is done exactly when its active children are. **Base branch.** No
  commit is lost, a finish that reports success is on the base, and nothing is left
  half done that nobody knows of.

Hard behaviours: processes committing in any order (hooks), operations made of
several transactions (service), decisions from a snapshot (board), background
commands that outlive the reason they were spawned (teardown, provisioning),
failures between two steps (claim, launch), a watchdog that cannot tell slow from
dead. `PROJECT.json` lists them at their lines.

## 2. Modules

| Module | What it is |
|---|---|
| `AgentHooks` | the deferred-Stop protocol: one task's row, the hook processes, the Claude session that fires them |
| `AgentHealth` | EXTENDS `AgentHooks` with the board and MCP callers, each running a program of database calls |
| `TaskLease` | the abstract promise of the claim: a one-holder lease |
| `DispatchClaim` | claim, provisioning, release, watchdog, crash, retry-fresh; refines `TaskLease` |
| `SessionClose` | one task's end: wrap-up, tokens, closes, deletes, watchers, phoenix, chain, resume, restart |
| `EpicTree` | the epic hierarchy and the tasks in it, two handlers interleaving |
| `FeedSync` | one feed epic: guard, cycle, three syncs, teardown, the user beside it |
| `BoardSync` | one row and its card: event loop, watermark, detached reads, MCP and hook writes |
| `BaseBranch` | one checkout: finishes, syncs, drift measurements, git command by command |
| `AgentHooksProofs`, `AgentHealthProofs`, `DispatchClaimProofs`, `SessionCloseProofs`, `EpicTreeProofs`, `FeedSyncProofs`, `BoardSyncProofs`, `BaseBranchProofs` | the theorems and proofs of each component |
| `MC...` | the instances for TLC (symmetry sets) |

The modules share the row of a task, each keeping the columns its questions are
about: `AgentHooks` has status and counters, `DispatchClaim` the pointers and what
they point at, `SessionClose` status, window and flag, `EpicTree` epic and status,
`FeedSync` epic and worktree, `BoardSync` status, sub-status, window and stamp.
`AgentHealth` composes the hooks and the service by extension. Elsewhere a module
names the one that models what it leaves out, and does not repeat it.

In every module a handler is a sequence of steps, one per transaction, `await` or
subprocess. What the handler read in an earlier step it carries in its own record
(`ops`, `call`, `cyc`, a call in `todo`), so that a stale read is stale in the model
too. History variables (`overlap`, `raced`, `crossed`, `missed`, ...) record that a
named race took place; no guard reads them.

### AgentHooks

A hook event is two or three steps: Claude fires it (`hooks` gains a record; the
process exists), a timed event reads the clock (`ReadsClock`: `record_hook_event`
takes `self.clock.now()` in the process), the transaction commits (`Commit`).
Each transaction operator bears the name of the function in `db/queries`, and its
guard and assignments are those of the SQL.

* `TryRecordStop`: flip to Review when nothing is live, else withhold.
* `RecordUserPromptSubmit`: Review to Running; voids a withheld Stop unless that
  Stop's event is not earlier (`Superseded`).
* `SubagentStart/Stop`, `ShellStart/Stop`: fence the rows of other sessions, write
  the row, recount; the stops then run `ApplyPendingStopIfDrained`.
* `SubagentClearAndVoidPendingStop`: SessionStart.
* `HookLost`: the process dies or cannot open the database.

The tables are functions from key to the session of the row, `NoSession` for no
row. `Awaited` says whether Claude Code waits for a hook before the same actor
goes on (its documented behaviour for synchronous hooks, and what the hooks file
registers); the code cannot enforce it, hence a constant, and the runs
that ask what the code alone guarantees set it to FALSE. Subagents are actors of
their own, so even with `Awaited` the hooks of two subagents and of the main agent
interleave. A poll may report the end of a shell again.

Left out: `sub_status` and activity stamps (nothing here reads them), the epic
recalculation after a flip, PreToolUse and Notification.

### AgentHealth

`ops[c]` is what caller `c` still has to do: a sequence of database calls, with the
status `update_task` read (`prior`) and what it will write (`next`, `pointers`).
`ReadPrior` and `Patch` are the two calls of `update_task`/`patch_task`
(`with_status_transition` decides from `prior` whether the patch clears
`stop_pending`); `ClearSubagents` and `ClearShells` are the two transactions of
`clear_structural_no_drain`; `SubagentClear` is the draining clear that detach
uses. `UpdateTask`, `CloseSession`, `DispatchTask`, `RetryFresh`, `AgentCrashed`,
`DetachTmux` and `Resume` begin the programs, with the guards of their handlers.
`WindowDies` ends Claude and all it ran, without hooks. At its beginning an
operation sees the row as it is: how stale the board may be is `DispatchClaim`'s
subject, and `BoardSync`'s.

### DispatchClaim

An attempt's `pc` follows `TaskService::dispatch` and the board's pair
`claim_for_dispatch` and `run_blocking_dispatch`: claim, clear, measure (does the
directory exist?), add (`git worktree add`), launch, then `launched` or `failed`
and the message or write that ends it. Board attempts end in the command loop, and
the loop awaits a claim, so no message is handled while one is being written
(`BoardFree`). The board decides from `seen`, a snapshot that `Refresh` renews at
any time or never. Windows are a set of attempts because every tmux command names
the window `task-<id>`, whoever opened it. `reused` keeps the code's
`reused_worktree`, measured before the fetch.

A failed launch is rolled back as far as that goes (`LaunchFails`): the window may
not have been opened; `kill_window_if_present` skips the kill when its query fails;
a kill that fails ends the teardown before the directory is removed; the removal may
fail; and every failure is only logged (`dispatch.allium:455-485` calls the rollback
best effort). So a window of a failed attempt may stay, with or without its
directory: `spared` are those. They hold a shell and no agent, because the keystroke
that starts the agent is the last step that can fail. While one of them is open
`window_target` refuses the name two windows bear, and no launch succeeds until it
is closed (`LeftoverCloses`, the user's part).

`WatchdogElapses` drops the spinner and ages the claim's stamp, which is what makes
the board offer retry-fresh. `RetryFresh` runs its commands in order: spawn the
teardown (`cleanup`), persist Backlog with both pointers NULL, dispatch.

`ClaimNext` is dispatching alone, `ErrorSpec` adds the database error after the
claim, `RetryInTimeSpec` adds crashes, retry-fresh and its teardown with every
attempt over before its deadline, `RetrySpec` drops that last restriction.

### SessionClose

`call[c]` is where call `c` stands and what it read: `exit_session` calls
(`Exits`), MCP closes (`Marks`), the board's moves (`Sets`) and deletes. An
`exit_session` presents a token issued so far, the latest or an earlier one, and an
action; under the map's write lock it is consumed if the map holds that token for
that action and the row read earlier named a window (`Holds`, `Consume`), and
refused otherwise (`Refuse`, which may also be a "pr" without its url). `ReadPrior`,
`Patch` and `PatchFails` are the two calls of `close_session` and `update_task`;
`ListWatchers`, `Deliver`, `ClearWatches` the three of `notify_watchers_*`, of which
the list and the delete may fail (`ListFails`, `ClearFails`: both only logged);
`TestFlag`, `Respawn` the two of `respawn_phoenix`; `Kill` the kill that
`perform_close` spawns once `close_session` has returned, after the notices and the
respawn; `Chain` the claim of `auto_dispatch_next`. A subscription is
`SubscribeRead`, then `SubscribeInsert`. Windows are numbered as they are launched;
`doomed` are those sent to the kill. A board move kills before it persists, and not
at all on the way forward to Review; an archived card keeps its pointer until its
teardown has succeeded (`Kills`, `Persisted`, `Unpoint`). `ResumeLaunch` and
`ResumePersist` are the board's resume, a launch and later a persist. `Restart` comes
once, in the middle of a call: it drops every call in flight and the token map, and
with them the windows a close had yet to kill.

### EpicTree

`todo[c]` is the list of database calls handler `c` still has to make. A handler's
opening reads and its first list of calls are one action (`CreateTask`, `MoveTask`,
`Regroup`, `Flatten`, `Reparent`, ...), every call after it is a step, and a call
that fails drops the rest, as `?` does. `CheckStep` is one `get_epic` of
`check_no_cycle`'s walk and `LinkEpic` the patch that follows; `PlaceTask` is
`route_target` with the sub-epic it may create; `CleanupGroup` and `DropGroup` are
the read and the cascading delete of `delete_if_empty_repo_group`; `Walk` is
`recalculate_epic_status_inner`, up the ancestors with its visited set. Left out:
creating and deleting whole epics by hand, `sort_order`.

### FeedSync

A cycle goes through `FeedSyncGuard::try_claim` (`Claim`, `Busy`), the command
(`Fetch`, `FetchFails`), and one of three strategies: flat, grouped by repo, routed
by role. `ApplyMove`, `Upsert`, `ClearAbsent`, `DeleteStale` and `ClearParent` are
the transactions of the syncs, each of which may fail; `Teardown` is
`cleanup_removed_feed_tasks`, with the claim still held. A row is an item and a
number, so that a second row for one item can exist. An emission may be additive
(the command also wrote to stderr). The user moves tasks, toggles the grouping and
dispatches. `Aborts` is the trigger of migrations v72 and v76.

### BoardSync

`cmds` is the command queue of the event loop: a message or a tick is handled when
it is empty (`Idle`), and each command is a step. `Tick` spawns the check
of the window (`WindowCheck`, whose answer is taken at any later turn of the loop),
reclassifies and refreshes; `ExecList` is the list of `exec_refresh_from_db` and
`ExecMark` its watermark, taken afterwards. `reads` and `inbox` are the detached
`spawn_refresh_task` reads, delivered in any order. MCP writes, among them the
closes of `exit_session` into Done and, for a pull request, into Review, are on the
board's own connection and move the counter (`moved`); hook writes are not and do
not. Any read or write of the board may fail. A failed list still stores its
watermark (`ListFails`, `ExecMark`), a counter that cannot be read is -1 and makes
the next refresh read, a failed detached read is dropped (`ReadRowFails`), and after
a failed write the card stays as it was to be, with nothing left to do
(`WriteFails`). Notifications are enabled. Moves to and from Backlog are left out:
they go through dispatch (`DispatchClaim`).

### BaseBranch

A history is a set of commits. `FinishStarts` to `FastForward` are the commands of
`finish_task` (branch, clean, pull's fetch and merge, rebase, abort, fast-forward),
`SyncStarts` to `SyncPush` those of `sync_repo`; each may fail where its command
may, `FinishDies` and `SyncDies` being a command that cannot run or is killed at its
timeout, after which both return at once and abort nothing. A `git merge` killed
(`MergeKilled`) may have done nothing or have landed, or leave MERGE_HEAD or files
half updated. A `git pull` runs its fetch and its merge as processes of their own,
and only the pull is killed (`process.rs:121-129`): what it was running goes on
(`strays`, `StrayEnds`), beside later operations. A fetch that fails may have moved
the tracking ref (`FetchFails`), and a `git status` that exits with an error lists
nothing, so that any checkout may pass for clean.
Both check the checkout's branch once and act on whatever is checked out later.
`Measure` and `Measured` are `measure_repo` and the message that brings its result.
Others push, the user switches branches, edits and gives up merges, a dispatch
fetches. Left out: repositories without an origin.

## 3. Runs

| Run | Asks | Instance | Result |
|---|---|---|---|
| `hooks_awaited` | does the card tell the truth when hooks are awaited, and does a finished turn reach Review? | 2 subagents, 1 shell, 2 sessions, 3 hooks in flight, 3 times | 22 k states |
| `hooks_any_order` | what holds with hooks in any order, some lost? | as above, 2 times, symmetric subagents | 1.5 M states |
| `health` | do the service's operations keep it, but for named races? | 1 shell, one board and one MCP caller, 1 session, 1 hook in flight, unawaited | 2.1 M states |
| `claim` | is the claim exclusive, does a failure restore, does it implement the lease, is a claimed task ever left alone for good? | 2 board, 1 MCP, 1 chain attempt | 30 k states |
| `retry_in_time` | does retry-fresh keep the claim when no attempt outlives its deadline? | 2 board, 1 MCP, 1 chain attempt, symmetric | 38.5 k states |
| `session_close` | what survives every way of closing one task at once? | 2 exits, 1 MCP close, 1 board move, 1 delete, any 2 of them; 1 watcher, 2 tokens, 2 actions, 2 windows, 1 sibling, 1 restart, failures unbounded | 990 k states |
| `epics` | what survives two handlers on one hierarchy, from every board at rest? | a root and another epic, 2 repos, 2 tasks, 2 handlers, symmetric | 619 k states |
| `feeds` | what do two requests for a cycle do to a feed epic, with a user beside it? | 2 items, 2 sub-epics, all role kinds, 2 rows per item, 2 user acts | 1.8 M states |
| `board` | does the card catch up, and is what it writes back valid? | 2 writes beside the board; these, moves and failures together 3 | 566 k states |
| `base_branch` | what do finishes and syncs do to a shared base? | 2 tasks, 1 board and 1 CLI sync, 2 wrap-ups and 2 outside acts, at most 3 together (`ActsBound`); failures and strays unbounded | 631 k states |
| `board_resurrects` | does a crash report spare a finished task? | 2 writes beside the board; these, moves and failures together 2 | violated |
| `feed_ungroup` | does the flat sync heal an un-grouped feed? | 1 item, 2 cycles, 1 user act | violated |

Why the bounds are enough. The hook protocol needs two subagents for one to drain
while the other is live and for a fence to evict a row that is not its own, a shell
for the second counter, two sessions for a straggler, three processes in flight for
a Stop, a start and a stop to be reordered, and two event times for before, after
and equal. The races of `AgentHealth` are between one two-call operation and hooks;
a second caller adds races between two operations. The claim needs three attempts
for a loser beside a winner and a newcomer, and one of each kind at least, the
second board attempt being the retry. Two rollbacks that leave their windows take
two of these. An attempt may begin again when its window is
closed, so attempts are not spent. `SessionClose` needs two calls at once, of any
two kinds, for every race of its reads and writes; a second token to replace the
first, and an action of each kind (into Done and into Review) for a call to present
the wrong one; a second window for a resume to cross a close, one sibling for a chain to
find and to miss. A third call adds only a third follow-up, which the theorems
cover. Two CONSTRAINTs keep it small: `Flagged` starts from a flagged task, because
one that is not goes through the steps of a flagged one whose respawns fail, and
`TwoTokens` explores a second token beside the two exits alone, which are the calls
that present one. `EpicTree` needs one grouped root, two repos for a reroute, an epic that can be
reparented under a group and out again, two tasks for a group that one leaves and
one enters, and two handlers for every pairwise race; the boards they start from
are all those at rest of that size. `FeedSync` needs two items (one listed, one
dropped), two sub-epics to move between, two rows per item for a duplicate, and a
second request to meet the guard. `BoardSync` needs two outside writes for two
replies to be reordered and for a write to fall between list and watermark, and one
move or failure beside both, or two beside one, for an optimistic edit and the
failure of its write. `BaseBranch` needs two finishes to race, a sync of each
kind, and two outside acts for a push to be followed by a switch; its `ActsBound`, a
CONSTRAINT, leaves out only two finishes with two outside acts. Bounds in guards are constants (`Max...`) or marked `\* bound`.

Deadlock is checked in the runs of `AgentHooks`, `AgentHealth` and `DispatchClaim`,
where some event is always possible. The others end when their calls are spent
(`CHECK_DEADLOCK FALSE`).

Every property has a mutant, a definition of the same module that says in its
comment which slip it is (`TryClaimUnguarded`, `WalkOnce`, `RespawnKeepsFlag`, ...):
with the code so changed, TLC finds the property violated in the same run.

Properties worth a word.

* `SettledTurnIsRecorded` says that an idle session with every hook committed is in
  Review, or Running with a Stop that live work withholds. It and
  `EntriesAreLiveAgents` hold only because hooks are awaited: with `Awaited = FALSE`
  TLC breaks both by a straggler of the session before.
* `FailureRestoresBacklog` and `SettledTaskHasItsAgent` assume a task that starts
  without a worktree (`Kept = {FALSE}`): a Backlog task moved back from Running
  keeps its worktree, and the release, which asks for `worktree IS NULL`, then
  leaves it Running after a failed attempt; TLC shows it with `Kept = {TRUE}`.
* Several properties name the races that break the plain form (`unless`): this is
  what the code does guarantee. The plain forms are properties of their own, and
  section 5 says which of them fail.
* `EpicsInStep` excepts epics whose status was set by hand since, the root of a
  group that a reroute unarchived without recalculating (section 5, no. 12; both in
  `excused`) and boards on which two handlers concerned one task or the hierarchy
  (`overlap`).
  `DetachTask`, `MoveTask` and the rest recalculate; `DeleteTask` does not, and
  stays in step only because the archive view deletes archived tasks alone.
* `FailureRestoresBacklog` and `AgentKeepsItsWorktree` are about what a best-effort
  rollback cannot break: Backlog again, the reused directory still there, and no
  agent in a window it could not close or in a directory it removed.
* `OneCloseForAToken` compares what an `exit_session` that closes had presented with
  the history of `issued` and `purpose`, which the handler does not read.
* `WatchersAreServed` names its failures: a deletion that could not list its
  watchers tells nobody (`missed`), a delete of rows that failed makes the next
  finish tell them again (`kept`), a restart or an overlapping follow-up cuts short.
* `NoOrphanSession` counts a restart between a close's write and its kill among the
  losses: the row no longer points at the window then, and nobody kills it.
* `SkipHidesNothing` is the invariant behind `BoardCatchesUp`: whatever the board
  does not show is on its way, or was missed for one of four reasons: a hook's write
  (`unseen`), a reply that arrived after a newer one (`overtaken`), a failed read
  (`unread`: a failed list too, which the watermark then hides), each until a list
  succeeds, and a failed write of the card itself (`unsaved`), until a row replaces
  it.
* `OneNoticePerReview` has both halves: not twice for an entry, but for a late reply
  or a failed write; and a card that shows Review was announced, unless the user put
  it there. An entry that the row leaves before the board reads it is told of by no
  one, and is left out.
* `LeftoversAreKnown` takes a merge in progress to a pull, a killed merge or a failed
  merge abort, and a rebase to a killed one or a failed abort; no other interleaving
  of finishes, syncs, strays and the user leaves either.
* `DriftIsKnown` speaks of a board at rest: no operation and no measurement under
  way. An operation that fails after it moved a ref, the CLI's sync and an older
  measurement delivered late are its exceptions, all of them real.

### Fairness

`FairSpec` (hooks): a started process commits, being a short program that nothing
but its own loss stops, and losses are excluded where hooks are awaited; a subagent
ends, being a bounded job. Nothing obliges a human to prompt, a turn to end or
anyone to poll a shell, and `FinishedTurnReachesReview` therefore excepts live
shells and new turns.

`FairClaimSpec`: a started attempt goes on. Git calls and `new-window` are bounded
by `SUBPROCESS_TIMEOUT`, and a panic is reported as a failure; for the remaining
subprocess calls (`docs/specs/dispatch.allium:1366-1375` says that some are not
bounded) it is an assumption that they return. The end of an attempt has strong
fairness, because it is a message in the board's FIFO queue: other claims disable
it (`BoardFree`) again and again, and the queue sees to it that it is taken.

`FairSpec` (board): the loop executes the commands it has (weak fairness: nothing
else runs while it has any) and a detached read ends. The loop's `tokio::select!` is
not `biased`: it polls its branches in random order, so a tick and a message that
are ready again and again are each taken (strong fairness of `Tick(TRUE)` and
`Updated`). Nothing is assumed of hooks, MCP callers or the user.

## 4. Theorems

All proofs are complete and take no fact on trust beyond the library's theorems on
finite sets, functions and sequences. Each constant's assumption is named in its
module and evaluated by TLC. The bounds (`MaxEnv`, `MaxCalls`, ...) are arbitrary
naturals in the theorems, so that nothing rests on their size.

**AgentHooks**, for every finite number of subagents, shells, sessions, times and
processes in flight, awaited or not (`IdsAssumption`, `BoundsAssumption`). The
inductive invariant is

    IInv == TypeOK /\ LiveCountsMatchEntries /\ NoStrandedStop
            /\ PendingStopOnlyWhileRunning

`NoStrandedStop` alone is not inductive: that a start leaves something to drain the
Stop needs the counter to be the number of rows; that a drain which finds a card
not Running changes nothing needs the bit to be set only while Running. The proof
has one lemma per transaction (`StopRecorded`, `SubagentStopped`, ...), each taking
a row with the invariant to a row with it, and one for what Claude does
(`ClaudeStepTyped`: it writes no row). From it: `TypesCorrect`, `CountersCorrect`,
`NoStopStranded`, `PendingIsRunning`, and the action property
`WithheldStopHonoured`. This is the argument of `docs/specs/agent-health.allium`
(500-522), made exact for the hook processes; `AgentHealth` is where it fails.

Where whoever fires a hook waits for its exit (`ASSUME Awaited`), three more hold.
Their invariant, `AwaitedInv`, follows each actor's hooks in order: hooks in flight
are of the running session, and a SessionStart is alone in flight (`SessionInv`);
the subagent table is what the session runs but for starts and stops in flight
(`AgentsInv`); an idle turn has its Stop in flight or recorded (`TurnInv`).
`SettledTurnRecorded`, `NoAgentHidden` and `EntriesCorrect` follow.

**AgentHealth**, for any callers beside the hooks. `HealthInv` (types and counters)
is inductive; the Stop is not sound in every reachable state, so
`StepIsBrokenByRace` shows of each step that it keeps it or is one of the three
races, with the hooks' `RowInv` lemmas used again for the hooks' commits. Result:
`OnlyRacesBreak`, the run's property for every number of callers.

**DispatchClaim**, for any sets of attempts. `ClaimInv` adds to exclusion that a
held task is out of Backlog, which is what makes exclusion inductive: the claim lets
a caller in from Backlog only, and only the holder puts the task back.
`StepOfClaim` classifies every step as winning the claim, leaving it or keeping the
holders, and both invariants use it. From it: `ClaimTypesCorrect`,
`ClaimExclusive`, `HeldIsNotBacklog`. Under `Kept = {FALSE}` the larger `AgentInv`
(what each phase has created so far: nothing before the launch, the row Running and
unprovisioned while it runs, all three of window, directory and pointer after it)
(an attempt that will reuse the directory found it, and no other removes it: an agent
is never in a spared window) gives `SettledHasAgent`, `WorktreeKept`, `FailureRestores` and
`ClaimImplementsLease`: initial states map to initial states of `TaskLease`, and
every step to `Acquire`, `Return`, `Launch` or a stutter.
`RetryKeepsTheClaim` is about retry-fresh, which puts a card back from the board's
snapshot, where every attempt is over by its deadline. Its invariant, `RetryInv`,
says that what the snapshot can show rules out a holder: a worktree it shows is
still the row's and a row with one has no attempt under way, and an unprovisioned
card never shows an old stamp. It needs `Kept = {FALSE}`: a Backlog card that kept
its worktree looks crashed while its new attempt runs, and TLC shows the retry
taking it.

**SessionClose**, for any calls, watchers, tokens and windows, with failures and the
restart. All six properties of its run are theorems, each from a strengthening of
its own on top of the types: `ReceiptCorrect` (with `WrapUpFits` for the map),
`TokenClosesOnce` (`LatestTokenOnly`: the map holds the token issued last, unspent
and with its action, or none), `NoWindowLost` (`LaunchIsNew`: a window launched and
not yet recorded is newer than any the row or a board move has seen, and a window
that a late move writes back meanwhile is killed or lost already; the closes that owe
a kill are followed through notices and respawn), `ChainsFollowCloses` (the handlers that have written and not yet
chained are counted in), `TwoSuccessorsNeedOverlap` (without overlap one handler at
most is following up) and `WatchersServed` (the same, and what that one handler has
listed, delivered and failed to list or to clear so far).

**EpicTree**, for any finite hierarchy, tasks, repos and any number of overlapping
handlers. `Base` says that rows and programs are well formed: parents and homes are
rows, a group's parent is its root, a check, a link or a delete is only ever a
handler's next call. That gives `NothingDangles`. For `ForestUnlessRaced` the
invariant says what a walk in progress knows: the parent it was asked about lies
below where it stands, and if where it stands is not below the epic, neither is the
parent (`CheckOK`); once the walk reaches the top, the parent is clear of the epic
(`Clear`). Neither a group that appears (`GrownCheck`) nor a subtree that is deleted
under the walk (`CutCheck`) takes that away; only another reparenting could, and
`OneMover` says that there is none or that the race was noted. For `CleanupIsSafe`
it says that a delete under way has a group with nothing below it (`DropsOK`). The
hierarchy's lemmas (`BelowParent`, `CutBelow`, `GrownBelow`, `LinkForest`, ...) come
first and speak of any set of epics with parents.
`EpicsStayInStep` has two halves. `WalkClimbs` is what one `recalculate_epic_status`
does to a forest: it sees the epic and all its ancestors, changes nothing else, and
leaves each of them in step. `Walk` is a recursive function, so that takes an
induction on its length; the library's induction theorems cannot be instantiated, so
`UpTo` derives one for sets of numbers from a least counterexample (`WFMin` over the
well-founded ordering of finite sets). `StepInv` is `TreeInv`, the types, and, as long
as no two handlers overlapped, `CalmInv`: an epic that is not excused is in step, or
some epic in its subtree is one that a running handler is certain to recalculate
(`Claims`, `Answers`). Certain is the point. A handler's later calls may be dropped
when its next one fails, so a call that can fail counts for nothing, or only for the
epic whose absence is the failure; and `Sound` says that every change a program still
has to make is followed by the recalculations it makes necessary: a task that is put
somewhere by those of its old and its new epic, a drained group by its root's
(`MoveTells` says it of a reparenting and both parents). Each handler's start and each
later call keeps it, one lemma per action (`BeginStatus`, `LinkCalm`, `RouteCalm`,
`DropCalm`, ...). The disjoint `about` sets are what keeps the programs of the others
sound under a step (`LeftAlone`); `Bare` and the forest come from `TreeInv`.

**FeedSync**, for any items, cycles and roles: `GuardCorrect`, and
`NoWorktreeOrphaned`, whose invariant adds the shape of a cycle (what each step may
still hold), that ids are not given out twice, and that every agent's worktree is
under way, recorded or accounted for.
What the cycle does to the board is `MirrorInv`. For items the user left alone in an
epic never un-grouped, a row is in the parent or in the sub-epic its strategy names
(`Placed`), one per epic (`Unique`) and one in all where items are routed. A cycle
under way keeps its `Course` (which epics it still writes and clears cover exactly
what the emission asks for) and its `Progress`: rows still to be moved have their
move pending, an epic already written holds its items, and a row no item names is in
an epic still to be cleared. At the teardown nothing is left to write or clear,
which is `FeedMirrored`. `CollisionsAreTheUsers` and `RowsSpared` come from the same
invariant: a move's target is free because the row moved is its item's only one, and
a delete spares the emission because its rows are already at their targets.

**BoardSync**, for any number of writes and moves. `PairValid`: valid pairs are kept
by the row because the card, every queued command and every reply in flight hold
valid pairs too (`Held`), a set that shrinks only when a patch raced. `SkipHides`:
`FreshReplies` (a reply in flight that is not late is the row, unless a hook wrote,
another read is pending or a newer reply follows), `OneMark` (a watermark is only
ever the next command) and `Shown` (except before a mark a counter that moved is
excuse enough; before a mark the card must be covered without it, because the mark
is about to forget the counter; a mark after a failed list is covered by `unread`).
`NoticesCovered` needs a `Ledger`, a number for each reply in flight that bounds the
notices the replies up to it can still raise; while a card is persisted the ledger is
suspended (`Persisting`), because the card is then ahead of the row, and a persist
that fails pays for what the card it leaves may lack (`NoticeWriteFails`). That a
card in Review was told of is `KnownStep`.

**BaseBranch**, for any tasks and syncs. The invariant is `Control /\ Flags /\ Led
/\ Branched /\ Contained /\ FinishedIsMerged /\ Known /\ Queued /\ Current`: where
each operation stands; that an operation under way on another branch than the base
was switched under (`Led`), so that a fast-forward of anyone else lands on the base;
that histories are finite and a task's branch keeps a commit of its own (`Branched`,
`Contained`), so that a rewritten commit is new; that a merge or rebase in progress
has an abort to come or a reason of its own kind (`Known`); and that the latest measurement, in
flight or shown, is of the refs as they are unless something else moved them or one
is still to be taken (`Queued`, `Current`). It gives
`FinishedMerged`, `LeftoversKnown`, `DriftKnown`; `OnlyGrows` is the action property.

Only model-checked: liveness (`FinishedTurnReachesReview`, `UnprovisionedIsTransient`,
`BoardCatchesUp`: fairness and ENABLED are out of the prover's reach). Every
invariant and every action property of a passing run is a theorem.

## 5. Where code and documents disagree

Two are runs that TLC must find violated. The others are properties stated in the
modules; the configuration named with each, run on its MC module, gives the
counterexample.

1. **A Stop between two clears is stranded** (`NoStrandedStop`,
   `AgentHealthStranded.cfg`). `clear_structural_no_drain` is two transactions, and
   the second deletes shells without draining. `docs/specs/agent-health.allium:520-521`
   says no write commits into that state; its argument omits the shells.
2. **A withheld Stop leaves Running with the card** (`PendingStopOnlyWhileRunning`,
   `AgentHealthCarried.cfg`). `update_task` decides from a read made before the patch.
3. **A slow prompt voids the Stop of its own turn** (`PromptSparesItsOwnTurn`,
   `AgentHooksSlowStamp.cfg`). Event times are read by the processes, so they order
   the processes and not the events.
4. **An errored claim may have been written** (`SettledTaskHasItsAgent`,
   `DispatchClaimError.cfg`). The clear after the claim can fail, and no caller
   releases.
5. **Retry-fresh past the deadline lets a second worker in**
   (`DispatchClaimExclusive`, `DispatchRetrySlow.cfg`), what `DispatchingTimeout`
   gives as its reason for not releasing the claim.
6. **Retry-fresh's teardown removes the new agent's directory**
   (`AgentKeepsItsWorktree`, `DispatchRetryTeardown.cfg`).
7. **A crash report reopens a finished task** (run `board_resurrects`,
   `FinishedStaysFinished`). The board judges a lost window by its own card and
   persists the whole card.
8. **Un-grouping a feed does not heal** (run `feed_ungroup`, `UngroupingHeals`). The
   flat sync re-homes the rows of RepoGroup sub-epics only, and the grouped sync's
   are not of that origin.
9. **Two calls can make two successors** (`OneSuccessor`, `SessionCloseTwice.cfg`).
   `respawn_phoenix` tests the flag, the transaction that inserts does not.
10. **Hook writes do not move the watermark** (`BoardSeesHooks`, `BoardSyncBlind.cfg`).
    `total_changes()` counts the changes of its own connection.
11. **A failed finish or sync leaves more than a failed abort**
    (`OnlyAFailedAbortLeaves`, `BaseBranchHalfDone.cfg`): a killed rebase, a pull that
    conflicts, and a sync's merge killed at its timeout.
12. **A reroute unarchives a group and recalculates nothing**
    (`UnarchivingRecalculates`, `EpicTreeUnarchives.cfg`). `update_task` with the
    task's own `repo_path` leads `reroute_on_repo_change` back to the task's own
    group; `create_repo_group_sub_epic` reopens it if it was archived, and the
    function returns because the task is already there. A done root stays done above
    a group that is open again, where `grouping.rs:4-5` says that each function
    recalculates the epics it mutates.
13. **Two reparentings close a cycle.** `epics` checks `AcyclicUnlessRaced`; with
    `Acyclic` as the invariant TLC finds it.
14. **A late subscription stays behind a finished target.** `session_close` checks
    `WatchersAreServed`; with `NoForgottenWatch` TLC finds it.
15. **A close kills the window it read** and clears another: `NoOrphanSession` names
    the case (`crossed`). The same name covers a restart between a close's write and
    its kill, which no document speaks of.
16. **A sub-status patch can land on a row that has left Running**: `PairIsValid`
    names the case (`raced`).

`OnlyRacesBreakTheStop`, in `health`, bounds 1 and 2: a step that breaks what the
hooks keep of a withheld Stop is a patch decided from an outdated read, a clear of
shells with a Stop withheld since the clear of subagents, or the release of a claim
with a Stop withheld after its clears, and nothing else.

Met while modelling, without a document that says otherwise: a failed refresh of the
board stores its watermark all the same, so that what it did not read stays hidden
until the next write (`ListFails`); a card whose own write failed stays on the board
as if it had been written (`WriteFails`); the MCP `update_epic`
writes `group_by_repo` without regrouping (`SetFlag`); `delete_task` recalculates no
epic (`DeleteTask`); a bulk delete by a feed notifies no watcher; marking a Done task
done again dispatches the next subtask again (`ChainFollowsAClose` counts it as a
close); a sync whose merge is refused because another one is in progress aborts that
other one (`SyncAborts`).

## 6. Not modelled

* The rest of components listed as partly modelled, named in `PROJECT.json`:
  PostToolUse and Notification stamps, the choice among several Backlog tasks,
  deletion of a watcher itself, creation and deletion of whole epics by hand,
  parsing of a feed's output, moves to and from Backlog on the board, checkouts
  without an origin, the order of the two cleanup steps of an archive.
* A process that ends in the middle of a provisioning, or between a feed's delete of
  a row and its teardown, and a feed cycle that panics: restarts are modelled in
  `SessionClose` alone.
* Editor session and split pane: one pinned pane, driven by the user from the one
  event loop; almost all of it is tmux calls whose failure shows a popup.
* Pull-request polling: one request per task against `gh`, ending in a write that
  `BoardSync` and `AgentHealth` have.
* Learnings, embeddings, todos, usage, budget, settings: single-statement CRUD and
  ranking, with no interleaving of their own.
* Migrations: straight-line SQL run once; a model would restate it.
* MCP transport, prompts, trust, setup, CLI trees, notifications, key handling and
  drawing: text, decoding and display. The wrappers of tmux, git and processes are
  in the actions that call them. Together these are the larger part of the source,
  tests aside, and the reason why the models cover a small share of its lines.
