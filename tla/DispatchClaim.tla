--------------------------- MODULE DispatchClaim ----------------------------
(***************************************************************************)
(* Dispatching one task: the claim that moves its row from Backlog to      *)
(* Running, the provisioning of its worktree and tmux window, the write    *)
(* that records them and the release that undoes a failed attempt, for     *)
(* every entry point: the board's dispatch key, MCP dispatch_task, the     *)
(* epic chain, and the board's retry-fresh with its background teardown.   *)
(*                                                                         *)
(* The row keeps status, the worktree and tmux_window pointers (set or     *)
(* NULL; both names are functions of the task) and whether                 *)
(* last_pre_tool_use_at is younger than the watchdog deadline.  The board  *)
(* works from a snapshot of the row.                                       *)
(* Abstracted: sub_status, the epic recalculation, and the counters that   *)
(* clear_structural_no_drain resets (see AgentHealth).                     *)
(***************************************************************************)
EXTENDS Naturals, FiniteSets

CONSTANTS
    BoardCalls, McpCalls, ChainCalls,  \* dispatch attempts, by entry point
    Kept                               \* may a Backlog task start with a worktree?

Attempts == BoardCalls \cup McpCalls \cup ChainCalls

ASSUME CallsAssumption ==
    /\ BoardCalls \cap (McpCalls \cup ChainCalls) = {}
    /\ Kept \subseteq BOOLEAN

VARIABLES
    status, worktree, window, recent,   \* the row
    onDisk, windows,            \* the worktree directory; the windows named task-<id>
    spared,                     \* of these, the shells a failed attempt's rollback left
    pc, reused,                 \* per attempt
    seen, dispatching,          \* the board: its snapshot, its spinner marker
    cleanup                     \* the board's background teardown of retry-fresh

row == <<status, worktree, window, recent>>
resources == <<onDisk, windows, spared>>
attempts == <<pc, reused>>
board == <<seen, dispatching>>
vars == <<row, resources, attempts, board, cleanup>>

Statuses == {"backlog", "running", "review"}
Phases == {"idle", "claim", "clear", "measure", "add", "launch", "failed", "launched"}
Snapshots == [status : Statuses, worktree : BOOLEAN, window : BOOLEAN, recent : BOOLEAN]
Snapshot == [status |-> status, worktree |-> worktree, window |-> window, recent |-> recent]

TypeOK ==
    /\ status \in Statuses /\ worktree \in BOOLEAN /\ window \in BOOLEAN /\ recent \in BOOLEAN
    /\ onDisk \in BOOLEAN /\ windows \subseteq Attempts /\ spared \subseteq windows
    /\ pc \in [Attempts -> Phases] /\ reused \in [Attempts -> BOOLEAN]
    /\ seen \in Snapshots /\ dispatching \in BOOLEAN
    /\ cleanup \in {"none", "remove", "succeeded"}

(* An attempt that won the claim and has not ended.                        *)
Holds(a) == pc[a] \notin {"idle", "claim"}

(* The windows an agent was launched in.                                   *)
AgentWindows == windows \ spared

-----------------------------------------------------------------------------
Goto(a, phase) == pc' = [pc EXCEPT ![a] = phase]
At(a, phase) == pc[a] = phase
Idle(a) == pc[a] = "idle" /\ a \notin windows    \* bound: one window per attempt

(* The command loop awaits a claim, so no board message is handled meanwhile. *)
BoardFree == \A a \in BoardCalls : pc[a] \notin {"claim", "clear"}

(* The end of a board attempt, whichever message reports it, drains the    *)
(* task's spinner marker.                                                  *)
EndAttempt(a) ==
    /\ Goto(a, "idle")
    /\ dispatching' = (dispatching /\ a \notin BoardCalls)

(* dispatch_task and auto_dispatch_next: no guard but the claim itself.    *)
CallDispatch(a) ==
    /\ a \notin BoardCalls /\ Idle(a) /\ Goto(a, "claim")
    /\ UNCHANGED <<row, resources, reused, board, cleanup>>

(* handle_dispatch_task, from the board's snapshot.                        *)
BoardDispatch(a) ==
    /\ a \in BoardCalls /\ Idle(a) /\ BoardFree
    /\ ~dispatching /\ seen.status = "backlog"
    /\ dispatching' = TRUE /\ Goto(a, "claim")
    /\ UNCHANGED <<row, resources, reused, seen, cleanup>>

(* Mutant: the claim writes Running without its Backlog guard.             *)
TryClaimUnguarded(a) ==
    /\ At(a, "claim") /\ Goto(a, "clear")
    /\ status' = "running" /\ recent' = TRUE
    /\ UNCHANGED <<worktree, window, resources, reused, board, cleanup>>
(* try_claim_backlog_task and the by-epic claim; a lost claim ends the     *)
(* attempt (ClaimLost, DispatchAbandoned).                                 *)
TryClaim(a) ==
    /\ At(a, "claim")
    /\ \/ /\ status = "backlog"
          /\ status' = "running" /\ recent' = TRUE
          /\ Goto(a, "clear") /\ UNCHANGED dispatching
       \/ /\ status # "backlog" /\ EndAttempt(a)
          /\ UNCHANGED <<status, recent>>
    /\ UNCHANGED <<worktree, window, resources, reused, seen, cleanup>>

ClearStructural(a) ==
    /\ At(a, "clear") /\ Goto(a, "measure")
    /\ UNCHANGED <<row, resources, reused, board, cleanup>>
(* clear_structural_no_drain fails: its `?` makes the whole claim an Err.  *)
ClaimErrors(a) ==
    /\ At(a, "clear") /\ EndAttempt(a)
    /\ UNCHANGED <<row, resources, reused, seen, cleanup>>

(* provision_worktree: does the directory exist?  Then the fetch, then     *)
(* `git worktree add` unless it does.                                      *)
MeasureReuse(a) ==
    /\ At(a, "measure") /\ Goto(a, "add")
    /\ reused' = [reused EXCEPT ![a] = onDisk]
    /\ UNCHANGED <<row, resources, board, cleanup>>
AddWorktree(a) ==
    /\ At(a, "add") /\ (reused[a] \/ ~onDisk)
    /\ onDisk' = (onDisk \/ ~reused[a])
    /\ Goto(a, "launch")
    /\ UNCHANGED <<row, windows, spared, reused, board, cleanup>>
ProvisionFails(a) ==
    /\ pc[a] \in {"measure", "add"} /\ Goto(a, "failed")
    /\ UNCHANGED <<row, resources, reused, board, cleanup>>

(* The keystroke that starts the agent, the last step that can fail, goes  *)
(* to the window by name: window_target refuses a name two windows bear.   *)
LaunchAgent(a) ==
    /\ At(a, "launch") /\ onDisk /\ windows = {}
    /\ windows' = {a}
    /\ Goto(a, "launched")
    /\ UNCHANGED <<row, onDisk, spared, reused, board, cleanup>>

(* kill_window_if_present in the rollback.  The windows that bear the name *)
(* stay when the query fails (the kill is skipped), when the kill fails,   *)
(* and when there are two of them.                                         *)
KillWindow(open) ==
    windows' \in (IF Cardinality(open) = 1 THEN {open, {}} ELSE {open})

(* Mutant: the keystroke is sent before the last step that can fail, so    *)
(* the window a rollback leaves has an agent in it.                        *)
LaunchFailsAfterKeystroke(a) ==
    /\ At(a, "launch") /\ Goto(a, "failed")
    /\ KillWindow(windows) \/ KillWindow(windows \cup {a})
    /\ spared' = windows' \cap spared
    /\ onDisk' \in (IF reused[a] THEN {onDisk} ELSE {onDisk, FALSE})
    /\ UNCHANGED <<row, reused, board, cleanup>>
(* Mutant: the rollback removes the worktree it reused, too.               *)
LaunchFailsRemovesReused(a) ==
    /\ At(a, "launch") /\ Goto(a, "failed")
    /\ KillWindow(windows) \/ KillWindow(windows \cup {a})
    /\ spared' = windows' \cap (spared \cup {a})
    /\ onDisk' \in {onDisk, FALSE}
    /\ UNCHANGED <<row, reused, board, cleanup>>
(* rollback_failed_provisioning, the window opened or not.  Its teardown   *)
(* is best effort and only logged: the window may stay (see KillWindow),   *)
(* and the worktree may be removed under it or stay; a reused one stays.   *)
LaunchFails(a) ==
    /\ At(a, "launch") /\ Goto(a, "failed")
    /\ KillWindow(windows) \/ KillWindow(windows \cup {a})
    /\ spared' = windows' \cap (spared \cup {a})
    /\ onDisk' \in (IF reused[a] THEN {onDisk} ELSE {onDisk, FALSE})
    /\ UNCHANGED <<row, reused, board, cleanup>>

(* The service records where the agent landed.                             *)
RecordLaunch(a) ==
    /\ At(a, "launched") /\ a \notin BoardCalls /\ EndAttempt(a)
    /\ worktree' = TRUE /\ window' = TRUE
    /\ UNCHANGED <<status, recent, resources, reused, seen, cleanup>>
(* handle_dispatched: the board persists its own copy of the card.         *)
Dispatched(a) ==
    /\ At(a, "launched") /\ a \in BoardCalls /\ BoardFree /\ EndAttempt(a)
    /\ status' = "running" /\ worktree' = TRUE /\ window' = TRUE
    /\ seen' = [status |-> "running", worktree |-> TRUE, window |-> TRUE, recent |-> TRUE]
    /\ UNCHANGED <<recent, resources, reused, cleanup>>

(* Mutant: a failed attempt never hands its claim back.                    *)
NeverReleases(a) ==
    /\ At(a, "failed") /\ EndAttempt(a)
    /\ UNCHANGED <<row, resources, reused, seen, cleanup>>
(* try_release_backlog_claim, for the attempt whose provisioning failed.   *)
TryReleaseBacklogClaim(a) ==
    /\ At(a, "failed") /\ (a \in BoardCalls => BoardFree) /\ EndAttempt(a)
    /\ IF status = "running" /\ ~worktree
         THEN status' = "backlog" /\ recent' = FALSE
         ELSE UNCHANGED <<status, recent>>
    /\ UNCHANGED <<worktree, window, resources, reused, seen, cleanup>>

-----------------------------------------------------------------------------
(* The board's refresh and its clock.                                      *)
Refresh ==
    /\ BoardFree
    /\ seen' = Snapshot
    /\ UNCHANGED <<row, resources, attempts, dispatching, cleanup>>

(* The deadline passes: the marker is dropped and the claim's stamp is     *)
(* old.  The claim is not released.                                        *)
WatchdogElapses ==
    /\ BoardFree
    /\ recent' = FALSE /\ seen' = [seen EXCEPT !.recent = FALSE]
    /\ dispatching' = FALSE
    /\ UNCHANGED <<status, worktree, window, resources, attempts, cleanup>>

(* The launched agent's Stop hook flips the card; a prompt resumes it.     *)
AgentReports ==
    /\ AgentWindows # {}
    /\ \/ status = "running" /\ status' = "review"
       \/ status = "review" /\ status' = "running"
    /\ UNCHANGED <<worktree, window, recent, resources, attempts, board, cleanup>>

(* A window closes; the user's part after "close the duplicate windows".   *)
Close(w) ==
    /\ windows' = windows \ {w} /\ spared' = spared \ {w}
    /\ UNCHANGED <<row, onDisk, attempts, board, cleanup>>
LeftoverCloses == \E w \in spared : Close(w)

-----------------------------------------------------------------------------
(* The agent's window goes, and the board's tick notices: handle_window_gone *)
(* persists the running card without it, crashed.                          *)
WindowDies == \E w \in AgentWindows : Close(w)
AgentCrashed ==
    /\ BoardFree /\ seen.status = "running" /\ seen.window /\ windows = {}
    /\ seen' = [seen EXCEPT !.window = FALSE]
    /\ status' = "running" /\ worktree' = seen.worktree /\ window' = FALSE
    /\ UNCHANGED <<recent, resources, attempts, dispatching, cleanup>>

(* Mutant: retry-fresh does not ask whether a dispatch may be in flight.   *)
RetryFreshUngated(a) ==
    /\ a \in BoardCalls /\ Idle(a) /\ BoardFree /\ cleanup = "none"
    /\ seen.status = "running" /\ ~seen.window
    /\ status' = "backlog" /\ worktree' = FALSE /\ window' = FALSE
    /\ seen' = [seen EXCEPT !.status = "backlog", !.worktree = FALSE]
    /\ dispatching' = TRUE /\ Goto(a, "claim")
    /\ UNCHANGED <<recent, resources, reused, cleanup>>
(* Retry-fresh, from the snapshot: offered for a crashed agent, or for an  *)
(* unprovisioned task with no dispatch that may be in flight.  The         *)
(* commands run in order: spawn the teardown, persist Backlog with both    *)
(* pointers NULL, dispatch.                                                *)
RetryFresh(a) ==
    /\ a \in BoardCalls /\ Idle(a) /\ BoardFree /\ cleanup = "none"
    /\ seen.status = "running" /\ ~seen.window
    /\ seen.worktree \/ (~dispatching /\ ~seen.recent)
    /\ cleanup' = IF seen.worktree THEN "remove" ELSE "none"
    /\ status' = "backlog" /\ worktree' = FALSE /\ window' = FALSE
    /\ seen' = [seen EXCEPT !.status = "backlog", !.worktree = FALSE]
    /\ dispatching' = TRUE /\ Goto(a, "claim")
    /\ UNCHANGED <<recent, resources, reused>>

(* teardown_task, in the background, then CleanupSucceeded or CleanupFailed. *)
RemoveWorktree ==
    /\ cleanup = "remove"
    /\ \/ onDisk' = FALSE /\ cleanup' = "succeeded"
       \/ UNCHANGED onDisk /\ cleanup' = "none"
    /\ UNCHANGED <<row, windows, spared, attempts, board>>
ClearWorktreePointer ==
    /\ cleanup = "succeeded" /\ BoardFree /\ cleanup' = "none"
    /\ worktree' = FALSE /\ window' = FALSE
    /\ seen' = [seen EXCEPT !.worktree = FALSE, !.window = FALSE]
    /\ UNCHANGED <<status, recent, resources, attempts, dispatching>>

-----------------------------------------------------------------------------
Init ==
    /\ status = "backlog" /\ worktree \in Kept
    /\ window = FALSE /\ recent = FALSE
    /\ onDisk = worktree /\ windows = {} /\ spared = {}
    /\ pc = [a \in Attempts |-> "idle"] /\ reused = [a \in Attempts |-> FALSE]
    /\ seen = Snapshot
    /\ dispatching = FALSE /\ cleanup = "none"

Begins(a) == CallDispatch(a) \/ BoardDispatch(a)
Provisions(a) ==
    \/ TryClaim(a) \/ ClearStructural(a) \/ MeasureReuse(a) \/ AddWorktree(a)
    \/ ProvisionFails(a) \/ LaunchAgent(a) \/ LaunchFails(a)
Ends(a) == RecordLaunch(a) \/ Dispatched(a) \/ TryReleaseBacklogClaim(a)
Background == Refresh \/ AgentReports \/ LeftoverCloses

(* Dispatch, chain and MCP calls in any number, with the failures the code *)
(* unwinds.                                                                *)
AttemptNext == Background \/ \E a \in Attempts : Begins(a) \/ Provisions(a) \/ Ends(a)
ClaimNext == AttemptNext \/ WatchdogElapses
ClaimSpec == Init /\ [][ClaimNext]_vars
(* A started attempt goes on: each of its subprocesses returns (the code   *)
(* times out the git calls and new-window; of the rest it is assumed), its *)
(* outcome is reported even when it panics, and the board takes messages   *)
(* in order, so that other messages cannot delay this one for ever.        *)
FairClaimSpec ==
    ClaimSpec /\ \A a \in Attempts : WF_vars(Provisions(a)) /\ SF_vars(Ends(a))

(* ... and a database error after the claim landed.                        *)
ErrorSpec == Init /\ [][ClaimNext \/ \E a \in Attempts : ClaimErrors(a)]_vars

(* ... and retry-fresh; InTime: with every attempt over by its deadline.   *)
RetryInTimeNext ==
    \/ AttemptNext \/ WindowDies \/ AgentCrashed \/ RemoveWorktree \/ ClearWorktreePointer
    \/ \E a \in BoardCalls : RetryFresh(a)
RetryInTimeSpec == Init /\ [][RetryInTimeNext]_vars
RetryNext == RetryInTimeNext \/ WatchdogElapses
RetrySpec == Init /\ [][RetryNext]_vars

-----------------------------------------------------------------------------
(* At most one attempt at a time has won the claim and not ended, however  *)
(* many entry points fire: DispatchClaimExclusive of dispatch.allium.      *)
DispatchClaimExclusive ==
    \A a, b \in Attempts : Holds(a) /\ Holds(b) => a = b

(* No attempt is being provisioned on a card the board offers to dispatch. *)
HeldTaskIsNotBacklog == (\E a \in Attempts : Holds(a)) => status # "backlog"

(* With no attempt under way, a task that left Backlog has its agent: a    *)
(* window with an agent in it, the directory, and the pointer to it.       *)
Settled == \A a \in Attempts : ~Holds(a)
SettledTaskHasItsAgent ==
    Settled /\ cleanup = "none" /\ status # "backlog" =>
        AgentWindows # {} /\ onDisk /\ worktree

(* A failed dispatch leaves the task dispatchable: in Backlog, with the    *)
(* directory it found, no agent, and no window of its own unless its       *)
(* rollback could not query or kill it.                                    *)
RestoresBacklog ==
    \A a \in Attempts : pc[a] = "failed" /\ pc'[a] = "idle" =>
        /\ status' = "backlog" /\ ~worktree'
        /\ reused[a] => onDisk'
        /\ AgentWindows' = {} /\ (a \in windows' => a \in spared')
FailureRestoresBacklog == [][RestoresBacklog]_vars

(* Nothing removes the worktree under an agent.  Only the shell a failed   *)
(* attempt's rollback left behind may lose its directory.                  *)
AgentKeepsItsWorktree == AgentWindows # {} => onDisk

(* The state is well formed, and both of the above: no second attempt is   *)
(* under way, nor about to be.                                             *)
ClaimIsExclusive == TypeOK /\ DispatchClaimExclusive /\ HeldTaskIsNotBacklog

(* A claimed task does not stay Running without an agent: the claim ends   *)
(* in a launched agent or is handed back.                                  *)
UnprovisionedIsTransient ==
    (status = "running" /\ AgentWindows = {}) ~> (status = "backlog" \/ AgentWindows # {})

(* The claim implements the one-holder lease.  Stuck: out of Backlog with  *)
(* neither holder nor agent, which the lease has no state for.             *)
LeaseOf ==
    IF \E a \in Attempts : Holds(a)
      THEN [state |-> "held", by |-> CHOOSE a \in Attempts : Holds(a)]
      ELSE [state |-> IF status = "backlog" THEN "free"
                      ELSE IF AgentWindows # {} THEN "launched" ELSE "stuck"]
Lease == INSTANCE TaskLease WITH Callers <- Attempts, lease <- LeaseOf
ImplementsLease == Lease!LeaseSpec
=============================================================================
