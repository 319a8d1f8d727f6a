----------------------------- MODULE AgentHealth ----------------------------
(***************************************************************************)
(* AgentHooks together with the other writers of the same row: the board   *)
(* and the MCP server, whose operations are several database calls with    *)
(* hook commits of other processes in between.  An operation is a program  *)
(* (todo) of such calls; each step below is one of them.                   *)
(*                                                                         *)
(* Added to the row: its two pointers, worktree and tmux_window (panel);   *)
(* window says whether Claude runs in the task's tmux window.              *)
(***************************************************************************)
EXTENDS AgentHooks, Sequences

CONSTANTS
    BoardCallers,      \* the board: its command loop, and a dispatch in the background
    McpCallers         \* MCP requests under way

Services == BoardCallers \cup McpCallers

VARIABLES
    worktree, panel,   \* the row's worktree and tmux_window pointers: set or NULL
    window,            \* Claude runs in the task's window
    ops                \* per caller: the operation under way
healthVars == <<vars, worktree, panel, window, ops>>

Steps == {"read", "patch", "claim", "clearSubagents", "clearShells",
          "provision", "record", "drain"}
Pointers == {"keep", "unpanel", "null", "set"}    \* what a patch writes to them
Operations == [todo : Seq(Steps), prior : Statuses, next : Statuses, pointers : Pointers]
Idle == [todo |-> <<>>, prior |-> "backlog", next |-> "backlog", pointers |-> "keep"]
Persist == <<"read", "patch">>
ClearStructuralNoDrain == <<"clearSubagents", "clearShells">>
(* The board persists the launched card whole, the service its pointers.   *)
Dispatch(c) == <<"claim">> \o ClearStructuralNoDrain \o <<"provision">>
               \o (IF c \in BoardCallers THEN Persist ELSE <<"record">>)

HealthTypeOK ==
    /\ TypeOK
    /\ worktree \in BOOLEAN /\ panel \in BOOLEAN /\ window \in BOOLEAN
    /\ ops \in [Services -> Operations]

-----------------------------------------------------------------------------
(* Operations begin: what the board or an MCP call has decided to do, from *)
(* the row as it is now (the board's snapshot being fresh).                *)

Begin(c, todo, next, ptrs) ==
    /\ ops[c].todo = <<>>
    /\ ops' = [ops EXCEPT ![c] =
                 [todo |-> todo, prior |-> "backlog", next |-> next, pointers |-> ptrs]]

(* The window's Claude is gone, and all it ran with it, unreported.        *)
Gone(states) == [k \in DOMAIN states |-> IF states[k] = "live" THEN "ended" ELSE states[k]]
WindowKilled ==
    /\ window' = FALSE
    /\ turn' = "idle" /\ agents' = Gone(agents) /\ shells' = Gone(shells)
    /\ UNCHANGED <<row, hooks, session, clock>>

(* update_task: an MCP call or a board move.                               *)
UpdateTask(c) ==
    /\ \E next \in Statuses : Begin(c, Persist, next, "keep")
    /\ UNCHANGED <<vars, worktree, panel, window>>

(* close_session: the window is killed after the terminal write.           *)
CloseSession(c) ==
    /\ c \in McpCallers /\ window
    /\ \E next \in {"review", "done"} : Begin(c, Persist, next, "unpanel")
    /\ UNCHANGED <<vars, worktree, panel, window>>

DispatchTask(c) ==
    /\ status = "backlog"
    /\ Begin(c, Dispatch(c), "running", "set")
    /\ UNCHANGED <<vars, worktree, panel, window>>

(* For a crashed, an unprovisioned or a stale agent, the last with its     *)
(* window still up.  The teardown that kills it is one of the board's      *)
(* background commands: WindowDies.                                        *)
RetryFresh(c) ==
    /\ c \in BoardCallers /\ status = "running"
    /\ Begin(c, Persist \o Dispatch(c), "backlog", "null")
    /\ UNCHANGED <<vars, worktree, panel, window>>

(* The tick finds the window of a Running task gone.                       *)
AgentCrashed(c) ==
    /\ c \in BoardCallers /\ status = "running" /\ panel /\ ~window
    /\ Begin(c, Persist \o ClearStructuralNoDrain, "running", "unpanel")
    /\ UNCHANGED <<vars, worktree, panel, window>>

(* Detach kills the window, persists the card as it stands, then drains.   *)
DetachTmux(c) ==
    /\ c \in BoardCallers /\ panel
    /\ Begin(c, Persist \o <<"drain">>, status, "unpanel")
    /\ WindowKilled
    /\ UNCHANGED <<worktree, panel>>

(* Resume opens a window on the kept worktree and persists Running.        *)
Resume(c) ==
    /\ c \in BoardCallers
    /\ status \in {"running", "review", "done"} /\ worktree /\ ~panel
    /\ Begin(c, Persist, "running", "set")
    /\ window' = TRUE /\ SessionStarts
    /\ UNCHANGED <<worktree, panel>>

-----------------------------------------------------------------------------
(* The steps.  Doing(c, s) is the s at the head of c's program.            *)

Doing(c, s) == ops[c].todo # <<>> /\ Head(ops[c].todo) = s
Finish(c) == ops' = [ops EXCEPT ![c] = Idle]
Done(c, op) ==
    IF Len(op.todo) = 1 THEN Finish(c)
    ELSE ops' = [ops EXCEPT ![c] = [op EXCEPT !.todo = Tail(@)]]
WritePointers(ptrs) ==
    /\ worktree' = (ptrs = "set" \/ (worktree /\ ptrs # "null"))
    /\ panel' = (ptrs = "set" \/ (panel /\ ptrs = "keep"))

ReadPrior(c) ==
    /\ Doing(c, "read")
    /\ Done(c, [ops[c] EXCEPT !.prior = status])
    /\ UNCHANGED <<vars, worktree, panel, window>>

(* Mutant: only a move to Done clears the withheld Stop.                   *)
ClearsPendingStopOnDone(prior, next) == prior = "running" /\ next = "done"
ClearsPendingStop(prior, next) == prior = "running" /\ next # "running"

(* Once patched, what the operation read and decided is of no more use.    *)
Patch(c) ==
    /\ Doing(c, "patch") /\ Done(c, [Idle EXCEPT !.todo = ops[c].todo])
    /\ status' = ops[c].next
    /\ stopPending' = (stopPending /\ ~ClearsPendingStop(ops[c].prior, ops[c].next))
    /\ WritePointers(ops[c].pointers)
    /\ UNCHANGED <<stopPendingAt, subagentTable, shellTable, hooks, claude, window>>

TryClaimBacklogTask(c) ==
    /\ Doing(c, "claim")
    /\ \/ /\ status = "backlog" /\ status' = "running"
          /\ Done(c, [ops[c] EXCEPT !.next = "running", !.pointers = "set"])
       \/ /\ status # "backlog" /\ UNCHANGED status
          /\ Finish(c)
    /\ UNCHANGED <<stopPending, stopPendingAt, subagentTable, shellTable,
                   hooks, claude, worktree, panel, window>>

ClearSubagents(c) ==
    /\ Doing(c, "clearSubagents") /\ Done(c, ops[c])
    /\ SubagentClearAndVoidPendingStop
    /\ UNCHANGED <<hooks, claude, worktree, panel, window>>

ClearShells(c) ==
    /\ Doing(c, "clearShells") /\ Done(c, ops[c])
    /\ WriteShells(NoRows(ShellIds))
    /\ UNCHANGED <<flags, subagentTable, hooks, claude, worktree, panel, window>>

SubagentClear(c) ==
    /\ Doing(c, "drain") /\ Done(c, ops[c])
    /\ WriteSubagents(NoRows(AgentIds)) /\ WriteShells(NoRows(ShellIds))
    /\ ApplyPendingStopIfDrained
    /\ UNCHANGED <<stopPendingAt, hooks, claude, worktree, panel, window>>

(* While another window bears the task's name the launch is refused.       *)
Provision(c) ==
    /\ Doing(c, "provision") /\ ~window /\ Done(c, ops[c])
    /\ window' = TRUE /\ SessionStarts
    /\ UNCHANGED <<worktree, panel>>
TryReleaseBacklogClaim(c) ==
    /\ Doing(c, "provision") /\ Finish(c)
    /\ status' = IF status = "running" /\ ~worktree THEN "backlog" ELSE status
    /\ UNCHANGED <<stopPending, stopPendingAt, subagentTable, shellTable,
                   hooks, claude, worktree, panel, window>>

RecordLaunch(c) ==
    /\ Doing(c, "record") /\ Done(c, ops[c])
    /\ WritePointers(ops[c].pointers)
    /\ UNCHANGED <<vars, window>>

-----------------------------------------------------------------------------
(* The window dies: the agent exits or crashes, or tmux kills it.          *)
WindowDies ==
    /\ window /\ WindowKilled
    /\ UNCHANGED <<worktree, panel, ops>>

HealthInit ==
    /\ Init
    /\ worktree = TRUE /\ panel = TRUE /\ window = TRUE
    /\ ops = [c \in Services |-> Idle]

ServiceBegins(c) ==
    \/ UpdateTask(c) \/ CloseSession(c) \/ DispatchTask(c) \/ RetryFresh(c)
    \/ AgentCrashed(c) \/ DetachTmux(c) \/ Resume(c)
ServiceSteps(c) ==
    \/ ReadPrior(c) \/ Patch(c) \/ TryClaimBacklogTask(c)
    \/ ClearSubagents(c) \/ ClearShells(c) \/ SubagentClear(c)
    \/ Provision(c) \/ TryReleaseBacklogClaim(c) \/ RecordLaunch(c)

SessionStep ==
    /\ (window /\ ClaudeStep) \/ HookStep
    /\ UNCHANGED <<worktree, panel, window, ops>>

HealthNext ==
    \/ SessionStep \/ WindowDies
    \/ \E c \in Services : ServiceBegins(c) \/ ServiceSteps(c)

HealthSpec == HealthInit /\ [][HealthNext]_healthVars

-----------------------------------------------------------------------------
(* The row stays well formed, with the counters of its tables; and three   *)
(* races, and nothing else, break what the hooks keep of a withheld Stop   *)
(* (NoStrandedStop, PendingStopOnlyWhileRunning): a status write that      *)
(* decided what to clear from a row some hook has flipped since; a Stop    *)
(* withheld between the two transactions of clear_structural_no_drain; and *)
(* one withheld after them, when the claim is then released.               *)
StopIsSound == NoStrandedStop /\ PendingStopOnlyWhileRunning
Race(c) ==
    \/ Doing(c, "patch") /\ ops[c].prior # status
    \/ Doing(c, "clearShells") /\ stopPending
    \/ Doing(c, "provision") /\ status' = "backlog"
BrokenByRace == StopIsSound /\ ~StopIsSound' => \E c \in Services : Race(c)
OnlyRacesBreakTheStop ==
    [](HealthTypeOK /\ LiveCountsMatchEntries) /\ [][BrokenByRace]_healthVars
=============================================================================
