----------------------------- MODULE AgentHooks -----------------------------
(***************************************************************************)
(* The deferred-Stop protocol: what the Claude Code hooks of one task do   *)
(* to its row.  Every hook runs as a process of its own (plugin/hooks,     *)
(* `dispatch hook...`), which opens the database, reads the clock if its   *)
(* event is timed, and commits ONE transaction.  A Stop that arrives while *)
(* subagents or background shells are live is withheld in stop_pending,    *)
(* and applied by the transaction that drains the last of them.            *)
(*                                                                         *)
(* Modelled: status, stop_pending(_at), the task_subagents and task_shells *)
(* tables and their two counters, and the Claude session that fires the    *)
(* hooks.  Abstracted: sub_status and the activity stamps (no guard below  *)
(* reads them), the epic recalculation that follows a status flip, and the *)
(* PreToolUse and Notification hooks, which write neither of the above.    *)
(***************************************************************************)
EXTENDS Naturals, FiniteSets

CONSTANTS
    AgentIds,      \* subagents the task's sessions may launch; an id is never reused
    ShellIds,      \* background shells, ditto
    MaxSession,    \* bound: sessions 1..MaxSession
    MaxTime,       \* bound: event times 1..MaxTime, 0 is SQL NULL
    MaxInFlight,   \* bound: hook processes fired and not yet committed
    Awaited        \* TRUE: whoever fired a hook waits for its exit before going on

ASSUME IdsAssumption ==
    /\ IsFiniteSet(AgentIds) /\ IsFiniteSet(ShellIds)
    /\ AgentIds \cap ShellIds = {}
ASSUME BoundsAssumption ==
    /\ MaxSession \in Nat \ {0} /\ MaxTime \in Nat \ {0}
    /\ MaxInFlight \in Nat
    /\ Awaited \in BOOLEAN

Statuses == {"backlog", "running", "review", "done"}
NoSession == 0                       \* no row under this key
Sessions == 1..MaxSession
NoTime == 0                          \* stop_pending_at IS NULL
Times == 1..MaxTime

VARIABLES
    status, stopPending, stopPendingAt,
    taskSubagents, taskShells,       \* the tables: key -> session_id of its row
    liveSubagents, liveShells,       \* the denormalised counters on the row
    hooks,                           \* hook processes between event and commit
    session, turn, agents, shells,   \* the Claude session behind the hooks
    clock

flags == <<status, stopPending, stopPendingAt>>
subagentTable == <<taskSubagents, liveSubagents>>
shellTable == <<taskShells, liveShells>>
row == <<flags, subagentTable, shellTable>>
claude == <<session, turn, agents, shells, clock>>
vars == <<row, hooks, claude>>

TimedKinds == {"stop", "prompt"}
SubKinds == {"subStart", "subStop"}
ShellKinds == {"shellStart", "shellStop"}
NoId == "none"
Hooks ==
    [kind : TimedKinds, at : Times \cup {NoTime}, session : Sessions, id : {NoId}]
    \cup [kind : {"sessionStart"}, at : {NoTime}, session : Sessions, id : {NoId}]
    \cup [kind : SubKinds, at : {NoTime}, session : Sessions, id : AgentIds]
    \cup [kind : ShellKinds, at : {NoTime}, session : Sessions, id : ShellIds]

RowTypeOK ==
    /\ status \in Statuses /\ stopPending \in BOOLEAN
    /\ stopPendingAt \in Times \cup {NoTime}
    /\ taskSubagents \in [AgentIds -> Sessions \cup {NoSession}]
    /\ taskShells \in [ShellIds -> Sessions \cup {NoSession}]
    /\ liveSubagents \in Nat /\ liveShells \in Nat
ClaudeTypeOK ==
    /\ session \in Sessions \cup {NoSession} /\ turn \in {"working", "idle"}
    /\ agents \in [AgentIds -> {"new", "live", "ended"}]
    /\ shells \in [ShellIds -> {"new", "live", "ended"}]
    /\ clock \in Times
TypeOK == RowTypeOK /\ hooks \subseteq Hooks /\ ClaudeTypeOK

-----------------------------------------------------------------------------
(* The transactions.  Each operator is one committed write.                *)

Rows(table) == {k \in DOMAIN table : table[k] # NoSession}
NoRows(keys) == [k \in keys |-> NoSession]
Fence(table, s) ==
    [k \in DOMAIN table |-> IF table[k] = s THEN s ELSE NoSession]

(* Mutant: the counter is kept by steps of one, not recounted.             *)
CountBySteps(table) ==
    /\ taskSubagents' = table
    /\ liveSubagents' = IF Cardinality(Rows(table)) > Cardinality(Rows(taskSubagents))
                          THEN liveSubagents + 1 ELSE liveSubagents - 1
WriteSubagents(table) ==
    /\ taskSubagents' = table
    /\ liveSubagents' = Cardinality(Rows(table))
(* Mutant: the counter is not synchronised.                                *)
WriteShellsUnsynced(table) == taskShells' = table /\ UNCHANGED liveShells
WriteShells(table) ==
    /\ taskShells' = table
    /\ liveShells' = Cardinality(Rows(table))

(* Mutant: subagents are not counted as live work.                         *)
NoShellLive == liveShells = 0
NothingLive == liveSubagents = 0 /\ liveShells = 0

(* Mutant: the flip forgets to clear the bit.                              *)
ApplyStopKeepsBit == status' = "review" /\ UNCHANGED stopPending
ApplyStop == status' = "review" /\ stopPending' = FALSE
(* Mutant: a drain does not apply the withheld Stop.                       *)
DrainWithoutFlip == UNCHANGED <<status, stopPending>>
ApplyPendingStopIfDrained ==
    IF status = "running" /\ stopPending /\ NothingLive'
      THEN ApplyStop ELSE UNCHANGED <<status, stopPending>>

(* Mutant: a Stop that meets live work is dropped.                         *)
TryRecordStopDrops(h) ==
    /\ IF status = "running" /\ NothingLive
         THEN ApplyStop /\ UNCHANGED stopPendingAt ELSE UNCHANGED flags
    /\ UNCHANGED <<subagentTable, shellTable>>
TryRecordStop(h) ==
    /\ \/ /\ status = "running" /\ NothingLive
          /\ ApplyStop
          /\ UNCHANGED stopPendingAt
       \/ /\ status = "running" /\ (liveSubagents > 0 \/ liveShells > 0)
          /\ stopPending' = TRUE /\ stopPendingAt' = h.at
          /\ UNCHANGED status
       \/ /\ status # "running"
          /\ UNCHANGED flags
    /\ UNCHANGED <<subagentTable, shellTable>>

(* Mutant: a prompt voids whatever Stop it finds.                          *)
AlwaysSuperseded(at) == TRUE
Superseded(at) == stopPendingAt = NoTime \/ stopPendingAt < at
RecordUserPromptSubmit(h) ==
    /\ status' = IF status = "review" THEN "running" ELSE status
    /\ stopPending' =
           (stopPending /\ ~(status' = "running" /\ Superseded(h.at)))
    /\ UNCHANGED <<stopPendingAt, subagentTable, shellTable>>

SubagentStart(h) ==
    /\ WriteSubagents([Fence(taskSubagents, h.session) EXCEPT ![h.id] = h.session])
    /\ UNCHANGED <<flags, shellTable>>
SubagentStop(h) ==
    /\ WriteSubagents([Fence(taskSubagents, h.session) EXCEPT ![h.id] = NoSession])
    /\ UNCHANGED <<stopPendingAt, shellTable>>
    /\ ApplyPendingStopIfDrained
(* Mutant: the new session voids the Stop and leaves the rows.             *)
VoidPendingStopOnly ==
    /\ stopPending' = FALSE
    /\ UNCHANGED <<status, stopPendingAt, subagentTable, shellTable>>
SubagentClearAndVoidPendingStop ==
    /\ WriteSubagents(NoRows(AgentIds))
    /\ stopPending' = FALSE
    /\ UNCHANGED <<status, stopPendingAt, shellTable>>

ShellStart(h) ==
    /\ WriteShells([Fence(taskShells, h.session) EXCEPT ![h.id] = h.session])
    /\ UNCHANGED <<flags, subagentTable>>
ShellStop(h) ==
    /\ WriteShells([Fence(taskShells, h.session) EXCEPT ![h.id] = NoSession])
    /\ UNCHANGED <<stopPendingAt, subagentTable>>
    /\ ApplyPendingStopIfDrained

-----------------------------------------------------------------------------
(* Claude Code: which hook processes start, and when.                      *)

Actor(h) == IF h.kind \in SubKinds THEN h.id ELSE "main"
MayFire(actor) ==
    /\ session # NoSession
    /\ Cardinality(hooks) < MaxInFlight
    /\ Awaited => \A h \in hooks : Actor(h) # actor
Hook(kind, at, s, id) == [kind |-> kind, at |-> at, session |-> s, id |-> id]
Fire(h) == h \notin hooks /\ hooks' = hooks \cup {h}

Prompt ==
    /\ MayFire("main")
    /\ turn' = "working" /\ Fire(Hook("prompt", NoTime, session, NoId))
    /\ UNCHANGED <<row, session, agents, shells, clock>>
TurnEnds ==
    /\ MayFire("main") /\ turn # "idle"
    /\ turn' = "idle" /\ Fire(Hook("stop", NoTime, session, NoId))
    /\ UNCHANGED <<row, session, agents, shells, clock>>

(* The main agent launches a subagent with a tool call of its turn.        *)
AgentStarts(a) ==
    /\ MayFire(a) /\ MayFire("main") /\ turn # "idle" /\ agents[a] = "new"
    /\ agents' = [agents EXCEPT ![a] = "live"]
    /\ Fire(Hook("subStart", NoTime, session, a))
    /\ UNCHANGED <<row, session, turn, shells, clock>>
AgentEnds(a) ==
    /\ MayFire(a) /\ agents[a] = "live"
    /\ agents' = [agents EXCEPT ![a] = "ended"]
    /\ Fire(Hook("subStop", NoTime, session, a))
    /\ UNCHANGED <<row, session, turn, shells, clock>>

ShellStarts(i) ==
    /\ MayFire("main") /\ turn # "idle" /\ shells[i] = "new"
    /\ shells' = [shells EXCEPT ![i] = "live"]
    /\ Fire(Hook("shellStart", NoTime, session, i))
    /\ UNCHANGED <<row, session, turn, agents, clock>>
(* A shell's end is only reported when a tool call kills it or polls it,   *)
(* and a later poll may report it again.                                   *)
ShellReportedEnded(i) ==
    /\ MayFire("main") /\ shells[i] # "new"
    /\ shells' = [shells EXCEPT ![i] = "ended"]
    /\ Fire(Hook("shellStop", NoTime, session, i))
    /\ UNCHANGED <<row, session, turn, agents, clock>>

(* startup, resume or clear: no subagent survives it, a shell may.  A      *)
(* resume may keep the session id.                                         *)
SessionStarts ==
    /\ Cardinality(hooks) < MaxInFlight
    /\ Awaited => hooks = {}
    /\ \E s \in {session, session + 1} \cap Sessions :
         /\ session' = s
         /\ Fire(Hook("sessionStart", NoTime, s, NoId))
    /\ turn' = "working"
    /\ agents' = [a \in AgentIds |-> IF agents[a] = "live" THEN "ended" ELSE agents[a]]
    /\ UNCHANGED <<row, shells, clock>>

ClaudeStep ==
    \/ Prompt \/ TurnEnds \/ SessionStarts
    \/ \E a \in AgentIds : AgentStarts(a) \/ AgentEnds(a)
    \/ \E i \in ShellIds : ShellStarts(i) \/ ShellReportedEnded(i)

-----------------------------------------------------------------------------
(* The hook processes.                                                     *)

(* record_hook_event takes the event's time when the process gets there,   *)
(* the database opened; two events may read the same time (a tie).         *)
Unstamped(h) == h.kind \in TimedKinds /\ h.at = NoTime
ReadsClock(h) ==
    /\ Unstamped(h)
    /\ \E t \in {clock, clock + 1} \cap Times :
         /\ clock' = t
         /\ hooks' = (hooks \ {h}) \cup {[h EXCEPT !.at = t]}
    /\ UNCHANGED <<row, session, turn, agents, shells>>

(* The process of hook h commits its transaction and exits.                *)
Commit(h) ==
    /\ ~Unstamped(h)
    /\ hooks' = hooks \ {h}
    /\ \/ h.kind = "stop" /\ TryRecordStop(h)
       \/ h.kind = "prompt" /\ RecordUserPromptSubmit(h)
       \/ h.kind = "subStart" /\ SubagentStart(h)
       \/ h.kind = "subStop" /\ SubagentStop(h)
       \/ h.kind = "shellStart" /\ ShellStart(h)
       \/ h.kind = "shellStop" /\ ShellStop(h)
       \/ h.kind = "sessionStart" /\ SubagentClearAndVoidPendingStop
    /\ UNCHANGED claude

(* A hook killed at its timeout, or locked out of the database, commits    *)
(* nothing.                                                                *)
HookLost(h) ==
    /\ ~Awaited
    /\ hooks' = hooks \ {h}
    /\ UNCHANGED <<row, claude>>

Init ==
    /\ status = "running" /\ stopPending = FALSE /\ stopPendingAt = NoTime
    /\ taskSubagents = NoRows(AgentIds) /\ taskShells = NoRows(ShellIds)
    /\ liveSubagents = 0 /\ liveShells = 0
    /\ hooks = {}
    /\ session = 1 /\ turn = "working" /\ clock = 1
    /\ agents = [a \in AgentIds |-> "new"] /\ shells = [i \in ShellIds |-> "new"]

HookStep == \E h \in hooks : ReadsClock(h) \/ Commit(h)
LossStep == \E h \in hooks : HookLost(h)
Next == ClaudeStep \/ HookStep \/ LossStep

Spec == Init /\ [][Next]_vars

(* Fairness: a started hook process commits, and a subagent, being a       *)
(* bounded job, ends.  Nothing obliges a human to prompt, a turn to end or *)
(* a shell to be polled.                                                   *)
FairSpec ==
    /\ Spec
    /\ \A h \in Hooks : WF_vars(h \in hooks /\ (ReadsClock(h) \/ Commit(h)))
    /\ \A a \in AgentIds : WF_vars(AgentEnds(a))

(* The hooks in any order, none lost.                                      *)
NoLossSpec == Init /\ [][ClaudeStep \/ HookStep]_vars

-----------------------------------------------------------------------------
(* The denormalised counters agree with their tables after every commit    *)
(* (sync_count and sync_shell_state run inside each transaction).          *)
LiveCountsMatchEntries ==
    /\ liveSubagents = Cardinality(Rows(taskSubagents))
    /\ liveShells = Cardinality(Rows(taskShells))

(* No Stop is left withheld with nothing live to drain it: the state that  *)
(* finish_drain and try_record_stop exist to make unreachable.             *)
NoStrandedStop == ~(status = "running" /\ stopPending /\ NothingLive)

(* A withheld Stop belongs to a Running turn: every hook write that leaves *)
(* Running clears the bit with it.                                         *)
PendingStopOnlyWhileRunning == stopPending => status = "running"

(* Once the Stop of a finished turn is recorded, the card is in Review, or *)
(* it is Running with the Stop withheld for work the row still counts:     *)
(* what try_record_stop and record_user_prompt_submit decide between them. *)
SettledTurnIsRecorded ==
    turn = "idle" /\ hooks = {} =>
        \/ status = "review"
        \/ status = "running" /\ stopPending /\ ~NothingLive

(* With every hook recorded, the subagent table lists exactly the          *)
(* subagents that run: starts, stops, fences and the SessionStart clear    *)
(* add up.                                                                 *)
EntriesAreLiveAgents ==
    hooks = {} => Rows(taskSubagents) = {a \in AgentIds : agents[a] = "live"}

(* The flip to Review hides no subagent: one that runs when the card       *)
(* leaves Running is one whose SubagentStart has not committed yet.        *)
ReviewHidesNoAgent ==
    [][status = "running" /\ status' = "review" =>
         \A a \in AgentIds : agents[a] = "live" =>
             \E h \in hooks : h.kind = "subStart" /\ h.id = a]_vars

(* A withheld Stop is dropped only by being applied, by a prompt that      *)
(* fired after it, or by a new session (which voids it).                   *)
HonoursStop ==
    stopPending /\ ~stopPending' =>
        \/ status' = "review"
        \/ \E h \in hooks \ hooks' :
              \/ h.kind = "prompt" /\ h.at > stopPendingAt
              \/ h.kind = "sessionStart"
WithheldStopIsHonoured == [][HonoursStop]_vars

(* A prompt spares the Stop of its own turn: it voids no withheld Stop     *)
(* when the session is idle and no Stop is on its way, for the withheld    *)
(* one then ended the turn that this prompt, or a later one, began.        *)
PromptSparesItsOwnTurn ==
    [][\A h \in hooks \ hooks' :
         h.kind = "prompt" /\ ~Unstamped(h) /\ stopPending /\ ~stopPending' =>
             turn # "idle" \/ \E other \in hooks : other.kind = "stop"]_vars

(* A finished turn reaches Review once its subagents end, however their    *)
(* hooks interleave with its Stop, unless a shell is still counted or a    *)
(* new turn begins.                                                        *)
FinishedTurnReachesReview ==
    turn = "idle" ~> (status = "review" \/ turn # "idle" \/ liveShells > 0)
=============================================================================
