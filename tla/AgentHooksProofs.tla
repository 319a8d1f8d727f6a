-------------------------- MODULE AgentHooksProofs --------------------------
(***************************************************************************)
(* What AgentHooks keeps for any number of subagents, shells, sessions and *)
(* hooks in flight, whatever the order in which the hooks commit and       *)
(* whichever are lost.                                                     *)
(***************************************************************************)
EXTENDS AgentHooks, FiniteSetTheorems, TLAPS

(* The inductive invariant.  Neither of the two facts about a withheld     *)
(* Stop is inductive alone: a prompt makes a Review card Running, and only *)
(* PendingStopOnlyWhileRunning says that it then carries no Stop; both     *)
(* need the counters to mean what the tables hold.                         *)
IInv ==
    /\ TypeOK
    /\ LiveCountsMatchEntries
    /\ NoStrandedStop
    /\ PendingStopOnlyWhileRunning

-----------------------------------------------------------------------------
(* The tables.                                                             *)

(* The tables that the writes produce are tables.                          *)
LEMMA TableWrites ==
    ASSUME NEW K, NEW table \in [K -> Sessions \cup {NoSession}], NEW s \in Sessions, NEW k \in K
    PROVE  /\ NoRows(K) \in [K -> Sessions \cup {NoSession}]
           /\ [Fence(table, s) EXCEPT ![k] = s] \in [K -> Sessions \cup {NoSession}]
           /\ [Fence(table, s) EXCEPT ![k] = NoSession] \in [K -> Sessions \cup {NoSession}]
           /\ k \in Rows([Fence(table, s) EXCEPT ![k] = s])
BY BoundsAssumption DEF NoRows, Fence, Rows, Sessions, NoSession

(* An emptied table is a table.                                            *)
LEMMA NoRowsType ==
    ASSUME NEW K
    PROVE  NoRows(K) \in [K -> Sessions \cup {NoSession}]
BY DEF NoRows

(* The rows of a table are finitely many, and counted as zero when none.   *)
LEMMA RowsCounted ==
    ASSUME NEW K, IsFiniteSet(K), NEW table \in [K -> Sessions \cup {NoSession}]
    PROVE  /\ Cardinality(Rows(table)) \in Nat
           /\ \A k \in Rows(table) : Cardinality(Rows(table)) > 0
<1>1. Rows(table) \subseteq K
  BY DEF Rows
<1>2. IsFiniteSet(Rows(table))
  BY <1>1, FS_Subset
<1>3. Cardinality(Rows(table)) \in Nat
  BY <1>2, FS_CardinalityType
<1>4. ASSUME NEW k \in Rows(table) PROVE Cardinality(Rows(table)) # 0
  BY <1>2, <1>4, FS_EmptySet
<1> QED
  BY <1>3, <1>4

(* A write of a table leaves its counter typed and equal to its rows.      *)
LEMMA SubagentsWritten ==
    ASSUME NEW table \in [AgentIds -> Sessions \cup {NoSession}], WriteSubagents(table)
    PROVE  /\ taskSubagents' \in [AgentIds -> Sessions \cup {NoSession}]
           /\ liveSubagents' \in Nat
           /\ liveSubagents' = Cardinality(Rows(taskSubagents'))
           /\ \A a \in Rows(table) : liveSubagents' > 0
BY RowsCounted, IdsAssumption DEF WriteSubagents

(* So does a write of the shell table.                                   *)
LEMMA ShellsWritten ==
    ASSUME NEW table \in [ShellIds -> Sessions \cup {NoSession}], WriteShells(table)
    PROVE  /\ taskShells' \in [ShellIds -> Sessions \cup {NoSession}]
           /\ liveShells' \in Nat
           /\ liveShells' = Cardinality(Rows(taskShells'))
           /\ \A i \in Rows(table) : liveShells' > 0
BY RowsCounted, IdsAssumption DEF WriteShells

(* The drain leaves no Stop withheld with nothing live, and flips only.    *)
LEMMA Drained ==
    ASSUME RowTypeOK, PendingStopOnlyWhileRunning, ApplyPendingStopIfDrained
    PROVE  /\ status' \in Statuses /\ stopPending' \in BOOLEAN
           /\ NoStrandedStop' /\ PendingStopOnlyWhileRunning'
BY DEF RowTypeOK, Statuses, PendingStopOnlyWhileRunning, NoStrandedStop,
       ApplyPendingStopIfDrained, ApplyStop, NothingLive

-----------------------------------------------------------------------------
(* The transactions: each takes a row that satisfies the invariant to one. *)

RowInv == RowTypeOK /\ LiveCountsMatchEntries /\ NoStrandedStop /\ PendingStopOnlyWhileRunning

(* try_record_stop: the flip, the deferral and the refusal.                *)
LEMMA StopRecorded ==
    ASSUME RowInv, NEW h, h.at \in Times \cup {NoTime}, TryRecordStop(h)
    PROVE  RowInv'
<1> USE DEF RowInv, RowTypeOK, LiveCountsMatchEntries, NoStrandedStop,
        PendingStopOnlyWhileRunning, NothingLive, Statuses
<1>1. UNCHANGED <<subagentTable, shellTable>>
  BY DEF TryRecordStop
<1>2. CASE status = "running" /\ NothingLive /\ ApplyStop /\ UNCHANGED stopPendingAt
  BY <1>1, <1>2 DEF ApplyStop, subagentTable, shellTable, Rows
<1>3. CASE /\ status = "running" /\ (liveSubagents > 0 \/ liveShells > 0)
           /\ stopPending' = TRUE /\ stopPendingAt' = h.at /\ UNCHANGED status
  BY <1>1, <1>3 DEF subagentTable, shellTable, Rows
<1>4. CASE status # "running" /\ UNCHANGED flags
  BY <1>1, <1>4 DEF flags, subagentTable, shellTable, Rows
<1> QED
  BY <1>2, <1>3, <1>4 DEF TryRecordStop

(* record_user_prompt_submit.                                              *)
LEMMA PromptRecorded ==
    ASSUME RowInv, NEW h, RecordUserPromptSubmit(h)
    PROVE  RowInv'
BY DEF RowInv, RowTypeOK, LiveCountsMatchEntries, NoStrandedStop, PendingStopOnlyWhileRunning,
       RecordUserPromptSubmit, NothingLive, flags, subagentTable, shellTable, Statuses

(* subagent_start adds a row, so it has something to drain the Stop.       *)
LEMMA SubagentStarted ==
    ASSUME RowInv, NEW h, h.id \in AgentIds, h.session \in Sessions, SubagentStart(h)
    PROVE  RowInv'
<1> DEFINE table == [Fence(taskSubagents, h.session) EXCEPT ![h.id] = h.session]
<1>1. /\ table \in [AgentIds -> Sessions \cup {NoSession}]
      /\ h.id \in Rows(table)
  BY TableWrites DEF RowInv, RowTypeOK
<1>2. WriteSubagents(table) /\ UNCHANGED <<flags, shellTable>>
  BY DEF SubagentStart
<1> HIDE DEF table
<1>3. /\ taskSubagents' \in [AgentIds -> Sessions \cup {NoSession}]
      /\ liveSubagents' \in Nat /\ liveSubagents' > 0
      /\ liveSubagents' = Cardinality(Rows(taskSubagents'))
  BY <1>1, <1>2, SubagentsWritten
<1> QED
  BY <1>2, <1>3 DEF RowInv, RowTypeOK, LiveCountsMatchEntries, NoStrandedStop,
     PendingStopOnlyWhileRunning, NothingLive, flags, shellTable, Rows

(* subagent_stop removes rows and drains.                                  *)
LEMMA SubagentStopped ==
    ASSUME RowInv, NEW h, h.id \in AgentIds, h.session \in Sessions, SubagentStop(h)
    PROVE  RowInv'
<1> DEFINE table == [Fence(taskSubagents, h.session) EXCEPT ![h.id] = NoSession]
<1>1. table \in [AgentIds -> Sessions \cup {NoSession}]
  BY TableWrites DEF RowInv, RowTypeOK
<1>2. WriteSubagents(table) /\ UNCHANGED <<stopPendingAt, shellTable>>
  BY DEF SubagentStop
<1> HIDE DEF table
<1>3. /\ taskSubagents' \in [AgentIds -> Sessions \cup {NoSession}]
      /\ liveSubagents' \in Nat
      /\ liveSubagents' = Cardinality(Rows(taskSubagents'))
  BY <1>1, <1>2, SubagentsWritten
<1>4. /\ status' \in Statuses /\ stopPending' \in BOOLEAN
      /\ NoStrandedStop' /\ PendingStopOnlyWhileRunning'
  BY Drained DEF RowInv, SubagentStop
<1> QED
  BY <1>2, <1>3, <1>4 DEF RowInv, RowTypeOK, LiveCountsMatchEntries, shellTable, Rows

(* The SessionStart clear voids the Stop it would otherwise strand.        *)
LEMMA SubagentsCleared ==
    ASSUME RowInv, SubagentClearAndVoidPendingStop
    PROVE  RowInv'
<1>1. WriteSubagents(NoRows(AgentIds)) /\ stopPending' = FALSE
      /\ UNCHANGED <<status, stopPendingAt, shellTable>>
  BY DEF SubagentClearAndVoidPendingStop
<1>2. /\ taskSubagents' \in [AgentIds -> Sessions \cup {NoSession}]
      /\ liveSubagents' \in Nat
      /\ liveSubagents' = Cardinality(Rows(taskSubagents'))
  BY <1>1, NoRowsType, SubagentsWritten
<1> QED
  BY <1>1, <1>2 DEF RowInv, RowTypeOK, LiveCountsMatchEntries, NoStrandedStop,
     PendingStopOnlyWhileRunning, shellTable, Rows

(* shell_start, as subagent_start.                                         *)
LEMMA ShellStarted ==
    ASSUME RowInv, NEW h, h.id \in ShellIds, h.session \in Sessions, ShellStart(h)
    PROVE  RowInv'
<1> DEFINE table == [Fence(taskShells, h.session) EXCEPT ![h.id] = h.session]
<1>1. /\ table \in [ShellIds -> Sessions \cup {NoSession}]
      /\ h.id \in Rows(table)
  BY TableWrites DEF RowInv, RowTypeOK
<1>2. WriteShells(table) /\ UNCHANGED <<flags, subagentTable>>
  BY DEF ShellStart
<1> HIDE DEF table
<1>3. /\ taskShells' \in [ShellIds -> Sessions \cup {NoSession}]
      /\ liveShells' \in Nat /\ liveShells' > 0
      /\ liveShells' = Cardinality(Rows(taskShells'))
  BY <1>1, <1>2, ShellsWritten
<1> QED
  BY <1>2, <1>3 DEF RowInv, RowTypeOK, LiveCountsMatchEntries, NoStrandedStop,
     PendingStopOnlyWhileRunning, NothingLive, flags, subagentTable, Rows

(* shell_stop, as subagent_stop.                                           *)
LEMMA ShellStopped ==
    ASSUME RowInv, NEW h, h.id \in ShellIds, h.session \in Sessions, ShellStop(h)
    PROVE  RowInv'
<1> DEFINE table == [Fence(taskShells, h.session) EXCEPT ![h.id] = NoSession]
<1>1. table \in [ShellIds -> Sessions \cup {NoSession}]
  BY TableWrites DEF RowInv, RowTypeOK
<1>2. WriteShells(table) /\ UNCHANGED <<stopPendingAt, subagentTable>>
  BY DEF ShellStop
<1> HIDE DEF table
<1>3. /\ taskShells' \in [ShellIds -> Sessions \cup {NoSession}]
      /\ liveShells' \in Nat
      /\ liveShells' = Cardinality(Rows(taskShells'))
  BY <1>1, <1>2, ShellsWritten
<1>4. /\ status' \in Statuses /\ stopPending' \in BOOLEAN
      /\ NoStrandedStop' /\ PendingStopOnlyWhileRunning'
  BY Drained DEF RowInv, ShellStop
<1> QED
  BY <1>2, <1>3, <1>4 DEF RowInv, RowTypeOK, LiveCountsMatchEntries, subagentTable, Rows

(* A step that leaves the row alone leaves its invariant alone.            *)
LEMMA RowUntouched ==
    ASSUME RowInv, UNCHANGED row
    PROVE  RowInv'
BY DEF RowInv, RowTypeOK, LiveCountsMatchEntries, NoStrandedStop, PendingStopOnlyWhileRunning,
       NothingLive, Rows, row, flags, subagentTable, shellTable

-----------------------------------------------------------------------------
(* The session and its hooks.                                              *)

(* What a hook process carries is typed by its kind.                       *)
LEMMA HookFields ==
    ASSUME NEW h \in Hooks
    PROVE  /\ h.at \in Times \cup {NoTime} /\ h.session \in Sessions
           /\ h.kind \in SubKinds => h.id \in AgentIds
           /\ h.kind \in ShellKinds => h.id \in ShellIds
           /\ h.kind \in TimedKinds => \A t \in Times : [h EXCEPT !.at = t] \in Hooks
BY DEF Hooks, SubKinds, ShellKinds, TimedKinds

(* Claude's steps write no row; they only start hook processes.            *)
LEMMA ClaudeStepTyped ==
    ASSUME TypeOK, ClaudeStep
    PROVE  UNCHANGED row /\ hooks' \subseteq Hooks /\ ClaudeTypeOK'
<1> USE DEF TypeOK, ClaudeTypeOK, Hooks, Hook, Fire, TimedKinds, SubKinds, ShellKinds, NoTime
<1>1. CASE Prompt
  BY <1>1 DEF Prompt, MayFire
<1>2. CASE TurnEnds
  BY <1>2 DEF TurnEnds, MayFire
<1>3. CASE SessionStarts
  BY <1>3 DEF SessionStarts
<1>4. ASSUME NEW a \in AgentIds, AgentStarts(a)
      PROVE  UNCHANGED row /\ hooks' \subseteq Hooks /\ ClaudeTypeOK'
  BY <1>4 DEF AgentStarts, MayFire
<1>5. ASSUME NEW a \in AgentIds, AgentEnds(a)
      PROVE  UNCHANGED row /\ hooks' \subseteq Hooks /\ ClaudeTypeOK'
  BY <1>5 DEF AgentEnds, MayFire
<1>6. ASSUME NEW i \in ShellIds, ShellStarts(i)
      PROVE  UNCHANGED row /\ hooks' \subseteq Hooks /\ ClaudeTypeOK'
  BY <1>6 DEF ShellStarts, MayFire
<1>7. ASSUME NEW i \in ShellIds, ShellReportedEnded(i)
      PROVE  UNCHANGED row /\ hooks' \subseteq Hooks /\ ClaudeTypeOK'
  BY <1>7 DEF ShellReportedEnded, MayFire
<1> QED
  BY <1>1, <1>2, <1>3, <1>4, <1>5, <1>6, <1>7 DEF ClaudeStep

(* Reading the clock stamps one hook process and writes no row.            *)
LEMMA ReadsClockTyped ==
    ASSUME TypeOK, NEW h \in hooks, ReadsClock(h)
    PROVE  UNCHANGED row /\ hooks' \subseteq Hooks /\ ClaudeTypeOK'
<1>1. h \in Hooks
  BY DEF TypeOK
<1>2. PICK t \in Times : clock' = t /\ hooks' = (hooks \ {h}) \cup {[h EXCEPT !.at = t]}
  BY DEF ReadsClock
<1>3. [h EXCEPT !.at = t] \in Hooks
  BY <1>1, HookFields DEF ReadsClock, Unstamped
<1> QED
  BY <1>2, <1>3 DEF TypeOK, ClaudeTypeOK, ReadsClock

(* Every transaction keeps the row's invariant.                            *)
LEMMA CommitKeepsRowInv ==
    ASSUME RowInv, NEW h \in Hooks, Commit(h)
    PROVE  RowInv'
<1>1. CASE h.kind = "stop" /\ TryRecordStop(h)
  BY <1>1, HookFields, StopRecorded
<1>2. CASE h.kind = "prompt" /\ RecordUserPromptSubmit(h)
  BY <1>2, PromptRecorded
<1>3. CASE h.kind = "subStart" /\ SubagentStart(h)
  BY <1>3, HookFields, SubagentStarted DEF SubKinds
<1>4. CASE h.kind = "subStop" /\ SubagentStop(h)
  BY <1>4, HookFields, SubagentStopped DEF SubKinds
<1>5. CASE h.kind = "shellStart" /\ ShellStart(h)
  BY <1>5, HookFields, ShellStarted DEF ShellKinds
<1>6. CASE h.kind = "shellStop" /\ ShellStop(h)
  BY <1>6, HookFields, ShellStopped DEF ShellKinds
<1>7. CASE h.kind = "sessionStart" /\ SubagentClearAndVoidPendingStop
  BY <1>7, SubagentsCleared
<1> QED
  BY <1>1, <1>2, <1>3, <1>4, <1>5, <1>6, <1>7 DEF Commit

-----------------------------------------------------------------------------
(* The inductive invariant, split at the row.                              *)
LEMMA IInvIsRowInv == IInv <=> RowInv /\ hooks \subseteq Hooks /\ ClaudeTypeOK
BY DEF IInv, RowInv, TypeOK

(* The invariant holds initially, ...                                      *)
LEMMA InitIInv == Init => IInv
<1> SUFFICES ASSUME Init PROVE IInv
  OBVIOUS
<1>1. Rows(NoRows(AgentIds)) = {} /\ Rows(NoRows(ShellIds)) = {}
  BY DEF Rows, NoRows
<1>2. LiveCountsMatchEntries
  BY <1>1, FS_EmptySet DEF Init, LiveCountsMatchEntries
<1>3. RowTypeOK
  BY NoRowsType DEF Init, RowTypeOK, Statuses
<1>4. hooks \subseteq Hooks /\ ClaudeTypeOK
  BY BoundsAssumption DEF Init, ClaudeTypeOK, Sessions, Times
<1> QED
  BY <1>2, <1>3, <1>4 DEF Init, IInv, TypeOK, NoStrandedStop, PendingStopOnlyWhileRunning

(* ... and every step of every process keeps it: it is inductive.          *)
LEMMA NextIInv == IInv /\ [Next]_vars => IInv'
<1> SUFFICES ASSUME IInv, [Next]_vars PROVE RowInv' /\ hooks' \subseteq Hooks /\ ClaudeTypeOK'
  BY DEF IInv, RowInv, TypeOK
<1> USE IInvIsRowInv
<1>0. TypeOK
  BY DEF IInv
<1>1. CASE ClaudeStep
  BY <1>0, <1>1, ClaudeStepTyped, RowUntouched
<1>2. ASSUME NEW h \in hooks, ReadsClock(h)
      PROVE  RowInv' /\ hooks' \subseteq Hooks /\ ClaudeTypeOK'
  BY <1>0, <1>2, ReadsClockTyped, RowUntouched
<1>3. ASSUME NEW h \in hooks, Commit(h)
      PROVE  RowInv' /\ hooks' \subseteq Hooks /\ ClaudeTypeOK'
  <2>1. h \in Hooks
    OBVIOUS
  <2>2. RowInv'
    BY <2>1, <1>3, CommitKeepsRowInv
  <2>3. hooks' \subseteq Hooks /\ ClaudeTypeOK'
    BY <1>3 DEF Commit, claude, ClaudeTypeOK
  <2> QED
    BY <2>2, <2>3
<1>4. ASSUME NEW h \in hooks, HookLost(h)
      PROVE  RowInv' /\ hooks' \subseteq Hooks /\ ClaudeTypeOK'
  <2>1. UNCHANGED row /\ UNCHANGED claude /\ hooks' \subseteq hooks
    BY <1>4 DEF HookLost
  <2> QED
    BY <2>1, RowUntouched DEF claude, ClaudeTypeOK
<1>5. CASE UNCHANGED vars
  <2>1. UNCHANGED row /\ UNCHANGED claude /\ hooks' = hooks
    BY <1>5 DEF vars
  <2> QED
    BY <2>1, RowUntouched DEF claude, ClaudeTypeOK
<1> QED
  BY <1>1, <1>2, <1>3, <1>4, <1>5 DEF Next, HookStep, LossStep

(* Whatever the hooks do, in any order and lost at will, for any number    *)
(* of subagents, shells and sessions: the counters agree with the tables,  *)
(* no Stop is stranded, and one is withheld only while Running.            *)
THEOREM IInvHolds == Spec => []IInv
BY InitIInv, NextIInv, PTL DEF Spec

(* Every variable keeps its type.                                          *)
THEOREM TypesCorrect == Spec => []TypeOK
<1>1. IInv => TypeOK
  BY DEF IInv
<1> QED
  BY <1>1, IInvHolds, PTL

(* The two denormalised counters agree with their tables.                  *)
THEOREM CountersCorrect == Spec => []LiveCountsMatchEntries
<1>1. IInv => LiveCountsMatchEntries
  BY DEF IInv
<1> QED
  BY <1>1, IInvHolds, PTL

(* No order of hook commits, and no loss of hooks, leaves a Stop withheld  *)
(* with nothing live to drain it.                                          *)
THEOREM NoStopStranded == Spec => []NoStrandedStop
<1>1. IInv => NoStrandedStop
  BY DEF IInv
<1> QED
  BY <1>1, IInvHolds, PTL

(* Only a Running card carries a withheld Stop.                            *)
THEOREM PendingIsRunning == Spec => []PendingStopOnlyWhileRunning
<1>1. IInv => PendingStopOnlyWhileRunning
  BY DEF IInv
<1> QED
  BY <1>1, IInvHolds, PTL

-----------------------------------------------------------------------------
(* A withheld Stop is dropped only by being applied, by a prompt whose     *)
(* event is later, or by a new session.                                    *)
LEMMA StepHonoursStop ==
    ASSUME TypeOK, [Next]_vars
    PROVE  HonoursStop
<1> SUFFICES ASSUME stopPending, ~stopPending'
             PROVE  \/ status' = "review"
                    \/ \E h \in hooks \ hooks' :
                          \/ h.kind = "prompt" /\ h.at > stopPendingAt
                          \/ h.kind = "sessionStart"
  BY DEF HonoursStop
<1>1. ~UNCHANGED row
  BY DEF row, flags
<1>2. PICK h \in hooks : Commit(h)
  BY <1>1, ClaudeStepTyped DEF Next, HookStep, LossStep, ReadsClock, HookLost, vars
<1>3. h \in Hooks /\ h \in hooks \ hooks'
  BY <1>2 DEF TypeOK, Commit
<1>4. CASE TryRecordStop(h)
  BY <1>4 DEF TryRecordStop, ApplyStop, flags
<1>5. CASE h.kind = "prompt" /\ RecordUserPromptSubmit(h)
  <2>1. h.at # NoTime /\ h.at \in Nat /\ stopPendingAt \in Nat
    BY <1>2, <1>3, <1>5, HookFields DEF Commit, Unstamped, TimedKinds, TypeOK, RowTypeOK,
       Times, NoTime
  <2>2. Superseded(h.at)
    BY <1>5 DEF RecordUserPromptSubmit
  <2>3. h.at > stopPendingAt
    BY <2>1, <2>2 DEF Superseded, NoTime
  <2> QED
    BY <1>3, <1>5, <2>3
<1>6. CASE ApplyPendingStopIfDrained
  BY <1>6 DEF ApplyPendingStopIfDrained, ApplyStop
<1>7. CASE SubagentStart(h) \/ ShellStart(h)
  BY <1>7 DEF SubagentStart, ShellStart, flags
<1>8. CASE h.kind = "sessionStart"
  BY <1>3, <1>8
<1> QED
  BY <1>2, <1>4, <1>5, <1>6, <1>7, <1>8 DEF Commit, SubagentStop, ShellStop

(* A withheld Stop is dropped only by being applied, by a prompt whose     *)
(* event is later than the Stop's, or by a new session.                    *)
THEOREM WithheldStopHonoured == Spec => WithheldStopIsHonoured
<1>1. IInv /\ [Next]_vars => [HonoursStop]_vars
  BY StepHonoursStop DEF IInv
<1> QED
  BY <1>1, IInvHolds, PTL DEF Spec, WithheldStopIsHonoured
-----------------------------------------------------------------------------
(* Awaited hooks.  When whoever fired a hook waits for its exit, the hooks *)
(* in flight all belong to the session that runs, the subagent table is    *)
(* what the session runs but for the starts and stops still in flight, and *)
(* a turn that ended has its Stop in flight or recorded.                   *)

InFlight(kind) == \E h \in hooks : h.kind = kind
(* The session outlives its hooks: only a SessionStart begins one, with no *)
(* hook in flight, and nothing else fires before that hook has committed.  *)
SessionInv ==
    /\ session # NoSession
    /\ \A h \in hooks : h.session = session
    /\ \A h \in hooks : h.kind = "sessionStart" =>
          hooks = {h} /\ \A a \in AgentIds : agents[a] # "live"
AgentsInv ==
    /\ \A h \in hooks : h.kind = "subStart" => agents[h.id] = "live"
    /\ \A h \in hooks : h.kind = "subStop" => agents[h.id] = "ended"
    /\ ~InFlight("sessionStart") => \A a \in AgentIds :
          /\ taskSubagents[a] \in {NoSession, session}
          /\ a \in Rows(taskSubagents) /\ agents[a] # "live" =>
                \E h \in hooks : h.kind = "subStop" /\ h.id = a
          /\ a \notin Rows(taskSubagents) /\ agents[a] = "live" =>
                \E h \in hooks : h.kind = "subStart" /\ h.id = a
(* What try_record_stop decides, and what a drain may still do about it.   *)
Recorded == status = "review" \/ (status = "running" /\ stopPending /\ ~NothingLive)
TurnInv ==
    /\ status \in {"running", "review"}
    /\ turn = "idle" => /\ ~InFlight("prompt") /\ ~InFlight("sessionStart")
                        /\ InFlight("stop") \/ Recorded
AwaitedInv == IInv /\ SessionInv /\ AgentsInv /\ TurnInv

(* The invariant holds of a Running task with a fresh session.             *)
LEMMA InitAwaitedInv == Init => AwaitedInv
BY InitIInv, BoundsAssumption
   DEF Init, AwaitedInv, SessionInv, AgentsInv, TurnInv, InFlight, Rows, NoRows, NoSession, Sessions

(* What main fires, it fires alone: no SessionStart is in flight, and no   *)
(* Stop, prompt or shell hook.                                             *)
LEMMA MainIsFree ==
    ASSUME \A h \in hooks : Actor(h) # "main"
    PROVE  \A h \in hooks : h.kind \in SubKinds
BY DEF Actor

(* An agent that starts or ends tells so with the only hook of its own.    *)
LEMMA AgentFires ==
    ASSUME AgentsInv, NEW a \in AgentIds, NEW kind \in SubKinds, NEW at, NEW s,
           agents \in [AgentIds -> {"new", "live", "ended"}],
           \A h \in hooks : h.kind \in SubKinds => h.id # a,
           hooks' = hooks \cup {Hook(kind, at, s, a)},
           agents' = [agents EXCEPT ![a] = IF kind = "subStart" THEN "live" ELSE "ended"],
           kind = "subStop" => agents[a] = "live", kind = "subStart" => agents[a] = "new",
           UNCHANGED <<taskSubagents, session>>
    PROVE  AgentsInv'
<1> DEFINE g == Hook(kind, at, s, a)
<1>1. hooks' = hooks \cup {g} /\ g.kind = kind /\ g.id = a
  BY DEF Hook
<1> HIDE DEF g
<1>2. /\ agents'[a] = IF kind = "subStart" THEN "live" ELSE "ended"
      /\ \A b \in AgentIds \ {a} : agents'[b] = agents[b]
  OBVIOUS
<1>3. \A h \in hooks : h.kind \in SubKinds => h.id # a /\ agents'[h.id] = agents[h.id]
  OBVIOUS
<1>4. \A h \in hooks' : h.kind = "subStart" => agents'[h.id] = "live"
  BY <1>1, <1>2, <1>3 DEF AgentsInv, SubKinds
<1>5. \A h \in hooks' : h.kind = "subStop" => agents'[h.id] = "ended"
  BY <1>1, <1>2, <1>3 DEF AgentsInv, SubKinds
<1>6. InFlight("sessionStart")' <=> InFlight("sessionStart")
  BY <1>1 DEF InFlight, SubKinds
<1>7. ASSUME ~InFlight("sessionStart"), NEW b \in AgentIds
      PROVE  /\ taskSubagents'[b] \in {NoSession, session'}
             /\ b \in Rows(taskSubagents') /\ agents'[b] # "live" =>
                   \E h \in hooks' : h.kind = "subStop" /\ h.id = b
             /\ b \notin Rows(taskSubagents') /\ agents'[b] = "live" =>
                   \E h \in hooks' : h.kind = "subStart" /\ h.id = b
  <2>1. /\ taskSubagents[b] \in {NoSession, session}
        /\ b \in Rows(taskSubagents) /\ agents[b] # "live" =>
              \E h \in hooks : h.kind = "subStop" /\ h.id = b
        /\ b \notin Rows(taskSubagents) /\ agents[b] = "live" =>
              \E h \in hooks : h.kind = "subStart" /\ h.id = b
    BY <1>7 DEF AgentsInv
  <2>2. CASE b # a
    BY <1>1, <1>2, <2>1, <2>2 DEF Rows
  <2>3. CASE b = a
    BY <1>1, <1>2, <2>1, <2>3 DEF Rows, SubKinds
  <2> QED
    BY <2>2, <2>3
<1> QED
  BY <1>4, <1>5, <1>6, <1>7 DEF AgentsInv

(* Claude's steps keep what is known of the hooks and of the subagents.    *)
LEMMA ClaudeAwaited ==
    ASSUME Awaited, AwaitedInv, ClaudeStep, IInv'
    PROVE  AwaitedInv'
<1> USE DEF AwaitedInv
<1>0. TypeOK /\ UNCHANGED row
  BY ClaudeStepTyped DEF IInv
<1>r. UNCHANGED <<status, stopPending, taskSubagents, liveSubagents, liveShells>>
  BY <1>0 DEF row, flags, subagentTable, shellTable
<1>1. CASE Prompt
  <2>1. \A h \in hooks : h.kind \in SubKinds
    BY <1>1, MainIsFree DEF Prompt, MayFire
  <2>2. hooks' = hooks \cup {Hook("prompt", NoTime, session, NoId)}
        /\ turn' = "working" /\ UNCHANGED <<session, agents>>
    BY <1>1 DEF Prompt, Fire
  <2>3. SessionInv'
    BY <2>1, <2>2 DEF SessionInv, Hook, SubKinds
  <2>4. AgentsInv'
    BY <1>r, <2>1, <2>2 DEF AgentsInv, Hook, InFlight, SubKinds, Rows
  <2>5. TurnInv'
    BY <1>r, <2>2 DEF TurnInv
  <2> QED
    BY <2>3, <2>4, <2>5
<1>2. CASE TurnEnds
  <2>1. \A h \in hooks : h.kind \in SubKinds
    BY <1>2, MainIsFree DEF TurnEnds, MayFire
  <2>2. hooks' = hooks \cup {Hook("stop", NoTime, session, NoId)}
        /\ turn' = "idle" /\ UNCHANGED <<session, agents>>
    BY <1>2 DEF TurnEnds, Fire
  <2>3. SessionInv'
    BY <2>1, <2>2 DEF SessionInv, Hook, SubKinds
  <2>4. AgentsInv'
    BY <1>r, <2>1, <2>2 DEF AgentsInv, Hook, InFlight, SubKinds, Rows
  <2>5. InFlight("stop")'
    <3>1. Hook("stop", NoTime, session, NoId).kind = "stop"
      BY DEF Hook
    <3>2. Hook("stop", NoTime, session, NoId) \in hooks'
      BY <2>2
    <3> QED
      BY <3>1, <3>2, Zenon DEF InFlight
  <2>6. ~InFlight("prompt")' /\ ~InFlight("sessionStart")'
    BY <2>1, <2>2 DEF InFlight, Hook, SubKinds
  <2>7. TurnInv'
    BY <1>r, <2>5, <2>6 DEF TurnInv
  <2> QED
    BY <2>3, <2>4, <2>7
<1>3. CASE SessionStarts
  <2>1. hooks = {}
    BY <1>3 DEF SessionStarts
  <2>2. PICK s \in {session, session + 1} \cap Sessions :
          session' = s /\ hooks' = {Hook("sessionStart", NoTime, s, NoId)}
    BY <1>3, <2>1 DEF SessionStarts, Fire
  <2>3. session' # NoSession
    BY <2>2 DEF Sessions, NoSession
  <2>4. turn' = "working" /\ \A a \in AgentIds : agents'[a] # "live"
    BY <1>3 DEF SessionStarts
  <2> QED
    BY <1>r, <2>2, <2>3, <2>4 DEF SessionInv, AgentsInv, TurnInv, Hook, InFlight
<1>4. ASSUME NEW a \in AgentIds, AgentStarts(a) PROVE AwaitedInv'
  <2>1. \A h \in hooks : h.kind \in SubKinds
    BY <1>4, MainIsFree DEF AgentStarts, MayFire
  <2>2. \A h \in hooks : h.kind \in SubKinds => h.id # a
    BY <1>4 DEF AgentStarts, MayFire, Actor
  <2>3. /\ hooks' = hooks \cup {Hook("subStart", NoTime, session, a)}
        /\ agents' = [agents EXCEPT ![a] = "live"] /\ turn # "idle"
        /\ agents[a] = "new" /\ UNCHANGED <<session, turn>>
    BY <1>4 DEF AgentStarts, Fire
  <2>4. agents \in [AgentIds -> {"new", "live", "ended"}]
    BY <1>0 DEF TypeOK, ClaudeTypeOK
  <2>5. SessionInv'
    BY <2>1, <2>3 DEF SessionInv, Hook, SubKinds
  <2>6. AgentsInv'
    BY <1>r, <2>2, <2>3, <2>4, AgentFires DEF SubKinds
  <2>7. TurnInv'
    BY <1>r, <2>3 DEF TurnInv
  <2> QED
    BY <2>5, <2>6, <2>7
<1>5. ASSUME NEW a \in AgentIds, AgentEnds(a) PROVE AwaitedInv'
  <2>1. \A h \in hooks : h.kind # "sessionStart"
    BY <1>5 DEF AgentEnds, SessionInv
  <2>2. \A h \in hooks : h.kind \in SubKinds => h.id # a
    BY <1>5 DEF AgentEnds, MayFire, Actor
  <2>3. /\ hooks' = hooks \cup {Hook("subStop", NoTime, session, a)}
        /\ agents' = [agents EXCEPT ![a] = "ended"]
        /\ agents[a] = "live" /\ UNCHANGED <<session, turn>>
    BY <1>5 DEF AgentEnds, Fire
  <2>4. agents \in [AgentIds -> {"new", "live", "ended"}]
    BY <1>0 DEF TypeOK, ClaudeTypeOK
  <2>5. SessionInv'
    BY <2>1, <2>3 DEF SessionInv, Hook
  <2>6. AgentsInv'
    BY <1>r, <2>2, <2>3, <2>4, AgentFires DEF SubKinds
  <2>7. \A kind : kind # "subStop" => (InFlight(kind)' <=> InFlight(kind))
    BY <2>3 DEF InFlight, Hook
  <2>8. TurnInv'
    BY <1>r, <2>3, <2>7 DEF TurnInv, Recorded, NothingLive
  <2> QED
    BY <2>5, <2>6, <2>8
<1>6. ASSUME NEW i \in ShellIds, ShellStarts(i) \/ ShellReportedEnded(i) PROVE AwaitedInv'
  <2>1. \A h \in hooks : h.kind \in SubKinds
    BY <1>6, MainIsFree DEF ShellStarts, ShellReportedEnded, MayFire
  <2>2. PICK kind \in ShellKinds : hooks' = hooks \cup {Hook(kind, NoTime, session, i)}
    BY <1>6 DEF ShellStarts, ShellReportedEnded, Fire, ShellKinds
  <2>3. UNCHANGED <<session, agents, turn>>
    BY <1>6 DEF ShellStarts, ShellReportedEnded
  <2>4. SessionInv'
    BY <2>1, <2>2, <2>3 DEF SessionInv, Hook, SubKinds, ShellKinds
  <2>5. AgentsInv'
    BY <1>r, <2>1, <2>2, <2>3 DEF SessionInv, AgentsInv, Hook, InFlight, SubKinds, ShellKinds, Rows
  <2>6. \A k : k \notin ShellKinds => (InFlight(k)' <=> InFlight(k))
    BY <2>2 DEF InFlight, Hook
  <2>7. TurnInv'
    BY <1>r, <2>3, <2>6 DEF TurnInv, Recorded, NothingLive, ShellKinds
  <2> QED
    BY <2>4, <2>5, <2>7
<1> QED
  BY <1>1, <1>2, <1>3, <1>4, <1>5, <1>6 DEF ClaudeStep

(* Reading the clock changes the time of a hook and nothing else of it.    *)
LEMMA StampAwaited ==
    ASSUME AwaitedInv, NEW h \in hooks, ReadsClock(h), IInv'
    PROVE  AwaitedInv'
<1>1. PICK t \in Times : hooks' = (hooks \ {h}) \cup {[h EXCEPT !.at = t]}
  BY DEF ReadsClock
<1>2. h \in Hooks
  BY DEF AwaitedInv, IInv, TypeOK
<1> DEFINE g == [h EXCEPT !.at = t]
<1>3. g.kind = h.kind /\ g.session = h.session /\ g.id = h.id /\ h.kind \in TimedKinds
  BY <1>2 DEF Hooks, ReadsClock, Unstamped
<1>4. hooks' = (hooks \ {h}) \cup {g}
  BY <1>1
<1> HIDE DEF g
<1>5. UNCHANGED <<status, stopPending, taskSubagents, liveSubagents, liveShells, session, turn, agents>>
  BY DEF ReadsClock, row, flags, subagentTable, shellTable
<1>6. SessionInv'
  BY <1>3, <1>4, <1>5 DEF AwaitedInv, SessionInv, TimedKinds
<1>7. \A kind : InFlight(kind)' <=> InFlight(kind)
  BY <1>3, <1>4 DEF InFlight
<1>8. AgentsInv'
  BY <1>3, <1>4, <1>5, <1>7 DEF AwaitedInv, AgentsInv, TimedKinds, Rows
<1>9. TurnInv'
  BY <1>5, <1>7 DEF AwaitedInv, TurnInv, Recorded, NothingLive
<1> QED
  BY <1>6, <1>8, <1>9 DEF AwaitedInv

-----------------------------------------------------------------------------
(* The commits, with hooks awaited.                                        *)

(* With no SessionStart in flight the fence evicts nobody: every row of    *)
(* the subagent table is of the session that fired the hook.               *)
LEMMA FenceKeepsAll ==
    ASSUME AwaitedInv, NEW h \in hooks, h.kind # "sessionStart"
    PROVE  Fence(taskSubagents, h.session) = taskSubagents
<1>1. ~InFlight("sessionStart")
  BY DEF AwaitedInv, SessionInv, InFlight
<1>2. \A a \in AgentIds : taskSubagents[a] \in {NoSession, h.session}
  BY <1>1 DEF AwaitedInv, SessionInv, AgentsInv
<1>3. taskSubagents \in [AgentIds -> Sessions \cup {NoSession}]
  BY DEF AwaitedInv, IInv, TypeOK, RowTypeOK
<1> QED
  BY <1>2, <1>3 DEF Fence

(* What a commit does to the session's side: one hook fewer.               *)
LEMMA CommitSession ==
    ASSUME AwaitedInv, NEW h \in hooks, Commit(h)
    PROVE  /\ hooks' = hooks \ {h} /\ UNCHANGED <<session, turn, agents>>
           /\ SessionInv'
           /\ \A g \in hooks' : g \in hooks
           /\ h.kind # "sessionStart" => \A g \in hooks : g.kind # "sessionStart"
           /\ h.kind = "sessionStart" => hooks' = {}
BY DEF AwaitedInv, SessionInv, Commit, claude

(* The subagent table after a commit.                                      *)
LEMMA CommitAgents ==
    ASSUME AwaitedInv, NEW h \in hooks, Commit(h)
    PROVE  AgentsInv'
<1>0. TypeOK /\ h \in Hooks
  BY DEF AwaitedInv, IInv, TypeOK
<1>1. /\ hooks' = hooks \ {h} /\ UNCHANGED <<session, turn, agents>>
      /\ h.kind # "sessionStart" => \A g \in hooks : g.kind # "sessionStart"
      /\ h.kind = "sessionStart" => hooks' = {}
  BY CommitSession
<1>2. taskSubagents \in [AgentIds -> Sessions \cup {NoSession}]
  BY <1>0 DEF TypeOK, RowTypeOK
<1> USE DEF AwaitedInv, AgentsInv, InFlight
<1>3. CASE h.kind = "sessionStart"
  <2>1. \A a \in AgentIds : taskSubagents'[a] = NoSession
    BY <1>3 DEF Commit, SubagentClearAndVoidPendingStop, WriteSubagents, NoRows
  <2>2. \A a \in AgentIds : agents'[a] # "live"
    BY <1>1, <1>3 DEF SessionInv
  <2>3. Rows(taskSubagents') = {}
    BY <1>3 DEF Rows, Commit, SubagentClearAndVoidPendingStop, WriteSubagents, NoRows
  <2> QED
    BY <1>1, <1>3, <2>1, <2>2, <2>3
<1>4. CASE h.kind = "subStart"
  <2>1. h.id \in AgentIds
    BY <1>0, <1>4, HookFields DEF SubKinds
  <2>2. taskSubagents' = [taskSubagents EXCEPT ![h.id] = h.session]
    BY <1>4, FenceKeepsAll DEF Commit, SubagentStart, WriteSubagents
  <2>3. h.session = session /\ session # NoSession
    BY DEF SessionInv
  <2>4. /\ DOMAIN taskSubagents' = AgentIds /\ taskSubagents'[h.id] = session
        /\ \A a \in AgentIds \ {h.id} : taskSubagents'[a] = taskSubagents[a]
    BY <1>2, <2>1, <2>2, <2>3
  <2>5. agents[h.id] = "live"
    BY <1>4
  <2> QED
    BY <1>1, <1>2, <1>4, <2>1, <2>3, <2>4, <2>5 DEF Rows
<1>5. CASE h.kind = "subStop"
  <2>1. h.id \in AgentIds
    BY <1>0, <1>5, HookFields DEF SubKinds
  <2>2. taskSubagents' = [taskSubagents EXCEPT ![h.id] = NoSession]
    BY <1>5, FenceKeepsAll DEF Commit, SubagentStop, WriteSubagents
  <2>3. /\ DOMAIN taskSubagents' = AgentIds /\ taskSubagents'[h.id] = NoSession
        /\ \A a \in AgentIds \ {h.id} : taskSubagents'[a] = taskSubagents[a]
    BY <1>2, <2>1, <2>2
  <2>4. agents[h.id] = "ended"
    BY <1>5
  <2> QED
    BY <1>1, <1>2, <1>5, <2>1, <2>3, <2>4 DEF Rows
<1>6. CASE h.kind \notin {"sessionStart", "subStart", "subStop"}
  <2>1. UNCHANGED taskSubagents
    BY <1>6 DEF Commit, TryRecordStop, RecordUserPromptSubmit, ShellStart, ShellStop,
       subagentTable
  <2> QED
    BY <1>1, <1>6, <2>1 DEF Rows
<1> QED
  BY <1>3, <1>4, <1>5, <1>6

(* A start leaves live work behind it.                                     *)
LEMMA StartsAreLive ==
    ASSUME TypeOK, NEW h \in Hooks
    PROVE  /\ h.kind = "subStart" /\ SubagentStart(h) => liveSubagents' > 0
           /\ h.kind = "shellStart" /\ ShellStart(h) => liveShells' > 0
<1> USE DEF TypeOK, RowTypeOK
<1>1. ASSUME h.kind = "subStart", SubagentStart(h) PROVE liveSubagents' > 0
  <2> DEFINE table == [Fence(taskSubagents, h.session) EXCEPT ![h.id] = h.session]
  <2>1. h.id \in AgentIds /\ h.session \in Sessions
    BY <1>1, HookFields DEF SubKinds
  <2>2. /\ table \in [AgentIds -> Sessions \cup {NoSession}]
        /\ h.id \in Rows(table)
    BY <2>1, TableWrites
  <2>3. WriteSubagents(table)
    BY <1>1 DEF SubagentStart
  <2> HIDE DEF table
  <2> QED
    BY <2>2, <2>3, SubagentsWritten
<1>2. ASSUME h.kind = "shellStart", ShellStart(h) PROVE liveShells' > 0
  <2> DEFINE table == [Fence(taskShells, h.session) EXCEPT ![h.id] = h.session]
  <2>1. h.id \in ShellIds /\ h.session \in Sessions
    BY <1>2, HookFields DEF ShellKinds
  <2>2. /\ table \in [ShellIds -> Sessions \cup {NoSession}]
        /\ h.id \in Rows(table)
    BY <2>1, TableWrites
  <2>3. WriteShells(table)
    BY <1>2 DEF ShellStart
  <2> HIDE DEF table
  <2> QED
    BY <2>2, <2>3, ShellsWritten
<1> QED
  BY <1>1, <1>2

(* A Stop, once recorded, stays so until the next turn: a start adds live  *)
(* work, and a stop that drains the last of it flips the card.             *)
LEMMA CommitTurn ==
    ASSUME AwaitedInv, NEW h \in hooks, Commit(h), IInv'
    PROVE  TurnInv'
<1>0. TypeOK /\ h \in Hooks
  BY DEF AwaitedInv, IInv, TypeOK
<1>1. /\ hooks' = hooks \ {h} /\ UNCHANGED turn
      /\ status \in {"running", "review"} /\ stopPending \in BOOLEAN
  BY <1>0, CommitSession DEF AwaitedInv, TurnInv, TypeOK, RowTypeOK
<1>2. /\ liveSubagents \in Nat /\ liveShells \in Nat
      /\ liveSubagents' \in Nat /\ liveShells' \in Nat
  BY <1>0 DEF IInv, TypeOK, RowTypeOK
<1>3. status' \in {"running", "review"}
  BY <1>1 DEF Commit, TryRecordStop, RecordUserPromptSubmit, ShellStart, ShellStop, SubagentStart,
     SubagentStop, SubagentClearAndVoidPendingStop, ApplyPendingStopIfDrained, ApplyStop, flags
<1>4. ASSUME turn = "idle"
      PROVE  /\ ~InFlight("prompt")' /\ ~InFlight("sessionStart")'
             /\ InFlight("stop")' \/ Recorded'
  <2>1. /\ h.kind \notin {"prompt", "sessionStart"}
        /\ ~InFlight("prompt")' /\ ~InFlight("sessionStart")'
    BY <1>1, <1>4 DEF AwaitedInv, TurnInv, InFlight
  <2>2. InFlight("stop") /\ h.kind # "stop" => InFlight("stop")'
    BY <1>1 DEF InFlight
  <2>3. CASE h.kind = "stop"
    <3>1. UNCHANGED <<liveSubagents, liveShells>> /\ TryRecordStop(h)
      BY <2>3 DEF Commit, TryRecordStop, subagentTable, shellTable
    <3>2. Recorded'
      <4>1. CASE status = "running" /\ NothingLive /\ ApplyStop
        BY <4>1 DEF ApplyStop, Recorded
      <4>2. CASE status = "running" /\ (liveSubagents > 0 \/ liveShells > 0)
                 /\ stopPending' = TRUE /\ UNCHANGED status
        BY <1>2, <3>1, <4>2 DEF Recorded, NothingLive
      <4>3. CASE status # "running" /\ UNCHANGED flags
        BY <1>1, <4>3 DEF Recorded, flags
      <4> QED
        BY <3>1, <4>1, <4>2, <4>3 DEF TryRecordStop
    <3> QED
      BY <2>1, <3>2
  <2>4. CASE h.kind \in {"subStart", "shellStart"} /\ Recorded
    <3>1. UNCHANGED <<status, stopPending>>
      BY <2>4 DEF Commit, SubagentStart, ShellStart, flags
    <3>2. liveSubagents' > 0 \/ liveShells' > 0
      BY <1>0, <2>4, StartsAreLive DEF Commit
    <3>3. ~NothingLive'
      BY <1>2, <3>2 DEF NothingLive
    <3> QED
      BY <2>1, <2>4, <3>1, <3>3 DEF Recorded
  <2>5. CASE h.kind \in {"subStop", "shellStop"} /\ Recorded
    <3>1. ApplyPendingStopIfDrained
      BY <2>5 DEF Commit, SubagentStop, ShellStop
    <3> QED
      BY <2>1, <2>5, <3>1 DEF ApplyPendingStopIfDrained, ApplyStop, Recorded
  <2>6. InFlight("stop") \/ Recorded
    BY <1>4 DEF AwaitedInv, TurnInv
  <2>7. h.kind \in TimedKinds \cup {"sessionStart"} \cup SubKinds \cup ShellKinds
    BY <1>0 DEF Hooks
  <2> QED
    BY <2>1, <2>2, <2>3, <2>4, <2>5, <2>6, <2>7 DEF TimedKinds, SubKinds, ShellKinds
<1> QED
  BY <1>1, <1>3, <1>4 DEF TurnInv

(* With hooks awaited the invariant is inductive: ...                      *)
LEMMA NextAwaitedInv == ASSUME Awaited PROVE AwaitedInv /\ [Next]_vars => AwaitedInv'
<1> SUFFICES ASSUME AwaitedInv, [Next]_vars PROVE AwaitedInv'
  OBVIOUS
<1>0. IInv'
  BY NextIInv DEF AwaitedInv
<1>1. CASE ClaudeStep
  BY <1>0, <1>1, ClaudeAwaited
<1>2. ASSUME NEW h \in hooks, ReadsClock(h) PROVE AwaitedInv'
  BY <1>0, <1>2, StampAwaited
<1>3. ASSUME NEW h \in hooks, Commit(h) PROVE AwaitedInv'
  BY <1>0, <1>3, CommitSession, CommitAgents, CommitTurn DEF AwaitedInv
<1>4. CASE UNCHANGED vars
  BY <1>0, <1>4 DEF vars, row, flags, subagentTable, shellTable, claude, AwaitedInv, SessionInv,
     AgentsInv, TurnInv, InFlight, Recorded, NothingLive, Rows
<1> QED
  BY <1>1, <1>2, <1>3, <1>4 DEF Next, HookStep, LossStep, HookLost

(* ... it holds for any number of subagents, shells, sessions and hooks.   *)
THEOREM AwaitedInvHolds == ASSUME Awaited PROVE Spec => []AwaitedInv
BY InitAwaitedInv, NextAwaitedInv, PTL DEF Spec

(* Once the Stop of a finished turn is recorded, the card is in Review, or *)
(* Running with the Stop withheld for work the row still counts.           *)
THEOREM SettledTurnRecorded == ASSUME Awaited PROVE Spec => []SettledTurnIsRecorded
<1>1. AwaitedInv => SettledTurnIsRecorded
  BY DEF AwaitedInv, TurnInv, InFlight, Recorded, SettledTurnIsRecorded
<1> QED
  BY <1>1, AwaitedInvHolds, PTL

(* The flip to Review finds the subagent table empty: the Stop it applies  *)
(* met nothing live, or the commit drained the last row.                   *)
LEMMA ReviewMeetsNoRow ==
    ASSUME IInv, IInv', NEW h \in hooks, Commit(h), status = "running", status' = "review"
    PROVE  Rows(taskSubagents') = {}
<1>0. TypeOK /\ TypeOK' /\ h \in Hooks
  BY DEF IInv, TypeOK
<1>1. liveSubagents' = 0
  <2>1. CASE TryRecordStop(h)
    BY <2>1 DEF TryRecordStop, ApplyStop, NothingLive, flags, subagentTable
  <2>2. CASE ApplyPendingStopIfDrained
    BY <2>2 DEF ApplyPendingStopIfDrained, NothingLive
  <2>3. CASE RecordUserPromptSubmit(h) \/ SubagentStart(h) \/ ShellStart(h)
             \/ SubagentClearAndVoidPendingStop
    BY <2>3 DEF RecordUserPromptSubmit, SubagentStart, ShellStart,
       SubagentClearAndVoidPendingStop, flags
  <2> QED
    BY <2>1, <2>2, <2>3 DEF Commit, SubagentStop, ShellStop
<1>2. taskSubagents' \in [AgentIds -> Sessions \cup {NoSession}]
  BY <1>0 DEF TypeOK, RowTypeOK
<1>3. liveSubagents' = Cardinality(Rows(taskSubagents'))
  BY DEF IInv, LiveCountsMatchEntries
<1> DEFINE table == taskSubagents'
<1>4. table \in [AgentIds -> Sessions \cup {NoSession}] /\ Cardinality(Rows(table)) = 0
  BY <1>1, <1>2, <1>3
<1> HIDE DEF table
<1>5. \A k \in Rows(table) : Cardinality(Rows(table)) > 0
  BY <1>4, RowsCounted, IdsAssumption
<1>6. Rows(table) = {}
  BY <1>4, <1>5
<1> QED
  BY <1>6 DEF table

(* The flip to Review hides no subagent: one that runs when the card       *)
(* leaves Running is one whose SubagentStart has not committed yet.        *)
THEOREM NoAgentHidden == ASSUME Awaited PROVE Spec => ReviewHidesNoAgent
<1> DEFINE Hides == status = "running" /\ status' = "review" =>
             \A a \in AgentIds : agents[a] = "live" =>
                 \E h \in hooks : h.kind = "subStart" /\ h.id = a
<1>1. AwaitedInv /\ AwaitedInv' /\ [Next]_vars => [Hides]_vars
  <2> SUFFICES ASSUME AwaitedInv, AwaitedInv', [Next]_vars,
                      status = "running", status' = "review",
                      NEW a \in AgentIds, agents[a] = "live"
               PROVE  \E h \in hooks : h.kind = "subStart" /\ h.id = a
    OBVIOUS
  <2>1. ~UNCHANGED row
    BY DEF row, flags
  <2>2. PICK h \in hooks : Commit(h)
    BY <2>1, ClaudeStepTyped DEF Next, HookStep, LossStep, ReadsClock, HookLost, vars, AwaitedInv,
       IInv
  <2>3. /\ hooks' = hooks \ {h} /\ UNCHANGED agents
        /\ h.kind = "sessionStart" => hooks' = {}
    BY <2>2, CommitSession
  <2>4. h.kind # "sessionStart"
    BY <2>2 DEF Commit, SubagentClearAndVoidPendingStop
  <2>5. ~InFlight("sessionStart")'
    BY <2>2, <2>3, <2>4, CommitSession DEF InFlight
  <2>6. a \notin Rows(taskSubagents')
    BY <2>2, ReviewMeetsNoRow DEF AwaitedInv
  <2>7. \E g \in hooks' : g.kind = "subStart" /\ g.id = a
    BY <2>3, <2>5, <2>6 DEF AwaitedInv, AgentsInv
  <2> QED
    BY <2>3, <2>7
<1> QED
  BY <1>1, AwaitedInvHolds, PTL DEF Spec, ReviewHidesNoAgent

(* With every hook recorded, the subagent table lists exactly the          *)
(* subagents that run.                                                     *)
THEOREM EntriesCorrect == ASSUME Awaited PROVE Spec => []EntriesAreLiveAgents
<1>1. AwaitedInv => EntriesAreLiveAgents
  <2> SUFFICES ASSUME AwaitedInv, hooks = {}
               PROVE  Rows(taskSubagents) = {a \in AgentIds : agents[a] = "live"}
    BY DEF EntriesAreLiveAgents
  <2>1. DOMAIN taskSubagents = AgentIds
    BY DEF AwaitedInv, IInv, TypeOK, RowTypeOK
  <2> QED
    BY <2>1 DEF AwaitedInv, AgentsInv, InFlight, Rows
<1> QED
  BY <1>1, AwaitedInvHolds, PTL
=============================================================================
