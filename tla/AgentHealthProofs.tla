-------------------------- MODULE AgentHealthProofs --------------------------
(***************************************************************************)
(* What AgentHealth keeps for any number of callers, subagents, shells and *)
(* sessions.  The hooks alone keep the whole invariant of the row          *)
(* (AgentHooksProofs); with the service's calls between them its first     *)
(* half, types and counters, still always holds, and the second half is    *)
(* broken by a race only.                                                  *)
(***************************************************************************)
EXTENDS AgentHealth, AgentHooksProofs, SequenceTheorems

(* The half of the row's invariant that no interleaving can break.         *)
RowOK == RowTypeOK /\ LiveCountsMatchEntries
HealthInv == HealthTypeOK /\ LiveCountsMatchEntries

-----------------------------------------------------------------------------
(* The row.                                                                *)

(* A call that writes flags only keeps counters and tables in agreement.   *)
LEMMA FlagsWritten ==
    ASSUME RowOK, UNCHANGED <<subagentTable, shellTable>>,
           status' \in Statuses, stopPending' \in BOOLEAN, stopPendingAt' \in Times \cup {NoTime}
    PROVE  RowOK'
BY DEF RowOK, RowTypeOK, LiveCountsMatchEntries, subagentTable, shellTable, Rows

(* So does one that leaves the row alone.                                  *)
LEMMA RowKept ==
    ASSUME RowOK, UNCHANGED row
    PROVE  RowOK'
BY FlagsWritten DEF RowOK, RowTypeOK, row, flags

(* A drain writes a status and a bit.                                      *)
LEMMA DrainTyped ==
    ASSUME RowOK, ApplyPendingStopIfDrained
    PROVE  status' \in Statuses /\ stopPending' \in BOOLEAN
BY DEF RowOK, RowTypeOK, Statuses, ApplyPendingStopIfDrained, ApplyStop

(* A write of the subagent table recounts it.                              *)
LEMMA SubagentsRecounted ==
    ASSUME RowOK, NEW table \in [AgentIds -> Sessions \cup {NoSession}], WriteSubagents(table),
           UNCHANGED <<stopPendingAt, shellTable>>,
           status' \in Statuses, stopPending' \in BOOLEAN
    PROVE  RowOK'
<1>1. /\ taskSubagents' \in [AgentIds -> Sessions \cup {NoSession}]
      /\ liveSubagents' \in Nat
      /\ liveSubagents' = Cardinality(Rows(taskSubagents'))
  BY SubagentsWritten
<1> QED
  BY <1>1 DEF RowOK, RowTypeOK, LiveCountsMatchEntries, shellTable, Rows

(* A write of the shell table recounts it.                                 *)
LEMMA ShellsRecounted ==
    ASSUME RowOK, NEW table \in [ShellIds -> Sessions \cup {NoSession}], WriteShells(table),
           UNCHANGED <<stopPendingAt, subagentTable>>,
           status' \in Statuses, stopPending' \in BOOLEAN
    PROVE  RowOK'
<1>1. /\ taskShells' \in [ShellIds -> Sessions \cup {NoSession}]
      /\ liveShells' \in Nat
      /\ liveShells' = Cardinality(Rows(taskShells'))
  BY ShellsWritten
<1> QED
  BY <1>1 DEF RowOK, RowTypeOK, LiveCountsMatchEntries, subagentTable, Rows

(* Every hook transaction keeps the row well formed, even on a row whose   *)
(* withheld Stop some race has stranded.                                   *)
LEMMA CommitKeepsRowOK ==
    ASSUME RowOK, NEW h \in Hooks, Commit(h)
    PROVE  RowOK'
<1>1. CASE h.kind = "stop" /\ TryRecordStop(h)
  <2>1. /\ UNCHANGED <<subagentTable, shellTable>>
        /\ status' \in Statuses /\ stopPending' \in BOOLEAN
        /\ stopPendingAt' \in Times \cup {NoTime}
    BY <1>1, HookFields DEF TryRecordStop, ApplyStop, RowOK, RowTypeOK, Statuses, flags
  <2> QED
    BY <2>1, FlagsWritten
<1>2. CASE h.kind = "prompt" /\ RecordUserPromptSubmit(h)
  <2>1. /\ UNCHANGED <<subagentTable, shellTable>>
        /\ status' \in Statuses /\ stopPending' \in BOOLEAN
        /\ stopPendingAt' \in Times \cup {NoTime}
    BY <1>2 DEF RecordUserPromptSubmit, RowOK, RowTypeOK, Statuses
  <2> QED
    BY <2>1, FlagsWritten
<1>3. CASE h.kind = "subStart" /\ SubagentStart(h)
  <2> DEFINE table == [Fence(taskSubagents, h.session) EXCEPT ![h.id] = h.session]
  <2>1. table \in [AgentIds -> Sessions \cup {NoSession}]
    BY <1>3, HookFields, TableWrites DEF RowOK, RowTypeOK, SubKinds
  <2>2. WriteSubagents(table) /\ UNCHANGED <<flags, shellTable>>
    BY <1>3 DEF SubagentStart
  <2> HIDE DEF table
  <2> QED
    BY <2>1, <2>2, SubagentsRecounted DEF flags, RowOK, RowTypeOK
<1>4. CASE h.kind = "subStop" /\ SubagentStop(h)
  <2> DEFINE table == [Fence(taskSubagents, h.session) EXCEPT ![h.id] = NoSession]
  <2>1. table \in [AgentIds -> Sessions \cup {NoSession}]
    BY <1>4, HookFields, TableWrites DEF RowOK, RowTypeOK, SubKinds
  <2>2. WriteSubagents(table) /\ UNCHANGED <<stopPendingAt, shellTable>>
    BY <1>4 DEF SubagentStop
  <2> HIDE DEF table
  <2> QED
    BY <1>4, <2>1, <2>2, DrainTyped, SubagentsRecounted DEF SubagentStop
<1>5. CASE h.kind = "shellStart" /\ ShellStart(h)
  <2> DEFINE table == [Fence(taskShells, h.session) EXCEPT ![h.id] = h.session]
  <2>1. table \in [ShellIds -> Sessions \cup {NoSession}]
    BY <1>5, HookFields, TableWrites DEF RowOK, RowTypeOK, ShellKinds
  <2>2. WriteShells(table) /\ UNCHANGED <<flags, subagentTable>>
    BY <1>5 DEF ShellStart
  <2> HIDE DEF table
  <2> QED
    BY <2>1, <2>2, ShellsRecounted DEF flags, RowOK, RowTypeOK
<1>6. CASE h.kind = "shellStop" /\ ShellStop(h)
  <2> DEFINE table == [Fence(taskShells, h.session) EXCEPT ![h.id] = NoSession]
  <2>1. table \in [ShellIds -> Sessions \cup {NoSession}]
    BY <1>6, HookFields, TableWrites DEF RowOK, RowTypeOK, ShellKinds
  <2>2. WriteShells(table) /\ UNCHANGED <<stopPendingAt, subagentTable>>
    BY <1>6 DEF ShellStop
  <2> HIDE DEF table
  <2> QED
    BY <1>6, <2>1, <2>2, DrainTyped, ShellsRecounted DEF ShellStop
<1>7. CASE SubagentClearAndVoidPendingStop
  BY <1>7, NoRowsType, SubagentsRecounted DEF SubagentClearAndVoidPendingStop, RowOK, RowTypeOK
<1> QED
  BY <1>1, <1>2, <1>3, <1>4, <1>5, <1>6, <1>7 DEF Commit

-----------------------------------------------------------------------------
(* The programs.                                                           *)

(* The programs the operations begin are programs.                         *)
LEMMA ProgramsTyped ==
    /\ Persist \in Seq(Steps) /\ ClearStructuralNoDrain \in Seq(Steps)
    /\ Persist \o ClearStructuralNoDrain \in Seq(Steps)
    /\ Persist \o <<"drain">> \in Seq(Steps)
    /\ \A c \in Services : Dispatch(c) \in Seq(Steps) /\ Persist \o Dispatch(c) \in Seq(Steps)
<1>1. /\ Persist \in Seq(Steps) /\ ClearStructuralNoDrain \in Seq(Steps)
      /\ <<"drain">> \in Seq(Steps) /\ <<"claim">> \in Seq(Steps)
      /\ <<"provision">> \in Seq(Steps) /\ <<"record">> \in Seq(Steps)
  BY DEF Persist, ClearStructuralNoDrain, Steps
<1>2. ASSUME NEW s1 \in Seq(Steps), NEW s2 \in Seq(Steps)
      PROVE  s1 \o s2 \in Seq(Steps)
  BY ConcatProperties
<1>3. \A c \in Services : Dispatch(c) \in Seq(Steps)
  BY <1>1, <1>2 DEF Dispatch
<1> QED
  BY <1>1, <1>2, <1>3

(* A caller without work is idle.                                          *)
LEMMA IdleTyped == Idle \in Operations
BY EmptySeq DEF Idle, Operations, Statuses, Pointers

(* An operation begins with a program of its own.                          *)
LEMMA BeginTyped ==
    ASSUME HealthTypeOK, NEW c \in Services, NEW todo \in Seq(Steps),
           NEW next \in Statuses, NEW ptrs \in Pointers, Begin(c, todo, next, ptrs)
    PROVE  ops' \in [Services -> Operations]
BY DEF HealthTypeOK, Begin, Operations, Statuses

(* A step leaves the rest of the program to do, or nothing.                *)
LEMMA DoneTyped ==
    ASSUME HealthTypeOK, NEW c \in Services, NEW op \in Operations, op.todo # <<>>, Done(c, op)
    PROVE  ops' \in [Services -> Operations]
<1>1. CASE Finish(c)
  BY <1>1, IdleTyped DEF HealthTypeOK, Finish
<1>2. CASE ops' = [ops EXCEPT ![c] = [op EXCEPT !.todo = Tail(@)]]
  <2>1. op.todo \in Seq(Steps)
    BY DEF Operations
  <2>2. Tail(op.todo) \in Seq(Steps)
    BY <2>1, HeadTailProperties
  <2>3. [op EXCEPT !.todo = Tail(@)] \in Operations
    BY <2>2 DEF Operations
  <2> QED
    BY <1>2, <2>3 DEF HealthTypeOK
<1> QED
  BY <1>1, <1>2 DEF Done

-----------------------------------------------------------------------------
(* Types and counters.                                                     *)

SessionOK == hooks \subseteq Hooks /\ ClaudeTypeOK
CallersOK ==
    /\ worktree \in BOOLEAN /\ panel \in BOOLEAN /\ window \in BOOLEAN
    /\ ops \in [Services -> Operations]
(* The invariant, split into row, session and callers.                     *)
LEMMA HealthParts == HealthInv <=> RowOK /\ SessionOK /\ CallersOK
BY DEF HealthInv, HealthTypeOK, TypeOK, RowOK, SessionOK, CallersOK

(* Claude gone: its subagents and shells have ended.                       *)
LEMMA WindowKilledTyped ==
    ASSUME SessionOK, WindowKilled
    PROVE  UNCHANGED row /\ SessionOK' /\ window' \in BOOLEAN
BY DEF SessionOK, WindowKilled, Gone, ClaudeTypeOK

(* A new session in the task's window.                                     *)
LEMMA SessionStartsTyped ==
    ASSUME HealthInv, SessionStarts
    PROVE  UNCHANGED row /\ SessionOK'
BY ClaudeStepTyped DEF HealthInv, HealthTypeOK, SessionOK, ClaudeStep

(* The beginning of an operation writes no row.                            *)
LEMMA BeginsTyped ==
    ASSUME HealthInv, NEW c \in Services, ServiceBegins(c)
    PROVE  UNCHANGED row /\ SessionOK' /\ CallersOK'
<1> USE DEF HealthInv, HealthTypeOK, TypeOK, CallersOK
<1>0. /\ \A s \in {"keep", "unpanel", "null", "set"} : s \in Pointers
      /\ \A s \in {"backlog", "running", "review", "done"} : s \in Statuses
      /\ SessionOK
  BY DEF Pointers, Statuses, SessionOK
<1>k. ASSUME UNCHANGED vars
      PROVE  UNCHANGED row /\ SessionOK'
  BY <1>0, <1>k DEF vars, claude, SessionOK, ClaudeTypeOK
<1>1. CASE UpdateTask(c)
  BY <1>0, <1>k, <1>1, BeginTyped, ProgramsTyped DEF UpdateTask
<1>2. CASE CloseSession(c)
  <2>1. PICK next \in {"review", "done"} : Begin(c, Persist, next, "unpanel")
    BY <1>2 DEF CloseSession
  <2> QED
    BY <1>0, <1>k, <1>2, <2>1, BeginTyped, ProgramsTyped DEF CloseSession
<1>3. CASE DispatchTask(c)
  BY <1>0, <1>k, <1>3, BeginTyped, ProgramsTyped DEF DispatchTask
<1>4. CASE RetryFresh(c)
  BY <1>0, <1>k, <1>4, BeginTyped, ProgramsTyped DEF RetryFresh
<1>5. CASE AgentCrashed(c)
  BY <1>0, <1>k, <1>5, BeginTyped, ProgramsTyped DEF AgentCrashed
<1>6. CASE DetachTmux(c)
  <2>1. status \in Statuses
    BY DEF RowTypeOK
  <2>2. UNCHANGED row /\ SessionOK' /\ window' \in BOOLEAN /\ UNCHANGED <<worktree, panel>>
    BY <1>0, <1>6, WindowKilledTyped DEF DetachTmux
  <2>3. ops' \in [Services -> Operations]
    BY <1>0, <1>6, <2>1, BeginTyped, ProgramsTyped DEF DetachTmux
  <2> QED
    BY <2>2, <2>3
<1>7. CASE Resume(c)
  <2>1. UNCHANGED row /\ SessionOK'
    BY <1>7, SessionStartsTyped DEF Resume
  <2>2. ops' \in [Services -> Operations]
    BY <1>0, <1>7, BeginTyped, ProgramsTyped DEF Resume
  <2> QED
    BY <1>7, <2>1, <2>2 DEF Resume
<1> QED
  BY <1>1, <1>2, <1>3, <1>4, <1>5, <1>6, <1>7 DEF ServiceBegins

(* Every call of the service keeps types and counters.                     *)
LEMMA CallsTyped ==
    ASSUME HealthInv, NEW c \in Services, ServiceSteps(c)
    PROVE  RowOK' /\ SessionOK' /\ CallersOK'
<1> USE DEF HealthInv, HealthTypeOK
<1>0. RowOK /\ SessionOK /\ CallersOK /\ ops[c] \in Operations
  BY HealthParts DEF CallersOK
<1>k. ASSUME UNCHANGED <<hooks, claude>>
      PROVE  SessionOK'
  BY <1>0, <1>k DEF claude, SessionOK, ClaudeTypeOK
<1>p. ASSUME NEW ptrs, WritePointers(ptrs)
      PROVE  worktree' \in BOOLEAN /\ panel' \in BOOLEAN
  BY <1>p DEF WritePointers
<1>d. ASSUME NEW s, Doing(c, s), Done(c, ops[c])
      PROVE  ops' \in [Services -> Operations]
  BY <1>0, <1>d, DoneTyped DEF Doing
<1>f. ASSUME Finish(c)
      PROVE  ops' \in [Services -> Operations]
  BY <1>0, <1>f, IdleTyped DEF Finish, CallersOK
<1>1. CASE ReadPrior(c)
  <2>1. [ops[c] EXCEPT !.prior = status] \in Operations /\ ops[c].todo # <<>>
    BY <1>0, <1>1 DEF ReadPrior, Doing, Operations, RowOK, RowTypeOK
  <2>2. ops' \in [Services -> Operations]
    BY <1>0, <1>1, <2>1, DoneTyped DEF ReadPrior, Operations
  <2>3. UNCHANGED <<row, hooks, claude>> /\ UNCHANGED <<worktree, panel, window>>
    BY <1>1 DEF ReadPrior, vars
  <2> QED
    BY <1>0, <1>k, <2>2, <2>3, RowKept DEF CallersOK
<1>2. CASE Patch(c)
  <2>1. [Idle EXCEPT !.todo = ops[c].todo] \in Operations /\ ops[c].todo # <<>>
    BY <1>0, <1>2, IdleTyped DEF Patch, Doing, Operations
  <2>2. ops' \in [Services -> Operations]
    BY <1>2, <2>1, DoneTyped DEF Patch, Idle
  <2>3. /\ status' \in Statuses /\ stopPending' \in BOOLEAN
        /\ stopPendingAt' \in Times \cup {NoTime} /\ UNCHANGED <<subagentTable, shellTable>>
    BY <1>0, <1>2 DEF Patch, Operations, RowOK, RowTypeOK
  <2> QED
    BY <1>0, <1>2, <1>k, <1>p, <2>2, <2>3, FlagsWritten DEF Patch, CallersOK
<1>3. CASE TryClaimBacklogTask(c)
  <2>1. /\ UNCHANGED <<subagentTable, shellTable>> /\ status' \in Statuses
        /\ stopPending' \in BOOLEAN /\ stopPendingAt' \in Times \cup {NoTime}
    BY <1>0, <1>3 DEF TryClaimBacklogTask, RowOK, RowTypeOK, Statuses
  <2>2. [ops[c] EXCEPT !.next = "running", !.pointers = "set"] \in Operations
        /\ ops[c].todo # <<>>
    BY <1>0, <1>3 DEF TryClaimBacklogTask, Doing, Operations, Statuses, Pointers
  <2>3. ops' \in [Services -> Operations]
    BY <1>0, <1>3, <1>f, <2>2, DoneTyped DEF TryClaimBacklogTask, Operations
  <2> QED
    BY <1>0, <1>3, <1>k, <2>1, <2>3, FlagsWritten DEF TryClaimBacklogTask, CallersOK
<1>4. CASE ClearSubagents(c)
  <2>1. RowOK'
    BY <1>0, <1>4, NoRowsType, SubagentsRecounted
    DEF ClearSubagents, SubagentClearAndVoidPendingStop, RowOK, RowTypeOK
  <2> QED
    BY <1>0, <1>4, <1>k, <1>d, <2>1 DEF ClearSubagents, CallersOK
<1>5. CASE ClearShells(c)
  <2>1. RowOK'
    BY <1>0, <1>5, NoRowsType, ShellsRecounted DEF ClearShells, flags, RowOK, RowTypeOK
  <2> QED
    BY <1>0, <1>5, <1>k, <1>d, <2>1 DEF ClearShells, CallersOK
<1>6. CASE SubagentClear(c)
  <2>1. /\ taskSubagents' \in [AgentIds -> Sessions \cup {NoSession}]
        /\ liveSubagents' \in Nat
        /\ liveSubagents' = Cardinality(Rows(taskSubagents'))
        /\ taskShells' \in [ShellIds -> Sessions \cup {NoSession}]
        /\ liveShells' \in Nat
        /\ liveShells' = Cardinality(Rows(taskShells'))
    BY <1>6, NoRowsType, SubagentsWritten, ShellsWritten DEF SubagentClear
  <2>2. /\ status' \in Statuses /\ stopPending' \in BOOLEAN /\ UNCHANGED stopPendingAt
    BY <1>0, <1>6, DrainTyped DEF SubagentClear
  <2>3. RowOK'
    BY <1>0, <2>1, <2>2 DEF RowOK, RowTypeOK, LiveCountsMatchEntries
  <2> QED
    BY <1>0, <1>6, <1>k, <1>d, <2>3 DEF SubagentClear, CallersOK
<1>7. CASE Provision(c)
  <2>1. UNCHANGED row /\ SessionOK'
    BY <1>7, SessionStartsTyped DEF Provision
  <2> QED
    BY <1>0, <1>7, <1>d, <2>1, RowKept DEF Provision, CallersOK
<1>8. CASE TryReleaseBacklogClaim(c)
  <2>1. /\ UNCHANGED <<subagentTable, shellTable>> /\ status' \in Statuses
        /\ stopPending' \in BOOLEAN /\ stopPendingAt' \in Times \cup {NoTime}
    BY <1>0, <1>8 DEF TryReleaseBacklogClaim, RowOK, RowTypeOK, Statuses
  <2> QED
    BY <1>0, <1>8, <1>f, <1>k, <2>1, FlagsWritten DEF TryReleaseBacklogClaim, CallersOK
<1>9. CASE RecordLaunch(c)
  <2>1. UNCHANGED <<row, hooks, claude>>
    BY <1>9 DEF RecordLaunch, vars
  <2> QED
    BY <1>0, <1>9, <1>d, <1>k, <1>p, <2>1, RowKept DEF RecordLaunch, CallersOK
<1> QED
  BY <1>1, <1>2, <1>3, <1>4, <1>5, <1>6, <1>7, <1>8, <1>9 DEF ServiceSteps

(* A session's step, with the window open, and a hook's.                   *)
LEMMA SessionStepTyped ==
    ASSUME HealthInv, ClaudeStep \/ HookStep
    PROVE  RowOK' /\ SessionOK'
<1> USE HealthParts
<1>0. TypeOK
  BY DEF HealthInv, HealthTypeOK
<1>1. CASE ClaudeStep
  BY <1>0, <1>1, ClaudeStepTyped, RowKept DEF SessionOK
<1>2. ASSUME NEW h \in hooks, ReadsClock(h)
      PROVE  RowOK' /\ SessionOK'
  BY <1>0, <1>2, ReadsClockTyped, RowKept DEF SessionOK
<1>3. ASSUME NEW h \in hooks, Commit(h)
      PROVE  RowOK' /\ SessionOK'
  <2>1. RowOK'
    BY <1>3, CommitKeepsRowOK DEF SessionOK
  <2>2. SessionOK'
    BY <1>3 DEF Commit, SessionOK, claude, ClaudeTypeOK
  <2> QED
    BY <2>1, <2>2
<1> QED
  BY <1>1, <1>2, <1>3 DEF HookStep

(* Types and counters hold initially, ...                                  *)
LEMMA HealthInvStarts == HealthInit => HealthInv
<1> SUFFICES ASSUME HealthInit PROVE HealthInv
  OBVIOUS
<1>1. TypeOK /\ LiveCountsMatchEntries
  BY InitIInv DEF HealthInit, IInv
<1>2. ops \in [Services -> Operations]
  BY IdleTyped DEF HealthInit
<1> QED
  BY <1>1, <1>2 DEF HealthInit, HealthInv, HealthTypeOK

(* ... and every step of hooks, session and service keeps them.            *)
LEMMA HealthInvStays ==
    ASSUME HealthInv, [HealthNext]_healthVars
    PROVE  HealthInv'
<1> SUFFICES RowOK' /\ SessionOK' /\ CallersOK'
  BY DEF HealthInv, HealthTypeOK, TypeOK, RowOK, SessionOK, CallersOK
<1> USE HealthParts
<1>1. CASE SessionStep
  BY <1>1, SessionStepTyped DEF SessionStep, CallersOK
<1>2. CASE WindowDies
  BY <1>2, WindowKilledTyped, RowKept DEF WindowDies, CallersOK
<1>3. ASSUME NEW c \in Services, ServiceBegins(c)
      PROVE  RowOK' /\ SessionOK' /\ CallersOK'
  BY <1>3, BeginsTyped, RowKept
<1>4. ASSUME NEW c \in Services, ServiceSteps(c)
      PROVE  RowOK' /\ SessionOK' /\ CallersOK'
  BY <1>4, CallsTyped
<1>5. CASE UNCHANGED healthVars
  <2>1. UNCHANGED <<row, hooks, claude>> /\ UNCHANGED <<worktree, panel, window, ops>>
    BY <1>5 DEF healthVars, vars
  <2>2. SessionOK' /\ CallersOK'
    BY <2>1 DEF SessionOK, CallersOK, claude, ClaudeTypeOK
  <2> QED
    BY <2>1, <2>2, RowKept
<1> QED
  BY <1>1, <1>2, <1>3, <1>4, <1>5 DEF HealthNext

-----------------------------------------------------------------------------
(* What the hooks keep of a withheld Stop.                                 *)

(* A step that leaves the row alone leaves a withheld Stop sound.          *)
LEMMA UntouchedIsSound ==
    ASSUME RowOK, StopIsSound, UNCHANGED row
    PROVE  StopIsSound'
BY RowUntouched DEF RowInv, RowOK, StopIsSound

(* A call that is no race leaves a withheld Stop sound: a patch with a     *)
(* fresh read clears it on leaving Running, the clears void it, the claim  *)
(* finds a Backlog card, which has none.                                   *)
LEMMA CallsAreSound ==
    ASSUME RowOK, StopIsSound, NEW c \in Services, ServiceSteps(c), ~Race(c)
    PROVE  StopIsSound'
<1> USE DEF StopIsSound, NoStrandedStop, PendingStopOnlyWhileRunning, NothingLive
<1>0. stopPending \in BOOLEAN
  BY DEF RowOK, RowTypeOK
<1>1. CASE ReadPrior(c) \/ RecordLaunch(c)
  BY <1>1, UntouchedIsSound DEF ReadPrior, RecordLaunch, vars
<1>2. CASE Patch(c)
  BY <1>0, <1>2 DEF Patch, Race, ClearsPendingStop, subagentTable, shellTable
<1>3. CASE TryClaimBacklogTask(c)
  BY <1>0, <1>3 DEF TryClaimBacklogTask, subagentTable, shellTable
<1>4. CASE ClearSubagents(c)
  BY <1>4 DEF ClearSubagents, SubagentClearAndVoidPendingStop
<1>5. CASE ClearShells(c)
  BY <1>0, <1>5 DEF ClearShells, Race, flags
<1>6. CASE SubagentClear(c)
  BY <1>6, Drained DEF SubagentClear, RowOK
<1>7. CASE Provision(c)
  BY <1>7, UntouchedIsSound DEF Provision, SessionStarts
<1>8. CASE TryReleaseBacklogClaim(c)
  BY <1>0, <1>8 DEF TryReleaseBacklogClaim, Race, subagentTable, shellTable
<1> QED
  BY <1>1, <1>2, <1>3, <1>4, <1>5, <1>6, <1>7, <1>8 DEF ServiceSteps

(* Every step that makes a withheld Stop unsound is a race.                *)
LEMMA StepIsBrokenByRace ==
    ASSUME HealthInv, [HealthNext]_healthVars
    PROVE  BrokenByRace
<1> SUFFICES ASSUME StopIsSound, \A c \in Services : ~Race(c)
             PROVE  StopIsSound'
  BY DEF BrokenByRace
<1>0. RowOK /\ SessionOK /\ TypeOK
  BY HealthParts DEF HealthInv, HealthTypeOK
<1>1. CASE SessionStep
  <2>1. CASE ClaudeStep
    BY <1>0, <2>1, ClaudeStepTyped, UntouchedIsSound
  <2>2. ASSUME NEW h \in hooks, ReadsClock(h)
        PROVE  StopIsSound'
    BY <1>0, <2>2, ReadsClockTyped, UntouchedIsSound
  <2>3. ASSUME NEW h \in hooks, Commit(h)
        PROVE  StopIsSound'
    BY <1>0, <2>3, CommitKeepsRowInv DEF SessionOK, RowInv, RowOK, StopIsSound
  <2> QED
    BY <1>1, <2>1, <2>2, <2>3 DEF SessionStep, HookStep
<1>2. CASE WindowDies
  BY <1>0, <1>2, WindowKilledTyped, UntouchedIsSound DEF WindowDies
<1>3. ASSUME NEW c \in Services, ServiceBegins(c)
      PROVE  StopIsSound'
  BY <1>0, <1>3, BeginsTyped, UntouchedIsSound
<1>4. ASSUME NEW c \in Services, ServiceSteps(c)
      PROVE  StopIsSound'
  BY <1>0, <1>4, CallsAreSound
<1>5. CASE UNCHANGED healthVars
  BY <1>0, <1>5, UntouchedIsSound DEF healthVars, vars
<1> QED
  BY <1>1, <1>2, <1>3, <1>4, <1>5 DEF HealthNext

(* However hooks, board and MCP calls interleave, for any number of each:  *)
(* the row and its counters stay well formed, and what the hooks keep of a *)
(* withheld Stop is broken by the three named races only.                  *)
THEOREM OnlyRacesBreak == HealthSpec => OnlyRacesBreakTheStop
<1>1. HealthInv /\ [HealthNext]_healthVars => HealthInv'
  BY HealthInvStays
<1>2. HealthInv /\ [HealthNext]_healthVars => [BrokenByRace]_healthVars
  BY StepIsBrokenByRace
<1>3. HealthInv => HealthTypeOK /\ LiveCountsMatchEntries
  BY DEF HealthInv
<1> QED
  BY HealthInvStarts, <1>1, <1>2, <1>3, PTL DEF HealthSpec, OnlyRacesBreakTheStop
=============================================================================
