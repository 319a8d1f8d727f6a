------------------------- MODULE DispatchClaimProofs ------------------------
(***************************************************************************)
(* The dispatch claim for any number of attempts at each entry point.      *)
(***************************************************************************)
EXTENDS DispatchClaim, TLAPS

(* Exclusion is inductive together with the fact that a held task is out   *)
(* of Backlog: the claim lets a caller in from Backlog only.               *)
ClaimInv == TypeOK /\ DispatchClaimExclusive /\ HeldTaskIsNotBacklog

(* A Backlog task satisfies the invariant.                                 *)
LEMMA InitClaimInv == Init => ClaimInv
<1> SUFFICES ASSUME Init PROVE ClaimInv
  OBVIOUS
<1>1. \A a \in Attempts : ~Holds(a)
  BY DEF Init, Holds
<1>2. status \in Statuses /\ worktree \in BOOLEAN /\ window \in BOOLEAN /\ recent \in BOOLEAN
  BY CallsAssumption DEF Init, Statuses
<1>3. seen \in Snapshots
  BY <1>2 DEF Init, Snapshot, Snapshots
<1>4. pc \in [Attempts -> Phases] /\ reused \in [Attempts -> BOOLEAN]
  BY DEF Init, Phases
<1>5. onDisk \in BOOLEAN /\ windows \subseteq Attempts /\ spared \subseteq windows
      /\ dispatching \in BOOLEAN
      /\ cleanup \in {"none", "remove", "succeeded"}
  BY <1>2 DEF Init
<1> QED
  BY <1>1, <1>2, <1>3, <1>4, <1>5
     DEF ClaimInv, TypeOK, DispatchClaimExclusive, HeldTaskIsNotBacklog

-----------------------------------------------------------------------------
(* Types.                                                                  *)

(* An attempt that moves to a phase leaves pc typed.                       *)
LEMMA GotoTyped ==
    ASSUME TypeOK, NEW a \in Attempts, NEW phase \in Phases, Goto(a, phase)
    PROVE  pc' \in [Attempts -> Phases]
BY DEF TypeOK, Goto

(* So does one that ends.                                                  *)
LEMMA EndTyped ==
    ASSUME TypeOK, NEW a \in Attempts, EndAttempt(a)
    PROVE  pc' \in [Attempts -> Phases] /\ dispatching' \in BOOLEAN
BY DEF TypeOK, EndAttempt, Goto, Phases

(* Every step keeps the types.                                             *)
LEMMA NextTypeOK == TypeOK /\ [ClaimNext]_vars => TypeOK'
<1> SUFFICES ASSUME TypeOK, [ClaimNext]_vars PROVE TypeOK'
  OBVIOUS
<1>p. {"idle", "claim", "clear", "measure", "add", "launch", "failed", "launched"} \subseteq Phases
  BY DEF Phases
<1>1. ASSUME NEW a \in Attempts, Begins(a) PROVE TypeOK'
  <2>1. pc' \in [Attempts -> Phases]
    BY <1>p, <1>1, GotoTyped DEF Begins, CallDispatch, BoardDispatch
  <2> QED
    BY <1>1, <2>1 DEF Begins, CallDispatch, BoardDispatch, row, resources, board, TypeOK
<1>2. ASSUME NEW a \in Attempts, TryClaim(a) PROVE TypeOK'
  <2>1. pc' \in [Attempts -> Phases] /\ dispatching' \in BOOLEAN
    BY <1>p, <1>2, GotoTyped, EndTyped DEF TryClaim, TypeOK
  <2> QED
    BY <1>2, <2>1 DEF TryClaim, resources, TypeOK, Statuses
<1>3. ASSUME NEW a \in Attempts, ClearStructural(a) \/ ProvisionFails(a) \/ AddWorktree(a)
      PROVE  TypeOK'
  <2>1. pc' \in [Attempts -> Phases]
    BY <1>p, <1>3, GotoTyped DEF ClearStructural, AddWorktree, ProvisionFails
  <2>2. onDisk' \in BOOLEAN
    BY <1>3 DEF ClearStructural, AddWorktree, ProvisionFails, TypeOK, resources
  <2> QED
    BY <1>3, <2>1, <2>2 DEF ClearStructural, AddWorktree, ProvisionFails, row, resources,
       board, TypeOK
<1>4. ASSUME NEW a \in Attempts, MeasureReuse(a) PROVE TypeOK'
  <2>1. pc' \in [Attempts -> Phases]
    BY <1>p, <1>4, GotoTyped DEF MeasureReuse
  <2>2. reused' \in [Attempts -> BOOLEAN]
    BY <1>4 DEF MeasureReuse, TypeOK
  <2> QED
    BY <1>4, <2>1, <2>2 DEF MeasureReuse, row, resources, board, TypeOK
<1>5. ASSUME NEW a \in Attempts, LaunchAgent(a) \/ LaunchFails(a) PROVE TypeOK'
  <2>1. pc' \in [Attempts -> Phases]
    BY <1>p, <1>5, GotoTyped DEF LaunchAgent, LaunchFails
  <2>2. windows' \subseteq Attempts /\ spared' \subseteq windows'
    <3>1. CASE LaunchAgent(a)
      BY <3>1 DEF LaunchAgent, TypeOK
    <3>2. CASE LaunchFails(a)
      BY <3>2 DEF LaunchFails, KillWindow, TypeOK
    <3> QED
      BY <1>5, <3>1, <3>2
  <2>3. onDisk' \in BOOLEAN
    BY <1>5 DEF LaunchAgent, LaunchFails, TypeOK
  <2> QED
    BY <1>5, <2>1, <2>2, <2>3 DEF LaunchAgent, LaunchFails, row, board, TypeOK
<1>6. ASSUME NEW a \in Attempts, Ends(a) PROVE TypeOK'
  <2>1. pc' \in [Attempts -> Phases] /\ dispatching' \in BOOLEAN
    BY <1>6, EndTyped DEF Ends, RecordLaunch, Dispatched, TryReleaseBacklogClaim
  <2>2. seen' \in Snapshots
    <3>1. CASE Dispatched(a)
      BY <3>1 DEF Dispatched, Snapshots, Statuses
    <3>2. CASE RecordLaunch(a) \/ TryReleaseBacklogClaim(a)
      BY <3>2 DEF RecordLaunch, TryReleaseBacklogClaim, TypeOK
    <3> QED
      BY <1>6, <3>1, <3>2 DEF Ends
  <2>3. status' \in Statuses /\ worktree' \in BOOLEAN /\ window' \in BOOLEAN
        /\ recent' \in BOOLEAN
    BY <1>6 DEF Ends, RecordLaunch, Dispatched, TryReleaseBacklogClaim, TypeOK, Statuses
  <2>4. UNCHANGED <<onDisk, windows, spared, reused, cleanup>>
    BY <1>6 DEF Ends, RecordLaunch, Dispatched, TryReleaseBacklogClaim, resources
  <2> QED
    BY <2>1, <2>2, <2>3, <2>4 DEF TypeOK
<1>7. CASE Refresh
  BY <1>7 DEF Refresh, Snapshot, Snapshots, row, resources, attempts, TypeOK
<1>8. CASE WatchdogElapses
  <2>1. seen' \in Snapshots
    BY <1>8 DEF WatchdogElapses, Snapshots, TypeOK
  <2> QED
    BY <1>8, <2>1 DEF WatchdogElapses, resources, attempts, TypeOK
<1>9. CASE AgentReports \/ UNCHANGED vars
  BY <1>9 DEF AgentReports, vars, row, resources, attempts, board, TypeOK, Statuses
<1>10. CASE LeftoverCloses
  <2>1. windows' \subseteq Attempts /\ spared' \subseteq windows'
    BY <1>10 DEF LeftoverCloses, Close, TypeOK
  <2> QED
    BY <1>10, <2>1 DEF LeftoverCloses, Close, row, attempts, board, TypeOK
<1> QED
  BY <1>1, <1>2, <1>3, <1>4, <1>5, <1>6, <1>7, <1>8, <1>9, <1>10
     DEF ClaimNext, AttemptNext, Background, Provisions

-----------------------------------------------------------------------------
(* The claim.  A step either wins it, ends an attempt, or moves attempts   *)
(* within the holding phases or within the others; only the release makes  *)
(* a card Backlog.                                                         *)

Wins(a) ==
    /\ status = "backlog" /\ status' # "backlog"
    /\ Holds(a)' /\ \A b \in Attempts \ {a} : Holds(b)' <=> Holds(b)
Leaves(a) ==
    /\ ~Holds(a)' /\ \A b \in Attempts \ {a} : Holds(b)' <=> Holds(b)
    /\ Holds(a) \/ (status' = "backlog" <=> status = "backlog")
Keeps ==
    /\ \A b \in Attempts : Holds(b)' <=> Holds(b)
    /\ status' = "backlog" <=> status = "backlog"

(* A holder that moves on within its attempt holds what it held.           *)
LEMMA GotoKeeps ==
    ASSUME TypeOK, NEW a \in Attempts, NEW phase, Goto(a, phase),
           Holds(a) <=> phase \notin {"idle", "claim"}
    PROVE  \A b \in Attempts : Holds(b)' <=> Holds(b)
BY DEF TypeOK, Goto, Holds

(* An attempt that ends holds no more, and the others hold what they did.  *)
LEMMA EndLeaves ==
    ASSUME TypeOK, NEW a \in Attempts, EndAttempt(a)
    PROVE  ~Holds(a)' /\ \A b \in Attempts \ {a} : Holds(b)' <=> Holds(b)
BY DEF TypeOK, EndAttempt, Goto, Holds

(* What a step may do to the holders: win a free claim from Backlog, go    *)
(* on, or give it up.                                                      *)
LEMMA StepOfClaim ==
    ASSUME TypeOK, [ClaimNext]_vars
    PROVE  Keeps \/ \E a \in Attempts : Wins(a) \/ Leaves(a)
<1>1. ASSUME NEW a \in Attempts, Begins(a) PROVE Keeps
  BY <1>1, GotoKeeps DEF Begins, CallDispatch, BoardDispatch, Idle, Holds, Keeps, row
<1>2. ASSUME NEW a \in Attempts, TryClaim(a) PROVE Wins(a) \/ Leaves(a)
  <2>1. CASE status = "backlog" /\ status' = "running" /\ Goto(a, "clear")
    BY <2>1 DEF Wins, Goto, Holds, TypeOK
  <2>2. CASE status # "backlog" /\ EndAttempt(a) /\ UNCHANGED status
    BY <2>2, EndLeaves DEF Leaves
  <2> QED
    BY <1>2, <2>1, <2>2 DEF TryClaim
<1>3. ASSUME NEW a \in Attempts,
             \/ ClearStructural(a) \/ MeasureReuse(a) \/ AddWorktree(a)
             \/ ProvisionFails(a) \/ LaunchAgent(a) \/ LaunchFails(a)
      PROVE  Keeps
  <2>1. Holds(a) /\ UNCHANGED row
    BY <1>3 DEF ClearStructural, MeasureReuse, AddWorktree, ProvisionFails, LaunchAgent,
       LaunchFails, At, Holds, row
  <2>2. \E phase \in {"measure", "add", "launch", "failed", "launched"} : Goto(a, phase)
    BY <1>3 DEF ClearStructural, MeasureReuse, AddWorktree, ProvisionFails, LaunchAgent, LaunchFails
  <2> QED
    BY <2>1, <2>2, GotoKeeps DEF Keeps, row
<1>4. ASSUME NEW a \in Attempts, Ends(a) PROVE Leaves(a)
  BY <1>4, EndLeaves DEF Ends, RecordLaunch, Dispatched, TryReleaseBacklogClaim, At, Holds, Leaves
<1>5. CASE Refresh \/ WatchdogElapses \/ AgentReports \/ LeftoverCloses \/ UNCHANGED vars
  BY <1>5 DEF Refresh, WatchdogElapses, AgentReports, LeftoverCloses, Close, vars, row, attempts,
     Keeps, Holds
<1> QED
  BY <1>1, <1>2, <1>3, <1>4, <1>5 DEF ClaimNext, AttemptNext, Background, Provisions

(* Every step keeps the invariant.                                         *)
LEMMA NextClaimInv == ClaimInv /\ [ClaimNext]_vars => ClaimInv'
<1> SUFFICES ASSUME ClaimInv, [ClaimNext]_vars PROVE ClaimInv'
  OBVIOUS
<1> USE DEF ClaimInv, DispatchClaimExclusive, HeldTaskIsNotBacklog
<1>1. TypeOK'
  BY NextTypeOK
<1>2. CASE Keeps
  BY <1>1, <1>2 DEF Keeps
<1>3. ASSUME NEW a \in Attempts, Wins(a) PROVE ClaimInv'
  BY <1>1, <1>3 DEF Wins
<1>4. ASSUME NEW a \in Attempts, Leaves(a) PROVE ClaimInv'
  BY <1>1, <1>4 DEF Leaves
<1> QED
  BY <1>2, <1>3, <1>4, StepOfClaim

(* The claim's invariant holds for any number of attempts.                 *)
LEMMA ClaimInvHolds == ClaimSpec => []ClaimInv
BY InitClaimInv, NextClaimInv, PTL DEF ClaimSpec

(* Every variable keeps its type.                                          *)
THEOREM ClaimTypesCorrect == ClaimSpec => []TypeOK
<1>1. ClaimInv => TypeOK
  BY DEF ClaimInv
<1> QED
  BY <1>1, ClaimInvHolds, PTL

(* However many entry points fire on a task, at most one attempt that won  *)
(* the claim is under way.                                                 *)
THEOREM ClaimExclusive == ClaimSpec => []DispatchClaimExclusive
<1>1. ClaimInv => DispatchClaimExclusive
  BY DEF ClaimInv
<1> QED
  BY <1>1, ClaimInvHolds, PTL

(* While an attempt holds the claim, the board does not offer the card.    *)
THEOREM HeldIsNotBacklog == ClaimSpec => []HeldTaskIsNotBacklog
<1>1. ClaimInv => HeldTaskIsNotBacklog
  BY DEF ClaimInv
<1> QED
  BY <1>1, ClaimInvHolds, PTL

-----------------------------------------------------------------------------
(* A task that has no worktree before it is dispatched: what an attempt    *)
(* leaves behind it.  The invariant says what a claim under way implies    *)
(* about the row, the directory and the windows; that no worktree is ever  *)
(* recorded before the launch is what makes the release's guard succeed.   *)

Unlaunched(a) == pc[a] \in {"clear", "measure", "add", "launch", "failed"}
NothingBeforeLaunch ==
    (status = "backlog" \/ \E a \in Attempts : Unlaunched(a)) => AgentWindows = {} /\ ~worktree
UnlaunchedIsRunning == \A a \in Attempts : Unlaunched(a) => status = "running"
LaunchedIsUp == \A a \in Attempts : pc[a] = "launched" => a \in AgentWindows /\ onDisk
Agents ==
    /\ cleanup = "none"
    /\ NothingBeforeLaunch /\ UnlaunchedIsRunning /\ LaunchedIsUp
    /\ SettledTaskHasItsAgent /\ AgentKeepsItsWorktree
(* Once an attempt found the directory, none removes it.                   *)
ReusedIsThere ==
    /\ \A b \in Attempts : reused[b] => onDisk
    /\ \A a \in Attempts : pc[a] = "launch" /\ ~reused[a] => \A b \in Attempts : ~reused[b]
AgentInv == ClaimInv /\ Agents /\ ReusedIsThere

(* A Backlog task without a worktree satisfies the larger invariant.       *)
LEMMA InitAgentInv == ASSUME Kept = {FALSE} PROVE Init => AgentInv
BY InitClaimInv DEF Init, AgentInv, Agents, Unlaunched, NothingBeforeLaunch,
   UnlaunchedIsRunning, LaunchedIsUp, SettledTaskHasItsAgent, AgentKeepsItsWorktree,
   AgentWindows, ReusedIsThere

(* The phase of the attempt that moves, and of the others.                 *)
LEMMA Moved ==
    ASSUME TypeOK, NEW a \in Attempts, NEW phase, Goto(a, phase)
    PROVE  pc'[a] = phase /\ \A b \in Attempts \ {a} : pc'[b] = pc[b]
BY DEF TypeOK, Goto

(* Beside the holder every attempt is idle or about to claim.              *)
LEMMA OnlyHolder ==
    ASSUME ClaimInv, NEW a \in Attempts, Holds(a)
    PROVE  /\ \A b \in Attempts \ {a} : pc[b] \in {"idle", "claim"}
           /\ status # "backlog"
BY DEF ClaimInv, DispatchClaimExclusive, HeldTaskIsNotBacklog, Holds

(* A step that leaves the row, the directory, the windows and the holders' *)
(* phases alone.                                                           *)
LEMMA AgentsUntouched ==
    ASSUME Agents, UNCHANGED <<status, worktree, onDisk, AgentWindows, cleanup>>,
           \A b \in Attempts : pc'[b] = pc[b] \/ {pc[b], pc'[b]} \subseteq {"idle", "claim"}
    PROVE  Agents'
<1> USE DEF Agents, Unlaunched, Holds
<1>1. \A b \in Attempts :
        /\ Unlaunched(b)' <=> Unlaunched(b)
        /\ Holds(b)' <=> Holds(b)
        /\ (pc'[b] = "launched") <=> (pc[b] = "launched")
  OBVIOUS
<1>2. NothingBeforeLaunch' /\ UnlaunchedIsRunning' /\ LaunchedIsUp'
  BY <1>1 DEF NothingBeforeLaunch, UnlaunchedIsRunning, LaunchedIsUp
<1>3. SettledTaskHasItsAgent' /\ AgentKeepsItsWorktree'
  BY <1>1 DEF SettledTaskHasItsAgent, Settled, AgentKeepsItsWorktree
<1> QED
  BY <1>2, <1>3

(* A step of the holder that takes it to a phase before the launch.        *)
LEMMA UnlaunchedStep ==
    ASSUME ClaimInv, Agents, NEW a \in Attempts, Unlaunched(a),
           NEW phase \in {"measure", "add", "launch", "failed"}, Goto(a, phase),
           UNCHANGED <<status, worktree, cleanup>>, AgentWindows' = {}
    PROVE  Agents'
<1>1. Holds(a) /\ TypeOK
  BY DEF Holds, Unlaunched, ClaimInv
<1>2. pc'[a] = phase /\ \A b \in Attempts \ {a} : pc'[b] \in {"idle", "claim"}
  BY <1>1, Moved, OnlyHolder
<1>3. Unlaunched(a)' /\ Holds(a)' /\ pc'[a] # "launched"
  BY <1>2 DEF Unlaunched, Holds
<1>4. \A b \in Attempts \ {a} : ~Unlaunched(b)' /\ pc'[b] # "launched"
  BY <1>2 DEF Unlaunched
<1>5. status = "running" /\ ~worktree
  BY DEF Agents, UnlaunchedIsRunning, NothingBeforeLaunch
<1> QED
  BY <1>3, <1>4, <1>5 DEF Agents, NothingBeforeLaunch, UnlaunchedIsRunning, LaunchedIsUp,
     SettledTaskHasItsAgent, Settled, AgentKeepsItsWorktree

(* Every step keeps the larger invariant.                                  *)
LEMMA NextAgents == AgentInv /\ [ClaimNext]_vars => Agents'
<1> USE DEF AgentWindows
<1> SUFFICES ASSUME ClaimInv, Agents, [ClaimNext]_vars PROVE Agents'
  BY DEF AgentInv
<1>t. TypeOK
  BY DEF ClaimInv
<1>1. ASSUME NEW a \in Attempts, Begins(a) PROVE Agents'
  BY <1>t, <1>1, Moved, AgentsUntouched
     DEF Begins, CallDispatch, BoardDispatch, Idle, row, resources
<1>2. ASSUME NEW a \in Attempts, TryClaim(a) PROVE Agents'
  <2>1. CASE status = "backlog" /\ Goto(a, "clear") /\ status' = "running"
    <3>1. \A b \in Attempts : ~Holds(b)
      BY <2>1 DEF ClaimInv, HeldTaskIsNotBacklog
    <3>2. pc'[a] = "clear" /\ \A b \in Attempts \ {a} : pc'[b] \in {"idle", "claim"}
      BY <1>t, <2>1, <3>1, Moved DEF Holds
    <3>3. Holds(a)' /\ \A b \in Attempts : pc'[b] # "launched"
      BY <3>2 DEF Holds
    <3>4. AgentWindows = {} /\ ~worktree
      BY <2>1 DEF Agents, NothingBeforeLaunch
    <3> QED
      BY <1>2, <2>1, <3>3, <3>4 DEF TryClaim, resources, Agents, NothingBeforeLaunch,
         UnlaunchedIsRunning, LaunchedIsUp, SettledTaskHasItsAgent, Settled, AgentKeepsItsWorktree
  <2>2. CASE EndAttempt(a) /\ UNCHANGED status
    BY <1>t, <1>2, <2>2, Moved, AgentsUntouched DEF TryClaim, EndAttempt, At, resources
  <2> QED
    BY <1>2, <2>1, <2>2 DEF TryClaim
<1>3. ASSUME NEW a \in Attempts,
             \/ ClearStructural(a) \/ MeasureReuse(a) \/ AddWorktree(a)
             \/ ProvisionFails(a) \/ LaunchFails(a)
      PROVE  Agents'
  <2>1. Unlaunched(a) /\ UNCHANGED <<status, worktree, cleanup>>
    BY <1>3 DEF ClearStructural, MeasureReuse, AddWorktree, ProvisionFails, LaunchFails,
       At, Unlaunched, row
  <2>2. AgentWindows = {}
    BY <2>1 DEF Agents, NothingBeforeLaunch
  <2>3. AgentWindows' = {}
    <3>1. CASE LaunchFails(a)
      BY <2>2, <3>1 DEF LaunchFails, KillWindow
    <3> QED
      BY <1>3, <2>2, <3>1 DEF ClearStructural, MeasureReuse, AddWorktree, ProvisionFails,
         resources
  <2>4. \E phase \in {"measure", "add", "launch", "failed"} : Goto(a, phase)
    BY <1>3 DEF ClearStructural, MeasureReuse, AddWorktree, ProvisionFails, LaunchFails
  <2> QED
    BY <2>1, <2>3, <2>4, UnlaunchedStep
<1>4. ASSUME NEW a \in Attempts, LaunchAgent(a) PROVE Agents'
  <2>1. Holds(a)
    BY <1>4 DEF LaunchAgent, At, Holds
  <2>2. pc'[a] = "launched" /\ \A b \in Attempts \ {a} : pc'[b] \in {"idle", "claim"}
    BY <1>t, <1>4, <2>1, Moved, OnlyHolder DEF LaunchAgent
  <2>3. Holds(a)' /\ \A b \in Attempts : ~Unlaunched(b)'
    BY <2>2 DEF Holds, Unlaunched
  <2>4. onDisk' /\ AgentWindows' = {a} /\ status' # "backlog" /\ cleanup' = "none"
    BY <1>t, <1>4, <2>1, OnlyHolder DEF LaunchAgent, row, Agents, TypeOK
  <2> QED
    BY <2>2, <2>3, <2>4 DEF Agents, NothingBeforeLaunch, UnlaunchedIsRunning, LaunchedIsUp,
       SettledTaskHasItsAgent, Settled, AgentKeepsItsWorktree
<1>5. ASSUME NEW a \in Attempts, RecordLaunch(a) \/ Dispatched(a) PROVE Agents'
  <2>1. Holds(a) /\ a \in AgentWindows /\ onDisk
    BY <1>5 DEF RecordLaunch, Dispatched, At, Holds, Agents, LaunchedIsUp
  <2>2. \A b \in Attempts : pc'[b] \in {"idle", "claim"}
    BY <1>t, <1>5, <2>1, Moved, OnlyHolder DEF RecordLaunch, Dispatched, EndAttempt
  <2>3. \A b \in Attempts : ~Unlaunched(b)' /\ pc'[b] # "launched"
    BY <2>2 DEF Unlaunched
  <2>4. status' # "backlog" /\ worktree' = TRUE
        /\ UNCHANGED <<onDisk, AgentWindows, cleanup>>
    BY <1>5, <2>1, OnlyHolder DEF RecordLaunch, Dispatched, resources
  <2> QED
    BY <2>1, <2>3, <2>4 DEF Agents, NothingBeforeLaunch, UnlaunchedIsRunning, LaunchedIsUp,
       SettledTaskHasItsAgent, AgentKeepsItsWorktree
<1>6. ASSUME NEW a \in Attempts, TryReleaseBacklogClaim(a) PROVE Agents'
  <2>1. Holds(a) /\ Unlaunched(a)
    BY <1>6 DEF TryReleaseBacklogClaim, At, Holds, Unlaunched
  <2>2. \A b \in Attempts : pc'[b] \in {"idle", "claim"}
    BY <1>t, <1>6, <2>1, Moved, OnlyHolder DEF TryReleaseBacklogClaim, EndAttempt
  <2>3. \A b \in Attempts : ~Unlaunched(b)' /\ pc'[b] # "launched"
    BY <2>2 DEF Unlaunched
  <2>4. status = "running" /\ ~worktree /\ AgentWindows = {}
    BY <2>1 DEF Agents, NothingBeforeLaunch, UnlaunchedIsRunning
  <2>5. status' = "backlog" /\ UNCHANGED <<worktree, AgentWindows, onDisk, cleanup>>
    BY <1>6, <2>4 DEF TryReleaseBacklogClaim, resources
  <2> QED
    BY <2>3, <2>4, <2>5 DEF Agents, NothingBeforeLaunch, UnlaunchedIsRunning, LaunchedIsUp,
       SettledTaskHasItsAgent, AgentKeepsItsWorktree
<1>7. CASE Refresh \/ WatchdogElapses \/ UNCHANGED vars
  BY <1>7, AgentsUntouched DEF Refresh, WatchdogElapses, vars, row, resources, attempts
<1>8. CASE AgentReports
  <2>1. /\ AgentWindows # {} /\ status # "backlog" /\ status' # "backlog"
        /\ UNCHANGED <<worktree, onDisk, AgentWindows, pc, cleanup>>
    BY <1>8 DEF AgentReports, resources, attempts
  <2>2. \A b \in Attempts : ~Unlaunched(b) /\ ~Unlaunched(b)'
    BY <2>1 DEF Agents, NothingBeforeLaunch, Unlaunched
  <2> QED
    BY <2>1, <2>2 DEF Agents, NothingBeforeLaunch, UnlaunchedIsRunning, LaunchedIsUp,
       SettledTaskHasItsAgent, Settled, Holds, AgentKeepsItsWorktree
<1>9. CASE LeftoverCloses
  <2>1. UNCHANGED <<status, worktree, onDisk, AgentWindows, cleanup, pc>>
    BY <1>9 DEF LeftoverCloses, Close, row, attempts
  <2> QED
    BY <2>1, AgentsUntouched
<1> QED
  BY <1>1, <1>2, <1>3, <1>4, <1>5, <1>6, <1>7, <1>8, <1>9
     DEF ClaimNext, AttemptNext, Background, Provisions, Ends

(* An attempt measures whether the directory is there before it may remove *)
(* it, and only one attempt at a time gets that far.                       *)
LEMMA NextReused == ClaimInv /\ ReusedIsThere /\ [ClaimNext]_vars => ReusedIsThere'
<1> SUFFICES ASSUME ClaimInv, ReusedIsThere, [ClaimNext]_vars PROVE ReusedIsThere'
  OBVIOUS
<1> USE DEF ReusedIsThere
<1>t. TypeOK
  BY DEF ClaimInv
<1>1. ASSUME NEW a \in Attempts, MeasureReuse(a) PROVE ReusedIsThere'
  <2>1. pc'[a] = "add" /\ \A b \in Attempts \ {a} : pc'[b] \in {"idle", "claim"}
    BY <1>t, <1>1, Moved, OnlyHolder DEF MeasureReuse, At, Holds
  <2>2. reused' = [reused EXCEPT ![a] = onDisk] /\ onDisk' = onDisk
    BY <1>1 DEF MeasureReuse, resources
  <2> QED
    BY <1>t, <2>1, <2>2 DEF TypeOK
<1>2. ASSUME NEW a \in Attempts, AddWorktree(a) PROVE ReusedIsThere'
  <2>1. pc'[a] = "launch" /\ \A b \in Attempts \ {a} : pc'[b] \in {"idle", "claim"}
    BY <1>t, <1>2, Moved, OnlyHolder DEF AddWorktree, At, Holds
  <2>2. (reused[a] \/ ~onDisk) /\ onDisk' = (onDisk \/ ~reused[a]) /\ reused' = reused
    BY <1>2 DEF AddWorktree
  <2> QED
    BY <1>t, <2>1, <2>2 DEF TypeOK
<1>3. ASSUME NEW a \in Attempts, LaunchFails(a) PROVE ReusedIsThere'
  <2>1. pc'[a] = "failed" /\ \A b \in Attempts \ {a} : pc'[b] \in {"idle", "claim"}
    BY <1>t, <1>3, Moved, OnlyHolder DEF LaunchFails, At, Holds
  <2>2. reused' = reused /\ (reused[a] => onDisk' = onDisk) /\ pc[a] = "launch"
    BY <1>3 DEF LaunchFails, At
  <2> QED
    BY <1>t, <2>1, <2>2 DEF TypeOK
<1>4. ASSUME UNCHANGED <<reused, onDisk>>,
             \A b \in Attempts : pc'[b] = "launch" => pc[b] = "launch"
      PROVE  ReusedIsThere'
  BY <1>4
<1>5. ASSUME NEW a \in Attempts,
             \/ Begins(a) \/ TryClaim(a) \/ ClearStructural(a) \/ ProvisionFails(a)
             \/ LaunchAgent(a) \/ Ends(a)
      PROVE  ReusedIsThere'
  <2>1. UNCHANGED <<reused, onDisk>>
    BY <1>5 DEF Begins, CallDispatch, BoardDispatch, TryClaim, ClearStructural, ProvisionFails,
       LaunchAgent, Ends, RecordLaunch, Dispatched, TryReleaseBacklogClaim, resources
  <2>2. \E phase \in {"idle", "claim", "clear", "measure", "failed", "launched"} : Goto(a, phase)
    BY <1>5 DEF Begins, CallDispatch, BoardDispatch, TryClaim, ClearStructural, ProvisionFails,
       LaunchAgent, Ends, RecordLaunch, Dispatched, TryReleaseBacklogClaim, EndAttempt
  <2>3. \A b \in Attempts : pc'[b] = "launch" => pc[b] = "launch"
    BY <1>t, <2>2, Moved
  <2> QED
    BY <1>4, <2>1, <2>3
<1>6. CASE Refresh \/ WatchdogElapses \/ AgentReports \/ LeftoverCloses \/ UNCHANGED vars
  BY <1>4, <1>6 DEF Refresh, WatchdogElapses, AgentReports, LeftoverCloses, Close, vars,
     resources, attempts
<1> QED
  BY <1>1, <1>2, <1>3, <1>5, <1>6 DEF ClaimNext, AttemptNext, Background, Provisions

(* For a task without a worktree of its own the rest of the invariant      *)
(* holds too, however many attempts.                                       *)
THEOREM AgentInvHolds == ASSUME Kept = {FALSE} PROVE ClaimSpec => []AgentInv
<1>1. Init => AgentInv
  BY InitAgentInv
<1>2. AgentInv /\ [ClaimNext]_vars => AgentInv'
  BY NextClaimInv, NextAgents, NextReused DEF AgentInv
<1> QED
  BY <1>1, <1>2, PTL DEF ClaimSpec

(* With no attempt under way, a task out of Backlog has an agent's window, *)
(* a directory and the pointer to it: no failed or lost dispatch strands   *)
(* it, whatever its rollback could not undo.                               *)
THEOREM SettledHasAgent == ASSUME Kept = {FALSE} PROVE ClaimSpec => []SettledTaskHasItsAgent
<1>1. AgentInv => SettledTaskHasItsAgent
  BY DEF AgentInv, Agents
<1> QED
  BY <1>1, AgentInvHolds, PTL

(* No dispatch removes the worktree under an agent, with rollbacks whose   *)
(* window query, kill and removal may each fail.                           *)
THEOREM WorktreeKept == ASSUME Kept = {FALSE} PROVE ClaimSpec => []AgentKeepsItsWorktree
<1>1. AgentInv => AgentKeepsItsWorktree
  BY DEF AgentInv, Agents
<1> QED
  BY <1>1, AgentInvHolds, PTL

(* A failed dispatch restores Backlog, keeps the directory it found and    *)
(* leaves no agent, nor a window but one its rollback could not kill.      *)
THEOREM FailureRestores == ASSUME Kept = {FALSE} PROVE ClaimSpec => FailureRestoresBacklog
<1>1. ASSUME AgentInv, [ClaimNext]_vars PROVE RestoresBacklog
  <2> SUFFICES ASSUME NEW a \in Attempts, pc[a] = "failed", pc'[a] = "idle"
               PROVE  /\ status' = "backlog" /\ ~worktree'
                      /\ reused[a] => onDisk'
                      /\ AgentWindows' = {} /\ (a \in windows' => a \in spared')
    BY DEF RestoresBacklog
  <2>1. Unlaunched(a) /\ Holds(a) /\ TypeOK
    BY <1>1 DEF Unlaunched, Holds, AgentInv, ClaimInv
  <2>2. status = "running" /\ ~worktree /\ AgentWindows = {} /\ (reused[a] => onDisk)
    BY <1>1, <2>1 DEF AgentInv, Agents, NothingBeforeLaunch, UnlaunchedIsRunning, ReusedIsThere
  <2>3. ASSUME NEW b \in Attempts, Begins(b) \/ Provisions(b) PROVE FALSE
    <3>1. \E phase : Goto(b, phase) /\ (pc[b] = "failed" => phase # "idle")
      BY <1>1, <2>2, <2>3 DEF Begins, CallDispatch, BoardDispatch, Provisions, TryClaim,
         ClearStructural, MeasureReuse, AddWorktree, ProvisionFails, LaunchAgent, LaunchFails,
         EndAttempt, At, Idle
    <3> QED
      BY <2>1, <3>1, Moved
  <2>4. ASSUME NEW b \in Attempts, Ends(b) PROVE b = a
    BY <2>1, <2>4, Moved DEF Ends, RecordLaunch, Dispatched, TryReleaseBacklogClaim, EndAttempt
  <2>5. UNCHANGED pc => FALSE
    OBVIOUS
  <2>6. Ends(a)
    BY <1>1, <2>3, <2>4, <2>5 DEF ClaimNext, AttemptNext, Background, Refresh, AgentReports,
       WatchdogElapses, LeftoverCloses, Close, vars, attempts
  <2> QED
    BY <2>2, <2>6 DEF Ends, RecordLaunch, Dispatched, TryReleaseBacklogClaim, At, resources,
       AgentWindows
<1> QED
  BY <1>1, AgentInvHolds, PTL DEF ClaimSpec, FailureRestoresBacklog

-----------------------------------------------------------------------------
(* The refinement: the lease is held by the one attempt that holds the     *)
(* claim, and free or launched when none does.                             *)

(* With a holder the lease is its.                                         *)
LEMMA HeldBy ==
    ASSUME ClaimInv, NEW a \in Attempts, Holds(a)
    PROVE  LeaseOf = [state |-> "held", by |-> a]
BY DEF ClaimInv, DispatchClaimExclusive, LeaseOf

(* Without one the lease follows status and windows.                       *)
LEMMA NotHeld ==
    ASSUME Agents, \A a \in Attempts : ~Holds(a)
    PROVE  LeaseOf = [state |-> IF status = "backlog" THEN "free" ELSE "launched"]
BY DEF Agents, SettledTaskHasItsAgent, Settled, LeaseOf

(* The same of the next state.                                             *)
LEMMA HeldByNext ==
    ASSUME ClaimInv', NEW a \in Attempts, Holds(a)'
    PROVE  LeaseOf' = [state |-> "held", by |-> a]
BY DEF ClaimInv, DispatchClaimExclusive, LeaseOf

(* The same of the next state.                                             *)
LEMMA NotHeldNext ==
    ASSUME Agents', \A a \in Attempts : ~Holds(a)'
    PROVE  LeaseOf' = [state |-> IF status' = "backlog" THEN "free" ELSE "launched"]
BY DEF Agents, SettledTaskHasItsAgent, Settled, LeaseOf

(* Every step of the claim is a step of the lease or leaves it alone.      *)
LEMMA StepOfLease ==
    ASSUME AgentInv, AgentInv', [ClaimNext]_vars
    PROVE  [Lease!LeaseNext]_LeaseOf
<1> USE DEF AgentInv, ClaimInv
<1>1. CASE Keeps
  <2>1. CASE \E a \in Attempts : Holds(a)
    BY <1>1, <2>1, HeldBy, HeldByNext DEF Keeps
  <2>2. CASE \A a \in Attempts : ~Holds(a)
    BY <1>1, <2>2, NotHeld, NotHeldNext DEF Keeps
  <2> QED
    BY <2>1, <2>2
<1>2. ASSUME NEW a \in Attempts, Wins(a) PROVE Lease!Acquire(a)
  <2>1. LeaseOf = [state |-> "free"]
    BY <1>2, NotHeld DEF Wins, HeldTaskIsNotBacklog
  <2>2. LeaseOf' = [state |-> "held", by |-> a]
    BY <1>2, HeldByNext DEF Wins
  <2> QED
    BY <2>1, <2>2 DEF Lease!Acquire, Lease!Free, Lease!Held
<1>3. ASSUME NEW a \in Attempts, Leaves(a), Holds(a) PROVE Lease!Return(a) \/ Lease!Launch(a)
  <2>1. LeaseOf = [state |-> "held", by |-> a]
    BY <1>3, HeldBy
  <2>2. \A b \in Attempts : ~Holds(b)'
    BY <1>3 DEF Leaves, DispatchClaimExclusive
  <2>3. LeaseOf' = [state |-> IF status' = "backlog" THEN "free" ELSE "launched"]
    BY <2>2, NotHeldNext
  <2> QED
    BY <2>1, <2>3 DEF Lease!Return, Lease!Launch, Lease!Free, Lease!Held, Lease!Launched
<1>4. ASSUME NEW a \in Attempts, Leaves(a), ~Holds(a) PROVE Keeps
  BY <1>4 DEF Leaves, Keeps
<1> QED
  BY <1>1, <1>2, <1>3, <1>4, StepOfClaim DEF Lease!LeaseNext

(* The claim implements the one-holder lease: whoever wins it either       *)
(* launches the agent or gives it back, and nobody else acquires it before *)
(* or after.                                                               *)
THEOREM ClaimImplementsLease == ASSUME Kept = {FALSE} PROVE ClaimSpec => ImplementsLease
<1>1. Init => Lease!LeaseInit
  BY DEF Init, LeaseOf, Holds, Lease!LeaseInit, Lease!Free
<1>2. AgentInv /\ AgentInv' /\ [ClaimNext]_vars => [Lease!LeaseNext]_LeaseOf
  BY StepOfLease
<1> QED
  BY <1>1, <1>2, AgentInvHolds, PTL DEF ClaimSpec, ImplementsLease, Lease!LeaseSpec
-----------------------------------------------------------------------------
(* Retry-fresh, with every attempt over by its deadline.  It puts a card   *)
(* back in Backlog from the board's snapshot, so it is safe only if what   *)
(* the snapshot can show rules out a holder.  A worktree it shows is still *)
(* the row's, for only the board takes the pointer away, and a row with    *)
(* the pointer has no attempt under way; an unprovisioned running card is  *)
(* never shown with an old stamp.                                          *)

PointersAgree ==
    /\ seen.window => seen.worktree
    /\ seen.worktree => worktree
    /\ window => worktree
WorktreeIsSettled == worktree => Settled /\ status # "backlog"
ClaimsAreRecent ==
    /\ status # "backlog" => recent
    /\ seen.status # "backlog" => seen.recent
RetryInv == ClaimInv /\ PointersAgree /\ WorktreeIsSettled /\ ClaimsAreRecent

(* A Backlog task without a worktree satisfies it.                         *)
LEMMA InitRetryInv == ASSUME Kept = {FALSE} PROVE Init => RetryInv
BY InitClaimInv DEF Init, Snapshot, RetryInv, PointersAgree, WorktreeIsSettled, ClaimsAreRecent

(* Every step of the attempts and of the background keeps it.              *)
LEMMA AttemptRetryInv == RetryInv /\ AttemptNext => RetryInv'
<1> SUFFICES ASSUME RetryInv, AttemptNext PROVE RetryInv'
  OBVIOUS
<1> USE DEF RetryInv, PointersAgree, WorktreeIsSettled, ClaimsAreRecent
<1>0. TypeOK /\ ClaimInv'
  BY NextClaimInv DEF ClaimNext, ClaimInv
<1>1. CASE Refresh
  BY <1>0, <1>1 DEF Refresh, Snapshot, row, resources, attempts, Settled, Holds
<1>2. CASE AgentReports \/ LeftoverCloses
  BY <1>0, <1>2 DEF AgentReports, LeftoverCloses, Close, row, resources, attempts, board, Settled,
     Holds
<1>3. ASSUME NEW a \in Attempts, Begins(a) PROVE RetryInv'
  <2>1. \A b \in Attempts : Holds(b)' <=> Holds(b)
    BY <1>0, <1>3, GotoKeeps DEF Begins, CallDispatch, BoardDispatch, Idle, Holds
  <2> QED
    BY <1>0, <1>3, <2>1 DEF Begins, CallDispatch, BoardDispatch, row, board, Settled
<1>4. ASSUME NEW a \in Attempts, TryClaim(a) PROVE RetryInv'
  <2>1. CASE status = "backlog" /\ status' = "running" /\ recent' = TRUE
    BY <1>0, <1>4, <2>1 DEF TryClaim
  <2>2. CASE EndAttempt(a) /\ UNCHANGED <<status, recent>>
    BY <1>0, <1>4, <2>2, EndLeaves DEF TryClaim, Settled
  <2> QED
    BY <1>4, <2>1, <2>2 DEF TryClaim
<1>5. ASSUME NEW a \in Attempts,
             \/ ClearStructural(a) \/ MeasureReuse(a) \/ AddWorktree(a)
             \/ ProvisionFails(a) \/ LaunchAgent(a) \/ LaunchFails(a)
      PROVE  RetryInv'
  <2>1. Holds(a) /\ UNCHANGED <<row, seen>>
    BY <1>5 DEF ClearStructural, MeasureReuse, AddWorktree, ProvisionFails, LaunchAgent,
       LaunchFails, At, Holds, row, board
  <2> QED
    BY <1>0, <2>1 DEF row, Settled
<1>6. ASSUME NEW a \in Attempts, Ends(a) PROVE RetryInv'
  <2>1. Holds(a) /\ status # "backlog" /\ ~worktree
    BY <1>6 DEF Ends, RecordLaunch, Dispatched, TryReleaseBacklogClaim, At, Holds, Settled,
       ClaimInv, HeldTaskIsNotBacklog
  <2>2. Settled'
    BY <1>0, <1>6, <2>1, EndLeaves DEF Ends, RecordLaunch, Dispatched, TryReleaseBacklogClaim,
       Settled, ClaimInv, DispatchClaimExclusive
  <2>3. CASE RecordLaunch(a)
    BY <1>0, <2>1, <2>2, <2>3 DEF RecordLaunch
  <2>4. CASE Dispatched(a)
    BY <1>0, <2>1, <2>2, <2>4 DEF Dispatched
  <2>5. CASE TryReleaseBacklogClaim(a)
    BY <1>0, <2>1, <2>5 DEF TryReleaseBacklogClaim, TypeOK
  <2> QED
    BY <1>6, <2>3, <2>4, <2>5 DEF Ends
<1> QED
  BY <1>1, <1>2, <1>3, <1>4, <1>5, <1>6 DEF AttemptNext, Background, Provisions

(* Only a settled card is offered to retry-fresh, and the retry keeps the  *)
(* invariant.                                                              *)
LEMMA RetryFreshRetryInv ==
    ASSUME RetryInv, NEW a \in BoardCalls, RetryFresh(a)
    PROVE  RetryInv'
<1> USE DEF RetryInv, PointersAgree, WorktreeIsSettled, ClaimsAreRecent
<1>1. TypeOK /\ a \in Attempts
  BY DEF ClaimInv, Attempts
<1>2. Settled
  BY DEF RetryFresh
<1>3. pc' \in [Attempts -> Phases] /\ \A b \in Attempts : ~Holds(b)'
  <2>1. pc' = [pc EXCEPT ![a] = "claim"]
    BY DEF RetryFresh, Goto
  <2> QED
    BY <1>1, <1>2, <2>1 DEF TypeOK, Phases, Holds, Settled
<1>4. /\ status' = "backlog" /\ worktree' = FALSE /\ window' = FALSE
      /\ seen' = [seen EXCEPT !.status = "backlog", !.worktree = FALSE]
      /\ dispatching' = TRUE /\ cleanup' \in {"none", "remove"} /\ ~seen.window
      /\ UNCHANGED <<recent, resources, reused>>
  BY DEF RetryFresh
<1>5. /\ seen' \in Snapshots /\ seen'.status = "backlog"
      /\ ~seen'.worktree /\ ~seen'.window
  BY <1>1, <1>4 DEF TypeOK, Snapshots, Statuses
<1>6. TypeOK'
  BY <1>1, <1>3, <1>4, <1>5 DEF TypeOK, Statuses, resources
<1> QED
  BY <1>3, <1>4, <1>5, <1>6 DEF ClaimInv, DispatchClaimExclusive, HeldTaskIsNotBacklog

(* The window's end, the crash report and the teardown keep it.            *)
LEMMA TeardownRetryInv ==
    ASSUME RetryInv, WindowDies \/ AgentCrashed \/ RemoveWorktree \/ ClearWorktreePointer
    PROVE  RetryInv'
<1> USE DEF RetryInv, PointersAgree, WorktreeIsSettled, ClaimsAreRecent
<1>1. TypeOK
  BY DEF ClaimInv
<1>2. \A b \in Attempts : Holds(b)' <=> Holds(b)
  BY DEF WindowDies, Close, AgentCrashed, RemoveWorktree, ClearWorktreePointer, attempts, Holds
<1>3. CASE WindowDies
  <2>1. windows' \subseteq Attempts /\ spared' \subseteq windows'
    BY <1>1, <1>3 DEF WindowDies, Close, TypeOK
  <2>2. TypeOK'
    BY <1>1, <1>3, <2>1 DEF WindowDies, Close, row, attempts, board, TypeOK
  <2> QED
    BY <1>2, <1>3, <2>2 DEF WindowDies, Close, row, board, ClaimInv, DispatchClaimExclusive,
       HeldTaskIsNotBacklog, Settled
<1>4. CASE AgentCrashed
  <2>1. worktree /\ Settled /\ status # "backlog" /\ seen.worktree
    BY <1>4 DEF AgentCrashed
  <2>2. seen' \in Snapshots /\ ~seen'.window /\ seen'.worktree /\ seen'.status = seen.status
        /\ seen'.recent = seen.recent
    BY <1>1, <1>4, <2>1 DEF AgentCrashed, TypeOK, Snapshots
  <2>3. TypeOK'
    BY <1>1, <1>4, <2>1, <2>2 DEF AgentCrashed, resources, attempts, TypeOK, Statuses
  <2> QED
    BY <1>2, <1>4, <2>1, <2>2, <2>3 DEF AgentCrashed, ClaimInv, DispatchClaimExclusive,
       HeldTaskIsNotBacklog, Settled
<1>5. CASE RemoveWorktree
  <2>1. TypeOK'
    BY <1>1, <1>5 DEF RemoveWorktree, row, attempts, board, TypeOK
  <2> QED
    BY <1>2, <1>5, <2>1 DEF RemoveWorktree, row, board, ClaimInv, DispatchClaimExclusive,
       HeldTaskIsNotBacklog, Settled
<1>6. CASE ClearWorktreePointer
  <2>1. seen' \in Snapshots /\ ~seen'.window /\ ~seen'.worktree /\ seen'.status = seen.status
        /\ seen'.recent = seen.recent
    BY <1>1, <1>6 DEF ClearWorktreePointer, TypeOK, Snapshots
  <2>2. TypeOK'
    BY <1>1, <1>6, <2>1 DEF ClearWorktreePointer, resources, attempts, TypeOK
  <2> QED
    BY <1>2, <1>6, <2>1, <2>2 DEF ClearWorktreePointer, ClaimInv, DispatchClaimExclusive,
       HeldTaskIsNotBacklog
<1> QED
  BY <1>3, <1>4, <1>5, <1>6

(* A step that changes nothing.                                            *)
LEMMA StutterRetryInv == RetryInv /\ UNCHANGED vars => RetryInv'
BY DEF vars, row, resources, attempts, board, RetryInv, ClaimInv, TypeOK, DispatchClaimExclusive,
   HeldTaskIsNotBacklog, Holds, PointersAgree, WorktreeIsSettled, Settled, ClaimsAreRecent

(* With retry-fresh, its teardown, crashes and any number of attempts at   *)
(* every entry point, as long as each attempt is over by its deadline, no  *)
(* second attempt is under way, nor is the card of a held task offered.    *)
THEOREM RetryKeepsTheClaim == ASSUME Kept = {FALSE} PROVE RetryInTimeSpec => []ClaimIsExclusive
<1>1. Init => RetryInv
  BY InitRetryInv
<1>2. RetryInv /\ [RetryInTimeNext]_vars => RetryInv'
  BY AttemptRetryInv, RetryFreshRetryInv, TeardownRetryInv, StutterRetryInv DEF RetryInTimeNext
<1>3. RetryInv => ClaimIsExclusive
  BY DEF RetryInv, ClaimInv, ClaimIsExclusive
<1> QED
  BY <1>1, <1>2, <1>3, PTL DEF RetryInTimeSpec
=============================================================================
