--------------------------- MODULE BoardSyncProofs ---------------------------
(***************************************************************************)
(* What BoardSync keeps for any number of writes beside the board, of      *)
(* moves by the user and of reads and writes that fail.                    *)
(***************************************************************************)
EXTENDS BoardSync, SequenceTheorems, TLAPS

(* Rows whose sub-status fits their status, and, until a patch has raced   *)
(* (r), the commands and replies that carry no other.                      *)
Fits(row) == ValidFor(row.sub, row.status)
GoodRows(r) == {row \in Rows : r \/ Fits(row)}
Commands(r) ==
    {c \in [do : CommandKinds, row : Rows] :
       /\ c.do = "patch" => c.row.sub \in RunningSubs
       /\ c.do = "persist" => c.row \in GoodRows(r)}
Replies(r) == {p \in [row : Rows, late : BOOLEAN] : p.row \in GoodRows(r)}

(* PairIsValid, strengthened to every row the board holds or is to write,  *)
(* and to the count of replies under way.                                  *)
Flags ==
    /\ checked \in BOOLEAN /\ moved \in BOOLEAN /\ dirty \in BOOLEAN
    /\ notified \in BOOLEAN /\ gone \in BOOLEAN
    /\ unseen \in BOOLEAN /\ overtaken \in BOOLEAN /\ unread \in BOOLEAN /\ unsaved \in BOOLEAN
    /\ raced \in BOOLEAN /\ own \in BOOLEAN
Counted ==
    /\ env \in 0..MaxEnv /\ events \in 0..MaxEvents /\ untold \in Int /\ clock \in 0..1
    /\ reads \in Nat /\ reads + Len(inbox) <= env
Held ==
    /\ store \in GoodRows(raced) /\ board \in GoodRows(raced)
    /\ cmds \in Seq(Commands(raced)) /\ Len(cmds) <= 2
    /\ inbox \in Seq(Replies(raced))
PairInv == Flags /\ Counted /\ Held

-----------------------------------------------------------------------------
(* Rows and sequences.                                                     *)

(* The rows the handlers make from a row.                                  *)
LEMMA RowsMade ==
    ASSUME NEW r \in BOOLEAN, NEW row \in GoodRows(r)
    PROVE  /\ row.status = "running" =>
                /\ \A s \in RunningSubs : [row EXCEPT !.sub = s] \in GoodRows(r)
                /\ \A n \in 0..1 : [row EXCEPT !.stamp = n, !.sub = "active"] \in GoodRows(r)
           /\ [row EXCEPT !.status = "review", !.sub = "none"] \in GoodRows(r)
           /\ \A s \in {"review", "done"} :
                [row EXCEPT !.status = s, !.sub = "none", !.window = FALSE] \in GoodRows(r)
           /\ \A n \in 0..1 :
                [row EXCEPT !.status = "running", !.stamp = n, !.sub = "active"] \in GoodRows(r)
           /\ \A n \in 0..1 : [row EXCEPT !.stamp = n] \in GoodRows(r)
           /\ [row EXCEPT !.window = FALSE,
                          !.sub = IF row.status = "running" THEN "crashed" ELSE @] \in GoodRows(r)
           /\ \A s \in RunningSubs : [row EXCEPT !.sub = s] \in GoodRows(TRUE)
<1>1. row \in Rows /\ (r \/ Fits(row))
  BY DEF GoodRows
<1>2. row.status = "running" => \A s \in RunningSubs : [row EXCEPT !.sub = s] \in GoodRows(r)
  BY <1>1 DEF GoodRows, Rows, Fits, ValidFor, RunningSubs
<1>3. row.status = "running" =>
        \A n \in 0..1 : [row EXCEPT !.stamp = n, !.sub = "active"] \in GoodRows(r)
  BY <1>1 DEF GoodRows, Rows, Fits, ValidFor, RunningSubs
<1>4. [row EXCEPT !.status = "review", !.sub = "none"] \in GoodRows(r)
  BY <1>1 DEF GoodRows, Rows, Fits, ValidFor, RunningSubs
<1>5. \A s \in {"review", "done"} :
        [row EXCEPT !.status = s, !.sub = "none", !.window = FALSE] \in GoodRows(r)
  BY <1>1 DEF GoodRows, Rows, Fits, ValidFor, RunningSubs
<1>9. \A n \in 0..1 :
        [row EXCEPT !.status = "running", !.stamp = n, !.sub = "active"] \in GoodRows(r)
  BY <1>1 DEF GoodRows, Rows, Fits, ValidFor, RunningSubs
<1>6. \A n \in 0..1 : [row EXCEPT !.stamp = n] \in GoodRows(r)
  BY <1>1 DEF GoodRows, Rows, Fits, ValidFor, RunningSubs
<1>7. [row EXCEPT !.window = FALSE,
                  !.sub = IF row.status = "running" THEN "crashed" ELSE @] \in GoodRows(r)
  BY <1>1 DEF GoodRows, Rows, Fits, ValidFor, RunningSubs
<1>8. \A s \in RunningSubs : [row EXCEPT !.sub = s] \in GoodRows(TRUE)
  BY <1>1 DEF GoodRows, Rows, Fits, ValidFor, RunningSubs
<1> QED
  BY <1>2, <1>3, <1>4, <1>5, <1>6, <1>7, <1>8, <1>9, Zenon

(* A patch that races excuses everything: what was good stays good.        *)
LEMMA GoodStaysGood ==
    ASSUME NEW r \in BOOLEAN, NEW s \in BOOLEAN, r => s
    PROVE  /\ GoodRows(r) \subseteq GoodRows(s)
           /\ \A q \in Seq(Commands(r)) : q \in Seq(Commands(s))
           /\ \A q \in Seq(Replies(r)) : q \in Seq(Replies(s))
<1>1. GoodRows(r) \subseteq GoodRows(s)
  BY DEF GoodRows
<1>2. Commands(r) \subseteq Commands(s) /\ Replies(r) \subseteq Replies(s)
  BY <1>1 DEF Commands, Replies
<1> QED
  BY <1>1, <1>2, SeqMonotonic

(* Staleness changes no reply but its mark.                                *)
LEMMA StaleKeeps ==
    ASSUME NEW r, NEW q \in Seq(Replies(r))
    PROVE  /\ Stale(q) \in Seq(Replies(r)) /\ Len(Stale(q)) = Len(q)
           /\ \A i \in 1..Len(q) : Stale(q)[i].late /\ Stale(q)[i].row = q[i].row
<1> DEFINE f(i) == [q[i] EXCEPT !.late = TRUE]
<1>1. Len(q) \in Nat /\ \A i \in 1..Len(q) : q[i] \in Replies(r)
  BY LenProperties, ElementOfSeq
<1>2. \A p \in Replies(r) :
        /\ [p EXCEPT !.late = TRUE] \in Replies(r)
        /\ [p EXCEPT !.late = TRUE].late = TRUE /\ [p EXCEPT !.late = TRUE].row = p.row
  BY DEF Replies
<1>3. \A i \in 1..Len(q) : f(i) \in Replies(r) /\ f(i).late /\ f(i).row = q[i].row
  BY <1>1, <1>2
<1> HIDE DEF f
<1>4. Stale(q) = [i \in 1..Len(q) |-> f(i)]
  BY Zenon DEF Stale, f
<1>5. [i \in 1..Len(q) |-> f(i)] \in [1..Len(q) -> Replies(r)]
  BY <1>3
<1>6. Stale(q) \in Seq(Replies(r))
  BY <1>1, <1>4, <1>5, SeqDef
<1>7. Len(Stale(q)) = Len(q)
  BY <1>1, <1>4, <1>6, LenProperties
<1> QED
  BY <1>3, <1>4, <1>6, <1>7

(* A reply leaves the queue: those read before it become late, those read  *)
(* after it move down by one.                                              *)
Without(q, i) == Stale(SubSeq(q, 1, i - 1)) \o SubSeq(q, i + 1, Len(q))
(* What taking a reply leaves in the queue.                              *)
LEMMA ReplyTaken ==
    ASSUME NEW r, NEW q \in Seq(Replies(r)), NEW i \in 1..Len(q)
    PROVE  /\ Without(q, i) \in Seq(Replies(r)) /\ Len(Without(q, i)) = Len(q) - 1
           /\ \A j \in 1..(i - 1) : Without(q, i)[j].late
           /\ \A j \in i..(Len(q) - 1) : Without(q, i)[j] = q[j + 1]
<1> DEFINE a == SubSeq(q, 1, i - 1)
           b == SubSeq(q, i + 1, Len(q))
<1>1. Len(q) \in Nat /\ i \in Int /\ \A j \in 1..Len(q) : q[j] \in Replies(r)
  BY LenProperties, ElementOfSeq
<1>2. a \in Seq(Replies(r)) /\ Len(a) = i - 1
  <2>1. \A j \in 1..(i - 1) : q[j] \in Replies(r)
    BY <1>1
  <2> QED
    BY <1>1, <2>1, SubSeqProperties
<1>3. b \in Seq(Replies(r)) /\ Len(b) = Len(q) - i /\ \A j \in 1..(Len(q) - i) : b[j] = q[i + j]
  <2>1. \A j \in (i + 1)..Len(q) : q[j] \in Replies(r)
    BY <1>1
  <2>2. /\ b \in Seq(Replies(r))
        /\ Len(b) = IF i + 1 <= Len(q) THEN Len(q) - (i + 1) + 1 ELSE 0
        /\ \A j \in 1..(Len(q) - (i + 1) + 1) : b[j] = q[(i + 1) + j - 1]
    BY <1>1, <2>1, SubSeqProperties
  <2> QED
    BY <1>1, <2>2
<1>4. /\ Stale(a) \in Seq(Replies(r)) /\ Len(Stale(a)) = i - 1
      /\ \A j \in 1..(i - 1) : Stale(a)[j].late
  BY <1>2, StaleKeeps
<1> DEFINE sa == Stale(a)
           w == sa \o b
<1>6. Without(q, i) = w
  BY Zenon DEF Without
<1> HIDE DEF a, b, sa
<1>5. /\ w \in Seq(Replies(r)) /\ Len(w) = Len(sa) + Len(b)
      /\ \A j \in 1..(Len(sa) + Len(b)) : w[j] = IF j <= Len(sa) THEN sa[j] ELSE b[j - Len(sa)]
  BY <1>3, <1>4, ConcatProperties DEF sa
<1>8. Len(sa) = i - 1 /\ \A j \in 1..(i - 1) : sa[j].late
  BY <1>4 DEF sa
<1> HIDE DEF w
<1>7. \A j \in i..(Len(q) - 1) : b[j - (i - 1)] = q[j + 1]
  BY <1>1, <1>3
<1> QED
  <2>1. Len(w) = Len(q) - 1
    BY <1>1, <1>3, <1>5, <1>8
  <2>4. Len(sa) + Len(b) = Len(q) - 1
    BY <1>1, <1>3, <1>8
  <2>2. \A j \in 1..(i - 1) : w[j].late
    <3>1. TAKE j \in 1..(i - 1)
    <3>2. j \in 1..(Len(sa) + Len(b)) /\ j <= Len(sa)
      BY <1>1, <1>8, <2>4
    <3> QED
      BY <1>5, <1>8, <3>2
  <2>3. \A j \in i..(Len(q) - 1) : w[j] = q[j + 1]
    <3>1. TAKE j \in i..(Len(q) - 1)
    <3>2. j \in 1..(Len(sa) + Len(b)) /\ ~(j <= Len(sa)) /\ j - Len(sa) = j - (i - 1)
      BY <1>1, <1>8, <2>4
    <3> QED
      BY <1>5, <1>7, <3>2
  <2> QED
    BY <1>5, <1>6, <2>1, <2>2, <2>3

(* Commands: what is left after one, and short lists of new ones.          *)
LEMMA CommandTaken ==
    ASSUME NEW r, NEW q \in Seq(Commands(r)), Len(q) <= 2, q # << >>
    PROVE  /\ Head(q) \in Commands(r) /\ Tail(q) \in Seq(Commands(r))
           /\ Len(Tail(q)) = Len(q) - 1 /\ Len(q) \in 1..2
           /\ Head(q) = q[1] /\ \A i \in 1..Len(Tail(q)) : Tail(q)[i] = q[i + 1]
<1>1. /\ Head(q) \in Commands(r) /\ Tail(q) \in Seq(Commands(r))
      /\ Len(Tail(q)) = Len(q) - 1 /\ \A i \in 1..Len(Tail(q)) : Tail(q)[i] = q[i + 1]
  BY HeadTailProperties
<1>2. Len(q) \in Nat \ {0}
  BY EmptySeq
<1>3. Head(q) = q[1]
  BY <1>2
<1> QED
  BY <1>1, <1>2, <1>3

(* The lists of no and of one command.                                     *)
LEMMA ShortLists ==
    ASSUME NEW S, NEW x \in S
    PROVE  /\ << >> \in Seq(S) /\ Len(<< >>) = 0
           /\ <<x>> \in Seq(S) /\ Len(<<x>>) = 1 /\ <<x>>[1] = x
OBVIOUS

(* Two lists in a row.                                                     *)
LEMMA Joined ==
    ASSUME NEW S, NEW a \in Seq(S), NEW b \in Seq(S), NEW m \in Nat, NEW n \in Nat,
           Len(a) <= m, Len(b) <= n
    PROVE  a \o b \in Seq(S) /\ Len(a \o b) <= m + n /\ Len(a \o b) = Len(a) + Len(b)
BY ConcatProperties, LenProperties

(* A command made from a good row is a good command.                       *)
LEMMA CommandMade ==
    ASSUME NEW r, NEW row \in GoodRows(r), NEW what \in CommandKinds,
           what = "patch" => row.sub \in RunningSubs
    PROVE  Do(what, row) \in Commands(r) /\ Do(what, row).do = what
BY DEF Do, Commands, GoodRows

-----------------------------------------------------------------------------
(* The pair.  One lemma per kind of step.                                  *)

(* A process beside the board writes a row that fits, unless it raced.     *)
LEMMA WrittenBeside ==
    ASSUME PairInv, NEW row, Write(row), Beside,
           raced' \in BOOLEAN, raced => raced', row \in GoodRows(raced'),
           reads' \in {reads, reads + 1}, moved' \in BOOLEAN, checked' \in BOOLEAN,
           unseen' \in BOOLEAN,
           UNCHANGED <<clock, card, inbox, gone, overtaken, unread, unsaved, own>>
    PROVE  PairInv'
<1> USE BoardAssumption
<1>1. Flags'
  BY DEF PairInv, Flags, card
<1>2. Len(inbox) \in Nat
  BY LenProperties DEF PairInv, Held
<1>3. Counted'
  BY <1>2 DEF PairInv, Counted, Write, Beside, Event
<1>4. Held'
  BY GoodStaysGood DEF PairInv, Held, Flags, card, Write
<1> QED
  BY <1>1, <1>3, <1>4 DEF PairInv

(* The hooks and the MCP server.                                           *)
LEMMA PairBeside ==
    ASSUME PairInv,
           \/ HookPreToolUse \/ HookPrompt \/ HookStop
           \/ McpClose("done") \/ McpClose("review") \/ McpCheckSub \/ McpSetSub
    PROVE  PairInv'
<1>1. /\ store \in GoodRows(raced) /\ raced \in BOOLEAN /\ moved \in BOOLEAN
      /\ checked \in BOOLEAN /\ unseen \in BOOLEAN /\ clock \in 0..1
  BY DEF PairInv, Flags, Counted, Held
<1>2. CASE HookPreToolUse
  <2>1. [store EXCEPT !.stamp = clock, !.sub = "active"] \in GoodRows(raced)
    BY <1>1, <1>2, RowsMade DEF HookPreToolUse
  <2> DEFINE row == [store EXCEPT !.stamp = clock, !.sub = "active"]
  <2>2. HookWrite(row)
    BY <1>2 DEF HookPreToolUse
  <2> HIDE DEF row
  <2> QED
    BY <1>1, <2>1, <2>2, WrittenBeside DEF HookWrite, card, detached, history, row
<1>3. CASE HookStop
  <2> DEFINE row == [store EXCEPT !.status = "review", !.sub = "none"]
  <2>1. row \in GoodRows(raced)
    BY <1>1, RowsMade
  <2>2. HookWrite(row)
    BY <1>3 DEF HookStop
  <2> HIDE DEF row
  <2> QED
    BY <1>1, <2>1, <2>2, WrittenBeside DEF HookWrite, card, detached, history
<1>7. CASE HookPrompt
  <2> DEFINE row == [store EXCEPT !.status = "running", !.stamp = clock, !.sub = "active"]
  <2>1. row \in GoodRows(raced)
    BY <1>1, RowsMade
  <2>2. HookWrite(row)
    BY <1>7 DEF HookPrompt
  <2> HIDE DEF row
  <2> QED
    BY <1>1, <2>1, <2>2, WrittenBeside DEF HookWrite, card, detached, history
<1>4. ASSUME NEW status \in {"review", "done"}, McpClose(status)
      PROVE  PairInv'
  <2> DEFINE row == [store EXCEPT !.status = status, !.sub = "none", !.window = FALSE]
  <2>1. row \in GoodRows(raced)
    BY <1>1, RowsMade
  <2>2. McpWrite(row) /\ UNCHANGED <<checked, raced>>
    BY <1>4 DEF McpClose
  <2> HIDE DEF row
  <2> QED
    BY <1>1, <2>1, <2>2, WrittenBeside DEF McpWrite, card
<1>5. CASE McpSetSub
  <2> DEFINE row == [store EXCEPT !.sub = "needs_input"]
  <2>1. McpWrite(row) /\ checked' = FALSE /\ raced' = (raced \/ store.status # "running")
    BY <1>5 DEF McpSetSub
  <2>2. raced' \in BOOLEAN /\ (raced => raced')
    BY <1>1, <2>1
  <2>3. row \in GoodRows(raced')
    <3>1. "needs_input" \in RunningSubs
      BY DEF RunningSubs
    <3>2. CASE raced'
      BY <1>1, <3>1, <3>2, RowsMade DEF GoodRows
    <3>3. CASE ~raced'
      <4>1. store.status = "running" /\ raced' = raced
        BY <1>1, <2>1, <3>3
      <4> QED
        BY <1>1, <3>1, <4>1, RowsMade
    <3> QED
      BY <3>2, <3>3
  <2> HIDE DEF row
  <2> QED
    BY <1>1, <2>1, <2>2, <2>3, WrittenBeside DEF McpWrite, card
<1>6. CASE McpCheckSub
  <2>1. Flags'
    BY <1>6 DEF McpCheckSub, PairInv, Flags, card, detached, history
  <2>2. Counted' /\ Held'
    BY <1>6 DEF McpCheckSub, PairInv, Counted, Held, card, detached, history, bounds
  <2> QED
    BY <2>1, <2>2 DEF PairInv
<1> QED
  BY <1>2, <1>3, <1>4, <1>5, <1>6, <1>7

(* What runs by itself, and the replies the board takes.                   *)
LEMMA PairDetached ==
    ASSUME PairInv, TimePasses \/ ReadRow \/ ReadRowFails \/ Updated
    PROVE  PairInv'
<1>1. CASE TimePasses
  <2>1. Flags'
    BY <1>1, Zenon DEF TimePasses, PairInv, Flags, card, detached, history
  <2>2. Counted'
    BY <1>1 DEF TimePasses, PairInv, Counted, card, detached, bounds, history
  <2>3. Held'
    BY <1>1 DEF TimePasses, PairInv, Held, card, detached, history
  <2> QED
    BY <2>1, <2>2, <2>3 DEF PairInv
<1>2. CASE ReadRow
  <2> DEFINE reply == [row |-> store, late |-> FALSE]
  <2>1. reply \in Replies(raced)
    BY DEF Replies, PairInv, Held, GoodRows
  <2>2. inbox' = Append(inbox, reply) /\ reads' = reads - 1 /\ reads > 0
    BY <1>2 DEF ReadRow
  <2> HIDE DEF reply
  <2>3. inbox' \in Seq(Replies(raced)) /\ Len(inbox') = Len(inbox) + 1 /\ Len(inbox) \in Nat
    BY <2>1, <2>2, AppendProperties, LenProperties DEF PairInv, Held
  <2>4. Flags'
    BY <1>2 DEF ReadRow, PairInv, Flags, db, card, history
  <2>5. Counted'
    BY <1>2, <2>2, <2>3 DEF ReadRow, PairInv, Counted, db, bounds, history
  <2>6. Held'
    BY <1>2, <2>3 DEF ReadRow, PairInv, Held, db, card, history
  <2> QED
    BY <2>4, <2>5, <2>6 DEF PairInv
<1>4. CASE ReadRowFails
  <2>1. Flags'
    BY <1>4, Zenon DEF ReadRowFails, PairInv, Flags, db, card
  <2>2. Len(inbox) \in Nat
    BY LenProperties DEF PairInv, Held
  <2>3. Counted'
    BY <1>4, <2>2, BoardAssumption DEF ReadRowFails, Event, PairInv, Counted, db
  <2>4. Held'
    BY <1>4 DEF ReadRowFails, PairInv, Held, db, card
  <2> QED
    BY <2>1, <2>3, <2>4 DEF PairInv
<1>3. CASE Updated
  <2>1. PICK i \in 1..Len(inbox) :
          /\ Show(inbox[i].row, IF inbox[i].late THEN 1 ELSE 0)
          /\ overtaken' = (overtaken \/ inbox[i].late)
          /\ inbox' = Stale(SubSeq(inbox, 1, i - 1)) \o SubSeq(inbox, i + 1, Len(inbox))
    BY <1>3, Zenon DEF Updated
  <2>2. UNCHANGED <<store, clock, checked, moved, dirty, cmds, reads, gone, env, events,
                    unseen, unread, raced>>
    BY <1>3 DEF Updated, db, bounds
  <2>3. inbox' = Without(inbox, i)
    BY <2>1, Zenon DEF Without
  <2>4. inbox' \in Seq(Replies(raced)) /\ Len(inbox') = Len(inbox) - 1 /\ Len(inbox) \in Nat
    BY <2>3, ReplyTaken, LenProperties DEF PairInv, Held
  <2>5. inbox[i] \in Replies(raced)
    BY ElementOfSeq DEF PairInv, Held
  <2>6. inbox[i].row \in GoodRows(raced) /\ inbox[i].late \in BOOLEAN
    BY <2>5 DEF Replies
  <2>7. board' = inbox[i].row /\ untold' \in Int
    BY <2>1, <2>6 DEF Show, Notices, PairInv, Counted
  <2>12. own \in BOOLEAN /\ overtaken \in BOOLEAN
    BY DEF PairInv, Flags
  <2>8. notified' \in BOOLEAN /\ overtaken' \in BOOLEAN /\ own' \in BOOLEAN /\ unsaved' \in BOOLEAN
    BY <2>1, <2>6, <2>12, Zenon DEF Show
  <2>9. Flags'
    BY <2>2, <2>8 DEF PairInv, Flags
  <2>10. Counted'
    BY <2>2, <2>4, <2>7 DEF PairInv, Counted
  <2>11. Held'
    BY <2>2, <2>4, <2>6, <2>7 DEF PairInv, Held
  <2> QED
    BY <2>9, <2>10, <2>11 DEF PairInv
<1> QED
  BY <1>1, <1>2, <1>3, <1>4

(* The board changes its card and gives itself commands that fit.          *)
LEMMA CardChanged ==
    ASSUME PairInv, board' \in GoodRows(raced), cmds' \in Seq(Commands(raced)), Len(cmds') <= 2,
           notified' \in BOOLEAN, dirty' \in BOOLEAN, gone' \in BOOLEAN,
           own' \in BOOLEAN, events' \in 0..MaxEvents,
           UNCHANGED <<db, reads, inbox, env, unseen, overtaken, unread, unsaved, raced, untold>>
    PROVE  PairInv'
<1>1. Flags'
  BY DEF PairInv, Flags, db
<1>2. Counted'
  BY DEF PairInv, Counted, db
<1>3. Held'
  BY DEF PairInv, Held, db
<1> QED
  BY <1>1, <1>2, <1>3 DEF PairInv

(* What the classifier gives.                                              *)
LEMMA Classified == \A row : Classify(row) \in RunningSubs
BY DEF Classify, RunningSubs

(* A tick patches the sub-status of a card that runs, and no other.        *)
LEMMA PairTick ==
    ASSUME PairInv, NEW refresh \in BOOLEAN, Tick(refresh)
    PROVE  PairInv'
<1>1. /\ board \in GoodRows(raced) /\ board' = (IF Reclassifies THEN [board EXCEPT !.sub = Classify(board)] ELSE board)
  BY DEF PairInv, Held, Tick
<1>2. board' \in GoodRows(raced) /\ (Reclassifies => board'.sub \in RunningSubs)
  <2>1. CASE Reclassifies
    <3>1. board.status = "running" /\ Classify(board) \in RunningSubs
      BY <2>1, Classified DEF Reclassifies
    <3>2. board' = [board EXCEPT !.sub = Classify(board)]
      BY <1>1, <2>1
    <3>3. [board EXCEPT !.sub = Classify(board)].sub = Classify(board)
      BY <1>1 DEF GoodRows, Rows
    <3>4. raced \in BOOLEAN
      BY DEF PairInv, Flags
    <3> QED
      BY <1>1, <3>1, <3>2, <3>3, <3>4, RowsMade
  <2>2. CASE ~Reclassifies
    BY <1>1, <2>2
  <2> QED
    BY <2>1, <2>2
<1> DEFINE a == IF Reclassifies THEN <<Do("patch", board')>> ELSE << >>
           b == IF refresh THEN <<Do("list", board')>> ELSE << >>
<1>3. a \in Seq(Commands(raced)) /\ Len(a) <= 1
  <2>1. CASE Reclassifies
    <3>1. Do("patch", board') \in Commands(raced)
      BY <1>2, <2>1, CommandMade DEF CommandKinds
    <3> QED
      BY <2>1, <3>1, ShortLists
  <2>2. CASE ~Reclassifies
    BY <2>2
  <2> QED
    BY <2>1, <2>2
<1>4. b \in Seq(Commands(raced)) /\ Len(b) <= 1
  <2>1. Do("list", board') \in Commands(raced)
    BY <1>2, CommandMade DEF CommandKinds
  <2>2. CASE refresh
    BY <2>1, <2>2, ShortLists
  <2>3. CASE ~refresh
    BY <2>3
  <2> QED
    BY <2>2, <2>3
<1>5. cmds' = a \o b
  BY Zenon DEF Tick
<1> HIDE DEF a, b
<1>6. cmds' \in Seq(Commands(raced)) /\ Len(cmds') <= 1 + 1
  BY <1>3, <1>4, <1>5, Joined
<1>7. gone' \in BOOLEAN /\ dirty' \in BOOLEAN
  BY Zenon DEF Tick, WindowCheck, PairInv, Flags
<1>8. /\ notified' \in BOOLEAN /\ own' \in BOOLEAN /\ events' \in 0..MaxEvents
      /\ UNCHANGED <<db, reads, inbox, env, unseen, overtaken, unread, unsaved, raced, untold>>
  BY DEF Tick, PairInv, Flags, Counted, bounds, history
<1> QED
  BY <1>2, <1>6, <1>7, <1>8, CardChanged

(* A window that is gone makes a running card a crashed one.               *)
LEMMA PairWindowGone ==
    ASSUME PairInv, WindowGone
    PROVE  PairInv'
<1>1. board \in GoodRows(raced) /\ raced \in BOOLEAN
  BY DEF PairInv, Held, Flags
<1>2. board' \in GoodRows(raced)
  BY <1>1, RowsMade DEF WindowGone
<1>3. Do("persist", board') \in Commands(raced)
  BY <1>2, CommandMade DEF CommandKinds
<1>4. cmds' \in Seq(Commands(raced)) /\ Len(cmds') = 1
  BY <1>3, ShortLists DEF WindowGone
<1>5. /\ dirty' \in BOOLEAN /\ notified' \in BOOLEAN /\ gone' \in BOOLEAN
      /\ own' \in BOOLEAN /\ events' \in 0..MaxEvents
      /\ UNCHANGED <<db, reads, inbox, env, unseen, overtaken, unread, unsaved, raced, untold>>
  BY DEF WindowGone, PairInv, Flags, Counted, bounds, history
<1> QED
  BY <1>2, <1>4, <1>5, CardChanged

(* A move gives the card its status with a sub-status that fits.           *)
LEMMA PairMove ==
    ASSUME PairInv, NEW status \in {"running", "review", "done"}, NEW forward \in BOOLEAN,
           Move(status, forward)
    PROVE  PairInv'
<1>1. board \in GoodRows(raced) /\ raced \in BOOLEAN /\ clock \in 0..1
  BY DEF PairInv, Held, Flags, Counted
<1>2. board' \in GoodRows(raced)
  <2>1. board' = [board EXCEPT !.status = status, !.sub = DefaultFor(status),
                               !.window = board.window /\ forward,
                               !.stamp = IF status = "running" THEN clock ELSE @]
    BY <1>1 DEF Move, LocalStatus, GoodRows, Rows
  <2>2. board' \in Rows
    BY <1>1, <2>1 DEF GoodRows, Rows, DefaultFor, RunningSubs
  <2>3. Fits(board')
    BY <1>1, <2>1 DEF GoodRows, Rows, DefaultFor, RunningSubs, Fits, ValidFor
  <2> QED
    BY <2>2, <2>3 DEF GoodRows
<1> DEFINE p == <<Do("persist", board')>>
           b == IF status = "running" THEN <<Do("seed", board')>> ELSE << >>
<1>3. Do("persist", board') \in Commands(raced) /\ Do("seed", board') \in Commands(raced)
  BY <1>2, CommandMade DEF CommandKinds
<1>5. p \in Seq(Commands(raced)) /\ Len(p) <= 1
  BY <1>3, ShortLists
<1>6. b \in Seq(Commands(raced)) /\ Len(b) <= 1
  <2>1. CASE status = "running"
    BY <1>3, <2>1, ShortLists
  <2>2. CASE status # "running"
    BY <2>2
  <2> QED
    BY <2>1, <2>2
<1>7. cmds' = p \o b
  BY Zenon DEF Move
<1> HIDE DEF p, b
<1>9. cmds' \in Seq(Commands(raced)) /\ Len(cmds') <= 1 + 1
  BY <1>5, <1>6, <1>7, Joined
<1>10. /\ dirty' \in BOOLEAN /\ notified' \in BOOLEAN /\ gone' \in BOOLEAN
       /\ own' \in BOOLEAN
       /\ UNCHANGED <<db, reads, inbox, env, unseen, overtaken, unread, unsaved, raced, untold>>
  BY DEF Move, PairInv, Flags, detached
<1>11. events' \in 0..MaxEvents
  BY BoardAssumption DEF Move, Event, PairInv, Counted
<1> QED
  BY <1>2, <1>9, <1>10, <1>11, CardChanged

(* The board writes a row that fits, unless its patch raced.               *)
LEMMA WrittenByBoard ==
    ASSUME PairInv, ~Idle, NEW row, BoardWrite(row), dirty' \in BOOLEAN,
           raced' \in BOOLEAN, raced => raced', row \in GoodRows(raced')
    PROVE  PairInv'
<1>1. /\ cmds \in Seq(Commands(raced)) /\ Len(cmds) <= 2 /\ cmds # << >>
      /\ inbox \in Seq(Replies(raced)) /\ raced \in BOOLEAN
  BY DEF PairInv, Held, Flags, Idle
<1>2. cmds' \in Seq(Commands(raced)) /\ Len(cmds') <= 2
  BY <1>1, CommandTaken DEF BoardWrite
<1>3. inbox' \in Seq(Replies(raced)) /\ Len(inbox') = Len(inbox)
  BY <1>1, StaleKeeps DEF BoardWrite
<1>4. Flags'
  BY Zenon DEF BoardWrite, PairInv, Flags
<1>5. Counted'
  BY <1>3 DEF BoardWrite, Write, PairInv, Counted, bounds
<1>6. Held'
  <2>1. store' = row /\ board' = board
    BY DEF BoardWrite, Write
  <2> QED
    BY <1>1, <1>2, <1>3, <2>1, GoodStaysGood DEF PairInv, Held
<1> QED
  BY <1>4, <1>5, <1>6 DEF PairInv

(* A write that fails changes no row.                                      *)
LEMMA PairWriteFails ==
    ASSUME PairInv, ~Idle, NEW credit \in 0..1, WriteFails(credit)
    PROVE  PairInv'
<1>1. cmds \in Seq(Commands(raced)) /\ Len(cmds) <= 2 /\ cmds # << >>
  BY DEF PairInv, Held, Idle
<1>2. cmds' \in Seq(Commands(raced)) /\ Len(cmds') <= 2
  BY <1>1, CommandTaken DEF WriteFails
<1>3. Flags'
  BY DEF WriteFails, PairInv, Flags, db, detached
<1>4. Counted'
  BY BoardAssumption DEF WriteFails, Event, PairInv, Counted, db, detached
<1>5. Held'
  BY <1>2 DEF WriteFails, PairInv, Held, db, detached
<1> QED
  BY <1>3, <1>4, <1>5 DEF PairInv

(* The commands of the board, each a step.                                 *)
LEMMA PairExecute ==
    ASSUME PairInv, Execute
    PROVE  PairInv'
<1>1. ~Idle
  BY DEF Execute, ExecPatch, ExecPersist, ExecSeed, ExecList, ExecMark, Next1
<1>2. /\ cmds \in Seq(Commands(raced)) /\ Len(cmds) <= 2 /\ cmds # << >> /\ raced \in BOOLEAN
      /\ store \in GoodRows(raced) /\ inbox \in Seq(Replies(raced))
  BY <1>1 DEF PairInv, Held, Flags, Idle
<1>3. /\ Head(cmds) \in Commands(raced) /\ Tail(cmds) \in Seq(Commands(raced))
      /\ Len(Tail(cmds)) = Len(cmds) - 1 /\ Len(cmds) \in 1..2
  BY <1>2, CommandTaken
<1> DEFINE now == Head(cmds)
<1>4. now.row \in Rows /\ dirty \in BOOLEAN
  BY <1>3 DEF Commands, PairInv, Flags
<1>10. CASE WriteFails(0) \/ WriteFails(IF now.row.status = "review" THEN 0 ELSE 1)
  <2> HIDE DEF now
  <2>1. (IF now.row.status = "review" THEN 0 ELSE 1) \in 0..1
    OBVIOUS
  <2> QED
    BY <1>1, <1>10, <2>1, PairWriteFails
<1>5. CASE /\ Next1("patch") /\ BoardWrite([store EXCEPT !.sub = now.row.sub]) /\ dirty' = TRUE
           /\ raced' = (raced \/ store.status # "running")
  <2> DEFINE row == [store EXCEPT !.sub = now.row.sub]
  <2>1. /\ BoardWrite(row) /\ raced' = (raced \/ store.status # "running") /\ now.do = "patch"
        /\ dirty' \in BOOLEAN
    BY <1>5 DEF Next1
  <2>2. raced' \in BOOLEAN /\ (raced => raced')
    BY <1>2, <2>1
  <2>3. now.row.sub \in RunningSubs
    BY <1>3, <2>1 DEF Commands
  <2>4. row \in GoodRows(raced')
    <3>1. CASE raced'
      BY <1>2, <2>3, <3>1, RowsMade DEF GoodRows
    <3>2. CASE ~raced'
      <4>1. store.status = "running" /\ raced' = raced
        BY <1>2, <2>1, <3>2
      <4> QED
        BY <1>2, <2>3, <4>1, RowsMade
    <3> QED
      BY <3>1, <3>2
  <2> HIDE DEF row
  <2> QED
    BY <1>1, <2>1, <2>2, <2>4, WrittenByBoard
<1>6. CASE /\ Next1("persist") /\ BoardWrite([now.row EXCEPT !.stamp = store.stamp])
           /\ dirty' = TRUE /\ UNCHANGED raced
  <2> DEFINE row == [now.row EXCEPT !.stamp = store.stamp]
  <2>1. BoardWrite(row) /\ raced' = raced /\ now.do = "persist" /\ dirty' \in BOOLEAN
    BY <1>6 DEF Next1
  <2>2. now.row \in GoodRows(raced) /\ store.stamp \in 0..1
    BY <1>2, <1>3, <2>1 DEF Commands, GoodRows, Rows
  <2>3. row \in GoodRows(raced)
    BY <1>2, <2>2, RowsMade
  <2> HIDE DEF row
  <2> QED
    BY <1>1, <1>2, <2>1, <2>3, WrittenByBoard
<1>7. CASE BoardWrite([store EXCEPT !.stamp = now.row.stamp]) /\ UNCHANGED <<dirty, raced>>
  <2> DEFINE row == [store EXCEPT !.stamp = now.row.stamp]
  <2>1. BoardWrite(row) /\ raced' = raced /\ dirty' \in BOOLEAN
    BY <1>4, <1>7
  <2>2. now.row.stamp \in 0..1
    BY <1>4 DEF Rows
  <2>3. row \in GoodRows(raced)
    BY <1>2, <2>2, RowsMade
  <2> HIDE DEF row
  <2> QED
    BY <1>1, <1>2, <2>1, <2>3, WrittenByBoard
<1>8. CASE ExecMark
  <2>1. cmds' = Tail(cmds) /\ UNCHANGED <<store, clock, checked, board, dirty, notified,
                                          detached, env, history>>
    BY <1>8 DEF ExecMark
  <2>6. moved' \in BOOLEAN
    BY <1>8, Zenon DEF ExecMark
  <2>7. events' \in 0..MaxEvents
    BY <1>8, BoardAssumption DEF ExecMark, Event, PairInv, Counted
  <2>2. moved' \in BOOLEAN /\ events' \in 0..MaxEvents
    BY <2>6, <2>7
  <2>3. Flags'
    BY <2>1, <2>2 DEF PairInv, Flags, detached, history
  <2>4. Counted'
    BY <2>1, <2>2 DEF PairInv, Counted, detached, history
  <2>5. Held'
    BY <1>3, <2>1 DEF PairInv, Held, detached, history
  <2> QED
    BY <2>3, <2>4, <2>5 DEF PairInv
<1>9. CASE ExecList
  <2>1. UNCHANGED <<store, clock, checked, moved, dirty, reads, gone>>
    BY <1>9 DEF ExecList, db
  (* A list that is read or that fails queues the watermark.               *)
  <2>4. ASSUME NEW row \in GoodRows(raced), cmds' = <<Do("mark", row)>> \o Tail(cmds)
        PROVE  cmds' \in Seq(Commands(raced)) /\ Len(cmds') <= 1 + 1
    <3> DEFINE a == <<Do("mark", row)>>
               b == Tail(cmds)
    <3>1. Do("mark", row) \in Commands(raced)
      BY <2>4, CommandMade DEF CommandKinds
    <3>2. a \in Seq(Commands(raced)) /\ Len(a) <= 1
      BY <3>1, ShortLists
    <3>3. b \in Seq(Commands(raced)) /\ Len(b) <= 1 /\ cmds' = a \o b
      BY <1>3, <2>4
    <3> HIDE DEF a, b
    <3> QED
      BY <3>2, <3>3, Joined
  <2>2. CASE ListSkipped
    <3>1. Flags'
      BY <2>1, <2>2 DEF ListSkipped, PairInv, Flags, history
    <3>2. Counted'
      BY <2>1, <2>2 DEF ListSkipped, PairInv, Counted, bounds, history
    <3>3. Held'
      BY <1>3, <2>1, <2>2 DEF ListSkipped, PairInv, Held, history
    <3> QED
      BY <3>1, <3>2, <3>3 DEF PairInv
  <2>3. CASE Listed
    <3>1. board' = store /\ untold' \in Int
      BY <2>3 DEF Listed, Show, Notices, PairInv, Counted
    <3>10. own \in BOOLEAN
      BY DEF PairInv, Flags
    <3>2. notified' \in BOOLEAN /\ own' \in BOOLEAN /\ unsaved' \in BOOLEAN
      BY <2>3, <3>10, Zenon DEF Listed, Show
    <3>3. inbox' \in Seq(Replies(raced)) /\ Len(inbox') = Len(inbox)
      BY <1>2, <2>3, StaleKeeps DEF Listed
    <3>4. cmds' = <<Do("mark", store)>> \o Tail(cmds)
      BY <2>3, <3>1 DEF Listed
    <3>6. cmds' \in Seq(Commands(raced)) /\ Len(cmds') <= 2
      BY <1>2, <2>4, <3>4
    <3>7. Flags'
      BY <2>1, <2>3, <3>2 DEF Listed, PairInv, Flags
    <3>11. env' = env /\ events' \in 0..MaxEvents
      BY <2>3, BoardAssumption DEF Listed, Event, bounds, PairInv, Counted
    <3>8. Counted'
      BY <2>1, <3>1, <3>3, <3>11 DEF PairInv, Counted
    <3>12. raced' = raced
      BY <2>3 DEF Listed
    <3>9. Held'
      BY <1>2, <2>1, <3>1, <3>3, <3>6, <3>12 DEF PairInv, Held
    <3> QED
      BY <3>7, <3>8, <3>9 DEF PairInv
  <2>5. CASE ListFails
    <3>1. board \in GoodRows(raced)
      BY DEF PairInv, Held
    <3>2. cmds' \in Seq(Commands(raced)) /\ Len(cmds') <= 2
      BY <2>4, <2>5, <3>1 DEF ListFails
    <3>3. Flags'
      BY <2>1, <2>5 DEF ListFails, PairInv, Flags
    <3>4. Counted'
      BY <2>1, <2>5, BoardAssumption DEF ListFails, Event, PairInv, Counted
    <3>5. Held'
      BY <2>1, <2>5, <3>2 DEF ListFails, PairInv, Held
    <3> QED
      BY <3>3, <3>4, <3>5 DEF PairInv
  <2> QED
    BY <1>9, <2>2, <2>3, <2>5 DEF ExecList
<1> QED
  BY <1>5, <1>6, <1>7, <1>8, <1>9, <1>10 DEF Execute, ExecPatch, ExecPersist, ExecSeed

(* The invariant holds at the start, is kept by every step and is what     *)
(* PairIsValid needs.                                                      *)
LEMMA PairStarts ==
    ASSUME Init
    PROVE  PairInv
<1> USE BoardAssumption
<1>1. store \in Rows /\ Fits(store) /\ board = store
  BY DEF Init, Rows, RunningSubs, Fits, ValidFor
<1>2. Flags
  BY Zenon DEF Init, Flags
<1>3. Counted
  BY DEF Init, Counted
<1>4. Held
  BY <1>1 DEF Init, Held, GoodRows
<1> QED
  BY <1>2, <1>3, <1>4 DEF PairInv

(* Every step keeps every pair that is stored or under way valid.        *)
LEMMA PairStep ==
    ASSUME PairInv, [Next]_vars
    PROVE  PairInv'
<1>1. CASE UNCHANGED vars
  <2>1. Flags' /\ Counted'
    BY <1>1 DEF vars, db, card, detached, bounds, history, PairInv, Flags, Counted
  <2>2. Held'
    BY <1>1 DEF vars, db, card, detached, bounds, history, PairInv, Held
  <2> QED
    BY <2>1, <2>2 DEF PairInv
<1>2. CASE UserMoves
  BY <1>2, PairMove DEF UserMoves
<1>3. CASE \E refresh \in BOOLEAN : Tick(refresh)
  BY <1>3, PairTick
<1> QED
  BY <1>1, <1>2, <1>3, PairBeside, PairDetached, PairWindowGone, PairExecute DEF Next

(* With it the pair of the row.                                          *)
LEMMA PairEnds ==
    ASSUME PairInv
    PROVE  PairIsValid
<1> USE BoardAssumption
<1>1. store \in Rows /\ board \in Rows /\ (Fits(store) \/ raced)
  BY DEF PairInv, Held, GoodRows
<1>2. Len(cmds) <= 2 /\ \A i \in 1..Len(cmds) : cmds[i] \in [do : CommandKinds, row : Rows]
  BY ElementOfSeq DEF PairInv, Held, Commands
<1>3. \A i \in 1..Len(inbox) : inbox[i] \in [row : Rows, late : BOOLEAN]
  BY ElementOfSeq DEF PairInv, Held, Replies
<1>4. Len(inbox) <= MaxEnv /\ reads \in 0..MaxEnv
  <2>1. Len(inbox) \in Nat
    BY LenProperties DEF PairInv, Held
  <2> QED
    BY <2>1 DEF PairInv, Counted
<1>5. TypeOK
  BY <1>1, <1>2, <1>3, <1>4 DEF TypeOK, PairInv, Flags, Counted
<1> QED
  BY <1>1, <1>5 DEF PairIsValid, Fits

(* Whatever stale card is persisted, by the crash report of a card that    *)
(* has moved or by a move of the user, the row's sub-status fits its       *)
(* status, except after a patch that was checked against a status the row  *)
(* no longer had.                                                          *)
THEOREM PairValid == Spec => []PairIsValid
<1>1. Init => PairInv
  BY PairStarts
<1>2. PairInv /\ [Next]_vars => PairInv'
  BY PairStep
<1>3. PairInv => PairIsValid
  BY PairEnds
<1> QED
  BY <1>1, <1>2, <1>3, PTL DEF Spec

-----------------------------------------------------------------------------
(* The watermark.  A refresh reads it after the list, so the steps between *)
(* the two must leave something under way; and a reply that is not late    *)
(* shows the row, or something newer is still to come.                     *)
AtMark == cmds # << >> /\ Head(cmds).do = "mark"
Covered == board = store \/ Pending \/ Missed
FreshReplies ==
    \A i \in 1..Len(inbox) :
      \/ inbox[i].late \/ inbox[i].row = store \/ unseen \/ unread \/ reads > 0
      \/ \E j \in (i + 1)..Len(inbox) : ~inbox[j].late
OneMark == \A i \in 1..Len(cmds) : cmds[i].do = "mark" => i = 1
Shown == (moved /\ ~AtMark) \/ Covered
SkipInv == FreshReplies /\ OneMark /\ Shown

(* Commands that are no mark, in a list.                                   *)
Unmarked == {c \in [do : CommandKinds, row : Rows] : c.do # "mark"}
(* A queue without a mark command has none at its head.                  *)
LEMMA NoMark ==
    ASSUME cmds' \in Seq(Unmarked)
    PROVE  OneMark' /\ ~AtMark'
<1>1. \A i \in 1..Len(cmds') : cmds'[i] \in Unmarked
  BY ElementOfSeq
<1>2. cmds' # << >> => Head(cmds') \in Unmarked
  BY HeadTailProperties
<1> QED
  BY <1>1, <1>2 DEF OneMark, AtMark, Unmarked

(* What is left after a command holds no mark, and what it announced.      *)
LEMMA LeftOver ==
    ASSUME PairInv, OneMark, ~Idle, cmds' = Tail(cmds)
    PROVE  /\ OneMark' /\ ~AtMark'
           /\ Head(cmds).do \notin {"patch", "persist", "seed"}
                /\ (\E i \in 1..Len(cmds) : cmds[i].do \in {"patch", "persist", "seed"})
              => \E i \in 1..Len(cmds') : cmds'[i].do \in {"patch", "persist", "seed"}
<1>1. cmds \in Seq(Commands(raced)) /\ Len(cmds) <= 2 /\ cmds # << >>
  BY DEF PairInv, Held, Idle
<1>2. /\ cmds' \in Seq(Commands(raced)) /\ Len(cmds') = Len(cmds) - 1 /\ Len(cmds) \in 1..2
      /\ Head(cmds) = cmds[1] /\ \A i \in 1..Len(cmds') : cmds'[i] = cmds[i + 1]
  BY <1>1, CommandTaken
<1>3. \A i \in 1..Len(cmds') : cmds'[i].do # "mark"
  BY <1>2 DEF OneMark
<1>4. cmds' # << >> => Head(cmds') = cmds'[1] /\ 1 \in 1..Len(cmds')
  BY <1>2, EmptySeq
<1>5. OneMark' /\ ~AtMark'
  BY <1>3, <1>4 DEF OneMark, AtMark
<1>6. ASSUME Head(cmds).do \notin {"patch", "persist", "seed"},
             NEW i \in 1..Len(cmds), cmds[i].do \in {"patch", "persist", "seed"}
      PROVE  i - 1 \in 1..Len(cmds') /\ cmds'[i - 1].do \in {"patch", "persist", "seed"}
  <2>1. i # 1
    BY <1>2, <1>6
  <2>2. i - 1 \in 1..Len(cmds') /\ (i - 1) + 1 = i
    BY <1>2, <2>1
  <2> QED
    BY <1>2, <1>6, <2>2
<1> QED
  BY <1>5, <1>6

(* Replies that are all late promise nothing.                              *)
LEMMA AllLate ==
    ASSUME PairInv, inbox' = Stale(inbox)
    PROVE  FreshReplies'
<1>1. Len(inbox') = Len(inbox) /\ \A i \in 1..Len(inbox) : inbox'[i].late
  BY StaleKeeps DEF PairInv, Held
<1> QED
  BY <1>1 DEF FreshReplies

(* A write beside the board is unseen or has a reply under way.            *)
LEMMA SkipBeside ==
    ASSUME PairInv, SkipInv, UNCHANGED <<inbox, cmds>>, reads' \in Nat, unseen' \/ reads' > 0
    PROVE  SkipInv'
BY DEF SkipInv, FreshReplies, OneMark, Shown, Covered, Missed, Pending

(* Steps that touch neither the row, the card nor what is under way.       *)
LEMMA SkipUntouched ==
    ASSUME SkipInv, UNCHANGED <<store, moved, board, cmds, reads, inbox,
                                unseen, overtaken, unread, unsaved>>
    PROVE  SkipInv'
<1>1. FreshReplies' /\ OneMark'
  BY DEF SkipInv, FreshReplies, OneMark
<1>2. Shown'
  BY DEF SkipInv, Shown, Covered, Missed, Pending, AtMark
<1> QED
  BY <1>1, <1>2 DEF SkipInv

(* A read that failed is known to have.                                    *)
LEMMA SkipUnread ==
    ASSUME OneMark', unread' = TRUE
    PROVE  SkipInv'
BY DEF SkipInv, FreshReplies, Shown, Covered, Missed

(* A read brings the row as it is.                                         *)
LEMMA SkipReadRow ==
    ASSUME PairInv, SkipInv, ReadRow
    PROVE  SkipInv'
<1> DEFINE reply == [row |-> store, late |-> FALSE]
<1>1. reply \in Replies(raced) /\ reply.row = store /\ ~reply.late
  BY DEF Replies, PairInv, Held, GoodRows
<1>2. inbox' = Append(inbox, reply)
  BY DEF ReadRow
<1> HIDE DEF reply
<1>3. /\ Len(inbox') = Len(inbox) + 1 /\ Len(inbox) \in Nat
      /\ \A i \in 1..Len(inbox) : inbox'[i] = inbox[i]
      /\ inbox'[Len(inbox) + 1] = reply
  BY <1>1, <1>2, AppendProperties, LenProperties DEF PairInv, Held
<1>4. Len(inbox) + 1 \in 1..Len(inbox') /\ ~inbox'[Len(inbox) + 1].late
  BY <1>1, <1>3
<1>5. Pending'
  BY <1>4 DEF Pending
<1>6. FreshReplies'
  <2>1. SUFFICES ASSUME NEW i \in 1..Len(inbox'), i # Len(inbox) + 1
                 PROVE  \E j \in (i + 1)..Len(inbox') : ~inbox'[j].late
    <3>1. store' = store
      BY DEF ReadRow, db
    <3> QED
      BY <1>1, <1>3, <3>1 DEF FreshReplies
  <2>2. Len(inbox) + 1 \in (i + 1)..Len(inbox')
    BY <1>3, <2>1
  <2> QED
    BY <1>4, <2>2
<1>7. OneMark'
  BY DEF SkipInv, OneMark, ReadRow, card
<1> QED
  BY <1>5, <1>6, <1>7 DEF SkipInv, Shown, Covered

(* A reply that is not late leaves the card right, or with more to come.   *)
LEMMA SkipUpdated ==
    ASSUME PairInv, SkipInv, Updated
    PROVE  SkipInv'
<1>1. PICK i \in 1..Len(inbox) :
        /\ board' = inbox[i].row
        /\ overtaken' = (overtaken \/ inbox[i].late)
        /\ inbox' = Without(inbox, i)
  BY Zenon DEF Updated, Show, Without
<1>2. UNCHANGED <<store, moved, cmds, reads, unseen, unread>>
  BY DEF Updated, db
<1>3. /\ Len(inbox') = Len(inbox) - 1 /\ Len(inbox) \in Nat
      /\ \A j \in 1..(i - 1) : inbox'[j].late
      /\ \A j \in i..(Len(inbox) - 1) : inbox'[j] = inbox[j + 1]
  BY <1>1, ReplyTaken, LenProperties DEF PairInv, Held
<1>4. \A j \in (i + 1)..Len(inbox) : j - 1 \in 1..Len(inbox') /\ inbox'[j - 1] = inbox[j]
  <2>1. TAKE j \in (i + 1)..Len(inbox)
  <2>2. j - 1 \in i..(Len(inbox) - 1) /\ (j - 1) + 1 = j /\ j - 1 \in 1..Len(inbox')
    BY <1>3
  <2> QED
    BY <1>3, <2>2
<1>5. Covered'
  <2>1. CASE inbox[i].late
    BY <1>1, <2>1 DEF Covered, Missed
  <2>2. CASE \E j \in (i + 1)..Len(inbox) : ~inbox[j].late
    BY <1>4, <2>2 DEF Covered, Pending
  <2>3. CASE inbox[i].row = store \/ unseen \/ unread \/ reads > 0
    BY <1>1, <1>2, <2>3 DEF Covered, Missed, Pending
  <2> QED
    BY <2>1, <2>2, <2>3 DEF SkipInv, FreshReplies
<1>6. FreshReplies'
  <2>1. SUFFICES ASSUME NEW k \in 1..Len(inbox'), ~inbox'[k].late
                 PROVE  \/ inbox'[k].row = store \/ unseen \/ unread \/ reads > 0
                        \/ \E j \in (k + 1)..Len(inbox') : ~inbox'[j].late
    BY <1>2 DEF FreshReplies
  <2>2. k \in i..(Len(inbox) - 1) /\ k + 1 \in 1..Len(inbox) /\ inbox'[k] = inbox[k + 1]
    BY <1>3, <2>1
  <2>3. CASE \E j \in ((k + 1) + 1)..Len(inbox) : ~inbox[j].late
    <3>1. PICK j \in ((k + 1) + 1)..Len(inbox) : ~inbox[j].late
      BY <2>3
    <3>2. j \in (i + 1)..Len(inbox) /\ j - 1 \in (k + 1)..Len(inbox')
      BY <1>3, <2>2
    <3> QED
      BY <1>4, <3>1, <3>2
  <2> QED
    BY <2>1, <2>2, <2>3 DEF SkipInv, FreshReplies
<1>7. OneMark'
  BY <1>2 DEF SkipInv, OneMark
<1> QED
  BY <1>5, <1>6, <1>7 DEF SkipInv, Shown

(* What the board does to its own card it has announced, and its new       *)
(* commands are no marks.                                                  *)
LEMMA SkipAnnounced ==
    ASSUME PairInv, SkipInv, cmds' \in Seq(Unmarked),
           \/ board' = board /\ Idle
           \/ \E i \in 1..Len(cmds') : cmds'[i].do \in {"patch", "persist", "seed"},
           UNCHANGED <<store, moved, reads, inbox, unseen, overtaken, unread, unsaved>>
    PROVE  SkipInv'
<1>1. OneMark' /\ ~AtMark'
  BY NoMark
<1>2. FreshReplies'
  BY DEF SkipInv, FreshReplies
<1>3. CASE board' = board /\ Idle
  <2>1. ~\E i \in 1..Len(cmds) : cmds[i].do \in {"patch", "persist", "seed"}
    BY <1>3 DEF Idle
  <2>2. Covered => Covered'
    BY <1>3, <2>1 DEF Covered, Missed, Pending
  <2>3. Shown'
    BY <1>1, <2>2 DEF SkipInv, Shown
  <2> QED
    BY <1>1, <1>2, <2>3 DEF SkipInv
<1>4. CASE \E i \in 1..Len(cmds') : cmds'[i].do \in {"patch", "persist", "seed"}
  <2>1. Shown'
    BY <1>4 DEF Shown, Covered, Pending
  <2> QED
    BY <1>1, <1>2, <2>1 DEF SkipInv
<1> QED
  BY <1>3, <1>4

(* Any command but a mark.                                                 *)
LEMMA UnmarkedMade ==
    ASSUME NEW row \in Rows, NEW what \in CommandKinds \ {"mark"}
    PROVE  Do(what, row) \in Unmarked /\ Do(what, row).do = what
BY DEF Do, Unmarked

(* A tick reclassifies the card and queues its write, and maybe a read.  *)
LEMMA SkipTick ==
    ASSUME PairInv, SkipInv, NEW refresh \in BOOLEAN, Tick(refresh)
    PROVE  SkipInv'
<1>1. PairInv'
  BY PairTick
<1>2. board' \in Rows
  BY <1>1 DEF PairInv, Held, GoodRows
<1> DEFINE p == <<Do("patch", board')>>
           l == <<Do("list", board')>>
           b == IF refresh THEN l ELSE << >>
<1>3. Do("patch", board') \in Unmarked /\ Do("list", board') \in Unmarked /\ Do("patch", board').do = "patch"
  BY <1>2, UnmarkedMade DEF CommandKinds
<1>4. b \in Seq(Unmarked) /\ Len(b) \in Nat
  <2>1. CASE refresh
    BY <1>3, <2>1, ShortLists
  <2>2. CASE ~refresh
    BY <2>2, ShortLists
  <2> QED
    BY <2>1, <2>2
<1>5. Idle /\ UNCHANGED <<store, moved, reads, inbox, unseen, overtaken, unread, unsaved>>
  BY DEF Tick, db, history
<1>6. CASE Reclassifies
  <2>1. cmds' = p \o b
    BY <1>6, Zenon DEF Tick
  <2>2. p \in Seq(Unmarked) /\ Len(p) = 1 /\ p[1].do = "patch"
    BY <1>3, ShortLists
  <2> HIDE DEF p, b
  <2>3. /\ cmds' \in Seq(Unmarked) /\ Len(cmds') = Len(p) + Len(b)
        /\ \A i \in 1..(Len(p) + Len(b)) : cmds'[i] = IF i <= Len(p) THEN p[i] ELSE b[i - Len(p)]
    BY <1>4, <2>1, <2>2, ConcatProperties
  <2>4. 1 \in 1..Len(cmds') /\ cmds'[1].do = "patch"
    BY <1>4, <2>2, <2>3
  <2> QED
    BY <1>5, <2>3, <2>4, SkipAnnounced
<1>7. CASE ~Reclassifies
  <2>1. cmds' = << >> \o b /\ board' = board
    BY <1>7, Zenon DEF Tick
  <2> HIDE DEF b
  <2>2. cmds' \in Seq(Unmarked)
    BY <1>4, <2>1, ConcatEmptySeq
  <2> QED
    BY <1>5, <2>1, <2>2, SkipAnnounced
<1> QED
  BY <1>6, <1>7

(* A lost window changes the card, and persists it.                      *)
LEMMA SkipWindowGone ==
    ASSUME PairInv, SkipInv, WindowGone
    PROVE  SkipInv'
<1>1. board' \in Rows
  BY PairWindowGone DEF PairInv, Held, GoodRows
<1>2. cmds' = <<Do("persist", board')>>
  BY DEF WindowGone
<1>3. Do("persist", board') \in Unmarked /\ Do("persist", board').do = "persist"
  BY <1>1, UnmarkedMade DEF CommandKinds
<1>4. cmds' \in Seq(Unmarked) /\ 1 \in 1..Len(cmds') /\ cmds'[1].do = "persist"
  BY <1>2, <1>3, ShortLists
<1>5. UNCHANGED <<store, moved, reads, inbox, unseen, overtaken, unread, unsaved>>
  BY DEF WindowGone, db, history
<1> QED
  BY <1>4, <1>5, SkipAnnounced

(* A move by the user does the same.                                     *)
LEMMA SkipMove ==
    ASSUME PairInv, SkipInv, NEW status \in {"running", "review", "done"}, NEW forward \in BOOLEAN,
           Move(status, forward)
    PROVE  SkipInv'
<1>1. board' \in Rows
  BY PairMove DEF PairInv, Held, GoodRows
<1> DEFINE p == <<Do("persist", board')>>
           b == IF status = "running" THEN <<Do("seed", board')>> ELSE << >>
<1>2. /\ Do("persist", board') \in Unmarked /\ Do("seed", board') \in Unmarked
      /\ Do("persist", board').do = "persist"
  BY <1>1, UnmarkedMade DEF CommandKinds
<1>4. b \in Seq(Unmarked) /\ Len(b) \in Nat
  <2>1. CASE status = "running"
    BY <1>2, <2>1, ShortLists
  <2>2. CASE status # "running"
    BY <2>2, ShortLists
  <2> QED
    BY <2>1, <2>2
<1>5. p \in Seq(Unmarked) /\ Len(p) = 1 /\ p[1].do = "persist"
  BY <1>2, ShortLists
<1>6. cmds' = p \o b
  BY Zenon DEF Move
<1> HIDE DEF p, b
<1>9. /\ cmds' \in Seq(Unmarked) /\ Len(cmds') = Len(p) + Len(b)
      /\ \A i \in 1..(Len(p) + Len(b)) : cmds'[i] = IF i <= Len(p) THEN p[i] ELSE b[i - Len(p)]
  BY <1>4, <1>5, <1>6, ConcatProperties
<1>10. 1 \in 1..Len(cmds') /\ cmds'[1].do = "persist"
  BY <1>4, <1>5, <1>9
<1>11. UNCHANGED <<store, moved, reads, inbox, unseen, overtaken, unread, unsaved>>
  BY DEF Move, db, detached
<1> QED
  BY <1>9, <1>10, <1>11, SkipAnnounced

(* A write of the board moves the counter, and makes every reply late.     *)
LEMMA SkipBoardWrite ==
    ASSUME PairInv, SkipInv, ~Idle, NEW row, BoardWrite(row)
    PROVE  SkipInv'
<1>1. FreshReplies'
  BY AllLate DEF BoardWrite
<1>2. OneMark' /\ ~AtMark' /\ moved'
  BY LeftOver DEF SkipInv, BoardWrite
<1> QED
  BY <1>1, <1>2 DEF SkipInv, Shown

(* One that fails leaves a card that is known to be unsaved.               *)
LEMMA SkipWriteFails ==
    ASSUME PairInv, SkipInv, ~Idle, NEW credit, WriteFails(credit)
    PROVE  SkipInv'
<1>1. FreshReplies'
  BY DEF SkipInv, FreshReplies, WriteFails, db, detached
<1>2. OneMark'
  BY LeftOver DEF SkipInv, WriteFails
<1>3. Covered'
  BY DEF WriteFails, Covered, Missed
<1> QED
  BY <1>1, <1>2, <1>3 DEF SkipInv, Shown

(* A list, read or not, puts the watermark first.                          *)
LEMMA MarkQueued ==
    ASSUME PairInv, OneMark, ~Idle, NEW row \in GoodRows(raced),
           cmds' = <<Do("mark", row)>> \o Tail(cmds)
    PROVE  OneMark'
<1> DEFINE a == <<Do("mark", row)>>
           b == Tail(cmds)
<1>1. cmds \in Seq(Commands(raced)) /\ Len(cmds) <= 2 /\ cmds # << >>
  BY DEF PairInv, Held, Idle
<1>2. /\ b \in Seq(Commands(raced)) /\ Len(b) = Len(cmds) - 1 /\ Len(cmds) \in 1..2
      /\ \A i \in 1..Len(b) : b[i] = cmds[i + 1]
  BY <1>1, CommandTaken
<1>3. \A i \in 1..Len(b) : b[i].do # "mark"
  BY <1>2 DEF OneMark
<1>4. Do("mark", row) \in Commands(raced)
  BY CommandMade DEF CommandKinds
<1>5. a \in Seq(Commands(raced)) /\ Len(a) = 1
  BY <1>4, ShortLists
<1>6. cmds' = a \o b
  OBVIOUS
<1> HIDE DEF a, b
<1>7. /\ Len(cmds') = Len(a) + Len(b)
      /\ \A i \in 1..(Len(a) + Len(b)) : cmds'[i] = IF i <= Len(a) THEN a[i] ELSE b[i - Len(a)]
  BY <1>2, <1>5, <1>6, ConcatProperties
<1>8. ASSUME NEW i \in 1..Len(cmds'), i # 1
      PROVE  cmds'[i] = b[i - 1] /\ i - 1 \in 1..Len(b)
  <2>1. i \in 1..(Len(a) + Len(b)) /\ ~(i <= Len(a)) /\ i - Len(a) = i - 1
    BY <1>2, <1>5, <1>7, <1>8
  <2> QED
    BY <1>2, <1>5, <1>7, <2>1
<1> QED
  BY <1>3, <1>8 DEF OneMark

(* A command that is dropped, or done without a write.                     *)
LEMMA SkipDropped ==
    ASSUME PairInv, SkipInv, ~Idle, cmds' = Tail(cmds),
           Head(cmds).do \notin {"patch", "persist", "seed"},
           moved' = moved \/ AtMark,
           UNCHANGED <<store, board, reads, inbox, unseen, overtaken, unread, unsaved>>
    PROVE  SkipInv'
<1>1. OneMark' /\ ~AtMark'
  BY LeftOver DEF SkipInv
<1>2. Pending => Pending'
  BY LeftOver DEF SkipInv, Pending
<1>3. Covered => Covered'
  BY <1>2 DEF Covered, Missed
<1>4. FreshReplies'
  BY DEF SkipInv, FreshReplies
<1>5. Shown'
  BY <1>1, <1>3 DEF SkipInv, Shown
<1> QED
  BY <1>1, <1>4, <1>5 DEF SkipInv

(* A command of the queue writes the row, reads it, or starts a read.    *)
LEMMA SkipExecute ==
    ASSUME PairInv, SkipInv, Execute
    PROVE  SkipInv'
<1>1. ~Idle
  BY DEF Execute, ExecPatch, ExecPersist, ExecSeed, ExecList, ExecMark, Next1
<1>2. CASE ExecPatch \/ ExecPersist \/ ExecSeed
  BY <1>1, <1>2, SkipBoardWrite, SkipWriteFails DEF ExecPatch, ExecPersist, ExecSeed
<1>4. CASE ExecMark
  <2>1. Head(cmds).do = "mark" /\ cmds' = Tail(cmds) /\ AtMark
    BY <1>4 DEF ExecMark, Next1, AtMark, Idle
  <2>2. UNCHANGED <<store, board, reads, inbox, unseen, overtaken, unread, unsaved>>
    BY <1>4 DEF ExecMark, detached, history
  <2> QED
    BY <1>1, <2>1, <2>2, SkipDropped
<1>5. CASE ExecList
  <2>1. /\ Head(cmds).do = "list" /\ UNCHANGED <<store, moved, reads>>
        /\ store \in GoodRows(raced) /\ board \in GoodRows(raced)
    BY <1>5 DEF ExecList, Next1, db, PairInv, Held
  <2>2. CASE ListSkipped
    <3>1. /\ cmds' = Tail(cmds)
          /\ UNCHANGED <<store, board, reads, inbox, unseen, overtaken, unread, unsaved>>
      BY <2>1, <2>2 DEF ListSkipped, history
    <3> QED
      BY <1>1, <2>1, <3>1, SkipDropped
  <2>3. CASE Listed
    <3>1. board' = store' /\ Covered'
      BY <2>1, <2>3 DEF Listed, Show, Covered
    <3>2. FreshReplies'
      BY <2>3, AllLate DEF Listed
    <3>4. cmds' = <<Do("mark", store)>> \o Tail(cmds)
      BY <2>1, <2>3, <3>1 DEF Listed
    <3>3. OneMark'
      BY <1>1, <2>1, <3>4, MarkQueued DEF SkipInv
    <3> QED
      BY <3>1, <3>2, <3>3 DEF SkipInv, Shown
  <2>4. CASE ListFails
    <3>1. OneMark' /\ unread' = TRUE
      BY <1>1, <2>1, <2>4, MarkQueued DEF ListFails, SkipInv
    <3> QED
      BY <3>1, SkipUnread
  <2> QED
    BY <1>5, <2>2, <2>3, <2>4 DEF ExecList
<1> QED
  BY <1>2, <1>4, <1>5 DEF Execute

(* Every step keeps a way for the card to show what the process wrote.   *)
LEMMA SkipStep ==
    ASSUME PairInv, SkipInv, [Next]_vars
    PROVE  SkipInv'
<1>1. PairInv'
  BY PairStep
<1>2. CASE HookPreToolUse \/ HookPrompt \/ HookStop
  <2>1. UNCHANGED <<inbox, cmds, reads>> /\ unseen' = TRUE
    BY <1>2 DEF HookPreToolUse, HookPrompt, HookStop, HookWrite, card, detached
  <2> QED
    BY <1>1, <2>1, SkipBeside DEF PairInv, Counted
<1>3. CASE McpClose("done") \/ McpClose("review") \/ McpSetSub
  <2>1. UNCHANGED <<inbox, cmds>> /\ reads' = reads + 1
    BY <1>3 DEF McpClose, McpSetSub, McpWrite, card
  <2>2. reads' \in Nat /\ reads' > 0
    BY <2>1 DEF PairInv, Counted
  <2> QED
    BY <2>1, <2>2, SkipBeside
<1>4. CASE McpCheckSub \/ TimePasses \/ UNCHANGED vars
  BY <1>4, SkipUntouched DEF McpCheckSub, TimePasses, vars, db, card, detached, history
<1>7. CASE ReadRowFails
  <2>1. OneMark' /\ unread' = TRUE
    BY <1>7 DEF ReadRowFails, SkipInv, OneMark, card
  <2> QED
    BY <2>1, SkipUnread
<1>5. CASE UserMoves
  BY <1>5, SkipMove DEF UserMoves
<1>6. CASE \E refresh \in BOOLEAN : Tick(refresh)
  BY <1>6, SkipTick
<1> QED
  BY <1>2, <1>3, <1>4, <1>5, <1>6, <1>7, SkipReadRow, SkipUpdated, SkipWindowGone, SkipExecute DEF Next

(* The watermark never hides a write of this process: while the card       *)
(* differs from the row the next refresh reads, or something is under way  *)
(* that will show it, save a hook's write, a reply that was overtaken, a   *)
(* read that failed and a card whose own write failed.                     *)
THEOREM SkipHides == Spec => []SkipHidesNothing
<1>1. Init => PairInv /\ SkipInv
  <2>1. ASSUME Init PROVE SkipInv
    BY <2>1 DEF Init, SkipInv, FreshReplies, OneMark, Shown, Covered
  <2> QED
    BY <2>1, PairStarts
<1>2. PairInv /\ SkipInv /\ [Next]_vars => (PairInv /\ SkipInv)'
  BY PairStep, SkipStep
<1>3. PairInv /\ SkipInv => SkipHidesNothing
  BY DEF SkipInv, Shown, Covered, SkipHidesNothing
<1> QED
  BY <1>1, <1>2, <1>3, PTL DEF Spec

-----------------------------------------------------------------------------
(* The notices.  Replies may show the entries of the row into Review one   *)
(* by one, each when its turn comes, so the entries still to be told (u)   *)
(* must cover every run of the replies q that are not late, from a card x  *)
(* to the row s: l[i] bounds what the replies up to i can still tell.  A   *)
(* card that the user moved, or whose window went, is ahead of the row     *)
(* until it is persisted: until then the ledger is kept for a card that is *)
(* owed nothing, and a write that fails is credited what its card lacks.   *)

Entry(x, y) == IF y.status = "review" /\ x.status # "review" THEN 1 ELSE 0
Fresh(q) == {i \in 1..Len(q) : ~q[i].late}
Ledger(l, x, u, s, q) ==
    /\ \A i \in Fresh(q) : l[i] >= Entry(x, q[i].row) /\ u >= l[i] + Entry(q[i].row, s)
    /\ \A i, j \in Fresh(q) : i < j => l[j] >= l[i] + Entry(q[i].row, q[j].row)
Told(x, u, s, q) == u >= Entry(x, s) /\ \E l \in [Nat -> Int] : Ledger(l, x, u, s, q)
Reviewed == [status |-> "review"]
Persisting == \E i \in 1..Len(cmds) : cmds[i].do = "persist"
(* The commands of a tick, and those of a change made to the card.         *)
TickCommands == [do : {"patch", "list", "mark"}, row : Rows]
CardCommands(status) == {c \in [do : {"persist", "seed"}, row : Rows] : c.row.status = status}
OneCause == cmds \in Seq(TickCommands) \/ cmds \in Seq(CardCommands(board.status))
NoticeInv ==
    /\ OneCause /\ Told(Reviewed, untold, store, inbox)
    /\ Persisting \/ Told(board, untold, store, inbox)

(* Entries add up along a chain of rows.                                   *)
LEMMA Entries ==
    /\ \A x, y : Entry(x, y) \in 0..1 /\ Entry(x, x) = 0
    /\ \A x, y, z : Entry(x, z) <= Entry(x, y) + Entry(y, z)
    /\ \A x, y, z : Entry(x, y) = 1 => Entry(y, z) = 0
    /\ \A x, y, z : x.status = y.status => Entry(x, z) = Entry(y, z) /\ Entry(z, x) = Entry(z, y)
BY DEF Entry

(* What the board tells of a row it takes is at most one entry.            *)
LEMMA Tells ==
    ASSUME NEW row
    PROVE  Notices(row) \in 0..1 /\ Notices(row) <= Entry(board, row)
BY DEF Notices, Enters, Entry

(* A queue of a tick has no card to persist, and a list is of a tick.      *)
LEMMA TickPersistsNothing ==
    /\ cmds \in Seq(TickCommands) => ~Persisting
    /\ cmds' \in Seq(TickCommands) => ~Persisting'
<1>1. \A q \in Seq(TickCommands) : \A i \in 1..Len(q) : q[i].do # "persist"
  <2> SUFFICES ASSUME NEW q \in Seq(TickCommands), NEW i \in 1..Len(q) PROVE q[i].do # "persist"
    OBVIOUS
  <2>1. q[i] \in TickCommands
    BY ElementOfSeq
  <2> QED
    BY <2>1 DEF TickCommands
<1> QED
  BY <1>1 DEF Persisting

(* What is left of the queue has the same cause, and persists what was     *)
(* still to persist.                                                       *)
LEMMA NoticeTail ==
    ASSUME OneCause, ~Idle, cmds' = Tail(cmds), board'.status = board.status
    PROVE  /\ OneCause'
           /\ Persisting /\ Head(cmds).do # "persist" => Persisting'
           /\ Head(cmds).do = "persist" => Head(cmds).row.status = board.status
           /\ Head(cmds).do \in {"patch", "list", "mark"} => cmds \in Seq(TickCommands)
<1> DEFINE S == IF cmds \in Seq(TickCommands) THEN TickCommands ELSE CardCommands(board.status)
<1>1. cmds \in Seq(S) /\ cmds # << >>
  BY DEF OneCause, Idle
<1> HIDE DEF S
<1>2. /\ Head(cmds) \in S /\ Tail(cmds) \in Seq(S) /\ Len(Tail(cmds)) = Len(cmds) - 1
      /\ \A i \in 1..Len(Tail(cmds)) : Tail(cmds)[i] = cmds[i + 1]
  BY <1>1, HeadTailProperties
<1>3. Len(cmds) \in Nat \ {0} /\ Head(cmds) = cmds[1]
  BY <1>1, EmptySeq, LenProperties
<1>4. OneCause'
  BY <1>2 DEF S, OneCause
<1>5. ASSUME NEW i \in 1..Len(cmds), cmds[i].do = "persist", Head(cmds).do # "persist"
      PROVE  Persisting'
  <2>1. i # 1
    BY <1>3, <1>5
  <2>2. i - 1 \in 1..Len(Tail(cmds)) /\ (i - 1) + 1 = i
    BY <1>2, <1>3, <2>1
  <2>3. Tail(cmds)[i - 1] = cmds[i]
    BY <1>2, <2>2
  <2> QED
    BY <1>5, <2>2, <2>3 DEF Persisting
<1>6. Head(cmds).do = "persist" => Head(cmds).row.status = board.status
  BY <1>2 DEF S, TickCommands, CardCommands
<1>7. Head(cmds).do \in {"patch", "list", "mark"} => cmds \in Seq(TickCommands)
  BY <1>1, <1>2 DEF S, CardCommands
<1> QED
  BY <1>4, <1>5, <1>6, <1>7 DEF Persisting

(* A ledger of the same statuses.                                          *)
LEMMA ToldSame ==
    ASSUME NEW x, NEW y, NEW u, NEW s, NEW t, NEW q, Told(x, u, s, q),
           y.status = x.status, t.status = s.status
    PROVE  Told(y, u, t, q)
<1>1. PICK l \in [Nat -> Int] : Ledger(l, x, u, s, q)
  BY DEF Told
<1>2. \A z : Entry(y, z) = Entry(x, z) /\ Entry(z, t) = Entry(z, s)
  BY Entries
<1>3. Entry(y, t) = Entry(x, s)
  BY <1>2
<1>4. Ledger(l, y, u, t, q)
  BY <1>1, <1>2 DEF Ledger
<1> QED
  BY <1>1, <1>3, <1>4 DEF Told

(* A card in Review is owed no more than any other.                        *)
LEMMA ToldWeaker ==
    ASSUME NEW x, NEW u \in Int, NEW s, NEW q, Told(x, u, s, q)
    PROVE  Told(Reviewed, u, s, q) /\ u >= 0
<1>1. PICK l \in [Nat -> Int] : Ledger(l, x, u, s, q)
  BY DEF Told
<1>2. \A z : Entry(Reviewed, z) = 0 /\ Entry(x, z) \in 0..1
  BY DEF Entry, Reviewed
<1>3. u >= 0 /\ u >= Entry(Reviewed, s)
  BY <1>2 DEF Told
<1>4. \A i \in Fresh(q) : l[i] >= Entry(Reviewed, q[i].row)
  <2> SUFFICES ASSUME NEW i \in Fresh(q) PROVE l[i] >= 0
    BY <1>2
  <2>1. i \in Nat /\ l[i] >= Entry(x, q[i].row)
    BY <1>1 DEF Ledger, Fresh
  <2>2. l[i] \in Int /\ Entry(x, q[i].row) \in 0..1
    BY <1>1, <1>2, <2>1
  <2> QED
    BY <2>1, <2>2
<1>5. Ledger(l, Reviewed, u, s, q)
  BY <1>1, <1>4 DEF Ledger
<1> QED
  BY <1>1, <1>3, <1>5 DEF Told

(* One notice more covers whatever a card lacks.                           *)
LEMMA ToldAgain ==
    ASSUME NEW x, NEW u \in Int, NEW s, NEW q, Told(Reviewed, u, s, q)
    PROVE  Told(x, u + 1, s, q)
<1>1. PICK l \in [Nat -> Int] : Ledger(l, Reviewed, u, s, q)
  BY DEF Told
<1>2. \A y, z : Entry(y, z) \in 0..1
  BY Entries
<1>3. u + 1 >= Entry(x, s)
  <2>1. u >= Entry(Reviewed, s) /\ Entry(Reviewed, s) \in 0..1 /\ Entry(x, s) \in 0..1
    BY <1>2 DEF Told
  <2> QED
    BY <2>1
<1>4. PICK k \in [Nat -> Int] : \A i \in Nat : k[i] = l[i] + 1
  <2> DEFINE f == [i \in Nat |-> l[i] + 1]
  <2>1. f \in [Nat -> Int]
    OBVIOUS
  <2> QED
    BY <2>1
<1>5. \A i \in Fresh(q) : i \in Nat /\ l[i] \in Int /\ k[i] = l[i] + 1
  BY <1>1, <1>4 DEF Fresh
<1>6. ASSUME NEW i \in Fresh(q)
      PROVE  k[i] >= Entry(x, q[i].row) /\ u + 1 >= k[i] + Entry(q[i].row, s)
  <2>1. /\ l[i] >= Entry(Reviewed, q[i].row) /\ u >= l[i] + Entry(q[i].row, s)
        /\ Entry(Reviewed, q[i].row) \in 0..1 /\ Entry(x, q[i].row) \in 0..1
        /\ Entry(q[i].row, s) \in 0..1
    BY <1>1, <1>2 DEF Ledger
  <2> QED
    BY <1>5, <2>1
<1>7. ASSUME NEW i \in Fresh(q), NEW j \in Fresh(q), i < j
      PROVE  k[j] >= k[i] + Entry(q[i].row, q[j].row)
  <2>1. l[j] >= l[i] + Entry(q[i].row, q[j].row) /\ Entry(q[i].row, q[j].row) \in 0..1
    BY <1>1, <1>2, <1>7 DEF Ledger
  <2> QED
    BY <1>5, <2>1
<1>8. Ledger(k, x, u + 1, s, q)
  BY <1>6, <1>7 DEF Ledger
<1> QED
  BY <1>3, <1>4, <1>8 DEF Told

(* With every reply late, the ledger is empty.                             *)
LEMMA ToldLate ==
    ASSUME NEW r, NEW q \in Seq(Replies(r)), NEW x, NEW u, NEW s, u >= Entry(x, s)
    PROVE  Told(x, u, s, Stale(q))
<1>1. Len(Stale(q)) = Len(q) /\ \A i \in 1..Len(q) : Stale(q)[i].late
  BY StaleKeeps
<1>2. [i \in Nat |-> 0] \in [Nat -> Int]
  OBVIOUS
<1>3. Fresh(Stale(q)) = {}
  BY <1>1 DEF Fresh
<1>4. Ledger([i \in Nat |-> 0], x, u, s, Stale(q))
  BY <1>3 DEF Ledger
<1> QED
  BY <1>2, <1>4 DEF Told

(* The row is written: what enters Review is added to what is untold.      *)
LEMMA ToldBeside ==
    ASSUME NEW x, NEW u \in Int, NEW s, NEW q, NEW t, Told(x, u, s, q)
    PROVE  Told(x, u + Entry(s, t), t, q)
<1>1. PICK l \in [Nat -> Int] : Ledger(l, x, u, s, q)
  BY DEF Told
<1> DEFINE v == u + Entry(s, t)
<1>5. Entry(s, t) \in 0..1 /\ v = u + Entry(s, t)
  BY Entries
<1> HIDE DEF v
<1>2. v >= Entry(x, t)
  <2>1. /\ Entry(x, t) <= Entry(x, s) + Entry(s, t)
        /\ Entry(x, t) \in 0..1 /\ Entry(x, s) \in 0..1
    BY Entries
  <2>2. u >= Entry(x, s)
    BY DEF Told
  <2> QED
    BY <1>5, <2>1, <2>2
<1>3. ASSUME NEW i \in Fresh(q)
      PROVE  l[i] >= Entry(x, q[i].row) /\ v >= l[i] + Entry(q[i].row, t)
  <2> DEFINE m == q[i].row
  <2>1. l[i] >= Entry(x, m) /\ u >= l[i] + Entry(m, s) /\ l[i] \in Int
    BY <1>1, <1>3 DEF Ledger, Fresh
  <2>2. /\ Entry(m, t) <= Entry(m, s) + Entry(s, t)
        /\ Entry(m, t) \in 0..1 /\ Entry(m, s) \in 0..1
    BY Entries
  <2> HIDE DEF m
  <2>3. v >= l[i] + Entry(m, t)
    BY <1>5, <2>1, <2>2
  <2> QED
    BY <2>1, <2>3 DEF m
<1>4. Ledger(l, x, v, t, q)
  BY <1>1, <1>3 DEF Ledger
<1> QED
  BY <1>1, <1>2, <1>4, <1>5 DEF Told

(* A reply that is read has all that is untold before it.                  *)
LEMMA ToldRead ==
    ASSUME NEW r, NEW q \in Seq(Replies(r)), NEW reply \in Replies(r),
           NEW x, NEW u \in Int, Told(x, u, reply.row, q)
    PROVE  Told(x, u, reply.row, Append(q, reply))
<1> DEFINE n == Len(q)
           w == Append(q, reply)
           s == reply.row
<1>1. /\ Len(w) = n + 1 /\ n \in Nat /\ \A i \in 1..n : w[i] = q[i]
      /\ w[n + 1].row = s
  BY AppendProperties, LenProperties
<1>2. PICK l \in [Nat -> Int] : Ledger(l, x, u, s, q)
  BY DEF Told
<1>3. u >= Entry(x, s) /\ Entry(s, s) = 0 /\ \A z : Entry(x, z) \in 0..1
  BY Entries DEF Told
<1> HIDE DEF s, w
<1>4. /\ Fresh(w) \subseteq Fresh(q) \cup {n + 1} /\ Fresh(q) \subseteq 1..n
      /\ Fresh(w) \subseteq 1..(n + 1)
  <2>1. Fresh(q) \subseteq 1..n
    BY DEF Fresh
  <2>2. ASSUME NEW i \in Fresh(w), i # n + 1 PROVE i \in Fresh(q)
    <3>1. i \in 1..(n + 1) /\ ~w[i].late
      BY <1>1 DEF Fresh
    <3>2. i \in 1..n
      BY <1>1, <2>2, <3>1
    <3> QED
      BY <1>1, <3>1, <3>2 DEF Fresh
  <2>3. Fresh(w) \subseteq 1..(n + 1)
    BY <1>1 DEF Fresh
  <2> QED
    BY <2>1, <2>2, <2>3
<1> HIDE DEF n
<1>5. PICK k \in [Nat -> Int] : k[n + 1] = u /\ \A i \in 1..n : k[i] = l[i] /\ l[i] \in Int
  <2>1. n + 1 \in Nat /\ \A i \in 1..n : i \in Nat /\ i # n + 1
    BY <1>1
  <2> DEFINE k == [l EXCEPT ![n + 1] = u]
  <2>2. k \in [Nat -> Int]
    BY <2>1
  <2>3. k[n + 1] = u /\ \A i \in 1..n : k[i] = l[i] /\ l[i] \in Int
    BY <2>1
  <2> QED
    BY <2>2, <2>3
<1>6. ASSUME NEW i \in Fresh(w)
      PROVE  k[i] >= Entry(x, w[i].row) /\ u >= k[i] + Entry(w[i].row, s)
  <2>1. CASE i = n + 1
    BY <1>1, <1>3, <1>5, <2>1
  <2>2. CASE i \in Fresh(q)
    BY <1>1, <1>2, <1>4, <1>5, <2>2 DEF Ledger
  <2> QED
    BY <1>4, <2>1, <2>2
<1>7. ASSUME NEW i \in Fresh(w), NEW j \in Fresh(w), i < j
      PROVE  k[j] >= k[i] + Entry(w[i].row, w[j].row)
  <2>1. i \in Fresh(q)
    <3>1. j \in 1..(n + 1)
      BY <1>4
    <3>2. i # n + 1
      BY <1>1, <1>7, <3>1
    <3> QED
      BY <1>4, <3>2
  <2>2. CASE j = n + 1
    BY <1>1, <1>2, <1>4, <1>5, <2>1, <2>2 DEF Ledger
  <2>3. CASE j \in Fresh(q)
    BY <1>1, <1>2, <1>4, <1>5, <1>7, <2>1, <2>3 DEF Ledger
  <2> QED
    BY <1>4, <2>2, <2>3
<1>8. Ledger(k, x, u, s, w)
  BY <1>6, <1>7 DEF Ledger
<1> QED
  BY <1>3, <1>5, <1>8 DEF Told, s, w

(* A reply taken tells at most what the card lacks of it, and a late one   *)
(* is owed nothing: what it tells twice is credited.                       *)
LEMMA ToldTaken ==
    ASSUME NEW g, NEW q \in Seq(Replies(g)), NEW i \in 1..Len(q),
           NEW b, NEW owed \in Int, NEW s, Told(b, owed, s, q),
           NEW notices \in 0..1, notices <= Entry(b, q[i].row)
    PROVE  Told(q[i].row, owed + (IF q[i].late THEN 1 ELSE 0) - notices, s, Without(q, i))
<1> DEFINE n == Len(q)
           r == q[i].row
           credit == IF q[i].late THEN 1 ELSE 0
           w == Without(q, i)
           after == owed + credit - notices
<1>4. /\ Len(w) = n - 1 /\ n \in Nat /\ i \in Int /\ i \in 1..n
      /\ \A j \in 1..(i - 1) : w[j].late
      /\ \A j \in i..(n - 1) : w[j] = q[j + 1]
  <2>1. n \in Nat /\ i \in 1..n
    BY LenProperties
  <2>2. /\ Len(w) = n - 1
        /\ \A j \in 1..(i - 1) : w[j].late
        /\ \A j \in i..(n - 1) : w[j] = q[j + 1]
    BY Zenon, ReplyTaken
  <2>3. i \in Int
    BY <2>1
  <2> HIDE DEF w, n
  <2> QED
    BY <2>1, <2>2, <2>3
<1> HIDE DEF w
<1>7. PICK l \in [Nat -> Int] : Ledger(l, b, owed, s, q)
  BY DEF Told
<1>8. \A j \in Fresh(w) : j + 1 \in Fresh(q) /\ j \in i..(n - 1) /\ w[j] = q[j + 1] /\ j \in Nat
  <2> SUFFICES ASSUME NEW j \in Fresh(w)
               PROVE  j + 1 \in Fresh(q) /\ j \in i..(n - 1) /\ w[j] = q[j + 1] /\ j \in Nat
    OBVIOUS
  <2>1. j \in 1..(n - 1) /\ ~w[j].late
    BY <1>4 DEF Fresh
  <2>2. j \in i..(n - 1)
    BY <1>4, <2>1
  <2>3. w[j] = q[j + 1] /\ j + 1 \in 1..n /\ j \in Nat
    BY <1>4, <2>2
  <2> QED
    BY <2>1, <2>2, <2>3 DEF Fresh
<1>9. Entry(b, r) \in 0..1 /\ credit \in 0..1 /\ Entry(r, s) \in 0..1
  BY Entries
<1>10. after >= owed + credit - Entry(b, r)
  BY <1>9 DEF after
<1>3. after \in Int
  BY <1>9 DEF after
<1> HIDE DEF after
(* What the reply leaves: of the row, and of every later reply.            *)
<1>11. after >= Entry(r, s)
  <2>1. CASE q[i].late
    <3>1. owed >= Entry(b, s) /\ Entry(b, s) \in 0..1 /\ credit = 1
      BY <2>1, Entries DEF Told
    <3>2. Entry(b, r) = 1 => Entry(r, s) = 0
      BY Entries
    <3> QED
      BY <1>3, <1>9, <1>10, <3>1, <3>2
  <2>2. CASE ~q[i].late
    <3>1. i \in Fresh(q) /\ i \in Nat /\ l[i] \in Int
      BY <1>4, <1>7, <2>2 DEF Fresh
    <3>2. l[i] >= Entry(b, r) /\ owed >= l[i] + Entry(r, s)
      BY <1>7, <3>1 DEF Ledger
    <3> QED
      BY <1>3, <1>9, <1>10, <3>1, <3>2
  <2> QED
    BY <2>1, <2>2
<1>12. ASSUME NEW j \in Fresh(w)
       PROVE  l[j + 1] + credit - Entry(b, r) >= Entry(r, w[j].row)
  <2> DEFINE m == q[j + 1].row
  <2>1. j + 1 \in Fresh(q) /\ l[j + 1] \in Int /\ w[j].row = m
    BY <1>7, <1>8
  <2>2. Entry(r, m) \in 0..1 /\ Entry(b, m) \in 0..1 /\ l[j + 1] >= Entry(b, m)
    BY <1>7, <2>1, Entries DEF Ledger
  <2>3. CASE q[i].late
    <3>1. credit = 1 /\ (Entry(b, r) = 1 => Entry(r, m) = 0)
      BY <2>3, Entries
    <3> QED
      BY <1>9, <2>1, <2>2, <3>1
  <2>4. CASE ~q[i].late
    <3>1. i \in Fresh(q) /\ i \in Nat /\ l[i] \in Int /\ i < j + 1 /\ credit = 0
      BY <1>4, <1>7, <1>8, <2>4 DEF Fresh
    <3>2. l[i] >= Entry(b, r) /\ l[j + 1] >= l[i] + Entry(r, m)
      BY <1>7, <2>1, <3>1 DEF Ledger
    <3> QED
      BY <1>9, <2>1, <2>2, <3>1, <3>2
  <2> QED
    BY <2>3, <2>4
<1> HIDE DEF r, credit
<1>13. PICK k \in [Nat -> Int] : \A j \in Nat : k[j] = l[j + 1] + credit - Entry(b, r)
  <2> DEFINE f == [j \in Nat |-> l[j + 1] + credit - Entry(b, r)]
  <2>1. f \in [Nat -> Int]
    BY <1>9
  <2> QED
    BY <2>1
<1>14. Ledger(k, r, after, s, w)
  <2>1. ASSUME NEW j \in Fresh(w)
        PROVE  k[j] >= Entry(r, w[j].row) /\ after >= k[j] + Entry(w[j].row, s)
    <3>1. j \in Nat /\ k[j] = l[j + 1] + credit - Entry(b, r)
      BY <1>8, <1>13
    <3>2. j + 1 \in Fresh(q) /\ w[j] = q[j + 1] /\ l[j + 1] \in Int
      BY <1>7, <1>8, <3>1
    <3>3. owed >= l[j + 1] + Entry(w[j].row, s) /\ Entry(w[j].row, s) \in 0..1
      BY <1>7, <3>2, Entries DEF Ledger
    <3>4. k[j] >= Entry(r, w[j].row)
      BY <1>12, <3>1
    <3> DEFINE u == l[j + 1]
               e == Entry(b, r)
               x == Entry(w[j].row, s)
    <3>9. 0..1 \subseteq Int
      OBVIOUS
    <3>5. u \in Int /\ e \in Int /\ x \in Int /\ credit \in Int
      BY Zenon, <1>9, <3>2, <3>3, <3>9
    <3>6. owed >= u + x
      BY <3>3
    <3>7. k[j] = u + credit - e /\ after >= owed + credit - e
      BY <1>10, <3>1
    <3> HIDE DEF u, e, x
    <3>8. after >= k[j] + x
      BY <1>3, <1>10, <3>5, <3>6, <3>7
    <3> QED
      BY <3>4, <3>8 DEF x
  <2>2. ASSUME NEW j \in Fresh(w), NEW h \in Fresh(w), j < h
        PROVE  k[h] >= k[j] + Entry(w[j].row, w[h].row)
    <3>1. /\ k[j] = l[j + 1] + credit - Entry(b, r) /\ k[h] = l[h + 1] + credit - Entry(b, r)
          /\ j + 1 \in Fresh(q) /\ h + 1 \in Fresh(q) /\ j \in Nat /\ h \in Nat
          /\ w[j] = q[j + 1] /\ w[h] = q[h + 1]
      BY <1>8, <1>13
    <3>2. j + 1 < h + 1 /\ l[j + 1] \in Int /\ l[h + 1] \in Int
      BY <1>7, <2>2, <3>1
    <3>3. l[h + 1] >= l[j + 1] + Entry(w[j].row, w[h].row)
      BY <1>7, <3>1, <3>2 DEF Ledger
    <3>4. Entry(w[j].row, w[h].row) \in 0..1
      BY Entries
    <3> DEFINE u == l[j + 1]
               v == l[h + 1]
               e == Entry(b, r)
               x == Entry(w[j].row, w[h].row)
    <3>9. 0..1 \subseteq Int
      OBVIOUS
    <3>5. u \in Int /\ v \in Int /\ e \in Int /\ x \in Int /\ credit \in Int
      BY Zenon, <1>9, <3>2, <3>4, <3>9
    <3>6. v >= u + x
      BY <3>3
    <3>7. k[j] = u + credit - e /\ k[h] = v + credit - e
      BY <3>1
    <3> HIDE DEF u, v, e, x
    <3>8. k[h] >= k[j] + x
      BY <3>5, <3>6, <3>7
    <3> QED
      BY <3>8 DEF x
  <2> QED
    BY <2>1, <2>2 DEF Ledger
<1> QED
  BY <1>11, <1>13, <1>14 DEF Told, r, credit, w, after

-----------------------------------------------------------------------------
(* The steps.                                                              *)

(* A process beside the board writes the row.                              *)
LEMMA NoticeBeside ==
    ASSUME PairInv, NoticeInv, NEW row, Write(row), UNCHANGED <<board, cmds, inbox>>
    PROVE  NoticeInv'
<1>1. store' = row /\ untold' = untold + Entry(store, row) /\ untold \in Int
  BY DEF Write, Entry, PairInv, Counted
<1>2. OneCause' /\ (Persisting' <=> Persisting)
  BY DEF NoticeInv, OneCause, Persisting
<1>3. \A x : Told(x, untold, store, inbox) => Told(x, untold', store', inbox')
  BY <1>1, ToldBeside
<1> QED
  BY <1>2, <1>3 DEF NoticeInv

(* Steps that change neither status, nor what is untold or under way.      *)
LEMMA NoticeKept ==
    ASSUME NoticeInv, OneCause', UNCHANGED <<untold, inbox>>, Persisting => Persisting',
           store'.status = store.status, board'.status = board.status
    PROVE  NoticeInv'
<1>1. Told(Reviewed, untold', store', inbox')
  BY ToldSame DEF NoticeInv
<1>2. Told(board, untold, store, inbox) => Told(board', untold', store', inbox')
  BY ToldSame
<1> QED
  BY <1>1, <1>2 DEF NoticeInv

(* A detached read.                                                        *)
LEMMA NoticeReadRow ==
    ASSUME PairInv, NoticeInv, ReadRow
    PROVE  NoticeInv'
<1> DEFINE reply == [row |-> store, late |-> FALSE]
<1>1. reply \in Replies(raced) /\ reply.row = store /\ inbox \in Seq(Replies(raced))
  BY DEF Replies, PairInv, Held, GoodRows
<1>2. inbox' = Append(inbox, reply)
  BY DEF ReadRow
<1> HIDE DEF reply
<1>3. UNCHANGED <<store, board, untold, cmds>> /\ untold \in Int
  BY DEF ReadRow, db, card, history, PairInv, Counted
<1>4. OneCause' /\ (Persisting' <=> Persisting)
  BY <1>3 DEF NoticeInv, OneCause, Persisting
<1>5. \A x : Told(x, untold, store, inbox) => Told(x, untold', store', inbox')
  BY <1>1, <1>2, <1>3, ToldRead
<1> QED
  BY <1>3, <1>4, <1>5 DEF NoticeInv

(* The board takes a reply.                                                *)
LEMMA NoticeUpdated ==
    ASSUME PairInv, NoticeInv, Updated
    PROVE  NoticeInv'
<1>1. PICK i \in 1..Len(inbox) :
        /\ Show(inbox[i].row, IF inbox[i].late THEN 1 ELSE 0)
        /\ inbox' = Without(inbox, i)
  BY Zenon DEF Updated, Without
<1> DEFINE r == inbox[i].row
           credit == IF inbox[i].late THEN 1 ELSE 0
<1>2. board' = r /\ untold' = untold + credit - Notices(r)
  BY <1>1 DEF Show
<1>3. /\ UNCHANGED <<store, cmds>> /\ cmds = << >> /\ untold \in Int
      /\ inbox \in Seq(Replies(raced))
  BY DEF Updated, db, Idle, PairInv, Counted, Held
<1>4. cmds' \in Seq(TickCommands) /\ ~Persisting
  BY <1>3 DEF Persisting
<1>5. Told(board, untold, store, inbox) /\ OneCause'
  BY <1>4 DEF NoticeInv, OneCause
<1>6. Notices(r) \in 0..1 /\ Notices(r) <= Entry(board, r) /\ untold' \in Int
  BY <1>2, <1>3, Tells
<1>7. Told(board', untold', store', inbox')
  BY <1>1, <1>2, <1>3, <1>5, <1>6, ToldTaken
<1>8. Told(Reviewed, untold', store', inbox')
  BY <1>6, <1>7, ToldWeaker
<1> QED
  BY <1>5, <1>7, <1>8 DEF NoticeInv

(* A change made to the card queues its write, and tells nothing.          *)
LEMMA NoticeCard ==
    ASSUME NoticeInv, cmds' \in Seq(CardCommands(board'.status)),
           NEW i \in 1..Len(cmds'), cmds'[i].do = "persist",
           UNCHANGED <<untold, store, inbox>>
    PROVE  NoticeInv'
<1>1. OneCause' /\ Persisting'
  BY DEF OneCause, Persisting
<1> QED
  BY <1>1 DEF NoticeInv

(* A lost window.                                                          *)
LEMMA NoticeWindowGone ==
    ASSUME PairInv, NoticeInv, WindowGone
    PROVE  NoticeInv'
<1>1. board' \in Rows
  BY PairWindowGone DEF PairInv, Held, GoodRows
<1> DEFINE c == Do("persist", board')
<1>2. c \in CardCommands(board'.status) /\ c.do = "persist"
  BY <1>1 DEF Do, CardCommands
<1>3. cmds' = <<c>> /\ UNCHANGED <<untold, store, inbox>>
  BY DEF WindowGone, db, history
<1> HIDE DEF c
<1>4. cmds' \in Seq(CardCommands(board'.status)) /\ Len(cmds') = 1 /\ cmds'[1] = c
  BY <1>2, <1>3, ShortLists
<1>5. 1 \in 1..Len(cmds') /\ cmds'[1].do = "persist"
  BY <1>2, <1>4
<1> QED
  BY <1>3, <1>4, <1>5, NoticeCard

(* A move by the user.                                                     *)
LEMMA NoticeMove ==
    ASSUME PairInv, NoticeInv, NEW status \in {"running", "review", "done"}, NEW forward \in BOOLEAN,
           Move(status, forward)
    PROVE  NoticeInv'
<1>1. board' \in Rows
  BY PairMove DEF PairInv, Held, GoodRows
<1> DEFINE S == CardCommands(board'.status)
           p == <<Do("persist", board')>>
           b == IF status = "running" THEN <<Do("seed", board')>> ELSE << >>
<1>2. /\ Do("persist", board') \in S /\ Do("seed", board') \in S
      /\ Do("persist", board').do = "persist"
  BY <1>1 DEF Do, CardCommands
<1>3. cmds' = p \o b
  BY Zenon DEF Move
<1>4. UNCHANGED <<untold, store, inbox>>
  BY DEF Move, db, detached
<1> HIDE DEF S
<1>6. b \in Seq(S) /\ Len(b) \in Nat
  <2>1. CASE status = "running"
    BY <1>2, <2>1, ShortLists
  <2>2. CASE status # "running"
    BY <2>2, ShortLists
  <2> QED
    BY <2>1, <2>2
<1>7. p \in Seq(S) /\ Len(p) = 1 /\ p[1].do = "persist"
  BY <1>2, ShortLists
<1> HIDE DEF b, p
<1>10. /\ cmds' \in Seq(S) /\ Len(cmds') = Len(p) + Len(b)
       /\ \A i \in 1..(Len(p) + Len(b)) : cmds'[i] = IF i <= Len(p) THEN p[i] ELSE b[i - Len(p)]
  BY <1>3, <1>6, <1>7, ConcatProperties
<1>11. 1 \in 1..Len(cmds') /\ cmds'[1].do = "persist"
  BY <1>6, <1>7, <1>10
<1> QED
  BY <1>4, <1>10, <1>11, NoticeCard DEF S

(* A tick reclassifies the card, and moves it nowhere.                     *)
LEMMA NoticeTick ==
    ASSUME PairInv, NoticeInv, NEW refresh \in BOOLEAN, Tick(refresh)
    PROVE  NoticeInv'
<1>1. board' \in Rows
  BY PairTick DEF PairInv, Held, GoodRows
<1>2. board'.status = board.status
  BY DEF Tick, PairInv, Held, GoodRows, Rows
<1>3. ~Persisting
  BY DEF Tick, Idle, Persisting
<1> DEFINE a == IF Reclassifies THEN <<Do("patch", board')>> ELSE << >>
           b == IF refresh THEN <<Do("list", board')>> ELSE << >>
<1>4. Do("patch", board') \in TickCommands /\ Do("list", board') \in TickCommands
  BY <1>1 DEF Do, TickCommands
<1>5. a \in Seq(TickCommands)
  <2>1. CASE Reclassifies
    BY <1>4, <2>1, ShortLists
  <2>2. CASE ~Reclassifies
    BY <2>2
  <2> QED
    BY <2>1, <2>2
<1>6. b \in Seq(TickCommands)
  <2>1. CASE refresh
    BY <1>4, <2>1, ShortLists
  <2>2. CASE ~refresh
    BY <2>2
  <2> QED
    BY <2>1, <2>2
<1>7. cmds' = a \o b
  BY Zenon DEF Tick
<1> HIDE DEF a, b
<1>8. OneCause'
  BY <1>5, <1>6, <1>7, ConcatProperties DEF OneCause
<1>9. UNCHANGED <<untold, inbox, store>>
  BY DEF Tick, history, db
<1> QED
  BY <1>2, <1>3, <1>8, <1>9, NoticeKept

(* A write of the board leaves no reply that is not late, and persists     *)
(* the status of the card or keeps that of the row.                        *)
LEMMA NoticeBoardWrite ==
    ASSUME PairInv, NoticeInv, ~Idle, NEW row, BoardWrite(row),
           \/ row.status = board.status
           \/ row.status = store.status /\ Head(cmds).do # "persist"
    PROVE  NoticeInv'
<1>1. /\ store' = row /\ untold' = untold + Entry(store, row) /\ untold \in Int
      /\ inbox' = Stale(inbox) /\ cmds' = Tail(cmds) /\ board' = board
      /\ inbox \in Seq(Replies(raced))
  BY DEF BoardWrite, Write, Entry, PairInv, Counted, Held
<1>2. untold >= 0 /\ untold' >= untold /\ untold' \in Int
  <2>1. untold >= 0
    BY <1>1, ToldWeaker DEF NoticeInv
  <2>2. Entry(store, row) \in 0..1
    BY Entries
  <2> QED
    BY <1>1, <2>1, <2>2
<1>3. OneCause' /\ (Persisting /\ Head(cmds).do # "persist" => Persisting')
  BY <1>1, NoticeTail DEF NoticeInv
<1>6. Told(Reviewed, untold', store', inbox')
  <2>1. Entry(Reviewed, row) = 0
    BY DEF Entry, Reviewed
  <2> QED
    BY <1>1, <1>2, <2>1, ToldLate
<1>4. CASE row.status = board.status
  <2>1. Entry(board, row) = 0
    BY <1>4 DEF Entry
  <2>2. Told(board', untold', store', inbox')
    BY <1>1, <1>2, <2>1, ToldLate
  <2> QED
    BY <1>3, <1>6, <2>2 DEF NoticeInv
<1>5. CASE row.status = store.status /\ Head(cmds).do # "persist"
  <2>1. ASSUME Told(board, untold, store, inbox) PROVE Told(board', untold', store', inbox')
    <3>1. untold >= Entry(board, store) /\ Entry(board, row) = Entry(board, store)
      BY <1>5, <2>1, Entries DEF Told
    <3>2. Entry(board, row) \in 0..1
      BY Entries
    <3>3. untold' >= Entry(board, row)
      BY <1>1, <1>2, <3>1, <3>2
    <3> QED
      BY <1>1, <3>3, ToldLate
  <2> QED
    BY <1>3, <1>5, <1>6, <2>1 DEF NoticeInv
<1> QED
  BY <1>4, <1>5

(* One that fails is credited what the card it leaves may lack.            *)
LEMMA NoticeWriteFails ==
    ASSUME PairInv, NoticeInv, ~Idle, NEW credit, WriteFails(credit),
           \/ credit = 0 /\ (Head(cmds).do = "persist" => Head(cmds).row.status = "review")
           \/ credit = 1
    PROVE  NoticeInv'
<1>1. /\ untold' = untold + credit /\ untold \in Int /\ UNCHANGED <<store, board, inbox>>
      /\ cmds' = Tail(cmds) /\ credit \in 0..1
  BY DEF WriteFails, db, detached, PairInv, Counted
<1>2. /\ OneCause' /\ (Persisting /\ Head(cmds).do # "persist" => Persisting')
      /\ (Head(cmds).do = "persist" => Head(cmds).row.status = board.status)
  BY <1>1, NoticeTail DEF NoticeInv
<1>3. Told(Reviewed, untold, store, inbox)
  BY DEF NoticeInv
<1>4. CASE credit = 1
  <2>1. \A x : Told(x, untold', store', inbox')
    BY <1>1, <1>3, <1>4, ToldAgain
  <2> QED
    BY <1>2, <2>1 DEF NoticeInv
<1>5. CASE credit = 0 /\ Head(cmds).do # "persist"
  <2>1. untold' = untold
    BY <1>1, <1>5
  <2> QED
    BY <1>1, <1>2, <1>5, <2>1, NoticeKept
<1>6. CASE credit = 0 /\ Head(cmds).do = "persist" /\ Head(cmds).row.status = "review"
  <2>1. untold' = untold /\ board.status = Reviewed.status
    BY <1>1, <1>2, <1>6 DEF Reviewed
  <2>2. Told(board', untold', store', inbox') /\ Told(Reviewed, untold', store', inbox')
    BY <1>1, <1>3, <2>1, ToldSame
  <2> QED
    BY <1>2, <2>2 DEF NoticeInv
<1> QED
  BY <1>4, <1>5, <1>6

(* The list tells the entry that the card lacks; when it fails, nothing.   *)
LEMMA NoticeList ==
    ASSUME PairInv, NoticeInv, ExecList
    PROVE  NoticeInv'
<1>1. /\ Head(cmds).do = "list" /\ ~Idle /\ UNCHANGED store
      /\ store \in Rows /\ board \in Rows /\ inbox \in Seq(Replies(raced)) /\ untold \in Int
  BY DEF ExecList, Next1, db, PairInv, Held, GoodRows, Counted
<1>2. CASE ListSkipped
  <2>3. cmds' = Tail(cmds) /\ UNCHANGED <<board, inbox, untold>>
    BY <1>2 DEF ListSkipped, history
  <2>1. OneCause' /\ (Persisting => Persisting')
    BY <1>1, <2>3, NoticeTail DEF NoticeInv
  <2> QED
    BY <1>1, <2>1, <2>3, NoticeKept
<1>3. cmds \in Seq(TickCommands) /\ cmds # << >> /\ ~Persisting
  <2>1. OneCause /\ cmds # << >>
    BY <1>1 DEF NoticeInv, Idle
  <2>2. ASSUME cmds \in Seq(CardCommands(board.status)) PROVE FALSE
    <3>1. Head(cmds) \in CardCommands(board.status)
      BY <2>1, <2>2, HeadTailProperties
    <3> QED
      BY <1>1, <3>1 DEF CardCommands
  <2> QED
    BY <2>1, <2>2, TickPersistsNothing DEF OneCause
<1>4. ASSUME NEW row \in Rows, cmds' = <<Do("mark", row)>> \o Tail(cmds)
      PROVE  OneCause'
  <2> DEFINE a == <<Do("mark", row)>>
             b == Tail(cmds)
  <2>1. cmds' = a \o b /\ b \in Seq(TickCommands)
    BY <1>3, <1>4, HeadTailProperties
  <2>2. Do("mark", row) \in TickCommands
    BY DEF Do, TickCommands
  <2>3. a \in Seq(TickCommands)
    BY <2>2, ShortLists
  <2> HIDE DEF a, b
  <2> QED
    BY <2>1, <2>3, ConcatProperties DEF OneCause
<1>5. CASE Listed
  <2>1. /\ board' = store /\ untold' = untold + 0 - Notices(store) /\ inbox' = Stale(inbox)
        /\ cmds' = <<Do("mark", store)>> \o Tail(cmds)
    BY <1>5 DEF Listed, Show
  <2>2. untold' >= 0 /\ untold' \in Int /\ Entry(store, store) = 0 /\ Entry(Reviewed, store) = 0
    <3>1. untold >= Entry(board, store) /\ Entry(board, store) \in 0..1
      BY <1>3, Entries DEF NoticeInv, Told
    <3>2. Notices(store) \in 0..1 /\ Notices(store) <= Entry(board, store)
      BY Tells
    <3>3. Entry(store, store) = 0 /\ Entry(Reviewed, store) = 0
      BY DEF Entry, Reviewed
    <3> QED
      BY <1>1, <2>1, <3>1, <3>2, <3>3
  <2>3. Told(board', untold', store', inbox') /\ Told(Reviewed, untold', store', inbox')
    BY <1>1, <2>1, <2>2, ToldLate
  <2>4. OneCause'
    BY <1>1, <1>4, <2>1
  <2> QED
    BY <2>3, <2>4 DEF NoticeInv
<1>6. CASE ListFails
  <2>1. cmds' = <<Do("mark", board)>> \o Tail(cmds) /\ UNCHANGED <<board, inbox, untold>>
    BY <1>6 DEF ListFails
  <2>2. OneCause'
    BY <1>1, <1>4, <2>1
  <2> QED
    BY <1>1, <1>3, <2>1, <2>2, NoticeKept
<1> QED
  BY <1>2, <1>5, <1>6 DEF ExecList

(* The commands of the board.                                              *)
LEMMA NoticeExecute ==
    ASSUME PairInv, NoticeInv, Execute
    PROVE  NoticeInv'
<1>1. ~Idle
  BY DEF Execute, ExecPatch, ExecPersist, ExecSeed, ExecList, ExecMark, Next1
<1>2. store \in Rows
  BY DEF PairInv, Held, GoodRows
<1> DEFINE now == Head(cmds)
<1>3. now.row \in Rows
  <2>1. now \in Commands(raced)
    BY <1>1, CommandTaken DEF PairInv, Held, Idle
  <2> QED
    BY <2>1 DEF Commands
<1>4. CASE ExecPatch
  <2> DEFINE row == [store EXCEPT !.sub = now.row.sub]
  <2>1. (BoardWrite(row) \/ WriteFails(0)) /\ now.do # "persist"
    BY <1>4 DEF ExecPatch, Next1
  <2>2. row.status = store.status
    BY <1>2 DEF Rows
  <2> HIDE DEF row
  <2> QED
    BY <1>1, <2>1, <2>2, NoticeBoardWrite, NoticeWriteFails
<1>5. CASE ExecSeed
  <2> DEFINE row == [store EXCEPT !.stamp = now.row.stamp]
  <2>1. (BoardWrite(row) \/ WriteFails(0)) /\ now.do # "persist"
    BY <1>5 DEF ExecSeed, Next1
  <2>2. row.status = store.status
    BY <1>2 DEF Rows
  <2> HIDE DEF row
  <2> QED
    BY <1>1, <2>1, <2>2, NoticeBoardWrite, NoticeWriteFails
<1>6. CASE ExecPersist
  <2> DEFINE row == [now.row EXCEPT !.stamp = store.stamp]
             credit == IF now.row.status = "review" THEN 0 ELSE 1
  <2>1. (BoardWrite(row) \/ WriteFails(credit)) /\ now.do = "persist"
    BY <1>6 DEF ExecPersist, Next1
  <2>2. row.status = now.row.status
    BY <1>3 DEF Rows
  <2>4. (credit = 0 /\ now.row.status = "review") \/ credit = 1
    OBVIOUS
  <2> HIDE DEF row, credit
  <2>5. CASE WriteFails(credit)
    BY <1>1, <2>4, <2>5, NoticeWriteFails
  <2>6. CASE BoardWrite(row)
    <3>1. now.row.status = board.status
      BY <1>1, <2>1, <2>6, NoticeTail DEF NoticeInv, BoardWrite
    <3> QED
      BY <1>1, <2>2, <2>6, <3>1, NoticeBoardWrite
  <2> QED
    BY <2>1, <2>5, <2>6
<1>7. CASE ExecMark
  <2>1. /\ now.do # "persist" /\ cmds' = Tail(cmds) /\ UNCHANGED <<store, board, inbox, untold>>
    BY <1>7 DEF ExecMark, Next1, detached, history
  <2>2. OneCause' /\ (Persisting => Persisting')
    BY <1>1, <2>1, NoticeTail DEF NoticeInv
  <2> QED
    BY <2>1, <2>2, NoticeKept
<1> QED
  BY <1>4, <1>5, <1>6, <1>7, NoticeList DEF Execute

(* Every step keeps the ledger.                                            *)
LEMMA NoticeStep ==
    ASSUME PairInv, NoticeInv, [Next]_vars
    PROVE  NoticeInv'
<1>1. CASE HookPreToolUse \/ HookPrompt \/ HookStop
  <2>1. UNCHANGED <<board, cmds, inbox>> /\ \E row : Write(row)
    BY <1>1 DEF HookPreToolUse, HookPrompt, HookStop, HookWrite, card, detached
  <2> QED
    BY <2>1, NoticeBeside
<1>2. CASE McpClose("done") \/ McpClose("review") \/ McpSetSub
  <2>1. UNCHANGED <<board, cmds, inbox>> /\ \E row : Write(row)
    BY <1>2 DEF McpClose, McpSetSub, McpWrite, card
  <2> QED
    BY <2>1, NoticeBeside
<1>3. CASE McpCheckSub \/ TimePasses \/ ReadRowFails \/ UNCHANGED vars
  <2>1. UNCHANGED <<store, board, cmds, inbox, untold>>
    BY <1>3 DEF McpCheckSub, TimePasses, ReadRowFails, vars, db, card, detached, history
  <2>2. OneCause' /\ (Persisting => Persisting')
    BY <2>1 DEF NoticeInv, OneCause, Persisting
  <2> QED
    BY <2>1, <2>2, NoticeKept
<1>4. CASE UserMoves
  BY <1>4, NoticeMove DEF UserMoves
<1>5. CASE \E refresh \in BOOLEAN : Tick(refresh)
  BY <1>5, NoticeTick
<1> QED
  BY <1>1, <1>2, <1>3, <1>4, <1>5, NoticeReadRow, NoticeUpdated, NoticeWindowGone, NoticeExecute
     DEF Next

(* A card that shows Review was told of, or was put there by the user.     *)
ReviewKnown == board.status = "review" => notified \/ own

(* What the board takes in Review it tells of, unless it knows already.    *)
LEMMA KnownStep ==
    ASSUME PairInv, ReviewKnown, [Next]_vars
    PROVE  ReviewKnown'
<1>1. ASSUME NEW row, NEW credit, Show(row, credit) PROVE ReviewKnown'
  BY <1>1 DEF Show, Enters, ReviewKnown
<1>2. CASE Updated
  BY <1>1, <1>2 DEF Updated
<1>3. CASE ExecList
  <2>1. CASE Listed
    BY <1>1, <2>1 DEF Listed
  <2>2. CASE ListSkipped \/ ListFails
    BY <2>2 DEF ListSkipped, ListFails, history, ReviewKnown
  <2> QED
    BY <1>3, <2>1, <2>2 DEF ExecList
<1>4. CASE UserMoves
  <2>1. PICK status \in {"running", "review", "done"}, forward \in BOOLEAN : Move(status, forward)
    BY <1>4 DEF UserMoves
  <2>2. board'.status = status /\ own' = (status = "review")
    BY <2>1 DEF Move, LocalStatus, PairInv, Held, GoodRows, Rows
  <2> QED
    BY <2>2 DEF ReviewKnown
<1>5. CASE \/ WindowGone \/ \E refresh \in BOOLEAN : Tick(refresh)
  <2>1. board'.status = board.status /\ UNCHANGED <<notified, own>>
    BY <1>5 DEF WindowGone, Tick, history, PairInv, Held, GoodRows, Rows
  <2> QED
    BY <2>1 DEF ReviewKnown
<1>6. CASE ExecPatch \/ ExecPersist \/ ExecSeed \/ ExecMark
  BY <1>6 DEF ExecPatch, ExecPersist, ExecSeed, ExecMark, BoardWrite, WriteFails, history, ReviewKnown
<1>7. CASE \/ HookPreToolUse \/ HookPrompt \/ HookStop \/ McpClose("done") \/ McpClose("review")
           \/ McpCheckSub \/ McpSetSub \/ TimePasses \/ ReadRow \/ ReadRowFails
           \/ UNCHANGED vars
  BY <1>7 DEF HookPreToolUse, HookPrompt, HookStop, HookWrite, McpClose, McpCheckSub, McpSetSub,
              McpWrite, TimePasses, ReadRow, ReadRowFails, vars, card, history, ReviewKnown
<1> QED
  BY <1>2, <1>3, <1>4, <1>5, <1>6, <1>7 DEF Next, Execute

(* The user is told at most once of an entry of the row into Review, and   *)
(* at most once more per reply that arrived after a newer one and per      *)
(* failed write of a card outside Review; and what the card shows in       *)
(* Review the user was told of or moved there: for any number of writes,   *)
(* moves, failures and replies under way.                                  *)
THEOREM NoticesCovered == Spec => []OneNoticePerReview
<1>1. Init => PairInv /\ NoticeInv /\ ReviewKnown
  <2>1. ASSUME Init PROVE NoticeInv /\ ReviewKnown
    <3>1. cmds = << >> /\ untold = 0 /\ board = store /\ inbox = << >> /\ board.status = "running"
      BY <2>1 DEF Init
    <3>2. OneCause
      BY <3>1 DEF OneCause
    <3>3. Entry(board, store) = 0
      BY <3>1, Entries
    <3>4. /\ Ledger([i \in Nat |-> 0], board, untold, store, inbox)
          /\ [i \in Nat |-> 0] \in [Nat -> Int]
      BY <3>1 DEF Ledger, Fresh
    <3>5. Told(board, untold, store, inbox)
      BY <3>1, <3>3, <3>4 DEF Told
    <3>6. Told(Reviewed, untold, store, inbox)
      BY <3>1, <3>5, ToldWeaker
    <3> QED
      BY <3>1, <3>2, <3>5, <3>6 DEF NoticeInv, ReviewKnown
  <2> QED
    BY <2>1, PairStarts
<1>2. PairInv /\ NoticeInv /\ ReviewKnown /\ [Next]_vars => (PairInv /\ NoticeInv /\ ReviewKnown)'
  BY PairStep, NoticeStep, KnownStep
<1>3. PairInv /\ NoticeInv /\ ReviewKnown => OneNoticePerReview
  <2>1. PairInv /\ NoticeInv => untold >= 0
    BY ToldWeaker DEF NoticeInv, PairInv, Counted
  <2> QED
    BY <2>1 DEF ReviewKnown, OneNoticePerReview
<1> QED
  BY <1>1, <1>2, <1>3, PTL DEF Spec
=============================================================================
