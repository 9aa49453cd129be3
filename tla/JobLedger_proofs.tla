---------------------------- MODULE JobLedger_proofs ----------------------------
(***************************************************************************)
(* The ledger keeps every line as long as no prune overlaps with another     *)
(* writer and no write is cut short, for any number of processes.            *)
(*                                                                          *)
(* Calm is that condition.  In a calm state at most one process is between   *)
(* its read and the end of its write (the lock keeps updates apart, `raced`  *)
(* tells of prunes), nobody is disturbed, and what such a process read still *)
(* describes the file.                                                      *)
(***************************************************************************)
EXTENDS JobLedger, TLAPS

Calm == ~raced /\ stops = 0
Busy == {w \in Writers : pc[w] \in {"read", "writing"}}
Lines(S, r) == {e \in S : e.id = r}
Line(r) == {[id |-> r, status |-> Written(r)]}

\* Only the holder of the lock updates; a run that has decided nothing yet would
\* record "running".
LockHeld == \A r \in Runs : pc[r] \in {"read", "writing"} => lock = r
Undecided == \A r \in Runs : pc[r] \in {"start", "append", "poll"} => mark[r] = "running"

OneBusy == \A v, w \in Busy : v = w
Alone == touched = {} /\ tail = Ended
AtRest == Rewriting = {} => \A r \in owed : Lines(file, r) = Line(r)
HalfWay == \A w \in Rewriting : \A r \in owed : Lines(file \cup left[w], r) = Line(r)
ReadRight ==
    \A w \in Writers : pc[w] = "read" =>
      \A r \in owed : Lines(left[w], r) =
                        IF r = w THEN {[id |-> r, status |-> mark[r]]} ELSE Line(r)
Unborn ==
    \A r \in Runs : pc[r] \in {"start", "append"} =>
      /\ r \notin owed
      /\ Lines(file, r) = {}
      /\ \A w \in Busy : Lines(left[w], r) = {}
CalmInv == OneBusy /\ Alone /\ AtRest /\ HalfWay /\ ReadRight /\ Unborn

LedgerInv == TypeOK /\ LockHeld /\ Undecided /\ (Calm => CalmInv)

-----------------------------------------------------------------------------

LEMMA MarkTypes == ASSUME NEW s PROVE StatusMark(s) \in Marks
BY DEF StatusMark, Marks, FinalMarks

LEMMA LateTypes == ASSUME NEW c \in Commands PROVE c.late \in FinalMarks
BY DEF Commands, FinalMarks, JobSchedulerRun, NotebookRun, DataflowRun, DataBuildToolRun

\* A rewritten line is still a line of the same job.
LEMMA RelabelledTypes ==
    ASSUME TypeOK, NEW r \in Runs
    PROVE  Relabelled(r) \subseteq Entries
<1>1. ASSUME NEW e \in file PROVE [e EXCEPT !.status = mark[r]] \in Entries
  BY DEF TypeOK, Entries
<1> QED BY <1>1 DEF TypeOK, Relabelled

\* The types are kept by every step.
LEMMA TypeStep == TypeOK /\ [Next]_vars => TypeOK'
<1> SUFFICES ASSUME TypeOK, [Next]_vars PROVE TypeOK'
  OBVIOUS
<1> USE DEF TypeOK, config, fileVars, history, Goto
<1>1. ASSUME NEW r \in Runs, Trigger(r) PROVE TypeOK'
  BY <1>1 DEF Trigger, Writers, JobStatus
<1>2. ASSUME NEW r \in Runs, Append(r) PROVE TypeOK'
  <2>1. NewLine(r) \in Entries
    BY DEF NewLine, Entries, Marks
  <2>2. touched' \subseteq Writers
    BY <1>2 DEF Append, Rewriting
  <2>3. file' \subseteq Entries /\ tail' \in Entries \cup {Ended, Garbage}
    BY <1>2, <2>1 DEF Append, Glue
  <2> QED BY <1>2, <2>2, <2>3 DEF Append, AfterAppend, Writers
<1>3. ASSUME NEW r \in Runs, AppendFails(r) PROVE TypeOK'
  BY <1>3 DEF AppendFails, AfterAppend, Writers
<1>4. ASSUME NEW r \in Runs, AppendCut(r) PROVE TypeOK'
  <2>1. NewLine(r) \in Entries
    BY DEF NewLine, Entries, Marks
  <2>2. touched' \subseteq Writers
    BY <1>4 DEF AppendCut, Rewriting
  <2>3. file' \subseteq Entries /\ tail' \in Entries \cup {Ended, Garbage}
    BY <1>4, <2>1 DEF AppendCut, Glue
  <2>4. stops' \in 0 .. MaxStops
    BY <1>4, LedgerAssumption DEF AppendCut
  <2> QED BY <1>4, <2>2, <2>3, <2>4 DEF AppendCut, Writers
<1>5. ASSUME NEW r \in Runs, Poll(r) PROVE TypeOK'
  <2>1. PICK s \in IF job[r] = "running" THEN JobStatus \ {"none"} ELSE {job[r]} :
          /\ job' = [job EXCEPT ![r] = s]
          /\ mark' = [mark EXCEPT ![r] = StatusMark(s)]
          /\ Goto(r, IF StatusMark(s) = "running" THEN "poll" ELSE "update")
    BY <1>5 DEF Poll
  <2>2. s \in JobStatus
    BY <2>1
  <2>3. StatusMark(s) \in Marks
    BY MarkTypes
  <2> QED BY <1>5, <2>1, <2>2, <2>3 DEF Poll, Writers
<1>6. ASSUME NEW r \in Runs, PollFails(r) PROVE TypeOK'
  BY <1>6 DEF PollFails, Writers
<1>7. ASSUME NEW r \in Runs, TimeOut(r) PROVE TypeOK'
  <2>1. command[r] \in Commands
    BY LedgerAssumption
  <2>2. command[r].late \in Marks
    BY <2>1, LateTypes DEF Marks
  <2>3. job' \in [Runs -> JobStatus]
    BY <1>7 DEF TimeOut, JobStatus
  <2> QED BY <1>7, <2>2, <2>3 DEF TimeOut, Writers
<1>8. ASSUME NEW r \in Runs, UpdateRead(r) PROVE TypeOK'
  <2>1. left' \in [Writers -> SUBSET Entries]
    BY <1>8, RelabelledTypes DEF UpdateRead, Writers
  <2> QED BY <1>8, <2>1 DEF UpdateRead, Writers
<1>9. ASSUME NEW r \in Runs, UpdateFails(r) PROVE TypeOK'
  BY <1>9 DEF UpdateFails, Writers
<1>10. ASSUME NEW p \in Pruners, PruneRead(p) PROVE TypeOK'
  <2>1. left' \in [Writers -> SUBSET Entries]
    BY <1>10 DEF PruneRead, Remaining, Writers
  <2> QED BY <1>10, <2>1 DEF PruneRead, Writers
<1>11. ASSUME NEW w \in Writers, Truncate(w) PROVE TypeOK'
  <2>1. touched' \subseteq Writers
    BY <1>11 DEF Truncate, Rewriting
  <2> QED BY <1>11, <2>1 DEF Truncate
<1>12. ASSUME NEW w \in Writers, WriteLine(w) PROVE TypeOK'
  <2>1. PICK e \in left[w] :
          /\ left' = [left EXCEPT ![w] = @ \ {e}]
          /\ IF w \in touched THEN file' \in SUBSET (file \cup {e})
                              ELSE file' = file \cup {e}
    BY <1>12 DEF WriteLine
  <2>2. file' \subseteq Entries /\ left' \in [Writers -> SUBSET Entries]
    BY <2>1
  <2>3. touched' \subseteq Writers /\ tail' \in Entries \cup {Ended, Garbage}
    BY <1>12 DEF WriteLine, Rewriting
  <2> QED BY <1>12, <2>2, <2>3 DEF WriteLine
<1>13. ASSUME NEW w \in Writers, EndWrite(w) PROVE TypeOK'
  BY <1>13 DEF EndWrite, Release
<1>14. ASSUME NEW w \in Writers, WriteCut(w) PROVE TypeOK'
  <2>1. stops' \in 0 .. MaxStops
    BY <1>14, LedgerAssumption DEF WriteCut
  <2>2. tail' \in Entries \cup {Ended, Garbage}
    BY <1>14 DEF WriteCut
  <2> QED BY <1>14, <2>1, <2>2 DEF WriteCut, Release
<1>15. CASE UNCHANGED vars
  BY <1>15 DEF vars
<1> QED BY <1>1, <1>2, <1>3, <1>4, <1>5, <1>6, <1>7, <1>8, <1>9, <1>10, <1>11,
           <1>12, <1>13, <1>14, <1>15 DEF Next, RunStep, WriteStep

LEMMA TypeInit == Init => TypeOK
<1> SUFFICES ASSUME Init PROVE TypeOK
  OBVIOUS
<1>1. stops \in 0 .. MaxStops
  BY LedgerAssumption DEF Init
<1>2. /\ command \in Asked /\ all \in [Pruners -> BOOLEAN]
      /\ file \subseteq Entries /\ tail \in Entries \cup {Ended, Garbage}
      /\ lock \in Runs \cup {Nobody}
      /\ left \in [Writers -> SUBSET Entries]
      /\ touched \subseteq Writers /\ owed \subseteq Runs /\ raced \in BOOLEAN
  BY DEF Init
<1>3. /\ pc \in [Writers -> {"start", "append", "poll", "update", "read",
                              "writing", "done", "unsaved", "dead"}]
      /\ mark \in [Runs -> Marks]
      /\ job \in [Runs -> JobStatus]
  BY DEF Init, Marks, JobStatus
<1> QED BY <1>1, <1>2, <1>3 DEF TypeOK

\* Every value stays in its type.
THEOREM TypeCorrect == Spec => []TypeOK
BY TypeInit, TypeStep, PTL DEF Spec

-----------------------------------------------------------------------------
(* Who holds the lock, and who has decided what.                            *)

LEMMA LockStep == TypeOK /\ LockHeld /\ [Next]_vars => LockHeld'
<1> SUFFICES ASSUME TypeOK, LockHeld, [Next]_vars,
                    NEW q \in Runs, pc'[q] \in {"read", "writing"}
             PROVE  lock' = q
  BY DEF LockHeld
<1> USE DEF TypeOK, LockHeld, config, fileVars, history, Goto, Writers
<1>1. ASSUME NEW r \in Runs, RunStep(r), ~UpdateRead(r) PROVE lock' = q
  <2>1. lock' = lock /\ \E l \in {"append", "poll", "update", "done", "unsaved", "dead"} :
          pc' = [pc EXCEPT ![r] = l]
    BY <1>1 DEF RunStep, Trigger, Append, AppendFails, AppendCut, Poll, PollFails,
                TimeOut, UpdateFails, AfterAppend
  <2> QED BY <2>1
<1>2. ASSUME NEW r \in Runs, UpdateRead(r) PROVE lock' = q
  <2>1. q # r => lock = q
    BY <1>2 DEF UpdateRead
  <2>2. lock = Nobody
    BY <1>2 DEF UpdateRead
  <2> QED BY <1>2, <2>1, <2>2, LedgerAssumption DEF UpdateRead
<1>3. ASSUME NEW p \in Pruners, PruneRead(p) PROVE lock' = q
  <2>1. q # p
    BY LedgerAssumption
  <2> QED BY <1>3, <2>1 DEF PruneRead
<1>4. ASSUME NEW w \in Writers, Truncate(w) PROVE lock' = q
  BY <1>4 DEF Truncate
<1>5. ASSUME NEW w \in Writers, WriteLine(w) PROVE lock' = q
  BY <1>5 DEF WriteLine
<1>6. ASSUME NEW w \in Writers, EndWrite(w) PROVE lock' = q
  <2>1. q # w
    BY <1>6 DEF EndWrite
  <2> QED BY <1>6, <2>1 DEF EndWrite, Release
<1>7. ASSUME NEW w \in Writers, WriteCut(w) PROVE lock' = q
  <2>1. q # w
    BY <1>7 DEF WriteCut
  <2> QED BY <1>7, <2>1 DEF WriteCut, Release
<1>8. CASE UNCHANGED vars
  BY <1>8 DEF vars
<1> QED BY <1>1, <1>2, <1>3, <1>4, <1>5, <1>6, <1>7, <1>8 DEF Next, WriteStep

LEMMA UndecidedStep == TypeOK /\ Undecided /\ [Next]_vars => Undecided'
<1> SUFFICES ASSUME TypeOK, Undecided, [Next]_vars,
                    NEW q \in Runs, pc'[q] \in {"start", "append", "poll"}
             PROVE  mark'[q] = "running"
  BY DEF Undecided
<1> USE DEF TypeOK, Undecided, config, fileVars, history, Goto, Writers
<1>1. ASSUME NEW r \in Runs, RunStep(r), ~Poll(r), ~TimeOut(r) PROVE mark'[q] = "running"
  <2>1. mark' = mark
    BY <1>1 DEF RunStep, Trigger, Append, AppendFails, AppendCut, PollFails, UpdateRead,
                UpdateFails
  <2>2. \/ pc[r] \in {"start", "append", "poll"} /\ \E l : pc' = [pc EXCEPT ![r] = l]
        \/ pc' = [pc EXCEPT ![r] = "read"] \/ pc' = [pc EXCEPT ![r] = "unsaved"]
    BY <1>1 DEF RunStep, Trigger, Append, AppendFails, AppendCut, PollFails, UpdateRead,
                UpdateFails
  <2> QED BY <2>1, <2>2
<1>2. ASSUME NEW r \in Runs, Poll(r) PROVE mark'[q] = "running"
  <2>1. PICK s : /\ mark' = [mark EXCEPT ![r] = StatusMark(s)]
                 /\ Goto(r, IF StatusMark(s) = "running" THEN "poll" ELSE "update")
    BY <1>2 DEF Poll
  <2> QED BY <2>1
<1>3. ASSUME NEW r \in Runs, TimeOut(r) PROVE mark'[q] = "running"
  BY <1>3 DEF TimeOut
<1>4. ASSUME NEW p \in Pruners, PruneRead(p) PROVE mark'[q] = "running"
  <2>1. q # p
    BY LedgerAssumption
  <2> QED BY <1>4, <2>1 DEF PruneRead
<1>5. ASSUME NEW w \in Writers, WriteStep(w) PROVE mark'[q] = "running"
  <2>1. mark' = mark /\ (pc' = pc \/ \E l \in {"writing", "done", "dead"} :
                            pc' = [pc EXCEPT ![w] = l])
    BY <1>5 DEF WriteStep, Truncate, WriteLine, EndWrite, WriteCut
  <2> QED BY <2>1
<1>6. CASE UNCHANGED vars
  BY <1>6 DEF vars
<1> QED BY <1>1, <1>2, <1>3, <1>4, <1>5, <1>6 DEF Next, RunStep

-----------------------------------------------------------------------------
(* The calm part, action by action.                                         *)

\* A step that leaves the file, what was read of it and everybody's last written
\* status alone.
LEMMA QuietStep ==
    ASSUME TypeOK, CalmInv, UNCHANGED <<fileVars, left, owed>>,
           \A w \in Writers : /\ pc'[w] = "read" <=> pc[w] = "read"
                              /\ pc'[w] = "writing" <=> pc[w] = "writing",
           \A r \in Runs : pc'[r] \in {"start", "append"} => pc[r] \in {"start", "append"},
           \A r \in Runs : Written(r)' = Written(r),
           \A r \in Runs : pc[r] = "read" => mark'[r] = mark[r]
    PROVE  CalmInv'
<1>1. Busy' = Busy /\ Rewriting' = Rewriting
  BY DEF Busy, Rewriting
<1>2. \A r \in Runs : Line(r)' = Line(r)
  BY DEF Line
<1>3. OneBusy'
  BY <1>1 DEF CalmInv, OneBusy
<1>4. Alone'
  BY DEF CalmInv, Alone, fileVars
<1>5. AtRest'
  BY <1>1, <1>2 DEF CalmInv, AtRest, fileVars, Lines, TypeOK
<1>6. HalfWay'
  BY <1>1, <1>2 DEF CalmInv, HalfWay, fileVars, Lines, TypeOK
<1>7. ReadRight'
  <2> SUFFICES ASSUME NEW w \in Writers, pc'[w] = "read", NEW r \in owed
               PROVE  Lines(left'[w], r) =
                        IF r = w THEN {[id |-> r, status |-> mark'[r]]} ELSE Line(r)'
    BY DEF ReadRight, Lines
  <2>1. r \in Runs /\ pc[w] = "read"
    BY DEF TypeOK
  <2>2. Lines(left[w], r) = IF r = w THEN {[id |-> r, status |-> mark[r]]} ELSE Line(r)
    BY <2>1 DEF CalmInv, ReadRight
  <2> QED BY <2>1, <2>2, <1>2
<1>8. Unborn'
  BY <1>1 DEF CalmInv, Unborn, fileVars, Lines
<1> QED BY <1>3, <1>4, <1>5, <1>6, <1>7, <1>8 DEF CalmInv

LEMMA QuietRuns ==
    ASSUME TypeOK, Undecided, CalmInv, NEW r \in Runs,
           Trigger(r) \/ AppendFails(r) \/ Poll(r) \/ PollFails(r) \/ TimeOut(r) \/ UpdateFails(r)
    PROVE  CalmInv'
<1> USE DEF TypeOK, Goto, Writers
<1>1. UNCHANGED <<fileVars, left, owed>>
  BY DEF Trigger, AppendFails, Poll, PollFails, TimeOut, UpdateFails, history
<1>2. PICK l \in {"append", "poll", "update", "done", "unsaved"} :
        /\ pc' = [pc EXCEPT ![r] = l]
        /\ l = "append" => pc[r] = "start"
        /\ l = "done" => pc[r] \in {"start", "append", "poll"} /\ mark' = mark
  BY DEF Trigger, AppendFails, AfterAppend, Poll, PollFails, TimeOut, UpdateFails
<1>3. pc[r] \in {"start", "append", "poll", "update"}
  BY DEF Trigger, AppendFails, Poll, PollFails, TimeOut, UpdateFails
<1>4. mark' = mark \/ \E m : mark' = [mark EXCEPT ![r] = m]
  BY DEF Trigger, AppendFails, Poll, PollFails, TimeOut, UpdateFails
<1>5. ASSUME NEW q \in Runs PROVE Written(q)' = Written(q)
  BY <1>2, <1>3, <1>4 DEF Written, Undecided
<1>6. \A w \in Writers : /\ pc'[w] = "read" <=> pc[w] = "read"
                         /\ pc'[w] = "writing" <=> pc[w] = "writing"
  BY <1>2, <1>3
<1>7. \A q \in Runs : pc'[q] \in {"start", "append"} => pc[q] \in {"start", "append"}
  BY <1>2
<1>8. \A q \in Runs : pc[q] = "read" => mark'[q] = mark[q]
  BY <1>3, <1>4
<1> QED BY <1>1, <1>5, <1>6, <1>7, <1>8, QuietStep

\* A free lock and no prune: nobody is between a read and the end of a write.
LEMMA FreeMeansIdle ==
    ASSUME TypeOK, LockHeld, lock = Nobody, Pruning = {}
    PROVE  Busy = {} /\ Rewriting = {}
<1>1. ASSUME NEW w \in Busy PROVE FALSE
  <2>1. w \in Runs
    BY DEF Busy, Pruning, Writers
  <2> QED BY <2>1, LedgerAssumption DEF Busy, LockHeld
<1>2. Rewriting \subseteq Busy
  BY DEF Rewriting, Busy
<1> QED BY <1>1, <1>2

LEMMA CalmAppend ==
    ASSUME LedgerInv, NEW r \in Runs, Append(r), Calm, Calm'
    PROVE  CalmInv'
<1> USE DEF LedgerInv, TypeOK
<1>1. Busy = {} /\ Rewriting = {}
  <2>1. Pruning = {} /\ lock = Nobody
    BY DEF Append, Calm
  <2> QED BY <2>1, FreeMeansIdle
<1>2. PICK l \in {"poll", "done"} : pc' = [pc EXCEPT ![r] = l]
  BY DEF Append, AfterAppend, Goto
<1>3. Busy' = {} /\ Rewriting' = {}
  BY <1>1, <1>2 DEF Busy, Rewriting, Writers
<1>4. /\ file' = file \cup {NewLine(r)} /\ tail' = Ended
      /\ owed' = owed \cup {r} /\ touched' = {}
      /\ mark' = mark /\ left' = left
  BY <1>1 DEF Append, CalmInv, Alone, Glue
<1>5. pc[r] = "append" /\ mark[r] = "running" /\ Lines(file, r) = {}
  BY DEF Append, Undecided, CalmInv, Unborn
<1>6. ASSUME NEW q \in Runs PROVE Line(q)' = Line(q)
  BY <1>2, <1>4, <1>5 DEF Line, Written, Writers
<1>7. Line(r) = {NewLine(r)}
  BY <1>5 DEF Line, Written, NewLine
<1>8. ASSUME NEW q \in Runs PROVE Lines(file', q) = IF q = r THEN Line(r) ELSE Lines(file, q)
  BY <1>4, <1>5, <1>7 DEF Lines, NewLine
<1>9. AtRest'
  <2> SUFFICES ASSUME NEW q \in owed' PROVE Lines(file', q) = Line(q)'
    BY DEF AtRest, Lines
  <2>1. q \in Runs
    BY <1>4
  <2>2. q # r => Lines(file, q) = Line(q)
    BY <1>1, <1>4 DEF CalmInv, AtRest
  <2> QED BY <2>1, <2>2, <1>6, <1>8
<1>10. Unborn'
  <2> SUFFICES ASSUME NEW q \in Runs, pc'[q] \in {"start", "append"}
               PROVE  q \notin owed' /\ Lines(file', q) = {}
    BY <1>3 DEF Unborn, Lines
  <2>1. q # r /\ pc[q] \in {"start", "append"}
    BY <1>2 DEF Writers
  <2> QED BY <2>1, <1>4, <1>8 DEF CalmInv, Unborn
<1>11. OneBusy' /\ Alone' /\ HalfWay'
  BY <1>3, <1>4 DEF OneBusy, Alone, HalfWay
<1>12. ReadRight'
  BY <1>3 DEF ReadRight, Busy
<1> QED BY <1>9, <1>10, <1>11, <1>12 DEF CalmInv

\* A process starts to rewrite from rest: what it read describes the file.
LEMMA CalmRead ==
    ASSUME TypeOK, CalmInv, NEW w \in Writers, Busy = {}, Rewriting = {},
           pc' = [pc EXCEPT ![w] = "read"], pc[w] \in {"start", "update"},
           w \in Runs => pc[w] = "update",
           UNCHANGED <<file, tail, touched, mark>>, owed' \subseteq owed,
           \A v \in Writers : v # w => left'[v] = left[v],
           \A q \in Runs : Lines(file, q) = {} => Lines(left'[w], q) = {},
           \A q \in owed' : Lines(file, q) = Line(q) =>
             Lines(left'[w], q) = IF q = w THEN {[id |-> q, status |-> mark[q]]} ELSE Line(q)
    PROVE  CalmInv'
<1> USE DEF TypeOK, Writers
<1>1. Busy' = {w} /\ Rewriting' = {}
  BY DEF Busy, Rewriting
<1>2. ASSUME NEW q \in Runs PROVE Line(q)' = Line(q)
  BY DEF Line, Written
<1>3. ASSUME NEW q \in owed' PROVE q \in Runs /\ Lines(file, q) = Line(q)
  BY DEF CalmInv, AtRest
<1>4. AtRest'
  BY <1>2, <1>3 DEF AtRest, Lines
<1>5. ReadRight'
  <2> SUFFICES ASSUME NEW v \in Writers, pc'[v] = "read", NEW q \in owed'
               PROVE  Lines(left'[v], q) =
                        IF q = v THEN {[id |-> q, status |-> mark'[q]]} ELSE Line(q)'
    BY DEF ReadRight, Lines
  <2>1. v = w
    BY <1>1 DEF Busy
  <2> QED BY <2>1, <1>2, <1>3
<1>6. Unborn'
  <2> SUFFICES ASSUME NEW q \in Runs, pc'[q] \in {"start", "append"}
               PROVE  q \notin owed' /\ Lines(file', q) = {} /\ Lines(left'[w], q) = {}
    BY <1>1 DEF Unborn, Lines
  <2>1. pc[q] \in {"start", "append"}
    OBVIOUS
  <2> QED BY <2>1 DEF CalmInv, Unborn
<1>7. OneBusy' /\ Alone' /\ HalfWay'
  BY <1>1 DEF OneBusy, CalmInv, Alone, HalfWay
<1> QED BY <1>4, <1>5, <1>6, <1>7 DEF CalmInv

LEMMA CalmUpdateRead ==
    ASSUME LedgerInv, NEW r \in Runs, UpdateRead(r), Calm, Calm'
    PROVE  CalmInv'
<1> USE DEF LedgerInv
<1>1. Busy = {} /\ Rewriting = {}
  <2>1. Pruning = {} /\ lock = Nobody
    BY DEF UpdateRead, Calm
  <2> QED BY <2>1, FreeMeansIdle
<1>2. left'[r] = Relabelled(r) /\ \A v \in Writers : v # r => left'[v] = left[v]
  BY DEF UpdateRead, TypeOK, Writers
<1>3. file \subseteq Entries
  BY DEF TypeOK
<1>4. ASSUME NEW q \in Runs, q # r PROVE Lines(Relabelled(r), q) = Lines(file, q)
  <2>1. ASSUME NEW e \in file, e.id = q PROVE e \in Relabelled(r)
    BY <2>1, <1>4 DEF Relabelled
  <2>2. ASSUME NEW e \in Relabelled(r), e.id = q PROVE e \in file
    <3>1. PICK f \in file : e = IF f.id = r THEN [f EXCEPT !.status = mark[r]] ELSE f
      BY DEF Relabelled
    <3> QED BY <3>1, <2>2, <1>3, <1>4 DEF Entries
  <2> QED BY <2>1, <2>2 DEF Lines
<1>5. ASSUME Lines(file, r) = Line(r)
      PROVE  Lines(Relabelled(r), r) = {[id |-> r, status |-> mark[r]]}
  <2> DEFINE old == [id |-> r, status |-> Written(r)]
             new == [id |-> r, status |-> mark[r]]
  <2>1. old \in file /\ old.id = r /\ [old EXCEPT !.status = mark[r]] = new
    BY <1>5 DEF Line, Lines
  <2>2. new \in Relabelled(r) /\ new.id = r
    BY <2>1 DEF Relabelled
  <2>3. ASSUME NEW e \in Relabelled(r), e.id = r PROVE e = new
    <3>1. PICK f \in file : e = IF f.id = r THEN [f EXCEPT !.status = mark[r]] ELSE f
      BY DEF Relabelled
    <3>2. f.id = r
      BY <2>3, <3>1, <1>3 DEF Entries
    <3>3. f = old
      BY <3>2, <1>5 DEF Lines, Line
    <3> QED BY <3>1, <3>2, <3>3, <2>1
  <2> QED BY <2>2, <2>3 DEF Lines
<1>6. ASSUME Lines(file, r) = {} PROVE Lines(Relabelled(r), r) = {}
  <2> SUFFICES ASSUME NEW e \in Relabelled(r), e.id = r PROVE FALSE
    BY DEF Lines
  <2>1. PICK f \in file : e = IF f.id = r THEN [f EXCEPT !.status = mark[r]] ELSE f
    BY DEF Relabelled
  <2> QED BY <2>1, <1>3, <1>6 DEF Lines, Entries
<1>7. /\ pc' = [pc EXCEPT ![r] = "read"] /\ pc[r] = "update"
      /\ UNCHANGED <<file, tail, touched, mark, owed>>
  BY DEF UpdateRead, Goto, fileVars
<1>8. owed \subseteq Runs /\ r \in Writers
  BY DEF TypeOK, Writers
<1>9. \A q \in Runs : Lines(file, q) = {} => Lines(left'[r], q) = {}
  BY <1>2, <1>4, <1>6
<1>10. ASSUME NEW q \in owed', Lines(file, q) = Line(q)
       PROVE  Lines(left'[r], q) = IF q = r THEN {[id |-> q, status |-> mark[q]]} ELSE Line(q)
  BY <1>2, <1>4, <1>5, <1>7, <1>8, <1>10
<1>11. owed' \subseteq owed
  BY <1>7
<1> QED BY <1>1, <1>2, <1>7, <1>8, <1>9, <1>10, <1>11, CalmRead

LEMMA CalmPruneRead ==
    ASSUME LedgerInv, NEW p \in Pruners, PruneRead(p), Calm, Calm'
    PROVE  CalmInv'
<1> USE DEF LedgerInv
<1>1. Busy = {} /\ Rewriting = {}
  <2>1. Pruning = {} /\ Updating = {}
    BY DEF PruneRead, Calm
  <2> QED BY <2>1 DEF Busy, Rewriting, Pruning, Updating, Writers
<1>2. left'[p] = Remaining(p) /\ \A v \in Writers : v # p => left'[v] = left[v]
  BY DEF PruneRead, TypeOK, Writers
<1>3. Remaining(p) \subseteq file
  BY DEF Remaining
<1>4. ASSUME NEW q \in owed', Lines(file, q) = Line(q)
      PROVE  q \in owed /\ Lines(Remaining(p), q) = Line(q)
  <2>1. q \in owed /\ \A e \in file : e.id = q => ~all[p] /\ e.status = "running"
    BY DEF PruneRead
  <2>2. Lines(Remaining(p), q) = Lines(file, q)
    BY <2>1 DEF Remaining, Lines
  <2> QED BY <2>1, <2>2, <1>4
<1>5. p \notin Runs /\ p \in Writers
  BY LedgerAssumption DEF Writers
<1>6. ASSUME NEW q \in Runs, Lines(file, q) = {} PROVE Lines(left'[p], q) = {}
  BY <1>2, <1>3, <1>6 DEF Lines
<1>7. \A q \in owed' : q \in Runs /\ q # p
  BY <1>5 DEF PruneRead, TypeOK
<1>8. /\ pc' = [pc EXCEPT ![p] = "read"] /\ pc[p] = "start"
      /\ UNCHANGED <<file, tail, touched, mark>> /\ owed' \subseteq owed
  BY DEF PruneRead, Goto, fileVars
<1> QED BY <1>1, <1>2, <1>4, <1>5, <1>6, <1>7, <1>8, CalmRead

LEMMA CalmTruncate ==
    ASSUME LedgerInv, NEW w \in Writers, Truncate(w), Calm, Calm'
    PROVE  CalmInv'
<1> USE DEF LedgerInv, TypeOK
<1>1. /\ pc' = [pc EXCEPT ![w] = "writing"] /\ pc[w] = "read" /\ file' = {}
      /\ tail' = Ended /\ UNCHANGED <<left, mark, owed>>
  BY DEF Truncate, Goto
<1>2. Busy = {w} /\ Rewriting = {}
  <2>1. w \in Busy
    BY <1>1 DEF Busy
  <2> QED BY <2>1, <1>1 DEF CalmInv, OneBusy, Busy, Rewriting
<1>3. Busy' = {w} /\ Rewriting' = {w}
  BY <1>1, <1>2 DEF Busy, Rewriting
<1>4. touched' = {}
  BY <1>2 DEF Truncate, CalmInv, Alone
<1>5. ASSUME NEW q \in owed
      PROVE  Line(q)' = IF q = w THEN {[id |-> q, status |-> mark[q]]} ELSE Line(q)
  BY <1>1 DEF Line, Written
<1>6. HalfWay'
  <2> SUFFICES ASSUME NEW q \in owed PROVE Lines(file' \cup left'[w], q) = Line(q)'
    BY <1>1, <1>3 DEF HalfWay, Lines
  <2>1. Lines(file' \cup left'[w], q) = Lines(left[w], q)
    BY <1>1 DEF Lines
  <2>2. Lines(left[w], q) = IF q = w THEN {[id |-> q, status |-> mark[q]]} ELSE Line(q)
    BY <1>1 DEF CalmInv, ReadRight
  <2> QED BY <2>1, <2>2, <1>5
<1>7. Unborn'
  <2> SUFFICES ASSUME NEW q \in Runs, pc'[q] \in {"start", "append"}
               PROVE  q \notin owed' /\ Lines(file', q) = {} /\ Lines(left'[w], q) = {}
    BY <1>3 DEF Unborn, Lines
  <2>1. pc[q] \in {"start", "append"}
    BY <1>1
  <2> QED BY <2>1, <1>1, <1>2 DEF CalmInv, Unborn, Lines
<1>8. OneBusy' /\ Alone' /\ AtRest'
  BY <1>1, <1>3, <1>4 DEF OneBusy, Alone, AtRest
<1>9. ReadRight'
  BY <1>3, <1>1 DEF ReadRight, Busy, Rewriting
<1> QED BY <1>6, <1>7, <1>8, <1>9 DEF CalmInv

LEMMA CalmWriteLine ==
    ASSUME LedgerInv, NEW w \in Writers, WriteLine(w), Calm, Calm'
    PROVE  CalmInv'
<1> USE DEF LedgerInv, TypeOK
<1>1. pc[w] = "writing" /\ UNCHANGED <<pc, mark, owed>>
  BY DEF WriteLine, history
<1>2. Busy = {w} /\ Rewriting = {w}
  BY <1>1 DEF CalmInv, OneBusy, Busy, Rewriting
<1>3. Busy' = {w} /\ Rewriting' = {w}
  BY <1>1, <1>2 DEF Busy, Rewriting
<1>4. touched = {} /\ touched' = {} /\ tail = Ended /\ tail' = Ended
  BY <1>2 DEF WriteLine, CalmInv, Alone
<1>5. PICK e \in left[w] : /\ left' = [left EXCEPT ![w] = @ \ {e}]
                           /\ file' = file \cup {e}
  BY <1>4 DEF WriteLine
<1>6. file' \cup left'[w] = file \cup left[w]
  BY <1>5
<1>7. ASSUME NEW q \in Runs PROVE Line(q)' = Line(q)
  BY <1>1 DEF Line, Written
<1>8. HalfWay'
  <2> SUFFICES ASSUME NEW q \in owed PROVE Lines(file' \cup left'[w], q) = Line(q)'
    BY <1>1, <1>3 DEF HalfWay, Lines
  <2>1. Lines(file \cup left[w], q) = Line(q)
    BY <1>2 DEF CalmInv, HalfWay
  <2> QED BY <2>1, <1>6, <1>7
<1>9. Unborn'
  <2> SUFFICES ASSUME NEW q \in Runs, pc[q] \in {"start", "append"}
               PROVE  q \notin owed /\ Lines(file', q) = {} /\ Lines(left'[w], q) = {}
    BY <1>1, <1>3 DEF Unborn, Lines
  <2>1. q \notin owed /\ Lines(file, q) = {} /\ Lines(left[w], q) = {}
    BY <1>2 DEF CalmInv, Unborn
  <2> QED BY <2>1, <1>5 DEF Lines
<1>10. OneBusy' /\ Alone' /\ AtRest'
  BY <1>3, <1>4 DEF OneBusy, Alone, AtRest
<1>11. ReadRight'
  BY <1>3, <1>1 DEF ReadRight, Busy
<1> QED BY <1>8, <1>9, <1>10, <1>11 DEF CalmInv

LEMMA CalmEndWrite ==
    ASSUME LedgerInv, NEW w \in Writers, EndWrite(w), Calm, Calm'
    PROVE  CalmInv'
<1> USE DEF LedgerInv, TypeOK
<1>1. /\ pc[w] = "writing" /\ pc' = [pc EXCEPT ![w] = "done"] /\ left[w] = {}
      /\ UNCHANGED <<file, tail, left, mark, owed>>
  BY DEF EndWrite, Goto, history
<1>2. Busy = {w} /\ Rewriting = {w}
  BY <1>1 DEF CalmInv, OneBusy, Busy, Rewriting
<1>3. Busy' = {} /\ Rewriting' = {}
  BY <1>1, <1>2 DEF Busy, Rewriting
<1>4. ASSUME NEW q \in Runs PROVE Line(q)' = Line(q)
  BY <1>1 DEF Line, Written
<1>5. AtRest'
  <2> SUFFICES ASSUME NEW q \in owed PROVE Lines(file, q) = Line(q)'
    BY <1>1 DEF AtRest, Lines
  <2>1. Lines(file \cup left[w], q) = Line(q)
    BY <1>2 DEF CalmInv, HalfWay
  <2>2. file \cup left[w] = file
    BY <1>1
  <2> QED BY <2>1, <2>2, <1>4
<1>6. Unborn'
  <2> SUFFICES ASSUME NEW q \in Runs, pc'[q] \in {"start", "append"}
               PROVE  q \notin owed /\ Lines(file, q) = {}
    BY <1>1, <1>3 DEF Unborn, Lines
  <2>1. pc[q] \in {"start", "append"}
    BY <1>1
  <2> QED BY <2>1 DEF CalmInv, Unborn
<1>7. OneBusy' /\ Alone' /\ HalfWay' /\ ReadRight'
  <2>1. touched' = {}
    BY DEF EndWrite, CalmInv, Alone
  <2> QED BY <2>1, <1>1, <1>3 DEF OneBusy, Alone, HalfWay, ReadRight, Busy, CalmInv
<1> QED BY <1>5, <1>6, <1>7 DEF CalmInv

-----------------------------------------------------------------------------

LEMMA LedgerInit == Init => LedgerInv
<1> SUFFICES ASSUME Init PROVE LedgerInv
  OBVIOUS
<1>1. TypeOK
  BY TypeInit
<1>2. Busy = {} /\ Rewriting = {}
  BY DEF Init, Busy, Rewriting
<1>3. LockHeld /\ Undecided
  BY DEF Init, LockHeld, Undecided, Writers
<1>4. OneBusy /\ Alone /\ AtRest /\ HalfWay /\ ReadRight
  BY <1>2 DEF Init, OneBusy, Alone, AtRest, HalfWay, ReadRight, Busy
<1>5. Unborn
  BY <1>2 DEF Init, Unborn, Lines
<1> QED BY <1>1, <1>3, <1>4, <1>5 DEF LedgerInv, CalmInv

LEMMA LedgerStep == LedgerInv /\ [Next]_vars => LedgerInv'
<1> SUFFICES ASSUME LedgerInv, [Next]_vars PROVE LedgerInv'
  OBVIOUS
<1>1. TypeOK' /\ LockHeld' /\ Undecided'
  BY TypeStep, LockStep, UndecidedStep DEF LedgerInv
<1> SUFFICES ASSUME Calm' PROVE CalmInv'
  BY <1>1 DEF LedgerInv
<1>2. ASSUME NEW r \in Runs, AppendCut(r) PROVE FALSE
  BY <1>2 DEF AppendCut, Calm, LedgerInv, TypeOK
<1>3. ASSUME NEW w \in Writers, WriteCut(w) PROVE FALSE
  BY <1>3 DEF WriteCut, Calm, LedgerInv, TypeOK
<1>4. ASSUME NEW r \in Runs,
             Trigger(r) \/ AppendFails(r) \/ Poll(r) \/ PollFails(r) \/ TimeOut(r) \/ UpdateFails(r)
      PROVE  CalmInv'
  <2>1. Calm
    BY <1>4 DEF Trigger, AppendFails, Poll, PollFails, TimeOut, UpdateFails, Calm, history
  <2> QED BY <2>1, <1>4, QuietRuns DEF LedgerInv
<1>5. ASSUME NEW r \in Runs, Append(r) PROVE CalmInv'
  <2>1. Calm
    BY <1>5 DEF Append, Calm
  <2> QED BY <2>1, <1>5, CalmAppend
<1>6. ASSUME NEW r \in Runs, UpdateRead(r) PROVE CalmInv'
  <2>1. Calm
    BY <1>6 DEF UpdateRead, Calm
  <2> QED BY <2>1, <1>6, CalmUpdateRead
<1>7. ASSUME NEW p \in Pruners, PruneRead(p) PROVE CalmInv'
  <2>1. Calm
    BY <1>7 DEF PruneRead, Calm
  <2> QED BY <2>1, <1>7, CalmPruneRead
<1>8. ASSUME NEW w \in Writers, Truncate(w) PROVE CalmInv'
  <2>1. Calm
    BY <1>8 DEF Truncate, Calm
  <2> QED BY <2>1, <1>8, CalmTruncate
<1>9. ASSUME NEW w \in Writers, WriteLine(w) PROVE CalmInv'
  <2>1. Calm
    BY <1>9 DEF WriteLine, Calm, history
  <2> QED BY <2>1, <1>9, CalmWriteLine
<1>10. ASSUME NEW w \in Writers, EndWrite(w) PROVE CalmInv'
  <2>1. Calm
    BY <1>10 DEF EndWrite, Calm, history
  <2> QED BY <2>1, <1>10, CalmEndWrite
<1>11. CASE UNCHANGED vars
  <2>1. Calm
    BY <1>11 DEF vars, Calm
  <2> QED BY <2>1, <1>11, QuietStep DEF LedgerInv, vars, fileVars, Written
<1> QED BY <1>2, <1>3, <1>4, <1>5, <1>6, <1>7, <1>8, <1>9, <1>10, <1>11
        DEF Next, RunStep, WriteStep

LEMMA InvIsCurrent == LedgerInv => LedgerCurrent
<1> SUFFICES ASSUME LedgerInv, Calm, NEW r \in owed PROVE LinesOf(r) = Line(r)
  BY DEF LedgerCurrent, Calm, Line
<1>1. CASE Rewriting = {}
  <2>1. Content = file
    BY <1>1 DEF Content
  <2> QED BY <1>1, <2>1 DEF LinesOf, Lines, LedgerInv, CalmInv, AtRest
<1>2. CASE Rewriting # {}
  <2>1. PICK w \in Rewriting : TRUE
    BY <1>2
  <2>2. Rewriting = {w}
    BY DEF LedgerInv, CalmInv, OneBusy, Busy, Rewriting
  <2>3. Content = file \cup left[w]
    BY <2>2 DEF Content
  <2> QED BY <2>1, <2>3 DEF LinesOf, Lines, LedgerInv, CalmInv, HalfWay
<1> QED BY <1>1, <1>2

\* Any number of commands append, update and prune: as long as no prune overlaps
\* with another writer and no write is cut short, every recorded run has exactly
\* its own line with the status it wrote last.
THEOREM NothingLost == Spec => []LedgerCurrent
BY LedgerInit, LedgerStep, InvIsCurrent, PTL DEF Spec

-----------------------------------------------------------------------------
(* What the ledger says of a job that ended.                                *)

TrueOf(m, s) == (m = "completed" => s = "Completed") /\ (m = "failed" => s = "Failed")
Lasting == {"Completed", "Failed"}

\* Everything written, about to be written or decided is true of the job, now and
\* later.
TruthInv ==
    /\ \A e \in file : TrueOf(e.status, job[e.id])
    /\ \A w \in Writers : \A e \in left[w] : TrueOf(e.status, job[e.id])
    /\ \A r \in Runs : TrueOf(mark[r], job[r])
    /\ \A r \in Runs : pc[r] = "start" => job[r] = "none"

LEMMA MarkIsTrue == ASSUME NEW s PROVE TrueOf(StatusMark(s), s)
BY DEF TrueOf, StatusMark

\* A job that moves on, but not out of a final state, and a true mark for it.
LEMMA JobMoves ==
    ASSUME TypeOK, TruthInv, NEW r \in Runs, NEW s, NEW m, TrueOf(m, s),
           job[r] \in Lasting => s = job[r],
           job' = [job EXCEPT ![r] = s], mark' = [mark EXCEPT ![r] = m],
           UNCHANGED <<file, left>>,
           pc'[r] # "start", \A q \in Runs : pc'[q] = "start" => pc[q] = "start"
    PROVE  TruthInv'
<1>1. ASSUME NEW x, NEW q \in Runs, TrueOf(x, job[q]) PROVE TrueOf(x, job'[q])
  BY <1>1 DEF TrueOf, Lasting, TypeOK
<1>2. \A e \in file : e.id \in Runs
  BY DEF TypeOK, Entries
<1>3. \A w \in Writers : \A e \in left[w] : e.id \in Runs
  BY DEF TypeOK, Entries
<1>4. \A e \in file' : TrueOf(e.status, job'[e.id])
  BY <1>1, <1>2 DEF TruthInv
<1>5. \A w \in Writers : \A e \in left'[w] : TrueOf(e.status, job'[e.id])
  BY <1>1, <1>3 DEF TruthInv
<1>6. \A q \in Runs : TrueOf(mark'[q], job'[q])
  BY <1>1 DEF TruthInv, TypeOK
<1>7. \A q \in Runs : pc'[q] = "start" => job'[q] = "none"
  BY DEF TruthInv, TypeOK
<1> QED BY <1>4, <1>5, <1>6, <1>7 DEF TruthInv

\* Lines move or are relabelled, nothing is decided.
LEMMA LinesMove ==
    ASSUME TypeOK, TruthInv, UNCHANGED <<job, mark>>,
           \A e \in file' : e \in file \/ TrueOf(e.status, job[e.id])
                           \/ \E w \in Writers : e \in left[w],
           \A w \in Writers : \A e \in left'[w] :
             e \in left[w] \/ e \in file \/ TrueOf(e.status, job[e.id]),
           \A q \in Runs : pc'[q] = "start" => pc[q] = "start"
    PROVE  TruthInv'
BY DEF TruthInv

LEMMA TruthStep == TypeOK /\ TruthInv /\ [Next]_vars => TruthInv'
<1> SUFFICES ASSUME TypeOK, TruthInv, [Next]_vars PROVE TruthInv'
  OBVIOUS
<1>0. \A q \in Runs : pc'[q] = "start" => pc[q] = "start"
  BY DEF TypeOK, Next, RunStep, WriteStep, Trigger, Append, AppendFails, AppendCut, Poll,
         PollFails, TimeOut, UpdateRead, UpdateFails, PruneRead, Truncate, WriteLine,
         EndWrite, WriteCut, AfterAppend, Goto, vars, Writers
<1>1. ASSUME NEW r \in Runs, Trigger(r) PROVE TruthInv'
  <2>1. UNCHANGED <<file, left, mark>> /\ job[r] = "none" /\ pc'[r] # "start"
    BY <1>1 DEF Trigger, fileVars, TruthInv, Goto, TypeOK, Writers
  <2>2. CASE job' = job
    BY <2>1, <2>2, <1>0, LinesMove
  <2>3. CASE job' = [job EXCEPT ![r] = "running"]
    <3>1. TrueOf(mark[r], "running")
      BY <2>1 DEF TruthInv, TrueOf
    <3>2. mark' = [mark EXCEPT ![r] = mark[r]]
      BY <2>1 DEF TypeOK
    <3> QED BY <2>1, <2>3, <3>1, <3>2, <1>0, JobMoves DEF Lasting
  <2> QED BY <1>1, <2>2, <2>3 DEF Trigger
<1>2. ASSUME NEW r \in Runs, Append(r) \/ AppendCut(r) PROVE TruthInv'
  <2>1. UNCHANGED <<job, mark, left>> /\ file' \subseteq file \cup {NewLine(r)}
    BY <1>2 DEF Append, AppendCut, Glue
  <2>2. TrueOf(NewLine(r).status, job[r])
    BY DEF NewLine, TrueOf
  <2> QED BY <2>1, <2>2, <1>0, LinesMove DEF NewLine
<1>3. ASSUME NEW r \in Runs, AppendFails(r) \/ PollFails(r) \/ UpdateFails(r) PROVE TruthInv'
  <2>1. UNCHANGED <<job, mark, left, file>>
    BY <1>3 DEF AppendFails, PollFails, UpdateFails, fileVars
  <2> QED BY <2>1, <1>0, LinesMove
<1>4. ASSUME NEW r \in Runs, Poll(r) PROVE TruthInv'
  <2>1. PICK s \in IF job[r] = "running" THEN JobStatus \ {"none"} ELSE {job[r]} :
          /\ job' = [job EXCEPT ![r] = s]
          /\ mark' = [mark EXCEPT ![r] = StatusMark(s)]
          /\ Goto(r, IF StatusMark(s) = "running" THEN "poll" ELSE "update")
    BY <1>4 DEF Poll
  <2>2. job[r] \in Lasting => s = job[r]
    BY <2>1 DEF Lasting
  <2>3. UNCHANGED <<file, left>> /\ pc'[r] # "start"
    BY <1>4, <2>1 DEF Poll, fileVars, Goto, TypeOK, Writers
  <2> QED BY <2>1, <2>2, <2>3, <1>0, MarkIsTrue, JobMoves
<1>5. ASSUME NEW r \in Runs, TimeOut(r) PROVE TruthInv'
  <2>1. PICK s : job' = [job EXCEPT ![r] = s] /\ (job[r] \in Lasting => s = job[r])
    BY <1>5 DEF TimeOut, TypeOK, Lasting
  <2>2. command[r].late \in {"cancelled", "timeout"}
    BY LedgerAssumption DEF TypeOK, Commands, JobSchedulerRun, NotebookRun, DataflowRun,
                            DataBuildToolRun
  <2>3. TrueOf(command[r].late, s)
    BY <2>2 DEF TrueOf
  <2>4. UNCHANGED <<file, left>> /\ pc'[r] # "start" /\ mark' = [mark EXCEPT ![r] = command[r].late]
    BY <1>5 DEF TimeOut, fileVars, Goto, TypeOK, Writers
  <2> QED BY <2>1, <2>3, <2>4, <1>0, JobMoves
<1>6. ASSUME NEW r \in Runs, UpdateRead(r) PROVE TruthInv'
  <2>1. UNCHANGED <<file, job, mark>> /\ left' = [left EXCEPT ![r] = Relabelled(r)]
    BY <1>6 DEF UpdateRead, fileVars
  <2>2. ASSUME NEW e \in Relabelled(r) PROVE e \in file \/ TrueOf(e.status, job[e.id])
    <3>1. PICK f \in file : e = IF f.id = r THEN [f EXCEPT !.status = mark[r]] ELSE f
      BY DEF Relabelled
    <3>2. CASE f.id = r
      <4>1. e.status = mark[r] /\ e.id = r
        BY <3>1, <3>2 DEF TypeOK, Entries
      <4> QED BY <4>1 DEF TruthInv
    <3> QED BY <3>1, <3>2
  <2>3. \A w \in Writers : \A e \in left'[w] :
          e \in left[w] \/ e \in file \/ TrueOf(e.status, job[e.id])
    BY <2>1, <2>2 DEF TypeOK
  <2> QED BY <2>1, <2>3, <1>0, LinesMove
<1>7. ASSUME NEW p \in Pruners, PruneRead(p) PROVE TruthInv'
  <2>1. UNCHANGED <<file, job, mark>> /\ left' = [left EXCEPT ![p] = Remaining(p)]
    BY <1>7 DEF PruneRead, fileVars
  <2>2. Remaining(p) \subseteq file
    BY DEF Remaining
  <2>3. \A w \in Writers : \A e \in left'[w] : e \in left[w] \/ e \in file
    BY <2>1, <2>2 DEF TypeOK
  <2> QED BY <2>1, <2>3, <1>0, LinesMove
<1>8. ASSUME NEW w \in Writers, WriteStep(w) PROVE TruthInv'
  <2>1. UNCHANGED <<job, mark>>
    BY <1>8 DEF WriteStep, Truncate, WriteLine, EndWrite, WriteCut
  <2>2. \A e \in file' : e \in file \/ e \in left[w]
    BY <1>8 DEF WriteStep, Truncate, WriteLine, EndWrite, WriteCut
  <2>3. \A v \in Writers : \A e \in left'[v] : e \in left[v]
    BY <1>8 DEF WriteStep, Truncate, WriteLine, EndWrite, WriteCut, TypeOK
  <2> QED BY <2>1, <2>2, <2>3, <1>0, LinesMove
<1>9. CASE UNCHANGED vars
  BY <1>9 DEF vars, TruthInv
<1> QED BY <1>1, <1>2, <1>3, <1>4, <1>5, <1>6, <1>7, <1>8, <1>9 DEF Next, RunStep

LEMMA TruthInit == Init => TruthInv
<1> SUFFICES ASSUME Init PROVE TruthInv
  OBVIOUS
<1>1. \A r \in Runs : mark[r] = "running" /\ job[r] = "none"
  BY DEF Init
<1>2. file = {} /\ \A w \in Writers : left[w] = {}
  BY DEF Init
<1> QED BY <1>1, <1>2 DEF TruthInv, TrueOf

\* Whatever overlaps, breaks off or fails, a job the ledger calls completed or
\* failed is completed or failed in the service.
THEOREM LedgerTruthful == Spec => []FinalStatusTrue
<1>1. TypeOK /\ TruthInv => FinalStatusTrue
  BY DEF FinalStatusTrue, TruthInv, TrueOf, Content, Rewriting
<1> QED BY <1>1, TypeInit, TypeStep, TruthInit, TruthStep, PTL DEF Spec

=============================================================================
