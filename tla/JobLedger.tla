------------------------------- MODULE JobLedger -------------------------------
(***************************************************************************)
(* The job ledger ~/.fabio/jobs.jsonl (jobs.rs) and the processes that share *)
(* it: commands that start a job, append a line, poll the job and update the *)
(* line at its end (job-scheduler, notebook, dataflow, data-build-tool-job), *)
(* and `jobs prune`.  Append and update hold the advisory lock; prune does   *)
(* not take it.                                                             *)
(*                                                                          *)
(* Simplified: the ledger is a set of lines (their order only matters to     *)
(* `jobs list`), an entry is its job and its status.  A line is written by   *)
(* one call and its newline by another, so a process that dies between them  *)
(* leaves a last line that the next append runs into.  Two writers at a time *)
(* overwrite each other's bytes: which lines survive that is a choice.       *)
(***************************************************************************)
EXTENDS FiniteSets, Integers

CONSTANTS Runs,        \* processes that run a job; the job has the same name
          Pruners,     \* processes that prune
          Asked,       \* what the runs may be asked to do
          MaxStops     \* processes that die or fail in the middle of a write

Writers == Runs \cup Pruners

JobStatus == {"none", "running", "Completed", "Failed", "Cancelled", "Deduped"}
FinalMarks == {"completed", "failed", "cancelled", "timeout"}
Marks == FinalMarks \cup {"running"}
Entries == [id : Runs, status : Marks]

\* No last line without a newline; one that is already unreadable.
Ended == [id |-> "none", status |-> "ended"]
Garbage == [id |-> "none", status |-> "garbage"]
Nobody == "nobody"

\* What differs between the commands that run a job: whether they wait, whether
\* they cancel at the timeout, and the status they then record.
JobSchedulerRun(w, c) == [wait |-> w, cancel |-> c,
                          late |-> IF c THEN "cancelled" ELSE "timeout"]
NotebookRun(w, c) == [wait |-> w, cancel |-> c, late |-> "timeout"]
DataflowRun(w, c) == [wait |-> w, cancel |-> c,
                      late |-> IF c THEN "cancelled" ELSE "timeout"]
DataBuildToolRun(w, c) == [wait |-> w, cancel |-> c,
                           late |-> IF c THEN "cancelled" ELSE "timeout"]
Commands == UNION {{JobSchedulerRun(w, c), NotebookRun(w, c),
                    DataflowRun(w, c), DataBuildToolRun(w, c)} :
                      w \in BOOLEAN, c \in BOOLEAN}

ASSUME LedgerAssumption == /\ Runs \cap Pruners = {} /\ Nobody \notin Runs
                           /\ Asked \subseteq [Runs -> Commands]
                           /\ MaxStops \in Nat

VARIABLES
    command,   \* what each run was asked
    all,       \* --include-running, per prune
    file,      \* the readable lines of the ledger
    tail,      \* the last line, if its newline is missing
    lock,      \* holder of the advisory lock
    pc,        \* where each process is
    left,      \* the lines a rewriting process has yet to write
    mark,      \* the status a run wants to record
    job,       \* the job in the service
    touched,   \* writers in write_all that are not alone with the file any more
    owed,      \* history: runs that were recorded and not pruned on purpose
    raced,     \* history: a prune overlapped with another writer
    stops      \* history: writes that were never finished

vars == <<command, all, file, tail, lock, pc, left, mark, job, touched,
          owed, raced, stops>>
fileVars == <<file, tail, touched>>
config == <<command, all>>
history == <<owed, raced, stops>>

Pruning == {p \in Pruners : pc[p] \in {"read", "writing"}}
Updating == {r \in Runs : pc[r] \in {"read", "writing"}}
Rewriting == {w \in Writers : pc[w] = "writing"}

Init == /\ command \in Asked
        /\ all \in [Pruners -> BOOLEAN]
        /\ file = {} /\ tail = Ended /\ lock = Nobody /\ touched = {}
        /\ pc = [w \in Writers |-> "start"]
        /\ left = [w \in Writers |-> {}]
        /\ mark = [r \in Runs |-> "running"]
        /\ job = [r \in Runs |-> "none"]
        /\ owed = {} /\ raced = FALSE /\ stops = 0

-----------------------------------------------------------------------------
(* A command that runs a job.                                               *)

Goto(w, label) == pc' = [pc EXCEPT ![w] = label]

\* The job is started in the service, or the request fails and the command ends.
Trigger(r) ==
    /\ pc[r] = "start"
    /\ \/ Goto(r, "append") /\ job' = [job EXCEPT ![r] = "running"]
       \/ Goto(r, "done") /\ UNCHANGED job
    /\ UNCHANGED <<config, fileVars, lock, left, mark, history>>

NewLine(r) == [id |-> r, status |-> "running"]
AfterAppend(r) == IF command[r].wait THEN "poll" ELSE "done"

\* The bytes of a line at the end of the file: a last line that had no newline
\* becomes unreadable together with the new one.
Glue(e) == IF tail = Ended THEN file \cup {e} ELSE file \ {tail}

\* JobLedger::append: open, lock, write, newline.  Its error is ignored.
Append(r) ==
    /\ pc[r] = "append" /\ lock = Nobody
    /\ file' = Glue(NewLine(r)) /\ tail' = Ended
    /\ owed' = IF tail = Ended THEN owed \cup {r} ELSE owed
    /\ touched' = touched \cup Rewriting
    /\ raced' = (raced \/ Pruning # {})
    /\ Goto(r, AfterAppend(r))
    /\ UNCHANGED <<config, lock, left, mark, job, stops>>

AppendFails(r) ==
    /\ pc[r] = "append"
    /\ Goto(r, AfterAppend(r))
    /\ UNCHANGED <<config, fileVars, lock, left, mark, job, history>>

\* The process dies between the line and its newline.
AppendCut(r) ==
    /\ pc[r] = "append" /\ lock = Nobody /\ stops < MaxStops
    /\ file' = Glue(NewLine(r))
    /\ tail' = IF tail = Ended THEN NewLine(r) ELSE Garbage
    /\ touched' = touched \cup Rewriting
    /\ stops' = stops + 1
    /\ raced' = (raced \/ Pruning # {})
    /\ Goto(r, "dead")
    /\ UNCHANGED <<config, lock, left, mark, job, owed>>

\* Mutant: a Deduped job is taken for a completed one.
StatusMarkDeduped(s) == CASE s \in {"Completed", "Deduped"} -> "completed"
                          [] s = "Failed" -> "failed"
                          [] s = "Cancelled" -> "cancelled"
                          [] OTHER -> "running"

\* One turn of the wait loop: the status of the job decides.  Deduped, like any
\* status that is not listed, keeps the loop going; a request that fails ends
\* the command with the ledger as it is.
StatusMark(s) == CASE s = "Completed" -> "completed"
                   [] s = "Failed" -> "failed"
                   [] s = "Cancelled" -> "cancelled"
                   [] OTHER -> "running"

\* The service ends a job when it pleases, or somebody cancels it there; a poll
\* is where the command sees it.
Poll(r) ==
    /\ pc[r] = "poll"
    /\ \E s \in IF job[r] = "running" THEN JobStatus \ {"none"} ELSE {job[r]} :
         /\ job' = [job EXCEPT ![r] = s]
         /\ mark' = [mark EXCEPT ![r] = StatusMark(s)]
         /\ Goto(r, IF StatusMark(s) = "running" THEN "poll" ELSE "update")
    /\ UNCHANGED <<config, fileVars, lock, left, history>>

PollFails(r) ==
    /\ pc[r] = "poll"
    /\ Goto(r, "done")
    /\ UNCHANGED <<config, fileVars, lock, left, mark, job, history>>

\* The time is over, which may be so at any turn.  The answer to the cancel
\* request is ignored: the service may have cancelled the job or not.
TimeOut(r) ==
    /\ pc[r] = "poll"
    /\ job' \in {job} \cup
         IF command[r].cancel /\ job[r] = "running"
           THEN {[job EXCEPT ![r] = "Cancelled"]} ELSE {}
    /\ mark' = [mark EXCEPT ![r] = command[r].late]
    /\ Goto(r, "update")
    /\ UNCHANGED <<config, fileVars, lock, left, history>>

Relabelled(r) == {IF e.id = r THEN [e EXCEPT !.status = mark[r]] ELSE e : e \in file}

\* Mutant: the lines are read before the lock is taken.
UpdateReadUnlocked(r) ==
    /\ pc[r] = "update"
    /\ left' = [left EXCEPT ![r] = Relabelled(r)]
    /\ lock' = r
    /\ raced' = (raced \/ Pruning # {})
    /\ Goto(r, "read")
    /\ UNCHANGED <<config, fileVars, mark, job, owed, stops>>

\* JobLedger::update: lock, read_all, change the status of the run's line.
UpdateRead(r) ==
    /\ pc[r] = "update" /\ lock = Nobody
    /\ lock' = r
    /\ left' = [left EXCEPT ![r] = Relabelled(r)]
    /\ raced' = (raced \/ Pruning # {})
    /\ Goto(r, "read")
    /\ UNCHANGED <<config, fileVars, mark, job, owed, stops>>

\* The file cannot be opened or locked: the error is ignored.
UpdateFails(r) ==
    /\ pc[r] = "update"
    /\ Goto(r, "unsaved")
    /\ UNCHANGED <<config, fileVars, lock, left, mark, job, history>>

-----------------------------------------------------------------------------
(* write_all: truncate, then line by line at an offset of its own.           *)

Truncate(w) ==
    /\ pc[w] = "read"
    /\ file' = {} /\ tail' = Ended
    /\ touched' = touched \cup Rewriting \cup (IF Rewriting = {} THEN {} ELSE {w})
    /\ Goto(w, "writing")
    /\ UNCHANGED <<config, lock, left, mark, job, owed, raced, stops>>

WriteLine(w) ==
    /\ pc[w] = "writing"
    /\ \E e \in left[w] :
         /\ left' = [left EXCEPT ![w] = @ \ {e}]
         /\ IF w \in touched THEN file' \in SUBSET (file \cup {e})
                             ELSE file' = file \cup {e}
    /\ tail' = IF tail \in file' THEN tail ELSE Ended
    /\ touched' = touched \cup (Rewriting \ {w})
    /\ UNCHANGED <<config, lock, pc, mark, job, history>>

\* Mutant: the lock outlives the update.
ReleaseLate(w) == UNCHANGED lock

\* The lock goes with the file handle that took it.
Release(w) == lock' = IF lock = w THEN Nobody ELSE lock

EndWrite(w) ==
    /\ pc[w] = "writing" /\ left[w] = {}
    /\ touched' = touched \ {w}
    /\ Release(w)
    /\ Goto(w, "done")
    /\ UNCHANGED <<config, file, tail, left, mark, job, history>>

\* The process dies, or a write fails, with lines left: they are gone.  A death
\* between a line and its newline leaves that line as the last one.
WriteCut(w) ==
    /\ pc[w] \in {"read", "writing"} /\ stops < MaxStops
    /\ stops' = stops + 1
    /\ left' = [left EXCEPT ![w] = {}]
    /\ touched' = touched \ {w}
    /\ Release(w)
    /\ tail' \in {tail} \cup (IF pc[w] = "writing" THEN file ELSE {})
    /\ Goto(w, "dead")
    /\ UNCHANGED <<config, file, mark, job, owed, raced>>

-----------------------------------------------------------------------------
(* jobs prune                                                               *)

Remaining(p) == IF all[p] THEN {} ELSE {e \in file : e.status = "running"}

PruneRead(p) ==
    /\ pc[p] = "start"
    /\ left' = [left EXCEPT ![p] = Remaining(p)]
    /\ owed' = {r \in owed : \A e \in file :
                   e.id = r => ~all[p] /\ e.status = "running"}
    /\ raced' = (raced \/ Updating # {} \/ Pruning # {})
    /\ Goto(p, "read")
    /\ UNCHANGED <<config, fileVars, lock, mark, job, stops>>

-----------------------------------------------------------------------------

RunStep(r) == \/ Trigger(r)    \/ Append(r)    \/ AppendFails(r) \/ AppendCut(r)
              \/ Poll(r)       \/ PollFails(r) \/ TimeOut(r)
              \/ UpdateRead(r) \/ UpdateFails(r)
WriteStep(w) == \/ Truncate(w) \/ WriteLine(w) \/ EndWrite(w) \/ WriteCut(w)

Next == \/ \E r \in Runs : RunStep(r)
        \/ \E p \in Pruners : PruneRead(p)
        \/ \E w \in Writers : WriteStep(w)

Spec == Init /\ [][Next]_vars

\* A process that can go on does, and the time to wait runs out; jobs need not
\* end.
Fairness == /\ \A r \in Runs : WF_vars(RunStep(r)) /\ WF_vars(TimeOut(r))
            /\ \A w \in Writers : WF_vars(WriteStep(w))
FairSpec == Spec /\ Fairness

-----------------------------------------------------------------------------
(* Properties                                                               *)

\* Every variable of the ledger and its writers has its type.
TypeOK ==
    /\ command \in Asked
    /\ all \in [Pruners -> BOOLEAN]
    /\ file \subseteq Entries
    /\ tail \in Entries \cup {Ended, Garbage}
    /\ lock \in Runs \cup {Nobody}
    /\ pc \in [Writers -> {"start", "append", "poll", "update", "read",
                           "writing", "done", "unsaved", "dead"}]
    /\ left \in [Writers -> SUBSET Entries]
    /\ mark \in [Runs -> Marks]
    /\ job \in [Runs -> JobStatus]
    /\ touched \subseteq Writers
    /\ owed \subseteq Runs
    /\ raced \in BOOLEAN /\ stops \in 0 .. MaxStops

\* The ledger, with what a process in write_all is about to put back.
Content == file \cup UNION {left[w] : w \in Rewriting}
LinesOf(r) == {e \in Content : e.id = r}
\* The status a run wrote last.
Written(r) == IF pc[r] \in {"writing", "done"} THEN mark[r] ELSE "running"

\* As long as no prune overlapped with another writer and no write was cut
\* short, every run that was recorded has exactly one line, with the status it
\* wrote last, unless a prune removed it on purpose: appends and updates of any
\* number of processes lose nothing to each other.
LedgerCurrent ==
    ~raced /\ stops = 0 =>
      \A r \in owed : LinesOf(r) = {[id |-> r, status |-> Written(r)]}

\* Whatever overlaps or breaks off, a job the ledger calls completed or failed
\* is one that the service completed or failed.
FinalStatusTrue ==
    \A e \in Content :
      /\ e.status = "completed" => job[e.id] = "Completed"
      /\ e.status = "failed" => job[e.id] = "Failed"

\* Every command that was started ends, with the lock free again, even if
\* another process died holding it and whatever the job does.
CommandsEnd ==
    \A r \in Runs :
      pc[r] # "start" ~> pc[r] \in {"done", "unsaved", "dead"} /\ lock # r

=============================================================================
