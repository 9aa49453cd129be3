------------------------------- MODULE PollWait -------------------------------
(***************************************************************************)
(* The loops in which a command waits for an operation of the service:        *)
(* poll_lro_impl and handle_bytes_lro_response (client.rs), run_and_wait      *)
(* (item_job.rs), the waits of spark_livy.rs and powerbi_export.rs, and       *)
(* follow_stream (follow.rs).  Each checks a deadline, sleeps and polls, in    *)
(* an order of its own, and clamps different parts of that to the deadline.   *)
(*                                                                          *)
(* Time is the time since the loop began.  External: the operation, how long  *)
(* a request takes (at least one unit, at most the time-out of the client) and *)
(* the token for it, which moment of that time an answer describes, whether    *)
(* it states the state at all, and the Retry-After headers.                    *)
(***************************************************************************)
EXTENDS Integers

CONSTANTS Shapes,        \* the loops at work
          Limits,        \* the values of the time-out
          Ends,          \* when the operation may end
          Headers,       \* values of a Retry-After header
          Pause,         \* the time between polls without a header
          MaxPause,      \* the most a Retry-After header is worth: 60 s
          MaxAnswer,     \* the client's time-out of one request: 60 s
          MaxToken,      \* the most the credential chain takes for a token
          Backoff,       \* between the requests of a get or post: 1 + 2 + 3 s
          MaxPark,       \* the most a post waits when it is throttled: 300 s
          RefreshAfter,  \* LRO polls take a new token after 4 min
          Margin         \* what a token is taken to be good for at least:
                         \* TOKEN_REFRESH_MARGIN, of the expiry fabio knows

ASSUME WaitAssumption ==
    /\ Shapes \subseteq {"lro", "bytes", "item", "session", "statement", "export", "follow"}
    /\ Limits \subseteq Nat /\ Ends \subseteq Nat /\ Headers \subseteq Nat
    /\ Pause \in Nat \ {0} /\ MaxPause \in Nat /\ Pause <= MaxPause
    /\ MaxAnswer \in Nat \ {0} /\ MaxToken \in Nat /\ Backoff \in Nat /\ MaxPark \in Nat
    /\ RefreshAfter \in Nat /\ Margin \in Nat /\ RefreshAfter < Margin

VARIABLES
    shape, limit,
    cancelling,  \* --cancel-on-timeout
    ends, how,   \* when the operation ends, and in which state
    clock,
    pc,
    pause,       \* poll_interval
    started,     \* when the last poll was sent
    until,       \* when the token of the loop expires
    verdict,     \* what the loop returns
    asked,       \* history: when the last poll was sent that was told a state
    mute         \* history: a poll had an error or no state for an answer

vars == <<shape, limit, cancelling, ends, how, clock, pc, pause, started, until,
          verdict, asked, mute>>
config == <<shape, limit, cancelling>>
operation == <<ends, how>>
history == <<asked, mute>>

Least(a, b) == IF a < b THEN a ELSE b

\* A Retry-After header, capped so that it cannot stall the command.
Capped(h) == Least(h, MaxPause)

\* The first header of an item's job is only bounded by the time that remains.
FirstPauses == CASE shape \in {"lro", "bytes"} -> {Pause} \cup {Capped(h) : h \in Headers}
                 [] shape = "item" -> {Pause} \cup Headers
                 [] OTHER -> {Pause}

\* Where in the cycle a loop begins.
First == CASE shape = "item" -> "sleep"
           [] shape \in {"session", "statement", "export"} -> "poll"
           [] OTHER -> "check"

Init == /\ shape \in Shapes /\ limit \in Limits
        /\ cancelling \in BOOLEAN /\ (cancelling => shape = "item")
        /\ ends \in Ends /\ how \in {"succeeded", "failed", "cancelled"}
        /\ clock = 0
        /\ pc = First
        /\ pause \in FirstPauses
        /\ started = 0
        /\ until = Margin
        /\ verdict = "none"
        /\ asked = -1 /\ mute = FALSE

\* Jobs and streams poll between the check and the sleep, the others after the sleep.
Following(step) ==
    IF shape \in {"item", "follow"}
      THEN CASE step = "check" -> "poll" [] step = "poll" -> "sleep" [] OTHER -> "check"
      ELSE CASE step = "check" -> "sleep" [] step = "sleep" -> "poll" [] OTHER -> "check"

\* Mutant: a check that lets the loop go on takes it back to its head.
AfterHead(step) == IF step = "check" THEN First ELSE Following(step)

\* The step that follows on one that decided nothing.
After(step) == Following(step)

Return(v) == verdict' = v /\ pc' = "done"

\* How long a poll, or the request for a result, may take: LRO polls are single
\* requests, get_powerbi repeats one after a 401, get one after a 401 or three after
\* 502 - 504, each with a token.
PollTime == CASE shape \in {"lro", "bytes"} -> MaxAnswer
              [] shape = "export" -> 2 * (MaxToken + MaxAnswer)
              [] OTHER -> 4 * (MaxToken + MaxAnswer) + Backoff

\* A post repeats three requests that are throttled, three after 502 - 504 and one
\* after a 401.
CancelTime == 8 * (MaxToken + MaxAnswer) + 3 * MaxPark + Backoff

-----------------------------------------------------------------------------
(* The deadline                                                              *)

\* Mutant: no poll is begun that might end after the deadline.
LateAhead(t) == t + PollTime > limit

Late(t) == IF shape \in {"lro", "bytes"} THEN t > limit ELSE t >= limit

\* A job that is given up may be cancelled on the way out; the command waits for
\* the answer, but whether the service did it is not looked at.
CancelJob == \E d \in 0 .. IF cancelling THEN CancelTime ELSE 0 :
    /\ clock' = clock + d
    /\ \/ UNCHANGED operation
       \/ /\ cancelling /\ ends > clock
          /\ ends' \in clock .. Least(clock', ends) /\ how' = "cancelled"

Check ==
    /\ pc = "check"
    /\ \/ Late(clock) /\ Return("timeout") /\ CancelJob
       \/ ~Late(clock) /\ pc' = After("check") /\ UNCHANGED <<clock, operation, verdict>>
    /\ UNCHANGED <<config, pause, started, until, history>>

-----------------------------------------------------------------------------
(* The sleep                                                                 *)

\* Mutant: the sleep is never cut short.
WokenLate(t) == t + pause

\* A job and a stream sleep no longer than until the deadline, a stream counts its
\* interval from the start of the last poll.
Woken(t) ==
    CASE shape = "item" -> IF t >= limit THEN t ELSE Least(t + pause, limit)
      [] shape = "follow" -> IF Least(started + pause, limit) < t THEN t
                             ELSE Least(started + pause, limit)
      [] OTHER -> t + pause

\* LRO polls ask for a token again once the first one may be about to expire.
Renews(t) == shape = "lro" /\ t > RefreshAfter

\* Mutant: the token of the first poll is used to the end.
TokenKept(t) == until

TokenUntil(t) == IF Renews(Woken(clock)) THEN t + Margin ELSE until

\* The moments at which the sleep, and the token for the next poll where one is
\* asked for, may be over.
Rested == Woken(clock) .. Woken(clock) + (IF Renews(Woken(clock)) THEN MaxToken ELSE 0)

Sleep ==
    /\ pc = "sleep"
    /\ \E t \in Rested : clock' = t /\ until' = TokenUntil(t)
    /\ pause' = IF shape = "item" THEN Pause ELSE pause
    /\ pc' = After("sleep")
    /\ UNCHANGED <<config, operation, started, verdict, history>>

\* An LRO poll whose token cannot be renewed gives up.
NoCredential ==
    /\ pc = "sleep" /\ Renews(Woken(clock))
    /\ clock' \in Rested
    /\ Return("error")
    /\ UNCHANGED <<config, operation, pause, started, until, history>>

-----------------------------------------------------------------------------
(* The poll                                                                  *)

StateAt(t) == IF ends <= t THEN how ELSE "running"

\* What may be answered to a poll of that time: an error, also for a token that
\* has expired, a success without a status that can be read, or a state.  A poll for
\* bytes is told by the status code, 202 or 200, of which the service is trusted.
Answers(d) ==
    CASE shape # "bytes" -> {"error", "blank"} \cup {StateAt(t) : t \in clock .. clock + d}
      [] shape = "bytes" /\ clock < until -> {"error"} \cup {StateAt(t) : t \in clock .. clock + d}
      [] OTHER -> {"error"}

\* States that a loop does not know are polled on, jobs and streams survive errors.
GoesOn(a) == \/ a = "running"
             \/ a = "blank"
             \/ a = "cancelled" /\ shape \in {"lro", "export"}
             \/ a = "error" /\ shape \in {"item", "follow"}

\* An LRO's 202 without a status is polled on, its 200 or 201 is the result.
Decides(a) == ~GoesOn(a) \/ (a = "blank" /\ shape = "lro")

\* Mutant: whatever ended has succeeded.
VerdictLoose(a) == IF a = "error" THEN {"error"} ELSE {"succeeded"}

\* A stream and a statement are over, which is all the loop says of them: a
\* statement is printed with the state it ended in, and only one whose output says
\* error makes the command fail.
VerdictOf(a) ==
    CASE a = "error" -> {"error"}
      [] a = "blank" -> {"taken"}
      [] a \notin {"error", "blank"} /\ shape = "follow" -> {"complete"}
      [] a \notin {"error", "blank"} /\ shape = "statement" ->
           {"complete"} \cup (IF a = "failed" THEN {"failed"} ELSE {})
      [] OTHER -> IF a = "succeeded" THEN {"succeeded"} ELSE {"failed"}

\* A finished LRO may name its result, a finished export has a file to download.
MayFetch(a) == a = "succeeded" /\ shape \in {"lro", "export"}

Poll ==
    /\ pc = "poll"
    /\ \E d \in 1 .. PollTime :
         /\ shape = "follow" => clock + d < limit
         /\ clock' = clock + d
         /\ \E a \in Answers(d) :
              /\ asked' = IF a \in {"error", "blank"} THEN asked ELSE clock
              /\ mute' = (mute \/ a \in {"error", "blank"})
              /\ \/ /\ GoesOn(a)
                    /\ pc' = After("poll")
                    /\ \/ UNCHANGED pause
                       \/ shape = "lro" /\ \E h \in Headers : pause' = Capped(h)
                    /\ UNCHANGED verdict
                 \/ MayFetch(a) /\ pc' = "fetch" /\ UNCHANGED <<pause, verdict>>
                 \/ /\ Decides(a) /\ (MayFetch(a) => shape = "lro")
                    /\ \E v \in VerdictOf(a) : Return(v)
                    /\ UNCHANGED pause
    /\ started' = clock
    /\ UNCHANGED <<config, operation, until>>

\* timeout_at: a stream drops the fetch that is under way at the deadline.
CutOff ==
    /\ pc = "poll" /\ shape = "follow" /\ clock + PollTime >= limit
    /\ clock' = limit
    /\ Return("timeout")
    /\ UNCHANGED <<config, operation, pause, started, until, history>>

\* The result or the file; an LRO makes do with its last status if there is an
\* answer but no result.
Fetch ==
    /\ pc = "fetch"
    /\ \E d \in 1 .. PollTime : clock' = clock + d
    /\ \/ Return("succeeded")
       \/ Return("error")
    /\ UNCHANGED <<config, operation, pause, started, until, history>>

Next == Check \/ Sleep \/ NoCredential \/ Poll \/ CutOff \/ Fetch

Spec == Init /\ [][Next]_vars

\* The runtime runs the loop: timers fire and requests are answered or time out.
FairSpec == Spec /\ WF_vars(Next)

-----------------------------------------------------------------------------
(* Properties                                                               *)

Verdicts == {"none", "succeeded", "failed", "complete", "taken", "error", "timeout"}

\* Types; but for the first pause of a job no header makes a loop pause for more
\* than the cap.
TypeOK ==
    /\ shape \in Shapes /\ limit \in Limits /\ cancelling \in BOOLEAN
    /\ ends \in Nat /\ how \in {"succeeded", "failed", "cancelled"}
    /\ clock \in Nat
    /\ pc \in {"check", "sleep", "poll", "fetch", "done"}
    /\ pause \in Nat /\ (shape # "item" => pause <= MaxPause)
    /\ started \in Nat
    /\ until \in Nat
    /\ verdict \in Verdicts
    /\ asked \in Nat \cup {-1}
    /\ mute \in BOOLEAN

\* Success and failure are only reported of an operation that has ended so, and an
\* end only of one that has ended.  Of what was taken for a result, a 200 without a
\* status, nothing is said here: see TakenIsComplete.
VerdictTrue ==
    /\ verdict = "succeeded" => ends <= clock /\ how = "succeeded"
    /\ verdict = "failed" => ends <= clock /\ how \in {"failed", "cancelled"}
    /\ verdict = "complete" => ends <= clock

\* "If 200/201 with no status field, operation is complete" (poll_lro_impl): what is
\* taken for the result of an LRO is that of an operation that has ended.
TakenIsComplete == verdict = "taken" => ends <= clock

\* How long after its limit each loop may return.
Overrun == CASE shape = "lro" -> MaxPause + MaxToken + 2 * MaxAnswer
             [] shape = "bytes" -> MaxPause + MaxAnswer
             [] shape \in {"session", "statement"} -> Pause + PollTime
             [] shape = "export" -> Pause + 2 * PollTime
             [] shape = "item" -> PollTime + IF cancelling THEN CancelTime ELSE 0
             [] shape = "follow" -> 0

\* No loop outlives its time-out by more than the sleep and the requests, with their
\* repetitions, that it does not cut short; a stream ends on time even if its source
\* hangs.
OverrunBounded == clock <= limit + Overrun

\* How long before the limit the last look may have been.
Gap == CASE shape = "item" -> Pause + PollTime
         [] shape = "follow" -> 2 * PollTime + Pause
         [] OTHER -> PollTime

\* The states each loop knows as an end.
Known == how \in IF shape \in {"lro", "export"} THEN {"succeeded", "failed"}
                 ELSE {"succeeded", "failed", "cancelled"}

\* A time-out is not early: the limit has passed, the operation had not ended at
\* the last look, and unless polls were told no state that look was no longer before
\* the limit than one sleep and the polls of the loop take.
TimeoutDue ==
    verdict = "timeout" =>
      /\ clock >= limit
      /\ Known => ends > asked
      /\ ~mute /\ (shape = "item" => asked # -1) => asked + Gap >= limit

\* LRO polls are sent with a token that has not expired, however long they go on; of a
\* token from the environment fabio does not know the expiry and assumes one hour.
PollsLive == shape = "lro" /\ pc = "poll" => clock < until

\* Every wait ends, also if the operation never does.
WaitEnds == <>(pc = "done")

=============================================================================
