---------------------------- MODULE PollWait_proofs ----------------------------
(* Verdicts, overruns, time-outs and tokens of the waiting loops, for every     *)
(* time-out, every Retry-After header and every moment the operation may end.   *)
EXTENDS PollWait, TLAPS

Loops == {"lro", "bytes", "item", "session", "statement", "export", "follow"}

LEMMA LoopKinds == TypeOK => shape \in Loops
BY WaitAssumption DEF TypeOK, Loops

LEMMA Numbers ==
  /\ Pause \in Nat /\ Pause >= 1 /\ MaxPause \in Nat /\ Pause <= MaxPause
  /\ MaxAnswer \in Nat /\ MaxAnswer >= 1
  /\ MaxToken \in Nat /\ Backoff \in Nat /\ MaxPark \in Nat
  /\ RefreshAfter \in Nat /\ Margin \in Nat /\ RefreshAfter < Margin
  /\ Limits \subseteq Nat /\ Ends \subseteq Nat /\ Headers \subseteq Nat
BY WaitAssumption

LEMMA CappedRange == \A h \in Headers : Capped(h) \in Nat /\ Capped(h) <= MaxPause
BY Numbers DEF Capped, Least

\* How long polls and the cancel take, in numbers.
LEMMA TimesRange ==
  /\ PollTime \in Nat /\ PollTime >= MaxAnswer
  /\ (shape \in {"lro", "bytes"} => PollTime = MaxAnswer)
  /\ CancelTime \in Nat
<1>1. CancelTime \in Nat
  BY Numbers DEF CancelTime
<1>2. CASE shape \in {"lro", "bytes"}
  BY <1>1, <1>2, Numbers DEF PollTime
<1>3. CASE shape = "export"
  BY <1>1, <1>3, Numbers DEF PollTime
<1>4. CASE shape \notin {"lro", "bytes", "export"}
  BY <1>1, <1>4, Numbers DEF PollTime
<1> QED BY <1>2, <1>3, <1>4

AnswerKinds == {"error", "blank", "running", "succeeded", "failed", "cancelled"}

\* What one poll brings: its duration, the answer, and what the answer says.
PollOf(d, a) ==
    /\ shape = "follow" => clock + d < limit
    /\ clock' = clock + d
    /\ asked' = IF a \in {"error", "blank"} THEN asked ELSE clock
    /\ mute' = (mute \/ a \in {"error", "blank"})
    /\ a = "running" => ends > clock
    /\ a \notin {"error", "blank", "running"} => ends <= clock + d /\ how = a
    /\ \/ /\ GoesOn(a) /\ pc' = After("poll") /\ verdict' = verdict
          /\ pause' = pause \/ (shape = "lro" /\ pause' \in Nat /\ pause' <= MaxPause)
       \/ MayFetch(a) /\ pc' = "fetch" /\ verdict' = verdict /\ pause' = pause
       \/ /\ Decides(a) /\ verdict' \in VerdictOf(a) /\ pc' = "done" /\ pause' = pause

LEMMA PollPick ==
  ASSUME TypeOK, Poll
  PROVE  \E d \in 1 .. PollTime, a \in AnswerKinds : PollOf(d, a)
<1>1. PICK d \in 1 .. PollTime :
         /\ shape = "follow" => clock + d < limit
         /\ clock' = clock + d
         /\ \E a \in Answers(d) :
              /\ asked' = IF a \in {"error", "blank"} THEN asked ELSE clock
              /\ mute' = (mute \/ a \in {"error", "blank"})
              /\ \/ /\ GoesOn(a)
                    /\ pc' = After("poll")
                    /\ \/ UNCHANGED pause
                       \/ shape = "lro" /\ \E h \in Headers : pause' = Capped(h)
                    /\ UNCHANGED verdict
                 \/ MayFetch(a) /\ pc' = "fetch" /\ UNCHANGED <<pause, verdict>>
                 \/ /\ Decides(a) /\ (MayFetch(a) => shape = "lro")
                    /\ \E v \in VerdictOf(a) : Return(v)
                    /\ UNCHANGED pause
  BY DEF Poll
<1>2. PICK a \in Answers(d) :
              /\ asked' = IF a \in {"error", "blank"} THEN asked ELSE clock
              /\ mute' = (mute \/ a \in {"error", "blank"})
              /\ \/ /\ GoesOn(a)
                    /\ pc' = After("poll")
                    /\ \/ UNCHANGED pause
                       \/ shape = "lro" /\ \E h \in Headers : pause' = Capped(h)
                    /\ UNCHANGED verdict
                 \/ MayFetch(a) /\ pc' = "fetch" /\ UNCHANGED <<pause, verdict>>
                 \/ /\ Decides(a) /\ (MayFetch(a) => shape = "lro")
                    /\ \E v \in VerdictOf(a) : Return(v)
                    /\ UNCHANGED pause
  BY <1>1
<1>3. a \in {"error", "blank"} \/ \E t \in clock .. clock + d : a = StateAt(t)
  BY DEF Answers
<1>4. /\ a \in AnswerKinds
      /\ a = "running" => ends > clock
      /\ a \notin {"error", "blank", "running"} => ends <= clock + d /\ how = a
  <2>1. CASE a \in {"error", "blank"}
    BY <2>1 DEF AnswerKinds
  <2>2. CASE a \notin {"error", "blank"}
    <3>1. PICK t \in clock .. clock + d : a = StateAt(t)
      BY <1>3, <2>2
    <3>2. clock \in Nat /\ d \in Nat /\ ends \in Nat /\ how \in {"succeeded", "failed", "cancelled"}
      BY TimesRange DEF TypeOK
    <3> QED BY <3>1, <3>2 DEF StateAt, AnswerKinds
  <2> QED BY <2>1, <2>2
<1>5. (\E h \in Headers : pause' = Capped(h)) => pause' \in Nat /\ pause' <= MaxPause
  BY CappedRange
<1>6. \/ /\ GoesOn(a) /\ pc' = After("poll") /\ verdict' = verdict
         /\ pause' = pause \/ (shape = "lro" /\ pause' \in Nat /\ pause' <= MaxPause)
      \/ MayFetch(a) /\ pc' = "fetch" /\ verdict' = verdict /\ pause' = pause
      \/ /\ Decides(a) /\ verdict' \in VerdictOf(a) /\ pc' = "done" /\ pause' = pause
  <2>1. CASE /\ GoesOn(a) /\ pc' = After("poll")
             /\ \/ UNCHANGED pause
                \/ shape = "lro" /\ \E h \in Headers : pause' = Capped(h)
             /\ UNCHANGED verdict
    BY <1>5, <2>1
  <2>2. CASE MayFetch(a) /\ pc' = "fetch" /\ UNCHANGED <<pause, verdict>>
    BY <2>2
  <2>3. CASE Decides(a) /\ (\E v \in VerdictOf(a) : Return(v)) /\ UNCHANGED pause
    BY <2>3 DEF Return
  <2> QED BY <1>2, <2>1, <2>2, <2>3
<1>7. /\ shape = "follow" => clock + d < limit
      /\ clock' = clock + d
      /\ asked' = IF a \in {"error", "blank"} THEN asked ELSE clock
      /\ mute' = (mute \/ a \in {"error", "blank"})
  BY <1>1, <1>2
<1>8. PollOf(d, a)
  BY <1>4, <1>6, <1>7 DEF PollOf
<1> QED BY <1>4, <1>8

-----------------------------------------------------------------------------
(* Types                                                                     *)

LEMMA TypeInit == Init => TypeOK
<1> SUFFICES ASSUME Init PROVE TypeOK
  OBVIOUS
<1>1. pause \in Nat /\ (shape # "item" => pause <= MaxPause)
  BY Numbers, CappedRange DEF Init, FirstPauses
<1>2. pc \in {"check", "sleep", "poll", "fetch", "done"}
  BY DEF Init, First
<1> QED BY <1>1, <1>2, Numbers DEF Init, TypeOK, Verdicts

LEMMA WokenRange ==
  ASSUME TypeOK
  PROVE  Woken(clock) \in Nat /\ Woken(clock) >= clock
BY Numbers DEF TypeOK, Woken, Least

LEMMA CancelRange ==
  ASSUME TypeOK, CancelJob
  PROVE  /\ clock' \in Nat /\ clock <= clock'
         /\ clock' <= clock + (IF cancelling THEN CancelTime ELSE 0)
         /\ \/ ends' = ends /\ how' = how
            \/ ends' \in Nat /\ ends' >= clock /\ how' = "cancelled"
<1>1. PICK d \in 0 .. IF cancelling THEN CancelTime ELSE 0 :
        /\ clock' = clock + d
        /\ \/ UNCHANGED operation
           \/ /\ cancelling /\ ends > clock
              /\ ends' \in clock .. Least(clock', ends) /\ how' = "cancelled"
  BY DEF CancelJob
<1>2. clock \in Nat /\ CancelTime \in Nat /\ ends \in Nat /\ cancelling \in BOOLEAN
  BY TimesRange DEF TypeOK
<1>3. d \in Nat /\ d <= (IF cancelling THEN CancelTime ELSE 0)
  BY <1>1, <1>2
<1>4. /\ clock' \in Nat /\ clock <= clock'
      /\ clock' <= clock + (IF cancelling THEN CancelTime ELSE 0)
  BY <1>1, <1>2, <1>3
<1>5. CASE UNCHANGED operation
  BY <1>4, <1>5 DEF operation
<1>6. CASE ends' \in clock .. Least(clock', ends) /\ how' = "cancelled"
  BY <1>2, <1>4, <1>6 DEF Least
<1> QED BY <1>1, <1>5, <1>6

LEMMA RestedRange ==
  ASSUME TypeOK, NEW t \in Rested
  PROVE  /\ t \in Nat /\ t >= Woken(clock) /\ t >= clock
         /\ t <= Woken(clock) + (IF Renews(Woken(clock)) THEN MaxToken ELSE 0)
<1>1. Woken(clock) \in Nat /\ Woken(clock) >= clock /\ clock \in Nat
  BY WokenRange DEF TypeOK
<1> QED BY <1>1, Numbers DEF Rested

LEMMA TypeStep == TypeOK /\ [Next]_vars => TypeOK'
<1> SUFFICES ASSUME TypeOK, [Next]_vars PROVE TypeOK'
  OBVIOUS
<1> USE Numbers DEF TypeOK, config, operation, history, Verdicts
<1>1. CASE Check
  <2>1. clock' \in Nat /\ ends' \in Nat /\ how' \in {"succeeded", "failed", "cancelled"}
    BY <1>1, CancelRange DEF Check
  <2> QED BY <1>1, <2>1 DEF Check, Return, After, Following
<1>2. CASE Sleep
  <2>1. PICK t \in Rested : clock' = t /\ until' = TokenUntil(t)
    BY <1>2 DEF Sleep
  <2>2. clock' \in Nat /\ until' \in Nat
    BY <2>1, RestedRange DEF TokenUntil
  <2> QED BY <1>2, <2>2 DEF Sleep, After, Following
<1>3. CASE NoCredential
  BY <1>3, RestedRange DEF NoCredential, Return
<1>4. CASE Poll
  <2>1. PICK d \in 1 .. PollTime, a \in AnswerKinds : PollOf(d, a)
    BY <1>4, PollPick
  <2>2. /\ clock' \in Nat /\ started' = clock
        /\ asked' \in Nat \cup {-1} /\ mute' \in BOOLEAN
    BY <1>4, <2>1, TimesRange DEF Poll, PollOf
  <2>3. /\ pc' \in {"check", "sleep", "poll", "fetch", "done"}
        /\ verdict' \in Verdicts
    BY <2>1 DEF PollOf, After, Following, Return, VerdictOf
  <2>4. pause' \in Nat /\ (shape # "item" => pause' <= MaxPause)
    BY <2>1 DEF PollOf, Return
  <2> QED BY <1>4, <2>2, <2>3, <2>4 DEF Poll
<1>5. CASE CutOff
  <2>1. limit \in Nat
    OBVIOUS
  <2> QED BY <1>5, <2>1 DEF CutOff, Return
<1>6. CASE Fetch
  BY <1>6, TimesRange DEF Fetch, Return
<1>7. CASE UNCHANGED vars
  BY <1>7 DEF vars
<1> QED BY <1>1, <1>2, <1>3, <1>4, <1>5, <1>6, <1>7 DEF Next

\* The type invariant; no header but a job's first makes a loop pause longer than
\* the cap.
THEOREM TypeCorrect == Spec => []TypeOK
BY TypeInit, TypeStep, PTL DEF Spec

-----------------------------------------------------------------------------
(* The inductive invariant                                                   *)

\* Only a loop that has returned has a verdict, and a result is only fetched of an
\* operation that succeeded.
VerdictInv == /\ pc # "done" <=> verdict = "none"
              /\ pc = "fetch" => ends <= clock /\ how = "succeeded" /\ shape \in {"lro", "export"}
              /\ VerdictTrue

\* The pause is the loop's own where no header can change it.
PauseInv == /\ shape \in {"session", "statement", "export", "follow"} => pause = Pause
            /\ shape = "item" /\ (pc \in {"check", "poll"} \/ asked # -1) => pause = Pause

\* How late after its limit a loop that cuts nothing short may begin a poll.
Reach == CASE shape = "lro" -> MaxPause + MaxToken
           [] shape = "bytes" -> MaxPause
           [] OTHER -> Pause

\* How late it can be at each step.
TimeInv ==
    /\ shape \notin {"item", "follow"} =>
         /\ pc = "sleep" => clock <= limit
         /\ pc = "poll" => clock <= limit + Reach
         /\ pc \in {"check", "fetch"} => clock <= limit + Reach + PollTime
    /\ shape = "item" =>
         /\ pc = "poll" => clock < limit
         /\ pc # "done" => clock <= limit + PollTime
    /\ shape = "follow" =>
         /\ pc = "poll" => clock < limit
    /\ OverrunBounded

\* How long ago the last look was, if every poll was told a state.
LookInv ==
    /\ asked < clock /\ started <= clock
    /\ Known /\ pc \notin {"fetch", "done"} => ends > asked
    /\ ~mute =>
         /\ shape \in {"lro", "bytes"} /\ pc = "check" => clock = 0 \/ asked + PollTime >= clock
         /\ shape \in {"session", "statement", "export"} /\ pc = "check" =>
              asked + PollTime >= clock
         /\ shape = "item" /\ asked # -1 =>
              /\ pc = "sleep" => asked + PollTime >= clock
              /\ pc = "check" => asked + PollTime + Pause >= clock
         /\ shape = "follow" =>
              /\ pc = "sleep" => asked = started /\ asked + PollTime >= clock
              /\ pc \in {"check", "poll"} => asked + PollTime + Pause >= clock
    /\ TimeoutDue

TokenInv == until >= Margin /\ PollsLive

\* Only the wait for a job can be told to cancel.
CancelInv == cancelling => shape = "item"

Inv == VerdictInv /\ PauseInv /\ TimeInv /\ LookInv /\ TokenInv /\ CancelInv

\* The bounds in terms of each other.
LEMMA Spans ==
  ASSUME TypeOK
  PROVE  /\ Reach \in Nat /\ Overrun \in Nat
         /\ (shape \notin {"item", "follow"} => Overrun >= Reach + PollTime)
         /\ (shape \in {"lro", "export"} => Overrun >= Reach + 2 * PollTime)
         /\ (shape = "item" => Overrun = PollTime + (IF cancelling THEN CancelTime ELSE 0))
<1>1. shape \in Loops /\ cancelling \in BOOLEAN
  BY LoopKinds DEF TypeOK
<1>2. CASE shape \in {"lro", "bytes"}
  BY <1>2, Numbers, TimesRange DEF Reach, Overrun
<1>3. CASE shape \in {"session", "statement", "export"}
  BY <1>3, Numbers, TimesRange DEF Reach, Overrun
<1>4. CASE shape = "item"
  <2>1. Overrun = PollTime + (IF cancelling THEN CancelTime ELSE 0) /\ Reach = Pause
    BY <1>4 DEF Overrun, Reach
  <2>2. (IF cancelling THEN CancelTime ELSE 0) \in Nat
    BY <1>1, TimesRange
  <2> QED BY <1>4, <2>1, <2>2, Numbers, TimesRange
<1>5. CASE shape = "follow"
  BY <1>5, Numbers, TimesRange DEF Reach, Overrun
<1> QED BY <1>1, <1>2, <1>3, <1>4, <1>5 DEF Loops

\* They do not change with the steps of a loop.
LEMMA SpansFixed ==
  ASSUME UNCHANGED config
  PROVE  PollTime' = PollTime /\ Overrun' = Overrun /\ Gap' = Gap /\ Reach' = Reach
<1>1. shape' = shape /\ cancelling' = cancelling
  BY DEF config
<1>2. PollTime' = PollTime
  BY <1>1 DEF PollTime
<1> QED BY <1>1, <1>2 DEF Overrun, Gap, Reach, CancelTime

LEMMA GapSpan ==
  /\ (shape = "item" => Gap = Pause + PollTime)
  /\ (shape = "follow" => Gap = 2 * PollTime + Pause)
  /\ (shape \notin {"item", "follow"} => Gap = PollTime)
BY DEF Gap

LEMMA InvInit == Init => Inv
<1> SUFFICES ASSUME Init PROVE Inv
  OBVIOUS
<1>1. TypeOK /\ shape \in Loops
  BY TypeInit, LoopKinds
<1>2. /\ limit \in Nat /\ ends \in Nat /\ clock = 0 /\ started = 0 /\ until = Margin
      /\ verdict = "none" /\ asked = -1 /\ mute = FALSE /\ pc = First
  BY Numbers DEF Init
<1>3. /\ pc \notin {"done", "fetch"} /\ (pc = "poll" => shape \in {"session", "statement", "export"})
      /\ (shape = "item" => pc = "sleep")
      /\ (shape \in {"lro", "bytes"} => pc = "check") /\ (shape = "follow" => pc = "check")
      /\ (shape \in {"session", "statement", "export"} => pc = "poll")
  BY <1>1, <1>2 DEF First, Loops
<1>4. VerdictInv
  BY <1>2, <1>3 DEF VerdictInv, VerdictTrue
<1>5. PauseInv
  BY <1>2, <1>3 DEF PauseInv, Init, FirstPauses
<1>6. TimeInv
  BY <1>1, <1>2, <1>3, Numbers, Spans, TimesRange DEF TimeInv, OverrunBounded, Loops
<1>7. LookInv
  BY <1>1, <1>2, <1>3, Numbers, TimesRange DEF LookInv, TimeoutDue, Loops
<1>8. TokenInv
  BY <1>2, <1>3, Numbers DEF TokenInv, PollsLive
<1>9. CancelInv
  BY DEF Init, CancelInv
<1> QED BY <1>4, <1>5, <1>6, <1>7, <1>8, <1>9 DEF Inv

LEMMA CheckInv ==
  ASSUME TypeOK, Inv, Check
  PROVE  Inv'
<1>1. /\ shape \in Loops /\ limit \in Nat /\ clock \in Nat /\ ends \in Nat /\ pause \in Nat
      /\ asked \in Nat \cup {-1} /\ started \in Nat /\ until \in Nat
      /\ cancelling \in BOOLEAN /\ PollTime \in Nat
  BY LoopKinds, Numbers, TimesRange DEF TypeOK
<1>2. /\ shape' = shape /\ limit' = limit /\ pause' = pause /\ started' = started
      /\ until' = until /\ asked' = asked /\ mute' = mute /\ pc = "check"
      /\ PollTime' = PollTime /\ Overrun' = Overrun /\ Gap' = Gap /\ Reach' = Reach
  BY SpansFixed DEF Check, config, history
<1>3. CASE Late(clock) /\ Return("timeout") /\ CancelJob
  <2>1. pc' = "done" /\ verdict' = "timeout"
    BY <1>3 DEF Return
  <2>2. /\ clock' \in Nat /\ clock <= clock'
        /\ clock' <= clock + (IF cancelling THEN CancelTime ELSE 0)
        /\ (ends' = ends /\ how' = how) \/ (ends' \in Nat /\ ends' >= clock)
    BY <1>3, CancelRange
  <2>3. VerdictInv'
    BY <2>1 DEF VerdictInv, VerdictTrue
  <2>4. PauseInv'
    BY <1>2, <2>1 DEF Inv, PauseInv
  <2>5. clock' <= limit + Overrun
    <3>1. Overrun \in Nat /\ Reach \in Nat
      BY Spans
    <3>2. CASE shape = "item"
      <4>1. Overrun = PollTime + (IF cancelling THEN CancelTime ELSE 0)
        BY <3>2, Spans
      <4>2. clock <= limit + PollTime
        BY <1>2, <3>2 DEF Inv, TimeInv
      <4>3. (IF cancelling THEN CancelTime ELSE 0) \in Nat
        BY <1>1, TimesRange
      <4> QED BY <1>1, <2>2, <4>1, <4>2, <4>3
    <3>3. CASE shape # "item"
      <4>1. ~cancelling
        BY <1>1, <3>3 DEF Inv, CancelInv
      <4>2. clock' = clock /\ clock <= limit + Overrun
        BY <1>1, <2>2, <4>1 DEF Inv, TimeInv, OverrunBounded
      <4> QED BY <4>2
    <3> QED BY <3>2, <3>3
  <2>6. TimeInv'
    BY <1>1, <1>2, <2>1, <2>5 DEF TimeInv, OverrunBounded
  <2>7. LookInv'
    <3>1. clock >= limit /\ (shape \in {"lro", "bytes"} => clock > limit)
      BY <1>1, <1>3 DEF Late
    <3>2. (Known => ends > asked)'
      <4>1. CASE ends' = ends /\ how' = how
        BY <1>2, <4>1 DEF Inv, LookInv, Known
      <4>2. CASE ends' \in Nat /\ ends' >= clock
        BY <1>1, <1>2, <4>2 DEF Inv, LookInv
      <4> QED BY <2>2, <4>1, <4>2
    <3>3. ~mute /\ (shape = "item" => asked # -1) => asked + Gap >= limit
      <4>1. CASE shape \in {"item", "follow"}
        BY <1>1, <1>2, <3>1, <4>1, Numbers, GapSpan DEF Inv, LookInv
      <4>2. CASE shape \notin {"item", "follow"}
        BY <1>1, <1>2, <3>1, <4>2, Numbers, GapSpan DEF Inv, LookInv, Loops
      <4> QED BY <4>1, <4>2
    <3>4. TimeoutDue'
      BY <1>1, <1>2, <2>2, <3>1, <3>2, <3>3 DEF TimeoutDue
    <3>5. (asked < clock /\ started <= clock)'
      BY <1>1, <1>2, <2>2 DEF Inv, LookInv
    <3> QED BY <1>2, <2>1, <3>4, <3>5 DEF LookInv
  <2>8. TokenInv' /\ CancelInv'
    BY <1>2, <2>1 DEF Inv, TokenInv, PollsLive, CancelInv, Check, config
  <2> QED BY <2>3, <2>4, <2>6, <2>7, <2>8 DEF Inv
<1>4. CASE ~Late(clock) /\ pc' = After("check") /\ UNCHANGED <<clock, operation, verdict>>
  <2>1. /\ pc' = IF shape \in {"item", "follow"} THEN "poll" ELSE "sleep"
        /\ verdict' = verdict /\ verdict = "none" /\ ends' = ends /\ how' = how /\ clock' = clock
        /\ clock <= limit /\ (shape \notin {"lro", "bytes"} => clock < limit)
    BY <1>1, <1>2, <1>4 DEF After, Following, operation, Late, Inv, VerdictInv
  <2>2. VerdictInv'
    BY <1>2, <2>1 DEF VerdictInv, VerdictTrue, Inv
  <2>3. PauseInv'
    BY <1>1, <1>2, <2>1 DEF Inv, PauseInv
  <2>4. TimeInv'
    BY <1>1, <1>2, <2>1, Spans DEF Inv, TimeInv, OverrunBounded
  <2>5. LookInv'
    BY <1>1, <1>2, <2>1 DEF Inv, LookInv, TimeoutDue, Known, Loops
  <2>6. TokenInv' /\ CancelInv'
    BY <1>1, <1>2, <2>1 DEF Inv, TokenInv, PollsLive, CancelInv, Check, config
  <2> QED BY <2>2, <2>3, <2>4, <2>5, <2>6 DEF Inv
<1> QED BY <1>3, <1>4 DEF Check

LEMMA SleepInv ==
  ASSUME TypeOK, Inv, Sleep
  PROVE  Inv'
<1>1. /\ shape \in Loops /\ limit \in Nat /\ clock \in Nat /\ ends \in Nat /\ pause \in Nat
      /\ asked \in Nat \cup {-1} /\ started \in Nat /\ until \in Nat
      /\ (shape # "item" => pause <= MaxPause)
      /\ PollTime \in Nat
  BY LoopKinds, Numbers, TimesRange DEF TypeOK
<1>2. /\ shape' = shape /\ limit' = limit /\ started' = started
      /\ asked' = asked /\ mute' = mute /\ pc = "sleep"
      /\ ends' = ends /\ how' = how /\ verdict' = verdict /\ verdict = "none"
      /\ pause' = IF shape = "item" THEN Pause ELSE pause
      /\ pc' = IF shape \in {"item", "follow"} THEN "check" ELSE "poll"
      /\ PollTime' = PollTime /\ Overrun' = Overrun /\ Gap' = Gap /\ Reach' = Reach
  BY SpansFixed DEF Sleep, config, history, operation, After, Following, Inv, VerdictInv
<1>3. /\ clock' \in Nat /\ clock' >= clock /\ Woken(clock) \in Nat
      /\ clock' >= Woken(clock)
      /\ clock' <= Woken(clock) + (IF Renews(Woken(clock)) THEN MaxToken ELSE 0)
  BY RestedRange, WokenRange DEF Sleep
<1>4. /\ shape # "lro" => clock' = Woken(clock)
      /\ shape = "lro" => clock' <= Woken(clock) + MaxToken
  BY <1>1, <1>3, Numbers DEF Renews
<1>5. /\ shape \notin {"item", "follow"} => Woken(clock) = clock + pause
      /\ shape = "item" => /\ Woken(clock) <= clock + pause
                           /\ Woken(clock) <= limit \/ Woken(clock) = clock
      /\ shape = "follow" => /\ Woken(clock) <= started + Pause \/ Woken(clock) = clock
                             /\ Woken(clock) <= limit \/ Woken(clock) = clock
  BY <1>1, <1>2, Numbers DEF Woken, Least, Inv, PauseInv
<1>6. VerdictInv'
  BY <1>1, <1>2, <1>3 DEF Inv, VerdictInv, VerdictTrue
<1>7. PauseInv'
  BY <1>1, <1>2 DEF Inv, PauseInv
<1>8. TimeInv'
  <2>1. CASE shape \in {"item", "follow"}
    BY <1>1, <1>2, <1>3, <1>4, <1>5, <2>1, Numbers, Spans DEF Inv, TimeInv, OverrunBounded, Loops
  <2>2. CASE shape \notin {"item", "follow"}
    <3>1. clock' <= limit + Reach
      <4>1. clock <= limit
        BY <1>2, <2>2 DEF Inv, TimeInv
      <4>2. CASE shape = "lro"
        BY <1>1, <1>3, <1>4, <1>5, <4>1, <4>2, Numbers DEF Reach
      <4>3. CASE shape = "bytes"
        BY <1>1, <1>3, <1>4, <1>5, <4>1, <4>3, Numbers DEF Reach
      <4>4. CASE shape \in {"session", "statement", "export"}
        BY <1>1, <1>3, <1>4, <1>5, <4>1, <4>4, Numbers DEF Reach, Inv, PauseInv
      <4> QED BY <1>1, <2>2, <4>2, <4>3, <4>4 DEF Loops
    <3>2. clock' <= limit + Overrun
      BY <1>1, <1>3, <2>2, <3>1, Spans
    <3> QED BY <1>2, <2>2, <3>1, <3>2 DEF TimeInv, OverrunBounded
  <2> QED BY <2>1, <2>2
<1>9. LookInv'
  BY <1>1, <1>2, <1>3, <1>4, <1>5, Numbers DEF Inv, LookInv, PauseInv, TimeoutDue, Known, Loops
<1>10. TokenInv' /\ CancelInv'
  <2>1. CancelInv'
    BY DEF Inv, CancelInv, Sleep, config
  <2>2. CASE Renews(Woken(clock))
    <3>1. PICK t \in Rested : clock' = t /\ until' = TokenUntil(t)
      BY DEF Sleep
    <3>2. until' = t + Margin /\ t \in Nat
      BY <2>2, <3>1, RestedRange DEF TokenUntil
    <3> QED BY <2>1, <3>1, <3>2, Numbers DEF TokenInv, PollsLive
  <2>3. CASE ~Renews(Woken(clock))
    <3>1. until' = until /\ until >= Margin
      BY <2>3 DEF Sleep, TokenUntil, Inv, TokenInv
    <3>2. shape = "lro" => clock' = Woken(clock) /\ Woken(clock) <= RefreshAfter
      BY <1>1, <1>3, <2>3, Numbers DEF Renews
    <3> QED BY <1>1, <1>2, <1>3, <2>1, <3>1, <3>2, Numbers DEF TokenInv, PollsLive
  <2> QED BY <2>1, <2>2, <2>3
<1> QED BY <1>6, <1>7, <1>8, <1>9, <1>10 DEF Inv

LEMMA PollInv ==
  ASSUME TypeOK, Inv, Poll
  PROVE  Inv'
<1>1. /\ shape \in Loops /\ limit \in Nat /\ clock \in Nat /\ ends \in Nat /\ pause \in Nat
      /\ asked \in Nat \cup {-1} /\ started \in Nat /\ until \in Nat /\ mute \in BOOLEAN
      /\ PollTime \in Nat
  BY LoopKinds, Numbers, TimesRange DEF TypeOK
<1>2. PICK d \in 1 .. PollTime, a \in AnswerKinds : PollOf(d, a)
  BY PollPick
<1>3. d \in Nat /\ 1 <= d /\ d <= PollTime
  BY <1>1, <1>2, Numbers
<1>4. /\ pc = "poll" /\ verdict = "none" /\ shape' = shape /\ limit' = limit /\ until' = until
      /\ ends' = ends /\ how' = how /\ started' = clock /\ clock' = clock + d
      /\ asked' = (IF a \in {"error", "blank"} THEN asked ELSE clock)
      /\ mute' = (mute \/ a \in {"error", "blank"})
      /\ (shape = "follow" => clock + d < limit)
      /\ (a = "running" => ends > clock)
      /\ (a \notin {"error", "blank", "running"} => ends <= clock + d /\ how = a)
  BY <1>2 DEF Poll, PollOf, config, operation, Inv, VerdictInv
<1>5. (~mute') => ~mute /\ a \notin {"error", "blank"} /\ asked' = clock
  BY <1>4
<1>6. /\ PollTime' = PollTime /\ Overrun' = Overrun /\ Gap' = Gap /\ Reach' = Reach
      /\ cancelling' = cancelling
  BY SpansFixed DEF Poll, config
<1>7. CancelInv'
  BY <1>6, <1>4 DEF Inv, CancelInv
<1>8. clock' <= limit + Overrun
  <2>1. CASE shape = "follow"
    BY <1>1, <1>4, <2>1, Spans
  <2>2. CASE shape = "item"
    <3>1. clock < limit /\ Overrun >= PollTime
      BY <1>1, <1>4, <2>2, Spans, TimesRange DEF Inv, TimeInv, TypeOK
    <3> QED BY <1>1, <1>3, <1>4, <3>1, Spans
  <2>3. CASE shape \notin {"item", "follow"}
    <3>1. clock <= limit + Reach /\ Overrun >= Reach + PollTime
      BY <1>4, <2>3, Spans DEF Inv, TimeInv
    <3> QED BY <1>1, <1>3, <1>4, <3>1, Spans
  <2> QED BY <2>1, <2>2, <2>3
<1>9. CASE GoesOn(a) /\ pc' = After("poll") /\ verdict' = verdict
           /\ (pause' = pause \/ (shape = "lro" /\ pause' \in Nat /\ pause' <= MaxPause))
  <2>1. pc' = IF shape \in {"item", "follow"} THEN "sleep" ELSE "check"
    BY <1>9 DEF After, Following
  <2>2. /\ a = "error" => shape \in {"item", "follow"}
        /\ a \notin {"error", "blank"} /\ Known => ends > clock
    BY <1>1, <1>4, <1>9 DEF GoesOn, Known
  <2>3. VerdictInv'
    BY <1>4, <1>9, <2>1 DEF VerdictInv, VerdictTrue
  <2>4. PauseInv'
    BY <1>1, <1>4, <1>9, <2>1 DEF Inv, PauseInv
  <2>5. TimeInv'
    BY <1>6, <1>1, <1>3, <1>4, <1>8, <2>1, Spans DEF Inv, TimeInv, OverrunBounded
  <2>6. LookInv'
    <3>1. (asked < clock /\ started <= clock)'
      BY <1>1, <1>3, <1>4 DEF Inv, LookInv
    <3>2. (Known => ends > asked)'
      BY <1>1, <1>4, <2>2 DEF Inv, LookInv, Known
    <3>3. verdict' = "none"
      BY <1>4, <1>9
    <3> QED BY <1>6, <1>1, <1>3, <1>4, <1>5, <2>1, <3>1, <3>2, <3>3, Numbers DEF LookInv, TimeoutDue, Loops
  <2>7. TokenInv'
    BY <1>1, <1>4, <2>1 DEF Inv, TokenInv, PollsLive
  <2> QED BY <1>7, <2>3, <2>4, <2>5, <2>6, <2>7 DEF Inv
<1>10. CASE MayFetch(a) /\ pc' = "fetch" /\ verdict' = verdict /\ pause' = pause
  <2>1. a = "succeeded" /\ shape \in {"lro", "export"}
    BY <1>10 DEF MayFetch
  <2>2. VerdictInv'
    BY <1>1, <1>4, <1>10, <2>1 DEF VerdictInv, VerdictTrue
  <2>3. PauseInv'
    BY <1>4, <1>10, <2>1 DEF Inv, PauseInv
  <2>4. TimeInv'
    BY <1>6, <1>1, <1>3, <1>4, <1>10, <1>8, <2>1, Spans DEF Inv, TimeInv, OverrunBounded
  <2>5. LookInv'
    BY <1>1, <1>3, <1>4, <1>10, <2>1 DEF Inv, LookInv, TimeoutDue
  <2>6. TokenInv'
    BY <1>4, <1>10 DEF Inv, TokenInv, PollsLive
  <2> QED BY <1>7, <2>2, <2>3, <2>4, <2>5, <2>6 DEF Inv
<1>11. CASE Decides(a) /\ verdict' \in VerdictOf(a) /\ pc' = "done" /\ pause' = pause
  <2>1. pc' = "done" /\ verdict' \in VerdictOf(a) /\ a # "running"
    BY <1>11 DEF Decides, GoesOn
  <2>2. /\ verdict' \in {"error", "succeeded", "failed", "complete", "taken"}
        /\ verdict' = "succeeded" => a = "succeeded"
        /\ verdict' = "failed" => a \in {"failed", "cancelled"}
        /\ verdict' = "complete" => a \notin {"error", "blank"}
    <3>1. CASE a \in {"error", "blank"}
      BY <2>1, <3>1 DEF VerdictOf
    <3>2. CASE a \in {"succeeded", "failed", "cancelled"}
      BY <2>1, <3>2 DEF VerdictOf
    <3> QED BY <1>2, <2>1, <3>1, <3>2 DEF AnswerKinds
  <2>3. VerdictInv'
    BY <1>1, <1>4, <2>1, <2>2 DEF VerdictInv, VerdictTrue
  <2>4. PauseInv'
    BY <1>4, <1>11, <2>1 DEF Inv, PauseInv
  <2>5. TimeInv'
    BY <1>6, <1>4, <1>8, <2>1 DEF TimeInv, OverrunBounded
  <2>6. LookInv'
    BY <1>1, <1>3, <1>4, <2>1, <2>2 DEF Inv, LookInv, TimeoutDue
  <2>7. TokenInv'
    BY <1>4, <2>1 DEF Inv, TokenInv, PollsLive
  <2> QED BY <1>7, <2>3, <2>4, <2>5, <2>6, <2>7 DEF Inv
<1> QED BY <1>2, <1>9, <1>10, <1>11 DEF PollOf

\* The ways out that are not decided by an answer.
LEMMA LeaveInv ==
  ASSUME TypeOK, Inv, NoCredential \/ CutOff \/ Fetch
  PROVE  Inv'
<1>1. /\ shape \in Loops /\ limit \in Nat /\ clock \in Nat /\ ends \in Nat /\ pause \in Nat
      /\ asked \in Nat \cup {-1} /\ started \in Nat /\ until \in Nat
      /\ (shape # "item" => pause <= MaxPause) /\ PollTime \in Nat
  BY LoopKinds, Numbers, TimesRange DEF TypeOK
<1>2. /\ shape' = shape /\ limit' = limit /\ pause' = pause /\ started' = started
      /\ until' = until /\ asked' = asked /\ mute' = mute /\ ends' = ends /\ how' = how
      /\ pc' = "done" /\ pc # "done" /\ cancelling' = cancelling
      /\ PollTime' = PollTime /\ Overrun' = Overrun /\ Gap' = Gap
  BY SpansFixed DEF NoCredential, CutOff, Fetch, Return, config, operation, history
<1>3. PauseInv' /\ TokenInv' /\ CancelInv'
  BY <1>2 DEF Inv, PauseInv, TokenInv, PollsLive, CancelInv
<1>4. CASE NoCredential
  <2>1. /\ pc = "sleep" /\ shape = "lro" /\ verdict' = "error" /\ Woken(clock) = clock + pause
        /\ clock' \in Nat /\ clock' >= clock /\ clock' <= clock + pause + MaxToken
    BY <1>4, RestedRange, Numbers DEF NoCredential, Woken, Renews, Return
  <2>2. VerdictInv' /\ LookInv'
    BY <1>1, <1>2, <2>1, Numbers DEF Inv, VerdictInv, VerdictTrue, LookInv, TimeoutDue
  <2>3. clock' <= limit + Overrun
    <3>1. clock <= limit /\ Reach = MaxPause + MaxToken
      BY <2>1 DEF Inv, TimeInv, Reach
    <3> QED BY <1>1, <2>1, <3>1, Spans, Numbers
  <2>4. TimeInv'
    BY <1>2, <2>3 DEF TimeInv, OverrunBounded
  <2> QED BY <1>3, <2>2, <2>4 DEF Inv
<1>5. CASE CutOff
  <2>1. /\ pc = "poll" /\ shape = "follow" /\ clock + PollTime >= limit
        /\ clock' = limit /\ verdict' = "timeout" /\ clock < limit
    BY <1>5 DEF CutOff, Return, Inv, TimeInv
  <2>2. VerdictInv' /\ TimeInv'
    BY <1>1, <1>2, <2>1, Spans DEF VerdictInv, VerdictTrue, TimeInv, OverrunBounded
  <2>3. TimeoutDue'
    BY <1>1, <1>2, <2>1, Numbers, GapSpan DEF Inv, LookInv, TimeoutDue, Known
  <2>4. LookInv'
    BY <1>1, <1>2, <2>1, <2>3 DEF Inv, LookInv
  <2> QED BY <1>3, <2>2, <2>4 DEF Inv
<1>6. CASE Fetch
  <2>1. PICK d \in 1 .. PollTime : clock' = clock + d
    BY <1>6 DEF Fetch
  <2>2. pc = "fetch" /\ verdict' \in {"succeeded", "error"} /\ d \in Nat /\ 1 <= d /\ d <= PollTime
    BY <1>1, <1>6, <2>1, Numbers DEF Fetch, Return
  <2>3. ends <= clock /\ how = "succeeded" /\ shape \in {"lro", "export"}
    BY <2>2 DEF Inv, VerdictInv
  <2>4. VerdictInv'
    BY <1>1, <1>2, <2>1, <2>2, <2>3 DEF VerdictInv, VerdictTrue
  <2>5. TimeInv'
    <3>1. clock <= limit + Reach + PollTime /\ Overrun >= Reach + 2 * PollTime
      BY <2>2, <2>3, Spans DEF Inv, TimeInv
    <3>2. clock' <= limit + Overrun
      BY <1>1, <2>1, <2>2, <3>1, Spans
    <3> QED BY <1>2, <3>2 DEF TimeInv, OverrunBounded
  <2>6. LookInv'
    BY <1>1, <1>2, <2>1, <2>2 DEF Inv, LookInv, TimeoutDue
  <2> QED BY <1>3, <2>4, <2>5, <2>6 DEF Inv
<1> QED BY <1>4, <1>5, <1>6

LEMMA InvStep == TypeOK /\ Inv /\ [Next]_vars => Inv'
<1>1. ASSUME Inv, UNCHANGED vars PROVE Inv'
  <2> USE <1>1 DEF vars, Inv
  <2>0. /\ PollTime' = PollTime /\ Overrun' = Overrun /\ Gap' = Gap /\ Reach' = Reach
    BY SpansFixed DEF config
  <2>1. VerdictInv' /\ PauseInv' /\ CancelInv'
    BY DEF VerdictInv, VerdictTrue, PauseInv, CancelInv
  <2>2. TimeInv'
    BY <2>0 DEF TimeInv, OverrunBounded
  <2>3. LookInv'
    BY <2>0 DEF LookInv, TimeoutDue, Known
  <2>4. TokenInv'
    BY DEF TokenInv, PollsLive
  <2> QED BY <2>1, <2>2, <2>3, <2>4
<1> QED BY <1>1, CheckInv, SleepInv, PollInv, LeaveInv DEF Next

LEMMA InvAlways == Spec => []Inv
BY TypeInit, TypeStep, InvInit, InvStep, PTL DEF Spec

\* Success and failure are only reported of an operation that has ended so.
THEOREM VerdictsTrue == Spec => []VerdictTrue
<1>1. Inv => VerdictTrue
  BY DEF Inv, VerdictInv
<1> QED BY <1>1, InvAlways, PTL

\* No loop outlives its time-out by more than the sleep and the requests it does not
\* cut short, for every time-out and every header.
THEOREM Bounded == Spec => []OverrunBounded
<1>1. Inv => OverrunBounded
  BY DEF Inv, TimeInv
<1> QED BY <1>1, InvAlways, PTL

\* A time-out is due: not before the limit, and after a look that found the operation
\* unfinished, shortly before the limit unless polls failed.
THEOREM TimeoutsDue == Spec => []TimeoutDue
<1>1. Inv => TimeoutDue
  BY DEF Inv, LookInv
<1> QED BY <1>1, InvAlways, PTL

\* LRO polls are sent with a live token, however long the wait.
THEOREM TokensLive == Spec => []PollsLive
<1>1. Inv => PollsLive
  BY DEF Inv, TokenInv
<1> QED BY <1>1, InvAlways, PTL

=============================================================================
