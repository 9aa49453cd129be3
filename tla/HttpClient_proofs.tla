--------------------------- MODULE HttpClient_proofs ---------------------------
(* Types, the effects of writes, what is reported of them, and lists, for any   *)
(* number of tasks, retries, pages and revoked tokens.                          *)
EXTENDS HttpClient, TLAPS

LEMMA NextSteps == Next => Age \/ Revoke \/ \E t \in Tasks : Step(t)
BY DEF Next

\* The parts of the state that one step of a task may change.
Frame(t) ==
    /\ UNCHANGED config
    /\ \A u \in Tasks \ {t} :
         /\ pc'[u] = pc[u] /\ status'[u] = status[u] /\ gateway'[u] = gateway[u]
         /\ page'[u] = page[u] /\ result'[u] = result[u] /\ rest'[u] = rest[u]
         /\ effects'[u] = effects[u]

-----------------------------------------------------------------------------
(* Types                                                                     *)

LEMMA TypeInit == Init => TypeOK
BY ClientAssumption DEF Init, TypeOK, Tokens, Places, Statuses

LEMMA ServiceTypes ==
  ASSUME TypeOK, Age \/ Revoke
  PROVE  TypeOK'
<1>1. CASE Age
  BY <1>1 DEF Age, TypeOK, config, counts, outcome
<1>2. CASE Revoke
  BY <1>2, ClientAssumption DEF Revoke, TypeOK, config, counts, outcome, Tokens
<1> QED BY <1>1, <1>2

LEMMA TokenTypes ==
  ASSUME TypeOK, NEW t \in Tasks, Auth(t) \/ Acquire(t) \/ NoCredential(t) \/ Store(t)
  PROVE  TypeOK'
<1> USE DEF TypeOK, Goto, config, tokens, counts, outcome, Places
<1>1. CASE Auth(t)
  <2>1. CASE cell # NoToken
    BY <1>1, <2>1 DEF Auth
  <2>2. CASE cell = NoToken
    BY <1>1, <2>2 DEF Auth
  <2> QED BY <2>1, <2>2
<1>2. CASE Acquire(t)
  <2>1. PICK new \in {store, accepted} : tok' = [tok EXCEPT ![t] = new] /\ store' = new
    BY <1>2 DEF Acquire
  <2>2. new \in Tokens /\ new # NoToken
    BY ClientAssumption DEF Tokens
  <2> QED BY <1>2, <2>1, <2>2 DEF Acquire
<1>3. CASE NoCredential(t)
  BY <1>3 DEF NoCredential
<1>4. CASE Store(t)
  BY <1>4 DEF Store
<1> QED BY <1>1, <1>2, <1>3, <1>4

\* Answers behind which a write may have taken effect.
Unsure == {"ok", "garbled", "gateway", "failed", "lost"}

\* What one request brings back.
LEMMA SendPick ==
  ASSUME NEW t \in Tasks, Send(t)
  PROVE  \E s \in Statuses, e \in {0, 1} :
           /\ status' = [status EXCEPT ![t] = s]
           /\ effects' = [effects EXCEPT ![t] = @ + e]
           /\ ~Writes(t) => e = 0
           /\ s \in {"ok", "garbled"} /\ Writes(t) => e = 1
           /\ s \notin Unsure => e = 0
<1>0. PICK s \in Answers(t) : \E e \in Effect(t, s) :
        /\ status' = [status EXCEPT ![t] = s]
        /\ effects' = [effects EXCEPT ![t] = @ + e]
  BY DEF Send
<1>1. PICK e \in Effect(t, s) :
        /\ status' = [status EXCEPT ![t] = s]
        /\ effects' = [effects EXCEPT ![t] = @ + e]
  BY <1>0
<1>2. s \in Statuses
  BY DEF Answers, Statuses
<1>3. s \in {"ok", "garbled"} => tok[t] = accepted
  BY DEF Answers, Statuses
<1>4. e \in {0, 1} /\ (~Writes(t) => e = 0) /\ (s \notin Unsure => e = 0)
  BY DEF Effect, Unsure
<1>5. s \in {"ok", "garbled"} /\ Writes(t) => e = 1
  BY <1>3 DEF Effect
<1> QED BY <1>1, <1>2, <1>4, <1>5

LEMMA AnswerTypes ==
  ASSUME TypeOK, NEW t \in Tasks,
         Send(t) \/ Unauthorized(t) \/ Throttled(t) \/ Transient(t) \/ NextPage(t) \/ Finish(t)
  PROVE  TypeOK'
<1> USE ClientAssumption DEF TypeOK, Goto, config, tokens, counts, outcome, Places
<1>1. CASE Send(t)
  <2>1. PICK s \in Statuses, e \in {0, 1} :
          status' = [status EXCEPT ![t] = s] /\ effects' = [effects EXCEPT ![t] = @ + e]
    BY <1>1, SendPick
  <2> QED BY <1>1, <2>1 DEF Send
<1>2. CASE Unauthorized(t)
  BY <1>2 DEF Unauthorized
<1>3. CASE Throttled(t)
  BY <1>3 DEF Throttled, MayWait
<1>4. CASE Transient(t)
  BY <1>4 DEF Transient, MayResend
<1>5. CASE NextPage(t)
  <2>1. CASE page[t] + 1 > MaxPages
    BY <1>5, <2>1 DEF NextPage, Statuses
  <2>2. CASE ~(page[t] + 1 > MaxPages)
    BY <1>5, <2>2 DEF NextPage
  <2> QED BY <2>1, <2>2
<1>6. CASE Finish(t)
  BY <1>6 DEF Finish, Outcome
<1> QED BY <1>1, <1>2, <1>3, <1>4, <1>5, <1>6

LEMMA TypeStep == TypeOK /\ [Next]_vars => TypeOK'
<1>1. TypeOK /\ UNCHANGED vars => TypeOK'
  BY DEF TypeOK, vars, Tokens
<1>2. TypeOK /\ Next => TypeOK'
  BY NextSteps, ServiceTypes, TokenTypes, AnswerTypes DEF Step
<1> QED BY <1>1, <1>2

\* The type invariant: in particular a request is never sent without a token, and
\* no retry counter or page count passes its limit.
THEOREM TypeCorrect == Spec => []TypeOK
BY TypeInit, TypeStep, PTL DEF Spec

-----------------------------------------------------------------------------
(* Effects, results and lists                                                *)

\* An answer behind which the request may have taken effect.
Doubtful(t) == \/ pc[t] = "answered" /\ status[t] \in Unsure
               \/ pc[t] = "done"

\* Until the answer is there, a write has taken effect at most once for every
\* gateway error that was followed by another request; the last one may add one.
EffectOf(t) == /\ effects[t] <= gateway[t] + (IF Doubtful(t) THEN 1 ELSE 0)
               /\ ~Writes(t) => effects[t] = 0
               /\ pc[t] = "answered" /\ status[t] \in {"ok", "garbled"} /\ Writes(t) =>
                    effects[t] >= 1

ResultOf(t) == /\ pc[t] # "done" => result[t] = "none"
               /\ Writes(t) => /\ result[t] \in {"ok", "garbled"} => effects[t] >= 1
                               /\ result[t] \in {"refused", "throttled", "unauthorized", "noauth"} =>
                                    effects[t] <= gateway[t]

ListOf(t) == kind[t] = "list" =>
               /\ page[t] <= pages
               /\ pc[t] # "done" => result[t] = "none" /\ rest[t] = 0
               /\ result[t] = "ok" =>
                    /\ rest[t] = 0 => page[t] = pages \/ uriOnly
                    /\ rest[t] # 0 => rest[t] = page[t] + 1 /\ rest[t] <= pages

TaskInv(t) == EffectOf(t) /\ ResultOf(t) /\ ListOf(t)
Inv == \A t \in Tasks : TaskInv(t)

LEMMA InvInit == Init => Inv
BY ClientAssumption DEF Init, Inv, TaskInv, EffectOf, ResultOf, ListOf, Doubtful, Unsure, Writes

\* A step leaves what is kept of the other tasks alone.
LEMMA OthersKept ==
  ASSUME NEW t \in Tasks, Frame(t), Inv
  PROVE  \A u \in Tasks \ {t} : TaskInv(u)'
BY DEF Frame, Inv, TaskInv, EffectOf, ResultOf, ListOf, Doubtful, Unsure, Writes, config

LEMMA StepFrame ==
  ASSUME TypeOK, NEW t \in Tasks, Step(t)
  PROVE  Frame(t)
<1> USE DEF TypeOK, Goto, tokens, counts, outcome, Frame
<1>1. CASE Auth(t)
  BY <1>1 DEF Auth
<1>2. CASE Acquire(t)
  BY <1>2 DEF Acquire
<1>3. CASE NoCredential(t)
  BY <1>3 DEF NoCredential
<1>4. CASE Store(t)
  BY <1>4 DEF Store
<1>5. CASE Send(t)
  <2>1. PICK s \in Statuses, e \in {0, 1} :
          status' = [status EXCEPT ![t] = s] /\ effects' = [effects EXCEPT ![t] = @ + e]
    BY <1>5, SendPick
  <2> QED BY <1>5, <2>1 DEF Send
<1>6. CASE Unauthorized(t)
  BY <1>6 DEF Unauthorized
<1>7. CASE Throttled(t)
  BY <1>7 DEF Throttled
<1>8. CASE Transient(t)
  BY <1>8 DEF Transient
<1>9. CASE NextPage(t)
  <2>1. CASE page[t] + 1 > MaxPages
    BY <1>9, <2>1 DEF NextPage
  <2>2. CASE ~(page[t] + 1 > MaxPages)
    BY <1>9, <2>2 DEF NextPage
  <2> QED BY <2>1, <2>2
<1>10. CASE Finish(t)
  BY <1>10 DEF Finish
<1> QED BY <1>1, <1>2, <1>3, <1>4, <1>5, <1>6, <1>7, <1>8, <1>9, <1>10 DEF Step

\* The task's own part: one step per action.
LEMMA OwnStep ==
  ASSUME TypeOK, Inv, NEW t \in Tasks, Step(t)
  PROVE  TaskInv(t)'
<1>0. /\ TaskInv(t) /\ effects[t] \in Nat /\ gateway[t] \in Nat /\ page[t] \in Nat
      /\ pages \in Nat /\ kind[t] \in Kinds /\ kind' = kind /\ pages' = pages /\ uriOnly' = uriOnly
  BY StepFrame, ClientAssumption DEF TypeOK, Inv, Frame, config
<1> USE <1>0 DEF TaskInv, EffectOf, ResultOf, ListOf, Doubtful, Unsure, Writes
<1>1. CASE Auth(t) \/ Acquire(t) \/ Store(t)
  <2>1. /\ pc[t] \notin {"answered", "done"} /\ pc'[t] \notin {"answered", "done"}
        /\ effects' = effects /\ gateway' = gateway /\ page' = page
        /\ result' = result /\ rest' = rest
    BY <1>1 DEF Auth, Acquire, Store, TypeOK, Goto, counts, outcome
  <2> QED BY <2>1
<1>2. CASE NoCredential(t)
  <2>1. /\ pc[t] = "acquire" /\ pc'[t] = "done" /\ result'[t] = "noauth"
        /\ effects' = effects /\ gateway' = gateway /\ page' = page /\ rest' = rest
    BY <1>2 DEF NoCredential, TypeOK, Goto, counts
  <2> QED BY <2>1
<1>3. CASE Send(t)
  <2>1. PICK s \in Statuses, e \in {0, 1} :
          /\ status' = [status EXCEPT ![t] = s]
          /\ effects' = [effects EXCEPT ![t] = @ + e]
          /\ ~Writes(t) => e = 0
          /\ s \in {"ok", "garbled"} /\ Writes(t) => e = 1
          /\ s \notin Unsure => e = 0
    BY <1>3, SendPick
  <2>2. /\ pc[t] = "send" /\ pc'[t] = "answered" /\ gateway' = gateway
        /\ page' = page /\ result' = result /\ rest' = rest
    BY <1>3 DEF Send, TypeOK, Goto, counts, outcome
  <2>3. status'[t] = s /\ effects'[t] = effects[t] + e
    BY <2>1 DEF TypeOK
  <2> QED BY <2>1, <2>2, <2>3
<1>4. CASE Unauthorized(t) \/ Throttled(t)
  <2>1. /\ pc[t] = "answered" /\ status[t] \in {"unauthorized", "throttled"} /\ pc'[t] = "auth"
        /\ effects' = effects /\ gateway' = gateway /\ page' = page
        /\ result' = result /\ rest' = rest
    BY <1>4 DEF Unauthorized, Throttled, MayReauth, MayWait, TypeOK, Goto, outcome
  <2> QED BY <2>1
<1>5. CASE Transient(t)
  <2>1. /\ pc[t] = "answered" /\ status[t] = "gateway" /\ pc'[t] = "auth"
        /\ effects' = effects /\ gateway'[t] = gateway[t] + 1 /\ page' = page
        /\ result' = result /\ rest' = rest
    BY <1>5 DEF Transient, MayResend, TypeOK, Goto, outcome
  <2> QED BY <2>1
<1>6. CASE NextPage(t)
  <2>1. /\ pc[t] = "answered" /\ kind[t] = "list" /\ page[t] < pages
        /\ effects' = effects /\ gateway' = gateway
    BY <1>6 DEF NextPage, MoreToList
  <2>2. CASE page[t] + 1 > MaxPages
    <3>1. /\ pc'[t] = "done" /\ result'[t] = "ok" /\ page' = page
          /\ rest'[t] = IF uriOnly THEN 0 ELSE page[t] + 1
      BY <1>6, <2>2 DEF NextPage, TypeOK, Goto
    <3> QED BY <2>1, <3>1
  <2>3. CASE ~(page[t] + 1 > MaxPages)
    <3>1. /\ pc'[t] = "send" /\ result' = result /\ rest' = rest /\ page'[t] = page[t] + 1
      BY <1>6, <2>3 DEF NextPage, TypeOK, Goto, outcome
    <3> QED BY <2>1, <3>1
  <2> QED BY <2>2, <2>3
<1>7. CASE Finish(t)
  <2>1. /\ pc[t] = "answered" /\ pc'[t] = "done" /\ result'[t] = status[t]
        /\ effects' = effects /\ gateway' = gateway /\ page' = page /\ rest' = rest
    BY <1>7 DEF Finish, Outcome, TypeOK, Goto, counts
  <2>2. kind[t] = "list" /\ status[t] = "ok" => page[t] = pages
    BY <1>7 DEF Finish, MoreToList
  <2> QED BY <2>1, <2>2
<1> QED BY <1>1, <1>2, <1>3, <1>4, <1>5, <1>6, <1>7 DEF Step

LEMMA InvStep == TypeOK /\ Inv /\ [Next]_vars => Inv'
<1>1. TypeOK /\ Inv /\ UNCHANGED vars => Inv'
  BY DEF Inv, TaskInv, EffectOf, ResultOf, ListOf, Doubtful, Unsure, Writes, vars
<1>2. TypeOK /\ Inv /\ (Age \/ Revoke) => Inv'
  BY DEF Age, Revoke, Inv, TaskInv, EffectOf, ResultOf, ListOf, Doubtful, Unsure, Writes,
         config, counts, outcome
<1>3. ASSUME TypeOK, Inv, NEW t \in Tasks, Step(t)
      PROVE  Inv'
  <2>1. TaskInv(t)'
    BY <1>3, OwnStep
  <2>2. \A u \in Tasks \ {t} : TaskInv(u)'
    BY <1>3, StepFrame, OthersKept
  <2> QED BY <2>1, <2>2 DEF Inv
<1> QED BY <1>1, <1>2, <1>3, NextSteps

LEMMA InvAlways == Spec => [](TypeOK /\ Inv)
BY TypeInit, TypeStep, InvInit, InvStep, PTL DEF Spec

\* A write takes effect at most once more than it was sent again after a gateway
\* error, for any number of tasks and retries and whenever tokens are revoked.
THEOREM WritesAccounted == Spec => []EffectsAccounted
<1>1. TypeOK /\ Inv => EffectsAccounted
  BY ClientAssumption DEF TypeOK, Inv, TaskInv, EffectOf, EffectsAccounted
<1> QED BY <1>1, InvAlways, PTL

\* Success, or an answer of success that could not be read, is only reported of a
\* write that took effect, and a refusal, when no gateway error came before it, only
\* of one that did not.
THEOREM ReportedTruly == Spec => []ResultTrue
<1>1. TypeOK /\ Inv => ResultTrue
  BY DEF TypeOK, Inv, TaskInv, ResultOf, ResultTrue
<1> QED BY <1>1, InvAlways, PTL

\* A list without a continuation token has all pages, with one it goes on right
\* after the last page read, for any number of pages and any page limit.
THEOREM ListsComplete == Spec => []ListComplete
<1>1. TypeOK /\ Inv => ListComplete
  BY DEF TypeOK, Inv, TaskInv, ListOf, ListComplete
<1> QED BY <1>1, InvAlways, PTL

=============================================================================
