--------------------------- MODULE SharedFiles_proofs ---------------------------
(* What fabio processes keep in files they share without a lock: the token cache  *)
(* (TokenCache), and the binary, the version check and the upgrade marker          *)
(* (SelfUpdate), which have no variable in common.  For any number of processes    *)
(* and any mix of them: types, the file of tokens at rest, the tokens handed out,  *)
(* logout and the newest refresh token; types, the binary that remains, the        *)
(* upgrade that lasts and the throttles.                                           *)
EXTENDS TokenCache, SelfUpdate, TLAPS

-----------------------------------------------------------------------------
(* TokenCache                                                                *)
-----------------------------------------------------------------------------

Active == {"asked", "given", "open", "write", "rename"}

\* Every action but Tick is taken by one process.
Step(p) == \/ Load(p) \/ Refresh(p) \/ Refused(p) \/ AnswerLost(p) \/ Receive(p)
           \/ Login(p) \/ Open(p) \/ Write(p) \/ Rename(p) \/ Break(p)
           \/ Exists(p) \/ Unlink(p)

LEMMA NextSteps == Next => Tick \/ \E p \in Processes : Step(p)
BY DEF Next, Step

LEMMA Sentinels ==
  /\ Missing \notin Tokens /\ Blank \notin Tokens /\ Garbage \notin Tokens
  /\ NoToken \notin Tokens /\ Elsewhere \notin Tokens
BY CacheAssumption

-----------------------------------------------------------------------------
(* Types                                                                     *)

LEMMA TokenParts ==
  ASSUME NEW t \in Tokens
  PROVE  /\ t.session \in Sessions /\ t.login \in Scopes /\ t.scope \in Scopes
         /\ t.refresh \in Nat /\ t.expires \in Nat /\ t.until \in Nat
BY DEF Tokens

LEMMA TypeInit == Init => TypeOK
<1> SUFFICES ASSUME Init PROVE TypeOK
  OBVIOUS
<1>1. file \in Texts
  BY CacheAssumption DEF Init, FirstTokens, Tokens, Sessions, Scopes, Texts
<1>2. clock \in Clock
  BY CacheAssumption DEF Init, Clock
<1> QED BY <1>1, <1>2 DEF Init, TypeOK, Texts, Places

LEMMA SavedTypes ==
  ASSUME TypeOK, NEW p \in Processes, held[p] # NoToken, NEW ok \in BOOLEAN, Saved(p, ok)
  PROVE  answer' \in [Processes -> Tokens \cup {NoToken, Elsewhere}]
BY DEF TypeOK, Saved

LEMMA LoadTypes ==
  ASSUME TypeOK, NEW p \in Processes, Load(p)
  PROVE  TypeOK'
<1> USE DEF TypeOK, Goto, config, files
<1>1. CASE file \in Tokens /\ Usable(p, file)
  BY <1>1, Sentinels DEF Load, Places
<1>2. CASE ~(file \in Tokens /\ Usable(p, file)) /\ file \in Tokens /\ CanRefresh(file)
  BY <1>2, Sentinels DEF Load, Places
<1>3. CASE ~(file \in Tokens /\ Usable(p, file)) /\ ~(file \in Tokens /\ CanRefresh(file))
  BY <1>3, Sentinels DEF Load, Places
<1> QED BY <1>1, <1>2, <1>3

LEMMA RefreshTypes ==
  ASSUME TypeOK, NEW p \in Processes, Refresh(p)
  PROVE  TypeOK'
<1> USE DEF Goto, config, files
<1>1. held[p] \in Tokens /\ pc[p] = "asked"
  BY DEF Refresh, TypeOK
<1>2. held[p].session \in Sessions /\ clock + Life \in Nat
  BY <1>1, CacheAssumption, TokenParts DEF TypeOK, Clock
<1>3. \A rotated \in BOOLEAN : Refreshed(p, rotated) \in Tokens
  <2> SUFFICES ASSUME NEW rotated \in BOOLEAN PROVE Refreshed(p, rotated) \in Tokens
    OBVIOUS
  <2>1. Scope(p) \in Scopes
    BY <1>1, TokenParts DEF Scope, Scopes
  <2>2. (IF rotated THEN issued[held[p].session] + 1 ELSE held[p].refresh) \in Nat
    BY <1>1, <1>2, TokenParts DEF TypeOK
  <2> QED BY <1>1, <1>2, <2>1, <2>2 DEF Refreshed, Tokens
<1>4. PICK rotated \in BOOLEAN :
        /\ held' = [held EXCEPT ![p] = Refreshed(p, rotated)]
        /\ issued' = IF rotated THEN [issued EXCEPT ![held[p].session] = @ + 1] ELSE issued
  BY DEF Refresh
<1>5. /\ issued' \in [Sessions -> Nat]
      /\ lost' \subseteq Sessions /\ met' \subseteq Sessions
  BY <1>2, <1>4 DEF TypeOK, Refresh
<1>6. Refreshed(p, rotated) \in Tokens
  BY <1>3
<1>7. /\ held' \in [Processes -> Tokens \cup {NoToken}]
      /\ \A q \in Processes : held[q] # NoToken => held'[q] # NoToken
  BY <1>4, <1>6, Sentinels DEF TypeOK
<1>8. pc' = [pc EXCEPT ![p] = "given"]
  BY DEF Refresh
<1>9. \A q \in Processes : pc'[q] \in {"asked", "given", "open", "write", "rename"} =>
                             held'[q] # NoToken
  BY <1>1, <1>7, <1>8, Sentinels DEF TypeOK
<1> QED BY <1>5, <1>7, <1>8, <1>9 DEF TypeOK, Refresh, Places

LEMMA EndTypes ==
  ASSUME TypeOK, NEW p \in Processes, Refused(p) \/ AnswerLost(p)
  PROVE  TypeOK'
<1>1. CASE Refused(p)
  BY <1>1 DEF Refused, TypeOK, Goto, config, files, Places
<1>2. CASE AnswerLost(p)
  <2>1. held[p] \in Tokens
    BY <1>2 DEF AnswerLost, TypeOK
  <2>2. lost' \subseteq Sessions
    BY <1>2, <2>1, TokenParts DEF AnswerLost, TypeOK
  <2> QED BY <1>2, <2>2 DEF AnswerLost, TypeOK, Goto, config, files, Places
<1> QED BY <1>1, <1>2

LEMMA ReceiveTypes ==
  ASSUME TypeOK, NEW p \in Processes, Receive(p)
  PROVE  TypeOK' /\ held'[p] \in Tokens
<1>1. held[p] \in Tokens
  BY DEF Receive, TypeOK
<1>2. DEFINE t == [held[p] EXCEPT !.expires = clock + Life]
<1>3. t \in Tokens
  <2>1. clock + Life \in Nat
    BY CacheAssumption DEF TypeOK, Clock
  <2> QED BY <1>1, <2>1 DEF Tokens
<1>4. held' = [held EXCEPT ![p] = t] /\ held'[p] = t
  BY DEF Receive, TypeOK
<1>5. answer' \in [Processes -> Tokens \cup {NoToken, Elsewhere}]
  BY <1>3 DEF Receive, TypeOK
<1> HIDE DEF t
<1>6. pc' \in [Processes -> Places]
  BY DEF Receive, TypeOK, Goto, Places
<1>7. \A q \in Processes : q # p => pc'[q] = pc[q] /\ held'[q] = held[q]
  BY <1>4 DEF Receive, TypeOK, Goto
<1>8. held' \in [Processes -> Tokens \cup {NoToken}]
  BY <1>3, <1>4 DEF TypeOK
<1>9. \A q \in Processes : pc'[q] \in {"asked", "given", "open", "write", "rename"} =>
                             held'[q] # NoToken
  BY <1>3, <1>4, <1>7, Sentinels DEF TypeOK
<1> QED BY <1>3, <1>4, <1>5, <1>6, <1>8, <1>9 DEF Receive, TypeOK, config, files

LEMMA LoginTypes ==
  ASSUME TypeOK, NEW p \in Processes, Login(p)
  PROVE  TypeOK'
<1>1. PICK scope \in Scopes : held' = [held EXCEPT ![p] = LoggedIn(p, scope)]
  BY DEF Login
<1>2. LoggedIn(p, scope) \in Tokens
  <2>1. clock + Life \in Nat
    BY CacheAssumption DEF TypeOK, Clock
  <2> QED BY <2>1 DEF LoggedIn, Tokens, Sessions
<1>3. held' \in [Processes -> Tokens \cup {NoToken}]
  BY <1>1, <1>2 DEF TypeOK
<1>4. \A q \in Processes : held[q] # NoToken => held'[q] # NoToken
  BY <1>1, <1>2, Sentinels DEF TypeOK
<1>5. held'[p] # NoToken
  BY <1>1, <1>2, Sentinels DEF TypeOK
<1>6. \A q \in Processes : pc'[q] \in {"asked", "given", "open", "write", "rename"} =>
                             held'[q] # NoToken
  BY <1>4, <1>5 DEF Login, TypeOK, Goto
<1> QED BY <1>3, <1>6 DEF Login, TypeOK, Goto, config, files, Places

LEMMA SaveTypes ==
  ASSUME TypeOK, NEW p \in Processes, Open(p) \/ Write(p) \/ Rename(p) \/ Break(p)
  PROVE  TypeOK'
<1> USE DEF Goto, config
<1>1. held[p] \in Tokens
  BY DEF Open, Write, Rename, Break, TypeOK
<1>2. held[p] # NoToken /\ held[p].session \in Sessions
  BY <1>1, Sentinels, TokenParts
<1>3. CASE Open(p)
  BY <1>3 DEF Open, TypeOK, Texts, Places
<1>4. CASE Write(p)
  <2>1. Overwritten(file, held[p]) \subseteq Texts /\ Overwritten(tmp, held[p]) \subseteq Texts
    BY <1>1 DEF Overwritten, Texts
  <2>2. file' \in Texts /\ tmp' \in Texts
    BY <1>4, <2>1 DEF Write, TypeOK
  <2>3. answer' \in [Processes -> Tokens \cup {NoToken, Elsewhere}]
    BY <1>2, <1>4, SavedTypes DEF Write, TypeOK
  <2>4. last' \in Texts
    BY <1>1, <1>4 DEF Write, TypeOK, Texts
  <2> QED BY <1>4, <2>2, <2>3, <2>4 DEF Write, TypeOK, Places
<1>5. CASE Rename(p)
  <2>1. answer' \in [Processes -> Tokens \cup {NoToken, Elsewhere}]
    BY <1>2, <1>5, SavedTypes DEF Rename
  <2>2. handle' \in [Processes -> {"none", "file", "tmp", "gone", "broken"}]
    BY <1>5 DEF Rename, Moved, TypeOK
  <2>3. last' \in Texts
    BY <1>1, <1>5 DEF Rename, Texts
  <2> QED BY <1>5, <2>1, <2>2, <2>3 DEF Rename, TypeOK, Texts, Places
<1>6. CASE Break(p)
  <2>1. answer' \in [Processes -> Tokens \cup {NoToken, Elsewhere}]
    BY <1>2, <1>6, SavedTypes DEF Break
  <2>2. file' \in Texts /\ tmp' \in Texts
    BY <1>6 DEF Break, TypeOK, Texts
  <2> QED BY <1>2, <1>6, <2>1, <2>2 DEF Break, TypeOK, Places
<1> QED BY <1>3, <1>4, <1>5, <1>6

\* The sessions a logout ends are held by someone or the first one.
HeldBy == {held[q].session : q \in {r \in Processes : held[r] # NoToken}}

LEMMA BusyTypes == TypeOK => /\ HeldBy \subseteq Sessions
                             /\ \A p \in Processes : Busy(p) \subseteq HeldBy
BY TokenParts DEF TypeOK, HeldBy, Busy

LEMMA ClearTypes ==
  ASSUME TypeOK, NEW p \in Processes, Exists(p) \/ Unlink(p)
  PROVE  TypeOK'
<1>1. CASE Exists(p)
  BY <1>1 DEF Exists, TypeOK, Goto, config, files, Places
<1>2. CASE Unlink(p)
  <2>1. ended' \subseteq Sessions /\ racing' \subseteq Sessions
    BY <1>2, BusyTypes DEF Unlink, TypeOK, HeldBy, Sessions
  <2>2. handle' \in [Processes -> {"none", "file", "tmp", "gone", "broken"}]
    BY <1>2 DEF Unlink, TypeOK
  <2> QED BY <1>2, <2>1, <2>2 DEF Unlink, TypeOK, Goto, config, Texts, Places
<1> QED BY <1>1, <1>2

LEMMA TypeStep == TypeOK /\ [Next]_vars => TypeOK'
<1> SUFFICES ASSUME TypeOK, [Next]_vars PROVE TypeOK'
  OBVIOUS
<1>1. CASE UNCHANGED vars
  BY <1>1 DEF vars, TypeOK
<1>2. CASE Tick
  BY <1>2, CacheAssumption DEF Tick, TypeOK, Clock, config
<1>3. ASSUME NEW p \in Processes, Step(p) PROVE TypeOK'
  BY <1>3, LoadTypes, RefreshTypes, EndTypes, ReceiveTypes, LoginTypes, SaveTypes, ClearTypes
     DEF Step
<1> QED BY <1>1, <1>2, <1>3, NextSteps

\* Every token, file and process state has its type.
THEOREM TypeCorrect == Spec => []TypeOK
BY TypeInit, TypeStep, PTL DEF Spec

-----------------------------------------------------------------------------
(* The file at rest                                                          *)

\* As long as saves stay apart, the one that runs has its file to itself.
SaverInv(p) ==
    /\ pc[p] = "write" =>
         IF windows THEN handle[p] = "tmp" /\ tmp = Blank
                    ELSE handle[p] = "file" /\ file = Blank
    /\ pc[p] = "rename" => windows /\ tmp = held[p]
RestInv == /\ ~torn => /\ \A p, q \in Saving : p = q
                       /\ windows \/ Saving = {} => file = last
                       /\ \A p \in Processes : SaverInv(p)

LEMMA RestInit == Init => RestInv
BY DEF Init, RestInv, Saving, SaverInv

\* Steps that touch no file and neither begin nor end a save.
LEMMA RestAside ==
  ASSUME TypeOK, RestInv, UNCHANGED <<windows, file, tmp, handle, last, torn>>,
         \A q \in Processes : pc'[q] \in {"write", "rename"} => pc'[q] = pc[q] /\ held'[q] = held[q],
         Saving' = Saving
  PROVE  RestInv'
BY DEF RestInv, SaverInv

LEMMA RestSave ==
  ASSUME TypeOK, RestInv, NEW p \in Processes, Open(p) \/ Write(p) \/ Rename(p) \/ Break(p)
  PROVE  RestInv'
<1> USE DEF Goto, config
<1> SUFFICES ASSUME ~torn' PROVE RestInv'
  BY DEF RestInv
<1>0. /\ ~torn /\ windows' = windows /\ held' = held
      /\ \A q \in Processes : q # p => pc'[q] = pc[q]
  BY DEF Open, Write, Rename, Break, TypeOK
<1>1. /\ \A q, r \in Saving : q = r
      /\ windows \/ Saving = {} => file = last
      /\ \A q \in Processes : SaverInv(q)
  BY <1>0 DEF RestInv
<1>2. CASE Open(p)
  <2>1. Saving = {} /\ pc'[p] = "write" /\ Saving' = {p}
    BY <1>0, <1>2 DEF Open, Saving, TypeOK
  <2>2. SaverInv(p)'
    BY <1>0, <1>2, <2>1 DEF Open, SaverInv, TypeOK
  <2>3. \A q \in Processes : q # p => SaverInv(q)'
    BY <1>0, <2>1 DEF Saving, SaverInv
  <2>4. windows' => file' = last'
    BY <1>0, <1>1, <1>2 DEF Open
  <2> QED BY <2>1, <2>2, <2>3, <2>4 DEF RestInv
<1>3. CASE Write(p)
  <2>1. Saving = {p} /\ SaverInv(p)
    BY <1>1, <1>3 DEF Write, Saving
  <2>2. \A q \in Processes : q # p => SaverInv(q)'
    BY <1>0, <2>1 DEF Saving, SaverInv
  <2>3. CASE windows
    <3>1. tmp' = held[p] /\ file' = file /\ last' = last /\ pc'[p] = "rename"
      BY <1>3, <2>1, <2>3 DEF Write, SaverInv, Overwritten, TypeOK
    <3>2. Saving' = {p} /\ SaverInv(p)'
      BY <1>0, <2>1, <2>3, <3>1 DEF Saving, SaverInv
    <3> QED BY <1>0, <1>1, <2>2, <2>3, <3>1, <3>2 DEF RestInv
  <2>4. CASE ~windows
    <3>1. file' = held[p] /\ last' = held[p] /\ pc'[p] = "done"
      BY <1>3, <2>1, <2>4 DEF Write, SaverInv, Overwritten, TypeOK
    <3>2. Saving' = {} /\ SaverInv(p)'
      BY <1>0, <2>1, <3>1 DEF Saving, SaverInv
    <3> QED BY <2>2, <3>1, <3>2 DEF RestInv
  <2> QED BY <2>3, <2>4
<1>4. CASE Rename(p)
  <2>1. Saving = {p} /\ SaverInv(p)
    BY <1>1, <1>4 DEF Rename, Saving
  <2>2. file' = held[p] /\ last' = held[p] /\ pc'[p] = "done"
    BY <1>4, <2>1 DEF Rename, SaverInv, TypeOK
  <2>3. Saving' = {} /\ \A q \in Processes : SaverInv(q)'
    BY <1>0, <2>1, <2>2 DEF Saving, SaverInv
  <2> QED BY <2>2, <2>3 DEF RestInv
<1>5. CASE Break(p)
  <2>1. pc'[p] = "done" /\ last' = last
    BY <1>5 DEF Break, TypeOK
  <2>2. file' = file
    <3>1. CASE pc[p] = "write"
      BY <1>0, <1>1, <1>5, <3>1 DEF Break, SaverInv
    <3>2. CASE pc[p] # "write"
      BY <1>5, <3>2 DEF Break
    <3> QED BY <3>1, <3>2
  <2>3. CASE p \in Saving
    <3>1. Saving = {p} /\ Saving' = {}
      BY <1>0, <1>1, <2>1, <2>3 DEF Saving
    <3>2. \A q \in Processes : SaverInv(q)'
      BY <3>1 DEF Saving, SaverInv
    <3>3. windows
      BY <1>0, <1>1, <1>5, <2>3 DEF Break, Saving, SaverInv
    <3> QED BY <1>1, <2>1, <2>2, <3>1, <3>2, <3>3 DEF RestInv
  <2>4. CASE p \notin Saving
    <3>1. pc[p] = "open" /\ Saving' = Saving
      BY <1>0, <1>5, <2>1, <2>4 DEF Break, Saving
    <3>2. tmp' = tmp /\ \A q \in Processes : q # p => handle'[q] = handle[q]
      BY <1>5, <3>1 DEF Break, TypeOK
    <3>3. \A q \in Processes : SaverInv(q)'
      BY <1>0, <1>1, <2>1, <2>2, <3>2 DEF SaverInv
    <3> QED BY <1>0, <1>1, <2>1, <2>2, <3>1, <3>3 DEF RestInv
  <2> QED BY <2>3, <2>4
<1> QED BY <1>2, <1>3, <1>4, <1>5

LEMMA RestUnlink ==
  ASSUME TypeOK, RestInv, NEW p \in Processes, Unlink(p)
  PROVE  RestInv'
<1> SUFFICES ASSUME ~torn' PROVE RestInv'
  BY DEF RestInv
<1>1. /\ UNCHANGED <<windows, held, tmp>> /\ pc[p] = "unlink" /\ pc'[p] = "done"
      /\ \A q \in Processes : q # p => pc'[q] = pc[q]
  BY DEF Unlink, TypeOK, Goto, config
<1>2. Saving' = Saving
  BY <1>1 DEF Saving
<1>3. CASE file = Missing
  BY <1>1, <1>2, <1>3, RestAside DEF Unlink
<1>4. CASE file # Missing
  <2>1. Saving = {} /\ file' = Missing /\ last' = Missing
    BY <1>4 DEF Unlink
  <2>2. \A q \in Processes : SaverInv(q)'
    BY <1>2, <2>1 DEF Saving, SaverInv
  <2> QED BY <1>2, <2>1, <2>2 DEF RestInv
<1> QED BY <1>3, <1>4

LEMMA RestStep == TypeOK /\ RestInv /\ [Next]_vars => RestInv'
<1> SUFFICES ASSUME TypeOK, RestInv, [Next]_vars PROVE RestInv'
  OBVIOUS
<1>1. CASE UNCHANGED vars \/ Tick
  BY <1>1 DEF vars, Tick, config, RestInv, SaverInv, Saving
<1>2. ASSUME NEW p \in Processes,
             Load(p) \/ Refresh(p) \/ Refused(p) \/ AnswerLost(p) \/ Receive(p) \/ Login(p)
             \/ Exists(p)
      PROVE  RestInv'
  <2>1. UNCHANGED <<windows, file, tmp, handle, last, torn>>
    BY <1>2 DEF Load, Refresh, Refused, AnswerLost, Receive, Login, Exists, config, files
  <2>2. /\ pc[p] \notin {"write", "rename"} /\ pc'[p] \notin {"write", "rename"}
        /\ \A q \in Processes : q # p => pc'[q] = pc[q]
    BY <1>2 DEF Load, Refresh, Refused, AnswerLost, Receive, Login, Exists, Goto, TypeOK
  <2>3. \A q \in Processes : q # p => held'[q] = held[q]
    BY <1>2 DEF Load, Refresh, Refused, AnswerLost, Receive, Login, Exists, TypeOK
  <2>4. Saving' = Saving
    BY <2>2 DEF Saving
  <2> QED BY <2>1, <2>2, <2>3, <2>4, RestAside
<1>3. ASSUME NEW p \in Processes, Step(p) PROVE RestInv'
  BY <1>2, <1>3, RestSave, RestUnlink DEF Step
<1> QED BY <1>1, <1>3, NextSteps

\* Saves that do not overlap and are not cut off leave the file as the last one
\* wrote it, on both kinds of platform.
THEOREM FileAtRest == Spec => []LastSaveStands
<1>1. RestInv => LastSaveStands
  BY DEF RestInv, LastSaveStands
<1> QED BY <1>1, TypeInit, TypeStep, RestInit, RestStep, PTL DEF Spec

-----------------------------------------------------------------------------
(* What a step moves                                                         *)

\* What a step of p leaves alone.
LEMMA StepLeaves ==
  ASSUME TypeOK, NEW p \in Processes, Step(p)
  PROVE  /\ windows' = windows /\ kind' = kind /\ (torn => torn')
         /\ \A q \in Processes : q # p => pc'[q] = pc[q] /\ held'[q] = held[q]
         /\ pc'[p] # "start"
         /\ ~Unlink(p) => ended' = ended /\ racing' = racing
BY DEF Step, Load, Refresh, Refused, AnswerLost, Receive, Login, Open, Write, Rename,
       Break, Exists, Unlink, Goto, TypeOK, config, files

\* The session in the hands of a process is the one it loaded, its own login's, or
\* the one it had.
LEMMA HeldFrom ==
  ASSUME TypeOK, NEW p \in Processes, Step(p)
  PROVE  \/ held'[p] = held[p]
         \/ Load(p) /\ held'[p] = file /\ file \in Tokens
         \/ Login(p) /\ held'[p].session = p /\ held'[p].refresh = 0
         \/ /\ Refresh(p) \/ Receive(p)
            /\ held[p] \in Tokens /\ held'[p].session = held[p].session
<1>1. CASE Load(p)
  BY <1>1 DEF Load, TypeOK
<1>2. CASE Refresh(p)
  <2>1. held[p] \in Tokens
    BY <1>2 DEF Refresh, TypeOK
  <2>2. PICK rotated \in BOOLEAN : held' = [held EXCEPT ![p] = Refreshed(p, rotated)]
    BY <1>2 DEF Refresh
  <2>3. held'[p] = Refreshed(p, rotated)
    BY <2>2 DEF TypeOK
  <2>4. held'[p].session = held[p].session
    BY <2>1, <2>3 DEF Refreshed, Tokens
  <2> QED BY <1>2, <2>1, <2>4
<1>3. CASE Receive(p)
  <2>1. held[p] \in Tokens
    BY <1>3 DEF Receive, TypeOK
  <2>2. held'[p] = [held[p] EXCEPT !.expires = clock + Life]
    BY <1>3 DEF Receive, TypeOK
  <2>3. held'[p].session = held[p].session
    BY <2>1, <2>2 DEF Tokens
  <2> QED BY <1>3, <2>1, <2>3
<1>4. CASE Login(p)
  <2>1. PICK scope \in Scopes : held' = [held EXCEPT ![p] = LoggedIn(p, scope)]
    BY <1>4 DEF Login
  <2>2. held'[p].session = p /\ held'[p].refresh = 0
    BY <2>1 DEF TypeOK, LoggedIn
  <2> QED BY <1>4, <2>2
<1>5. CASE Refused(p) \/ AnswerLost(p) \/ Open(p) \/ Write(p) \/ Rename(p) \/ Break(p)
           \/ Exists(p) \/ Unlink(p)
  BY <1>5 DEF Refused, AnswerLost, Open, Write, Rename, Break, Exists, Unlink, files
<1> QED BY <1>1, <1>2, <1>3, <1>4, <1>5 DEF Step

\* A token gets into a file from the hands of the process that writes there, or
\* with the temporary file.
LEMMA TextFrom ==
  ASSUME TypeOK, NEW p \in Processes, Step(p)
  PROVE  /\ file' \in Tokens =>
              \/ file' = file
              \/ Write(p) /\ file' = held[p]
              \/ Rename(p) /\ file' = tmp
         /\ tmp' \in Tokens => \/ tmp' = tmp
                               \/ Write(p) /\ tmp' = held[p]
<1>1. CASE Write(p)
  <2>1. Overwritten(file, held[p]) \subseteq {held[p], Garbage}
        /\ Overwritten(tmp, held[p]) \subseteq {held[p], Garbage}
    BY DEF Overwritten
  <2> QED BY <1>1, <2>1, Sentinels DEF Write
<1>2. CASE Rename(p)
  BY <1>2, Sentinels DEF Rename
<1>3. CASE Open(p) \/ Break(p) \/ Unlink(p)
  BY <1>3, Sentinels DEF Open, Break, Unlink
<1>4. CASE Load(p) \/ Refresh(p) \/ Refused(p) \/ AnswerLost(p) \/ Receive(p) \/ Login(p)
           \/ Exists(p)
  BY <1>4 DEF Load, Refresh, Refused, AnswerLost, Receive, Login, Exists, files
<1> QED BY <1>1, <1>2, <1>3, <1>4 DEF Step

-----------------------------------------------------------------------------
(* Tokens handed out                                                         *)

\* The file has tokens of the scope their session was logged in with, and so has every
\* process that will save one; a storage command receives what it asked for.
Own(t) == t \in Tokens => t.scope = t.login
ScopeInv == /\ Own(file) /\ Own(tmp)
            /\ \A p \in Processes :
                 pc[p] \in Active =>
                   IF kind[p] # "storage" THEN Own(held[p])
                   ELSE /\ pc[p] \in {"asked", "given"}
                        /\ pc[p] = "given" => held[p].scope = "storage"

LEMMA ScopeInit == Init => ScopeInv
<1> SUFFICES ASSUME Init PROVE ScopeInv
  OBVIOUS
<1>1. Own(file) /\ Own(tmp)
  BY Sentinels DEF Init, FirstTokens, Own
<1> QED BY <1>1 DEF Init, ScopeInv, Active

LEMMA ScopeHeld ==
  ASSUME TypeOK, ScopeInv, NEW p \in Processes, Step(p), pc'[p] \in Active
  PROVE  IF kind[p] # "storage" THEN Own(held'[p])
         ELSE /\ pc'[p] \in {"asked", "given"}
              /\ pc'[p] = "given" => held'[p].scope = "storage"
<1>0. /\ Own(file)
      /\ pc[p] \in Active =>
           IF kind[p] # "storage" THEN Own(held[p])
           ELSE /\ pc[p] \in {"asked", "given"}
                /\ pc[p] = "given" => held[p].scope = "storage"
  BY DEF ScopeInv
<1>1. CASE Load(p)
  BY <1>0, <1>1 DEF Load, Goto, TypeOK, Active
<1>2. CASE Refresh(p)
  <2>1. held[p] \in Tokens /\ pc[p] = "asked" /\ pc'[p] = "given"
    BY <1>2 DEF Refresh, Goto, TypeOK
  <2>2. PICK rotated \in BOOLEAN : held' = [held EXCEPT ![p] = Refreshed(p, rotated)]
    BY <1>2 DEF Refresh
  <2>3. held'[p] = Refreshed(p, rotated)
    BY <2>2 DEF TypeOK
  <2>4. held'[p].scope = Scope(p) /\ held'[p].login = held[p].login
    BY <2>1, <2>3 DEF Refreshed, Tokens
  <2> QED BY <1>0, <2>1, <2>4 DEF Scope, Own, Active
<1>3. CASE Receive(p)
  <2>1. held[p] \in Tokens /\ pc[p] = "given"
    BY <1>3 DEF Receive, TypeOK
  <2>2. held'[p] = [held[p] EXCEPT !.expires = clock + Life]
    BY <1>3 DEF Receive, TypeOK
  <2>3. held'[p].scope = held[p].scope /\ held'[p].login = held[p].login
    BY <2>1, <2>2 DEF Tokens
  <2>4. kind[p] # "storage"
    BY <1>3 DEF Receive, Goto, TypeOK, Active
  <2> QED BY <1>0, <2>1, <2>3, <2>4 DEF Own, Active
<1>4. CASE Login(p)
  <2>1. PICK scope \in Scopes : held' = [held EXCEPT ![p] = LoggedIn(p, scope)]
    BY <1>4 DEF Login
  <2>2. held'[p].scope = held'[p].login
    BY <2>1 DEF TypeOK, LoggedIn
  <2> QED BY <1>4, <2>2 DEF Login, Own
<1>5. CASE Open(p) \/ Write(p)
  <2>1. held' = held /\ pc[p] \in {"open", "write"}
    BY <1>5 DEF Open, Write
  <2> QED BY <1>0, <2>1 DEF Active
<1>6. Refused(p) \/ AnswerLost(p) \/ Rename(p) \/ Break(p) \/ Exists(p) \/ Unlink(p) =>
        pc'[p] \notin Active
  BY DEF Refused, AnswerLost, Rename, Break, Exists, Unlink, Goto, TypeOK, Active
<1> QED BY <1>1, <1>2, <1>3, <1>4, <1>5, <1>6 DEF Step

LEMMA ScopeStep == TypeOK /\ ScopeInv /\ [Next]_vars => ScopeInv'
<1> SUFFICES ASSUME TypeOK, ScopeInv, [Next]_vars PROVE ScopeInv'
  OBVIOUS
<1>1. CASE UNCHANGED vars \/ Tick
  BY <1>1 DEF vars, Tick, config, ScopeInv, Own
<1>2. ASSUME NEW p \in Processes, Step(p) PROVE ScopeInv'
  <2>1. kind' = kind /\ \A q \in Processes : q # p => pc'[q] = pc[q] /\ held'[q] = held[q]
    BY <1>2, StepLeaves
  <2>2. Write(p) => Own(held[p])
    BY DEF Write, ScopeInv, Active
  <2>3. Own(file')
    BY <1>2, <2>2, TextFrom DEF ScopeInv, Own
  <2>4. Own(tmp')
    BY <1>2, <2>2, TextFrom DEF ScopeInv, Own
  <2>5. ASSUME NEW q \in Processes, pc'[q] \in Active
        PROVE  IF kind'[q] # "storage" THEN Own(held'[q])
               ELSE /\ pc'[q] \in {"asked", "given"}
                    /\ pc'[q] = "given" => held'[q].scope = "storage"
    <3>1. CASE q = p
      BY <1>2, <2>1, <2>5, <3>1, ScopeHeld
    <3>2. CASE q # p
      BY <2>1, <2>5, <3>2 DEF ScopeInv
    <3> QED BY <3>1, <3>2
  <2> QED BY <2>3, <2>4, <2>5 DEF ScopeInv, Own
<1> QED BY <1>1, <1>2, NextSteps

LEMMA HandedStep ==
  ASSUME TypeOK, ScopeInv, NEW p \in Processes, Step(p), NEW q \in Processes
  PROVE  HandedOut(q)
<1> SUFFICES ASSUME answer'[q] # answer[q], answer'[q] \in Tokens, kind[q] # "login"
      PROVE  /\ answer'[q].scope = IF kind[q] = "storage" THEN "storage" ELSE answer'[q].login
             /\ answer'[q].until > clock \/ answer'[q].expires - answer'[q].until > Margin
  BY DEF HandedOut
<1>1. q = p
  BY DEF Step, Load, Refresh, Refused, AnswerLost, Receive, Login, Open, Write, Rename,
         Break, Exists, Unlink, Saved, TypeOK
<1>2. Load(p) \/ Receive(p)
  BY <1>1, Sentinels DEF Step, Refresh, Refused, AnswerLost, Login, Open, Write, Rename,
         Break, Exists, Unlink, Saved, TypeOK
<1>3. clock \in Nat /\ Margin \in Nat /\ Life \in Nat /\ Margin < Life
  BY CacheAssumption DEF TypeOK, Clock
<1>4. CASE Load(p)
  <2>1. file \in Tokens /\ Usable(p, file) /\ answer'[p] = file
    BY <1>1, <1>4, Sentinels DEF Load, TypeOK
  <2>2. file.expires \in Nat /\ file.until \in Nat
    BY <2>1, TokenParts
  <2>3. kind[p] # "storage" => file.scope = file.login
    BY <2>1 DEF ScopeInv, Own
  <2> QED BY <1>1, <1>3, <2>1, <2>2, <2>3 DEF Usable, Expired
<1>5. CASE Receive(p)
  <2>1. held[p] \in Tokens
    BY <1>5 DEF Receive, TypeOK
  <2>2. answer'[p] = [held[p] EXCEPT !.expires = clock + Life]
    BY <1>1, <1>5 DEF Receive, TypeOK
  <2>3. held[p].until \in Nat
    BY <2>1, TokenParts
  <2>4. /\ answer'[p].until = held[p].until /\ answer'[p].scope = held[p].scope
        /\ answer'[p].login = held[p].login /\ answer'[p].expires = clock + Life
    BY <2>1, <2>2 DEF Tokens
  <2>5. held[p].scope = IF kind[p] = "storage" THEN "storage" ELSE held[p].login
    BY <1>5, <2>1 DEF Receive, ScopeInv, Own, Active
  <2> QED BY <1>1, <1>3, <2>3, <2>4, <2>5
<1> QED BY <1>2, <1>4, <1>5

\* What a command gets from the file or from a refresh has the scope it asked for, or
\* that of the login for all but storage commands, whatever other processes do to the
\* file; and it is not dead, if answers are not later than the margin.
THEOREM HandedOutFit == Spec => HandedOutFits
<1>1. TypeOK /\ ScopeInv /\ [Next]_vars => [\A p \in Processes : HandedOut(p)]_vars
  <2> SUFFICES ASSUME TypeOK, ScopeInv, Next PROVE \A q \in Processes : HandedOut(q)
    OBVIOUS
  <2>1. Tick => \A q \in Processes : HandedOut(q)
    BY DEF Tick, HandedOut
  <2>2. \A p \in Processes : Step(p) => \A q \in Processes : HandedOut(q)
    BY HandedStep
  <2> QED BY <2>1, <2>2, NextSteps
<1> QED BY <1>1, TypeInit, TypeStep, ScopeInit, ScopeStep, PTL DEF Spec, HandedOutFits
-----------------------------------------------------------------------------
(* Logout                                                                    *)

\* No token of a login that has not begun is anywhere.
FreshInv ==
    \A p \in Processes : pc[p] = "start" =>
        /\ p \notin ended /\ issued[p] = 0 /\ held[p] = NoToken
        /\ \A q \in Processes : held[q] # NoToken => held[q].session # p
        /\ \A text \in {file, tmp} : text \in Tokens => text.session # p

\* A session that was logged out in nobody's hands is neither in the file nor in the
\* hands of a process that could put it there.
EndedInv ==
    /\ \A p \in Processes : pc[p] = "rename" => windows
    /\ ~(windows /\ torn) =>
         \A s \in ended \ racing :
            /\ \A p \in Processes : pc[p] \in Active => held[p].session # s
            /\ file \in Tokens => file.session # s

LEMMA FreshInit == Init => FreshInv
<1> SUFFICES ASSUME Init PROVE FreshInv
  OBVIOUS
<1>1. file \in Tokens => file.session = First
  BY Sentinels DEF Init, FirstTokens
<1>2. tmp \notin Tokens
  BY Sentinels DEF Init
<1> QED BY <1>1, <1>2, CacheAssumption DEF Init, FreshInv, Sessions

LEMMA FreshStep == TypeOK /\ FreshInv /\ [Next]_vars => FreshInv'
<1> SUFFICES ASSUME TypeOK, FreshInv, [Next]_vars PROVE FreshInv'
  OBVIOUS
<1>1. CASE UNCHANGED vars \/ Tick
  BY <1>1 DEF vars, Tick, FreshInv
<1>2. ASSUME NEW p \in Processes, Step(p) PROVE FreshInv'
  <2> SUFFICES ASSUME NEW r \in Processes, pc'[r] = "start"
      PROVE  /\ r \notin ended' /\ issued'[r] = 0 /\ held'[r] = NoToken
             /\ \A q \in Processes : held'[q] # NoToken => held'[q].session # r
             /\ \A text \in {file', tmp'} : text \in Tokens => text.session # r
    BY DEF FreshInv
  <2>1. r # p /\ pc[r] = "start" /\ held'[r] = held[r]
    BY <1>2, StepLeaves
  <2>2. /\ r \notin ended /\ issued[r] = 0 /\ held[r] = NoToken
        /\ \A q \in Processes : held[q] # NoToken => held[q].session # r
        /\ file \in Tokens => file.session # r
        /\ tmp \in Tokens => tmp.session # r
    BY <2>1 DEF FreshInv
  <2>3. r \notin ended'
    BY <1>2, <2>1, <2>2, CacheAssumption, StepLeaves DEF Unlink
  <2>4. issued'[r] = 0
    <3>1. CASE Refresh(p)
      <4>1. held[p].session # r
        BY <2>2, <3>1 DEF Refresh, TypeOK
      <4> QED BY <2>2, <3>1, <4>1 DEF Refresh, TypeOK
    <3>2. CASE ~Refresh(p)
      BY <1>2, <2>2, <3>2 DEF Step, Load, Refused, AnswerLost, Receive, Login, Open, Write,
                             Rename, Break, Exists, Unlink
    <3> QED BY <3>1, <3>2
  <2>5. held'[p] # NoToken => held'[p].session # r
    BY <1>2, <2>1, <2>2, HeldFrom, Sentinels
  <2>6. \A q \in Processes : held'[q] # NoToken => held'[q].session # r
    BY <1>2, <2>2, <2>5, StepLeaves
  <2>7. Write(p) => held[p] # NoToken
    BY DEF Write, TypeOK
  <2>8. \A text \in {file', tmp'} : text \in Tokens => text.session # r
    BY <1>2, <2>2, <2>7, TextFrom
  <2> QED BY <2>1, <2>2, <2>3, <2>4, <2>6, <2>8
<1> QED BY <1>1, <1>2, NextSteps

LEMMA EndedInit == Init => EndedInv
BY DEF Init, EndedInv

\* A process becomes active with what it loads from the file or with a new login.
LEMMA ActiveFrom ==
  ASSUME TypeOK, NEW p \in Processes, Step(p), pc'[p] \in Active
  PROVE  \/ pc[p] \in Active /\ held'[p].session = held[p].session
         \/ pc[p] = "start" /\ file \in Tokens /\ held'[p] = file
         \/ pc[p] = "start" /\ Login(p) /\ held'[p].session = p
<1>1. Refused(p) \/ AnswerLost(p) \/ Rename(p) \/ Break(p) \/ Exists(p) \/ Unlink(p) =>
        pc'[p] \notin Active
  BY DEF Refused, AnswerLost, Rename, Break, Exists, Unlink, Goto, TypeOK, Active
<1>2. CASE Load(p)
  BY <1>2 DEF Load, Goto, TypeOK, Active
<1>3. CASE Login(p)
  <2>1. PICK scope \in Scopes : held' = [held EXCEPT ![p] = LoggedIn(p, scope)]
    BY <1>3 DEF Login
  <2>2. held'[p].session = p
    BY <2>1 DEF TypeOK, LoggedIn
  <2> QED BY <1>3, <2>2 DEF Login
<1>4. CASE Open(p) \/ Write(p)
  BY <1>4 DEF Open, Write, TypeOK, Active
<1>5. CASE Refresh(p) \/ Receive(p)
  <2>1. pc[p] \in Active /\ ~Load(p) /\ ~Login(p)
    BY <1>5 DEF Refresh, Receive, Load, Login, TypeOK, Active
  <2> QED BY <2>1, HeldFrom
<1> QED BY <1>1, <1>2, <1>3, <1>4, <1>5 DEF Step

LEMMA EndedStep ==
  TypeOK /\ RestInv /\ FreshInv /\ EndedInv /\ [Next]_vars => EndedInv'
<1> SUFFICES ASSUME TypeOK, RestInv, FreshInv, EndedInv, [Next]_vars PROVE EndedInv'
  OBVIOUS
<1>1. CASE UNCHANGED vars \/ Tick
  BY <1>1 DEF vars, Tick, config, EndedInv
<1>2. ASSUME NEW p \in Processes, Step(p) PROVE EndedInv'
  <2>1. \A q \in Processes : pc'[q] = "rename" => windows'
    <3>1. pc'[p] = "rename" => windows
      BY <1>2 DEF Step, Load, Refresh, Refused, AnswerLost, Receive, Login, Open, Write,
                  Rename, Break, Exists, Unlink, Goto, TypeOK
    <3> QED BY <1>2, <3>1, StepLeaves DEF EndedInv
  <2> SUFFICES ASSUME ~(windows' /\ torn'), NEW s \in ended' \ racing'
      PROVE  /\ \A q \in Processes : pc'[q] \in Active => held'[q].session # s
             /\ file' \in Tokens => file'.session # s
    BY <2>1 DEF EndedInv
  <2>2. ~(windows /\ torn)
    BY <1>2, StepLeaves
  <2>3. CASE s \in ended \ racing
    <3>1. /\ \A q \in Processes : pc[q] \in Active => held[q].session # s
          /\ file \in Tokens => file.session # s
      BY <2>2, <2>3 DEF EndedInv
    <3>2. pc[p] = "start" => s # p
      BY <2>3 DEF FreshInv
    <3>3. pc'[p] \in Active => held'[p].session # s
      BY <1>2, <3>1, <3>2, ActiveFrom
    <3>4. Write(p) => held[p].session # s
      BY <3>1 DEF Write, Active
    <3>5. Rename(p) => tmp = held[p] /\ held[p].session # s
      BY <2>2, <3>1 DEF Rename, Active, EndedInv, RestInv, SaverInv
    <3>6. file' \in Tokens => file'.session # s
      BY <1>2, <3>1, <3>4, <3>5, TextFrom
    <3> QED BY <1>2, <3>1, <3>3, <3>6, StepLeaves
  <2>4. CASE s \notin ended \ racing
    <3>1. Unlink(p) /\ file # Missing
      BY <1>2, <2>4, StepLeaves DEF Unlink
    <3>2. s \notin Busy(p) /\ file' = Missing
      BY <3>1 DEF Unlink
    <3>3. /\ pc'[p] \notin Active
          /\ \A q \in Processes : q # p => pc'[q] = pc[q] /\ held'[q] = held[q]
      BY <3>1 DEF Unlink, Goto, TypeOK, Active
    <3> QED BY <3>2, <3>3, Sentinels DEF Busy, Active
  <2> QED BY <2>3, <2>4
<1> QED BY <1>1, <1>2, NextSteps

\* A logged-out session never returns to the file, in any number of saves, refreshes,
\* logins and logouts, unless a process had it in hand when the logout removed the
\* file, or two saves met in the temporary file on Windows.
THEOREM LogoutFinal == Spec => []LogoutHolds
<1>1. EndedInv => LogoutHolds
  BY DEF EndedInv, LogoutHolds
<1> QED BY <1>1, TypeInit, TypeStep, RestInit, RestStep, FreshInit, FreshStep, EndedInit,
           EndedStep, PTL DEF Spec
-----------------------------------------------------------------------------
(* The newest refresh token                                                  *)

\* Processes that have an answer of the service to hand out or to save.
Given == {"given", "open", "write", "rename"}

\* Such a process has the newest refresh token of its session, unless one was lost or
\* two processes met; and when the file does not have it, one of them is going to save it.
Excused == lost \cup met
HoldersInv == \A p \in Processes :
    pc[p] \in Given /\ held[p].session \notin Excused =>
        held[p].refresh = issued[held[p].session]
KeptInv == file \in Tokens /\ ~torn /\ file.session \notin Excused =>
    \/ file.refresh = issued[file.session]
    \/ \E p \in Processes : /\ pc[p] \in Given /\ kind[p] # "storage"
                            /\ held[p].session = file.session
NewestInv == HoldersInv /\ KeptInv

LEMMA NewestInit == Init => NewestInv
<1> SUFFICES ASSUME Init PROVE NewestInv
  OBVIOUS
<1>1. file \in Tokens => file.refresh = 0 /\ file.session \in Sessions
  BY Sentinels DEF Init, FirstTokens, Sessions
<1> QED BY <1>1 DEF Init, NewestInv, HoldersInv, KeptInv, Given

\* A step that neither asks the service nor ends a save keeps both, if it leaves a
\* process that had an answer at it, and gives it the newest token when it gets there.
LEMMA NewestAside ==
  ASSUME TypeOK, NewestInv, NEW p \in Processes, Step(p),
         issued' = issued, Excused \subseteq Excused',
         file' \in Tokens /\ ~torn' => file' = file,
         pc'[p] \in Given /\ held'[p].session \notin Excused' =>
             held'[p].refresh = issued[held'[p].session],
         pc[p] \in Given /\ kind[p] # "storage" /\ held[p].session \notin Excused'
             /\ file' \in Tokens /\ ~torn' =>
             \/ pc'[p] \in Given /\ held'[p].session = held[p].session
             \/ file.session = held[p].session => file.refresh = issued[file.session]
  PROVE  NewestInv'
<1>1. /\ kind' = kind /\ (torn => torn')
      /\ \A q \in Processes : q # p => pc'[q] = pc[q] /\ held'[q] = held[q]
  BY StepLeaves
<1>2. HoldersInv'
  <2> SUFFICES ASSUME NEW q \in Processes, pc'[q] \in Given, held'[q].session \notin Excused'
               PROVE  held'[q].refresh = issued[held'[q].session]
    BY DEF HoldersInv
  <2>1. CASE q = p
    BY <2>1
  <2>2. CASE q # p
    BY <1>1, <2>2 DEF NewestInv, HoldersInv
  <2> QED BY <2>1, <2>2
<1>3. KeptInv'
  <2> SUFFICES ASSUME file' \in Tokens, ~torn', file'.session \notin Excused',
                      file'.refresh # issued'[file'.session]
               PROVE  \E q \in Processes : /\ pc'[q] \in Given /\ kind'[q] # "storage"
                                           /\ held'[q].session = file'.session
    BY DEF KeptInv
  <2>1. /\ file' = file /\ ~torn /\ file.session \notin Excused
        /\ file.refresh # issued[file.session]
    BY <1>1
  <2>2. PICK q \in Processes : /\ pc[q] \in Given /\ kind[q] # "storage"
                               /\ held[q].session = file.session
    BY <2>1 DEF NewestInv, KeptInv
  <2>3. pc'[q] \in Given /\ held'[q].session = file'.session
    BY <1>1, <2>1, <2>2
  <2> QED BY <1>1, <2>2, <2>3
<1> QED BY <1>2, <1>3 DEF NewestInv

LEMMA NewestRefresh ==
  ASSUME TypeOK, NewestInv, NEW p \in Processes, Refresh(p)
  PROVE  NewestInv'
<1> DEFINE s == held[p].session
<1>1. PICK rotated \in BOOLEAN :
        /\ held' = [held EXCEPT ![p] = Refreshed(p, rotated)]
        /\ issued' = IF rotated THEN [issued EXCEPT ![s] = @ + 1] ELSE issued
        /\ lost' = IF rotated /\ kind[p] = "storage" THEN lost \cup {s} ELSE lost
        /\ met' = IF IF rotated THEN s \in Answered(p) ELSE held[p].refresh # issued[s]
                    THEN met \cup {s} ELSE met
  BY DEF Refresh
<1>2. /\ pc[p] = "asked" /\ pc'[p] = "given" /\ s \in Sessions
      /\ UNCHANGED <<kind, file, torn>>
      /\ \A q \in Processes : q # p => pc'[q] = pc[q] /\ held'[q] = held[q]
  BY TokenParts DEF Refresh, Goto, TypeOK, config, files
<1>3. /\ held[p] \in Tokens /\ held'[p].session = s
      /\ held'[p].refresh = IF rotated THEN issued[s] + 1 ELSE held[p].refresh
  <2>1. held[p] \in Tokens /\ held'[p] = Refreshed(p, rotated)
    BY <1>1 DEF Refresh, TypeOK
  <2> QED BY <2>1 DEF Refreshed, Tokens
<1>4. Excused \subseteq Excused'
  BY <1>1 DEF Excused
<1>5. /\ \A r \in Sessions : r # s \/ ~rotated => issued'[r] = issued[r]
      /\ rotated => issued'[s] = issued[s] + 1
  BY <1>1, <1>2 DEF TypeOK
<1>6. HoldersInv'
  <2> SUFFICES ASSUME NEW q \in Processes, pc'[q] \in Given, held'[q].session \notin Excused'
               PROVE  held'[q].refresh = issued'[held'[q].session]
    BY DEF HoldersInv
  <2>1. CASE q = p
    <3>1. ~rotated => held[p].refresh = issued[s]
      BY <1>1, <1>3, <2>1 DEF Excused
    <3> QED BY <1>2, <1>3, <1>5, <2>1, <3>1
  <2>2. CASE q # p
    <3>1. held'[q] = held[q] /\ pc[q] \in Given /\ held[q].session \notin Excused
      BY <1>2, <1>4, <2>2
    <3>2. held[q].refresh = issued[held[q].session]
      BY <3>1 DEF NewestInv, HoldersInv
    <3>3. held[q].session \in Sessions
      BY <3>1, TokenParts DEF TypeOK, Given
    <3>4. held[q].session # s \/ ~rotated
      BY <1>1, <1>2, <2>2, <3>1 DEF Answered, Given, Excused
    <3> QED BY <1>5, <3>1, <3>2, <3>3, <3>4
  <2> QED BY <2>1, <2>2
<1>7. KeptInv'
  <2> SUFFICES ASSUME file' \in Tokens, ~torn', file'.session \notin Excused',
                      file'.refresh # issued'[file'.session]
               PROVE  \E q \in Processes : /\ pc'[q] \in Given /\ kind'[q] # "storage"
                                           /\ held'[q].session = file'.session
    BY DEF KeptInv
  <2>1. file' = file /\ ~torn /\ file.session \notin Excused /\ file.session \in Sessions
    BY <1>2, <1>4, TokenParts
  <2>2. CASE file.session = s /\ rotated
    <3>1. kind[p] # "storage" /\ held'[p].session = s
      BY <1>1, <1>3, <1>2, <2>1, <2>2 DEF Excused
    <3> QED BY <1>2, <2>1, <2>2, <3>1 DEF Given
  <2>3. CASE ~(file.session = s /\ rotated)
    <3>1. file.refresh # issued[file.session]
      BY <1>5, <2>1, <2>3
    <3>2. PICK q \in Processes : /\ pc[q] \in Given /\ kind[q] # "storage"
                                 /\ held[q].session = file.session
      BY <2>1, <3>1 DEF NewestInv, KeptInv
    <3>3. q # p
      BY <1>2, <3>2 DEF Given
    <3> QED BY <1>2, <2>1, <3>2, <3>3
  <2> QED BY <2>2, <2>3
<1> QED BY <1>6, <1>7 DEF NewestInv

\* A save that ends while no other is under way puts the newest token in the file.
LEMMA NewestSaved ==
  ASSUME TypeOK, NewestInv, NEW p \in Processes, Step(p),
         issued' = issued, Excused' = Excused, pc[p] \in Given, pc'[p] = "done",
         ~torn' => file' = held[p]
  PROVE  NewestInv'
<1>1. \A q \in Processes : q # p => pc'[q] = pc[q] /\ held'[q] = held[q]
  BY StepLeaves
<1>2. HoldersInv'
  BY <1>1 DEF NewestInv, HoldersInv, Given
<1>3. held[p].session \notin Excused => held[p].refresh = issued[held[p].session]
  BY DEF NewestInv, HoldersInv
<1>4. KeptInv'
  BY <1>3 DEF KeptInv
<1> QED BY <1>2, <1>4 DEF NewestInv

LEMMA NewestStep ==
  TypeOK /\ RestInv /\ FreshInv /\ NewestInv /\ [Next]_vars => NewestInv'
<1> SUFFICES ASSUME TypeOK, RestInv, FreshInv, NewestInv, [Next]_vars PROVE NewestInv'
  OBVIOUS
<1>1. CASE UNCHANGED vars \/ Tick
  BY <1>1 DEF vars, Tick, config, NewestInv, HoldersInv, KeptInv, Excused
<1>2. ASSUME NEW p \in Processes, Step(p) PROVE NewestInv'
  <2>1. CASE Load(p) \/ Refused(p) \/ Exists(p) \/ Unlink(p)
    <3>1. issued' = issued /\ Excused' = Excused /\ (file' \in Tokens => file' = file)
      BY <2>1, Sentinels DEF Load, Refused, Exists, Unlink, files, Excused
    <3>2. pc[p] \notin Given /\ pc'[p] \notin Given
      BY <2>1 DEF Load, Refused, Exists, Unlink, Goto, TypeOK, Given
    <3> QED BY <1>2, <3>1, <3>2, NewestAside
  <2>2. CASE Login(p)
    <3>1. issued' = issued /\ Excused' = Excused /\ file' = file
      BY <2>2 DEF Login, files, Excused
    <3>2. PICK scope \in Scopes : held' = [held EXCEPT ![p] = LoggedIn(p, scope)]
      BY <2>2 DEF Login
    <3>3. held'[p].session = p /\ held'[p].refresh = 0
      BY <3>2 DEF TypeOK, LoggedIn
    <3>4. pc[p] = "start" /\ issued[p] = 0
      BY <2>2 DEF Login, FreshInv
    <3> QED BY <1>2, <3>1, <3>3, <3>4, NewestAside DEF Given
  <2>3. CASE AnswerLost(p) \/ Break(p)
    <3>1. /\ issued' = issued /\ pc'[p] = "done" /\ Excused \subseteq Excused'
          /\ file' \in Tokens => file' = file
      BY <2>3, Sentinels DEF AnswerLost, Break, Goto, TypeOK, files, Excused
    <3>2. ASSUME held[p].session \notin Excused', file.session = held[p].session
          PROVE  file.refresh = issued[file.session]
      <4>1. InFile(p) /\ pc[p] \in Given
        BY <2>3, <3>2 DEF AnswerLost, Break, Excused, Given
      <4>2. held[p].refresh = issued[held[p].session]
        BY <3>1, <3>2, <4>1 DEF NewestInv, HoldersInv
      <4> QED BY <4>1, <4>2 DEF InFile
    <3> QED BY <1>2, <3>1, <3>2, NewestAside DEF Given
  <2>4. CASE Receive(p)
    <3>1. issued' = issued /\ Excused' = Excused /\ file' = file /\ pc[p] = "given"
      BY <2>4 DEF Receive, files, Excused
    <3>2. held[p] \in Tokens /\ held'[p] = [held[p] EXCEPT !.expires = clock + Life]
      BY <2>4 DEF Receive, TypeOK
    <3>3. held'[p].session = held[p].session /\ held'[p].refresh = held[p].refresh
      BY <3>2 DEF Tokens
    <3>4. kind[p] # "storage" => pc'[p] = "open"
      BY <2>4 DEF Receive, Goto, TypeOK
    <3>5. held[p].session \notin Excused => held[p].refresh = issued[held[p].session]
      BY <3>1 DEF NewestInv, HoldersInv, Given
    <3> QED BY <1>2, <3>1, <3>3, <3>4, <3>5, NewestAside DEF Given
  <2>5. CASE Open(p)
    <3>1. /\ issued' = issued /\ Excused' = Excused /\ held' = held
          /\ pc[p] = "open" /\ pc'[p] = "write" /\ (file' \in Tokens => file' = file)
      BY <2>5, Sentinels DEF Open, Goto, TypeOK, Excused
    <3>2. held[p].session \notin Excused => held[p].refresh = issued[held[p].session]
      BY <3>1 DEF NewestInv, HoldersInv, Given
    <3> QED BY <1>2, <3>1, <3>2, NewestAside DEF Given
  <2>6. CASE Write(p) /\ windows
    <3>1. /\ issued' = issued /\ Excused' = Excused /\ held' = held /\ torn' = torn
          /\ pc[p] = "write" /\ pc'[p] = "rename"
      BY <2>6 DEF Write, Goto, TypeOK, Excused
    <3>2. ~torn' => file' = file
      BY <2>6, <3>1 DEF Write, RestInv, SaverInv
    <3>3. held[p].session \notin Excused => held[p].refresh = issued[held[p].session]
      BY <3>1 DEF NewestInv, HoldersInv, Given
    <3> QED BY <1>2, <3>1, <3>2, <3>3, NewestAside DEF Given
  <2>7. CASE Write(p) /\ ~windows
    <3>1. /\ issued' = issued /\ Excused' = Excused /\ torn' = torn
          /\ pc[p] = "write" /\ pc'[p] = "done"
      BY <2>7 DEF Write, Goto, TypeOK, Excused
    <3>2. ~torn' => file' = held[p]
      BY <2>7, <3>1 DEF Write, RestInv, SaverInv, Overwritten
    <3> QED BY <1>2, <3>1, <3>2, NewestSaved DEF Given
  <2>8. CASE Rename(p)
    <3>1. /\ issued' = issued /\ Excused' = Excused /\ torn' = torn
          /\ pc[p] = "rename" /\ pc'[p] = "done"
      BY <2>8 DEF Rename, Goto, TypeOK, Excused
    <3>2. ~torn' => file' = held[p]
      BY <2>8, <3>1 DEF Rename, RestInv, SaverInv
    <3> QED BY <1>2, <3>1, <3>2, NewestSaved DEF Given
  <2> QED BY <1>2, <2>1, <2>2, <2>3, <2>4, <2>5, <2>6, <2>7, <2>8, NewestRefresh DEF Step
<1> QED BY <1>1, <1>2, NextSteps

\* The refresh token in the file is the newest of its session for any number of
\* processes, unless one is about to save a newer one, or one of three things happened
\* to the session: a token was given and not saved (an answer lost, a save failed, a
\* storage command's), two processes had answers for it at once or sent one that was no
\* longer the newest, or saves overlapped or broke.  There is no other way to lose it.
THEOREM NewestInFile == Spec => []NewestKept
<1>1. NewestInv => NewestKept
  BY DEF NewestInv, KeptInv, NewestKept, Given, Excused
<1> QED BY <1>1, TypeInit, TypeStep, RestInit, RestStep, FreshInit, FreshStep, NewestInit,
           NewestStep, PTL DEF Spec

-----------------------------------------------------------------------------
(* SelfUpdate                                                                *)
-----------------------------------------------------------------------------

\* Every action but Hour and Release is taken by a command or for it.
UpdateStep(c) == Prime(c) \/ Check(c) \/ Upgrade(c)

LEMMA UpdateSteps == UpdateNext => Hour \/ Release \/ \E c \in Commands : UpdateStep(c)
BY DEF UpdateNext, UpdateStep

\* Where an upgrade is says what it runs on, and whether it knows a release.
PlaceInv == \A c \in Commands :
  /\ up[c] \in {"chmod", "rename"} => platform # "windows"
  /\ up[c] \in {"removeOld", "moveAway", "moveIn", "rollBack", "cleanUp"} => platform = "windows"
  /\ up[c] \notin {"off", "fetch", "stopped"} => target[c] \in Releases

\* Before its upgrade.
Before == {"new", "due", "mark", "renameMark", "launch"}

\* What the steps of the others do to the upgrades: at most they begin one.
Begins(c) == /\ Launched(c) /\ Whole("exe") /\ stage[c] \in {"new", "launch"}
             /\ UNCHANGED <<platform, name, data, exec>>
             /\ stage'[c] \notin Before /\ \A d \in Commands \ {c} : stage'[d] = stage[d]

LEMMA UpgradesApart ==
  ASSUME UpdateTypes, [UpdateNext]_updateVars
  PROVE  \/ /\ UNCHANGED <<platform, name, data, exec, up, image, target, at, dest, overlapped>>
            /\ \A d \in Commands : stage'[d] \in Before => stage[d] \in Before
         \/ \E c \in Commands : Begins(c)
         \/ \E c \in Commands : Upgrade(c)
<1> USE DEF UpdateTypes, Before, Goes, Onward, world, binary, upgrades, cached, marked, commands
<1>1. CASE Hour \/ Release \/ UNCHANGED updateVars
  BY <1>1 DEF Hour, Release, updateVars
<1>2. CASE \E c \in Commands : UpdateStep(c)
  <2>1. PICK c \in Commands : UpdateStep(c)
    BY <1>2
  <2>2. CASE Start(c)
    BY <2>2 DEF Start, Begins
  <2>3. CASE Launch(c)
    BY <2>3 DEF Launch, Begins
  <2>4. CASE ReadMark(c) \/ WriteMark(c) \/ RenameMark(c) \/ WriteBump(c) \/ RenameBump(c)
               \/ End(c) \/ Check(c)
    BY <2>4 DEF ReadMark, WriteMark, RenameMark, WriteBump, RenameBump, End,
                Check, CheckFetch, CheckRename
  <2> QED BY <2>1, <2>2, <2>3, <2>4 DEF UpdateStep, Prime
<1> QED BY <1>1, <1>2, UpdateSteps

LEMMA UpdateTypesInit == UpdateInit => UpdateTypes
<1> SUFFICES ASSUME UpdateInit PROVE UpdateTypes
  OBVIOUS
<1> USE UpdateAssumption DEF UpdateInit
<1>1. 1 \in Releases /\ Installed \in Inodes
  BY DEF Releases, Inodes
<1>2. cache \in Stamps \cup {None}
  BY DEF Stamps
<1>3. bumped \in Nat \cup {None}
  BY <1>2 DEF Stamps
<1>4. name \in [Names -> Inodes \cup {None}]
  BY <1>1 DEF Names
<1>5. data \in [Inodes -> Releases \cup {Torn}] /\ exec \subseteq Inodes
  BY <1>1
<1>6. /\ target \in [Commands -> 0 .. Newest] /\ at \in [Commands -> Inodes \cup {None}]
      /\ runs \in [Commands -> Binaries \cup {None}] /\ seen \in [Commands -> Stamps \cup {None}]
      /\ image \in [Commands -> Binaries \cup {None}]
  OBVIOUS
<1>7. /\ platform \in Platforms /\ role \in Mixes /\ hours \in Nat /\ latest \in Releases
      /\ raced \in BOOLEAN /\ overlapped \in BOOLEAN
      /\ cacheTmp = None /\ mark = None /\ markTmp = None
  OBVIOUS
<1> QED BY <1>2, <1>3, <1>4, <1>5, <1>6, <1>7 DEF UpdateTypes

LEMMA WholeTypes ==
  ASSUME UpdateTypes, NEW n \in Names, Whole(n)
  PROVE  Binary(n) \in Binaries
BY DEF UpdateTypes, Whole, Binary, Binaries

LEMMA LaunchedTypes ==
  ASSUME UpdateTypes, NEW c \in Commands, Whole("exe"), Launched(c)
  PROVE  /\ image' \in [Commands -> Binaries \cup {None}]
         /\ up' \in [Commands -> {"off", "fetch", "open", "write", "chmod", "rename",
                "removeOld", "moveAway", "moveIn", "rollBack", "cleanUp", "ok", "stopped"}]
         /\ overlapped' \in BOOLEAN
         /\ target' = target /\ at' = at /\ dest' = dest
<1>1. Binary("exe") \in Binaries
  BY WholeTypes DEF Names
<1> QED BY <1>1 DEF UpdateTypes, Launched, Up

LEMMA PrimeTypes ==
  ASSUME UpdateTypes, NEW c \in Commands, Prime(c)
  PROVE  UpdateTypes'
<1> USE DEF UpdateTypes, Goes, Onward, world, binary, upgrades, cached, marked, commands
<1>1. CASE Start(c)
  <2>1. Binary("exe") \in Binaries
    BY <1>1, WholeTypes DEF Start, Names
  <2>2. CASE role[c] = "manual"
    <3>1. Launched(c) /\ Whole("exe")
      BY <1>1, <2>2 DEF Start
    <3> QED BY <1>1, <2>1, <2>2, <3>1, LaunchedTypes DEF Start
  <2>3. CASE role[c] # "manual"
    BY <1>1, <2>1, <2>3 DEF Start
  <2> QED BY <2>2, <2>3
<1>2. CASE ReadMark(c)
  BY <1>2 DEF ReadMark
<1>3. CASE WriteMark(c)
  BY <1>3 DEF WriteMark
<1>4. CASE RenameMark(c)
  BY <1>4 DEF RenameMark
<1>5. CASE Launch(c)
  <2>1. CASE Whole("exe") /\ Launched(c)
    BY <1>5, <2>1, LaunchedTypes DEF Launch
  <2>2. CASE UNCHANGED upgrades
    BY <1>5, <2>2 DEF Launch
  <2> QED BY <1>5, <2>1, <2>2 DEF Launch
<1>6. CASE WriteBump(c)
  <2>1. [time |-> hours, version |-> IF seen[c] = None THEN 0 ELSE seen[c].version] \in Stamps
    BY UpdateAssumption DEF Stamps
  <2> QED BY <1>6, <2>1 DEF WriteBump
<1>7. CASE RenameBump(c)
  <2>1. CASE cacheTmp = None
    BY <1>7, <2>1 DEF RenameBump
  <2>2. CASE cacheTmp # None
    BY <1>7, <2>2 DEF RenameBump, Stamps
  <2> QED BY <2>1, <2>2
<1>8. CASE End(c)
  BY <1>8 DEF End
<1> QED BY <1>1, <1>2, <1>3, <1>4, <1>5, <1>6, <1>7, <1>8 DEF Prime

LEMMA CheckTypes ==
  ASSUME UpdateTypes, NEW c \in Commands, Check(c)
  PROVE  UpdateTypes'
<1> USE DEF UpdateTypes, world, binary, upgrades, cached, marked, commands
<1>1. [time |-> hours, version |-> latest] \in Stamps
  BY UpdateAssumption DEF Stamps, Releases
<1>2. CASE CheckFetch(c)
  BY <1>1, <1>2 DEF CheckFetch
<1>3. CASE CheckRename(c)
  BY <1>3 DEF CheckRename
<1> QED BY <1>2, <1>3 DEF Check

LEMMA UpgradeTypes ==
  ASSUME UpdateTypes, PlaceInv, NEW c \in Commands, Upgrade(c)
  PROVE  UpdateTypes'
<1> USE UpdateAssumption DEF UpdateTypes, Up, On, Quit, Done, Forget, Renamed, Names,
                             world, binary, upgrades, cached, marked, commands
<1>1. CASE Fetch(c)
  BY <1>1 DEF Fetch, Releases
<1>2. CASE OpenTmp(c)
  <2>1. CASE Quit(c, "off") /\ UNCHANGED binary
    BY <1>2, <2>1 DEF OpenTmp
  <2>2. CASE ~(Quit(c, "off") /\ UNCHANGED binary)
    <3> DEFINE i == IF name["tmp"] = None THEN c ELSE name["tmp"]
    <3>1. i \in Inodes
      BY DEF Inodes
    <3>2. /\ name' = [name EXCEPT !["tmp"] = i] /\ data' = [data EXCEPT ![i] = Torn]
          /\ exec' \in {exec, exec \cup {i}} /\ at' = [at EXCEPT ![c] = i]
          /\ dest' = [dest EXCEPT ![c] = IF HasPath(image[c].inode) THEN "exe" ELSE "stray"]
          /\ Up(c, "write") /\ UNCHANGED <<image, target>>
      BY <1>2, <2>2 DEF OpenTmp
    <3> HIDE DEF i
    <3> QED BY <1>2, <3>1, <3>2 DEF OpenTmp
  <2> QED BY <2>1, <2>2
<1>3. CASE WriteTmp(c)
  <2>1. CASE Quit(c, "off") /\ data' = data
    BY <1>3, <2>1 DEF WriteTmp
  <2>2. CASE Swap(c) /\ \E content \in Written(c) : data' = [data EXCEPT ![at[c]] = content]
    <3>1. target[c] \in Releases
      BY <1>3 DEF WriteTmp, PlaceInv
    <3>2. PICK content \in Written(c) : data' = [data EXCEPT ![at[c]] = content]
      BY <2>2
    <3>3. content \in Releases \cup {Torn}
      BY <3>1, <3>2 DEF Written
    <3>4. data' \in [Inodes -> Releases \cup {Torn}]
      BY <3>2, <3>3
    <3> QED BY <1>3, <2>2, <3>4 DEF WriteTmp, Swap
  <2> QED BY <1>3, <2>1, <2>2 DEF WriteTmp
<1>4. CASE Chmod(c)
  BY <1>4 DEF Chmod
<1>5. CASE RenameTmp(c)
  BY <1>5 DEF RenameTmp
<1>6. CASE RemoveOld(c)
  BY <1>6 DEF RemoveOld, OldRemoved
<1>7. CASE MoveAway(c)
  BY <1>7 DEF MoveAway
<1>8. CASE MoveIn(c)
  BY <1>8 DEF MoveIn
<1>9. CASE RollBack(c)
  BY <1>9 DEF RollBack
<1>10. CASE Stop(c)
  BY <1>10 DEF Stop
<1> QED BY <1>1, <1>2, <1>3, <1>4, <1>5, <1>6, <1>7, <1>8, <1>9, <1>10 DEF Upgrade

\* What an upgrade leaves alone: the commands and what they share besides the binary.
LEMMA UpgradeLeaves ==
  ASSUME NEW c \in Commands, Upgrade(c)
  PROVE  UNCHANGED <<world, cached, marked, commands>>
<1>1. Fetch(c) \/ OpenTmp(c) \/ WriteTmp(c) => UNCHANGED <<world, cached, marked, commands>>
  BY DEF Fetch, OpenTmp, WriteTmp
<1>2. Chmod(c) \/ RenameTmp(c) \/ RemoveOld(c) => UNCHANGED <<world, cached, marked, commands>>
  BY DEF Chmod, RenameTmp, RemoveOld
<1>3. MoveAway(c) \/ MoveIn(c) \/ RollBack(c) \/ Stop(c)
        => UNCHANGED <<world, cached, marked, commands>>
  BY DEF MoveAway, MoveIn, RollBack, Stop
<1> QED BY <1>1, <1>2, <1>3 DEF Upgrade

LEMMA PlaceStep ==
  ASSUME UpdateTypes, PlaceInv, [UpdateNext]_updateVars
  PROVE  PlaceInv'
<1> USE DEF UpdateTypes, PlaceInv, world, binary, upgrades, cached, marked, commands
<1>1. CASE UNCHANGED <<platform, up, target>>
  BY <1>1
<1>2. CASE \E c \in Commands : Begins(c)
  BY <1>2 DEF Begins, Launched, Up
<1>3. CASE \E c \in Commands : Upgrade(c)
  <2>1. PICK c \in Commands : Upgrade(c)
    BY <1>3
  <2> USE DEF Up, On, Quit, Done
  <2>2. CASE Fetch(c)
    BY <2>2 DEF Fetch
  <2>3. CASE OpenTmp(c)
    BY <2>3 DEF OpenTmp
  <2>4. CASE WriteTmp(c)
    BY <2>4 DEF WriteTmp, Swap
  <2>5. CASE Chmod(c)
    BY <2>5 DEF Chmod
  <2>6. CASE RenameTmp(c)
    BY <2>6 DEF RenameTmp
  <2>7. CASE RemoveOld(c)
    BY <2>7 DEF RemoveOld
  <2>8. CASE MoveAway(c)
    BY <2>8 DEF MoveAway
  <2>9. CASE MoveIn(c)
    BY <2>9 DEF MoveIn
  <2>10. CASE RollBack(c)
    BY <2>10 DEF RollBack
  <2>11. CASE Stop(c)
    BY <2>11 DEF Stop
  <2> QED BY <2>1, <2>2, <2>3, <2>4, <2>5, <2>6, <2>7, <2>8, <2>9, <2>10, <2>11 DEF Upgrade
<1> QED BY <1>1, <1>2, <1>3, UpgradesApart

LEMMA TypesStep ==
  ASSUME UpdateTypes, PlaceInv, [UpdateNext]_updateVars
  PROVE  UpdateTypes'
<1>1. CASE Hour
  BY <1>1 DEF UpdateTypes, Hour, binary, upgrades, cached, marked, commands
<1>2. CASE Release
  BY <1>2, UpdateAssumption DEF UpdateTypes, Release, Releases, binary, upgrades, cached,
                                marked, commands
<1>3. CASE \E c \in Commands : UpdateStep(c)
  BY <1>3, PrimeTypes, CheckTypes, UpgradeTypes DEF UpdateStep
<1>4. CASE UNCHANGED updateVars
  BY <1>4 DEF UpdateTypes, updateVars, world, binary, upgrades, cached, marked, commands
<1> QED BY <1>1, <1>2, <1>3, <1>4, UpdateSteps

\* The variables have their types.
THEOREM UpdateTypeCorrect == UpdateSpec => []UpdateTypes
<1>1. UpdateInit => UpdateTypes /\ PlaceInv
  BY UpdateTypesInit DEF UpdateInit, PlaceInv
<1>2. UpdateTypes /\ PlaceInv /\ [UpdateNext]_updateVars => UpdateTypes' /\ PlaceInv'
  BY TypesStep, PlaceStep
<1> QED BY <1>1, <1>2, PTL DEF UpdateSpec

-----------------------------------------------------------------------------
(* The inodes                                                                *)

\* An upgrade makes its own inode when it opens the temporary file, if it makes
\* one at all; until then no file of the directory is that inode, and no two
\* files are ever the same one.
Unmade(c) == stage[c] \in Before \/ up[c] \in {"fetch", "open"}
InodeInv ==
  /\ \A c \in Commands : stage[c] \in Before => up[c] = "off"
  /\ \A c \in Commands : Unmade(c) => \A n \in Names : name[n] # c
  /\ \A m, n \in Names : name[m] = name[n] /\ name[m] # None => m = n

LEMMA InodeInit == UpdateInit => InodeInv
<1> SUFFICES ASSUME UpdateInit PROVE InodeInv
  OBVIOUS
<1>1. \A c \in Commands, n \in Names : name[n] # c
  BY UpdateAssumption DEF UpdateInit, Names, Inodes
<1> QED BY <1>1 DEF UpdateInit, InodeInv, Names

\* A step that renames files, or removes one, leaves no file where there was none,
\* and no inode under two names.
LEMMA RenamedApart ==
  ASSUME UpdateTypes, InodeInv, NEW from \in Names, NEW to \in Names, from # to,
         Renamed(from, to), \A c \in Commands : Unmade(c)' => Unmade(c),
         \A c \in Commands : stage'[c] \in Before => up'[c] = "off"
  PROVE  InodeInv'
<1>1. /\ name'[to] = name[from] /\ name'[from] = None
      /\ \A n \in Names \ {from, to} : name'[n] = name[n]
  BY DEF UpdateTypes, Renamed
<1>2. \A c \in Commands : Unmade(c)' => \A n \in Names : name'[n] # c
  BY <1>1, UpdateAssumption DEF InodeInv, Inodes
<1>3. \A m, n \in Names : name'[m] = name'[n] /\ name'[m] # None => m = n
  BY <1>1 DEF InodeInv
<1> QED BY <1>2, <1>3 DEF InodeInv

\* A step that leaves the files alone.
LEMMA NamesApart ==
  ASSUME InodeInv, name' = name, \A c \in Commands : Unmade(c)' => Unmade(c),
         \A c \in Commands : stage'[c] \in Before => up'[c] = "off"
  PROVE  InodeInv'
BY DEF InodeInv

\* An upgrade does not go back to where its inode is unmade.
LEMMA UnmadeStep ==
  ASSUME UpdateTypes, InodeInv, NEW c \in Commands, Upgrade(c)
  PROVE  /\ stage' = stage
         /\ \A d \in Commands : Unmade(d)' => Unmade(d)
         /\ \A d \in Commands : stage'[d] \in Before => up'[d] = "off"
<1> USE DEF UpdateTypes, Up, On, Quit, Done, Swap
<1>1. /\ stage' = stage /\ up[c] # "off"
      /\ \E place \in {"off", "stopped", "open", "write", "chmod", "rename", "removeOld",
                       "moveAway", "moveIn", "rollBack", "cleanUp", "ok"} :
           /\ up' = [up EXCEPT ![c] = place]
           /\ place = "open" => up[c] = "fetch"
  BY DEF Upgrade, Fetch, OpenTmp, WriteTmp, Chmod, RenameTmp, RemoveOld, MoveAway, MoveIn,
         RollBack, Stop, Upgrading, commands
<1>2. stage[c] \notin Before
  BY <1>1 DEF InodeInv
<1> QED BY <1>1, <1>2 DEF Unmade, InodeInv

LEMMA OpenApart ==
  ASSUME UpdateTypes, InodeInv, NEW c \in Commands, OpenTmp(c)
  PROVE  InodeInv'
<1>1. /\ stage' = stage /\ \A d \in Commands : Unmade(d)' => Unmade(d)
      /\ \A d \in Commands : stage'[d] \in Before => up'[d] = "off"
  BY UnmadeStep DEF Upgrade
<1>2. CASE name' = name
  BY <1>1, <1>2, NamesApart
<1>3. CASE name' # name
  <2>1. /\ name["tmp"] = None /\ name' = [name EXCEPT !["tmp"] = c]
        /\ Unmade(c) /\ ~Unmade(c)'
    <3>1. name["tmp"] = None /\ name' = [name EXCEPT !["tmp"] = c] /\ Up(c, "write")
      <4>1. CASE name' = [name EXCEPT !["tmp"] = name["tmp"]]
        BY <1>3, <4>1 DEF UpdateTypes, Names
      <4>2. CASE name["tmp"] = None /\ name' = [name EXCEPT !["tmp"] = c] /\ Up(c, "write")
        BY <4>2
      <4> QED BY <1>3, <4>1, <4>2 DEF OpenTmp, binary
    <3>2. up[c] = "open"
      BY DEF OpenTmp
    <3>3. stage'[c] \notin Before
      BY <1>1, <3>2 DEF InodeInv
    <3> QED BY <3>1, <3>2, <3>3 DEF Unmade, Up, UpdateTypes
  <2>2. name'["tmp"] = c /\ \A n \in Names \ {"tmp"} : name'[n] = name[n] /\ name[n] # c
    BY <2>1 DEF UpdateTypes, InodeInv, Names
  <2>3. \A d \in Commands : Unmade(d)' => \A n \in Names : name'[n] # d
    BY <1>1, <2>1, <2>2 DEF InodeInv
  <2>4. \A m, n \in Names : name'[m] = name'[n] /\ name'[m] # None => m = n
    BY <2>2 DEF InodeInv
  <2> QED BY <1>1, <2>3, <2>4 DEF InodeInv
<1> QED BY <1>2, <1>3

LEMMA InodeStep ==
  ASSUME UpdateTypes, InodeInv, [UpdateNext]_updateVars
  PROVE  InodeInv'
<1>1. CASE /\ UNCHANGED <<platform, name, data, exec, up, image, target, at, dest, overlapped>>
           /\ \A d \in Commands : stage'[d] \in Before => stage[d] \in Before
  BY <1>1 DEF InodeInv, Unmade
<1>2. CASE \E c \in Commands : Begins(c)
  <2>1. PICK c \in Commands : Begins(c)
    BY <1>2
  <2>2. /\ name' = name /\ up'[c] = "fetch" /\ stage[c] \in Before /\ stage'[c] \notin Before
        /\ \A d \in Commands \ {c} : up'[d] = up[d] /\ stage'[d] = stage[d]
    BY <2>1 DEF Begins, Before, Launched, Up, UpdateTypes
  <2> QED BY <2>2, NamesApart DEF InodeInv, Unmade
<1>3. CASE \E c \in Commands : Upgrade(c)
  <2>1. PICK c \in Commands : Upgrade(c)
    BY <1>3
  <2>2. /\ stage' = stage /\ \A d \in Commands : Unmade(d)' => Unmade(d)
        /\ \A d \in Commands : stage'[d] \in Before => up'[d] = "off"
    BY <2>1, UnmadeStep
  <2>3. CASE name' = name
    BY <2>2, <2>3, NamesApart
  <2>4. CASE OpenTmp(c)
    BY <2>4, OpenApart
  <2>5. CASE RenameTmp(c) /\ name' # name
    BY <2>2, <2>5, RenamedApart DEF RenameTmp, UpdateTypes, Names
  <2>6. CASE RemoveOld(c) /\ name' # name
    <3>1. name' = [name EXCEPT !["old"] = None]
      BY <2>6 DEF RemoveOld, OldRemoved
    <3>2. \A n \in Names : name'[n] \in {name[n], None}
      BY <3>1 DEF UpdateTypes
    <3> QED BY <2>2, <3>2, UpdateAssumption DEF InodeInv, Inodes
  <2>7. CASE MoveAway(c) /\ name' # name
    BY <2>2, <2>7, RenamedApart DEF MoveAway, Names
  <2>8. CASE MoveIn(c) /\ name' # name
    BY <2>2, <2>8, RenamedApart DEF MoveIn, Names
  <2>9. CASE RollBack(c) /\ name' # name
    BY <2>2, <2>9, RenamedApart DEF RollBack, Names
  <2> QED BY <2>1, <2>3, <2>4, <2>5, <2>6, <2>7, <2>8, <2>9
          DEF Upgrade, Fetch, WriteTmp, Chmod, Stop, binary
<1> QED BY <1>1, <1>2, <1>3, UpgradesApart

-----------------------------------------------------------------------------
(* The name of the binary                                                    *)

NameInv == platform # "windows" => name["exe"] # None

LEMMA NameStep ==
  ASSUME UpdateTypes, PlaceInv, NameInv, [UpdateNext]_updateVars
  PROVE  NameInv'
<1>1. CASE UNCHANGED <<platform, name>>
  BY <1>1 DEF NameInv
<1>2. CASE \E c \in Commands : Upgrade(c)
  <2>1. PICK c \in Commands : Upgrade(c)
    BY <1>2
  <2> USE DEF UpdateTypes, NameInv, world, binary
  <2>2. CASE OpenTmp(c)
    BY <2>2 DEF OpenTmp, Names
  <2>3. CASE RenameTmp(c)
    BY <2>3 DEF RenameTmp, Renamed, Names
  <2>4. CASE RemoveOld(c) \/ MoveAway(c) \/ MoveIn(c) \/ RollBack(c)
    BY <2>4 DEF RemoveOld, MoveAway, MoveIn, RollBack, PlaceInv
  <2>5. CASE Fetch(c) \/ WriteTmp(c) \/ Chmod(c) \/ Stop(c)
    BY <2>5 DEF Fetch, WriteTmp, Chmod, Stop
  <2> QED BY <2>1, <2>2, <2>3, <2>4, <2>5 DEF Upgrade
<1> QED BY <1>1, <1>2, UpgradesApart DEF Begins
-----------------------------------------------------------------------------
(* The swap                                                                  *)

\* The file n can be started, and is no older than what upgrades said they installed.
Lasts(n) == Whole(n) /\ \A c \in Commands : up[c] = "ok" => data[name[n]] >= target[c]

\* There is such a file: the binary or, between the two renames on Windows or when
\* both of them failed, the one it was renamed to.
Standing == \/ name["exe"] # None /\ Lasts("exe")
            \/ platform = "windows" /\ name["exe"] = None /\ Lasts("old")

\* What an upgrade has in hand, when it has been the only one: it is of a later
\* release than the binary, it is in the temporary file and it is whole.
Fetched == {"open", "write", "chmod", "rename", "removeOld", "moveAway"}
Stored == {"chmod", "rename", "removeOld", "moveAway", "moveIn"}

UpgradeInv(c) ==
  /\ Upgrading(c) => (name["exe"] = None <=> up[c] \in {"moveIn", "rollBack"})
  /\ up[c] \in {"fetch", "open"} =>
       name["exe"] = image[c].inode /\ data[name["exe"]] = image[c].release
  /\ up[c] \in Fetched => target[c] > data[name["exe"]]
  /\ up[c] \in Stored \cup {"write"} =>
       /\ at[c] # None /\ name["tmp"] = at[c]
       /\ up[c] = "rename" \/ platform = "windows" => at[c] \in exec
  /\ up[c] \in {"write", "chmod", "rename"} => dest[c] = "exe"
  /\ up[c] \in Stored => data[at[c]] = target[c]
  /\ up[c] = "moveIn" => target[c] > data[name["old"]]
  /\ up[c] = "cleanUp" => data[name["exe"]] >= target[c]

Alone == \A c, d \in Commands : Upgrading(c) /\ Upgrading(d) => c = d
SwapInv == ~overlapped => Alone /\ Standing /\ \A c \in Commands : UpgradeInv(c)

LEMMA SwapInit == UpdateInit => SwapInv
<1> SUFFICES ASSUME UpdateInit PROVE SwapInv
  OBVIOUS
<1>1. \A c \in Commands : up[c] = "off"
  BY DEF UpdateInit
<1>2. Alone /\ \A c \in Commands : UpgradeInv(c)
  BY <1>1 DEF Alone, UpgradeInv, Upgrading, Fetched, Stored
<1>3. name["exe"] = Installed /\ data[Installed] = 1 /\ exec = {Installed}
  BY DEF UpdateInit, Names, Inodes
<1>4. Standing
  BY <1>1, <1>3, UpdateAssumption DEF Standing, Lasts, Whole, Releases, Inodes
<1> QED BY <1>2, <1>4 DEF SwapInv

\* An upgrade that is not at work has nothing in hand.
LEMMA IdleInv == ASSUME NEW c \in Commands, up[c] \in {"off", "ok", "stopped"}
                 PROVE  UpgradeInv(c)
BY DEF UpgradeInv, Upgrading, Fetched, Stored

\* A file that lasts is still there after a step that changes neither what it holds
\* nor that it can be executed, and ends no upgrade with success.
LEMMA LastsKept ==
  ASSUME UpdateTypes, NEW m \in Names, NEW n \in Names, Lasts(n),
         name'[m] = name[n], data'[name[n]] = data[name[n]], name[n] \in exec',
         \A c \in Commands : up'[c] = "ok" => up[c] = "ok" /\ target'[c] = target[c]
  PROVE  Lasts(m)'
BY DEF Lasts, Whole

\* The frame of an upgrade's step: the others are as before, and it is alone.
Only(c) == /\ UNCHANGED <<platform, overlapped>>
           /\ \A d \in Commands \ {c} : up[d] \in {"off", "ok", "stopped"} /\ up'[d] = up[d]
           /\ \A d \in Commands \ {c} : target'[d] = target[d]

LEMMA UpgradeFrame ==
  ASSUME UpdateTypes, SwapInv, ~overlapped', NEW c \in Commands, Upgrade(c)
  PROVE  /\ Only(c) /\ ~overlapped /\ Standing /\ UpgradeInv(c) /\ Upgrading(c)
         /\ overlapped' = overlapped
<1> USE DEF UpdateTypes, Up, On, Quit, Done, Swap, world, upgrades
<1>1. UNCHANGED <<platform, overlapped>> /\ Upgrading(c)
  BY DEF Upgrade, Fetch, OpenTmp, WriteTmp, Chmod, RenameTmp, RemoveOld, MoveAway, MoveIn,
         RollBack, Stop, Upgrading
<1>2. \A d \in Commands \ {c} : up'[d] = up[d] /\ target'[d] = target[d]
  BY DEF Upgrade, Fetch, OpenTmp, WriteTmp, Chmod, RenameTmp, RemoveOld, MoveAway, MoveIn,
         RollBack, Stop
<1>3. \A d \in Commands \ {c} : up[d] \in {"off", "ok", "stopped"}
  BY <1>1 DEF SwapInv, Alone, Upgrading
<1> QED BY <1>1, <1>2, <1>3 DEF Only, SwapInv

\* With that frame, its own state and the binary are what is left to show.
LEMMA SwapFrame ==
  ASSUME UpdateTypes, NEW c \in Commands, Only(c), Standing', UpgradeInv(c)'
  PROVE  SwapInv'
<1>1. \A d \in Commands \ {c} : UpgradeInv(d)'
  BY DEF Only, UpgradeInv, Upgrading, Fetched, Stored
<1>2. Alone'
  BY DEF Only, Alone, Upgrading
<1> QED BY <1>1, <1>2 DEF SwapInv

\* A step that gives up, or that is killed, leaves the files as they are.
LEMMA QuitSwap ==
  ASSUME UpdateTypes, NEW c \in Commands, NEW place \in {"off", "stopped"}, Quit(c, place),
         Only(c), Standing, UNCHANGED binary
  PROVE  Standing' /\ UpgradeInv(c)'
<1>1. up'[c] = place
  BY DEF Quit, Up, UpdateTypes
<1>2. UpgradeInv(c)'
  BY <1>1 DEF UpgradeInv, Upgrading, Fetched, Stored
<1>3. \A d \in Commands : up'[d] = "ok" => up[d] = "ok" /\ target'[d] = target[d]
  BY <1>1 DEF Only
<1>4. Standing'
  BY <1>3 DEF Standing, Lasts, Whole, Only, binary
<1> QED BY <1>2, <1>4
LEMMA BeginSwap ==
  ASSUME UpdateTypes, SwapInv, ~overlapped', NEW c \in Commands, Begins(c)
  PROVE  SwapInv'
<1> USE DEF UpdateTypes
<1>1. \A d \in Commands : ~Upgrading(d)
  BY DEF Begins, Launched
<1>2. ~overlapped /\ up' = [up EXCEPT ![c] = "fetch"]
  BY DEF Begins, Launched, Up
<1>3. \A d \in Commands \ {c} : up[d] \in {"off", "ok", "stopped"} /\ up'[d] = up[d]
  BY <1>1, <1>2 DEF Upgrading
<1>4. Alone'
  BY <1>2, <1>3 DEF Alone, Upgrading
<1>5. UpgradeInv(c)'
  <2>1. /\ up'[c] = "fetch" /\ name'["exe"] # None
        /\ image'[c] = [inode |-> name["exe"], release |-> data[name["exe"]]]
        /\ name' = name /\ data' = data
    BY <1>2 DEF Begins, Launched, Whole, Binary
  <2> QED BY <2>1 DEF UpgradeInv, Fetched, Stored
<1>6. \A d \in Commands \ {c} : UpgradeInv(d)'
  BY <1>3 DEF UpgradeInv, Upgrading, Fetched, Stored
<1>7. Standing'
  <2>1. \A d \in Commands : up'[d] = "ok" => up[d] = "ok" /\ target'[d] = target[d]
    BY <1>2, <1>3 DEF Begins, Launched
  <2> QED BY <1>2, <2>1 DEF Begins, SwapInv, Standing, Lasts, Whole
<1> QED BY <1>4, <1>5, <1>6, <1>7 DEF SwapInv

LEMMA FetchSwap ==
  ASSUME UpdateTypes, NEW c \in Commands, Fetch(c), Only(c), Standing, UpgradeInv(c)
  PROVE  Standing' /\ UpgradeInv(c)'
<1> USE DEF UpdateTypes
<1>1. CASE Quit(c, "off")
  BY <1>1, QuitSwap DEF Fetch
<1>2. CASE /\ latest > image[c].release /\ target' = [target EXCEPT ![c] = latest]
           /\ Up(c, "open") /\ UNCHANGED <<image, at, dest>>
  <2>1. up[c] = "fetch" /\ up'[c] = "open" /\ UNCHANGED binary /\ target'[c] = latest
    BY <1>2 DEF Fetch, Up
  <2>2. UpgradeInv(c)'
    BY <1>2, <2>1 DEF UpgradeInv, Upgrading, Fetched, Stored, binary
  <2>3. \A d \in Commands : up'[d] = "ok" => up[d] = "ok" /\ target'[d] = target[d]
    BY <2>1 DEF Only
  <2>4. Standing'
    BY <2>1, <2>3 DEF Standing, Lasts, Whole, Only, binary
  <2> QED BY <2>2, <2>4
<1> QED BY <1>1, <1>2 DEF Fetch

LEMMA OpenSwap ==
  ASSUME UpdateTypes, InodeInv, NEW c \in Commands, OpenTmp(c), Only(c), Standing, UpgradeInv(c)
  PROVE  Standing' /\ UpgradeInv(c)'
<1> USE DEF UpdateTypes
<1>1. CASE Quit(c, "off") /\ UNCHANGED binary
  BY <1>1, QuitSwap
<1>2. CASE ~(Quit(c, "off") /\ UNCHANGED binary)
  <2> DEFINE i == IF name["tmp"] = None THEN c ELSE name["tmp"]
  <2>1. /\ name' = [name EXCEPT !["tmp"] = i] /\ data' = [data EXCEPT ![i] = Torn]
        /\ exec' = (IF platform = "windows" THEN exec \cup {i} ELSE exec)
        /\ at' = [at EXCEPT ![c] = i]
        /\ dest' = [dest EXCEPT ![c] = IF HasPath(image[c].inode) THEN "exe" ELSE "stray"]
        /\ Up(c, "write") /\ UNCHANGED <<image, target>>
    BY <1>2 DEF OpenTmp
  <2>2. up[c] = "open" /\ up'[c] = "write"
    BY <2>1 DEF OpenTmp, Up
  <2>3. name["exe"] # None /\ name["exe"] = image[c].inode /\ target[c] > data[name["exe"]]
    BY <2>2 DEF UpgradeInv, Fetched, Upgrading
  <2>4. i \in Inodes /\ i # name["exe"]
    BY <2>2, <2>3, UpdateAssumption DEF InodeInv, Unmade, Names, Inodes
  <2>5. /\ name'["exe"] = name["exe"] /\ name'["tmp"] = i /\ i # None
        /\ data'[name["exe"]] = data[name["exe"]]
    BY <2>1, <2>4, UpdateAssumption DEF Names
  <2>6. at'[c] = i /\ dest'[c] = "exe"
    BY <2>1, <2>3, <2>4 DEF HasPath
  <2>7. UpgradeInv(c)'
    BY <2>1, <2>2, <2>3, <2>5, <2>6 DEF UpgradeInv, Upgrading, Fetched, Stored, Only
  <2>8. Lasts("exe")
    BY <2>3 DEF Standing
  <2>9. Lasts("exe")'
    <3>1. \A d \in Commands : up'[d] = "ok" => up[d] = "ok" /\ target'[d] = target[d]
      BY <2>2 DEF Only
    <3>2. name["exe"] \in exec'
      BY <2>1, <2>8 DEF Lasts, Whole
    <3> QED BY <2>5, <2>8, <3>1, <3>2, LastsKept DEF Names
  <2> QED BY <2>3, <2>5, <2>7, <2>9 DEF Standing
<1> QED BY <1>1, <1>2

LEMMA WriteSwap ==
  ASSUME UpdateTypes, InodeInv, ~overlapped, NEW c \in Commands, WriteTmp(c), Only(c), Standing,
         UpgradeInv(c)
  PROVE  Standing' /\ UpgradeInv(c)'
<1> USE DEF UpdateTypes
<1>1. CASE data' = data /\ Quit(c, "off")
  BY <1>1, QuitSwap DEF WriteTmp, binary
<1>2. CASE (\E content \in Written(c) : data' = [data EXCEPT ![at[c]] = content]) /\ Swap(c)
  <2>1. /\ data' = [data EXCEPT ![at[c]] = target[c]]
        /\ UNCHANGED <<name, exec, image, target, at, dest>>
    BY <1>2 DEF Written, WriteTmp, Swap, On
  <2>2. up[c] = "write" /\ up'[c] = (IF platform = "windows" THEN "removeOld" ELSE "chmod")
    BY <1>2 DEF WriteTmp, Swap, On, Up
  <2>3. /\ name["exe"] # None /\ target[c] > data[name["exe"]]
        /\ at[c] # None /\ name["tmp"] = at[c] /\ dest[c] = "exe"
        /\ platform = "windows" => at[c] \in exec
    BY <2>2 DEF UpgradeInv, Fetched, Stored, Upgrading
  <2>4. at[c] # name["exe"] /\ name["exe"] \in Inodes /\ at[c] \in Inodes
    BY <2>3 DEF InodeInv, Names
  <2>5. data'[at[c]] = target[c] /\ data'[name["exe"]] = data[name["exe"]]
    BY <2>1, <2>4
  <2>6. UpgradeInv(c)'
    BY <2>1, <2>2, <2>3, <2>5 DEF UpgradeInv, Upgrading, Fetched, Stored, Only
  <2>7. Lasts("exe")
    BY <2>3 DEF Standing
  <2>8. Lasts("exe")'
    <3>1. \A d \in Commands : up'[d] = "ok" => up[d] = "ok" /\ target'[d] = target[d]
      BY <2>1, <2>2 DEF Only
    <3> QED BY <2>1, <2>5, <2>7, <3>1, LastsKept DEF Names, Lasts, Whole
  <2> QED BY <2>1, <2>3, <2>6, <2>8 DEF Standing
<1> QED BY <1>1, <1>2 DEF WriteTmp

LEMMA ChmodSwap ==
  ASSUME UpdateTypes, NEW c \in Commands, Chmod(c), Only(c), Standing, UpgradeInv(c)
  PROVE  Standing' /\ UpgradeInv(c)'
<1> USE DEF UpdateTypes
<1>1. CASE exec' = exec /\ Quit(c, "off")
  BY <1>1, QuitSwap DEF Chmod, binary
<1>2. CASE exec' = exec \cup {name["tmp"]} /\ On(c, "rename")
  <2>1. up[c] = "chmod" /\ up'[c] = "rename" /\ UNCHANGED <<name, data, image, target, at, dest>>
    BY <1>2 DEF Chmod, On, Up
  <2>2. UpgradeInv(c)'
    BY <1>2, <2>1 DEF UpgradeInv, Upgrading, Fetched, Stored, Only
  <2>3. name["exe"] # None /\ Lasts("exe")
    BY <2>1 DEF UpgradeInv, Upgrading, Standing
  <2>4. Lasts("exe")'
    <3>1. \A d \in Commands : up'[d] = "ok" => up[d] = "ok" /\ target'[d] = target[d]
      BY <2>1 DEF Only
    <3> QED BY <1>2, <2>1, <2>3, <3>1, LastsKept DEF Names, Lasts, Whole
  <2> QED BY <2>1, <2>2, <2>3, <2>4 DEF Standing
<1> QED BY <1>1, <1>2 DEF Chmod

\* The new binary has taken its name: what it holds is later than what was there.
LEMMA InstalledLasts ==
  ASSUME UpdateTypes, NEW c \in Commands, NEW n \in Names, Only(c), Lasts(n),
         target[c] > data[name[n]], target'[c] = target[c], target[c] \in Releases,
         at[c] \in Inodes, data[at[c]] = target[c], at[c] \in exec,
         name'["exe"] = at[c], data' = data, exec' = exec
  PROVE  Lasts("exe")'
<1>1. data'[name'["exe"]] = target[c]
  OBVIOUS
<1>2. Whole("exe")'
  BY <1>1, UpdateAssumption DEF Whole
<1>3. data[name[n]] \in Releases
  BY DEF Lasts, Whole, UpdateTypes
<1>4. \A d \in Commands : up'[d] = "ok" => target[c] >= target'[d]
  <2>1. \A d \in Commands \ {c} : up'[d] = "ok" => target'[d] = target[d] /\ data[name[n]] >= target[d]
    BY DEF Only, Lasts
  <2>2. \A d \in Commands : target[d] \in Int /\ target'[d] = target[d]
    BY DEF Only, UpdateTypes
  <2>3. data[name[n]] \in Int /\ target[c] \in Int
    BY <1>3 DEF Releases
  <2>4. \A d \in Commands \ {c} : up'[d] = "ok" => target[c] >= target'[d]
    BY <2>1, <2>2, <2>3
  <2> QED BY <2>2, <2>3, <2>4
<1> QED BY <1>1, <1>2, <1>4 DEF Lasts
LEMMA RenameSwap ==
  ASSUME UpdateTypes, PlaceInv, NEW c \in Commands, RenameTmp(c), Only(c), Standing, UpgradeInv(c)
  PROVE  Standing' /\ UpgradeInv(c)'
<1> USE DEF UpdateTypes
<1>1. CASE name' = name /\ Quit(c, "off")
  BY <1>1, QuitSwap DEF RenameTmp, binary
<1>2. CASE name["tmp"] # None /\ Renamed("tmp", dest[c]) /\ Done(c)
  <2>1. up[c] = "rename" /\ up'[c] = "ok" /\ target' = target /\ data' = data /\ exec' = exec
    BY <1>2 DEF RenameTmp, Done, Up
  <2>2. /\ name["exe"] # None /\ target[c] > data[name["exe"]] /\ dest[c] = "exe"
        /\ at[c] # None /\ name["tmp"] = at[c] /\ at[c] \in exec /\ data[at[c]] = target[c]
    BY <2>1 DEF UpgradeInv, Fetched, Stored, Upgrading
  <2>3. name'["exe"] = at[c] /\ target[c] \in Releases
    BY <1>2, <2>1, <2>2 DEF Renamed, Names, PlaceInv
  <2>4. Lasts("exe")
    BY <2>2 DEF Standing
  <2>5. Lasts("exe")'
    BY <2>1, <2>2, <2>3, <2>4, InstalledLasts DEF Names
  <2>6. UpgradeInv(c)'
    BY <2>1 DEF UpgradeInv, Upgrading, Fetched, Stored
  <2> QED BY <2>2, <2>3, <2>5, <2>6 DEF Standing
<1> QED BY <1>1, <1>2 DEF RenameTmp

LEMMA RemoveSwap ==
  ASSUME UpdateTypes, NEW c \in Commands, RemoveOld(c), Only(c), Standing, UpgradeInv(c)
  PROVE  Standing' /\ UpgradeInv(c)'
<1> USE DEF UpdateTypes
<1>1. /\ name'["exe"] = name["exe"] /\ name'["tmp"] = name["tmp"] /\ name["exe"] # None
      /\ data' = data /\ exec' = exec
  BY DEF RemoveOld, OldRemoved, Names, UpgradeInv, Upgrading
<1>2. Lasts("exe")
  BY <1>1 DEF Standing
<1>3. CASE up[c] = "cleanUp"
  <2>1. up'[c] = "ok" /\ target' = target
    BY <1>3 DEF RemoveOld, Done, Up
  <2>2. UpgradeInv(c)'
    BY <2>1 DEF UpgradeInv, Upgrading, Fetched, Stored
  <2>3. data[name["exe"]] >= target[c]
    BY <1>3 DEF UpgradeInv
  <2>4. Lasts("exe")'
    BY <1>1, <1>2, <2>1, <2>3 DEF Lasts, Whole, Only
  <2> QED BY <1>1, <2>2, <2>4 DEF Standing
<1>4. CASE up[c] = "removeOld"
  <2>1. up'[c] = "moveAway" /\ UNCHANGED <<image, target, at, dest>>
    BY <1>4 DEF RemoveOld, On, Up
  <2>2. UpgradeInv(c)'
    BY <1>1, <1>4, <2>1 DEF UpgradeInv, Upgrading, Fetched, Stored, Only
  <2>3. \A d \in Commands : up'[d] = "ok" => up[d] = "ok" /\ target'[d] = target[d]
    BY <2>1 DEF Only
  <2>4. Lasts("exe")'
    BY <1>1, <1>2, <2>3, LastsKept DEF Names, Lasts, Whole
  <2> QED BY <1>1, <2>2, <2>4 DEF Standing
<1> QED BY <1>3, <1>4 DEF RemoveOld

LEMMA AwaySwap ==
  ASSUME UpdateTypes, PlaceInv, NEW c \in Commands, MoveAway(c), Only(c), Standing, UpgradeInv(c)
  PROVE  Standing' /\ UpgradeInv(c)'
<1> USE DEF UpdateTypes
<1>1. CASE name' = name /\ Quit(c, "off")
  BY <1>1, QuitSwap DEF MoveAway, binary
<1>2. CASE name["exe"] # None /\ Renamed("exe", "old") /\ On(c, "moveIn")
  <2>1. /\ up[c] = "moveAway" /\ up'[c] = "moveIn" /\ data' = data /\ exec' = exec
        /\ platform = "windows" /\ UNCHANGED <<image, target, at, dest>>
    BY <1>2 DEF MoveAway, On, Up, PlaceInv
  <2>2. name'["exe"] = None /\ name'["old"] = name["exe"] /\ name'["tmp"] = name["tmp"]
    BY <1>2 DEF Renamed, Names
  <2>3. UpgradeInv(c)'
    BY <2>1, <2>2 DEF UpgradeInv, Upgrading, Fetched, Stored, Only
  <2>4. Lasts("exe")
    BY <1>2 DEF Standing
  <2>5. \A d \in Commands : up'[d] = "ok" => up[d] = "ok" /\ target'[d] = target[d]
    BY <2>1 DEF Only
  <2>6. Lasts("old")'
    BY <2>1, <2>2, <2>4, <2>5, LastsKept DEF Names, Lasts, Whole
  <2> QED BY <2>1, <2>2, <2>3, <2>6 DEF Standing, Only
<1> QED BY <1>1, <1>2 DEF MoveAway

LEMMA InSwap ==
  ASSUME UpdateTypes, PlaceInv, NEW c \in Commands, MoveIn(c), Only(c), Standing, UpgradeInv(c)
  PROVE  Standing' /\ UpgradeInv(c)'
<1> USE DEF UpdateTypes
<1>1. /\ up[c] = "moveIn" /\ platform = "windows" /\ target[c] \in Releases
      /\ name["exe"] = None /\ data' = data /\ exec' = exec
  BY DEF MoveIn, PlaceInv, UpgradeInv, Upgrading
<1>2. Lasts("old")
  BY <1>1 DEF Standing
<1>3. CASE name' = name /\ On(c, "rollBack")
  <2>1. up'[c] = "rollBack" /\ UNCHANGED <<image, target, at, dest>>
    BY <1>3 DEF On, Up
  <2>2. UpgradeInv(c)'
    BY <1>1, <1>3, <2>1 DEF UpgradeInv, Upgrading, Fetched, Stored
  <2>3. \A d \in Commands : up'[d] = "ok" => up[d] = "ok" /\ target'[d] = target[d]
    BY <2>1 DEF Only
  <2>4. Lasts("old")'
    BY <1>1, <1>2, <1>3, <2>3, LastsKept DEF Names, Lasts, Whole
  <2> QED BY <1>1, <1>3, <2>2, <2>4 DEF Standing, Only
<1>4. CASE name["tmp"] # None /\ Renamed("tmp", "exe") /\ On(c, "cleanUp")
  <2>1. up'[c] = "cleanUp" /\ UNCHANGED <<image, target, at, dest>>
    BY <1>4 DEF On, Up
  <2>2. /\ target[c] > data[name["old"]]
        /\ at[c] # None /\ name["tmp"] = at[c] /\ at[c] \in exec /\ data[at[c]] = target[c]
    BY <1>1 DEF UpgradeInv, Stored
  <2>3. name'["exe"] = at[c]
    BY <1>4, <2>2 DEF Renamed, Names
  <2>4. Lasts("exe")'
    BY <1>1, <1>2, <2>1, <2>2, <2>3, InstalledLasts DEF Names
  <2>5. UpgradeInv(c)'
    BY <1>1, <2>1, <2>2, <2>3 DEF UpgradeInv, Upgrading, Fetched, Stored, Releases
  <2> QED BY <2>2, <2>3, <2>4, <2>5 DEF Standing
<1> QED BY <1>3, <1>4 DEF MoveIn

LEMMA BackSwap ==
  ASSUME UpdateTypes, PlaceInv, NEW c \in Commands, RollBack(c), Only(c), Standing, UpgradeInv(c)
  PROVE  Standing' /\ UpgradeInv(c)'
<1> USE DEF UpdateTypes
<1>1. CASE name' = name
  BY <1>1, QuitSwap DEF RollBack, binary
<1>2. CASE name["old"] # None /\ Renamed("old", "exe")
  <2>1. up[c] = "rollBack" /\ up'[c] = "off" /\ data' = data /\ exec' = exec
    BY DEF RollBack, Quit, Up
  <2>2. name["exe"] = None /\ name'["exe"] = name["old"]
    BY <1>2, <2>1 DEF UpgradeInv, Upgrading, Renamed, Names
  <2>3. Lasts("old")
    BY <2>2 DEF Standing
  <2>4. \A d \in Commands : up'[d] = "ok" => up[d] = "ok" /\ target'[d] = target[d]
    BY <2>1 DEF Only
  <2>5. Lasts("exe")'
    BY <2>1, <2>2, <2>3, <2>4, LastsKept DEF Names, Lasts, Whole
  <2>6. UpgradeInv(c)'
    BY <2>1 DEF UpgradeInv, Upgrading, Fetched, Stored
  <2> QED BY <1>2, <2>2, <2>5, <2>6 DEF Standing
<1> QED BY <1>1, <1>2 DEF RollBack

LEMMA SwapStep ==
  ASSUME UpdateTypes, PlaceInv, InodeInv, SwapInv, [UpdateNext]_updateVars
  PROVE  SwapInv'
<1> SUFFICES ASSUME ~overlapped' PROVE SwapInv'
  BY DEF SwapInv
<1>1. CASE UNCHANGED <<platform, name, data, exec, up, image, target, at, dest, overlapped>>
  BY <1>1 DEF SwapInv, Alone, Standing, Lasts, Whole, UpgradeInv, Upgrading
<1>2. CASE \E c \in Commands : Begins(c)
  BY <1>2, BeginSwap
<1>3. CASE \E c \in Commands : Upgrade(c)
  <2>1. PICK c \in Commands : Upgrade(c)
    BY <1>3
  <2>2. Only(c) /\ ~overlapped /\ Standing /\ UpgradeInv(c)
    BY <2>1, UpgradeFrame
  <2> SUFFICES Standing' /\ UpgradeInv(c)'
    BY <2>2, SwapFrame
  <2>3. CASE Fetch(c)
    BY <2>2, <2>3, FetchSwap
  <2>4. CASE OpenTmp(c)
    BY <2>2, <2>4, OpenSwap
  <2>5. CASE WriteTmp(c)
    BY <2>2, <2>5, WriteSwap
  <2>6. CASE Chmod(c)
    BY <2>2, <2>6, ChmodSwap
  <2>7. CASE RenameTmp(c)
    BY <2>2, <2>7, RenameSwap
  <2>8. CASE RemoveOld(c)
    BY <2>2, <2>8, RemoveSwap
  <2>9. CASE MoveAway(c)
    BY <2>2, <2>9, AwaySwap
  <2>10. CASE MoveIn(c)
    BY <2>2, <2>10, InSwap
  <2>11. CASE RollBack(c)
    BY <2>2, <2>11, BackSwap
  <2>12. CASE Stop(c)
    <3>1. Quit(c, "stopped") /\ UNCHANGED binary
      BY <2>12 DEF Stop
    <3> QED BY <2>2, <3>1, QuitSwap
  <2> QED BY <2>1, <2>3, <2>4, <2>5, <2>6, <2>7, <2>8, <2>9, <2>10, <2>11, <2>12 DEF Upgrade
<1> QED BY <1>1, <1>2, <1>3, UpgradesApart

-----------------------------------------------------------------------------

UpgradesInv == UpdateTypes /\ PlaceInv /\ InodeInv /\ NameInv /\ SwapInv

LEMMA UpgradesInvariant == UpdateSpec => []UpgradesInv
<1>1. UpdateInit => UpgradesInv
  BY UpdateTypesInit, InodeInit, SwapInit, UpdateAssumption
     DEF UpgradesInv, UpdateInit, PlaceInv, NameInv, Names, Inodes
<1>2. UpgradesInv /\ [UpdateNext]_updateVars => UpgradesInv'
  BY TypesStep, PlaceStep, InodeStep, NameStep, SwapStep DEF UpgradesInv
<1> QED BY <1>1, <1>2, PTL DEF UpdateSpec

\* At whatever step an upgrade fails or is killed, a binary that can be started
\* remains (replace_executable in commands/upgrade.rs): on Unix its name is never
\* without a file, and unless two upgrades overlapped the file is whole and
\* executable.
THEOREM BinaryStays == UpdateSpec => []BinaryRemains
<1>1. UpgradesInv => BinaryRemains
  BY DEF UpgradesInv, NameInv, SwapInv, Standing, Lasts, BinaryRemains
<1> QED BY <1>1, UpgradesInvariant, PTL

\* What an upgrade reported to have installed is not taken back: whatever runs
\* after it, unless two upgrades overlapped, the binary is of that release or a
\* later one (the comparison of releases in upgrade.rs and the order of its renames).
THEOREM UpgradeLasts == UpdateSpec => []SuccessLasts
<1>1. UpgradesInv => SuccessLasts
  BY DEF UpgradesInv, SwapInv, Standing, Lasts, SuccessLasts
<1> QED BY <1>1, UpgradesInvariant, PTL
-----------------------------------------------------------------------------
(* The throttles                                                             *)

\* A command that goes on to record an attempt found none within the interval, and
\* the attempt it records is as far from the one before it.
MarkInv == ~raced => \A c \in Commands :
  /\ stage[c] \in {"mark", "renameMark"} => Due
  /\ stage[c] = "renameMark" /\ markTmp # None /\ mark # None => markTmp - mark >= RetryAfter

\* The time of the last bump is no later than the cache, and than the cache as any
\* command has read it that is not past its own bump; one that bumps has read it
\* more than the interval ago.
CacheInv ==
  /\ bumped # None => cache # None /\ bumped <= cache.time /\ bumped <= hours
  /\ cacheTmp # None => cacheTmp.time <= hours
  /\ cacheTmp # None /\ bumped # None => bumped <= cacheTmp.time
  /\ \A c \in Commands :
       /\ stage[c] \in {"bump", "renameBump"} => Stale(seen[c])
       /\ stage[c] = "renameBump" /\ cacheTmp # None /\ seen[c] # None =>
            cacheTmp.time - seen[c].time >= RefreshAfter
  /\ ~raced /\ bumped # None => \A c \in Commands :
       Working(c) /\ stage[c] # "work" => seen[c] # None /\ bumped <= seen[c].time

LEMMA MarkHour ==
  ASSUME UpdateTypes, MarkInv, Hour
  PROVE  MarkInv'
<1>1. UNCHANGED <<mark, markTmp, stage, raced>> /\ hours' = hours + 1
  BY DEF Hour, marked, commands
<1>2. Due => Due'
  BY <1>1, UpdateAssumption DEF Due, UpdateTypes
<1> QED BY <1>1, <1>2 DEF MarkInv

LEMMA MarkPrime ==
  ASSUME UpdateTypes, MarkInv, NEW c \in Commands, Prime(c)
  PROVE  MarkInv'
<1> USE DEF UpdateTypes, MarkInv, Due, Goes, Onward, world, marked, commands
<1>1. CASE Start(c)
  BY <1>1 DEF Start
<1>2. CASE ReadMark(c)
  BY <1>2 DEF ReadMark
<1>3. CASE WriteMark(c)
  BY <1>3, UpdateAssumption DEF WriteMark
<1>4. CASE RenameMark(c)
  <2>1. CASE UNCHANGED <<marked, raced>>
    BY <1>4, <2>1 DEF RenameMark
  <2>2. CASE ~UNCHANGED <<marked, raced>> /\ ~raced'
    <3>1. \A d \in Commands \ {c} : stage[d] \notin {"mark", "renameMark"} /\ stage'[d] = stage[d]
      BY <1>4, <2>2 DEF RenameMark
    <3>2. stage'[c] = "launch"
      BY <1>4, <2>2 DEF RenameMark
    <3> QED BY <3>1, <3>2
  <2>3. CASE raced'
    BY <2>3
  <2> QED BY <2>1, <2>2, <2>3
<1>5. CASE Launch(c)
  BY <1>5 DEF Launch
<1>6. CASE WriteBump(c)
  BY <1>6 DEF WriteBump
<1>7. CASE RenameBump(c)
  BY <1>7 DEF RenameBump
<1>8. CASE End(c)
  BY <1>8 DEF End
<1> QED BY <1>1, <1>2, <1>3, <1>4, <1>5, <1>6, <1>7, <1>8 DEF Prime

LEMMA MarkStep ==
  ASSUME UpdateTypes, MarkInv, [UpdateNext]_updateVars
  PROVE  MarkInv'
<1>1. CASE UNCHANGED <<hours, mark, markTmp, stage, raced>>
  BY <1>1 DEF MarkInv, Due
<1>2. CASE \E c \in Commands : Prime(c)
  BY <1>2, MarkPrime
<1>3. CASE Release \/ \E c \in Commands : Check(c)
  BY <1>1, <1>3 DEF Release, Check, CheckFetch, CheckRename, world, marked, commands
<1>4. CASE \E c \in Commands : Upgrade(c)
  BY <1>1, <1>4, UpgradeLeaves DEF world, marked, commands
<1>5. CASE UNCHANGED updateVars
  BY <1>1, <1>5 DEF updateVars, world, marked, commands
<1> QED BY <1>2, <1>3, <1>4, <1>5, MarkHour, UpdateSteps DEF UpdateStep

LEMMA CacheHour ==
  ASSUME UpdateTypes, CacheInv, Hour
  PROVE  CacheInv'
<1>1. UNCHANGED <<cache, cacheTmp, bumped, seen, stage, raced>> /\ hours' = hours + 1
  BY DEF Hour, cached, commands
<1>2. \A c \in Commands : Stale(seen[c]) => Stale(seen[c])'
  BY <1>1, UpdateAssumption DEF Stale, UpdateTypes, Stamps
<1>3. /\ bumped # None => bumped <= hours'
      /\ cacheTmp # None => cacheTmp.time <= hours'
  BY <1>1 DEF CacheInv, UpdateTypes, Stamps
<1> QED BY <1>1, <1>2, <1>3 DEF CacheInv, Working

LEMMA CachePrime ==
  ASSUME UpdateTypes, CacheInv, NEW c \in Commands, Prime(c)
  PROVE  CacheInv'
<1> USE DEF UpdateTypes, CacheInv, Stale, Working, Goes, Onward, world, cached, commands
<1>1. CASE Start(c)
  BY <1>1 DEF Start
<1>2. CASE ReadMark(c)
  BY <1>2 DEF ReadMark
<1>3. CASE WriteMark(c)
  BY <1>3 DEF WriteMark
<1>4. CASE RenameMark(c)
  BY <1>4 DEF RenameMark
<1>5. CASE Launch(c)
  BY <1>5 DEF Launch
<1>6. CASE WriteBump(c)
  <2>1. CASE cacheTmp' = cacheTmp /\ Goes(c, "work")
    BY <1>6, <2>1 DEF WriteBump
  <2>2. CASE /\ Goes(c, "renameBump")
             /\ cacheTmp' = [time |-> hours,
                             version |-> IF seen[c] = None THEN 0 ELSE seen[c].version]
    <3>1. /\ cacheTmp'.time = hours /\ stage[c] = "bump"
          /\ UNCHANGED <<hours, cache, bumped, seen, raced>>
          /\ \A d \in Commands \ {c} : stage'[d] = stage[d]
          /\ stage'[c] = "renameBump"
      BY <1>6, <2>2 DEF WriteBump
    <3>2. \A d \in Commands : stage'[d] = "renameBump" /\ seen[d] # None =>
            hours - seen[d].time >= RefreshAfter
      BY <3>1
    <3>3. \A d \in Commands : stage'[d] \in {"bump", "renameBump"} => Stale(seen[d])'
      BY <3>1
    <3>4. ~raced /\ bumped # None => \A d \in Commands :
            Working(d)' /\ stage'[d] # "work" => seen[d] # None /\ bumped <= seen[d].time
      BY <3>1
    <3> QED BY <3>1, <3>2, <3>3, <3>4
  <2> QED BY <1>6, <2>1, <2>2 DEF WriteBump
<1>7. CASE RenameBump(c)
  <2>1. CASE UNCHANGED <<cached, raced>>
    BY <1>7, <2>1 DEF RenameBump, cached
  <2>2. CASE ~UNCHANGED <<cached, raced>>
    <3>1. /\ cacheTmp # None /\ cache' = cacheTmp /\ cacheTmp' = None /\ bumped' = cacheTmp.time
          /\ UNCHANGED <<hours, seen>> /\ stage' = [stage EXCEPT ![c] = "work"]
      BY <1>7, <2>2 DEF RenameBump
    <3>2. ~raced' => \A d \in Commands \ {c} : ~Working(d) \/ stage[d] = "work"
      BY <1>7, <2>2 DEF RenameBump
    <3>3. bumped' # None => cache' # None /\ bumped' <= cache'.time /\ bumped' <= hours'
      BY <2>2, <3>1 DEF Stamps
    <3>4. \A d \in Commands : stage'[d] \in {"bump", "renameBump"} => Stale(seen[d])'
      BY <3>1
    <3>5. ~raced' => \A d \in Commands : ~Working(d)' \/ stage'[d] = "work"
      BY <3>1, <3>2
    <3> QED BY <3>1, <3>3, <3>4, <3>5
  <2> QED BY <2>1, <2>2
<1>8. CASE End(c)
  BY <1>8 DEF End
<1> QED BY <1>1, <1>2, <1>3, <1>4, <1>5, <1>6, <1>7, <1>8 DEF Prime

LEMMA CacheCheck ==
  ASSUME UpdateTypes, CacheInv, NEW c \in Commands, Check(c)
  PROVE  CacheInv'
<1> USE DEF UpdateTypes, CacheInv, Stale, Working, world, commands
<1>1. CASE CheckFetch(c)
  BY <1>1 DEF CheckFetch, Stamps
<1>2. CASE CheckRename(c)
  BY <1>2 DEF CheckRename, Stamps
<1> QED BY <1>1, <1>2 DEF Check

LEMMA CacheStep ==
  ASSUME UpdateTypes, CacheInv, [UpdateNext]_updateVars
  PROVE  CacheInv'
<1>1. CASE UNCHANGED <<hours, cache, cacheTmp, bumped, seen, stage, raced>>
  BY <1>1 DEF CacheInv, Stale, Working
<1>2. CASE \E c \in Commands : Prime(c)
  BY <1>2, CachePrime
<1>3. CASE \E c \in Commands : Check(c)
  BY <1>3, CacheCheck
<1>4. CASE Release
  BY <1>1, <1>4 DEF Release, cached, commands
<1>5. CASE \E c \in Commands : Upgrade(c)
  BY <1>1, <1>5, UpgradeLeaves DEF world, cached, commands
<1>6. CASE UNCHANGED updateVars
  BY <1>1, <1>6 DEF updateVars, world, cached, commands
<1> QED BY <1>2, <1>3, <1>4, <1>5, <1>6, CacheHour, UpdateSteps DEF UpdateStep

LEMMA ThrottleInvariant == UpdateSpec => [](UpdateTypes /\ MarkInv /\ CacheInv)
<1>1. UpdateInit => MarkInv /\ CacheInv
  BY UpdateAssumption DEF UpdateInit, MarkInv, CacheInv, Working
<1>2. UpdateTypes /\ MarkInv /\ CacheInv /\ [UpdateNext]_updateVars => MarkInv' /\ CacheInv'
  BY MarkStep, CacheStep
<1> QED BY <1>1, <1>2, UpdateTypeCorrect, PTL DEF UpdateSpec
\* Only its own step takes a command past a rename.
LEMMA RenameSteps ==
  ASSUME UpdateTypes, UpdateNext, NEW c \in Commands
  PROVE  /\ stage[c] = "renameMark" /\ stage'[c] # "renameMark" => RenameMark(c)
         /\ stage[c] = "renameBump" /\ stage'[c] # "renameBump" => RenameBump(c)
<1> USE DEF UpdateTypes, Goes, Onward, commands
<1>1. CASE Hour \/ Release
  BY <1>1 DEF Hour, Release
<1>2. CASE \E d \in Commands : UpdateStep(d)
  <2>1. PICK d \in Commands : UpdateStep(d)
    BY <1>2
  <2>2. CASE Check(d) \/ Upgrade(d)
    BY <2>2, UpgradeLeaves DEF Check, CheckFetch, CheckRename
  <2>3. CASE Start(d) \/ ReadMark(d) \/ WriteMark(d) \/ Launch(d) \/ WriteBump(d) \/ End(d)
    BY <2>3 DEF Start, ReadMark, WriteMark, Launch, WriteBump, End
  <2>4. CASE RenameMark(d)
    BY <2>4 DEF RenameMark
  <2>5. CASE RenameBump(d)
    BY <2>5 DEF RenameBump
  <2> QED BY <2>1, <2>2, <2>3, <2>4, <2>5 DEF UpdateStep, Prime
<1> QED BY <1>1, <1>2, UpdateSteps

\* Of the commands that do not overlap in one of the two throttles (prime in
\* version_check.rs), none launches an upgrade within the retry interval of the
\* last one, or a check within the refresh interval, whatever became of that one.
THEOREM ThrottleHolds == UpdateSpec => Throttled
<1>1. ASSUME UpdateTypes, MarkInv, CacheInv, UpdateNext, NEW c \in Commands PROVE Spaced(c)
  <2> SUFFICES ASSUME ~raced' PROVE Spaced(c)
    BY DEF Spaced
  <2>1. ASSUME stage[c] = "renameMark", stage'[c] = "launch", mark # None
        PROVE  mark' - mark >= RetryAfter
    <3>1. RenameMark(c)
      BY <1>1, <2>1, RenameSteps
    <3>2. markTmp # None /\ mark' = markTmp /\ ~raced
      BY <1>1, <2>1, <3>1 DEF RenameMark, UpdateTypes, Goes, Onward
    <3> QED BY <1>1, <2>1, <3>2 DEF MarkInv
  <2>2. ASSUME stage[c] = "renameBump", stage'[c] = "work", cacheTmp # cacheTmp', bumped # None
        PROVE  bumped' - bumped >= RefreshAfter
    <3>1. RenameBump(c)
      BY <1>1, <2>2, RenameSteps
    <3>2. cacheTmp # None /\ bumped' = cacheTmp.time /\ ~raced
      BY <1>1, <2>2, <3>1 DEF RenameBump, cached
    <3>3. /\ seen[c] # None /\ bumped <= seen[c].time
          /\ cacheTmp.time - seen[c].time >= RefreshAfter
      BY <1>1, <2>2, <3>2 DEF CacheInv, Working
    <3>4. bumped \in Int /\ seen[c].time \in Int /\ cacheTmp.time \in Int /\ RefreshAfter \in Int
      BY <1>1, <2>2, <3>2, <3>3, UpdateAssumption DEF UpdateTypes, Stamps
    <3> QED BY <3>2, <3>3, <3>4
  <2> QED BY <2>1, <2>2 DEF Spaced
<1>2. UpdateTypes /\ MarkInv /\ CacheInv /\ [UpdateNext]_updateVars =>
        [\A c \in Commands : Spaced(c)]_updateVars
  BY <1>1
<1> QED BY <1>2, ThrottleInvariant, PTL DEF UpdateSpec, Throttled

=============================================================================
