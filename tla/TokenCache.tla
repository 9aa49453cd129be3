------------------------------ MODULE TokenCache ------------------------------
(***************************************************************************)
(* The token file of `fabio auth login` (token_cache.rs), shared without a   *)
(* lock by every fabio process: commands that load and refresh it, logins,   *)
(* logouts.  A save takes several steps that other processes see.            *)
(*                                                                          *)
(* External: the identity service (it may or may not replace the refresh     *)
(* token, refuse, or have its answer lost) and the file system.  A token     *)
(* carries its session, the login it stems from.  The legacy logout marker   *)
(* is not modelled: nothing reads it.                                        *)
(***************************************************************************)
EXTENDS Integers, FiniteSets

CONSTANTS Processes,   \* fabio processes
          Programs,    \* what the processes may be, functions from Processes to Kinds
          First,       \* the session that is logged in at the start
          Lasting,     \* sessions whose tokens cannot be refreshed (service principals)
          Margin,      \* REFRESH_MARGIN
          Life,        \* expires_in of a new token
          MaxClock,    \* bound on the clock
          MaxBreaks,   \* bound on processes that stop in the middle of a save
          Missing, Blank, Garbage,   \* no file, an empty one, one that does not parse
          NoToken, Elsewhere         \* no answer yet; the next credential of the chain

Kinds == {"fabric", "storage", "login", "logout"}
Sessions == Processes \cup {First}
Clock == 0 .. MaxClock

Scopes == {"fabric", "storage"}

\* login: the scope its session was logged in with (history); expires: expires_on;
\* until: when the service really ends the token; refresh: how many times the service
\* had replaced the refresh token when it gave this one.
Tokens == [session : Sessions, login : Scopes, scope : Scopes, refresh : Nat,
           expires : Nat, until : Nat]

ASSUME CacheAssumption ==
    /\ Programs \subseteq [Processes -> Kinds]
    /\ First \notin Processes /\ Lasting \subseteq Sessions
    /\ Margin \in Nat /\ Life \in Nat /\ Margin < Life
    /\ MaxClock \in Nat /\ MaxBreaks \in Nat
    /\ {Missing, Blank, Garbage, NoToken, Elsewhere} \cap Tokens = {}
    /\ Cardinality({Missing, Blank, Garbage}) = 3 /\ NoToken # Elsewhere

VARIABLES
    clock,     \* the clock
    windows,   \* the build writes a temporary file and renames it
    kind,      \* what each process is
    file,      \* token_cache.json
    tmp,       \* token_cache.tmp
    pc,        \* where each process is
    held,      \* the token each process has loaded or is about to save
    handle,    \* the file each process has open: "file", "tmp", "gone" or "none"
    answer,    \* the token each process ends up with
    issued,    \* for each session, how often the refresh token was replaced
    last,      \* history: what the last save or logout that ended left
    torn,      \* history: saves overlapped, or one was broken off
    ended,     \* history: sessions that existed when a logout ended
    racing,    \* history: those of them in the hands of another process then
    lost,      \* history: sessions of which a refresh token was given and not saved
    met        \* history: sessions that two processes refreshed at the same time

vars == <<clock, windows, kind, file, tmp, pc, held, handle, answer, issued, last, torn,
          ended, racing, lost, met>>
config == <<windows, kind>>
files == <<file, tmp, handle, last, torn, ended, racing>>

Places == {"start", "unlink", "asked", "given", "open", "write", "rename", "done"}
FirstTokens == {[session |-> First, login |-> scope, scope |-> scope, refresh |-> 0,
                 expires |-> Life, until |-> Life] : scope \in Scopes}

Init == /\ clock = 0
        /\ windows \in BOOLEAN /\ kind \in Programs
        /\ file \in FirstTokens \cup {Missing}
        /\ tmp = Missing
        /\ pc = [p \in Processes |-> "start"]
        /\ held = [p \in Processes |-> NoToken]
        /\ handle = [p \in Processes |-> "none"]
        /\ answer = [p \in Processes |-> NoToken]
        /\ issued = [s \in Sessions |-> 0]
        /\ last = file /\ torn = FALSE
        /\ ended = {} /\ racing = {} /\ lost = {} /\ met = {}

Goto(p, place) == pc' = [pc EXCEPT ![p] = place]
Expired(t) == t.expires - Margin <= clock
CanRefresh(t) == t.session \notin Lasting

Tick == /\ clock < MaxClock /\ clock' = clock + 1
        /\ UNCHANGED <<config, file, tmp, pc, held, handle, answer, issued, last, torn,
                       ended, racing, lost, met>>

-----------------------------------------------------------------------------
(* Commands                                                                  *)

\* get_valid_token asks nothing of the scope, get_token_for_scope does.
Usable(p, t) == /\ ~Expired(t)
                /\ kind[p] = "storage" => t.scope = "storage"

\* try_fabio_cache up to the request: a file that is missing or does not parse, or
\* a stale token that cannot be refreshed, leaves the next credential of the chain.
Load(p) ==
    /\ pc[p] = "start" /\ kind[p] \in {"fabric", "storage"}
    /\ IF file \in Tokens /\ Usable(p, file)
         THEN /\ answer' = [answer EXCEPT ![p] = file]
              /\ Goto(p, "done") /\ UNCHANGED held
       ELSE IF file \in Tokens /\ CanRefresh(file)
         THEN /\ held' = [held EXCEPT ![p] = file]
              /\ Goto(p, "asked") /\ UNCHANGED answer
       ELSE /\ answer' = [answer EXCEPT ![p] = Elsewhere]
            /\ Goto(p, "done") /\ UNCHANGED held
    /\ UNCHANGED <<clock, config, files, issued, lost, met>>

Scope(p) == IF kind[p] = "storage" THEN "storage" ELSE held[p].scope

\* Mutant: the refresh token that was sent is kept though a new one came back.
RefreshedOld(p, rotated) ==
    [held[p] EXCEPT !.scope = Scope(p), !.expires = 0, !.until = clock + Life]

\* What the service makes of a refresh; expires is filled in when it arrives.
Refreshed(p, rotated) ==
    [held[p] EXCEPT !.scope = Scope(p), !.expires = 0, !.until = clock + Life,
                    !.refresh = IF rotated THEN issued[held[p].session] + 1 ELSE @]

\* Sessions that another process is refreshing or saving, or has an answer for.
Busy(p) == {held[q].session : q \in {r \in Processes \ {p} :
                                       pc[r] \in {"asked", "given", "open", "write", "rename"}}}
Answered(p) == {held[q].session : q \in {r \in Processes \ {p} :
                                       pc[r] \in {"given", "open", "write", "rename"}}}

\* The service answers; it replaces the refresh token or not.  met: a new token goes
\* out while another process has an answer to save, or one that is not the newest is
\* sent and stays.
Refresh(p) ==
    /\ pc[p] = "asked"
    /\ \E rotated \in BOOLEAN :
         LET s == held[p].session IN
         /\ held' = [held EXCEPT ![p] = Refreshed(p, rotated)]
         /\ issued' = IF rotated THEN [issued EXCEPT ![s] = @ + 1] ELSE issued
         /\ lost' = IF rotated /\ kind[p] = "storage" THEN lost \cup {s} ELSE lost
         /\ met' = IF IF rotated THEN s \in Answered(p) ELSE held[p].refresh # issued[s]
                     THEN met \cup {s} ELSE met
    /\ Goto(p, "given")
    /\ UNCHANGED <<clock, config, files, answer>>

\* Refused: the next credential of the chain.
Refused(p) ==
    /\ pc[p] = "asked"
    /\ answer' = [answer EXCEPT ![p] = Elsewhere]
    /\ Goto(p, "done")
    /\ UNCHANGED <<clock, config, files, held, issued, lost, met>>

\* The file has the refresh token of p already.
InFile(p) == /\ file \in Tokens /\ file.session = held[p].session
             /\ file.refresh = held[p].refresh

\* The answer of the service is lost.
AnswerLost(p) ==
    /\ pc[p] = "given" /\ kind[p] # "login"
    /\ lost' = IF InFile(p) THEN lost ELSE lost \cup {held[p].session}
    /\ answer' = [answer EXCEPT ![p] = Elsewhere]
    /\ Goto(p, "done")
    /\ UNCHANGED <<clock, config, files, held, issued, met>>

\* Mutant: a storage command saves its token like the others.
ReceiveToSave(p) ==
    /\ pc[p] = "given"
    /\ LET t == [held[p] EXCEPT !.expires = clock + Life] IN
         /\ held' = [held EXCEPT ![p] = t]
         /\ answer' = IF kind[p] = "login" THEN answer ELSE [answer EXCEPT ![p] = t]
    /\ Goto(p, "open")
    /\ UNCHANGED <<clock, config, files, issued, lost, met>>

\* refresh_access_token returns, or a login has its token: expires_on counts from
\* now.  Only get_token_for_scope does not save.
Receive(p) ==
    /\ pc[p] = "given"
    /\ LET t == [held[p] EXCEPT !.expires = clock + Life] IN
         /\ held' = [held EXCEPT ![p] = t]
         /\ answer' = IF kind[p] = "login" THEN answer ELSE [answer EXCEPT ![p] = t]
    /\ Goto(p, IF kind[p] = "storage" THEN "done" ELSE "open")
    /\ UNCHANGED <<clock, config, files, issued, lost, met>>

LoggedIn(p, scope) == [session |-> p, login |-> scope, scope |-> scope, refresh |-> 0,
                       expires |-> 0, until |-> clock + Life]

\* device_code_login, browser_login and the service principal logins, once the
\* service has answered.
Login(p) ==
    /\ pc[p] = "start" /\ kind[p] = "login"
    /\ \E scope \in Scopes : held' = [held EXCEPT ![p] = LoggedIn(p, scope)]
    /\ Goto(p, "given")
    /\ UNCHANGED <<clock, config, files, answer, issued, lost, met>>

-----------------------------------------------------------------------------
(* save_token                                                               *)

Saving == {p \in Processes : pc[p] \in {"write", "rename"}}

\* Mutant: the file is opened without truncate.
OpenInPlace(p) ==
    /\ pc[p] = "open"
    /\ IF windows THEN tmp' = Blank /\ UNCHANGED file
                  ELSE file' = (IF file = Missing THEN Blank ELSE file) /\ UNCHANGED tmp
    /\ handle' = [handle EXCEPT ![p] = IF windows THEN "tmp" ELSE "file"]
    /\ torn' = (torn \/ Saving # {})
    /\ Goto(p, "write")
    /\ UNCHANGED <<clock, config, held, answer, issued, last, ended, racing, lost, met>>

\* The file, or the temporary file that all processes share, is emptied.
Open(p) ==
    /\ pc[p] = "open"
    /\ IF windows THEN tmp' = Blank /\ UNCHANGED file
                  ELSE file' = Blank /\ UNCHANGED tmp
    /\ handle' = [handle EXCEPT ![p] = IF windows THEN "tmp" ELSE "file"]
    /\ torn' = (torn \/ Saving # {})
    /\ Goto(p, "write")
    /\ UNCHANGED <<clock, config, held, answer, issued, last, ended, racing, lost, met>>

\* What is written over an earlier text may leave the end of it.
Overwritten(text, t) == IF text = Blank THEN {t} ELSE {t, Garbage}

\* What a process ends with when its save does: refreshes ignore a failed save.
Saved(p, ok) ==
    answer' = IF kind[p] # "login" THEN answer
              ELSE [answer EXCEPT ![p] = IF ok THEN held[p] ELSE Elsewhere]

Write(p) ==
    /\ pc[p] = "write"
    /\ file' \in IF handle[p] = "file" THEN Overwritten(file, held[p]) ELSE {file}
    /\ tmp' \in IF handle[p] = "tmp" THEN Overwritten(tmp, held[p]) ELSE {tmp}
    /\ IF windows THEN Goto(p, "rename") /\ UNCHANGED <<handle, last, answer>>
                  ELSE /\ Goto(p, "done") /\ last' = held[p] /\ Saved(p, TRUE)
                       /\ handle' = [handle EXCEPT ![p] = "none"]
    /\ UNCHANGED <<clock, config, held, issued, torn, ended, racing, lost, met>>

\* Open files keep pointing at what they were opened as.
Moved(p) == [q \in Processes |-> IF q = p THEN "none"
                                 ELSE IF handle[q] = "tmp" THEN "file"
                                 ELSE IF handle[q] = "file" THEN "gone" ELSE handle[q]]

Rename(p) ==
    /\ pc[p] = "rename" /\ tmp # Missing
    /\ file' = tmp /\ tmp' = Missing
    /\ handle' = Moved(p)
    /\ last' = held[p]
    /\ Saved(p, TRUE)
    /\ Goto(p, "done")
    /\ UNCHANGED <<clock, config, held, issued, torn, ended, racing, lost, met>>

\* A save fails or its process stops, before it opens, writes or renames; a file
\* cut off in the middle does not parse.
Break(p) ==
    /\ pc[p] \in {"open", "write", "rename"}
    /\ Cardinality({q \in Processes : pc[q] = "done" /\ handle[q] = "broken"}) < MaxBreaks
    /\ file' \in IF pc[p] = "write" /\ handle[p] = "file" THEN {file, Garbage} ELSE {file}
    /\ tmp' \in IF pc[p] = "write" /\ handle[p] = "tmp" THEN {tmp, Garbage} ELSE {tmp}
    /\ handle' = [handle EXCEPT ![p] = "broken"]
    /\ torn' = (torn \/ (pc[p] = "write" /\ ~windows))
    /\ lost' = IF InFile(p) THEN lost ELSE lost \cup {held[p].session}
    /\ Saved(p, FALSE)
    /\ Goto(p, "done")
    /\ UNCHANGED <<clock, config, held, issued, last, ended, racing, met>>

-----------------------------------------------------------------------------
(* clear_cache: logout, and login with the Azure CLI                         *)

Exists(p) ==
    /\ pc[p] = "start" /\ kind[p] = "logout"
    /\ Goto(p, IF file = Missing THEN "done" ELSE "unlink")
    /\ UNCHANGED <<clock, config, files, held, answer, issued, lost, met>>

\* Mutant: only the marker is removed.
UnlinkMarker(p) ==
    /\ pc[p] = "unlink"
    /\ last' = Missing
    /\ ended' = ended \cup {First}
                  \cup {held[q].session : q \in {r \in Processes : held[r] # NoToken}}
    /\ racing' = racing \cup Busy(p)
    /\ Goto(p, "done")
    /\ UNCHANGED <<clock, config, file, tmp, held, handle, answer, issued, torn, lost, met>>

\* Fails without effect when another process has removed the file meanwhile.
Unlink(p) ==
    /\ pc[p] = "unlink"
    /\ file' = Missing
    /\ IF file = Missing
         THEN UNCHANGED <<handle, last, torn, ended, racing>>
         ELSE /\ handle' = [q \in Processes |-> IF handle[q] = "file" THEN "gone" ELSE handle[q]]
              /\ last' = Missing
              /\ torn' = (torn \/ Saving # {})
              /\ ended' = ended \cup {First}
                            \cup {held[q].session : q \in {r \in Processes : held[r] # NoToken}}
              /\ racing' = racing \cup Busy(p)
    /\ Goto(p, "done")
    /\ UNCHANGED <<clock, config, tmp, held, answer, issued, lost, met>>

Next == \/ Tick
        \/ \E p \in Processes : \/ Load(p) \/ Refresh(p) \/ Refused(p) \/ AnswerLost(p)
                                \/ Receive(p) \/ Login(p)
                                \/ Open(p) \/ Write(p) \/ Rename(p) \/ Break(p)
                                \/ Exists(p) \/ Unlink(p)

Spec == Init /\ [][Next]_vars

-----------------------------------------------------------------------------
(* Properties                                                               *)

Texts == Tokens \cup {Missing, Blank, Garbage}

\* Every variable has its type; a process that refreshes or saves has a token.
TypeOK ==
    /\ clock \in Clock /\ windows \in BOOLEAN /\ kind \in Programs
    /\ file \in Texts /\ tmp \in Texts /\ last \in Texts
    /\ pc \in [Processes -> Places]
    /\ held \in [Processes -> Tokens \cup {NoToken}]
    /\ \A p \in Processes : pc[p] \in {"asked", "given", "open", "write", "rename"} =>
                              held[p] # NoToken
    /\ handle \in [Processes -> {"none", "file", "tmp", "gone", "broken"}]
    /\ answer \in [Processes -> Tokens \cup {NoToken, Elsewhere}]
    /\ issued \in [Sessions -> Nat]
    /\ torn \in BOOLEAN
    /\ ended \subseteq Sessions /\ racing \subseteq Sessions
    /\ lost \subseteq Sessions /\ met \subseteq Sessions

\* While no save is under way and none overlapped another or broke off, the file
\* is exactly what the last process that saved or logged out left.
LastSaveStands == ~torn /\ Saving = {} => file = last

\* A session that was logged out does not come back, unless another process was
\* refreshing or saving it at that moment, or saves met in the temporary file.
LogoutHolds == file \in Tokens /\ file.session \in ended =>
                 file.session \in racing \/ (windows /\ torn)

\* The file has the newest refresh token of its session, unless
\*   - two saves overlapped or one was broken off half-way (torn),
\*   - a refresh token that the file did not have was given and not saved: the answer
\*     was lost, the save failed, or a storage command kept it to itself (lost),
\*   - a new one was given to one process while another had an answer for the same
\*     session to save, or one that was loaded before a newer one was saved was sent
\*     and stayed (met), or
\*   - a process has an answer for the session that it is still going to save.
\* All but the last may leave an old token there for good: the code has no lock and
\* get_token_for_scope no save.
NewestKept ==
    (file \in Tokens /\ ~torn) =>
      LET s == file.session IN
      s \in lost \cup met \/ file.refresh = issued[s]
      \/ \E p \in Processes : /\ pc[p] \in {"given", "open", "write", "rename"}
                              /\ kind[p] # "storage" /\ held[p].session = s

\* A storage command is handed a storage token, any other command one of the scope
\* that its session was logged in with (get_valid_token does not ask whether that is
\* Fabric's), never one that another command asked for; and it still lives, unless
\* the answer that brought it was older than the margin.
HandedOut(p) ==
    answer'[p] # answer[p] /\ answer'[p] \in Tokens /\ kind[p] # "login" =>
      /\ answer'[p].scope = IF kind[p] = "storage" THEN "storage" ELSE answer'[p].login
      /\ answer'[p].until > clock \/ answer'[p].expires - answer'[p].until > Margin
HandedOutFits == [][\A p \in Processes : HandedOut(p)]_vars

=============================================================================
