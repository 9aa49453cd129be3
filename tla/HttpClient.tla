------------------------------ MODULE HttpClient ------------------------------
(***************************************************************************)
(* FabricClient (client.rs): the requests of concurrent tasks that share one *)
(* token in memory.  A task reads it under a lock, fetches another one       *)
(* without the lock, stores it, sends, and retries as its kind of request    *)
(* does.                                                                     *)
(*                                                                          *)
(* External: the credential sources and the service.  Tokens are numbered    *)
(* as the service comes to accept them: it takes the newest only.  Polling   *)
(* after a 202 is in PollWait.                                               *)
(***************************************************************************)
EXTENDS Integers, FiniteSets

CONSTANTS Tasks,
          Programs,     \* what the tasks may be, functions from Tasks to Kinds
          MaxRetries,   \* MAX_RATE_LIMIT_RETRIES and MAX_TRANSIENT_RETRIES
          MaxPages,     \* MAX_PAGES
          Lengths,      \* how many pages a list may have
          MaxRevokes,   \* bound: how often the service stops to accept a token
          NoToken

\* post: post_impl; get: get_raw_response; list: get_list; plain: put, patch, delete.
Kinds == {"post", "get", "list", "plain"}

ASSUME ClientAssumption ==
    /\ Programs \subseteq [Tasks -> Kinds]
    /\ MaxRetries \in Nat /\ MaxPages \in Nat \ {0} /\ Lengths \subseteq Nat \ {0}
    /\ MaxRevokes \in Nat
    /\ NoToken \notin 0 .. MaxRevokes

VARIABLES
    kind,      \* what each task is
    pages,     \* how many pages the list has
    uriOnly,   \* the service links pages by URI and gives no continuation token
    cached,    \* the tokens come from a store that hands out the same one again
    store,     \* the token in that store
    accepted,  \* the token the service accepts
    cell,      \* fabric_token
    pc,        \* where each task is
    tok,       \* the token of each task
    status,    \* the answer each task has
    rate,      \* attempt, after 429 and 430
    gateway,   \* transient_attempt, after 502 to 504
    again,     \* tasks that were answered 401 and started over
    page,      \* page_count
    result,    \* what each task returns
    rest,      \* the continuation token that a list returns, 0 for none
    effects    \* history: requests that took effect

vars == <<kind, pages, uriOnly, cached, store, accepted, cell, pc, tok, status, rate,
          gateway, again, page, result, rest, effects>>
config == <<kind, pages, uriOnly, cached>>
tokens == <<store, accepted, cell>>
counts == <<rate, gateway, again, page>>
outcome == <<result, rest>>

\* ok: 2xx; garbled: 2xx with a body that breaks off, is too long or is no JSON;
\* throttled: 429, 430; gateway: 502 to 504; failed: 408 and the other 5xx; refused:
\* the other 4xx but for 401; lost: no answer.
Statuses == {"ok", "garbled", "unauthorized", "throttled", "gateway", "refused", "failed",
             "lost"}

Init == /\ kind \in Programs /\ pages \in Lengths
        /\ uriOnly \in BOOLEAN /\ cached \in BOOLEAN
        /\ (\A t \in Tasks : kind[t] # "list") => pages = 1 /\ uriOnly   \* nothing listed
        /\ store = 0 /\ accepted = 0 /\ cell = NoToken
        /\ pc = [t \in Tasks |-> "auth"]
        /\ tok = [t \in Tasks |-> NoToken]
        /\ status = [t \in Tasks |-> "none"]
        /\ rate = [t \in Tasks |-> 0]
        /\ gateway = [t \in Tasks |-> 0]
        /\ again = {}
        /\ page = [t \in Tasks |-> 1]
        /\ result = [t \in Tasks |-> "none"]
        /\ rest = [t \in Tasks |-> 0]
        /\ effects = [t \in Tasks |-> 0]

Goto(t, place) == pc' = [pc EXCEPT ![t] = place]
Writes(t) == kind[t] \in {"post", "plain"}

-----------------------------------------------------------------------------
(* require_auth                                                              *)

\* The token in memory, read under the lock.
Auth(t) ==
    /\ pc[t] = "auth"
    /\ IF cell # NoToken
         THEN tok' = [tok EXCEPT ![t] = cell] /\ Goto(t, "send")
         ELSE Goto(t, "acquire") /\ UNCHANGED tok
    /\ UNCHANGED <<config, tokens, status, counts, outcome, effects>>

\* acquire_token, without the lock: fabio's own token file returns what it has
\* until that is locally expired, other sources ask for a new one.
Acquire(t) ==
    /\ pc[t] = "acquire"
    /\ \E new \in IF cached THEN {store, accepted} ELSE {accepted} :
         tok' = [tok EXCEPT ![t] = new] /\ store' = new
    /\ Goto(t, "store")
    /\ UNCHANGED <<config, accepted, cell, status, counts, outcome, effects>>

NoCredential(t) ==
    /\ pc[t] = "acquire"
    /\ result' = [result EXCEPT ![t] = "noauth"]
    /\ Goto(t, "done")
    /\ UNCHANGED <<config, tokens, tok, status, counts, rest, effects>>

\* The last one to store wins, whatever it has.
Store(t) ==
    /\ pc[t] = "store"
    /\ cell' = tok[t]
    /\ Goto(t, "send")
    /\ UNCHANGED <<config, store, accepted, tok, status, counts, outcome, effects>>

\* The token in memory comes within the margin of its expiry.
Age == /\ cell # NoToken /\ cell' = NoToken
       /\ UNCHANGED <<config, store, accepted, pc, tok, status, counts, outcome, effects>>

\* The service stops to accept a token before it expires.
Revoke == /\ accepted < MaxRevokes /\ accepted' = accepted + 1
          /\ UNCHANGED <<config, store, cell, pc, tok, status, counts, outcome, effects>>

-----------------------------------------------------------------------------
(* Sending and answers                                                       *)

Answers(t) == IF tok[t] = accepted THEN Statuses \ {"unauthorized"}
                                   ELSE Statuses \ {"ok", "garbled", "refused"}

\* What is known of a write from its answer: that it was done, that it was not, or
\* nothing.
Effect(t, s) == IF ~Writes(t) \/ tok[t] # accepted THEN {0}
                ELSE CASE s \in {"ok", "garbled"} -> {1}
                       [] s \in {"gateway", "failed", "lost"} -> {0, 1}
                       [] OTHER -> {0}

\* One request, until its answer is there; "lost" is the time-out of one minute or
\* a broken connection.
Send(t) ==
    /\ pc[t] = "send"
    /\ \E s \in Answers(t) : \E e \in Effect(t, s) :
         /\ status' = [status EXCEPT ![t] = s]
         /\ effects' = [effects EXCEPT ![t] = @ + e]
    /\ Goto(t, "answered")
    /\ UNCHANGED <<config, tokens, tok, counts, outcome>>

\* Mutant: a broken connection is taken for an expired token.
MayReauthLost(t) == /\ status[t] \in {"unauthorized", "lost"} /\ t \notin again
                    /\ kind[t] # "list" /\ (kind[t] = "get" => gateway[t] = 0)

\* 401: the token in memory is dropped and the request sent once more.
MayReauth(t) == /\ status[t] = "unauthorized" /\ t \notin again
                /\ kind[t] # "list" /\ (kind[t] = "get" => gateway[t] = 0)
Unauthorized(t) ==
    /\ pc[t] = "answered" /\ MayReauth(t)
    /\ cell' = NoToken
    /\ again' = again \cup {t}
    /\ Goto(t, "auth")
    /\ UNCHANGED <<config, store, accepted, tok, status, rate, gateway, page, outcome, effects>>

\* 429, 430: posts wait and are sent again, until the second round after a 401.
MayWait(t) == /\ status[t] = "throttled" /\ t \notin again
              /\ kind[t] = "post" /\ rate[t] < MaxRetries

\* Mutant: the attempt is not counted.
ThrottledUncounted(t) ==
    /\ pc[t] = "answered" /\ MayWait(t)
    /\ Goto(t, "auth")
    /\ UNCHANGED <<config, tokens, tok, status, counts, outcome, effects>>

Throttled(t) ==
    /\ pc[t] = "answered" /\ MayWait(t)
    /\ rate' = [rate EXCEPT ![t] = @ + 1]
    /\ Goto(t, "auth")
    /\ UNCHANGED <<config, tokens, tok, status, gateway, again, page, outcome, effects>>

\* 502 to 504: posts and gets.
MayResend(t) == /\ status[t] = "gateway" /\ t \notin again
                /\ kind[t] \in {"post", "get"} /\ gateway[t] < MaxRetries
Transient(t) ==
    /\ pc[t] = "answered" /\ MayResend(t)
    /\ gateway' = [gateway EXCEPT ![t] = @ + 1]
    /\ Goto(t, "auth")
    /\ UNCHANGED <<config, tokens, tok, status, rate, again, page, outcome, effects>>

\* A list goes on with the next page under the same token; a broken off list
\* returns the continuation token it has, if pages come with one.
MoreToList(t) == kind[t] = "list" /\ status[t] = "ok" /\ page[t] < pages

\* Mutant: a list that is broken off says so only in its warning.
NextPageSilent(t) ==
    /\ pc[t] = "answered" /\ MoreToList(t)
    /\ IF page[t] + 1 > MaxPages
         THEN /\ result' = [result EXCEPT ![t] = "ok"]
              /\ Goto(t, "done") /\ UNCHANGED <<page, rest>>
         ELSE /\ page' = [page EXCEPT ![t] = @ + 1]
              /\ Goto(t, "send") /\ UNCHANGED outcome
    /\ UNCHANGED <<config, tokens, tok, status, rate, gateway, again, effects>>

NextPage(t) ==
    /\ pc[t] = "answered" /\ MoreToList(t)
    /\ IF page[t] + 1 > MaxPages
         THEN /\ result' = [result EXCEPT ![t] = "ok"]
              /\ rest' = [rest EXCEPT ![t] = IF uriOnly THEN 0 ELSE page[t] + 1]
              /\ Goto(t, "done") /\ UNCHANGED page
         ELSE /\ page' = [page EXCEPT ![t] = @ + 1]
              /\ Goto(t, "send") /\ UNCHANGED outcome
    /\ UNCHANGED <<config, tokens, tok, status, rate, gateway, again, effects>>

\* Mutant: an answer that was read is taken for a success, but for 401.
OutcomeLoose(s) == IF s \in {"unauthorized", "garbled", "lost"} THEN s ELSE "ok"

\* handle_response: success or an error of its kind; a success that cannot be read
\* is an error too.
Outcome(s) == s

Finish(t) ==
    /\ pc[t] = "answered"
    /\ ~MayReauth(t) /\ ~MayWait(t) /\ ~MayResend(t) /\ ~MoreToList(t)
    /\ result' = [result EXCEPT ![t] = Outcome(status[t])]
    /\ Goto(t, "done")
    /\ UNCHANGED <<config, tokens, tok, status, counts, rest, effects>>

Step(t) == \/ Auth(t) \/ Acquire(t) \/ NoCredential(t) \/ Store(t) \/ Send(t)
           \/ Unauthorized(t) \/ Throttled(t) \/ Transient(t) \/ NextPage(t) \/ Finish(t)

Next == Age \/ Revoke \/ \E t \in Tasks : Step(t)

Spec == Init /\ [][Next]_vars

\* Tasks are polled by the runtime and every request has an answer or a time-out.
FairSpec == Spec /\ \A t \in Tasks : WF_vars(Step(t))

-----------------------------------------------------------------------------
(* Properties                                                               *)

Tokens == 0 .. MaxRevokes
Places == {"auth", "acquire", "store", "send", "answered", "done"}

\* Every variable has its type; a task that sends has a token, and no budget of
\* retries or pages is overdrawn.
TypeOK ==
    /\ kind \in Programs /\ pages \in Lengths /\ uriOnly \in BOOLEAN /\ cached \in BOOLEAN
    /\ store \in Tokens /\ accepted \in Tokens /\ cell \in Tokens \cup {NoToken}
    /\ pc \in [Tasks -> Places]
    /\ tok \in [Tasks -> Tokens \cup {NoToken}]
    /\ \A t \in Tasks : pc[t] \in {"store", "send", "answered"} => tok[t] # NoToken
    /\ status \in [Tasks -> Statuses \cup {"none"}]
    /\ rate \in [Tasks -> 0 .. MaxRetries] /\ gateway \in [Tasks -> 0 .. MaxRetries]
    /\ again \subseteq Tasks
    /\ page \in [Tasks -> 1 .. MaxPages]
    /\ result \in [Tasks -> Statuses \cup {"none", "noauth"}]
    /\ rest \in [Tasks -> 0 .. MaxPages + 1]
    /\ effects \in [Tasks -> Nat]

\* A write takes effect at most once more than it was sent again after a gateway
\* error: neither a new token nor a rate limit nor a lost connection doubles it.
EffectsAccounted == \A t \in Tasks : effects[t] <= 1 + gateway[t]

\* What is reported of a write is true: after success it has taken effect; after a
\* refusal (401, a rate limit, another 4xx but for 408, or no token) it has not,
\* unless an earlier answer was a gateway error; and after a success that could not
\* be read, which is an error, it has.  The other errors say nothing of it.
ResultTrue ==
    \A t \in Tasks : Writes(t) =>
      /\ result[t] \in {"ok", "garbled"} => effects[t] >= 1
      /\ result[t] \in {"refused", "throttled", "unauthorized", "noauth"} /\ gateway[t] = 0 =>
           effects[t] = 0

\* A list that returns without a continuation token has all pages, unless pages
\* are linked by URI only; with one, it continues right after the last page read.
ListComplete ==
    \A t \in Tasks : kind[t] = "list" /\ result[t] = "ok" =>
      /\ rest[t] = 0 => page[t] = pages \/ uriOnly
      /\ rest[t] # 0 => rest[t] = page[t] + 1 /\ rest[t] <= pages

\* "401 received, refreshing token and retrying": the second request after a 401
\* has another token than the one that was refused.
RetryHasNewToken ==
    [][\A t \in again : pc[t] \in {"auth", "acquire"} /\ pc'[t] \in {"store", "send"} =>
          tok'[t] # tok[t]]_vars

\* Every request comes to an end, also when tokens are revoked and stored late.
RequestsEnd == <>(\A t \in Tasks : pc[t] = "done")

=============================================================================
