# Formal models of fabio

fabio is a command-line client of the Microsoft Fabric REST API, written in
Rust: about a hundred command files that send one or a few requests, and a
handful of parts that carry logic of their own. This directory models those
parts in TLA+, checks the models with TLC on small instances and proves the
properties that matter most with TLAPS. Paths below are relative to the
repository's crate (`src/parallel.rs`, `commands/jobs.rs`) and to this directory
(`DeployApply.tla`).

## The system

| Component | State it keeps | Operations | What is hard | What makes it correct |
|---|---|---|---|---|
| Parallel executor, `parallel.rs` | semaphore, join set, retry counter per task | `execute_parallel`, `retry_with_backoff`, `BatchSummary` | tasks end in any order, permits are held through sleeps | a true verdict per item, in input order, bounded concurrency, it ends |
| Deploy plan, `deploy/plan.rs` | the listed workspace, matches, changeset | `fetch_deployed_items`, `build_changeset`, `compute_workspace_fingerprint` | other clients change what was listed; names against logical IDs | an exact changeset, nothing wanted is deleted, stale plans are refused |
| Deploy apply, `deploy/apply.rs`, `identities.rs` | `created_ids`, endpoint map, tiers, task set, result lists | `execute_changeset` and the requests per change | tiers of spawned tasks work with copies of shared maps; fail-fast drops handles; partial failures | dependencies first, references resolved, a true report, deletes last |
| Deploy ordering, `deploy/ordering.rs` | none | priorities, tiers, `topological_sort` | cycles | the order respects references |
| Deploy commands, `deploy/mod.rs` | saved plan file | plan, apply, validate | a plan made earlier, by other filters | what is applied is what was planned |
| HTTP client, `client.rs` | a token per scope, in memory | get, post, list, poll, transfers | 401, 429, 5xx, a token shared by tasks, paging, long-running operations | effects are accounted for, results are true, lists are complete, it ends |
| Token cache, `token_cache.rs`, `auth.rs` | a file shared by processes | load, refresh, save, login, logout | no lock; the save is not atomic on Unix and shares a temporary file on Windows | a login is not lost, a logout stays, no token of the wrong scope or at its end is handed out |
| Lakehouse sync, `lakehouse/sync.rs` | source and destination maps, lists of requests | diff, rename, dedup, copy, delete, remove the sources | phases of parallel requests that fail one by one; answers of 202 | only what may be deleted is, what is reported as synced is |
| Job ledger, `jobs.rs`, and the commands that run jobs (`job_scheduler.rs`, `notebook.rs`, `dataflow.rs`, `data_build_tool_job.rs`) | `~/.fabio/jobs.jsonl` and its lock | append, update, prune | rewritten in place; prune takes no lock; two writes per line | no line is lost, a recorded end is true, nobody waits for ever |
| Waits: `client.rs`, `item_job.rs`, `spark_livy.rs`, `powerbi_export.rs`, `follow.rs` | deadline, pause, token | check, sleep, poll, fetch | each loop clamps different parts of itself to its deadline | verdicts are true, deadlines hold within a known overrun, it ends |
| Self upgrade, `version_check.rs`, `upgrade.rs` | the installed binary, its temporary and backup file, a cache, a time-stamp | prime, check, upgrade | no lock; detached processes; the swap is two renames on Windows | a binary remains, a success lasts, attempts are throttled |
| Tenant crawler, `context/tenant.rs` | a semaphore | fan-out per workspace | zero permits | it ends |
| Deployment plan validator, `deployment_plan.rs` | none | offline document check | | |
| Git, SQL import, Cosmos, ontology, MCP, data agent and item commands | none or a cursor | a few requests each | | |
| `main.rs`, `cli.rs`, `output.rs`, `errors.rs` | none | parsing and formatting | | |

How they interact. `main` primes the version check, which may spawn
`fabio upgrade` and `fabio upgrade --check` as processes of their own, and then
runs one command. A command calls the HTTP client; a task without a valid token
in memory goes through the credential sources, of which fabio's token file is one
(`HttpClient`'s `Acquire` is `TokenCache`'s `Load`). Bulk commands, and the phases
of a sync, hand their items to the parallel executor. `deploy plan` lists the
workspace and makes a changeset, which is saved or handed to `deploy apply` at
once; `execute_changeset` runs it in tiers, with a semaphore and tasks of its own
(not with the parallel executor) and shares `created_ids` between them;
`ordering.rs` gives both the order. Commands that run a job write it to the ledger
before they wait and correct the line afterwards, while `jobs prune` of another
process rewrites the same file. Everything else that touches the workspace
(portal, other clients, other runs of fabio) is outside and may act between any
two requests.

## Modules

| Module | Models | Proofs |
|---|---|---|
| `ParallelExec` | `parallel.rs` | `ParallelExec_proofs` |
| `CollectAll` | what a caller of it is promised (abstract) | |
| `Ordering` | `DEPLOY_ORDER`, tiers, delete order | |
| `DeployApply` | `execute_changeset` with everything it calls | `DeployApply_proofs` |
| `TieredWork` | what an apply promises of its order (abstract) | |
| `DeployPlan` | plan and apply commands around `execute_changeset` | `DeployPlan_proofs` |
| `JobLedger` | the ledger and the processes that share it | `JobLedger_proofs` |
| `LakehouseSync` | `sync_files` | `LakehouseSync_proofs` |
| `TokenCache` | the token file and the processes that share it | `SharedFiles_proofs` |
| `HttpClient` | concurrent requests on one token, retries, paging | `HttpClient_proofs` |
| `PollWait` | the loops that wait for an operation | `PollWait_proofs` |
| `SelfUpdate` | version check, throttles, upgrade and swap | `SharedFiles_proofs` |
| `MC` + module name | constants for TLC | |

`DeployApply` extends `Ordering` and instantiates `TieredWork` with a refinement
mapping; `ParallelExec` does so with `CollectAll`. In every module a definition
whose comment starts with "Mutant:" is a plausible slip in the code; it is used
to see that a property notices it, and no specification uses it.

### ParallelExec

One task per item, one semaphore, one retry loop per task. `Acquire` is the
semaphore; `Succeed`, `GiveUp` and `Backoff` are the three ways a call of the
operation goes on; `Wake` ends a sleep; `Join` is `join_next` of the caller;
`Return` sorts the results and returns. `calls` is a history variable: what the
operation answered. Left out: the length of a backoff, and panics, which abort
the process in the release profile.

### DeployApply

The state is that of `execute_changeset`: the tier in work, what is left of it
(`queue` for items or handles, `groups` for the ordered ones), per change how far
its task is, the maps `created_ids` (`createdIds`, `shellIds`),
`extra_resolutions` (`endpoints`) and `polled_lakehouses`, the result lists, and
whether `--fail-fast` was given. A payload is the set of references its rewriting
resolved (`bound`), so that a property can say what was sent.

The main task: `CheckIdentities`, `BeginTier` (with `BeginTierCyclic` when a
group cannot be sorted, which ends the apply with an error), `StartNext` and
`Record` for serial items, `EndLoop`, `NextGroup` with its auto-created
Lakehouses, `InterTierHooks` (endpoints, then refreshes), `BeginDeletes`,
`Return`, `Exit`. A task: `Acquire`, then per action the requests of
`deploy_change` in their order: `PostCreate` with `RetryCreate` while a deleted
item holds the name, `RestoreIdentity`, `PatchName`, `UpdateDefinition`,
`DeleteItem`. Every request may fail. A tier with more than one item and more
than one permit spawns all its items at once with the copy of `created_ids` of
that moment; otherwise items run one by one and read the map as it is.

`topological_sort` is modelled by what it promises: some order in which callees
come first, none for a cycle. Types of equal priority keep the changeset's order
here and are in any order in the code.

### DeployPlan

`source`, `opts` and `workspace` are the source directory, the command line and
what is deployed; `listed`, `unmatched`, `matched` and `changes` are the
variables of `build_changeset`. `ListDeployed` takes the one list the plan works
with; `MatchNext` is an iteration of the first pass (by type and name, with the
definition fetched at that moment), `MatchFails` the error that leaves it;
`RenameNext` an iteration of the second pass (by logical ID, whose fetch may
fail silently); `FindOrphans` the end of planning. `CheckFingerprint` is the
staleness check of `apply --plan`, `Proceed` the answer for a plan of skips.
`ApplyChange` applies one change, with deletes after everything else, and may
fail before or after it took effect: `DeployApply` has what happens inside.
`OtherEdit` is another client: it deletes, creates, renames or rewrites an item
at any moment.

Simplified: a definition is one content value and hashes do not collide; the
filters (`--git-diff`, `--include-items`, `--exclude-regex`, folders) are the set
of names they keep; types are compared exactly; source keys are unique, which
`deploy validate` asks for.

### JobLedger

A run starts its job (`Trigger`), appends a line, polls, and updates the line at
the end; one that does not wait is done after the append. The four commands differ
in whether they wait, whether they cancel at the timeout and which mark they then
write (`JobSchedulerRun`, `NotebookRun`, `DataflowRun`, `DataBuildToolRun`). Append
and update hold the advisory lock, prune does not. `append` writes the line and
its newline in two calls (`AppendCut` stops between them; the next append then runs
into that line, `Glue`). `write_all` is `Truncate`, `WriteLine`, `EndWrite`, and
`WriteCut` where it stops; two writers at a time overwrite each other's bytes, so
which lines survive is a choice. A failed append or update only warns.

The ledger is a set of lines, an entry its job and status. `owed`, `raced` and
`stops` are history: runs whose line nobody removed on purpose, an overlapping
prune, writes that were cut.

### LakehouseSync

`Diff` lists both sides, applies the filters and one of the strategies, finds
renames by ETag and holds `--max-delete`. `MatchChecksum` adds renames by MD5 or, for
local sources, by length; `FindDedups` takes contents that are at the destination
already from there. Then the four phases, renames, dedup copies, copies, deletes, the
requests of each in any order: `Done`, `Fails`, `Accepted` (202, done later by
`Land` or never) and `Unfilled` (the file was created, the append or flush failed
unseen). `Report` removes source files under `--remove-source-files` and says
`synced` or `partial_failure`.

A file is its content and its ETag: one that tells the content, one of the file's own,
or none. Two that are missing compare as equal, as two empty strings do in the code. A
listing is the first page of the service's answer (`srcPage`, `dstPage`), which may leave
files out. A HEAD or a read that fails leaves no checksum: the comparison falls back to
the length (`unread`), and the search for renames and twins leaves that file out (`todo`,
`heard`, `Twinned`). Nobody else writes to the two places during the sync; `HashMap` order
is a choice.

### TokenCache

A command loads the file (`Load`), refreshes an expired token with the identity
service (`Refresh`, then `Receive`, `Refused` or `AnswerLost`), saves what came back
and goes on with it; a storage command asks for its own scope and saves nothing
(`Scope`). A login saves a new session, a logout looks and unlinks (`Exists`,
`Unlink`). A save is `Open` and `Write` on Unix, in place, and on Windows the same on
one temporary file and `Rename`; `Break` stops the process anywhere in between.
Readers see an empty or torn file.

A token knows the scope of the login it stems from and its own: `get_valid_token` asks
nothing of a scope, so a session that was logged in for storage serves Fabric commands
too. Two history variables say why the newest refresh token may not be in the file:
`lost`, one was given and never saved (a lost answer, a failed save, a storage command,
which saves nothing), and `met`, two processes had answers for a session at once, or a
token that was outdated when it was sent stayed.

The identity service is external: it may replace the refresh token with each refresh,
or refuse, and its answer may be lost. The polling for a device code, the browser and
service-principal protocols before their token, and the legacy logout marker, which
nothing reads, are left out.

### HttpClient

A task is one request: `post` (`post_impl`), `get` (`get_raw_response`), `list`
(`get_list`) or `plain` (put, patch, delete). `Auth` reads the token in memory,
`Acquire` gets another one from the credential sources and `Store` keeps it: three
steps without a lock between them. `Send` lets the service take effect or not and
answer. Then, each for the kinds that do it: `Unauthorized` (once: drop the token
and start over), `Throttled` (429 and 430), `Transient` (502 to 504), `NextPage`, and
`Finish` with the result. Token sources either fetch a new token or hand out the
stored one again (`cached`).

An answer is a class of status codes. A success whose body breaks off, is too long or is
no JSON (`garbled`) is an error of `handle_response`, though the write was done; a 408,
another 5xx (`failed`), a gateway error or no answer (`lost`) tell nothing of a write.

### PollWait

One loop with seven shapes: `poll_lro_impl`, `handle_bytes_lro_response`,
`run_and_wait`, the waits for a Livy session and for a statement, `export`,
`follow_stream`. `Check`, `Sleep` and `Poll` come in the order of the shape; `Fetch` is the
result of an operation after it succeeded, `NoCredential` a token that could not be
renewed, `CutOff` the `select!` that ends a hanging stream, `CancelJob` the request of
`--cancel-on-timeout`, which may be repeated like any post before the command returns.

A poll takes between one unit and `PollTime` and is told the state of some moment of that
time. For the shapes that go through `client.get` that is up to four requests, each with a
token and the client's time-out, and the pauses between them; an export repeats one
request after a 401; LRO polls are single requests, before which the token may have to be
renewed. An answer may also state nothing (`blank`): a success whose body cannot be read or
has no status. The loops poll on, but an LRO's 200 or 201 of that kind is the result: the
verdict `taken`. A statement that ended in any way is printed with its state
(`complete`); only one whose output says error fails the command. Polls for bytes are
told by the status code, which is trusted.

Left out: ctrl-c and the row limit of a followed stream, the refresh of graph models,
ARM polls. A high-concurrency session is a
Livy session with another first pause.

### SelfUpdate

Commands are `auto` (`FABIO_AUTO_UPGRADE` on a standalone install), `notice` (a check
only) or `manual` (`fabio upgrade`). `Start` reads the cache; `ReadMark`, `WriteMark`,
`RenameMark` and `Launch` are `maybe_spawn_auto_upgrade`; `WriteBump` and `RenameBump`
are `write_cache` before `spawn_background_refresh`; `CheckFetch` and `CheckRename` the
process that spawns; each of their renames may fail. An upgrade is `Fetch` (release, comparison, download, checksum,
extraction), `OpenTmp` and `WriteTmp` of the temporary file, then `Chmod` and `RenameTmp` on Unix
and `RemoveOld`, `MoveAway`, `MoveIn`, `RollBack` on Windows. Each may fail; `Stop` kills
an upgrade anywhere. Files are names for inodes, since a running process keeps the one
it was started from: on Linux its path then ends in " (deleted)", on Windows it can be
renamed but not removed.

A step between the read of a time-stamp and its renewal by another command gets past a
throttle, so the history variable `raced` says that the cache was renewed while another
command that had read it was not yet at its work, or the marker while another one was past
its test; `overlapped` says that an upgrade began while another one ran. Each property is
about the behaviours without the one or the other.

The names of this module differ from those of `TokenCache` (`UpdateSpec`, `hours` for the
clock, `stage`, `role`), with which it shares a module of proofs.

Left out: `--force`, `--target-version`, the text of the notice, installs by cargo or
docker, which never get past the first test, and the loss of power: the code writes and
renames without `fsync` (`upgrade.rs:444`-`456`), so the file system may then keep a rename
and not the bytes.

## Runs

| Run | Instance | Question |
|---|---|---|
| `parallel` | 3 items, 2 permits, 2 retries | verdicts and summary, input order, termination, refinement of `CollectAll` |
| `apply` | 7 changesets, 2 permits, with and without fail-fast | order, resolution, hooks, report, deletes, refinement of `TieredWork`, termination |
| `plan` | 3 sources, 5 workspaces, 5 command lines, 1 edit, failing requests | changeset, names, orphans, convergence, staleness |
| `ledger` | 2 runs with two sets of options, 1 prune, 1 stop | lines, truth, the lock |
| `sync` | 3 paths (one nested), 2 contents, 3 kinds of ETag, 10 listings a side, whole or cut off after a file, 9 command lines | what is lost, what is reported, what is removed |
| `token` | 3 processes in 4 mixes, both platforms, 1 broken save | saves, logouts, rotation, expiry |
| `client` | 2 tasks in 3 mixes, lists of 1 to 3 pages with a limit of 2, 1 retry of each kind, 1 revocation | effects, results, lists, termination |
| `wait` | 7 shapes, limits 0, 1, 4, 10, 22, ends 0, 1, 3, 5, 11, 40, headers 0, 2, 9 | verdicts, deadlines, tokens, termination |
| `selfupdate` | 2 commands in 3 mixes, 3 releases, 3 platforms, 1 stop | the binary, the report, the throttles |
| `doc_*` | the instances of `plan` and `sync` | a sentence of the documentation against the code |

**Why these bounds.** `parallel`: three items on two permits make one wait for a
permit while another retries; two retries make the first, a middle and the last
attempt differ. `apply`: the changesets are chosen by the part of
`execute_changeset` they reach. `Growing` has a serial tier, a group with an
auto-created Lakehouse and calls between pipelines; `Analytics` endpoints,
refreshes, Reports on two models and an orphan; `Batch` three spawned items on
two permits, a rename and two deletes; `PlanBearing` identities and Dataflows;
`Cyclic` a cycle and a lost source item; `TwoBatches` a spawned tier after a
failed one. Two tries for a name show the first, the retry and the limit. `plan`:
sources with a rename to find, with a logical ID that was copied, and without
one; workspaces that are empty, in sync with orphans, renamed, with a name taken,
and without definitions; one edit anywhere is enough to fall between any two
steps, and two creates plus one edit need no more than six IDs. The fresh IDs are
symmetric; that run has no liveness property.

`ledger`: two runs and a prune are every pair of writers the code has, and a third
that is at the file meanwhile. `sync`: pairs of listings are renames, swaps, twins,
changed, untagged, filtered and missing files; a page that ends after one file hides the
others of either side; the command lines cover each strategy and each
option that touches the lists. Sizes tell the contents apart or do not. `token`: a
refresh, a login and a logout, or two of a kind and a third process, meet in one file;
the margin is one tick and a token lives for two, so it passes through all three
states. `client`: one task takes the token away that the other has just stored; one
retry instead of three keeps first, last and refused apart; three pages exceed the limit
of two, two meet it. `wait`: limits below a poll, of
some polls, and beyond the renewal of two tokens; operations end before, at, after the
limit and never; a header may be zero, as long as the cap or longer than it. The times (a
pause, a token and an answer 1, the cap and the wait of a throttled post 2, renewal after 6,
margin 8) are not to one scale: they keep apart the sums that bound each loop. `selfupdate`: two commands bring two
upgrades and two checks; three releases let a newer one appear during an upgrade; one
tick of the clock is one interval of the throttles.

Deadlock is not checked where a command ends. Termination is a property in `parallel`,
`apply`, `ledger`, `client` and `wait`; in the others each step shortens the rest of a
command.

**Fairness.** `ParallelExec` and `DeployApply` assume weak fairness of the main
task and of each spawned task, `HttpClient` of each task, `PollWait` of its loop: the
tokio runtime polls every ready task, the client ends every request by its time-out,
and sleeps end. `JobLedger` assumes it of each process's steps, of the timeout and of
each write: the operating system runs every process, and grants the lock, which is
taken only when free, by retries. None is assumed of the service, so a termination
property covers every mix of its answers, and a job or an operation that never ends.
`DeployPlan`, `LakehouseSync`, `TokenCache` and `SelfUpdate` state only safety.

**What the properties say.**

- Executor: `ResultsTruthful` (verdicts and summary say what the calls said),
  `ReturnedInInputOrder`, `BatchEnds`, `ImplementsCollectAll`.
- Apply: `EarlierTierResolved` (a payload carries the ID of everything it refers to in
  an earlier tier that was deployed), `DeletesLast`, `ReportTrue` (the lists are the
  truth about the workspace), `CalleesFirst`, `HooksFirst` (models are refreshed and
  endpoints asked for before what depends on them), `ImplementsTieredWork`, `ApplyEnds`.
- Plan: `OneChangePerItem`, `NamesakesStay` (an item under the name of a source item
  keeps ID and name), `OnlyOrphansRemoved`, `Converges` (an undisturbed command without
  failures reaches the source), `PlanStillFits`.
- Ledger: `LedgerCurrent` (without an overlapping prune and without a stop, every
  recorded run has exactly its line), `FinalStatusTrue` (whatever overlaps, a line that
  says completed or failed is true), `CommandsEnd`.
- Sync: `OnlyExtraLost` (at no moment is a file missing that may not be deleted),
  `PhasesDisjoint`, `OutOfScopeUntouched`, `SyncedIsTrue`, `RemovedIsSafe`. The last two
  speak of each file by itself: it is in place as far as its comparison looked (`InPlace`:
  not at all with `--no-overwrite` or two missing ETags, at the length where there was no
  checksum), unless its own copy was accepted and not made, its own upload stayed empty, its
  own twin moved (`Loose`), or it was renamed on a guess from a length (`Guessed`).
- Token file: `LastSaveStands`, `LogoutHolds`, `NewestKept` (with the exemptions `torn`,
  `lost` and `met`), `HandedOutFits` (a storage command gets a storage token, any other one
  of its login's scope, and it lives unless the answer was older than the margin).
- Client: `EffectsAccounted` (only a resend after a gateway error can double a write),
  `ResultTrue` (a success, readable or not, took effect; a refusal did not), `ListComplete`,
  `RequestsEnd`.
- Waits: `VerdictTrue` (of what was `taken` it says nothing), `OverrunBounded`, `TimeoutDue`
  (a time-out is not early and not blind), `PollsLive` (for the expiry fabio knows: of a token
  from the environment it assumes an hour), `WaitEnds`.
- Self upgrade: `BinaryRemains` (whatever fails, something can still be started),
  `SuccessLasts` (what was reported as installed is, and is not taken back),
  `Throttled`.

The type invariants are proved for all constants rather than run.

### Where the code and its documentation differ

Three runs that TLC refutes; `PROJECT.json` quotes the sentences.

- `SourceItemsSurvive`: a filter with `--delete-orphans` deletes what the filter
  left out, though it is in the source.
- `RemovedWasCopied`: `--remove-source-files` removes every source file of the copy
  list as soon as one copy was done, those whose copy failed included.
- `TwinsHaveContent`: a file at the destination is taken for a twin to copy from although
  another copy or a rename of the same sync overwrites or moves it, so the copy may have
  the wrong content and is reported as done.

Four more configurations, to be run by hand (`tlc -config X.cfg` on the module whose name
the file begins with), are refuted as well:

- `MCDeployPlanIndexFindsItems`: filters leave `type_name_index` as it was
  (`deploy/mod.rs:1616`), so resolution reads another item, or past the end.
- `MCLakehouseSyncDeletedNotInSource`: `--delete` also takes files that the source has,
  when `--min-size`, `--max-size` or the end of the listing's page hides them, against the
  comment at `lakehouse/sync.rs:204`.
- `MCHttpClientRetryHasNewToken`: the second request after a 401 may carry the token that
  was refused, against `client.rs:1247`.
- `MCPollWaitTakenIsComplete`: an LRO's 200 whose status cannot be read is taken for the
  result of an operation that still runs, against `client.rs:3231`.

Seen while modelling, and allowed by the models as they are:

- With `--fail-fast`, spawned tiers after a failed one are still sent
  (`apply.rs:236`); types of one tier run side by side (`ordering.rs:9`); a Report may
  be bound to a model the same apply deletes (`apply.rs:115`); a model in the first tier
  on an unchanged Lakehouse keeps the source's SQL endpoint (`apply.rs:483`).
- A pipeline that calls itself is refused as a cycle when its tier has another one,
  and deployed when it is alone (`apply.rs:2046`): a group of one is not sorted.
- A plan saved with `--item-types` is refused in an unchanged workspace that has other
  types (`deploy/mod.rs:805`); a saved plan of skips is answered "in sync" unseen
  (`deploy/mod.rs:928`).
- A 401 is answered by dropping the token in memory, but the token file hands out the
  same one again, so the second attempt can be refused too.
- A listing is read up to its first page only (`client.rs:887`); two missing ETags count as
  equal (`lakehouse/sync.rs:197`), so such a file is never copied again.
- `jobs prune` takes no lock: lines of running jobs can disappear, or come back.
- `Deduped` is a final status (`job_scheduler.rs:418`) that the poll loop waits on
  (`:576`); `cancelled` is recorded though the cancel request failed.
- Two processes that refresh at once, or a logout during a refresh: the later save wins,
  so a session that was logged out can come back.
- Throttles are checked and then written (`version_check.rs:225`), so commands that
  start together each launch an upgrade, against "at most one attempt per hour"; these
  share one temporary file, so a torn one can be installed. On Linux the later of two
  upgrades finds its own path "(deleted)", installs to a stray name and reports
  success. On Windows a failed rollback leaves only `fabio.exe.old`. A slow bump
  can put an older version back into the cache.

## Proofs

All theorems hold for every value of the constants under the named assumptions
(`BatchAssumption`, `ApplyAssumption`, `PlanAssumption`, `LedgerAssumption`,
`SyncAssumption`, `CacheAssumption`, `UpdateAssumption`, `ClientAssumption`,
`WaitAssumption`), which the runs evaluate on their instances. For every specification
`TypeCorrect` (`UpdateTypeCorrect` for `SelfUpdate`) is proved as well.

`ParallelExec_proofs`: `InFlightBounded` (permits held and free add up),
`InputOrder`, `ResultsSayWhatCallsSaid` (`ResultsTruthful`) and `Refinement`
(`ImplementsCollectAll`). The invariant adds that a task that may still count has not
spent its budget, and that `results` holds each joined index exactly once; sorting a
sequence that holds each index once gives the identity. `CallsInv` ties the history of
replies to the counter of attempts and a task's verdict to its last reply, from which the
summary follows by counting. For the refinement every step is one of the promise's or
leaves the mapped verdicts alone.

`DeployApply_proofs`: `NothingDeletedEarly` (`DeletesLast`) and `ReportSound`
(`ReportTrue`). Neither is inductive: whether a delete may start depends on what
`queue` and `groups` still hold at each stage. The strengthening says where each
change is at each stage: in a tier to come, in the queue, in a group, recorded, or
dropped by fail-fast; and what a task's state allows to be in the lists. Each action
is a lemma. On top of it `OrderInv` carries `SinglePassResolves`
(`EarlierTierResolved`), `CalleesBeforeCallers` (`CalleesFirst`) and
`HooksBeforeDependents` (`HooksFirst`): the queue holds changes of the current tier
only, a spawned group has no order to keep, a sorted one is handed out in an order in
which nothing precedes what it calls, the ID of every listed success is known, what has left
"idle" was bound to the IDs of the earlier tiers, and the hooks of a tier that is over
have run. `Refinement` (`ImplementsTieredWork`) maps every change to waiting, at work
or ended: each action starts one change, ends one, or changes nothing of it, and the
two invariants give the conditions under which the abstract specification allows it.

`DeployPlan_proofs`: `ChangesetExact` (`OneChangePerItem`) and `PlanFits`
(`PlanStillFits`, an action property). `PlanInv` says that each source item before
`next` has a change or waits for the second pass, never both; that a change of a
source item goes to a matched item; and that during the first pass every matched item
has the name of a source item compared earlier, so that, names being unique, the next
item meets a deployed item nobody has. Deletes go to unmatched items, so they clash
with nothing. Nothing of it reads the workspace, which is why other clients cannot
break it. `PlanFits` adds `NewNames`: what is created or renamed had no namesake in
the list, which the fingerprint carries over to the workspace of the apply.

Three theorems speak of a workspace nobody else touches: `NamesakesKept`
(`NamesakesStay`), `OnlyOrphansGo` (`OnlyOrphansRemoved`) and `DeployConverges`
(`Converges`). Their invariant has three more parts. `NamesInv`: names stay unique for
each type in the workspace and in the listing, and an ID keeps its type. `ChangesInv`:
the changeset as planned, in which a namesake is skipped or updated and every other
deployed item is matched, an orphan or protected. `QuietInv`, as long as there were no
edits: the workspace differs from the listing only by changes that were executed, and
unless one failed each of these has had its effect. At the end all have been executed, so each
source item is where its change put it. The theorems assume of the workspace that names
are unique for each type, which the service enforces.

`JobLedger_proofs`: `NothingLost` (`LedgerCurrent`) and `LedgerTruthful`
(`FinalStatusTrue`). `LedgerInv` adds that who writes an update holds the lock, that a
run that polls has not decided its mark, and, as long as the run is calm (no overlap, no
cut), that nobody else is rewriting, the last line ends in a newline and each owed run
has its line in the file or in the hands of the one writer. Truth needs less and holds in
every run: `TruthInv` says it of the file, of the last line, and of what each writer and
each run still has to write.

`LakehouseSync_proofs`: `OnlyExtraGoes` (`OnlyExtraLost`) and `OutOfScopeKept`
(`OutOfScopeUntouched`). `ScopeInv` relates the lists of the plan to the two listings
(`PlanInv`), every pending request to the lists (`TaskInv`), what an accepted request
may still do (`FlyInv`), and each place to what it held at the start (`EffectInv`). Deletes
and the old places of renames come out of one set, `Deletable`, which the filters and
`--max-delete` bound, so whatever fails in between, what is lost is within it.

What a sync achieves needs the order of its requests: `RequestsApart`
(`PhasesDisjoint`), `ReportTrue` (`SyncedIsTrue`) and `RemovalSafe` (`RemovedIsSafe`).
`OutcomeInv` says that the lists of the plan cover each path once (`PlanShape`), that
each request does what they say of its paths (`TasksShaped`), that only renames and dedup
copies have been sent while a dedup copy waits (`DedupsFirst`); that each
path to be copied is waiting, on its way or there, unless its own copy failed or was broken
off or its twin moves (`CopiesRight`), and unless a request failed the same of renames and deletes
(`MovesDone`); and that nothing else is written, and a source goes only at the end
(`RestKept`).

`SharedFiles_proofs`, about `TokenCache`: `FileAtRest` (`LastSaveStands`), `HandedOutFit`
(`HandedOutFits`, an action property), `LogoutFinal` (`LogoutHolds`) and `NewestInFile` (`NewestKept`).
`RestInv` says that, unless saves met or broke off, one process at most is saving, has
its file to itself (`SaverInv`), and outside of a save in place the file is what was
left last; `ScopeInv` that the file, the temporary file and every process that will save
have a token of its login's scope, and a storage command, which will not, one of its own. For a
logout the file alone is not inductive: `EndedInv` says that no process that might save
holds the session either, and `FreshInv` that no token of a login that has not begun is
anywhere. For the refresh token `NewestInv` says, of sessions neither `lost` nor `met`, that every
process with an answer in hand has the newest one, and that, when the file does not have
it, one that saves has.

`SharedFiles_proofs`, about `SelfUpdate`: `BinaryStays` (`BinaryRemains`), `UpgradeLasts`
(`SuccessLasts`) and `ThrottleHolds` (`Throttled`, an action property). `SwapInv`, for as
long as no upgrades overlapped, says that one at most is at work, that a file that can be
started stands, no older than any release reported as installed, and what the upgrade has
in hand at each of its steps (`UpgradeInv`): a release later than the binary's, in the
temporary file, which is whole once written and executable once it is to be renamed. It
rests on `InodeInv` (an upgrade's own inode is under no name before it opens the temporary
file, and no two names are one inode, so the write does not touch the binary) and on
`PlaceInv` (which renames belong to which platform). The name on Unix needs none of that
(`NameInv`). For the throttles, `MarkInv` says that who is about to record an attempt found
none within the interval, and `CacheInv` that the last bump is no later than the cache, nor
than any copy of it in the hands of a command that has yet to bump, which is what a slow
check that renames its file in between could upset.

`HttpClient_proofs`: `WritesAccounted` (`EffectsAccounted`), `ReportedTruly`
(`ResultTrue`), `ListsComplete` (`ListComplete`). The invariants are one formula per
task, of which other tasks' steps change nothing: how many effects the answer in hand
and the counters allow (`EffectOf`; a success that cannot be read counts as one), what the
result may be (`ResultOf`), and that a
list has read exactly the pages up to its counter (`ListOf`).

`PollWait_proofs`: `VerdictsTrue`, `Bounded` (`OverrunBounded`), `TimeoutsDue`
(`TimeoutDue`), `TokensLive` (`PollsLive`). `TimeInv` gives, for each shape and place of
the loop, the latest time the loop can be there, in terms of `PollTime` and `CancelTime`;
`LookInv` the earliest time of the last poll that was told a state; `TokenInv` the life the loop's token still has.

Only model-checked: everything about liveness (`BatchEnds`, `ApplyEnds`, `CommandsEnd`,
`RequestsEnd`, `WaitEnds`: the prover has no rule for fairness and ENABLED). Every
safety invariant and action property of a passing run is stated by a theorem.

## Not modelled, and why

`execute_changeset_bulk`, the hooks after an apply and `--verify`: planned.
`validate_references`: adds warnings only. Parsing, parameter substitution,
rebinding, export, output and the offline validators: functions of one document
without state. Item commands, about a hundred files and most of the lines: one
request or one edit of a definition each, on the client that `HttpClient` models. Git
commands: a request and a long-running operation (`PollWait`). The tenant crawler: the
pattern of `ParallelExec`, but its semaphore has as many permits as `--concurrency` says,
none included. (`execute_parallel` does not check its number either; its callers pass
`default_concurrency()`, which is at least two, or have checked it, as
`BatchAssumption` says. `execute_changeset` takes the maximum with one.) Imports, MCP clients and
the data agent: sequential conversions of user data, or state on the server. The
services themselves appear only as what their answers can be.

## Plan

Done: the deploy path first, because a deployment is what fabio can damage most, then
what processes share (ledger, token file, binary), what tasks share (client), and the
transfers and waits. Left, in this order:

1. `TopoSort`: Kahn's algorithm of `topological_sort` as a state machine, against
   `GroupOrders`; theorem: the output respects every edge.
2. `PostApply`: hooks, `--verify`, the bulk strategy; `DeployPlan` with a source that
   changes between plan and apply.
3. The tenant crawler, with `--concurrency 0`.
4. ARM polls and the refresh of graph models as further shapes of `PollWait`.

Theorem planned: that the output of `TopoSort` respects every edge, from a loop invariant.
