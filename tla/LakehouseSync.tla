----------------------------- MODULE LakehouseSync -----------------------------
(***************************************************************************)
(* `lakehouse sync` (lakehouse/sync.rs): list both sides, decide what to     *)
(* copy and what to delete, turn pairs of these into renames, take what is   *)
(* already at the destination from there, then send the requests phase by    *)
(* phase, those of one phase in parallel, and report.                        *)
(*                                                                          *)
(* A listing is the first page of the service's answer, which may leave      *)
(* files out; a HEAD request may fail, and then a length or nothing is       *)
(* known of its file.                                                       *)
(*                                                                          *)
(* Simplified: nobody else writes to the two places meanwhile, so a page     *)
(* shows what was there at the start; no file is empty; a file is its        *)
(* content and its ETag, which tells the content, or is the file's own, or   *)
(* is missing.  HashMap order is a choice.                                  *)
(***************************************************************************)
EXTENDS FiniteSets, Integers

CONSTANTS Paths,      \* relative paths
          Nested,     \* those in a subdirectory
          Contents,   \* what a file may hold
          Sizes,      \* functions from contents to sizes
          Requests,   \* command lines
          Listings,   \* what either side may hold at the start
          Pages,      \* what the first page of a listing may show
          Absent,     \* no file
          Hollow      \* a file that was created and never filled

File == [content : Contents, tag : {"content", "own", "none"}]
Strategies == {"default", "size", "force", "no_overwrite"}

\* keep: paths that --include/--exclude let through; sizes: those that
\* --min-size/--max-size let through; md5: the service answers Content-MD5.
Request == [local : BOOLEAN, delete : BOOLEAN, strategy : Strategies,
            checksum : BOOLEAN, existing : BOOLEAN, remove : BOOLEAN, flat : BOOLEAN,
            keep : SUBSET Paths, sizes : SUBSET Nat, maxDelete : Nat,
            md5 : BOOLEAN]

ASSUME SyncAssumption == /\ Absent \notin File /\ Hollow \notin File
                         /\ Absent # Hollow
                         /\ Sizes \subseteq [Contents -> Nat \ {0}]
                         /\ Requests \subseteq Request
                         /\ Listings \subseteq [Paths -> File \cup {Absent}]
                         /\ Pages \subseteq SUBSET Paths
                         /\ IsFiniteSet(Paths)

VARIABLES
    opts,      \* the command line
    size,      \* how long each content is
    src0,      \* the source at the start
    dst0,      \* the destination at the start
    srcPage,   \* paths the listing of the source shows
    dstPage,   \* paths the listing of the destination shows
    src,       \* the source
    dst,       \* the destination
    stage,     \* where sync_files is
    toCopy,    \* to_copy
    toDelete,  \* to_delete
    unread,    \* files in both maps without a checksum: a HEAD or a read failed
    todo,      \* files with an answered HEAD that are yet to be looked up for a rename
    heard,     \* files to delete with an answered HEAD
    renames,   \* to_rename, pairs of old and new path
    dedups,    \* dedup_copies, pairs of existing and target path
    pending,   \* requests not sent yet
    failed,    \* requests that were counted as failed
    copied,    \* copies that were counted as done
    flying,    \* copies the service has accepted and not made yet
    broken     \* history: targets of copies counted as done and never made

vars == <<opts, size, src0, dst0, srcPage, dstPage, src, dst, stage, toCopy, toDelete,
          unread, todo, heard, renames, dedups, pending, failed, copied, flying, broken>>
listed == <<opts, size, src0, dst0, srcPage, dstPage>>
plan == <<toCopy, toDelete, unread, todo, heard, renames, dedups>>
effects == <<pending, failed, copied, flying, broken>>

Init == /\ opts \in Requests
        /\ size \in Sizes
        /\ src0 \in Listings /\ dst0 \in Listings
        /\ srcPage \in (IF opts.local THEN {Paths} ELSE Pages) /\ dstPage \in Pages
        /\ src = src0 /\ dst = dst0
        /\ stage = "diff"
        /\ toCopy = {} /\ toDelete = {} /\ unread = {} /\ todo = {} /\ heard = {}
        /\ renames = {} /\ dedups = {}
        /\ pending = {} /\ failed = {} /\ copied = {} /\ flying = {} /\ broken = {}

-----------------------------------------------------------------------------
(* The comparison                                                           *)

\* --no-recursive
InDepth(p) == opts.flat => p \notin Nested

\* Mutant: the destination is not filtered.
DstMapWhole == {p \in dstPage : dst0[p] # Absent /\ InDepth(p)}

\* dst_map after the filters: with --delete the name filters hold here too.
DstMap == {p \in dstPage : dst0[p] # Absent /\ InDepth(p) /\ (opts.delete => p \in opts.keep)}

\* src_map after the filters.
SrcMap == {p \in srcPage : /\ src0[p] # Absent /\ InDepth(p)
                           /\ size[src0[p].content] \in opts.sizes
                           /\ p \in opts.keep
                           /\ opts.existing => p \in DstMap}

\* Two ETags that are there and equal; the comparison also takes two that are
\* missing, which are both "", for equal.
SameEtag(f, g) == f.tag = "content" /\ g.tag = "content" /\ f.content = g.content
Untagged(f, g) == f.tag = "none" /\ g.tag = "none"
SameMd5(f, g) == opts.md5 /\ f.content = g.content
SameSize(f, g) == size[f.content] = size[g.content]

\* Mutant: a checksum that is missing on one side is taken for equal.
UnequalTrusting(p, U) ==
    \/ opts.strategy = "force"
    \/ opts.strategy = "size" /\ ~SameSize(src0[p], dst0[p])
    \/ /\ opts.strategy = "default"
       /\ IF opts.checksum THEN opts.md5 /\ p \notin U /\ ~SameMd5(src0[p], dst0[p])
          ELSE IF opts.local THEN ~SameSize(src0[p], dst0[p])
          ELSE ~SameEtag(src0[p], dst0[p]) /\ ~Untagged(src0[p], dst0[p])

\* The strategies, for a file that both sides have and U that could not be read;
\* --no-overwrite finds none unequal.
Unequal(p, U) ==
    \/ opts.strategy = "force"
    \/ opts.strategy = "size" /\ ~SameSize(src0[p], dst0[p])
    \/ /\ opts.strategy = "default"
       /\ IF opts.checksum
            THEN IF opts.md5 /\ p \notin U THEN ~SameMd5(src0[p], dst0[p])
                                         ELSE ~SameSize(src0[p], dst0[p])
          ELSE IF opts.local THEN ~SameSize(src0[p], dst0[p])
          ELSE ~SameEtag(src0[p], dst0[p]) /\ ~Untagged(src0[p], dst0[p])

\* The files whose checksums compute_checksum_diff may fail to get.
Unreadable == IF opts.strategy = "default" /\ opts.checksum
                THEN SUBSET (SrcMap \cap DstMap) ELSE {{}}

Wanted(U) == {p \in SrcMap : p \notin DstMap \/ Unequal(p, U)}
Extra == IF opts.delete THEN DstMap \ SrcMap ELSE {}

\* --max-delete counts before renames are looked for.
TooMany == Cardinality(Extra) > opts.maxDelete

\* The pairs detect_renames may find: each path once, and no file to copy is left
\* over while a file to delete with its ETag and size is.
EtagMatches(copies, deletes) ==
    {R \in SUBSET (deletes \X copies) :
       /\ \A r \in R : SameEtag(dst0[r[1]], src0[r[2]])
       /\ \A r, s \in R : (r[1] = s[1]) = (r[2] = s[2])
       /\ \A d \in deletes, c \in copies :
            SameEtag(dst0[d], src0[c]) => \E r \in R : r[1] = d \/ r[2] = c}

Olds(R) == {r[1] : r \in R}
News(R) == {r[2] : r \in R}

Deletable == IF TooMany THEN {} ELSE Extra

\* Both listings, to_copy, to_delete and detect_renames.
Diff ==
    /\ stage = "diff"
    /\ \E U \in Unreadable :
         \E R \in IF opts.delete /\ ~TooMany /\ ~opts.local
                   THEN EtagMatches(Wanted(U), Deletable) ELSE {{}} :
           /\ unread' = U
           /\ renames' = R
           /\ toCopy' = Wanted(U) \ News(R)
           /\ toDelete' = Deletable \ Olds(R)
    /\ IF opts.checksum /\ opts.delete /\ ~opts.local
         THEN todo' \in SUBSET toCopy' /\ heard' \in SUBSET toDelete'
         ELSE todo' = {} /\ heard' = {}
    /\ stage' = IF todo' = {} THEN "dedup" ELSE "checksums"
    /\ UNCHANGED <<listed, src, dst, dedups, effects>>

\* What detect_renames_by_checksum may take for the old place of p: a file with
\* the same MD5, else the only file of the same length.
ByMd5(p) == {d \in toDelete \cap heard : SameMd5(dst0[d], src0[p])}
BySize(p) == {d \in toDelete \cap heard : SameSize(dst0[d], src0[p])}
OldPlaces(p) == IF ByMd5(p) # {} THEN ByMd5(p)
                ELSE IF Cardinality(BySize(p)) = 1 THEN BySize(p) ELSE {}

\* Mutant: a matched old place stays in the list of those to delete.
MatchChecksumTwice(p) ==
    /\ stage = "checksums" /\ p \in todo
    /\ todo' = todo \ {p}
    /\ IF OldPlaces(p) = {}
         THEN UNCHANGED <<renames, toCopy, toDelete>>
         ELSE \E d \in OldPlaces(p) : /\ renames' = renames \cup {<<d, p>>}
                                      /\ toCopy' = toCopy \ {p}
                                      /\ UNCHANGED toDelete
    /\ stage' = IF todo' = {} THEN "dedup" ELSE "checksums"
    /\ UNCHANGED <<listed, src, dst, unread, heard, dedups, effects>>

\* One turn of its loop.
MatchChecksum(p) ==
    /\ stage = "checksums" /\ p \in todo
    /\ todo' = todo \ {p}
    /\ IF OldPlaces(p) = {}
         THEN UNCHANGED <<renames, toCopy, toDelete>>
         ELSE \E d \in OldPlaces(p) : /\ renames' = renames \cup {<<d, p>>}
                                      /\ toCopy' = toCopy \ {p}
                                      /\ toDelete' = toDelete \ {d}
    /\ stage' = IF todo' = {} THEN "dedup" ELSE "checksums"
    /\ UNCHANGED <<listed, src, dst, unread, heard, dedups, effects>>

\* Files of the destination listing that find_dedup_copies and
\* find_dedup_copies_by_checksum may take a copy from.
Twins(p) == {c \in DstMap \ {p} :
               IF opts.checksum THEN SameMd5(dst0[c], src0[p])
                                             ELSE SameEtag(dst0[c], src0[p])}

\* The targets that get a twin: with checksums, those whose own HEAD and whose
\* twin's were answered.
Twinned == LET T == {p \in toCopy : Twins(p) # {}}
           IN IF opts.local THEN {{}} ELSE IF opts.checksum THEN SUBSET T ELSE {T}

Task(kind, from, to) == [kind |-> kind, from |-> from, to |-> to]

\* Every request that follows from the plan.
FindDedups ==
    /\ stage = "dedup"
    /\ \E T \in Twinned :
       \E pick \in {f \in [T -> DstMap] : \A p \in T : f[p] \in Twins(p)} :
         /\ dedups' = {<<pick[p], p>> : p \in DOMAIN pick}
         /\ pending' =
              {Task("rename", r[1], r[2]) : r \in renames}
              \cup {Task("dedup", pick[p], p) : p \in DOMAIN pick}
              \cup {Task("copy", p, p) : p \in toCopy \ DOMAIN pick}
              \cup {Task("delete", d, d) : d \in toDelete}
    /\ stage' = "requests"
    /\ UNCHANGED <<listed, src, dst, toCopy, toDelete, unread, todo, heard, renames,
                   failed, copied, flying, broken>>

-----------------------------------------------------------------------------
(* The requests                                                             *)

Rank == [kind \in {"rename", "dedup", "copy", "delete"} |->
           CASE kind = "rename" -> 1 [] kind = "dedup" -> 2
             [] kind = "copy" -> 3   [] OTHER -> 4]

\* A phase begins when all requests of the one before are answered.
Turn(t) == /\ stage = "requests" /\ t \in pending
           /\ \A u \in pending : Rank[t.kind] <= Rank[u.kind]

Source(t) == IF t.kind = "copy" THEN src[t.from] ELSE dst[t.from]

After(t) ==
    CASE t.kind = "rename" -> [dst EXCEPT ![t.to] = dst[t.from], ![t.from] = Absent]
      [] t.kind = "delete" -> [dst EXCEPT ![t.from] = Absent]
      [] OTHER -> [dst EXCEPT ![t.to] = Source(t)]

IsCopy(t) == t.kind \in {"dedup", "copy"}

\* rename_onelake_file, copy_onelake_file, upload_onelake_file and
\* delete_onelake_file, done and answered.
Done(t) ==
    /\ Turn(t) /\ Source(t) # Absent
    /\ dst' = After(t)
    /\ copied' = IF IsCopy(t) THEN copied \cup {t} ELSE copied
    /\ pending' = pending \ {t}
    /\ UNCHANGED <<listed, src, stage, plan, failed, flying, broken>>

\* An upload creates, appends and flushes: it may stop after the first.
Emptied(t) == IF t.kind = "copy" /\ opts.local THEN {[dst EXCEPT ![t.to] = Hollow]} ELSE {}

\* Refused, broken off, or done with the answer lost: counted as failed.
Fails(t) ==
    /\ Turn(t)
    /\ dst' \in {dst} \cup Emptied(t) \cup (IF Source(t) = Absent THEN {} ELSE {After(t)})
    /\ failed' = failed \cup {t}
    /\ pending' = pending \ {t}
    /\ UNCHANGED <<listed, src, stage, plan, copied, flying, broken>>

\* A server-side copy answered with 202 is counted as copied.
Accepted(t) ==
    /\ Turn(t) /\ IsCopy(t) /\ ~opts.local /\ Source(t) # Absent
    /\ flying' = flying \cup {[task |-> t, file |-> Source(t)]}
    /\ copied' = copied \cup {t}
    /\ pending' = pending \ {t}
    /\ UNCHANGED <<listed, src, dst, stage, plan, failed, broken>>

\* The copy is made later, if its source is still what it was, or never.
Land(f) ==
    /\ f \in flying
    /\ flying' = flying \ {f}
    /\ \/ /\ Source(f.task) = f.file
          /\ dst' = [dst EXCEPT ![f.task.to] = f.file]
          /\ UNCHANGED broken
       \/ broken' = broken \cup {f.task.to} /\ UNCHANGED dst
    /\ UNCHANGED <<listed, src, stage, plan, pending, failed, copied>>

\* An upload whose requests are refused: nobody looks at those answers.
Unfilled(t) ==
    /\ Turn(t) /\ t.kind = "copy" /\ opts.local
    /\ dst' \in {dst} \cup Emptied(t)
    /\ broken' = broken \cup {t.to}
    /\ copied' = copied \cup {t}
    /\ pending' = pending \ {t}
    /\ UNCHANGED <<listed, src, stage, plan, failed, flying>>

\* Mutant: the sources go even when nothing was copied.
RemovableAlways == IF opts.remove THEN toCopy ELSE {}

\* --remove-source-files: everything that was to be copied, once anything was.
Removable == IF opts.remove /\ copied # {} THEN toCopy ELSE {}

\* Each removal may fail, which is not counted.  Then the report.
Report ==
    /\ stage = "requests" /\ pending = {}
    /\ \E gone \in SUBSET Removable :
         src' = [p \in Paths |-> IF p \in gone THEN Absent ELSE src[p]]
    /\ stage' = IF failed = {} THEN "synced" ELSE "partial_failure"
    /\ UNCHANGED <<listed, dst, plan, effects>>

Next == \/ Diff \/ FindDedups \/ Report
        \/ \E p \in Paths : MatchChecksum(p)
        \/ \E t \in pending : Done(t) \/ Fails(t) \/ Accepted(t) \/ Unfilled(t)
        \/ \E f \in flying : Land(f)

Spec == Init /\ [][Next]_vars

-----------------------------------------------------------------------------
(* Properties                                                               *)

Tasks == [kind : {"rename", "dedup", "copy", "delete"}, from : Paths, to : Paths]
Files == File \cup {Absent, Hollow}

\* Every variable of a sync has its type; requests go between known paths.
TypeOK ==
    /\ opts \in Requests /\ size \in Sizes
    /\ src0 \in Listings /\ dst0 \in Listings
    /\ srcPage \subseteq Paths /\ dstPage \subseteq Paths
    /\ src \in [Paths -> File \cup {Absent}]
    /\ dst \in [Paths -> Files]
    /\ stage \in {"diff", "checksums", "dedup", "requests", "synced", "partial_failure"}
    /\ toCopy \subseteq Paths /\ toDelete \subseteq Paths /\ todo \subseteq toCopy
    /\ unread \subseteq Paths /\ heard \subseteq Paths
    /\ renames \subseteq Paths \X Paths /\ dedups \subseteq Paths \X Paths
    /\ pending \subseteq Tasks /\ failed \subseteq Tasks /\ copied \subseteq Tasks
    /\ flying \subseteq [task : Tasks, file : Files]
    /\ broken \subseteq Paths

Lost == {p \in Paths : dst0[p] # Absent /\ dst[p] = Absent}

\* At no moment, whatever fails, does a file disappear from the destination unless
\* --delete was given, the file is in the scope of the filters and the source does
\* not have it, or has it where the listing's page or the size filter hides it; and
\* never more than --max-delete files.
OnlyExtraLost ==
    /\ \A p \in Lost :
         /\ opts.delete /\ p \in opts.keep /\ InDepth(p)
         /\ \/ src0[p] = Absent \/ p \notin srcPage
            \/ size[src0[p].content] \notin opts.sizes
    /\ Cardinality(Lost) <= opts.maxDelete

\* "Determine files to delete (at dest but not in source)": a file that disappears
\* is not in the source.
DeletedNotInSource == \A p \in Lost : src0[p] = Absent

\* Requests that are sent side by side do not meet: among the renames, and among
\* the copies and deletes that follow, no path occurs in two of them.
PhasesDisjoint ==
    \A t, u \in pending :
      t # u /\ t.kind # "dedup" /\ u.kind # "dedup" =>
        {t.from, t.to} \cap {u.from, u.to} = {}

\* Files the name filters or --no-recursive leave out stay as they are on both
\* sides.
OutOfScopeUntouched ==
    \A p \in Paths : p \notin opts.keep \/ ~InDepth(p) =>
      src[p] = src0[p] /\ dst[p] = dst0[p]

\* A copy to p that is out of the run's hands: refused after it was counted, not
\* made yet, or taken from a twin that another request moves or overwrites.
Moving == Olds(renames) \cup News(renames) \cup News(dedups)
Loose(p) == \/ p \in broken \cup {f.task.to : f \in flying}
            \/ \E d \in dedups : d[2] = p /\ d[1] \in Moving

\* A rename to p that was told from the length alone, and wrongly.
Guessed(p) == \E r \in renames : r[2] = p /\ dst0[r[1]].content # src0[p].content

\* What the comparison of p did not look at: anything, when --no-overwrite was given
\* or both ETags are missing; the contents, when it had no more than the lengths.
Blind(p) ==
    /\ p \in DstMap
    /\ \/ opts.strategy = "no_overwrite"
       \/ /\ opts.strategy = "default" /\ ~opts.checksum /\ ~opts.local
          /\ Untagged(src0[p], dst0[p])
ByLength(p) ==
    /\ p \in DstMap
    /\ \/ opts.strategy = "size"
       \/ /\ opts.strategy = "default"
          /\ IF opts.checksum THEN ~opts.md5 \/ p \in unread ELSE opts.local

\* A source file is in place: the destination has it, and what the comparison
\* looked at is the same.
InPlace(p) ==
    /\ dst[p] \notin {Absent, Hollow}
    /\ ~Blind(p) => SameSize(dst[p], src0[p])
    /\ ~Blind(p) /\ ~ByLength(p) => dst[p].content = src0[p].content

\* What is reported as synced is: every source file the listing showed is in place,
\* except where its own copy is out of the run's hands or it was renamed on a
\* guess, whatever became of the others; and with --delete nothing else that the
\* listing showed is left in scope, unless --max-delete kept it all.
SyncedIsTrue ==
    stage = "synced" =>
      /\ \A p \in SrcMap : Loose(p) \/ Guessed(p) \/ InPlace(p)
      /\ opts.delete /\ ~TooMany => \A p \in DstMap \ SrcMap : dst[p] = Absent

\* A source file is only removed after the run was asked to and something was
\* copied, and it is at the destination unless its own copy was counted as failed
\* or is out of the run's hands.
RemovedIsSafe ==
    \A p \in Paths : src[p] # src0[p] =>
      /\ opts.remove /\ copied # {}
      /\ Loose(p) \/ (\E t \in failed : t.to = p) \/ InPlace(p)

\* "files that need copying but already have a content-identical twin at the
\* destination": once all copies are made, a file copied from a twin has the
\* content the source has.
TwinsHaveContent ==
    stage = "synced" /\ flying = {} /\ broken = {} =>
      \A d \in dedups : dst[d[2]].content = src0[d[2]].content

\* "delete source files that were successfully copied": no source file is removed
\* whose copy was counted as failed.
RemovedWasCopied ==
    \A p \in Paths : src[p] # src0[p] => \A t \in failed : IsCopy(t) => t.to # p

=============================================================================
