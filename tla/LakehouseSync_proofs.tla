------------------------- MODULE LakehouseSync_proofs -------------------------
(* Types, what a sync can lose or touch, and what one that reports success has  *)
(* achieved, for all listings and commands.                                    *)
EXTENDS LakehouseSync, FiniteSetTheorems, TLAPS

-----------------------------------------------------------------------------
(* Types                                                                     *)

LEMMA TaskTypes ==
  ASSUME NEW kind \in {"rename", "dedup", "copy", "delete"}, NEW p \in Paths, NEW q \in Paths
  PROVE  /\ Task(kind, p, q) \in Tasks
         /\ Task(kind, p, q).kind = kind /\ Task(kind, p, q).from = p
         /\ Task(kind, p, q).to = q
BY DEF Task, Tasks

LEMMA MapTypes ==
  ASSUME TypeOK
  PROVE  DstMap \subseteq Paths /\ SrcMap \subseteq Paths /\ Deletable \subseteq DstMap
BY DEF TypeOK, DstMap, SrcMap, Deletable, Extra

LEMMA AfterTypes ==
  ASSUME TypeOK, NEW t \in Tasks, Source(t) # Absent
  PROVE  After(t) \in [Paths -> Files]
<1>1. Source(t) \in Files
  BY DEF TypeOK, Source, Tasks, Files
<1>2. t.from \in Paths /\ t.to \in Paths /\ t.kind \in {"rename", "dedup", "copy", "delete"}
  BY DEF Tasks
<1>3. CASE t.kind = "rename"
  BY <1>2, <1>3 DEF After, TypeOK, Files
<1>4. CASE t.kind = "delete"
  BY <1>2, <1>4 DEF After, TypeOK, Files
<1>5. CASE t.kind \notin {"rename", "delete"}
  BY <1>1, <1>2, <1>5 DEF After, TypeOK
<1> QED BY <1>3, <1>4, <1>5

LEMMA EmptiedTypes ==
  ASSUME TypeOK, NEW t \in Tasks
  PROVE  Emptied(t) \subseteq [Paths -> Files]
BY DEF TypeOK, Emptied, Tasks, Files

LEMMA TypeInit == Init => TypeOK
<1> SUFFICES ASSUME Init PROVE TypeOK
  OBVIOUS
<1>1. src0 \in [Paths -> File \cup {Absent}] /\ dst0 \in [Paths -> File \cup {Absent}]
  BY SyncAssumption DEF Init
<1>2. dst \in [Paths -> Files]
  BY <1>1 DEF Init, Files
<1>3. srcPage \subseteq Paths /\ dstPage \subseteq Paths
  BY SyncAssumption DEF Init
<1> QED BY <1>1, <1>2, <1>3 DEF Init, TypeOK

LEMMA DiffTypes == TypeOK /\ Diff => TypeOK'
<1> SUFFICES ASSUME TypeOK, Diff PROVE TypeOK'
  OBVIOUS
<1>u. PICK U \in Unreadable :
        \E R \in IF opts.delete /\ ~TooMany /\ ~opts.local
                  THEN EtagMatches(Wanted(U), Deletable) ELSE {{}} :
          /\ unread' = U /\ renames' = R
          /\ toCopy' = Wanted(U) \ News(R) /\ toDelete' = Deletable \ Olds(R)
  BY DEF Diff
<1>1. PICK R \in IF opts.delete /\ ~TooMany /\ ~opts.local
                  THEN EtagMatches(Wanted(U), Deletable) ELSE {{}} :
          /\ unread' = U /\ renames' = R
          /\ toCopy' = Wanted(U) \ News(R) /\ toDelete' = Deletable \ Olds(R)
  BY <1>u
<1>2. R \subseteq Paths \X Paths
  BY MapTypes DEF EtagMatches, Wanted
<1>3. toCopy' \subseteq Paths /\ toDelete' \subseteq Paths
  BY <1>1, MapTypes DEF Wanted
<1>4. /\ todo' \subseteq toCopy' /\ heard' \subseteq toDelete'
      /\ stage' \in {"checksums", "dedup"}
  BY DEF Diff
<1>5. unread' \subseteq Paths
  <2>1. U \subseteq SrcMap
    BY DEF Unreadable
  <2> QED BY <1>1, <2>1, MapTypes
<1> QED BY <1>1, <1>2, <1>3, <1>4, <1>5 DEF Diff, TypeOK, listed, effects

LEMMA MatchTypes ==
  ASSUME TypeOK, NEW p \in Paths, MatchChecksum(p)
  PROVE  TypeOK'
<1>1. OldPlaces(p) \subseteq toDelete
  BY DEF OldPlaces, ByMd5, BySize
<1>2. renames' \subseteq Paths \X Paths /\ toCopy' \subseteq Paths /\ toDelete' \subseteq Paths
  <2>1. CASE OldPlaces(p) = {}
    BY <2>1 DEF MatchChecksum, TypeOK
  <2>2. CASE OldPlaces(p) # {}
    <3>1. PICK d \in OldPlaces(p) : /\ renames' = renames \cup {<<d, p>>}
                                    /\ toCopy' = toCopy \ {p}
                                    /\ toDelete' = toDelete \ {d}
      BY <2>2 DEF MatchChecksum
    <3> QED BY <3>1, <1>1 DEF TypeOK
  <2> QED BY <2>1, <2>2
<1>3. todo' \subseteq toCopy'
  BY DEF MatchChecksum, TypeOK
<1>4. stage' \in {"checksums", "dedup"}
  BY DEF MatchChecksum
<1> QED BY <1>2, <1>3, <1>4 DEF MatchChecksum, TypeOK, listed, effects

\* The requests of a plan, for one choice of twins.
Planned(pick) == {Task("rename", r[1], r[2]) : r \in renames}
                 \cup {Task("dedup", pick[p], p) : p \in DOMAIN pick}
                 \cup {Task("copy", p, p) : p \in toCopy \ DOMAIN pick}
                 \cup {Task("delete", d, d) : d \in toDelete}

LEMMA FindDedupsPick ==
  ASSUME TypeOK, FindDedups
  PROVE  \E pick : /\ DOMAIN pick \subseteq toCopy
                   /\ \A p \in DOMAIN pick : pick[p] \in DstMap /\ pick[p] \in Twins(p)
                   /\ dedups' = {<<pick[p], p>> : p \in DOMAIN pick}
                   /\ pending' = Planned(pick)
<1>1. PICK T \in Twinned :
        \E pick \in {f \in [T -> DstMap] : \A p \in T : f[p] \in Twins(p)} :
          dedups' = {<<pick[p], p>> : p \in DOMAIN pick} /\ pending' = Planned(pick)
  BY DEF FindDedups, Planned
<1>2. PICK pick \in {f \in [T -> DstMap] : \A p \in T : f[p] \in Twins(p)} :
          dedups' = {<<pick[p], p>> : p \in DOMAIN pick} /\ pending' = Planned(pick)
  BY <1>1
<1>3. T \subseteq toCopy
  BY DEF Twinned
<1>4. /\ DOMAIN pick \subseteq toCopy
      /\ \A p \in DOMAIN pick : pick[p] \in DstMap /\ pick[p] \in Twins(p)
  BY <1>2, <1>3
<1> QED BY <1>2, <1>4

LEMMA DedupTypes == TypeOK /\ FindDedups => TypeOK'
<1> SUFFICES ASSUME TypeOK, FindDedups PROVE TypeOK'
  OBVIOUS
<1>1. PICK pick : /\ DOMAIN pick \subseteq toCopy
                  /\ \A p \in DOMAIN pick : pick[p] \in DstMap
                  /\ dedups' = {<<pick[p], p>> : p \in DOMAIN pick}
                  /\ pending' = Planned(pick)
  BY FindDedupsPick
<1>2. /\ toCopy \subseteq Paths /\ toDelete \subseteq Paths
      /\ \A r \in renames : r[1] \in Paths /\ r[2] \in Paths
      /\ \A p \in DOMAIN pick : p \in Paths /\ pick[p] \in Paths
  BY <1>1, MapTypes DEF TypeOK
<1>3. dedups' \subseteq Paths \X Paths
  BY <1>1, <1>2
<1>4. pending' \subseteq Tasks
  <2>1. \A r \in renames : Task("rename", r[1], r[2]) \in Tasks
    BY <1>2, TaskTypes
  <2>2. \A p \in DOMAIN pick : Task("dedup", pick[p], p) \in Tasks
    BY <1>2, TaskTypes
  <2>3. \A p \in toCopy : Task("copy", p, p) \in Tasks
    BY <1>2, TaskTypes
  <2>4. \A d \in toDelete : Task("delete", d, d) \in Tasks
    BY <1>2, TaskTypes
  <2> QED BY <1>1, <2>1, <2>2, <2>3, <2>4 DEF Planned
<1> QED BY <1>3, <1>4 DEF FindDedups, TypeOK, listed

LEMMA RequestTypes ==
  ASSUME TypeOK, NEW t \in pending, Done(t) \/ Fails(t) \/ Accepted(t) \/ Unfilled(t)
  PROVE  TypeOK'
<1> USE DEF listed, plan
<1>1. t \in Tasks
  BY DEF TypeOK
<1>2. CASE Done(t)
  <2>1. dst' \in [Paths -> Files]
    BY <1>1, <1>2, AfterTypes DEF Done
  <2> QED BY <1>1, <1>2, <2>1 DEF Done, TypeOK
<1>3. CASE Fails(t)
  <2>1. dst' \in [Paths -> Files]
    BY <1>1, <1>3, AfterTypes, EmptiedTypes DEF Fails, TypeOK
  <2> QED BY <1>1, <1>3, <2>1 DEF Fails, TypeOK
<1>4. CASE Accepted(t)
  <2>1. Source(t) \in Files
    BY <1>1 DEF TypeOK, Source, Tasks, Files
  <2>2. [task |-> t, file |-> Source(t)] \in [task : Tasks, file : Files]
    BY <1>1, <2>1
  <2>3. flying' \subseteq [task : Tasks, file : Files]
    BY <1>4, <2>2 DEF Accepted, TypeOK
  <2> QED BY <1>1, <1>4, <2>3 DEF Accepted, TypeOK
<1>5. CASE Unfilled(t)
  <2>1. t.to \in Paths
    BY <1>1 DEF Tasks
  <2>2. dst' \in [Paths -> Files] /\ broken' \subseteq Paths
    BY <1>1, <1>5, <2>1, EmptiedTypes DEF Unfilled, TypeOK
  <2> QED BY <1>1, <1>5, <2>2 DEF Unfilled, TypeOK
<1> QED BY <1>2, <1>3, <1>4, <1>5

LEMMA LandTypes ==
  ASSUME TypeOK, NEW f \in flying, Land(f)
  PROVE  TypeOK'
<1>1. f.file \in Files /\ f.task.to \in Paths
  BY DEF TypeOK, Tasks
<1>2. dst' \in [Paths -> Files] /\ broken' \subseteq Paths
  BY <1>1 DEF Land, TypeOK
<1> QED BY <1>2 DEF Land, TypeOK, listed, plan

LEMMA ReportTypes == TypeOK /\ Report => TypeOK'
<1> SUFFICES ASSUME TypeOK, Report PROVE TypeOK'
  OBVIOUS
<1>1. src' \in [Paths -> File \cup {Absent}]
  BY DEF Report, TypeOK
<1> QED BY <1>1 DEF Report, TypeOK, listed, plan, effects

LEMMA TypeStep == TypeOK /\ [Next]_vars => TypeOK'
<1> SUFFICES ASSUME TypeOK, [Next]_vars PROVE TypeOK'
  OBVIOUS
<1>1. CASE UNCHANGED vars
  BY <1>1 DEF vars, TypeOK
<1>2. CASE Next
  BY <1>2, DiffTypes, DedupTypes, ReportTypes, MatchTypes, RequestTypes, LandTypes DEF Next
<1> QED BY <1>1, <1>2

\* Every listing, plan, request and result has its type.
THEOREM TypeCorrect == Spec => []TypeOK
BY TypeInit, TypeStep, PTL DEF Spec

-----------------------------------------------------------------------------
(* What is lost and what is touched                                          *)

PlanInv == /\ toCopy \subseteq SrcMap /\ \A r \in renames : r[2] \in SrcMap
           /\ toDelete \subseteq Deletable /\ \A r \in renames : r[1] \in Deletable
TaskInv == \A t \in pending : /\ t.kind \in {"rename", "delete"} => t.from \in Deletable
                              /\ t.kind # "delete" => t.to \in SrcMap
FlyInv == \A f \in flying : f.task.to \in SrcMap /\ f.file # Absent
EffectInv == /\ Lost \subseteq Deletable
             /\ \A p \in Paths : dst[p] # dst0[p] => p \in SrcMap \cup Deletable
             /\ \A p \in Paths : src[p] # src0[p] => p \in SrcMap
ScopeInv == PlanInv /\ TaskInv /\ FlyInv /\ EffectInv

LEMMA ListedFixed ==
  ASSUME UNCHANGED listed
  PROVE  SrcMap' = SrcMap /\ DstMap' = DstMap /\ Deletable' = Deletable
<1>1. opts' = opts /\ size' = size /\ src0' = src0 /\ dst0' = dst0
      /\ srcPage' = srcPage /\ dstPage' = dstPage
  BY DEF listed
<1>2. DstMap' = DstMap
  BY <1>1 DEF DstMap, InDepth
<1>3. SrcMap' = SrcMap
  BY <1>1, <1>2 DEF SrcMap, InDepth
<1>4. Extra' = Extra
  BY <1>1, <1>2, <1>3 DEF Extra
<1> QED BY <1>1, <1>2, <1>3, <1>4 DEF Deletable, TooMany

LEMMA NextFixes == [Next]_vars => UNCHANGED listed
BY DEF Next, vars, listed, Diff, FindDedups, Report, MatchChecksum, Done, Fails, Accepted,
       Unfilled, Land

LEMMA ScopeInit == Init => ScopeInv
<1> SUFFICES ASSUME Init PROVE ScopeInv
  OBVIOUS
<1>1. Lost = {}
  BY DEF Init, Lost
<1> QED BY <1>1 DEF Init, ScopeInv, PlanInv, TaskInv, FlyInv, EffectInv

LEMMA DiffScope == TypeOK /\ ScopeInv /\ Diff => ScopeInv'
<1> SUFFICES ASSUME TypeOK, ScopeInv, Diff PROVE ScopeInv'
  OBVIOUS
<1>1. UNCHANGED <<listed, src, dst, dedups, pending, failed, copied, flying, broken>>
  BY DEF Diff, effects
<1>2. SrcMap' = SrcMap /\ Deletable' = Deletable
  BY <1>1, ListedFixed
<1>u. PICK U \in Unreadable :
        \E R \in IF opts.delete /\ ~TooMany /\ ~opts.local
                  THEN EtagMatches(Wanted(U), Deletable) ELSE {{}} :
          /\ unread' = U /\ renames' = R
          /\ toCopy' = Wanted(U) \ News(R) /\ toDelete' = Deletable \ Olds(R)
  BY DEF Diff
<1>3. PICK R \in IF opts.delete /\ ~TooMany /\ ~opts.local
                  THEN EtagMatches(Wanted(U), Deletable) ELSE {{}} :
          /\ unread' = U /\ renames' = R
          /\ toCopy' = Wanted(U) \ News(R) /\ toDelete' = Deletable \ Olds(R)
  BY <1>u
<1>4. R \subseteq Deletable \X Wanted(U)
  BY <1>3 DEF EtagMatches
<1>5. Wanted(U) \subseteq SrcMap
  BY DEF Wanted
<1>6. PlanInv'
  BY <1>2, <1>3, <1>4, <1>5 DEF PlanInv
<1>7. TaskInv' /\ FlyInv'
  BY <1>1, <1>2 DEF ScopeInv, TaskInv, FlyInv
<1>8. EffectInv'
  BY <1>1, <1>2 DEF ScopeInv, EffectInv, Lost, listed
<1> QED BY <1>6, <1>7, <1>8 DEF ScopeInv

LEMMA MatchScope ==
  ASSUME TypeOK, ScopeInv, NEW p \in Paths, MatchChecksum(p)
  PROVE  ScopeInv'
<1>1. UNCHANGED <<listed, src, dst, dedups, pending, failed, copied, flying, broken>>
  BY DEF MatchChecksum, effects
<1>2. SrcMap' = SrcMap /\ Deletable' = Deletable
  BY <1>1, ListedFixed
<1>3. OldPlaces(p) \subseteq Deletable /\ p \in SrcMap
  BY DEF OldPlaces, ByMd5, BySize, ScopeInv, PlanInv, MatchChecksum, TypeOK
<1>4. /\ toCopy' \subseteq toCopy /\ toDelete' \subseteq toDelete
      /\ \A r \in renames' : r \in renames \/ (r[1] \in Deletable /\ r[2] \in SrcMap)
  BY <1>3 DEF MatchChecksum
<1>5. PlanInv'
  BY <1>2, <1>4 DEF ScopeInv, PlanInv
<1>6. TaskInv' /\ FlyInv'
  BY <1>1, <1>2 DEF ScopeInv, TaskInv, FlyInv
<1>7. EffectInv'
  BY <1>1, <1>2 DEF ScopeInv, EffectInv, Lost, listed
<1> QED BY <1>5, <1>6, <1>7 DEF ScopeInv

LEMMA DedupScope == TypeOK /\ ScopeInv /\ FindDedups => ScopeInv'
<1> SUFFICES ASSUME TypeOK, ScopeInv, FindDedups PROVE ScopeInv'
  OBVIOUS
<1>1. UNCHANGED <<listed, src, dst, toCopy, toDelete, todo, renames, failed, copied,
                  flying, broken>>
  BY DEF FindDedups
<1>2. SrcMap' = SrcMap /\ Deletable' = Deletable
  BY <1>1, ListedFixed
<1>3. PICK pick : /\ DOMAIN pick \subseteq toCopy
                  /\ \A p \in DOMAIN pick : pick[p] \in DstMap
                  /\ pending' = Planned(pick)
  BY FindDedupsPick
<1>4. TaskInv'
  <2> SUFFICES ASSUME NEW t \in pending'
               PROVE  /\ t.kind \in {"rename", "delete"} => t.from \in Deletable
                      /\ t.kind # "delete" => t.to \in SrcMap
    BY <1>2 DEF TaskInv
  <2>1. CASE t \in {Task("rename", r[1], r[2]) : r \in renames}
    BY <2>1 DEF ScopeInv, PlanInv, Task
  <2>2. CASE t \in {Task("dedup", pick[p], p) : p \in DOMAIN pick}
    BY <1>3, <2>2 DEF ScopeInv, PlanInv, Task
  <2>3. CASE t \in {Task("copy", p, p) : p \in toCopy \ DOMAIN pick}
    BY <2>3 DEF ScopeInv, PlanInv, Task
  <2>4. CASE t \in {Task("delete", d, d) : d \in toDelete}
    BY <2>4 DEF ScopeInv, PlanInv, Task
  <2> QED BY <1>3, <2>1, <2>2, <2>3, <2>4 DEF Planned
<1>5. PlanInv' /\ FlyInv'
  BY <1>1, <1>2 DEF ScopeInv, PlanInv, FlyInv
<1>6. EffectInv'
  BY <1>1, <1>2 DEF ScopeInv, EffectInv, Lost, listed
<1> QED BY <1>4, <1>5, <1>6 DEF ScopeInv

\* What a request does to the destination stays within its two paths, and only
\* what may be deleted goes away.
LEMMA AfterScope ==
  ASSUME TypeOK, ScopeInv, NEW t \in pending, Source(t) # Absent
  PROVE  \A p \in Paths : /\ After(t)[p] = Absent => dst[p] = Absent \/ p \in Deletable
                          /\ After(t)[p] # dst[p] => p \in SrcMap \cup Deletable
<1>1. t \in Tasks
  BY DEF TypeOK
<1>2. t.from \in Paths /\ t.to \in Paths /\ dst \in [Paths -> Files]
  BY <1>1 DEF Tasks, TypeOK
<1>3. /\ t.kind \in {"rename", "delete"} => t.from \in Deletable
      /\ t.kind # "delete" => t.to \in SrcMap
  BY DEF ScopeInv, TaskInv
<1>4. CASE t.kind = "rename"
  <2>1. dst[t.from] # Absent
    BY <1>4 DEF Source
  <2>2. After(t) = [dst EXCEPT ![t.to] = dst[t.from], ![t.from] = Absent]
    BY <1>4 DEF After
  <2> QED BY <1>2, <1>3, <1>4, <2>1, <2>2
<1>5. CASE t.kind = "delete"
  <2>1. After(t) = [dst EXCEPT ![t.from] = Absent]
    BY <1>5 DEF After
  <2> QED BY <1>2, <1>3, <1>5, <2>1
<1>6. CASE t.kind \notin {"rename", "delete"}
  <2>1. After(t) = [dst EXCEPT ![t.to] = Source(t)]
    BY <1>6 DEF After
  <2> QED BY <1>2, <1>3, <1>6, <2>1
<1> QED BY <1>4, <1>5, <1>6

LEMMA EmptiedScope ==
  ASSUME TypeOK, ScopeInv, NEW t \in pending, NEW d \in Emptied(t)
  PROVE  \A p \in Paths : /\ d[p] = Absent => dst[p] = Absent
                          /\ d[p] # dst[p] => p \in SrcMap
<1>1. t.kind = "copy" /\ d = [dst EXCEPT ![t.to] = Hollow]
  BY DEF Emptied
<1>2. t.to \in SrcMap
  BY <1>1 DEF ScopeInv, TaskInv
<1> QED BY <1>1, <1>2, SyncAssumption DEF TypeOK

\* A step that changes the destination within these limits keeps EffectInv.
LEMMA EffectKept ==
  ASSUME TypeOK, EffectInv, UNCHANGED <<listed, src>>,
         \A p \in Paths : /\ dst'[p] = Absent => dst[p] = Absent \/ p \in Deletable
                          /\ dst'[p] # dst[p] => p \in SrcMap \cup Deletable
  PROVE  EffectInv'
<1>1. SrcMap' = SrcMap /\ Deletable' = Deletable /\ dst0' = dst0 /\ src0' = src0 /\ src' = src
  BY ListedFixed DEF listed
<1>2. Lost' \subseteq Deletable
  BY <1>1 DEF Lost, EffectInv
<1>3. \A p \in Paths : dst'[p] # dst0'[p] => p \in SrcMap \cup Deletable
  BY <1>1 DEF EffectInv
<1> QED BY <1>1, <1>2, <1>3 DEF EffectInv

LEMMA RequestScope ==
  ASSUME TypeOK, ScopeInv, NEW t \in pending, Done(t) \/ Fails(t) \/ Accepted(t) \/ Unfilled(t)
  PROVE  ScopeInv'
<1>1. UNCHANGED <<listed, src, toCopy, toDelete, renames>> /\ pending' \subseteq pending
  BY DEF Done, Fails, Accepted, Unfilled, plan
<1>2. SrcMap' = SrcMap /\ Deletable' = Deletable
  BY <1>1, ListedFixed
<1>3. PlanInv' /\ TaskInv'
  BY <1>1, <1>2 DEF ScopeInv, PlanInv, TaskInv
<1>4. dst \in [Paths -> Files]
  BY DEF TypeOK
<1>5. CASE Done(t)
  <2>1. EffectInv'
    BY <1>1, <1>5, AfterScope, EffectKept DEF Done, ScopeInv
  <2>2. FlyInv'
    BY <1>2, <1>5 DEF Done, ScopeInv, FlyInv
  <2> QED BY <1>3, <2>1, <2>2 DEF ScopeInv
<1>6. CASE Fails(t)
  <2>1. \A p \in Paths : /\ dst'[p] = Absent => dst[p] = Absent \/ p \in Deletable
                         /\ dst'[p] # dst[p] => p \in SrcMap \cup Deletable
    <3>1. CASE dst' = dst
      BY <3>1
    <3>2. CASE dst' \in Emptied(t)
      BY <3>2, EmptiedScope
    <3>3. CASE dst' # dst /\ dst' \notin Emptied(t)
      <4>1. Source(t) # Absent /\ dst' = After(t)
        BY <1>6, <3>3 DEF Fails
      <4> QED BY <4>1, AfterScope
    <3> QED BY <3>1, <3>2, <3>3
  <2>2. EffectInv'
    BY <1>1, <2>1, EffectKept DEF ScopeInv
  <2>3. FlyInv'
    BY <1>2, <1>6 DEF Fails, ScopeInv, FlyInv
  <2> QED BY <1>3, <2>2, <2>3 DEF ScopeInv
<1>7. CASE Accepted(t)
  <2>1. EffectInv'
    BY <1>1, <1>7, EffectKept DEF Accepted, ScopeInv
  <2>2. t.to \in SrcMap /\ Source(t) # Absent
    BY <1>7 DEF Accepted, IsCopy, ScopeInv, TaskInv
  <2>3. FlyInv'
    BY <1>2, <1>7, <2>2 DEF Accepted, ScopeInv, FlyInv
  <2> QED BY <1>3, <2>1, <2>3 DEF ScopeInv
<1>8. CASE Unfilled(t)
  <2>1. dst' = dst \/ dst' \in Emptied(t)
    BY <1>8 DEF Unfilled
  <2>2. \A p \in Paths : /\ dst'[p] = Absent => dst[p] = Absent
                         /\ dst'[p] # dst[p] => p \in SrcMap
    BY <2>1, EmptiedScope
  <2>3. EffectInv'
    BY <1>1, <2>2, EffectKept DEF ScopeInv
  <2>4. FlyInv'
    BY <1>2, <1>8 DEF Unfilled, ScopeInv, FlyInv
  <2> QED BY <1>3, <2>3, <2>4 DEF ScopeInv
<1> QED BY <1>5, <1>6, <1>7, <1>8

LEMMA LandScope ==
  ASSUME TypeOK, ScopeInv, NEW f \in flying, Land(f)
  PROVE  ScopeInv'
<1>1. /\ UNCHANGED <<listed, src, toCopy, toDelete, renames, pending>>
      /\ flying' \subseteq flying
  BY DEF Land, plan
<1>2. SrcMap' = SrcMap /\ Deletable' = Deletable
  BY <1>1, ListedFixed
<1>3. f.task.to \in SrcMap /\ f.task.to \in Paths /\ f.file # Absent
  BY MapTypes DEF ScopeInv, FlyInv
<1>4. \A p \in Paths : dst'[p] = dst[p] \/ (p = f.task.to /\ dst'[p] = f.file)
  BY DEF Land, TypeOK
<1>5. EffectInv'
  BY <1>1, <1>3, <1>4, EffectKept DEF ScopeInv
<1>6. PlanInv' /\ TaskInv' /\ FlyInv'
  BY <1>1, <1>2 DEF ScopeInv, PlanInv, TaskInv, FlyInv
<1> QED BY <1>5, <1>6 DEF ScopeInv

LEMMA ReportScope == TypeOK /\ ScopeInv /\ Report => ScopeInv'
<1> SUFFICES ASSUME TypeOK, ScopeInv, Report PROVE ScopeInv'
  OBVIOUS
<1>1. UNCHANGED <<listed, dst, toCopy, toDelete, renames, pending, flying>>
  BY DEF Report, plan, effects
<1>2. SrcMap' = SrcMap /\ Deletable' = Deletable
  BY <1>1, ListedFixed
<1>3. PlanInv' /\ TaskInv' /\ FlyInv'
  BY <1>1, <1>2 DEF ScopeInv, PlanInv, TaskInv, FlyInv
<1>4. \A p \in Paths : src'[p] = src[p] \/ p \in SrcMap
  BY DEF Report, Removable, ScopeInv, PlanInv
<1>5. EffectInv'
  BY <1>1, <1>2, <1>4 DEF ScopeInv, EffectInv, Lost, listed
<1> QED BY <1>3, <1>5 DEF ScopeInv

LEMMA ScopeStep == TypeOK /\ ScopeInv /\ [Next]_vars => ScopeInv'
<1> SUFFICES ASSUME TypeOK, ScopeInv, [Next]_vars PROVE ScopeInv'
  OBVIOUS
<1>1. CASE UNCHANGED vars
  <2>1. SrcMap' = SrcMap /\ Deletable' = Deletable
    BY <1>1, ListedFixed DEF vars, listed
  <2> QED BY <1>1, <2>1 DEF vars, ScopeInv, PlanInv, TaskInv, FlyInv, EffectInv, Lost
<1>2. CASE Next
  BY <1>2, DiffScope, DedupScope, ReportScope, MatchScope, RequestScope, LandScope DEF Next
<1> QED BY <1>1, <1>2

LEMMA ScopeAlways == Spec => [](TypeOK /\ ScopeInv)
BY TypeInit, TypeStep, ScopeInit, ScopeStep, PTL DEF Spec

\* Whatever fails, is lost or comes late, only files --delete was asked to remove
\* disappear from the destination, and at most --max-delete of them.
THEOREM OnlyExtraGoes == Spec => []OnlyExtraLost
<1>1. TypeOK /\ ScopeInv => OnlyExtraLost
  <2> SUFFICES ASSUME TypeOK, ScopeInv PROVE OnlyExtraLost
    OBVIOUS
  <2>1. opts \in Request
    BY SyncAssumption DEF TypeOK
  <2>2. Lost \subseteq Deletable
    BY DEF ScopeInv, EffectInv
  <2>3. \A p \in Lost : /\ opts.delete /\ p \in opts.keep /\ InDepth(p)
                        /\ \/ src0[p] = Absent \/ p \notin srcPage
                           \/ size[src0[p].content] \notin opts.sizes
    BY <2>2 DEF Deletable, Extra, DstMap, SrcMap
  <2>4. Cardinality(Deletable) <= opts.maxDelete /\ IsFiniteSet(Deletable)
    <3>1. IsFiniteSet(Deletable)
      BY MapTypes, SyncAssumption, FS_Subset
    <3>2. Cardinality(Deletable) \in Nat /\ Cardinality({}) = 0
      BY <3>1, FS_CardinalityType, FS_EmptySet
    <3>3. opts.maxDelete \in Nat
      BY <2>1 DEF Request
    <3> QED BY <3>1, <3>2, <3>3 DEF Deletable, TooMany
  <2>5. Cardinality(Lost) <= Cardinality(Deletable) /\ IsFiniteSet(Lost)
    BY <2>2, <2>4, FS_Subset
  <2>6. Cardinality(Lost) <= opts.maxDelete
    <3>1. Cardinality(Lost) \in Nat /\ Cardinality(Deletable) \in Nat
      BY <2>4, <2>5, FS_CardinalityType
    <3>2. opts.maxDelete \in Nat
      BY <2>1 DEF Request
    <3> QED BY <2>4, <2>5, <3>1, <3>2
  <2> QED BY <2>3, <2>6 DEF OnlyExtraLost
<1> QED BY <1>1, ScopeAlways, PTL

\* Paths outside the filters or below the top directory keep their files on both
\* sides, also while copies that were only accepted land after the report.
THEOREM OutOfScopeKept == Spec => []OutOfScopeUntouched
<1>1. ScopeInv => OutOfScopeUntouched
  <2> SUFFICES ASSUME ScopeInv, NEW p \in Paths, p \notin opts.keep \/ ~InDepth(p)
               PROVE  src[p] = src0[p] /\ dst[p] = dst0[p]
    BY DEF OutOfScopeUntouched
  <2>1. p \notin SrcMap /\ p \notin Deletable
    BY DEF SrcMap, DstMap, Deletable, Extra
  <2> QED BY <2>1 DEF ScopeInv, EffectInv
<1> QED BY <1>1, ScopeAlways, PTL

-----------------------------------------------------------------------------
(* What a sync achieves                                                      *)

\* What is to be copied or moved into place.
ToPlace == Wanted(unread)

\* The plan covers what is to be copied and deleted, each path once; requests are
\* on their way only in their stage.
PlanShape ==
  /\ stage = "diff" => toCopy = {} /\ toDelete = {} /\ renames = {}
  /\ stage # "diff" => /\ ToPlace = toCopy \cup News(renames)
                       /\ Deletable = toDelete \cup Olds(renames)
  /\ toCopy \cap News(renames) = {} /\ toDelete \cap Olds(renames) = {}
  /\ \A r, s \in renames : (r[1] = s[1]) <=> (r[2] = s[2])
  /\ stage \in {"diff", "checksums", "dedup"} =>
       pending = {} /\ flying = {} /\ dedups = {} /\ dst = dst0 /\ src = src0
  /\ stage \in {"synced", "partial_failure"} => pending = {}
  /\ stage = "synced" => failed = {}

\* A request does what the plan says of its paths; a twin has the content.
Shaped(t) ==
  /\ t.kind = "rename" => <<t.from, t.to>> \in renames
  /\ t.kind = "delete" => t.from = t.to /\ t.from \in toDelete
  /\ t.kind = "copy" => t.from = t.to
  /\ IsCopy(t) => t.to \in toCopy
  /\ t.kind = "dedup" => /\ <<t.from, t.to>> \in dedups /\ t.from \in DstMap
                         /\ dst0[t.from].content = src0[t.to].content
TasksShaped == /\ \A t \in pending : Shaped(t)
               /\ \A f \in flying : IsCopy(f.task) /\ Shaped(f.task)

\* While a dedup copy waits, only renames and dedup copies have been sent.
DedupsFirst ==
  \A t \in pending : t.kind = "dedup" =>
    /\ \A f \in flying : f.task.kind = "dedup"
    /\ \A p \in Paths : dst[p] # dst0[p] =>
         p \in Olds(renames) \cup News(renames) \cup News(dedups)

\* A file with the content the source has at p.
Right(file, p) == file \in File /\ file.content = src0[p].content

Sending == stage \in {"requests", "synced", "partial_failure"}

\* No other request moves or overwrites the twin of p.
Steady(p) == \A d \in dedups : d[2] = p => d[1] \notin Moving

\* The request that brings p has failed, or was refused after it was counted.
Missed(p) == p \in broken \/ \E t \in failed : t.to = p

\* What was to be copied is waiting, on its way, or there, whatever happens to the
\* others.
CopiesRight ==
  /\ \A f \in flying : Steady(f.task.to) => Right(f.file, f.task.to)
  /\ Sending =>
       \A p \in toCopy : Steady(p) /\ ~Missed(p) =>
         \/ \E t \in pending : IsCopy(t) /\ t.to = p
         \/ \E f \in flying : f.task.to = p
         \/ Right(dst[p], p)

\* Unless one failed: what was to be moved or deleted is, or is waiting.
MovesDone ==
  Sending /\ failed = {} =>
    /\ \A r \in renames :
         \/ Task("rename", r[1], r[2]) \in pending /\ dst[r[1]] = dst0[r[1]]
         \/ dst[r[1]] = Absent /\ dst[r[2]] = dst0[r[1]]
    /\ \A d \in toDelete : Task("delete", d, d) \in pending \/ dst[d] = Absent

\* What is not to be copied is not written, and a source goes only at the end.
RestKept ==
  /\ \A p \in SrcMap \ ToPlace : dst[p] = dst0[p]
  /\ \A p \in Paths : src[p] # src0[p] =>
       /\ stage \in {"synced", "partial_failure"}
       /\ opts.remove /\ copied # {} /\ p \in toCopy

OutcomeInv == /\ PlanShape /\ TasksShaped /\ DedupsFirst
              /\ CopiesRight /\ MovesDone /\ RestKept

LEMMA WantedFixed ==
  ASSUME UNCHANGED listed, UNCHANGED unread
  PROVE  ToPlace' = ToPlace
<1>1. opts' = opts /\ size' = size /\ src0' = src0 /\ dst0' = dst0
      /\ SrcMap' = SrcMap /\ DstMap' = DstMap
  BY ListedFixed DEF listed
<1>2. \A p : Unequal(p, unread)' <=> Unequal(p, unread)
  BY <1>1 DEF Unequal, SameSize, SameMd5, SameEtag, Untagged
<1> QED BY <1>1, <1>2 DEF ToPlace, Wanted

LEMMA OutcomeInit == Init => OutcomeInv
<1> SUFFICES ASSUME Init PROVE OutcomeInv
  OBVIOUS
<1>1. PlanShape /\ TasksShaped /\ DedupsFirst /\ CopiesRight /\ MovesDone
  BY DEF Init, PlanShape, TasksShaped, DedupsFirst, CopiesRight, MovesDone, Sending, News, Olds
<1>2. RestKept
  BY DEF Init, RestKept
<1> QED BY <1>1, <1>2 DEF OutcomeInv

-----------------------------------------------------------------------------
(* Planning                                                                  *)

\* Planning changes nothing but the plan.
LEMMA PlanningKeeps ==
  ASSUME TypeOK, OutcomeInv, UNCHANGED <<listed, src, dst, dedups, effects>>,
         stage \in {"diff", "checksums"}, stage' \in {"checksums", "dedup"}, PlanShape'
  PROVE  OutcomeInv'
<1>1. /\ pending = {} /\ flying = {} /\ dst = dst0 /\ src = src0
      /\ pending' = {} /\ flying' = {}
      /\ dst' = dst /\ src' = src /\ dst0' = dst0 /\ src0' = src0 /\ dedups' = dedups
  BY DEF OutcomeInv, PlanShape, effects, listed
<1>2. TasksShaped' /\ DedupsFirst'
  BY <1>1 DEF TasksShaped, DedupsFirst
<1>3. ~Sending'
  BY DEF Sending
<1>4. CopiesRight' /\ MovesDone'
  BY <1>1, <1>3 DEF CopiesRight, MovesDone
<1>5. RestKept'
  <2>1. SrcMap' \subseteq Paths'
    BY MapTypes, ListedFixed DEF listed
  <2> QED BY <1>1, <2>1 DEF RestKept
<1> QED BY <1>2, <1>4, <1>5 DEF OutcomeInv

LEMMA DiffOutcome == TypeOK /\ OutcomeInv /\ Diff => OutcomeInv'
<1> SUFFICES ASSUME TypeOK, OutcomeInv, Diff PROVE OutcomeInv'
  OBVIOUS
<1>1. /\ UNCHANGED <<listed, src, dst, dedups, effects>> /\ stage = "diff"
      /\ stage' \in {"checksums", "dedup"}
  BY DEF Diff
<1>u. PICK U \in Unreadable :
        \E R \in IF opts.delete /\ ~TooMany /\ ~opts.local
                  THEN EtagMatches(Wanted(U), Deletable) ELSE {{}} :
          /\ unread' = U /\ renames' = R
          /\ toCopy' = Wanted(U) \ News(R) /\ toDelete' = Deletable \ Olds(R)
  BY DEF Diff
<1>2. PICK R \in IF opts.delete /\ ~TooMany /\ ~opts.local
                  THEN EtagMatches(Wanted(U), Deletable) ELSE {{}} :
          /\ unread' = U /\ renames' = R
          /\ toCopy' = Wanted(U) \ News(R) /\ toDelete' = Deletable \ Olds(R)
  BY <1>u
<1>3. /\ \A r, s \in R : (r[1] = s[1]) <=> (r[2] = s[2])
      /\ \A r \in R : r[1] \in Deletable /\ r[2] \in Wanted(U)
  BY <1>2 DEF EtagMatches
<1>4. News(R) \subseteq Wanted(U) /\ Olds(R) \subseteq Deletable
  BY <1>3 DEF News, Olds
<1>5. ToPlace' = Wanted(U) /\ Deletable' = Deletable
  <2>1. opts' = opts /\ size' = size /\ src0' = src0 /\ dst0' = dst0
        /\ SrcMap' = SrcMap /\ DstMap' = DstMap /\ Deletable' = Deletable
    BY <1>1, ListedFixed DEF listed
  <2>2. \A p : Unequal(p, unread)' <=> Unequal(p, U)
    BY <1>2, <2>1 DEF Unequal, SameSize, SameMd5, SameEtag, Untagged
  <2> QED BY <2>1, <2>2 DEF ToPlace, Wanted
<1>6. PlanShape'
  <2>1. /\ ToPlace' = toCopy' \cup News(renames') /\ Deletable' = toDelete' \cup Olds(renames')
        /\ toCopy' \cap News(renames') = {} /\ toDelete' \cap Olds(renames') = {}
    BY <1>2, <1>4, <1>5
  <2>2. \A r, s \in renames' : (r[1] = s[1]) <=> (r[2] = s[2])
    BY <1>2, <1>3
  <2>3. pending' = {} /\ flying' = {} /\ dedups' = {} /\ dst' = dst0' /\ src' = src0'
    BY <1>1 DEF OutcomeInv, PlanShape, effects, listed
  <2> QED BY <1>1, <2>1, <2>2, <2>3 DEF PlanShape, News, Olds
<1> QED BY <1>1, <1>6, PlanningKeeps

LEMMA PairAdded ==
  ASSUME NEW R, NEW d, NEW p
  PROVE  /\ News(R \cup {<<d, p>>}) = News(R) \cup {p}
         /\ Olds(R \cup {<<d, p>>}) = Olds(R) \cup {d}
<1>1. <<d, p>>[1] = d /\ <<d, p>>[2] = p
  OBVIOUS
<1>2. \A q : q \in News(R \cup {<<d, p>>}) <=> q \in News(R) \/ q = p
  BY <1>1 DEF News
<1>3. \A q : q \in Olds(R \cup {<<d, p>>}) <=> q \in Olds(R) \/ q = d
  BY <1>1 DEF Olds
<1> QED BY <1>2, <1>3

LEMMA MatchOutcome ==
  ASSUME TypeOK, OutcomeInv, NEW p \in Paths, MatchChecksum(p)
  PROVE  OutcomeInv'
<1>1. /\ UNCHANGED <<listed, src, dst, unread, dedups, effects>> /\ stage = "checksums"
      /\ stage' \in {"checksums", "dedup"}
  BY DEF MatchChecksum
<1>2. /\ pending' = {} /\ flying' = {} /\ dedups' = {} /\ dst' = dst0' /\ src' = src0'
      /\ ToPlace = toCopy \cup News(renames) /\ Deletable = toDelete \cup Olds(renames)
      /\ toCopy \cap News(renames) = {} /\ toDelete \cap Olds(renames) = {}
      /\ \A r, s \in renames : (r[1] = s[1]) <=> (r[2] = s[2])
  BY <1>1 DEF OutcomeInv, PlanShape, effects, listed
<1>3. ToPlace' = ToPlace /\ Deletable' = Deletable
  BY <1>1, WantedFixed, ListedFixed
<1>4. CASE UNCHANGED <<renames, toCopy, toDelete>>
  <2>1. PlanShape'
    BY <1>1, <1>2, <1>3, <1>4 DEF PlanShape
  <2> QED BY <1>1, <2>1, PlanningKeeps
<1>5. ASSUME NEW d \in OldPlaces(p), renames' = renames \cup {<<d, p>>},
             toCopy' = toCopy \ {p}, toDelete' = toDelete \ {d}
      PROVE  OutcomeInv'
  <2>1. d \in toDelete /\ p \in toCopy
    BY DEF OldPlaces, ByMd5, BySize, MatchChecksum, TypeOK
  <2>2. News(renames') = News(renames) \cup {p} /\ Olds(renames') = Olds(renames) \cup {d}
    <3>1. /\ News(renames \cup {<<d, p>>}) = News(renames) \cup {p}
          /\ Olds(renames \cup {<<d, p>>}) = Olds(renames) \cup {d}
      BY ONLY PairAdded
    <3> QED BY ONLY <1>5, <3>1, Zenon
  <2>3. \A r \in renames : r[1] # d /\ r[2] # p
    BY <1>2, <2>1 DEF News, Olds
  <2>4. \A r, s \in renames' : (r[1] = s[1]) <=> (r[2] = s[2])
    BY <1>2, <1>5, <2>3
  <2>5. /\ ToPlace = toCopy' \cup News(renames') /\ Deletable = toDelete' \cup Olds(renames')
        /\ toCopy' \cap News(renames') = {} /\ toDelete' \cap Olds(renames') = {}
    BY <1>2, <1>5, <2>1, <2>2
  <2>6. PlanShape'
    BY <1>1, <1>2, <1>3, <2>4, <2>5 DEF PlanShape, News, Olds
  <2> QED BY <1>1, <2>6, PlanningKeeps
<1>6. CASE \E d \in OldPlaces(p) : /\ renames' = renames \cup {<<d, p>>}
                                   /\ toCopy' = toCopy \ {p} /\ toDelete' = toDelete \ {d}
  BY <1>5, <1>6
<1> QED BY <1>4, <1>6 DEF MatchChecksum

LEMMA DedupOutcome == TypeOK /\ OutcomeInv /\ FindDedups => OutcomeInv'
<1> SUFFICES ASSUME TypeOK, OutcomeInv, FindDedups PROVE OutcomeInv'
  OBVIOUS
<1>1. /\ UNCHANGED <<listed, src, dst, toCopy, toDelete, unread, renames, failed, copied,
                     flying, broken>>
      /\ stage = "dedup" /\ stage' = "requests"
  BY DEF FindDedups
<1>2. /\ pending = {} /\ flying = {} /\ dst = dst0 /\ src = src0
      /\ ToPlace' = ToPlace /\ Deletable' = Deletable /\ SrcMap' = SrcMap /\ DstMap' = DstMap
      /\ src0' = src0 /\ dst0' = dst0
  BY <1>1, WantedFixed, ListedFixed DEF OutcomeInv, PlanShape, listed
<1>3. PICK pick : /\ DOMAIN pick \subseteq toCopy
                  /\ \A p \in DOMAIN pick : pick[p] \in DstMap /\ pick[p] \in Twins(p)
                  /\ dedups' = {<<pick[p], p>> : p \in DOMAIN pick}
                  /\ pending' = Planned(pick)
  BY FindDedupsPick
<1>4. PlanShape'
  BY <1>1, <1>2 DEF OutcomeInv, PlanShape
<1>5. \A p \in DOMAIN pick : dst0[pick[p]].content = src0[p].content
  BY <1>3 DEF Twins, SameMd5, SameEtag
<1>6. TasksShaped'
  <2>1. ASSUME NEW t \in pending' PROVE Shaped(t)'
    <3>1. CASE t \in {Task("rename", r[1], r[2]) : r \in renames}
      <4>1. PICK r \in renames : t = Task("rename", r[1], r[2])
        BY <3>1
      <4>2. r = <<r[1], r[2]>>
        BY DEF TypeOK
      <4> QED BY <1>1, <4>1, <4>2 DEF Shaped, Task, IsCopy
    <3>2. CASE t \in {Task("dedup", pick[p], p) : p \in DOMAIN pick}
      BY <1>1, <1>2, <1>3, <1>5, <3>2 DEF Shaped, Task, IsCopy
    <3>3. CASE t \in {Task("copy", p, p) : p \in toCopy \ DOMAIN pick}
      BY <1>1, <3>3 DEF Shaped, Task, IsCopy
    <3>4. CASE t \in {Task("delete", d, d) : d \in toDelete}
      BY <1>1, <3>4 DEF Shaped, Task, IsCopy
    <3> QED BY <1>3, <2>1, <3>1, <3>2, <3>3, <3>4 DEF Planned
  <2> QED BY <1>1, <1>2, <2>1 DEF TasksShaped
<1>7. DedupsFirst'
  BY <1>1, <1>2 DEF DedupsFirst
<1>8. CopiesRight'
  <2>1. ASSUME NEW p \in toCopy PROVE \E t \in pending' : IsCopy(t) /\ t.to = p
    <3>1. CASE p \in DOMAIN pick
      <4>1. Task("dedup", pick[p], p) \in pending'
        BY <1>3, <3>1 DEF Planned
      <4> QED BY <4>1 DEF Task, IsCopy
    <3>2. CASE p \notin DOMAIN pick
      <4>1. Task("copy", p, p) \in pending'
        BY <1>3, <3>2 DEF Planned
      <4> QED BY <4>1 DEF Task, IsCopy
    <3> QED BY <3>1, <3>2
  <2> QED BY <1>1, <1>2, <2>1 DEF CopiesRight, IsCopy
<1>9. MovesDone'
  <2>1. \A r \in renames : Task("rename", r[1], r[2]) \in pending'
    BY <1>3 DEF Planned
  <2>2. \A d \in toDelete : Task("delete", d, d) \in pending'
    BY <1>3 DEF Planned
  <2> QED BY <1>1, <1>2, <2>1, <2>2 DEF MovesDone
<1>10. RestKept'
  BY <1>1, <1>2 DEF RestKept
<1> QED BY <1>4, <1>6, <1>7, <1>8, <1>9, <1>10 DEF OutcomeInv
-----------------------------------------------------------------------------
(* Requests                                                                  *)

\* What is copied, what is moved, from where to where, what is deleted and what is
\* let alone are different paths.
LEMMA PathsApart ==
  ASSUME PlanShape, stage # "diff"
  PROVE  /\ toCopy \subseteq ToPlace /\ News(renames) \subseteq ToPlace /\ ToPlace \subseteq SrcMap
         /\ toDelete \cap SrcMap = {} /\ Olds(renames) \cap SrcMap = {}
         /\ toCopy \cap News(renames) = {} /\ toDelete \cap Olds(renames) = {}
         /\ \A r \in renames : r[1] \in Olds(renames) /\ r[2] \in News(renames)
BY DEF PlanShape, ToPlace, Wanted, Deletable, Extra, Olds, News

\* A request writes the path it goes to and clears the one it moves or deletes.
LEMMA Writes ==
  ASSUME TypeOK, NEW t \in pending, Done(t) \/ Fails(t) \/ Accepted(t) \/ Unfilled(t)
  PROVE  /\ Turn(t) /\ t \in Tasks
         /\ UNCHANGED <<listed, src, plan, stage>> /\ pending' = pending \ {t}
         /\ \A p \in Paths : dst'[p] # dst[p] =>
              (t.kind # "delete" /\ p = t.to) \/ (~IsCopy(t) /\ p = t.from)
<1>1. t \in Tasks /\ dst \in [Paths -> Files] /\ t.from \in Paths /\ t.to \in Paths
  BY DEF TypeOK, Tasks
<1>2. \A p \in Paths : After(t)[p] # dst[p] =>
        (t.kind # "delete" /\ p = t.to) \/ (~IsCopy(t) /\ p = t.from)
  <2>1. t.kind \in {"rename", "dedup", "copy", "delete"}
    BY <1>1 DEF Tasks
  <2>2. CASE t.kind = "rename"
    BY <1>1, <2>2 DEF After, IsCopy
  <2>3. CASE t.kind = "delete"
    BY <1>1, <2>3 DEF After, IsCopy
  <2>4. CASE t.kind \in {"dedup", "copy"}
    BY <1>1, <2>4 DEF After, IsCopy
  <2> QED BY <2>1, <2>2, <2>3, <2>4
<1>3. \A d \in Emptied(t) : \A p \in Paths : d[p] # dst[p] => t.kind # "delete" /\ p = t.to
  BY <1>1 DEF Emptied
<1>4. dst' = dst \/ dst' = After(t) \/ dst' \in Emptied(t)
  BY DEF Done, Fails, Accepted, Unfilled
<1>5. \A p \in Paths : dst'[p] # dst[p] =>
        (t.kind # "delete" /\ p = t.to) \/ (~IsCopy(t) /\ p = t.from)
  BY <1>2, <1>3, <1>4
<1> QED BY <1>1, <1>5 DEF Done, Fails, Accepted, Unfilled

\* What a copy reads is what the source has at its target, if no twin is moving.
LEMMA SourceRight ==
  ASSUME TypeOK, OutcomeInv, NEW t \in pending, Turn(t), IsCopy(t), Steady(t.to)
  PROVE  Right(Source(t), t.to)
<1>1. t \in Tasks /\ Shaped(t) /\ t.from \in Paths /\ t.to \in Paths /\ stage = "requests"
  BY DEF TypeOK, Tasks, OutcomeInv, TasksShaped, Turn
<1>2. t.to \in SrcMap
  BY <1>1, PathsApart DEF OutcomeInv, Shaped
<1>3. CASE t.kind = "copy"
  <2>1. src[t.to] = src0[t.to]
    BY <1>1 DEF OutcomeInv, RestKept
  <2>2. Source(t) = src0[t.to] /\ src0[t.to] # Absent
    BY <1>1, <1>2, <1>3, <2>1 DEF Source, Shaped, SrcMap
  <2>3. src0[t.to] \in File
    BY <1>1, <2>2, SyncAssumption DEF TypeOK
  <2> QED BY <2>2, <2>3 DEF Right
<1>4. CASE t.kind = "dedup"
  <2>1. /\ <<t.from, t.to>> \in dedups /\ dst0[t.from].content = src0[t.to].content
        /\ t.from \in DstMap
    BY <1>1, <1>4 DEF Shaped
  <2>2. t.from \notin Olds(renames) \cup News(renames) \cup News(dedups)
    BY <2>1 DEF Steady, Moving
  <2>3. dst[t.from] = dst0[t.from]
    BY <1>1, <1>4, <2>2 DEF OutcomeInv, DedupsFirst
  <2>4. dst0[t.from] \in File
    BY <1>1, <2>1, SyncAssumption DEF DstMap, TypeOK
  <2>5. Source(t) = dst0[t.from]
    BY <1>4, <2>3 DEF Source
  <2> QED BY <2>1, <2>4, <2>5 DEF Right
<1> QED BY <1>3, <1>4 DEF IsCopy

LEMMA RequestCopies ==
  ASSUME TypeOK, OutcomeInv, NEW t \in pending, Done(t) \/ Fails(t) \/ Accepted(t) \/ Unfilled(t)
  PROVE  CopiesRight'
<1>1. /\ Turn(t) /\ stage = "requests" /\ stage' = stage /\ pending' = pending \ {t}
      /\ src0' = src0 /\ toCopy' = toCopy /\ dedups' = dedups /\ renames' = renames
      /\ Shaped(t) /\ t.to \in Paths /\ dst \in [Paths -> Files]
  BY Writes DEF Turn, listed, plan, OutcomeInv, TasksShaped, TypeOK, Tasks
<1>2. \A p : Steady(p)' <=> Steady(p)
  BY <1>1 DEF Steady, Moving
<1>3. IsCopy(t) /\ Steady(t.to) => Right(Source(t), t.to)
  BY <1>1, SourceRight
<1>4. \A f \in flying' : Steady(f.task.to) => Right(f.file, f.task.to)
  <2>1. \A f \in flying : Steady(f.task.to) => Right(f.file, f.task.to)
    BY DEF OutcomeInv, CopiesRight
  <2>2. CASE Accepted(t)
    <3>1. flying' = flying \cup {[task |-> t, file |-> Source(t)]} /\ IsCopy(t)
      BY <2>2 DEF Accepted
    <3> QED BY <1>3, <2>1, <3>1
  <2>3. CASE flying' = flying
    BY <2>1, <2>3
  <2> QED BY <2>2, <2>3 DEF Done, Fails, Unfilled
<1>5. ASSUME NEW p \in toCopy, Steady(p), p \notin broken', \A u \in failed' : u.to # p
      PROVE  \/ \E u \in pending' : IsCopy(u) /\ u.to = p
             \/ \E f \in flying' : f.task.to = p
             \/ Right(dst'[p], p)
  <2>1. t.to = p => Done(t) \/ Accepted(t)
    BY <1>5 DEF Fails, Unfilled
  <2>2. ~Missed(p) /\ flying \subseteq flying'
    BY <1>5 DEF Missed, Done, Fails, Accepted, Unfilled
  <2>3. p \in Paths
    BY DEF TypeOK
  <2>4. CASE IsCopy(t) /\ t.to = p
    <3>1. CASE Accepted(t)
      <4>1. [task |-> t, file |-> Source(t)] \in flying'
        BY <3>1 DEF Accepted
      <4> QED BY <2>4, <4>1
    <3>2. CASE Done(t)
      <4>1. dst' = [dst EXCEPT ![p] = Source(t)]
        BY <2>4, <3>2 DEF Done, After, IsCopy
      <4>2. dst'[p] = Source(t)
        BY <1>1, <2>3, <4>1
      <4> QED BY <1>3, <1>5, <2>4, <4>2
    <3> QED BY <2>1, <2>4, <3>1, <3>2
  <2>5. CASE ~(IsCopy(t) /\ t.to = p)
    <3>1. dst'[p] = dst[p]
      <4>1. ASSUME ~IsCopy(t) PROVE p # t.from /\ (t.kind # "delete" => p # t.to)
        <5>1. t.kind \in {"rename", "delete"}
          BY <4>1, Writes DEF Tasks, IsCopy
        <5>2. CASE t.kind = "rename"
          <6>1. <<t.from, t.to>> \in renames
            BY <1>1, <5>2 DEF Shaped
          <6>2. t.from \in Olds(renames) /\ t.to \in News(renames)
            BY <6>1 DEF Olds, News
          <6> QED BY <1>1, <6>2, PathsApart DEF OutcomeInv
        <5>3. CASE t.kind = "delete"
          BY <1>1, <5>3, PathsApart DEF Shaped, OutcomeInv
        <5> QED BY <5>1, <5>2, <5>3
      <4> QED BY <2>3, <2>5, <4>1, Writes
    <3>2. \/ \E u \in pending : IsCopy(u) /\ u.to = p
          \/ \E f \in flying : f.task.to = p
          \/ Right(dst[p], p)
      BY <1>1, <1>5, <2>2 DEF OutcomeInv, CopiesRight, Sending
    <3>3. ASSUME NEW u \in pending, IsCopy(u), u.to = p PROVE u \in pending'
      BY <1>1, <2>5, <3>3
    <3> QED BY <2>2, <3>1, <3>2, <3>3
  <2> QED BY <2>4, <2>5
<1>6. \A f \in flying' : Steady(f.task.to)' => Right(f.file, f.task.to)'
  BY <1>1, <1>2, <1>4 DEF Right
<1>7. \A p \in toCopy' : Steady(p)' /\ ~Missed(p)' =>
        \/ \E u \in pending' : IsCopy(u) /\ u.to = p
        \/ \E f \in flying' : f.task.to = p
        \/ Right(dst[p], p)'
  BY <1>1, <1>2, <1>5 DEF Right, Missed
<1> QED BY <1>6, <1>7 DEF CopiesRight, IsCopy

LEMMA RequestMoves ==
  ASSUME TypeOK, OutcomeInv, NEW t \in pending, Done(t) \/ Fails(t) \/ Accepted(t) \/ Unfilled(t)
  PROVE  MovesDone'
<1>1. /\ Turn(t) /\ stage = "requests" /\ stage' = stage /\ pending' = pending \ {t}
      /\ dst0' = dst0 /\ renames' = renames /\ toDelete' = toDelete
      /\ Shaped(t) /\ t \in Tasks /\ dst \in [Paths -> Files]
  BY Writes DEF Turn, listed, plan, OutcomeInv, TasksShaped, TypeOK
<1> SUFFICES ASSUME failed' = {}
             PROVE  /\ \A r \in renames :
                         \/ Task("rename", r[1], r[2]) \in pending' /\ dst'[r[1]] = dst0[r[1]]
                         \/ dst'[r[1]] = Absent /\ dst'[r[2]] = dst0[r[1]]
                    /\ \A d \in toDelete : Task("delete", d, d) \in pending' \/ dst'[d] = Absent
  BY <1>1 DEF MovesDone
<1>2. failed = {} /\ ~Fails(t)
  BY DEF Done, Fails, Accepted, Unfilled
<1>3. t.kind \in {"rename", "dedup", "copy", "delete"} /\ t.from \in Paths /\ t.to \in Paths
  BY <1>1 DEF Tasks
<1>4. ~IsCopy(t) => Done(t)
  BY <1>2 DEF Accepted, Unfilled, IsCopy
<1>5. ASSUME NEW r \in renames
      PROVE  \/ Task("rename", r[1], r[2]) \in pending' /\ dst'[r[1]] = dst0[r[1]]
             \/ dst'[r[1]] = Absent /\ dst'[r[2]] = dst0[r[1]]
  <2>1. /\ r[1] \in Paths /\ r[2] \in Paths
        /\ r[1] \in Olds(renames) /\ r[2] \in News(renames) /\ r[1] # r[2]
    BY <1>1, PathsApart DEF TypeOK, OutcomeInv
  <2>2. \/ Task("rename", r[1], r[2]) \in pending /\ dst[r[1]] = dst0[r[1]]
        \/ dst[r[1]] = Absent /\ dst[r[2]] = dst0[r[1]]
    BY <1>1, <1>2 DEF OutcomeInv, MovesDone, Sending
  <2>3. CASE t = Task("rename", r[1], r[2])
    <3>1. t.kind = "rename" /\ t.from = r[1] /\ t.to = r[2]
      BY <2>3 DEF Task
    <3>2. Done(t) /\ Source(t) # Absent
      BY <1>4, <3>1 DEF IsCopy, Done
    <3>3. dst' = [dst EXCEPT ![r[2]] = dst[r[1]], ![r[1]] = Absent]
      BY <3>1, <3>2 DEF Done, After
    <3>4. dst'[r[1]] = Absent /\ dst'[r[2]] = dst[r[1]]
      BY <1>1, <2>1, <3>3
    <3>5. dst[r[1]] # Absent
      BY <3>1, <3>2 DEF Source
    <3> QED BY <2>2, <3>4, <3>5
  <2>4. CASE t # Task("rename", r[1], r[2])
    <3>1. /\ t.kind # "delete" => t.to # r[1] /\ t.to # r[2]
          /\ ~IsCopy(t) => t.from # r[1] /\ t.from # r[2]
      <4>1. CASE t.kind = "rename"
        <5> DEFINE s == <<t.from, t.to>>
        <5>1. s \in renames /\ s[1] = t.from /\ s[2] = t.to
          BY <1>1, <4>1 DEF Shaped
        <5>2. t = Task("rename", t.from, t.to)
          BY <1>1, <4>1 DEF Tasks, Task
        <5>3. t.from # r[1] \/ t.to # r[2]
          BY <2>4, <5>2
        <5>4. (t.from = r[1]) <=> (t.to = r[2])
          BY <5>1 DEF OutcomeInv, PlanShape
        <5>5. t.from \in Olds(renames) /\ t.to \in News(renames)
          BY <5>1 DEF Olds, News
        <5>6. t.from # r[2] /\ t.to # r[1]
          BY <1>1, <2>1, <5>5, PathsApart DEF OutcomeInv
        <5> QED BY <5>3, <5>4, <5>6
      <4>2. CASE t.kind = "delete"
        BY <1>1, <2>1, <4>2, PathsApart DEF Shaped, OutcomeInv
      <4>3. CASE IsCopy(t)
        BY <1>1, <2>1, <4>3, PathsApart DEF Shaped, OutcomeInv
      <4> QED BY <1>3, <4>1, <4>2, <4>3 DEF IsCopy
    <3>2. dst'[r[1]] = dst[r[1]] /\ dst'[r[2]] = dst[r[2]]
      BY <2>1, <3>1, Writes
    <3> QED BY <1>1, <2>2, <2>4, <3>2
  <2> QED BY <2>3, <2>4
<1>6. ASSUME NEW d \in toDelete
      PROVE  Task("delete", d, d) \in pending' \/ dst'[d] = Absent
  <2>1. d \in Paths /\ d \notin SrcMap /\ d \notin Olds(renames)
    BY <1>1, PathsApart DEF TypeOK, OutcomeInv
  <2>2. Task("delete", d, d) \in pending \/ dst[d] = Absent
    BY <1>1, <1>2 DEF OutcomeInv, MovesDone, Sending
  <2>3. CASE t.kind = "delete" /\ t.from = d
    <3>1. dst' = [dst EXCEPT ![d] = Absent]
      BY <1>4, <2>3 DEF IsCopy, Done, After
    <3> QED BY <1>1, <2>1, <3>1
  <2>4. CASE ~(t.kind = "delete" /\ t.from = d)
    <3>1. t # Task("delete", d, d)
      BY <2>4 DEF Task
    <3>2. /\ t.kind # "delete" => t.to # d
          /\ ~IsCopy(t) => t.from # d
      <4>1. CASE t.kind = "rename"
        <5>1. <<t.from, t.to>> \in renames
          BY <1>1, <4>1 DEF Shaped
        <5>2. t.from \in Olds(renames) /\ t.to \in News(renames)
          BY <5>1 DEF Olds, News
        <5> QED BY <1>1, <2>1, <5>2, PathsApart DEF OutcomeInv
      <4>2. CASE t.kind = "delete"
        BY <2>4, <4>2
      <4>3. CASE IsCopy(t)
        BY <1>1, <2>1, <4>3, PathsApart DEF Shaped, OutcomeInv
      <4> QED BY <1>3, <4>1, <4>2, <4>3 DEF IsCopy
    <3>3. dst'[d] = dst[d]
      BY <2>1, <3>2, Writes
    <3> QED BY <1>1, <2>2, <3>1, <3>3
  <2> QED BY <2>3, <2>4
<1> QED BY <1>5, <1>6
\* A step that leaves the plan alone keeps what is said of it.
LEMMA PlanKept ==
  ASSUME OutcomeInv, UNCHANGED <<listed, plan>>, stage # "diff", stage' # "diff"
  PROVE  /\ ToPlace' = ToPlace /\ SrcMap' = SrcMap /\ Deletable' = Deletable
         /\ \A t : Shaped(t)' <=> Shaped(t)
         /\ opts' = opts /\ src0' = src0 /\ dst0' = dst0
         /\ toCopy' = toCopy /\ toDelete' = toDelete /\ renames' = renames /\ dedups' = dedups
<1>1. /\ ToPlace' = ToPlace /\ SrcMap' = SrcMap /\ Deletable' = Deletable /\ DstMap' = DstMap
      /\ opts' = opts /\ src0' = src0 /\ dst0' = dst0
      /\ toCopy' = toCopy /\ toDelete' = toDelete /\ renames' = renames /\ dedups' = dedups
  BY WantedFixed, ListedFixed DEF listed, plan
<1>2. \A t : Shaped(t)' <=> Shaped(t)
  BY <1>1 DEF Shaped, IsCopy
<1> QED BY <1>1, <1>2

LEMMA RequestOutcome ==
  ASSUME TypeOK, OutcomeInv, NEW t \in pending, Done(t) \/ Fails(t) \/ Accepted(t) \/ Unfilled(t)
  PROVE  OutcomeInv'
<1>1. /\ Turn(t) /\ t \in Tasks /\ Shaped(t) /\ stage = "requests" /\ stage' = stage
      /\ pending' = pending \ {t} /\ UNCHANGED <<listed, src, plan>>
      /\ \A p \in Paths : dst'[p] # dst[p] =>
           (t.kind # "delete" /\ p = t.to) \/ (~IsCopy(t) /\ p = t.from)
  BY Writes DEF Turn, OutcomeInv, TasksShaped
<1>2. /\ ToPlace' = ToPlace /\ SrcMap' = SrcMap /\ Deletable' = Deletable
      /\ \A u : Shaped(u)' <=> Shaped(u)
      /\ opts' = opts /\ src0' = src0 /\ dst0' = dst0
      /\ toCopy' = toCopy /\ toDelete' = toDelete /\ renames' = renames /\ dedups' = dedups
  BY <1>1, PlanKept
<1>3. PlanShape'
  BY <1>1, <1>2 DEF OutcomeInv, PlanShape
<1>4. \A f \in flying' : f \in flying \/ (IsCopy(t) /\ f.task = t)
  BY DEF Done, Fails, Accepted, Unfilled
<1>5. TasksShaped'
  <2>1. \A f \in flying' : IsCopy(f.task) /\ Shaped(f.task)
    BY <1>1, <1>4 DEF OutcomeInv, TasksShaped
  <2>2. \A u \in pending' : Shaped(u)
    BY <1>1 DEF OutcomeInv, TasksShaped
  <2> QED BY <1>2, <2>1, <2>2 DEF TasksShaped, IsCopy
<1>6. DedupsFirst'
  <2> SUFFICES ASSUME NEW u \in pending', u.kind = "dedup"
               PROVE  /\ \A f \in flying' : f.task.kind = "dedup"
                      /\ \A p \in Paths : dst'[p] # dst0[p] =>
                           p \in Olds(renames) \cup News(renames) \cup News(dedups)
    BY <1>2 DEF DedupsFirst
  <2>1. u \in pending /\ t.kind \in {"rename", "dedup"}
    <3>1. u \in pending /\ Rank[t.kind] <= Rank[u.kind]
      BY <1>1 DEF Turn
    <3>2. Rank["dedup"] = 2 /\ Rank["copy"] = 3 /\ Rank["delete"] = 4
      BY DEF Rank
    <3>3. t.kind \in {"rename", "dedup", "copy", "delete"}
      BY <1>1 DEF Tasks
    <3> QED BY <3>1, <3>2, <3>3
  <2>2. \A f \in flying' : f.task.kind = "dedup"
    BY <1>4, <2>1 DEF OutcomeInv, DedupsFirst, IsCopy
  <2>3. ASSUME NEW p \in Paths, dst'[p] # dst[p]
        PROVE  p \in Olds(renames) \cup News(renames) \cup News(dedups)
    <3>1. CASE t.kind = "rename"
      <4>1. <<t.from, t.to>> \in renames /\ (p = t.from \/ p = t.to)
        BY <1>1, <2>3, <3>1 DEF Shaped
      <4> QED BY <4>1 DEF Olds, News
    <3>2. CASE t.kind = "dedup"
      <4>1. <<t.from, t.to>> \in dedups /\ p = t.to
        BY <1>1, <2>3, <3>2 DEF Shaped, IsCopy
      <4> QED BY <4>1 DEF News
    <3> QED BY <2>1, <3>1, <3>2
  <2> QED BY <2>1, <2>2, <2>3 DEF OutcomeInv, DedupsFirst
<1>7. RestKept'
  <2>1. ASSUME NEW p \in SrcMap \ ToPlace PROVE dst'[p] = dst[p]
    <3>1. t.kind \in {"rename", "dedup", "copy", "delete"} /\ p \in Paths
      BY <1>1, MapTypes DEF Tasks
    <3>2. CASE t.kind = "rename"
      <4>1. <<t.from, t.to>> \in renames
        BY <1>1, <3>2 DEF Shaped
      <4>2. t.from \in Olds(renames) /\ t.to \in News(renames)
        BY <4>1 DEF Olds, News
      <4> QED BY <1>1, <3>1, <4>2, PathsApart DEF OutcomeInv
    <3>3. CASE t.kind = "delete"
      BY <1>1, <3>1, <3>3, PathsApart DEF Shaped, OutcomeInv
    <3>4. CASE IsCopy(t)
      BY <1>1, <3>1, <3>4, PathsApart DEF Shaped, OutcomeInv
    <3> QED BY <3>1, <3>2, <3>3, <3>4 DEF IsCopy
  <2>2. \A p \in Paths : src'[p] = src0[p]
    BY <1>1 DEF OutcomeInv, RestKept
  <2> QED BY <1>2, <2>1, <2>2 DEF OutcomeInv, RestKept
<1> QED BY <1>3, <1>5, <1>6, <1>7, RequestCopies, RequestMoves DEF OutcomeInv

LEMMA LandOutcome ==
  ASSUME TypeOK, OutcomeInv, NEW f \in flying, Land(f)
  PROVE  OutcomeInv'
<1>1. /\ UNCHANGED <<listed, src, stage, plan, pending, failed, copied>>
      /\ flying' = flying \ {f} /\ broken \subseteq broken'
      /\ IsCopy(f.task) /\ Shaped(f.task) /\ f.task.to \in toCopy /\ f.task.to \in Paths
      /\ dst \in [Paths -> Files]
  BY DEF Land, OutcomeInv, TasksShaped, Shaped, TypeOK
<1>2. Sending /\ stage # "diff"
  BY DEF OutcomeInv, PlanShape, TypeOK, Sending
<1>3. /\ ToPlace' = ToPlace /\ SrcMap' = SrcMap /\ Deletable' = Deletable
      /\ \A u : Shaped(u)' <=> Shaped(u)
      /\ opts' = opts /\ src0' = src0 /\ dst0' = dst0
      /\ toCopy' = toCopy /\ toDelete' = toDelete /\ renames' = renames /\ dedups' = dedups
  BY <1>1, <1>2, PlanKept
<1>4. PlanShape'
  BY <1>1, <1>2, <1>3 DEF OutcomeInv, PlanShape, Sending
<1>5. TasksShaped'
  BY <1>1, <1>3 DEF OutcomeInv, TasksShaped, IsCopy
<1>6. \A p \in Paths : dst'[p] = dst[p] \/ (p = f.task.to /\ dst'[p] = f.file)
  BY <1>1 DEF Land
<1>7. DedupsFirst'
  <2> SUFFICES ASSUME NEW u \in pending, u.kind = "dedup"
               PROVE  /\ \A g \in flying' : g.task.kind = "dedup"
                      /\ \A p \in Paths : dst'[p] # dst0[p] =>
                           p \in Olds(renames) \cup News(renames) \cup News(dedups)
    BY <1>1, <1>3 DEF DedupsFirst
  <2>1. f.task.kind = "dedup"
    BY DEF OutcomeInv, DedupsFirst
  <2>2. <<f.task.from, f.task.to>> \in dedups
    BY <1>1, <2>1 DEF Shaped
  <2>3. f.task.to \in News(dedups)
    BY <2>2 DEF News
  <2> QED BY <1>1, <1>6, <2>3 DEF OutcomeInv, DedupsFirst
<1>8. CopiesRight'
  <2>1. \A p : Steady(p)' <=> Steady(p)
    BY <1>3 DEF Steady, Moving
  <2>2. \A g \in flying : Steady(g.task.to) => Right(g.file, g.task.to)
    BY DEF OutcomeInv, CopiesRight
  <2>3. ASSUME NEW p \in toCopy, Steady(p), p \notin broken', \A u \in failed : u.to # p
        PROVE  \/ \E u \in pending : IsCopy(u) /\ u.to = p
               \/ \E g \in flying' : g.task.to = p
               \/ Right(dst'[p], p)
    <3>1. ~Missed(p) /\ p \in Paths
      BY <1>1, <2>3 DEF Missed, TypeOK
    <3>2. CASE p = f.task.to
      <4>1. dst' = [dst EXCEPT ![f.task.to] = f.file]
        BY <2>3, <3>2 DEF Land
      <4>2. dst'[p] = f.file
        BY <1>1, <3>1, <3>2, <4>1
      <4> QED BY <2>2, <2>3, <3>2, <4>2
    <3>3. CASE p # f.task.to
      <4>1. dst'[p] = dst[p]
        BY <1>6, <3>1, <3>3
      <4>2. \/ \E u \in pending : IsCopy(u) /\ u.to = p
            \/ \E g \in flying : g.task.to = p
            \/ Right(dst[p], p)
        BY <1>2, <2>3, <3>1 DEF OutcomeInv, CopiesRight
      <4>3. ASSUME NEW g \in flying, g.task.to = p PROVE g \in flying'
        BY <1>1, <3>3, <4>3
      <4> QED BY <4>1, <4>2, <4>3
    <3> QED BY <3>2, <3>3
  <2>4. \A g \in flying' : Steady(g.task.to)' => Right(g.file, g.task.to)'
    BY <1>1, <1>3, <2>1, <2>2 DEF Right
  <2>5. \A p \in toCopy' : Steady(p)' /\ ~Missed(p)' =>
          \/ \E u \in pending' : IsCopy(u) /\ u.to = p
          \/ \E g \in flying' : g.task.to = p
          \/ Right(dst[p], p)'
    BY <1>1, <1>3, <2>1, <2>3 DEF Right, Missed
  <2> QED BY <2>4, <2>5 DEF CopiesRight, IsCopy
<1>9. MovesDone'
  <2>1. \A p \in Paths : p # f.task.to => dst'[p] = dst[p]
    BY <1>6
  <2>2. \A r \in renames : r[1] \in Paths /\ r[2] \in Paths
    BY DEF TypeOK
  <2>3. \A r \in renames : r[1] # f.task.to /\ r[2] # f.task.to
    BY <1>1, <1>2, PathsApart DEF OutcomeInv
  <2>4. \A d \in toDelete : d \in Paths /\ d # f.task.to
    BY <1>1, <1>2, PathsApart DEF OutcomeInv, TypeOK
  <2>5. \A r \in renames : dst'[r[1]] = dst[r[1]] /\ dst'[r[2]] = dst[r[2]]
    BY <2>1, <2>2, <2>3
  <2>6. \A d \in toDelete : dst'[d] = dst[d]
    BY <2>1, <2>4
  <2> QED BY <1>1, <1>2, <1>3, <2>5, <2>6 DEF OutcomeInv, MovesDone
<1>10. RestKept'
  <2>1. f.task.to \in ToPlace
    BY <1>1, <1>2, PathsApart DEF OutcomeInv
  <2>2. \A p \in SrcMap \ ToPlace : dst'[p] = dst[p]
    BY <1>6, <2>1, MapTypes
  <2> QED BY <1>1, <1>3, <2>2 DEF OutcomeInv, RestKept
<1> QED BY <1>4, <1>5, <1>7, <1>8, <1>9, <1>10 DEF OutcomeInv

LEMMA ReportOutcome == TypeOK /\ OutcomeInv /\ Report => OutcomeInv'
<1> SUFFICES ASSUME TypeOK, OutcomeInv, Report PROVE OutcomeInv'
  OBVIOUS
<1>1. /\ UNCHANGED <<listed, dst, plan, pending, failed, copied, flying, broken>>
      /\ stage = "requests" /\ pending = {}
      /\ stage' = IF failed = {} THEN "synced" ELSE "partial_failure"
  BY DEF Report, effects
<1>2. /\ ToPlace' = ToPlace /\ SrcMap' = SrcMap /\ Deletable' = Deletable
      /\ \A u : Shaped(u)' <=> Shaped(u)
      /\ opts' = opts /\ src0' = src0 /\ dst0' = dst0
      /\ toCopy' = toCopy /\ toDelete' = toDelete /\ renames' = renames /\ dedups' = dedups
  BY <1>1, PlanKept
<1>3. PlanShape'
  BY <1>1, <1>2 DEF OutcomeInv, PlanShape
<1>4. TasksShaped' /\ DedupsFirst'
  BY <1>1, <1>2 DEF OutcomeInv, TasksShaped, DedupsFirst
<1>5. Sending /\ Sending' /\ \A p : (Steady(p)' <=> Steady(p)) /\ (Missed(p)' <=> Missed(p))
  BY <1>1, <1>2 DEF Sending, Steady, Moving, Missed
<1>6. CopiesRight'
  BY <1>1, <1>2, <1>5 DEF OutcomeInv, CopiesRight, Right, IsCopy
<1>7. MovesDone'
  BY <1>1, <1>2, <1>5 DEF OutcomeInv, MovesDone
<1>8. RestKept'
  <2>1. \A p \in Paths : src[p] = src0[p]
    BY <1>1 DEF OutcomeInv, RestKept
  <2>2. PICK gone \in SUBSET Removable :
          src' = [p \in Paths |-> IF p \in gone THEN Absent ELSE src[p]]
    BY DEF Report
  <2>3. \A p \in Paths : src'[p] # src0[p] => p \in Removable
    BY <2>1, <2>2
  <2>4. \A p \in Removable : opts.remove /\ copied # {} /\ p \in toCopy
    BY DEF Removable
  <2> QED BY <1>1, <1>2, <2>3, <2>4 DEF OutcomeInv, RestKept
<1> QED BY <1>3, <1>4, <1>6, <1>7, <1>8 DEF OutcomeInv

LEMMA OutcomeStep == TypeOK /\ OutcomeInv /\ [Next]_vars => OutcomeInv'
<1> SUFFICES ASSUME TypeOK, OutcomeInv, [Next]_vars PROVE OutcomeInv'
  OBVIOUS
<1>1. CASE UNCHANGED vars
  <2>1. /\ ToPlace' = ToPlace /\ SrcMap' = SrcMap /\ Deletable' = Deletable /\ DstMap' = DstMap
    BY <1>1, WantedFixed, ListedFixed DEF vars, listed
  <2>2. PlanShape' /\ DedupsFirst' /\ RestKept' /\ MovesDone'
    BY <1>1, <2>1 DEF vars, OutcomeInv, PlanShape, DedupsFirst, RestKept, MovesDone, Sending
  <2>3. TasksShaped'
    BY <1>1, <2>1 DEF vars, OutcomeInv, TasksShaped, Shaped, IsCopy
  <2>4. CopiesRight'
    BY <1>1 DEF vars, OutcomeInv, CopiesRight, Right, Sending, Steady, Moving, Missed, IsCopy
  <2> QED BY <2>2, <2>3, <2>4 DEF OutcomeInv
<1>2. CASE Next
  BY <1>2, DiffOutcome, DedupOutcome, ReportOutcome, MatchOutcome, RequestOutcome, LandOutcome
     DEF Next
<1> QED BY <1>1, <1>2

LEMMA OutcomeAlways == Spec => [](TypeOK /\ OutcomeInv)
BY TypeInit, TypeStep, OutcomeInit, OutcomeStep, PTL DEF Spec

-----------------------------------------------------------------------------
(* What follows                                                              *)

LEMMA RightInPlace ==
  ASSUME NEW p, Right(dst[p], p)
  PROVE  InPlace(p)
BY SyncAssumption DEF Right, InPlace, SameSize

\* A file that is not to be copied is in place as it is.
LEMMA EqualInPlace ==
  ASSUME TypeOK, NEW p \in SrcMap \ ToPlace, dst[p] = dst0[p]
  PROVE  InPlace(p)
<1>1. p \in DstMap /\ ~Unequal(p, unread)
  BY DEF ToPlace, Wanted
<1>2. dst[p] \in File
  BY <1>1, SyncAssumption DEF DstMap, TypeOK
<1>3. opts.strategy \in {"default", "size", "no_overwrite"}
  BY <1>1, SyncAssumption DEF TypeOK, Request, Strategies, Unequal
<1>4. ASSUME ~Blind(p) PROVE SameSize(dst[p], src0[p])
  BY <1>1, <1>3, <1>4 DEF Unequal, Blind, SameMd5, SameEtag, SameSize
<1>5. ASSUME ~Blind(p), ~ByLength(p) PROVE dst[p].content = src0[p].content
  <2>1. /\ opts.strategy = "default"
        /\ opts.checksum => opts.md5 /\ p \notin unread
        /\ ~opts.checksum => ~opts.local /\ ~Untagged(src0[p], dst0[p])
    BY <1>1, <1>3, <1>5 DEF Blind, ByLength
  <2> QED BY <1>1, <2>1 DEF Unequal, SameMd5, SameEtag
<1> QED BY <1>2, <1>4, <1>5, SyncAssumption DEF InPlace

\* No two requests of a phase, and none of a rename, a plain copy and a delete,
\* have a path in common, for all listings and command lines: each path is in one
\* pair of to_rename, in to_copy or in to_delete.
THEOREM RequestsApart == Spec => []PhasesDisjoint
<1>1. TypeOK /\ OutcomeInv => PhasesDisjoint
  <2> SUFFICES ASSUME TypeOK, OutcomeInv, NEW t \in pending, NEW u \in pending, t # u,
                      t.kind # "dedup", u.kind # "dedup"
               PROVE  {t.from, t.to} \cap {u.from, u.to} = {}
    BY DEF PhasesDisjoint
  <2>1. t \in Tasks /\ u \in Tasks /\ Shaped(t) /\ Shaped(u) /\ stage # "diff"
    BY DEF TypeOK, OutcomeInv, TasksShaped, PlanShape
  <2>2. t.kind # u.kind \/ t.from # u.from \/ t.to # u.to
    BY <2>1 DEF Tasks
  <2>3. /\ t.kind \in {"rename", "copy", "delete"} /\ u.kind \in {"rename", "copy", "delete"}
    BY <2>1 DEF Tasks
  <2>4. ASSUME NEW v \in {t, u}
        PROVE  /\ v.kind = "rename" => v.from \in Olds(renames) /\ v.to \in News(renames)
               /\ v.kind = "copy" => v.from = v.to /\ v.to \in toCopy
               /\ v.kind = "delete" => v.from = v.to /\ v.to \in toDelete
    BY <2>1 DEF Shaped, IsCopy, Olds, News
  <2>5. CASE t.kind = "rename" /\ u.kind = "rename"
    <3> DEFINE r == <<t.from, t.to>>
               s == <<u.from, u.to>>
    <3>1. r \in renames /\ s \in renames
      BY <2>1, <2>5 DEF Shaped
    <3>2. (r[1] = s[1]) <=> (r[2] = s[2])
      BY <3>1 DEF OutcomeInv, PlanShape
    <3>3. t.from # u.from /\ t.to # u.to
      BY <2>2, <2>5, <3>2
    <3>4. t.from # u.to /\ t.to # u.from
      BY <2>1, <2>4, <2>5, PathsApart DEF OutcomeInv
    <3> QED BY <3>3, <3>4
  <2>6. CASE ~(t.kind = "rename" /\ u.kind = "rename")
    BY <2>1, <2>2, <2>3, <2>4, <2>6, PathsApart DEF OutcomeInv
  <2> QED BY <2>5, <2>6
<1> QED BY <1>1, OutcomeAlways, PTL

\* What a run that reports success says is so, for all listings and command
\* lines: every source file that was listed is in place, unless its own copy went
\* astray or it was moved on a guess, and with --delete nothing else is left.
THEOREM ReportTrue == Spec => []SyncedIsTrue
<1>1. TypeOK /\ OutcomeInv => SyncedIsTrue
  <2> SUFFICES ASSUME TypeOK, OutcomeInv, stage = "synced"
               PROVE  /\ \A p \in SrcMap : Loose(p) \/ Guessed(p) \/ InPlace(p)
                      /\ opts.delete /\ ~TooMany => \A p \in DstMap \ SrcMap : dst[p] = Absent
    BY DEF SyncedIsTrue
  <2>1. /\ Sending /\ stage # "diff" /\ failed = {} /\ pending = {}
        /\ ToPlace = toCopy \cup News(renames) /\ Deletable = toDelete \cup Olds(renames)
    BY DEF Sending, OutcomeInv, PlanShape
  <2>2. \A r \in renames : dst[r[1]] = Absent /\ dst[r[2]] = dst0[r[1]]
    BY <2>1 DEF OutcomeInv, MovesDone
  <2>3. ASSUME NEW p \in SrcMap, ~Loose(p), ~Guessed(p) PROVE InPlace(p)
    <3>1. CASE p \in toCopy
      <4>1. /\ Steady(p) /\ ~Missed(p)
            /\ \A f \in flying : f.task.to # p
        BY <2>1, <2>3 DEF Loose, Steady, Missed
      <4>2. Right(dst[p], p)
        BY <2>1, <3>1, <4>1 DEF OutcomeInv, CopiesRight
      <4> QED BY <4>2, RightInPlace
    <3>2. ASSUME NEW r \in renames, p = r[2] PROVE InPlace(p)
      <4>1. dst[p] = dst0[r[1]] /\ dst0[r[1]].content = src0[p].content
        BY <2>2, <2>3, <3>2 DEF Guessed
      <4>2. r[1] \in DstMap
        BY <2>1, MapTypes DEF Olds
      <4>3. dst0[r[1]] \in File
        BY <4>2, SyncAssumption DEF DstMap, TypeOK
      <4> QED BY <4>1, <4>3, RightInPlace DEF Right
    <3>3. CASE p \notin ToPlace
      BY <3>3, EqualInPlace DEF OutcomeInv, RestKept
    <3> QED BY <2>1, <3>1, <3>2, <3>3 DEF News
  <2>4. ASSUME opts.delete, ~TooMany, NEW p \in DstMap \ SrcMap PROVE dst[p] = Absent
    <3>1. p \in toDelete \cup Olds(renames)
      BY <2>1, <2>4 DEF Deletable, Extra
    <3>2. CASE p \in toDelete
      BY <2>1, <3>2 DEF OutcomeInv, MovesDone
    <3>3. CASE p \in Olds(renames)
      BY <2>2, <3>3 DEF Olds
    <3> QED BY <3>1, <3>2, <3>3
  <2> QED BY <2>3, <2>4
<1> QED BY <1>1, OutcomeAlways, PTL

\* --remove-source-files takes nothing away unless it was given and a copy was
\* counted, and only what is at the destination, unless the file's own copy failed
\* or went astray.
THEOREM RemovalSafe == Spec => []RemovedIsSafe
<1>1. TypeOK /\ OutcomeInv => RemovedIsSafe
  <2> SUFFICES ASSUME TypeOK, OutcomeInv, NEW p \in Paths, src[p] # src0[p]
               PROVE  /\ opts.remove /\ copied # {}
                      /\ Loose(p) \/ (\E t \in failed : t.to = p) \/ InPlace(p)
    BY DEF RemovedIsSafe
  <2>1. /\ stage \in {"synced", "partial_failure"} /\ pending = {}
        /\ opts.remove /\ copied # {} /\ p \in toCopy
    BY DEF OutcomeInv, RestKept, PlanShape
  <2>2. ASSUME ~Loose(p), \A t \in failed : t.to # p PROVE InPlace(p)
    <3>1. /\ Steady(p) /\ ~Missed(p)
          /\ \A f \in flying : f.task.to # p
      BY <2>2 DEF Loose, Steady, Missed
    <3>2. Right(dst[p], p)
      BY <2>1, <3>1 DEF OutcomeInv, CopiesRight, Sending
    <3> QED BY <3>2, RightInPlace
  <2> QED BY <2>1, <2>2
<1> QED BY <1>1, OutcomeAlways, PTL

=============================================================================
