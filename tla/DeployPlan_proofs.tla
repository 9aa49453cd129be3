-------------------------- MODULE DeployPlan_proofs --------------------------
(***************************************************************************)
(* The changeset has one change per source item and one per deployed item,   *)
(* for every source, workspace and command line, whatever other actors do.   *)
(* When they leave the workspace alone: what a deploy keeps, what it removes, *)
(* and what it has achieved at its end.                                      *)
(***************************************************************************)
EXTENDS DeployPlan, TLAPS

Pending(i) == \E k \in DOMAIN unmatched : unmatched[k] = i
HasChange(i) == \E c \in changes : c.item = i

\* The first pass has compared the source items before next: each in scope has a
\* change or waits for the second pass, never both, and waits once.
FirstPass ==
    /\ next \in Nat \ {0}
    /\ unmatched \in Seq(Nat)
    /\ \A j, k \in DOMAIN unmatched : unmatched[j] = unmatched[k] => j = k
    /\ \A k \in DOMAIN unmatched : unmatched[k] \in Selected /\ unmatched[k] < next
    /\ \A c \in changes : c.item # 0 => c.item \in Selected /\ c.item < next /\ ~ Pending(c.item)
    /\ \A i \in Selected : i < next => HasChange(i) \/ Pending(i)

\* What a change of a source item goes to is matched; while the first pass goes
\* on, what is matched has the name of an item already compared.
Matching ==
    /\ \A c \in changes : c.item # 0 /\ c.id # NoId => c.id \in matched
    /\ next <= Len(source) =>
        \A d \in matched : \E j \in DOMAIN source : j < next /\ Key(listed[d]) = Key(source[j])

\* Deletes come with the end of planning, when everything has been compared.
Stages ==
    /\ stage = "start" => changes = {} /\ matched = {} /\ unmatched = << >>
    /\ stage \in {"start", "matching"} => \A c \in changes : c.item # 0
    /\ Planned => next > Len(source) /\ unmatched = << >>

KnownIds == DOMAIN listed \subseteq Ids /\ DOMAIN workspace \subseteq given /\ given \subseteq Ids

Unique == \A c, o \in changes : Clash(c, o) => c = o

\* The inductive invariant: uniqueness alone is not, since the next change must
\* not meet an old one on either side.
PlanInv ==
    /\ source \in Sources
    /\ KnownIds
    /\ FirstPass
    /\ Matching
    /\ Stages
    /\ Unique

-----------------------------------------------------------------------------

\* A changeset grown by a change of a new item and a new deployed item, or of none.
LEMMA AddOne ==
    ASSUME Unique, NEW n,
           changes' = changes \cup {n},
           \A c \in changes : ~ Clash(c, n) /\ ~ Clash(n, c)
    PROVE  Unique'
BY DEF Unique, Clash

LEMMA ChangeParts ==
    ASSUME NEW i, NEW a, NEW d
    PROVE  /\ Change(i, a, d).item = i
           /\ Change(i, a, d).action = a
           /\ Change(i, a, d).id = d
BY DEF Change

LEMMA SourceShape ==
    ASSUME source \in Sources
    PROVE  /\ Len(source) \in Nat
           /\ DOMAIN source = 1 .. Len(source)
           /\ \A i, j \in DOMAIN source : Key(source[i]) = Key(source[j]) => i = j
           /\ Selected \subseteq DOMAIN source
BY PlanAssumption DEF Key, Selected

LEMMA PlanInit == Init => PlanInv
<1> SUFFICES ASSUME Init PROVE PlanInv
    OBVIOUS
<1>1. changes = {} /\ matched = {} /\ unmatched = << >> /\ next = 1 /\ stage = "start"
    BY DEF Init
<1>2. FirstPass
    BY <1>1, SourceShape DEF Init, FirstPass, Pending, HasChange, Selected
<1>3. Matching
    BY <1>1 DEF Matching
<1>4. Stages
    BY <1>1 DEF Stages, Planned
<1>5. Unique
    BY <1>1 DEF Unique
<1>6. KnownIds
    BY PlanAssumption DEF Init, KnownIds
<1> QED
    BY <1>2, <1>3, <1>4, <1>5, <1>6 DEF PlanInv, Init

-----------------------------------------------------------------------------
(* The first pass. *)

LEMMA MatchNextInductive == PlanInv /\ MatchNext => PlanInv'
<1> SUFFICES ASSUME PlanInv, MatchNext PROVE PlanInv'
    OBVIOUS
<1>1. /\ stage = "matching" /\ stage' = stage /\ next \in Nat /\ next <= Len(source)
      /\ next' = next + 1 /\ listed' = listed /\ source' = source /\ Selected' = Selected
    BY DEF MatchNext, PlanInv, FirstPass, Selected
<1>0. KnownIds'
    BY DEF MatchNext, PlanInv, KnownIds, external
<1>2. Len(source) \in Nat /\ DOMAIN source = 1 .. Len(source) /\ next \in DOMAIN source
    BY <1>1, SourceShape DEF PlanInv, FirstPass
<1>3. ~ Planned'
    BY <1>1 DEF Planned
<1>4. CASE next \notin Selected /\ UNCHANGED <<unmatched, matched, changes>>
    <2>1. \A i : (Pending(i)' <=> Pending(i)) /\ (HasChange(i)' <=> HasChange(i))
        BY <1>4 DEF Pending, HasChange
    <2>4. \A i \in Selected : i \in Nat
        BY <1>2, SourceShape DEF PlanInv
    <2>5. \A i \in Selected : i < next + 1 => i < next
        BY <1>1, <1>4, <2>4
    <2>6. \A i \in Selected : i < next => i < next + 1
        BY <1>1, <2>4
    <2>7. FirstPass'
        BY <1>1, <1>4, <2>1, <2>5, <2>6 DEF PlanInv, FirstPass
    <2>2. Matching'
        BY <1>1, <1>2, <1>4 DEF PlanInv, Matching, Key
    <2>3. Stages' /\ Unique'
        BY <1>1, <1>3, <1>4 DEF PlanInv, Stages, Unique, Clash
    <2> QED
        BY <1>0, <1>1, <2>2, <2>3, <2>7 DEF PlanInv
<1>5. CASE next \in Selected /\ unmatched' = Append(unmatched, next) /\ UNCHANGED <<matched, changes>>
    <2>1. /\ unmatched \in Seq(Nat)
          /\ unmatched' \in Seq(Nat)
          /\ DOMAIN unmatched = 1 .. Len(unmatched)
          /\ DOMAIN unmatched' = 1 .. Len(unmatched) + 1
          /\ \A k \in DOMAIN unmatched : unmatched'[k] = unmatched[k]
          /\ unmatched'[Len(unmatched) + 1] = next
        BY <1>1, <1>5 DEF PlanInv, FirstPass
    <2>2. \A k \in DOMAIN unmatched' : k \in DOMAIN unmatched \/ unmatched'[k] = next
        BY <2>1
    <2>3. \A k \in DOMAIN unmatched' : unmatched'[k] \in Selected /\ unmatched'[k] < next + 1
        BY <1>1, <1>5, <2>1, <2>2 DEF PlanInv, FirstPass
    <2>4. \A j, k \in DOMAIN unmatched' : unmatched'[j] = unmatched'[k] => j = k
        <3> SUFFICES ASSUME NEW j \in DOMAIN unmatched', NEW k \in DOMAIN unmatched',
                            unmatched'[j] = unmatched'[k]
                     PROVE  j = k
            OBVIOUS
        <3>1. \A m \in DOMAIN unmatched : unmatched[m] \in Nat /\ unmatched[m] < next
            BY <2>1 DEF PlanInv, FirstPass
        <3>2. \A m \in DOMAIN unmatched : unmatched[m] # next
            BY <1>1, <3>1
        <3>3. CASE j \in DOMAIN unmatched /\ k \in DOMAIN unmatched
            BY <2>1, <3>3 DEF PlanInv, FirstPass
        <3>4. CASE j \notin DOMAIN unmatched /\ k \notin DOMAIN unmatched
            BY <2>1, <3>4
        <3>5. j \in DOMAIN unmatched <=> k \in DOMAIN unmatched
            BY <2>1, <2>2, <3>2
        <3> QED
            BY <3>3, <3>4, <3>5
    <2>5. \A i : Pending(i)' <=> Pending(i) \/ i = next
        BY <2>1, <2>2 DEF Pending
    <2>6. \A c \in changes' : c.item # 0 =>
            c.item \in Selected /\ c.item < next + 1 /\ ~ Pending(c.item)'
        <3> SUFFICES ASSUME NEW c \in changes, c.item # 0
                     PROVE  c.item \in Selected /\ c.item < next + 1 /\ ~ Pending(c.item)'
            BY <1>5
        <3>1. c.item \in Selected /\ c.item < next /\ ~ Pending(c.item)
            BY DEF PlanInv, FirstPass
        <3>2. c.item \in Nat
            BY <3>1, <1>2, SourceShape DEF PlanInv
        <3> QED
            BY <1>1, <2>5, <3>1, <3>2
    <2>7. \A i \in Selected : i < next + 1 => HasChange(i)' \/ Pending(i)'
        <3> SUFFICES ASSUME NEW i \in Selected, i < next + 1 PROVE HasChange(i)' \/ Pending(i)'
            OBVIOUS
        <3>1. i \in Nat
            BY <1>2, SourceShape DEF PlanInv
        <3>2. i < next \/ i = next
            BY <1>1, <3>1
        <3> QED
            BY <1>5, <2>5, <3>2 DEF PlanInv, FirstPass, HasChange
    <2>8. FirstPass'
        BY <1>1, <2>1, <2>3, <2>4, <2>6, <2>7 DEF FirstPass
    <2>9. Matching'
        BY <1>1, <1>2, <1>5 DEF PlanInv, Matching, Key
    <2>10. Stages' /\ Unique'
        BY <1>1, <1>3, <1>5 DEF PlanInv, Stages, Unique, Clash
    <2> QED
        BY <1>0, <1>1, <2>8, <2>9, <2>10 DEF PlanInv
<1>6. ASSUME next \in Selected, NEW d \in Deployed(next), NEW a,
             matched' = matched \cup {d},
             changes' = changes \cup {Change(next, a, d)},
             unmatched' = unmatched
      PROVE  PlanInv'
    <2> DEFINE n == Change(next, a, d)
    <2>1. n.item = next /\ n.id = d
        BY ChangeParts
    <2>2. next # 0 /\ next \in Nat
        BY <1>2
    <2>3. d \notin matched
        <3> SUFFICES ASSUME d \in matched PROVE FALSE
            OBVIOUS
        <3>1. PICK j \in DOMAIN source : j < next /\ Key(listed[d]) = Key(source[j])
            BY <1>1 DEF PlanInv, Matching
        <3>2. Key(listed[d]) = Key(source[next])
            BY DEF Deployed
        <3>3. j = next
            BY <1>2, <3>1, <3>2, SourceShape DEF PlanInv
        <3> QED
            BY <1>2, <3>1, <3>3
    <2>4. \A c \in changes : c.item # 0
        BY <1>1 DEF PlanInv, Stages
    <2>5. \A c \in changes : c.item < next /\ c.item \in Nat /\ ~ Pending(c.item)
        BY <2>4, <1>2, SourceShape DEF PlanInv, FirstPass
    <2>6. \A c \in changes : c.item # next
        BY <2>2, <2>5
    <2>7. \A c \in changes : c.id # NoId => c.id # d
        BY <2>3, <2>4 DEF PlanInv, Matching
    <2>8. \A c \in changes : ~ Clash(c, n) /\ ~ Clash(n, c)
        BY <2>1, <2>6, <2>7 DEF Clash
    <2>9. Unique'
        BY <1>6, <2>8, AddOne DEF PlanInv
    <2>10. \A i : Pending(i)' <=> Pending(i)
        BY <1>6 DEF Pending
    <2>11. ~ Pending(next)
        BY <2>2 DEF PlanInv, FirstPass, Pending
    <2>12. \A c \in changes' : c.item # 0 =>
             c.item \in Selected /\ c.item < next + 1 /\ ~ Pending(c.item)'
        BY <1>6, <2>1, <2>2, <2>5, <2>10, <2>11 DEF PlanInv, FirstPass
    <2>13. \E c \in changes' : c.item = next
        BY <1>6, <2>1
    <2>14. \A i \in Selected : i < next + 1 => HasChange(i)' \/ Pending(i)'
        <3> SUFFICES ASSUME NEW i \in Selected, i < next + 1 PROVE HasChange(i)' \/ Pending(i)'
            OBVIOUS
        <3>1. i \in Nat
            BY <1>2, SourceShape DEF PlanInv
        <3>2. i < next \/ i = next
            BY <2>2, <3>1
        <3>3. CASE i < next
            <4>1. HasChange(i) \/ Pending(i)
                BY <3>3 DEF PlanInv, FirstPass
            <4> QED
                BY <1>6, <2>10, <4>1 DEF HasChange
        <3> QED
            BY <2>13, <3>2, <3>3 DEF HasChange
    <2>15. \A k \in DOMAIN unmatched' : unmatched'[k] \in Selected /\ unmatched'[k] < next + 1
        BY <1>6, <2>2 DEF PlanInv, FirstPass
    <2>16. FirstPass'
        BY <1>1, <1>6, <2>12, <2>14, <2>15 DEF PlanInv, FirstPass
    <2>17. \A c \in changes' : c.item # 0 /\ c.id # NoId => c.id \in matched'
        BY <1>6, <2>1 DEF PlanInv, Matching
    <2>18. \A e \in matched' : \E j \in DOMAIN source : j < next + 1 /\ Key(listed[e]) = Key(source[j])
        BY <1>1, <1>2, <1>6 DEF PlanInv, Matching, Deployed
    <2>19. Matching'
        BY <1>1, <2>17, <2>18 DEF Matching, Key
    <2>20. Stages'
        BY <1>1, <1>3, <1>6, <2>1, <2>2 DEF PlanInv, Stages
    <2> QED
        BY <1>0, <1>1, <2>9, <2>16, <2>19, <2>20 DEF PlanInv
<1>7. CASE /\ next \in Selected
           /\ \E d \in Deployed(next) :
                /\ matched' = matched \cup {d}
                /\ changes' = changes \cup
                      {Change(next, IF ~ opts.forceAll /\ Unchanged(next, d)
                                    THEN "Skip" ELSE "Update", d)}
           /\ UNCHANGED unmatched
    BY <1>6, <1>7
<1> QED
    BY <1>4, <1>5, <1>7 DEF MatchNext

-----------------------------------------------------------------------------
(* The second pass. *)

\* Taking the head of the queue gives its item a change; the rest still waits.
LEMMA TailFacts ==
    ASSUME FirstPass, unmatched # << >>, unmatched' = Tail(unmatched)
    PROVE  /\ unmatched' \in Seq(Nat)
           /\ Head(unmatched) \in Selected /\ Head(unmatched) < next
           /\ Pending(Head(unmatched))
           /\ \A j, k \in DOMAIN unmatched' : unmatched'[j] = unmatched'[k] => j = k
           /\ \A k \in DOMAIN unmatched' : unmatched'[k] \in Selected /\ unmatched'[k] < next
           /\ \A i : Pending(i)' <=> Pending(i) /\ i # Head(unmatched)
<1>1. /\ unmatched \in Seq(Nat)
      /\ Len(unmatched) \in Nat \ {0}
      /\ DOMAIN unmatched = 1 .. Len(unmatched)
      /\ unmatched' \in Seq(Nat)
      /\ DOMAIN unmatched' = 1 .. Len(unmatched) - 1
      /\ \A k \in DOMAIN unmatched' : unmatched'[k] = unmatched[k + 1] /\ k + 1 \in DOMAIN unmatched
      /\ 1 \in DOMAIN unmatched /\ Head(unmatched) = unmatched[1]
    BY DEF FirstPass
<1>2. \A j, k \in DOMAIN unmatched' : unmatched'[j] = unmatched'[k] => j = k
    <2> SUFFICES ASSUME NEW j \in DOMAIN unmatched', NEW k \in DOMAIN unmatched',
                        unmatched'[j] = unmatched'[k]
                 PROVE  j = k
        OBVIOUS
    <2>1. j + 1 = k + 1
        BY <1>1 DEF FirstPass
    <2> QED
        BY <1>1, <2>1
<1>3. \A k \in DOMAIN unmatched' : unmatched'[k] # unmatched[1]
    <2> SUFFICES ASSUME NEW k \in DOMAIN unmatched', unmatched'[k] = unmatched[1] PROVE FALSE
        OBVIOUS
    <2>1. k + 1 = 1
        BY <1>1 DEF FirstPass
    <2> QED
        BY <1>1, <2>1
<1>4. \A k \in DOMAIN unmatched : k = 1 \/ (k - 1 \in DOMAIN unmatched' /\ unmatched'[k - 1] = unmatched[k])
    BY <1>1
<1>5. ASSUME NEW i PROVE Pending(i)' <=> Pending(i) /\ i # Head(unmatched)
    <2>1. ASSUME NEW k \in DOMAIN unmatched', unmatched'[k] = i
          PROVE  Pending(i) /\ i # Head(unmatched)
        BY <1>1, <1>3, <2>1 DEF Pending
    <2>2. ASSUME NEW k \in DOMAIN unmatched, unmatched[k] = i, i # Head(unmatched)
          PROVE  Pending(i)'
        <3>1. k - 1 \in DOMAIN unmatched' /\ unmatched'[k - 1] = i
            BY <1>1, <1>4, <2>2
        <3> QED
            BY <3>1 DEF Pending
    <2> QED
        BY <2>1, <2>2 DEF Pending
<1>6. \A k \in DOMAIN unmatched' : unmatched'[k] \in Selected /\ unmatched'[k] < next
    BY <1>1 DEF FirstPass
<1> QED
    BY <1>1, <1>2, <1>5, <1>6 DEF FirstPass, Pending

LEMMA RenameNextInductive == PlanInv /\ RenameNext => PlanInv'
<1> SUFFICES ASSUME PlanInv, RenameNext PROVE PlanInv'
    OBVIOUS
<1> DEFINE i == Head(unmatched)
<1>1. /\ stage = "matching" /\ stage' = stage /\ next' = next /\ next > Len(source)
      /\ listed' = listed /\ source' = source /\ Selected' = Selected
      /\ unmatched # << >> /\ unmatched' = Tail(unmatched)
    BY DEF RenameNext, Selected
<1>0. KnownIds'
    BY DEF RenameNext, PlanInv, KnownIds, external
<1>2. Len(source) \in Nat /\ next \in Nat /\ DOMAIN source = 1 .. Len(source)
    BY SourceShape DEF PlanInv, FirstPass
<1>3. ~ (next <= Len(source))
    BY <1>1, <1>2
<1>4. /\ unmatched' \in Seq(Nat)
      /\ i \in Selected /\ i < next /\ Pending(i)
      /\ \A j, k \in DOMAIN unmatched' : unmatched'[j] = unmatched'[k] => j = k
      /\ \A k \in DOMAIN unmatched' : unmatched'[k] \in Selected /\ unmatched'[k] < next
    BY <1>1, TailFacts DEF PlanInv
<1>5. \A j : Pending(j)' <=> Pending(j) /\ j # i
    BY <1>1, TailFacts DEF PlanInv
<1>6. \A c \in changes : c.item # 0
    BY <1>1 DEF PlanInv, Stages
<1>7. \A c \in changes : c.item # i
    BY <1>4, <1>6 DEF PlanInv, FirstPass
<1>8. i # 0
    BY <1>2, <1>4, SourceShape DEF PlanInv
<1>9. ASSUME NEW n, n.item = i, changes' = changes \cup {n},
             matched' = IF n.id = NoId THEN matched ELSE matched \cup {n.id},
             n.id # NoId => n.id \notin matched
      PROVE  PlanInv'
    <2>1. \A c \in changes : c.id # NoId => c.id # n.id
        BY <1>6, <1>9 DEF PlanInv, Matching
    <2>2. \A c \in changes : ~ Clash(c, n) /\ ~ Clash(n, c)
        BY <1>7, <1>9, <2>1 DEF Clash
    <2>3. Unique'
        BY <1>9, <2>2, AddOne DEF PlanInv
    <2>4. \A c \in changes' : c.item # 0 => c.item \in Selected /\ c.item < next /\ ~ Pending(c.item)'
        BY <1>4, <1>5, <1>9 DEF PlanInv, FirstPass
    <2>5. \A j \in Selected : j < next => HasChange(j)' \/ Pending(j)'
        <3> SUFFICES ASSUME NEW j \in Selected, j < next PROVE HasChange(j)' \/ Pending(j)'
            OBVIOUS
        <3>1. HasChange(j) \/ Pending(j)
            BY DEF PlanInv, FirstPass
        <3>2. CASE HasChange(j)
            BY <1>9, <3>2 DEF HasChange
        <3>3. CASE j = i
            BY <1>9, <3>3 DEF HasChange
        <3> QED
            BY <1>5, <3>1, <3>2, <3>3
    <2>6. FirstPass'
        BY <1>1, <1>4, <2>4, <2>5 DEF PlanInv, FirstPass
    <2>7. Matching'
        BY <1>1, <1>3, <1>9 DEF PlanInv, Matching
    <2>8. Stages'
        BY <1>1, <1>6, <1>8, <1>9 DEF Stages, Planned
    <2> QED
        BY <1>0, <1>1, <2>3, <2>6, <2>7, <2>8 DEF PlanInv
<1>10. ASSUME NEW d \in Holders(i), matched' = matched \cup {d},
              changes' = changes \cup {Change(i, "Rename", d)}
       PROVE  PlanInv'
    <2>1. d \notin matched /\ d \in DOMAIN listed
        BY DEF Holders
    <2>2. d # NoId
        BY <2>1, PlanAssumption DEF PlanInv, KnownIds
    <2> QED
        BY <1>9, <1>10, <2>1, <2>2, ChangeParts
<1>11. CASE changes' = changes \cup {Change(i, "Create", NoId)} /\ UNCHANGED matched
    BY <1>9, <1>11, ChangeParts
<1> QED
    BY <1>10, <1>11 DEF RenameNext

-----------------------------------------------------------------------------
(* The end of planning, and the rest of the command. *)

LEMMA FindOrphansInductive == PlanInv /\ FindOrphans => PlanInv'
<1> SUFFICES ASSUME PlanInv, FindOrphans PROVE PlanInv'
    OBVIOUS
<1> DEFINE X == {x \in DOMAIN listed \ matched :
                    opts.deleteOrphans /\ DeleteAllowed(listed[x].type)}
<1>1. /\ stage = "matching" /\ next' = next /\ next > Len(source) /\ matched' = matched
      /\ listed' = listed /\ source' = source /\ Selected' = Selected
      /\ unmatched = << >> /\ unmatched' = unmatched
      /\ changes' = changes \cup {Orphan(d) : d \in X}
    BY DEF FindOrphans, Selected
<1>2. KnownIds'
    BY DEF FindOrphans, PlanInv, KnownIds, external
<1>3. \A n \in {Orphan(d) : d \in X} : n.item = 0 /\ n.id \in X /\ n = Orphan(n.id)
    BY DEF Orphan, Change
<1>4. \A c \in changes : c.item # 0
    BY <1>1 DEF PlanInv, Stages
<1>5. \A c \in changes : c.id # NoId => c.id \notin X
    BY <1>4 DEF PlanInv, Matching
<1>6. \A c \in changes' : c \in changes \/ (c.item = 0 /\ c.id \in X /\ c = Orphan(c.id))
    BY <1>1, <1>3
<1>7. Unique'
    <2> SUFFICES ASSUME NEW c \in changes', NEW o \in changes', Clash(c, o) PROVE c = o
        BY DEF Unique, Clash
    <2>1. CASE c \in changes /\ o \in changes
        BY <2>1 DEF PlanInv, Unique
    <2>2. CASE c \in changes /\ o \notin changes
        BY <1>4, <1>5, <1>6, <2>2 DEF Clash
    <2>3. CASE c \notin changes /\ o \in changes
        BY <1>4, <1>5, <1>6, <2>3 DEF Clash
    <2>4. CASE c \notin changes /\ o \notin changes
        BY <1>6, <2>4 DEF Clash
    <2> QED
        BY <2>1, <2>2, <2>3, <2>4
<1>8. FirstPass'
    <2>1. \A i : Pending(i)' <=> Pending(i)
        BY <1>1 DEF Pending
    <2>2. \A i : HasChange(i) => HasChange(i)'
        BY <1>1 DEF HasChange
    <2>3. \A c \in changes' : c.item # 0 => c.item \in Selected /\ c.item < next /\ ~ Pending(c.item)'
        BY <1>6, <2>1 DEF PlanInv, FirstPass
    <2> QED
        BY <1>1, <2>1, <2>2, <2>3 DEF PlanInv, FirstPass
<1>9. Matching'
    BY <1>1, <1>6 DEF PlanInv, Matching
<1>10. Stages'
    BY <1>1 DEF FindOrphans, Proceed, Stages
<1> QED
    BY <1>1, <1>2, <1>7, <1>8, <1>9, <1>10 DEF PlanInv

\* What the invariant reads of the plan.
planVars == <<source, opts, listed, next, unmatched, matched, changes>>

LEMMA PlanKept ==
    ASSUME PlanInv, KnownIds', UNCHANGED planVars, Stages'
    PROVE  PlanInv'
BY DEF PlanInv, planVars, FirstPass, Matching, Unique, Clash, Pending, HasChange, Selected, Key

\* The list is replaced only before anything is matched.
LEMMA ListDeployedInductive == PlanInv /\ ListDeployed => PlanInv'
<1> SUFFICES ASSUME PlanInv, ListDeployed PROVE PlanInv'
    OBVIOUS
<1>1. /\ changes = {} /\ changes' = {} /\ matched = {} /\ matched' = {} /\ stage' = "matching"
      /\ source' = source /\ next' = next /\ unmatched' = unmatched /\ Selected' = Selected
    BY DEF ListDeployed, PlanInv, Stages, Selected
<1>2. KnownIds'
    BY DEF ListDeployed, PlanInv, KnownIds, external, Restricted, InScope
<1>3. FirstPass'
    BY <1>1 DEF PlanInv, FirstPass, Pending, HasChange
<1>4. Matching' /\ Stages' /\ Unique'
    BY <1>1 DEF Matching, Stages, Planned, Unique
<1> QED
    BY <1>1, <1>2, <1>3, <1>4 DEF PlanInv

LEMMA ApplyKeepsIds ==
    ASSUME KnownIds, NEW c, c.action \in Actions, Possible(c), Effect(c), c.action # "Skip", UNCHANGED listed
    PROVE  KnownIds'
<1>1. CASE c.action = "Create"
    BY <1>1 DEF Effect, Created, KnownIds
<1>2. CASE c.action = "Update"
    BY <1>2 DEF Effect, Redefined, KnownIds
<1>3. CASE c.action = "Rename"
    BY <1>3 DEF Effect, Renamed, KnownIds
<1>4. CASE c.action = "Delete"
    BY <1>4 DEF Effect, Removed, Restricted, KnownIds
<1> QED
    BY <1>1, <1>2, <1>3, <1>4 DEF Actions

LEMMA LaterInductive ==
    ASSUME PlanInv, TypeOK,
           MatchFails \/ CheckFingerprint \/ ApplyChange \/ Finish \/ OtherEdit \/ UNCHANGED vars
    PROVE  PlanInv'
<1>1. UNCHANGED planVars
    BY DEF MatchFails, CheckFingerprint, ApplyChange, Finish, OtherEdit, vars, planVars, external
<1>2. Stages'
    BY <1>1 DEF MatchFails, CheckFingerprint, Proceed, ApplyChange, Finish, OtherEdit, vars, planVars,
                PlanInv, Stages, Planned
<1>3. KnownIds'
    <2>1. CASE MatchFails \/ CheckFingerprint \/ Finish \/ UNCHANGED vars
        BY <2>1 DEF MatchFails, CheckFingerprint, Finish, vars, external, PlanInv, KnownIds
    <2>2. CASE ApplyChange
        <3>1. PICK c \in Work \ ended :
                \/ Possible(c) /\ Effect(c)
                \/ NameOnly(c)
                \/ UNCHANGED <<workspace, given>>
            BY <2>2 DEF ApplyChange
        <3>2. c.action \in Actions /\ c.action # "Skip"
            BY DEF TypeOK, Work, ChangeOK
        <3>3. CASE Possible(c) /\ Effect(c)
            BY <1>1, <3>2, <3>3, ApplyKeepsIds DEF PlanInv, planVars
        <3>4. CASE NameOnly(c)
            BY <1>1, <3>4 DEF NameOnly, PlanInv, KnownIds, planVars
        <3>5. CASE UNCHANGED <<workspace, given>>
            BY <1>1, <3>5 DEF PlanInv, KnownIds, planVars
        <3> QED
            BY <3>1, <3>3, <3>4, <3>5
    <2>3. CASE OtherEdit
        BY <1>1, <2>3 DEF OtherEdit, Restricted, PlanInv, KnownIds, planVars
    <2> QED
        BY <2>1, <2>2, <2>3
<1> QED
    BY <1>1, <1>2, <1>3, PlanKept

-----------------------------------------------------------------------------
(* Types. *)

LEMMA InitTypes == Init => TypeOK
<1> SUFFICES ASSUME Init PROVE TypeOK
    OBVIOUS
<1>1. Len(source) \in Nat
    BY SourceShape DEF Init
<1>2. DOMAIN workspace \subseteq Ids
    BY PlanAssumption DEF Init
<1>3. 0 \in 0 .. MaxEdits
    BY PlanAssumption
<1>4. 1 \in 1 .. Len(source) + 1
    BY <1>1
<1> QED
    BY <1>2, <1>3, <1>4 DEF Init, TypeOK, Work

\* The parts of TypeOK that planning changes, for a changeset grown by some.
LEMMA PlanTypes ==
    ASSUME TypeOK, stage' \in {"matching", "saved", "applying"} \cup Over,
           UNCHANGED <<source, opts, listed, ended, failed, external>>,
           next' \in 1 .. Len(source) + 1,
           changes \subseteq changes',
           \A c \in changes' \ changes : ChangeOK(c),
           matched' \subseteq DOMAIN listed,
           \A k \in DOMAIN unmatched' : unmatched'[k] \in Selected /\ unmatched'[k] < next'
    PROVE  TypeOK'
<1>1. \A c \in changes' : ChangeOK(c)
    BY DEF TypeOK
<1>2. \A c \in changes' : ChangeOK(c)'
    BY <1>1 DEF ChangeOK, Selected
<1>3. Work \subseteq Work'
    BY DEF Work
<1>4. Selected' = Selected
    BY DEF Selected
<1> QED
    BY <1>2, <1>3, <1>4 DEF TypeOK, external, Over

LEMMA MatchNextTypes == TypeOK /\ PlanInv /\ MatchNext => TypeOK'
<1> SUFFICES ASSUME TypeOK, PlanInv, MatchNext PROVE TypeOK'
    OBVIOUS
<1>1. /\ stage' = "matching" /\ next' = next + 1 /\ next <= Len(source) /\ next \in Nat \ {0}
      /\ UNCHANGED <<source, opts, listed, ended, failed, external>>
    BY DEF MatchNext, PlanInv, FirstPass
<1>2. next' \in 1 .. Len(source) + 1
    BY <1>1, SourceShape DEF PlanInv
<1>3. \A k \in DOMAIN unmatched : unmatched[k] \in Selected /\ unmatched[k] \in Nat /\ unmatched[k] < next + 1
    BY <1>1, SourceShape DEF PlanInv, FirstPass
<1>4. PlanInv'
    BY MatchNextInductive
<1>5. \A k \in DOMAIN unmatched' : unmatched'[k] \in Selected /\ unmatched'[k] < next'
    BY <1>1, <1>4 DEF PlanInv, FirstPass, Selected
<1>6. CASE UNCHANGED <<matched, changes>>
    BY <1>1, <1>2, <1>5, <1>6, PlanTypes DEF TypeOK
<1>7. ASSUME next \in Selected, NEW d \in Deployed(next), NEW a \in {"Skip", "Update"},
             matched' = matched \cup {d},
             changes' = changes \cup {Change(next, a, d)}
      PROVE  TypeOK'
    <2>1. d \in DOMAIN listed /\ listed[d].type = source[next].type
        BY <1>7 DEF Deployed, Key
    <2>2. d # NoId
        BY <2>1, PlanAssumption DEF PlanInv, KnownIds
    <2>3. ChangeOK(Change(next, a, d))
        BY <1>1, <1>7, <2>1, <2>2, ChangeParts DEF ChangeOK, Actions
    <2>4. matched' \subseteq DOMAIN listed
        BY <1>7, <2>1 DEF TypeOK
    <2> QED
        BY <1>1, <1>2, <1>5, <1>7, <2>3, <2>4, PlanTypes
<1>8. CASE /\ next \in Selected
           /\ \E d \in Deployed(next) :
                /\ matched' = matched \cup {d}
                /\ changes' = changes \cup
                      {Change(next, IF ~ opts.forceAll /\ Unchanged(next, d)
                                    THEN "Skip" ELSE "Update", d)}
    BY <1>7, <1>8
<1> QED
    BY <1>6, <1>8 DEF MatchNext

LEMMA RenameNextTypes == TypeOK /\ PlanInv /\ RenameNext => TypeOK'
<1> SUFFICES ASSUME TypeOK, PlanInv, RenameNext PROVE TypeOK'
    OBVIOUS
<1> DEFINE i == Head(unmatched)
<1>1. /\ stage' = "matching" /\ next' = next /\ unmatched # << >> /\ unmatched' = Tail(unmatched)
      /\ UNCHANGED <<source, opts, listed, ended, failed, external>>
    BY DEF RenameNext
<1>2. next' \in 1 .. Len(source) + 1
    BY <1>1 DEF TypeOK
<1>3. i \in Selected /\ \A k \in DOMAIN unmatched' : unmatched'[k] \in Selected /\ unmatched'[k] < next'
    BY <1>1, TailFacts DEF PlanInv
<1>4. i # 0
    BY <1>3, SourceShape DEF PlanInv
<1>5. ASSUME NEW d \in Holders(i), matched' = matched \cup {d},
             changes' = changes \cup {Change(i, "Rename", d)}
      PROVE  TypeOK'
    <2>1. d \in DOMAIN listed /\ listed[d].type = source[i].type
        BY DEF Holders
    <2>2. d # NoId
        BY <2>1, PlanAssumption DEF PlanInv, KnownIds
    <2>3. ChangeOK(Change(i, "Rename", d))
        BY <1>3, <1>4, <2>1, <2>2, ChangeParts DEF ChangeOK, Actions
    <2>4. matched' \subseteq DOMAIN listed
        BY <1>5, <2>1 DEF TypeOK
    <2> QED
        BY <1>1, <1>2, <1>3, <1>5, <2>3, <2>4, PlanTypes
<1>6. CASE changes' = changes \cup {Change(i, "Create", NoId)} /\ UNCHANGED matched
    <2>1. ChangeOK(Change(i, "Create", NoId))
        BY <1>3, <1>4, ChangeParts DEF ChangeOK, Actions
    <2>2. matched' \subseteq DOMAIN listed
        BY <1>6 DEF TypeOK
    <2> QED
        BY <1>1, <1>2, <1>3, <1>6, <2>1, <2>2, PlanTypes
<1> QED
    BY <1>5, <1>6 DEF RenameNext

LEMMA FindOrphansTypes == TypeOK /\ PlanInv /\ FindOrphans => TypeOK'
<1> SUFFICES ASSUME TypeOK, PlanInv, FindOrphans PROVE TypeOK'
    OBVIOUS
<1>1. /\ next' = next /\ unmatched' = unmatched /\ matched' = matched
      /\ UNCHANGED <<source, opts, listed, ended, failed, external>>
      /\ stage' \in {"matching", "saved", "applying"} \cup Over
      /\ changes \subseteq changes'
    BY DEF FindOrphans, Proceed, Over
<1>2. \A c \in changes' \ changes : ChangeOK(c)
    <2> SUFFICES ASSUME NEW c \in changes' \ changes PROVE ChangeOK(c)
        OBVIOUS
    <2>1. PICK d \in DOMAIN listed : c = Orphan(d)
        BY DEF FindOrphans
    <2>2. d # NoId
        BY PlanAssumption DEF PlanInv, KnownIds
    <2> QED
        BY <2>1, <2>2, ChangeParts DEF Orphan, ChangeOK, Actions
<1> QED
    BY <1>1, <1>2, PlanTypes DEF TypeOK

LEMMA ListDeployedTypes == TypeOK /\ PlanInv /\ ListDeployed => TypeOK'
<1> SUFFICES ASSUME TypeOK, PlanInv, ListDeployed PROVE TypeOK'
    OBVIOUS
<1>1. changes' = {} /\ matched' = {} /\ Selected' = Selected /\ stage' = "matching"
    BY DEF ListDeployed, PlanInv, Stages, Selected
<1> QED
    BY <1>1 DEF ListDeployed, TypeOK, external, Work

LEMMA LaterTypes ==
    ASSUME TypeOK, PlanInv, PlanInv',
           MatchFails \/ CheckFingerprint \/ ApplyChange \/ Finish \/ OtherEdit \/ UNCHANGED vars
    PROVE  TypeOK'
<1>1. UNCHANGED planVars
    BY DEF MatchFails, CheckFingerprint, ApplyChange, Finish, OtherEdit, vars, planVars, external
<1>2. Selected' = Selected /\ Work' = Work /\ \A c : ChangeOK(c)' <=> ChangeOK(c)
    BY <1>1 DEF planVars, Selected, Work, ChangeOK
<1>3. stage' \in {"start", "matching", "saved", "applying"} \cup Over
    BY DEF TypeOK, MatchFails, CheckFingerprint, Proceed, ApplyChange, Finish, OtherEdit, vars, Over
<1>4. edits' \in 0 .. MaxEdits
    BY PlanAssumption
        DEF TypeOK, MatchFails, CheckFingerprint, ApplyChange, Finish, OtherEdit, vars, external
<1>5. failed' \subseteq ended' /\ ended' \subseteq Work
    BY DEF TypeOK, MatchFails, CheckFingerprint, ApplyChange, Finish, OtherEdit, vars
<1>6. DOMAIN workspace' \subseteq given' /\ given' \subseteq Ids
    BY DEF PlanInv, KnownIds
<1> QED
    BY <1>1, <1>2, <1>3, <1>4, <1>5, <1>6 DEF TypeOK, planVars

-----------------------------------------------------------------------------

Inductive == TypeOK /\ PlanInv

LEMMA StepInductive == Inductive /\ [Next]_vars => Inductive'
<1> SUFFICES ASSUME TypeOK, PlanInv, [Next]_vars PROVE TypeOK' /\ PlanInv'
    BY DEF Inductive
<1>1. CASE ListDeployed
    BY <1>1, ListDeployedInductive, ListDeployedTypes
<1>2. CASE MatchNext
    BY <1>2, MatchNextInductive, MatchNextTypes
<1>3. CASE RenameNext
    BY <1>3, RenameNextInductive, RenameNextTypes
<1>4. CASE FindOrphans
    BY <1>4, FindOrphansInductive, FindOrphansTypes
<1>5. CASE MatchFails \/ CheckFingerprint \/ ApplyChange \/ Finish \/ OtherEdit \/ UNCHANGED vars
    BY <1>5, LaterInductive, LaterTypes
<1> QED
    BY <1>1, <1>2, <1>3, <1>4, <1>5 DEF Next

THEOREM AlwaysInductive == Spec => []Inductive
<1>1. Init => Inductive
    BY PlanInit, InitTypes DEF Inductive
<1> QED
    BY <1>1, StepInductive, PTL DEF Spec

\* Every variable of a deploy command keeps its type, and every change goes to an
\* item of the type of its source item, for all sources, workspaces and options.
THEOREM TypeCorrect == Spec => []TypeOK
<1>1. Inductive => TypeOK
    BY DEF Inductive
<1> QED
    BY <1>1, AlwaysInductive, PTL

\* Every source item in scope gets one change and no deployed item gets two,
\* whatever other actors do while build_changeset works.
THEOREM ChangesetExact == Spec => []OneChangePerItem
<1>1. Inductive => OneChangePerItem
    <2> SUFFICES ASSUME PlanInv PROVE OneChangePerItem
        BY DEF Inductive
    <2>1. ASSUME Planned, NEW i \in Selected PROVE \E c \in changes : c.item = i
        <3>1. next > Len(source) /\ unmatched = << >>
            BY <2>1 DEF PlanInv, Stages
        <3>2. i < next
            BY <3>1, SourceShape DEF PlanInv, FirstPass
        <3>3. ~ Pending(i)
            BY <3>1 DEF Pending
        <3> QED
            BY <3>2, <3>3 DEF PlanInv, FirstPass, HasChange
    <2> QED
        BY <2>1 DEF PlanInv, Unique, OneChangePerItem
<1> QED
    BY <1>1, AlwaysInductive, PTL

-----------------------------------------------------------------------------
(* A saved plan. *)

\* What waits for the second pass, and what it creates or renames, had no namesake
\* in the list.
NewNames ==
    /\ \A k \in DOMAIN unmatched : Deployed(unmatched[k]) = {}
    /\ \A c \in changes : c.action \in {"Create", "Rename"} => Deployed(c.item) = {}

LEMMA NewNamesInductive == NewNames /\ Inductive /\ [Next]_vars => NewNames'
<1> SUFFICES ASSUME NewNames, TypeOK, PlanInv, [Next]_vars PROVE NewNames'
    BY DEF Inductive
<1>1. CASE ListDeployed
    <2>1. changes' = {} /\ unmatched' = << >>
        BY <1>1 DEF ListDeployed, PlanInv, Stages
    <2> QED
        BY <2>1 DEF NewNames
<1>2. CASE MatchNext
    <2>1. \A i : Deployed(i)' = Deployed(i)
        BY <1>2 DEF MatchNext, Deployed, Key
    <2>2. \A c \in changes' : c \in changes \/ c.action \in {"Skip", "Update"}
        BY <1>2, ChangeParts DEF MatchNext
    <2>3. unmatched' = unmatched \/ (unmatched' = Append(unmatched, next) /\ Deployed(next) = {})
        BY <1>2 DEF MatchNext
    <2>4. \A k \in DOMAIN unmatched' : Deployed(unmatched'[k]) = {}
        <3>1. unmatched \in Seq(Nat) /\ next \in Nat
            BY DEF PlanInv, FirstPass
        <3> QED
            BY <2>3, <3>1 DEF NewNames
    <2> QED
        BY <2>1, <2>2, <2>4 DEF NewNames
<1>3. CASE RenameNext
    <2>1. \A i : Deployed(i)' = Deployed(i)
        BY <1>3 DEF RenameNext, Deployed, Key
    <2>2. unmatched \in Seq(Nat) /\ unmatched # << >> /\ unmatched' = Tail(unmatched)
        BY <1>3 DEF RenameNext, PlanInv, FirstPass
    <2>3. Deployed(Head(unmatched)) = {}
        BY <2>2 DEF NewNames
    <2>4. \A k \in DOMAIN unmatched' : Deployed(unmatched'[k]) = {}
        BY <2>2 DEF NewNames
    <2>5. \A c \in changes' : c \in changes \/ c.item = Head(unmatched)
        BY <1>3, ChangeParts DEF RenameNext
    <2> QED
        BY <2>1, <2>3, <2>4, <2>5 DEF NewNames
<1>4. CASE FindOrphans
    <2>1. \A i : Deployed(i)' = Deployed(i)
        BY <1>4 DEF FindOrphans, Deployed, Key
    <2>2. \A c \in changes' : c \in changes \/ c.action = "Delete"
        BY <1>4, ChangeParts DEF FindOrphans, Orphan
    <2>3. unmatched' = unmatched
        BY <1>4 DEF FindOrphans
    <2> QED
        BY <2>1, <2>2, <2>3 DEF NewNames
<1>5. CASE MatchFails \/ CheckFingerprint \/ ApplyChange \/ Finish \/ OtherEdit \/ UNCHANGED vars
    <2>1. UNCHANGED planVars
        BY <1>5 DEF MatchFails, CheckFingerprint, ApplyChange, Finish, OtherEdit, vars, planVars, external
    <2> QED
        BY <2>1 DEF planVars, NewNames, Deployed, Key
<1> QED
    BY <1>1, <1>2, <1>3, <1>4, <1>5 DEF Next

\* A saved plan that is not refused meets every item it targets under the name the
\* plan saw, and none of the names it is to give, for all sources and workspaces.
THEOREM PlanFits == Spec => PlanStillFits
<1>1. Init => NewNames
    BY DEF Init, NewNames
<1>2. Spec => []NewNames
    BY <1>1, NewNamesInductive, AlwaysInductive, PTL DEF Spec
<1> DEFINE Fits ==
        stage = "saved" /\ stage' = "applying" /\ ~ opts.force =>
            \A c \in changes :
                /\ c.id # NoId => c.id \in DOMAIN workspace /\ Key(workspace[c.id]) = Key(listed[c.id])
                /\ c.action \in {"Create", "Rename"} =>
                        NameFree(source[c.item].type, source[c.item].name)
<1>3. Inductive /\ NewNames /\ [Next]_vars => [Fits]_vars
    <2> SUFFICES ASSUME TypeOK, NewNames, [Next]_vars,
                        stage = "saved", stage' = "applying", ~ opts.force, NEW c \in changes
                 PROVE  /\ c.id # NoId =>
                                c.id \in DOMAIN workspace /\ Key(workspace[c.id]) = Key(listed[c.id])
                        /\ c.action \in {"Create", "Rename"} =>
                                NameFree(source[c.item].type, source[c.item].name)
        BY DEF Inductive
    <2>1. CheckFingerprint
        BY DEF Next, vars, ListDeployed, MatchNext, MatchFails, RenameNext, FindOrphans, ApplyChange,
               Finish, OtherEdit, external
    <2>2. Fingerprint(workspace) = Fingerprint(listed)
        BY <2>1 DEF CheckFingerprint
    <2>3. ASSUME NEW d \in DOMAIN listed
          PROVE  d \in DOMAIN workspace /\ Key(workspace[d]) = Key(listed[d])
        <3>1. <<d, listed[d].type, listed[d].name>> \in Fingerprint(workspace)
            BY <2>2 DEF Fingerprint
        <3> QED
            BY <3>1 DEF Fingerprint, Key
    <2>4. ASSUME NEW d \in DOMAIN workspace
          PROVE  d \in DOMAIN listed /\ Key(workspace[d]) = Key(listed[d])
        <3>1. <<d, workspace[d].type, workspace[d].name>> \in Fingerprint(listed)
            BY <2>2 DEF Fingerprint
        <3> QED
            BY <3>1 DEF Fingerprint, Key
    <2>5. c.id # NoId => c.id \in DOMAIN listed
        BY DEF TypeOK, ChangeOK
    <2>6. c.action \in {"Create", "Rename"} => NameFree(source[c.item].type, source[c.item].name)
        <3> SUFFICES ASSUME Deployed(c.item) = {} PROVE NameFree(source[c.item].type, source[c.item].name)
            BY DEF NewNames
        <3> QED
            BY <2>4 DEF Deployed, NameFree, Key
    <2> QED
        BY <2>3, <2>5, <2>6
<1> QED
    BY <1>2, <1>3, AlwaysInductive, PTL DEF Spec, PlanStillFits
-----------------------------------------------------------------------------
(* Names in the workspace. *)

\* No two items have one type and one name.
WellNamed(w) ==
    /\ \A d \in DOMAIN w : DOMAIN w[d] = ItemFields
    /\ \A c, d \in DOMAIN w : Key(w[c]) = Key(w[d]) => c = d

\* The workspace and the list are well named, an ID that was listed is never given
\* again, and an item keeps its type.
NamesInv ==
    /\ WellNamed(workspace)
    /\ WellNamed(listed)
    /\ DOMAIN listed \subseteq given
    /\ \A d \in DOMAIN listed \cap DOMAIN workspace : workspace[d].type = listed[d].type
    /\ stage = "start" => DOMAIN listed = {}

LEMMA SourceFields ==
    ASSUME source \in Sources, NEW i \in Selected
    PROVE  i \in DOMAIN source /\ DOMAIN source[i] = ItemFields
BY SourceShape, PlanAssumption

LEMMA ChangeFields ==
    ASSUME TypeOK, PlanInv, NEW c \in changes
    PROVE  /\ c.action \in Actions
           /\ c.action # "Delete" =>
                c.item \in Selected /\ c.item \in DOMAIN source /\ DOMAIN source[c.item] = ItemFields
           /\ c.action # "Create" => c.id \in DOMAIN listed
           /\ c.action \notin {"Create", "Delete"} => listed[c.id].type = source[c.item].type
           /\ c.id \notin DOMAIN listed => c.id = NoId
BY SourceFields DEF TypeOK, ChangeOK, PlanInv

\* What a request may do to the workspace: it touches only the item the change
\* targets, whose type stays, and an item that is new has the name of the source item.
LEMMA Touches ==
    ASSUME TypeOK, PlanInv, NamesInv, UNCHANGED <<source, listed>>,
           NEW c \in Work, Possible(c), Effect(c) \/ NameOnly(c)
    PROVE  /\ given \subseteq given'
           /\ \A x \in DOMAIN workspace \ {c.id} :
                x \in DOMAIN workspace' /\ workspace'[x] = workspace[x]
           /\ c.id \in DOMAIN workspace \ DOMAIN workspace' => c.action = "Delete"
           /\ c.id \in DOMAIN workspace \cap DOMAIN workspace' =>
                /\ workspace'[c.id].type = workspace[c.id].type
                /\ c.action # "Rename" => Key(workspace'[c.id]) = Key(workspace[c.id])
           /\ \A x \in DOMAIN workspace' \ DOMAIN workspace :
                c.action = "Create" /\ x \notin given /\ Key(workspace'[x]) = Key(source[c.item])
           /\ WellNamed(workspace')
<1>1. /\ c.action \in Actions \ {"Skip"} /\ c \in changes
      /\ c.action # "Delete" => DOMAIN source[c.item] = ItemFields
      /\ c.action # "Create" => c.id \in DOMAIN listed
      /\ c.action = "Rename" => listed[c.id].type = source[c.item].type
    BY ChangeFields DEF Work
<1>2. \A d \in DOMAIN workspace : DOMAIN workspace[d] = ItemFields
    BY DEF NamesInv, WellNamed
<1>3. \A a, b \in DOMAIN workspace : Key(workspace[a]) = Key(workspace[b]) => a = b
    BY DEF NamesInv, WellNamed
<1>4. CASE c.action = "Create"
    <2>1. PICK d \in Ids \ given, lid \in {source[c.item].lid, NoId} :
            /\ NameFree(source[c.item].type, source[c.item].name)
            /\ given' = given \cup {d}
            /\ workspace' = [x \in DOMAIN workspace \cup {d} |->
                  IF x = d THEN [source[c.item] EXCEPT !.lid = lid] ELSE workspace[x]]
        BY <1>4 DEF Effect, Created, NameOnly
    <2>2. d \notin DOMAIN workspace
        BY DEF PlanInv, KnownIds
    <2>3. /\ DOMAIN workspace' = DOMAIN workspace \cup {d}
          /\ \A x \in DOMAIN workspace : workspace'[x] = workspace[x]
          /\ DOMAIN workspace'[d] = ItemFields
          /\ workspace'[d].type = source[c.item].type /\ workspace'[d].name = source[c.item].name
        BY <1>1, <1>4, <2>1, <2>2 DEF ItemFields
    <2>4. Key(workspace'[d]) = Key(source[c.item])
        BY <2>3 DEF Key
    <2>5. \A x \in DOMAIN workspace : Key(workspace'[x]) # Key(workspace'[d])
        BY <2>1, <2>3, <2>4 DEF NameFree, Key
    <2>6. WellNamed(workspace')
        <3>1. \A x \in DOMAIN workspace' : DOMAIN workspace'[x] = ItemFields
            BY <1>2, <2>3
        <3>2. ASSUME NEW a \in DOMAIN workspace', NEW b \in DOMAIN workspace',
                     Key(workspace'[a]) = Key(workspace'[b])
              PROVE  a = b
            BY <1>3, <2>3, <2>5, <3>2
        <3> QED
            BY <3>1, <3>2 DEF WellNamed
    <2>7. c.id \notin DOMAIN workspace
        BY <1>1, <1>4, PlanAssumption DEF TypeOK, ChangeOK, PlanInv, KnownIds
    <2> QED
        BY <1>4, <2>1, <2>3, <2>4, <2>6, <2>7
<1>5. CASE c.action = "Update"
    <2>1. /\ c.id \in DOMAIN workspace /\ given' = given
          /\ workspace' = [workspace EXCEPT ![c.id].content =
                              IF @ = NoDefinition THEN @ ELSE source[c.item].content]
        BY <1>5 DEF Effect, Redefined, NameOnly
    <2>2. /\ DOMAIN workspace' = DOMAIN workspace
          /\ \A x \in DOMAIN workspace \ {c.id} : workspace'[x] = workspace[x]
          /\ DOMAIN workspace'[c.id] = DOMAIN workspace[c.id]
        BY <2>1
    <2>3. workspace'[c.id].type = workspace[c.id].type /\ workspace'[c.id].name = workspace[c.id].name
        BY <1>2, <2>1 DEF ItemFields
    <2>4. \A x \in DOMAIN workspace' : Key(workspace'[x]) = Key(workspace[x])
        BY <2>2, <2>3 DEF Key
    <2>5. WellNamed(workspace')
        BY <1>2, <1>3, <2>2, <2>4 DEF WellNamed
    <2> QED
        BY <2>1, <2>2, <2>3, <2>4, <2>5
<1>6. CASE c.action = "Rename"
    <2>1. /\ c.id \in DOMAIN workspace /\ given' = given
          /\ NameFree(source[c.item].type, source[c.item].name)
        BY <1>6 DEF Effect, Renamed, NameOnly, Possible
    <2>2. \/ workspace' = [workspace EXCEPT ![c.id].name = source[c.item].name,
                              ![c.id].content = IF @ = NoDefinition THEN @ ELSE source[c.item].content]
          \/ workspace' = [workspace EXCEPT ![c.id].name = source[c.item].name]
        BY <1>6 DEF Effect, Renamed, NameOnly
    <2>3. /\ DOMAIN workspace' = DOMAIN workspace
          /\ \A x \in DOMAIN workspace \ {c.id} : workspace'[x] = workspace[x]
          /\ DOMAIN workspace'[c.id] = DOMAIN workspace[c.id]
        BY <2>1, <2>2
    <2>4. workspace'[c.id].type = workspace[c.id].type /\ workspace'[c.id].name = source[c.item].name
        BY <1>2, <2>1, <2>2 DEF ItemFields
    <2>5. workspace[c.id].type = source[c.item].type
        BY <1>1, <1>6, <2>1 DEF NamesInv
    <2>6. \A x \in DOMAIN workspace : Key(workspace[x]) # Key(workspace'[c.id])
        BY <2>1, <2>4, <2>5 DEF NameFree, Key
    <2>7. WellNamed(workspace')
        <3>1. \A x \in DOMAIN workspace' : DOMAIN workspace'[x] = ItemFields
            BY <1>2, <2>1, <2>3
        <3>2. ASSUME NEW a \in DOMAIN workspace', NEW b \in DOMAIN workspace',
                     Key(workspace'[a]) = Key(workspace'[b])
              PROVE  a = b
            BY <1>3, <2>3, <2>6, <3>2
        <3> QED
            BY <3>1, <3>2 DEF WellNamed
    <2> QED
        BY <1>6, <2>1, <2>3, <2>4, <2>7
<1>7. CASE c.action = "Delete"
    <2>1. /\ given' = given
          /\ workspace' = [d \in DOMAIN workspace \ {c.id} |-> workspace[d]]
        BY <1>7 DEF Effect, Removed, NameOnly, Restricted
    <2>2. WellNamed(workspace')
        BY <1>2, <1>3, <2>1 DEF WellNamed
    <2> QED
        BY <1>7, <2>1, <2>2
<1> QED
    BY <1>1, <1>4, <1>5, <1>6, <1>7 DEF Actions

\* What a request that succeeds has done.
LEMMA Achieves ==
    ASSUME TypeOK, PlanInv, NamesInv, NEW c \in Work, Effect(c)
    PROVE  /\ c.action = "Create" =>
                \E d \in DOMAIN workspace' \ given : InSource(workspace'[d], c.item)
           /\ c.action \in {"Update", "Rename"} =>
                /\ c.id \in DOMAIN workspace'
                /\ workspace'[c.id].content \in {source[c.item].content, NoDefinition}
           /\ c.action = "Rename" => workspace'[c.id].name = source[c.item].name
           /\ c.action = "Delete" => c.id \notin DOMAIN workspace'
<1>1. /\ c.action \in Actions \ {"Skip"} /\ c \in changes
      /\ c.action # "Delete" => DOMAIN source[c.item] = ItemFields
    BY ChangeFields DEF Work
<1>2. \A d \in DOMAIN workspace : DOMAIN workspace[d] = ItemFields
    BY DEF NamesInv, WellNamed
<1>3. ASSUME c.action = "Create"
      PROVE  \E d \in DOMAIN workspace' \ given : InSource(workspace'[d], c.item)
    <2>1. PICK d \in Ids \ given, lid \in {source[c.item].lid, NoId} :
            workspace' = [x \in DOMAIN workspace \cup {d} |->
                  IF x = d THEN [source[c.item] EXCEPT !.lid = lid] ELSE workspace[x]]
        BY <1>3 DEF Effect, Created
    <2>2. /\ d \in DOMAIN workspace'
          /\ workspace'[d].type = source[c.item].type /\ workspace'[d].name = source[c.item].name
          /\ workspace'[d].content = source[c.item].content
        BY <1>1, <1>3, <2>1 DEF ItemFields
    <2>3. InSource(workspace'[d], c.item)
        BY <2>2 DEF InSource, Key
    <2> QED
        BY <2>2, <2>3
<1>4. ASSUME c.action = "Update"
      PROVE  /\ c.id \in DOMAIN workspace'
             /\ workspace'[c.id].content \in {source[c.item].content, NoDefinition}
    BY <1>2, <1>4 DEF Effect, Redefined, ItemFields
<1>5. ASSUME c.action = "Rename"
      PROVE  /\ c.id \in DOMAIN workspace'
             /\ workspace'[c.id].content \in {source[c.item].content, NoDefinition}
             /\ workspace'[c.id].name = source[c.item].name
    <2>1. /\ c.id \in DOMAIN workspace
          /\ workspace' = [workspace EXCEPT ![c.id].name = source[c.item].name,
                      ![c.id].content = IF @ = NoDefinition THEN @ ELSE source[c.item].content]
        BY <1>5 DEF Effect, Renamed
    <2>2. DOMAIN workspace[c.id] = ItemFields
        BY <1>2, <2>1
    <2>3. c.id \in DOMAIN workspace' /\ workspace'[c.id].name = source[c.item].name
        BY <2>1, <2>2 DEF ItemFields
    <2>4. workspace'[c.id].content \in {source[c.item].content, NoDefinition}
        BY <2>1, <2>2 DEF ItemFields
    <2> QED
        BY <2>3, <2>4
<1>6. ASSUME c.action = "Delete" PROVE c.id \notin DOMAIN workspace'
    BY <1>6 DEF Effect, Removed, Restricted
<1> QED
    BY <1>3, <1>4, <1>5, <1>6, Zenon
LEMMA NamesInit == Init => NamesInv
<1> SUFFICES ASSUME Init PROVE NamesInv
    OBVIOUS
<1>1. workspace \in Workspaces /\ listed = << >> /\ given = DOMAIN workspace
    BY DEF Init
<1>2. WellNamed(workspace)
    BY <1>1, PlanAssumption DEF WellNamed, Key
<1>3. DOMAIN listed = {}
    BY <1>1
<1> QED
    BY <1>1, <1>2, <1>3 DEF NamesInv, WellNamed

\* Other actors name their items under the same rule.
LEMMA OtherEditNames ==
    ASSUME PlanInv, NamesInv, OtherEdit
    PROVE  NamesInv'
<1>1. /\ UNCHANGED listed /\ stage' = stage
      /\ \A d \in DOMAIN workspace : DOMAIN workspace[d] = ItemFields
      /\ \A a, b \in DOMAIN workspace : Key(workspace[a]) = Key(workspace[b]) => a = b
    BY DEF OtherEdit, NamesInv, WellNamed
<1>2. PICK d \in Ids :
        \/ /\ d \in DOMAIN workspace
           /\ workspace' = Restricted(workspace, DOMAIN workspace \ {d})
           /\ UNCHANGED given
        \/ \E e \in Edits :
            /\ d \in DOMAIN workspace
            /\ e.type = workspace[d].type
            /\ \A x \in DOMAIN workspace \ {d} : Key(workspace[x]) # Key(e)
            /\ workspace' = [workspace EXCEPT ![d] = [e EXCEPT !.lid = workspace[d].lid]]
            /\ UNCHANGED given
        \/ \E e \in Edits :
            /\ d \notin given
            /\ NameFree(e.type, e.name)
            /\ given' = given \cup {d}
            /\ workspace' = [x \in DOMAIN workspace \cup {d} |->
                                IF x = d THEN e ELSE workspace[x]]
    BY DEF OtherEdit
<1>3. CASE workspace' = Restricted(workspace, DOMAIN workspace \ {d}) /\ UNCHANGED given
    BY <1>1, <1>3 DEF Restricted, NamesInv, WellNamed
<1>4. ASSUME NEW e \in Edits, d \in DOMAIN workspace, e.type = workspace[d].type,
             \A x \in DOMAIN workspace \ {d} : Key(workspace[x]) # Key(e),
             workspace' = [workspace EXCEPT ![d] = [e EXCEPT !.lid = workspace[d].lid]],
             UNCHANGED given
      PROVE  NamesInv'
    <2>1. DOMAIN e = ItemFields
        BY PlanAssumption
    <2>2. /\ DOMAIN workspace' = DOMAIN workspace
          /\ \A x \in DOMAIN workspace \ {d} : workspace'[x] = workspace[x]
          /\ DOMAIN workspace'[d] = ItemFields
          /\ workspace'[d].type = e.type /\ workspace'[d].name = e.name
        BY <1>4, <2>1 DEF ItemFields
    <2>3. \A x \in DOMAIN workspace \ {d} : Key(workspace'[x]) # Key(workspace'[d])
        BY <1>4, <2>2 DEF Key
    <2>4. WellNamed(workspace')
        BY <1>1, <2>2, <2>3 DEF WellNamed
    <2> QED
        BY <1>1, <1>4, <2>2, <2>4 DEF NamesInv
<1>5. ASSUME NEW e \in Edits, d \notin given, NameFree(e.type, e.name), given' = given \cup {d},
             workspace' = [x \in DOMAIN workspace \cup {d} |-> IF x = d THEN e ELSE workspace[x]]
      PROVE  NamesInv'
    <2>1. DOMAIN e = ItemFields
        BY PlanAssumption
    <2>2. d \notin DOMAIN workspace /\ d \notin DOMAIN listed
        BY <1>5 DEF PlanInv, KnownIds, NamesInv
    <2>3. /\ DOMAIN workspace' = DOMAIN workspace \cup {d}
          /\ \A x \in DOMAIN workspace : workspace'[x] = workspace[x]
          /\ workspace'[d] = e
        BY <1>5, <2>2
    <2>4. \A x \in DOMAIN workspace : Key(workspace'[x]) # Key(workspace'[d])
        BY <1>5, <2>3 DEF NameFree, Key
    <2>5. WellNamed(workspace')
        BY <1>1, <2>1, <2>3, <2>4 DEF WellNamed
    <2> QED
        BY <1>1, <1>5, <2>2, <2>3, <2>5 DEF NamesInv
<1> QED
    BY <1>2, <1>3, <1>4, <1>5

\* What a step of the apply does: a request that may have taken effect, or none.
LEMMA ApplySteps ==
    ASSUME ApplyChange
    PROVE  \E c \in Work \ ended :
            /\ ended' = ended \cup {c}
            /\ failed \subseteq failed'
            /\ \/ Possible(c) /\ (Effect(c) \/ NameOnly(c))
               \/ UNCHANGED <<workspace, given>>
            /\ failed' = {} => Possible(c) /\ Effect(c)
<1>1. PICK c \in Work \ ended :
        /\ ended' = ended \cup {c}
        /\ \/ Possible(c) /\ Effect(c) /\ UNCHANGED failed
           \/ /\ Possible(c) /\ RequestsFail
              /\ failed' = failed \cup {c}
              /\ Effect(c) \/ NameOnly(c) \/ UNCHANGED <<workspace, given>>
           \/ /\ ~ Possible(c)
              /\ failed' = failed \cup {c}
              /\ UNCHANGED <<workspace, given>>
    BY DEF ApplyChange
<1>2. failed' = {} => Possible(c) /\ Effect(c)
    BY <1>1
<1> QED
    BY <1>1, <1>2

LEMMA NamesInductive == NamesInv /\ Inductive /\ [Next]_vars => NamesInv'
<1> SUFFICES ASSUME NamesInv, TypeOK, PlanInv, [Next]_vars PROVE NamesInv'
    BY DEF Inductive
<1>1. CASE ListDeployed
    <2>1. /\ listed' = [d \in InScope(workspace) |-> workspace[d]]
          /\ workspace' = workspace /\ given' = given /\ stage' # "start"
        BY <1>1 DEF ListDeployed, Restricted, external
    <2>2. InScope(workspace) \subseteq DOMAIN workspace /\ DOMAIN workspace \subseteq given
        BY DEF InScope, PlanInv, KnownIds
    <2>3. WellNamed(listed')
        BY <2>1, <2>2 DEF NamesInv, WellNamed
    <2> QED
        BY <2>1, <2>2, <2>3 DEF NamesInv
<1>2. CASE ApplyChange
    <2>1. PICK c \in Work \ ended :
            \/ Possible(c) /\ (Effect(c) \/ NameOnly(c))
            \/ UNCHANGED <<workspace, given>>
        BY <1>2, ApplySteps
    <2>2. UNCHANGED <<source, listed, stage>>
        BY <1>2 DEF ApplyChange
    <2>3. CASE UNCHANGED <<workspace, given>>
        BY <2>2, <2>3 DEF NamesInv
    <2>4. CASE Possible(c) /\ (Effect(c) \/ NameOnly(c))
        <3>1. /\ given \subseteq given'
              /\ \A x \in DOMAIN workspace \ {c.id} : workspace'[x] = workspace[x]
              /\ c.id \in DOMAIN workspace \cap DOMAIN workspace' =>
                    workspace'[c.id].type = workspace[c.id].type
              /\ \A x \in DOMAIN workspace' \ DOMAIN workspace : x \notin given
              /\ WellNamed(workspace')
            BY <2>2, <2>4, Touches
        <3>2. \A d \in DOMAIN listed \cap DOMAIN workspace' : workspace'[d].type = listed[d].type
            BY <3>1 DEF NamesInv
        <3> QED
            BY <2>2, <3>1, <3>2 DEF NamesInv
    <2> QED
        BY <2>1, <2>3, <2>4
<1>3. CASE OtherEdit
    BY <1>3, OtherEditNames
<1>4. CASE MatchNext \/ MatchFails \/ RenameNext \/ FindOrphans \/ CheckFingerprint \/ Finish
           \/ UNCHANGED vars
    <2>1. UNCHANGED <<workspace, listed, given>>
        BY <1>4 DEF MatchNext, MatchFails, RenameNext, FindOrphans, CheckFingerprint, Finish, vars, external
    <2>2. stage' = "start" => stage = "start"
        BY <1>4
            DEF MatchNext, MatchFails, RenameNext, FindOrphans, CheckFingerprint, Finish, vars, Proceed
    <2> QED
        BY <2>1, <2>2 DEF NamesInv
<1> QED
    BY <1>1, <1>2, <1>3, <1>4 DEF Next
-----------------------------------------------------------------------------
(* What the changes are of, whatever other actors do. *)

AsPlanned(c) ==
    /\ c.action \in {"Skip", "Update"} => c.id \in Deployed(c.item)
    /\ c.action = "Delete" => opts.deleteOrphans /\ DeleteAllowed(listed[c.id].type) /\ Planned

\* An item listed under the name of a source item already compared is skipped or
\* updated; the rest of the list is matched by a change of a source item, or
\* orphaned, or protected.  Nothing is applied before or after stage "applying".
ChangesInv ==
    /\ \A c \in changes : AsPlanned(c)
    /\ \A i \in Selected : i < next =>
        \A d \in Deployed(i) : \E c \in changes :
            c.item = i /\ c.id = d /\ c.action \in {"Skip", "Update"}
    /\ \A d \in matched : \E c \in changes : c.id = d /\ c.item # 0
    /\ Planned /\ opts.deleteOrphans =>
        \A d \in DOMAIN listed \ matched :
            Orphan(d) \in changes \/ ~ DeleteAllowed(listed[d].type)
    /\ stage \notin {"applying", "done"} => ended = {}
    /\ stage = "done" => ended = Work
    /\ stage = "in_sync" => Work = {}

LEMMA ChangesInit == Init => ChangesInv
<1> SUFFICES ASSUME Init PROVE ChangesInv
    OBVIOUS
<1>1. \A i \in Selected : ~ (i < next)
    BY SourceShape DEF Init
<1> QED
    BY <1>1 DEF Init, ChangesInv, Planned

\* A pass over the source adds one change, and matches what it goes to.
LEMMA PassGrows ==
    ASSUME ChangesInv, stage = "matching", stage' = "matching",
           UNCHANGED <<source, opts, listed, ended>>, NEW n,
           changes' = changes \cup {n}, n.item # 0,
           n.action \in {"Skip", "Update"} => n.id \in Deployed(n.item),
           n.action # "Delete",
           \A d \in matched' : d \in matched \/ d = n.id,
           \A i \in Selected : i < next' =>
               i < next \/ \A d \in Deployed(i) :
                               n.item = i /\ n.id = d /\ n.action \in {"Skip", "Update"}
    PROVE  ChangesInv'
<1>1. /\ \A i : Deployed(i)' = Deployed(i)
      /\ Selected' = Selected /\ ~ Planned'
    BY DEF Deployed, Key, Selected, Planned
<1>2. \A c \in changes' : AsPlanned(c)'
    <2> SUFFICES ASSUME NEW c \in changes' PROVE AsPlanned(c)'
        OBVIOUS
    <2>1. CASE c \in changes
        <3>1. AsPlanned(c) /\ ~ Planned
            BY <2>1 DEF ChangesInv, Planned
        <3> QED
            BY <1>1, <3>1 DEF AsPlanned
    <2>2. CASE c = n
        BY <1>1, <2>2 DEF AsPlanned
    <2> QED
        BY <2>1, <2>2
<1>3. ASSUME NEW i \in Selected, i < next', NEW d \in Deployed(i)
      PROVE  \E c \in changes' : c.item = i /\ c.id = d /\ c.action \in {"Skip", "Update"}
    BY <1>3 DEF ChangesInv
<1>4. \A d \in matched' : \E c \in changes' : c.id = d /\ c.item # 0
    BY DEF ChangesInv
<1> QED
    BY <1>1, <1>2, <1>3, <1>4 DEF ChangesInv

LEMMA MatchNextChanges ==
    ASSUME ChangesInv, NamesInv, TypeOK, PlanInv, MatchNext
    PROVE  ChangesInv'
<1>1. /\ stage = "matching" /\ stage' = "matching" /\ next' = next + 1
      /\ UNCHANGED <<source, opts, listed, ended>>
      /\ next \in Nat \ {0} /\ next <= Len(source)
    BY DEF MatchNext, PlanInv, FirstPass
<1>2. \A i \in Selected : i < next' => i < next \/ i = next
    BY <1>1, SourceShape DEF PlanInv
<1>3. /\ \A i : Deployed(i)' = Deployed(i)
      /\ Selected' = Selected /\ ~ Planned' /\ ~ Planned
    BY <1>1 DEF Deployed, Key, Selected, Planned
<1>4. ASSUME UNCHANGED <<matched, changes>>, next \in Selected => Deployed(next) = {}
      PROVE  ChangesInv'
    <2>1. \A c \in changes : AsPlanned(c)'
        BY <1>1, <1>3 DEF ChangesInv, AsPlanned
    <2>2. ASSUME NEW i \in Selected, i < next', NEW d \in Deployed(i)
          PROVE  \E c \in changes : c.item = i /\ c.id = d /\ c.action \in {"Skip", "Update"}
        <3>1. i < next
            BY <1>2, <1>4, <2>2
        <3> QED
            BY <3>1 DEF ChangesInv
    <2> QED
        BY <1>1, <1>3, <1>4, <2>1, <2>2 DEF ChangesInv
<1>5. ASSUME next \in Selected, NEW d \in Deployed(next), NEW a \in {"Skip", "Update"},
             matched' = matched \cup {d}, changes' = changes \cup {Change(next, a, d)}
      PROVE  ChangesInv'
    <2> DEFINE n == Change(next, a, d)
    <2>1. n.item = next /\ n.id = d /\ n.action = a
        BY ChangeParts
    <2>2. \A e \in Deployed(next) : e = d
        BY DEF Deployed, NamesInv, WellNamed
    <2>3. \A i \in Selected : i < next' =>
               i < next \/ \A e \in Deployed(i) :
                               n.item = i /\ n.id = e /\ n.action \in {"Skip", "Update"}
        BY <1>2, <2>1, <2>2
    <2>4. n.item # 0 /\ n.action # "Delete" /\ n.id \in Deployed(n.item)
        BY <1>1, <2>1
    <2>5. \A e \in matched' : e \in matched \/ e = n.id
        BY <1>5, <2>1
    <2> HIDE DEF n
    <2>6. changes' = changes \cup {n}
        BY <1>5 DEF n
    <2> QED
        BY <1>1, <2>3, <2>4, <2>5, <2>6, PassGrows
<1>6. CASE /\ next \in Selected
           /\ \E d \in Deployed(next) :
                /\ matched' = matched \cup {d}
                /\ changes' = changes \cup
                      {Change(next, IF ~ opts.forceAll /\ Unchanged(next, d)
                                    THEN "Skip" ELSE "Update", d)}
    BY <1>5, <1>6
<1> QED
    BY <1>4, <1>6 DEF MatchNext

LEMMA RenameNextChanges ==
    ASSUME ChangesInv, TypeOK, PlanInv, RenameNext
    PROVE  ChangesInv'
<1>1. /\ stage = "matching" /\ stage' = "matching" /\ next' = next
      /\ UNCHANGED <<source, opts, listed, ended>>
      /\ Head(unmatched) \in Selected
    BY TailFacts DEF RenameNext, PlanInv
<1>2. Head(unmatched) # 0
    BY <1>1, SourceShape DEF PlanInv
<1>3. ASSUME NEW a \in {"Rename", "Create"}, NEW d,
             changes' = changes \cup {Change(Head(unmatched), a, d)},
             \A e \in matched' : e \in matched \/ e = d
      PROVE  ChangesInv'
    <2> DEFINE n == Change(Head(unmatched), a, d)
    <2>1. n.item # 0 /\ n.id = d /\ n.action = a
        BY <1>2, ChangeParts
    <2>2. /\ changes' = changes \cup {n} /\ n.action # "Delete"
          /\ n.action \in {"Skip", "Update"} => n.id \in Deployed(n.item)
          /\ \A e \in matched' : e \in matched \/ e = n.id
        BY <1>3, <2>1
    <2> HIDE DEF n
    <2> QED
        BY <1>1, <2>1, <2>2, PassGrows
<1>4. CASE \E d \in Holders(Head(unmatched)) :
            /\ matched' = matched \cup {d}
            /\ changes' = changes \cup {Change(Head(unmatched), "Rename", d)}
    BY <1>3, <1>4
<1>5. CASE changes' = changes \cup {Change(Head(unmatched), "Create", NoId)} /\ UNCHANGED matched
    BY <1>3, <1>5
<1> QED
    BY <1>4, <1>5 DEF RenameNext

LEMMA FindOrphansChanges ==
    ASSUME ChangesInv, TypeOK, PlanInv, FindOrphans
    PROVE  ChangesInv'
<1> DEFINE X == {x \in DOMAIN listed \ matched :
                    opts.deleteOrphans /\ DeleteAllowed(listed[x].type)}
<1>1. /\ stage = "matching" /\ next' = next /\ matched' = matched
      /\ UNCHANGED <<source, opts, listed, ended>>
      /\ changes' = changes \cup {Orphan(d) : d \in X}
      /\ stage' = IF opts.saved THEN "saved" ELSE Proceed(changes')
    BY DEF FindOrphans
<1>2. /\ \A i : Deployed(i)' = Deployed(i)
      /\ \A t : DeleteAllowed(t)' <=> DeleteAllowed(t)
      /\ Selected' = Selected /\ ~ Planned
      /\ ended = {}
    BY <1>1 DEF Deployed, Key, Selected, DeleteAllowed, Planned, ChangesInv
<1>3. stage' \in {"saved", "applying", "in_sync"} /\ Planned'
    BY <1>1 DEF Proceed, Planned
<1>4. stage' = "in_sync" => Work' = {}
    BY <1>1 DEF Proceed, Work
<1>5. \A c \in changes' : AsPlanned(c)'
    <2> SUFFICES ASSUME NEW c \in changes' PROVE AsPlanned(c)'
        OBVIOUS
    <2>1. CASE c \in changes
        <3>1. AsPlanned(c)
            BY <2>1 DEF ChangesInv
        <3> QED
            BY <1>1, <1>2, <1>3, <3>1 DEF AsPlanned
    <2>2. ASSUME NEW d \in X, c = Orphan(d) PROVE AsPlanned(c)'
        <3>1. c.id = d /\ c.action = "Delete"
            BY <2>2, ChangeParts DEF Orphan
        <3>2. opts.deleteOrphans /\ DeleteAllowed(listed[d].type)
            OBVIOUS
        <3> QED
            BY <1>1, <1>3, <3>1, <3>2 DEF AsPlanned, DeleteAllowed
    <2> QED
        BY <1>1, <2>1, <2>2
<1>6. changes \subseteq changes' /\ \A d \in X : Orphan(d) \in changes'
    BY <1>1
<1>7. \A d \in DOMAIN listed \ matched :
        opts.deleteOrphans => Orphan(d) \in changes' \/ ~ DeleteAllowed(listed[d].type)
    BY <1>6
<1>8. ASSUME NEW i \in Selected, i < next, NEW d \in Deployed(i)
      PROVE  \E c \in changes' : c.item = i /\ c.id = d /\ c.action \in {"Skip", "Update"}
    BY <1>6, <1>8 DEF ChangesInv
<1>9. \A d \in matched : \E c \in changes' : c.id = d /\ c.item # 0
    BY <1>6 DEF ChangesInv
<1>10. (\A d \in DOMAIN listed \ matched : opts.deleteOrphans =>
            Orphan(d) \in changes \/ ~ DeleteAllowed(listed[d].type))'
    BY <1>1, <1>7 DEF DeleteAllowed
<1> QED
    BY <1>1, <1>2, <1>3, <1>4, <1>5, <1>8, <1>9, <1>10 DEF ChangesInv

LEMMA ChangesInductive == ChangesInv /\ NamesInv /\ Inductive /\ [Next]_vars => ChangesInv'
<1> SUFFICES ASSUME ChangesInv, NamesInv, TypeOK, PlanInv, [Next]_vars PROVE ChangesInv'
    BY DEF Inductive
<1>1. CASE ListDeployed
    <2>1. /\ changes' = {} /\ matched' = {} /\ unmatched = << >> /\ changes = {}
          /\ stage = "start" /\ stage' = "matching" /\ ended' = ended /\ next' = next
          /\ Selected' = Selected
        BY <1>1 DEF ListDeployed, PlanInv, Stages, Selected
    <2>2. \A i \in Selected : ~ (i < next)
        BY <2>1 DEF PlanInv, FirstPass, HasChange, Pending
    <2> QED
        BY <2>1, <2>2 DEF ChangesInv, Planned
<1>2. CASE MatchNext
    BY <1>2, MatchNextChanges
<1>3. CASE RenameNext
    BY <1>3, RenameNextChanges
<1>4. CASE FindOrphans
    BY <1>4, FindOrphansChanges
<1>5. CASE MatchFails \/ CheckFingerprint \/ ApplyChange \/ Finish \/ OtherEdit \/ UNCHANGED vars
    <2>1. UNCHANGED planVars
        BY <1>5 DEF MatchFails, CheckFingerprint, ApplyChange, Finish, OtherEdit, vars, planVars, external
    <2>2. /\ \A i : Deployed(i)' = Deployed(i)
          /\ \A t : DeleteAllowed(t)' <=> DeleteAllowed(t)
          /\ Selected' = Selected /\ Work' = Work
        BY <2>1 DEF planVars, Deployed, Key, Selected, DeleteAllowed, Work
    <2>3. (Planned => Planned') /\ (Planned' => Planned)
        BY <1>5 DEF MatchFails, CheckFingerprint, Proceed, ApplyChange, Finish, OtherEdit, vars, Planned
    <2>4. \A c \in changes' : AsPlanned(c)'
        BY <2>1, <2>2, <2>3 DEF ChangesInv, AsPlanned, planVars
    <2>5. /\ stage' \notin {"applying", "done"} => ended' = {}
          /\ stage' = "done" => ended' = Work
        BY <1>5
            DEF MatchFails, CheckFingerprint, Proceed, ApplyChange, Finish, OtherEdit, vars, ChangesInv
    <2>6. stage' = "in_sync" => Work = {}
        BY <1>5
            DEF MatchFails, CheckFingerprint, Proceed, Work, ApplyChange, Finish, OtherEdit, vars, ChangesInv
    <2>7. (Planned /\ opts.deleteOrphans => \A d \in DOMAIN listed \ matched :
                Orphan(d) \in changes \/ ~ DeleteAllowed(listed[d].type))'
        BY <2>1, <2>3 DEF ChangesInv, planVars, DeleteAllowed
    <2>8. /\ \A i \in Selected' : i < next' =>
                \A d \in Deployed(i)' : \E c \in changes' :
                    c.item = i /\ c.id = d /\ c.action \in {"Skip", "Update"}
          /\ \A d \in matched' : \E c \in changes' : c.id = d /\ c.item # 0
        BY <2>1, <2>2 DEF ChangesInv, planVars
    <2> QED
        BY <2>2, <2>4, <2>5, <2>6, <2>7, <2>8 DEF ChangesInv
<1> QED
    BY <1>1, <1>2, <1>3, <1>4, <1>5 DEF Next
-----------------------------------------------------------------------------
(* Nobody interferes. *)

\* What a change is for has come true.
Achieved(c) ==
    /\ c.action = "Create" =>
        \E d \in DOMAIN workspace \ DOMAIN listed : InSource(workspace[d], c.item)
    /\ c.action = "Delete" => c.id \notin DOMAIN workspace
    /\ c.action \in {"Skip", "Update", "Rename"} =>
        c.id \in DOMAIN workspace /\ InSource(workspace[c.id], c.item)

\* A listed item goes by a delete and takes another name by a rename, and an item
\* in scope that was not listed has the name of a source item.
OnlyChanged ==
    /\ stage = "matching" => listed = Restricted(workspace, InScope(workspace))
    /\ \A d \in DOMAIN listed \ DOMAIN workspace :
            \E c \in ended : c.id = d /\ c.action = "Delete"
    /\ \A d \in DOMAIN listed \cap DOMAIN workspace :
            \/ Key(workspace[d]) = Key(listed[d])
            \/ \E c \in ended : c.id = d /\ c.action = "Rename"
    /\ stage # "start" =>
        \A d \in DOMAIN workspace \ DOMAIN listed :
            \/ workspace[d].type \notin opts.scope
            \/ \E i \in Selected : Key(workspace[d]) = Key(source[i])

\* Without a failure, what is skipped is in sync and what has ended is achieved.
AllAchieved ==
    failed = {} => \A c \in changes : c.action = "Skip" \/ c \in ended => Achieved(c)

QuietInv == edits = 0 => OnlyChanged /\ AllAchieved

\* A step of planning that leaves the workspace and the list alone.
LEMMA QuietPlanning ==
    ASSUME OnlyChanged, AllAchieved, UNCHANGED <<source, opts, listed, ended, failed, workspace>>,
           stage # "start", stage' = "matching" => stage = "matching",
           \A c \in changes' \ changes :
                c \notin ended /\ (c.action = "Skip" => Achieved(c))
    PROVE  OnlyChanged' /\ AllAchieved'
<1>1. \A c : Achieved(c)' <=> Achieved(c)
    BY DEF Achieved, InSource, Key
<1>2. AllAchieved'
    BY <1>1 DEF AllAchieved
<1>3. Selected' = Selected
    BY DEF Selected
<1>4. OnlyChanged'
    BY <1>3 DEF OnlyChanged, Restricted, InScope, Key
<1> QED
    BY <1>2, <1>4

LEMMA QuietInit == Init => QuietInv
<1> SUFFICES ASSUME Init PROVE OnlyChanged /\ AllAchieved
    BY DEF QuietInv
<1>1. DOMAIN listed = {}
    BY DEF Init
<1> QED
    BY <1>1 DEF Init, OnlyChanged, AllAchieved

LEMMA QuietApply ==
    ASSUME OnlyChanged, AllAchieved, ChangesInv, NamesInv, TypeOK, PlanInv, ApplyChange
    PROVE  OnlyChanged' /\ AllAchieved'
<1>1. PICK c \in Work \ ended :
        /\ ended' = ended \cup {c}
        /\ failed \subseteq failed'
        /\ \/ Possible(c) /\ (Effect(c) \/ NameOnly(c))
           \/ UNCHANGED <<workspace, given>>
        /\ failed' = {} => Possible(c) /\ Effect(c)
    BY ApplySteps
<1>2. /\ UNCHANGED <<source, opts, listed, changes>> /\ stage = "applying" /\ stage' = stage
      /\ Selected' = Selected
      /\ c \in changes /\ c.action # "Skip"
      /\ ended \subseteq changes
    BY DEF ApplyChange, Selected, Work, TypeOK
<1>3. /\ \A x \in DOMAIN workspace \ {c.id} :
            x \in DOMAIN workspace' /\ workspace'[x] = workspace[x]
      /\ c.id \in DOMAIN workspace \ DOMAIN workspace' => c.action = "Delete"
      /\ c.id \in DOMAIN workspace \cap DOMAIN workspace' =>
            /\ workspace'[c.id].type = workspace[c.id].type
            /\ c.action # "Rename" => Key(workspace'[c.id]) = Key(workspace[c.id])
      /\ \A x \in DOMAIN workspace' \ DOMAIN workspace :
            c.action = "Create" /\ x \notin given /\ Key(workspace'[x]) = Key(source[c.item])
    <2>1. CASE UNCHANGED <<workspace, given>>
        BY <2>1
    <2>2. CASE Possible(c) /\ (Effect(c) \/ NameOnly(c))
        BY <1>2, <2>2, Touches
    <2> QED
        BY <1>1, <2>1, <2>2
<1>4. /\ DOMAIN listed \subseteq given /\ DOMAIN workspace \subseteq given
      /\ c.action = "Create" => c.item \in Selected
      /\ c.action # "Delete" => c.item # 0
      /\ c.id \notin DOMAIN listed => c.id \notin DOMAIN workspace
    BY <1>2, PlanAssumption DEF NamesInv, PlanInv, KnownIds, TypeOK, ChangeOK
<1>5. \A o \in changes : o.id = c.id /\ o.id \in DOMAIN listed => o = c
    BY <1>2, PlanAssumption DEF PlanInv, Unique, Clash, KnownIds
<1>6. OnlyChanged'
    <2>1. \A d \in DOMAIN listed \ DOMAIN workspace' :
            \E o \in ended' : o.id = d /\ o.action = "Delete"
        BY <1>1, <1>3 DEF OnlyChanged
    <2>2. ASSUME NEW d \in DOMAIN listed \cap DOMAIN workspace'
          PROVE  \/ Key(workspace'[d]) = Key(listed[d])
                 \/ \E o \in ended' : o.id = d /\ o.action = "Rename"
        <3>1. d \in DOMAIN workspace
            BY <1>3, <1>4
        <3>2. CASE d = c.id /\ c.action = "Rename"
            BY <1>1, <3>2
        <3>3. CASE ~ (d = c.id /\ c.action = "Rename")
            <4>1. Key(workspace'[d]) = Key(workspace[d])
                BY <1>3, <3>1, <3>3
            <4> QED
                BY <1>1, <3>1, <4>1 DEF OnlyChanged
        <3> QED
            BY <3>2, <3>3
    <2>3. ASSUME NEW d \in DOMAIN workspace' \ DOMAIN listed
          PROVE  \/ workspace'[d].type \notin opts.scope
                 \/ \E i \in Selected : Key(workspace'[d]) = Key(source[i])
        <3>1. CASE d \in DOMAIN workspace
            <4>1. d # c.id
                BY <1>4, <3>1
            <4>2. workspace'[d] = workspace[d]
                BY <1>3, <3>1, <4>1
            <4> QED
                BY <1>2, <3>1, <4>2 DEF OnlyChanged
        <3>2. CASE d \notin DOMAIN workspace
            BY <1>3, <1>4, <3>2
        <3> QED
            BY <3>1, <3>2
    <2>4. (\A d \in DOMAIN workspace \ DOMAIN listed :
              \/ workspace[d].type \notin opts.scope
              \/ \E i \in Selected : Key(workspace[d]) = Key(source[i]))'
        BY <1>2, <2>3 DEF Key
    <2>5. (\A d \in DOMAIN listed \cap DOMAIN workspace :
              \/ Key(workspace[d]) = Key(listed[d])
              \/ \E o \in ended : o.id = d /\ o.action = "Rename")'
        BY <1>2, <2>2 DEF Key
    <2> QED
        BY <1>2, <2>1, <2>4, <2>5 DEF OnlyChanged
<1>7. AllAchieved'
    <2> SUFFICES ASSUME failed' = {}, NEW o \in changes, o.action = "Skip" \/ o \in ended'
                 PROVE  Achieved(o)'
        BY <1>2 DEF AllAchieved
    <2>1. failed = {}
        BY <1>1
    <2>2. CASE o # c
        <3>1. Achieved(o) /\ (o.action # "Create" => o.id \in DOMAIN listed)
            BY <1>1, <2>1, <2>2, ChangeFields DEF AllAchieved
        <3>2. ASSUME o.action = "Create"
              PROVE  \E d \in DOMAIN workspace' \ DOMAIN listed : InSource(workspace'[d], o.item)
            <4>1. PICK d \in DOMAIN workspace \ DOMAIN listed : InSource(workspace[d], o.item)
                BY <3>1, <3>2 DEF Achieved
            <4>2. d # c.id
                BY <1>4
            <4>3. d \in DOMAIN workspace' /\ workspace'[d] = workspace[d]
                BY <1>3, <4>2
            <4> QED
                BY <4>1, <4>3
        <3>3. ASSUME o.action = "Delete" PROVE o.id \notin DOMAIN workspace'
            <4>1. o.id \in given /\ o.id \notin DOMAIN workspace
                BY <1>4, <3>1, <3>3 DEF Achieved
            <4> QED
                BY <1>3, <4>1
        <3>4. ASSUME o.action \in {"Skip", "Update", "Rename"}
              PROVE  o.id \in DOMAIN workspace' /\ InSource(workspace'[o.id], o.item)
            <4>1. o.id \in DOMAIN workspace /\ InSource(workspace[o.id], o.item) /\ o.id \in DOMAIN listed
                BY <3>1, <3>4 DEF Achieved
            <4>2. o.id # c.id
                BY <1>5, <2>2, <4>1
            <4>3. o.id \in DOMAIN workspace' /\ workspace'[o.id] = workspace[o.id]
                BY <1>3, <4>1, <4>2
            <4> QED
                BY <4>1, <4>3
        <3> QED
            BY <1>2, <3>2, <3>3, <3>4 DEF Achieved, InSource, Key
    <2>3. CASE o = c
        <3>1. Effect(c)
            BY <1>1
        <3>2. /\ c.action = "Create" =>
                    \E d \in DOMAIN workspace' \ given : InSource(workspace'[d], c.item)
              /\ c.action \in {"Update", "Rename"} =>
                    /\ c.id \in DOMAIN workspace'
                    /\ workspace'[c.id].content \in {source[c.item].content, NoDefinition}
              /\ c.action = "Rename" => workspace'[c.id].name = source[c.item].name
              /\ c.action = "Delete" => c.id \notin DOMAIN workspace'
            BY <3>1, Achieves
        <3>3. ASSUME c.action \in {"Update", "Rename"} PROVE InSource(workspace'[c.id], c.item)
            <4>1. c.id \in DOMAIN listed /\ listed[c.id].type = source[c.item].type
                BY <1>2, <3>3, ChangeFields
            <4>2. c.id \in DOMAIN workspace'
                BY <3>2, <3>3
            <4>3. c.id \in DOMAIN workspace
                BY <1>3, <1>4, <4>1, <4>2
            <4>4. CASE c.action = "Rename"
                <5>1. workspace'[c.id].type = source[c.item].type
                    BY <1>3, <4>1, <4>2, <4>3 DEF NamesInv
                <5> QED
                    BY <3>2, <4>4, <5>1 DEF InSource, Key
            <4>5. CASE c.action = "Update"
                <5>1. Key(workspace[c.id]) = Key(listed[c.id])
                    BY <1>1, <1>2, <1>5, <4>1, <4>3 DEF OnlyChanged
                <5>2. Key(listed[c.id]) = Key(source[c.item])
                    BY <1>2, <4>5 DEF ChangesInv, AsPlanned, Deployed
                <5>3. Key(workspace'[c.id]) = Key(source[c.item])
                    BY <1>3, <4>2, <4>3, <4>5, <5>1, <5>2
                <5> QED
                    BY <3>2, <4>5, <5>3 DEF InSource
            <4> QED
                BY <3>3, <4>4, <4>5
        <3>4. c.action = "Create" =>
                \E d \in DOMAIN workspace' \ DOMAIN listed : InSource(workspace'[d], c.item)
            BY <1>4, <3>2
        <3> QED
            BY <1>2, <2>3, <3>2, <3>3, <3>4 DEF Achieved, InSource, Key
    <2> QED
        BY <2>2, <2>3
<1> QED
    BY <1>6, <1>7

LEMMA QuietMatchNext ==
    ASSUME OnlyChanged, AllAchieved, ChangesInv, TypeOK, PlanInv, MatchNext
    PROVE  OnlyChanged' /\ AllAchieved'
<1>1. /\ stage = "matching" /\ UNCHANGED <<source, opts, listed, stage, ended, failed, workspace>>
      /\ ended = {}
    BY DEF MatchNext, external, ChangesInv
<1>2. ASSUME NEW c \in changes' \ changes, c.action = "Skip" PROVE Achieved(c)
    <2>1. PICK d \in Deployed(next) :
            c = Change(next, IF ~ opts.forceAll /\ Unchanged(next, d) THEN "Skip" ELSE "Update", d)
        BY DEF MatchNext
    <2>2. c.item = next /\ c.id = d /\ Unchanged(next, d)
        BY <1>2, <2>1, ChangeParts
    <2>3. listed = [x \in InScope(workspace) |-> workspace[x]]
        BY <1>1 DEF OnlyChanged, Restricted
    <2>4. d \in InScope(workspace) /\ Key(listed[d]) = Key(source[next])
        BY <2>3 DEF Deployed
    <2>5. d \in DOMAIN workspace /\ listed[d] = workspace[d]
        BY <2>3, <2>4 DEF InScope
    <2>6. InSource(workspace[d], next)
        BY <2>2, <2>4, <2>5 DEF InSource, Unchanged
    <2> QED
        BY <1>2, <2>2, <2>5, <2>6 DEF Achieved
<1> QED
    BY <1>1, <1>2, QuietPlanning

LEMMA QuietInductive == QuietInv /\ ChangesInv /\ NamesInv /\ Inductive /\ [Next]_vars => QuietInv'
<1> SUFFICES ASSUME QuietInv, ChangesInv, NamesInv, TypeOK, PlanInv, [Next]_vars, edits' = 0
             PROVE  OnlyChanged' /\ AllAchieved'
    BY DEF Inductive, QuietInv
<1>1. ~ OtherEdit
    <2>1. edits \in Nat
        BY PlanAssumption DEF TypeOK
    <2> QED
        BY <2>1 DEF OtherEdit
<1>2. OnlyChanged /\ AllAchieved
    BY <1>1 DEF QuietInv, Next, ListDeployed, MatchNext, MatchFails, RenameNext, FindOrphans,
                CheckFingerprint, ApplyChange, Finish, vars, external
<1>3. CASE ListDeployed
    <2>1. /\ listed' = [d \in InScope(workspace) |-> workspace[d]]
          /\ UNCHANGED <<workspace, source, opts>> /\ stage = "start"
          /\ changes' = {} /\ Selected' = Selected
        BY <1>3 DEF ListDeployed, Restricted, external, PlanInv, Stages, Selected
    <2>2. /\ DOMAIN listed' = InScope(workspace) /\ InScope(workspace) \subseteq DOMAIN workspace
          /\ \A d \in DOMAIN listed' : listed'[d] = workspace[d]
        BY <2>1 DEF InScope
    <2>3. \A d \in DOMAIN workspace \ DOMAIN listed' : workspace[d].type \notin opts.scope
        BY <2>2 DEF InScope
    <2>4. InScope(workspace)' = InScope(workspace)
        BY <2>1 DEF InScope
    <2>5. OnlyChanged'
        BY <2>1, <2>2, <2>3, <2>4 DEF OnlyChanged, Restricted
    <2> QED
        BY <2>1, <2>5 DEF AllAchieved
<1>4. CASE MatchNext
    BY <1>2, <1>4, QuietMatchNext
<1>5. CASE RenameNext
    <2>1. \A c \in changes' \ changes : c.action # "Skip"
        BY <1>5, ChangeParts DEF RenameNext
    <2>2. ended = {}
        BY <1>5 DEF RenameNext, ChangesInv
    <2> QED
        BY <1>2, <1>5, <2>1, <2>2, QuietPlanning DEF RenameNext, external
<1>6. CASE FindOrphans
    <2>1. \A c \in changes' \ changes : c.action # "Skip"
        BY <1>6, ChangeParts DEF FindOrphans, Orphan
    <2>2. ended = {}
        BY <1>6 DEF FindOrphans, ChangesInv
    <2>3. stage' # "matching" /\ stage # "start" /\ UNCHANGED <<source, opts, listed, ended, failed, workspace>>
        BY <1>6 DEF FindOrphans, Proceed, external
    <2> QED
        BY <1>2, <2>1, <2>2, <2>3, QuietPlanning
<1>7. CASE ApplyChange
    BY <1>2, <1>7, QuietApply
<1>8. CASE MatchFails \/ CheckFingerprint \/ Finish
    <2>1. /\ stage # "start" /\ stage' # "matching"
          /\ UNCHANGED <<source, opts, listed, ended, failed, workspace, changes>>
        BY <1>8 DEF MatchFails, CheckFingerprint, Finish, Proceed, external
    <2> QED
        BY <1>2, <2>1, QuietPlanning
<1>9. CASE UNCHANGED vars
    BY <1>2, <1>9
        DEF vars, OnlyChanged, AllAchieved, Achieved, InSource, Key, Selected, Restricted, InScope
<1> QED
    BY <1>1, <1>3, <1>4, <1>5, <1>6, <1>7, <1>8, <1>9 DEF Next

\* The invariants together.
Undisturbed == Inductive /\ NamesInv /\ ChangesInv /\ QuietInv

THEOREM AlwaysUndisturbed == Spec => []Undisturbed
<1>1. Init => Undisturbed
    BY PlanInit, InitTypes, NamesInit, ChangesInit, QuietInit DEF Inductive, Undisturbed
<1>2. Undisturbed /\ [Next]_vars => Undisturbed'
    BY StepInductive, NamesInductive, ChangesInductive, QuietInductive DEF Undisturbed
<1> QED
    BY <1>1, <1>2, PTL DEF Spec
\* An item deployed under the name of a source item keeps its ID and its name, for
\* all sources and workspaces, also when requests fail: build_changeset gives it
\* no change but an update, and no other item takes its name.
THEOREM NamesakesKept == Spec => []NamesakesStay
<1>1. Undisturbed => NamesakesStay
    <2> SUFFICES ASSUME ChangesInv, OnlyChanged, NamesInv, PlanInv, TypeOK, Planned,
                        NEW i \in Selected, NEW d \in Deployed(i)
                 PROVE  d \in DOMAIN workspace /\ Key(workspace[d]) = Key(source[i])
        BY DEF Undisturbed, Inductive, QuietInv, NamesakesStay
    <2>1. i < next
        BY SourceShape DEF PlanInv, Stages, FirstPass
    <2>2. PICK c \in changes : c.id = d /\ c.action \in {"Skip", "Update"}
        BY <2>1 DEF ChangesInv
    <2>3. d \in DOMAIN listed /\ Key(listed[d]) = Key(source[i]) /\ d # NoId
        BY PlanAssumption DEF Deployed, PlanInv, KnownIds
    <2>4. \A o \in ended : o.id = d => o.action \in {"Skip", "Update"}
        <3>1. ended \subseteq changes
            BY DEF TypeOK, Work
        <3> QED
            BY <2>2, <2>3, <3>1 DEF PlanInv, Unique, Clash
    <2>5. d \in DOMAIN workspace
        BY <2>3, <2>4 DEF OnlyChanged
    <2>6. Key(workspace[d]) = Key(listed[d])
        BY <2>3, <2>4, <2>5 DEF OnlyChanged
    <2> QED
        BY <2>3, <2>5, <2>6
<1> QED
    BY <1>1, AlwaysUndisturbed, PTL

\* Nothing goes from the workspace but by --delete-orphans, and never what a
\* source item matched or was renamed to, nor a protected type that is not allowed.
THEOREM OnlyOrphansGo == Spec => []OnlyOrphansRemoved
<1>1. Undisturbed => OnlyOrphansRemoved
    <2> SUFFICES ASSUME ChangesInv, OnlyChanged, NamesInv, PlanInv, TypeOK,
                        NEW d \in DOMAIN listed \ DOMAIN workspace
                 PROVE  /\ opts.deleteOrphans
                        /\ DeleteAllowed(listed[d].type)
                        /\ \A i \in Selected : Key(listed[d]) # Key(source[i])
                        /\ \A c \in changes : c.id = d => c.action = "Delete"
        BY DEF Undisturbed, Inductive, QuietInv, OnlyOrphansRemoved
    <2>1. PICK c \in changes : c.id = d /\ c.action = "Delete"
        BY DEF OnlyChanged, TypeOK, Work
    <2>2. opts.deleteOrphans /\ DeleteAllowed(listed[d].type) /\ Planned
        BY <2>1 DEF ChangesInv, AsPlanned
    <2>3. d # NoId
        BY PlanAssumption DEF PlanInv, KnownIds
    <2>4. \A o \in changes : o.id = d => o = c
        BY <2>1, <2>3 DEF PlanInv, Unique, Clash
    <2>5. ASSUME NEW i \in Selected, Key(listed[d]) = Key(source[i]) PROVE FALSE
        <3>1. i < next
            BY <2>2, SourceShape DEF PlanInv, Stages, FirstPass
        <3>2. d \in Deployed(i)
            BY <2>5 DEF Deployed
        <3>3. PICK o \in changes : o.id = d /\ o.action \in {"Skip", "Update"}
            BY <3>1, <3>2 DEF ChangesInv
        <3> QED
            BY <2>1, <2>4, <3>3
    <2> QED
        BY <2>1, <2>2, <2>4, <2>5
<1> QED
    BY <1>1, AlwaysUndisturbed, PTL

\* A command that ends without failures, and without interference, has brought
\* the workspace to the source, for all sources, workspaces and options: a second
\* plan has nothing to create, rename or delete.
THEOREM DeployConverges == Spec => []Converges
<1>1. Undisturbed => Converges
    <2> SUFFICES ASSUME ChangesInv, OnlyChanged, AllAchieved, NamesInv, PlanInv, TypeOK,
                        stage \in {"done", "in_sync"}, failed = {}
                 PROVE  /\ \A i \in Selected : \E d \in DOMAIN workspace : InSource(workspace[d], i)
                        /\ opts.deleteOrphans =>
                            \A d \in InScope(workspace) :
                                \/ \E i \in Selected : Key(workspace[d]) = Key(source[i])
                                \/ ~ DeleteAllowed(workspace[d].type)
        BY DEF Undisturbed, Inductive, QuietInv, Converges
    <2>1. Planned
        BY DEF Planned
    <2>2. \A c \in changes : Achieved(c)
        BY DEF ChangesInv, AllAchieved, Work
    <2>3. \A c \in changes : c.item # 0 =>
            /\ c.action # "Delete" /\ c.action \in Actions /\ c.item \in Selected
        BY DEF TypeOK, ChangeOK
    <2>4. ASSUME NEW i \in Selected
          PROVE  \E d \in DOMAIN workspace : InSource(workspace[d], i)
        <3>1. i < next /\ ~ Pending(i) /\ i # 0
            BY <2>1, SourceShape DEF PlanInv, Stages, FirstPass, Pending
        <3>2. PICK c \in changes : c.item = i
            BY <3>1 DEF PlanInv, FirstPass, HasChange
        <3>3. Achieved(c) /\ c.action \in {"Create", "Update", "Rename", "Skip"}
            BY <2>2, <2>3, <3>1, <3>2 DEF Actions
        <3> QED
            BY <3>2, <3>3 DEF Achieved
    <2>5. ASSUME opts.deleteOrphans, NEW d \in InScope(workspace)
          PROVE  \/ \E i \in Selected : Key(workspace[d]) = Key(source[i])
                 \/ ~ DeleteAllowed(workspace[d].type)
        <3>0. d \in DOMAIN workspace /\ workspace[d].type \in opts.scope
            BY DEF InScope
        <3>1. CASE d \notin DOMAIN listed
            BY <3>0, <3>1 DEF OnlyChanged
        <3>2. CASE d \in matched
            <4>1. PICK c \in changes : c.id = d /\ c.item # 0
                BY <3>2 DEF ChangesInv
            <4>2. c.action # "Create"
                BY <3>2, <4>1, PlanAssumption DEF TypeOK, ChangeOK, PlanInv, KnownIds
            <4>3. InSource(workspace[d], c.item) /\ c.item \in Selected
                BY <2>2, <2>3, <4>1, <4>2 DEF Achieved, Actions
            <4> QED
                BY <4>3 DEF InSource
        <3>3. CASE d \in DOMAIN listed \ matched
            <4>1. workspace[d].type = listed[d].type
                BY <3>0, <3>3 DEF NamesInv
            <4>2. CASE Orphan(d) \in changes
                BY <2>2, <3>0, <4>2, ChangeParts DEF Achieved, Orphan
            <4> QED
                BY <2>1, <2>5, <3>3, <4>1, <4>2 DEF ChangesInv
        <3> QED
            BY <3>1, <3>2, <3>3
    <2> QED
        BY <2>4, <2>5
<1> QED
    BY <1>1, AlwaysUndisturbed, PTL
===============================================================================
