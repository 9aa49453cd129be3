------------------------------ MODULE DeployPlan ------------------------------
(***************************************************************************)
(* deploy plan and deploy apply around execute_changeset: list the           *)
(* workspace, compare it with the source item by item (plan.rs,              *)
(* build_changeset), save the plan or go on at once, check a saved plan      *)
(* against the workspace as it is then (mod.rs, execute_apply), apply.       *)
(* Other actors may change the workspace between any two requests.           *)
(*                                                                          *)
(* Simplified: a definition is a content value, hashes never collide; the    *)
(* apply is a step per change, DeployApply has its detail.  Source items     *)
(* have unique keys (deploy validate asks for that).                         *)
(***************************************************************************)
EXTENDS Integers, Sequences

CONSTANTS Ids,           \* IDs the service may give to items
          NoId,          \* no ID, or no logical ID
          NoDefinition,  \* the content of an item without definition support
          Sources,       \* the source directories: sequences of items
          Workspaces,    \* the workspaces at the start: IDs to items
          Options,       \* the command lines
          Edits,         \* the items other actors leave behind
          MaxEdits,      \* changes made by other actors
          RequestsFail   \* whether requests may fail

\* scope:         --item-types, or every type
\* kept:          the names that pass the item filters
\* forceAll:      --force-all
\* deleteOrphans: --delete-orphans
\* allowed:       --allow-delete-types
\* saved:         the plan is saved and applied with --plan
\* force:         --force
OptionNames == {"scope", "kept", "forceAll", "deleteOrphans", "allowed", "saved", "force"}

\* An item, in the source or deployed; the service keeps one item per type and name.
ItemFields == {"type", "name", "lid", "content"}

ASSUME PlanAssumption ==
    /\ NoId \notin Ids
    /\ MaxEdits \in Nat
    /\ RequestsFail \in BOOLEAN
    /\ \A o \in Options : DOMAIN o = OptionNames
    /\ \A s \in Sources : Len(s) \in Nat /\ DOMAIN s = 1 .. Len(s)
    /\ \A s \in Sources : \A i, j \in DOMAIN s :
        s[i].type = s[j].type /\ s[i].name = s[j].name => i = j
    /\ \A s \in Sources : \A i \in DOMAIN s : DOMAIN s[i] = ItemFields
    /\ \A w \in Workspaces : DOMAIN w \subseteq Ids
    /\ \A w \in Workspaces : \A d \in DOMAIN w : DOMAIN w[d] = ItemFields
    /\ \A w \in Workspaces : \A c, d \in DOMAIN w :
        w[c].type = w[d].type /\ w[c].name = w[d].name => c = d
    /\ \A e \in Edits : DOMAIN e = ItemFields

VARIABLES
    source,     \* the items of the source directory
    opts,       \* the command line
    stage,      \* where the command is
    listed,     \* fetch_deployed_items: what was deployed when planning began
    next,       \* source items compared so far
    unmatched,  \* unmatched_source
    matched,    \* matched_deployed
    changes,    \* the changeset
    ended,      \* changes whose requests are over
    failed,     \* changes that failed
    workspace,  \* external: deployed items
    given,      \* external: IDs given out so far
    edits       \* external: changes made by other actors

vars == <<source, opts, stage, listed, next, unmatched, matched, changes, ended,
          failed, workspace, given, edits>>

external == <<workspace, given, edits>>

PROTECTED_DELETE_TYPES ==
    {"Lakehouse", "Warehouse", "SQLDatabase", "Eventhouse", "KQLDatabase"}

DeleteAllowed(type) == type \in PROTECTED_DELETE_TYPES => type \in opts.allowed

Key(item) == <<item.type, item.name>>

\* Source items in the filters and in the scope, and deployed ones in the scope.
Selected == {i \in DOMAIN source : source[i].name \in opts.kept /\ source[i].type \in opts.scope}
InScope(w) == {d \in DOMAIN w : w[d].type \in opts.scope}

\* The source as the filters leave it, and the index made before them.
FilteredItems == SelectSeq(source, LAMBDA item : item.name \in opts.kept)
TypeNameIndex(item) == CHOOSE k \in DOMAIN source : Key(source[k]) = Key(item)

Change(i, action, id) == [item |-> i, action |-> action, id |-> id]
Orphan(id) == Change(0, "Delete", id)

Restricted(w, S) == [d \in S |-> w[d]]

Init ==
    /\ source \in Sources
    /\ opts \in Options
    /\ stage = "start"
    /\ workspace \in Workspaces
    /\ listed = << >>
    /\ next = 1
    /\ unmatched = << >>
    /\ matched = {}
    /\ changes = {}
    /\ ended = {}
    /\ failed = {}
    /\ given = DOMAIN workspace
    /\ edits = 0

-----------------------------------------------------------------------------
(* Planning. *)

\* fetch_deployed_items: the list the whole plan works with.
ListDeployed ==
    /\ stage = "start"
    /\ listed' = Restricted(workspace, InScope(workspace))
    /\ stage' = "matching"
    /\ UNCHANGED <<source, opts, next, unmatched, matched, changes, ended, failed, external>>

\* deployed_map: what is listed under the type and the name of a source item.
Deployed(i) == {d \in DOMAIN listed : Key(listed[d]) = Key(source[i])}

\* fetch_definition_hash: what is deployed under the ID by now.  An item that is
\* gone, or has no definition, has no hash.
Unchanged(i, d) ==
    /\ d \in DOMAIN workspace
    /\ workspace[d].content # NoDefinition
    /\ workspace[d].content = source[i].content

\* Mutant: names alone decide.
MatchNextByName ==
    /\ stage = "matching"
    /\ next <= Len(source)
    /\ next' = next + 1
    /\ \/ next \notin Selected /\ UNCHANGED <<unmatched, matched, changes>>
       \/ /\ next \in Selected
          /\ Deployed(next) = {}
          /\ unmatched' = Append(unmatched, next)
          /\ UNCHANGED <<matched, changes>>
       \/ /\ next \in Selected
          /\ \E d \in Deployed(next) :
                /\ matched' = matched \cup {d}
                /\ changes' = changes \cup
                      {Change(next, IF opts.forceAll THEN "Update" ELSE "Skip", d)}
          /\ UNCHANGED unmatched
    /\ UNCHANGED <<source, opts, stage, listed, ended, failed, external>>

\* First pass: the next source item, by type and name.
MatchNext ==
    /\ stage = "matching"
    /\ next <= Len(source)
    /\ next' = next + 1
    /\ \/ next \notin Selected /\ UNCHANGED <<unmatched, matched, changes>>
       \/ /\ next \in Selected
          /\ Deployed(next) = {}
          /\ unmatched' = Append(unmatched, next)
          /\ UNCHANGED <<matched, changes>>
       \/ /\ next \in Selected
          /\ \E d \in Deployed(next) :
                /\ matched' = matched \cup {d}
                /\ changes' = changes \cup
                      {Change(next, IF ~ opts.forceAll /\ Unchanged(next, d)
                                    THEN "Skip" ELSE "Update", d)}
          /\ UNCHANGED unmatched
    /\ UNCHANGED <<source, opts, stage, listed, ended, failed, external>>

\* A definition that cannot be fetched ends the command.
MatchFails ==
    /\ stage = "matching"
    /\ next \in Selected
    /\ Deployed(next) # {}
    /\ RequestsFail /\ ~ opts.forceAll
    /\ stage' = "aborted"
    /\ UNCHANGED <<source, opts, listed, next, unmatched, matched, changes, ended,
                   failed, external>>

\* Deployed items that carry the logical ID of a source item, by now.
Holders(i) ==
    {d \in DOMAIN listed \ matched :
        /\ listed[d].type = source[i].type
        /\ d \in DOMAIN workspace
        /\ workspace[d].lid = source[i].lid
        /\ source[i].lid # NoId}

\* Mutant: candidates of an earlier rename stay candidates.
RenameNextAgain ==
    /\ stage = "matching"
    /\ next > Len(source)
    /\ unmatched # << >>
    /\ unmatched' = Tail(unmatched)
    /\ LET i == Head(unmatched)
           all == {d \in DOMAIN listed : /\ listed[d].type = source[i].type
                                         /\ d \in DOMAIN workspace
                                         /\ workspace[d].lid = source[i].lid
                                         /\ source[i].lid # NoId}
       IN  \/ \E d \in all :
                /\ matched' = matched \cup {d}
                /\ changes' = changes \cup {Change(i, "Rename", d)}
           \/ /\ all = {}
              /\ changes' = changes \cup {Change(i, "Create", NoId)}
              /\ UNCHANGED matched
    /\ UNCHANGED <<source, opts, stage, listed, next, ended, failed, external>>

\* Second pass: the next source item without a namesake is a rename of the first
\* candidate with its logical ID, and new otherwise.  A logical ID that cannot
\* be fetched is no logical ID.
RenameNext ==
    /\ stage = "matching"
    /\ next > Len(source)
    /\ unmatched # << >>
    /\ unmatched' = Tail(unmatched)
    /\ LET i == Head(unmatched) IN
        \/ \E d \in Holders(i) :
            /\ matched' = matched \cup {d}
            /\ changes' = changes \cup {Change(i, "Rename", d)}
        \/ /\ Holders(i) = {} \/ RequestsFail
           /\ changes' = changes \cup {Change(i, "Create", NoId)}
           /\ UNCHANGED matched
    /\ UNCHANGED <<source, opts, stage, listed, next, ended, failed, external>>

\* With nothing but skips the workspace counts as in sync, without another look.
Proceed(cs) == IF \A c \in cs : c.action = "Skip" THEN "in_sync" ELSE "applying"

\* Mutant: an item that was renamed is an orphan too.
FindOrphansByName ==
    /\ stage = "matching"
    /\ next > Len(source)
    /\ unmatched = << >>
    /\ changes' = changes \cup
            {Orphan(d) : d \in {x \in DOMAIN listed :
                /\ opts.deleteOrphans
                /\ \A i \in Selected : Key(source[i]) # Key(listed[x])
                /\ DeleteAllowed(listed[x].type)}}
    /\ stage' = IF opts.saved THEN "saved" ELSE Proceed(changes')
    /\ UNCHANGED <<source, opts, listed, next, unmatched, matched, ended, failed, external>>

\* What is left of the list is orphaned; the changeset is complete.
FindOrphans ==
    /\ stage = "matching"
    /\ next > Len(source)
    /\ unmatched = << >>
    /\ changes' = changes \cup
            {Orphan(d) : d \in {x \in DOMAIN listed \ matched :
                                  opts.deleteOrphans /\ DeleteAllowed(listed[x].type)}}
    /\ stage' = IF opts.saved THEN "saved" ELSE Proceed(changes')
    /\ UNCHANGED <<source, opts, listed, next, unmatched, matched, ended, failed, external>>

-----------------------------------------------------------------------------
(* Applying. *)

\* Mutant: only IDs and types.
FingerprintNoNames(w) == {<<d, w[d].type>> : d \in DOMAIN w}

\* compute_workspace_fingerprint.
Fingerprint(w) == {<<d, w[d].type, w[d].name>> : d \in DOMAIN w}

\* The saved plan is checked against a list of every type.
CheckFingerprint ==
    /\ stage = "saved"
    /\ stage' = IF Fingerprint(workspace) = Fingerprint(listed) \/ opts.force
                THEN Proceed(changes) ELSE "refused"
    /\ UNCHANGED <<source, opts, listed, next, unmatched, matched, changes, ended,
                   failed, external>>

NameFree(type, name) == \A d \in DOMAIN workspace : Key(workspace[d]) # <<type, name>>

\* The service assigns an ID, and the logical ID of the source or none.
Created(i) ==
    \E d \in Ids \ given, lid \in {source[i].lid, NoId} :
        /\ NameFree(source[i].type, source[i].name)
        /\ given' = given \cup {d}
        /\ workspace' = [x \in DOMAIN workspace \cup {d} |->
                IF x = d THEN [source[i] EXCEPT !.lid = lid] ELSE workspace[x]]

Redefined(i, d) ==
    /\ d \in DOMAIN workspace
    /\ workspace' = [workspace EXCEPT ![d].content =
                        IF @ = NoDefinition THEN @ ELSE source[i].content]
    /\ UNCHANGED given

Renamed(i, d) ==
    /\ d \in DOMAIN workspace
    /\ NameFree(source[i].type, source[i].name)
    /\ workspace' = [workspace EXCEPT ![d].name = source[i].name,
                        ![d].content = IF @ = NoDefinition THEN @ ELSE source[i].content]
    /\ UNCHANGED given

Removed(d) ==
    /\ d \in DOMAIN workspace
    /\ workspace' = Restricted(workspace, DOMAIN workspace \ {d})
    /\ UNCHANGED given

Effect(c) ==
    CASE c.action = "Create" -> Created(c.item)
      [] c.action = "Update" -> Redefined(c.item, c.id)
      [] c.action = "Rename" -> Renamed(c.item, c.id)
      [] c.action = "Delete" -> Removed(c.id)

Possible(c) ==
    /\ c.action # "Create" => c.id \in DOMAIN workspace
    /\ c.action \in {"Create", "Rename"} => NameFree(source[c.item].type, source[c.item].name)

\* A rename whose second request fails has changed the name.
NameOnly(c) ==
    /\ c.action = "Rename"
    /\ workspace' = [workspace EXCEPT ![c.id].name = source[c.item].name]
    /\ UNCHANGED given

Work == {c \in changes : c.action # "Skip"}

\* The next change: deletes come after everything else.  A request that fails
\* may have taken effect.
ApplyChange ==
    /\ stage = "applying"
    /\ \E c \in Work \ ended :
        /\ c.action = "Delete" => \A o \in Work \ ended : o.action = "Delete"
        /\ ended' = ended \cup {c}
        /\ \/ Possible(c) /\ Effect(c) /\ UNCHANGED failed
           \/ /\ Possible(c) /\ RequestsFail
              /\ failed' = failed \cup {c}
              /\ Effect(c) \/ NameOnly(c) \/ UNCHANGED <<workspace, given>>
           \/ /\ ~ Possible(c)
              /\ failed' = failed \cup {c}
              /\ UNCHANGED <<workspace, given>>
    /\ UNCHANGED <<source, opts, stage, listed, next, unmatched, matched, changes, edits>>

Finish ==
    /\ stage = "applying"
    /\ ended = Work
    /\ stage' = "done"
    /\ UNCHANGED <<source, opts, listed, next, unmatched, matched, changes, ended,
                   failed, external>>

Over == {"done", "in_sync", "aborted", "refused"}

\* Somebody else puts an item in place of what is deployed under an ID, creates
\* one, or deletes one.  The ID, the type and the logical ID stay.
OtherEdit ==
    /\ stage \notin Over
    /\ edits < MaxEdits
    /\ edits' = edits + 1
    /\ \E d \in Ids :
        \/ /\ d \in DOMAIN workspace
           /\ workspace' = Restricted(workspace, DOMAIN workspace \ {d})
           /\ UNCHANGED given
        \/ \E e \in Edits :
            /\ d \in DOMAIN workspace
            /\ e.type = workspace[d].type
            /\ \A x \in DOMAIN workspace \ {d} : Key(workspace[x]) # Key(e)
            /\ workspace' = [workspace EXCEPT ![d] = [e EXCEPT !.lid = workspace[d].lid]]
            /\ UNCHANGED given
        \/ \E e \in Edits :
            /\ d \notin given
            /\ NameFree(e.type, e.name)
            /\ given' = given \cup {d}
            /\ workspace' = [x \in DOMAIN workspace \cup {d} |->
                                IF x = d THEN e ELSE workspace[x]]
    /\ UNCHANGED <<source, opts, stage, listed, next, unmatched, matched, changes,
                   ended, failed>>

Next ==
    \/ ListDeployed \/ MatchNext \/ MatchFails \/ RenameNext \/ FindOrphans
    \/ CheckFingerprint \/ ApplyChange \/ Finish \/ OtherEdit

Spec == Init /\ [][Next]_vars

-----------------------------------------------------------------------------
(* Properties. *)

Actions == {"Create", "Update", "Rename", "Skip", "Delete"}

ChangeOK(c) ==
    /\ c.action \in Actions
    /\ c.action = "Create" <=> c.id = NoId
    /\ c.action = "Delete" <=> c.item = 0
    /\ c.item # 0 => c.item \in Selected
    /\ c.id # NoId =>
        /\ c.id \in DOMAIN listed
        /\ c.item # 0 => listed[c.id].type = source[c.item].type

\* Types, and what the changeset is built of: the second pass works on source items
\* the first found no namesake for, and a change of a source item goes to an item
\* of its type (build_changeset).
TypeOK ==
    /\ stage \in {"start", "matching", "saved", "applying"} \cup Over
    /\ next \in 1 .. Len(source) + 1
    /\ edits \in 0 .. MaxEdits
    /\ DOMAIN workspace \subseteq given /\ given \subseteq Ids
    /\ matched \subseteq DOMAIN listed
    /\ \A k \in DOMAIN unmatched : unmatched[k] \in Selected /\ unmatched[k] < next
    /\ failed \subseteq ended /\ ended \subseteq Work
    /\ \A c \in changes : ChangeOK(c)

Planned == stage \notin {"start", "matching", "aborted"}

Clash(c, o) ==
    \/ c.item = o.item /\ c.item # 0
    \/ c.id = o.id /\ c.id # NoId

\* A changeset has one change for every source item in scope, and none of its
\* changes shares a deployed item with another, whatever other actors did between
\* the list and the definitions it was compared with (build_changeset).
OneChangePerItem ==
    /\ Planned => \A i \in Selected : \E c \in changes : c.item = i
    /\ \A c, o \in changes : Clash(c, o) => c = o

\* An item deployed under the name of a source item keeps its ID and its name, also
\* when requests fail or two source items carry one logical ID: the second pass
\* never takes what the first one matched.
NamesakesStay ==
    Planned /\ edits = 0 =>
        \A i \in Selected : \A d \in Deployed(i) :
            d \in DOMAIN workspace /\ Key(workspace[d]) = Key(source[i])

\* Only the --delete-orphans pass removes items, and never one that has the name
\* of a source item in scope or became one by a rename, nor a protected type
\* nobody allowed.
OnlyOrphansRemoved ==
    edits = 0 =>
        \A d \in DOMAIN listed \ DOMAIN workspace :
            /\ opts.deleteOrphans
            /\ DeleteAllowed(listed[d].type)
            /\ \A i \in Selected : Key(listed[d]) # Key(source[i])
            /\ \A c \in changes : c.id = d => c.action = "Delete"

InSource(item, i) ==
    Key(item) = Key(source[i]) /\ item.content \in {source[i].content, NoDefinition}

\* When nobody interferes, a command that ends without failures leaves every
\* source item in scope deployed with its content, and with --delete-orphans
\* nothing else but protected types: planning again finds nothing to create,
\* rename or delete.
Converges ==
    stage \in {"done", "in_sync"} /\ edits = 0 /\ failed = {} =>
        /\ \A i \in Selected : \E d \in DOMAIN workspace : InSource(workspace[d], i)
        /\ opts.deleteOrphans =>
            \A d \in InScope(workspace) :
                \/ \E i \in Selected : Key(workspace[d]) = Key(source[i])
                \/ ~ DeleteAllowed(workspace[d].type)

\* A saved plan goes on without --force only while every item it names is deployed
\* under the name the plan saw and every name it is to give is free
\* (compute_workspace_fingerprint against execute_apply).
PlanStillFits ==
    [][stage = "saved" /\ stage' = "applying" /\ ~ opts.force =>
        \A c \in changes :
            /\ c.id # NoId => c.id \in DOMAIN workspace /\ Key(workspace[c.id]) = Key(listed[c.id])
            /\ c.action \in {"Create", "Rename"} =>
                    NameFree(source[c.item].type, source[c.item].name)]_vars

-----------------------------------------------------------------------------
(* What the documents say, and the code does not do. *)

\* "Delete items not in source" (mod.rs, --delete-orphans); "Items with no changed
\* files are skipped at the plan stage" (API-BEHAVIORS.md, --git-diff): what the
\* filters leave out is still in the source.
SourceItemsSurvive ==
    \A c \in changes : c.action = "Delete" =>
        \A i \in DOMAIN source : Key(listed[c.id]) # Key(source[i])

\* "Map from (type, name) -> index into items vec" (platform.rs): it is what finds
\* the logical ID that is replaced by the ID of a deployed item.
IndexFindsItems ==
    ~ opts.saved =>
        \A c \in changes : c.item # 0 =>
            LET k == TypeNameIndex(source[c.item])
            IN  k \in DOMAIN FilteredItems /\ FilteredItems[k] = source[c.item]

===============================================================================
