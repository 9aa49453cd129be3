------------------------------ MODULE SelfUpdate ------------------------------
(***************************************************************************)
(* How fabio keeps itself current: the check every command makes before its  *)
(* work (version_check.rs), the processes it spawns for it, `upgrade --check` *)
(* and `upgrade`, and the upgrade itself (commands/upgrade.rs), which swaps   *)
(* the binary under everybody's feet.  All of them share files without a lock.*)
(*                                                                          *)
(* A command has at most one upgrade and one check of its own, so these carry *)
(* the name of the command.  A file is a name for an inode, which is what a   *)
(* process that writes or runs it holds on to.  The notice itself is output.  *)
(* The small temporary files of the cache and the marker are written in one   *)
(* step.  --force and --target-version are not modelled.                      *)
(***************************************************************************)
EXTENDS Integers, FiniteSets

CONSTANTS Commands,       \* invocations of fabio
          Mixes,          \* what they may be, functions from Commands to Kinds
          Platforms,      \* the builds
          FirstCaches,    \* the cache as earlier commands left it
          Newest,         \* bound on the releases, numbered from 1
          RefreshAfter,   \* REFRESH_INTERVAL_HOURS
          RetryAfter,     \* AUTO_UPGRADE_RETRY_INTERVAL_HOURS
          MaxHours,       \* bound on the clock
          MaxStops,       \* bound on upgrades that are killed
          Installed,      \* the inode of the binary installed at the start
          None, Torn      \* no file; a binary that is not whole

\* auto: FABIO_AUTO_UPGRADE and a standalone install; notice: only the check for
\* an agent; manual: the user runs `fabio upgrade`.
Roles == {"auto", "notice", "manual"}
Releases == 1 .. Newest
Inodes == Commands \cup {Installed}
Names == {"exe", "tmp", "old", "stray"}

ASSUME UpdateAssumption ==
    /\ Mixes \subseteq [Commands -> Roles]
    /\ Platforms \subseteq {"linux", "macos", "windows"}
    /\ Newest \in Nat \ {0} /\ MaxHours \in Nat /\ MaxStops \in Nat
    /\ FirstCaches \subseteq {None} \cup [time : {0}, version : 0 .. Newest]
    /\ RefreshAfter \in Nat \ {0} /\ RetryAfter \in Nat \ {0}
    /\ Installed \notin Commands /\ None \notin Inodes /\ Torn \notin Releases

VARIABLES
    platform, role,
    hours, latest,   \* external: the time, and the newest release
    cache, cacheTmp, \* version-check.json: when checked, and what was found (0: nothing)
    mark, markTmp,   \* auto-upgrade-attempt
    name,            \* the files of the install directory: inodes or None
    data, exec,      \* what each inode holds; those that may be executed
    stage, runs, seen,  \* per command: where it is, the binary it runs, the cache as it read it
    up, image, target, at, dest,   \* per upgrade: where it is, the binary it runs, the
                     \* release it installs, the inode it writes, the name it installs to
    check,           \* per `upgrade --check`: where it is
    bumped,          \* history: the time of the last bump
    raced, overlapped   \* history: two commands were in one throttle; two upgrades ran

binary == <<name, data, exec>>
upgrades == <<up, image, target, at, dest, overlapped>>
cached == <<cache, cacheTmp, check, bumped>>
marked == <<mark, markTmp>>
world == <<platform, role, hours, latest>>
commands == <<stage, runs, seen, raced>>
updateVars == <<world, binary, upgrades, cached, marked, commands>>

UpdateInit ==
    /\ platform \in Platforms /\ role \in Mixes
    /\ hours = 0 /\ latest \in Releases
    /\ cache \in {first \in FirstCaches : first # None => first.version <= latest}
    /\ cacheTmp = None
    /\ mark = None /\ markTmp = None
    /\ name = [n \in Names |-> IF n = "exe" THEN Installed ELSE None]
    /\ data = [i \in Inodes |-> IF i = Installed THEN 1 ELSE Torn] /\ exec = {Installed}
    /\ stage = [c \in Commands |-> "new"] /\ seen = [c \in Commands |-> None]
    /\ runs = [c \in Commands |-> None]
    /\ up = [c \in Commands |-> "off"] /\ image = [c \in Commands |-> None]
    /\ target = [c \in Commands |-> 0] /\ at = [c \in Commands |-> None]
    /\ dest = [c \in Commands |-> "exe"]
    /\ check = [c \in Commands |-> "off"]
    /\ bumped = (IF cache = None THEN None ELSE cache.time)
    /\ raced = FALSE /\ overlapped = FALSE

Goes(c, place) == stage' = [stage EXCEPT ![c] = place]
Up(c, place) == up' = [up EXCEPT ![c] = place]

\* An upgrade is over: with success, or with an error or nothing to do.
Forget(c) == /\ image' = [image EXCEPT ![c] = None] /\ dest' = [dest EXCEPT ![c] = "exe"]
             /\ at' = [at EXCEPT ![c] = None]
Done(c) == Up(c, "ok") /\ target' = target /\ Forget(c)
Quit(c, place) == Up(c, place) /\ target' = [target EXCEPT ![c] = 0] /\ Forget(c)
On(c, place) == Up(c, place) /\ UNCHANGED <<image, target, at, dest>>

Upgrading(c) == up[c] \notin {"off", "ok", "stopped"}
Working(c) == stage[c] \notin {"new", "done"}
InUse(i) == \E c \in Commands : (Working(c) /\ runs[c].inode = i)
                                  \/ (Upgrading(c) /\ image[c].inode = i)

\* A file can be started when it is whole and executable.
Whole(n) == name[n] # None /\ data[name[n]] # Torn /\ name[n] \in exec
Binary(n) == [inode |-> name[n], release |-> data[name[n]]]

Hour == /\ hours < MaxHours /\ hours' = hours + 1
        /\ UNCHANGED <<platform, role, latest, binary, upgrades, cached, marked, commands>>

Release == /\ latest < Newest /\ latest' = latest + 1
           /\ UNCHANGED <<platform, role, hours, binary, upgrades, cached, marked, commands>>

-----------------------------------------------------------------------------
(* prime, which every command but `upgrade` runs first                       *)

\* Mutant: only a check that failed is repeated.
StaleUnlessFound(read) == read = None \/ read.version = 0 \/ hours - read.time >= RefreshAfter

Stale(read) == read = None \/ hours - read.time >= RefreshAfter
Due == mark = None \/ hours - mark >= RetryAfter

\* What a command does after the part about the upgrade, by the cache it read.
Onward(c, read) == Goes(c, IF Stale(read) THEN "bump" ELSE "work")

\* An upgrade begins, as a process of its own; a manual one is the command.
Launched(c) ==
    /\ image' = [image EXCEPT ![c] = Binary("exe")] /\ Up(c, "fetch")
    /\ overlapped' = (overlapped \/ \E d \in Commands : Upgrading(d))
    /\ UNCHANGED <<target, at, dest>>

\* A command starts and reads the cache; `upgrade` does no check.
Start(c) ==
    /\ stage[c] = "new" /\ Whole("exe")
    /\ runs' = [runs EXCEPT ![c] = Binary("exe")]
    /\ IF role[c] = "manual"
         THEN Launched(c) /\ seen' = seen /\ Goes(c, "done")
         ELSE /\ seen' = [seen EXCEPT ![c] = cache]
              /\ IF role[c] = "auto" /\ cache # None /\ cache.version > data[name["exe"]]
                   THEN Goes(c, "due") ELSE Onward(c, cache)
              /\ UNCHANGED upgrades
    /\ UNCHANGED <<world, binary, cached, marked, raced>>

\* auto_upgrade_throttle_allows.
ReadMark(c) ==
    /\ stage[c] = "due"
    /\ IF Due THEN Goes(c, "mark") ELSE Onward(c, seen[c])
    /\ UNCHANGED <<world, binary, upgrades, cached, marked, runs, seen, raced>>

\* record_auto_upgrade_attempt: the temporary file, then its rename.  Without a
\* recorded attempt nothing is launched.
WriteMark(c) ==
    /\ stage[c] = "mark"
    /\ \/ markTmp' = hours /\ Goes(c, "renameMark")
       \/ markTmp' = markTmp /\ Onward(c, seen[c])
    /\ UNCHANGED <<world, binary, upgrades, cached, mark, runs, seen, raced>>

\* It may fail, and does when another command has renamed the file meanwhile.
RenameMark(c) ==
    /\ stage[c] = "renameMark"
    /\ \/ /\ markTmp # None /\ mark' = markTmp /\ markTmp' = None
          /\ raced' = (raced \/ \E d \in Commands \ {c} : stage[d] \in {"mark", "renameMark"})
          /\ Goes(c, "launch")
       \/ Onward(c, seen[c]) /\ UNCHANGED <<marked, raced>>
    /\ UNCHANGED <<world, binary, upgrades, cached, runs, seen>>

\* current_exe of a command: on Linux a binary that was replaced has no path.
HasPath(inode) == platform = "linux" => name["exe"] = inode

\* spawn_background_upgrade, which may fail.
Launch(c) ==
    /\ stage[c] = "launch"
    /\ \/ HasPath(runs[c].inode) /\ Whole("exe") /\ Launched(c)
       \/ UNCHANGED upgrades
    /\ Onward(c, seen[c])
    /\ UNCHANGED <<world, binary, cached, marked, runs, seen, raced>>

\* write_cache keeps the version that was read, with the time of this attempt.
WriteBump(c) ==
    /\ stage[c] = "bump"
    /\ \/ /\ cacheTmp' = [time |-> hours, version |-> IF seen[c] = None THEN 0 ELSE seen[c].version]
          /\ Goes(c, "renameBump")
       \/ cacheTmp' = cacheTmp /\ Goes(c, "work")
    /\ UNCHANGED <<world, binary, upgrades, cache, check, bumped, marked, runs, seen, raced>>

\* The rename, then spawn_background_refresh; each may fail.
RenameBump(c) ==
    /\ stage[c] = "renameBump"
    /\ \/ /\ cacheTmp # None /\ cache' = cacheTmp /\ cacheTmp' = None
          /\ bumped' = cacheTmp.time
          /\ raced' = (raced \/ \E d \in Commands \ {c} : Working(d) /\ stage[d] # "work")
          /\ \/ /\ HasPath(runs[c].inode) /\ Whole("exe")
                /\ check' = [check EXCEPT ![c] = "fetch"]
             \/ check' = check
       \/ UNCHANGED <<cached, raced>>
    /\ Goes(c, "work")
    /\ UNCHANGED <<world, binary, upgrades, marked, runs, seen>>

\* The command's own work is over.
End(c) == /\ stage[c] = "work" /\ Goes(c, "done")
          /\ runs' = [runs EXCEPT ![c] = None] /\ seen' = [seen EXCEPT ![c] = None]
          /\ UNCHANGED <<world, binary, upgrades, cached, marked, raced>>

-----------------------------------------------------------------------------
(* `upgrade --check`                                                         *)

\* What it found goes to the same file, by the same temporary one.
CheckFetch(c) ==
    /\ check[c] = "fetch"
    /\ \/ /\ cacheTmp' = [time |-> hours, version |-> latest]
          /\ check' = [check EXCEPT ![c] = "rename"]
       \/ cacheTmp' = cacheTmp /\ check' = [check EXCEPT ![c] = "off"]
    /\ UNCHANGED <<world, binary, upgrades, cache, bumped, marked, commands>>

CheckRename(c) ==
    /\ check[c] = "rename"
    /\ \/ cacheTmp # None /\ cache' = cacheTmp /\ cacheTmp' = None
       \/ UNCHANGED <<cache, cacheTmp>>
    /\ check' = [check EXCEPT ![c] = "off"]
    /\ UNCHANGED <<world, binary, upgrades, bumped, marked, commands>>

-----------------------------------------------------------------------------
(* `upgrade`                                                                 *)

\* fetch_latest_version, the comparison with the running release, and
\* download_and_install up to the binary in memory: any request may fail, and a
\* download that was damaged does not pass verify_checksum.
Fetch(c) ==
    /\ up[c] = "fetch"
    /\ \/ /\ latest > image[c].release
          /\ target' = [target EXCEPT ![c] = latest] /\ Up(c, "open")
          /\ UNCHANGED <<image, at, dest>>
       \/ Quit(c, "off")
    /\ UNCHANGED <<world, binary, overlapped, cached, marked, commands>>

\* replace_executable: where am I, then fs::write, which first makes or empties
\* the temporary file.  On Linux an upgrade whose own binary has been replaced
\* gets a path with " (deleted)" after it.
OpenTmp(c) ==
    /\ up[c] = "open"
    /\ \/ LET i == IF name["tmp"] = None THEN c ELSE name["tmp"] IN
            /\ name' = [name EXCEPT !["tmp"] = i]
            /\ data' = [data EXCEPT ![i] = Torn]
            /\ exec' = IF platform = "windows" THEN exec \cup {i} ELSE exec
            /\ at' = [at EXCEPT ![c] = i]
            /\ dest' = [dest EXCEPT ![c] = IF HasPath(image[c].inode) THEN "exe" ELSE "stray"]
            /\ Up(c, "write") /\ UNCHANGED <<image, target>>
       \/ Quit(c, "off") /\ UNCHANGED binary
    /\ UNCHANGED <<world, overlapped, cached, marked, commands>>

\* What the inode holds when one of its writers has written all: its binary,
\* or, when another upgrade had it open too, perhaps a mixture.
Written(c) == {target[c]} \cup (IF overlapped THEN {Torn} ELSE {})

Swap(c) == On(c, IF platform = "windows" THEN "removeOld" ELSE "chmod")

\* Mutant: an error of the write is passed over.
WriteUnchecked(c) ==
    /\ up[c] = "write"
    /\ \/ \E content \in Written(c) : data' = [data EXCEPT ![at[c]] = content]
       \/ data' = data
    /\ Swap(c)
    /\ UNCHANGED <<world, name, exec, overlapped, cached, marked, commands>>

\* The rest of fs::write, which may fail and leaves the file then as it is.
WriteTmp(c) ==
    /\ up[c] = "write"
    /\ \/ /\ \E content \in Written(c) : data' = [data EXCEPT ![at[c]] = content]
          /\ Swap(c)
       \/ data' = data /\ Quit(c, "off")
    /\ UNCHANGED <<world, name, exec, overlapped, cached, marked, commands>>

Chmod(c) ==
    /\ up[c] = "chmod"
    /\ \/ name["tmp"] # None /\ exec' = exec \cup {name["tmp"]} /\ On(c, "rename")
       \/ exec' = exec /\ Quit(c, "off")
    /\ UNCHANGED <<world, name, data, overlapped, cached, marked, commands>>

Renamed(from, to) == name' = [name EXCEPT ![to] = name[from], ![from] = None]

\* The atomic rename of Unix.
RenameTmp(c) ==
    /\ up[c] = "rename"
    /\ \/ name["tmp"] # None /\ Renamed("tmp", dest[c]) /\ Done(c)
       \/ name' = name /\ Quit(c, "off")
    /\ UNCHANGED <<world, data, exec, overlapped, cached, marked, commands>>

\* On Windows a binary that runs can be renamed but neither removed nor replaced.
\* remove_file(old_path), whose errors are ignored, before and after the renames.
OldRemoved == IF name["old"] # None /\ ~InUse(name["old"])
                THEN [name EXCEPT !["old"] = None] ELSE name
Replaceable(n) == name[n] = None \/ ~InUse(name[n])

RemoveOld(c) ==
    /\ up[c] \in {"removeOld", "cleanUp"}
    /\ name' = OldRemoved
    /\ IF up[c] = "cleanUp" THEN Done(c) ELSE On(c, "moveAway")
    /\ UNCHANGED <<world, data, exec, overlapped, cached, marked, commands>>

MoveAway(c) ==
    /\ up[c] = "moveAway"
    /\ \/ name["exe"] # None /\ Replaceable("old") /\ Renamed("exe", "old") /\ On(c, "moveIn")
       \/ name' = name /\ Quit(c, "off")
    /\ UNCHANGED <<world, data, exec, overlapped, cached, marked, commands>>

\* Mutant: the second rename's error is not looked at.
MoveInUnchecked(c) ==
    /\ up[c] = "moveIn"
    /\ \/ name["tmp"] # None /\ Replaceable("exe") /\ Renamed("tmp", "exe")
       \/ name' = name
    /\ On(c, "cleanUp")
    /\ UNCHANGED <<world, data, exec, overlapped, cached, marked, commands>>

MoveIn(c) ==
    /\ up[c] = "moveIn"
    /\ \/ name["tmp"] # None /\ Replaceable("exe") /\ Renamed("tmp", "exe") /\ On(c, "cleanUp")
       \/ name' = name /\ On(c, "rollBack")
    /\ UNCHANGED <<world, data, exec, overlapped, cached, marked, commands>>

\* The rollback's own error is ignored.
RollBack(c) ==
    /\ up[c] = "rollBack"
    /\ Quit(c, "off")
    /\ \/ name["old"] # None /\ Replaceable("exe") /\ Renamed("old", "exe")
       \/ name' = name
    /\ UNCHANGED <<world, data, exec, overlapped, cached, marked, commands>>

\* An upgrade is killed.  What it wrote is kept: nothing is flushed to the disk before
\* the renames, and a loss of power is not modelled.
Stop(c) ==
    /\ Upgrading(c)
    /\ Cardinality({d \in Commands : up[d] = "stopped"}) < MaxStops
    /\ Quit(c, "stopped")
    /\ UNCHANGED <<world, binary, overlapped, cached, marked, commands>>

-----------------------------------------------------------------------------

Prime(c) == Start(c) \/ ReadMark(c) \/ WriteMark(c) \/ RenameMark(c) \/ Launch(c)
                \/ WriteBump(c) \/ RenameBump(c) \/ End(c)
Check(c) == CheckFetch(c) \/ CheckRename(c)
Upgrade(c) == Fetch(c) \/ OpenTmp(c) \/ WriteTmp(c) \/ Chmod(c) \/ RenameTmp(c)
                \/ RemoveOld(c) \/ MoveAway(c) \/ MoveIn(c) \/ RollBack(c) \/ Stop(c)

UpdateNext == Hour \/ Release \/ \E c \in Commands : Prime(c) \/ Check(c) \/ Upgrade(c)

UpdateSpec == UpdateInit /\ [][UpdateNext]_updateVars

-----------------------------------------------------------------------------
(* Properties                                                                *)

Stamps == [time : Nat, version : 0 .. Newest]
Binaries == [inode : Inodes, release : Releases]

\* Every variable has its type.
UpdateTypes ==
    /\ platform \in Platforms /\ role \in Mixes /\ hours \in Nat /\ latest \in Releases
    /\ cache \in Stamps \cup {None} /\ cacheTmp \in Stamps \cup {None}
    /\ mark \in Nat \cup {None} /\ markTmp \in Nat \cup {None}
    /\ name \in [Names -> Inodes \cup {None}]
    /\ data \in [Inodes -> Releases \cup {Torn}] /\ exec \subseteq Inodes
    /\ stage \in [Commands -> {"new", "due", "mark", "renameMark", "launch", "bump",
                               "renameBump", "work", "done"}]
    /\ runs \in [Commands -> Binaries \cup {None}]
    /\ seen \in [Commands -> Stamps \cup {None}]
    /\ up \in [Commands -> {"off", "fetch", "open", "write", "chmod", "rename", "removeOld",
                            "moveAway", "moveIn", "rollBack", "cleanUp", "ok", "stopped"}]
    /\ image \in [Commands -> Binaries \cup {None}]
    /\ target \in [Commands -> 0 .. Newest]
    /\ at \in [Commands -> Inodes \cup {None}]
    /\ dest \in [Commands -> {"exe", "stray"}]
    /\ check \in [Commands -> {"off", "fetch", "rename"}]
    /\ bumped \in Nat \cup {None} /\ raced \in BOOLEAN /\ overlapped \in BOOLEAN

\* Whatever step an upgrade fails or is killed in, a binary that can be started
\* remains: on Unix under its name, on Windows there or as fabio.exe.old.  Two
\* upgrades at a time spoil that, but on Unix the name itself never goes.
BinaryRemains ==
    /\ platform # "windows" => name["exe"] # None
    /\ ~overlapped => Whole("exe") \/ (platform = "windows" /\ Whole("old"))

\* An upgrade that reports success has installed its release, and none that runs
\* later takes it back (the comparison of releases, the order of the renames).
SuccessLasts ==
    ~overlapped => \A c \in Commands : up[c] = "ok" =>
        \E n \in {"exe", "old"} : Whole(n) /\ data[name[n]] >= target[c]

\* No two automatic upgrades are launched within the retry interval, no two
\* checks within the refresh interval, whether they succeed or not; commands
\* that read a time-stamp before another one has renewed it get past that.
Spaced(c) == ~raced' =>
    /\ stage[c] = "renameMark" /\ stage'[c] = "launch" /\ mark # None
         => mark' - mark >= RetryAfter
    /\ stage[c] = "renameBump" /\ stage'[c] = "work" /\ cacheTmp # cacheTmp' /\ bumped # None
         => bumped' - bumped >= RefreshAfter
Throttled == [][\A c \in Commands : Spaced(c)]_updateVars

=============================================================================
