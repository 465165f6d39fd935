----------------------------- MODULE SelfUpdate -----------------------------
(***************************************************************************)
(* The updater: a check of the latest release, the download and its        *)
(* checksum, and the replacement of the running executable and then of its *)
(* siblings, by one or more updaters at once, each step of which may fail  *)
(* or be the last.                                                         *)
(*                                                                         *)
(* Source: crates/nuncio-core/src/update.rs, the update commands of        *)
(* crates/nuncio-cli/src/runner.rs and the update loop of nunciod's main.  *)
(* The release server and the file system are external.                    *)
(***************************************************************************)
EXTENDS Integers, Sequences, FiniteSets

CONSTANTS
    Updater,      \* runs of "update apply"
    OwnName,      \* the name of the executable that runs the updater
    Siblings,     \* sibling_names, in order
    InstalledTag, \* the version of the installed executables
    ReleaseTags,  \* tags the server may call the latest
    MaxReleases   \* bound: times the latest release changes

Binary == {OwnName} \union {Siblings[i] : i \in DOMAIN Siblings}

ASSUME UpdateAssumption ==
    /\ Siblings \in Seq(Binary)
    /\ InstalledTag \in Seq(Int) /\ InstalledTag # << >>
    /\ \A tag \in ReleaseTags : tag \in Seq(Int)
    /\ MaxReleases \in Nat

VARIABLES
    platform,  \* "unix" or "windows"
    latest,    \* the latest release and its assets
    disk,      \* the executables, and the .old one of each
    temps,     \* temporary files on the disk
    updater,   \* each updater: where it is and its locals
    overlap,   \* two updaters were at work at the same time
    crashes,   \* updaters that were stopped half-way
    announced, \* releases the daemon published an UpdateAvailable event for
    releases

updateVars == <<platform, latest, disk, temps, updater, overlap, crashes, announced, releases>>

-----------------------------------------------------------------------------
(* Versions                                                                *)

\* The parts of a version are numbers; -1 stands for one that does not parse
\* as a number, which counts as 0.
parse_v(v) == [i \in DOMAIN v |-> IF v[i] \in Nat THEN v[i] ELSE 0]
At(v, i) == IF i \in DOMAIN v THEN v[i] ELSE 0

\* Mutant: a component that is missing makes the version older.
newer_by_length(current, newest) ==
    \/ Len(newest) > Len(current)
    \/ \E i \in DOMAIN newest : At(newest, i) > At(current, i)

\* is_newer_version.
is_newer_version(current, newest) ==
    LET c == parse_v(current)
        l == parse_v(newest)
        n == IF Len(c) > Len(l) THEN Len(c) ELSE Len(l)
    IN \E i \in 1 .. n :
          /\ At(l, i) > At(c, i)
          /\ \A j \in 1 .. i - 1 : At(l, j) = At(c, j)

-----------------------------------------------------------------------------
(* The release server                                                      *)

\* A release has an archive for this platform or not, and a SHA256SUMS.txt
\* that lists it, that does not, or none at all.  The server may then fail to
\* serve the checksums, and what is downloaded may be damaged on its way.
Release(tag, archive, sums) == [tag |-> tag, archive |-> archive, sums |-> sums]

PublishRelease(tag, archive, sums) ==
    /\ releases < MaxReleases
    /\ latest' = Release(tag, archive, sums)
    /\ releases' = releases + 1
    /\ UNCHANGED <<platform, disk, temps, updater, overlap, crashes, announced>>

-----------------------------------------------------------------------------
(* The updater                                                             *)

\* No file of that name.
Absent == [tag |-> << >>, damaged |-> FALSE, unchecked |-> FALSE]

Goto(u, l)    == updater' = [updater EXCEPT ![u].pc = l]
Quit(u, why) == updater' = [updater EXCEPT ![u].pc = "failed", ![u].why = why]
Active(u)     == updater[u].pc \in {"download", "verify", "extract", "write", "swap", "aside",
                                    "swap_aside", "next"}

\* check_for_updates, by the executable that is installed by now, and the two early ends of UpdateSubcommand::Apply: no
\* archive for this platform, and nothing newer.
CheckForUpdates(u) ==
    /\ updater[u].pc = "ready"
    /\ disk[OwnName].exe # Absent
    /\ \/ updater' = [updater EXCEPT
             ![u].self = disk[OwnName].exe.tag,
             ![u].info = latest,
             ![u].pc = IF latest.archive /\ is_newer_version(disk[OwnName].exe.tag, latest.tag)
                       THEN "download" ELSE "up_to_date"]
       \/ Quit(u, "network")
    /\ overlap' = (overlap \/ \E o \in Updater \ {u} : Active(o))
    /\ UNCHANGED <<platform, latest, disk, temps, crashes, announced, releases>>

\* The update loop of nunciod's main, where it is enabled: it never installs.
AnnounceUpdate ==
    /\ latest.archive /\ is_newer_version(InstalledTag, latest.tag)
    /\ announced' = announced \union {latest.tag}
    /\ UNCHANGED <<platform, latest, disk, temps, updater, overlap, crashes, releases>>

\* download_and_verify: the archive ...
Download(u) ==
    /\ updater[u].pc = "download"
    /\ \/ \E damaged \in BOOLEAN :
             updater' = [updater EXCEPT ![u].pc = "verify", ![u].damaged = damaged]
       \/ Quit(u, "network")
    /\ UNCHANGED <<platform, latest, disk, temps, overlap, crashes, announced, releases>>

\* Mutant: an archive the checksum file does not list is accepted.
verify_if_listed(info, damaged, served) ==
    IF info.sums = "listed" /\ served THEN ~damaged ELSE TRUE

\* ... and its checksum, which is looked at when there is a file of them and
\* the server serves it.
verify(info, damaged, served) ==
    CASE info.sums = "none" \/ ~served -> TRUE
      [] info.sums = "unlisted"        -> FALSE
      [] info.sums = "listed"          -> ~damaged

Verify(u) ==
    /\ updater[u].pc = "verify"
    /\ \E served \in BOOLEAN :
          IF verify(updater[u].info, updater[u].damaged, served)
          THEN updater' = [updater EXCEPT ![u].pc = "extract",
                  ![u].unchecked = (updater[u].info.sums = "none" \/ ~served)]
          ELSE Quit(u, "checksum")
    /\ UNCHANGED <<platform, latest, disk, temps, overlap, crashes, announced, releases>>

\* extract_binary for the next file: its bytes, or an error.  A damaged archive
\* may still unpack.  For the own executable an error ends the update; a
\* sibling is left out.
Extract(u) ==
    /\ updater[u].pc = "extract"
    /\ \/ Goto(u, "write")
       \/ IF updater[u].target = 0 THEN Quit(u, "archive") ELSE Goto(u, "next")
    /\ UNCHANGED <<platform, latest, disk, temps, overlap, crashes, announced, releases>>

Target(u) == IF updater[u].target = 0 THEN OwnName ELSE Siblings[updater[u].target]
Version(u) == [tag |-> updater[u].info.tag, damaged |-> updater[u].damaged,
               unchecked |-> updater[u].unchecked]

\* replace_executable fails: an error for the own executable, ignored for a
\* sibling.
ReplaceFailed(u) == IF updater[u].target = 0 THEN Quit(u, "io") ELSE Goto(u, "next")

\* Mutant: the new bytes are written over the executable.
write_in_place(u) ==
    /\ updater[u].pc = "write"
    /\ \/ /\ disk' = [disk EXCEPT ![Target(u)].exe = Version(u)]
          /\ Goto(u, "next")
       \/ /\ disk' = [disk EXCEPT ![Target(u)].exe = Absent]
          /\ ReplaceFailed(u)
    /\ UNCHANGED <<platform, latest, temps, overlap, crashes, announced, releases>>

\* replace_executable: the temporary file, of a name of its own.  When it
\* cannot be written in full, what there is of it stays.
WriteTemp(u) ==
    /\ updater[u].pc = "write"
    /\ \/ Goto(u, IF platform = "unix" THEN "swap" ELSE "aside")
       \/ ReplaceFailed(u)
    /\ temps' = temps \union {<<u, updater[u].target>>}
    /\ UNCHANGED <<platform, latest, disk, overlap, crashes, announced, releases>>

RemoveTemp(u) == temps' = temps \ {<<u, updater[u].target>>}

\* ... on Unix it is renamed onto the executable ...
Swap(u) ==
    /\ updater[u].pc = "swap"
    /\ \/ disk' = [disk EXCEPT ![Target(u)].exe = Version(u)] /\ Goto(u, "next")
       \/ UNCHANGED disk /\ ReplaceFailed(u)
    /\ RemoveTemp(u)
    /\ UNCHANGED <<platform, latest, overlap, crashes, announced, releases>>

\* ... on Windows the executable is renamed to .old first ...
MoveAside(u) ==
    /\ updater[u].pc = "aside"
    /\ \/ /\ disk[Target(u)].exe # Absent
          /\ disk' = [disk EXCEPT ![Target(u)] = [exe |-> Absent, old |-> @.exe]]
          /\ Goto(u, "swap_aside")
          /\ UNCHANGED temps
       \/ /\ UNCHANGED disk
          /\ ReplaceFailed(u)
          /\ RemoveTemp(u)
    /\ UNCHANGED <<platform, latest, overlap, crashes, announced, releases>>

\* ... then the temporary file takes its place and .old goes, or .old is put
\* back.
SwapAside(u) ==
    /\ updater[u].pc = "swap_aside"
    /\ \/ disk' = [disk EXCEPT ![Target(u)] = [exe |-> Version(u), old |-> Absent]] /\ Goto(u, "next")
       \/ /\ disk' = [disk EXCEPT ![Target(u)] = [exe |-> @.old, old |-> Absent]]
          /\ ReplaceFailed(u)
    /\ RemoveTemp(u)
    /\ UNCHANGED <<platform, latest, overlap, crashes, announced, releases>>

\* The next sibling that is installed and is not the executable itself.
NextSibling(u) ==
    /\ updater[u].pc = "next"
    /\ LET left == {i \in DOMAIN Siblings :
                       /\ i > updater[u].target /\ Siblings[i] # OwnName
                       /\ disk[Siblings[i]].exe # Absent}
       IN updater' = [updater EXCEPT
             ![u].target = IF left = {} THEN @ ELSE CHOOSE i \in left : \A j \in left : i <= j,
             ![u].pc = IF left = {} THEN "updated" ELSE "extract"]
    /\ UNCHANGED <<platform, latest, disk, temps, overlap, crashes, announced, releases>>

\* The process is killed.
Kill(u) ==
    /\ updater[u].pc \notin {"ready", "up_to_date", "failed", "updated", "killed"}
    /\ Goto(u, "killed")
    /\ crashes' = crashes \union {u}
    /\ UNCHANGED <<platform, latest, disk, temps, overlap, announced, releases>>

UpdateStep(u) ==
    \/ CheckForUpdates(u)
    \/ Download(u)
    \/ Verify(u)
    \/ Extract(u)
    \/ WriteTemp(u)
    \/ Swap(u)
    \/ MoveAside(u)
    \/ SwapAside(u)
    \/ NextSibling(u)

-----------------------------------------------------------------------------
Installed == [tag |-> InstalledTag, damaged |-> FALSE, unchecked |-> FALSE]

UpdateInit ==
    /\ platform \in {"unix", "windows"}
    /\ latest = Release(InstalledTag, TRUE, "listed")
    /\ disk \in [Binary -> {[exe |-> Installed, old |-> Absent], [exe |-> Absent, old |-> Absent]}]
    /\ disk[OwnName].exe = Installed
    /\ temps = {}
    /\ updater = [u \in Updater |->
                    [pc |-> "ready", why |-> "none", self |-> InstalledTag, info |-> latest, damaged |-> FALSE,
                     unchecked |-> FALSE, target |-> 0]]
    /\ overlap = FALSE
    /\ crashes = {}
    /\ announced = {}
    /\ releases = 0

UpdateNext ==
    \/ \E tag \in ReleaseTags, archive \in BOOLEAN, sums \in {"none", "unlisted", "listed"} :
          PublishRelease(tag, archive, sums)
    \/ AnnounceUpdate
    \/ \E u \in Updater : UpdateStep(u) \/ Kill(u)

-----------------------------------------------------------------------------
(* Properties                                                              *)

\* The own executable is there at all times, in one piece, whatever fails and
\* however many updaters there are.  On Windows its .old stands in for it
\* between the two renames, for ever if the process dies there.
ExecutableStays ==
    \/ disk[OwnName].exe # Absent
    \/ /\ platform = "windows"
       /\ overlap \/ disk[OwnName].old # Absent
       /\ overlap \/ \E u \in Updater : updater[u].pc \in {"swap_aside", "killed"}

ReleasedBefore(a, b) ==
    LET x == parse_v(a)
        y == parse_v(b)
    IN \E i \in DOMAIN x \union DOMAIN y : At(x, i) < At(y, i) /\ \A j \in 1 .. i - 1 : At(x, j) = At(y, j)

\* No update goes back or sideways: the parts of a version count from the left
\* and a missing one is 0.  With updaters one at a time, what an updater
\* installed is newer than what it was started from; no executable is ever
\* older than the first one, and the daemon announces no older release.
NeverOlder ==
    /\ \A t \in announced : ReleasedBefore(InstalledTag, t)
    /\ \A b \in Binary : disk[b].exe # Absent => ~ReleasedBefore(disk[b].exe.tag, InstalledTag)
    /\ \A u \in Updater : updater[u].pc = "updated" => ReleasedBefore(updater[u].self, updater[u].info.tag)

\* A damaged download is installed only when the release has no checksums or
\* the server did not serve them: the "fail-open" that nunciod's main warns of.
DamagedOnlyUnchecked == \A b \in Binary : disk[b].exe.damaged => disk[b].exe.unchecked

Lone(u) == \A o \in Updater \ {u} : updater[o].pc = "ready"

\* "Successfully updated" is reported only when the own executable is the new
\* one, and an update that fails leaves every executable as it was.
ReportTrue ==
    \A u \in Updater : Lone(u) =>
        /\ updater[u].pc = "updated" => disk[OwnName].exe = Version(u)
        /\ updater[u].pc = "failed" => \A b \in Binary : disk[b].exe \in {Installed, Absent}

\* What an update may do to the installation.
UpdateSound == ExecutableStays /\ NeverOlder /\ DamagedOnlyUnchecked /\ ReportTrue
=============================================================================
