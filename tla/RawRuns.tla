------------------------------ MODULE RawRuns ------------------------------
(***************************************************************************)
(* The downloads of one schedule source under storage/raw, as the data     *)
(* pipeline keeps them (services/data-pipeline/src/main.rs): each run has  *)
(* a directory named by its time, with the archives and, written last, a   *)
(* manifest.  A run that nothing has changed since is used again; what a   *)
(* crash leaves behind is recognised by what is missing.                   *)
(* GGU has several archives and survives an error of the publisher; PID    *)
(* and IDS JMK have one archive and fail on it (Fallback = FALSE).         *)
(***************************************************************************)
EXTENDS Naturals, Sequences, FiniteSets, SequencesExt, Retention

CONSTANTS
    Archives,       \* the archives of the source
    RunsToKeep,     \* RAW_IMPORT_RUNS_TO_KEEP
    Fallback,       \* whether an archive of the run before stands in
    Torn,           \* whether a crash may cut the writing of a manifest short
    MaxVersions,    \* bound: versions published
    MaxCrashes      \* bound: crashes

ASSUME RawAssumption ==
    Archives # {} /\ RunsToKeep \in Nat \ {0} /\ MaxVersions \in Nat \ {0}

VARIABLES
    archived,       \* the version of each archive
    down,           \* archives that the publisher answers an error for
    dirs,           \* the directories, in the order of their names
    pass,           \* the pass of the scheduler
    crashes         \* crashes and outages so far

rawVars == <<archived, down, dirs, pass, crashes>>

\* Of an archive: its version, 0 while there is no file, Cut while it is partial.
Cut == MaxVersions + 1
Contents == 0 .. Cut

\* A manifest lists versions; without one, and half written.
NoManifest == [a \in Archives |-> 0]
HalfWritten == [a \in Archives |-> Cut]

Created == [file |-> NoManifest, manifest |-> NoManifest, old |-> FALSE]

Idle == [at |-> "idle", run |-> 0, reusable |-> 0, remote |-> NoManifest, left |-> {}]

Directory == [file : [Archives -> Contents], manifest : [Archives -> Contents],
              old : BOOLEAN]

Pass == [at : {"idle", "comparing", "fetching", "writing", "listing", "checked",
               "pruning", "importing"},
         run : Nat, reusable : Nat, remote : [Archives -> 0 .. MaxVersions],
         left : SUBSET Archives]

RawTypeOK ==
    /\ archived \in [Archives -> 1 .. MaxVersions]
    /\ down \subseteq Archives
    /\ dirs \in Seq(Directory)
    /\ pass \in Pass

RawInit ==
    /\ archived = [a \in Archives |-> 1]
    /\ down = {}
    /\ dirs = <<>>
    /\ pass = Idle
    /\ crashes = 0

-----------------------------------------------------------------------------

\* What the publisher answers: a version, or 0 for an error.
Answer == [a \in Archives |-> IF a \in down THEN 0 ELSE archived[a]]

Listed(n) == dirs[n].manifest # NoManifest

Unreadable(n) == dirs[n].manifest = HalfWritten

HasFiles(n) == \A a \in Archives : dirs[n].file[a] # 0

\* Fault: a run is found by its archives alone.
ReusableRun_AnyFiles == NewestIn({n \in DOMAIN dirs : HasFiles(n)})

\* The newest run with a manifest and all archives.
ReusableRun == NewestIn({n \in DOMAIN dirs : Listed(n) /\ HasFiles(n) /\ ~Unreadable(n)})

\* The search for it ends with an error at a manifest that cannot be parsed.
LookFails == \E n \in DOMAIN dirs : Unreadable(n) /\ n > ReusableRun

\* Fault: an archive that is there is good enough.
CanReuse_Exists(a) == pass.reusable # 0 /\ dirs[pass.reusable].file[a] # 0

\* The validators that the publisher answers are those of the manifest.
CanReuse(a) ==
    /\ pass.reusable # 0
    /\ pass.remote[a] # 0
    /\ dirs[pass.reusable].manifest[a] = pass.remote[a]
    /\ dirs[pass.reusable].file[a] # 0

\* A pass begins: the run before, and what HEAD says of each archive.
Look ==
    /\ pass.at = "idle"
    /\ ~LookFails
    /\ pass' = [Idle EXCEPT !.at = "comparing", !.reusable = ReusableRun, !.remote = Answer]
    /\ UNCHANGED <<archived, down, dirs, crashes>>

\* Nothing has changed: the manifest of the run is written again (GGU).
Reuse ==
    /\ pass.at = "comparing"
    /\ \A a \in Archives : CanReuse(a)
    /\ pass' = [pass EXCEPT !.at = IF Fallback THEN "checked" ELSE "pruning",
                            !.run = pass.reusable]
    /\ UNCHANGED <<archived, down, dirs, crashes>>

Rewrite ==
    /\ pass.at = "checked"
    /\ pass' = [pass EXCEPT !.at = "pruning"]
    /\ UNCHANGED <<archived, down, dirs, crashes>>

Create ==
    /\ pass.at = "comparing"
    /\ ~\A a \in Archives : CanReuse(a)
    /\ dirs' = Append(dirs, Created)
    /\ pass' = [pass EXCEPT !.at = "fetching", !.run = Len(dirs) + 1, !.left = Archives]
    /\ UNCHANGED <<archived, down, crashes>>

Put(a, content) == dirs' = [dirs EXCEPT ![pass.run].file[a] = content]

Done(a) ==
    pass' = [pass EXCEPT !.left = @ \ {a},
                         !.at = IF pass.left = {a} THEN "listing" ELSE "fetching"]

\* An archive that has not changed is linked from the run before.
Link(a) ==
    /\ pass.at = "fetching" /\ a \in pass.left
    /\ CanReuse(a)
    /\ Put(a, dirs[pass.reusable].file[a])
    /\ Done(a)
    /\ UNCHANGED <<archived, down, crashes>>

\* The answer is streamed into the file, unless it is an error.
Get(a) ==
    /\ pass.at = "fetching" /\ a \in pass.left
    /\ ~CanReuse(a)
    /\ IF a \notin down
       THEN /\ Put(a, Cut)
            /\ pass' = [pass EXCEPT !.at = "writing", !.remote[a] = archived[a]]
       ELSE IF Fallback /\ pass.reusable # 0
       THEN Put(a, dirs[pass.reusable].file[a]) /\ Done(a)
       ELSE IF Fallback
       THEN Done(a) /\ UNCHANGED dirs
       ELSE pass' = Idle /\ UNCHANGED dirs
    /\ UNCHANGED <<archived, down, crashes>>

Flush(a) ==
    /\ pass.at = "writing"
    /\ dirs[pass.run].file[a] = Cut
    /\ Put(a, pass.remote[a])
    /\ Done(a)
    /\ UNCHANGED <<archived, down, crashes>>

\* The manifest comes last; a run without all archives is removed again.
List ==
    /\ pass.at = "listing"
    /\ IF HasFiles(pass.run)
       THEN /\ dirs' = [dirs EXCEPT ![pass.run].manifest = dirs[pass.run].file]
            /\ pass' = [pass EXCEPT !.at = "pruning"]
       ELSE /\ dirs' = Front(dirs)
            /\ pass' = Idle
    /\ UNCHANGED <<archived, down, crashes>>

\* raw_run_is_complete: it looks for the files, not at what they hold.
Complete(n) == Listed(n) /\ HasFiles(n)

Retained(S) == {n \in S : Cardinality({m \in S : m > n}) < RunsToKeep}

Prune ==
    /\ pass.at = "pruning"
    /\ LET complete == {n \in DOMAIN dirs : Complete(n)}
           kept == {pass.run} \cup Retained(complete)
                   \cup {n \in DOMAIN dirs \ complete : ~dirs[n].old}
       IN /\ dirs' = Kept(dirs, kept)
          /\ pass' = [pass EXCEPT !.at = "importing", !.run = Place(pass.run, kept)]
    /\ UNCHANGED <<archived, down, crashes>>

TakeIn ==
    /\ pass.at = "importing"
    /\ pass' = Idle
    /\ UNCHANGED <<archived, down, dirs, crashes>>

-----------------------------------------------------------------------------

\* A new version of an archive.
PublishArchive(a) ==
    /\ archived[a] < MaxVersions
    /\ archived' = [archived EXCEPT ![a] = @ + 1]
    /\ UNCHANGED <<down, dirs, pass, crashes>>

\* The publisher answers an error for a while.
Outage(a) ==
    /\ crashes < MaxCrashes
    /\ crashes' = crashes + 1
    /\ down' = down \cup {a}
    /\ UNCHANGED <<archived, dirs, pass>>

Restored(a) ==
    /\ a \in down
    /\ down' = down \ {a}
    /\ UNCHANGED <<archived, dirs, pass, crashes>>

\* The process stops where it is, with a manifest half written at worst.
Crash ==
    /\ pass.at # "idle"
    /\ crashes < MaxCrashes
    /\ crashes' = crashes + 1
    /\ IF Torn /\ pass.at \in {"listing", "checked"}
       THEN dirs' = [dirs EXCEPT ![pass.run].manifest = HalfWritten]
       ELSE UNCHANGED dirs
    /\ pass' = Idle
    /\ UNCHANGED <<archived, down>>

\* RAW_INCOMPLETE_RUN_MAX_AGE_HOURS pass.
GrowOld(n) ==
    /\ ~dirs[n].old /\ ~Complete(n) /\ n # pass.run
    /\ dirs' = [dirs EXCEPT ![n].old = TRUE]
    /\ UNCHANGED <<archived, down, pass, crashes>>

Step ==
    \/ Look \/ Reuse \/ Rewrite \/ Create \/ List \/ Prune \/ TakeIn
    \/ \E a \in Archives : Link(a) \/ Get(a) \/ Flush(a)

RawNext ==
    \/ Step
    \/ Crash
    \/ \E a \in Archives : PublishArchive(a) \/ Outage(a) \/ Restored(a)
    \/ \E n \in DOMAIN dirs : GrowOld(n)

RawFairness ==
    /\ WF_rawVars(Step)
    /\ \A a \in Archives : WF_rawVars(Restored(a))

RawSpec == RawInit /\ [][RawNext]_rawVars /\ RawFairness

-----------------------------------------------------------------------------

\* What is imported is whole, and is what its manifest says.
ImportedIsWhole ==
    pass.at = "importing" =>
        \A a \in Archives :
            /\ dirs[pass.run].file[a] \in 1 .. MaxVersions
            /\ dirs[pass.run].manifest[a] = dirs[pass.run].file[a]

\* What is behind it: a run is whole when its manifest says what its archives
\* hold, and all of them are there ...
Whole(n) ==
    /\ dirs[n].manifest = dirs[n].file
    /\ \A a \in Archives : dirs[n].file[a] \in 1 .. MaxVersions

\* ... a run that is found again is whole, the one that is being fetched has
\* no manifest and no partial archive but the one at hand, and after the
\* manifest it is whole.
ManifestsOK ==
    \A n \in DOMAIN dirs : dirs[n].manifest \in {NoManifest, HalfWritten} \/ Whole(n)

ReusableOK ==
    pass.at \in {"comparing", "fetching", "writing"} /\ pass.reusable # 0 =>
        pass.reusable \in DOMAIN dirs /\ Whole(pass.reusable)

FetchedOK ==
    pass.at \in {"fetching", "writing", "listing"} =>
        /\ pass.run \in DOMAIN dirs
        /\ dirs[pass.run].manifest = NoManifest
        /\ \A a, b \in Archives :
             dirs[pass.run].file[a] = Cut /\ dirs[pass.run].file[b] = Cut =>
                a = b /\ pass.at = "writing"

ListedOK ==
    pass.at \in {"checked", "pruning", "importing"} =>
        pass.run \in DOMAIN dirs /\ Whole(pass.run)

RawInv == RawTypeOK /\ ManifestsOK /\ ReusableOK /\ FetchedOK /\ ListedOK

\* The published archives come to be imported, whatever a crash has left behind.
EventuallyFetched ==
    <>[](ReusableRun # 0 /\ dirs[ReusableRun].file = archived)

=============================================================================
