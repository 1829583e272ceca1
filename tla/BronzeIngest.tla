---------------------------- MODULE BronzeIngest ----------------------------
(***************************************************************************)
(* The Bronze ingest of one dataset: run_ingest_command and BronzeIngestor *)
(* (apps/kr-kospi/.../cli.py, ingest/bronze.py, ingest/manifests.py).      *)
(*                                                                         *)
(* Each run is a process of its own.  It keeps nothing between runs but    *)
(* the files it writes: one parquet partition per day and one manifest per *)
(* root.  Neither is written atomically, so the opening of a file, which   *)
(* truncates it, and the end of its write are two steps, and the process   *)
(* may be killed between any two steps.                                    *)
(*                                                                         *)
(* A live run writes under the root of its snapshot, day by day; a fixture *)
(* run writes under the root Fixture, all days of one fetch.  Datasets     *)
(* never share a file and the commands run one after the other, so one     *)
(* dataset and one process at a time stand for all.                        *)
(***************************************************************************)
EXTENDS Integers, FiniteSets

CONSTANTS
    MaxDay,       \* the calendar is 1 .. MaxDay
    Snapshots,    \* the live snapshot ids
    Fixture,      \* the root of the fixture runs (snapshot_id is None)
    Contents,     \* contents of a whole partition, told apart by sha256
    Absent,       \* no file
    Torn,         \* a file whose write did not end
    RowDate,      \* the date the source gives to the rows of each queried day
    FixtureRows,  \* the content of each day of the fixtures, Absent if none
    MaxCrashes    \* bound: kills of the process in a behaviour

Days == 1 .. MaxDay
Roots == Snapshots \cup {Fixture}

ASSUME IngestAssumption ==
    /\ MaxDay \in Nat \ {0}
    /\ Fixture \notin Snapshots
    /\ Absent \notin Contents /\ Torn \notin Contents /\ Absent # Torn
    /\ RowDate \in [Days -> Days]
    /\ FixtureRows \in [Days -> Contents \cup {Absent}]
    /\ MaxCrashes \in Nat

\* A manifest entry names a partition and the sha256 of what was written.
Entries == [day : Days, sha : Contents]

BronzeManifest == [entries : SUBSET Entries]

LiveIngestManifest ==
    [from : Days, to : Days, entries : SUBSET Entries,
     written : SUBSET Days, skipped : SUBSET Days, failed : SUBSET Days]

Manifests == BronzeManifest \cup LiveIngestManifest

ASSUME ManifestAssumption == Absent \notin Manifests /\ Torn \notin Manifests

VARIABLES
    disk,      \* disk[r][d] is the partition of day d under root r
    manifest,  \* manifest[r] is the manifest.json under root r
    stage,     \* where the process is
    root,      \* the root of the run
    from, to,  \* the requested range
    current,   \* the day the live loop looks at
    pending,   \* the dates of the fetched rows that are not written yet
    entries, written, skipped, failed,   \* what the run's manifest will say
    crashes    \* kills so far

files == <<disk, manifest>>
request == <<root, from, to>>
tally == <<entries, written, skipped, failed>>
vars == <<disk, manifest, stage, root, from, to, current, pending,
          entries, written, skipped, failed, crashes>>

Stages == {"idle", "scan", "write", "flush", "publish"}

FilesOK ==
    /\ disk \in [Roots -> [Days -> Contents \cup {Absent, Torn}]]
    /\ manifest \in [Roots -> Manifests \cup {Absent, Torn}]
    /\ \A s \in Snapshots : manifest[s] \in LiveIngestManifest \cup {Absent, Torn}

RequestOK ==
    /\ stage \in Stages
    /\ root \in Roots
    /\ from \in Days /\ to \in Days
    /\ current \in 1 .. MaxDay + 1
    /\ pending \in SUBSET Days

TallyOK ==
    /\ entries \in SUBSET Entries
    /\ written \in SUBSET Days /\ skipped \in SUBSET Days /\ failed \in SUBSET Days
    /\ crashes \in 0 .. MaxCrashes

\* Every variable has its type; a snapshot never holds a fixture manifest.
TypeOK == FilesOK /\ RequestOK /\ TallyOK

Init ==
    /\ disk = [r \in Roots |-> [d \in Days |-> Absent]]
    /\ manifest = [r \in Roots |-> Absent]
    /\ stage = "idle"
    /\ root = Fixture
    /\ from = 1 /\ to = 1 /\ current = 1
    /\ pending = {} /\ entries = {} /\ written = {} /\ skipped = {} /\ failed = {}
    /\ crashes = 0

-----------------------------------------------------------------------------

\* The process is gone, well or badly, with all it had in memory; its files stay.
End ==
    /\ stage' = "idle"
    /\ root' = Fixture
    /\ from' = 1 /\ to' = 1 /\ current' = 1
    /\ pending' = {} /\ entries' = {} /\ written' = {} /\ skipped' = {} /\ failed' = {}

\* ingest --live --snapshot-id s --from a --to b; a > b requests no day.
StartLive(s, a, b) ==
    /\ stage = "idle"
    /\ stage' = "scan"
    /\ root' = s /\ from' = a /\ to' = b /\ current' = a
    /\ UNCHANGED <<files, pending, tally, crashes>>

\* Mutant of StartFixture: the fixture path skips the partitions it finds, too.
ResumeFixture(a, b) ==
    LET dated == {d \in a .. b : FixtureRows[d] # Absent /\ disk[Fixture][d] = Absent} IN
    /\ stage = "idle"
    /\ stage' = IF dated = {} THEN "scan" ELSE "write"
    /\ root' = Fixture /\ from' = a /\ to' = b /\ current' = b + 1
    /\ pending' = dated
    /\ UNCHANGED <<files, tally, crashes>>

\* ingest without --live: one fetch over the range, every group is written.
StartFixture(a, b) ==
    LET dated == {d \in a .. b : FixtureRows[d] # Absent} IN
    /\ stage = "idle"
    /\ stage' = IF dated = {} THEN "scan" ELSE "write"
    /\ root' = Fixture /\ from' = a /\ to' = b /\ current' = b + 1
    /\ pending' = dated
    /\ UNCHANGED <<files, tally, crashes>>

-----------------------------------------------------------------------------
(* One day of the loop of _ingest_live_partitions. *)

Scanning == stage = "scan" /\ current <= to

\* Mutant of Existing: the check for a partition is forgotten.
NothingExists == FALSE

\* Mutant of Existing: the check looks under the root of the fixtures.
ExistsInFixtures == disk[Fixture][current] # Absent

\* is_file() tells nothing of what the file holds.
Existing == disk[root][current] # Absent

NextDay == current' = current + 1

\* Mutant of SkipExisting: the loop goes on before the day is advanced.
SkipWithoutNextDay ==
    /\ Scanning /\ Existing
    /\ skipped' = skipped \cup {current}
    /\ UNCHANGED <<files, stage, request, current, pending, entries, written, failed, crashes>>

SkipExisting ==
    /\ Scanning /\ Existing
    /\ skipped' = skipped \cup {current}
    /\ NextDay
    /\ UNCHANGED <<files, stage, request, pending, entries, written, failed, crashes>>

\* Mutant of FetchEmpty: a day without rows is not noted.
FetchEmptyUnnoted ==
    /\ Scanning /\ ~Existing
    /\ NextDay
    /\ UNCHANGED <<files, stage, request, pending, tally, crashes>>

FetchEmpty ==
    /\ Scanning /\ ~Existing
    /\ skipped' = skipped \cup {current}
    /\ NextDay
    /\ UNCHANGED <<files, stage, request, pending, entries, written, failed, crashes>>

FetchFails ==
    /\ Scanning /\ ~Existing
    /\ failed' = failed \cup {current}
    /\ NextDay
    /\ UNCHANGED <<files, stage, request, pending, entries, written, skipped, crashes>>

\* UnsupportedDatasetError leaves the loop, and the command, without a manifest.
FetchUnsupported ==
    /\ Scanning /\ ~Existing
    /\ End
    /\ UNCHANGED <<files, crashes>>

FetchRows ==
    /\ Scanning /\ ~Existing
    /\ pending' = {RowDate[current]}
    /\ stage' = "write"
    /\ UNCHANGED <<files, request, current, tally, crashes>>

-----------------------------------------------------------------------------
(* _write_partition, for the groups of one fetch in the order of their date. *)

NextGroup(d) == d \in pending /\ \A e \in pending : d <= e

OpenPartition ==
    /\ stage = "write"
    /\ \E d \in Days : NextGroup(d) /\ disk' = [disk EXCEPT ![root][d] = Torn]
    /\ stage' = "flush"
    /\ UNCHANGED <<manifest, request, current, pending, tally, crashes>>

\* A live source may serve any content, fixtures always serve the same.
Served(d) == IF root = Fixture THEN {FixtureRows[d]} ELSE Contents

\* The write ends, the file is read back for its sha256, the entry is noted.
ClosePartition ==
    /\ stage = "flush"
    /\ \E d \in Days : \E c \in Served(d) :
        /\ NextGroup(d)
        /\ disk' = [disk EXCEPT ![root][d] = c]
        /\ entries' = entries \cup {[day |-> d, sha |-> c]}
        /\ written' = IF root = Fixture THEN written ELSE written \cup {d}
        /\ pending' = pending \ {d}
        /\ IF pending = {d}
             THEN /\ stage' = "scan"
                  /\ IF root = Fixture THEN UNCHANGED current ELSE NextDay
             ELSE stage' = "write" /\ UNCHANGED current
    /\ UNCHANGED <<manifest, request, skipped, failed, crashes>>

\* A row that cannot be serialised or a directory that cannot be made.
SerialiseFails ==
    /\ stage = "write"
    /\ End
    /\ UNCHANGED <<files, crashes>>

\* Mutant of PartitionFails: what was written of the file stays.
PartitionFailsTorn ==
    /\ stage = "flush"
    /\ End
    /\ UNCHANGED <<files, crashes>>

\* The parquet writer removes a file it could not write; a file that cannot be
\* read back for its hash is whole all the same.  Both leave no manifest.
PartitionFails ==
    /\ stage = "flush"
    /\ \E d \in Days : \E left \in Served(d) \cup {Absent} :
        NextGroup(d) /\ disk' = [disk EXCEPT ![root][d] = left]
    /\ End
    /\ UNCHANGED <<manifest, crashes>>

-----------------------------------------------------------------------------
(* write_manifest, after the last day. *)

OpenManifest ==
    /\ stage = "scan" /\ current > to
    /\ manifest' = [manifest EXCEPT ![root] = Torn]
    /\ stage' = "publish"
    /\ UNCHANGED <<disk, request, current, pending, tally, crashes>>

\* Mutant of RunManifest: a live run writes the manifest of a fixture run.
EntriesOnly == [entries |-> entries]

\* The manifest lists the entries of this run only.
RunManifest ==
    IF root = Fixture
      THEN [entries |-> entries]
      ELSE [from |-> from, to |-> to, entries |-> entries,
            written |-> written, skipped |-> skipped, failed |-> failed]

CloseManifest ==
    /\ stage = "publish"
    /\ manifest' = [manifest EXCEPT ![root] = RunManifest]
    /\ End
    /\ UNCHANGED <<disk, crashes>>

ManifestFails ==
    /\ stage = "publish"
    /\ End
    /\ UNCHANGED <<files, crashes>>

\* The process is killed; the next run starts from the files alone.
Crash ==
    /\ stage # "idle" /\ crashes < MaxCrashes
    /\ crashes' = crashes + 1
    /\ End
    /\ UNCHANGED files

-----------------------------------------------------------------------------

Start ==
    \E a, b \in Days : StartFixture(a, b) \/ \E s \in Snapshots : StartLive(s, a, b)

\* The steps of the running process itself.
Run ==
    \/ SkipExisting \/ FetchEmpty \/ FetchFails \/ FetchUnsupported \/ FetchRows
    \/ OpenPartition \/ ClosePartition \/ SerialiseFails \/ PartitionFails
    \/ OpenManifest \/ CloseManifest \/ ManifestFails

Next == Start \/ Run \/ Crash

Spec == Init /\ [][Next]_vars

\* A command that was started goes on; nobody has to start one, nor to kill it.
FairSpec == Spec /\ WF_vars(Run)

-----------------------------------------------------------------------------
(* What a run guarantees. *)

\* Every source but KOSIS dates the rows of a day with that day.
Daily == \A d \in Days : RowDate[d] = d

Published(r) == manifest[r] \notin {Absent, Torn}

\* A snapshot's manifest never goes stale: whatever runs, failures and kills come
\* after it was written, each entry still has the sha256 of the partition on disk
\* (bronze.py:276-284 protects it, bronze.py:346-351 computes it).
ManifestMatchesDisk ==
    \A s \in Snapshots : Published(s) =>
        \A e \in manifest[s].entries : disk[s][e.day] = e.sha

Disjoint(w, k, f) == w \cap k = {} /\ w \cap f = {} /\ k \cap f = {}

\* A live manifest accounts for every requested day exactly once, as written,
\* skipped or failed (operator.md:72), although the three lists are kept apart
\* and rows are listed under their own date (bronze.py:271-315).
ManifestAccounts ==
    \A s \in Snapshots : Published(s) =>
        LET m == manifest[s] IN
        /\ m.written \cup m.skipped \cup m.failed = m.from .. m.to
        /\ Disjoint(m.written, m.skipped, m.failed)
        /\ m.written = {e.day : e \in m.entries}

\* The day whose partition is open for writing under root r, if any.
InFlight(r, d) == stage = "flush" /\ root = r /\ NextGroup(d)

\* A kill costs at most the partition it interrupts: the torn partitions that
\* nobody is writing are no more than the kills (bronze.py:301-312 and 344).
CrashLosesOnePartition ==
    Cardinality({p \in Roots \X Days : disk[p[1]][p[2]] = Torn /\ ~InFlight(p[1], p[2])})
        <= crashes

\* Unlike a live rerun, a fixture rerun repairs: when it comes to its manifest,
\* every partition of its range is whole, whatever earlier runs left there
\* (bronze.py:197-207 writes without looking).
FixtureRunRepairs ==
    stage = "publish" /\ root = Fixture =>
        \A d \in from .. to : disk[Fixture][d] = FixtureRows[d]

\* A live run that published its manifest left no requested partition torn: what
\* "a safe resume of an interrupted ingest" (operator.md:78) needs.
ResumeIsSafe ==
    stage = "publish" /\ root \in Snapshots =>
        \A d \in from .. to : disk[root][d] # Torn

\* A live run that fails for some day does not come to its end as if nothing had
\* happened: "Upstream auth failures, schema drift, and missing required inputs are
\* intentionally loud" (README.md:240).
FailuresAreLoud == stage = "publish" => failed = {}

\* "reruns against the same live snapshot ... skip already-written Bronze
\* partitions instead of rewriting them" (README.md:121).
NoRewrite ==
    [][\A s \in Snapshots, d \in Days :
          disk[s][d] \in Contents => disk'[s][d] = disk[s][d]]_vars

\* The write-once store the runs implement for the snapshots: a partition being
\* written is still empty, a torn one is lost.
StoreCells ==
    [s \in Snapshots |-> [d \in Days |-> IF InFlight(s, d) THEN Absent ELSE disk[s][d]]]

StorePublished ==
    [s \in Snapshots |-> IF Published(s) THEN manifest[s].entries ELSE {}]

Store == INSTANCE SnapshotStore WITH
    Empty <- Absent, Lost <- Torn, cells <- StoreCells, published <- StorePublished

\* The live ingest of a daily source implements the write-once store, across
\* reruns, failures and kills.
StoreSpec == Store!Spec

\* A started ingest comes to its end, whatever the source answers for each day
\* (every branch of the loop, bronze.py:275-313, must move to the next day).
RunEnds == stage # "idle" ~> stage = "idle"

=============================================================================
