------------------------- MODULE BronzeIngestProofs -------------------------
(***************************************************************************)
(* What holds of the Bronze ingest for every calendar, every set of        *)
(* snapshots and contents, every source and any number of kills.           *)
(***************************************************************************)
EXTENDS BronzeIngest, FiniteSetTheorems, TLAPS

USE DEF files, request, tally

LEMMA RunManifestType ==
    ASSUME TypeOK
    PROVE  /\ RunManifest \in Manifests
           /\ root \in Snapshots => RunManifest \in LiveIngestManifest
<1>1. CASE root = Fixture
    BY <1>1, IngestAssumption
       DEF TypeOK, RequestOK, TallyOK, RunManifest, Manifests, BronzeManifest
<1>2. CASE root # Fixture
    BY <1>2 DEF TypeOK, RequestOK, TallyOK, RunManifest, Manifests, LiveIngestManifest
<1>3. QED
    BY <1>1, <1>2

-----------------------------------------------------------------------------
(* Type correctness. *)

\* A process that writes a partition of a snapshot is inside its requested range;
\* one that writes fixtures is past its range, and only writes days they have.
WritingInRange ==
    /\ stage \in {"write", "flush"} /\ root \in Snapshots => current <= to
    /\ root = Fixture => \A d \in pending : FixtureRows[d] \in Contents
    /\ root = Fixture /\ stage # "idle" => current > to

TypeInv == TypeOK /\ WritingInRange

LEMMA FilesStep == TypeInv /\ [Next]_vars => FilesOK'
<1> SUFFICES ASSUME TypeInv, [Next]_vars
             PROVE  FilesOK'
    OBVIOUS
<1> USE IngestAssumption DEF TypeInv, TypeOK, FilesOK, RequestOK
<1>1. CASE UNCHANGED files
    BY <1>1
<1>2. CASE OpenPartition
    BY <1>2 DEF OpenPartition
<1>3. CASE ClosePartition
    BY <1>3 DEF ClosePartition, Served
<1>4. CASE PartitionFails
    BY <1>4 DEF PartitionFails, Served
<1>5. CASE OpenManifest
    BY <1>5 DEF OpenManifest
<1>6. CASE CloseManifest
    BY <1>6, RunManifestType DEF CloseManifest
<1>7. QED
    BY <1>1, <1>2, <1>3, <1>4, <1>5, <1>6
       DEF Next, Start, Run, vars, StartFixture, StartLive, SkipExisting, FetchEmpty, FetchFails,
           FetchUnsupported, FetchRows, SerialiseFails, ManifestFails, Crash

LEMMA RequestStep == TypeInv /\ [Next]_vars => RequestOK' /\ WritingInRange'
<1> SUFFICES ASSUME TypeInv, [Next]_vars
             PROVE  RequestOK' /\ WritingInRange'
    OBVIOUS
<1> USE IngestAssumption DEF TypeInv, TypeOK, RequestOK, WritingInRange, Days, Roots, Stages
<1>1. ASSUME NEW a \in Days, NEW b \in Days, StartFixture(a, b)
      PROVE  RequestOK' /\ WritingInRange'
  <2>5. pending' = {d \in a .. b : FixtureRows[d] # Absent}
    BY <1>1 DEF StartFixture
  <2>1. \A d \in pending' : d \in Days /\ FixtureRows[d] \in Contents
    BY <2>5
  <2>2. stage' \in {"scan", "write"} /\ root' = Fixture /\ from' = a /\ to' = b /\ current' = b + 1
    BY <1>1 DEF StartFixture
  <2>3. current' \in 1 .. MaxDay + 1
    BY <2>2
  <2>4. QED
    BY <2>1, <2>2, <2>3
<1>2. ASSUME NEW s \in Snapshots, NEW a \in Days, NEW b \in Days, StartLive(s, a, b)
      PROVE  RequestOK' /\ WritingInRange'
    BY <1>2 DEF StartLive
<1>3. CASE SkipExisting \/ FetchEmpty \/ FetchFails
  <2>1. Scanning /\ NextDay /\ UNCHANGED <<stage, request, pending>>
    BY <1>3 DEF SkipExisting, FetchEmpty, FetchFails
  <2>2. current' \in 1 .. MaxDay + 1
    BY <2>1 DEF Scanning, NextDay
  <2>3. QED
    BY <2>1, <2>2 DEF Scanning
<1>9. CASE FetchRows
    BY <1>9 DEF FetchRows, Scanning
<1>4. CASE End
    BY <1>4 DEF End
<1>5. CASE OpenPartition \/ OpenManifest
    BY <1>5 DEF OpenPartition, OpenManifest
<1>6. CASE ClosePartition
    BY <1>6 DEF ClosePartition, NextDay
<1>7. CASE UNCHANGED vars
    BY <1>7 DEF vars
<1>8. QED
    BY <1>1, <1>2, <1>3, <1>4, <1>5, <1>6, <1>7, <1>9
       DEF Next, Start, Run, FetchUnsupported, SerialiseFails, PartitionFails, CloseManifest,
           ManifestFails, Crash

LEMMA TallyStep == TypeInv /\ [Next]_vars => TallyOK'
<1> SUFFICES ASSUME TypeInv, [Next]_vars
             PROVE  TallyOK'
    OBVIOUS
<1> USE IngestAssumption DEF TypeInv, TypeOK, RequestOK, TallyOK
<1>1. CASE UNCHANGED <<tally, crashes>>
    BY <1>1
<1>2. CASE SkipExisting \/ FetchEmpty \/ FetchFails
  <2>1. current \in Days /\ UNCHANGED <<entries, written, crashes>>
    BY <1>2 DEF SkipExisting, FetchEmpty, FetchFails, Scanning, Days
  <2>2. skipped' \in {skipped, skipped \cup {current}} /\ failed' \in {failed, failed \cup {current}}
    BY <1>2 DEF SkipExisting, FetchEmpty, FetchFails
  <2>3. QED
    BY <2>1, <2>2
<1>3. CASE End /\ crashes' \in 0 .. MaxCrashes
    BY <1>3 DEF End
<1>4. CASE ClosePartition
  <2>1. PICK d \in Days : \E c \in Served(d) :
           /\ NextGroup(d)
           /\ entries' = entries \cup {[day |-> d, sha |-> c]}
           /\ written' = IF root = Fixture THEN written ELSE written \cup {d}
    BY <1>4 DEF ClosePartition
  <2>2. Served(d) \subseteq Contents
    BY <2>1 DEF Served, NextGroup, WritingInRange
  <2>3. UNCHANGED <<skipped, failed, crashes>>
    BY <1>4 DEF ClosePartition
  <2>4. QED
    BY <2>1, <2>2, <2>3 DEF Entries
<1>5. CASE Crash
    BY <1>5 DEF Crash, End
<1>6. QED
    BY <1>1, <1>2, <1>3, <1>4, <1>5
       DEF Next, Start, Run, vars, StartFixture, StartLive, FetchUnsupported, FetchRows,
           OpenPartition, SerialiseFails, PartitionFails, OpenManifest, CloseManifest,
           ManifestFails

LEMMA TypeInvariance == Spec => []TypeInv
<1>1. Init => TypeInv
    BY IngestAssumption
       DEF Init, TypeInv, TypeOK, FilesOK, RequestOK, TallyOK, WritingInRange, Stages, Days, Roots
<1>2. TypeInv /\ [Next]_vars => TypeInv'
    BY FilesStep, RequestStep, TallyStep DEF TypeInv, TypeOK
<1>3. QED
    BY <1>1, <1>2, PTL DEF Spec

\* Every variable keeps its type, whatever date the source gives to its rows.
THEOREM TypeCorrect == Spec => []TypeOK
<1>1. TypeInv => TypeOK
    BY DEF TypeInv
<1>2. QED
    BY <1>1, TypeInvariance, PTL

-----------------------------------------------------------------------------
(* Kills, and fixture runs, whatever date the source gives to its rows. *)

Lost == {p \in Roots \X Days : disk[p[1]][p[2]] = Torn /\ ~InFlight(p[1], p[2])}

\* There may be infinitely many snapshots, but few partitions are lost.
LostInv == IsFiniteSet(Lost) /\ Cardinality(Lost) <= crashes

\* Only a killed write adds a partition to the lost ones.
LEMMA LostStep ==
    ASSUME TypeInv, [Next]_vars
    PROVE  \/ Lost' \subseteq Lost /\ crashes' = crashes
           \/ crashes' = crashes + 1 /\ \E p \in Roots \X Days : Lost' \subseteq Lost \cup {p}
<1>1. CASE disk' = disk /\ crashes' = crashes /\ stage # "flush"
  BY <1>1 DEF Lost, InFlight
<1>2. CASE OpenPartition
  <2>1. PICK d \in Days : NextGroup(d) /\ disk' = [disk EXCEPT ![root][d] = Torn]
    BY <1>2 DEF OpenPartition
  <2>2. /\ stage = "write" /\ stage' = "flush" /\ root' = root /\ pending' = pending
        /\ crashes' = crashes
    BY <1>2 DEF OpenPartition
  <2>3. InFlight(root, d)'
    BY <2>1, <2>2 DEF InFlight, NextGroup
  <2>4. \A r \in Roots, x \in Days : <<r, x>> # <<root, d>> => disk'[r][x] = disk[r][x]
    BY <2>1 DEF TypeInv, TypeOK, FilesOK
  <2>5. ASSUME NEW p \in Lost' PROVE p \in Lost
    <3>1. PICK r \in Roots, x \in Days : p = <<r, x>>
      BY DEF Lost
    <3>2. disk'[r][x] = Torn /\ ~InFlight(r, x)'
      BY <3>1 DEF Lost
    <3>3. <<r, x>> # <<root, d>>
      BY <2>2, <2>3, <3>2
    <3> QED
      BY <2>2, <2>4, <3>1, <3>2, <3>3 DEF Lost, InFlight
  <2> QED
    BY <2>2, <2>5
<1>3. CASE ClosePartition \/ PartitionFails
  <2>1. PICK d \in Days, left \in Contents \cup {Absent} :
          NextGroup(d) /\ disk' = [disk EXCEPT ![root][d] = left]
    <3>1. CASE ClosePartition
      <4>1. PICK d \in Days : \E c \in Served(d) :
              NextGroup(d) /\ disk' = [disk EXCEPT ![root][d] = c]
        BY <3>1 DEF ClosePartition
      <4> QED
        BY <4>1, IngestAssumption DEF Served
    <3>2. CASE PartitionFails
      <4>1. PICK d \in Days : \E left \in Served(d) \cup {Absent} :
              NextGroup(d) /\ disk' = [disk EXCEPT ![root][d] = left]
        BY <3>2 DEF PartitionFails
      <4> QED
        BY <4>1, IngestAssumption DEF Served
    <3> QED
      BY <1>3, <3>1, <3>2
  <2>2. stage = "flush" /\ stage' # "flush" /\ crashes' = crashes
    BY <1>3 DEF ClosePartition, PartitionFails, End
  <2>3. left # Torn /\ root \in Roots
    BY IngestAssumption DEF TypeInv, TypeOK, RequestOK
  <2>4. /\ disk'[root][d] = left
        /\ \A r \in Roots, x \in Days : <<r, x>> # <<root, d>> => disk'[r][x] = disk[r][x]
    BY <2>1, <2>3 DEF TypeInv, TypeOK, FilesOK
  <2>5. \A r \in Roots, x \in Days : InFlight(r, x) => <<r, x>> = <<root, d>>
    BY <2>1, IngestAssumption DEF InFlight, NextGroup, Days
  <2>6. ASSUME NEW p \in Lost' PROVE p \in Lost
    <3>1. PICK r \in Roots, x \in Days : p = <<r, x>>
      BY DEF Lost
    <3>2. disk'[r][x] = Torn
      BY <3>1 DEF Lost
    <3>3. <<r, x>> # <<root, d>>
      BY <2>3, <2>4, <3>2
    <3> QED
      BY <2>4, <2>5, <3>1, <3>2, <3>3 DEF Lost
  <2> QED
    BY <2>2, <2>6
<1>4. CASE Crash
  <2>1. disk' = disk /\ crashes' = crashes + 1 /\ stage' # "flush"
    BY <1>4 DEF Crash, End
  <2>2. \E d \in Days : \A x \in Days : NextGroup(x) => x = d
    <3>1. 1 \in Days /\ \A x, y \in Days : NextGroup(x) /\ NextGroup(y) => x = y
      BY IngestAssumption DEF Days, NextGroup
    <3> QED
      BY <3>1
  <2>3. PICK d \in Days : \A x \in Days : NextGroup(x) => x = d
    BY <2>2
  <2>4. <<root, d>> \in Roots \X Days
    BY DEF TypeInv, TypeOK, RequestOK
  <2>5. ASSUME NEW p \in Lost' PROVE p \in Lost \cup {<<root, d>>}
    <3>1. PICK r \in Roots, x \in Days : p = <<r, x>>
      BY DEF Lost
    <3>2. disk[r][x] = Torn
      BY <2>1, <3>1 DEF Lost
    <3> QED
      BY <2>3, <3>1, <3>2 DEF Lost, InFlight
  <2> QED
    BY <2>1, <2>4, <2>5
<1>5. CASE UNCHANGED vars
  BY <1>5 DEF vars, Lost, InFlight, NextGroup
<1>6. CASE Start
  BY <1>1, <1>6 DEF Start, StartFixture, StartLive
<1>7. CASE SkipExisting \/ FetchEmpty \/ FetchFails \/ FetchUnsupported \/ FetchRows
  <2>1. disk' = disk /\ crashes' = crashes /\ stage = "scan"
    BY <1>7 DEF SkipExisting, FetchEmpty, FetchFails, FetchUnsupported, FetchRows, Scanning
  <2> QED
    BY <1>1, <2>1
<1>8. CASE SerialiseFails \/ OpenManifest \/ CloseManifest \/ ManifestFails
  BY <1>1, <1>8 DEF SerialiseFails, OpenManifest, CloseManifest, ManifestFails
<1> QED
  BY <1>2, <1>3, <1>4, <1>5, <1>6, <1>7, <1>8 DEF Next, Run

LEMMA LostInvariance == Spec => []LostInv
<1>1. Init => LostInv
  <2> SUFFICES ASSUME Init PROVE LostInv
    OBVIOUS
  <2>1. Lost = {}
    BY IngestAssumption DEF Init, Lost
  <2> QED
    BY <2>1, FS_EmptySet DEF Init, LostInv
<1>2. TypeInv /\ LostInv /\ [Next]_vars => LostInv'
  <2> SUFFICES ASSUME TypeInv, LostInv, [Next]_vars PROVE LostInv'
    OBVIOUS
  <2>1. /\ IsFiniteSet(Lost) /\ Cardinality(Lost) \in Nat /\ Cardinality(Lost) <= crashes
        /\ crashes \in Nat
    BY FS_CardinalityType, IngestAssumption DEF LostInv, TypeInv, TypeOK, TallyOK
  <2>2. CASE Lost' \subseteq Lost /\ crashes' = crashes
    <3>1. IsFiniteSet(Lost') /\ Cardinality(Lost') <= Cardinality(Lost)
      BY <2>1, <2>2, FS_Subset
    <3>2. Cardinality(Lost') \in Nat
      BY <3>1, FS_CardinalityType
    <3>3. Cardinality(Lost') <= crashes'
      BY <2>1, <2>2, <3>1, <3>2
    <3> QED
      BY <3>1, <3>3 DEF LostInv
  <2>3. CASE crashes' = crashes + 1 /\ \E p \in Roots \X Days : Lost' \subseteq Lost \cup {p}
    <3>1. PICK p : Lost' \subseteq Lost \cup {p}
      BY <2>3
    <3>2. /\ IsFiniteSet(Lost \cup {p})
          /\ Cardinality(Lost \cup {p})
               = IF p \in Lost THEN Cardinality(Lost) ELSE Cardinality(Lost) + 1
      BY <2>1, FS_AddElement
    <3>3. IsFiniteSet(Lost') /\ Cardinality(Lost') <= Cardinality(Lost \cup {p})
      BY <3>1, <3>2, FS_Subset
    <3>4. Cardinality(Lost') \in Nat
      BY <3>3, FS_CardinalityType
    <3>5. Cardinality(Lost') <= crashes'
      BY <2>1, <2>3, <3>2, <3>3, <3>4
    <3> QED
      BY <3>3, <3>5 DEF LostInv
  <2> QED
    BY <2>2, <2>3, LostStep
<1> QED
  BY <1>1, <1>2, TypeInvariance, PTL DEF Spec

\* A kill costs at most the partition it interrupts; a failed write costs none.
THEOREM LosesOnePartition == Spec => []CrashLosesOnePartition
<1>1. LostInv => CrashLosesOnePartition
  BY DEF LostInv, Lost, CrashLosesOnePartition
<1> QED
  BY <1>1, LostInvariance, PTL

\* What a fixture run has written is whole, what it has not is still to be written, and
\* no other day has a file.
RepairInv ==
    /\ \A d \in Days : FixtureRows[d] = Absent => disk[Fixture][d] = Absent
    /\ root = Fixture /\ stage # "idle" =>
          \A d \in from .. to : d \notin pending => disk[Fixture][d] = FixtureRows[d]
    /\ root = Fixture /\ stage \in {"scan", "publish"} => pending = {}

LEMMA RepairStep ==
    ASSUME TypeInv, RepairInv, [Next]_vars
    PROVE  RepairInv'
<1> USE IngestAssumption DEF Roots
<1>1. /\ from .. to \subseteq Days /\ root \in Roots /\ Fixture \in Roots
      /\ disk \in [Roots -> [Days -> Contents \cup {Absent, Torn}]]
      /\ root = Fixture => \A d \in pending : FixtureRows[d] \in Contents
      /\ root = Fixture /\ stage # "idle" => current > to
      /\ current \in Int /\ to \in Int
  BY DEF TypeInv, TypeOK, FilesOK, RequestOK, WritingInRange, Days
<1>2. CASE UNCHANGED <<disk, stage, request, pending>>
  BY <1>2 DEF RepairInv
<1>3. CASE End /\ disk' = disk
  BY <1>3 DEF RepairInv, End
<1>4. ASSUME NEW a \in Days, NEW b \in Days, StartFixture(a, b)
      PROVE  RepairInv'
  <2>1. disk' = disk /\ root' = Fixture /\ from' = a /\ to' = b /\ a .. b \subseteq Days
    BY <1>4 DEF StartFixture, Days
  <2>2. pending' = {d \in a .. b : FixtureRows[d] # Absent}
    BY <1>4 DEF StartFixture
  <2>3. stage' \in {"scan", "write"} /\ (stage' = "scan" => pending' = {})
    BY <1>4 DEF StartFixture
  <2> QED
    BY <2>1, <2>2, <2>3 DEF RepairInv
<1>5. ASSUME NEW s \in Snapshots, NEW a \in Days, NEW b \in Days, StartLive(s, a, b)
      PROVE  RepairInv'
  BY <1>5 DEF StartLive, RepairInv
<1>6. CASE SkipExisting \/ FetchEmpty \/ FetchFails
  BY <1>6 DEF SkipExisting, FetchEmpty, FetchFails, RepairInv
<1>7. CASE FetchRows
  <2>1. root # Fixture
    BY <1>1, <1>7 DEF FetchRows, Scanning
  <2> QED
    BY <1>7, <2>1 DEF FetchRows, RepairInv
<1>8. CASE OpenPartition
  <2>1. PICK d \in Days : NextGroup(d) /\ disk' = [disk EXCEPT ![root][d] = Torn]
    BY <1>8 DEF OpenPartition
  <2>2. d \in pending /\ stage' = "flush" /\ UNCHANGED <<request, pending>> /\ stage = "write"
    BY <1>8, <2>1 DEF OpenPartition, NextGroup
  <2>3. \A x \in Days : root # Fixture \/ x # d => disk'[Fixture][x] = disk[Fixture][x]
    BY <1>1, <2>1
  <2> QED
    BY <1>1, <2>2, <2>3 DEF RepairInv
<1>9. CASE ClosePartition
  <2>5. PICK d \in Days : \E c \in Served(d) :
          /\ NextGroup(d) /\ disk' = [disk EXCEPT ![root][d] = c] /\ pending' = pending \ {d}
          /\ stage' = IF pending = {d} THEN "scan" ELSE "write"
    BY <1>9 DEF ClosePartition
  <2>1. PICK c \in Served(d) :
          /\ NextGroup(d) /\ disk' = [disk EXCEPT ![root][d] = c] /\ pending' = pending \ {d}
          /\ stage' = IF pending = {d} THEN "scan" ELSE "write"
    BY <2>5
  <2>2. d \in pending /\ UNCHANGED request /\ stage = "flush"
    BY <1>9, <2>1 DEF ClosePartition, NextGroup
  <2>3. \A x \in Days : root # Fixture \/ x # d => disk'[Fixture][x] = disk[Fixture][x]
    BY <1>1, <2>1
  <2>4. root = Fixture => disk'[Fixture][d] = FixtureRows[d]
    BY <1>1, <2>1 DEF Served
  <2> QED
    BY <1>1, <2>1, <2>2, <2>3, <2>4 DEF RepairInv
<1>10. CASE PartitionFails
  <2>5. PICK d \in Days : \E left \in Served(d) \cup {Absent} :
          NextGroup(d) /\ disk' = [disk EXCEPT ![root][d] = left]
    BY <1>10 DEF PartitionFails
  <2>1. PICK left \in Served(d) \cup {Absent} :
          NextGroup(d) /\ disk' = [disk EXCEPT ![root][d] = left]
    BY <2>5
  <2>2. d \in pending /\ stage' = "idle"
    BY <1>10, <2>1 DEF PartitionFails, NextGroup, End
  <2>3. \A x \in Days : root # Fixture \/ x # d => disk'[Fixture][x] = disk[Fixture][x]
    BY <1>1, <2>1
  <2> QED
    BY <1>1, <2>2, <2>3 DEF RepairInv
<1>11. CASE OpenManifest
  BY <1>11 DEF OpenManifest, RepairInv
<1>12. CASE UNCHANGED vars
  BY <1>2, <1>12 DEF vars
<1> QED
  BY <1>3, <1>4, <1>5, <1>6, <1>7, <1>8, <1>9, <1>10, <1>11, <1>12
     DEF Next, Start, Run, FetchUnsupported, SerialiseFails, CloseManifest, ManifestFails, Crash

\* A fixture run that comes to its manifest has repaired its range, whatever it found.
THEOREM FixturesRepair == Spec => []FixtureRunRepairs
<1>1. Init => RepairInv
  BY IngestAssumption DEF Init, RepairInv, Roots
<1>2. TypeInv /\ RepairInv /\ [Next]_vars => RepairInv'
  BY RepairStep
<1>3. RepairInv => FixtureRunRepairs
  BY DEF RepairInv, FixtureRunRepairs
<1> QED
  BY <1>1, <1>2, <1>3, TypeInvariance, PTL DEF Spec

-----------------------------------------------------------------------------
(* Every command ends: its steps are counted down. *)

DaysBehind == IF current <= to THEN to - current ELSE 0
DaysLeft == IF current <= to THEN to - current + 1 ELSE 0

\* A day that has rows takes three steps, a partition of a fixture run two, the
\* manifest two.
StepsLeft ==
    CASE stage = "idle" -> 0
      [] stage = "scan" -> 3 * DaysLeft + 2
      [] stage = "write" -> 3 * DaysBehind + 2 * Cardinality(pending) + 2
      [] stage = "flush" -> 3 * DaysBehind + 2 * Cardinality(pending) + 1
      [] stage = "publish" -> 1

\* While partitions are written there is one to write, and in a live run no other.
Busy ==
    stage \in {"write", "flush"} =>
        pending # {} /\ (root # Fixture => \E d \in Days : pending = {d})

Counted == StepsLeft \in 0 .. 3 * MaxDay + 2 /\ (StepsLeft = 0 <=> stage = "idle")

\* A command takes no more steps than this, each of its own steps leaves it fewer, and
\* nothing but another command gives it more.
RunsCountDown ==
    /\ []Counted
    /\ [][/\ Run => StepsLeft' < StepsLeft
          /\ ~Start => StepsLeft' <= StepsLeft]_vars

LEMMA BusyStep ==
    ASSUME TypeInv, Busy, [Next]_vars
    PROVE  Busy'
<1>1. CASE stage' \notin {"write", "flush"}
  BY <1>1 DEF Busy
<1>2. CASE UNCHANGED <<stage, pending, root>>
  BY <1>2 DEF Busy
<1>3. CASE \E a, b \in Days : StartFixture(a, b)
  BY <1>3 DEF StartFixture, Busy
<1>4. CASE FetchRows
  <2>1. current \in Days /\ RowDate[current] \in Days
    BY <1>4, IngestAssumption DEF FetchRows, Scanning, TypeInv, TypeOK, RequestOK, Days
  <2> QED
    BY <1>4, <2>1 DEF FetchRows, Busy
<1>5. CASE OpenPartition
  BY <1>5 DEF OpenPartition, Busy
<1>6. CASE ClosePartition
  BY <1>6 DEF ClosePartition, Busy, NextGroup, NextDay
<1> QED
  BY <1>1, <1>2, <1>3, <1>4, <1>5, <1>6
     DEF Next, Start, Run, vars, End, StartLive, SkipExisting, FetchEmpty, FetchFails,
         FetchUnsupported, SerialiseFails, PartitionFails, OpenManifest, CloseManifest,
         ManifestFails, Crash

LEMMA PendingSize ==
    ASSUME TypeOK
    PROVE  /\ IsFiniteSet(pending) /\ Cardinality(pending) \in 0 .. MaxDay
           /\ Cardinality(pending) = 0 <=> pending = {}
           /\ \A d \in pending : Cardinality(pending \ {d}) = Cardinality(pending) - 1
<1>1. /\ 1 \in Int /\ MaxDay \in Int /\ MaxDay \in Nat \ {0}
      /\ pending \subseteq 1 .. MaxDay
  BY IngestAssumption DEF TypeOK, RequestOK, Days
<1>2. IsFiniteSet(1 .. MaxDay) /\ Cardinality(1 .. MaxDay) = MaxDay
  BY <1>1, FS_Interval
<1>3. IsFiniteSet(pending) /\ Cardinality(pending) <= MaxDay
  BY <1>1, <1>2, FS_Subset
<1>4. Cardinality(pending) \in Nat /\ (Cardinality(pending) = 0 <=> pending = {})
  BY <1>3, FS_CardinalityType, FS_EmptySet
<1>5. \A d \in pending : Cardinality(pending \ {d}) = Cardinality(pending) - 1
  BY <1>3, FS_RemoveElement
<1> QED
  BY <1>1, <1>3, <1>4, <1>5

LEMMA StepsType ==
    TypeInv /\ Busy =>
        /\ DaysBehind \in 0 .. MaxDay /\ DaysLeft \in 0 .. MaxDay
        /\ StepsLeft \in 0 .. 3 * MaxDay + 2
        /\ StepsLeft = 0 <=> stage = "idle"
<1> SUFFICES ASSUME TypeInv, Busy
             PROVE  /\ DaysBehind \in 0 .. MaxDay /\ DaysLeft \in 0 .. MaxDay
                    /\ StepsLeft \in 0 .. 3 * MaxDay + 2
                    /\ StepsLeft = 0 <=> stage = "idle"
  OBVIOUS
<1>1. /\ MaxDay \in Nat \ {0} /\ to \in 1 .. MaxDay /\ current \in 1 .. MaxDay + 1
      /\ root \in Roots /\ stage \in Stages
  BY IngestAssumption DEF TypeInv, TypeOK, RequestOK, Days
<1>2. DaysBehind \in 0 .. MaxDay - 1 /\ DaysLeft \in 0 .. MaxDay
  BY <1>1 DEF DaysBehind, DaysLeft
<1>3. Cardinality(pending) \in 0 .. MaxDay /\ (pending # {} => Cardinality(pending) # 0)
  BY PendingSize DEF TypeInv
<1>4. ASSUME stage \in {"write", "flush"}
      PROVE  3 * DaysBehind + 2 * Cardinality(pending) + 2 \in 3 .. 3 * MaxDay + 2
  <2>1. CASE root = Fixture
    <3>1. DaysBehind = 0
      BY <1>1, <1>4, <2>1 DEF DaysBehind, TypeInv, WritingInRange
    <3> QED
      BY <1>1, <1>3, <1>4, <3>1 DEF Busy
  <2>2. CASE root # Fixture
    <3>1. PICK d \in Days : pending = {d}
      BY <1>4, <2>2 DEF Busy
    <3>2. Cardinality(pending) = 1
      BY <3>1, FS_Singleton
    <3> QED
      BY <1>1, <1>2, <3>2
  <2> QED
    BY <2>1, <2>2
<1>5. CASE stage \in {"write", "flush"}
  <2> DEFINE k == 3 * DaysBehind + 2 * Cardinality(pending)
  <2>1. k + 2 \in 3 .. 3 * MaxDay + 2 /\ k \in Nat
    BY <1>2, <1>3, <1>4, <1>5
  <2>2. StepsLeft \in {k + 1, k + 2}
    BY <1>5 DEF StepsLeft
  <2> HIDE DEF k
  <2> QED
    BY <1>1, <1>2, <1>5, <2>1, <2>2
<1>6. CASE stage \in {"idle", "scan", "publish"}
  BY <1>1, <1>2, <1>6 DEF StepsLeft
<1> QED
  BY <1>1, <1>2, <1>5, <1>6 DEF Stages

LEMMA StepsCounted == TypeInv /\ Busy => Counted
BY StepsType DEF Counted

LEMMA StepsCountedNext == (TypeInv /\ Busy)' => Counted'
BY StepsCounted, PTL

\* Each step of the running command.
LEMMA RunCounts ==
    ASSUME TypeInv, Busy, Run, StepsLeft' \in Nat, stage' = "idle" => StepsLeft' = 0
    PROVE  StepsLeft' < StepsLeft
<1>1. /\ MaxDay \in Nat \ {0} /\ to \in 1 .. MaxDay /\ current \in 1 .. MaxDay + 1
  BY IngestAssumption DEF TypeInv, TypeOK, RequestOK, Days
<1>2. /\ DaysBehind \in Nat /\ DaysLeft \in Nat /\ StepsLeft \in Nat
      /\ StepsLeft = 0 <=> stage = "idle"
  BY <1>1, StepsType
<1>3. /\ Cardinality(pending) \in Nat
      /\ \A d \in pending : Cardinality(pending \ {d}) = Cardinality(pending) - 1
  BY PendingSize DEF TypeInv
<1>4. CASE stage' = "idle" /\ stage # "idle"
  BY <1>2, <1>4
<1>5. CASE SkipExisting \/ FetchEmpty \/ FetchFails
  <2>1. Scanning /\ NextDay /\ UNCHANGED <<stage, to>>
    BY <1>5 DEF SkipExisting, FetchEmpty, FetchFails
  <2>2. DaysLeft' = DaysLeft - 1
    BY <1>1, <2>1 DEF DaysLeft, Scanning, NextDay
  <2>3. StepsLeft = 3 * DaysLeft + 2 /\ StepsLeft' = 3 * DaysLeft' + 2
    BY <2>1 DEF StepsLeft, Scanning
  <2> QED
    BY <1>2, <2>2, <2>3
<1>6. CASE FetchRows
  <2>1. /\ stage = "scan" /\ current <= to /\ pending' = {RowDate[current]}
        /\ stage' = "write" /\ UNCHANGED <<current, to>>
    BY <1>6 DEF FetchRows, Scanning
  <2>2. DaysBehind' = DaysLeft - 1
    BY <1>1, <2>1 DEF DaysLeft, DaysBehind
  <2>3. Cardinality(pending') = 1
    BY <2>1, FS_Singleton
  <2>4. StepsLeft = 3 * DaysLeft + 2
        /\ StepsLeft' = 3 * DaysBehind' + 2 * Cardinality(pending') + 2
    BY <2>1 DEF StepsLeft
  <2> QED
    BY <1>2, <2>2, <2>3, <2>4
<1>7. CASE OpenPartition
  <2>1. stage = "write" /\ stage' = "flush" /\ UNCHANGED <<current, to, pending>>
    BY <1>7 DEF OpenPartition
  <2>2. DaysBehind' = DaysBehind
    BY <2>1 DEF DaysBehind
  <2>3. /\ StepsLeft = 3 * DaysBehind + 2 * Cardinality(pending) + 2
        /\ StepsLeft' = 3 * DaysBehind' + 2 * Cardinality(pending) + 1
    BY <2>1 DEF StepsLeft
  <2> QED
    BY <1>2, <1>3, <2>2, <2>3
<1>8. CASE ClosePartition
  <2>1. PICK d \in pending :
          /\ pending' = pending \ {d}
          /\ IF pending = {d}
               THEN /\ stage' = "scan"
                    /\ IF root = Fixture THEN current' = current ELSE current' = current + 1
               ELSE stage' = "write" /\ current' = current
    BY <1>8 DEF ClosePartition, NextGroup, NextDay
  <2>2. stage = "flush" /\ to' = to
    BY <1>8 DEF ClosePartition
  <2>3. Cardinality(pending') = Cardinality(pending) - 1
    BY <1>3, <2>1
  <2>4. StepsLeft = 3 * DaysBehind + 2 * Cardinality(pending) + 1
    BY <2>2 DEF StepsLeft
  <2>5. CASE pending = {d}
    <3>1. Cardinality(pending) = 1
      BY <2>5, FS_Singleton
    <3>2. DaysLeft' = DaysBehind
      BY <1>1, <2>1, <2>2, <2>5 DEF DaysLeft, DaysBehind, TypeInv, TypeOK, RequestOK,
                                     WritingInRange, Roots
    <3>3. StepsLeft' = 3 * DaysLeft' + 2
      BY <2>1, <2>5 DEF StepsLeft
    <3> QED
      BY <1>2, <2>4, <3>1, <3>2, <3>3
  <2>6. CASE pending # {d}
    <3>1. DaysBehind' = DaysBehind
      BY <2>1, <2>2, <2>6 DEF DaysBehind
    <3>2. StepsLeft' = 3 * DaysBehind' + 2 * Cardinality(pending') + 2
      BY <2>1, <2>6 DEF StepsLeft
    <3> QED
      BY <1>2, <1>3, <2>3, <2>4, <3>1, <3>2
  <2> QED
    BY <2>5, <2>6
<1>9. CASE OpenManifest
  <2>1. stage = "scan" /\ stage' = "publish"
    BY <1>9 DEF OpenManifest
  <2>2. StepsLeft = 3 * DaysLeft + 2 /\ StepsLeft' = 1
    BY <2>1 DEF StepsLeft
  <2> QED
    BY <1>2, <2>2
<1> QED
  BY <1>4, <1>5, <1>6, <1>7, <1>8, <1>9
     DEF Run, End, Scanning, FetchUnsupported, SerialiseFails, PartitionFails, CloseManifest,
         ManifestFails

\* The ingest of any range ends, after three steps for each day and two more at most.
THEOREM CommandsCountDown == Spec => RunsCountDown
<1>1. Init => Busy
  BY DEF Init, Busy
<1>2. TypeInv /\ Busy /\ [Next]_vars => Busy'
  BY BusyStep
<1>3. Spec => [](TypeInv /\ Busy)
  BY <1>1, <1>2, TypeInvariance, PTL DEF Spec
<1>4. TypeInv /\ Busy => Counted
  BY StepsCounted
<1>5. ASSUME TypeInv, Busy, TypeInv', Busy', [Next]_vars
      PROVE  /\ Run => StepsLeft' < StepsLeft
             /\ ~Start => StepsLeft' <= StepsLeft
  <2>1. /\ StepsLeft \in Nat /\ StepsLeft' \in Nat
        /\ stage' = "idle" => StepsLeft' = 0
    <3>1. MaxDay \in Nat
      BY IngestAssumption
    <3>2. StepsLeft \in 0 .. 3 * MaxDay + 2
      BY <1>5, StepsType
    <3>3. StepsLeft' \in 0 .. 3 * MaxDay + 2 /\ (StepsLeft' = 0 <=> stage' = "idle")
      BY <1>5, StepsCountedNext DEF Counted
    <3> QED
      BY <3>1, <3>2, <3>3
  <2>2. Run => StepsLeft' < StepsLeft
    BY <1>5, <2>1, RunCounts
  <2>3. Crash => StepsLeft' <= StepsLeft
    BY <2>1 DEF Crash, End
  <2>4. UNCHANGED vars => StepsLeft' = StepsLeft
    BY DEF vars, StepsLeft, DaysLeft, DaysBehind
  <2> QED
    BY <1>5, <2>1, <2>2, <2>3, <2>4 DEF Next
<1>6. TypeInv /\ Busy /\ (TypeInv /\ Busy)' =>
         [/\ Run => StepsLeft' < StepsLeft
          /\ ~Start => StepsLeft' <= StepsLeft]_vars \/ ~[Next]_vars
  BY <1>5
<1> QED
  BY <1>3, <1>4, <1>6, PTL DEF Spec, RunsCountDown

-----------------------------------------------------------------------------
(* A daily source: manifests never go stale and account for every day. *)

Live == root \in Snapshots /\ stage # "idle"

\* Where a live run is: between the ends of its range, and the only partition it
\* writes is that of the current day, which it found absent.
LoopInv ==
    /\ Live => from <= current /\ (current <= to + 1 \/ current = from)
    /\ stage = "publish" => current > to
    /\ Live /\ stage \in {"write", "flush"} => pending = {current}
    /\ Live /\ stage = "write" => disk[root][current] = Absent
    /\ Live /\ stage = "flush" => disk[root][current] = Torn

\* What a live run has noted: the days behind it, each once, and for the written
\* ones the sha256 of the partition on disk.
TallyInv ==
    /\ stage = "idle" => entries = {} /\ written = {} /\ skipped = {} /\ failed = {}
    /\ Live => /\ written \cup skipped \cup failed = from .. current - 1
               /\ Disjoint(written, skipped, failed)
               /\ written = {e.day : e \in entries}
               /\ \A e \in entries : disk[root][e.day] = e.sha

IInv == TypeInv /\ LoopInv /\ TallyInv /\ ManifestMatchesDisk /\ ManifestAccounts

\* One step never changes a whole partition of a snapshot.
WriteOnce ==
    \A s \in Snapshots, d \in Days : disk[s][d] \in Contents => disk'[s][d] = disk[s][d]

LEMMA LoopStep ==
    ASSUME Daily, TypeInv, LoopInv, [Next]_vars
    PROVE  LoopInv'
<1> USE IngestAssumption DEF TypeInv, TypeOK, FilesOK, RequestOK, LoopInv, Live, Days, Roots
<1>1. ASSUME NEW a \in Days, NEW b \in Days, StartFixture(a, b)
      PROVE  LoopInv'
    BY <1>1 DEF StartFixture
<1>2. ASSUME NEW s \in Snapshots, NEW a \in Days, NEW b \in Days, StartLive(s, a, b)
      PROVE  LoopInv'
    BY <1>2 DEF StartLive
<1>3. CASE SkipExisting \/ FetchEmpty \/ FetchFails
  <2>1. stage = "scan" /\ current <= to /\ current' = current + 1 /\ UNCHANGED <<stage, request>>
    BY <1>3 DEF SkipExisting, FetchEmpty, FetchFails, Scanning, NextDay
  <2>2. QED
    BY <2>1
<1>4. CASE End
    BY <1>4 DEF End
<1>5. CASE FetchRows
    BY <1>5 DEF FetchRows, Scanning, Existing, Daily
<1>6. CASE OpenPartition
    BY <1>6 DEF OpenPartition, NextGroup
<1>7. CASE ClosePartition
  <2>1. stage = "flush" /\ UNCHANGED request
    BY <1>7 DEF ClosePartition
  <2>2. CASE root = Fixture
    BY <1>7, <2>1, <2>2 DEF ClosePartition
  <2>3. CASE root # Fixture
    <3>1. pending = {current} /\ current <= to
        BY <2>1, <2>3 DEF WritingInRange
    <3>2. stage' = "scan" /\ current' = current + 1
        BY <1>7, <2>3, <3>1 DEF ClosePartition, NextGroup, NextDay
    <3>3. QED
        BY <2>1, <2>3, <3>1, <3>2
  <2>4. QED
    BY <2>2, <2>3
<1>8. CASE OpenManifest
    BY <1>8 DEF OpenManifest
<1>9. CASE UNCHANGED vars
    BY <1>9 DEF vars
<1>10. QED
    BY <1>1, <1>2, <1>3, <1>4, <1>5, <1>6, <1>7, <1>8, <1>9
       DEF Next, Start, Run, FetchUnsupported, SerialiseFails, PartitionFails, CloseManifest,
           ManifestFails, Crash

LEMMA WriteOnceStep ==
    ASSUME TypeInv, LoopInv, [Next]_vars
    PROVE  WriteOnce
<1> SUFFICES ASSUME NEW s \in Snapshots, NEW d \in Days, disk[s][d] \in Contents
             PROVE  disk'[s][d] = disk[s][d]
    BY DEF WriteOnce
<1> USE IngestAssumption DEF TypeInv, TypeOK, FilesOK, RequestOK, LoopInv, Live, Roots
<1>1. CASE UNCHANGED disk
    BY <1>1
<1>2. CASE OpenPartition
    BY <1>2 DEF OpenPartition, NextGroup
<1>3. CASE ClosePartition
    BY <1>3 DEF ClosePartition, NextGroup
<1>4. CASE PartitionFails
    BY <1>4 DEF PartitionFails, NextGroup
<1>5. QED
    BY <1>1, <1>2, <1>3, <1>4
       DEF Next, Start, Run, vars, StartFixture, StartLive, SkipExisting, FetchEmpty, FetchFails,
           FetchUnsupported, FetchRows, SerialiseFails, OpenManifest, CloseManifest,
           ManifestFails, Crash

LEMMA DisjointAdd ==
    ASSUME NEW w, NEW k, NEW f, NEW d, Disjoint(w, k, f), d \notin w \cup k \cup f
    PROVE  /\ Disjoint(w \cup {d}, k, f)
           /\ Disjoint(w, k \cup {d}, f)
           /\ Disjoint(w, k, f \cup {d})
BY DEF Disjoint

LEMMA DaysOfEntries ==
    ASSUME NEW E, NEW d, NEW c
    PROVE  {e.day : e \in E \cup {[day |-> d, sha |-> c]}} = {e.day : e \in E} \cup {d}
<1>1. [day |-> d, sha |-> c].day = d
    OBVIOUS
<1>2. QED
    BY <1>1

LEMMA TallyInvStep ==
    ASSUME Daily, TypeInv, LoopInv, TallyInv, [Next]_vars
    PROVE  TallyInv'
<1> USE IngestAssumption
    DEF TypeInv, TypeOK, FilesOK, RequestOK, TallyOK, LoopInv, TallyInv, Live, Days, Roots
<1>1. CASE Start
  <2>1. stage = "idle" /\ stage' # "idle" /\ UNCHANGED <<disk, tally>>
    BY <1>1 DEF Start, StartFixture, StartLive
  <2>2. root' \in Snapshots => from' \in Int /\ current' = from'
    <3>1. ASSUME NEW a \in Days, NEW b \in Days, StartFixture(a, b)
          PROVE  root' \notin Snapshots
        BY <3>1 DEF StartFixture
    <3>2. ASSUME NEW a \in Days, NEW s \in Snapshots, NEW b \in Days, StartLive(s, a, b)
          PROVE  from' \in Int /\ current' = from'
        BY <3>2 DEF StartLive
    <3>3. QED
        BY <1>1, <3>1, <3>2 DEF Start
  <2>3. root' \in Snapshots => from' .. current' - 1 = {}
    BY <2>2
  <2>4. {e.day : e \in {}} = {}
    OBVIOUS
  <2>5. QED
    BY <2>1, <2>3, <2>4 DEF Disjoint
<1>2. CASE SkipExisting \/ FetchEmpty \/ FetchFails
  <2>1. /\ Scanning /\ NextDay /\ UNCHANGED <<disk, stage, request, entries, written>>
        /\ \/ skipped' = skipped \cup {current} /\ failed' = failed
           \/ failed' = failed \cup {current} /\ skipped' = skipped
    BY <1>2 DEF SkipExisting, FetchEmpty, FetchFails
  <2> SUFFICES ASSUME root \in Snapshots
               PROVE  TallyInv'
    BY <2>1 DEF Scanning
  <2>2. current' - 1 = current /\ from .. current = (from .. current - 1) \cup {current}
    BY <2>1 DEF Scanning, NextDay
  <2>3. current \notin written \cup skipped \cup failed
    BY <2>1 DEF Scanning
  <2>4. written' \cup skipped' \cup failed' = from' .. current' - 1
    BY <2>1, <2>2 DEF Scanning
  <2>7. Disjoint(written, skipped, failed)
    BY <2>1 DEF Scanning
  <2>8. /\ Disjoint(written, skipped \cup {current}, failed)
        /\ Disjoint(written, skipped, failed \cup {current})
    BY <2>3, <2>7, DisjointAdd, Zenon
  <2>5. Disjoint(written', skipped', failed')
    BY <2>1, <2>7, <2>8
  <2>6. QED
    BY <2>1, <2>4, <2>5 DEF Scanning
<1>3. CASE End
    BY <1>3 DEF End
<1>4. CASE FetchRows \/ OpenManifest
    BY <1>4 DEF FetchRows, OpenManifest, Scanning
<1>5. CASE OpenPartition
  <2> SUFFICES ASSUME root \in Snapshots
               PROVE  TallyInv'
    BY <1>5 DEF OpenPartition
  <2>1. disk' = [disk EXCEPT ![root][current] = Torn]
    BY <1>5 DEF OpenPartition, NextGroup
  <2>2. current \notin written
    BY <1>5 DEF OpenPartition
  <2>3. \A e \in entries : e.day # current /\ e.day \in Days
    BY <2>2 DEF Entries
  <2>4. \A e \in entries : disk'[root][e.day] = e.sha
    BY <1>5, <2>1, <2>3 DEF OpenPartition
  <2>5. QED
    BY <1>5, <2>4 DEF OpenPartition
<1>6. CASE ClosePartition
  <2> SUFFICES ASSUME root \in Snapshots
               PROVE  TallyInv'
    BY <1>6 DEF ClosePartition
  <2>1. PICK c \in Contents :
           /\ disk' = [disk EXCEPT ![root][current] = c]
           /\ entries' = entries \cup {[day |-> current, sha |-> c]}
           /\ written' = written \cup {current}
    BY <1>6 DEF ClosePartition, NextGroup, Served
  <2>2. stage' = "scan" /\ current' = current + 1 /\ UNCHANGED <<request, skipped, failed>>
    BY <1>6 DEF ClosePartition, NextGroup, NextDay
  <2>9. stage = "flush" /\ current <= to
    BY <1>6 DEF ClosePartition, WritingInRange
  <2>10. from <= current /\ current \in Days /\ from \in Days
    BY <2>9
  <2>3. /\ from .. current = (from .. current - 1) \cup {current}
        /\ current' - 1 = current
        /\ current \notin written \cup skipped \cup failed
    BY <2>2, <2>9, <2>10
  <2>4. \A e \in entries : e.day # current /\ e.day \in Days
    BY <2>3, <2>9 DEF Entries
  <2>11. disk'[root][current] = c /\ \A d \in Days : d # current => disk'[root][d] = disk[root][d]
    BY <2>1, <2>10
  <2>12. \A e \in entries : disk[root][e.day] = e.sha
    BY <2>9
  <2>5. \A e \in entries' : disk'[root][e.day] = e.sha
    BY <2>1, <2>4, <2>11, <2>12
  <2>6. written' = {e.day : e \in entries'}
    <3>1. written = {e.day : e \in entries}
        BY <2>9
    <3>2. QED
        BY <2>1, <3>1, DaysOfEntries
  <2>7. written' \cup skipped' \cup failed' = from' .. current' - 1 /\ Disjoint(written, skipped, failed)'
    BY <2>1, <2>2, <2>3, <2>9 DEF Disjoint
  <2>8. QED
    BY <2>2, <2>5, <2>6, <2>7
<1>7. CASE UNCHANGED vars
    BY <1>7 DEF vars
<1>8. QED
    BY <1>1, <1>2, <1>3, <1>4, <1>5, <1>6, <1>7
       DEF Next, Run, FetchUnsupported, SerialiseFails, PartitionFails, CloseManifest,
           ManifestFails, Crash

LEMMA ManifestStep ==
    ASSUME TypeInv, LoopInv, TallyInv, [Next]_vars, ManifestMatchesDisk, ManifestAccounts
    PROVE  ManifestMatchesDisk' /\ ManifestAccounts'
<1> USE IngestAssumption, ManifestAssumption DEF TypeInv, TypeOK, FilesOK, RequestOK, Roots
<1>1. WriteOnce
    BY WriteOnceStep
<1>2. \A s \in Snapshots : Published(s) =>
        /\ manifest[s] \in LiveIngestManifest
        /\ \A e \in manifest[s].entries : e.day \in Days /\ e.sha \in Contents
    BY DEF Published, LiveIngestManifest, Entries
<1>3. \A s \in Snapshots : Published(s) =>
        \A e \in manifest[s].entries : disk'[s][e.day] = e.sha
    BY <1>1, <1>2 DEF WriteOnce, ManifestMatchesDisk
<1>4. CASE \A s \in Snapshots : manifest'[s] \in {manifest[s], Torn}
    BY <1>3, <1>4 DEF ManifestMatchesDisk, ManifestAccounts, Published
<1>5. CASE CloseManifest
  <2> SUFFICES ASSUME NEW s \in Snapshots, Published(s)'
               PROVE  /\ \A e \in manifest'[s].entries : disk'[s][e.day] = e.sha
                      /\ LET m == manifest'[s] IN
                           /\ m.written \cup m.skipped \cup m.failed = m.from .. m.to
                           /\ Disjoint(m.written, m.skipped, m.failed)
                           /\ m.written = {e.day : e \in m.entries}
    BY DEF ManifestMatchesDisk, ManifestAccounts
  <2>1. CASE s # root
    <3>1. manifest'[s] = manifest[s] /\ Published(s)
        BY <1>5, <2>1 DEF CloseManifest, Published
    <3>2. QED
        BY <1>3, <3>1 DEF ManifestAccounts
  <2>2. CASE s = root
    <3>1. disk' = disk /\ manifest'[s] = RunManifest
        BY <1>5, <2>2 DEF CloseManifest
    <3>2. RunManifest = [from |-> from, to |-> to, entries |-> entries,
                         written |-> written, skipped |-> skipped, failed |-> failed]
        BY <2>2 DEF RunManifest
    <3>3. Live /\ current > to
        BY <1>5, <2>2 DEF CloseManifest, LoopInv, Live
    <3>4. from .. current - 1 = from .. to
        BY <3>3 DEF LoopInv, Days
    <3>5. /\ written \cup skipped \cup failed = from .. to
          /\ Disjoint(written, skipped, failed)
          /\ written = {e.day : e \in entries}
          /\ \A e \in entries : disk[root][e.day] = e.sha
        BY <3>3, <3>4 DEF TallyInv
    <3>6. QED
        BY <2>2, <3>1, <3>2, <3>5
  <2>3. QED
    BY <2>1, <2>2
<1>6. CASE UNCHANGED manifest
    BY <1>4, <1>6
<1>7. CASE OpenManifest
    BY <1>4, <1>7 DEF OpenManifest
<1>8. QED
    BY <1>5, <1>6, <1>7
       DEF Next, Start, Run, vars, StartFixture, StartLive, SkipExisting, FetchEmpty, FetchFails,
           FetchUnsupported, FetchRows, OpenPartition, ClosePartition, SerialiseFails,
           PartitionFails, ManifestFails, Crash

LEMMA IInvariance == ASSUME Daily PROVE Spec => []IInv
<1>1. Init => IInv
  <2> SUFFICES ASSUME Init
               PROVE  IInv
    OBVIOUS
  <2>1. TypeInv
    BY IngestAssumption
       DEF Init, TypeInv, TypeOK, FilesOK, RequestOK, TallyOK, WritingInRange, Stages, Days, Roots
  <2>2. LoopInv /\ TallyInv
    BY DEF Init, LoopInv, TallyInv, Live
  <2>3. \A s \in Snapshots : ~Published(s)
    BY DEF Init, Published, Roots
  <2>4. QED
    BY <2>1, <2>2, <2>3 DEF IInv, ManifestMatchesDisk, ManifestAccounts
<1>2. IInv /\ [Next]_vars => IInv'
    BY FilesStep, RequestStep, TallyStep, LoopStep, TallyInvStep, ManifestStep
       DEF IInv, TypeInv, TypeOK
<1>3. QED
    BY <1>1, <1>2, PTL DEF Spec

\* Whatever runs, failures and kills follow, a snapshot's manifest keeps telling
\* the truth about the partitions it lists.
THEOREM ManifestsNeverGoStale == ASSUME Daily PROVE Spec => []ManifestMatchesDisk
<1>1. IInv => ManifestMatchesDisk
    BY DEF IInv
<1>2. QED
    BY <1>1, IInvariance, PTL

\* Each live manifest accounts for each requested day exactly once.
THEOREM ManifestsAccount == ASSUME Daily PROVE Spec => []ManifestAccounts
<1>1. IInv => ManifestAccounts
    BY DEF IInv
<1>2. QED
    BY <1>1, IInvariance, PTL

\* A whole partition of a snapshot is never rewritten, although a rerun goes over
\* the same days again.
THEOREM NeverRewrites == ASSUME Daily PROVE Spec => NoRewrite
<1>1. IInv /\ [Next]_vars => [WriteOnce]_vars
    BY WriteOnceStep DEF IInv
<1>2. QED
    BY <1>1, IInvariance, PTL DEF Spec, NoRewrite, WriteOnce

-----------------------------------------------------------------------------
(* A daily source: the ingest implements the write-once store. *)

\* Which cells are in flight, and what a step does to the others.
LEMMA CellsOf ==
    ASSUME IInv
    PROVE  /\ \A s \in Snapshots, d \in Days :
                 InFlight(s, d) <=> stage = "flush" /\ s = root /\ d = current
           /\ stage = "flush" /\ root \in Snapshots =>
                 current \in Days /\ disk[root][current] = Torn
           /\ stage # "flush" => StoreCells = [s \in Snapshots |-> [d \in Days |-> disk[s][d]]]
<1> USE IngestAssumption
    DEF IInv, TypeInv, TypeOK, FilesOK, RequestOK, LoopInv, Live, InFlight, NextGroup, Days
<1>1. \A s \in Snapshots, d \in Days :
         InFlight(s, d) <=> stage = "flush" /\ s = root /\ d = current
    OBVIOUS
<1>2. stage = "flush" /\ root \in Snapshots => current \in Days /\ disk[root][current] = Torn
    BY DEF WritingInRange
<1>3. stage # "flush" => StoreCells = [s \in Snapshots |-> [d \in Days |-> disk[s][d]]]
    BY DEF StoreCells
<1>4. QED
    BY <1>1, <1>2, <1>3

\* A step that neither ends nor begins a write, and leaves the files, changes no cell.
LEMMA QuietStep ==
    ASSUME IInv, IInv', UNCHANGED files, stage # "flush", stage' # "flush"
    PROVE  UNCHANGED Store!vars
<1>1. UNCHANGED StoreCells
    BY CellsOf DEF StoreCells, InFlight
<1>2. UNCHANGED StorePublished
    BY DEF StorePublished, Published
<1>3. QED
    BY <1>1, <1>2 DEF Store!vars

\* The end of a write, in one of its three ways, is a step of the store.
LEMMA FlushStep ==
    ASSUME IInv, IInv', stage = "flush", stage' # "flush", UNCHANGED manifest,
           root \in Snapshots,
           NEW left \in Contents \cup {Absent, Torn},
           disk' = [disk EXCEPT ![root][current] = left]
    PROVE  [Store!Next]_(Store!vars)
<1> USE IngestAssumption DEF IInv, TypeInv, TypeOK, FilesOK, RequestOK, Roots
<1>1. StoreCells[root][current] = Absent /\ current \in Days
    BY CellsOf DEF StoreCells
<1> DEFINE V == Contents \cup {Absent, Torn}
           F == [StoreCells EXCEPT ![root][current] = left]
<1>8. StoreCells \in [Snapshots -> [Days -> V]] /\ StoreCells' \in [Snapshots -> [Days -> V]]
    BY DEF StoreCells
<1>9. F \in [Snapshots -> [Days -> V]]
    BY <1>8
<1>10. ASSUME NEW s \in Snapshots, NEW d \in Days
      PROVE  StoreCells'[s][d] = F[s][d]
    BY <1>1, CellsOf DEF StoreCells, InFlight
<1>2. StoreCells' = F
  <2> HIDE DEF F
  <2>1. ASSUME NEW s \in Snapshots
        PROVE  StoreCells'[s] = F[s]
    BY <1>8, <1>9, <1>10
  <2>2. QED
    BY <1>8, <1>9, <2>1
<1>3. UNCHANGED StorePublished
    BY DEF StorePublished, Published
<1>4. CASE left \in Contents
    BY <1>1, <1>2, <1>3, <1>4 DEF Store!Next, Store!Put
<1>5. CASE left = Torn
    BY <1>1, <1>2, <1>3, <1>5 DEF Store!Next, Store!Lose
<1>6. CASE left = Absent
  <2>1. StoreCells' = StoreCells
    <3>1. F[root] = StoreCells[root]
        BY <1>1, <1>6, <1>8
    <3>2. QED
        BY <1>2, <1>8, <1>9, <3>1
  <2>2. QED
    BY <1>3, <2>1 DEF Store!vars
<1>7. QED
    BY <1>4, <1>5, <1>6

LEMMA StoreInit == Init => Store!Init
<1> SUFFICES ASSUME Init
             PROVE  Store!Init
    OBVIOUS
<1>1. StoreCells = [s \in Snapshots |-> [d \in Days |-> Absent]]
    BY DEF Init, StoreCells, Roots
<1>2. StorePublished = [s \in Snapshots |-> {}]
    BY DEF Init, StorePublished, Published, Roots
<1>3. QED
    BY <1>1, <1>2 DEF Store!Init

LEMMA StoreStep ==
    ASSUME IInv, IInv', [Next]_vars
    PROVE  [Store!Next]_(Store!vars)
<1> USE IngestAssumption DEF IInv, TypeInv, TypeOK, FilesOK, RequestOK, Roots
<1>1. CASE UNCHANGED vars
    BY <1>1 DEF vars, Store!vars, StoreCells, StorePublished, InFlight, NextGroup, Published
<1>2. CASE UNCHANGED files /\ stage # "flush" /\ stage' # "flush"
    BY <1>2, QuietStep
<1>3. CASE OpenPartition
  <2>1. UNCHANGED StorePublished
    BY <1>3 DEF OpenPartition, StorePublished, Published
  <2>2. ASSUME NEW s \in Snapshots, NEW d \in Days
        PROVE  StoreCells'[s][d] = StoreCells[s][d]
    BY <1>3, CellsOf DEF OpenPartition, NextGroup, StoreCells, InFlight, LoopInv, Live
  <2>3. UNCHANGED StoreCells
    BY <2>2 DEF StoreCells
  <2>4. QED
    BY <2>1, <2>3 DEF Store!vars
<1>4. CASE stage = "flush" /\ stage' # "flush" /\ UNCHANGED manifest /\ root = Fixture
          /\ \A s \in Snapshots : disk'[s] = disk[s]
  <2>1. ASSUME NEW s \in Snapshots, NEW d \in Days
        PROVE  StoreCells'[s][d] = StoreCells[s][d]
    BY <1>4, CellsOf DEF StoreCells, InFlight
  <2>2. UNCHANGED StoreCells
    BY <2>1 DEF StoreCells
  <2>3. QED
    BY <1>4, <2>2 DEF Store!vars, StorePublished, Published
<1>5. CASE ClosePartition \/ PartitionFails \/ (Crash /\ stage = "flush")
  <2>1. stage = "flush" /\ stage' # "flush" /\ UNCHANGED manifest
    BY <1>5 DEF ClosePartition, PartitionFails, Crash, End
  <2>2. CASE root = Fixture
    <3>1. \A s \in Snapshots : disk'[s] = disk[s]
        BY <1>5, <2>2 DEF ClosePartition, PartitionFails, Crash
    <3>2. QED
        BY <1>4, <2>1, <2>2, <3>1
  <2>3. CASE root \in Snapshots
    <3>1. \E left \in Contents \cup {Absent, Torn} : disk' = [disk EXCEPT ![root][current] = left]
        BY <1>5, <2>1, <2>3, CellsOf
           DEF ClosePartition, PartitionFails, Crash, Served, InFlight
    <3>2. QED
        BY <2>1, <2>3, <3>1, FlushStep
  <2>4. QED
    BY <2>2, <2>3
<1>6. CASE OpenManifest \/ CloseManifest
  <2>1. UNCHANGED StoreCells
    BY <1>6 DEF OpenManifest, CloseManifest, End, StoreCells, InFlight
  <2>2. CASE root = Fixture
    <3>1. UNCHANGED StorePublished
        BY <1>6, <2>2 DEF OpenManifest, CloseManifest, StorePublished, Published
    <3>2. QED
        BY <2>1, <3>1 DEF Store!vars
  <2>3. CASE root \in Snapshots
    <3>1. PICK m \in LiveIngestManifest \cup {Torn} : manifest' = [manifest EXCEPT ![root] = m]
        BY <1>6, <2>3, RunManifestType DEF OpenManifest, CloseManifest
    <3> DEFINE claims == IF m = Torn THEN {} ELSE m.entries
    <3>2. StorePublished' = [StorePublished EXCEPT ![root] = claims]
        BY <2>3, <3>1, ManifestAssumption DEF StorePublished, Published, Manifests
    <3>3. claims \in SUBSET Store!Claims
        BY DEF LiveIngestManifest, Store!Claims, Entries
    <3>6. manifest'[root] = m /\ UNCHANGED disk /\ stage # "flush"
        BY <1>6, <2>3, <3>1 DEF OpenManifest, CloseManifest
    <3>7. \A e \in claims : disk[root][e.day] = e.sha /\ e.day \in Days
        BY <2>3, <3>1, <3>3, <3>6, ManifestAssumption
           DEF ManifestMatchesDisk, Published, Manifests, Store!Claims
    <3>4. \A e \in claims : StoreCells[root][e.day] = e.sha
        BY <2>3, <3>6, <3>7, CellsOf
    <3>5. QED
        BY <2>1, <2>3, <3>2, <3>3, <3>4 DEF Store!Next, Store!Publish
  <2>4. QED
    BY <2>2, <2>3
<1>7. QED
    BY <1>1, <1>2, <1>3, <1>5, <1>6
       DEF Next, Start, Run, StartFixture, StartLive, SkipExisting, FetchEmpty, FetchFails,
           FetchUnsupported, FetchRows, SerialiseFails, ManifestFails, Crash, Scanning, End

\* The ingest of a daily source implements the write-once store.
THEOREM ImplementsStore == ASSUME Daily PROVE Spec => StoreSpec
<1>1. IInv /\ IInv' /\ [Next]_vars => [Store!Next]_(Store!vars)
    BY StoreStep
<1>2. QED
    BY <1>1, StoreInit, IInvariance, PTL DEF Spec, StoreSpec, Store!Spec

=============================================================================
