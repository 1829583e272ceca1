--------------------------- MODULE SnapshotStore ---------------------------
(***************************************************************************)
(* What the Bronze layer promises to whoever reads a snapshot: a store of  *)
(* write-once cells (README.md:119-121 and docs/operator.md:64-82).  A     *)
(* cell is filled once and never changes afterwards, a cell can be lost by *)
(* an interrupted write, and whatever a snapshot publishes about a cell is *)
(* true of that cell.                                                      *)
(***************************************************************************)

CONSTANTS
    Snapshots,  \* the snapshot roots
    Days,       \* the calendar days a cell may be dated
    Contents,   \* the contents a cell may be given
    Empty,      \* a cell nobody has filled
    Lost        \* a cell whose write was interrupted

VARIABLES
    cells,      \* cells[s][d] is the content of day d in snapshot s
    published   \* published[s] is the set of claims the snapshot makes

vars == <<cells, published>>

\* A claim says which content a day has: the path and sha256 of a manifest entry.
Claims == [day : Days, sha : Contents]

TypeOK ==
    /\ cells \in [Snapshots -> [Days -> Contents \cup {Empty, Lost}]]
    /\ published \in [Snapshots -> SUBSET Claims]

Init ==
    /\ cells = [s \in Snapshots |-> [d \in Days |-> Empty]]
    /\ published = [s \in Snapshots |-> {}]

Put(s, d, c) ==
    /\ cells[s][d] = Empty
    /\ cells' = [cells EXCEPT ![s][d] = c]
    /\ UNCHANGED published

Lose(s, d) ==
    /\ cells[s][d] = Empty
    /\ cells' = [cells EXCEPT ![s][d] = Lost]
    /\ UNCHANGED published

\* The claims of a snapshot are replaced as a whole, by true ones.
Publish(s, claims) ==
    /\ \A e \in claims : cells[s][e.day] = e.sha
    /\ published' = [published EXCEPT ![s] = claims]
    /\ UNCHANGED cells

Next ==
    \E s \in Snapshots :
        \/ \E d \in Days, c \in Contents : Put(s, d, c)
        \/ \E d \in Days : Lose(s, d)
        \/ \E claims \in SUBSET Claims : Publish(s, claims)

Spec == Init /\ [][Next]_vars

=============================================================================
