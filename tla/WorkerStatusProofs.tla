------------------------- MODULE WorkerStatusProofs -------------------------
(***************************************************************************)
(* Theorems about WorkerStatus, for any number of processes that start,    *)
(* stop, crash and clean up after each other.                              *)
(***************************************************************************)
EXTENDS WorkerStatus, TLAPS

-----------------------------------------------------------------------------
(* The inductive invariant.                                                *)

\* A runtime row that an open cleanup has deleted is locked: it is still expired, and no
\* other cleanup has deleted it.
MarkedStaysExpired ==
  \A j \in Instance :
    /\ \A i \in marked[j].runtime : runtime[i].there /\ runtime[i].age = Expired
    /\ \A k \in Instance \ {j} : marked[j].runtime \cap marked[k].runtime = {}

\* Only the process itself inserts its row, so a heartbeat that found none still finds none;
\* and where there is no row, nothing is closed.
OwnRowOnly ==
  \A i \in Instance :
    /\ job[i].at = "insert" => ~runtime[i].there
    /\ runtime[i].closed => runtime[i].there

StatusInv == TypeOK /\ MarkedStaysExpired /\ OwnRowOnly

-----------------------------------------------------------------------------
\* The invariant holds initially.
LEMMA Initially == Init => StatusInv
BY DEF Init, StatusInv, TypeOK, MarkedStaysExpired, OwnRowOnly, NoRow, NoJob, NoMarks, Process,
   Age, Never, Fresh, Expired

\* The records, by the set of their values.
RowType == [age : Age, closed : BOOLEAN, there : BOOLEAN]
JobType == [at : {"idle", "update", "insert", "sweep", "sweep runtime", "sweep orphans"}, now : Age]
MarkType == [runtime : SUBSET Instance, cycle : SUBSET Instance]

\* TypeOK with each variable as a function of its own.
LEMMA Typed ==
  TypeOK <=> /\ process \in [Instance -> Process]
             /\ stopped \in [Instance -> BOOLEAN]
             /\ due \in [Instance -> BOOLEAN]
             /\ job \in [Instance -> JobType]
             /\ runtime \in [Instance -> RowType]
             /\ cycle \in [Instance -> Age \cup {Never}]
             /\ marked \in [Instance -> MarkType]
BY DEF TypeOK, RowType, JobType, MarkType

\* A changed field of a record leaves the others alone.
LEMMA Fields ==
  /\ \A r \in RowType, a \in Age : [r EXCEPT !.age = a] \in RowType
  /\ \A r \in RowType, b \in BOOLEAN : [r EXCEPT !.closed = b] \in RowType
  /\ \A j \in JobType, a \in Age : [j EXCEPT !.now = a] \in JobType
  /\ \A j \in JobType, l \in {"idle", "update", "insert", "sweep", "sweep runtime", "sweep orphans"} :
       [j EXCEPT !.at = l] \in JobType
  /\ \A m \in MarkType, S \in SUBSET Instance :
       /\ [m EXCEPT !.runtime = S] \in MarkType
       /\ [m EXCEPT !.cycle = S] \in MarkType
BY DEF RowType, JobType, MarkType

\* What the records are made of.
LEMMA Values ==
  /\ NoRow \in RowType /\ NoJob \in JobType /\ NoMarks \in MarkType
  /\ \A a \in Age : Aged(a) \in Age /\ Row(a, FALSE) \in RowType
  /\ Fresh \in Age /\ Never \notin Age
BY DEF RowType, JobType, MarkType, NoRow, NoJob, NoMarks, Age, Aged, Row, Fresh, Stale, Expired, Never

\* Every step preserves the types of the records.
LEMMA TypeStep == TypeOK /\ [Next]_vars => TypeOK'
<1> SUFFICES ASSUME TypeOK, [Next]_vars PROVE TypeOK'
  OBVIOUS
<1>0. /\ process \in [Instance -> Process] /\ stopped \in [Instance -> BOOLEAN]
      /\ due \in [Instance -> BOOLEAN] /\ job \in [Instance -> JobType]
      /\ runtime \in [Instance -> RowType] /\ cycle \in [Instance -> Age \cup {Never}]
      /\ marked \in [Instance -> MarkType]
      /\ \A i \in Instance : job[i].now \in Age /\ runtime[i].age \in Age
  BY Typed DEF JobType, RowType
<1>00. ASSUME process' \in [Instance -> Process], stopped' \in [Instance -> BOOLEAN],
              due' \in [Instance -> BOOLEAN], job' \in [Instance -> JobType],
              runtime' \in [Instance -> RowType], cycle' \in [Instance -> Age \cup {Never}],
              marked' \in [Instance -> MarkType]
       PROVE  TypeOK'
  BY <1>00 DEF TypeOK, RowType, JobType, MarkType
<1> USE <1>0, <1>00, Values
<1>1. CASE Tick
  <2>1. runtime' \in [Instance -> RowType]
    BY <1>1, Fields DEF Tick
  <2>2. job' \in [Instance -> JobType]
    BY <1>1, Fields DEF Tick
  <2>3. cycle' \in [Instance -> Age \cup {Never}]
    BY <1>1 DEF Tick
  <2>4. QED
    BY <1>1, <2>1, <2>2, <2>3 DEF Tick
<1>2. ASSUME NEW i \in Instance, Start(i) \/ Shutdown(i) \/ LeaveUnmarked(i) PROVE TypeOK'
  BY <1>2 DEF Start, Shutdown, LeaveUnmarked, Process
<1>3. ASSUME NEW i \in Instance, RecordCycle(i) PROVE TypeOK'
  BY <1>3 DEF RecordCycle
<1>4. ASSUME NEW i \in Instance, HeartbeatBegins(i) PROVE TypeOK'
  <2>1. [at |-> "update", now |-> Fresh] \in JobType
    BY DEF JobType
  <2>2. QED
    BY <1>4, <2>1 DEF HeartbeatBegins
<1>5. ASSUME NEW i \in Instance, maybe_cleanup(i)
      PROVE  job' \in [Instance -> JobType] /\ due' \in [Instance -> BOOLEAN]
  <2>1. [at |-> IF due[i] THEN "sweep" ELSE "idle", now |-> Fresh] \in JobType
    BY DEF JobType
  <2>2. QED
    BY <1>5, <2>1 DEF maybe_cleanup
<1>6. ASSUME NEW i \in Instance, HeartbeatUpdates(i) PROVE TypeOK'
  <2>1. job' \in [Instance -> JobType] /\ due' \in [Instance -> BOOLEAN]
    <3>1. CASE maybe_cleanup(i)
      BY <1>5, <3>1
    <3>2. CASE At(i, "insert") /\ UNCHANGED due
      BY <3>2, Fields DEF At
    <3>3. QED
      BY <1>6, <3>1, <3>2 DEF HeartbeatUpdates
  <2>2. runtime' \in [Instance -> RowType]
    <3> DEFINE r == [runtime[i] EXCEPT !.age = job[i].now]
    <3>1. r \in RowType
      BY Fields
    <3>2. UNCHANGED runtime \/ runtime' = [runtime EXCEPT ![i] = r]
      BY <1>6 DEF HeartbeatUpdates
    <3> HIDE DEF r
    <3>3. QED
      BY <3>1, <3>2
  <2>3. QED
    BY <1>6, <2>1, <2>2 DEF HeartbeatUpdates
<1>7. ASSUME NEW i \in Instance, HeartbeatInserts(i) PROVE TypeOK'
  BY <1>5, <1>7 DEF HeartbeatInserts
<1>8. ASSUME NEW i \in Instance, JobFails(i) \/ Crash(i) PROVE TypeOK'
  BY <1>8 DEF JobFails, Crash, Process
<1>9. ASSUME NEW i \in Instance, SweepCycles(i) \/ SweepRuntimes(i) PROVE TypeOK'
  <2> DEFINE b == [job[i] EXCEPT !.at = "sweep runtime"]
             c == [job[i] EXCEPT !.at = "sweep orphans"]
             m == [marked[i] EXCEPT !.cycle = {j \in ExpiredFor(i) : cycle[j] # Never}]
             n == [marked[i] EXCEPT !.runtime = ExpiredFor(i)]
  <2>0. b \in JobType /\ c \in JobType /\ m \in MarkType /\ n \in MarkType
    BY DEF JobType, MarkType, ExpiredFor
  <2>1. job' \in {[job EXCEPT ![i] = b], [job EXCEPT ![i] = c]}
        /\ marked' \in {[marked EXCEPT ![i] = m], [marked EXCEPT ![i] = n]}
    BY <1>9 DEF SweepCycles, SweepRuntimes, At
  <2> HIDE DEF b, c, m, n
  <2>2. job' \in [Instance -> JobType] /\ marked' \in [Instance -> MarkType]
    BY <2>0, <2>1
  <2>3. QED
    BY <1>9, <2>2 DEF SweepCycles, SweepRuntimes
<1>10. ASSUME NEW i \in Instance, SweepOrphans(i) PROVE TypeOK'
  BY <1>10 DEF SweepOrphans
<1>11. ASSUME NEW i \in Instance, MarkStopped(i) PROVE TypeOK'
  <2>1. OpenRow(i) \/ runtime[i].closed \in BOOLEAN
    BY DEF OpenRow, RowType
  <2>2. runtime' \in [Instance -> RowType]
    <3> DEFINE r == [runtime[i] EXCEPT !.closed = OpenRow(i) \/ @]
    <3>1. r \in RowType
      BY <2>1 DEF RowType
    <3>2. UNCHANGED runtime \/ runtime' = [runtime EXCEPT ![i] = r]
      BY <1>11 DEF MarkStopped
    <3> HIDE DEF r
    <3>3. QED
      BY <3>1, <3>2
  <2>3. QED
    BY <1>11, <2>2 DEF MarkStopped, Process
<1>12. CASE UNCHANGED vars
  BY <1>12 DEF vars
<1>13. QED
  BY <1>1, <1>2, <1>3, <1>4, <1>6, <1>7, <1>8, <1>9, <1>10, <1>11, <1>12 DEF Next, JobStep

-----------------------------------------------------------------------------
(* What a step may do to one row, and to the marks of one cleanup.         *)

\* The runtime row of i is left alone, ages, is refreshed or inserted by i itself, is closed
\* by i itself, or is deleted by the end of a cleanup that had it locked.
LEMMA RowStep ==
  ASSUME TypeOK, [Next]_vars, NEW i \in Instance
  PROVE  \/ runtime'[i] = runtime[i]
         \/ ~runtime[i].there /\ runtime'[i] = NoRow
         \/ /\ runtime[i].there /\ runtime'[i].there /\ (runtime'[i].closed <=> runtime[i].closed)
            /\ runtime'[i].age = Aged(runtime[i].age)
         \/ /\ OpenRow(i) /\ ~Locked("runtime", i)
            /\ runtime'[i].there /\ ~runtime'[i].closed
         \/ job[i].at = "insert" /\ runtime'[i].there /\ ~runtime'[i].closed
         \/ /\ (runtime'[i].there <=> runtime[i].there) /\ runtime'[i].age = runtime[i].age
            /\ (runtime'[i].closed <=> OpenRow(i) \/ runtime[i].closed)
         \/ /\ runtime'[i] = NoRow
            /\ \E j \in Instance : i \in marked[j].runtime /\ marked'[j] = NoMarks
<1>0. runtime \in [Instance -> RowType] /\ marked \in [Instance -> MarkType]
  BY Typed
<1> DEFINE Goal ==
         \/ runtime'[i] = runtime[i]
         \/ ~runtime[i].there /\ runtime'[i] = NoRow
         \/ /\ runtime[i].there /\ runtime'[i].there /\ (runtime'[i].closed <=> runtime[i].closed)
            /\ runtime'[i].age = Aged(runtime[i].age)
         \/ /\ OpenRow(i) /\ ~Locked("runtime", i)
            /\ runtime'[i].there /\ ~runtime'[i].closed
         \/ job[i].at = "insert" /\ runtime'[i].there /\ ~runtime'[i].closed
         \/ /\ (runtime'[i].there <=> runtime[i].there) /\ runtime'[i].age = runtime[i].age
            /\ (runtime'[i].closed <=> OpenRow(i) \/ runtime[i].closed)
         \/ /\ runtime'[i] = NoRow
            /\ \E j \in Instance : i \in marked[j].runtime /\ marked'[j] = NoMarks
<1>1. CASE Tick
  BY <1>0, <1>1 DEF Tick, RowType
<1>2. ASSUME UNCHANGED runtime PROVE Goal
  BY <1>2
<1>3. ASSUME NEW j \in Instance, HeartbeatUpdates(j) PROVE Goal
  <2>1. CASE j = i /\ OpenRow(i) /\ runtime' = [runtime EXCEPT ![i].age = job[i].now]
    BY <1>0, <1>3, <2>1 DEF HeartbeatUpdates, OpenRow, RowType
  <2>2. CASE j # i \/ UNCHANGED runtime
    BY <1>0, <1>3, <2>2 DEF HeartbeatUpdates
  <2>3. QED
    BY <1>3, <2>1, <2>2 DEF HeartbeatUpdates
<1>4. ASSUME NEW j \in Instance, HeartbeatInserts(j) PROVE Goal
  BY <1>0, <1>4 DEF HeartbeatInserts, Row
<1>5. ASSUME NEW j \in Instance, SweepOrphans(j) PROVE Goal
  <2>1. runtime' = [k \in Instance |-> IF k \in marked[j].runtime THEN NoRow ELSE runtime[k]]
        /\ marked' = [marked EXCEPT ![j] = NoMarks]
    BY <1>5 DEF SweepOrphans
  <2>2. QED
    BY <1>0, <2>1
<1>6. ASSUME NEW j \in Instance, MarkStopped(j) PROVE Goal
  <2> DEFINE r == [runtime[j] EXCEPT !.closed = OpenRow(j) \/ @]
  <2>1. UNCHANGED runtime \/ runtime' = [runtime EXCEPT ![j] = r]
    BY <1>6 DEF MarkStopped
  <2>2. (r.closed <=> OpenRow(j) \/ runtime[j].closed) /\ r.there = runtime[j].there /\ r.age = runtime[j].age
    BY <1>0 DEF RowType
  <2> HIDE DEF r
  <2>3. CASE runtime' = [runtime EXCEPT ![j] = r]
    <3>1. runtime'[i] = IF i = j THEN r ELSE runtime[i]
      BY <1>0, <2>3
    <3>2. QED
      BY <2>2, <3>1
  <2>4. QED
    BY <1>2, <2>1, <2>3
<1>7. ASSUME NEW j \in Instance,
             Start(j) \/ RecordCycle(j) \/ HeartbeatBegins(j) \/ JobFails(j) \/ SweepCycles(j)
             \/ SweepRuntimes(j) \/ Shutdown(j) \/ LeaveUnmarked(j) \/ Crash(j)
      PROVE  UNCHANGED runtime
  BY <1>7 DEF Start, RecordCycle, HeartbeatBegins, JobFails, SweepCycles, SweepRuntimes, Shutdown,
     LeaveUnmarked, Crash
<1>8. CASE UNCHANGED vars
  BY <1>2, <1>8 DEF vars
<1> HIDE DEF Goal
<1>9. Goal
  BY <1>1, <1>2, <1>3, <1>4, <1>5, <1>6, <1>7, <1>8 DEF Next, JobStep, Goal
<1>10. QED
  BY <1>9 DEF Goal

\* The runtime rows that j's cleanup holds change only when it deletes them or ends.
LEMMA MarkStep ==
  ASSUME TypeOK, [Next]_vars, NEW j \in Instance
  PROVE  marked'[j].runtime \subseteq marked[j].runtime \/ SweepRuntimes(j)
<1>0. marked \in [Instance -> MarkType]
  BY Typed
<1>1. ASSUME NEW i \in Instance, JobFails(i) \/ Crash(i) \/ SweepOrphans(i)
      PROVE  marked'[j].runtime \subseteq marked[j].runtime
  <2>1. marked' = [marked EXCEPT ![i] = NoMarks]
    BY <1>1 DEF JobFails, Crash, SweepOrphans
  <2>2. NoMarks.runtime = {}
    BY DEF NoMarks
  <2>3. QED
    BY <1>0, <2>1, <2>2
<1>2. ASSUME NEW i \in Instance, SweepCycles(i) PROVE marked'[j].runtime \subseteq marked[j].runtime
  <2> DEFINE m == [marked[i] EXCEPT !.cycle = {k \in ExpiredFor(i) : cycle[k] # Never}]
  <2>1. marked' = [marked EXCEPT ![i] = m]
    BY <1>2 DEF SweepCycles
  <2>2. m.runtime = marked[i].runtime
    BY <1>0 DEF MarkType
  <2> HIDE DEF m
  <2>3. QED
    BY <1>0, <2>1, <2>2
<1>3. ASSUME NEW i \in Instance, SweepRuntimes(i), i # j PROVE marked'[j].runtime \subseteq marked[j].runtime
  BY <1>0, <1>3 DEF SweepRuntimes
<1>4. ASSUME UNCHANGED marked PROVE marked'[j].runtime \subseteq marked[j].runtime
  BY <1>4
<1>5. QED
  BY <1>1, <1>2, <1>3, <1>4 DEF Next, JobStep, Tick, Start, RecordCycle, HeartbeatBegins,
     HeartbeatUpdates, HeartbeatInserts, Shutdown, MarkStopped, LeaveUnmarked, vars

\* A heartbeat inserts only after its UPDATE found no row.
LEMMA InsertStep ==
  ASSUME TypeOK, [Next]_vars, NEW i \in Instance, job'[i].at = "insert"
  PROVE  \/ job[i].at = "insert" /\ ~HeartbeatInserts(i)
         \/ ~runtime[i].there /\ UNCHANGED runtime
<1>0. job \in [Instance -> JobType]
  BY Typed
<1>1. ~HeartbeatInserts(i)
  <2>1. ASSUME maybe_cleanup(i) PROVE job'[i].at \in {"sweep", "idle"}
    BY <1>0, <2>1 DEF maybe_cleanup
  <2>2. QED
    BY <2>1 DEF HeartbeatInserts
<1>2. CASE Tick
  BY <1>0, <1>1, <1>2 DEF Tick, JobType
<1>3. ASSUME NEW j \in Instance, HeartbeatUpdates(j)
      PROVE  job[i].at = "insert" \/ (~runtime[i].there /\ UNCHANGED runtime)
  <2>1. CASE j = i
    BY <1>0, <1>3, <2>1 DEF HeartbeatUpdates, maybe_cleanup
  <2>2. CASE j # i
    BY <1>0, <1>3, <2>2 DEF HeartbeatUpdates, maybe_cleanup, At
  <2>3. QED
    BY <2>1, <2>2
<1>4. ASSUME NEW j \in Instance, HeartbeatInserts(j) PROVE job[i].at = "insert"
  BY <1>0, <1>1, <1>4 DEF HeartbeatInserts, maybe_cleanup
<1>5. ASSUME NEW j \in Instance, HeartbeatBegins(j) \/ JobFails(j) \/ SweepOrphans(j) \/ Crash(j)
      PROVE  job[i].at = "insert"
  <2> DEFINE b == [at |-> "update", now |-> Fresh]
  <2>1. job' = [job EXCEPT ![j] = b] \/ job' = [job EXCEPT ![j] = NoJob]
    BY <1>5 DEF HeartbeatBegins, JobFails, SweepOrphans, Crash
  <2>2. b.at # "insert" /\ NoJob.at # "insert"
    BY DEF NoJob
  <2> HIDE DEF b
  <2>3. QED
    BY <1>0, <2>1, <2>2
<1>6. ASSUME NEW j \in Instance, SweepCycles(j) \/ SweepRuntimes(j) PROVE job[i].at = "insert"
  BY <1>0, <1>6 DEF SweepCycles, SweepRuntimes, At, JobType
<1>7. QED
  BY <1>1, <1>2, <1>3, <1>4, <1>5, <1>6 DEF Next, JobStep, Start, RecordCycle, Shutdown,
     MarkStopped, LeaveUnmarked, vars

\* Nobody but i inserts the row of i.
LEMMA InsertedByOwner ==
  ASSUME TypeOK, [Next]_vars, NEW i \in Instance, ~runtime[i].there, ~HeartbeatInserts(i)
  PROVE  ~runtime'[i].there
<1>0. runtime \in [Instance -> RowType]
  BY Typed
<1>1. ASSUME NEW j \in Instance, HeartbeatInserts(j) PROVE ~runtime'[i].there
  BY <1>0, <1>1 DEF HeartbeatInserts
<1>2. ASSUME NEW j \in Instance, HeartbeatUpdates(j) PROVE ~runtime'[i].there
  BY <1>0, <1>2 DEF HeartbeatUpdates, OpenRow, RowType
<1>3. ASSUME NEW j \in Instance, SweepOrphans(j) PROVE ~runtime'[i].there
  BY <1>0, <1>3 DEF SweepOrphans, NoRow
<1>4. ASSUME NEW j \in Instance, MarkStopped(j) PROVE ~runtime'[i].there
  BY <1>0, <1>4 DEF MarkStopped, RowType
<1>5. CASE Tick
  BY <1>5 DEF Tick, NoRow
<1>6. QED
  BY <1>1, <1>2, <1>3, <1>4, <1>5 DEF Next, JobStep, Start, RecordCycle, HeartbeatBegins, JobFails,
     SweepCycles, SweepRuntimes, Shutdown, LeaveUnmarked, Crash, vars

-----------------------------------------------------------------------------
(* The step.                                                               *)

\* Locks, the second look of the DELETE and the one writer of each row keep the invariant.
LEMMA StatusStep == StatusInv /\ [Next]_vars => StatusInv'
<1> SUFFICES ASSUME StatusInv, [Next]_vars PROVE StatusInv'
  OBVIOUS
<1>0. TypeOK /\ MarkedStaysExpired /\ OwnRowOnly /\ TypeOK'
  BY TypeStep DEF StatusInv
<1>1. runtime \in [Instance -> RowType] /\ marked \in [Instance -> MarkType]
      /\ marked' \in [Instance -> MarkType]
  BY <1>0, Typed DEF TypeOK, MarkType
<1>2. ASSUME NEW j \in Instance, SweepRuntimes(j)
      PROVE  /\ UNCHANGED runtime
             /\ marked'[j].runtime = ExpiredFor(j)
             /\ \A k \in Instance \ {j} : marked'[k] = marked[k]
             /\ \A i \in ExpiredFor(j), k \in Instance : i \notin marked[k].runtime
  <2> DEFINE n == [marked[j] EXCEPT !.runtime = ExpiredFor(j)]
  <2>1. marked' = [marked EXCEPT ![j] = n] /\ UNCHANGED runtime
    BY <1>2 DEF SweepRuntimes
  <2>2. n.runtime = ExpiredFor(j)
    BY <1>1 DEF MarkType
  <2>3. \A i \in ExpiredFor(j), k \in Instance : i \notin marked[k].runtime
    BY <1>2 DEF SweepRuntimes, Locked
  <2> HIDE DEF n
  <2>4. QED
    BY <1>1, <2>1, <2>2, <2>3
<1>3. ASSUME NEW j \in Instance, NEW i \in marked'[j].runtime PROVE runtime'[i].there /\ runtime'[i].age = Expired
  <2>0. i \in Instance
    BY <1>1 DEF MarkType
  <2>1. CASE SweepRuntimes(j)
    BY <1>2, <1>3, <2>1 DEF ExpiredFor
  <2>2. CASE marked'[j].runtime \subseteq marked[j].runtime
    <3>1. i \in marked[j].runtime /\ runtime[i].there /\ runtime[i].age = Expired
      BY <1>0, <2>2 DEF MarkedStaysExpired
    <3>2. Locked("runtime", i)
      BY <3>1 DEF Locked
    <3>3. job[i].at # "insert"
      BY <1>0, <2>0, <3>1 DEF OwnRowOnly
    <3>4. ~\E k \in Instance : i \in marked[k].runtime /\ marked'[k] = NoMarks
      BY <1>0, <1>3, <3>1 DEF MarkedStaysExpired, NoMarks
    <3>5. Aged(Expired) = Expired
      BY DEF Aged, Expired, Fresh
    <3>6. QED
      BY <1>0, <2>0, <3>1, <3>2, <3>3, <3>4, <3>5, RowStep
  <2>3. QED
    BY <1>0, <2>1, <2>2, MarkStep
<1>4. ASSUME NEW j \in Instance, NEW k \in Instance, j # k
      PROVE  marked'[j].runtime \cap marked'[k].runtime = {}
  <2>1. CASE SweepRuntimes(j)
    BY <1>2, <1>4, <2>1
  <2>2. CASE SweepRuntimes(k)
    BY <1>2, <1>4, <2>2
  <2>3. CASE ~SweepRuntimes(j) /\ ~SweepRuntimes(k)
    <3>1. marked'[j].runtime \subseteq marked[j].runtime /\ marked'[k].runtime \subseteq marked[k].runtime
      BY <1>0, <2>3, MarkStep
    <3>2. marked[j].runtime \cap marked[k].runtime = {}
      BY <1>0, <1>4 DEF MarkedStaysExpired
    <3>3. QED
      BY <3>1, <3>2
  <2>4. QED
    BY <2>1, <2>2, <2>3
<1>5. ASSUME NEW i \in Instance, job'[i].at = "insert" PROVE ~runtime'[i].there
  <2>1. CASE ~runtime[i].there /\ UNCHANGED runtime
    BY <2>1
  <2>2. CASE job[i].at = "insert" /\ ~HeartbeatInserts(i)
    <3>1. ~runtime[i].there
      BY <1>0, <2>2 DEF OwnRowOnly
    <3>2. QED
      BY <1>0, <1>5, <2>2, <3>1, InsertedByOwner
  <2>3. QED
    BY <1>0, <1>5, <2>1, <2>2, InsertStep
<1>6. ASSUME NEW i \in Instance, runtime'[i].closed PROVE runtime'[i].there
  BY <1>0, <1>6, RowStep DEF OwnRowOnly, NoRow, OpenRow
<1>7. QED
  BY <1>0, <1>3, <1>4, <1>5, <1>6 DEF StatusInv, MarkedStaysExpired, OwnRowOnly

\* The inductive invariant of the liveness records.
THEOREM Invariance == Spec => []StatusInv
<1>1. Init /\ [][Next]_vars => []StatusInv
  BY Initially, StatusStep, PTL
<1>2. QED
  BY <1>1, PTL DEF Spec

\* After mark_stopped a late heartbeat of the same process cannot reopen or refresh the row:
\* only time and the cleanup of another process touch it.
THEOREM StopsAreFinal == Spec => StopIsFinal
<1> DEFINE A == \A i \in Instance :
                  runtime[i].closed => \/ ~runtime'[i].there
                                       \/ runtime'[i].closed /\ runtime'[i].age >= runtime[i].age
<1>1. ASSUME StatusInv, [Next]_vars, NEW i \in Instance, runtime[i].closed
      PROVE  ~runtime'[i].there \/ (runtime'[i].closed /\ runtime'[i].age >= runtime[i].age)
  <2>1. TypeOK /\ runtime[i].there /\ runtime[i].age \in 0..2 /\ job[i].at # "insert" /\ ~OpenRow(i)
    BY <1>1, Typed DEF StatusInv, OwnRowOnly, OpenRow, RowType, Age, Fresh, Expired
  <2>2. Aged(runtime[i].age) >= runtime[i].age
    BY <2>1 DEF Aged, Fresh, Stale, Expired
  <2>3. QED
    BY <1>1, <2>1, <2>2, RowStep DEF NoRow
<1>2. StatusInv /\ [Next]_vars => [A]_vars
  BY <1>1
<1>3. Init /\ [][Next]_vars => [][A]_vars
  BY Initially, StatusStep, <1>2, PTL
<1>4. QED
  BY <1>3, PTL DEF Spec, StopIsFinal

\* A process that comes back between the statements of another process's cleanup keeps its
\* row: what a cleanup deletes was expired when it committed.
THEOREM HeardOfProcessesAreKept == Spec => HeardOfIsKept
<1> DEFINE A == \A i \in Instance :
                  runtime[i].there /\ ~runtime'[i].there => runtime[i].age = Expired
<1>1. ASSUME StatusInv, [Next]_vars, NEW i \in Instance, runtime[i].there, ~runtime'[i].there
      PROVE  runtime[i].age = Expired
  BY <1>1, RowStep DEF StatusInv, MarkedStaysExpired
<1>2. StatusInv /\ [Next]_vars => [A]_vars
  BY <1>1
<1>3. Init /\ [][Next]_vars => [][A]_vars
  BY Initially, StatusStep, <1>2, PTL
<1>4. QED
  BY <1>3, PTL DEF Spec, HeardOfIsKept


=============================================================================
