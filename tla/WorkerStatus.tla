---------------------------- MODULE WorkerStatus ----------------------------
(***************************************************************************)
(* The liveness records of mailer_agent/worker_status.py: every process    *)
(* that runs the scheduler keeps one row in worker_runtime_status, which   *)
(* its heartbeat job refreshes, its graceful shutdown (worker.py) closes   *)
(* and the housekeeping of the other processes eventually deletes, and one *)
(* row per job in worker_cycle_status (one job is enough here).            *)
(*                                                                         *)
(* Time is the age of a timestamp: Fresh up to the stale threshold, Stale  *)
(* up to the retention window, Expired beyond it.  A job's statements are  *)
(* steps of their own; its transaction ends with the last.                 *)
(* PostgreSQL at READ COMMITTED: a statement sees what is committed when   *)
(* it starts, rows deleted by an open transaction stay locked, and who     *)
(* waited for a lock evaluates its WHERE clause again.                     *)
(***************************************************************************)
EXTENDS Naturals, FiniteSets

CONSTANTS Instance,   \* instance_id: one per process start
          Observed    \* bound: those that work and may end; the others only keep records

ASSUME ObservedAssumption == Observed \subseteq Instance

VARIABLES process,   \* where the process stands, see Process
          stopped,   \* _stopped of the recorder
          job,       \* the heartbeat job: [at, now]; now is the clock it read
          due,       \* _CLEANUP_EVERY has passed since the last cleanup
          runtime,   \* worker_runtime_status: [age, closed] or NoRow
          cycle,     \* worker_cycle_status: the age of last_cycle_at or Never
          marked     \* the rows that the instance's open cleanup has deleted so far

vars == <<process, stopped, job, due, runtime, cycle, marked>>

Process == {"absent", "running", "stopping", "gone"}
Fresh == 0
Stale == 1
Expired == 2
Age == Fresh..Expired
Never == 3   \* the age of last_cycle_at where there is no row
NoRow == [age |-> Fresh, closed |-> FALSE, there |-> FALSE]
Row(age, closed) == [age |-> age, closed |-> closed, there |-> TRUE]
NoJob == [at |-> "idle", now |-> Fresh]
NoMarks == [runtime |-> {}, cycle |-> {}]

TypeOK ==
  /\ process \in [Instance -> Process]
  /\ {stopped, due} \subseteq [Instance -> BOOLEAN]
  /\ job \in [Instance -> [at : {"idle", "update", "insert", "sweep", "sweep runtime",
                                "sweep orphans"}, now : Age]]
  /\ runtime \in [Instance -> [age : Age, closed : BOOLEAN, there : BOOLEAN]]
  /\ cycle \in [Instance -> Age \cup {Never}]
  /\ marked \in [Instance -> [runtime : SUBSET Instance, cycle : SUBSET Instance]]

Init ==
  /\ process = [i \in Instance |-> "absent"]
  /\ stopped = [i \in Instance |-> FALSE]
  /\ job = [i \in Instance |-> NoJob]
  /\ due = [i \in Instance |-> TRUE]
  /\ runtime = [i \in Instance |-> NoRow]
  /\ cycle = [i \in Instance |-> Never]
  /\ marked = [i \in Instance |-> NoMarks]

-----------------------------------------------------------------------------
Aged(age) == IF age = Fresh THEN Stale ELSE Expired

\* Time passes for every timestamp, the ones in threads' hands included, and the next
\* cleanup is due.
Tick ==
  /\ runtime' = [i \in Instance |->
                   IF runtime[i].there THEN [runtime[i] EXCEPT !.age = Aged(@)] ELSE NoRow]
  /\ cycle' = [i \in Instance |-> IF cycle[i] = Never THEN Never ELSE Aged(cycle[i])]
  /\ job' = [i \in Instance |->
               IF job[i].at \in {"update", "insert"} THEN [job[i] EXCEPT !.now = Aged(@)] ELSE job[i]]
  /\ due' = [i \in Instance |-> TRUE]
  /\ UNCHANGED <<process, stopped, marked>>

\* start_scheduler: a recorder with a new identity; nothing is written yet.
Start(i) ==
  /\ process[i] = "absent"
  /\ process' = [process EXCEPT ![i] = "running"]
  /\ UNCHANGED <<stopped, job, due, runtime, cycle, marked>>

\* A row that some open cleanup has deleted is locked until that ends.
Locked(table, i) == \E j \in Instance : i \in marked[j][table]

\* record_cycle, for a job that has just ended; its error is swallowed, so a cycle
\* that is not recorded changes nothing.
RecordCycle(i) ==
  /\ i \in Observed
  /\ process[i] \notin {"absent", "gone"}
  /\ ~Locked("cycle", i)
  /\ cycle' = [cycle EXCEPT ![i] = Fresh]
  /\ UNCHANGED <<process, stopped, job, due, runtime, marked>>

-----------------------------------------------------------------------------
\* The heartbeat job (one at a time, max_instances=1).

At(i, step) == job' = [job EXCEPT ![i].at = step]

\* The scheduler starts it; it looks at _stopped and reads the clock.
HeartbeatBegins(i) ==
  /\ process[i] = "running"
  /\ job[i].at = "idle"
  /\ ~stopped[i]
  /\ job' = [job EXCEPT ![i] = [at |-> "update", now |-> Fresh]]
  /\ UNCHANGED <<process, stopped, due, runtime, cycle, marked>>

\* The UPDATE without its second condition.
OwnRow(i) == runtime[i].there

\* instance_id is ours and stopped_at IS NULL.
OpenRow(i) == runtime[i].there /\ ~runtime[i].closed

\* One cleanup in a process's life.
FirstCleanupOnly(i) ==
  /\ job' = [job EXCEPT ![i] = [at |-> IF due[i] /\ ~runtime[i].there THEN "sweep" ELSE "idle",
                             now |-> Fresh]]
  /\ due' = [due EXCEPT ![i] = FALSE]

\* _maybe_cleanup after a heartbeat that did not fail: its turn is used up at once.
maybe_cleanup(i) ==
  /\ job' = [job EXCEPT ![i] = [at |-> IF due[i] THEN "sweep" ELSE "idle", now |-> Fresh]]
  /\ due' = [due EXCEPT ![i] = FALSE]

\* The UPDATE finds the open row (and commits), a stopped row (and leaves it), or none.
HeartbeatUpdates(i) ==
  /\ job[i].at = "update"
  /\ ~Locked("runtime", i)
  /\ \/ /\ OpenRow(i)
        /\ runtime' = [runtime EXCEPT ![i].age = job[i].now]
        /\ maybe_cleanup(i)
     \/ /\ ~OpenRow(i)
        /\ runtime[i].there
        /\ maybe_cleanup(i)
        /\ UNCHANGED runtime
     \/ /\ ~runtime[i].there
        /\ At(i, "insert")
        /\ UNCHANGED <<runtime, due>>
  /\ UNCHANGED <<process, stopped, cycle, marked>>

\* There was no row: INSERT and commit.
HeartbeatInserts(i) ==
  /\ job[i].at = "insert"
  /\ runtime' = [runtime EXCEPT ![i] = Row(job[i].now, FALSE)]
  /\ maybe_cleanup(i)
  /\ UNCHANGED <<process, stopped, cycle, marked>>

\* The database fails: the transaction is rolled back and the error swallowed.
JobFails(i) ==
  /\ job[i].at # "idle"
  /\ job' = [job EXCEPT ![i] = NoJob]
  /\ marked' = [marked EXCEPT ![i] = NoMarks]
  /\ UNCHANGED <<process, stopped, due, runtime, cycle>>

-----------------------------------------------------------------------------
\* cleanup_stale_records, statement by statement.

\* heartbeat_at < cutoff, of another instance.
ExpiredFor(i) == {j \in Instance \ {i} : runtime[j].there /\ runtime[j].age = Expired}

\* The cycle rows of the processes that look dead now, whatever their own age.
SweepCycles(i) ==
  /\ job[i].at = "sweep"
  /\ marked' = [marked EXCEPT ![i].cycle = {j \in ExpiredFor(i) : cycle[j] # Never}]
  /\ \A j \in ExpiredFor(i) : ~Locked("cycle", j)
  /\ At(i, "sweep runtime")
  /\ UNCHANGED <<process, stopped, due, runtime, cycle>>

\* The runtime rows that went with the cycle rows, without looking at them again.
SweepListed(i) ==
  /\ job[i].at = "sweep runtime"
  /\ marked' = [marked EXCEPT ![i].runtime = @ \cup marked[i].cycle]
  /\ At(i, "sweep orphans")
  /\ UNCHANGED <<process, stopped, due, runtime, cycle>>

\* Their runtime rows: the condition is evaluated again.
SweepRuntimes(i) ==
  /\ job[i].at = "sweep runtime"
  /\ \A j \in ExpiredFor(i) : ~Locked("runtime", j)
  /\ marked' = [marked EXCEPT ![i].runtime = ExpiredFor(i)]
  /\ At(i, "sweep orphans")
  /\ UNCHANGED <<process, stopped, due, runtime, cycle>>

\* Old cycle rows without a runtime row, then the commit.
SweepOrphans(i) ==
  LET orphans == {j \in Instance \ {i} :
                    cycle[j] = Expired /\ (~runtime[j].there \/ j \in marked[i].runtime)}
  IN  /\ job[i].at = "sweep orphans"
      /\ \A j \in orphans \ marked[i].cycle : ~Locked("cycle", j)
      /\ runtime' = [j \in Instance |-> IF j \in marked[i].runtime THEN NoRow ELSE runtime[j]]
      /\ cycle' = [j \in Instance |->
                     IF j \in marked[i].cycle \cup orphans THEN Never ELSE cycle[j]]
      /\ marked' = [marked EXCEPT ![i] = NoMarks]
      /\ job' = [job EXCEPT ![i] = NoJob]
      /\ UNCHANGED <<process, stopped, due>>

-----------------------------------------------------------------------------
\* graceful_shutdown, on the main thread.  What it drains and resolves is in
\* ExternalDispatch; here it is complete or not.

\* The signal: the scheduler stops, without waiting for its jobs.
Shutdown(i) ==
  /\ i \in Observed
  /\ process[i] = "running"
  /\ process' = [process EXCEPT ![i] = "stopping"]
  /\ UNCHANGED <<stopped, job, due, runtime, cycle, marked>>

\* Everything was stopped, drained and released: mark_stopped.  No heartbeat begins
\* any more; the row, if there is one, is closed, unless the database fails.
MarkStopped(i) ==
  /\ process[i] = "stopping"
  /\ stopped' = [stopped EXCEPT ![i] = TRUE]
  /\ \/ ~Locked("runtime", i) /\ runtime' = [runtime EXCEPT ![i].closed = OpenRow(i) \/ @]
     \/ UNCHANGED runtime
  /\ process' = [process EXCEPT ![i] = "gone"]
  /\ UNCHANGED <<job, due, cycle, marked>>

\* A part of the shutdown failed or timed out: the row is left to age.
LeaveUnmarked(i) ==
  /\ process[i] = "stopping"
  /\ process' = [process EXCEPT ![i] = "gone"]
  /\ UNCHANGED <<stopped, job, due, runtime, cycle, marked>>

\* The process is killed, and its threads and transactions with it.
Crash(i) ==
  /\ i \in Observed
  /\ process[i] \notin {"absent", "gone"}
  /\ process' = [process EXCEPT ![i] = "gone"]
  /\ job' = [job EXCEPT ![i] = NoJob]
  /\ marked' = [marked EXCEPT ![i] = NoMarks]
  /\ UNCHANGED <<stopped, due, runtime, cycle>>

-----------------------------------------------------------------------------
JobStep(i) ==
  \/ HeartbeatUpdates(i) \/ HeartbeatInserts(i) \/ JobFails(i)
  \/ SweepCycles(i) \/ SweepRuntimes(i) \/ SweepOrphans(i)

Next ==
  \/ Tick
  \/ \E i \in Instance :
       \/ Start(i) \/ RecordCycle(i) \/ HeartbeatBegins(i) \/ JobStep(i)
       \/ Shutdown(i) \/ MarkStopped(i) \/ LeaveUnmarked(i)
       \/ Crash(i)

\* Time passes; the scheduler triggers the job of a running process again and again;
\* and the database does not fail every time that a statement is tried.  Of a
\* process that may die only that its statements end.
Fairness ==
  /\ WF_vars(Tick)
  /\ \A i \in Instance \ Observed :
       /\ WF_vars(Start(i))
       /\ WF_vars(HeartbeatBegins(i))
       /\ SF_vars(HeartbeatUpdates(i))
       /\ SF_vars(HeartbeatInserts(i))
       /\ SF_vars(SweepCycles(i))
       /\ SF_vars(SweepRuntimes(i))
       /\ SF_vars(SweepOrphans(i))
  /\ \A i \in Observed : WF_vars(JobStep(i))

Spec == Init /\ [][Next]_vars /\ Fairness

-----------------------------------------------------------------------------
\* A recorded stop is final: no late heartbeat, and nothing but retention, touches it.
StopIsFinal ==
  [][\A i \in Instance :
       runtime[i].closed => \/ ~runtime'[i].there
                            \/ runtime'[i].closed /\ runtime'[i].age >= runtime[i].age]_vars

\* Housekeeping never deletes the runtime row of a process that was heard of within
\* the retention window, even when it comes back between two of its statements.
HeardOfIsKept ==
  [][\A i \in Instance :
       runtime[i].there /\ ~runtime'[i].there => runtime[i].age = Expired]_vars

\* What a process leaves behind is deleted in the end, for there is another one
\* that keeps running (the instances outside Observed).
GoneIsPurged ==
  \A i \in Observed : process[i] = "gone" ~> ~runtime[i].there /\ cycle[i] = Never
=============================================================================
