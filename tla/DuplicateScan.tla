---------------------------- MODULE DuplicateScan ----------------------------
(***************************************************************************)
(* The duplicate scan: services/duplicates.go (ScanDuplicates,             *)
(* EnsureOneScanRunning, the cancel map) and api/duplicates.go             *)
(* (StartDuplicateScan, StopDuplicateScan, ForceStopDuplicateScan).        *)
(*                                                                         *)
(* A job is a row of admin_scan_jobs, which survives a restart, and a      *)
(* goroutine with a pool of workers, which does not.  The goroutine feeds  *)
(* the books into a bounded channel; handlers and goroutine write the row  *)
(* without looking at what it holds, and any write may fail.               *)
(***************************************************************************)
EXTENDS Integers, FiniteSets

CONSTANTS
    Callers,   \* concurrent administrator requests
    Workers,   \* the workers of a job
    MaxJobs,   \* bound on the jobs created
    MaxBooks,  \* bound on the books of the library
    Batch      \* progress is reported every so many books: batchSize

ASSUME DuplicateScanAssumption ==
    /\ IsFiniteSet(Workers) /\ Workers # {}
    /\ MaxJobs \in Nat /\ MaxBooks \in Nat /\ Batch \in Nat \ {0}

Jobs == 1..MaxJobs
Capacity == 2 * Cardinality(Workers)   \* of the channel: workers*2

VARIABLES
    last,       \* the newest job ID
    caller,     \* caller[c]: what a request is about to do, and to which job
    row,        \* row[j]: the job's row
    reg,        \* cancelMap: the jobs that can be stopped
    cancelled,  \* the jobs whose context was cancelled (kept as history)
    proc,       \* proc[j]: where the job's goroutine is
    n,          \* n[j]: the books it found (kept as history)
    fed,        \* fed[j]: books it has sent
    queue,      \* queue[j]: books in the channel
    done,       \* done[j]: progressCount
    worker,     \* worker[j][w]: what worker w of the job is doing
    lost        \* jobs whose goroutine died, or could not write a status
vars == <<last, caller, row, reg, cancelled, proc, n, fed, queue, done, worker, lost>>
pool == <<n, fed, queue, done, worker>>

Idle     == [at |-> "idle", job |-> 0]
At(s, j) == [at |-> s, job |-> j]
NoRow    == [status |-> "none", processed |-> 0]
Off      == [at |-> "off", count |-> 0]
Ready    == [at |-> "ready", count |-> 0]
NoPool   == [w \in Workers |-> Off]
Each(x)  == [j \in Jobs |-> x]

\* Between its row's last update and UnregisterScanCancel a goroutine is in
\* "leave"; "abort" and "drain" wait for the workers.
Stages == {"none", "begin", "query", "feed", "abort", "drain", "mark", "leave"}

TypeOK ==
    /\ last \in 0..MaxJobs
    /\ caller \in [Callers -> [at : {"idle", "checked", "inserted", "stop", "force"},
                               job : 0..MaxJobs]]
    /\ row \in [Jobs -> [status : {"none", "pending", "running", "completed", "failed"},
                         processed : 0..MaxBooks]]
    /\ reg \subseteq Jobs /\ cancelled \subseteq Jobs /\ lost \subseteq Jobs
    /\ proc \in [Jobs -> Stages]
    /\ n \in [Jobs -> 0..MaxBooks]
    /\ fed \in [Jobs -> 0..MaxBooks]
    /\ queue \in [Jobs -> 0..Capacity]
    /\ done \in [Jobs -> 0..MaxBooks]
    /\ worker \in [Jobs -> [Workers -> [at : {"off", "ready", "book", "report"},
                                        count : 0..MaxBooks]]]

Init ==
    /\ last = 0
    /\ caller = [c \in Callers |-> Idle]
    /\ row = Each(NoRow)
    /\ reg = {} /\ cancelled = {} /\ lost = {}
    /\ proc = Each("none")
    /\ n = Each(0) /\ fed = Each(0) /\ queue = Each(0) /\ done = Each(0)
    /\ worker = Each(NoPool)

Active(j) == row[j].status \in {"pending", "running"}
Live(j)   == proc[j] # "none"
Closed(j) == proc[j] \in {"abort", "drain"}   \* the channel is closed
Joined(j) == worker[j] = NoPool               \* wg.Wait() returns

SetStatus(j, s) == row' = [row EXCEPT ![j] = [status |-> s, processed |-> row[j].processed]]
Goto(j, s)      == proc' = [proc EXCEPT ![j] = s]

\* A handler's write may fail; the row then stays as it is.
MaySet(j, s) == SetStatus(j, s) \/ UNCHANGED row

------------------------------------------------------------------------------
(* Requests.                                                               *)

\* EnsureOneScanRunning: the mutex is released before the job is created.
EnsureOne(c) ==
    /\ caller[c] = Idle /\ last < MaxJobs
    /\ \A j \in Jobs : ~Active(j)
    /\ caller' = [caller EXCEPT ![c] = At("checked", 0)]
    /\ UNCHANGED <<last, row, reg, cancelled, proc, pool, lost>>

Insert(c) ==
    /\ caller[c].at = "checked" /\ last < MaxJobs
    /\ last' = last + 1
    /\ SetStatus(last + 1, "pending")
    /\ caller' = [caller EXCEPT ![c] = At("inserted", last + 1)]
    /\ UNCHANGED <<reg, cancelled, proc, pool, lost>>

InsertFails(c) ==
    /\ caller[c].at = "checked"
    /\ caller' = [caller EXCEPT ![c] = Idle]
    /\ UNCHANGED <<last, row, reg, cancelled, proc, pool, lost>>

\* RegisterScanCancel, then the goroutine.
Launch(c) ==
    /\ caller[c].at = "inserted"
    /\ reg' = reg \cup {caller[c].job}
    /\ Goto(caller[c].job, "begin")
    /\ caller' = [caller EXCEPT ![c] = Idle]
    /\ UNCHANGED <<last, row, cancelled, pool, lost>>

\* CancelScan.
Stop(c, j) ==
    /\ caller[c] = Idle /\ j \in reg
    /\ reg' = reg \ {j}
    /\ cancelled' = cancelled \cup {j}
    /\ caller' = [caller EXCEPT ![c] = At("stop", j)]
    /\ UNCHANGED <<last, row, proc, pool, lost>>

ForceStop(c, j) ==
    /\ caller[c] = Idle /\ Active(j)
    /\ caller' = [caller EXCEPT ![c] = At("force", j)]
    /\ UNCHANGED <<last, row, reg, cancelled, proc, pool, lost>>

\* Both then write "failed" over whatever the row holds by now.
WriteStopped(c) ==
    /\ caller[c].at \in {"stop", "force"}
    /\ MaySet(caller[c].job, "failed")
    /\ caller' = [caller EXCEPT ![c] = Idle]
    /\ UNCHANGED <<last, reg, cancelled, proc, pool, lost>>

------------------------------------------------------------------------------
(* The goroutine.                                                          *)

\* The last write of a status, whose failure is only logged.
Conclude(j, s) ==
    /\ \/ SetStatus(j, s) /\ UNCHANGED lost
       \/ lost' = lost \cup {j} /\ UNCHANGED row
    /\ Goto(j, "leave")
    /\ UNCHANGED <<last, caller, reg, cancelled, pool>>

Begin(j) ==
    /\ proc[j] = "begin"
    /\ \/ SetStatus(j, "running") /\ Goto(j, "query") /\ UNCHANGED lost
       \/ lost' = lost \cup {j} /\ Goto(j, "leave") /\ UNCHANGED row
    /\ UNCHANGED <<last, caller, reg, cancelled, pool>>

QueryFails(j) == proc[j] = "query" /\ Conclude(j, "failed")

\* The books and the workers.
Query(j) ==
    /\ proc[j] = "query"
    /\ \E k \in 0..MaxBooks : n' = [n EXCEPT ![j] = k]
    /\ worker' = [worker EXCEPT ![j] = [w \in Workers |-> Ready]]
    /\ Goto(j, "feed")
    /\ UNCHANGED <<last, caller, row, reg, cancelled, fed, queue, done, lost>>

\* Mutant: the feeder does not watch the context.
FeedBlindly(j) ==
    /\ proc[j] = "feed"
    /\ \/ /\ fed[j] < n[j] /\ queue[j] < Capacity
          /\ fed'   = [fed EXCEPT ![j] = @ + 1]
          /\ queue' = [queue EXCEPT ![j] = @ + 1]
          /\ UNCHANGED proc
       \/ fed[j] = n[j] /\ Goto(j, "drain") /\ UNCHANGED <<fed, queue>>
    /\ UNCHANGED <<last, caller, row, reg, cancelled, n, done, worker, lost>>

\* The loop over the books; the channel is closed at its end.
Feed(j) ==
    /\ proc[j] = "feed"
    /\ \/ /\ fed[j] < n[j] /\ queue[j] < Capacity
          /\ fed'   = [fed EXCEPT ![j] = @ + 1]
          /\ queue' = [queue EXCEPT ![j] = @ + 1]
          /\ UNCHANGED proc
       \/ /\ fed[j] < n[j] /\ j \in cancelled
          /\ Goto(j, "abort") /\ UNCHANGED <<fed, queue>>
       \/ /\ fed[j] = n[j]
          /\ Goto(j, "drain") /\ UNCHANGED <<fed, queue>>
    /\ UNCHANGED <<last, caller, row, reg, cancelled, n, done, worker, lost>>

\* Mutant: a cancelled scan leaves its row alone.
AbortSilently(j) ==
    /\ proc[j] = "abort" /\ Joined(j) /\ Goto(j, "leave")
    /\ UNCHANGED <<last, caller, row, reg, cancelled, pool, lost>>

\* updateJobError(scan_cancelled).
Abort(j) == proc[j] = "abort" /\ Joined(j) /\ Conclude(j, "failed")

\* Mutant: no wg.Wait().
DrainUnjoined(j) ==
    /\ proc[j] = "drain" /\ Goto(j, "mark")
    /\ UNCHANGED <<last, caller, row, reg, cancelled, pool, lost>>

\* wg.Wait(), then the duplicates are counted.
Drain(j) ==
    /\ proc[j] = "drain" /\ Joined(j) /\ Goto(j, "mark")
    /\ UNCHANGED <<last, caller, row, reg, cancelled, pool, lost>>

\* The job is marked as completed, with the final count.
Mark(j) ==
    /\ proc[j] = "mark"
    /\ \/ /\ row' = [row EXCEPT ![j] = [status |-> "completed", processed |-> done[j]]]
          /\ UNCHANGED lost
       \/ lost' = lost \cup {j} /\ UNCHANGED row
    /\ Goto(j, "leave")
    /\ UNCHANGED <<last, caller, reg, cancelled, pool>>

\* UnregisterScanCancel; the goroutine's counters go with it.
Leave(j) ==
    /\ proc[j] = "leave" /\ Goto(j, "none")
    /\ reg' = reg \ {j}
    /\ fed' = [fed EXCEPT ![j] = 0] /\ done' = [done EXCEPT ![j] = 0]
    /\ queue' = [queue EXCEPT ![j] = 0]
    /\ UNCHANGED <<last, caller, row, cancelled, n, worker, lost>>

------------------------------------------------------------------------------
(* A worker.                                                               *)

SetWorker(j, w, s) == worker' = [worker EXCEPT ![j][w] = s]

\* select between ctx.Done() and the channel: either, when both are ready.
Receive(j, w) ==
    /\ worker[j][w] = Ready
    /\ \/ queue[j] > 0 /\ queue' = [queue EXCEPT ![j] = @ - 1]
                       /\ SetWorker(j, w, [at |-> "book", count |-> 0])
       \/ queue[j] = 0 /\ Closed(j) /\ SetWorker(j, w, Off) /\ UNCHANGED queue
       \/ j \in cancelled /\ SetWorker(j, w, Off) /\ UNCHANGED queue
    /\ UNCHANGED <<last, caller, row, reg, cancelled, proc, n, fed, done, lost>>

\* The book is hashed, or fails; both count.
Count(j, w) ==
    /\ worker[j][w].at = "book"
    /\ done' = [done EXCEPT ![j] = @ + 1]
    /\ SetWorker(j, w, IF done'[j] % Batch = 0 \/ done'[j] = n[j]
                       THEN [at |-> "report", count |-> done'[j]] ELSE Ready)
    /\ UNCHANGED <<last, caller, row, reg, cancelled, proc, n, fed, queue, lost>>

\* updateJobProgress.  processedBooks is shared without a lock: what is
\* written may be the count another worker has stored there since.
Report(j, w) ==
    /\ worker[j][w].at = "report"
    /\ \/ UNCHANGED row
       \/ \E k \in 1..done[j] :
             /\ k = worker[j][w].count \/ k % Batch = 0 \/ k = n[j]
             /\ row' = [row EXCEPT ![j] = [status |-> row[j].status, processed |-> k]]
    /\ SetWorker(j, w, Ready)
    /\ UNCHANGED <<last, caller, reg, cancelled, proc, n, fed, queue, done, lost>>

------------------------------------------------------------------------------
\* The process dies: the rows stay.  
Crash ==
    /\ caller' = [c \in Callers |-> Idle]
    /\ lost' = lost \cup {j \in Jobs : Active(j)}
    /\ reg' = {}
    /\ proc' = Each("none")
    /\ worker' = Each(NoPool)
    /\ fed' = Each(0) /\ queue' = Each(0) /\ done' = Each(0)
    /\ UNCHANGED <<last, row, cancelled, n>>

Request(c) ==
    \/ EnsureOne(c) \/ Insert(c) \/ InsertFails(c) \/ Launch(c) \/ WriteStopped(c)
    \/ \E j \in Jobs : Stop(c, j) \/ ForceStop(c, j)

Goroutine(j) ==
    \/ Begin(j) \/ QueryFails(j) \/ Query(j) \/ Feed(j) \/ Abort(j) \/ Drain(j)
    \/ Mark(j) \/ Leave(j)
    \/ \E w \in Workers : Receive(j, w) \/ Count(j, w) \/ Report(j, w)

Next == \/ \E c \in Callers : Request(c)
        \/ \E j \in Jobs : Goroutine(j)
        \/ Crash

Spec == Init /\ [][Next]_vars

\* Goroutines that can run do.
FairSpec == Spec /\ \A j \in Jobs : WF_vars(Goroutine(j))

------------------------------------------------------------------------------
(* Properties.                                                             *)

\* A job that completes without having been stopped has gone through every
\* book it found, whatever order its workers counted and reported in, and no
\* late report overwrites its final count.
CompletedIsWhole ==
    \A j \in Jobs : row[j].status = "completed" /\ j \notin cancelled
                        => row[j].processed = n[j]

\* A job can be stopped only while its goroutine is there to stop: an entry of
\* the cancel map never outlives it.
StoppableIsLive == \A j \in reg : Live(j)

\* Only a crash or a failed write leaves a job that looks active and blocks
\* all later scans although nobody is working on it.
BlockedOnlyByLoss ==
    \A j \in Jobs : Active(j) /\ ~Live(j)
        => j \in lost \/ \E c \in Callers : caller[c] = At("inserted", j)

\* Feeder and workers never wait on each other for good: every job ends, also
\* when it is stopped with the channel full.
JobsEnd == \A j \in Jobs : Live(j) ~> ~Live(j)
=============================================================================
