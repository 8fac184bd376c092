------------------------- MODULE DuplicateScanProofs -------------------------
(***************************************************************************)
(* Theorems about DuplicateScan for any number of requests, jobs, workers  *)
(* and books: what the cancel map and the job rows say about the           *)
(* goroutines, and that a completed job has gone through all its books.    *)
(***************************************************************************)
EXTENDS DuplicateScan, FiniteSetTheorems, TLAPS

WorkerStates == [at : {"off", "ready", "book", "report"}, count : Nat]
Statuses     == {"none", "pending", "running", "completed", "failed"}

Types ==
    /\ last \in 0..MaxJobs
    /\ caller \in [Callers -> [at : {"idle", "checked", "inserted", "stop", "force"},
                               job : 0..MaxJobs]]
    /\ row \in [Jobs -> [status : Statuses, processed : Nat]]
    /\ reg \subseteq Jobs
    /\ proc \in [Jobs -> Stages]
    /\ n \in [Jobs -> Nat] /\ fed \in [Jobs -> Nat]
    /\ queue \in [Jobs -> Nat] /\ done \in [Jobs -> Nat]
    /\ worker \in [Jobs -> [Workers -> WorkerStates]]

\* A request that has created a job and not launched it is its only one, and
\* the job has no goroutine yet.
Requests ==
    /\ \A c \in Callers : caller[c].at = "inserted" =>
          /\ caller[c].job \in 1..last /\ proc[caller[c].job] = "none"
          /\ row[caller[c].job].status # "completed"
          /\ \A d \in Callers : d # c /\ caller[d].at = "inserted"
                                    => caller[d].job # caller[c].job
    /\ \A c \in Callers : caller[c].at \in {"stop", "force"} => caller[c].job \in 1..last
    /\ \A j \in Jobs : j > last => row[j].status = "none" /\ proc[j] = "none"

\* A goroutine about to leave has settled its row, or failed to.
Settled == \A j \in Jobs : proc[j] = "leave" => ~Active(j) \/ j \in lost

Busy(j) == {w \in Workers : worker[j][w].at = "book"}

\* Books do not get lost between the feeder, the channel and the workers.
Flow(j) ==
    /\ done[j] + queue[j] + Cardinality(Busy(j)) = fed[j]
    /\ proc[j] \in {"none", "begin", "query"} => fed[j] = 0 /\ Joined(j)
    /\ proc[j] \in {"mark", "leave"} => Joined(j)
    /\ proc[j] = "feed" => fed[j] <= n[j]
    /\ proc[j] = "abort" => j \in cancelled
    /\ j \notin cancelled =>
          /\ proc[j] = "feed" => \A w \in Workers : worker[j][w].at # "off"
          /\ proc[j] = "drain" =>
                /\ fed[j] = n[j]
                /\ \A w \in Workers : worker[j][w].at = "off" => queue[j] = 0
          /\ proc[j] = "mark" => done[j] = n[j]
          /\ row[j].status = "completed" => row[j].processed = n[j]
    /\ row[j].status = "completed" => proc[j] \in {"leave", "none"}

IInv == /\ Types /\ Requests /\ StoppableIsLive /\ Settled /\ BlockedOnlyByLoss
        /\ \A j \in Jobs : Flow(j)

------------------------------------------------------------------------------
(* Workers.                                                                *)

LEMMA SetWorkerIs ==
    ASSUME Types, NEW j \in Jobs, NEW w \in Workers, NEW s \in WorkerStates,
           SetWorker(j, w, s)
    PROVE  /\ worker' \in [Jobs -> [Workers -> WorkerStates]]
           /\ worker'[j][w] = s
           /\ \A v \in Workers \ {w} : worker'[j][v] = worker[j][v]
           /\ \A i \in Jobs \ {j} : worker'[i] = worker[i]
<1> DEFINE f == [worker[j] EXCEPT ![w] = s]
<1>1. f \in [Workers -> WorkerStates] /\ f[w] = s
      /\ \A v \in Workers \ {w} : f[v] = worker[j][v]
  BY DEF Types
<1>2. worker' = [worker EXCEPT ![j] = f]
  BY DEF SetWorker, Types
<1>3. /\ worker' \in [Jobs -> [Workers -> WorkerStates]]
      /\ worker'[j] = f /\ \A i \in Jobs \ {j} : worker'[i] = worker[i]
  <2> HIDE DEF f
  <2> QED
    BY <1>1, <1>2 DEF Types
<1>4. QED
  BY <1>1, <1>3

LEMMA BusyFinite == \A j : IsFiniteSet(Busy(j)) /\ Cardinality(Busy(j)) \in Nat
<1>1. ASSUME NEW j PROVE IsFiniteSet(Busy(j))
  BY DuplicateScanAssumption, FS_Subset DEF DuplicateScanAssumption, Busy
<1>2. QED
  BY <1>1, FS_CardinalityType

LEMMA Takes ==
    ASSUME Types, NEW j \in Jobs, NEW w \in Workers, NEW s \in WorkerStates,
           SetWorker(j, w, s), worker[j][w].at # "book", s.at = "book"
    PROVE  Cardinality(Busy(j)') = Cardinality(Busy(j)) + 1
<1>1. Busy(j)' = Busy(j) \cup {w} /\ w \notin Busy(j)
  BY SetWorkerIs DEF Busy
<1>2. QED
  BY <1>1, BusyFinite, FS_AddElement

LEMMA Gives ==
    ASSUME Types, NEW j \in Jobs, NEW w \in Workers, NEW s \in WorkerStates,
           SetWorker(j, w, s), worker[j][w].at = "book", s.at # "book"
    PROVE  Cardinality(Busy(j)') = Cardinality(Busy(j)) - 1
<1>1. Busy(j)' = Busy(j) \ {w} /\ w \in Busy(j)
  BY SetWorkerIs DEF Busy
<1>2. QED
  BY <1>1, BusyFinite, FS_RemoveElement

LEMMA Keeps ==
    ASSUME Types, NEW j \in Jobs, NEW w \in Workers, NEW s \in WorkerStates,
           SetWorker(j, w, s), worker[j][w].at # "book", s.at # "book"
    PROVE  Busy(j)' = Busy(j)
BY SetWorkerIs DEF Busy

LEMMA NobodyBusy == \A j : Joined(j) => Cardinality(Busy(j)) = 0
<1>1. ASSUME NEW j, Joined(j) PROVE Busy(j) = {}
  BY <1>1 DEF Joined, NoPool, Off, Busy
<1>2. QED
  BY <1>1, FS_EmptySet

------------------------------------------------------------------------------
(* Frames.                                                                 *)

Untouched(i) ==
    /\ proc'[i] = proc[i] /\ n'[i] = n[i] /\ fed'[i] = fed[i]
    /\ queue'[i] = queue[i] /\ done'[i] = done[i] /\ worker'[i] = worker[i]
    /\ row'[i] = row[i]

LEMMA FlowFrame ==
    ASSUME NEW i \in Jobs, Flow(i), Untouched(i), i \in cancelled => i \in cancelled'
    PROVE  Flow(i)'
<1>1. Busy(i)' = Busy(i) /\ (Joined(i)' <=> Joined(i))
  BY DEF Busy, Untouched, Joined, NoPool
<1>2. QED
  BY <1>1 DEF Flow, Untouched

\* A row that is marked "failed" disturbs nothing.
LEMMA FlowFailed ==
    ASSUME NEW i \in Jobs, Flow(i), UNCHANGED <<pool, proc, cancelled>>,
           row'[i] = row[i] \/ row'[i].status \notin {"completed"}
    PROVE  Flow(i)'
<1>1. Busy(i)' = Busy(i) /\ (Joined(i)' <=> Joined(i))
  BY DEF Busy, pool, Joined, NoPool
<1>2. QED
  BY <1>1 DEF Flow, pool

------------------------------------------------------------------------------
(* Requests.                                                               *)

LEMMA CallerType ==
    ASSUME Types, NEW c \in Callers, NEW j \in 0..MaxJobs,
           NEW s \in {"idle", "checked", "inserted", "stop", "force"},
           caller' = [caller EXCEPT ![c] = At(s, j)]
    PROVE  caller' \in [Callers -> [at : {"idle", "checked", "inserted", "stop", "force"},
                                    job : 0..MaxJobs]]
BY DEF Types, At

LEMMA RowType ==
    ASSUME Types, NEW j \in Jobs, NEW s \in Statuses, NEW m \in Nat,
           row' = [row EXCEPT ![j] = [status |-> s, processed |-> m]]
    PROVE  /\ row' \in [Jobs -> [status : Statuses, processed : Nat]]
           /\ row'[j] = [status |-> s, processed |-> m]
           /\ \A i \in Jobs \ {j} : row'[i] = row[i]
<1>1. [status |-> s, processed |-> m] \in [status : Statuses, processed : Nat]
  OBVIOUS
<1>2. QED
  BY <1>1 DEF Types

LEMMA TypesFrame ==
    ASSUME Types, last' \in 0..MaxJobs,
           caller' \in [Callers -> [at : {"idle", "checked", "inserted", "stop", "force"},
                                    job : 0..MaxJobs]],
           row' \in [Jobs -> [status : Statuses, processed : Nat]],
           reg' \subseteq Jobs, proc' \in [Jobs -> Stages], UNCHANGED pool
    PROVE  Types'
BY DEF Types, pool

\* The types of what an action leaves alone.
LEMMA TypeFacts ==
    ASSUME Types
    PROVE  /\ last \in 0..MaxJobs /\ reg \subseteq Jobs /\ proc \in [Jobs -> Stages]
           /\ caller \in [Callers -> [at : {"idle", "checked", "inserted", "stop", "force"},
                                      job : 0..MaxJobs]]
           /\ row \in [Jobs -> [status : Statuses, processed : Nat]]
           /\ \A j \in Jobs : row[j].processed \in Nat
           /\ \A j \in Jobs : j \in 0..MaxJobs
           /\ 0 \in 0..MaxJobs
BY DuplicateScanAssumption DEF Types, Jobs, DuplicateScanAssumption

LEMMA RequestKeeps ==
    ASSUME IInv, NEW c \in Callers, Request(c)
    PROVE  IInv'
<1> USE DuplicateScanAssumption DEF DuplicateScanAssumption
<1>1. CASE EnsureOne(c) \/ InsertFails(c)
  <2>1. /\ UNCHANGED <<last, row, reg, cancelled, proc, pool, lost>>
        /\ caller[c].at # "inserted"
        /\ \E s \in {"checked", "idle"} : caller' = [caller EXCEPT ![c] = At(s, 0)]
    BY <1>1 DEF EnsureOne, InsertFails, Idle, At
  <2>2. Types'
    <3>1. caller' \in [Callers -> [at : {"idle", "checked", "inserted", "stop", "force"},
                                  job : 0..MaxJobs]]
      BY <2>1, CallerType, TypeFacts DEF IInv
    <3>2. QED
      BY <2>1, <3>1, TypesFrame, TypeFacts DEF IInv
  <2>3. \A d \in Callers : IF d = c THEN caller'[d].at \in {"checked", "idle"}
                                    ELSE caller'[d] = caller[d]
    BY <2>1 DEF IInv, Types, At, Idle
  <2>4. Requests'
    BY <2>1, <2>3 DEF IInv, Requests
  <2>5. (StoppableIsLive /\ Settled)'
    BY <2>1 DEF IInv, StoppableIsLive, Settled, Live, Active
  <2>6. BlockedOnlyByLoss'
    <3>1. \A j \in Jobs : caller[c] # At("inserted", j)
      BY <2>1 DEF At
    <3>2. QED
      BY <2>1, <2>3, <3>1 DEF IInv, BlockedOnlyByLoss, Live, Active
  <2>7. ASSUME NEW j \in Jobs PROVE Flow(j)'
    BY <2>1, FlowFrame DEF IInv, Untouched, pool
  <2>8. QED
    BY <2>2, <2>4, <2>5, <2>6, <2>7 DEF IInv
<1>2. CASE Insert(c)
  <2> DEFINE k == last + 1
  <2>1. /\ k \in Jobs /\ last' = k /\ caller[c].at = "checked"
        /\ row' = [row EXCEPT ![k] = [status |-> "pending", processed |-> row[k].processed]]
        /\ caller' = [caller EXCEPT ![c] = At("inserted", k)]
        /\ UNCHANGED <<reg, cancelled, proc, pool, lost>>
    BY <1>2 DEF Insert, SetStatus, IInv, Types, Jobs
  <2>2. Types'
    <3>1. k \in 0..MaxJobs
      BY <2>1 DEF Jobs
    <3>2. row' \in [Jobs -> [status : Statuses, processed : Nat]]
      BY <2>1, RowType, TypeFacts DEF IInv, Statuses
    <3>3. QED
      BY <2>1, <3>1, <3>2, CallerType, TypesFrame, TypeFacts DEF IInv
  <2>3. \A d \in Callers : IF d = c THEN caller'[d] = At("inserted", k)
                                    ELSE caller'[d] = caller[d]
    BY <2>1 DEF IInv, Types
  <2>4. /\ row'[k].status = "pending" /\ proc[k] = "none"
        /\ \A j \in Jobs \ {k} : row'[j] = row[j]
    BY <2>1 DEF IInv, Types, Requests
  <2>5. Requests'
    <3>0. last \in Nat /\ last' = last + 1
      BY <2>1 DEF IInv, Types
    <3>1. \A d \in Callers : caller[d].at = "inserted" => caller[d].job # k
      BY <3>0 DEF IInv, Requests
    <3>2. ASSUME NEW d \in Callers, caller'[d].at = "inserted"
          PROVE  /\ caller'[d].job \in 1..last' /\ proc'[caller'[d].job] = "none"
                 /\ row'[caller'[d].job].status # "completed"
      <4>1. CASE d = c
        <5>1. caller'[d].job = k
          BY <2>3, <4>1 DEF At
        <5>2. QED
          BY <2>1, <2>4, <3>0, <5>1
      <4>2. CASE d # c
        <5>1. caller'[d] = caller[d]
          BY <2>3, <4>2
        <5>2. caller[d].job \in 1..last /\ caller[d].job \in Jobs \ {k}
          BY <2>1, <3>0, <3>1, <3>2, <5>1 DEF IInv, Requests, Jobs
        <5>3. proc[caller[d].job] = "none" /\ row[caller[d].job].status # "completed"
          BY <3>2, <5>1 DEF IInv, Requests
        <5>4. QED
          BY <2>1, <2>4, <3>0, <5>1, <5>2, <5>3
      <4>3. QED
        BY <4>1, <4>2
    <3>3. \A d, e \in Callers : d # e /\ caller'[d].at = "inserted" /\ caller'[e].at = "inserted"
                                   => caller'[e].job # caller'[d].job
      BY <2>3, <3>1 DEF IInv, Requests, At
    <3>4. ASSUME NEW d \in Callers, caller'[d].at \in {"stop", "force"}
          PROVE  caller'[d].job \in 1..last'
      <4>1. caller'[d] = caller[d]
        BY <2>3, <3>4 DEF At
      <4>2. QED
        BY <3>0, <3>4, <4>1 DEF IInv, Requests
    <3>5. ASSUME NEW j \in Jobs, j > last'
          PROVE  row'[j].status = "none" /\ proc'[j] = "none"
      <4>1. j # k /\ j > last
        BY <2>1, <3>5 DEF IInv, Types, Jobs
      <4>2. QED
        BY <2>1, <2>4, <4>1 DEF IInv, Requests
    <3>6. QED
      BY <3>2, <3>3, <3>4, <3>5 DEF Requests
  <2>6. StoppableIsLive'
    BY <2>1 DEF IInv, StoppableIsLive, Live
  <2>7. Settled'
    BY <2>1, <2>4 DEF IInv, Settled, Active
  <2>8. BlockedOnlyByLoss'
    <3>1. \A j \in Jobs : caller[c] # At("inserted", j)
      BY <2>1 DEF At
    <3>2. QED
      BY <2>1, <2>3, <2>4, <3>1 DEF IInv, BlockedOnlyByLoss, Live, Active
  <2>9. ASSUME NEW j \in Jobs PROVE Flow(j)'
    <3>1. row'[j] = row[j] \/ row'[j].status \notin {"completed"}
      BY <2>4
    <3>2. QED
      BY <2>1, <3>1, FlowFailed DEF IInv
  <2>10. QED
    BY <2>2, <2>5, <2>6, <2>7, <2>8, <2>9 DEF IInv
<1>3. CASE Launch(c)
  <2>0. PICK k \in Jobs : k = caller[c].job
    BY <1>3 DEF Launch, IInv, Requests, Types, Jobs
  <2>1. /\ caller[c].at = "inserted" /\ k <= last
        /\ proc[k] = "none" /\ row[k].status # "completed"
        /\ reg' = reg \cup {k} /\ proc' = [proc EXCEPT ![k] = "begin"]
        /\ caller' = [caller EXCEPT ![c] = Idle]
        /\ UNCHANGED <<last, row, cancelled, pool, lost>>
    BY <1>3, <2>0 DEF Launch, Goto, IInv, Requests, Types, Jobs
  <2>2. Types'
    <3>1. proc' \in [Jobs -> Stages]
      BY <2>1 DEF IInv, Types, Stages
    <3>2. QED
      BY <2>1, <3>1, CallerType, TypesFrame, TypeFacts DEF IInv, Idle, At
  <2>3. /\ \A d \in Callers : IF d = c THEN caller'[d] = Idle ELSE caller'[d] = caller[d]
        /\ proc'[k] = "begin" /\ \A j \in Jobs \ {k} : proc'[j] = proc[j]
    BY <2>1 DEF IInv, Types
  <2>4. Requests'
    <3>1. \A d \in Callers : d # c /\ caller[d].at = "inserted" => caller[d].job # k
      BY <2>0, <2>1 DEF IInv, Requests
    <3>2. \A d \in Callers : caller[d].at = "inserted" => caller[d].job \in Jobs
      BY DEF IInv, Requests, Types, Jobs
    <3>3. ASSUME NEW j \in Jobs, j > last'
          PROVE  row'[j].status = "none" /\ proc'[j] = "none"
      <4>1. j # k /\ j > last
        BY <2>1, <3>3 DEF IInv, Types, Jobs
      <4>2. QED
        BY <2>1, <2>3, <4>1 DEF IInv, Requests
    <3>4. QED
      BY <2>1, <2>3, <3>1, <3>2, <3>3 DEF IInv, Requests, Idle
  <2>5. StoppableIsLive'
    BY <2>1, <2>3 DEF IInv, StoppableIsLive, Live, Types
  <2>6. Settled'
    BY <2>1, <2>3 DEF IInv, Settled, Active
  <2>7. BlockedOnlyByLoss'
    <3>1. \A j \in Jobs \ {k} : caller[c] # At("inserted", j)
      BY <2>0 DEF At
    <3>2. QED
      BY <2>1, <2>3, <3>1 DEF IInv, BlockedOnlyByLoss, Live, Active
  <2>8. ASSUME NEW j \in Jobs PROVE Flow(j)'
    <3>1. CASE j # k
      BY <2>1, <2>3, <3>1, FlowFrame DEF IInv, Untouched, pool
    <3>2. CASE j = k
      <4>1. Busy(k)' = Busy(k) /\ (Joined(k)' <=> Joined(k))
        BY <2>1 DEF Busy, pool, Joined, NoPool
      <4>2. QED
        BY <2>1, <2>3, <3>2, <4>1 DEF IInv, Flow, pool
    <3>3. QED
      BY <3>1, <3>2
  <2>9. QED
    BY <2>2, <2>4, <2>5, <2>6, <2>7, <2>8 DEF IInv
<1>4. CASE \E j \in Jobs : Stop(c, j) \/ ForceStop(c, j)
  <2>1. PICK j \in Jobs : Stop(c, j) \/ ForceStop(c, j)
    BY <1>4
  <2>2. /\ UNCHANGED <<last, row, proc, pool, lost>>
        /\ j \in 1..last
        /\ caller[c].at = "idle" /\ reg' \subseteq reg /\ cancelled \subseteq cancelled'
        /\ \E s \in {"stop", "force"} : caller' = [caller EXCEPT ![c] = At(s, j)]
    <3>1. j \in reg \/ Active(j) => j <= last
      BY DEF IInv, Requests, StoppableIsLive, Live, Active, Types, Jobs
    <3>2. QED
      BY <2>1, <3>1 DEF Stop, ForceStop, Idle, Jobs
  <2>3. Types'
    <3>1. caller' \in [Callers -> [at : {"idle", "checked", "inserted", "stop", "force"},
                                  job : 0..MaxJobs]]
      BY <2>2, CallerType, TypeFacts DEF IInv
    <3>2. QED
      BY <2>2, <3>1, TypesFrame, TypeFacts DEF IInv
  <2>4. \A d \in Callers : IF d = c THEN caller'[d].at \in {"stop", "force"} /\ caller'[d].job = j
                                    ELSE caller'[d] = caller[d]
    BY <2>2 DEF IInv, Types, At
  <2>5. Requests'
    BY <2>2, <2>4 DEF IInv, Requests
  <2>6. (StoppableIsLive /\ Settled)'
    BY <2>2 DEF IInv, StoppableIsLive, Settled, Live, Active
  <2>7. BlockedOnlyByLoss'
    <3>1. \A i \in Jobs : caller[c] # At("inserted", i)
      BY <2>2 DEF At
    <3>2. QED
      BY <2>2, <2>4, <3>1 DEF IInv, BlockedOnlyByLoss, Live, Active
  <2>8. ASSUME NEW i \in Jobs PROVE Flow(i)'
    BY <2>2, FlowFrame DEF IInv, Untouched, pool
  <2>9. QED
    BY <2>3, <2>5, <2>6, <2>7, <2>8 DEF IInv
<1>5. CASE WriteStopped(c)
  <2>0. PICK k \in Jobs : k = caller[c].job /\ k <= last
    BY <1>5 DEF WriteStopped, IInv, Requests, Types, Jobs
  <2>1. /\ caller[c].at \in {"stop", "force"}
        /\ caller' = [caller EXCEPT ![c] = Idle]
        /\ \/ row' = row
           \/ row' = [row EXCEPT ![k] = [status |-> "failed", processed |-> row[k].processed]]
        /\ UNCHANGED <<last, reg, cancelled, proc, pool, lost>>
    BY <1>5, <2>0 DEF WriteStopped, MaySet, SetStatus
  <2>2. Types'
    <3>1. row' \in [Jobs -> [status : Statuses, processed : Nat]]
      BY <2>1, RowType, TypeFacts DEF IInv, Statuses
    <3>2. QED
      BY <2>1, <3>1, CallerType, TypesFrame, TypeFacts DEF IInv, Idle, At
  <2>3. /\ \A d \in Callers : IF d = c THEN caller'[d] = Idle ELSE caller'[d] = caller[d]
        /\ \A j \in Jobs : \/ row'[j] = row[j]
                           \/ j = k /\ row'[j].status = "failed"
    BY <2>1 DEF IInv, Types
  <2>4. \A j \in Jobs : Active(j)' => Active(j)
    BY <2>3 DEF Active
  <2>5. Requests'
    <3>1. \A d \in Callers : caller[d].at = "inserted" => caller[d].job \in Jobs
      BY DEF IInv, Requests, Types, Jobs
    <3>2. ASSUME NEW j \in Jobs, j > last'
          PROVE  row'[j].status = "none" /\ proc'[j] = "none"
      <4>1. j # k /\ j > last
        BY <2>0, <2>1, <3>2 DEF IInv, Types, Jobs
      <4>2. QED
        BY <2>1, <2>3, <4>1 DEF IInv, Requests
    <3>3. QED
      BY <2>1, <2>3, <3>1, <3>2 DEF IInv, Requests, Idle
  <2>6. (StoppableIsLive /\ Settled)'
    BY <2>1, <2>4 DEF IInv, StoppableIsLive, Settled, Live
  <2>7. BlockedOnlyByLoss'
    <3>1. \A j \in Jobs : caller[c] # At("inserted", j)
      BY <2>1 DEF At
    <3>2. QED
      BY <2>1, <2>3, <2>4, <3>1 DEF IInv, BlockedOnlyByLoss, Live
  <2>8. ASSUME NEW j \in Jobs PROVE Flow(j)'
    <3>1. row'[j] = row[j] \/ row'[j].status \notin {"completed"}
      BY <2>3
    <3>2. QED
      BY <2>1, <3>1, FlowFailed DEF IInv
  <2>9. QED
    BY <2>2, <2>5, <2>6, <2>7, <2>8 DEF IInv
<1>6. QED
  BY <1>1, <1>2, <1>3, <1>4, <1>5 DEF Request

------------------------------------------------------------------------------
(* The goroutine and its workers.                                          *)

\* What a step of job j's goroutine has to show: the rest is left alone.
LEMMA Turn ==
    ASSUME IInv, NEW j \in Jobs, Live(j), UNCHANGED <<last, caller, cancelled>>, Types',
           \A i \in Jobs \ {j} : Untouched(i),
           reg' = reg \/ reg' = reg \ {j},
           lost \subseteq lost',
           j \in reg' => Live(j)',
           proc'[j] \in {"none", "leave"} => ~Active(j)' \/ j \in lost',
           Flow(j)'
    PROVE  IInv'
<1>1. Requests'
  <2>1. \A c \in Callers : caller[c].at = "inserted" => caller[c].job \in Jobs \ {j}
    BY DEF IInv, Requests, Live, Types, Jobs
  <2>2. j <= last
    BY DEF IInv, Requests, Live, Types, Jobs
  <2>3. \A i \in Jobs : i > last' => row'[i].status = "none" /\ proc'[i] = "none"
    BY <2>2 DEF IInv, Requests, Untouched, Types, Jobs
  <2>4. QED
    BY <2>1, <2>3 DEF IInv, Requests, Untouched
<1>2. StoppableIsLive'
  <2>1. ASSUME NEW i \in reg', i # j PROVE Live(i)'
    <3>1. i \in reg /\ i \in Jobs \ {j}
      BY <2>1 DEF IInv, Types
    <3>2. QED
      BY <3>1 DEF IInv, StoppableIsLive, Live, Untouched
  <2>2. QED
    BY <2>1 DEF StoppableIsLive
<1>3. Settled'
  BY DEF IInv, Settled, Active, Untouched
<1>4. BlockedOnlyByLoss'
  <2>1. ASSUME NEW i \in Jobs \ {j}, Active(i)', ~Live(i)'
        PROVE  (i \in lost \/ \E c \in Callers : caller[c] = At("inserted", i))'
    BY <2>1 DEF IInv, BlockedOnlyByLoss, Active, Live, Untouched, At
  <2>2. QED
    BY <2>1 DEF BlockedOnlyByLoss, Live
<1>5. \A i \in Jobs : Flow(i)'
  BY FlowFrame DEF IInv
<1>6. QED
  BY <1>1, <1>2, <1>3, <1>4, <1>5 DEF IInv

LEMMA GotoIs ==
    ASSUME Types, NEW j \in Jobs, NEW s \in Stages, Goto(j, s)
    PROVE  /\ proc' \in [Jobs -> Stages] /\ proc'[j] = s
           /\ \A i \in Jobs \ {j} : proc'[i] = proc[i]
BY DEF Types, Goto

\* A status of the goroutine's own choice, or a lost one.
LEMMA ConcludeKeeps ==
    ASSUME IInv, NEW j \in Jobs, Live(j), Conclude(j, "failed"), Joined(j)
    PROVE  IInv'
<1>1. /\ proc' \in [Jobs -> Stages] /\ proc'[j] = "leave"
      /\ \A i \in Jobs \ {j} : proc'[i] = proc[i]
  BY GotoIs DEF IInv, Conclude, Stages
<1>2. /\ row' \in [Jobs -> [status : Statuses, processed : Nat]]
      /\ \A i \in Jobs \ {j} : row'[i] = row[i]
      /\ row'[j].status = "failed" \/ (row' = row /\ j \in lost')
      /\ lost \subseteq lost'
  BY RowType, TypeFacts DEF IInv, Conclude, SetStatus, Statuses
<1>3. Types'
  BY <1>1, <1>2, TypesFrame, TypeFacts DEF IInv, Conclude
<1>4. Flow(j)'
  <2>1. Busy(j)' = Busy(j) /\ Joined(j)'
    BY DEF Busy, Joined, NoPool, Conclude, pool
  <2>2. row'[j] = row[j] \/ row'[j].status = "failed"
    BY <1>2
  <2>3. QED
    BY <1>1, <1>2, <2>1, <2>2 DEF IInv, Flow, Conclude, pool
<1>5. QED
  BY <1>1, <1>2, <1>3, <1>4, Turn
     DEF Conclude, Live, Active, Untouched, pool

LEMMA MainKeeps ==
    ASSUME IInv, NEW j \in Jobs,
           \/ Begin(j) \/ QueryFails(j) \/ Query(j) \/ Feed(j) \/ Abort(j)
           \/ Drain(j) \/ Mark(j) \/ Leave(j)
    PROVE  IInv'
<1> USE DuplicateScanAssumption DEF DuplicateScanAssumption
<1>0. Flow(j) /\ Types /\ cancelled' = cancelled /\ Live(j)
  BY DEF IInv, Live, Begin, QueryFails, Query, Feed, Abort, Drain, Mark, Leave, Conclude
<1>1. CASE Begin(j)
  <2>1. \E s \in {"query", "leave"} :
           /\ Goto(j, s)
           /\ s = "query" => SetStatus(j, "running") /\ UNCHANGED lost
           /\ s = "leave" => lost' = lost \cup {j} /\ UNCHANGED row
    BY <1>1 DEF Begin
  <2>2. PICK s \in {"query", "leave"} :
           /\ proc' \in [Jobs -> Stages] /\ proc'[j] = s
           /\ \A i \in Jobs \ {j} : proc'[i] = proc[i]
           /\ s = "query" => SetStatus(j, "running") /\ UNCHANGED lost
           /\ s = "leave" => lost' = lost \cup {j} /\ UNCHANGED row
    BY <1>0, <2>1, GotoIs DEF Stages
  <2>3. /\ row' \in [Jobs -> [status : Statuses, processed : Nat]]
        /\ \A i \in Jobs \ {j} : row'[i] = row[i]
        /\ s = "query" => row'[j].status = "running"
        /\ s = "leave" => row' = row /\ j \in lost'
        /\ lost \subseteq lost'
    BY <1>0, <2>2, RowType, TypeFacts DEF SetStatus, Statuses
  <2>4. Types'
    BY <1>0, <1>1, <2>2, <2>3, TypesFrame, TypeFacts DEF Begin
  <2>5. Flow(j)'
    <3>1. Busy(j)' = Busy(j) /\ (Joined(j)' <=> Joined(j)) /\ proc[j] = "begin"
      BY <1>1 DEF Busy, Joined, NoPool, Begin, pool
    <3>2. QED
      BY <1>0, <1>1, <2>2, <2>3, <3>1 DEF Flow, Begin, pool
  <2>6. QED
    BY <1>0, <1>1, <2>2, <2>3, <2>4, <2>5, Turn
       DEF Begin, Live, Active, Untouched, pool
<1>2. CASE QueryFails(j)
  BY <1>0, <1>2, ConcludeKeeps DEF QueryFails, Flow
<1>3. CASE Query(j)
  <2>1. /\ proc' \in [Jobs -> Stages] /\ proc'[j] = "feed"
        /\ \A i \in Jobs \ {j} : proc'[i] = proc[i]
    BY <1>0, <1>3, GotoIs DEF Query, Stages
  <2>2. /\ n' \in [Jobs -> Nat] /\ \A i \in Jobs \ {j} : n'[i] = n[i]
    BY <1>0, <1>3 DEF Query, Types
  <2>3. /\ worker' \in [Jobs -> [Workers -> WorkerStates]]
        /\ worker'[j] = [w \in Workers |-> Ready]
        /\ \A i \in Jobs \ {j} : worker'[i] = worker[i]
    <3>1. [w \in Workers |-> Ready] \in [Workers -> WorkerStates]
      BY DEF Ready, WorkerStates
    <3>2. QED
      BY <1>0, <1>3, <3>1 DEF Query, Types
  <2>4. Types'
    BY <1>0, <1>3, <2>1, <2>2, <2>3 DEF Query, Types
  <2>5. Flow(j)'
    <3>1. /\ proc[j] = "query" /\ row' = row
          /\ UNCHANGED <<fed, queue, done, cancelled>>
      BY <1>3 DEF Query
    <3>2. fed[j] = 0 /\ Joined(j) /\ row[j].status # "completed"
      BY <1>0, <3>1 DEF Flow
    <3>3. done[j] = 0 /\ queue[j] = 0
      BY <1>0, <3>2, NobodyBusy DEF Flow, Types
    <3>4. Busy(j)' = {}
      BY <2>3 DEF Busy, Ready
    <3>5. Cardinality(Busy(j)') = 0
      BY <3>4, FS_EmptySet
    <3>6. n'[j] \in Nat
      BY <2>2
    <3>7. \A w \in Workers : worker'[j][w].at # "off"
      BY <2>3 DEF Ready
    <3>8. QED
      BY <2>1, <3>1, <3>2, <3>3, <3>5, <3>6, <3>7 DEF Flow
  <2>6. QED
    BY <1>0, <1>3, <2>1, <2>2, <2>3, <2>4, <2>5, Turn DEF Query, Live, Untouched
<1>4. CASE Feed(j)
  <2>0. /\ proc[j] = "feed" /\ UNCHANGED <<last, caller, row, reg, cancelled, n, done, worker, lost>>
        /\ Busy(j)' = Busy(j) /\ row[j].status # "completed" /\ fed[j] <= n[j]
    BY <1>0, <1>4 DEF Feed, Busy, Flow
  <2>1. CASE /\ fed[j] < n[j] /\ fed' = [fed EXCEPT ![j] = @ + 1]
             /\ queue' = [queue EXCEPT ![j] = @ + 1] /\ UNCHANGED proc
    <3>1. /\ fed' \in [Jobs -> Nat] /\ fed'[j] = fed[j] + 1
          /\ queue' \in [Jobs -> Nat] /\ queue'[j] = queue[j] + 1
          /\ \A i \in Jobs \ {j} : fed'[i] = fed[i] /\ queue'[i] = queue[i]
      BY <1>0, <2>1 DEF Types
    <3>2. Types'
      BY <1>0, <2>0, <2>1, <3>1 DEF Types
    <3>3. /\ n[j] \in Nat /\ done[j] \in Nat /\ queue[j] \in Nat /\ fed[j] \in Nat
          /\ Cardinality(Busy(j)) \in Nat
      BY <1>0, BusyFinite DEF Types
    <3>4. Flow(j)'
      BY <1>0, <2>0, <2>1, <3>1, <3>3 DEF Flow
    <3>5. QED
      BY <1>0, <2>0, <2>1, <3>1, <3>2, <3>4, Turn DEF Live, Untouched
  <2>2. CASE \E s \in {"abort", "drain"} :
               /\ Goto(j, s) /\ UNCHANGED <<fed, queue>>
               /\ s = "abort" => j \in cancelled
               /\ s = "drain" => fed[j] = n[j]
    <3>1. PICK s \in {"abort", "drain"} :
               /\ Goto(j, s) /\ UNCHANGED <<fed, queue>>
               /\ s = "abort" => j \in cancelled
               /\ s = "drain" => fed[j] = n[j]
      BY <2>2
    <3>2. /\ proc' \in [Jobs -> Stages] /\ proc'[j] = s
          /\ \A i \in Jobs \ {j} : proc'[i] = proc[i]
      BY <1>0, <3>1, GotoIs DEF Stages
    <3>3. Types'
      BY <1>0, <2>0, <3>1, <3>2 DEF Types
    <3>4. Flow(j)'
      BY <1>0, <2>0, <3>1, <3>2 DEF Flow
    <3>5. QED
      BY <1>0, <2>0, <3>1, <3>2, <3>3, <3>4, Turn DEF Live, Untouched
  <2>3. QED
    BY <1>4, <2>1, <2>2 DEF Feed
<1>5. CASE Abort(j)
  BY <1>0, <1>5, ConcludeKeeps DEF Abort
<1>6. CASE Drain(j)
  <2>1. /\ proc[j] = "drain" /\ Joined(j)
        /\ UNCHANGED <<last, caller, row, reg, cancelled, pool, lost>>
    BY <1>6 DEF Drain
  <2>2. /\ proc' \in [Jobs -> Stages] /\ proc'[j] = "mark"
        /\ \A i \in Jobs \ {j} : proc'[i] = proc[i]
    BY <1>0, <1>6, GotoIs DEF Drain, Stages
  <2>3. Types'
    BY <1>0, <2>1, <2>2, TypesFrame, TypeFacts
  <2>4. Busy(j)' = Busy(j) /\ Joined(j)' /\ Cardinality(Busy(j)) = 0
    BY <2>1, NobodyBusy DEF Busy, Joined, NoPool, pool
  <2>5. j \notin cancelled => queue[j] = 0
    <3>1. \E w \in Workers : worker[j][w].at = "off"
      BY <2>1 DEF Joined, NoPool, Off
    <3>2. QED
      BY <1>0, <2>1, <3>1 DEF Flow
  <2>6. Flow(j)'
    <3>1. done[j] \in Nat /\ queue[j] \in Nat /\ fed[j] \in Nat
      BY <1>0 DEF Types
    <3>2. j \notin cancelled => done[j] = n[j]
      BY <1>0, <2>1, <2>4, <2>5, <3>1 DEF Flow
    <3>3. QED
      BY <1>0, <2>1, <2>2, <2>4, <3>2 DEF Flow, pool
  <2>7. QED
    BY <1>0, <2>1, <2>2, <2>3, <2>6, Turn DEF Live, Untouched, pool
<1>7. CASE Mark(j)
  <2>1. /\ proc[j] = "mark" /\ UNCHANGED <<last, caller, reg, cancelled, pool>>
        /\ Goto(j, "leave")
        /\ \/ /\ row' = [row EXCEPT ![j] = [status |-> "completed", processed |-> done[j]]]
              /\ UNCHANGED lost
           \/ lost' = lost \cup {j} /\ UNCHANGED row
    BY <1>7 DEF Mark
  <2>2. /\ proc' \in [Jobs -> Stages] /\ proc'[j] = "leave"
        /\ \A i \in Jobs \ {j} : proc'[i] = proc[i]
    BY <1>0, <2>1, GotoIs DEF Stages
  <2>3. /\ row' \in [Jobs -> [status : Statuses, processed : Nat]]
        /\ \A i \in Jobs \ {j} : row'[i] = row[i]
        /\ \/ row'[j] = [status |-> "completed", processed |-> done[j]]
           \/ row' = row /\ j \in lost'
        /\ lost \subseteq lost'
    <3>1. done[j] \in Nat
      BY <1>0 DEF Types
    <3>2. QED
      BY <1>0, <2>1, <3>1, RowType, TypeFacts DEF Statuses
  <2>4. Types'
    BY <1>0, <2>1, <2>2, <2>3, TypesFrame, TypeFacts
  <2>5. Flow(j)'
    <3>1. Busy(j)' = Busy(j) /\ (Joined(j)' <=> Joined(j))
      BY <2>1 DEF Busy, Joined, NoPool, pool
    <3>2. QED
      BY <1>0, <2>1, <2>2, <2>3, <3>1 DEF Flow, pool
  <2>6. QED
    BY <1>0, <2>1, <2>2, <2>3, <2>4, <2>5, Turn DEF Live, Active, Untouched, pool
<1>8. CASE Leave(j)
  <2>1. /\ proc[j] = "leave" /\ reg' = reg \ {j}
        /\ fed' = [fed EXCEPT ![j] = 0] /\ done' = [done EXCEPT ![j] = 0]
        /\ queue' = [queue EXCEPT ![j] = 0]
        /\ UNCHANGED <<last, caller, row, cancelled, n, worker, lost>>
    BY <1>8 DEF Leave
  <2>2. /\ proc' \in [Jobs -> Stages] /\ proc'[j] = "none"
        /\ \A i \in Jobs \ {j} : proc'[i] = proc[i]
    BY <1>0, <1>8, GotoIs DEF Leave, Stages
  <2>3. /\ fed' \in [Jobs -> Nat] /\ done' \in [Jobs -> Nat] /\ queue' \in [Jobs -> Nat]
        /\ fed'[j] = 0 /\ done'[j] = 0 /\ queue'[j] = 0
        /\ \A i \in Jobs \ {j} : fed'[i] = fed[i] /\ done'[i] = done[i] /\ queue'[i] = queue[i]
    BY <1>0, <2>1 DEF Types
  <2>4. Types'
    BY <1>0, <2>1, <2>2, <2>3 DEF Types
  <2>5. Flow(j)'
    <3>1. Busy(j)' = Busy(j) /\ Joined(j)' /\ Cardinality(Busy(j)) = 0
      BY <1>0, <2>1, NobodyBusy DEF Busy, Joined, NoPool, Flow
    <3>2. QED
      BY <1>0, <2>1, <2>2, <2>3, <3>1 DEF Flow
  <2>6. ~Active(j)' \/ j \in lost'
    BY <2>1 DEF IInv, Settled, Active
  <2>7. QED
    BY <1>0, <2>1, <2>2, <2>3, <2>4, <2>5, <2>6, Turn DEF Live, Untouched
<1>9. QED
  BY <1>1, <1>2, <1>3, <1>4, <1>5, <1>6, <1>7, <1>8

LEMMA WorkerKeeps ==
    ASSUME IInv, NEW j \in Jobs, NEW w \in Workers,
           Receive(j, w) \/ Count(j, w) \/ Report(j, w)
    PROVE  IInv'
<1>0. /\ Types /\ Flow(j) /\ worker[j][w].at # "off"
      /\ UNCHANGED <<last, caller, reg, cancelled, proc, n, fed, lost>>
  BY DEF IInv, Receive, Count, Report, Ready
<1>a. Live(j) /\ ~Joined(j) /\ proc[j] \notin {"none", "begin", "query", "mark", "leave"}
  <2>1. ~Joined(j)
    BY <1>0 DEF Joined, NoPool, Off
  <2>2. QED
    BY <1>0, <2>1 DEF Flow, Live
<1>b. /\ n[j] \in Nat /\ done[j] \in Nat /\ queue[j] \in Nat /\ fed[j] \in Nat
      /\ Cardinality(Busy(j)) \in Nat
  BY <1>0, BusyFinite DEF Types
<1>1. CASE Receive(j, w)
  <2>0. worker[j][w].at = "ready" /\ row' = row /\ done' = done
    BY <1>1 DEF Receive, Ready
  <2>1. CASE /\ queue[j] > 0 /\ queue' = [queue EXCEPT ![j] = @ - 1]
             /\ SetWorker(j, w, [at |-> "book", count |-> 0])
    <3>1. [at |-> "book", count |-> 0] \in WorkerStates
      BY DEF WorkerStates
    <3>2. /\ queue' \in [Jobs -> Nat] /\ queue'[j] = queue[j] - 1
          /\ \A i \in Jobs \ {j} : queue'[i] = queue[i]
      BY <1>0, <1>b, <2>1 DEF Types
    <3>3. /\ worker' \in [Jobs -> [Workers -> WorkerStates]]
          /\ worker'[j][w].at = "book"
          /\ \A v \in Workers \ {w} : worker'[j][v] = worker[j][v]
          /\ \A i \in Jobs \ {j} : worker'[i] = worker[i]
      BY <1>0, <2>1, <3>1, SetWorkerIs
    <3>4. Cardinality(Busy(j)') = Cardinality(Busy(j)) + 1
      BY <1>0, <2>0, <2>1, <3>1, Takes
    <3>5. Types'
      BY <1>0, <2>0, <3>2, <3>3 DEF Types
    <3>6. Flow(j)'
      <4>1. done'[j] + queue'[j] + Cardinality(Busy(j)') = fed'[j]
        BY <1>0, <1>b, <2>0, <3>2, <3>4 DEF Flow
      <4>2. \A v \in Workers : worker'[j][v].at = "off" => worker[j][v].at = "off"
        BY <3>3
      <4>3. j \notin cancelled /\ proc[j] = "drain" =>
               \A v \in Workers : worker[j][v].at # "off"
        BY <1>0, <1>b, <2>1 DEF Flow
      <4>4. QED
        BY <1>0, <1>a, <2>0, <3>2, <4>1, <4>2, <4>3 DEF Flow
    <3>7. QED
      BY <1>0, <1>a, <2>0, <3>2, <3>3, <3>5, <3>6, Turn DEF Live, Untouched
  <2>2. CASE /\ SetWorker(j, w, Off) /\ UNCHANGED queue
             /\ (queue[j] = 0 /\ Closed(j)) \/ j \in cancelled
    <3>1. Off \in WorkerStates /\ Off.at = "off"
      BY DEF WorkerStates, Off
    <3>2. /\ worker' \in [Jobs -> [Workers -> WorkerStates]]
          /\ worker'[j][w].at = "off"
          /\ \A v \in Workers \ {w} : worker'[j][v] = worker[j][v]
          /\ \A i \in Jobs \ {j} : worker'[i] = worker[i]
      BY <1>0, <2>2, <3>1, SetWorkerIs
    <3>3. Busy(j)' = Busy(j)
      BY <1>0, <2>0, <2>2, <3>1, Keeps
    <3>4. Types'
      BY <1>0, <2>0, <2>2, <3>2 DEF Types
    <3>5. Flow(j)'
      BY <1>0, <1>a, <2>0, <2>2, <3>2, <3>3 DEF Flow, Closed
    <3>6. QED
      BY <1>0, <1>a, <2>0, <2>2, <3>2, <3>4, <3>5, Turn DEF Live, Untouched
  <2>3. QED
    BY <1>1, <2>1, <2>2 DEF Receive
<1>2. CASE Count(j, w)
  <2>1. /\ worker[j][w].at = "book" /\ row' = row /\ queue' = queue
        /\ done' = [done EXCEPT ![j] = @ + 1]
    BY <1>2 DEF Count
  <2>2. /\ done' \in [Jobs -> Nat] /\ done'[j] = done[j] + 1
        /\ \A i \in Jobs \ {j} : done'[i] = done[i]
    BY <1>0, <2>1 DEF Types
  <2>3. PICK s \in WorkerStates : SetWorker(j, w, s) /\ s.at \in {"report", "ready"}
    <3>1. /\ [at |-> "report", count |-> done'[j]] \in WorkerStates
          /\ Ready \in WorkerStates /\ Ready.at = "ready"
      BY <1>b, <2>2 DEF WorkerStates, Ready
    <3>2. QED
      BY <1>2, <3>1 DEF Count
  <2>4. /\ worker' \in [Jobs -> [Workers -> WorkerStates]]
        /\ worker'[j][w].at # "off"
        /\ \A v \in Workers \ {w} : worker'[j][v] = worker[j][v]
        /\ \A i \in Jobs \ {j} : worker'[i] = worker[i]
    BY <1>0, <2>3, SetWorkerIs
  <2>5. Cardinality(Busy(j)') = Cardinality(Busy(j)) - 1
    BY <1>0, <2>1, <2>3, Gives
  <2>6. Types'
    BY <1>0, <2>1, <2>2, <2>4 DEF Types
  <2>7. Flow(j)'
    <3>1. done'[j] + queue'[j] + Cardinality(Busy(j)') = fed'[j]
      BY <1>0, <1>b, <2>1, <2>2, <2>5 DEF Flow
    <3>2. \A v \in Workers : worker'[j][v].at = "off" <=> worker[j][v].at = "off"
      BY <1>0, <2>4
    <3>3. QED
      BY <1>0, <1>a, <2>1, <3>1, <3>2 DEF Flow
  <2>8. QED
    BY <1>0, <1>a, <2>1, <2>2, <2>4, <2>6, <2>7, Turn DEF Live, Untouched
<1>3. CASE Report(j, w)
  <2>0. /\ worker[j][w].at = "report" /\ SetWorker(j, w, Ready)
        /\ UNCHANGED <<queue, done>>
    BY <1>3 DEF Report
  <2>1. Ready \in WorkerStates /\ Ready.at = "ready"
    BY DEF WorkerStates, Ready
  <2>2. /\ worker' \in [Jobs -> [Workers -> WorkerStates]]
        /\ worker'[j][w].at # "off"
        /\ \A v \in Workers \ {w} : worker'[j][v] = worker[j][v]
        /\ \A i \in Jobs \ {j} : worker'[i] = worker[i]
    BY <1>0, <2>0, <2>1, SetWorkerIs
  <2>3. Busy(j)' = Busy(j)
    BY <1>0, <2>0, <2>1, Keeps
  <2>4. /\ row' \in [Jobs -> [status : Statuses, processed : Nat]]
        /\ row'[j].status = row[j].status
        /\ \A i \in Jobs \ {j} : row'[i] = row[i]
    <3>1. CASE UNCHANGED row
      BY <1>0, <3>1, TypeFacts
    <3>2. CASE \E k \in 1..done[j] :
                 row' = [row EXCEPT ![j] = [status |-> row[j].status, processed |-> k]]
      <4>1. row[j].status \in Statuses /\ 1..done[j] \subseteq Nat
        BY <1>0, <1>b DEF Types
      <4>2. PICK k \in 1..done[j] :
                 row' = [row EXCEPT ![j] = [status |-> row[j].status, processed |-> k]]
        BY <3>2
      <4>3. k \in Nat
        BY <4>1
      <4>4. /\ row' \in [Jobs -> [status : Statuses, processed : Nat]]
            /\ row'[j] = [status |-> row[j].status, processed |-> k]
            /\ \A i \in Jobs \ {j} : row'[i] = row[i]
        BY <1>0, <4>1, <4>2, <4>3, RowType
      <4>5. QED
        BY <4>4
    <3>3. QED
      BY <1>3, <3>1, <3>2 DEF Report
  <2>5. row[j].status # "completed"
    BY <1>0, <1>a DEF Flow
  <2>6. Types'
    BY <1>0, <2>0, <2>2, <2>4 DEF Types
  <2>7. Flow(j)'
    BY <1>0, <1>a, <2>0, <2>2, <2>3, <2>4, <2>5 DEF Flow
  <2>8. QED
    BY <1>0, <1>a, <2>0, <2>2, <2>4, <2>6, <2>7, Turn DEF Live, Untouched
<1>4. QED
  BY <1>1, <1>2, <1>3

------------------------------------------------------------------------------
(* Crash, and the whole system.                                            *)

LEMMA CrashKeeps ==
    ASSUME IInv, Crash
    PROVE  IInv'
<1> USE DuplicateScanAssumption DEF DuplicateScanAssumption
<1>1. Types'
  <2>1. NoPool \in [Workers -> WorkerStates]
    BY DEF NoPool, Off, WorkerStates
  <2>2. QED
    BY <2>1 DEF IInv, Types, Crash, Each, Idle, Stages
<1>2. Requests'
  BY DEF IInv, Requests, Crash, Each, Idle
<1>3. (StoppableIsLive /\ Settled /\ BlockedOnlyByLoss)'
  BY DEF StoppableIsLive, Settled, BlockedOnlyByLoss, Crash, Each, Active, Live
<1>4. ASSUME NEW j \in Jobs PROVE Flow(j)'
  <2>1. /\ proc'[j] = "none" /\ fed'[j] = 0 /\ queue'[j] = 0 /\ done'[j] = 0
        /\ worker'[j] = NoPool /\ Joined(j)'
    BY DEF Crash, Each, Joined, NoPool
  <2>2. Busy(j)' = {}
    BY <2>1 DEF Busy, NoPool, Off
  <2>3. Cardinality(Busy(j)') = 0
    BY <2>2, FS_EmptySet
  <2>4. QED
    BY <2>1, <2>3 DEF IInv, Flow, Crash
<1>5. QED
  BY <1>1, <1>2, <1>3, <1>4 DEF IInv

LEMMA IInvInit == Init => IInv
<1> SUFFICES ASSUME Init PROVE IInv
  OBVIOUS
<1> USE DuplicateScanAssumption DEF DuplicateScanAssumption
<1>1. Types
  <2>1. NoPool \in [Workers -> WorkerStates] /\ NoRow \in [status : Statuses, processed : Nat]
    BY DEF NoPool, Off, WorkerStates, NoRow, Statuses
  <2>2. QED
    BY <2>1 DEF Init, Types, Each, Idle, Stages
<1>2. Requests
  BY DEF Init, Requests, Each, Idle, NoRow
<1>3. StoppableIsLive /\ Settled /\ BlockedOnlyByLoss
  BY DEF Init, StoppableIsLive, Settled, BlockedOnlyByLoss, Each, Active, NoRow
<1>4. ASSUME NEW j \in Jobs PROVE Flow(j)
  <2>1. worker[j] = NoPool /\ Joined(j)
    BY DEF Init, Each, Joined
  <2>2. Cardinality(Busy(j)) = 0
    BY <2>1, NobodyBusy
  <2>3. QED
    BY <2>1, <2>2 DEF Init, Each, Flow, NoRow
<1>5. QED
  BY <1>1, <1>2, <1>3, <1>4 DEF IInv

LEMMA StutterKeeps ==
    ASSUME IInv, UNCHANGED vars
    PROVE  IInv'
<1>1. (Types /\ Requests /\ StoppableIsLive /\ Settled /\ BlockedOnlyByLoss)'
  BY DEF IInv, Types, Requests, StoppableIsLive, Settled, BlockedOnlyByLoss, Active,
         Live, vars
<1>2. ASSUME NEW j \in Jobs PROVE Flow(j)'
  BY FlowFrame DEF IInv, Untouched, vars
<1>3. QED
  BY <1>1, <1>2 DEF IInv

LEMMA Invariance == Spec => []IInv
<1>1. IInv /\ [Next]_vars => IInv'
  BY RequestKeeps, MainKeeps, WorkerKeeps, CrashKeeps, StutterKeeps DEF Next, Goroutine
<1>2. QED
  BY IInvInit, <1>1, PTL DEF Spec

\* For any number of requests, jobs, workers and books: a job that completes
\* without having been stopped has gone through every book it found, and no
\* late report of a worker overwrites its final count.
THEOREM ScanWholeness == Spec => []CompletedIsWhole
<1>1. IInv => CompletedIsWhole
  BY DEF IInv, Flow, CompletedIsWhole
<1>2. QED
  BY <1>1, Invariance, PTL

\* An entry of the cancel map never outlives the goroutine it can stop.
THEOREM StopSafety == Spec => []StoppableIsLive
<1>1. IInv => StoppableIsLive
  BY DEF IInv
<1>2. QED
  BY <1>1, Invariance, PTL

\* Only a crash or a failed write leaves a job that blocks all later scans
\* although nobody is working on it.
THEOREM BlockSafety == Spec => []BlockedOnlyByLoss
<1>1. IInv => BlockedOnlyByLoss
  BY DEF IInv
<1>2. QED
  BY <1>1, Invariance, PTL
=============================================================================
