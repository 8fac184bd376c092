------------------------- MODULE ScanSessionsProofs -------------------------
(***************************************************************************)
(* Theorems about ScanSessions for any number of requests, sessions,       *)
(* archives and books: each scan state is owned by the one goroutine at    *)
(* work, and an archive scan that completed went through all its archives. *)
(***************************************************************************)
EXTENDS ScanSessions, TLAPS

ScanTypes ==
    /\ scan \in [running : BOOLEAN, sid : 0..MaxSessions, failed : BOOLEAN,
                 total : 0..MaxArchives, done : 0..MaxArchives]
    /\ work \in [Sessions -> WorkStages]
    /\ kind \in [Sessions -> Kinds]
    /\ left \in [Sessions -> 0..MaxArchives]

FixTypes ==
    /\ fix \in [running : BOOLEAN, sid : 0..MaxSessions]
    /\ fixWork \in [Sessions -> FixStages]

\* No state names a session that has not been started.
Clock == last \in 0..MaxSessions /\ scan.sid <= last /\ fix.sid <= last

ScanOwned == \A s \in Sessions : Live(s) <=> scan.running /\ scan.sid = s
FixOwned  == \A s \in Sessions : FixLive(s) <=> fix.running /\ fix.sid = s

\* How far the goroutine has come, against what the state says.
Course(s) ==
    /\ work[s] = "begin" => scan.total = 0 /\ scan.done = 0
    /\ work[s] = "next" =>
          /\ scan.done + left[s] = scan.total
          /\ kind[s] = "single" => left[s] = 1
    /\ work[s] \in {"archive", "apply"} =>
          /\ scan.done + left[s] + 1 = scan.total
          /\ kind[s] = "single" => left[s] = 0
    /\ work[s] = "closed" =>
          IF kind[s] = "full" THEN scan.done = scan.total
          ELSE scan.done + 1 = scan.total
    /\ work[s] = "finish" => scan.done = scan.total
    /\ work[s] = "apply" => kind[s] = "full"

ScanInv == /\ ScanTypes /\ ScanOwned
           /\ \A s \in Sessions : Course(s)
           /\ CompletedIsWhole
FixInv  == FixTypes /\ FixOwned
IInv    == Clock /\ ScanInv /\ FixInv

------------------------------------------------------------------------------
(* The archive scan.                                                       *)

\* A goroutine that returns releases its state.
LEMMA StopReleases ==
    ASSUME ScanInv, NEW s \in Sessions, Live(s), NEW f \in BOOLEAN,
           Stop(s, f), Goto(s, "none"),
           left' = [left EXCEPT ![s] = 0], kind' = kind,
           ~f => scan.done = scan.total
    PROVE  ScanInv' /\ scan'.sid = scan.sid
<1>1. scan.sid = s /\ scan.running
  BY DEF ScanInv, ScanOwned
<1>2. scan' = Scan(FALSE, s, f, scan.total, scan.done)
  BY <1>1 DEF Stop
<1>3. ScanTypes'
  BY <1>1, <1>2, ScanAssumption
     DEF ScanInv, ScanTypes, Scan, Goto, WorkStages, ScanAssumption
<1>4. \A t \in Sessions : work'[t] = "none"
  BY <1>1 DEF ScanInv, ScanOwned, ScanTypes, Live, Goto
<1>5. ScanOwned'
  BY <1>2, <1>4 DEF ScanOwned, Live, Scan
<1>6. (\A t \in Sessions : Course(t))'
  BY <1>4 DEF Course
<1>7. CompletedIsWhole'
  BY <1>2 DEF ScanInv, CompletedIsWhole, Scan
<1>8. QED
  BY <1>1, <1>2, <1>3, <1>5, <1>6, <1>7 DEF ScanInv, Scan

\* Session s moves to stage w, another stage of its goroutine, and the others
\* are not at work: what is left to show is about s alone.
LEMMA MoveOn ==
    ASSUME ScanInv, NEW s \in Sessions, Live(s), NEW w \in WorkStages \ {"none"},
           Goto(s, w), kind' = kind,
           left' \in [Sessions -> 0..MaxArchives],
           scan' \in [running : BOOLEAN, sid : 0..MaxSessions, failed : BOOLEAN,
                      total : 0..MaxArchives, done : 0..MaxArchives],
           scan'.running = scan.running, scan'.sid = scan.sid,
           scan'.done <= scan'.total, Course(s)'
    PROVE  ScanInv' /\ scan'.sid = scan.sid
<1>1. scan.sid = s /\ scan.running
  BY DEF ScanInv, ScanOwned
<1>2. \A t \in Sessions \ {s} : work[t] = "none" /\ work'[t] = "none"
  BY <1>1 DEF ScanInv, ScanOwned, ScanTypes, Live, Goto
<1>3. work'[s] = w
  BY DEF ScanInv, ScanTypes, Goto
<1>4. ScanTypes'
  BY DEF ScanInv, ScanTypes, Goto
<1>5. ScanOwned'
  BY <1>1, <1>2, <1>3 DEF ScanOwned, Live
<1>6. (\A t \in Sessions : Course(t))'
  <2>1. ASSUME NEW t \in Sessions \ {s} PROVE Course(t)'
    BY <1>2, <2>1 DEF Course
  <2>2. QED
    BY <2>1
<1>7. CompletedIsWhole'
  BY <1>1 DEF CompletedIsWhole
<1>8. QED
  BY <1>4, <1>5, <1>6, <1>7 DEF ScanInv

LEMMA ScannerKeeps ==
    ASSUME ScanInv, NEW s \in Sessions, Scanner(s) \/ Panic(s)
    PROVE  ScanInv' /\ scan'.sid = scan.sid
<1> USE ScanAssumption DEF ScanAssumption
<1>0. Live(s) => scan.sid = s /\ scan.running /\ Course(s)
  BY DEF ScanInv, ScanOwned
<1>1. CASE Begin(s)
  <2>0. Live(s) /\ kind' = kind /\ scan.total = 0 /\ scan.done = 0
    BY <1>1, <1>0 DEF Begin, Live, Course
  <2>1. CASE Stop(s, TRUE) /\ End(s)
    BY <2>0, <2>1, StopReleases DEF End
  <2>2. CASE Stop(s, FALSE) /\ End(s)
    BY <2>0, <2>2, StopReleases DEF End
  <2>3. ASSUME NEW n \in 1..MaxArchives, kind[s] = "single" => n = 1,
               scan' = IF scan.sid = s THEN [scan EXCEPT !.total = n] ELSE scan,
               Goto(s, "next"), left' = [left EXCEPT ![s] = n]
        PROVE  ScanInv' /\ scan'.sid = scan.sid
    <3>1. scan' = [scan EXCEPT !.total = n]
      BY <2>0, <2>3, <1>0
    <3>2. scan' \in [running : BOOLEAN, sid : 0..MaxSessions, failed : BOOLEAN,
                     total : 0..MaxArchives, done : 0..MaxArchives]
          /\ scan'.running = scan.running /\ scan'.sid = scan.sid
          /\ scan'.done = 0 /\ scan'.total = n
      BY <2>0, <3>1 DEF ScanInv, ScanTypes
    <3>3. left' \in [Sessions -> 0..MaxArchives] /\ left'[s] = n
      BY <2>3 DEF ScanInv, ScanTypes
    <3>4. work'[s] = "next"
      BY <2>3 DEF Goto, ScanInv, ScanTypes
    <3>5. Course(s)'
      BY <2>0, <2>3, <3>2, <3>3, <3>4 DEF Course
    <3>6. QED
      BY <2>0, <2>3, <3>2, <3>3, <3>5, MoveOn DEF WorkStages
  <2>4. QED
    BY <1>1, <2>1, <2>2, <2>3 DEF Begin
<1>2. CASE NextArchive(s)
  <2>0. /\ Live(s) /\ kind' = kind /\ scan' = scan
        /\ scan.done + left[s] = scan.total
        /\ kind[s] = "single" => left[s] = 1
        /\ kind[s] \in Kinds /\ left[s] \in 0..MaxArchives
        /\ scan.done \in Nat /\ scan.total \in Nat
    BY <1>2, <1>0 DEF NextArchive, Live, Course, ScanInv, ScanTypes
  <2>1. CASE left[s] > 0
    <3>1. Goto(s, "archive") /\ left' = [left EXCEPT ![s] = @ - 1]
      BY <1>2, <2>1 DEF NextArchive
    <3>2. /\ left' \in [Sessions -> 0..MaxArchives] /\ left'[s] = left[s] - 1
          /\ work'[s] = "archive"
      BY <2>0, <2>1, <3>1 DEF ScanInv, ScanTypes, Goto
    <3>3. Course(s)'
      BY <2>0, <3>2 DEF Course
    <3>4. QED
      BY <2>0, <3>1, <3>2, <3>3, MoveOn
         DEF WorkStages, ScanInv, ScanTypes, CompletedIsWhole
  <2>2. CASE ~(left[s] > 0)
    <3>1. Goto(s, "closed") /\ left' = left
      BY <1>2, <2>2 DEF NextArchive
    <3>2. work'[s] = "closed" /\ left[s] = 0
      BY <2>0, <2>2, <3>1 DEF ScanInv, ScanTypes, Goto
    <3>3. Course(s)'
      BY <2>0, <3>1, <3>2 DEF Course, Kinds
    <3>4. QED
      BY <2>0, <3>1, <3>2, <3>3, MoveOn
         DEF WorkStages, ScanInv, ScanTypes, CompletedIsWhole
  <2>3. QED
    BY <2>1, <2>2
<1>3. CASE File(s)
  BY <1>3 DEF File, ScanInv, ScanTypes, ScanOwned, Course, CompletedIsWhole, Live
<1>4. CASE ArchiveEnd(s)
  <2>0. /\ Live(s) /\ kind' = kind /\ scan' = scan /\ left' = left
        /\ scan.done + left[s] + 1 = scan.total
        /\ kind[s] = "single" => left[s] = 0
        /\ kind[s] \in Kinds /\ left[s] \in 0..MaxArchives
        /\ scan.done \in Nat /\ scan.total \in Nat
    BY <1>4, <1>0 DEF ArchiveEnd, Live, Course, ScanInv, ScanTypes
  <2>1. PICK w \in {"apply", "closed"} :
             Goto(s, w) /\ w = IF kind[s] = "full" THEN "apply" ELSE "closed"
    BY <1>4 DEF ArchiveEnd
  <2>2. work'[s] = w
    BY <2>1 DEF Goto, ScanInv, ScanTypes
  <2>3. Course(s)'
    BY <2>0, <2>1, <2>2 DEF Course, Kinds
  <2>4. QED
    BY <2>0, <2>1, <2>3, MoveOn DEF WorkStages, ScanInv, ScanTypes, CompletedIsWhole
<1>5. CASE Apply(s)
  <2>0. /\ Live(s) /\ kind' = kind /\ left' = left
        /\ scan' = [scan EXCEPT !.done = @ + 1]
        /\ kind[s] \in Kinds /\ left[s] \in 0..MaxArchives
        /\ scan.done \in Nat /\ scan.total \in 0..MaxArchives
        /\ work[s] = "apply" \/ (work[s] = "closed" /\ kind[s] = "single")
    BY <1>5, <1>0 DEF Apply, Live, Course, ScanInv, ScanTypes
  <2>1. scan.done + 1 <= scan.total
    BY <2>0, <1>0 DEF Course, Kinds
  <2>2. /\ scan' \in [running : BOOLEAN, sid : 0..MaxSessions, failed : BOOLEAN,
                      total : 0..MaxArchives, done : 0..MaxArchives]
        /\ scan'.running = scan.running /\ scan'.sid = scan.sid
        /\ scan'.done = scan.done + 1 /\ scan'.total = scan.total
    BY <2>0, <2>1 DEF ScanInv, ScanTypes
  <2>3. CASE work[s] = "apply"
    <3>1. Goto(s, "next") /\ kind[s] = "full"
      BY <1>5, <2>0, <2>3, <1>0 DEF Apply, Course
    <3>2. work'[s] = "next"
      BY <3>1 DEF Goto, ScanInv, ScanTypes
    <3>3. Course(s)'
      BY <2>0, <2>2, <2>3, <3>1, <3>2, <1>0 DEF Course
    <3>4. QED
      BY <2>0, <2>1, <2>2, <3>1, <3>3, MoveOn DEF WorkStages, ScanInv, ScanTypes
  <2>4. CASE work[s] = "closed" /\ kind[s] = "single"
    <3>1. Goto(s, "finish") /\ scan.done + 1 = scan.total
      BY <1>5, <2>0, <2>4, <1>0 DEF Apply, Course
    <3>2. work'[s] = "finish"
      BY <3>1 DEF Goto, ScanInv, ScanTypes
    <3>3. Course(s)'
      BY <2>0, <2>2, <3>1, <3>2 DEF Course
    <3>4. QED
      BY <2>0, <2>1, <2>2, <3>1, <3>3, MoveOn DEF WorkStages, ScanInv, ScanTypes
  <2>5. QED
    BY <2>0, <2>3, <2>4
<1>6. CASE Finish(s)
  <2>1. Live(s) /\ kind' = kind /\ scan.done = scan.total
    BY <1>6, <1>0 DEF Finish, Live, Course
  <2>2. QED
    BY <1>6, <2>1, StopReleases DEF Finish, End
<1>7. CASE Panic(s)
  <2>1. Live(s) /\ kind' = kind
    BY <1>7 DEF Panic, Live
  <2>2. QED
    BY <1>7, <2>1, StopReleases DEF Panic, End
<1>8. QED
  BY <1>1, <1>2, <1>3, <1>4, <1>5, <1>6, <1>7 DEF Scanner

LEMMA StartScanKeeps ==
    ASSUME IInv, NEW c, StartScan(c)
    PROVE  ScanInv' /\ Clock'
<1> USE ScanAssumption DEF ScanAssumption
<1>1. CASE scan.running
  BY <1>1 DEF StartScan, IInv, ScanInv, ScanTypes, ScanOwned, Course, CompletedIsWhole,
              Live, Clock, fixVars
<1>2. CASE ~scan.running
  <2> DEFINE n == last + 1
  <2>1. /\ n \in Sessions /\ last' = n
        /\ scan' = Scan(TRUE, n, FALSE, 0, 0)
        /\ work' = [work EXCEPT ![n] = "begin"]
        /\ \E k \in Kinds : kind' = [kind EXCEPT ![n] = k]
        /\ left' = left /\ fix' = fix
    BY <1>2 DEF StartScan, IInv, Clock, Sessions, fixVars
  <2>2. ScanTypes'
    BY <2>1 DEF IInv, ScanInv, ScanTypes, Scan, Sessions, WorkStages
  <2>3. \A t \in Sessions : work'[t] = IF t = n THEN "begin" ELSE "none"
    BY <1>2, <2>1 DEF IInv, ScanInv, ScanTypes, ScanOwned, Live
  <2>4. ScanOwned'
    BY <2>1, <2>3 DEF ScanOwned, Live, Scan
  <2>5. (\A t \in Sessions : Course(t))'
    BY <2>1, <2>3 DEF Course, Scan
  <2>6. CompletedIsWhole'
    BY <2>1 DEF CompletedIsWhole, Scan
  <2>7. Clock'
    BY <2>1 DEF IInv, Clock, Scan, Sessions, FixInv, FixTypes
  <2>8. QED
    BY <2>2, <2>4, <2>5, <2>6, <2>7 DEF ScanInv
<1>3. QED
  BY <1>1, <1>2

------------------------------------------------------------------------------
(* The fix scan.                                                           *)

LEMMA FixEndKeeps ==
    ASSUME FixInv, NEW s \in Sessions, FixLive(s),
           NEW w \in {"none", "panicked"}, FixEnd(s, w)
    PROVE  FixInv' /\ fix'.sid = fix.sid
<1>1. fix.sid = s /\ fix.running
  BY DEF FixInv, FixOwned
<1>2. fix' = [fix EXCEPT !.running = FALSE]
  BY <1>1 DEF FixEnd
<1>3. fix' \in [running : BOOLEAN, sid : 0..MaxSessions]
      /\ ~fix'.running /\ fix'.sid = s
  BY <1>1, <1>2 DEF FixInv, FixTypes
<1>4. fixWork' \in [Sessions -> FixStages]
  BY DEF FixEnd, FixGoto, FixInv, FixTypes, FixStages
<1>5. \A t \in Sessions : ~FixLive(t)'
  BY <1>1 DEF FixEnd, FixGoto, FixInv, FixTypes, FixOwned, FixLive
<1>6. QED
  BY <1>1, <1>3, <1>4, <1>5 DEF FixInv, FixTypes, FixOwned

LEMMA FixGotoKeeps ==
    ASSUME FixInv, NEW s \in Sessions, FixLive(s),
           NEW w \in {"run", "failed", "final", "finish"}, FixGoto(s, w), fix' = fix
    PROVE  FixInv'
<1>1. fixWork' \in [Sessions -> FixStages]
  BY DEF FixGoto, FixInv, FixTypes, FixStages
<1>2. \A t \in Sessions : FixLive(t)' <=> FixLive(t)
  BY DEF FixGoto, FixInv, FixTypes, FixLive
<1>3. QED
  BY <1>1, <1>2 DEF FixInv, FixTypes, FixOwned

LEMMA FixerKeeps ==
    ASSUME FixInv, NEW s \in Sessions, Fixer(s) \/ FixPanic(s)
    PROVE  FixInv' /\ fix'.sid = fix.sid
<1>1. CASE FixQuery(s)
  BY <1>1, FixGotoKeeps DEF FixQuery, FixLive
<1>2. CASE FixBook(s)
  BY <1>2 DEF FixBook, FixInv, FixTypes, FixOwned, FixLive
<1>3. CASE FixReturn(s)
  BY <1>3, FixGotoKeeps DEF FixReturn, FixLive
<1>4. CASE FixFail(s)
  BY <1>4, FixEndKeeps DEF FixFail, FixLive
<1>5. CASE FixFinal(s)
  BY <1>5, FixGotoKeeps DEF FixFinal, FixLive
<1>6. CASE FixFinish(s)
  BY <1>6, FixEndKeeps DEF FixFinish, FixLive
<1>7. CASE FixPanic(s)
  BY <1>7, FixEndKeeps DEF FixPanic, FixLive
<1>8. QED
  BY <1>1, <1>2, <1>3, <1>4, <1>5, <1>6, <1>7 DEF Fixer

LEMMA StartFixScanKeeps ==
    ASSUME IInv, NEW c, StartFixScan(c)
    PROVE  FixInv' /\ Clock'
<1> USE ScanAssumption DEF ScanAssumption
<1>1. CASE fix.running
  BY <1>1 DEF StartFixScan, IInv, FixInv, FixTypes, FixOwned, FixLive, Clock, scanVars
<1>2. CASE ~fix.running
  <2> DEFINE n == last + 1
  <2>1. /\ n \in Sessions /\ last' = n
        /\ fix' = [running |-> TRUE, sid |-> n]
        /\ fixWork' = [fixWork EXCEPT ![n] = "query"]
        /\ scan' = scan
    BY <1>2 DEF StartFixScan, IInv, Clock, Sessions, scanVars
  <2>2. FixTypes'
    BY <2>1 DEF IInv, FixInv, FixTypes, Sessions, FixStages
  <2>3. \A t \in Sessions : FixLive(t)' <=> t = n
    BY <1>2, <2>1 DEF IInv, FixInv, FixTypes, FixOwned, FixLive
  <2>4. FixOwned'
    BY <2>1, <2>3 DEF FixOwned
  <2>5. Clock'
    BY <2>1 DEF IInv, Clock, Sessions, ScanInv, ScanTypes
  <2>6. QED
    BY <2>2, <2>4, <2>5 DEF FixInv
<1>3. QED
  BY <1>1, <1>2

------------------------------------------------------------------------------
(* The whole system.                                                       *)

LEMMA ScanFrame ==
    ASSUME ScanInv, UNCHANGED scanVars
    PROVE  ScanInv' /\ scan'.sid = scan.sid
BY DEF ScanInv, ScanTypes, ScanOwned, Course, CompletedIsWhole, Live, scanVars

LEMMA FixFrame ==
    ASSUME FixInv, UNCHANGED fixVars
    PROVE  FixInv' /\ fix'.sid = fix.sid
BY DEF FixInv, FixTypes, FixOwned, FixLive, fixVars

LEMMA ScanTickFrame ==
    ASSUME ScanInv, UNCHANGED <<scan, work, kind, left>>
    PROVE  ScanInv' /\ scan'.sid = scan.sid
BY DEF ScanInv, ScanTypes, ScanOwned, Course, CompletedIsWhole, Live

LEMMA FixTickFrame ==
    ASSUME FixInv, UNCHANGED <<fix, fixWork>>
    PROVE  FixInv' /\ fix'.sid = fix.sid
BY DEF FixInv, FixTypes, FixOwned, FixLive

\* Neither memory names a session in a fresh process.
LEMMA FreshInv ==
    ASSUME last \in 0..MaxSessions,
           scan = Scan(FALSE, 0, FALSE, 0, 0), work = Each("none"),
           kind = Each("full"), left = Each(0),
           fix = [running |-> FALSE, sid |-> 0], fixWork = Each("none")
    PROVE  IInv
<1> USE ScanAssumption DEF ScanAssumption
<1>1. ScanTypes
  BY DEF ScanTypes, Scan, Each, WorkStages, Kinds
<1>2. FixTypes
  BY DEF FixTypes, Each, FixStages
<1>3. ScanOwned /\ FixOwned
  BY DEF ScanOwned, FixOwned, Live, FixLive, Scan, Each
<1>4. \A s \in Sessions : Course(s)
  BY DEF Course, Each
<1>5. CompletedIsWhole /\ Clock
  BY DEF CompletedIsWhole, Clock, Scan
<1>6. QED
  BY <1>1, <1>2, <1>3, <1>4, <1>5 DEF IInv, ScanInv, FixInv

LEMMA FreshPrime ==
    ASSUME (/\ last \in 0..MaxSessions
            /\ scan = Scan(FALSE, 0, FALSE, 0, 0) /\ work = Each("none")
            /\ kind = Each("full") /\ left = Each(0)
            /\ fix = [running |-> FALSE, sid |-> 0] /\ fixWork = Each("none"))'
    PROVE  IInv'
BY FreshInv, PTL

LEMMA IInvInit == Init => IInv
BY FreshInv, ScanAssumption DEF Init, ScanAssumption

LEMMA IInvStep == IInv /\ [Next]_vars => IInv'
<1> SUFFICES ASSUME IInv, [Next]_vars PROVE IInv'
  OBVIOUS
<1>1. ASSUME NEW c \in Callers, NEW k \in Kinds \cup {"fix"}, Check(c, k) PROVE IInv'
  BY <1>1, ScanFrame, FixFrame DEF Check, IInv, Clock
<1>2. ASSUME NEW c \in Callers, StartScan(c) PROVE IInv'
  BY <1>2, StartScanKeeps, FixFrame DEF StartScan, IInv
<1>3. ASSUME NEW c \in Callers, StartFixScan(c) PROVE IInv'
  BY <1>3, StartFixScanKeeps, ScanFrame DEF StartFixScan, IInv
<1>4. CASE CancelFixScan
  BY <1>4, ScanFrame, FixTickFrame DEF CancelFixScan, IInv, Clock
<1>5. ASSUME NEW s \in Sessions, Scanner(s) \/ Panic(s) PROVE IInv'
  <2>1. UNCHANGED <<last, fixVars>>
    BY <1>5 DEF Scanner, Panic, Begin, NextArchive, File, ArchiveEnd, Apply, Finish
  <2>2. QED
    BY <1>5, <2>1, ScannerKeeps, FixFrame DEF IInv, Clock
<1>6. ASSUME NEW s \in Sessions, Fixer(s) \/ FixPanic(s) PROVE IInv'
  <2>1. UNCHANGED <<last, scanVars>>
    BY <1>6 DEF Fixer, FixPanic, FixQuery, FixBook, FixReturn, FixFail, FixFinal,
                FixFinish, FixEnd
  <2>2. QED
    BY <1>6, <2>1, FixerKeeps, ScanFrame DEF IInv, Clock
<1>7. ASSUME NEW s \in Sessions, Ticker(s) PROVE IInv'
  <2>1. UNCHANGED <<last, scan, work, kind, left, fix, fixWork>>
    BY <1>7 DEF Ticker, Tick, TickWrite, TickQuit, FixTick, FixTickWrite, FixTickQuit,
                scanVars, fixVars
  <2>2. QED
    BY <2>1, ScanTickFrame, FixTickFrame DEF IInv, Clock
<1>8. CASE Crash
  <2>1. last' \in 0..MaxSessions
    BY <1>8 DEF Crash, IInv, Clock
  <2>2. (scan = Scan(FALSE, 0, FALSE, 0, 0) /\ work = Each("none"))'
    BY <1>8 DEF Crash, Scan, Each
  <2>3. QED
    BY <1>8, <2>1, FreshPrime DEF Crash
<1>9. CASE UNCHANGED vars
  BY <1>9, ScanFrame, FixFrame DEF vars, IInv, Clock
<1>10. QED
  BY <1>1, <1>2, <1>3, <1>4, <1>5, <1>6, <1>7, <1>8, <1>9 DEF Next

LEMMA Invariance == Spec => []IInv
<1>1. Init => IInv
  BY IInvInit
<1>2. IInv /\ [Next]_vars => IInv'
  BY IInvStep
<1>3. QED
  BY <1>1, <1>2, PTL DEF Spec

\* For any number of concurrent requests, sessions, archives and books: a scan
\* state says "running" exactly while the goroutine of its own session is at
\* work, so that no two goroutines of a kind ever are, whatever is refused,
\* cancelled, panics, arrives late or restarts.
THEOREM ScanOwnership == Spec => []Owned
<1>1. IInv => Owned
  BY DEF IInv, ScanInv, FixInv, ScanOwned, FixOwned, Owned
<1>2. QED
  BY <1>1, Invariance, PTL

\* An archive scan that ended without failing has gone through every archive it
\* announced, and its progress never exceeds them.
THEOREM ScanCompleteness == Spec => []CompletedIsWhole
<1>1. IInv => CompletedIsWhole
  BY DEF IInv, ScanInv
<1>2. QED
  BY <1>1, Invariance, PTL
=============================================================================
