---------------------------- MODULE ScanSessions ----------------------------
(***************************************************************************)
(* The administrator's background scans: api/book_scan.go (StartScan,      *)
(* ScanSpecificArchive, the scan goroutines, bookScanState) and            *)
(* api/fix_scan.go (StartFixScan, CancelFixScan, runFixScan,               *)
(* fixScanState).                                                          *)
(*                                                                         *)
(* Each of the two global states is a mutex-protected record.  A session   *)
(* is a worker goroutine and a progress goroutine woken by a ticker; the   *)
(* progress goroutine reads the service's counters first and takes the     *)
(* state's mutex afterwards, so it may write after its session has ended.  *)
(* One archive is a number of files, one fix scan a number of books.       *)
(***************************************************************************)
EXTENDS Integers, FiniteSets

CONSTANTS
    Callers,      \* concurrent administrator requests
    MaxSessions,  \* bound on the sessions started
    MaxArchives,  \* bound on the unscanned archives of a full scan
    MaxFiles,     \* bound on the books of an archive
    MaxFixBooks,  \* bound on the books of a fix scan
    Round         \* the step to which a full scan's ticker rounds: 1000

ASSUME ScanAssumption ==
    /\ MaxSessions \in Nat /\ MaxArchives \in Nat \ {0} /\ MaxFiles \in Nat
    /\ MaxFixBooks \in Nat /\ Round \in Nat \ {0}

Sessions == 1..MaxSessions
Kinds    == {"full", "single"}

VARIABLES
    last,     \* sessions started so far: the clock their IDs are taken from
    req,      \* req[c]: the request whose first check c has passed
    scan,     \* scanState
    books,    \* scanState.totalBooks
    work,     \* work[s]: where the goroutine of archive scan s is
    kind,     \* kind[s]: runFullScan or runSingleArchiveScan
    left,     \* left[s]: archives it still has to scan
    count,    \* count[s]: its counters of the archive it scans
    tick,     \* tick[s]: its progress goroutine
    fix,      \* fixState
    shown,    \* fixState's counters
    fixWork,  \* fixWork[s]: where the goroutine of fix scan s is
    fixCount, \* fixCount[s]: its service's counters
    fixTick,  \* fixTick[s]: its progress goroutine
    ended     \* the fix scans whose context has been cancelled

scanVars == <<scan, books, work, kind, left, count, tick>>
fixVars  == <<fix, shown, fixWork, fixCount, fixTick, ended>>
vars     == <<last, req, scanVars, fixVars>>

WorkStages == {"none", "begin", "next", "archive", "apply", "closed", "finish"}
FixStages  == {"none", "query", "run", "failed", "final", "finish", "panicked"}

\* "last": loaded from a tick delivered after progressDone was closed.
TickStages == {"off", "idle", "loaded", "last"}

\* index and size are the service's counters, new the report's BooksProcessed.
Counts    == [index : 0..MaxFiles, size : 0..MaxFiles, new : 0..MaxFiles]
NoCount   == [index |-> 0, size |-> 0, new |-> 0]
FixCounts == [n : 0..MaxFixBooks, p : 0..MaxFixBooks]   \* total, processed
NoFix     == [n |-> 0, p |-> 0]
TickOff   == [at |-> "off", seen |-> 0]
FixOff    == [at |-> "off", seen |-> NoFix]

Scan(run, s, f, t, d) == [running |-> run, sid |-> s, failed |-> f, total |-> t, done |-> d]

TypeOK ==
    /\ last \in 0..MaxSessions
    /\ req \in [Callers -> {"idle", "full", "single", "fix"}]
    /\ scan \in [running : BOOLEAN, sid : 0..MaxSessions, failed : BOOLEAN,
                 total : 0..MaxArchives, done : 0..MaxArchives]
    /\ books \in Nat
    /\ work \in [Sessions -> WorkStages]
    /\ kind \in [Sessions -> Kinds]
    /\ left \in [Sessions -> 0..MaxArchives]
    /\ count \in [Sessions -> Counts]
    /\ tick \in [Sessions -> [at : TickStages, seen : 0..MaxFiles]]
    /\ fix \in [running : BOOLEAN, sid : 0..MaxSessions]
    /\ shown \in FixCounts
    /\ fixWork \in [Sessions -> FixStages]
    /\ fixCount \in [Sessions -> FixCounts]
    /\ fixTick \in [Sessions -> [at : TickStages, seen : FixCounts]]
    /\ ended \in SUBSET Sessions

Each(x) == [s \in Sessions |-> x]

Init ==
    /\ last = 0
    /\ req = [c \in Callers |-> "idle"]
    /\ scan = Scan(FALSE, 0, FALSE, 0, 0)
    /\ books = 0
    /\ work = Each("none")
    /\ kind = Each("full")
    /\ left = Each(0)
    /\ count = Each(NoCount)
    /\ tick = Each(TickOff)
    /\ fix = [running |-> FALSE, sid |-> 0]
    /\ shown = NoFix
    /\ fixWork = Each("none")
    /\ fixCount = Each(NoFix)
    /\ fixTick = Each(FixOff)
    /\ ended = {}

Live(s)    == work[s] # "none"
FixLive(s) == fixWork[s] \notin {"none", "panicked"}

\* progressDone is closed.  (A recovered panic never closes it: an archive
\* scan has at least stopped its ticker by then, a fix scan has not.)
Closed(s)    == work[s] \in {"closed", "finish", "none"}
FixClosed(s) == fixWork[s] \in {"failed", "final", "finish", "none"}

------------------------------------------------------------------------------
(* Requests.  Each handler looks at one state, releases its mutex, and     *)
(* only then calls tryStart on the state it means to start.                *)

\* StartScan looks at fixState, ScanSpecificArchive at scanState (and then
\* for the file), StartFixScan at scanState.
Check(c, k) ==
    /\ req[c] = "idle" /\ last < MaxSessions
    /\ IF k = "full" THEN ~fix.running ELSE ~scan.running
    /\ req' = [req EXCEPT ![c] = k]
    /\ UNCHANGED <<last, scanVars, fixVars>>

\* Mutants: tryStart ignores a running scan; it keeps the last scan's progress.
StartScanUnchecked(c) ==
    /\ req[c] \in Kinds /\ last < MaxSessions
    /\ req' = [req EXCEPT ![c] = "idle"]
    /\ last' = last + 1
    /\ scan' = Scan(TRUE, last + 1, FALSE, 0, 0)
    /\ books' = 0
    /\ work' = [work EXCEPT ![last + 1] = "begin"]
    /\ kind' = [kind EXCEPT ![last + 1] = req[c]]
    /\ UNCHANGED <<left, count, tick, fixVars>>

StartScanKeepsDone(c) ==
    /\ req[c] \in Kinds /\ last < MaxSessions /\ ~scan.running
    /\ req' = [req EXCEPT ![c] = "idle"]
    /\ last' = last + 1
    /\ scan' = Scan(TRUE, last + 1, FALSE, 0, scan.done)
    /\ books' = 0
    /\ work' = [work EXCEPT ![last + 1] = "begin"]
    /\ kind' = [kind EXCEPT ![last + 1] = req[c]]
    /\ UNCHANGED <<left, count, tick, fixVars>>

\* bookScanState.tryStart and "go runFullScan" or "go runSingleArchiveScan".
StartScan(c) ==
    /\ req[c] \in Kinds
    /\ req' = [req EXCEPT ![c] = "idle"]
    /\ IF scan.running
       THEN UNCHANGED <<last, scan, books, work, kind>>
       ELSE /\ last < MaxSessions
            /\ last'  = last + 1
            /\ scan'  = Scan(TRUE, last + 1, FALSE, 0, 0)
            /\ books' = 0
            /\ work'  = [work EXCEPT ![last + 1] = "begin"]
            /\ kind'  = [kind EXCEPT ![last + 1] = req[c]]
    /\ UNCHANGED <<left, count, tick, fixVars>>

\* fixScanState.tryStart and "go runFixScan".
StartFixScan(c) ==
    /\ req[c] = "fix"
    /\ req' = [req EXCEPT ![c] = "idle"]
    /\ IF fix.running
       THEN UNCHANGED <<last, fix, shown, fixWork, fixTick>>
       ELSE /\ last < MaxSessions
            /\ last'  = last + 1
            /\ fix'   = [running |-> TRUE, sid |-> last + 1]
            /\ shown' = NoFix
            /\ fixWork' = [fixWork EXCEPT ![last + 1] = "query"]
            /\ fixTick' = [fixTick EXCEPT ![last + 1] = [at |-> "idle", seen |-> NoFix]]
    /\ UNCHANGED <<scanVars, fixCount, ended>>

\* CancelFixScan: the state keeps the cancel function of its own session.
CancelFixScan ==
    /\ fix.running
    /\ ended' = ended \cup {fix.sid}
    /\ UNCHANGED <<last, req, scanVars, fix, shown, fixWork, fixCount, fixTick>>

------------------------------------------------------------------------------
(* The archive scan goroutine.                                             *)

Goto(s, w) == work' = [work EXCEPT ![s] = w]

\* fail and finish write only while the state is still their session's.
Stop(s, failed) ==
    scan' = IF scan.sid = s THEN Scan(FALSE, s, failed, scan.total, scan.done) ELSE scan

\* The goroutine returns; its service lives on for a late tick.
End(s) ==
    /\ Goto(s, "none")
    /\ left'  = [left EXCEPT ![s] = 0]
    /\ count' = [count EXCEPT ![s] = IF tick[s].at = "off" THEN NoCount ELSE @]

\* Mutant: a full scan that finds nothing to do forgets to finish.
BeginEmptyForgotten(s) ==
    /\ work[s] = "begin" /\ kind[s] = "full"
    /\ End(s)
    /\ UNCHANGED <<last, req, scan, books, kind, tick, fixVars>>

\* GetUnscannedArchives (in a full scan: an error, none, or some),
\* setTotalArchives, and the progress goroutine.
Begin(s) ==
    /\ work[s] = "begin"
    /\ \/ /\ kind[s] = "full"
          /\ Stop(s, TRUE) /\ End(s)
          /\ UNCHANGED tick
       \/ /\ kind[s] = "full"
          /\ Stop(s, FALSE) /\ End(s)
          /\ UNCHANGED tick
       \/ \E n \in 1..MaxArchives :
             /\ kind[s] = "single" => n = 1
             /\ scan' = IF scan.sid = s THEN [scan EXCEPT !.total = n] ELSE scan
             /\ tick' = [tick EXCEPT ![s] = [at |-> "idle", seen |-> 0]]
             /\ Goto(s, "next")
             /\ left' = [left EXCEPT ![s] = n]
             /\ UNCHANGED count
    /\ UNCHANGED <<last, req, books, kind, fixVars>>

\* The loop over the archives, up to ScanArchive's first file; after the last
\* one a full scan closes progressDone.  An archive that cannot be opened has
\* no books and leaves the counters of the one before.
NextArchive(s) ==
    /\ work[s] = "next"
    /\ IF left[s] > 0
       THEN /\ Goto(s, "archive")
            /\ left' = [left EXCEPT ![s] = @ - 1]
            /\ \/ \E f \in 0..MaxFiles :
                     count' = [count EXCEPT ![s] = [index |-> 0, size |-> f, new |-> 0]]
               \/ count' = [count EXCEPT ![s] = [index |-> count[s].size,
                                                 size |-> count[s].size, new |-> 0]]
       ELSE Goto(s, "closed") /\ UNCHANGED <<left, count>>
    /\ UNCHANGED <<last, req, scan, books, kind, tick, fixVars>>

\* ProcessBook adds the book, or skips a duplicate, or fails.
File(s) ==
    /\ work[s] = "archive" /\ count[s].index < count[s].size
    /\ \E added \in 0..1 :
          count' = [count EXCEPT ![s] = [index |-> count[s].index + 1,
                                         size |-> count[s].size,
                                         new |-> count[s].new + added]]
    /\ UNCHANGED <<last, req, scan, books, work, kind, left, tick, fixVars>>

\* ScanArchive returns; a single scan closes progressDone here.
ArchiveEnd(s) ==
    /\ work[s] = "archive" /\ count[s].index = count[s].size
    /\ Goto(s, IF kind[s] = "full" THEN "apply" ELSE "closed")
    /\ UNCHANGED <<last, req, scan, books, kind, left, count, tick, fixVars>>

\* applyArchiveResult.
Apply(s) ==
    /\ \/ work[s] = "apply" /\ Goto(s, "next")
       \/ work[s] = "closed" /\ kind[s] = "single" /\ Goto(s, "finish")
    /\ IF scan.sid = s
       THEN /\ scan'  = [scan EXCEPT !.done = @ + 1]
            /\ books' = books + count[s].new
       ELSE UNCHANGED <<scan, books>>
    /\ UNCHANGED <<last, req, kind, left, count, tick, fixVars>>

Finish(s) ==
    /\ \/ work[s] = "finish"
       \/ work[s] = "closed" /\ kind[s] = "full"
    /\ Stop(s, FALSE)
    /\ End(s)
    /\ UNCHANGED <<last, req, books, kind, tick, fixVars>>

\* A panic in a single scan is recovered; in a full scan it ends the process.
Panic(s) ==
    /\ kind[s] = "single" /\ work[s] \in {"begin", "next", "archive"}
    /\ Stop(s, TRUE)
    /\ End(s)
    /\ UNCHANGED <<last, req, books, kind, tick, fixVars>>

(* Its progress goroutine.                                                  *)

TickEnd(s) ==
    /\ tick'  = [tick EXCEPT ![s] = TickOff]
    /\ count' = [count EXCEPT ![s] = IF Live(s) THEN @ ELSE NoCount]

\* A tick: GetScanProgress, and for a non-empty archive on to the mutex.  One
\* last tick may be waiting when progressDone is closed, and select may
\* prefer it.
Tick(s) ==
    /\ tick[s].at = "idle" /\ count[s].size > 0
    /\ tick' = [tick EXCEPT ![s] = [at |-> IF Closed(s) THEN "last" ELSE "loaded",
                                    seen |-> count[s].index]]
    /\ UNCHANGED <<last, req, scan, books, work, kind, left, count, fixVars>>

\* The write, into whichever session the state now belongs to.
TickWrite(s) ==
    /\ tick[s].at \in {"loaded", "last"}
    /\ books' = tick[s].seen
                  + IF kind[s] = "full" THEN books - (books % Round) ELSE 0
    /\ IF tick[s].at = "last" THEN TickEnd(s)
       ELSE tick' = [tick EXCEPT ![s] = [at |-> "idle", seen |-> 0]] /\ UNCHANGED count
    /\ UNCHANGED <<last, req, scan, work, kind, left, fixVars>>

TickQuit(s) ==
    /\ tick[s].at = "idle" /\ Closed(s)
    /\ TickEnd(s)
    /\ UNCHANGED <<last, req, scan, books, work, kind, left, fixVars>>

------------------------------------------------------------------------------
(* The fix scan goroutine; its worker pool is taken as one worker.         *)

FixGoto(s, w) == fixWork' = [fixWork EXCEPT ![s] = w]

\* finish and fail, then the goroutine returns: its context is dropped, its
\* service lives on for a late tick.
FixEnd(s, w) ==
    /\ fix' = IF fix.sid = s THEN [fix EXCEPT !.running = FALSE] ELSE fix
    /\ FixGoto(s, w)
    /\ fixCount' = [fixCount EXCEPT ![s] = IF fixTick[s].at = "off" THEN NoFix ELSE @]
    /\ ended' = ended \ {s}
    /\ UNCHANGED <<last, req, scanVars, shown, fixTick>>

\* RunFixScan selects the books: an error, none, or some.
FixQuery(s) ==
    /\ fixWork[s] = "query"
    /\ \/ FixGoto(s, "failed") /\ UNCHANGED fixCount
       \/ FixGoto(s, "final") /\ UNCHANGED fixCount
       \/ /\ FixGoto(s, "run")
          /\ \E n \in 1..MaxFixBooks :
                fixCount' = [fixCount EXCEPT ![s] = [n |-> n, p |-> 0]]
    /\ UNCHANGED <<last, req, scanVars, fix, shown, fixTick, ended>>

FixBook(s) ==
    /\ fixWork[s] = "run" /\ fixCount[s].p < fixCount[s].n
    /\ fixCount' = [fixCount EXCEPT ![s] = [n |-> fixCount[s].n, p |-> fixCount[s].p + 1]]
    /\ UNCHANGED <<last, req, scanVars, fix, shown, fixWork, fixTick, ended>>

\* RunFixScan returns and progressDone is closed.  A cancelled scan returns
\* the context's error, unless every archive had been handed out by then.
FixReturn(s) ==
    /\ fixWork[s] = "run"
    /\ \/ fixCount[s].p = fixCount[s].n /\ FixGoto(s, "final")
       \/ s \in ended /\ FixGoto(s, "failed")
       \/ s \in ended /\ FixGoto(s, "final")
    /\ UNCHANGED <<last, req, scanVars, fix, shown, fixCount, fixTick, ended>>

\* The final updateProgress counts every book of the report as processed.
FixFinal(s) ==
    /\ fixWork[s] = "final"
    /\ shown' = [n |-> fixCount[s].n, p |-> fixCount[s].n]
    /\ FixGoto(s, "finish")
    /\ UNCHANGED <<last, req, scanVars, fix, fixCount, fixTick, ended>>

FixFinish(s) == fixWork[s] = "finish" /\ FixEnd(s, "none")

FixFail(s) == fixWork[s] = "failed" /\ FixEnd(s, "none")

\* The recovered panic leaves ticker and progress goroutine running for good.
FixPanic(s) == fixWork[s] = "query" /\ FixEnd(s, "panicked")

FixTickEnd(s) ==
    /\ fixTick'  = [fixTick EXCEPT ![s] = FixOff]
    /\ fixCount' = [fixCount EXCEPT ![s] = IF FixLive(s) THEN @ ELSE NoFix]

FixTick(s) ==
    /\ fixTick[s].at = "idle"
    /\ fixTick' = [fixTick EXCEPT ![s] = [at |-> IF FixClosed(s) THEN "last" ELSE "loaded",
                                          seen |-> fixCount[s]]]
    /\ UNCHANGED <<last, req, scanVars, fix, shown, fixWork, fixCount, ended>>

\* updateProgress does not ask for a session.
FixTickWrite(s) ==
    /\ fixTick[s].at \in {"loaded", "last"}
    /\ shown' = fixTick[s].seen
    /\ IF fixTick[s].at = "last" THEN FixTickEnd(s)
       ELSE /\ fixTick' = [fixTick EXCEPT ![s] = [at |-> "idle", seen |-> NoFix]]
            /\ UNCHANGED fixCount
    /\ UNCHANGED <<last, req, scanVars, fix, fixWork, ended>>

FixTickQuit(s) ==
    /\ fixTick[s].at = "idle" /\ FixClosed(s)
    /\ FixTickEnd(s)
    /\ UNCHANGED <<last, req, scanVars, fix, shown, fixWork, ended>>

------------------------------------------------------------------------------
\* The process dies, by a panic in a full scan or otherwise: everything here
\* is in memory, and the clock goes on.
Crash ==
    /\ req' = [c \in Callers |-> "idle"]
    /\ scan' = Scan(FALSE, 0, FALSE, 0, 0)
    /\ books' = 0
    /\ work' = Each("none")
    /\ kind' = Each("full")
    /\ left' = Each(0)
    /\ count' = Each(NoCount)
    /\ tick' = Each(TickOff)
    /\ fix' = [running |-> FALSE, sid |-> 0]
    /\ shown' = NoFix
    /\ fixWork' = Each("none")
    /\ fixCount' = Each(NoFix)
    /\ fixTick' = Each(FixOff)
    /\ ended' = {}
    /\ UNCHANGED last

Scanner(s) == \/ Begin(s) \/ NextArchive(s) \/ File(s) \/ ArchiveEnd(s)
              \/ Apply(s) \/ Finish(s)
Fixer(s)   == \/ FixQuery(s) \/ FixBook(s) \/ FixReturn(s) \/ FixFail(s)
              \/ FixFinal(s) \/ FixFinish(s)
Ticker(s)  == \/ Tick(s) \/ TickWrite(s) \/ TickQuit(s)
              \/ FixTick(s) \/ FixTickWrite(s) \/ FixTickQuit(s)

Next ==
    \/ \E c \in Callers :
          \/ \E k \in Kinds \cup {"fix"} : Check(c, k)
          \/ StartScan(c) \/ StartFixScan(c)
    \/ CancelFixScan
    \/ \E s \in Sessions : Scanner(s) \/ Panic(s) \/ Fixer(s) \/ FixPanic(s) \/ Ticker(s)
    \/ Crash

Spec == Init /\ [][Next]_vars

\* Goroutines that can run do; ScanArchive and RunFixScan work through a
\* finite list.
FairSpec == Spec /\ \A s \in Sessions : WF_vars(Scanner(s)) /\ WF_vars(Fixer(s))

------------------------------------------------------------------------------
(* Properties.                                                             *)

\* Each state is owned: it says "running" exactly while the goroutine of its
\* own session is at work, and no two goroutines of one kind ever are, however
\* requests, panics, cancellations and late ticks interleave.
Owned ==
    /\ \A s \in Sessions : Live(s) <=> scan.running /\ scan.sid = s
    /\ \A s \in Sessions : FixLive(s) <=> fix.running /\ fix.sid = s

\* An archive scan that ended without failing has gone through every archive
\* it announced (the status shows 100%), and one under way never claims more.
CompletedIsWhole ==
    /\ scan.done <= scan.total
    /\ ~scan.running /\ ~scan.failed => scan.done = scan.total

\* Every scan comes to an end and lets the next one start.
ScansEnd == (scan.running ~> ~scan.running) /\ (fix.running ~> ~fix.running)
=============================================================================
