------------------------------ MODULE Migrate -------------------------------
(***************************************************************************)
(* The migration command (internal/migrate/migrate.go, cmd/migrate): runs  *)
(* that bring a database up to date with the files of a directory, the     *)
(* ledger of what was applied, and the baseline of a database that is      *)
(* older than the ledger.  A file is its number in the order of names.     *)
(*                                                                         *)
(* A file and its ledger row are one transaction, everything else is a     *)
(* statement of its own.  A run may end between any two steps (killed, out *)
(* of time, connection lost) and be started again; nothing keeps two of    *)
(* them apart.                                                             *)
(***************************************************************************)
EXTENDS Integers, FiniteSets

CONSTANTS
    Runners,     \* runs of the command in progress at one time
    Last,        \* the newest file there will be
    Boundary,    \* PreLedgerBoundary
    Repeatable,  \* files that may run again without an error (external: the SQL)
    MaxRuns      \* bound on the runs ever started

ASSUME MigrateAssumption ==
    /\ Last \in Nat /\ Boundary \in 1..Last /\ MaxRuns \in Nat
    /\ Repeatable \subseteq (Boundary + 1)..Last

VARIABLES
    shipped,   \* the newest file in the directory
    held,      \* the files whose changes the database holds
    ledger,    \* the rows of schema_migrations
    table,     \* there is a table schema_migrations
    step,      \* step[r]: where run r is
    listing,   \* listing[r]: the newest file of the directory as r read it
    existed,   \* existed[r]: ledgerExisted
    baseline,  \* baseline[r]: the files r has still to record as held
    waiting,   \* waiting[r]: the files r has still to apply
    result,    \* result[r]: Result, [record, apply]
    runs,      \* number of runs started
    \* What only the properties read:
    plan,      \* plan[r]: what Pending reported before r started
    alone,     \* alone[r]: no other run has been in progress beside r
    severed,   \* a run ended between the creation of the ledger and the end of
               \* the baseline
    crossed,   \* two runs were before the end of their baseline at once
    replayed   \* files that were run on a database that held them unlisted

migrateVars == <<shipped, held, ledger, table, step, listing, existed, baseline, waiting, result,
                 runs, plan, alone, severed, crossed, replayed>>
dbVars   == <<shipped, held, ledger, table>>
runNotes == <<plan, alone, severed, crossed>>

Files(n)  == 1..n
First(S)  == {f \in S : \A g \in S : f <= g}   \* the first of S, if there is one
Nothing   == [record |-> {}, apply |-> {}]
Baselining == {"look", "create", "decide", "record"}

\* PredatesLedger: the first file's table is there.
Established == 1 \in held

\* What the database may be: empty, or filled by hand or by the image's init
\* scripts before the ledger, with what the boundary names and perhaps files
\* after it that may run again.
MigrateInit ==
    /\ shipped \in 1..Last
    /\ held \in {{}} \cup {Files(n) : n \in {k \in Boundary..Last : (Boundary + 1)..k \subseteq Repeatable}}
    /\ ledger = {} /\ table = FALSE
    /\ step = [r \in Runners |-> "idle"]
    /\ listing = [r \in Runners |-> 1]
    /\ existed = [r \in Runners |-> FALSE]
    /\ baseline = [r \in Runners |-> {}] /\ waiting = [r \in Runners |-> {}]
    /\ result = [r \in Runners |-> Nothing]
    /\ runs = 0
    /\ plan = [r \in Runners |-> Nothing] /\ alone = [r \in Runners |-> FALSE]
    /\ severed = FALSE /\ crossed = FALSE /\ replayed = {}

\* upTo: the files a database without a ledger is taken to hold; a directory
\* without the boundary is refused.
UpTo(n)    == Files(Boundary)
Refused(n) == Boundary > n

\* Pending, which the dry run prints, for the database as it is.
PendingAll == IF table THEN [record |-> {}, apply |-> Files(shipped) \ ledger]
              ELSE [record |-> IF Established THEN Files(shipped) ELSE {},
                    apply  |-> IF Established THEN {} ELSE Files(shipped)]
Pending ==
    IF table \/ ~Established THEN [record |-> {}, apply |-> Files(shipped) \ ledger]
    ELSE [record |-> Files(Boundary), apply |-> Files(shipped) \ Files(Boundary)]

To(r, place) == step' = [step EXCEPT ![r] = place]

\* Run r is over.
Stop(r) ==
    /\ To(r, "idle")
    /\ listing' = [listing EXCEPT ![r] = 1] /\ existed' = [existed EXCEPT ![r] = FALSE]
    /\ baseline' = [baseline EXCEPT ![r] = {}] /\ waiting' = [waiting EXCEPT ![r] = {}]
    /\ result' = [result EXCEPT ![r] = Nothing]
    /\ plan' = [plan EXCEPT ![r] = Nothing] /\ alone' = [alone EXCEPT ![r] = FALSE]

------------------------------------------------------------------------------
(* The steps of Run.                                                       *)

\* sqlFiles: the directory is read.
StartRun(r) ==
    LET others == {o \in Runners \ {r} : step[o] # "idle"} IN
    /\ step[r] = "idle" /\ runs < MaxRuns
    /\ runs' = runs + 1
    /\ listing' = [listing EXCEPT ![r] = shipped]
    /\ plan' = [plan EXCEPT ![r] = Pending]
    /\ alone' = [o \in Runners |-> (o = r \/ alone[o]) /\ others = {}]
    /\ crossed' = (crossed \/ \E o \in others : step[o] \in Baselining)
    /\ To(r, "look")
    /\ UNCHANGED <<dbVars, existed, baseline, waiting, result, severed, replayed>>

\* Mutant: the ledger is looked for after it was created.
LookTooLate(r) ==
    /\ step[r] = "look"
    /\ existed' = [existed EXCEPT ![r] = TRUE]
    /\ To(r, "create")
    /\ UNCHANGED <<dbVars, listing, baseline, waiting, result, runs, runNotes, replayed>>

LookForLedger(r) ==
    /\ step[r] = "look"
    /\ existed' = [existed EXCEPT ![r] = table]
    /\ To(r, "create")
    /\ UNCHANGED <<dbVars, listing, baseline, waiting, result, runs, runNotes, replayed>>

\* CREATE TABLE IF NOT EXISTS
CreateLedger(r) ==
    /\ step[r] = "create"
    /\ table' = TRUE
    /\ To(r, IF existed[r] THEN "read" ELSE "decide")
    /\ UNCHANGED <<shipped, held, ledger, listing, existed, baseline, waiting, result, runs, runNotes, replayed>>

\* A database with the schema but without a ledger is baselined.
DecideBaseline(r) ==
    /\ step[r] = "decide"
    /\ IF Established /\ Refused(listing[r])
       THEN Stop(r) /\ severed' = TRUE
       ELSE /\ baseline' = [baseline EXCEPT ![r] = IF Established THEN UpTo(listing[r]) ELSE {}]
            /\ To(r, "record")
            /\ UNCHANGED <<listing, existed, waiting, result, plan, alone, severed>>
    /\ UNCHANGED <<dbVars, runs, crossed, replayed>>

\* One INSERT ... ON CONFLICT DO NOTHING for every file.
RecordHeld(r) ==
    /\ step[r] = "record"
    /\ \E f \in First(baseline[r]) :
         /\ ledger' = ledger \cup {f}
         /\ result' = [result EXCEPT ![r].record = @ \cup {f}]
         /\ baseline' = [baseline EXCEPT ![r] = @ \ {f}]
    /\ UNCHANGED <<shipped, held, table, step, listing, existed, waiting, runs, runNotes, replayed>>

\* alreadyApplied
ReadLedger(r) ==
    /\ step[r] = "read" \/ (step[r] = "record" /\ baseline[r] = {})
    /\ waiting' = [waiting EXCEPT ![r] = Files(listing[r]) \ ledger]
    /\ To(r, "apply")
    /\ UNCHANGED <<dbVars, listing, existed, baseline, result, runs, runNotes, replayed>>

\* apply: the file and its ledger row, or neither.  A file fails on a database
\* that holds it, unless it may run again, and on one without its predecessors;
\* the row fails if another run has inserted it.
ApplyFile(r) ==
    /\ step[r] = "apply"
    /\ \E f \in First(waiting[r]) :
         /\ replayed' = IF f \in held \ (Repeatable \cup ledger) THEN replayed \cup {f}
                        ELSE replayed
         /\ IF f \notin ledger /\ f \notin held \ Repeatable /\ Files(f - 1) \subseteq held
            THEN /\ held' = held \cup {f} /\ ledger' = ledger \cup {f}
                 /\ result' = [result EXCEPT ![r].apply = @ \cup {f}]
                 /\ waiting' = [waiting EXCEPT ![r] = @ \ {f}]
                 /\ UNCHANGED <<step, listing, existed, baseline, plan, alone>>
            ELSE Stop(r) /\ UNCHANGED <<held, ledger>>
    /\ UNCHANGED <<shipped, table, runs, severed, crossed>>

Done(r) ==
    /\ step[r] = "apply" /\ waiting[r] = {}
    /\ Stop(r)
    /\ UNCHANGED <<dbVars, runs, severed, crossed, replayed>>

\* The run ends early: an error, ten minutes, a signal.
RunFails(r) ==
    /\ step[r] # "idle"
    /\ severed' = (severed \/ (step[r] \in {"decide", "record"} /\ Established))
    /\ Stop(r)
    /\ UNCHANGED <<dbVars, runs, crossed, replayed>>

\* A release adds a file to the directory.
Ship ==
    /\ shipped < Last
    /\ shipped' = shipped + 1
    /\ UNCHANGED <<held, ledger, table, step, listing, existed, baseline, waiting, result, runs,
                   runNotes, replayed>>

MigrateNext ==
    \/ Ship
    \/ \E r \in Runners :
          \/ StartRun(r) \/ LookForLedger(r) \/ CreateLedger(r) \/ DecideBaseline(r)
          \/ RecordHeld(r) \/ ReadLedger(r) \/ ApplyFile(r) \/ Done(r) \/ RunFails(r)

MigrateSpec == MigrateInit /\ [][MigrateNext]_migrateVars

------------------------------------------------------------------------------
(* Properties.                                                             *)

\* What the ledger lists the database holds, through crashes, releases and
\* runs side by side, unless two runs were before the end of their baseline at
\* once: then the second takes what the first has begun for an old schema.
RecordedIsHeld == ~crossed => ledger \subseteq held

\* No file the ledger does not list is run on a database that holds it, unless
\* a baseline was cut short: then the ledger is there and the rest of the
\* baseline is never recorded.
NotAgain == ~severed /\ ~crossed => replayed = {}

\* The ledger tells what the database holds, and nothing it holds is run again.
LedgerTells == RecordedIsHeld /\ NotAgain

\* The second without that exception: what migrate.go:51-56 and the README say of
\* a database older than the ledger.
NeverReplays == ~crossed => replayed = {}

\* A run that was alone did exactly what the dry run before it announced, and
\* when it ends without an error the database holds, and the ledger lists,
\* every file the directory had.
PlanTold == [][\A r \in Runners :
    step[r] = "apply" /\ waiting[r] = {} /\ step'[r] = "idle" /\ alone[r] /\ ~crossed =>
        /\ result[r] = plan[r]
        /\ Files(listing[r]) \subseteq ledger \cap held]_migrateVars
=============================================================================
