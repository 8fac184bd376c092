------------------------- MODULE AdministrationProofs -------------------------
(***************************************************************************)
(* Theorems about what an administrator starts: Migrate, FixScan, Curated  *)
(* and Rescan, for any number of actors, requests, books and rows.         *)
(***************************************************************************)
EXTENDS Rescan, Curated, Migrate, FixScan, TLAPS, FiniteSetTheorems, WellFoundedInduction

------------------------------------------------------------------------------
(* Numbers.                                                                *)

\* Minima, by the well-foundedness of < on the natural numbers.
LEMMA Smallest ==
    ASSUME NEW S \in SUBSET Nat, S # {}
    PROVE  \E m \in S : \A n \in S : m <= n
<1> DEFINE R == OpToRel(<, Nat)
<1>1. IsWellFoundedOn(R, Nat)
  BY NatLessThanWellFounded
<1>2. \A n, m \in S : n < m => <<n, m>> \in R
  BY DEF OpToRel
<1>3. \E m \in S : \A n \in S : ~(n < m)
  <2> HIDE DEF R
  <2>1. \E m \in S : \A n \in S : <<n, m>> \notin R
    BY <1>1, WFMin
  <2>2. QED
    BY <2>1, <1>2
<1>4. QED
  <2> HIDE DEF R
  <2>1. QED
    BY <1>3

\* A finite set of numbers has a greatest: take a smallest set that has none.
LEMMA Greatest ==
    ASSUME NEW S \in SUBSET Nat, S # {}, IsFiniteSet(S)
    PROVE  \E m \in S : \A n \in S : n <= m
<1> DEFINE Bad == {T \in SUBSET S : T # {} /\ ~\E m \in T : \A n \in T : n <= m}
           Sizes == {n \in Nat : \E T \in Bad : Cardinality(T) = n}
<1>1. \A T \in SUBSET S : IsFiniteSet(T) /\ Cardinality(T) \in Nat
  BY FS_Subset, FS_CardinalityType
<1>2. SUFFICES ASSUME S \in Bad PROVE FALSE
  OBVIOUS
<1>3. Sizes # {}
  BY <1>1, <1>2
<1>4. PICK s \in Sizes : \A n \in Sizes : s <= n
  <2> HIDE DEF Sizes
  <2>1. Sizes \in SUBSET Nat
    BY DEF Sizes
  <2>2. QED
    BY <1>3, <2>1, Smallest
<1>5. PICK T \in Bad : Cardinality(T) = s
  OBVIOUS
<1>6. PICK x \in T : TRUE
  OBVIOUS
<1>7. T \ {x} \in SUBSET S /\ Cardinality(T \ {x}) < Cardinality(T)
  <2>1. IsFiniteSet(T) /\ Cardinality(T) \in Nat /\ T \in SUBSET S
    BY <1>1
  <2>2. Cardinality(T \ {x}) = Cardinality(T) - 1
    BY <2>1, <1>6, FS_RemoveElement
  <2>3. Cardinality(T \ {x}) < Cardinality(T)
    BY <2>1, <2>2
  <2>4. QED
    BY <2>1, <2>3
<1>8. T \ {x} \notin Bad
  <2>1. Cardinality(T \ {x}) \in Nat /\ Cardinality(T) \in Nat /\ s \in Nat
    BY <1>1, <1>7
  <2>2. T \ {x} \in Bad => Cardinality(T \ {x}) \in Sizes
    <3> HIDE DEF Bad
    <3>1. QED
      BY <2>1
  <2>3. T \ {x} \in Bad => s <= Cardinality(T \ {x})
    <3> HIDE DEF Bad, Sizes
    <3>1. QED
      BY <2>2, <1>4
  <2>4. QED
    <3> HIDE DEF Bad, Sizes
    <3>1. QED
      BY <2>1, <2>3, <1>5, <1>7
<1>9. CASE T \ {x} = {}
  BY <1>5, <1>6, <1>9
<1>10. CASE T \ {x} # {}
  <2>1. PICK m \in T \ {x} : \A n \in T \ {x} : n <= m
    BY <1>7, <1>8, <1>10
  <2>2. \A n \in T : n <= (IF x <= m THEN m ELSE x)
    BY <2>1, <1>5
  <2>3. QED
    BY <2>1, <2>2, <1>5, <1>6
<1>11. QED
  BY <1>9, <1>10

------------------------------------------------------------------------------
(* Migrate: any number of runs and files.                                  *)

RunSteps == {"idle", "look", "create", "decide", "record", "read", "apply"}

MigrateTypes ==
    /\ table \in BOOLEAN
    /\ step \in [Runners -> RunSteps]
    /\ existed \in [Runners -> BOOLEAN]
    /\ baseline \in [Runners -> SUBSET Int]

\* What the database is until the ledger is complete: empty, or filled up to
\* the boundary, with nothing after it that may not run again.
Clean == \/ held = {}
         \/ /\ Files(Boundary) \subseteq held
            /\ held \ Files(Boundary) \subseteq Repeatable

\* Only one run at a time is before the end of its baseline.
OneBaselining == ~crossed =>
    \A r, o \in Runners : step[r] \in Baselining /\ step[o] \in Baselining => r = o

\* Without a ledger nothing has been done yet.
Untouched == ~table =>
    /\ \A r \in Runners : step[r] \in {"idle", "look", "create"} /\ ~existed[r]
    /\ ledger = {} /\ Clean

\* What a run read of the ledger's absence is still true when it creates it.
SeenIsTrue == ~crossed =>
    \A r \in Runners : step[r] = "create" /\ ~existed[r] => ~table

\* A run that baselines has the database for itself, and what it has still to
\* record is there.
Baseliner(r) ==
    /\ \A o \in Runners \ {r} : step[o] = "idle"
    /\ Clean
    /\ step[r] = "record" => /\ baseline[r] \subseteq held
                             /\ held \ Repeatable \subseteq ledger \cup baseline[r]
BaselinesAlone == ~crossed =>
    \A r \in Runners : step[r] \in {"decide", "record"} => Baseliner(r)

\* Afterwards the ledger lists all that may not run again.
LedgerIsFull == ~crossed /\ ~severed /\ table
          /\ (\A r \in Runners : step[r] \notin {"decide", "record"})
          => held \ Repeatable \subseteq ledger

Course == OneBaselining /\ Untouched /\ SeenIsTrue /\ BaselinesAlone /\ LedgerIsFull
MigrateInv   == MigrateTypes /\ Course /\ RecordedIsHeld /\ NotAgain

------------------------------------------------------------------------------
\* A clean database without the first table is empty.
LEMMA CleanAndNew == ASSUME Clean, ~Established PROVE held = {}
<1>1. 1 \in Files(Boundary)
  BY MigrateAssumption DEF Files
<1>2. QED
  BY <1>1 DEF Clean, Established

LEMMA MigrateInitInv == ASSUME MigrateInit PROVE MigrateInv
<1>1. MigrateTypes
  BY DEF MigrateInit, MigrateTypes, RunSteps
<1>2. Clean
  <2>1. PICK h \in {{}} \cup {Files(n) : n \in {k \in Boundary..Last :
                                 (Boundary + 1)..k \subseteq Repeatable}} : held = h
    BY DEF MigrateInit
  <2>2. CASE h = {}
    BY <2>1, <2>2 DEF Clean
  <2>3. CASE h # {}
    <3>1. PICK n \in Boundary..Last : h = 1..n /\ (Boundary + 1)..n \subseteq Repeatable
      BY <2>1, <2>3 DEF Files
    <3>2. Boundary \in Nat /\ Last \in Nat
      BY MigrateAssumption
    <3>3. 1..Boundary \subseteq 1..n /\ (1..n) \ (1..Boundary) \subseteq (Boundary + 1)..n
      BY <3>1, <3>2
    <3>4. QED
      BY <2>1, <3>1, <3>3 DEF Clean, Files
  <2>4. QED
    BY <2>2, <2>3
<1>3. Course
  BY <1>2 DEF MigrateInit, Course, OneBaselining, Untouched, SeenIsTrue, BaselinesAlone,
              LedgerIsFull, Baselining
<1>4. RecordedIsHeld /\ NotAgain
  BY DEF MigrateInit, RecordedIsHeld, NotAgain
<1>5. QED
  BY <1>1, <1>3, <1>4 DEF MigrateInv

\* What a run that stops leaves alone.
LEMMA StopEffect ==
    ASSUME MigrateTypes, NEW r \in Runners, Stop(r), UNCHANGED table
    PROVE  /\ MigrateTypes'
           /\ step'[r] = "idle" /\ ~existed'[r]
           /\ \A o \in Runners \ {r} : step'[o] = step[o]
           /\ \A o \in Runners \ {r} : existed'[o] = existed[o] /\ baseline'[o] = baseline[o]
BY DEF MigrateTypes, Stop, To, RunSteps

\* A run that ends, and nothing else, unless it baselined an older database.
LEMMA StopRunInv ==
    ASSUME MigrateInv, NEW r \in Runners, Stop(r), UNCHANGED <<held, ledger, table, crossed>>,
           replayed' = replayed \/ crossed \/ severed,
           severed => severed',
           step[r] \in {"decide", "record"} /\ Established => severed'
    PROVE  MigrateInv'
<1>1. /\ MigrateTypes'
      /\ step'[r] = "idle" /\ ~existed'[r]
      /\ \A o \in Runners \ {r} : step'[o] = step[o]
      /\ \A o \in Runners \ {r} : existed'[o] = existed[o] /\ baseline'[o] = baseline[o]
  BY StopEffect DEF MigrateInv
<1>2. OneBaselining' /\ SeenIsTrue'
  BY <1>1 DEF MigrateInv, Course, OneBaselining, SeenIsTrue, Baselining
<1>3. Clean' = Clean
  BY DEF Clean
<1>4. Untouched'
  BY <1>1, <1>3 DEF MigrateInv, Course, Untouched
<1>5. BaselinesAlone'
  <2> SUFFICES ASSUME ~crossed, NEW o \in Runners, step'[o] \in {"decide", "record"}
               PROVE  Baseliner(o)'
    BY DEF BaselinesAlone
  <2>1. o # r /\ step'[o] = step[o] /\ baseline'[o] = baseline[o]
    BY <1>1
  <2>2. Baseliner(o)
    BY <2>1 DEF MigrateInv, Course, BaselinesAlone
  <2>3. QED
    BY <1>1, <1>3, <2>1, <2>2 DEF Baseliner
<1>6. LedgerIsFull'
  <2> SUFFICES ASSUME ~crossed, ~severed', table,
                      \A o \in Runners : step'[o] \notin {"decide", "record"}
               PROVE  held \ Repeatable \subseteq ledger
    BY DEF LedgerIsFull
  <2>1. CASE step[r] \in {"decide", "record"}
    <3>1. held = {}
      BY <2>1, CleanAndNew DEF MigrateInv, Course, BaselinesAlone, Baseliner
    <3>2. QED
      BY <3>1
  <2>2. CASE step[r] \notin {"decide", "record"}
    BY <1>1, <2>2 DEF MigrateInv, Course, LedgerIsFull
  <2>3. QED
    BY <2>1, <2>2
<1>7. (RecordedIsHeld /\ NotAgain)'
  BY DEF MigrateInv, RecordedIsHeld, NotAgain
<1>8. QED
  BY <1>1, <1>2, <1>4, <1>5, <1>6, <1>7 DEF MigrateInv, Course

------------------------------------------------------------------------------
(* The steps.                                                              *)

LEMMA ShipInv == ASSUME MigrateInv, Ship PROVE MigrateInv'
<1>1. /\ UNCHANGED <<held, ledger, table, step, existed, baseline, severed, crossed, replayed>>
  BY DEF Ship, runNotes
<1>2. MigrateTypes' /\ (RecordedIsHeld /\ NotAgain)' /\ Clean' = Clean
  BY <1>1 DEF MigrateInv, MigrateTypes, RecordedIsHeld, NotAgain, Clean
<1>3. OneBaselining' /\ Untouched' /\ SeenIsTrue' /\ LedgerIsFull'
  BY <1>1, <1>2 DEF MigrateInv, Course, OneBaselining, Untouched, SeenIsTrue, LedgerIsFull
<1>4. BaselinesAlone'
  BY <1>1, <1>2 DEF MigrateInv, Course, BaselinesAlone, Baseliner
<1>5. QED
  BY <1>2, <1>3, <1>4 DEF MigrateInv, Course

LEMMA StartRunInv == ASSUME MigrateInv, NEW r \in Runners, StartRun(r) PROVE MigrateInv'
<1>1. /\ step[r] = "idle" /\ step' = [step EXCEPT ![r] = "look"]
      /\ UNCHANGED <<held, ledger, table, existed, baseline, severed, replayed>>
      /\ crossed' = (crossed \/ \E o \in Runners \ {r} : step[o] # "idle" /\ step[o] \in Baselining)
  BY DEF StartRun, To, dbVars
<1>2. /\ step'[r] = "look" /\ \A o \in Runners \ {r} : step'[o] = step[o]
      /\ crossed => crossed'
      /\ ~crossed' => \A o \in Runners \ {r} : step[o] \notin Baselining
  BY <1>1 DEF MigrateInv, MigrateTypes, Baselining
<1>3. MigrateTypes'
  BY <1>1 DEF MigrateInv, MigrateTypes, RunSteps
<1>4. Clean' = Clean
  BY <1>1 DEF Clean
<1>5. OneBaselining'
  BY <1>2 DEF OneBaselining
<1>6. Untouched' /\ SeenIsTrue'
  BY <1>1, <1>2, <1>4 DEF MigrateInv, Course, Untouched, SeenIsTrue
<1>7. BaselinesAlone'
  BY <1>2 DEF BaselinesAlone, Baselining
<1>8. LedgerIsFull'
  BY <1>1, <1>2 DEF MigrateInv, Course, LedgerIsFull
<1>9. (RecordedIsHeld /\ NotAgain)'
  BY <1>1, <1>2 DEF MigrateInv, RecordedIsHeld, NotAgain
<1>10. QED
  BY <1>3, <1>5, <1>6, <1>7, <1>8, <1>9 DEF MigrateInv, Course

LEMMA LookInv == ASSUME MigrateInv, NEW r \in Runners, LookForLedger(r) PROVE MigrateInv'
<1>1. /\ step[r] = "look" /\ step' = [step EXCEPT ![r] = "create"]
      /\ existed' = [existed EXCEPT ![r] = table]
      /\ UNCHANGED <<held, ledger, table, baseline, severed, crossed, replayed>>
  BY DEF LookForLedger, To, dbVars, runNotes
<1>2. /\ step'[r] = "create" /\ \A o \in Runners \ {r} : step'[o] = step[o]
      /\ existed'[r] = table /\ \A o \in Runners \ {r} : existed'[o] = existed[o]
  BY <1>1 DEF MigrateInv, MigrateTypes
<1>3. MigrateTypes'
  BY <1>1 DEF MigrateInv, MigrateTypes, RunSteps
<1>4. Clean' = Clean
  BY <1>1 DEF Clean
<1>5. OneBaselining'
  BY <1>1, <1>2 DEF MigrateInv, Course, OneBaselining, Baselining
<1>6. Untouched' /\ SeenIsTrue'
  <2>1. ASSUME ~table, NEW o \in Runners
        PROVE  step'[o] \in {"idle", "look", "create"} /\ ~existed'[o]
    <3>1. step[o] \in {"idle", "look", "create"} /\ ~existed[o]
      BY <2>1 DEF MigrateInv, Course, Untouched
    <3>2. QED
      BY <1>2, <2>1, <3>1
  <2>2. Untouched'
    BY <1>1, <1>4, <2>1 DEF MigrateInv, Course, Untouched
  <2>3. ASSUME ~crossed, NEW o \in Runners, step'[o] = "create", ~existed'[o]
        PROVE  ~table
    <3>1. CASE o = r
      BY <1>2, <2>3, <3>1
    <3>2. CASE o # r
      BY <1>2, <2>3, <3>2 DEF MigrateInv, Course, SeenIsTrue
    <3>3. QED
      BY <3>1, <3>2
  <2>4. SeenIsTrue'
    BY <1>1, <2>3 DEF SeenIsTrue
  <2>5. QED
    BY <2>2, <2>4
<1>7. BaselinesAlone'
  <2> SUFFICES ASSUME ~crossed, NEW o \in Runners, step'[o] \in {"decide", "record"}
               PROVE  FALSE
    BY <1>1 DEF BaselinesAlone
  <2>1. o # r /\ step[o] \in {"decide", "record"}
    BY <1>2
  <2>2. QED
    BY <1>1, <2>1 DEF MigrateInv, Course, BaselinesAlone, Baseliner
<1>8. LedgerIsFull'
  BY <1>1, <1>2 DEF MigrateInv, Course, LedgerIsFull
<1>9. (RecordedIsHeld /\ NotAgain)'
  BY <1>1, <1>2 DEF MigrateInv, RecordedIsHeld, NotAgain
<1>10. QED
  BY <1>3, <1>5, <1>6, <1>7, <1>8, <1>9 DEF MigrateInv, Course

LEMMA CreateInv == ASSUME MigrateInv, NEW r \in Runners, CreateLedger(r) PROVE MigrateInv'
<1>1. /\ step[r] = "create" /\ table' = TRUE
      /\ step' = [step EXCEPT ![r] = IF existed[r] THEN "read" ELSE "decide"]
      /\ UNCHANGED <<held, ledger, existed, baseline, severed, crossed, replayed>>
  BY DEF CreateLedger, To, runNotes
<1>2. /\ step'[r] = IF existed[r] THEN "read" ELSE "decide"
      /\ \A o \in Runners \ {r} : step'[o] = step[o]
  BY <1>1 DEF MigrateInv, MigrateTypes
<1>3. MigrateTypes'
  BY <1>1 DEF MigrateInv, MigrateTypes, RunSteps
<1>4. Clean' = Clean
  BY <1>1 DEF Clean
<1>5. OneBaselining'
  BY <1>1, <1>2 DEF MigrateInv, Course, OneBaselining, Baselining
<1>6. Untouched' /\ SeenIsTrue'
  <2>1. ASSUME ~crossed, NEW o \in Runners, step'[o] = "create" PROVE existed[o]
    BY <1>1, <1>2, <2>1 DEF MigrateInv, Course, OneBaselining, Baselining
  <2>2. QED
    BY <1>1, <2>1 DEF Untouched, SeenIsTrue
<1>7. ASSUME ~crossed, ~existed[r]
      PROVE  /\ \A o \in Runners \ {r} : step[o] = "idle"
             /\ Clean /\ ledger = {}
  BY <1>1, <1>7 DEF MigrateInv, Course, OneBaselining, Untouched, SeenIsTrue, Baselining
<1>8. BaselinesAlone'
  <2> SUFFICES ASSUME ~crossed, NEW o \in Runners, step'[o] \in {"decide", "record"}
               PROVE  Baseliner(o)'
    BY <1>1 DEF BaselinesAlone
  <2>1. CASE o = r
    BY <1>2, <1>4, <1>7, <2>1 DEF Baseliner
  <2>2. CASE o # r
    BY <1>1, <1>2, <2>2 DEF MigrateInv, Course, OneBaselining, Baselining
  <2>3. QED
    BY <2>1, <2>2
<1>9. LedgerIsFull'
  <2> SUFFICES ASSUME ~crossed, ~severed,
                      \A o \in Runners : step'[o] \notin {"decide", "record"}
               PROVE  held \ Repeatable \subseteq ledger
    BY <1>1 DEF LedgerIsFull
  <2>1. existed[r] /\ \A o \in Runners : step[o] \notin {"decide", "record"}
    BY <1>1, <1>2
  <2>2. CASE table
    BY <2>1, <2>2 DEF MigrateInv, Course, LedgerIsFull
  <2>3. CASE ~table
    BY <2>1, <2>3 DEF MigrateInv, Course, Untouched
  <2>4. QED
    BY <2>2, <2>3
<1>10. (RecordedIsHeld /\ NotAgain)'
  BY <1>1 DEF MigrateInv, RecordedIsHeld, NotAgain
<1>11. QED
  BY <1>3, <1>5, <1>6, <1>8, <1>9, <1>10 DEF MigrateInv, Course

LEMMA DecideInv == ASSUME MigrateInv, NEW r \in Runners, DecideBaseline(r) PROVE MigrateInv'
<1>1. CASE Established /\ Refused(listing[r])
  <2>1. Stop(r) /\ severed' /\ UNCHANGED <<held, ledger, table, crossed, replayed>>
    BY <1>1 DEF DecideBaseline, dbVars
  <2>2. QED
    BY <2>1, StopRunInv
<1>2. CASE ~(Established /\ Refused(listing[r]))
  <2>1. /\ step[r] = "decide" /\ step' = [step EXCEPT ![r] = "record"]
        /\ baseline' = [baseline EXCEPT ![r] = IF Established THEN Files(Boundary) ELSE {}]
        /\ UNCHANGED <<held, ledger, table, existed, severed, crossed, replayed>>
    BY <1>2 DEF DecideBaseline, UpTo, To, dbVars
  <2>2. /\ step'[r] = "record" /\ \A o \in Runners \ {r} : step'[o] = step[o]
        /\ baseline'[r] = IF Established THEN Files(Boundary) ELSE {}
    BY <2>1 DEF MigrateInv, MigrateTypes
  <2>3. Files(Boundary) \in SUBSET Int
    BY MigrateAssumption DEF Files
  <2>4. MigrateTypes'
    BY <2>1, <2>3 DEF MigrateInv, MigrateTypes, RunSteps
  <2>5. OneBaselining' /\ Untouched' /\ SeenIsTrue'
    BY <2>1, <2>2 DEF MigrateInv, Course, OneBaselining, Untouched, SeenIsTrue, Baselining
  <2>6. BaselinesAlone'
    <3> SUFFICES ASSUME ~crossed, NEW o \in Runners, step'[o] \in {"decide", "record"}
                 PROVE  Baseliner(o)'
      BY <2>1 DEF BaselinesAlone
    <3>1. Clean /\ \A p \in Runners \ {r} : step[p] = "idle"
      BY <2>1 DEF MigrateInv, Course, BaselinesAlone, Baseliner
    <3>2. o = r
      BY <2>2, <3>1
    <3>3. baseline'[r] \subseteq held /\ held \ Repeatable \subseteq baseline'[r]
      <4>1. CASE Established
        BY <2>2, <3>1, <4>1 DEF Clean, Established
      <4>2. CASE ~Established
        BY <2>2, <3>1, <4>2, CleanAndNew
      <4>3. QED
        BY <4>1, <4>2
    <3>4. Clean'
      BY <2>1, <3>1 DEF Clean
    <3>5. QED
      BY <2>1, <2>2, <3>1, <3>2, <3>3, <3>4 DEF Baseliner
  <2>7. LedgerIsFull'
    BY <2>2 DEF LedgerIsFull
  <2>8. (RecordedIsHeld /\ NotAgain)'
    BY <2>1 DEF MigrateInv, RecordedIsHeld, NotAgain
  <2>9. QED
    BY <2>4, <2>5, <2>6, <2>7, <2>8 DEF MigrateInv, Course
<1>3. QED
  BY <1>1, <1>2

LEMMA RecordInv == ASSUME MigrateInv, NEW r \in Runners, RecordHeld(r) PROVE MigrateInv'
<1>1. PICK f \in baseline[r] :
        /\ step[r] = "record" /\ ledger' = ledger \cup {f}
        /\ baseline' = [baseline EXCEPT ![r] = baseline[r] \ {f}]
        /\ UNCHANGED <<held, table, step, existed, severed, crossed, replayed>>
  BY DEF RecordHeld, First, runNotes
<1>2. baseline'[r] = baseline[r] \ {f} /\ MigrateTypes' /\ Clean' = Clean
  BY <1>1 DEF MigrateInv, MigrateTypes, Clean
<1>3. OneBaselining' /\ Untouched' /\ SeenIsTrue'
  BY <1>1 DEF MigrateInv, Course, OneBaselining, Untouched, SeenIsTrue
<1>4. ~crossed => Baseliner(r)
  BY <1>1 DEF MigrateInv, Course, BaselinesAlone
<1>5. BaselinesAlone'
  <2> SUFFICES ASSUME ~crossed, NEW o \in Runners, step[o] \in {"decide", "record"}
               PROVE  Baseliner(o)'
    BY <1>1 DEF BaselinesAlone
  <2>1. o = r
    BY <1>4 DEF Baseliner
  <2>2. QED
    BY <1>1, <1>2, <1>4, <2>1 DEF Baseliner
<1>6. LedgerIsFull'
  BY <1>1 DEF LedgerIsFull
<1>7. (RecordedIsHeld /\ NotAgain)'
  BY <1>1, <1>4 DEF MigrateInv, RecordedIsHeld, NotAgain, Baseliner
<1>8. QED
  BY <1>2, <1>3, <1>5, <1>6, <1>7 DEF MigrateInv, Course

LEMMA ReadInv == ASSUME MigrateInv, NEW r \in Runners, ReadLedger(r) PROVE MigrateInv'
<1>1. /\ step[r] = "read" \/ (step[r] = "record" /\ baseline[r] = {})
      /\ step' = [step EXCEPT ![r] = "apply"]
      /\ UNCHANGED <<held, ledger, table, existed, baseline, severed, crossed, replayed>>
  BY DEF ReadLedger, To, dbVars, runNotes
<1>2. step'[r] = "apply" /\ \A o \in Runners \ {r} : step'[o] = step[o]
  BY <1>1 DEF MigrateInv, MigrateTypes
<1>3. MigrateTypes' /\ Clean' = Clean
  BY <1>1 DEF MigrateInv, MigrateTypes, RunSteps, Clean
<1>4. OneBaselining' /\ Untouched' /\ SeenIsTrue'
  BY <1>1, <1>2 DEF MigrateInv, Course, OneBaselining, Untouched, SeenIsTrue, Baselining
<1>5. BaselinesAlone'
  <2> SUFFICES ASSUME ~crossed, NEW o \in Runners, step'[o] \in {"decide", "record"}
               PROVE  FALSE
    BY <1>1 DEF BaselinesAlone
  <2>1. o # r /\ step[o] \in {"decide", "record"}
    BY <1>2
  <2>2. QED
    BY <1>1, <2>1 DEF MigrateInv, Course, BaselinesAlone, Baseliner
<1>6. LedgerIsFull'
  <2> SUFFICES ASSUME ~crossed, ~severed, table,
                      \A o \in Runners : step'[o] \notin {"decide", "record"}
               PROVE  held \ Repeatable \subseteq ledger
    BY <1>1 DEF LedgerIsFull
  <2>1. CASE step[r] = "read"
    BY <1>2, <2>1 DEF MigrateInv, Course, LedgerIsFull
  <2>2. CASE step[r] = "record" /\ baseline[r] = {}
    BY <2>2 DEF MigrateInv, Course, BaselinesAlone, Baseliner
  <2>3. QED
    BY <1>1, <2>1, <2>2
<1>7. (RecordedIsHeld /\ NotAgain)'
  BY <1>1 DEF MigrateInv, RecordedIsHeld, NotAgain
<1>8. QED
  BY <1>3, <1>4, <1>5, <1>6, <1>7 DEF MigrateInv, Course

LEMMA ApplyInv == ASSUME MigrateInv, NEW r \in Runners, ApplyFile(r) PROVE MigrateInv'
<1>1. PICK f \in First(waiting[r]) :
        /\ step[r] = "apply"
        /\ replayed' = IF f \in held \ (Repeatable \cup ledger) THEN replayed \cup {f} ELSE replayed
        /\ \/ /\ held' = held \cup {f} /\ ledger' = ledger \cup {f}
              /\ UNCHANGED <<step, existed, baseline>>
           \/ Stop(r) /\ UNCHANGED <<held, ledger>>
        /\ UNCHANGED <<table, severed, crossed>>
  BY DEF ApplyFile
<1>2. table
  BY <1>1 DEF MigrateInv, Course, Untouched
<1>3. ~crossed => \A o \in Runners : step[o] \notin {"decide", "record"}
  <2> SUFFICES ASSUME ~crossed, NEW o \in Runners, step[o] \in {"decide", "record"}
               PROVE  FALSE
    OBVIOUS
  <2>1. o # r
    BY <1>1
  <2>2. QED
    BY <1>1, <2>1 DEF MigrateInv, Course, BaselinesAlone, Baseliner
<1>4. replayed' = replayed \/ crossed \/ severed
  BY <1>1, <1>2, <1>3 DEF MigrateInv, Course, LedgerIsFull
<1>5. CASE Stop(r) /\ UNCHANGED <<held, ledger>>
  BY <1>1, <1>4, <1>5, StopRunInv
<1>6. CASE /\ held' = held \cup {f} /\ ledger' = ledger \cup {f}
           /\ UNCHANGED <<step, existed, baseline>>
  <2>1. MigrateTypes' /\ OneBaselining' /\ Untouched' /\ SeenIsTrue'
    BY <1>1, <1>2, <1>6 DEF MigrateInv, MigrateTypes, Course, OneBaselining, Untouched, SeenIsTrue
  <2>2. BaselinesAlone'
    BY <1>1, <1>3, <1>6 DEF BaselinesAlone
  <2>3. LedgerIsFull'
    BY <1>1, <1>2, <1>6 DEF MigrateInv, Course, LedgerIsFull
  <2>4. (RecordedIsHeld /\ NotAgain)'
    BY <1>1, <1>4, <1>6 DEF MigrateInv, RecordedIsHeld, NotAgain
  <2>5. QED
    BY <2>1, <2>2, <2>3, <2>4 DEF MigrateInv, Course
<1>7. QED
  BY <1>1, <1>5, <1>6

LEMMA EndRunInv == ASSUME MigrateInv, NEW r \in Runners, Done(r) \/ RunFails(r) PROVE MigrateInv'
<1>1. CASE Done(r)
  <2>1. Stop(r) /\ UNCHANGED <<held, ledger, table, crossed, replayed, severed>>
    BY <1>1 DEF Done, dbVars
  <2>2. step[r] \notin {"decide", "record"}
    BY <1>1 DEF Done
  <2>3. QED
    BY <2>1, <2>2, StopRunInv
<1>2. CASE RunFails(r)
  <2>1. Stop(r) /\ UNCHANGED <<held, ledger, table, crossed, replayed>>
    BY <1>2 DEF RunFails, dbVars
  <2>2. severed' = (severed \/ (step[r] \in {"decide", "record"} /\ Established))
    BY <1>2 DEF RunFails
  <2>3. QED
    BY <2>1, <2>2, StopRunInv, Zenon
<1>3. QED
  BY <1>1, <1>2

LEMMA MigrateStutterInv == ASSUME MigrateInv, UNCHANGED migrateVars PROVE MigrateInv'
BY DEF MigrateInv, migrateVars, MigrateTypes, Course, OneBaselining, Untouched, SeenIsTrue,
       BaselinesAlone, Baseliner, LedgerIsFull, Clean, RecordedIsHeld, NotAgain

------------------------------------------------------------------------------
\* RecordedIsHeld and NotAgain for any number of runs, side by side and one
\* after another, over any number of files (internal/migrate/migrate.go).
THEOREM LedgerSafety == MigrateSpec => []LedgerTells
<1>1. MigrateInit => MigrateInv
  BY MigrateInitInv
<1>2. MigrateInv /\ [MigrateNext]_migrateVars => MigrateInv'
  BY ShipInv, StartRunInv, LookInv, CreateInv, DecideInv, RecordInv, ReadInv, ApplyInv, EndRunInv,
     MigrateStutterInv DEF MigrateNext
<1>3. MigrateInv => LedgerTells
  BY DEF MigrateInv, LedgerTells
<1>4. QED
  BY <1>1, <1>2, <1>3, PTL DEF MigrateSpec

------------------------------------------------------------------------------
(* Migrate: what a run announces and what it does.                         *)

Outcomes == [record : SUBSET Int, apply : SUBSET Int]

PlanTypes ==
    /\ shipped \in Nat /\ listing \in [Runners -> Nat]
    /\ waiting \in [Runners -> SUBSET Int]
    /\ result \in [Runners -> Outcomes] /\ plan \in [Runners -> Outcomes]
    /\ alone \in [Runners -> BOOLEAN]

\* What Pending announces for the files up to n.
Announced(n) ==
    IF table \/ ~Established THEN [record |-> {}, apply |-> Files(n) \ ledger]
    ELSE [record |-> Files(Boundary), apply |-> Files(n) \ Files(Boundary)]

\* What is left of run r to do, in each of its steps: all that was announced;
\* of a baseline, what is done and what is left of it; the ledger's complement
\* in the directory; and of the files, what is done and what waits.
Faithful(r) ==
    /\ step[r] # "idle"
    /\ \A o \in Runners \ {r} : step[o] = "idle"
    /\ step[r] \in {"look", "create"} => plan[r] = Announced(listing[r])
    /\ step[r] = "create" => existed[r] = table
    /\ step[r] \in {"look", "create", "decide", "read"} => result[r] = Nothing
    /\ step[r] = "decide" =>
          /\ ledger = {}
          /\ plan[r].record = IF Established THEN Files(Boundary) ELSE {}
          /\ plan[r].apply = Files(listing[r]) \ plan[r].record
    /\ step[r] = "record" =>
          /\ ledger = result[r].record /\ result[r].apply = {}
          /\ plan[r].record = result[r].record \cup baseline[r]
          /\ plan[r].apply = Files(listing[r]) \ plan[r].record
    /\ step[r] = "read" =>
          /\ plan[r].record = {} /\ plan[r].apply = Files(listing[r]) \ ledger
    /\ step[r] = "apply" =>
          /\ waiting[r] = Files(listing[r]) \ ledger
          /\ plan[r].record = result[r].record
          /\ plan[r].apply = result[r].apply \cup waiting[r]

IdleHasNone == \A r \in Runners : step[r] = "idle" => result[r] = Nothing
PlanInv     == PlanTypes /\ IdleHasNone /\ \A r \in Runners : alone[r] => Faithful(r)

LEMMA FilesAreNumbers == \A n \in Nat : Files(n) \in SUBSET Int
BY DEF Files

LEMMA PlanInit == ASSUME MigrateInit PROVE PlanInv
<1>1. Nothing \in Outcomes
  BY DEF Nothing, Outcomes
<1>2. shipped \in Nat
  BY MigrateAssumption DEF MigrateInit
<1>3. PlanTypes
  BY <1>1, <1>2 DEF MigrateInit, PlanTypes
<1>4. QED
  BY <1>3 DEF MigrateInit, PlanInv, IdleHasNone

\* A step of a run within it: if any run is alone it is this one.
LEMMA OwnStep ==
    ASSUME PlanInv, NEW r \in Runners, step[r] # "idle", step'[r] # "idle",
           \A o \in Runners \ {r} : step'[o] = step[o] /\ result'[o] = result[o],
           UNCHANGED alone, PlanTypes',
           alone[r] => Faithful(r)'
    PROVE  PlanInv'
<1>1. IdleHasNone'
  <2>1. ASSUME NEW o \in Runners, step'[o] = "idle" PROVE result'[o] = Nothing
    BY <2>1 DEF PlanInv, IdleHasNone
  <2>2. QED
    BY <2>1 DEF IdleHasNone, Nothing
<1>2. ASSUME NEW o \in Runners, alone'[o] PROVE Faithful(o)'
  <2>1. Faithful(o)
    BY <1>2 DEF PlanInv
  <2>2. o = r
    BY <2>1 DEF Faithful
  <2>3. QED
    BY <1>2, <2>2
<1>3. QED
  BY <1>1, <1>2 DEF PlanInv

\* The end of a run: no other was alone.
LEMMA EndStep ==
    ASSUME MigrateTypes, PlanInv, NEW r \in Runners, step[r] # "idle", Stop(r), UNCHANGED shipped
    PROVE  PlanInv'
<1>1. 1 \in Nat /\ Nothing \in Outcomes
  BY DEF Nothing, Outcomes
<1>2. PlanTypes'
  BY <1>1 DEF PlanInv, PlanTypes, Stop
<1>3. IdleHasNone'
  <2>1. ASSUME NEW o \in Runners, step'[o] = "idle" PROVE result'[o] = Nothing
    <3>1. CASE o = r
      BY <3>1 DEF Stop, PlanInv, PlanTypes
    <3>2. CASE o # r
      BY <2>1, <3>2 DEF Stop, To, PlanInv, PlanTypes, MigrateTypes, IdleHasNone
    <3>3. QED
      BY <3>1, <3>2
  <2>2. QED
    BY <2>1 DEF IdleHasNone, Nothing
<1>4. ASSUME NEW o \in Runners, alone'[o] PROVE FALSE
  <2>1. o # r /\ alone[o]
    BY <1>4 DEF Stop, PlanInv, PlanTypes
  <2>2. QED
    BY <2>1 DEF PlanInv, Faithful
<1>5. QED
  BY <1>2, <1>3, <1>4 DEF PlanInv

------------------------------------------------------------------------------
LEMMA ShipPlan == ASSUME PlanInv, Ship PROVE PlanInv'
<1>1. UNCHANGED <<held, ledger, table, step, listing, existed, baseline, waiting, result, plan, alone>>
  BY DEF Ship, runNotes
<1>2. PlanTypes'
  BY <1>1 DEF Ship, PlanInv, PlanTypes
<1>3. \A r \in Runners : Faithful(r)' = Faithful(r)
  BY <1>1 DEF Faithful, Announced, Established, Nothing
<1>4. IdleHasNone'
  BY <1>1 DEF PlanInv, IdleHasNone, Nothing
<1>5. QED
  BY <1>1, <1>2, <1>3, <1>4 DEF PlanInv

LEMMA StartRunPlan == ASSUME MigrateInv, PlanInv, NEW r \in Runners, StartRun(r) PROVE PlanInv'
<1> DEFINE others == {o \in Runners \ {r} : step[o] # "idle"}
<1>1. /\ step[r] = "idle" /\ step' = [step EXCEPT ![r] = "look"]
      /\ UNCHANGED <<shipped, held, ledger, table, existed, baseline, waiting, result>>
      /\ listing' = [listing EXCEPT ![r] = shipped]
      /\ plan' = [plan EXCEPT ![r] = Pending]
      /\ alone' = [o \in Runners |-> (o = r \/ alone[o]) /\ others = {}]
  BY DEF StartRun, To, dbVars
<1>2. Pending = Announced(shipped)
  BY DEF Pending, Announced
<1>3. Pending \in Outcomes
  <2>1. Files(shipped) \in SUBSET Int /\ Files(Boundary) \in SUBSET Int
    BY FilesAreNumbers, MigrateAssumption DEF PlanInv, PlanTypes
  <2>2. QED
    BY <2>1 DEF Pending, Outcomes
<1>4. PlanTypes'
  BY <1>1, <1>3 DEF PlanInv, PlanTypes
<1>5. step'[r] = "look" /\ \A o \in Runners \ {r} : step'[o] = step[o]
  BY <1>1 DEF MigrateInv, MigrateTypes
<1>6. IdleHasNone'
  <2>1. ASSUME NEW o \in Runners, step'[o] = "idle" PROVE result'[o] = Nothing
    BY <1>1, <1>5, <2>1 DEF PlanInv, IdleHasNone
  <2>2. QED
    BY <2>1 DEF IdleHasNone, Nothing
<1>7. ASSUME NEW o \in Runners, alone'[o] PROVE Faithful(o)'
  <2>1. (o = r \/ alone[o]) /\ others = {}
    BY <1>1, <1>7
  <2>2. o = r
    <3>1. alone[o] => step[o] # "idle"
      BY DEF PlanInv, Faithful
    <3>2. QED
      BY <2>1, <3>1
  <2>3. \A p \in Runners \ {r} : step'[p] = "idle"
    BY <2>1, <1>5
  <2>4. listing'[r] = shipped /\ plan'[r] = Announced(shipped) /\ result'[r] = Nothing
    BY <1>1, <1>2 DEF PlanInv, PlanTypes, IdleHasNone
  <2>5. Announced(listing[r])' = Announced(shipped)
    BY <1>1, <2>4 DEF Announced, Established
  <2>6. QED
    BY <1>5, <2>2, <2>3, <2>4, <2>5 DEF Faithful, Nothing
<1>8. QED
  BY <1>4, <1>6, <1>7 DEF PlanInv

LEMMA LookPlan == ASSUME MigrateInv, PlanInv, NEW r \in Runners, LookForLedger(r) PROVE PlanInv'
<1>1. /\ step[r] = "look" /\ step' = [step EXCEPT ![r] = "create"]
      /\ existed' = [existed EXCEPT ![r] = table]
      /\ UNCHANGED <<shipped, held, ledger, table, listing, baseline, waiting, result, plan, alone>>
  BY DEF LookForLedger, To, dbVars, runNotes
<1>2. step'[r] = "create" /\ \A o \in Runners \ {r} : step'[o] = step[o]
  BY <1>1 DEF MigrateInv, MigrateTypes
<1>3. existed'[r] = table /\ Announced(listing[r])' = Announced(listing[r])
  BY <1>1 DEF MigrateInv, MigrateTypes, Announced, Established
<1>4. PlanTypes'
  BY <1>1 DEF PlanInv, PlanTypes
<1>5. ASSUME alone[r] PROVE Faithful(r)'
  <2>1. Faithful(r)
    BY <1>5 DEF PlanInv
  <2>2. QED
    BY <1>1, <1>2, <1>3, <2>1 DEF Faithful, Nothing
<1>6. QED
  BY <1>1, <1>2, <1>4, <1>5, OwnStep

LEMMA CreatePlan == ASSUME MigrateInv, PlanInv, NEW r \in Runners, CreateLedger(r) PROVE PlanInv'
<1>1. /\ step[r] = "create" /\ table' = TRUE
      /\ step' = [step EXCEPT ![r] = IF existed[r] THEN "read" ELSE "decide"]
      /\ UNCHANGED <<shipped, held, ledger, listing, existed, baseline, waiting, result, plan, alone>>
  BY DEF CreateLedger, To, runNotes
<1>2. /\ step'[r] = IF existed[r] THEN "read" ELSE "decide"
      /\ \A o \in Runners \ {r} : step'[o] = step[o]
  BY <1>1 DEF MigrateInv, MigrateTypes
<1>3. PlanTypes'
  BY <1>1 DEF PlanInv, PlanTypes
<1>4. ASSUME alone[r] PROVE Faithful(r)'
  <2>1. Faithful(r)
    BY <1>4 DEF PlanInv
  <2>2. plan[r] = Announced(listing[r]) /\ existed[r] = table /\ result[r] = Nothing
    BY <1>1, <2>1 DEF Faithful
  <2>3. CASE table
    <3>1. plan[r] = [record |-> {}, apply |-> Files(listing[r]) \ ledger]
      BY <2>2, <2>3 DEF Announced
    <3>2. step'[r] = "read"
      BY <1>2, <2>2, <2>3
    <3>3. plan[r].record = {} /\ plan[r].apply = Files(listing[r]) \ ledger
      BY <3>1
    <3>4. plan'[r] = plan[r] /\ listing'[r] = listing[r] /\ result'[r] = result[r] /\ ledger' = ledger
      BY <1>1
    <3>5. QED
      BY <1>2, <2>1, <2>2, <3>2, <3>3, <3>4 DEF Faithful, Nothing
  <2>4. CASE ~table
    <3>1. ledger = {} /\ step'[r] = "decide"
      BY <1>2, <2>2, <2>4 DEF MigrateInv, MigrateTypes, Course, Untouched
    <3>2. /\ plan[r].record = IF Established THEN Files(Boundary) ELSE {}
          /\ plan[r].apply = Files(listing[r]) \ plan[r].record
      BY <2>2, <2>4, <3>1 DEF Announced
    <3>3. Established' = Established
      BY <1>1 DEF Established
    <3>4. QED
      BY <1>1, <1>2, <2>1, <2>2, <3>1, <3>2, <3>3 DEF Faithful, Nothing
  <2>5. QED
    BY <2>3, <2>4
<1>5. step'[r] # "idle"
  BY <1>2
<1>6. QED
  BY <1>1, <1>2, <1>3, <1>4, <1>5, OwnStep

LEMMA DecidePlan == ASSUME MigrateInv, PlanInv, NEW r \in Runners, DecideBaseline(r) PROVE PlanInv'
<1>1. CASE Established /\ Refused(listing[r])
  <2>1. step[r] = "decide" /\ Stop(r) /\ UNCHANGED shipped
    BY <1>1 DEF DecideBaseline, dbVars
  <2>2. QED
    BY <2>1, EndStep DEF MigrateInv
<1>2. CASE ~(Established /\ Refused(listing[r]))
  <2>1. /\ step[r] = "decide" /\ step' = [step EXCEPT ![r] = "record"]
        /\ baseline' = [baseline EXCEPT ![r] = IF Established THEN Files(Boundary) ELSE {}]
        /\ UNCHANGED <<shipped, held, ledger, table, listing, existed, waiting, result, plan, alone>>
    BY <1>2 DEF DecideBaseline, UpTo, To, dbVars
  <2>2. /\ step'[r] = "record" /\ \A o \in Runners \ {r} : step'[o] = step[o]
        /\ baseline'[r] = IF Established THEN Files(Boundary) ELSE {}
    BY <2>1 DEF MigrateInv, MigrateTypes
  <2>3. PlanTypes'
    BY <2>1 DEF PlanInv, PlanTypes
  <2>4. ASSUME alone[r] PROVE Faithful(r)'
    <3>1. Faithful(r)
      BY <2>4 DEF PlanInv
    <3>2. QED
      BY <2>1, <2>2, <3>1 DEF Faithful, Nothing
  <2>5. QED
    BY <2>1, <2>2, <2>3, <2>4, OwnStep
<1>3. QED
  BY <1>1, <1>2

LEMMA RecordPlan == ASSUME MigrateInv, PlanInv, NEW r \in Runners, RecordHeld(r) PROVE PlanInv'
<1>1. PICK f \in baseline[r] :
        /\ step[r] = "record" /\ ledger' = ledger \cup {f}
        /\ result' = [result EXCEPT ![r].record = result[r].record \cup {f}]
        /\ baseline' = [baseline EXCEPT ![r] = baseline[r] \ {f}]
        /\ UNCHANGED <<shipped, step, listing, waiting, plan, alone>>
  BY DEF RecordHeld, First, runNotes
<1>2. f \in Int /\ baseline'[r] = baseline[r] \ {f}
  BY <1>1 DEF MigrateInv, MigrateTypes
<1>3. result[r] \in Outcomes /\ result \in [Runners -> Outcomes]
  BY DEF PlanInv, PlanTypes
<1>4. /\ result' \in [Runners -> Outcomes]
      /\ result'[r].record = result[r].record \cup {f} /\ result'[r].apply = result[r].apply
      /\ \A o \in Runners \ {r} : result'[o] = result[o]
  BY <1>1, <1>2, <1>3 DEF Outcomes
<1>5. PlanTypes'
  BY <1>1, <1>4 DEF PlanInv, PlanTypes
<1>6. ASSUME alone[r] PROVE Faithful(r)'
  <2>1. Faithful(r)
    BY <1>6 DEF PlanInv
  <2>2. /\ ledger = result[r].record /\ result[r].apply = {}
        /\ plan[r].record = result[r].record \cup baseline[r]
        /\ plan[r].apply = Files(listing[r]) \ plan[r].record
    BY <1>1, <2>1 DEF Faithful
  <2>3. plan[r].record = (result[r].record \cup {f}) \cup (baseline[r] \ {f})
    BY <1>1, <2>2
  <2>4. QED
    BY <1>1, <1>2, <1>4, <2>1, <2>2, <2>3 DEF Faithful
<1>7. QED
  BY <1>1, <1>4, <1>5, <1>6, OwnStep

LEMMA ReadPlan == ASSUME MigrateInv, PlanInv, NEW r \in Runners, ReadLedger(r) PROVE PlanInv'
<1>1. /\ step[r] = "read" \/ (step[r] = "record" /\ baseline[r] = {})
      /\ step' = [step EXCEPT ![r] = "apply"]
      /\ waiting' = [waiting EXCEPT ![r] = Files(listing[r]) \ ledger]
      /\ UNCHANGED <<shipped, held, ledger, table, listing, existed, baseline, result, plan, alone>>
  BY DEF ReadLedger, To, dbVars, runNotes
<1>2. step'[r] = "apply" /\ \A o \in Runners \ {r} : step'[o] = step[o]
  BY <1>1 DEF MigrateInv, MigrateTypes
<1>3. Files(listing[r]) \ ledger \in SUBSET Int
  BY FilesAreNumbers DEF PlanInv, PlanTypes
<1>4. PlanTypes'
  BY <1>1, <1>3 DEF PlanInv, PlanTypes
<1>5. waiting'[r] = Files(listing[r]) \ ledger
  BY <1>1 DEF PlanInv, PlanTypes
<1>6. ASSUME alone[r] PROVE Faithful(r)'
  <2>1. Faithful(r)
    BY <1>6 DEF PlanInv
  <2>2. /\ plan[r].record = result[r].record
        /\ plan[r].apply = result[r].apply \cup (Files(listing[r]) \ ledger)
    <3>1. CASE step[r] = "read"
      BY <2>1, <3>1 DEF Faithful, Nothing
    <3>2. CASE step[r] = "record" /\ baseline[r] = {}
      BY <2>1, <3>2 DEF Faithful
    <3>3. QED
      BY <1>1, <3>1, <3>2
  <2>3. QED
    BY <1>1, <1>2, <1>5, <2>1, <2>2 DEF Faithful
<1>7. step[r] # "idle"
  BY <1>1
<1>8. QED
  BY <1>1, <1>2, <1>4, <1>6, <1>7, OwnStep

LEMMA ApplyPlan == ASSUME MigrateInv, PlanInv, NEW r \in Runners, ApplyFile(r) PROVE PlanInv'
<1>1. PICK f \in waiting[r] :
        /\ step[r] = "apply"
        /\ \/ /\ ledger' = ledger \cup {f}
              /\ result' = [result EXCEPT ![r].apply = result[r].apply \cup {f}]
              /\ waiting' = [waiting EXCEPT ![r] = waiting[r] \ {f}]
              /\ UNCHANGED <<step, listing, plan, alone>>
           \/ Stop(r)
        /\ UNCHANGED shipped
  BY DEF ApplyFile, First
<1>2. CASE Stop(r)
  BY <1>1, <1>2, EndStep DEF MigrateInv
<1>3. CASE /\ ledger' = ledger \cup {f}
           /\ result' = [result EXCEPT ![r].apply = result[r].apply \cup {f}]
           /\ waiting' = [waiting EXCEPT ![r] = waiting[r] \ {f}]
           /\ UNCHANGED <<step, listing, plan, alone>>
  <2>1. f \in Int /\ waiting'[r] = waiting[r] \ {f} /\ waiting' \in [Runners -> SUBSET Int]
    BY <1>3 DEF PlanInv, PlanTypes
  <2>2. result[r] \in Outcomes /\ result \in [Runners -> Outcomes]
    BY DEF PlanInv, PlanTypes
  <2>3. /\ result' \in [Runners -> Outcomes]
        /\ result'[r].record = result[r].record /\ result'[r].apply = result[r].apply \cup {f}
        /\ \A o \in Runners \ {r} : result'[o] = result[o]
    BY <1>3, <2>1, <2>2 DEF Outcomes
  <2>4. PlanTypes'
    BY <1>1, <1>3, <2>1, <2>3 DEF PlanInv, PlanTypes
  <2>5. ASSUME alone[r] PROVE Faithful(r)'
    <3>1. Faithful(r)
      BY <2>5 DEF PlanInv
    <3>2. /\ waiting[r] = Files(listing[r]) \ ledger
          /\ plan[r].record = result[r].record
          /\ plan[r].apply = result[r].apply \cup waiting[r]
      BY <1>1, <3>1 DEF Faithful
    <3>3. /\ waiting[r] \ {f} = Files(listing[r]) \ (ledger \cup {f})
          /\ plan[r].apply = (result[r].apply \cup {f}) \cup (waiting[r] \ {f})
      BY <1>1, <3>2
    <3>4. QED
      BY <1>1, <1>3, <2>1, <2>3, <3>1, <3>2, <3>3 DEF Faithful
  <2>6. QED
    BY <1>1, <1>3, <2>3, <2>4, <2>5, OwnStep
<1>4. QED
  BY <1>1, <1>2, <1>3

LEMMA EndRunPlan == ASSUME MigrateInv, PlanInv, NEW r \in Runners, Done(r) \/ RunFails(r) PROVE PlanInv'
<1>1. step[r] # "idle" /\ Stop(r) /\ UNCHANGED shipped
  BY DEF Done, RunFails, dbVars
<1>2. QED
  BY <1>1, EndStep DEF MigrateInv

LEMMA PlanStutter == ASSUME PlanInv, UNCHANGED migrateVars PROVE PlanInv'
<1>1. UNCHANGED <<shipped, held, ledger, table, step, listing, existed, baseline, waiting, result,
                  plan, alone>>
  BY DEF migrateVars
<1>2. PlanTypes' /\ IdleHasNone'
  BY <1>1 DEF PlanInv, PlanTypes, IdleHasNone, Nothing
<1>3. \A r \in Runners : Faithful(r)' = Faithful(r)
  BY <1>1 DEF Faithful, Announced, Established, Nothing
<1>4. QED
  BY <1>1, <1>2, <1>3 DEF PlanInv

\* PlanTold for any number of runs and files: the dry run and the run
\* (internal/migrate/migrate.go) compute their sets apart, and a run with the
\* database to itself does what the dry run said, whatever ran before it.
THEOREM PlanSafety == MigrateSpec => PlanTold
<1>1. MigrateInit => MigrateInv /\ PlanInv
  BY MigrateInitInv, PlanInit
<1>2. MigrateInv /\ PlanInv /\ [MigrateNext]_migrateVars => (MigrateInv /\ PlanInv)'
  <2>1. ASSUME MigrateInv, [MigrateNext]_migrateVars PROVE MigrateInv'
    BY <2>1, ShipInv, StartRunInv, LookInv, CreateInv, DecideInv, RecordInv, ReadInv, ApplyInv,
       EndRunInv, MigrateStutterInv DEF MigrateNext
  <2>2. ASSUME MigrateInv, PlanInv, [MigrateNext]_migrateVars PROVE PlanInv'
    BY <2>2, ShipPlan, StartRunPlan, LookPlan, CreatePlan, DecidePlan, RecordPlan, ReadPlan,
       ApplyPlan, EndRunPlan, PlanStutter DEF MigrateNext
  <2>3. QED
    BY <2>1, <2>2
<1>3. ASSUME MigrateInv, PlanInv, NEW r \in Runners,
             step[r] = "apply", waiting[r] = {}, alone[r], ~crossed
      PROVE  result[r] = plan[r] /\ Files(listing[r]) \subseteq ledger \cap held
  <2>1. /\ Files(listing[r]) \ ledger = {}
        /\ plan[r].record = result[r].record /\ plan[r].apply = result[r].apply
    BY <1>3 DEF PlanInv, Faithful
  <2>2. result[r] \in Outcomes /\ plan[r] \in Outcomes
    BY <1>3 DEF PlanInv, PlanTypes
  <2>3. result[r] = plan[r]
    BY <2>1, <2>2 DEF Outcomes
  <2>4. ledger \subseteq held
    BY <1>3 DEF MigrateInv, RecordedIsHeld
  <2>5. QED
    BY <2>1, <2>3, <2>4
<1>4. ASSUME MigrateInv, PlanInv
      PROVE  [\A r \in Runners :
                 step[r] = "apply" /\ waiting[r] = {} /\ step'[r] = "idle" /\ alone[r] /\ ~crossed =>
                     /\ result[r] = plan[r]
                     /\ Files(listing[r]) \subseteq ledger \cap held]_migrateVars
  BY <1>3, <1>4
<1>5. QED
  BY <1>1, <1>2, <1>4, PTL DEF MigrateSpec, PlanTold

------------------------------------------------------------------------------
(* FixScan: any number of workers, archives and books.                     *)

Stations == {"take", "next", "broken", "parsed", "store", "count", "left"}
AllFlags == Flags \cup {"deleted"}

FixTypes ==
    /\ flag \in [Titles -> AllFlags] /\ shown \in [Titles -> AllFlags]
    /\ \E s \in Setups : shelf = s.shelf /\ crew = s.crew
    /\ feeder \in {"query", "feed", "wait", "late", "completed", "canceled"}
    /\ fed \in 0..Len(shelf)
    /\ jobs \in Seq(1..Len(shelf))
    /\ hand \in [Hands -> [at : Stations, todo : SUBSET Titles, cover : AllFlags]]
    /\ canceled \in BOOLEAN
    /\ progress \in Nat /\ updated \in Nat /\ errors \in Nat /\ kept \in Nat
    /\ counted \in [Titles -> Nat]
    /\ deed \in [at : {"idle", "file", "row"}, on : Titles \cup {NoVolume}, to : Flags]
    /\ touched \subseteq Titles /\ (deed.at # "idle" => deed.on \in touched)

\* The books an archive still has in the feeder's or the channel's hands.
Fed(p)     == \E i \in 1..Len(jobs) : jobs[i] = p
Waiting(p) == fed < p \/ Fed(p)
Through       == {b \in Titles : counted[b] # 0}

\* An archive is in the channel once, and not in vain.
Channel ==
    \A i \in 1..Len(jobs) :
        /\ jobs[i] <= fed /\ Group(jobs[i]) # {}
        /\ \A j \in 1..Len(jobs) : jobs[i] = jobs[j] => i = j

\* What a worker has in hand comes from one archive, which has left the channel,
\* and no other worker has any of it.
InHand ==
    \A w \in crew :
        /\ hand[w].at \in {"take", "left"} => hand[w].todo = {}
        /\ hand[w].at \in {"broken", "parsed", "store", "count"} => hand[w].todo # {}
        /\ hand[w].todo # {} => \E p \in 1..Len(shelf) :
                /\ hand[w].todo \subseteq Group(p)
                /\ ~Waiting(p)
        /\ \A v \in crew \ {w} : hand[w].todo \cap hand[v].todo = {}

\* What has been counted is neither waiting nor in a worker's hands, and the
\* progress is the number of it.
Counting ==
    /\ Through \subseteq Queried /\ IsFiniteSet(Through) /\ progress = Cardinality(Through)
    /\ \A b \in Titles : counted[b] <= 1
    /\ \A w \in crew : hand[w].todo \cap Through = {}
    /\ \A p \in 1..Len(shelf) : Waiting(p) => Group(p) \cap Through = {}

\* Nothing gets lost on the way.
Coverage == ~canceled =>
    \A p \in 1..Len(shelf) : \A b \in Group(p) :
        \/ Waiting(p) \/ b \in Through
        \/ \E w \in crew : b \in hand[w].todo

\* The feeder before the query and after its last archive, and who has left.
Feeding ==
    /\ feeder = "query" => /\ fed = 0 /\ jobs = <<>> /\ Through = {}
                           /\ \A w \in crew : hand[w] = Free
    /\ feeder \in {"wait", "completed"} => fed = Len(shelf)
    /\ feeder \in {"late", "canceled"} => canceled
    /\ feeder \in {"completed", "canceled"} => \A w \in crew : hand[w].at = "left"
    /\ ~canceled => \A w \in crew : hand[w].at = "left" => Closed /\ jobs = <<>>

Ledger ==
    /\ updated + errors = progress + Cardinality(AtWork)
    /\ kept <= MaxErrors /\ (errors <= MaxErrors => kept = errors)

\* A book whose turn has not come to an end has the flag the query read, or
\* none, and what a worker is about to write is that or better.
Fresh(b) == b \notin Through \cup touched
            /\ \A w \in crew : hand[w].at = "count" => b # FirstBook(hand[w].todo)
Covers ==
    /\ \A b \in Titles \ touched : flag[b] = "yes" => b \in poster
    /\ feeder # "query" =>
        /\ \A b \in Titles \ touched : shown[b] = "yes" => b \in poster
        /\ \A b \in Titles : Fresh(b) => flag[b] \in {shown[b], "deleted"}
    /\ \A w \in crew : hand[w].at \in {"parsed", "store"} =>
        LET b == FirstBook(hand[w].todo) IN
        /\ hand[w].cover \in {shown[b], "yes"}
        /\ hand[w].cover = "yes" /\ b \notin touched => b \in poster

FixInv == /\ FixTypes /\ Channel /\ InHand /\ Counting /\ Coverage /\ Feeding /\ Ledger
          /\ Covers

------------------------------------------------------------------------------
\* What the constants are, and the books of an archive.
LEMMA ShelfFacts ==
    ASSUME FixTypes
    PROVE  /\ crew \subseteq Hands /\ IsFiniteSet(crew) /\ crew # {}
           /\ shelf \in Seq(SUBSET Nat) /\ Len(shelf) \in Nat
           /\ \A p, q \in 1..Len(shelf) : p # q => shelf[p] \cap shelf[q] = {}
           /\ BooksOn(shelf) \subseteq Titles /\ Titles \subseteq Nat
<1>1. PICK s \in Setups : shelf = s.shelf /\ crew = s.crew
  BY DEF FixTypes
<1>2. \A z \in Setups : z.shelf \in Seq(SUBSET Nat)
  BY FixScanAssumption
<1>3. ASSUME NEW z \in Setups PROVE BooksOn(z.shelf) \subseteq Nat
  <2>1. \A p \in 1..Len(z.shelf) : z.shelf[p] \in SUBSET Nat
    BY <1>2
  <2>2. QED
    BY <2>1 DEF BooksOn
<1>4. Titles \subseteq Nat
  BY <1>3 DEF Titles
<1>5. BooksOn(shelf) \subseteq Titles
  BY <1>1 DEF Titles
<1>6. crew \subseteq Hands
  BY <1>1 DEF Hands
<1>7. QED
  BY <1>1, <1>2, <1>4, <1>5, <1>6, FixScanAssumption

LEMMA GroupFacts ==
    ASSUME FixTypes
    PROVE  /\ \A p \in 1..Len(shelf) : Group(p) \subseteq Queried
           /\ \A p, q \in 1..Len(shelf) : p # q => Group(p) \cap Group(q) = {}
           /\ \A b \in Queried : \E p \in 1..Len(shelf) : b \in Group(p)
           /\ Queried \subseteq Titles
BY ShelfFacts DEF Group, Queried, BooksOn

\* The book whose turn it is.
LEMMA FirstIn ==
    ASSUME FixTypes, NEW S \in SUBSET Titles, S # {}
    PROVE  FirstBook(S) \in S
<1>1. \E m \in S : \A n \in S : m <= n
  BY ShelfFacts, Smallest
<1>2. QED
  BY <1>1 DEF FirstBook

LEMMA HandType ==
    ASSUME FixTypes, NEW w \in crew
    PROVE  /\ w \in Hands
           /\ hand[w].at \in Stations /\ hand[w].todo \subseteq Titles
           /\ hand[w].cover \in AllFlags
           /\ hand[w] = Hand(hand[w].at, hand[w].todo, hand[w].cover)
<1>1. w \in Hands
  BY ShelfFacts
<1>2. hand[w] \in [at : Stations, todo : SUBSET Titles, cover : AllFlags]
  BY <1>1 DEF FixTypes
<1>3. QED
  BY <1>1, <1>2 DEF Hand

LEMMA WorkFinite ==
    ASSUME FixTypes
    PROVE  IsFiniteSet(AtWork) /\ Cardinality(AtWork) \in Nat
<1>1. IsFiniteSet(AtWork)
  BY ShelfFacts, FS_Subset DEF AtWork
<1>2. QED
  BY <1>1, FS_CardinalityType

------------------------------------------------------------------------------
\* What a worker's move does to its record.
LEMMA MoveFacts ==
    ASSUME FixTypes, NEW w \in crew, NEW place \in Stations, NEW books \in SUBSET Titles,
           NEW cover \in AllFlags, Moves(w, Hand(place, books, cover))
    PROVE  /\ hand' \in [Hands -> [at : Stations, todo : SUBSET Titles, cover : AllFlags]]
           /\ hand'[w].at = place /\ hand'[w].todo = books /\ hand'[w].cover = cover
           /\ \A v \in Hands \ {w} : hand'[v] = hand[v]
<1>1. w \in Hands
  BY ShelfFacts
<1>2. Hand(place, books, cover) \in [at : Stations, todo : SUBSET Titles, cover : AllFlags]
  BY DEF Hand
<1>3. QED
  BY <1>1, <1>2 DEF FixTypes, Moves, Hand
LEMMA SameGroups ==
    ASSUME UNCHANGED <<shown, shelf>>
    PROVE  /\ \A p : Group(p)' = Group(p)
           /\ Queried' = Queried
BY DEF Group, Queried, BooksOn

\* A move of worker w that takes nothing more in hand, beside which neither the
\* feeder nor the channel changes.
Move(w, place, books, cover) ==
    /\ w \in crew /\ place \in Stations /\ books \in SUBSET Titles /\ cover \in AllFlags
    /\ Moves(w, Hand(place, books, cover)) /\ UNCHANGED feedVars
    /\ place \in {"take", "left"} => books = {}
    /\ place \in {"broken", "parsed", "store", "count"} => books # {}
Kept(w, place, books, cover) ==
    /\ Move(w, place, books, cover) /\ books \subseteq hand[w].todo /\ UNCHANGED jobs

LEMMA MoveEffect ==
    ASSUME FixTypes, NEW w, NEW place, NEW books, NEW cover, Move(w, place, books, cover)
    PROVE  /\ w \in crew /\ w \in Hands /\ crew \subseteq Hands
           /\ hand' \in [Hands -> [at : Stations, todo : SUBSET Titles, cover : AllFlags]]
           /\ hand'[w].at = place /\ hand'[w].todo = books /\ hand'[w].cover = cover
           /\ \A v \in Hands \ {w} : hand'[v] = hand[v]
           /\ \A p : Group(p)' = Group(p)
           /\ Queried' = Queried
           /\ UNCHANGED <<shown, shelf, crew, feeder, fed, canceled>>
<1>1. UNCHANGED <<shown, shelf, crew, feeder, fed, canceled>>
  BY DEF Move, feedVars
<1>2. QED
  BY <1>1, SameGroups, MoveFacts, ShelfFacts DEF Move

LEMMA KeptInHand ==
    ASSUME FixInv, NEW w, NEW place, NEW books, NEW cover, Kept(w, place, books, cover)
    PROVE  Channel' /\ InHand'
<1>1. FixTypes /\ Channel /\ InHand
  BY DEF FixInv
<1>2. Move(w, place, books, cover) /\ books \subseteq hand[w].todo /\ jobs' = jobs
  BY DEF Kept
<1>3. /\ w \in crew /\ crew \subseteq Hands /\ crew' = crew /\ shelf' = shelf /\ fed' = fed
      /\ hand'[w].at = place /\ hand'[w].todo = books
      /\ \A v \in Hands \ {w} : hand'[v] = hand[v]
      /\ \A p : Group(p)' = Group(p)
  BY <1>1, <1>2, MoveEffect
<1>4. Channel'
  BY <1>1, <1>2, <1>3 DEF Channel
<1>5. \A p : Waiting(p)' = Waiting(p)
  BY <1>2, <1>3 DEF Waiting, Fed
<1>6. /\ place \in {"take", "left"} => books = {}
      /\ place \in {"broken", "parsed", "store", "count"} => books # {}
  BY <1>2 DEF Move
<1>7. ASSUME NEW v \in crew
      PROVE  /\ hand'[v].at \in {"take", "left"} => hand'[v].todo = {}
             /\ hand'[v].at \in {"broken", "parsed", "store", "count"} => hand'[v].todo # {}
             /\ hand'[v].todo \subseteq hand[v].todo
  <2>1. CASE v = w
    BY <2>1, <1>2, <1>3, <1>6
  <2>2. CASE v # w
    BY <2>2, <1>1, <1>3 DEF InHand
  <2>3. QED
    BY <2>1, <2>2
<1>8. ASSUME NEW v \in crew, hand'[v].todo # {}
      PROVE  \E p \in 1..Len(shelf) : hand'[v].todo \subseteq Group(p) /\ ~Waiting(p)
  <2>1. hand[v].todo # {}
    BY <1>7, <1>8
  <2>2. PICK p \in 1..Len(shelf) : hand[v].todo \subseteq Group(p) /\ ~Waiting(p)
    BY <2>1, <1>1 DEF InHand
  <2>3. QED
    BY <2>2, <1>7
<1>9. ASSUME NEW v \in crew, NEW o \in crew \ {v} PROVE hand'[v].todo \cap hand'[o].todo = {}
  BY <1>1, <1>7 DEF InHand
<1>10. InHand'
  BY <1>3, <1>5, <1>7, <1>8, <1>9 DEF InHand
<1>11. QED
  BY <1>4, <1>10

LEMMA KeptCounting ==
    ASSUME FixInv, NEW w, NEW place, NEW books, NEW cover, Kept(w, place, books, cover),
           UNCHANGED <<counted, progress>>
    PROVE  /\ Counting'
           /\ books = hand[w].todo \/ canceled => Coverage'
<1>1. FixTypes /\ Counting /\ Coverage
  BY DEF FixInv
<1>2. Move(w, place, books, cover) /\ books \subseteq hand[w].todo /\ jobs' = jobs
  BY DEF Kept
<1>3. /\ w \in crew /\ crew \subseteq Hands /\ crew' = crew /\ shelf' = shelf /\ fed' = fed
      /\ canceled' = canceled /\ Queried' = Queried
      /\ hand'[w].todo = books
      /\ \A v \in Hands \ {w} : hand'[v] = hand[v]
      /\ \A p : Group(p)' = Group(p)
  BY <1>1, <1>2, MoveEffect
<1>4. Through' = Through /\ \A p : Waiting(p)' = Waiting(p)
  BY <1>2, <1>3 DEF Waiting, Fed, Through
<1>5. \A v \in crew : hand'[v].todo \subseteq hand[v].todo
  BY <1>2, <1>3
<1>6. Counting'
  BY <1>1, <1>3, <1>4, <1>5 DEF Counting
<1>7. ASSUME books = hand[w].todo, ~canceled PROVE Coverage'
  <2>1. \A v \in crew : hand'[v].todo = hand[v].todo
    BY <1>3, <1>7
  <2>2. QED
    BY <2>1, <1>1, <1>3, <1>4, <1>7 DEF Coverage
<1>8. canceled => Coverage'
  BY <1>3 DEF Coverage
<1>9. QED
  BY <1>6, <1>7, <1>8

\* The book in turn is counted.
LEMMA CountedOne ==
    ASSUME FixInv, NEW w, NEW place, NEW cover, Kept(w, place, Rest(hand[w].todo), cover),
           hand[w].todo # {}, CountBook(FirstBook(hand[w].todo))
    PROVE  /\ Counting' /\ Coverage'
           /\ Through' = Through \cup {FirstBook(hand[w].todo)}
<1> DEFINE b == FirstBook(hand[w].todo)
           rest == Rest(hand[w].todo)
<1>1. FixTypes /\ InHand /\ Counting /\ Coverage
  BY DEF FixInv
<1>2. Move(w, place, rest, cover) /\ jobs' = jobs
  BY DEF Kept
<1>3. /\ w \in crew /\ crew \subseteq Hands /\ crew' = crew /\ shelf' = shelf /\ fed' = fed
      /\ canceled' = canceled /\ Queried' = Queried
      /\ hand'[w].todo = rest
      /\ \A v \in Hands \ {w} : hand'[v] = hand[v]
      /\ \A p : Group(p)' = Group(p)
  BY <1>1, <1>2, MoveEffect
<1>4. b \in hand[w].todo /\ hand[w].todo \subseteq Titles
  BY <1>1, <1>3, HandType, FirstIn
<1>5. rest = hand[w].todo \ {b}
  BY DEF Rest
<1> HIDE DEF b, rest
<1>6. counted' = [counted EXCEPT ![b] = @ + 1] /\ progress' = progress + 1
  BY DEF CountBook, b
<1>7. counted[b] = 0
  BY <1>1, <1>3, <1>4 DEF Counting, Through
<1>8. Through' = Through \cup {b} /\ b \notin Through
  BY <1>1, <1>4, <1>6, <1>7 DEF Through, FixTypes
<1>9. PICK p \in 1..Len(shelf) : hand[w].todo \subseteq Group(p) /\ ~Waiting(p)
  BY <1>1, <1>3, <1>4 DEF InHand
<1>10. \A q : Waiting(q)' = Waiting(q)
  BY <1>2, <1>3 DEF Waiting, Fed
<1>11. IsFiniteSet(Through') /\ progress' = Cardinality(Through')
  <2>1. IsFiniteSet(Through) /\ progress = Cardinality(Through)
    BY <1>1 DEF Counting
  <2>2. QED
    BY <2>1, <1>6, <1>8, FS_AddElement
<1>12. Through' \subseteq Queried'
  BY <1>1, <1>3, <1>4, <1>8, <1>9, GroupFacts DEF Counting
<1>13. \A o \in Titles : counted'[o] <= 1
  BY <1>1, <1>4, <1>6, <1>7 DEF Counting, FixTypes
<1>14. ASSUME NEW v \in crew PROVE hand'[v].todo \cap Through' = {}
  <2>1. CASE v = w
    BY <2>1, <1>1, <1>3, <1>5, <1>8 DEF Counting
  <2>2. CASE v # w
    BY <2>2, <1>1, <1>3, <1>4, <1>8 DEF Counting, InHand
  <2>3. QED
    BY <2>1, <2>2
<1>15. ASSUME NEW q \in 1..Len(shelf), Waiting(q) PROVE Group(q) \cap Through' = {}
  BY <1>1, <1>4, <1>8, <1>9, <1>15, GroupFacts DEF Counting
<1>16. Counting'
  BY <1>3, <1>10, <1>11, <1>12, <1>13, <1>14, <1>15 DEF Counting
<1>17. Coverage'
  <2> SUFFICES ASSUME ~canceled, NEW q \in 1..Len(shelf), NEW c \in Group(q),
                      ~Waiting(q), c \notin Through'
               PROVE  \E v \in crew : c \in hand'[v].todo
    BY <1>3, <1>10 DEF Coverage
  <2>1. PICK v \in crew : c \in hand[v].todo
    BY <1>1, <1>8 DEF Coverage
  <2>2. c \in hand'[v].todo
    BY <2>1, <1>3, <1>5, <1>8
  <2>3. QED
    BY <2>2
<1>18. QED
  BY <1>8, <1>16, <1>17 DEF b
\* Workers move once the books are listed.
LEMMA Started ==
    ASSUME FixInv, NEW w \in crew, hand[w].at # "take"
    PROVE  feeder # "query"
BY DEF FixInv, Feeding, Free, Hand

LEMMA KeptFeeding ==
    ASSUME FixInv, NEW w, NEW place, NEW books, NEW cover, Move(w, place, books, cover),
           feeder # "query", hand[w].at # "left",
           jobs' # <<>> => jobs # <<>>,
           place = "left" => canceled \/ (Closed /\ jobs' = <<>>)
    PROVE  Feeding'
<1>1. FixTypes /\ Feeding
  BY DEF FixInv
<1>2. /\ w \in crew /\ crew \subseteq Hands /\ UNCHANGED <<crew, shelf, fed, feeder, canceled>>
      /\ hand'[w].at = place
      /\ \A v \in Hands \ {w} : hand'[v] = hand[v]
  BY <1>1, MoveEffect
<1>3. feeder \notin {"completed", "canceled"}
  BY <1>1, <1>2 DEF Feeding
<1>4. Closed' = Closed
  BY <1>2 DEF Closed
<1>5. ASSUME ~canceled, NEW v \in crew, hand'[v].at = "left"
      PROVE  Closed /\ jobs' = <<>>
  <2>1. CASE v = w
    BY <2>1, <1>2, <1>5
  <2>2. CASE v # w
    BY <2>2, <1>1, <1>2, <1>5 DEF Feeding
  <2>3. QED
    BY <2>1, <2>2
<1>6. QED
  BY <1>1, <1>2, <1>3, <1>4, <1>5 DEF Feeding

\* The number of books between their result and their count.
InWork(place) == IF place = "count" THEN 1 ELSE 0

LEMMA WorkEffect ==
    ASSUME FixTypes, NEW w, NEW place, NEW books, NEW cover, Move(w, place, books, cover)
    PROVE  /\ Cardinality(AtWork)' \in Nat
           /\ Cardinality(AtWork)' + InWork(hand[w].at) = Cardinality(AtWork) + InWork(place)
<1>1. /\ w \in crew /\ crew \subseteq Hands /\ crew' = crew
      /\ hand'[w].at = place
      /\ \A v \in Hands \ {w} : hand'[v] = hand[v]
  BY MoveEffect
<1>2. AtWork' = (AtWork \ {w}) \cup (IF place = "count" THEN {w} ELSE {})
  BY <1>1 DEF AtWork
<1>3. /\ IsFiniteSet(AtWork \ {w})
      /\ Cardinality(AtWork \ {w}) + InWork(hand[w].at) = Cardinality(AtWork)
  <2>1. w \in AtWork <=> hand[w].at = "count"
    BY <1>1 DEF AtWork
  <2>2. /\ IsFiniteSet(AtWork \ {w}) /\ Cardinality(AtWork) \in Nat
        /\ Cardinality(AtWork \ {w}) = IF w \in AtWork THEN Cardinality(AtWork) - 1
                                      ELSE Cardinality(AtWork)
    BY WorkFinite, FS_RemoveElement
  <2>3. QED
    BY <2>1, <2>2 DEF InWork
<1>4. Cardinality(AtWork \ {w}) \in Nat
  BY <1>3, FS_CardinalityType
<1>5. Cardinality(AtWork') = Cardinality(AtWork \ {w}) + InWork(place)
  <2>1. CASE place = "count"
    <3>1. AtWork' = (AtWork \ {w}) \cup {w}
      BY <1>2, <2>1
    <3>2. QED
      BY <3>1, <2>1, <1>3, FS_AddElement DEF InWork
  <2>2. CASE place # "count"
    <3>1. AtWork' = AtWork \ {w}
      BY <1>2, <2>2
    <3>2. QED
      BY <3>1, <2>2, <1>4 DEF InWork
  <2>3. QED
    BY <2>1, <2>2
<1>6. InWork(place) \in Nat /\ InWork(hand[w].at) \in Nat
  BY DEF InWork
<1>7. QED
  BY <1>3, <1>4, <1>5, <1>6

LEMMA LedgerStep ==
    ASSUME FixInv, NEW w, NEW place, NEW books, NEW cover, Move(w, place, books, cover),
           \/ UNCHANGED <<errors, kept>>
           \/ AddError,
           updated' \in Nat, progress' \in Nat,
           updated' + errors' + progress + InWork(hand[w].at)
             = updated + errors + progress' + InWork(place)
    PROVE  Ledger'
<1>1. FixTypes /\ Ledger
  BY DEF FixInv
<1>2. Cardinality(AtWork) \in Nat
  BY <1>1, WorkFinite
<1>3. errors' \in Nat /\ kept' \in Nat
  BY <1>1 DEF FixTypes, AddError
<1>4. updated' + errors' = progress' + Cardinality(AtWork)'
  <2>1. /\ updated + errors = progress + Cardinality(AtWork)
        /\ updated \in Nat /\ errors \in Nat /\ progress \in Nat
    BY <1>1 DEF FixTypes, Ledger
  <2>2. /\ Cardinality(AtWork)' \in Nat
        /\ Cardinality(AtWork)' + InWork(hand[w].at) = Cardinality(AtWork) + InWork(place)
    BY <1>1, WorkEffect
  <2>3. InWork(hand[w].at) \in Nat /\ InWork(place) \in Nat
    BY DEF InWork
  <2>4. updated' + errors' + (progress + InWork(hand[w].at))
          = (Cardinality(AtWork)' + progress') + (progress + InWork(hand[w].at))
    BY <2>1, <2>2, <2>3, <1>2, <1>3
  <2>5. QED
    BY <2>1, <2>2, <2>3, <2>4, <1>2, <1>3
<1>5. kept' <= MaxErrors /\ (errors' <= MaxErrors => kept' = errors')
  <2>1. MaxErrors \in Nat
    BY FixScanAssumption
  <2>2. kept \in Nat /\ errors \in Nat /\ kept <= MaxErrors /\ (errors <= MaxErrors => kept = errors)
    BY <1>1 DEF FixTypes, Ledger
  <2>3. QED
    BY <2>1, <2>2 DEF AddError
<1>6. QED
  BY <1>4, <1>5 DEF Ledger

\* A move that writes no flag.
LEMMA KeptCovers ==
    ASSUME FixInv, NEW w, NEW place, NEW books, NEW cover, Move(w, place, books, cover),
           UNCHANGED <<flag, touched>>, poster \subseteq poster',
           \A b \in Titles : Fresh(b)' => Fresh(b),
           place \in {"parsed", "store"} =>
               /\ cover \in {shown[FirstBook(books)], "yes"}
               /\ cover = "yes" /\ FirstBook(books) \notin touched => FirstBook(books) \in poster'
    PROVE  Covers'
<1>1. FixTypes /\ Covers
  BY DEF FixInv
<1>2. /\ w \in crew /\ crew \subseteq Hands /\ UNCHANGED <<crew, shown, feeder>>
      /\ hand'[w].at = place /\ hand'[w].todo = books /\ hand'[w].cover = cover
      /\ \A v \in Hands \ {w} : hand'[v] = hand[v]
  BY <1>1, MoveEffect
<1>3. \A b \in Titles \ touched : flag'[b] = "yes" => b \in poster'
  BY <1>1 DEF Covers
<1>4. feeder # "query" =>
        /\ \A b \in Titles \ touched : shown[b] = "yes" => b \in poster'
        /\ \A b \in Titles : Fresh(b)' => flag'[b] \in {shown[b], "deleted"}
  BY <1>1 DEF Covers
<1>5. ASSUME NEW v \in crew, hand'[v].at \in {"parsed", "store"}
      PROVE  /\ hand'[v].cover \in {shown[FirstBook(hand'[v].todo)], "yes"}
             /\ hand'[v].cover = "yes" /\ FirstBook(hand'[v].todo) \notin touched
                => FirstBook(hand'[v].todo) \in poster'
  <2>1. CASE v = w
    BY <2>1, <1>2, <1>5
  <2>2. CASE v # w
    <3>1. hand'[v] = hand[v]
      BY <2>2, <1>2
    <3>2. /\ hand[v].cover \in {shown[FirstBook(hand[v].todo)], "yes"}
          /\ hand[v].cover = "yes" /\ FirstBook(hand[v].todo) \notin touched
             => FirstBook(hand[v].todo) \in poster
      BY <3>1, <1>1, <1>5 DEF Covers
    <3>3. QED
      BY <3>1, <3>2
  <2>3. QED
    BY <2>1, <2>2
<1>6. QED
  BY <1>2, <1>3, <1>4, <1>5 DEF Covers, FirstBook

LEMMA FreshKept ==
    ASSUME FixTypes, NEW w, NEW place, NEW books, NEW cover, Move(w, place, books, cover),
           UNCHANGED <<counted, touched>>, hand[w].at # "count"
    PROVE  \A b \in Titles : Fresh(b)' => Fresh(b)
<1>1. /\ w \in crew /\ crew \subseteq Hands /\ crew' = crew
      /\ \A v \in Hands \ {w} : hand'[v] = hand[v]
  BY MoveEffect
<1>2. Through' = Through
  BY DEF Through
<1>3. ASSUME NEW b \in Titles, Fresh(b)', NEW v \in crew, hand[v].at = "count"
      PROVE  b # FirstBook(hand[v].todo)
  <2>1. hand'[v] = hand[v]
    BY <1>1, <1>3
  <2>2. QED
    BY <2>1, <1>1, <1>3 DEF Fresh, FirstBook
<1>4. QED
  BY <1>2, <1>3 DEF Fresh
\* The types that a worker's move leaves to the rest of its step.
LEMMA MoveTypes ==
    ASSUME FixTypes, NEW w, NEW place, NEW books, NEW cover, Move(w, place, books, cover),
           UNCHANGED deedVars,
           jobs' \in Seq(1..Len(shelf)), flag' \in [Titles -> AllFlags],
           progress' \in Nat, updated' \in Nat, errors' \in Nat, kept' \in Nat,
           counted' \in [Titles -> Nat]
    PROVE  FixTypes'
<1>1. /\ hand' \in [Hands -> [at : Stations, todo : SUBSET Titles, cover : AllFlags]]
      /\ UNCHANGED <<shown, shelf, crew, feeder, fed, canceled>>
  BY MoveEffect
<1>2. UNCHANGED <<deed, deeds, touched>>
  BY DEF deedVars
<1>3. QED
  BY <1>1, <1>2 DEF FixTypes

LEMMA ErrorTypes ==
    ASSUME FixTypes, AddError
    PROVE  errors' \in Nat /\ kept' \in Nat
BY DEF FixTypes, AddError

LEMMA CountTypes ==
    ASSUME FixTypes, NEW b \in Titles, CountBook(b)
    PROVE  progress' \in Nat /\ counted' \in [Titles -> Nat]
BY DEF FixTypes, CountBook

\* An archive is taken from the channel.
LEMMA TakeInv == ASSUME FixInv, NEW w \in crew, TakeArchive(w) PROVE FixInv'
<1>1. /\ FixTypes /\ Channel /\ InHand /\ Counting /\ Coverage
      /\ feeder # "query" /\ hand[w].at = "take" /\ jobs # <<>> /\ jobs' = Tail(jobs)
      /\ hand[w].todo = {}
  BY DEF FixInv, TakeArchive, InHand
<1>2. PICK p \in 1..Len(shelf) :
         p = Head(jobs) /\ p = jobs[1] /\ Len(jobs) \in Nat \ {0} /\ jobs \in Seq(1..Len(shelf))
  <2>1. jobs \in Seq(1..Len(shelf)) /\ jobs # <<>>
    BY <1>1 DEF FixTypes
  <2>2. Head(jobs) \in 1..Len(shelf) /\ Head(jobs) = jobs[1] /\ Len(jobs) \in Nat \ {0}
    BY <2>1
  <2>3. QED
    BY <2>1, <2>2
<1>3. Group(p) \subseteq Titles /\ Group(p) # {} /\ p <= fed
  BY <1>1, <1>2, GroupFacts DEF Channel
<1>4. PICK opened \in {"next", "broken"} : Moves(w, Hand(opened, Group(p), "no"))
  BY <1>2 DEF TakeArchive
<1>5. Move(w, opened, Group(p), "no")
  BY <1>3, <1>4 DEF TakeArchive, Move, Stations, AllFlags, Flags
<1>6. UNCHANGED <<flag, poster, progress, updated, errors, kept, counted, deed, deeds, touched>>
  BY DEF TakeArchive, tallyVars, deedVars
<1>7. /\ crew \subseteq Hands /\ crew' = crew /\ shelf' = shelf /\ fed' = fed /\ feeder' = feeder
      /\ canceled' = canceled /\ Queried' = Queried
      /\ hand'[w].at = opened /\ hand'[w].todo = Group(p)
      /\ \A v \in Hands \ {w} : hand'[v] = hand[v]
      /\ \A q : Group(q)' = Group(q)
  BY <1>1, <1>5, MoveEffect
<1>8. /\ jobs' \in Seq(1..Len(shelf)) /\ Len(jobs') = Len(jobs) - 1
      /\ \A i \in 1..Len(jobs') : i + 1 \in 1..Len(jobs) /\ jobs'[i] = jobs[i + 1]
  BY <1>1, <1>2
<1>9. FixTypes'
  BY <1>1, <1>5, <1>6, <1>8, MoveTypes DEF FixTypes, deedVars
<1>10. Channel'
  <2>1. ASSUME NEW i \in 1..Len(jobs') PROVE jobs'[i] <= fed /\ Group(jobs'[i]) # {}
    BY <2>1, <1>1, <1>8 DEF Channel
  <2>2. ASSUME NEW i \in 1..Len(jobs'), NEW j \in 1..Len(jobs'), jobs'[i] = jobs'[j] PROVE i = j
    <3>1. jobs[i + 1] = jobs[j + 1] /\ i + 1 \in 1..Len(jobs) /\ j + 1 \in 1..Len(jobs)
      BY <2>2, <1>8
    <3>2. QED
      BY <3>1, <1>1 DEF Channel
  <2>3. QED
    BY <2>1, <2>2, <1>7 DEF Channel
<1>11. ~Waiting(p)'
  <2>1. ~(fed < p)
    BY <1>2, <1>3, <1>1 DEF FixTypes
  <2>2. \A i \in 1..Len(jobs') : jobs'[i] # p
    BY <1>1, <1>2, <1>8 DEF Channel
  <2>3. QED
    BY <2>1, <2>2, <1>7 DEF Waiting, Fed
<1>12. ASSUME NEW q PROVE /\ Waiting(q)' => Waiting(q)
                          /\ Waiting(q) /\ q # p => Waiting(q)'
  <2>1. Fed(q)' => Fed(q)
    BY <1>8 DEF Fed
  <2>2. ASSUME Fed(q), q # p PROVE Fed(q)'
    <3>1. PICK i \in 1..Len(jobs) : jobs[i] = q
      BY <2>2 DEF Fed
    <3>2. i # 1 /\ i - 1 \in 1..Len(jobs')
      BY <3>1, <2>2, <1>2, <1>8
    <3>3. jobs'[i - 1] = q
      BY <3>1, <3>2, <1>8
    <3>4. QED
      BY <3>2, <3>3 DEF Fed
  <2>3. QED
    BY <2>1, <2>2, <1>7 DEF Waiting
<1>13. Waiting(p)
  BY <1>2 DEF Waiting, Fed
<1>14. ASSUME NEW v \in crew \ {w} PROVE hand[v].todo \cap Group(p) = {}
  <2>1. CASE hand[v].todo = {}
    BY <2>1
  <2>2. CASE hand[v].todo # {}
    <3>1. PICK q \in 1..Len(shelf) : hand[v].todo \subseteq Group(q) /\ ~Waiting(q)
      BY <2>2, <1>1 DEF InHand
    <3>2. q # p
      BY <3>1, <1>13
    <3>3. QED
      BY <3>1, <3>2, <1>1, <1>2, GroupFacts
  <2>3. QED
    BY <2>1, <2>2
<1>15. InHand'
  <2>1. ASSUME NEW v \in crew
        PROVE  /\ hand'[v].at \in {"take", "left"} => hand'[v].todo = {}
               /\ hand'[v].at \in {"broken", "parsed", "store", "count"} => hand'[v].todo # {}
               /\ hand'[v].todo # {} => \E q \in 1..Len(shelf) :
                     hand'[v].todo \subseteq Group(q) /\ ~Waiting(q)'
    <3>1. CASE v = w
      BY <3>1, <1>2, <1>3, <1>7, <1>11
    <3>2. CASE v # w
      <4>1. hand'[v] = hand[v]
        BY <3>2, <1>7
      <4>2. QED
        BY <4>1, <1>1, <1>12 DEF InHand
    <3>3. QED
      BY <3>1, <3>2
  <2>2. ASSUME NEW v \in crew, NEW o \in crew \ {v} PROVE hand'[v].todo \cap hand'[o].todo = {}
    BY <1>1, <1>7, <1>14 DEF InHand
  <2>3. QED
    BY <2>1, <2>2, <1>7 DEF InHand
<1>16. Through' = Through
  BY <1>6 DEF Through
<1>17. Counting'
  <2>1. \A v \in crew : hand'[v].todo \cap Through = {}
    BY <1>1, <1>2, <1>7, <1>13 DEF Counting
  <2>2. \A q \in 1..Len(shelf) : Waiting(q)' => Group(q) \cap Through = {}
    BY <1>1, <1>12 DEF Counting
  <2>3. QED
    BY <2>1, <2>2, <1>1, <1>6, <1>7, <1>16 DEF Counting
<1>18. Coverage'
  <2> SUFFICES ASSUME ~canceled, NEW q \in 1..Len(shelf), NEW c \in Group(q),
                      ~Waiting(q)', c \notin Through
               PROVE  \E v \in crew : c \in hand'[v].todo
    BY <1>7, <1>16 DEF Coverage
  <2>1. CASE q = p
    BY <2>1, <1>7
  <2>2. CASE q # p
    <3>1. PICK v \in crew : c \in hand[v].todo
      BY <2>2, <1>1, <1>12 DEF Coverage
    <3>2. v # w
      BY <3>1, <1>1
    <3>3. QED
      BY <3>1, <3>2, <1>7
  <2>3. QED
    BY <2>1, <2>2
<1>19. Feeding'
  BY <1>1, <1>4, <1>5, KeptFeeding
<1>20. Ledger'
  BY <1>1, <1>4, <1>5, <1>6, LedgerStep DEF FixTypes, InWork
<1>21. Covers'
  <2>1. \A b \in Titles : Fresh(b)' => Fresh(b)
    BY <1>1, <1>5, <1>6, FreshKept
  <2>2. QED
    BY <2>1, <1>4, <1>5, <1>6, KeptCovers
<1>22. QED
  BY <1>9, <1>10, <1>15, <1>17, <1>18, <1>19, <1>20, <1>21 DEF FixInv
\* A move that counts nothing and writes no flag.
LEMMA PlainInv ==
    ASSUME FixInv, NEW w, NEW place, NEW books, NEW cover, Kept(w, place, books, cover),
           UNCHANGED <<flag, counted, progress, updated, deed, deeds, touched>>,
           feeder # "query", hand[w].at # "left", hand[w].at # "count",
           place = "left" => canceled \/ (Closed /\ jobs = <<>>),
           books = hand[w].todo \/ canceled,
           \/ place # "count" /\ UNCHANGED <<errors, kept>>
           \/ place = "count" /\ AddError,
           poster \subseteq poster',
           place \in {"parsed", "store"} =>
               /\ cover \in {shown[FirstBook(books)], "yes"}
               /\ cover = "yes" /\ FirstBook(books) \notin touched => FirstBook(books) \in poster'
    PROVE  FixInv'
<1>1. FixTypes /\ Move(w, place, books, cover) /\ jobs' = jobs
  BY DEF FixInv, Kept
<1>2. errors' \in Nat /\ kept' \in Nat
  BY <1>1, ErrorTypes DEF FixTypes
<1>3. FixTypes'
  <2>1. jobs \in Seq(1..Len(shelf)) /\ flag \in [Titles -> AllFlags] /\ progress \in Nat
        /\ updated \in Nat /\ counted \in [Titles -> Nat]
    BY <1>1 DEF FixTypes
  <2>2. QED
    BY <1>1, <1>2, <2>1, MoveTypes DEF deedVars
<1>4. Channel' /\ InHand'
  BY KeptInHand
<1>5. Counting' /\ Coverage'
  BY KeptCounting
<1>6. Feeding'
  BY <1>1, KeptFeeding
<1>7. Ledger'
  <2>1. updated \in Nat /\ progress \in Nat /\ errors \in Nat
    BY <1>1 DEF FixTypes
  <2>2. updated' + errors' + progress + InWork(hand[w].at)
          = updated + errors + progress' + InWork(place)
    BY <2>1 DEF InWork, AddError
  <2>3. UNCHANGED <<errors, kept>> \/ AddError
    OBVIOUS
  <2>4. updated' \in Nat /\ progress' \in Nat
    BY <2>1
  <2>5. QED
    BY <1>1, <2>2, <2>3, <2>4, LedgerStep
<1>8. Covers'
  <2>1. \A b \in Titles : Fresh(b)' => Fresh(b)
    BY <1>1, FreshKept
  <2>2. QED
    BY <1>1, <2>1, KeptCovers
<1>9. QED
  BY <1>3, <1>4, <1>5, <1>6, <1>7, <1>8 DEF FixInv

\* What a worker at work on a book has.
LEMMA AtBook ==
    ASSUME FixInv, NEW w \in crew, hand[w].at \in {"broken", "parsed", "store", "count"}
    PROVE  /\ FixTypes /\ feeder # "query"
           /\ hand[w].todo \in SUBSET Titles /\ hand[w].todo # {}
           /\ FirstBook(hand[w].todo) \in hand[w].todo /\ FirstBook(hand[w].todo) \in Titles
           /\ Rest(hand[w].todo) \in SUBSET Titles /\ Rest(hand[w].todo) \subseteq hand[w].todo
<1>1. FixTypes /\ InHand
  BY DEF FixInv
<1>2. hand[w].todo \in SUBSET Titles
  BY <1>1, HandType
<1>3. hand[w].todo # {}
  BY <1>1 DEF InHand
<1>4. FirstBook(hand[w].todo) \in hand[w].todo
  BY <1>1, <1>2, <1>3, FirstIn
<1>5. QED
  BY <1>1, <1>2, <1>3, <1>4, Started DEF Rest

LEMMA LeaveInv == ASSUME FixInv, NEW w \in crew, LeavePool(w) PROVE FixInv'
<1>1. FixTypes /\ hand[w].todo = {}
  BY DEF FixInv, InHand, LeavePool
<1>2. Kept(w, "left", {}, "no")
  BY DEF LeavePool, Kept, Move, Stations, AllFlags, Flags
<1>3. QED
  BY <1>1, <1>2, PlainInv DEF LeavePool, tallyVars, deedVars

LEMMA CloseArchiveInv == ASSUME FixInv, NEW w \in crew, CloseArchive(w) PROVE FixInv'
<1>1. feeder # "query"
  BY Started DEF CloseArchive
<1>2. Kept(w, "take", {}, "no")
  BY DEF CloseArchive, Free, Kept, Move, Stations, AllFlags, Flags
<1>3. QED
  BY <1>1, <1>2, PlainInv DEF CloseArchive, tallyVars, deedVars

LEMMA ParseInv == ASSUME FixInv, NEW w \in crew, ParseBook(w) PROVE FixInv'
<1>1. feeder # "query" /\ FixTypes
  BY Started DEF ParseBook, FixInv
<1>2. hand[w].todo \in SUBSET Titles /\ hand[w].todo # {}
  BY <1>1, HandType DEF ParseBook
<1>3. PICK b \in Titles : b = FirstBook(hand[w].todo)
  BY <1>1, <1>2, FirstIn
<1>4. shown[b] \in AllFlags /\ (shown[b] = "yes" /\ b \notin touched => b \in poster)
  BY <1>1, <1>3 DEF FixInv, FixTypes, Covers
<1>5. Kept(w, "parsed", hand[w].todo, shown[b])
  BY <1>2, <1>3, <1>4 DEF ParseBook, Kept, Move, Stations
<1>6. /\ UNCHANGED <<flag, poster, counted, progress, updated, errors, kept, deed, deeds, touched>>
      /\ hand[w].at = "next"
  BY DEF ParseBook, tallyVars, deedVars
<1>7. QED
  BY <1>1, <1>3, <1>4, <1>5, <1>6, PlainInv

LEMMA AbandonInv ==
    ASSUME FixInv, NEW w \in crew, hand[w].at \in {"next", "store"}, hand[w].todo # {}, Abandon(w)
    PROVE  FixInv'
<1>1. feeder # "query" /\ FixTypes
  BY Started DEF FixInv
<1>2. hand[w].todo \in SUBSET Titles
  BY <1>1, HandType
<1>3. Kept(w, "count", hand[w].todo, "no")
  BY <1>2 DEF Abandon, Kept, Move, Stations, AllFlags, Flags
<1>4. QED
  BY <1>1, <1>3, PlainInv DEF Abandon, deedVars

LEMMA ParseFailsInv == ASSUME FixInv, NEW w \in crew, ParseFails(w) PROVE FixInv'
BY AbandonInv DEF ParseFails

LEMMA StoreFailsInv == ASSUME FixInv, NEW w \in crew, StoreFails(w) PROVE FixInv'
BY AbandonInv, AtBook DEF StoreFails

LEMMA SaveCoverInv == ASSUME FixInv, NEW w \in crew, SaveCover(w) PROVE FixInv'
<1>1. /\ FixTypes /\ feeder # "query" /\ hand[w].at = "parsed"
      /\ hand[w].todo \in SUBSET Titles /\ hand[w].todo # {}
  BY AtBook DEF SaveCover
<1>2. PICK b \in Titles : b = FirstBook(hand[w].todo)
  BY AtBook DEF SaveCover
<1>3. PICK saved \in BOOLEAN :
         /\ poster' = IF saved THEN poster \cup {b} ELSE poster
         /\ Moves(w, Hand("store", hand[w].todo, IF saved THEN "yes" ELSE hand[w].cover))
  BY <1>2 DEF SaveCover
<1>4. PICK cover \in AllFlags : cover = IF saved THEN "yes" ELSE hand[w].cover
  BY <1>1, HandType DEF AllFlags, Flags
<1>5. Kept(w, "store", hand[w].todo, cover)
  BY <1>1, <1>3, <1>4 DEF SaveCover, Kept, Move, Stations
<1>6. /\ hand[w].cover \in {shown[b], "yes"}
      /\ hand[w].cover = "yes" /\ b \notin touched => b \in poster
  BY <1>1, <1>2 DEF FixInv, Covers
<1>7. /\ cover \in {shown[b], "yes"}
      /\ cover = "yes" /\ b \notin touched => b \in poster'
  BY <1>3, <1>4, <1>6
<1>8. poster \subseteq poster'
  BY <1>3
<1>9. QED
  BY <1>1, <1>2, <1>5, <1>7, <1>8, PlainInv DEF SaveCover, tallyVars, deedVars
\* A book is counted.
LEMMA CountInv ==
    ASSUME FixInv, NEW w \in crew, NEW place \in {"take", "next", "broken"},
           Kept(w, place, Rest(hand[w].todo), "no"),
           CountBook(FirstBook(hand[w].todo)),
           UNCHANGED <<flag, poster, updated, deed, deeds, touched>>,
           \/ hand[w].at = "count" /\ UNCHANGED <<errors, kept>>
           \/ hand[w].at = "broken" /\ AddError
    PROVE  FixInv'
<1>1. PICK books \in SUBSET Titles : books = Rest(hand[w].todo)
  BY AtBook
<1>2. PICK b \in Titles : b = FirstBook(hand[w].todo)
  BY AtBook
<1>3. /\ FixTypes /\ feeder # "query" /\ hand[w].todo # {}
      /\ Move(w, place, books, "no") /\ Kept(w, place, books, "no") /\ jobs' = jobs
  BY <1>1, AtBook DEF Kept
<1>4. errors' \in Nat /\ kept' \in Nat
  BY <1>3, ErrorTypes DEF FixTypes
<1>5. /\ progress' \in Nat /\ counted' \in [Titles -> Nat] /\ progress' = progress + 1
      /\ progress \in Nat /\ updated \in Nat /\ errors \in Nat
  BY <1>2, <1>3, CountTypes DEF FixTypes, CountBook
<1>6. FixTypes'
  <2>1. jobs \in Seq(1..Len(shelf)) /\ flag \in [Titles -> AllFlags] /\ updated \in Nat
    BY <1>3 DEF FixTypes
  <2>2. QED
    BY <1>3, <1>4, <1>5, <2>1, MoveTypes DEF deedVars
<1>7. Channel' /\ InHand'
  BY <1>3, KeptInHand
<1>8. Counting' /\ Coverage' /\ Through' = Through \cup {b}
  BY <1>2, <1>3, CountedOne
<1>9. Feeding'
  BY <1>3, KeptFeeding
<1>10. Ledger'
  <2>1. updated' + errors' + progress + InWork(hand[w].at)
          = updated + errors + progress' + InWork(place)
    BY <1>5 DEF InWork, AddError
  <2>2. UNCHANGED <<errors, kept>> \/ AddError
    OBVIOUS
  <2>3. QED
    BY <1>3, <1>5, <2>1, <2>2, LedgerStep
<1>11. Covers'
  <2>1. /\ crew \subseteq Hands /\ crew' = crew
        /\ \A v \in Hands \ {w} : hand'[v] = hand[v]
    BY <1>3, MoveEffect
  <2>2. ASSUME NEW c \in Titles, Fresh(c)', NEW v \in crew, hand[v].at = "count"
        PROVE  c # FirstBook(hand[v].todo)
    <3>1. CASE v = w
      BY <3>1, <2>2, <1>2, <1>8 DEF Fresh
    <3>2. CASE v # w
      BY <3>2, <2>1, <2>2 DEF Fresh, FirstBook
    <3>3. QED
      BY <3>1, <3>2
  <2>3. \A c \in Titles : Fresh(c)' => Fresh(c)
    BY <2>2, <1>8 DEF Fresh
  <2>4. QED
    BY <2>3, <1>3, KeptCovers
<1>12. QED
  BY <1>6, <1>7, <1>8, <1>9, <1>10, <1>11 DEF FixInv

LEMMA BrokenInv == ASSUME FixInv, NEW w \in crew, BrokenBook(w) PROVE FixInv'
<1>1. hand[w].at = "broken" /\ Rest(hand[w].todo) \in SUBSET Titles
      /\ Rest(hand[w].todo) \subseteq hand[w].todo
  BY AtBook DEF BrokenBook
<1>2. /\ AddError /\ CountBook(FirstBook(hand[w].todo))
      /\ UNCHANGED <<flag, poster, updated, deed, deeds, touched>>
  BY DEF BrokenBook, deedVars
<1>3. CASE Rest(hand[w].todo) = {}
  <2>1. Kept(w, "take", Rest(hand[w].todo), "no")
    BY <1>1, <1>3 DEF BrokenBook, Free, Kept, Move, Stations, AllFlags, Flags
  <2>2. QED
    BY <1>1, <1>2, <2>1, CountInv
<1>4. CASE Rest(hand[w].todo) # {}
  <2>1. Kept(w, "broken", Rest(hand[w].todo), "no")
    BY <1>1, <1>4 DEF BrokenBook, Kept, Move, Stations, AllFlags, Flags
  <2>2. QED
    BY <1>1, <1>2, <2>1, CountInv
<1>5. QED
  BY <1>3, <1>4

LEMMA BookDoneInv == ASSUME FixInv, NEW w \in crew, BookDone(w) PROVE FixInv'
<1>1. hand[w].at = "count" /\ Rest(hand[w].todo) \in SUBSET Titles
      /\ Rest(hand[w].todo) \subseteq hand[w].todo
  BY AtBook DEF BookDone
<1>2. Kept(w, "next", Rest(hand[w].todo), "no")
  BY <1>1 DEF BookDone, Kept, Move, Stations, AllFlags, Flags
<1>3. QED
  BY <1>1, <1>2, CountInv DEF BookDone, deedVars

LEMMA StoreInv == ASSUME FixInv, NEW w \in crew, StoreBook(w) PROVE FixInv'
<1>1. PICK books \in SUBSET Titles : books = hand[w].todo
  BY AtBook DEF StoreBook
<1>2. PICK b \in Titles : b = FirstBook(books) /\ b \in books
  BY <1>1, AtBook DEF StoreBook
<1>3. /\ FixTypes /\ feeder # "query" /\ books # {} /\ hand[w].at = "store" /\ jobs' = jobs
      /\ UNCHANGED <<poster, progress, errors, kept, counted, deed, deeds, touched>>
      /\ updated' = updated + 1
      /\ flag' = IF flag[b] = "deleted" THEN flag ELSE [flag EXCEPT ![b] = hand[w].cover]
  BY <1>1, <1>2, AtBook DEF StoreBook, deedVars
<1>4. Kept(w, "count", books, "no") /\ Move(w, "count", books, "no")
  BY <1>1, <1>3 DEF StoreBook, Kept, Move, Stations, AllFlags, Flags
<1>5. PICK cover \in AllFlags : cover = hand[w].cover
  BY <1>3, HandType
<1>6. FixTypes'
  <2>1. /\ jobs \in Seq(1..Len(shelf)) /\ progress \in Nat /\ updated + 1 \in Nat
        /\ errors \in Nat /\ kept \in Nat /\ counted \in [Titles -> Nat]
    BY <1>3 DEF FixTypes
  <2>2. flag' \in [Titles -> AllFlags]
    BY <1>2, <1>3, <1>5 DEF FixTypes
  <2>3. QED
    BY <1>3, <1>4, <2>1, <2>2, MoveTypes DEF deedVars
<1>7. Channel' /\ InHand'
  BY <1>4, KeptInHand
<1>8. Counting' /\ Coverage'
  BY <1>1, <1>3, <1>4, KeptCounting
<1>9. Feeding'
  BY <1>3, <1>4, KeptFeeding
<1>10. Ledger'
  <2>1. updated \in Nat /\ progress \in Nat /\ errors \in Nat
    BY <1>3 DEF FixTypes
  <2>2. updated' + errors' + progress + InWork(hand[w].at)
          = updated + errors + progress' + InWork("count")
    BY <2>1, <1>3 DEF InWork
  <2>3. QED
    BY <1>3, <1>4, <2>1, <2>2, LedgerStep
<1>11. Covers'
  <2>1. /\ crew \subseteq Hands /\ UNCHANGED <<crew, shown, feeder>>
        /\ hand'[w].at = "count" /\ hand'[w].todo = books
        /\ \A v \in Hands \ {w} : hand'[v] = hand[v]
    BY <1>3, <1>4, MoveEffect
  <2>2. Covers /\ flag \in [Titles -> AllFlags]
    BY <1>3 DEF FixInv, FixTypes
  <2>3. /\ \A c \in Titles : c # b => flag'[c] = flag[c]
        /\ flag'[b] \in {cover, "deleted"}
    BY <1>2, <1>3, <1>5, <2>2
  <2>4. cover = "yes" /\ b \notin touched => b \in poster
    BY <1>1, <1>2, <1>3, <1>5, <2>2 DEF Covers
  <2>5. \A c \in Titles \ touched : flag'[c] = "yes" => c \in poster'
    BY <1>3, <2>2, <2>3, <2>4 DEF Covers
  <2>6. ASSUME NEW c \in Titles, Fresh(c)' PROVE flag'[c] \in {shown[c], "deleted"}
    <3>1. c # b
      BY <2>1, <2>6, <1>2 DEF Fresh, FirstBook
    <3>2. Fresh(c)
      BY <1>3, <1>4, <2>6, FreshKept
    <3>3. flag[c] \in {shown[c], "deleted"}
      BY <1>3, <2>2, <3>2 DEF Covers
    <3>4. QED
      BY <2>3, <3>1, <3>3
  <2>7. ASSUME NEW v \in crew, hand'[v].at \in {"parsed", "store"}
        PROVE  /\ hand'[v].cover \in {shown[FirstBook(hand'[v].todo)], "yes"}
               /\ hand'[v].cover = "yes" /\ FirstBook(hand'[v].todo) \notin touched
                  => FirstBook(hand'[v].todo) \in poster
    <3>1. v # w
      BY <2>1, <2>7
    <3>2. hand'[v] = hand[v]
      BY <2>1, <3>1
    <3>3. QED
      BY <2>2, <2>7, <3>2 DEF Covers
  <2>8. \A c \in Titles \ touched : shown[c] = "yes" => c \in poster
    BY <1>3, <2>2 DEF Covers
  <2>9. QED
    BY <1>3, <2>1, <2>5, <2>6, <2>7, <2>8 DEF Covers, FirstBook
<1>12. QED
  BY <1>6, <1>7, <1>8, <1>9, <1>10, <1>11 DEF FixInv
------------------------------------------------------------------------------
\* Steps that leave the scan alone.
LEMMA ScanKept ==
    ASSUME FixInv, UNCHANGED <<jobs, hand, feedVars, tallyVars>>
    PROVE  /\ Channel' /\ InHand' /\ Counting' /\ Coverage' /\ Feeding' /\ Ledger'
           /\ UNCHANGED <<shown, shelf, crew, feeder, fed, canceled, progress, updated, errors,
                          kept, counted, jobs, hand>>
<1>1. /\ UNCHANGED <<shown, shelf, crew, feeder, fed, canceled, progress, updated, errors,
                     kept, counted, jobs, hand>>
      /\ Channel /\ InHand /\ Counting /\ Coverage /\ Feeding /\ Ledger
  BY DEF FixInv, feedVars, tallyVars
<1>2. (\A p : Group(p)' = Group(p)) /\ Queried' = Queried
  BY <1>1, SameGroups
<1>3. /\ \A p : Waiting(p)' = Waiting(p)
      /\ Through' = Through /\ AtWork' = AtWork /\ Closed' = Closed
  BY <1>1 DEF Waiting, Fed, Through, AtWork, Closed
<1>4. Channel'
  BY <1>1, <1>2 DEF Channel
<1>5. InHand'
  BY <1>1, <1>2, <1>3 DEF InHand
<1>6. Counting'
  BY <1>1, <1>2, <1>3 DEF Counting
<1>7. Coverage'
  BY <1>1, <1>2, <1>3 DEF Coverage
<1>8. Feeding' /\ Ledger'
  BY <1>1, <1>3 DEF Feeding, Ledger, Free
<1>9. QED
  BY <1>1, <1>4, <1>5, <1>6, <1>7, <1>8

\* An administrator's steps, as far as the flags and the pictures go: only those
\* of touched books come, and a picture goes only from one of these.
LEMMA DeedInv ==
    ASSUME FixInv, UNCHANGED <<jobs, hand, feedVars, tallyVars>>,
           touched \subseteq touched', touched' \subseteq Titles,
           flag' \in [Titles -> AllFlags],
           deed' \in [at : {"idle", "file", "row"}, on : Titles \cup {NoVolume}, to : Flags],
           deed'.at # "idle" => deed'.on \in touched',
           \A b \in Titles \ touched' : flag'[b] \in {flag[b], "deleted"},
           \A b \in Titles \ touched' : b \in poster => b \in poster'
    PROVE  FixInv'
<1>1. /\ FixTypes /\ Covers
      /\ UNCHANGED <<shown, shelf, crew, feeder, fed, canceled, progress, updated, errors,
                     kept, counted, jobs, hand>>
  BY ScanKept DEF FixInv
<1>2. FixTypes'
  BY <1>1 DEF FixTypes
<1>3. \A b \in Titles : Fresh(b)' => Fresh(b)
  BY <1>1 DEF Fresh, Through, FirstBook
<1>4. \A b \in Titles : Fresh(b)' => b \notin touched'
  BY DEF Fresh
<1>5. /\ \A b \in Titles \ touched' : flag'[b] = "yes" => b \in poster'
      /\ \A b \in Titles \ touched' : feeder # "query" /\ shown[b] = "yes" => b \in poster'
  BY <1>1 DEF Covers
<1>6. feeder # "query" => \A b \in Titles : Fresh(b)' => flag'[b] \in {shown[b], "deleted"}
  BY <1>1, <1>3, <1>4 DEF Covers
<1>7. ASSUME NEW w \in crew, hand[w].at \in {"parsed", "store"}, NEW b, b = FirstBook(hand[w].todo)
      PROVE  /\ hand[w].cover \in {shown[b], "yes"}
             /\ hand[w].cover = "yes" /\ b \notin touched' => b \in poster'
  <2>1. b \in Titles
    BY <1>7, AtBook
  <2>2. QED
    BY <2>1, <1>1, <1>7 DEF Covers
<1>8. Covers'
  BY <1>1, <1>5, <1>6, <1>7 DEF Covers, FirstBook
<1>9. QED
  BY <1>2, <1>8, ScanKept DEF FixInv

LEMMA FindInv ==
    ASSUME FixInv, NEW b \in BooksOn(shelf), NEW to \in Flags, FindBook(b, to)
    PROVE  FixInv'
<1>1. FixTypes /\ b \in Titles
  BY ShelfFacts DEF FixInv
<1>2. deed' \in [at : {"idle", "file", "row"}, on : Titles \cup {NoVolume}, to : Flags]
      /\ deed'.on = b
  BY <1>1 DEF FindBook, Deed
<1>3. QED
  BY <1>1, <1>2, DeedInv DEF FindBook, FixTypes

LEMMA PosterInv == ASSUME FixInv, PutPoster PROVE FixInv'
<1>1. FixTypes /\ deed.on \in touched
  BY DEF FixInv, FixTypes, PutPoster
<1>2. /\ deed' \in [at : {"idle", "file", "row"}, on : Titles \cup {NoVolume}, to : Flags]
      /\ deed'.on = deed.on
  BY <1>1 DEF FixTypes, PutPoster
<1>3. UNCHANGED <<jobs, hand, feedVars, tallyVars, flag, touched>>
  BY DEF PutPoster
<1>4. \A b \in Titles \ touched : b \in poster => b \in poster'
  BY <1>1 DEF PutPoster
<1>5. QED
  BY <1>1, <1>2, <1>3, <1>4, DeedInv DEF FixTypes

LEMMA NoDeedType == NoDeed \in [at : {"idle", "file", "row"}, on : Titles \cup {NoVolume}, to : Flags]
                    /\ NoDeed.at = "idle"
BY DEF NoDeed, Deed, Flags

LEMMA FlagInv == ASSUME FixInv, PutFlag PROVE FixInv'
<1>1. FixTypes /\ deed.on \in touched /\ deed.to \in Flags
  BY DEF FixInv, FixTypes, PutFlag
<1>2. flag' \in [Titles -> AllFlags] /\ \A b \in Titles \ touched : flag'[b] = flag[b]
  BY <1>1 DEF FixTypes, PutFlag, AllFlags
<1>3. UNCHANGED <<jobs, hand, feedVars, tallyVars, poster, touched>> /\ deed' = NoDeed
  BY DEF PutFlag
<1>4. QED
  BY <1>1, <1>2, <1>3, DeedInv, NoDeedType DEF FixTypes

LEMMA DeedFailsInv == ASSUME FixInv, DeedFails PROVE FixInv'
<1>1. UNCHANGED <<jobs, hand, feedVars, tallyVars, flag, poster, touched>> /\ deed' = NoDeed
  BY DEF DeedFails
<1>2. QED
  BY <1>1, DeedInv, NoDeedType DEF FixInv, FixTypes

LEMMA RemoveInv == ASSUME FixInv, NEW p \in 1..Len(shelf), RemoveArchive(p) PROVE FixInv'
<1>1. UNCHANGED <<jobs, hand, feedVars, tallyVars, poster, touched, deed>>
      /\ flag' = [b \in Titles |-> IF b \in shelf[p] THEN "deleted" ELSE flag[b]]
  BY DEF RemoveArchive
<1>2. flag' \in [Titles -> AllFlags] /\ \A b \in Titles : flag'[b] \in {flag[b], "deleted"}
  BY <1>1 DEF FixInv, FixTypes, AllFlags
<1>3. QED
  BY <1>1, <1>2, DeedInv DEF FixInv, FixTypes
------------------------------------------------------------------------------
\* The steps of RunFixScan.
LEMMA CoversKept ==
    ASSUME Covers, UNCHANGED <<flag, poster, shown, crew, hand, touched>>,
           feeder' # "query" => feeder # "query",
           \A b \in Titles : Fresh(b)' => Fresh(b)
    PROVE  Covers'
<1>1. UNCHANGED <<flag, poster, shown, crew, hand, touched>>
  OBVIOUS
<1>2. \A b \in Titles \ touched' : flag'[b] = "yes" => b \in poster'
  BY <1>1 DEF Covers
<1>3. feeder' # "query" => \A b \in Titles \ touched' : shown'[b] = "yes" => b \in poster'
  BY <1>1 DEF Covers
<1>4. feeder' # "query" => \A b \in Titles : Fresh(b)' => flag'[b] \in {shown'[b], "deleted"}
  BY <1>1 DEF Covers
<1>5. ASSUME NEW w \in crew, hand[w].at \in {"parsed", "store"}, NEW b, b = FirstBook(hand[w].todo)
      PROVE  /\ hand[w].cover \in {shown[b], "yes"}
             /\ hand[w].cover = "yes" /\ b \notin touched => b \in poster
  BY <1>5 DEF Covers
<1>6. QED
  BY <1>1, <1>2, <1>3, <1>4, <1>5 DEF Covers, FirstBook

LEMMA FeederInv ==
    ASSUME FixInv, UNCHANGED <<flag, poster, shown, shelf, crew, fed, jobs, hand, tallyVars, deedVars>>,
           feeder' \in {"query", "feed", "wait", "late", "completed", "canceled"},
           canceled' \in BOOLEAN, canceled => canceled', feeder' # "query" => feeder # "query",
           Feeding'
    PROVE  FixInv'
<1>1. /\ UNCHANGED <<flag, poster, shown, shelf, crew, fed, jobs, hand, progress, updated, errors,
                     kept, counted, deed, deeds, touched>>
      /\ FixTypes /\ Channel /\ InHand /\ Counting /\ Coverage /\ Ledger /\ Covers
  BY DEF FixInv, tallyVars, deedVars
<1>2. (\A p : Group(p)' = Group(p)) /\ Queried' = Queried
  BY <1>1, SameGroups
<1>3. /\ \A p : Waiting(p)' = Waiting(p)
      /\ Through' = Through /\ AtWork' = AtWork
  BY <1>1 DEF Waiting, Fed, Through, AtWork
<1>4. FixTypes'
  BY <1>1 DEF FixTypes
<1>5. Channel' /\ Ledger'
  BY <1>1, <1>2, <1>3 DEF Channel, Ledger
<1>6. InHand'
  BY <1>1, <1>2, <1>3 DEF InHand
<1>7. Counting'
  BY <1>1, <1>2, <1>3 DEF Counting
<1>8. Coverage'
  BY <1>1, <1>2, <1>3 DEF Coverage
<1>9. \A b \in Titles : Fresh(b)' => Fresh(b)
  BY <1>1, <1>3 DEF Fresh, FirstBook
<1>10. Covers'
  BY <1>1, <1>9, CoversKept
<1>11. QED
  BY <1>4, <1>5, <1>6, <1>7, <1>8, <1>10 DEF FixInv

LEMMA CloseJobsInv == ASSUME FixInv, CloseJobs PROVE FixInv'
<1>1. Feeding /\ feeder = "feed"
  BY DEF FixInv, CloseJobs
<1>2. UNCHANGED <<flag, poster, shown, shelf, crew, fed, jobs, hand, canceled, tallyVars, deedVars>>
  BY DEF CloseJobs
<1>3. \/ feeder' = "wait" /\ fed = Len(shelf)
      \/ feeder' = "late" /\ canceled
  BY DEF CloseJobs
<1>4. Feeding'
  BY <1>1, <1>2, <1>3 DEF Feeding, Closed
<1>5. QED
  BY <1>1, <1>2, <1>3, <1>4, FeederInv DEF FixInv, FixTypes

LEMMA ReturnInv == ASSUME FixInv, Return PROVE FixInv'
<1>1. Feeding /\ \A w \in crew : hand[w].at = "left"
  BY DEF FixInv, Return
<1>2. UNCHANGED <<flag, poster, shown, shelf, crew, fed, jobs, hand, canceled, tallyVars, deedVars>>
  BY DEF Return
<1>3. \/ feeder = "wait" /\ feeder' = "completed"
      \/ feeder = "late" /\ feeder' = "canceled"
  BY DEF Return
<1>4. Feeding'
  BY <1>1, <1>2, <1>3 DEF Feeding, Closed
<1>5. QED
  BY <1>2, <1>3, <1>4, FeederInv DEF FixInv, FixTypes

LEMMA CancelInv == ASSUME FixInv, CancelContext PROVE FixInv'
<1>1. Feeding /\ feeder \in {"query", "feed", "wait"}
  BY DEF FixInv, CancelContext
<1>2. UNCHANGED <<flag, poster, shown, shelf, crew, fed, jobs, hand, feeder, tallyVars, deedVars>>
      /\ canceled' = TRUE
  BY DEF CancelContext
<1>3. Through' = Through
  BY <1>2 DEF Through, tallyVars
<1>4. Feeding'
  BY <1>1, <1>2, <1>3 DEF Feeding, Free
<1>5. QED
  BY <1>1, <1>2, <1>4, FeederInv

LEMMA FeedInv == ASSUME FixInv, Feed PROVE FixInv'
<1>1. /\ FixTypes /\ Channel /\ InHand /\ Counting /\ Coverage /\ Feeding /\ Ledger /\ Covers
      /\ feeder = "feed" /\ fed < Len(shelf)
      /\ UNCHANGED <<flag, poster, shown, shelf, crew, feeder, hand, canceled, progress, updated,
                     errors, kept, counted, deed, deeds, touched>>
  BY DEF FixInv, Feed, tallyVars, deedVars
<1>2. PICK p \in 1..Len(shelf) : p = fed + 1
  BY <1>1, ShelfFacts DEF FixTypes
<1>3. /\ fed' = p /\ fed \in Nat /\ jobs \in Seq(1..Len(shelf)) /\ Len(jobs) \in Nat
      /\ jobs' = IF Group(p) = {} THEN jobs ELSE Append(jobs, p)
  BY <1>1, <1>2 DEF Feed, FixTypes
<1>4. (\A q : Group(q)' = Group(q)) /\ Queried' = Queried
  BY <1>1, SameGroups
<1>5. /\ jobs' \in Seq(1..Len(shelf))
      /\ \A i \in 1..Len(jobs') : \/ i \in 1..Len(jobs) /\ jobs'[i] = jobs[i]
                                  \/ i = Len(jobs) + 1 /\ jobs'[i] = p /\ Group(p) # {}
      /\ \A i \in 1..Len(jobs) : i \in 1..Len(jobs') /\ jobs'[i] = jobs[i]
      /\ Group(p) # {} => Len(jobs) + 1 \in 1..Len(jobs') /\ jobs'[Len(jobs) + 1] = p
  <2>1. CASE Group(p) = {}
    BY <2>1, <1>3
  <2>2. CASE Group(p) # {}
    <3>1. jobs' = Append(jobs, p) /\ Len(jobs') = Len(jobs) + 1
      BY <2>2, <1>3
    <3>2. QED
      BY <3>1, <2>2, <1>2, <1>3
  <2>3. QED
    BY <2>1, <2>2
<1>6. FixTypes'
  <2>1. p \in 0..Len(shelf)
    BY <1>2, ShelfFacts, <1>1
  <2>2. QED
    BY <2>1, <1>1, <1>3, <1>5 DEF FixTypes
<1>7. ASSUME NEW i \in 1..Len(jobs) PROVE jobs[i] <= fed /\ jobs[i] # p /\ jobs[i] \in Nat
  BY <1>1, <1>2, <1>3, <1>7 DEF Channel
<1>8. Channel'
  <2>1. ASSUME NEW i \in 1..Len(jobs') PROVE jobs'[i] <= p /\ Group(jobs'[i]) # {}
    <3>1. CASE i \in 1..Len(jobs) /\ jobs'[i] = jobs[i]
      <4>1. Group(jobs[i]) # {} /\ jobs[i] <= fed /\ jobs[i] \in Nat
        BY <3>1, <1>1, <1>7 DEF Channel
      <4>2. QED
        BY <4>1, <3>1, <1>2, <1>3
    <3>2. CASE jobs'[i] = p /\ Group(p) # {}
      BY <3>2, <1>2
    <3>3. QED
      BY <3>1, <3>2, <2>1, <1>5
  <2>2. ASSUME NEW i \in 1..Len(jobs'), NEW j \in 1..Len(jobs'), jobs'[i] = jobs'[j] PROVE i = j
    BY <2>2, <1>1, <1>5, <1>7 DEF Channel
  <2>3. QED
    BY <2>1, <2>2, <1>3, <1>4 DEF Channel
<1>9. ASSUME NEW q \in 1..Len(shelf)
      PROVE  /\ Waiting(q)' => Waiting(q)
             /\ Waiting(q) /\ Group(q) # {} => Waiting(q)'
  <2>1. Fed(q) => Fed(q)'
    BY <1>5 DEF Fed
  <2>2. Fed(q)' => Fed(q) \/ q = p
    BY <1>5 DEF Fed
  <2>3. Group(p) # {} => Fed(p)'
    BY <1>5 DEF Fed
  <2>4. fed < q <=> p < q \/ q = p
    BY <1>2, <1>3
  <2>5. QED
    BY <2>1, <2>2, <2>3, <2>4, <1>3 DEF Waiting
<1>10. InHand'
  <2>1. ASSUME NEW w \in crew, hand[w].todo # {}
        PROVE  \E q \in 1..Len(shelf) : hand[w].todo \subseteq Group(q) /\ ~Waiting(q)'
    BY <2>1, <1>1, <1>9 DEF InHand
  <2>2. QED
    BY <2>1, <1>1, <1>4 DEF InHand
<1>11. Through' = Through /\ AtWork' = AtWork /\ Closed' = Closed
  BY <1>1 DEF Through, AtWork, Closed
<1>12. Counting'
  BY <1>1, <1>4, <1>9, <1>11 DEF Counting
<1>13. Coverage'
  BY <1>1, <1>4, <1>9, <1>11 DEF Coverage
<1>14. Feeding' /\ Ledger'
  BY <1>1, <1>11 DEF Feeding, Ledger, Closed
<1>15. \A b \in Titles : Fresh(b)' => Fresh(b)
  BY <1>1, <1>11 DEF Fresh, FirstBook
<1>16. Covers'
  BY <1>1, <1>15, CoversKept
<1>17. QED
  BY <1>6, <1>8, <1>10, <1>12, <1>13, <1>14, <1>16 DEF FixInv

LEMMA ListInv == ASSUME FixInv, ListBooks PROVE FixInv'
<1>1. /\ FixTypes /\ Ledger /\ Feeding /\ feeder = "query" /\ shown' = flag /\ feeder' = "feed"
      /\ touched' = {b \in Titles : b = deed.on \/ (flag[b] = "yes" /\ b \notin poster)}
      /\ UNCHANGED <<flag, poster, shelf, crew, fed, jobs, hand, canceled, progress, updated,
                     errors, kept, counted, deed, deeds>>
  BY DEF FixInv, ListBooks, tallyVars
<1>2. /\ fed = 0 /\ jobs = <<>> /\ Through = {}
      /\ \A w \in crew : hand[w].at = "take" /\ hand[w].todo = {}
  BY <1>1 DEF Feeding, Free, Hand
<1>3. Through' = {} /\ AtWork' = AtWork
  BY <1>1, <1>2 DEF Through, AtWork
<1>4. FixTypes'
  BY <1>1 DEF FixTypes
<1>5. Channel'
  BY <1>1, <1>2 DEF Channel
<1>6. InHand'
  BY <1>1, <1>2 DEF InHand
<1>7. Counting'
  <2>1. progress = Cardinality(Through) /\ \A b \in Titles : counted[b] <= 1
    BY DEF FixInv, Counting
  <2>2. QED
    BY <2>1, <1>1, <1>2, <1>3, FS_EmptySet DEF Counting
<1>8. Coverage'
  <2>1. ASSUME NEW p \in 1..Len(shelf) PROVE Waiting(p)'
    BY <1>1, <1>2 DEF Waiting
  <2>2. QED
    BY <2>1, <1>1 DEF Coverage
<1>9. Feeding' /\ Ledger'
  BY <1>1, <1>2, <1>3 DEF Feeding, Ledger
<1>10. Covers'
  BY <1>1, <1>2 DEF Covers
<1>11. QED
  BY <1>4, <1>5, <1>6, <1>7, <1>8, <1>9, <1>10 DEF FixInv

LEMMA FixScanInitInv == ASSUME FixScanInit PROVE FixInv
<1>1. /\ \E s \in Setups : shelf = s.shelf /\ crew = s.crew
      /\ \A w \in Hands : hand[w] = Free
      /\ hand \in [Hands -> [at : Stations, todo : SUBSET Titles, cover : AllFlags]]
  BY DEF FixScanInit, Free, Hand, Stations, AllFlags, Flags
<1>2. Len(shelf) \in Nat
  BY <1>1, FixScanAssumption
<1>3. FixTypes
  <2>1. jobs \in Seq(1..Len(shelf)) /\ fed \in 0..Len(shelf) /\ MaxErrors \in Nat
    BY <1>2, FixScanAssumption DEF FixScanInit
  <2>2. flag \in [Titles -> AllFlags] /\ shown \in [Titles -> AllFlags]
    BY DEF FixScanInit, AllFlags, Flags
  <2>3. QED
    BY <1>1, <2>1, <2>2, NoDeedType DEF FixScanInit, FixTypes
<1>4. crew \subseteq Hands
  BY <1>3, ShelfFacts
<1>5. \A w \in crew : hand[w].at = "take" /\ hand[w].todo = {} /\ hand[w] = Free
  BY <1>1, <1>4 DEF Free, Hand
<1>6. /\ fed = 0 /\ jobs = <<>> /\ counted = [b \in Titles |-> 0] /\ feeder = "query"
      /\ progress = 0 /\ updated = 0 /\ errors = 0 /\ kept = 0 /\ touched = {}
      /\ flag = [b \in Titles |-> IF b \in Marked THEN "yes" ELSE "no"] /\ poster = Marked
  BY DEF FixScanInit
<1>7. Through = {} /\ AtWork = {}
  BY <1>5, <1>6 DEF Through, AtWork
<1>8. Channel /\ InHand
  BY <1>5, <1>6 DEF Channel, InHand
<1>9. Counting
  BY <1>6, <1>7, FS_EmptySet DEF Counting
<1>10. Coverage
  BY <1>6 DEF Coverage, Waiting
<1>11. Feeding
  BY <1>5, <1>6, <1>7 DEF Feeding
<1>12. Ledger
  BY <1>6, <1>7, FS_EmptySet, FixScanAssumption DEF Ledger
<1>13. Covers
  BY <1>5, <1>6 DEF Covers
<1>14. QED
  BY <1>3, <1>8, <1>9, <1>10, <1>11, <1>12, <1>13 DEF FixInv

LEMMA FixScanNextInv == ASSUME FixInv, [FixScanNext]_fixScanVars PROVE FixInv'
<1>1. CASE UNCHANGED fixScanVars
  <2>1. UNCHANGED <<jobs, hand, feedVars, tallyVars, flag, poster, touched, deed>>
    BY <1>1 DEF fixScanVars, feedVars, tallyVars
  <2>2. QED
    BY <2>1, DeedInv DEF FixInv, FixTypes
<1>2. ASSUME NEW w \in crew, Worker(w) PROVE FixInv'
  BY <1>2, TakeInv, LeaveInv, BrokenInv, CloseArchiveInv, ParseInv, ParseFailsInv,
     SaveCoverInv, StoreInv, StoreFailsInv, BookDoneInv DEF Worker
<1>3. ASSUME FixScanNext PROVE FixInv'
  BY <1>2, <1>3, ListInv, FeedInv, CloseJobsInv, ReturnInv, CancelInv, FindInv, RemoveInv,
     PosterInv, FlagInv, DeedFailsInv DEF FixScanNext
<1>4. QED
  BY <1>1, <1>3

LEMMA FixScanInvariant == FixScanSpec => []FixInv
<1>1. FixScanInit => FixInv
  BY FixScanInitInv
<1>2. FixInv /\ [FixScanNext]_fixScanVars => FixInv'
  BY FixScanNextInv
<1>3. QED
  BY <1>1, <1>2, PTL DEF FixScanSpec

\* However many workers and archives: a fix scan loses no book and counts none
\* twice, its counters add up and its report is bounded, and a book whose row
\* says so has its picture.  (RunFixScan, UploadBookCover.)
THEOREM FixScanSafety == FixScanSpec => []FixScanHolds
<1>1. ASSUME FixInv PROVE Accounted
  <2>1. FixTypes /\ Counting /\ Coverage /\ Feeding /\ Ledger /\ InHand
    BY <1>1 DEF FixInv
  <2>2. ASSUME feeder = "completed", ~canceled PROVE progress = Cardinality(Queried)
    <3>1. PICK w \in crew : hand[w].at = "left"
      BY <2>1, <2>2, ShelfFacts DEF Feeding
    <3>2. jobs = <<>> /\ fed = Len(shelf) /\ \A v \in crew : hand[v].todo = {}
      BY <2>1, <2>2, <3>1 DEF Feeding, InHand
    <3>3. \A p \in 1..Len(shelf) : ~Waiting(p)
      BY <2>1, <3>2, ShelfFacts DEF Waiting, Fed
    <3>4. Queried \subseteq Through
      BY <2>1, <2>2, <3>2, <3>3, GroupFacts DEF Coverage
    <3>5. QED
      BY <2>1, <3>4 DEF Counting
  <2>3. QED
    BY <2>1, <2>2 DEF Accounted, Counting, Feeding, Ledger
<1>2. FixInv => CoverIsThere
  BY DEF FixInv, Covers, CoverIsThere
<1>3. FixInv => FixScanHolds
  BY <1>1, <1>2 DEF FixScanHolds
<1>4. QED
  BY <1>3, FixScanInvariant, PTL

\* A fix scan never takes a cover flag away from a book that no administrator
\* has touched since the query.  (processBook: "never downgrade".)
THEOREM CoverSafety == FixScanSpec => CoverKept
<1>1. ASSUME FixInv, [FixScanNext]_fixScanVars
      PROVE  [\A b \in Titles \ touched : flag[b] = "yes" => flag'[b] # "no"]_fixScanVars
  <2> SUFFICES ASSUME FixScanNext, NEW b \in Titles \ touched, flag[b] = "yes"
               PROVE  flag'[b] # "no"
    BY <1>1
  <2>1. FixTypes /\ Covers
    BY <1>1 DEF FixInv
  <2>2. CASE flag' = flag
    BY <2>2
  <2>3. ASSUME NEW w \in crew, StoreBook(w) PROVE flag'[b] # "no"
    <3>1. PICK c \in Titles : c = FirstBook(hand[w].todo)
      BY <1>1, <2>3, AtBook DEF StoreBook
    <3>2. feeder # "query" /\ hand[w].at = "store"
          /\ hand[w].todo \in SUBSET Titles /\ c \in hand[w].todo
      BY <1>1, <2>3, <3>1, AtBook DEF StoreBook
    <3>3. flag' = IF flag[c] = "deleted" THEN flag ELSE [flag EXCEPT ![c] = hand[w].cover]
      BY <2>3, <3>1 DEF StoreBook
    <3>4. CASE b # c
      BY <2>1, <3>3, <3>4 DEF FixTypes
    <3>5. CASE b = c
      <4>1. ASSUME NEW v \in crew, hand[v].at = "count" PROVE b # FirstBook(hand[v].todo)
        <5>1. v # w /\ FirstBook(hand[v].todo) \in hand[v].todo
          BY <3>2, <4>1, <1>1, AtBook
        <5>2. hand[w].todo \cap hand[v].todo = {}
          BY <5>1, <1>1 DEF FixInv, InHand
        <5>3. QED
          BY <5>1, <5>2, <3>2, <3>5
      <4>2. b \notin Through
        BY <3>2, <3>5, <1>1 DEF FixInv, Counting
      <4>3. flag[b] \in {shown[b], "deleted"}
        BY <2>1, <3>2, <4>1, <4>2 DEF Covers, Fresh
      <4>4. hand[w].cover \in {shown[b], "yes"}
        BY <2>1, <3>1, <3>2, <3>5 DEF Covers
      <4>5. QED
        BY <4>3, <4>4, <3>3, <3>5, <2>1 DEF FixTypes
    <3>6. QED
      BY <3>4, <3>5
  <2>4. ASSUME PutFlag PROVE flag'[b] # "no"
    BY <2>1, <2>4 DEF PutFlag, FixTypes
  <2>5. ASSUME NEW p \in 1..Len(shelf), RemoveArchive(p) PROVE flag'[b] # "no"
    BY <2>5 DEF RemoveArchive
  <2>6. ASSUME NEW w \in crew, Worker(w) PROVE flag'[b] # "no"
    BY <2>2, <2>3, <2>6 DEF Worker, TakeArchive, LeavePool, BrokenBook, CloseArchive, ParseBook,
       ParseFails, Abandon, SaveCover, StoreFails, BookDone
  <2>7. QED
    BY <2>2, <2>4, <2>5, <2>6 DEF FixScanNext, ListBooks, Feed, CloseJobs, Return, CancelContext,
       FindBook, PutPoster, DeedFails
<1>2. QED
  BY <1>1, FixScanInvariant, PTL DEF FixScanSpec, CoverKept

------------------------------------------------------------------------------
(* Curated: any number of items, books and resolutions.                    *)

\* Before the collection there is nothing.
NotBegun == status = "none" =>
    /\ tally = Zero
    /\ \A i \in Items : item[i].match = "absent"
    /\ \A k \in Keys : latest[k] = 0
    /\ \A a \in Actors : doing[a] = "idle" /\ todo[a] = {}

\* The import works on the collection it began, or on none; what it has not
\* reached is not there yet, and its counters count what it has.
ImportGoesOn ==
    /\ import.at # "idle" => status \in {"importing", "deleted"}
    /\ import.at \in {"save", "report"} => import.n <= N
    /\ import.at = "save" => import.res.match # "absent"
    /\ import.at \in {"match", "save", "report"} =>
        /\ \A i \in Items : i >= import.n => item[i].match = "absent"
        /\ tally.matched < import.n /\ tally.ambiguous < import.n /\ tally.notFound < import.n

\* An administrator resolves one item; the rest are loops, two kinds of which
\* write the counters.
Loops == {"resolve_ambiguous", "search_not_found"}
ModesFit == \A a \in Actors :
    /\ doing[a] \in {"base", "start", "report"} => mode[a] \in Loops
    /\ doing[a] \in {"list", "next"} => mode[a] # "admin"

\* What is about to be resolved has been imported.
OfImported == Exists => \A a \in Actors :
    /\ doing[a] = "item" => item[pick[a].item].match # "absent"
    /\ \A e \in todo[a] : item[e.item].match # "absent"

\* The last resolution of a pair is of one of its items; until its decision is
\* kept, whoever made it has the item's book.
LastOfPair == \A k \in Keys : latest[k] # 0 =>
    /\ Key[latest[k]] = k /\ item[latest[k]].match # "absent"
Deciding == \A a \in Actors : doing[a] = "decide" /\ PickKey(a) \notin mixed =>
    /\ latest[PickKey(a)] # 0 => item[latest[PickKey(a)]].book = pick[a].book
    /\ \A o \in Actors \ {a} : doing[o] = "decide" => PickKey(o) # PickKey(a)

\* A loop that began after the import has its counters.
BasesHold == ~early /\ Exists => \A a \in Actors :
    doing[a] \in {"start", "next", "item", "decide", "report"} /\ mode[a] \in Loops =>
        status \in {"completed", "failed"} /\ base[a].counts = tally

CuratedInv ==
    /\ CuratedTypeOK /\ NotBegun /\ ImportGoesOn /\ ModesFit /\ OfImported
    /\ LastOfPair /\ Deciding /\ BasesHold
    /\ RunningIsLive /\ ImportingIsLive /\ CountsSurvive /\ CacheFollows

------------------------------------------------------------------------------
\* Candidates, and the best of some.
LEMMA CandFacts ==
    /\ AllCands \subseteq [book : Volumes, score : Low..High]
    /\ \A k \in Keys : Found[k] \subseteq AllCands
    /\ Volumes \subseteq Nat \ {0} /\ IsFiniteSet(Volumes)
BY CuratedAssumption DEF AllCands, NoBook

LEMMA BestIn ==
    ASSUME NEW cands \in SUBSET AllCands, cands # {}
    PROVE  Best(cands) \in cands
<1>1. \A c \in cands : c.score \in {0, 1, 2}
  BY CandFacts DEF Low, High
<1>2. \E c \in cands : \A d \in cands : d.score <= c.score
  <2>1. CASE \E c \in cands : c.score = 2
    BY <1>1, <2>1
  <2>2. CASE \E c \in cands : c.score = 1 /\ \A d \in cands : d.score # 2
    BY <1>1, <2>2
  <2>3. CASE \A c \in cands : c.score = 0
    BY <1>1, <2>3
  <2>4. QED
    BY <1>1, <2>1, <2>2, <2>3
<1>3. QED
  BY <1>2 DEF Best

LEMMA TargetIn ==
    ASSUME NEW cands \in SUBSET AllCands, cands # {}
    PROVE  Target(cands) \in Volumes
<1> DEFINE tied == {c.book : c \in {d \in cands : d.score = Best(cands).score}}
<1>1. tied \subseteq Volumes /\ tied # {}
  BY CandFacts, BestIn
<1>2. IsFiniteSet(tied) /\ tied \in SUBSET Nat
  BY <1>1, CandFacts, FS_Subset
<1>3. \E b \in tied : \A o \in tied : o <= b
  <2> HIDE DEF tied
  <2>1. QED
    BY <1>1, <1>2, Greatest
<1>4. QED
  BY <1>1, <1>3 DEF Target

LEMMA StatsType ==
    ASSUME CuratedTypeOK
    PROVE  /\ Stats(tally, FALSE) \in AllStats
           /\ \A a \in Actors : \A b \in BOOLEAN : Stats(base[a].counts, b) \in AllStats
BY DEF CuratedTypeOK, Stats, AllStats

LEMMA MatchOneIn ==
    ASSUME CuratedTypeOK, NEW k \in Keys
    PROVE  MatchOne(k) \in Rows /\ MatchOne(k).match # "absent"
<1>1. Meaningful(k) \in SUBSET AllCands
  BY CandFacts DEF Meaningful
<1>2. cache[k] \in Volumes \cup {NoBook}
  BY DEF CuratedTypeOK
<1>3. Meaningful(k) # {} => Best(Meaningful(k)).book \in Volumes
  BY <1>1, BestIn, CandFacts
<1>4. QED
  BY <1>1, <1>2, <1>3 DEF MatchOne, Row, Rows, Matches

\* What the loops may answer.
LEMMA AnswersIn ==
    ASSUME CuratedTypeOK, NEW a \in Actors, NEW cands \in SUBSET AllCands,
           mode[a] = "search_not_found" \/ cands # {},
           NEW r \in Answers(a, cands)
    PROVE  r \in Rows
<1>1. CASE mode[a] = "auto"
  BY <1>1, TargetIn DEF Answers, Row, Rows, Matches
<1>2. CASE mode[a] = "resolve_ambiguous"
  BY <1>2, CandFacts DEF Answers, Row, Rows, Matches, NoBook
<1>3. CASE mode[a] \notin {"auto", "resolve_ambiguous"}
  BY <1>3, MatchOneIn DEF Answers, Row, Rows, Matches, NoBook
<1>4. QED
  BY <1>1, <1>2, <1>3

------------------------------------------------------------------------------
\* The steps of the import.
LEMMA StartImportInv == ASSUME CuratedInv, StartImport PROVE CuratedInv'
<1>1. /\ CuratedTypeOK /\ NotBegun /\ RunningIsLive /\ CacheFollows
      /\ status = "none" /\ status' = "importing"
      /\ import' = [at |-> "match", n |-> 1, res |-> NoItem]
      /\ UNCHANGED <<stats, item, cache, tally, doing, mode, todo, base, pick, starts, cut, early,
                     latest, mixed>>
  BY DEF CuratedInv, StartImport, loopVars, curatedNotes, Importer
<1>2. /\ tally = Zero /\ \A i \in Items : item[i].match = "absent"
      /\ \A a \in Actors : doing[a] = "idle" /\ todo[a] = {}
      /\ \A k \in Keys : latest[k] = 0
  BY <1>1 DEF NotBegun
<1>3. N \in Nat \ {0} /\ NoItem \in Rows
  BY CuratedAssumption DEF NoItem, Row, Rows, Matches
<1>4. CuratedTypeOK'
  BY <1>1, <1>3 DEF CuratedTypeOK
<1>5. NotBegun' /\ ImportGoesOn'
  BY <1>1, <1>2, <1>3 DEF NotBegun, ImportGoesOn, Items, Zero, Counts
<1>6. (ModesFit /\ OfImported /\ LastOfPair /\ Deciding /\ BasesHold)'
  BY <1>1, <1>2 DEF ModesFit, OfImported, LastOfPair, Deciding, BasesHold
<1>7. (RunningIsLive /\ ImportingIsLive /\ CountsSurvive /\ CacheFollows)'
  BY <1>1, <1>2 DEF RunningIsLive, ImportingIsLive, CountsSurvive, CacheFollows
<1>8. QED
  BY <1>4, <1>5, <1>6, <1>7 DEF CuratedInv

\* The import moves and writes nothing.
LEMMA ImportMoves ==
    ASSUME CuratedInv, UNCHANGED <<rowVars, tally, loopVars, starts, curatedNotes>>,
           import.at # "idle", import'.at # "idle", CuratedTypeOK', ImportGoesOn'
    PROVE  CuratedInv'
<1>1. UNCHANGED <<status, stats, item, cache, tally, doing, mode, todo, base, pick, starts, cut,
                  early, latest, mixed>>
  BY DEF rowVars, loopVars, curatedNotes
<1>2. NotBegun' /\ ModesFit' /\ OfImported' /\ LastOfPair'
  BY <1>1 DEF CuratedInv, NotBegun, ModesFit, OfImported, Exists, LastOfPair
<1>3. Deciding' /\ BasesHold'
  BY <1>1 DEF CuratedInv, Deciding, PickKey, BasesHold, Exists
<1>4. (RunningIsLive /\ ImportingIsLive /\ CountsSurvive /\ CacheFollows)'
  BY <1>1 DEF CuratedInv, RunningIsLive, ImportingIsLive, CountsSurvive, CacheFollows, PickKey
<1>5. QED
  BY <1>2, <1>3, <1>4 DEF CuratedInv

LEMMA MatchInv == ASSUME CuratedInv, Match PROVE CuratedInv'
<1>1. /\ CuratedTypeOK /\ ImportGoesOn /\ import.at = "match"
      /\ UNCHANGED <<rowVars, tally, loopVars, starts, curatedNotes>>
      /\ UNCHANGED <<status, stats, item, cache, tally, doing, mode, todo, base, pick, starts, cut,
                     early, latest, mixed>>
  BY DEF CuratedInv, Match, rowVars, loopVars, curatedNotes
<1>2. N \in Nat \ {0} /\ NoItem \in Rows /\ import.n \in 1..(N + 1)
  BY <1>1, CuratedAssumption DEF NoItem, Row, Rows, Matches, CuratedTypeOK
<1>3. PICK place \in {"save", "done"}, r \in Rows :
         /\ import' = [at |-> place, n |-> import.n, res |-> r]
         /\ place = "save" => import.n <= N /\ r.match # "absent"
  <2>1. CASE import.n > N
    BY <2>1, <1>2 DEF Match, Importer
  <2>2. CASE ~(import.n > N)
    <3>1. Key[import.n] \in Keys
      BY <2>2, <1>2, CuratedAssumption DEF Items
    <3>2. QED
      BY <2>2, <3>1, <1>1, <1>2, MatchOneIn DEF Match, Importer
  <2>3. QED
    BY <2>1, <2>2
<1>4. CuratedTypeOK'
  BY <1>1, <1>2, <1>3 DEF CuratedTypeOK
<1>5. ImportGoesOn'
  BY <1>1, <1>2, <1>3 DEF ImportGoesOn
<1>6. QED
  BY <1>1, <1>3, <1>4, <1>5, ImportMoves

LEMMA MatchOrSaveFailsInv == ASSUME CuratedInv, MatchOrSaveFails PROVE CuratedInv'
<1>1. /\ CuratedTypeOK /\ ImportGoesOn /\ import.at \in {"match", "save"}
      /\ import' = [at |-> "failed", n |-> import.n, res |-> NoItem]
      /\ UNCHANGED <<rowVars, tally, loopVars, starts, curatedNotes>>
      /\ UNCHANGED <<status, stats, item, cache, tally, doing, mode, todo, base, pick, starts, cut,
                     early, latest, mixed>>
  BY DEF CuratedInv, MatchOrSaveFails, rowVars, loopVars, curatedNotes, Importer
<1>2. NoItem \in Rows
  BY DEF NoItem, Row, Rows, Matches
<1>3. CuratedTypeOK'
  BY <1>1, <1>2 DEF CuratedTypeOK
<1>4. ImportGoesOn'
  BY <1>1 DEF ImportGoesOn
<1>5. QED
  BY <1>1, <1>3, <1>4, ImportMoves
LEMMA SaveInv == ASSUME CuratedInv, Save PROVE CuratedInv'
<1>1. /\ CuratedTypeOK /\ ImportGoesOn /\ ImportingIsLive /\ CountsSurvive /\ CacheFollows
      /\ import.at = "save" /\ Exists
      /\ UNCHANGED <<status, stats, cache, doing, mode, todo, base, pick, starts, cut, early,
                     latest, mixed>>
  BY DEF CuratedInv, Save, loopVars, curatedNotes
<1>2. N \in Nat \ {0} /\ NoItem \in Rows /\ import.n \in 1..N /\ import.res \in Rows
      /\ import.res.match # "absent"
  BY <1>1, CuratedAssumption DEF NoItem, Row, Rows, Matches, CuratedTypeOK, ImportGoesOn
<1>3. PICK n \in Items : n = import.n
  BY <1>2 DEF Items
<1>4. /\ item' = [item EXCEPT ![n] = import.res]
      /\ tally' = Counted(tally, import.res.match, n)
      /\ \E place \in {"report", "match"} :
            /\ import' = [at |-> place, n |-> n + 1, res |-> NoItem]
            /\ place = "report" => n + 1 <= N
  BY <1>1, <1>2, <1>3 DEF Save, Importer, CuratedTypeOK
<1>5. /\ item[n].match = "absent" /\ \A i \in Items : i >= n => item[i].match = "absent"
      /\ tally.matched < n /\ tally.ambiguous < n /\ tally.notFound < n
  BY <1>1, <1>2, <1>3 DEF ImportGoesOn, Items
<1>6. /\ tally' \in AllCounts
      /\ tally'.matched < n + 1 /\ tally'.ambiguous < n + 1 /\ tally'.notFound < n + 1
  <2>1. tally \in AllCounts
    BY <1>1 DEF CuratedTypeOK
  <2>2. QED
    BY <2>1, <1>2, <1>3, <1>4, <1>5 DEF AllCounts, Counted, Counts
<1>7. CuratedTypeOK'
  BY <1>1, <1>2, <1>3, <1>4, <1>6 DEF CuratedTypeOK
<1>8. /\ item'[n] = import.res
      /\ \A i \in Items \ {n} : item'[i] = item[i]
  BY <1>1, <1>3, <1>4 DEF CuratedTypeOK
<1>9. status = "importing" /\ status # "none" /\ status # "deleted"
  BY <1>1 DEF ImportGoesOn, Exists
<1>10. NotBegun' /\ ModesFit' /\ (RunningIsLive /\ ImportingIsLive /\ CountsSurvive)'
  BY <1>1, <1>4, <1>9 DEF CuratedInv, NotBegun, ModesFit, RunningIsLive, ImportingIsLive, CountsSurvive
<1>11. ImportGoesOn'
  BY <1>1, <1>3, <1>4, <1>5, <1>6, <1>8, <1>9 DEF ImportGoesOn, Items
<1>12. \A i \in Items : item[i].match # "absent" => item'[i] = item[i]
  BY <1>5, <1>8
<1>13. \A k \in Keys : latest[k] # 0 => item'[latest[k]] = item[latest[k]]
  <2>1. \A k \in Keys : latest[k] # 0 => latest[k] \in Items
    BY <1>1, <1>2 DEF CuratedTypeOK, Items
  <2>2. \A k \in Keys : latest[k] # 0 => item[latest[k]].match # "absent"
    BY DEF CuratedInv, LastOfPair
  <2>3. QED
    BY <1>12, <2>1, <2>2
<1>14. LastOfPair' /\ CacheFollows'
  BY <1>1, <1>13 DEF CuratedInv, LastOfPair, CacheFollows, PickKey
<1>15. Deciding'
  <2>1. \A a \in Actors : PickKey(a) \in Keys /\ PickKey(a)' = PickKey(a)
    BY <1>1, CuratedAssumption DEF CuratedTypeOK, PickKey
  <2>2. QED
    BY <1>1, <1>13, <2>1 DEF CuratedInv, Deciding
<1>16. OfImported'
  <2>1. \A a \in Actors : pick[a].item \in Items /\ \A e \in todo[a] : e.item \in Items
    BY <1>1 DEF CuratedTypeOK
  <2>2. QED
    BY <1>1, <1>12, <2>1 DEF CuratedInv, OfImported, Exists
<1>17. BasesHold'
  BY <1>1, <1>9 DEF CuratedInv, BasesHold, Exists
<1>18. QED
  BY <1>7, <1>10, <1>11, <1>14, <1>15, <1>16, <1>17 DEF CuratedInv

\* The import writes the collection's row, or does not.
LEMMA WriteInv ==
    ASSUME CuratedInv, UNCHANGED <<item, cache, tally, loopVars, starts, early, latest, mixed>>,
           import.at \in {"report", "done", "failed"}, CuratedTypeOK', ImportGoesOn',
           NEW written \in {"importing", "completed", "failed"},
           \/ Exists /\ status' = written /\ stats' = Stats(tally, FALSE)
           \/ UNCHANGED <<status, stats>>,
           written = "importing" => import'.at # "idle",
           cut => cut', cut' \/ import'.at # "idle" \/ status' = "deleted" \/ (Exists /\ status' = written)
    PROVE  CuratedInv'
<1>1. /\ CuratedTypeOK /\ ImportGoesOn
      /\ UNCHANGED <<item, cache, tally, doing, mode, todo, base, pick, starts, early, latest, mixed>>
  BY DEF CuratedInv, loopVars
<1>2. status \in {"importing", "deleted"} /\ (status' # status => status = "importing")
  BY <1>1 DEF ImportGoesOn, Exists
<1>3. Exists' = Exists /\ status' # "none"
  BY <1>2 DEF Exists
<1>4. NotBegun' /\ ModesFit' /\ OfImported' /\ LastOfPair'
  BY <1>1, <1>3 DEF CuratedInv, NotBegun, ModesFit, OfImported, LastOfPair
<1>5. Deciding' /\ CacheFollows'
  BY <1>1 DEF CuratedInv, Deciding, PickKey, CacheFollows
<1>6. BasesHold'
  BY <1>1, <1>2, <1>3 DEF CuratedInv, BasesHold
<1>7. RunningIsLive'
  <2>1. stats' = stats \/ ~stats'.running
    BY DEF Stats
  <2>2. QED
    BY <1>1, <1>2, <2>1 DEF CuratedInv, RunningIsLive
<1>8. ImportingIsLive'
  BY <1>1, <1>2 DEF CuratedInv, ImportingIsLive
<1>9. CountsSurvive'
  BY <1>1, <1>2 DEF CuratedInv, CountsSurvive, Stats
<1>10. QED
  BY <1>4, <1>5, <1>6, <1>7, <1>8, <1>9 DEF CuratedInv

LEMMA ReportInv == ASSUME CuratedInv, Report PROVE CuratedInv'
<1>1. /\ CuratedTypeOK /\ ImportGoesOn /\ import.at = "report"
      /\ import' = [at |-> "match", n |-> import.n, res |-> NoItem]
      /\ UNCHANGED <<item, cache, tally, loopVars, starts, cut, early, latest, mixed>>
      /\ UNCHANGED <<doing, mode, todo, base, pick>>
      /\ \/ Exists /\ status' = "importing" /\ stats' = Stats(tally, FALSE)
         \/ UNCHANGED <<status, stats>>
  BY DEF CuratedInv, Report, Importer, WriteStatus, WriteStats, loopVars, curatedNotes
<1>2. NoItem \in Rows
  BY DEF NoItem, Row, Rows, Matches
<1>3. CuratedTypeOK'
  BY <1>1, <1>2, StatsType DEF CuratedTypeOK
<1>4. ImportGoesOn'
  BY <1>1 DEF ImportGoesOn, Exists
<1>5. QED
  BY <1>1, <1>3, <1>4, WriteInv

LEMMA FinishInv == ASSUME CuratedInv, Finish PROVE CuratedInv'
<1>1. /\ CuratedTypeOK /\ ImportGoesOn /\ import.at \in {"done", "failed"}
      /\ import' = [at |-> "idle", n |-> 1, res |-> NoItem]
      /\ UNCHANGED <<item, cache, tally, loopVars, starts, early, latest, mixed>>
      /\ UNCHANGED <<doing, mode, todo, base, pick>>
  BY DEF CuratedInv, Finish, Importer, loopVars
<1>2. PICK written \in {"completed", "failed"} :
         \/ Exists /\ status' = written /\ stats' = Stats(tally, FALSE) /\ cut' = cut
         \/ ~Exists /\ UNCHANGED <<status, stats, cut>>
         \/ cut' = TRUE /\ UNCHANGED <<status, stats>>
  BY DEF Finish, WriteStatus, WriteStats
<1>3. NoItem \in Rows /\ N \in Nat
  BY CuratedAssumption DEF NoItem, Row, Rows, Matches
<1>4. CuratedTypeOK'
  <2>1. status' \in {"none", "importing", "completed", "failed", "deleted"} /\ stats' \in AllStats
    BY <1>1, <1>2, StatsType DEF CuratedTypeOK
  <2>2. cut' \in BOOLEAN
    BY <1>1, <1>2, Zenon DEF CuratedTypeOK
  <2>3. QED
    BY <1>1, <1>3, <2>1, <2>2 DEF CuratedTypeOK
<1>5. ImportGoesOn'
  BY <1>1 DEF ImportGoesOn
<1>6. ~Exists => status = "deleted"
  BY <1>1 DEF ImportGoesOn, Exists
<1>7. CASE UNCHANGED <<status, stats>> /\ (cut' = TRUE \/ (~Exists /\ cut' = cut))
  <2>1. (cut => cut') /\ (cut' \/ status' = "deleted")
    BY <1>6, <1>7
  <2>2. QED
    BY <1>1, <1>4, <1>5, <1>7, <2>1, WriteInv
<1>8. CASE Exists /\ status' = written /\ stats' = Stats(tally, FALSE) /\ cut' = cut
  BY <1>1, <1>4, <1>5, <1>8, WriteInv
<1>9. QED
  BY <1>2, <1>7, <1>8
------------------------------------------------------------------------------
\* The steps of a resolution.
LEMMA StartResolutionInv ==
    ASSUME CuratedInv, NEW a \in Actors, NEW m \in Modes, Start(a, m)
    PROVE  CuratedInv'
<1>1. /\ CuratedTypeOK /\ doing[a] = "idle" /\ Exists
      /\ mode' = [mode EXCEPT ![a] = m] /\ starts' = starts + 1 /\ starts < MaxStarts
      /\ UNCHANGED <<status, stats, item, cache, import, tally, todo, base, cut, early, latest, mixed>>
  BY DEF CuratedInv, Start, rowVars, curatedNotes
<1>2. PICK place \in {"item", "list"}, q \in [item : Items, book : Volumes \cup {NoBook}] :
         /\ doing' = [doing EXCEPT ![a] = place] /\ pick' = [pick EXCEPT ![a] = q]
         /\ place = "item" => m = "admin" /\ item[q.item].match # "absent"
         /\ place = "list" => m # "admin"
  <2>1. CASE m = "admin"
    <3>1. PICK i \in Items, b \in Volumes : item[i].match # "absent"
                                           /\ pick' = [pick EXCEPT ![a] = Pick(i, b)]
      BY <2>1 DEF Start
    <3>2. QED
      BY <2>1, <3>1 DEF Start, Turn, Pick
  <2>2. CASE m # "admin"
    <3>1. pick[a] \in [item : Items, book : Volumes \cup {NoBook}]
          /\ pick' = [pick EXCEPT ![a] = pick[a]] /\ doing' = [doing EXCEPT ![a] = "list"]
      BY <2>2, <1>1 DEF Start, Turn, CuratedTypeOK
    <3>2. QED
      BY <2>2, <3>1
  <2>3. QED
    BY <2>1, <2>2
<1>3. CuratedTypeOK'
  BY <1>1, <1>2, CuratedAssumption DEF CuratedTypeOK, ActorPlaces
<1>4. /\ doing'[a] \in {"item", "list"} /\ mode'[a] = m
      /\ doing'[a] = "list" => m # "admin"
      /\ doing'[a] = "item" => m = "admin" /\ item[pick'[a].item].match # "absent"
      /\ \A o \in Actors \ {a} : doing'[o] = doing[o] /\ mode'[o] = mode[o] /\ pick'[o] = pick[o]
  BY <1>1, <1>2 DEF CuratedTypeOK
<1>5. \A o \in Actors : doing'[o] = "decide" => o # a /\ doing[o] = "decide" /\ PickKey(o)' = PickKey(o)
  BY <1>4 DEF PickKey
<1>6. NotBegun' /\ ImportGoesOn' /\ LastOfPair' /\ ImportingIsLive' /\ CountsSurvive'
  BY <1>1 DEF CuratedInv, NotBegun, ImportGoesOn, LastOfPair, ImportingIsLive, CountsSurvive, Exists
<1>7. ModesFit' /\ BasesHold'
  <2>1. ModesFit'
    BY <1>4 DEF CuratedInv, ModesFit
  <2>2. BasesHold'
    BY <1>1, <1>4 DEF CuratedInv, BasesHold, Exists, Loops
  <2>3. QED
    BY <2>1, <2>2
<1>12. OfImported'
  BY <1>1, <1>4 DEF CuratedInv, OfImported, Exists
<1>8. RunningIsLive'
  BY <1>1, <1>4 DEF CuratedInv, RunningIsLive
<1>9. Deciding'
  BY <1>1, <1>4, <1>5 DEF CuratedInv, Deciding
<1>10. CacheFollows'
  BY <1>1, <1>4, <1>5 DEF CuratedInv, CacheFollows
<1>11. QED
  BY <1>3, <1>6, <1>7, <1>8, <1>9, <1>10, <1>12 DEF CuratedInv
\* A step of a that leaves the rows and the others alone, and whatever it is
\* about to do afterwards.
LEMMA TurnInv ==
    ASSUME CuratedInv, NEW a \in Actors, doing[a] # "idle", CuratedTypeOK',
           UNCHANGED <<status, cache, import, tally, latest>>,
           \A i \in Items : /\ item'[i].match = "absent" <=> item[i].match = "absent"
                            /\ item'[i].book = item[i].book,
           \A o \in Actors \ {a} : /\ doing'[o] = doing[o] /\ mode'[o] = mode[o]
                                   /\ todo'[o] = todo[o] /\ base'[o] = base[o] /\ pick'[o] = pick[o],
           doing'[a] # "decide", mixed \subseteq mixed',
           doing[a] = "decide" => PickKey(a) \in mixed',
           Exists /\ doing'[a] = "item" => item[pick'[a].item].match # "absent",
           \A e \in todo'[a] : Exists => item[e.item].match # "absent",
           doing'[a] \in {"base", "start", "report"} => mode'[a] \in Loops,
           doing'[a] \in {"list", "next"} => mode'[a] # "admin",
           early => early',
           ~early' /\ Exists /\ doing'[a] \in {"start", "next", "item", "report"} /\ mode'[a] \in Loops
             => status \in {"completed", "failed"} /\ base'[a].counts = tally,
           RunningIsLive', cut => cut', CountsSurvive'
    PROVE  CuratedInv'
<1>1. \A o \in Actors \ {a} : PickKey(o)' = PickKey(o)
  BY DEF PickKey
<1>2. Exists' = Exists
  BY DEF Exists
<1>3. \A k \in Keys : latest[k] # 0 =>
        /\ item'[latest[k]].match = "absent" <=> item[latest[k]].match = "absent"
        /\ item'[latest[k]].book = item[latest[k]].book
  <2>1. \A k \in Keys : latest[k] # 0 => latest[k] \in Items
    BY CuratedAssumption DEF CuratedInv, CuratedTypeOK, Items
  <2>2. QED
    BY <2>1
<1>4. NotBegun' /\ ImportGoesOn' /\ LastOfPair' /\ ImportingIsLive'
  <2>1. NotBegun'
    BY DEF CuratedInv, NotBegun
  <2>2. ImportGoesOn'
    BY DEF CuratedInv, ImportGoesOn
  <2>3. LastOfPair'
    BY <1>3 DEF CuratedInv, LastOfPair
  <2>4. ImportingIsLive'
    BY DEF CuratedInv, ImportingIsLive
  <2>5. QED
    BY <2>1, <2>2, <2>3, <2>4
<1>5. ModesFit'
  BY DEF CuratedInv, ModesFit
<1>6. OfImported'
  <2>1. \A o \in Actors : pick'[o].item \in Items /\ \A e \in todo'[o] : e.item \in Items
    BY DEF CuratedTypeOK
  <2>2. QED
    BY <1>2, <2>1 DEF CuratedInv, OfImported
<1>7. Deciding'
  <2>1. \A o \in Actors : PickKey(o) \in Keys
    BY CuratedAssumption DEF CuratedInv, CuratedTypeOK, PickKey
  <2>2. QED
    BY <1>1, <1>3, <2>1 DEF CuratedInv, Deciding
<1>8. BasesHold'
  <2>1. ASSUME ~early', Exists, NEW o \in Actors \ {a}, mode[o] \in Loops,
               doing[o] \in {"start", "next", "item", "decide", "report"}
        PROVE  status \in {"completed", "failed"} /\ base[o].counts = tally
    BY <2>1 DEF CuratedInv, BasesHold
  <2>2. QED
    BY <1>2, <2>1 DEF BasesHold
<1>9. CacheFollows'
  <2> SUFFICES ASSUME NEW k \in Keys \ (mixed' \cup {Nameless}), latest[k] # 0,
                      \A o \in Actors : doing'[o] = "decide" => PickKey(o)' # k
               PROVE  cache[k] = item'[latest[k]].book
    BY DEF CacheFollows
  <2>1. \A o \in Actors : doing[o] = "decide" => PickKey(o) # k
    BY <1>1
  <2>2. QED
    BY <1>3, <2>1 DEF CuratedInv, CacheFollows
<1>10. QED
  BY <1>4, <1>5, <1>6, <1>7, <1>8, <1>9 DEF CuratedInv

LEMMA ListItemsInv == ASSUME CuratedInv, NEW a \in Actors, List(a) PROVE CuratedInv'
<1>1. /\ CuratedTypeOK /\ doing[a] = "list"
      /\ todo' = [todo EXCEPT ![a] = Listed(mode[a])]
      /\ doing' = [doing EXCEPT ![a] = IF mode[a] = "auto" THEN "next" ELSE "base"]
      /\ UNCHANGED <<status, stats, item, cache, import, tally, mode, base, pick, starts, cut, early,
                     latest, mixed>>
  BY DEF CuratedInv, List, Turn, rowVars, curatedNotes
<1>2. mode[a] # "admin" /\ mode[a] \in Modes
  BY <1>1 DEF CuratedInv, ModesFit, CuratedTypeOK
<1>3. /\ \A e \in Listed(mode[a]) : item[e.item].match # "absent"
      /\ Listed(mode[a]) \subseteq [item : Items, cands : SUBSET AllCands]
  BY <1>1 DEF Listed, Entry, Wants, CuratedTypeOK, Rows
<1>4. CuratedTypeOK'
  BY <1>1, <1>3 DEF CuratedTypeOK, ActorPlaces
<1>5. /\ doing'[a] = (IF mode[a] = "auto" THEN "next" ELSE "base") /\ todo'[a] = Listed(mode[a])
      /\ \A o \in Actors \ {a} : doing'[o] = doing[o] /\ todo'[o] = todo[o]
  BY <1>1 DEF CuratedTypeOK
<1>6. RunningIsLive' /\ CountsSurvive'
  BY <1>1, <1>5 DEF CuratedInv, RunningIsLive, CountsSurvive
<1>7. mode[a] # "auto" => mode[a] \in Loops
  BY <1>2 DEF Modes, Loops
<1>8. (doing'[a] = "next" => mode[a] \notin Loops) /\ doing'[a] \in {"next", "base"}
  BY <1>5 DEF Loops
<1>9. QED
  BY <1>1, <1>2, <1>3, <1>4, <1>5, <1>6, <1>7, <1>8, TurnInv

\* What a loop that quits leaves alone.
LEMMA QuitEffect ==
    ASSUME CuratedTypeOK, NEW a \in Actors, Quit(a)
    PROVE  /\ doing' \in [Actors -> ActorPlaces] /\ mode' \in [Actors -> Modes]
           /\ todo' \in [Actors -> SUBSET [item : Items, cands : SUBSET AllCands]]
           /\ base' \in [Actors -> AllStats]
           /\ doing'[a] = "idle" /\ todo'[a] = {}
           /\ \A o \in Actors \ {a} : /\ doing'[o] = doing[o] /\ mode'[o] = mode[o]
                                      /\ todo'[o] = todo[o] /\ base'[o] = base[o]
<1>1. Stats(Zero, FALSE) \in AllStats
  BY CuratedAssumption DEF Stats, Zero, Counts, AllStats, AllCounts
<1>2. QED
  BY <1>1 DEF CuratedTypeOK, Quit, Turn, Modes, ActorPlaces

LEMMA ReadBaseInv == ASSUME CuratedInv, NEW a \in Actors, ReadBase(a) PROVE CuratedInv'
<1>1. /\ CuratedTypeOK /\ doing[a] = "base" /\ ModesFit
      /\ UNCHANGED <<status, stats, item, cache, import, tally, pick, starts, cut, latest, mixed>>
  BY DEF CuratedInv, ReadBase, rowVars
<1>2. CASE stats.running \/ ~Exists
  <2>1. Quit(a) /\ early' = early
    BY <1>2 DEF ReadBase
  <2>2. CuratedTypeOK'
    BY <1>1, <2>1, QuitEffect DEF CuratedTypeOK
  <2>3. RunningIsLive' /\ CountsSurvive'
    BY <1>1, <2>1, QuitEffect DEF CuratedInv, RunningIsLive, CountsSurvive
  <2>4. QED
    BY <1>1, <2>1, <2>2, <2>3, QuitEffect, TurnInv
<1>3. CASE Exists /\ ~stats.running
  <2>1. /\ base' = [base EXCEPT ![a] = stats] /\ doing' = [doing EXCEPT ![a] = "start"]
        /\ early' = (early \/ status = "importing") /\ UNCHANGED <<mode, todo>>
    BY <1>3 DEF ReadBase, Turn
  <2>2. /\ doing'[a] = "start" /\ base'[a] = stats
        /\ \A o \in Actors \ {a} : doing'[o] = doing[o] /\ base'[o] = base[o]
    BY <1>1, <2>1 DEF CuratedTypeOK
  <2>3. early' \in BOOLEAN /\ (early => early') /\ (~early' => ~early /\ status # "importing")
    BY <1>1, <2>1, Zenon
  <2>4. CuratedTypeOK'
    BY <1>1, <2>1, <2>3 DEF CuratedTypeOK, ActorPlaces
  <2>5. RunningIsLive' /\ CountsSurvive'
    BY <1>1, <1>3, <2>3 DEF CuratedInv, RunningIsLive, CountsSurvive
  <2>6. mode[a] \in Loops
    BY <1>1 DEF ModesFit
  <2>7. ~early' /\ Exists => status \in {"completed", "failed"} /\ stats.counts = tally
    BY <1>1, <2>3 DEF CuratedInv, CountsSurvive, Exists, CuratedTypeOK
  <2>8. \A e \in todo[a] : Exists => item[e.item].match # "absent"
    BY DEF CuratedInv, OfImported
  <2>9. QED
    BY <1>1, <2>1, <2>2, <2>3, <2>4, <2>5, <2>6, <2>7, <2>8, TurnInv
<1>4. QED
  BY <1>2, <1>3
\* The loop of a writes its counters, or does not.
LEMMA PublishInv ==
    ASSUME CuratedInv, NEW a \in Actors, doing[a] \in {"start", "report"},
           Publish(a, TRUE) \/ UNCHANGED stats, Turn(a, "next"),
           UNCHANGED <<status, item, cache, import, tally, mode, todo, base, pick, starts, curatedNotes>>
    PROVE  CuratedInv'
<1>1. /\ CuratedTypeOK /\ mode[a] \in Loops
      /\ doing' = [doing EXCEPT ![a] = "next"]
      /\ UNCHANGED <<status, item, cache, import, tally, mode, todo, base, pick, starts, cut, early,
                     latest, mixed>>
  BY DEF CuratedInv, ModesFit, Turn, curatedNotes
<1>2. \/ Exists /\ stats' = Stats(base[a].counts, TRUE)
      \/ stats' = stats
  BY DEF Publish, WriteStats
<1>3. CuratedTypeOK'
  BY <1>1, <1>2, StatsType DEF CuratedTypeOK, ActorPlaces
<1>4. /\ doing'[a] = "next"
      /\ \A o \in Actors \ {a} : doing'[o] = doing[o]
  BY <1>1 DEF CuratedTypeOK
<1>5. RunningIsLive'
  BY <1>1, <1>4 DEF RunningIsLive, Loops
<1>6. ~early /\ Exists => status \in {"completed", "failed"} /\ base[a].counts = tally
  BY <1>1 DEF CuratedInv, BasesHold
<1>7. CountsSurvive'
  BY <1>1, <1>2, <1>6 DEF CuratedInv, CountsSurvive, Stats
<1>8. \A e \in todo[a] : Exists => item[e.item].match # "absent"
  BY DEF CuratedInv, OfImported
<1>9. mode[a] # "admin"
  BY <1>1 DEF Loops
<1>10. QED
  BY <1>1, <1>3, <1>4, <1>5, <1>6, <1>7, <1>8, <1>9, TurnInv

LEMMA LeaveLoopInv == ASSUME CuratedInv, NEW a \in Actors, Leave(a) PROVE CuratedInv'
<1>1. /\ CuratedTypeOK /\ doing[a] = "next" /\ Quit(a) /\ mode[a] # "admin"
      /\ UNCHANGED <<status, item, cache, import, tally, pick, starts, early, latest, mixed>>
  BY DEF CuratedInv, ModesFit, Leave
<1>2. \/ mode[a] = "auto" /\ UNCHANGED <<stats, cut>>
      \/ mode[a] # "auto" /\ ~Exists /\ UNCHANGED <<stats, cut>>
      \/ mode[a] # "auto" /\ Exists /\ stats' = Stats(base[a].counts, FALSE) /\ cut' = cut
      \/ cut' = TRUE /\ stats' = stats
  BY DEF Leave, Publish, WriteStats
<1>3. CuratedTypeOK'
  <2>1. stats' \in AllStats
    BY <1>1, <1>2, StatsType DEF CuratedTypeOK
  <2>2. cut' \in BOOLEAN
    BY <1>1, <1>2, Zenon DEF CuratedTypeOK
  <2>3. QED
    BY <1>1, <2>1, <2>2, QuitEffect DEF CuratedTypeOK
<1>4. status = "none" => doing[a] = "idle"
  BY DEF CuratedInv, NotBegun
<1>5. RunningIsLive'
  BY <1>1, <1>2, <1>4, QuitEffect DEF CuratedInv, RunningIsLive, Stats, Exists
<1>6. ~early /\ Exists /\ mode[a] # "auto" => base[a].counts = tally
  BY <1>1 DEF CuratedInv, BasesHold, Loops, CuratedTypeOK, Modes
<1>7. CountsSurvive'
  BY <1>1, <1>2, <1>6 DEF CuratedInv, CountsSurvive, Stats, Exists
<1>8. cut => cut'
  BY <1>2, Zenon
<1>9. QED
  BY <1>1, <1>3, <1>5, <1>7, <1>8, QuitEffect, TurnInv

\* Where a goes from an item.
LEMMA AfterEffect ==
    ASSUME CuratedTypeOK, NEW a \in Actors, AfterResolve(a)
    PROVE  /\ doing' \in [Actors -> ActorPlaces]
           /\ pick' \in [Actors -> [item : Items, book : Volumes \cup {NoBook}]]
           /\ doing'[a] \in {"idle", "next", "report"}
           /\ doing'[a] = "next" => mode[a] = "auto"
           /\ doing'[a] = "idle" => mode[a] = "admin"
           /\ doing'[a] = "report" => mode[a] \in Loops
           /\ \A o \in Actors \ {a} : doing'[o] = doing[o] /\ pick'[o] = pick[o]
<1>1. NoPick \in [item : Items, book : Volumes \cup {NoBook}]
  BY CuratedAssumption DEF NoPick, Pick, Items
<1>2. mode[a] \in Modes
  BY DEF CuratedTypeOK
<1>3. PICK place \in {"idle", "next", "report"} :
         /\ doing' = [doing EXCEPT ![a] = place]
         /\ (place = "next" => mode[a] = "auto") /\ (place = "idle" => mode[a] = "admin")
         /\ (place = "report" => mode[a] \in Loops)
  BY <1>2 DEF AfterResolve, Turn, Modes, Loops
<1>4. QED
  BY <1>1, <1>3 DEF AfterResolve, CuratedTypeOK, ActorPlaces

LEMMA ResolveFailsInv == ASSUME CuratedInv, NEW a \in Actors, ResolveFails(a) PROVE CuratedInv'
<1>1. /\ CuratedTypeOK /\ doing[a] \in {"item", "decide"} /\ AfterResolve(a)
      /\ mixed' = IF doing[a] = "decide" THEN mixed \cup {PickKey(a)} ELSE mixed
      /\ UNCHANGED <<status, stats, item, cache, import, tally, mode, todo, base, starts, cut, early,
                     latest>>
  BY DEF CuratedInv, ResolveFails, rowVars
<1>2. PickKey(a) \in Keys
  BY <1>1, CuratedAssumption DEF CuratedTypeOK, PickKey
<1>3. CuratedTypeOK'
  BY <1>1, <1>2, AfterEffect DEF CuratedTypeOK
<1>4. RunningIsLive' /\ CountsSurvive'
  BY <1>1, AfterEffect DEF CuratedInv, RunningIsLive, CountsSurvive, Loops
<1>5. \A e \in todo[a] : Exists => item[e.item].match # "absent"
  BY DEF CuratedInv, OfImported
<1>6. ~early /\ Exists /\ mode[a] \in Loops => status \in {"completed", "failed"} /\ base[a].counts = tally
  BY <1>1 DEF CuratedInv, BasesHold
<1>7. QED
  BY <1>1, <1>3, <1>4, <1>5, <1>6, AfterEffect, TurnInv
LEMMA DecideMatchInv == ASSUME CuratedInv, NEW a \in Actors, Decide(a) PROVE CuratedInv'
<1>1. /\ CuratedTypeOK /\ doing[a] = "decide" /\ AfterResolve(a)
      /\ cache' = IF PickKey(a) = Nameless THEN cache
                  ELSE [cache EXCEPT ![PickKey(a)] = pick[a].book]
      /\ UNCHANGED <<status, stats, item, import, tally, mode, todo, base, starts, cut, early,
                     latest, mixed>>
  BY DEF CuratedInv, Decide, curatedNotes
<1>2. PICK k \in Keys : k = PickKey(a)
  BY <1>1, CuratedAssumption DEF CuratedTypeOK, PickKey
<1>3. cache' \in [Keys -> Volumes \cup {NoBook}] /\ (k # Nameless => cache'[k] = pick[a].book)
      /\ \A l \in Keys \ {k} : cache'[l] = cache[l]
  BY <1>1, <1>2 DEF CuratedTypeOK
<1>4. CuratedTypeOK'
  BY <1>1, <1>3, AfterEffect DEF CuratedTypeOK
<1>5. \A o \in Actors \ {a} : doing'[o] = doing[o] /\ pick'[o] = pick[o] /\ PickKey(o)' = PickKey(o)
  BY <1>1, AfterEffect DEF PickKey
<1>6. NotBegun' /\ ImportGoesOn' /\ LastOfPair' /\ ImportingIsLive' /\ CountsSurvive'
  <2>1. status # "none"
    BY <1>1 DEF CuratedInv, NotBegun
  <2>2. QED
    BY <1>1, <2>1 DEF CuratedInv, NotBegun, ImportGoesOn, LastOfPair, ImportingIsLive, CountsSurvive
<1>7. ModesFit'
  BY <1>1, <1>5, AfterEffect DEF CuratedInv, ModesFit
<1>8. OfImported'
  BY <1>1, <1>5, AfterEffect DEF CuratedInv, OfImported, Exists
<1>9. BasesHold'
  BY <1>1, <1>5, AfterEffect DEF CuratedInv, BasesHold, Exists, Loops
<1>10. RunningIsLive'
  BY <1>1, <1>5, AfterEffect DEF CuratedInv, RunningIsLive, Loops
<1>11. Deciding'
  BY <1>1, <1>5, AfterEffect DEF CuratedInv, Deciding
<1>12. CacheFollows'
  <2> SUFFICES ASSUME NEW l \in Keys \ (mixed \cup {Nameless}), latest[l] # 0,
                      \A o \in Actors : doing'[o] = "decide" => PickKey(o)' # l
               PROVE  cache'[l] = item[latest[l]].book
    BY <1>1 DEF CacheFollows
  <2>1. CASE l = k
    BY <2>1, <1>1, <1>2, <1>3 DEF CuratedInv, Deciding
  <2>2. CASE l # k
    <3>1. \A o \in Actors : doing[o] = "decide" => PickKey(o) # l
      BY <2>2, <1>2, <1>5
    <3>2. QED
      BY <2>2, <3>1, <1>3 DEF CuratedInv, CacheFollows
  <2>3. QED
    BY <2>1, <2>2
<1>13. QED
  BY <1>4, <1>6, <1>7, <1>8, <1>9, <1>10, <1>11, <1>12 DEF CuratedInv

LEMMA ResolveItemInv == ASSUME CuratedInv, NEW a \in Actors, ResolveItem(a) PROVE CuratedInv'
<1>1. /\ CuratedTypeOK /\ doing[a] = "item"
      /\ UNCHANGED <<status, stats, cache, import, tally, mode, todo, base, starts, cut, early>>
  BY DEF CuratedInv, ResolveItem
<1>2. CASE ~Exists
  <2>1. AfterResolve(a) /\ UNCHANGED <<item, latest, mixed>>
    BY <1>2 DEF ResolveItem
  <2>2. CuratedTypeOK'
    BY <1>1, <2>1, AfterEffect DEF CuratedTypeOK
  <2>3. RunningIsLive' /\ CountsSurvive'
    BY <1>1, <2>1, AfterEffect DEF CuratedInv, RunningIsLive, CountsSurvive, Loops
  <2>4. QED
    BY <1>1, <1>2, <2>1, <2>2, <2>3, AfterEffect, TurnInv
<1>3. CASE Exists
  <2>1. PICK p \in Items, k \in Keys, b \in Volumes \cup {NoBook} :
           p = pick[a].item /\ k = PickKey(a) /\ k = Key[p] /\ b = pick[a].book
    BY <1>1, CuratedAssumption DEF CuratedTypeOK, PickKey
  <2>2. /\ item' = [item EXCEPT ![p] = Row("manual", b, item[p].cands)]
        /\ latest' = [latest EXCEPT ![k] = p]
        /\ mixed' = IF \E o \in Actors \ {a} : doing[o] = "decide" /\ PickKey(o) = k
                    THEN mixed \cup {k} ELSE mixed
        /\ doing' = [doing EXCEPT ![a] = "decide"] /\ pick' = pick
    BY <1>1, <1>3, <2>1 DEF ResolveItem, Turn, CuratedTypeOK
  <2>3. Row("manual", b, item[p].cands) \in Rows /\ p \in 0..N /\ p # 0
    BY <1>1, <2>1, CuratedAssumption DEF CuratedTypeOK, Row, Rows, Matches, Items
  <2>4. CuratedTypeOK'
    BY <1>1, <2>2, <2>3 DEF CuratedTypeOK, ActorPlaces
  <2>5. /\ item'[p].match = "manual" /\ item'[p].book = b
        /\ \A i \in Items \ {p} : item'[i] = item[i]
        /\ latest'[k] = p /\ \A l \in Keys \ {k} : latest'[l] = latest[l]
        /\ doing'[a] = "decide" /\ \A o \in Actors \ {a} : doing'[o] = doing[o]
        /\ \A o \in Actors : PickKey(o)' = PickKey(o)
    BY <1>1, <2>2 DEF CuratedTypeOK, Row, PickKey
  <2>6. item[p].match # "absent"
    BY <1>1, <1>3, <2>1 DEF CuratedInv, OfImported
  <2>7. \A i \in Items : item'[i].match = "absent" <=> item[i].match = "absent"
    BY <2>5, <2>6
  <2>8. NotBegun' /\ ImportGoesOn'
    <3>1. status # "none"
      BY <1>3 DEF Exists
    <3>2. QED
      BY <1>1, <3>1, <2>7 DEF CuratedInv, NotBegun, ImportGoesOn
  <2>9. ModesFit' /\ OfImported'
    <3>1. ModesFit'
      BY <1>1, <2>5 DEF CuratedInv, ModesFit
    <3>2. \A o \in Actors : pick[o].item \in Items /\ \A e \in todo[o] : e.item \in Items
      BY <1>1 DEF CuratedTypeOK
    <3>3. OfImported'
      BY <1>1, <1>3, <2>2, <2>5, <2>7, <3>2 DEF CuratedInv, OfImported
    <3>4. QED
      BY <3>1, <3>3
  <2>10. \A l \in Keys \ {k} : latest[l] # 0 =>
            /\ latest[l] \in Items /\ Key[latest[l]] = l /\ latest[l] # p
            /\ item[latest[l]].match # "absent"
    <3>1. ASSUME NEW l \in Keys \ {k}, latest[l] # 0 PROVE latest[l] \in Items
      BY <3>1, <1>1, CuratedAssumption DEF CuratedTypeOK, Items
    <3>2. QED
      BY <3>1, <2>1 DEF CuratedInv, LastOfPair
  <2>11. \A l \in Keys \ {k} : latest[l] # 0 => item'[latest'[l]] = item[latest[l]]
    BY <2>5, <2>10
  <2>12. LastOfPair'
    BY <2>1, <2>5, <2>10, <2>11 DEF LastOfPair
  <2>13. Deciding'
    <3>1. ASSUME NEW o \in Actors, doing'[o] = "decide", PickKey(o) \notin mixed'
          PROVE  /\ latest'[PickKey(o)] # 0 => item'[latest'[PickKey(o)]].book = pick[o].book
                 /\ \A q \in Actors \ {o} : doing'[q] = "decide" => PickKey(q) # PickKey(o)
      <4>1. PickKey(o) \in Keys /\ PickKey(o) \notin mixed
        BY <3>1, <1>1, <2>2, CuratedAssumption DEF CuratedTypeOK, PickKey
      <4>2. CASE o = a
        BY <4>1, <4>2, <3>1, <2>1, <2>2, <2>5
      <4>3. CASE o # a
        <5>1. doing[o] = "decide" /\ PickKey(o) # k
          BY <4>3, <3>1, <2>2, <2>5
        <5>2. \A q \in Actors \ {o} : doing[q] = "decide" => PickKey(q) # PickKey(o)
          BY <5>1, <4>1 DEF CuratedInv, Deciding
        <5>3. latest[PickKey(o)] # 0 => item[latest[PickKey(o)]].book = pick[o].book
          BY <5>1, <4>1 DEF CuratedInv, Deciding
        <5>4. QED
          BY <5>1, <5>2, <5>3, <4>1, <2>1, <2>5, <2>11
      <4>4. QED
        BY <4>2, <4>3
    <3>2. QED
      BY <3>1, <2>2, <2>5 DEF Deciding
  <2>14. BasesHold'
    BY <1>1, <2>5 DEF CuratedInv, BasesHold, Exists
  <2>15. RunningIsLive'
    BY <1>1, <2>5 DEF CuratedInv, RunningIsLive
  <2>16. ImportingIsLive' /\ CountsSurvive'
    BY <1>1 DEF CuratedInv, ImportingIsLive, CountsSurvive
  <2>17. CacheFollows'
    <3> SUFFICES ASSUME NEW l \in Keys \ (mixed' \cup {Nameless}), latest'[l] # 0,
                        \A o \in Actors : doing'[o] = "decide" => PickKey(o) # l
                 PROVE  cache[l] = item'[latest'[l]].book
      BY <1>1, <2>5 DEF CacheFollows
    <3>1. l # k /\ l \notin mixed
      BY <2>1, <2>2, <2>5
    <3>2. \A o \in Actors : doing[o] = "decide" => PickKey(o) # l
      BY <1>1, <2>5
    <3>3. QED
      BY <3>1, <3>2, <2>5, <2>11 DEF CuratedInv, CacheFollows
  <2>18. QED
    BY <2>4, <2>8, <2>9, <2>12, <2>13, <2>14, <2>15, <2>16, <2>17 DEF CuratedInv
<1>4. QED
  BY <1>2, <1>3
LEMMA NextItemInv == ASSUME CuratedInv, NEW a \in Actors, NextItem(a) PROVE CuratedInv'
<1>1. /\ CuratedTypeOK /\ doing[a] = "next" /\ mode[a] # "admin" /\ mode[a] \in Modes
      /\ UNCHANGED <<status, stats, cache, import, tally, mode, base, starts, cut, early, latest, mixed>>
  BY DEF CuratedInv, NextItem, CuratedTypeOK, ModesFit, curatedNotes
<1>2. PICK e \in todo[a] :
        /\ todo' = [todo EXCEPT ![a] = @ \ {e}]
        /\ \/ /\ mode[a] # "search_not_found" /\ e.cands = {}
              /\ Turn(a, IF mode[a] = "auto" THEN "next" ELSE "report")
              /\ UNCHANGED <<item, pick>>
           \/ /\ mode[a] = "search_not_found" \/ e.cands # {}
              /\ \E r \in Answers(a, e.cands) :
                    /\ pick' = IF r.book = NoBook THEN pick
                               ELSE [pick EXCEPT ![a] = Pick(e.item, r.book)]
                    /\ item' = IF r.match = "ambiguous" /\ Exists
                               THEN [item EXCEPT ![e.item] = Row("ambiguous", @.book, r.cands)]
                               ELSE item
                    /\ Turn(a, IF r.book # NoBook THEN "item" ELSE "report")
  BY DEF NextItem
<1>3. /\ e.item \in Items /\ e.cands \in SUBSET AllCands
      /\ todo'[a] = todo[a] \ {e} /\ \A o \in Actors \ {a} : todo'[o] = todo[o]
      /\ todo' \in [Actors -> SUBSET [item : Items, cands : SUBSET AllCands]]
  BY <1>1, <1>2 DEF CuratedTypeOK
<1>4. \A d \in todo[a] : Exists => item[d.item].match # "absent"
  BY DEF CuratedInv, OfImported
<1>5. PICK place \in {"next", "item", "report"}, b \in Volumes \cup {NoBook} :
        /\ doing' = [doing EXCEPT ![a] = place]
        /\ place = "next" => mode[a] = "auto"
        /\ place = "report" => mode[a] \in Loops
        /\ pick' = pick \/ pick' = [pick EXCEPT ![a] = [item |-> e.item, book |-> b]]
        /\ place = "item" => pick' = [pick EXCEPT ![a] = [item |-> e.item, book |-> b]]
        /\ \/ item' = item
           \/ Exists /\ \E cands \in SUBSET AllCands :
                item' = [item EXCEPT ![e.item] = Row("ambiguous", item[e.item].book, cands)]
  <2>1. CASE mode[a] # "search_not_found" /\ e.cands = {} /\ UNCHANGED <<item, pick>>
             /\ Turn(a, IF mode[a] = "auto" THEN "next" ELSE "report")
    BY <2>1, <1>1 DEF Turn, Modes, Loops
  <2>2. ASSUME mode[a] = "search_not_found" \/ e.cands # {}, NEW r \in Answers(a, e.cands),
               pick' = IF r.book = NoBook THEN pick ELSE [pick EXCEPT ![a] = Pick(e.item, r.book)],
               item' = IF r.match = "ambiguous" /\ Exists
                       THEN [item EXCEPT ![e.item] = Row("ambiguous", @.book, r.cands)]
                       ELSE item,
               Turn(a, IF r.book # NoBook THEN "item" ELSE "report")
        PROVE  \E place \in {"item", "report"}, b \in Volumes \cup {NoBook} :
                  /\ doing' = [doing EXCEPT ![a] = place]
                  /\ place = "report" => mode[a] \in Loops
                  /\ pick' = pick \/ pick' = [pick EXCEPT ![a] = [item |-> e.item, book |-> b]]
                  /\ place = "item" => pick' = [pick EXCEPT ![a] = [item |-> e.item, book |-> b]]
                  /\ \/ item' = item
                     \/ Exists /\ \E cands \in SUBSET AllCands :
                          item' = [item EXCEPT ![e.item] = Row("ambiguous", item[e.item].book, cands)]
    <3>1. r \in Rows
      BY <2>2, <1>1, <1>3, AnswersIn
    <3>2. r.book \in Volumes \cup {NoBook} /\ r.cands \in SUBSET AllCands
      BY <3>1 DEF Rows
    <3>3. r.book = NoBook => mode[a] \in Loops
      <4>1. CASE mode[a] = "auto"
        <5>1. r = Row("manual", Target(e.cands), {}) /\ e.cands # {}
          BY <4>1, <2>2 DEF Answers
        <5>2. r.book \in Volumes
          BY <5>1, <1>3, TargetIn DEF Row
        <5>3. QED
          BY <5>2, CandFacts DEF NoBook
      <4>2. QED
        BY <4>1, <1>1 DEF Modes, Loops
    <3>4. item' = item \/ (Exists /\ item' = [item EXCEPT ![e.item] =
                                             Row("ambiguous", item[e.item].book, r.cands)])
      BY <2>2, <1>1, <1>3 DEF CuratedTypeOK
    <3>5. CASE r.book = NoBook
      BY <3>2, <3>3, <3>4, <3>5, <2>2 DEF Turn
    <3>6. CASE r.book # NoBook
      BY <3>2, <3>4, <3>6, <2>2 DEF Turn, Pick
    <3>7. QED
      BY <3>5, <3>6
  <2>3. QED
    BY <1>2, <2>1, <2>2
<1>6. /\ doing' \in [Actors -> ActorPlaces] /\ doing'[a] = place
      /\ pick' \in [Actors -> [item : Items, book : Volumes \cup {NoBook}]]
      /\ place = "item" => pick'[a].item = e.item
      /\ \A o \in Actors \ {a} : doing'[o] = doing[o] /\ pick'[o] = pick[o]
  BY <1>1, <1>3, <1>5 DEF CuratedTypeOK, ActorPlaces
<1>7. /\ item' \in [Items -> Rows]
      /\ \A i \in Items : /\ item'[i].match = "absent" <=> item[i].match = "absent"
                          /\ item'[i].book = item[i].book
  <2>1. item[e.item] \in Rows /\ item \in [Items -> Rows]
    BY <1>1, <1>3 DEF CuratedTypeOK
  <2>2. \A cands \in SUBSET AllCands : Row("ambiguous", item[e.item].book, cands) \in Rows
    BY <2>1 DEF Row, Rows, Matches
  <2>3. CASE item' = item
    BY <2>1, <2>3
  <2>4. ASSUME Exists, NEW cands \in SUBSET AllCands,
               item' = [item EXCEPT ![e.item] = Row("ambiguous", item[e.item].book, cands)]
        PROVE  /\ item' \in [Items -> Rows]
               /\ \A i \in Items : /\ item'[i].match = "absent" <=> item[i].match = "absent"
                                   /\ item'[i].book = item[i].book
    BY <2>1, <2>2, <2>4, <1>3, <1>4 DEF Row
  <2>5. QED
    BY <1>5, <2>3, <2>4
<1>8. CuratedTypeOK'
  BY <1>1, <1>3, <1>6, <1>7 DEF CuratedTypeOK
<1>9. ~early /\ Exists /\ mode[a] \in Loops => status \in {"completed", "failed"} /\ base[a].counts = tally
  BY <1>1 DEF CuratedInv, BasesHold
<1>10. RunningIsLive' /\ CountsSurvive'
  BY <1>1, <1>6 DEF CuratedInv, RunningIsLive, CountsSurvive
<1>11. QED
  BY <1>1, <1>3, <1>4, <1>5, <1>6, <1>7, <1>8, <1>9, <1>10, TurnInv DEF Loops
------------------------------------------------------------------------------
\* What happens to the rows beside, and the end of the process.
LEMMA IgnoreInv == ASSUME CuratedInv, NEW i \in Items, Ignore(i) PROVE CuratedInv'
<1>1. /\ CuratedTypeOK /\ item[i].match # "absent"
      /\ item' = [item EXCEPT ![i] = Row("ignored", item[i].book, item[i].cands)]
      /\ UNCHANGED <<status, stats, cache, import, tally, doing, mode, todo, base, pick, starts, cut,
                     early, latest, mixed>>
  BY DEF CuratedInv, CuratedTypeOK, Ignore, loopVars, curatedNotes
<1>2. Row("ignored", item[i].book, item[i].cands) \in Rows
  BY <1>1 DEF CuratedTypeOK, Row, Rows, Matches
<1>3. CuratedTypeOK'
  BY <1>1, <1>2 DEF CuratedTypeOK
<1>4. \A j \in Items : /\ item'[j].match = "absent" <=> item[j].match = "absent"
                       /\ item'[j].book = item[j].book
  BY <1>1 DEF CuratedTypeOK, Row
<1>5. /\ \A k \in Keys : latest[k] # 0 => latest[k] \in Items
      /\ \A a \in Actors : /\ PickKey(a) \in Keys /\ pick[a].item \in Items
                           /\ \A e \in todo[a] : e.item \in Items
  BY <1>1, CuratedAssumption DEF CuratedTypeOK, Items, PickKey
<1>6. NotBegun' /\ ImportGoesOn' /\ ModesFit'
  BY <1>1, <1>4 DEF CuratedInv, NotBegun, ImportGoesOn, ModesFit
<1>7. OfImported'
  BY <1>1, <1>4, <1>5 DEF CuratedInv, OfImported, Exists
<1>8. LastOfPair'
  BY <1>1, <1>4, <1>5 DEF CuratedInv, LastOfPair
<1>9. Deciding'
  <2>1. \A a \in Actors : PickKey(a)' = PickKey(a)
    BY <1>1 DEF PickKey
  <2>2. QED
    BY <2>1, <1>1, <1>4, <1>5 DEF CuratedInv, Deciding
<1>10. CacheFollows'
  <2>1. \A a \in Actors : PickKey(a)' = PickKey(a)
    BY <1>1 DEF PickKey
  <2>2. QED
    BY <2>1, <1>1, <1>4, <1>5 DEF CuratedInv, CacheFollows
<1>11. BasesHold' /\ RunningIsLive' /\ ImportingIsLive' /\ CountsSurvive'
  BY <1>1 DEF CuratedInv, BasesHold, Exists, RunningIsLive, ImportingIsLive, CountsSurvive
<1>12. QED
  BY <1>3, <1>6, <1>7, <1>8, <1>9, <1>10, <1>11 DEF CuratedInv

LEMMA DeleteInv == ASSUME CuratedInv, Delete PROVE CuratedInv'
<1>1. /\ CuratedTypeOK /\ status' = "deleted"
      /\ item' = [i \in Items |-> NoItem] /\ latest' = [k \in Keys |-> 0]
      /\ UNCHANGED <<stats, cache, import, tally, doing, mode, todo, base, pick, starts, cut, early, mixed>>
  BY DEF CuratedInv, Delete, loopVars
<1>2. NoItem \in Rows /\ NoItem.match = "absent" /\ 0 \in 0..N
  BY CuratedAssumption DEF NoItem, Row, Rows, Matches
<1>3. CuratedTypeOK'
  BY <1>1, <1>2 DEF CuratedTypeOK
<1>4. (NotBegun /\ ImportGoesOn /\ ModesFit /\ OfImported)'
  BY <1>1, <1>2 DEF CuratedInv, NotBegun, ImportGoesOn, ModesFit, OfImported, Exists
<1>5. \A a \in Actors : PickKey(a) \in Keys /\ PickKey(a)' = PickKey(a)
  BY <1>1, CuratedAssumption DEF CuratedTypeOK, PickKey
<1>6. (LastOfPair /\ Deciding /\ CacheFollows)'
  BY <1>1, <1>5 DEF CuratedInv, LastOfPair, Deciding, CacheFollows
<1>7. (BasesHold /\ RunningIsLive /\ ImportingIsLive /\ CountsSurvive)'
  BY <1>1 DEF CuratedInv, BasesHold, Exists, RunningIsLive, ImportingIsLive, CountsSurvive
<1>8. QED
  BY <1>3, <1>4, <1>6, <1>7 DEF CuratedInv

LEMMA CrashInv == ASSUME CuratedInv, Crash PROVE CuratedInv'
<1>1. /\ CuratedTypeOK /\ import' = [at |-> "idle", n |-> 1, res |-> NoItem]
      /\ doing' = [a \in Actors |-> "idle"] /\ mode' = [a \in Actors |-> "admin"]
      /\ todo' = [a \in Actors |-> {}] /\ pick' = [a \in Actors |-> NoPick]
      /\ base' = [a \in Actors |-> Stats(Zero, FALSE)] /\ cut' = TRUE
      /\ mixed' = mixed \cup {PickKey(a) : a \in {o \in Actors : doing[o] = "decide"}}
      /\ UNCHANGED <<status, stats, item, cache, tally, starts, early, latest>>
  BY DEF CuratedInv, Crash, Importer, rowVars
<1>2. /\ NoItem \in Rows /\ N \in Nat \ {0}
      /\ NoPick \in [item : Items, book : Volumes \cup {NoBook}]
      /\ Stats(Zero, FALSE) \in AllStats
  BY CuratedAssumption DEF NoItem, Row, Rows, Matches, NoPick, Pick, Items, Stats, Zero, Counts,
                           AllStats, AllCounts
<1>3. \A a \in Actors : PickKey(a) \in Keys
  BY <1>1, CuratedAssumption DEF CuratedTypeOK, PickKey
<1>4. CuratedTypeOK'
  <2>1. mixed' \subseteq Keys
    BY <1>1, <1>3 DEF CuratedTypeOK
  <2>2. import' \in [at : {"idle", "match", "save", "report", "done", "failed"},
                   n : 1..(N + 1), res : Rows]
    BY <1>1, <1>2
  <2>3. /\ doing' \in [Actors -> ActorPlaces] /\ mode' \in [Actors -> Modes]
        /\ todo' \in [Actors -> SUBSET [item : Items, cands : SUBSET AllCands]]
        /\ base' \in [Actors -> AllStats]
        /\ pick' \in [Actors -> [item : Items, book : Volumes \cup {NoBook}]]
    BY <1>1, <1>2 DEF ActorPlaces, Modes
  <2>4. QED
    BY <1>1, <2>1, <2>2, <2>3 DEF CuratedTypeOK
<1>5. (NotBegun /\ ImportGoesOn /\ ModesFit /\ OfImported)'
  BY <1>1 DEF CuratedInv, NotBegun, ImportGoesOn, ModesFit, OfImported, Exists
<1>6. (LastOfPair /\ Deciding /\ BasesHold /\ RunningIsLive /\ ImportingIsLive /\ CountsSurvive)'
  BY <1>1 DEF CuratedInv, LastOfPair, Deciding, BasesHold, RunningIsLive, ImportingIsLive, CountsSurvive
<1>7. CacheFollows'
  <2> SUFFICES ASSUME NEW k \in Keys \ (mixed' \cup {Nameless}), latest[k] # 0
               PROVE  cache[k] = item[latest[k]].book
    BY <1>1 DEF CacheFollows
  <2>1. \A a \in Actors : doing[a] = "decide" => PickKey(a) # k
    BY <1>1
  <2>2. QED
    BY <2>1, <1>1 DEF CuratedInv, CacheFollows
<1>8. QED
  BY <1>4, <1>5, <1>6, <1>7 DEF CuratedInv

------------------------------------------------------------------------------
LEMMA CuratedInitInv == ASSUME CuratedInit PROVE CuratedInv
<1>1. /\ NoItem \in Rows /\ NoItem.match = "absent" /\ N \in Nat \ {0} /\ MaxStarts \in Nat
      /\ NoPick \in [item : Items, book : Volumes \cup {NoBook}]
      /\ Stats(Zero, FALSE) \in AllStats /\ Zero \in AllCounts /\ ~Stats(Zero, FALSE).running
  BY CuratedAssumption DEF NoItem, Row, Rows, Matches, NoPick, Pick, Items, Stats, Zero, Counts,
                           AllStats, AllCounts
<1>2. CuratedTypeOK
  <2>1. /\ doing \in [Actors -> ActorPlaces] /\ mode \in [Actors -> Modes]
        /\ todo \in [Actors -> SUBSET [item : Items, cands : SUBSET AllCands]]
        /\ base \in [Actors -> AllStats]
        /\ pick \in [Actors -> [item : Items, book : Volumes \cup {NoBook}]]
    BY <1>1 DEF CuratedInit, ActorPlaces, Modes
  <2>2. import \in [at : {"idle", "match", "save", "report", "done", "failed"},
                  n : 1..(N + 1), res : Rows]
    BY <1>1 DEF CuratedInit, Importer
  <2>3. cache \in [Keys -> Volumes \cup {NoBook}] /\ latest \in [Keys -> 0..N]
        /\ item \in [Items -> Rows]
    BY <1>1, CuratedAssumption DEF CuratedInit
  <2>4. status = "none" /\ starts = 0 /\ mixed = {}
    BY DEF CuratedInit
  <2>5. stats \in AllStats /\ tally \in AllCounts /\ cut \in BOOLEAN /\ early \in BOOLEAN
    BY <1>1, Zenon DEF CuratedInit
  <2>6. QED
    BY <1>1, <2>1, <2>2, <2>3, <2>4, <2>5 DEF CuratedTypeOK
<1>3. NotBegun /\ ImportGoesOn /\ ModesFit /\ OfImported
  BY <1>1 DEF CuratedInit, NotBegun, ImportGoesOn, Importer, ModesFit, OfImported, Exists
<1>4. LastOfPair /\ Deciding /\ BasesHold /\ RunningIsLive /\ ImportingIsLive /\ CountsSurvive
      /\ CacheFollows
  BY <1>1 DEF CuratedInit, LastOfPair, Deciding, BasesHold, Exists, RunningIsLive, ImportingIsLive,
              CountsSurvive, CacheFollows
<1>5. QED
  BY <1>2, <1>3, <1>4 DEF CuratedInv

LEMMA CuratedStutterInv == ASSUME CuratedInv, UNCHANGED curatedVars PROVE CuratedInv'
<1>1. UNCHANGED <<status, stats, item, cache, import, tally, doing, mode, todo, base, pick, starts,
                  cut, early, latest, mixed>>
  BY DEF curatedVars, rowVars, loopVars, curatedNotes
<1>2. (CuratedTypeOK /\ NotBegun /\ ImportGoesOn /\ ModesFit /\ OfImported)'
  BY <1>1 DEF CuratedInv, CuratedTypeOK, NotBegun, ImportGoesOn, ModesFit, OfImported, Exists
<1>3. (LastOfPair /\ Deciding /\ BasesHold)'
  BY <1>1 DEF CuratedInv, LastOfPair, Deciding, PickKey, BasesHold, Exists
<1>4. (RunningIsLive /\ ImportingIsLive /\ CountsSurvive /\ CacheFollows)'
  BY <1>1 DEF CuratedInv, RunningIsLive, ImportingIsLive, CountsSurvive, CacheFollows, PickKey
<1>5. QED
  BY <1>2, <1>3, <1>4 DEF CuratedInv

LEMMA CuratedInvariant == CuratedSpec => []CuratedInv
<1>1. CuratedInit => CuratedInv
  BY CuratedInitInv
<1>2. CuratedInv /\ [CuratedNext]_curatedVars => CuratedInv'
  <2> SUFFICES ASSUME CuratedInv, [CuratedNext]_curatedVars PROVE CuratedInv'
    OBVIOUS
  <2>1. CASE ImportStep
    BY <2>1, MatchInv, MatchOrSaveFailsInv, SaveInv, ReportInv, FinishInv, Zenon DEF ImportStep
  <2>2. ASSUME NEW a \in Actors, LoopStep(a) PROVE CuratedInv'
    BY <2>2, ListItemsInv, ReadBaseInv, PublishInv, NextItemInv, ResolveItemInv, DecideMatchInv,
       ResolveFailsInv, LeaveLoopInv DEF LoopStep, FirstPublish, LoopReport
  <2>3. QED
    BY <2>1, <2>2, StartImportInv, StartResolutionInv, IgnoreInv, DeleteInv, CrashInv,
       CuratedStutterInv DEF CuratedNext
<1>3. QED
  BY <1>1, <1>2, PTL DEF CuratedSpec

\* The row of a collection tells the truth about what runs and what was
\* imported, for any number of items, books and resolutions at once: a flag or
\* an 'importing' that no goroutine stands behind needs a crash or a failed
\* last write (services/curated_collection_import.go and _repo.go).
THEOREM StatsSafety == CuratedSpec => []StatsHold
<1>1. CuratedInv => StatsHold
  BY DEF CuratedInv, StatsHold
<1>2. QED
  BY <1>1, CuratedInvariant, PTL

\* The next import of a pair gets the book of the item resolved last
\* (Resolve of services/curated_collection_repo.go), for any
\* number of them.
THEOREM CacheSafety == CuratedSpec => []CacheFollows
<1>1. CuratedInv => CacheFollows
  BY DEF CuratedInv
<1>2. QED
  BY <1>1, CuratedInvariant, PTL

------------------------------------------------------------------------------
(* Rescan: any number of books and requests, any parses and edits.         *)

\* Where a request is once it has updated the book row, once its DELETE has
\* found the junction rows of g, and once it has inserted the names of g.
HasRow      == {"authors", "authors wait", "authors insert", "tags", "tags wait", "tags insert",
                "commit"}
HasFound(g) == {"tags wait", "tags insert", "commit"}
               \cup IF g = "authors" THEN {"authors wait", "authors insert", "tags"} ELSE {}
HasNames(g) == {"commit"} \cup IF g = "authors" THEN {"tags", "tags wait", "tags insert"} ELSE {}

\* What a request knows at each place; only an approval touches the cover.
Knowing == \A r \in Requests :
    /\ at[r] \in {"idle", "delete", "insert"} => first[r] = Unread /\ sel[r] = {}
    /\ at[r] \in {"cover", "writing", "again"} => first[r] # Unread
    /\ at[r] \in {"delete", "insert", "row"} \cup HasRow => new[r] # Unread
    /\ first[r] = Unread => "cover" \notin sel[r]
    /\ at[r] = "writing" => "cover" \in sel[r]

\* Who has the book row keeps it to itself; who selected a column of it has it.
Locks ==
    /\ \A b \in Books : lock[b] # NoOne => on[lock[b]] = b /\ at[lock[b]] \in HasRow
    /\ \A r \in Requests : at[r] \in HasRow =>
        /\ sel[r] \cap Scalars # {} => lock[on[r]] = r
        /\ lock[on[r]] = r => draft[r] = Written(book[on[r]], new[r], sel[r])

\* With the book row, what the DELETE of the junction rows found is all of them.
DeletesAll == \A r \in Requests, g \in Groups :
    g \in sel[r] /\ on[r] \notin loose /\ at[r] \in HasFound(g) =>
        /\ lock[on[r]] = r
        /\ links[on[r]][g] \subseteq IF at[r] = Step(g, "wait") THEN seen[r] ELSE gone[r]

\* A name the links will need is there, or will be.
NamesThere == \A r \in Requests : \A g \in Groups : \A n \in Names :
    g \in sel[r] /\ KnownRows(g, n) = {} =>
        /\ at[r] = Step(g, "insert") /\ n \in Wanted(r, g) => n \in missing[r]
        /\ at[r] \in HasNames(g) /\ n \in Wanted(r, g) => n \in made[r][g]

\* What an approval reads, or has read, was the only pending row since it began.
ReadsSole == \A r \in Requests : first[r] # Unread =>
    /\ at[r] \in {"cover", "writing", "again"} /\ HasSole(on[r]) => Sole(on[r]) \subseteq sole[r]
    /\ at[r] \in {"row"} \cup HasRow => new[r] \in sole[r]

\* A request that has the book for itself reads the same row twice, and has
\* written its cover before the row says so.
Alone == \A b \in Books \ raced : \A r \in Busy(b) :
    /\ \A o \in Busy(b) : o = r
    /\ at[r] \in {"cover", "writing", "again"} => Sole(b) = {first[r]}
    /\ first[r] # Unread /\ at[r] \in {"row"} \cup HasRow => new[r] = first[r]
    /\ "cover" \in sel[r] /\ at[r] \notin {"cover", "writing"} => file[b] = first[r].cover
    /\ at[r] = "writing" => file[b] = Partial

\* Until its request has written the cover, a book has one when its row says so.
Covered(b) == file[b] \in IF book[b].cover THEN Images ELSE {NoImage}
CoversHold == \A b \in Books \ (raced \cup torn) :
    (\A r \in Busy(b) : "cover" \in sel[r] => at[r] = "cover") => Covered(b)

FinitePending == \A b \in Books : IsFiniteSet(pending[b])

RescanInv == /\ TypeOK /\ FinitePending /\ Knowing /\ Locks /\ DeletesAll /\ NamesThere /\ ReadsSole
             /\ Alone /\ CoversHold /\ LinksOfOne

------------------------------------------------------------------------------
\* What the constants are.
LEMMA ParseFacts ==
    /\ Parses \subseteq Parse /\ Unread \notin Parse /\ Books # {} /\ NoOne \notin Requests
    /\ \A v \in Parse : /\ v.text \in Texts /\ v.cover \in Images \cup {NoImage}
                        /\ v.authors \subseteq Names /\ v.tags \subseteq Names
    /\ AnyBook \in Books /\ AnyRow \in [text : Texts, cover : BOOLEAN]
<1>1. Texts # {}
  BY RescanAssumption DEF Texts
<1>2. AnyRow \in [text : Texts, cover : BOOLEAN]
  BY <1>1 DEF AnyRow
<1>3. AnyBook \in Books
  BY RescanAssumption DEF AnyBook
<1>4. \A v \in Parse : /\ v.text \in Texts /\ v.cover \in Images \cup {NoImage}
                       /\ v.authors \subseteq Names /\ v.tags \subseteq Names
  BY DEF Parse
<1>5. QED
  BY <1>2, <1>3, <1>4, RescanAssumption

\* A row written from values, and the one pending row.
LEMMA WrittenType ==
    ASSUME NEW row \in [text : Texts, cover : BOOLEAN], NEW v \in Parse, NEW fields
    PROVE  Written(row, v, fields) \in [text : Texts, cover : BOOLEAN]
BY ParseFacts DEF Written

LEMMA SoleFacts ==
    ASSUME TypeOK, FinitePending, NEW b \in Books, HasSole(b)
    PROVE  TheSole(b) \in Parse /\ Sole(b) = {TheSole(b)}
<1>1. PICK p : pending[b] = {p}
  BY FS_Singleton DEF FinitePending, HasSole
<1>2. p.new \in Parse
  BY <1>1 DEF TypeOK
<1>3. QED
  BY <1>1, <1>2 DEF Sole, TheSole

\* What a request wants, while it carries values.
LEMMA WantedIn ==
    ASSUME TypeOK, NEW r \in Requests, new[r] # Unread, NEW g \in Groups
    PROVE  Wanted(r, g) \subseteq Names
<1>1. new[r] \in Parse
  BY DEF TypeOK
<1>2. QED
  BY <1>1, ParseFacts DEF Wanted, Groups

LEMMA StepFacts ==
    /\ \A g \in Groups : /\ Step(g, "") \in HasRow /\ Step(g, "") \notin HasFound(g)
                         /\ Step(g, "wait") \in HasRow \cap HasFound(g)
                         /\ Step(g, "insert") \in HasRow \cap HasFound(g)
                         /\ After(g) \in HasRow \cap HasFound(g) \cap HasNames(g)
                         /\ Step(g, "wait") # Step(g, "insert")
                         /\ Step(g, "") \notin HasNames(g)
                         /\ Step(g, "wait") \notin HasNames(g) /\ Step(g, "insert") \notin HasNames(g)
                         /\ After(g) # Step(g, "wait") /\ After(g) # Step(g, "insert")
    /\ HasRow \subseteq Places
    /\ \A g \in Groups : HasNames(g) \subseteq HasFound(g) /\ HasFound(g) \subseteq HasRow
    /\ "row" \notin HasRow /\ "cover" \notin HasRow /\ "writing" \notin HasRow /\ "again" \notin HasRow /\ "idle" \notin HasRow
    /\ "delete" \notin HasRow /\ "insert" \notin HasRow
BY DEF Groups, Step, After, HasRow, HasFound, HasNames, Places

\* The other group of junction rows, at a step with this one.
LEMMA OtherGroup ==
    ASSUME NEW g \in Groups, NEW h \in Groups \ {g}
    PROVE  /\ \A what \in {"wait", "insert"} :
                /\ Step(g, "") \in HasFound(h) <=> Step(g, what) \in HasFound(h)
                /\ Step(g, "") \in HasNames(h) <=> Step(g, what) \in HasNames(h)
           /\ Step(g, "") \in HasFound(h) <=> After(g) \in HasFound(h)
           /\ Step(g, "") \in HasNames(h) <=> After(g) \in HasNames(h)
           /\ \A what \in {"wait", "insert"} :
                /\ After(g) # Step(h, what) /\ Step(g, "") # Step(h, what)
                /\ Step(g, "wait") # Step(h, what) /\ Step(g, "insert") # Step(h, what)
<1>1. CASE g = "authors" /\ h = "tags"
  BY <1>1 DEF Step, After, HasFound, HasNames
<1>2. CASE g = "tags" /\ h = "authors"
  BY <1>2 DEF Step, After, HasFound, HasNames
<1>3. QED
  BY <1>1, <1>2 DEF Groups

------------------------------------------------------------------------------
\* The steps within a transaction: nothing is committed yet.
LEMMA WithinInv ==
    ASSUME RescanInv, NEW r \in Requests, NEW place \in HasRow, at[r] \in {"row"} \cup HasRow,
           Go(r, place),
           UNCHANGED <<tableVars, file, rows, edits, on, sel, first, new, sole, raced, torn>>,
           loose \subseteq loose', TypeOK', Locks', DeletesAll', NamesThere'
    PROVE  RescanInv'
<1>1. /\ TypeOK /\ at' = [at EXCEPT ![r] = place]
      /\ UNCHANGED <<book, links, names, pending, file, on, sel, first, new, sole, raced, torn>>
  BY DEF RescanInv, Go, tableVars
<1>2. at'[r] = place /\ \A o \in Requests \ {r} : at'[o] = at[o]
  BY <1>1 DEF TypeOK
<1>3. at'[r] \in HasRow /\ at[r] \notin {"idle", "delete", "insert", "cover", "writing", "again"}
      /\ at'[r] \notin {"idle", "delete", "insert", "cover", "writing", "again", "row"}
  BY <1>2 DEF HasRow
<1>4. \A b : Busy(b)' = Busy(b) /\ Sole(b)' = Sole(b) /\ HasSole(b)' = HasSole(b)
             /\ Covered(b)' = Covered(b)
  BY <1>1, <1>2, <1>3 DEF Busy, Sole, HasSole, Covered
<1>5. FinitePending' /\ LinksOfOne'
  BY <1>1 DEF RescanInv, FinitePending, LinksOfOne
<1>6. Knowing'
  BY <1>1, <1>2, <1>3 DEF RescanInv, Knowing
<1>7. ReadsSole'
  BY <1>1, <1>2, <1>3, <1>4 DEF RescanInv, ReadsSole
<1>8. Alone'
  BY <1>1, <1>2, <1>3, <1>4 DEF RescanInv, Alone, Busy
<1>9. CoversHold'
  BY <1>1, <1>2, <1>3, <1>4 DEF RescanInv, CoversHold
<1>10. QED
  BY <1>5, <1>6, <1>7, <1>8, <1>9 DEF RescanInv

\* What a move alone keeps.
LEMMA KeptLocks ==
    ASSUME RescanInv, NEW r \in Requests, NEW place \in HasRow, at[r] \in HasRow, Go(r, place),
           UNCHANGED <<book, on, sel, new, draft, lock>>
    PROVE  Locks'
<1>1. at'[r] = place /\ \A o \in Requests \ {r} : at'[o] = at[o]
  BY DEF RescanInv, TypeOK, Go
<1>2. \A o \in Requests : at'[o] \in HasRow => at[o] \in HasRow
  BY <1>1
<1>3. \A b \in Books : lock[b] # NoOne => lock[b] \in Requests
  BY DEF RescanInv, TypeOK
<1>4. QED
  BY <1>1, <1>2, <1>3 DEF RescanInv, Locks

LEMMA GoEffect ==
    ASSUME TypeOK, NEW r \in Requests, NEW place \in Places, Go(r, place)
    PROVE  /\ at' \in [Requests -> Places] /\ at'[r] = place
           /\ \A o \in Requests \ {r} : at'[o] = at[o]
BY DEF TypeOK, Go

LEMMA UpdateRowInv == ASSUME RescanInv, NEW r \in Requests, UpdateRow(r) PROVE RescanInv'
<1>1. /\ TypeOK /\ at[r] = "row" /\ Go(r, "authors") /\ "authors" \in HasRow
      /\ UNCHANGED <<tableVars, file, rows, edits, on, sel, first, new, seen, gone, missing, made,
                     sole, loose, raced, torn>>
      /\ UNCHANGED <<book, links, names, pending>>
  BY DEF RescanInv, UpdateRow, noteVars, HasRow, tableVars
<1>2. PICK b \in Books : b = on[r]
  BY <1>1 DEF TypeOK
<1>3. at'[r] = "authors" /\ \A o \in Requests \ {r} : at'[o] = at[o]
  BY <1>1 DEF TypeOK, Go
<1>4. new[r] \in Parse /\ book[b] \in [text : Texts, cover : BOOLEAN]
  BY <1>1 DEF RescanInv, Knowing, TypeOK
<1>5. \/ sel[r] \cap Scalars = {} /\ UNCHANGED <<lock, draft>>
      \/ /\ sel[r] \cap Scalars # {} /\ lock[b] = NoOne
         /\ lock' = [lock EXCEPT ![b] = r]
         /\ draft' = [draft EXCEPT ![r] = Written(book[b], new[r], sel[r])]
  <2>1. CASE sel[r] \cap Scalars = {}
    BY <2>1 DEF UpdateRow
  <2>2. CASE sel[r] \cap Scalars # {}
    BY <2>2, <1>2 DEF UpdateRow
  <2>3. QED
    BY <2>1, <2>2
<1>6. lock' \in [Books -> Requests \cup {NoOne}] /\ draft' \in [Requests -> [text : Texts, cover : BOOLEAN]]
  <2>1. Written(book[b], new[r], sel[r]) \in [text : Texts, cover : BOOLEAN]
    BY <1>4, WrittenType
  <2>2. lock \in [Books -> Requests \cup {NoOne}] /\ draft \in [Requests -> [text : Texts, cover : BOOLEAN]]
    BY <1>1 DEF TypeOK
  <2>3. QED
    BY <1>5, <2>1, <2>2
<1>7. TypeOK'
  <2>1. at' \in [Requests -> Places]
    BY <1>1, StepFacts, GoEffect
  <2>2. QED
    BY <1>1, <1>6, <2>1 DEF TypeOK
<1>8. \A c \in Books : lock[c] # r
  <2>1. \A c \in Books : lock[c] = r => at[r] \in HasRow
    BY ParseFacts DEF RescanInv, Locks
  <2>2. QED
    BY <2>1, <1>1 DEF HasRow
<1>9. Locks'
  <2>1. CASE UNCHANGED <<lock, draft>> /\ sel[r] \cap Scalars = {}
    <3>1. \A c \in Books : lock[c] # NoOne => lock[c] \in Requests \ {r}
      BY <1>1, <1>8 DEF TypeOK
    <3>2. \A c \in Books : lock'[c] # NoOne => on'[lock'[c]] = c /\ at'[lock'[c]] \in HasRow
      BY <2>1, <3>1, <1>1, <1>3 DEF RescanInv, Locks
    <3>3. ASSUME NEW o \in Requests, at'[o] \in HasRow
          PROVE  /\ sel[o] \cap Scalars # {} => lock[on[o]] = o
                 /\ lock[on[o]] = o => draft[o] = Written(book[on[o]], new[o], sel[o])
      <4>1. CASE o = r
        BY <4>1, <2>1, <1>2, <1>8
      <4>2. CASE o # r
        BY <4>2, <3>3, <1>3 DEF RescanInv, Locks
      <4>3. QED
        BY <4>1, <4>2
    <3>4. QED
      BY <2>1, <3>2, <3>3, <1>1 DEF Locks
  <2>2. CASE /\ lock[b] = NoOne /\ lock' = [lock EXCEPT ![b] = r]
             /\ draft' = [draft EXCEPT ![r] = Written(book[b], new[r], sel[r])]
    <3>1. /\ lock'[b] = r /\ \A c \in Books \ {b} : lock'[c] = lock[c]
          /\ draft'[r] = Written(book[b], new[r], sel[r])
          /\ \A o \in Requests \ {r} : draft'[o] = draft[o]
      BY <2>2, <1>1 DEF TypeOK
    <3>2. \A c \in Books \ {b} : lock[c] # NoOne => lock[c] \in Requests \ {r}
      BY <1>1, <1>8 DEF TypeOK
    <3>3. \A c \in Books : lock'[c] # NoOne => on'[lock'[c]] = c /\ at'[lock'[c]] \in HasRow
      BY <3>1, <3>2, <1>1, <1>2, <1>3 DEF RescanInv, Locks
    <3>4. ASSUME NEW o \in Requests, at'[o] \in HasRow
          PROVE  /\ sel[o] \cap Scalars # {} => lock'[on[o]] = o
                 /\ lock'[on[o]] = o => draft'[o] = Written(book[on[o]], new[o], sel[o])
      <4>1. CASE o = r
        BY <4>1, <3>1, <1>2
      <4>2. CASE o # r
        <5>1. on[o] \in Books /\ at[o] \in HasRow
          BY <4>2, <3>4, <1>1, <1>3 DEF TypeOK
        <5>2. /\ sel[o] \cap Scalars # {} => lock[on[o]] = o
              /\ lock[on[o]] = o => draft[o] = Written(book[on[o]], new[o], sel[o])
          BY <5>1 DEF RescanInv, Locks
        <5>3. lock[b] # o
          BY <2>2, ParseFacts
        <5>4. QED
          BY <4>2, <5>1, <5>2, <5>3, <3>1
      <4>3. QED
        BY <4>1, <4>2
    <3>5. QED
      BY <3>3, <3>4, <1>1 DEF Locks
  <2>3. QED
    BY <1>5, <2>1, <2>2
<1>10. DeletesAll'
  <2>1. ASSUME NEW o \in Requests, NEW g \in Groups, g \in sel[o], on[o] \notin loose,
               at'[o] \in HasFound(g)
        PROVE  /\ lock'[on[o]] = o
               /\ links[on[o]][g] \subseteq IF at'[o] = Step(g, "wait") THEN seen[o] ELSE gone[o]
    <3>1. o # r
      BY <2>1, <1>3 DEF HasFound
    <3>2. /\ lock[on[o]] = o /\ on[o] \in Books
          /\ links[on[o]][g] \subseteq IF at[o] = Step(g, "wait") THEN seen[o] ELSE gone[o]
      BY <2>1, <3>1, <1>1, <1>3 DEF RescanInv, DeletesAll, TypeOK
    <3>3. lock'[on[o]] = o
      BY <3>1, <3>2, <1>1, <1>5, ParseFacts DEF TypeOK
    <3>4. QED
      BY <3>1, <3>2, <3>3, <1>3
  <2>2. QED
    BY <2>1, <1>1 DEF DeletesAll
<1>11. NamesThere'
  <2>1. \A o \in Requests, g \in Groups : \A n : Wanted(o, g)' = Wanted(o, g)
                                                  /\ KnownRows(g, n)' = KnownRows(g, n)
    BY <1>1 DEF Wanted, Editing, KnownRows
  <2>2. \A g \in Groups : "authors" # Step(g, "insert") /\ "authors" \notin HasNames(g)
    BY DEF Step, Groups, HasNames
  <2>3. QED
    BY <2>1, <2>2, <1>1, <1>3 DEF RescanInv, NamesThere
<1>12. QED
  BY <1>1, <1>7, <1>9, <1>10, <1>11, WithinInv

LEMMA SkipInv == ASSUME RescanInv, NEW r \in Requests, NEW g \in Groups, Skip(r, g) PROVE RescanInv'
<1>1. /\ TypeOK /\ at[r] = Step(g, "") /\ g \notin sel[r] /\ Go(r, After(g))
      /\ UNCHANGED <<tableVars, file, rows, edits, on, sel, first, new, draft, seen, gone, missing,
                     made, lock, sole, loose, raced, torn>>
      /\ UNCHANGED <<book, links, names, pending>>
  BY DEF RescanInv, Skip, txVars, noteVars, tableVars
<1>2. at'[r] = After(g) /\ \A o \in Requests \ {r} : at'[o] = at[o]
  BY <1>1 DEF TypeOK, Go
<1>3. TypeOK'
  <2>1. After(g) \in Places
    BY StepFacts
  <2>2. QED
    BY <1>1, <2>1 DEF TypeOK, Go
<1>4. Locks'
  BY <1>1, StepFacts, KeptLocks
<1>5. DeletesAll'
  <2>1. ASSUME NEW o \in Requests, NEW h \in Groups, h \in sel[o], on[o] \notin loose,
               at'[o] \in HasFound(h)
        PROVE  /\ lock[on[o]] = o
               /\ links[on[o]][h] \subseteq IF at'[o] = Step(h, "wait") THEN seen[o] ELSE gone[o]
    <3>1. CASE o = r
      <4>1. h # g
        BY <3>1, <2>1, <1>1
      <4>2. at[o] \in HasFound(h) /\ at[o] # Step(h, "wait") /\ at'[o] # Step(h, "wait")
        BY <3>1, <4>1, <2>1, <1>1, <1>2, OtherGroup
      <4>3. QED
        BY <4>2, <2>1 DEF RescanInv, DeletesAll
    <3>2. CASE o # r
      BY <3>2, <2>1, <1>2 DEF RescanInv, DeletesAll
    <3>3. QED
      BY <3>1, <3>2
  <2>2. QED
    BY <2>1, <1>1 DEF DeletesAll
<1>6. NamesThere'
  <2>1. \A o \in Requests, h \in Groups : \A n : Wanted(o, h)' = Wanted(o, h)
                                                  /\ KnownRows(h, n)' = KnownRows(h, n)
    BY <1>1 DEF Wanted, Editing, KnownRows
  <2>2. \A h \in Groups \ {g} : /\ After(g) # Step(h, "insert")
                                /\ Step(g, "") \in HasNames(h) <=> After(g) \in HasNames(h)
    BY OtherGroup
  <2>3. ASSUME NEW o \in Requests, NEW h \in Groups, NEW n \in Names, h \in sel[o], KnownRows(h, n) = {}
        PROVE  /\ at'[o] = Step(h, "insert") /\ n \in Wanted(o, h) => n \in missing[o]
               /\ at'[o] \in HasNames(h) /\ n \in Wanted(o, h) => n \in made[o][h]
    <3>1. CASE o = r
      <4>1. h \in Groups \ {g}
        BY <3>1, <2>3, <1>1
      <4>2. at'[o] # Step(h, "insert") /\ (at'[o] \in HasNames(h) => at[o] \in HasNames(h))
        BY <3>1, <4>1, <2>2, <1>1, <1>2
      <4>3. QED
        BY <4>2, <2>3 DEF RescanInv, NamesThere
    <3>2. CASE o # r
      BY <3>2, <2>3, <1>2 DEF RescanInv, NamesThere
    <3>3. QED
      BY <3>1, <3>2
  <2>4. QED
    BY <2>1, <2>3, <1>1 DEF NamesThere
<1>7. QED
  BY <1>1, <1>3, <1>4, <1>5, <1>6, StepFacts, WithinInv
\* Within a transaction the names that are there and the wanted ones stay.
LEMMA SameWanted ==
    ASSUME UNCHANGED <<names, first, new>>
    PROVE  \A o, g, n : Wanted(o, g)' = Wanted(o, g) /\ KnownRows(g, n)' = KnownRows(g, n)
BY DEF Wanted, Editing, KnownRows

LEMMA FindLinksInv ==
    ASSUME RescanInv, NEW r \in Requests, NEW g \in Groups, FindLinks(r, g) PROVE RescanInv'
<1>1. /\ TypeOK /\ at[r] = Step(g, "") /\ g \in sel[r] /\ Go(r, Step(g, "wait"))
      /\ seen' = [seen EXCEPT ![r] = links[on[r]][g]]
      /\ loose' = IF lock[on[r]] = r THEN loose ELSE loose \cup {on[r]}
      /\ UNCHANGED <<tableVars, file, rows, edits, on, sel, first, new, draft, gone, missing, made,
                     lock, sole, raced, torn>>
      /\ UNCHANGED <<book, links, names, pending>>
  BY DEF RescanInv, FindLinks, tableVars
<1>2. /\ at' \in [Requests -> Places] /\ at'[r] = Step(g, "wait")
      /\ \A o \in Requests \ {r} : at'[o] = at[o]
  BY <1>1, StepFacts, GoEffect
<1>3. on[r] \in Books /\ links[on[r]][g] \subseteq Link
  <2>1. on[r] \in Books /\ links \in [Books -> [Groups -> SUBSET Link]]
    BY <1>1 DEF TypeOK
  <2>2. links[on[r]] \in [Groups -> SUBSET Link]
    BY <2>1
  <2>3. QED
    BY <2>1, <2>2
<1>4. /\ seen' \in [Requests -> SUBSET Link] /\ seen'[r] = links[on[r]][g]
      /\ \A o \in Requests \ {r} : seen'[o] = seen[o]
      /\ loose \subseteq loose' /\ loose' \subseteq Books
      /\ on[r] \notin loose' => lock[on[r]] = r
  BY <1>1, <1>3 DEF TypeOK
<1>5. TypeOK'
  BY <1>1, <1>2, <1>4 DEF TypeOK
<1>6. Locks'
  BY <1>1, StepFacts, KeptLocks
<1>7. DeletesAll'
  <2>1. ASSUME NEW o \in Requests, NEW h \in Groups, h \in sel[o], on[o] \notin loose',
               at'[o] \in HasFound(h)
        PROVE  /\ lock[on[o]] = o
               /\ links[on[o]][h] \subseteq IF at'[o] = Step(h, "wait") THEN seen'[o] ELSE gone[o]
    <3>1. CASE o = r /\ h = g
      BY <3>1, <2>1, <1>2, <1>4
    <3>2. CASE o = r /\ h # g
      <4>1. at[o] \in HasFound(h) /\ at[o] # Step(h, "wait") /\ at'[o] # Step(h, "wait")
        BY <3>2, <2>1, <1>1, <1>2, OtherGroup
      <4>2. QED
        BY <4>1, <2>1, <1>4 DEF RescanInv, DeletesAll
    <3>3. CASE o # r
      BY <3>3, <2>1, <1>2, <1>4 DEF RescanInv, DeletesAll
    <3>4. QED
      BY <3>1, <3>2, <3>3
  <2>2. QED
    BY <2>1, <1>1 DEF DeletesAll
<1>8. NamesThere'
  <2>1. ASSUME NEW o \in Requests, NEW h \in Groups, NEW n \in Names, h \in sel[o], KnownRows(h, n) = {}
        PROVE  /\ at'[o] = Step(h, "insert") /\ n \in Wanted(o, h) => n \in missing[o]
               /\ at'[o] \in HasNames(h) /\ n \in Wanted(o, h) => n \in made[o][h]
    <3>1. CASE o = r /\ h = g
      BY <3>1, <1>2, StepFacts
    <3>2. CASE o = r /\ h # g
      <4>1. at'[o] # Step(h, "insert") /\ (at'[o] \in HasNames(h) => at[o] \in HasNames(h))
        BY <3>2, <1>1, <1>2, OtherGroup
      <4>2. QED
        BY <4>1, <2>1 DEF RescanInv, NamesThere
    <3>3. CASE o # r
      BY <3>3, <2>1, <1>2 DEF RescanInv, NamesThere
    <3>4. QED
      BY <3>1, <3>2, <3>3
  <2>2. QED
    BY <2>1, <1>1, SameWanted DEF NamesThere
<1>9. QED
  BY <1>1, <1>4, <1>5, <1>6, <1>7, <1>8, StepFacts, WithinInv

LEMMA DeleteLinksInv ==
    ASSUME RescanInv, NEW r \in Requests, NEW g \in Groups, DeleteLinks(r, g) PROVE RescanInv'
<1>1. /\ TypeOK /\ at[r] = Step(g, "wait") /\ Go(r, Step(g, "insert"))
      /\ gone' = [gone EXCEPT ![r] = gone[r] \cup (seen[r] \cap links[on[r]][g])]
      /\ seen' = [seen EXCEPT ![r] = {}]
      /\ missing' = [missing EXCEPT ![r] = {n \in Wanted(r, g) : KnownRows(g, n) = {}}]
      /\ UNCHANGED <<tableVars, file, rows, edits, on, sel, first, new, draft, made, lock, sole, loose,
                     raced, torn>>
      /\ UNCHANGED <<book, links, names, pending>>
  BY DEF RescanInv, DeleteLinks, tableVars, noteVars, TypeOK
<1>2. /\ at' \in [Requests -> Places] /\ at'[r] = Step(g, "insert")
      /\ \A o \in Requests \ {r} : at'[o] = at[o]
  BY <1>1, StepFacts, GoEffect
<1>3. new[r] # Unread
  BY <1>1, StepFacts DEF RescanInv, Knowing
<1>4. Wanted(r, g) \subseteq Names /\ on[r] \in Books
  BY <1>1, <1>3, WantedIn DEF TypeOK
<1>5. /\ gone' \in [Requests -> SUBSET Link] /\ seen' \in [Requests -> SUBSET Link]
      /\ gone'[r] = gone[r] \cup (seen[r] \cap links[on[r]][g])
      /\ \A o \in Requests \ {r} : gone'[o] = gone[o] /\ seen'[o] = seen[o]
  BY <1>1 DEF TypeOK
<1>6. /\ missing' \in [Requests -> SUBSET Names]
      /\ missing'[r] = {n \in Wanted(r, g) : KnownRows(g, n) = {}}
      /\ \A o \in Requests \ {r} : missing'[o] = missing[o]
  BY <1>1, <1>4 DEF TypeOK
<1>7. TypeOK'
  BY <1>1, <1>2, <1>5, <1>6 DEF TypeOK
<1>8. Locks'
  BY <1>1, StepFacts, KeptLocks
<1>9. DeletesAll'
  <2>1. ASSUME NEW o \in Requests, NEW h \in Groups, h \in sel[o], on[o] \notin loose,
               at'[o] \in HasFound(h)
        PROVE  /\ lock[on[o]] = o
               /\ links[on[o]][h] \subseteq IF at'[o] = Step(h, "wait") THEN seen'[o] ELSE gone'[o]
    <3>1. CASE o = r /\ h = g
      <4>0. at[o] \in HasFound(h) /\ at[o] = Step(h, "wait")
        BY <3>1, <1>1, StepFacts
      <4>1. lock[on[o]] = o /\ links[on[o]][h] \subseteq seen[o]
        BY <4>0, <2>1 DEF RescanInv, DeletesAll
      <4>2. at'[o] # Step(h, "wait")
        BY <3>1, <1>2, StepFacts
      <4>3. QED
        BY <3>1, <4>1, <4>2, <1>5
    <3>2. CASE o = r /\ h # g
      <4>1. at[o] \in HasFound(h) /\ at[o] # Step(h, "wait") /\ at'[o] # Step(h, "wait")
        BY <3>2, <2>1, <1>1, <1>2, OtherGroup
      <4>2. lock[on[o]] = o /\ links[on[o]][h] \subseteq gone[o]
        BY <4>1, <2>1 DEF RescanInv, DeletesAll
      <4>3. QED
        BY <3>2, <4>1, <4>2, <1>5
    <3>3. CASE o # r
      BY <3>3, <2>1, <1>2, <1>5 DEF RescanInv, DeletesAll
    <3>4. QED
      BY <3>1, <3>2, <3>3
  <2>2. QED
    BY <2>1, <1>1 DEF DeletesAll
<1>10. NamesThere'
  <2>1. ASSUME NEW o \in Requests, NEW h \in Groups, NEW n \in Names, h \in sel[o], KnownRows(h, n) = {}
        PROVE  /\ at'[o] = Step(h, "insert") /\ n \in Wanted(o, h) => n \in missing'[o]
               /\ at'[o] \in HasNames(h) /\ n \in Wanted(o, h) => n \in made[o][h]
    <3>1. CASE o = r /\ h = g
      BY <3>1, <2>1, <1>2, <1>6, StepFacts
    <3>2. CASE o = r /\ h # g
      <4>1. at'[o] # Step(h, "insert") /\ (at'[o] \in HasNames(h) => at[o] \in HasNames(h))
        BY <3>2, <1>1, <1>2, OtherGroup
      <4>2. QED
        BY <4>1, <2>1 DEF RescanInv, NamesThere
    <3>3. CASE o # r
      BY <3>3, <2>1, <1>2, <1>6 DEF RescanInv, NamesThere
    <3>4. QED
      BY <3>1, <3>2, <3>3
  <2>2. QED
    BY <2>1, <1>1, SameWanted DEF NamesThere
<1>11. QED
  BY <1>1, <1>7, <1>8, <1>9, <1>10, StepFacts, WithinInv

LEMMA InsertLinksInv ==
    ASSUME RescanInv, NEW r \in Requests, NEW g \in Groups, InsertLinks(r, g) PROVE RescanInv'
<1>1. /\ TypeOK /\ at[r] = Step(g, "insert") /\ Go(r, After(g))
      /\ made' = [made EXCEPT ![r][g] = missing[r]]
      /\ missing' = [missing EXCEPT ![r] = {}]
      /\ UNCHANGED <<tableVars, file, rows, edits, on, sel, first, new, draft, seen, gone, lock, sole,
                     loose, raced, torn>>
      /\ UNCHANGED <<book, links, names, pending>>
  BY DEF RescanInv, InsertLinks, tableVars, noteVars
<1>2. /\ at' \in [Requests -> Places] /\ at'[r] = After(g)
      /\ \A o \in Requests \ {r} : at'[o] = at[o]
  BY <1>1, StepFacts, GoEffect
<1>3. /\ made' \in [Requests -> [Groups -> SUBSET Names]] /\ made'[r][g] = missing[r]
      /\ \A h \in Groups \ {g} : made'[r][h] = made[r][h]
      /\ \A o \in Requests \ {r} : made'[o] = made[o]
      /\ missing' \in [Requests -> SUBSET Names]
      /\ \A o \in Requests \ {r} : missing'[o] = missing[o]
  BY <1>1 DEF TypeOK
<1>4. TypeOK'
  BY <1>1, <1>2, <1>3 DEF TypeOK
<1>5. Locks'
  BY <1>1, StepFacts, KeptLocks
<1>6. DeletesAll'
  <2>1. ASSUME NEW o \in Requests, NEW h \in Groups, h \in sel[o], on[o] \notin loose,
               at'[o] \in HasFound(h)
        PROVE  /\ lock[on[o]] = o
               /\ links[on[o]][h] \subseteq IF at'[o] = Step(h, "wait") THEN seen[o] ELSE gone[o]
    <3>1. CASE o = r
      <4>1. at[o] \in HasFound(h) /\ at[o] # Step(h, "wait") /\ at'[o] # Step(h, "wait")
        <5>1. CASE h = g
          BY <3>1, <5>1, <1>1, <1>2, StepFacts
        <5>2. CASE h # g
          BY <3>1, <5>2, <2>1, <1>1, <1>2, OtherGroup
        <5>3. QED
          BY <5>1, <5>2
      <4>2. QED
        BY <4>1, <2>1 DEF RescanInv, DeletesAll
    <3>2. CASE o # r
      BY <3>2, <2>1, <1>2 DEF RescanInv, DeletesAll
    <3>3. QED
      BY <3>1, <3>2
  <2>2. QED
    BY <2>1, <1>1 DEF DeletesAll
<1>7. NamesThere'
  <2>1. ASSUME NEW o \in Requests, NEW h \in Groups, NEW n \in Names, h \in sel[o], KnownRows(h, n) = {}
        PROVE  /\ at'[o] = Step(h, "insert") /\ n \in Wanted(o, h) => n \in missing'[o]
               /\ at'[o] \in HasNames(h) /\ n \in Wanted(o, h) => n \in made'[o][h]
    <3>1. CASE o = r /\ h = g
      <4>1. n \in Wanted(o, h) => n \in missing[o]
        BY <3>1, <2>1, <1>1 DEF RescanInv, NamesThere
      <4>2. at'[o] # Step(h, "insert")
        BY <3>1, <1>2, StepFacts
      <4>3. QED
        BY <3>1, <4>1, <4>2, <1>3
    <3>2. CASE o = r /\ h # g
      <4>1. at'[o] # Step(h, "insert") /\ (at'[o] \in HasNames(h) => at[o] \in HasNames(h))
        BY <3>2, <1>1, <1>2, OtherGroup
      <4>2. QED
        BY <3>2, <4>1, <2>1, <1>3 DEF RescanInv, NamesThere
    <3>3. CASE o # r
      BY <3>3, <2>1, <1>2, <1>3 DEF RescanInv, NamesThere
    <3>4. QED
      BY <3>1, <3>2, <3>3
  <2>2. QED
    BY <2>1, <1>1, SameWanted DEF NamesThere
<1>8. QED
  BY <1>1, <1>4, <1>5, <1>6, <1>7, StepFacts, WithinInv
------------------------------------------------------------------------------
\* A request begins on a book.
LEMMA BeginInv ==
    ASSUME RescanInv, NEW r \in Requests, NEW b \in Books, Begin(r, b),
           NEW place \in {"delete", "cover", "row"}, Go(r, place), TypeOK',
           UNCHANGED <<tableVars, file, lock, draft, seen, gone, missing, made, loose, torn>>,
           \A o \in Requests \ {r} : /\ sel'[o] = sel[o] /\ first'[o] = first[o]
                                     /\ new'[o] = new[o] /\ sole'[o] = sole[o],
           place = "cover" <=> first'[r] # Unread,
           place = "cover" => Sole(b) = {first'[r]} /\ Sole(b) \subseteq sole'[r],
           place = "delete" => sel'[r] = {},
           place # "cover" => new'[r] # Unread /\ "cover" \notin sel'[r]
    PROVE  RescanInv'
<1>1. /\ TypeOK /\ at[r] = "idle" /\ on' = [on EXCEPT ![r] = b]
      /\ raced' = IF Busy(b) = {} THEN raced ELSE raced \cup {b}
      /\ UNCHANGED <<book, links, names, pending, file, lock, draft, seen, gone, missing, made, loose, torn>>
  BY DEF RescanInv, Begin, tableVars
<1>2. /\ at'[r] = place /\ on'[r] = b
      /\ \A o \in Requests \ {r} : at'[o] = at[o] /\ on'[o] = on[o]
  <2>1. place \in Places
    BY DEF Places
  <2>2. QED
    BY <1>1, <2>1, GoEffect DEF TypeOK
<1>3. place \notin HasRow /\ \A g \in Groups : place \notin HasFound(g) /\ place \notin HasNames(g)
                                               /\ place # Step(g, "insert")
  BY DEF HasRow, HasFound, HasNames, Groups, Step
<1>4. FinitePending' /\ LinksOfOne'
  BY <1>1 DEF RescanInv, FinitePending, LinksOfOne
<1>5. Knowing'
  BY <1>2, <1>3 DEF RescanInv, Knowing
<1>6. Locks'
  <2>1. \A c \in Books : lock[c] # NoOne =>
            lock[c] \in Requests \ {r} /\ on[lock[c]] = c /\ at[lock[c]] \in HasRow
    <3>1. \A c \in Books : lock[c] # NoOne => lock[c] \in Requests
      BY <1>1 DEF TypeOK
    <3>2. \A c \in Books : lock[c] # NoOne => on[lock[c]] = c /\ at[lock[c]] \in HasRow
      BY DEF RescanInv, Locks
    <3>3. at[r] \notin HasRow
      BY <1>1 DEF HasRow
    <3>4. QED
      BY <3>1, <3>2, <3>3
  <2>2. \A c \in Books : lock[c] # NoOne => on'[lock[c]] = c /\ at'[lock[c]] \in HasRow
    BY <2>1, <1>2
  <2>3. \A o \in Requests : at'[o] \in HasRow => o # r /\ at[o] \in HasRow
    BY <1>2, <1>3
  <2>4. QED
    BY <2>2, <2>3, <1>1, <1>2 DEF RescanInv, Locks
<1>7. DeletesAll'
  BY <1>1, <1>2, <1>3 DEF RescanInv, DeletesAll
<1>8. NamesThere'
  <2>1. \A o \in Requests \ {r}, g \in Groups : Wanted(o, g)' = Wanted(o, g)
    BY DEF Wanted, Editing
  <2>2. \A g, n : KnownRows(g, n)' = KnownRows(g, n)
    BY <1>1 DEF KnownRows
  <2>3. QED
    BY <2>1, <2>2, <1>1, <1>2, <1>3 DEF RescanInv, NamesThere
<1>9. \A c : Sole(c)' = Sole(c) /\ HasSole(c)' = HasSole(c) /\ Covered(c)' = Covered(c)
  BY <1>1 DEF Sole, HasSole, Covered
<1>10. ReadsSole'
  <2>1. place # "row" \/ first'[r] = Unread
    OBVIOUS
  <2>2. QED
    BY <2>1, <1>2, <1>3, <1>9 DEF RescanInv, ReadsSole
<1>11. \A c \in Books \ {b} : Busy(c)' = Busy(c)
  BY <1>1, <1>2 DEF Busy
<1>12. Busy(b)' = Busy(b) \cup {r} /\ r \notin Busy(b)
  BY <1>1, <1>2 DEF Busy
<1>13. Alone'
  <2>1. ASSUME NEW c \in Books \ raced', NEW o \in Busy(c)'
        PROVE  /\ \A q \in Busy(c)' : q = o
               /\ at'[o] \in {"cover", "writing", "again"} => Sole(c) = {first'[o]}
               /\ first'[o] # Unread /\ at'[o] \in {"row"} \cup HasRow => new'[o] = first'[o]
               /\ "cover" \in sel'[o] /\ at'[o] \notin {"cover", "writing"} => file[c] = first'[o].cover
               /\ at'[o] = "writing" => file[c] = Partial
    <3>1. CASE c = b
      <4>1. o = r /\ Busy(c)' = {r}
        BY <3>1, <2>1, <1>1, <1>12
      <4>2. QED
        BY <3>1, <4>1, <1>2, <1>3
    <3>2. CASE c # b
      <4>1. o \in Busy(c) /\ o \in Requests \ {r} /\ c \notin raced
        BY <3>2, <2>1, <1>1, <1>11 DEF Busy
      <4>2. QED
        BY <3>2, <4>1, <1>2, <1>11 DEF RescanInv, Alone
    <3>3. QED
      BY <3>1, <3>2
  <2>2. QED
    BY <2>1, <1>1, <1>9 DEF Alone
<1>14. CoversHold'
  <2>1. ASSUME NEW c \in Books \ (raced' \cup torn),
               \A o \in Busy(c)' : "cover" \in sel'[o] => at'[o] = "cover"
        PROVE  Covered(c)
    <3>1. c \notin raced
      BY <2>1, <1>1
    <3>2. \A o \in Busy(c) : o \in Requests \ {r} /\ o \in Busy(c)'
      BY <1>1, <1>11, <1>12 DEF Busy
    <3>3. \A o \in Busy(c) : "cover" \in sel[o] => at[o] = "cover"
      BY <3>2, <2>1, <1>2
    <3>4. QED
      BY <3>1, <3>3 DEF RescanInv, CoversHold
  <2>2. QED
    BY <2>1, <1>1, <1>9 DEF CoversHold
<1>15. QED
  BY <1>4, <1>5, <1>6, <1>7, <1>8, <1>10, <1>13, <1>14 DEF RescanInv

\* What Begin writes.
LEMMA BeginTypes ==
    ASSUME TypeOK, NEW r \in Requests, NEW b \in Books, Begin(r, b)
    PROVE  on' \in [Requests -> Books] /\ raced' \subseteq Books
BY DEF TypeOK, Begin

LEMMA PreviewInv == ASSUME RescanInv, NEW r \in Requests, NEW b \in Books, Preview(r, b) PROVE RescanInv'
<1>1. /\ TypeOK /\ at[r] = "idle" /\ Begin(r, b) /\ Go(r, "delete") /\ "delete" \in Places
      /\ UNCHANGED <<tableVars, file, rows, edits, sel, first, draft, seen, gone, missing, made, lock,
                     sole, loose, torn>>
      /\ UNCHANGED <<book, links, names, pending>>
  BY DEF RescanInv, Preview, Begin, tableVars, Places
<1>2. PICK v \in Parse : new' = [new EXCEPT ![r] = v]
  BY ParseFacts DEF Preview
<1>3. /\ new' \in [Requests -> Parse \cup {Unread}] /\ new'[r] # Unread
      /\ \A o \in Requests \ {r} : new'[o] = new[o]
  BY <1>1, <1>2, ParseFacts DEF TypeOK
<1>4. TypeOK'
  BY <1>1, <1>3, GoEffect, BeginTypes DEF TypeOK
<1>5. first[r] = Unread /\ sel[r] = {}
  BY <1>1 DEF RescanInv, Knowing
<1>6. QED
  BY <1>1, <1>3, <1>4, <1>5, BeginInv

LEMMA ApproveInv ==
    ASSUME RescanInv, NEW r \in Requests, NEW b \in Books, NEW fields \in SUBSET Fields,
           Approve(r, b, fields)
    PROVE  RescanInv'
<1>1. /\ TypeOK /\ FinitePending /\ HasSole(b) /\ Begin(r, b) /\ Go(r, "cover") /\ "cover" \in Places
      /\ sel' = [sel EXCEPT ![r] = fields] /\ first' = [first EXCEPT ![r] = TheSole(b)]
      /\ sole' = [sole EXCEPT ![r] = Sole(b)]
      /\ UNCHANGED <<tableVars, file, rows, edits, new, draft, seen, gone, missing, made, lock, loose, torn>>
      /\ UNCHANGED <<book, links, names, pending>>
  BY DEF RescanInv, Approve, tableVars, txVars, Places
<1>2. TheSole(b) \in Parse /\ Sole(b) = {TheSole(b)}
  BY <1>1, SoleFacts
<1>3. /\ sel' \in [Requests -> SUBSET Fields] /\ first' \in [Requests -> Parse \cup {Unread}]
      /\ sole' \in [Requests -> SUBSET Parse]
      /\ first'[r] = TheSole(b) /\ sole'[r] = Sole(b)
      /\ \A o \in Requests \ {r} : sel'[o] = sel[o] /\ first'[o] = first[o] /\ sole'[o] = sole[o]
  BY <1>1, <1>2 DEF TypeOK
<1>4. TypeOK'
  BY <1>1, <1>3, GoEffect, BeginTypes DEF TypeOK
<1>5. first'[r] # Unread
  BY <1>2, <1>3, ParseFacts
<1>6. QED
  BY <1>1, <1>2, <1>3, <1>4, <1>5, BeginInv

LEMMA EditInv == ASSUME RescanInv, NEW r \in Requests, NEW b \in Books, Edit(r, b) PROVE RescanInv'
<1>1. /\ TypeOK /\ Begin(r, b) /\ Go(r, "row") /\ "row" \in Places
      /\ edits < MaxEdits /\ edits' = edits + 1 /\ first' = [first EXCEPT ![r] = Unread]
      /\ UNCHANGED <<tableVars, file, rows, draft, seen, gone, missing, made, lock, sole, loose, torn>>
      /\ UNCHANGED <<book, links, names, pending>>
  BY DEF RescanInv, Edit, tableVars, Places
<1>2. PICK e \in Edits : sel' = [sel EXCEPT ![r] = e.sel] /\ new' = [new EXCEPT ![r] = e.new]
  BY DEF Edit
<1>3. e.sel \subseteq {"text", "authors"} /\ e.new \in Parse
  BY RescanAssumption
<1>4. /\ sel' \in [Requests -> SUBSET Fields] /\ new' \in [Requests -> Parse \cup {Unread}]
      /\ sel'[r] = e.sel /\ new'[r] = e.new
      /\ \A o \in Requests \ {r} : sel'[o] = sel[o] /\ new'[o] = new[o]
  BY <1>1, <1>2, <1>3 DEF TypeOK, Fields, Scalars, Groups
<1>5. /\ first' \in [Requests -> Parse \cup {Unread}] /\ first'[r] = Unread
      /\ \A o \in Requests \ {r} : first'[o] = first[o]
      /\ edits' \in 0..MaxEdits
  BY <1>1, RescanAssumption DEF TypeOK
<1>6. TypeOK'
  BY <1>1, <1>4, <1>5, GoEffect, BeginTypes DEF TypeOK
<1>7. new'[r] # Unread /\ "cover" \notin sel'[r]
  BY <1>3, <1>4, ParseFacts
<1>8. QED
  BY <1>1, <1>4, <1>5, <1>6, <1>7, BeginInv
------------------------------------------------------------------------------
\* The pending rows change, and who waits for them notes it.
LEMMA SetEffect ==
    ASSUME TypeOK, NEW b \in Books, NEW ps \in SUBSET [id : 1..MaxRows, new : Parse], SetPending(b, ps)
    PROVE  /\ pending' \in [Books -> SUBSET [id : 1..MaxRows, new : Parse]]
           /\ pending'[b] = ps /\ \A c \in Books \ {b} : pending'[c] = pending[c]
           /\ sole' \in [Requests -> SUBSET Parse]
           /\ \A o \in Requests : sole[o] \subseteq sole'[o]
           /\ \A o \in Busy(b) : first[o] # Unread /\ Cardinality(ps) = 1 =>
                                    \A p \in ps : p.new \in sole'[o]
BY DEF TypeOK, SetPending, Busy

LEMMA SetReads ==
    ASSUME RescanInv, NEW b \in Books, NEW ps \in SUBSET [id : 1..MaxRows, new : Parse], SetPending(b, ps),
           \A o \in Requests : first'[o] # Unread => /\ first'[o] = first[o] /\ at'[o] = at[o]
                                                     /\ on'[o] = on[o] /\ new'[o] = new[o]
    PROVE  ReadsSole'
<1>1. TypeOK /\ \A o \in Requests : on[o] \in Books
  BY DEF RescanInv, TypeOK
<1>2. ASSUME NEW o \in Requests, first'[o] # Unread
      PROVE  /\ at'[o] \in {"cover", "writing", "again"} /\ HasSole(on[o])' => Sole(on[o])' \subseteq sole'[o]
             /\ at'[o] \in {"row"} \cup HasRow => new'[o] \in sole'[o]
  <2>1. /\ first'[o] = first[o] /\ at'[o] = at[o] /\ on'[o] = on[o] /\ new'[o] = new[o]
        /\ sole[o] \subseteq sole'[o] /\ on[o] \in Books
    BY <1>1, <1>2, SetEffect
  <2>2. at[o] \in {"row"} \cup HasRow => new[o] \in sole[o]
    BY <1>2, <2>1 DEF RescanInv, ReadsSole
  <2>3. ASSUME at[o] \in {"cover", "writing", "again"}, Cardinality(pending'[on[o]]) = 1
        PROVE  \A p \in pending'[on[o]] : p.new \in sole'[o]
    <3>1. CASE on[o] = b
      <4>1. o \in Busy(b)
        BY <3>1, <2>3 DEF Busy
      <4>2. QED
        BY <3>1, <4>1, <2>1, <2>3, <1>1, <1>2, SetEffect
    <3>2. CASE on[o] # b
      <4>1. pending'[on[o]] = pending[on[o]]
        BY <3>2, <2>1, <1>1, SetEffect
      <4>2. Sole(on[o]) \subseteq sole[o]
        BY <4>1, <2>1, <2>3, <1>2 DEF RescanInv, ReadsSole, HasSole
      <4>3. QED
        BY <4>1, <4>2, <2>1 DEF Sole
    <3>3. QED
      BY <3>1, <3>2
  <2>4. QED
    BY <2>1, <2>2, <2>3 DEF HasSole, Sole
<1>3. QED
  BY <1>2 DEF ReadsSole

LEMMA DeletePendingInv == ASSUME RescanInv, NEW r \in Requests, DeletePending(r) PROVE RescanInv'
<1>1. /\ TypeOK /\ at[r] = "delete" /\ SetPending(on[r], {}) /\ Go(r, "insert") /\ "insert" \in Places
      /\ UNCHANGED <<book, links, names, file, rows, edits, on, sel, first, txVars, lock, loose, raced, torn>>
      /\ UNCHANGED <<new, draft, seen, gone, missing, made>>
  BY DEF RescanInv, DeletePending, txVars, Places
<1>2. PICK b \in Books : b = on[r]
  BY <1>1 DEF TypeOK
<1>3. /\ pending' \in [Books -> SUBSET [id : 1..MaxRows, new : Parse]]
      /\ pending'[b] = {} /\ \A c \in Books \ {b} : pending'[c] = pending[c]
      /\ sole' \in [Requests -> SUBSET Parse]
  BY <1>1, <1>2, SetEffect
<1>4. /\ at' \in [Requests -> Places] /\ at'[r] = "insert"
      /\ \A o \in Requests \ {r} : at'[o] = at[o]
  BY <1>1, GoEffect
<1>5. TypeOK'
  BY <1>1, <1>3, <1>4 DEF TypeOK
<1>6. FinitePending' /\ LinksOfOne'
  <2>1. \A c \in Books : pending'[c] = {} \/ pending'[c] = pending[c]
    BY <1>3
  <2>2. FinitePending'
    BY <2>1, FS_EmptySet DEF RescanInv, FinitePending
  <2>3. LinksOfOne'
    BY <1>1 DEF RescanInv, LinksOfOne
  <2>4. QED
    BY <2>2, <2>3
<1>7. Knowing'
  BY <1>1, <1>4, StepFacts DEF RescanInv, Knowing
<1>8. first[r] = Unread /\ sel[r] = {}
  BY <1>1 DEF RescanInv, Knowing
<1>9. \A o \in Requests : at'[o] # at[o] => at[o] = "delete" /\ at'[o] = "insert"
  BY <1>1, <1>4
<1>10. "insert" \notin HasRow /\ "delete" \notin HasRow
       /\ \A g \in Groups : "insert" \notin HasFound(g) \cup HasNames(g) /\ "insert" # Step(g, "insert")
  BY DEF HasRow, HasFound, HasNames, Step, Groups
<1>11. Locks'
  <2>1. \A c \in Books : lock[c] # NoOne => lock[c] \in Requests \ {r}
    BY <1>1, <1>10 DEF RescanInv, TypeOK, Locks
  <2>2. QED
    BY <2>1, <1>1, <1>4, <1>10 DEF RescanInv, Locks
<1>12. DeletesAll' /\ NamesThere'
  <2>1. DeletesAll'
    BY <1>1, <1>4, <1>10 DEF RescanInv, DeletesAll
  <2>2. NamesThere'
    BY <1>1, <1>4, <1>10, SameWanted DEF RescanInv, NamesThere
  <2>3. QED
    BY <2>1, <2>2
<1>13. ReadsSole'
  BY <1>1, <1>2, <1>4, <1>8, SetReads
<1>14. \A c : Busy(c)' = Busy(c) /\ Covered(c)' = Covered(c)
  BY <1>1, <1>4 DEF Busy, Covered
<1>15. Alone'
  <2>1. ASSUME NEW c \in Books \ raced, NEW o \in Busy(c)
        PROVE  /\ \A q \in Busy(c) : q = o
               /\ at'[o] \in {"cover", "writing", "again"} => Sole(c)' = {first[o]}
               /\ first[o] # Unread /\ at'[o] \in {"row"} \cup HasRow => new[o] = first[o]
               /\ "cover" \in sel[o] /\ at'[o] \notin {"cover", "writing"} => file[c] = first[o].cover
               /\ at'[o] = "writing" => file[c] = Partial
    <3>1. CASE o = r
      BY <3>1, <2>1, <1>4, <1>8 DEF RescanInv, Alone
    <3>2. CASE o # r
      <4>1. c # b
        BY <3>2, <2>1, <1>1, <1>2 DEF RescanInv, Alone, Busy
      <4>2. Sole(c)' = Sole(c)
        BY <4>1, <1>3 DEF Sole
      <4>3. QED
        BY <3>2, <4>2, <2>1, <1>4 DEF RescanInv, Alone, Busy
    <3>3. QED
      BY <3>1, <3>2
  <2>2. QED
    BY <2>1, <1>1, <1>14 DEF Alone
<1>16. CoversHold'
  <2>1. \A o \in Requests : "cover" \in sel[o] => at'[o] = at[o]
    BY <1>4, <1>8
  <2>2. QED
    BY <2>1, <1>1, <1>14 DEF RescanInv, CoversHold, Busy
<1>17. QED
  BY <1>5, <1>6, <1>7, <1>11, <1>12, <1>13, <1>15, <1>16 DEF RescanInv

LEMMA RejectInv == ASSUME RescanInv, NEW r \in Requests, NEW b \in Books, Reject(r, b) PROVE RescanInv'
<1>1. /\ TypeOK /\ SetPending(b, {}) /\ raced' = IF Busy(b) = {} THEN raced ELSE raced \cup {b}
      /\ UNCHANGED <<book, links, names, file, rows, edits, at, on, sel, first, txVars, lock, loose, torn>>
      /\ UNCHANGED <<new, draft, seen, gone, missing, made>>
  BY DEF RescanInv, Reject, txVars
<1>2. /\ pending' \in [Books -> SUBSET [id : 1..MaxRows, new : Parse]]
      /\ pending'[b] = {} /\ \A c \in Books \ {b} : pending'[c] = pending[c]
      /\ sole' \in [Requests -> SUBSET Parse] /\ raced' \subseteq Books /\ raced \subseteq raced'
  <2>1. raced \subseteq Books
    BY <1>1 DEF TypeOK
  <2>2. QED
    BY <2>1, <1>1, SetEffect
<1>3. TypeOK'
  BY <1>1, <1>2 DEF TypeOK
<1>4. FinitePending' /\ LinksOfOne'
  <2>1. \A c \in Books : pending'[c] = {} \/ pending'[c] = pending[c]
    BY <1>2
  <2>2. FinitePending'
    BY <2>1, FS_EmptySet DEF RescanInv, FinitePending
  <2>3. LinksOfOne'
    BY <1>1 DEF RescanInv, LinksOfOne
  <2>4. QED
    BY <2>2, <2>3
<1>5. Knowing' /\ Locks' /\ DeletesAll'
  BY <1>1 DEF RescanInv, Knowing, Locks, DeletesAll
<1>6. NamesThere'
  BY <1>1, SameWanted DEF RescanInv, NamesThere
<1>7. ReadsSole'
  BY <1>1, SetReads
<1>8. \A c : Busy(c)' = Busy(c) /\ Covered(c)' = Covered(c)
  BY <1>1 DEF Busy, Covered
<1>9. Alone'
  <2>1. ASSUME NEW c \in Books \ raced', NEW o \in Busy(c) PROVE Sole(c)' = Sole(c) /\ c \notin raced
    <3>1. c # b
      BY <2>1, <1>1
    <3>2. QED
      BY <3>1, <2>1, <1>2 DEF Sole
  <2>2. QED
    BY <2>1, <1>1, <1>8 DEF RescanInv, Alone
<1>10. CoversHold'
  BY <1>1, <1>2, <1>8 DEF RescanInv, CoversHold
<1>11. QED
  BY <1>3, <1>4, <1>5, <1>6, <1>7, <1>9, <1>10 DEF RescanInv
------------------------------------------------------------------------------
\* An approval before its transaction: only its own place changes, its values
\* and the cover file.
LEMMA BeforeInv ==
    ASSUME RescanInv, NEW r \in Requests, NEW place \in {"writing", "again", "row"}, at[r] \in {"cover", "writing", "again"},
           Go(r, place), UNCHANGED <<tableVars, on, sel, first, draft, seen, gone, missing, made, lock, loose>>,
           \A o \in Requests \ {r} : new'[o] = new[o],
           place = "row" => new'[r] # Unread, place = "writing" => "cover" \in sel[r]
    PROVE  /\ FinitePending' /\ LinksOfOne' /\ Knowing' /\ Locks' /\ DeletesAll' /\ NamesThere'
           /\ at' \in [Requests -> Places] /\ at'[r] = place /\ \A o \in Requests \ {r} : at'[o] = at[o]
           /\ \A c : Busy(c)' = Busy(c)
<1>1. /\ TypeOK /\ place \in Places
      /\ UNCHANGED <<book, links, names, pending, on, sel, first, draft, seen, gone, missing, made, lock, loose>>
  BY DEF RescanInv, tableVars, Places
<1>2. at' \in [Requests -> Places] /\ at'[r] = place /\ \A o \in Requests \ {r} : at'[o] = at[o]
  BY <1>1, GoEffect
<1>3. FinitePending'
  BY <1>1 DEF RescanInv, FinitePending
<1>4. LinksOfOne'
  BY <1>1 DEF RescanInv, LinksOfOne
<1>5. at[r] \notin HasRow /\ at'[r] \notin HasRow
      /\ \A g \in Groups : at'[r] \notin HasFound(g) /\ at'[r] \notin HasNames(g) /\ at'[r] # Step(g, "insert")
  <2>1. place \notin HasRow /\ \A g \in Groups : place # Step(g, "insert")
    BY StepFacts
  <2>2. QED
    BY <2>1, <1>2, StepFacts
<1>6. Knowing'
  <2>1. first[r] # Unread
    BY DEF RescanInv, Knowing
  <2>2. QED
    BY <2>1, <1>1, <1>2, <1>5 DEF RescanInv, Knowing
<1>7. Locks'
  <2>1. \A c \in Books : lock[c] # NoOne => lock[c] \in Requests \ {r} /\ on[lock[c]] = c /\ at[lock[c]] \in HasRow
    <3>1. \A c \in Books : lock[c] # NoOne => lock[c] \in Requests
      BY <1>1 DEF TypeOK
    <3>2. QED
      BY <3>1, <1>5 DEF RescanInv, Locks
  <2>2. \A o \in Requests : at'[o] \in HasRow => o # r /\ at[o] \in HasRow
    BY <1>2, <1>5
  <2>3. QED
    BY <2>1, <2>2, <1>1, <1>2 DEF RescanInv, Locks
<1>8. DeletesAll'
  BY <1>1, <1>2, <1>5 DEF RescanInv, DeletesAll
<1>9. NamesThere'
  <2>1. \A o \in Requests \ {r}, g \in Groups : Wanted(o, g)' = Wanted(o, g)
    BY <1>1 DEF Wanted, Editing
  <2>2. \A g, n : KnownRows(g, n)' = KnownRows(g, n)
    BY <1>1 DEF KnownRows
  <2>3. QED
    BY <2>1, <2>2, <1>1, <1>2, <1>5 DEF RescanInv, NamesThere
<1>10. \A c : Busy(c)' = Busy(c)
  <2>1. at[r] # "idle" /\ at'[r] # "idle"
    BY <1>2
  <2>2. QED
    BY <2>1, <1>1, <1>2 DEF Busy
<1>11. QED
  BY <1>2, <1>3, <1>4, <1>6, <1>7, <1>8, <1>9, <1>10

\* A step that changes the cover file: an image that is whole once it is over,
\* if nobody else works on the book.
LEMMA CoverToInv ==
    ASSUME RescanInv, NEW r \in Requests, at[r] \in {"cover", "writing"},
           NEW image \in Images \cup {NoImage, Partial}, NEW place \in {"writing", "again"},
           CoverTo(r, image, place),
           place = "writing" => image = Partial /\ "cover" \in sel[r],
           place = "again" /\ "cover" \in sel[r] /\ on[r] \notin raced => image = first[r].cover,
           "cover" \notin sel[r] => image = file[on[r]] /\ at[r] = "cover"
    PROVE  RescanInv'
<1>1. /\ TypeOK /\ Go(r, place)
      /\ UNCHANGED <<tableVars, rows, edits, on, sel, first, new, draft, seen, gone, missing, made, lock,
                     sole, loose, raced, torn>>
      /\ UNCHANGED <<book, links, names, pending>>
  BY DEF RescanInv, CoverTo, txVars, noteVars, tableVars
<1>2. PICK b \in Books : b = on[r]
  BY <1>1 DEF TypeOK
<1>3. file' = [file EXCEPT ![b] = image]
  BY <1>2 DEF CoverTo
<1>5. /\ file' \in [Books -> Images \cup {NoImage, Partial}] /\ file'[b] = image
      /\ \A c \in Books \ {b} : file'[c] = file[c]
  BY <1>1, <1>3 DEF TypeOK
<1>6. /\ FinitePending' /\ LinksOfOne' /\ Knowing' /\ Locks' /\ DeletesAll' /\ NamesThere'
      /\ at' \in [Requests -> Places] /\ at'[r] = place /\ \A o \in Requests \ {r} : at'[o] = at[o]
      /\ \A c : Busy(c)' = Busy(c)
  BY <1>1, BeforeInv
<1>7. TypeOK'
  BY <1>1, <1>5, <1>6 DEF TypeOK
<1>8. \A c : Sole(c)' = Sole(c) /\ HasSole(c)' = HasSole(c)
  BY <1>1 DEF Sole, HasSole
<1>9. ReadsSole'
  BY <1>1, <1>6, <1>8, StepFacts DEF RescanInv, ReadsSole
<1>10. r \in Busy(b) /\ \A c \in Books \ {b} : r \notin Busy(c)
  BY <1>1, <1>2 DEF Busy
<1>11. Alone'
  <2>1. ASSUME NEW c \in Books \ raced, NEW o \in Busy(c)
        PROVE  /\ \A q \in Busy(c) : q = o
               /\ at'[o] \in {"cover", "writing", "again"} => Sole(c) = {first[o]}
               /\ first[o] # Unread /\ at'[o] \in {"row"} \cup HasRow => new[o] = first[o]
               /\ "cover" \in sel[o] /\ at'[o] \notin {"cover", "writing"} => file'[c] = first[o].cover
               /\ at'[o] = "writing" => file'[c] = Partial
    <3>0. o \in Requests
      BY <2>1 DEF Busy
    <3>1. /\ \A q \in Busy(c) : q = o
          /\ at[o] \in {"cover", "writing", "again"} => Sole(c) = {first[o]}
          /\ first[o] # Unread /\ at[o] \in {"row"} \cup HasRow => new[o] = first[o]
          /\ "cover" \in sel[o] /\ at[o] \notin {"cover", "writing"} => file[c] = first[o].cover
          /\ at[o] = "writing" => file[c] = Partial
      BY <2>1 DEF RescanInv, Alone
    <3>2. CASE o = r
      <4>1. c = b
        BY <3>2, <2>1, <1>10
      <4>2. "cover" \in sel[o] /\ place = "again" => file'[c] = first[o].cover
        BY <3>2, <4>1, <2>1, <1>2, <1>5
      <4>3. place = "writing" => file'[c] = Partial
        BY <4>1, <1>5
      <4>4. QED
        BY <3>1, <3>2, <4>2, <4>3, <1>6, StepFacts
    <3>3. CASE o # r
      <4>1. c # b
        BY <3>1, <3>3, <1>10
      <4>2. QED
        BY <3>0, <3>1, <3>3, <4>1, <2>1, <1>5, <1>6
    <3>4. QED
      BY <3>2, <3>3
  <2>2. QED
    BY <2>1, <1>1, <1>6, <1>8 DEF Alone
<1>12. CoversHold'
  <2>1. ASSUME NEW c \in Books \ (raced \cup torn), \A o \in Busy(c) : "cover" \in sel[o] => at'[o] = "cover"
        PROVE  file'[c] \in IF book[c].cover THEN Images ELSE {NoImage}
    <3>1. c = b => "cover" \notin sel[r]
      BY <2>1, <1>6, <1>10
    <3>2. \A o \in Busy(c) : o \in Requests /\ ("cover" \in sel[o] => at[o] = "cover")
      <4>1. ASSUME NEW o \in Busy(c) PROVE o \in Requests /\ ("cover" \in sel[o] => at[o] = "cover")
        <5>1. o = r => c = b
          BY <4>1, <2>1, <1>10
        <5>2. QED
          BY <4>1, <5>1, <3>1, <2>1, <1>6 DEF Busy
      <4>2. QED
        BY <4>1
    <3>3. Covered(c)
      BY <3>2, <2>1 DEF RescanInv, CoversHold
    <3>4. file'[c] = file[c]
      BY <3>1, <2>1, <1>2, <1>5
    <3>5. QED
      BY <3>3, <3>4 DEF Covered
  <2>2. QED
    BY <2>1, <1>1, <1>6 DEF CoversHold, Covered
<1>13. QED
  BY <1>6, <1>7, <1>9, <1>11, <1>12 DEF RescanInv

\* The row an approval has read, and the cover in it.
LEMMA FirstFacts ==
    ASSUME RescanInv, NEW r \in Requests, at[r] \in {"cover", "writing"}
    PROVE  first[r].cover \in Images \cup {NoImage} /\ on[r] \in Books
                                                  /\ file[on[r]] \in Images \cup {NoImage, Partial}
<1>1. first[r] \in Parse
  BY DEF RescanInv, Knowing, TypeOK
<1>2. QED
  BY <1>1, ParseFacts DEF RescanInv, TypeOK

LEMMA HandleCoverInv == ASSUME RescanInv, NEW r \in Requests, HandleCover(r) PROVE RescanInv'
<1>1. at[r] = "cover"
  BY DEF HandleCover
<1>2. CASE "cover" \notin sel[r]
  <2>1. CoverTo(r, file[on[r]], "again")
    BY <1>2 DEF HandleCover
  <2>2. QED
    BY <1>1, <1>2, <2>1, FirstFacts, CoverToInv
<1>3. CASE "cover" \in sel[r] /\ first[r].cover = NoImage
  <2>1. CoverTo(r, NoImage, "again")
    BY <1>3 DEF HandleCover
  <2>2. QED
    BY <1>1, <1>3, <2>1, CoverToInv
<1>4. CASE "cover" \in sel[r] /\ first[r].cover # NoImage
  <2>1. CoverTo(r, Partial, "writing")
    BY <1>4 DEF HandleCover
  <2>2. QED
    BY <1>1, <1>4, <2>1, CoverToInv
<1>5. QED
  BY <1>2, <1>3, <1>4

LEMMA WriteCoverInv == ASSUME RescanInv, NEW r \in Requests, WriteCover(r) PROVE RescanInv'
<1>1. at[r] = "writing" /\ "cover" \in sel[r]
  BY DEF WriteCover, RescanInv, Knowing
<1>2. PICK image \in {first[r].cover} \cup IF OnlyWriter(r) THEN {} ELSE {Partial, file[on[r]]} :
          CoverTo(r, image, "again")
  BY DEF WriteCover
<1>3. image \in Images \cup {NoImage, Partial}
  BY <1>1, <1>2, FirstFacts
<1>4. on[r] \notin raced => image = first[r].cover
  <2>1. ASSUME on[r] \notin raced PROVE OnlyWriter(r)
    <3>1. on[r] \in Books \ raced /\ r \in Busy(on[r])
      BY <1>1, <2>1, FirstFacts DEF Busy
    <3>2. file[on[r]] = Partial /\ \A o \in Busy(on[r]) : o = r
      BY <1>1, <3>1 DEF RescanInv, Alone
    <3>3. QED
      BY <3>2 DEF OnlyWriter
  <2>2. QED
    BY <2>1, <1>2
<1>5. QED
  BY <1>1, <1>2, <1>3, <1>4, CoverToInv

LEMMA ReadAgainInv == ASSUME RescanInv, NEW r \in Requests, ReadAgain(r) PROVE RescanInv'
<1>1. /\ TypeOK /\ FinitePending /\ at[r] = "again" /\ Go(r, "row") /\ HasSole(on[r])
      /\ new' = [new EXCEPT ![r] = TheSole(on[r])]
      /\ UNCHANGED <<tableVars, file, rows, edits, on, sel, first, draft, seen, gone, missing, made, lock,
                     sole, loose, raced, torn>>
      /\ UNCHANGED <<book, links, names, pending>>
  BY DEF RescanInv, ReadAgain, noteVars, tableVars
<1>2. PICK b \in Books : b = on[r]
  BY <1>1 DEF TypeOK
<1>3. TheSole(b) \in Parse /\ Sole(b) = {TheSole(b)}
  BY <1>1, <1>2, SoleFacts
<1>4. /\ new' \in [Requests -> Parse \cup {Unread}] /\ new'[r] = TheSole(b) /\ new'[r] # Unread
      /\ \A o \in Requests \ {r} : new'[o] = new[o]
  BY <1>1, <1>2, <1>3, ParseFacts DEF TypeOK
<1>5. /\ FinitePending' /\ LinksOfOne' /\ Knowing' /\ Locks' /\ DeletesAll' /\ NamesThere'
      /\ at' \in [Requests -> Places] /\ at'[r] = "row" /\ \A o \in Requests \ {r} : at'[o] = at[o]
      /\ \A c : Busy(c)' = Busy(c)
  BY <1>1, <1>4, BeforeInv
<1>6. TypeOK'
  BY <1>1, <1>4, <1>5 DEF TypeOK
<1>7. \A c : Sole(c)' = Sole(c) /\ HasSole(c)' = HasSole(c) /\ Covered(c)' = Covered(c)
  BY <1>1 DEF Sole, HasSole, Covered
<1>8. first[r] # Unread
  BY <1>1 DEF RescanInv, Knowing
<1>9. ReadsSole'
  <2>1. new'[r] \in sole[r]
    BY <1>1, <1>2, <1>3, <1>4, <1>8 DEF RescanInv, ReadsSole
  <2>2. QED
    BY <2>1, <1>1, <1>4, <1>5, <1>7 DEF RescanInv, ReadsSole
<1>10. Alone'
  <2>1. ASSUME NEW c \in Books \ raced, NEW o \in Busy(c)
        PROVE  /\ \A q \in Busy(c) : q = o
               /\ at'[o] \in {"cover", "writing", "again"} => Sole(c) = {first[o]}
               /\ first[o] # Unread /\ at'[o] \in {"row"} \cup HasRow => new'[o] = first[o]
               /\ "cover" \in sel[o] /\ at'[o] \notin {"cover", "writing"} => file[c] = first[o].cover
               /\ at'[o] = "writing" => file[c] = Partial
    <3>0. o \in Requests /\ on[o] = c
      BY <2>1 DEF Busy
    <3>1. /\ \A q \in Busy(c) : q = o
          /\ at[o] \in {"cover", "writing", "again"} => Sole(c) = {first[o]}
          /\ first[o] # Unread /\ at[o] \in {"row"} \cup HasRow => new[o] = first[o]
          /\ "cover" \in sel[o] /\ at[o] \notin {"cover", "writing"} => file[c] = first[o].cover
          /\ at[o] = "writing" => file[c] = Partial
      BY <2>1 DEF RescanInv, Alone
    <3>2. CASE o = r
      <4>1. Sole(c) = {first[o]} /\ c = b
        BY <3>0, <3>1, <3>2, <1>1, <1>2
      <4>2. new'[o] = first[o]
        BY <4>1, <3>2, <1>3, <1>4
      <4>3. QED
        BY <4>2, <3>1, <3>2, <1>1, <1>5
    <3>3. CASE o # r
      BY <3>0, <3>1, <3>3, <1>4, <1>5
    <3>4. QED
      BY <3>2, <3>3
  <2>2. QED
    BY <2>1, <1>1, <1>5, <1>7 DEF Alone
<1>11. CoversHold'
  <2>1. \A o \in Requests : at'[o] = "cover" <=> at[o] = "cover"
    BY <1>1, <1>5
  <2>2. QED
    BY <2>1, <1>1, <1>5, <1>7 DEF RescanInv, CoversHold, Busy
<1>12. QED
  BY <1>5, <1>6, <1>9, <1>10, <1>11 DEF RescanInv
------------------------------------------------------------------------------
\* A request ends.
LEMMA EndEffect ==
    ASSUME TypeOK, NEW r \in Requests, End(r)
    PROVE  /\ at' \in [Requests -> Places] /\ on' \in [Requests -> Books]
           /\ sel' \in [Requests -> SUBSET Fields] /\ first' \in [Requests -> Parse \cup {Unread}]
           /\ new' \in [Requests -> Parse \cup {Unread}]
           /\ draft' \in [Requests -> [text : Texts, cover : BOOLEAN]]
           /\ seen' \in [Requests -> SUBSET Link] /\ gone' \in [Requests -> SUBSET Link]
           /\ missing' \in [Requests -> SUBSET Names] /\ made' \in [Requests -> [Groups -> SUBSET Names]]
           /\ lock' \in [Books -> Requests \cup {NoOne}]
           /\ at'[r] = "idle" /\ sel'[r] = {} /\ first'[r] = Unread /\ new'[r] = Unread
           /\ \A o \in Requests \ {r} :
                 /\ at'[o] = at[o] /\ on'[o] = on[o] /\ sel'[o] = sel[o] /\ first'[o] = first[o]
                 /\ new'[o] = new[o] /\ draft'[o] = draft[o] /\ seen'[o] = seen[o] /\ gone'[o] = gone[o]
                 /\ missing'[o] = missing[o] /\ made'[o] = made[o]
           /\ \A c \in Books : lock'[c] = IF lock[c] = r THEN NoOne ELSE lock[c]
           /\ \A c : Busy(c)' = Busy(c) \ {r}
<1>1. at' = [at EXCEPT ![r] = "idle"] /\ "idle" \in Places
  BY DEF End, Go, Places
<1>2. /\ at' \in [Requests -> Places] /\ on' \in [Requests -> Books]
      /\ sel' \in [Requests -> SUBSET Fields] /\ first' \in [Requests -> Parse \cup {Unread}]
      /\ new' \in [Requests -> Parse \cup {Unread}]
  BY <1>1, ParseFacts DEF TypeOK, End
<1>3. /\ draft' \in [Requests -> [text : Texts, cover : BOOLEAN]]
      /\ seen' \in [Requests -> SUBSET Link] /\ gone' \in [Requests -> SUBSET Link]
      /\ missing' \in [Requests -> SUBSET Names] /\ lock' \in [Books -> Requests \cup {NoOne}]
  BY ParseFacts DEF TypeOK, End
<1>4. made' \in [Requests -> [Groups -> SUBSET Names]]
  <2>1. NoNames \in [Groups -> SUBSET Names]
    BY DEF NoNames
  <2>2. QED
    BY <2>1 DEF TypeOK, End
<1>5. at'[r] = "idle" /\ sel'[r] = {} /\ first'[r] = Unread /\ new'[r] = Unread
  BY <1>1 DEF TypeOK, End
<1>6. \A o \in Requests \ {r} :
         /\ at'[o] = at[o] /\ on'[o] = on[o] /\ sel'[o] = sel[o] /\ first'[o] = first[o]
         /\ new'[o] = new[o] /\ draft'[o] = draft[o] /\ seen'[o] = seen[o] /\ gone'[o] = gone[o]
         /\ missing'[o] = missing[o] /\ made'[o] = made[o]
  BY <1>1 DEF TypeOK, End
<1>7. \A c \in Books : lock'[c] = IF lock[c] = r THEN NoOne ELSE lock[c]
  BY DEF End
<1>8. \A c : Busy(c)' = Busy(c) \ {r}
  BY <1>5, <1>6 DEF Busy
<1>9. QED
  BY <1>2, <1>3, <1>4, <1>5, <1>6, <1>7, <1>8

\* What the others know and hold, when what they hold did not change.
LEMMA EndKeeps ==
    ASSUME RescanInv, NEW r \in Requests, at[r] # "idle", End(r), UNCHANGED loose,
           \A c \in Books : lock[c] \notin {r, NoOne} => book'[c] = book[c],
           \A c \in Books \ loose, g \in Groups : lock[c] # r => links'[c][g] = links[c][g],
           \A g \in Groups : names[g] \subseteq names'[g]
    PROVE  Knowing' /\ Locks' /\ DeletesAll' /\ NamesThere'
<1>1. /\ TypeOK /\ at'[r] = "idle" /\ sel'[r] = {} /\ first'[r] = Unread /\ new'[r] = Unread
      /\ \A o \in Requests \ {r} :
            /\ at'[o] = at[o] /\ on'[o] = on[o] /\ sel'[o] = sel[o] /\ first'[o] = first[o]
            /\ new'[o] = new[o] /\ draft'[o] = draft[o] /\ seen'[o] = seen[o] /\ gone'[o] = gone[o]
            /\ missing'[o] = missing[o] /\ made'[o] = made[o]
      /\ \A c \in Books : lock'[c] = IF lock[c] = r THEN NoOne ELSE lock[c]
  BY EndEffect DEF RescanInv
<1>2. at'[r] \notin HasRow /\ at'[r] # "row" /\ \A g \in Groups : at'[r] \notin HasFound(g)
  BY <1>1, StepFacts
<1>3. Knowing'
  BY <1>1, <1>2 DEF RescanInv, Knowing
<1>4. Locks'
  <2>1. ASSUME NEW c \in Books, lock'[c] # NoOne PROVE on'[lock'[c]] = c /\ at'[lock'[c]] \in HasRow
    <3>1. lock'[c] = lock[c] /\ lock[c] # NoOne /\ lock[c] \in Requests \ {r}
      BY <2>1, <1>1 DEF TypeOK
    <3>2. on[lock[c]] = c /\ at[lock[c]] \in HasRow
      BY <3>1 DEF RescanInv, Locks
    <3>3. QED
      BY <3>1, <3>2, <1>1
  <2>2. ASSUME NEW o \in Requests, at'[o] \in HasRow
        PROVE  /\ sel'[o] \cap Scalars # {} => lock'[on'[o]] = o
               /\ lock'[on'[o]] = o => draft'[o] = Written(book'[on'[o]], new'[o], sel'[o])
    <3>1. o # r /\ on[o] \in Books /\ o # NoOne
      BY <2>2, <1>1, <1>2, ParseFacts DEF TypeOK
    <3>2. /\ sel[o] \cap Scalars # {} => lock[on[o]] = o
          /\ lock[on[o]] = o => draft[o] = Written(book[on[o]], new[o], sel[o])
      BY <2>2, <3>1, <1>1 DEF RescanInv, Locks
    <3>3. lock'[on[o]] = o <=> lock[on[o]] = o
      BY <3>1, <1>1
    <3>4. lock[on[o]] = o => book'[on[o]] = book[on[o]]
      BY <3>1
    <3>5. QED
      BY <3>1, <3>2, <3>3, <3>4, <1>1
  <2>3. QED
    BY <2>1, <2>2 DEF Locks
<1>5. DeletesAll'
  <2>1. ASSUME NEW o \in Requests, NEW g \in Groups, g \in sel'[o], on'[o] \notin loose,
               at'[o] \in HasFound(g)
        PROVE  /\ lock'[on'[o]] = o
               /\ links'[on'[o]][g] \subseteq IF at'[o] = Step(g, "wait") THEN seen'[o] ELSE gone'[o]
    <3>1. o # r /\ on[o] \in Books
      BY <2>1, <1>1 DEF TypeOK
    <3>2. /\ lock[on[o]] = o
          /\ links[on[o]][g] \subseteq IF at[o] = Step(g, "wait") THEN seen[o] ELSE gone[o]
      BY <2>1, <3>1, <1>1 DEF RescanInv, DeletesAll
    <3>3. links'[on[o]][g] = links[on[o]][g] /\ lock'[on[o]] = o
      BY <3>1, <3>2, <2>1, <1>1
    <3>4. QED
      BY <3>1, <3>2, <3>3, <1>1
  <2>2. QED
    BY <2>1 DEF DeletesAll
<1>6. NamesThere'
  <2>1. ASSUME NEW o \in Requests, NEW g \in Groups, NEW n \in Names, g \in sel'[o], KnownRows(g, n)' = {}
        PROVE  /\ at'[o] = Step(g, "insert") /\ n \in Wanted(o, g)' => n \in missing'[o]
               /\ at'[o] \in HasNames(g) /\ n \in Wanted(o, g)' => n \in made'[o][g]
    <3>1. o # r
      BY <2>1, <1>1
    <3>2. KnownRows(g, n) = {}
      BY <2>1 DEF KnownRows
    <3>3. Wanted(o, g)' = Wanted(o, g)
      BY <3>1, <1>1 DEF Wanted, Editing
    <3>4. QED
      BY <3>1, <3>2, <3>3, <2>1, <1>1 DEF RescanInv, NamesThere
  <2>2. QED
    BY <2>1 DEF NamesThere
<1>7. QED
  BY <1>3, <1>4, <1>5, <1>6

LEMMA EndAlone ==
    ASSUME RescanInv, NEW r \in Requests, at[r] # "idle", End(r), UNCHANGED <<file, raced>>,
           \A c \in Books : c # on[r] => Sole(c)' = Sole(c)
    PROVE  Alone'
<1>1. /\ TypeOK /\ \A o \in Requests \ {r} :
            /\ at'[o] = at[o] /\ on'[o] = on[o] /\ sel'[o] = sel[o] /\ first'[o] = first[o]
            /\ new'[o] = new[o]
      /\ \A c : Busy(c)' = Busy(c) \ {r}
  BY EndEffect DEF RescanInv
<1>2. ASSUME NEW c \in Books \ raced, NEW o \in Busy(c)'
      PROVE  /\ \A q \in Busy(c)' : q = o
             /\ at'[o] \in {"cover", "writing", "again"} => Sole(c)' = {first'[o]}
             /\ first'[o] # Unread /\ at'[o] \in {"row"} \cup HasRow => new'[o] = first'[o]
             /\ "cover" \in sel'[o] /\ at'[o] \notin {"cover", "writing"} => file[c] = first'[o].cover
             /\ at'[o] = "writing" => file[c] = Partial
  <2>1. o \in Busy(c) /\ o \in Requests \ {r}
    BY <1>1, <1>2 DEF Busy
  <2>2. /\ \A q \in Busy(c) : q = o
        /\ at[o] \in {"cover", "writing", "again"} => Sole(c) = {first[o]}
        /\ first[o] # Unread /\ at[o] \in {"row"} \cup HasRow => new[o] = first[o]
        /\ "cover" \in sel[o] /\ at[o] \notin {"cover", "writing"} => file[c] = first[o].cover
        /\ at[o] = "writing" => file[c] = Partial
    BY <1>2, <2>1 DEF RescanInv, Alone
  <2>3. on[r] # c
    BY <2>1, <2>2 DEF Busy
  <2>4. Sole(c)' = Sole(c)
    BY <2>3, <1>2
  <2>5. QED
    BY <2>1, <2>2, <2>4, <1>1
<1>3. QED
  BY <1>2 DEF Alone

LEMMA InsertPendingInv == ASSUME RescanInv, NEW r \in Requests, InsertPending(r) PROVE RescanInv'
<1>1. /\ TypeOK /\ at[r] = "insert" /\ rows < MaxRows /\ rows' = rows + 1 /\ End(r)
      /\ SetPending(on[r], pending[on[r]] \cup {[id |-> rows + 1, new |-> new[r]]})
      /\ UNCHANGED <<book, links, names, file, edits, loose, raced, torn>>
  BY DEF RescanInv, InsertPending
<1>2. PICK b \in Books : b = on[r]
  BY <1>1 DEF TypeOK
<1>3. new[r] \in Parse /\ first[r] = Unread /\ sel[r] = {}
  BY <1>1 DEF RescanInv, Knowing, TypeOK
<1>4. PICK ps : ps = pending[b] \cup {[id |-> rows + 1, new |-> new[r]]}
  OBVIOUS
<1>5. rows' \in 0..MaxRows /\ rows + 1 \in 1..MaxRows
  BY <1>1, RescanAssumption DEF TypeOK
<1>6. ps \in SUBSET [id : 1..MaxRows, new : Parse]
  BY <1>1, <1>3, <1>4, <1>5 DEF TypeOK
<1>7. SetPending(b, ps)
  BY <1>1, <1>2, <1>4
<1>8. /\ pending' \in [Books -> SUBSET [id : 1..MaxRows, new : Parse]]
      /\ pending'[b] = ps /\ \A c \in Books \ {b} : pending'[c] = pending[c]
      /\ sole' \in [Requests -> SUBSET Parse]
  BY <1>1, <1>6, <1>7, SetEffect
<1>9. TypeOK'
  BY <1>1, <1>5, <1>8, EndEffect DEF TypeOK
<1>10. FinitePending'
  <2>1. IsFiniteSet(pending[b])
    BY DEF RescanInv, FinitePending
  <2>2. IsFiniteSet(ps)
    BY <2>1, <1>4, FS_AddElement
  <2>3. QED
    BY <2>2, <1>8 DEF RescanInv, FinitePending
<1>11. LinksOfOne'
  BY <1>1 DEF RescanInv, LinksOfOne
<1>12. Knowing' /\ Locks' /\ DeletesAll' /\ NamesThere'
  BY <1>1, EndKeeps
<1>13. ReadsSole'
  <2>1. \A o \in Requests : first'[o] # Unread =>
            first'[o] = first[o] /\ at'[o] = at[o] /\ on'[o] = on[o] /\ new'[o] = new[o]
    BY <1>1, EndEffect
  <2>2. QED
    BY <2>1, <1>6, <1>7, SetReads
<1>14. Alone'
  <2>1. \A c \in Books : c # on[r] => Sole(c)' = Sole(c)
    BY <1>2, <1>8 DEF Sole
  <2>2. QED
    BY <2>1, <1>1, EndAlone
<1>15. CoversHold'
  <2>1. \A c : Covered(c)' = Covered(c)
    BY <1>1 DEF Covered
  <2>2. ASSUME NEW c \in Books \ (raced \cup torn), \A o \in Busy(c)' : "cover" \in sel'[o] => at'[o] = "cover"
        PROVE  Covered(c)
    <3>1. \A o \in Busy(c) : "cover" \in sel[o] => at[o] = "cover"
      <4>1. ASSUME NEW o \in Busy(c), o # r PROVE "cover" \in sel[o] => at[o] = "cover"
        <5>1. o \in Busy(c)' /\ at'[o] = at[o] /\ sel'[o] = sel[o]
          BY <4>1, <1>1, EndEffect DEF Busy
        <5>2. QED
          BY <5>1, <2>2
      <4>2. QED
        BY <4>1, <1>3
    <3>2. QED
      BY <3>1, <2>2 DEF RescanInv, CoversHold
  <2>3. QED
    BY <2>1, <2>2, <1>1 DEF CoversHold
<1>16. QED
  BY <1>9, <1>10, <1>11, <1>12, <1>13, <1>14, <1>15 DEF RescanInv

LEMMA FailInv == ASSUME RescanInv, NEW r \in Requests, Fail(r) PROVE RescanInv'
<1>1. /\ TypeOK /\ at[r] # "idle" /\ sole' = [sole EXCEPT ![r] = {}] /\ End(r)
      /\ torn' = IF Editing(r) \/ at[r] = "cover" THEN torn ELSE torn \cup {on[r]}
      /\ UNCHANGED <<book, links, names, pending, file, rows, edits, loose, raced>>
  BY DEF RescanInv, Fail, tableVars
<1>2. PICK b \in Books : b = on[r]
  BY <1>1 DEF TypeOK
<1>3. /\ sole' \in [Requests -> SUBSET Parse] /\ torn' \subseteq Books /\ torn \subseteq torn'
      /\ \A o \in Requests \ {r} : sole'[o] = sole[o]
  BY <1>1, <1>2 DEF TypeOK
<1>4. TypeOK'
  BY <1>1, <1>3, EndEffect DEF TypeOK
<1>5. FinitePending'
  BY <1>1 DEF RescanInv, FinitePending
<1>6. LinksOfOne'
  BY <1>1 DEF RescanInv, LinksOfOne
<1>7. Knowing' /\ Locks' /\ DeletesAll' /\ NamesThere'
  BY <1>1, EndKeeps
<1>8. \A c : Sole(c)' = Sole(c) /\ HasSole(c)' = HasSole(c) /\ Covered(c)' = Covered(c)
  BY <1>1 DEF Sole, HasSole, Covered
<1>9. first'[r] = Unread /\ \A o \in Requests \ {r} :
          first'[o] = first[o] /\ at'[o] = at[o] /\ on'[o] = on[o] /\ new'[o] = new[o] /\ sel'[o] = sel[o]
  BY <1>1, EndEffect
<1>10. ReadsSole'
  BY <1>3, <1>8, <1>9 DEF RescanInv, ReadsSole
<1>11. Alone'
  BY <1>1, <1>8, EndAlone
<1>12. CoversHold'
  <2>1. ASSUME NEW c \in Books \ (raced \cup torn'), \A o \in Busy(c)' : "cover" \in sel'[o] => at'[o] = "cover"
        PROVE  Covered(c)
    <3>1. \A o \in Busy(c) : "cover" \in sel[o] => at[o] = "cover"
      <4>1. ASSUME NEW o \in Busy(c), o # r PROVE "cover" \in sel[o] => at[o] = "cover"
        <5>1. o \in Busy(c)' /\ o \in Requests
          BY <4>1, <1>1, EndEffect DEF Busy
        <5>2. QED
          BY <5>1, <4>1, <2>1, <1>9
      <4>2. ASSUME r \in Busy(c), "cover" \in sel[r] PROVE at[r] = "cover"
        <5>1. on[r] \notin torn' /\ ~Editing(r)
          BY <4>2, <2>1 DEF Busy, RescanInv, Knowing, Editing
        <5>2. QED
          BY <5>1, <1>1
      <4>3. QED
        BY <4>1, <4>2
    <3>2. QED
      BY <3>1, <2>1, <1>3 DEF RescanInv, CoversHold
  <2>2. QED
    BY <2>1, <1>1, <1>8 DEF CoversHold
<1>13. QED
  BY <1>4, <1>5, <1>6, <1>7, <1>10, <1>11, <1>12 DEF RescanInv
------------------------------------------------------------------------------
\* What a commit brings into the catalogue.
LEMMA CommitFacts ==
    ASSUME RescanInv, NEW r \in Requests, Commit(r), NEW b \in Books, b = on[r]
    PROVE  /\ at[r] = "commit" /\ End(r) /\ UNCHANGED <<file, rows, edits, loose, raced>>
           /\ book'[b] = IF lock[b] = r THEN draft[r] ELSE book[b]
           /\ \A c \in Books \ {b} : book'[c] = book[c] /\ links'[c] = links[c] /\ pending'[c] = pending[c]
           /\ \A g \in Groups : /\ names'[g] = NewNames(r, g)
                                /\ links'[b][g] = IF g \in sel[r] THEN NewLinks(r, g) ELSE links[b][g]
           /\ pending'[b] = pending[b] \/ pending'[b] = {}
           /\ (first[r] = Unread => torn' = torn)
           /\ torn' = torn \/ ("cover" \in sel[r] /\ torn' = torn \ {b})
           /\ sole' \in [Requests -> SUBSET Parse] /\ \A o \in Requests \ {r} : sole'[o] = sole[o]
           /\ book' \in [Books -> [text : Texts, cover : BOOLEAN]]
           /\ pending' \in [Books -> SUBSET [id : 1..MaxRows, new : Parse]]
<1>1. /\ TypeOK /\ at[r] = "commit" /\ End(r) /\ UNCHANGED <<file, rows, edits, loose, raced>>
      /\ book' = IF lock[b] = r THEN [book EXCEPT ![b] = draft[r]] ELSE book
      /\ links' = [links EXCEPT ![b] = [g \in Groups |->
                      IF g \in sel[r] THEN NewLinks(r, g) ELSE links[b][g]]]
      /\ names' = [g \in Groups |-> NewNames(r, g)]
      /\ sole' = [sole EXCEPT ![r] = {}]
  BY DEF RescanInv, Commit
<1>2. \/ UNCHANGED <<pending, torn>>
      \/ /\ first[r] # Unread /\ pending' = [pending EXCEPT ![b] = {}]
         /\ torn' = IF "cover" \in sel[r] THEN torn \ {b} ELSE torn
  <2>1. CASE Editing(r)
    BY <2>1 DEF Commit
  <2>2. CASE ~Editing(r)
    BY <2>2 DEF Commit, Editing
  <2>3. QED
    BY <2>1, <2>2
<1>3. /\ book' \in [Books -> [text : Texts, cover : BOOLEAN]]
      /\ book'[b] = IF lock[b] = r THEN draft[r] ELSE book[b]
      /\ \A c \in Books \ {b} : book'[c] = book[c]
  BY <1>1 DEF TypeOK
<1>4. \A c \in Books \ {b} : links'[c] = links[c]
  BY <1>1 DEF TypeOK
<1>5. ASSUME NEW g \in Groups
      PROVE  /\ names'[g] = NewNames(r, g)
             /\ links'[b][g] = IF g \in sel[r] THEN NewLinks(r, g) ELSE links[b][g]
  <2>1. links'[b] = [h \in Groups |-> IF h \in sel[r] THEN NewLinks(r, h) ELSE links[b][h]]
    BY <1>1 DEF TypeOK
  <2>2. QED
    BY <2>1, <1>1
<1>6. /\ pending' \in [Books -> SUBSET [id : 1..MaxRows, new : Parse]]
      /\ \A c \in Books \ {b} : pending'[c] = pending[c]
      /\ pending'[b] = pending[b] \/ pending'[b] = {}
  BY <1>1, <1>2 DEF TypeOK
<1>7. sole' \in [Requests -> SUBSET Parse] /\ \A o \in Requests \ {r} : sole'[o] = sole[o]
  BY <1>1 DEF TypeOK
<1>8. (first[r] = Unread => torn' = torn) /\ (torn' = torn \/ ("cover" \in sel[r] /\ torn' = torn \ {b}))
  BY <1>2
<1>9. QED
  BY <1>1, <1>3, <1>4, <1>5, <1>6, <1>7, <1>8

\* Where a transaction commits it has found and inserted all it needed: every
\* name it wants has a row, and its links are of r alone unless the book is loose.
LEMMA LinksFacts ==
    ASSUME RescanInv, NEW r \in Requests, at[r] = "commit", NEW g \in Groups, g \in sel[r]
    PROVE  /\ NewNames(r, g) \subseteq NameRow
           /\ NewLinks(r, g) \subseteq Link
           /\ Wanted(r, g) \subseteq Named(NewLinks(r, g))
           /\ on[r] \notin loose => /\ lock[on[r]] = r
                                    /\ \A l \in NewLinks(r, g) : l.by = r /\ l.row.name \in Wanted(r, g)
<1>1. /\ TypeOK /\ new[r] # Unread /\ on[r] \in Books
      /\ links[on[r]][g] \subseteq Link /\ names[g] \subseteq NameRow /\ made[r][g] \subseteq Names
  <2>1. TypeOK /\ new[r] # Unread
    BY StepFacts DEF RescanInv, Knowing, HasRow
  <2>2. links[on[r]] \in [Groups -> SUBSET Link] /\ made[r] \in [Groups -> SUBSET Names]
    BY <2>1 DEF TypeOK
  <2>3. QED
    BY <2>1, <2>2 DEF TypeOK
<1>2. Wanted(r, g) \subseteq Names
  BY <1>1, WantedIn
<1>3. NewNames(r, g) \subseteq NameRow
  BY <1>1 DEF NewNames, NameRow
<1>4. at[r] \in HasNames(g) /\ at[r] \in HasFound(g) /\ at[r] # Step(g, "wait")
  BY DEF HasNames, HasFound, Step, Groups
<1>5. PICK F : F = [n \in Wanted(r, g) |->
                      CHOOSE x \in NewNames(r, g) : x.name = n /\ (n \in made[r][g] => x.by = r)]
  OBVIOUS
<1>6. ASSUME NEW n \in Wanted(r, g)
      PROVE  F[n] \in NewNames(r, g) /\ F[n].name = n
  <2>1. \E x \in NewNames(r, g) : x.name = n /\ (n \in made[r][g] => x.by = r)
    <3>1. CASE n \in made[r][g]
      <4>1. [by |-> r, name |-> n] \in NewNames(r, g)
        BY <3>1 DEF NewNames
      <4>2. [by |-> r, name |-> n].name = n /\ [by |-> r, name |-> n].by = r
        OBVIOUS
      <4>3. QED
        BY <4>1, <4>2
    <3>2. CASE n \notin made[r][g]
      <4>1. KnownRows(g, n) # {}
        BY <3>2, <1>2, <1>4, <1>6 DEF RescanInv, NamesThere
      <4>2. PICK x \in names[g] : x.name = n
        BY <4>1 DEF KnownRows
      <4>3. QED
        BY <3>2, <4>2 DEF NewNames
    <3>3. QED
      BY <3>1, <3>2
  <2>2. F[n] = CHOOSE x \in NewNames(r, g) : x.name = n /\ (n \in made[r][g] => x.by = r)
    BY <1>5, <1>6
  <2>3. QED
    BY <2>1, <2>2
<1>7. NewLinks(r, g) = (links[on[r]][g] \ gone[r]) \cup {[by |-> r, row |-> F[n]] : n \in Wanted(r, g)}
  BY <1>5 DEF NewLinks
<1>8. NewLinks(r, g) \subseteq Link
  <2>1. \A n \in Wanted(r, g) : [by |-> r, row |-> F[n]] \in Link
    BY <1>3, <1>6 DEF Link
  <2>2. QED
    BY <2>1, <1>1, <1>7
<1>9. Wanted(r, g) \subseteq Named(NewLinks(r, g))
  <2>1. ASSUME NEW n \in Wanted(r, g) PROVE n \in Named(NewLinks(r, g))
    <3>1. PICK l : l = [by |-> r, row |-> F[n]]
      OBVIOUS
    <3>2. l \in NewLinks(r, g) /\ l.row.name = n
      BY <3>1, <2>1, <1>6, <1>7
    <3>3. QED
      BY <3>2 DEF Named
  <2>2. QED
    BY <2>1
<1>10. ASSUME on[r] \notin loose
       PROVE  lock[on[r]] = r /\ \A l \in NewLinks(r, g) : l.by = r /\ l.row.name \in Wanted(r, g)
  <2>1. lock[on[r]] = r /\ links[on[r]][g] \subseteq gone[r]
    BY <1>4, <1>10 DEF RescanInv, DeletesAll
  <2>2. ASSUME NEW l \in NewLinks(r, g) PROVE l.by = r /\ l.row.name \in Wanted(r, g)
    <3>1. PICK n \in Wanted(r, g) : l = [by |-> r, row |-> F[n]]
      BY <2>1, <2>2, <1>7
    <3>2. QED
      BY <3>1, <1>6
  <2>3. QED
    BY <2>1, <2>2
<1>11. QED
  BY <1>3, <1>8, <1>9, <1>10

LEMMA CommitTypes ==
    ASSUME RescanInv, NEW r \in Requests, Commit(r)
    PROVE  TypeOK'
<1>1. TypeOK
  BY DEF RescanInv
<1>2. PICK b \in Books : b = on[r]
  BY <1>1 DEF TypeOK
<1>3. /\ at[r] = "commit" /\ End(r) /\ UNCHANGED <<file, rows, edits, loose, raced>>
      /\ sole' \in [Requests -> SUBSET Parse]
      /\ book' \in [Books -> [text : Texts, cover : BOOLEAN]]
      /\ pending' \in [Books -> SUBSET [id : 1..MaxRows, new : Parse]]
      /\ torn' \subseteq Books
  <2>1. torn' = torn \/ torn' = torn \ {b}
    BY <1>2, CommitFacts
  <2>2. QED
    BY <2>1, <1>1, <1>2, CommitFacts DEF TypeOK
<1>4. names' \in [Groups -> SUBSET NameRow]
  <2>1. \A g \in Groups : NewNames(r, g) \subseteq NameRow
    <3>1. ASSUME NEW g \in Groups PROVE NewNames(r, g) \subseteq NameRow
      <4>1. names[g] \subseteq NameRow /\ made[r] \in [Groups -> SUBSET Names]
        BY <1>1 DEF TypeOK
      <4>2. made[r][g] \subseteq Names
        BY <4>1
      <4>3. QED
        BY <4>1, <4>2 DEF NewNames, NameRow
    <3>2. QED
      BY <3>1
  <2>2. names' = [g \in Groups |-> NewNames(r, g)]
    BY DEF Commit
  <2>3. QED
    BY <2>1, <2>2
<1>5. links' \in [Books -> [Groups -> SUBSET Link]]
  <2>1. PICK ls : ls = [g \in Groups |-> IF g \in sel[r] THEN NewLinks(r, g) ELSE links[b][g]]
    OBVIOUS
  <2>2. links' = [links EXCEPT ![b] = ls]
    BY <2>1, <1>2 DEF Commit
  <2>3. \A g \in Groups : ls[g] \subseteq Link
    <3>1. links[b] \in [Groups -> SUBSET Link]
      BY <1>1 DEF TypeOK
    <3>2. \A g \in Groups : links[b][g] \subseteq Link
      BY <3>1
    <3>3. \A g \in Groups : g \in sel[r] => NewLinks(r, g) \subseteq Link
      BY <1>3, LinksFacts
    <3>4. QED
      BY <2>1, <3>2, <3>3
  <2>4. ls \in [Groups -> SUBSET Link]
    BY <2>1, <2>3
  <2>5. QED
    BY <2>2, <2>4, <1>1 DEF TypeOK
<1>6. QED
  BY <1>1, <1>3, <1>4, <1>5, EndEffect DEF TypeOK

LEMMA CommitInv == ASSUME RescanInv, NEW r \in Requests, Commit(r) PROVE RescanInv'
<1>1. TypeOK
  BY DEF RescanInv
<1>2. PICK b \in Books : b = on[r]
  BY <1>1 DEF TypeOK
<1>3. /\ at[r] = "commit" /\ End(r) /\ UNCHANGED <<file, rows, edits, loose, raced>>
      /\ book'[b] = IF lock[b] = r THEN draft[r] ELSE book[b]
      /\ \A c \in Books \ {b} : book'[c] = book[c] /\ links'[c] = links[c] /\ pending'[c] = pending[c]
      /\ \A g \in Groups : /\ names'[g] = NewNames(r, g)
                           /\ links'[b][g] = IF g \in sel[r] THEN NewLinks(r, g) ELSE links[b][g]
      /\ pending'[b] = pending[b] \/ pending'[b] = {}
      /\ (first[r] = Unread => torn' = torn)
      /\ torn' = torn \/ ("cover" \in sel[r] /\ torn' = torn \ {b})
      /\ \A o \in Requests \ {r} : sole'[o] = sole[o]
  <2>1. /\ at[r] = "commit" /\ End(r) /\ UNCHANGED <<file, rows, edits, loose, raced>>
        /\ book'[b] = IF lock[b] = r THEN draft[r] ELSE book[b]
        /\ \A c \in Books \ {b} : book'[c] = book[c] /\ links'[c] = links[c] /\ pending'[c] = pending[c]
    BY <1>2, CommitFacts
  <2>2. \A g \in Groups : /\ names'[g] = NewNames(r, g)
                          /\ links'[b][g] = IF g \in sel[r] THEN NewLinks(r, g) ELSE links[b][g]
    BY <1>2, CommitFacts
  <2>3. /\ pending'[b] = pending[b] \/ pending'[b] = {}
        /\ (first[r] = Unread => torn' = torn)
        /\ torn' = torn \/ ("cover" \in sel[r] /\ torn' = torn \ {b})
        /\ \A o \in Requests \ {r} : sole'[o] = sole[o]
    BY <1>2, CommitFacts
  <2>4. QED
    BY <2>1, <2>2, <2>3
<1>4. first'[r] = Unread /\ \A o \in Requests \ {r} :
          first'[o] = first[o] /\ at'[o] = at[o] /\ on'[o] = on[o] /\ new'[o] = new[o] /\ sel'[o] = sel[o]
  BY <1>1, <1>3, EndEffect
<1>5. \A c \in Books : pending'[c] = pending[c] \/ pending'[c] = {}
  BY <1>3
<1>6. FinitePending'
  BY <1>5, FS_EmptySet DEF RescanInv, FinitePending
<1>7. at[r] \in HasRow /\ \A g \in Groups : at[r] \in HasFound(g)
  BY <1>3, StepFacts DEF HasRow, HasFound
<1>8. Knowing' /\ Locks' /\ DeletesAll' /\ NamesThere'
  <2>1. \A c \in Books : lock[c] \notin {r, NoOne} => book'[c] = book[c]
    BY <1>3
  <2>2. ASSUME NEW c \in Books \ loose, NEW g \in Groups, lock[c] # r PROVE links'[c][g] = links[c][g]
    <3>1. CASE c = b
      <4>1. g \notin sel[r]
        BY <2>2, <3>1, <1>2, <1>7 DEF RescanInv, DeletesAll
      <4>2. QED
        BY <3>1, <4>1, <1>3
    <3>2. CASE c # b
      BY <3>2, <1>3
    <3>3. QED
      BY <3>1, <3>2
  <2>3. \A g \in Groups : names[g] \subseteq names'[g]
    BY <1>3 DEF NewNames
  <2>4. QED
    BY <2>1, <2>2, <2>3, <1>3, EndKeeps
<1>9. LinksOfOne'
  <2>1. ASSUME NEW c \in Books \ loose, NEW g \in Groups, NEW l \in links'[c][g], NEW m \in links'[c][g]
        PROVE  l.by = m.by
    <3>1. CASE c = b /\ g \in sel[r]
      BY <2>1, <3>1, <1>2, <1>3, LinksFacts
    <3>2. CASE c # b \/ g \notin sel[r]
      <4>1. links'[c][g] = links[c][g]
        BY <3>2, <1>3
      <4>2. QED
        BY <2>1, <4>1 DEF RescanInv, LinksOfOne
    <3>3. QED
      BY <3>1, <3>2
  <2>2. QED
    BY <2>1, <1>3 DEF LinksOfOne
<1>10. ReadsSole'
  <2>1. ASSUME NEW o \in Requests, first'[o] # Unread
        PROVE  /\ at'[o] \in {"cover", "writing", "again"} /\ HasSole(on[o])' => Sole(on[o])' \subseteq sole'[o]
               /\ at'[o] \in {"row"} \cup HasRow => new'[o] \in sole'[o]
    <3>1. o # r /\ on[o] \in Books
      BY <2>1, <1>1, <1>4 DEF TypeOK
    <3>2. /\ at[o] \in {"cover", "writing", "again"} /\ HasSole(on[o]) => Sole(on[o]) \subseteq sole[o]
          /\ at[o] \in {"row"} \cup HasRow => new[o] \in sole[o]
      BY <2>1, <3>1, <1>4 DEF RescanInv, ReadsSole
    <3>3. CASE pending'[on[o]] = pending[on[o]]
      <4>1. (HasSole(on[o])' <=> HasSole(on[o])) /\ Sole(on[o])' = Sole(on[o])
        BY <3>1, <3>3, <1>4 DEF HasSole, Sole
      <4>2. QED
        BY <3>1, <3>2, <4>1, <1>3, <1>4
    <3>4. CASE pending'[on[o]] = {}
      <4>1. Sole(on[o])' = {}
        BY <3>1, <3>4, <1>4 DEF Sole
      <4>2. QED
        BY <3>1, <3>2, <4>1, <1>3, <1>4
    <3>5. QED
      BY <3>1, <3>3, <3>4, <1>5
  <2>2. \A o \in Requests : first'[o] # Unread => on'[o] = on[o]
    BY <1>4
  <2>3. QED
    BY <2>1, <2>2 DEF ReadsSole, HasSole, Sole
<1>11. Alone'
  <2>1. \A c \in Books : c # on[r] => Sole(c)' = Sole(c)
    BY <1>2, <1>3 DEF Sole
  <2>2. QED
    BY <2>1, <1>3, EndAlone
<1>12. CoversHold'
  <2>1. ASSUME NEW c \in Books \ (raced \cup torn'), \A o \in Busy(c)' : "cover" \in sel'[o] => at'[o] = "cover"
        PROVE  file[c] \in IF book'[c].cover THEN Images ELSE {NoImage}
    <3>1. CASE c # b
      <4>1. r \notin Busy(c) /\ c \notin torn
        BY <2>1, <3>1, <1>2, <1>3 DEF Busy
      <4>2. ASSUME NEW o \in Busy(c) PROVE "cover" \in sel[o] => at[o] = "cover"
        <5>1. o \in Requests \ {r}
          BY <4>1, <4>2 DEF Busy
        <5>2. o \in Busy(c)'
          BY <5>1, <4>2, <1>1, <1>3, EndEffect
        <5>3. QED
          BY <5>1, <5>2, <2>1, <1>4
      <4>3. Covered(c)
        BY <4>1, <4>2, <2>1 DEF RescanInv, CoversHold
      <4>4. QED
        BY <4>3, <3>1, <2>1, <1>3 DEF Covered
    <3>2. CASE c = b /\ "cover" \in sel[r]
      <4>1. r \in Busy(b) /\ first[r] # Unread
        BY <3>2, <1>2, <1>3 DEF Busy, RescanInv, Knowing
      <4>2. new[r] = first[r] /\ file[b] = first[r].cover
        BY <2>1, <3>2, <4>1, <1>3, <1>7 DEF RescanInv, Alone
      <4>3. lock[b] = r /\ draft[r] = Written(book[b], new[r], sel[r])
        BY <3>2, <1>2, <1>7 DEF RescanInv, Locks, Scalars
      <4>4. book'[b] = [text  |-> IF "text" \in sel[r] THEN new[r].text ELSE book[b].text,
                        cover |-> new[r].cover # NoImage]
        BY <3>2, <4>3, <1>3 DEF Written
      <4>5. book'[b].cover = (new[r].cover # NoImage)
        BY <4>4
      <4>6. new[r].cover \in Images \cup {NoImage}
        BY <1>1, <1>7, ParseFacts, StepFacts DEF RescanInv, Knowing, TypeOK
      <4>7. QED
        BY <3>2, <4>2, <4>5, <4>6
    <3>3. CASE c = b /\ "cover" \notin sel[r]
      <4>1. torn' = torn /\ r \in Busy(b)
        BY <3>3, <1>2, <1>3 DEF Busy
      <4>2. \A o \in Busy(b) : o = r
        BY <2>1, <3>3, <4>1 DEF RescanInv, Alone
      <4>3. Covered(b)
        BY <2>1, <3>3, <4>1, <4>2 DEF RescanInv, CoversHold
      <4>4. lock[b] = r => draft[r] = Written(book[b], new[r], sel[r])
        BY <1>2, <1>7 DEF RescanInv, Locks
      <4>5. book'[b].cover <=> book[b].cover
        BY <3>3, <4>4, <1>3 DEF Written
      <4>6. QED
        BY <3>3, <4>3, <4>5 DEF Covered
    <3>4. QED
      BY <3>1, <3>2, <3>3
  <2>2. QED
    BY <2>1, <1>3 DEF CoversHold, Covered
<1>13. QED
  BY <1>6, <1>8, <1>9, <1>10, <1>11, <1>12, CommitTypes DEF RescanInv
------------------------------------------------------------------------------
LEMMA RescanInitInv == ASSUME RescanInit PROVE RescanInv
<1>1. /\ book = [b \in Books |-> AnyRow] /\ links = [b \in Books |-> NoNames] /\ names = NoNames
      /\ file = [b \in Books |-> NoImage] /\ pending = [b \in Books |-> {}] /\ rows = 0 /\ edits = 0
      /\ at = [r \in Requests |-> "idle"] /\ on = [r \in Requests |-> AnyBook]
      /\ sel = [r \in Requests |-> {}] /\ first = [r \in Requests |-> Unread]
      /\ new = [r \in Requests |-> Unread] /\ draft = [r \in Requests |-> AnyRow]
      /\ seen = [r \in Requests |-> {}] /\ gone = [r \in Requests |-> {}]
      /\ missing = [r \in Requests |-> {}] /\ made = [r \in Requests |-> NoNames]
      /\ lock = [b \in Books |-> NoOne] /\ sole = [r \in Requests |-> {}]
      /\ loose = {} /\ raced = {} /\ torn = {}
  BY DEF RescanInit
<1>2. NoNames = [g \in Groups |-> {}] /\ "idle" \in Places
  BY DEF NoNames, Places
<1>3. TypeOK
  <2>1. /\ book \in [Books -> [text : Texts, cover : BOOLEAN]] /\ file \in [Books -> Images \cup {NoImage}]
        /\ draft \in [Requests -> [text : Texts, cover : BOOLEAN]] /\ on \in [Requests -> Books]
    BY <1>1, ParseFacts
  <2>2. NoNames \in [Groups -> SUBSET NameRow] /\ NoNames \in [Groups -> SUBSET Link]
        /\ NoNames \in [Groups -> SUBSET Names]
    BY <1>2
  <2>3. /\ links \in [Books -> [Groups -> SUBSET Link]] /\ names \in [Groups -> SUBSET NameRow]
        /\ made \in [Requests -> [Groups -> SUBSET Names]]
    BY <1>1, <2>2
  <2>4. rows \in 0..MaxRows /\ edits \in 0..MaxEdits
    BY <1>1, RescanAssumption
  <2>5. QED
    BY <1>1, <1>2, <2>1, <2>3, <2>4 DEF TypeOK
<1>4. FinitePending
  BY <1>1, FS_EmptySet DEF FinitePending
<1>5. Knowing
  BY <1>1, StepFacts DEF Knowing
<1>6. Locks /\ DeletesAll
  BY <1>1, StepFacts DEF Locks, DeletesAll
<1>7. NamesThere
  <2>1. \A g \in Groups : "idle" # Step(g, "insert") /\ "idle" \notin HasNames(g)
    BY StepFacts
  <2>2. QED
    BY <2>1, <1>1 DEF NamesThere
<1>8. ReadsSole
  BY <1>1 DEF ReadsSole
<1>9. Alone
  BY <1>1 DEF Alone, Busy
<1>10. CoversHold
  <2>1. AnyRow.cover = FALSE
    BY DEF AnyRow
  <2>2. QED
    BY <2>1, <1>1 DEF CoversHold, Covered
<1>11. LinksOfOne
  BY <1>1, <1>2 DEF LinksOfOne
<1>12. QED
  BY <1>3, <1>4, <1>5, <1>6, <1>7, <1>8, <1>9, <1>10, <1>11 DEF RescanInv

LEMMA RescanStutter == ASSUME RescanInv, UNCHANGED rescanVars PROVE RescanInv'
<1>1. /\ UNCHANGED <<book, links, names, pending, file, rows, edits, at, on, sel, first, new, draft>>
      /\ UNCHANGED <<seen, gone, missing, made, lock, sole, loose, raced, torn>>
  BY DEF rescanVars, tableVars, txVars, noteVars
<1>2. \A c : Busy(c)' = Busy(c) /\ Sole(c)' = Sole(c) /\ HasSole(c)' = HasSole(c) /\ Covered(c)' = Covered(c)
  BY <1>1 DEF Busy, Sole, HasSole, Covered
<1>3. TypeOK'
  BY <1>1 DEF RescanInv, TypeOK
<1>4. FinitePending' /\ Knowing' /\ Locks' /\ DeletesAll' /\ LinksOfOne'
  BY <1>1 DEF RescanInv, FinitePending, Knowing, Locks, DeletesAll, LinksOfOne
<1>5. NamesThere'
  BY <1>1, SameWanted DEF RescanInv, NamesThere
<1>6. ReadsSole' /\ Alone' /\ CoversHold'
  BY <1>1, <1>2 DEF RescanInv, ReadsSole, Alone, CoversHold
<1>7. QED
  BY <1>3, <1>4, <1>5, <1>6 DEF RescanInv

LEMMA RescanKeeps == ASSUME RescanInv, [RescanNext]_rescanVars PROVE RescanInv'
<1>1. CASE UNCHANGED rescanVars
  BY <1>1, RescanStutter
<1>2. CASE RescanNext
  <2>1. PICK r \in Requests :
            \/ \E b \in Books : \/ Preview(r, b) \/ Edit(r, b)
                                \/ \E flags \in Choices, action \in {"approve", "reject"} :
                                       Answer(r, b, action, flags)
            \/ DeletePending(r) \/ InsertPending(r)
            \/ HandleCover(r) \/ WriteCover(r) \/ ReadAgain(r) \/ UpdateRow(r)
            \/ \E g \in Groups : \/ Skip(r, g) \/ FindLinks(r, g)
                                 \/ DeleteLinks(r, g) \/ InsertLinks(r, g)
            \/ Commit(r) \/ Fail(r)
    BY <1>2, Zenon DEF RescanNext
  <2>2. ASSUME NEW b \in Books, Preview(r, b) \/ Edit(r, b) PROVE RescanInv'
    BY <2>2, PreviewInv, EditInv
  <2>3. ASSUME NEW b \in Books, NEW flags \in Choices, NEW action \in {"approve", "reject"},
               Answer(r, b, action, flags)
        PROVE  RescanInv'
    <3>1. Updates(flags) \in SUBSET Fields
      BY DEF Updates
    <3>2. Approve(r, b, Updates(flags)) \/ Reject(r, b)
      BY <2>3 DEF Answer
    <3>3. QED
      BY <3>1, <3>2, ApproveInv, RejectInv
  <2>4. ASSUME NEW g \in Groups,
               Skip(r, g) \/ FindLinks(r, g) \/ DeleteLinks(r, g) \/ InsertLinks(r, g)
        PROVE  RescanInv'
    BY <2>4, SkipInv, FindLinksInv, DeleteLinksInv, InsertLinksInv
  <2>5. ASSUME \/ DeletePending(r) \/ InsertPending(r)
               \/ HandleCover(r) \/ WriteCover(r) \/ ReadAgain(r) \/ UpdateRow(r)
        PROVE  RescanInv'
    BY <2>5, DeletePendingInv, InsertPendingInv, HandleCoverInv, WriteCoverInv, ReadAgainInv, UpdateRowInv
  <2>6. ASSUME Commit(r) \/ Fail(r) PROVE RescanInv'
    BY <2>6, CommitInv, FailInv
  <2>7. QED
    BY <2>1, <2>2, <2>3, <2>4, <2>5, <2>6, Zenon
<1>3. QED
  BY <1>1, <1>2

\* Only a commit changes a book or its junction rows.
LEMMA OnlyCommits ==
    ASSUME RescanInv, [RescanNext]_rescanVars, NEW b \in Books, book'[b] # book[b] \/ links'[b] # links[b]
    PROVE  \E r \in Requests : Commit(r) /\ on[r] = b
<1>1. ~ UNCHANGED <<book, links>>
  OBVIOUS
<1>2. PICK r \in Requests :
          \/ \E c \in Books : \/ Preview(r, c) \/ Edit(r, c)
                              \/ \E flags \in Choices, action \in {"approve", "reject"} :
                                     Answer(r, c, action, flags)
          \/ DeletePending(r) \/ InsertPending(r)
          \/ HandleCover(r) \/ WriteCover(r) \/ ReadAgain(r) \/ UpdateRow(r)
          \/ \E g \in Groups : \/ Skip(r, g) \/ FindLinks(r, g)
                               \/ DeleteLinks(r, g) \/ InsertLinks(r, g)
          \/ Commit(r) \/ Fail(r)
  <2>1. RescanNext
    BY <1>1 DEF rescanVars, tableVars
  <2>2. QED
    BY <2>1, Zenon DEF RescanNext
<1>3. \A c \in Books : /\ Preview(r, c) => UNCHANGED <<book, links>>
                       /\ Edit(r, c) => UNCHANGED <<book, links>>
                       /\ \A flags, action : Answer(r, c, action, flags) => UNCHANGED <<book, links>>
  BY DEF Preview, Edit, Answer, Approve, Reject, tableVars
<1>4. /\ DeletePending(r) => UNCHANGED <<book, links>>
      /\ InsertPending(r) => UNCHANGED <<book, links>>
      /\ HandleCover(r) => UNCHANGED <<book, links>>
      /\ WriteCover(r) => UNCHANGED <<book, links>>
      /\ ReadAgain(r) => UNCHANGED <<book, links>>
      /\ UpdateRow(r) => UNCHANGED <<book, links>>
      /\ Fail(r) => UNCHANGED <<book, links>>
  BY DEF DeletePending, InsertPending, HandleCover, WriteCover, CoverTo, ReadAgain, UpdateRow, Fail, tableVars
<1>5. \A g \in Groups : /\ Skip(r, g) => UNCHANGED <<book, links>>
                        /\ FindLinks(r, g) => UNCHANGED <<book, links>>
                        /\ DeleteLinks(r, g) => UNCHANGED <<book, links>>
                        /\ InsertLinks(r, g) => UNCHANGED <<book, links>>
  BY DEF Skip, FindLinks, DeleteLinks, InsertLinks, tableVars
<1>6. Commit(r)
  BY <1>1, <1>2, <1>3, <1>4, <1>5
<1>7. on[r] = b
  BY <1>6, CommitFacts DEF RescanInv, TypeOK
<1>8. QED
  BY <1>6, <1>7

\* What a commit writes into the row.
LEMMA CommitRow ==
    ASSUME RescanInv, NEW r \in Requests, Commit(r), NEW b \in Books, b = on[r]
    PROVE  book'[b] = Written(book[b], new[r], sel[r])
<1>1. /\ at[r] \in HasRow /\ book'[b] = IF lock[b] = r THEN draft[r] ELSE book[b]
      /\ book[b] \in [text : Texts, cover : BOOLEAN]
  <2>1. at[r] = "commit" /\ book'[b] = IF lock[b] = r THEN draft[r] ELSE book[b]
    BY CommitFacts
  <2>2. book[b] \in [text : Texts, cover : BOOLEAN]
    BY DEF RescanInv, TypeOK
  <2>3. QED
    BY <2>1, <2>2 DEF HasRow
<1>2. CASE lock[b] = r
  BY <1>1, <1>2 DEF RescanInv, Locks
<1>3. CASE lock[b] # r
  <2>1. "text" \notin sel[r] /\ "cover" \notin sel[r]
    BY <1>1, <1>3 DEF RescanInv, Locks, Scalars
  <2>2. Written(book[b], new[r], sel[r]) = [text |-> book[b].text, cover |-> book[b].cover]
    BY <2>1 DEF Written
  <2>3. book[b] = [text |-> book[b].text, cover |-> book[b].cover]
    BY <1>1
  <2>4. QED
    BY <1>1, <1>3, <2>2, <2>3
<1>4. QED
  BY <1>2, <1>3

------------------------------------------------------------------------------
\* RowsAgree for every number of books and requests, every file and every edit:
\* a book's junction rows come from one transaction, and its row and its cover
\* file settle in agreement.
THEOREM RowsSafety == RescanSpec => []RowsAgree
<1>1. RescanInit => RescanInv
  BY RescanInitInv
<1>2. RescanInv /\ [RescanNext]_rescanVars => RescanInv'
  BY RescanKeeps
<1>3. RescanInv => RowsAgree
  BY DEF RescanInv, RowsAgree, CoverSettles, CoversHold, Covered
<1>4. QED
  BY <1>1, <1>2, <1>3, PTL DEF RescanSpec

\* OnePreview: whatever runs beside an approval, the fields it brings into the
\* catalogue are those of one row that was the only pending one, and no others;
\* of the names before it none is left unless the book row was not locked.
THEOREM ApprovalSafety == RescanSpec => OnePreview
<1>1. RescanInit => RescanInv
  BY RescanInitInv
<1>2. RescanInv /\ [RescanNext]_rescanVars => RescanInv'
  BY RescanKeeps
<1>3. ASSUME RescanInv, [RescanNext]_rescanVars
      PROVE  [\A b \in Books :
                book'[b] # book[b] \/ links'[b] # links[b] =>
                    \E r \in Requests :
                        /\ at[r] = "commit" /\ on[r] = b
                        /\ \E v \in IF Editing(r) THEN {new[r]} ELSE sole[r] :
                            /\ book'[b] = Written(book[b], v, sel[r])
                            /\ \A g \in Groups \ sel[r] : links'[b][g] = links[b][g]
                            /\ \A g \in Groups \cap sel[r] :
                                /\ v[g] \ {Blank} \subseteq Named(links'[b][g])
                                /\ b \notin loose => Named(links'[b][g]) \subseteq v[g]]_rescanVars
  <2>1. ASSUME NEW b \in Books, book'[b] # book[b] \/ links'[b] # links[b]
        PROVE  \E r \in Requests :
                  /\ at[r] = "commit" /\ on[r] = b
                  /\ \E v \in IF Editing(r) THEN {new[r]} ELSE sole[r] :
                      /\ book'[b] = Written(book[b], v, sel[r])
                      /\ \A g \in Groups \ sel[r] : links'[b][g] = links[b][g]
                      /\ \A g \in Groups \cap sel[r] :
                          /\ v[g] \ {Blank} \subseteq Named(links'[b][g])
                          /\ b \notin loose => Named(links'[b][g]) \subseteq v[g]
    <3>1. PICK r \in Requests : Commit(r) /\ on[r] = b
      BY <1>3, <2>1, OnlyCommits
    <3>2. at[r] = "commit" /\ at[r] \in HasRow
      BY <3>1 DEF Commit, HasRow
    <3>3. new[r] \in IF Editing(r) THEN {new[r]} ELSE sole[r]
      BY <1>3, <3>2 DEF RescanInv, ReadsSole, Editing
    <3>4. book'[b] = Written(book[b], new[r], sel[r])
      BY <1>3, <3>1, CommitRow
    <3>5. ASSUME NEW g \in Groups
          PROVE  /\ g \notin sel[r] => links'[b][g] = links[b][g]
                 /\ g \in sel[r] => /\ new[r][g] \ {Blank} \subseteq Named(links'[b][g])
                                    /\ b \notin loose => Named(links'[b][g]) \subseteq new[r][g]
      <4>1. links'[b][g] = IF g \in sel[r] THEN NewLinks(r, g) ELSE links[b][g]
        BY <1>3, <3>1, CommitFacts
      <4>2. g \in sel[r] => Wanted(r, g) \subseteq Named(NewLinks(r, g))
        BY <1>3, <3>2, LinksFacts
      <4>3. new[r][g] \ {Blank} \subseteq Wanted(r, g) /\ Wanted(r, g) \subseteq new[r][g]
        BY DEF Wanted
      <4>4. g \in sel[r] /\ b \notin loose => \A l \in NewLinks(r, g) : l.row.name \in Wanted(r, g)
        BY <1>3, <3>1, <3>2, LinksFacts
      <4>5. g \in sel[r] /\ b \notin loose => Named(NewLinks(r, g)) \subseteq new[r][g]
        BY <4>3, <4>4 DEF Named
      <4>6. QED
        BY <4>1, <4>2, <4>3, <4>5
    <3>6. QED
      BY <3>1, <3>2, <3>3, <3>4, <3>5
  <2>2. QED
    BY <2>1
<1>4. QED
  BY <1>1, <1>2, <1>3, PTL DEF RescanSpec, OnePreview

==============================================================================
