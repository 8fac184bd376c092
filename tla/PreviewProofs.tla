---------------------------- MODULE PreviewProofs ----------------------------
(***************************************************************************)
(* Theorems about Preview for every set of books, shape of book, ceiling,  *)
(* number of requests and length of TTL, build timeout and command timeout *)
(* that PreviewAssumption allows; then, from "Sequences of sequences" on,  *)
(* about Portions for every set of documents that DocsAssumption allows,   *)
(* of any length, and every policy that PolicyAssumption allows; and, from *)
(* "BookText" on, about the parse of every file whose elements stand in    *)
(* one another as SchemaAssumption has it, of any length and depth.        *)
(***************************************************************************)
EXTENDS Preview, Portions, BookText, SequenceTheorems, FiniteSetTheorems, WellFoundedInduction, TLAPS

\* TypeOK without the semaphore, whose type rests on SlotAccounting.
DataOK ==
    /\ stopping \in BOOLEAN
    /\ stage \in [Books -> Stages]
    /\ part \in [Books -> Items]
    /\ budget \in [Books -> 0..Timeout]
    /\ life \in [Books -> [Items -> Lives]]
    /\ late \in [Books -> [Causes -> LateOps]]
    /\ needless \in [Books -> BOOLEAN]
    /\ req \in [Readers -> Requests \cup {Idle}]

\* A flight never writes past the book's last part.
PartOK == \A b \in Books : stage[b] \in {"put", "sent"} => part[b] <= Parts[b]

------------------------------------------------------------------------------
(* What a step does to the data.                                           *)

LEMMA ConstantFacts ==
    /\ Ttl \in Nat /\ Timeout \in Nat \ {0} /\ OpTime \in Nat \ {0}
    /\ Timeout + OpTime < Ttl
    /\ MaxParts \in Nat
    /\ \A b \in Books : /\ Parts[b] \in 0..MaxParts
                        /\ Chunks[b] \in 0..MaxParts
    /\ Manifest \in Items /\ Ttl \in Lives /\ Forever \in Lives /\ 0 \in Lives
    /\ NoOp \in LateOps
    /\ \A b \in Books : PartsOf(b) \subseteq Items
BY PreviewAssumption
   DEF PreviewAssumption, Manifest, Items, Lives, Forever, NoOp, LateOps, PartsOf

LEMMA LifeType ==
    ASSUME DataOK, NEW b \in Books, NEW i \in Items, NEW l \in Lives,
           SetLife(b, i, l)
    PROVE  /\ life' \in [Books -> [Items -> Lives]]
           /\ life' = [life EXCEPT ![b] = [life[b] EXCEPT ![i] = l]]
<1> DEFINE f == [life[b] EXCEPT ![i] = l]
<1>1. f \in [Items -> Lives]
  BY DEF DataOK
<1>2. [life EXCEPT ![b] = f] \in [Books -> [Items -> Lives]]
  <2> HIDE DEF f
  <2> QED
    BY <1>1 DEF DataOK
<1>3. QED
  BY <1>2 DEF SetLife

LEMMA StoreType ==
    ASSUME DataOK, NEW b \in Books, NEW i \in Items, Store(b, i) \/ MayStore(b, i)
    PROVE  life' \in [Books -> [Items -> Lives]]
BY LifeType, ConstantFacts DEF DataOK, Store, MayStore

LEMMA LateType ==
    ASSUME DataOK, NEW b \in Books, NEW c \in Causes, NEW op \in LateOps,
           late' = [late EXCEPT ![b][c] = op]
    PROVE  /\ late' \in [Books -> [Causes -> LateOps]]
           /\ late'[b][c] = op
           /\ \A d \in Causes \ {c} : late'[b][d] = late[b][d]
           /\ \A a \in Books \ {b} : late'[a] = late[a]
<1> DEFINE f == [late[b] EXCEPT ![c] = op]
<1>1. f \in [Causes -> LateOps] /\ f[c] = op /\ \A d \in Causes \ {c} : f[d] = late[b][d]
  BY DEF DataOK
<1>2. late' = [late EXCEPT ![b] = f]
  OBVIOUS
<1> HIDE DEF f
<1>3. /\ late' \in [Books -> [Causes -> LateOps]]
      /\ late'[b] = f /\ \A a \in Books \ {b} : late'[a] = late[a]
  BY <1>1, <1>2 DEF DataOK
<1>4. QED
  BY <1>1, <1>3

\* What a late command does: it ends or turns into the one that follows it, and
\* what it writes is an item of its book.
LEMMA LateLands ==
    ASSUME DataOK, NEW b \in Books, NEW c \in Causes, LateStep(b, c)
    PROVE  /\ \E op \in LateOps : op.stage # "set" /\ LateTo(b, c, op)
           /\ \/ UNCHANGED life
              \/ SetLife(b, Manifest, 0)
              \/ /\ late[b][c].stage = "set"
                 /\ late[b][c].item = Manifest /\ SetLife(b, Manifest, Ttl)
              \/ /\ late[b][c].item # Manifest
                 /\ \E l \in {life[b][late[b][c].item], Ttl, Forever} :
                       SetLife(b, late[b][c].item, l)
           /\ UNCHANGED <<stopping, stage, part, budget, sem, req>>
           /\ needless' = needless \/ needless' = [needless EXCEPT ![b] = FALSE]
<1> DEFINE i == late[b][c].item
<1>1. late[b][c] \in LateOps /\ i \in Items
  BY DEF DataOK, LateOps
<1>2. /\ LateOp("retract", Manifest) \in LateOps
      /\ LateOp("retract", Manifest).stage # "set"
      /\ i # Manifest => LateOp("expire", i) \in LateOps
      /\ LateOp("expire", i).stage # "set"
  BY <1>1, ConstantFacts DEF LateOp, LateOps
<1>3. NoOp \in LateOps /\ NoOp.stage # "set"
  BY ConstantFacts DEF NoOp
<1>4. Land(b, i) => \/ i = Manifest /\ SetLife(b, Manifest, Ttl)
                    \/ i # Manifest /\ \E l \in {life[b][i], Ttl, Forever} : SetLife(b, i, l)
  BY DEF Land, Store
<1>5. CASE LateSet(b, c)
  <2>1. \E op \in LateOps : op.stage # "set" /\ LateTo(b, c, op)
    BY <1>1, <1>2, <1>3, <1>5 DEF LateSet
  <2>2. QED
    BY <1>4, <1>5, <2>1 DEF LateSet, flightVars
<1>6. CASE LateExpire(b, c)
  <2>1. late[b][c].stage = "expire" /\ LateTo(b, c, NoOp)
    BY <1>6 DEF LateExpire
  <2>4. i # Manifest
    BY <1>1, <2>1 DEF LateOps
  <2>2. \/ UNCHANGED life
        \/ i # Manifest /\ \E l \in {life[b][i], Ttl, Forever} : SetLife(b, i, l)
    BY <1>6, <2>4 DEF LateExpire, Store
  <2>3. QED
    BY <1>3, <1>6, <2>1, <2>2 DEF LateExpire, flightVars
<1>7. CASE LateRetract(b, c)
  BY <1>3, <1>7 DEF LateRetract
<1>8. CASE LateFails(b, c)
  BY <1>3, <1>4, <1>8 DEF LateFails, flightVars
<1>9. QED
  BY <1>5, <1>6, <1>7, <1>8 DEF LateStep

LEMMA FinishType ==
    ASSUME DataOK, PartOK, NEW b \in Books, Finish(b)
    PROVE  /\ stage' \in [Books -> Stages]
           /\ part' \in [Books -> Items]
           /\ budget' \in [Books -> 0..Timeout]
           /\ needless' \in [Books -> BOOLEAN]
           /\ req' \in [Readers -> Requests \cup {Idle}]
           /\ PartOK'
<1>1. stage' \in [Books -> Stages] /\ part' \in [Books -> Items]
  BY ConstantFacts DEF DataOK, Finish, Stages, Manifest
<1>2. budget' \in [Books -> 0..Timeout]
  BY ConstantFacts DEF DataOK, Finish
<1>3. /\ req' \in [Readers -> Requests \cup {Idle}]
      /\ needless' \in [Books -> BOOLEAN]
  BY DEF DataOK, Finish
<1>4. PartOK'
  BY DEF DataOK, PartOK, Finish
<1>5. QED
  BY <1>1, <1>2, <1>3, <1>4

LEMMA GotoType ==
    ASSUME DataOK, PartOK, NEW b \in Books, NEW s \in Stages, Goto(b, s),
           s \in {"put", "sent"} => part[b] <= Parts[b]
    PROVE  /\ stage' \in [Books -> Stages]
           /\ part' \in [Books -> Items]
           /\ budget' \in [Books -> 0..Timeout]
           /\ needless' \in [Books -> BOOLEAN]
           /\ req' \in [Readers -> Requests \cup {Idle}]
           /\ PartOK'
BY DEF DataOK, PartOK, Goto

LEMMA FlightType ==
    ASSUME DataOK, PartOK, NEW b \in Books, Flight(b)
    PROVE  DataOK' /\ PartOK'
<1> DEFINE Rest == /\ stopping' \in BOOLEAN
                   /\ life' \in [Books -> [Items -> Lives]]
                   /\ late' \in [Books -> [Causes -> LateOps]]
<1>a. CASE Finish(b) /\ Rest
  BY <1>a, FinishType DEF DataOK
<1>b. ASSUME NEW s \in Stages, Goto(b, s), Rest,
             s \in {"put", "sent"} => part[b] <= Parts[b]
      PROVE  DataOK' /\ PartOK'
  BY <1>b, GotoType DEF DataOK
<1>c. ASSUME NEW s \in Stages, NEW i \in 0..Parts[b], Rest,
             stage' = [stage EXCEPT ![b] = s], part' = [part EXCEPT ![b] = i],
             UNCHANGED <<budget, needless, req>>
      PROVE  DataOK' /\ PartOK'
  <2>1. i \in Items
    BY <1>c, ConstantFacts DEF Items
  <2>2. PartOK'
    BY <1>c DEF DataOK, PartOK
  <2>3. QED
    BY <1>c, <2>1, <2>2 DEF DataOK
<1>d. /\ life' = life => life' \in [Books -> [Items -> Lives]]
      /\ late' = late => late' \in [Books -> [Causes -> LateOps]]
      /\ stopping' = stopping => stopping' \in BOOLEAN
  BY DEF DataOK
<1>1. CASE Recheck(b)
  BY <1>1, <1>a, <1>b, <1>d DEF Recheck, Stages
<1>2. CASE TakeSlot(b)
  <2>1. CASE Finish(b)
    BY <1>2, <2>1, <1>a, <1>d DEF TakeSlot
  <2>2. CASE ~Finish(b)
    BY <1>2, <2>2 DEF TakeSlot, DataOK, PartOK, Stages, Building
  <2>3. QED
    BY <2>1, <2>2
<1>3. CASE Prepare(b)
  <2>1. Parts[b] > 0 => 1 \in 0..Parts[b]
    BY ConstantFacts
  <2>2. QED
    BY <1>3, <2>1, <1>a, <1>c, <1>d DEF Prepare, Stages, Building
<1>4. CASE Send(b)
  BY <1>4, <1>b, <1>d DEF Send, PartOK, Stages, Building
<1>5. CASE PartStored(b)
  <2>1. part[b] \in Items /\ part[b] <= Parts[b]
    BY <1>5 DEF PartStored, DataOK, PartOK
  <2>2. life' \in [Books -> [Items -> Lives]]
    BY <1>5, <2>1, StoreType DEF PartStored
  <2>3. NextItem(b) \in 0..Parts[b]
    BY <2>1, ConstantFacts DEF NextItem, Items, Manifest
  <2>4. QED
    BY <1>5, <2>2, <2>3, <1>c, <1>d DEF PartStored, Stages, Building
<1>6. CASE WriteFails(b)
  <2>1. part[b] \in Items
    BY DEF DataOK
  <2>2. QED
    BY <1>6, <2>1, <1>a, <1>d, StoreType DEF WriteFails
<1>7. CASE ManifestStored(b)
  BY <1>7, <1>b, <1>d, StoreType, ConstantFacts DEF ManifestStored, Stages, Building
<1>8. CASE CompareDeadline(b)
  BY <1>8, <1>b, <1>d DEF CompareDeadline, Stages, Building
<1>9. CASE Retract(b)
  <2>1. life' \in [Books -> [Items -> Lives]]
    BY <1>9, LifeType, ConstantFacts DEF Retract, DataOK
  <2>2. QED
    BY <1>9, <2>1, <1>b, <1>d DEF Retract, Stages, Building
<1>10. CASE Acknowledge(b)
  BY <1>10, <1>a, <1>d DEF Acknowledge
<1>11. CASE CutOff(b)
  <2>1. part[b] \in Items /\ Cause(b) \in Causes /\ OpTime \in 0..OpTime
    BY ConstantFacts DEF DataOK, Cause, Causes
  <2>2. late[b][Cause(b)] \in LateOps
    BY <2>1 DEF DataOK
  <2>3. Abandoned(b) \in LateOps
    BY <2>1, <2>2, ConstantFacts DEF Abandoned, LateOp, LateOps
  <2>5. late' \in [Books -> [Causes -> LateOps]]
    BY <1>11, <2>1, <2>3, LateType DEF CutOff
  <2>4. QED
    BY <1>11, <2>5, <1>a, <1>d DEF CutOff
<1>12. QED
  BY <1>1, <1>2, <1>3, <1>4, <1>5, <1>6, <1>7, <1>8, <1>9, <1>10, <1>11 DEF Flight

LEMMA NextType ==
    ASSUME DataOK, PartOK, [Next]_vars
    PROVE  DataOK' /\ PartOK'
<1> USE DEF DataOK, PartOK
<1>1. ASSUME NEW r \in Readers, NEW b \in Books,
             Open(r, b) \/ ReadEntry(r, b) \/ Join(r, b)
      PROVE  DataOK' /\ PartOK'
  <2>1. At("manifest", b) \in Requests /\ At("chunk0", b) \in Requests
        /\ At("join", b) \in Requests /\ At("wait", b) \in Requests
    BY DEF At, Requests
  <2>2. CASE Open(r, b)
    BY <2>1, <2>2 DEF Open, flightVars
  <2>3. CASE ReadEntry(r, b)
    BY <2>1, <2>3 DEF ReadEntry, flightVars
  <2>4. CASE Join(r, b)
    <3>2. needless' = needless \/ needless' = [needless EXCEPT ![b] = TRUE]
      BY <2>4 DEF Join
    <3>3. needless' \in [Books -> BOOLEAN]
      BY <3>2
    <3>4. /\ stage' = stage \/ stage' = [stage EXCEPT ![b] = "recheck"]
          /\ budget' = budget \/ budget' = [budget EXCEPT ![b] = Timeout]
          /\ req' = [req EXCEPT ![r] = At("wait", b)]
          /\ UNCHANGED <<stopping, part, life, late>>
      BY <2>4 DEF Join
    <3>5. "recheck" \in Stages /\ "recheck" \notin {"put", "sent"} /\ Timeout \in 0..Timeout
      BY ConstantFacts DEF Stages
    <3>6. stage' \in [Books -> Stages]
      BY <3>4, <3>5
    <3>10. budget' \in [Books -> 0..Timeout]
      BY <3>4, <3>5
    <3>7. req' \in [Readers -> Requests \cup {Idle}]
      BY <2>1, <3>4
    <3>8. PartOK'
      BY <3>4, <3>5
    <3>9. QED
      BY <3>3, <3>4, <3>6, <3>7, <3>8, <3>10
  <2>5. QED
    BY <1>1, <2>2, <2>3, <2>4
<1>2. ASSUME NEW r \in Readers, Leave(r)
      PROVE  DataOK' /\ PartOK'
  BY <1>2 DEF Leave, flightVars
<1>3. ASSUME NEW b \in Books, Flight(b)
      PROVE  DataOK' /\ PartOK'
  BY <1>3, FlightType
<1>4. ASSUME NEW b \in Books, NEW c \in Causes, LateStep(b, c)
      PROVE  DataOK' /\ PartOK'
  <2>1. PICK op \in LateOps : op.stage # "set" /\ LateTo(b, c, op)
    BY <1>4, LateLands
  <2>2. late' \in [Books -> [Causes -> LateOps]]
    BY <2>1, LateType DEF LateTo
  <2>3. life' \in [Books -> [Items -> Lives]]
    <3>1. late[b][c].item \in Items /\ life[b][late[b][c].item] \in Lives
      BY DEF LateOps
    <3>2. \/ UNCHANGED life
          \/ \E i \in Items, l \in Lives : SetLife(b, i, l)
      BY <1>4, <3>1, LateLands, ConstantFacts
    <3>3. QED
      BY <3>2, LifeType
  <2>4. needless' \in [Books -> BOOLEAN]
    BY <1>4, LateLands
  <2>5. QED
    BY <1>4, <2>2, <2>3, <2>4, LateLands
<1>5. CASE Tick
  <2>1. \A l \in Lives : Aged(l) \in Lives
    BY ConstantFacts DEF Aged, Lives, Forever
  <2>2. \A op \in LateOps : LateAged(op) \in LateOps
    BY ConstantFacts DEF LateAged, LateOps
  <2>3. life' \in [Books -> [Items -> Lives]]
    BY <1>5, <2>1 DEF Tick
  <2>4. budget' \in [Books -> 0..Timeout]
    BY <1>5, ConstantFacts DEF Tick
  <2>6. late' \in [Books -> [Causes -> LateOps]]
    BY <1>5, <2>2 DEF Tick
  <2>5. QED
    BY <1>5, <2>3, <2>4, <2>6 DEF Tick
<1>6. CASE Shutdown
  BY <1>6 DEF Shutdown, flightVars
<1>7. CASE Restart
  <2>1. stage' \in [Books -> Stages] /\ PartOK'
    BY <1>7 DEF Restart, Stages
  <2>2. part' \in [Books -> Items] /\ budget' \in [Books -> 0..Timeout]
    BY <1>7, ConstantFacts DEF Restart, Manifest
  <2>3. late' \in [Books -> [Causes -> LateOps]]
    BY <1>7, ConstantFacts DEF Restart
  <2>4. req' \in [Readers -> Requests \cup {Idle}] /\ needless' \in [Books -> BOOLEAN]
    BY <1>7 DEF Restart
  <2>5. QED
    BY <1>7, <2>1, <2>2, <2>3, <2>4 DEF Restart
<1>8. CASE UNCHANGED vars
  BY <1>8 DEF vars, flightVars
<1>9. QED
  BY <1>1, <1>2, <1>3, <1>4, <1>5, <1>6, <1>7, <1>8 DEF Next, Step

LEMMA InitType ==
    ASSUME Init
    PROVE  DataOK /\ PartOK
<1>1. stage \in [Books -> Stages] /\ PartOK
  BY DEF Init, PartOK, Stages
<1>2. part \in [Books -> Items] /\ budget \in [Books -> 0..Timeout]
  BY ConstantFacts DEF Init, Manifest
<1>3. late \in [Books -> [Causes -> LateOps]] /\ needless \in [Books -> BOOLEAN]
  BY ConstantFacts DEF Init
<1>4. life \in [Books -> [Items -> Lives]]
  BY ConstantFacts DEF Init
<1>5. req \in [Readers -> Requests \cup {Idle}] /\ stopping \in BOOLEAN
  BY DEF Init
<1>6. QED
  BY <1>1, <1>2, <1>3, <1>4, <1>5 DEF DataOK

LEMMA DataInvariant == Spec => [](DataOK /\ PartOK)
<1>1. DataOK /\ PartOK /\ [Next]_vars => (DataOK /\ PartOK)'
  BY NextType
<1>2. QED
  BY InitType, <1>1, PTL DEF Spec

------------------------------------------------------------------------------
(* What a step does to the slots: it keeps them, takes one, frees one or    *)
(* drops them all.                                                          *)

SlotsKept    == Holders' = Holders /\ sem' = sem
SlotTaken(b) == /\ b \notin Holders /\ sem < Slots
                /\ Holders' = Holders \cup {b} /\ sem' = sem + 1
SlotFreed(b) == /\ b \in Holders
                /\ Holders' = Holders \ {b} /\ sem' = sem - 1
SlotsDropped == Holders' = {} /\ sem' = 0

LEMMA StageSlots ==
    ASSUME DataOK, NEW b \in Books, NEW s \in Stages,
           stage' = [stage EXCEPT ![b] = s]
    PROVE  Holders' = IF s \in Building THEN Holders \cup {b} ELSE Holders \ {b}
BY DEF DataOK, Holders

LEMMA FinishSlots ==
    ASSUME DataOK, NEW b \in Books, Finish(b)
    PROVE  SlotsKept \/ SlotFreed(b)
<1>1. "none" \in Stages /\ "none" \notin Building
  BY DEF Stages, Building
<1>2. Holders' = Holders \ {b}
  BY <1>1, StageSlots DEF Finish
<1>3. b \in Holders <=> stage[b] \in Building
  BY DEF Holders
<1>4. QED
  BY <1>2, <1>3 DEF Finish, SlotsKept, SlotFreed

LEMMA GotoSlots ==
    ASSUME DataOK, NEW b \in Books, NEW s \in Stages,
           stage' = [stage EXCEPT ![b] = s], sem' = sem,
           s \in Building <=> stage[b] \in Building
    PROVE  SlotsKept
<1>1. b \in Holders <=> stage[b] \in Building
  BY DEF Holders
<1>2. QED
  BY <1>1, StageSlots DEF SlotsKept

LEMMA FlightSlots ==
    ASSUME DataOK, NEW b \in Books, Flight(b)
    PROVE  SlotsKept \/ SlotTaken(b) \/ SlotFreed(b)
<1> USE FinishSlots, GotoSlots DEF Goto, Stages, Building
<1>1. CASE Recheck(b)
  BY <1>1 DEF Recheck
<1>2. CASE TakeSlot(b)
  <2>1. b \notin Holders
    BY <1>2 DEF TakeSlot, Holders
  <2>2. CASE Finish(b)
    BY <2>2
  <2>3. CASE ~Finish(b)
    <3>1. sem < Slots /\ sem' = sem + 1 /\ stage' = [stage EXCEPT ![b] = "load"]
      BY <1>2, <2>3 DEF TakeSlot
    <3>2. Holders' = Holders \cup {b}
      BY <3>1, StageSlots
    <3>3. QED
      BY <2>1, <3>1, <3>2 DEF SlotTaken
  <2>4. QED
    BY <2>2, <2>3
<1>3. CASE Prepare(b)
  BY <1>3 DEF Prepare
<1>4. CASE Send(b)
  BY <1>4 DEF Send
<1>5. CASE PartStored(b)
  BY <1>5 DEF PartStored
<1>6. CASE WriteFails(b)
  BY <1>6 DEF WriteFails
<1>7. CASE ManifestStored(b)
  BY <1>7 DEF ManifestStored
<1>8. CASE CompareDeadline(b)
  BY <1>8 DEF CompareDeadline
<1>9. CASE Retract(b)
  BY <1>9 DEF Retract
<1>10. CASE Acknowledge(b)
  BY <1>10 DEF Acknowledge
<1>11. CASE CutOff(b)
  BY <1>11 DEF CutOff
<1>12. QED
  BY <1>1, <1>2, <1>3, <1>4, <1>5, <1>6, <1>7, <1>8, <1>9, <1>10, <1>11 DEF Flight

LEMMA NextSlots ==
    ASSUME DataOK, [Next]_vars
    PROVE  \/ SlotsKept \/ SlotsDropped
           \/ \E b \in Books : SlotTaken(b) \/ SlotFreed(b)
<1>a. UNCHANGED <<stage, sem>> => SlotsKept
  BY DEF SlotsKept, Holders
<1>1. ASSUME NEW r \in Readers, NEW b \in Books, Join(r, b)
      PROVE  SlotsKept
  <2>1. CASE stage[b] = "none"
    BY <1>1, <2>1, GotoSlots DEF Join, Stages, Building
  <2>2. CASE stage[b] # "none"
    BY <1>1, <2>2, <1>a DEF Join
  <2>3. QED
    BY <2>1, <2>2
<1>2. CASE Restart
  BY <1>2 DEF Restart, SlotsDropped, Holders, Building
<1>3. ASSUME NEW b \in Books, Flight(b)
      PROVE  SlotsKept \/ SlotTaken(b) \/ SlotFreed(b)
  BY <1>3, FlightSlots
<1>4. ASSUME NEW b \in Books, NEW c \in Causes, LateStep(b, c)
      PROVE  SlotsKept
  BY <1>4, <1>a, LateLands
<1>5. ASSUME NEW r \in Readers, NEW b \in Books, Open(r, b) \/ ReadEntry(r, b)
      PROVE  SlotsKept
  BY <1>5, <1>a DEF Open, ReadEntry, flightVars
<1>6. ASSUME NEW r \in Readers, Leave(r)
      PROVE  SlotsKept
  BY <1>6, <1>a DEF Leave, flightVars
<1>7. CASE Tick \/ Shutdown \/ UNCHANGED vars
  BY <1>7, <1>a DEF Tick, Shutdown, vars, flightVars
<1>8. QED
  BY <1>1, <1>2, <1>3, <1>4, <1>5, <1>6, <1>7 DEF Next, Step

\* The slot count is exact and bounded, and with it TypeOK holds, whatever
\* return the builds take, for every set of books and every ceiling.
THEOREM SlotSafety == Spec => [](TypeOK /\ SlotAccounting)
<1>1. IsFiniteSet(Books) /\ Slots \in Nat \ {0}
  BY PreviewAssumption DEF PreviewAssumption
<1>2. Holders \subseteq Books /\ IsFiniteSet(Holders)
  BY <1>1, FS_Subset DEF Holders
<1>3. Init => SlotAccounting
  BY <1>1, FS_EmptySet DEF Init, SlotAccounting, Holders, Building
<1>4. ASSUME DataOK, SlotAccounting, [Next]_vars
      PROVE  SlotAccounting'
  <2>1. sem \in Nat
    BY <1>2, <1>4, FS_CardinalityType DEF SlotAccounting
  <2>2. CASE SlotsKept
    BY <1>4, <2>2 DEF SlotAccounting, SlotsKept
  <2>3. CASE SlotsDropped
    BY <1>1, <2>3, FS_EmptySet DEF SlotAccounting, SlotsDropped
  <2>4. ASSUME NEW b \in Books, SlotTaken(b)
        PROVE  SlotAccounting'
    <3>1. Cardinality(Holders \cup {b}) = Cardinality(Holders) + 1
      BY <1>2, <2>4, FS_AddElement DEF SlotTaken
    <3>2. QED
      BY <1>1, <1>4, <2>1, <2>4, <3>1 DEF SlotAccounting, SlotTaken
  <2>5. ASSUME NEW b \in Books, SlotFreed(b)
        PROVE  SlotAccounting'
    <3>1. Cardinality(Holders \ {b}) = Cardinality(Holders) - 1
      BY <1>2, <2>5, FS_RemoveElement DEF SlotFreed
    <3>2. QED
      BY <1>1, <1>4, <2>1, <2>5, <3>1 DEF SlotAccounting, SlotFreed
  <2>6. QED
    BY <1>4, <2>2, <2>3, <2>4, <2>5, NextSlots
<1>5. DataOK /\ SlotAccounting => TypeOK
  BY <1>2, FS_CardinalityType DEF DataOK, SlotAccounting, TypeOK
<1>6. Spec => []SlotAccounting
  BY <1>3, <1>4, DataInvariant, PTL DEF Spec
<1>7. QED
  BY <1>5, <1>6, DataInvariant, PTL

\* The preview implements the abstract pool: one build per book, at most
\* Slots builds, and a build ends alone or with the process.
THEOREM PoolRefinement == Spec => PoolSpec
<1>1. Init => Pool!Init
  BY DEF Init, Pool!Init, Holders, Building
<1>2. ASSUME DataOK, SlotAccounting, [Next]_vars
      PROVE  [Pool!Next]_Holders
  <2>1. CASE SlotsKept \/ SlotsDropped
    BY <2>1 DEF SlotsKept, SlotsDropped, Pool!Next, Pool!Stop
  <2>2. ASSUME NEW b \in Books, SlotTaken(b)
        PROVE  Pool!Begin(b)
    <3>1. Pool!Cardinality(Holders) = Cardinality(Holders)
      BY DEF Pool!Cardinality, Cardinality
    <3>2. QED
      BY <1>2, <2>2, <3>1 DEF SlotTaken, SlotAccounting, Pool!Begin
  <2>3. ASSUME NEW b \in Books, SlotFreed(b)
        PROVE  Pool!End(b)
    BY <2>3 DEF SlotFreed, Pool!End
  <2>4. QED
    BY <1>2, <2>1, <2>2, <2>3, NextSlots DEF Pool!Next
<1>3. QED
  BY <1>1, <1>2, DataInvariant, SlotSafety, PTL DEF Spec, PoolSpec, Pool!Spec

------------------------------------------------------------------------------
(* The tail invariant, book by book.                                       *)

BookTail(b) ==
    /\ \A i \in PartsOf(b) :
          /\ InCache(b, Manifest) =>
                life[b][i] + Timeout + OpTime >= life[b][Manifest]
          /\ Written(b, i) => life[b][i] + Timeout >= Ttl + budget[b]
          /\ \A c \in Causes :
                late[b][c].stage = "set" /\ late[b][c].item = Manifest =>
                   life[b][i] + Timeout + OpTime >= Ttl + late[b][c].left
    /\ life[b][Manifest] <= Ttl
    /\ stage[b] \in {"put", "sent"} => part[b] <= Parts[b]

LEMMA TailByBook == TailInv <=> \A b \in Books : BookTail(b)
BY DEF TailInv, TailBound, FlightFresh, LateFresh, BookTail

LEMMA Numbers ==
    ASSUME DataOK, NEW b \in Books
    PROVE  /\ \A i \in Items : life[b][i] \in 0..Ttl + 1
           /\ budget[b] \in 0..Timeout /\ part[b] \in Items
           /\ \A c \in Causes : /\ late[b][c].left \in 0..OpTime
                               /\ late[b][c].item \in Items
BY DEF DataOK, LateOps, Lives, Forever

\* A book no variable of which changes, or whose flight ends or moves on
\* without writing, keeps its bounds.
LEMMA BookQuiet ==
    ASSUME NEW b \in Books, BookTail(b),
           life'[b] = life[b], late'[b] = late[b],
           \/ stage'[b] = stage[b] /\ part'[b] = part[b] /\ budget'[b] = budget[b]
           \/ stage'[b] \notin {"put", "sent"}
    PROVE  BookTail(b)'
BY DEF BookTail, InCache, Written

LEMMA FinishFrame ==
    ASSUME DataOK, NEW b \in Books, Finish(b)
    PROVE  /\ stage'[b] = "none"
           /\ \A c \in Books \ {b} : /\ stage'[c] = stage[c]
                                     /\ part'[c] = part[c]
                                     /\ budget'[c] = budget[c]
BY DEF DataOK, Finish

LEMMA GotoFrame ==
    ASSUME DataOK, NEW b \in Books, NEW s, Goto(b, s)
    PROVE  /\ stage'[b] = s /\ part'[b] = part[b] /\ budget'[b] = budget[b]
           /\ \A c \in Books \ {b} : /\ stage'[c] = stage[c]
                                     /\ part'[c] = part[c]
                                     /\ budget'[c] = budget[c]
BY DEF DataOK, Goto

LEMMA LifeFrame ==
    ASSUME DataOK, NEW b \in Books, NEW i \in Items, NEW l \in Lives,
           SetLife(b, i, l)
    PROVE  /\ life'[b][i] = l
           /\ \A j \in Items \ {i} : life'[b][j] = life[b][j]
           /\ \A c \in Books \ {b} : life'[c] = life[c]
BY LifeType DEF DataOK

\* No write of the manifest is left to run on that was not before.
LateKept(b) == \A c \in Causes : late'[b][c].stage # "set" \/ late'[b][c] = late[b][c]

\* A part that is written, wholly or without its TTL, loosens the bounds.
LEMMA PartWrite ==
    ASSUME DataOK, NEW b \in Books, BookTail(b),
           NEW i \in Items \ {Manifest}, NEW l \in {life[b][i], Ttl, Forever},
           SetLife(b, i, l), LateKept(b),
           stage'[b] \notin {"put", "sent"} \/
              (stage'[b] = stage[b] /\ part'[b] = part[b] /\ budget'[b] = budget[b])
    PROVE  BookTail(b)'
<1>1. /\ life'[b][Manifest] = life[b][Manifest]
      /\ \A j \in Items : life'[b][j] \in {life[b][j], Ttl, Ttl + 1}
  <2>1. l \in Lives /\ l \in {life[b][i], Ttl, Ttl + 1}
    BY ConstantFacts DEF Forever, DataOK
  <2>2. QED
    BY <2>1, LifeFrame, ConstantFacts
<1>2. SUFFICES ASSUME NEW j \in PartsOf(b)
               PROVE  /\ InCache(b, Manifest)' =>
                            life'[b][j] + Timeout + OpTime >= life'[b][Manifest]
                      /\ Written(b, j)' =>
                            life'[b][j] + Timeout >= Ttl + budget'[b]
                      /\ \A c \in Causes :
                            late'[b][c].stage = "set" /\ late'[b][c].item = Manifest =>
                               life'[b][j] + Timeout + OpTime >= Ttl + late'[b][c].left
  BY <1>1 DEF BookTail, PartsOf
<1>3. j \in Items /\ life[b][j] \in 0..Ttl + 1
      /\ life[b][Manifest] \in 0..Ttl + 1
      /\ life'[b][j] \in {life[b][j], Ttl, Ttl + 1}
  BY <1>1, ConstantFacts, Numbers
<1>4. /\ Written(b, j)' => Written(b, j) /\ budget'[b] = budget[b]
      /\ \A c \in Causes : late'[b][c].stage = "set" => late'[b][c] = late[b][c]
  BY DEF Written, LateKept
<1>5. CASE life'[b][j] = life[b][j]
  BY <1>1, <1>3, <1>4, <1>5, ConstantFacts, Numbers DEF BookTail, InCache
<1>6. CASE life'[b][j] >= Ttl
  BY <1>1, <1>3, <1>4, <1>6, ConstantFacts, Numbers DEF BookTail, InCache
<1>7. QED
  BY <1>3, <1>5, <1>6, ConstantFacts

\* A manifest that is written keeps the bound because the parts are fresh:
\* those of the flight that writes it, or of the one that left it behind.
LEMMA ManifestWrite ==
    ASSUME DataOK, NEW b \in Books, BookTail(b), SetLife(b, Manifest, Ttl),
           \/ stage[b] = "sent" /\ part[b] = Manifest
           \/ \E c \in Causes : late[b][c].stage = "set" /\ late[b][c].item = Manifest,
           LateKept(b),
           stage'[b] \notin {"put", "sent"} \/
              (stage'[b] = stage[b] /\ part'[b] = part[b] /\ budget'[b] = budget[b])
    PROVE  BookTail(b)'
<1>1. /\ life'[b][Manifest] = Ttl
      /\ \A j \in PartsOf(b) : life'[b][j] = life[b][j]
  BY LifeFrame, ConstantFacts DEF PartsOf, Manifest
<1>2. \A j \in PartsOf(b) : life[b][j] + Timeout + OpTime >= Ttl
  <2>1. CASE stage[b] = "sent" /\ part[b] = Manifest
    BY <2>1, ConstantFacts, Numbers DEF BookTail, Written
  <2>2. ASSUME NEW c \in Causes, late[b][c].stage = "set", late[b][c].item = Manifest,
               NEW j \in PartsOf(b)
        PROVE  life[b][j] + Timeout + OpTime >= Ttl
    <3>1. j \in Items /\ life[b][j] \in 0..Ttl + 1
      BY ConstantFacts, Numbers
    <3>2. life[b][j] + Timeout + OpTime >= Ttl + late[b][c].left
      BY <2>2 DEF BookTail
    <3>3. QED
      BY <3>1, <3>2, ConstantFacts, Numbers
  <2>3. QED
    BY <2>1, <2>2
<1>3. QED
  BY <1>1, <1>2, ConstantFacts, Numbers DEF BookTail, Written, InCache, LateKept

LEMMA ManifestGone ==
    ASSUME DataOK, NEW b \in Books, BookTail(b), SetLife(b, Manifest, 0),
           LateKept(b),
           stage'[b] \notin {"put", "sent"} \/
              (stage'[b] = stage[b] /\ part'[b] = part[b] /\ budget'[b] = budget[b])
    PROVE  BookTail(b)'
<1>1. /\ life'[b][Manifest] = 0
      /\ \A j \in PartsOf(b) : life'[b][j] = life[b][j]
  BY LifeFrame, ConstantFacts DEF PartsOf, Manifest
<1>2. QED
  BY <1>1, ConstantFacts, Numbers DEF BookTail, Written, InCache, LateKept

LEMMA FlightTail ==
    ASSUME DataOK, PartOK, NEW b \in Books, BookTail(b), Flight(b)
    PROVE  BookTail(b)'
<1> USE FinishFrame, GotoFrame, BookQuiet
<1>a. part[b] \in Items /\ (part[b] # Manifest => part[b] \in Items \ {Manifest})
      /\ "none" \notin {"put", "sent"}
  BY Numbers
<1>c. late'[b] = late[b] => LateKept(b)
  BY DEF LateKept
<1>b. /\ life' = life => life'[b] = life[b]
      /\ late' = late => late'[b] = late[b]
  OBVIOUS
<1>1. CASE Recheck(b)
  BY <1>1, <1>b DEF Recheck
<1>2. CASE TakeSlot(b)
  <2>1. stage'[b] \in {"none", "load"}
    BY <1>2 DEF TakeSlot, DataOK
  <2>2. QED
    BY <1>2, <1>b, <2>1 DEF TakeSlot
<1>3. CASE Prepare(b)
  <2>1. CASE Finish(b)
    BY <1>3, <2>1, <1>b DEF Prepare
  <2>2. CASE ~Finish(b)
    <3>1. /\ stage'[b] = "put" /\ part'[b] = 1 /\ Parts[b] > 0
          /\ life' = life /\ late' = late
      BY <1>3, <2>2 DEF Prepare, DataOK
    <3>2. \A i \in PartsOf(b) : ~Written(b, i)'
      BY <3>1, ConstantFacts DEF Written, PartsOf, Manifest
    <3>3. QED
      BY <3>1, <3>2, ConstantFacts DEF BookTail, InCache
  <2>3. QED
    BY <2>1, <2>2
<1>4. CASE Send(b)
  BY <1>4, GotoFrame DEF Send, BookTail, InCache, Written
<1>5. CASE PartStored(b)
  <2>1. /\ stage[b] = "sent" /\ part[b] \in Items \ {Manifest}
        /\ stage'[b] = "put" /\ part'[b] = NextItem(b) /\ budget' = budget
        /\ late' = late /\ SetLife(b, part[b], Ttl) /\ part[b] <= Parts[b]
    BY <1>5, <1>a DEF PartStored, DataOK, PartOK, Store
  <2>2. /\ life'[b][Manifest] = life[b][Manifest]
        /\ life'[b][part[b]] = Ttl
        /\ \A j \in Items : life'[b][j] = IF j = part[b] THEN Ttl ELSE life[b][j]
    BY <2>1, LifeFrame, ConstantFacts
  <2>3. NextItem(b) <= Parts[b]
    BY <2>1, ConstantFacts, Numbers DEF NextItem, Manifest, Items
  <2>4. ASSUME NEW j \in PartsOf(b)
        PROVE  Written(b, j)' => Written(b, j) \/ j = part[b]
    BY <2>1, ConstantFacts DEF Written, NextItem, PartsOf, Items, Manifest
  <2>5. ASSUME NEW j \in PartsOf(b)
        PROVE  /\ InCache(b, Manifest)' =>
                     life'[b][j] + Timeout + OpTime >= life'[b][Manifest]
               /\ Written(b, j)' => life'[b][j] + Timeout >= Ttl + budget'[b]
               /\ \A c \in Causes :
                     late'[b][c].stage = "set" /\ late'[b][c].item = Manifest =>
                        life'[b][j] + Timeout + OpTime >= Ttl + late'[b][c].left
    <3>1. j \in Items /\ life[b][j] \in 0..Ttl + 1 /\ life[b][Manifest] \in 0..Ttl + 1
      BY ConstantFacts, Numbers
    <3>2. CASE j = part[b]
      BY <2>1, <2>2, <3>1, <3>2, ConstantFacts, Numbers DEF BookTail, InCache
    <3>3. CASE j # part[b]
      BY <2>1, <2>2, <2>4, <3>1, <3>3, ConstantFacts, Numbers DEF BookTail, InCache
    <3>4. QED
      BY <3>2, <3>3
  <2>6. QED
    BY <2>1, <2>2, <2>3, <2>5 DEF BookTail
<1>6. CASE WriteFails(b)
  <2>1. /\ stage[b] = "sent" /\ late'[b] = late[b]
        /\ stage'[b] \notin {"put", "sent"}
    BY <1>6, <1>a DEF WriteFails
  <2>2. CASE UNCHANGED life
    BY <2>1, <2>2
  <2>3. CASE part[b] = Manifest /\ SetLife(b, Manifest, Ttl)
    BY <1>c, <2>1, <2>3, ManifestWrite
  <2>4. CASE part[b] # Manifest /\ \E l \in {Ttl, Forever} : SetLife(b, part[b], l)
    BY <1>a, <1>c, <2>1, <2>4, PartWrite
  <2>5. QED
    BY <1>6, <2>2, <2>3, <2>4 DEF WriteFails, MayStore, Store
<1>7. CASE ManifestStored(b)
  BY <1>7, <1>c, ManifestWrite DEF ManifestStored, Store
<1>8. CASE CompareDeadline(b)
  BY <1>8, <1>b DEF CompareDeadline
<1>9. CASE Retract(b)
  BY <1>9, <1>b, <1>c, ManifestGone DEF Retract
<1>10. CASE Acknowledge(b)
  BY <1>10, <1>b DEF Acknowledge
<1>11. CASE CutOff(b)
  <2>1. stage'[b] = "none" /\ life' = life /\ Cause(b) \in Causes
    BY <1>11 DEF CutOff, DataOK, Cause, Causes
  <2>2. PICK op \in LateOps : op = Abandoned(b)
    <3>1. late[b][Cause(b)] \in LateOps /\ OpTime \in 0..OpTime
      BY <2>1, ConstantFacts DEF DataOK
    <3>2. QED
      BY <1>a, <3>1, ConstantFacts DEF Abandoned, LateOp, LateOps
  <2>3. /\ late'[b][Cause(b)] = op
        /\ \A c \in Causes \ {Cause(b)} : late'[b][c] = late[b][c]
    <3>1. late' = [late EXCEPT ![b][Cause(b)] = op]
      BY <1>11, <2>2 DEF CutOff
    <3>2. QED
      BY <2>1, <3>1, LateType
  <2>4. CASE op = late[b][Cause(b)]
    BY <2>1, <2>3, <2>4, ConstantFacts DEF BookTail, InCache, Written
  <2>5. CASE op # late[b][Cause(b)]
    <3>1. ASSUME op.stage = "set", op.item = Manifest
          PROVE  stage[b] = "sent" /\ part[b] = Manifest /\ op.left = OpTime
      BY <2>2, <2>5, <3>1 DEF Abandoned, LateOp
    <3>2. ASSUME NEW j \in PartsOf(b), op.stage = "set", op.item = Manifest
          PROVE  life[b][j] + Timeout + OpTime >= Ttl + op.left
      <4>1. Written(b, j)
        BY <3>1, <3>2 DEF Written
      <4>2. life[b][j] + Timeout >= Ttl + budget[b] /\ j \in Items
        BY <4>1, ConstantFacts DEF BookTail
      <4>3. QED
        BY <3>1, <3>2, <4>2, ConstantFacts, Numbers
    <3>3. QED
      BY <2>1, <2>3, <3>2 DEF BookTail, InCache, Written
  <2>6. QED
    BY <2>4, <2>5
<1>12. QED
  BY <1>1, <1>2, <1>3, <1>4, <1>5, <1>6, <1>7, <1>8, <1>9, <1>10, <1>11 DEF Flight

LEMMA LateTail ==
    ASSUME DataOK, NEW b \in Books, NEW c \in Causes, BookTail(b), LateStep(b, c)
    PROVE  BookTail(b)'
<1>1. stage'[b] = stage[b] /\ part'[b] = part[b] /\ budget'[b] = budget[b]
  BY LateLands
<1>2. LateKept(b)
  <2>1. PICK op \in LateOps : op.stage # "set" /\ LateTo(b, c, op)
    BY LateLands
  <2>2. late'[b][c] = op /\ \A d \in Causes \ {c} : late'[b][d] = late[b][d]
    BY <2>1, LateType DEF LateTo
  <2>3. QED
    BY <2>1, <2>2 DEF LateKept
<1>3. CASE SetLife(b, Manifest, 0)
  BY <1>1, <1>2, <1>3, ManifestGone
<1>4. CASE UNCHANGED life
  BY <1>1, <1>2, <1>4 DEF BookTail, InCache, Written, LateKept
<1>5. CASE /\ late[b][c].stage = "set" /\ late[b][c].item = Manifest
           /\ SetLife(b, Manifest, Ttl)
  BY <1>1, <1>2, <1>5, ManifestWrite
<1>6. CASE /\ late[b][c].item # Manifest
           /\ \E l \in {life[b][late[b][c].item], Ttl, Forever} :
                 SetLife(b, late[b][c].item, l)
  BY <1>1, <1>2, <1>6, PartWrite, Numbers
<1>7. QED
  BY <1>3, <1>4, <1>5, <1>6, LateLands

LEMMA TickTail ==
    ASSUME DataOK, NEW b \in Books, BookTail(b), Tick
    PROVE  BookTail(b)'
<1>1. /\ stage'[b] = stage[b] /\ part'[b] = part[b]
      /\ \A i \in Items : life'[b][i] = Aged(life[b][i])
      /\ \A c \in Causes : late'[b][c] = LateAged(late[b][c])
      /\ budget'[b] = IF budget[b] > 0 THEN budget[b] - 1 ELSE 0
      /\ stage[b] # "none" => budget[b] > 0
  BY DEF Tick, DataOK
<1>5. /\ stage'[b] = stage[b] /\ part'[b] = part[b]
      /\ stage[b] # "none" => budget'[b] = budget[b] - 1
  BY <1>1
<1>2. life'[b][Manifest] = Aged(life[b][Manifest]) /\ life'[b][Manifest] <= Ttl
      /\ life[b][Manifest] \in 0..Ttl
  BY <1>1, ConstantFacts, Numbers DEF BookTail, Aged
<1>3. ASSUME NEW i \in PartsOf(b)
      PROVE  /\ InCache(b, Manifest)' =>
                   life'[b][i] + Timeout + OpTime >= life'[b][Manifest]
             /\ Written(b, i)' => life'[b][i] + Timeout >= Ttl + budget'[b]
             /\ \A c \in Causes :
                   late'[b][c].stage = "set" /\ late'[b][c].item = Manifest =>
                      life'[b][i] + Timeout + OpTime >= Ttl + late'[b][c].left
  <2>1. i \in Items /\ life[b][i] \in 0..Ttl + 1 /\ life'[b][i] = Aged(life[b][i])
    BY <1>1, ConstantFacts, Numbers
  <2>2. life'[b][i] >= life[b][i] - 1 /\ life'[b][i] \in 0..Ttl + 1
    BY <2>1, ConstantFacts DEF Aged
  <2>3. InCache(b, Manifest)' =>
           life'[b][i] + Timeout + OpTime >= life'[b][Manifest]
    BY <1>2, <2>1, <2>2, ConstantFacts DEF InCache, Aged, BookTail
  <2>4. Written(b, i)' => life'[b][i] + Timeout >= Ttl + budget'[b]
    <3>1. Written(b, i)' => Written(b, i) /\ stage[b] # "none"
      BY <1>5 DEF Written
    <3>2. SUFFICES ASSUME Written(b, i), stage[b] # "none"
                   PROVE  life'[b][i] + Timeout >= Ttl + budget'[b]
      BY <3>1
    <3>3. life[b][i] + Timeout >= Ttl + budget[b]
      BY <3>2 DEF BookTail
    <3>4. budget'[b] = budget[b] - 1 /\ budget[b] \in 0..Timeout
      BY <1>5, <3>2, Numbers, ConstantFacts
    <3>5. QED
      BY <2>1, <2>2, <3>3, <3>4, ConstantFacts
  <2>5. ASSUME NEW c \in Causes, late'[b][c].stage = "set", late'[b][c].item = Manifest
        PROVE  life'[b][i] + Timeout + OpTime >= Ttl + late'[b][c].left
    <3>5. late'[b][c] = LateAged(late[b][c])
      BY <1>1
    <3>6. late[b][c].left \in 0..OpTime
      BY Numbers
    <3>7. NoOp.stage # "set"
      BY DEF NoOp
    <3>1. ~(late[b][c].left <= 1)
      BY <2>5, <3>5, <3>7 DEF LateAged
    <3>2. /\ late[b][c].stage = "set" /\ late[b][c].item = Manifest
          /\ late'[b][c].left = late[b][c].left - 1
      BY <2>5, <3>1, <3>5 DEF LateAged
    <3>3. life[b][i] + Timeout + OpTime >= Ttl + late[b][c].left
      BY <3>2 DEF BookTail
    <3>4. QED
      BY <2>1, <2>2, <3>2, <3>3, <3>6, ConstantFacts
  <2>6. QED
    BY <2>3, <2>4, <2>5
<1>4. QED
  BY <1>1, <1>2, <1>3 DEF BookTail

\* A flight, or a late command, changes the data of its own book only.
LEMMA OtherBook ==
    ASSUME DataOK, NEW c \in Books, Flight(c), NEW b \in Books, b # c
    PROVE  late'[b] = late[b] /\ life'[b] = life[b]
<1>1. late' = late \/ late' = [late EXCEPT ![c][Cause(c)] = Abandoned(c)]
  BY DEF Flight, Recheck, TakeSlot, Prepare, Send, PartStored, WriteFails,
         ManifestStored, CompareDeadline, Retract, Acknowledge, CutOff
<1>2. late'[b] = late[b]
  BY <1>1 DEF DataOK
<1>3. \/ UNCHANGED life
      \/ \E i \in Items, l \in Lives : SetLife(c, i, l)
  BY Numbers, ConstantFacts
     DEF Flight, Recheck, TakeSlot, Prepare, Send, PartStored, WriteFails,
         ManifestStored, CompareDeadline, Retract, Acknowledge, CutOff,
         Store, MayStore
<1>4. QED
  BY <1>2, <1>3, LifeFrame

LEMMA OtherBookLate ==
    ASSUME DataOK, NEW c \in Books, NEW d \in Causes, LateStep(c, d), NEW b \in Books, b # c
    PROVE  late'[b] = late[b] /\ life'[b] = life[b]
<1>1. late'[b] = late[b]
  <2>1. PICK op \in LateOps : LateTo(c, d, op)
    BY LateLands
  <2>2. QED
    BY <2>1, LateType DEF LateTo
<1>2. late[c][d].item \in Items /\ life[c][late[c][d].item] \in Lives
  BY DEF DataOK, LateOps
<1>3. \/ UNCHANGED life
      \/ \E i \in Items, l \in Lives : SetLife(c, i, l)
  BY <1>2, LateLands, ConstantFacts
<1>4. QED
  BY <1>1, <1>3, LifeFrame

LEMMA NextTail ==
    ASSUME DataOK, PartOK, NEW b \in Books, BookTail(b), [Next]_vars
    PROVE  BookTail(b)'
<1>1. ASSUME NEW c \in Books, Flight(c)
      PROVE  BookTail(b)'
  <2>1. CASE c = b
    BY <1>1, <2>1, FlightTail
  <2>2. CASE c # b
    <3>1. stage'[b] = stage[b] /\ part'[b] = part[b] /\ budget'[b] = budget[b]
      BY <1>1, <2>2, FinishFrame, GotoFrame
         DEF Flight, Recheck, TakeSlot, Prepare, Send, PartStored, WriteFails,
             ManifestStored, CompareDeadline, Retract, Acknowledge, CutOff, DataOK
    <3>2. late'[b] = late[b] /\ life'[b] = life[b]
      BY <1>1, <2>2, OtherBook
    <3>3. QED
      BY <3>1, <3>2, BookQuiet
  <2>3. QED
    BY <2>1, <2>2
<1>2. ASSUME NEW c \in Books, NEW d \in Causes, LateStep(c, d)
      PROVE  BookTail(b)'
  <2>1. CASE c = b
    BY <1>2, <2>1, LateTail
  <2>2. CASE c # b
    <3>1. stage' = stage /\ part' = part /\ budget' = budget
      BY <1>2, LateLands
    <3>2. late'[b] = late[b] /\ life'[b] = life[b]
      BY <1>2, <2>2, OtherBookLate
    <3>3. QED
      BY <3>1, <3>2, BookQuiet
  <2>3. QED
    BY <2>1, <2>2
<1>3. ASSUME NEW r \in Readers, NEW c \in Books, Join(r, c)
      PROVE  BookTail(b)'
  <2>1. /\ life' = life /\ late' = late /\ part' = part
        /\ \/ stage'[b] = stage[b] /\ budget'[b] = budget[b]
           \/ stage'[b] = "recheck"
    BY <1>3 DEF Join, DataOK
  <2>2. QED
    BY <2>1, BookQuiet
<1>4. CASE Restart
  <2>1. life' = life /\ stage'[b] = "none" /\ \A c \in Causes : late'[b][c] = NoOp
    BY <1>4 DEF Restart
  <2>2. QED
    BY <2>1 DEF BookTail, InCache, Written, NoOp
<1>5. ASSUME UNCHANGED <<flightVars, life, late>>
      PROVE  BookTail(b)'
  BY <1>5, BookQuiet DEF flightVars
<1>6. CASE Tick
  BY <1>6, TickTail
<1>7. QED
  BY <1>1, <1>2, <1>3, <1>4, <1>5, <1>6
     DEF Next, Step, Open, ReadEntry, Leave, Shutdown, vars

\* For every shape of book and every choice of times, the parts of an entry
\* outlive all but the last Timeout + OpTime of its manifest.
THEOREM TailSafety == Spec => []TailInv
<1>1. Init => TailInv
  <2>1. ASSUME Init, NEW b \in Books
        PROVE  BookTail(b)
    BY <2>1, ConstantFacts DEF Init, BookTail, InCache, Written, NoOp, PartsOf
  <2>2. QED
    BY <2>1, TailByBook
<1>2. ASSUME DataOK, PartOK, TailInv, [Next]_vars
      PROVE  TailInv'
  <2>1. \A b \in Books : BookTail(b)
    BY <1>2, TailByBook
  <2>2. \A b \in Books : BookTail(b)'
    BY <1>2, <2>1, NextTail
  <2>3. QED
    BY <2>2 DEF TailInv, TailBound, FlightFresh, LateFresh, BookTail
<1>3. QED
  BY <1>1, <1>2, DataInvariant, PTL DEF Spec

\* Hence a manifest with more than that left promises nothing that is missing.
THEOREM WholeSafety == Spec => []WholeUntilTail
<1>1. ASSUME DataOK, TailInv
      PROVE  WholeUntilTail
  <2>1. SUFFICES ASSUME NEW b \in Books, life[b][Manifest] > Timeout + OpTime,
                        NEW i \in PartsOf(b)
                 PROVE  InCache(b, i)
    BY DEF WholeUntilTail, Whole
  <2>2. i \in Items /\ life[b][i] \in 0..Ttl + 1 /\ life[b][Manifest] \in 0..Ttl + 1
    BY <1>1, ConstantFacts, Numbers
  <2>3. QED
    BY <1>1, <2>1, <2>2, ConstantFacts DEF TailInv, TailBound, InCache
<1>2. QED
  BY <1>1, DataInvariant, TailSafety, PTL
------------------------------------------------------------------------------
(* What leads to a cold build.                                             *)

\* NeedlessInv, book by book: a flight that began on an ample entry is still
\* looking, and the entry outlives what is left of its time; only a book with
\* parts is ever written.
BookNeedless(b) ==
    /\ needless[b] => /\ stage[b] \in {"recheck", "recheck0"}
                      /\ life[b][Manifest] > Timeout + OpTime + budget[b]
    /\ stage[b] \in {"put", "sent"} => Parts[b] > 0
    /\ \A c \in Causes : late[b][c].stage = "set" => Parts[b] > 0
    /\ InCache(b, Manifest) => Parts[b] > 0

LEMMA NeedlessByBook == NeedlessInv <=> \A b \in Books : BookNeedless(b)
BY DEF NeedlessInv, BookNeedless

\* What is looked at while the entry is ample is found.
LEMMA AmpleHits ==
    ASSUME DataOK, NEW b \in Books, BookTail(b), BookNeedless(b), needless[b]
    PROVE  Hit(b)
<1>1. life[b][Manifest] \in 0..Ttl + 1 /\ budget[b] \in 0..Timeout
  BY Numbers, ConstantFacts
<1>2. life[b][Manifest] > Timeout + OpTime /\ InCache(b, Manifest)
  BY <1>1, ConstantFacts DEF BookNeedless, InCache
<1>3. 1 \in PartsOf(b) /\ 1 \in Items
  BY <1>2, ConstantFacts DEF BookNeedless, PartsOf
<1>4. life[b][1] \in 0..Ttl + 1
  BY <1>3, Numbers
<1>5. life[b][1] + Timeout + OpTime >= life[b][Manifest]
  BY <1>2, <1>3 DEF BookTail
<1>6. QED
  BY <1>1, <1>2, <1>4, <1>5, ConstantFacts DEF Hit, InCache

LEMMA NeedlessFrame ==
    ASSUME NEW b \in Books, BookNeedless(b),
           life'[b] = life[b],
           needless'[b] => needless[b] /\ budget'[b] = budget[b]
                           /\ stage'[b] \in {"recheck", "recheck0"},
           stage'[b] \notin {"put", "sent"} \/ stage[b] \in {"put", "sent"},
           \A c \in Causes : late'[b][c].stage = "set" =>
               late[b][c].stage = "set" \/ stage[b] = "sent"
    PROVE  BookNeedless(b)'
BY DEF BookNeedless, InCache

\* What a flight does to the marks and to its own clock.
LEMMA FlightMarks ==
    ASSUME DataOK, NEW b \in Books, Flight(b)
    PROVE  \/ stage'[b] = "none" /\ ~needless'[b]
           \/ /\ needless'[b] = needless[b] /\ budget'[b] = budget[b]
              /\ stage'[b] # "none"
<1>1. Finish(b) => stage'[b] = "none" /\ ~needless'[b]
  BY DEF Finish, DataOK
<1>2. ASSUME NEW s \in {"recheck0", "slot", "sent", "stored", "retracting", "acked"}, Goto(b, s)
      PROVE  needless'[b] = needless[b] /\ budget'[b] = budget[b] /\ stage'[b] # "none"
  BY <1>2 DEF Goto, DataOK
<1>3. ASSUME NEW s \in {"load", "put"}, stage' = [stage EXCEPT ![b] = s],
             UNCHANGED <<budget, needless>>
      PROVE  needless'[b] = needless[b] /\ budget'[b] = budget[b] /\ stage'[b] # "none"
  BY <1>3 DEF DataOK
<1>4. CASE Recheck(b)
  BY <1>1, <1>2, <1>4 DEF Recheck
<1>5. CASE TakeSlot(b) \/ Prepare(b) \/ PartStored(b)
  BY <1>1, <1>3, <1>5 DEF TakeSlot, Prepare, PartStored
<1>6. CASE Send(b) \/ ManifestStored(b) \/ CompareDeadline(b) \/ Retract(b)
  BY <1>2, <1>6 DEF Send, ManifestStored, CompareDeadline, Retract
<1>7. CASE WriteFails(b) \/ Acknowledge(b) \/ CutOff(b)
  BY <1>1, <1>7 DEF WriteFails, Acknowledge, CutOff
<1>8. QED
  BY <1>4, <1>5, <1>6, <1>7 DEF Flight

LEMMA FlightNeedless ==
    ASSUME DataOK, NEW b \in Books, BookTail(b), BookNeedless(b), Flight(b)
    PROVE  BookNeedless(b)'
<1>1. CASE stage[b] \in {"recheck", "recheck0"}
  <2>1. Recheck(b) \/ CutOff(b)
    BY <1>1 DEF Flight, TakeSlot, Prepare, Send, PartStored, WriteFails, ManifestStored,
       CompareDeadline, Retract, Acknowledge
  <2>2. life' = life /\ \A c \in Causes : late'[b][c] = late[b][c]
    <3>1. late' = late \/ late' = [late EXCEPT ![b][Cause(b)] = late[b][Cause(b)]]
      BY <1>1, <2>1 DEF Recheck, CutOff, Abandoned
    <3>2. QED
      BY <2>1, <3>1 DEF Recheck, CutOff, DataOK
  <2>3. needless[b] => stage'[b] \in {"none", "recheck0"}
    <3>1. ASSUME needless[b] PROVE Finish(b) \/ Goto(b, "recheck0")
      BY <2>1, <3>1, AmpleHits DEF Recheck, CutOff, Hit
    <3>2. QED
      BY <3>1 DEF Finish, Goto, DataOK
  <2>4. stage'[b] \in {"none", "recheck0", "slot"}
    BY <2>1 DEF Recheck, CutOff, Finish, Goto, DataOK
  <2>5. QED
    BY <2>2, <2>3, <2>4, FlightMarks, NeedlessFrame DEF DataOK
<1>2. CASE stage[b] \notin {"recheck", "recheck0"}
  <2>1. ~needless'[b]
    BY <1>2, FlightMarks DEF BookNeedless
  <2>2. \/ Parts[b] > 0
        \/ /\ stage'[b] \notin {"put", "sent"}
           /\ InCache(b, Manifest)' => InCache(b, Manifest)
           /\ \A c \in Causes : late'[b][c].stage = "set" => late[b][c].stage = "set"
    <3> USE DEF InCache
    <3>1. CASE TakeSlot(b)
      BY <3>1 DEF TakeSlot, Finish, DataOK
    <3>2. CASE Prepare(b)
      BY <3>2 DEF Prepare, Finish, DataOK
    <3>3. CASE Send(b) \/ PartStored(b) \/ WriteFails(b) \/ ManifestStored(b)
      BY <3>3 DEF Send, PartStored, WriteFails, ManifestStored, BookNeedless
    <3>4. CASE CompareDeadline(b) \/ Acknowledge(b)
      BY <3>4 DEF CompareDeadline, Acknowledge, Finish, Goto, DataOK
    <3>5. CASE Retract(b)
      <4>1. UNCHANGED life \/ life'[b][Manifest] = 0
        BY <3>5, LifeFrame, ConstantFacts DEF Retract
      <4>2. stage'[b] = "acked" /\ late' = late
        BY <3>5 DEF Retract, Goto, DataOK
      <4>3. QED
        BY <4>1, <4>2
    <3>6. CASE CutOff(b)
      <4>1. stage'[b] = "none" /\ life' = life
        BY <3>6 DEF CutOff, Finish, DataOK
      <4>2. ASSUME NEW c \in Causes, late'[b][c].stage = "set", late[b][c].stage # "set"
            PROVE  Parts[b] > 0
        <5>1. Cause(b) \in Causes
          BY DEF Cause, Causes
        <5>2. c = Cause(b) /\ late'[b][c] = Abandoned(b)
          BY <3>6, <4>2, <5>1 DEF CutOff, DataOK
        <5>3. stage[b] = "sent"
          BY <4>2, <5>2 DEF Abandoned, LateOp
        <5>4. QED
          BY <5>3 DEF BookNeedless
      <4>3. QED
        BY <4>1, <4>2
    <3>7. QED
      BY <1>2, <3>1, <3>2, <3>3, <3>4, <3>5, <3>6 DEF Flight, Recheck
  <2>3. QED
    BY <2>1, <2>2 DEF BookNeedless, InCache
<1>3. QED
  BY <1>1, <1>2

LEMMA LateNeedless ==
    ASSUME DataOK, NEW b \in Books, NEW c \in Causes, BookTail(b), BookNeedless(b),
           LateStep(b, c)
    PROVE  BookNeedless(b)'
<1>1. /\ stage' = stage /\ budget' = budget
      /\ needless'[b] => needless[b]
  BY LateLands DEF DataOK
<1>2. \A d \in Causes : late'[b][d].stage = "set" => late[b][d].stage = "set"
  <2>1. PICK op \in LateOps : op.stage # "set" /\ LateTo(b, c, op)
    BY LateLands
  <2>2. late'[b][c] = op /\ \A d \in Causes \ {c} : late'[b][d] = late[b][d]
    BY <2>1, LateType DEF LateTo
  <2>3. QED
    BY <2>1, <2>2
<1>3. /\ late[b][c].item \in Items /\ life[b][late[b][c].item] \in Lives
      /\ life[b][Manifest] \in 0..Ttl
  BY Numbers, ConstantFacts DEF DataOK, LateOps, BookTail
<1>4. CASE LateRetract(b, c)
  <2>1. ~needless'[b] /\ life'[b][Manifest] = 0
    BY <1>4, LifeFrame, ConstantFacts DEF LateRetract, DataOK
  <2>2. QED
    BY <1>1, <1>2, <2>1 DEF BookNeedless, InCache
<1>5. CASE ~LateRetract(b, c)
  <2>1. \/ life'[b][Manifest] = life[b][Manifest]
        \/ late[b][c].stage = "set" /\ life'[b][Manifest] = Ttl
    <3>1. \/ UNCHANGED life
          \/ /\ late[b][c].stage = "set"
             /\ late[b][c].item = Manifest /\ SetLife(b, Manifest, Ttl)
          \/ /\ late[b][c].item # Manifest
             /\ \E l \in Lives : SetLife(b, late[b][c].item, l)
      BY <1>3, <1>5, ConstantFacts DEF LateStep, LateSet, LateExpire, LateFails, Land, Store, LateOps, DataOK
    <3>2. QED
      BY <1>3, <3>1, LifeFrame, ConstantFacts
  <2>2. QED
    BY <1>1, <1>2, <1>3, <2>1, ConstantFacts, Numbers DEF BookNeedless, InCache
<1>6. QED
  BY <1>4, <1>5

LEMMA TickNeedless ==
    ASSUME DataOK, NEW b \in Books, BookTail(b), BookNeedless(b), Tick
    PROVE  BookNeedless(b)'
<1>1. /\ stage'[b] = stage[b] /\ needless'[b] = needless[b]
      /\ life'[b][Manifest] = Aged(life[b][Manifest])
  BY ConstantFacts DEF Tick, DataOK
<1>6. stage[b] # "none" => budget[b] > 0 /\ budget'[b] = budget[b] - 1
  BY DEF Tick, DataOK
<1>2. ASSUME NEW c \in Causes, late'[b][c].stage = "set" PROVE late[b][c].stage = "set"
  <2>1. late'[b][c] = LateAged(late[b][c])
    BY DEF Tick
  <2>2. QED
    BY <1>2, <2>1 DEF LateAged, NoOp
<1>3. life[b][Manifest] \in 0..Ttl /\ budget[b] \in 0..Timeout
  BY Numbers, ConstantFacts DEF BookTail
<1>4. life'[b][Manifest] = IF life[b][Manifest] = 0 THEN 0 ELSE life[b][Manifest] - 1
  BY <1>1, <1>3, ConstantFacts DEF Aged
<1>5. QED
  BY <1>1, <1>2, <1>3, <1>4, <1>6, ConstantFacts DEF BookNeedless, InCache

LEMMA NextNeedless ==
    ASSUME DataOK, PartOK, NEW b \in Books, BookTail(b), BookNeedless(b), [Next]_vars
    PROVE  BookNeedless(b)'
<1>1. ASSUME NEW c \in Books, Flight(c)
      PROVE  BookNeedless(b)'
  <2>1. CASE c = b
    BY <1>1, <2>1, FlightNeedless
  <2>2. CASE c # b
    <3>1. stage'[b] = stage[b] /\ needless'[b] = needless[b] /\ budget'[b] = budget[b]
      BY <1>1, <2>2
         DEF Flight, Recheck, TakeSlot, Prepare, Send, PartStored, WriteFails,
             ManifestStored, CompareDeadline, Retract, Acknowledge, CutOff, DataOK, Finish, Goto
    <3>2. late'[b] = late[b] /\ life'[b] = life[b]
      BY <1>1, <2>2, OtherBook
    <3>3. QED
      BY <3>1, <3>2 DEF BookNeedless, InCache
  <2>3. QED
    BY <2>1, <2>2
<1>2. ASSUME NEW c \in Books, NEW d \in Causes, LateStep(c, d)
      PROVE  BookNeedless(b)'
  <2>1. CASE c = b
    BY <1>2, <2>1, LateNeedless
  <2>2. CASE c # b
    <3>1. stage'[b] = stage[b] /\ needless'[b] = needless[b] /\ budget'[b] = budget[b]
      BY <1>2, <2>2, LateLands DEF DataOK
    <3>2. late'[b] = late[b] /\ life'[b] = life[b]
      BY <1>2, <2>2, OtherBookLate
    <3>3. QED
      BY <3>1, <3>2 DEF BookNeedless, InCache
  <2>3. QED
    BY <2>1, <2>2
<1>3. ASSUME NEW r \in Readers, NEW c \in Books, Join(r, c)
      PROVE  BookNeedless(b)'
  <2>1. life' = life /\ late' = late
    BY <1>3 DEF Join
  <2>2. CASE c = b /\ stage[b] = "none"
    <3>4. ~needless[b]
      BY <2>2 DEF BookNeedless
    <3>5. /\ stage' = [stage EXCEPT ![b] = "recheck"]
          /\ budget' = [budget EXCEPT ![b] = Timeout]
          /\ Ample(b) \/ needless' = needless
      BY <1>3, <2>2 DEF Join
    <3>1. /\ stage'[b] = "recheck" /\ budget'[b] = Timeout
          /\ needless'[b] => life[b][Manifest] > 2 * Timeout + OpTime
      BY <3>4, <3>5 DEF DataOK, Ample
    <3>2. life[b][Manifest] \in 0..Ttl + 1
      BY Numbers, ConstantFacts
    <3>3. QED
      BY <2>1, <3>1, <3>2, ConstantFacts DEF BookNeedless, InCache
  <2>3. CASE ~(c = b /\ stage[b] = "none")
    <3>1. stage'[b] = stage[b] /\ needless'[b] = needless[b] /\ budget'[b] = budget[b]
      BY <1>3, <2>3 DEF Join, DataOK
    <3>2. QED
      BY <2>1, <3>1 DEF BookNeedless, InCache
  <2>4. QED
    BY <2>2, <2>3
<1>4. CASE Restart
  <2>1. /\ life' = life /\ stage'[b] = "none" /\ ~needless'[b]
        /\ \A c \in Causes : late'[b][c] = NoOp
    BY <1>4 DEF Restart
  <2>2. QED
    BY <2>1 DEF BookNeedless, InCache, NoOp
<1>5. ASSUME UNCHANGED <<flightVars, life, late>>
      PROVE  BookNeedless(b)'
  BY <1>5 DEF flightVars, BookNeedless, InCache
<1>6. CASE Tick
  BY <1>6, TickNeedless
<1>7. QED
  BY <1>1, <1>2, <1>3, <1>4, <1>5, <1>6
     DEF Next, Step, Open, ReadEntry, Leave, Shutdown, vars

\* NoNeedlessBuild for every set of books, number of requests, shape of book and
\* choice of times: a flight that begins while the entry has two build timeouts
\* and a command to live does not unpack the archive unless something retracts
\* the manifest, however late it looks and whatever reads fail.
THEOREM NeedlessSafety == Spec => []NoNeedlessBuild
<1>1. Init => NeedlessInv
  <2>1. ASSUME Init, NEW b \in Books
        PROVE  BookNeedless(b)
    BY <2>1, ConstantFacts DEF Init, BookNeedless, InCache, NoOp
  <2>2. QED
    BY <2>1, NeedlessByBook
<1>2. ASSUME DataOK, PartOK, TailInv, NeedlessInv, [Next]_vars
      PROVE  NeedlessInv'
  <2>1. \A b \in Books : BookTail(b) /\ BookNeedless(b)
    BY <1>2, TailByBook, NeedlessByBook
  <2>2. \A b \in Books : BookNeedless(b)'
    BY <1>2, <2>1, NextNeedless
  <2>3. QED
    BY <2>2 DEF NeedlessInv, BookNeedless
<1>3. NeedlessInv => NoNeedlessBuild
  BY DEF NeedlessInv, NoNeedlessBuild
<1>4. QED
  BY <1>1, <1>2, <1>3, DataInvariant, TailSafety, PTL DEF Spec
------------------------------------------------------------------------------
(* Sequences of sequences.                                                 *)

\* Induction over the numbers, for sets.
LEMMA NatsIn ==
    ASSUME NEW S, 0 \in S, \A n \in Nat : n \in S => n + 1 \in S
    PROVE  Nat \subseteq S
<1> DEFINE R == OpToRel(<, Nat)
           I == {n \in Nat : n \notin S}
<1>1. IsWellFoundedOn(R, Nat)
  BY NatLessThanWellFounded
<1>2. \A i, j \in Nat : i < j => <<i, j>> \in R
  BY DEF OpToRel
<1> HIDE DEF R
<1>3. SUFFICES ASSUME I # {} PROVE FALSE
  OBVIOUS
<1>4. PICK m \in I : \A i \in I : <<i, m>> \notin R
  BY <1>1, <1>3, WFMin
<1>5. m \in Nat /\ m # 0
  BY <1>4
<1>6. m - 1 \in Nat /\ m - 1 < m /\ (m - 1) + 1 = m
  BY <1>5
<1>7. m - 1 \in S
  BY <1>2, <1>4, <1>5, <1>6
<1>8. QED
  BY <1>4, <1>6, <1>7

\* What FlattenSeq computes from the first n.
Flattens(f, ss, n) == f = [i \in 1..n |-> IF i = 1 THEN ss[i] ELSE f[i - 1] \o ss[i]]

LEMMA FlattenAt ==
    ASSUME NEW f, NEW ss, NEW n \in Nat, Flattens(f, ss, n)
    PROVE  /\ n >= 1 => f[1] = ss[1]
           /\ \A i \in 1..n : i # 1 => f[i] = f[i - 1] \o ss[i]
<1>1. f = [i \in 1..n |-> IF i = 1 THEN ss[i] ELSE f[i - 1] \o ss[i]]
  BY DEF Flattens
<1>2. ASSUME NEW i \in 1..n PROVE f[i] = IF i = 1 THEN ss[i] ELSE f[i - 1] \o ss[i]
  BY <1>1, Zenon
<1>3. n >= 1 => 1 \in 1..n
  OBVIOUS
<1>4. QED
  BY <1>2, <1>3

LEMMA FlattenIs ==
    ASSUME NEW f, NEW ss, NEW n \in Nat, NEW D, f = [i \in 1..n |-> D[i]],
           n >= 1 => f[1] = ss[1],
           \A i \in 1..n : i # 1 => f[i] = f[i - 1] \o ss[i]
    PROVE  Flattens(f, ss, n)
<1> DEFINE e(i) == IF i = 1 THEN ss[i] ELSE f[i - 1] \o ss[i]
<1>1. ASSUME NEW i \in 1..n PROVE f[i] = e(i)
  <2>1. CASE i = 1
    <3>1. n >= 1
      BY <2>1
    <3>2. QED
      BY <2>1, <3>1
  <2>2. CASE i # 1
    BY <2>2
  <2>3. QED
    BY <2>1, <2>2
<1>2. DOMAIN f = 1..n /\ f = [i \in 1..n |-> f[i]]
  OBVIOUS
<1> HIDE DEF e
<1>3. f = [i \in 1..n |-> e(i)]
  BY <1>1, <1>2
<1>4. QED
  BY <1>3 DEF e, Flattens

LEMMA FlattenExists == ASSUME NEW ss PROVE \A n \in Nat : \E f : Flattens(f, ss, n)
<1> DEFINE S == {n \in Nat : \E f : Flattens(f, ss, n)}
<1>1. 0 \in S
  <2>1. PICK f : f = [i \in 1..0 |-> 0]
    OBVIOUS
  <2>2. PICK D : D = [i \in 1..0 |-> 0]
    OBVIOUS
  <2>3. f = [i \in 1..0 |-> D[i]] /\ 1..0 = {}
    BY <2>1, <2>2
  <2>4. PICK n \in Nat : n = 0
    OBVIOUS
  <2>5. /\ f = [i \in 1..n |-> D[i]] /\ ~(n >= 1)
        /\ \A i \in 1..n : i # 1 => f[i] = f[i - 1] \o ss[i]
    BY <2>3, <2>4
  <2>6. Flattens(f, ss, n)
    BY <2>5, FlattenIs
  <2>7. QED
    BY <2>4, <2>6
<1>2. ASSUME NEW n \in Nat, n \in S PROVE n + 1 \in S
  <2>1. PICK f : Flattens(f, ss, n)
    BY <1>2
  <2>2. /\ n >= 1 => f[1] = ss[1]
        /\ \A i \in 1..n : i # 1 => f[i] = f[i - 1] \o ss[i]
    BY <2>1, FlattenAt
  <2>3. PICK last : last = IF n = 0 THEN ss[1] ELSE f[n] \o ss[n + 1]
    OBVIOUS
  <2>4. PICK D : D = [i \in 1..(n + 1) |-> IF i = n + 1 THEN last ELSE f[i]]
    OBVIOUS
  <2>5. PICK g : g = [i \in 1..(n + 1) |-> D[i]]
    OBVIOUS
  <2>6. g[n + 1] = last /\ \A i \in 1..n : g[i] = f[i]
    BY <2>4, <2>5
  <2>7. g[1] = ss[1]
    BY <2>2, <2>3, <2>6
  <2>8. ASSUME NEW i \in 1..(n + 1), i # 1 PROVE g[i] = g[i - 1] \o ss[i]
    <3>1. i - 1 \in 1..n /\ g[i - 1] = f[i - 1]
      BY <2>6, <2>8
    <3>2. CASE i = n + 1
      <4>1. n # 0 /\ i - 1 = n
        BY <2>8, <3>2
      <4>2. g[i] = f[n] \o ss[i]
        BY <2>3, <2>6, <3>2, <4>1
      <4>3. QED
        BY <3>1, <4>1, <4>2
    <3>3. CASE i # n + 1
      <4>1. i \in 1..n
        BY <3>3
      <4>2. QED
        BY <2>2, <2>6, <2>8, <3>1, <4>1
    <3>4. QED
      BY <3>2, <3>3
  <2>9. PICK k \in Nat : k = n + 1
    OBVIOUS
  <2>10. g = [i \in 1..k |-> D[i]] /\ \A i \in 1..k : i # 1 => g[i] = g[i - 1] \o ss[i]
    BY <2>5, <2>8, <2>9
  <2>11. Flattens(g, ss, k)
    BY <2>7, <2>10, FlattenIs
  <2>12. QED
    BY <2>9, <2>11
<1>3. Nat \subseteq S
  <2> HIDE DEF S
  <2>1. QED
    BY <1>1, <1>2, NatsIn
<1>4. QED
  BY <1>3

LEMMA FlattenOne ==
    ASSUME NEW f, NEW g, NEW ss, NEW n \in Nat, Flattens(f, ss, n), Flattens(g, ss, n),
           NEW k \in 1..n
    PROVE  f[k] = g[k]
<1> DEFINE S == {i \in Nat : i \in 1..n => f[i] = g[i]}
<1>1. /\ f[1] = ss[1] /\ g[1] = ss[1]
      /\ \A i \in 1..n : i # 1 => f[i] = f[i - 1] \o ss[i] /\ g[i] = g[i - 1] \o ss[i]
  <2>1. n >= 1
    OBVIOUS
  <2>2. QED
    BY <2>1, FlattenAt
<1>2. 0 \in S
  OBVIOUS
<1>3. ASSUME NEW i \in Nat, i \in S PROVE i + 1 \in S
  <2>1. SUFFICES ASSUME i + 1 \in 1..n PROVE f[i + 1] = g[i + 1]
    OBVIOUS
  <2>2. CASE i = 0
    BY <1>1, <2>2
  <2>3. CASE i # 0
    <3>1. i \in 1..n /\ i + 1 # 1 /\ (i + 1) - 1 = i
      BY <2>1, <2>3
    <3>2. f[i] = g[i]
      BY <1>3, <3>1
    <3>3. f[i + 1] = f[(i + 1) - 1] \o ss[i + 1] /\ g[i + 1] = g[(i + 1) - 1] \o ss[i + 1]
      BY <1>1, <2>1, <3>1
    <3>4. QED
      BY <3>1, <3>2, <3>3
  <2>4. QED
    BY <2>2, <2>3
<1>4. Nat \subseteq S
  <2> HIDE DEF S
  <2>1. QED
    BY <1>2, <1>3, NatsIn
<1>5. QED
  BY <1>4

LEMMA FlattenLast ==
    ASSUME NEW ss, NEW n \in Nat \ {0}, Len(ss) = n, NEW f, Flattens(f, ss, n)
    PROVE  FlattenSeq(ss) = f[n]
<1> DEFINE c == CHOOSE g : g = [i \in 1..n |-> IF i = 1 THEN ss[i] ELSE g[i - 1] \o ss[i]]
<1>1. Flattens(c, ss, n)
  BY DEF Flattens
<1>2. c[n] = f[n]
  <2> HIDE DEF c
  <2>1. n \in Nat /\ n \in 1..n
    OBVIOUS
  <2>2. QED
    BY <1>1, <2>1, FlattenOne
<1>3. FlattenSeq(ss) = c[n]
  BY DEF FlattenSeq
<1>4. QED
  BY <1>2, <1>3

\* One more at the end.
LEMMA FlattenAppend ==
    ASSUME NEW S, NEW ss \in Seq(Seq(S)), NEW t \in Seq(S)
    PROVE  FlattenSeq(Append(ss, t)) = FlattenSeq(ss) \o t
<1> DEFINE all == Append(ss, t)
           n == Len(ss)
<1>1. /\ n \in Nat /\ Len(all) = n + 1 /\ all[n + 1] = t
      /\ \A i \in 1..n : all[i] = ss[i]
  <2>1. n \in Nat
    BY LenProperties
  <2>2. Len(all) = n + 1
    BY AppendProperties
  <2>3. all[n + 1] = t
    BY AppendProperties
  <2>4. \A i \in 1..n : all[i] = ss[i]
    BY AppendProperties
  <2>5. QED
    BY <2>1, <2>2, <2>3, <2>4
<1> HIDE DEF all
<1>2. PICK f : Flattens(f, all, n + 1)
  <2>1. n + 1 \in Nat
    BY <1>1
  <2>2. \A k \in Nat : \E f : Flattens(f, all, k)
    BY FlattenExists
  <2>3. QED
    BY <2>1, <2>2
<1>3. FlattenSeq(all) = f[n + 1]
  <2>1. n + 1 \in Nat \ {0}
    BY <1>1
  <2>2. QED
    BY <1>1, <1>2, <2>1, FlattenLast
<1>4. /\ f[1] = all[1]
      /\ \A i \in 1..(n + 1) : i # 1 => f[i] = f[i - 1] \o all[i]
  <2>1. n + 1 \in Nat /\ n + 1 >= 1
    BY <1>1
  <2>2. QED
    BY <1>2, <2>1, FlattenAt
<1>5. CASE n = 0
  <2>1. ss = <<>> /\ Len(ss) = 0
    BY <1>5, EmptySeq
  <2>2. FlattenSeq(ss) = ss
    BY <2>1 DEF FlattenSeq
  <2>3. <<>> \o t = t
    BY ConcatEmptySeq
  <2>4. f[n + 1] = t
    BY <1>1, <1>4, <1>5
  <2>5. QED
    BY <1>3, <2>1, <2>2, <2>3, <2>4 DEF all
<1>6. CASE n # 0
  <2>1. PICK D : D = [i \in 1..n |-> f[i]]
    OBVIOUS
  <2>2. PICK g : g = [i \in 1..n |-> D[i]]
    OBVIOUS
  <2>3. \A i \in 1..n : g[i] = f[i]
    BY <2>1, <2>2
  <2>4. g[1] = ss[1]
    <3>1. 1 \in 1..n
      BY <1>1, <1>6
    <3>2. QED
      BY <1>1, <1>4, <2>3, <3>1
  <2>5. ASSUME NEW i \in 1..n, i # 1 PROVE g[i] = g[i - 1] \o ss[i]
    <3>1. i - 1 \in 1..n /\ i \in 1..(n + 1)
      BY <1>1, <2>5
    <3>2. f[i] = f[i - 1] \o all[i]
      BY <1>4, <2>5, <3>1
    <3>3. QED
      BY <1>1, <2>3, <3>1, <3>2
  <2>6. Flattens(g, ss, n)
    BY <1>1, <2>2, <2>4, <2>5, FlattenIs
  <2>7. FlattenSeq(ss) = g[n]
    BY <1>1, <1>6, <2>6, FlattenLast
  <2>8. f[n + 1] = f[n] \o t
    <3>1. n + 1 \in 1..(n + 1) /\ n + 1 # 1 /\ (n + 1) - 1 = n
      BY <1>1, <1>6
    <3>2. f[n + 1] = f[(n + 1) - 1] \o all[n + 1]
      BY <1>4, <3>1
    <3>3. QED
      BY <1>1, <3>1, <3>2
  <2>9. g[n] = f[n]
    BY <1>1, <1>6, <2>3
  <2>10. QED
    BY <1>3, <2>7, <2>8, <2>9 DEF all
<1>7. QED
  BY <1>5, <1>6

\* What comes out is of what went in.
LEMMA FlattenType ==
    ASSUME NEW S, NEW ss \in Seq(Seq(S))
    PROVE  FlattenSeq(ss) \in Seq(S)
<1>1. PICK n \in Nat : n = Len(ss)
  BY LenProperties
<1>2. \A i \in 1..n : ss[i] \in Seq(S)
  BY <1>1, ElementOfSeq
<1>3. CASE n = 0
  <2>1. ss = <<>>
    BY <1>1, <1>3, EmptySeq
  <2>2. QED
    BY <1>1, <1>3, <2>1, EmptySeq DEF FlattenSeq
<1>4. CASE n # 0
  <2>1. PICK f : Flattens(f, ss, n)
    BY FlattenExists
  <2>2. /\ f[1] = ss[1]
        /\ \A i \in 1..n : i # 1 => f[i] = f[i - 1] \o ss[i]
    <3>1. n >= 1
      BY <1>4
    <3>2. QED
      BY <2>1, <3>1, FlattenAt
  <2> DEFINE I == {i \in Nat : i \in 1..n => f[i] \in Seq(S)}
  <2>3. 0 \in I
    OBVIOUS
  <2>4. ASSUME NEW i \in Nat, i \in I PROVE i + 1 \in I
    <3>1. SUFFICES ASSUME i + 1 \in 1..n PROVE f[i + 1] \in Seq(S)
      OBVIOUS
    <3>2. CASE i = 0
      BY <1>2, <2>2, <3>1, <3>2
    <3>3. CASE i # 0
      <4>1. i \in 1..n /\ i + 1 # 1 /\ (i + 1) - 1 = i
        BY <3>1, <3>3
      <4>2. f[i] \in Seq(S) /\ ss[i + 1] \in Seq(S)
        BY <1>2, <2>4, <3>1, <4>1
      <4>3. f[i + 1] = f[(i + 1) - 1] \o ss[i + 1]
        BY <2>2, <3>1, <4>1
      <4>4. QED
        BY <4>1, <4>2, <4>3, ConcatProperties
    <3>4. QED
      BY <3>2, <3>3
  <2>5. Nat \subseteq I
    <3> HIDE DEF I
    <3>1. QED
      BY <2>3, <2>4, NatsIn
  <2>6. n \in 1..n
    BY <1>4
  <2>7. f[n] \in Seq(S)
    BY <2>5, <2>6
  <2>8. FlattenSeq(ss) = f[n]
    BY <1>1, <1>4, <2>1, FlattenLast
  <2>9. QED
    BY <2>7, <2>8
<1>5. QED
  BY <1>3, <1>4
------------------------------------------------------------------------------
(* Sums.                                                                   *)

Pick(s) == CHOOSE x \in s : TRUE

\* What a sum is of any part of the function: whichever comes first.
Adds(c, f, S) ==
    /\ c \in [SUBSET S -> Nat] /\ c[{}] = 0
    /\ \A s \in SUBSET S : \A x \in s : c[s] = f[x] + c[s \ {x}]

\* The part of what the sum is computed with that reaches sets of n elements.
AddsTo(c, f, S, n) ==
    \A s \in SUBSET S :
       Cardinality(s) <= n => c[s] = IF s = {} THEN 0 ELSE f[Pick(s)] + c[s \ {Pick(s)}]

LEMMA AddsToExists ==
    ASSUME NEW S, IsFiniteSet(S), NEW f
    PROVE  \A n \in Nat : \E c : AddsTo(c, f, S, n)
<1> DEFINE N == {n \in Nat : \E c : AddsTo(c, f, S, n)}
<1>1. \A s \in SUBSET S : IsFiniteSet(s) /\ Cardinality(s) \in Nat
  BY FS_Subset, FS_CardinalityType
<1>2. 0 \in N
  <2>1. PICK c : c = [s \in SUBSET S |-> 0]
    OBVIOUS
  <2>2. ASSUME NEW s \in SUBSET S, Cardinality(s) <= 0 PROVE s = {}
    BY <1>1, <2>2, FS_EmptySet
  <2>3. AddsTo(c, f, S, 0)
    BY <2>1, <2>2 DEF AddsTo
  <2>4. QED
    BY <2>3
<1>3. ASSUME NEW n \in Nat, n \in N PROVE n + 1 \in N
  <2>1. PICK c : AddsTo(c, f, S, n)
    BY <1>3
  <2>2. PICK d : d = [s \in SUBSET S |-> IF Cardinality(s) <= n THEN c[s] ELSE f[Pick(s)] + c[s \ {Pick(s)}]]
    OBVIOUS
  <2>3. ASSUME NEW s \in SUBSET S, Cardinality(s) <= n + 1
        PROVE  d[s] = IF s = {} THEN 0 ELSE f[Pick(s)] + d[s \ {Pick(s)}]
    <3>1. CASE s = {}
      <4>1. Cardinality(s) <= n
        BY <3>1, FS_EmptySet
      <4>2. d[s] = c[s] /\ c[s] = 0
        BY <2>1, <2>2, <3>1, <4>1 DEF AddsTo
      <4>3. QED
        BY <3>1, <4>2
    <3>2. CASE s # {}
      <4>1. PICK p : p = Pick(s)
        OBVIOUS
      <4>2. p \in s
        BY <3>2, <4>1 DEF Pick
      <4>3. PICK t \in SUBSET S : t = s \ {p}
        OBVIOUS
      <4>4. Cardinality(t) <= n
        BY <1>1, <2>3, <4>2, <4>3, FS_RemoveElement
      <4>5. d[t] = c[t]
        BY <2>2, <4>4
      <4>6. d[s] = f[p] + c[t]
        <5>1. CASE Cardinality(s) <= n
          <6>1. d[s] = c[s]
            BY <2>2, <5>1
          <6>2. c[s] = f[p] + c[t]
            BY <2>1, <3>2, <4>1, <4>3, <5>1 DEF AddsTo
          <6>3. QED
            BY <6>1, <6>2
        <5>2. CASE ~(Cardinality(s) <= n)
          BY <2>2, <4>1, <4>3, <5>2
        <5>3. QED
          BY <5>1, <5>2
      <4>7. QED
        BY <3>2, <4>1, <4>3, <4>5, <4>6
    <3>3. QED
      BY <3>1, <3>2
  <2>4. AddsTo(d, f, S, n + 1)
    BY <2>3 DEF AddsTo
  <2>5. QED
    BY <2>4
<1>4. Nat \subseteq N
  <2> HIDE DEF N
  <2>1. QED
    BY <1>2, <1>3, NatsIn
<1>5. QED
  BY <1>4

\* As computed: some element comes first.
Takes(c, f, S) ==
    /\ c[{}] = 0
    /\ \A s \in SUBSET S : s # {} => \E p \in s : c[s] = f[p] + c[s \ {p}]

\* The element that is taken first makes no difference.
LEMMA AnyFirst ==
    ASSUME NEW S, IsFiniteSet(S), NEW f \in [S -> Nat], NEW c, Takes(c, f, S)
    PROVE  \A s \in SUBSET S : c[s] \in Nat /\ \A x \in s : c[s] = f[x] + c[s \ {x}]
<1> DEFINE P(s) == c[s] \in Nat /\ \A x \in s : c[s] = f[x] + c[s \ {x}]
           N == {n \in Nat : \A s \in SUBSET S : Cardinality(s) <= n => P(s)}
<1>1. \A s \in SUBSET S : IsFiniteSet(s) /\ Cardinality(s) \in Nat
  BY FS_Subset, FS_CardinalityType
<1>2. 0 \in N
  <2>1. ASSUME NEW s \in SUBSET S, Cardinality(s) <= 0 PROVE s = {}
    BY <1>1, <2>1, FS_EmptySet
  <2>2. P({})
    BY DEF Takes
  <2>3. QED
    BY <2>1, <2>2
<1>3. ASSUME NEW n \in Nat, n \in N PROVE n + 1 \in N
  <2>1. SUFFICES ASSUME NEW s \in SUBSET S, Cardinality(s) = n + 1 PROVE P(s)
    <3>1. ASSUME NEW s \in SUBSET S, Cardinality(s) <= n + 1, Cardinality(s) # n + 1 PROVE Cardinality(s) <= n
      BY <1>1, <3>1
    <3>2. \A s \in SUBSET S : Cardinality(s) <= n => P(s)
      BY <1>3
    <3> HIDE DEF P
    <3>3. QED
      BY <3>1, <3>2
  <2>2. s # {}
    <3>1. Cardinality(s) # 0
      BY <2>1
    <3>2. QED
      BY <3>1, FS_EmptySet
  <2>3. PICK p \in s : c[s] = f[p] + c[s \ {p}]
    BY <2>2 DEF Takes
  <2>4. p \in s /\ f[p] \in Nat
    OBVIOUS
  <2>5. ASSUME NEW t \in SUBSET s, NEW x \in s, x \notin t PROVE P(t)
    <3>1. Cardinality(s \ {x}) = n /\ t \in SUBSET (s \ {x}) /\ IsFiniteSet(s \ {x})
      <4>1. IsFiniteSet(s) /\ Cardinality(s) - 1 = n
        BY <1>1, <2>1
      <4>2. Cardinality(s \ {x}) = Cardinality(s) - 1 /\ IsFiniteSet(s \ {x})
        BY <4>1, FS_RemoveElement
      <4>3. QED
        BY <2>5, <4>1, <4>2
    <3>2. Cardinality(t) <= n
      BY <3>1, FS_Subset
    <3>3. QED
      BY <1>3, <3>2
  <2>6. c[s] = f[p] + c[s \ {p}]
    BY <2>3
  <2>7. P(s \ {p})
    BY <2>4, <2>5
  <2>8. ASSUME NEW x \in s PROVE c[s] = f[x] + c[s \ {x}]
    <3>1. CASE x = p
      BY <2>6, <3>1
    <3>2. CASE x # p
      <4>1. PICK t : t = (s \ {p}) \ {x}
        OBVIOUS
      <4>2. t = (s \ {x}) \ {p} /\ t \in SUBSET s /\ x \notin t
        BY <4>1
      <4>3. P(t)
        BY <2>5, <4>2
      <4>4. c[s \ {p}] = f[x] + c[t]
        BY <2>7, <3>2, <4>1
      <4>5. P(s \ {x})
        BY <2>5
      <4>6. c[s \ {x}] = f[p] + c[t]
        BY <2>4, <3>2, <4>2, <4>5
      <4>7. f[x] \in Nat /\ c[t] \in Nat
        BY <4>3
      <4>8. QED
        BY <2>4, <2>6, <4>4, <4>6, <4>7
    <3>3. QED
      BY <3>1, <3>2
  <2>9. c[s] \in Nat
    BY <2>4, <2>6, <2>7
  <2>10. QED
    BY <2>8, <2>9
<1>4. Nat \subseteq N
  <2> HIDE DEF N
  <2>1. QED
    BY <1>2, <1>3, NatsIn
<1>5. \A s \in SUBSET S : P(s)
  <2>1. ASSUME NEW s \in SUBSET S PROVE P(s)
    <3>1. PICK n \in Nat : n = Cardinality(s)
      BY <1>1
    <3>2. n \in N
      BY <1>4
    <3>3. \A t \in SUBSET S : Cardinality(t) <= n => P(t)
      BY <3>2
    <3>4. Cardinality(s) <= n
      BY <3>1
    <3> HIDE DEF P
    <3>5. QED
      BY <3>3, <3>4
  <2> HIDE DEF P
  <2>2. QED
    BY <2>1
<1>6. QED
  BY <1>5

LEMMA SumIs ==
    ASSUME NEW S, IsFiniteSet(S), NEW f \in [S -> Nat]
    PROVE  \E c : Adds(c, f, S) /\ SumFunction(f) = c[S]
<1> DEFINE F(c) == [s \in SUBSET S |-> IF s = {} THEN 0 ELSE f[CHOOSE x \in s : TRUE] + c[s \ {CHOOSE x \in s : TRUE}]]
           c == CHOOSE d : d = F(d)
<1>1. \E d : d = F(d)
  <2>1. Cardinality(S) \in Nat
    BY FS_CardinalityType
  <2>2. PICK d : AddsTo(d, f, S, Cardinality(S))
    BY <2>1, AddsToExists
  <2>3. \A s \in SUBSET S : Cardinality(s) <= Cardinality(S)
    BY FS_Subset
  <2>4. PICK D : D = [s \in SUBSET S |-> d[s]]
    OBVIOUS
  <2>5. PICK e : e = [s \in SUBSET S |-> D[s]]
    OBVIOUS
  <2>6. ASSUME NEW s \in SUBSET S
        PROVE  e[s] = IF s = {} THEN 0 ELSE f[CHOOSE x \in s : TRUE] + e[s \ {CHOOSE x \in s : TRUE}]
    <3>1. PICK p : p = CHOOSE x \in s : TRUE
      OBVIOUS
    <3>2. d[s] = IF s = {} THEN 0 ELSE f[p] + d[s \ {p}]
      BY <2>2, <2>3, <3>1 DEF AddsTo, Pick
    <3>3. e[s] = d[s] /\ e[s \ {p}] = d[s \ {p}]
      BY <2>4, <2>5
    <3>4. QED
      BY <3>1, <3>2, <3>3
  <2>7. e = F(e)
    BY <2>5, <2>6, Zenon
  <2>8. QED
    BY <2>7
<1>2. c = F(c)
  BY <1>1
<1>3. ASSUME NEW s \in SUBSET S PROVE c[s] = IF s = {} THEN 0 ELSE f[Pick(s)] + c[s \ {Pick(s)}]
  BY <1>2, Zenon DEF Pick
<1>4. SumFunction(f) = c[S]
  <2>1. DOMAIN f = S
    OBVIOUS
  <2>2. SumFunction(f) = SumFunctionOnSet(f, S)
    BY <2>1, Zenon DEF SumFunction
  <2>3. SumFunctionOnSet(f, S) = c[S]
    BY DEF SumFunctionOnSet, FoldFunctionOnSet, MapThenFoldSet
  <2>4. QED
    BY <2>2, <2>3
<1>5. c = [s \in SUBSET S |-> c[s]]
  <2>1. DOMAIN F(c) = SUBSET S
    OBVIOUS
  <2>2. F(c) = [s \in SUBSET S |-> F(c)[s]]
    OBVIOUS
  <2>3. QED
    BY <1>2, <2>2, Zenon
<1> HIDE DEF c
<1>6. c[{}] = 0
  BY <1>3
<1>7. ASSUME NEW s \in SUBSET S, s # {} PROVE \E p \in s : c[s] = f[p] + c[s \ {p}]
  <2>1. PICK p : p = Pick(s)
    OBVIOUS
  <2>2. p \in s
    BY <1>7, <2>1 DEF Pick
  <2>3. c[s] = f[p] + c[s \ {p}]
    BY <1>3, <1>7, <2>1
  <2>4. QED
    BY <2>2, <2>3
<1>8. \A s \in SUBSET S : c[s] \in Nat /\ \A x \in s : c[s] = f[x] + c[s \ {x}]
  <2>1. Takes(c, f, S)
    BY <1>6, <1>7 DEF Takes
  <2>2. QED
    BY <2>1, AnyFirst
<1>9. c \in [SUBSET S -> Nat]
  BY <1>5, <1>8
<1>10. Adds(c, f, S)
  BY <1>6, <1>8, <1>9 DEF Adds
<1>11. QED
  BY <1>4, <1>10

\* Larger numbers, larger sums.
LEMMA AddsBelow ==
    ASSUME NEW S, NEW T, IsFiniteSet(T), S \subseteq T, NEW f \in [S -> Nat], NEW g \in [T -> Nat],
           \A x \in S : f[x] <= g[x], NEW c, Adds(c, f, S), NEW d, Adds(d, g, T)
    PROVE  \A s \in SUBSET S : c[s] <= d[s]
<1> DEFINE N == {n \in Nat : \A s \in SUBSET S : Cardinality(s) = n => c[s] <= d[s]}
<1>1. \A s \in SUBSET S : IsFiniteSet(s) /\ Cardinality(s) \in Nat
  BY FS_Subset, FS_CardinalityType
<1>2. 0 \in N
  <2>1. ASSUME NEW s \in SUBSET S, Cardinality(s) = 0 PROVE s = {}
    BY <1>1, <2>1, FS_EmptySet
  <2>2. c[{}] = 0 /\ d[{}] = 0
    BY DEF Adds
  <2>3. QED
    BY <2>1, <2>2
<1>3. ASSUME NEW n \in Nat, n \in N PROVE n + 1 \in N
  <2>1. SUFFICES ASSUME NEW s \in SUBSET S, Cardinality(s) = n + 1 PROVE c[s] <= d[s]
    OBVIOUS
  <2>2. PICK x \in s : TRUE
    <3>1. Cardinality(s) # 0
      BY <2>1
    <3>2. QED
      BY <3>1, FS_EmptySet
  <2>3. PICK t \in SUBSET S : t = s \ {x}
    OBVIOUS
  <2>4. Cardinality(t) = n
    <3>1. IsFiniteSet(s) /\ Cardinality(s) - 1 = n
      BY <1>1, <2>1
    <3>2. Cardinality(s \ {x}) = Cardinality(s) - 1
      BY <3>1, FS_RemoveElement
    <3>3. QED
      BY <2>3, <3>1, <3>2
  <2>5. c[t] <= d[t]
    BY <1>3, <2>4
  <2>6. c[s] = f[x] + c[t] /\ c[t] \in Nat
    BY <2>3 DEF Adds
  <2>7. d[s] = g[x] + d[t] /\ d[t] \in Nat
    <3>1. s \in SUBSET T /\ t \in SUBSET T
      OBVIOUS
    <3>2. QED
      BY <2>3, <3>1 DEF Adds
  <2>8. f[x] \in Nat /\ g[x] \in Nat /\ f[x] <= g[x]
    <3>1. x \in S /\ x \in T
      OBVIOUS
    <3>2. QED
      BY <3>1
  <2>9. QED
    BY <2>5, <2>6, <2>7, <2>8
<1>4. Nat \subseteq N
  <2> HIDE DEF N
  <2>1. QED
    BY <1>2, <1>3, NatsIn
<1>5. QED
  BY <1>1, <1>4

\* The sum of two parts.
LEMMA AddsUnion ==
    ASSUME NEW T, IsFiniteSet(T), NEW g \in [T -> Nat], NEW d, Adds(d, g, T),
           NEW A \in SUBSET T, NEW B \in SUBSET T, A \intersect B = {}
    PROVE  \A U : U = A \union B => d[U] = d[A] + d[B]
<1> DEFINE N == {n \in Nat : \A s \in SUBSET B : Cardinality(s) = n => d[A \union s] = d[A] + d[s]}
<1>1. \A s \in SUBSET B : IsFiniteSet(s) /\ Cardinality(s) \in Nat
  BY FS_Subset, FS_CardinalityType
<1>2. 0 \in N
  <2>1. ASSUME NEW s \in SUBSET B, Cardinality(s) = 0 PROVE s = {}
    BY <1>1, <2>1, FS_EmptySet
  <2>2. d[{}] = 0 /\ d[A] \in Nat /\ A \union {} = A
    BY DEF Adds
  <2>3. QED
    BY <2>1, <2>2
<1>3. ASSUME NEW n \in Nat, n \in N PROVE n + 1 \in N
  <2>1. SUFFICES ASSUME NEW s \in SUBSET B, Cardinality(s) = n + 1 PROVE d[A \union s] = d[A] + d[s]
    OBVIOUS
  <2>2. PICK x \in s : TRUE
    <3>1. Cardinality(s) # 0
      BY <2>1
    <3>2. QED
      BY <3>1, FS_EmptySet
  <2>3. PICK t \in SUBSET B : t = s \ {x}
    OBVIOUS
  <2>4. Cardinality(t) = n
    <3>1. IsFiniteSet(s) /\ Cardinality(s) - 1 = n
      BY <1>1, <2>1
    <3>2. Cardinality(s \ {x}) = Cardinality(s) - 1
      BY <3>1, FS_RemoveElement
    <3>3. QED
      BY <2>3, <3>1, <3>2
  <2>5. d[A \union t] = d[A] + d[t]
    BY <1>3, <2>4
  <2>6. A \union t = (A \union s) \ {x}
    BY <2>3
  <2>7. /\ A \union s \in SUBSET T /\ A \union t \in SUBSET T
        /\ s \in SUBSET T /\ t \in SUBSET T /\ x \in A \union s
    OBVIOUS
  <2>8. d[A \union s] = g[x] + d[A \union t]
    BY <2>6, <2>7 DEF Adds
  <2>9. d[s] = g[x] + d[t]
    BY <2>3, <2>7 DEF Adds
  <2>10. d[A] \in Nat /\ d[t] \in Nat /\ d[s] \in Nat /\ g[x] \in Nat
    BY <2>7 DEF Adds
  <2>11. QED
    BY <2>5, <2>8, <2>9, <2>10
<1>4. Nat \subseteq N
  <2> HIDE DEF N
  <2>1. QED
    BY <1>2, <1>3, NatsIn
<1>5. d[A \union B] = d[A] + d[B]
  BY <1>1, <1>4
<1>6. QED
  BY <1>5, Zenon

\* The same numbers, the same sum.
LEMMA AddsSame ==
    ASSUME NEW T, IsFiniteSet(T), NEW A \in SUBSET T, NEW g \in [A -> Nat], NEW f \in [T -> Nat],
           \A x \in A : f[x] = g[x], NEW c, Adds(c, g, A), NEW e, Adds(e, f, T)
    PROVE  c[A] = e[A]
<1>1. \A x \in A : g[x] <= f[x] /\ g[x] <= g[x]
  OBVIOUS
<1>2. c[A] <= e[A]
  BY <1>1, AddsBelow
<1>3. PICK m : m = [s \in SUBSET A |-> e[s]]
  OBVIOUS
<1>4. Adds(m, g, A)
  <2>1. \A s \in SUBSET A : s \in SUBSET T /\ \A x \in s : s \ {x} \in SUBSET A
    OBVIOUS
  <2>2. \A s \in SUBSET A : m[s] = e[s] /\ e[s] \in Nat
    BY <1>3, <2>1 DEF Adds
  <2>3. \A s \in SUBSET A : \A x \in s : m[s] = g[x] + m[s \ {x}]
    BY <2>1, <2>2 DEF Adds
  <2>4. m[{}] = 0
    BY <2>2 DEF Adds
  <2>5. m \in [SUBSET A -> Nat]
    BY <1>3, <2>2
  <2>6. QED
    BY <2>3, <2>4, <2>5 DEF Adds
<1>5. m[A] <= c[A]
  <2>1. IsFiniteSet(A)
    BY FS_Subset
  <2>2. QED
    BY <1>1, <1>4, <2>1, AddsBelow
<1>6. m[A] = e[A]
  BY <1>3
<1>7. c[A] \in Nat /\ e[A] \in Nat
  BY DEF Adds
<1>8. QED
  BY <1>2, <1>5, <1>6, <1>7

\* A part is no more than the whole.
LEMMA AddsGrow ==
    ASSUME NEW T, IsFiniteSet(T), NEW g \in [T -> Nat], NEW d, Adds(d, g, T),
           NEW A \in SUBSET T
    PROVE  d[A] <= d[T]
<1>1. PICK B \in SUBSET T : B = T \ A
  OBVIOUS
<1>2. A \intersect B = {}
  BY <1>1
<1>3. \A U : U = A \union B => d[U] = d[A] + d[B]
  BY <1>2, AddsUnion
<1>4. T = A \union B
  BY <1>1
<1>5. d[T] = d[A] + d[B]
  BY <1>3, <1>4, Zenon
<1>6. d[A] \in Nat /\ d[B] \in Nat
  BY DEF Adds
<1>7. QED
  BY <1>5, <1>6

------------------------------------------------------------------------------
(* The same of SumFunction.                                                *)

LEMMA SumType ==
    ASSUME NEW S, IsFiniteSet(S), NEW f \in [S -> Nat]
    PROVE  SumFunction(f) \in Nat
<1>1. PICK c : Adds(c, f, S) /\ SumFunction(f) = c[S]
  BY SumIs
<1>2. c[S] \in Nat
  BY <1>1 DEF Adds
<1>3. QED
  BY <1>1, <1>2

LEMMA SumNone ==
    ASSUME NEW f \in [{} -> Nat]
    PROVE  SumFunction(f) = 0
<1>1. IsFiniteSet({})
  BY FS_EmptySet
<1>2. PICK c : Adds(c, f, {}) /\ SumFunction(f) = c[{}]
  BY <1>1, SumIs
<1>3. QED
  BY <1>2 DEF Adds

LEMMA SumBelow ==
    ASSUME NEW S, NEW T, IsFiniteSet(T), S \subseteq T, NEW f \in [S -> Nat], NEW g \in [T -> Nat],
           \A x \in S : f[x] <= g[x]
    PROVE  SumFunction(f) <= SumFunction(g)
<1>1. IsFiniteSet(S)
  BY FS_Subset
<1>2. PICK c : Adds(c, f, S) /\ SumFunction(f) = c[S]
  BY <1>1, SumIs
<1>3. PICK d : Adds(d, g, T) /\ SumFunction(g) = d[T]
  BY SumIs
<1>4. c[S] <= d[S]
  BY <1>2, <1>3, AddsBelow
<1>5. d[S] <= d[T]
  BY <1>3, AddsGrow
<1>6. c[S] \in Nat /\ d[S] \in Nat /\ d[T] \in Nat
  BY <1>2, <1>3 DEF Adds
<1>7. QED
  BY <1>2, <1>3, <1>4, <1>5, <1>6

Agree(f, g, A) == \A x \in A : f[x] = g[x]
Splits(T, A, B) == A \subseteq T /\ B \subseteq T /\ \A x \in T : x \in A <=> x \notin B

LEMMA SumParts ==
    ASSUME NEW T, NEW A, NEW B, Splits(T, A, B), IsFiniteSet(T),
           NEW f \in [T -> Nat], NEW g \in [A -> Nat], NEW h \in [B -> Nat],
           Agree(f, g, A), Agree(f, h, B)
    PROVE  SumFunction(f) = SumFunction(g) + SumFunction(h)
<1> /\ A \in SUBSET T /\ B \in SUBSET T /\ \A x \in T : x \in A <=> x \notin B
    /\ \A x \in A : f[x] = g[x]
    /\ \A x \in B : f[x] = h[x]
  BY DEF Splits, Agree
<1>1. IsFiniteSet(A) /\ IsFiniteSet(B)
  BY FS_Subset
<1>2. PICK c : Adds(c, g, A) /\ SumFunction(g) = c[A]
  BY <1>1, SumIs
<1>3. PICK d : Adds(d, h, B) /\ SumFunction(h) = d[B]
  BY <1>1, SumIs
<1>4. PICK e : Adds(e, f, T) /\ SumFunction(f) = e[T]
  BY SumIs
<1>5. e[T] = e[A] + e[B]
  <2>1. A \intersect B = {} /\ T = A \union B
    OBVIOUS
  <2>2. \A U : U = A \union B => e[U] = e[A] + e[B]
    BY <1>4, <2>1, AddsUnion
  <2>3. QED
    BY <2>1, <2>2, Zenon
<1>6. c[A] = e[A]
  BY <1>2, <1>4, AddsSame
<1>7. d[B] = e[B]
  BY <1>3, <1>4, AddsSame
<1>8. QED
  BY <1>2, <1>3, <1>4, <1>5, <1>6, <1>7
------------------------------------------------------------------------------
(* Anchors.                                                                *)

\* The blocks of a document.
Anchors(d) == BookIds(d) \union {Synthetic(n) : n \in 0..(4 * Len(d.items))} \union {""}
Bs(d) == [item : Range(d.items), anchor : Anchors(d), owns : BOOLEAN]

LEMMA DocFacts ==
    ASSUME NEW d \in Docs
    PROVE  /\ DocOK(d) /\ FormsOK(Len(d.items))
           /\ Len(d.items) \in Nat /\ d.items \in Seq(Range(d.items))
           /\ Len(d.notes) \in Nat /\ d.notes \in Seq(Range(d.notes))
           /\ \A k \in 1..Len(d.items) : d.items[k] \in Range(d.items)
           /\ \A item \in Range(d.items) : \E k \in 1..Len(d.items) : item = d.items[k]
<1>1. DocOK(d)
  BY DocsAssumption
<1>2. FormsOK(Len(d.items))
  BY FormsAssumption
<1>3. d.items \in Seq(Range(d.items)) /\ d.notes \in Seq(Range(d.notes))
  BY <1>1 DEF DocOK, Listed
<1>4. Len(d.items) \in Nat /\ Len(d.notes) \in Nat /\ DOMAIN d.items = 1..Len(d.items)
  BY <1>3, LenProperties
<1>5. /\ \A k \in 1..Len(d.items) : d.items[k] \in Range(d.items)
      /\ \A item \in Range(d.items) : \E k \in 1..Len(d.items) : item = d.items[k]
  BY <1>4 DEF Range
<1>6. QED
  BY <1>1, <1>2, <1>3, <1>4, <1>5

LEMMA Least ==
    ASSUME NEW s \in SUBSET Nat, s # {}
    PROVE  \E m \in s : \A i \in s : m <= i
<1> DEFINE R == OpToRel(<, Nat)
<1>1. IsWellFoundedOn(R, Nat)
  BY NatLessThanWellFounded
<1>2. \A i, j \in Nat : i < j => <<i, j>> \in R
  BY DEF OpToRel
<1> HIDE DEF R
<1>3. PICK m \in s : \A i \in s : <<i, m>> \notin R
  BY <1>1, WFMin
<1>4. ASSUME NEW i \in s PROVE m <= i
  <2>1. i \in Nat /\ m \in Nat
    OBVIOUS
  <2>2. ~(i < m)
    BY <1>2, <1>3, <2>1
  <2>3. QED
    BY <2>1, <2>2
<1>5. QED
  BY <1>4

\* Two numbers of an interval that is longer than the set hold the same name,
\* if all names are in the set.
LEMMA Crowded ==
    ASSUME NEW n \in Nat, FormsOK(n), NEW taken, IsFiniteSet(taken), NEW a \in Nat, NEW b \in Nat,
           b <= 4 * n, b - a >= Cardinality(taken), a <= b,
           \A m \in a..b : Synthetic(m) \in taken
    PROVE  FALSE
<1>1. PICK f : f = [m \in a..b |-> Synthetic(m)]
  OBVIOUS
<1>2. f \in [a..b -> taken]
  BY <1>1
<1>3. Cardinality(taken) \in Nat
  BY FS_CardinalityType
<1>4. IsFiniteSet(a..b) /\ Cardinality(a..b) = b - a + 1
  BY FS_Interval
<1>5. PICK S : S = a..b
  OBVIOUS
<1>6. IsFiniteSet(S) /\ Cardinality(taken) < Cardinality(S)
  BY <1>3, <1>4, <1>5
<1>7. f \in [S -> taken]
  BY <1>2, <1>5
<1>8. PICK x, y \in S : x # y /\ f[x] = f[y]
  BY <1>6, <1>7, FS_PigeonHole
<1>9. x \in 0..(4 * n) /\ y \in 0..(4 * n)
  BY <1>5
<1>10. Synthetic(x) = Synthetic(y)
  BY <1>1, <1>5, <1>8
<1>11. QED
  BY <1>8, <1>9, <1>10 DEF FormsOK

LEMMA UnusedExists ==
    ASSUME NEW n \in Nat, FormsOK(n), NEW taken, IsFiniteSet(taken), Cardinality(taken) <= 2 * n,
           NEW seq \in Nat, \A m \in 0..(seq - 1) : Synthetic(m) \in taken
    PROVE  /\ Unused(taken, seq) \in seq..(4 * n)
           /\ Synthetic(Unused(taken, seq)) \notin taken
           /\ \A k \in seq..(Unused(taken, seq) - 1) : Synthetic(k) \in taken
<1>1. PICK c \in Nat : c = Cardinality(taken)
  BY FS_CardinalityType
<1>2. seq <= 2 * n
  <2>1. SUFFICES ASSUME seq > 2 * n PROVE FALSE
    OBVIOUS
  <2>2. PICK b \in Nat : b = 2 * n
    OBVIOUS
  <2>3. \A m \in 0..b : Synthetic(m) \in taken
    BY <2>1, <2>2
  <2>4. b <= 4 * n /\ b - 0 >= Cardinality(taken) /\ 0 <= b
    BY <1>1, <2>2
  <2>5. 0 \in Nat
    OBVIOUS
  <2>6. QED
    BY <2>3, <2>4, <2>5, Crowded
<1> DEFINE s == {k \in seq..(seq + c) : Synthetic(k) \notin taken}
<1>3. s # {}
  <2>1. SUFFICES ASSUME s = {} PROVE FALSE
    OBVIOUS
  <2>2. PICK b \in Nat : b = seq + c
    OBVIOUS
  <2>3. b <= 4 * n /\ b - seq >= Cardinality(taken) /\ seq <= b
    BY <1>1, <1>2, <2>2
  <2>4. \A m \in seq..b : Synthetic(m) \in taken
    BY <2>1, <2>2
  <2>5. QED
    BY <2>3, <2>4, Crowded
<1>4. s \in SUBSET Nat
  OBVIOUS
<1> HIDE DEF s
<1>5. PICK m \in s : \A i \in s : m <= i
  BY <1>3, <1>4, Least
<1>6. /\ m \in seq..(seq + c) /\ Synthetic(m) \notin taken
      /\ \A k \in seq..(m - 1) : Synthetic(k) \in taken
  BY <1>5 DEF s
<1>7. \E k \in seq..(seq + Cardinality(taken)) :
        /\ Synthetic(k) \notin taken
        /\ \A j \in seq..(k - 1) : Synthetic(j) \in taken
  BY <1>1, <1>6
<1>8. /\ Unused(taken, seq) \in seq..(seq + Cardinality(taken))
      /\ Synthetic(Unused(taken, seq)) \notin taken
      /\ \A k \in seq..(Unused(taken, seq) - 1) : Synthetic(k) \in taken
  BY <1>7 DEF Unused
<1>9. QED
  BY <1>1, <1>2, <1>8

\* The walk over the items after i of them.
Sound(a, d, i) ==
    /\ a.blocks \in Seq(Bs(d)) /\ Len(a.blocks) = i
    /\ \A k \in 1..i : /\ a.blocks[k].item = d.items[k]
                       /\ a.blocks[k].item.heading => a.blocks[k].anchor # ""
                       /\ a.blocks[k].owns => a.blocks[k].anchor \in a.used
                       /\ ~a.blocks[k].owns /\ a.blocks[k].anchor # "" => a.blocks[k].anchor \in a.taken \ BookIds(d)
    /\ \A j, k \in 1..i : j # k /\ a.blocks[j].anchor # "" => a.blocks[j].anchor # a.blocks[k].anchor
    /\ a.used \subseteq BookIds(d) /\ BookIds(d) \subseteq a.taken
    /\ IsFiniteSet(a.taken) /\ Cardinality(a.taken) <= Len(d.items) + i
    /\ a.seq \in Nat /\ \A m \in 0..(a.seq - 1) : Synthetic(m) \in a.taken

LEMMA AnchoredSound ==
    ASSUME NEW d \in Docs, NEW i \in 0..(Len(d.items) - 1), NEW a, Sound(a, d, i)
    PROVE  Sound(Anchored(a, d.items[i + 1]), d, i + 1)
<1>1. PICK j \in 1..Len(d.items) : j = i + 1
  BY DocFacts
<1>2. PICK item \in Range(d.items) : item = d.items[j]
  BY DocFacts
<1>3. PICK n \in Nat : n = Len(d.items)
  BY DocFacts
<1> i \in Nat /\ j \in Nat /\ j = i + 1
  BY <1>1, <1>3
<1>4. PICK owns \in BOOLEAN : owns = (item.id # "" /\ item.id \notin a.used)
  OBVIOUS
<1>5. PICK invented \in BOOLEAN : invented = (~owns /\ (item.id # "" \/ item.heading))
  OBVIOUS
<1>6. PICK u : u = Unused(a.taken, a.seq)
  OBVIOUS
<1>7. u \in a.seq..(4 * n) /\ Synthetic(u) \notin a.taken /\ \A k \in a.seq..(u - 1) : Synthetic(k) \in a.taken
  <2>1. FormsOK(n)
    BY <1>3, DocFacts
  <2>2. IsFiniteSet(a.taken) /\ a.seq \in Nat /\ \A m \in 0..(a.seq - 1) : Synthetic(m) \in a.taken
    BY DEF Sound
  <2>3. Cardinality(a.taken) <= 2 * n
    <3>1. Cardinality(a.taken) <= n + i /\ Cardinality(a.taken) \in Nat
      BY <1>3, FS_CardinalityType DEF Sound
    <3>2. QED
      BY <1>3, <3>1
  <2>4. QED
    BY <1>6, <2>1, <2>2, <2>3, UnusedExists
<1>8. PICK anchor : anchor = IF owns THEN item.id ELSE IF invented THEN Synthetic(u) ELSE ""
  OBVIOUS
<1>9. item.id # "" => item.id \in BookIds(d)
  BY <1>2 DEF BookIds
<1>10. Synthetic(u) \in Anchors(d) /\ Synthetic(u) # ""
  <2>1. u \in 0..(4 * n)
    <3>1. a.seq \in Nat
      BY DEF Sound
    <3>2. QED
      BY <1>7, <3>1
  <2>2. FormsOK(n)
    BY <1>3, DocFacts
  <2>3. QED
    BY <1>3, <2>1, <2>2 DEF Anchors, FormsOK
<1>11. PICK block : block = [item |-> item, anchor |-> anchor, owns |-> owns]
  OBVIOUS
<1>12. block \in Bs(d)
  <2>1. anchor \in Anchors(d)
    BY <1>4, <1>8, <1>9, <1>10 DEF Anchors
  <2>2. QED
    BY <1>11, <2>1 DEF Bs
<1>13. PICK new : new = [blocks |-> Append(a.blocks, block),
                         used   |-> IF owns THEN a.used \union {item.id} ELSE a.used,
                         taken  |-> IF invented THEN a.taken \union {anchor} ELSE a.taken,
                         seq    |-> IF invented THEN u + 1 ELSE a.seq]
  OBVIOUS
<1>14. new = Anchored(a, d.items[i + 1])
  BY <1>1, <1>2, <1>4, <1>5, <1>6, <1>8, <1>11, <1>13 DEF Anchored
<1>15. /\ new.blocks \in Seq(Bs(d)) /\ Len(new.blocks) = j
       /\ new.blocks[j] = block /\ \A k \in 1..i : new.blocks[k] = a.blocks[k]
  <2>1. a.blocks \in Seq(Bs(d)) /\ Len(a.blocks) = i
    BY DEF Sound
  <2>2. PICK bs : bs = Append(a.blocks, block)
    OBVIOUS
  <2>3. bs \in Seq(Bs(d)) /\ Len(bs) = i + 1 /\ bs[i + 1] = block /\ \A k \in 1..i : bs[k] = a.blocks[k]
    BY <1>12, <2>1, <2>2, AppendProperties
  <2>4. QED
    BY <1>1, <1>13, <2>2, <2>3
<1>16. block.item = item /\ block.anchor = anchor /\ block.owns = owns
  BY <1>11
<1>17. /\ a.used \subseteq new.used /\ a.taken \subseteq new.taken
       /\ owns => item.id \in new.used
       /\ invented => anchor \in new.taken /\ anchor \notin a.taken
  BY <1>4, <1>5, <1>7, <1>8, <1>13
<1>18. BookIds(d) \subseteq a.taken /\ a.used \subseteq BookIds(d)
  BY DEF Sound
<1>19. ASSUME NEW k \in 1..j
       PROVE  /\ new.blocks[k].item = d.items[k]
              /\ new.blocks[k].item.heading => new.blocks[k].anchor # ""
              /\ new.blocks[k].owns => new.blocks[k].anchor \in new.used
              /\ ~new.blocks[k].owns /\ new.blocks[k].anchor # "" => new.blocks[k].anchor \in new.taken \ BookIds(d)
  <2>1. CASE k = j
    <3>1. item = d.items[k]
      BY <1>2, <2>1
    <3>2. item.heading => anchor # ""
      BY <1>4, <1>5, <1>8, <1>10
    <3>3. owns => anchor \in new.used
      BY <1>8, <1>17
    <3>4. ~owns /\ anchor # "" => anchor \in new.taken \ BookIds(d)
      BY <1>8, <1>17, <1>18
    <3>5. QED
      BY <1>15, <1>16, <2>1, <3>1, <3>2, <3>3, <3>4
  <2>2. CASE k # j
    <3>1. k \in 1..i
      BY <1>1, <2>2
    <3>2. new.blocks[k] = a.blocks[k]
      BY <1>15, <3>1
    <3>3. /\ a.blocks[k].item = d.items[k]
          /\ a.blocks[k].item.heading => a.blocks[k].anchor # ""
          /\ a.blocks[k].owns => a.blocks[k].anchor \in a.used
          /\ ~a.blocks[k].owns /\ a.blocks[k].anchor # "" => a.blocks[k].anchor \in a.taken \ BookIds(d)
      BY <3>1 DEF Sound
    <3>4. QED
      BY <1>17, <3>2, <3>3
  <2>3. QED
    BY <2>1, <2>2
<1>20. ASSUME NEW k \in 1..i, block.anchor # "" \/ a.blocks[k].anchor # "" PROVE a.blocks[k].anchor # block.anchor
  <2>1. /\ a.blocks[k].owns => a.blocks[k].anchor \in a.used
        /\ ~a.blocks[k].owns /\ a.blocks[k].anchor # "" => a.blocks[k].anchor \in a.taken \ BookIds(d)
    BY DEF Sound
  <2>2. a.blocks[k].anchor # "" => a.blocks[k].anchor \in a.taken
    BY <1>18, <2>1
  <2>3. CASE owns
    <3>1. anchor = item.id /\ item.id \notin a.used /\ item.id \in BookIds(d) /\ anchor # ""
      BY <1>4, <1>8, <1>9, <2>3
    <3>2. QED
      BY <1>16, <2>1, <3>1
  <2>4. CASE invented
    <3>1. anchor \notin a.taken /\ anchor # ""
      BY <1>5, <1>8, <1>10, <1>17, <2>4
    <3>2. QED
      BY <1>16, <2>2, <3>1
  <2>5. CASE ~owns /\ ~invented
    <3>1. block.anchor = ""
      BY <1>8, <1>16, <2>5
    <3>2. QED
      BY <1>20, <3>1
  <2>6. QED
    BY <2>3, <2>4, <2>5
<1>21. ASSUME NEW k \in 1..j, NEW m \in 1..j, k # m, new.blocks[k].anchor # ""
       PROVE  new.blocks[k].anchor # new.blocks[m].anchor
  <2>1. CASE k = j
    <3>1. m \in 1..i
      <4>1. m # j
        BY <1>21, <2>1
      <4>2. m \in 1..j
        OBVIOUS
      <4>3. QED
        BY <4>1, <4>2
    <3>2. QED
      BY <1>15, <1>20, <1>21, <2>1, <3>1
  <2>2. CASE m = j
    <3>1. k \in 1..i
      <4>1. k # j
        BY <1>21, <2>2
      <4>2. k \in 1..j
        OBVIOUS
      <4>3. QED
        BY <4>1, <4>2
    <3>2. QED
      BY <1>15, <1>20, <1>21, <2>2, <3>1
  <2>3. CASE k # j /\ m # j
    <3>1. k \in 1..i /\ m \in 1..i
      BY <1>1, <2>3
    <3>2. new.blocks[k] = a.blocks[k] /\ new.blocks[m] = a.blocks[m]
      BY <1>15, <3>1
    <3>3. a.blocks[k].anchor # "" => a.blocks[k].anchor # a.blocks[m].anchor
      BY <1>21, <3>1 DEF Sound
    <3>4. QED
      BY <1>21, <3>2, <3>3
  <2>4. QED
    BY <2>1, <2>2, <2>3
<1>22. new.used \subseteq BookIds(d) /\ BookIds(d) \subseteq new.taken
  BY <1>4, <1>9, <1>13, <1>17, <1>18
<1>23. IsFiniteSet(new.taken) /\ Cardinality(new.taken) <= Len(d.items) + j
  <2>1. IsFiniteSet(a.taken) /\ Cardinality(a.taken) <= n + i
    BY <1>3 DEF Sound
  <2>2. Cardinality(a.taken) \in Nat
    BY <2>1, FS_CardinalityType
  <2>3. CASE invented
    <3>1. new.taken = a.taken \union {anchor}
      BY <1>13, <2>3
    <3>2. /\ IsFiniteSet(a.taken \union {anchor})
          /\ Cardinality(a.taken \union {anchor}) = IF anchor \in a.taken THEN Cardinality(a.taken) ELSE Cardinality(a.taken) + 1
      BY <2>1, FS_AddElement
    <3>3. anchor \notin a.taken
      BY <1>17, <2>3
    <3>4. IsFiniteSet(new.taken) /\ Cardinality(new.taken) = Cardinality(a.taken) + 1
      BY <3>1, <3>2, <3>3
    <3>5. QED
      <4>1. PICK c \in Nat : c = Cardinality(a.taken)
        BY <2>2
      <4>2. Cardinality(new.taken) = c + 1 /\ c <= n + i /\ IsFiniteSet(new.taken)
        BY <2>1, <3>4, <4>1
      <4>3. c + 1 <= n + j
        BY <4>2
      <4>4. QED
        BY <1>3, <4>2, <4>3
  <2>4. CASE ~invented
    <3>1. new.taken = a.taken
      BY <1>13, <2>4
    <3>2. QED
      <4>1. PICK c \in Nat : c = Cardinality(a.taken)
        BY <2>2
      <4>2. Cardinality(new.taken) = c /\ c <= n + i /\ IsFiniteSet(new.taken)
        BY <2>1, <3>1, <4>1
      <4>3. c <= n + j
        BY <4>2
      <4>4. QED
        BY <1>3, <4>2, <4>3
  <2>5. QED
    BY <2>3, <2>4
<1>24. new.seq \in Nat /\ \A m \in 0..(new.seq - 1) : Synthetic(m) \in new.taken
  <2>1. a.seq \in Nat /\ \A m \in 0..(a.seq - 1) : Synthetic(m) \in a.taken
    BY DEF Sound
  <2>2. CASE invented
    <3>1. new.seq = u + 1 /\ anchor = Synthetic(u)
      BY <1>5, <1>8, <1>13, <2>2
    <3>2. ASSUME NEW m \in 0..(new.seq - 1) PROVE Synthetic(m) \in new.taken
      <4>1. m = u \/ m \in 0..(a.seq - 1) \/ m \in a.seq..(u - 1)
        BY <1>7, <2>1, <3>1
      <4>2. QED
        BY <1>7, <1>17, <2>1, <2>2, <3>1, <4>1
    <3>3. QED
      BY <1>7, <2>1, <3>1, <3>2
  <2>3. CASE ~invented
    BY <1>13, <2>1, <2>3
  <2>4. QED
    BY <2>2, <2>3
<1>25. Sound(new, d, j)
  BY <1>15, <1>19, <1>21, <1>22, <1>23, <1>24 DEF Sound
<1>26. QED
  BY <1>1, <1>14, <1>25

\* The walk up to the n-th item.
Walks(w, d, n) ==
    w = [k \in 0..n |-> IF k = 0 THEN [blocks |-> <<>>, used |-> {}, taken |-> BookIds(d), seq |-> 0]
                        ELSE Anchored(w[k - 1], d.items[k])]

\* The same, one step after another.
WalksOn(w, d, n) ==
    /\ w[0] = [blocks |-> <<>>, used |-> {}, taken |-> BookIds(d), seq |-> 0]
    /\ \A k \in 1..n : w[k] = Anchored(w[k - 1], d.items[k])

LEMMA WalkAt ==
    ASSUME NEW w, NEW d, NEW n \in Nat, Walks(w, d, n)
    PROVE  WalksOn(w, d, n)
<1>1. ASSUME NEW k \in 0..n
      PROVE  w[k] = IF k = 0 THEN [blocks |-> <<>>, used |-> {}, taken |-> BookIds(d), seq |-> 0]
                    ELSE Anchored(w[k - 1], d.items[k])
  BY Zenon DEF Walks
<1>2. 0 \in 0..n /\ \A k \in 1..n : k \in 0..n /\ k # 0
  OBVIOUS
<1>3. QED
  BY <1>1, <1>2, Zenon DEF WalksOn

LEMMA WalkIs ==
    ASSUME NEW w, NEW d, NEW n \in Nat, NEW D, w = [k \in 0..n |-> D[k]], WalksOn(w, d, n)
    PROVE  Walks(w, d, n)
<1> DEFINE e(k) == IF k = 0 THEN [blocks |-> <<>>, used |-> {}, taken |-> BookIds(d), seq |-> 0]
                   ELSE Anchored(w[k - 1], d.items[k])
<1>1. ASSUME NEW k \in 0..n PROVE w[k] = e(k)
  <2>1. CASE k = 0
    BY <2>1, Zenon DEF WalksOn
  <2>2. CASE k # 0
    <3>1. k \in 1..n
      BY <2>2
    <3>2. QED
      BY <2>2, <3>1, Zenon DEF WalksOn
  <2>3. QED
    BY <2>1, <2>2
<1>2. DOMAIN w = 0..n /\ w = [k \in 0..n |-> w[k]]
  OBVIOUS
<1> HIDE DEF e
<1>3. w = [k \in 0..n |-> e(k)]
  BY <1>1, <1>2
<1>4. QED
  BY <1>3, Zenon DEF e, Walks

LEMMA WalkExists == ASSUME NEW d PROVE \A n \in Nat : \E w : Walks(w, d, n)
<1> DEFINE S == {n \in Nat : \E w : Walks(w, d, n)}
           start == [blocks |-> <<>>, used |-> {}, taken |-> BookIds(d), seq |-> 0]
<1>1. 0 \in S
  <2>1. PICK D : D = [k \in 0..0 |-> start]
    OBVIOUS
  <2>2. PICK w : w = [k \in 0..0 |-> D[k]]
    OBVIOUS
  <2>3. 0 \in 0..0 /\ 1..0 = {}
    OBVIOUS
  <2>4. w[0] = start
    BY <2>1, <2>2, <2>3, Zenon
  <2>5. \A k \in 1..0 : w[k] = Anchored(w[k - 1], d.items[k])
    BY <2>3
  <2>6. 0 \in Nat
    OBVIOUS
  <2>7. Walks(w, d, 0)
    <3>1. WalksOn(w, d, 0)
      BY <2>4, <2>5 DEF WalksOn
    <3>2. QED
      BY <2>2, <2>6, <3>1, WalkIs
  <2>8. QED
    BY <2>6, <2>7
<1>2. ASSUME NEW n \in Nat, n \in S PROVE n + 1 \in S
  <2>1. PICK w : Walks(w, d, n)
    BY <1>2
  <2>2. PICK m \in Nat : m = n + 1
    OBVIOUS
  <2>3. PICK D : D = [k \in 0..m |-> IF k = m THEN Anchored(w[n], d.items[m]) ELSE w[k]]
    OBVIOUS
  <2>4. PICK v : v = [k \in 0..m |-> D[k]]
    OBVIOUS
  <2>5. ASSUME NEW k \in 0..n PROVE v[k] = w[k]
    <3>1. k \in 0..m /\ k # m
      BY <2>2
    <3>2. QED
      BY <2>3, <2>4, <3>1, Zenon
  <2>6. v[m] = Anchored(w[n], d.items[m])
    <3>1. m \in 0..m
      OBVIOUS
    <3>2. QED
      BY <2>3, <2>4, <3>1, Zenon
  <2>7. v[0] = start
    <3>1. 0 \in 0..n
      OBVIOUS
    <3>2. w[0] = start
      BY <2>1, WalkAt, Zenon DEF WalksOn
    <3>3. QED
      BY <2>5, <3>1, <3>2, Zenon
  <2>8. ASSUME NEW k \in 1..m PROVE v[k] = Anchored(v[k - 1], d.items[k])
    <3>1. k - 1 \in 0..n /\ v[k - 1] = w[k - 1]
      <4>1. k - 1 \in 0..n
        BY <2>2
      <4>2. QED
        BY <2>5, <4>1, Zenon
    <3>2. CASE k = m
      <4>1. k - 1 = n
        BY <2>2, <3>2
      <4>2. QED
        BY <2>6, <3>1, <3>2, <4>1, Zenon
    <3>3. CASE k # m
      <4>1. k \in 1..n /\ k \in 0..n
        BY <2>2, <3>3
      <4>2. \A i \in 1..n : w[i] = Anchored(w[i - 1], d.items[i])
        <5>1. WalksOn(w, d, n)
          BY <2>1, WalkAt
        <5>2. QED
          BY <5>1, Zenon DEF WalksOn
      <4>3. v[k] = w[k]
        BY <2>5, <4>1, Zenon
      <4>4. QED
        BY <3>1, <4>1, <4>2, <4>3, Zenon
    <3>4. QED
      BY <3>2, <3>3
  <2>9. Walks(v, d, m)
    <3>1. WalksOn(v, d, m)
      BY <2>7, <2>8, Zenon DEF WalksOn
    <3>2. QED
      BY <2>4, <3>1, WalkIs
  <2>10. QED
    BY <2>2, <2>9
<1>3. Nat \subseteq S
  <2> HIDE DEF S
  <2>1. QED
    BY <1>1, <1>2, NatsIn
<1>4. QED
  BY <1>3

\* The blocks of a document: one for each item in its order, no two with one
\* anchor, every heading with one.
LEMMA FlattenFacts ==
    ASSUME NEW d \in Docs
    PROVE  /\ Flatten(d) \in Seq(Bs(d)) /\ Len(Flatten(d)) = Len(d.items)
           /\ \A k \in 1..Len(d.items) : Flatten(d)[k].item = d.items[k]
           /\ \A j, k \in 1..Len(d.items) :
                /\ Flatten(d)[j].item.heading => Flatten(d)[j].anchor # ""
                /\ j # k /\ Flatten(d)[j].anchor # "" => Flatten(d)[j].anchor # Flatten(d)[k].anchor
<1>1. PICK n \in Nat : n = Len(d.items)
  BY DocFacts
<1> DEFINE c == CHOOSE w : w = [k \in 0..n |-> IF k = 0 THEN [blocks |-> <<>>, used |-> {}, taken |-> BookIds(d), seq |-> 0]
                                               ELSE Anchored(w[k - 1], d.items[k])]
<1>2. Walks(c, d, n)
  <2>1. \E w : Walks(w, d, n)
    BY WalkExists
  <2>2. QED
    BY <2>1, Zenon DEF Walks
<1>3. Flatten(d) = c[n].blocks
  BY <1>1, Zenon DEF Flatten
<1> HIDE DEF c
<1> DEFINE S == {i \in Nat : i <= n => Sound(c[i], d, i)}
<1>4. 0 \in S
  <2>1. PICK a : a = [blocks |-> <<>>, used |-> {}, taken |-> BookIds(d), seq |-> 0]
    OBVIOUS
  <2>2. c[0] = a
    BY <1>2, <2>1, WalkAt, Zenon DEF WalksOn
  <2>3. a.blocks = <<>> /\ a.used = {} /\ a.taken = BookIds(d) /\ a.seq = 0
    BY <2>1
  <2>4. IsFiniteSet(BookIds(d)) /\ Cardinality(BookIds(d)) <= n
    <3>1. PICK f : f = [k \in 1..n |-> d.items[k].id]
      OBVIOUS
    <3>2. PICK T : T = {d.items[k].id : k \in 1..n}
      OBVIOUS
    <3>3. f \in Surjection(1..n, T)
      BY <3>1, <3>2 DEF Surjection
    <3>4. IsFiniteSet(1..n) /\ Cardinality(1..n) = n
      BY FS_Interval
    <3>5. IsFiniteSet(T) /\ Cardinality(T) <= n
      BY <3>3, <3>4, FS_Surjection
    <3>6. BookIds(d) \in SUBSET T
      BY <1>1, <3>2 DEF BookIds
    <3>7. IsFiniteSet(BookIds(d)) /\ Cardinality(BookIds(d)) <= Cardinality(T)
      BY <3>5, <3>6, FS_Subset
    <3>8. Cardinality(BookIds(d)) \in Nat /\ Cardinality(T) \in Nat
      BY <3>5, <3>7, FS_CardinalityType
    <3>9. QED
      BY <3>5, <3>7, <3>8
  <2>5. Sound(a, d, 0)
    <3>1. 1..0 = {} /\ 0..(0 - 1) = {} /\ 0 \in Nat
      OBVIOUS
    <3>2. a.blocks \in Seq(Bs(d)) /\ Len(a.blocks) = 0
      BY <2>3, EmptySeq
    <3>3. Cardinality(a.taken) <= Len(d.items) + 0
      <4>1. Cardinality(BookIds(d)) \in Nat
        BY <2>4, FS_CardinalityType
      <4>2. QED
        BY <1>1, <2>3, <2>4, <4>1
    <3>4. QED
      BY <2>3, <2>4, <3>1, <3>2, <3>3 DEF Sound
  <2>6. QED
    BY <2>2, <2>5
<1>5. ASSUME NEW i \in Nat, i \in S PROVE i + 1 \in S
  <2>1. SUFFICES ASSUME i + 1 <= n PROVE Sound(c[i + 1], d, i + 1)
    OBVIOUS
  <2>2. Sound(c[i], d, i)
    BY <1>5, <2>1
  <2>3. i \in 0..(Len(d.items) - 1)
    BY <1>1, <2>1
  <2>4. PICK a : a = c[i]
    OBVIOUS
  <2>5. Sound(Anchored(a, d.items[i + 1]), d, i + 1)
    BY <2>2, <2>3, <2>4, AnchoredSound
  <2>6. i + 1 \in 1..n /\ (i + 1) - 1 = i
    BY <2>1
  <2>7. \A k \in 1..n : c[k] = Anchored(c[k - 1], d.items[k])
    <3>1. WalksOn(c, d, n)
      BY <1>2, WalkAt
    <3>2. QED
      BY <3>1, Zenon DEF WalksOn
  <2>8. c[i + 1] = Anchored(c[(i + 1) - 1], d.items[i + 1])
    BY <2>6, <2>7, Zenon
  <2>9. QED
    BY <2>4, <2>5, <2>6, <2>8, Zenon
<1>6. Nat \subseteq S
  <2> HIDE DEF S
  <2>1. QED
    BY <1>4, <1>5, NatsIn
<1>7. Sound(c[n], d, n)
  BY <1>6
<1>8. PICK bs : bs = c[n].blocks
  OBVIOUS
<1>9. /\ bs \in Seq(Bs(d)) /\ Len(bs) = n
      /\ \A k \in 1..n : bs[k].item = d.items[k]
      /\ \A k \in 1..n : bs[k].item.heading => bs[k].anchor # ""
      /\ \A j, k \in 1..n : j # k /\ bs[j].anchor # "" => bs[j].anchor # bs[k].anchor
  BY <1>7, <1>8 DEF Sound
<1>10. Flatten(d) = bs /\ Len(d.items) = n
  BY <1>1, <1>3, <1>8
<1>11. QED
  BY <1>9, <1>10, Zenon

\* One more number.
LEMMA SumLast ==
    ASSUME NEW n \in Nat, NEW g \in [1..n -> Nat], NEW f \in [1..(n + 1) -> Nat],
           \A k \in 1..n : f[k] = g[k]
    PROVE  SumFunction(f) = SumFunction(g) + f[n + 1]
<1>1. PICK m \in Nat : m = n + 1
  OBVIOUS
<1>2. PICK A : A = 1..n
  OBVIOUS
<1>3. PICK B : B = {m}
  OBVIOUS
<1>4. f[m] \in Nat
  BY <1>1
<1>5. PICK h : h = [x \in {m} |-> f[m]]
  OBVIOUS
<1>6. PICK T : T = 1..m
  OBVIOUS
<1>7. IsFiniteSet(T) /\ IsFiniteSet(B)
  <2>1. IsFiniteSet(1..m)
    BY FS_Interval
  <2>2. IsFiniteSet({m})
    BY FS_Singleton
  <2>3. QED
    BY <1>1, <1>2, <1>3, <1>6, <2>1, <2>2
<1>8. g \in [A -> Nat] /\ h \in [B -> Nat] /\ f \in [T -> Nat]
  BY <1>1, <1>2, <1>3, <1>4, <1>5, <1>6
<1>9. Splits(T, A, B)
  BY <1>1, <1>2, <1>3, <1>6 DEF Splits
<1>10. Agree(f, g, A)
  BY <1>2 DEF Agree
<1>11. SumFunction(f) = SumFunction(g) + SumFunction(h)
  <2>1. Agree(f, h, B)
    BY <1>3, <1>5 DEF Agree
  <2>2. QED
    BY <1>7, <1>8, <1>9, <1>10, <2>1, SumParts
<1>12. SumFunction(h) = f[m]
  <2>1. PICK c : Adds(c, h, B) /\ SumFunction(h) = c[B]
    BY <1>7, <1>8, SumIs
  <2>2. B \in SUBSET B /\ m \in B /\ B \ {m} = {}
    BY <1>3
  <2>3. c[B] = h[m] + 0
    <3>1. c[B] = h[m] + c[B \ {m}] /\ c[{}] = 0
      BY <2>1, <2>2 DEF Adds
    <3>2. QED
      BY <2>2, <3>1, Zenon
  <2>4. h[m] = f[m]
    BY <1>5
  <2>5. QED
    BY <1>4, <2>1, <2>3, <2>4
<1>13. QED
  BY <1>1, <1>11, <1>12
------------------------------------------------------------------------------
(* Sizes.                                                                  *)

LEMMA LinkFacts ==
    ASSUME NEW d \in Docs, NEW i \in 0..Len(d.items), NEW links, Listed(links),
           NEW here, NEW owned, NEW here2, NEW owned2, here \subseteq here2,
           \A key \in Range(links) : key \in owned => key \in owned2
    PROVE  /\ LinkBytes(links, here, owned, i) \in Nat
           /\ LinkBytes(links, here, owned, i) <= LinkBytes(links, here2, owned2, i)
<1>1. PICK S : S = 1..Len(links)
  OBVIOUS
<1>2. Len(links) \in Nat /\ DOMAIN links = S
  BY <1>1, LenProperties DEF Listed
<1>3. IsFiniteSet(S)
  BY <1>1, <1>2, FS_Interval
<1>4. NoteLink(i) \in Nat /\ BlockLink \in Nat /\ BlockLink <= NoteLink(i)
  <2>1. FormsOK(Len(d.items))
    BY DocFacts
  <2>2. QED
    BY <2>1, PolicyAssumption DEF FormsOK
<1>5. PICK f : f = [k \in S |-> IF links[k] \in here THEN NoteLink(i) ELSE IF links[k] \in owned THEN BlockLink ELSE 0]
  OBVIOUS
<1>6. PICK g : g = [k \in S |-> IF links[k] \in here2 THEN NoteLink(i) ELSE IF links[k] \in owned2 THEN BlockLink ELSE 0]
  OBVIOUS
<1>7. f \in [S -> Nat] /\ g \in [S -> Nat]
  BY <1>4, <1>5, <1>6
<1>8. ASSUME NEW k \in S PROVE f[k] <= g[k]
  <2>1. links[k] \in Range(links)
    BY <1>2 DEF Range
  <2>2. f[k] = IF links[k] \in here THEN NoteLink(i) ELSE IF links[k] \in owned THEN BlockLink ELSE 0
    BY <1>5
  <2>3. g[k] = IF links[k] \in here2 THEN NoteLink(i) ELSE IF links[k] \in owned2 THEN BlockLink ELSE 0
    BY <1>6
  <2>4. links[k] \in here => links[k] \in here2
    OBVIOUS
  <2>5. links[k] \in owned => links[k] \in owned2
    BY <2>1
  <2>6. QED
    BY <1>4, <2>2, <2>3, <2>4, <2>5
<1>9. LinkBytes(links, here, owned, i) = SumFunction(f) /\ LinkBytes(links, here2, owned2, i) = SumFunction(g)
  BY <1>1, <1>5, <1>6 DEF LinkBytes
<1>10. SumFunction(f) \in Nat
  BY <1>3, <1>7, SumType
<1>11. SumFunction(f) <= SumFunction(g)
  <2>1. S \subseteq S
    OBVIOUS
  <2>2. QED
    BY <1>3, <1>7, <1>8, <2>1, SumBelow
<1>12. QED
  BY <1>9, <1>10, <1>11

\* A link that may name any block costs the same, whatever other blocks there are.
LEMMA LinksSame ==
    ASSUME NEW d \in Docs, NEW i \in 0..Len(d.items), NEW links, Listed(links),
           NEW here, NEW own, Range(links) \subseteq own
    PROVE  LinkBytes(links, here, own, i) = LinkBytes(links, here, Range(links), i)
<1>1. PICK R : R = Range(links)
  OBVIOUS
<1>2. (\A key \in Range(links) : key \in own => key \in R) /\ (\A key \in Range(links) : key \in R => key \in own)
  BY <1>1
<1>3. here \subseteq here
  OBVIOUS
<1>4. /\ LinkBytes(links, here, own, i) \in Nat
      /\ LinkBytes(links, here, own, i) <= LinkBytes(links, here, R, i)
  BY <1>2, <1>3, LinkFacts
<1>5. /\ LinkBytes(links, here, R, i) \in Nat
      /\ LinkBytes(links, here, R, i) <= LinkBytes(links, here, own, i)
  BY <1>2, <1>3, LinkFacts
<1>6. LinkBytes(links, here, own, i) = LinkBytes(links, here, R, i)
  BY <1>4, <1>5
<1>7. QED
  BY <1>1, <1>6

LEMMA NoteFacts ==
    ASSUME NEW d \in Docs
    PROVE  /\ IsFiniteSet(NoteKeys(d))
           /\ \A key \in NoteKeys(d) : Note(d, key) \in Range(d.notes) /\ TextOK(Note(d, key))
<1>1. PICK n \in Nat : n = Len(d.notes)
  BY DocFacts
<1>2. IsFiniteSet(NoteKeys(d))
  <2>1. PICK T : T = {d.notes[k].id : k \in 1..n}
    OBVIOUS
  <2>2. PICK f : f = [k \in 1..n |-> d.notes[k].id]
    OBVIOUS
  <2>3. f \in Surjection(1..n, T)
    BY <2>1, <2>2 DEF Surjection
  <2>4. IsFiniteSet(1..n)
    BY FS_Interval
  <2>5. IsFiniteSet(T)
    BY <2>3, <2>4, FS_Surjection
  <2>6. NoteKeys(d) \in SUBSET T
    BY <1>1, <2>1 DEF NoteKeys
  <2>7. QED
    BY <2>5, <2>6, FS_Subset
<1>3. ASSUME NEW key \in NoteKeys(d) PROVE Note(d, key) \in Range(d.notes) /\ TextOK(Note(d, key))
  <2>1. PICK s : s = {k \in 1..n : d.notes[k].id = key}
    OBVIOUS
  <2>2. s # {} /\ s \in SUBSET Nat
    <3>1. PICK k \in 1..n : d.notes[k].id = key
      BY <1>1, <1>3 DEF NoteKeys
    <3>2. k \in s /\ s \subseteq 1..n
      BY <2>1, <3>1
    <3>3. QED
      BY <3>2
  <2>3. PICK m \in s : \A i \in s : m <= i
    BY <2>2, Least
  <2>4. m \in 1..n /\ d.notes[m].id = key
    BY <2>1, <2>3
  <2>5. ASSUME NEW j \in 1..(m - 1) PROVE d.notes[j].id # key
    <3>1. j \in 1..n /\ ~(m <= j)
      BY <2>4
    <3>2. QED
      BY <2>1, <2>3, <3>1
  <2>6. \E k \in 1..n : d.notes[k].id = key /\ \A j \in 1..(k - 1) : d.notes[j].id # key
    BY <2>4, <2>5
  <2>7. PICK k \in 1..n : Note(d, key) = d.notes[k]
    BY <1>1, <2>6 DEF Note
  <2>8. DOMAIN d.notes = 1..n
    BY <1>1, DocFacts, LenProperties
  <2>9. d.notes[k] \in Range(d.notes)
    BY <2>8 DEF Range
  <2>10. DocOK(d)
    BY DocFacts
  <2>11. TextOK(d.notes[k])
    BY <1>1, <2>10 DEF DocOK
  <2>12. QED
    BY <2>7, <2>9, <2>11
<1>4. QED
  BY <1>2, <1>3

LEMMA BlockFacts ==
    ASSUME NEW d \in Docs, NEW b \in Bs(d)
    PROVE  /\ b.item \in Range(d.items) /\ TextOK(b.item)
           /\ \E k \in 1..Len(d.items) : b.item = d.items[k]
<1>1. b.item \in Range(d.items)
  BY DEF Bs
<1>2. PICK k \in 1..Len(d.items) : b.item = d.items[k]
  BY <1>1, DocFacts
<1>3. DocOK(d)
  BY DocFacts
<1>4. TextOK(d.items[k])
  BY <1>3 DEF DocOK
<1>5. QED
  BY <1>1, <1>2, <1>4

LEMMA BlockSize ==
    ASSUME NEW d \in Docs, NEW i \in 0..Len(d.items), NEW b \in Bs(d),
           NEW here, NEW owned, NEW here2, NEW owned2, here \subseteq here2,
           \A key \in Range(b.item.links) : key \in owned => key \in owned2
    PROVE  /\ BlockBytes(b, here, owned, i) \in Nat
           /\ BlockBytes(b, here, owned, i) <= BlockBytes(b, here2, owned2, i)
<1>1. Listed(b.item.links) /\ b.item.size \in Nat
  BY BlockFacts DEF TextOK
<1>2. /\ LinkBytes(b.item.links, here, owned, i) \in Nat
      /\ LinkBytes(b.item.links, here, owned, i) <= LinkBytes(b.item.links, here2, owned2, i)
  BY <1>1, LinkFacts
<1>3. LinkBytes(b.item.links, here2, owned2, i) \in Nat
  <2>1. here2 \subseteq here2 /\ \A key \in Range(b.item.links) : key \in owned2 => key \in owned2
    OBVIOUS
  <2>2. QED
    BY <1>1, <2>1, LinkFacts
<1>4. PICK x, y : x = LinkBytes(b.item.links, here, owned, i) /\ y = LinkBytes(b.item.links, here2, owned2, i)
  OBVIOUS
<1>5. PICK a \in Nat : a = (IF b.anchor = "" THEN 0 ELSE AnchorBytes)
  BY PolicyAssumption
<1>6. BlockBytes(b, here, owned, i) = a + b.item.size + x /\ BlockBytes(b, here2, owned2, i) = a + b.item.size + y
  BY <1>4, <1>5 DEF BlockBytes
<1>7. x \in Nat /\ y \in Nat /\ x <= y
  BY <1>2, <1>3, <1>4
<1>8. PICK z \in Nat : z = b.item.size
  BY <1>1
<1>9. a + z + x \in Nat /\ a + z + x <= a + z + y
  BY <1>7
<1>10. QED
  BY <1>6, <1>8, <1>9

LEMMA NoteSize ==
    ASSUME NEW d \in Docs, NEW i \in 0..Len(d.items), NEW key \in NoteKeys(d),
           NEW here, NEW owned, NEW here2, NEW owned2, here \subseteq here2,
           \A k \in Range(Note(d, key).links) : k \in owned => k \in owned2
    PROVE  /\ NoteBytes(Note(d, key), here, owned, i) \in Nat
           /\ NoteBytes(Note(d, key), here, owned, i) <= NoteBytes(Note(d, key), here2, owned2, i)
<1>1. PICK note : note = Note(d, key)
  OBVIOUS
<1>2. Listed(note.links) /\ note.size \in Nat
  BY <1>1, NoteFacts DEF TextOK
<1>3. /\ LinkBytes(note.links, here, owned, i) \in Nat
      /\ LinkBytes(note.links, here, owned, i) <= LinkBytes(note.links, here2, owned2, i)
  BY <1>1, <1>2, LinkFacts
<1>4. LinkBytes(note.links, here2, owned2, i) \in Nat
  <2>1. here2 \subseteq here2 /\ \A k \in Range(note.links) : k \in owned2 => k \in owned2
    OBVIOUS
  <2>2. QED
    BY <1>2, <2>1, LinkFacts
<1>5. PICK x, y : x = LinkBytes(note.links, here, owned, i) /\ y = LinkBytes(note.links, here2, owned2, i)
  OBVIOUS
<1>6. PICK a \in Nat : a = NoteBox(i)
  <2>1. FormsOK(Len(d.items))
    BY DocFacts
  <2>2. QED
    BY <2>1 DEF FormsOK
<1>7. PICK z \in Nat : z = note.size
  BY <1>2
<1>8. NoteBytes(note, here, owned, i) = a + z + x /\ NoteBytes(note, here2, owned2, i) = a + z + y
  BY <1>5, <1>6, <1>7 DEF NoteBytes
<1>9. x \in Nat /\ y \in Nat /\ x <= y
  BY <1>3, <1>4, <1>5
<1>10. a + z + x \in Nat /\ a + z + x <= a + z + y
  BY <1>9
<1>11. QED
  BY <1>1, <1>8, <1>10
------------------------------------------------------------------------------
(* Portions.                                                               *)

Ps(d) == [index : 0..Len(d.items), blocks : Seq(Bs(d)), notes : SUBSET NoteKeys(d)]

\* What a block and a note cost when every link resolves in its longest form.
LongBlock(d, b, i) == BlockBytes(b, NoteKeys(d), Range(b.item.links), i)
LongNote(d, key, i) == NoteBytes(Note(d, key), NoteKeys(d), Range(Note(d, key).links), i)
LongNotes(d, keys, i) == SumFunction([key \in keys |-> LongNote(d, key, i)])
LongBlocks(d, bs, i) == SumFunction([k \in 1..Len(bs) |-> LongBlock(d, bs[k], i)])
Upper(d, p) == LongBlocks(d, p.blocks, p.index) + LongNotes(d, p.notes, p.index)

LEMMA LongType ==
    ASSUME NEW d \in Docs, NEW i \in 0..Len(d.items)
    PROVE  /\ \A b \in Bs(d) : LongBlock(d, b, i) \in Nat
           /\ \A key \in NoteKeys(d) : LongNote(d, key, i) \in Nat
           /\ \A keys \in SUBSET NoteKeys(d) : LongNotes(d, keys, i) \in Nat /\ IsFiniteSet(keys)
           /\ \A bs \in Seq(Bs(d)) : LongBlocks(d, bs, i) \in Nat
<1>1. ASSUME NEW b \in Bs(d) PROVE LongBlock(d, b, i) \in Nat
  <2>1. \A key \in Range(b.item.links) : key \in Range(b.item.links) => key \in Range(b.item.links)
    OBVIOUS
  <2>2. NoteKeys(d) \subseteq NoteKeys(d)
    OBVIOUS
  <2>3. QED
    BY <2>1, <2>2, BlockSize DEF LongBlock
<1>2. ASSUME NEW key \in NoteKeys(d) PROVE LongNote(d, key, i) \in Nat
  <2>1. \A k \in Range(Note(d, key).links) : k \in Range(Note(d, key).links) => k \in Range(Note(d, key).links)
    OBVIOUS
  <2>2. NoteKeys(d) \subseteq NoteKeys(d)
    OBVIOUS
  <2>3. QED
    BY <2>1, <2>2, NoteSize DEF LongNote
<1>3. ASSUME NEW keys \in SUBSET NoteKeys(d) PROVE LongNotes(d, keys, i) \in Nat /\ IsFiniteSet(keys)
  <2>1. PICK f : f = [key \in keys |-> LongNote(d, key, i)]
    OBVIOUS
  <2>2. f \in [keys -> Nat]
    BY <1>2, <2>1
  <2>3. IsFiniteSet(keys)
    BY NoteFacts, FS_Subset
  <2>4. SumFunction(f) \in Nat
    BY <2>2, <2>3, SumType
  <2>5. QED
    BY <2>1, <2>3, <2>4 DEF LongNotes
<1>4. ASSUME NEW bs \in Seq(Bs(d)) PROVE LongBlocks(d, bs, i) \in Nat
  <2>1. PICK n \in Nat : n = Len(bs)
    BY LenProperties
  <2>2. PICK f : f = [k \in 1..n |-> LongBlock(d, bs[k], i)]
    OBVIOUS
  <2>3. f \in [1..n -> Nat]
    <3>1. \A k \in 1..n : bs[k] \in Bs(d)
      BY <2>1, ElementOfSeq
    <3>2. QED
      BY <1>1, <2>2, <3>1
  <2>4. IsFiniteSet(1..n)
    BY FS_Interval
  <2>5. SumFunction(f) \in Nat
    BY <2>3, <2>4, SumType
  <2>6. QED
    BY <2>1, <2>2, <2>5 DEF LongBlocks
<1>5. QED
  BY <1>1, <1>2, <1>3, <1>4

LEMMA ExpandedIs ==
    ASSUME NEW d \in Docs, NEW p \in Ps(d)
    PROVE  Expanded(p) \subseteq p.notes /\ p.notes \subseteq NoteKeys(d) /\ IsFiniteSet(Expanded(p))
<1>1. Expanded(p) \subseteq p.notes
  BY DEF Expanded, Cited
<1>2. p.notes \subseteq NoteKeys(d)
  BY DEF Ps
<1>3. IsFiniteSet(Expanded(p))
  BY <1>1, <1>2, NoteFacts, FS_Subset
<1>4. QED
  BY <1>1, <1>2, <1>3

\* No portion renders to more than its blocks and notes in their longest form.
LEMMA RenderedFacts ==
    ASSUME NEW d \in Docs, NEW p \in Ps(d)
    PROVE  /\ Rendered(d, p) \in Nat /\ Upper(d, p) \in Nat
           /\ Rendered(d, p) <= Upper(d, p)
<1>1. PICK i \in 0..Len(d.items) : i = p.index
  BY DEF Ps
<1>2. PICK bs \in Seq(Bs(d)) : bs = p.blocks
  BY DEF Ps
<1>3. PICK here \in SUBSET NoteKeys(d) : here = p.notes
  BY DEF Ps
<1>4. PICK own : own = Owned(p)
  OBVIOUS
<1>5. PICK n \in Nat : n = Len(bs)
  BY LenProperties
<1>6. PICK ex : ex = Expanded(p)
  OBVIOUS
<1>7. ex \subseteq here /\ IsFiniteSet(ex) /\ IsFiniteSet(here)
  BY <1>3, <1>6, ExpandedIs, LongType
<1>8. PICK f : f = [k \in 1..n |-> BlockBytes(bs[k], here, own, i)]
  OBVIOUS
<1>9. PICK g : g = [k \in 1..n |-> LongBlock(d, bs[k], i)]
  OBVIOUS
<1>10. PICK v : v = [key \in ex |-> NoteBytes(Note(d, key), here, own, i)]
  OBVIOUS
<1>11. PICK w : w = [key \in here |-> LongNote(d, key, i)]
  OBVIOUS
<1>12. Rendered(d, p) = SumFunction(f) + SumFunction(v)
  BY <1>1, <1>2, <1>3, <1>4, <1>5, <1>6, <1>8, <1>10 DEF Rendered
<1>13. Upper(d, p) = SumFunction(g) + SumFunction(w)
  BY <1>1, <1>2, <1>3, <1>5, <1>9, <1>11 DEF Upper, LongBlocks, LongNotes
<1>14. ASSUME NEW b \in Bs(d) PROVE BlockBytes(b, here, own, i) \in Nat /\ BlockBytes(b, here, own, i) <= LongBlock(d, b, i)
  <2>1. \A key \in Range(b.item.links) : key \in own => key \in Range(b.item.links)
    OBVIOUS
  <2>2. here \subseteq NoteKeys(d)
    OBVIOUS
  <2>3. QED
    BY <2>1, <2>2, BlockSize DEF LongBlock
<1>15. ASSUME NEW key \in here PROVE NoteBytes(Note(d, key), here, own, i) \in Nat /\ NoteBytes(Note(d, key), here, own, i) <= LongNote(d, key, i)
  <2>1. \A k \in Range(Note(d, key).links) : k \in own => k \in Range(Note(d, key).links)
    OBVIOUS
  <2>2. here \subseteq NoteKeys(d) /\ key \in NoteKeys(d)
    OBVIOUS
  <2>3. QED
    BY <2>1, <2>2, NoteSize DEF LongNote
<1>16. \A k \in 1..n : bs[k] \in Bs(d)
  BY <1>5, ElementOfSeq
<1>17. SumFunction(f) \in Nat /\ SumFunction(g) \in Nat /\ SumFunction(f) <= SumFunction(g)
  <2>1. f \in [1..n -> Nat]
    BY <1>8, <1>14, <1>16
  <2>2. g \in [1..n -> Nat]
    BY <1>9, <1>16, LongType
  <2>3. \A k \in 1..n : f[k] <= g[k]
    BY <1>8, <1>9, <1>14, <1>16
  <2>4. IsFiniteSet(1..n) /\ 1..n \subseteq 1..n
    BY FS_Interval
  <2>5. QED
    BY <2>1, <2>2, <2>3, <2>4, SumType, SumBelow
<1>18. SumFunction(v) \in Nat /\ SumFunction(w) \in Nat /\ SumFunction(v) <= SumFunction(w)
  <2>1. v \in [ex -> Nat]
    BY <1>7, <1>10, <1>15
  <2>2. w \in [here -> Nat]
    BY <1>11, LongType
  <2>3. \A key \in ex : v[key] <= w[key]
    BY <1>7, <1>10, <1>11, <1>15
  <2>4. QED
    BY <1>7, <2>1, <2>2, <2>3, SumType, SumBelow
<1>19. PICK a, b \in Nat : a = SumFunction(f) /\ b = SumFunction(g)
  BY <1>17
<1>20. PICK x, y \in Nat : x = SumFunction(v) /\ y = SumFunction(w)
  BY <1>18
<1>21. a <= b /\ x <= y
  BY <1>17, <1>18, <1>19, <1>20
<1>22. a + x \in Nat /\ b + y \in Nat /\ a + x <= b + y
  BY <1>21
<1>23. QED
  BY <1>12, <1>13, <1>19, <1>20, <1>22

\* A draft is the block and the notes it pulls in their longest form.
LEMMA DraftIs ==
    ASSUME NEW d \in Docs, NEW b \in Bs(d), NEW pulled \in SUBSET NoteKeys(d), NEW i \in 0..Len(d.items)
    PROVE  Draft(d, b, pulled, i) = LongBlock(d, b, i) + LongNotes(d, pulled, i)
<1>1. PICK all : all = NoteKeys(d)
  OBVIOUS
<1>2. PICK own : own = Range(b.item.links) \union UNION {Range(Note(d, key).links) : key \in pulled}
  OBVIOUS
<1>3. PICK f : f = [key \in pulled |-> NoteBytes(Note(d, key), all, own, i)]
  OBVIOUS
<1>4. Draft(d, b, pulled, i) = BlockBytes(b, all, own, i) + SumFunction(f)
  BY <1>1, <1>2, <1>3 DEF Draft
<1>5. BlockBytes(b, all, own, i) = LongBlock(d, b, i)
  <2>1. Range(b.item.links) \subseteq own
    BY <1>2
  <2>2. Listed(b.item.links)
    BY BlockFacts DEF TextOK
  <2>3. LinkBytes(b.item.links, all, own, i) = LinkBytes(b.item.links, all, Range(b.item.links), i)
    BY <2>1, <2>2, LinksSame
  <2>4. QED
    BY <1>1, <2>3, Zenon DEF BlockBytes, LongBlock
<1>6. ASSUME NEW key \in pulled PROVE NoteBytes(Note(d, key), all, own, i) = LongNote(d, key, i)
  <2>1. Range(Note(d, key).links) \subseteq own
    BY <1>2
  <2>2. Listed(Note(d, key).links)
    BY NoteFacts DEF TextOK
  <2>3. LinkBytes(Note(d, key).links, all, own, i) = LinkBytes(Note(d, key).links, all, Range(Note(d, key).links), i)
    BY <2>1, <2>2, LinksSame
  <2>4. QED
    BY <1>1, <2>3, Zenon DEF NoteBytes, LongNote
<1>7. PICK g : g = [key \in pulled |-> LongNote(d, key, i)]
  OBVIOUS
<1>8. f = g
  BY <1>3, <1>6, <1>7
<1>9. LongNotes(d, pulled, i) = SumFunction(f)
  BY <1>7, <1>8 DEF LongNotes
<1>10. QED
  BY <1>4, <1>5, <1>9, Zenon

LEMMA CitedIs ==
    ASSUME NEW d \in Docs, NEW b \in Bs(d)
    PROVE  Cited(b.item, NoteKeys(d)) \in SUBSET NoteKeys(d)
BY DEF Cited

LEMMA PlacedFacts ==
    ASSUME NEW d \in Docs, NEW p \in Ps(d), NEW b \in Bs(d)
    PROVE  /\ Placed(d, p, b) \in Ps(d)
           /\ Placed(d, p, b).blocks = Append(p.blocks, b) /\ Placed(d, p, b).index = p.index
           /\ Placed(d, p, b).notes = p.notes \union Cited(b.item, NoteKeys(d))
           /\ Len(Placed(d, p, b).blocks) = Len(p.blocks) + 1
<1>1. PICK bs \in Seq(Bs(d)) : bs = p.blocks
  BY DEF Ps
<1>2. PICK i \in 0..Len(d.items) : i = p.index
  BY DEF Ps
<1>3. PICK here \in SUBSET NoteKeys(d) : here = p.notes
  BY DEF Ps
<1>4. p = [index |-> i, blocks |-> bs, notes |-> here]
  BY <1>1, <1>2, <1>3 DEF Ps
<1>5. PICK new : new = Append(bs, b)
  OBVIOUS
<1>6. new \in Seq(Bs(d)) /\ Len(new) = Len(bs) + 1
  BY <1>5, AppendProperties
<1>7. PICK cited \in SUBSET NoteKeys(d) : cited = Cited(b.item, NoteKeys(d))
  BY CitedIs
<1>8. Placed(d, p, b) = [index |-> i, blocks |-> new, notes |-> here \union cited]
  BY <1>4, <1>5, <1>7 DEF Placed
<1>9. Placed(d, p, b) \in Ps(d)
  <2>1. here \union cited \in SUBSET NoteKeys(d)
    OBVIOUS
  <2>2. QED
    BY <1>6, <1>8, <2>1 DEF Ps
<1>10. QED
  BY <1>1, <1>2, <1>3, <1>5, <1>6, <1>7, <1>8, <1>9

LEMMA LongNotesParts ==
    ASSUME NEW d \in Docs, NEW i \in 0..Len(d.items), NEW keys \in SUBSET NoteKeys(d),
           NEW here, NEW pulled, Splits(keys, here, pulled)
    PROVE  LongNotes(d, keys, i) = LongNotes(d, here, i) + LongNotes(d, pulled, i)
<1>1. here \subseteq keys /\ pulled \subseteq keys
  BY DEF Splits
<1>2. \A key \in keys : LongNote(d, key, i) \in Nat
  BY LongType
<1>3. IsFiniteSet(keys)
  BY LongType
<1>4. PICK f : f = [key \in keys |-> LongNote(d, key, i)]
  OBVIOUS
<1>5. PICK g : g = [key \in here |-> LongNote(d, key, i)]
  OBVIOUS
<1>6. PICK h : h = [key \in pulled |-> LongNote(d, key, i)]
  OBVIOUS
<1>7. f \in [keys -> Nat]
  BY <1>2, <1>4
<1>8. g \in [here -> Nat]
  BY <1>1, <1>2, <1>5
<1>9. h \in [pulled -> Nat]
  BY <1>1, <1>2, <1>6
<1>10. Agree(f, g, here)
  BY <1>1, <1>4, <1>5 DEF Agree
<1>11. Agree(f, h, pulled)
  BY <1>1, <1>4, <1>6 DEF Agree
<1>12. SumFunction(f) = SumFunction(g) + SumFunction(h)
  BY <1>3, <1>7, <1>8, <1>9, <1>10, <1>11, SumParts
<1>13. QED
  BY <1>4, <1>5, <1>6, <1>12 DEF LongNotes

\* A portion grows by the draft of the block that goes into it.
LEMMA UpperPlaced ==
    ASSUME NEW d \in Docs, NEW p \in Ps(d), NEW b \in Bs(d)
    PROVE  Upper(d, Placed(d, p, b)) = Upper(d, p) + Draft(d, b, Cited(b.item, NoteKeys(d)) \ p.notes, p.index)
<1>1. PICK bs \in Seq(Bs(d)) : bs = p.blocks
  BY DEF Ps
<1>2. PICK i \in 0..Len(d.items) : i = p.index
  BY DEF Ps
<1>3. PICK here \in SUBSET NoteKeys(d) : here = p.notes
  BY DEF Ps
<1>4. PICK cited \in SUBSET NoteKeys(d) : cited = Cited(b.item, NoteKeys(d))
  BY CitedIs
<1>5. PICK pulled \in SUBSET NoteKeys(d) : pulled = cited \ here
  OBVIOUS
<1>6. PICK q \in Ps(d) : q = Placed(d, p, b)
  BY PlacedFacts
<1>7. PICK keys \in SUBSET NoteKeys(d) : keys = here \union cited
  OBVIOUS
<1>8. PICK n \in Nat : n = Len(bs)
  BY LenProperties
<1>9. PICK new \in Seq(Bs(d)) : new = Append(bs, b)
  BY AppendProperties
<1>10. q.index = i /\ q.blocks = new /\ q.notes = keys
  BY <1>1, <1>2, <1>3, <1>4, <1>6, <1>7, <1>9, PlacedFacts
<1>11. LongBlocks(d, new, i) = LongBlocks(d, bs, i) + LongBlock(d, b, i)
  <2>1. Len(new) = n + 1 /\ new[n + 1] = b /\ \A k \in 1..n : new[k] = bs[k]
    BY <1>8, <1>9, AppendProperties
  <2>2. PICK f : f = [k \in 1..(n + 1) |-> LongBlock(d, new[k], i)]
    OBVIOUS
  <2>3. PICK g : g = [k \in 1..n |-> LongBlock(d, bs[k], i)]
    OBVIOUS
  <2>4. LongBlocks(d, new, i) = SumFunction(f) /\ LongBlocks(d, bs, i) = SumFunction(g)
    BY <1>8, <2>1, <2>2, <2>3 DEF LongBlocks
  <2>5. (\A k \in 1..(n + 1) : new[k] \in Bs(d)) /\ (\A k \in 1..n : bs[k] \in Bs(d))
    BY <1>8, <2>1, ElementOfSeq
  <2>6. f \in [1..(n + 1) -> Nat] /\ g \in [1..n -> Nat]
    BY <2>2, <2>3, <2>5, LongType
  <2>7. \A k \in 1..n : f[k] = g[k]
    BY <2>1, <2>2, <2>3
  <2>8. SumFunction(f) = SumFunction(g) + f[n + 1]
    BY <2>6, <2>7, SumLast
  <2>9. f[n + 1] = LongBlock(d, b, i)
    <3>1. n + 1 \in 1..(n + 1)
      OBVIOUS
    <3>2. QED
      BY <2>1, <2>2, <3>1
  <2>10. QED
    BY <2>4, <2>8, <2>9
<1>12. LongNotes(d, keys, i) = LongNotes(d, here, i) + LongNotes(d, pulled, i)
  <2>1. Splits(keys, here, pulled)
    BY <1>5, <1>7 DEF Splits
  <2>2. QED
    BY <2>1, LongNotesParts
<1>13. Upper(d, q) = LongBlocks(d, new, i) + LongNotes(d, keys, i)
  BY <1>10 DEF Upper
<1>14. Upper(d, p) = LongBlocks(d, bs, i) + LongNotes(d, here, i)
  BY <1>1, <1>2, <1>3 DEF Upper
<1>15. Draft(d, b, pulled, i) = LongBlock(d, b, i) + LongNotes(d, pulled, i)
  BY DraftIs
<1>16. /\ LongBlocks(d, bs, i) \in Nat /\ LongBlock(d, b, i) \in Nat
       /\ LongNotes(d, here, i) \in Nat /\ LongNotes(d, pulled, i) \in Nat
  BY LongType
<1>17. Upper(d, q) = Upper(d, p) + Draft(d, b, pulled, i)
  BY <1>11, <1>12, <1>13, <1>14, <1>15, <1>16
<1>18. QED
  BY <1>2, <1>3, <1>4, <1>5, <1>6, <1>17

\* A block alone renders to no less with every note it cites than with some.
LEMMA AloneAbove ==
    ASSUME NEW d \in Docs, NEW b \in Bs(d), NEW i \in 0..Len(d.items),
           NEW pulled \in SUBSET Cited(b.item, NoteKeys(d))
    PROVE  Rendered(d, [index |-> i, blocks |-> <<b>>, notes |-> pulled]) <= Rendered(d, Alone(d, b, i))
<1>1. PICK cited \in SUBSET NoteKeys(d) : cited = Cited(b.item, NoteKeys(d))
  BY CitedIs
<1>2. PICK p : p = [index |-> i, blocks |-> <<b>>, notes |-> pulled]
  OBVIOUS
<1>3. PICK q : q = [index |-> i, blocks |-> <<b>>, notes |-> cited]
  OBVIOUS
<1>4. q = Alone(d, b, i)
  BY <1>1, <1>3 DEF Alone
<1>5. <<b>> \in Seq(Bs(d)) /\ Len(<<b>>) = 1 /\ <<b>>[1] = b
  OBVIOUS
<1>6. pulled \subseteq cited /\ pulled \in SUBSET NoteKeys(d)
  BY <1>1
<1>7. p \in Ps(d) /\ q \in Ps(d)
  BY <1>2, <1>3, <1>5, <1>6 DEF Ps
<1>8. PICK own : own = Owned(q)
  OBVIOUS
<1>9. Owned(p) = own
  BY <1>2, <1>3, <1>8 DEF Owned
<1>10. Expanded(p) \subseteq Expanded(q)
  BY <1>2, <1>3, <1>6 DEF Expanded, Cited
<1>11. PICK ex, all : ex = Expanded(p) /\ all = Expanded(q)
  OBVIOUS
<1>12. ex \subseteq all /\ all \subseteq NoteKeys(d) /\ IsFiniteSet(ex) /\ IsFiniteSet(all)
  BY <1>7, <1>10, <1>11, ExpandedIs
<1>13. PICK f : f = [k \in 1..1 |-> BlockBytes(<<b>>[k], pulled, own, i)]
  OBVIOUS
<1>14. PICK g : g = [k \in 1..1 |-> BlockBytes(<<b>>[k], cited, own, i)]
  OBVIOUS
<1>15. PICK v : v = [key \in ex |-> NoteBytes(Note(d, key), pulled, own, i)]
  OBVIOUS
<1>16. PICK w : w = [key \in all |-> NoteBytes(Note(d, key), cited, own, i)]
  OBVIOUS
<1>17. Rendered(d, p) = SumFunction(f) + SumFunction(v)
  BY <1>2, <1>5, <1>9, <1>11, <1>13, <1>15 DEF Rendered
<1>18. Rendered(d, q) = SumFunction(g) + SumFunction(w)
  BY <1>3, <1>5, <1>8, <1>11, <1>14, <1>16 DEF Rendered
<1>19. SumFunction(f) \in Nat /\ SumFunction(g) \in Nat /\ SumFunction(f) <= SumFunction(g)
  <2>1. \A key \in Range(b.item.links) : key \in own => key \in own
    OBVIOUS
  <2>2. /\ BlockBytes(b, pulled, own, i) \in Nat /\ BlockBytes(b, cited, own, i) \in Nat
        /\ BlockBytes(b, pulled, own, i) <= BlockBytes(b, cited, own, i)
    BY <1>6, <2>1, BlockSize
  <2>3. \A k \in 1..1 : <<b>>[k] = b
    OBVIOUS
  <2>4. f \in [1..1 -> Nat] /\ g \in [1..1 -> Nat] /\ \A k \in 1..1 : f[k] <= g[k]
    BY <1>13, <1>14, <2>2, <2>3
  <2>5. IsFiniteSet(1..1) /\ 1..1 \subseteq 1..1
    <3>1. 1 \in Int
      OBVIOUS
    <3>2. IsFiniteSet(1..1)
      BY <3>1, FS_Interval, Zenon
    <3>3. QED
      BY <3>2
  <2>6. QED
    BY <2>4, <2>5, SumType, SumBelow
<1>20. SumFunction(v) \in Nat /\ SumFunction(w) \in Nat /\ SumFunction(v) <= SumFunction(w)
  <2>1. ASSUME NEW key \in NoteKeys(d)
        PROVE  /\ NoteBytes(Note(d, key), pulled, own, i) \in Nat /\ NoteBytes(Note(d, key), cited, own, i) \in Nat
               /\ NoteBytes(Note(d, key), pulled, own, i) <= NoteBytes(Note(d, key), cited, own, i)
    <3>1. \A k \in Range(Note(d, key).links) : k \in own => k \in own
      OBVIOUS
    <3>2. QED
      BY <1>6, <3>1, NoteSize
  <2>2. v \in [ex -> Nat] /\ w \in [all -> Nat] /\ \A key \in ex : v[key] <= w[key]
    BY <1>12, <1>15, <1>16, <2>1
  <2>3. QED
    BY <1>12, <2>2, SumType, SumBelow
<1>21. PICK a, c \in Nat : a = SumFunction(f) /\ c = SumFunction(g)
  BY <1>19
<1>22. PICK x, y \in Nat : x = SumFunction(v) /\ y = SumFunction(w)
  BY <1>20
<1>23. a + x <= c + y
  BY <1>19, <1>20, <1>21, <1>22
<1>24. QED
  BY <1>2, <1>4, <1>17, <1>18, <1>21, <1>22, <1>23

\* What the first m portions render to.
UpTo(d, ps, m) == SumFunction([k \in 1..m |-> Rendered(d, ps[k])])

LEMMA UpToFacts ==
    ASSUME NEW d \in Docs, NEW ps \in Seq(Ps(d)), NEW m \in 0..Len(ps)
    PROVE  /\ UpTo(d, ps, m) \in Nat /\ Bytes(d, ps) \in Nat /\ UpTo(d, ps, m) <= Bytes(d, ps)
           /\ m < Len(ps) => UpTo(d, ps, m + 1) = UpTo(d, ps, m) + Rendered(d, ps[m + 1])
<1>1. PICK n \in Nat : n = Len(ps)
  BY LenProperties
<1>2. PICK f : f = [k \in 1..n |-> Rendered(d, ps[k])]
  OBVIOUS
<1>3. PICK g : g = [k \in 1..m |-> Rendered(d, ps[k])]
  OBVIOUS
<1>4. \A k \in 1..n : Rendered(d, ps[k]) \in Nat
  BY <1>1, ElementOfSeq, RenderedFacts
<1>5. m \in Nat /\ m <= n
  BY <1>1
<1>6. f \in [1..n -> Nat] /\ g \in [1..m -> Nat]
  BY <1>2, <1>3, <1>4, <1>5
<1>7. 1..m \subseteq 1..n /\ IsFiniteSet(1..n) /\ IsFiniteSet(1..m)
  BY <1>5, FS_Interval
<1>8. \A k \in 1..m : g[k] <= f[k]
  BY <1>2, <1>3, <1>4, <1>7
<1>9. SumFunction(g) \in Nat /\ SumFunction(f) \in Nat
  BY <1>6, <1>7, SumType
<1>10. SumFunction(g) <= SumFunction(f)
  BY <1>6, <1>7, <1>8, SumBelow
<1>11. UpTo(d, ps, m) = SumFunction(g) /\ Bytes(d, ps) = SumFunction(f)
  BY <1>1, <1>2, <1>3 DEF UpTo, Bytes
<1>12. ASSUME m < n PROVE UpTo(d, ps, m + 1) = UpTo(d, ps, m) + Rendered(d, ps[m + 1])
  <2>1. PICK h : h = [k \in 1..(m + 1) |-> Rendered(d, ps[k])]
    OBVIOUS
  <2>2. m + 1 \in 1..n /\ 1..(m + 1) \subseteq 1..n /\ m + 1 \in 1..(m + 1)
    BY <1>5, <1>12
  <2>3. h \in [1..(m + 1) -> Nat]
    BY <1>4, <2>1, <2>2
  <2>4. \A k \in 1..m : h[k] = g[k]
    BY <1>3, <1>5, <2>1
  <2>5. SumFunction(h) = SumFunction(g) + h[m + 1]
    BY <1>5, <1>6, <2>3, <2>4, SumLast
  <2>6. h[m + 1] = Rendered(d, ps[m + 1])
    BY <2>1, <2>2
  <2>7. UpTo(d, ps, m + 1) = SumFunction(h)
    BY <2>1 DEF UpTo
  <2>8. QED
    BY <1>11, <2>5, <2>6, <2>7
<1>13. QED
  BY <1>1, <1>9, <1>10, <1>11, <1>12

LEMMA BytesAppend ==
    ASSUME NEW d \in Docs, NEW ps \in Seq(Ps(d)), NEW p \in Ps(d)
    PROVE  Bytes(d, Append(ps, p)) = Bytes(d, ps) + Rendered(d, p)
<1>1. PICK n \in Nat : n = Len(ps)
  BY LenProperties
<1>2. PICK all \in Seq(Ps(d)) : all = Append(ps, p)
  BY AppendProperties
<1>3. Len(all) = n + 1 /\ all[n + 1] = p /\ \A k \in 1..n : all[k] = ps[k]
  BY <1>1, <1>2, AppendProperties
<1>4. UpTo(d, all, n + 1) = UpTo(d, all, n) + Rendered(d, all[n + 1])
  <2>1. n \in 0..Len(all) /\ n < Len(all)
    BY <1>3
  <2>2. QED
    BY <2>1, UpToFacts
<1>5. Bytes(d, all) = UpTo(d, all, n + 1)
  BY <1>3 DEF Bytes, UpTo
<1>6. Bytes(d, ps) = UpTo(d, all, n)
  <2>1. PICK f : f = [k \in 1..n |-> Rendered(d, ps[k])]
    OBVIOUS
  <2>2. PICK g : g = [k \in 1..n |-> Rendered(d, all[k])]
    OBVIOUS
  <2>3. f = g
    BY <1>3, <2>1, <2>2
  <2>4. QED
    BY <1>1, <2>1, <2>2, <2>3 DEF Bytes, UpTo
<1>7. QED
  BY <1>2, <1>3, <1>4, <1>5, <1>6
------------------------------------------------------------------------------
(* Pictures.                                                               *)

Rank(d, b) == d.binaries[b].rank
Position(d, b) == Cardinality({c \in UsedBinaries(d) : Rank(d, c) < Rank(d, b)})
\* The first m of them.
FirstPictures(d, m) == {b \in UsedBinaries(d) : Position(d, b) < m}

LEMMA PositionFacts ==
    ASSUME NEW d \in Docs
    PROVE  /\ IsFiniteSet(UsedBinaries(d)) /\ Cardinality(UsedBinaries(d)) \in Nat
           /\ \A b \in UsedBinaries(d) : Position(d, b) \in 0..(Cardinality(UsedBinaries(d)) - 1)
           /\ \A b, c \in UsedBinaries(d) : Position(d, b) = Position(d, c) => b = c
           /\ \A m \in 0..(Cardinality(UsedBinaries(d)) - 1) : \E b \in UsedBinaries(d) : Position(d, b) = m
<1>1. PICK U : U = UsedBinaries(d)
  OBVIOUS
<1>2. DocOK(d)
  BY DocFacts
<1>3. U \subseteq DOMAIN d.binaries
  BY <1>1 DEF UsedBinaries
<1>4. IsFiniteSet(U)
  BY <1>2, <1>3, FS_Subset DEF DocOK
<1>5. PICK N \in Nat : N = Cardinality(U)
  BY <1>4, FS_CardinalityType
<1>6. \A b \in U : Rank(d, b) \in Nat
  BY <1>2, <1>3 DEF DocOK, Rank
<1>7. \A b, c \in U : Rank(d, b) = Rank(d, c) => b = c
  BY <1>2, <1>3 DEF DocOK, Rank
<1> DEFINE Lower(b) == {c \in U : Rank(d, c) < Rank(d, b)}
<1>8. ASSUME NEW b \in U PROVE /\ Position(d, b) = Cardinality(Lower(b)) /\ IsFiniteSet(Lower(b))
                               /\ Position(d, b) \in Nat
  <2>1. Position(d, b) = Cardinality(Lower(b))
    BY <1>1 DEF Position
  <2>2. Lower(b) \in SUBSET U
    OBVIOUS
  <2> HIDE DEF Lower
  <2>3. IsFiniteSet(Lower(b))
    BY <1>4, <2>2, FS_Subset
  <2>4. QED
    BY <2>1, <2>3, FS_CardinalityType
<1>9. ASSUME NEW b \in U PROVE Position(d, b) \in 0..(N - 1)
  <2>1. Lower(b) \in SUBSET U
    OBVIOUS
  <2>2. b \notin Lower(b)
    BY <1>6
  <2> HIDE DEF Lower
  <2>3. Cardinality(Lower(b)) <= N /\ (Cardinality(Lower(b)) = N => Lower(b) = U)
    BY <1>4, <1>5, <2>1, FS_Subset
  <2>4. PICK k \in Nat : k = Position(d, b) /\ k = Cardinality(Lower(b))
    BY <1>8
  <2>5. k <= N /\ k # N
    BY <2>2, <2>3, <2>4
  <2>6. QED
    BY <2>4, <2>5
<1>10. ASSUME NEW b \in U, NEW c \in U, Rank(d, b) < Rank(d, c) PROVE Position(d, b) < Position(d, c)
  <2>1. Lower(b) \in SUBSET Lower(c)
    BY <1>6, <1>10
  <2>2. b \in Lower(c) /\ b \notin Lower(b)
    BY <1>6, <1>10
  <2> HIDE DEF Lower
  <2>3. Cardinality(Lower(b)) <= Cardinality(Lower(c)) /\ (Cardinality(Lower(c)) = Cardinality(Lower(b)) => Lower(c) = Lower(b))
    BY <1>8, <2>1, FS_Subset
  <2>4. PICK k, m \in Nat : k = Cardinality(Lower(b)) /\ m = Cardinality(Lower(c)) /\ Position(d, b) = k /\ Position(d, c) = m
    BY <1>8
  <2>5. k <= m /\ k # m
    BY <2>2, <2>3, <2>4
  <2>6. QED
    BY <2>4, <2>5
<1>11. ASSUME NEW b \in U, NEW c \in U, Position(d, b) = Position(d, c) PROVE b = c
  <2>0. PICK k \in Nat : k = Position(d, b) /\ k = Position(d, c)
    BY <1>8, <1>11
  <2>1. ~(Rank(d, b) < Rank(d, c)) /\ ~(Rank(d, c) < Rank(d, b))
    <3>1. ~(Rank(d, b) < Rank(d, c))
      <4>1. SUFFICES ASSUME Rank(d, b) < Rank(d, c) PROVE FALSE
        OBVIOUS
      <4>2. Position(d, b) < Position(d, c)
        BY <1>10, <4>1, Zenon
      <4>3. k < k
        BY <2>0, <4>2, Zenon
      <4>4. QED
        BY <4>3
    <3>2. ~(Rank(d, c) < Rank(d, b))
      <4>1. SUFFICES ASSUME Rank(d, c) < Rank(d, b) PROVE FALSE
        OBVIOUS
      <4>2. Position(d, c) < Position(d, b)
        BY <1>10, <4>1, Zenon
      <4>3. k < k
        BY <2>0, <4>2, Zenon
      <4>4. QED
        BY <4>3
    <3>3. QED
      BY <3>1, <3>2
  <2>2. Rank(d, b) \in Nat /\ Rank(d, c) \in Nat
    BY <1>6
  <2>3. Rank(d, b) = Rank(d, c)
    BY <2>1, <2>2
  <2>4. QED
    BY <1>7, <2>3
<1>12. ASSUME NEW m \in 0..(N - 1) PROVE \E b \in U : Position(d, b) = m
  <2>1. PICK T : T = 0..(N - 1)
    OBVIOUS
  <2>2. PICK f : f = [b \in U |-> Position(d, b)]
    OBVIOUS
  <2>3. f \in [U -> T]
    BY <1>9, <2>1, <2>2
  <2>4. \A b, c \in U : f[b] = f[c] => b = c
    BY <1>11, <2>2
  <2>5. f \in Injection(U, T)
    BY <2>3, <2>4 DEF Injection, IsInjective
  <2>6. IsFiniteSet(T) /\ Cardinality(T) = N
    <3>1. 0 \in Int /\ N - 1 \in Int
      OBVIOUS
    <3>2. IsFiniteSet(0..(N - 1)) /\ Cardinality(0..(N - 1)) = (IF 0 > N - 1 THEN 0 ELSE (N - 1) - 0 + 1)
      BY <3>1, FS_Interval
    <3>3. (IF 0 > N - 1 THEN 0 ELSE (N - 1) - 0 + 1) = N
      OBVIOUS
    <3>4. QED
      BY <2>1, <3>2, <3>3
  <2>7. f \in Surjection(U, T)
    BY <1>5, <2>5, <2>6, FS_Injection
  <2>8. m \in T
    BY <2>1
  <2>9. \E b \in U : f[b] = m
    BY <2>7, <2>8 DEF Surjection
  <2>10. QED
    BY <2>2, <2>9
<1>13. QED
  BY <1>1, <1>4, <1>5, <1>9, <1>11, <1>12

LEMMA NextPicture ==
    ASSUME NEW d \in Docs, NEW m \in Nat, m < Cardinality(UsedBinaries(d)), NEW id,
           id = CHOOSE b \in UsedBinaries(d) : Position(d, b) = m
    PROVE  /\ id \in UsedBinaries(d)
           /\ FirstPictures(d, m + 1) = FirstPictures(d, m) \union {id}
<1>1. m \in 0..(Cardinality(UsedBinaries(d)) - 1)
  BY PositionFacts
<1>2. \E b \in UsedBinaries(d) : Position(d, b) = m
  BY <1>1, PositionFacts
<1>3. id \in UsedBinaries(d) /\ Position(d, id) = m
  BY <1>2
<1>4. ASSUME NEW b \in UsedBinaries(d) PROVE Position(d, b) < m + 1 <=> (Position(d, b) < m \/ b = id)
  <2>1. PICK k \in Nat : k = Position(d, b)
    BY PositionFacts
  <2>2. k = m => b = id
    BY <1>3, <2>1, PositionFacts
  <2>3. b = id => k = m
    BY <1>3, <2>1
  <2>4. QED
    BY <2>1, <2>2, <2>3
<1>5. QED
  BY <1>3, <1>4 DEF FirstPictures

LEMMA AllPictures ==
    ASSUME NEW d \in Docs, NEW m \in Nat, m >= Cardinality(UsedBinaries(d))
    PROVE  FirstPictures(d, m) = UsedBinaries(d) /\ FirstPictures(d, 0) = {}
<1>1. ASSUME NEW b \in UsedBinaries(d) PROVE Position(d, b) < m /\ ~(Position(d, b) < 0)
  <2>1. PICK N \in Nat : N = Cardinality(UsedBinaries(d))
    BY PositionFacts
  <2>2. Position(d, b) \in 0..(N - 1)
    BY <2>1, PositionFacts
  <2>3. QED
    BY <2>1, <2>2
<1>2. QED
  BY <1>1 DEF FirstPictures
------------------------------------------------------------------------------
(* Contents.                                                               *)

LEMMA FlattenRange ==
    ASSUME NEW S, NEW ss \in Seq(Seq(S))
    PROVE  Range(FlattenSeq(ss)) = UNION {Range(ss[k]) : k \in 1..Len(ss)}
<1>1. PICK n \in Nat : n = Len(ss)
  BY LenProperties
<1>2. \A i \in 1..n : ss[i] \in Seq(S)
  BY <1>1, ElementOfSeq
<1>3. CASE n = 0
  <2>1. ss = <<>>
    BY <1>1, <1>3, EmptySeq
  <2>2. FlattenSeq(ss) = <<>>
    BY <2>1 DEF FlattenSeq
  <2>3. Range(<<>>) = {}
    BY DEF Range
  <2>4. UNION {Range(ss[k]) : k \in 1..Len(ss)} = {}
    BY <1>1, <1>3
  <2>5. QED
    BY <2>2, <2>3, <2>4
<1>4. CASE n # 0
  <2>1. PICK f : Flattens(f, ss, n)
    BY FlattenExists
  <2>2. /\ f[1] = ss[1]
        /\ \A i \in 1..n : i # 1 => f[i] = f[i - 1] \o ss[i]
    <3>1. n >= 1
      BY <1>4
    <3>2. QED
      BY <2>1, <3>1, FlattenAt
  <2> DEFINE U(i) == UNION {Range(ss[k]) : k \in 1..i}
             I == {i \in Nat : i \in 1..n => f[i] \in Seq(S) /\ Range(f[i]) = U(i)}
  <2>3. 0 \in I
    OBVIOUS
  <2>4. ASSUME NEW i \in Nat, i \in I PROVE i + 1 \in I
    <3>1. SUFFICES ASSUME i + 1 \in 1..n PROVE f[i + 1] \in Seq(S) /\ Range(f[i + 1]) = U(i + 1)
      OBVIOUS
    <3>2. CASE i = 0
      <4>1. f[i + 1] = ss[1] /\ ss[1] \in Seq(S)
        BY <1>2, <2>2, <3>1, <3>2
      <4>2. 1..(i + 1) = {1}
        BY <3>2
      <4>3. QED
        BY <4>1, <4>2
    <3>3. CASE i # 0
      <4>1. i \in 1..n /\ i + 1 # 1 /\ (i + 1) - 1 = i
        BY <3>1, <3>3
      <4>2. f[i] \in Seq(S) /\ Range(f[i]) = U(i) /\ ss[i + 1] \in Seq(S)
        BY <1>2, <2>4, <3>1, <4>1
      <4>3. PICK a, t \in Seq(S) : a = f[i] /\ t = ss[i + 1]
        BY <4>2
      <4>4. f[i + 1] = a \o t
        <5>1. f[i + 1] = f[(i + 1) - 1] \o ss[i + 1]
          BY <2>2, <3>1, <4>1
        <5>2. QED
          BY <4>1, <4>3, <5>1
      <4>5. a \o t \in Seq(S) /\ Range(a \o t) = Range(a) \union Range(t)
        BY ConcatProperties, RangeConcatenation
      <4>6. 1..(i + 1) = 1..i \union {i + 1}
        OBVIOUS
      <4>7. U(i + 1) = U(i) \union Range(t)
        BY <4>3, <4>6
      <4>8. QED
        BY <4>2, <4>3, <4>4, <4>5, <4>7
    <3>4. QED
      BY <3>2, <3>3
  <2>5. Nat \subseteq I
    <3> HIDE DEF I
    <3>1. QED
      BY <2>3, <2>4, NatsIn
  <2>6. n \in 1..n
    BY <1>4
  <2>7. Range(f[n]) = U(n)
    BY <2>5, <2>6
  <2>8. FlattenSeq(ss) = f[n]
    BY <1>1, <1>4, <2>1, FlattenLast
  <2>9. QED
    BY <1>1, <2>7, <2>8
<1>5. QED
  BY <1>3, <1>4

\* The blocks of the portions one after another.
Contents(ps) == FlattenSeq([k \in 1..Len(ps) |-> ps[k].blocks])

LEMMA ContentsFacts ==
    ASSUME NEW d \in Docs, NEW ps \in Seq(Ps(d))
    PROVE  /\ [k \in 1..Len(ps) |-> ps[k].blocks] \in Seq(Seq(Bs(d)))
           /\ Len([k \in 1..Len(ps) |-> ps[k].blocks]) = Len(ps)
           /\ Contents(ps) \in Seq(Bs(d))
           /\ Range(Contents(ps)) = UNION {Range(ps[k].blocks) : k \in 1..Len(ps)}
           /\ \A p \in Ps(d) : Contents(Append(ps, p)) = Contents(ps) \o p.blocks
<1>1. PICK n \in Nat : n = Len(ps)
  BY LenProperties
<1>2. PICK ss : ss = [k \in 1..n |-> ps[k].blocks]
  OBVIOUS
<1>3. \A p \in Ps(d) : p.blocks \in Seq(Bs(d))
  BY DEF Ps
<1>4. \A k \in 1..n : ps[k] \in Ps(d)
  BY <1>1, ElementOfSeq
<1>5. ss \in Seq(Seq(Bs(d))) /\ Len(ss) = n
  BY <1>2, <1>3, <1>4
<1>6. Contents(ps) = FlattenSeq(ss)
  BY <1>1, <1>2 DEF Contents
<1>7. Contents(ps) \in Seq(Bs(d))
  BY <1>5, <1>6, FlattenType
<1>8. Range(Contents(ps)) = UNION {Range(ps[k].blocks) : k \in 1..Len(ps)}
  <2>1. Range(FlattenSeq(ss)) = UNION {Range(ss[k]) : k \in 1..Len(ss)}
    BY <1>5, FlattenRange
  <2>2. \A k \in 1..n : ss[k] = ps[k].blocks
    BY <1>2
  <2>3. {Range(ss[k]) : k \in 1..n} = {Range(ps[k].blocks) : k \in 1..n}
    BY <2>2
  <2>4. QED
    BY <1>1, <1>5, <1>6, <2>1, <2>3
<1>9. ASSUME NEW p \in Ps(d) PROVE Contents(Append(ps, p)) = Contents(ps) \o p.blocks
  <2>1. PICK bs \in Seq(Bs(d)) : bs = p.blocks
    BY <1>3
  <2>2. PICK all : all = Append(ps, p)
    OBVIOUS
  <2>3. Len(all) = n + 1 /\ all[n + 1] = p /\ \A k \in 1..n : all[k] = ps[k]
    BY <1>1, <2>2, AppendProperties
  <2>4. PICK tt : tt = [k \in 1..(n + 1) |-> all[k].blocks]
    OBVIOUS
  <2>5. PICK uu : uu = Append(ss, bs)
    OBVIOUS
  <2>6. uu \in Seq(Seq(Bs(d))) /\ Len(uu) = n + 1 /\ uu[n + 1] = bs /\ \A k \in 1..n : uu[k] = ss[k]
    BY <1>5, <2>5, AppendProperties
  <2>7. tt = uu
    <3>1. DOMAIN uu = 1..(n + 1) /\ uu = [k \in 1..(n + 1) |-> uu[k]]
      BY <2>6
    <3>2. ASSUME NEW k \in 1..(n + 1) PROVE all[k].blocks = uu[k]
      <4>1. CASE k = n + 1
        BY <2>1, <2>3, <2>6, <4>1
      <4>2. CASE k # n + 1
        <5>1. k \in 1..n
          BY <4>2
        <5>2. QED
          BY <1>2, <2>3, <2>6, <5>1
      <4>3. QED
        BY <4>1, <4>2
    <3>3. QED
      BY <2>4, <3>1, <3>2
  <2>8. FlattenSeq(uu) = FlattenSeq(ss) \o bs
    BY <1>5, <2>5, FlattenAppend
  <2>9. Contents(all) = FlattenSeq(tt)
    BY <2>3, <2>4 DEF Contents
  <2>10. QED
    BY <1>6, <2>1, <2>2, <2>7, <2>8, <2>9
<1>10. QED
  BY <1>1, <1>2, <1>5, <1>7, <1>8, <1>9
------------------------------------------------------------------------------
(* The invariant.                                                          *)

Travel(d, p) == p.notes = UNION {Cited(p.blocks[j].item, NoteKeys(d)) : j \in 1..Len(p.blocks)}
Void(i) == [index |-> i, blocks |-> <<>>, notes |-> {}]
Met == Range(prepared) \union {r.id : r \in refusals}

PackType ==
  /\ doc \in Docs /\ phase \in {"pictures", "pack", "render", "done"}
  /\ blocks \in {<<>>, Flatten(doc)} /\ next \in Nat \ {0} /\ prepared \in Seq(UsedBinaries(doc))
  /\ portions \in Seq(Ps(doc)) /\ cur \in Ps(doc) /\ curSize \in Nat /\ total \in Nat

\* Nothing is packed before the pictures are done.
Untouched == phase = "pictures" => portions = <<>> /\ cur = Void(0) /\ curSize = 0 /\ total = 0
Walked ==
  /\ phase \in {"pack", "render"} => blocks = Flatten(doc)
  /\ phase = "pack" => next <= Len(blocks) + 1 /\ cur.index < next
\* The binaries met are those that come first.
Looked ==
  /\ phase = "pictures" => next - 1 <= Cardinality(UsedBinaries(doc)) /\ Met = FirstPictures(doc, next - 1)
  /\ phase \in {"pack", "render"} => Met = UsedBinaries(doc)
InOrder ==
  /\ phase = "pack" => Contents(Append(portions, cur)) = SubSeq(blocks, 1, next - 1)
  /\ phase = "render" => Contents(portions) = SubSeq(blocks, 1, Len(blocks))
Travels == Travel(doc, cur) /\ \A k \in 1..Len(portions) : Travel(doc, portions[k])
\* As long as no block was measured alone, the estimate of the current portion
\* is an upper bound of what it renders to.
Fits ==
  ~Measured =>
    /\ \A k \in 1..Len(portions) : ~Overflows(doc, portions[k])
    /\ phase = "pack" => Upper(doc, cur) <= curSize /\ (Len(cur.blocks) > 1 => curSize <= MaxChunk)
Summed == phase = "render" => next - 1 <= Len(portions) /\ total = UpTo(doc, portions, next - 1)
Told == (phase # "done" => outcome = "none") /\ RefusedRightly

PackInv == PackType /\ Untouched /\ Walked /\ Looked /\ InOrder /\ Travels /\ Fits /\ Summed /\ Told

LEMMA VoidFacts ==
    ASSUME NEW d \in Docs, NEW i \in 0..Len(d.items)
    PROVE  /\ Void(i) \in Ps(d) /\ Upper(d, Void(i)) = 0 /\ Travel(d, Void(i)) /\ Rendered(d, Void(i)) = 0
           /\ Void(i).blocks = <<>> /\ Void(i).index = i /\ Void(i).notes = {}
<1>1. Void(i).blocks = <<>> /\ Void(i).index = i /\ Void(i).notes = {}
  BY DEF Void
<1>2. <<>> \in Seq(Bs(d)) /\ Len(<<>>) = 0
  OBVIOUS
<1>3. Void(i) \in Ps(d)
  BY <1>2 DEF Void, Ps
<1>4. Travel(d, Void(i))
  <2>1. 1..Len(<<>>) = {}
    BY <1>2
  <2>2. QED
    BY <1>1, <2>1 DEF Travel
<1>5. Upper(d, Void(i)) = 0
  <2>1. PICK f : f = [k \in 1..Len(<<>>) |-> LongBlock(d, <<>>[k], i)]
    OBVIOUS
  <2>2. PICK g : g = [key \in {} |-> LongNote(d, key, i)]
    OBVIOUS
  <2>3. 1..Len(<<>>) = {}
    BY <1>2
  <2>4. f \in [{} -> Nat] /\ g \in [{} -> Nat]
    BY <2>1, <2>2, <2>3
  <2>5. SumFunction(f) = 0 /\ SumFunction(g) = 0
    BY <2>4, SumNone
  <2>6. LongBlocks(d, <<>>, i) = 0 /\ LongNotes(d, {}, i) = 0
    BY <2>1, <2>2, <2>5 DEF LongBlocks, LongNotes
  <2>7. QED
    BY <1>1, <2>6 DEF Upper
<1>6. Rendered(d, Void(i)) = 0
  <2>1. PICK r, u \in Nat : r = Rendered(d, Void(i)) /\ u = Upper(d, Void(i)) /\ r <= u
    BY <1>3, RenderedFacts
  <2>2. QED
    BY <1>5, <2>1
<1>7. QED
  BY <1>1, <1>3, <1>4, <1>5, <1>6

LEMMA TravelPlaced ==
    ASSUME NEW d \in Docs, NEW p \in Ps(d), NEW b \in Bs(d), Travel(d, p)
    PROVE  Travel(d, Placed(d, p, b))
<1>1. PICK bs \in Seq(Bs(d)) : bs = p.blocks
  BY DEF Ps
<1>2. PICK n \in Nat : n = Len(bs)
  BY LenProperties
<1>3. PICK q : q = Placed(d, p, b)
  OBVIOUS
<1>4. q.blocks = Append(bs, b) /\ q.notes = p.notes \union Cited(b.item, NoteKeys(d))
  BY <1>1, <1>3, PlacedFacts
<1>5. PICK new : new = Append(bs, b)
  OBVIOUS
<1>6. Len(new) = n + 1 /\ new[n + 1] = b /\ \A k \in 1..n : new[k] = bs[k]
  BY <1>2, <1>5, AppendProperties
<1>7. p.notes = UNION {Cited(bs[j].item, NoteKeys(d)) : j \in 1..n}
  BY <1>1, <1>2 DEF Travel
<1>8. 1..(n + 1) = 1..n \union {n + 1}
  OBVIOUS
<1>9. UNION {Cited(new[j].item, NoteKeys(d)) : j \in 1..(n + 1)}
        = (UNION {Cited(bs[j].item, NoteKeys(d)) : j \in 1..n}) \union Cited(b.item, NoteKeys(d))
  <2>1. \A j \in 1..n : Cited(new[j].item, NoteKeys(d)) = Cited(bs[j].item, NoteKeys(d))
    BY <1>6
  <2>2. Cited(new[n + 1].item, NoteKeys(d)) = Cited(b.item, NoteKeys(d))
    BY <1>6
  <2> DEFINE A == UNION {Cited(new[j].item, NoteKeys(d)) : j \in 1..(n + 1)}
             B == UNION {Cited(bs[j].item, NoteKeys(d)) : j \in 1..n}
             C == Cited(b.item, NoteKeys(d))
  <2>3. ASSUME NEW x \in A PROVE x \in B \union C
    <3>1. PICK j \in 1..(n + 1) : x \in Cited(new[j].item, NoteKeys(d))
      OBVIOUS
    <3>2. CASE j = n + 1
      BY <2>2, <3>1, <3>2
    <3>3. CASE j # n + 1
      <4>1. j \in 1..n
        BY <3>3
      <4>2. QED
        BY <2>1, <3>1, <4>1
    <3>4. QED
      BY <3>2, <3>3
  <2>4. ASSUME NEW x \in B PROVE x \in A
    <3>1. PICK j \in 1..n : x \in Cited(bs[j].item, NoteKeys(d))
      OBVIOUS
    <3>2. j \in 1..(n + 1)
      OBVIOUS
    <3>3. QED
      BY <2>1, <3>1, <3>2
  <2>5. C \subseteq A
    <3>1. n + 1 \in 1..(n + 1)
      OBVIOUS
    <3>2. QED
      BY <2>2, <3>1
  <2>6. QED
    <3>1. A = B \union C
      <4> HIDE DEF A, B, C
      <4>1. QED
        BY <2>3, <2>4, <2>5
    <3>2. QED
      BY <3>1, Zenon
<1>10. q.notes = UNION {Cited(new[j].item, NoteKeys(d)) : j \in 1..(n + 1)}
  <2>1. PICK old, more, all : /\ old = UNION {Cited(bs[j].item, NoteKeys(d)) : j \in 1..n}
                              /\ more = Cited(b.item, NoteKeys(d))
                              /\ all = UNION {Cited(new[j].item, NoteKeys(d)) : j \in 1..(n + 1)}
    OBVIOUS
  <2>2. all = old \union more
    BY <1>9, <2>1, Zenon
  <2>3. p.notes = old
    BY <1>7, <2>1, Zenon
  <2>4. q.notes = old \union more
    BY <1>4, <2>1, <2>3, Zenon
  <2>5. QED
    BY <2>1, <2>2, <2>4, Zenon
<1>11. q.blocks = new /\ Len(new) = n + 1
  BY <1>4, <1>5, <1>6
<1>12. QED
  BY <1>3, <1>10, <1>11 DEF Travel

\* What a block costs is what the draft says, unless it is measured alone; and
\* only a block that is too large in a portion of its own costs too much.
LEMMA CostFacts ==
    ASSUME NEW d \in Docs, NEW b \in Bs(d), NEW i \in 0..Len(d.items), NEW keys \in SUBSET NoteKeys(d)
    PROVE  /\ Cost(d, b, keys, i) \in Nat
           /\ Cost(d, b, keys, i) > MaxPortion => Rendered(d, Alone(d, b, i)) > MaxPortion
           /\ Draft(d, b, Cited(b.item, NoteKeys(d)), i) <= MaxPortion
                => Cost(d, b, keys, i) = Draft(d, b, Cited(b.item, NoteKeys(d)) \ keys, i)
<1>1. PICK cited \in SUBSET NoteKeys(d) : cited = Cited(b.item, NoteKeys(d))
  BY CitedIs
<1>2. PICK pulled \in SUBSET NoteKeys(d) : pulled = cited \ keys
  OBVIOUS
<1>3. PICK p : p = [index |-> i, blocks |-> <<b>>, notes |-> pulled]
  OBVIOUS
<1>4. p \in Ps(d) /\ Alone(d, b, i) \in Ps(d)
  <2>1. <<b>> \in Seq(Bs(d))
    OBVIOUS
  <2>2. QED
    BY <1>1, <1>3, <2>1 DEF Ps, Alone
<1>5. PICK r, a \in Nat : r = Rendered(d, p) /\ a = Rendered(d, Alone(d, b, i))
  BY <1>4, RenderedFacts
<1>6. r <= a
  <2>1. pulled \in SUBSET Cited(b.item, NoteKeys(d))
    BY <1>1, <1>2
  <2>2. QED
    BY <1>3, <1>5, <2>1, AloneAbove
<1>7. PICK long, x, y, z \in Nat : /\ long = LongBlock(d, b, i) /\ x = LongNotes(d, pulled, i)
                                   /\ y = LongNotes(d, cited \intersect keys, i) /\ z = LongNotes(d, cited, i)
  <2>1. cited \intersect keys \in SUBSET NoteKeys(d)
    OBVIOUS
  <2>2. QED
    BY <2>1, LongType
<1>8. z = x + y
  <2>1. Splits(cited, pulled, cited \intersect keys)
    BY <1>2 DEF Splits
  <2>2. QED
    BY <1>7, <2>1, LongNotesParts
<1>9. Draft(d, b, pulled, i) = long + x /\ Draft(d, b, cited, i) = long + z
  BY <1>7, DraftIs
<1>10. Cost(d, b, keys, i) = IF Draft(d, b, pulled, i) <= MaxPortion THEN Draft(d, b, pulled, i) ELSE Rendered(d, p)
  BY <1>1, <1>2, <1>3 DEF Cost
<1>11. MaxPortion \in Nat
  BY PolicyAssumption
<1>12. Cost(d, b, keys, i) \in Nat
  BY <1>5, <1>9, <1>10
<1>13. Cost(d, b, keys, i) > MaxPortion => a > MaxPortion
  BY <1>5, <1>6, <1>9, <1>10, <1>11
<1>14. Draft(d, b, cited, i) <= MaxPortion => Cost(d, b, keys, i) = Draft(d, b, pulled, i)
  BY <1>8, <1>9, <1>10, <1>11
<1>15. QED
  BY <1>1, <1>2, <1>5, <1>12, <1>13, <1>14

LEMMA SubSeqNext ==
    ASSUME NEW S, NEW s \in Seq(S), NEW n \in 1..Len(s)
    PROVE  SubSeq(s, 1, n) = Append(SubSeq(s, 1, n - 1), s[n])
<1>1. PICK l \in Nat : l = Len(s)
  BY LenProperties
<1>2. PICK a : a = SubSeq(s, 1, n)
  OBVIOUS
<1>3. PICK c : c = SubSeq(s, 1, n - 1)
  OBVIOUS
<1>4. a \in Seq(S) /\ Len(a) = n /\ \A k \in 1..n : a[k] = s[k]
  BY <1>1, <1>2
<1>5. c \in Seq(S) /\ Len(c) = n - 1 /\ \A k \in 1..(n - 1) : c[k] = s[k]
  BY <1>1, <1>3
<1>6. s[n] \in S
  BY ElementOfSeq
<1>7. PICK e : e = Append(c, s[n])
  OBVIOUS
<1>8. e \in Seq(S) /\ Len(e) = n /\ e[n] = s[n] /\ \A k \in 1..(n - 1) : e[k] = c[k]
  BY <1>5, <1>6, <1>7, AppendProperties
<1>9. \A k \in 1..n : a[k] = e[k]
  BY <1>4, <1>5, <1>8
<1>10. a = e
  BY <1>4, <1>8, <1>9
<1>11. QED
  BY <1>2, <1>3, <1>7, <1>10

LEMMA AppendConcat ==
    ASSUME NEW S, NEW s \in Seq(S), NEW t \in Seq(S), NEW x \in S
    PROVE  s \o Append(t, x) = Append(s \o t, x)
OBVIOUS

\* A refusal ends the build and leaves what it has as it is.
LEMMA RefuseKeeps ==
    ASSUME PackInv, NEW why, Refuse(why), RefusedRightly'
    PROVE  PackInv'
<1> USE DEF PackInv
<1>1. PackType' /\ Travels'
  BY DEF PackType, Travels, Refuse
<1>2. phase' = "done"
  BY DEF Refuse
<1>3. Untouched' /\ Walked' /\ Looked' /\ InOrder' /\ Summed'
  BY <1>2 DEF Untouched, Walked, Looked, InOrder, Summed
<1>4. Fits'
  <2>1. doc' = doc /\ portions' = portions /\ blocks' = blocks
    BY DEF Refuse
  <2>2. Measured' <=> Measured
    BY <2>1 DEF Measured
  <2>3. \A k \in 1..Len(portions) : Overflows(doc, portions[k])' <=> Overflows(doc, portions[k])
    BY <2>1 DEF Overflows
  <2>4. QED
    BY <1>2, <2>1, <2>2 DEF Fits
<1>5. Told'
  BY <1>2 DEF Told
<1>6. QED
  BY <1>1, <1>3, <1>4, <1>5

\* A portion the next block can go into: the current one, or the one after it.
Ready(p, size, closed) ==
  /\ \/ p = cur /\ size = curSize /\ closed = portions
     \/ p = Fresh /\ size = 0 /\ closed = Append(portions, cur)
  /\ p \in Ps(doc) /\ size \in Nat /\ closed \in Seq(Ps(doc)) /\ p.index <= next
  /\ Travel(doc, p) /\ \A k \in 1..Len(closed) : Travel(doc, closed[k])
  /\ Contents(closed) \o p.blocks = SubSeq(blocks, 1, next - 1)
  /\ ~Measured =>
       /\ \A k \in 1..Len(closed) : ~Overflows(doc, closed[k])
       /\ Upper(doc, p) <= size
       /\ p.blocks # <<>> => size + Cost(doc, blocks[next], p.notes, p.index) <= MaxChunk

LEMMA PackingFacts ==
    ASSUME PackInv, phase = "pack", next <= Len(blocks)
    PROVE  /\ doc \in Docs /\ blocks = Flatten(doc) /\ blocks \in Seq(Bs(doc)) /\ Len(blocks) = Len(doc.items)
           /\ next \in 1..Len(blocks) /\ blocks[next] \in Bs(doc) /\ Len(doc.items) \in Nat
           /\ cur \in Ps(doc) /\ portions \in Seq(Ps(doc)) /\ cur.index \in 0..(next - 1)
           /\ curSize \in Nat /\ total \in Nat
<1>1. PackType /\ Walked
  BY DEF PackInv
<1>2. doc \in Docs /\ cur \in Ps(doc) /\ portions \in Seq(Ps(doc)) /\ curSize \in Nat /\ total \in Nat /\ next \in Nat \ {0}
  BY <1>1 DEF PackType
<1>3. blocks = Flatten(doc) /\ cur.index < next
  BY <1>1 DEF Walked
<1>4. blocks \in Seq(Bs(doc)) /\ Len(blocks) = Len(doc.items)
  BY <1>2, <1>3, FlattenFacts
<1>5. Len(doc.items) \in Nat
  BY <1>2, DocFacts
<1>6. next \in 1..Len(blocks)
  BY <1>2, <1>4, <1>5
<1>7. blocks[next] \in Bs(doc)
  BY <1>4, <1>6, ElementOfSeq
<1>8. cur.index \in 0..Len(doc.items)
  BY <1>2 DEF Ps
<1>9. cur.index \in 0..(next - 1)
  BY <1>2, <1>3, <1>8
<1>10. QED
  BY <1>2, <1>3, <1>4, <1>5, <1>6, <1>7, <1>9

\* Without a block that was measured alone, what a block costs is its draft.
LEMMA Drafted ==
    ASSUME PackInv, phase = "pack", next <= Len(blocks), ~Measured, NEW p \in Ps(doc)
    PROVE  Cost(doc, blocks[next], p.notes, p.index)
             = Draft(doc, blocks[next], Cited(blocks[next].item, NoteKeys(doc)) \ p.notes, p.index)
<1>1. PICK b \in Bs(doc) : b = blocks[next]
  BY PackingFacts
<1>2. PICK i \in 0..Len(doc.items) : i = p.index
  BY DEF Ps
<1>3. PICK keys \in SUBSET NoteKeys(doc) : keys = p.notes
  BY DEF Ps
<1>4. doc \in Docs /\ next \in 1..Len(blocks) /\ i \in 0..Len(blocks)
  BY PackingFacts
<1>5. ~(Draft(doc, b, Cited(b.item, NoteKeys(doc)), i) > MaxPortion)
  BY <1>1, <1>4 DEF Measured
<1>6. Draft(doc, b, Cited(b.item, NoteKeys(doc)), i) \in Nat
  <2>1. PICK cited \in SUBSET NoteKeys(doc) : cited = Cited(b.item, NoteKeys(doc))
    BY <1>4, CitedIs
  <2>2. LongBlock(doc, b, i) \in Nat /\ LongNotes(doc, cited, i) \in Nat
    BY <1>4, LongType
  <2>3. Draft(doc, b, cited, i) = LongBlock(doc, b, i) + LongNotes(doc, cited, i)
    BY <1>4, DraftIs
  <2>4. QED
    BY <2>1, <2>2, <2>3
<1>7. MaxPortion \in Nat
  BY PolicyAssumption
<1>8. Draft(doc, b, Cited(b.item, NoteKeys(doc)), i) <= MaxPortion
  BY <1>5, <1>6, <1>7
<1>9. QED
  BY <1>1, <1>2, <1>3, <1>4, <1>8, CostFacts

\* A block that is refused in a portion is too large in one of its own.
LEMMA TooLarge ==
    ASSUME PackInv, phase = "pack", next <= Len(blocks), NEW p \in Ps(doc),
           Cost(doc, blocks[next], p.notes, p.index) > MaxPortion, Refuse("block too large")
    PROVE  RefusedRightly'
<1>1. PICK b \in Bs(doc) : b = blocks[next]
  BY PackingFacts
<1>2. PICK i \in 0..Len(doc.items) : i = p.index
  BY DEF Ps
<1>3. PICK keys \in SUBSET NoteKeys(doc) : keys = p.notes
  BY DEF Ps
<1>4. doc \in Docs /\ next \in 1..Len(blocks) /\ i \in 0..Len(blocks)
  BY PackingFacts
<1>5. Rendered(doc, Alone(doc, b, i)) > MaxPortion
  BY <1>1, <1>2, <1>3, <1>4, CostFacts
<1>6. outcome' = "block too large" /\ doc' = doc /\ blocks' = blocks
  BY DEF Refuse
<1>7. \E k \in 1..Len(blocks), j \in 0..Len(blocks) : Rendered(doc, Alone(doc, blocks[k], j)) > MaxPortion
  BY <1>1, <1>4, <1>5
<1>8. QED
  BY <1>6, <1>7 DEF RefusedRightly

LEMMA FilledFits ==
    ASSUME PackInv, phase = "pack", next <= Len(blocks), ~Measured, NEW p, NEW size, NEW closed, Ready(p, size, closed)
    PROVE  /\ Upper(doc, Placed(doc, p, blocks[next])) <= size + Cost(doc, blocks[next], p.notes, p.index)
           /\ Len(Placed(doc, p, blocks[next]).blocks) > 1 => size + Cost(doc, blocks[next], p.notes, p.index) <= MaxChunk
           /\ ~Overflows(doc, Placed(doc, p, blocks[next]))
<1>1. PICK b \in Bs(doc) : b = blocks[next]
  BY PackingFacts
<1>2. doc \in Docs
  BY PackingFacts
<1>3. p \in Ps(doc) /\ size \in Nat
  BY DEF Ready
<1>4. PICK i \in 0..Len(doc.items) : i = p.index
  BY <1>3 DEF Ps
<1>5. PICK keys \in SUBSET NoteKeys(doc) : keys = p.notes
  BY <1>3 DEF Ps
<1>6. PICK bs \in Seq(Bs(doc)) : bs = p.blocks
  BY <1>3 DEF Ps
<1>7. PICK cost \in Nat : cost = Cost(doc, b, keys, i)
  BY <1>2, CostFacts
<1>8. cost = Draft(doc, b, Cited(b.item, NoteKeys(doc)) \ keys, i)
  BY <1>1, <1>3, <1>4, <1>5, <1>7, Drafted
<1>9. PICK q \in Ps(doc) : q = Placed(doc, p, b)
  BY <1>2, <1>3, PlacedFacts
<1>10. Len(q.blocks) = Len(bs) + 1
  BY <1>2, <1>3, <1>6, <1>9, PlacedFacts
<1>11. Upper(doc, q) = Upper(doc, p) + cost
  BY <1>2, <1>3, <1>4, <1>5, <1>8, <1>9, UpperPlaced
<1>12. PICK u, v, r \in Nat : u = Upper(doc, p) /\ v = Upper(doc, q) /\ r = Rendered(doc, q) /\ r <= v
  BY <1>2, <1>3, <1>9, RenderedFacts
<1>13. u <= size /\ (bs # <<>> => size + cost <= MaxChunk)
  BY <1>1, <1>4, <1>5, <1>6, <1>7, <1>12 DEF Ready
<1>14. v <= size + cost
  BY <1>3, <1>7, <1>11, <1>12, <1>13
<1>15. Len(q.blocks) > 1 => size + cost <= MaxChunk
  <2>1. Len(q.blocks) > 1 => bs # <<>>
    <3>1. bs = <<>> => Len(bs) = 0
      OBVIOUS
    <3>2. QED
      BY <1>10, <3>1
  <2>2. QED
    BY <1>13, <2>1
<1>16. ~Overflows(doc, q)
  <2>1. SUFFICES ASSUME r > MaxChunk, Len(q.blocks) > 1 PROVE FALSE
    BY <1>12 DEF Overflows
  <2>2. MaxChunk \in Nat
    BY PolicyAssumption
  <2>3. QED
    BY <1>3, <1>7, <1>12, <1>14, <1>15, <2>1, <2>2
<1>17. QED
  BY <1>1, <1>4, <1>5, <1>7, <1>9, <1>12, <1>14, <1>15, <1>16

\* The block is refused because a portion overflows: then some block was
\* measured alone.
LEMMA OverflowTold ==
    ASSUME PackInv, phase = "pack", next <= Len(blocks), NEW p, NEW size, NEW closed, Ready(p, size, closed),
           Overflows(doc, Placed(doc, p, blocks[next])) \/ \E k \in 1..Len(closed) : Overflows(doc, closed[k]),
           Refuse("overflow")
    PROVE  RefusedRightly'
<1>1. Measured
  <2>1. SUFFICES ASSUME ~Measured PROVE FALSE
    OBVIOUS
  <2>2. ~Overflows(doc, Placed(doc, p, blocks[next]))
    BY <2>1, FilledFits
  <2>3. \A k \in 1..Len(closed) : ~Overflows(doc, closed[k])
    BY <2>1 DEF Ready
  <2>4. QED
    BY <2>2, <2>3
<1>2. outcome' = "overflow" /\ doc' = doc /\ blocks' = blocks
  BY DEF Refuse
<1>3. Measured'
  BY <1>1, <1>2 DEF Measured
<1>4. QED
  BY <1>2, <1>3 DEF RefusedRightly

\* The block is refused because the book is too large: with it in its place the
\* portions are.
LEMMA BookTold ==
    ASSUME PackInv, phase = "pack", next <= Len(blocks), NEW p, NEW size, NEW closed, Ready(p, size, closed),
           Bytes(doc, closed) + Rendered(doc, Placed(doc, p, blocks[next])) > MaxTotal,
           Refuse("book too large")
    PROVE  RefusedRightly'
<1>1. PICK b \in Bs(doc) : b = blocks[next]
  BY PackingFacts
<1>2. doc \in Docs /\ next \in 1..Len(blocks)
  BY PackingFacts
<1>3. p \in Ps(doc) /\ closed \in Seq(Ps(doc))
  BY DEF Ready
<1>4. PICK q \in Ps(doc) : q = Placed(doc, p, b)
  BY <1>2, <1>3, PlacedFacts
<1>5. PICK ps : ps = Append(closed, q)
  OBVIOUS
<1>6. Bytes(doc, ps) = Bytes(doc, closed) + Rendered(doc, q)
  BY <1>2, <1>3, <1>4, <1>5, BytesAppend
<1>7. Bytes(doc, ps) > MaxTotal
  BY <1>1, <1>4, <1>6
<1>8. /\ phase' = "done" /\ outcome' = "book too large" /\ doc' = doc /\ blocks' = blocks
      /\ next' = next /\ portions' = portions /\ cur' = cur
  BY DEF Refuse
<1>9. Offered' = {Append(portions, Placed(doc, cur, blocks[next])),
                  Append(Append(portions, cur), Placed(doc, Fresh, blocks[next]))}
  <2>1. Fresh' = Fresh
    BY <1>8 DEF Fresh
  <2>2. Placed(doc', cur', blocks'[next']) = Placed(doc, cur, blocks[next])
    BY <1>8
  <2>3. Placed(doc', Fresh', blocks'[next']) = Placed(doc, Fresh, blocks[next])
    BY <1>8, <2>1
  <2>4. QED
    BY <1>2, <1>8, <2>2, <2>3 DEF Offered
<1>10. ps \in Offered'
  <2>1. CASE p = cur /\ closed = portions
    BY <1>1, <1>4, <1>5, <1>9, <2>1
  <2>2. CASE p = Fresh /\ closed = Append(portions, cur)
    BY <1>1, <1>4, <1>5, <1>9, <2>2
  <2>3. QED
    BY <2>1, <2>2 DEF Ready
<1>11. Bytes(doc, ps)' = Bytes(doc, ps)
  BY <1>8
<1>12. QED
  BY <1>7, <1>8, <1>10 DEF RefusedRightly

\* What a successful placement leaves.
Placement(p, size, closed) ==
  /\ portions' = closed /\ cur' = Placed(doc, p, blocks[next])
  /\ curSize' = size + Cost(doc, blocks[next], p.notes, p.index)
  /\ next' = next + 1
  /\ UNCHANGED <<doc, phase, blocks, prepared, refusals, outcome>>

LEMMA PlacementInOrder ==
    ASSUME PackInv, phase = "pack", next <= Len(blocks), NEW p, NEW size, NEW closed, Ready(p, size, closed)
    PROVE  Contents(Append(closed, Placed(doc, p, blocks[next]))) = SubSeq(blocks, 1, next)
<1>1. PICK b \in Bs(doc) : b = blocks[next]
  BY PackingFacts
<1>2. doc \in Docs /\ next \in 1..Len(blocks) /\ blocks \in Seq(Bs(doc))
  BY PackingFacts
<1>3. p \in Ps(doc) /\ closed \in Seq(Ps(doc))
  BY DEF Ready
<1>4. PICK bs \in Seq(Bs(doc)) : bs = p.blocks
  BY <1>3 DEF Ps
<1>5. PICK q \in Ps(doc) : q = Placed(doc, p, b) /\ q.blocks = Append(bs, b)
  BY <1>2, <1>3, <1>4, PlacedFacts
<1>6. PICK t \in Seq(Bs(doc)) : t = Contents(closed)
  BY <1>2, <1>3, ContentsFacts
<1>7. Contents(Append(closed, q)) = t \o Append(bs, b)
  BY <1>2, <1>3, <1>5, <1>6, ContentsFacts
<1>8. t \o Append(bs, b) = Append(t \o bs, b)
  BY AppendConcat
<1>9. t \o bs = SubSeq(blocks, 1, next - 1)
  BY <1>4, <1>6 DEF Ready
<1>10. SubSeq(blocks, 1, next) = Append(SubSeq(blocks, 1, next - 1), b)
  BY <1>1, <1>2, SubSeqNext
<1>11. QED
  BY <1>1, <1>5, <1>7, <1>8, <1>9, <1>10

LEMMA PlacementKeeps ==
    ASSUME PackInv, phase = "pack", next <= Len(blocks), NEW p, NEW size, NEW closed, Ready(p, size, closed),
           Placement(p, size, closed), total' \in Nat
    PROVE  PackInv'
<1>1. PICK b \in Bs(doc) : b = blocks[next]
  BY PackingFacts
<1>2. /\ doc \in Docs /\ next \in 1..Len(blocks) /\ blocks \in Seq(Bs(doc)) /\ blocks = Flatten(doc)
      /\ Len(blocks) \in Nat
  BY PackingFacts
<1>3. p \in Ps(doc) /\ closed \in Seq(Ps(doc)) /\ size \in Nat /\ p.index <= next
  BY DEF Ready
<1>4. PICK q \in Ps(doc) : q = Placed(doc, p, b) /\ q.index = p.index
  BY <1>2, <1>3, PlacedFacts
<1>5. PICK cost \in Nat : cost = Cost(doc, b, p.notes, p.index)
  <2>1. p.notes \in SUBSET NoteKeys(doc) /\ p.index \in 0..Len(doc.items)
    BY <1>3 DEF Ps
  <2>2. QED
    BY <1>2, <2>1, CostFacts
<1>6. /\ portions' = closed /\ cur' = q /\ curSize' = size + cost /\ next' = next + 1
      /\ doc' = doc /\ phase' = "pack" /\ blocks' = blocks /\ prepared' = prepared /\ refusals' = refusals
      /\ outcome' = outcome
  BY <1>1, <1>4, <1>5 DEF Placement
<1>7. PackType /\ Looked /\ Told
  BY DEF PackInv
<1>8. PackType'
  <2>1. prepared \in Seq(UsedBinaries(doc)) /\ next \in Nat \ {0}
    BY <1>7 DEF PackType
  <2>2. next + 1 \in Nat \ {0} /\ size + cost \in Nat
    BY <1>3, <2>1
  <2>3. doc' \in Docs /\ phase' \in {"pictures", "pack", "render", "done"} /\ blocks' \in {<<>>, Flatten(doc)}'
    BY <1>2, <1>6
  <2>4. (portions \in Seq(Ps(doc)))' /\ (cur \in Ps(doc))' /\ (prepared \in Seq(UsedBinaries(doc)))'
    BY <1>3, <1>6, <2>1
  <2>5. QED
    BY <1>6, <2>2, <2>3, <2>4 DEF PackType
<1>9. Untouched' /\ Summed'
  BY <1>6 DEF Untouched, Summed
<1>10. Walked'
  <2>1. q.index < next + 1 /\ next + 1 <= Len(blocks) + 1
    <3>1. p.index \in Nat
      BY <1>3 DEF Ps
    <3>2. QED
      BY <1>2, <1>3, <1>4, <3>1
  <2>2. QED
    BY <1>2, <1>6, <2>1 DEF Walked
<1>11. Looked'
  <2>1. Met' = Met
    BY <1>6 DEF Met
  <2>2. Met = UsedBinaries(doc)
    BY <1>7 DEF Looked
  <2>3. QED
    BY <1>6, <2>1, <2>2 DEF Looked
<1>12. InOrder'
  <2>1. Contents(Append(closed, q)) = SubSeq(blocks, 1, next)
    BY <1>1, <1>4, PlacementInOrder
  <2>2. next' - 1 = next
    BY <1>2, <1>6
  <2>3. Contents(Append(portions', cur')) = SubSeq(blocks', 1, next' - 1)
    BY <1>6, <2>1, <2>2
  <2>4. QED
    BY <1>6, <2>3 DEF InOrder
<1>13. Travels'
  <2>1. Travel(doc, p) /\ \A k \in 1..Len(closed) : Travel(doc, closed[k])
    BY DEF Ready
  <2>2. Travel(doc, q)
    BY <1>2, <1>3, <1>4, <2>1, TravelPlaced
  <2>3. QED
    BY <1>6, <2>1, <2>2 DEF Travels
<1>14. Fits'
  <2>1. SUFFICES ASSUME ~Measured
        PROVE  /\ \A k \in 1..Len(closed) : ~Overflows(doc, closed[k])
               /\ Upper(doc, q) <= size + cost /\ (Len(q.blocks) > 1 => size + cost <= MaxChunk)
    <3>1. Measured' <=> Measured
      BY <1>6 DEF Measured
    <3>2. QED
      BY <1>6, <3>1 DEF Fits
  <2>2. \A k \in 1..Len(closed) : ~Overflows(doc, closed[k])
    BY <2>1 DEF Ready
  <2>3. Upper(doc, q) <= size + cost /\ (Len(q.blocks) > 1 => size + cost <= MaxChunk)
    BY <1>1, <1>4, <1>5, <2>1, FilledFits
  <2>4. QED
    BY <2>2, <2>3
<1>15. Told'
  <2>1. outcome' = "none"
    BY <1>6, <1>7 DEF Told
  <2>2. QED
    BY <2>1 DEF Told, RefusedRightly
<1>16. QED
  BY <1>8, <1>9, <1>10, <1>11, <1>12, <1>13, <1>14, <1>15 DEF PackInv

LEMMA PlaceKeeps ==
    ASSUME PackInv, phase = "pack", next <= Len(blocks), NEW p, NEW size, NEW closed, Ready(p, size, closed),
           Place(blocks[next], p, size, closed)
    PROVE  PackInv'
<1> DEFINE cost == Cost(doc, blocks[next], p.notes, p.index)
           filled == Placed(doc, p, blocks[next])
           measured == Bytes(doc, closed) + Rendered(doc, filled)
           over == total + cost > MaxTotal
           failed == over /\ (Overflows(doc, filled) \/ \E k \in 1..Len(closed) : Overflows(doc, closed[k]))
<1>1. IF cost > MaxPortion THEN Refuse("block too large")
      ELSE IF failed THEN Refuse("overflow")
      ELSE IF over /\ measured > MaxTotal THEN Refuse("book too large")
      ELSE Placement(p, size, closed) /\ total' = IF over THEN measured ELSE total + cost
  BY DEF Place, Placement
<1>2. p \in Ps(doc) /\ closed \in Seq(Ps(doc))
  BY DEF Ready
<1>3. doc \in Docs /\ total \in Nat /\ blocks[next] \in Bs(doc)
  BY PackingFacts
<1>4. cost \in Nat
  <2>1. p.notes \in SUBSET NoteKeys(doc) /\ p.index \in 0..Len(doc.items)
    BY <1>2 DEF Ps
  <2>2. QED
    BY <1>3, <2>1, CostFacts
<1>5. measured \in Nat
  <2>1. filled \in Ps(doc)
    BY <1>2, <1>3, PlacedFacts
  <2>2. Rendered(doc, filled) \in Nat
    BY <1>3, <2>1, RenderedFacts
  <2>3. 0 \in 0..Len(closed)
    BY <1>2, LenProperties
  <2>4. Bytes(doc, closed) \in Nat
    BY <1>2, <1>3, <2>3, UpToFacts
  <2>5. QED
    BY <2>2, <2>4
<1>6. CASE cost > MaxPortion
  <2>1. Refuse("block too large")
    BY <1>1, <1>6
  <2>2. QED
    BY <1>2, <1>6, <2>1, TooLarge, RefuseKeeps
<1>7. CASE ~(cost > MaxPortion) /\ failed
  <2>1. Refuse("overflow")
    BY <1>1, <1>7
  <2>2. QED
    BY <1>7, <2>1, OverflowTold, RefuseKeeps
<1>8. CASE ~(cost > MaxPortion) /\ ~failed /\ over /\ measured > MaxTotal
  <2>1. Refuse("book too large")
    BY <1>1, <1>8
  <2>2. QED
    BY <1>8, <2>1, BookTold, RefuseKeeps
<1>9. CASE ~(cost > MaxPortion) /\ ~failed /\ ~(over /\ measured > MaxTotal)
  <2>1. Placement(p, size, closed) /\ total' = IF over THEN measured ELSE total + cost
    BY <1>1, <1>9
  <2> HIDE DEF cost, measured, over
  <2>2. total' \in Nat
    BY <1>3, <1>4, <1>5, <2>1
  <2>3. QED
    BY <2>1, <2>2, PlacementKeeps
<1>10. QED
  BY <1>6, <1>7, <1>8, <1>9

LEMMA PackBlockKeeps == ASSUME PackInv, PackBlock PROVE PackInv'
<1>1. phase = "pack" /\ next <= Len(blocks)
  BY DEF PackBlock
<1> DEFINE cost == Cost(doc, blocks[next], cur.notes, cur.index)
<1>2. IF cost > MaxPortion THEN Refuse("block too large")
      ELSE IF curSize + cost > MaxChunk /\ cur.blocks # <<>>
      THEN Place(blocks[next], Fresh, 0, Append(portions, cur))
      ELSE Place(blocks[next], cur, curSize, portions)
  BY DEF PackBlock
<1>3. /\ doc \in Docs /\ cur \in Ps(doc) /\ portions \in Seq(Ps(doc)) /\ curSize \in Nat
      /\ next \in 1..Len(blocks) /\ Len(blocks) = Len(doc.items) /\ Len(blocks) \in Nat
      /\ cur.index \in 0..(next - 1) /\ blocks \in Seq(Bs(doc)) /\ blocks[next] \in Bs(doc)
  BY <1>1, PackingFacts
<1>4. InOrder /\ Travels /\ Fits
  BY DEF PackInv
<1>5. Contents(Append(portions, cur)) = SubSeq(blocks, 1, next - 1)
  BY <1>1, <1>4 DEF InOrder
<1>6. cost \in Nat /\ MaxChunk \in Nat
  <2>1. cur.notes \in SUBSET NoteKeys(doc) /\ cur.index \in 0..Len(doc.items)
    BY <1>3 DEF Ps
  <2>2. QED
    BY <1>3, <2>1, CostFacts, PolicyAssumption
<1>7. CASE cost > MaxPortion
  <2>1. Refuse("block too large")
    BY <1>2, <1>7
  <2>2. QED
    BY <1>1, <1>3, <1>7, <2>1, TooLarge, RefuseKeeps
<1>8. CASE ~(cost > MaxPortion) /\ ~(curSize + cost > MaxChunk /\ cur.blocks # <<>>)
  <2>1. Place(blocks[next], cur, curSize, portions)
    BY <1>2, <1>8
  <2>2. cur.index <= next
    BY <1>3
  <2>3. Travel(doc, cur) /\ \A k \in 1..Len(portions) : Travel(doc, portions[k])
    BY <1>4 DEF Travels
  <2>4. Contents(portions) \o cur.blocks = SubSeq(blocks, 1, next - 1)
    BY <1>3, <1>5, ContentsFacts
  <2>5. ~Measured =>
          /\ \A k \in 1..Len(portions) : ~Overflows(doc, portions[k])
          /\ Upper(doc, cur) <= curSize
    BY <1>1, <1>4 DEF Fits
  <2>6. cur.blocks # <<>> => curSize + cost <= MaxChunk
    <3> HIDE DEF cost
    <3>1. QED
      BY <1>3, <1>6, <1>8
  <2>7. Ready(cur, curSize, portions)
    BY <1>3, <2>2, <2>3, <2>4, <2>5, <2>6 DEF Ready
  <2>8. QED
    BY <1>1, <2>1, <2>7, PlaceKeeps
<1>9. CASE ~(cost > MaxPortion) /\ curSize + cost > MaxChunk /\ cur.blocks # <<>>
  <2>1. Place(blocks[next], Fresh, 0, Append(portions, cur))
    BY <1>2, <1>9
  <2>2. PICK i \in 0..Len(doc.items) : i = cur.index + 1 /\ i <= next
    BY <1>3
  <2>3. Fresh = Void(i)
    BY <2>2 DEF Fresh, Void
  <2>4. PICK closed \in Seq(Ps(doc)) : closed = Append(portions, cur)
    BY <1>3, AppendProperties
  <2>5. PICK n \in Nat : n = Len(portions)
    BY <1>3, LenProperties
  <2>6. Len(closed) = n + 1 /\ closed[n + 1] = cur /\ \A k \in 1..n : closed[k] = portions[k]
    BY <1>3, <2>4, <2>5, AppendProperties
  <2>7. \A k \in 1..(n + 1) : k = n + 1 \/ k \in 1..n
    BY <2>5
  <2>8. \A k \in 1..Len(closed) : Travel(doc, closed[k])
    <3>1. Travel(doc, cur) /\ \A k \in 1..n : Travel(doc, portions[k])
      BY <1>4, <2>5 DEF Travels
    <3>2. QED
      BY <2>6, <2>7, <3>1
  <2>9. Contents(closed) \o <<>> = SubSeq(blocks, 1, next - 1)
    <3>1. PICK t \in Seq(Bs(doc)) : t = Contents(closed)
      BY <1>3, <2>4, ContentsFacts
    <3>2. t \o <<>> = t
      OBVIOUS
    <3>3. QED
      BY <1>5, <2>4, <3>1, <3>2
  <2>10. ~Measured => \A k \in 1..Len(closed) : ~Overflows(doc, closed[k])
    <3>1. SUFFICES ASSUME ~Measured PROVE \A k \in 1..Len(closed) : ~Overflows(doc, closed[k])
      OBVIOUS
    <3>2. \A k \in 1..n : ~Overflows(doc, portions[k])
      BY <1>4, <2>5, <3>1 DEF Fits
    <3>3. ~Overflows(doc, cur)
      <4>1. Upper(doc, cur) <= curSize /\ (Len(cur.blocks) > 1 => curSize <= MaxChunk)
        BY <1>1, <1>4, <3>1 DEF Fits
      <4>2. PICK r, u \in Nat : r = Rendered(doc, cur) /\ u = Upper(doc, cur) /\ r <= u
        BY <1>3, RenderedFacts
      <4>3. ~(r > MaxChunk /\ Len(cur.blocks) > 1)
        BY <1>3, <1>6, <4>1, <4>2
      <4>4. QED
        BY <4>2, <4>3 DEF Overflows
    <3>4. QED
      BY <2>6, <2>7, <3>2, <3>3
  <2>11. /\ Void(i) \in Ps(doc) /\ Upper(doc, Void(i)) = 0 /\ Travel(doc, Void(i))
         /\ Void(i).blocks = <<>> /\ Void(i).index = i
    BY <1>3, VoidFacts
  <2>12. ~Measured => Upper(doc, Void(i)) <= 0
    BY <2>11
  <2>13. Ready(Fresh, 0, closed)
    BY <2>2, <2>3, <2>4, <2>8, <2>9, <2>10, <2>11, <2>12 DEF Ready
  <2>14. QED
    BY <1>1, <2>1, <2>4, <2>13, PlaceKeeps
<1>10. QED
  BY <1>7, <1>8, <1>9

LEMMA PackInvInit == PackInit => PackInv
<1> SUFFICES ASSUME PackInit PROVE PackInv
  OBVIOUS
<1>1. /\ doc \in Docs /\ phase = "pictures" /\ blocks = <<>> /\ next = 1 /\ prepared = <<>> /\ refusals = {}
      /\ portions = <<>> /\ cur = Void(0) /\ curSize = 0 /\ total = 0 /\ outcome = "none"
  BY DEF PackInit, Void
<1>2. Len(doc.items) \in Nat /\ 0 \in 0..Len(doc.items)
  BY <1>1, DocFacts
<1>3. Void(0) \in Ps(doc) /\ Travel(doc, Void(0))
  BY <1>1, <1>2, VoidFacts
<1>4. PackType
  BY <1>1, <1>3 DEF PackType
<1>5. 1..Len(<<>>) = {}
  OBVIOUS
<1>6. Travels
  BY <1>1, <1>3, <1>5 DEF Travels
<1>7. Looked
  <2>1. Met = {}
    BY <1>1 DEF Met, Range
  <2>2. PICK N \in Nat : N = Cardinality(UsedBinaries(doc))
    BY <1>1, PositionFacts
  <2>3. FirstPictures(doc, 0) = {}
    BY <1>1, <2>2, AllPictures
  <2>4. next - 1 = 0 /\ next - 1 <= N
    BY <1>1, <2>2
  <2>5. QED
    BY <1>1, <2>1, <2>2, <2>3, <2>4 DEF Looked
<1>8. Untouched /\ Walked /\ InOrder /\ Fits /\ Summed /\ Told
  BY <1>1, <1>5 DEF Untouched, Walked, InOrder, Fits, Summed, Told, RefusedRightly
<1>9. QED
  BY <1>4, <1>6, <1>7, <1>8 DEF PackInv

LEMMA PreparePictureKeeps == ASSUME PackInv, PreparePicture PROVE PackInv'
<1>1. phase = "pictures" /\ next <= Cardinality(UsedBinaries(doc))
  BY DEF PreparePicture
<1>2. PackType /\ Untouched /\ Looked /\ Travels /\ Fits /\ Told
  BY DEF PackInv
<1>3. /\ doc \in Docs /\ next \in Nat \ {0} /\ prepared \in Seq(UsedBinaries(doc))
  BY <1>2 DEF PackType
<1>4. PICK id : id = CHOOSE b \in UsedBinaries(doc) : Position(doc, b) = next - 1
  OBVIOUS
<1>5. id = CHOOSE b \in UsedBinaries(doc) :
             Cardinality({c \in UsedBinaries(doc) : doc.binaries[c].rank < doc.binaries[b].rank}) = next - 1
  BY <1>4 DEF Position, Rank
<1>6. PICK why : why = RefusalOf(doc.binaries[id])
  OBVIOUS
<1>7. \/ Refuse("pictures too large")
      \/ /\ IF why = "none" THEN prepared' = Append(prepared, id) /\ UNCHANGED refusals
            ELSE refusals' = refusals \union {[id |-> id, why |-> why]} /\ UNCHANGED prepared
         /\ next' = next + 1
         /\ UNCHANGED <<doc, phase, blocks, portions, cur, curSize, total, outcome>>
  BY <1>5, <1>6 DEF PreparePicture
<1>8. CASE Refuse("pictures too large")
  <2>1. outcome' = "pictures too large"
    BY <1>8 DEF Refuse
  <2>2. RefusedRightly'
    BY <2>1 DEF RefusedRightly
  <2>3. QED
    BY <1>8, <2>2, RefuseKeeps
<1>9. CASE /\ IF why = "none" THEN prepared' = Append(prepared, id) /\ UNCHANGED refusals
              ELSE refusals' = refusals \union {[id |-> id, why |-> why]} /\ UNCHANGED prepared
           /\ next' = next + 1
           /\ UNCHANGED <<doc, phase, blocks, portions, cur, curSize, total, outcome>>
  <2>1. PICK m \in Nat : m = next - 1 /\ m < Cardinality(UsedBinaries(doc)) /\ next = m + 1
    <3>1. Cardinality(UsedBinaries(doc)) \in Nat
      BY <1>3, PositionFacts
    <3>2. QED
      BY <1>1, <1>3, <3>1
  <2>2. id \in UsedBinaries(doc) /\ FirstPictures(doc, next) = FirstPictures(doc, next - 1) \union {id}
    BY <1>3, <1>4, <2>1, NextPicture
  <2>3. /\ doc' = doc /\ phase' = "pictures" /\ blocks' = blocks /\ portions' = portions /\ cur' = cur
        /\ curSize' = curSize /\ total' = total /\ outcome' = outcome /\ next' = next + 1
    BY <1>1, <1>9
  <2>4. prepared' \in Seq(UsedBinaries(doc)) /\ Met' = Met \union {id}
    <3>1. CASE why = "none"
      <4>1. prepared' = Append(prepared, id) /\ refusals' = refusals
        BY <1>9, <3>1
      <4>2. prepared' \in Seq(UsedBinaries(doc))
        BY <1>3, <2>2, <4>1, AppendProperties
      <4>3. Range(prepared') = Range(prepared) \union {id}
        <5>1. PICK p \in Seq(UsedBinaries(doc)) : p = prepared
          BY <1>3
        <5>2. Range(Append(p, id)) = Range(p) \union {id}
          BY <2>2, AppendProperties DEF Range
        <5>3. QED
          BY <4>1, <5>1, <5>2
      <4>4. {r.id : r \in refusals'} = {r.id : r \in refusals}
        BY <4>1
      <4>5. QED
        BY <4>2, <4>3, <4>4 DEF Met
    <3>2. CASE why # "none"
      <4>1. prepared' = prepared /\ refusals' = refusals \union {[id |-> id, why |-> why]}
        BY <1>9, <3>2
      <4>2. {r.id : r \in refusals'} = {r.id : r \in refusals} \union {id}
        <5> DEFINE one == [id |-> id, why |-> why]
        <5>1. one.id = id
          OBVIOUS
        <5>2. refusals' = refusals \union {one}
          BY <4>1
        <5> HIDE DEF one
        <5>3. QED
          BY <5>1, <5>2
      <4>3. Range(prepared') = Range(prepared)
        BY <4>1
      <4>4. QED
        BY <1>3, <4>1, <4>2, <4>3 DEF Met
    <3>3. QED
      BY <3>1, <3>2
  <2>5. PackType'
    <3>1. next + 1 \in Nat \ {0}
      BY <1>3
    <3>2. QED
      BY <1>2, <2>3, <2>4, <3>1 DEF PackType
  <2>6. Looked'
    <3>1. Met = FirstPictures(doc, next - 1)
      BY <1>1, <1>2 DEF Looked
    <3>2. next' - 1 = next
      BY <1>3, <2>3
    <3>3. Met' = FirstPictures(doc, next)
      BY <2>2, <2>4, <3>1
    <3>4. QED
      BY <1>1, <2>3, <3>2, <3>3 DEF Looked
  <2>7. Fits'
    <3>1. 1..Len(portions') = {}
      BY <1>1, <1>2, <2>3 DEF Untouched
    <3>2. QED
      BY <2>3, <3>1 DEF Fits
  <2>8. Untouched' /\ Walked' /\ InOrder' /\ Travels' /\ Summed'
    BY <1>1, <1>2, <2>3 DEF Untouched, Walked, InOrder, Travels, Summed
  <2>9. Told'
    BY <1>1, <1>2, <2>3 DEF Told, RefusedRightly
  <2>10. QED
    BY <2>5, <2>6, <2>7, <2>8, <2>9 DEF PackInv
<1>10. QED
  BY <1>7, <1>8, <1>9

LEMMA StartPackingKeeps == ASSUME PackInv, StartPacking PROVE PackInv'
<1>1. /\ phase = "pictures" /\ next > Cardinality(UsedBinaries(doc))
      /\ blocks' = Flatten(doc) /\ phase' = "pack" /\ next' = 1
      /\ doc' = doc /\ prepared' = prepared /\ refusals' = refusals /\ portions' = portions
      /\ cur' = cur /\ curSize' = curSize /\ total' = total /\ outcome' = outcome
  BY DEF StartPacking
<1>2. PackType /\ Untouched /\ Looked /\ Travels /\ Told
  BY DEF PackInv
<1>3. doc \in Docs /\ next \in Nat \ {0}
  BY <1>2 DEF PackType
<1>4. portions = <<>> /\ cur = Void(0) /\ curSize = 0 /\ total = 0
  BY <1>1, <1>2 DEF Untouched
<1>5. Len(doc.items) \in Nat /\ 0 \in 0..Len(doc.items)
  BY <1>3, DocFacts
<1>6. /\ Void(0) \in Ps(doc) /\ Upper(doc, Void(0)) = 0 /\ Void(0).blocks = <<>> /\ Void(0).index = 0
  BY <1>3, <1>5, VoidFacts
<1>7. PackType'
  BY <1>1, <1>2 DEF PackType
<1>8. Walked'
  <2>1. Len(Flatten(doc)) \in Nat
    BY <1>3, <1>5, FlattenFacts
  <2>2. QED
    BY <1>1, <1>4, <1>6, <2>1 DEF Walked
<1>9. Looked'
  <2>1. Met' = Met
    BY <1>1 DEF Met
  <2>2. PICK N \in Nat : N = Cardinality(UsedBinaries(doc))
    BY <1>3, PositionFacts
  <2>3. next - 1 \in Nat /\ next - 1 >= N
    BY <1>1, <1>3, <2>2
  <2>4. FirstPictures(doc, next - 1) = UsedBinaries(doc)
    BY <1>3, <2>2, <2>3, AllPictures
  <2>5. Met = FirstPictures(doc, next - 1)
    BY <1>1, <1>2 DEF Looked
  <2>6. QED
    BY <1>1, <2>1, <2>4, <2>5 DEF Looked
<1>10. InOrder'
  <2>1. <<>> \in Seq(Ps(doc)) /\ Len(<<>>) = 0
    OBVIOUS
  <2>2. Contents(<<>>) \in Seq(Bs(doc)) /\ Range(Contents(<<>>)) = UNION {Range(<<>>[k].blocks) : k \in 1..Len(<<>>)}
    BY <1>3, <2>1, ContentsFacts
  <2>3. PICK t \in Seq(Bs(doc)) : t = Contents(<<>>)
    BY <2>2
  <2>4. Range(t) = {}
    BY <2>1, <2>2, <2>3
  <2>5. t = <<>>
    <3>1. PICK l \in Nat : l = Len(t)
      BY LenProperties
    <3>2. l = 0
      <4>1. SUFFICES ASSUME l # 0 PROVE FALSE
        OBVIOUS
      <4>2. 1 \in DOMAIN t
        BY <3>1, <4>1
      <4>3. t[1] \in Range(t)
        BY <4>2 DEF Range
      <4>4. QED
        BY <2>4, <4>3
    <3>3. QED
      BY <3>1, <3>2, EmptySeq
  <2>6. Contents(Append(<<>>, Void(0))) = t \o <<>>
    BY <1>3, <1>6, <2>1, <2>3, ContentsFacts
  <2>7. t \o <<>> = <<>>
    BY <2>5
  <2>8. PICK s \in Seq(Bs(doc)) : s = Flatten(doc)
    BY <1>3, FlattenFacts
  <2>9. SubSeq(s, 1, 0) = <<>>
    OBVIOUS
  <2>10. next' - 1 = 0
    BY <1>1
  <2>11. Contents(Append(portions', cur')) = SubSeq(blocks', 1, next' - 1)
    BY <1>1, <1>4, <2>6, <2>7, <2>8, <2>9, <2>10
  <2>12. QED
    BY <1>1, <2>11 DEF InOrder
<1>11. Fits'
  <2>1. 1..Len(portions') = {}
    BY <1>1, <1>4
  <2>2. Upper(doc', cur') <= curSize'
    BY <1>1, <1>4, <1>6
  <2>3. ~(Len(cur'.blocks) > 1)
    BY <1>1, <1>4, <1>6
  <2>4. QED
    BY <2>1, <2>2, <2>3 DEF Fits
<1>12. Untouched' /\ Travels' /\ Summed' /\ Told'
  BY <1>1, <1>2 DEF Untouched, Travels, Summed, Told, RefusedRightly
<1>13. QED
  BY <1>7, <1>8, <1>9, <1>10, <1>11, <1>12 DEF PackInv

LEMMA FinishPackingKeeps == ASSUME PackInv, FinishPacking PROVE PackInv'
<1>1. /\ phase = "pack" /\ next > Len(blocks) /\ portions' = Append(portions, cur)
      /\ phase' = "render" /\ next' = 1 /\ total' = 0 /\ doc' = doc /\ blocks' = blocks
      /\ prepared' = prepared /\ refusals' = refusals /\ cur' = cur /\ curSize' = curSize /\ outcome' = outcome
  BY DEF FinishPacking
<1>2. PackType /\ Walked /\ Looked /\ InOrder /\ Travels /\ Fits /\ Told
  BY DEF PackInv
<1>3. doc \in Docs /\ next \in Nat /\ portions \in Seq(Ps(doc)) /\ cur \in Ps(doc) /\ curSize \in Nat
  BY <1>2 DEF PackType
<1>4. PICK all \in Seq(Ps(doc)) : all = Append(portions, cur)
  BY <1>3, AppendProperties
<1>5. PICK n \in Nat : n = Len(portions)
  BY <1>3, LenProperties
<1>6. Len(all) = n + 1 /\ all[n + 1] = cur /\ \A k \in 1..n : all[k] = portions[k]
  BY <1>3, <1>4, <1>5, AppendProperties
<1>7. \A k \in 1..(n + 1) : k = n + 1 \/ k \in 1..n
  BY <1>5
<1>8. PackType'
  BY <1>1, <1>2, <1>4 DEF PackType
<1>9. Looked'
  <2>1. Met' = Met
    BY <1>1 DEF Met
  <2>2. QED
    BY <1>1, <1>2, <2>1 DEF Looked
<1>10. InOrder'
  <2>1. blocks \in Seq(Bs(doc))
    BY <1>1, <1>2, <1>3, FlattenFacts DEF Walked
  <2>2. PICK l \in Nat : l = Len(blocks)
    BY <2>1, LenProperties
  <2>3. next - 1 = l
    BY <1>1, <1>2, <1>3, <2>2 DEF Walked
  <2>4. Contents(all) = SubSeq(blocks, 1, Len(blocks))
    BY <1>1, <1>2, <1>4, <2>2, <2>3 DEF InOrder
  <2>5. QED
    BY <1>1, <1>4, <2>4 DEF InOrder
<1>11. Travels'
  <2>1. Travel(doc, cur) /\ \A k \in 1..n : Travel(doc, portions[k])
    BY <1>2, <1>5 DEF Travels
  <2>2. \A k \in 1..Len(all) : Travel(doc, all[k])
    BY <1>6, <1>7, <2>1
  <2>3. QED
    BY <1>1, <1>4, <2>1, <2>2 DEF Travels
<1>12. Fits'
  <2>1. SUFFICES ASSUME ~Measured PROVE \A k \in 1..Len(all) : ~Overflows(doc, all[k])
    <3>1. Measured' <=> Measured
      BY <1>1 DEF Measured
    <3>2. QED
      BY <1>1, <1>4, <3>1 DEF Fits
  <2>2. \A k \in 1..n : ~Overflows(doc, portions[k])
    BY <1>2, <1>5, <2>1 DEF Fits
  <2>3. ~Overflows(doc, cur)
    <3>1. Upper(doc, cur) <= curSize /\ (Len(cur.blocks) > 1 => curSize <= MaxChunk)
      BY <1>1, <1>2, <2>1 DEF Fits
    <3>2. PICK r, u \in Nat : r = Rendered(doc, cur) /\ u = Upper(doc, cur) /\ r <= u
      BY <1>3, RenderedFacts
    <3>3. MaxChunk \in Nat
      BY PolicyAssumption
    <3>4. ~(r > MaxChunk /\ Len(cur.blocks) > 1)
      BY <1>3, <3>1, <3>2, <3>3
    <3>5. QED
      BY <3>2, <3>4 DEF Overflows
  <2>4. QED
    BY <1>6, <1>7, <2>2, <2>3
<1>13. Summed'
  <2>1. UpTo(doc, all, 0) = 0
    <3>1. PICK f : f = [k \in 1..0 |-> Rendered(doc, all[k])]
      OBVIOUS
    <3>2. 1..0 = {}
      OBVIOUS
    <3>3. f \in [{} -> Nat]
      BY <3>1, <3>2
    <3>4. QED
      BY <3>1, <3>3, SumNone DEF UpTo
  <2>2. next' - 1 = 0 /\ 0 <= Len(all)
    BY <1>1, <1>6
  <2>3. QED
    BY <1>1, <1>4, <2>1, <2>2 DEF Summed
<1>14. Untouched' /\ Walked' /\ Told'
  BY <1>1, <1>2 DEF Untouched, Walked, Told, RefusedRightly
<1>15. QED
  BY <1>8, <1>9, <1>10, <1>11, <1>12, <1>13, <1>14 DEF PackInv

LEMMA RenderFacts ==
    ASSUME PackInv, phase = "render"
    PROVE  /\ doc \in Docs /\ portions \in Seq(Ps(doc)) /\ next \in Nat \ {0} /\ Len(portions) \in Nat
           /\ blocks = Flatten(doc) /\ blocks \in Seq(Bs(doc)) /\ Len(blocks) = Len(doc.items) /\ Len(blocks) \in Nat
           /\ \A k \in 1..Len(portions) : portions[k] \in Ps(doc)
           /\ Range(blocks) = UNION {Range(portions[k].blocks) : k \in 1..Len(portions)}
<1>1. PackType /\ Walked /\ InOrder
  BY DEF PackInv
<1>2. doc \in Docs /\ portions \in Seq(Ps(doc)) /\ next \in Nat \ {0} /\ blocks = Flatten(doc)
  BY <1>1 DEF PackType, Walked
<1>3. Len(portions) \in Nat /\ \A k \in 1..Len(portions) : portions[k] \in Ps(doc)
  BY <1>2, LenProperties, ElementOfSeq
<1>4. blocks \in Seq(Bs(doc)) /\ Len(blocks) = Len(doc.items)
  BY <1>2, FlattenFacts
<1>5. PICK s \in Seq(Bs(doc)) : s = blocks
  BY <1>4
<1>6. PICK l \in Nat : l = Len(s)
  BY LenProperties
<1>7. SubSeq(s, 1, l) = s
  BY <1>6
<1>8. Contents(portions) = blocks
  BY <1>1, <1>5, <1>6, <1>7 DEF InOrder
<1>9. Range(Contents(portions)) = UNION {Range(portions[k].blocks) : k \in 1..Len(portions)}
  BY <1>2, ContentsFacts
<1>10. QED
  BY <1>2, <1>3, <1>4, <1>5, <1>6, <1>8, <1>9

\* A portion within the packing ceiling that renders to more than any portion
\* may is one block alone with the notes it cites.
LEMMA RenderedAlone ==
    ASSUME PackInv, phase = "render", next <= Len(portions), ~Overflows(doc, portions[next]),
           Rendered(doc, portions[next]) > MaxPortion
    PROVE  \E k \in 1..Len(blocks), i \in 0..Len(blocks) : Rendered(doc, Alone(doc, blocks[k], i)) > MaxPortion
<1>1. /\ doc \in Docs /\ next \in 1..Len(portions) /\ blocks \in Seq(Bs(doc)) /\ Len(blocks) = Len(doc.items)
      /\ Len(blocks) \in Nat
  BY RenderFacts
<1>2. PICK p \in Ps(doc) : p = portions[next]
  BY <1>1, RenderFacts
<1>3. PICK bs \in Seq(Bs(doc)) : bs = p.blocks
  BY DEF Ps
<1>4. PICK n \in Nat : n = Len(bs)
  BY LenProperties
<1>5. PICK i \in 0..Len(blocks) : i = p.index
  BY <1>1 DEF Ps
<1>6. PICK r \in Nat : r = Rendered(doc, p)
  BY <1>1, RenderedFacts
<1>7. MaxChunk \in Nat /\ MaxPortion \in Nat /\ MaxChunk <= MaxPortion
  BY PolicyAssumption
<1>8. r > MaxPortion /\ ~(r > MaxChunk /\ n > 1)
  BY <1>2, <1>3, <1>4, <1>6 DEF Overflows
<1>9. n <= 1
  BY <1>7, <1>8
<1>10. Travel(doc, p)
  BY <1>1, <1>2 DEF PackInv, Travels
<1>11. CASE n = 0
  <2>1. bs = <<>>
    BY <1>4, <1>11, EmptySeq
  <2>2. p.notes = {}
    <3>1. 1..Len(bs) = {}
      BY <1>4, <1>11
    <3>2. QED
      BY <1>3, <1>10, <3>1 DEF Travel
  <2>3. p = Void(i)
    BY <1>3, <1>5, <2>1, <2>2 DEF Ps, Void
  <2>4. r = 0
    BY <1>1, <1>6, <2>3, VoidFacts
  <2>5. QED
    BY <1>7, <1>8, <2>4
<1>12. CASE n = 1
  <2>0. Len(bs) = 1 /\ 1 \in 1..Len(bs) /\ DOMAIN bs = 1..Len(bs)
    <3>1. Len(bs) = 1
      BY <1>4, <1>12
    <3>2. 1 \in 1..1
      OBVIOUS
    <3>3. DOMAIN bs = 1..Len(bs)
      BY LenProperties
    <3>4. QED
      BY <3>1, <3>2, <3>3, Zenon
  <2>1. PICK b \in Bs(doc) : b = bs[1]
    BY <2>0, ElementOfSeq
  <2>2. bs = <<b>>
    <3>1. PICK one : one = <<b>>
      OBVIOUS
    <3>2. one \in Seq(Bs(doc)) /\ Len(one) = 1 /\ one[1] = b
      BY <3>1
    <3>3. \A k \in 1..1 : bs[k] = one[k]
      BY <2>1, <3>2
    <3>4. bs = one
      BY <2>0, <3>2, <3>3
    <3>5. QED
      BY <3>1, <3>4
  <2>3. p.notes = Cited(b.item, NoteKeys(doc))
    <3>1. 1..Len(bs) = {1}
      BY <1>4, <1>12
    <3>2. p.notes = UNION {Cited(bs[j].item, NoteKeys(doc)) : j \in {1}}
      BY <1>3, <1>10, <3>1 DEF Travel
    <3>3. QED
      BY <2>1, <3>2
  <2>4. p = Alone(doc, b, i)
    BY <1>3, <1>5, <2>2, <2>3 DEF Ps, Alone
  <2>5. b \in Range(blocks)
    <3>1. b \in Range(p.blocks)
      <4>1. 1 \in DOMAIN bs
        BY <2>0
      <4>2. QED
        BY <1>3, <2>1, <4>1 DEF Range
    <3>2. Range(blocks) = UNION {Range(portions[k].blocks) : k \in 1..Len(portions)}
      BY RenderFacts
    <3>3. QED
      BY <1>1, <1>2, <3>1, <3>2
  <2>6. PICK k \in 1..Len(blocks) : b = blocks[k]
    BY <1>1, <2>5, LenProperties DEF Range
  <2>7. Rendered(doc, Alone(doc, blocks[k], i)) > MaxPortion
    BY <1>6, <1>8, <2>4, <2>6
  <2>8. QED
    BY <2>7
<1>13. QED
  BY <1>4, <1>9, <1>11, <1>12

LEMMA RenderPortionKeeps == ASSUME PackInv, RenderPortion PROVE PackInv'
<1>1. phase = "render" /\ next <= Len(portions)
  BY DEF RenderPortion
<1> DEFINE bytes == Rendered(doc, portions[next])
<1>2. IF Overflows(doc, portions[next]) THEN Refuse("overflow")
      ELSE IF bytes > MaxPortion THEN Refuse("block too large")
      ELSE IF total + bytes > MaxTotal THEN Refuse("book too large")
      ELSE /\ total' = total + bytes /\ next' = next + 1
           /\ UNCHANGED <<doc, phase, blocks, prepared, refusals, portions, cur, curSize, outcome>>
  BY DEF RenderPortion
<1>3. doc \in Docs /\ portions \in Seq(Ps(doc)) /\ next \in 1..Len(portions) /\ Len(portions) \in Nat
  BY <1>1, RenderFacts
<1>4. PackType /\ Walked /\ Looked /\ InOrder /\ Travels /\ Fits /\ Summed /\ Told
  BY DEF PackInv
<1>5. bytes \in Nat
  BY <1>3, RenderFacts, RenderedFacts, <1>1
<1>6. PICK m \in Nat : m = next - 1 /\ next = m + 1 /\ m \in 0..Len(portions) /\ m < Len(portions)
  BY <1>3
<1>7. total = UpTo(doc, portions, m)
  BY <1>1, <1>4, <1>6 DEF Summed
<1>8. UpTo(doc, portions, next) = total + bytes /\ total \in Nat
  BY <1>3, <1>6, <1>7, UpToFacts
<1>9. CASE Overflows(doc, portions[next])
  <2>1. Refuse("overflow")
    BY <1>2, <1>9
  <2>2. Measured
    BY <1>3, <1>4, <1>9 DEF Fits
  <2>3. outcome' = "overflow" /\ doc' = doc /\ blocks' = blocks
    BY <2>1 DEF Refuse
  <2>4. Measured'
    BY <2>2, <2>3 DEF Measured
  <2>5. RefusedRightly'
    BY <2>3, <2>4 DEF RefusedRightly
  <2>6. QED
    BY <2>1, <2>5, RefuseKeeps
<1>10. CASE ~Overflows(doc, portions[next]) /\ bytes > MaxPortion
  <2>1. Refuse("block too large")
    BY <1>2, <1>10
  <2>2. outcome' = "block too large" /\ doc' = doc /\ blocks' = blocks
    BY <2>1 DEF Refuse
  <2>3. \E k \in 1..Len(blocks), i \in 0..Len(blocks) : Rendered(doc, Alone(doc, blocks[k], i)) > MaxPortion
    BY <1>1, <1>10, RenderedAlone
  <2>4. RefusedRightly'
    BY <2>2, <2>3 DEF RefusedRightly
  <2>5. QED
    BY <2>1, <2>4, RefuseKeeps
<1>11. CASE ~Overflows(doc, portions[next]) /\ ~(bytes > MaxPortion) /\ total + bytes > MaxTotal
  <2>1. Refuse("book too large")
    BY <1>2, <1>11
  <2>2. PICK u, a \in Nat : u = UpTo(doc, portions, next) /\ a = Bytes(doc, portions) /\ u <= a
    <3>1. next \in 0..Len(portions)
      BY <1>3
    <3>2. QED
      BY <1>3, <3>1, UpToFacts
  <2>3. MaxTotal \in Nat
    BY PolicyAssumption
  <2>4. Bytes(doc, portions) > MaxTotal
    <3> HIDE DEF bytes
    <3>1. QED
      BY <1>8, <1>11, <2>2, <2>3
  <2>5. outcome' = "book too large" /\ doc' = doc /\ portions' = portions
    BY <2>1 DEF Refuse
  <2>6. \E ps \in {portions'} \union Offered' : Bytes(doc, ps) > MaxTotal
    BY <2>4, <2>5
  <2>7. RefusedRightly'
    BY <2>5, <2>6 DEF RefusedRightly
  <2>8. QED
    BY <2>1, <2>7, RefuseKeeps
<1>12. CASE ~Overflows(doc, portions[next]) /\ ~(bytes > MaxPortion) /\ ~(total + bytes > MaxTotal)
  <2>1. /\ total' = total + bytes /\ next' = next + 1
        /\ doc' = doc /\ phase' = "render" /\ blocks' = blocks /\ prepared' = prepared /\ refusals' = refusals
        /\ portions' = portions /\ cur' = cur /\ curSize' = curSize /\ outcome' = outcome
    BY <1>1, <1>2, <1>12
  <2> HIDE DEF bytes
  <2>2. total' \in Nat /\ next' \in Nat \ {0} /\ next' - 1 = next /\ next <= Len(portions)
    BY <1>3, <1>5, <1>8, <2>1
  <2>3. PackType'
    BY <1>4, <2>1, <2>2 DEF PackType
  <2>4. Looked'
    <3>1. Met' = Met
      BY <2>1 DEF Met
    <3>2. QED
      BY <1>1, <1>4, <2>1, <3>1 DEF Looked
  <2>5. Fits'
    <3>1. Measured' <=> Measured
      BY <2>1 DEF Measured
    <3>2. QED
      BY <1>4, <2>1, <3>1 DEF Fits
  <2>6. Summed'
    BY <1>8, <2>1, <2>2 DEF Summed
  <2>7. InOrder'
    BY <1>1, <1>4, <2>1 DEF InOrder
  <2>8. Untouched' /\ Walked' /\ Travels' /\ Told'
    BY <1>1, <1>4, <2>1 DEF Untouched, Walked, Travels, Told, RefusedRightly
  <2>9. QED
    BY <2>3, <2>4, <2>5, <2>6, <2>7, <2>8 DEF PackInv
<1>13. QED
  BY <1>9, <1>10, <1>11, <1>12

LEMMA PublishKeeps == ASSUME PackInv, Publish PROVE PackInv'
<1>1. /\ phase' = "done" /\ outcome' = "built" /\ doc' = doc /\ blocks' = blocks /\ next' = next
      /\ prepared' = prepared /\ refusals' = refusals /\ portions' = portions /\ cur' = cur
      /\ curSize' = curSize /\ total' = total
  BY DEF Publish
<1>2. PackType /\ Travels /\ Fits
  BY DEF PackInv
<1>3. PackType' /\ Travels'
  BY <1>1, <1>2 DEF PackType, Travels
<1>4. Fits'
  <2>1. Measured' <=> Measured
    BY <1>1 DEF Measured
  <2>2. QED
    BY <1>1, <1>2, <2>1 DEF Fits
<1>5. Untouched' /\ Walked' /\ Looked' /\ InOrder' /\ Summed' /\ Told'
  BY <1>1 DEF Untouched, Walked, Looked, InOrder, Summed, Told, RefusedRightly
<1>6. QED
  BY <1>3, <1>4, <1>5 DEF PackInv

LEMMA StutterKeeps == ASSUME PackInv, UNCHANGED packVars PROVE PackInv'
<1>1. /\ doc' = doc /\ phase' = phase /\ blocks' = blocks /\ next' = next /\ prepared' = prepared
      /\ refusals' = refusals /\ portions' = portions /\ cur' = cur /\ curSize' = curSize
      /\ total' = total /\ outcome' = outcome
  BY DEF packVars
<1>2. PackType /\ Untouched /\ Walked /\ Looked /\ InOrder /\ Travels /\ Fits /\ Summed /\ Told
  BY DEF PackInv
<1>3. PackType' /\ Untouched' /\ Walked' /\ Travels' /\ Summed'
  BY <1>1, <1>2 DEF PackType, Untouched, Walked, Travels, Summed
<1>4. Looked'
  <2>1. Met' = Met
    BY <1>1 DEF Met
  <2>2. QED
    BY <1>1, <1>2, <2>1 DEF Looked
<1>5. InOrder'
  BY <1>1, <1>2 DEF InOrder
<1>6. Fits'
  <2>1. Measured' <=> Measured
    BY <1>1 DEF Measured
  <2>2. QED
    BY <1>1, <1>2, <2>1 DEF Fits
<1>7. Told'
  <2>1. Measured' <=> Measured
    BY <1>1 DEF Measured
  <2>2. Fresh' = Fresh
    BY <1>1 DEF Fresh
  <2>3. Offered' = Offered
    BY <1>1, <2>2 DEF Offered
  <2>4. RefusedRightly' <=> RefusedRightly
    BY <1>1, <2>1, <2>3 DEF RefusedRightly
  <2>5. QED
    BY <1>1, <1>2, <2>4 DEF Told
<1>8. QED
  BY <1>3, <1>4, <1>5, <1>6, <1>7 DEF PackInv

LEMMA AnchorsAre == ASSUME PackInv PROVE AnchorsUnique
<1>1. doc \in Docs /\ blocks \in {<<>>, Flatten(doc)}
  BY DEF PackInv, PackType
<1>2. CASE blocks = <<>>
  <2>1. 1..Len(<<>>) = {}
    OBVIOUS
  <2>2. QED
    BY <1>2, <2>1 DEF AnchorsUnique
<1>3. CASE blocks = Flatten(doc)
  <2>1. PICK n \in Nat : n = Len(doc.items) /\ n = Len(blocks)
    BY <1>1, <1>3, FlattenFacts, DocFacts
  <2>2. \A j, k \in 1..n :
          /\ blocks[j].item.heading => blocks[j].anchor # ""
          /\ j # k /\ blocks[j].anchor # "" => blocks[j].anchor # blocks[k].anchor
    BY <1>1, <1>3, <2>1, FlattenFacts
  <2>3. QED
    BY <2>1, <2>2 DEF AnchorsUnique
<1>4. QED
  BY <1>1, <1>2, <1>3

LEMMA OrderIs == ASSUME PackInv PROVE OnceInOrder
<1>1. InOrder
  BY DEF PackInv
<1>2. CASE phase = "pack"
  <2>1. All = Append(portions, cur)
    BY <1>2 DEF All
  <2>2. Contents(All) = SubSeq(blocks, 1, next - 1)
    BY <1>1, <1>2, <2>1 DEF InOrder
  <2>3. QED
    BY <1>2, <2>2, Zenon DEF OnceInOrder, Contents
<1>3. CASE phase = "render"
  <2>1. All = portions /\ phase # "pack"
    BY <1>3 DEF All
  <2>2. Contents(All) = SubSeq(blocks, 1, Len(blocks))
    BY <1>1, <1>3, <2>1 DEF InOrder
  <2>3. QED
    BY <1>3, <2>1, <2>2, Zenon DEF OnceInOrder, Contents
<1>4. QED
  BY <1>2, <1>3 DEF OnceInOrder

LEMMA NotesAre == ASSUME PackInv PROVE NotesTravel
<1>1. Travels /\ portions \in Seq(Ps(doc)) /\ cur \in Ps(doc)
  BY DEF PackInv, PackType
<1>2. PICK n \in Nat : n = Len(portions)
  BY <1>1, LenProperties
<1>3. ASSUME NEW k \in 1..Len(All) PROVE Travel(doc, All[k])
  <2>1. CASE phase = "pack"
    <3>1. All = Append(portions, cur)
      BY <2>1 DEF All
    <3>2. Len(All) = n + 1 /\ All[n + 1] = cur /\ \A j \in 1..n : All[j] = portions[j]
      BY <1>1, <1>2, <3>1, AppendProperties
    <3>3. k = n + 1 \/ k \in 1..n
      BY <3>2
    <3>4. QED
      BY <1>1, <1>2, <3>2, <3>3 DEF Travels
  <2>2. CASE phase # "pack"
    <3>1. All = portions
      BY <2>2 DEF All
    <3>2. QED
      BY <1>1, <3>1 DEF Travels
  <2>3. QED
    BY <2>1, <2>2
<1>4. QED
  BY <1>3 DEF Travel, NotesTravel

\* What the portions cite is what the document cites, and their pictures are
\* the document's.
LEMMA PicturesAre == ASSUME PackInv PROVE PicturesShown
<1> SUFFICES ASSUME phase = "render" PROVE PicturesShown
  BY DEF PicturesShown
<1>1. /\ doc \in Docs /\ blocks = Flatten(doc) /\ blocks \in Seq(Bs(doc)) /\ Len(blocks) = Len(doc.items)
      /\ Range(blocks) = UNION {Range(portions[k].blocks) : k \in 1..Len(portions)}
      /\ \A k \in 1..Len(portions) : portions[k] \in Ps(doc)
  BY RenderFacts
<1>2. All = portions
  BY DEF All
<1>3. Met = UsedBinaries(doc)
  BY DEF PackInv, Looked
<1>4. ASSUME NEW k \in 1..Len(portions)
      PROVE  /\ portions[k].blocks \in Seq(Bs(doc)) /\ DOMAIN portions[k].blocks = 1..Len(portions[k].blocks)
             /\ Expanded(portions[k]) = UNION {Cited(portions[k].blocks[j].item, NoteKeys(doc)) : j \in 1..Len(portions[k].blocks)}
  <2>1. PICK p \in Ps(doc) : p = portions[k]
    BY <1>1
  <2>2. PICK bs \in Seq(Bs(doc)) : bs = p.blocks
    BY DEF Ps
  <2>3. DOMAIN bs = 1..Len(bs)
    BY LenProperties
  <2>4. p.notes = UNION {Cited(bs[j].item, NoteKeys(doc)) : j \in 1..Len(bs)}
    BY <2>1, <2>2 DEF PackInv, Travels, Travel
  <2>5. ASSUME NEW j \in 1..Len(bs) PROVE Cited(bs[j].item, p.notes) = Cited(bs[j].item, NoteKeys(doc))
    <3>1. p.notes \subseteq NoteKeys(doc)
      BY DEF Ps
    <3>2. Cited(bs[j].item, NoteKeys(doc)) \subseteq p.notes
      BY <2>4
    <3>3. QED
      BY <3>1, <3>2 DEF Cited
  <2>6. Expanded(p) = UNION {Cited(bs[j].item, p.notes) : j \in 1..Len(bs)}
    BY <2>2 DEF Expanded
  <2>7. Expanded(p) = UNION {Cited(bs[j].item, NoteKeys(doc)) : j \in 1..Len(bs)}
    BY <2>5, <2>6
  <2>8. QED
    BY <2>1, <2>2, <2>3, <2>7
<1> DEFINE here(k) == (UNION {portions[k].blocks[j].item.pictures : j \in 1..Len(portions[k].blocks)})
                        \union (UNION {Note(doc, key).pictures : key \in Expanded(portions[k])})
           shown == UNION {here(k) : k \in 1..Len(portions)}
           cited == UNION {Cited(doc.items[i], NoteKeys(doc)) : i \in 1..Len(doc.items)}
           inBody == UNION {doc.items[i].pictures : i \in 1..Len(doc.items)}
           inNotes == UNION {Note(doc, key).pictures : key \in cited}
\* A block of the document is in some portion, and the other way round.
<1>5. ASSUME NEW i \in 1..Len(doc.items)
      PROVE  \E k \in 1..Len(portions) : \E j \in 1..Len(portions[k].blocks) : portions[k].blocks[j].item = doc.items[i]
  <2>1. blocks[i] \in Range(blocks) /\ blocks[i].item = doc.items[i]
    <3>1. DOMAIN blocks = 1..Len(doc.items)
      BY <1>1, LenProperties
    <3>2. QED
      BY <1>1, <3>1, FlattenFacts DEF Range
  <2>2. PICK k \in 1..Len(portions) : blocks[i] \in Range(portions[k].blocks)
    BY <1>1, <2>1
  <2>3. PICK j \in 1..Len(portions[k].blocks) : blocks[i] = portions[k].blocks[j]
    BY <1>4, <2>2 DEF Range
  <2>4. QED
    BY <2>1, <2>3
<1>6. ASSUME NEW k \in 1..Len(portions), NEW j \in 1..Len(portions[k].blocks)
      PROVE  \E i \in 1..Len(doc.items) : portions[k].blocks[j].item = doc.items[i]
  <2>1. portions[k].blocks[j] \in Bs(doc)
    BY <1>4, ElementOfSeq
  <2>2. QED
    BY <1>1, <2>1, BlockFacts
<1>7. ASSUME NEW x \in shown PROVE x \in inBody \union inNotes
  <2>1. PICK k \in 1..Len(portions) : x \in here(k)
    OBVIOUS
  <2>2. CASE x \in UNION {portions[k].blocks[j].item.pictures : j \in 1..Len(portions[k].blocks)}
    <3>1. PICK j \in 1..Len(portions[k].blocks) : x \in portions[k].blocks[j].item.pictures
      BY <2>2
    <3>2. PICK i \in 1..Len(doc.items) : portions[k].blocks[j].item = doc.items[i]
      BY <1>6
    <3>3. QED
      BY <3>1, <3>2
  <2>3. CASE x \in UNION {Note(doc, key).pictures : key \in Expanded(portions[k])}
    <3>1. PICK key \in Expanded(portions[k]) : x \in Note(doc, key).pictures
      BY <2>3
    <3>2. PICK j \in 1..Len(portions[k].blocks) : key \in Cited(portions[k].blocks[j].item, NoteKeys(doc))
      <4>1. key \in UNION {Cited(portions[k].blocks[j].item, NoteKeys(doc)) : j \in 1..Len(portions[k].blocks)}
        BY <1>4, Zenon
      <4>2. QED
        BY <4>1
    <3>3. PICK i \in 1..Len(doc.items) : portions[k].blocks[j].item = doc.items[i]
      BY <1>6
    <3>4. key \in cited
      BY <3>2, <3>3
    <3>5. QED
      BY <3>1, <3>4
  <2>4. QED
    BY <2>1, <2>2, <2>3
<1>8. ASSUME NEW x \in inBody \union inNotes PROVE x \in shown
  <2>1. CASE x \in inBody
    <3>1. PICK i \in 1..Len(doc.items) : x \in doc.items[i].pictures
      BY <2>1
    <3>2. PICK k \in 1..Len(portions) : \E j \in 1..Len(portions[k].blocks) : portions[k].blocks[j].item = doc.items[i]
      BY <1>5
    <3>3. x \in here(k)
      BY <3>1, <3>2
    <3>4. QED
      BY <3>3
  <2>2. CASE x \in inNotes
    <3>1. PICK key \in cited : x \in Note(doc, key).pictures
      BY <2>2
    <3>2. PICK i \in 1..Len(doc.items) : key \in Cited(doc.items[i], NoteKeys(doc))
      OBVIOUS
    <3>3. PICK k \in 1..Len(portions) : \E j \in 1..Len(portions[k].blocks) : portions[k].blocks[j].item = doc.items[i]
      BY <1>5
    <3>4. key \in Expanded(portions[k])
      BY <1>4, <3>2, <3>3
    <3>5. x \in here(k)
      BY <3>1, <3>4
    <3>6. QED
      BY <3>5
  <2>3. QED
    BY <2>1, <2>2
<1>9. shown = inBody \union inNotes
  BY <1>7, <1>8
<1>10. UsedBinaries(doc) = (inBody \union inNotes) \intersect DOMAIN doc.binaries
  BY DEF UsedBinaries
<1>11. Met = shown \intersect DOMAIN doc.binaries
  <2> HIDE DEF shown, inBody, inNotes
  <2>1. QED
    BY <1>3, <1>9, <1>10
<1>12. Shown(doc, All) = shown
  BY <1>2 DEF Shown
<1>13. QED
  <2> HIDE DEF shown
  <2>1. QED
    BY <1>11, <1>12, Zenon DEF PicturesShown, Met

\* A preview is faithful in every book: no portion boundary drops a block,
\* doubles one or changes the order (ChunkPreview), no two anchors are alike
\* (flatten), a portion has the notes it cites and no others, the pictures
\* looked at are those the portions show (BuildPreviewImages), and a book is
\* refused only for a size its rendering really has (RenderChunkHTML).
THEOREM PackSafety == PackSpec => []PreviewFaithful
<1>1. PackInit => PackInv
  BY PackInvInit
<1>2. ASSUME PackInv, [PackNext]_packVars PROVE PackInv'
  BY <1>2, PreparePictureKeeps, StartPackingKeeps, PackBlockKeeps, FinishPackingKeeps, RenderPortionKeeps,
     PublishKeeps, StutterKeeps DEF PackNext
<1>3. PackInv => PreviewFaithful
  <2>1. PackInv => RefusedRightly
    BY DEF PackInv, Told
  <2>2. QED
    BY <2>1, AnchorsAre, OrderIs, NotesAre, PicturesAre DEF PreviewFaithful
<1>4. QED
  BY <1>1, <1>2, <1>3, PTL DEF PackSpec
------------------------------------------------------------------------------
(* Sequences that grow.                                                    *)

LEMMA FlattenNext ==
    ASSUME NEW S, NEW ss \in Seq(Seq(S)), NEW tt \in Seq(Seq(S)), Len(tt) = Len(ss) + 1,
           \A i \in 1..Len(ss) : tt[i] = ss[i]
    PROVE  FlattenSeq(tt) = FlattenSeq(ss) \o tt[Len(ss) + 1]
<1>1. PICK n \in Nat : n = Len(ss)
  BY LenProperties
<1>2. PICK t \in Seq(S) : t = tt[n + 1]
  <2>1. n + 1 \in 1..Len(tt)
    BY <1>1
  <2>2. QED
    BY <1>1, <2>1, ElementOfSeq
<1>3. PICK all : all = Append(ss, t)
  OBVIOUS
<1>4. /\ all \in Seq(Seq(S)) /\ Len(all) = n + 1 /\ all[n + 1] = t
      /\ \A i \in 1..n : all[i] = ss[i]
  BY <1>1, <1>3, AppendProperties
<1>5. Len(tt) = n + 1 /\ \A i \in 1..n : tt[i] = ss[i]
  BY <1>1
<1>6. \A i \in 1..Len(tt) : tt[i] = all[i]
  <2>1. SUFFICES ASSUME NEW i \in 1..(n + 1) PROVE tt[i] = all[i]
    BY <1>5
  <2>2. i \in 1..n \/ i = n + 1
    BY <1>1
  <2>3. QED
    BY <1>2, <1>4, <1>5, <2>2
<1>7. Len(tt) = Len(all)
  BY <1>4, <1>5
<1>8. tt = all
  BY <1>4, <1>6, <1>7, SeqEqual
<1>9. FlattenSeq(all) = FlattenSeq(ss) \o t
  BY <1>3, FlattenAppend
<1>10. QED
  BY <1>1, <1>2, <1>8, <1>9

LEMMA FlattenConcat ==
    ASSUME NEW S, NEW ss \in Seq(Seq(S)), NEW tt \in Seq(Seq(S))
    PROVE  FlattenSeq(ss \o tt) = FlattenSeq(ss) \o FlattenSeq(tt)
<1> DEFINE Holds(t) == FlattenSeq(ss \o t) = FlattenSeq(ss) \o FlattenSeq(t)
           N == {n \in Nat : \A t \in Seq(Seq(S)) : Len(t) = n => Holds(t)}
<1>1. 0 \in N
  <2>1. SUFFICES ASSUME NEW t \in Seq(Seq(S)), Len(t) = 0 PROVE Holds(t)
    OBVIOUS
  <2>2. t = <<>>
    BY <2>1, EmptySeq
  <2>3. ss \o t = ss
    BY <2>2, ConcatEmptySeq
  <2>4. FlattenSeq(t) = <<>>
    BY <2>1, <2>2 DEF FlattenSeq
  <2>5. FlattenSeq(ss) \o <<>> = FlattenSeq(ss)
    BY FlattenType, ConcatEmptySeq
  <2>6. QED
    BY <2>3, <2>4, <2>5
<1>2. ASSUME NEW n \in Nat, n \in N PROVE n + 1 \in N
  <2>1. SUFFICES ASSUME NEW t \in Seq(Seq(S)), Len(t) = n + 1 PROVE Holds(t)
    BY DEF N
  <2>2. t # <<>>
    BY <2>1, EmptySeq
  <2>3. PICK s \in Seq(Seq(S)), x \in Seq(S) : t = Append(s, x)
    BY <2>2, SequenceEmptyOrAppend
  <2>4. Len(s) \in Nat /\ Len(t) = Len(s) + 1
    BY <2>3, AppendProperties, LenProperties
  <2>5. Len(s) = n
    BY <2>1, <2>4
  <2>6. Holds(s)
    BY <1>2, <2>5
  <2>7. FlattenSeq(t) = FlattenSeq(s) \o x
    BY <2>3, FlattenAppend
  <2>8. ss \o t = Append(ss \o s, x)
    BY <2>3, AppendConcat
  <2>9. ss \o s \in Seq(Seq(S))
    BY ConcatProperties
  <2>10. FlattenSeq(ss \o t) = FlattenSeq(ss \o s) \o x
    BY <2>8, <2>9, FlattenAppend
  <2>11. PICK a \in Seq(S), b \in Seq(S) : a = FlattenSeq(ss) /\ b = FlattenSeq(s)
    BY FlattenType
  <2>12. (a \o b) \o x = a \o (b \o x)
    BY ConcatAssociative
  <2>13. QED
    BY <2>6, <2>7, <2>10, <2>11, <2>12
<1>3. Nat \subseteq N
  <2> HIDE DEF N
  <2>1. QED
    BY <1>1, <1>2, NatsIn
<1>4. Len(tt) \in Nat
  BY LenProperties
<1>5. Holds(tt)
  BY <1>3, <1>4
<1>6. QED
  BY <1>5

\* Dropping the last.
LEMMA FrontFacts ==
    ASSUME NEW S, NEW s \in Seq(S), s # <<>>
    PROVE  /\ Front(s) \in Seq(S) /\ Len(s) \in Nat \ {0} /\ Len(Front(s)) = Len(s) - 1
           /\ \A i \in 1..(Len(s) - 1) : Front(s)[i] = s[i]
           /\ Last(s) \in S /\ Range(s) = Range(Front(s)) \union {Last(s)}
<1>1. PICK n \in Nat \ {0} : n = Len(s)
  BY EmptySeq
<1>2. PICK f : f = Front(s)
  OBVIOUS
<1>3. f = SubSeq(s, 1, n - 1)
  BY <1>1, <1>2 DEF Front
<1>4. f \in Seq(S) /\ Len(f) = n - 1 /\ \A i \in 1..(n - 1) : f[i] = s[i]
  BY <1>1, <1>3
<1>5. Last(s) = s[n] /\ s[n] \in S
  BY <1>1, ElementOfSeq DEF Last
<1>6. Range(s) = {s[i] : i \in 1..n} /\ Range(f) = {f[i] : i \in 1..(n - 1)}
  BY <1>1, <1>4, RangeEquality
<1>7. 1..n = (1..(n - 1)) \union {n}
  OBVIOUS
<1>8. Range(s) = Range(f) \union {s[n]}
  BY <1>4, <1>6, <1>7
<1>9. QED
  BY <1>1, <1>2, <1>4, <1>5, <1>8

LEMMA PushFacts ==
    ASSUME NEW S, NEW s \in Seq(S), NEW x \in S
    PROVE  /\ Append(s, x) \in Seq(S) /\ Len(s) \in Nat /\ Len(Append(s, x)) = Len(s) + 1
           /\ \A i \in 1..Len(s) : Append(s, x)[i] = s[i]
           /\ Append(s, x)[Len(s) + 1] = x
           /\ Range(Append(s, x)) = Range(s) \union {x}
<1>1. PICK n \in Nat : n = Len(s)
  BY LenProperties
<1>2. PICK f : f = Append(s, x)
  OBVIOUS
<1>3. f \in Seq(S) /\ Len(f) = n + 1 /\ f[n + 1] = x /\ \A i \in 1..n : f[i] = s[i]
  BY <1>1, <1>2, AppendProperties
<1>4. Range(s) = {s[i] : i \in 1..n} /\ Range(f) = {f[i] : i \in 1..(n + 1)}
  BY <1>1, <1>3, RangeEquality
<1>5. 1..(n + 1) = (1..n) \union {n + 1}
  OBVIOUS
<1>6. Range(f) = Range(s) \union {x}
  BY <1>3, <1>4, <1>5
<1>7. QED
  BY <1>1, <1>2, <1>3, <1>6

------------------------------------------------------------------------------
(* BookText: the words of a file.                                          *)

TextSpec == TextInit /\ [][TextNext]_textVars

\* What may stand inside an element, at any depth.
After(el) ==
  IF el \in Blocks \union Inline THEN Inline \union {"image"}
  ELSE IF el = "title" THEN {"p", "empty-line", "image"} \union Inline
  ELSE IF el = "table" THEN {"tr", "td", "p", "image"} \union Inline
  ELSE IF el = "tr" THEN {"td", "p", "image"} \union Inline
  ELSE IF el = "td" THEN {"p", "image"} \union Inline
  ELSE IF el \in {"image", "empty-line"} THEN {} ELSE Tags

\* Elements of which one stands around it.
Grounds(el) ==
  IF el \in {"v", "stanza"} THEN {"poem"} ELSE IF el = "tr" THEN {"table"}
  ELSE IF el = "td" THEN {"tr"} ELSE Blocks \union {"td"}
Grounded == {"v", "stanza", "tr", "td"} \union Inline

\* The open elements stand in one another as they may in a file.
Nesting ==
  /\ open \in Seq(Tags)
  /\ \A i, j \in 1..Len(open) : i < j => open[j] \in After(open[i])
  /\ \A j \in 1..Len(open) : open[j] \in Grounded => \E i \in 1..(j - 1) : open[i] \in Grounds(open[j])
  /\ \A i, j \in 1..Len(open) : i < j /\ open[i] = "table" /\ open[j] \notin {"tr", "td"} =>
       \E k \in 1..(j - 1) : open[k] = "td"

AtomSet == [type : {"text", "a", "image"}, run : Nat]
Content == Seq(AtomSet)
KindSet == {"", "p", "epigraph", "epigraph-author", "cite", "poem", "poem-line", "subtitle", "text-author",
            "section", "table", "image", "empty-line", "poem-break"}
ItemSet == [section : Nat, notes : BOOLEAN, kind : KindSet, content : Content, rows : Seq(Seq(Content))]

TextTypes ==
  /\ runs \in Nat /\ notes \in BOOLEAN /\ nested \in BOOLEAN
  /\ titled \subseteq 1..runs /\ noted \subseteq 1..runs
  /\ sections \in Seq(Nat) /\ made \in Seq([notes : BOOLEAN, title : Seq(Nat)])
  /\ items \in Seq(ItemSet)
  /\ para \in [tag : Blocks \union {""}, kind : KindSet, title : BOOLEAN, content : Content]
  /\ table \in Nat /\ row \in Seq(Content)
  /\ cell \in [open : BOOLEAN, content : Content]

\* The flags are those of the open elements.
FlagsTell ==
  /\ \A i, j \in 1..Len(open) : i # j /\ open[i] = open[j] => open[i] \notin Flags
  /\ within = Flags \intersect Range(open)

\* What is collected is what is open.
BlockOpen ==
  /\ para = NoPara => Blocks \intersect Range(open) = {}
  /\ para # NoPara => /\ para.tag \in Blocks \intersect Range(open)
                      /\ para.title = ("title" \in Range(open))
TableOpen ==
  /\ (table # 0) = ("table" \in Range(open))
  /\ cell.open = ("td" \in Range(open)) /\ (~cell.open => cell = NoCell)
  /\ row # <<>> => "tr" \in Range(open)
  /\ table # 0 => /\ table = Len(items)
                  /\ items[table].notes = notes /\ items[table].content = <<>>

\* The texts that are not yet those of an item.
Pending == RunsIn(FlattenSeq(row)) \o RunsIn(cell.content)
             \o (IF para.title THEN <<>> ELSE RunsIn(para.content))
Expected(inNotes) == FlattenSeq([r \in 1..runs |->
                       IF r \notin titled /\ (r \in noted) = inNotes THEN <<r>> ELSE <<>>])
SoFar == \A inNotes \in BOOLEAN :
           Kept(inNotes) \o (IF notes = inNotes THEN Pending ELSE <<>>) = Expected(inNotes)

Rest == FlagsTell /\ BlockOpen /\ TableOpen /\ SoFar /\ KindByContext

TextInv == TextTypes /\ Nesting /\ (~nested => Rest)

------------------------------------------------------------------------------
(* Runs of text.                                                           *)

Marked(content) == [k \in 1..Len(content) |->
                      IF content[k].type = "text" THEN <<content[k].run>> ELSE <<>>]

LEMMA NatAssociative == \A a, b, c \in Seq(Nat) : (a \o b) \o c = a \o (b \o c)
BY ConcatAssociative

LEMMA ItemsSplit ==
    ASSUME NEW its \in Seq(ItemSet), its # <<>>
    PROVE  \E s \in Seq(ItemSet), x \in ItemSet : its = Append(s, x)
BY SequenceEmptyOrAppend

LEMMA MarkedFacts ==
    ASSUME NEW c \in Content
    PROVE  /\ Marked(c) \in Seq(Seq(Nat)) /\ Len(c) \in Nat /\ Len(Marked(c)) = Len(c)
           /\ \A k \in 1..Len(c) : Marked(c)[k] = IF c[k].type = "text" THEN <<c[k].run>> ELSE <<>>
           /\ RunsIn(c) = FlattenSeq(Marked(c))
<1>1. PICK n \in Nat : n = Len(c)
  BY LenProperties DEF Content
<1>2. ASSUME NEW k \in 1..n PROVE c[k].run \in Nat
  <2>1. c[k] \in AtomSet
    BY <1>1, ElementOfSeq DEF Content
  <2>2. QED
    BY <2>1 DEF AtomSet
<1> DEFINE e(k) == IF c[k].type = "text" THEN <<c[k].run>> ELSE <<>>
<1>3. \A k \in 1..n : e(k) \in Seq(Nat)
  BY <1>2
<1>4. PICK m : m = [k \in 1..n |-> e(k)]
  OBVIOUS
<1>5. m \in Seq(Seq(Nat)) /\ Len(m) = n /\ \A k \in 1..n : m[k] = e(k)
  <2> HIDE DEF e
  <2>1. QED
    BY <1>3, <1>4
<1>6. m = Marked(c)
  BY <1>1, <1>4 DEF Marked
<1>7. RunsIn(c) = FlattenSeq(Marked(c))
  BY DEF RunsIn, Marked
<1>8. QED
  BY <1>1, <1>5, <1>6, <1>7

LEMMA RunsType == ASSUME NEW c \in Content PROVE RunsIn(c) \in Seq(Nat)
BY MarkedFacts, FlattenType

LEMMA RunsNone == RunsIn(<<>>) = <<>>
<1>1. Marked(<<>>) = <<>>
  BY DEF Marked
<1>2. FlattenSeq(<<>>) = <<>>
  BY DEF FlattenSeq
<1>3. <<>> \in Content
  BY DEF Content
<1>4. QED
  BY <1>1, <1>2, <1>3, MarkedFacts

LEMMA RunsAppend ==
    ASSUME NEW c \in Content, NEW a \in AtomSet
    PROVE  RunsIn(Append(c, a)) = RunsIn(c) \o (IF a.type = "text" THEN <<a.run>> ELSE <<>>)
<1>1. PICK d : d = Append(c, a)
  OBVIOUS
<1>2. /\ d \in Content /\ Len(c) \in Nat /\ Len(d) = Len(c) + 1 /\ d[Len(c) + 1] = a
      /\ \A k \in 1..Len(c) : d[k] = c[k]
  BY <1>1, PushFacts DEF Content
<1>3. PICK m : m = Marked(c)
  OBVIOUS
<1>4. PICK p : p = Marked(d)
  OBVIOUS
<1>5. /\ m \in Seq(Seq(Nat)) /\ Len(m) = Len(c) /\ RunsIn(c) = FlattenSeq(m)
      /\ \A k \in 1..Len(c) : m[k] = IF c[k].type = "text" THEN <<c[k].run>> ELSE <<>>
  BY <1>3, MarkedFacts
<1>6. /\ p \in Seq(Seq(Nat)) /\ Len(p) = Len(d) /\ RunsIn(d) = FlattenSeq(p)
      /\ \A k \in 1..Len(d) : p[k] = IF d[k].type = "text" THEN <<d[k].run>> ELSE <<>>
  BY <1>2, <1>4, MarkedFacts
<1>7. \A k \in 1..Len(m) : p[k] = m[k]
  <2>1. SUFFICES ASSUME NEW k \in 1..Len(m) PROVE p[k] = m[k]
    OBVIOUS
  <2>2. k \in 1..Len(c) /\ k \in 1..Len(d)
    BY <1>2, <1>5
  <2>3. d[k] = c[k]
    BY <1>2, <2>2
  <2>4. QED
    BY <1>5, <1>6, <2>2, <2>3
<1>8. Len(p) = Len(m) + 1
  BY <1>2, <1>5, <1>6
<1>9. FlattenSeq(p) = FlattenSeq(m) \o p[Len(m) + 1]
  BY <1>5, <1>6, <1>7, <1>8, FlattenNext
<1>10. p[Len(m) + 1] = IF a.type = "text" THEN <<a.run>> ELSE <<>>
  BY <1>2, <1>5, <1>6
<1>11. QED
  BY <1>1, <1>5, <1>6, <1>9, <1>10

LEMMA RunsConcat ==
    ASSUME NEW c \in Content, NEW d \in Content
    PROVE  RunsIn(c \o d) = RunsIn(c) \o RunsIn(d)
<1>1. PICK e : e = c \o d
  OBVIOUS
<1>2. PICK n \in Nat, m \in Nat : n = Len(c) /\ m = Len(d)
  BY LenProperties DEF Content
<1>3. /\ e \in Content /\ Len(e) = n + m
      /\ \A i \in 1..(n + m) : e[i] = IF i <= n THEN c[i] ELSE d[i - n]
  BY <1>1, <1>2, ConcatProperties DEF Content
<1>4. PICK p : p = Marked(c)
  OBVIOUS
<1>5. PICK q : q = Marked(d)
  OBVIOUS
<1>6. PICK r : r = Marked(e)
  OBVIOUS
<1>7. /\ p \in Seq(Seq(Nat)) /\ Len(p) = n /\ RunsIn(c) = FlattenSeq(p)
      /\ \A k \in 1..n : p[k] = IF c[k].type = "text" THEN <<c[k].run>> ELSE <<>>
  BY <1>2, <1>4, MarkedFacts
<1>8. /\ q \in Seq(Seq(Nat)) /\ Len(q) = m /\ RunsIn(d) = FlattenSeq(q)
      /\ \A k \in 1..m : q[k] = IF d[k].type = "text" THEN <<d[k].run>> ELSE <<>>
  BY <1>2, <1>5, MarkedFacts
<1>9. /\ r \in Seq(Seq(Nat)) /\ Len(r) = n + m /\ RunsIn(e) = FlattenSeq(r)
      /\ \A k \in 1..(n + m) : r[k] = IF e[k].type = "text" THEN <<e[k].run>> ELSE <<>>
  BY <1>3, <1>6, MarkedFacts
<1>10. PICK s : s = p \o q
  OBVIOUS
<1>11. /\ s \in Seq(Seq(Nat)) /\ Len(s) = n + m
       /\ \A i \in 1..(n + m) : s[i] = IF i <= n THEN p[i] ELSE q[i - n]
  BY <1>7, <1>8, <1>10, ConcatProperties
<1>12. \A i \in 1..(n + m) : r[i] = s[i]
  <2>1. SUFFICES ASSUME NEW i \in 1..(n + m) PROVE r[i] = s[i]
    OBVIOUS
  <2>2. CASE i <= n
    <3>1. i \in 1..n
      BY <2>2
    <3>2. QED
      BY <1>3, <1>7, <1>9, <1>11, <2>2, <3>1
  <2>3. CASE ~(i <= n)
    <3>1. i - n \in 1..m
      BY <2>3
    <3>2. QED
      BY <1>3, <1>8, <1>9, <1>11, <2>3, <3>1
  <2>4. QED
    BY <2>2, <2>3
<1>13. r = s
  BY <1>9, <1>11, <1>12, SeqEqual
<1>14. FlattenSeq(s) = FlattenSeq(p) \o FlattenSeq(q)
  BY <1>7, <1>8, <1>10, FlattenConcat
<1>15. QED
  BY <1>1, <1>7, <1>8, <1>9, <1>13, <1>14

RowRuns(rows) == [k \in 1..Len(rows) |-> RunsIn(FlattenSeq(rows[k]))]

LEMMA RowRunsFacts ==
    ASSUME NEW rows \in Seq(Seq(Content))
    PROVE  /\ RowRuns(rows) \in Seq(Seq(Nat)) /\ Len(rows) \in Nat /\ Len(RowRuns(rows)) = Len(rows)
           /\ \A k \in 1..Len(rows) : RowRuns(rows)[k] = RunsIn(FlattenSeq(rows[k]))
<1>1. PICK n \in Nat : n = Len(rows)
  BY LenProperties
<1>2. ASSUME NEW k \in 1..n PROVE RunsIn(FlattenSeq(rows[k])) \in Seq(Nat)
  <2>1. rows[k] \in Seq(Content)
    BY <1>1, ElementOfSeq
  <2>2. FlattenSeq(rows[k]) \in Content
    BY <2>1, FlattenType DEF Content
  <2>3. QED
    BY <2>2, RunsType
<1> DEFINE e(k) == RunsIn(FlattenSeq(rows[k]))
<1>3. \A k \in 1..n : e(k) \in Seq(Nat)
  BY <1>2
<1>4. PICK m : m = [k \in 1..n |-> e(k)]
  OBVIOUS
<1>5. m \in Seq(Seq(Nat)) /\ Len(m) = n /\ \A k \in 1..n : m[k] = e(k)
  <2> HIDE DEF e
  <2>1. QED
    BY <1>3, <1>4
<1>6. m = RowRuns(rows)
  BY <1>1, <1>4 DEF RowRuns
<1>7. QED
  BY <1>1, <1>5, <1>6

LEMMA ItemRunsAre == ASSUME NEW x PROVE ItemRuns(x) = RunsIn(x.content) \o FlattenSeq(RowRuns(x.rows))
BY DEF ItemRuns, RowRuns

LEMMA ItemRunsType == ASSUME NEW x \in ItemSet PROVE ItemRuns(x) \in Seq(Nat)
<1>1. x.content \in Content /\ x.rows \in Seq(Seq(Content))
  BY DEF ItemSet
<1>2. RunsIn(x.content) \in Seq(Nat)
  BY <1>1, RunsType
<1>3. FlattenSeq(RowRuns(x.rows)) \in Seq(Nat)
  BY <1>1, RowRunsFacts, FlattenType
<1>4. QED
  BY <1>2, <1>3, ItemRunsAre, ConcatProperties

\* A row that is added brings its texts behind the others.
LEMMA ItemRunsRow ==
    ASSUME NEW x \in ItemSet, NEW r \in Seq(Content), NEW y, y.content = x.content, y.rows = Append(x.rows, r)
    PROVE  ItemRuns(y) = ItemRuns(x) \o RunsIn(FlattenSeq(r))
<1>1. x.content \in Content /\ x.rows \in Seq(Seq(Content))
  BY DEF ItemSet
<1>2. PICK a \in Seq(Nat) : a = RunsIn(x.content)
  BY <1>1, RunsType
<1>3. PICK p \in Seq(Seq(Nat)) : p = RowRuns(x.rows)
  BY <1>1, RowRunsFacts
<1>4. PICK rows \in Seq(Seq(Content)) : rows = y.rows
  BY <1>1, PushFacts
<1>5. /\ Len(x.rows) \in Nat /\ Len(rows) = Len(x.rows) + 1 /\ rows[Len(x.rows) + 1] = r
      /\ \A k \in 1..Len(x.rows) : rows[k] = x.rows[k]
  BY <1>1, <1>4, PushFacts
<1>6. PICK q \in Seq(Seq(Nat)) : q = RowRuns(rows)
  BY RowRunsFacts
<1>7. Len(p) = Len(x.rows) /\ \A k \in 1..Len(x.rows) : p[k] = RunsIn(FlattenSeq(x.rows[k]))
  BY <1>1, <1>3, RowRunsFacts
<1>8. Len(q) = Len(rows) /\ \A k \in 1..Len(rows) : q[k] = RunsIn(FlattenSeq(rows[k]))
  BY <1>6, RowRunsFacts
<1>9. \A k \in 1..Len(p) : q[k] = p[k]
  BY <1>5, <1>7, <1>8
<1>10. Len(q) = Len(p) + 1
  BY <1>5, <1>7, <1>8
<1>11. FlattenSeq(q) = FlattenSeq(p) \o q[Len(p) + 1]
  BY <1>9, <1>10, FlattenNext
<1>12. q[Len(p) + 1] = RunsIn(FlattenSeq(r))
  <2>1. Len(p) + 1 \in 1..Len(rows)
    BY <1>5, <1>7
  <2>2. rows[Len(p) + 1] = r
    BY <1>5, <1>7
  <2>3. q[Len(p) + 1] = RunsIn(FlattenSeq(rows[Len(p) + 1]))
    BY <2>1, <1>8
  <2>4. QED
    BY <2>2, <2>3
<1>13. PICK b \in Seq(Nat), c \in Seq(Nat) : b = FlattenSeq(p) /\ c = RunsIn(FlattenSeq(r))
  <2>1. FlattenSeq(r) \in Content
    BY FlattenType DEF Content
  <2>2. QED
    BY <2>1, RunsType, FlattenType
<1>14. a \o (b \o c) = (a \o b) \o c
  BY NatAssociative
<1>15. ItemRuns(x) = a \o b
  BY <1>2, <1>3, <1>13, ItemRunsAre
<1>16. ItemRuns(y) = a \o (b \o c)
  BY <1>2, <1>4, <1>6, <1>11, <1>12, <1>13, ItemRunsAre
<1>17. QED
  BY <1>13, <1>14, <1>15, <1>16

\* The texts of a list of items.
PartsIn(its, b) == [k \in 1..Len(its) |-> IF its[k].notes = b THEN ItemRuns(its[k]) ELSE <<>>]
KeptIn(its, b) == FlattenSeq(PartsIn(its, b))

LEMMA KeptIs == ASSUME NEW b PROVE Kept(b) = KeptIn(items, b)
BY DEF Kept, KeptIn, PartsIn

LEMMA PartsFacts ==
    ASSUME NEW its \in Seq(ItemSet), NEW b
    PROVE  /\ PartsIn(its, b) \in Seq(Seq(Nat)) /\ Len(its) \in Nat /\ Len(PartsIn(its, b)) = Len(its)
           /\ \A k \in 1..Len(its) : PartsIn(its, b)[k] = IF its[k].notes = b THEN ItemRuns(its[k]) ELSE <<>>
           /\ KeptIn(its, b) \in Seq(Nat)
<1>1. PICK n \in Nat : n = Len(its)
  BY LenProperties
<1> DEFINE e(k) == IF its[k].notes = b THEN ItemRuns(its[k]) ELSE <<>>
<1>2. ASSUME NEW k \in 1..n PROVE e(k) \in Seq(Nat)
  <2>1. its[k] \in ItemSet
    BY <1>1, ElementOfSeq
  <2>2. ItemRuns(its[k]) \in Seq(Nat)
    BY <2>1, ItemRunsType
  <2>3. <<>> \in Seq(Nat)
    OBVIOUS
  <2>4. QED
    BY <2>2, <2>3
<1>3. \A k \in 1..n : e(k) \in Seq(Nat)
  BY <1>2
<1>4. PICK m : m = [k \in 1..n |-> e(k)]
  OBVIOUS
<1>5. m \in Seq(Seq(Nat)) /\ Len(m) = n /\ \A k \in 1..n : m[k] = e(k)
  <2> HIDE DEF e
  <2>1. QED
    BY <1>3, <1>4
<1>6. m = PartsIn(its, b)
  BY <1>1, <1>4 DEF PartsIn
<1>7. KeptIn(its, b) \in Seq(Nat)
  BY <1>5, <1>6, FlattenType DEF KeptIn
<1>8. QED
  BY <1>1, <1>5, <1>6, <1>7

LEMMA KeptAppend ==
    ASSUME NEW its \in Seq(ItemSet), NEW x \in ItemSet, NEW b
    PROVE  KeptIn(Append(its, x), b) = KeptIn(its, b) \o (IF x.notes = b THEN ItemRuns(x) ELSE <<>>)
<1>1. PICK all \in Seq(ItemSet) : all = Append(its, x)
  BY PushFacts
<1>2. /\ Len(its) \in Nat /\ Len(all) = Len(its) + 1 /\ all[Len(its) + 1] = x
      /\ \A k \in 1..Len(its) : all[k] = its[k]
  BY <1>1, PushFacts
<1>3. PICK p \in Seq(Seq(Nat)) : p = PartsIn(its, b)
  BY PartsFacts
<1>4. PICK q \in Seq(Seq(Nat)) : q = PartsIn(all, b)
  BY PartsFacts
<1>5. Len(p) = Len(its) /\ \A k \in 1..Len(its) : p[k] = IF its[k].notes = b THEN ItemRuns(its[k]) ELSE <<>>
  BY <1>3, PartsFacts
<1>6. Len(q) = Len(all) /\ \A k \in 1..Len(all) : q[k] = IF all[k].notes = b THEN ItemRuns(all[k]) ELSE <<>>
  BY <1>4, PartsFacts
<1>7. \A k \in 1..Len(p) : q[k] = p[k]
  <2>1. SUFFICES ASSUME NEW k \in 1..Len(p) PROVE q[k] = p[k]
    OBVIOUS
  <2>2. k \in 1..Len(its) /\ k \in 1..Len(all)
    BY <1>2, <1>5
  <2>3. all[k] = its[k]
    BY <1>2, <2>2
  <2>4. QED
    BY <1>5, <1>6, <2>2, <2>3
<1>8. Len(q) = Len(p) + 1
  BY <1>2, <1>5, <1>6
<1>9. FlattenSeq(q) = FlattenSeq(p) \o q[Len(p) + 1]
  BY <1>7, <1>8, FlattenNext
<1>10. q[Len(p) + 1] = IF x.notes = b THEN ItemRuns(x) ELSE <<>>
  BY <1>2, <1>5, <1>6
<1>11. QED
  BY <1>1, <1>3, <1>4, <1>9, <1>10 DEF KeptIn

\* A row for the last item.
LEMMA KeptRow ==
    ASSUME NEW its \in Seq(ItemSet), its # <<>>, NEW r \in Seq(Content), NEW b,
           NEW new \in Seq(ItemSet), Len(new) = Len(its),
           \A k \in 1..(Len(its) - 1) : new[k] = its[k],
           new[Len(its)].notes = its[Len(its)].notes,
           new[Len(its)].content = its[Len(its)].content,
           new[Len(its)].rows = Append(its[Len(its)].rows, r)
    PROVE  KeptIn(new, b) = KeptIn(its, b) \o (IF its[Len(its)].notes = b THEN RunsIn(FlattenSeq(r)) ELSE <<>>)
<1>1. PICK s \in Seq(ItemSet), x \in ItemSet : its = Append(s, x)
  BY ItemsSplit
<1>2. PICK n \in Nat : n = Len(s)
  BY LenProperties
<1>3. Len(its) = n + 1 /\ its[n + 1] = x /\ \A k \in 1..n : its[k] = s[k]
  BY <1>1, <1>2, PushFacts
<1>4. PICK y \in ItemSet : y = new[n + 1]
  <2>1. n + 1 \in 1..Len(new)
    BY <1>2, <1>3
  <2>2. QED
    BY <2>1, ElementOfSeq
<1>5. PICK t : t = Append(s, y)
  OBVIOUS
<1>6. t \in Seq(ItemSet) /\ Len(t) = n + 1 /\ t[n + 1] = y /\ \A k \in 1..n : t[k] = s[k]
  BY <1>2, <1>5, PushFacts
<1>7. \A k \in 1..n : new[k] = its[k]
  BY <1>3
<1>8. \A k \in 1..(n + 1) : new[k] = t[k]
  <2>1. SUFFICES ASSUME NEW k \in 1..(n + 1) PROVE new[k] = t[k]
    OBVIOUS
  <2>2. k \in 1..n \/ k = n + 1
    OBVIOUS
  <2>3. QED
    BY <1>3, <1>4, <1>6, <1>7, <2>2
<1>9. new = t
  BY <1>3, <1>6, <1>8, SeqEqual
<1>10. y.notes = x.notes /\ y.content = x.content /\ y.rows = Append(x.rows, r)
  BY <1>3, <1>4
<1>11. ItemRuns(y) = ItemRuns(x) \o RunsIn(FlattenSeq(r))
  BY <1>10, ItemRunsRow
<1>12. PICK a \in Seq(Nat) : a = KeptIn(s, b)
  BY PartsFacts
<1>13. PICK c \in Seq(Nat), d \in Seq(Nat) : c = ItemRuns(x) /\ d = RunsIn(FlattenSeq(r))
  <2>1. FlattenSeq(r) \in Content
    BY FlattenType DEF Content
  <2>2. QED
    BY <2>1, RunsType, ItemRunsType
<1>14. KeptIn(its, b) = a \o (IF x.notes = b THEN c ELSE <<>>)
  <2>1. KeptIn(Append(s, x), b) = KeptIn(s, b) \o (IF x.notes = b THEN ItemRuns(x) ELSE <<>>)
    BY KeptAppend
  <2>2. QED
    BY <1>1, <1>12, <1>13, <2>1, Zenon
<1>15. KeptIn(new, b) = a \o (IF x.notes = b THEN c \o d ELSE <<>>)
  <2>1. KeptIn(Append(s, y), b) = KeptIn(s, b) \o (IF y.notes = b THEN ItemRuns(y) ELSE <<>>)
    BY KeptAppend
  <2>2. ItemRuns(y) = c \o d /\ y.notes = x.notes
    BY <1>10, <1>11, <1>13
  <2>3. QED
    BY <1>5, <1>9, <1>12, <2>1, <2>2, Zenon
<1>16. a \o (c \o d) = (a \o c) \o d
  BY NatAssociative
<1>17. (a \o <<>>) \o <<>> = a \o <<>>
  OBVIOUS
<1>18. its[Len(its)].notes = x.notes
  BY <1>3
<1>19. CASE x.notes = b
  BY <1>13, <1>14, <1>15, <1>16, <1>18, <1>19
<1>20. CASE x.notes # b
  BY <1>14, <1>15, <1>17, <1>18, <1>20
<1>21. QED
  BY <1>19, <1>20

\* One more text of the file.
Wanted(n, out, in, b) == [r \in 1..n |-> IF r \notin out /\ (r \in in) = b THEN <<r>> ELSE <<>>]

LEMMA WantedFacts ==
    ASSUME NEW n \in Nat, NEW out, NEW in, NEW b
    PROVE  /\ Wanted(n, out, in, b) \in Seq(Seq(Nat)) /\ Len(Wanted(n, out, in, b)) = n
           /\ \A r \in 1..n : Wanted(n, out, in, b)[r] = IF r \notin out /\ (r \in in) = b THEN <<r>> ELSE <<>>
<1> DEFINE e(r) == IF r \notin out /\ (r \in in) = b THEN <<r>> ELSE <<>>
<1>1. \A r \in 1..n : e(r) \in Seq(Nat)
  OBVIOUS
<1>2. PICK m : m = [r \in 1..n |-> e(r)]
  OBVIOUS
<1>3. m \in Seq(Seq(Nat)) /\ Len(m) = n /\ \A k \in 1..n : m[k] = e(k)
  <2> HIDE DEF e
  <2>1. QED
    BY <1>1, <1>2
<1>4. m = Wanted(n, out, in, b)
  BY <1>2 DEF Wanted
<1>5. QED
  BY <1>3, <1>4

SameUpTo(n, S, Q) == \A r \in 1..n : r \in Q <=> r \in S
WantedAt(r, out, in, b) == IF r \notin out /\ (r \in in) = b THEN <<r>> ELSE <<>>

LEMMA WantedNext ==
    ASSUME NEW n \in Nat, NEW out, NEW in, NEW out2, NEW in2, NEW b,
           SameUpTo(n, out, out2), SameUpTo(n, in, in2)
    PROVE  FlattenSeq(Wanted(n + 1, out2, in2, b)) =
             FlattenSeq(Wanted(n, out, in, b)) \o WantedAt(n + 1, out2, in2, b)
<1>1. PICK p \in Seq(Seq(Nat)) : p = Wanted(n, out, in, b)
  BY WantedFacts
<1>2. n + 1 \in Nat
  OBVIOUS
<1>3. PICK q \in Seq(Seq(Nat)) : q = Wanted(n + 1, out2, in2, b)
  BY <1>2, WantedFacts
<1>4. Len(p) = n /\ \A r \in 1..n : p[r] = IF r \notin out /\ (r \in in) = b THEN <<r>> ELSE <<>>
  BY <1>1, WantedFacts
<1>5. Len(q) = n + 1 /\ \A r \in 1..(n + 1) : q[r] = IF r \notin out2 /\ (r \in in2) = b THEN <<r>> ELSE <<>>
  BY <1>2, <1>3, WantedFacts
<1>6. \A r \in 1..n : q[r] = p[r]
  <2>1. SUFFICES ASSUME NEW r \in 1..n PROVE q[r] = p[r]
    OBVIOUS
  <2>2. r \in 1..(n + 1)
    OBVIOUS
  <2>3. (r \in in2) = (r \in in) /\ (r \in out2) = (r \in out)
    BY DEF SameUpTo
  <2>4. QED
    BY <1>4, <1>5, <2>2, <2>3
<1>7. Len(p) \in Nat /\ Len(q) = Len(p) + 1 /\ \A r \in 1..Len(p) : q[r] = p[r]
  BY <1>4, <1>5, <1>6
<1>8. FlattenSeq(q) = FlattenSeq(p) \o q[Len(p) + 1]
  BY <1>7, FlattenNext
<1>9. q[Len(p) + 1] = IF n + 1 \notin out2 /\ (n + 1 \in in2) = b THEN <<n + 1>> ELSE <<>>
  BY <1>4, <1>5
<1>10. QED
  BY <1>1, <1>3, <1>8, <1>9 DEF WantedAt

------------------------------------------------------------------------------
(* The open elements.                                                      *)

\* What an element that is pushed or on top has around it.
Around(el, R) ==
  /\ el \in Tags
  /\ \A y \in R : el \in After(y)
  /\ el \in Grounded => \E y \in R : y \in Grounds(el)
  /\ "table" \in R /\ el \notin {"tr", "td"} => "td" \in R

LEMMA PushShape ==
    ASSUME Nesting, open # <<>>, NEW el, el \in Children(Top), open' = Append(open, el)
    PROVE  /\ Nesting' /\ Range(open') = Range(open) \union {el}
           /\ Around(el, Range(open))
<1>1. PICK n \in Nat \ {0} : n = Len(open)
  BY EmptySeq DEF Nesting
<1>2. open \in Seq(Tags) /\ open[n] \in Tags /\ Top = open[n]
  BY <1>1, ElementOfSeq DEF Nesting, Top, Last
<1>3. el \in Tags
  BY <1>2, SchemaAssumption
<1>4. /\ open' \in Seq(Tags) /\ Len(open') = n + 1 /\ open'[n + 1] = el
      /\ \A i \in 1..n : open'[i] = open[i]
      /\ Range(open') = Range(open) \union {el}
  BY <1>1, <1>2, <1>3, PushFacts
<1>5. el \in After(open[n])
  BY <1>2, <1>3, SchemaAssumption DEF After, Blocks, Inline, Flags, Tags
<1>6. ASSUME NEW i \in 1..n PROVE el \in After(open[i])
  <2>1. CASE i = n
    BY <1>5, <2>1
  <2>2. CASE i # n
    <3>1. open[n] \in After(open[i])
      BY <1>1, <2>2 DEF Nesting
    <3>2. open[i] \in Tags
      BY <1>1, <1>2, ElementOfSeq
    <3>3. QED
      BY <1>2, <1>3, <3>1, <3>2, SchemaAssumption DEF After, Blocks, Inline, Flags, Tags
  <2>3. QED
    BY <2>1, <2>2
<1>7. ASSUME el \in Grounded PROVE \E i \in 1..n : open[i] \in Grounds(el)
  <2>1. CASE open[n] \in Grounds(el)
    BY <1>1, <2>1
  <2>2. CASE open[n] \notin Grounds(el)
    <3>1. open[n] \in Grounded /\ Grounds(open[n]) = Grounds(el)
      BY <1>2, <1>3, <1>7, <2>2, SchemaAssumption DEF Grounds, Grounded, Blocks, Inline, Flags, Tags
    <3>2. PICK i \in 1..(n - 1) : open[i] \in Grounds(open[n])
      BY <1>1, <3>1 DEF Nesting
    <3>3. QED
      BY <3>1, <3>2
  <2>3. QED
    BY <2>1, <2>2
<1>8. ASSUME NEW i \in 1..n, open[i] = "table", el \notin {"tr", "td"}
      PROVE  \E k \in 1..n : open[k] = "td"
  <2>1. open[n] \notin {"table", "tr"}
    BY <1>2, <1>8, SchemaAssumption DEF Tags
  <2>2. CASE open[n] = "td"
    BY <1>1, <2>2
  <2>3. CASE open[n] # "td"
    <3>1. i < n
      BY <1>8, <2>1
    <3>2. PICK k \in 1..(n - 1) : open[k] = "td"
      BY <1>1, <1>8, <2>1, <2>3, <3>1 DEF Nesting
    <3>3. QED
      BY <3>2
  <2>4. QED
    BY <2>2, <2>3
<1>9. Range(open) = {open[i] : i \in 1..n}
  BY <1>1, <1>2, RangeEquality
<1>10. Around(el, Range(open))
  BY <1>3, <1>6, <1>7, <1>8, <1>9 DEF Around
<1>11. \A i, j \in 1..(n + 1) : i < j => open'[j] \in After(open'[i])
  <2>1. SUFFICES ASSUME NEW i \in 1..(n + 1), NEW j \in 1..(n + 1), i < j
                 PROVE  open'[j] \in After(open'[i])
    OBVIOUS
  <2>2. i \in 1..n /\ (j \in 1..n \/ j = n + 1)
    BY <2>1
  <2>3. open'[i] = open[i]
    BY <1>4, <2>2
  <2>4. CASE j \in 1..n
    <3>1. open'[j] = open[j]
      BY <1>4, <2>4
    <3>2. open[j] \in After(open[i])
      BY <1>1, <2>1, <2>2, <2>4 DEF Nesting
    <3>3. QED
      BY <2>3, <3>1, <3>2
  <2>5. CASE j = n + 1
    BY <1>4, <1>6, <2>2, <2>3, <2>5
  <2>6. QED
    BY <2>2, <2>4, <2>5
<1>12. ASSUME NEW j \in 1..(n + 1), open'[j] \in Grounded
       PROVE  \E i \in 1..(j - 1) : open'[i] \in Grounds(open'[j])
  <2>1. CASE j \in 1..n
    <3>1. open'[j] = open[j]
      BY <1>4, <2>1
    <3>2. PICK i \in 1..(j - 1) : open[i] \in Grounds(open[j])
      BY <1>1, <1>12, <2>1, <3>1 DEF Nesting
    <3>3. i \in 1..n
      BY <2>1
    <3>4. QED
      BY <1>4, <3>1, <3>2, <3>3
  <2>2. CASE j = n + 1
    <3>1. PICK i \in 1..n : open[i] \in Grounds(el)
      BY <1>4, <1>7, <1>12, <2>2
    <3>2. i \in 1..(j - 1) /\ open'[i] = open[i] /\ open'[j] = el
      BY <1>4, <2>2
    <3>3. QED
      BY <3>1, <3>2
  <2>3. j \in 1..n \/ j = n + 1
    OBVIOUS
  <2>4. QED
    BY <2>1, <2>2, <2>3
<1>13. ASSUME NEW i \in 1..(n + 1), NEW j \in 1..(n + 1), i < j, open'[i] = "table", open'[j] \notin {"tr", "td"}
       PROVE  \E k \in 1..(j - 1) : open'[k] = "td"
  <2>1. i \in 1..n /\ open[i] = "table"
    BY <1>4, <1>13
  <2>2. CASE j \in 1..n
    <3>1. open[j] \notin {"tr", "td"}
      BY <1>4, <1>13, <2>2
    <3>2. PICK k \in 1..(j - 1) : open[k] = "td"
      BY <1>1, <1>13, <2>1, <2>2, <3>1 DEF Nesting
    <3>3. k \in 1..n
      BY <2>2
    <3>4. QED
      BY <1>4, <3>2, <3>3
  <2>3. CASE j = n + 1
    <3>1. PICK k \in 1..n : open[k] = "td"
      BY <1>4, <1>8, <1>13, <2>1, <2>3
    <3>2. k \in 1..(j - 1) /\ open'[k] = open[k]
      BY <1>4, <2>3
    <3>3. QED
      BY <3>1, <3>2
  <2>4. j \in 1..n \/ j = n + 1
    OBVIOUS
  <2>5. QED
    BY <2>2, <2>3, <2>4
<1>14. Nesting'
  BY <1>4, <1>11, <1>12, <1>13 DEF Nesting
<1>15. QED
  BY <1>4, <1>10, <1>14

LEMMA PopShape ==
    ASSUME Nesting, open # <<>>, NEW el, el = Top, open' = Front(open)
    PROVE  /\ Nesting' /\ Range(open) = Range(open') \union {el}
           /\ Around(el, Range(open'))
<1>1. PICK n \in Nat \ {0} : n = Len(open)
  BY EmptySeq DEF Nesting
<1>2. open \in Seq(Tags)
  BY DEF Nesting
<1>3. /\ open' \in Seq(Tags) /\ Len(open') = n - 1
      /\ \A i \in 1..(n - 1) : open'[i] = open[i]
      /\ Range(open) = Range(open') \union {Last(open)}
  BY <1>1, <1>2, FrontFacts
<1>4. el = open[n] /\ el = Last(open) /\ el \in Tags
  BY <1>1, <1>2, ElementOfSeq DEF Top, Last
<1>5. Range(open') = {open'[i] : i \in 1..(n - 1)}
  BY <1>3, RangeEquality
<1>6. ASSUME NEW i \in 1..(n - 1) PROVE el \in After(open[i])
  <2>1. i \in 1..Len(open) /\ n \in 1..Len(open) /\ i < n
    BY <1>1
  <2>2. QED
    BY <1>4, <2>1 DEF Nesting
<1>7. el \in Grounded => \E i \in 1..(n - 1) : open[i] \in Grounds(el)
  <2>1. n \in 1..Len(open)
    BY <1>1
  <2>2. QED
    BY <1>4, <2>1 DEF Nesting
<1>8. ASSUME NEW i \in 1..(n - 1), open[i] = "table", el \notin {"tr", "td"}
      PROVE  \E k \in 1..(n - 1) : open[k] = "td"
  <2>1. i \in 1..Len(open) /\ n \in 1..Len(open) /\ i < n
    BY <1>1
  <2>2. QED
    BY <1>4, <1>8, <2>1 DEF Nesting
<1>9. Around(el, Range(open'))
  BY <1>3, <1>4, <1>5, <1>6, <1>7, <1>8 DEF Around
<1>10. \A i, j \in 1..(n - 1) : i < j => open'[j] \in After(open'[i])
  BY <1>1, <1>3 DEF Nesting
<1>11. ASSUME NEW j \in 1..(n - 1), open'[j] \in Grounded
       PROVE  \E i \in 1..(j - 1) : open'[i] \in Grounds(open'[j])
  <2>1. j \in 1..n /\ open'[j] = open[j]
    BY <1>3
  <2>2. PICK i \in 1..(j - 1) : open[i] \in Grounds(open[j])
    BY <1>1, <1>11, <2>1 DEF Nesting
  <2>3. i \in 1..(n - 1)
    OBVIOUS
  <2>4. QED
    BY <1>3, <2>1, <2>2, <2>3
<1>12. ASSUME NEW i \in 1..(n - 1), NEW j \in 1..(n - 1), i < j, open'[i] = "table", open'[j] \notin {"tr", "td"}
       PROVE  \E k \in 1..(j - 1) : open'[k] = "td"
  <2>1. i \in 1..n /\ j \in 1..n /\ open[i] = "table" /\ open[j] \notin {"tr", "td"}
    BY <1>3, <1>12
  <2>2. PICK k \in 1..(j - 1) : open[k] = "td"
    BY <1>1, <1>12, <2>1 DEF Nesting
  <2>3. k \in 1..(n - 1)
    OBVIOUS
  <2>4. QED
    BY <1>3, <2>2, <2>3
<1>13. Nesting'
  BY <1>3, <1>10, <1>11, <1>12 DEF Nesting
<1>14. QED
  BY <1>3, <1>4, <1>9, <1>13

\* Who is in whom.
LEMMA RangeShape ==
    ASSUME Nesting
    PROVE  /\ \A x, y \in Range(open) : x = y \/ x \in After(y) \/ y \in After(x)
           /\ "td" \in Range(open) => "tr" \in Range(open)
           /\ "tr" \in Range(open) => "table" \in Range(open)
<1>1. PICK n \in Nat : n = Len(open)
  BY LenProperties DEF Nesting
<1>2. Range(open) = {open[i] : i \in 1..n}
  BY <1>1, RangeEquality DEF Nesting
<1>3. ASSUME NEW i \in 1..n, NEW j \in 1..n
      PROVE  open[i] = open[j] \/ open[i] \in After(open[j]) \/ open[j] \in After(open[i])
  <2>1. i = j \/ i < j \/ j < i
    OBVIOUS
  <2>2. QED
    BY <1>1, <2>1 DEF Nesting
<1>4. ASSUME NEW j \in 1..n, open[j] = "td" PROVE \E i \in 1..n : open[i] = "tr"
  <2>1. PICK i \in 1..(j - 1) : open[i] \in Grounds("td")
    BY <1>1, <1>4 DEF Nesting, Grounded
  <2>2. i \in 1..n /\ open[i] = "tr"
    BY <2>1 DEF Grounds
  <2>3. QED
    BY <2>2
<1>5. ASSUME NEW j \in 1..n, open[j] = "tr" PROVE \E i \in 1..n : open[i] = "table"
  <2>1. PICK i \in 1..(j - 1) : open[i] \in Grounds("tr")
    BY <1>1, <1>5 DEF Nesting, Grounded
  <2>2. i \in 1..n /\ open[i] = "table"
    BY <2>1 DEF Grounds
  <2>3. QED
    BY <2>2
<1>6. QED
  BY <1>2, <1>3, <1>4, <1>5

LEMMA FlagsPush ==
    ASSUME FlagsTell, open \in Seq(Tags), NEW el \in Tags, open' = Append(open, el),
           ~(el \in Flags /\ el \in Range(open)), within' = within \union ({el} \intersect Flags)
    PROVE  FlagsTell'
<1>1. PICK n \in Nat : n = Len(open)
  BY LenProperties
<1>2. /\ Len(open') = n + 1 /\ open'[n + 1] = el
      /\ \A i \in 1..n : open'[i] = open[i]
      /\ Range(open') = Range(open) \union {el}
  BY <1>1, PushFacts
<1>3. within' = Flags \intersect Range(open')
  BY <1>2 DEF FlagsTell
<1>4. Range(open) = {open[i] : i \in 1..n}
  BY <1>1, RangeEquality
<1>5. ASSUME NEW i \in 1..(n + 1), NEW j \in 1..(n + 1), i < j, open'[i] = open'[j]
      PROVE  open'[i] \notin Flags
  <2>1. i \in 1..n /\ open'[i] = open[i]
    BY <1>2, <1>5
  <2>2. CASE j \in 1..n
    <3>1. open'[j] = open[j]
      BY <1>2, <2>2
    <3>2. i \in 1..Len(open) /\ j \in 1..Len(open) /\ i # j
      BY <1>1, <1>5, <2>1, <2>2
    <3>3. open[i] = open[j]
      BY <1>5, <2>1, <3>1
    <3>4. QED
      BY <2>1, <3>2, <3>3 DEF FlagsTell
  <2>3. CASE j = n + 1
    <3>1. open[i] = el /\ open[i] \in Range(open)
      BY <1>2, <1>4, <1>5, <2>1, <2>3
    <3>2. QED
      BY <2>1, <3>1
  <2>4. j \in 1..n \/ j = n + 1
    OBVIOUS
  <2>5. QED
    BY <2>2, <2>3, <2>4
<1>6. ASSUME NEW i \in 1..(n + 1), NEW j \in 1..(n + 1), i # j, open'[i] = open'[j]
      PROVE  open'[i] \notin Flags
  <2>1. i < j \/ j < i
    BY <1>6
  <2>2. QED
    BY <1>5, <1>6, <2>1
<1>7. QED
  BY <1>2, <1>3, <1>6 DEF FlagsTell

LEMMA FlagsPop ==
    ASSUME FlagsTell, open \in Seq(Tags), open # <<>>, open' = Front(open),
           within' = within \ ({Top} \intersect Flags)
    PROVE  FlagsTell' /\ (Top \in Flags => Top \notin Range(open'))
<1>1. PICK n \in Nat \ {0} : n = Len(open)
  BY EmptySeq
<1>2. /\ open' \in Seq(Tags) /\ Len(open') = n - 1
      /\ \A i \in 1..(n - 1) : open'[i] = open[i]
      /\ Range(open) = Range(open') \union {Last(open)}
  BY <1>1, FrontFacts
<1>3. Top = open[n] /\ Top = Last(open)
  BY <1>1 DEF Top, Last
<1>4. Range(open') = {open'[i] : i \in 1..(n - 1)}
  BY <1>2, RangeEquality
<1>5. ASSUME Top \in Flags, Top \in Range(open') PROVE FALSE
  <2>1. PICK i \in 1..(n - 1) : open'[i] = Top
    BY <1>4, <1>5
  <2>2. i \in 1..Len(open) /\ n \in 1..Len(open) /\ i # n /\ open[i] = open[n]
    BY <1>1, <1>2, <1>3, <2>1
  <2>3. QED
    BY <1>3, <1>5, <2>2 DEF FlagsTell
<1>6. within' = Flags \intersect Range(open')
  BY <1>2, <1>3, <1>5 DEF FlagsTell
<1>7. \A i, j \in 1..(n - 1) : i # j /\ open'[i] = open'[j] => open'[i] \notin Flags
  BY <1>1, <1>2 DEF FlagsTell
<1>8. QED
  BY <1>2, <1>5, <1>6, <1>7 DEF FlagsTell

------------------------------------------------------------------------------
(* What a step leaves as it was.                                           *)

Pend(r, c, p) == RunsIn(FlattenSeq(r)) \o RunsIn(c) \o (IF p.title THEN <<>> ELSE RunsIn(p.content))
Want(b) == FlattenSeq(Wanted(runs, titled, noted, b))

LEMMA SoFarIs ==
    SoFar <=> \A b \in BOOLEAN :
                KeptIn(items, b) \o (IF notes = b THEN Pend(row, cell.content, para) ELSE <<>>) = Want(b)
BY KeptIs DEF SoFar, Expected, Pending, Pend, Want, Wanted

LEMMA SoFarNext ==
    SoFar' <=> \A b \in BOOLEAN :
                 KeptIn(items', b) \o (IF notes' = b THEN Pend(row', cell'.content, para') ELSE <<>>) = Want(b)'
BY DEF SoFar, Expected, Pending, Pend, Want, Wanted, Kept, KeptIn, PartsIn

LEMMA PendType ==
    ASSUME NEW r \in Seq(Content), NEW c \in Content, NEW p, p.content \in Content
    PROVE  Pend(r, c, p) \in Seq(Nat)
<1>1. FlattenSeq(r) \in Content
  BY FlattenType DEF Content
<1>2. RunsIn(FlattenSeq(r)) \in Seq(Nat) /\ RunsIn(c) \in Seq(Nat) /\ RunsIn(p.content) \in Seq(Nat)
  BY <1>1, RunsType
<1>3. RunsIn(FlattenSeq(r)) \o RunsIn(c) \in Seq(Nat)
  BY <1>2, ConcatProperties
<1>4. (IF p.title THEN <<>> ELSE RunsIn(p.content)) \in Seq(Nat)
  BY <1>2
<1>5. QED
  BY <1>3, <1>4, ConcatProperties DEF Pend

LEMMA NoParaTag == NoPara.tag = "" /\ NoPara.tag # "p" /\ NoPara.title = FALSE /\ NoPara.content = <<>>
BY DEF NoPara

\* The same texts in the same order.
LEMMA SoFarSame ==
    ASSUME SoFar, UNCHANGED <<runs, titled, noted>>,
           \A b \in BOOLEAN : KeptIn(items', b) = KeptIn(items, b),
           Pend(row', cell'.content, para') = Pend(row, cell.content, para),
           notes' = notes \/ Pend(row, cell.content, para) = <<>>
    PROVE  SoFar'
<1>1. \A b : Want(b)' = Want(b)
  BY DEF Want, Wanted
<1>2. SUFFICES ASSUME NEW b \in BOOLEAN
               PROVE  KeptIn(items', b) \o (IF notes' = b THEN Pend(row', cell'.content, para') ELSE <<>>) = Want(b)'
  BY SoFarNext
<1>3. KeptIn(items, b) \o (IF notes = b THEN Pend(row, cell.content, para) ELSE <<>>) = Want(b)
  BY SoFarIs
<1>4. KeptIn(items', b) = KeptIn(items, b) /\ Want(b)' = Want(b)
  BY <1>1
<1>5. (IF notes' = b THEN Pend(row', cell'.content, para') ELSE <<>>)
        = (IF notes = b THEN Pend(row, cell.content, para) ELSE <<>>)
  OBVIOUS
<1>6. QED
  BY <1>3, <1>4, <1>5

\* An item without a text.
Empty(x) == x \in ItemSet /\ ItemRuns(x) = <<>>

LEMMA EmptyItem ==
    ASSUME NEW its \in Seq(ItemSet), NEW x, Empty(x)
    PROVE  /\ Append(its, x) \in Seq(ItemSet)
           /\ \A b : KeptIn(Append(its, x), b) = KeptIn(its, b)
<1>1. x \in ItemSet /\ ItemRuns(x) = <<>>
  BY DEF Empty
<1>2. SUFFICES ASSUME NEW b PROVE KeptIn(Append(its, x), b) = KeptIn(its, b)
  BY <1>1, PushFacts
<1>3. KeptIn(Append(its, x), b) = KeptIn(its, b) \o <<>>
  BY <1>1, KeptAppend
<1>4. KeptIn(its, b) \in Seq(Nat)
  BY PartsFacts
<1>5. QED
  BY <1>3, <1>4, ConcatEmptySeq

LEMMA NoRows == FlattenSeq(RowRuns(<<>>)) = <<>>
<1>1. RowRuns(<<>>) = <<>>
  BY DEF RowRuns
<1>2. QED
  BY <1>1 DEF FlattenSeq

LEMMA PlainItem ==
    ASSUME NEW x, x.rows = <<>>, x.content \in Content
    PROVE  ItemRuns(x) = RunsIn(x.content)
<1>1. PICK c \in Seq(Nat) : c = RunsIn(x.content)
  BY RunsType
<1>2. ItemRuns(x) = c \o <<>>
  BY <1>1, NoRows, ItemRunsAre
<1>3. QED
  BY <1>1, <1>2, ConcatEmptySeq

\* What comes of a new item, whatever its kind.
LEMMA ItemType ==
    ASSUME TextTypes, NEW kind \in KindSet, NEW content \in Content
    PROVE  Item(kind, content) \in ItemSet
<1>1. Section \in Nat
  <2>1. CASE sections = <<>>
    BY <2>1 DEF Section
  <2>2. CASE sections # <<>>
    BY <2>2, FrontFacts DEF Section, TextTypes
  <2>3. QED
    BY <2>1, <2>2
<1>2. notes \in BOOLEAN
  BY DEF TextTypes
<1>3. <<>> \in Seq(Seq(Content))
  OBVIOUS
<1>4. QED
  BY <1>1, <1>2, <1>3 DEF Item, ItemSet

MarkSet == {Mark("a"), Mark("image")}

LEMMA MarkFacts ==
    ASSUME NEW a \in MarkSet, NEW c \in Content
    PROVE  a \in AtomSet /\ Append(c, a) \in Content /\ RunsIn(Append(c, a)) = RunsIn(c)
<1>1. a \in AtomSet /\ a.type # "text"
  BY DEF MarkSet, Mark, AtomSet
<1>2. Append(c, a) \in Content
  BY <1>1, PushFacts DEF Content
<1>3. RunsIn(Append(c, a)) = RunsIn(c) \o <<>>
  BY <1>1, RunsAppend
<1>4. RunsIn(c) \o <<>> = RunsIn(c)
  BY RunsType, ConcatEmptySeq
<1>5. QED
  BY <1>1, <1>2, <1>3, <1>4

LEMMA EmptyItems ==
    ASSUME TextTypes, NEW kind \in KindSet
    PROVE  Empty(Item(kind, <<>>)) /\ Empty(Item(kind, <<Mark("image")>>))
<1>1. <<>> \in Content
  BY DEF Content
<1>2. PICK c \in Content : c = Append(<<>>, Mark("image"))
  BY <1>1, MarkFacts DEF MarkSet
<1>3. c = <<Mark("image")>>
  BY <1>2
<1>4. RunsIn(c) = <<>>
  BY <1>1, <1>2, RunsNone, MarkFacts DEF MarkSet
<1>5. Item(kind, <<>>) \in ItemSet /\ Item(kind, c) \in ItemSet
  BY <1>1, ItemType
<1>6. /\ Item(kind, <<>>).rows = <<>> /\ Item(kind, <<>>).content = <<>>
      /\ Item(kind, c).rows = <<>> /\ Item(kind, c).content = c
  BY DEF Item
<1>7. ItemRuns(Item(kind, <<>>)) = RunsIn(<<>>) /\ ItemRuns(Item(kind, c)) = RunsIn(c)
  BY <1>1, <1>6, PlainItem
<1>8. QED
  BY <1>3, <1>4, <1>5, <1>7, RunsNone DEF Empty

\* The elements that decide what is collected, and the kind of a paragraph.
Collects == Blocks \union {"table", "tr", "td"}
SameFor(S, R, Q) == \A x \in S : x \in Q <=> x \in R

LEMMA Quiet ==
    ASSUME TextTypes, ~nested, Rest, FlagsTell', UNCHANGED <<notes, runs, para, table, row, cell, titled, noted>>,
           \/ items' = items
           \/ table = 0 /\ \E x : Empty(x) /\ items' = Append(items, x),
           SameFor(Collects, Range(open), Range(open')),
           para # NoPara => SameFor(Flags, Range(open), Range(open'))
    PROVE  Rest'
<1>1. BlockOpen'
  <2>1. CASE para = NoPara
    BY <2>1 DEF Rest, BlockOpen, SameFor, Collects
  <2>2. CASE para # NoPara
    <3>1. SameFor(Flags, Range(open), Range(open'))
      BY <2>2
    <3>2. ("title" \in Range(open')) = ("title" \in Range(open))
      BY <3>1 DEF SameFor, Flags
    <3>3. para.tag \in Blocks \intersect Range(open')
      BY <2>2 DEF Rest, BlockOpen, SameFor, Collects
    <3>4. QED
      BY <2>2, <3>2, <3>3 DEF Rest, BlockOpen
  <2>3. QED
    BY <2>1, <2>2
<1>2. TableOpen'
  <2>1. /\ ("table" \in Range(open')) = ("table" \in Range(open))
        /\ ("td" \in Range(open')) = ("td" \in Range(open))
        /\ ("tr" \in Range(open')) = ("tr" \in Range(open))
    BY DEF SameFor, Collects
  <2>2. table # 0 => items' = items
    OBVIOUS
  <2>3. QED
    BY <2>1, <2>2 DEF Rest, TableOpen
<1>3. SoFar'
  <2>1. items \in Seq(ItemSet)
    BY DEF TextTypes
  <2>2. ASSUME NEW b PROVE KeptIn(items', b) = KeptIn(items, b)
    <3>1. CASE items' = items
      BY <3>1
    <3>2. CASE \E x : Empty(x) /\ items' = Append(items, x)
      BY <2>1, <3>2, EmptyItem
    <3>3. QED
      BY <3>1, <3>2
  <2>3. SoFar
    BY DEF Rest
  <2>4. QED
    BY <2>2, <2>3, SoFarSame
<1>4. KindByContext'
  <2>1. SUFFICES ASSUME para.tag = "p" PROVE KindByContext'
    BY DEF KindByContext
  <2>2. SameFor(Flags, Range(open), Range(open'))
    <3>1. para # NoPara
      BY <2>1, NoParaTag
    <3>2. QED
      BY <3>1
  <2>3. /\ ("epigraph" \in Range(open')) = ("epigraph" \in Range(open))
        /\ ("cite" \in Range(open')) = ("cite" \in Range(open))
        /\ ("poem" \in Range(open')) = ("poem" \in Range(open))
    BY <2>2 DEF SameFor, Flags
  <2>4. QED
    BY <2>1, <2>3 DEF Rest, KindByContext
<1>5. QED
  BY <1>1, <1>2, <1>3, <1>4 DEF Rest

------------------------------------------------------------------------------
(* Elements that begin and end.                                            *)

LEMMA AroundFacts ==
    ASSUME NEW el, NEW R, Around(el, R)
    PROVE  /\ el \notin Inline \union {"image"} => Blocks \intersect R = {}
           /\ el \notin {"p", "image"} \union Inline => "td" \notin R
           /\ el \notin {"td", "p", "image"} \union Inline => "tr" \notin R
           /\ el \notin {"tr", "td", "p", "image"} \union Inline => "table" \notin R
           /\ el \notin {"p", "empty-line", "image"} \union Inline => "title" \notin R
           /\ el = "v" => "poem" \in R
           /\ el = "td" => "tr" \in R
           /\ el = "tr" => "table" \in R
           /\ el \in Inline => Blocks \intersect R # {} \/ "td" \in R
           /\ el \notin {"tr", "td"} /\ "table" \in R => "td" \in R
<1>1. el \notin Inline \union {"image"} => Blocks \intersect R = {}
  BY DEF Around, After
<1>2. el \notin {"p", "image"} \union Inline => "td" \notin R
  BY DEF Around, After, Blocks, Inline
<1>3. el \notin {"td", "p", "image"} \union Inline => "tr" \notin R
  BY DEF Around, After, Blocks, Inline
<1>4. el \notin {"tr", "td", "p", "image"} \union Inline => "table" \notin R
  BY DEF Around, After, Blocks, Inline
<1>5. el \notin {"p", "empty-line", "image"} \union Inline => "title" \notin R
  BY DEF Around, After, Blocks, Inline
<1>6. el = "v" => "poem" \in R
  BY DEF Around, Grounded, Grounds
<1>7. el = "td" => "tr" \in R
  BY DEF Around, Grounded, Grounds
<1>8. el = "tr" => "table" \in R
  BY DEF Around, Grounded, Grounds
<1>9. el \in Inline => Blocks \intersect R # {} \/ "td" \in R
  BY DEF Around, Grounded, Grounds, Inline
<1>10. el \notin {"tr", "td"} /\ "table" \in R => "td" \in R
  BY DEF Around
<1>11. QED
  BY <1>1, <1>2, <1>3, <1>4, <1>5, <1>6, <1>7, <1>8, <1>9, <1>10

LEMMA MeetShape ==
    ASSUME TextInv, NEW el, Meet(el)
    PROVE  /\ Nesting' /\ Range(open') = Range(open) \union {el} /\ Around(el, Range(open))
           /\ nested' \in BOOLEAN /\ UNCHANGED <<runs, titled, noted>>
           /\ ~nested' => ~nested /\ ~(el \in Flags /\ el \in Range(open))
<1>1. Nesting /\ open # <<>> /\ el \in Children(Top) /\ open' = Append(open, el)
  BY DEF TextInv, Meet
<1>2. Nesting' /\ Range(open') = Range(open) \union {el} /\ Around(el, Range(open))
  BY <1>1, PushShape
<1>3. nested' = (nested \/ (el \in Flags /\ el \in Range(open)))
  BY DEF Meet
<1>4. UNCHANGED <<runs, titled, noted>>
  BY DEF Meet, history
<1>5. QED
  BY <1>2, <1>3, <1>4

LEMMA MeetFlags ==
    ASSUME TextInv, NEW el, Meet(el), ~nested', within' = within \union ({el} \intersect Flags)
    PROVE  FlagsTell'
<1>1. /\ ~nested /\ ~(el \in Flags /\ el \in Range(open)) /\ el \in Tags
      /\ open' = Append(open, el)
  BY MeetShape DEF Around, Meet
<1>2. FlagsTell /\ open \in Seq(Tags)
  BY <1>1 DEF TextInv, Rest, Nesting
<1>3. QED
  BY <1>1, <1>2, FlagsPush

LEMMA LeaveShape ==
    ASSUME TextInv, NEW el, End(el)
    PROVE  /\ Nesting' /\ Range(open) = Range(open') \union {el} /\ Around(el, Range(open'))
           /\ UNCHANGED <<runs, titled, noted, nested>>
<1>1. Nesting /\ open # <<>> /\ el = Top /\ open' = Front(open)
  BY DEF TextInv, End
<1>2. Nesting' /\ Range(open) = Range(open') \union {el} /\ Around(el, Range(open'))
  BY <1>1, PopShape
<1>3. UNCHANGED <<runs, titled, noted, nested>>
  BY DEF End, history
<1>4. QED
  BY <1>2, <1>3

LEMMA LeaveFlags ==
    ASSUME TextInv, NEW el, End(el), ~nested, within' = within \ ({el} \intersect Flags)
    PROVE  FlagsTell' /\ (el \in Flags => el \notin Range(open'))
<1>1. open # <<>> /\ el = Top /\ open' = Front(open)
  BY DEF End
<1>2. FlagsTell /\ open \in Seq(Tags)
  BY DEF TextInv, Rest, Nesting
<1>3. QED
  BY <1>1, <1>2, FlagsPop

\* What is typed in the items is typed with one more without texts.
GrowTypes ==
  /\ sections' \in Seq(Nat) /\ made' \in Seq([notes : BOOLEAN, title : Seq(Nat)])
  /\ items' = items \/ \E x : Empty(x) /\ items' = Append(items, x)

LEMMA GrowKeeps ==
    ASSUME TextTypes, GrowTypes, nested' \in BOOLEAN,
           UNCHANGED <<runs, titled, noted, notes, para, table, row, cell>>
    PROVE  TextTypes'
<1>1. items \in Seq(ItemSet)
  BY DEF TextTypes
<1>2. items' \in Seq(ItemSet)
  <2>1. CASE items' = items
    BY <1>1, <2>1
  <2>2. CASE \E x : Empty(x) /\ items' = Append(items, x)
    BY <1>1, <2>2, EmptyItem
  <2>3. QED
    BY <2>1, <2>2 DEF GrowTypes
<1>3. QED
  BY <1>2 DEF TextTypes, GrowTypes

LEMMA SameTypes ==
    ASSUME TextTypes, UNCHANGED <<sections, made, items>>
    PROVE  GrowTypes
BY DEF TextTypes, GrowTypes

LEMMA MeetQuiet ==
    ASSUME TextInv, NEW el, Meet(el), el \notin Collects, within' = within \union ({el} \intersect Flags),
           GrowTypes, UNCHANGED <<notes, para, table, row, cell>>,
           ~nested => items' = items \/ table = 0
    PROVE  TextInv'
<1>1. /\ Nesting' /\ Range(open') = Range(open) \union {el} /\ Around(el, Range(open))
      /\ nested' \in BOOLEAN /\ UNCHANGED <<runs, titled, noted>>
  BY MeetShape
<1>2. TextTypes'
  BY <1>1, GrowKeeps DEF TextInv
<1>3. ASSUME ~nested' PROVE Rest'
  <2>1. ~nested /\ FlagsTell' /\ Rest /\ TextTypes
    BY <1>3, MeetShape, MeetFlags DEF TextInv
  <2>2. SameFor(Collects, Range(open), Range(open'))
    BY <1>1 DEF SameFor
  <2>3. para # NoPara => SameFor(Flags, Range(open), Range(open'))
    <3>1. CASE el \in Flags
      <4>1. Blocks \intersect Range(open) = {}
        BY <1>1, <3>1, AroundFacts DEF Flags, Inline
      <4>2. QED
        BY <2>1, <4>1 DEF Rest, BlockOpen
    <3>2. CASE el \notin Flags
      BY <1>1, <3>2 DEF SameFor
    <3>3. QED
      BY <3>1, <3>2
  <2>4. \/ items' = items
        \/ table = 0 /\ \E x : Empty(x) /\ items' = Append(items, x)
    BY <2>1 DEF GrowTypes
  <2>5. QED
    BY <1>1, <2>1, <2>2, <2>3, <2>4, Quiet
<1>4. QED
  BY <1>1, <1>2, <1>3 DEF TextInv

LEMMA LeaveQuiet ==
    ASSUME TextInv, NEW el, End(el), el \notin Collects, within' = within \ ({el} \intersect Flags),
           GrowTypes, UNCHANGED <<notes, para, table, row, cell>>,
           ~nested => items' = items \/ table = 0
    PROVE  TextInv'
<1>1. /\ Nesting' /\ Range(open) = Range(open') \union {el} /\ Around(el, Range(open'))
      /\ UNCHANGED <<runs, titled, noted, nested>>
  BY LeaveShape
<1>2. TextTypes'
  <2>1. nested' \in BOOLEAN
    BY <1>1 DEF TextInv, TextTypes
  <2>2. QED
    BY <1>1, <2>1, GrowKeeps DEF TextInv
<1>3. ASSUME ~nested' PROVE Rest'
  <2>1. ~nested /\ FlagsTell' /\ Rest /\ TextTypes
    BY <1>1, <1>3, LeaveFlags DEF TextInv
  <2>2. SameFor(Collects, Range(open), Range(open'))
    BY <1>1 DEF SameFor
  <2>3. para # NoPara => SameFor(Flags, Range(open), Range(open'))
    <3>1. CASE el \in Flags
      <4>1. Blocks \intersect Range(open') = {} /\ el \notin Blocks
        BY <1>1, <3>1, AroundFacts DEF Flags, Inline, Collects
      <4>2. Blocks \intersect Range(open) = {}
        BY <1>1, <4>1
      <4>3. QED
        BY <2>1, <4>2 DEF Rest, BlockOpen
    <3>2. CASE el \notin Flags
      BY <1>1, <3>2 DEF SameFor
    <3>3. QED
      BY <3>1, <3>2
  <2>4. \/ items' = items
        \/ table = 0 /\ \E x : Empty(x) /\ items' = Append(items, x)
    BY <2>1 DEF GrowTypes
  <2>5. QED
    BY <1>1, <2>1, <2>2, <2>3, <2>4, Quiet
<1>4. QED
  BY <1>1, <1>2, <1>3 DEF TextInv

\* A mark is no text: a link or a picture inside of a block or a cell.
LEMMA MeetMark ==
    ASSUME TextInv, NEW el \in {"a", "image"}, Meet(el), Add(Mark(el)),
           UNCHANGED <<notes, within, sections, made, items, table, row>>
    PROVE  TextInv'
<1>1. /\ Nesting' /\ Range(open') = Range(open) \union {el} /\ Around(el, Range(open))
      /\ nested' \in BOOLEAN /\ UNCHANGED <<runs, titled, noted>>
  BY MeetShape
<1>2. Mark(el) \in MarkSet
  BY DEF MarkSet
<1>3. para.content \in Content /\ cell.content \in Content /\ row \in Seq(Content)
  BY DEF TextInv, TextTypes
<1>4. CASE para # NoPara
  <2>1. /\ para' = [para EXCEPT !.content = Append(para.content, Mark(el))] /\ cell' = cell
    BY <1>4 DEF Add
  <2>2. /\ Append(para.content, Mark(el)) \in Content
        /\ RunsIn(Append(para.content, Mark(el))) = RunsIn(para.content)
    BY <1>2, <1>3, MarkFacts
  <2>3. /\ para'.tag = para.tag /\ para'.kind = para.kind /\ para'.title = para.title
        /\ para'.content = Append(para.content, Mark(el))
    BY <2>1 DEF TextInv, TextTypes
  <2>4. TextTypes'
    <3>1. TextTypes
      BY DEF TextInv
    <3>2. para' \in [tag : Blocks \union {""}, kind : KindSet, title : BOOLEAN, content : Content]
      BY <2>1, <2>2, <3>1 DEF TextTypes
    <3>3. QED
      BY <1>1, <2>1, <3>1, <3>2 DEF TextTypes
  <2>5. ASSUME ~nested' PROVE Rest'
    <3>1. ~nested /\ Rest /\ TextTypes
      BY <2>5, MeetShape DEF TextInv
    <3>2. within' = within \union ({el} \intersect Flags)
      BY DEF Flags
    <3>3. FlagsTell'
      BY <2>5, <3>2, MeetFlags
    <3>4. SameFor(Collects \union Flags, Range(open), Range(open'))
      BY <1>1 DEF SameFor, Collects, Blocks, Flags
    <3>5. para.tag \in Blocks \intersect Range(open) /\ para.title = ("title" \in Range(open))
      BY <1>4, <3>1 DEF Rest, BlockOpen
    <3>6. para' # NoPara
      BY <2>3, <3>5, NoParaTag DEF Blocks
    <3>7. BlockOpen'
      <4>1. para'.tag \in Blocks \intersect Range(open')
        BY <1>1, <2>3, <3>5
      <4>2. ("title" \in Range(open')) = ("title" \in Range(open))
        BY <3>4 DEF SameFor, Flags
      <4>3. QED
        BY <2>3, <3>5, <3>6, <4>1, <4>2 DEF BlockOpen
    <3>8. TableOpen'
      <4>1. /\ ("table" \in Range(open')) = ("table" \in Range(open))
            /\ ("td" \in Range(open')) = ("td" \in Range(open))
            /\ ("tr" \in Range(open')) = ("tr" \in Range(open))
        BY <3>4 DEF SameFor, Collects
      <4>2. QED
        BY <2>1, <3>1, <4>1 DEF Rest, TableOpen
    <3>9. SoFar'
      <4>1. Pend(row', cell'.content, para') = Pend(row, cell.content, para)
        BY <2>1, <2>2, <2>3 DEF Pend
      <4>2. SoFar /\ (\A b \in BOOLEAN : KeptIn(items', b) = KeptIn(items, b))
        BY <3>1 DEF Rest
      <4>3. QED
        BY <1>1, <4>1, <4>2, SoFarSame
    <3>10. KindByContext'
      <4>1. /\ ("epigraph" \in Range(open')) = ("epigraph" \in Range(open))
            /\ ("cite" \in Range(open')) = ("cite" \in Range(open))
            /\ ("poem" \in Range(open')) = ("poem" \in Range(open))
        BY <3>4 DEF SameFor, Flags
      <4>2. QED
        BY <2>3, <3>1, <4>1 DEF Rest, KindByContext
    <3>11. QED
      BY <3>3, <3>7, <3>8, <3>9, <3>10 DEF Rest
  <2>6. QED
    BY <1>1, <2>4, <2>5 DEF TextInv
<1>5. CASE para = NoPara /\ ~cell.open
  <2>1. UNCHANGED <<para, cell>>
    BY <1>5 DEF Add
  <2>2. GrowTypes
    BY SameTypes DEF TextInv
  <2>3. el \notin Collects /\ within' = within \union ({el} \intersect Flags)
    BY DEF Collects, Blocks, Flags
  <2>4. QED
    BY <2>1, <2>2, <2>3, MeetQuiet
<1>6. CASE para = NoPara /\ cell.open
  <2>1. cell' = [cell EXCEPT !.content = Append(cell.content, Mark(el))] /\ para' = para
    BY <1>6 DEF Add
  <2>2. /\ Append(cell.content, Mark(el)) \in Content
        /\ RunsIn(Append(cell.content, Mark(el))) = RunsIn(cell.content)
    BY <1>2, <1>3, MarkFacts
  <2>3. cell'.open = cell.open /\ cell'.content = Append(cell.content, Mark(el))
    BY <2>1 DEF TextInv, TextTypes
  <2>4. TextTypes'
    <3>1. TextTypes
      BY DEF TextInv
    <3>2. cell' \in [open : BOOLEAN, content : Content]
      BY <2>1, <2>2, <3>1 DEF TextTypes
    <3>3. QED
      BY <1>1, <2>1, <3>1, <3>2 DEF TextTypes
  <2>5. ASSUME ~nested' PROVE Rest'
    <3>1. ~nested /\ Rest /\ TextTypes
      BY <2>5, MeetShape DEF TextInv
    <3>2. within' = within \union ({el} \intersect Flags)
      BY DEF Flags
    <3>3. FlagsTell'
      BY <2>5, <3>2, MeetFlags
    <3>4. SameFor(Collects \union Flags, Range(open), Range(open'))
      BY <1>1 DEF SameFor, Collects, Blocks, Flags
    <3>5. BlockOpen'
      BY <1>6, <2>1, <3>1, <3>4 DEF Rest, BlockOpen, SameFor, Collects
    <3>6. TableOpen'
      <4>1. /\ ("table" \in Range(open')) = ("table" \in Range(open))
            /\ ("td" \in Range(open')) = ("td" \in Range(open))
            /\ ("tr" \in Range(open')) = ("tr" \in Range(open))
        BY <3>4 DEF SameFor, Collects
      <4>2. cell.open /\ cell'.open
        BY <1>6, <2>3
      <4>3. QED
        BY <2>3, <3>1, <4>1, <4>2 DEF Rest, TableOpen
    <3>7. SoFar'
      <4>1. Pend(row', cell'.content, para') = Pend(row, cell.content, para)
        BY <2>1, <2>2, <2>3 DEF Pend
      <4>2. SoFar /\ (\A b \in BOOLEAN : KeptIn(items', b) = KeptIn(items, b))
        BY <3>1 DEF Rest
      <4>3. QED
        BY <1>1, <4>1, <4>2, SoFarSame
    <3>8. KindByContext'
      BY <1>6, <2>1, NoParaTag DEF KindByContext
    <3>9. QED
      BY <3>3, <3>5, <3>6, <3>7, <3>8 DEF Rest
  <2>6. QED
    BY <1>1, <2>4, <2>5 DEF TextInv
<1>7. QED
  BY <1>4, <1>5, <1>6

------------------------------------------------------------------------------
(* Elements that begin.                                                    *)

LEMMA NoTableOpen ==
    ASSUME TextInv, ~nested, "table" \notin Range(open)
    PROVE  table = 0
BY DEF TextInv, Rest, TableOpen

\* Around a picture or an empty line that is an item of its own no table is open.
LEMMA SingleAlone ==
    ASSUME TextInv, ~nested, NEW el \in {"image", "empty-line"}, Around(el, Range(open)), ~cell.open
    PROVE  table = 0
<1>1. "table" \in Range(open) => "td" \in Range(open)
  BY AroundFacts
<1>2. cell.open = ("td" \in Range(open)) /\ (table # 0) = ("table" \in Range(open))
  BY DEF TextInv, Rest, TableOpen
<1>3. QED
  BY <1>1, <1>2

LEMMA StartSectionKeeps == ASSUME TextInv, StartSection PROVE TextInv'
<1>1. Meet("section") /\ within' = within \union ({"section"} \intersect Flags) /\ "section" \notin Collects
  BY DEF StartSection, Flags, Collects, Blocks
<1>2. Around("section", Range(open))
  BY <1>1, MeetShape
<1>3. "table" \notin Range(open)
  BY <1>2, AroundFacts DEF Inline
<1>4. GrowTypes
  <2>1. CASE Len(sections) >= MaxSections
    BY <2>1, SameTypes DEF StartSection, TextInv
  <2>2. CASE ~(Len(sections) >= MaxSections)
    <3>1. /\ made' = Append(made, [notes |-> notes, title |-> <<>>])
          /\ sections' = Append(sections, Len(made'))
          /\ items' = Append(items, Item("section", <<>>))
      BY <2>2 DEF StartSection
    <3>2. TextTypes
      BY DEF TextInv
    <3>3. [notes |-> notes, title |-> <<>>] \in [notes : BOOLEAN, title : Seq(Nat)]
      <4>1. notes \in BOOLEAN
        BY <3>2 DEF TextTypes
      <4>2. <<>> \in Seq(Nat)
        OBVIOUS
      <4>3. QED
        BY <4>1, <4>2
    <3>4. made' \in Seq([notes : BOOLEAN, title : Seq(Nat)]) /\ Len(made') \in Nat
      BY <3>1, <3>2, <3>3, PushFacts, LenProperties DEF TextTypes
    <3>5. sections' \in Seq(Nat)
      BY <3>1, <3>2, <3>4, PushFacts DEF TextTypes
    <3>6. Empty(Item("section", <<>>))
      BY <3>2, EmptyItems DEF KindSet
    <3>7. QED
      BY <3>1, <3>4, <3>5, <3>6 DEF GrowTypes
  <2>3. QED
    BY <2>1, <2>2
<1>5. ~nested => items' = items \/ table = 0
  BY <1>3, NoTableOpen
<1>6. UNCHANGED <<notes, para, table, row, cell>>
  BY DEF StartSection
<1>7. QED
  BY <1>1, <1>4, <1>5, <1>6, MeetQuiet

LEMMA StartStanzaKeeps == ASSUME TextInv, StartStanza PROVE TextInv'
<1>1. Meet("stanza") /\ within' = within \union ({"stanza"} \intersect Flags) /\ "stanza" \notin Collects
  BY DEF StartStanza, Flags, Collects, Blocks
<1>2. UNCHANGED <<notes, para, table, row, cell, sections, made, items>>
  BY DEF StartStanza
<1>3. GrowTypes
  BY <1>2, SameTypes DEF TextInv
<1>4. QED
  BY <1>1, <1>2, <1>3, MeetQuiet

LEMMA StartInlineKeeps == ASSUME TextInv, NEW el \in Inline, StartInline(el) PROVE TextInv'
<1>1. /\ Meet(el) /\ within' = within \union ({el} \intersect Flags) /\ el \notin Collects
      /\ UNCHANGED <<notes, within, sections, made, items, table, row>>
  BY DEF StartInline, Flags, Collects, Blocks, Inline
<1>2. GrowTypes
  BY <1>1, SameTypes DEF TextInv
<1>3. CASE el = "a" /\ Add(Mark("a"))
  BY <1>1, <1>3, MeetMark
<1>4. CASE UNCHANGED <<para, cell>>
  BY <1>1, <1>2, <1>4, MeetQuiet
<1>5. QED
  BY <1>3, <1>4 DEF StartInline, Inline

LEMMA StartSingleKeeps ==
    ASSUME TextInv, NEW el \in {"image", "empty-line"}, StartSingle(el)
    PROVE  TextInv'
<1>1. /\ Meet(el) /\ within' = within \union ({el} \intersect Flags) /\ el \notin Collects
      /\ UNCHANGED <<notes, within, sections, made, table, row>>
  BY DEF StartSingle, Flags, Collects, Blocks
<1>2. Around(el, Range(open))
  BY <1>1, MeetShape
<1>3. CASE el = "image" /\ (para # NoPara \/ cell.open)
  <2>1. Add(Mark("image")) /\ UNCHANGED items
    BY <1>3 DEF StartSingle
  <2>2. QED
    BY <1>1, <1>3, <2>1, MeetMark
<1>4. CASE ~(el = "image" /\ (para # NoPara \/ cell.open))
  <2>1. /\ items' = Append(items, Item(IF el = "empty-line" /\ "poem" \in within THEN "poem-break" ELSE el,
                                      IF el = "image" THEN <<Mark(el)>> ELSE <<>>))
        /\ UNCHANGED <<para, cell>>
    BY <1>4 DEF StartSingle
  <2>2. PICK kind \in KindSet : kind = IF el = "empty-line" /\ "poem" \in within THEN "poem-break" ELSE el
    BY DEF KindSet
  <2>3. PICK x : Empty(x) /\ items' = Append(items, x)
    <3>1. TextTypes
      BY DEF TextInv
    <3>2. Empty(Item(kind, <<>>)) /\ Empty(Item(kind, <<Mark("image")>>))
      BY <3>1, EmptyItems
    <3>3. CASE el = "image"
      BY <2>1, <2>2, <3>2, <3>3
    <3>4. CASE el # "image"
      BY <2>1, <2>2, <3>2, <3>4
    <3>5. QED
      BY <3>3, <3>4
  <2>4. GrowTypes
    BY <1>1, <2>3 DEF GrowTypes, TextInv, TextTypes
  <2>5. ASSUME ~nested PROVE table = 0
    <3>1. ~cell.open
      <4>1. CASE el = "image"
        BY <1>4, <4>1
      <4>2. CASE el = "empty-line"
        <5>1. "td" \notin Range(open)
          BY <1>2, <4>2, AroundFacts DEF Inline
        <5>2. QED
          BY <2>5, <5>1 DEF TextInv, Rest, TableOpen
      <4>3. QED
        BY <4>1, <4>2
    <3>2. QED
      BY <1>2, <2>5, <3>1, SingleAlone
  <2>6. UNCHANGED <<notes, para, table, row, cell>>
    BY <1>1, <2>1
  <2>7. QED
    BY <1>1, <2>4, <2>5, <2>6, MeetQuiet
<1>5. QED
  BY <1>3, <1>4
------------------------------------------------------------------------------
(* Elements that end and leave nothing behind.                             *)

LEMMA EndStanzaKeeps == ASSUME TextInv, EndStanza PROVE TextInv'
<1>1. /\ End("stanza") /\ within' = within \ ({"stanza"} \intersect Flags) /\ "stanza" \notin Collects
      /\ UNCHANGED <<notes, para, table, row, cell, sections, made>>
  BY DEF EndStanza, Flags, Collects, Blocks
<1>2. "table" \notin Range(open)
  <2>1. Around("stanza", Range(open')) /\ Range(open) = Range(open') \union {"stanza"}
    BY <1>1, LeaveShape
  <2>2. "table" \notin Range(open')
    BY <2>1, AroundFacts DEF Inline
  <2>3. QED
    BY <2>1, <2>2
<1>3. GrowTypes
  <2>1. Empty(Item("poem-break", <<>>)) /\ TextTypes
    BY EmptyItems DEF KindSet, TextInv
  <2>2. items' = items \/ items' = Append(items, Item("poem-break", <<>>))
    BY DEF EndStanza
  <2>3. QED
    BY <1>1, <2>1, <2>2 DEF GrowTypes, TextTypes
<1>4. QED
  BY <1>1, <1>2, <1>3, NoTableOpen, LeaveQuiet

LEMMA EndInlineKeeps == ASSUME TextInv, NEW el \in Inline, EndInline(el) PROVE TextInv'
<1>1. /\ End(el) /\ within' = within \ ({el} \intersect Flags) /\ el \notin Collects
      /\ UNCHANGED <<notes, para, table, row, cell, sections, made, items>>
  BY DEF EndInline, Flags, Collects, Blocks, Inline
<1>2. GrowTypes
  BY <1>1, SameTypes DEF TextInv
<1>3. QED
  BY <1>1, <1>2, LeaveQuiet

LEMMA EndSectionKeeps == ASSUME TextInv, EndSection PROVE TextInv'
<1>1. /\ End("section") /\ within' = within \ ({"section"} \intersect Flags) /\ "section" \notin Collects
      /\ UNCHANGED <<notes, para, table, row, cell, made, items>>
  BY DEF EndSection, Flags, Collects, Blocks
<1>2. GrowTypes
  <2>1. TextTypes
    BY DEF TextInv
  <2>2. sections' \in Seq(Nat)
    BY <2>1, FrontFacts DEF TextTypes, EndSection
  <2>3. QED
    BY <1>1, <2>1, <2>2 DEF GrowTypes, TextTypes
<1>3. QED
  BY <1>1, <1>2, LeaveQuiet

LEMMA EndOtherKeeps ==
    ASSUME TextInv, NEW el \in {"image", "empty-line", "FictionBook"}, EndOther(el)
    PROVE  TextInv'
<1>1. /\ End(el) /\ within' = within \ ({el} \intersect Flags) /\ el \notin Collects
      /\ UNCHANGED <<notes, para, table, row, cell, sections, made, items>>
  BY DEF EndOther, Flags, Collects, Blocks
<1>2. GrowTypes
  BY <1>1, SameTypes DEF TextInv
<1>3. QED
  BY <1>1, <1>2, LeaveQuiet

------------------------------------------------------------------------------
(* A text block begins.                                                    *)

ParaSet == [tag : Blocks \union {""}, kind : KindSet, title : BOOLEAN, content : Content]
KindIn(R) == IF "epigraph" \in R THEN "epigraph" ELSE IF "cite" \in R THEN "cite"
             ELSE IF "poem" \in R THEN "poem" ELSE "p"
NewPara(el, p, R) ==
  /\ p.tag = el /\ p.title = ("title" \in R) /\ p.content = <<>>
  /\ el = "p" => p.kind = KindIn(R)

LEMMA NoBlockOpen ==
    ASSUME TextInv, ~nested, NEW el \in Blocks, Around(el, Range(open))
    PROVE  para = NoPara
<1>1. Blocks \intersect Range(open) = {}
  BY AroundFacts DEF Blocks, Inline
<1>2. BlockOpen
  BY DEF TextInv, Rest
<1>3. QED
  BY <1>1, <1>2 DEF BlockOpen

LEMMA MeetBlock ==
    ASSUME TextInv, NEW el \in Blocks, Meet(el), within' = within \union ({el} \intersect Flags),
           UNCHANGED <<notes, sections, made, items, table, row, cell>>, para' \in ParaSet,
           ~nested => NewPara(el, para', Range(open))
    PROVE  TextInv'
<1>1. /\ Nesting' /\ Range(open') = Range(open) \union {el} /\ Around(el, Range(open))
      /\ nested' \in BOOLEAN /\ UNCHANGED <<runs, titled, noted>>
  BY MeetShape
<1>2. TextTypes'
  <2>1. TextTypes
    BY DEF TextInv
  <2>2. QED
    BY <1>1, <2>1 DEF TextTypes, ParaSet
<1>3. ASSUME ~nested' PROVE Rest'
  <2>1. ~nested /\ FlagsTell' /\ Rest /\ TextTypes
    BY <1>3, MeetShape, MeetFlags DEF TextInv
  <2>2. para = NoPara /\ NewPara(el, para', Range(open))
    BY <1>1, <2>1, NoBlockOpen
  <2>3. SameFor({"title", "epigraph", "cite", "poem", "table", "tr", "td"}, Range(open), Range(open'))
    BY <1>1 DEF SameFor, Blocks
  <2>4. BlockOpen'
    <3>1. para'.tag = el /\ el \in Range(open')
      BY <1>1, <2>2 DEF NewPara
    <3>2. para' # NoPara
      BY <3>1, NoParaTag DEF Blocks
    <3>3. para'.title = ("title" \in Range(open'))
      BY <2>2, <2>3 DEF NewPara, SameFor
    <3>4. QED
      BY <3>1, <3>2, <3>3 DEF BlockOpen
  <2>5. TableOpen'
    <3>1. /\ ("table" \in Range(open')) = ("table" \in Range(open))
          /\ ("td" \in Range(open')) = ("td" \in Range(open))
          /\ ("tr" \in Range(open')) = ("tr" \in Range(open))
      BY <2>3 DEF SameFor
    <3>2. QED
      BY <2>1, <3>1 DEF Rest, TableOpen
  <2>6. SoFar'
    <3>1. Pend(row', cell'.content, para') = Pend(row, cell.content, para)
      <4>1. RunsIn(para'.content) = <<>> /\ RunsIn(para.content) = <<>>
        BY <2>2, RunsNone, NoParaTag DEF NewPara
      <4>2. QED
        BY <4>1 DEF Pend
    <3>2. SoFar /\ (\A b \in BOOLEAN : KeptIn(items', b) = KeptIn(items, b))
      BY <2>1 DEF Rest
    <3>3. QED
      BY <1>1, <3>1, <3>2, SoFarSame
  <2>7. KindByContext'
    <3>1. SUFFICES ASSUME para'.tag = "p" PROVE para'.kind = KindIn(Range(open'))
      BY DEF KindByContext, KindIn
    <3>2. para'.kind = KindIn(Range(open))
      BY <2>2, <3>1 DEF NewPara
    <3>3. KindIn(Range(open')) = KindIn(Range(open))
      BY <2>3 DEF SameFor, KindIn
    <3>4. QED
      BY <3>2, <3>3
  <2>8. QED
    BY <2>1, <2>4, <2>5, <2>6, <2>7 DEF Rest
<1>4. QED
  BY <1>1, <1>2, <1>3 DEF TextInv

\* What the flags say is what is open.
LEMMA FlagsAre ==
    ASSUME TextInv, ~nested
    PROVE  /\ "title" \in within <=> "title" \in Range(open)
           /\ "poem" \in within <=> "poem" \in Range(open)
           /\ para = NoPara => KindNow = KindIn(Range(open))
<1>1. within = Flags \intersect Range(open)
  BY DEF TextInv, Rest, FlagsTell
<1>2. /\ "title" \in within <=> "title" \in Range(open)
      /\ "poem" \in within <=> "poem" \in Range(open)
      /\ "cite" \in within <=> "cite" \in Range(open)
      /\ "epigraph" \in within <=> "epigraph" \in Range(open)
  BY <1>1 DEF Flags
<1>3. para = NoPara => "text-author" \notin within
  BY <1>1 DEF TextInv, Rest, BlockOpen, Blocks
<1>4. QED
  BY <1>2, <1>3 DEF KindNow, KindIn

LEMMA ParaTyped ==
    ASSUME NEW tag \in Blocks, NEW kind \in KindSet, NEW title \in BOOLEAN
    PROVE  [tag |-> tag, kind |-> kind, title |-> title, content |-> <<>>] \in ParaSet
<1>1. <<>> \in Content
  BY DEF Content
<1>2. QED
  BY <1>1 DEF ParaSet

LEMMA StartParagraphKeeps == ASSUME TextInv, StartParagraph PROVE TextInv'
<1>1. /\ Meet("p") /\ within' = within \union ({"p"} \intersect Flags) /\ "p" \in Blocks
      /\ UNCHANGED <<notes, sections, made, items, table, row, cell>>
  BY DEF StartParagraph, Flags, Blocks
<1>2. PICK new : new = [tag |-> "p", kind |-> KindNow, title |-> "title" \in within, content |-> <<>>]
  OBVIOUS
<1>3. new \in ParaSet
  <2>1. KindNow \in KindSet
    BY DEF KindNow, KindSet
  <2>2. ("title" \in within) \in BOOLEAN
    OBVIOUS
  <2>3. QED
    BY <1>1, <1>2, <2>1, <2>2, ParaTyped
<1>4. para' \in ParaSet
  <2>1. para \in ParaSet
    BY DEF TextInv, TextTypes, ParaSet
  <2>2. CASE para # NoPara
    <3>1. para' = [para EXCEPT !.title = "title" \in within]
      BY <2>2 DEF StartParagraph
    <3>2. ("title" \in within) \in BOOLEAN
      OBVIOUS
    <3>3. QED
      BY <2>1, <3>1, <3>2 DEF ParaSet
  <2>3. CASE para = NoPara
    BY <1>2, <1>3, <2>3 DEF StartParagraph
  <2>4. QED
    BY <2>2, <2>3
<1>5. ASSUME ~nested PROVE NewPara("p", para', Range(open))
  <2>1. Around("p", Range(open))
    BY <1>1, MeetShape
  <2>2. para = NoPara
    BY <1>1, <1>5, <2>1, NoBlockOpen
  <2>3. para' = new
    BY <1>2, <2>2 DEF StartParagraph
  <2>4. para'.tag = "p" /\ para'.kind = KindNow /\ para'.title = ("title" \in within) /\ para'.content = <<>>
    BY <1>2, <2>3
  <2>5. ("title" \in within) = ("title" \in Range(open)) /\ KindNow = KindIn(Range(open))
    BY <1>5, <2>2, FlagsAre
  <2>6. QED
    BY <2>4, <2>5 DEF NewPara
<1>6. QED
  BY <1>1, <1>4, <1>5, MeetBlock

LEMMA BeginFacts ==
    ASSUME TextInv, NEW el \in Blocks \ {"p"}, NEW kind \in KindSet, Begin(el, kind)
    PROVE  /\ para' \in ParaSet
           /\ ~nested /\ Around(el, Range(open)) => NewPara(el, para', Range(open))
<1>1. PICK new : new = [tag |-> el, kind |-> kind, title |-> FALSE, content |-> <<>>]
  OBVIOUS
<1>2. new \in ParaSet
  BY <1>1, ParaTyped
<1>3. para' \in ParaSet
  <2>1. para \in ParaSet
    BY DEF TextInv, TextTypes, ParaSet
  <2>2. QED
    BY <1>1, <1>2, <2>1 DEF Begin
<1>4. ASSUME ~nested, Around(el, Range(open)) PROVE NewPara(el, para', Range(open))
  <2>1. para = NoPara
    BY <1>4, NoBlockOpen
  <2>2. para' = new
    BY <1>1, <2>1 DEF Begin
  <2>3. "title" \notin Range(open)
    BY <1>4, AroundFacts DEF Blocks, Inline
  <2>4. para'.tag = el /\ para'.title = FALSE /\ para'.content = <<>>
    BY <1>1, <2>2
  <2>5. ("title" \in Range(open)) = FALSE
    BY <2>3
  <2>6. el # "p"
    OBVIOUS
  <2>7. QED
    BY <2>4, <2>5, <2>6 DEF NewPara
<1>5. QED
  BY <1>3, <1>4

LEMMA StartLineKeeps == ASSUME TextInv, NEW el \in {"v", "subtitle"}, StartLine(el) PROVE TextInv'
<1>1. /\ Meet(el) /\ within' = within \union ({el} \intersect Flags) /\ el \in Blocks \ {"p"}
      /\ UNCHANGED <<notes, sections, made, items, table, row, cell>>
  BY DEF StartLine, Flags, Blocks
<1>2. Around(el, Range(open))
  BY <1>1, MeetShape
<1>3. CASE el = "v" /\ "poem" \notin within
  <2>1. para' = para
    BY <1>3 DEF StartLine
  <2>2. para' \in ParaSet
    BY <2>1 DEF TextInv, TextTypes, ParaSet
  <2>3. nested \in BOOLEAN /\ nested
    <3>1. "poem" \in Range(open)
      BY <1>2, <1>3, AroundFacts
    <3>2. QED
      BY <1>3, <3>1, FlagsAre DEF TextInv, TextTypes
  <2>4. QED
    BY <1>1, <2>2, <2>3, MeetBlock
<1>4. CASE ~(el = "v" /\ "poem" \notin within)
  <2>1. PICK kind \in KindSet : kind = IF el = "v" THEN "poem-line" ELSE el
    BY DEF KindSet
  <2>2. Begin(el, kind)
    BY <1>4, <2>1 DEF StartLine
  <2>3. para' \in ParaSet /\ (~nested => NewPara(el, para', Range(open)))
    BY <1>1, <1>2, <2>2, BeginFacts
  <2>4. QED
    BY <1>1, <2>3, MeetBlock
<1>5. QED
  BY <1>3, <1>4

LEMMA StartFlagKeeps == ASSUME TextInv, NEW el \in Flags, StartFlag(el) PROVE TextInv'
<1>1. /\ Meet(el) /\ within' = within \union ({el} \intersect Flags)
      /\ UNCHANGED <<notes, sections, made, items, table, row, cell>>
  BY DEF StartFlag
<1>2. CASE el = "text-author"
  <2>1. el \in Blocks \ {"p"} /\ el \in KindSet /\ Begin(el, el)
    BY <1>2 DEF StartFlag, Blocks, KindSet
  <2>2. Around(el, Range(open))
    BY <1>1, MeetShape
  <2>3. para' \in ParaSet /\ (~nested => NewPara(el, para', Range(open)))
    BY <2>1, <2>2, BeginFacts
  <2>4. QED
    BY <1>1, <2>1, <2>3, MeetBlock
<1>3. CASE el # "text-author"
  <2>1. UNCHANGED para /\ el \notin Collects
    BY <1>3 DEF StartFlag, Flags, Collects, Blocks
  <2>2. GrowTypes
    BY <1>1, SameTypes DEF TextInv
  <2>3. QED
    BY <1>1, <2>1, <2>2, MeetQuiet
<1>4. QED
  BY <1>2, <1>3

------------------------------------------------------------------------------
(* Bodies and tables: no text block is open where they begin and end.      *)

LEMMA NoBlockRest ==
    ASSUME TextInv, ~nested, FlagsTell', TableOpen', para = NoPara, Blocks \intersect Range(open') = {},
           UNCHANGED <<runs, titled, noted, para>>,
           \A b \in BOOLEAN : KeptIn(items', b) = KeptIn(items, b),
           Pend(row', cell'.content, para') = Pend(row, cell.content, para),
           notes' = notes \/ Pend(row, cell.content, para) = <<>>
    PROVE  Rest'
<1>1. SoFar
  BY DEF TextInv, Rest
<1>2. SoFar'
  BY <1>1, SoFarSame
<1>3. BlockOpen'
  BY DEF BlockOpen
<1>4. KindByContext'
  BY NoParaTag DEF KindByContext
<1>5. QED
  BY <1>2, <1>3, <1>4 DEF Rest

LEMMA NoBlockAt ==
    ASSUME TextInv, ~nested, Blocks \intersect Range(open) = {}
    PROVE  para = NoPara
BY DEF TextInv, Rest, BlockOpen

LEMMA NoFlattened == FlattenSeq(<<>>) = <<>>
BY DEF FlattenSeq

\* Outside of blocks, rows and cells nothing is pending.
LEMMA NothingPends ==
    ASSUME NEW p, p = NoPara
    PROVE  Pend(<<>>, <<>>, p) = <<>>
<1>1. RunsIn(FlattenSeq(<<>>)) = <<>> /\ RunsIn(<<>>) = <<>>
  BY RunsNone, NoFlattened
<1>2. (IF p.title THEN <<>> ELSE RunsIn(p.content)) = <<>>
  BY RunsNone, NoParaTag
<1>3. <<>> \o <<>> = <<>>
  OBVIOUS
<1>4. QED
  BY <1>1, <1>2, <1>3 DEF Pend

LEMMA OutsideCells ==
    ASSUME TextInv, ~nested, "td" \notin Range(open)
    PROVE  cell = NoCell /\ cell.open = FALSE /\ cell.content = <<>>
<1>1. cell.open = ("td" \in Range(open)) /\ (~cell.open => cell = NoCell)
  BY DEF TextInv, Rest, TableOpen
<1>2. ("td" \in Range(open)) = FALSE
  OBVIOUS
<1>3. cell.open = FALSE /\ cell = NoCell
  BY <1>1, <1>2
<1>4. QED
  BY <1>3 DEF NoCell

LEMMA OutsideRows ==
    ASSUME TextInv, ~nested, "tr" \notin Range(open)
    PROVE  row = <<>>
BY DEF TextInv, Rest, TableOpen

LEMMA OutsideTables ==
    ASSUME table' = 0, cell' = NoCell, row' = <<>>, "td" \notin Range(open'), "table" \notin Range(open')
    PROVE  TableOpen'
<1>1. cell'.open = FALSE /\ (table' # 0) = FALSE
  BY DEF NoCell
<1>2. ("td" \in Range(open')) = FALSE /\ ("table" \in Range(open')) = FALSE
  OBVIOUS
<1>3. QED
  BY <1>1, <1>2 DEF TableOpen

LEMMA StartBodyKeeps == ASSUME TextInv, StartBody PROVE TextInv'
<1>1. /\ Meet("body") /\ within' = within \union ({"body"} \intersect Flags) /\ notes' \in BOOLEAN
      /\ UNCHANGED <<sections, made, items, para, table, row, cell>>
  BY DEF StartBody, Flags
<1>2. /\ Nesting' /\ Range(open') = Range(open) \union {"body"} /\ Around("body", Range(open))
      /\ nested' \in BOOLEAN /\ UNCHANGED <<runs, titled, noted>>
  BY <1>1, MeetShape
<1>3. TextTypes'
  BY <1>1, <1>2 DEF TextInv, TextTypes
<1>4. ASSUME ~nested' PROVE Rest'
  <2>1. ~nested /\ FlagsTell'
    BY <1>1, <1>4, MeetShape, MeetFlags
  <2>2. /\ Blocks \intersect Range(open) = {} /\ "td" \notin Range(open) /\ "tr" \notin Range(open)
        /\ "table" \notin Range(open)
    BY <1>2, AroundFacts DEF Inline
  <2>3. /\ Blocks \intersect Range(open') = {} /\ "td" \notin Range(open') /\ "tr" \notin Range(open')
        /\ "table" \notin Range(open')
    BY <1>2, <2>2 DEF Blocks
  <2>4. para = NoPara /\ cell = NoCell /\ cell.open = FALSE /\ cell.content = <<>> /\ row = <<>> /\ table = 0
    BY <2>1, <2>2, NoBlockAt, OutsideCells, OutsideRows, NoTableOpen
  <2>5. TableOpen'
    BY <1>1, <2>3, <2>4, OutsideTables
  <2>6. Pend(row, cell.content, para) = <<>>
    BY <2>4, NothingPends
  <2>7. QED
    BY <1>1, <1>2, <2>1, <2>3, <2>4, <2>5, <2>6, NoBlockRest
<1>5. QED
  BY <1>2, <1>3, <1>4 DEF TextInv

LEMMA EndBodyKeeps == ASSUME TextInv, EndBody PROVE TextInv'
<1>1. /\ End("body") /\ within' = within \ ({"body"} \intersect Flags) /\ notes' \in BOOLEAN
      /\ UNCHANGED <<sections, made, items, para, table, row, cell>>
  BY DEF EndBody, Flags
<1>2. /\ Nesting' /\ Range(open) = Range(open') \union {"body"} /\ Around("body", Range(open'))
      /\ UNCHANGED <<runs, titled, noted, nested>>
  BY <1>1, LeaveShape
<1>3. TextTypes'
  BY <1>1, <1>2 DEF TextInv, TextTypes
<1>4. ASSUME ~nested' PROVE Rest'
  <2>1. ~nested /\ FlagsTell'
    BY <1>1, <1>2, <1>4, LeaveFlags
  <2>2. /\ Blocks \intersect Range(open') = {} /\ "td" \notin Range(open') /\ "tr" \notin Range(open')
        /\ "table" \notin Range(open')
    BY <1>2, AroundFacts DEF Inline
  <2>3. /\ Blocks \intersect Range(open) = {} /\ "td" \notin Range(open) /\ "tr" \notin Range(open)
        /\ "table" \notin Range(open)
    BY <1>2, <2>2 DEF Blocks
  <2>4. para = NoPara /\ cell = NoCell /\ cell.open = FALSE /\ cell.content = <<>> /\ row = <<>> /\ table = 0
    BY <2>1, <2>3, NoBlockAt, OutsideCells, OutsideRows, NoTableOpen
  <2>5. TableOpen'
    BY <1>1, <2>2, <2>4, OutsideTables
  <2>6. Pend(row, cell.content, para) = <<>>
    BY <2>4, NothingPends
  <2>7. QED
    BY <1>1, <1>2, <2>1, <2>2, <2>4, <2>5, <2>6, NoBlockRest
<1>5. QED
  BY <1>2, <1>3, <1>4 DEF TextInv

LEMMA StartTableKeeps == ASSUME TextInv, StartTable PROVE TextInv'
<1>1. /\ Meet("table") /\ within' = within \union ({"table"} \intersect Flags)
      /\ UNCHANGED <<notes, sections, made, para>>
  BY DEF StartTable, Flags
<1>2. /\ Nesting' /\ Range(open') = Range(open) \union {"table"} /\ Around("table", Range(open))
      /\ nested' \in BOOLEAN /\ UNCHANGED <<runs, titled, noted>>
  BY <1>1, MeetShape
<1>3. PICK x \in ItemSet : x = Item("table", <<>>) /\ Empty(x)
  BY EmptyItems DEF TextInv, KindSet, Empty
<1>4. x.notes = notes /\ x.content = <<>>
  BY <1>3 DEF Item
<1>5. items \in Seq(ItemSet)
  BY DEF TextInv, TextTypes
<1>6. /\ Append(items, x) \in Seq(ItemSet) /\ Len(items) \in Nat /\ Len(Append(items, x)) = Len(items) + 1
      /\ Append(items, x)[Len(items) + 1] = x
  BY <1>3, <1>5, PushFacts
<1>7. CASE table # 0
  <2>1. UNCHANGED <<items, table, row, cell>>
    BY <1>7 DEF StartTable
  <2>2. TextTypes'
    BY <1>1, <1>2, <2>1 DEF TextInv, TextTypes
  <2>3. nested
    <3>1. "table" \notin Range(open)
      BY <1>2, AroundFacts DEF Inline
    <3>2. QED
      BY <1>7, <3>1, NoTableOpen DEF TextInv, TextTypes
  <2>4. nested'
    BY <1>1, <1>2, <2>3, MeetShape
  <2>5. QED
    BY <1>2, <2>2, <2>4 DEF TextInv
<1>8. CASE table = 0
  <2>1. items' = Append(items, x) /\ table' = Len(items) + 1 /\ row' = <<>> /\ cell' = NoCell
    BY <1>3, <1>6, <1>8 DEF StartTable
  <2>2. TextTypes'
    <3>1. TextTypes
      BY DEF TextInv
    <3>2. table' \in Nat
      BY <1>6, <2>1
    <3>3. row' \in Seq(Content) /\ NoCell \in [open : BOOLEAN, content : Content]
      BY <2>1 DEF NoCell, Content
    <3>4. QED
      BY <1>1, <1>2, <1>6, <2>1, <3>1, <3>2, <3>3 DEF TextTypes
  <2>3. ASSUME ~nested' PROVE Rest'
    <3>1. ~nested /\ FlagsTell'
      BY <1>1, <2>3, MeetShape, MeetFlags
    <3>2. /\ Blocks \intersect Range(open) = {} /\ "td" \notin Range(open) /\ "tr" \notin Range(open)
      BY <1>2, AroundFacts DEF Inline
    <3>3. /\ Blocks \intersect Range(open') = {} /\ "td" \notin Range(open') /\ "table" \in Range(open')
      BY <1>2, <3>2 DEF Blocks
    <3>4. para = NoPara /\ cell = NoCell /\ cell.open = FALSE /\ cell.content = <<>> /\ row = <<>>
      BY <3>1, <3>2, NoBlockAt, OutsideCells, OutsideRows
    <3>5. TableOpen'
      <4>1. table' # 0 /\ table' = Len(items') /\ items'[table'] = x
        BY <1>6, <2>1
      <4>2. (table' # 0) = ("table" \in Range(open'))
        BY <3>3, <4>1
      <4>3. cell'.open = FALSE /\ ("td" \in Range(open')) = FALSE
        BY <2>1, <3>3 DEF NoCell
      <4>4. items'[table'].notes = notes' /\ items'[table'].content = <<>>
        BY <1>1, <1>4, <4>1
      <4>5. QED
        BY <2>1, <4>1, <4>2, <4>3, <4>4 DEF TableOpen
    <3>6. \A b \in BOOLEAN : KeptIn(items', b) = KeptIn(items, b)
      BY <1>3, <1>5, <2>1, EmptyItem
    <3>7. QED
      BY <1>1, <1>2, <2>1, <3>1, <3>3, <3>4, <3>5, <3>6, NoBlockRest
  <2>4. QED
    BY <1>2, <2>2, <2>3 DEF TextInv
<1>9. QED
  BY <1>7, <1>8

LEMMA StartRowKeeps == ASSUME TextInv, StartRow PROVE TextInv'
<1>1. /\ Meet("tr") /\ within' = within \union ({"tr"} \intersect Flags) /\ (row' = <<>> \/ row' = row)
      /\ UNCHANGED <<notes, sections, made, items, para, table, cell>>
  BY DEF StartRow, Flags
<1>2. /\ Nesting' /\ Range(open') = Range(open) \union {"tr"} /\ Around("tr", Range(open))
      /\ nested' \in BOOLEAN /\ UNCHANGED <<runs, titled, noted>>
  BY <1>1, MeetShape
<1>3. TextTypes'
  <2>1. TextTypes
    BY DEF TextInv
  <2>2. row' \in Seq(Content)
    <3>1. row \in Seq(Content)
      BY <2>1 DEF TextTypes
    <3>2. <<>> \in Seq(Content)
      OBVIOUS
    <3>3. QED
      BY <1>1, <3>1, <3>2
  <2>3. QED
    BY <1>1, <1>2, <2>1, <2>2 DEF TextTypes
<1>4. ASSUME ~nested' PROVE Rest'
  <2>1. ~nested /\ FlagsTell' /\ TableOpen
    BY <1>1, <1>4, MeetShape, MeetFlags DEF TextInv, Rest
  <2>2. /\ Blocks \intersect Range(open) = {} /\ "td" \notin Range(open) /\ "tr" \notin Range(open)
        /\ "table" \in Range(open)
    BY <1>2, AroundFacts DEF Inline
  <2>3. /\ Blocks \intersect Range(open') = {} /\ "td" \notin Range(open') /\ "table" \in Range(open')
    BY <1>2, <2>2 DEF Blocks
  <2>4. para = NoPara /\ cell = NoCell /\ cell.open = FALSE /\ row = <<>> /\ row' = <<>>
    BY <1>1, <2>1, <2>2, NoBlockAt, OutsideCells, OutsideRows
  <2>5. TableOpen'
    BY <1>1, <2>1, <2>2, <2>3, <2>4 DEF TableOpen
  <2>6. QED
    BY <1>1, <1>2, <2>1, <2>3, <2>4, <2>5, NoBlockRest
<1>5. QED
  BY <1>2, <1>3, <1>4 DEF TextInv

LEMMA StartCellKeeps == ASSUME TextInv, StartCell PROVE TextInv'
<1>1. /\ Meet("td") /\ within' = within \union ({"td"} \intersect Flags)
      /\ cell' = IF table # 0 THEN [open |-> TRUE, content |-> <<>>] ELSE cell
      /\ UNCHANGED <<notes, sections, made, items, para, table, row>>
  BY DEF StartCell, Flags
<1>2. /\ Nesting' /\ Range(open') = Range(open) \union {"td"} /\ Around("td", Range(open))
      /\ nested' \in BOOLEAN /\ UNCHANGED <<runs, titled, noted>>
  BY <1>1, MeetShape
<1>3. TextTypes'
  <2>1. [open |-> TRUE, content |-> <<>>] \in [open : BOOLEAN, content : Content]
    BY DEF Content
  <2>2. QED
    BY <1>1, <1>2, <2>1 DEF TextInv, TextTypes
<1>4. ASSUME ~nested' PROVE Rest'
  <2>1. ~nested /\ FlagsTell' /\ TableOpen /\ Nesting
    BY <1>1, <1>4, MeetShape, MeetFlags DEF TextInv, Rest
  <2>2. /\ Blocks \intersect Range(open) = {} /\ "td" \notin Range(open) /\ "tr" \in Range(open)
    BY <1>2, AroundFacts DEF Inline
  <2>3. "table" \in Range(open)
    BY <2>1, <2>2, RangeShape
  <2>4. /\ Blocks \intersect Range(open') = {} /\ "td" \in Range(open') /\ "table" \in Range(open')
        /\ "tr" \in Range(open')
    BY <1>2, <2>2, <2>3 DEF Blocks
  <2>5. para = NoPara /\ cell.content = <<>> /\ table # 0
    BY <2>1, <2>2, <2>3, NoBlockAt, OutsideCells DEF TableOpen
  <2>6. cell' = [open |-> TRUE, content |-> <<>>]
    BY <1>1, <2>5
  <2>7. cell'.open = TRUE /\ cell'.content = <<>>
    BY <2>6
  <2>8. TableOpen'
    BY <1>1, <2>1, <2>3, <2>4, <2>5, <2>7 DEF TableOpen
  <2>9. QED
    BY <1>1, <1>2, <2>1, <2>4, <2>5, <2>7, <2>8, NoBlockRest
<1>5. QED
  BY <1>2, <1>3, <1>4 DEF TextInv

------------------------------------------------------------------------------
(* Cells, rows and tables end.                                             *)

RowIn(its, t, r) == [its EXCEPT ![t].rows = Append(@, r)]

LEMMA RowAdded ==
    ASSUME NEW its \in Seq(ItemSet), NEW t, NEW r \in Seq(Content), NEW new, new = RowIn(its, t, r)
    PROVE  /\ new \in Seq(ItemSet) /\ Len(new) = Len(its)
           /\ \A k \in 1..Len(its) : k # t => new[k] = its[k]
           /\ t \in 1..Len(its) => /\ new[t].notes = its[t].notes /\ new[t].content = its[t].content
                                   /\ new[t].rows = Append(its[t].rows, r)
<1>1. CASE t \in 1..Len(its)
  <2>1. PICK x \in ItemSet : x = its[t]
    BY <1>1, ElementOfSeq
  <2>2. Append(x.rows, r) \in Seq(Seq(Content))
    <3>1. x.rows \in Seq(Seq(Content))
      BY DEF ItemSet
    <3>2. QED
      BY <3>1, PushFacts
  <2>3. PICK y : y = [x EXCEPT !.rows = Append(x.rows, r)]
    OBVIOUS
  <2>4. /\ y \in ItemSet /\ y.notes = x.notes /\ y.content = x.content
        /\ y.rows = Append(x.rows, r)
    BY <2>2, <2>3 DEF ItemSet
  <2>5. new = [its EXCEPT ![t] = y]
    BY <2>1, <2>3 DEF RowIn
  <2>6. y \in ItemSet
    BY <2>4
  <2>7. /\ new \in Seq(ItemSet) /\ Len(new) = Len(its)
        /\ \A k \in 1..Len(its) : new[k] = IF k = t THEN y ELSE its[k]
    <3>1. [its EXCEPT ![t] = y] \in Seq(ItemSet)
      BY <1>1, <2>6, ExceptSeq
    <3>2. Len([its EXCEPT ![t] = y]) = Len(its)
      BY <1>1, <2>6, ExceptSeq
    <3>3. \A k \in 1..Len(its) : [its EXCEPT ![t] = y][k] = IF k = t THEN y ELSE its[k]
      BY <1>1, <2>6, ExceptSeq
    <3>4. QED
      BY <2>5, <3>1, <3>2, <3>3
  <2>8. new[t] = y /\ \A k \in 1..Len(its) : k # t => new[k] = its[k]
    BY <1>1, <2>7
  <2>9. QED
    BY <2>1, <2>4, <2>7, <2>8
<1>2. CASE t \notin 1..Len(its)
  <2>1. new = its
    BY <1>2 DEF RowIn
  <2>2. QED
    BY <1>2, <2>1
<1>3. QED
  BY <1>1, <1>2

\* A cell that is closed is the last of its row: the texts do not move.
LEMMA CellJoins ==
    ASSUME NEW r \in Seq(Content), NEW c \in Content, NEW p, p = NoPara
    PROVE  Pend(Append(r, c), <<>>, p) = Pend(r, c, p)
<1>1. PICK s \in Seq(Content) : s = Append(r, c)
  BY PushFacts
<1>2. /\ Len(s) = Len(r) + 1 /\ s[Len(r) + 1] = c
      /\ \A i \in 1..Len(r) : s[i] = r[i]
  BY <1>1, PushFacts
<1>3. r \in Seq(Seq(AtomSet)) /\ s \in Seq(Seq(AtomSet))
  BY DEF Content
<1>4. FlattenSeq(s) = FlattenSeq(r) \o c
  BY <1>2, <1>3, FlattenNext
<1>5. PICK f \in Content : f = FlattenSeq(r)
  BY <1>3, FlattenType DEF Content
<1>6. RunsIn(FlattenSeq(s)) = RunsIn(f) \o RunsIn(c)
  BY <1>4, <1>5, RunsConcat
<1>7. PICK a \in Seq(Nat), b \in Seq(Nat) : a = RunsIn(f) /\ b = RunsIn(c)
  BY RunsType
<1>8. PICK ab \in Seq(Nat) : ab = a \o b
  BY ConcatProperties
<1>9. (IF p.title THEN <<>> ELSE RunsIn(p.content)) = <<>>
  BY RunsNone, NoParaTag
<1>10. Pend(s, <<>>, p) = (ab \o <<>>) \o <<>>
  BY <1>6, <1>7, <1>8, <1>9, RunsNone DEF Pend
<1>11. Pend(r, c, p) = ab \o <<>>
  BY <1>5, <1>7, <1>8, <1>9 DEF Pend
<1>12. ab \o <<>> = ab
  BY ConcatEmptySeq
<1>13. QED
  BY <1>1, <1>10, <1>11, <1>12

LEMMA InsideTables ==
    ASSUME table' # 0, "table" \in Range(open'), cell' = NoCell, "td" \notin Range(open'),
           row' # <<>> => "tr" \in Range(open'),
           table' = Len(items'), items'[table'].notes = notes', items'[table'].content = <<>>
    PROVE  TableOpen'
<1>1. cell'.open = FALSE /\ (table' # 0) = TRUE
  BY DEF NoCell
<1>2. ("td" \in Range(open')) = FALSE /\ ("table" \in Range(open')) = TRUE
  OBVIOUS
<1>3. QED
  BY <1>1, <1>2 DEF TableOpen

LEMMA EndCellKeeps == ASSUME TextInv, EndCell PROVE TextInv'
<1>1. /\ End("td") /\ within' = within \ ({"td"} \intersect Flags)
      /\ UNCHANGED <<notes, sections, made, items, para, table>>
  BY DEF EndCell, Flags
<1>2. /\ Nesting' /\ Range(open) = Range(open') \union {"td"} /\ Around("td", Range(open'))
      /\ UNCHANGED <<runs, titled, noted, nested>>
  BY <1>1, LeaveShape
<1>3. TextTypes
  BY DEF TextInv
<1>4. row \in Seq(Content) /\ cell.content \in Content
  BY <1>3 DEF TextTypes
<1>5. TextTypes'
  <2>1. NoCell \in [open : BOOLEAN, content : Content]
    BY DEF NoCell, Content
  <2>2. cell' \in [open : BOOLEAN, content : Content]
    BY <1>3, <2>1 DEF EndCell, TextTypes
  <2>3. row' \in Seq(Content)
    BY <1>4, PushFacts DEF EndCell
  <2>4. QED
    BY <1>1, <1>2, <1>3, <2>2, <2>3 DEF TextTypes
<1>6. ASSUME ~nested' PROVE Rest'
  <2>1. ~nested /\ FlagsTell' /\ TableOpen
    BY <1>1, <1>2, <1>6, LeaveFlags DEF TextInv, Rest
  <2>2. /\ Blocks \intersect Range(open') = {} /\ "td" \notin Range(open') /\ "tr" \in Range(open')
    BY <1>2, AroundFacts DEF Inline
  <2>3. "table" \in Range(open')
    <3>1. "table" \in Range(open)
      BY <1>2, <2>2, RangeShape DEF TextInv
    <3>2. QED
      BY <1>2, <3>1
  <2>4. Blocks \intersect Range(open) = {} /\ "td" \in Range(open) /\ "table" \in Range(open)
    BY <1>2, <2>2, <2>3 DEF Blocks
  <2>5. para = NoPara /\ table # 0 /\ cell.open = TRUE
    BY <2>1, <2>4, NoBlockAt DEF TableOpen
  <2>6. row' = Append(row, cell.content) /\ cell' = NoCell
    BY <2>5 DEF EndCell
  <2>7. cell'.open = FALSE /\ cell'.content = <<>>
    BY <2>6 DEF NoCell
  <2>8. Pend(row', cell'.content, para') = Pend(row, cell.content, para)
    BY <1>1, <1>4, <2>5, <2>6, <2>7, CellJoins
  <2>9. TableOpen'
    <3>1. table = Len(items) /\ items[table].notes = notes /\ items[table].content = <<>>
      BY <2>1, <2>5 DEF TableOpen
    <3>2. QED
      BY <1>1, <2>2, <2>3, <2>5, <2>6, <3>1, InsideTables
  <2>10. QED
    BY <1>1, <1>2, <2>1, <2>2, <2>5, <2>8, <2>9, NoBlockRest
<1>7. QED
  BY <1>2, <1>5, <1>6 DEF TextInv

LEMMA EndTableKeeps == ASSUME TextInv, EndTable PROVE TextInv'
<1>1. /\ End("table") /\ within' = within \ ({"table"} \intersect Flags)
      /\ UNCHANGED <<notes, sections, made, items, para>>
      /\ \/ table' = 0 /\ row' = <<>> /\ cell' = NoCell
         \/ table = 0 /\ UNCHANGED <<table, row, cell>>
  BY DEF EndTable, Flags
<1>2. /\ Nesting' /\ Range(open) = Range(open') \union {"table"} /\ Around("table", Range(open'))
      /\ UNCHANGED <<runs, titled, noted, nested>>
  BY <1>1, LeaveShape
<1>3. TextTypes'
  <2>1. TextTypes
    BY DEF TextInv
  <2>2. NoCell \in [open : BOOLEAN, content : Content]
    BY DEF NoCell, Content
  <2>3. table' \in Nat
    <3>1. table \in Nat /\ (table' = 0 \/ table' = table)
      BY <1>1, <2>1 DEF TextTypes
    <3>2. QED
      BY <3>1
  <2>4. cell' \in [open : BOOLEAN, content : Content]
    <3>1. cell \in [open : BOOLEAN, content : Content]
      BY <2>1 DEF TextTypes
    <3>2. QED
      BY <1>1, <2>2, <3>1
  <2>5. <<>> \in Seq(Content)
    OBVIOUS
  <2>6. row \in Seq(Content)
    BY <2>1 DEF TextTypes
  <2>7. row' \in Seq(Content)
    BY <1>1, <2>5, <2>6
  <2>8. QED
    BY <1>1, <1>2, <2>1, <2>3, <2>4, <2>7 DEF TextTypes
<1>4. ASSUME ~nested' PROVE Rest'
  <2>1. ~nested /\ FlagsTell'
    BY <1>1, <1>2, <1>4, LeaveFlags
  <2>2. /\ Blocks \intersect Range(open') = {} /\ "td" \notin Range(open') /\ "tr" \notin Range(open')
        /\ "table" \notin Range(open')
    BY <1>2, AroundFacts DEF Inline
  <2>3. /\ Blocks \intersect Range(open) = {} /\ "td" \notin Range(open) /\ "tr" \notin Range(open)
    BY <1>2, <2>2 DEF Blocks
  <2>4. para = NoPara /\ cell = NoCell /\ cell.content = <<>> /\ row = <<>>
    BY <2>1, <2>3, NoBlockAt, OutsideCells, OutsideRows
  <2>5. table' = 0 /\ row' = <<>> /\ cell' = NoCell
    BY <1>1, <2>4
  <2>6. TableOpen'
    BY <2>2, <2>5, OutsideTables
  <2>7. QED
    BY <1>1, <1>2, <2>1, <2>2, <2>4, <2>5, <2>6, NoBlockRest
<1>5. QED
  BY <1>2, <1>3, <1>4 DEF TextInv

LEMMA EndRowKeeps == ASSUME TextInv, EndRow PROVE TextInv'
<1>1. /\ End("tr") /\ within' = within \ ({"tr"} \intersect Flags)
      /\ UNCHANGED <<notes, sections, made, para, table, cell>>
  BY DEF EndRow, Flags
<1>2. /\ Nesting' /\ Range(open) = Range(open') \union {"tr"} /\ Around("tr", Range(open'))
      /\ UNCHANGED <<runs, titled, noted, nested>>
  BY <1>1, LeaveShape
<1>3. TextTypes
  BY DEF TextInv
<1>4. row \in Seq(Content) /\ items \in Seq(ItemSet)
  BY <1>3 DEF TextTypes
<1>5. ASSUME ~nested
      PROVE  /\ FlagsTell' /\ TableOpen /\ SoFar /\ para = NoPara /\ cell = NoCell
             /\ cell.open = FALSE /\ cell.content = <<>> /\ table # 0
             /\ Blocks \intersect Range(open') = {} /\ "td" \notin Range(open') /\ "tr" \notin Range(open')
             /\ "table" \in Range(open')
  <2>1. FlagsTell' /\ TableOpen /\ SoFar
    BY <1>1, <1>5, LeaveFlags DEF TextInv, Rest
  <2>2. /\ Blocks \intersect Range(open') = {} /\ "td" \notin Range(open') /\ "tr" \notin Range(open')
        /\ "table" \in Range(open')
    BY <1>2, AroundFacts DEF Inline
  <2>3. /\ Blocks \intersect Range(open) = {} /\ "td" \notin Range(open) /\ "table" \in Range(open)
    BY <1>2, <2>2 DEF Blocks
  <2>4. QED
    BY <1>5, <2>1, <2>2, <2>3, NoBlockAt, OutsideCells DEF TableOpen
<1>6. CASE table # 0 /\ row # <<>>
  <2>1. items' = [items EXCEPT ![table].rows = Append(@, row)] /\ row' = <<>>
    BY <1>6 DEF EndRow
  <2>2. /\ items' \in Seq(ItemSet) /\ Len(items') = Len(items)
        /\ \A k \in 1..Len(items) : k # table => items'[k] = items[k]
        /\ table \in 1..Len(items) =>
             /\ items'[table].notes = items[table].notes /\ items'[table].content = items[table].content
             /\ items'[table].rows = Append(items[table].rows, row)
    <3>1. items' = RowIn(items, table, row)
      BY <2>1 DEF RowIn
    <3>2. QED
      BY <1>4, <3>1, RowAdded
  <2>3. TextTypes'
    <3>1. <<>> \in Seq(Content)
      OBVIOUS
    <3>2. QED
      BY <1>1, <1>2, <1>3, <2>1, <2>2, <3>1 DEF TextTypes
  <2>4. ASSUME ~nested' PROVE Rest'
    <3>1. ~nested
      BY <1>2, <2>4
    <3>2. /\ table = Len(items) /\ items[table].notes = notes /\ items[table].content = <<>>
      BY <1>5, <1>6, <3>1 DEF TableOpen
    <3>3. items # <<>> /\ table \in 1..Len(items)
      <4>1. Len(items) \in Nat /\ Len(items) # 0
        BY <1>4, <1>6, <3>2, LenProperties
      <4>2. QED
        BY <1>4, <3>2, <4>1, EmptySeq
    <3>4. /\ items'[table].notes = notes' /\ items'[table].content = <<>> /\ table' = Len(items')
      BY <1>1, <2>2, <3>2, <3>3
    <3>5. TableOpen'
      <4>1. cell' = NoCell /\ table' # 0
        BY <1>1, <1>5, <3>1
      <4>2. row' = <<>>
        BY <2>1
      <4>3. QED
        BY <1>1, <1>5, <3>1, <3>4, <4>1, <4>2, InsideTables
    <3>6. Pend(row', cell'.content, para') = <<>>
      BY <1>1, <1>5, <2>1, <3>1, NothingPends
    <3>7. Pend(row, cell.content, para) = RunsIn(FlattenSeq(row))
      <4>1. FlattenSeq(row) \in Content
        BY <1>4, FlattenType DEF Content
      <4>2. PICK f \in Seq(Nat) : f = RunsIn(FlattenSeq(row))
        BY <4>1, RunsType
      <4>3. (IF para.title THEN <<>> ELSE RunsIn(para.content)) = <<>>
        BY <1>5, <3>1, RunsNone, NoParaTag
      <4>4. f \o <<>> = f
        BY ConcatEmptySeq
      <4>5. Pend(row, cell.content, para) = (f \o <<>>) \o <<>>
        BY <1>5, <3>1, <4>2, <4>3, RunsNone DEF Pend
      <4>6. QED
        BY <4>2, <4>4, <4>5
    <3>8. SoFar'
      <4>1. SUFFICES ASSUME NEW b \in BOOLEAN
                     PROVE  KeptIn(items', b) \o (IF notes' = b THEN Pend(row', cell'.content, para') ELSE <<>>) = Want(b)'
        BY SoFarNext
      <4>2. KeptIn(items', b) = KeptIn(items, b) \o (IF notes = b THEN RunsIn(FlattenSeq(row)) ELSE <<>>)
        <5>1. \A k \in 1..(Len(items) - 1) : items'[k] = items[k]
          BY <2>2, <3>2
        <5>2. /\ items'[Len(items)].notes = items[Len(items)].notes
              /\ items'[Len(items)].content = items[Len(items)].content
              /\ items'[Len(items)].rows = Append(items[Len(items)].rows, row)
          BY <2>2, <3>2, <3>3
        <5>3. items[Len(items)].notes = notes
          BY <3>2
        <5>4. KeptIn(items', b) = KeptIn(items, b)
                \o (IF items[Len(items)].notes = b THEN RunsIn(FlattenSeq(row)) ELSE <<>>)
          BY <1>4, <2>2, <3>3, <5>1, <5>2, KeptRow
        <5>5. QED
          BY <5>3, <5>4
      <4>3. KeptIn(items, b) \o (IF notes = b THEN Pend(row, cell.content, para) ELSE <<>>) = Want(b)
        BY <1>5, <3>1, SoFarIs
      <4>4. KeptIn(items', b) = Want(b)
        BY <3>7, <4>2, <4>3
      <4>5. Want(b)' = Want(b)
        BY <1>2 DEF Want, Wanted
      <4>6. PICK k \in Seq(Nat) : k = KeptIn(items', b)
        BY <2>2, PartsFacts
      <4>7. (IF notes' = b THEN Pend(row', cell'.content, para') ELSE <<>>) = <<>>
        BY <3>6
      <4>8. k \o <<>> = k
        BY ConcatEmptySeq
      <4>9. QED
        BY <4>4, <4>5, <4>6, <4>7, <4>8
    <3>9. BlockOpen' /\ KindByContext'
      BY <1>1, <1>5, <3>1, NoParaTag DEF BlockOpen, KindByContext
    <3>10. QED
      BY <1>5, <3>1, <3>5, <3>8, <3>9 DEF Rest
  <2>5. QED
    BY <1>2, <2>3, <2>4 DEF TextInv
<1>7. CASE ~(table # 0 /\ row # <<>>)
  <2>1. UNCHANGED <<items, row>>
    BY <1>7 DEF EndRow
  <2>2. TextTypes'
    BY <1>1, <1>2, <1>3, <2>1 DEF TextTypes
  <2>3. ASSUME ~nested' PROVE Rest'
    <3>1. ~nested
      BY <1>2, <2>3
    <3>2. row = <<>>
      BY <1>5, <1>7, <3>1
    <3>3. TableOpen'
      <4>1. cell' = NoCell /\ table' # 0
        BY <1>1, <1>5, <3>1
      <4>2. table = Len(items) /\ items[table].notes = notes /\ items[table].content = <<>>
        BY <1>5, <3>1 DEF TableOpen
      <4>3. row' = <<>> /\ table' = Len(items') /\ items'[table'].notes = notes' /\ items'[table'].content = <<>>
        BY <1>1, <2>1, <3>2, <4>2
      <4>4. QED
        BY <1>5, <3>1, <4>1, <4>3, InsideTables
    <3>4. QED
      BY <1>1, <1>2, <1>5, <2>1, <3>1, <3>3, NoBlockRest
  <2>4. QED
    BY <1>2, <2>2, <2>3 DEF TextInv
<1>8. QED
  BY <1>6, <1>7

------------------------------------------------------------------------------
(* Text.                                                                   *)

LEMMA OneText == ASSUME NEW n \in Nat PROVE <<n>> \in Seq(Nat)
OBVIOUS

LEMMA TextAtom ==
    ASSUME NEW n \in Nat, NEW c \in Content
    PROVE  Append(c, Text(n)) \in Content /\ RunsIn(Append(c, Text(n))) = RunsIn(c) \o <<n>>
<1>1. PICK a : a = Text(n)
  OBVIOUS
<1>2. a \in AtomSet /\ a.type = "text" /\ a.run = n
  BY <1>1 DEF Text, AtomSet
<1>3. Append(c, a) \in Content
  BY <1>2, PushFacts DEF Content
<1>4. RunsIn(Append(c, a)) = RunsIn(c) \o <<n>>
  BY <1>2, RunsAppend
<1>5. QED
  BY <1>1, <1>3, <1>4

LEMMA WantNext ==
    ASSUME NEW n \in Nat, n = runs, runs' = n + 1, SameUpTo(n, titled, titled'), SameUpTo(n, noted, noted'),
           NEW b
    PROVE  Want(b)' = Want(b) \o WantedAt(n + 1, titled', noted', b)
<1>1. FlattenSeq(Wanted(n + 1, titled', noted', b)) =
             FlattenSeq(Wanted(n, titled, noted, b)) \o WantedAt(n + 1, titled', noted', b)
  BY WantedNext
<1>2. Want(b)' = FlattenSeq(Wanted(n + 1, titled', noted', b))
  BY DEF Want, Wanted
<1>3. Want(b) = FlattenSeq(Wanted(n, titled, noted, b))
  BY DEF Want
<1>4. QED
  BY <1>1, <1>2, <1>3

\* The text goes to what is pending, unless it is a title's.
LEMMA SoFarTyped ==
    ASSUME TextTypes, SoFar, runs' = runs + 1, UNCHANGED <<notes, items>>,
           NEW inTitle \in BOOLEAN,
           titled' = IF inTitle THEN titled \union {runs'} ELSE titled,
           noted' = IF notes THEN noted \union {runs'} ELSE noted,
           Pend(row', cell'.content, para') =
             Pend(row, cell.content, para) \o (IF inTitle THEN <<>> ELSE <<runs'>>)
    PROVE  SoFar'
<1>1. SUFFICES ASSUME NEW b \in BOOLEAN
               PROVE  KeptIn(items', b) \o (IF notes' = b THEN Pend(row', cell'.content, para') ELSE <<>>) = Want(b)'
  BY SoFarNext
<1>2. PICK n \in Nat : n = runs
  BY DEF TextTypes
<1>3. titled \subseteq 1..n /\ noted \subseteq 1..n /\ notes \in BOOLEAN /\ items \in Seq(ItemSet)
  BY <1>2 DEF TextTypes
<1>4. PICK x \in Seq(Nat) : x = IF inTitle THEN <<>> ELSE <<n + 1>>
  <2>1. <<n + 1>> \in Seq(Nat)
    BY OneText
  <2>2. <<>> \in Seq(Nat)
    OBVIOUS
  <2>3. (IF inTitle THEN <<>> ELSE <<n + 1>>) \in Seq(Nat)
    BY <2>1, <2>2
  <2>4. QED
    BY <2>3
<1>5. /\ n + 1 \in titled' <=> inTitle
      /\ n + 1 \in noted' <=> notes
      /\ \A r \in 1..n : (r \in titled' <=> r \in titled) /\ (r \in noted' <=> r \in noted)
  BY <1>2, <1>3
<1>6. Want(b)' = Want(b) \o (IF n + 1 \notin titled' /\ (n + 1 \in noted') = b THEN <<n + 1>> ELSE <<>>)
  <2>1. SameUpTo(n, titled, titled') /\ SameUpTo(n, noted, noted')
    BY <1>5 DEF SameUpTo
  <2>2. n = runs /\ runs' = n + 1
    BY <1>2
  <2>3. Want(b)' = Want(b) \o WantedAt(n + 1, titled', noted', b)
    BY <2>1, <2>2, WantNext
  <2>4. QED
    BY <2>3 DEF WantedAt
<1>7. PICK k \in Seq(Nat) : k = KeptIn(items, b)
  BY <1>3, PartsFacts
<1>8. PICK p \in Seq(Nat) : p = Pend(row, cell.content, para)
  <2>1. row \in Seq(Content) /\ cell.content \in Content /\ para.content \in Content
    BY DEF TextTypes
  <2>2. QED
    BY <2>1, PendType
<1>9. k \o (IF notes = b THEN p ELSE <<>>) = Want(b)
  BY <1>7, <1>8, SoFarIs
<1>10. KeptIn(items', b) = k /\ notes' = notes /\ Pend(row', cell'.content, para') = p \o x
  BY <1>2, <1>4, <1>7, <1>8
<1>11. CASE notes = b
  <2>1. (IF n + 1 \notin titled' /\ (n + 1 \in noted') = b THEN <<n + 1>> ELSE <<>>) = x
    BY <1>3, <1>4, <1>5, <1>11
  <2>2. Want(b)' = (k \o p) \o x
    BY <1>6, <1>9, <1>11, <2>1
  <2>3. (k \o p) \o x = k \o (p \o x)
    BY NatAssociative
  <2>4. QED
    BY <1>10, <1>11, <2>2, <2>3
<1>12. CASE notes # b
  <2>1. ~((n + 1 \in noted') = b)
    BY <1>3, <1>5, <1>12
  <2>2. (IF n + 1 \notin titled' /\ (n + 1 \in noted') = b THEN <<n + 1>> ELSE <<>>) = <<>>
    BY <2>1
  <2>3. k \o <<>> = k
    BY ConcatEmptySeq
  <2>4. Want(b) = k
    BY <1>9, <1>12, <2>3
  <2>5. Want(b)' = k \o <<>>
    BY <1>6, <2>2, <2>4
  <2>6. QED
    BY <1>10, <1>12, <2>5
<1>13. QED
  BY <1>11, <1>12

\* Where text occurs there is a block, or a cell that is in no title.
LEMMA TextPlace ==
    ASSUME TextInv, ~nested, open # <<>>, HasText(Top), para = NoPara
    PROVE  cell.open /\ "title" \notin Range(open)
<1>1. Nesting /\ BlockOpen /\ TableOpen
  BY DEF TextInv, Rest
<1>2. PICK o : o = Front(open)
  OBVIOUS
<1>3. Top = Last(open) /\ Top \in Tags /\ Range(open) = Range(o) \union {Top}
  BY <1>1, <1>2, FrontFacts DEF Top, Nesting
<1>4. Top \in Blocks \union Inline \union {"td"}
  BY <1>3, SchemaAssumption
<1>5. Blocks \intersect Range(open) = {}
  BY <1>1 DEF BlockOpen
<1>6. "td" \in Range(open)
  <2>1. CASE Top = "td"
    BY <1>3, <2>1
  <2>2. CASE Top \in Inline
    <3>1. PICK n \in Nat \ {0} : n = Len(open)
      BY <1>1, FrontFacts DEF Nesting
    <3>2. Top = open[n]
      BY <1>3, <3>1 DEF Last
    <3>3. PICK i \in 1..(n - 1) : open[i] \in Grounds(Top)
      BY <1>1, <2>2, <3>1, <3>2 DEF Nesting, Grounded
    <3>4. open[i] \in Blocks \union {"td"}
      BY <2>2, <3>3 DEF Grounds, Inline
    <3>5. open[i] \in Range(open)
      BY <1>1, <3>1, RangeEquality DEF Nesting
    <3>6. QED
      BY <1>5, <3>4, <3>5
  <2>3. QED
    BY <1>3, <1>4, <1>5, <2>1, <2>2
<1>7. "title" \notin Range(open)
  <2>1. "title" \in Range(open) => "td" = "title" \/ "td" \in After("title") \/ "title" \in After("td")
    BY <1>1, <1>6, RangeShape
  <2>2. QED
    BY <2>1 DEF After, Blocks, Inline
<1>8. QED
  BY <1>1, <1>6, <1>7 DEF TableOpen

LEMMA PendPara ==
    ASSUME NEW r \in Seq(Content), NEW c \in Content, NEW p \in ParaSet, NEW q \in ParaSet, NEW n \in Nat,
           q.title = p.title, q.content = Append(p.content, Text(n))
    PROVE  Pend(r, c, q) = Pend(r, c, p) \o (IF p.title THEN <<>> ELSE <<n>>)
<1>1. p.content \in Content /\ p.title \in BOOLEAN
  BY DEF ParaSet
<1>2. PICK a \in Seq(Nat) : a = RunsIn(FlattenSeq(r)) \o RunsIn(c)
  <2>1. FlattenSeq(r) \in Content
    BY FlattenType DEF Content
  <2>2. QED
    BY <2>1, RunsType, ConcatProperties
<1>3. PICK b \in Seq(Nat) : b = RunsIn(p.content)
  BY <1>1, RunsType
<1>4. RunsIn(q.content) = b \o <<n>>
  BY <1>1, <1>3, TextAtom
<1>5. CASE p.title
  <2>1. Pend(r, c, q) = a \o <<>> /\ Pend(r, c, p) = a \o <<>>
    BY <1>2, <1>5 DEF Pend
  <2>2. a \o <<>> = a
    BY ConcatEmptySeq
  <2>3. (IF p.title THEN <<>> ELSE <<n>>) = <<>>
    BY <1>5
  <2>4. QED
    BY <2>1, <2>2, <2>3
<1>6. CASE ~p.title
  <2>1. Pend(r, c, q) = a \o (b \o <<n>>) /\ Pend(r, c, p) = a \o b
    BY <1>2, <1>3, <1>4, <1>6 DEF Pend
  <2>2. (a \o b) \o <<n>> = a \o (b \o <<n>>)
    <3>1. PICK m \in Seq(Nat) : m = <<n>>
      BY OneText
    <3>2. (a \o b) \o m = a \o (b \o m)
      BY NatAssociative
    <3>3. QED
      BY <3>1, <3>2
  <2>3. (IF p.title THEN <<>> ELSE <<n>>) = <<n>>
    BY <1>6
  <2>4. QED
    BY <2>1, <2>2, <2>3
<1>7. QED
  BY <1>5, <1>6

LEMMA PendCell ==
    ASSUME NEW r \in Seq(Content), NEW c \in Content, NEW p, p = NoPara, NEW n \in Nat
    PROVE  Pend(r, Append(c, Text(n)), p) = Pend(r, c, p) \o <<n>>
<1>1. PICK a \in Seq(Nat) : a = RunsIn(FlattenSeq(r))
  <2>1. FlattenSeq(r) \in Content
    BY FlattenType DEF Content
  <2>2. QED
    BY <2>1, RunsType
<1>2. PICK b \in Seq(Nat) : b = RunsIn(c)
  BY RunsType
<1>3. RunsIn(Append(c, Text(n))) = b \o <<n>>
  BY <1>2, TextAtom
<1>4. (IF p.title THEN <<>> ELSE RunsIn(p.content)) = <<>>
  BY RunsNone, NoParaTag
<1>5. PICK m \in Seq(Nat) : m = <<n>>
  BY OneText
<1>6. Pend(r, Append(c, Text(n)), p) = (a \o (b \o m)) \o <<>>
  BY <1>1, <1>3, <1>4, <1>5 DEF Pend
<1>7. Pend(r, c, p) = (a \o b) \o <<>>
  BY <1>1, <1>2, <1>4 DEF Pend
<1>8. a \o b \in Seq(Nat) /\ b \o m \in Seq(Nat) /\ a \o (b \o m) \in Seq(Nat)
  BY ConcatProperties
<1>9. (a \o b) \o <<>> = a \o b /\ (a \o (b \o m)) \o <<>> = a \o (b \o m)
  BY <1>8, ConcatEmptySeq
<1>10. (a \o b) \o m = a \o (b \o m)
  BY NatAssociative
<1>11. QED
  BY <1>5, <1>6, <1>7, <1>9, <1>10

LEMMA CharDataKeeps == ASSUME TextInv, CharData PROVE TextInv'
<1>1. /\ open # <<>> /\ HasText(Top) /\ runs' = runs + 1 /\ Add(Text(runs'))
      /\ titled' = IF "title" \in Range(open) THEN titled \union {runs'} ELSE titled
      /\ noted' = IF notes THEN noted \union {runs'} ELSE noted
      /\ UNCHANGED <<open, notes, within, sections, made, items, table, row, nested>>
  BY DEF CharData
<1>2. TextTypes /\ Nesting
  BY DEF TextInv
<1>3. /\ runs \in Nat /\ runs' \in Nat /\ row \in Seq(Content) /\ para \in ParaSet
      /\ cell \in [open : BOOLEAN, content : Content] /\ cell.content \in Content /\ para.content \in Content
  <2>1. runs \in Nat /\ row \in Seq(Content) /\ para \in ParaSet /\ cell \in [open : BOOLEAN, content : Content]
    BY <1>2 DEF TextTypes, ParaSet
  <2>2. runs' \in Nat
    BY <1>1, <2>1
  <2>3. QED
    BY <2>1, <2>2 DEF ParaSet
<1>4. PICK p \in Content : p = Append(para.content, Text(runs'))
  BY <1>3, TextAtom
<1>5. PICK c \in Content : c = Append(cell.content, Text(runs'))
  BY <1>3, TextAtom
<1>7. \/ para # NoPara /\ para' = [para EXCEPT !.content = p] /\ cell' = cell
      \/ para = NoPara /\ cell.open /\ para' = para /\ cell' = [cell EXCEPT !.content = c]
      \/ para = NoPara /\ ~cell.open /\ para' = para /\ cell' = cell
  BY <1>1, <1>4, <1>5 DEF Add
<1>8. Nesting'
  BY <1>1, <1>2 DEF Nesting
<1>9. TextTypes'
  <2>1. para' \in ParaSet
    BY <1>3, <1>4, <1>7 DEF ParaSet
  <2>2. cell' \in [open : BOOLEAN, content : Content]
    BY <1>3, <1>5, <1>7
  <2>3. titled' \subseteq 1..runs' /\ noted' \subseteq 1..runs'
    <3>1. titled \subseteq 1..runs /\ noted \subseteq 1..runs
      BY <1>2 DEF TextTypes
    <3>2. 1..runs \subseteq 1..runs' /\ runs' \in 1..runs'
      BY <1>1, <1>3
    <3>3. titled' \subseteq titled \union {runs'} /\ noted' \subseteq noted \union {runs'}
      BY <1>1
    <3>4. QED
      BY <3>1, <3>2, <3>3
  <2>4. QED
    BY <1>1, <1>2, <1>3, <2>1, <2>2, <2>3 DEF TextTypes, ParaSet
<1>10. ASSUME ~nested' PROVE Rest'
  <2>1. ~nested /\ FlagsTell /\ BlockOpen /\ TableOpen /\ SoFar /\ KindByContext
    BY <1>1, <1>10 DEF TextInv, Rest
  <2>2. FlagsTell'
    BY <1>1, <2>1 DEF FlagsTell
  <2>3. CASE para # NoPara
    <3>1. para' = [para EXCEPT !.content = p] /\ cell' = cell
      BY <1>7, <2>3
    <3>2. para'.tag = para.tag /\ para'.kind = para.kind /\ para'.title = para.title /\ para'.content = p
      BY <1>3, <3>1 DEF ParaSet
    <3>3. para.tag \in Blocks \intersect Range(open) /\ para.title = ("title" \in Range(open))
      BY <2>1, <2>3 DEF BlockOpen
    <3>4. para' # NoPara
      BY <3>2, <3>3, NoParaTag DEF Blocks
    <3>5. BlockOpen'
      BY <1>1, <3>2, <3>3, <3>4 DEF BlockOpen
    <3>6. TableOpen'
      BY <1>1, <2>1, <3>1 DEF TableOpen
    <3>7. KindByContext'
      BY <1>1, <2>1, <3>2 DEF KindByContext
    <3>8. Pend(row', cell'.content, para') =
             Pend(row, cell.content, para) \o (IF para.title THEN <<>> ELSE <<runs'>>)
      <4>1. PICK q \in ParaSet : q = para'
        BY <1>3, <1>4, <3>1 DEF ParaSet
      <4>2. q.title = para.title /\ q.content = Append(para.content, Text(runs'))
        BY <1>4, <3>2, <4>1
      <4>3. Pend(row, cell.content, q) = Pend(row, cell.content, para) \o (IF para.title THEN <<>> ELSE <<runs'>>)
        BY <1>3, <4>2, PendPara
      <4>4. QED
        BY <1>1, <3>1, <4>1, <4>3
    <3>9. SoFar'
      <4>1. para.title \in BOOLEAN
        BY <1>3 DEF ParaSet
      <4>2. titled' = IF para.title THEN titled \union {runs'} ELSE titled
        BY <1>1, <3>3
      <4>3. QED
        BY <1>1, <1>2, <2>1, <3>8, <4>1, <4>2, SoFarTyped
    <3>10. QED
      BY <2>2, <3>5, <3>6, <3>7, <3>9 DEF Rest
  <2>4. CASE para = NoPara
    <3>1. cell.open /\ "title" \notin Range(open)
      BY <1>1, <2>1, <2>4, TextPlace
    <3>2. para' = para /\ cell' = [cell EXCEPT !.content = c]
      BY <1>7, <2>4, <3>1
    <3>3. cell'.open = cell.open /\ cell'.content = c
      BY <1>3, <3>2
    <3>4. BlockOpen' /\ KindByContext'
      BY <1>1, <2>1, <2>4, <3>2, NoParaTag DEF BlockOpen, KindByContext
    <3>5. TableOpen'
      <4>1. cell'.open = ("td" \in Range(open')) /\ (~cell'.open => cell' = NoCell)
        BY <1>1, <2>1, <3>1, <3>3 DEF TableOpen
      <4>2. QED
        BY <1>1, <2>1, <4>1 DEF TableOpen
    <3>6. Pend(row', cell'.content, para') = Pend(row, cell.content, para) \o <<runs'>>
      <4>1. Pend(row, Append(cell.content, Text(runs')), para) = Pend(row, cell.content, para) \o <<runs'>>
        BY <1>3, <2>4, PendCell
      <4>2. QED
        BY <1>1, <1>5, <3>2, <3>3, <4>1
    <3>7. SoFar'
      <4>1. PICK t \in BOOLEAN : t = FALSE
        OBVIOUS
      <4>2. titled' = IF t THEN titled \union {runs'} ELSE titled
        BY <1>1, <3>1, <4>1
      <4>3. (IF t THEN <<>> ELSE <<runs'>>) = <<runs'>>
        BY <4>1
      <4>4. QED
        BY <1>1, <1>2, <2>1, <3>6, <4>2, <4>3, SoFarTyped
    <3>8. QED
      BY <2>2, <3>4, <3>5, <3>7 DEF Rest
  <2>5. QED
    BY <2>3, <2>4
<1>11. QED
  BY <1>8, <1>9, <1>10 DEF TextInv

------------------------------------------------------------------------------
(* A text block ends.                                                      *)

LEMMA BlockDone ==
    ASSUME TextInv, ~nested, FlagsTell', TableOpen', para' = NoPara, Blocks \intersect Range(open') = {},
           UNCHANGED <<runs, titled, noted, notes>>,
           \A b \in BOOLEAN : KeptIn(items', b) = KeptIn(items, b),
           Pend(row', cell'.content, para') = Pend(row, cell.content, para)
    PROVE  Rest'
<1>1. SoFar
  BY DEF TextInv, Rest
<1>2. SoFar'
  BY <1>1, SoFarSame
<1>3. BlockOpen'
  BY DEF BlockOpen
<1>4. KindByContext'
  BY NoParaTag DEF KindByContext
<1>5. QED
  BY <1>2, <1>3, <1>4 DEF Rest

Titled(ss, i, title) == [ss EXCEPT ![i].title = title]
SectionSet == [notes : BOOLEAN, title : Seq(Nat)]

LEMMA TitledType ==
    ASSUME NEW ss \in Seq(SectionSet), NEW i, NEW title \in Seq(Nat)
    PROVE  Titled(ss, i, title) \in Seq(SectionSet)
<1>1. CASE i \in 1..Len(ss)
  <2>1. PICK x \in SectionSet : x = ss[i]
    BY <1>1, ElementOfSeq
  <2>2. PICK y : y = [x EXCEPT !.title = title]
    OBVIOUS
  <2>3. y \in SectionSet
    BY <2>2 DEF SectionSet
  <2>4. [ss EXCEPT ![i] = y] \in Seq(SectionSet)
    BY <1>1, <2>3, ExceptSeq
  <2>5. Titled(ss, i, title) = [ss EXCEPT ![i] = y]
    BY <2>1, <2>2 DEF Titled
  <2>6. QED
    BY <2>4, <2>5
<1>2. CASE i \notin 1..Len(ss)
  <2>1. Titled(ss, i, title) = ss
    BY <1>2 DEF Titled
  <2>2. QED
    BY <2>1
<1>3. QED
  BY <1>1, <1>2

\* What comes of the block, in one of four ways.
Dropped == ~Worth(para) /\ UNCHANGED <<made, items, cell>>
Named == /\ Worth(para) /\ para.title
         /\ made' = IF Section # 0 /\ made[Section].title = <<>>
                    THEN [made EXCEPT ![Section].title = RunsIn(para.content)]
                    ELSE made
         /\ UNCHANGED <<items, cell>>
InCell == /\ Worth(para) /\ ~para.title /\ table # 0 /\ cell.open
          /\ cell' = [cell EXCEPT !.content = @ \o para.content]
          /\ UNCHANGED <<made, items>>
AsItem == /\ Worth(para) /\ ~para.title /\ ~(table # 0 /\ cell.open)
          /\ items' = Append(items, Item(para.kind, para.content))
          /\ UNCHANGED <<made, cell>>

LEMMA FinishCases ==
    ASSUME NEW el, FinishBlock(el)
    PROVE  \/ para.tag # el /\ UNCHANGED <<made, items, para, cell>>
           \/ para.tag = el /\ para' = NoPara /\ (Dropped \/ Named \/ InCell \/ AsItem)
BY DEF FinishBlock, Dropped, Named, InCell, AsItem

LEMMA FinishTypes ==
    ASSUME TextTypes, NEW el, FinishBlock(el),
           UNCHANGED <<runs, notes, nested, titled, noted, sections, table, row>>
    PROVE  TextTypes'
<1>1. para \in ParaSet /\ para.content \in Content /\ para.kind \in KindSet
  BY DEF TextTypes, ParaSet
<1>2. para' \in ParaSet
  <2>1. NoPara \in ParaSet
    BY DEF NoPara, ParaSet, KindSet, Content
  <2>2. QED
    BY <1>1, <2>1, FinishCases
<1>3. made' \in Seq(SectionSet)
  <2>1. made \in Seq(SectionSet) /\ RunsIn(para.content) \in Seq(Nat)
    BY <1>1, RunsType DEF TextTypes, SectionSet
  <2>2. made' = made \/ made' = Titled(made, Section, RunsIn(para.content))
    BY FinishCases DEF Dropped, Named, InCell, AsItem, Titled
  <2>3. QED
    BY <2>1, <2>2, TitledType
<1>4. items' \in Seq(ItemSet)
  <2>1. items \in Seq(ItemSet) /\ Item(para.kind, para.content) \in ItemSet
    BY <1>1, ItemType DEF TextTypes
  <2>2. items' = items \/ items' = Append(items, Item(para.kind, para.content))
    BY FinishCases DEF Dropped, Named, InCell, AsItem
  <2>3. QED
    BY <2>1, <2>2, PushFacts
<1>5. cell' \in [open : BOOLEAN, content : Content]
  <2>1. cell \in [open : BOOLEAN, content : Content] /\ cell.content \in Content
    BY DEF TextTypes
  <2>2. PICK c \in Content : c = cell.content \o para.content
    BY <1>1, <2>1, ConcatProperties DEF Content
  <2>3. cell' = cell \/ cell' = [cell EXCEPT !.content = c]
    BY <2>2, FinishCases DEF Dropped, Named, InCell, AsItem
  <2>4. QED
    BY <2>1, <2>3
<1>6. QED
  BY <1>2, <1>3, <1>4, <1>5 DEF TextTypes, ParaSet, SectionSet

LEMMA PendWithout ==
    ASSUME NEW r \in Seq(Content), NEW c \in Content, NEW p, NEW q, q = NoPara, p.title \/ p.content = <<>>
    PROVE  Pend(r, c, q) = Pend(r, c, p)
<1>1. (IF q.title THEN <<>> ELSE RunsIn(q.content)) = <<>>
  BY RunsNone, NoParaTag
<1>2. (IF p.title THEN <<>> ELSE RunsIn(p.content)) = <<>>
  BY RunsNone
<1>3. QED
  BY <1>1, <1>2 DEF Pend

LEMMA PendJoined ==
    ASSUME NEW r \in Seq(Content), NEW c \in Content, NEW p, p.content \in Content, ~p.title, NEW q, q = NoPara
    PROVE  Pend(r, c \o p.content, q) = Pend(r, c, p)
<1>1. PICK a \in Seq(Nat) : a = RunsIn(FlattenSeq(r))
  <2>1. FlattenSeq(r) \in Content
    BY FlattenType DEF Content
  <2>2. QED
    BY <2>1, RunsType
<1>2. PICK b \in Seq(Nat), d \in Seq(Nat) : b = RunsIn(c) /\ d = RunsIn(p.content)
  BY RunsType
<1>3. RunsIn(c \o p.content) = b \o d
  BY <1>2, RunsConcat
<1>4. (IF q.title THEN <<>> ELSE RunsIn(q.content)) = <<>>
  BY RunsNone, NoParaTag
<1>5. Pend(r, c \o p.content, q) = (a \o (b \o d)) \o <<>>
  BY <1>1, <1>3, <1>4 DEF Pend
<1>6. Pend(r, c, p) = (a \o b) \o d
  BY <1>1, <1>2 DEF Pend
<1>7. b \o d \in Seq(Nat) /\ a \o (b \o d) \in Seq(Nat)
  BY ConcatProperties
<1>8. (a \o (b \o d)) \o <<>> = a \o (b \o d)
  BY <1>7, ConcatEmptySeq
<1>9. (a \o b) \o d = a \o (b \o d)
  BY NatAssociative
<1>10. QED
  BY <1>5, <1>6, <1>8, <1>9

LEMMA PendAlone ==
    ASSUME NEW p, p.content \in Content, ~p.title
    PROVE  Pend(<<>>, <<>>, p) = RunsIn(p.content)
<1>1. RunsIn(FlattenSeq(<<>>)) = <<>> /\ RunsIn(<<>>) = <<>>
  BY RunsNone, NoFlattened
<1>2. PICK d \in Seq(Nat) : d = RunsIn(p.content)
  BY RunsType
<1>3. <<>> \o <<>> = <<>> /\ <<>> \o d = d
  BY ConcatEmptySeq
<1>4. QED
  BY <1>1, <1>2, <1>3 DEF Pend

LEMMA BlockBecomesItem ==
    ASSUME TextTypes, SoFar, AsItem, para' = NoPara, UNCHANGED <<runs, titled, noted, notes>>,
           row = <<>>, row' = <<>>, cell.content = <<>>, cell'.content = <<>>
    PROVE  SoFar'
<1>1. SUFFICES ASSUME NEW b \in BOOLEAN
               PROVE  KeptIn(items', b) \o (IF notes' = b THEN Pend(row', cell'.content, para') ELSE <<>>) = Want(b)'
  BY SoFarNext
<1>2. items \in Seq(ItemSet) /\ para.content \in Content /\ para.kind \in KindSet
  BY DEF TextTypes
<1>3. PICK x \in ItemSet : x = Item(para.kind, para.content)
  BY <1>2, ItemType
<1>4. x.notes = notes /\ x.content = para.content /\ x.rows = <<>>
  BY <1>3 DEF Item
<1>5. ItemRuns(x) = RunsIn(para.content)
  BY <1>2, <1>4, PlainItem
<1>6. items' = Append(items, x) /\ ~para.title
  BY <1>3 DEF AsItem
<1>7. KeptIn(items', b) = KeptIn(items, b) \o (IF notes = b THEN RunsIn(para.content) ELSE <<>>)
  BY <1>2, <1>4, <1>5, <1>6, KeptAppend
<1>8. Pend(row, cell.content, para) = RunsIn(para.content)
  BY <1>2, <1>6, PendAlone
<1>9. KeptIn(items, b) \o (IF notes = b THEN Pend(row, cell.content, para) ELSE <<>>) = Want(b)
  BY SoFarIs
<1>10. KeptIn(items', b) = Want(b)
  BY <1>7, <1>8, <1>9
<1>11. Want(b)' = Want(b)
  BY DEF Want, Wanted
<1>12. PICK k \in Seq(Nat) : k = KeptIn(items', b)
  <2>1. items' \in Seq(ItemSet)
    BY <1>2, <1>6, PushFacts
  <2>2. QED
    BY <2>1, PartsFacts
<1>13. (IF notes' = b THEN Pend(row', cell'.content, para') ELSE <<>>) = <<>>
  BY NothingPends
<1>14. k \o <<>> = k
  BY ConcatEmptySeq
<1>15. QED
  BY <1>10, <1>11, <1>12, <1>13, <1>14

LEMMA LeaveBlock ==
    ASSUME TextInv, NEW el \in Blocks, End(el), within' = within \ ({el} \intersect Flags),
           FinishBlock(el), UNCHANGED <<notes, sections, table, row>>
    PROVE  TextInv'
<1>1. /\ Nesting' /\ Range(open) = Range(open') \union {el} /\ Around(el, Range(open'))
      /\ UNCHANGED <<runs, titled, noted, nested>>
  BY LeaveShape
<1>2. TextTypes
  BY DEF TextInv
<1>3. TextTypes'
  BY <1>1, <1>2, FinishTypes
<1>4. ASSUME ~nested' PROVE Rest'
  <2>1. ~nested /\ FlagsTell' /\ BlockOpen /\ TableOpen /\ SoFar
    BY <1>1, <1>4, LeaveFlags DEF TextInv, Rest
  <2>2. Blocks \intersect Range(open') = {} /\ ("table" \in Range(open') => "td" \in Range(open'))
    BY <1>1, AroundFacts DEF Blocks, Inline
  <2>3. /\ "table" \in Range(open') <=> "table" \in Range(open)
        /\ "td" \in Range(open') <=> "td" \in Range(open)
        /\ "tr" \in Range(open') <=> "tr" \in Range(open)
    BY <1>1 DEF Blocks
  <2>4. para # NoPara /\ para.tag = el
    <3>1. Blocks \intersect Range(open) = {el}
      BY <1>1, <2>2
    <3>2. QED
      BY <2>1, <3>1 DEF BlockOpen
  <2>5. para' = NoPara /\ (Dropped \/ Named \/ InCell \/ AsItem)
    BY <2>4, FinishCases
  <2>6. row \in Seq(Content) /\ cell.content \in Content /\ para.content \in Content
        /\ cell \in [open : BOOLEAN, content : Content]
    BY <1>2 DEF TextTypes
  <2>7. UNCHANGED <<items, cell>> => TableOpen'
    <3>1. /\ ("table" \in Range(open')) = ("table" \in Range(open))
          /\ ("td" \in Range(open')) = ("td" \in Range(open))
          /\ ("tr" \in Range(open')) = ("tr" \in Range(open))
      BY <2>3
    <3>2. QED
      BY <2>1, <3>1 DEF TableOpen
  <2>8. CASE Dropped \/ Named
    <3>1. UNCHANGED <<items, cell>> /\ (para.title \/ para.content = <<>>)
      BY <2>8 DEF Dropped, Named, Worth
    <3>2. Pend(row, cell.content, para') = Pend(row, cell.content, para)
      BY <2>5, <2>6, <3>1, PendWithout
    <3>3. QED
      BY <1>1, <2>1, <2>2, <2>5, <2>7, <3>1, <3>2, BlockDone
  <2>9. CASE InCell
    <3>1. PICK c : c = cell.content \o para.content
      OBVIOUS
    <3>2. cell' = [cell EXCEPT !.content = c] /\ items' = items /\ cell.open /\ ~para.title
      BY <2>9, <3>1 DEF InCell
    <3>3. cell'.content = c /\ cell'.open = cell.open
      BY <2>6, <3>2
    <3>4. Pend(row, c, para') = Pend(row, cell.content, para)
      BY <2>5, <2>6, <3>1, <3>2, PendJoined
    <3>5. TableOpen'
      <4>1. /\ ("table" \in Range(open')) = ("table" \in Range(open))
            /\ ("td" \in Range(open')) = ("td" \in Range(open))
            /\ ("tr" \in Range(open')) = ("tr" \in Range(open))
        BY <2>3
      <4>2. cell'.open = ("td" \in Range(open')) /\ (~cell'.open => cell' = NoCell)
        BY <2>1, <3>2, <3>3, <4>1 DEF TableOpen
      <4>3. QED
        BY <2>1, <3>2, <4>1, <4>2 DEF TableOpen
    <3>6. QED
      BY <1>1, <2>1, <2>2, <2>5, <3>2, <3>3, <3>4, <3>5, BlockDone
  <2>10. CASE AsItem
    <3>1. ~(table # 0 /\ cell.open) /\ cell' = cell
      BY <2>10 DEF AsItem
    <3>2. "table" \notin Range(open)
      <4>1. "table" \in Range(open) => table # 0 /\ cell.open
        BY <2>1, <2>2, <2>3 DEF TableOpen
      <4>2. QED
        BY <3>1, <4>1
    <3>3. "td" \notin Range(open) /\ "tr" \notin Range(open)
      BY <3>2, RangeShape DEF TextInv
    <3>4. cell = NoCell /\ cell.content = <<>> /\ row = <<>> /\ table = 0
      BY <2>1, <3>2, <3>3, OutsideCells, OutsideRows, NoTableOpen
    <3>5. row' = <<>> /\ cell' = NoCell /\ cell'.content = <<>> /\ table' = 0
      BY <3>1, <3>4
    <3>6. TableOpen'
      BY <2>3, <3>2, <3>3, <3>5, OutsideTables
    <3>7. SoFar'
      BY <1>1, <1>2, <2>1, <2>5, <2>10, <3>4, <3>5, BlockBecomesItem
    <3>8. BlockOpen' /\ KindByContext'
      BY <2>2, <2>5, NoParaTag DEF BlockOpen, KindByContext
    <3>9. QED
      BY <2>1, <3>6, <3>7, <3>8 DEF Rest
  <2>11. QED
    BY <2>5, <2>8, <2>9, <2>10
<1>5. QED
  BY <1>1, <1>3, <1>4 DEF TextInv

LEMMA EndBlockKeeps == ASSUME TextInv, NEW el \in {"p", "v", "subtitle"}, EndBlock(el) PROVE TextInv'
<1>1. /\ el \in Blocks /\ End(el) /\ within' = within \ ({el} \intersect Flags) /\ FinishBlock(el)
      /\ UNCHANGED <<notes, sections, table, row>>
  BY DEF EndBlock, Blocks, Flags
<1>2. QED
  BY <1>1, LeaveBlock

LEMMA EndFlagKeeps == ASSUME TextInv, NEW el \in Flags, EndFlag(el) PROVE TextInv'
<1>1. /\ End(el) /\ within' = within \ ({el} \intersect Flags)
      /\ UNCHANGED <<notes, sections, table, row>>
  BY DEF EndFlag
<1>2. CASE el = "text-author"
  <2>1. el \in Blocks /\ FinishBlock(el)
    BY <1>2 DEF EndFlag, Blocks
  <2>2. QED
    BY <1>1, <2>1, LeaveBlock
<1>3. CASE el # "text-author"
  <2>1. UNCHANGED <<made, items, para, cell>> /\ el \notin Collects
    BY <1>3 DEF EndFlag, Flags, Collects, Blocks
  <2>2. GrowTypes
    BY <1>1, <2>1, SameTypes DEF TextInv
  <2>3. QED
    BY <1>1, <2>1, <2>2, LeaveQuiet
<1>4. QED
  BY <1>2, <1>3
------------------------------------------------------------------------------
(* The invariant and what it says of a document.                           *)

LEMMA TextStands ==
    ASSUME TextInv,
           UNCHANGED <<open, runs, notes, within, sections, made, items, para, table, row, cell, titled, noted, nested>>
    PROVE  TextInv'
<1>1. TextTypes'
  BY DEF TextInv, TextTypes
<1>2. Nesting'
  BY DEF TextInv, Nesting
<1>3. ASSUME ~nested PROVE Rest'
  <2>1. FlagsTell /\ BlockOpen /\ TableOpen /\ SoFar /\ KindByContext
    BY <1>3 DEF TextInv, Rest
  <2>2. FlagsTell'
    BY <2>1 DEF FlagsTell
  <2>3. BlockOpen' /\ KindByContext'
    BY <2>1 DEF BlockOpen, KindByContext
  <2>4. TableOpen'
    BY <2>1 DEF TableOpen
  <2>5. SoFar'
    BY <2>1, SoFarSame
  <2>6. QED
    BY <2>2, <2>3, <2>4, <2>5 DEF Rest
<1>4. QED
  BY <1>1, <1>2, <1>3 DEF TextInv

LEMMA TextInvInit == ASSUME TextInit PROVE TextInv
<1>1. /\ open = <<"FictionBook">> /\ runs = 0 /\ notes = FALSE /\ within = {} /\ sections = <<>>
      /\ made = <<>> /\ items = <<>> /\ para = NoPara /\ table = 0 /\ row = <<>> /\ cell = NoCell
      /\ titled = {} /\ noted = {} /\ nested = FALSE
  BY DEF TextInit
<1>2. TextTypes
  <2>1. NoPara \in [tag : Blocks \union {""}, kind : KindSet, title : BOOLEAN, content : Content]
    BY DEF NoPara, KindSet, Content
  <2>2. NoCell \in [open : BOOLEAN, content : Content]
    BY DEF NoCell, Content
  <2>3. /\ sections \in Seq(Nat) /\ made \in Seq([notes : BOOLEAN, title : Seq(Nat)])
        /\ items \in Seq(ItemSet) /\ row \in Seq(Content)
    BY <1>1
  <2>4. QED
    BY <1>1, <2>1, <2>2, <2>3 DEF TextTypes
<1>3. "FictionBook" \in Tags /\ "FictionBook" \notin Grounded
  BY DEF Tags, Grounded, Inline
<1>4. open \in Seq(Tags) /\ Len(open) = 1 /\ open[1] = "FictionBook"
  BY <1>1, <1>3
<1>5. Nesting
  BY <1>3, <1>4 DEF Nesting
<1>6. Range(open) = {"FictionBook"}
  <2>1. Range(open) = {open[i] : i \in 1..Len(open)}
    BY <1>4, RangeEquality
  <2>2. QED
    BY <1>4, <2>1
<1>7. FlagsTell
  BY <1>1, <1>4, <1>6 DEF FlagsTell, Flags
<1>8. BlockOpen /\ KindByContext
  BY <1>1, <1>6, NoParaTag DEF BlockOpen, KindByContext, Blocks
<1>9. TableOpen
  <2>1. cell.open = FALSE /\ ("td" \in Range(open)) = FALSE
    BY <1>1, <1>6 DEF NoCell
  <2>2. (table # 0) = FALSE /\ ("table" \in Range(open)) = FALSE
    BY <1>1, <1>6
  <2>3. QED
    BY <1>1, <2>1, <2>2 DEF TableOpen
<1>10. SoFar
  <2>1. SUFFICES ASSUME NEW b \in BOOLEAN
                 PROVE  KeptIn(items, b) \o (IF notes = b THEN Pend(row, cell.content, para) ELSE <<>>) = Want(b)
    BY SoFarIs
  <2>2. PartsIn(items, b) = <<>>
    BY <1>1 DEF PartsIn
  <2>3. Wanted(runs, titled, noted, b) = <<>>
    BY <1>1 DEF Wanted
  <2>4. KeptIn(items, b) = <<>> /\ Want(b) = <<>>
    BY <2>2, <2>3, NoFlattened DEF KeptIn, Want
  <2>5. Pend(row, cell.content, para) = <<>>
    BY <1>1, NothingPends DEF NoCell
  <2>6. <<>> \o <<>> = <<>>
    OBVIOUS
  <2>7. QED
    BY <2>4, <2>5, <2>6
<1>11. QED
  BY <1>2, <1>5, <1>7, <1>8, <1>9, <1>10 DEF TextInv, Rest

LEMMA TextNextKeeps == ASSUME TextInv, [TextNext]_textVars PROVE TextInv'
<1>1. CASE OverBudget
  BY <1>1, TextStands DEF OverBudget, history
<1>2. CASE StartBody \/ EndBody
  BY <1>2, StartBodyKeeps, EndBodyKeeps
<1>3. CASE StartSection \/ EndSection
  BY <1>3, StartSectionKeeps, EndSectionKeeps
<1>4. CASE StartParagraph
  BY <1>4, StartParagraphKeeps
<1>5. CASE StartTable \/ EndTable
  BY <1>5, StartTableKeeps, EndTableKeeps
<1>6. CASE StartRow \/ EndRow
  BY <1>6, StartRowKeeps, EndRowKeeps
<1>7. CASE StartCell \/ EndCell
  BY <1>7, StartCellKeeps, EndCellKeeps
<1>8. CASE StartStanza \/ EndStanza
  BY <1>8, StartStanzaKeeps, EndStanzaKeeps
<1>9. CASE CharData
  BY <1>9, CharDataKeeps
<1>10. CASE \E el \in Flags : StartFlag(el) \/ EndFlag(el)
  BY <1>10, StartFlagKeeps, EndFlagKeeps
<1>11. CASE \E el \in Inline : StartInline(el) \/ EndInline(el)
  BY <1>11, StartInlineKeeps, EndInlineKeeps
<1>12. CASE \E el \in {"p", "v", "subtitle"} : StartLine(el) \/ EndBlock(el)
  <2>1. PICK el \in {"p", "v", "subtitle"} : StartLine(el) \/ EndBlock(el)
    BY <1>12
  <2>2. CASE StartLine(el)
    <3>1. el \in {"v", "subtitle"}
      BY <2>2 DEF StartLine
    <3>2. QED
      BY <2>2, <3>1, StartLineKeeps
  <2>3. CASE EndBlock(el)
    BY <2>3, EndBlockKeeps
  <2>4. QED
    BY <2>1, <2>2, <2>3
<1>13. CASE \E el \in {"image", "empty-line", "FictionBook"} : StartSingle(el) \/ EndOther(el)
  <2>1. PICK el \in {"image", "empty-line", "FictionBook"} : StartSingle(el) \/ EndOther(el)
    BY <1>13
  <2>2. CASE StartSingle(el)
    <3>1. el \in {"image", "empty-line"}
      BY <2>2 DEF StartSingle
    <3>2. QED
      BY <2>2, <3>1, StartSingleKeeps
  <2>3. CASE EndOther(el)
    BY <2>3, EndOtherKeeps
  <2>4. QED
    BY <2>1, <2>2, <2>3
<1>14. CASE UNCHANGED textVars
  BY <1>14, TextStands DEF textVars
<1>15. QED
  BY <1>1, <1>2, <1>3, <1>4, <1>5, <1>6, <1>7, <1>8, <1>9, <1>10, <1>11, <1>12, <1>13, <1>14 DEF TextNext

\* At the end of the file nothing is pending.
LEMMA TextInvFaithful == ASSUME TextInv PROVE TextFaithful
<1>1. KindByContext
  BY DEF TextInv, Rest, KindByContext
<1>2. ASSUME ~nested, open = <<>>, NEW b \in BOOLEAN PROVE Kept(b) = Expected(b)
  <2>1. Range(open) = {}
    BY <1>2 DEF Range
  <2>2. Blocks \intersect Range(open) = {} /\ "td" \notin Range(open) /\ "tr" \notin Range(open)
    BY <2>1
  <2>3. para = NoPara /\ cell.content = <<>> /\ row = <<>>
    BY <1>2, <2>2, NoBlockAt, OutsideCells, OutsideRows
  <2>4. Pend(row, cell.content, para) = <<>>
    BY <2>3, NothingPends
  <2>5. SoFar /\ items \in Seq(ItemSet)
    BY <1>2 DEF TextInv, Rest, TextTypes
  <2>6. PICK k \in Seq(Nat) : k = KeptIn(items, b)
    BY <2>5, PartsFacts
  <2>7. KeptIn(items, b) \o (IF notes = b THEN Pend(row, cell.content, para) ELSE <<>>) = Want(b)
    BY <2>5, SoFarIs
  <2>8. k \o <<>> = Want(b)
    BY <2>4, <2>6, <2>7
  <2>9. k \o <<>> = k
    BY ConcatEmptySeq
  <2>10. QED
    BY <2>6, <2>8, <2>9, KeptIs DEF Want, Wanted, Expected
<1>3. TextKept
  BY <1>2 DEF TextKept, AllTextKept, Expected
<1>4. QED
  BY <1>1, <1>3 DEF TextFaithful

\* BookText: whatever the file, its schema given, the document has every text
\* outside of the titles once and in order, the notes apart, and the kind of an
\* open paragraph is that of the elements around it (fb2_body_parser.go).
THEOREM TextSafety == TextSpec => []TextFaithful
<1>1. TextInit => TextInv
  BY TextInvInit
<1>2. TextInv /\ [TextNext]_textVars => TextInv'
  BY TextNextKeeps
<1>3. TextInv => TextFaithful
  BY TextInvFaithful
<1>4. QED
  BY <1>1, <1>2, <1>3, PTL DEF TextSpec
=============================================================================
