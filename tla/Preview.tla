------------------------------- MODULE Preview -------------------------------
(***************************************************************************)
(* The book preview: services/preview_service.go (Load, the singleflighted *)
(* cold build, the build slots, Shutdown) over services/preview_cache.go   *)
(* (the Redis cache, whose commands a caller abandons at its deadline).    *)
(*                                                                         *)
(* A book's cache entry is a manifest (item 0) and Parts[b] parts: items   *)
(* 1..Chunks[b] are its chunks (item 1 is the code's chunk 0), the rest    *)
(* its prepared images.  Bytes are abstracted to how long they will live.  *)
(* Time advances by Tick; every clock is a remaining time, so no bound on  *)
(* the length of a behaviour is needed.                                    *)
(***************************************************************************)
EXTENDS Integers, FiniteSets

CONSTANTS
    Books,      \* the previewed books, one cache key each
    Readers,    \* concurrent requests
    Slots,      \* ceiling on simultaneous cold builds
    MaxParts,   \* bound on the parts of one book
    Parts,      \* Parts[b]: chunks and images of b; 0 if a gate refuses b
    Chunks,     \* Chunks[b]: how many of them are chunks
    Ttl,        \* life of a cache item, in ticks
    Timeout,    \* cold-build timeout, in ticks
    OpTime      \* the Redis client's own timeout on one command, in ticks

ASSUME PreviewAssumption ==
    /\ IsFiniteSet(Books)
    /\ Slots \in Nat \ {0}
    /\ MaxParts \in Nat
    /\ Parts \in [Books -> 0..MaxParts]
    /\ Chunks \in [Books -> 0..MaxParts]
    /\ \A b \in Books : Chunks[b] <= Parts[b] /\ (Parts[b] > 0 => Chunks[b] > 0)
    /\ Ttl \in Nat /\ Timeout \in Nat \ {0} /\ OpTime \in Nat \ {0}
    /\ Timeout + OpTime < Ttl
    /\ 2 * OpTime <= Timeout   \* what a deadline cut off ends before the next one

Manifest == 0
Items    == 0..MaxParts
Forever  == Ttl + 1                \* a key that was left without a TTL
Lives    == 0..Forever             \* 0: the key is not in Redis

PartsOf(b)    == 1..Parts[b]
IsImage(b, i) == i > Chunks[b]

(***************************************************************************)
(* Where a flight is.  "sent" awaits one Redis write, of item part[b];     *)
(* after the manifest's SET the command's goroutine still has to compare   *)
(* the deadline ("stored"), may retract ("retracting") and then has its    *)
(* result ready for the build ("acked").                                   *)
(***************************************************************************)
Building == {"load", "put", "sent", "stored", "retracting", "acked"}
Stages   == {"none", "recheck", "recheck0", "slot"} \cup Building

(***************************************************************************)
(* A command that outlived its caller.  What it was part of may take a     *)
(* second one: the EXPIRE of an image, the retraction of a manifest.  A    *)
(* book has at most one that its flight's deadline cut off and one that    *)
(* Shutdown did, since nothing is sent after Shutdown.                     *)
(***************************************************************************)
Causes  == {"deadline", "shutdown"}
NoOp    == [stage |-> "none", item |-> 0, left |-> 0]
LateOp(s, i) == [stage |-> s, item |-> i, left |-> OpTime]
LateOps ==
    {op \in [stage : {"none", "set", "expire", "retract"}, item : Items, left : 0..OpTime] :
        op.stage = "expire" => op.item # Manifest}

VARIABLES
    stopping,  \* Shutdown has cancelled svcCtx
    stage,     \* stage[b]: the flight of b in the singleflight group
    part,      \* part[b]: the item the flight writes, 0 for the manifest
    budget,    \* budget[b]: what is left of the flight's build timeout
    sem,       \* occupied build slots
    life,      \* life[b][i]: remaining life of item i of b in Redis
    late,      \* late[b][c]: the command on b that c cut its caller off from
    req,       \* req[r]: which book request r asks for and how far it got
    needless   \* what only a property reads: needless[b] holds while a flight
               \* of b is under way that began on an entry good for the two
               \* looks, whose manifest nothing has retracted since

flightVars == <<stage, part, budget, sem, needless>>
vars == <<stopping, flightVars, life, late, req>>

Idle     == [at |-> "idle"]
Requests == [at : {"manifest", "chunk0", "join", "wait"}, book : Books]
At(s, b) == [at |-> s, book |-> b]

TypeOK ==
    /\ stopping \in BOOLEAN
    /\ stage \in [Books -> Stages]
    /\ part \in [Books -> Items]
    /\ budget \in [Books -> 0..Timeout]
    /\ sem \in Nat
    /\ life \in [Books -> [Items -> Lives]]
    /\ late \in [Books -> [Causes -> LateOps]]
    /\ needless \in [Books -> BOOLEAN]
    /\ req \in [Readers -> Requests \cup {Idle}]

Init ==
    /\ stopping = FALSE
    /\ stage  = [b \in Books |-> "none"]
    /\ part   = [b \in Books |-> 0]
    /\ budget = [b \in Books |-> 0]
    /\ sem = 0
    /\ life = [b \in Books |-> [i \in Items |-> 0]]
    /\ late = [b \in Books |-> [c \in Causes |-> NoOp]]
    /\ needless = [b \in Books |-> FALSE]
    /\ req  = [r \in Readers |-> Idle]

InCache(b, i) == life[b][i] > 0

\* What cachedEntry takes for a complete entry.
Hit(b) == InCache(b, Manifest) /\ InCache(b, 1)

\* What the manifest promises: every chunk and every image is there.
Whole(b) == \A i \in PartsOf(b) : InCache(b, i)

\* Mutant: a build whose context carries no timeout.
CtxDoneWithoutTimeout(b) == stopping

CtxDone(b) == stopping \/ budget[b] = 0

SetLife(b, i, l) == life' = [life EXCEPT ![b][i] = l]
Store(b, i)      == SetLife(b, i, Ttl)

\* What a failed write of item i may leave behind: nothing, the item, or an
\* image whose EXPIRE did not follow its HMSET.
MayStore(b, i) ==
    \/ UNCHANGED life
    \/ Store(b, i)
    \/ /\ i # Manifest /\ IsImage(b, i) /\ ~InCache(b, i)
       /\ SetLife(b, i, Forever)

\* What a write of item i by a command that ran on leaves behind: the HMSET of
\* an image gives it no TTL and takes none away.
Land(b, i) ==
    IF i = Manifest \/ ~IsImage(b, i) THEN Store(b, i)
    ELSE SetLife(b, i, IF InCache(b, i) THEN life[b][i] ELSE Forever)

------------------------------------------------------------------------------
(* Requests: PreviewService.Load up to the wait on the flight's channel.   *)

\* resolve accepts the book and Ping finds Redis.  (A request refused here
\* changes nothing.)
Open(r, b) ==
    /\ req[r] = Idle
    /\ req' = [req EXCEPT ![r] = At("manifest", b)]
    /\ UNCHANGED <<stopping, flightVars, life, late>>

\* cachedEntry on the request's context: the manifest, then the first chunk.
\* A hit is answered, a miss goes on to a flight, and a read that fails
\* refuses the request: it never counts as a miss.
ReadEntry(r, b) ==
    /\ \/ /\ req[r] = At("manifest", b)
          /\ req' = [req EXCEPT ![r] = At(IF InCache(b, Manifest) THEN "chunk0"
                                                                 ELSE "join", b)]
       \/ /\ req[r] = At("chunk0", b)
          /\ req' = [req EXCEPT ![r] = IF InCache(b, 1) THEN Idle ELSE At("join", b)]
       \/ /\ req[r] \in {At("manifest", b), At("chunk0", b)}
          /\ req' = [req EXCEPT ![r] = Idle]
    /\ UNCHANGED <<stopping, flightVars, life, late>>

\* The entry of b outlives two build timeouts and a command.
Ample(b) == life[b][Manifest] > 2 * Timeout + OpTime

\* DoChan: join the flight of the key, or start it with a fresh build context.
Join(r, b) ==
    /\ req[r] = At("join", b)
    /\ req' = [req EXCEPT ![r] = At("wait", b)]
    /\ IF stage[b] = "none"
       THEN /\ stage'  = [stage EXCEPT ![b] = "recheck"]
            /\ budget' = [budget EXCEPT ![b] = Timeout]
            /\ needless' = IF Ample(b) THEN [needless EXCEPT ![b] = TRUE] ELSE needless
       ELSE UNCHANGED <<stage, budget, needless>>
    /\ UNCHANGED <<stopping, part, sem, life, late>>

\* The reader goes away.  Load stops before a flight it has not joined, and
\* leaves one it waits for to itself.
Leave(r) ==
    /\ req[r] # Idle
    /\ req' = [req EXCEPT ![r] = Idle]
    /\ UNCHANGED <<stopping, flightVars, life, late>>

------------------------------------------------------------------------------
(* The flight: the function passed to DoChan and buildAndCache.            *)

\* The function returns: the deferred slot release, the key forgotten, the
\* result handed to every waiter.
Finish(b) ==
    /\ stage'  = [stage EXCEPT ![b] = "none"]
    /\ part'   = [part EXCEPT ![b] = 0]
    /\ budget' = [budget EXCEPT ![b] = 0]
    /\ sem' = IF stage[b] \in Building THEN sem - 1 ELSE sem
    /\ needless' = [needless EXCEPT ![b] = FALSE]
    /\ req' = [r \in Readers |-> IF req[r] = At("wait", b) THEN Idle ELSE req[r]]

Goto(b, s) ==
    /\ stage' = [stage EXCEPT ![b] = s]
    /\ UNCHANGED <<part, budget, sem, needless, req>>

\* Mutant: a read that fails counts as a miss.
RecheckFailureIsMiss(b) ==
    /\ stage[b] \in {"recheck", "recheck0"}
    /\ \/ Goto(b, "slot")
       \/ /\ InCache(b, IF stage[b] = "recheck" THEN Manifest ELSE 1)
          /\ IF stage[b] = "recheck" THEN Goto(b, "recheck0") ELSE Finish(b)
    /\ UNCHANGED <<stopping, life, late>>

\* cachedEntry again, inside the flight and on the build's context.
Recheck(b) ==
    /\ stage[b] \in {"recheck", "recheck0"}
    /\ LET item == IF stage[b] = "recheck" THEN Manifest ELSE 1 IN
       \/ Finish(b)
       \/ /\ ~CtxDone(b) /\ ~InCache(b, item)
          /\ Goto(b, "slot")
       \/ /\ ~CtxDone(b) /\ InCache(b, item)
          /\ IF stage[b] = "recheck" THEN Goto(b, "recheck0")
                                     ELSE Finish(b)
    /\ UNCHANGED <<stopping, life, late>>

\* Mutant: one slot too many.
TakeSlotOffByOne(b) ==
    /\ stage[b] = "slot" /\ sem <= Slots
    /\ stage' = [stage EXCEPT ![b] = "load"]
    /\ sem' = sem + 1
    /\ UNCHANGED <<stopping, part, budget, needless, life, late, req>>

\* The non-blocking semaphore.
TakeSlot(b) ==
    /\ stage[b] = "slot"
    /\ IF sem < Slots
       THEN /\ stage' = [stage EXCEPT ![b] = "load"]
            /\ sem' = sem + 1
            /\ UNCHANGED <<part, budget, needless, req>>
       ELSE Finish(b)
    /\ UNCHANGED <<stopping, life, late>>

\* Unpack, parse, prepare images, portion and render.  The archive may be
\* unreadable, and the gates refuse some books every time.
Prepare(b) ==
    /\ stage[b] = "load"
    /\ \/ Finish(b)
       \/ /\ Parts[b] > 0
          /\ stage' = [stage EXCEPT ![b] = "put"]
          /\ part'  = [part EXCEPT ![b] = 1]
          /\ UNCHANGED <<budget, sem, needless, req>>
    /\ UNCHANGED <<stopping, life, late>>

\* The buildCtx.Err() gate in front of every write.
Send(b) ==
    /\ stage[b] = "put" /\ ~CtxDone(b)
    /\ Goto(b, "sent")
    /\ UNCHANGED <<stopping, life, late>>

\* Mutant: the manifest goes out before the last part.
NextItemTooSoon(b) == IF part[b] + 1 >= Parts[b] THEN Manifest ELSE part[b] + 1

\* Chunks, then images, then the manifest.
NextItem(b) == IF part[b] = Parts[b] THEN Manifest ELSE part[b] + 1

PartStored(b) ==
    /\ stage[b] = "sent" /\ part[b] # Manifest
    /\ Store(b, part[b])
    /\ stage' = [stage EXCEPT ![b] = "put"]
    /\ part'  = [part EXCEPT ![b] = NextItem(b)]
    /\ UNCHANGED <<stopping, budget, sem, needless, late, req>>

WriteFails(b) ==
    /\ stage[b] = "sent"
    /\ MayStore(b, part[b])
    /\ Finish(b)
    /\ UNCHANGED <<stopping, late>>

ManifestStored(b) ==
    /\ stage[b] = "sent" /\ part[b] = Manifest
    /\ Store(b, Manifest)
    /\ Goto(b, "stored")
    /\ UNCHANGED <<stopping, late>>

\* PutManifest looks at the deadline once its SET is through.
CompareDeadline(b) ==
    /\ stage[b] = "stored"
    /\ Goto(b, IF CtxDone(b) THEN "retracting" ELSE "acked")
    /\ UNCHANGED <<stopping, life, late>>

\* The retraction deletes whatever manifest is there (a rebuild of the same
\* revision writes the same bytes), or fails and is only logged.
Retract(b) ==
    /\ stage[b] = "retracting"
    /\ \/ SetLife(b, Manifest, 0)
       \/ UNCHANGED life
    /\ Goto(b, "acked")
    /\ UNCHANGED <<stopping, late>>

Acknowledge(b) ==
    /\ stage[b] = "acked"
    /\ Finish(b)
    /\ UNCHANGED <<stopping, life, late>>

\* Why the context of b's flight has ended.
Cause(b) == IF budget[b] = 0 THEN "deadline" ELSE "shutdown"

\* The write the flight leaves running when its context ends mid-command.
Abandoned(b) ==
    IF stage[b] = "sent" THEN LateOp("set", part[b])
    ELSE IF stage[b] \in {"stored", "retracting"} THEN LateOp("retract", Manifest)
    ELSE late[b][Cause(b)]

\* The context ends: awaitCmd, the loader, the parser, the renderer and the
\* write gates all return at once.
CutOff(b) ==
    /\ stage[b] \notin {"none", "slot"} /\ CtxDone(b)
    /\ late' = [late EXCEPT ![b][Cause(b)] = Abandoned(b)]
    /\ Finish(b)
    /\ UNCHANGED <<stopping, life>>

------------------------------------------------------------------------------
(* Commands that outlived their caller (awaitCmd's detached goroutine).    *)

LateTo(b, c, op) == late' = [late EXCEPT ![b][c] = op]

\* The write lands; an image still wants its EXPIRE, a manifest that landed
\* past the deadline its retraction.
LateSet(b, c) ==
    LET i == late[b][c].item IN
    /\ late[b][c].stage = "set"
    /\ Land(b, i)
    /\ LateTo(b, c, IF i = Manifest THEN LateOp("retract", Manifest)
                    ELSE IF IsImage(b, i) THEN LateOp("expire", i) ELSE NoOp)
    /\ UNCHANGED <<stopping, flightVars, req>>

\* An EXPIRE of a key that is gone does nothing.
LateExpire(b, c) ==
    /\ late[b][c].stage = "expire"
    /\ IF InCache(b, late[b][c].item) THEN Store(b, late[b][c].item) ELSE UNCHANGED life
    /\ LateTo(b, c, NoOp)
    /\ UNCHANGED <<stopping, flightVars, req>>

LateRetract(b, c) ==
    /\ late[b][c].stage = "retract"
    /\ SetLife(b, Manifest, 0)
    /\ LateTo(b, c, NoOp)
    /\ needless' = [needless EXCEPT ![b] = FALSE]
    /\ UNCHANGED <<stopping, stage, part, budget, sem, req>>

\* The command fails, or its answer does after it was carried out.
LateFails(b, c) ==
    /\ late[b][c].stage # "none"
    /\ \/ late[b][c].stage = "set" /\ Land(b, late[b][c].item)
       \/ UNCHANGED life
    /\ LateTo(b, c, NoOp)
    /\ UNCHANGED <<stopping, flightVars, req>>

LateStep(b, c) == LateSet(b, c) \/ LateExpire(b, c) \/ LateRetract(b, c) \/ LateFails(b, c)

------------------------------------------------------------------------------
(* Time and environment.                                                   *)

Aged(l)  == IF l \in 1..Ttl THEN l - 1 ELSE l

LateAged(op) ==
    IF op.left <= 1 THEN NoOp
    ELSE [stage |-> op.stage, item |-> op.item, left |-> op.left - 1]

\* A flight whose context has ended returns before time goes on.
Tick ==
    /\ \A b \in Books : stage[b] # "none" => budget[b] > 0
    /\ life' = [b \in Books |-> [i \in Items |-> Aged(life[b][i])]]
    /\ late' = [b \in Books |-> [c \in Causes |-> LateAged(late[b][c])]]
    /\ budget' = [b \in Books |-> IF budget[b] > 0 THEN budget[b] - 1 ELSE 0]
    /\ UNCHANGED <<stopping, stage, part, sem, needless, req>>

Shutdown ==
    /\ ~stopping /\ stopping' = TRUE
    /\ UNCHANGED <<flightVars, life, late, req>>

\* The process ends, by crash or after Shutdown, and comes back: only Redis
\* remembers.  (A write in flight that reached Redis is a PartStored,
\* ManifestStored, WriteFails or LateSet just before.)
Restart ==
    /\ stopping' = FALSE
    /\ stage'  = [b \in Books |-> "none"]
    /\ part'   = [b \in Books |-> 0]
    /\ budget' = [b \in Books |-> 0]
    /\ sem' = 0
    /\ late' = [b \in Books |-> [c \in Causes |-> NoOp]]
    /\ needless' = [b \in Books |-> FALSE]
    /\ req' = [r \in Readers |-> Idle]
    /\ UNCHANGED life

Flight(b) ==
    \/ Recheck(b) \/ TakeSlot(b) \/ Prepare(b) \/ Send(b) \/ PartStored(b)
    \/ WriteFails(b) \/ ManifestStored(b) \/ CompareDeadline(b) \/ Retract(b)
    \/ Acknowledge(b) \/ CutOff(b)

Step ==
    \/ \E r \in Readers :
          \/ \E b \in Books : Open(r, b) \/ ReadEntry(r, b) \/ Join(r, b)
          \/ Leave(r)
    \/ \E b \in Books : Flight(b)
    \/ \E b \in Books, c \in Causes : LateStep(b, c)
    \/ Shutdown \/ Restart

Next == Step \/ Tick

Spec == Init /\ [][Next]_vars

(***************************************************************************)
(* Goroutines whose context has ended get to run, the semaphore never      *)
(* blocks, and time passes.  Nothing is assumed of Redis or the archive.   *)
(***************************************************************************)
Fairness ==
    /\ WF_vars(Tick)
    /\ \A b \in Books : WF_vars(CutOff(b)) /\ WF_vars(TakeSlot(b))

FairSpec == Spec /\ Fairness

------------------------------------------------------------------------------
(* Properties.                                                             *)

\* The flights between the acquisition of their slot and their end.
Holders == {b \in Books : stage[b] \in Building}

\* Slots are counted exactly: one is occupied by each such flight and by
\* nothing else, whichever of buildAndCache's returns it takes, and the ceiling
\* is never exceeded.
SlotAccounting ==
    /\ sem = Cardinality(Holders)
    /\ sem <= Slots

\* The phase-3 invariant with its true extent: while a manifest has more than
\* Timeout + OpTime left to live, every chunk and image it promises is in the
\* cache, whatever builds were cut off, failed halfway, completed late or were
\* lost in a restart since.
WholeUntilTail ==
    \A b \in Books : life[b][Manifest] > Timeout + OpTime => Whole(b)

\* A part never lags its manifest by more than a build and one late command.
TailBound ==
    \A b \in Books : \A i \in PartsOf(b) :
        InCache(b, Manifest) =>
            life[b][i] + Timeout + OpTime >= life[b][Manifest]

\* Why: the parts a flight has written are as fresh as the time it spent, and
\* a manifest SET that outlives the deadline does so by at most OpTime.
Written(b, i) == stage[b] \in {"put", "sent"} /\ (part[b] = Manifest \/ i < part[b])

FlightFresh ==
    \A b \in Books : \A i \in PartsOf(b) :
        Written(b, i) => life[b][i] + Timeout >= Ttl + budget[b]

LateFresh ==
    \A b \in Books : \A i \in PartsOf(b), c \in Causes :
        late[b][c].stage = "set" /\ late[b][c].item = Manifest =>
            life[b][i] + Timeout + OpTime >= Ttl + late[b][c].left

\* TailBound strengthened until it is inductive.
TailInv ==
    /\ TailBound /\ FlightFresh /\ LateFresh
    /\ \A b \in Books :
          /\ life[b][Manifest] <= Ttl
          /\ stage[b] \in {"put", "sent"} => part[b] <= Parts[b]

\* A flight that begins while the entry still has two build timeouts and a
\* command to live never unpacks the archive, however long its request was on
\* its way since it missed, however slowly the flight looks, whatever reads
\* fail and whatever late commands land: only a retraction makes it build.
NoNeedlessBuild ==
    \A b \in Books : needless[b] => stage[b] \in {"recheck", "recheck0"}

\* Why: the manifest lives until the second look, and the first chunk with it.
NeedlessInv ==
    \A b \in Books :
        /\ needless[b] => /\ stage[b] \in {"recheck", "recheck0"}
                          /\ life[b][Manifest] > Timeout + OpTime + budget[b]
        /\ stage[b] \in {"put", "sent"} => Parts[b] > 0
        /\ \A c \in Causes : late[b][c].stage = "set" => Parts[b] > 0
        /\ InCache(b, Manifest) => Parts[b] > 0

\* No flight pins its key and its slot forever: with Redis or the archive
\* hanging and every reader gone, each flight still ends.
FlightsEnd == \A b \in Books : stage[b] # "none" ~> stage[b] = "none"

\* The preview implements the abstract pool of build slots.
Pool == INSTANCE BuildPool WITH
            Jobs <- Books, Capacity <- Slots,
            running <- Holders

PoolSpec == Pool!Spec
=============================================================================
