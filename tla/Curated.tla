------------------------------ MODULE Curated -------------------------------
(***************************************************************************)
(* A curated collection: the import goroutine                              *)
(* (services/curated_collection_import.go), the resolution of its items by *)
(* an administrator, by score and by the language model                    *)
(* (services/curated_collection_repo.go) and the matcher                   *)
(* (services/collection_matcher.go), over the rows of                      *)
(* database/curated_collections.go.                                        *)
(*                                                                         *)
(* Every statement is atomic and nothing spans two of them.  The counters  *)
(* of the import and the progress of the model's loops are one JSON column *)
(* that everyone writes whole.  Matching scores are the three ranges the   *)
(* matcher tells apart; a book's number is its place in the order of       *)
(* registration.                                                           *)
(***************************************************************************)
EXTENDS Integers, FiniteSets

CONSTANTS
    Volumes,   \* the books, numbered in the order they were registered
    Keys,      \* normalised (author, title) pairs
    Nameless,  \* the pair of an author and a title without a letter or digit
    Key,       \* Key[i]: the pair of the i-th item of the import
    N,         \* number of items
    Found,     \* Found[k]: the candidates of pair k, [book, score]
    Cached,    \* Cached[k]: what earlier collections decided, or NoBook
    Actors,    \* resolutions in progress at one time
    MaxStarts  \* bound on the resolutions ever started

Low == 0   Mid == 1   High == 2   \* below MidThreshold, between, from HighThreshold
NoBook == 0
Items == 1..N

ASSUME CuratedAssumption ==
    /\ N \in Nat \ {0} /\ MaxStarts \in Nat
    /\ Volumes \subseteq Nat \ {NoBook} /\ IsFiniteSet(Volumes)
    /\ Key \in [Items -> Keys]
    /\ Found \in [Keys -> SUBSET [book : Volumes, score : Low..High]]
    /\ Cached \in [Keys -> Volumes \cup {NoBook}]

VARIABLES
    status,    \* import_status of the collection, or "none" and "deleted"
    stats,     \* import_stats: the counters and whether a loop says it runs
    item,      \* item[i]: its row, [match, book, cands]
    cache,     \* cache[k]: the row of book_match_decisions, or NoBook
    import,    \* where the import goroutine is: [at, n, res]
    tally,     \* its own counters
    doing,     \* doing[a]: where resolution a is
    mode,      \* mode[a]: who runs it
    todo,      \* todo[a]: the items it listed and has not gone through, as
               \*   they were then: [item, cands]
    base,      \* base[a]: the import_stats it read when it began
    pick,      \* pick[a]: the item it is at and the book for it
    starts,    \* number of resolutions started
    \* What only the properties read:
    cut,       \* a crash or a failed last write has left something unfinished
    early,     \* a loop read the counters while the import was running
    latest,    \* latest[k]: the item with pair k that was resolved last
    mixed      \* pairs whose decision was not saved, or that two resolved at once

rowVars  == <<status, stats, item, cache>>
loopVars == <<doing, mode, todo, base, pick>>
curatedNotes == <<cut, early, latest, mixed>>
curatedVars     == <<rowVars, import, tally, loopVars, starts, curatedNotes>>

Counts(m, a, n, p)    == [matched |-> m, ambiguous |-> a, notFound |-> n, processed |-> p]
Stats(counts, running) == [counts |-> counts, running |-> running]
Row(match, book, cands) == [match |-> match, book |-> book, cands |-> cands]
Pick(i, book)         == [item |-> i, book |-> book]
Entry(i, cands)       == [item |-> i, cands |-> cands]
Importer(place, n, res) == [at |-> place, n |-> n, res |-> res]

Zero   == Counts(0, 0, 0, 0)
NoItem == Row("absent", NoBook, {})
NoPick == Pick(1, NoBook)

Matches  == {"absent", "auto_matched", "manual", "ambiguous", "not_found", "ignored"}
AllCands == UNION {Found[k] : k \in Keys}
Rows     == [match : Matches, book : Volumes \cup {NoBook}, cands : SUBSET AllCands]
AllCounts == [matched : 0..N, ambiguous : 0..N, notFound : 0..N, processed : 0..N]
AllStats == [counts : AllCounts, running : BOOLEAN]
Modes    == {"admin", "auto", "resolve_ambiguous", "search_not_found"}
ActorPlaces   == {"idle", "list", "base", "start", "next", "item", "decide", "report"}

CuratedTypeOK ==
    /\ status \in {"none", "importing", "completed", "failed", "deleted"}
    /\ stats \in AllStats
    /\ item \in [Items -> Rows]
    /\ cache \in [Keys -> Volumes \cup {NoBook}]
    /\ import \in [at : {"idle", "match", "save", "report", "done", "failed"},
                   n : 1..(N + 1), res : Rows]
    /\ tally \in AllCounts
    /\ doing \in [Actors -> ActorPlaces] /\ mode \in [Actors -> Modes]
    /\ todo \in [Actors -> SUBSET [item : Items, cands : SUBSET AllCands]]
    /\ base \in [Actors -> AllStats]
    /\ pick \in [Actors -> [item : Items, book : Volumes \cup {NoBook}]]
    /\ starts \in 0..MaxStarts
    /\ cut \in BOOLEAN /\ early \in BOOLEAN
    /\ latest \in [Keys -> 0..N] /\ mixed \subseteq Keys

CuratedInit ==
    /\ status = "none" /\ stats = Stats(Zero, FALSE)
    /\ item = [i \in Items |-> NoItem]
    /\ cache = Cached
    /\ import = Importer("idle", 1, NoItem) /\ tally = Zero
    /\ doing = [a \in Actors |-> "idle"] /\ mode = [a \in Actors |-> "admin"]
    /\ todo = [a \in Actors |-> {}]
    /\ base = [a \in Actors |-> Stats(Zero, FALSE)]
    /\ pick = [a \in Actors |-> NoPick]
    /\ starts = 0
    /\ cut = FALSE /\ early = FALSE
    /\ latest = [k \in Keys |-> 0] /\ mixed = {}

------------------------------------------------------------------------------
(* The matcher.                                                            *)

Best(cands)   == CHOOSE c \in cands : \A d \in cands : d.score <= c.score
Meaningful(k) == {c \in Found[k] : c.score >= Mid}

\* MatchOne: the decision cache first, then the candidates.
MatchOne(k) ==
    IF cache[k] # NoBook THEN Row("manual", cache[k], {})
    ELSE IF Meaningful(k) = {} THEN Row("not_found", NoBook, {})
    ELSE IF Cardinality(Meaningful(k)) = 1 /\ Best(Meaningful(k)).score = High
         THEN Row("auto_matched", Best(Meaningful(k)).book, {})
    ELSE Row("ambiguous", NoBook, Meaningful(k))

\* pickAutoResolveTarget: among the best candidates the latest book.
Target(cands) ==
    LET tied == {c.book : c \in {d \in cands : d.score = Best(cands).score}}
    IN  CHOOSE b \in tied : \A o \in tied : o <= b

------------------------------------------------------------------------------
(* The import goroutine.                                                   *)

Exists == status \notin {"none", "deleted"}

\* An UPDATE of the collection's row; a deleted row is no error.
WriteStats(s)       == stats' = IF Exists THEN s ELSE stats
WriteStatus(new, s) == /\ WriteStats(s)
                       /\ status' = IF Exists THEN new ELSE status

\* StartImport: the collection is created, the goroutine begins.
StartImport ==
    /\ status = "none"
    /\ status' = "importing"
    /\ import' = Importer("match", 1, NoItem)
    /\ UNCHANGED <<stats, item, cache, tally, loopVars, starts, curatedNotes>>

\* processItems: the matcher's answer for the next item, or its error.
Match ==
    /\ import.at = "match"
    /\ import' = IF import.n > N THEN Importer("done", import.n, NoItem)
                 ELSE Importer("save", import.n, MatchOne(Key[import.n]))
    /\ UNCHANGED <<rowVars, tally, loopVars, starts, curatedNotes>>

MatchOrSaveFails ==
    /\ import.at \in {"match", "save"} /\ import.n <= N
    /\ import' = Importer("failed", import.n, NoItem)
    /\ UNCHANGED <<rowVars, tally, loopVars, starts, curatedNotes>>

Counted(t, match, n) ==
    Counts(t.matched + IF match \in {"auto_matched", "manual"} THEN 1 ELSE 0,
           t.ambiguous + IF match = "ambiguous" THEN 1 ELSE 0,
           t.notFound + IF match = "not_found" THEN 1 ELSE 0, n)

\* AddItem, which fails once the collection is gone; then the counters.
Save ==
    /\ import.at = "save" /\ Exists
    /\ item' = [item EXCEPT ![import.n] = import.res]
    /\ tally' = Counted(tally, import.res.match, import.n)
    /\ import' = Importer(IF import.n < N THEN "report" ELSE "match", import.n + 1, NoItem)
    /\ UNCHANGED <<status, stats, cache, loopVars, starts, curatedNotes>>

\* The progress of a short import, after every item but the last; the write
\* may fail unnoticed.
Report ==
    /\ import.at = "report"
    /\ \/ WriteStatus("importing", Stats(tally, FALSE))
       \/ UNCHANGED <<status, stats>>
    /\ import' = Importer("match", import.n, NoItem)
    /\ UNCHANGED <<item, cache, tally, loopVars, starts, curatedNotes>>

\* The final status, whose write may fail unnoticed as well.
Finish ==
    /\ import.at \in {"done", "failed"}
    /\ \/ /\ WriteStatus(IF import.at = "done" THEN "completed" ELSE "failed",
                         Stats(tally, FALSE))
          /\ UNCHANGED cut
       \/ cut' = TRUE /\ UNCHANGED <<status, stats>>
    /\ import' = Importer("idle", 1, NoItem)
    /\ UNCHANGED <<item, cache, tally, loopVars, starts, early, latest, mixed>>

------------------------------------------------------------------------------
(* Resolutions.                                                            *)

Turn(a, place) == doing' = [doing EXCEPT ![a] = place]

\* The loop of a is over and what it remembered is gone.
Quit(a) == /\ Turn(a, "idle")
           /\ mode' = [mode EXCEPT ![a] = "admin"]
           /\ todo' = [todo EXCEPT ![a] = {}]
           /\ base' = [base EXCEPT ![a] = Stats(Zero, FALSE)]

\* The handlers: a loop of the model is refused while one says it runs.
Start(a, m) ==
    /\ doing[a] = "idle" /\ Exists /\ starts < MaxStarts
    /\ m \in {"resolve_ambiguous", "search_not_found"} => ~stats.running
    /\ mode' = [mode EXCEPT ![a] = m]
    /\ starts' = starts + 1
    /\ IF m = "admin"
       THEN /\ \E i \in Items, b \in Volumes : /\ item[i].match # "absent"
                                              /\ pick' = [pick EXCEPT ![a] = Pick(i, b)]
            /\ Turn(a, "item")
       ELSE Turn(a, "list") /\ UNCHANGED pick
    /\ UNCHANGED <<rowVars, import, tally, todo, base, curatedNotes>>

Wants(m)  == IF m = "search_not_found" THEN "not_found" ELSE "ambiguous"
Listed(m) == {Entry(i, item[i].cands) : i \in {j \in Items : item[j].match = Wants(m)}}

\* ListCollectionItems, once; what happens to the items later is not seen.
List(a) ==
    /\ doing[a] = "list"
    /\ todo' = [todo EXCEPT ![a] = Listed(mode[a])]
    /\ Turn(a, IF mode[a] = "auto" THEN "next" ELSE "base")
    /\ UNCHANGED <<rowVars, import, tally, mode, base, pick, starts, curatedNotes>>

\* Mutant: the counters are not kept.
ReadNothing(a) ==
    /\ doing[a] = "base"
    /\ IF stats.running \/ ~Exists
       THEN Quit(a) /\ UNCHANGED early
       ELSE /\ base' = [base EXCEPT ![a] = Stats(Zero, FALSE)]
            /\ early' = (early \/ status = "importing")
            /\ Turn(a, "start") /\ UNCHANGED <<mode, todo>>
    /\ UNCHANGED <<rowVars, import, tally, pick, starts, cut, latest, mixed>>

\* The second look at the flag, and the counters every progress write repeats.
ReadBase(a) ==
    /\ doing[a] = "base"
    /\ IF stats.running \/ ~Exists
       THEN Quit(a) /\ UNCHANGED early
       ELSE /\ base' = [base EXCEPT ![a] = stats]
            /\ early' = (early \/ status = "importing")
            /\ Turn(a, "start") /\ UNCHANGED <<mode, todo>>
    /\ UNCHANGED <<rowVars, import, tally, pick, starts, cut, latest, mixed>>

Publish(a, running) == WriteStats(Stats(base[a].counts, running))

\* publish: the whole column from the loop's copy; a failure is only logged.
FirstPublish(a) ==
    /\ doing[a] = "start"
    /\ Publish(a, TRUE) \/ UNCHANGED stats
    /\ Turn(a, "next")
    /\ UNCHANGED <<status, item, cache, import, tally, mode, todo, base, pick, starts, curatedNotes>>

\* The answers an item may get: a book, new candidates, or nothing (also when
\* a call fails).  The loops of the model ask it, the other one looks at the
\* scores.
Answers(a, cands) ==
    CASE mode[a] = "auto" -> {Row("manual", Target(cands), {})}
      [] mode[a] = "resolve_ambiguous" ->
            {Row("not_found", NoBook, {})} \cup {Row("manual", c.book, {}) : c \in cands}
      [] OTHER -> {Row("not_found", NoBook, {})} \cup {MatchOne(k) : k \in Keys}

\* The loop goes on to an item it listed, whatever became of it since.
NextItem(a) ==
    /\ doing[a] = "next"
    /\ \E e \in todo[a] :
        /\ \A o \in todo[a] : e.item <= o.item
        /\ todo' = [todo EXCEPT ![a] = @ \ {e}]
        /\ IF mode[a] # "search_not_found" /\ e.cands = {}
           THEN /\ Turn(a, IF mode[a] = "auto" THEN "next" ELSE "report")
                /\ UNCHANGED <<item, pick>>
           ELSE \E r \in Answers(a, e.cands) :
                /\ pick' = IF r.book = NoBook THEN pick
                           ELSE [pick EXCEPT ![a] = Pick(e.item, r.book)]
                /\ item' = IF r.match = "ambiguous" /\ Exists
                           THEN [item EXCEPT ![e.item] = Row("ambiguous", @.book, r.cands)]
                           ELSE item
                /\ Turn(a, IF r.book # NoBook THEN "item" ELSE "report")
    /\ UNCHANGED <<status, stats, cache, import, tally, mode, base, starts, curatedNotes>>

AfterResolve(a) ==
    /\ Turn(a, CASE mode[a] = "admin" -> "idle"
               [] mode[a] = "auto"  -> "next"
               [] OTHER             -> "report")
    /\ pick' = [pick EXCEPT ![a] = NoPick]

PickKey(a) == Key[pick[a].item]

\* Resolve: the item gets the book, whatever became of it meanwhile...
ResolveItem(a) ==
    /\ doing[a] = "item"
    /\ IF Exists
       THEN /\ item' = [item EXCEPT ![pick[a].item] = Row("manual", pick[a].book, @.cands)]
            /\ latest' = [latest EXCEPT ![PickKey(a)] = pick[a].item]
            /\ mixed' = IF \E o \in Actors \ {a} : doing[o] = "decide" /\ PickKey(o) = PickKey(a)
                        THEN mixed \cup {PickKey(a)} ELSE mixed
            /\ Turn(a, "decide") /\ UNCHANGED pick
       ELSE AfterResolve(a) /\ UNCHANGED <<item, latest, mixed>>
    /\ UNCHANGED <<status, stats, cache, import, tally, mode, todo, base, starts, cut, early>>

\* Mutant: the decision is kept for the pair the model came up with.
DecideOther(a) ==
    /\ doing[a] = "decide"
    /\ \E k \in IF mode[a] = "search_not_found" THEN Keys ELSE {PickKey(a)} :
        cache' = [cache EXCEPT ![k] = pick[a].book]
    /\ AfterResolve(a)
    /\ UNCHANGED <<status, stats, item, import, tally, mode, todo, base, starts, curatedNotes>>

\* ... and then the decision is kept for the item's own pair, if it names anything.
Decide(a) ==
    /\ doing[a] = "decide"
    /\ cache' = IF PickKey(a) = Nameless THEN cache
                ELSE [cache EXCEPT ![PickKey(a)] = pick[a].book]
    /\ AfterResolve(a)
    /\ UNCHANGED <<status, stats, item, import, tally, mode, todo, base, starts, curatedNotes>>

\* A failed call: the loop skips the item, which may be resolved already.
ResolveFails(a) ==
    /\ doing[a] \in {"item", "decide"}
    /\ mixed' = IF doing[a] = "decide" THEN mixed \cup {PickKey(a)} ELSE mixed
    /\ AfterResolve(a)
    /\ UNCHANGED <<rowVars, import, tally, mode, todo, base, starts, cut, early, latest>>

LoopReport(a) ==
    /\ doing[a] = "report"
    /\ Publish(a, TRUE) \/ UNCHANGED stats
    /\ Turn(a, "next")
    /\ UNCHANGED <<status, item, cache, import, tally, mode, todo, base, pick, starts, curatedNotes>>

\* Mutant: the flag is cleared only when something was left to do.
LeaveQuietly(a) ==
    /\ doing[a] = "next" /\ todo[a] = {}
    /\ Quit(a)
    /\ UNCHANGED <<rowVars, import, tally, pick, starts, curatedNotes>>

\* The list is done; the deferred publish clears the flag, unless it fails.
Leave(a) ==
    /\ doing[a] = "next" /\ todo[a] = {}
    /\ IF mode[a] = "auto" THEN UNCHANGED <<stats, cut>>
       ELSE \/ Publish(a, FALSE) /\ UNCHANGED cut
            \/ cut' = TRUE /\ UNCHANGED stats
    /\ Quit(a)
    /\ UNCHANGED <<status, item, cache, import, tally, pick, starts, early, latest, mixed>>

\* IgnoreCollectionItem.
Ignore(i) ==
    /\ Exists /\ item[i].match \notin {"absent", "ignored"}
    /\ item' = [item EXCEPT ![i] = Row("ignored", @.book, @.cands)]
    /\ UNCHANGED <<status, stats, cache, import, tally, loopVars, starts, curatedNotes>>

\* DeleteCuratedCollection; the items go with it.
Delete ==
    /\ Exists
    /\ status' = "deleted"
    /\ item' = [i \in Items |-> NoItem]
    /\ latest' = [k \in Keys |-> 0]
    /\ UNCHANGED <<stats, cache, import, tally, loopVars, starts, cut, early, mixed>>

\* The process ends: the goroutines are gone, the rows stay.
Crash ==
    /\ \/ import.at # "idle"
       \/ \E a \in Actors : doing[a] # "idle"
    /\ import' = Importer("idle", 1, NoItem)
    /\ doing' = [a \in Actors |-> "idle"] /\ mode' = [a \in Actors |-> "admin"]
    /\ todo' = [a \in Actors |-> {}] /\ pick' = [a \in Actors |-> NoPick]
    /\ base' = [a \in Actors |-> Stats(Zero, FALSE)]
    /\ cut' = TRUE
    /\ mixed' = mixed \cup {PickKey(a) : a \in {o \in Actors : doing[o] = "decide"}}
    /\ UNCHANGED <<rowVars, tally, starts, early, latest>>

ImportStep == Match \/ MatchOrSaveFails \/ Save \/ Report \/ Finish
LoopStep(a) == \/ List(a) \/ ReadBase(a) \/ FirstPublish(a) \/ NextItem(a)
               \/ ResolveItem(a) \/ Decide(a) \/ ResolveFails(a)
               \/ LoopReport(a) \/ Leave(a)

CuratedNext ==
    \/ StartImport \/ ImportStep
    \/ \E a \in Actors : LoopStep(a) \/ \E m \in Modes : Start(a, m)
    \/ \E i \in Items : Ignore(i)
    \/ Delete \/ Crash

CuratedSpec == CuratedInit /\ [][CuratedNext]_curatedVars

------------------------------------------------------------------------------
(* Properties.                                                             *)

\* The flag that refuses a further loop is up only while a loop runs that will
\* take it down, however the loops and the import overwrite each other's
\* column, unless a crash or a failed last write left it there.
RunningIsLive ==
    stats.running /\ ~cut /\ status # "deleted" =>
        \E a \in Actors : doing[a] \in {"next", "item", "decide", "report"}
                          /\ mode[a] \notin {"admin", "auto"}

\* The counters of a finished import stay those of its items as they were
\* imported, whatever the loops write, unless a loop began before it ended.
CountsSurvive ==
    status \in {"completed", "failed"} /\ ~early => stats.counts = tally

\* After a resolution the next import of the same pair gets the book of the
\* item that was resolved last, whoever resolved it and from whatever
\* suggestion, unless two resolutions of the pair overlapped or a save failed.
\* A pair that names nothing is decided for its item alone.
CacheFollows ==
    \A k \in Keys \ (mixed \cup {Nameless}) :
        latest[k] # 0 /\ (\A a \in Actors : doing[a] = "decide" => PickKey(a) # k)
        => cache[k] = item[latest[k]].book

\* A collection is 'importing' only while its goroutine works on it, whatever
\* failed, unless a crash or a failed last write cut the import off.
ImportingIsLive == status = "importing" /\ ~cut => import.at # "idle"

\* The three together: the row of a collection tells the truth about what is
\* going on and what was imported, however its writers overwrite each other.
StatsHold == CuratedTypeOK /\ RunningIsLive /\ ImportingIsLive /\ CountsSurvive

==============================================================================
