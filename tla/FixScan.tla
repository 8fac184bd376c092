------------------------------- MODULE FixScan -------------------------------
(***************************************************************************)
(* The fix scan, RunFixScan (services/fix_scan_service.go): every FB2 book *)
(* of the catalogue is parsed again by a pool of workers that take whole   *)
(* archives from a channel.  Beside it an administrator changes the cover  *)
(* of a book, by UploadBookCover (api/admin_cover.go) or by the cover step *)
(* of an approved rescan, and deletes the books of an archive.             *)
(*                                                                         *)
(* Of a book's metadata only the cover is followed: the flag of its row    *)
(* and the picture on disk.  A transaction keeps the row from its UPDATE   *)
(* to its commit and reads nothing it wrote, so it is one step.            *)
(***************************************************************************)
EXTENDS Integers, Sequences, FiniteSets

CONSTANTS
    Setups,      \* the scans: [shelf, crew], the archives in the order of their
                 \* paths, each the set of its books, and the workers
    Pictured,    \* the books whose file has a cover
    Marked,      \* the books whose row says so when the scan begins
    NoVolume,    \* no book
    MaxErrors,   \* maxErrors, the errors a report keeps
    MaxDeeds     \* bound on the changes an administrator makes

BooksOn(s) == UNION {s[p] : p \in 1..Len(s)}
Titles == UNION {BooksOn(s.shelf) : s \in Setups}
Hands  == UNION {s.crew : s \in Setups}

ASSUME FixScanAssumption ==
    /\ \A s \in Setups :
        /\ s.shelf \in Seq(SUBSET Nat)     \* a book goes by its id ...
        /\ \A p, q \in 1..Len(s.shelf) :   \* ... and has one path
            p # q => s.shelf[p] \cap s.shelf[q] = {}
        /\ IsFiniteSet(s.crew) /\ s.crew # {}
    /\ Pictured \subseteq Titles /\ Marked \subseteq Titles /\ NoVolume \notin Titles
    /\ MaxErrors \in Nat /\ MaxDeeds \in Nat

VARIABLES
    flag,      \* flag[b]: the cover column of b's row, or "deleted"
    poster,    \* the books with a picture on disk
    shown,     \* shown[b]: the flag the scan's query read
    shelf,     \* the archives
    crew,      \* the workers of the scan
    feeder,    \* where RunFixScan is
    fed,       \* number of archives handed over
    jobs,      \* the channel of archives
    hand,      \* hand[w]: worker w, [at, todo, cover]
    canceled,  \* the context is cancelled
    progress, updated, errors,  \* ProgressCount, UpdatedCount, ErrorCount
    kept,      \* length of scanErrs
    deed,      \* the change an administrator makes, [at, on, to]
    deeds,     \* number of them begun
    \* What only the properties read:
    touched,   \* books whose cover an administrator was changing, or had
               \* failed to, at the query, or changed since
    counted    \* books a worker has counted, once more for each time

fixScanVars == <<flag, poster, shown, shelf, crew, feeder, fed, jobs, hand, canceled,
                 progress, updated, errors, kept, deed, deeds, touched, counted>>
tallyVars == <<progress, updated, errors, kept, counted>>
feedVars  == <<shown, shelf, crew, feeder, fed, canceled>>
deedVars  == <<deed, deeds, touched>>

Flags == {"yes", "no"}
Hand(at, todo, cover) == [at |-> at, todo |-> todo, cover |-> cover]
Deed(at, on, to)      == [at |-> at, on |-> on, to |-> to]
Free    == Hand("take", {}, "no")
NoDeed  == Deed("idle", NoVolume, "no")

\* Before the query: the rows and the pictures agree.
FixScanInit ==
    /\ flag = [b \in Titles |-> IF b \in Marked THEN "yes" ELSE "no"]
    /\ poster = Marked
    /\ shown = flag
    /\ \E s \in Setups : shelf = s.shelf /\ crew = s.crew
    /\ feeder = "query" /\ fed = 0 /\ jobs = <<>>
    /\ hand = [w \in Hands |-> Free]
    /\ canceled = FALSE
    /\ progress = 0 /\ updated = 0 /\ errors = 0 /\ kept = 0
    /\ deed = NoDeed /\ deeds = 0
    /\ touched = {} /\ counted = [b \in Titles |-> 0]

------------------------------------------------------------------------------
(* RunFixScan.                                                             *)

\* groupByArchive: an archive's books that the query returned.
Group(p) == {b \in shelf[p] : shown[b] # "deleted"}

\* The books come in the order of their ids.
FirstBook(todo) == CHOOSE b \in todo : \A o \in todo : b <= o
Rest(todo)  == todo \ {FirstBook(todo)}

\* The books are listed with their flags; the archives without one have no
\* group.
ListBooks ==
    /\ feeder = "query"
    /\ shown' = flag
    /\ feeder' = "feed"
    /\ touched' = {b \in Titles : b = deed.on \/ (flag[b] = "yes" /\ b \notin poster)}
    /\ UNCHANGED <<flag, poster, shelf, crew, fed, jobs, hand, canceled, tallyVars, deed, deeds>>

Closed == feeder \in {"wait", "late", "completed", "canceled"}

\* An archive goes into the channel, which holds two for every worker.
Feed ==
    /\ feeder = "feed" /\ fed < Len(shelf)
    /\ Group(fed + 1) # {} => Len(jobs) < 2 * Cardinality(crew)
    /\ fed' = fed + 1
    /\ jobs' = IF Group(fed + 1) = {} THEN jobs ELSE Append(jobs, fed + 1)
    /\ UNCHANGED <<flag, poster, shown, shelf, crew, feeder, hand, canceled, tallyVars, deedVars>>

\* The channel is closed, after the last archive or because of the context.
CloseJobs ==
    /\ feeder = "feed"
    /\ \/ fed = Len(shelf) /\ feeder' = "wait"
       \/ fed < Len(shelf) /\ Group(fed + 1) # {} /\ canceled /\ feeder' = "late"
    /\ UNCHANGED <<flag, poster, shown, shelf, crew, fed, jobs, hand, canceled, tallyVars, deedVars>>

\* All workers have left: the report is built, and published unless the
\* context ended the feed.
Return ==
    /\ \A w \in crew : hand[w].at = "left"
    /\ \/ feeder = "wait" /\ feeder' = "completed"
       \/ feeder = "late" /\ feeder' = "canceled"
    /\ UNCHANGED <<flag, poster, shown, shelf, crew, fed, jobs, hand, canceled, tallyVars, deedVars>>

\* CancelFixScan.
CancelContext ==
    /\ ~canceled /\ feeder \in {"query", "feed", "wait"}
    /\ canceled' = TRUE
    /\ UNCHANGED <<flag, poster, shown, shelf, crew, feeder, fed, jobs, hand, tallyVars, deedVars>>

------------------------------------------------------------------------------
(* A worker.                                                               *)

Moves(w, h) == hand' = [hand EXCEPT ![w] = h]

\* Workers are started when the books are listed; select chooses among what
\* is ready: an archive, the closed channel or the context.
TakeArchive(w) ==
    /\ feeder # "query" /\ hand[w].at = "take" /\ jobs # <<>>
    /\ jobs' = Tail(jobs)
    /\ \E opened \in {"next", "broken"} : Moves(w, Hand(opened, Group(Head(jobs)), "no"))
    /\ UNCHANGED <<flag, poster, feedVars, tallyVars, deedVars>>

LeavePool(w) ==
    /\ feeder # "query" /\ hand[w].at = "take"
    /\ canceled \/ (Closed /\ jobs = <<>>)
    /\ Moves(w, Hand("left", {}, "no"))
    /\ UNCHANGED <<flag, poster, jobs, feedVars, tallyVars, deedVars>>

\* addError: the count goes on when the list is full.
AddError ==
    /\ errors' = errors + 1
    /\ kept' = IF kept < MaxErrors THEN kept + 1 ELSE kept

CountBook(b) ==
    /\ progress' = progress + 1
    /\ counted' = [counted EXCEPT ![b] = @ + 1]

\* Mutant: an archive that does not open is one error.
BrokenOnce(w) ==
    LET todo == hand[w].todo IN
    /\ hand[w].at = "broken"
    /\ AddError /\ CountBook(FirstBook(todo))
    /\ Moves(w, Free)
    /\ UNCHANGED <<flag, poster, jobs, feedVars, updated, deedVars>>

\* The archive does not open: an error for every book, whatever the context.
BrokenBook(w) ==
    LET todo == hand[w].todo IN
    /\ hand[w].at = "broken"
    /\ AddError /\ CountBook(FirstBook(todo))
    /\ Moves(w, IF Rest(todo) = {} THEN Free ELSE Hand("broken", Rest(todo), "no"))
    /\ UNCHANGED <<flag, poster, jobs, feedVars, updated, deedVars>>

\* The archive is through, or the context is seen before a book.
CloseArchive(w) ==
    /\ hand[w].at = "next"
    /\ canceled \/ hand[w].todo = {}
    /\ Moves(w, Free)
    /\ UNCHANGED <<flag, poster, jobs, feedVars, tallyVars, deedVars>>

\* processBook finds, reads and parses the file.
ParseBook(w) ==
    /\ hand[w].at = "next" /\ ~canceled /\ hand[w].todo # {}
    /\ Moves(w, Hand("parsed", hand[w].todo, shown[FirstBook(hand[w].todo)]))
    /\ UNCHANGED <<flag, poster, jobs, feedVars, tallyVars, deedVars>>

Abandon(w) ==
    /\ AddError
    /\ Moves(w, Hand("count", hand[w].todo, "no"))
    /\ UNCHANGED <<flag, poster, jobs, feedVars, progress, updated, counted, deedVars>>

\* The file is not in the archive, or does not open, read or parse.
ParseFails(w) ==
    /\ hand[w].at = "next" /\ ~canceled /\ hand[w].todo # {}
    /\ Abandon(w)

\* Mutant: the flag says what the file has.
CoverOfFile(w) ==
    LET b == FirstBook(hand[w].todo) IN
    /\ hand[w].at = "parsed"
    /\ poster' = IF b \in Pictured THEN poster \cup {b} ELSE poster
    /\ Moves(w, Hand("store", hand[w].todo, IF b \in Pictured THEN "yes" ELSE "no"))
    /\ UNCHANGED <<flag, jobs, feedVars, tallyVars, deedVars>>

\* Mutant: a picture that could not be saved sets the flag as well.
CoverUnsaved(w) ==
    LET b == FirstBook(hand[w].todo) IN
    /\ hand[w].at = "parsed"
    /\ \E ok \in BOOLEAN : poster' = IF ok /\ b \in Pictured THEN poster \cup {b} ELSE poster
    /\ Moves(w, Hand("store", hand[w].todo, IF b \in Pictured THEN "yes" ELSE hand[w].cover))
    /\ UNCHANGED <<flag, jobs, feedVars, tallyVars, deedVars>>

\* The cover: a picture in the file is saved and sets the flag, unless saving
\* it fails; without one the flag stays what the query read.
SaveCover(w) ==
    LET b == FirstBook(hand[w].todo) IN
    /\ hand[w].at = "parsed"
    /\ \E saved \in IF b \in Pictured THEN BOOLEAN ELSE {FALSE} :
        /\ poster' = IF saved THEN poster \cup {b} ELSE poster
        /\ Moves(w, Hand("store", hand[w].todo, IF saved THEN "yes" ELSE hand[w].cover))
    /\ UNCHANGED <<flag, jobs, feedVars, tallyVars, deedVars>>

\* The transaction commits.  The UPDATE of a row that was deleted meanwhile
\* finds nothing and is no error; only a link to such a book is.
StoreBook(w) ==
    LET b == FirstBook(hand[w].todo) IN
    /\ hand[w].at = "store"
    /\ flag' = IF flag[b] = "deleted" THEN flag ELSE [flag EXCEPT ![b] = hand[w].cover]
    /\ updated' = updated + 1
    /\ Moves(w, Hand("count", hand[w].todo, "no"))
    /\ UNCHANGED <<poster, jobs, feedVars, progress, errors, kept, counted, deedVars>>

\* Begin, a statement or the commit fails, and all is rolled back.
StoreFails(w) ==
    /\ hand[w].at = "store"
    /\ Abandon(w)

BookDone(w) ==
    /\ hand[w].at = "count"
    /\ CountBook(FirstBook(hand[w].todo))
    /\ Moves(w, Hand("next", Rest(hand[w].todo), "no"))
    /\ UNCHANGED <<flag, poster, jobs, feedVars, updated, errors, kept, deedVars>>

------------------------------------------------------------------------------
(* The administrator.                                                      *)

\* An upload finds the book; so does an approval that brings or removes a
\* cover.
FindBook(b, to) ==
    /\ deed.at = "idle" /\ deeds < MaxDeeds
    /\ flag[b] # "deleted"
    /\ deed' = Deed("file", b, to)
    /\ deeds' = deeds + 1
    /\ touched' = touched \cup {b}
    /\ UNCHANGED <<flag, poster, jobs, hand, feedVars, tallyVars>>

\* The picture is written, or removed...
PutPoster ==
    /\ deed.at = "file"
    /\ poster' = IF deed.to = "yes" THEN poster \cup {deed.on} ELSE poster \ {deed.on}
    /\ deed' = [deed EXCEPT !.at = "row"]
    /\ UNCHANGED <<flag, jobs, hand, feedVars, tallyVars, deeds, touched>>

\* ... and then the flag; of a row that has gone, nothing.
PutFlag ==
    /\ deed.at = "row"
    /\ flag' = IF flag[deed.on] = "deleted" THEN flag ELSE [flag EXCEPT ![deed.on] = deed.to]
    /\ deed' = NoDeed
    /\ UNCHANGED <<poster, jobs, hand, feedVars, tallyVars, deeds, touched>>

\* An error between the two.
DeedFails ==
    /\ deed.at # "idle"
    /\ deed' = NoDeed
    /\ UNCHANGED <<flag, poster, jobs, hand, feedVars, tallyVars, deeds, touched>>

\* DeleteBooksByArchive: nothing keeps it and a fix scan apart.
RemoveArchive(p) ==
    /\ deeds < MaxDeeds
    /\ flag' = [b \in Titles |-> IF b \in shelf[p] THEN "deleted" ELSE flag[b]]
    /\ deeds' = deeds + 1
    /\ UNCHANGED <<poster, jobs, hand, feedVars, tallyVars, deed, touched>>

Worker(w) == \/ TakeArchive(w) \/ LeavePool(w) \/ BrokenBook(w) \/ CloseArchive(w)
             \/ ParseBook(w) \/ ParseFails(w) \/ SaveCover(w)
             \/ StoreBook(w) \/ StoreFails(w) \/ BookDone(w)

FixScanNext ==
    \/ ListBooks \/ Feed \/ CloseJobs \/ Return \/ CancelContext
    \/ \E w \in crew : Worker(w)
    \/ \E b \in BooksOn(shelf), to \in Flags : FindBook(b, to)
    \/ \E p \in 1..Len(shelf) : RemoveArchive(p)
    \/ PutPoster \/ PutFlag \/ DeedFails

FixScanSpec == FixScanInit /\ [][FixScanNext]_fixScanVars

------------------------------------------------------------------------------
(* Properties.                                                             *)

Queried == {b \in BooksOn(shelf) : shown[b] # "deleted"}
AtWork == {w \in crew : hand[w].at = "count"}

\* No book is counted twice, and what is counted as done is, up to the books
\* in the workers' hands, either updated or an error; a scan that was not
\* cancelled ends with every listed book counted.  The report keeps no more
\* errors than it may.
Accounted ==
    /\ \A b \in Titles : counted[b] <= 1
    /\ updated + errors = progress + Cardinality(AtWork)
    /\ feeder = "completed" /\ ~canceled => progress = Cardinality(Queried)
    /\ feeder \in {"completed", "canceled"} => \A w \in crew : hand[w].at = "left"
    /\ kept <= MaxErrors /\ (errors <= MaxErrors => kept = errors)

\* A row that says so has its picture, whatever failed to be saved or stored,
\* unless an administrator changed the book's cover since the scan read its
\* flag.
CoverIsThere ==
    \A b \in Titles \ touched : flag[b] = "yes" => b \in poster

FixScanHolds == Accounted /\ CoverIsThere

\* "Never downgrade": a scan does not take the flag of a book away, unless an
\* administrator changed the book since the query.
CoverKept == [][\A b \in Titles \ touched :
    flag[b] = "yes" => flag'[b] # "no"]_fixScanVars

==============================================================================
