------------------------------ MODULE Catalogue ------------------------------
(***************************************************************************)
(* The books of the catalogue and everything that adds, hides and removes  *)
(* them: ProcessBook (services/book_scan_service.go), HideDuplicates       *)
(* (services/duplicates.go), ResetArchiveScanStatus (api/book_scan.go) with *)
(* DeleteBooksByArchive (database/scan_status.go), and UpdateBook          *)
(* (database/books.go).                                                    *)
(*                                                                         *)
(* A book is a database row; its file is reduced to its content, which is  *)
(* what its MD5 stands for.  Statements and transactions of the database   *)
(* are atomic, everything between two of them interleaves.  At most one    *)
(* archive scan runs at a time (ScanSessions proves that); any number of   *)
(* HideDuplicates requests do.                                             *)
(***************************************************************************)
EXTENDS Integers, FiniteSets, Sequences

CONSTANTS
    Contents,  \* what a file can hold, as told apart by its MD5
    Tagged,    \* the contents that name a genre
    Archives,
    Files,     \* Files[a]: the contents of archive a, in the zip's order
    Legacy,    \* rows older than the md5 column: <<[what, home], ...>>
    Hiders,    \* concurrent HideDuplicates requests
    Skip,      \* cfg scanning.skip_duplicates
    MaxId,     \* bound on the rows ever inserted
    MaxEdits   \* bound on the books edited by hand

In(s) == {s[i] : i \in 1..Len(s)}

ASSUME CatalogueAssumption ==
    /\ Contents # {} /\ Archives # {} /\ Tagged \subseteq Contents
    /\ Files \in [Archives -> Seq(Contents)]
    /\ MaxId \in Nat /\ MaxEdits \in Nat /\ Skip \in BOOLEAN
    /\ Legacy \in Seq([what : Contents, home : Archives]) /\ Len(Legacy) <= MaxId
    /\ \A i \in 1..Len(Legacy) : Legacy[i].what \in In(Files[Legacy[i].home])

Ids  == 1..MaxId
NULL == 0

VARIABLES
    here,     \* the committed rows of opds_catalog_book
    last,     \* opds_catalog_book_id_seq
    what,     \* what[b]: content of the file of row b
    home,     \* home[b]: its path, the archive it is in
    hashed,   \* rows whose md5 is filled in
    hidden,   \* rows with duplicate_hidden
    of,       \* of[b]: duplicate_of_id
    linked,   \* rows that opds_catalog_bgenre refers to
    scanned,  \* archives whose catalog row says is_scanned
    scan,     \* the scan goroutine: its archive, the file it is at
    hide,     \* hide[h]: a HideDuplicates request
    reset,    \* the ResetArchiveScanStatus request
    \* What only the properties read:
    edited,   \* rows whose duplicate fields an administrator wrote
    lost,     \* contents a visible copy of which was removed, or one edited
    doubt,    \* contents a scan failed on, or that were removed under a scan
              \* or by a reset that never marked its archive
    calm      \* requests since whose start no one else touched the rows

rowVars  == <<here, last, what, home, hashed, hidden, of, linked>>
noteVars == <<edited, lost, doubt, calm>>
vars     == <<rowVars, scanned, scan, hide, reset, noteVars>>

Scan(at, a, n)            == [at |-> at, a |-> a, n |-> n]
Hide(at, hashes, ids, w)  == [at |-> at, hashes |-> hashes, ids |-> ids, winner |-> w]
Reset(at, a)              == [at |-> at, a |-> a]

AnyArchive == CHOOSE a \in Archives : TRUE
NoScan     == Scan("idle", AnyArchive, 1)
NoHide     == Hide("idle", {}, {}, NULL)
NoReset    == Reset("idle", AnyArchive)

TypeOK ==
    /\ here \subseteq 1..last /\ last \in 0..MaxId
    /\ what \in [Ids -> Contents] /\ home \in [Ids -> Archives]
    /\ hashed \subseteq here /\ hidden \subseteq here /\ linked \subseteq here
    /\ of \in [Ids -> 0..MaxId]
    /\ scanned \subseteq Archives
    /\ scan \in [at : {"idle", "file", "insert"}, a : Archives, n : Nat \ {0}]
    /\ hide \in [Hiders -> [at : {"idle", "group", "hide"}, hashes : SUBSET Contents,
                            ids : SUBSET Ids, winner : 0..MaxId]]
    /\ reset \in [at : {"idle", "mark", "failed"}, a : Archives]
    /\ edited \subseteq Ids /\ lost \subseteq Contents /\ doubt \subseteq Contents
    /\ calm \subseteq Hiders

\* The rows a "WHERE md5 = ?" finds.
Copies(c) == {b \in here \cap hashed : what[b] = c}

Init ==
    /\ here = 1..Len(Legacy)
    /\ last = Len(Legacy)
    /\ what = [b \in Ids |-> IF b <= Len(Legacy) THEN Legacy[b].what
                             ELSE CHOOSE c \in Contents : TRUE]
    /\ home = [b \in Ids |-> IF b <= Len(Legacy) THEN Legacy[b].home
                             ELSE CHOOSE a \in Archives : TRUE]
    /\ hashed = {} /\ hidden = {} /\ linked = {}
    /\ of = [b \in Ids |-> NULL]
    /\ scanned = {} /\ scan = NoScan /\ reset = NoReset
    /\ hide = [h \in Hiders |-> NoHide]
    /\ edited = {} /\ lost = {} /\ doubt = {} /\ calm = {}

------------------------------------------------------------------------------
(* The archive scan.                                                       *)

\* Mutant: the archive is marked when the scan begins.
OpenMarks(a) ==
    /\ scan.at = "idle"
    /\ scan' = Scan("file", a, 1)
    /\ scanned' = scanned \cup {a}
    /\ UNCHANGED <<rowVars, hide, reset, noteVars>>

\* ScanArchive, of an unscanned archive in a full scan or of any on demand.
OpenArchive(a) ==
    /\ scan.at = "idle"
    /\ scan' = Scan("file", a, 1)
    /\ UNCHANGED <<rowVars, scanned, hide, reset, noteVars>>

Content   == Files[scan.a][scan.n]
HasFile   == scan.at = "file" /\ scan.n <= Len(Files[scan.a])
NextFile  == scan' = Scan("file", scan.a, scan.n + 1)
ToInsert  == scan' = Scan("insert", scan.a, scan.n)

\* ProcessBook up to checkDuplicate.
CheckDuplicate ==
    /\ HasFile
    /\ IF Skip /\ Copies(Content) # {} THEN NextFile ELSE ToInsert
    /\ UNCHANGED <<rowVars, scanned, hide, reset, noteVars>>

\* A failed check is logged and the book inserted all the same.
CheckFails ==
    /\ HasFile /\ Skip
    /\ ToInsert
    /\ UNCHANGED <<rowVars, scanned, hide, reset, noteVars>>

\* ProcessBook's transaction, the only one that inserts books.
InsertBook ==
    /\ scan.at = "insert" /\ last < MaxId
    /\ LET b == last + 1 IN
       /\ last' = b
       /\ here' = here \cup {b}
       /\ what' = [what EXCEPT ![b] = Content]
       /\ home' = [home EXCEPT ![b] = scan.a]
       /\ hashed' = hashed \cup {b}
       /\ linked' = IF Content \in Tagged THEN linked \cup {b} ELSE linked
    /\ NextFile
    /\ calm' = {}
    /\ UNCHANGED <<hidden, of, scanned, hide, reset, edited, lost, doubt>>

\* The file cannot be read or parsed, or a statement of the transaction fails.
FileFails ==
    /\ HasFile \/ scan.at = "insert"
    /\ doubt' = doubt \cup {Content}
    /\ NextFile
    /\ UNCHANGED <<rowVars, scanned, hide, reset, edited, lost, calm>>

\* MarkArchiveAsScanned, whose failure is only logged.
CloseArchive ==
    /\ scan.at = "file" /\ scan.n > Len(Files[scan.a])
    /\ scanned' \in {scanned, scanned \cup {scan.a}}
    /\ scan' = NoScan
    /\ UNCHANGED <<rowVars, hide, reset, noteVars>>

------------------------------------------------------------------------------
(* Other writers of the rows.                                              *)

\* A worker of a duplicate scan (module DuplicateScan) stores an MD5.
StoreHash(b) ==
    /\ b \in here \ hashed
    /\ hashed' = hashed \cup {b}
    /\ calm' = {}
    /\ UNCHANGED <<here, last, what, home, hidden, of, linked, scanned, scan, hide,
                   reset, edited, lost, doubt>>

\* A fix scan writes a book's genres anew.
FixTags(b) ==
    /\ b \in here
    /\ linked' = IF what[b] \in Tagged THEN linked \cup {b} ELSE linked \ {b}
    /\ UNCHANGED <<here, last, what, home, hashed, hidden, of, scanned, scan, hide,
                   reset, noteVars>>

\* UpdateBook with duplicate_hidden or duplicate_of_id, which must exist.
UpdateBook(b) ==
    /\ b \in here /\ Cardinality(edited \cup {b}) <= MaxEdits
    /\ \E flag \in BOOLEAN, k \in here \cup {of[b]} :
          /\ hidden' = IF flag THEN hidden \cup {b} ELSE hidden \ {b}
          /\ of' = [of EXCEPT ![b] = k]
    /\ edited' = edited \cup {b}
    /\ lost' = lost \cup {what[b]}
    /\ calm' = {}
    /\ UNCHANGED <<here, last, what, home, hashed, linked, scanned, scan, hide, reset,
                   doubt>>

------------------------------------------------------------------------------
(* HideDuplicates: no transaction around it, one statement at a time.      *)

StartHide(h) ==
    /\ hide[h].at = "idle"
    /\ hide' = [hide EXCEPT ![h] =
                   Hide("group", {c \in Contents : Cardinality(Copies(c)) > 1}, {}, NULL)]
    /\ calm' = calm \cup {h}
    /\ UNCHANGED <<rowVars, scanned, scan, reset, edited, lost, doubt>>

Group(h, c, ids, winner) ==
    hide' = [hide EXCEPT ![h] = Hide(IF ids = {} THEN "group" ELSE "hide",
                                     hide[h].hashes \ {c}, ids, winner)]

\* Mutant: "ORDER BY id": the oldest copy wins.
PickOldest(h, c) ==
    /\ hide[h].at = "group" /\ c \in hide[h].hashes
    /\ \/ Cardinality(Copies(c)) <= 1 /\ Group(h, c, {}, NULL)
       \/ /\ Cardinality(Copies(c)) > 1
          /\ \E w \in Copies(c) : (\A b \in Copies(c) : w <= b) /\ Group(h, c, Copies(c) \ {w}, w)
    /\ UNCHANGED <<rowVars, scanned, scan, reset, noteVars>>

\* The next hash's books, newest first; the first one wins.
PickGroup(h, c) ==
    /\ hide[h].at = "group" /\ c \in hide[h].hashes
    /\ \/ Cardinality(Copies(c)) <= 1 /\ Group(h, c, {}, NULL)
       \/ /\ Cardinality(Copies(c)) > 1
          /\ \E w \in Copies(c) : (\A b \in Copies(c) : b <= w) /\ Group(h, c, Copies(c) \ {w}, w)
    /\ UNCHANGED <<rowVars, scanned, scan, reset, noteVars>>

\* The SELECT of a group fails: the group is skipped.
PickFails(h, c) ==
    /\ hide[h].at = "group" /\ c \in hide[h].hashes
    /\ Group(h, c, {}, NULL)
    /\ calm' = calm \ {h}
    /\ UNCHANGED <<rowVars, scanned, scan, reset, edited, lost, doubt>>

Handled(h, b) ==
    hide' = [hide EXCEPT ![h] = Hide("hide", @.hashes, @.ids \ {b}, @.winner)]

HideAllButLast(h, b) ==
    /\ hide[h].at = "hide" /\ b \in hide[h].ids /\ \A x \in hide[h].ids : x <= b
    /\ Handled(h, b)
    /\ IF b \in here /\ hide[h].winner \in here /\ hide[h].ids # {b}
       THEN /\ hidden' = hidden \cup {b}
            /\ of' = [of EXCEPT ![b] = hide[h].winner]
       ELSE UNCHANGED <<hidden, of>>
    /\ UNCHANGED <<here, last, what, home, hashed, linked, scanned, scan, reset, noteVars>>

\* Hide the next copy.  A row deleted meanwhile is not updated; without the
\* winner's row the foreign key refuses the UPDATE, and the loop goes on.
HideCopy(h, b) ==
    /\ hide[h].at = "hide" /\ b \in hide[h].ids /\ \A x \in hide[h].ids : x <= b
    /\ Handled(h, b)
    /\ IF b \in here /\ hide[h].winner \in here
       THEN /\ hidden' = hidden \cup {b}
            /\ of' = [of EXCEPT ![b] = hide[h].winner]
       ELSE UNCHANGED <<hidden, of>>
    /\ UNCHANGED <<here, last, what, home, hashed, linked, scanned, scan, reset, noteVars>>

HideFails(h, b) ==
    /\ hide[h].at = "hide" /\ b \in hide[h].ids /\ \A x \in hide[h].ids : x <= b
    /\ Handled(h, b)
    /\ calm' = calm \ {h}
    /\ UNCHANGED <<rowVars, scanned, scan, reset, edited, lost, doubt>>

GroupDone(h) ==
    /\ hide[h].at = "hide" /\ hide[h].ids = {}
    /\ hide' = [hide EXCEPT ![h] = Hide("group", @.hashes, {}, NULL)]
    /\ UNCHANGED <<rowVars, scanned, scan, reset, noteVars>>

HideReturns(h) ==
    /\ hide[h].at = "group" /\ hide[h].hashes = {}
    /\ hide' = [hide EXCEPT ![h] = NoHide]
    /\ calm' = calm \ {h}
    /\ UNCHANGED <<rowVars, scanned, scan, reset, edited, lost, doubt>>

------------------------------------------------------------------------------
(* ResetArchiveScanStatus: two transactions, and no look at a running scan. *)

\* What DELETE ... WHERE path = a does to the rows.
Remove(gone) ==
    /\ here' = here \ gone
    /\ hashed' = hashed \ gone
    /\ hidden' = hidden \ gone
    /\ of' = [b \in Ids |-> IF b \in gone \/ of[b] \in gone THEN NULL ELSE of[b]]
    /\ lost' = lost \cup {what[b] : b \in (gone \cap hashed) \ hidden}
    /\ doubt' = IF scan.at = "idle" THEN doubt ELSE doubt \cup {what[b] : b \in gone}
    /\ UNCHANGED <<last, what, home, linked>>

\* DeleteBooksByArchive.  Its transaction removes every row that refers to the
\* books but those of opds_catalog_bgenre, whose foreign key is checked at the
\* COMMIT: one genre link and nothing is deleted.
DeleteBooks(a) ==
    /\ reset.at = "idle"
    /\ LET gone == {b \in here : home[b] = a} IN
       \/ /\ gone \cap linked = {}
          /\ Remove(gone)
          /\ reset' = Reset("mark", a)
       \/ /\ gone \cap linked # {}
          /\ reset' = Reset("failed", AnyArchive)
          /\ UNCHANGED <<rowVars, lost, doubt>>
    /\ calm' = {}
    /\ UNCHANGED <<scanned, scan, hide, edited>>

\* Without delete_books.
ResetOnly(a) ==
    /\ reset.at = "idle"
    /\ reset' = Reset("mark", a)
    /\ UNCHANGED <<rowVars, scanned, scan, hide, noteVars>>

\* MarkArchiveAsUnscanned.
MarkUnscanned ==
    /\ reset.at = "mark"
    /\ scanned' = scanned \ {reset.a}
    /\ reset' = NoReset
    /\ UNCHANGED <<rowVars, scan, hide, noteVars>>

\* It fails after the books are gone.
MarkFails ==
    /\ reset.at = "mark"
    /\ reset' = NoReset
    /\ doubt' = doubt \cup In(Files[reset.a])
    /\ UNCHANGED <<rowVars, scanned, scan, hide, edited, lost, calm>>

\* The failed deletion is answered with an error.
ResetAnswered ==
    /\ reset.at = "failed"
    /\ reset' = NoReset
    /\ UNCHANGED <<rowVars, scanned, scan, hide, noteVars>>

------------------------------------------------------------------------------

\* The process restarts.
Restart ==
    /\ scan' = NoScan
    /\ hide' = [h \in Hiders |-> NoHide]
    /\ reset' = NoReset
    /\ doubt' = IF reset.at = "mark" THEN doubt \cup In(Files[reset.a]) ELSE doubt
    /\ calm' = {}
    /\ UNCHANGED <<rowVars, scanned, edited, lost>>

\* The scan goroutine's only waits are for the database and for the file.
ScanStep == CheckDuplicate \/ CheckFails \/ InsertBook \/ FileFails \/ CloseArchive

HideStep(h) ==
    \/ \E c \in Contents : PickGroup(h, c) \/ PickFails(h, c)
    \/ \E b \in Ids : HideCopy(h, b) \/ HideFails(h, b)
    \/ GroupDone(h)
    \/ HideReturns(h)

Next ==
    \/ \E a \in Archives : OpenArchive(a) \/ DeleteBooks(a) \/ ResetOnly(a)
    \/ ScanStep
    \/ \E b \in Ids : StoreHash(b) \/ FixTags(b) \/ UpdateBook(b)
    \/ \E h \in Hiders : StartHide(h) \/ HideStep(h)
    \/ MarkUnscanned \/ MarkFails \/ ResetAnswered
    \/ Restart

Spec == Init /\ [][Next]_vars

------------------------------------------------------------------------------
(* Properties.                                                             *)

\* A hidden copy never leaves its readers without the book: while no visible
\* copy is removed and none edited by hand, every copy HideDuplicates has
\* hidden (services/duplicates.go:363, "based on the Newest ID rule") has a
\* newer one that is visible, whatever requests, scans and resets interleave.
HiddenHasNewer ==
    \A c \in Contents \ lost : \A b \in Copies(c) \cap hidden :
        \E v \in Copies(c) \ hidden : v > b

\* duplicate_of_id is what migration 11 says it is, a "reference to the keeper
\* book if this is a hidden duplicate": unless set by hand it names an existing
\* newer row of the same content, also when the keeper chosen by a request is
\* deleted before the request gets to the copy.
KeeperIsNewer ==
    \A b \in here \ edited : of[b] # NULL =>
        of[b] \in Copies(what[b]) /\ of[b] > b

\* A request that met no failure and no other writer leaves one visible copy of
\* each book.
HideIsComplete ==
    \A h \in calm : hide[h].at = "group" /\ hide[h].hashes = {} =>
        \A c \in Contents \ lost : Copies(c) # {} =>
            Cardinality(Copies(c) \ hidden) = 1

\* What a scan skips as a duplicate is not lost for good: each file of a scanned
\* archive is in the catalogue, or in an archive that is still to be scanned,
\* unless a file failed or a deletion ran into a scan or was never marked.
Covered(c) ==
    \/ Copies(c) # {}
    \/ \E a \in Archives : /\ c \in In(Files[a])
                           /\ a \notin scanned \/ (reset.at = "mark" /\ reset.a = a)

ScannedIsCovered ==
    \A a \in scanned : In(Files[a]) \ doubt \subseteq {c \in Contents : Covered(c)}
=============================================================================
