------------------------------- MODULE Rescan -------------------------------
(***************************************************************************)
(* Rescanning a book and approving what was found: RescanBookPreview,      *)
(* ApproveRescan and RejectRescan (services/rescan_service.go) over        *)
(* database/rescan.go, beside UpdateBook (database/books.go), which edits  *)
(* the same rows.                                                          *)
(*                                                                         *)
(* A preview parses the book's file and leaves a row for an administrator; *)
(* an approval names the book, not the row.  Single statements are atomic; *)
(* a transaction's writes appear when it commits (READ COMMITTED), and     *)
(* what it updated or deleted stays locked until then.  The text of a book *)
(* stands for title, annotation, language and date, which are written by   *)
(* one statement; its authors for its series too, whose code is the same   *)
(* but for a book's number in the series, which is left out.  A cover      *)
(* file is written in two steps: it is created or truncated, then filled.  *)
(***************************************************************************)
EXTENDS Integers, FiniteSets

CONSTANTS
    Books,     \* the books of the catalogue
    Requests,  \* the requests in flight at one time
    Parses,    \* what parsing a file may yield: [text, cover, authors, tags]
    Choices,   \* the flags an administrator sends, one for every field
    Edits,     \* the edits by hand: a selection and its values
    Blank,     \* an empty name
    NoImage,   \* no cover
    Partial,   \* a cover file that is empty, cut short or mixed from two
    NoOne,     \* no request
    Unread,    \* no values
    MaxRows,   \* bound on the pending rows ever inserted
    MaxEdits   \* bound on the edits by hand

Scalars == {"text", "cover"}     \* columns of the book row
Groups  == {"authors", "tags"}   \* rows of the junction tables
Fields  == Scalars \cup Groups

Texts  == {p.text : p \in Parses} \cup {e.new.text : e \in Edits}
Images == {p.cover : p \in Parses} \ {NoImage}
Names  == UNION {p.authors \cup p.tags : p \in Parses}
Parse  == [text : Texts, cover : Images \cup {NoImage},
           authors : SUBSET Names, tags : SUBSET Names]

ASSUME RescanAssumption ==
    /\ Books # {}
    /\ Parses # {} /\ Parses \subseteq Parse
    /\ Choices \subseteq [Fields -> {"yes", "no", "unset"}]
    /\ Edits \subseteq [sel : SUBSET {"text", "authors"}, new : Parse]
    /\ Partial \notin Images \cup {NoImage}
    /\ NoOne \notin Requests /\ Unread \notin Parse
    /\ MaxRows \in Nat /\ MaxEdits \in Nat

VARIABLES
    book,     \* book[b]: its committed columns, [text, cover]
    links,    \* links[b][g]: its committed junction rows
    names,    \* names[g]: the committed rows of the authors, or genres, table
    file,     \* file[b]: the cover file
    pending,  \* pending[b]: the rows of book_rescan_pending
    rows,     \* number of pending rows ever inserted
    edits,    \* number of edits by hand begun
    at,       \* at[r]: where request r is
    on,       \* on[r]: its book
    sel,      \* sel[r]: the fields it updates
    first,    \* first[r]: the pending row ApproveRescan read
    new,      \* new[r]: the values it writes
    draft,    \* draft[r]: the book row its transaction has written
    seen,     \* seen[r]: the junction rows its DELETE found
    gone,     \* gone[r]: the junction rows its transaction has deleted
    missing,  \* missing[r]: the names its SELECTs did not find
    made,     \* made[r][g]: the names its transaction has inserted
    lock,     \* lock[b]: the transaction that holds the book row
    \* What only the properties read:
    sole,     \* sole[r]: what was the only pending row since approval r began
    loose,    \* books whose junction rows a transaction without the lock took
    raced,    \* books two requests worked on at once
    torn      \* books an approval failed on after it had touched the cover,
              \* until one with the cover commits

tableVars == <<book, links, names, pending>>
txVars    == <<new, draft, seen, gone, missing, made>>
noteVars  == <<sole, loose, raced, torn>>
rescanVars == <<tableVars, file, rows, edits, at, on, sel, first, txVars, lock, noteVars>>

Places   == {"idle", "delete", "insert", "cover", "writing", "again", "row",
             "authors", "authors wait", "authors insert",
             "tags", "tags wait", "tags insert", "commit"}
NameRow  == [by : Requests, name : Names]
Link     == [by : Requests, row : NameRow]

TypeOK ==
    /\ book \in [Books -> [text : Texts, cover : BOOLEAN]]
    /\ links \in [Books -> [Groups -> SUBSET Link]]
    /\ names \in [Groups -> SUBSET NameRow]
    /\ file \in [Books -> Images \cup {NoImage, Partial}]
    /\ pending \in [Books -> SUBSET [id : 1..MaxRows, new : Parse]]
    /\ rows \in 0..MaxRows /\ edits \in 0..MaxEdits
    /\ at \in [Requests -> Places]
    /\ on \in [Requests -> Books]
    /\ sel \in [Requests -> SUBSET Fields]
    /\ first \in [Requests -> Parse \cup {Unread}]
    /\ new \in [Requests -> Parse \cup {Unread}]
    /\ draft \in [Requests -> [text : Texts, cover : BOOLEAN]]
    /\ seen \in [Requests -> SUBSET Link]
    /\ gone \in [Requests -> SUBSET Link]
    /\ missing \in [Requests -> SUBSET Names]
    /\ made \in [Requests -> [Groups -> SUBSET Names]]
    /\ lock \in [Books -> Requests \cup {NoOne}]
    /\ sole \in [Requests -> SUBSET Parse]
    /\ loose \subseteq Books /\ raced \subseteq Books /\ torn \subseteq Books

AnyBook == CHOOSE b \in Books : TRUE
AnyRow  == [text |-> CHOOSE t \in Texts : TRUE, cover |-> FALSE]
NoNames == [g \in Groups |-> {}]

RescanInit ==
    /\ book = [b \in Books |-> AnyRow]
    /\ links = [b \in Books |-> NoNames]
    /\ names = NoNames
    /\ file = [b \in Books |-> NoImage]
    /\ pending = [b \in Books |-> {}]
    /\ rows = 0 /\ edits = 0
    /\ at = [r \in Requests |-> "idle"]
    /\ on = [r \in Requests |-> AnyBook]
    /\ sel = [r \in Requests |-> {}]
    /\ first = [r \in Requests |-> Unread]
    /\ new = [r \in Requests |-> Unread]
    /\ draft = [r \in Requests |-> AnyRow]
    /\ seen = [r \in Requests |-> {}]
    /\ gone = [r \in Requests |-> {}]
    /\ missing = [r \in Requests |-> {}]
    /\ made = [r \in Requests |-> NoNames]
    /\ lock = [b \in Books |-> NoOne]
    /\ sole = [r \in Requests |-> {}]
    /\ loose = {} /\ raced = {} /\ torn = {}

Go(r, place) == at' = [at EXCEPT ![r] = place]
Busy(b)      == {r \in Requests : at[r] # "idle" /\ on[r] = b}

\* A Select into a struct wants exactly one row: no row and several are errors.
Sole(b) == {p.new : p \in pending[b]}
HasSole(b) == Cardinality(pending[b]) = 1
TheSole(b) == CHOOSE v \in Sole(b) : TRUE

\* Request r begins on book b.
Begin(r, b) ==
    /\ at[r] = "idle"
    /\ on' = [on EXCEPT ![r] = b]
    /\ raced' = IF Busy(b) = {} THEN raced ELSE raced \cup {b}

\* Request r ends: its transaction is over and its locks are free.
End(r) ==
    /\ Go(r, "idle")
    /\ on' = [on EXCEPT ![r] = AnyBook]
    /\ draft' = [draft EXCEPT ![r] = AnyRow]
    /\ seen' = [seen EXCEPT ![r] = {}] /\ gone' = [gone EXCEPT ![r] = {}]
    /\ missing' = [missing EXCEPT ![r] = {}]
    /\ made' = [made EXCEPT ![r] = NoNames]
    /\ new' = [new EXCEPT ![r] = Unread]
    /\ first' = [first EXCEPT ![r] = Unread]
    /\ sel' = [sel EXCEPT ![r] = {}]
    /\ lock' = [b \in Books |-> IF lock[b] = r THEN NoOne ELSE lock[b]]

\* The pending rows of b become ps; what is the only one now, its requests note.
SetPending(b, ps) ==
    /\ pending' = [pending EXCEPT ![b] = ps]
    /\ sole' = [r \in Requests |->
                  IF r \in Busy(b) /\ first[r] # Unread /\ Cardinality(ps) = 1
                  THEN sole[r] \cup {p.new : p \in ps} ELSE sole[r]]

------------------------------------------------------------------------------
(* Preview and reject.                                                     *)

\* RescanBookPreview up to the save: the file is parsed.
Preview(r, b) ==
    /\ rows < MaxRows
    /\ Begin(r, b)
    /\ \E v \in Parses : new' = [new EXCEPT ![r] = v]
    /\ Go(r, "delete")
    /\ UNCHANGED <<tableVars, file, rows, edits, sel, first, draft, seen, gone,
                   missing, made, lock, sole, loose, torn>>

\* SaveRescanPending's first statement.
DeletePending(r) ==
    /\ at[r] = "delete"
    /\ SetPending(on[r], {})
    /\ Go(r, "insert")
    /\ UNCHANGED <<book, links, names, file, rows, edits, on, sel, first, txVars,
                   lock, loose, raced, torn>>

\* Its second one; nothing makes book_id unique.
InsertPending(r) ==
    /\ at[r] = "insert"
    /\ rows < MaxRows
    /\ rows' = rows + 1
    /\ SetPending(on[r], pending[on[r]] \cup {[id |-> rows', new |-> new[r]]})
    /\ End(r)
    /\ UNCHANGED <<book, links, names, file, edits, loose, raced, torn>>

\* RejectRescan: one DELETE.
Reject(r, b) ==
    /\ at[r] = "idle"
    /\ pending[b] # {}
    /\ SetPending(b, {})
    /\ raced' = IF Busy(b) = {} THEN raced ELSE raced \cup {b}
    /\ UNCHANGED <<book, links, names, file, rows, edits, at, on, sel, first, txVars,
                   lock, loose, torn>>

------------------------------------------------------------------------------
(* Approval.                                                               *)

\* ShouldUpdate: a field that is not named is updated.
Updates(flags) == {f \in Fields : flags[f] # "no"}

\* ApproveRescan finds the pending row and the book.
Approve(r, b, fields) ==
    /\ HasSole(b)
    /\ Begin(r, b)
    /\ sel' = [sel EXCEPT ![r] = fields]
    /\ first' = [first EXCEPT ![r] = TheSole(b)]
    /\ sole' = [sole EXCEPT ![r] = Sole(b)]
    /\ Go(r, "cover")
    /\ UNCHANGED <<tableVars, file, rows, edits, txVars, lock, loose, torn>>

CoverTo(r, image, place) ==
    /\ file' = [file EXCEPT ![on[r]] = image]
    /\ Go(r, place)
    /\ UNCHANGED <<tableVars, rows, edits, on, sel, first, txVars, lock, noteVars>>

\* Mutant: the file is written whether the cover was selected or not.
CoverAlways(r) ==
    /\ at[r] = "cover"
    /\ IF first[r].cover = NoImage THEN CoverTo(r, NoImage, "again")
       ELSE CoverTo(r, Partial, "writing")

\* The cover of the row just read: without one the file is removed; to write
\* one, os.WriteFile creates the file or empties it first.
HandleCover(r) ==
    /\ at[r] = "cover"
    /\ IF "cover" \notin sel[r] THEN CoverTo(r, file[on[r]], "again")
       ELSE IF first[r].cover = NoImage THEN CoverTo(r, NoImage, "again")
       ELSE CoverTo(r, Partial, "writing")

\* Nobody has opened, filled or removed the file since r opened it.
OnlyWriter(r) ==
    /\ file[on[r]] = Partial
    /\ \A o \in Busy(on[r]) : at[o] = "writing" => o = r

\* Its bytes are written; otherwise what is there may be of two approvals, or
\* what the other one left.
WriteCover(r) ==
    /\ at[r] = "writing"
    /\ \E image \in {first[r].cover} \cup IF OnlyWriter(r) THEN {} ELSE {Partial, file[on[r]]} :
           CoverTo(r, image, "again")

\* Mutant: several pending rows are no error, any of them is taken.
ReadAny(r) ==
    /\ at[r] = "again"
    /\ pending[on[r]] # {}
    /\ new' = [new EXCEPT ![r] = TheSole(on[r])]
    /\ Go(r, "row")
    /\ UNCHANGED <<tableVars, file, rows, edits, on, sel, first, draft, seen, gone,
                   missing, made, lock, noteVars>>

\* ApplySelectiveRescanChanges reads the pending row again, and the book.
ReadAgain(r) ==
    /\ at[r] = "again"
    /\ HasSole(on[r])
    /\ new' = [new EXCEPT ![r] = TheSole(on[r])]
    /\ Go(r, "row")
    /\ UNCHANGED <<tableVars, file, rows, edits, on, sel, first, draft, seen, gone,
                   missing, made, lock, noteVars>>

\* UpdateBook reads the book and opens its transaction.
Edit(r, b) ==
    /\ edits < MaxEdits
    /\ Begin(r, b)
    /\ \E e \in Edits : /\ sel' = [sel EXCEPT ![r] = e.sel]
                        /\ new' = [new EXCEPT ![r] = e.new]
    /\ edits' = edits + 1
    /\ first' = [first EXCEPT ![r] = Unread]
    /\ Go(r, "row")
    /\ UNCHANGED <<tableVars, file, rows, draft, seen, gone, missing, made, lock, sole, loose,
                   torn>>

Editing(r) == first[r] = Unread

\* The names r replaces group g by: edits and tags skip an empty one.
Wanted(r, g) == IF Editing(r) \/ g = "tags" THEN new[r][g] \ {Blank} ELSE new[r][g]

KnownRows(g, n) == {x \in names[g] : x.name = n}

------------------------------------------------------------------------------
(* The transaction of an approval or an edit.                              *)

Written(row, v, fields) ==
    [text  |-> IF "text" \in fields THEN v.text ELSE row.text,
     cover |-> IF "cover" \in fields THEN v.cover # NoImage ELSE row.cover]

\* The UPDATE of the book row names the selected columns; it waits for the row
\* and keeps it.  With no column selected there is no UPDATE.
UpdateRow(r) ==
    LET b == on[r] IN
    /\ at[r] = "row"
    /\ IF sel[r] \cap Scalars = {}
       THEN UNCHANGED <<lock, draft>>
       ELSE /\ lock[b] = NoOne
            /\ lock' = [lock EXCEPT ![b] = r]
            /\ draft' = [draft EXCEPT ![r] = Written(book[b], new[r], sel[r])]
    /\ Go(r, "authors")
    /\ UNCHANGED <<tableVars, file, rows, edits, on, sel, first, new, seen, gone,
                   missing, made, noteVars>>

Step(g, what) == CASE g = "authors" /\ what = ""       -> "authors"
                   [] g = "authors" /\ what = "wait"   -> "authors wait"
                   [] g = "authors" /\ what = "insert" -> "authors insert"
                   [] g = "tags" /\ what = ""          -> "tags"
                   [] g = "tags" /\ what = "wait"      -> "tags wait"
                   [] g = "tags" /\ what = "insert"    -> "tags insert"
After(g) == IF g = "authors" THEN "tags" ELSE "commit"

Skip(r, g) ==
    /\ at[r] = Step(g, "")
    /\ g \notin sel[r]
    /\ Go(r, After(g))
    /\ UNCHANGED <<tableVars, file, rows, edits, on, sel, first, txVars, lock, noteVars>>

\* The DELETE of the junction rows sees those committed when it starts...
FindLinks(r, g) ==
    /\ at[r] = Step(g, "")
    /\ g \in sel[r]
    /\ seen' = [seen EXCEPT ![r] = links[on[r]][g]]
    /\ loose' = IF lock[on[r]] = r THEN loose ELSE loose \cup {on[r]}
    /\ Go(r, Step(g, "wait"))
    /\ UNCHANGED <<tableVars, file, rows, edits, on, sel, first, new, draft, gone,
                   missing, made, lock, sole, raced, torn>>

\* ... and waits for those another transaction has deleted.  Then the names
\* are looked up; a name with two rows is an error.
DeleteLinks(r, g) ==
    /\ at[r] = Step(g, "wait")
    /\ \A o \in Requests \ {r} : seen[r] \cap gone[o] = {}
    /\ \A n \in Wanted(r, g) : Cardinality(KnownRows(g, n)) <= 1
    /\ gone' = [gone EXCEPT ![r] = @ \cup (seen[r] \cap links[on[r]][g])]
    /\ seen' = [seen EXCEPT ![r] = {}]
    /\ missing' = [missing EXCEPT ![r] = {n \in Wanted(r, g) : KnownRows(g, n) = {}}]
    /\ Go(r, Step(g, "insert"))
    /\ UNCHANGED <<tableVars, file, rows, edits, on, sel, first, new, draft, made,
                   lock, noteVars>>

\* The missing names are inserted, and a link for every name.  Only genres have
\* a unique name: there a name another transaction inserted is waited for, and
\* once committed it is an error.
InsertLinks(r, g) ==
    /\ at[r] = Step(g, "insert")
    /\ g = "tags" => /\ \A o \in Requests \ {r} : missing[r] \cap made[o][g] = {}
                     /\ \A x \in names[g] : x.name \notin missing[r]
    /\ made' = [made EXCEPT ![r][g] = missing[r]]
    /\ missing' = [missing EXCEPT ![r] = {}]
    /\ Go(r, After(g))
    /\ UNCHANGED <<tableVars, file, rows, edits, on, sel, first, new, draft, seen,
                   gone, lock, noteVars>>

NewNames(r, g) == names[g] \cup {[by |-> r, name |-> n] : n \in made[r][g]}

\* The junction rows of group g after r commits: a name it found has one row,
\* a name it inserted has its own.
NewLinks(r, g) ==
    LET found(n) == CHOOSE x \in NewNames(r, g) :
                        x.name = n /\ (n \in made[r][g] => x.by = r)
    IN  (links[on[r]][g] \ gone[r]) \cup {[by |-> r, row |-> found(n)] : n \in Wanted(r, g)}

\* The transaction commits; an approval's also deletes the pending rows.
Commit(r) ==
    LET b == on[r] IN
    /\ at[r] = "commit"
    /\ book' = IF lock[b] = r THEN [book EXCEPT ![b] = draft[r]] ELSE book
    /\ links' = [links EXCEPT ![b] = [g \in Groups |->
                    IF g \in sel[r] THEN NewLinks(r, g) ELSE links[b][g]]]
    /\ names' = [g \in Groups |-> NewNames(r, g)]
    /\ IF Editing(r) THEN UNCHANGED <<pending, torn>>
       ELSE /\ pending' = [pending EXCEPT ![b] = {}]
            /\ torn' = IF "cover" \in sel[r] THEN torn \ {b} ELSE torn
    /\ sole' = [sole EXCEPT ![r] = {}]
    /\ End(r)
    /\ UNCHANGED <<file, rows, edits, loose, raced>>

\* An error, a rollback, or the end of the process: what was committed and the
\* cover file stay as they are, the file perhaps only created or half written.
Fail(r) ==
    /\ at[r] # "idle"
    /\ sole' = [sole EXCEPT ![r] = {}]
    /\ torn' = IF Editing(r) \/ at[r] = "cover" THEN torn ELSE torn \cup {on[r]}
    /\ End(r)
    /\ UNCHANGED <<tableVars, file, rows, edits, loose, raced>>

\* The handler of POST /books/:id/rescan/approve.
Answer(r, b, action, flags) == \/ action = "approve" /\ Approve(r, b, Updates(flags))
                               \/ action = "reject" /\ Reject(r, b)

RescanNext ==
    \E r \in Requests :
        \/ \E b \in Books : \/ Preview(r, b) \/ Edit(r, b)
                            \/ \E flags \in Choices, action \in {"approve", "reject"} :
                                   Answer(r, b, action, flags)
        \/ DeletePending(r) \/ InsertPending(r)
        \/ HandleCover(r) \/ WriteCover(r) \/ ReadAgain(r) \/ UpdateRow(r)
        \/ \E g \in Groups : \/ Skip(r, g) \/ FindLinks(r, g)
                             \/ DeleteLinks(r, g) \/ InsertLinks(r, g)
        \/ Commit(r) \/ Fail(r)

RescanSpec == RescanInit /\ [][RescanNext]_rescanVars

------------------------------------------------------------------------------
(* Properties.                                                             *)

Named(ls) == {l.row.name : l \in ls}

\* What an approval brings into the catalogue is one preview: the selected
\* fields, and no other, get the values of a row that was the book's only
\* pending row at some moment since the request began, however previews,
\* rejections, edits and other approvals interleave with its two reads.  Of
\* the names a group had before none is left, unless a transaction that did not
\* have the book row took part.
OnePreview == [][\A b \in Books :
    book'[b] # book[b] \/ links'[b] # links[b] =>
        \E r \in Requests :
            /\ at[r] = "commit" /\ on[r] = b
            /\ \E v \in IF Editing(r) THEN {new[r]} ELSE sole[r] :
                /\ book'[b] = Written(book[b], v, sel[r])
                /\ \A g \in Groups \ sel[r] : links'[b][g] = links[b][g]
                /\ \A g \in Groups \cap sel[r] :
                    /\ v[g] \ {Blank} \subseteq Named(links'[b][g])
                    /\ b \notin loose => Named(links'[b][g]) \subseteq v[g]]_rescanVars

\* The authors, series and genres of a book all come from one transaction as
\* long as every transaction that replaced them had updated the book row
\* before: that row is what keeps two replacements apart, since a DELETE that
\* waited does not see what the other one inserted.
LinksOfOne == \A b \in Books \ loose, g \in Groups :
    \A l, m \in links[b][g] : l.by = m.by

\* A book on which requests came one after another has a whole cover file when
\* its row says so and none when not, unless an approval failed once it had
\* touched the file and before its transaction committed.
CoverSettles == \A b \in Books \ (raced \cup torn) :
    Busy(b) = {} => file[b] \in IF book[b].cover THEN Images ELSE {NoImage}

\* Both: what belongs to a book, in other tables and on disk, agrees with itself
\* and with the row.
RowsAgree == TypeOK /\ LinksOfOne /\ CoverSettles

==============================================================================
