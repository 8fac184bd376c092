-------------------------------- MODULE Epub --------------------------------
(* How the document of a book becomes the files of an EPUB: the chapters it   *)
(* is cut into, the anchors that are written into them, the links and the     *)
(* table of contents that point at them, the pictures, the cover, and the     *)
(* package document that lists it all and gives the order of reading.  The    *)
(* book is the document in reading order: an entry is a section or a          *)
(* paragraph, its level the number of sections around a paragraph, its own    *)
(* counted for a section, so that the tree can be read back from the order.   *)
(* Text is abstracted to the entry it is the text of.                         *)
EXTENDS Integers, SequencesExt

CONSTANTS
  Documents,      \* the documents an EPUB may be made of, see Nested
  Names,          \* ids, and what links point at; "" for none
  MaxPictureSide, \* fb2image.maxDimension, and maxPixels with it
  Tocref(_),      \* the n-th anchor of the table of contents
  NoteAnchor(_),  \* the anchor of the note with this id
  NoteNumber(_)   \* the anchor of the n-th note when it has none

VARIABLES
  book,      \* [body, notes, titled, binaries, cover]
  stage,     \* "split", "render", "contents", "package", "done"
  entry,     \* the entry, then the chapter, the generator is at
  frames,    \* the sections flattenSection is inside of, [section, own]
  run,       \* the paragraphs collected for the next chapter
  chapters,  \* [section, paras], section 0 for a run of paragraphs on their own
  refs,      \* sectionAnchors, as sequence of sections in the order of their anchors
  written,   \* the files: for each what is written into it, in order
  contents,  \* the table of contents in order, [file, key, section]
  manifest,  \* the files the package document lists, [id, file, cover]
  spine      \* the ids of its order of reading

epubVars == <<book, stage, entry, frames, run, chapters, refs, written, contents,
              manifest, spine>>
packageVars == <<manifest, spine>>

Nested(entries) ==
  \A k \in 1..Len(entries) :
    LET before == IF k = 1 THEN 0 ELSE entries[k - 1].level
    IN  IF entries[k].section THEN entries[k].level \in 1..(before + 1)
        ELSE entries[k].level \in 0..before

File(kind, n) == [kind |-> kind, n |-> n]
Chapter(c) == File("chapter", c)
Anchor(key) == [type |-> "anchor", key |-> key, file |-> File("", 0), entry |-> 0]
Link(file, key) == [type |-> "link", key |-> key, file |-> file, entry |-> 0]
Words(place, k) == [type |-> "text", key |-> "", file |-> File(place, 0), entry |-> k]
Picture(n) == [type |-> "image", key |-> "", file |-> File("image", n), entry |-> 0]
When(condition, atoms) == IF condition THEN atoms ELSE <<>>
InOrder(S, n) == FlattenSeq([k \in 1..n |-> When(k \in S, <<k>>)])

Entries ==
  [section : BOOLEAN, level : Nat, id : Names, kind : {"", "p", "table", "poem-line", "poem-break"},
   shown : BOOLEAN, links : Seq([to : Names, fragment : BOOLEAN, note : BOOLEAN]), images : Seq(Nat)]
Graphics == [format : {"none", "readable", "convertible"}, shows : Nat, side : Nat, sound : BOOLEAN]

\* The break between two stanzas is the parser's own paragraph, which has no id.
ASSUME DocumentsAssumption ==
  /\ "" \in Names
  /\ Documents \subseteq [body : Seq(Entries), notes : Seq(Entries), titled : BOOLEAN,
                         binaries : Seq(Graphics), cover : Graphics]
  /\ \A b \in Documents : \A k \in 1..Len(b.body) : b.body[k].kind = "poem-break" => b.body[k].id = ""
------------------------------------------------------------------------------
(* Pictures. *)

\* fb2image.Normalize: what a reader draws is kept as it is; a picture in one of
\* the two other formats is stored as PNG unless it is too large or broken;
\* anything else cannot be drawn.
Unusable == [format |-> "none", shows |-> 0, side |-> 0, sound |-> FALSE]
Normal(p) ==
  CASE p.format = "readable" -> p
    [] p.format = "convertible" /\ p.side \in 1..MaxPictureSide /\ p.sound -> [p EXCEPT !.format = "readable"]
    [] OTHER -> Unusable

\* buildImages: the binaries that can be drawn; the number of a picture is that
\* of its binary in the order of the ids.
Images == {n \in 1..Len(book.binaries) : Normal(book.binaries[n]) # Unusable}

\* buildCover: a picture of the book that is the cover, the cover itself (0),
\* or else the first picture; -1 for none.
Cover ==
  LET same == {n \in Images : Normal(book.binaries[n]) = Normal(book.cover)}
      first(S) == CHOOSE n \in S : \A m \in S : n <= m
  IN  IF Normal(book.cover) # Unusable THEN IF same # {} THEN first(same) ELSE 0
      ELSE IF Images # {} THEN first(Images) ELSE -1
------------------------------------------------------------------------------
(* Notes: the sections of the notes body and its paragraphs outside of them;  *)
(* the sections inside a note are not looked at.                              *)

NoteHeads ==
  InOrder({k \in 1..Len(book.notes) : book.notes[k].level = IF book.notes[k].section THEN 1 ELSE 0},
          Len(book.notes))
ParasOf(h) ==
  IF ~book.notes[h].section THEN <<h>>
  ELSE InOrder({k \in (h + 1)..Len(book.notes) :
                  /\ ~book.notes[k].section /\ book.notes[k].level = 1
                  /\ \A i \in (h + 1)..k : ~(book.notes[i].section /\ book.notes[i].level = 1)},
               Len(book.notes))
Notes == [n \in 1..Len(NoteHeads) |->
            LET h == NoteHeads[n]
            IN  [id |-> IF book.notes[h].section THEN book.notes[h].id ELSE "", paras |-> ParasOf(h)]]

\* planNotes, buildNoteAnchor
AnchorOf(n) == IF Notes[n].id # "" THEN NoteAnchor(Notes[n].id) ELSE NoteNumber(n)
NoteIds == {Notes[n].id : n \in 1..Len(Notes)} \ {""}
------------------------------------------------------------------------------
(* Chapters: flattenBody and flattenSection.  frames is the stack of their    *)
(* calls, the outermost for the root, which is no chapter itself.             *)

Placeholder == [section |-> FALSE, level |-> 0, id |-> "", kind |-> "p", shown |-> TRUE,
                links |-> <<>>, images |-> <<>>]

\* A document has no body, and gets one with a paragraph that says so, or, from a
\* file broken before its first word, a body with nothing in it.
EpubInit ==
  /\ \E b \in Documents, none \in BOOLEAN :
       book = IF none /\ b.body = <<>> THEN [b EXCEPT !.body = <<Placeholder>>] ELSE b
  /\ stage = "split" /\ entry = 1 /\ frames = <<[section |-> 0, own |-> TRUE]>>
  /\ run = <<>> /\ chapters = <<>> /\ refs = <<>> /\ written = <<>> /\ contents = <<>>
  /\ manifest = <<>> /\ spine = <<>>

Inner == Last(frames)
Depth == Len(frames) - 1

\* emitOwn, flushRun: the chapter of the section itself with what was collected
\* so far, or what was collected since the last subsection on its own.
Emitted ==
  IF ~Inner.own \/ run # <<>>
  THEN Append(chapters, [section |-> IF Inner.own THEN 0 ELSE Inner.section, paras |-> run])
  ELSE chapters
Emit == chapters' = Emitted /\ run' = <<>>

AtEntry == stage = "split" /\ entry <= Len(book.body)

Collect ==
  /\ AtEntry /\ ~book.body[entry].section /\ book.body[entry].level = Depth
  /\ run' = Append(run, entry) /\ entry' = entry + 1
  /\ UNCHANGED <<book, stage, frames, chapters, refs, written, contents, packageVars>>

EnterSection ==
  /\ AtEntry /\ book.body[entry].section /\ book.body[entry].level = Depth + 1
  /\ Emit
  /\ frames' = Append([frames EXCEPT ![Len(frames)].own = TRUE], [section |-> entry, own |-> FALSE])
  /\ entry' = entry + 1
  /\ UNCHANGED <<book, stage, refs, written, contents, packageVars>>

LeaveUnflushed ==
  /\ stage = "split" /\ Depth > 0
  /\ \/ entry > Len(book.body)
     \/ /\ entry <= Len(book.body)
        /\ book.body[entry].level < Depth \/ (book.body[entry].section /\ book.body[entry].level = Depth)
  /\ IF Inner.own THEN run' = <<>> /\ UNCHANGED chapters ELSE Emit
  /\ frames' = Front(frames)
  /\ UNCHANGED <<book, stage, entry, refs, written, contents, packageVars>>
\* The section ends: an entry follows that is not inside it, or none.
LeaveSection ==
  /\ stage = "split" /\ Depth > 0
  /\ \/ entry > Len(book.body)
     \/ /\ entry <= Len(book.body)
        /\ book.body[entry].level < Depth \/ (book.body[entry].section /\ book.body[entry].level = Depth)
  /\ Emit
  /\ frames' = Front(frames)
  /\ UNCHANGED <<book, stage, entry, refs, written, contents, packageVars>>

\* A book without chapters gets an empty one.
NoText == [section |-> 0, paras |-> <<>>]
LeaveBody ==
  /\ stage = "split" /\ Depth = 0 /\ entry > Len(book.body)
  /\ chapters' = (IF Emitted = <<>> THEN <<NoText>> ELSE Emitted) /\ run' = <<>>
  /\ stage' = "render" /\ entry' = 1
  /\ UNCHANGED <<book, frames, refs, written, contents, packageVars>>
------------------------------------------------------------------------------
(* Rendering. *)

IdsOf(chapter) ==
  {book.body[k].id : k \in Range(chapter.paras) \union (IF chapter.section = 0 THEN {} ELSE {chapter.section})} \ {""}

\* idIndex, assigned before any chapter is rendered: the first chapter with the
\* id, or 0.
Home(id) ==
  IF \E c \in 1..Len(chapters) : id \in IdsOf(chapters[c])
  THEN CHOOSE c \in 1..Len(chapters) : /\ id \in IdsOf(chapters[c])
                                       /\ \A b \in 1..(c - 1) : id \notin IdsOf(chapters[b])
  ELSE 0

\* resolveNoteHref, then resolveSectionHref: a note first, then a place in a
\* chapter; a fragment nobody knows stays as it is, without one it leads out.
Resolved(here, link) ==
  IF (link.fragment \/ link.note) /\ link.to \in NoteIds THEN Link(File("notes", 0), NoteAnchor(link.to))
  ELSE IF ~link.fragment THEN Link(File("outside", 0), link.to)
  ELSE IF Home(link.to) # 0 THEN Link(Chapter(Home(link.to)), link.to)
  ELSE Link(here, link.to)

\* renderParagraphs: the anchor of a paragraph is written even if the paragraph
\* renders to nothing, as a table and an empty line do; in a poem nothing is
\* written for a break or a verse without text.
ParagraphOf(place, here, p, k) ==
  LET inPoem == p.kind \in {"poem-line", "poem-break"} IN
  When(p.id # "" /\ (p.shown \/ ~inPoem), <<Anchor(p.id)>>)
    \o When(p.shown, <<Words(place, k)>>
         \o [j \in 1..Len(p.links) |-> Resolved(here, p.links[j])]
         \o FlattenSeq([j \in 1..Len(p.images) |-> When(p.images[j] \in Images, <<Picture(p.images[j])>>)]))

Paragraphs(place, here, entries, paras) ==
  FlattenSeq([j \in 1..Len(paras) |-> ParagraphOf(place, here, entries[paras[j]], paras[j])])

\* sectionAnchor: the anchor of a section, the first of a titled book taken by
\* the title page.
Sequence(section) ==
  (IF book.titled THEN 1 ELSE 0) +
    (IF \E n \in 1..Len(refs) : refs[n] = section
     THEN CHOOSE n \in 1..Len(refs) : refs[n] = section ELSE Len(refs) + 1)

\* renderSectionHeader
Header(section) ==
  <<Anchor(Tocref(Sequence(section)))>>
    \o When(book.body[section].id # "", <<Anchor(book.body[section].id)>>)
    \o <<Words("head", section)>>

ChapterFile(c) ==
  [file |-> Chapter(c),
   atoms |-> (IF chapters[c].section = 0 THEN <<>> ELSE Header(chapters[c].section))
               \o Paragraphs("body", Chapter(c), book.body, chapters[c].paras)]

RenderChapter ==
  /\ stage = "render" /\ entry <= Len(chapters)
  /\ written' = Append(written, ChapterFile(entry))
  /\ refs' = IF chapters[entry].section = 0 THEN refs ELSE Append(refs, chapters[entry].section)
  /\ entry' = entry + 1
  /\ UNCHANGED <<book, stage, frames, run, chapters, contents, packageVars>>

\* buildNotesPage, after the chapters.
NotesFile ==
  [file |-> File("notes", 0),
   atoms |-> FlattenSeq([n \in 1..Len(Notes) |->
               <<Anchor(AnchorOf(n))>>
                 \o Paragraphs("notes", File("notes", 0), book.notes, Notes[n].paras)])]

RenderNotes ==
  /\ stage = "render" /\ entry > Len(chapters)
  /\ written' = written \o When(Notes # <<>>, <<NotesFile>>)
  /\ stage' = "contents"
  /\ UNCHANGED <<book, entry, frames, run, chapters, refs, contents, packageVars>>

\* buildTOC: a line for every section, between the title page and the notes.
Lines ==
  LET sections == InOrder({k \in 1..Len(book.body) : book.body[k].section}, Len(book.body))
      fileOf(s) == IF \E c \in 1..Len(chapters) : chapters[c].section = s
                   THEN CHOOSE c \in 1..Len(chapters) : chapters[c].section = s ELSE 1
      line(file, key, s) == [file |-> file, key |-> key, section |-> s]
  IN  When(book.titled, <<line(File("title", 0), Tocref(1), 0)>>)
        \o [j \in 1..Len(sections) |->
              line(Chapter(fileOf(sections[j])), Tocref(Sequence(sections[j])), sections[j])]
        \o When(Notes # <<>>, <<line(File("notes", 0), "", 0)>>)

\* buildNavList, buildNCXNavMap: each line becomes a link, after its parent's.
NavList(lines) == [j \in 1..Len(lines) |-> Link(lines[j].file, lines[j].key)]

\* The pictures of the book in the order of their ids, and the cover's own.
Pictures ==
  When(Cover = 0, <<0>>) \o InOrder(Images, Len(book.binaries))

CoverPage == [file |-> File("cover", 0), atoms |-> <<Picture(Cover)>>]
TitlePage == [file |-> File("title", 0), atoms |-> <<Anchor(Tocref(1))>>]

\* The rest of the files: cover page, title page, pictures and the three that
\* hold the table of contents.
Plain(file) == [file |-> file, atoms |-> <<>>]
OtherFiles ==
  When(Cover # -1, <<CoverPage>>) \o When(book.titled, <<TitlePage>>) \o <<Plain(File("style", 0))>>
    \o [j \in 1..Len(Pictures) |-> Plain(File("image", Pictures[j]))]
    \o <<[file |-> File("nav", 0), atoms |-> NavList(Lines)],
         [file |-> File("toc", 0), atoms |-> NavList(Lines)],
         [file |-> File("ncx", 0), atoms |-> Append(NavList(Lines), Link(File("toc", 0), ""))]>>

Bind ==
  /\ stage = "contents"
  /\ contents' = Lines /\ written' = written \o OtherFiles
  /\ stage' = "package"
  /\ UNCHANGED <<book, entry, frames, run, chapters, refs, packageVars>>

Listing(id, n, file, cover) == [id |-> [name |-> id, n |-> n], file |-> file, cover |-> cover]
Page(kind)     == Listing(kind, 0, File(kind, 0), FALSE)
ChapterItem(c) == Listing("chap", c, Chapter(c), FALSE)
ImageItem(n)   == Listing("img", n, File("image", n), n = Cover)
ChapterItems   == [c \in 1..Len(chapters) |-> ChapterItem(c)]

\* buildContentOPF: every file has an item, the picture the cover shows is
\* marked; the pages are read cover first and the contents and notes last.
PackageItems ==
  LET own == InOrder(Images, Len(book.binaries))
  IN  <<Page("style"), Page("nav"), Page("ncx"), Page("toc")>>
        \o When(Notes # <<>>, <<Page("notes")>>) \o When(book.titled, <<Page("title")>>)
        \o When(Cover # -1, <<Page("cover")>>)
        \o [j \in 1..Len(own) |-> ImageItem(own[j])]
        \o When(Cover = 0, <<Listing("cover-image", 0, File("image", 0), TRUE)>>)
        \o ChapterItems
ReadingOrder ==
  When(Cover # -1, <<Page("cover")>>) \o When(book.titled, <<Page("title")>>)
    \o ChapterItems \o <<Page("toc")>> \o When(Notes # <<>>, <<Page("notes")>>)

Package ==
  /\ stage = "package"
  /\ manifest' = PackageItems /\ spine' = [j \in 1..Len(ReadingOrder) |-> ReadingOrder[j].id]
  /\ stage' = "done"
  /\ UNCHANGED <<book, entry, frames, run, chapters, refs, written, contents>>

EpubNext ==
  Collect \/ EnterSection \/ LeaveSection \/ LeaveBody \/ RenderChapter \/ RenderNotes \/ Bind \/ Package
------------------------------------------------------------------------------
(* What the EPUB must get right. *)

Files == {f.file : f \in Range(written)}
Atoms(file) == IF file \in Files THEN (CHOOSE f \in Range(written) : f.file = file).atoms ELSE <<>>
ItemOf(id) == CHOOSE item \in Range(manifest) : item.id = id
ReadIn(place) ==
  LET all == FlattenSeq([j \in 1..Len(spine) |-> Atoms(ItemOf(spine[j]).file)])
  IN  FlattenSeq([j \in 1..Len(all) |->
                    When(all[j].type = "text" /\ all[j].file.kind \in place, <<all[j].entry>>)])
Landings(file, key) ==
  {j \in 1..Len(Atoms(file)) : Atoms(file)[j].type = "anchor" /\ Atoms(file)[j].key = key}

\* Whoever reads the pages in the order of the spine reads every heading and every
\* paragraph with text once, in the order of the book, however sections and
\* paragraphs alternate at one level.  Tables are not among them: the
\* generator writes nothing for a table.
ReadOnce ==
  stage = "done" =>
    ReadIn({"head", "body"}) =
      InOrder({k \in 1..Len(book.body) : book.body[k].section \/ book.body[k].shown}, Len(book.body))

\* In the chapter an id is looked up in, only verses without text have it.
Mute(id) ==
  \A k \in Range(chapters[Home(id)].paras) \union ({chapters[Home(id)].section} \ {0}) :
    book.body[k].id = id => book.body[k].kind = "poem-line" /\ ~book.body[k].shown

\* The ids that are looked up: of the body's sections and paragraphs and of the
\* notes.  What is inside a note has ids of its own, and nobody collects them.
Collected ==
  ({book.body[k].id : k \in 1..Len(book.body)} \union NoteIds) \ {""}

\* A link to a note or to an id of the body lands on an anchor of the file it
\* names, also when that file was not written yet as the link was; only the id of
\* a verse without text has no anchor, the code writes none.  An id that nobody
\* collected is looked for in the page the link is on, and nowhere else: a link
\* from a chapter to a paragraph inside a note stays a fragment of the chapter
\* and leads nowhere.  A note without an id has the anchor of its number, which may
\* be that of another's id: the link then finds the first of the two.  The one line
\* of the contents without an anchor opens the notes; that of a section lands on
\* its heading.
LinksLand ==
  stage = "done" =>
    /\ \A f \in Range(written) : \A a \in Range(f.atoms) :
         a.type = "link" /\ a.file.kind \in {"chapter", "notes"} =>
           \/ Landings(a.file, a.key) # {}
           \/ Home(a.key) # 0 /\ a.file = Chapter(Home(a.key)) /\ Mute(a.key)
           \/ a.file = f.file /\ a.key \notin Collected
           \/ a.key = "" /\ a.file \in Files
    /\ \A line \in Range(contents) :
         LET first == CHOOSE n \in Landings(line.file, line.key) :
                        \A m \in Landings(line.file, line.key) : n <= m
         IN  line.section # 0 =>
               /\ Landings(line.file, line.key) # {}
               /\ \E n \in first..Len(Atoms(line.file)) :
                    /\ Atoms(line.file)[n] = Words("head", line.section)
                    /\ \A m \in first..(n - 1) : Atoms(line.file)[m].type = "anchor"

\* Every picture a page shows is in the package, and the cover is there once:
\* not a second time beside the picture of the book it is.
PicturesPacked ==
  stage = "done" =>
    /\ \A f \in Range(written) : \A a \in Range(f.atoms) : a.type = "image" => a.file \in Files
    /\ File("image", 0) \in Files => Normal(book.cover) \notin {Normal(book.binaries[n]) : n \in Images}

\* The package document lists every file of the package once, under an id of
\* its own, and nothing else; every page is read once, and of the pictures the
\* one the cover page shows is marked.
PackageComplete ==
  stage = "done" =>
    /\ {item.file : item \in Range(manifest)} = Files
    /\ IsInjective([n \in 1..Len(written) |-> written[n].file])
    /\ IsInjective([n \in 1..Len(manifest) |-> manifest[n].file])
    /\ IsInjective([n \in 1..Len(manifest) |-> manifest[n].id])
    /\ IsInjective(spine) /\ Range(spine) \subseteq {item.id : item \in Range(manifest)}
    /\ {ItemOf(id).file : id \in Range(spine)} =
         {file \in Files : file.kind \notin {"style", "nav", "ncx", "image"}}
    /\ {item.file : item \in {x \in Range(manifest) : x.cover}} =
         {a.file : a \in {x \in Range(Atoms(File("cover", 0))) : x.type = "image"}}

\* Together: the package can be read from the first page to the last, and by
\* its links.
EpubFaithful == ReadOnce /\ LinksLand /\ PicturesPacked /\ PackageComplete
=============================================================================
