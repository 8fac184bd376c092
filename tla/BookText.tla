------------------------------ MODULE BookText ------------------------------
(* How the elements of an FB2 file become the document that is previewed or   *)
(* converted: one pass over the tokens of the decoder, with flags for the     *)
(* elements it is inside of, one open text block, one table and a stack of    *)
(* sections.  The tokens are balanced: repairBrokenXML drops the end tags     *)
(* nothing opened and the decoder, which is not strict, supplies the missing  *)
(* ones.  A file the decoder still gives up on is read a second time by its   *)
(* letters alone (parseFB2BodyLoose), which is outside this module.  A run of *)
(* text is a number, so that it can be found again.                           *)
EXTENDS Integers, SequencesExt

CONSTANTS
  Children(_),    \* the elements that occur inside an element
  HasText(_),     \* whether text occurs directly inside it
  MaxNodes,       \* limits.MaxNodes: elements one parse may meet
  MaxSections,    \* maxFB2SectionDepth
  MaxInlines,     \* maxFB2InlineDepth
  MaxRuns         \* bound: runs of text in a file

VARIABLES
  open,      \* the elements of the file that are open, outermost first
  nodes,     \* elements met so far (parseQuota)
  runs,      \* runs of text met so far
  afterText, \* the last token was text
  notes,     \* inNotes: the open body is the notes body
  within,    \* the flags inTitle, inCite, inEpigraph, inTextAuthor, inPoem
  sections,  \* sectionStack, as indices into made
  made,      \* the sections of the document: are they notes, have they a title
  items,     \* the content of the document in order, each with its section
  para,      \* the open text block, or NoPara
  table,     \* the index of the open table among the items, or 0
  row,       \* currentRow
  cell,      \* currentCell, or NoCell
  inlines,   \* inlineStack: the open inline elements
  refused,   \* "none", "nodes" or "depth"
  titled,    \* history: the runs typed inside a title
  noted,     \* history: the runs typed in the notes body
  nested     \* history: an element was opened inside one of its own name

textVars == <<open, nodes, runs, afterText, notes, within, sections, made, items, para, table,
              row, cell, inlines, refused, titled, noted, nested>>

Flags == {"title", "cite", "epigraph", "text-author", "poem"}
Inline == {"strong", "a"}
Blocks == {"p", "v", "subtitle", "text-author"}
Tags == {"FictionBook", "body", "section", "stanza", "table", "tr", "td", "image", "empty-line"}
              \union Flags \union Inline \union Blocks

\* Of the schema only what the text of a file hangs on: the parser drops a text
\* that is outside of every block and cell, a verse outside of every poem and a
\* cell outside of every table, and takes a line in a title that is no
\* paragraph for text of the book.
ASSUME SchemaAssumption ==
  /\ \A el \in Tags : Children(el) \subseteq Tags
  /\ \A el \in Tags : HasText(el) => el \in Blocks \union Inline \union {"td"}
  /\ \A el \in Blocks \union Inline : Children(el) \subseteq Inline \union {"image"}
  /\ Children("title") \subseteq {"p", "empty-line"}
  /\ Children("table") \subseteq {"tr"} /\ Children("tr") \subseteq {"td"}
  /\ Children("td") \subseteq {"p", "image"} \union Inline
  /\ Children("image") = {} /\ Children("empty-line") = {}
  /\ \A el \in Tags :
       /\ "stanza" \in Children(el) => el = "poem"
       /\ "v" \in Children(el) => el = "stanza"
       /\ "tr" \in Children(el) => el = "table"
       /\ "td" \in Children(el) => el = "tr"
       /\ Inline \intersect Children(el) # {} => el \in Blocks \union Inline \union {"td"}

NoPara == [tag |-> "", kind |-> "", title |-> FALSE, content |-> <<>>]
NoCell == [open |-> FALSE, content |-> <<>>]
Text(n) == [type |-> "text", run |-> n]
Mark(type) == [type |-> type, run |-> 0]
RunsIn(content) == FlattenSeq([k \in 1..Len(content) |->
                                 IF content[k].type = "text" THEN <<content[k].run>> ELSE <<>>])

Top == IF open = <<>> THEN "" ELSE Last(open)
Section == IF sections = <<>> THEN 0 ELSE Last(sections)
Item(kind, content) == [section |-> Section, notes |-> notes, kind |-> kind, content |-> content, rows |-> <<>>]

TextInit ==
  /\ open = <<"FictionBook">> /\ nodes = 1 /\ runs = 0 /\ afterText = FALSE /\ notes = FALSE
  /\ within = {} /\ sections = <<>> /\ made = <<>> /\ items = <<>> /\ para = NoPara
  /\ table = 0 /\ row = <<>> /\ cell = NoCell /\ inlines = <<>> /\ refused = "none"
  /\ titled = {} /\ noted = {} /\ nested = FALSE

history == <<titled, noted>>
------------------------------------------------------------------------------
(* The element is met: it is counted before it is looked at. *)

Meet(el) ==
  /\ refused = "none" /\ open # <<>> /\ el \in Children(Top)
  /\ nodes < MaxNodes /\ nodes' = nodes + 1
  /\ open' = Append(open, el) /\ afterText' = FALSE
  /\ nested' = (nested \/ (el \in Flags /\ el \in Range(open)))
  /\ UNCHANGED <<runs, history>>

\* countToken: one element over the budget ends the parse.
OverBudget ==
  /\ refused = "none" /\ open # <<>> /\ Children(Top) # {} /\ nodes = MaxNodes
  /\ refused' = "nodes"
  /\ UNCHANGED <<open, nodes, runs, afterText, notes, within, sections, made, items, para, table,
                 row, cell, inlines, history, nested>>

StartBody ==
  /\ Meet("body")
  /\ notes' \in BOOLEAN
  /\ UNCHANGED <<within, sections, made, items, para, table, row, cell, inlines, refused>>

StartSection ==
  /\ Meet("section")
  /\ IF Len(sections) >= MaxSections
     THEN refused' = "depth" /\ UNCHANGED <<sections, made, items>>
     ELSE /\ made' = Append(made, [notes |-> notes, title |-> <<>>])
          /\ sections' = Append(sections, Len(made'))
          /\ items' = Append(items, Item("section", <<>>))
          /\ UNCHANGED refused
  /\ UNCHANGED <<notes, within, para, table, row, cell, inlines>>

\* startTextBlock: nothing while a block is open.
Begin(tag, kind) ==
  IF para # NoPara THEN UNCHANGED <<para, inlines>>
  ELSE /\ para' = [tag |-> tag, kind |-> kind, title |-> FALSE, content |-> <<>>]
       /\ inlines' = <<>>

\* defaultParagraphKind
KindOfCiteFirst ==
  IF "cite" \in within THEN "cite"
  ELSE IF "epigraph" \in within THEN "epigraph"
  ELSE IF "poem" \in within THEN "poem" ELSE "p"
KindNow ==
  IF "epigraph" \in within
  THEN IF "text-author" \in within THEN "epigraph-author" ELSE "epigraph"
  ELSE IF "cite" \in within THEN "cite"
  ELSE IF "poem" \in within THEN "poem" ELSE "p"

\* title, epigraph, cite, poem, and text-author, which opens a block as well.
StartFlag(el) ==
  /\ el \in Flags /\ Meet(el)
  /\ within' = within \union {el}
  /\ IF el = "text-author" THEN Begin(el, el) ELSE UNCHANGED <<para, inlines>>
  /\ UNCHANGED <<notes, sections, made, items, table, row, cell, refused>>

\* A paragraph belongs to a title when it starts inside one.
StartParagraph ==
  /\ Meet("p")
  /\ IF para # NoPara
     THEN para' = [para EXCEPT !.title = "title" \in within] /\ UNCHANGED inlines
     ELSE /\ para' = [tag |-> "p", kind |-> KindNow, title |-> "title" \in within, content |-> <<>>]
          /\ inlines' = <<>>
  /\ UNCHANGED <<notes, within, sections, made, items, table, row, cell, refused>>

StartLine(el) ==
  /\ el \in {"v", "subtitle"} /\ Meet(el)
  /\ IF el = "v" /\ "poem" \notin within THEN UNCHANGED <<para, inlines>>
     ELSE Begin(el, IF el = "v" THEN "poem-line" ELSE el)
  /\ UNCHANGED <<notes, within, sections, made, items, table, row, cell, refused>>

StartTable ==
  /\ Meet("table")
  /\ IF table # 0 THEN UNCHANGED <<items, table, row, cell>>
     ELSE /\ items' = Append(items, Item("table", <<>>)) /\ table' = Len(items')
          /\ row' = <<>> /\ cell' = NoCell
  /\ UNCHANGED <<notes, within, sections, made, para, inlines, refused>>

StartRow ==
  /\ Meet("tr")
  /\ row' = IF table # 0 THEN <<>> ELSE row
  /\ UNCHANGED <<notes, within, sections, made, items, para, table, cell, inlines, refused>>

StartCell ==
  /\ Meet("td")
  /\ cell' = IF table # 0 THEN [open |-> TRUE, content |-> <<>>] ELSE cell
  /\ UNCHANGED <<notes, within, sections, made, items, para, table, row, inlines, refused>>

\* appendInline: into the open block, else into the open cell.
Add(atom) ==
  IF para # NoPara THEN para' = [para EXCEPT !.content = Append(@, atom)] /\ UNCHANGED cell
  ELSE /\ cell' = IF cell.open THEN [cell EXCEPT !.content = Append(@, atom)] ELSE cell
       /\ UNCHANGED para

StartInline(el) ==
  /\ el \in Inline /\ Meet(el)
  /\ IF para = NoPara /\ ~cell.open THEN UNCHANGED <<para, cell, inlines, refused>>
     ELSE IF Len(inlines) >= MaxInlines
     THEN refused' = "depth" /\ UNCHANGED <<para, cell, inlines>>
     ELSE /\ (IF el = "a" THEN Add(Mark("a")) ELSE UNCHANGED <<para, cell>>)
          /\ inlines' = Append(inlines, el) /\ UNCHANGED refused
  /\ UNCHANGED <<notes, within, sections, made, items, table, row>>

\* image and empty-line: in a text block or cell an image is part of it, on its
\* own it is an item, and so is an empty line, a break inside a poem.
StartSingle(el) ==
  /\ el \in {"image", "empty-line"} /\ Meet(el)
  /\ IF el = "image" /\ (para # NoPara \/ cell.open)
     THEN Add(Mark(el)) /\ UNCHANGED items
     ELSE /\ items' = Append(items, Item(IF el = "empty-line" /\ "poem" \in within THEN "poem-break" ELSE el,
                                         IF el = "image" THEN <<Mark(el)>> ELSE <<>>))
          /\ UNCHANGED <<para, cell>>
  /\ UNCHANGED <<notes, within, sections, made, table, row, inlines, refused>>

\* stanza sets a flag nothing reads.
StartStanza ==
  /\ Meet("stanza")
  /\ UNCHANGED <<notes, within, sections, made, items, para, table, row, cell, inlines, refused>>
------------------------------------------------------------------------------
(* Text. *)

CharData ==
  /\ refused = "none" /\ open # <<>> /\ HasText(Top) /\ ~afterText /\ runs < MaxRuns
  /\ runs' = runs + 1 /\ afterText' = TRUE
  /\ Add(Text(runs'))
  /\ titled' = IF "title" \in Range(open) THEN titled \union {runs'} ELSE titled
  /\ noted' = IF notes THEN noted \union {runs'} ELSE noted
  /\ UNCHANGED <<open, nodes, notes, within, sections, made, items, table, row, inlines, refused, nested>>
------------------------------------------------------------------------------
(* The end of the innermost element. *)

End(el) ==
  /\ refused = "none" /\ open # <<>> /\ el = Top
  /\ open' = Front(open) /\ afterText' = FALSE
  /\ UNCHANGED <<nodes, runs, history, nested>>

\* A block is kept by what it will draw: text, a picture or a link.
Worth(block) == block.content # <<>>

\* finishTextBlock: a title's block names its section unless it has a name, a
\* block in a cell joins the cell, any other is an item of the section.
FinishBlock(tag) ==
  IF para.tag # tag THEN UNCHANGED <<made, items, para, cell, inlines>>
  ELSE /\ para' = NoPara /\ inlines' = <<>>
       /\ \/ ~Worth(para) /\ UNCHANGED <<made, items, cell>>
          \/ /\ Worth(para) /\ para.title
             /\ made' = IF Section # 0 /\ made[Section].title = <<>>
                        THEN [made EXCEPT ![Section].title = RunsIn(para.content)]
                        ELSE made
             /\ UNCHANGED <<items, cell>>
          \/ /\ Worth(para) /\ ~para.title /\ table # 0 /\ cell.open
             /\ cell' = [cell EXCEPT !.content = @ \o para.content]
             /\ UNCHANGED <<made, items>>
          \/ /\ Worth(para) /\ ~para.title /\ ~(table # 0 /\ cell.open)
             /\ items' = Append(items, Item(para.kind, para.content))
             /\ UNCHANGED <<made, cell>>

EndBlock(el) ==
  /\ el \in {"p", "v", "subtitle"} /\ End(el)
  /\ FinishBlock(el)
  /\ UNCHANGED <<notes, within, sections, table, row, refused>>

EndFlag(el) ==
  /\ el \in Flags /\ End(el)
  /\ within' = within \ {el}
  /\ IF el = "text-author" THEN FinishBlock(el) ELSE UNCHANGED <<made, items, para, cell, inlines>>
  /\ UNCHANGED <<notes, sections, table, row, refused>>

EndStanza ==
  /\ End("stanza")
  /\ items' = IF "poem" \in within THEN Append(items, Item("poem-break", <<>>)) ELSE items
  /\ UNCHANGED <<notes, within, sections, made, para, table, row, cell, inlines, refused>>

EndInline(el) ==
  /\ el \in Inline /\ End(el)
  /\ inlines' = IF inlines # <<>> /\ Last(inlines) = el THEN Front(inlines) ELSE inlines
  /\ UNCHANGED <<notes, within, sections, made, items, para, table, row, cell, refused>>

EndCell ==
  /\ End("td")
  /\ IF table # 0 /\ cell.open THEN row' = Append(row, cell.content) /\ cell' = NoCell
     ELSE UNCHANGED <<row, cell>>
  /\ UNCHANGED <<notes, within, sections, made, items, para, table, inlines, refused>>

EndRow ==
  /\ End("tr")
  /\ IF table # 0 /\ row # <<>>
     THEN items' = [items EXCEPT ![table].rows = Append(@, row)] /\ row' = <<>>
     ELSE UNCHANGED <<items, row>>
  /\ UNCHANGED <<notes, within, sections, made, para, table, cell, inlines, refused>>

EndTable ==
  /\ End("table")
  /\ IF table # 0 THEN table' = 0 /\ row' = <<>> /\ cell' = NoCell /\ inlines' = <<>>
     ELSE UNCHANGED <<table, row, cell, inlines>>
  /\ UNCHANGED <<notes, within, sections, made, items, para, refused>>

EndSection ==
  /\ End("section")
  /\ sections' = IF sections = <<>> THEN sections ELSE Front(sections)
  /\ UNCHANGED <<notes, within, made, items, para, table, row, cell, inlines, refused>>

EndBody ==
  /\ End("body")
  /\ notes' = FALSE
  /\ UNCHANGED <<within, sections, made, items, para, table, row, cell, inlines, refused>>

\* The end of an element nothing is done about.
EndOther(el) ==
  /\ el \in {"image", "empty-line", "FictionBook"} /\ End(el)
  /\ UNCHANGED <<notes, within, sections, made, items, para, table, row, cell, inlines, refused>>

TextNext ==
  \/ OverBudget \/ StartBody \/ StartSection \/ StartParagraph \/ StartTable \/ StartRow \/ StartCell
  \/ StartStanza \/ CharData \/ EndStanza \/ EndCell \/ EndRow \/ EndTable \/ EndSection \/ EndBody
  \/ \E el \in Flags : StartFlag(el) \/ EndFlag(el)
  \/ \E el \in Inline : StartInline(el) \/ EndInline(el)
  \/ \E el \in {"p", "v", "subtitle"} : StartLine(el) \/ EndBlock(el)
  \/ \E el \in {"image", "empty-line", "FictionBook"} : StartSingle(el) \/ EndOther(el)
------------------------------------------------------------------------------
(* What the parse must get right. *)

ItemRuns(item) == RunsIn(item.content) \o FlattenSeq([k \in 1..Len(item.rows) |->
                                                       RunsIn(FlattenSeq(item.rows[k]))])
Kept(inNotes) == FlattenSeq([k \in 1..Len(items) |->
                               IF items[k].notes = inNotes THEN ItemRuns(items[k]) ELSE <<>>])

\* Every text of the file outside its titles is in the document once, in the
\* order of the file, the notes apart from the body; and no text of a title is
\* taken for text of the book.
AllTextKept ==
  open = <<>> =>
    \A inNotes \in BOOLEAN :
      Kept(inNotes) = FlattenSeq([r \in 1..runs |->
                        IF r \notin titled /\ (r \in noted) = inNotes THEN <<r>> ELSE <<>>])

\* The same of the files the flags can follow: after a poem inside the epigraph
\* of a poem, the verses of the outer one are not taken for verses.
TextKept == ~nested => AllTextKept

\* The kind of a paragraph, which its layout follows, is that of the elements
\* it stands in, as long as none of them stands in one of its own name (the
\* flags do not count: the end of the inner one ends the outer one as well).
KindByContext ==
  para.tag = "p" /\ ~nested =>
    para.kind = IF "epigraph" \in Range(open) THEN "epigraph"
                ELSE IF "cite" \in Range(open) THEN "cite"
                ELSE IF "poem" \in Range(open) THEN "poem" ELSE "p"

\* Together: the document has the words of the file, and knows for each what
\* it was part of.
TextFaithful == TextKept /\ KindByContext
=============================================================================
