------------------------------ MODULE MCTexts -------------------------------
(* Four steps of a book's text on its way to a reader that share no        *)
(* state: in every behaviour one of them runs, the others stay as they     *)
(* began.                                                                  *)
EXTENDS Portions, BookText, Epub, Metadata, TLC

------------------------------------------------------------------------------
(* Portions: up to four of ten shapes of item, with and without notes.     *)

mcNoteLink(i) == IF i = 0 THEN 2 ELSE 3
mcNoteBox(i) == IF i = 0 THEN 1 ELSE 2
mcSynthetic(n) == "!auto-" \o ToString(n)

mcHeading(id, size) == [heading |-> TRUE, id |-> id, size |-> size, links |-> <<>>, pictures |-> {}]
mcBlock(id, size, links, pics) == [heading |-> FALSE, id |-> id, size |-> size, links |-> links, pictures |-> pics]
mcNote(id, size, links, pics) == [id |-> id, size |-> size, links |-> links, pictures |-> pics]
mcItems == {mcHeading("", 1), mcHeading("a", 2), mcHeading("!auto-0", 1), mcHeading("n", 1),
            mcBlock("", 3, <<>>, {"p", "r"}), mcBlock("a", 1, <<"n", "a">>, {}),
            mcBlock("", 2, <<"n", "m">>, {}), mcBlock("b", 7, <<"b", "c">>, {"s", "t", "u", "v"}),
            mcBlock("", 1, <<"a", "a", "a", "a", "a", "a", "a", "a">>, {}),
            mcBlock("", 19, <<>>, {})}
mcNoteSets == {<<>>, <<mcNote("n", 2, <<"a">>, {"q"}), mcNote("n", 5, <<>>, {"p"}), mcNote("m", 6, <<"n">>, {})>>}
mcBinary(rank, source, size) ==
  [rank |-> rank, source |-> source, format |-> "raster", decodes |-> TRUE, side |-> 1, size |-> size]
mcBinaries == [b \in {"p", "q", "r", "s", "t", "u", "v"} |->
  CASE b = "p" -> mcBinary(2, 2, 2) [] b = "q" -> mcBinary(1, 1, 2)
    [] b = "r" -> mcBinary(3, 3, 4) [] b = "s" -> mcBinary(4, 3, 3)
    [] b = "t" -> [mcBinary(5, 1, 1) EXCEPT !.format = "svg"]
    [] b = "u" -> [mcBinary(6, 1, 1) EXCEPT !.decodes = FALSE]
    [] b = "v" -> [mcBinary(7, 1, 1) EXCEPT !.side = 3]]
mcDocs == {[items |-> i, notes |-> n, binaries |-> mcBinaries] : i \in BoundedSeq(mcItems, 4), n \in mcNoteSets}

------------------------------------------------------------------------------
(* BookText: the part of the FB2 schema the parser tells apart.            *)

mcChildren(el) ==
  CASE el = "FictionBook" -> {"body"}
    [] el = "body" -> {"title", "epigraph", "section", "image"}
    [] el = "section" -> {"title", "epigraph", "section", "p", "cite", "poem", "subtitle", "table", "empty-line", "image"}
    [] el = "title" -> {"p", "empty-line"}
    [] el = "epigraph" -> {"p", "cite", "poem", "text-author"}
    [] el = "cite" -> {"p", "poem", "table", "subtitle", "text-author"}
    [] el = "poem" -> {"title", "epigraph", "stanza", "text-author"}
    [] el = "stanza" -> {"title", "v"}
    [] el = "table" -> {"tr"}
    [] el = "tr" -> {"td"}
    [] el = "td" -> {"p", "a", "image"}
    [] el \in {"p", "v", "subtitle", "text-author"} -> {"strong", "a", "image"}
    [] el = "strong" -> {"a"}
    [] OTHER -> {}
mcHasText(el) == el \in {"p", "v", "subtitle", "text-author", "td", "strong", "a"}

------------------------------------------------------------------------------
(* Epub: bodies of up to four of ten entries, with and without notes, and  *)
(* four sets of pictures.                                                  *)

mcTocref(n) == "tocref" \o ToString(n)
mcNoteAnchor(id) == "note-" \o id
mcNoteNumber(n) == "note-" \o ToString(n)

mcSection(level, id) ==
  [section |-> TRUE, level |-> level, id |-> id, kind |-> "", shown |-> FALSE, links |-> <<>>, images |-> <<>>]
mcPara(level, id, kind, shown, links, images) ==
  [section |-> FALSE, level |-> level, id |-> id, kind |-> kind, shown |-> shown, links |-> links, images |-> images]
mcTo(id) == [to |-> id, fragment |-> TRUE, note |-> FALSE]
mcEntries ==
  {mcSection(1, "a"), mcSection(2, "tocref2"), mcSection(2, "")}
    \union {mcPara(level, "", "p", TRUE, <<mcTo("a"), mcTo("v"), mcTo("1"), mcTo("n"), mcTo("2")>>, <<1, 2>>) : level \in 0..2}
    \union {mcPara(1, "v", "poem-line", FALSE, <<>>, <<>>), mcPara(1, "a", "poem-line", TRUE, <<mcTo("tocref2")>>, <<>>),
            mcPara(2, "v", "table", FALSE, <<mcTo("a")>>, <<>>)}
mcNotes ==
  {<<>>, <<mcPara(0, "", "p", TRUE, <<mcTo("a"), mcTo("v")>>, <<>>), mcSection(1, "1"),
           mcPara(1, "2", "p", TRUE, <<mcTo("n"), mcTo("2")>>, <<3>>), mcSection(2, "2"),
           mcPara(2, "", "p", TRUE, <<>>, <<>>), mcSection(1, "n"), mcPara(1, "", "p", TRUE, <<mcTo("1")>>, <<>>)>>}
mcImage(format, shows, side, sound) == [format |-> format, shows |-> shows, side |-> side, sound |-> sound]
mcNone == mcImage("none", 0, 0, FALSE)
mcPictures ==
  {[binaries |-> <<>>, cover |-> mcNone],
   [binaries |-> <<mcImage("convertible", 2, 9, TRUE), mcImage("readable", 1, 1, TRUE), mcImage("readable", 2, 1, TRUE)>>,
    cover |-> mcImage("convertible", 1, 1, TRUE)],
   [binaries |-> <<mcImage("convertible", 1, 1, FALSE), mcImage("readable", 1, 1, TRUE)>>, cover |-> mcNone],
   [binaries |-> <<mcImage("readable", 2, 1, TRUE)>>, cover |-> mcImage("readable", 1, 1, TRUE)]}
mcNames == {"", "a", "v", "n", "1", "2", "tocref2"}
mcBooks ==
  {[body |-> b, notes |-> n, titled |-> t, binaries |-> p.binaries, cover |-> p.cover] :
     b \in {s \in BoundedSeq(mcEntries, 4) : Nested(s)}, n \in mcNotes, t \in BOOLEAN, p \in mcPictures}

------------------------------------------------------------------------------
(* Metadata: files of eight parts of the FB2 schema, each as large as its  *)
(* hazard needs: two authors with both names, nested series, two pictures  *)
(* with one id, a second body.                                             *)

mcBookRoot == {<<"", "FictionBook">>, <<"FictionBook", "description">>}
mcTitled  == mcBookRoot \union {<<"description", "title-info">>}
mcSchema ==
  [titles |-> mcTitled \union ({"description"} \X {"src-title-info"})
                \union ({"title-info", "src-title-info"} \X {"book-title"}),
   authors |-> mcTitled \union ({"title-info"} \X {"author"}) \union ({"author"} \X {"first-name", "last-name"}),
   people |-> mcTitled \union ({"title-info"} \X {"author", "translator"})
                \union ({"author", "translator"} \X {"first-name", "last-name"}),
   series |-> mcTitled \union ({"title-info", "sequence"} \X {"sequence"}),
   dates  |-> mcTitled \union ({"description"} \X {"document-info"}) \union ({"title-info", "document-info"} \X {"date"}),
   notice |-> mcTitled \union ({"description"} \X {"document-info"}) \union ({"title-info", "document-info"} \X {"annotation"})
                \union ({"annotation"} \X {"p", "cite"}) \union ({"cite"} \X {"p", "text-author"}) \union ({"p"} \X {"strong"}),
   cover  |-> mcTitled \union ({"title-info"} \X {"coverpage"})
                \union ({"coverpage"} \X {"image"}) \union ({"FictionBook"} \X {"binary"}),
   sample |-> mcBookRoot \union ({"FictionBook"} \X {"body", "binary"})]
mcVocabularies == DOMAIN mcSchema
mcInside(v, el) == {pair[2] : pair \in {p \in mcSchema[v] : p[1] = el}}
mcWrites(v, el) ==
  IF el \in {"book-title", "body"} THEN {"blank", "words"}
  ELSE IF el \in {"first-name", "last-name", "date", "p", "strong", "text-author", "binary"} THEN {"words"} ELSE {}
mcMaxMet(v) == IF v = "authors" THEN 9 ELSE IF v \in {"people", "notice", "cover"} THEN 7 ELSE IF v = "sample" THEN 5 ELSE 6
mcMaxWords(v) == IF v = "cover" THEN 1 ELSE IF v = "authors" THEN 4 ELSE IF v \in {"notice", "sample"} THEN 3 ELSE 2
mcMaxRest(v) == IF v = "sample" THEN 3 ELSE 0
mcPictured(v) == IF v = "cover" THEN {1, 2} ELSE {}
mcMaxLost(v) == IF v = "sample" THEN 2 ELSE 0
mcOnce == {"description", "title-info", "src-title-info", "document-info", "coverpage",
           "annotation", "first-name", "last-name"}

------------------------------------------------------------------------------
VARIABLE running   \* the step whose behaviour this is

AnyDoc  == CHOOSE d \in mcDocs : TRUE
AnyBook == CHOOSE b \in mcBooks : b.body # <<>>
AnyFile == vocabulary = "titles" /\ MetaInit

Init ==
    \/ running = "portions" /\ book = AnyBook /\ EpubInit /\ TextInit /\ PackInit /\ AnyFile
    \/ running = "book text" /\ doc = AnyDoc /\ PackInit /\ book = AnyBook /\ EpubInit /\ TextInit /\ AnyFile
    \/ running = "epub" /\ doc = AnyDoc /\ PackInit /\ TextInit /\ EpubInit /\ AnyFile
    \/ running = "metadata" /\ doc = AnyDoc /\ PackInit /\ TextInit /\ book = AnyBook /\ EpubInit /\ MetaInit

Next ==
    /\ \/ running = "portions" /\ PackNext /\ UNCHANGED <<textVars, epubVars, metaVars>>
       \/ running = "book text" /\ TextNext /\ UNCHANGED <<packVars, epubVars, metaVars>>
       \/ running = "epub" /\ EpubNext /\ UNCHANGED <<packVars, textVars, metaVars>>
       \/ running = "metadata" /\ MetaNext /\ UNCHANGED <<packVars, textVars, epubVars>>
    /\ UNCHANGED running

Spec == Init /\ [][Next]_<<running, packVars, textVars, epubVars, metaVars>>
=============================================================================
