------------------------------ MODULE Metadata ------------------------------
(* What the catalogue learns of a book from its file (FB2Parser): handlers    *)
(* that each wait for the elements of one path, fed with the tokens of the    *)
(* decoder, and a second pass over the description alone when the decoder     *)
(* stops behind it.  Tokens are balanced, since the decoder supplies missing  *)
(* ends.  A piece of text is a number, 0 if it is blank; what an attribute    *)
(* says is the number of its element, but for pictures, which have ids.       *)
(* The parser is one that also reads the cover; spelling is left out, and so  *)
(* are genres and the language, which are read as the title is.               *)
EXTENDS Integers, SequencesExt

CONSTANTS
  Vocabularies,  \* parts of the FB2 schema to choose a file from
  Inside(_, _),  \* the elements a vocabulary has inside an element
  Writes(_, _),  \* what occurs directly inside it: "blank", "words", both or none
  Once,          \* what occurs once in the element around it, the description among it
  Pictured(_),   \* the ids of its pictures
  MaxMet(_),     \* bound: elements in a file
  MaxWords(_),   \* bound: pieces of text in a file
  MaxRest(_),    \* bound: tokens behind what the decoder reads
  MaxSample,     \* bodySampleLimit, in pieces of text
  MaxLost(_)     \* bound: tokens under the 14 bytes of an end of FictionBook

VARIABLES
  vocabulary, \* where the file is from
  tokens,     \* the file so far, each token with the elements around it
  opened,     \* the elements that are open, [el, n]
  met,        \* elements so far
  words,      \* pieces of text so far
  rest,       \* tokens so far behind what the decoder reads
  pass,       \* "first", "broken" behind what the decoder reads, "done", "refused"
  parser,     \* the FB2Parser, see NewFB2Parser
  bodySample, \* BodySample of the book
  lost        \* tokens overwritten before the sample was taken, -1 without a second pass

fileVars == <<vocabulary, tokens, opened, met, words, rest>>
metaVars == <<fileVars, pass, parser, bodySample, lost>>

------------------------------------------------------------------------------
(* Handlers. *)

InTitleInfo == <<"description", "title-info">>
InDocInfo   == <<"description", "document-info">>
Paths ==
  [title         |-> InTitleInfo \o <<"book-title">>,
   authorFirst   |-> InTitleInfo \o <<"author", "first-name">>,
   authorLast    |-> InTitleInfo \o <<"author", "last-name">>,
   series        |-> InTitleInfo \o <<"sequence">>,
   annotation    |-> InTitleInfo \o <<"annotation", "p">>,
   annotationRaw |-> InTitleInfo \o <<"annotation">>,
   annotationDoc |-> InDocInfo \o <<"annotation">>,
   docdate       |-> InDocInfo \o <<"date">>,
   coverName     |-> InTitleInfo \o <<"coverpage", "image">>]
Fields == DOMAIN Paths
Reached(f, at) == at = Len(Paths[f])

Idling == [at |-> 0, values |-> <<>>, attrs |-> <<>>, value |-> <<>>, busy |-> FALSE]

\* An element that is not the next of the path is passed over, and what is in it
\* is not; inside the last of the path every element leaves its attributes.
OpenTag(f, h, el, given) ==
  LET at == IF ~Reached(f, h.at) /\ Paths[f][h.at + 1] = el THEN h.at + 1 ELSE h.at
  IN  [h EXCEPT !.at = at, !.attrs = IF Reached(f, at) THEN Append(@, given) ELSE @]

CloseTag(f, h, el) ==
  IF h.at = 0 \/ Paths[f][h.at] # el THEN h
  ELSE IF h.busy
  THEN [h EXCEPT !.at = @ - 1, !.values = Append(@, h.value), !.value = <<>>, !.busy = FALSE]
  ELSE [h EXCEPT !.at = @ - 1]

Said(w) == IF w = 0 THEN <<>> ELSE <<w>>
SetValue(f, h, w) ==
  IF Reached(f, h.at) THEN [h EXCEPT !.value = @ \o Said(w), !.busy = TRUE] ELSE h

------------------------------------------------------------------------------
(* The parser: what a token does to it. *)

NewFB2Parser ==
  [handlers |-> [f \in Fields |-> Idling], inBody |-> FALSE, sample |-> <<>>,
   coverId |-> 0, inCover |-> FALSE, coverFound |-> FALSE, coverData |-> <<>>]

\* Mutant: the second pass begins with what the handlers have collected.
ResetFlags(p) ==
  [p EXCEPT !.inBody = FALSE, !.sample = <<>>, !.coverId = 0, !.inCover = FALSE,
            !.coverFound = FALSE, !.coverData = <<>>]

ResetParser(p) ==
  [p EXCEPT !.inBody = FALSE, !.sample = <<>>, !.coverId = 0, !.inCover = FALSE,
            !.coverFound = FALSE, !.coverData = <<>>, !.handlers = [f \in Fields |-> Idling]]

HandleStart(p, el, given) ==
  LET now == [f \in Fields |-> OpenTag(f, p.handlers[f], el, given)]
      id  == IF Reached("coverName", now["coverName"].at) /\ "href" \in DOMAIN given
             THEN given["href"] ELSE p.coverId
  IN  [p EXCEPT !.handlers = now, !.coverId = id, !.inBody = @ \/ el = "body",
                !.inCover = @ \/ (el = "binary" /\ id # 0 /\ "id" \in DOMAIN given /\ given["id"] = id)]

HandleEnd(p, el) ==
  [p EXCEPT !.handlers = [f \in Fields |-> CloseTag(f, @[f], el)], !.inBody = @ /\ el # "body",
            !.coverFound = @ \/ (el = "binary" /\ p.inCover), !.inCover = @ /\ el # "binary"]

HandleChar(p, w) ==
  [p EXCEPT !.handlers = [f \in Fields |-> SetValue(f, @[f], w)],
            !.sample = IF p.inBody /\ Len(@) < MaxSample THEN Append(@, w) ELSE @,
            !.coverData = IF p.inCover THEN @ \o Said(w) ELSE @]

Element(t) == Last(t.around).el
Handled(p, t) ==
  CASE t.type = "start" -> HandleStart(p, Element(t), t.given)
    [] t.type = "end"   -> HandleEnd(p, Element(t))
    [] t.type = "text"  -> HandleChar(p, t.word)

------------------------------------------------------------------------------
(* The file, and the first pass over it. *)

MetaInit ==
  /\ vocabulary \in Vocabularies
  /\ tokens = <<>> /\ opened = <<>> /\ met = 0 /\ words = 0 /\ rest = 0 /\ pass = "first"
  /\ parser = NewFB2Parser /\ bodySample = <<>> /\ lost = -1

Around == IF opened = <<>> THEN "" ELSE Last(opened).el

\* A file goes on where the decoder does not.
FeedToken(t) ==
  /\ pass = "first" \/ (pass = "broken" /\ rest < MaxRest(vocabulary))
  /\ tokens' = Append(tokens, t)
  /\ rest' = IF pass = "first" THEN rest ELSE rest + 1
  /\ parser' = IF pass = "first" THEN Handled(parser, t) ELSE parser
  /\ UNCHANGED <<vocabulary, pass, bodySample, lost>>

\* What an element may say of itself.
Sayings(el) ==
  LET some(names, S) == UNION {[said -> S] : said \in SUBSET names} IN
  CASE el = "sequence" -> some({"name", "number"}, {met + 1})
    [] el = "date"     -> some({"value"}, {met + 1})
    [] el = "image"    -> some({"href"}, Pictured(vocabulary))
    [] el = "binary"   -> some({"id"}, Pictured(vocabulary))
    [] OTHER           -> {<<>>}

ReadStart(el) ==
  /\ met < MaxMet(vocabulary) /\ el \in Inside(vocabulary, Around)
  /\ opened = <<>> => tokens = <<>>
  /\ el \in Once => \A t \in Range(tokens) : Element(t) = el => Front(t.around) # opened
  /\ LET now == Append(opened, [el |-> el, n |-> met + 1]) IN
       /\ \E given \in Sayings(el) : FeedToken([type |-> "start", given |-> given, word |-> 0, around |-> now])
       /\ opened' = now
  /\ met' = met + 1 /\ UNCHANGED words

ReadEnd ==
  /\ opened # <<>>
  /\ FeedToken([type |-> "end", given |-> <<>>, word |-> 0, around |-> opened])
  /\ opened' = Front(opened) /\ UNCHANGED <<met, words>>

ReadChars ==
  /\ words < MaxWords(vocabulary)
  /\ \E kind \in Writes(vocabulary, Around) :
       LET w == IF kind = "words" THEN words + 1 ELSE 0
       IN  FeedToken([type |-> "text", given |-> <<>>, word |-> w, around |-> opened])
  /\ words' = words + 1 /\ UNCHANGED <<opened, met>>

Ends(el)  == {i \in 1..Len(tokens) : tokens[i].type = "end" /\ Element(tokens[i]) = el}
Described == Ends("description") # {}
Earliest(S) == CHOOSE i \in S : \A j \in S : i <= j
DescriptionEnd == Earliest(Ends("description"))

\* The decoder cannot go on.
Break ==
  /\ pass = "first" /\ Described
  /\ pass' = "broken"
  /\ UNCHANGED <<fileVars, parser, bodySample, lost>>

\* The root is not FictionBook, there is none, or the decoder stops before the
\* description ends, where it would a second time; nothing is kept of the file.
RefuseFile ==
  /\ pass = "first" /\ ~Described
  /\ pass' = "refused"
  /\ tokens' = <<>> /\ opened' = <<>> /\ met' = 0 /\ words' = 0 /\ parser' = NewFB2Parser
  /\ UNCHANGED <<vocabulary, rest, bodySample, lost>>

------------------------------------------------------------------------------
(* The sample of the body, and the second pass. *)

WordsOf(pieces) == SelectSeq(pieces, LAMBDA w : w # 0)
TextIn(file) == LET texts == SelectSeq(file, LAMBDA t : t.type = "text")
                IN  WordsOf([k \in 1..Len(texts) |-> texts[k].word])
Cut(seq) == SubSeq(seq, 1, IF Len(seq) < MaxSample THEN Len(seq) ELSE MaxSample)

\* extractBodyTextFallback: what follows the first start of a body, to the next
\* end of one; if that is blank, what is between the description and a binary.
BodyTextFallback(file) ==
  LET starts(el)  == {i \in 1..Len(file) : file[i].type = "start" /\ Element(file[i]) = el}
      ends(el)    == {i \in 1..Len(file) : file[i].type = "end" /\ Element(file[i]) = el}
      upTo(i, S)  == LET after == {j \in S : j > i}
                     IN  TextIn(SubSeq(file, i + 1, IF after = {} THEN Len(file) ELSE Earliest(after)))
      inBody      == IF starts("body") = {} THEN <<>> ELSE upTo(Earliest(starts("body")), ends("body"))
  IN  IF inBody # <<>> THEN Cut(inBody)
      ELSE IF ends("description") = {} THEN <<>>
      ELSE Cut(upTo(Earliest(ends("description")), starts("binary")))

\* ensureBodySample
Sampled(p, file) == IF WordsOf(p.sample) # <<>> THEN WordsOf(p.sample) ELSE BodyTextFallback(file)

Finish ==
  /\ pass = "first" /\ tokens # <<>> /\ opened = <<>>
  /\ pass' = "done" /\ bodySample' = Sampled(parser, tokens)
  /\ UNCHANGED <<fileVars, parser, lost>>

\* trimAfterDescription, and the end of the root that it adds.
Trimmed ==
  Append(SubSeq(tokens, 1, DescriptionEnd),
         [tokens[DescriptionEnd] EXCEPT !.around = SubSeq(@, 1, 1)])

\* The end that is added is appended to a slice of the file itself: it replaces
\* the bytes behind the description, which the sample is then taken from.  They
\* are blanks, or the first n tokens; the last of these may keep its end, which is
\* no tag any more and reads as text: a piece of its text, or the end of a tag.
Debris == -1
Leftovers(n) ==
  IF n = 0 THEN {<<>>}
  ELSE LET hit == tokens[DescriptionEnd + n]
       IN  {<<>>, <<[hit EXCEPT !.type = "text", !.word = IF hit.type = "text" THEN @ ELSE Debris]>>}
Overwritten(n, left) ==
  SubSeq(tokens, 1, DescriptionEnd) \o left \o SubSeq(tokens, DescriptionEnd + n + 1, Len(tokens))

FinishAgain ==
  /\ pass = "broken" /\ pass' = "done"
  /\ parser' = FoldLeft(Handled, ResetParser(parser), Trimmed)
  /\ \E n \in 0..MaxLost(vocabulary) :
       /\ DescriptionEnd + n <= Len(tokens)
       /\ lost' = n
       /\ \E left \in Leftovers(n) : bodySample' = Sampled(parser', Overwritten(n, left))
  /\ UNCHANGED fileVars

MetaNext ==
  \/ \E el \in Inside(vocabulary, Around) : ReadStart(el)
  \/ ReadEnd \/ ReadChars \/ Break \/ RefuseFile \/ Finish \/ FinishAgain

------------------------------------------------------------------------------
(* The book. *)

Values(f) == parser.handlers[f].values
Joined(f) == FlattenSeq(Values(f))
FirstOf(seq, none) == IF seq = <<>> THEN none ELSE seq[1]
GetAttributes(f, attr) ==
  LET all == SelectSeq(parser.handlers[f].attrs, LAMBDA given : attr \in DOMAIN given)
  IN  [k \in 1..Len(all) |-> all[k][attr]]

BookTitle == FirstOf(Values("title"), <<>>)

\* First names and last names are counted apart.
BookAuthors ==
  LET firsts == Values("authorFirst")
      lasts  == Values("authorLast")
      most   == IF Len(firsts) > Len(lasts) THEN Len(firsts) ELSE Len(lasts)
      name(seq, i) == IF i <= Len(seq) THEN seq[i] ELSE <<>>
  IN  SelectSeq([i \in 1..most |-> [last |-> name(lasts, i), first |-> name(firsts, i)]],
                LAMBDA a : a.last # <<>> \/ a.first # <<>>)

NoSeries == [title |-> 0, index |-> 0]
BookSeries ==
  IF GetAttributes("series", "name") = <<>> THEN NoSeries
  ELSE [title |-> GetAttributes("series", "name")[1],
        index |-> FirstOf(GetAttributes("series", "number"), 0)]

BookAnnotation ==
  IF Joined("annotation") # <<>> THEN Joined("annotation")
  ELSE IF Joined("annotationRaw") # <<>> THEN Joined("annotationRaw")
  ELSE Joined("annotationDoc")

\* The attribute of the last date, or else the text of the first.
BookDate ==
  LET attrs == parser.handlers["docdate"].attrs
  IN  IF attrs # <<>> /\ "value" \in DOMAIN Last(attrs)
      THEN [attr |-> Last(attrs)["value"], text |-> <<>>]
      ELSE [attr |-> 0, text |-> FirstOf(Values("docdate"), <<>>)]

BookCover == IF parser.coverFound THEN parser.coverData ELSE <<>>

------------------------------------------------------------------------------
(* What must be learned: told from the file as a tree, not from tokens. *)

\* What a pass that came to an end has read.
Known == IF lost = -1 THEN tokens ELSE SubSeq(tokens, 1, DescriptionEnd)
PathTo(t) == [k \in 1..Len(t.around) |-> t.around[k].el]
Rooted(path) == <<"FictionBook">> \o path
Elements(path) == SelectSeq(Known, LAMBDA t : t.type = "start" /\ PathTo(t) = Rooted(path))
Below(n) == SelectSeq(Known, LAMBDA t : \E k \in 1..Len(t.around) : t.around[k].n = n)
Number(t) == Last(t.around).n
TextOf(t) == TextIn(Below(Number(t)))
\* What is written, blank or not, directly in an element.
Spoken(t) == \E i \in 1..Len(Known) : Known[i].type = "text" /\ Known[i].around = t.around
TextUnder(path) == TextIn(SelectSeq(Known, LAMBDA t : IsPrefix(Rooted(path), PathTo(t))))
Flat(seq, Of(_)) == FlattenSeq([k \in 1..Len(seq) |-> Of(seq[k])])

\* The title is that of the book, never of the original it is translated from:
\* the first that has any text.
TitleRight ==
  BookTitle = FirstOf(Flat(SelectSeq(Elements(Paths["title"]), Spoken), LAMBDA t : <<TextOf(t)>>), <<>>)

\* Every name of an author is in the list and no translator's is.  Each first
\* name stands with its own last name if every author has one of both; if one
\* is missing, those of the authors behind move up, which the code allows.
AuthorsRight ==
  LET authors == Elements(InTitleInfo \o <<"author">>)
      names(t, which) == SelectSeq(Elements(Paths[which]), LAMBDA e : e.around[4].n = Number(t) /\ Spoken(e))
      whole == \A k \in 1..Len(authors) : \A which \in {"authorFirst", "authorLast"} :
                 Len(names(authors[k], which)) = 1
      pair(t) == [last |-> TextOf(names(t, "authorLast")[1]), first |-> TextOf(names(t, "authorFirst")[1])]
  IN  /\ Flat(BookAuthors, LAMBDA a : a.last) = Flat(Elements(Paths["authorLast"]), TextOf)
      /\ Flat(BookAuthors, LAMBDA a : a.first) = Flat(Elements(Paths["authorFirst"]), TextOf)
      /\ whole => BookAuthors = SelectSeq([k \in 1..Len(authors) |-> pair(authors[k])],
                                          LAMBDA a : a.last # <<>> \/ a.first # <<>>)

\* The series is the first with a name, nested ones included, and has its own
\* number if all series of the book have one, or none has; else it may get
\* another's, which the code allows.
SeriesRight ==
  LET all   == SelectSeq(Known, LAMBDA t : /\ t.type = "start" /\ Element(t) = "sequence"
                                           /\ IsPrefix(Rooted(InTitleInfo), PathTo(t)))
      named == SelectSeq(all, LAMBDA t : "name" \in DOMAIN t.given)
      alike == \A i, j \in 1..Len(all) : DOMAIN all[i].given = DOMAIN all[j].given
  IN  /\ BookSeries.title = IF named = <<>> THEN 0 ELSE Number(named[1])
      /\ alike => BookSeries.index \in {0, BookSeries.title}
      /\ (alike /\ named # <<>>) => (BookSeries.index = 0 <=> "number" \notin DOMAIN named[1].given)

\* The annotation is that of the book: its paragraphs, wherever they stand in
\* it and whatever is marked in them, or else all of its text; only a book
\* without one gets that of the file.
AnnotationRight ==
  LET own == TextUnder(InTitleInfo \o <<"annotation">>)
      paragraphs == TextIn(SelectSeq(Known, LAMBDA t :
                      /\ IsPrefix(Rooted(InTitleInfo \o <<"annotation">>), PathTo(t))
                      /\ "p" \in Range(PathTo(t))))
  IN  BookAnnotation = IF paragraphs # <<>> THEN paragraphs
                       ELSE IF own # <<>> THEN own ELSE TextUnder(InDocInfo \o <<"annotation">>)

\* The date is the file's, never the book's: what the only date says of itself,
\* or else its text.
DateRight ==
  LET dates == Elements(Paths["docdate"])
  IN  Len(dates) = 1 =>
        BookDate = IF "value" \in DOMAIN dates[1].given THEN [attr |-> Number(dates[1]), text |-> <<>>]
                   ELSE [attr |-> 0, text |-> TextOf(dates[1])]

\* The cover is the picture that the last image of the cover page names: whole
\* when one binary behind it has that id, and never part of another picture.
\* Without such a binary, or when it is behind the end of a second pass, the book
\* has none.
CoverRight ==
  LET images == SelectSeq(Elements(Paths["coverName"]), LAMBDA t : "href" \in DOMAIN t.given)
      shown  == Last(images).given["href"]
      behind(t) == Number(t) > Number(Last(images))
      fits == SelectSeq(Known, LAMBDA t : /\ t.type = "start" /\ Element(t) = "binary" /\ behind(t)
                                          /\ "id" \in DOMAIN t.given /\ t.given["id"] = shown)
  IN  IF images = <<>> THEN BookCover = <<>>
      ELSE Len(fits) <= 1 => BookCover = Flat(fits, TextOf)

\* The sample is a run of the words of the bodies, no longer than the limit; in
\* a file with its parts in order it begins where they do and is empty only if
\* they have no words.  A second pass misses this, as the end it has added is
\* written over what follows the description: without the start of a body the
\* sample may begin later, or with what is left of a tag; without that of a binary
\* it may be part of a picture.
SampleRight ==
  LET all == TextIn(SelectSeq(tokens, LAMBDA t : "body" \in Range(PathTo(t))))
      starts(el) == {i \in 1..Len(tokens) : tokens[i].type = "start" /\ Element(tokens[i]) = el}
      ordered == /\ \A i \in starts("body") \union starts("binary") : DescriptionEnd < i
                 /\ \A i \in starts("body"), j \in starts("binary") : i < j
      spoiled == (DescriptionEnd + 1)..(DescriptionEnd + lost)
      sample == IF lost > 0 /\ bodySample # <<>> /\ bodySample[1] = Debris THEN Tail(bodySample) ELSE bodySample
  IN  /\ Len(bodySample) <= MaxSample
      /\ (lost < 1 \/ spoiled \intersect starts("binary") = {}) =>
           \E i \in 0..(Len(all) - Len(sample)) : sample = SubSeq(all, i + 1, i + Len(sample))
      /\ (lost < 1 /\ Described /\ ordered) =>
           IF all = <<>> THEN bodySample = <<>> ELSE bodySample # <<>> /\ bodySample[1] = all[1]

\* Together: the catalogue learns of a book what its file says, also when only
\* the description can be read, and then nothing twice.
MetadataFaithful ==
  pass = "done" =>
    /\ TitleRight /\ AuthorsRight /\ SeriesRight
    /\ AnnotationRight /\ DateRight /\ CoverRight /\ SampleRight
=============================================================================
