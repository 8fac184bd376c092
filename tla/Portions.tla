------------------------------ MODULE Portions ------------------------------
(* How a parsed book becomes the portions of its preview: the anchors the     *)
(* blocks get, the pictures that are prepared, the packing of the blocks into *)
(* portions within three ceilings of rendered bytes, and the rendering that   *)
(* has the last word.  One action is one unit of work of the build between    *)
(* two looks at its deadline (what a missed deadline does to a build is in    *)
(* module Preview).  Text is abstracted to its size, an id to its normalised  *)
(* key, markup to the bytes it adds.                                          *)
EXTENDS Integers, FiniteSets, SequencesExt

CONSTANTS
  Docs,          \* the documents a build may be given, see DocOK
  MaxChunk,      \* PreviewPolicy.MaxChunkBytes: where packing stops
  MaxPortion,    \* PreviewPolicy.MaxPortionBytes: what no portion exceeds
  MaxTotal,      \* PreviewPolicy.MaxTotalBytes: what no book exceeds
  MaxPictures,   \* limits.MaxPreparedImageBytes
  MaxPicture,    \* PreviewImagePolicy.MaxBytes
  MaxSide,       \* PreviewImagePolicy.MaxSide, and MaxPixels with it
  AnchorBytes,   \* <a id="..."></a>
  BlockLink,     \* what a link to a block adds to its text
  NoteLink(_),   \* what a link to a note of the portion with this index adds
  NoteBox(_),    \* the element around a note, with the note's own anchor
  Synthetic(_)   \* the n-th anchor the book did not supply

\* A document in reading order: items are section headings and paragraphs, an
\* id is "" where the book gives none or nothing usable, links are the keys
\* their fragments name; notes come from the notes body; a binary is a picture
\* with its prepared size, its place in the order of the ids and whether image
\* policy admits it.
Listed(seq) == seq \in Seq(Range(seq))
TextOK(text) == text.size \in Nat /\ Listed(text.links)
DocOK(doc) ==
  /\ Listed(doc.items) /\ Listed(doc.notes) /\ IsFiniteSet(DOMAIN doc.binaries)
  /\ \A k \in 1..Len(doc.items) :
       /\ TextOK(doc.items[k]) /\ doc.items[k].heading \in BOOLEAN
       /\ doc.items[k].heading => doc.items[k].links = <<>> /\ doc.items[k].pictures = {}
  /\ \A k \in 1..Len(doc.notes) : TextOK(doc.notes[k])
  /\ \A b, c \in DOMAIN doc.binaries :
       /\ {doc.binaries[b].source, doc.binaries[b].size, doc.binaries[b].side, doc.binaries[b].rank} \subseteq Nat
       /\ doc.binaries[b].format \in {"raster", "svg", "none"} /\ doc.binaries[b].decodes \in BOOLEAN
       /\ doc.binaries[b].rank = doc.binaries[c].rank => b = c

\* For a book of this length: a link to a note is longer than one to a block,
\* and no two invented anchors are alike.
FormsOK(length) ==
  /\ \A i \in 0..length : NoteBox(i) \in Nat /\ NoteLink(i) \in Nat /\ BlockLink <= NoteLink(i)
  /\ \A m, n \in 0..(4 * length) : Synthetic(n) # "" /\ (Synthetic(m) = Synthetic(n) => m = n)

ASSUME PolicyAssumption ==
  /\ MaxChunk \in Nat \ {0} /\ MaxPortion \in Nat /\ MaxTotal \in Nat
  /\ MaxChunk <= MaxPortion /\ MaxPortion <= MaxTotal
  /\ AnchorBytes \in Nat /\ BlockLink \in Nat
ASSUME DocsAssumption == \A doc \in Docs : DocOK(doc)
ASSUME FormsAssumption == \A length \in {Len(doc.items) : doc \in Docs} : FormsOK(length)

VARIABLES
  doc,        \* the document
  phase,      \* "pictures", "pack", "render", "done"
  blocks,     \* the blocks of the document with their anchors
  next,       \* the unit of work the phase is at
  prepared,   \* the pictures prepared so far, in the order of their ordinals
  refusals,   \* the binaries that were refused, [id, why]
  portions,   \* the portions that are closed
  cur,        \* the portion being filled
  curSize,    \* its size by the estimates
  total,      \* the running total of the packing, then of the rendering
  outcome     \* "none", "built" or the refusal

packVars == <<doc, phase, blocks, next, prepared, refusals, portions, cur, curSize, total, outcome>>

------------------------------------------------------------------------------
(* Anchors. *)

BookIds(d) == {d.items[k].id : k \in 1..Len(d.items)} \ {""}

\* The next anchor nobody holds, from the counter on.
Unused(taken, seq) ==
  CHOOSE n \in seq..(seq + Cardinality(taken)) :
     /\ Synthetic(n) \notin taken
     /\ \A k \in seq..(n - 1) : Synthetic(k) \in taken

\* The first block with an id gets the anchor that spells it; a repetition, and
\* a heading without an id, get one that no id of the whole book spells.
Anchored(acc, item) ==
  LET owns == item.id # "" /\ item.id \notin acc.used
      invented == ~owns /\ (item.id # "" \/ item.heading)
      n == Unused(acc.taken, acc.seq)
      anchor == IF owns THEN item.id ELSE IF invented THEN Synthetic(n) ELSE ""
  IN  [blocks |-> Append(acc.blocks, [item |-> item, anchor |-> anchor, owns |-> owns]),
       used   |-> IF owns THEN acc.used \union {item.id} ELSE acc.used,
       taken  |-> IF invented THEN acc.taken \union {anchor} ELSE acc.taken,
       seq    |-> IF invented THEN n + 1 ELSE acc.seq]

Flatten(d) ==
  LET walk[k \in 0..Len(d.items)] ==
        IF k = 0 THEN [blocks |-> <<>>, used |-> {}, taken |-> BookIds(d), seq |-> 0]
        ELSE Anchored(walk[k - 1], d.items[k])
  IN  walk[Len(d.items)].blocks
------------------------------------------------------------------------------
(* Notes: of two notes with one key the first is the one. *)

NoteKeys(d) == {d.notes[k].id : k \in 1..Len(d.notes)} \ {""}
Note(d, key) == d.notes[CHOOSE k \in 1..Len(d.notes) :
                          d.notes[k].id = key /\ \A j \in 1..(k - 1) : d.notes[j].id # key]
Cited(item, keys) == Range(item.links) \intersect keys
------------------------------------------------------------------------------
(* Rendering. A link survives when its key names a note of the portion or a   *)
(* block of the portion that owns the id; the text stays in any case.         *)

LinkBytes(links, here, owned, index) ==
  SumFunction([k \in 1..Len(links) |->
         IF links[k] \in here THEN NoteLink(index)
         ELSE IF links[k] \in owned THEN BlockLink ELSE 0])

BlockBytes(block, here, owned, index) ==
  (IF block.anchor = "" THEN 0 ELSE AnchorBytes)
    + block.item.size + LinkBytes(block.item.links, here, owned, index)

NoteBytes(note, here, owned, index) ==
  NoteBox(index) + note.size + LinkBytes(note.links, here, owned, index)

Owned(portion) == {portion.blocks[k].item.id : k \in {j \in 1..Len(portion.blocks) : portion.blocks[j].owns}}

\* The notes of a portion that its blocks cite, each rendered once, after the
\* first block that cites it.
Expanded(portion) ==
  UNION {Cited(portion.blocks[k].item, portion.notes) : k \in 1..Len(portion.blocks)}

\* RenderChunkHTML, before its ceilings.
Rendered(d, portion) ==
  LET own == Owned(portion) IN
  SumFunction([k \in 1..Len(portion.blocks) |-> BlockBytes(portion.blocks[k], portion.notes, own, portion.index)])
    + SumFunction([key \in Expanded(portion) |-> NoteBytes(Note(d, key), portion.notes, own, portion.index)])

Overflows(d, portion) == Rendered(d, portion) > MaxChunk /\ Len(portion.blocks) > 1
Bytes(d, ps) == SumFunction([k \in 1..Len(ps) |-> Rendered(d, ps[k])])
------------------------------------------------------------------------------
(* Pictures. *)

\* What the body refers to, and the notes the body cites.
UsedBinaries(d) ==
  LET cited == UNION {Cited(d.items[k], NoteKeys(d)) : k \in 1..Len(d.items)}
      inBody == UNION {d.items[k].pictures : k \in 1..Len(d.items)}
      inNotes == UNION {Note(d, key).pictures : key \in cited}
  IN  (inBody \union inNotes) \intersect DOMAIN d.binaries

PackInit ==
  /\ doc \in Docs
  /\ phase = "pictures" /\ blocks = <<>> /\ next = 1 /\ prepared = <<>> /\ refusals = {}
  /\ portions = <<>> /\ cur = [index |-> 0, blocks |-> <<>>, notes |-> {}]
  /\ curSize = 0 /\ total = 0 /\ outcome = "none"

Refuse(why) ==
  /\ phase' = "done" /\ outcome' = why
  /\ UNCHANGED <<doc, blocks, next, prepared, refusals, portions, cur, curSize, total>>

\* PreparePreviewImage: the first reason not to serve a binary, or "none".
RefusalOf(b) ==
  IF b.source > MaxPicture THEN "too large"
  ELSE IF b.source = 0 \/ b.format # "raster" THEN "unsupported"
  ELSE IF ~b.decodes THEN "corrupt"
  ELSE IF b.side > MaxSide THEN "dimensions"
  ELSE IF b.size > MaxPicture THEN "too large as served" ELSE "none"

\* BuildPreviewImages: one binary, in the order of the ids. What would be
\* served counts towards the budget of the book.
PreparePicture ==
  /\ phase = "pictures" /\ next <= Cardinality(UsedBinaries(doc))
  /\ LET rank(b) == doc.binaries[b].rank
         id == CHOOSE b \in UsedBinaries(doc) :
                 Cardinality({c \in UsedBinaries(doc) : rank(c) < rank(b)}) = next - 1
         why == RefusalOf(doc.binaries[id])
         sum == SumFunction([k \in 1..Len(prepared) |-> doc.binaries[prepared[k]].size])
     IN  IF why = "none" /\ sum + doc.binaries[id].size > MaxPictures
         THEN Refuse("pictures too large")
         ELSE /\ IF why = "none" THEN prepared' = Append(prepared, id) /\ UNCHANGED refusals
                 ELSE refusals' = refusals \union {[id |-> id, why |-> why]} /\ UNCHANGED prepared
              /\ next' = next + 1
              /\ UNCHANGED <<doc, phase, blocks, portions, cur, curSize, total, outcome>>

\* The binaries are done: ChunkPreview walks the document.
StartPacking ==
  /\ phase = "pictures" /\ next > Cardinality(UsedBinaries(doc))
  /\ blocks' = Flatten(doc) /\ phase' = "pack" /\ next' = 1
  /\ UNCHANGED <<doc, prepared, refusals, portions, cur, curSize, total, outcome>>
------------------------------------------------------------------------------
(* Packing. *)

\* The draft takes every link to resolve in its longest form, in a portion
\* with this index.
Draft(d, block, pulled, index) ==
  LET all == NoteKeys(d)
      own == Range(block.item.links) \union UNION {Range(Note(d, key).links) : key \in pulled}
  IN  BlockBytes(block, all, own, index)
        + SumFunction([key \in pulled |-> NoteBytes(Note(d, key), all, own, index)])

CostDrafted(d, block, notes, index) == Draft(d, block, Cited(block.item, NoteKeys(d)) \ notes, index)
\* What the block costs in a portion with these notes: the draft, unless it is
\* over the hard ceiling; then the block rendered alone.
Cost(d, block, notes, index) ==
  LET pulled == Cited(block.item, NoteKeys(d)) \ notes
      draft == Draft(d, block, pulled, index)
  IN  IF draft <= MaxPortion THEN draft
      ELSE Rendered(d, [index |-> index, blocks |-> <<block>>, notes |-> pulled])

Placed(d, portion, block) ==
  [index  |-> portion.index,
   blocks |-> Append(portion.blocks, block),
   notes  |-> portion.notes \union Cited(block.item, NoteKeys(d))]

\* The block goes into portion p, whose estimated size is size; closed are the
\* portions before it.
Place(block, p, size, closed) ==
  LET cost == Cost(doc, block, p.notes, p.index)
      filled == Placed(doc, p, block)
      measured == Bytes(doc, closed) + Rendered(doc, filled)
      over == total + cost > MaxTotal
      failed == over /\ (Overflows(doc, filled) \/ \E k \in 1..Len(closed) : Overflows(doc, closed[k]))
  IN  IF cost > MaxPortion THEN Refuse("block too large")
      ELSE IF failed THEN Refuse("overflow")
      ELSE IF over /\ measured > MaxTotal THEN Refuse("book too large")
      ELSE /\ portions' = closed /\ cur' = filled /\ curSize' = size + cost
           /\ total' = IF over THEN measured ELSE total + cost
           /\ next' = next + 1
           /\ UNCHANGED <<doc, phase, blocks, prepared, refusals, outcome>>

\* The portion after the current one.
Fresh == [index |-> cur.index + 1, blocks |-> <<>>, notes |-> {}]

\* One block of ChunkPreview.
PackBlock ==
  /\ phase = "pack" /\ next <= Len(blocks)
  /\ LET block == blocks[next]
         cost == Cost(doc, block, cur.notes, cur.index)
     IN  IF cost > MaxPortion THEN Refuse("block too large")
         ELSE IF curSize + cost > MaxChunk /\ cur.blocks # <<>>
         THEN Place(block, Fresh, 0, Append(portions, cur))
         ELSE Place(block, cur, curSize, portions)

FinishPackingUnflushed ==
  /\ phase = "pack" /\ next > Len(blocks)
  /\ phase' = "render" /\ next' = 1 /\ total' = 0
  /\ UNCHANGED <<doc, blocks, prepared, refusals, portions, cur, curSize, outcome>>
FinishPacking ==
  /\ phase = "pack" /\ next > Len(blocks)
  /\ portions' = Append(portions, cur) /\ phase' = "render" /\ next' = 1 /\ total' = 0
  /\ UNCHANGED <<doc, blocks, prepared, refusals, cur, curSize, outcome>>

\* One portion rendered for the cache, with the ceilings of RenderChunkHTML and
\* the total of the bytes that exist.
RenderPortion ==
  /\ phase = "render" /\ next <= Len(portions)
  /\ LET bytes == Rendered(doc, portions[next]) IN
     IF Overflows(doc, portions[next]) THEN Refuse("overflow")
     ELSE IF bytes > MaxPortion THEN Refuse("block too large")
     ELSE IF total + bytes > MaxTotal THEN Refuse("book too large")
     ELSE /\ total' = total + bytes /\ next' = next + 1
          /\ UNCHANGED <<doc, phase, blocks, prepared, refusals, portions, cur, curSize, outcome>>

\* Every portion is rendered: the build goes on to write them (module Preview).
Publish ==
  /\ phase = "render" /\ next > Len(portions)
  /\ phase' = "done" /\ outcome' = "built"
  /\ UNCHANGED <<doc, blocks, next, prepared, refusals, portions, cur, curSize, total>>

PackNext == PreparePicture \/ StartPacking \/ PackBlock \/ FinishPacking \/ RenderPortion \/ Publish
PackSpec == PackInit /\ [][PackNext]_packVars
------------------------------------------------------------------------------
(* What the build must get right. *)

All == IF phase = "pack" THEN Append(portions, cur) ELSE portions

\* Every heading can be reached from the table of contents and no two blocks
\* of the book share an anchor, whatever ids the book repeats or imitates.
AnchorsUnique ==
  \A j, k \in 1..Len(blocks) :
    /\ blocks[j].item.heading => blocks[j].anchor # ""
    /\ j # k /\ blocks[j].anchor # "" => blocks[j].anchor # blocks[k].anchor

\* No portion boundary drops a block, doubles one or changes the order.
OnceInOrder ==
  phase \in {"pack", "render"} =>
    FlattenSeq([k \in 1..Len(All) |-> All[k].blocks])
      = SubSeq(blocks, 1, IF phase = "pack" THEN next - 1 ELSE Len(blocks))

\* A note is in every portion that cites it and in no other, so that a link to
\* it lands, and it is expanded there.
NotesTravel ==
  \A k \in 1..Len(All) :
    All[k].notes = UNION {Cited(All[k].blocks[j].item, NoteKeys(doc)) : j \in 1..Len(All[k].blocks)}

\* A block with the notes it cites in a portion of its own.
Alone(d, block, index) == [index |-> index, blocks |-> <<block>>, notes |-> Cited(block.item, NoteKeys(d))]
\* Some block is too large by its draft, so that it was measured alone.
Measured ==
  \E k \in 1..Len(blocks), i \in 0..Len(blocks) :
    Draft(doc, blocks[k], Cited(blocks[k].item, NoteKeys(doc)), i) > MaxPortion
\* The portions with the block that came next, in the current one or a new one.
Offered ==
  IF phase = "done" /\ next \in 1..Len(blocks)
  THEN {Append(portions, Placed(doc, cur, blocks[next])),
        Append(Append(portions, cur), Placed(doc, Fresh, blocks[next]))}
  ELSE {}

\* The reader is told that a book cannot be shown only when what it renders to
\* really is over the ceiling; and a portion of several blocks comes out over
\* the packing ceiling only in a book with a block whose cost was measured
\* alone instead of drafted (links of such a block that find their target in
\* the portion were not counted).
RefusedRightly ==
  /\ outcome = "block too large" =>
       \E k \in 1..Len(blocks), i \in 0..Len(blocks) : Rendered(doc, Alone(doc, blocks[k], i)) > MaxPortion
  /\ outcome = "book too large" => \E ps \in {portions} \union Offered : Bytes(doc, ps) > MaxTotal
  /\ outcome = "overflow" => Measured

\* The pictures of the blocks and of the notes expanded after them.
Shown(d, ps) ==
  UNION {(UNION {ps[k].blocks[j].item.pictures : j \in 1..Len(ps[k].blocks)})
           \union (UNION {Note(d, key).pictures : key \in Expanded(ps[k])}) : k \in 1..Len(ps)}
\* Every picture the portions show was prepared or refused, and nothing else
\* was looked at.
PicturesShown ==
  phase = "render" =>
    Range(prepared) \union {r.id : r \in refusals} = Shown(doc, All) \intersect DOMAIN doc.binaries

\* Together: whoever opens the portions one after another sees what the book
\* has, once and in its order, every link to a block has one target, and no book
\* is refused that fits.
PreviewFaithful == AnchorsUnique /\ OnceInOrder /\ NotesTravel /\ PicturesShown /\ RefusedRightly
=============================================================================
