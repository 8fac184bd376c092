------------------------ MODULE ConvertedFilesProofs ------------------------
(***************************************************************************)
(* Theorems about ConvertedFiles for any number of books, conversions,     *)
(* downloads and blocks; then, from "Sequences of sequences" on, about     *)
(* Epub for every set of documents that DocumentsAssumption allows, of any *)
(* length, with any number of notes, links and pictures.                   *)
(***************************************************************************)
EXTENDS ConvertedFiles, Epub, SequenceTheorems, FiniteSetTheorems, WellFoundedInduction, TLAPS

\* The conversion that truncated file f last, or one that has written as much
\* since: it has written all it has come to, and the file is whole when it is
\* done, or given up with it.
Wrote(v, f) ==
    /\ conv[v].file = f
    /\ 1..conv[v].pos \subseteq data[f]
    /\ \/ conv[v].at = "copy"
       \/ conv[v].at = "done" /\ conv[v].pos = Size
       \/ conv[v].at = "failed" /\ f \in spoilt

Named == \A b \in Books : dir[b] # NoFile =>
    /\ \E v \in Convs : Wrote(v, dir[b])
    /\ conv[dir[b]].book = b /\ conv[dir[b]].at \in {"copy", "done", "failed"}

\* A download nobody disturbs reads a whole file.
Sound(d) ==
    /\ load[d].at = "body" => load[d].whole /\ data[load[d].file] = Blocks
    /\ load[d].at = "remove" /\ load[d].size > 0 => load[d].whole
Reading == \A d \in Loads : d \notin shared => Sound(d)

\* Nobody is about to remove what is ready.
Safe(v) == LET b == conv[v].book IN
    /\ conv[v].at \in {"copy", "done", "failed"} /\ conv[v].format \in {"mobi", "epub"}
    /\ IF conv[v].format = "epub" THEN epub[b] # NoFile /\ Asking(b, Epub) = {}
       ELSE /\ dir[b] # NoFile /\ dir[b] \notin old
            /\ Asking(b, Mobi) = {} /\ sweeping # b
Ready == \A v \in calm : Safe(v)

\* Who is at work knows the book, and the file once it is open.
InHand ==
    /\ \A v \in Convs : /\ conv[v].at # "idle" => conv[v].book \in Books
                        /\ conv[v].at = "copy" => conv[v].file \in Convs
    /\ \A d \in Loads : /\ load[d].at # "idle" => load[d].book \in Books
                        /\ load[d].at = "body" => load[d].file \in Convs
Types == TypeOK /\ InHand

IInv == Types /\ Named /\ Reading /\ Ready

------------------------------------------------------------------------------
(* Types.                                                                  *)

LEMMA InitInv == ASSUME Init PROVE IInv
<1>1. TypeOK
  BY ConvertedFilesAssumption DEF Init, TypeOK, Unused, Conv, NoLoad, Load, Blocks
<1>2. InHand /\ Named /\ Reading /\ Ready
  BY DEF Init, InHand, Named, Reading, Sound, Ready, Unused, Conv, NoLoad, Load
<1>3. QED
  BY <1>1, <1>2 DEF IInv, Types

LEMMA ConvTypes ==
    ASSUME Types, NEW v \in Convs,
           \/ \E b \in Books, f \in {"mobi", "epub"} : Request(v, b, f)
           \/ ConvertFails(v) \/ ConvertMobi(v) \/ ConvertEpub(v)
           \/ Create(v) \/ CreateFails(v) \/ Copy(v) \/ CopyFails(v)
    PROVE  Types'
<1> USE ConvertedFilesAssumption DEF Types, TypeOK, InHand
<1>1. CASE \E b \in Books, f \in {"mobi", "epub"} : Request(v, b, f)
  BY <1>1 DEF Request, Conv, fileVars, noteVars
<1>2. CASE ConvertFails(v)
  BY <1>2 DEF ConvertFails, At, fileVars, noteVars
<1>3. CASE ConvertMobi(v)
  BY <1>3 DEF ConvertMobi, At, fileVars, noteVars
<1>4. CASE ConvertEpub(v)
  BY <1>4 DEF ConvertEpub, At
<1>5. CASE Create(v)
  <2>1. conv[v].book \in Books
    BY <1>5 DEF Create
  <2>2. PICK f \in Convs : f = IF dir[conv[v].book] = NoFile THEN v ELSE dir[conv[v].book]
    BY <2>1
  <2>3. /\ conv' = [conv EXCEPT ![v] = Conv("copy", conv[v].book, "mobi", f, 0)]
        /\ dir' = [dir EXCEPT ![conv[v].book] = f]
        /\ data' = [data EXCEPT ![f] = {}]
        /\ old' \subseteq old /\ spoilt' \subseteq spoilt
        /\ shared' \subseteq Loads /\ calm' \subseteq calm \cup {v}
        /\ UNCHANGED <<epub, load, sweeping>>
    BY <1>5, <2>1, <2>2 DEF Create
  <2>4. QED
    BY <2>1, <2>3 DEF Conv
<1>6. CASE CreateFails(v)
  BY <1>6 DEF CreateFails, At, fileVars, noteVars
<1>7. CASE Copy(v)
  <2>1. CASE conv[v].pos < Size
    <3>1. conv[v].pos + 1 \in Blocks /\ conv[v].pos + 1 \in 0..Size /\ conv[v].file \in Convs
      BY <1>7, <2>1 DEF Copy, Blocks
    <3>2. /\ data' = [data EXCEPT ![conv[v].file] = data[conv[v].file] \cup {conv[v].pos + 1}]
          /\ conv' = [conv EXCEPT ![v].pos = conv[v].pos + 1]
          /\ old' \subseteq old
          /\ UNCHANGED <<dir, epub, load, sweeping, noteVars>>
      BY <1>7, <2>1 DEF Copy
    <3>3. conv' \in [Convs -> [at : {"idle", "convert", "create", "copy", "done", "failed"},
                               book : Books \cup {NoBook}, format : {"none", "mobi", "epub"},
                               file : Convs \cup {NoFile}, pos : 0..Size]]
      BY <3>1, <3>2
    <3>4. data' \in [Convs -> SUBSET Blocks]
      BY <3>1, <3>2
    <3>5. QED
      BY <3>2, <3>3, <3>4 DEF noteVars
  <2>2. CASE ~(conv[v].pos < Size)
    BY <1>7, <2>2 DEF Copy, At, noteVars
  <2>3. QED
    BY <2>1, <2>2
<1>8. CASE CopyFails(v)
  BY <1>8 DEF CopyFails, At, fileVars
<1>9. QED
  BY <1>1, <1>2, <1>3, <1>4, <1>5, <1>6, <1>7, <1>8

LEMMA LoadTypes ==
    ASSUME Types, NEW d \in Loads,
           \/ \E b \in Books : Ask(d, b) \/ AskEpub(d, b)
           \/ Open(d) \/ NoBookRow(d) \/ SendBlock(d) \/ Sent(d) \/ DeleteFile(d) \/ DropEpub(d)
    PROVE  Types'
<1> USE ConvertedFilesAssumption DEF Types, TypeOK, InHand, Load
<1>1. CASE \E b \in Books : Ask(d, b)
  BY <1>1 DEF Ask, Calm, fileVars
<1>2. CASE \E b \in Books : AskEpub(d, b)
  BY <1>2 DEF AskEpub, Calm, fileVars
<1>3. CASE Open(d)
  <2>1. load[d].book \in Books
    BY <1>3 DEF Open
  <2>2. CASE dir[load[d].book] = NoFile
    <3>1. /\ load' = [load EXCEPT ![d] = Load("remove", load[d].book, NoFile, 0, 0, FALSE)]
          /\ UNCHANGED <<conv, fileVars, sweeping, spoilt, calm, shared>>
      BY <1>3, <2>2 DEF Open
    <3>2. QED
      BY <2>1, <3>1 DEF fileVars
  <2>3. CASE dir[load[d].book] # NoFile
    <3>1. PICK f \in Convs : f = dir[load[d].book]
      BY <2>1, <2>3
    <3>2. SizeOf(f) \subseteq 0..Size
      BY DEF SizeOf, Blocks
    <3>3. PICK n \in 0..Size :
            load' = [load EXCEPT ![d] = Load("body", load[d].book, f, n, 0, n = Size)]
      BY <1>3, <2>3, <3>1, <3>2 DEF Open
    <3>4. /\ shared' \subseteq Loads
          /\ UNCHANGED <<conv, fileVars, sweeping, spoilt, calm>>
      BY <1>3 DEF Open
    <3>5. QED
      BY <2>1, <3>1, <3>3, <3>4 DEF fileVars
  <2>4. QED
    BY <2>2, <2>3
<1>4. CASE NoBookRow(d)
  BY <1>4 DEF NoBookRow, NoLoad, fileVars, noteVars
<1>5. CASE SendBlock(d)
  BY <1>5 DEF SendBlock, fileVars, noteVars
<1>6. CASE Sent(d)
  BY <1>6 DEF Sent, fileVars, noteVars
<1>7. CASE DeleteFile(d)
  BY <1>7 DEF DeleteFile, NoLoad
<1>8. CASE DropEpub(d)
  BY <1>8 DEF DropEpub, NoLoad, noteVars
<1>9. QED
  BY <1>1, <1>2, <1>3, <1>4, <1>5, <1>6, <1>7, <1>8

LEMMA SweepTypes ==
    ASSUME Types, (\E b \in Books : Age(b) \/ SweepSees(b)) \/ SweepRemoves
    PROVE  Types'
<1> USE DEF Types, TypeOK, InHand
<1>1. CASE \E b \in Books : Age(b)
  BY <1>1 DEF Age, Calm
<1>2. CASE \E b \in Books : SweepSees(b)
  BY <1>2 DEF SweepSees, fileVars, noteVars
<1>3. CASE SweepRemoves
  BY <1>3 DEF SweepRemoves, noteVars
<1>4. QED
  BY <1>1, <1>2, <1>3

------------------------------------------------------------------------------
(* Conversions.                                                            *)

\* A conversion without a file of its own yet moves, and nothing else does.
LEMMA EarlyInv ==
    ASSUME IInv, Types', NEW v \in Convs, conv[v].at \in {"idle", "convert", "create"},
           \A u \in Convs \ {v} : conv'[u] = conv[u],
           UNCHANGED <<fileVars, load, sweeping, noteVars>>
    PROVE  IInv'
<1>1. Named'
  <2> SUFFICES ASSUME NEW b \in Books, dir[b] # NoFile
               PROVE  /\ \E u \in Convs : Wrote(u, dir[b])'
                      /\ conv'[dir[b]].book = b
                      /\ conv'[dir[b]].at \in {"copy", "done", "failed"}
    BY DEF Named, fileVars
  <2>1. PICK u \in Convs : Wrote(u, dir[b])
    BY DEF IInv, Named
  <2>2. u # v /\ Wrote(u, dir[b])'
    BY <2>1 DEF Wrote, fileVars, noteVars
  <2>3. dir[b] \in Convs \ {v}
    BY DEF IInv, Types, TypeOK, Named
  <2>4. QED
    BY <2>2, <2>3 DEF IInv, Named
<1>2. Reading'
  BY DEF IInv, Reading, Sound, fileVars, noteVars
<1>3. Ready'
  <2> SUFFICES ASSUME NEW u \in calm PROVE Safe(u)'
    BY DEF Ready, noteVars
  <2>1. Safe(u) /\ u \in Convs
    BY DEF IInv, Ready, Types, TypeOK
  <2>2. conv'[u] = conv[u]
    BY <2>1 DEF Safe
  <2>3. QED
    BY <2>1, <2>2 DEF Safe, Asking, fileVars
<1>4. QED
  BY <1>1, <1>2, <1>3 DEF IInv

LEMMA ConvertEpubInv == ASSUME IInv, NEW v \in Convs, ConvertEpub(v) PROVE IInv'
<1>1. /\ conv[v].at = "convert" /\ conv[v].format = "epub"
      /\ conv' = [conv EXCEPT ![v].at = "done"]
      /\ epub' = [epub EXCEPT ![conv[v].book] = v]
      /\ calm' = IF Asking(conv[v].book, Epub) = {} THEN calm \cup {v} ELSE calm
      /\ UNCHANGED <<dir, data, old, load, sweeping, spoilt, shared>>
  BY DEF ConvertEpub, At
<1>2. /\ \A u \in Convs \ {v} : conv'[u] = conv[u]
      /\ conv'[v].at = "done" /\ conv'[v].format = "epub" /\ conv'[v].book = conv[v].book
      /\ conv[v].book \in Books
      /\ epub'[conv[v].book] = v /\ \A b \in Books \ {conv[v].book} : epub'[b] = epub[b]
  BY <1>1 DEF IInv, Types, TypeOK, InHand
<1>3. Types'
  BY ConvTypes DEF IInv
<1>4. Named'
  <2> SUFFICES ASSUME NEW b \in Books, dir[b] # NoFile
               PROVE  /\ \E u \in Convs : Wrote(u, dir[b])'
                      /\ conv'[dir[b]].book = b
                      /\ conv'[dir[b]].at \in {"copy", "done", "failed"}
    BY <1>1 DEF Named
  <2>1. PICK u \in Convs : Wrote(u, dir[b])
    BY DEF IInv, Named
  <2>2. u # v /\ Wrote(u, dir[b])'
    BY <1>1, <1>2, <2>1 DEF Wrote
  <2>3. dir[b] \in Convs \ {v}
    BY <1>1 DEF IInv, Types, TypeOK, Named
  <2>4. QED
    BY <1>2, <2>2, <2>3 DEF IInv, Named
<1>5. Reading'
  BY <1>1 DEF IInv, Reading, Sound
<1>6. Ready'
  <2> SUFFICES ASSUME NEW u \in calm' PROVE Safe(u)'
    BY DEF Ready
  <2>1. CASE u = v
    <3>1. v \notin calm
      BY <1>1 DEF IInv, Ready, Safe
    <3>2. Asking(conv[v].book, Epub) = {}
      BY <1>1, <2>1, <3>1
    <3>3. v # NoFile
      BY ConvertedFilesAssumption
    <3>4. QED
      BY <1>1, <1>2, <2>1, <3>2, <3>3 DEF Safe, Asking
  <2>2. CASE u # v
    <3>1. u \in calm /\ u \in Convs /\ Safe(u) /\ conv'[u] = conv[u]
      BY <1>1, <1>2, <2>2 DEF IInv, Ready, Types, TypeOK
    <3>2. conv[u].book \in Books
      BY <3>1 DEF IInv, Types, InHand, Safe
    <3>3. v # NoFile
      BY ConvertedFilesAssumption
    <3>4. epub[conv[u].book] # NoFile => epub'[conv[u].book] # NoFile
      BY <1>2, <3>2, <3>3
    <3>5. QED
      BY <1>1, <3>1, <3>4 DEF Safe, Asking
  <2>3. QED
    BY <2>1, <2>2
<1>7. QED
  BY <1>3, <1>4, <1>5, <1>6 DEF IInv

LEMMA CreateInv == ASSUME IInv, NEW v \in Convs, Create(v) PROVE IInv'
<1> DEFINE b == conv[v].book
<1>1. b \in Books /\ conv[v].at = "create"
  BY DEF IInv, Types, InHand, Create
<1>2. PICK f \in Convs : f = IF dir[b] = NoFile THEN v ELSE dir[b]
  BY <1>1 DEF IInv, Types, TypeOK
<1>3. /\ conv' = [conv EXCEPT ![v] = Conv("copy", b, "mobi", f, 0)]
      /\ dir' = [dir EXCEPT ![b] = f]
      /\ data' = [data EXCEPT ![f] = {}]
      /\ old' = old \ {f} /\ spoilt' = spoilt \ {f}
      /\ shared' = shared \cup {d \in Loads : load[d].at = "body" /\ load[d].file = f}
      /\ calm' = IF Asking(b, Mobi) = {} /\ sweeping # b THEN calm \cup {v} ELSE calm
      /\ UNCHANGED <<epub, load, sweeping>>
  BY <1>2 DEF Create
<1>4. /\ \A u \in Convs \ {v} : conv'[u] = conv[u]
      /\ conv'[v] = Conv("copy", b, "mobi", f, 0)
      /\ dir'[b] = f /\ \A o \in Books \ {b} : dir'[o] = dir[o]
      /\ data'[f] = {} /\ \A g \in Convs \ {f} : data'[g] = data[g]
      /\ f # NoFile
  BY <1>1, <1>2, <1>3, ConvertedFilesAssumption DEF IInv, Types, TypeOK
<1>5. Types'
  BY ConvTypes DEF IInv
<1>6. Named'
  <2> SUFFICES ASSUME NEW o \in Books, dir'[o] # NoFile
               PROVE  /\ \E u \in Convs : Wrote(u, dir[o])'
                      /\ conv'[dir'[o]].book = o
                      /\ conv'[dir'[o]].at \in {"copy", "done", "failed"}
    BY DEF Named
  <2>1. CASE o = b
    <3>1. Wrote(v, dir[o])'
      BY <1>4, <2>1 DEF Wrote, Conv
    <3>2. CASE f = v
      BY <1>4, <2>1, <3>1, <3>2 DEF Conv
    <3>3. CASE f # v
      BY <1>2, <1>4, <2>1, <3>1, <3>3 DEF IInv, Named
    <3>4. QED
      BY <3>2, <3>3
  <2>2. CASE o # b
    <3>1. /\ dir[o] # NoFile /\ dir'[o] = dir[o] /\ dir[o] \in Convs
          /\ conv[dir[o]].book = o /\ conv[dir[o]].at \in {"copy", "done", "failed"}
      BY <1>4, <2>2 DEF IInv, Types, TypeOK, Named
    <3>2. dir[o] # v /\ dir[o] # f
      BY <1>1, <1>2, <2>2, <3>1 DEF IInv, Named
    <3>3. PICK u \in Convs : Wrote(u, dir[o])
      BY <3>1 DEF IInv, Named
    <3>4. u # v
      BY <1>1, <3>3 DEF Wrote
    <3>5. Wrote(u, dir[o])'
      BY <1>3, <1>4, <3>1, <3>2, <3>3, <3>4 DEF Wrote
    <3>6. QED
      BY <1>4, <3>1, <3>2, <3>5
  <2>3. QED
    BY <2>1, <2>2
<1>7. Reading'
  <2> SUFFICES ASSUME NEW d \in Loads, d \notin shared' PROVE Sound(d)'
    BY DEF Reading
  <2>1. d \notin shared /\ (load[d].at = "body" => load[d].file \in Convs \ {f})
    BY <1>3 DEF IInv, Types, InHand
  <2>2. QED
    BY <1>3, <1>4, <2>1 DEF IInv, Reading, Sound
<1>8. Ready'
  <2> SUFFICES ASSUME NEW u \in calm' PROVE Safe(u)'
    BY DEF Ready
  <2>1. CASE u = v
    <3>1. v \notin calm
      BY <1>1 DEF IInv, Ready, Safe
    <3>2. Asking(b, Mobi) = {} /\ sweeping # b
      BY <1>3, <2>1, <3>1
    <3>3. QED
      BY <1>3, <1>4, <2>1, <3>2 DEF Safe, Asking, Conv
  <2>2. CASE u # v
    <3>1. u \in Convs /\ Safe(u) /\ conv'[u] = conv[u] /\ conv[u].book \in Books
      BY <1>3, <1>4, <2>2 DEF IInv, Ready, Types, TypeOK, InHand, Safe
    <3>2. CASE conv[u].format = "epub"
      BY <1>3, <3>1, <3>2 DEF Safe, Asking
    <3>3. CASE conv[u].format # "epub"
      BY <1>3, <1>4, <3>1, <3>3 DEF Safe, Asking
    <3>4. QED
      BY <3>2, <3>3
  <2>3. QED
    BY <2>1, <2>2
<1>9. QED
  BY <1>5, <1>6, <1>7, <1>8 DEF IInv

\* A writer goes on, ends or gives up: no file loses a block, and the writer's
\* own is then whole or spoilt.
LEMMA WriteInv ==
    ASSUME IInv, Types', NEW v \in Convs, conv[v].at = "copy",
           \A u \in Convs \ {v} : conv'[u] = conv[u],
           conv'[v].book = conv[v].book, conv'[v].format = conv[v].format,
           conv'[v].file = conv[v].file,
           conv'[v].at \in {"copy", "done", "failed"},
           \A g \in Convs : data[g] \subseteq data'[g],
           old' \subseteq old, spoilt \subseteq spoilt',
           Wrote(v, conv[v].file) => Wrote(v, conv[v].file)',
           UNCHANGED <<dir, epub, load, sweeping, shared, calm>>
    PROVE  IInv'
<1>1. Named'
  <2> SUFFICES ASSUME NEW b \in Books, dir[b] # NoFile
               PROVE  /\ \E u \in Convs : Wrote(u, dir[b])'
                      /\ conv'[dir[b]].book = b
                      /\ conv'[dir[b]].at \in {"copy", "done", "failed"}
    BY DEF Named
  <2>1. PICK u \in Convs : Wrote(u, dir[b])
    BY DEF IInv, Named
  <2>2. dir[b] \in Convs /\ conv[dir[b]].book = b /\ conv[dir[b]].at \in {"copy", "done", "failed"}
    BY DEF IInv, Types, TypeOK, Named
  <2>3. Wrote(u, dir[b])'
    <3>1. CASE u = v
      BY <2>1, <3>1 DEF Wrote
    <3>2. CASE u # v
      BY <2>1, <2>2, <3>2 DEF Wrote
    <3>3. QED
      BY <3>1, <3>2
  <2>4. QED
    BY <2>2, <2>3
<1>2. Reading'
  <2> SUFFICES ASSUME NEW d \in Loads, d \notin shared, load[d].at = "body"
               PROVE  data'[load[d].file] = Blocks
    BY DEF IInv, Reading, Sound
  <2>1. data[load[d].file] = Blocks /\ load[d].file \in Convs
    BY DEF IInv, Reading, Sound, Types, InHand
  <2>2. data'[load[d].file] \subseteq Blocks
    BY <2>1 DEF Types, TypeOK
  <2>3. QED
    BY <2>1, <2>2
<1>3. Ready'
  <2> SUFFICES ASSUME NEW u \in calm PROVE Safe(u)'
    BY DEF Ready
  <2>1. Safe(u) /\ u \in Convs
    BY DEF IInv, Ready, Types, TypeOK
  <2>2. /\ conv'[u].book = conv[u].book /\ conv'[u].format = conv[u].format
        /\ conv'[u].at \in {"copy", "done", "failed"}
    BY <2>1 DEF Safe
  <2>3. QED
    BY <2>1, <2>2 DEF Safe, Asking
<1>4. QED
  BY <1>1, <1>2, <1>3 DEF IInv

LEMMA CopyInv == ASSUME IInv, NEW v \in Convs, Copy(v) \/ CopyFails(v) PROVE IInv'
<1>1. Types'
  BY ConvTypes DEF IInv
<1>2. conv[v].file \in Convs /\ conv[v].pos \in 0..Size /\ conv[v].at = "copy" /\ Size \in Nat
  BY ConvertedFilesAssumption DEF IInv, Types, TypeOK, InHand, Copy, CopyFails
<1>3. CASE Copy(v) /\ conv[v].pos < Size
  <2>1. /\ data' = [data EXCEPT ![conv[v].file] = data[conv[v].file] \cup {conv[v].pos + 1}]
        /\ conv' = [conv EXCEPT ![v].pos = conv[v].pos + 1]
        /\ old' = old \ {conv[v].file}
        /\ UNCHANGED <<dir, epub, load, sweeping, noteVars>>
    BY <1>3 DEF Copy
  <2>2. /\ \A u \in Convs \ {v} : conv'[u] = conv[u]
        /\ conv'[v].book = conv[v].book /\ conv'[v].format = conv[v].format
        /\ conv'[v].file = conv[v].file /\ conv'[v].at = "copy"
        /\ conv'[v].pos = conv[v].pos + 1
        /\ data'[conv[v].file] = data[conv[v].file] \cup {conv[v].pos + 1}
        /\ \A g \in Convs : data[g] \subseteq data'[g]
    BY <1>2, <2>1 DEF IInv, Types, TypeOK
  <2>3. 1..(conv[v].pos + 1) = 1..conv[v].pos \cup {conv[v].pos + 1}
    BY <1>2
  <2>4. Wrote(v, conv[v].file) => Wrote(v, conv[v].file)'
    BY <2>2, <2>3 DEF Wrote
  <2>5. QED
    BY <1>1, <1>2, <2>1, <2>2, <2>4, WriteInv DEF noteVars
<1>4. CASE Copy(v) /\ ~(conv[v].pos < Size)
  <2>1. conv' = [conv EXCEPT ![v].at = "done"] /\ UNCHANGED <<data, old, dir, epub, load, sweeping, noteVars>>
    BY <1>4 DEF Copy, At
  <2>2. /\ \A u \in Convs \ {v} : conv'[u] = conv[u]
        /\ conv'[v].book = conv[v].book /\ conv'[v].format = conv[v].format
        /\ conv'[v].file = conv[v].file /\ conv'[v].at = "done"
        /\ conv'[v].pos = conv[v].pos
    BY <2>1 DEF IInv, Types, TypeOK
  <2>3. conv[v].pos = Size
    BY <1>2, <1>4
  <2>4. Wrote(v, conv[v].file) => Wrote(v, conv[v].file)'
    BY <2>1, <2>2, <2>3 DEF Wrote
  <2>5. QED
    BY <1>1, <1>2, <2>1, <2>2, <2>4, WriteInv DEF noteVars
<1>5. CASE CopyFails(v)
  <2>1. /\ conv' = [conv EXCEPT ![v].at = "failed"] /\ spoilt' = spoilt \cup {conv[v].file}
        /\ UNCHANGED <<data, old, dir, epub, load, sweeping, shared, calm>>
    BY <1>5 DEF CopyFails, At, fileVars
  <2>2. /\ \A u \in Convs \ {v} : conv'[u] = conv[u]
        /\ conv'[v].book = conv[v].book /\ conv'[v].format = conv[v].format
        /\ conv'[v].file = conv[v].file /\ conv'[v].at = "failed"
        /\ conv'[v].pos = conv[v].pos
    BY <2>1 DEF IInv, Types, TypeOK
  <2>3. Wrote(v, conv[v].file) => Wrote(v, conv[v].file)'
    BY <2>1, <2>2 DEF Wrote
  <2>4. QED
    BY <1>1, <1>2, <2>1, <2>2, <2>3, WriteInv
<1>6. QED
  BY <1>3, <1>4, <1>5

------------------------------------------------------------------------------
(* Downloads.                                                              *)

\* A download moves, and no file does.
LEMMA LoadInv ==
    ASSUME IInv, Types', NEW d \in Loads,
           \A o \in Loads \ {d} : load'[o] = load[o],
           d \notin shared' => Sound(d)',
           shared \ {d} \subseteq shared', calm' \subseteq calm,
           \A v \in calm' : load'[d].book = conv[v].book =>
                /\ conv[v].format = "epub" => load'[d].at # "serve"
                /\ conv[v].format = "mobi" => load'[d].at \notin Mobi,
           UNCHANGED <<conv, fileVars, sweeping, spoilt>>
    PROVE  IInv'
<1>1. Named'
  BY DEF IInv, Named, Wrote, fileVars
<1>2. Reading'
  <2> SUFFICES ASSUME NEW o \in Loads, o \notin shared' PROVE Sound(o)'
    BY DEF Reading
  <2>1. CASE o = d
    BY <2>1
  <2>2. CASE o # d
    BY <2>2 DEF IInv, Reading, Sound, fileVars
  <2>3. QED
    BY <2>1, <2>2
<1>3. Ready'
  <2> SUFFICES ASSUME NEW v \in calm' PROVE Safe(v)'
    BY DEF Ready
  <2>1. Safe(v)
    BY DEF IInv, Ready
  <2>2. CASE conv[v].format = "epub"
    <3>1. ASSUME NEW o \in Loads, load'[o].book = conv[v].book, load'[o].at = "serve" PROVE FALSE
      BY <2>1, <2>2, <3>1 DEF Safe, Asking, Epub
    <3>2. QED
      BY <2>1, <2>2, <3>1 DEF Safe, Asking, Epub, fileVars
  <2>3. CASE conv[v].format = "mobi"
    <3>1. ASSUME NEW o \in Loads, load'[o].book = conv[v].book, load'[o].at \in Mobi PROVE FALSE
      BY <2>1, <2>3, <3>1 DEF Safe, Asking
    <3>2. QED
      BY <2>1, <2>3, <3>1 DEF Safe, Asking, fileVars
  <2>4. QED
    BY <2>1, <2>2, <2>3 DEF Safe
<1>4. QED
  BY <1>1, <1>2, <1>3 DEF IInv

LEMMA AskInv == ASSUME IInv, NEW d \in Loads, NEW b \in Books, Ask(d, b) \/ AskEpub(d, b) PROVE IInv'
<1>1. Types'
  BY LoadTypes DEF IInv
<1>2. CASE Ask(d, b)
  <2>1. /\ load' = [load EXCEPT ![d] = Load("open", b, NoFile, 0, 0, FALSE)]
        /\ calm' = Calm(b, {"mobi"})
        /\ UNCHANGED <<conv, fileVars, sweeping, spoilt, shared>>
    BY <1>2 DEF Ask
  <2>2. /\ \A o \in Loads \ {d} : load'[o] = load[o]
        /\ load'[d].at = "open" /\ load'[d].book = b
    BY <2>1 DEF IInv, Types, TypeOK, Load
  <2>3. \A v \in calm' : v \in calm /\ ~(conv[v].book = b /\ conv[v].format = "mobi")
    BY <2>1 DEF Calm, IInv, Types, TypeOK
  <2>4. QED
    BY <1>1, <2>1, <2>2, <2>3, LoadInv DEF Sound
<1>3. CASE AskEpub(d, b)
  <2>1. /\ load' = [load EXCEPT ![d] = Load("serve", b, NoFile, 0, 0, FALSE)]
        /\ calm' = Calm(b, {"epub"})
        /\ UNCHANGED <<conv, fileVars, sweeping, spoilt, shared>>
    BY <1>3 DEF AskEpub
  <2>2. /\ \A o \in Loads \ {d} : load'[o] = load[o]
        /\ load'[d].at = "serve" /\ load'[d].book = b
    BY <2>1 DEF IInv, Types, TypeOK, Load
  <2>3. \A v \in calm' : v \in calm /\ ~(conv[v].book = b /\ conv[v].format = "epub")
    BY <2>1 DEF Calm, IInv, Types, TypeOK
  <2>4. QED
    BY <1>1, <2>1, <2>2, <2>3, LoadInv DEF Mobi, Sound
<1>4. QED
  BY <1>2, <1>3

\* Who asked for a MOBI has been seen by those whose result he takes.
LEMMA AskingNow ==
    ASSUME IInv, NEW d \in Loads, load[d].at \in Mobi, NEW v \in calm
    PROVE  conv[v].format = "mobi" => load[d].book # conv[v].book
BY DEF IInv, Ready, Safe, Asking

LEMMA OpenInv == ASSUME IInv, NEW d \in Loads, Open(d) PROVE IInv'
<1> DEFINE b == load[d].book
           f == dir[b]
<1>1. Types'
  BY LoadTypes DEF IInv
<1>2. /\ load[d].at = "open" /\ b \in Books
      /\ UNCHANGED <<conv, fileVars, sweeping, spoilt, calm>>
  BY DEF IInv, Types, InHand, Open
<1>3. CASE f = NoFile
  <2>1. load' = [load EXCEPT ![d] = Load("remove", b, NoFile, 0, 0, FALSE)] /\ UNCHANGED shared
    BY <1>3 DEF Open
  <2>2. /\ \A o \in Loads \ {d} : load'[o] = load[o]
        /\ load'[d].at = "remove" /\ load'[d].book = b /\ load'[d].size = 0
    BY <2>1 DEF IInv, Types, TypeOK, Load
  <2>3. \A v \in calm : conv[v].format = "mobi" => b # conv[v].book
    BY <1>2, AskingNow DEF Mobi
  <2>4. Sound(d)'
    BY <2>2 DEF Sound
  <2>5. ASSUME NEW v \in calm', load'[d].book = conv[v].book
        PROVE  load'[d].at # "serve" /\ conv[v].format # "mobi"
    BY <1>2, <2>2, <2>3, <2>5
  <2>6. QED
    BY <1>1, <1>2, <2>1, <2>2, <2>4, <2>5, LoadInv
<1>4. CASE f # NoFile
  <2>1. PICK n \in SizeOf(f) : load' = [load EXCEPT ![d] = Load("body", b, f, n, 0, n = Size)]
    BY <1>4 DEF Open
  <2>2. shared' = IF Writing(f) # {} \/ f \in spoilt THEN shared \cup {d} ELSE shared
    BY <1>4 DEF Open
  <2>3. /\ \A o \in Loads \ {d} : load'[o] = load[o]
        /\ load'[d] = Load("body", b, f, n, 0, n = Size)
    BY <2>1 DEF IInv, Types, TypeOK
  <2>4. ASSUME d \notin shared' PROVE n = Size /\ data[f] = Blocks
    <3>1. Writing(f) = {} /\ f \notin spoilt
      BY <2>2, <2>4
    <3>2. PICK v \in Convs : Wrote(v, f)
      BY <1>2, <1>4 DEF IInv, Named
    <3>3. conv[v].at # "copy"
      BY <3>1, <3>2 DEF Writing, Wrote
    <3>4. 1..Size \subseteq data[f]
      BY <3>1, <3>2, <3>3 DEF Wrote
    <3>5. f \in Convs
      BY <1>2, <1>4 DEF IInv, Types, TypeOK
    <3>6. data[f] = Blocks
      BY <3>4, <3>5 DEF IInv, Types, TypeOK, Blocks
    <3>7. QED
      BY <3>6, ConvertedFilesAssumption DEF SizeOf, Blocks
  <2>5. \A v \in calm : conv[v].format = "mobi" => b # conv[v].book
    BY <1>2, AskingNow DEF Mobi
  <2>6. shared \subseteq shared'
    BY <2>2
  <2>7. load'[d].at = "body" /\ load'[d].whole = (n = Size) /\ load'[d].file = f /\ load'[d].book = b
    BY <2>3 DEF Load
  <2>8. d \notin shared' => Sound(d)'
    BY <1>2, <2>4, <2>7 DEF Sound, fileVars
  <2>9. QED
    BY <1>1, <1>2, <2>3, <2>5, <2>6, <2>7, <2>8, LoadInv
<1>5. QED
  BY <1>3, <1>4

LEMMA SendInv == ASSUME IInv, NEW d \in Loads, SendBlock(d) \/ Sent(d) PROVE IInv'
<1>1. Types'
  BY LoadTypes DEF IInv
<1>2. load[d].at = "body" /\ UNCHANGED <<conv, fileVars, sweeping, noteVars>>
  BY DEF SendBlock, Sent
<1>3. \A v \in calm : conv[v].format = "mobi" => load[d].book # conv[v].book
  BY <1>2, AskingNow DEF Mobi
<1>4. CASE SendBlock(d)
  <2>1. load' = [load EXCEPT ![d] =
            Load("body", load[d].book, load[d].file, load[d].size, load[d].pos + 1,
                 load[d].whole /\ load[d].pos + 1 \in data[load[d].file])]
    BY <1>4 DEF SendBlock
  <2>2. /\ \A o \in Loads \ {d} : load'[o] = load[o]
        /\ load'[d].at = "body" /\ load'[d].book = load[d].book /\ load'[d].file = load[d].file
        /\ load'[d].whole = (load[d].whole /\ load[d].pos + 1 \in data[load[d].file])
    BY <2>1 DEF IInv, Types, TypeOK, Load
  <2>3. load[d].pos + 1 \in Blocks
    BY <1>4, ConvertedFilesAssumption DEF SendBlock, IInv, Types, TypeOK, Blocks
  <2>4. d \notin shared' => Sound(d)'
    BY <1>2, <2>2, <2>3 DEF IInv, Reading, Sound, fileVars, noteVars
  <2>5. QED
    BY <1>1, <1>2, <1>3, <2>2, <2>4, LoadInv DEF noteVars
<1>5. CASE Sent(d)
  <2>1. load' = [load EXCEPT ![d] =
            Load("remove", load[d].book, NoFile, load[d].size, load[d].pos, load[d].whole)]
    BY <1>5 DEF Sent
  <2>2. /\ \A o \in Loads \ {d} : load'[o] = load[o]
        /\ load'[d].at = "remove" /\ load'[d].book = load[d].book
        /\ load'[d].whole = load[d].whole
    BY <2>1 DEF IInv, Types, TypeOK, Load
  <2>3. d \notin shared' => Sound(d)'
    BY <1>2, <2>2 DEF IInv, Reading, Sound, noteVars
  <2>4. QED
    BY <1>1, <1>2, <1>3, <2>2, <2>3, LoadInv DEF noteVars
<1>6. QED
  BY <1>4, <1>5

LEMMA LeaveInv == ASSUME IInv, NEW d \in Loads, NoBookRow(d) PROVE IInv'
<1>1. Types'
  BY LoadTypes DEF IInv
<1>2. load' = [load EXCEPT ![d] = NoLoad] /\ UNCHANGED <<conv, fileVars, sweeping, noteVars>>
  BY DEF NoBookRow
<1>3. (\A o \in Loads \ {d} : load'[o] = load[o]) /\ load'[d].at = "idle"
  BY <1>2 DEF IInv, Types, TypeOK, NoLoad, Load
<1>4. QED
  BY <1>1, <1>2, <1>3, LoadInv DEF noteVars, Mobi, Sound

------------------------------------------------------------------------------
(* What removes a file, or lets it grow old.                               *)

LEMMA DeleteFileInv == ASSUME IInv, NEW d \in Loads, DeleteFile(d) \/ DropEpub(d) PROVE IInv'
<1>1. Types'
  BY LoadTypes DEF IInv
<1> DEFINE b == load[d].book
<1>2. /\ load' = [load EXCEPT ![d] = NoLoad]
      /\ UNCHANGED <<conv, data, old, sweeping, spoilt, calm>>
      /\ shared \ {d} \subseteq shared'
      /\ \A o \in Books \ {b} : dir'[o] = dir[o] /\ epub'[o] = epub[o]
      /\ dir'[b] \in {NoFile, dir[b]} /\ b \in Books
  BY DEF DeleteFile, DropEpub, noteVars, IInv, Types, TypeOK, InHand
<1>3. /\ \A o \in Loads \ {d} : load'[o] = load[o]
      /\ load'[d].at = "idle"
  BY <1>2 DEF IInv, Types, TypeOK, NoLoad, Load
<1>4. Named'
  BY <1>2 DEF IInv, Named, Wrote
<1>5. Reading'
  <2> SUFFICES ASSUME NEW o \in Loads, o \notin shared' PROVE Sound(o)'
    BY DEF Reading
  <2>1. CASE o = d
    BY <1>3, <2>1 DEF Sound
  <2>2. CASE o # d
    BY <1>2, <1>3, <2>2 DEF IInv, Reading, Sound
  <2>3. QED
    BY <2>1, <2>2
<1>6. Ready'
  <2> SUFFICES ASSUME NEW v \in calm PROVE Safe(v)'
    BY <1>2 DEF Ready
  <2>1. Safe(v) /\ conv[v].book \in Books
    BY DEF IInv, Ready, Safe, Types, TypeOK, InHand
  <2>2. CASE conv[v].format = "epub"
    <3>1. Asking(conv[v].book, Epub)' = {}
      BY <1>2, <1>3, <2>1, <2>2 DEF Safe, Asking, Epub
    <3>2. epub'[conv[v].book] = epub[conv[v].book]
      <4>1. CASE DropEpub(d)
        BY <1>2, <2>1, <2>2, <4>1 DEF Safe, Asking, Epub, DropEpub
      <4>2. CASE DeleteFile(d)
        BY <4>2 DEF DeleteFile
      <4>3. QED
        BY <4>1, <4>2
    <3>3. QED
      BY <1>2, <2>1, <2>2, <3>1, <3>2 DEF Safe
  <2>3. CASE conv[v].format # "epub"
    <3>1. Asking(conv[v].book, Mobi)' = {}
      BY <1>2, <1>3, <2>1, <2>3 DEF Safe, Asking, Mobi
    <3>2. dir'[conv[v].book] = dir[conv[v].book]
      <4>1. CASE DeleteFile(d)
        BY <1>2, <2>1, <2>3, <4>1 DEF Safe, Asking, Mobi, DeleteFile
      <4>2. CASE DropEpub(d)
        BY <4>2 DEF DropEpub
      <4>3. QED
        BY <4>1, <4>2
    <3>3. QED
      BY <1>2, <2>1, <2>3, <3>1, <3>2 DEF Safe
  <2>4. QED
    BY <2>2, <2>3
<1>7. QED
  BY <1>1, <1>4, <1>5, <1>6 DEF IInv

LEMMA AgeInv == ASSUME IInv, NEW b \in Books, Age(b) PROVE IInv'
<1>1. Types'
  BY SweepTypes DEF IInv
<1>2. /\ dir[b] # NoFile /\ old' = old \cup {dir[b]} /\ calm' = Calm(b, {"mobi"})
      /\ UNCHANGED <<conv, dir, data, epub, load, sweeping, spoilt, shared>>
  BY DEF Age
<1>3. Named' /\ Reading'
  BY <1>2 DEF IInv, Named, Wrote, Reading, Sound
<1>4. Ready'
  <2> SUFFICES ASSUME NEW v \in calm' PROVE Safe(v)'
    BY DEF Ready
  <2>1. v \in calm /\ v \in Convs /\ ~(conv[v].book = b /\ conv[v].format = "mobi")
    BY <1>2 DEF Calm, IInv, Types, TypeOK
  <2>2. Safe(v) /\ conv[v].book \in Books
    BY <2>1 DEF IInv, Ready, Safe, Types, InHand
  <2>3. conv[v].format # "epub" => dir[conv[v].book] # dir[b]
    BY <1>2, <2>1, <2>2 DEF Safe, IInv, Named
  <2>4. QED
    BY <1>2, <2>2, <2>3 DEF Safe, Asking
<1>5. QED
  BY <1>1, <1>3, <1>4 DEF IInv

LEMMA SweepInv ==
    ASSUME IInv, (\E b \in Books : SweepSees(b)) \/ SweepRemoves PROVE IInv'
<1>1. Types'
  BY SweepTypes DEF IInv
<1>2. CASE \E b \in Books : SweepSees(b)
  <2>1. PICK b \in Books : SweepSees(b)
    BY <1>2
  <2>2. /\ dir[b] \in old /\ sweeping' = b
        /\ UNCHANGED <<conv, dir, data, old, epub, load, spoilt, shared, calm>>
    BY <2>1 DEF SweepSees, fileVars, noteVars
  <2>3. Named' /\ Reading'
    BY <2>2 DEF IInv, Named, Wrote, Reading, Sound
  <2>4. Ready'
    BY <2>2 DEF IInv, Ready, Safe, Asking
  <2>5. QED
    BY <1>1, <2>3, <2>4 DEF IInv
<1>3. CASE SweepRemoves
  <2>1. /\ sweeping \in Books /\ sweeping' = NoBook
        /\ UNCHANGED <<conv, data, old, epub, load, spoilt, shared, calm>>
        /\ \A o \in Books \ {sweeping} : dir'[o] = dir[o]
        /\ dir'[sweeping] \in {NoFile, dir[sweeping]}
    BY <1>3 DEF SweepRemoves, noteVars, IInv, Types, TypeOK
  <2>2. Named' /\ Reading'
    BY <2>1 DEF IInv, Named, Wrote, Reading, Sound
  <2>3. Ready'
    <3> SUFFICES ASSUME NEW v \in calm PROVE Safe(v)'
      BY <2>1 DEF Ready
    <3>1. Safe(v) /\ conv[v].book \in Books
      BY DEF IInv, Ready, Safe, Types, TypeOK, InHand
    <3>2. QED
      BY <2>1, <3>1, ConvertedFilesAssumption DEF Safe, Asking
  <2>4. QED
    BY <1>1, <2>2, <2>3 DEF IInv
<1>4. QED
  BY <1>2, <1>3

LEMMA StutterInv == ASSUME IInv, UNCHANGED vars PROVE IInv'
BY DEF IInv, vars, fileVars, noteVars, Types, TypeOK, InHand, Named, Wrote, Reading, Sound,
       Ready, Safe, Asking

LEMMA EarlyStepInv ==
    ASSUME IInv, NEW v \in Convs,
           \/ \E b \in Books, f \in {"mobi", "epub"} : Request(v, b, f)
           \/ ConvertFails(v) \/ ConvertMobi(v) \/ CreateFails(v)
    PROVE  IInv'
<1>1. Types'
  BY ConvTypes DEF IInv
<1>2. /\ conv[v].at \in {"idle", "convert", "create"}
      /\ \A u \in Convs \ {v} : conv'[u] = conv[u]
      /\ UNCHANGED <<fileVars, load, sweeping, noteVars>>
  BY DEF Request, ConvertFails, ConvertMobi, CreateFails, At, IInv, Types, TypeOK
<1>3. QED
  BY <1>1, <1>2, EarlyInv

LEMMA NextInv == ASSUME IInv, Next PROVE IInv'
<1>1. CASE \E v \in Convs :
        \/ \E b \in Books, f \in {"mobi", "epub"} : Request(v, b, f)
        \/ ConvertFails(v) \/ ConvertMobi(v) \/ ConvertEpub(v)
        \/ Create(v) \/ CreateFails(v) \/ Copy(v) \/ CopyFails(v)
  BY <1>1, EarlyStepInv, ConvertEpubInv, CreateInv, CopyInv
<1>2. CASE \E d \in Loads :
        \/ \E b \in Books : Ask(d, b) \/ AskEpub(d, b)
        \/ Open(d) \/ NoBookRow(d) \/ SendBlock(d) \/ Sent(d) \/ DeleteFile(d) \/ DropEpub(d)
  BY <1>2, AskInv, OpenInv, LeaveInv, SendInv, DeleteFileInv
<1>3. CASE (\E b \in Books : Age(b) \/ SweepSees(b)) \/ SweepRemoves
  BY <1>3, AgeInv, SweepInv
<1>4. QED
  BY <1>1, <1>2, <1>3 DEF Next

LEMMA Always == Spec => []IInv
<1>1. IInv /\ [Next]_vars => IInv'
  BY NextInv, StutterInv
<1>2. QED
  BY InitInv, <1>1, PTL DEF Spec

------------------------------------------------------------------------------
(* Results.                                                                *)

\* WholeDownload for any number of books, conversions, downloads and blocks:
\* c.File over a file that os.Create may truncate (api/websocket.go).
THEOREM DownloadSafety == Spec => []WholeDownload
<1>1. IInv => WholeDownload
  BY DEF IInv, Types, Reading, Sound, WholeDownload
<1>2. QED
  BY <1>1, Always, PTL

\* ReadyIsThere for the same: nothing but a download, an hour's age or a
\* download or sweep that was under way removes a result (api/websocket.go,
\* tasks/watcher.go).
THEOREM ResultSafety == Spec => []ReadyIsThere
<1>1. ASSUME IInv PROVE ReadyIsThere
  <2> SUFFICES ASSUME NEW v \in calm
               PROVE  IF conv[v].format = "epub" THEN epub[conv[v].book] # NoFile
                      ELSE /\ dir[conv[v].book] # NoFile
                           /\ Writing(dir[conv[v].book]) = {} /\ dir[conv[v].book] \notin spoilt
                              => data[dir[conv[v].book]] = Blocks
    BY DEF ReadyIsThere
  <2>1. Safe(v) /\ conv[v].book \in Books
    BY <1>1 DEF IInv, Ready, Safe, Types, TypeOK, InHand
  <2>2. CASE conv[v].format = "epub"
    BY <2>1, <2>2 DEF Safe
  <2>3. CASE conv[v].format # "epub"
    <3> DEFINE f == dir[conv[v].book]
    <3>1. f # NoFile /\ f \in Convs
      BY <1>1, <2>1, <2>3 DEF Safe, IInv, Types, TypeOK
    <3>2. ASSUME Writing(f) = {}, f \notin spoilt PROVE data[f] = Blocks
      <4>1. PICK u \in Convs : Wrote(u, f)
        BY <1>1, <2>1, <3>1 DEF IInv, Named
      <4>2. 1..Size \subseteq data[f]
        BY <3>2, <4>1 DEF Writing, Wrote
      <4>3. QED
        BY <1>1, <3>1, <4>2 DEF IInv, Types, TypeOK, Blocks
    <3>3. QED
      BY <2>3, <3>1, <3>2
  <2>4. QED
    BY <2>2, <2>3
<1>2. QED
  BY <1>1, Always, PTL
------------------------------------------------------------------------------
(* Sequences of sequences.                                                 *)

\* Induction over the numbers, for sets.
LEMMA NatsIn ==
    ASSUME NEW S, 0 \in S, \A n \in Nat : n \in S => n + 1 \in S
    PROVE  Nat \subseteq S
<1> DEFINE R == OpToRel(<, Nat)
           I == {n \in Nat : n \notin S}
<1>1. IsWellFoundedOn(R, Nat)
  BY NatLessThanWellFounded
<1>2. \A i, j \in Nat : i < j => <<i, j>> \in R
  BY DEF OpToRel
<1> HIDE DEF R
<1>3. SUFFICES ASSUME I # {} PROVE FALSE
  OBVIOUS
<1>4. PICK m \in I : \A i \in I : <<i, m>> \notin R
  BY <1>1, <1>3, WFMin
<1>5. m \in Nat /\ m # 0
  BY <1>4
<1>6. m - 1 \in Nat /\ m - 1 < m /\ (m - 1) + 1 = m
  BY <1>5
<1>7. m - 1 \in S
  BY <1>2, <1>4, <1>5, <1>6
<1>8. QED
  BY <1>4, <1>6, <1>7

\* What FlattenSeq computes from the first n.
Flattens(f, ss, n) == f = [i \in 1..n |-> IF i = 1 THEN ss[i] ELSE f[i - 1] \o ss[i]]

LEMMA FlattenAt ==
    ASSUME NEW f, NEW ss, NEW n \in Nat, Flattens(f, ss, n)
    PROVE  /\ n >= 1 => f[1] = ss[1]
           /\ \A i \in 1..n : i # 1 => f[i] = f[i - 1] \o ss[i]
<1>1. f = [i \in 1..n |-> IF i = 1 THEN ss[i] ELSE f[i - 1] \o ss[i]]
  BY DEF Flattens
<1>2. ASSUME NEW i \in 1..n PROVE f[i] = IF i = 1 THEN ss[i] ELSE f[i - 1] \o ss[i]
  BY <1>1, Zenon
<1>3. n >= 1 => 1 \in 1..n
  OBVIOUS
<1>4. QED
  BY <1>2, <1>3

LEMMA FlattenIs ==
    ASSUME NEW f, NEW ss, NEW n \in Nat, NEW D, f = [i \in 1..n |-> D[i]],
           n >= 1 => f[1] = ss[1],
           \A i \in 1..n : i # 1 => f[i] = f[i - 1] \o ss[i]
    PROVE  Flattens(f, ss, n)
<1> DEFINE e(i) == IF i = 1 THEN ss[i] ELSE f[i - 1] \o ss[i]
<1>1. ASSUME NEW i \in 1..n PROVE f[i] = e(i)
  <2>1. CASE i = 1
    <3>1. n >= 1
      BY <2>1
    <3>2. QED
      BY <2>1, <3>1
  <2>2. CASE i # 1
    BY <2>2
  <2>3. QED
    BY <2>1, <2>2
<1>2. DOMAIN f = 1..n /\ f = [i \in 1..n |-> f[i]]
  OBVIOUS
<1> HIDE DEF e
<1>3. f = [i \in 1..n |-> e(i)]
  BY <1>1, <1>2
<1>4. QED
  BY <1>3 DEF e, Flattens

LEMMA FlattenExists == ASSUME NEW ss PROVE \A n \in Nat : \E f : Flattens(f, ss, n)
<1> DEFINE S == {n \in Nat : \E f : Flattens(f, ss, n)}
<1>1. 0 \in S
  <2>1. PICK f : f = [i \in 1..0 |-> 0]
    OBVIOUS
  <2>2. PICK D : D = [i \in 1..0 |-> 0]
    OBVIOUS
  <2>3. f = [i \in 1..0 |-> D[i]] /\ 1..0 = {}
    BY <2>1, <2>2
  <2>4. PICK n \in Nat : n = 0
    OBVIOUS
  <2>5. /\ f = [i \in 1..n |-> D[i]] /\ ~(n >= 1)
        /\ \A i \in 1..n : i # 1 => f[i] = f[i - 1] \o ss[i]
    BY <2>3, <2>4
  <2>6. Flattens(f, ss, n)
    BY <2>5, FlattenIs
  <2>7. QED
    BY <2>4, <2>6
<1>2. ASSUME NEW n \in Nat, n \in S PROVE n + 1 \in S
  <2>1. PICK f : Flattens(f, ss, n)
    BY <1>2
  <2>2. /\ n >= 1 => f[1] = ss[1]
        /\ \A i \in 1..n : i # 1 => f[i] = f[i - 1] \o ss[i]
    BY <2>1, FlattenAt
  <2>3. PICK last : last = IF n = 0 THEN ss[1] ELSE f[n] \o ss[n + 1]
    OBVIOUS
  <2>4. PICK D : D = [i \in 1..(n + 1) |-> IF i = n + 1 THEN last ELSE f[i]]
    OBVIOUS
  <2>5. PICK g : g = [i \in 1..(n + 1) |-> D[i]]
    OBVIOUS
  <2>6. g[n + 1] = last /\ \A i \in 1..n : g[i] = f[i]
    BY <2>4, <2>5
  <2>7. g[1] = ss[1]
    BY <2>2, <2>3, <2>6
  <2>8. ASSUME NEW i \in 1..(n + 1), i # 1 PROVE g[i] = g[i - 1] \o ss[i]
    <3>1. i - 1 \in 1..n /\ g[i - 1] = f[i - 1]
      BY <2>6, <2>8
    <3>2. CASE i = n + 1
      <4>1. n # 0 /\ i - 1 = n
        BY <2>8, <3>2
      <4>2. g[i] = f[n] \o ss[i]
        BY <2>3, <2>6, <3>2, <4>1
      <4>3. QED
        BY <3>1, <4>1, <4>2
    <3>3. CASE i # n + 1
      <4>1. i \in 1..n
        BY <3>3
      <4>2. QED
        BY <2>2, <2>6, <2>8, <3>1, <4>1
    <3>4. QED
      BY <3>2, <3>3
  <2>9. PICK k \in Nat : k = n + 1
    OBVIOUS
  <2>10. g = [i \in 1..k |-> D[i]] /\ \A i \in 1..k : i # 1 => g[i] = g[i - 1] \o ss[i]
    BY <2>5, <2>8, <2>9
  <2>11. Flattens(g, ss, k)
    BY <2>7, <2>10, FlattenIs
  <2>12. QED
    BY <2>9, <2>11
<1>3. Nat \subseteq S
  <2> HIDE DEF S
  <2>1. QED
    BY <1>1, <1>2, NatsIn
<1>4. QED
  BY <1>3

LEMMA FlattenOne ==
    ASSUME NEW f, NEW g, NEW ss, NEW n \in Nat, Flattens(f, ss, n), Flattens(g, ss, n),
           NEW k \in 1..n
    PROVE  f[k] = g[k]
<1> DEFINE S == {i \in Nat : i \in 1..n => f[i] = g[i]}
<1>1. /\ f[1] = ss[1] /\ g[1] = ss[1]
      /\ \A i \in 1..n : i # 1 => f[i] = f[i - 1] \o ss[i] /\ g[i] = g[i - 1] \o ss[i]
  <2>1. n >= 1
    OBVIOUS
  <2>2. QED
    BY <2>1, FlattenAt
<1>2. 0 \in S
  OBVIOUS
<1>3. ASSUME NEW i \in Nat, i \in S PROVE i + 1 \in S
  <2>1. SUFFICES ASSUME i + 1 \in 1..n PROVE f[i + 1] = g[i + 1]
    OBVIOUS
  <2>2. CASE i = 0
    BY <1>1, <2>2
  <2>3. CASE i # 0
    <3>1. i \in 1..n /\ i + 1 # 1 /\ (i + 1) - 1 = i
      BY <2>1, <2>3
    <3>2. f[i] = g[i]
      BY <1>3, <3>1
    <3>3. f[i + 1] = f[(i + 1) - 1] \o ss[i + 1] /\ g[i + 1] = g[(i + 1) - 1] \o ss[i + 1]
      BY <1>1, <2>1, <3>1
    <3>4. QED
      BY <3>1, <3>2, <3>3
  <2>4. QED
    BY <2>2, <2>3
<1>4. Nat \subseteq S
  <2> HIDE DEF S
  <2>1. QED
    BY <1>2, <1>3, NatsIn
<1>5. QED
  BY <1>4

LEMMA FlattenLast ==
    ASSUME NEW ss, NEW n \in Nat \ {0}, Len(ss) = n, NEW f, Flattens(f, ss, n)
    PROVE  FlattenSeq(ss) = f[n]
<1> DEFINE c == CHOOSE g : g = [i \in 1..n |-> IF i = 1 THEN ss[i] ELSE g[i - 1] \o ss[i]]
<1>1. Flattens(c, ss, n)
  BY DEF Flattens
<1>2. c[n] = f[n]
  <2> HIDE DEF c
  <2>1. n \in Nat /\ n \in 1..n
    OBVIOUS
  <2>2. QED
    BY <1>1, <2>1, FlattenOne
<1>3. FlattenSeq(ss) = c[n]
  BY DEF FlattenSeq
<1>4. QED
  BY <1>2, <1>3

\* One more at the end.
LEMMA FlattenAppend ==
    ASSUME NEW S, NEW ss \in Seq(Seq(S)), NEW t \in Seq(S)
    PROVE  FlattenSeq(Append(ss, t)) = FlattenSeq(ss) \o t
<1> DEFINE all == Append(ss, t)
           n == Len(ss)
<1>1. /\ n \in Nat /\ Len(all) = n + 1 /\ all[n + 1] = t
      /\ \A i \in 1..n : all[i] = ss[i]
  <2>1. n \in Nat
    BY LenProperties
  <2>2. Len(all) = n + 1
    BY AppendProperties
  <2>3. all[n + 1] = t
    BY AppendProperties
  <2>4. \A i \in 1..n : all[i] = ss[i]
    BY AppendProperties
  <2>5. QED
    BY <2>1, <2>2, <2>3, <2>4
<1> HIDE DEF all
<1>2. PICK f : Flattens(f, all, n + 1)
  <2>1. n + 1 \in Nat
    BY <1>1
  <2>2. \A k \in Nat : \E f : Flattens(f, all, k)
    BY FlattenExists
  <2>3. QED
    BY <2>1, <2>2
<1>3. FlattenSeq(all) = f[n + 1]
  <2>1. n + 1 \in Nat \ {0}
    BY <1>1
  <2>2. QED
    BY <1>1, <1>2, <2>1, FlattenLast
<1>4. /\ f[1] = all[1]
      /\ \A i \in 1..(n + 1) : i # 1 => f[i] = f[i - 1] \o all[i]
  <2>1. n + 1 \in Nat /\ n + 1 >= 1
    BY <1>1
  <2>2. QED
    BY <1>2, <2>1, FlattenAt
<1>5. CASE n = 0
  <2>1. ss = <<>> /\ Len(ss) = 0
    BY <1>5, EmptySeq
  <2>2. FlattenSeq(ss) = ss
    BY <2>1 DEF FlattenSeq
  <2>3. <<>> \o t = t
    BY ConcatEmptySeq
  <2>4. f[n + 1] = t
    BY <1>1, <1>4, <1>5
  <2>5. QED
    BY <1>3, <2>1, <2>2, <2>3, <2>4 DEF all
<1>6. CASE n # 0
  <2>1. PICK D : D = [i \in 1..n |-> f[i]]
    OBVIOUS
  <2>2. PICK g : g = [i \in 1..n |-> D[i]]
    OBVIOUS
  <2>3. \A i \in 1..n : g[i] = f[i]
    BY <2>1, <2>2
  <2>4. g[1] = ss[1]
    <3>1. 1 \in 1..n
      BY <1>1, <1>6
    <3>2. QED
      BY <1>1, <1>4, <2>3, <3>1
  <2>5. ASSUME NEW i \in 1..n, i # 1 PROVE g[i] = g[i - 1] \o ss[i]
    <3>1. i - 1 \in 1..n /\ i \in 1..(n + 1)
      BY <1>1, <2>5
    <3>2. f[i] = f[i - 1] \o all[i]
      BY <1>4, <2>5, <3>1
    <3>3. QED
      BY <1>1, <2>3, <3>1, <3>2
  <2>6. Flattens(g, ss, n)
    BY <1>1, <2>2, <2>4, <2>5, FlattenIs
  <2>7. FlattenSeq(ss) = g[n]
    BY <1>1, <1>6, <2>6, FlattenLast
  <2>8. f[n + 1] = f[n] \o t
    <3>1. n + 1 \in 1..(n + 1) /\ n + 1 # 1 /\ (n + 1) - 1 = n
      BY <1>1, <1>6
    <3>2. f[n + 1] = f[(n + 1) - 1] \o all[n + 1]
      BY <1>4, <3>1
    <3>3. QED
      BY <1>1, <3>1, <3>2
  <2>9. g[n] = f[n]
    BY <1>1, <1>6, <2>3
  <2>10. QED
    BY <1>3, <2>7, <2>8, <2>9 DEF all
<1>7. QED
  BY <1>5, <1>6

\* What comes out is of what went in.
LEMMA FlattenType ==
    ASSUME NEW S, NEW ss \in Seq(Seq(S))
    PROVE  FlattenSeq(ss) \in Seq(S)
<1>1. PICK n \in Nat : n = Len(ss)
  BY LenProperties
<1>2. \A i \in 1..n : ss[i] \in Seq(S)
  BY <1>1, ElementOfSeq
<1>3. CASE n = 0
  <2>1. ss = <<>>
    BY <1>1, <1>3, EmptySeq
  <2>2. QED
    BY <1>1, <1>3, <2>1, EmptySeq DEF FlattenSeq
<1>4. CASE n # 0
  <2>1. PICK f : Flattens(f, ss, n)
    BY FlattenExists
  <2>2. /\ f[1] = ss[1]
        /\ \A i \in 1..n : i # 1 => f[i] = f[i - 1] \o ss[i]
    <3>1. n >= 1
      BY <1>4
    <3>2. QED
      BY <2>1, <3>1, FlattenAt
  <2> DEFINE I == {i \in Nat : i \in 1..n => f[i] \in Seq(S)}
  <2>3. 0 \in I
    OBVIOUS
  <2>4. ASSUME NEW i \in Nat, i \in I PROVE i + 1 \in I
    <3>1. SUFFICES ASSUME i + 1 \in 1..n PROVE f[i + 1] \in Seq(S)
      OBVIOUS
    <3>2. CASE i = 0
      BY <1>2, <2>2, <3>1, <3>2
    <3>3. CASE i # 0
      <4>1. i \in 1..n /\ i + 1 # 1 /\ (i + 1) - 1 = i
        BY <3>1, <3>3
      <4>2. f[i] \in Seq(S) /\ ss[i + 1] \in Seq(S)
        BY <1>2, <2>4, <3>1, <4>1
      <4>3. f[i + 1] = f[(i + 1) - 1] \o ss[i + 1]
        BY <2>2, <3>1, <4>1
      <4>4. QED
        BY <4>1, <4>2, <4>3, ConcatProperties
    <3>4. QED
      BY <3>2, <3>3
  <2>5. Nat \subseteq I
    <3> HIDE DEF I
    <3>1. QED
      BY <2>3, <2>4, NatsIn
  <2>6. n \in 1..n
    BY <1>4
  <2>7. f[n] \in Seq(S)
    BY <2>5, <2>6
  <2>8. FlattenSeq(ss) = f[n]
    BY <1>1, <1>4, <2>1, FlattenLast
  <2>9. QED
    BY <2>7, <2>8
<1>5. QED
  BY <1>3, <1>4

LEMMA AppendConcat ==
    ASSUME NEW S, NEW s \in Seq(S), NEW t \in Seq(S), NEW x \in S
    PROVE  s \o Append(t, x) = Append(s \o t, x)
OBVIOUS

LEMMA FlattenNext ==
    ASSUME NEW S, NEW ss \in Seq(Seq(S)), NEW tt \in Seq(Seq(S)), Len(tt) = Len(ss) + 1,
           \A i \in 1..Len(ss) : tt[i] = ss[i]
    PROVE  FlattenSeq(tt) = FlattenSeq(ss) \o tt[Len(ss) + 1]
<1>1. PICK n \in Nat : n = Len(ss)
  BY LenProperties
<1>2. PICK t \in Seq(S) : t = tt[n + 1]
  <2>1. n + 1 \in 1..Len(tt)
    BY <1>1
  <2>2. QED
    BY <1>1, <2>1, ElementOfSeq
<1>3. PICK all : all = Append(ss, t)
  OBVIOUS
<1>4. /\ all \in Seq(Seq(S)) /\ Len(all) = n + 1 /\ all[n + 1] = t
      /\ \A i \in 1..n : all[i] = ss[i]
  BY <1>1, <1>3, AppendProperties
<1>5. Len(tt) = n + 1 /\ \A i \in 1..n : tt[i] = ss[i]
  BY <1>1
<1>6. \A i \in 1..Len(tt) : tt[i] = all[i]
  <2>1. SUFFICES ASSUME NEW i \in 1..(n + 1) PROVE tt[i] = all[i]
    BY <1>5
  <2>2. i \in 1..n \/ i = n + 1
    BY <1>1
  <2>3. QED
    BY <1>2, <1>4, <1>5, <2>2
<1>7. Len(tt) = Len(all)
  BY <1>4, <1>5
<1>8. tt = all
  BY <1>4, <1>6, <1>7, SeqEqual
<1>9. FlattenSeq(all) = FlattenSeq(ss) \o t
  BY <1>3, FlattenAppend
<1>10. QED
  BY <1>1, <1>2, <1>8, <1>9

LEMMA FlattenConcat ==
    ASSUME NEW S, NEW ss \in Seq(Seq(S)), NEW tt \in Seq(Seq(S))
    PROVE  FlattenSeq(ss \o tt) = FlattenSeq(ss) \o FlattenSeq(tt)
<1> DEFINE Holds(t) == FlattenSeq(ss \o t) = FlattenSeq(ss) \o FlattenSeq(t)
           N == {n \in Nat : \A t \in Seq(Seq(S)) : Len(t) = n => Holds(t)}
<1>1. 0 \in N
  <2>1. SUFFICES ASSUME NEW t \in Seq(Seq(S)), Len(t) = 0 PROVE Holds(t)
    OBVIOUS
  <2>2. t = <<>>
    BY <2>1, EmptySeq
  <2>3. ss \o t = ss
    BY <2>2, ConcatEmptySeq
  <2>4. FlattenSeq(t) = <<>>
    BY <2>1, <2>2 DEF FlattenSeq
  <2>5. FlattenSeq(ss) \o <<>> = FlattenSeq(ss)
    BY FlattenType, ConcatEmptySeq
  <2>6. QED
    BY <2>3, <2>4, <2>5
<1>2. ASSUME NEW n \in Nat, n \in N PROVE n + 1 \in N
  <2>1. SUFFICES ASSUME NEW t \in Seq(Seq(S)), Len(t) = n + 1 PROVE Holds(t)
    BY DEF N
  <2>2. t # <<>>
    BY <2>1, EmptySeq
  <2>3. PICK s \in Seq(Seq(S)), x \in Seq(S) : t = Append(s, x)
    BY <2>2, SequenceEmptyOrAppend
  <2>4. Len(s) \in Nat /\ Len(t) = Len(s) + 1
    BY <2>3, AppendProperties, LenProperties
  <2>5. Len(s) = n
    BY <2>1, <2>4
  <2>6. Holds(s)
    BY <1>2, <2>5
  <2>7. FlattenSeq(t) = FlattenSeq(s) \o x
    BY <2>3, FlattenAppend
  <2>8. ss \o t = Append(ss \o s, x)
    BY <2>3, AppendConcat
  <2>9. ss \o s \in Seq(Seq(S))
    BY ConcatProperties
  <2>10. FlattenSeq(ss \o t) = FlattenSeq(ss \o s) \o x
    BY <2>8, <2>9, FlattenAppend
  <2>11. PICK a \in Seq(S), b \in Seq(S) : a = FlattenSeq(ss) /\ b = FlattenSeq(s)
    BY FlattenType
  <2>12. (a \o b) \o x = a \o (b \o x)
    BY ConcatAssociative
  <2>13. QED
    BY <2>6, <2>7, <2>10, <2>11, <2>12
<1>3. Nat \subseteq N
  <2> HIDE DEF N
  <2>1. QED
    BY <1>1, <1>2, NatsIn
<1>4. Len(tt) \in Nat
  BY LenProperties
<1>5. Holds(tt)
  BY <1>3, <1>4
<1>6. QED
  BY <1>5

\* Dropping the last.
LEMMA FrontFacts ==
    ASSUME NEW S, NEW s \in Seq(S), s # <<>>
    PROVE  /\ Front(s) \in Seq(S) /\ Len(s) \in Nat \ {0} /\ Len(Front(s)) = Len(s) - 1
           /\ \A i \in 1..(Len(s) - 1) : Front(s)[i] = s[i]
           /\ Last(s) \in S /\ Range(s) = Range(Front(s)) \union {Last(s)}
<1>1. PICK n \in Nat \ {0} : n = Len(s)
  BY EmptySeq
<1>2. PICK f : f = Front(s)
  OBVIOUS
<1>3. f = SubSeq(s, 1, n - 1)
  BY <1>1, <1>2 DEF Front
<1>4. f \in Seq(S) /\ Len(f) = n - 1 /\ \A i \in 1..(n - 1) : f[i] = s[i]
  BY <1>1, <1>3
<1>5. Last(s) = s[n] /\ s[n] \in S
  BY <1>1, ElementOfSeq DEF Last
<1>6. Range(s) = {s[i] : i \in 1..n} /\ Range(f) = {f[i] : i \in 1..(n - 1)}
  BY <1>1, <1>4, RangeEquality
<1>7. 1..n = (1..(n - 1)) \union {n}
  OBVIOUS
<1>8. Range(s) = Range(f) \union {s[n]}
  BY <1>4, <1>6, <1>7
<1>9. QED
  BY <1>1, <1>2, <1>4, <1>5, <1>8

LEMMA PushFacts ==
    ASSUME NEW S, NEW s \in Seq(S), NEW x \in S
    PROVE  /\ Append(s, x) \in Seq(S) /\ Len(s) \in Nat /\ Len(Append(s, x)) = Len(s) + 1
           /\ \A i \in 1..Len(s) : Append(s, x)[i] = s[i]
           /\ Append(s, x)[Len(s) + 1] = x
           /\ Range(Append(s, x)) = Range(s) \union {x}
<1>1. PICK n \in Nat : n = Len(s)
  BY LenProperties
<1>2. PICK f : f = Append(s, x)
  OBVIOUS
<1>3. f \in Seq(S) /\ Len(f) = n + 1 /\ f[n + 1] = x /\ \A i \in 1..n : f[i] = s[i]
  BY <1>1, <1>2, AppendProperties
<1>4. Range(s) = {s[i] : i \in 1..n} /\ Range(f) = {f[i] : i \in 1..(n + 1)}
  BY <1>1, <1>3, RangeEquality
<1>5. 1..(n + 1) = (1..n) \union {n + 1}
  OBVIOUS
<1>6. Range(f) = Range(s) \union {x}
  BY <1>3, <1>4, <1>5
<1>7. QED
  BY <1>1, <1>2, <1>3, <1>6

\* A list made of what stands at each place.
LEMMA Listing1 ==
    ASSUME NEW T, NEW n \in Nat, NEW f \in [1..n -> T]
    PROVE  f \in Seq(T) /\ Len(f) = n
OBVIOUS

\* Each element replaced by a list, one list of all of them.
Mapped(g, s) == [i \in 1..Len(s) |-> g[s[i]]]
Each(g, s) == FlattenSeq(Mapped(g, s))

\* g gives each element of S a list over T.
Lists(g, S, T) == g \in [S -> Seq(T)]

LEMMA EachFacts ==
    ASSUME NEW S, NEW T, NEW g, Lists(g, S, T), NEW s \in Seq(S), NEW m, m = Mapped(g, s)
    PROVE  m \in Seq(Seq(T)) /\ Len(m) = Len(s) /\ \A i \in 1..Len(s) : m[i] = g[s[i]]
<1>1. PICK n \in Nat : n = Len(s)
  BY LenProperties
<1>2. \A i \in 1..n : s[i] \in S
  BY <1>1, ElementOfSeq
<1>3. m = [i \in 1..n |-> g[s[i]]]
  BY <1>1 DEF Mapped
<1>4. m \in [1..n -> Seq(T)]
  BY <1>2, <1>3 DEF Lists
<1>5. m \in Seq(Seq(T)) /\ Len(m) = n
  BY <1>4, Listing1
<1>6. QED
  BY <1>1, <1>3, <1>5

LEMMA EachType ==
    ASSUME NEW S, NEW T, NEW g, Lists(g, S, T), NEW s \in Seq(S)
    PROVE  Each(g, s) \in Seq(T)
<1>1. Mapped(g, s) \in Seq(Seq(T))
  BY EachFacts
<1>2. QED
  BY <1>1, FlattenType DEF Each

LEMMA EachEmpty == ASSUME NEW g PROVE Each(g, <<>>) = <<>>
<1>1. Mapped(g, <<>>) = <<>>
  BY DEF Mapped
<1>2. FlattenSeq(<<>>) = <<>>
  BY DEF FlattenSeq
<1>3. QED
  BY <1>1, <1>2 DEF Each

LEMMA EachConcat ==
    ASSUME NEW S, NEW T, NEW g, Lists(g, S, T), NEW s \in Seq(S), NEW t \in Seq(S)
    PROVE  Each(g, s \o t) = Each(g, s) \o Each(g, t)
<1>1. PICK u : u = s \o t
  OBVIOUS
<1>2. PICK n \in Nat, m \in Nat : n = Len(s) /\ m = Len(t)
  BY LenProperties
<1>3. /\ u \in Seq(S) /\ Len(u) = n + m
      /\ \A i \in 1..(n + m) : u[i] = IF i <= n THEN s[i] ELSE t[i - n]
  BY <1>1, <1>2, ConcatProperties
<1>4. PICK p : p = Mapped(g, s)
  OBVIOUS
<1>5. PICK q : q = Mapped(g, t)
  OBVIOUS
<1>6. PICK r : r = Mapped(g, u)
  OBVIOUS
<1>7. p \in Seq(Seq(T)) /\ Len(p) = n /\ \A i \in 1..n : p[i] = g[s[i]]
  BY <1>2, <1>4, EachFacts
<1>8. q \in Seq(Seq(T)) /\ Len(q) = m /\ \A i \in 1..m : q[i] = g[t[i]]
  BY <1>2, <1>5, EachFacts
<1>9. r \in Seq(Seq(T)) /\ Len(r) = n + m /\ \A i \in 1..(n + m) : r[i] = g[u[i]]
  <2>1. u \in Seq(S)
    BY <1>3
  <2>2. r \in Seq(Seq(T)) /\ Len(r) = Len(u) /\ \A i \in 1..Len(u) : r[i] = g[u[i]]
    BY <1>6, <2>1, EachFacts
  <2>3. QED
    BY <1>3, <2>2
<1>10. PICK v : v = p \o q
  OBVIOUS
<1>11. /\ v \in Seq(Seq(T)) /\ Len(v) = n + m
       /\ \A i \in 1..(n + m) : v[i] = IF i <= n THEN p[i] ELSE q[i - n]
  <2>1. v \in Seq(Seq(T)) /\ Len(v) = Len(p) + Len(q)
    BY <1>7, <1>8, <1>10, ConcatProperties
  <2>2. \A i \in 1..(Len(p) + Len(q)) : v[i] = IF i <= Len(p) THEN p[i] ELSE q[i - Len(p)]
    BY <1>7, <1>8, <1>10, ConcatProperties
  <2>3. Len(p) = n /\ Len(q) = m
    BY <1>7, <1>8
  <2>4. QED
    BY <2>1, <2>2, <2>3
<1>12. \A i \in 1..(n + m) : r[i] = v[i]
  <2>1. SUFFICES ASSUME NEW i \in 1..(n + m) PROVE r[i] = v[i]
    OBVIOUS
  <2>2. CASE i <= n
    <3>1. i \in 1..n
      BY <2>2
    <3>2. u[i] = s[i] /\ v[i] = p[i] /\ p[i] = g[s[i]] /\ r[i] = g[u[i]]
      BY <1>3, <1>7, <1>9, <1>11, <2>2, <3>1
    <3>3. QED
      BY <3>2
  <2>3. CASE ~(i <= n)
    <3>1. i - n \in 1..m
      BY <2>3
    <3>2. QED
      BY <1>3, <1>8, <1>9, <1>11, <2>3, <3>1
  <2>4. QED
    BY <2>2, <2>3
<1>13. r = v
  BY <1>9, <1>11, <1>12, SeqEqual
<1>14. FlattenSeq(v) = FlattenSeq(p) \o FlattenSeq(q)
  BY <1>7, <1>8, <1>10, FlattenConcat
<1>15. QED
  BY <1>1, <1>4, <1>5, <1>6, <1>13, <1>14 DEF Each

LEMMA FlattenSingle ==
    ASSUME NEW S, NEW x \in Seq(S)
    PROVE  FlattenSeq(<<x>>) = x
<1>1. <<>> \in Seq(Seq(S)) /\ <<x>> = Append(<<>>, x)
  OBVIOUS
<1>2. FlattenSeq(<<>>) = <<>>
  BY DEF FlattenSeq
<1>3. FlattenSeq(Append(<<>>, x)) = <<>> \o x
  BY <1>1, <1>2, FlattenAppend
<1>4. QED
  BY <1>1, <1>3, ConcatEmptySeq

LEMMA EachOne ==
    ASSUME NEW S, NEW T, NEW g, Lists(g, S, T), NEW x \in S
    PROVE  Each(g, <<x>>) = g[x]
<1>1. Mapped(g, <<x>>) = <<g[x]>>
  BY DEF Mapped
<1>2. g[x] \in Seq(T)
  BY DEF Lists
<1>3. QED
  BY <1>1, <1>2, FlattenSingle DEF Each

\* Lists of nothing.
LEMMA FlattenNothing ==
    ASSUME NEW S, NEW ss \in Seq(Seq(S)), \A i \in 1..Len(ss) : ss[i] = <<>>
    PROVE  FlattenSeq(ss) = <<>>
<1> DEFINE Holds(t) == (\A i \in 1..Len(t) : t[i] = <<>>) => FlattenSeq(t) = <<>>
           N == {n \in Nat : \A t \in Seq(Seq(S)) : Len(t) = n => Holds(t)}
<1>1. 0 \in N
  <2>1. SUFFICES ASSUME NEW t \in Seq(Seq(S)), Len(t) = 0 PROVE FlattenSeq(t) = <<>>
    OBVIOUS
  <2>2. t = <<>>
    BY <2>1, EmptySeq
  <2>3. QED
    BY <2>1, <2>2 DEF FlattenSeq
<1>2. ASSUME NEW n \in Nat, n \in N PROVE n + 1 \in N
  <2>1. SUFFICES ASSUME NEW t \in Seq(Seq(S)), Len(t) = n + 1, \A i \in 1..Len(t) : t[i] = <<>>
                 PROVE  FlattenSeq(t) = <<>>
    BY DEF N
  <2>2. t # <<>>
    BY <2>1, EmptySeq
  <2>3. PICK s \in Seq(Seq(S)), x \in Seq(S) : t = Append(s, x)
    BY <2>2, SequenceEmptyOrAppend
  <2>4. Len(s) \in Nat /\ Len(t) = Len(s) + 1 /\ t[Len(s) + 1] = x /\ \A i \in 1..Len(s) : t[i] = s[i]
    BY <2>3, AppendProperties, LenProperties
  <2>5. Len(s) = n /\ x = <<>> /\ \A i \in 1..Len(s) : s[i] = <<>>
    BY <2>1, <2>4
  <2>6. FlattenSeq(s) = <<>>
    BY <1>2, <2>5
  <2>7. FlattenSeq(t) = FlattenSeq(s) \o x
    BY <2>3, FlattenAppend
  <2>8. QED
    BY <2>5, <2>6, <2>7, ConcatEmptySeq
<1>3. Nat \subseteq N
  <2> HIDE DEF N
  <2>1. QED
    BY <1>1, <1>2, NatsIn
<1>4. Len(ss) \in Nat
  BY LenProperties
<1>5. Holds(ss)
  BY <1>3, <1>4
<1>6. QED
  BY <1>5

LEMMA EachNone ==
    ASSUME NEW S, NEW T, NEW g, Lists(g, S, T), NEW s \in Seq(S), \A x \in Range(s) : g[x] = <<>>
    PROVE  Each(g, s) = <<>>
<1>1. PICK m : m = Mapped(g, s)
  OBVIOUS
<1>2. m \in Seq(Seq(T)) /\ Len(m) = Len(s) /\ \A i \in 1..Len(s) : m[i] = g[s[i]]
  BY <1>1, EachFacts
<1>3. Range(s) = {s[i] : i \in 1..Len(s)}
  BY RangeEquality
<1>4. \A i \in 1..Len(m) : m[i] = <<>>
  BY <1>2, <1>3
<1>5. QED
  BY <1>1, <1>2, <1>4, FlattenNothing DEF Each

Eaches(g, p) == [i \in 1..Len(p) |-> Each(g, p[i])]

LEMMA EachesFacts ==
    ASSUME NEW S, NEW T, NEW g, Lists(g, S, T), NEW p \in Seq(Seq(S)), NEW e, e = Eaches(g, p)
    PROVE  e \in Seq(Seq(T)) /\ Len(e) = Len(p) /\ \A i \in 1..Len(p) : e[i] = Each(g, p[i])
<1>1. PICK n \in Nat : n = Len(p)
  BY LenProperties
<1>2. \A i \in 1..n : Each(g, p[i]) \in Seq(T)
  BY <1>1, ElementOfSeq, EachType
<1>3. PICK m : m = [i \in 1..n |-> Each(g, p[i])]
  OBVIOUS
<1>4. m \in [1..n -> Seq(T)]
  BY <1>2, <1>3
<1>5. m \in Seq(Seq(T)) /\ Len(m) = n
  BY <1>4, Listing1
<1>6. m = e
  BY <1>1, <1>3 DEF Eaches
<1>7. QED
  BY <1>1, <1>3, <1>5, <1>6

LEMMA EachFlatten ==
    ASSUME NEW S, NEW T, NEW g, Lists(g, S, T), NEW p \in Seq(Seq(S))
    PROVE  Each(g, FlattenSeq(p)) = FlattenSeq(Eaches(g, p))
<1> DEFINE Holds(t) == Each(g, FlattenSeq(t)) = FlattenSeq(Eaches(g, t))
           N == {n \in Nat : \A t \in Seq(Seq(S)) : Len(t) = n => Holds(t)}
<1>1. 0 \in N
  <2>1. SUFFICES ASSUME NEW t \in Seq(Seq(S)), Len(t) = 0 PROVE Holds(t)
    OBVIOUS
  <2>2. t = <<>>
    BY <2>1, EmptySeq
  <2>3. FlattenSeq(<<>>) = <<>>
    BY DEF FlattenSeq
  <2>4. Eaches(g, <<>>) = <<>>
    BY DEF Eaches
  <2>5. QED
    BY <2>2, <2>3, <2>4, EachEmpty
<1>2. ASSUME NEW n \in Nat, n \in N PROVE n + 1 \in N
  <2>1. SUFFICES ASSUME NEW t \in Seq(Seq(S)), Len(t) = n + 1 PROVE Holds(t)
    BY DEF N
  <2>2. t # <<>>
    BY <2>1, EmptySeq
  <2>3. PICK s \in Seq(Seq(S)), x \in Seq(S) : t = Append(s, x)
    BY <2>2, SequenceEmptyOrAppend
  <2>4. Len(s) \in Nat /\ Len(t) = Len(s) + 1 /\ t[Len(s) + 1] = x /\ \A i \in 1..Len(s) : t[i] = s[i]
    BY <2>3, AppendProperties, LenProperties
  <2>5. Holds(s)
    BY <1>2, <2>1, <2>4
  <2>6. FlattenSeq(t) = FlattenSeq(s) \o x
    BY <2>3, FlattenAppend
  <2>7. PICK f \in Seq(S) : f = FlattenSeq(s)
    BY FlattenType
  <2>8. Each(g, f \o x) = Each(g, f) \o Each(g, x)
    BY EachConcat
  <2>9. PICK a : a = Eaches(g, s)
    OBVIOUS
  <2>10. PICK b : b = Eaches(g, t)
    OBVIOUS
  <2>11. a \in Seq(Seq(T)) /\ Len(a) = Len(s) /\ \A i \in 1..Len(s) : a[i] = Each(g, s[i])
    BY <2>9, EachesFacts
  <2>12. b \in Seq(Seq(T)) /\ Len(b) = Len(t) /\ \A i \in 1..Len(t) : b[i] = Each(g, t[i])
    BY <2>10, EachesFacts
  <2>13. Len(b) = Len(a) + 1 /\ \A i \in 1..Len(a) : b[i] = a[i]
    BY <2>4, <2>11, <2>12
  <2>14. FlattenSeq(b) = FlattenSeq(a) \o b[Len(a) + 1]
    BY <2>11, <2>12, <2>13, FlattenNext
  <2>15. b[Len(a) + 1] = Each(g, x)
    BY <2>4, <2>11, <2>12
  <2>16. QED
    BY <2>5, <2>6, <2>7, <2>8, <2>9, <2>10, <2>14, <2>15
<1>3. Nat \subseteq N
  <2> HIDE DEF N
  <2>1. QED
    BY <1>1, <1>2, NatsIn
<1>4. Len(p) \in Nat
  BY LenProperties
<1>5. Holds(p)
  BY <1>3, <1>4
<1>6. QED
  BY <1>5

\* What a list of lists holds.
LEMMA FlattenRange ==
    ASSUME NEW S, NEW p \in Seq(Seq(S)), NEW y
    PROVE  y \in Range(FlattenSeq(p)) <=> \E i \in 1..Len(p) : y \in Range(p[i])
<1> DEFINE Holds(t) == y \in Range(FlattenSeq(t)) <=> \E i \in 1..Len(t) : y \in Range(t[i])
           N == {n \in Nat : \A t \in Seq(Seq(S)) : Len(t) = n => Holds(t)}
<1>1. 0 \in N
  <2>1. SUFFICES ASSUME NEW t \in Seq(Seq(S)), Len(t) = 0 PROVE Holds(t)
    OBVIOUS
  <2>2. t = <<>>
    BY <2>1, EmptySeq
  <2>3. FlattenSeq(t) = <<>>
    BY <2>1, <2>2 DEF FlattenSeq
  <2>4. Range(<<>>) = {}
    BY DEF Range
  <2>5. QED
    BY <2>1, <2>3, <2>4
<1>2. ASSUME NEW n \in Nat, n \in N PROVE n + 1 \in N
  <2>1. SUFFICES ASSUME NEW t \in Seq(Seq(S)), Len(t) = n + 1 PROVE Holds(t)
    BY DEF N
  <2>2. t # <<>>
    BY <2>1, EmptySeq
  <2>3. PICK s \in Seq(Seq(S)), x \in Seq(S) : t = Append(s, x)
    BY <2>2, SequenceEmptyOrAppend
  <2>4. Len(s) \in Nat /\ Len(t) = Len(s) + 1 /\ t[Len(s) + 1] = x /\ \A i \in 1..Len(s) : t[i] = s[i]
    BY <2>3, AppendProperties, LenProperties
  <2>5. Holds(s)
    BY <1>2, <2>1, <2>4
  <2>6. Range(FlattenSeq(t)) = Range(FlattenSeq(s)) \union Range(x)
    <3>1. FlattenSeq(t) = FlattenSeq(s) \o x
      BY <2>3, FlattenAppend
    <3>2. FlattenSeq(s) \in Seq(S)
      BY FlattenType
    <3>3. QED
      BY <3>1, <3>2, RangeConcatenation
  <2>7. (\E i \in 1..Len(t) : y \in Range(t[i])) <=> (\E i \in 1..Len(s) : y \in Range(s[i])) \/ y \in Range(x)
    <3>1. 1..Len(t) = (1..Len(s)) \union {Len(s) + 1}
      BY <2>4
    <3>2. QED
      BY <2>4, <3>1
  <2>8. QED
    BY <2>5, <2>6, <2>7
<1>3. Nat \subseteq N
  <2> HIDE DEF N
  <2>1. QED
    BY <1>1, <1>2, NatsIn
<1>4. Len(p) \in Nat
  BY LenProperties
<1>5. Holds(p)
  BY <1>3, <1>4
<1>6. QED
  BY <1>5

\* The numbers of a set in order.
Chosen(S, n) == [k \in 1..n |-> When(k \in S, <<k>>)]

LEMMA ChosenFacts ==
    ASSUME NEW S, NEW n \in Nat
    PROVE  /\ Chosen(S, n) \in Seq(Seq(Nat)) /\ Len(Chosen(S, n)) = n /\ InOrder(S, n) = FlattenSeq(Chosen(S, n))
           /\ \A k \in 1..n : Chosen(S, n)[k] = When(k \in S, <<k>>)
<1>1. PICK f : f = Chosen(S, n)
  OBVIOUS
<1>2. ASSUME NEW k \in 1..n PROVE When(k \in S, <<k>>) \in Seq(Nat)
  <2>1. <<>> \in Seq(Nat) /\ <<k>> \in Seq(Nat)
    OBVIOUS
  <2>2. QED
    BY <2>1 DEF When
<1>3. f \in [1..n -> Seq(Nat)]
  BY <1>1, <1>2 DEF Chosen
<1>4. f \in Seq(Seq(Nat)) /\ Len(f) = n
  BY <1>3, Listing1
<1>5. InOrder(S, n) = FlattenSeq(Chosen(S, n))
  BY DEF InOrder, Chosen
<1>6. \A k \in 1..n : f[k] = When(k \in S, <<k>>)
  BY <1>1 DEF Chosen
<1>7. QED
  BY <1>1, <1>4, <1>5, <1>6

LEMMA InOrderNext ==
    ASSUME NEW S, NEW n \in Nat
    PROVE  InOrder(S, n + 1) = InOrder(S, n) \o When((n + 1) \in S, <<n + 1>>)
<1>1. PICK f : f = Chosen(S, n)
  OBVIOUS
<1>2. PICK g : g = Chosen(S, n + 1)
  OBVIOUS
<1>3. /\ f \in Seq(Seq(Nat)) /\ Len(f) = n /\ InOrder(S, n) = FlattenSeq(f)
      /\ \A k \in 1..n : f[k] = When(k \in S, <<k>>)
  BY <1>1, ChosenFacts
<1>4. PICK m \in Nat : m = n + 1
  OBVIOUS
<1>5. /\ g \in Seq(Seq(Nat)) /\ Len(g) = m /\ InOrder(S, m) = FlattenSeq(g)
      /\ \A k \in 1..m : g[k] = When(k \in S, <<k>>)
  BY <1>2, <1>4, ChosenFacts
<1>6. Len(g) = Len(f) + 1 /\ \A i \in 1..Len(f) : g[i] = f[i]
  <2>1. Len(g) = Len(f) + 1
    BY <1>3, <1>4, <1>5
  <2>2. ASSUME NEW i \in 1..n PROVE g[i] = f[i]
    <3>1. i \in 1..m
      BY <1>4, <2>2
    <3>2. g[i] = When(i \in S, <<i>>)
      BY <1>5, <3>1
    <3>3. f[i] = When(i \in S, <<i>>)
      BY <1>3, <2>2
    <3>4. QED
      BY <3>2, <3>3
  <2>3. QED
    BY <1>3, <2>1, <2>2
<1>7. FlattenSeq(g) = FlattenSeq(f) \o g[Len(f) + 1]
  BY <1>3, <1>5, <1>6, FlattenNext
<1>8. g[Len(f) + 1] = When(m \in S, <<m>>)
  <2>1. Len(f) + 1 = m /\ m \in 1..m
    BY <1>3, <1>4
  <2>2. QED
    BY <1>5, <2>1
<1>9. QED
  BY <1>3, <1>4, <1>5, <1>7, <1>8

\* A list without two elements of one key.
Apart(key, s) == \A i, j \in 1..Len(s) : key[s[i]] = key[s[j]] => i = j

LEMMA ApartConcat ==
    ASSUME NEW S, NEW s \in Seq(S), NEW t \in Seq(S), NEW key, Apart(key, s), Apart(key, t),
           \A x \in Range(s), y \in Range(t) : key[x] # key[y]
    PROVE  Apart(key, s \o t)
<1>1. PICK u : u = s \o t
  OBVIOUS
<1>2. PICK n \in Nat, m \in Nat : n = Len(s) /\ m = Len(t)
  BY LenProperties
<1>3. Len(u) = n + m /\ \A i \in 1..(n + m) : u[i] = IF i <= n THEN s[i] ELSE t[i - n]
  BY <1>1, <1>2, ConcatProperties
<1>4. Range(s) = {s[i] : i \in 1..n} /\ Range(t) = {t[i] : i \in 1..m}
  BY <1>2, RangeEquality
<1>5. SUFFICES ASSUME NEW i \in 1..(n + m), NEW j \in 1..(n + m), key[u[i]] = key[u[j]] PROVE i = j
  BY <1>1, <1>3 DEF Apart
<1>6. ASSUME NEW a \in 1..(n + m), NEW b \in 1..(n + m), a <= n, ~(b <= n), key[u[a]] = key[u[b]] PROVE FALSE
  <2>1. a \in 1..n /\ b - n \in 1..m
    BY <1>6
  <2>2. u[a] = s[a] /\ u[b] = t[b - n]
    BY <1>3, <1>6
  <2>3. s[a] \in Range(s) /\ t[b - n] \in Range(t)
    BY <1>4, <2>1
  <2>4. QED
    BY <1>6, <2>2, <2>3
<1>7. CASE i <= n /\ j <= n
  <2>1. i \in 1..n /\ j \in 1..n /\ u[i] = s[i] /\ u[j] = s[j]
    BY <1>3, <1>7
  <2>2. QED
    BY <1>2, <1>5, <2>1 DEF Apart
<1>8. CASE ~(i <= n) /\ ~(j <= n)
  <2>1. i - n \in 1..m /\ j - n \in 1..m /\ u[i] = t[i - n] /\ u[j] = t[j - n]
    BY <1>3, <1>8
  <2>2. i - n = j - n
    BY <1>2, <1>5, <2>1 DEF Apart
  <2>3. QED
    BY <2>2
<1>9. QED
  BY <1>5, <1>6, <1>7, <1>8

Itself == [k \in Nat |-> k]
InOrderIs(S, n, s) ==
  /\ s \in Seq(Nat) /\ Apart(Itself, s)
  /\ \A k : k \in Range(s) <=> k \in 1..n /\ k \in S

LEMMA InOrderIsNext ==
    ASSUME NEW S, NEW n \in Nat, NEW s, InOrderIs(S, n, s)
    PROVE  InOrderIs(S, n + 1, s \o When((n + 1) \in S, <<n + 1>>))
<1>1. PICK m \in Nat : m = n + 1
  OBVIOUS
<1>2. PICK w : w = When(m \in S, <<m>>)
  OBVIOUS
<1>3. s \in Seq(Nat) /\ Apart(Itself, s) /\ \A k : k \in Range(s) <=> k \in 1..n /\ k \in S
  BY DEF InOrderIs
<1>4. w \in Seq(Nat) /\ Apart(Itself, w) /\ Range(w) = IF m \in S THEN {m} ELSE {}
  <2>1. CASE m \in S
    <3>1. w = <<m>>
      BY <1>2, <2>1 DEF When
    <3>2. w \in Seq(Nat) /\ Len(w) = 1 /\ w[1] = m
      BY <3>1
    <3>3. Range(w) = {w[i] : i \in 1..Len(w)}
      BY <3>2, RangeEquality
    <3>4. 1..Len(w) = {1}
      BY <3>2
    <3>5. QED
      BY <2>1, <3>2, <3>3, <3>4 DEF Apart
  <2>2. CASE m \notin S
    <3>1. w = <<>>
      BY <1>2, <2>2 DEF When
    <3>2. w \in Seq(Nat) /\ Len(w) = 0
      BY <3>1
    <3>3. Range(w) = {w[i] : i \in 1..Len(w)}
      BY <3>2, RangeEquality
    <3>4. QED
      BY <2>2, <3>2, <3>3 DEF Apart
  <2>3. QED
    BY <2>1, <2>2
<1>5. \A x \in Range(s), y \in Range(w) : Itself[x] # Itself[y]
  <2>1. SUFFICES ASSUME NEW x \in Range(s), NEW y \in Range(w) PROVE Itself[x] # Itself[y]
    OBVIOUS
  <2>2. x \in 1..n /\ y = m
    BY <1>3, <1>4
  <2>3. QED
    BY <1>1, <2>2 DEF Itself
<1>6. PICK u : u = s \o w
  OBVIOUS
<1>7. u \in Seq(Nat) /\ Range(u) = Range(s) \union Range(w)
  BY <1>3, <1>4, <1>6, ConcatProperties, RangeConcatenation
<1>8. Apart(Itself, u)
  BY <1>3, <1>4, <1>5, <1>6, ApartConcat
<1>9. 1..m = (1..n) \union {m}
  BY <1>1
<1>10. \A k : k \in Range(u) <=> k \in 1..m /\ k \in S
  BY <1>3, <1>4, <1>7, <1>9
<1>11. QED
  BY <1>1, <1>2, <1>6, <1>7, <1>8, <1>10 DEF InOrderIs

LEMMA InOrderFacts ==
    ASSUME NEW S, NEW n \in Nat
    PROVE  /\ InOrder(S, n) \in Seq(Nat) /\ Apart(Itself, InOrder(S, n))
           /\ \A k : k \in Range(InOrder(S, n)) <=> k \in 1..n /\ k \in S
<1> DEFINE N == {k \in Nat : InOrderIs(S, k, InOrder(S, k))}
<1>1. 0 \in N
  <2>1. PICK f : f = Chosen(S, 0)
    OBVIOUS
  <2>2. f \in Seq(Seq(Nat)) /\ Len(f) = 0 /\ InOrder(S, 0) = FlattenSeq(f)
    BY <2>1, ChosenFacts
  <2>3. f = <<>>
    BY <2>2, EmptySeq
  <2>4. InOrder(S, 0) = <<>>
    BY <2>2, <2>3 DEF FlattenSeq
  <2>5. <<>> \in Seq(Nat) /\ Len(<<>>) = 0
    OBVIOUS
  <2>6. Range(<<>>) = {} /\ Apart(Itself, <<>>)
    BY DEF Range, Apart
  <2>7. 1..0 = {}
    OBVIOUS
  <2>8. QED
    BY <2>4, <2>5, <2>6, <2>7 DEF InOrderIs
<1>2. ASSUME NEW k \in Nat, k \in N PROVE k + 1 \in N
  <2>1. InOrderIs(S, k, InOrder(S, k))
    BY <1>2
  <2>2. InOrderIs(S, k + 1, InOrder(S, k) \o When((k + 1) \in S, <<k + 1>>))
    BY <2>1, InOrderIsNext
  <2>3. InOrderIs(S, k + 1, InOrder(S, k + 1))
    BY <2>2, InOrderNext
  <2>4. QED
    BY <2>3
<1>3. Nat \subseteq N
  <2> HIDE DEF N
  <2>1. QED
    BY <1>1, <1>2, NatsIn
<1>4. InOrderIs(S, n, InOrder(S, n))
  BY <1>3
<1>5. QED
  BY <1>4 DEF InOrderIs

------------------------------------------------------------------------------
(* Epub: from the document to the package.                                 *)

EpubSpec == EpubInit /\ [][EpubNext]_epubVars

Sections == {k \in 1..Len(book.body) : book.body[k].section}
Leaves == (1..Len(book.body)) \ Sections
Frames == [section : Sections \union {0}, own : BOOLEAN]
Chapters == [section : Sections \union {0}, paras : Seq(Leaves)]
BookSet == [body : Seq(Entries), notes : Seq(Entries), titled : BOOLEAN, binaries : Seq(Graphics), cover : Graphics]

EpubTypes ==
  /\ book \in BookSet
  /\ \A k \in 1..Len(book.body) : book.body[k].kind = "poem-break" => book.body[k].id = ""
  /\ stage \in {"split", "render", "contents", "package", "done"}
  /\ entry \in Nat \ {0}
  /\ frames \in Seq(Frames) /\ frames # <<>>
  /\ run \in Seq(Leaves) /\ chapters \in Seq(Chapters) /\ refs \in Seq(Sections)

\* The entries a chapter is made of, those of all chapters, and the numbers up to n.
Part(chapter) == When(chapter.section # 0, <<chapter.section>>) \o chapter.paras
SplitOf(list) == FlattenSeq([c \in 1..Len(list) |-> Part(list[c])])
Split == SplitOf(chapters)
UpTo(n) == [k \in 1..n |-> k]

\* What has been read is in the chapters, waits for the next one, or is the
\* heading of the innermost section, in the order of the book.
Splitting ==
  /\ entry <= Len(book.body) + 1
  /\ \A i \in 1..(Len(frames) - 1) : frames[i].own
  /\ (Split \o When(~Inner.own, <<Inner.section>>)) \o run = UpTo(entry - 1)
  /\ \A k \in Sections : k < entry => \/ \E c \in 1..Len(chapters) : chapters[c].section = k
                                      \/ ~Inner.own /\ Inner.section = k
  /\ \A c \in 1..Len(chapters) : chapters[c].section < entry
  /\ ~Inner.own => /\ Inner.section # 0 /\ Inner.section < entry
                   /\ \A c \in 1..Len(chapters) : chapters[c].section # Inner.section
  /\ refs = <<>> /\ written = <<>>

HeadedOnce == \A c, d \in 1..Len(chapters) : c # d /\ chapters[c].section = chapters[d].section => chapters[c].section = 0

\* The chapters that have been rendered, and what of the files is there then.
SoFar == IF stage = "render" THEN entry - 1 ELSE Len(chapters)
ChapterFiles == [c \in 1..SoFar |-> ChapterFile(c)]
Rendering ==
  /\ Split = UpTo(Len(book.body))
  /\ \A k \in Sections : \E c \in 1..Len(chapters) : chapters[c].section = k
  /\ SoFar <= Len(chapters)
  /\ \A m, n \in 1..Len(refs) : refs[m] = refs[n] => m = n
  /\ \A n \in 1..Len(refs) : \E c \in 1..SoFar : chapters[c].section = refs[n]
  /\ \A c \in 1..SoFar : chapters[c].section # 0 => \E n \in 1..Len(refs) : refs[n] = chapters[c].section
  /\ stage = "render" => written = ChapterFiles
  /\ stage = "contents" => written = ChapterFiles \o When(Notes # <<>>, <<NotesFile>>)
  /\ stage \in {"package", "done"} =>
       /\ written = (ChapterFiles \o When(Notes # <<>>, <<NotesFile>>)) \o OtherFiles
       /\ contents = Lines
  /\ stage = "done" => manifest = PackageItems /\ spine = [j \in 1..Len(ReadingOrder) |-> ReadingOrder[j].id]

EpubInv == EpubTypes /\ HeadedOnce /\ (stage = "split" => Splitting) /\ (stage # "split" => Rendering)

Nested1 == [section : Nat, paras : Seq(Nat)]

LEMMA PartType == ASSUME NEW ch \in Nested1 PROVE Part(ch) \in Seq(Nat)
<1>1. ch.section \in Nat /\ ch.paras \in Seq(Nat)
  BY DEF Nested1
<1>2. When(ch.section # 0, <<ch.section>>) \in Seq(Nat)
  <2>1. <<>> \in Seq(Nat) /\ <<ch.section>> \in Seq(Nat)
    BY <1>1
  <2>2. QED
    BY <2>1 DEF When
<1>3. QED
  BY <1>1, <1>2, ConcatProperties DEF Part

Parts(list) == [c \in 1..Len(list) |-> Part(list[c])]
LEMMA PartsFacts ==
    ASSUME NEW list \in Seq(Nested1), NEW p, p = Parts(list)
    PROVE  /\ p \in Seq(Seq(Nat)) /\ Len(p) = Len(list) /\ SplitOf(list) = FlattenSeq(p)
           /\ \A c \in 1..Len(list) : p[c] = Part(list[c])
<1>1. PICK n \in Nat : n = Len(list)
  BY LenProperties
<1>2. \A c \in 1..n : list[c] \in Nested1
  BY <1>1, ElementOfSeq
<1>3. \A c \in 1..n : Part(list[c]) \in Seq(Nat)
  BY <1>2, PartType
<1>4. p = [c \in 1..n |-> Part(list[c])]
  BY <1>1 DEF Parts
<1>5. p \in [1..n -> Seq(Nat)]
  BY <1>3, <1>4
<1>6. p \in Seq(Seq(Nat)) /\ Len(p) = n
  BY <1>5, Listing1
<1>7. SplitOf(list) = FlattenSeq(p)
  BY DEF SplitOf, Parts
<1>8. QED
  BY <1>1, <1>4, <1>6, <1>7

LEMMA SplitType == ASSUME NEW list \in Seq(Nested1) PROVE SplitOf(list) \in Seq(Nat)
<1>1. PICK p : p = Parts(list)
  OBVIOUS
<1>2. p \in Seq(Seq(Nat)) /\ SplitOf(list) = FlattenSeq(p)
  BY <1>1, PartsFacts
<1>3. QED
  BY <1>2, FlattenType

LEMMA SplitNext ==
    ASSUME NEW list \in Seq(Nested1), NEW ch \in Nested1
    PROVE  SplitOf(Append(list, ch)) = SplitOf(list) \o Part(ch)
<1>1. PICK more : more = Append(list, ch)
  OBVIOUS
<1>2. PICK n \in Nat : n = Len(list)
  BY LenProperties
<1>3. more \in Seq(Nested1) /\ Len(more) = n + 1 /\ more[n + 1] = ch /\ \A i \in 1..n : more[i] = list[i]
  BY <1>1, <1>2, PushFacts
<1>4. PICK p : p = Parts(list)
  OBVIOUS
<1>5. PICK q : q = Parts(more)
  OBVIOUS
<1>6. /\ p \in Seq(Seq(Nat)) /\ Len(p) = n /\ SplitOf(list) = FlattenSeq(p)
      /\ \A c \in 1..n : p[c] = Part(list[c])
  BY <1>2, <1>4, PartsFacts
<1>7. /\ q \in Seq(Seq(Nat)) /\ Len(q) = n + 1 /\ SplitOf(more) = FlattenSeq(q)
      /\ \A c \in 1..(n + 1) : q[c] = Part(more[c])
  <2>1. more \in Seq(Nested1)
    BY <1>3
  <2>2. /\ q \in Seq(Seq(Nat)) /\ Len(q) = Len(more) /\ SplitOf(more) = FlattenSeq(q)
        /\ \A c \in 1..Len(more) : q[c] = Part(more[c])
    BY <1>5, <2>1, PartsFacts
  <2>3. QED
    BY <1>3, <2>2
<1>8. \A i \in 1..n : q[i] = p[i]
  <2>1. SUFFICES ASSUME NEW i \in 1..n PROVE q[i] = p[i]
    OBVIOUS
  <2>2. i \in 1..(n + 1)
    OBVIOUS
  <2>3. q[i] = Part(more[i]) /\ p[i] = Part(list[i]) /\ more[i] = list[i]
    BY <1>3, <1>6, <1>7, <2>2
  <2>4. QED
    BY <2>3
<1>9. FlattenSeq(q) = FlattenSeq(p) \o q[n + 1]
  BY <1>6, <1>7, <1>8, FlattenNext
<1>10. q[n + 1] = Part(ch)
  <2>1. n + 1 \in 1..(n + 1)
    OBVIOUS
  <2>2. q[n + 1] = Part(more[n + 1])
    BY <1>7, <2>1
  <2>3. QED
    BY <1>3, <2>2
<1>11. QED
  BY <1>1, <1>6, <1>7, <1>9, <1>10

LEMMA SplitEmpty == SplitOf(<<>>) = <<>>
<1>1. PICK p : p = Parts(<<>>)
  OBVIOUS
<1>2. <<>> \in Seq(Nested1) /\ Len(<<>>) = 0
  OBVIOUS
<1>3. p \in Seq(Seq(Nat)) /\ Len(p) = 0 /\ SplitOf(<<>>) = FlattenSeq(p)
  BY <1>1, <1>2, PartsFacts
<1>4. p = <<>>
  BY <1>3, EmptySeq
<1>5. QED
  BY <1>3, <1>4 DEF FlattenSeq

LEMMA UpToFacts ==
    ASSUME NEW n \in Nat
    PROVE  UpTo(n) \in Seq(Nat) /\ Len(UpTo(n)) = n /\ \A k \in 1..n : UpTo(n)[k] = k
<1>1. PICK u : u = UpTo(n)
  OBVIOUS
<1>2. u \in [1..n -> Nat] /\ \A k \in 1..n : u[k] = k
  BY <1>1 DEF UpTo
<1>3. u \in Seq(Nat) /\ Len(u) = n
  BY <1>2, Listing1
<1>4. QED
  BY <1>1, <1>2, <1>3

LEMMA UpToNext == ASSUME NEW n \in Nat PROVE UpTo(n + 1) = Append(UpTo(n), n + 1)
<1>1. PICK u : u = UpTo(n)
  OBVIOUS
<1>2. PICK v : v = UpTo(n + 1)
  OBVIOUS
<1>3. PICK w : w = Append(u, n + 1)
  OBVIOUS
<1>4. u \in Seq(Nat) /\ Len(u) = n /\ \A k \in 1..n : u[k] = k
  BY <1>1, UpToFacts
<1>5. v \in Seq(Nat) /\ Len(v) = n + 1 /\ \A k \in 1..(n + 1) : v[k] = k
  BY <1>2, UpToFacts
<1>6. w \in Seq(Nat) /\ Len(w) = n + 1 /\ w[n + 1] = n + 1 /\ \A k \in 1..n : w[k] = u[k]
  BY <1>3, <1>4, PushFacts
<1>7. \A k \in 1..(n + 1) : v[k] = w[k]
  BY <1>4, <1>5, <1>6
<1>8. v = w
  BY <1>5, <1>6, <1>7, SeqEqual
<1>9. QED
  BY <1>1, <1>2, <1>3, <1>8

LEMMA WiderSeq == ASSUME NEW S, NEW T, S \subseteq T PROVE Seq(S) \subseteq Seq(T)
<1> SUFFICES ASSUME NEW s \in Seq(S) PROVE s \in Seq(T)
  OBVIOUS
<1>1. PICK n \in Nat : n = Len(s)
  BY LenProperties
<1>2. s \in [1..n -> S]
  BY <1>1, LenProperties
<1>3. s \in [1..n -> T]
  BY <1>2
<1>4. QED
  BY <1>3, Listing1

LEMMA ChaptersNested ==
    ASSUME EpubTypes
    PROVE  Chapters \subseteq Nested1 /\ chapters \in Seq(Nested1) /\ run \in Seq(Nat) /\ Len(book.body) \in Nat
<1>1. book.body \in Seq(Entries)
  BY DEF EpubTypes, BookSet
<1>2. PICK n \in Nat : n = Len(book.body)
  BY <1>1, LenProperties
<1>3. Sections \subseteq Nat /\ Leaves \subseteq Nat
  BY <1>2 DEF Sections, Leaves
<1>4. Seq(Leaves) \subseteq Seq(Nat)
  BY <1>3, WiderSeq
<1>5. Chapters \subseteq Nested1
  <2>1. Sections \union {0} \subseteq Nat
    BY <1>3
  <2>2. SUFFICES ASSUME NEW x \in Chapters PROVE x \in Nested1
    OBVIOUS
  <2>3. PICK s \in Sections \union {0}, p \in Seq(Leaves) : x = [section |-> s, paras |-> p]
    BY <2>2 DEF Chapters
  <2>4. s \in Nat /\ p \in Seq(Nat)
    BY <1>4, <2>1, <2>3
  <2>5. QED
    BY <2>3, <2>4 DEF Nested1
<1>6. chapters \in Seq(Chapters) /\ run \in Seq(Leaves)
  BY DEF EpubTypes
<1>7. Seq(Chapters) \subseteq Seq(Nested1)
  BY <1>5, WiderSeq
<1>8. QED
  BY <1>2, <1>4, <1>5, <1>6, <1>7

\* The book as it was parsed: nothing of it is in a chapter yet, and with no entry
\* at all it is the placeholder the code puts in its place.
THEOREM EpubStarts == EpubInit => EpubInv
<1> SUFFICES ASSUME EpubInit PROVE EpubInv
  OBVIOUS
<1>1. PICK b \in Documents : \/ b.body = <<>> /\ book = [b EXCEPT !.body = <<Placeholder>>]
                            \/ book = b
  BY DEF EpubInit
<1>2. b \in BookSet /\ \A k \in 1..Len(b.body) : b.body[k].kind = "poem-break" => b.body[k].id = ""
  BY DocumentsAssumption DEF BookSet
<1>3. Placeholder \in Entries
  <2>1. <<>> \in Seq([to : Names, fragment : BOOLEAN, note : BOOLEAN]) /\ <<>> \in Seq(Nat)
    OBVIOUS
  <2>2. "" \in Names
    BY DocumentsAssumption
  <2>3. QED
    BY <2>1, <2>2 DEF Placeholder, Entries
<1>4. book \in BookSet /\ \A k \in 1..Len(book.body) : book.body[k].kind = "poem-break" => book.body[k].id = ""
  <2>1. CASE book = [b EXCEPT !.body = <<Placeholder>>]
    <3>1. PICK body : body = <<Placeholder>>
      OBVIOUS
    <3>2. body \in Seq(Entries) /\ Len(body) = 1 /\ body[1] = Placeholder
      BY <1>3, <3>1
    <3>3. book = [b EXCEPT !.body = body]
      BY <2>1, <3>1
    <3>4. book \in BookSet /\ book.body = body
      BY <1>2, <3>2, <3>3 DEF BookSet
    <3>5. Placeholder.kind = "p"
      BY DEF Placeholder
    <3>6. \A k \in 1..Len(body) : body[k].kind = "p"
      BY <3>2, <3>5
    <3>7. "p" # "poem-break"
      OBVIOUS
    <3>8. QED
      BY <3>4, <3>6, <3>7
  <2>2. CASE book = b
    BY <1>2, <2>2
  <2>3. QED
    BY <1>1, <2>1, <2>2
<1>5. /\ stage = "split" /\ entry = 1 /\ frames = <<[section |-> 0, own |-> TRUE]>>
      /\ run = <<>> /\ chapters = <<>> /\ refs = <<>> /\ written = <<>>
  BY DEF EpubInit
<1>6. PICK n \in Nat : n = Len(book.body)
  BY <1>4, LenProperties DEF BookSet
<1>7. /\ frames \in Seq(Frames) /\ frames # <<>> /\ Len(frames) = 1 /\ frames[1].own /\ frames[1].section = 0
  <2>1. PICK x : x = [section |-> 0, own |-> TRUE]
    OBVIOUS
  <2>2. x \in Frames /\ x.own /\ x.section = 0
    BY <2>1 DEF Frames
  <2>3. QED
    BY <1>5, <2>1, <2>2
<1>8. EpubTypes
  <2>1. <<>> \in Seq(Leaves) /\ <<>> \in Seq(Chapters) /\ <<>> \in Seq(Sections)
    OBVIOUS
  <2>2. QED
    <3>1. stage \in {"split", "render", "contents", "package", "done"} /\ entry \in Nat \ {0}
      BY <1>5
    <3>2. frames \in Seq(Frames) /\ frames # <<>>
      BY <1>7
    <3>3. run \in Seq(Leaves) /\ chapters \in Seq(Chapters) /\ refs \in Seq(Sections)
      BY <1>5, <2>1
    <3>4. QED
      BY <1>4, <3>1, <3>2, <3>3 DEF EpubTypes
<1>9. Len(chapters) = 0 /\ 1..Len(chapters) = {}
  BY <1>5
<1>10. HeadedOnce
  BY <1>9 DEF HeadedOnce
<1>11. Inner.own /\ Inner.section = 0
  BY <1>7 DEF Inner, Last
<1>12. (Split \o When(~Inner.own, <<Inner.section>>)) \o run = UpTo(entry - 1)
  <2>1. Split = <<>>
    BY <1>5, SplitEmpty DEF Split
  <2>2. When(~Inner.own, <<Inner.section>>) = <<>>
    BY <1>11 DEF When
  <2>3. entry - 1 = 0
    BY <1>5
  <2>4. UpTo(0) = <<>>
    BY UpToFacts, EmptySeq
  <2>5. (<<>> \o <<>>) \o <<>> = <<>>
    OBVIOUS
  <2>6. QED
    BY <1>5, <2>1, <2>2, <2>3, <2>4, <2>5
<1>13. Splitting
  <2>1. entry <= Len(book.body) + 1
    BY <1>5, <1>6
  <2>2. \A i \in 1..(Len(frames) - 1) : frames[i].own
    BY <1>7
  <2>3. \A k \in Sections : ~(k < entry)
    BY <1>5, <1>6 DEF Sections
  <2>4. QED
    BY <1>5, <1>9, <1>11, <1>12, <2>1, <2>2, <2>3 DEF Splitting
<1>14. QED
  BY <1>5, <1>8, <1>10, <1>13 DEF EpubInv

\* A chapter is closed: the section's own, or the run since the last subsection.
EmitOf ==
  /\ chapters' \in Seq(Chapters) /\ run' = <<>>
  /\ SplitOf(chapters') = UpTo(entry - 1)
  /\ \A k \in Sections : k < entry => \E c \in 1..Len(chapters') : chapters'[c].section = k
  /\ \A c \in 1..Len(chapters') : chapters'[c].section < entry
  /\ \A c, d \in 1..Len(chapters') :
       c # d /\ chapters'[c].section = chapters'[d].section => chapters'[c].section = 0

LEMMA EmitFacts ==
    ASSUME EpubTypes, Splitting, HeadedOnce, Emit
    PROVE  EmitOf
<1>1. run' = <<>>
  BY DEF Emit
<1>2. /\ chapters \in Seq(Chapters) /\ run \in Seq(Leaves) /\ entry \in Nat \ {0}
      /\ frames \in Seq(Frames) /\ frames # <<>>
  BY DEF EpubTypes
<1>3. Chapters \subseteq Nested1 /\ chapters \in Seq(Nested1) /\ run \in Seq(Nat) /\ Len(book.body) \in Nat
  BY ChaptersNested
<1>4. Inner \in Frames
  BY <1>2, FrontFacts DEF Inner
<1>5. Inner.own \in BOOLEAN /\ Inner.section \in Sections \union {0}
  BY <1>4 DEF Frames
<1>6. /\ (Split \o When(~Inner.own, <<Inner.section>>)) \o run = UpTo(entry - 1)
      /\ \A k \in Sections : k < entry => \/ \E c \in 1..Len(chapters) : chapters[c].section = k
                                          \/ ~Inner.own /\ Inner.section = k
      /\ \A c \in 1..Len(chapters) : chapters[c].section < entry
      /\ ~Inner.own => /\ Inner.section # 0 /\ Inner.section < entry
                       /\ \A c \in 1..Len(chapters) : chapters[c].section # Inner.section
  BY DEF Splitting
<1>7. \A c, d \in 1..Len(chapters) : c # d /\ chapters[c].section = chapters[d].section => chapters[c].section = 0
  BY DEF HeadedOnce
<1>8. PICK n \in Nat : n = Len(chapters)
  BY <1>2, LenProperties
<1>9. SplitOf(chapters) \in Seq(Nat)
  BY <1>3, SplitType
<1>10. CASE Inner.own /\ run = <<>>
  <2>1. chapters' = chapters
    BY <1>10 DEF Emit, Emitted
  <2>2. SplitOf(chapters) = UpTo(entry - 1)
    <3>1. When(~Inner.own, <<Inner.section>>) = <<>>
      BY <1>10 DEF When
    <3>2. SplitOf(chapters) \o <<>> = SplitOf(chapters)
      BY <1>9, ConcatEmptySeq
    <3>3. QED
      BY <1>6, <1>10, <3>1, <3>2 DEF Split
  <2>3. QED
    BY <1>1, <1>2, <1>6, <1>7, <1>10, <2>1, <2>2 DEF EmitOf
<1>11. CASE ~(Inner.own /\ run = <<>>)
  <2>1. PICK ch : ch = [section |-> IF Inner.own THEN 0 ELSE Inner.section, paras |-> run]
    OBVIOUS
  <2>2. PICK more : more = Append(chapters, ch)
    OBVIOUS
  <2>3. chapters' = more
    BY <1>5, <1>11, <2>1, <2>2 DEF Emit, Emitted
  <2>4. ch.section = (IF Inner.own THEN 0 ELSE Inner.section) /\ ch.paras = run
    BY <2>1
  <2>5. ch \in Chapters
    BY <1>2, <1>5, <2>1 DEF Chapters
  <2>6. more \in Seq(Chapters) /\ Len(more) = n + 1 /\ more[n + 1] = ch /\ \A i \in 1..n : more[i] = chapters[i]
    BY <1>2, <1>8, <2>2, <2>5, PushFacts
  <2>7. SplitOf(more) = SplitOf(chapters) \o Part(ch)
    BY <1>3, <2>2, <2>5, SplitNext
  <2>8. SplitOf(chapters) \o Part(ch) = (SplitOf(chapters) \o When(~Inner.own, <<Inner.section>>)) \o run
    <3>1. PICK w : w = When(~Inner.own, <<Inner.section>>)
      OBVIOUS
    <3>2. w \in Seq(Nat)
      <4>1. Inner.section \in Nat
        BY <1>3, <1>5 DEF Sections
      <4>2. <<>> \in Seq(Nat) /\ <<Inner.section>> \in Seq(Nat)
        BY <4>1
      <4>3. QED
        BY <3>1, <4>2 DEF When
    <3>3. Part(ch) = w \o run
      <4>1. When(ch.section # 0, <<ch.section>>) = w
        <5>1. CASE Inner.own
          BY <2>4, <3>1, <5>1 DEF When
        <5>2. CASE ~Inner.own
          BY <1>6, <2>4, <3>1, <5>2 DEF When
        <5>3. QED
          BY <5>1, <5>2
      <4>2. QED
        BY <2>4, <4>1 DEF Part
    <3>4. SplitOf(chapters) \o (w \o run) = (SplitOf(chapters) \o w) \o run
      <4>1. PICK a, b : a = SplitOf(chapters) /\ b = run
        OBVIOUS
      <4>2. a \in Seq(Nat) /\ b \in Seq(Nat)
        BY <1>3, <1>9, <4>1
      <4>3. a \o (w \o b) = (a \o w) \o b
        BY <3>2, <4>2, ConcatAssociative
      <4>4. QED
        BY <4>1, <4>3
    <3>5. QED
      BY <3>1, <3>3, <3>4
  <2>9. SplitOf(more) = UpTo(entry - 1)
    BY <1>6, <2>7, <2>8 DEF Split
  <2>10. \A k \in Sections : k < entry => \E c \in 1..Len(more) : more[c].section = k
    <3>1. SUFFICES ASSUME NEW k \in Sections, k < entry PROVE \E c \in 1..(n + 1) : more[c].section = k
      BY <2>6
    <3>2. CASE \E c \in 1..Len(chapters) : chapters[c].section = k
      <4>1. PICK c \in 1..n : chapters[c].section = k
        BY <1>8, <3>2
      <4>2. c \in 1..(n + 1) /\ more[c] = chapters[c]
        BY <2>6, <4>1
      <4>3. QED
        BY <4>1, <4>2
    <3>3. CASE ~Inner.own /\ Inner.section = k
      <4>1. n + 1 \in 1..(n + 1)
        OBVIOUS
      <4>2. more[n + 1].section = k
        BY <2>4, <2>6, <3>3
      <4>3. QED
        BY <4>1, <4>2
    <3>4. QED
      BY <1>6, <3>1, <3>2, <3>3
  <2>11. \A c \in 1..Len(more) : more[c].section < entry
    <3>1. SUFFICES ASSUME NEW c \in 1..(n + 1) PROVE more[c].section < entry
      BY <2>6
    <3>2. CASE c \in 1..n
      BY <1>6, <1>8, <2>6, <3>2
    <3>3. CASE c = n + 1
      <4>1. more[c].section = IF Inner.own THEN 0 ELSE Inner.section
        BY <2>4, <2>6, <3>3
      <4>2. 0 < entry
        BY <1>2
      <4>3. QED
        BY <1>6, <4>1, <4>2
    <3>4. QED
      BY <3>2, <3>3
  <2>12. ASSUME NEW c \in 1..n PROVE more[c].section = ch.section => ch.section = 0
    <3>1. more[c] = chapters[c]
      BY <2>6
    <3>2. CASE Inner.own
      BY <2>4, <3>2
    <3>3. CASE ~Inner.own
      <4>1. chapters[c].section # Inner.section
        BY <1>6, <1>8, <3>3
      <4>2. QED
        BY <2>4, <3>1, <3>3, <4>1
    <3>4. QED
      BY <3>2, <3>3
  <2>13. \A c, d \in 1..Len(more) : c # d /\ more[c].section = more[d].section => more[c].section = 0
    <3>1. SUFFICES ASSUME NEW c \in 1..(n + 1), NEW d \in 1..(n + 1), c # d, more[c].section = more[d].section
                   PROVE  more[c].section = 0
      BY <2>6
    <3>2. CASE c \in 1..n /\ d \in 1..n
      BY <1>7, <1>8, <2>6, <3>1, <3>2
    <3>3. CASE c = n + 1
      <4>1. d \in 1..n /\ more[c] = ch
        BY <2>6, <3>1, <3>3
      <4>2. QED
        BY <2>12, <3>1, <4>1
    <3>4. CASE d = n + 1
      <4>1. c \in 1..n /\ more[d] = ch
        BY <2>6, <3>1, <3>4
      <4>2. QED
        BY <2>12, <3>1, <4>1
    <3>5. QED
      BY <3>1, <3>2, <3>3, <3>4
  <2>14. QED
    BY <1>1, <2>3, <2>6, <2>9, <2>10, <2>11, <2>13 DEF EmitOf
<1>12. QED
  BY <1>10, <1>11

LEMMA TypesKept ==
    ASSUME EpubTypes, book' = book, stage' \in {"split", "render", "contents", "package", "done"},
           entry' \in Nat \ {0}, frames' \in Seq(Frames), frames' # <<>>, run' \in Seq(Leaves),
           chapters' \in Seq(Chapters), refs' \in Seq(Sections)
    PROVE  EpubTypes' /\ Sections' = Sections
<1>1. Sections' = Sections
  BY DEF Sections
<1>2. Leaves' = Leaves
  BY <1>1 DEF Leaves
<1>3. Frames' = Frames /\ Chapters' = Chapters
  BY <1>1, <1>2 DEF Frames, Chapters
<1>4. book' \in BookSet /\ \A k \in 1..Len(book'.body) : book'.body[k].kind = "poem-break" => book'.body[k].id = ""
  BY DEF EpubTypes
<1>5. frames' \in Seq(Frames') /\ run' \in Seq(Leaves') /\ chapters' \in Seq(Chapters') /\ refs' \in Seq(Sections')
  BY <1>1, <1>2, <1>3
<1>6. QED
  BY <1>1, <1>4, <1>5 DEF EpubTypes

LEMMA InnerFacts ==
    ASSUME EpubTypes
    PROVE  Inner \in Frames /\ Inner.own \in BOOLEAN /\ Inner.section \in Sections \union {0} /\ Depth \in Nat
<1>1. frames \in Seq(Frames) /\ frames # <<>>
  BY DEF EpubTypes
<1>2. Inner \in Frames /\ Len(frames) \in Nat \ {0}
  BY <1>1, FrontFacts DEF Inner
<1>3. QED
  BY <1>2 DEF Frames, Depth

LEMMA CollectKeeps == ASSUME EpubInv, Collect PROVE EpubInv'
<1>1. EpubTypes /\ HeadedOnce /\ Splitting /\ stage = "split"
  BY DEF EpubInv, Collect, AtEntry
<1>2. /\ entry \in Nat \ {0} /\ frames \in Seq(Frames) /\ frames # <<>> /\ run \in Seq(Leaves)
      /\ chapters \in Seq(Chapters) /\ refs \in Seq(Sections)
  BY <1>1 DEF EpubTypes
<1>3. Chapters \subseteq Nested1 /\ chapters \in Seq(Nested1) /\ run \in Seq(Nat) /\ Len(book.body) \in Nat
  BY <1>1, ChaptersNested
<1>4. /\ entry <= Len(book.body) /\ ~book.body[entry].section /\ run' = Append(run, entry) /\ entry' = entry + 1
      /\ book' = book /\ stage' = stage /\ frames' = frames /\ chapters' = chapters /\ refs' = refs /\ written' = written
  BY DEF Collect, AtEntry
<1>5. entry \in Leaves
  BY <1>2, <1>3, <1>4 DEF Leaves, Sections
<1>6. run' \in Seq(Leaves)
  BY <1>2, <1>4, <1>5, PushFacts
<1>7. EpubTypes' /\ Sections' = Sections
  BY <1>1, <1>2, <1>4, <1>6, TypesKept
<1>8. HeadedOnce'
  BY <1>1, <1>4 DEF HeadedOnce
<1>9. Inner' = Inner
  BY <1>4 DEF Inner
<1>10. (Split' \o When(~Inner'.own, <<Inner'.section>>)) \o run' = UpTo(entry' - 1)
  <2>1. PICK a : a = Split \o When(~Inner.own, <<Inner.section>>)
    OBVIOUS
  <2>2. a \in Seq(Nat)
    <3>1. SplitOf(chapters) \in Seq(Nat)
      BY <1>3, SplitType
    <3>2. Inner.section \in Nat
      BY <1>1, <1>3, InnerFacts DEF Sections
    <3>3. <<>> \in Seq(Nat) /\ <<Inner.section>> \in Seq(Nat)
      BY <3>2
    <3>4. When(~Inner.own, <<Inner.section>>) \in Seq(Nat)
      BY <3>3 DEF When
    <3>5. QED
      BY <2>1, <3>1, <3>4, ConcatProperties DEF Split
  <2>3. a \o run = UpTo(entry - 1)
    BY <1>1, <2>1 DEF Splitting
  <2>4. a \o Append(run, entry) = Append(a \o run, entry)
    BY <1>2, <1>3, <2>2, AppendConcat
  <2>5. PICK n \in Nat : n = entry - 1
    BY <1>2
  <2>6. UpTo(n + 1) = Append(UpTo(n), n + 1)
    BY UpToNext
  <2>7. n + 1 = entry /\ entry' - 1 = entry
    BY <1>2, <1>4, <2>5
  <2>8. UpTo(entry) = a \o run'
    BY <1>4, <2>3, <2>4, <2>5, <2>6, <2>7
  <2>9. Split' = Split
    BY <1>4 DEF Split
  <2>10. QED
    BY <1>9, <2>1, <2>7, <2>8, <2>9
<1>11. Splitting'
  <2>1. entry' <= Len(book'.body) + 1
    BY <1>2, <1>3, <1>4
  <2>2. \A i \in 1..(Len(frames') - 1) : frames'[i].own
    BY <1>1, <1>4 DEF Splitting
  <2>3. ASSUME NEW k \in Sections, k < entry'
        PROVE  (\E c \in 1..Len(chapters') : chapters'[c].section = k) \/ (~Inner'.own /\ Inner'.section = k)
    <3>1. k < entry
      <4>1. k # entry
        BY <1>5, <2>3 DEF Leaves
      <4>2. k \in Nat
        BY <1>3, <2>3 DEF Sections
      <4>3. QED
        BY <1>2, <1>4, <2>3, <4>1, <4>2
    <3>2. QED
      BY <1>1, <1>4, <1>9, <2>3, <3>1 DEF Splitting
  <2>4. ASSUME NEW c \in 1..Len(chapters') PROVE chapters'[c].section < entry'
    <3>1. chapters[c].section < entry
      BY <1>1, <1>4, <2>4 DEF Splitting
    <3>2. chapters[c].section \in Nat
      <4>1. c \in 1..Len(chapters)
        BY <1>4, <2>4
      <4>2. chapters[c] \in Nested1
        BY <1>3, <4>1, ElementOfSeq
      <4>3. QED
        BY <4>2 DEF Nested1
    <3>3. QED
      BY <1>2, <1>4, <3>1, <3>2
  <2>5. ~Inner'.own => /\ Inner'.section # 0 /\ Inner'.section < entry'
                       /\ \A c \in 1..Len(chapters') : chapters'[c].section # Inner'.section
    <3>1. Inner.section \in Nat
      BY <1>1, <1>3, InnerFacts DEF Sections
    <3>2. ~Inner.own => /\ Inner.section # 0 /\ Inner.section < entry
                        /\ \A c \in 1..Len(chapters) : chapters[c].section # Inner.section
      BY <1>1 DEF Splitting
    <3>3. Inner.section < entry => Inner.section < entry'
      BY <1>2, <1>4, <3>1
    <3>4. QED
      BY <1>4, <1>9, <3>2, <3>3
  <2>6. refs' = <<>> /\ written' = <<>>
    BY <1>1, <1>4 DEF Splitting
  <2>7. QED
    BY <1>7, <1>10, <2>1, <2>2, <2>3, <2>4, <2>5, <2>6 DEF Splitting
<1>12. QED
  BY <1>1, <1>4, <1>7, <1>8, <1>11 DEF EpubInv

LEMMA EnterSectionKeeps == ASSUME EpubInv, EnterSection PROVE EpubInv'
<1>1. EpubTypes /\ HeadedOnce /\ Splitting /\ stage = "split"
  BY DEF EpubInv, EnterSection, AtEntry
<1>2. /\ entry \in Nat \ {0} /\ frames \in Seq(Frames) /\ frames # <<>> /\ refs \in Seq(Sections)
  BY <1>1 DEF EpubTypes
<1>3. chapters \in Seq(Nested1) /\ Len(book.body) \in Nat
  BY <1>1, ChaptersNested
<1>4. /\ entry <= Len(book.body) /\ book.body[entry].section /\ Emit /\ entry' = entry + 1
      /\ frames' = Append([frames EXCEPT ![Len(frames)].own = TRUE], [section |-> entry, own |-> FALSE])
      /\ book' = book /\ stage' = stage /\ refs' = refs /\ written' = written
  BY DEF EnterSection, AtEntry
<1>5. EmitOf
  BY <1>1, <1>4, EmitFacts
<1>6. entry \in Sections
  BY <1>2, <1>3, <1>4 DEF Sections
<1>7. PICK n \in Nat \ {0} : n = Len(frames)
  BY <1>2, FrontFacts
<1>8. PICK top : top = [frames[n] EXCEPT !.own = TRUE]
  OBVIOUS
<1>9. top \in Frames /\ top.own
  <2>1. frames[n] \in Frames
    BY <1>2, <1>7, ElementOfSeq
  <2>2. QED
    BY <1>8, <2>1 DEF Frames
<1>10. PICK x : x = [section |-> entry, own |-> FALSE]
  OBVIOUS
<1>11. x \in Frames /\ ~x.own /\ x.section = entry
  BY <1>6, <1>10 DEF Frames
<1>12. PICK g : g = [frames EXCEPT ![n] = top]
  OBVIOUS
<1>13. g \in Seq(Frames) /\ Len(g) = n /\ \A i \in 1..n : g[i] = IF i = n THEN top ELSE frames[i]
  <2>1. g \in Seq(Frames) /\ Len(g) = n
    BY <1>2, <1>7, <1>9, <1>12, ExceptSeq
  <2>2. DOMAIN frames = 1..n
    BY <1>2, <1>7
  <2>3. \A i \in 1..n : g[i] = IF i = n THEN top ELSE frames[i]
    BY <1>12, <2>2
  <2>4. QED
    BY <2>1, <2>3
<1>14. frames' = Append(g, x)
  <2>1. [frames EXCEPT ![Len(frames)].own = TRUE] = g
    BY <1>7, <1>8, <1>12
  <2>2. QED
    BY <1>4, <1>10, <2>1
<1>15. /\ frames' \in Seq(Frames) /\ Len(frames') = n + 1 /\ frames'[n + 1] = x
       /\ \A i \in 1..n : frames'[i] = g[i]
  BY <1>11, <1>13, <1>14, PushFacts
<1>16. frames' # <<>>
  BY <1>15
<1>17. Inner' = x
  BY <1>15 DEF Inner, Last
<1>18. EpubTypes' /\ Sections' = Sections
  <2>1. run' \in Seq(Leaves)
    <3>1. <<>> \in Seq(Leaves)
      OBVIOUS
    <3>2. QED
      BY <1>5, <3>1 DEF EmitOf
  <2>2. chapters' \in Seq(Chapters)
    BY <1>5 DEF EmitOf
  <2>3. entry' \in Nat \ {0}
    BY <1>2, <1>4
  <2>4. stage' \in {"split", "render", "contents", "package", "done"}
    BY <1>1, <1>4
  <2>5. QED
    BY <1>1, <1>2, <1>4, <1>15, <1>16, <2>1, <2>2, <2>3, <2>4, TypesKept
<1>19. HeadedOnce'
  BY <1>5 DEF HeadedOnce, EmitOf
<1>20. PICK chs : chs = chapters'
  OBVIOUS
<1>21. chs \in Seq(Nested1)
  <2>1. Chapters \subseteq Nested1
    BY <1>1, ChaptersNested
  <2>2. Seq(Chapters) \subseteq Seq(Nested1)
    BY <2>1, WiderSeq
  <2>3. chs \in Seq(Chapters)
    BY <1>5, <1>20 DEF EmitOf
  <2>4. QED
    BY <2>2, <2>3
<1>22. (Split' \o When(~Inner'.own, <<Inner'.section>>)) \o run' = UpTo(entry' - 1)
  <2>1. SplitOf(chs) = UpTo(entry - 1) /\ run' = <<>>
    BY <1>5, <1>20 DEF EmitOf
  <2>2. When(~Inner'.own, <<Inner'.section>>) = <<entry>>
    BY <1>11, <1>17 DEF When
  <2>3. PICK m \in Nat : m = entry - 1
    BY <1>2
  <2>4. UpTo(m + 1) = Append(UpTo(m), m + 1) /\ UpTo(m) \in Seq(Nat)
    BY UpToNext, UpToFacts
  <2>5. m + 1 = entry /\ entry' - 1 = entry
    BY <1>2, <1>4, <2>3
  <2>6. \A u \in Seq(Nat) : (u \o <<entry>>) \o <<>> = Append(u, entry)
    <3>1. SUFFICES ASSUME NEW u \in Seq(Nat) PROVE (u \o <<entry>>) \o <<>> = Append(u, entry)
      OBVIOUS
    <3>2. u \o <<entry>> = Append(u, entry)
      BY <1>2
    <3>3. Append(u, entry) \in Seq(Nat)
      BY <1>2, PushFacts
    <3>4. Append(u, entry) \o <<>> = Append(u, entry)
      BY <3>3, ConcatEmptySeq
    <3>5. QED
      BY <3>2, <3>4
  <2>7. Split' = UpTo(m)
    BY <1>20, <2>1, <2>3 DEF Split
  <2>8. QED
    BY <2>1, <2>2, <2>4, <2>5, <2>6, <2>7
<1>23. Splitting'
  <2>1. entry' <= Len(book'.body) + 1
    BY <1>2, <1>3, <1>4
  <2>2. \A i \in 1..(Len(frames') - 1) : frames'[i].own
    <3>1. SUFFICES ASSUME NEW i \in 1..n PROVE frames'[i].own
      BY <1>15
    <3>2. frames'[i] = IF i = n THEN top ELSE frames[i]
      BY <1>13, <1>15
    <3>3. i # n => i \in 1..(Len(frames) - 1)
      BY <1>7
    <3>4. \A j \in 1..(Len(frames) - 1) : frames[j].own
      BY <1>1 DEF Splitting
    <3>5. QED
      BY <1>9, <3>2, <3>3, <3>4
  <2>3. ASSUME NEW k \in Sections, k < entry'
        PROVE  (\E c \in 1..Len(chapters') : chapters'[c].section = k) \/ (~Inner'.own /\ Inner'.section = k)
    <3>1. CASE k = entry
      BY <1>11, <1>17, <3>1
    <3>2. CASE k # entry
      <4>1. k \in Nat
        BY <1>3, <2>3 DEF Sections
      <4>2. k < entry
        BY <1>2, <1>4, <2>3, <3>2, <4>1
      <4>3. QED
        BY <1>5, <2>3, <4>2 DEF EmitOf
    <3>3. QED
      BY <3>1, <3>2
  <2>4. ASSUME NEW c \in 1..Len(chapters') PROVE chapters'[c].section < entry' /\ chapters'[c].section # entry
    <3>1. chapters'[c].section < entry
      BY <1>5, <2>4 DEF EmitOf
    <3>2. chapters'[c].section \in Nat
      <4>1. chs[c] \in Nested1
        BY <1>20, <1>21, <2>4, ElementOfSeq
      <4>2. QED
        BY <1>20, <4>1 DEF Nested1
    <3>3. QED
      BY <1>2, <1>4, <3>1, <3>2
  <2>5. Inner'.section # 0 /\ Inner'.section < entry'
        /\ \A c \in 1..Len(chapters') : chapters'[c].section # Inner'.section
    BY <1>2, <1>4, <1>11, <1>17, <2>4
  <2>6. refs' = <<>> /\ written' = <<>>
    BY <1>1, <1>4 DEF Splitting
  <2>7. QED
    BY <1>18, <1>22, <2>1, <2>2, <2>3, <2>4, <2>5, <2>6 DEF Splitting
<1>24. QED
  BY <1>1, <1>4, <1>18, <1>19, <1>23 DEF EpubInv

LEMMA LeaveSectionKeeps == ASSUME EpubInv, LeaveSection PROVE EpubInv'
<1>1. EpubTypes /\ HeadedOnce /\ Splitting /\ stage = "split"
  BY DEF EpubInv, LeaveSection
<1>2. /\ entry \in Nat \ {0} /\ frames \in Seq(Frames) /\ frames # <<>> /\ refs \in Seq(Sections)
  BY <1>1 DEF EpubTypes
<1>3. /\ Depth > 0 /\ Emit /\ frames' = Front(frames) /\ entry' = entry
      /\ book' = book /\ stage' = stage /\ refs' = refs /\ written' = written
  BY DEF LeaveSection
<1>4. EmitOf
  BY <1>1, <1>3, EmitFacts
<1>5. PICK n \in Nat \ {0} : n = Len(frames)
  BY <1>2, FrontFacts
<1>6. n > 1
  BY <1>3, <1>5 DEF Depth
<1>7. frames' \in Seq(Frames) /\ Len(frames') = n - 1 /\ \A i \in 1..(n - 1) : frames'[i] = frames[i]
  BY <1>2, <1>3, <1>5, FrontFacts
<1>8. frames' # <<>>
  BY <1>6, <1>7
<1>9. \A i \in 1..(n - 1) : frames[i].own
  BY <1>1, <1>5 DEF Splitting
<1>10. Inner'.own
  <2>1. n - 1 \in 1..(n - 1)
    BY <1>6
  <2>2. Inner' = frames[n - 1]
    BY <1>7, <2>1 DEF Inner, Last
  <2>3. QED
    BY <1>9, <2>1, <2>2
<1>11. EpubTypes' /\ Sections' = Sections
  <2>1. run' \in Seq(Leaves)
    <3>1. <<>> \in Seq(Leaves)
      OBVIOUS
    <3>2. QED
      BY <1>4, <3>1 DEF EmitOf
  <2>2. chapters' \in Seq(Chapters)
    BY <1>4 DEF EmitOf
  <2>3. entry' \in Nat \ {0}
    BY <1>2, <1>3
  <2>4. stage' \in {"split", "render", "contents", "package", "done"}
    BY <1>1, <1>3
  <2>5. QED
    BY <1>1, <1>2, <1>3, <1>7, <1>8, <2>1, <2>2, <2>3, <2>4, TypesKept
<1>12. HeadedOnce'
  BY <1>4 DEF HeadedOnce, EmitOf
<1>13. (Split' \o When(~Inner'.own, <<Inner'.section>>)) \o run' = UpTo(entry' - 1)
  <2>1. Split' = UpTo(entry - 1) /\ run' = <<>>
    BY <1>4 DEF EmitOf, Split
  <2>2. When(~Inner'.own, <<Inner'.section>>) = <<>>
    BY <1>10 DEF When
  <2>3. PICK m \in Nat : m = entry - 1
    BY <1>2
  <2>4. UpTo(m) \in Seq(Nat)
    BY UpToFacts
  <2>5. (UpTo(m) \o <<>>) \o <<>> = UpTo(m)
    BY <2>4, ConcatEmptySeq
  <2>6. QED
    BY <1>3, <2>1, <2>2, <2>3, <2>5
<1>14. Splitting'
  <2>1. entry' <= Len(book'.body) + 1
    BY <1>1, <1>3 DEF Splitting
  <2>2. \A i \in 1..(Len(frames') - 1) : frames'[i].own
    BY <1>5, <1>6, <1>7, <1>9
  <2>3. ASSUME NEW k \in Sections, k < entry' PROVE \E c \in 1..Len(chapters') : chapters'[c].section = k
    BY <1>3, <1>4, <2>3 DEF EmitOf
  <2>4. \A c \in 1..Len(chapters') : chapters'[c].section < entry'
    BY <1>3, <1>4 DEF EmitOf
  <2>5. refs' = <<>> /\ written' = <<>>
    BY <1>1, <1>3 DEF Splitting
  <2>6. QED
    BY <1>10, <1>11, <1>13, <2>1, <2>2, <2>3, <2>4, <2>5 DEF Splitting
<1>15. QED
  BY <1>1, <1>3, <1>11, <1>12, <1>14 DEF EpubInv

\* The empty chapter of a book without any is a chapter of nothing.
LEMMA NoTextFacts ==
    ASSUME EpubTypes, Splitting, Emitted = <<>>, chapters' = <<NoText>>, run' = <<>>
    PROVE  EmitOf
<1>1. /\ chapters \in Seq(Chapters) /\ run \in Seq(Leaves) /\ entry \in Nat \ {0}
      /\ frames \in Seq(Frames) /\ frames # <<>>
  BY DEF EpubTypes
<1>2. Chapters \subseteq Nested1 /\ chapters \in Seq(Nested1) /\ Len(book.body) \in Nat
  BY ChaptersNested
<1>3. Inner.own \in BOOLEAN /\ run = <<>> /\ Inner.own /\ chapters = <<>>
  <2>1. Inner.own \in BOOLEAN
    BY InnerFacts
  <2>2. ASSUME NEW ch \in Chapters PROVE Append(chapters, ch) # <<>>
    <3>1. PICK n \in Nat : n = Len(chapters)
      BY <1>1, LenProperties
    <3>2. Len(Append(chapters, ch)) = n + 1
      BY <1>1, <2>2, <3>1, PushFacts
    <3>3. n + 1 # 0 /\ Len(<<>>) = 0
      BY <3>1
    <3>4. QED
      BY <3>2, <3>3
  <2>3. [section |-> IF Inner.own THEN 0 ELSE Inner.section, paras |-> run] \in Chapters
    <3>1. Inner.section \in Sections \union {0}
      BY InnerFacts
    <3>2. QED
      BY <1>1, <2>1, <3>1 DEF Chapters
  <2>4. PICK ch \in Chapters : ch = [section |-> IF Inner.own THEN 0 ELSE Inner.section, paras |-> run]
    BY <2>3
  <2>5. Emitted = IF ~Inner.own \/ run # <<>> THEN Append(chapters, ch) ELSE chapters
    BY <2>4 DEF Emitted
  <2>6. QED
    BY <2>1, <2>2, <2>5
<1>4. NoText \in Chapters /\ NoText.section = 0 /\ NoText.paras = <<>>
  <2>1. <<>> \in Seq(Leaves)
    OBVIOUS
  <2>2. QED
    BY <2>1 DEF NoText, Chapters
<1>5. PICK ch \in Chapters : ch = NoText
  BY <1>4
<1>6. <<ch>> \in Seq(Chapters) /\ <<ch>> \in Seq(Nested1) /\ Len(<<ch>>) = 1 /\ <<ch>>[1] = ch
  BY <1>2, <1>5
<1>7. UpTo(entry - 1) = <<>>
  <2>1. (Split \o When(~Inner.own, <<Inner.section>>)) \o run = UpTo(entry - 1)
    BY DEF Splitting
  <2>2. Split = <<>>
    BY <1>3, SplitEmpty DEF Split
  <2>3. When(~Inner.own, <<Inner.section>>) = <<>>
    BY <1>3 DEF When
  <2>4. QED
    BY <1>3, <2>1, <2>2, <2>3
<1>8. entry - 1 = 0
  <2>1. PICK n \in Nat : n = entry - 1
    BY <1>1
  <2>2. Len(UpTo(n)) = n
    BY UpToFacts
  <2>3. Len(<<>>) = 0
    OBVIOUS
  <2>4. QED
    BY <1>7, <2>1, <2>2, <2>3
<1>9. SplitOf(chapters') = UpTo(entry - 1)
  <2>1. Part(ch) = <<>>
    BY <1>4, <1>5 DEF Part, When
  <2>2. <<>> \in Seq(Nested1) /\ Append(<<>>, ch) = <<ch>>
    OBVIOUS
  <2>3. SplitOf(<<ch>>) = SplitOf(<<>>) \o Part(ch)
    BY <1>2, <2>2, SplitNext
  <2>4. SplitOf(<<ch>>) = <<>>
    BY <2>1, <2>3, SplitEmpty
  <2>5. QED
    BY <1>5, <1>7, <2>4
<1>10. \A k \in Sections : ~(k < entry)
  BY <1>1, <1>2, <1>8 DEF Sections
<1>11. PICK list : list = chapters'
  OBVIOUS
<1>12. list \in Seq(Chapters) /\ Len(list) = 1 /\ list[1].section = 0
  BY <1>4, <1>5, <1>6, <1>11
<1>13. \A c \in 1..Len(list) : list[c].section = 0 /\ list[c].section < entry
  BY <1>1, <1>12
<1>14. \A c, d \in 1..Len(list) : c # d /\ list[c].section = list[d].section => list[c].section = 0
  BY <1>13
<1>15. QED
  BY <1>9, <1>10, <1>11, <1>12, <1>13, <1>14 DEF EmitOf

LEMMA LeaveBodyKeeps == ASSUME EpubInv, LeaveBody PROVE EpubInv'
<1>1. EpubTypes /\ HeadedOnce /\ Splitting /\ stage = "split"
  BY DEF EpubInv, LeaveBody
<1>2. /\ entry \in Nat \ {0} /\ frames \in Seq(Frames) /\ frames # <<>> /\ refs \in Seq(Sections)
  BY <1>1 DEF EpubTypes
<1>3. /\ entry > Len(book.body) /\ frames' = frames /\ entry' = 1
      /\ book' = book /\ stage' = "render" /\ refs' = refs /\ written' = written
      /\ chapters' = (IF Emitted = <<>> THEN <<NoText>> ELSE Emitted) /\ run' = <<>>
  BY DEF LeaveBody
<1>4. EmitOf
  <2>1. CASE Emitted = <<>>
    BY <1>1, <1>3, <2>1, NoTextFacts
  <2>2. CASE Emitted # <<>>
    <3>1. Emit
      BY <1>3, <2>2 DEF Emit
    <3>2. QED
      BY <1>1, <3>1, EmitFacts
  <2>3. QED
    BY <2>1, <2>2
<1>5. Len(book.body) \in Nat
  BY <1>1, ChaptersNested
<1>6. entry - 1 = Len(book.body)
  <2>1. entry <= Len(book.body) + 1
    BY <1>1 DEF Splitting
  <2>2. QED
    BY <1>2, <1>3, <1>5, <2>1
<1>7. EpubTypes' /\ Sections' = Sections
  <2>1. run' \in Seq(Leaves)
    <3>1. <<>> \in Seq(Leaves)
      OBVIOUS
    <3>2. QED
      BY <1>4, <3>1 DEF EmitOf
  <2>2. chapters' \in Seq(Chapters)
    BY <1>4 DEF EmitOf
  <2>3. entry' \in Nat \ {0} /\ stage' \in {"split", "render", "contents", "package", "done"}
    BY <1>3
  <2>4. frames' \in Seq(Frames) /\ frames' # <<>> /\ refs' \in Seq(Sections) /\ book' = book
    BY <1>2, <1>3
  <2>5. QED
    BY <1>1, <2>1, <2>2, <2>3, <2>4, TypesKept
<1>8. HeadedOnce'
  BY <1>4 DEF HeadedOnce, EmitOf
<1>9. refs' = <<>> /\ written' = <<>>
  BY <1>1, <1>3 DEF Splitting
<1>10. Len(refs') = 0 /\ 1..Len(refs') = {}
  BY <1>9
<1>11. SoFar' = 0 /\ 1..SoFar' = {}
  <2>1. SoFar' = entry' - 1
    BY <1>3 DEF SoFar
  <2>2. QED
    BY <1>3, <2>1
<1>12. Len(chapters') \in Nat
  BY <1>4, LenProperties DEF EmitOf
<1>13. Rendering'
  <2>1. Split' = UpTo(Len(book'.body))
    BY <1>3, <1>4, <1>6 DEF EmitOf, Split
  <2>2. \A k \in Sections : \E c \in 1..Len(chapters') : chapters'[c].section = k
    <3>1. SUFFICES ASSUME NEW k \in Sections PROVE \E c \in 1..Len(chapters') : chapters'[c].section = k
      OBVIOUS
    <3>2. k < entry
      BY <1>2, <1>5, <1>6 DEF Sections
    <3>3. QED
      BY <1>4, <3>2 DEF EmitOf
  <2>3. SoFar' <= Len(chapters')
    BY <1>11, <1>12
  <2>4. written' = ChapterFiles'
    <3>1. ChapterFiles' = <<>>
      BY <1>11 DEF ChapterFiles
    <3>2. QED
      BY <1>9, <3>1
  <2>5. QED
    BY <1>3, <1>7, <1>10, <1>11, <2>1, <2>2, <2>3, <2>4 DEF Rendering
<1>14. QED
  BY <1>3, <1>7, <1>8, <1>13 DEF EpubInv

\* What is written depends on the book and its chapters only, but for the
\* anchors of the sections.
LEMMA StaysAsItIs ==
    ASSUME book' = book, chapters' = chapters
    PROVE  /\ Images' = Images /\ Cover' = Cover /\ Notes' = Notes
           /\ NotesFile' = NotesFile /\ Split' = Split /\ Sections' = Sections
           /\ \A place, here, entries, paras :
                Paragraphs(place, here, entries, paras)' = Paragraphs(place, here, entries, paras)
<1>1. Images' = Images
  BY DEF Images
<1>2. Cover' = Cover
  BY <1>1 DEF Cover
<1>3. NoteHeads' = NoteHeads
  BY DEF NoteHeads
<1>4. \A h : ParasOf(h)' = ParasOf(h)
  BY DEF ParasOf
<1>5. Notes' = Notes
  BY <1>3, <1>4 DEF Notes
<1>6. NoteIds' = NoteIds
  BY <1>5 DEF NoteIds
<1>7. \A n : AnchorOf(n)' = AnchorOf(n)
  BY <1>5 DEF AnchorOf
<1>8. \A id : Home(id)' = Home(id)
  BY DEF Home, IdsOf
<1>9. \A here, link : Resolved(here, link)' = Resolved(here, link)
  BY <1>6, <1>8 DEF Resolved
<1>10. \A place, here, p, k : ParagraphOf(place, here, p, k)' = ParagraphOf(place, here, p, k)
  BY <1>1, <1>9 DEF ParagraphOf
<1>11. \A place, here, entries, paras :
         Paragraphs(place, here, entries, paras)' = Paragraphs(place, here, entries, paras)
  BY <1>10 DEF Paragraphs
<1>12. NotesFile' = NotesFile
  BY <1>5, <1>7, <1>11 DEF NotesFile
<1>13. QED
  BY <1>1, <1>2, <1>5, <1>11, <1>12 DEF Split, Sections

LEMMA ChapterFileKept ==
    ASSUME book' = book, chapters' = chapters, NEW c,
           chapters[c].section # 0 => Sequence(chapters[c].section)' = Sequence(chapters[c].section)
    PROVE  ChapterFile(c)' = ChapterFile(c)
<1>1. PICK s : s = chapters[c].section
  OBVIOUS
<1>2. chapters'[c].section = s /\ chapters'[c].paras = chapters[c].paras
  BY <1>1
<1>3. PICK here : here = Chapter(c)
  OBVIOUS
<1>4. PICK paras : paras = chapters[c].paras
  OBVIOUS
<1>5. Paragraphs("body", here, book.body, paras)' = Paragraphs("body", here, book.body, paras)
  BY DEF Paragraphs, ParagraphOf, Resolved, Home, IdsOf, NoteIds, Notes, NoteHeads, ParasOf, Images
<1>6. s # 0 => Sequence(s)' = Sequence(s)
  BY <1>1 DEF Sequence
<1>7. s # 0 => Header(s)' = Header(s)
  BY <1>6 DEF Header
<1>8. QED
  BY <1>1, <1>2, <1>3, <1>4, <1>5, <1>7 DEF ChapterFile, Chapter, File

LEMMA AllKept ==
    ASSUME book' = book, chapters' = chapters, refs' = refs
    PROVE  /\ \A c : ChapterFile(c)' = ChapterFile(c)
           /\ Lines' = Lines /\ OtherFiles' = OtherFiles
           /\ PackageItems' = PackageItems /\ ReadingOrder' = ReadingOrder
<1>1. \A c : ChapterFile(c)' = ChapterFile(c)
  <2>1. SUFFICES ASSUME NEW c PROVE ChapterFile(c)' = ChapterFile(c)
    OBVIOUS
  <2>2. Sequence(chapters[c].section)' = Sequence(chapters[c].section)
    BY DEF Sequence
  <2>3. QED
    BY <2>2, ChapterFileKept
<1>2. Images' = Images /\ Cover' = Cover /\ Notes' = Notes
  BY StaysAsItIs
<1>3. Lines' = Lines
  BY <1>2 DEF Lines, Sequence
<1>4. Pictures' = Pictures
  BY <1>2 DEF Pictures
<1>5. CoverPage' = CoverPage
  BY <1>2 DEF CoverPage
<1>6. OtherFiles' = OtherFiles
  BY <1>2, <1>3, <1>4, <1>5 DEF OtherFiles
<1>7. ChapterItems' = ChapterItems
  BY DEF ChapterItems
<1>8. \A n : ImageItem(n)' = ImageItem(n)
  BY <1>2 DEF ImageItem
<1>9. PackageItems' = PackageItems
  BY <1>2, <1>7, <1>8 DEF PackageItems
<1>10. ReadingOrder' = ReadingOrder
  BY <1>2, <1>7 DEF ReadingOrder
<1>11. QED
  BY <1>1, <1>3, <1>6, <1>9, <1>10

\* The anchor of a section that has one.
LEMMA SequenceOf ==
    ASSUME EpubTypes, \A m, n \in 1..Len(refs) : refs[m] = refs[n] => m = n,
           NEW n \in 1..Len(refs), NEW s, refs[n] = s
    PROVE  Sequence(s) = (IF book.titled THEN 1 ELSE 0) + n
<1>1. (CHOOSE k \in 1..Len(refs) : refs[k] = s) = n
  OBVIOUS
<1>2. \E k \in 1..Len(refs) : refs[k] = s
  OBVIOUS
<1>3. QED
  BY <1>1, <1>2 DEF Sequence

\* The section of the next chapter to be rendered is new among those that have an anchor.
LEMMA SequenceStays ==
    ASSUME EpubTypes, \A m, n \in 1..Len(refs) : refs[m] = refs[n] => m = n,
           NEW s \in Sections, \A n \in 1..Len(refs) : refs[n] # s,
           book' = book, refs' = Append(refs, s)
    PROVE  /\ refs' \in Seq(Sections) /\ Len(refs') = Len(refs) + 1 /\ Len(refs) \in Nat
           /\ refs'[Len(refs) + 1] = s /\ \A n \in 1..Len(refs) : refs'[n] = refs[n]
           /\ \A m, n \in 1..Len(refs') : refs'[m] = refs'[n] => m = n
           /\ \A t : (t = s \/ \E n \in 1..Len(refs) : refs[n] = t) => Sequence(t)' = Sequence(t)
<1>1. refs \in Seq(Sections)
  BY DEF EpubTypes
<1>2. PICK k \in Nat : k = Len(refs)
  BY <1>1, LenProperties
<1>3. PICK r : r = refs'
  OBVIOUS
<1>4. r \in Seq(Sections) /\ Len(r) = k + 1 /\ r[k + 1] = s /\ \A n \in 1..k : r[n] = refs[n]
  BY <1>1, <1>2, <1>3, PushFacts
<1>5. \A m, n \in 1..(k + 1) : r[m] = r[n] => m = n
  <2>1. SUFFICES ASSUME NEW m \in 1..(k + 1), NEW n \in 1..(k + 1), r[m] = r[n] PROVE m = n
    OBVIOUS
  <2>2. CASE m \in 1..k /\ n \in 1..k
    BY <1>2, <1>4, <2>1, <2>2
  <2>3. CASE m = k + 1 /\ n \in 1..k
    BY <1>2, <1>4, <2>1, <2>3
  <2>4. CASE n = k + 1 /\ m \in 1..k
    BY <1>2, <1>4, <2>1, <2>4
  <2>5. CASE m = k + 1 /\ n = k + 1
    BY <2>5
  <2>6. QED
    BY <2>2, <2>3, <2>4, <2>5
<1>6. PICK z : z = IF book.titled THEN 1 ELSE 0
  OBVIOUS
<1>7. \A n \in 1..(k + 1) : (CHOOSE i \in 1..(k + 1) : r[i] = r[n]) = n
  BY <1>5
<1>8. Sequence(s) = z + (k + 1)
  <2>1. ~\E i \in 1..Len(refs) : refs[i] = s
    OBVIOUS
  <2>2. QED
    BY <1>2, <1>6, <2>1 DEF Sequence
<1>9. \A t : (t = s \/ \E n \in 1..Len(refs) : refs[n] = t) => Sequence(t)' = Sequence(t)
  <2>1. SUFFICES ASSUME NEW t, t = s \/ \E n \in 1..Len(refs) : refs[n] = t PROVE Sequence(t)' = Sequence(t)
    OBVIOUS
  <2>2. CASE t = s
    <3>1. k + 1 \in 1..(k + 1)
      OBVIOUS
    <3>2. r[k + 1] = t
      BY <1>4, <2>2
    <3>3. Sequence(t)' = z + (k + 1)
      <4>1. (CHOOSE i \in 1..Len(refs') : refs'[i] = t) = k + 1
        BY <1>3, <1>4, <1>7, <3>1, <3>2
      <4>2. \E i \in 1..Len(refs') : refs'[i] = t
        BY <1>3, <1>4, <3>1, <3>2
      <4>3. QED
        BY <1>6, <4>1, <4>2 DEF Sequence
    <3>4. QED
      BY <1>8, <2>2, <3>3
  <2>3. CASE \E n \in 1..Len(refs) : refs[n] = t
    <3>1. PICK n \in 1..k : refs[n] = t
      BY <1>2, <2>3
    <3>2. n \in 1..(k + 1) /\ r[n] = t
      BY <1>4, <3>1
    <3>3. Sequence(t)' = z + n
      <4>1. (CHOOSE i \in 1..Len(refs') : refs'[i] = t) = n
        BY <1>3, <1>4, <1>7, <3>2
      <4>2. \E i \in 1..Len(refs') : refs'[i] = t
        BY <1>3, <1>4, <3>2
      <4>3. QED
        BY <1>6, <4>1, <4>2 DEF Sequence
    <3>4. Sequence(t) = z + n
      BY <1>2, <1>6, <3>1, SequenceOf
    <3>5. QED
      BY <3>3, <3>4
  <2>4. QED
    BY <2>1, <2>2, <2>3
<1>10. QED
  BY <1>2, <1>3, <1>4, <1>5, <1>9

LEMMA RenderChapterKeeps == ASSUME EpubInv, RenderChapter PROVE EpubInv'
<1>1. EpubTypes /\ HeadedOnce /\ Rendering /\ stage = "render"
  BY DEF EpubInv, RenderChapter
<1>2. /\ entry \in Nat \ {0} /\ frames \in Seq(Frames) /\ frames # <<>> /\ refs \in Seq(Sections)
      /\ run \in Seq(Leaves) /\ chapters \in Seq(Chapters)
  BY <1>1 DEF EpubTypes
<1>3. PICK s : s = chapters[entry].section
  OBVIOUS
<1>4. /\ entry <= Len(chapters) /\ written' = Append(written, ChapterFile(entry)) /\ entry' = entry + 1
      /\ refs' = (IF s = 0 THEN refs ELSE Append(refs, s))
      /\ book' = book /\ stage' = stage /\ frames' = frames /\ run' = run /\ chapters' = chapters
  BY <1>3 DEF RenderChapter
<1>5. PICK n \in Nat : n = Len(chapters)
  BY <1>2, LenProperties
<1>6. entry \in 1..n
  BY <1>2, <1>4, <1>5
<1>7. s \in Sections \union {0}
  <2>1. chapters[entry] \in Chapters
    BY <1>2, <1>5, <1>6, ElementOfSeq
  <2>2. QED
    BY <1>3, <2>1 DEF Chapters
<1>8. SoFar = entry - 1 /\ SoFar' = entry
  BY <1>1, <1>2, <1>4 DEF SoFar
<1>9. /\ \A i, j \in 1..Len(refs) : refs[i] = refs[j] => i = j
      /\ \A i \in 1..Len(refs) : \E c \in 1..(entry - 1) : chapters[c].section = refs[i]
      /\ \A c \in 1..(entry - 1) : chapters[c].section # 0 => \E i \in 1..Len(refs) : refs[i] = chapters[c].section
      /\ written = ChapterFiles
  BY <1>1, <1>8 DEF Rendering
<1>10. s # 0 => \A i \in 1..Len(refs) : refs[i] # s
  <2>1. SUFFICES ASSUME s # 0, NEW i \in 1..Len(refs), refs[i] = s PROVE FALSE
    OBVIOUS
  <2>2. PICK c \in 1..(entry - 1) : chapters[c].section = s
    BY <1>9, <2>1
  <2>3. c \in 1..n /\ c # entry
    BY <1>2, <1>6, <2>2
  <2>4. QED
    BY <1>1, <1>3, <1>5, <1>6, <2>1, <2>2, <2>3 DEF HeadedOnce
<1>11. /\ refs' \in Seq(Sections)
       /\ \A i, j \in 1..Len(refs') : refs'[i] = refs'[j] => i = j
       /\ \A i \in 1..Len(refs') : \E c \in 1..entry : chapters[c].section = refs'[i]
       /\ \A c \in 1..entry : chapters[c].section # 0 => \E i \in 1..Len(refs') : refs'[i] = chapters[c].section
       /\ \A c \in 1..entry : chapters[c].section # 0 => Sequence(chapters[c].section)' = Sequence(chapters[c].section)
  <2>1. \A c \in 1..entry : c # entry => c \in 1..(entry - 1)
    BY <1>2
  <2>2. \A c \in 1..(entry - 1) : c \in 1..entry
    BY <1>2
  <2>3. CASE s = 0
    <3>1. refs' = refs
      BY <1>4, <2>3
    <3>2. \A t : Sequence(t)' = Sequence(t)
      BY <1>4, <3>1 DEF Sequence
    <3>3. \A c \in 1..entry : Sequence(chapters[c].section)' = Sequence(chapters[c].section)
      BY <1>4, <3>1 DEF Sequence
    <3>4. \A i \in 1..Len(refs) : \E c \in 1..entry : chapters[c].section = refs[i]
      BY <1>9, <2>2
    <3>5. \A c \in 1..entry : chapters[c].section # 0 => \E i \in 1..Len(refs) : refs[i] = chapters[c].section
      BY <1>3, <1>9, <2>1, <2>3
    <3>6. QED
      BY <1>2, <1>9, <3>1, <3>3, <3>4, <3>5
  <2>4. CASE s # 0
    <3>1. s \in Sections /\ refs' = Append(refs, s)
      BY <1>4, <1>7, <2>4
    <3>2. /\ refs' \in Seq(Sections) /\ Len(refs') = Len(refs) + 1 /\ Len(refs) \in Nat
          /\ refs'[Len(refs) + 1] = s /\ \A i \in 1..Len(refs) : refs'[i] = refs[i]
          /\ \A i, j \in 1..Len(refs') : refs'[i] = refs'[j] => i = j
          /\ \A t : (t = s \/ \E i \in 1..Len(refs) : refs[i] = t) => Sequence(t)' = Sequence(t)
      BY <1>1, <1>4, <1>9, <1>10, <2>4, <3>1, SequenceStays
    <3>3. PICK k \in Nat : k = Len(refs)
      BY <3>2
    <3>4. PICK r : r = refs'
      OBVIOUS
    <3>5. Len(r) = k + 1 /\ r[k + 1] = s /\ \A i \in 1..k : r[i] = refs[i]
      BY <3>2, <3>3, <3>4
    <3>6. ASSUME NEW i \in 1..(k + 1) PROVE \E c \in 1..entry : chapters[c].section = r[i]
      <4>1. CASE i \in 1..k
        <5>1. PICK c \in 1..(entry - 1) : chapters[c].section = refs[i]
          BY <1>9, <3>3, <4>1
        <5>2. c \in 1..entry /\ r[i] = refs[i]
          BY <2>2, <3>5, <4>1, <5>1
        <5>3. QED
          BY <5>1, <5>2
      <4>2. CASE i = k + 1
        <5>1. entry \in 1..entry /\ r[i] = s
          BY <1>2, <3>5, <4>2
        <5>2. QED
          BY <1>3, <5>1
      <4>3. QED
        BY <4>1, <4>2
    <3>7. ASSUME NEW c \in 1..entry, chapters[c].section # 0
          PROVE  /\ \E i \in 1..(k + 1) : r[i] = chapters[c].section
                 /\ chapters[c].section = s \/ \E i \in 1..Len(refs) : refs[i] = chapters[c].section
      <4>1. CASE c = entry
        <5>1. k + 1 \in 1..(k + 1)
          OBVIOUS
        <5>2. QED
          BY <1>3, <3>5, <4>1, <5>1
      <4>2. CASE c # entry
        <5>1. PICK i \in 1..k : refs[i] = chapters[c].section
          BY <1>9, <2>1, <3>3, <3>7, <4>2
        <5>2. i \in 1..(k + 1) /\ r[i] = refs[i]
          BY <3>5, <5>1
        <5>3. QED
          BY <3>3, <5>1, <5>2
      <4>3. QED
        BY <4>1, <4>2
    <3>8. ASSUME NEW c \in 1..entry, chapters[c].section # 0
          PROVE  Sequence(chapters[c].section)' = Sequence(chapters[c].section)
      <4>1. PICK t : t = chapters[c].section
        OBVIOUS
      <4>2. Sequence(t)' = Sequence(t)
        BY <3>2, <3>7, <3>8, <4>1
      <4>3. chapters'[c].section = t
        BY <1>4, <4>1
      <4>4. QED
        BY <4>1, <4>2, <4>3 DEF Sequence
    <3>9. QED
      BY <3>2, <3>4, <3>5, <3>6, <3>7, <3>8
  <2>5. QED
    BY <2>3, <2>4
<1>12. ASSUME NEW c \in 1..entry PROVE ChapterFile(c)' = ChapterFile(c)
  BY <1>4, <1>11, <1>12, ChapterFileKept
<1>13. EpubTypes' /\ Sections' = Sections
  <2>1. entry' \in Nat \ {0} /\ stage' \in {"split", "render", "contents", "package", "done"}
    BY <1>1, <1>2, <1>4
  <2>2. /\ frames' \in Seq(Frames) /\ frames' # <<>> /\ run' \in Seq(Leaves)
        /\ chapters' \in Seq(Chapters) /\ book' = book
    BY <1>2, <1>4
  <2>3. QED
    BY <1>1, <1>11, <2>1, <2>2, TypesKept
<1>14. HeadedOnce'
  BY <1>1, <1>4 DEF HeadedOnce
<1>15. written' = ChapterFiles'
  <2>1. PICK k \in Nat : k = entry - 1
    BY <1>2
  <2>2. k + 1 = entry
    BY <1>2, <2>1
  <2>3. PICK f : f = [c \in 1..k |-> ChapterFile(c)]
    OBVIOUS
  <2>4. PICK g : g = [c \in 1..(k + 1) |-> ChapterFile(c)]
    OBVIOUS
  <2>5. written = f
    BY <1>8, <1>9, <2>1, <2>3 DEF ChapterFiles
  <2>6. ChapterFiles' = g
    BY <1>8, <1>12, <2>2, <2>4 DEF ChapterFiles
  <2>7. PICK T : T = {ChapterFile(c) : c \in 1..(k + 1)}
    OBVIOUS
  <2>8. f \in [1..k -> T] /\ \A c \in 1..k : f[c] = ChapterFile(c)
    BY <2>3, <2>7
  <2>9. g \in [1..(k + 1) -> T] /\ \A c \in 1..(k + 1) : g[c] = ChapterFile(c)
    BY <2>4, <2>7
  <2>10. f \in Seq(T) /\ Len(f) = k
    BY <2>8, Listing1
  <2>11. g \in Seq(T) /\ Len(g) = k + 1
    BY <2>9, Listing1
  <2>12. PICK x \in T : x = ChapterFile(k + 1)
    BY <2>7
  <2>13. PICK h : h = Append(f, x)
    OBVIOUS
  <2>14. h \in Seq(T) /\ Len(h) = k + 1 /\ h[k + 1] = x /\ \A c \in 1..k : h[c] = f[c]
    BY <2>10, <2>12, <2>13, PushFacts
  <2>15. \A c \in 1..(k + 1) : g[c] = h[c]
    <3>1. SUFFICES ASSUME NEW c \in 1..(k + 1) PROVE g[c] = h[c]
      OBVIOUS
    <3>2. CASE c \in 1..k
      BY <2>8, <2>9, <2>14, <3>2
    <3>3. CASE c = k + 1
      BY <2>9, <2>12, <2>14, <3>3
    <3>4. QED
      BY <3>2, <3>3
  <2>16. g = h
    BY <2>11, <2>14, <2>15, SeqEqual
  <2>17. QED
    BY <1>4, <2>2, <2>5, <2>6, <2>12, <2>13, <2>16
<1>16. Rendering'
  <2>1. Split' = UpTo(Len(book'.body))
    BY <1>1, <1>4 DEF Rendering, Split
  <2>2. \A k \in Sections : \E c \in 1..Len(chapters') : chapters'[c].section = k
    BY <1>1, <1>4 DEF Rendering
  <2>3. SoFar' <= Len(chapters')
    BY <1>4, <1>8
  <2>4. stage' = "render"
    BY <1>1, <1>4
  <2>5. QED
    BY <1>4, <1>8, <1>11, <1>13, <1>15, <2>1, <2>2, <2>3, <2>4 DEF Rendering
<1>17. QED
  BY <1>1, <1>4, <1>13, <1>14, <1>16 DEF EpubInv

\* What a step after the chapters leaves as it was.
LEMMA AfterChapters ==
    ASSUME EpubTypes, HeadedOnce, Rendering, SoFar = Len(chapters), book' = book, chapters' = chapters, refs' = refs,
           frames' = frames, run' = run, entry' = entry, stage' \in {"contents", "package", "done"}
    PROVE  /\ EpubTypes' /\ HeadedOnce' /\ Sections' = Sections /\ SoFar' = Len(chapters)
           /\ Split' = UpTo(Len(book'.body))
           /\ \A k \in Sections' : \E c \in 1..Len(chapters') : chapters'[c].section = k
           /\ SoFar' <= Len(chapters')
           /\ \A m, n \in 1..Len(refs') : refs'[m] = refs'[n] => m = n
           /\ \A n \in 1..Len(refs') : \E c \in 1..SoFar' : chapters'[c].section = refs'[n]
           /\ \A c \in 1..SoFar' : chapters'[c].section # 0 => \E n \in 1..Len(refs') : refs'[n] = chapters'[c].section
           /\ ChapterFiles' = ChapterFiles /\ Notes' = Notes /\ NotesFile' = NotesFile
           /\ OtherFiles' = OtherFiles /\ Lines' = Lines
           /\ PackageItems' = PackageItems /\ ReadingOrder' = ReadingOrder
<1>1. EpubTypes' /\ Sections' = Sections
  <2>1. stage' \in {"split", "render", "contents", "package", "done"}
    OBVIOUS
  <2>2. /\ entry' \in Nat \ {0} /\ frames' \in Seq(Frames) /\ frames' # <<>> /\ run' \in Seq(Leaves)
        /\ chapters' \in Seq(Chapters) /\ refs' \in Seq(Sections)
    BY DEF EpubTypes
  <2>3. QED
    BY <2>1, <2>2, TypesKept
<1>2. HeadedOnce'
  BY DEF HeadedOnce
<1>3. SoFar' = Len(chapters)
  BY DEF SoFar
<1>4. /\ \A c : ChapterFile(c)' = ChapterFile(c)
      /\ Lines' = Lines /\ OtherFiles' = OtherFiles
      /\ PackageItems' = PackageItems /\ ReadingOrder' = ReadingOrder
  BY AllKept
<1>5. Notes' = Notes /\ NotesFile' = NotesFile /\ Split' = Split
  BY StaysAsItIs
<1>6. ChapterFiles' = ChapterFiles
  BY <1>3, <1>4 DEF ChapterFiles
<1>7. Split' = UpTo(Len(book'.body))
  BY <1>5 DEF Rendering
<1>8. \A k \in Sections' : \E c \in 1..Len(chapters') : chapters'[c].section = k
  BY <1>1 DEF Rendering
<1>9. SoFar' <= Len(chapters')
  BY <1>3 DEF Rendering
<1>10. /\ \A m, n \in 1..Len(refs') : refs'[m] = refs'[n] => m = n
       /\ \A n \in 1..Len(refs') : \E c \in 1..SoFar' : chapters'[c].section = refs'[n]
       /\ \A c \in 1..SoFar' : chapters'[c].section # 0 => \E n \in 1..Len(refs') : refs'[n] = chapters'[c].section
  BY <1>3 DEF Rendering
<1>11. QED
  BY <1>1, <1>2, <1>3, <1>4, <1>5, <1>6, <1>7, <1>8, <1>9, <1>10

LEMMA RenderNotesKeeps == ASSUME EpubInv, RenderNotes PROVE EpubInv'
<1>1. EpubTypes /\ HeadedOnce /\ Rendering /\ stage = "render"
  BY DEF EpubInv, RenderNotes
<1>2. /\ entry > Len(chapters) /\ written' = written \o When(Notes # <<>>, <<NotesFile>>) /\ stage' = "contents"
      /\ book' = book /\ entry' = entry /\ frames' = frames /\ run' = run /\ chapters' = chapters /\ refs' = refs
  BY DEF RenderNotes
<1>3. SoFar = Len(chapters)
  <2>1. entry \in Nat \ {0} /\ Len(chapters) \in Nat
    BY <1>1, LenProperties DEF EpubTypes
  <2>2. SoFar = entry - 1 /\ SoFar <= Len(chapters)
    BY <1>1 DEF SoFar, Rendering
  <2>3. QED
    BY <1>2, <2>1, <2>2
<1>4. written = ChapterFiles
  BY <1>1 DEF Rendering
<1>5. stage' \in {"contents", "package", "done"}
  BY <1>2
<1>6. /\ EpubTypes' /\ HeadedOnce'
      /\ Split' = UpTo(Len(book'.body))
      /\ \A k \in Sections' : \E c \in 1..Len(chapters') : chapters'[c].section = k
      /\ SoFar' <= Len(chapters')
      /\ \A m, n \in 1..Len(refs') : refs'[m] = refs'[n] => m = n
      /\ \A n \in 1..Len(refs') : \E c \in 1..SoFar' : chapters'[c].section = refs'[n]
      /\ \A c \in 1..SoFar' : chapters'[c].section # 0 => \E n \in 1..Len(refs') : refs'[n] = chapters'[c].section
      /\ ChapterFiles' = ChapterFiles /\ Notes' = Notes /\ NotesFile' = NotesFile
  BY <1>1, <1>2, <1>3, <1>5, AfterChapters
<1>7. written' = ChapterFiles' \o When(Notes' # <<>>, <<NotesFile'>>)
  BY <1>2, <1>4, <1>6
<1>8. Rendering'
  BY <1>2, <1>6, <1>7 DEF Rendering
<1>9. QED
  BY <1>2, <1>6, <1>8 DEF EpubInv

LEMMA BindKeeps == ASSUME EpubInv, Bind PROVE EpubInv'
<1>1. EpubTypes /\ HeadedOnce /\ Rendering /\ stage = "contents"
  BY DEF EpubInv, Bind
<1>2. /\ contents' = Lines /\ written' = written \o OtherFiles /\ stage' = "package"
      /\ book' = book /\ entry' = entry /\ frames' = frames /\ run' = run /\ chapters' = chapters /\ refs' = refs
  BY DEF Bind
<1>3. SoFar = Len(chapters)
  BY <1>1 DEF SoFar
<1>4. written = ChapterFiles \o When(Notes # <<>>, <<NotesFile>>)
  BY <1>1 DEF Rendering
<1>5. stage' \in {"contents", "package", "done"}
  BY <1>2
<1>6. /\ EpubTypes' /\ HeadedOnce'
      /\ Split' = UpTo(Len(book'.body))
      /\ \A k \in Sections' : \E c \in 1..Len(chapters') : chapters'[c].section = k
      /\ SoFar' <= Len(chapters')
      /\ \A m, n \in 1..Len(refs') : refs'[m] = refs'[n] => m = n
      /\ \A n \in 1..Len(refs') : \E c \in 1..SoFar' : chapters'[c].section = refs'[n]
      /\ \A c \in 1..SoFar' : chapters'[c].section # 0 => \E n \in 1..Len(refs') : refs'[n] = chapters'[c].section
      /\ ChapterFiles' = ChapterFiles /\ Notes' = Notes /\ NotesFile' = NotesFile
      /\ OtherFiles' = OtherFiles /\ Lines' = Lines
  BY <1>1, <1>2, <1>3, <1>5, AfterChapters
<1>7. written' = (ChapterFiles' \o When(Notes' # <<>>, <<NotesFile'>>)) \o OtherFiles' /\ contents' = Lines'
  BY <1>2, <1>4, <1>6
<1>8. Rendering'
  BY <1>2, <1>6, <1>7 DEF Rendering
<1>9. QED
  BY <1>2, <1>6, <1>8 DEF EpubInv

LEMMA PackageKeeps == ASSUME EpubInv, Package PROVE EpubInv'
<1>1. EpubTypes /\ HeadedOnce /\ Rendering /\ stage = "package"
  BY DEF EpubInv, Package
<1>2. /\ manifest' = PackageItems /\ spine' = [j \in 1..Len(ReadingOrder) |-> ReadingOrder[j].id] /\ stage' = "done"
      /\ book' = book /\ entry' = entry /\ frames' = frames /\ run' = run /\ chapters' = chapters /\ refs' = refs
      /\ written' = written /\ contents' = contents
  BY DEF Package
<1>3. SoFar = Len(chapters)
  BY <1>1 DEF SoFar
<1>4. written = (ChapterFiles \o When(Notes # <<>>, <<NotesFile>>)) \o OtherFiles /\ contents = Lines
  BY <1>1 DEF Rendering
<1>5. stage' \in {"contents", "package", "done"}
  BY <1>2
<1>6. /\ EpubTypes' /\ HeadedOnce'
      /\ Split' = UpTo(Len(book'.body))
      /\ \A k \in Sections' : \E c \in 1..Len(chapters') : chapters'[c].section = k
      /\ SoFar' <= Len(chapters')
      /\ \A m, n \in 1..Len(refs') : refs'[m] = refs'[n] => m = n
      /\ \A n \in 1..Len(refs') : \E c \in 1..SoFar' : chapters'[c].section = refs'[n]
      /\ \A c \in 1..SoFar' : chapters'[c].section # 0 => \E n \in 1..Len(refs') : refs'[n] = chapters'[c].section
      /\ ChapterFiles' = ChapterFiles /\ Notes' = Notes /\ NotesFile' = NotesFile
      /\ OtherFiles' = OtherFiles /\ Lines' = Lines
      /\ PackageItems' = PackageItems /\ ReadingOrder' = ReadingOrder
  BY <1>1, <1>2, <1>3, <1>5, AfterChapters
<1>7. written' = (ChapterFiles' \o When(Notes' # <<>>, <<NotesFile'>>)) \o OtherFiles' /\ contents' = Lines'
  BY <1>2, <1>4, <1>6
<1>8. manifest' = PackageItems' /\ spine' = [j \in 1..Len(ReadingOrder') |-> ReadingOrder'[j].id]
  BY <1>2, <1>6
<1>9. Rendering'
  BY <1>2, <1>6, <1>7, <1>8 DEF Rendering
<1>10. QED
  BY <1>2, <1>6, <1>9 DEF EpubInv

LEMMA NothingKeeps == ASSUME EpubInv, UNCHANGED epubVars PROVE EpubInv'
<1>1. /\ book' = book /\ stage' = stage /\ entry' = entry /\ frames' = frames /\ run' = run /\ chapters' = chapters
      /\ refs' = refs /\ written' = written /\ contents' = contents /\ manifest' = manifest /\ spine' = spine
  BY DEF epubVars, packageVars
<1>2. EpubTypes /\ HeadedOnce
  BY DEF EpubInv
<1>3. EpubTypes' /\ Sections' = Sections
  <2>1. /\ stage \in {"split", "render", "contents", "package", "done"}
        /\ entry \in Nat \ {0} /\ frames \in Seq(Frames) /\ frames # <<>> /\ run \in Seq(Leaves)
        /\ chapters \in Seq(Chapters) /\ refs \in Seq(Sections)
    BY <1>2 DEF EpubTypes
  <2>2. QED
    BY <1>1, <1>2, <2>1, TypesKept
<1>4. HeadedOnce'
  BY <1>1, <1>2 DEF HeadedOnce
<1>5. ASSUME stage = "split" PROVE Splitting'
  <2>1. Splitting
    BY <1>5 DEF EpubInv
  <2>2. Split' = Split /\ Inner' = Inner
    BY <1>1 DEF Split, Inner
  <2>3. QED
    BY <1>1, <1>3, <2>1, <2>2 DEF Splitting
<1>6. ASSUME stage # "split" PROVE Rendering'
  <2>1. Rendering
    BY <1>6 DEF EpubInv
  <2>2. /\ \A c : ChapterFile(c)' = ChapterFile(c)
        /\ Lines' = Lines /\ OtherFiles' = OtherFiles
        /\ PackageItems' = PackageItems /\ ReadingOrder' = ReadingOrder
    BY <1>1, AllKept
  <2>3. Notes' = Notes /\ NotesFile' = NotesFile /\ Split' = Split
    BY <1>1, StaysAsItIs
  <2>4. SoFar' = SoFar
    BY <1>1 DEF SoFar
  <2>5. ChapterFiles' = ChapterFiles
    BY <2>2, <2>4 DEF ChapterFiles
  <2>6. QED
    BY <1>1, <1>3, <2>1, <2>2, <2>3, <2>4, <2>5 DEF Rendering
<1>7. QED
  BY <1>1, <1>3, <1>4, <1>5, <1>6 DEF EpubInv

\* Every step of the generator keeps the invariant: no entry falls out between the
\* chapters, the section under way and the paragraphs that wait, and each section
\* gets one chapter and one anchor, whatever was rendered first.
THEOREM EpubInvariant == EpubSpec => []EpubInv
<1>1. ASSUME EpubInv, [EpubNext]_epubVars PROVE EpubInv'
  BY <1>1, CollectKeeps, EnterSectionKeeps, LeaveSectionKeeps, LeaveBodyKeeps, RenderChapterKeeps, RenderNotesKeeps,
     BindKeeps, PackageKeeps, NothingKeeps DEF EpubNext
<1>2. QED
  BY EpubStarts, <1>1, PTL DEF EpubSpec

\* A set of numbers that is not empty has a least one.
LEMMA LeastIn ==
    ASSUME NEW S, S \subseteq Nat, S # {}
    PROVE  \E n \in S : \A m \in S : n <= m
<1> SUFFICES ASSUME \A n \in S : \E m \in S : ~(n <= m) PROVE FALSE
  OBVIOUS
<1> DEFINE N == {k \in Nat : \A m \in S : m > k}
<1>1. 0 \in N
  <2>1. 0 \notin S
    OBVIOUS
  <2>2. QED
    BY <2>1
<1>2. ASSUME NEW k \in Nat, k \in N PROVE k + 1 \in N
  <2>1. \A m \in S : m > k
    BY <1>2
  <2>2. \A m \in S : k + 1 <= m
    BY <2>1
  <2>3. k + 1 \notin S
    BY <2>2
  <2>4. \A m \in S : m > k + 1
    BY <2>2, <2>3
  <2>5. QED
    BY <2>4
<1>3. Nat \subseteq N
  <2> HIDE DEF N
  <2>1. QED
    BY <1>1, <1>2, NatsIn
<1>4. PICK n \in S : TRUE
  OBVIOUS
<1>5. QED
  BY <1>3, <1>4

Done == EpubInv /\ stage = "done"

LEMMA DoneFacts ==
    ASSUME Done
    PROVE  /\ EpubTypes /\ HeadedOnce /\ Rendering
           /\ book.body \in Seq(Entries) /\ book.notes \in Seq(Entries) /\ book.titled \in BOOLEAN
           /\ book.binaries \in Seq(Graphics)
           /\ Len(book.body) \in Nat /\ Len(book.notes) \in Nat /\ Len(book.binaries) \in Nat /\ Len(chapters) \in Nat
           /\ chapters \in Seq(Chapters) /\ chapters \in Seq(Nested1) /\ refs \in Seq(Sections)
<1>1. EpubTypes /\ HeadedOnce /\ Rendering
  BY DEF Done, EpubInv
<1>2. /\ book.body \in Seq(Entries) /\ book.notes \in Seq(Entries) /\ book.titled \in BOOLEAN
      /\ book.binaries \in Seq(Graphics) /\ chapters \in Seq(Chapters) /\ refs \in Seq(Sections)
  BY <1>1 DEF EpubTypes, BookSet
<1>3. Len(book.body) \in Nat /\ Len(book.notes) \in Nat /\ Len(book.binaries) \in Nat /\ Len(chapters) \in Nat
  BY <1>2, LenProperties
<1>4. chapters \in Seq(Nested1)
  BY <1>1, ChaptersNested
<1>5. QED
  BY <1>1, <1>2, <1>3, <1>4

LEMMA HomeFacts ==
    ASSUME Done, NEW id
    PROVE  /\ Home(id) \in 0..Len(chapters)
           /\ Home(id) # 0 => id \in IdsOf(chapters[Home(id)])
           /\ (\E c \in 1..Len(chapters) : id \in IdsOf(chapters[c])) => Home(id) # 0
<1>1. PICK n \in Nat : n = Len(chapters)
  BY DoneFacts
<1>2. CASE \E c \in 1..n : id \in IdsOf(chapters[c])
  <2>1. PICK S : S = {c \in 1..n : id \in IdsOf(chapters[c])}
    OBVIOUS
  <2>2. S \subseteq Nat /\ S # {}
    BY <1>2, <2>1
  <2>3. PICK c \in S : \A m \in S : c <= m
    BY <2>2, LeastIn
  <2>4. c \in 1..n /\ id \in IdsOf(chapters[c])
    BY <2>1, <2>3
  <2>5. \A b \in 1..(c - 1) : id \notin IdsOf(chapters[b])
    <3>1. SUFFICES ASSUME NEW b \in 1..(c - 1), id \in IdsOf(chapters[b]) PROVE FALSE
      OBVIOUS
    <3>2. b \in 1..n
      BY <2>4, <3>1
    <3>3. b \in S
      BY <2>1, <3>1, <3>2
    <3>4. c <= b
      BY <2>3, <3>3
    <3>5. QED
      BY <2>4, <3>1, <3>4
  <2>6. \E d \in 1..n : id \in IdsOf(chapters[d]) /\ \A b \in 1..(d - 1) : id \notin IdsOf(chapters[b])
    BY <2>4, <2>5
  <2>7. PICK h : h = CHOOSE d \in 1..n : id \in IdsOf(chapters[d]) /\ \A b \in 1..(d - 1) : id \notin IdsOf(chapters[b])
    OBVIOUS
  <2>8. h \in 1..n /\ id \in IdsOf(chapters[h])
    BY <2>6, <2>7
  <2>9. Home(id) = h
    BY <1>1, <1>2, <2>7 DEF Home
  <2>10. QED
    BY <1>1, <2>8, <2>9
<1>3. CASE ~\E c \in 1..n : id \in IdsOf(chapters[c])
  <2>1. Home(id) = 0
    BY <1>1, <1>3 DEF Home
  <2>2. QED
    BY <1>1, <1>3, <2>1
<1>4. QED
  BY <1>2, <1>3

LEMMA CoverFacts ==
    ASSUME Done
    PROVE  /\ Images \subseteq 1..Len(book.binaries) /\ 0 \notin Images /\ -1 \notin Images
           /\ Cover \in Images \union {0, -1}
           /\ Cover = 0 => Normal(book.cover) \notin {Normal(book.binaries[n]) : n \in Images}
<1>1. PICK N \in Nat : N = Len(book.binaries)
  BY DoneFacts
<1>2. Images \subseteq 1..N
  BY <1>1 DEF Images
<1>3. 0 \notin Images /\ -1 \notin Images
  BY <1>2
<1>4. ASSUME NEW S, S \subseteq Images, S # {} PROVE (CHOOSE n \in S : \A m \in S : n <= m) \in S
  <2>1. S \subseteq Nat
    BY <1>2, <1>4
  <2>2. \E n \in S : \A m \in S : n <= m
    BY <1>4, <2>1, LeastIn
  <2>3. QED
    BY <2>2
<1>5. PICK same : same = {n \in Images : Normal(book.binaries[n]) = Normal(book.cover)}
  OBVIOUS
<1>6. same \subseteq Images
  BY <1>5
<1>7. PICK a : a = CHOOSE n \in same : \A m \in same : n <= m
  OBVIOUS
<1>8. PICK b : b = CHOOSE n \in Images : \A m \in Images : n <= m
  OBVIOUS
<1>9. same # {} => a \in Images
  BY <1>4, <1>6, <1>7
<1>10. Images # {} => b \in Images
  BY <1>4, <1>8
<1>11. Cover = IF Normal(book.cover) # Unusable THEN IF same # {} THEN a ELSE 0 ELSE IF Images # {} THEN b ELSE -1
  BY <1>5, <1>7, <1>8 DEF Cover
<1>12. Cover = 0 => same = {}
  BY <1>3, <1>9, <1>10, <1>11
<1>13. QED
  BY <1>1, <1>2, <1>3, <1>5, <1>9, <1>10, <1>11, <1>12

LEMMA InOrderRange ==
    ASSUME NEW S, NEW n \in Nat, NEW T, \A k \in 1..n : k \in S => k \in T
    PROVE  InOrder(S, n) \in Seq(T)
<1>1. PICK s : s = InOrder(S, n)
  OBVIOUS
<1>2. s \in Seq(Nat) /\ \A k : k \in Range(s) <=> k \in 1..n /\ k \in S
  BY <1>1, InOrderFacts
<1>3. PICK m \in Nat : m = Len(s)
  BY <1>2, LenProperties
<1>4. Range(s) = {s[i] : i \in 1..m}
  BY <1>2, <1>3, RangeEquality
<1>5. \A i \in 1..m : s[i] \in T
  BY <1>2, <1>4
<1>6. s \in [1..m -> T]
  BY <1>2, <1>3, <1>5, LenProperties
<1>7. QED
  BY <1>1, <1>6, Listing1

LEMMA NotesFacts ==
    ASSUME Done
    PROVE  /\ Notes \in Seq([id : Names, paras : Seq(1..Len(book.notes))]) /\ Len(Notes) \in Nat
           /\ \A id \in NoteIds : \E n \in 1..Len(Notes) : AnchorOf(n) = NoteAnchor(id)
<1>1. PICK N \in Nat : N = Len(book.notes)
  BY DoneFacts
<1>2. \A k \in 1..N : book.notes[k] \in Entries
  BY <1>1, DoneFacts, ElementOfSeq
<1>3. NoteHeads \in Seq(1..N)
  BY <1>1, InOrderRange DEF NoteHeads
<1>4. PICK m \in Nat : m = Len(NoteHeads)
  BY <1>3, LenProperties
<1>5. ASSUME NEW h \in 1..N PROVE ParasOf(h) \in Seq(1..N)
  <2>1. CASE ~book.notes[h].section
    <3>1. <<h>> \in Seq(1..N)
      OBVIOUS
    <3>2. QED
      BY <2>1, <3>1 DEF ParasOf
  <2>2. CASE book.notes[h].section
    <3>1. PICK S : S = {k \in (h + 1)..Len(book.notes) :
                  /\ ~book.notes[k].section /\ book.notes[k].level = 1
                  /\ \A i \in (h + 1)..k : ~(book.notes[i].section /\ book.notes[i].level = 1)}
      OBVIOUS
    <3>2. ParasOf(h) = InOrder(S, N)
      BY <1>1, <2>2, <3>1 DEF ParasOf
    <3>3. InOrder(S, N) \in Seq(1..N)
      BY InOrderRange
    <3>4. QED
      BY <3>2, <3>3
  <2>3. QED
    BY <2>1, <2>2
<1>6. ASSUME NEW n \in 1..m PROVE Notes[n] \in [id : Names, paras : Seq(1..N)]
  <2>1. PICK h \in 1..N : h = NoteHeads[n]
    BY <1>3, <1>4, <1>6, ElementOfSeq
  <2>2. Notes[n] = [id |-> IF book.notes[h].section THEN book.notes[h].id ELSE "", paras |-> ParasOf(h)]
    BY <1>4, <1>6, <2>1 DEF Notes
  <2>3. book.notes[h].id \in Names /\ "" \in Names
    BY <1>2, <2>1, DocumentsAssumption DEF Entries
  <2>4. ParasOf(h) \in Seq(1..N)
    BY <1>5, <2>1
  <2>5. PICK id \in Names, paras \in Seq(1..N) : Notes[n] = [id |-> id, paras |-> paras]
    BY <2>2, <2>3, <2>4
  <2>6. QED
    BY <2>5
<1>7. Notes \in [1..m -> [id : Names, paras : Seq(1..N)]]
  BY <1>4, <1>6 DEF Notes
<1>8. Notes \in Seq([id : Names, paras : Seq(1..N)]) /\ Len(Notes) = m
  BY <1>7, Listing1
<1>9. ASSUME NEW id \in NoteIds PROVE \E n \in 1..m : AnchorOf(n) = NoteAnchor(id)
  <2>1. id # "" /\ id \in {Notes[n].id : n \in 1..m}
    BY <1>8, <1>9 DEF NoteIds
  <2>2. PICK n \in 1..m : Notes[n].id = id
    BY <2>1
  <2>3. QED
    BY <2>1, <2>2 DEF AnchorOf
<1>10. QED
  BY <1>1, <1>8, <1>9

\* What the files are made of, and what is true of each link and picture in them.
Kinds == {"", "chapter", "notes", "outside", "head", "body", "image", "cover", "title", "style", "nav", "toc", "ncx"}
FileSet == [kind : Kinds, n : Int]
Keys == Names \union ({Tocref(n) : n \in Nat} \union ({NoteAnchor(id) : id \in Names} \union {NoteNumber(n) : n \in Nat}))
AtomSet == [type : {"anchor", "link", "text", "image"}, key : Keys, file : FileSet, entry : Nat]
Aims(file, key) ==
  \/ file.kind \notin {"chapter", "notes"}
  \/ Home(key) # 0 /\ file = Chapter(Home(key))
  \/ file = File("notes", 0) /\ \E n \in 1..Len(Notes) : AnchorOf(n) = key
  \/ \E c \in 1..Len(chapters) : /\ chapters[c].section # 0 /\ file = Chapter(c)
                                 /\ key = Tocref(Sequence(chapters[c].section))
  \/ file = File("notes", 0) /\ key = "" /\ Notes # <<>>
Lands(here, file, key) == Aims(file, key) \/ (file = here /\ Home(key) = 0 /\ key \notin NoteIds)
Shown == (Images \union {Cover}) \ {-1}
GoodAtoms ==
  {a \in AtomSet : a.type = "image" => \E n \in Shown : a.file = File("image", n)}
FileRecords == [file : FileSet, atoms : Seq(GoodAtoms)]
\* Where the links of a piece of a file lead.
Unlinked(s) == \A j \in 1..Len(s) : s[j].type # "link"
Led(here, s) == \A a \in Range(s) : a.type = "link" => Lands(here, a.file, a.key)

LEMMA FileFacts ==
    ASSUME NEW kind \in Kinds, NEW n \in Int
    PROVE  File(kind, n) \in FileSet /\ File(kind, n).kind = kind /\ File(kind, n).n = n
BY DEF File, FileSet

LEMMA KeysFacts ==
  /\ "" \in Keys /\ Names \subseteq Keys /\ \A n \in Nat : Tocref(n) \in Keys
  /\ \A id \in Names : NoteAnchor(id) \in Keys /\ \A n \in Nat : NoteNumber(n) \in Keys
BY DocumentsAssumption DEF Keys

LEMMA AnchorGood ==
    ASSUME NEW key \in Keys
    PROVE  Anchor(key) \in GoodAtoms /\ Anchor(key).type = "anchor" /\ Anchor(key).key = key
<1>1. File("", 0) \in FileSet
  <2>1. "" \in Kinds /\ 0 \in Int
    BY DEF Kinds
  <2>2. QED
    BY <2>1, FileFacts
<1>2. Anchor(key) \in AtomSet /\ Anchor(key).type = "anchor" /\ Anchor(key).key = key
  BY <1>1 DEF Anchor, AtomSet
<1>3. "anchor" # "link" /\ "anchor" # "image"
  OBVIOUS
<1>4. QED
  BY <1>2, <1>3 DEF GoodAtoms

LEMMA LinkGood ==
    ASSUME NEW key \in Keys, NEW file \in FileSet
    PROVE  /\ Link(file, key) \in GoodAtoms /\ Link(file, key).type = "link"
           /\ Link(file, key).file = file /\ Link(file, key).key = key
<1>1. Link(file, key) \in AtomSet /\ Link(file, key).type = "link"
      /\ Link(file, key).file = file /\ Link(file, key).key = key
  BY DEF Link, AtomSet
<1>2. "link" # "image"
  OBVIOUS
<1>3. QED
  BY <1>1, <1>2 DEF GoodAtoms

LEMMA WordsGood ==
    ASSUME NEW place \in {"head", "body", "notes"}, NEW k \in Nat
    PROVE  /\ Words(place, k) \in GoodAtoms /\ Words(place, k).type = "text"
           /\ Words(place, k).file.kind = place /\ Words(place, k).entry = k
<1>1. "" \in Keys /\ place \in Kinds
  BY KeysFacts DEF Kinds
<1>2. File(place, 0) \in FileSet /\ File(place, 0).kind = place
  <2>1. 0 \in Int
    OBVIOUS
  <2>2. QED
    BY <1>1, <2>1, FileFacts
<1>3. Words(place, k) \in AtomSet /\ Words(place, k).type = "text" /\ Words(place, k).file = File(place, 0)
      /\ Words(place, k).entry = k
  BY <1>1, <1>2 DEF Words, AtomSet
<1>4. "text" # "link" /\ "text" # "image"
  OBVIOUS
<1>5. QED
  BY <1>2, <1>3, <1>4 DEF GoodAtoms

LEMMA PictureGood ==
    ASSUME NEW n \in Int, n \in Shown
    PROVE  Picture(n) \in GoodAtoms /\ Picture(n).type = "image" /\ Picture(n).file = File("image", n)
<1>1. "" \in Keys /\ "image" \in Kinds
  BY KeysFacts DEF Kinds
<1>2. File("image", n) \in FileSet
  BY <1>1, FileFacts
<1>3. Picture(n) \in AtomSet /\ Picture(n).type = "image" /\ Picture(n).file = File("image", n)
  BY <1>1, <1>2 DEF Picture, AtomSet
<1>4. "image" # "link"
  OBVIOUS
<1>5. QED
  BY <1>3, <1>4 DEF GoodAtoms

LEMMA WhenOne ==
    ASSUME NEW T, NEW x, NEW condition \in BOOLEAN, condition => x \in T
    PROVE  /\ When(condition, <<x>>) \in Seq(T)
           /\ \A y : y \in Range(When(condition, <<x>>)) <=> condition /\ y = x
<1>1. CASE condition
  <2>1. PICK s : s = <<x>>
    OBVIOUS
  <2>2. s \in Seq(T) /\ Len(s) = 1 /\ s[1] = x
    BY <1>1, <2>1
  <2>3. Range(s) = {s[i] : i \in 1..1}
    BY <2>2, RangeEquality
  <2>4. When(condition, <<x>>) = s
    BY <1>1, <2>1 DEF When
  <2>5. \A y : y \in Range(s) <=> y = x
    BY <2>2, <2>3
  <2>6. QED
    BY <1>1, <2>2, <2>4, <2>5
<1>2. CASE ~condition
  <2>1. When(condition, <<x>>) = <<>>
    BY <1>2 DEF When
  <2>2. <<>> \in Seq(T)
    OBVIOUS
  <2>3. Range(<<>>) = {}
    BY DEF Range
  <2>4. QED
    BY <1>2, <2>1, <2>2, <2>3
<1>3. QED
  BY <1>1, <1>2

LEMMA ResolvedGood ==
    ASSUME Done, NEW here \in FileSet, NEW link \in [to : Names, fragment : BOOLEAN, note : BOOLEAN]
    PROVE  /\ Resolved(here, link) \in GoodAtoms /\ Resolved(here, link).type = "link"
           /\ Lands(here, Resolved(here, link).file, Resolved(here, link).key)
<1>1. link.to \in Keys /\ link.to \in Names
  BY KeysFacts
<1>2. "notes" \in Kinds /\ "outside" \in Kinds /\ "chapter" \in Kinds /\ 0 \in Int
  BY DEF Kinds
<1>3. PICK h \in Int : h = Home(link.to)
  <2>1. Home(link.to) \in 0..Len(chapters) /\ Len(chapters) \in Nat
    BY HomeFacts, DoneFacts
  <2>2. QED
    BY <2>1
<1>4. CASE (link.fragment \/ link.note) /\ link.to \in NoteIds
  <2>1. PICK key : key = NoteAnchor(link.to)
    OBVIOUS
  <2>2. PICK file : file = File("notes", 0)
    OBVIOUS
  <2>3. key \in Keys /\ file \in FileSet
    BY <1>1, <1>2, <2>1, <2>2, KeysFacts, FileFacts
  <2>4. \E n \in 1..Len(Notes) : AnchorOf(n) = key
    BY <1>4, <2>1, NotesFacts
  <2>5. Lands(here, file, key)
    BY <2>2, <2>4 DEF Lands, Aims
  <2>6. Resolved(here, link) = Link(file, key)
    BY <1>4, <2>1, <2>2 DEF Resolved
  <2>7. QED
    BY <2>3, <2>5, <2>6, LinkGood
<1>5. CASE ~((link.fragment \/ link.note) /\ link.to \in NoteIds) /\ ~link.fragment
  <2>1. PICK file : file = File("outside", 0)
    OBVIOUS
  <2>2. file \in FileSet /\ file.kind = "outside"
    BY <1>2, <2>1, FileFacts
  <2>3. Lands(here, file, link.to)
    BY <2>2 DEF Lands, Aims
  <2>4. Resolved(here, link) = Link(file, link.to)
    BY <1>5, <2>1 DEF Resolved
  <2>5. QED
    BY <1>1, <2>2, <2>3, <2>4, LinkGood
<1>6. CASE ~((link.fragment \/ link.note) /\ link.to \in NoteIds) /\ link.fragment /\ Home(link.to) # 0
  <2>1. PICK file : file = Chapter(h)
    OBVIOUS
  <2>2. file \in FileSet
    BY <1>2, <2>1, FileFacts DEF Chapter
  <2>3. Lands(here, file, link.to)
    BY <1>3, <1>6, <2>1 DEF Lands, Aims
  <2>4. Resolved(here, link) = Link(file, link.to)
    BY <1>3, <1>6, <2>1 DEF Resolved
  <2>5. QED
    BY <1>1, <2>2, <2>3, <2>4, LinkGood
<1>7. CASE ~((link.fragment \/ link.note) /\ link.to \in NoteIds) /\ link.fragment /\ Home(link.to) = 0
  <2>1. Lands(here, here, link.to)
    BY <1>7 DEF Lands
  <2>2. Resolved(here, link) = Link(here, link.to)
    BY <1>7 DEF Resolved
  <2>3. QED
    BY <1>1, <2>1, <2>2, LinkGood
<1>8. QED
  BY <1>4, <1>5, <1>6, <1>7

\* What an atom says of the body, and the atoms that say nothing of it.
Told == [a \in GoodAtoms |-> When(a.type = "text" /\ a.file.kind \in {"head", "body"}, <<a.entry>>)]
Quiet == {a \in GoodAtoms : Told[a] = <<>>}

LEMMA ToldLists == Lists(Told, GoodAtoms, Nat)
<1>1. ASSUME NEW a \in GoodAtoms
      PROVE  When(a.type = "text" /\ a.file.kind \in {"head", "body"}, <<a.entry>>) \in Seq(Nat)
  <2>1. a.entry \in Nat
    BY DEF GoodAtoms, AtomSet
  <2>2. QED
    BY <2>1, WhenOne
<1>2. QED
  BY <1>1 DEF Told, Lists

LEMMA QuietAtoms ==
    ASSUME NEW a \in GoodAtoms, a.type # "text" \/ a.file.kind \notin {"head", "body"}
    PROVE  a \in Quiet
<1>1. Told[a] = When(a.type = "text" /\ a.file.kind \in {"head", "body"}, <<a.entry>>)
  BY DEF Told
<1>2. QED
  BY <1>1 DEF Quiet, When

LEMMA QuietSeq ==
    ASSUME NEW s \in Seq(Quiet)
    PROVE  s \in Seq(GoodAtoms) /\ Each(Told, s) = <<>>
<1>1. s \in Seq(GoodAtoms)
  <2>1. Quiet \subseteq GoodAtoms
    BY DEF Quiet
  <2>2. QED
    BY <2>1, WiderSeq
<1>2. PICK n \in Nat : n = Len(s)
  BY LenProperties
<1>3. Range(s) = {s[i] : i \in 1..n}
  BY <1>2, RangeEquality
<1>4. \A x \in Range(s) : Told[x] = <<>>
  <2>1. \A i \in 1..n : s[i] \in Quiet
    BY <1>2, ElementOfSeq
  <2>2. QED
    BY <1>3, <2>1 DEF Quiet
<1>5. QED
  BY <1>1, <1>4, ToldLists, EachNone

LEMMA LinksQuiet ==
    ASSUME Done, NEW here \in FileSet, NEW links \in Seq([to : Names, fragment : BOOLEAN, note : BOOLEAN])
    PROVE  [j \in 1..Len(links) |-> Resolved(here, links[j])] \in Seq(Quiet)
<1>1. PICK n \in Nat : n = Len(links)
  BY LenProperties
<1>2. PICK f : f = [j \in 1..n |-> Resolved(here, links[j])]
  OBVIOUS
<1>3. ASSUME NEW j \in 1..n PROVE f[j] \in Quiet
  <2>1. PICK link \in [to : Names, fragment : BOOLEAN, note : BOOLEAN] : link = links[j]
    BY <1>1, <1>3, ElementOfSeq
  <2>2. f[j] = Resolved(here, link)
    BY <1>2, <1>3, <2>1
  <2>3. Resolved(here, link) \in GoodAtoms /\ Resolved(here, link).type = "link"
    BY ResolvedGood
  <2>4. "link" # "text"
    OBVIOUS
  <2>5. QED
    BY <2>2, <2>3, <2>4, QuietAtoms
<1>4. f \in [1..n -> Quiet]
  BY <1>2, <1>3
<1>5. f \in Seq(Quiet)
  BY <1>4, Listing1
<1>6. QED
  BY <1>1, <1>2, <1>5

LEMMA PicturesQuiet ==
    ASSUME Done, NEW images \in Seq(Nat)
    PROVE  FlattenSeq([j \in 1..Len(images) |-> When(images[j] \in Images, <<Picture(images[j])>>)]) \in Seq(Quiet)
<1>1. PICK n \in Nat : n = Len(images)
  BY LenProperties
<1>2. PICK f : f = [j \in 1..n |-> When(images[j] \in Images, <<Picture(images[j])>>)]
  OBVIOUS
<1>3. ASSUME NEW j \in 1..n PROVE f[j] \in Seq(Quiet)
  <2>1. PICK i \in Nat : i = images[j]
    BY <1>1, <1>3, ElementOfSeq
  <2>2. f[j] = When(i \in Images, <<Picture(i)>>)
    BY <1>2, <1>3, <2>1
  <2>3. ASSUME i \in Images PROVE Picture(i) \in Quiet
    <3>1. i \in Shown /\ i \in Int
      BY <2>3, CoverFacts DEF Shown
    <3>2. Picture(i) \in GoodAtoms /\ Picture(i).type = "image"
      BY <3>1, PictureGood
    <3>3. "image" # "text"
      OBVIOUS
    <3>4. QED
      BY <3>2, <3>3, QuietAtoms
  <2>4. CASE i \in Images
    <3>1. f[j] = <<Picture(i)>>
      BY <2>2, <2>4 DEF When
    <3>2. QED
      BY <2>3, <2>4, <3>1
  <2>5. CASE i \notin Images
    <3>1. f[j] = <<>> /\ <<>> \in Seq(Quiet)
      BY <2>2, <2>5 DEF When
    <3>2. QED
      BY <3>1
  <2>6. QED
    BY <2>4, <2>5
<1>4. f \in [1..n -> Seq(Quiet)]
  BY <1>2, <1>3
<1>5. f \in Seq(Seq(Quiet))
  BY <1>4, Listing1
<1>6. FlattenSeq(f) \in Seq(Quiet)
  BY <1>5, FlattenType
<1>7. QED
  BY <1>1, <1>2, <1>6

LEMMA ToldConcat ==
    ASSUME NEW s \in Seq(GoodAtoms), NEW t \in Seq(GoodAtoms), NEW u, u = s \o t
    PROVE  /\ u \in Seq(GoodAtoms) /\ Range(u) = Range(s) \union Range(t)
           /\ Each(Told, u) = Each(Told, s) \o Each(Told, t)
           /\ Each(Told, s) \in Seq(Nat) /\ Each(Told, t) \in Seq(Nat)
<1>1. s \o t \in Seq(GoodAtoms)
  BY ConcatProperties
<1>2. Range(s \o t) = Range(s) \union Range(t)
  BY RangeConcatenation
<1>3. Each(Told, s \o t) = Each(Told, s) \o Each(Told, t)
  BY ToldLists, EachConcat
<1>4. Each(Told, s) \in Seq(Nat) /\ Each(Told, t) \in Seq(Nat)
  BY ToldLists, EachType
<1>5. QED
  BY <1>1, <1>2, <1>3, <1>4

LEMMA LedConcat ==
    ASSUME NEW here, NEW s \in Seq(GoodAtoms), NEW t \in Seq(GoodAtoms), NEW u, u = s \o t, Led(here, s), Led(here, t)
    PROVE  Led(here, u)
<1>1. Range(u) = Range(s) \union Range(t)
  BY ToldConcat
<1>2. SUFFICES ASSUME NEW a \in Range(u), a.type = "link" PROVE Lands(here, a.file, a.key)
  BY DEF Led
<1>3. QED
  BY <1>1, <1>2 DEF Led

\* What has no link leads nowhere.
LEMMA LedUnlinked ==
    ASSUME NEW here, NEW s \in Seq(GoodAtoms), Unlinked(s)
    PROVE  Led(here, s)
<1>1. Range(s) = {s[j] : j \in 1..Len(s)}
  BY RangeEquality
<1>2. SUFFICES ASSUME NEW a \in Range(s), a.type = "link" PROVE FALSE
  BY DEF Led
<1>3. QED
  BY <1>1, <1>2 DEF Unlinked

LEMMA LedLinks ==
    ASSUME Done, NEW here \in FileSet, NEW links \in Seq([to : Names, fragment : BOOLEAN, note : BOOLEAN]),
           NEW s \in Seq(GoodAtoms), Len(s) = Len(links), \A j \in 1..Len(links) : s[j] = Resolved(here, links[j])
    PROVE  Led(here, s)
<1>1. PICK n \in Nat : n = Len(links)
  BY LenProperties
<1>2. \A j \in 1..n : s[j] = Resolved(here, links[j])
  BY <1>1
<1>3. Len(s) = n
  BY <1>1
<1>4. Range(s) = {s[j] : j \in 1..n}
  BY <1>3, RangeEquality
<1>5. ASSUME NEW j \in 1..n PROVE s[j].type = "link" => Lands(here, s[j].file, s[j].key)
  <2>1. PICK link \in [to : Names, fragment : BOOLEAN, note : BOOLEAN] : link = links[j]
    BY <1>1, <1>5, ElementOfSeq
  <2>2. s[j] = Resolved(here, link)
    BY <1>2, <1>5, <2>1
  <2>3. QED
    BY <2>2, ResolvedGood
<1>6. SUFFICES ASSUME NEW a \in Range(s), a.type = "link" PROVE Lands(here, a.file, a.key)
  BY DEF Led
<1>7. PICK j \in 1..n : a = s[j]
  BY <1>4, <1>6
<1>8. QED
  BY <1>5, <1>6, <1>7

LEMMA LedPictures ==
    ASSUME Done, NEW here, NEW images \in Seq(Nat), NEW s \in Seq(GoodAtoms),
           s = FlattenSeq([j \in 1..Len(images) |-> When(images[j] \in Images, <<Picture(images[j])>>)])
    PROVE  Led(here, s)
<1>1. PICK n \in Nat : n = Len(images)
  BY LenProperties
<1>2. PICK f : f = [j \in 1..n |-> When(images[j] \in Images, <<Picture(images[j])>>)]
  OBVIOUS
<1>3. PICK P : P = {Picture(i) : i \in Nat}
  OBVIOUS
<1>4. ASSUME NEW j \in 1..n PROVE f[j] \in Seq(P)
  <2>1. PICK i \in Nat : i = images[j]
    BY <1>1, <1>4, ElementOfSeq
  <2>2. PICK x : x = Picture(i)
    OBVIOUS
  <2>3. f[j] = When(i \in Images, <<x>>)
    BY <1>2, <1>4, <2>1, <2>2
  <2>4. x \in P
    BY <1>3, <2>1, <2>2
  <2>5. <<x>> \in Seq(P) /\ <<>> \in Seq(P)
    BY <2>4
  <2>6. QED
    BY <2>3, <2>5 DEF When
<1>5. f \in [1..n -> Seq(P)]
  BY <1>2, <1>4
<1>6. f \in Seq(Seq(P))
  BY <1>5, Listing1
<1>7. s \in Seq(P)
  BY <1>1, <1>2, <1>6, FlattenType
<1>8. ASSUME NEW j \in 1..Len(s) PROVE s[j].type # "link"
  <2>1. s[j] \in P
    BY <1>7, <1>8, ElementOfSeq
  <2>2. PICK i \in Nat : s[j] = Picture(i)
    BY <1>3, <2>1
  <2>3. Picture(i).type = "image"
    BY DEF Picture
  <2>4. "image" # "link"
    OBVIOUS
  <2>5. QED
    BY <2>2, <2>3, <2>4
<1>9. QED
  BY <1>8, LedUnlinked DEF Unlinked

LEMMA LedFlatten ==
    ASSUME NEW here, NEW n \in Nat, NEW f \in Seq(Seq(GoodAtoms)), Len(f) = n, \A j \in 1..n : Led(here, f[j])
    PROVE  Led(here, FlattenSeq(f))
<1>1. SUFFICES ASSUME NEW a \in Range(FlattenSeq(f)), a.type = "link" PROVE Lands(here, a.file, a.key)
  BY DEF Led
<1>2. PICK j \in 1..n : a \in Range(f[j])
  BY <1>1, FlattenRange
<1>3. QED
  BY <1>1, <1>2 DEF Led

\* What a paragraph is written as.
Told1(place, p, k) == When(p.shown /\ place = "body", <<k>>)

LEMMA ParagraphFacts ==
    ASSUME Done, NEW place \in {"body", "notes"}, NEW here \in FileSet, NEW p \in Entries, NEW k \in Nat
    PROVE  /\ ParagraphOf(place, here, p, k) \in Seq(GoodAtoms)
           /\ Each(Told, ParagraphOf(place, here, p, k)) = Told1(place, p, k)
           /\ p.id # "" /\ (p.shown \/ p.kind \notin {"poem-line", "poem-break"}) =>
                Anchor(p.id) \in Range(ParagraphOf(place, here, p, k))
           /\ Led(here, ParagraphOf(place, here, p, k))
<1>1. p.id \in Keys /\ p.shown \in BOOLEAN /\ p.images \in Seq(Nat)
      /\ p.links \in Seq([to : Names, fragment : BOOLEAN, note : BOOLEAN])
  BY KeysFacts DEF Entries
<1>2. PICK named \in BOOLEAN : named = (p.id # "" /\ (p.shown \/ ~(p.kind \in {"poem-line", "poem-break"})))
  OBVIOUS
<1>3. PICK a : a = When(named, <<Anchor(p.id)>>)
  OBVIOUS
<1>4. a \in Seq(Quiet) /\ \A y : y \in Range(a) <=> named /\ y = Anchor(p.id)
  <2>1. Anchor(p.id) \in GoodAtoms /\ Anchor(p.id).type = "anchor"
    BY <1>1, AnchorGood
  <2>2. "anchor" # "text"
    OBVIOUS
  <2>3. Anchor(p.id) \in Quiet
    BY <2>1, <2>2, QuietAtoms
  <2>4. QED
    BY <1>3, <2>3, WhenOne
<1>5. PICK l : l = [j \in 1..Len(p.links) |-> Resolved(here, p.links[j])]
  OBVIOUS
<1>6. PICK i : i = FlattenSeq([j \in 1..Len(p.images) |-> When(p.images[j] \in Images, <<Picture(p.images[j])>>)])
  OBVIOUS
<1>7. l \in Seq(Quiet) /\ i \in Seq(Quiet)
  BY <1>1, <1>5, <1>6, LinksQuiet, PicturesQuiet
<1>8. PICK w : w = <<Words(place, k)>>
  OBVIOUS
<1>9. /\ Words(place, k) \in GoodAtoms /\ Words(place, k).type = "text"
      /\ Words(place, k).file.kind = place /\ Words(place, k).entry = k
  BY WordsGood
<1>10. w \in Seq(GoodAtoms) /\ Each(Told, w) = When(place = "body", <<k>>)
  <2>1. w \in Seq(GoodAtoms)
    BY <1>8, <1>9
  <2>2. Each(Told, w) = Told[Words(place, k)]
    BY <1>8, <1>9, ToldLists, EachOne
  <2>3. Told[Words(place, k)] = When(place \in {"head", "body"}, <<k>>)
    BY <1>9 DEF Told
  <2>4. When(place \in {"head", "body"}, <<k>>) = When(place = "body", <<k>>)
    BY DEF When
  <2>5. QED
    BY <2>1, <2>2, <2>3, <2>4
<1>11. PICK b : b = When(p.shown, (w \o l) \o i)
  OBVIOUS
<1>12. ParagraphOf(place, here, p, k) = a \o b
  BY <1>2, <1>3, <1>5, <1>6, <1>8, <1>11 DEF ParagraphOf
<1>13. /\ a \in Seq(GoodAtoms) /\ l \in Seq(GoodAtoms) /\ i \in Seq(GoodAtoms)
       /\ Each(Told, a) = <<>> /\ Each(Told, l) = <<>> /\ Each(Told, i) = <<>>
  BY <1>4, <1>7, QuietSeq
<1>14. b \in Seq(GoodAtoms) /\ Each(Told, b) = Told1(place, p, k)
  <2>1. CASE p.shown
    <3>1. PICK v : v = w \o l
      OBVIOUS
    <3>2. v \in Seq(GoodAtoms) /\ Each(Told, v) = Each(Told, w) \o Each(Told, l)
      BY <1>10, <1>13, <3>1, ToldConcat
    <3>3. b = v \o i
      BY <1>11, <2>1, <3>1 DEF When
    <3>4. b \in Seq(GoodAtoms) /\ Each(Told, b) = Each(Told, v) \o Each(Told, i)
      BY <1>13, <3>2, <3>3, ToldConcat
    <3>5. PICK t : t = Each(Told, w)
      OBVIOUS
    <3>6. t \in Seq(Nat)
      BY <1>10, <3>5, ToldLists, EachType
    <3>7. (t \o <<>>) \o <<>> = t
      BY <3>6, ConcatEmptySeq
    <3>8. Each(Told, b) = t
      BY <1>13, <3>2, <3>4, <3>5, <3>7
    <3>9. QED
      BY <1>10, <2>1, <3>4, <3>5, <3>8 DEF Told1, When
  <2>2. CASE ~p.shown
    <3>1. b = <<>> /\ <<>> \in Seq(GoodAtoms)
      BY <1>11, <2>2 DEF When
    <3>2. Each(Told, <<>>) = <<>>
      BY EachEmpty
    <3>3. QED
      BY <2>2, <3>1, <3>2 DEF Told1, When
  <2>3. QED
    BY <1>1, <2>1, <2>2
<1>15. PICK u : u = a \o b
  OBVIOUS
<1>16. u \in Seq(GoodAtoms) /\ Range(u) = Range(a) \union Range(b) /\ Each(Told, u) = Each(Told, a) \o Each(Told, b)
  BY <1>13, <1>14, <1>15, ToldConcat
<1>17. Each(Told, u) = Told1(place, p, k)
  <2>1. Each(Told, b) \in Seq(Nat)
    BY <1>14, ToldLists, EachType
  <2>2. <<>> \o Each(Told, b) = Each(Told, b)
    BY <2>1, ConcatEmptySeq
  <2>3. QED
    BY <1>13, <1>14, <1>16, <2>2
<1>18. named => Anchor(p.id) \in Range(u)
  BY <1>4, <1>16
<1>19. Led(here, u)
  <2>1. Led(here, a)
    <3>1. ASSUME NEW y \in Range(a) PROVE y.type # "link"
      <4>1. y = Anchor(p.id)
        BY <1>4, <3>1
      <4>2. Anchor(p.id).type = "anchor" /\ "anchor" # "link"
        BY <1>1, AnchorGood
      <4>3. QED
        BY <4>1, <4>2
    <3>2. QED
      BY <3>1 DEF Led
  <2>2. Led(here, l)
    <3>1. PICK e \in Nat : e = Len(p.links)
      BY <1>1, LenProperties
    <3>2. l = [j \in 1..e |-> Resolved(here, p.links[j])]
      BY <1>5, <3>1
    <3>3. Len(l) = e /\ \A j \in 1..e : l[j] = Resolved(here, p.links[j])
      BY <3>1, <3>2
    <3>4. QED
      BY <1>1, <1>13, <3>1, <3>3, LedLinks
  <2>3. Led(here, i)
    BY <1>1, <1>6, <1>13, LedPictures
  <2>4. Led(here, w)
    <3>1. Len(w) = 1 /\ w[1] = Words(place, k) /\ "text" # "link"
      BY <1>8
    <3>2. \A j \in 1..Len(w) : w[j].type # "link"
      BY <1>9, <3>1
    <3>3. QED
      BY <1>10, <3>2, LedUnlinked DEF Unlinked
  <2>5. Led(here, b)
    <3>1. CASE p.shown
      <4>1. PICK v : v = w \o l
        OBVIOUS
      <4>2. v \in Seq(GoodAtoms) /\ Led(here, v)
        BY <1>10, <1>13, <2>2, <2>4, <4>1, ToldConcat, LedConcat
      <4>3. b = v \o i
        BY <1>11, <3>1, <4>1 DEF When
      <4>4. QED
        BY <1>13, <2>3, <4>2, <4>3, LedConcat
    <3>2. CASE ~p.shown
      <4>1. b = <<>>
        BY <1>11, <3>2 DEF When
      <4>2. Range(<<>>) = {}
        BY DEF Range
      <4>3. QED
        BY <4>1, <4>2 DEF Led
    <3>3. QED
      BY <1>1, <3>1, <3>2
  <2>6. QED
    BY <1>13, <1>14, <1>15, <2>1, <2>5, LedConcat
<1>20. QED
  BY <1>2, <1>12, <1>15, <1>16, <1>17, <1>18, <1>19

\* Each paragraph with text once.
ToldOf(place, entries, paras) ==
  FlattenSeq([j \in 1..Len(paras) |-> Told1(place, entries[paras[j]], paras[j])])

LEMMA ParagraphsFacts ==
    ASSUME Done, NEW place \in {"body", "notes"}, NEW here \in FileSet, NEW entries \in Seq(Entries),
           NEW paras \in Seq(1..Len(entries))
    PROVE  /\ Paragraphs(place, here, entries, paras) \in Seq(GoodAtoms)
           /\ Each(Told, Paragraphs(place, here, entries, paras)) = ToldOf(place, entries, paras)
           /\ \A k \in Range(paras) :
                entries[k].id # "" /\ (entries[k].shown \/ entries[k].kind \notin {"poem-line", "poem-break"}) =>
                  Anchor(entries[k].id) \in Range(Paragraphs(place, here, entries, paras))
           /\ Led(here, Paragraphs(place, here, entries, paras))
<1>1. PICK n \in Nat, m \in Nat : n = Len(paras) /\ m = Len(entries)
  BY LenProperties
<1>2. \A j \in 1..n : paras[j] \in 1..m /\ paras[j] \in Nat /\ entries[paras[j]] \in Entries
  <2>1. \A j \in 1..n : paras[j] \in 1..m
    BY <1>1, ElementOfSeq
  <2>2. \A k \in 1..m : entries[k] \in Entries
    BY <1>1, ElementOfSeq
  <2>3. QED
    BY <2>1, <2>2
<1>3. PICK f : f = [j \in 1..n |-> ParagraphOf(place, here, entries[paras[j]], paras[j])]
  OBVIOUS
<1>4. PICK t : t = [j \in 1..n |-> Told1(place, entries[paras[j]], paras[j])]
  OBVIOUS
<1>5. ASSUME NEW j \in 1..n
      PROVE  /\ f[j] \in Seq(GoodAtoms) /\ Each(Told, f[j]) = t[j]
             /\ entries[paras[j]].id # "" /\ (entries[paras[j]].shown
                                               \/ entries[paras[j]].kind \notin {"poem-line", "poem-break"}) =>
                  Anchor(entries[paras[j]].id) \in Range(f[j])
             /\ Led(here, f[j])
  <2>1. PICK k \in Nat : k = paras[j]
    BY <1>2, <1>5
  <2>2. PICK p \in Entries : p = entries[k]
    BY <1>2, <1>5, <2>1
  <2>3. f[j] = ParagraphOf(place, here, p, k) /\ t[j] = Told1(place, p, k)
    BY <1>3, <1>4, <1>5, <2>1, <2>2
  <2>4. /\ ParagraphOf(place, here, p, k) \in Seq(GoodAtoms)
        /\ Each(Told, ParagraphOf(place, here, p, k)) = Told1(place, p, k)
        /\ p.id # "" /\ (p.shown \/ p.kind \notin {"poem-line", "poem-break"}) =>
             Anchor(p.id) \in Range(ParagraphOf(place, here, p, k))
        /\ Led(here, ParagraphOf(place, here, p, k))
    BY ParagraphFacts
  <2>5. QED
    BY <2>1, <2>2, <2>3, <2>4
<1>6. f \in [1..n -> Seq(GoodAtoms)]
  BY <1>3, <1>5
<1>7. f \in Seq(Seq(GoodAtoms)) /\ Len(f) = n
  BY <1>6, Listing1
<1>8. Paragraphs(place, here, entries, paras) = FlattenSeq(f)
  BY <1>1, <1>3 DEF Paragraphs
<1>9. FlattenSeq(f) \in Seq(GoodAtoms)
  BY <1>7, FlattenType
<1>10. Each(Told, FlattenSeq(f)) = FlattenSeq(Eaches(Told, f))
  BY <1>7, ToldLists, EachFlatten
<1>11. Eaches(Told, f) = t
  <2>1. Eaches(Told, f) = [j \in 1..n |-> Each(Told, f[j])]
    BY <1>7 DEF Eaches
  <2>2. \A j \in 1..n : Each(Told, f[j]) = Told1(place, entries[paras[j]], paras[j])
    BY <1>4, <1>5
  <2>3. QED
    BY <1>4, <2>1, <2>2
<1>12. FlattenSeq(t) = ToldOf(place, entries, paras)
  BY <1>1, <1>4 DEF ToldOf
<1>13. ASSUME NEW k \in Range(paras), entries[k].id # "",
              entries[k].shown \/ entries[k].kind \notin {"poem-line", "poem-break"}
       PROVE  Anchor(entries[k].id) \in Range(FlattenSeq(f))
  <2>1. PICK j \in 1..n : k = paras[j]
    <3>1. Range(paras) = {paras[j] : j \in 1..n}
      BY <1>1, RangeEquality
    <3>2. QED
      BY <1>13, <3>1
  <2>2. Anchor(entries[k].id) \in Range(f[j])
    BY <1>5, <1>13, <2>1
  <2>3. QED
    BY <1>7, <2>2, FlattenRange
<1>14. Led(here, FlattenSeq(f))
  BY <1>5, <1>7, LedFlatten
<1>15. QED
  BY <1>8, <1>9, <1>10, <1>11, <1>12, <1>13, <1>14

LEMMA SequenceNat == ASSUME Done, NEW s PROVE Sequence(s) \in Nat \ {0}
<1>1. PICK n \in Nat : n = Len(refs)
  BY DoneFacts, LenProperties
<1>2. PICK e : e = IF \E i \in 1..n : refs[i] = s THEN CHOOSE i \in 1..n : refs[i] = s ELSE n + 1
  OBVIOUS
<1>3. e \in Nat \ {0}
  <2>1. CASE \E i \in 1..n : refs[i] = s
    <3>1. (CHOOSE i \in 1..n : refs[i] = s) \in 1..n
      BY <2>1
    <3>2. QED
      BY <1>2, <2>1, <3>1
  <2>2. CASE ~\E i \in 1..n : refs[i] = s
    BY <1>2, <2>2
  <2>3. QED
    BY <2>1, <2>2
<1>4. Sequence(s) = (IF book.titled THEN 1 ELSE 0) + e
  BY <1>1, <1>2 DEF Sequence
<1>5. QED
  BY <1>3, <1>4

\* What begins with the anchors of a section and its heading.
Headed(atoms, s) ==
  /\ Len(atoms) \in Nat \ {0} /\ atoms[1] = Anchor(Tocref(Sequence(s)))
  /\ \E n \in 1..Len(atoms) : atoms[n] = Words("head", s) /\ \A m \in 1..(n - 1) : atoms[m].type = "anchor"

LEMMA HeadedConcat ==
    ASSUME NEW s, NEW a \in Seq(GoodAtoms), NEW b \in Seq(GoodAtoms), Headed(a, s)
    PROVE  Headed(a \o b, s)
<1>1. PICK u : u = a \o b
  OBVIOUS
<1>2. PICK i \in Nat, j \in Nat : i = Len(a) /\ j = Len(b)
  BY LenProperties
<1>3. u \in Seq(GoodAtoms) /\ Len(u) = i + j /\ \A k \in 1..i : u[k] = a[k]
  BY <1>1, <1>2, ConcatProperties
<1>4. PICK n \in 1..i : a[n] = Words("head", s) /\ \A m \in 1..(n - 1) : a[m].type = "anchor"
  BY <1>2 DEF Headed
<1>5. i # 0 /\ a[1] = Anchor(Tocref(Sequence(s)))
  BY <1>2 DEF Headed
<1>6. u[1] = Anchor(Tocref(Sequence(s)))
  BY <1>3, <1>5
<1>7. n \in 1..Len(u) /\ u[n] = Words("head", s) /\ \A m \in 1..(n - 1) : u[m].type = "anchor"
  <2>1. n \in 1..(i + j) /\ \A m \in 1..(n - 1) : m \in 1..i
    OBVIOUS
  <2>2. QED
    BY <1>3, <1>4, <2>1
<1>8. Len(u) \in Nat \ {0}
  BY <1>3, <1>5
<1>9. QED
  BY <1>1, <1>6, <1>7, <1>8 DEF Headed

LEMMA OneAndOne == ASSUME NEW S, NEW x \in S, NEW y \in S PROVE <<x>> \o <<y>> = <<x, y>>
<1>1. <<x>> \o Append(<<>>, y) = Append(<<x>> \o <<>>, y)
  <2>1. <<x>> \in Seq(S) /\ <<>> \in Seq(S)
    OBVIOUS
  <2>2. QED
    BY <2>1, AppendConcat
<1>2. Append(<<>>, y) = <<y>> /\ <<x>> \o <<>> = <<x>>
  OBVIOUS
<1>3. Append(<<x>>, y) = <<x, y>>
  <2>1. PICK u : u = Append(<<x>>, y)
    OBVIOUS
  <2>2. PICK v : v = <<x, y>>
    OBVIOUS
  <2>3. u \in Seq(S) /\ Len(u) = 2 /\ u[1] = x /\ u[2] = y
    BY <2>1
  <2>4. v \in Seq(S) /\ Len(v) = 2 /\ v[1] = x /\ v[2] = y
    BY <2>2
  <2>5. \A i \in 1..2 : i = 1 \/ i = 2
    OBVIOUS
  <2>6. \A i \in 1..2 : u[i] = v[i]
    BY <2>3, <2>4, <2>5
  <2>7. u = v
    BY <2>3, <2>4, <2>6, SeqEqual
  <2>8. QED
    BY <2>1, <2>2, <2>7
<1>4. QED
  BY <1>1, <1>2, <1>3

LEMMA HeaderFacts ==
    ASSUME Done, NEW s \in Sections
    PROVE  /\ Header(s) \in Seq(GoodAtoms) /\ Each(Told, Header(s)) = <<s>> /\ Headed(Header(s), s)
           /\ book.body[s].id # "" => Anchor(book.body[s].id) \in Range(Header(s))
           /\ Unlinked(Header(s))
<1>1. s \in 1..Len(book.body) /\ s \in Nat /\ book.body[s] \in Entries
  BY DoneFacts, ElementOfSeq DEF Sections
<1>2. PICK id \in Names : id = book.body[s].id
  BY <1>1 DEF Entries
<1>3. PICK key : key = Tocref(Sequence(s))
  OBVIOUS
<1>4. key \in Keys /\ id \in Keys
  BY <1>2, <1>3, SequenceNat, KeysFacts
<1>5. PICK x \in GoodAtoms : x = Anchor(key) /\ x.type = "anchor"
  BY <1>4, AnchorGood
<1>6. PICK y \in GoodAtoms : y = Anchor(id) /\ y.type = "anchor"
  BY <1>4, AnchorGood
<1>7. PICK w \in GoodAtoms : w = Words("head", s) /\ w.type = "text" /\ w.file.kind = "head" /\ w.entry = s
  BY <1>1, WordsGood
<1>8. x \in Quiet /\ y \in Quiet
  <2>1. "anchor" # "text"
    OBVIOUS
  <2>2. QED
    BY <1>5, <1>6, <2>1, QuietAtoms
<1>9. PICK a : a = <<x>> \o When(id # "", <<y>>)
  OBVIOUS
<1>10. PICK h : h = a \o <<w>>
  OBVIOUS
<1>11. Header(s) = h
  BY <1>2, <1>3, <1>5, <1>6, <1>7, <1>9, <1>10 DEF Header
<1>12. /\ a \in Seq(Quiet) /\ Len(a) \in Nat \ {0} /\ a[1] = x /\ \A m \in 1..Len(a) : a[m].type = "anchor"
       /\ id # "" => y \in Range(a)
  <2>1. CASE id = ""
    <3>1. a = <<x>> \o <<>>
      BY <1>9, <2>1 DEF When
    <3>2. a = <<x>>
      BY <3>1
    <3>3. a \in Seq(Quiet) /\ Len(a) = 1 /\ a[1] = x
      BY <1>8, <3>2
    <3>4. \A m \in 1..1 : a[m].type = "anchor"
      BY <1>5, <3>3
    <3>5. Len(a) \in Nat \ {0} /\ 1..Len(a) = 1..1
      BY <3>3
    <3>6. QED
      BY <2>1, <3>3, <3>4, <3>5
  <2>2. CASE id # ""
    <3>1. a = <<x>> \o <<y>>
      BY <1>9, <2>2 DEF When
    <3>2. a = <<x, y>>
      BY <1>8, <3>1, OneAndOne
    <3>3. a \in Seq(Quiet) /\ Len(a) = 2 /\ a[1] = x /\ a[2] = y
      BY <1>8, <3>2
    <3>4. \A m \in 1..2 : m = 1 \/ m = 2
      OBVIOUS
    <3>5. y \in Range(a)
      <4>1. Range(a) = {a[m] : m \in 1..2}
        BY <3>3, RangeEquality
      <4>2. 2 \in 1..2
        OBVIOUS
      <4>3. QED
        BY <3>3, <4>1, <4>2
    <3>6. \A m \in 1..2 : a[m].type = "anchor"
      BY <1>5, <1>6, <3>3, <3>4
    <3>7. Len(a) \in Nat \ {0} /\ 1..Len(a) = 1..2
      BY <3>3
    <3>8. QED
      BY <3>3, <3>5, <3>6, <3>7
  <2>3. QED
    BY <2>1, <2>2
<1>13. a \in Seq(GoodAtoms) /\ Each(Told, a) = <<>>
  BY <1>12, QuietSeq
<1>14. PICK v : v = <<w>>
  OBVIOUS
<1>15. v \in Seq(GoodAtoms) /\ Len(v) = 1 /\ v[1] = w
  BY <1>14
<1>16. Each(Told, v) = <<s>>
  <2>1. Each(Told, v) = Told[w]
    BY <1>14, ToldLists, EachOne
  <2>2. QED
    BY <1>7, <2>1 DEF Told, When
<1>17. h \in Seq(GoodAtoms) /\ Range(h) = Range(a) \union Range(v) /\ Each(Told, h) = Each(Told, a) \o Each(Told, v)
  BY <1>10, <1>13, <1>14, <1>15, ToldConcat
<1>18. Each(Told, h) = <<s>>
  <2>1. <<>> \o <<s>> = <<s>>
    OBVIOUS
  <2>2. QED
    BY <1>13, <1>16, <1>17, <2>1
<1>19. Headed(h, s)
  <2>1. PICK n \in Nat \ {0} : n = Len(a)
    BY <1>12
  <2>2. Len(h) = n + 1 /\ h[n + 1] = w /\ \A m \in 1..n : h[m] = a[m]
    BY <1>10, <1>13, <1>14, <1>15, <2>1, ConcatProperties
  <2>3. n + 1 \in 1..Len(h) /\ Len(h) \in Nat \ {0} /\ (n + 1) - 1 = n
    BY <2>2
  <2>4. h[1] = x
    <3>1. 1 \in 1..n
      OBVIOUS
    <3>2. QED
      BY <1>12, <2>2, <3>1
  <2>5. \A m \in 1..((n + 1) - 1) : h[m].type = "anchor"
    BY <1>12, <2>1, <2>2, <2>3
  <2>6. QED
    BY <1>3, <1>5, <1>7, <2>2, <2>3, <2>4, <2>5 DEF Headed
<1>20. id # "" => y \in Range(h)
  BY <1>12, <1>17
<1>21. Unlinked(h)
  <2>1. PICK n \in Nat \ {0} : n = Len(a)
    BY <1>12
  <2>2. Len(h) = n + 1 /\ h[n + 1] = w /\ \A m \in 1..n : h[m] = a[m]
    BY <1>10, <1>13, <1>14, <1>15, <2>1, ConcatProperties
  <2>3. \A m \in 1..Len(h) : m \in 1..n \/ m = n + 1
    BY <2>2
  <2>4. "anchor" # "link" /\ "text" # "link"
    OBVIOUS
  <2>5. \A m \in 1..n : h[m].type = "anchor"
    BY <1>12, <2>1, <2>2
  <2>6. QED
    BY <1>7, <2>2, <2>3, <2>4, <2>5 DEF Unlinked
<1>22. QED
  BY <1>2, <1>6, <1>11, <1>17, <1>18, <1>19, <1>20, <1>21

\* The entries that are read.
Kept == [k \in 1..Len(book.body) |-> When(book.body[k].section \/ book.body[k].shown, <<k>>)]

LEMMA KeptLists == ASSUME Done PROVE Lists(Kept, 1..Len(book.body), Nat)
<1>1. PICK n \in Nat : n = Len(book.body)
  BY DoneFacts
<1>2. ASSUME NEW k \in 1..n PROVE When(book.body[k].section \/ book.body[k].shown, <<k>>) \in Seq(Nat)
  <2>1. <<>> \in Seq(Nat) /\ <<k>> \in Seq(Nat)
    OBVIOUS
  <2>2. QED
    BY <2>1 DEF When
<1>3. QED
  BY <1>1, <1>2 DEF Kept, Lists

LEMMA ChapterFacts ==
    ASSUME Done, NEW c \in 1..Len(chapters)
    PROVE  /\ chapters[c].section \in Sections \union {0} /\ chapters[c].paras \in Seq(Leaves)
           /\ chapters[c].paras \in Seq(1..Len(book.body))
           /\ Part(chapters[c]) \in Seq(1..Len(book.body))
           /\ Each(Kept, Part(chapters[c])) =
                When(chapters[c].section # 0, <<chapters[c].section>>) \o Each(Kept, chapters[c].paras)
<1>1. chapters[c] \in Chapters
  BY DoneFacts, ElementOfSeq
<1>2. PICK s, p : s = chapters[c].section /\ p = chapters[c].paras
  OBVIOUS
<1>3. s \in Sections \union {0} /\ p \in Seq(Leaves)
  BY <1>1, <1>2 DEF Chapters
<1>4. PICK n \in Nat : n = Len(book.body)
  BY DoneFacts
<1>5. Leaves \subseteq 1..n
  BY <1>4 DEF Leaves
<1>6. p \in Seq(1..n)
  BY <1>3, <1>5, WiderSeq
<1>7. PICK w : w = When(s # 0, <<s>>)
  OBVIOUS
<1>8. w \in Seq(1..n) /\ Each(Kept, w) = w
  <2>1. CASE s = 0
    <3>1. w = <<>> /\ <<>> \in Seq(1..n)
      BY <1>7, <2>1 DEF When
    <3>2. QED
      BY <3>1, EachEmpty
  <2>2. CASE s # 0
    <3>1. s \in 1..n /\ book.body[s].section
      BY <1>3, <1>4, <2>2 DEF Sections
    <3>2. w = <<s>>
      BY <1>7, <2>2 DEF When
    <3>3. Each(Kept, <<s>>) = Kept[s]
      BY <1>4, <3>1, KeptLists, EachOne
    <3>4. Kept[s] = <<s>>
      BY <1>4, <3>1 DEF Kept, When
    <3>5. QED
      BY <3>1, <3>2, <3>3, <3>4
  <2>3. QED
    BY <2>1, <2>2
<1>9. w \o p \in Seq(1..n)
  BY <1>6, <1>8, ConcatProperties
<1>10. Each(Kept, w \o p) = Each(Kept, w) \o Each(Kept, p)
  <2>1. PICK S : S = 1..n
    OBVIOUS
  <2>2. Lists(Kept, S, Nat)
    BY <1>4, <2>1, KeptLists
  <2>3. w \in Seq(S) /\ p \in Seq(S)
    BY <1>6, <1>8, <2>1
  <2>4. QED
    BY <2>2, <2>3, EachConcat
<1>11. Part(chapters[c]) = w \o p
  BY <1>2, <1>7 DEF Part
<1>12. QED
  BY <1>2, <1>3, <1>4, <1>6, <1>7, <1>8, <1>9, <1>10, <1>11

LEMMA ToldChapter ==
    ASSUME Done, NEW p \in Seq(Leaves)
    PROVE  ToldOf("body", book.body, p) = Each(Kept, p)
<1>1. PICK m \in Nat, n \in Nat : m = Len(p) /\ n = Len(book.body)
  BY DoneFacts, LenProperties
<1>2. \A j \in 1..m : p[j] \in Leaves
  BY <1>1, ElementOfSeq
<1>3. ASSUME NEW k \in Leaves PROVE Told1("body", book.body[k], k) = Kept[k]
  <2>1. k \in 1..n /\ ~book.body[k].section
    BY <1>1, <1>3 DEF Leaves, Sections
  <2>2. Kept[k] = When(book.body[k].section \/ book.body[k].shown, <<k>>)
    BY <1>1, <2>1 DEF Kept
  <2>3. QED
    BY <2>1, <2>2 DEF Told1, When
<1>4. [j \in 1..m |-> Told1("body", book.body[p[j]], p[j])] = [j \in 1..m |-> Kept[p[j]]]
  BY <1>2, <1>3
<1>5. QED
  BY <1>1, <1>4 DEF ToldOf, Each, Mapped

LEMMA ChapterFileFacts ==
    ASSUME Done, NEW c \in 1..Len(chapters), NEW f, f = ChapterFile(c)
    PROVE  /\ f \in FileRecords /\ f.file = Chapter(c) /\ f.file.kind = "chapter" /\ f.file.n = c
           /\ Each(Told, f.atoms) = Each(Kept, Part(chapters[c]))
           /\ chapters[c].section # 0 => Headed(f.atoms, chapters[c].section)
           /\ \A k \in Range(chapters[c].paras) \union ({chapters[c].section} \ {0}) :
                book.body[k].id # "" /\ ~(book.body[k].kind = "poem-line" /\ ~book.body[k].shown) =>
                  Anchor(book.body[k].id) \in Range(f.atoms)
           /\ Led(f.file, f.atoms)
<1>1. PICK s, p : s = chapters[c].section /\ p = chapters[c].paras
  OBVIOUS
<1>2. PICK n \in Nat : n = Len(book.body)
  BY DoneFacts
<1>3. PICK here : here = Chapter(c)
  OBVIOUS
<1>4. here \in FileSet /\ here.kind = "chapter" /\ here.n = c
  <2>1. "chapter" \in Kinds /\ c \in Int
    BY DoneFacts DEF Kinds
  <2>2. QED
    BY <1>3, <2>1, FileFacts DEF Chapter
<1>5. /\ s \in Sections \union {0} /\ p \in Seq(Leaves) /\ p \in Seq(1..Len(book.body))
      /\ Each(Kept, Part(chapters[c])) = When(s # 0, <<s>>) \o Each(Kept, p)
  BY <1>1, ChapterFacts
<1>6. PICK h : h = IF s = 0 THEN <<>> ELSE Header(s)
  OBVIOUS
<1>7. PICK b : b = Paragraphs("body", here, book.body, p)
  OBVIOUS
<1>8. book.body \in Seq(Entries)
  BY DoneFacts
<1>9. /\ b \in Seq(GoodAtoms) /\ Each(Told, b) = ToldOf("body", book.body, p)
      /\ \A k \in Range(p) :
           book.body[k].id # "" /\ (book.body[k].shown \/ book.body[k].kind \notin {"poem-line", "poem-break"}) =>
             Anchor(book.body[k].id) \in Range(b)
      /\ Led(here, b)
  BY <1>4, <1>5, <1>7, <1>8, ParagraphsFacts
<1>10. /\ h \in Seq(GoodAtoms) /\ Each(Told, h) = When(s # 0, <<s>>)
       /\ s # 0 => Headed(h, s)
       /\ s # 0 /\ book.body[s].id # "" => Anchor(book.body[s].id) \in Range(h)
       /\ Unlinked(h)
  <2>1. CASE s = 0
    <3>1. h = <<>> /\ <<>> \in Seq(GoodAtoms) /\ Unlinked(h)
      BY <1>6, <2>1 DEF Unlinked
    <3>2. QED
      BY <2>1, <3>1, EachEmpty DEF When
  <2>2. CASE s # 0
    <3>1. h = Header(s) /\ s \in Sections
      BY <1>5, <1>6, <2>2
    <3>2. QED
      BY <2>2, <3>1, HeaderFacts DEF When
  <2>3. QED
    BY <2>1, <2>2
<1>11. PICK u : u = h \o b
  OBVIOUS
<1>12. u \in Seq(GoodAtoms) /\ Range(u) = Range(h) \union Range(b) /\ Each(Told, u) = Each(Told, h) \o Each(Told, b)
  BY <1>9, <1>10, <1>11, ToldConcat
<1>13. f = [file |-> here, atoms |-> u]
  BY <1>1, <1>3, <1>6, <1>7, <1>11 DEF ChapterFile
<1>14. f \in FileRecords /\ f.file = here /\ f.atoms = u
  BY <1>4, <1>12, <1>13 DEF FileRecords
<1>15. Each(Told, u) = Each(Kept, Part(chapters[c]))
  BY <1>5, <1>9, <1>10, <1>12, ToldChapter
<1>16. s # 0 => Headed(u, s)
  BY <1>9, <1>10, <1>11, HeadedConcat
<1>17. ASSUME NEW k \in Range(p) \union ({s} \ {0}), book.body[k].id # "",
              ~(book.body[k].kind = "poem-line" /\ ~book.body[k].shown)
       PROVE  Anchor(book.body[k].id) \in Range(u)
  <2>1. CASE k \in Range(p)
    <3>1. k \in 1..n
      <4>1. PICK m \in Nat : m = Len(p)
        BY <1>5, LenProperties
      <4>2. PICK j \in 1..m : k = p[j]
        <5>1. Range(p) = {p[j] : j \in 1..m}
          BY <1>5, <4>1, RangeEquality
        <5>2. QED
          BY <2>1, <5>1
      <4>3. p \in Seq(1..n)
        BY <1>2, <1>5
      <4>4. QED
        BY <4>1, <4>2, <4>3, ElementOfSeq
    <3>2. book.body[k].kind # "poem-break"
      BY <1>2, <1>17, <3>1, DoneFacts DEF EpubTypes
    <3>3. book.body[k].shown \/ book.body[k].kind \notin {"poem-line", "poem-break"}
      BY <1>17, <3>2
    <3>4. QED
      BY <1>9, <1>12, <1>17, <2>1, <3>3
  <2>2. CASE k = s /\ s # 0
    BY <1>10, <1>12, <1>17, <2>2
  <2>3. QED
    BY <1>17, <2>1, <2>2
<1>18. Led(here, u)
  <2>1. Led(here, h)
    BY <1>10, LedUnlinked
  <2>2. QED
    BY <1>9, <1>10, <1>11, <2>1, LedConcat
<1>19. QED
  BY <1>1, <1>3, <1>4, <1>14, <1>15, <1>16, <1>17, <1>18

LEMMA NotesFileFacts ==
    ASSUME Done, NEW f, f = NotesFile
    PROVE  /\ f \in FileRecords /\ f.file = File("notes", 0) /\ f.file.kind = "notes"
           /\ Each(Told, f.atoms) = <<>>
           /\ \A n \in 1..Len(Notes) : Anchor(AnchorOf(n)) \in Range(f.atoms)
           /\ Led(f.file, f.atoms)
<1>1. PICK m \in Nat : m = Len(Notes)
  BY NotesFacts
<1>2. PICK here : here = File("notes", 0)
  OBVIOUS
<1>3. here \in FileSet /\ here.kind = "notes"
  <2>1. "notes" \in Kinds /\ 0 \in Int
    BY DEF Kinds
  <2>2. QED
    BY <1>2, <2>1, FileFacts
<1>4. PICK g : g = [n \in 1..m |-> <<Anchor(AnchorOf(n))>> \o Paragraphs("notes", here, book.notes, Notes[n].paras)]
  OBVIOUS
<1>5. book.notes \in Seq(Entries)
  BY DoneFacts
<1>6. ASSUME NEW n \in 1..m
      PROVE  /\ g[n] \in Seq(GoodAtoms) /\ Each(Told, g[n]) = <<>> /\ Anchor(AnchorOf(n)) \in Range(g[n])
             /\ Led(here, g[n])
  <2>1. Notes[n] \in [id : Names, paras : Seq(1..Len(book.notes))]
    BY <1>1, <1>6, NotesFacts, ElementOfSeq
  <2>2. AnchorOf(n) \in Keys
    <3>1. n \in Nat
      OBVIOUS
    <3>2. Notes[n].id \in Names
      BY <2>1
    <3>3. NoteAnchor(Notes[n].id) \in Keys /\ NoteNumber(n) \in Keys
      BY <3>1, <3>2, KeysFacts
    <3>4. QED
      BY <3>3 DEF AnchorOf
  <2>3. PICK x \in GoodAtoms : x = Anchor(AnchorOf(n)) /\ x.type = "anchor"
    BY <2>2, AnchorGood
  <2>4. x \in Quiet
    <3>1. "anchor" # "text"
      OBVIOUS
    <3>2. QED
      BY <2>3, <3>1, QuietAtoms
  <2>5. PICK a : a = <<x>>
    OBVIOUS
  <2>6. a \in Seq(Quiet) /\ Len(a) = 1 /\ a[1] = x
    BY <2>4, <2>5
  <2>7. x \in Range(a)
    <3>1. Range(a) = {a[i] : i \in 1..1}
      BY <2>6, RangeEquality
    <3>2. QED
      BY <2>6, <3>1
  <2>8. a \in Seq(GoodAtoms) /\ Each(Told, a) = <<>>
    BY <2>6, QuietSeq
  <2>9. PICK p : p = Notes[n].paras
    OBVIOUS
  <2>10. p \in Seq(1..Len(book.notes))
    BY <2>1, <2>9
  <2>11. PICK b : b = Paragraphs("notes", here, book.notes, p)
    OBVIOUS
  <2>12. b \in Seq(GoodAtoms) /\ Each(Told, b) = ToldOf("notes", book.notes, p) /\ Led(here, b)
    BY <1>3, <1>5, <2>10, <2>11, ParagraphsFacts
  <2>13. ToldOf("notes", book.notes, p) = <<>>
    <3>1. PICK i \in Nat : i = Len(p)
      BY <2>10, LenProperties
    <3>2. PICK t : t = [j \in 1..i |-> Told1("notes", book.notes[p[j]], p[j])]
      OBVIOUS
    <3>3. \A j \in 1..i : t[j] = <<>>
      BY <3>2 DEF Told1, When
    <3>4. <<>> \in Seq(Nat)
      OBVIOUS
    <3>5. t \in [1..i -> Seq(Nat)]
      BY <3>2, <3>3, <3>4
    <3>6. t \in Seq(Seq(Nat)) /\ Len(t) = i
      BY <3>5, Listing1
    <3>7. FlattenSeq(t) = <<>>
      BY <3>3, <3>6, FlattenNothing
    <3>8. QED
      BY <3>1, <3>2, <3>7 DEF ToldOf
  <2>14. PICK u : u = a \o b
    OBVIOUS
  <2>15. u \in Seq(GoodAtoms) /\ Range(u) = Range(a) \union Range(b) /\ Each(Told, u) = Each(Told, a) \o Each(Told, b)
    BY <2>8, <2>12, <2>14, ToldConcat
  <2>16. g[n] = u
    BY <1>4, <1>6, <2>3, <2>5, <2>9, <2>11, <2>14
  <2>17. <<>> \o <<>> = <<>>
    OBVIOUS
  <2>18. Each(Told, u) = <<>>
    BY <2>8, <2>12, <2>13, <2>15, <2>17
  <2>19. Led(here, u)
    <3>1. "anchor" # "link" /\ \A j \in 1..Len(a) : j = 1
      BY <2>6
    <3>2. Unlinked(a)
      BY <2>3, <2>6, <3>1 DEF Unlinked
    <3>3. Led(here, a)
      BY <2>8, <3>2, LedUnlinked
    <3>4. QED
      BY <2>8, <2>12, <2>14, <3>3, LedConcat
  <2>20. QED
    BY <2>3, <2>7, <2>15, <2>16, <2>18, <2>19
<1>7. g \in [1..m -> Seq(GoodAtoms)]
  BY <1>4, <1>6
<1>8. g \in Seq(Seq(GoodAtoms)) /\ Len(g) = m
  BY <1>7, Listing1
<1>9. f = [file |-> here, atoms |-> FlattenSeq(g)]
  BY <1>1, <1>2, <1>4 DEF NotesFile
<1>10. FlattenSeq(g) \in Seq(GoodAtoms)
  BY <1>8, FlattenType
<1>11. f \in FileRecords /\ f.file = here /\ f.atoms = FlattenSeq(g)
  BY <1>3, <1>9, <1>10 DEF FileRecords
<1>12. Each(Told, FlattenSeq(g)) = <<>>
  <2>1. PICK e : e = Eaches(Told, g)
    OBVIOUS
  <2>2. e \in Seq(Seq(Nat)) /\ Len(e) = Len(g) /\ \A i \in 1..Len(g) : e[i] = Each(Told, g[i])
    <3>1. PICK p \in Seq(Seq(GoodAtoms)) : p = g
      BY <1>8
    <3>2. e = Eaches(Told, p)
      BY <2>1, <3>1
    <3>3. e \in Seq(Seq(Nat)) /\ Len(e) = Len(p) /\ \A i \in 1..Len(p) : e[i] = Each(Told, p[i])
      BY <3>2, ToldLists, EachesFacts
    <3>4. QED
      BY <3>1, <3>3
  <2>3. \A i \in 1..Len(e) : e[i] = <<>>
    BY <1>6, <1>8, <2>2
  <2>4. FlattenSeq(e) = <<>>
    BY <2>2, <2>3, FlattenNothing
  <2>5. QED
    BY <1>8, <2>1, <2>4, ToldLists, EachFlatten
<1>13. ASSUME NEW n \in 1..m PROVE Anchor(AnchorOf(n)) \in Range(FlattenSeq(g))
  <2>1. n \in 1..Len(g) /\ Anchor(AnchorOf(n)) \in Range(g[n])
    BY <1>6, <1>8, <1>13
  <2>2. QED
    BY <1>8, <2>1, FlattenRange
<1>14. Led(here, FlattenSeq(g))
  BY <1>6, <1>8, LedFlatten
<1>15. QED
  BY <1>1, <1>2, <1>3, <1>11, <1>12, <1>13, <1>14

\* No two elements of one key, and the keys of a list by their tags.
Tagged(key, tag, s, A) == Apart(key, s) /\ \A x \in Range(s) : tag[key[x]] \in A

\* Tags of one list or the other.
Joins(A, B, C) == A \intersect B = {} /\ C = A \union B

LEMMA RangeUnion ==
    ASSUME NEW S, NEW s \in Seq(S), NEW t \in Seq(S), NEW u, u = s \o t, NEW x
    PROVE  x \in Range(u) <=> x \in Range(s) \/ x \in Range(t)
<1>1. Range(s \o t) = Range(s) \union Range(t)
  BY RangeConcatenation
<1>2. QED
  BY <1>1

LEMMA TaggedConcat ==
    ASSUME NEW S, NEW s \in Seq(S), NEW t \in Seq(S), NEW key, NEW tag, NEW A, NEW B, NEW C, Joins(A, B, C),
           Tagged(key, tag, s, A), Tagged(key, tag, t, B), NEW u, u = s \o t
    PROVE  u \in Seq(S) /\ Tagged(key, tag, u, C)
<1>1. s \o t \in Seq(S)
  BY ConcatProperties
<1>2. Range(s \o t) = Range(s) \union Range(t)
  BY RangeConcatenation
<1>3. \A x \in Range(s), y \in Range(t) : key[x] # key[y]
  BY DEF Tagged, Joins
<1>4. Apart(key, s \o t)
  BY <1>3, ApartConcat DEF Tagged
<1>5. \A x \in Range(s) \union Range(t) : tag[key[x]] \in C
  BY DEF Tagged, Joins
<1>6. QED
  BY <1>1, <1>2, <1>4, <1>5 DEF Tagged

\* One element, or none.
Alone(w, condition, x, S, key, tag, a) ==
  condition \in BOOLEAN /\ w = When(condition, <<x>>) /\ (condition => x \in S /\ tag[key[x]] = a)

LEMMA TaggedOne ==
    ASSUME NEW S, NEW x, NEW condition, NEW key, NEW tag, NEW a, NEW w, Alone(w, condition, x, S, key, tag, a)
    PROVE  /\ w \in Seq(S) /\ Range(w) = (IF condition THEN {x} ELSE {})
           /\ Tagged(key, tag, w, {a})
<1> USE DEF Alone
<1>1. w \in Seq(S) /\ \A y : y \in Range(w) <=> condition /\ y = x
  BY WhenOne
<1>2. Range(w) = IF condition THEN {x} ELSE {}
  BY <1>1
<1>3. Len(w) \in Nat /\ \A i, j \in 1..Len(w) : i = j
  <2>1. CASE condition
    <3>1. PICK v : v = <<x>>
      OBVIOUS
    <3>2. w = v
      BY <2>1, <3>1 DEF When
    <3>3. Len(v) = 1
      BY <3>1
    <3>4. \A i, j \in 1..1 : i = j
      OBVIOUS
    <3>5. PICK n : n = Len(w)
      OBVIOUS
    <3>6. n = 1
      BY <3>2, <3>3, <3>5
    <3>7. n \in Nat /\ \A i, j \in 1..n : i = j
      BY <3>4, <3>6
    <3>8. QED
      BY <3>5, <3>7
  <2>2. CASE ~condition
    <3>1. w = <<>>
      BY <2>2 DEF When
    <3>2. Len(w) = 0
      BY <3>1
    <3>3. QED
      BY <3>2
  <2>3. QED
    BY <2>1, <2>2
<1>4. QED
  BY <1>1, <1>2, <1>3 DEF Tagged, Apart

\* A list with one key for each place.
Keyed(f, n, S, key, tag, A) ==
  /\ f = [i \in 1..n |-> f[i]]
  /\ \A i \in 1..n : f[i] \in S /\ tag[key[f[i]]] \in A
  /\ \A i, j \in 1..n : key[f[i]] = key[f[j]] => i = j

LEMMA TaggedList ==
    ASSUME NEW S, NEW n \in Nat, NEW f, NEW key, NEW tag, NEW A, Keyed(f, n, S, key, tag, A)
    PROVE  f \in Seq(S) /\ Len(f) = n /\ Range(f) = {f[i] : i \in 1..n} /\ Tagged(key, tag, f, A)
<1> USE DEF Keyed
<1>1. f \in [1..n -> S]
  OBVIOUS
<1>2. f \in Seq(S) /\ Len(f) = n
  BY <1>1, Listing1
<1>3. Range(f) = {f[i] : i \in 1..n}
  BY <1>2, RangeEquality
<1>4. Apart(key, f)
  BY <1>2 DEF Apart
<1>5. QED
  BY <1>2, <1>3, <1>4 DEF Tagged

\* The lines of the table of contents.
GoodLines ==
  {l \in [file : FileSet, key : Keys, section : Nat] :
     /\ Aims(l.file, l.key)
     /\ l.section # 0 => \E c \in 1..Len(chapters) : /\ chapters[c].section = l.section
                                                     /\ l.file = Chapter(c) /\ l.key = Tocref(Sequence(l.section))}

LEMMA GoodLine ==
    ASSUME NEW file \in FileSet, NEW key \in Keys, NEW s \in Nat, Aims(file, key),
           s # 0 => \E c \in 1..Len(chapters) : chapters[c].section = s /\ file = Chapter(c) /\ key = Tocref(Sequence(s))
    PROVE  [file |-> file, key |-> key, section |-> s] \in GoodLines
<1>1. PICK l : l = [file |-> file, key |-> key, section |-> s]
  OBVIOUS
<1>2. l \in [file : FileSet, key : Keys, section : Nat] /\ l.file = file /\ l.key = key /\ l.section = s
  BY <1>1
<1>3. l \in GoodLines
  BY <1>2 DEF GoodLines
<1>4. QED
  BY <1>1, <1>3

LEMMA LinesFacts == ASSUME Done PROVE Lines \in Seq(GoodLines)
<1>1. PICK N \in Nat : N = Len(book.body)
  BY DoneFacts
<1>2. PICK sections : sections = InOrder({k \in 1..Len(book.body) : book.body[k].section}, Len(book.body))
  OBVIOUS
<1>3. sections \in Seq(Sections)
  BY <1>1, <1>2, InOrderRange DEF Sections
<1>4. PICK m \in Nat : m = Len(sections)
  BY <1>3, LenProperties
<1>5. PICK a : a = When(book.titled, <<[file |-> File("title", 0), key |-> Tocref(1), section |-> 0]>>)
  OBVIOUS
<1>6. a \in Seq(GoodLines)
  <2>1. "title" \in Kinds /\ 0 \in Int /\ 1 \in Nat /\ 0 \in Nat
    BY DEF Kinds
  <2>2. PICK file \in FileSet : file = File("title", 0) /\ file.kind = "title"
    BY <2>1, FileFacts
  <2>3. PICK key \in Keys : key = Tocref(1)
    BY <2>1, KeysFacts
  <2>4. Aims(file, key)
    BY <2>2 DEF Aims
  <2>5. PICK l \in GoodLines : l = [file |-> file, key |-> key, section |-> 0]
    BY <2>1, <2>4, GoodLine
  <2>6. a = When(book.titled, <<l>>)
    BY <1>5, <2>2, <2>3, <2>5
  <2>7. book.titled \in BOOLEAN
    BY DoneFacts
  <2>8. QED
    BY <2>6, <2>7, WhenOne
<1>7. PICK c : c = When(Notes # <<>>, <<[file |-> File("notes", 0), key |-> "", section |-> 0]>>)
  OBVIOUS
<1>8. c \in Seq(GoodLines)
  <2>1. "notes" \in Kinds /\ 0 \in Int /\ 0 \in Nat
    BY DEF Kinds
  <2>2. PICK file \in FileSet : file = File("notes", 0)
    BY <2>1, FileFacts
  <2>3. PICK key \in Keys : key = ""
    BY KeysFacts
  <2>4. PICK some \in BOOLEAN : some = (Notes # <<>>)
    OBVIOUS
  <2>5. PICK l : l = [file |-> file, key |-> key, section |-> 0]
    OBVIOUS
  <2>6. ASSUME some PROVE l \in GoodLines
    <3>1. Aims(file, key)
      BY <2>2, <2>3, <2>4, <2>6 DEF Aims
    <3>2. QED
      BY <2>1, <2>5, <3>1, GoodLine
  <2>7. c = When(some, <<l>>)
    BY <1>7, <2>2, <2>3, <2>4, <2>5
  <2>8. QED
    BY <2>6, <2>7, WhenOne
<1>9. PICK b : b = [j \in 1..m |->
        [file |-> Chapter(IF \E d \in 1..Len(chapters) : chapters[d].section = sections[j]
                          THEN CHOOSE d \in 1..Len(chapters) : chapters[d].section = sections[j] ELSE 1),
         key |-> Tocref(Sequence(sections[j])), section |-> sections[j]]]
  OBVIOUS
<1>10. ASSUME NEW j \in 1..m PROVE b[j] \in GoodLines
  <2>1. PICK s \in Sections : s = sections[j]
    BY <1>3, <1>4, <1>10, ElementOfSeq
  <2>2. \E d \in 1..Len(chapters) : chapters[d].section = s
    BY DoneFacts DEF Rendering
  <2>3. PICK d : d = CHOOSE e \in 1..Len(chapters) : chapters[e].section = s
    OBVIOUS
  <2>4. d \in 1..Len(chapters) /\ chapters[d].section = s
    BY <2>2, <2>3
  <2>5. PICK file : file = Chapter(d)
    OBVIOUS
  <2>6. file \in FileSet
    <3>1. "chapter" \in Kinds /\ d \in Int
      BY <2>4, DoneFacts DEF Kinds
    <3>2. QED
      BY <2>5, <3>1, FileFacts DEF Chapter
  <2>7. PICK key : key = Tocref(Sequence(s))
    OBVIOUS
  <2>8. key \in Keys
    BY <2>7, SequenceNat, KeysFacts
  <2>9. s \in Nat /\ s # 0
    BY <1>1 DEF Sections
  <2>10. Aims(file, key)
    BY <2>4, <2>5, <2>7, <2>9 DEF Aims
  <2>11. [file |-> file, key |-> key, section |-> s] \in GoodLines
    BY <2>4, <2>5, <2>6, <2>7, <2>8, <2>9, <2>10, GoodLine
  <2>12. b[j] = [file |-> file, key |-> key, section |-> s]
    BY <1>9, <1>10, <2>1, <2>2, <2>3, <2>5, <2>7
  <2>13. QED
    BY <2>11, <2>12
<1>11. b \in [1..m -> GoodLines]
  BY <1>9, <1>10
<1>12. b \in Seq(GoodLines)
  BY <1>11, Listing1
<1>13. Lines = (a \o b) \o c
  BY <1>2, <1>4, <1>5, <1>7, <1>9 DEF Lines
<1>14. a \o b \in Seq(GoodLines)
  BY <1>6, <1>12, ConcatProperties
<1>15. (a \o b) \o c \in Seq(GoodLines)
  BY <1>8, <1>14, ConcatProperties
<1>16. QED
  BY <1>13, <1>15

LEMMA NavListFacts == ASSUME Done PROVE NavList(Lines) \in Seq(Quiet)
<1>1. PICK l \in Seq(GoodLines) : l = Lines
  BY LinesFacts
<1>2. PICK n \in Nat : n = Len(l)
  BY LenProperties
<1>3. PICK f : f = [j \in 1..n |-> Link(l[j].file, l[j].key)]
  OBVIOUS
<1>4. ASSUME NEW j \in 1..n PROVE f[j] \in Quiet
  <2>1. l[j] \in GoodLines
    BY <1>2, <1>4, ElementOfSeq
  <2>2. PICK file, key : file = l[j].file /\ key = l[j].key
    OBVIOUS
  <2>3. file \in FileSet /\ key \in Keys
    BY <2>1, <2>2 DEF GoodLines
  <2>4. Link(file, key) \in GoodAtoms /\ Link(file, key).type = "link"
    BY <2>3, LinkGood
  <2>5. "link" # "text"
    OBVIOUS
  <2>6. Link(file, key) \in Quiet
    BY <2>4, <2>5, QuietAtoms
  <2>7. QED
    BY <1>3, <1>4, <2>2, <2>6
<1>5. f \in [1..n -> Quiet]
  BY <1>3, <1>4
<1>6. f \in Seq(Quiet)
  BY <1>5, Listing1
<1>7. QED
  BY <1>1, <1>2, <1>3, <1>6 DEF NavList

LEMMA NavListLed == ASSUME Done, NEW here PROVE Led(here, NavList(Lines))
<1>1. PICK l \in Seq(GoodLines) : l = Lines
  BY LinesFacts
<1>2. PICK n \in Nat : n = Len(l)
  BY LenProperties
<1>3. PICK f : f = [j \in 1..n |-> Link(l[j].file, l[j].key)]
  OBVIOUS
<1>4. NavList(Lines) = f
  BY <1>1, <1>2, <1>3 DEF NavList
<1>5. PICK s \in Seq(Quiet) : s = f
  BY <1>4, NavListFacts
<1>6. Len(s) = n
  BY <1>3, <1>5
<1>7. Range(s) = {s[j] : j \in 1..n}
  BY <1>6, RangeEquality
<1>8. ASSUME NEW j \in 1..n PROVE Lands(here, s[j].file, s[j].key)
  <2>1. l[j] \in GoodLines
    BY <1>2, <1>8, ElementOfSeq
  <2>2. PICK file, key : file = l[j].file /\ key = l[j].key
    OBVIOUS
  <2>3. file \in FileSet /\ key \in Keys /\ Aims(file, key)
    BY <2>1, <2>2 DEF GoodLines
  <2>4. s[j] = Link(file, key)
    BY <1>3, <1>5, <1>8, <2>2
  <2>5. QED
    BY <2>3, <2>4, LinkGood DEF Lands
<1>9. QED
  BY <1>4, <1>5, <1>7, <1>8 DEF Led

\* The pictures in the package.
Packed == Images \union (IF Cover = 0 THEN {0} ELSE {})

LEMMA PicturesFacts ==
    ASSUME Done, NEW p, p = Pictures
    PROVE  p \in Seq(Nat) /\ Apart(Itself, p) /\ \A n : n \in Range(p) <=> n \in Packed
<1>1. PICK N \in Nat : N = Len(book.binaries)
  BY DoneFacts
<1>2. PICK a : a = When(Cover = 0, <<0>>)
  OBVIOUS
<1>3. PICK b : b = InOrder(Images, N)
  OBVIOUS
<1>4. b \in Seq(Nat) /\ Apart(Itself, b) /\ \A n : n \in Range(b) <=> n \in 1..N /\ n \in Images
  BY <1>3, InOrderFacts
<1>5. Images \subseteq 1..N
  BY <1>1, CoverFacts
<1>6. /\ a \in Seq(Nat) /\ Range(a) = (IF Cover = 0 THEN {0} ELSE {}) /\ Apart(Itself, a)
  <2>1. PICK first \in BOOLEAN : first = (Cover = 0)
    OBVIOUS
  <2>2. a = When(first, <<0>>)
    BY <1>2, <2>1
  <2>3. PICK tag : tag = [k \in Nat |-> k]
    OBVIOUS
  <2>4. first => 0 \in Nat /\ tag[Itself[0]] = 0
    BY <2>3 DEF Itself
  <2>5. a \in Seq(Nat) /\ Range(a) = (IF first THEN {0} ELSE {}) /\ Tagged(Itself, tag, a, {0})
    <3>1. Alone(a, first, 0, Nat, Itself, tag, 0)
      BY <2>2, <2>4 DEF Alone
    <3>2. QED
      BY <3>1, TaggedOne
  <2>6. QED
    BY <2>1, <2>5 DEF Tagged
<1>7. \A x \in Range(a), y \in Range(b) : Itself[x] # Itself[y]
  <2>1. SUFFICES ASSUME NEW x \in Range(a), NEW y \in Range(b) PROVE Itself[x] # Itself[y]
    OBVIOUS
  <2>2. x = 0 /\ y \in 1..N
    BY <1>4, <1>6
  <2>3. QED
    BY <2>2 DEF Itself
<1>8. p = a \o b
  BY <1>1, <1>2, <1>3 DEF Pictures
<1>9. a \o b \in Seq(Nat) /\ Range(a \o b) = Range(a) \union Range(b)
  BY <1>4, <1>6, ConcatProperties, RangeConcatenation
<1>10. Apart(Itself, a \o b)
  BY <1>4, <1>6, <1>7, ApartConcat
<1>11. Range(b) = Images
  BY <1>4, <1>5
<1>12. QED
  BY <1>6, <1>8, <1>9, <1>10, <1>11 DEF Packed

FileKey == [x \in FileRecords |-> x.file]
KindOf == [f \in FileSet |-> f.kind]

LEMMA RecordFacts ==
    ASSUME NEW kind \in Kinds, NEW n \in Int, NEW atoms \in Seq(GoodAtoms),
           NEW x, x = [file |-> File(kind, n), atoms |-> atoms]
    PROVE  /\ x \in FileRecords /\ x.file = File(kind, n) /\ x.atoms = atoms
           /\ FileKey[x] = File(kind, n) /\ KindOf[FileKey[x]] = kind
<1>1. File(kind, n) \in FileSet /\ File(kind, n).kind = kind
  BY FileFacts
<1>2. x \in FileRecords /\ x.file = File(kind, n) /\ x.atoms = atoms
  BY <1>1 DEF FileRecords
<1>3. QED
  BY <1>1, <1>2 DEF FileKey, KindOf

NavFile == [file |-> File("nav", 0), atoms |-> NavList(Lines)]
TocFile == [file |-> File("toc", 0), atoms |-> NavList(Lines)]
NcxFile == [file |-> File("ncx", 0), atoms |-> Append(NavList(Lines), Link(File("toc", 0), ""))]

LEMMA SmallFiles ==
    ASSUME Done
    PROVE  /\ Cover # -1 => /\ CoverPage \in FileRecords /\ KindOf[FileKey[CoverPage]] = "cover"
                            /\ CoverPage.atoms \in Seq(Quiet)
           /\ TitlePage \in FileRecords /\ KindOf[FileKey[TitlePage]] = "title" /\ TitlePage.atoms \in Seq(Quiet)
           /\ TocFile \in FileRecords /\ KindOf[FileKey[TocFile]] = "toc" /\ TocFile.atoms \in Seq(Quiet)
           /\ NavFile \in FileRecords /\ KindOf[FileKey[NavFile]] = "nav"
           /\ NcxFile \in FileRecords /\ KindOf[FileKey[NcxFile]] = "ncx"
<1>1. "cover" \in Kinds /\ "title" \in Kinds /\ "toc" \in Kinds /\ "nav" \in Kinds /\ "ncx" \in Kinds /\ 0 \in Int
  BY DEF Kinds
<1>2. ASSUME Cover # -1
      PROVE  /\ CoverPage \in FileRecords /\ KindOf[FileKey[CoverPage]] = "cover" /\ CoverPage.atoms \in Seq(Quiet)
  <2>1. PICK n \in Int : n = Cover /\ n \in Shown
    BY <1>2, CoverFacts, DoneFacts DEF Shown
  <2>2. PICK x \in GoodAtoms : x = Picture(n) /\ x.type = "image"
    BY <2>1, PictureGood
  <2>3. x \in Quiet
    <3>1. "image" # "text"
      OBVIOUS
    <3>2. QED
      BY <2>2, <3>1, QuietAtoms
  <2>4. PICK atoms : atoms = <<x>>
    OBVIOUS
  <2>5. atoms \in Seq(Quiet)
    BY <2>3, <2>4
  <2>6. atoms \in Seq(GoodAtoms)
    BY <2>5, QuietSeq
  <2>7. CoverPage = [file |-> File("cover", 0), atoms |-> atoms]
    BY <2>1, <2>2, <2>4 DEF CoverPage
  <2>8. CoverPage \in FileRecords /\ CoverPage.atoms = atoms /\ KindOf[FileKey[CoverPage]] = "cover"
    BY <1>1, <2>6, <2>7, RecordFacts
  <2>9. QED
    BY <2>5, <2>8
<1>3. TitlePage \in FileRecords /\ KindOf[FileKey[TitlePage]] = "title" /\ TitlePage.atoms \in Seq(Quiet)
  <2>1. Tocref(1) \in Keys
    BY KeysFacts
  <2>2. PICK x \in GoodAtoms : x = Anchor(Tocref(1)) /\ x.type = "anchor"
    BY <2>1, AnchorGood
  <2>3. x \in Quiet
    <3>1. "anchor" # "text"
      OBVIOUS
    <3>2. QED
      BY <2>2, <3>1, QuietAtoms
  <2>4. PICK atoms : atoms = <<x>>
    OBVIOUS
  <2>5. atoms \in Seq(Quiet)
    BY <2>3, <2>4
  <2>6. atoms \in Seq(GoodAtoms)
    BY <2>5, QuietSeq
  <2>7. TitlePage = [file |-> File("title", 0), atoms |-> atoms]
    BY <2>2, <2>4 DEF TitlePage
  <2>8. TitlePage \in FileRecords /\ TitlePage.atoms = atoms /\ KindOf[FileKey[TitlePage]] = "title"
    BY <1>1, <2>6, <2>7, RecordFacts
  <2>9. QED
    BY <2>5, <2>8
<1>4. PICK l \in Seq(GoodAtoms) : l = NavList(Lines) /\ l \in Seq(Quiet)
  BY NavListFacts, QuietSeq
<1>5. TocFile \in FileRecords /\ KindOf[FileKey[TocFile]] = "toc" /\ TocFile.atoms \in Seq(Quiet)
  <2>1. TocFile \in FileRecords /\ KindOf[FileKey[TocFile]] = "toc" /\ TocFile.atoms = l
    BY <1>1, <1>4, RecordFacts DEF TocFile
  <2>2. QED
    BY <1>4, <2>1
<1>6. NavFile \in FileRecords /\ KindOf[FileKey[NavFile]] = "nav"
  BY <1>1, <1>4, RecordFacts DEF NavFile
<1>7. NcxFile \in FileRecords /\ KindOf[FileKey[NcxFile]] = "ncx"
  <2>1. PICK file \in FileSet : file = File("toc", 0) /\ file.kind = "toc"
    BY <1>1, FileFacts
  <2>2. PICK key \in Keys : key = ""
    BY KeysFacts
  <2>4. PICK x \in GoodAtoms : x = Link(file, key)
    BY LinkGood
  <2>5. PICK atoms \in Seq(GoodAtoms) : atoms = Append(l, x)
    BY <1>4, PushFacts
  <2>6. NcxFile = [file |-> File("ncx", 0), atoms |-> atoms]
    BY <1>4, <2>1, <2>2, <2>4, <2>5 DEF NcxFile
  <2>7. QED
    BY <1>1, <2>6, RecordFacts
<1>8. QED
  BY <1>2, <1>3, <1>5, <1>6, <1>7

\* The files that are pages of text, and all files.
IsWritten(f) ==
  \/ \E c \in 1..Len(chapters) : f = ChapterFile(c)
  \/ Notes # <<>> /\ f = NotesFile
  \/ Cover # -1 /\ f = CoverPage
  \/ book.titled /\ f = TitlePage
  \/ f = Plain(File("style", 0))
  \/ \E n \in Packed : f = Plain(File("image", n))
  \/ f = NavFile \/ f = TocFile \/ f = NcxFile

LEMMA PlainFacts ==
    ASSUME NEW kind \in Kinds, NEW n \in Int
    PROVE  /\ Plain(File(kind, n)) \in FileRecords /\ Plain(File(kind, n)).file = File(kind, n)
           /\ Plain(File(kind, n)).atoms = <<>>
           /\ FileKey[Plain(File(kind, n))] = File(kind, n) /\ KindOf[FileKey[Plain(File(kind, n))]] = kind
<1>1. PICK none : none = <<>>
  OBVIOUS
<1>2. none \in Seq(GoodAtoms)
  BY <1>1
<1>3. PICK x : x = [file |-> File(kind, n), atoms |-> none]
  OBVIOUS
<1>4. Plain(File(kind, n)) = x
  BY <1>1, <1>3 DEF Plain
<1>5. /\ x \in FileRecords /\ x.file = File(kind, n) /\ x.atoms = none
      /\ FileKey[x] = File(kind, n) /\ KindOf[FileKey[x]] = kind
  BY <1>2, <1>3, RecordFacts
<1>6. QED
  BY <1>1, <1>4, <1>5

LEMMA ImageFiles ==
    ASSUME Done, NEW f, f = [j \in 1..Len(Pictures) |-> Plain(File("image", Pictures[j]))]
    PROVE  /\ f \in Seq(FileRecords) /\ Tagged(FileKey, KindOf, f, {"image"})
           /\ \A x : x \in Range(f) <=> \E n \in Packed : x = Plain(File("image", n))
<1>1. PICK p : p = Pictures
  OBVIOUS
<1>2. p \in Seq(Nat) /\ Apart(Itself, p) /\ \A n : n \in Range(p) <=> n \in Packed
  BY <1>1, PicturesFacts
<1>3. PICK m \in Nat : m = Len(p)
  BY <1>2, LenProperties
<1>4. f = [j \in 1..m |-> Plain(File("image", p[j]))]
  BY <1>1, <1>3
<1>5. ASSUME NEW j \in 1..m
      PROVE  /\ f[j] \in FileRecords /\ KindOf[FileKey[f[j]]] \in {"image"} /\ p[j] \in Nat
             /\ FileKey[f[j]] = File("image", p[j])
  <2>1. PICK n \in Nat : n = p[j]
    BY <1>2, <1>3, <1>5, ElementOfSeq
  <2>2. "image" \in Kinds /\ n \in Int
    BY DEF Kinds
  <2>3. f[j] = Plain(File("image", n))
    BY <1>4, <1>5, <2>1
  <2>4. QED
    BY <2>1, <2>2, <2>3, PlainFacts
<1>6. ASSUME NEW i \in 1..m, NEW j \in 1..m, FileKey[f[i]] = FileKey[f[j]] PROVE i = j
  <2>1. File("image", p[i]) = File("image", p[j])
    BY <1>5, <1>6
  <2>2. p[i] = p[j]
    BY <2>1 DEF File
  <2>3. Itself[p[i]] = Itself[p[j]]
    BY <2>2
  <2>4. QED
    BY <1>2, <1>3, <2>3 DEF Apart
<1>7. f = [j \in 1..m |-> f[j]]
  BY <1>4
<1>8. f \in Seq(FileRecords) /\ Range(f) = {f[i] : i \in 1..m} /\ Tagged(FileKey, KindOf, f, {"image"})
  <2>1. \A i \in 1..m : f[i] \in FileRecords /\ KindOf[FileKey[f[i]]] \in {"image"}
    BY <1>5
  <2>2. \A i, j \in 1..m : FileKey[f[i]] = FileKey[f[j]] => i = j
    BY <1>6
  <2>3. PICK A : A = {"image"}
    OBVIOUS
  <2>4. Keyed(f, m, FileRecords, FileKey, KindOf, A)
    BY <1>7, <2>1, <2>2, <2>3 DEF Keyed
  <2>5. f \in Seq(FileRecords) /\ Len(f) = m /\ Tagged(FileKey, KindOf, f, A)
    BY <2>4, TaggedList
  <2>6. PICK g \in Seq(FileRecords) : g = f
    BY <2>5
  <2>7. Len(g) = m
    BY <2>5, <2>6
  <2>8. Range(g) = {g[i] : i \in 1..m}
    BY <2>7, RangeEquality
  <2>9. QED
    BY <2>3, <2>5, <2>6, <2>8
<1>9. Range(p) = {p[j] : j \in 1..m}
  BY <1>2, <1>3, RangeEquality
<1>10. ASSUME NEW x PROVE x \in Range(f) <=> \E n \in Packed : x = Plain(File("image", n))
  <2>1. ASSUME x \in Range(f) PROVE \E n \in Packed : x = Plain(File("image", n))
    <3>1. PICK j \in 1..m : x = f[j]
      BY <1>8, <2>1
    <3>2. p[j] \in Packed
      BY <1>2, <1>9
    <3>3. x = Plain(File("image", p[j]))
      BY <1>4, <3>1
    <3>4. QED
      BY <3>2, <3>3
  <2>2. ASSUME NEW n \in Packed, x = Plain(File("image", n)) PROVE x \in Range(f)
    <3>1. PICK j \in 1..m : n = p[j]
      BY <1>2, <1>9
    <3>2. x = f[j]
      BY <1>4, <2>2, <3>1
    <3>3. QED
      BY <1>8, <3>2
  <2>3. QED
    BY <2>1, <2>2
<1>11. QED
  BY <1>8, <1>10

LEMMA ContentsFiles ==
    ASSUME Done, NEW f, f = <<NavFile, TocFile, NcxFile>>
    PROVE  /\ f \in Seq(FileRecords) /\ Tagged(FileKey, KindOf, f, {"nav", "toc", "ncx"})
           /\ \A x : x \in Range(f) <=> x = NavFile \/ x = TocFile \/ x = NcxFile
<1>1. /\ NavFile \in FileRecords /\ KindOf[FileKey[NavFile]] = "nav"
      /\ TocFile \in FileRecords /\ KindOf[FileKey[TocFile]] = "toc"
      /\ NcxFile \in FileRecords /\ KindOf[FileKey[NcxFile]] = "ncx"
  BY SmallFiles
<1>2. f \in Seq(FileRecords) /\ Len(f) = 3 /\ f[1] = NavFile /\ f[2] = TocFile /\ f[3] = NcxFile
  BY <1>1
<1>3. PICK g \in Seq(FileRecords) : g = f
  BY <1>2
<1>4. Len(g) = 3 /\ g[1] = NavFile /\ g[2] = TocFile /\ g[3] = NcxFile
  BY <1>2, <1>3
<1>5. \A i \in 1..3 : i = 1 \/ i = 2 \/ i = 3
  OBVIOUS
<1>6. Range(g) = {g[i] : i \in 1..3}
  BY <1>4, RangeEquality
<1>7. \A x : x \in Range(g) <=> x = NavFile \/ x = TocFile \/ x = NcxFile
  <2>1. 1 \in 1..3 /\ 2 \in 1..3 /\ 3 \in 1..3
    OBVIOUS
  <2>2. NavFile \in Range(g) /\ TocFile \in Range(g) /\ NcxFile \in Range(g)
    BY <1>4, <1>6, <2>1
  <2>3. ASSUME NEW x \in Range(g) PROVE x = NavFile \/ x = TocFile \/ x = NcxFile
    BY <1>4, <1>5, <1>6, <2>3
  <2>4. QED
    BY <2>2, <2>3
<1>8. Apart(FileKey, g)
  <2>1. SUFFICES ASSUME NEW i \in 1..3, NEW j \in 1..3, FileKey[g[i]] = FileKey[g[j]] PROVE i = j
    BY <1>4 DEF Apart
  <2>2. KindOf[FileKey[g[i]]] = KindOf[FileKey[g[j]]]
    BY <2>1
  <2>3. "nav" # "toc" /\ "nav" # "ncx" /\ "toc" # "ncx"
    OBVIOUS
  <2>4. QED
    BY <1>1, <1>4, <1>5, <2>2, <2>3
<1>9. \A x \in Range(g) : KindOf[FileKey[x]] \in {"nav", "toc", "ncx"}
  BY <1>1, <1>7
<1>10. QED
  BY <1>2, <1>3, <1>7, <1>8, <1>9 DEF Tagged

LEMMA ChaptersFiles ==
    ASSUME Done, NEW f, f = ChapterFiles
    PROVE  /\ f \in Seq(FileRecords) /\ Tagged(FileKey, KindOf, f, {"chapter"})
           /\ \A x : x \in Range(f) <=> \E c \in 1..Len(chapters) : x = ChapterFile(c)
<1>1. PICK n \in Nat : n = Len(chapters)
  BY DoneFacts
<1>2. f = [c \in 1..n |-> ChapterFile(c)]
  <2>1. SoFar = Len(chapters)
    BY DEF SoFar, Done
  <2>2. QED
    BY <1>1, <2>1 DEF ChapterFiles
<1>3. ASSUME NEW c \in 1..n
      PROVE  /\ f[c] \in FileRecords /\ KindOf[FileKey[f[c]]] \in {"chapter"} /\ FileKey[f[c]] = Chapter(c)
  <2>1. f[c] = ChapterFile(c)
    BY <1>2, <1>3
  <2>2. f[c] \in FileRecords /\ f[c].file = Chapter(c) /\ f[c].file.kind = "chapter"
    BY <1>1, <2>1, ChapterFileFacts
  <2>3. f[c].file \in FileSet
    BY <2>2 DEF FileRecords
  <2>4. FileKey[f[c]] = f[c].file /\ KindOf[f[c].file] = f[c].file.kind
    BY <2>2, <2>3 DEF FileKey, KindOf
  <2>5. QED
    BY <2>2, <2>4
<1>4. PICK A : A = {"chapter"}
  OBVIOUS
<1>5. Keyed(f, n, FileRecords, FileKey, KindOf, A)
  <2>1. f = [c \in 1..n |-> f[c]]
    BY <1>2
  <2>2. \A c \in 1..n : f[c] \in FileRecords /\ KindOf[FileKey[f[c]]] \in A
    BY <1>3, <1>4
  <2>3. ASSUME NEW c \in 1..n, NEW d \in 1..n, FileKey[f[c]] = FileKey[f[d]] PROVE c = d
    <3>1. Chapter(c) = Chapter(d)
      BY <1>3, <2>3
    <3>2. QED
      BY <3>1 DEF Chapter, File
  <2>4. QED
    BY <2>1, <2>2, <2>3 DEF Keyed
<1>6. f \in Seq(FileRecords) /\ Len(f) = n /\ Tagged(FileKey, KindOf, f, A)
  BY <1>5, TaggedList
<1>7. PICK g \in Seq(FileRecords) : g = f
  BY <1>6
<1>8. Len(g) = n
  BY <1>6, <1>7
<1>9. Range(g) = {g[c] : c \in 1..n}
  BY <1>8, RangeEquality
<1>10. \A c \in 1..n : g[c] = ChapterFile(c)
  BY <1>2, <1>7
<1>11. \A x : x \in Range(g) <=> \E c \in 1..n : x = ChapterFile(c)
  BY <1>9, <1>10
<1>12. QED
  BY <1>1, <1>4, <1>6, <1>7, <1>11

LEMMA WrittenFacts ==
    ASSUME Done
    PROVE  /\ written \in Seq(FileRecords) /\ Apart(FileKey, written)
           /\ \A x : x \in Range(written) <=> IsWritten(x)
<1>1. PICK c : c = ChapterFiles
  OBVIOUS
<1>2. /\ c \in Seq(FileRecords) /\ Tagged(FileKey, KindOf, c, {"chapter"})
      /\ \A x : x \in Range(c) <=> \E d \in 1..Len(chapters) : x = ChapterFile(d)
  BY <1>1, ChaptersFiles
<1>3. "style" \in Kinds /\ 0 \in Int
  BY DEF Kinds
<1>4. PICK some, covered, titled : some = (Notes # <<>>) /\ covered = (Cover # -1) /\ titled = book.titled
  OBVIOUS
<1>5. some \in BOOLEAN /\ covered \in BOOLEAN /\ titled \in BOOLEAN
  BY <1>4, DoneFacts
<1>6. PICK n : n = When(some, <<NotesFile>>)
  OBVIOUS
<1>7. /\ n \in Seq(FileRecords) /\ Range(n) = (IF some THEN {NotesFile} ELSE {})
      /\ Tagged(FileKey, KindOf, n, {"notes"})
  <2>1. NotesFile \in FileRecords /\ NotesFile.file.kind = "notes"
    BY NotesFileFacts
  <2>2. NotesFile.file \in FileSet
    BY <2>1 DEF FileRecords
  <2>3. KindOf[FileKey[NotesFile]] = "notes"
    BY <2>1, <2>2 DEF FileKey, KindOf
  <2>4. Alone(n, some, NotesFile, FileRecords, FileKey, KindOf, "notes")
    BY <1>5, <1>6, <2>1, <2>3 DEF Alone
  <2>5. QED
    BY <2>4, TaggedOne
<1>8. PICK a : a = When(covered, <<CoverPage>>)
  OBVIOUS
<1>9. /\ a \in Seq(FileRecords) /\ Range(a) = (IF covered THEN {CoverPage} ELSE {})
      /\ Tagged(FileKey, KindOf, a, {"cover"})
  <2>1. Alone(a, covered, CoverPage, FileRecords, FileKey, KindOf, "cover")
    BY <1>4, <1>5, <1>8, SmallFiles DEF Alone
  <2>2. QED
    BY <2>1, TaggedOne
<1>10. PICK b : b = When(titled, <<TitlePage>>)
  OBVIOUS
<1>11. /\ b \in Seq(FileRecords) /\ Range(b) = (IF titled THEN {TitlePage} ELSE {})
       /\ Tagged(FileKey, KindOf, b, {"title"})
  <2>1. Alone(b, titled, TitlePage, FileRecords, FileKey, KindOf, "title")
    BY <1>5, <1>10, SmallFiles DEF Alone
  <2>2. QED
    BY <2>1, TaggedOne
<1>12. PICK s : s = <<Plain(File("style", 0))>>
  OBVIOUS
<1>13. /\ s \in Seq(FileRecords) /\ Range(s) = {Plain(File("style", 0))}
       /\ Tagged(FileKey, KindOf, s, {"style"})
  <2>1. PICK x : x = Plain(File("style", 0))
    OBVIOUS
  <2>2. x \in FileRecords /\ KindOf[FileKey[x]] = "style"
    BY <1>3, <2>1, PlainFacts
  <2>3. PICK yes \in BOOLEAN : yes = TRUE
    OBVIOUS
  <2>4. s = When(yes, <<x>>)
    BY <1>12, <2>1, <2>3 DEF When
  <2>5. Alone(s, yes, x, FileRecords, FileKey, KindOf, "style")
    BY <2>2, <2>4 DEF Alone
  <2>6. s \in Seq(FileRecords) /\ Range(s) = (IF yes THEN {x} ELSE {}) /\ Tagged(FileKey, KindOf, s, {"style"})
    BY <2>5, TaggedOne
  <2>7. QED
    BY <2>1, <2>3, <2>6
<1>14. PICK i : i = [j \in 1..Len(Pictures) |-> Plain(File("image", Pictures[j]))]
  OBVIOUS
<1>15. /\ i \in Seq(FileRecords) /\ Tagged(FileKey, KindOf, i, {"image"})
       /\ \A x : x \in Range(i) <=> \E k \in Packed : x = Plain(File("image", k))
  BY <1>14, ImageFiles
<1>16. PICK t : t = <<NavFile, TocFile, NcxFile>>
  OBVIOUS
<1>17. /\ t \in Seq(FileRecords) /\ Tagged(FileKey, KindOf, t, {"nav", "toc", "ncx"})
       /\ \A x : x \in Range(t) <=> x = NavFile \/ x = TocFile \/ x = NcxFile
  BY <1>16, ContentsFiles
<1>18. written = (c \o n) \o ((((a \o b) \o s) \o i) \o t)
  <2>1. OtherFiles = (((a \o b) \o s) \o i) \o t
    BY <1>4, <1>8, <1>10, <1>12, <1>14, <1>16 DEF OtherFiles, NavFile, TocFile, NcxFile
  <2>2. written = (ChapterFiles \o When(Notes # <<>>, <<NotesFile>>)) \o OtherFiles
    BY DoneFacts DEF Rendering, Done
  <2>3. QED
    BY <1>1, <1>4, <1>6, <2>1, <2>2
<1>19. PICK cn : cn = c \o n
  OBVIOUS
<1>20. PICK C1, C2, C3, C4, C5, C6, C7 :
         /\ C1 = {"chapter"} /\ C2 = {"notes"} /\ C3 = {"cover"} /\ C4 = {"title"} /\ C5 = {"style"}
         /\ C6 = {"image"} /\ C7 = {"nav", "toc", "ncx"}
  OBVIOUS
<1>21. /\ Tagged(FileKey, KindOf, c, C1) /\ Tagged(FileKey, KindOf, n, C2) /\ Tagged(FileKey, KindOf, a, C3)
       /\ Tagged(FileKey, KindOf, b, C4) /\ Tagged(FileKey, KindOf, s, C5) /\ Tagged(FileKey, KindOf, i, C6)
       /\ Tagged(FileKey, KindOf, t, C7)
  BY <1>2, <1>7, <1>9, <1>11, <1>13, <1>15, <1>17, <1>20
<1>22. PICK D2, D4, D5, D6, D7, D8 :
         /\ D2 = C1 \union C2 /\ D4 = C3 \union C4 /\ D5 = D4 \union C5 /\ D6 = D5 \union C6
         /\ D7 = D6 \union C7 /\ D8 = D2 \union D7
  OBVIOUS
<1>23. /\ Joins(C1, C2, D2) /\ Joins(C3, C4, D4) /\ Joins(D4, C5, D5) /\ Joins(D5, C6, D6)
       /\ Joins(D6, C7, D7) /\ Joins(D2, D7, D8)
  <2>1. Joins(C1, C2, D2) /\ Joins(C3, C4, D4)
    BY <1>20, <1>22 DEF Joins
  <2>2. Joins(D4, C5, D5) /\ Joins(D5, C6, D6)
    BY <1>20, <1>22 DEF Joins
  <2>3. Joins(D6, C7, D7)
    BY <1>20, <1>22 DEF Joins
  <2>4. Joins(D2, D7, D8)
    BY <1>20, <1>22 DEF Joins
  <2>5. QED
    BY <2>1, <2>2, <2>3, <2>4
<1>24. PICK ab : ab = a \o b
  OBVIOUS
<1>25. PICK abs : abs = ab \o s
  OBVIOUS
<1>26. PICK absi : absi = abs \o i
  OBVIOUS
<1>27. PICK o : o = absi \o t
  OBVIOUS
<1>28. PICK w : w = cn \o o
  OBVIOUS
<1>29. cn \in Seq(FileRecords) /\ Tagged(FileKey, KindOf, cn, D2)
  BY <1>2, <1>7, <1>19, <1>21, <1>23, TaggedConcat
<1>30. /\ ab \in Seq(FileRecords) /\ abs \in Seq(FileRecords) /\ absi \in Seq(FileRecords) /\ o \in Seq(FileRecords)
       /\ Tagged(FileKey, KindOf, o, D7) /\ w \in Seq(FileRecords) /\ Apart(FileKey, w)
  <2>1. ab \in Seq(FileRecords) /\ Tagged(FileKey, KindOf, ab, D4)
    BY <1>9, <1>11, <1>24, <1>21, <1>23, TaggedConcat
  <2>2. abs \in Seq(FileRecords) /\ Tagged(FileKey, KindOf, abs, D5)
    BY <1>13, <2>1, <1>25, <1>21, <1>23, TaggedConcat
  <2>3. absi \in Seq(FileRecords) /\ Tagged(FileKey, KindOf, absi, D6)
    BY <1>15, <2>2, <1>26, <1>21, <1>23, TaggedConcat
  <2>4. o \in Seq(FileRecords) /\ Tagged(FileKey, KindOf, o, D7)
    BY <1>17, <2>3, <1>27, <1>21, <1>23, TaggedConcat
  <2>5. w \in Seq(FileRecords) /\ Tagged(FileKey, KindOf, w, D8)
    BY <1>29, <2>4, <1>28, <1>23, TaggedConcat
  <2>6. QED
    BY <2>1, <2>2, <2>3, <2>4, <2>5 DEF Tagged
<1>31. written = w
  BY <1>18, <1>19, <1>24, <1>25, <1>26, <1>27, <1>28
<1>32. \A x : x \in Range(w) <=> IsWritten(x)
  <2>1. SUFFICES ASSUME NEW x PROVE x \in Range(w) <=> IsWritten(x)
    OBVIOUS
  <2>2. x \in Range(w) <=> \/ x \in Range(c) \/ x \in Range(n) \/ x \in Range(a) \/ x \in Range(b) \/ x \in Range(s)
                           \/ x \in Range(i) \/ x \in Range(t)
    <3>1. x \in Range(cn) <=> x \in Range(c) \/ x \in Range(n)
      BY <1>2, <1>7, <1>19, RangeUnion
    <3>2. x \in Range(ab) <=> x \in Range(a) \/ x \in Range(b)
      BY <1>9, <1>11, <1>24, RangeUnion
    <3>3. x \in Range(abs) <=> x \in Range(ab) \/ x \in Range(s)
      BY <1>13, <1>30, <1>25, RangeUnion
    <3>4. x \in Range(absi) <=> x \in Range(abs) \/ x \in Range(i)
      BY <1>15, <1>30, <1>26, RangeUnion
    <3>5. x \in Range(o) <=> x \in Range(absi) \/ x \in Range(t)
      BY <1>17, <1>30, <1>27, RangeUnion
    <3>6. x \in Range(w) <=> x \in Range(cn) \/ x \in Range(o)
      BY <1>29, <1>30, <1>28, RangeUnion
    <3>7. QED
      BY <3>1, <3>2, <3>3, <3>4, <3>5, <3>6
  <2>3. x \in Range(n) <=> Notes # <<>> /\ x = NotesFile
    BY <1>4, <1>7
  <2>4. x \in Range(a) <=> Cover # -1 /\ x = CoverPage
    BY <1>4, <1>9
  <2>5. x \in Range(b) <=> book.titled /\ x = TitlePage
    BY <1>4, <1>11
  <2>6. x \in Range(s) <=> x = Plain(File("style", 0))
    BY <1>13
  <2>7. QED
    BY <1>2, <1>15, <1>17, <2>2, <2>3, <2>4, <2>5, <2>6 DEF IsWritten
<1>33. QED
  BY <1>30, <1>31, <1>32

LEMMA AtomsFacts ==
    ASSUME Done, NEW x, IsWritten(x)
    PROVE  x \in FileRecords /\ x \in Range(written) /\ x.file \in Files /\ Atoms(x.file) = x.atoms
<1>1. PICK w \in Seq(FileRecords) : w = written
  BY WrittenFacts
<1>2. Apart(FileKey, w) /\ \A y : y \in Range(w) <=> IsWritten(y)
  BY <1>1, WrittenFacts
<1>3. x \in Range(w)
  BY <1>2
<1>4. Range(w) = {w[i] : i \in 1..Len(w)}
  BY RangeEquality
<1>5. PICK i \in 1..Len(w) : x = w[i]
  BY <1>3, <1>4
<1>6. x \in FileRecords
  BY <1>5, ElementOfSeq
<1>7. ASSUME NEW y \in Range(w), y.file = x.file PROVE y = x
  <2>1. PICK j \in 1..Len(w) : y = w[j]
    BY <1>4
  <2>2. y \in FileRecords
    BY <2>1, ElementOfSeq
  <2>3. FileKey[w[i]] = FileKey[w[j]]
    BY <1>5, <1>6, <1>7, <2>1, <2>2 DEF FileKey
  <2>4. i = j
    BY <1>2, <2>3 DEF Apart
  <2>5. QED
    BY <1>5, <2>1, <2>4
<1>8. x.file \in Files
  BY <1>1, <1>3 DEF Files
<1>9. (CHOOSE f \in Range(w) : f.file = x.file) = x
  BY <1>3, <1>7
<1>10. Atoms(x.file) = x.atoms
  BY <1>1, <1>8, <1>9 DEF Atoms
<1>11. QED
  BY <1>1, <1>3, <1>6, <1>8, <1>10

LEMMA FilesFacts == ASSUME Done, NEW file PROVE file \in Files <=> \E x : IsWritten(x) /\ file = x.file
<1>1. Files = {x.file : x \in Range(written)}
  BY DEF Files
<1>2. \A x : x \in Range(written) <=> IsWritten(x)
  BY WrittenFacts
<1>3. QED
  BY <1>1, <1>2

\* The items of the package document: each has the id of its file.
IdOf(file) ==
  [name |-> IF file.kind = "chapter" THEN "chap"
            ELSE IF file.kind = "image" THEN IF file.n = 0 THEN "cover-image" ELSE "img" ELSE file.kind,
   n |-> file.n]
Items == {[id |-> IdOf(file), file |-> file, cover |-> cover] : file \in FileSet, cover \in BOOLEAN}
IdKey == [x \in Items |-> x.id]
NameOf == [id \in {IdOf(file) : file \in FileSet} |-> id.name]

LEMMA ItemFacts ==
    ASSUME NEW kind \in Kinds, NEW n \in Int, NEW cover \in BOOLEAN, NEW name,
           IdOf(File(kind, n)) = [name |-> name, n |-> n],
           NEW x, x = Listing(name, n, File(kind, n), cover)
    PROVE  /\ x \in Items /\ x.id = [name |-> name, n |-> n] /\ x.file = File(kind, n) /\ x.cover = cover
           /\ IdKey[x] = x.id /\ NameOf[IdKey[x]] = name
<1>1. PICK file \in FileSet : file = File(kind, n)
  BY FileFacts
<1>2. x = [id |-> IdOf(file), file |-> file, cover |-> cover]
  BY <1>1 DEF Listing
<1>3. x \in Items
  BY <1>2 DEF Items
<1>4. x.id = IdOf(file) /\ x.file = file /\ x.cover = cover
  BY <1>2
<1>5. IdKey[x] = IdOf(file)
  BY <1>3, <1>4 DEF IdKey
<1>6. NameOf[IdOf(file)] = IdOf(file).name
  BY DEF NameOf
<1>7. IdOf(file).name = name
  BY <1>1
<1>8. QED
  BY <1>1, <1>3, <1>4, <1>5, <1>6, <1>7

LEMMA ItemsFacts ==
    ASSUME NEW x \in Items
    PROVE  x.file \in FileSet /\ x.id = IdOf(x.file) /\ x.cover \in BOOLEAN /\ IdKey[x] = x.id
<1>1. PICK file \in FileSet, cover \in BOOLEAN : x = [id |-> IdOf(file), file |-> file, cover |-> cover]
  BY DEF Items
<1>2. x.file = file /\ x.id = IdOf(file) /\ x.cover = cover
  BY <1>1
<1>3. QED
  BY <1>2 DEF IdKey

LEMMA PageFacts ==
    ASSUME NEW kind \in Kinds \ {"chapter", "image"}
    PROVE  /\ Page(kind) \in Items /\ Page(kind).file = File(kind, 0) /\ Page(kind).cover = FALSE
           /\ NameOf[IdKey[Page(kind)]] = kind
<1>1. 0 \in Int /\ FALSE \in BOOLEAN
  OBVIOUS
<1>2. File(kind, 0).kind = kind /\ File(kind, 0).n = 0
  BY DEF File
<1>3. IdOf(File(kind, 0)) = [name |-> kind, n |-> 0]
  BY <1>2 DEF IdOf
<1>4. PICK cover \in BOOLEAN : cover = FALSE
  OBVIOUS
<1>5. PICK x : x = Listing(kind, 0, File(kind, 0), cover)
  OBVIOUS
<1>6. x \in Items /\ x.file = File(kind, 0) /\ x.cover = cover /\ NameOf[IdKey[x]] = kind
  BY <1>1, <1>3, <1>5, ItemFacts
<1>7. QED
  BY <1>4, <1>5, <1>6 DEF Page

LEMMA ImageItemFacts ==
    ASSUME Done, NEW n \in Images
    PROVE  /\ n \in Nat \ {0} /\ ImageItem(n) \in Items /\ ImageItem(n).file = File("image", n)
           /\ ImageItem(n).cover = (n = Cover) /\ NameOf[IdKey[ImageItem(n)]] = "img"
           /\ IdKey[ImageItem(n)] = [name |-> "img", n |-> n]
<1>1. n \in Nat \ {0}
  BY CoverFacts, DoneFacts
<1>2. "image" \in Kinds /\ n \in Int /\ "image" # "chapter"
  BY <1>1 DEF Kinds
<1>3. File("image", n).kind = "image" /\ File("image", n).n = n
  BY DEF File
<1>4. IdOf(File("image", n)) = [name |-> "img", n |-> n]
  BY <1>1, <1>2, <1>3 DEF IdOf
<1>5. PICK cover \in BOOLEAN : cover = (n = Cover)
  OBVIOUS
<1>6. PICK x : x = Listing("img", n, File("image", n), cover)
  OBVIOUS
<1>7. /\ x \in Items /\ x.file = File("image", n) /\ x.cover = cover /\ NameOf[IdKey[x]] = "img"
      /\ IdKey[x] = [name |-> "img", n |-> n]
  BY <1>2, <1>4, <1>6, ItemFacts
<1>8. x = ImageItem(n)
  BY <1>5, <1>6 DEF ImageItem
<1>9. QED
  BY <1>1, <1>5, <1>7, <1>8

CoverItem == Listing("cover-image", 0, File("image", 0), TRUE)

LEMMA CoverItemFacts ==
  /\ CoverItem \in Items /\ CoverItem.file = File("image", 0) /\ CoverItem.cover = TRUE
  /\ NameOf[IdKey[CoverItem]] = "cover-image"
<1>1. "image" \in Kinds /\ 0 \in Int /\ TRUE \in BOOLEAN /\ "image" # "chapter"
  BY DEF Kinds
<1>2. File("image", 0).kind = "image" /\ File("image", 0).n = 0
  BY DEF File
<1>3. IdOf(File("image", 0)) = [name |-> "cover-image", n |-> 0]
  BY <1>1, <1>2 DEF IdOf
<1>4. PICK cover \in BOOLEAN : cover = TRUE
  OBVIOUS
<1>5. PICK x : x = Listing("cover-image", 0, File("image", 0), cover)
  OBVIOUS
<1>6. x \in Items /\ x.file = File("image", 0) /\ x.cover = cover /\ NameOf[IdKey[x]] = "cover-image"
  BY <1>1, <1>3, <1>5, ItemFacts
<1>7. QED
  BY <1>4, <1>5, <1>6 DEF CoverItem

LEMMA ChapterItemFacts ==
    ASSUME NEW c \in Int
    PROVE  /\ ChapterItem(c) \in Items /\ ChapterItem(c).file = Chapter(c) /\ ChapterItem(c).cover = FALSE
           /\ NameOf[IdKey[ChapterItem(c)]] = "chap" /\ IdKey[ChapterItem(c)] = [name |-> "chap", n |-> c]
<1>1. "chapter" \in Kinds /\ FALSE \in BOOLEAN
  BY DEF Kinds
<1>2. File("chapter", c).kind = "chapter" /\ File("chapter", c).n = c
  BY DEF File
<1>3. IdOf(File("chapter", c)) = [name |-> "chap", n |-> c]
  BY <1>2 DEF IdOf
<1>4. PICK cover \in BOOLEAN : cover = FALSE
  OBVIOUS
<1>5. PICK x : x = Listing("chap", c, File("chapter", c), cover)
  OBVIOUS
<1>6. /\ x \in Items /\ x.file = File("chapter", c) /\ x.cover = cover /\ NameOf[IdKey[x]] = "chap"
      /\ IdKey[x] = [name |-> "chap", n |-> c]
  BY <1>1, <1>3, <1>5, ItemFacts
<1>7. QED
  BY <1>4, <1>5, <1>6 DEF ChapterItem, Chapter

LEMMA FrontItems ==
    ASSUME NEW f, f = <<Page("style"), Page("nav"), Page("ncx"), Page("toc")>>
    PROVE  /\ f \in Seq(Items) /\ Tagged(IdKey, NameOf, f, {"style", "nav", "ncx", "toc"})
           /\ \A x : x \in Range(f) <=> x \in {Page("style"), Page("nav"), Page("ncx"), Page("toc")}
<1>1. /\ "style" \in Kinds \ {"chapter", "image"} /\ "nav" \in Kinds \ {"chapter", "image"}
      /\ "ncx" \in Kinds \ {"chapter", "image"} /\ "toc" \in Kinds \ {"chapter", "image"}
  BY DEF Kinds
<1>2. PICK p, q, r, s : p = Page("style") /\ q = Page("nav") /\ r = Page("ncx") /\ s = Page("toc")
  OBVIOUS
<1>3. /\ p \in Items /\ NameOf[IdKey[p]] = "style" /\ q \in Items /\ NameOf[IdKey[q]] = "nav"
      /\ r \in Items /\ NameOf[IdKey[r]] = "ncx" /\ s \in Items /\ NameOf[IdKey[s]] = "toc"
  BY <1>1, <1>2, PageFacts
<1>4. f = <<p, q, r, s>>
  BY <1>2
<1>5. f \in Seq(Items) /\ Len(f) = 4 /\ f[1] = p /\ f[2] = q /\ f[3] = r /\ f[4] = s
  BY <1>3, <1>4
<1>6. PICK g \in Seq(Items) : g = f
  BY <1>5
<1>7. Len(g) = 4 /\ g[1] = p /\ g[2] = q /\ g[3] = r /\ g[4] = s
  BY <1>5, <1>6
<1>8. \A i \in 1..4 : i = 1 \/ i = 2 \/ i = 3 \/ i = 4
  OBVIOUS
<1>9. Range(g) = {g[i] : i \in 1..4}
  BY <1>7, RangeEquality
<1>10. \A x : x \in Range(g) <=> x = p \/ x = q \/ x = r \/ x = s
  <2>1. 1 \in 1..4 /\ 2 \in 1..4 /\ 3 \in 1..4 /\ 4 \in 1..4
    OBVIOUS
  <2>2. p \in Range(g) /\ q \in Range(g) /\ r \in Range(g) /\ s \in Range(g)
    BY <1>7, <1>9, <2>1
  <2>3. ASSUME NEW x \in Range(g) PROVE x = p \/ x = q \/ x = r \/ x = s
    BY <1>7, <1>8, <1>9, <2>3
  <2>4. QED
    BY <2>2, <2>3
<1>11. Apart(IdKey, g)
  <2>1. SUFFICES ASSUME NEW i \in 1..4, NEW j \in 1..4, IdKey[g[i]] = IdKey[g[j]] PROVE i = j
    BY <1>7 DEF Apart
  <2>2. NameOf[IdKey[g[i]]] = NameOf[IdKey[g[j]]]
    BY <2>1
  <2>3. /\ "style" # "nav" /\ "style" # "ncx" /\ "style" # "toc" /\ "nav" # "ncx" /\ "nav" # "toc" /\ "ncx" # "toc"
    OBVIOUS
  <2>4. QED
    BY <1>3, <1>7, <1>8, <2>2, <2>3
<1>12. \A x \in Range(g) : NameOf[IdKey[x]] \in {"style", "nav", "ncx", "toc"}
  BY <1>3, <1>10
<1>13. QED
  BY <1>2, <1>5, <1>6, <1>10, <1>11, <1>12 DEF Tagged

LEMMA ChaptersItems ==
    ASSUME Done, NEW f, f = ChapterItems
    PROVE  /\ f \in Seq(Items) /\ Tagged(IdKey, NameOf, f, {"chap"})
           /\ Len(f) = Len(chapters) /\ \A c \in 1..Len(chapters) : f[c] = ChapterItem(c)
           /\ \A x : x \in Range(f) <=> \E c \in 1..Len(chapters) : x = ChapterItem(c)
<1>1. PICK n \in Nat : n = Len(chapters)
  BY DoneFacts
<1>2. f = [c \in 1..n |-> ChapterItem(c)]
  BY <1>1 DEF ChapterItems
<1>3. ASSUME NEW c \in 1..n
      PROVE  /\ f[c] = ChapterItem(c) /\ f[c] \in Items /\ NameOf[IdKey[f[c]]] \in {"chap"}
             /\ IdKey[f[c]] = [name |-> "chap", n |-> c]
  <2>1. f[c] = ChapterItem(c) /\ c \in Int
    BY <1>1, <1>2, <1>3
  <2>2. QED
    BY <2>1, ChapterItemFacts
<1>4. PICK A : A = {"chap"}
  OBVIOUS
<1>5. Keyed(f, n, Items, IdKey, NameOf, A)
  <2>1. f = [c \in 1..n |-> f[c]]
    BY <1>2
  <2>2. \A c \in 1..n : f[c] \in Items /\ NameOf[IdKey[f[c]]] \in A
    BY <1>3, <1>4
  <2>3. ASSUME NEW c \in 1..n, NEW d \in 1..n, IdKey[f[c]] = IdKey[f[d]] PROVE c = d
    <3>1. [name |-> "chap", n |-> c] = [name |-> "chap", n |-> d]
      BY <1>3, <2>3
    <3>2. QED
      BY <3>1
  <2>4. QED
    BY <2>1, <2>2, <2>3 DEF Keyed
<1>6. f \in Seq(Items) /\ Len(f) = n /\ Tagged(IdKey, NameOf, f, A)
  BY <1>5, TaggedList
<1>7. PICK g \in Seq(Items) : g = f
  BY <1>6
<1>8. Len(g) = n
  BY <1>6, <1>7
<1>9. Range(g) = {g[c] : c \in 1..n}
  BY <1>8, RangeEquality
<1>10. \A c \in 1..n : g[c] = ChapterItem(c)
  BY <1>3, <1>7
<1>11. \A x : x \in Range(g) <=> \E c \in 1..n : x = ChapterItem(c)
  BY <1>9, <1>10
<1>12. QED
  BY <1>1, <1>4, <1>6, <1>7, <1>10, <1>11

LEMMA ImageItems ==
    ASSUME Done, NEW own, own = InOrder(Images, Len(book.binaries)), NEW f, f = [j \in 1..Len(own) |-> ImageItem(own[j])]
    PROVE  /\ f \in Seq(Items) /\ Tagged(IdKey, NameOf, f, {"img"})
           /\ \A x : x \in Range(f) <=> \E n \in Images : x = ImageItem(n)
<1>1. PICK N \in Nat : N = Len(book.binaries)
  BY DoneFacts
<1>2. own = InOrder(Images, N)
  BY <1>1
<1>3. own \in Seq(Nat) /\ Apart(Itself, own) /\ \A k : k \in Range(own) <=> k \in 1..N /\ k \in Images
  BY <1>2, InOrderFacts
<1>4. Images \subseteq 1..N
  BY <1>1, CoverFacts
<1>5. PICK m \in Nat : m = Len(own)
  BY <1>3, LenProperties
<1>6. Range(own) = {own[j] : j \in 1..m}
  BY <1>3, <1>5, RangeEquality
<1>7. f = [j \in 1..m |-> ImageItem(own[j])]
  BY <1>5
<1>8. ASSUME NEW j \in 1..m
      PROVE  /\ own[j] \in Nat /\ own[j] \in Images /\ f[j] = ImageItem(own[j]) /\ f[j] \in Items
             /\ NameOf[IdKey[f[j]]] \in {"img"} /\ IdKey[f[j]] = [name |-> "img", n |-> own[j]]
  <2>1. PICK n : n = own[j]
    OBVIOUS
  <2>2. n \in Images
    BY <1>3, <1>6, <1>8, <2>1
  <2>3. f[j] = ImageItem(n)
    BY <1>7, <1>8, <2>1
  <2>4. QED
    BY <2>1, <2>2, <2>3, ImageItemFacts
<1>9. PICK A : A = {"img"}
  OBVIOUS
<1>10. Keyed(f, m, Items, IdKey, NameOf, A)
  <2>1. f = [j \in 1..m |-> f[j]]
    BY <1>7
  <2>2. \A j \in 1..m : f[j] \in Items /\ NameOf[IdKey[f[j]]] \in A
    BY <1>8, <1>9
  <2>3. ASSUME NEW i \in 1..m, NEW j \in 1..m, IdKey[f[i]] = IdKey[f[j]] PROVE i = j
    <3>1. [name |-> "img", n |-> own[i]] = [name |-> "img", n |-> own[j]]
      BY <1>8, <2>3
    <3>2. own[i] = own[j]
      BY <3>1
    <3>3. Itself[own[i]] = Itself[own[j]]
      BY <3>2
    <3>4. QED
      BY <1>3, <1>5, <3>3 DEF Apart
  <2>4. QED
    BY <2>1, <2>2, <2>3 DEF Keyed
<1>11. f \in Seq(Items) /\ Len(f) = m /\ Tagged(IdKey, NameOf, f, A)
  BY <1>10, TaggedList
<1>12. PICK g \in Seq(Items) : g = f
  BY <1>11
<1>13. Len(g) = m
  BY <1>11, <1>12
<1>14. Range(g) = {g[j] : j \in 1..m}
  BY <1>13, RangeEquality
<1>15. ASSUME NEW x PROVE x \in Range(g) <=> \E n \in Images : x = ImageItem(n)
  <2>1. ASSUME x \in Range(g) PROVE \E n \in Images : x = ImageItem(n)
    <3>1. PICK j \in 1..m : x = g[j]
      BY <1>14, <2>1
    <3>2. own[j] \in Images /\ x = ImageItem(own[j])
      BY <1>8, <1>12, <3>1
    <3>3. QED
      BY <3>2
  <2>2. ASSUME NEW n \in Images, x = ImageItem(n) PROVE x \in Range(g)
    <3>1. PICK j \in 1..m : n = own[j]
      BY <1>3, <1>4, <1>6
    <3>2. x = g[j]
      BY <1>8, <1>12, <2>2, <3>1
    <3>3. QED
      BY <1>14, <3>2
  <2>3. QED
    BY <2>1, <2>2
<1>16. QED
  BY <1>9, <1>11, <1>12, <1>15

IsItem(x) ==
  \/ x \in {Page("style"), Page("nav"), Page("ncx"), Page("toc")}
  \/ Notes # <<>> /\ x = Page("notes")
  \/ book.titled /\ x = Page("title")
  \/ Cover # -1 /\ x = Page("cover")
  \/ \E n \in Images : x = ImageItem(n)
  \/ Cover = 0 /\ x = CoverItem
  \/ \E c \in 1..Len(chapters) : x = ChapterItem(c)

LEMMA PackageFacts ==
    ASSUME Done, NEW w, w = PackageItems
    PROVE  w \in Seq(Items) /\ Apart(IdKey, w) /\ \A x : x \in Range(w) <=> IsItem(x)
<1>1. PICK some, titled, covered, own :
        some = (Notes # <<>>) /\ titled = book.titled /\ covered = (Cover # -1) /\ own = (Cover = 0)
  OBVIOUS
<1>2. some \in BOOLEAN /\ titled \in BOOLEAN /\ covered \in BOOLEAN /\ own \in BOOLEAN
  BY <1>1, DoneFacts
<1>3. /\ "notes" \in Kinds \ {"chapter", "image"} /\ "title" \in Kinds \ {"chapter", "image"}
      /\ "cover" \in Kinds \ {"chapter", "image"}
  BY DEF Kinds
<1>4. PICK f, h, pictures :
        /\ f = <<Page("style"), Page("nav"), Page("ncx"), Page("toc")>> /\ h = ChapterItems
        /\ pictures = InOrder(Images, Len(book.binaries))
  OBVIOUS
<1>5. PICK n, t, c, i, o :
        /\ n = When(some, <<Page("notes")>>) /\ t = When(titled, <<Page("title")>>)
        /\ c = When(covered, <<Page("cover")>>) /\ i = [j \in 1..Len(pictures) |-> ImageItem(pictures[j])]
        /\ o = When(own, <<CoverItem>>)
  OBVIOUS
<1>6. PICK C1, C2, C3, C4, C5, C6, C7 :
        /\ C1 = {"style", "nav", "ncx", "toc"} /\ C2 = {"notes"} /\ C3 = {"title"} /\ C4 = {"cover"}
        /\ C5 = {"img"} /\ C6 = {"cover-image"} /\ C7 = {"chap"}
  OBVIOUS
<1>7. /\ f \in Seq(Items) /\ Tagged(IdKey, NameOf, f, C1)
      /\ \A x : x \in Range(f) <=> x \in {Page("style"), Page("nav"), Page("ncx"), Page("toc")}
  BY <1>4, <1>6, FrontItems
<1>8. /\ n \in Seq(Items) /\ Range(n) = (IF some THEN {Page("notes")} ELSE {}) /\ Tagged(IdKey, NameOf, n, C2)
  <2>1. Alone(n, some, Page("notes"), Items, IdKey, NameOf, "notes")
    BY <1>2, <1>3, <1>5, PageFacts DEF Alone
  <2>2. QED
    BY <1>6, <2>1, TaggedOne
<1>9. /\ t \in Seq(Items) /\ Range(t) = (IF titled THEN {Page("title")} ELSE {}) /\ Tagged(IdKey, NameOf, t, C3)
  <2>1. Alone(t, titled, Page("title"), Items, IdKey, NameOf, "title")
    BY <1>2, <1>3, <1>5, PageFacts DEF Alone
  <2>2. QED
    BY <1>6, <2>1, TaggedOne
<1>10. /\ c \in Seq(Items) /\ Range(c) = (IF covered THEN {Page("cover")} ELSE {}) /\ Tagged(IdKey, NameOf, c, C4)
  <2>1. Alone(c, covered, Page("cover"), Items, IdKey, NameOf, "cover")
    BY <1>2, <1>3, <1>5, PageFacts DEF Alone
  <2>2. QED
    BY <1>6, <2>1, TaggedOne
<1>11. /\ i \in Seq(Items) /\ Tagged(IdKey, NameOf, i, C5)
       /\ \A x : x \in Range(i) <=> \E k \in Images : x = ImageItem(k)
  BY <1>4, <1>5, <1>6, ImageItems
<1>12. /\ o \in Seq(Items) /\ Range(o) = (IF own THEN {CoverItem} ELSE {}) /\ Tagged(IdKey, NameOf, o, C6)
  <2>1. Alone(o, own, CoverItem, Items, IdKey, NameOf, "cover-image")
    BY <1>2, <1>5, CoverItemFacts DEF Alone
  <2>2. QED
    BY <1>6, <2>1, TaggedOne
<1>13. /\ h \in Seq(Items) /\ Tagged(IdKey, NameOf, h, C7)
       /\ \A x : x \in Range(h) <=> \E k \in 1..Len(chapters) : x = ChapterItem(k)
  BY <1>4, <1>6, ChaptersItems
<1>14. PICK D2, D3, D4, D5, D6, D7 :
         /\ D2 = C1 \union C2 /\ D3 = D2 \union C3 /\ D4 = D3 \union C4 /\ D5 = D4 \union C5
         /\ D6 = D5 \union C6 /\ D7 = D6 \union C7
  OBVIOUS
<1>15. /\ Joins(C1, C2, D2) /\ Joins(D2, C3, D3) /\ Joins(D3, C4, D4) /\ Joins(D4, C5, D5)
       /\ Joins(D5, C6, D6) /\ Joins(D6, C7, D7)
  <2>1. Joins(C1, C2, D2) /\ Joins(D2, C3, D3) /\ Joins(D3, C4, D4)
    BY <1>6, <1>14 DEF Joins
  <2>2. Joins(D4, C5, D5)
    BY <1>6, <1>14 DEF Joins
  <2>3. Joins(D5, C6, D6)
    BY <1>6, <1>14 DEF Joins
  <2>4. Joins(D6, C7, D7)
    BY <1>6, <1>14 DEF Joins
  <2>5. QED
    BY <2>1, <2>2, <2>3, <2>4
<1>16. PICK s2 : s2 = f \o n
  OBVIOUS
<1>17. PICK s3 : s3 = s2 \o t
  OBVIOUS
<1>18. PICK s4 : s4 = s3 \o c
  OBVIOUS
<1>19. PICK s5 : s5 = s4 \o i
  OBVIOUS
<1>20. PICK s6 : s6 = s5 \o o
  OBVIOUS
<1>21. PICK s7 : s7 = s6 \o h
  OBVIOUS
<1>22. s2 \in Seq(Items) /\ Tagged(IdKey, NameOf, s2, D2)
  BY <1>7, <1>8, <1>15, <1>16, TaggedConcat
<1>23. s3 \in Seq(Items) /\ Tagged(IdKey, NameOf, s3, D3)
  BY <1>22, <1>9, <1>15, <1>17, TaggedConcat
<1>24. s4 \in Seq(Items) /\ Tagged(IdKey, NameOf, s4, D4)
  BY <1>23, <1>10, <1>15, <1>18, TaggedConcat
<1>25. s5 \in Seq(Items) /\ Tagged(IdKey, NameOf, s5, D5)
  BY <1>24, <1>11, <1>15, <1>19, TaggedConcat
<1>26. s6 \in Seq(Items) /\ Tagged(IdKey, NameOf, s6, D6)
  BY <1>25, <1>12, <1>15, <1>20, TaggedConcat
<1>27. s7 \in Seq(Items) /\ Tagged(IdKey, NameOf, s7, D7)
  BY <1>26, <1>13, <1>15, <1>21, TaggedConcat
<1>28. w = (((((f \o n) \o t) \o c) \o i) \o o) \o h
  BY <1>1, <1>4, <1>5 DEF PackageItems, CoverItem
<1>29. w = s7
  BY <1>16, <1>17, <1>18, <1>19, <1>20, <1>21, <1>28
<1>30. ASSUME NEW x PROVE x \in Range(s7) <=> IsItem(x)
  <2>1. x \in Range(s7) <=> \/ x \in Range(f) \/ x \in Range(n) \/ x \in Range(t) \/ x \in Range(c)
                            \/ x \in Range(i) \/ x \in Range(o) \/ x \in Range(h)
    <3>1. x \in Range(s2) <=> x \in Range(f) \/ x \in Range(n)
      BY <1>7, <1>8, <1>16, RangeUnion
    <3>2. x \in Range(s3) <=> x \in Range(s2) \/ x \in Range(t)
      BY <1>22, <1>9, <1>17, RangeUnion
    <3>3. x \in Range(s4) <=> x \in Range(s3) \/ x \in Range(c)
      BY <1>23, <1>10, <1>18, RangeUnion
    <3>4. x \in Range(s5) <=> x \in Range(s4) \/ x \in Range(i)
      BY <1>24, <1>11, <1>19, RangeUnion
    <3>5. x \in Range(s6) <=> x \in Range(s5) \/ x \in Range(o)
      BY <1>25, <1>12, <1>20, RangeUnion
    <3>6. x \in Range(s7) <=> x \in Range(s6) \/ x \in Range(h)
      BY <1>26, <1>13, <1>21, RangeUnion
    <3>7. QED
      BY <3>1, <3>2, <3>3, <3>4, <3>5, <3>6
  <2>2. x \in Range(n) <=> Notes # <<>> /\ x = Page("notes")
    BY <1>1, <1>8
  <2>3. x \in Range(t) <=> book.titled /\ x = Page("title")
    BY <1>1, <1>9
  <2>4. x \in Range(c) <=> Cover # -1 /\ x = Page("cover")
    BY <1>1, <1>10
  <2>5. x \in Range(o) <=> Cover = 0 /\ x = CoverItem
    BY <1>1, <1>12
  <2>6. QED
    BY <1>7, <1>11, <1>13, <2>1, <2>2, <2>3, <2>4, <2>5 DEF IsItem
<1>31. Apart(IdKey, s7)
  BY <1>27 DEF Tagged
<1>32. QED
  BY <1>27, <1>29, <1>30, <1>31

IsRead(x) ==
  \/ Cover # -1 /\ x = Page("cover")
  \/ book.titled /\ x = Page("title")
  \/ \E c \in 1..Len(chapters) : x = ChapterItem(c)
  \/ x = Page("toc")
  \/ Notes # <<>> /\ x = Page("notes")

\* The parts the order of reading is made of.
ReadParts(c, t, h, o, n) ==
  /\ c = When(Cover # -1, <<Page("cover")>>) /\ t = When(book.titled, <<Page("title")>>)
  /\ h = ChapterItems /\ o = <<Page("toc")>> /\ n = When(Notes # <<>>, <<Page("notes")>>)

LEMMA ReadingFacts ==
    ASSUME Done, NEW w, w = ReadingOrder, NEW c, NEW t, NEW h, NEW o, NEW n, ReadParts(c, t, h, o, n)
    PROVE  /\ w \in Seq(Items) /\ Apart(IdKey, w) /\ \A x : x \in Range(w) <=> IsRead(x)
           /\ w = (((c \o t) \o h) \o o) \o n
           /\ c \in Seq(Items) /\ t \in Seq(Items) /\ h \in Seq(Items) /\ o \in Seq(Items) /\ n \in Seq(Items)
           /\ \A x \in Range(c) : Cover # -1 /\ x = Page("cover")
           /\ \A x \in Range(t) : book.titled /\ x = Page("title")
           /\ \A x \in Range(o) : x = Page("toc")
           /\ \A x \in Range(n) : Notes # <<>> /\ x = Page("notes")
<1>1. PICK some, titled, covered, yes : some = (Notes # <<>>) /\ titled = book.titled /\ covered = (Cover # -1) /\ yes = TRUE
  OBVIOUS
<1>2. some \in BOOLEAN /\ titled \in BOOLEAN /\ covered \in BOOLEAN /\ yes \in BOOLEAN
  BY <1>1, DoneFacts
<1>3. /\ "notes" \in Kinds \ {"chapter", "image"} /\ "title" \in Kinds \ {"chapter", "image"}
      /\ "cover" \in Kinds \ {"chapter", "image"} /\ "toc" \in Kinds \ {"chapter", "image"}
  BY DEF Kinds
<1>4. /\ h = ChapterItems /\ n = When(some, <<Page("notes")>>) /\ t = When(titled, <<Page("title")>>)
      /\ c = When(covered, <<Page("cover")>>) /\ o = When(yes, <<Page("toc")>>)
  BY <1>1 DEF ReadParts, When
<1>5. PICK C1, C2, C3, C4, C5 : C1 = {"cover"} /\ C2 = {"title"} /\ C3 = {"chap"} /\ C4 = {"toc"} /\ C5 = {"notes"}
  OBVIOUS
<1>6. /\ c \in Seq(Items) /\ Range(c) = (IF covered THEN {Page("cover")} ELSE {}) /\ Tagged(IdKey, NameOf, c, C1)
  <2>1. Alone(c, covered, Page("cover"), Items, IdKey, NameOf, "cover")
    BY <1>2, <1>3, <1>4, PageFacts DEF Alone
  <2>2. QED
    BY <1>5, <2>1, TaggedOne
<1>7. /\ t \in Seq(Items) /\ Range(t) = (IF titled THEN {Page("title")} ELSE {}) /\ Tagged(IdKey, NameOf, t, C2)
  <2>1. Alone(t, titled, Page("title"), Items, IdKey, NameOf, "title")
    BY <1>2, <1>3, <1>4, PageFacts DEF Alone
  <2>2. QED
    BY <1>5, <2>1, TaggedOne
<1>8. /\ h \in Seq(Items) /\ Tagged(IdKey, NameOf, h, C3)
      /\ \A x : x \in Range(h) <=> \E k \in 1..Len(chapters) : x = ChapterItem(k)
  BY <1>4, <1>5, ChaptersItems
<1>9. /\ o \in Seq(Items) /\ Range(o) = (IF yes THEN {Page("toc")} ELSE {}) /\ Tagged(IdKey, NameOf, o, C4)
  <2>1. Alone(o, yes, Page("toc"), Items, IdKey, NameOf, "toc")
    BY <1>2, <1>3, <1>4, PageFacts DEF Alone
  <2>2. QED
    BY <1>5, <2>1, TaggedOne
<1>10. /\ n \in Seq(Items) /\ Range(n) = (IF some THEN {Page("notes")} ELSE {}) /\ Tagged(IdKey, NameOf, n, C5)
  <2>1. Alone(n, some, Page("notes"), Items, IdKey, NameOf, "notes")
    BY <1>2, <1>3, <1>4, PageFacts DEF Alone
  <2>2. QED
    BY <1>5, <2>1, TaggedOne
<1>11. PICK D2, D3, D4, D5 :
         D2 = C1 \union C2 /\ D3 = D2 \union C3 /\ D4 = D3 \union C4 /\ D5 = D4 \union C5
  OBVIOUS
<1>12. Joins(C1, C2, D2) /\ Joins(D2, C3, D3) /\ Joins(D3, C4, D4) /\ Joins(D4, C5, D5)
  <2>1. Joins(C1, C2, D2) /\ Joins(D2, C3, D3)
    BY <1>5, <1>11 DEF Joins
  <2>2. Joins(D3, C4, D4)
    BY <1>5, <1>11 DEF Joins
  <2>3. Joins(D4, C5, D5)
    BY <1>5, <1>11 DEF Joins
  <2>4. QED
    BY <2>1, <2>2, <2>3
<1>13. PICK s2 : s2 = c \o t
  OBVIOUS
<1>14. PICK s3 : s3 = s2 \o h
  OBVIOUS
<1>15. PICK s4 : s4 = s3 \o o
  OBVIOUS
<1>16. PICK s5 : s5 = s4 \o n
  OBVIOUS
<1>17. s2 \in Seq(Items) /\ Tagged(IdKey, NameOf, s2, D2)
  BY <1>6, <1>7, <1>12, <1>13, TaggedConcat
<1>18. s3 \in Seq(Items) /\ Tagged(IdKey, NameOf, s3, D3)
  BY <1>17, <1>8, <1>12, <1>14, TaggedConcat
<1>19. s4 \in Seq(Items) /\ Tagged(IdKey, NameOf, s4, D4)
  BY <1>18, <1>9, <1>12, <1>15, TaggedConcat
<1>20. s5 \in Seq(Items) /\ Tagged(IdKey, NameOf, s5, D5)
  BY <1>19, <1>10, <1>12, <1>16, TaggedConcat
<1>21. w = (((c \o t) \o h) \o o) \o n
  BY DEF ReadingOrder, ReadParts
<1>22. w = s5
  BY <1>13, <1>14, <1>15, <1>16, <1>21
<1>23. /\ \A x : x \in Range(c) <=> Cover # -1 /\ x = Page("cover")
       /\ \A x : x \in Range(t) <=> book.titled /\ x = Page("title")
       /\ \A x : x \in Range(o) <=> x = Page("toc")
       /\ \A x : x \in Range(n) <=> Notes # <<>> /\ x = Page("notes")
  BY <1>1, <1>6, <1>7, <1>9, <1>10
<1>24. ASSUME NEW x PROVE x \in Range(s5) <=> IsRead(x)
  <2>1. x \in Range(s2) <=> x \in Range(c) \/ x \in Range(t)
    BY <1>6, <1>7, <1>13, RangeUnion
  <2>2. x \in Range(s3) <=> x \in Range(s2) \/ x \in Range(h)
    BY <1>17, <1>8, <1>14, RangeUnion
  <2>3. x \in Range(s4) <=> x \in Range(s3) \/ x \in Range(o)
    BY <1>18, <1>9, <1>15, RangeUnion
  <2>4. x \in Range(s5) <=> x \in Range(s4) \/ x \in Range(n)
    BY <1>19, <1>10, <1>16, RangeUnion
  <2>5. QED
    BY <1>8, <1>23, <2>1, <2>2, <2>3, <2>4 DEF IsRead
<1>25. Apart(IdKey, s5)
  BY <1>20 DEF Tagged
<1>26. QED
  BY <1>6, <1>7, <1>8, <1>9, <1>10, <1>20, <1>21, <1>22, <1>23, <1>24, <1>25

\* The files of the package.
IsFile(file) ==
  \/ \E c \in 1..Len(chapters) : file = Chapter(c)
  \/ Notes # <<>> /\ file = File("notes", 0)
  \/ Cover # -1 /\ file = File("cover", 0)
  \/ book.titled /\ file = File("title", 0)
  \/ file \in {File("style", 0), File("nav", 0), File("ncx", 0), File("toc", 0)}
  \/ \E n \in Packed : file = File("image", n)

LEMMA FilesAre == ASSUME Done, NEW file PROVE file \in Files <=> IsFile(file)
<1>1. ASSUME NEW c \in 1..Len(chapters) PROVE ChapterFile(c).file = Chapter(c)
  BY ChapterFileFacts
<1>2. NotesFile.file = File("notes", 0)
  BY NotesFileFacts
<1>3. CoverPage.file = File("cover", 0) /\ TitlePage.file = File("title", 0)
  BY DEF CoverPage, TitlePage
<1>4. NavFile.file = File("nav", 0) /\ TocFile.file = File("toc", 0) /\ NcxFile.file = File("ncx", 0)
  BY DEF NavFile, TocFile, NcxFile
<1>5. \A f : Plain(f).file = f
  BY DEF Plain
<1>6. ASSUME NEW x, IsWritten(x), file = x.file PROVE IsFile(file)
  <2>1. CASE \E c \in 1..Len(chapters) : x = ChapterFile(c)
    BY <1>1, <1>6, <2>1 DEF IsFile
  <2>2. CASE Notes # <<>> /\ x = NotesFile
    BY <1>2, <1>6, <2>2 DEF IsFile
  <2>3. CASE Cover # -1 /\ x = CoverPage
    BY <1>3, <1>6, <2>3 DEF IsFile
  <2>4. CASE book.titled /\ x = TitlePage
    BY <1>3, <1>6, <2>4 DEF IsFile
  <2>5. CASE x = Plain(File("style", 0)) \/ x = NavFile \/ x = TocFile \/ x = NcxFile
    BY <1>4, <1>5, <1>6, <2>5 DEF IsFile
  <2>6. CASE \E n \in Packed : x = Plain(File("image", n))
    BY <1>5, <1>6, <2>6 DEF IsFile
  <2>7. QED
    BY <1>6, <2>1, <2>2, <2>3, <2>4, <2>5, <2>6 DEF IsWritten
<1>7. ASSUME IsFile(file) PROVE \E x : IsWritten(x) /\ file = x.file
  <2>1. CASE \E c \in 1..Len(chapters) : file = Chapter(c)
    <3>1. PICK c \in 1..Len(chapters) : file = Chapter(c)
      BY <2>1
    <3>2. IsWritten(ChapterFile(c))
      BY DEF IsWritten
    <3>3. QED
      BY <1>1, <3>1, <3>2
  <2>2. CASE Notes # <<>> /\ file = File("notes", 0)
    <3>1. IsWritten(NotesFile)
      BY <2>2 DEF IsWritten
    <3>2. QED
      BY <1>2, <2>2, <3>1
  <2>3. CASE Cover # -1 /\ file = File("cover", 0)
    <3>1. IsWritten(CoverPage)
      BY <2>3 DEF IsWritten
    <3>2. QED
      BY <1>3, <2>3, <3>1
  <2>4. CASE book.titled /\ file = File("title", 0)
    <3>1. IsWritten(TitlePage)
      BY <2>4 DEF IsWritten
    <3>2. QED
      BY <1>3, <2>4, <3>1
  <2>5. CASE file \in {File("style", 0), File("nav", 0), File("ncx", 0), File("toc", 0)}
    <3>1. IsWritten(Plain(File("style", 0))) /\ IsWritten(NavFile) /\ IsWritten(NcxFile) /\ IsWritten(TocFile)
      BY DEF IsWritten
    <3>2. QED
      BY <1>4, <1>5, <2>5, <3>1
  <2>6. CASE \E n \in Packed : file = File("image", n)
    <3>1. PICK n \in Packed : file = File("image", n)
      BY <2>6
    <3>2. IsWritten(Plain(File("image", n)))
      BY DEF IsWritten
    <3>3. QED
      BY <1>5, <3>1, <3>2
  <2>7. QED
    BY <1>7, <2>1, <2>2, <2>3, <2>4, <2>5, <2>6 DEF IsFile
<1>8. QED
  BY <1>6, <1>7, FilesFacts

LEMMA PagesAre ==
  /\ Page("style").file = File("style", 0) /\ Page("nav").file = File("nav", 0) /\ Page("ncx").file = File("ncx", 0)
  /\ Page("toc").file = File("toc", 0) /\ Page("notes").file = File("notes", 0) /\ Page("title").file = File("title", 0)
  /\ Page("cover").file = File("cover", 0)
  /\ ~Page("style").cover /\ ~Page("nav").cover /\ ~Page("ncx").cover /\ ~Page("toc").cover
  /\ ~Page("notes").cover /\ ~Page("title").cover /\ ~Page("cover").cover
<1>1. ASSUME NEW kind PROVE Page(kind).file = File(kind, 0) /\ ~Page(kind).cover
  BY DEF Page, Listing
<1>2. QED
  BY <1>1

LEMMA ItemFiles == ASSUME Done, NEW file PROVE (\E x : IsItem(x) /\ file = x.file) <=> IsFile(file)
<1>1. ASSUME NEW c \in 1..Len(chapters) PROVE ChapterItem(c).file = Chapter(c)
  BY DEF ChapterItem, Listing
<1>2. ASSUME NEW n \in Images PROVE ImageItem(n).file = File("image", n)
  BY ImageItemFacts
<1>3. ASSUME NEW x, IsItem(x), file = x.file PROVE IsFile(file)
  <2>1. CASE x \in {Page("style"), Page("nav"), Page("ncx"), Page("toc")}
    BY <1>3, <2>1, PagesAre DEF IsFile
  <2>2. CASE Notes # <<>> /\ x = Page("notes")
    BY <1>3, <2>2, PagesAre DEF IsFile
  <2>3. CASE book.titled /\ x = Page("title")
    BY <1>3, <2>3, PagesAre DEF IsFile
  <2>4. CASE Cover # -1 /\ x = Page("cover")
    BY <1>3, <2>4, PagesAre DEF IsFile
  <2>5. CASE \E n \in Images : x = ImageItem(n)
    BY <1>2, <1>3, <2>5 DEF IsFile, Packed
  <2>6. CASE Cover = 0 /\ x = CoverItem
    BY <1>3, <2>6, CoverItemFacts DEF IsFile, Packed
  <2>7. CASE \E c \in 1..Len(chapters) : x = ChapterItem(c)
    BY <1>1, <1>3, <2>7 DEF IsFile
  <2>8. QED
    BY <1>3, <2>1, <2>2, <2>3, <2>4, <2>5, <2>6, <2>7 DEF IsItem
<1>4. ASSUME IsFile(file) PROVE \E x : IsItem(x) /\ file = x.file
  <2>1. CASE \E c \in 1..Len(chapters) : file = Chapter(c)
    <3>1. PICK c \in 1..Len(chapters) : file = Chapter(c)
      BY <2>1
    <3>2. IsItem(ChapterItem(c))
      BY DEF IsItem
    <3>3. QED
      BY <1>1, <3>1, <3>2
  <2>2. CASE Notes # <<>> /\ file = File("notes", 0)
    <3>1. IsItem(Page("notes"))
      BY <2>2 DEF IsItem
    <3>2. QED
      BY <2>2, <3>1, PagesAre
  <2>3. CASE Cover # -1 /\ file = File("cover", 0)
    <3>1. IsItem(Page("cover"))
      BY <2>3 DEF IsItem
    <3>2. QED
      BY <2>3, <3>1, PagesAre
  <2>4. CASE book.titled /\ file = File("title", 0)
    <3>1. IsItem(Page("title"))
      BY <2>4 DEF IsItem
    <3>2. QED
      BY <2>4, <3>1, PagesAre
  <2>5. CASE file \in {File("style", 0), File("nav", 0), File("ncx", 0), File("toc", 0)}
    <3>1. IsItem(Page("style")) /\ IsItem(Page("nav")) /\ IsItem(Page("ncx")) /\ IsItem(Page("toc"))
      BY DEF IsItem
    <3>2. QED
      BY <2>5, <3>1, PagesAre
  <2>6. CASE \E n \in Packed : file = File("image", n)
    <3>1. PICK n \in Packed : file = File("image", n)
      BY <2>6
    <3>2. CASE n \in Images
      <4>1. IsItem(ImageItem(n))
        BY <3>2 DEF IsItem
      <4>2. QED
        BY <1>2, <3>1, <3>2, <4>1
    <3>3. CASE n \notin Images
      <4>1. Cover = 0 /\ n = 0
        BY <3>3 DEF Packed
      <4>2. IsItem(CoverItem)
        BY <4>1 DEF IsItem
      <4>3. QED
        BY <3>1, <4>1, <4>2, CoverItemFacts
    <3>4. QED
      BY <3>2, <3>3
  <2>7. QED
    BY <1>4, <2>1, <2>2, <2>3, <2>4, <2>5, <2>6 DEF IsFile
<1>5. QED
  BY <1>3, <1>4

\* The item of an id is the one it belongs to.
LEMMA ItemOfFacts ==
    ASSUME Done, NEW x, IsItem(x)
    PROVE  x \in Items /\ x \in Range(manifest) /\ ItemOf(x.id) = x
<1>1. PICK w \in Seq(Items) : w = manifest /\ Apart(IdKey, w) /\ \A y : y \in Range(w) <=> IsItem(y)
  <2>1. manifest = PackageItems
    BY DoneFacts DEF Rendering, Done
  <2>2. QED
    BY <2>1, PackageFacts
<1>2. Range(w) = {w[i] : i \in 1..Len(w)}
  BY RangeEquality
<1>3. PICK i \in 1..Len(w) : x = w[i]
  BY <1>1, <1>2
<1>4. x \in Items
  BY <1>3, ElementOfSeq
<1>5. ASSUME NEW y \in Range(w), y.id = x.id PROVE y = x
  <2>1. PICK j \in 1..Len(w) : y = w[j]
    BY <1>2
  <2>2. y \in Items
    BY <2>1, ElementOfSeq
  <2>3. IdKey[w[i]] = IdKey[w[j]]
    BY <1>3, <1>4, <1>5, <2>1, <2>2 DEF IdKey
  <2>4. QED
    BY <1>1, <1>3, <2>1, <2>3 DEF Apart
<1>6. x \in Range(w)
  BY <1>1
<1>7. (CHOOSE y \in Range(w) : y.id = x.id) = x
  BY <1>5, <1>6
<1>8. QED
  BY <1>1, <1>4, <1>6, <1>7 DEF ItemOf

LEMMA ReadIsItem == ASSUME NEW x, IsRead(x) PROVE IsItem(x)
  BY DEF IsRead, IsItem

\* The order of reading, by items.
LEMMA SpineFacts ==
    ASSUME Done
    PROVE  \E w \in Seq(Items) : /\ w = ReadingOrder /\ spine = [j \in 1..Len(w) |-> w[j].id]
                                 /\ Apart(IdKey, w) /\ \A x : x \in Range(w) <=> IsRead(x)
<1>1. PICK w : w = ReadingOrder
  OBVIOUS
<1>2. PICK c, t, h, o, n : ReadParts(c, t, h, o, n)
  BY DEF ReadParts
<1>3. w \in Seq(Items) /\ Apart(IdKey, w) /\ \A x : x \in Range(w) <=> IsRead(x)
  BY <1>1, <1>2, ReadingFacts
<1>4. spine = [j \in 1..Len(w) |-> w[j].id]
  BY <1>1, DoneFacts DEF Rendering, Done
<1>5. QED
  BY <1>1, <1>3, <1>4

LEMMA SpineReads ==
    ASSUME Done, NEW id
    PROVE  id \in Range(spine) <=> \E x : IsRead(x) /\ id = x.id
<1>1. PICK w \in Seq(Items) : spine = [j \in 1..Len(w) |-> w[j].id] /\ \A x : x \in Range(w) <=> IsRead(x)
  BY SpineFacts
<1>2. PICK n \in Nat : n = Len(w)
  BY LenProperties
<1>3. Range(w) = {w[j] : j \in 1..n}
  BY <1>2, RangeEquality
<1>4. Range(spine) = {w[j].id : j \in 1..n}
  BY <1>1, <1>2 DEF Range
<1>5. QED
  BY <1>1, <1>3, <1>4

LEMMA SpineInjective == ASSUME Done PROVE IsInjective(spine)
<1>1. PICK w \in Seq(Items) : spine = [j \in 1..Len(w) |-> w[j].id] /\ Apart(IdKey, w)
  BY SpineFacts
<1>2. PICK n \in Nat : n = Len(w)
  BY LenProperties
<1>3. ASSUME NEW i \in 1..n, NEW j \in 1..n, w[i].id = w[j].id PROVE i = j
  <2>1. w[i] \in Items /\ w[j] \in Items
    BY <1>2, ElementOfSeq
  <2>2. IdKey[w[i]] = IdKey[w[j]]
    BY <1>3, <2>1 DEF IdKey
  <2>3. QED
    BY <1>1, <1>2, <2>2 DEF Apart
<1>4. QED
  BY <1>1, <1>2, <1>3 DEF IsInjective

LEMMA WrittenInjective == ASSUME Done PROVE IsInjective([n \in 1..Len(written) |-> written[n].file])
<1>1. PICK w \in Seq(FileRecords) : w = written /\ Apart(FileKey, w)
  BY WrittenFacts
<1>2. PICK n \in Nat : n = Len(w)
  BY LenProperties
<1>3. ASSUME NEW i \in 1..n, NEW j \in 1..n, w[i].file = w[j].file PROVE i = j
  <2>1. w[i] \in FileRecords /\ w[j] \in FileRecords
    BY <1>2, ElementOfSeq
  <2>2. FileKey[w[i]] = FileKey[w[j]]
    BY <1>3, <2>1 DEF FileKey
  <2>3. QED
    BY <1>1, <1>2, <2>2 DEF Apart
<1>4. PICK f : f = [k \in 1..n |-> w[k].file]
  OBVIOUS
<1>5. IsInjective(f)
  BY <1>3, <1>4 DEF IsInjective
<1>6. QED
  BY <1>1, <1>2, <1>4, <1>5

LEMMA ManifestInjective ==
    ASSUME Done
    PROVE  /\ IsInjective([n \in 1..Len(manifest) |-> manifest[n].file])
           /\ IsInjective([n \in 1..Len(manifest) |-> manifest[n].id])
<1>1. PICK w \in Seq(Items) : w = manifest /\ Apart(IdKey, w)
  <2>1. manifest = PackageItems
    BY DoneFacts DEF Rendering, Done
  <2>2. QED
    BY <2>1, PackageFacts
<1>2. PICK n \in Nat : n = Len(w)
  BY LenProperties
<1>3. ASSUME NEW i \in 1..n, NEW j \in 1..n, w[i].id = w[j].id PROVE i = j
  <2>1. w[i] \in Items /\ w[j] \in Items
    BY <1>2, ElementOfSeq
  <2>2. IdKey[w[i]] = IdKey[w[j]]
    BY <1>3, <2>1 DEF IdKey
  <2>3. QED
    BY <1>1, <1>2, <2>2 DEF Apart
<1>4. ASSUME NEW i \in 1..n, NEW j \in 1..n, w[i].file = w[j].file PROVE i = j
  <2>1. w[i] \in Items /\ w[j] \in Items
    BY <1>2, ElementOfSeq
  <2>2. w[i].id = w[j].id
    BY <1>4, <2>1, ItemsFacts
  <2>3. QED
    BY <1>3, <2>2
<1>5. PICK f, g : f = [k \in 1..n |-> w[k].file] /\ g = [k \in 1..n |-> w[k].id]
  OBVIOUS
<1>6. IsInjective(f) /\ IsInjective(g)
  BY <1>3, <1>4, <1>5 DEF IsInjective
<1>7. QED
  BY <1>1, <1>2, <1>5, <1>6

LEMMA ManifestIs == ASSUME Done PROVE \A x : x \in Range(manifest) <=> IsItem(x)
<1>1. manifest = PackageItems
  BY DoneFacts DEF Rendering, Done
<1>2. QED
  BY <1>1, PackageFacts

\* The pages, and what is no page.
LEMMA PagesFacts ==
    ASSUME Done, NEW file
    PROVE  (\E x : IsRead(x) /\ file = x.file) <=> IsFile(file) /\ file.kind \notin {"style", "nav", "ncx", "image"}
<1>1. ASSUME NEW c PROVE ChapterItem(c).file = Chapter(c) /\ Chapter(c).kind = "chapter"
  BY DEF ChapterItem, Listing, Chapter, File
<1>2. ASSUME NEW kind, NEW n PROVE File(kind, n).kind = kind
  BY DEF File
<1>3. /\ "chapter" \notin {"style", "nav", "ncx", "image"} /\ "notes" \notin {"style", "nav", "ncx", "image"}
      /\ "cover" \notin {"style", "nav", "ncx", "image"} /\ "title" \notin {"style", "nav", "ncx", "image"}
      /\ "toc" \notin {"style", "nav", "ncx", "image"}
  OBVIOUS
<1>4. ASSUME NEW x, IsRead(x), file = x.file PROVE IsFile(file) /\ file.kind \notin {"style", "nav", "ncx", "image"}
  <2>1. IsFile(file)
    BY <1>4, ReadIsItem, ItemFiles
  <2>2. file.kind \notin {"style", "nav", "ncx", "image"}
    BY <1>1, <1>2, <1>3, <1>4, PagesAre DEF IsRead
  <2>3. QED
    BY <2>1, <2>2
<1>5. ASSUME IsFile(file), file.kind \notin {"style", "nav", "ncx", "image"} PROVE \E x : IsRead(x) /\ file = x.file
  <2>1. CASE \E c \in 1..Len(chapters) : file = Chapter(c)
    BY <1>1, <2>1 DEF IsRead
  <2>2. CASE Notes # <<>> /\ file = File("notes", 0)
    BY <2>2, PagesAre DEF IsRead
  <2>3. CASE Cover # -1 /\ file = File("cover", 0)
    BY <2>3, PagesAre DEF IsRead
  <2>4. CASE book.titled /\ file = File("title", 0)
    BY <2>4, PagesAre DEF IsRead
  <2>5. CASE file \in {File("style", 0), File("nav", 0), File("ncx", 0), File("toc", 0)}
    <3>1. file = File("toc", 0)
      BY <1>2, <1>5, <2>5
    <3>2. QED
      BY <3>1, PagesAre DEF IsRead
  <2>6. CASE \E n \in Packed : file = File("image", n)
    BY <1>2, <1>5, <2>6
  <2>7. QED
    BY <1>5, <2>1, <2>2, <2>3, <2>4, <2>5, <2>6 DEF IsFile
<1>6. QED
  BY <1>4, <1>5

\* The picture the cover shows is the one that is marked.
LEMMA CoverMarked ==
    ASSUME Done
    PROVE  {item.file : item \in {x \in Range(manifest) : x.cover}} =
             {a.file : a \in {x \in Range(Atoms(File("cover", 0))) : x.type = "image"}}
<1>1. PICK M : M = {x \in Range(manifest) : x.cover}
  OBVIOUS
<1>2. \A x : x \in M <=> (Cover \in Images /\ x = ImageItem(Cover)) \/ (Cover = 0 /\ x = CoverItem)
  <2>1. ASSUME NEW n \in Images PROVE ImageItem(n).cover <=> n = Cover
    BY <2>1, ImageItemFacts
  <2>2. CoverItem.cover
    BY CoverItemFacts
  <2>3. ASSUME NEW c PROVE ~ChapterItem(c).cover
    BY DEF ChapterItem, Listing
  <2>4. ASSUME NEW x \in M PROVE (Cover \in Images /\ x = ImageItem(Cover)) \/ (Cover = 0 /\ x = CoverItem)
    <3>1. IsItem(x) /\ x.cover
      BY <1>1, ManifestIs
    <3>2. QED
      BY <2>1, <2>3, <3>1, PagesAre DEF IsItem
  <2>5. ASSUME Cover \in Images PROVE ImageItem(Cover) \in M
    <3>1. IsItem(ImageItem(Cover))
      BY <2>5 DEF IsItem
    <3>2. QED
      BY <1>1, <2>1, <2>5, <3>1, ManifestIs
  <2>6. ASSUME Cover = 0 PROVE CoverItem \in M
    <3>1. IsItem(CoverItem)
      BY <2>6 DEF IsItem
    <3>2. QED
      BY <1>1, <2>2, <3>1, ManifestIs
  <2>7. QED
    BY <2>4, <2>5, <2>6
<1>3. CASE Cover = -1
  <2>1. M = {}
    BY <1>2, <1>3, CoverFacts
  <2>2. File("cover", 0) \notin Files
    <3>1. SUFFICES ASSUME IsFile(File("cover", 0)) PROVE FALSE
      BY FilesAre
    <3>2. ASSUME NEW kind, NEW n PROVE File(kind, n).kind = kind
      BY DEF File
    <3>3. "cover" # "chapter" /\ "cover" # "notes" /\ "cover" # "title" /\ "cover" \notin {"style", "nav", "ncx", "toc"}
          /\ "cover" # "image"
      OBVIOUS
    <3>4. QED
      BY <1>3, <3>1, <3>2, <3>3 DEF IsFile, Chapter
  <2>3. Atoms(File("cover", 0)) = <<>>
    BY <2>2 DEF Atoms
  <2>4. Range(<<>>) = {}
    BY DEF Range
  <2>5. QED
    BY <1>1, <2>1, <2>3, <2>4
<1>4. CASE Cover # -1
  <2>1. IsWritten(CoverPage)
    BY <1>4 DEF IsWritten
  <2>2. CoverPage.file = File("cover", 0) /\ CoverPage.atoms = <<Picture(Cover)>>
    BY DEF CoverPage
  <2>3. Atoms(File("cover", 0)) = <<Picture(Cover)>>
    BY <2>1, <2>2, AtomsFacts
  <2>4. PICK p : p = Picture(Cover)
    OBVIOUS
  <2>5. Range(<<p>>) = {p}
    BY DEF Range
  <2>6. p.type = "image" /\ p.file = File("image", Cover)
    BY <2>4 DEF Picture
  <2>7. {a.file : a \in {x \in Range(Atoms(File("cover", 0))) : x.type = "image"}} = {File("image", Cover)}
    BY <2>3, <2>4, <2>5, <2>6
  <2>8. {item.file : item \in M} = {File("image", Cover)}
    <3>1. CASE Cover \in Images
      <4>1. M = {ImageItem(Cover)}
        BY <1>2, <3>1, CoverFacts
      <4>2. ImageItem(Cover).file = File("image", Cover)
        BY <3>1, ImageItemFacts
      <4>3. QED
        BY <4>1, <4>2
    <3>2. CASE Cover = 0
      <4>1. M = {CoverItem}
        BY <1>2, <3>2, CoverFacts
      <4>2. CoverItem.file = File("image", Cover)
        BY <3>2, CoverItemFacts
      <4>3. QED
        BY <4>1, <4>2
    <3>3. QED
      BY <1>4, <3>1, <3>2, CoverFacts
  <2>9. QED
    BY <1>1, <2>7, <2>8
<1>5. QED
  BY <1>3, <1>4

LEMMA PackageHolds == ASSUME Done PROVE PackageComplete
<1>1. {item.file : item \in Range(manifest)} = Files
  <2>1. \A file : file \in Files <=> \E x \in Range(manifest) : file = x.file
    BY FilesAre, ItemFiles, ManifestIs
  <2>2. QED
    BY <2>1
<1>2. Range(spine) \subseteq {item.id : item \in Range(manifest)}
  BY SpineReads, ReadIsItem, ManifestIs
<1>3. {ItemOf(id).file : id \in Range(spine)} = {file \in Files : file.kind \notin {"style", "nav", "ncx", "image"}}
  <2>1. ASSUME NEW x, IsRead(x) PROVE ItemOf(x.id) = x
    BY <2>1, ReadIsItem, ItemOfFacts
  <2>2. \A file : file \in {ItemOf(id).file : id \in Range(spine)} <=> \E x : IsRead(x) /\ file = x.file
    BY <2>1, SpineReads
  <2>3. \A file : file \in {ItemOf(id).file : id \in Range(spine)} <=>
                    file \in Files /\ file.kind \notin {"style", "nav", "ncx", "image"}
    BY <2>2, PagesFacts, FilesAre
  <2>4. QED
    BY <2>3
<1>4. QED
  BY <1>1, <1>2, <1>3, WrittenInjective, ManifestInjective, SpineInjective, CoverMarked DEF PackageComplete

LEMMA PicturesHold == ASSUME Done PROVE PicturesPacked
<1>1. ASSUME NEW f \in Range(written), NEW a \in Range(f.atoms), a.type = "image" PROVE a.file \in Files
  <2>1. f \in FileRecords
    BY WrittenFacts, AtomsFacts
  <2>2. PICK s \in Seq(GoodAtoms) : s = f.atoms
    BY <2>1 DEF FileRecords
  <2>3. Range(s) = {s[i] : i \in 1..Len(s)}
    BY RangeEquality
  <2>4. a \in GoodAtoms
    BY <2>2, <2>3, ElementOfSeq
  <2>5. PICK n \in Shown : a.file = File("image", n)
    BY <1>1, <2>4 DEF GoodAtoms
  <2>6. n \in Packed
    BY CoverFacts DEF Shown, Packed
  <2>7. IsFile(a.file)
    BY <2>5, <2>6 DEF IsFile
  <2>8. QED
    BY <2>7, FilesAre
<1>2. ASSUME File("image", 0) \in Files PROVE Normal(book.cover) \notin {Normal(book.binaries[n]) : n \in Images}
  <2>1. IsFile(File("image", 0))
    BY <1>2, FilesAre
  <2>2. ASSUME NEW kind, NEW n PROVE File(kind, n).kind = kind /\ File(kind, n).n = n
    BY DEF File
  <2>3. "image" # "chapter" /\ "image" # "notes" /\ "image" # "title" /\ "image" \notin {"style", "nav", "ncx", "toc"}
        /\ "image" # "cover"
    OBVIOUS
  <2>4. \E n \in Packed : File("image", 0) = File("image", n)
    BY <2>1, <2>2, <2>3 DEF IsFile, Chapter
  <2>5. 0 \in Packed
    BY <2>2, <2>4
  <2>6. Cover = 0
    BY <2>5, CoverFacts DEF Packed
  <2>7. QED
    BY <2>6, CoverFacts
<1>3. QED
  BY <1>1, <1>2 DEF PicturesPacked

LEMMA AnchorIs == ASSUME NEW key PROVE Anchor(key).type = "anchor" /\ Anchor(key).key = key
  BY DEF Anchor

LEMMA Landing ==
    ASSUME Done, NEW x, IsWritten(x), NEW key, Anchor(key) \in Range(x.atoms)
    PROVE  Landings(x.file, key) # {}
<1>1. Atoms(x.file) = x.atoms /\ x \in FileRecords
  BY AtomsFacts
<1>2. PICK s \in Seq(GoodAtoms) : s = x.atoms
  BY <1>1 DEF FileRecords
<1>3. Range(s) = {s[i] : i \in 1..Len(s)}
  BY RangeEquality
<1>4. PICK i \in 1..Len(s) : s[i] = Anchor(key)
  BY <1>2, <1>3
<1>5. s[i].type = "anchor" /\ s[i].key = key
  BY <1>4, AnchorIs
<1>6. i \in Landings(x.file, key)
  BY <1>1, <1>2, <1>5 DEF Landings
<1>7. QED
  BY <1>6

LEMMA ChapterIsWritten ==
    ASSUME Done, NEW c \in 1..Len(chapters)
    PROVE  IsWritten(ChapterFile(c)) /\ ChapterFile(c).file = Chapter(c) /\ Atoms(Chapter(c)) = ChapterFile(c).atoms
<1>1. IsWritten(ChapterFile(c))
  BY DEF IsWritten
<1>2. ChapterFile(c).file = Chapter(c)
  BY ChapterFileFacts
<1>3. QED
  BY <1>1, <1>2, AtomsFacts

\* The links of every file of the package.
LEMMA WrittenLed == ASSUME Done, NEW x, IsWritten(x) PROVE Led(x.file, x.atoms)
<1>1. CASE \E c \in 1..Len(chapters) : x = ChapterFile(c)
  BY <1>1, ChapterFileFacts
<1>2. CASE x = NotesFile
  BY <1>2, NotesFileFacts
<1>3. ASSUME NEW s \in Seq(GoodAtoms), NEW y, s = <<y>>, y.type # "link", x.atoms = s PROVE Led(x.file, x.atoms)
  <2>1. Len(s) = 1 /\ s[1] = y /\ \A j \in 1..1 : j = 1
    BY <1>3
  <2>2. Unlinked(s)
    BY <1>3, <2>1 DEF Unlinked
  <2>3. QED
    BY <1>3, <2>2, LedUnlinked
<1>4. x \in FileRecords
  BY AtomsFacts
<1>5. PICK s \in Seq(GoodAtoms) : s = x.atoms
  BY <1>4 DEF FileRecords
<1>6. CASE x = CoverPage
  <2>1. s = <<Picture(Cover)>> /\ Picture(Cover).type = "image" /\ "image" # "link"
    BY <1>5, <1>6 DEF CoverPage, Picture
  <2>2. QED
    BY <1>3, <1>5, <2>1
<1>7. CASE x = TitlePage
  <2>1. s = <<Anchor(Tocref(1))>> /\ Anchor(Tocref(1)).type = "anchor" /\ "anchor" # "link"
    BY <1>5, <1>7 DEF TitlePage, Anchor
  <2>2. QED
    BY <1>3, <1>5, <2>1
<1>8. ASSUME NEW file, x = Plain(file) PROVE Led(x.file, x.atoms)
  <2>1. x.atoms = <<>>
    BY <1>8 DEF Plain
  <2>2. Range(<<>>) = {}
    BY DEF Range
  <2>3. QED
    BY <2>1, <2>2 DEF Led
<1>9. CASE x = NavFile \/ x = TocFile
  <2>1. x.atoms = NavList(Lines)
    BY <1>9 DEF NavFile, TocFile
  <2>2. QED
    BY <2>1, NavListLed
<1>10. CASE x = NcxFile
  <2>1. PICK l \in Seq(GoodAtoms) : l = NavList(Lines) /\ Led(x.file, l)
    BY NavListFacts, QuietSeq, NavListLed
  <2>2. PICK y : y = Link(File("toc", 0), "")
    OBVIOUS
  <2>3. PICK file \in FileSet : file = File("toc", 0) /\ file.kind = "toc"
    <3>1. "toc" \in Kinds /\ 0 \in Int
      BY DEF Kinds
    <3>2. QED
      BY <3>1, FileFacts
  <2>4. PICK key \in Keys : key = ""
    BY KeysFacts
  <2>5. y \in GoodAtoms /\ y.file = file
    BY <2>2, <2>3, <2>4, LinkGood
  <2>6. Lands(x.file, y.file, y.key)
    BY <2>3, <2>5 DEF Lands, Aims
  <2>7. PICK t : t = <<y>>
    OBVIOUS
  <2>8. t \in Seq(GoodAtoms) /\ Len(t) = 1 /\ t[1] = y
    BY <2>5, <2>7
  <2>9. Led(x.file, t)
    <3>1. Range(t) = {t[j] : j \in 1..1}
      BY <2>8, RangeEquality
    <3>2. \A z \in Range(t) : z = y
      BY <2>8, <3>1
    <3>3. QED
      BY <2>6, <3>2 DEF Led
  <2>10. x.atoms = l \o t
    <3>1. x.atoms = Append(l, y)
      BY <1>10, <2>1, <2>2 DEF NcxFile
    <3>2. QED
      BY <2>1, <2>5, <2>7, <3>1
  <2>11. QED
    BY <2>1, <2>8, <2>9, <2>10, LedConcat
<1>11. QED
  BY <1>1, <1>2, <1>6, <1>7, <1>8, <1>9, <1>10 DEF IsWritten

\* An id of the body is in a chapter.
LEMMA Uncollected ==
    ASSUME Done, NEW key, Home(key) = 0, key \notin NoteIds
    PROVE  key \notin Collected
<1>1. SUFFICES ASSUME NEW k \in 1..Len(book.body), book.body[k].id = key, key # "" PROVE FALSE
  BY DEF Collected
<1>2. PICK n \in Nat, N \in Nat : n = Len(chapters) /\ N = Len(book.body)
  BY DoneFacts
<1>3. PICK p : p = [c \in 1..n |-> Part(chapters[c])]
  OBVIOUS
<1>4. \A c \in 1..n : Part(chapters[c]) \in Seq(1..N)
  BY <1>2, ChapterFacts
<1>5. p \in [1..n -> Seq(1..N)]
  BY <1>3, <1>4
<1>6. p \in Seq(Seq(1..N)) /\ Len(p) = n
  BY <1>5, Listing1
<1>7. FlattenSeq(p) = UpTo(N)
  BY <1>2, <1>3, DoneFacts DEF Rendering, Split, SplitOf
<1>8. k \in Range(FlattenSeq(p))
  <2>1. UpTo(N) \in Seq(Nat) /\ Len(UpTo(N)) = N /\ UpTo(N)[k] = k
    BY <1>1, <1>2, UpToFacts
  <2>2. Range(UpTo(N)) = {UpTo(N)[j] : j \in 1..N}
    BY <2>1, RangeEquality
  <2>3. QED
    BY <1>1, <1>2, <1>7, <2>1, <2>2
<1>9. PICK c \in 1..n : k \in Range(p[c])
  BY <1>6, <1>8, FlattenRange
<1>10. PICK s, q : s = chapters[c].section /\ q = chapters[c].paras
  OBVIOUS
<1>11. q \in Seq(1..N) /\ s \in Nat
  <2>1. s \in Sections \union {0} /\ q \in Seq(1..Len(book.body))
    BY <1>2, <1>10, ChapterFacts
  <2>2. s \in Nat
    BY <1>2, <2>1 DEF Sections
  <2>3. QED
    BY <1>2, <2>1, <2>2
<1>12. PICK h : h = When(s # 0, <<s>>)
  OBVIOUS
<1>13. h \in Seq(Nat) /\ \A y : y \in Range(h) <=> s # 0 /\ y = s
  <2>1. PICK headed \in BOOLEAN : headed = (s # 0)
    OBVIOUS
  <2>2. h = When(headed, <<s>>)
    BY <1>12, <2>1
  <2>3. QED
    BY <1>11, <2>1, <2>2, WhenOne
<1>14. q \in Seq(Nat)
  <2>1. 1..N \subseteq Nat
    OBVIOUS
  <2>2. QED
    BY <1>11, <2>1, WiderSeq
<1>15. Range(h \o q) = Range(h) \union Range(q)
  BY <1>13, <1>14, RangeConcatenation
<1>16. k \in Range(h) \union Range(q)
  BY <1>3, <1>9, <1>10, <1>12, <1>15 DEF Part
<1>17. key \in IdsOf(chapters[c])
  BY <1>1, <1>10, <1>13, <1>16 DEF IdsOf
<1>18. QED
  BY <1>2, <1>17, HomeFacts

LEMMA LinkLands ==
    ASSUME Done, NEW here, NEW file, NEW key, Lands(here, file, key), file.kind \in {"chapter", "notes"}
    PROVE  \/ Landings(file, key) # {}
           \/ Home(key) # 0 /\ file = Chapter(Home(key)) /\ Mute(key)
           \/ file = here /\ key \notin Collected
           \/ key = "" /\ file \in Files
<1>1. ASSUME Home(key) # 0, file = Chapter(Home(key)), ~Mute(key) PROVE Landings(file, key) # {}
  <2>1. PICK c : c = Home(key)
    OBVIOUS
  <2>2. c \in 1..Len(chapters) /\ key \in IdsOf(chapters[c])
    BY <1>1, <2>1, HomeFacts, DoneFacts
  <2>3. key # ""
    BY <2>2 DEF IdsOf
  <2>4. PICK k \in Range(chapters[c].paras) \union ({chapters[c].section} \ {0}) :
          book.body[k].id = key /\ ~(book.body[k].kind = "poem-line" /\ ~book.body[k].shown)
    BY <1>1, <2>1 DEF Mute
  <2>5. PICK f : f = ChapterFile(c)
    OBVIOUS
  <2>6. Anchor(key) \in Range(f.atoms)
    BY <2>2, <2>3, <2>4, <2>5, ChapterFileFacts
  <2>7. IsWritten(f) /\ f.file = file
    BY <1>1, <2>1, <2>2, <2>5, ChapterIsWritten
  <2>8. QED
    BY <2>6, <2>7, Landing
<1>2. ASSUME file = File("notes", 0), NEW n \in 1..Len(Notes), AnchorOf(n) = key PROVE Landings(file, key) # {}
  <2>1. PICK f : f = NotesFile
    OBVIOUS
  <2>2. f.file = file /\ Anchor(key) \in Range(f.atoms)
    BY <1>2, <2>1, NotesFileFacts
  <2>3. Notes # <<>>
    <3>1. Len(<<>>) = 0
      OBVIOUS
    <3>2. QED
      BY <1>2, <3>1
  <2>4. IsWritten(f)
    BY <2>1, <2>3 DEF IsWritten
  <2>5. QED
    BY <2>2, <2>4, Landing
<1>3. ASSUME NEW c \in 1..Len(chapters), chapters[c].section # 0, file = Chapter(c),
             key = Tocref(Sequence(chapters[c].section))
      PROVE  Landings(file, key) # {}
  <2>1. PICK f : f = ChapterFile(c)
    OBVIOUS
  <2>2. Headed(f.atoms, chapters[c].section) /\ f \in FileRecords
    BY <1>3, <2>1, ChapterFileFacts
  <2>3. PICK s \in Seq(GoodAtoms) : s = f.atoms
    BY <2>2 DEF FileRecords
  <2>4. 1 \in 1..Len(s) /\ s[1] = Anchor(key)
    BY <1>3, <2>2, <2>3 DEF Headed
  <2>5. Range(s) = {s[i] : i \in 1..Len(s)}
    BY RangeEquality
  <2>6. Anchor(key) \in Range(s)
    BY <2>4, <2>5
  <2>7. IsWritten(f) /\ f.file = file
    BY <1>3, <2>1, ChapterIsWritten
  <2>8. QED
    BY <2>3, <2>6, <2>7, Landing
<1>4. ASSUME file = File("notes", 0), Notes # <<>> PROVE file \in Files
  <2>1. IsWritten(NotesFile) /\ NotesFile.file = file
    BY <1>4, NotesFileFacts DEF IsWritten
  <2>2. QED
    BY <2>1, AtomsFacts
<1>5. QED
  BY <1>1, <1>2, <1>3, <1>4, Uncollected DEF Lands, Aims

LEMMA LineLands ==
    ASSUME Done, NEW line \in GoodLines, line.section # 0, NEW first,
           first = CHOOSE n \in Landings(line.file, line.key) : \A m \in Landings(line.file, line.key) : n <= m
    PROVE  /\ Landings(line.file, line.key) # {}
           /\ \E n \in first..Len(Atoms(line.file)) :
                /\ Atoms(line.file)[n] = Words("head", line.section)
                /\ \A m \in first..(n - 1) : Atoms(line.file)[m].type = "anchor"
<1>1. PICK c \in 1..Len(chapters) : /\ chapters[c].section = line.section /\ line.file = Chapter(c)
                                    /\ line.key = Tocref(Sequence(line.section))
  BY DEF GoodLines
<1>2. PICK f : f = ChapterFile(c)
  OBVIOUS
<1>3. Headed(f.atoms, line.section) /\ f \in FileRecords
  BY <1>1, <1>2, ChapterFileFacts
<1>4. Atoms(line.file) = f.atoms
  BY <1>1, <1>2, ChapterIsWritten
<1>5. PICK s \in Seq(GoodAtoms) : s = f.atoms
  BY <1>3 DEF FileRecords
<1>6. PICK L : L = Landings(line.file, line.key)
  OBVIOUS
<1>7. L = {j \in 1..Len(s) : s[j].type = "anchor" /\ s[j].key = line.key}
  BY <1>4, <1>5, <1>6 DEF Landings
<1>8. 1 \in 1..Len(s) /\ s[1] = Anchor(line.key)
  BY <1>1, <1>3, <1>5 DEF Headed
<1>9. s[1].type = "anchor" /\ s[1].key = line.key
  BY <1>8, AnchorIs
<1>10. 1 \in L /\ \A m \in L : 1 <= m
  BY <1>7, <1>8, <1>9
<1>11. L \subseteq Int
  BY <1>7
<1>12. first \in L /\ \A m \in L : first <= m
  BY <1>6, <1>10
<1>13. first = 1
  <2>1. first \in Int /\ first <= 1 /\ 1 <= first
    BY <1>10, <1>11, <1>12
  <2>2. QED
    BY <2>1
<1>14. PICK n \in 1..Len(s) : s[n] = Words("head", line.section) /\ \A m \in 1..(n - 1) : s[m].type = "anchor"
  BY <1>3, <1>5 DEF Headed
<1>15. QED
  BY <1>4, <1>5, <1>6, <1>10, <1>13, <1>14

LEMMA LinksHold == ASSUME Done PROVE LinksLand
<1>1. ASSUME NEW f \in Range(written), NEW a \in Range(f.atoms), a.type = "link", a.file.kind \in {"chapter", "notes"}
      PROVE  \/ Landings(a.file, a.key) # {}
             \/ Home(a.key) # 0 /\ a.file = Chapter(Home(a.key)) /\ Mute(a.key)
             \/ a.file = f.file /\ a.key \notin Collected
             \/ a.key = "" /\ a.file \in Files
  <2>1. IsWritten(f)
    BY WrittenFacts
  <2>2. Led(f.file, f.atoms)
    BY <2>1, WrittenLed
  <2>3. Lands(f.file, a.file, a.key)
    BY <1>1, <2>2 DEF Led
  <2>4. QED
    BY <1>1, <2>3, LinkLands
<1>2. PICK l \in Seq(GoodLines) : l = contents
  <2>1. contents = Lines
    BY DoneFacts DEF Rendering, Done
  <2>2. QED
    BY <2>1, LinesFacts
<1>3. Range(l) = {l[i] : i \in 1..Len(l)}
  BY RangeEquality
<1>4. \A line \in Range(l) : line \in GoodLines
  BY <1>3, ElementOfSeq
<1>5. ASSUME NEW line \in Range(contents), line.section # 0, NEW first,
             first = CHOOSE n \in Landings(line.file, line.key) : \A m \in Landings(line.file, line.key) : n <= m
      PROVE  /\ Landings(line.file, line.key) # {}
             /\ \E n \in first..Len(Atoms(line.file)) :
                  /\ Atoms(line.file)[n] = Words("head", line.section)
                  /\ \A m \in first..(n - 1) : Atoms(line.file)[m].type = "anchor"
  BY <1>2, <1>4, <1>5, LineLands
<1>6. QED
  BY <1>1, <1>5 DEF LinksLand

\* What is read of the body on a page.
Readable == {x \in Items : IsRead(x)}
Said == [x \in Readable |-> Each(Told, Atoms(x.file))]

LEMMA PageReads ==
    ASSUME Done, NEW y, IsWritten(y), NEW x \in Readable, x.file = y.file
    PROVE  Atoms(x.file) = y.atoms /\ y.atoms \in Seq(GoodAtoms) /\ Said[x] = Each(Told, y.atoms) /\ Said[x] \in Seq(Nat)
<1>1. Atoms(x.file) = y.atoms /\ y \in FileRecords
  BY AtomsFacts
<1>2. PICK s \in Seq(GoodAtoms) : s = y.atoms
  BY <1>1 DEF FileRecords
<1>3. Each(Told, s) \in Seq(Nat)
  BY ToldLists, EachType
<1>4. QED
  BY <1>1, <1>2, <1>3 DEF Said

LEMMA QuietPages ==
    ASSUME Done, NEW x \in Readable, ~\E c \in 1..Len(chapters) : x = ChapterItem(c)
    PROVE  Atoms(x.file) \in Seq(GoodAtoms) /\ Said[x] = <<>>
<1>1. CASE Cover # -1 /\ x = Page("cover")
  <2>1. IsWritten(CoverPage) /\ CoverPage.file = File("cover", 0) /\ CoverPage.atoms \in Seq(Quiet)
    BY <1>1, SmallFiles DEF IsWritten, CoverPage
  <2>2. x.file = CoverPage.file
    BY <1>1, <2>1, PagesAre
  <2>3. Each(Told, CoverPage.atoms) = <<>>
    BY <2>1, QuietSeq
  <2>4. QED
    BY <2>1, <2>2, <2>3, PageReads
<1>2. CASE book.titled /\ x = Page("title")
  <2>1. IsWritten(TitlePage) /\ TitlePage.file = File("title", 0) /\ TitlePage.atoms \in Seq(Quiet)
    BY <1>2, SmallFiles DEF IsWritten, TitlePage
  <2>2. x.file = TitlePage.file
    BY <1>2, <2>1, PagesAre
  <2>3. Each(Told, TitlePage.atoms) = <<>>
    BY <2>1, QuietSeq
  <2>4. QED
    BY <2>1, <2>2, <2>3, PageReads
<1>3. CASE x = Page("toc")
  <2>1. IsWritten(TocFile) /\ TocFile.file = File("toc", 0) /\ TocFile.atoms \in Seq(Quiet)
    BY SmallFiles DEF IsWritten, TocFile
  <2>2. x.file = TocFile.file
    BY <1>3, <2>1, PagesAre
  <2>3. Each(Told, TocFile.atoms) = <<>>
    BY <2>1, QuietSeq
  <2>4. QED
    BY <2>1, <2>2, <2>3, PageReads
<1>4. CASE Notes # <<>> /\ x = Page("notes")
  <2>1. IsWritten(NotesFile) /\ NotesFile.file = File("notes", 0) /\ Each(Told, NotesFile.atoms) = <<>>
    BY <1>4, NotesFileFacts DEF IsWritten
  <2>2. x.file = NotesFile.file
    BY <1>4, <2>1, PagesAre
  <2>3. QED
    BY <2>1, <2>2, PageReads
<1>5. QED
  BY <1>1, <1>2, <1>3, <1>4 DEF Readable, IsRead

LEMMA ChapterPages ==
    ASSUME Done, NEW c \in 1..Len(chapters)
    PROVE  /\ ChapterItem(c) \in Readable /\ Atoms(ChapterItem(c).file) \in Seq(GoodAtoms)
           /\ Said[ChapterItem(c)] = Each(Kept, Part(chapters[c]))
<1>1. PICK x : x = ChapterItem(c)
  OBVIOUS
<1>2. c \in Int
  BY DoneFacts
<1>3. x \in Items /\ x.file = Chapter(c)
  BY <1>1, <1>2, ChapterItemFacts
<1>4. x \in Readable
  BY <1>1, <1>3 DEF Readable, IsRead
<1>5. PICK y : y = ChapterFile(c)
  OBVIOUS
<1>6. IsWritten(y) /\ y.file = Chapter(c)
  BY <1>5, ChapterIsWritten
<1>7. Each(Told, y.atoms) = Each(Kept, Part(chapters[c]))
  BY <1>5, ChapterFileFacts
<1>8. QED
  BY <1>1, <1>3, <1>4, <1>6, <1>7, PageReads

LEMMA ReadableAtoms ==
    ASSUME Done, NEW x \in Readable
    PROVE  Atoms(x.file) \in Seq(GoodAtoms) /\ Said[x] = Each(Told, Atoms(x.file)) /\ Said[x] \in Seq(Nat)
<1>1. Atoms(x.file) \in Seq(GoodAtoms)
  BY QuietPages, ChapterPages
<1>2. PICK s \in Seq(GoodAtoms) : s = Atoms(x.file)
  BY <1>1
<1>3. Each(Told, s) \in Seq(Nat)
  BY ToldLists, EachType
<1>4. QED
  BY <1>2, <1>3 DEF Said

LEMMA SaidLists == ASSUME Done PROVE Lists(Said, Readable, Nat)
  BY ReadableAtoms DEF Lists, Said

LEMMA SaidConcat ==
    ASSUME Done, NEW s \in Seq(Readable), NEW t \in Seq(Readable), NEW u, u = s \o t
    PROVE  u \in Seq(Readable) /\ Each(Said, u) = Each(Said, s) \o Each(Said, t)
<1>1. s \o t \in Seq(Readable)
  BY ConcatProperties
<1>2. Each(Said, s \o t) = Each(Said, s) \o Each(Said, t)
  BY SaidLists, EachConcat
<1>3. QED
  BY <1>1, <1>2

\* Page after page, what is read is what the pages say.
LEMMA ReadIsSaid ==
    ASSUME Done, NEW w \in Seq(Readable), w = ReadingOrder
    PROVE  ReadIn({"head", "body"}) = Each(Said, w)
<1>1. PICK n \in Nat : n = Len(w)
  BY LenProperties
<1>2. spine = [j \in 1..n |-> w[j].id]
  BY <1>1, DoneFacts DEF Rendering, Done
<1>3. PICK p : p = [j \in 1..n |-> Atoms(w[j].file)]
  OBVIOUS
<1>4. ASSUME NEW j \in 1..n
      PROVE  w[j] \in Readable /\ spine[j] = w[j].id /\ ItemOf(spine[j]) = w[j] /\ p[j] \in Seq(GoodAtoms)
  <2>1. PICK x \in Readable : x = w[j]
    BY <1>1, ElementOfSeq
  <2>2. IsItem(x)
    BY ReadIsItem DEF Readable
  <2>3. ItemOf(x.id) = x
    BY <2>2, ItemOfFacts
  <2>4. QED
    BY <1>2, <1>3, <2>1, <2>3, ReadableAtoms
<1>5. p \in [1..n -> Seq(GoodAtoms)]
  BY <1>3, <1>4
<1>6. p \in Seq(Seq(GoodAtoms)) /\ Len(p) = n
  BY <1>5, Listing1
<1>7. Len(spine) = n
  BY <1>2
<1>8. p = [j \in 1..Len(spine) |-> Atoms(ItemOf(spine[j]).file)]
  BY <1>3, <1>4, <1>7
<1>9. PICK all \in Seq(GoodAtoms) : all = FlattenSeq(p)
  BY <1>6, FlattenType
<1>10. PICK f : f = [j \in 1..Len(all) |->
                       When(all[j].type = "text" /\ all[j].file.kind \in {"head", "body"}, <<all[j].entry>>)]
  OBVIOUS
<1>11. ReadIn({"head", "body"}) = FlattenSeq(f)
  BY <1>8, <1>9, <1>10 DEF ReadIn
<1>12. f = Mapped(Told, all)
  <2>1. ASSUME NEW j \in 1..Len(all)
        PROVE  Told[all[j]] = When(all[j].type = "text" /\ all[j].file.kind \in {"head", "body"}, <<all[j].entry>>)
    BY ElementOfSeq DEF Told
  <2>2. QED
    BY <1>10, <2>1 DEF Mapped
<1>13. ReadIn({"head", "body"}) = Each(Told, all)
  BY <1>11, <1>12 DEF Each
<1>14. Each(Told, all) = FlattenSeq(Eaches(Told, p))
  BY <1>6, <1>9, ToldLists, EachFlatten
<1>15. Eaches(Told, p) = [j \in 1..n |-> Each(Told, p[j])]
  BY <1>6 DEF Eaches
<1>16. Mapped(Said, w) = [j \in 1..n |-> Said[w[j]]]
  BY <1>1 DEF Mapped
<1>17. ASSUME NEW j \in 1..n PROVE Said[w[j]] = Each(Told, p[j])
  BY <1>3, <1>4, ReadableAtoms
<1>18. Eaches(Told, p) = Mapped(Said, w)
  BY <1>15, <1>16, <1>17
<1>19. QED
  BY <1>13, <1>14, <1>18 DEF Each

\* The chapters say every entry that is read, in the order of the book.
LEMMA ChaptersSay ==
    ASSUME Done, NEW h, h = ChapterItems
    PROVE  /\ h \in Seq(Readable)
           /\ Each(Said, h) = InOrder({k \in 1..Len(book.body) : book.body[k].section \/ book.body[k].shown}, Len(book.body))
<1>1. PICK n \in Nat : n = Len(chapters)
  BY DoneFacts
<1>2. PICK N \in Nat : N = Len(book.body)
  BY DoneFacts
<1>3. h = [c \in 1..n |-> ChapterItem(c)]
  BY <1>1 DEF ChapterItems
<1>4. \A c \in 1..n : ChapterItem(c) \in Readable
  BY <1>1, ChapterPages
<1>5. h \in [1..n -> Readable]
  BY <1>3, <1>4
<1>6. h \in Seq(Readable) /\ Len(h) = n
  BY <1>5, Listing1
<1>7. PICK p : p = [c \in 1..n |-> Part(chapters[c])]
  OBVIOUS
<1>8. \A c \in 1..n : Part(chapters[c]) \in Seq(1..N)
  BY <1>1, <1>2, ChapterFacts
<1>9. p \in [1..n -> Seq(1..N)]
  BY <1>7, <1>8
<1>10. p \in Seq(Seq(1..N)) /\ Len(p) = n
  BY <1>9, Listing1
<1>11. Mapped(Said, h) = [c \in 1..n |-> Said[h[c]]]
  BY <1>6 DEF Mapped
<1>12. Eaches(Kept, p) = [c \in 1..n |-> Each(Kept, p[c])]
  BY <1>10 DEF Eaches
<1>13. ASSUME NEW c \in 1..n PROVE Said[h[c]] = Each(Kept, p[c])
  BY <1>1, <1>3, <1>7, ChapterPages
<1>14. Each(Said, h) = FlattenSeq(Eaches(Kept, p))
  BY <1>11, <1>12, <1>13 DEF Each
<1>15. Lists(Kept, 1..N, Nat)
  BY <1>2, KeptLists
<1>16. Each(Kept, FlattenSeq(p)) = FlattenSeq(Eaches(Kept, p))
  BY <1>10, <1>15, EachFlatten
<1>17. FlattenSeq(p) = UpTo(N)
  BY <1>1, <1>2, <1>7, DoneFacts DEF Rendering, Split, SplitOf
<1>18. PICK S : S = {k \in 1..N : book.body[k].section \/ book.body[k].shown}
  OBVIOUS
<1>19. PICK u : u = UpTo(N)
  OBVIOUS
<1>20. Len(u) = N /\ \A k \in 1..N : u[k] = k
  BY <1>19 DEF UpTo
<1>21. Mapped(Kept, u) = [k \in 1..N |-> Kept[k]]
  BY <1>20 DEF Mapped
<1>22. ASSUME NEW k \in 1..N PROVE Kept[k] = When(k \in S, <<k>>)
  <2>1. Kept[k] = When(book.body[k].section \/ book.body[k].shown, <<k>>)
    BY <1>2 DEF Kept
  <2>2. k \in S <=> book.body[k].section \/ book.body[k].shown
    BY <1>18
  <2>3. QED
    BY <2>1, <2>2 DEF When
<1>23. Mapped(Kept, u) = [k \in 1..N |-> When(k \in S, <<k>>)]
  BY <1>21, <1>22
<1>24. Each(Kept, u) = InOrder(S, N)
  BY <1>23 DEF Each, InOrder
<1>25. QED
  BY <1>2, <1>6, <1>14, <1>16, <1>17, <1>18, <1>19, <1>24

LEMMA ReadingHolds == ASSUME Done PROVE ReadOnce
<1>1. PICK w : w = ReadingOrder
  OBVIOUS
<1>2. PICK c, t, h, o, n : ReadParts(c, t, h, o, n)
  BY DEF ReadParts
<1>3. /\ w \in Seq(Items) /\ \A x : x \in Range(w) <=> IsRead(x)
      /\ w = (((c \o t) \o h) \o o) \o n
      /\ c \in Seq(Items) /\ t \in Seq(Items) /\ h \in Seq(Items) /\ o \in Seq(Items) /\ n \in Seq(Items)
      /\ \A x \in Range(c) : Cover # -1 /\ x = Page("cover")
      /\ \A x \in Range(t) : book.titled /\ x = Page("title")
      /\ \A x \in Range(o) : x = Page("toc")
      /\ \A x \in Range(n) : Notes # <<>> /\ x = Page("notes")
  <2>1. \A x : x \in Range(w) <=> IsRead(x)
    BY <1>1, <1>2, ReadingFacts
  <2>2. w \in Seq(Items) /\ w = (((c \o t) \o h) \o o) \o n
    BY <1>1, <1>2, ReadingFacts
  <2>3. c \in Seq(Items) /\ t \in Seq(Items) /\ h \in Seq(Items) /\ o \in Seq(Items) /\ n \in Seq(Items)
    BY <1>1, <1>2, ReadingFacts
  <2>4. \A x \in Range(c) : Cover # -1 /\ x = Page("cover")
    BY <1>1, <1>2, ReadingFacts
  <2>5. \A x \in Range(t) : book.titled /\ x = Page("title")
    BY <1>1, <1>2, ReadingFacts
  <2>6. \A x \in Range(o) : x = Page("toc")
    BY <1>1, <1>2, ReadingFacts
  <2>7. \A x \in Range(n) : Notes # <<>> /\ x = Page("notes")
    BY <1>1, <1>2, ReadingFacts
  <2>8. QED
    BY <2>1, <2>2, <2>3, <2>4, <2>5, <2>6, <2>7
<1>4. ASSUME NEW s \in Seq(Items), \A x \in Range(s) : IsRead(x) PROVE s \in Seq(Readable)
  <2>1. PICK m \in Nat : m = Len(s) /\ s \in [1..m -> Items]
    BY LenProperties
  <2>2. Range(s) = {s[i] : i \in 1..m}
    BY <2>1, RangeEquality
  <2>3. s \in [1..m -> Readable]
    BY <1>4, <2>1, <2>2 DEF Readable
  <2>4. QED
    BY <2>3, Listing1
<1>5. ASSUME NEW s \in Seq(Items), \A x \in Range(s) : IsRead(x) /\ ~\E d \in 1..Len(chapters) : x = ChapterItem(d)
      PROVE  s \in Seq(Readable) /\ Each(Said, s) = <<>>
  <2>1. s \in Seq(Readable)
    BY <1>4, <1>5
  <2>2. Range(s) = {s[i] : i \in 1..Len(s)}
    BY RangeEquality
  <2>3. \A x \in Range(s) : Said[x] = <<>>
    BY <1>5, <2>1, <2>2, ElementOfSeq, QuietPages
  <2>4. QED
    BY <2>1, <2>3, SaidLists, EachNone
<1>6. ASSUME NEW d PROVE ChapterItem(d).file.kind = "chapter"
  BY DEF ChapterItem, Listing, Chapter, File
<1>7. /\ Page("cover").file.kind = "cover" /\ Page("title").file.kind = "title" /\ Page("toc").file.kind = "toc"
      /\ Page("notes").file.kind = "notes"
  BY PagesAre DEF File
<1>8. "chapter" # "cover" /\ "chapter" # "title" /\ "chapter" # "toc" /\ "chapter" # "notes"
  OBVIOUS
<1>9. /\ c \in Seq(Readable) /\ Each(Said, c) = <<>> /\ t \in Seq(Readable) /\ Each(Said, t) = <<>>
      /\ o \in Seq(Readable) /\ Each(Said, o) = <<>> /\ n \in Seq(Readable) /\ Each(Said, n) = <<>>
  <2>1. \A x \in Range(c) : IsRead(x) /\ ~\E d \in 1..Len(chapters) : x = ChapterItem(d)
    BY <1>3, <1>6, <1>7, <1>8 DEF IsRead
  <2>2. \A x \in Range(t) : IsRead(x) /\ ~\E d \in 1..Len(chapters) : x = ChapterItem(d)
    BY <1>3, <1>6, <1>7, <1>8 DEF IsRead
  <2>3. \A x \in Range(o) : IsRead(x) /\ ~\E d \in 1..Len(chapters) : x = ChapterItem(d)
    BY <1>3, <1>6, <1>7, <1>8 DEF IsRead
  <2>4. \A x \in Range(n) : IsRead(x) /\ ~\E d \in 1..Len(chapters) : x = ChapterItem(d)
    BY <1>3, <1>6, <1>7, <1>8 DEF IsRead
  <2>5. QED
    BY <1>3, <1>5, <2>1, <2>2, <2>3, <2>4
<1>10. PICK told : told = InOrder({k \in 1..Len(book.body) : book.body[k].section \/ book.body[k].shown}, Len(book.body))
  OBVIOUS
<1>11. h \in Seq(Readable) /\ Each(Said, h) = told /\ told \in Seq(Nat)
  <2>1. h = ChapterItems
    BY <1>2 DEF ReadParts
  <2>2. h \in Seq(Readable) /\ Each(Said, h) = told
    BY <1>10, <2>1, ChaptersSay
  <2>3. Each(Said, h) \in Seq(Nat)
    BY <2>2, SaidLists, EachType
  <2>4. QED
    BY <2>2, <2>3
<1>12. PICK ct \in Seq(Readable) : ct = c \o t
  BY <1>9, SaidConcat
<1>13. Each(Said, ct) = <<>>
  <2>1. Each(Said, ct) = Each(Said, c) \o Each(Said, t)
    BY <1>9, <1>12, SaidConcat
  <2>2. <<>> \o <<>> = <<>>
    OBVIOUS
  <2>3. QED
    BY <1>9, <2>1, <2>2
<1>14. PICK cth \in Seq(Readable) : cth = ct \o h
  BY <1>11, <1>12, SaidConcat
<1>15. Each(Said, cth) = told
  <2>1. Each(Said, cth) = Each(Said, ct) \o Each(Said, h)
    BY <1>11, <1>12, <1>14, SaidConcat
  <2>2. <<>> \o told = told
    BY <1>11
  <2>3. QED
    BY <1>11, <1>13, <2>1, <2>2
<1>16. told \o <<>> = told
  BY <1>11
<1>17. o \in Seq(Readable) /\ n \in Seq(Readable)
  BY <1>9
<1>18. PICK ctho \in Seq(Readable) : ctho = cth \o o
  BY <1>9, <1>14, SaidConcat
<1>19. Each(Said, ctho) = told
  <2>1. Each(Said, ctho) = Each(Said, cth) \o Each(Said, o)
    BY <1>17, <1>14, <1>18, SaidConcat
  <2>2. QED
    BY <1>9, <1>15, <1>16, <2>1
<1>20. PICK all \in Seq(Readable) : all = ctho \o n
  BY <1>9, <1>18, SaidConcat
<1>21. Each(Said, all) = told
  <2>1. Each(Said, all) = Each(Said, ctho) \o Each(Said, n)
    BY <1>17, <1>18, <1>20, SaidConcat
  <2>2. QED
    BY <1>9, <1>16, <1>19, <2>1
<1>22. all = ReadingOrder
  BY <1>1, <1>3, <1>12, <1>14, <1>18, <1>20
<1>23. ReadIn({"head", "body"}) = told
  BY <1>21, <1>22, ReadIsSaid
<1>24. QED
  BY <1>10, <1>23 DEF ReadOnce

\* Whatever the document, the package the converter makes of it can be read from the
\* first page to the last and by its links: chapters, rendering and package document
\* together do not lose a heading, a paragraph, an anchor or a picture.
THEOREM EpubSafety == EpubSpec => []EpubFaithful
<1>1. EpubInv => EpubFaithful
  <2>1. CASE stage = "done"
    <3>1. SUFFICES ASSUME EpubInv PROVE EpubFaithful
      OBVIOUS
    <3>2. Done
      BY <2>1, <3>1 DEF Done
    <3>3. QED
      BY <3>2, ReadingHolds, LinksHold, PicturesHold, PackageHolds DEF EpubFaithful
  <2>2. CASE stage # "done"
    BY <2>2 DEF EpubFaithful, ReadOnce, LinksLand, PicturesPacked, PackageComplete
  <2>3. QED
    BY <2>1, <2>2
<1>2. QED
  BY <1>1, EpubInvariant, PTL
=============================================================================
