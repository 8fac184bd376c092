-------------------------- MODULE ConvertedFiles ---------------------------
(***************************************************************************)
(* The converted books: conversions to MOBI and EPUB (api/websocket.go,    *)
(* utils/books.go), their downloads (api/websocket.go, api/unarchive.go)   *)
(* and the sweep of old files (tasks/watcher.go).                          *)
(*                                                                         *)
(* A MOBI file is named after its book, whoever asked.  What is in a file  *)
(* is the set of its blocks, so a file that is truncated under a writer    *)
(* has holes.  A file keeps its contents for those who have it open after  *)
(* its name is gone.  The conversion itself works on files of its own and  *)
(* is one step.  When a client asks, and how it learns of the result, is   *)
(* in Connections.                                                         *)
(***************************************************************************)
EXTENDS Integers

CONSTANTS
    Books,
    Convs,     \* conversions; a file has the name of the one that created it
    Loads,     \* downloads in progress at one time
    Size,      \* blocks of a converted file
    NoFile, NoBook

Blocks == 1..Size

ASSUME ConvertedFilesAssumption ==
    Size \in Nat \ {0} /\ NoFile \notin Convs /\ NoBook \notin Books

VARIABLES
    conv,      \* conv[v]: a conversion, [at, book, format, file, pos]
    dir,       \* dir[b]: the file under the name of the book's MOBI
    data,      \* data[f]: the blocks written to file f since it was truncated
    old,       \* the files not written to for an hour
    epub,      \* epubStore[b]: the conversion that stored it
    load,      \* load[d]: a download, [at, book, file, size, pos, whole]
    sweeping,  \* the book whose file the sweep is about to remove
    \* What only the properties read:
    spoilt,    \* files a conversion gave up writing
    shared,    \* downloads whose file was written to meanwhile, or spoilt
    calm       \* conversions whose result nobody has asked for or let grow old

fileVars == <<dir, data, old, epub>>
noteVars == <<spoilt, shared, calm>>
vars     == <<conv, fileVars, load, sweeping, noteVars>>

Conv(at, b, format, f, pos) ==
    [at |-> at, book |-> b, format |-> format, file |-> f, pos |-> pos]
Load(at, b, f, size, pos, whole) ==
    [at |-> at, book |-> b, file |-> f, size |-> size, pos |-> pos, whole |-> whole]

NoLoad == Load("idle", NoBook, NoFile, 0, 0, FALSE)
Unused == Conv("idle", NoBook, "none", NoFile, 0)

TypeOK ==
    /\ conv \in [Convs -> [at : {"idle", "convert", "create", "copy", "done", "failed"},
                           book : Books \cup {NoBook}, format : {"none", "mobi", "epub"},
                           file : Convs \cup {NoFile}, pos : 0..Size]]
    /\ dir \in [Books -> Convs \cup {NoFile}]
    /\ data \in [Convs -> SUBSET Blocks]
    /\ old \subseteq Convs
    /\ epub \in [Books -> Convs \cup {NoFile}]
    /\ load \in [Loads -> [at : {"idle", "open", "body", "remove", "serve"},
                           book : Books \cup {NoBook}, file : Convs \cup {NoFile},
                           size : 0..Size, pos : 0..Size, whole : BOOLEAN]]
    /\ sweeping \in Books \cup {NoBook}
    /\ spoilt \subseteq Convs /\ shared \subseteq Loads /\ calm \subseteq Convs

Init ==
    /\ conv = [v \in Convs |-> Unused]
    /\ dir = [b \in Books |-> NoFile] /\ data = [f \in Convs |-> {}]
    /\ old = {} /\ epub = [b \in Books |-> NoFile]
    /\ load = [d \in Loads |-> NoLoad] /\ sweeping = NoBook
    /\ spoilt = {} /\ shared = {} /\ calm = {}

------------------------------------------------------------------------------
(* Conversions.                                                            *)

At(v, place)   == conv' = [conv EXCEPT ![v].at = place]
Asking(b, f)   == {d \in Loads : load[d].book = b /\ load[d].at \in f}
Mobi           == {"open", "body", "remove"}
Epub           == {"serve"}
Writing(f)     == {v \in Convs : conv[v].at = "copy" /\ conv[v].file = f}

\* handleConversionRequest.
Request(v, b, format) ==
    /\ conv[v].at = "idle"
    /\ conv' = [conv EXCEPT ![v] = Conv("convert", b, format, NoFile, 0)]
    /\ UNCHANGED <<fileVars, load, sweeping, noteVars>>

\* The book, its archive or its text is not there or not right, or kindlegen
\* is missing or fails.
ConvertFails(v) ==
    /\ conv[v].at = "convert" /\ At(v, "failed")
    /\ UNCHANGED <<fileVars, load, sweeping, noteVars>>

\* Mobi, through temporary files that are removed on every return.
ConvertMobi(v) ==
    /\ conv[v].at = "convert" /\ conv[v].format = "mobi"
    /\ At(v, "create")
    /\ UNCHANGED <<fileVars, load, sweeping, noteVars>>

\* ConvertBookToEpub, which replaces what an earlier conversion has stored.
ConvertEpub(v) ==
    /\ conv[v].at = "convert" /\ conv[v].format = "epub"
    /\ At(v, "done")
    /\ epub' = [epub EXCEPT ![conv[v].book] = v]
    /\ calm' = IF Asking(conv[v].book, Epub) = {} THEN calm \cup {v} ELSE calm
    /\ UNCHANGED <<dir, data, old, load, sweeping, spoilt, shared>>

\* os.Create: the file that has the name is truncated, or there is a new one.
Create(v) ==
    LET b == conv[v].book
        f == IF dir[b] = NoFile THEN v ELSE dir[b]
    IN
    /\ conv[v].at = "create"
    /\ conv' = [conv EXCEPT ![v] = Conv("copy", b, "mobi", f, 0)]
    /\ dir' = [dir EXCEPT ![b] = f]
    /\ data' = [data EXCEPT ![f] = {}]
    /\ old' = old \ {f} /\ spoilt' = spoilt \ {f}
    /\ shared' = shared \cup {d \in Loads : load[d].at = "body" /\ load[d].file = f}
    /\ calm' = IF Asking(b, Mobi) = {} /\ sweeping # b THEN calm \cup {v} ELSE calm
    /\ UNCHANGED <<epub, load, sweeping>>

CreateFails(v) ==
    /\ conv[v].at = "create" /\ At(v, "failed")
    /\ UNCHANGED <<fileVars, load, sweeping, noteVars>>

\* Mutant: the result is announced before the last block is written.
CopyShort(v) ==
    /\ conv[v].at = "copy"
    /\ IF conv[v].pos < Size - 1
       THEN /\ data' = [data EXCEPT ![conv[v].file] = @ \cup {conv[v].pos + 1}]
            /\ old' = old \ {conv[v].file}
            /\ conv' = [conv EXCEPT ![v].pos = @ + 1]
       ELSE At(v, "done") /\ UNCHANGED <<data, old>>
    /\ UNCHANGED <<dir, epub, load, sweeping, noteVars>>

\* io.Copy, block by block from where this conversion is.
Copy(v) ==
    /\ conv[v].at = "copy"
    /\ IF conv[v].pos < Size
       THEN /\ data' = [data EXCEPT ![conv[v].file] = @ \cup {conv[v].pos + 1}]
            /\ old' = old \ {conv[v].file}
            /\ conv' = [conv EXCEPT ![v].pos = @ + 1]
       ELSE At(v, "done") /\ UNCHANGED <<data, old>>
    /\ UNCHANGED <<dir, epub, load, sweeping, noteVars>>

\* What was written stays under the name.
CopyFails(v) ==
    /\ conv[v].at = "copy" /\ At(v, "failed")
    /\ spoilt' = spoilt \cup {conv[v].file}
    /\ UNCHANGED <<fileVars, load, sweeping, shared, calm>>

------------------------------------------------------------------------------
(* Downloads and the sweep.                                                *)

Calm(b, formats) == calm \ {v \in Convs : conv[v].book = b /\ conv[v].format \in formats}

\* DownloadConvertedBook: the name is looked up, then (GetBook in between) the
\* file opened, sent with the size it has then, and removed by its name.
Ask(d, b) ==
    /\ load[d].at = "idle" /\ dir[b] # NoFile
    /\ load' = [load EXCEPT ![d] = Load("open", b, NoFile, 0, 0, FALSE)]
    /\ calm' = Calm(b, {"mobi"})
    /\ UNCHANGED <<conv, fileVars, sweeping, spoilt, shared>>

\* The size of a file, as the number of its last block: a set, of one.
SizeOf(f) == {n \in data[f] \cup {0} : \A m \in data[f] : m <= n}

Open(d) ==
    LET b == load[d].book
        f == dir[b]
    IN
    /\ load[d].at = "open"
    /\ \/ f = NoFile /\ load' = [load EXCEPT ![d] = Load("remove", b, NoFile, 0, 0, FALSE)]
          /\ UNCHANGED shared
       \/ f # NoFile
          /\ \E n \in SizeOf(f) : load' = [load EXCEPT ![d] = Load("body", b, f, n, 0, n = Size)]
          /\ shared' = IF Writing(f) # {} \/ f \in spoilt THEN shared \cup {d} ELSE shared
    /\ UNCHANGED <<conv, fileVars, sweeping, spoilt, calm>>

NoBookRow(d) ==
    /\ load[d].at = "open"
    /\ load' = [load EXCEPT ![d] = NoLoad]
    /\ UNCHANGED <<conv, fileVars, sweeping, noteVars>>

SendBlock(d) ==
    LET l == load[d] IN
    /\ l.at = "body" /\ l.pos < l.size
    /\ load' = [load EXCEPT ![d] = Load("body", l.book, l.file, l.size, l.pos + 1,
                                        l.whole /\ l.pos + 1 \in data[l.file])]
    /\ UNCHANGED <<conv, fileVars, sweeping, noteVars>>

\* c.File returns: at the end of the file, or of the client.
Sent(d) ==
    LET l == load[d] IN
    /\ l.at = "body"
    /\ load' = [load EXCEPT ![d] = Load("remove", l.book, NoFile, l.size, l.pos, l.whole)]
    /\ UNCHANGED <<conv, fileVars, sweeping, noteVars>>

\* The goroutine that deletes the file; os.Remove may fail.
DeleteFile(d) ==
    /\ load[d].at = "remove"
    /\ dir' = [dir EXCEPT ![load[d].book] = NoFile] \/ UNCHANGED dir
    /\ load' = [load EXCEPT ![d] = NoLoad] /\ shared' = shared \ {d}
    /\ UNCHANGED <<conv, data, old, epub, sweeping, spoilt, calm>>

\* DownloadConvertedEpub: what is stored is served, then deleted by its key.
AskEpub(d, b) ==
    /\ load[d].at = "idle" /\ epub[b] # NoFile
    /\ load' = [load EXCEPT ![d] = Load("serve", b, NoFile, 0, 0, FALSE)]
    /\ calm' = Calm(b, {"epub"})
    /\ UNCHANGED <<conv, fileVars, sweeping, spoilt, shared>>

DropEpub(d) ==
    /\ load[d].at = "serve"
    /\ epub' = [epub EXCEPT ![load[d].book] = NoFile]
    /\ load' = [load EXCEPT ![d] = NoLoad]
    /\ UNCHANGED <<conv, dir, data, old, sweeping, noteVars>>

\* An hour without a write; nothing takes an hour to write its next block.
Age(b) ==
    /\ dir[b] # NoFile /\ dir[b] \notin old /\ Writing(dir[b]) = {}
    /\ old' = old \cup {dir[b]}
    /\ calm' = Calm(b, {"mobi"})
    /\ UNCHANGED <<conv, dir, data, epub, load, sweeping, spoilt, shared>>

\* Mutant: the sweep takes every file.
SweepAny(b) ==
    /\ sweeping = NoBook /\ dir[b] # NoFile
    /\ sweeping' = b
    /\ UNCHANGED <<conv, fileVars, load, noteVars>>

\* sweep: the age of a file is looked at, then what has the name is removed.
SweepSees(b) ==
    /\ sweeping = NoBook /\ dir[b] # NoFile /\ dir[b] \in old
    /\ sweeping' = b
    /\ UNCHANGED <<conv, fileVars, load, noteVars>>

SweepRemoves ==
    /\ sweeping # NoBook
    /\ dir' = [dir EXCEPT ![sweeping] = NoFile] \/ UNCHANGED dir
    /\ sweeping' = NoBook
    /\ UNCHANGED <<conv, data, old, epub, load, noteVars>>

Next ==
    \/ \E v \in Convs :
        \/ \E b \in Books, f \in {"mobi", "epub"} : Request(v, b, f)
        \/ ConvertFails(v) \/ ConvertMobi(v) \/ ConvertEpub(v)
        \/ Create(v) \/ CreateFails(v) \/ Copy(v) \/ CopyFails(v)
    \/ \E d \in Loads :
        \/ \E b \in Books : Ask(d, b) \/ AskEpub(d, b)
        \/ Open(d) \/ NoBookRow(d) \/ SendBlock(d) \/ Sent(d) \/ DeleteFile(d) \/ DropEpub(d)
    \/ \E b \in Books : Age(b) \/ SweepSees(b)
    \/ SweepRemoves

Spec == Init /\ [][Next]_vars

------------------------------------------------------------------------------
(* Properties.                                                             *)

\* Positions stay within the file, and a download that went through its file to
\* the end sent the whole book, unless a conversion wrote to the file meanwhile
\* or had given up writing it.
WholeDownload ==
    /\ TypeOK
    /\ \A d \in Loads : load[d].at = "remove" /\ load[d].pos = load[d].size /\ load[d].size > 0
                        /\ d \notin shared => load[d].whole

\* The result of a conversion is there from its storing or creation on, until
\* a download asks for it or an hour has passed, if no earlier download or
\* sweep was under way then: nothing else removes it, or truncates it for good.
ReadyIsThere ==
    \A v \in calm :
        LET b == conv[v].book
            f == dir[b]
        IN  IF conv[v].format = "epub" THEN epub[b] # NoFile
            ELSE f # NoFile /\ (Writing(f) = {} /\ f \notin spoilt => data[f] = Blocks)

==============================================================================
