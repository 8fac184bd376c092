--------------------------- MODULE CatalogueProofs ---------------------------
(***************************************************************************)
(* Theorems about Catalogue for any contents, archives, files, older rows  *)
(* and number of HideDuplicates requests.                                  *)
(***************************************************************************)
EXTENDS Catalogue, FiniteSetTheorems, TLAPS

\* Rows: IDs are never given out twice, so what a request remembers of a row
\* stays true of it, and a row not there has no flags left.
Rows ==
    /\ \A b \in 1..last : what[b] \in In(Files[home[b]])
    /\ \A b \in Ids \ here : of[b] = NULL
    /\ \A b \in hidden : b \in hashed \/ what[b] \in lost

\* A group in hand: the winner is the newest of copies of one content.
Grouped(r) ==
    /\ r.winner \in 1..last
    /\ r.winner \in here => r.winner \in hashed
    /\ \A b \in r.ids : /\ b \in 1..last /\ b < r.winner
                        /\ what[b] = what[r.winner]
                        /\ b \in here => b \in hashed

Groups == \A h \in Hiders : hide[h].at = "hide" => Grouped(hide[h])

\* The scan has seen to the files before the one it is at.
Seen ==
    scan.at # "idle" =>
        /\ scan.n <= Len(Files[scan.a]) + 1
        /\ scan.at = "insert" => scan.n <= Len(Files[scan.a])
        /\ \A i \in 1..(scan.n - 1) :
              Files[scan.a][i] \in doubt \/ Copies(Files[scan.a][i]) # {}

\* A request nobody interfered with: whatever is neither still on its list nor
\* in its hand has its older copies hidden, and of the group in hand the newest
\* wins while the rest are hidden or to be hidden.
Behind(c) == \A b, v \in Copies(c) : b < v => b \in hidden
Clearing(r) ==
    /\ \A c \in Contents \ r.hashes : (r.at = "hide" => what[r.winner] # c) => Behind(c)
    /\ r.at = "hide" =>
          /\ r.winner \in here /\ r.ids \subseteq here
          /\ \A b \in Copies(what[r.winner]) : b <= r.winner
          /\ \A b \in Copies(what[r.winner]) : b # r.winner => b \in hidden \cup r.ids
Clears == \A h \in calm : Clearing(hide[h])

IInv == TypeOK /\ Rows /\ Groups /\ Seen /\ Clears
        /\ HiddenHasNewer /\ KeeperIsNewer /\ ScannedIsCovered

------------------------------------------------------------------------------
(* Values.                                                                 *)

ScanType  == [at : {"idle", "file", "insert"}, a : Archives, n : Nat \ {0}]
HideType  == [at : {"idle", "group", "hide"}, hashes : SUBSET Contents,
              ids : SUBSET Ids, winner : 0..MaxId]
ResetType == [at : {"idle", "mark", "failed"}, a : Archives]

LEMMA Constants ==
    /\ AnyArchive \in Archives
    /\ NoScan \in ScanType /\ NoHide \in HideType /\ NoReset \in ResetType
    /\ MaxId \in Nat /\ NULL = 0
    /\ \A a \in Archives : Files[a] \in Seq(Contents)
BY CatalogueAssumption DEF CatalogueAssumption, AnyArchive, NoScan, NoHide, NoReset,
   Scan, Hide, Reset, ScanType, HideType, ResetType, Ids, NULL

LEMMA ElementOf ==
    ASSUME NEW S, NEW s \in Seq(S)
    PROVE  Len(s) \in Nat /\ \A i \in 1..Len(s) : s[i] \in S
OBVIOUS

LEMMA LegacyRows ==
    /\ Len(Legacy) \in Nat /\ Len(Legacy) <= MaxId
    /\ \A b \in 1..Len(Legacy) : /\ Legacy[b].what \in Contents
                                 /\ Legacy[b].home \in Archives
                                 /\ Legacy[b].what \in In(Files[Legacy[b].home])
<1>1. Legacy \in Seq([what : Contents, home : Archives])
  BY CatalogueAssumption DEF CatalogueAssumption
<1>2. Len(Legacy) <= MaxId
      /\ \A b \in 1..Len(Legacy) : Legacy[b].what \in In(Files[Legacy[b].home])
  BY CatalogueAssumption DEF CatalogueAssumption
<1>3. Len(Legacy) \in Nat
      /\ \A b \in 1..Len(Legacy) : Legacy[b] \in [what : Contents, home : Archives]
  BY <1>1, ElementOf
<1>4. QED
  BY <1>2, <1>3

LEMMA InContents ==
    \A a \in Archives : /\ Len(Files[a]) \in Nat
                        /\ In(Files[a]) \subseteq Contents
                        /\ \A i \in 1..Len(Files[a]) : /\ Files[a][i] \in In(Files[a])
                                                       /\ Files[a][i] \in Contents
BY Constants DEF In

------------------------------------------------------------------------------
(* The initial state.                                                      *)

LEMMA InitTypes == Init => TypeOK
<1> SUFFICES ASSUME Init PROVE TypeOK
  OBVIOUS
<1> USE Constants
<1>1. /\ Len(Legacy) \in Nat /\ Len(Legacy) <= MaxId
      /\ \A b \in 1..Len(Legacy) : Legacy[b].what \in Contents /\ Legacy[b].home \in Archives
  BY LegacyRows
<1>2. last \in 0..MaxId /\ here \subseteq 1..last
  BY <1>1 DEF Init
<1>3. what \in [Ids -> Contents] /\ home \in [Ids -> Archives]
  BY <1>1, CatalogueAssumption DEF Init, CatalogueAssumption, Ids
<1>4. of \in [Ids -> 0..MaxId] /\ hide \in [Hiders -> HideType]
  BY DEF Init
<1>5. QED
  BY <1>2, <1>3, <1>4 DEF Init, TypeOK, HideType, ScanType, ResetType

LEMMA InitInv == Init => IInv
<1> SUFFICES ASSUME Init PROVE IInv
  OBVIOUS
<1> USE Constants
<1>1. TypeOK
  BY InitTypes
<1>2. Rows
  <2>1. Len(Legacy) \in Nat /\ Len(Legacy) <= MaxId
        /\ \A b \in 1..Len(Legacy) : Legacy[b].what \in In(Files[Legacy[b].home])
    BY LegacyRows
  <2>2. \A b \in 1..last : what[b] = Legacy[b].what /\ home[b] = Legacy[b].home
    BY <2>1 DEF Init, Ids
  <2>3. QED
    BY <2>1, <2>2 DEF Init, Rows
<1>3. Groups /\ Seen
  BY DEF Init, Groups, Seen, NoHide, Hide, NoScan, Scan
<1>4. HiddenHasNewer /\ ScannedIsCovered
  BY DEF Init, HiddenHasNewer, ScannedIsCovered
<1>5. KeeperIsNewer
  BY <1>1 DEF Init, TypeOK, KeeperIsNewer, Ids
<1>6. Clears
  BY DEF Init, Clears
<1>7. QED
  BY <1>1, <1>2, <1>3, <1>4, <1>5, <1>6 DEF IInv

------------------------------------------------------------------------------
(* Types.                                                                  *)

LEMMA ScanTypes ==
    ASSUME TypeOK,
           \/ \E a \in Archives : scan' = Scan("file", a, 1)
           \/ NextFile \/ ToInsert
           \/ scan' = NoScan \/ UNCHANGED scan
    PROVE  scan' \in ScanType
BY Constants DEF TypeOK, ScanType, Scan, NextFile, ToInsert

LEMMA HideTypes ==
    ASSUME TypeOK, NEW h \in Hiders, NEW r \in HideType,
           hide' = [hide EXCEPT ![h] = r]
    PROVE  /\ hide' \in [Hiders -> HideType]
           /\ hide'[h] = r
           /\ \A g \in Hiders \ {h} : hide'[g] = hide[g]
BY DEF TypeOK, HideType

LEMMA CopiesType ==
    ASSUME TypeOK, NEW c
    PROVE  Copies(c) \in SUBSET Ids /\ Copies(c) \subseteq here
<1>1. here \subseteq Ids
  BY Constants DEF TypeOK, Ids
<1>2. QED
  BY <1>1 DEF Copies

\* Each step of a request, as one assignment.
LEMMA GroupTypes ==
    ASSUME TypeOK, NEW h \in Hiders, NEW c, NEW ids \in SUBSET Ids, NEW w \in 0..MaxId,
           hide[h].at = "group", Group(h, c, ids, w)
    PROVE  \E r \in HideType :
              /\ hide' = [hide EXCEPT ![h] = r]
              /\ r.at = "hide" => ids # {} /\ r.ids = ids /\ r.winner = w
<1> DEFINE r == Hide(IF ids = {} THEN "group" ELSE "hide", hide[h].hashes \ {c}, ids, w)
<1>1. hide[h] \in HideType
  BY DEF TypeOK, HideType
<1>2. r \in HideType /\ (r.at = "hide" => ids # {}) /\ r.ids = ids /\ r.winner = w
  BY <1>1 DEF Hide, HideType
<1>3. QED
  BY <1>2 DEF Group

LEMMA HandledTypes ==
    ASSUME TypeOK, NEW h \in Hiders, NEW b, hide[h].at = "hide", Handled(h, b)
    PROVE  \E r \in HideType :
              /\ hide' = [hide EXCEPT ![h] = r]
              /\ r.ids = hide[h].ids \ {b} /\ r.winner = hide[h].winner
<1> DEFINE r == Hide("hide", hide[h].hashes, hide[h].ids \ {b}, hide[h].winner)
<1>1. hide[h] \in HideType
  BY DEF TypeOK, HideType
<1>2. r \in HideType /\ r.ids = hide[h].ids \ {b} /\ r.winner = hide[h].winner
  BY <1>1 DEF Hide, HideType
<1>3. hide' = [hide EXCEPT ![h] = r]
  BY DEF Handled
<1>4. QED
  BY <1>2, <1>3

\* What a step of a HideDuplicates request does to the requests: it keeps all
\* others, and takes a group or goes on with its own.
HideMoves(h) ==
    \E r \in HideType :
        /\ hide' = [hide EXCEPT ![h] = r]
        /\ \/ r.at # "hide"
           \/ \E c \in Contents :
                 /\ r.winner \in Copies(c) /\ r.ids \subseteq Copies(c) \ {r.winner}
                 /\ \A b \in Copies(c) : b <= r.winner
           \/ /\ hide[h].at = "hide" /\ r.winner = hide[h].winner
              /\ r.ids \subseteq hide[h].ids

LEMMA Moves ==
    ASSUME TypeOK, NEW h \in Hiders, StartHide(h) \/ HideStep(h)
    PROVE  HideMoves(h)
<1> USE Constants
<1>0. hide[h] \in HideType
  BY DEF TypeOK, HideType
<1>1. CASE StartHide(h)
  <2> DEFINE r == Hide("group", {c \in Contents : Cardinality(Copies(c)) > 1}, {}, NULL)
  <2>1. r \in HideType /\ r.at # "hide"
    BY DEF Hide, HideType
  <2>2. hide' = [hide EXCEPT ![h] = r]
    BY <1>1 DEF StartHide
  <2>3. QED
    BY <2>1, <2>2 DEF HideMoves
<1>2. ASSUME NEW c \in Contents, PickGroup(h, c) PROVE HideMoves(h)
  <2>1. CASE Group(h, c, {}, NULL)
    <3>1. hide[h].at = "group"
      BY <1>2 DEF PickGroup
    <3>2. PICK r \in HideType : hide' = [hide EXCEPT ![h] = r] /\ r.at # "hide"
      BY <2>1, <3>1, GroupTypes
    <3>3. QED
      BY <3>2 DEF HideMoves
  <2>2. ASSUME NEW w \in Copies(c), \A b \in Copies(c) : b <= w,
               Group(h, c, Copies(c) \ {w}, w)
        PROVE  HideMoves(h)
    <3>1. w \in 0..MaxId /\ Copies(c) \ {w} \in SUBSET Ids /\ hide[h].at = "group"
      BY <1>2, CopiesType DEF Ids, PickGroup
    <3>2. PICK r \in HideType :
              /\ hide' = [hide EXCEPT ![h] = r]
              /\ r.at = "hide" => Copies(c) \ {w} # {} /\ r.ids = Copies(c) \ {w} /\ r.winner = w
      BY <2>2, <3>1, GroupTypes
    <3>3. r.at = "hide" => /\ r.winner \in Copies(c) /\ r.ids \subseteq Copies(c) \ {r.winner}
                           /\ \A b \in Copies(c) : b <= r.winner
      BY <2>2, <3>2
    <3>4. QED
      BY <3>2, <3>3 DEF HideMoves
  <2>3. QED
    BY <1>2, <2>1, <2>2 DEF PickGroup
<1>3. ASSUME NEW c \in Contents, PickFails(h, c) PROVE HideMoves(h)
  <2>1. PICK r \in HideType : hide' = [hide EXCEPT ![h] = r] /\ r.at # "hide"
    BY <1>3, GroupTypes DEF PickFails
  <2>2. QED
    BY <2>1 DEF HideMoves
<1>4. ASSUME NEW b \in Ids, HideCopy(h, b) \/ HideFails(h, b) PROVE HideMoves(h)
  BY <1>4, HandledTypes DEF HideCopy, HideFails, HideMoves
<1>5. CASE GroupDone(h)
  <2> DEFINE r == Hide("group", hide[h].hashes, {}, NULL)
  <2>1. r \in HideType /\ r.at # "hide" /\ hide' = [hide EXCEPT ![h] = r]
    BY <1>0, <1>5 DEF Hide, HideType, GroupDone
  <2>2. QED
    BY <2>1 DEF HideMoves
<1>6. CASE HideReturns(h)
  BY <1>6 DEF HideReturns, HideMoves, NoHide, Hide
<1>7. QED
  BY <1>1, <1>2, <1>3, <1>4, <1>5, <1>6 DEF HideStep


\* Which rows and requests a step touches.
LEMMA TypesInv == TypeOK /\ Seen /\ [Next]_vars => TypeOK'
<1> SUFFICES ASSUME TypeOK, Seen, [Next]_vars PROVE TypeOK'
  OBVIOUS
<1> USE Constants
<1>a. /\ here \subseteq 1..last /\ last \in 0..MaxId /\ here \subseteq Ids
      /\ hashed \subseteq here /\ hidden \subseteq here /\ linked \subseteq here
      /\ scan \in ScanType /\ hide \in [Hiders -> HideType] /\ reset \in ResetType
  BY DEF TypeOK, Ids, ScanType, HideType, ResetType
<1>b. scan.at # "idle" /\ scan.n <= Len(Files[scan.a]) => Content \in Contents
  BY <1>a, InContents DEF ScanType, Content
<1>1. ASSUME NEW a \in Archives, OpenArchive(a) PROVE TypeOK'
  BY <1>1, ScanTypes DEF OpenArchive, TypeOK, rowVars, noteVars, ScanType
<1>2. ASSUME NEW a \in Archives, DeleteBooks(a) PROVE TypeOK'
  <2> DEFINE gone == {b \in here : home[b] = a}
  <2>1. reset' \in ResetType
    BY <1>2 DEF DeleteBooks, Reset, ResetType
  <2>2. CASE gone \cap linked = {} /\ Remove(gone)
    <3>1. of' \in [Ids -> 0..MaxId]
      BY <2>2 DEF Remove, TypeOK
    <3>2. lost' \subseteq Contents /\ doubt' \subseteq Contents
      BY <1>a, <2>2 DEF Remove, TypeOK
    <3>3. /\ here' \subseteq 1..last /\ hashed' \subseteq here' /\ hidden' \subseteq here'
          /\ linked' \subseteq here'
      BY <1>a, <2>2 DEF Remove
    <3>4. QED
      BY <1>2, <2>1, <2>2, <3>1, <3>2, <3>3 DEF DeleteBooks, Remove, TypeOK, ResetType
  <2>3. CASE UNCHANGED <<rowVars, lost, doubt>>
    BY <1>2, <2>1, <2>3 DEF DeleteBooks, TypeOK, rowVars, ResetType
  <2>4. QED
    BY <1>2, <2>2, <2>3 DEF DeleteBooks
<1>3. ASSUME NEW a \in Archives, ResetOnly(a) PROVE TypeOK'
  BY <1>3 DEF ResetOnly, Reset, TypeOK, rowVars, noteVars
<1>4. CASE CheckDuplicate \/ CheckFails
  BY <1>4, ScanTypes DEF CheckDuplicate, CheckFails, TypeOK, rowVars, noteVars, ScanType
<1>5. CASE InsertBook
  <2>1. scan' \in ScanType
    BY <1>5, ScanTypes DEF InsertBook
  <2>2. last + 1 \in Ids /\ last + 1 \in 0..MaxId /\ Content \in Contents /\ scan.a \in Archives
    BY <1>5, <1>a, <1>b DEF InsertBook, Seen, Ids, ScanType
  <2>3. /\ what' \in [Ids -> Contents] /\ home' \in [Ids -> Archives]
        /\ here' \subseteq 1..last'
        /\ hashed' \subseteq here' /\ hidden' \subseteq here' /\ linked' \subseteq here'
    BY <1>5, <1>a, <2>2 DEF InsertBook, TypeOK
  <2>4. QED
    BY <1>5, <2>1, <2>2, <2>3 DEF InsertBook, TypeOK, ScanType
<1>6. CASE FileFails
  <2>1. scan' \in ScanType
    BY <1>6, ScanTypes DEF FileFails
  <2>2. doubt' \subseteq Contents
    BY <1>6, <1>b DEF FileFails, HasFile, Seen, TypeOK
  <2>3. QED
    BY <1>6, <2>1, <2>2 DEF FileFails, TypeOK, rowVars, ScanType
<1>7. CASE CloseArchive
  <2>1. scan' \in ScanType /\ scanned' \subseteq Archives
    BY <1>7, <1>a, ScanTypes DEF CloseArchive, TypeOK, ScanType
  <2>2. QED
    BY <1>7, <2>1 DEF CloseArchive, TypeOK, rowVars, noteVars, ScanType
<1>8. ASSUME NEW b \in Ids, StoreHash(b) \/ FixTags(b) PROVE TypeOK'
  <2>1. CASE StoreHash(b)
    <3>1. hashed' \subseteq here' /\ hidden' \subseteq here' /\ linked' \subseteq here'
      BY <1>a, <2>1 DEF StoreHash
    <3>2. QED
      BY <2>1, <3>1 DEF StoreHash, TypeOK
  <2>2. CASE FixTags(b)
    <3>1. hashed' \subseteq here' /\ hidden' \subseteq here' /\ linked' \subseteq here'
      BY <1>a, <2>2 DEF FixTags
    <3>2. QED
      BY <2>2, <3>1 DEF FixTags, TypeOK, noteVars
  <2>3. QED
    BY <1>8, <2>1, <2>2
<1>9. ASSUME NEW b \in Ids, UpdateBook(b) PROVE TypeOK'
  <2>1. PICK flag \in BOOLEAN, k \in here \cup {of[b]} :
           /\ hidden' = IF flag THEN hidden \cup {b} ELSE hidden \ {b}
           /\ of' = [of EXCEPT ![b] = k]
    BY <1>9 DEF UpdateBook
  <2>2. k \in 0..MaxId
    BY <1>a DEF TypeOK, Ids
  <2>3. hidden' \subseteq here /\ of' \in [Ids -> 0..MaxId]
    BY <1>9, <1>a, <2>1, <2>2 DEF UpdateBook, TypeOK
  <2>4. QED
    BY <1>9, <2>3 DEF UpdateBook, TypeOK
<1>10. ASSUME NEW h \in Hiders, StartHide(h) \/ HideStep(h) PROVE TypeOK'
  <2>1. hide' \in [Hiders -> HideType]
    BY <1>10, Moves, HideTypes DEF HideMoves
  <2>2. /\ hidden' \subseteq here /\ of' \in [Ids -> 0..MaxId]
        /\ calm' \subseteq Hiders
        /\ UNCHANGED <<here, last, what, home, hashed, linked, scanned, scan, reset,
                       edited, lost, doubt>>
    <3>1. ASSUME NEW b \in Ids, HideCopy(h, b)
          PROVE  hidden' \subseteq here /\ of' \in [Ids -> 0..MaxId] /\ calm' = calm
      BY <3>1, <1>a DEF HideCopy, TypeOK, HideType, rowVars, noteVars
    <3>2. QED
      BY <1>10, <3>1 DEF StartHide, HideStep, PickGroup, PickFails, HideCopy, HideFails,
         GroupDone, HideReturns, TypeOK, rowVars, noteVars
  <2>3. QED
    BY <2>1, <2>2 DEF TypeOK, HideType
<1>11. CASE MarkUnscanned \/ MarkFails \/ ResetAnswered
  BY <1>11, <1>a, InContents DEF MarkUnscanned, MarkFails, ResetAnswered, TypeOK, rowVars,
     noteVars, ResetType
<1>12. CASE Restart
  <2>1. doubt' \subseteq Contents
    BY <1>12, <1>a, InContents DEF Restart, TypeOK, ResetType
  <2>2. QED
    BY <1>12, <1>a, <2>1 DEF Restart, TypeOK, rowVars, ScanType, HideType, ResetType
<1>13. CASE UNCHANGED vars
  BY <1>13 DEF TypeOK, vars, rowVars, noteVars
<1>14. QED
  BY <1>1, <1>2, <1>3, <1>4, <1>5, <1>6, <1>7, <1>8, <1>9, <1>10, <1>11, <1>12, <1>13
     DEF Next, ScanStep


------------------------------------------------------------------------------
(* Steps, as far as the rows are concerned.                                *)

RowsKept == UNCHANGED <<here, last, what, home, hashed, hidden, of, edited, lost>>

\* A row is inserted, gets its MD5, is edited, hidden, or deleted with others.
Added == /\ here' = here \cup {last + 1} /\ last' = last + 1 /\ last + 1 \in Ids
         /\ what' = [what EXCEPT ![last + 1] = Content]
         /\ home' = [home EXCEPT ![last + 1] = scan.a]
         /\ hashed' = hashed \cup {last + 1}
         /\ UNCHANGED <<hidden, of, edited, lost>>

Hashed(b) == /\ b \in here /\ hashed' = hashed \cup {b}
             /\ UNCHANGED <<here, last, what, home, hidden, of, edited, lost>>

Edited(b) == /\ b \in here
             /\ hidden' \ {b} = hidden \ {b} /\ hidden' \subseteq here
             /\ \A x \in Ids \ {b} : of'[x] = of[x]
             /\ edited' = edited \cup {b} /\ lost' = lost \cup {what[b]}
             /\ UNCHANGED <<here, last, what, home, hashed>>

Hid(b, w) == /\ hidden' = hidden \cup {b} /\ of' = [of EXCEPT ![b] = w]
             /\ UNCHANGED <<here, last, what, home, hashed, edited, lost>>

Removed(gone) == /\ here' = here \ gone /\ hashed' = hashed \ gone /\ hidden' = hidden \ gone
                 /\ of' = [b \in Ids |-> IF b \in gone \/ of[b] \in gone THEN NULL ELSE of[b]]
                 /\ lost' = lost \cup {what[b] : b \in (gone \cap hashed) \ hidden}
                 /\ UNCHANGED <<last, what, home, edited>>

RowStep ==
    \/ RowsKept
    \/ Added /\ scan.at = "insert"
    \/ \E b \in Ids : Hashed(b) \/ Edited(b)
    \/ \E h \in Hiders : \E b \in hide[h].ids :
          hide[h].at = "hide" /\ b \in here /\ hide[h].winner \in here /\ Hid(b, hide[h].winner)
    \/ \E a \in Archives : Removed({b \in here : home[b] = a})

LEMMA RowSteps == TypeOK /\ [Next]_vars => RowStep
<1> SUFFICES ASSUME TypeOK, [Next]_vars PROVE RowStep
  OBVIOUS
<1> USE Constants
<1>1. ASSUME NEW a \in Archives, DeleteBooks(a) PROVE RowStep
  <2>1. CASE Remove({b \in here : home[b] = a})
    BY <1>1, <2>1 DEF DeleteBooks, Remove, Removed, RowStep
  <2>2. CASE UNCHANGED <<rowVars, lost, doubt>>
    BY <1>1, <2>2 DEF DeleteBooks, RowStep, RowsKept, rowVars
  <2>3. QED
    BY <1>1, <2>1, <2>2 DEF DeleteBooks
<1>2. CASE InsertBook
  <2>1. last + 1 \in Ids
    BY <1>2 DEF InsertBook, TypeOK, Ids
  <2>2. Added /\ scan.at = "insert"
    BY <1>2, <2>1 DEF InsertBook, Added
  <2>3. QED
    BY <2>2 DEF RowStep
<1>3. ASSUME NEW b \in Ids, StoreHash(b) PROVE RowStep
  <2>1. Hashed(b)
    BY <1>3 DEF StoreHash, Hashed
  <2>2. QED
    BY <2>1 DEF RowStep
<1>4. ASSUME NEW b \in Ids, UpdateBook(b) PROVE RowStep
  <2>1. Edited(b)
    BY <1>4 DEF UpdateBook, Edited, TypeOK
  <2>2. QED
    BY <2>1 DEF RowStep
<1>5. ASSUME NEW h \in Hiders, NEW b \in Ids, HideCopy(h, b) PROVE RowStep
  <2>1. CASE b \in here /\ hide[h].winner \in here
    <3>1. Hid(b, hide[h].winner) /\ b \in hide[h].ids /\ hide[h].at = "hide"
      BY <1>5, <2>1 DEF HideCopy, Hid, noteVars
    <3>2. QED
      BY <2>1, <3>1 DEF RowStep
  <2>2. CASE ~ (b \in here /\ hide[h].winner \in here)
    BY <1>5, <2>2 DEF HideCopy, RowStep, RowsKept, noteVars
  <2>3. QED
    BY <2>1, <2>2
<1>6. ASSUME NEW h \in Hiders,
             \/ StartHide(h)
             \/ \E c \in Contents : PickGroup(h, c) \/ PickFails(h, c)
             \/ \E b \in Ids : HideFails(h, b)
             \/ GroupDone(h) \/ HideReturns(h)
      PROVE  RowStep
  BY <1>6 DEF StartHide, PickGroup, PickFails, HideFails, GroupDone, HideReturns, rowVars,
     noteVars, RowsKept, RowStep
<1>7. ASSUME NEW a \in Archives, OpenArchive(a) \/ ResetOnly(a) PROVE RowStep
  BY <1>7 DEF OpenArchive, ResetOnly, rowVars, noteVars, RowsKept, RowStep
<1>8. CASE CheckDuplicate \/ CheckFails \/ FileFails \/ CloseArchive
  BY <1>8 DEF CheckDuplicate, CheckFails, FileFails, CloseArchive, rowVars, noteVars,
     RowsKept, RowStep
<1>9. ASSUME NEW b \in Ids, FixTags(b) PROVE RowStep
  BY <1>9 DEF FixTags, noteVars, RowsKept, RowStep
<1>10. CASE MarkUnscanned \/ MarkFails \/ ResetAnswered \/ Restart \/ UNCHANGED vars
  BY <1>10 DEF MarkUnscanned, MarkFails, ResetAnswered, Restart, vars, rowVars, noteVars,
     RowsKept, RowStep
<1>11. QED
  BY <1>1, <1>2, <1>3, <1>4, <1>5, <1>6, <1>7, <1>8, <1>9, <1>10 DEF Next, ScanStep, HideStep

LEMMA RowsInv == TypeOK /\ Rows /\ Groups /\ Seen /\ RowStep => Rows'
<1> SUFFICES ASSUME TypeOK, Rows, Groups, Seen, RowStep PROVE Rows'
  OBVIOUS
<1> USE Constants
<1>a. here \subseteq 1..last /\ here \subseteq Ids /\ last \in 0..MaxId
  BY DEF TypeOK, Ids
<1>1. CASE RowsKept
  BY <1>1 DEF RowsKept, Rows
<1>2. CASE Added /\ scan.at = "insert"
  <2>1. Content \in In(Files[scan.a])
    BY <1>2, InContents DEF Seen, TypeOK, Content
  <2>2. \A b \in 1..last' : what'[b] \in In(Files[home'[b]])
    BY <1>a, <1>2, <2>1 DEF Added, Rows, TypeOK, Ids
  <2>3. QED
    BY <1>2, <2>2 DEF Added, Rows
<1>3. ASSUME NEW b \in Ids, Hashed(b) PROVE Rows'
  BY <1>3, <1>a DEF Hashed, Rows
<1>4. ASSUME NEW b \in Ids, Edited(b) PROVE Rows'
  <2>1. \A x \in Ids \ here' : of'[x] = NULL
    BY <1>4 DEF Edited, Rows
  <2>2. \A x \in hidden' : x \in hashed' \/ what'[x] \in lost'
    BY <1>4 DEF Edited, Rows
  <2>3. QED
    BY <1>4, <2>1, <2>2 DEF Edited, Rows
<1>5. ASSUME NEW h \in Hiders, NEW b \in hide[h].ids, hide[h].at = "hide", b \in here,
             hide[h].winner \in here, Hid(b, hide[h].winner)
      PROVE  Rows'
  <2>1. b \in hashed
    BY <1>5 DEF Groups, Grouped
  <2>2. \A x \in Ids \ here' : of'[x] = NULL
    BY <1>5 DEF Hid, Rows, TypeOK
  <2>3. QED
    BY <1>5, <2>1, <2>2 DEF Hid, Rows
<1>6. ASSUME NEW a \in Archives, Removed({b \in here : home[b] = a}) PROVE Rows'
  <2>1. \A x \in Ids \ here' : of'[x] = NULL
    BY <1>6 DEF Removed, Rows
  <2>2. QED
    BY <1>6, <2>1 DEF Removed, Rows
<1>7. QED
  BY <1>1, <1>2, <1>3, <1>4, <1>5, <1>6 DEF RowStep


------------------------------------------------------------------------------
(* What a request remembers.                                               *)

LEMMA Remembered ==
    ASSUME TypeOK, RowStep, NEW b \in 1..last
    PROVE  /\ b \in 1..last' /\ what'[b] = what[b]
           /\ b \in here' => b \in here
           /\ b \in here' /\ b \in hashed => b \in hashed'
<1>a. last \in Nat /\ b \in Ids /\ b # last + 1
  BY Constants DEF TypeOK, Ids
<1>1. CASE RowsKept
  BY <1>1 DEF RowsKept
<1>2. CASE Added
  BY <1>a, <1>2 DEF Added, TypeOK
<1>3. ASSUME NEW x \in Ids, Hashed(x) \/ Edited(x) PROVE last' = last /\ what' = what
           /\ here' = here /\ hashed \subseteq hashed'
  BY <1>3 DEF Hashed, Edited
<1>4. ASSUME NEW x, NEW w, Hid(x, w) PROVE last' = last /\ what' = what
           /\ here' = here /\ hashed' = hashed
  BY <1>4 DEF Hid
<1>5. ASSUME NEW gone, Removed(gone) PROVE last' = last /\ what' = what
           /\ here' = here \ gone /\ hashed' = hashed \ gone
  BY <1>5 DEF Removed
<1>6. QED
  BY <1>1, <1>2, <1>3, <1>4, <1>5 DEF RowStep

LEMMA HideSteps ==
    TypeOK /\ [Next]_vars => \/ UNCHANGED hide
                             \/ \E h \in Hiders : HideMoves(h)
                             \/ hide' = [h \in Hiders |-> NoHide]
<1> SUFFICES ASSUME TypeOK, [Next]_vars
             PROVE  \/ UNCHANGED hide
                    \/ \E h \in Hiders : HideMoves(h)
                    \/ hide' = [h \in Hiders |-> NoHide]
  OBVIOUS
<1>1. ASSUME NEW h \in Hiders, StartHide(h) \/ HideStep(h) PROVE HideMoves(h)
  BY <1>1, Moves
<1>2. QED
  BY <1>1 DEF Next, ScanStep, OpenArchive, DeleteBooks, ResetOnly, CheckDuplicate, CheckFails,
     InsertBook, FileFails, CloseArchive, StoreHash, FixTags, UpdateBook, MarkUnscanned,
     MarkFails, ResetAnswered, Restart, vars

LEMMA GroupsInv == TypeOK /\ Groups /\ RowStep /\ [Next]_vars => Groups'
<1> SUFFICES ASSUME TypeOK, Groups, RowStep, [Next]_vars PROVE Groups'
  OBVIOUS
<1>1. ASSUME NEW r, Grouped(r) PROVE Grouped(r)'
  BY <1>1, Remembered DEF Grouped
<1>2. CASE UNCHANGED hide
  BY <1>1, <1>2 DEF Groups, Grouped
<1>3. ASSUME NEW h \in Hiders, HideMoves(h) PROVE Groups'
  <2>1. PICK r \in HideType :
        /\ hide' = [hide EXCEPT ![h] = r]
        /\ \/ r.at # "hide"
           \/ \E c \in Contents :
                 /\ r.winner \in Copies(c) /\ r.ids \subseteq Copies(c) \ {r.winner}
                 /\ \A b \in Copies(c) : b <= r.winner
           \/ /\ hide[h].at = "hide" /\ r.winner = hide[h].winner
              /\ r.ids \subseteq hide[h].ids
    BY <1>3 DEF HideMoves
  <2>2. r.at = "hide" => Grouped(r)
    <3>1. ASSUME NEW c \in Contents, r.winner \in Copies(c),
                 r.ids \subseteq Copies(c) \ {r.winner}, \A b \in Copies(c) : b <= r.winner
          PROVE  Grouped(r)
      <4>1. last \in Nat /\ Copies(c) \subseteq 1..last
        <5>1. Copies(c) \subseteq here
          BY CopiesType
        <5>2. here \subseteq 1..last /\ last \in Nat
          BY Constants DEF TypeOK
        <5>3. QED
          BY <5>1, <5>2
      <4>2. ASSUME NEW b \in r.ids PROVE b \in 1..last /\ b < r.winner
        BY <3>1, <4>1, <4>2
      <4>3. QED
        BY <3>1, <4>1, <4>2 DEF Grouped, Copies
    <3>2. CASE hide[h].at = "hide" /\ r.winner = hide[h].winner /\ r.ids \subseteq hide[h].ids
      BY <3>2 DEF Groups, Grouped
    <3>3. QED
      BY <2>1, <3>1, <3>2
  <2>3. hide'[h] = r /\ \A g \in Hiders \ {h} : hide'[g] = hide[g]
    BY <2>1, HideTypes
  <2>4. ASSUME NEW g \in Hiders, NEW q, q = hide'[g], q.at = "hide" PROVE Grouped(q)'
    <3>1. Grouped(q)
      BY <2>2, <2>3, <2>4 DEF Groups
    <3>2. QED
      BY <1>1, <3>1
  <2>5. QED
    BY <2>4 DEF Groups, Grouped
<1>4. CASE hide' = [h \in Hiders |-> NoHide]
  BY <1>4 DEF Groups, NoHide, Hide
<1>5. QED
  BY <1>2, <1>3, <1>4, HideSteps

------------------------------------------------------------------------------
(* Hidden copies and their keepers.                                        *)

LEMMA KeeperInv == TypeOK /\ Rows /\ Groups /\ KeeperIsNewer /\ RowStep => KeeperIsNewer'
<1> SUFFICES ASSUME TypeOK, Rows, Groups, KeeperIsNewer, RowStep PROVE KeeperIsNewer'
  OBVIOUS
<1> USE Constants
<1>a. here \subseteq 1..last /\ here \subseteq Ids /\ last \in 0..MaxId /\ hashed \subseteq here
      /\ \A b \in here : of[b] \in 0..MaxId
  BY DEF TypeOK, Ids
<1>b. ASSUME NEW b \in here \ edited, of[b] # NULL
      PROVE  of[b] \in here \cap hashed /\ what[of[b]] = what[b] /\ of[b] > b
  BY <1>b DEF KeeperIsNewer, Copies
<1>1. CASE RowsKept
  BY <1>1 DEF RowsKept, KeeperIsNewer, Copies
<1>2. CASE Added
  <2>1. of'[last + 1] = NULL
    BY <1>2, <1>a DEF Added, Rows
  <2>2. ASSUME NEW b \in here' \ edited', of'[b] # NULL
        PROVE  of'[b] \in Copies(what[b])' /\ of'[b] > b /\ what'[b] = what[b]
    <3>1. b \in here \ edited /\ of[b] # NULL /\ of'[b] = of[b]
      BY <1>2, <2>1, <2>2 DEF Added
    <3>2. what'[b] = what[b] /\ what'[of[b]] = what[of[b]]
      BY <1>2, <1>a, <1>b, <3>1 DEF Added, TypeOK
    <3>3. QED
      BY <1>2, <1>b, <3>1, <3>2 DEF Added, Copies
  <2>3. QED
    BY <2>2 DEF KeeperIsNewer
<1>3. ASSUME NEW b \in Ids, Hashed(b) PROVE KeeperIsNewer'
  BY <1>3, <1>b DEF Hashed, KeeperIsNewer, Copies
<1>4. ASSUME NEW b \in Ids, Edited(b) PROVE KeeperIsNewer'
  BY <1>4, <1>a, <1>b DEF Edited, KeeperIsNewer, Copies
<1>5. ASSUME NEW h \in Hiders, NEW b \in hide[h].ids, hide[h].at = "hide", b \in here,
             hide[h].winner \in here, Hid(b, hide[h].winner)
      PROVE  KeeperIsNewer'
  <2> DEFINE w == hide[h].winner
  <2>1. w \in here \cap hashed /\ what[b] = what[w] /\ b < w /\ b \in Nat
    BY <1>5, <1>a DEF Groups, Grouped
  <2>2. of'[b] = w /\ \A x \in Ids \ {b} : of'[x] = of[x]
    BY <1>5 DEF Hid, TypeOK
  <2>3. QED
    BY <1>5, <1>a, <1>b, <2>1, <2>2 DEF Hid, KeeperIsNewer, Copies
<1>6. ASSUME NEW a \in Archives, Removed({b \in here : home[b] = a}) PROVE KeeperIsNewer'
  <2> DEFINE gone == {b \in here : home[b] = a}
  <2>1. ASSUME NEW b \in here' \ edited', of'[b] # NULL
        PROVE  of'[b] = of[b] /\ b \in here \ edited /\ of[b] \notin gone
    BY <1>6, <1>a, <2>1 DEF Removed
  <2>2. QED
    BY <1>6, <1>b, <2>1 DEF Removed, KeeperIsNewer, Copies
<1>7. QED
  BY <1>1, <1>2, <1>3, <1>4, <1>5, <1>6 DEF RowStep


\* A copy that is hidden, of a content nothing happened to, has a visible one.
LEMMA Visible ==
    ASSUME HiddenHasNewer, NEW b \in here \cap hashed, b \in hidden,
           what[b] \in Contents \ lost
    PROVE  \E v \in here \cap hashed : v \notin hidden /\ what[v] = what[b] /\ v > b
<1>1. b \in Copies(what[b]) \cap hidden
  BY DEF Copies
<1>2. PICK v \in Copies(what[b]) \ hidden : v > b
  BY <1>1 DEF HiddenHasNewer
<1>3. QED
  BY <1>2 DEF Copies

\* To show it again of the next state, row by row.
LEMMA VisibleAgain ==
    ASSUME \A b \in here' \cap hashed' : b \in hidden' /\ what'[b] \in Contents \ lost' =>
              \E v \in here' \cap hashed' : v \notin hidden' /\ what'[v] = what'[b] /\ v > b
    PROVE  HiddenHasNewer'
BY DEF HiddenHasNewer, Copies

LEMMA HiddenInv == TypeOK /\ Rows /\ Groups /\ HiddenHasNewer /\ RowStep => HiddenHasNewer'
<1> SUFFICES ASSUME TypeOK, Rows, Groups, HiddenHasNewer, RowStep PROVE HiddenHasNewer'
  OBVIOUS
<1> USE Constants
<1>a. here \subseteq 1..last /\ here \subseteq Ids /\ last \in 0..MaxId /\ hashed \subseteq here
      /\ hidden \subseteq here /\ \A b \in Ids : what[b] \in Contents
  BY DEF TypeOK, Ids
<1>1. CASE RowsKept
  BY <1>1 DEF RowsKept, HiddenHasNewer, Copies
<1>2. CASE Added
  <2>1. ASSUME NEW b \in here' \cap hashed', b \in hidden', what'[b] \in Contents \ lost'
        PROVE  \E v \in here' \cap hashed' : v \notin hidden' /\ what'[v] = what'[b] /\ v > b
    <3>1. b \in here \cap hashed /\ b \in hidden /\ what'[b] = what[b]
      BY <1>2, <1>a, <2>1 DEF Added, TypeOK
    <3>2. PICK v \in here \cap hashed : v \notin hidden /\ what[v] = what[b] /\ v > b
      BY <1>2, <2>1, <3>1, Visible DEF Added
    <3>3. what'[v] = what[v]
      BY <1>2, <1>a DEF Added, TypeOK
    <3>4. QED
      BY <1>2, <3>1, <3>2, <3>3 DEF Added
  <2>2. QED
    BY <2>1, VisibleAgain
<1>3. ASSUME NEW x \in Ids, Hashed(x) PROVE HiddenHasNewer'
  <2>1. ASSUME NEW b \in here' \cap hashed', b \in hidden', what'[b] \in Contents \ lost'
        PROVE  \E v \in here' \cap hashed' : v \notin hidden' /\ what'[v] = what'[b] /\ v > b
    <3>1. b \in here \cap hashed /\ b \in hidden /\ what[b] \in Contents \ lost
      BY <1>3, <2>1 DEF Hashed, Rows
    <3>2. QED
      BY <1>3, <3>1, Visible DEF Hashed
  <2>2. QED
    BY <2>1, VisibleAgain
<1>4. ASSUME NEW x \in Ids, Edited(x) PROVE HiddenHasNewer'
  <2>1. ASSUME NEW b \in here' \cap hashed', b \in hidden', what'[b] \in Contents \ lost'
        PROVE  \E v \in here' \cap hashed' : v \notin hidden' /\ what'[v] = what'[b] /\ v > b
    <3>1. b \in here \cap hashed /\ b \in hidden /\ what[b] \in Contents \ lost /\ what[b] # what[x]
      BY <1>4, <2>1 DEF Edited
    <3>2. PICK v \in here \cap hashed : v \notin hidden /\ what[v] = what[b] /\ v > b
      BY <3>1, Visible
    <3>3. v # x /\ v \notin hidden'
      BY <1>4, <3>1, <3>2 DEF Edited
    <3>4. QED
      BY <1>4, <3>2, <3>3 DEF Edited
  <2>2. QED
    BY <2>1, VisibleAgain
<1>5. ASSUME NEW h \in Hiders, NEW x \in hide[h].ids, hide[h].at = "hide", x \in here,
             hide[h].winner \in here, Hid(x, hide[h].winner)
      PROVE  HiddenHasNewer'
  <2>1. PICK w : /\ w \in here \cap hashed /\ x \in here \cap hashed
                 /\ what[x] = what[w] /\ x < w
    BY <1>5 DEF Groups, Grouped
  <2>2. ASSUME NEW b \in here' \cap hashed', b \in hidden', what'[b] \in Contents \ lost'
        PROVE  \E v \in here' \cap hashed' : v \notin hidden' /\ what'[v] = what'[b] /\ v > b
    <3>1. b \in here \cap hashed /\ what[b] \in Contents \ lost
      BY <1>5, <2>2 DEF Hid
    \* Above x there is a visible copy: the winner, or a newer one.
    <3>2. what[b] = what[x] => \E v \in here \cap hashed :
             v \notin hidden /\ what[v] = what[x] /\ v > x
      <4>1. CASE w \notin hidden
        BY <1>a, <2>1, <4>1
      <4>2. CASE w \in hidden /\ what[b] = what[x]
        <5>1. PICK v \in here \cap hashed : v \notin hidden /\ what[v] = what[w] /\ v > w
          BY <2>1, <3>1, <4>2, Visible
        <5>2. v > x
          BY <1>a, <2>1, <5>1
        <5>3. QED
          BY <2>1, <5>1, <5>2
      <4>3. QED
        BY <4>1, <4>2
    <3>3. CASE b = x
      <4>1. PICK v \in here \cap hashed : v \notin hidden /\ what[v] = what[x] /\ v > x
        BY <3>2, <3>3
      <4>2. v # x
        BY <1>a, <4>1
      <4>3. QED
        BY <1>5, <3>3, <4>1, <4>2 DEF Hid
    <3>4. CASE b # x
      <4>1. PICK u \in here \cap hashed : u \notin hidden /\ what[u] = what[b] /\ u > b
        BY <1>5, <2>2, <3>1, <3>4, Visible DEF Hid
      <4>2. CASE u # x
        BY <1>5, <4>1, <4>2 DEF Hid
      <4>3. CASE u = x
        <5>1. PICK v \in here \cap hashed : v \notin hidden /\ what[v] = what[x] /\ v > x
          BY <3>2, <4>1, <4>3
        <5>2. v > b /\ v # x
          BY <1>5, <1>a, <3>1, <4>1, <4>3, <5>1
        <5>3. QED
          BY <1>5, <4>1, <4>3, <5>1, <5>2 DEF Hid
      <4>4. QED
        BY <4>2, <4>3
    <3>5. QED
      BY <3>3, <3>4
  <2>3. QED
    BY <2>2, VisibleAgain
<1>6. ASSUME NEW a \in Archives, Removed({b \in here : home[b] = a}) PROVE HiddenHasNewer'
  <2> DEFINE gone == {b \in here : home[b] = a}
  <2>1. ASSUME NEW b \in here' \cap hashed', b \in hidden', what'[b] \in Contents \ lost'
        PROVE  \E v \in here' \cap hashed' : v \notin hidden' /\ what'[v] = what'[b] /\ v > b
    <3>1. b \in here \cap hashed /\ b \in hidden /\ what[b] \in Contents \ lost
      BY <1>6, <2>1 DEF Removed
    <3>2. PICK v \in here \cap hashed : v \notin hidden /\ what[v] = what[b] /\ v > b
      BY <3>1, Visible
    <3>3. v \notin gone
      BY <1>6, <2>1, <3>2 DEF Removed
    <3>4. QED
      BY <1>6, <3>2, <3>3 DEF Removed
  <2>2. QED
    BY <2>1, VisibleAgain
<1>7. QED
  BY <1>1, <1>2, <1>3, <1>4, <1>5, <1>6 DEF RowStep


------------------------------------------------------------------------------
(* What a scan has seen to stays in the catalogue.                         *)

\* A deletion is a DeleteBooks that leaves the reset to be marked, and casts
\* doubt on what it deletes while a scan runs.
Doubted(a) ==
    /\ reset.at = "idle" /\ reset'.at = "mark" /\ reset'.a = a
    /\ scan' = scan /\ scanned' = scanned /\ doubt \subseteq doubt'
    /\ scan.at # "idle" => \A b \in here : home[b] = a => what[b] \in doubt'

LEMMA Stays ==
    ASSUME TypeOK, [Next]_vars, NEW c, Copies(c) # {}, Copies(c)' = {}
    PROVE  \E a \in Archives : Doubted(a) /\ \E b \in here : home[b] = a /\ what[b] = c
<1>1. PICK b \in here \cap hashed : what[b] = c
  BY DEF Copies
<1>2. b \in 1..last
  BY <1>1 DEF TypeOK
<1>3. ~ (b \in here' /\ b \in hashed')
  BY <1>1, <1>2, Remembered, RowSteps DEF Copies
<1>4. ASSUME NEW a \in Archives, DeleteBooks(a)
      PROVE  Doubted(a) /\ home[b] = a
  <2>1. Remove({x \in here : home[x] = a}) /\ reset' = Reset("mark", a)
    BY <1>1, <1>3, <1>4 DEF DeleteBooks, rowVars
  <2>2. home[b] = a
    BY <1>1, <1>3, <2>1 DEF Remove
  <2>3. doubt \subseteq doubt'
        /\ (scan.at # "idle" => \A x \in here : home[x] = a => what[x] \in doubt')
    BY <2>1 DEF Remove
  <2>4. QED
    BY <1>4, <2>1, <2>2, <2>3 DEF DeleteBooks, Doubted, Reset
<1>5. ASSUME ~ \E a \in Archives : DeleteBooks(a) PROVE b \in here' /\ b \in hashed'
  BY <1>1, <1>5 DEF Next, ScanStep, HideStep, OpenArchive, ResetOnly, CheckDuplicate, CheckFails,
     InsertBook, FileFails, CloseArchive, StoreHash, FixTags, UpdateBook, StartHide, PickGroup,
     PickFails, HideCopy, HideFails, GroupDone, HideReturns, MarkUnscanned, MarkFails,
     ResetAnswered, Restart, vars, rowVars, noteVars
<1>6. QED
  BY <1>1, <1>3, <1>4, <1>5


LEMMA DoubtGrows == [Next]_vars => doubt \subseteq doubt'
BY DEF Next, ScanStep, HideStep, OpenArchive, DeleteBooks, Remove, ResetOnly, CheckDuplicate,
   CheckFails, InsertBook, FileFails, CloseArchive, StoreHash, FixTags, UpdateBook, StartHide,
   PickGroup, PickFails, HideCopy, HideFails, GroupDone, HideReturns, MarkUnscanned, MarkFails,
   ResetAnswered, Restart, vars, rowVars, noteVars

LEMMA ScanSteps ==
    [Next]_vars => \/ UNCHANGED scan \/ scan' = NoScan
                   \/ \E a \in Archives : OpenArchive(a)
                   \/ CheckDuplicate \/ CheckFails \/ InsertBook \/ FileFails
BY DEF Next, ScanStep, HideStep, DeleteBooks, ResetOnly, CloseArchive, StoreHash, FixTags,
   UpdateBook, StartHide, PickGroup, PickFails, HideCopy, HideFails, GroupDone, HideReturns,
   MarkUnscanned, MarkFails, ResetAnswered, Restart, vars

LEMMA ScannedSteps ==
    [Next]_vars => \/ scanned' \subseteq scanned
                   \/ (CloseArchive /\ scanned' = scanned \cup {scan.a})
BY DEF Next, ScanStep, HideStep, OpenArchive, DeleteBooks, ResetOnly, CheckDuplicate, CheckFails,
   InsertBook, FileFails, CloseArchive, StoreHash, FixTags, UpdateBook, StartHide, PickGroup,
   PickFails, HideCopy, HideFails, GroupDone, HideReturns, MarkUnscanned, MarkFails,
   ResetAnswered, Restart, vars

LEMMA ResetSteps ==
    [Next]_vars /\ reset.at = "mark" =>
        UNCHANGED reset \/ reset.a \notin scanned' \/ In(Files[reset.a]) \subseteq doubt'
BY DEF Next, ScanStep, HideStep, OpenArchive, DeleteBooks, ResetOnly, CheckDuplicate, CheckFails,
   InsertBook, FileFails, CloseArchive, StoreHash, FixTags, UpdateBook, StartHide, PickGroup,
   PickFails, HideCopy, HideFails, GroupDone, HideReturns, MarkUnscanned, MarkFails,
   ResetAnswered, Restart, vars

\* The next state has content c, or doubts it.
Known(c) == c \in doubt' \/ \E b \in here' \cap hashed' : what'[b] = c

LEMMA StaysKnown ==
    ASSUME TypeOK, [Next]_vars, NEW c, Copies(c) # {} \/ c \in doubt, scan.at # "idle"
    PROVE  Known(c)
<1>1. CASE Copies(c)' = {} /\ Copies(c) # {}
  <2>1. PICK a \in Archives : Doubted(a) /\ \E b \in here : home[b] = a /\ what[b] = c
    BY <1>1, Stays
  <2>2. QED
    BY <2>1 DEF Doubted, Known
<1>2. CASE Copies(c)' # {}
  BY <1>2 DEF Known, Copies
<1>3. QED
  BY <1>1, <1>2, DoubtGrows DEF Known

LEMMA SeenInv == TypeOK /\ Seen /\ [Next]_vars => Seen'
<1> SUFFICES ASSUME TypeOK, Seen, [Next]_vars PROVE Seen'
  OBVIOUS
<1> USE Constants
<1>a. scan \in ScanType /\ Len(Files[scan.a]) \in Nat /\ scan.n \in Nat \ {0}
  BY InContents DEF TypeOK, ScanType
<1>b. ASSUME NEW a \in Archives, NEW n \in Nat \ {0}, scan'.a = a, scan'.n = n,
             n <= Len(Files[a]) + 1, scan'.at = "insert" => n <= Len(Files[a]),
             \A i \in 1..(n - 1) : Known(Files[a][i])
      PROVE  Seen'
  BY <1>b DEF Seen, Known, Copies
<1>1. ASSUME scan.at # "idle", NEW i \in 1..(scan.n - 1) PROVE Known(Files[scan.a][i])
  <2>1. PICK c : c = Files[scan.a][i]
    OBVIOUS
  <2>2. Copies(c) # {} \/ c \in doubt
    BY <1>1, <2>1 DEF Seen
  <2>3. QED
    BY <1>1, <2>1, <2>2, StaysKnown
<1>2. CASE UNCHANGED scan
  <2>1. CASE scan.at = "idle"
    BY <1>2, <2>1 DEF Seen
  <2>2. CASE scan.at # "idle"
    BY <1>1, <1>2, <1>a, <1>b, <2>2 DEF Seen, ScanType
  <2>3. QED
    BY <2>1, <2>2
<1>3. CASE scan' = NoScan
  BY <1>3 DEF Seen, NoScan, Scan
<1>4. ASSUME NEW a \in Archives, OpenArchive(a) PROVE Seen'
  <2>1. scan'.a = a /\ scan'.n = 1 /\ scan'.at = "file" /\ Len(Files[a]) \in Nat
    BY <1>4, InContents DEF OpenArchive, Scan
  <2>2. QED
    BY <1>b, <2>1
<1>5. ASSUME scan.at # "idle", scan.n <= Len(Files[scan.a]), NextFile, Known(Content)
      PROVE  Seen'
  <2>1. scan'.at = "file" /\ scan'.a = scan.a /\ scan'.n = scan.n + 1
    BY <1>5 DEF NextFile, Scan
  <2>2. ASSUME NEW i \in 1..scan.n PROVE Known(Files[scan.a][i])
    <3>1. CASE i = scan.n
      BY <1>5, <3>1 DEF Content
    <3>2. CASE i # scan.n
      BY <1>1, <1>5, <1>a, <3>2
    <3>3. QED
      BY <3>1, <3>2
  <2>3. /\ scan.n + 1 - 1 = scan.n /\ scan.n + 1 <= Len(Files[scan.a]) + 1
        /\ scan.n + 1 \in Nat \ {0} /\ scan.a \in Archives
    BY <1>a, <1>5 DEF ScanType
  <2>4. PICK n, a : n = scan.n + 1 /\ a = scan.a
    OBVIOUS
  <2>5. /\ n \in Nat \ {0} /\ a \in Archives /\ n <= Len(Files[a]) + 1
        /\ \A i \in 1..(n - 1) : Known(Files[a][i])
    <3>1. n \in Nat \ {0} /\ a \in Archives /\ n <= Len(Files[a]) + 1 /\ n - 1 = scan.n
      BY <1>a, <2>3, <2>4
    <3>2. ASSUME NEW i \in 1..(n - 1) PROVE Known(Files[a][i])
      <4>1. i \in 1..scan.n
        BY <3>1
      <4>2. QED
        BY <2>2, <2>4, <4>1
    <3>3. QED
      BY <3>1, <3>2
  <2>6. QED
    BY <1>b, <2>1, <2>4, <2>5
<1>6. ASSUME HasFile, ToInsert PROVE Seen'
  <2>1. scan'.at = "insert" /\ scan'.a = scan.a /\ scan'.n = scan.n
    BY <1>6 DEF ToInsert, Scan
  <2>2. scan.at # "idle" /\ scan.n <= Len(Files[scan.a]) /\ scan.a \in Archives
    BY <1>6, <1>a DEF HasFile, ScanType
  <2>3. scan.n <= Len(Files[scan.a]) + 1
    BY <1>a, <2>2
  <2>4. QED
    BY <1>1, <1>a, <1>b, <2>1, <2>2, <2>3
<1>7. CASE CheckDuplicate \/ CheckFails
  <2>1. ASSUME HasFile, NextFile, Copies(Content) # {} PROVE Seen'
    <3>1. PICK d : d = Content
      OBVIOUS
    <3>2. Known(d)
      BY <2>1, <3>1, StaysKnown DEF HasFile
    <3>3. QED
      BY <1>5, <2>1, <3>1, <3>2 DEF HasFile
  <2>2. QED
    BY <1>6, <1>7, <2>1 DEF CheckDuplicate, CheckFails
<1>8. CASE InsertBook
  <2>1. PICK d : d = Content
    OBVIOUS
  <2>2. last + 1 \in Ids
    BY <1>8 DEF InsertBook, TypeOK, Ids
  <2>3. Known(d)
    BY <1>8, <2>1, <2>2 DEF InsertBook, Known, TypeOK
  <2>4. QED
    BY <1>5, <1>8, <2>1, <2>3 DEF InsertBook, Seen
<1>9. CASE FileFails
  <2>1. PICK d : d = Content
    OBVIOUS
  <2>2. Known(d)
    BY <1>9, <2>1 DEF FileFails, Known
  <2>3. QED
    BY <1>5, <1>9, <2>1, <2>2 DEF FileFails, HasFile, Seen
<1>10. QED
  BY <1>2, <1>3, <1>4, <1>7, <1>8, <1>9, ScanSteps

------------------------------------------------------------------------------
(* Every file of a scanned archive is accounted for.                       *)

\* Covered, of the next state.
CoveredNext(c) ==
    \/ \E b \in here' \cap hashed' : what'[b] = c
    \/ \E a \in Archives : /\ c \in In(Files[a])
                           /\ a \notin scanned' \/ (reset'.at = "mark" /\ reset'.a = a)

LEMMA ClosedIsCovered ==
    ASSUME TypeOK, Seen, CloseArchive, NEW c \in In(Files[scan.a]), c \notin doubt'
    PROVE  CoveredNext(c)
<1>1. scan.at # "idle" /\ scan.n \in Nat \ {0} /\ Len(Files[scan.a]) \in Nat
      /\ scan.n > Len(Files[scan.a])
  BY InContents DEF CloseArchive, TypeOK
<1>2. PICK i \in 1..Len(Files[scan.a]) : Files[scan.a][i] = c
  BY DEF In
<1>3. i \in 1..(scan.n - 1)
  BY <1>1
<1>4. c \in doubt \/ Copies(c) # {}
  BY <1>1, <1>2, <1>3 DEF Seen
<1>5. QED
  BY <1>4 DEF CloseArchive, Copies, CoveredNext, rowVars, noteVars

LEMMA StaysCovered ==
    ASSUME TypeOK, Rows, Seen, [Next]_vars, NEW c, c \notin doubt', Covered(c)
    PROVE  CoveredNext(c)
<1>1. CASE Copies(c) # {}
  <2>1. CASE Copies(c)' # {}
    BY <2>1 DEF Copies, CoveredNext
  <2>2. CASE Copies(c)' = {}
    <3>1. PICK a \in Archives : Doubted(a) /\ \E b \in here : home[b] = a /\ what[b] = c
      BY <1>1, <2>2, Stays
    <3>2. c \in In(Files[a])
      BY <3>1 DEF Rows, TypeOK
    <3>3. QED
      BY <3>1, <3>2 DEF Doubted, CoveredNext
  <2>3. QED
    BY <2>1, <2>2
<1>2. ASSUME NEW a \in Archives, c \in In(Files[a]), a \notin scanned
      PROVE  CoveredNext(c)
  <2>1. CASE a \notin scanned'
    BY <1>2, <2>1 DEF CoveredNext
  <2>2. CASE a \in scanned'
    <3>1. CloseArchive /\ a = scan.a
      BY <1>2, <2>2, ScannedSteps
    <3>2. QED
      BY <1>2, <3>1, ClosedIsCovered
  <2>3. QED
    BY <2>1, <2>2
<1>3. ASSUME NEW a \in Archives, c \in In(Files[a]), reset.at = "mark", reset.a = a
      PROVE  CoveredNext(c)
  <2>1. UNCHANGED reset \/ a \notin scanned' \/ In(Files[a]) \subseteq doubt'
    BY <1>3, ResetSteps
  <2>2. QED
    BY <1>3, <2>1 DEF CoveredNext
<1>4. QED
  BY <1>1, <1>2, <1>3 DEF Covered

LEMMA CoverInv ==
    TypeOK /\ Rows /\ Seen /\ ScannedIsCovered /\ [Next]_vars => ScannedIsCovered'
<1> SUFFICES ASSUME TypeOK, Rows, Seen, ScannedIsCovered, [Next]_vars,
                    NEW a \in scanned', NEW c \in In(Files[a]), c \notin doubt'
             PROVE  c \in Contents /\ Covered(c)'
  BY DEF ScannedIsCovered
<1>1. a \in Archives
  BY ScannedSteps DEF TypeOK, CloseArchive
<1>2. c \in Contents
  BY <1>1, InContents
<1>3. CASE a \in scanned
  <2>1. Covered(c)
    BY <1>3, DoubtGrows DEF ScannedIsCovered
  <2>2. QED
    BY <1>2, <2>1, StaysCovered DEF CoveredNext, Covered, Copies
<1>4. CASE a \notin scanned
  <2>1. CloseArchive /\ a = scan.a
    BY <1>4, ScannedSteps
  <2>2. QED
    BY <1>2, <2>1, ClosedIsCovered DEF CoveredNext, Covered, Copies
<1>5. QED
  BY <1>3, <1>4

------------------------------------------------------------------------------
(* What a request nobody interfered with has done.                         *)

LEMMA CopiesFinite == ASSUME TypeOK, NEW c PROVE IsFiniteSet(Copies(c)) /\ Cardinality(Copies(c)) \in Nat
<1>1. Copies(c) \subseteq here /\ here \subseteq 1..last
  BY CopiesType DEF TypeOK
<1>2. last \in Nat
  BY Constants DEF TypeOK
<1>3. IsFiniteSet(1..last)
  BY <1>2, FS_Interval
<1>4. Copies(c) \subseteq 1..last
  BY <1>1
<1>5. IsFiniteSet(Copies(c))
  BY <1>3, <1>4, FS_Subset
<1>6. QED
  BY <1>5, FS_CardinalityType

LEMMA FewCopies ==
    ASSUME TypeOK, NEW c, ~ (Cardinality(Copies(c)) > 1), NEW b \in Copies(c), NEW v \in Copies(c)
    PROVE  b = v
<1>1. IsFiniteSet(Copies(c))
  BY CopiesFinite
<1>2. Cardinality(Copies(c)) \in Nat
  BY <1>1, FS_CardinalityType
<1>3. SUFFICES ASSUME b # v PROVE FALSE
  OBVIOUS
<1>4. Cardinality({b, v}) <= Cardinality(Copies(c))
  BY <1>1, FS_Subset
<1>5. Cardinality({b, v}) = 2
  <2>1. IsFiniteSet({b}) /\ Cardinality({b}) = 1
    BY FS_Singleton
  <2>2. {b, v} = {b} \cup {v} /\ v \notin {b}
    BY <1>3
  <2>3. QED
    BY <2>1, <2>2, FS_AddElement
<1>6. QED
  BY <1>2, <1>4, <1>5

\* Steps that leave the request alone.
LEMMA StillCalm ==
    ASSUME NEW r, Clearing(r), UNCHANGED <<here, what, hashed>>, hidden \subseteq hidden'
    PROVE  Clearing(r)'
<1>1. \A c : Copies(c)' = Copies(c)
  BY DEF Copies
<1>2. \A c : Behind(c) => Behind(c)'
  BY <1>1 DEF Behind
<1>3. QED
  BY <1>1, <1>2 DEF Clearing

\* Who is left alone by a step has been so before or begins, and meets rows
\* that stay, of which none comes out of hiding.
LEMMA CalmSteps ==
    ASSUME TypeOK, [Next]_vars, NEW h \in calm'
    PROVE  /\ UNCHANGED <<here, what, hashed>> /\ hidden \subseteq hidden'
           /\ h \in calm \/ StartHide(h)
<1>1. ASSUME NEW a \in Archives, OpenArchive(a) \/ ResetOnly(a)
      PROVE  UNCHANGED <<here, what, hashed, hidden, calm>>
  BY <1>1 DEF OpenArchive, ResetOnly, rowVars, noteVars
<1>2. ASSUME NEW a \in Archives, DeleteBooks(a) PROVE calm' = {}
  BY <1>2 DEF DeleteBooks
<1>3. ASSUME ScanStep PROVE calm' = {} \/ UNCHANGED <<here, what, hashed, hidden, calm>>
  BY <1>3 DEF ScanStep, CheckDuplicate, CheckFails, InsertBook, FileFails, CloseArchive, rowVars, noteVars
<1>4. ASSUME NEW b \in Ids, StoreHash(b) \/ FixTags(b) \/ UpdateBook(b)
      PROVE  calm' = {} \/ UNCHANGED <<here, what, hashed, hidden, calm>>
  BY <1>4 DEF StoreHash, FixTags, UpdateBook, noteVars
<1>5. ASSUME NEW g \in Hiders, StartHide(g)
      PROVE  UNCHANGED <<here, what, hashed, hidden>> /\ calm' = calm \cup {g}
  BY <1>5 DEF StartHide, rowVars
<1>6. ASSUME NEW g \in Hiders, HideStep(g)
      PROVE  UNCHANGED <<here, what, hashed>> /\ hidden \subseteq hidden' /\ calm' \subseteq calm
  BY <1>6 DEF HideStep, PickGroup, PickFails, HideCopy, HideFails, GroupDone, HideReturns, rowVars, noteVars
<1>7. ASSUME MarkUnscanned \/ MarkFails \/ ResetAnswered \/ UNCHANGED vars
      PROVE  UNCHANGED <<here, what, hashed, hidden, calm>>
  BY <1>7 DEF MarkUnscanned, MarkFails, ResetAnswered, vars, rowVars, noteVars
<1>8. ASSUME Restart PROVE calm' = {}
  BY <1>8 DEF Restart
<1>9. h \notin {}
  OBVIOUS
<1>10. QED
  BY <1>1, <1>2, <1>3, <1>4, <1>5, <1>6, <1>7, <1>8, <1>9 DEF Next

\* The steps of the request itself.
LEMMA OwnSteps ==
    ASSUME TypeOK, [Next]_vars, NEW h \in Hiders, h \in calm'
    PROVE  \/ hide'[h] = hide[h] \/ StartHide(h) \/ GroupDone(h)
           \/ \E c \in Contents : PickGroup(h, c)
           \/ \E b \in Ids : HideCopy(h, b)
<1>1. hide \in [Hiders -> HideType]
  BY DEF TypeOK, HideType
<1>2. ASSUME NEW g \in Hiders, g # h, StartHide(g) \/ HideStep(g) PROVE hide'[h] = hide[h]
  <2>1. HideMoves(g)
    BY <1>2, Moves
  <2>2. PICK r \in HideType : hide' = [hide EXCEPT ![g] = r]
    BY <2>1 DEF HideMoves
  <2>3. QED
    BY <1>1, <1>2, <2>2
<1>3. ASSUME HideStep(h)
      PROVE  \/ GroupDone(h) \/ \E c \in Contents : PickGroup(h, c)
             \/ \E b \in Ids : HideCopy(h, b)
  <2>1. ~ \E c \in Contents : PickFails(h, c)
    BY DEF PickFails
  <2>2. ~ \E b \in Ids : HideFails(h, b)
    BY DEF HideFails
  <2>3. ~ HideReturns(h)
    BY DEF HideReturns
  <2>4. QED
    BY <1>3, <2>1, <2>2, <2>3 DEF HideStep
<1>4. ASSUME NEW g \in Hiders, StartHide(g) \/ HideStep(g)
      PROVE  \/ hide'[h] = hide[h] \/ StartHide(h) \/ GroupDone(h)
             \/ \E c \in Contents : PickGroup(h, c)
             \/ \E b \in Ids : HideCopy(h, b)
  <2>1. CASE g = h
    BY <1>3, <1>4, <2>1
  <2>2. CASE g # h
    BY <1>2, <1>4, <2>2
  <2>3. QED
    BY <2>1, <2>2
<1>5. ASSUME NEW a \in Archives, OpenArchive(a) \/ DeleteBooks(a) \/ ResetOnly(a) PROVE UNCHANGED hide
  BY <1>5 DEF OpenArchive, DeleteBooks, ResetOnly
<1>6. ASSUME ScanStep PROVE UNCHANGED hide
  BY <1>6 DEF ScanStep, CheckDuplicate, CheckFails, InsertBook, FileFails, CloseArchive
<1>7. ASSUME NEW b \in Ids, StoreHash(b) \/ FixTags(b) \/ UpdateBook(b) PROVE UNCHANGED hide
  BY <1>7 DEF StoreHash, FixTags, UpdateBook
<1>8. ASSUME MarkUnscanned \/ MarkFails \/ ResetAnswered \/ UNCHANGED vars PROVE UNCHANGED hide
  BY <1>8 DEF MarkUnscanned, MarkFails, ResetAnswered, vars
<1>9. ~ Restart
  BY DEF Restart
<1>10. CASE UNCHANGED hide
  BY <1>10
<1>11. QED
  BY <1>4, <1>5, <1>6, <1>7, <1>8, <1>9, <1>10 DEF Next

LEMMA BeginsClear ==
    ASSUME TypeOK, NEW h \in Hiders, StartHide(h), NEW r, r = hide'[h]
    PROVE  Clearing(r)'
<1>1. r = Hide("group", {c \in Contents : Cardinality(Copies(c)) > 1}, {}, NULL)
  BY DEF StartHide, TypeOK
<1>2. r.at = "group" /\ r.hashes = {c \in Contents : Cardinality(Copies(c)) > 1}
  BY <1>1 DEF Hide
<1>3. UNCHANGED <<here, what, hashed, hidden>>
  BY DEF StartHide, rowVars
<1>4. ASSUME NEW c \in Contents \ r.hashes PROVE Behind(c)
  <2>1. ASSUME NEW b \in Copies(c), NEW v \in Copies(c) PROVE b = v
    BY <1>2, <1>4, <2>1, FewCopies
  <2>2. Copies(c) \subseteq Int
    BY CopiesType DEF Ids
  <2>3. QED
    BY <2>1, <2>2 DEF Behind
<1>5. Clearing(r)
  BY <1>2, <1>4 DEF Clearing
<1>6. QED
  BY <1>3, <1>5, StillCalm

LEMMA PicksClear ==
    ASSUME TypeOK, NEW h \in Hiders, Clearing(hide[h]), NEW c \in Contents, PickGroup(h, c),
           NEW r, r = hide'[h]
    PROVE  Clearing(r)'
<1>1. /\ UNCHANGED <<here, what, hashed, hidden>>
      /\ hide[h] \in HideType /\ hide[h].at = "group"
  BY DEF PickGroup, rowVars, TypeOK, HideType
<1>2. \A k \in Contents \ hide[h].hashes : Behind(k)
  BY <1>1 DEF Clearing
<1>3. Copies(c) \subseteq Int /\ Copies(c) \subseteq here
  BY CopiesType DEF Ids
<1>4. ASSUME Group(h, c, {}, NULL), Behind(c) PROVE Clearing(r)'
  <2>1. r = Hide("group", hide[h].hashes \ {c}, {}, NULL)
    BY <1>4 DEF Group, TypeOK
  <2>2. r.at = "group" /\ r.hashes = hide[h].hashes \ {c}
    BY <2>1 DEF Hide
  <2>3. Clearing(r)
    BY <1>2, <1>4, <2>2 DEF Clearing
  <2>4. QED
    BY <1>1, <2>2, <2>3, StillCalm
<1>5. CASE Cardinality(Copies(c)) <= 1 /\ Group(h, c, {}, NULL)
  <2>1. ~ (Cardinality(Copies(c)) > 1)
    <3>1. Cardinality(Copies(c)) \in Nat
      BY CopiesFinite
    <3>2. QED
      BY <1>5, <3>1
  <2>2. \A b, v \in Copies(c) : b = v
    BY <2>1, FewCopies
  <2>3. Behind(c)
    BY <1>3, <2>2 DEF Behind
  <2>4. QED
    BY <1>4, <1>5, <2>3
<1>6. ASSUME NEW w \in Copies(c), \A b \in Copies(c) : b <= w, Group(h, c, Copies(c) \ {w}, w)
      PROVE  Clearing(r)'
  <2>1. CASE Copies(c) \ {w} = {}
    <3>1. r = Hide("group", hide[h].hashes \ {c}, {}, w)
      BY <1>6, <2>1 DEF Group, TypeOK
    <3>2. r.at = "group" /\ r.hashes = hide[h].hashes \ {c}
      BY <3>1 DEF Hide
    <3>3. Behind(c)
      BY <1>3, <2>1 DEF Behind
    <3>4. Clearing(r)
      BY <1>2, <3>2, <3>3 DEF Clearing
    <3>5. QED
      BY <1>1, <3>2, <3>4, StillCalm
  <2>2. CASE Copies(c) \ {w} # {}
    <3>1. r = Hide("hide", hide[h].hashes \ {c}, Copies(c) \ {w}, w)
      BY <1>6, <2>2 DEF Group, TypeOK
    <3>2. r.at = "hide" /\ r.hashes = hide[h].hashes \ {c} /\ r.ids = Copies(c) \ {w} /\ r.winner = w
      BY <3>1 DEF Hide
    <3>3. what[w] = c
      BY <1>6 DEF Copies
    <3>4. Clearing(r)
      BY <1>2, <1>3, <1>6, <3>2, <3>3 DEF Clearing
    <3>5. QED
      BY <1>1, <3>2, <3>4, StillCalm
  <2>3. QED
    BY <2>1, <2>2
<1>7. QED
  BY <1>5, <1>6 DEF PickGroup

LEMMA HidesClear ==
    ASSUME TypeOK, NEW h \in Hiders, Clearing(hide[h]), NEW b \in Ids, HideCopy(h, b),
           NEW r, r = hide'[h]
    PROVE  Clearing(r)'
<1>1. /\ UNCHANGED <<here, what, hashed>> /\ hide[h].at = "hide" /\ b \in hide[h].ids
  BY DEF HideCopy
<1>2. r = Hide("hide", hide[h].hashes, hide[h].ids \ {b}, hide[h].winner)
  BY DEF HideCopy, Handled, TypeOK
<1>3. /\ r.at = "hide" /\ r.hashes = hide[h].hashes /\ r.ids = hide[h].ids \ {b}
      /\ r.winner = hide[h].winner
  BY <1>2 DEF Hide
<1>4. hidden' = hidden \cup {b}
  BY <1>1 DEF HideCopy, Clearing
<1>5. \A c : Copies(c)' = Copies(c)
  BY <1>1 DEF Copies
<1>6. \A c : Behind(c) => Behind(c)'
  BY <1>4, <1>5 DEF Behind
<1>7. QED
  BY <1>1, <1>3, <1>4, <1>5, <1>6 DEF Clearing

LEMMA EndsClear ==
    ASSUME TypeOK, NEW h \in Hiders, Clearing(hide[h]), GroupDone(h),
           NEW r, r = hide'[h]
    PROVE  Clearing(r)'
<1>1. UNCHANGED <<here, what, hashed, hidden>> /\ hide[h].at = "hide" /\ hide[h].ids = {}
  BY DEF GroupDone, rowVars
<1>2. r = Hide("group", hide[h].hashes, {}, NULL)
  BY DEF GroupDone, TypeOK
<1>3. r.at = "group" /\ r.hashes = hide[h].hashes
  BY <1>2 DEF Hide
<1>4. PICK c : c = what[hide[h].winner]
  OBVIOUS
<1>5. \A b \in Copies(c) : b <= hide[h].winner /\ (b # hide[h].winner => b \in hidden)
  BY <1>1, <1>4 DEF Clearing
<1>6. hide[h].winner \in Int /\ Copies(c) \subseteq Int
  <2>1. hide[h] \in HideType
    BY DEF TypeOK, HideType
  <2>2. QED
    BY <2>1, CopiesType, Constants DEF HideType, Ids
<1>7. Behind(c)
  BY <1>5, <1>6 DEF Behind
<1>8. Clearing(r)
  BY <1>1, <1>3, <1>4, <1>7 DEF Clearing
<1>9. QED
  BY <1>1, <1>3, <1>8, StillCalm

LEMMA ClearsInv == TypeOK /\ TypeOK' /\ Clears /\ [Next]_vars => Clears'
<1>1. SUFFICES ASSUME TypeOK, TypeOK', Clears, [Next]_vars, NEW h \in calm',
                      NEW r, r = hide'[h]
               PROVE  Clearing(r)'
  BY DEF Clears
<1>2. h \in Hiders
  BY <1>1 DEF TypeOK
<1>3. UNCHANGED <<here, what, hashed>> /\ hidden \subseteq hidden' /\ (h \in calm \/ StartHide(h))
  BY <1>1, CalmSteps
<1>4. CASE StartHide(h)
  BY <1>1, <1>2, <1>4, BeginsClear
<1>5. CASE ~ StartHide(h)
  <2>1. Clearing(hide[h])
    BY <1>1, <1>3, <1>5 DEF Clears
  <2>2. CASE hide'[h] = hide[h]
    <3>1. Clearing(r)
      BY <1>1, <2>1, <2>2
    <3>2. QED
      BY <1>3, <3>1, StillCalm
  <2>3. CASE GroupDone(h)
    BY <1>1, <1>2, <2>1, <2>3, EndsClear
  <2>4. ASSUME NEW c \in Contents, PickGroup(h, c) PROVE Clearing(r)'
    BY <1>1, <1>2, <2>1, <2>4, PicksClear
  <2>5. ASSUME NEW b \in Ids, HideCopy(h, b) PROVE Clearing(r)'
    BY <1>1, <1>2, <2>1, <2>5, HidesClear
  <2>6. QED
    BY <1>1, <1>2, <1>5, <2>2, <2>3, <2>4, <2>5, OwnSteps
<1>6. QED
  BY <1>4, <1>5

\* Whoever ends so leaves one visible copy of each.
LEMMA OneVisible == TypeOK /\ HiddenHasNewer /\ Clears => HideIsComplete
<1>1. SUFFICES ASSUME TypeOK, HiddenHasNewer, Clears, NEW h \in calm, hide[h].at = "group",
                      hide[h].hashes = {}, NEW c \in Contents \ lost, Copies(c) # {}
               PROVE  Cardinality(Copies(c) \ hidden) = 1
  BY DEF HideIsComplete
<1>2. Behind(c)
  BY <1>1 DEF Clears, Clearing
<1>3. PICK v : v \in Copies(c) \ hidden
  BY <1>1 DEF HiddenHasNewer
<1>4. ASSUME NEW w \in Copies(c) \ hidden PROVE w = v
  <2>1. w \in Int /\ v \in Int
    BY <1>1, <1>3, <1>4, CopiesType DEF Ids
  <2>2. ~ (w < v) /\ ~ (v < w)
    BY <1>2, <1>3, <1>4 DEF Behind
  <2>3. QED
    BY <2>1, <2>2
<1>5. Copies(c) \ hidden = {v}
  BY <1>3, <1>4
<1>6. QED
  BY <1>5, FS_Singleton

------------------------------------------------------------------------------
(* The theorems.                                                           *)

LEMMA Inductive == IInv /\ [Next]_vars => IInv'
<1> SUFFICES ASSUME IInv, [Next]_vars PROVE IInv'
  OBVIOUS
<1>1. TypeOK' /\ RowStep
  BY TypesInv, RowSteps DEF IInv
<1>2. Rows' /\ Groups' /\ Seen'
  BY <1>1, RowsInv, GroupsInv, SeenInv DEF IInv
<1>3. HiddenHasNewer' /\ KeeperIsNewer' /\ ScannedIsCovered'
  BY <1>1, HiddenInv, KeeperInv, CoverInv DEF IInv
<1>4. Clears'
  BY <1>1, ClearsInv DEF IInv
<1>5. QED
  BY <1>1, <1>2, <1>3, <1>4 DEF IInv

LEMMA Invariant == Spec => []IInv
BY InitInv, Inductive, PTL DEF Spec

\* Every variable of the catalogue keeps its type, so no flag outlives its row
\* (the foreign keys' cascades) and no ID is given out twice.
THEOREM CatalogueTypes == Spec => []TypeOK
<1>1. IInv => TypeOK
  BY DEF IInv
<1>2. QED
  BY <1>1, Invariant, PTL

\* HideDuplicates hides a copy only while a newer one is visible, and no later
\* request, scan or reset leaves the copy without one (services/duplicates.go).
THEOREM HiddenVisibility == Spec => []HiddenHasNewer
<1>1. IInv => HiddenHasNewer
  BY DEF IInv
<1>2. QED
  BY <1>1, Invariant, PTL

\* A HideDuplicates request that met no failure and no other writer leaves one
\* visible copy of each book, whatever other such requests do beside it.
THEOREM HidingCompletes == Spec => []HideIsComplete
<1>1. IInv => HideIsComplete
  BY OneVisible DEF IInv
<1>2. QED
  BY <1>1, Invariant, PTL

\* duplicate_of_id never dangles, and names a newer row of the same content.
THEOREM KeeperSafety == Spec => []KeeperIsNewer
<1>1. IInv => KeeperIsNewer
  BY DEF IInv
<1>2. QED
  BY <1>1, Invariant, PTL

\* Each file of an archive marked as scanned is in the catalogue, or in an
\* archive that a scan will still read (ProcessBook, checkDuplicate and
\* DeleteBooksByArchive together).
THEOREM ScanCoverage == Spec => []ScannedIsCovered
<1>1. IInv => ScannedIsCovered
  BY DEF IInv
<1>2. QED
  BY <1>1, Invariant, PTL
=============================================================================
