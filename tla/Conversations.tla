--------------------------- MODULE Conversations ---------------------------
(***************************************************************************)
(* A user's conversation with his bot (telegram/conversation.go): the      *)
(* handlers of messages (telegram/bot.go) and of buttons                   *)
(* (telegram/callbacks.go), and the searches they run                      *)
(* (commands/processor.go).                                                *)
(*                                                                         *)
(* Every update is handled in a goroutine of its own.  The conversation is *)
(* one value in Redis that is read, changed and written back whole; what   *)
(* the user was last asked for is another.  Both are gone after a time.    *)
(* Texts are sequences of words, a message is its number, and how long the *)
(* n-th message is is given.  The selected book, which nothing reads, is   *)
(* left out.                                                               *)
(***************************************************************************)
EXTENDS Integers, Sequences, FiniteSets, SequencesExt

CONSTANTS
    Handlers,     \* updates in progress at one time
    Words,        \* the words and marks of a text, what it is cut at among them
    Asks,         \* the searches the user may ask for
    Prompts,      \* what a button may ask the user for
    Size,         \* Size[n]: the length of the n-th message
    Room,         \* MaxContextLength
    Limit,        \* the size of a page
    MaxTotal,     \* bound on the results of a search, as there are books
    MaxMade       \* bound on the messages ever made

SearchTypes == {"book", "author", "combined", "author_books", "favorites", "collections",
                "collection_books"}

Ask(type, title, author, ref) == [type |-> type, title |-> title, author |-> author, ref |-> ref]

\* A search has the parts its type needs, and no other.
Asked(a) ==
    /\ a \in [type : SearchTypes, title : Seq(Words), author : Seq(Words), ref : Nat]
    /\ a.type \in {"author", "author_books", "favorites", "collections"} => a.title = <<>>
    /\ a.type \in {"book", "collection_books", "favorites", "collections"} => a.author = <<>>
    /\ a.type \notin {"author_books", "collection_books"} => a.ref = 0

ASSUME ConversationsAssumption ==
    /\ Room \in Nat /\ \A n \in 1..MaxMade : Size[n] \in Nat
    /\ Limit \in Nat \ {0} /\ MaxTotal \in Nat /\ MaxMade \in Nat
    /\ "by" \in Words /\ \A a \in Asks : Asked(a)
    /\ Prompts \subseteq {"waiting_for_search", "waiting_for_author", "waiting_for_book"}

VARIABLES
    ctx,          \* [msgs, search]: the value in Redis; NewConv if there is none
    mode,         \* what the user was asked for, or "none"
    hand,         \* hand[h]: a handler, [at, kind, todo, snap, found, mode]
    made,         \* messages made so far
    floor,        \* what only a property reads: the messages cleared for good
    awaited       \* the same: the last prompt nobody has answered

conversationVars == <<ctx, mode, hand, made, floor, awaited>>

NoSearch   == [none |-> TRUE]
Conv(m, s) == [msgs |-> m, search |-> s]
NewConv    == Conv(<<>>, NoSearch)

\* at: where the handler is; todo: the changes to the conversation to come;
\* snap: the conversation as it was read; found: the search to store.
Handler(at, kind, todo, snap, found, m) ==
    [at |-> at, kind |-> kind, todo |-> todo, snap |-> snap, found |-> found, mode |-> m]
Idle == Handler("idle", "none", <<>>, NewConv, NoSearch, "none")

Finding(h, f, t) == hand' = [hand EXCEPT ![h] = Handler("change", "none", t, NewConv, f, "none")]
Doing(h, todo)   == Finding(h, NoSearch, todo)

ConversationsInit ==
    /\ ctx = NewConv /\ mode = "none"
    /\ hand = [h \in Handlers |-> Idle]
    /\ made = 0 /\ floor = 0 /\ awaited = "none"

------------------------------------------------------------------------------
(* Searches.  A search is stored with its query in one text, and made      *)
(* again from it when a page is turned.                                    *)

By == <<"by">>

\* SearchParams, if the page has anything on it: it may be empty, the search may
\* fail, the user or the collection may be gone; then there is an answer, but
\* nothing to store.  src is the search they come from.
Page(type, query, ref, off, src) ==
    {NoSearch} \cup
    IF off < MaxTotal
    THEN {[type |-> type, query |-> query, ref |-> ref, off |-> off, src |-> src]} ELSE {}

FindBook(a, off, src)        == Page("book", a.title, 0, off, src)
FindAuthor(a, off, src)      == Page("author", a.author, 0, off, src)
FindAuthorBooks(a, off, src) == Page("author_books", a.author, a.ref, off, src)
CollectionBooks(a, off, src) == Page("collection_books", a.title, a.ref, off, src)
Favorites(off, src)          == Page("favorites", <<"favorites">>, 0, off, src)
Collections(off, src)        == Page("collections", <<"collections">>, 0, off, src)

\* Without a title it is a search for an author.
FindBookWithAuthor(a, off, src) ==
    IF a.title = <<>> THEN FindAuthor(a, off, src)
    ELSE Page("combined", a.title \o By \o a.author, 0, off, src)

Results(a, off, src) ==
    IF a.type = "combined" THEN FindBookWithAuthor(a, off, src)
    ELSE IF a.type = "author" THEN FindAuthor(a, off, src)
    ELSE IF a.type = "author_books" THEN FindAuthorBooks(a, off, src)
    ELSE IF a.type = "collection_books" THEN CollectionBooks(a, off, src)
    ELSE IF a.type = "favorites" THEN Favorites(off, src)
    ELSE IF a.type = "collections" THEN Collections(off, src)
    ELSE FindBook(a, off, src)

\* strings.Trim(title, "\""): the marks at both ends go, those within stay.
Unquoted(t) ==
    LET Inner == {i \in 1..Len(t) : t[i] # "mark"} IN
    IF Inner = {} THEN <<>> ELSE SubSeq(t, Min(Inner), Max(Inner))

\* executeCombinedSearch: the text is cut at the first " by ", and the title
\* loses its quotation marks.
Cut(q) == LET i == SelectInSeq(q, LAMBDA w : w = "by") IN
    IF i = 0 THEN Ask("book", q, <<>>, 0)
    ELSE LET title  == Unquoted(SubSeq(q, 1, i - 1))
             author == SubSeq(q, i + 1, Len(q))
         IN  IF title # <<>> /\ author # <<>> THEN Ask("combined", title, author, 0)
             ELSE Ask("book", title, <<>>, 0)

\* Mutant: an author's books are searched for by his name.
RequestByName(p) ==
    IF p.type = "combined" THEN Cut(p.query)
    ELSE IF p.type \in {"author"} THEN Ask(p.type, <<>>, p.query, p.ref)
    ELSE IF p.type \in {"favorites", "collections"} THEN Ask(p.type, <<>>, <<>>, p.ref)
    ELSE IF p.type = "collection_books" THEN Ask(p.type, p.query, <<>>, p.ref)
    ELSE Ask("book", p.query, <<>>, 0)

\* executeSearchWithPagination.
Request(p) ==
    IF p.type = "combined" THEN Cut(p.query)
    ELSE IF p.type \in {"author", "author_books"} THEN Ask(p.type, <<>>, p.query, p.ref)
    ELSE IF p.type \in {"favorites", "collections"} THEN Ask(p.type, <<>>, <<>>, p.ref)
    ELSE IF p.type = "collection_books" THEN Ask(p.type, p.query, <<>>, p.ref)
    ELSE Ask("book", p.query, <<>>, 0)

\* What is searched for: a combined search without a title is one for an author,
\* without an author it finds what one for a book finds.
Meaning(a) ==
    IF a.type # "combined" THEN a
    ELSE IF a.title = <<>> THEN Ask("author", <<>>, a.author, 0)
    ELSE IF a.author = <<>> THEN Ask("book", a.title, <<>>, 0)
    ELSE a

\* calculateNewOffset.
NewOffset(p, dir) ==
    IF dir = "next" THEN p.off + Limit ELSE IF p.off < Limit THEN 0 ELSE p.off - Limit

------------------------------------------------------------------------------
(* Messages.                                                               *)

\* withAuth: the owner of the bot has sent something; the message is added
\* first.  /start does the same.
Arrive(h, kind) ==
    /\ hand[h] = Idle /\ made < MaxMade
    /\ hand' = [hand EXCEPT ![h] = Handler("change", kind, <<"user">>, NewConv, NoSearch, "none")]
    /\ UNCHANGED <<ctx, mode, made, floor, awaited>>

\* /start, /context, /donate, usage, an account that is not linked or an error:
\* an answer.
Answer(h) ==
    /\ hand[h].at = "body" /\ hand[h].kind \in {"plain", "command", "text"}
    /\ Doing(h, <<"bot">>)
    /\ UNCHANGED <<ctx, mode, made, floor, awaited>>

\* Mutant: the conversation is read for the answer before it is cleared.
ClearLate(h) ==
    /\ hand[h].at = "body" /\ hand[h].kind = "clear"
    /\ ctx' = NewConv
    /\ floor' = IF \E o \in Handlers \ {h} : hand[o].at = "write" THEN floor ELSE made
    /\ hand' = [hand EXCEPT ![h] = Handler("write", "none", <<"bot">>, ctx, NoSearch, "none")]
    /\ UNCHANGED <<mode, made, awaited>>

\* /clear, and the answer to it.
Clear(h) ==
    /\ hand[h].at = "body" /\ hand[h].kind = "clear"
    /\ \/ /\ ctx' = NewConv
          /\ floor' = IF \E o \in Handlers \ {h} : hand[o].at = "write" THEN floor ELSE made
       \/ UNCHANGED <<ctx, floor>>
    /\ Doing(h, <<"bot">>)
    /\ UNCHANGED <<mode, made, awaited>>

\* A button of the keyboard that asks for something.
Prompt(h) ==
    /\ hand[h].at = "body" /\ hand[h].kind = "prompt"
    /\ \E m \in Prompts :
        \/ /\ mode' = m
           /\ awaited' = IF \E o \in Handlers \ {h} : hand[o].mode # "none" THEN "none" ELSE m
        \/ mode' = mode /\ awaited' = "none"
    /\ Doing(h, <<"bot">>)
    /\ UNCHANGED <<ctx, made, floor>>

\* /search, /b, /a, /ba, /favorites, /collections and their buttons, and a text
\* when nothing was asked for: the search takes its time.
Search(h) ==
    /\ hand[h].at = "body" /\ hand[h].kind = "command"
    /\ hand' = [hand EXCEPT ![h] = Handler("search", "none", <<>>, NewConv, NoSearch, "none")]
    /\ UNCHANGED <<ctx, mode, made, floor, awaited>>

ReadMode(h) ==
    /\ hand[h].at = "body" /\ hand[h].kind = "text"
    /\ \E m \in {mode, "none"} :
        /\ hand' = [hand EXCEPT ![h] = Handler("search", "none", <<>>, NewConv, NoSearch, m)]
        /\ awaited' = IF m = "none" THEN awaited ELSE "none"
    /\ UNCHANGED <<ctx, mode, made, floor>>

\* What may be searched for: the language model may make anything of a text.
Meant(m) == IF m = "waiting_for_author" THEN {a \in Asks : a.type = "author"}
            ELSE IF m = "waiting_for_book" THEN {a \in Asks : a.type = "book"}
            ELSE Asks

\* Mutant: the mode is cleared though none was read.
SearchedAndCleared(h) ==
    /\ hand[h].at = "search"
    /\ \E f \in {NoSearch} \cup UNION {Results(a, 0, a) : a \in Meant(hand[h].mode)} :
        IF f = NoSearch THEN Doing(h, <<"bot">>) ELSE Finding(h, f, <<"bot", "search">>)
    /\ mode' = "none"
    /\ UNCHANGED <<ctx, made, floor, awaited>>

\* The answer is added and then the search stored, if anything was found.  A
\* mode is cleared before that, whatever it is by now.
Searched(h) ==
    /\ hand[h].at = "search"
    /\ \E f \in {NoSearch} \cup UNION {Results(a, 0, a) : a \in Meant(hand[h].mode)} :
        IF f = NoSearch THEN Doing(h, <<"bot">>) ELSE Finding(h, f, <<"bot", "search">>)
    /\ IF hand[h].mode # "none" THEN mode' \in {"none", mode} ELSE UNCHANGED mode
    /\ UNCHANGED <<ctx, made, floor, awaited>>

------------------------------------------------------------------------------
(* Buttons under messages.  Old messages keep theirs.                      *)

\* handlePagination: the search is the one stored now.
TurnPage(h, dir) ==
    /\ hand[h] = Idle /\ ctx.search # NoSearch
    /\ hand' = [hand EXCEPT ![h] =
            Handler("turn", dir, <<>>, NewConv, ctx.search, "none")]
    /\ UNCHANGED <<ctx, mode, made, floor, awaited>>

Turned(h) ==
    LET p == hand[h].found IN
    /\ hand[h].at = "turn"
    /\ \E f \in Results(Request(p), NewOffset(p, hand[h].kind), p.src) :
        IF f = NoSearch THEN hand' = [hand EXCEPT ![h] = Idle]
        ELSE Finding(h, f, <<"search">>)
    /\ UNCHANGED <<ctx, mode, made, floor, awaited>>

\* handleAuthorSelection and handleCollectionSelection: the other way round.
Select(h) ==
    /\ hand[h] = Idle /\ made < MaxMade
    /\ \E a \in {b \in Asks : b.type \in {"author_books", "collection_books"}} :
        \E f \in Results(a, 0, a) :
            hand' = [hand EXCEPT ![h] = Handler("change", "none",
                IF f = NoSearch THEN <<"bot">> ELSE <<"search", "bot">>, NewConv, f, "none")]
    /\ UNCHANGED <<ctx, mode, made, floor, awaited>>

\* handleBookSelection stores the book and answers; handleDownload, after the
\* file was sent, only answers.
SelectBook(h) ==
    /\ hand[h] = Idle /\ made < MaxMade
    /\ \E todo \in {<<"book", "bot">>, <<"bot">>} :
        hand' = [hand EXCEPT ![h] = Handler("change", "none", todo, NewConv, NoSearch, "none")]
    /\ UNCHANGED <<ctx, mode, made, floor, awaited>>

------------------------------------------------------------------------------
(* A change of the conversation: it is read, changed and written.          *)

\* calculateContextLength.
Total(msgs) == FoldLeft(LAMBDA sum, n : sum + Size[n], 0, msgs)

\* trimContext: the oldest go one by one until the rest has room, and the last
\* one stays however long it is.
Trim(msgs) ==
    LET Starts == {k \in 1..Len(msgs) :
                    k = Len(msgs) \/ Total(SubSeq(msgs, k, Len(msgs))) <= Room}
    IN  SubSeq(msgs, Min(Starts), Len(msgs))

Changed(c, op, n, found) ==
    IF op \in {"user", "bot"} THEN Conv(Trim(Append(c.msgs, n)), c.search)
    ELSE IF op = "search" THEN Conv(c.msgs, found)
    ELSE c

\* A handler is done with the first of its changes.
After(h) ==
    LET rest == Tail(hand[h].todo) IN
    IF hand[h].todo = <<"user">> THEN Handler("body", hand[h].kind, <<>>, NewConv, NoSearch, "none")
    ELSE IF rest = <<>> THEN Idle
    ELSE Handler("change", "none", rest, NewConv,
                 IF "search" \in ToSet(rest) THEN hand[h].found ELSE NoSearch, "none")

\* GetContext, and what is then made of it.
ReadContext(h) ==
    LET op == Head(hand[h].todo) IN
    /\ hand[h].at = "change"
    /\ op \in {"user", "bot"} => made < MaxMade
    /\ made' = IF op \in {"user", "bot"} THEN made + 1 ELSE made
    /\ hand' = [hand EXCEPT ![h] = Handler("write", @.kind, @.todo,
                    Changed(ctx, op, made', @.found),
                    IF "search" \in ToSet(Tail(@.todo)) THEN @.found ELSE NoSearch, "none")]
    /\ UNCHANGED <<ctx, mode, floor, awaited>>

\* saveContext.
SaveContext(h) ==
    /\ hand[h].at = "write"
    /\ ctx' = hand[h].snap
    /\ hand' = [hand EXCEPT ![h] = After(h)]
    /\ UNCHANGED <<mode, made, floor, awaited>>

\* An error of Redis, at either: the handler goes on without the change.
Skip(h) ==
    /\ hand[h].at \in {"change", "write"}
    /\ hand' = [hand EXCEPT ![h] = After(h)]
    /\ UNCHANGED <<ctx, mode, made, floor, awaited>>

\* The values' times to live.
Forget ==
    \/ ctx # NewConv /\ ctx' = NewConv /\ UNCHANGED <<mode, hand, made, floor, awaited>>
    \/ mode # "none" /\ mode' = "none" /\ awaited' = "none" /\ UNCHANGED <<ctx, hand, made, floor>>

ConversationsNext ==
    \/ \E h \in Handlers :
        \/ \E k \in {"plain", "clear", "prompt", "command", "text"} : Arrive(h, k)
        \/ Answer(h) \/ Clear(h) \/ Prompt(h) \/ Search(h) \/ ReadMode(h) \/ Searched(h)
        \/ \E dir \in {"prev", "next"} : TurnPage(h, dir)
        \/ Turned(h) \/ Select(h) \/ SelectBook(h)
        \/ ReadContext(h) \/ SaveContext(h) \/ Skip(h)
    \/ Forget

ConversationsSpec == ConversationsInit /\ [][ConversationsNext]_conversationVars

------------------------------------------------------------------------------
(* Properties.                                                             *)

\* A conversation holds messages in the order they were made, none twice and,
\* unless it is the only one, no more than there is room for, though handlers
\* write over each other.
InOrder == LET m == ctx.msgs IN
    (Len(m) > 1 => Total(m) <= Room) /\ \A i, j \in 1..Len(m) : i < j => m[i] < m[j]

\* What was cleared while no handler was between reading and writing does not
\* come back.
ClearedStaysCleared == \A i \in 1..Len(ctx.msgs) : ctx.msgs[i] > floor

\* Both: what handlers write over each other is still a conversation.
HistoryHolds == InOrder /\ ClearedStaysCleared

\* The search that is stored had something on its page, and its page is one
\* that turning pages leads to.
PageIsThere ==
    ctx.search # NoSearch =>
        /\ 0 <= ctx.search.off /\ ctx.search.off < MaxTotal
        /\ ctx.search.off % Limit = 0

\* A search that is stored as one text and keeps its title when it is read back.
KeepsTitle(a) ==
    a.type = "combined" => "by" \notin ToSet(a.title) /\ Unquoted(a.title) = a.title

\* The pages of a search, however often they are turned, are of what was
\* searched for.  Excepted are only searches for a title with an author whose
\* title holds what the text is cut at or has quotation marks around it.
SameSearch ==
    \A h \in Handlers : hand[h].at = "turn" =>
        LET p == hand[h].found IN
        KeepsTitle(p.src) => Meaning(Request(p)) = Meaning(p.src)

\* Both: turning pages stays on the pages of the search it began with.
PagesOfTheSearch == PageIsThere /\ SameSearch

\* What a button asked for is waited for until a text answers it or it expires,
\* whatever else comes meanwhile, unless the answer to an earlier question was
\* being searched for.
PromptWaits == awaited # "none" => mode = awaited

==============================================================================
