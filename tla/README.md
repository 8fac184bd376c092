# Verification of gopds-api

gopds-api is a self-hosted ebook library: a Go server over PostgreSQL and Redis
that scans ZIP archives of FB2 books into a catalogue, serves it over REST and
OPDS, prepares previews in the background, converts books, and runs Telegram bots. This
directory holds TLA+ models of its concurrent and persistent core, the TLC runs
that check them on small instances, and TLAPS proofs of the properties that
matter most for instances of every size.

Part 1 is the inventory of the system, part 2 the modules and how they
correspond to the code, part 3 what the runs check, part 4 what is proved, part
5 what the code does not keep, part 6 what is not modelled, part 7 what could
come next.

## 1. The system

### Components, their state and their operations

| Component | State | Operations | Makes it correct |
|---|---|---|---|
| Book preview (`services/preview_service.go`, `preview_cache.go`) | singleflight group, semaphore of build slots, service context (memory); manifest, chunks and images, each with its own TTL (Redis) | open a preview, cold build, give up waiting, shutdown | slots counted exactly; a manifest promises only what is there; a build only on a real miss; no flight hangs |
| Scan sessions (`api/book_scan.go`, `api/fix_scan.go`) | `scanState`, `fixState`, each behind a mutex; worker and progress goroutines (memory only) | start a full scan, an archive scan or a fix scan; cancel a fix scan; ticks; read status | one scan of a kind at a time, owned by its goroutine; true totals; every scan ends |
| Archive scan pipeline (`services/book_scan_service.go`, `database/scan_status.go`) | book rows, `is_scanned` per archive (PostgreSQL); counters of the running archive | scan an archive, process one file, mark (un)scanned, delete an archive's books | no file skipped or lost silently |
| Fix scan workers (`services/fix_scan_service.go`, `api/admin_cover.go`) | channel of archives, workers, counters and error list (memory); cover flags (PostgreSQL) and pictures (disk) | regroup books by archive, re-read tags, language and cover | every book handled once; no cover lost |
| Duplicate scan (`services/duplicates.go`, `api/duplicates.go`) | job rows (PostgreSQL); `scanMutex`, `cancelMap`, channel and workers (memory) | start, stop, force-stop, hash the books, report progress | one scan at a time; a completed job is complete; a job can be stopped; a dead job does not block |
| Duplicate hiding (`services/duplicates.go`) | `duplicate_hidden`, `duplicate_of_id` of book rows | hide all but the newest copy of each book | every book keeps a visible copy |
| Catalogue rows (`database/books.go`, `database/rescan.go`) | books, authors, series, genres, favourites | insert, edit, delete, list | references stay valid |
| Rescan approval (`services/rescan_service.go`, `database/rescan.go`) | pending rows, book and junction rows (PostgreSQL); cover files | preview, approve, reject; edit by hand | what was previewed is what is applied; a book's rows belong together |
| Telegram bots (`telegram/bot.go`, `telegram/routes.go`, `database/users.go`) | `bot_token`, `webhook_uuid`, `telegram_id` of user rows; maps `bots`, `uuidToBots` behind an RWMutex; webhooks at Telegram | set, remove and re-create bots, health check, dispatch | rows and maps agree; a URL stays one user's |
| Conversations (`telegram/conversation.go`, `telegram/callbacks.go`, `commands/`) | the conversation and the open question of a user (Redis) | handle a message or a button, search, turn a page, `/context` | no message twice or out of order; pages of the search one asked for |
| Curated collections (`services/curated_collection_*.go`) | collections, items and decision cache (PostgreSQL), `import_stats` JSON | import, AI resolution runs, manual resolution | a flag has a loop behind it; counters and decisions survive |
| WebSocket hub and conversion (`api/ws_handler.go`, `services/websocket_manager.go`, `api/websocket.go`, `tasks/watcher.go`) | connections, bounded notification channels, converted files | convert, notify, download, sweep | no goroutine blocks for ever; a ready file is there |
| Sessions and tokens (`sessions/`, `api/auth.go`, `middlewares/`) | session keys, blacklist, themes (Redis, with TTLs) | log in, refresh, log out, drop all sessions | a logged-out session stays out; a refresh token works once |
| Accounts (`api/registration.go`, `api/password.go`, `api/user.go`, `database/users.go`) | user rows (PostgreSQL), links by e-mail (Redis, with TTLs) | register, activate, reset a password, change or delete an account | a change is not undone by another; a link works once, and until then |
| Schema migrations (`internal/migrate`) | ledger table, schema | baseline, apply, dry run | each file applied once; the dry run tells the truth |
| FB2 parsers, EPUB generator, preview chunker (`internal/parser`, `internal/converter`) | none that outlives a request | read what the catalogue needs, parse, convert, cut into portions | what the description says is learned; every word once and in order; every link lands; ceilings kept |
| Search, OPDS feeds, language detection, e-mail, middlewares, frontend | none that outlives a request, or caches of immutable entries | — | their functions' results |

### How they interact

* The administrator's requests start goroutines (full, single-archive and fix
  scans, duplicate scans) that outlive the request and are joined by nobody. The
  handlers and the goroutines share mutex-protected records or job rows.
* Archive scans, fix scans, duplicate scans, `HideDuplicates`, edits and archive
  resets all write the same book rows, statement by statement; there is no lock
  above the database and hardly any transaction spans two decisions.
* The preview reads book rows and archives and keeps everything it makes in
  Redis, shared by all readers through singleflight.
* The Telegram bots, the sessions, the accounts and the conversations read and
  write user rows and Redis keys in read-modify-write sequences.
* A conversion is asked for over a WebSocket, runs in a goroutine of its own,
  leaves a file and sends a message; downloads and a sweep remove the file.
* A restart loses all memory and keeps PostgreSQL, Redis and the archives.

### What is hard

The hazards are listed one by one, with the lines where they bite, in
`PROJECT.json`. Their kinds: a check made under a lock and used after it
(starting scans and jobs); values read before a mutex and written after it
(progress ticks); long sequences of single statements against rows that others
delete (hiding, resetting); expiry of several keys on several clocks, and
commands that complete after their caller gave up (preview); bounded channels
whose readers may leave (duplicate scan); rows that outlive the goroutine they
describe (jobs); two writes of which only the first happens.

## 2. The modules

One module per component, eight modules of theorems, of which four are about several
components each, and MC modules with the sets TLC needs. `BuildPool` is an abstract specification that
`Preview` implements.

| Module | Models | Checked by | Proofs |
|---|---|---|---|
| `Preview` | `preview_service.go`, `preview_cache.go` | `preview` | `PreviewProofs` |
| `BuildPool` | the promise of the build slots and of singleflight | as `PoolSpec` in `preview` | refinement in `PreviewProofs` |
| `ScanSessions` | `api/book_scan.go`, `api/fix_scan.go` over a coarse `ScanArchive` and `RunFixScan` | `scan_sessions` | `ScanSessionsProofs` |
| `DuplicateScan` | `ScanDuplicates`, its job rows and its handlers | `duplicate_scan` | `DuplicateScanProofs` |
| `Catalogue` | book rows under `ScanArchive`/`ProcessBook`, `HideDuplicates`, `ResetArchiveScanStatus`, `UpdateBook`, MD5 and genre writes | `catalogue` | `CatalogueProofs` |
| `Bots` | `telegram/bot.go` (`BotManager`), `telegram/routes.go`, the bot tokens in `database/users.go` | `bots` | `UsersProofs` |
| `Accounts` | registration, links, changes and deletion of user rows | `bots` | `UsersProofs` |
| `Rescan` | preview, approval, rejection and editing of a book | `administration` | `AdministrationProofs` |
| `Curated` | the import of a curated collection and the ways to resolve its items | `administration` | `AdministrationProofs` |
| `Migrate` | `internal/migrate`, `cmd/migrate` | `administration`, `baseline_cut` | `AdministrationProofs` |
| `FixScan` | `RunFixScan`, `UploadBookCover` | `administration` | `AdministrationProofs` |
| `Connections` | reader, writer, conversions and broadcasts of a WebSocket | `connections` | |
| `ConvertedFiles` | converted files, their downloads and the sweep | `converted_files` | `ConvertedFilesProofs` |
| `Sessions` | session keys, blacklist and themes in Redis | `sessions` | `SessionsProofs` |
| `Conversations` | what a bot keeps in Redis of a conversation | `conversations` | `UsersProofs` |
| `Portions` | how a document becomes the portions of a preview | `texts` | `PreviewProofs` |
| `BookText` | how the elements of an FB2 body become a document | `texts` | `PreviewProofs` |
| `Epub` | how a document becomes the files of an EPUB | `texts` | `ConvertedFilesProofs` |
| `Metadata` | what `FB2Parser` learns of a book for the catalogue | `texts` | |

Three runs check several modules at once: `administration`, `texts` and `bots`. What
these modules model shares no state, so a behaviour of such a run is one of one
module while the others stay as they began; the variable `running` of the MC module
picks it. Nothing is gained by interleaving them, and nothing is lost.

`ScanSessions`, `Catalogue` and `FixScan` look at the same scans from three sides: the
first has the sessions and their counters and knows an archive only as a number
of files; the second has the rows a scan writes and takes from the first that at
most one archive scan runs at a time (theorem `ScanOwnership`); the third has the
workers of a fix scan and the covers. `Connections` and `ConvertedFiles` divide a
conversion likewise: who waits for whom, and what happens to the file. `Portions`
gives the parts whose life in the cache is `Preview`'s subject, from the document
that `BookText` makes, which `Epub` turns into a book; `Metadata` reads the same file for the
catalogue.

Definitions keep the code's names where there is one. Operators whose comment
begins with "Mutant:" are plausible bugs of the definition next to them: in
`PROJECT.json` each property is paired with one that it must catch. They take no
part in the specifications.

### Preview

`stage[b]` is where the flight of book `b` stands in `Load`'s closure and
`buildAndCache`; `sem` the slots occupied; `budget[b]` what is left of the build
timeout; `life[b][i]` how long item `i` of the entry (0 the manifest, then chunks
and images) will live in Redis; `late[b][c]` a Redis command whose caller has left
because of cause `c`, its own deadline or `Shutdown` (`awaitCmd` returns when the context
ends, the command's goroutine goes on, for an image or a manifest into a second command);
`req[r]` a request; `needless[b]` notes for a property that a flight began while the
entry had long enough to live. Time passes in ticks: `Tick` ages every clock at once, and waits
for a flight whose budget is spent to return. The model covers the two reads of a cache lookup, the second look inside
the flight, a refused slot, each gate and each write in their order, a write that
fails after or before it took effect, the manifest's SET, its deadline check and
its retraction, `Shutdown`, and a restart that keeps Redis.

Abstracted: the content of parts (only which part it is), the preparation
(one step that may fail), one book per key: a rescanned book has another MD5 and
with it another key, which is another book here. Reading one chunk or image
later does not change state and is left out. Redis is assumed to lose keys only
by their TTL (`PutImage` may leave one without a TTL when its second command
fails). `PreviewAssumption` also has `2 * OpTime <= Timeout`, which lets the
model keep at most one late command per book and cause: by the time a second build can
reach its deadline, the client's own timeouts have ended the two commands of the first, and
after `Shutdown` nothing more is sent. The
default configuration has a TTL of a day, a build timeout of two minutes, and a
few seconds per command.

### ScanSessions

`scan` and `fix` are the two records; `work[s]`/`fixWork[s]` where the goroutine
of session `s` is, `tick[s]`/`fixTick[s]` its progress goroutine, with the values
it has read and not yet written; `req[c]` a request between its check and its
start, which are under different mutexes. Session IDs are drawn from a counter
that stands for the clock. Every return of each goroutine is a disjunct: nothing
to scan, an error, an archive that fails, panic recovered (single, fix) or not
(full: the process dies, `Crash`). `TickQuit` is a progress goroutine that sees its
channel closed; as in Go's `select` a tick that is ready at the same time may win.

### DuplicateScan

`row[j]` is the job's row in PostgreSQL; `proc[j]` the goroutine, `worker[j][w]`
its workers, `queue[j]` the bounded channel, `reg` the cancel map. `Feed` blocks
when the channel is full; a cancelled feeder aborts; a worker leaves when the
context is done or the channel is closed and empty. Handlers write the row
without reading it again (`WriteStopped`, `MaySet`); any write of the goroutine
may fail. `Crash` keeps the rows and nothing else. `Count` and `Report` are two steps,
because workers count atomically and publish the count afterwards.

### Catalogue

`here` are the committed rows and `last` the sequence of their IDs, which never
goes back; `what[b]` is a file's content, standing for its MD5, and `hashed` the
rows whose `md5` is filled in (rows older than the column are not, until the
duplicate scan does it). `hide[h]` holds what a `HideDuplicates` request read
earlier: the hashes still to be handled, the winner, the copies still to be
hidden, each of which is updated by its own statement. A reset deletes in one
transaction and marks in another. `linked` are rows that a genre link refers to,
whose foreign key is checked at COMMIT.

`edited`, `lost`, `doubt` and `calm` only record the past, for the properties:
a row edited by hand, a content that lost a visible copy, a content a scan
failed on or that was deleted under a scan, a request nobody interfered with.
They are the exact exceptions of the properties, and no guard reads them.

### Bots

`row[u]` is what a user's row says of a bot (token and webhook UUID), `bots` and
`dispatch` the manager's maps `bots` and `uuidToBots`. `req[c]` is a request at
one of its statements or manager calls: `SetBotToken` goes through `LookUpOwner`,
`ReadUser`, `Drop` (only if another token is replaced), `Issue` and `Create`;
`RemoveBotToken` through `ReadUser`, `Drop`, `Issue`; `UpdateUserByAdmin` through
`ReadUser`, `Drop`, `Wipe`, `Write`, `ReadUuid`, `Create`. What a request read
stays in its record (`old`, `uuid`) and is used, or written back, later. Every
call may fail, with the consequence the handler gives it. `check` is the health
check on its snapshot. `Restart` empties the maps and loads them from the rows,
in any order and with any failures.

`UpdateUserProfile` also reads a whole row and writes it back; that is an
administrator's update whose token is the one read. Telegram is the environment:
a token may be revoked, and calls to it may fail. Webhooks there are not
part of the state, so `SetWebhook` does nothing here, and linking an account with
`/start` (`telegram_id`) is left out. UUIDs are drawn from a counter.

`owner` and `mixed` are history for the properties: to whom a UUID was issued,
and the users on whom two operations overlapped, or who shared a token when the
bots were loaded, since their last restart. Overlapping operations of one user
are not serialised by anything in the code, and do leave stray bots; what the
properties say is that nothing else does. A deleted user's bot keeps running until
the next restart: `DeleteUser` does not touch the manager.

### Rescan

`pending[b]` are the rows of `book_rescan_pending`, `book`, `links` and `names` the committed
book row, junction rows and rows of the authors and genres tables, `file[b]` the cover
on disk. `at[r]` walks a request through the statements of `SaveRescanPending`,
`ApproveRescan`, `ApplySelectiveRescanChanges` or `UpdateBook`. A transaction keeps what
it wrote (`draft`, `gone`, `made`) until `Commit`; the row lock of the book (`lock`)
exists only if a column of the book row is updated; a `DELETE` sees the junction rows
committed when it starts and waits for those another transaction has deleted
(`FindLinks`, `DeleteLinks`), as PostgreSQL does at READ COMMITTED. Series are linked
as authors are, by the same code, so they are not there a second time; a book's number in
a series is left out. Title, annotation, language and date are one text. The cover file is
created or truncated in one step and filled in another (`os.WriteFile`,
`rescan_service.go:180-183`): a failure or a crash between them leaves a torn file (`Partial`) or
one the row does not know of, which `torn` names.

What a preview answers with, the list of differences (`calculateDiff`), is not modelled. It
is no comparison of what is stored: a series number is compared as text
(`rescan_service.go:432-440`), the old one being printed only if it is positive (306-308),
while an approval stores what `%d` reads of it (`database/rescan.go:342-346`), and
authors are compared by position, in the order the database returns them (420-430). So a file whose
number is "01", "0" or "1.5", or one whose authors come back in another order, may list a change again
after all of it was approved.

What the model shows beside its properties: a row rejected between the two reads of an
approval is applied all the same; an approval's commit deletes a newer preview with
the one it applied; two pending rows make every approval fail until the book is
previewed or rejected again; two transactions may each insert an author of the same
name, which later makes approvals with that name fail.

### Curated

`status` and `stats` are the collection's row, `import` and `tally` the goroutine of
`StartImport`, `doing[a]` one of the three ways to resolve items, each with the copy
of `import_stats` it read at its start (`base`) and writes back whole. The matcher is
there as what it tells apart: below, between and above its thresholds; a pair of empty names
(`Nameless`) is matched like any other, but no decision is kept for it
(`curated_collection_repo.go:97`). The model's
own look at `AIProgress.Running` and the goroutine's second look are `Start` and
`ReadBase`; two clicks can pass both (`admin_collections.go:309`), and the properties
hold all the same.

### Migrate

A file is its number. `held` is what the database holds, `ledger` the table
`schema_migrations`, `step[r]` a run of the command. `ApplyFile` is the transaction of one
file with its ledger row; the SQL itself is external: a file fails on a database that
holds it, unless it is `Repeatable`. `plan[r]` is what a dry run would have printed just
before. Nothing keeps two runs apart: on a fresh database the second takes what the
first is applying for an old schema and records all of it; the properties except that case
(`crossed`) by name. A directory without the boundary file is refused only after the
ledger was created, which leaves it behind as a crash does (`severed`).

### FixScan

`shown[b]` is the cover flag the query read, `jobs` the bounded channel of archives,
`hand[w]` a worker with what is left of its archive, whose books come in the order of their ids
(`path ASC, id ASC`). The channel has room for two
archives per worker and the feeder looks at the context only while it waits for room, so
that a late cancellation still ends as a completed scan (`fix_scan_service.go`). `SaveCover`
and `StoreBook` are apart: between them an administrator's `PutPoster` and `PutFlag`, or
`RemoveArchive`, may happen. `touched` are the books whose cover was changed by hand since
the query: for them the scan may bring the flag back or take it away. A book deleted
meanwhile counts as updated. Picture names are assumed to be distinct, which
`posters.sanitizeSegment` does not promise.

### Connections and ConvertedFiles

`Connections` has a connection's reader, writer and conversions over `notifyChan`, which
nobody closes: once the writer has left, whoever sends to the full channel waits for
ever (`Abandoned`). The properties say that this is the only way to wait for ever.
`ConvertedFiles` has the file of a book under the one name all conversions of the book
share: `os.Create` truncates what a download or an earlier conversion has open, `Copy`
writes block by block, a download is sent with the size the file had when it was
opened and then removes whatever has the name, the sweep removes what it found old.

### Sessions

`session`, `theme` and `black` are the keys in Redis with the time each expires;
`req[c]` is a request between its commands. Tokens carry their user and the second they
were made in, so two of one user and second are the same pair: who logs in again in the
second of a log-out gets a refresh token that is on the list. `Exchange` also lets a listed
token through, because an error of Redis counts as not listed. `ListKeys` gives up when
the caller's own token has expired by then, and drops nothing. A counter of log-ins
(`middlewares/ratelimit.go`), which keeps no TTL if `Expire` fails, is not modelled.

### Accounts

`account[i]` is a row of `auth_user`, `link[l]` the link in Redis under a login, `act[r]` a
request. Whoever changes a row writes every column from what it read before
(`UserObject`, `UpdateUserProfile`), so two changes that overlap lose one of them; `asked`
keeps the row as its changers asked for it, each for their own part. A link is looked
up, used and deleted in separate steps, the last by a goroutine; links survive the
deletion of their account until they expire.

Logins are unique as they are written and looked up without regard to case, the first
registered winning (`FoundBy`, `database/users.go:17-27`): of two logins that differ in case
only the second account can be registered but neither logged in to nor activated, and a link sent for it opens
the first. An e-mail address as a name to look up is left out.

### Conversations

`ctx` and `mode` are the two values in Redis, `hand[h]` an update being handled: the
changes of the conversation it has still to make (`todo`), each a read and a write of
the whole. `/clear`, prompts, searches, pages and the selection of an author or a
collection are there with their order of effects. A stored search is made again from its
text (`Request`), which `Cut` cuts at the first " by ", without the quotation marks around the title
(`callbacks.go:200-223`): a title that
holds the word, or has such marks, is found on the first page only, which `SameSearch` excepts by name.
A button turns the pages of the search that is stored when it is pressed, also one under the results of
an older search: no message is tied to its search, in the code or in the model. Messages
have a length each (`Size`), and `Trim` drops the oldest until the rest has room or one is left.

### Portions, BookText and Epub

Three stages of the text's way, each from an arbitrary input of bounded size to a result.
`BookText` reads the elements of a body one by one with the parser's flags, its open
block, table and stack of sections; `Portions` packs a document into portions under the
three ceilings; `Epub` makes chapters, notes, links, pictures and the package document of
it. Text is a number or a size, an anchor a key; the functions that give keys their form
are constants. Their properties state what a reader of the whole book would notice.

What they except is what the code does: a poem inside the epigraph of a poem loses
its verses, a second paragraph of a title is dropped, a poem's title may become the
section's, and the end of an element ends the flag of an outer one of the same name
(`nested`). `Epub` writes nothing for tables and empty lines
(`epub_generator.go:391-393`) and no anchor for a verse without text (433-438); the anchor
`note-<n>` of a note without id may be the id of another (1306-1314), and then a link finds the
first of the two. The ids of paragraphs and sections inside a note are collected by nobody (1242-1256): a link to one
from a chapter stays a fragment of the chapter's own page and leads nowhere. A document without a body
gets a paragraph that says so (60-67), one with an empty body an empty chapter (100-102). `Portions`: the comment of `preview_chunker.go:10-12` promises that a portion
never exceeds the packing ceiling; a block too dear by its draft is priced alone, and
the portion may then overflow, which refuses the book (`RefusedRightly` says when).

### Metadata

The file is made up while it is read: `tokens` is what the decoder has delivered, `parser` the
`FB2Parser` with its nine handlers of one path each. If the decoder stops behind the end of the
description (`Break`), the file goes on unread, and `FinishAgain` is the second pass over the
description alone. The properties compare the result with the file as a tree of elements, which
the parser never builds.

Here, too, the exceptions are what the code does. First and last names are counted apart, so
that a missing one moves those of later authors up; so are the names and numbers of series. A
binary before the description is not seen, and two with the cover's id are joined. The second pass
misses a cover that follows the description. `trimAfterDescription` appends `</FictionBook>` to a
slice of the file (`fb2parser.go:575-577`), which overwrites the 14 bytes behind the description
before `ensureBodySample` searches the same bytes for a body: the language of a book that
breaks in its body may then be detected from its notes, or from a picture. A tag or a text that
is overwritten in part leaves its end, which is read as text (`Leftovers`, `Overwritten`, `SampleRight`).

## 3. What the runs check

Twelve runs; one expects a violation (part 5). Type invariants are left to the
theorems (`TypeOK` of the first five components and of `Sessions`, as are
`SlotAccounting`, `TailInv`, `StoppableIsLive`, `KeeperIsNewer` and `OwnUrl`, which the
runs' invariants rest on) or are a conjunct of a property (`RowsAgree`, `StatsHold`,
`GoroutinesEnd`, `WholeDownload`).

| Run | Properties | What it shows |
|---|---|---|
| `preview` | `WholeUntilTail` | while a manifest has more than `Timeout + OpTime` to live, every part it promises is there, whatever was cut off, failed, or came late |
| | `NoNeedlessBuild` | a flight that begins while the entry has two build timeouts and a command to live never unpacks the archive again, whatever reads fail and late commands land, unless a retraction takes the manifest |
| | `PoolSpec` | the flights implement `BuildPool` |
| | `FlightsEnd` | with Redis and the archive hanging and every reader gone, each flight still ends |
| `scan_sessions` | `Owned` | a state says running exactly while the goroutine of its session is at work, so no two of one kind are |
| | `CompletedIsWhole` | a scan that did not fail went through every archive it announced |
| | `ScansEnd` | every scan releases its state |
| `duplicate_scan` | `CompletedIsWhole` | a completed job counted every book, and no late report changes the count |
| | `BlockedOnlyByLoss` | only a crash or a failed write leaves a job that blocks later ones |
| | `JobsEnd` | feeder and workers never wait on each other for good |
| `catalogue` | `HiddenHasNewer` | a hidden copy has a newer visible one, unless a visible one was removed or edited |
| | `HideIsComplete` | an undisturbed request leaves one visible copy of each book |
| | `ScannedIsCovered` | a file of a scanned archive that was skipped as a duplicate is still in the catalogue, or in an archive yet to be scanned |
| `bots` | `BotMeansRow` | a user whose operations did not overlap has no bot but the one their row names, after each step and each failure |
| | `MapsAgree` | for the same users `bots` and `uuidToBots` hold the same bots, also after tokens changed hands and after a restart |
| | `AsAsked` | no change of an account is undone by a request about something else, unless two of them overlapped |
| | `LinkServes` | a link by e-mail works until it is used, has expired or was replaced, and not afterwards |
| `connections` | `AnswersArrive` | the result of a conversion reaches the client or its connection has ended, however many wait for the channel |
| | `GoroutinesEnd` | a closed connection leaves no goroutine behind but those that send to a full channel nobody reads |
| `converted_files` | `WholeDownload` | a download sent to its end is the whole book, unless a conversion wrote to the file meanwhile |
| | `ReadyIsThere` | a result is there until a download asks for it or an hour has passed |
| `sessions` | `OutStaysOut` | a session logged out while nobody used it is not brought back, nor its theme |
| | `RefreshOnce` | a refresh token that was exchanged or logged out is refused from then on |
| | `DropsAll` | when a user's keys have been gone through, none of his sessions would be let in |
| `conversations` | `HistoryHolds` | messages are in order, none twice and no more than have room, and cleared ones do not come back, though handlers write over each other |
| | `PagesOfTheSearch` | turning pages stays on the pages of the search it began with, though each is made again from a text that is cut and trimmed |
| | `PromptWaits` | a question waits until it is answered or expires |
| `texts` | `PreviewFaithful` | the portions of a preview hold every block once and in order, each note where it is cited, the pictures shown and no other, and anchors that are unique; no book is refused that fits |
| | `TextFaithful` | no text of a body is lost or doubled but what part 2 names, and each paragraph's kind is that of its surroundings |
| | `EpubFaithful` | every entry is in the EPUB once and in order, links to notes and to the ids of the body land, and so do the contents, pictures shown are packed, and the package document lists the files there are |
| | `MetadataFaithful` | title, authors, series, annotation, date, cover and sample are those of the book, not of its translation, its original or its file, also when only the description could be read |
| `administration` | `OnePreview` | an approval brings in exactly the selected fields of one preview that was the only one pending |
| | `RowsAgree` | authors and genres of a book come from one transaction; a cover file is there, and whole, exactly when the row says so, unless an approval failed once it had touched the file |
| | `StatsHold` | the flags of a collection have a goroutine behind them, and the counters of a finished import stay those of its items |
| | `CacheFollows` | the next import of a pair that names anything gets what was resolved last |
| | `FixScanHolds` | no book is counted twice, every listed book is counted, and who has a cover flag has a picture |
| | `CoverKept` | a scan never takes a cover flag away |
| | `LedgerTells` | the ledger lists what the database holds, and nothing it holds is run again |
| | `PlanTold` | a run does what the dry run before it announced |
| `baseline_cut` | `NeverReplays` | violated: see part 5 |

Most statements have an exception ("unless ..."), kept by history variables that no
guard reads; the exact words are at each property. An exception names a behaviour
of the code, so that what remains is exactly what the code keeps.

### Bounds, and why they are enough

* `preview`: two books, one of which no gate lets through, compete for one slot,
  so that a slot can be refused and must be returned by a build that fails
  early; two parts (one chunk, one image) and the manifest are the shortest entry
  with a first, a middle and a last write. Timeout 2 and command timeout 1
  are the smallest that satisfy the assumption; a TTL of 6 leaves room for an entry
  with more than two timeouts and a command to live, one between that and its tail, and the tail. One reader suffices: readers meet only in `Join`, and
  a flight that lost its reader is joined by the next request of the same one.
* `scan_sessions`: two sessions, so that a late tick of the first meets the
  second; two archives, so that the last is not the first; one caller, whose
  requests overlap with both goroutines. The theorems cover more callers.
* `duplicate_scan`: five books through a channel of four (two workers), so that
  it fills up; batches of two, so that some counts are reported and the last is
  not. One job: jobs meet only in `EnsureOne`, and the theorems have any number.
* `catalogue`: two archives that share a book, both copies older than the md5
  column, and a second book with a genre in one; three rows ever inserted and one
  edit by hand. That is enough for a winner to be deleted while a request hides,
  for a copy to be inserted after the winner was chosen, and for a reset to meet
  a scan. Two competing hiders are left to the theorems, whose number is not bounded.
* `bots`: `Bots` has two users, of whom both try token 2, so that it can be shared (an
  administrator's update does not look for another owner) and passed on; token 1 may
  be revoked; three UUIDs, so that a user can get a second one and the other
  still has one; one caller beside the health check. `Accounts` has two
  ids, two requests and two passwords, and either one login with two links, so that an account can be deleted and
  registered again and a link replaced, or two logins that differ in case only, one link
  and at most one request that changes a row without it; a
  link lives for a tick. Requests and passwords are symmetric.
* `connections`: three conversions for a channel of one, so that one fills it, one waits
  and one comes later; two pings or broadcasts between them.
* `converted_files`: one book (books share nothing); three conversions, so that a file is
  created, truncated and created again after its deletion; two downloads; two blocks,
  so that a file can be half written.
* `sessions`: one user; two requests; lifetimes of one, one and two ticks out of two, so
  that an access token expires before its key and the key before the refresh token.
  The theorems have any of these.
* `conversations`: two handlers, three messages in a room of two, the second of length three,
  so that the first goes for it, it stays alone though there is no room for it and goes for the third; pages of two
  of at most three books; four searches, one of them with a title in quotation marks that cannot be told
  from title and author.
* `texts`: `Portions`: documents of up to four items of ten shapes (headings, linking,
  oversized and illustrated blocks) with and without notes that cite each other, and
  ceilings of 12, 16 and 17 that each are met by some of them. `BookText`: bodies of up
  to seven elements, two levels of sections and three runs of text. `Epub`: bodies of up to four
  entries of ten shapes, with and without notes, and four sets of pictures. `Metadata`: files of
  eight parts of the schema, each with the elements its hazard needs: nine for two authors with
  both names, seven for two pictures and an image; a text of one piece more than the sample takes; a second body;
  three tokens behind the break, of which two may be overwritten.
* `administration`: `Rescan` one book, two requests (a third meets no other state:
  a row lock and at most two transactions are all that two can wait for), two pending
  rows, one edit. `Curated` two items, one with several candidates and one without names, for which the model may suggest a
  known pair, and two starts of loops. `Migrate` two runs at once and three in all, four files with the boundary in
  the middle and one that may run again. `FixScan` one worker with four books in three archives, so
  that the channel fills up, or two workers with three books; one deed of an
  administrator.
* `baseline_cut`: one run after another, two files, the first before the boundary.

`CHECK_DEADLOCK FALSE` stands where a bounded counter (sessions, jobs, runs, messages)
ends all work, or where nothing is left to do.

### Fairness, and why the code justifies it

* `Preview`: `Tick` (time passes), `TakeSlot(b)` (a `select` with a default never
  blocks) and `CutOff(b)` (every blocking call in the flight watches the build
  context: `awaitCmd`, the loader, the parser and renderer, the gates before
  each write). Nothing is assumed of Redis or the archive: they may hang for ever.
* `ScanSessions`: `Scanner(s)` and `Fixer(s)`: a goroutine that can run does, and
  the work of one archive or fix scan is finite. Requests, ticks, panics and
  crashes are not fair.
* `DuplicateScan`: `Goroutine(j)`: the feeder or one of the workers moves on when
  one of them can. It does not say which, so the property cannot rest on a
  favourite worker.
* `Connections`: weak for a write (which has a deadline), for leaving the manager and for
  the reader's end of a closed connection. Strong for the writer's `Take` and `Quit`, because Go's
  `select` chooses at random among what is ready, and for the senders to the channel,
  which a channel serves in their order. A conversion is not assumed to end, since `kindlegen` runs
  without a time limit; nor does a client have to send anything or to go.
* The other modules have no liveness property and no fairness.

## 4. What is proved

The proofs are in `*Proofs.tla`; every theorem is of the form `Spec => []P` or a
refinement, for every value of the constants that the module's named assumption
allows. Each follows from an inductive invariant: `IInv` in the module; `DataOK`,
`SlotAccounting` and `TailInv` in `PreviewProofs`, and there `PackInv` for `Portions` and `TextInv` for `BookText`; `EpubInv` for `Epub` in
`ConvertedFilesProofs`; in the other modules about several components `AccountsInv` and `ConversationsInv`, `MigrateInv` and `PlanInv`, `FixInv`, `CuratedInv` and
`RescanInv`. Each was first checked by TLC on a small instance.

| Theorem | States | Argument |
|---|---|---|
| `SlotSafety` | `TypeOK`, `SlotAccounting` | data types and slot count are inductive together; each return of the flight removes one element of `Holders` and one slot, or neither |
| `PoolRefinement` | `Spec => PoolSpec` | `running` is `Holders`; only `TakeSlot`, `Finish` and `Restart` change it |
| `TailSafety` | `TailInv` | see below |
| `WholeSafety` | `WholeUntilTail` | from `TailInv` |
| `NeedlessSafety` | `NoNeedlessBuild` | `NeedlessInv`: what a flight that began on an ample entry has left of its budget is less, by the tail, than what the manifest has to live; with `TailBound` both looks then find manifest and first chunk |
| `PackSafety` | `PreviewFaithful` | `PackInv`: see below |
| `TextSafety` | `TextFaithful` | `TextInv`: see below |
| `EpubInvariant`, `EpubSafety` | `EpubInv`, `EpubFaithful` | `Splitting`, `Rendering`: see below |
| `ScanOwnership` | `Owned` | the clock (`last` bounds the IDs in the states), ownership and the types |
| `ScanCompleteness` | `CompletedIsWhole` | `Course(s)`: at each stage, done + left (+ the one in hand) = total |
| `ScanWholeness` | `CompletedIsWhole` | `Flow(j)`: counted + queued + in a worker's hand = sent |
| `StopSafety` | `StoppableIsLive` | `Requests`: a created job is launched by the one request that created it |
| `BlockSafety` | `BlockedOnlyByLoss` | `Settled`: a goroutine about to leave has settled its row, or failed to |
| `CatalogueTypes` | `TypeOK` | flags and references are those of existing rows |
| `HiddenVisibility` | `HiddenHasNewer` | `Groups`: the winner in hand is the newest of its group and, while it exists, still a copy; `Rows`: IDs are never reused |
| `HidingCompletes` | `HideIsComplete` | `Clears`, see below |
| `KeeperSafety` | `KeeperIsNewer` | the same: the `UPDATE` of a deleted winner's copy is refused by the foreign key |
| `ScanCoverage` | `ScannedIsCovered` | `Seen`: the files before the one in hand are in the catalogue or in doubt |
| `BotTypes`, `UrlOwnership` | `TypeOK`, `OwnUrl` | `Owned`: what a request carries is a UUID of its user; `Fresh`: a drawn UUID belonged to nobody |
| `NoStrayBot` | `BotMeansRow` | `Undisturbed`, see below |
| `MapsAgreement` | `MapsAgree` | from the two above: two bots of one user with one UUID would have the same token |
| `LedgerSafety` | `LedgerTells` | `Untouched`, `SeenIsTrue`: until there is a ledger nothing has been done, and who saw none is right; `BaselinesAlone`: a run that baselines has the database for itself; `Listed`: from then on the ledger lists all that may not run again |
| `PlanSafety` | `PlanTold` | `Faithful(r)`: in each step of a run that is alone, what it has done and what it has left to do are what was announced |
| `FixScanSafety` | `FixScanHolds` | `InHand`, `Counting`, `Coverage`: an archive is in the feeder's, the channel's or one worker's hands, and what is in none of them is counted; `Covers`: who is about to write a flag has the picture |
| `CoverSafety` | `CoverKept` | `Covers`: until a book's turn has come its flag is the one the query read, and what is about to be written is that or better |
| `StatsSafety` | `StatsHold` | `ImportGoesOn`: what the import has not reached is not there yet; `BasesHold`: a loop that began after the import writes back the import's own counters |
| `CacheSafety` | `CacheFollows` | `Deciding`: until a decision is kept, whoever made it has the book of the pair's last item |
| `RowsSafety` | `RowsAgree` | `Locks`, `DeletesAll`, see below; `CoversHold`: on a book outside `raced` and `torn`, until the approval that selected the cover touches the file, file and row agree |
| `ApprovalSafety` | `OnePreview` | `ReadsSole`: what an approval has read was the only pending row at some time since it began; at the commit `Locks` and `DeletesAll` say that nothing else comes in |
| `AccountSafety` | `AsAsked` | `Steady`: what a request read is still the row, but for what was changed since by one that overlaps with it |
| `LinkSafety` | `LinkServes` | `LinksOnce`, `OldLinks`, `SpentGone`: a link is drawn once, and who deletes it has used it |
| `HistorySafety` | `HistoryHolds` | `Lines`: what is stored and what every handler is about to store are conversations |
| `PagesSafety` | `PagesOfTheSearch` | `Sound`: what a stored search is made again from is what was searched for; the lemma `CutBack` about the text cut at its first "by" and the marks around a title |
| `PromptSafety` | `PromptWaits` | `Waited`: nobody is answering while a question waits |
| `DownloadSafety` | `WholeDownload` | `Wrote`: the conversion that wrote a file as far as it got; `Sound`: the file of an undisturbed download has all its blocks |
| `ResultSafety` | `ReadyIsThere` | `Named`: the name stands for a file some conversion wrote; `Safe`: no download or sweep that could remove a ready result is under way |
| `SessionTypes` | `TypeOK` | `Timely`: a key lives no longer than a session, so what is left of it is a time to live |
| `LogoutSafety` | `OutStaysOut` | `Gone`: no request is left that could set a key of the pair |
| `RefreshSafety` | `RefreshOnce` | `Marked`: the entry lives as long as the token |
| `DropSafety` | `DropsAll` | `Listed`: a key still there is on the list of the request that drops it |

Some of these invariants deserve a word.

*The tail of an entry.* That a manifest's parts are there is not inductive, and
near the end of the entry's life it is false. What is preserved is a bound
between clocks: a part never expires more than `Timeout + OpTime` before its
manifest (`TailBound`). That holds because a flight's parts are as fresh as the
time it has spent (`FlightFresh`), and a manifest's SET that outlives the
deadline does so by at most one command timeout (`LateFresh`). Ticks preserve all
three, since every clock moves at once.

*Ownership.* `Owned` alone is not inductive: a start that assigns the state a
session ID could meet an old goroutine of the same ID. `Clock` says that no
state names a session not yet started.

*Hiding.* When a request reaches a copy, the winner it chose may be gone, be
edited, or no longer the newest. Deletion puts the content in `lost` if the row
was visible; a newer copy only helps; and a row with the ID remembered is the
same row, because the sequence never goes back.

*Stray bots.* That a user's bot is the one in the row is preserved only because
of what an operation knows: until it writes a row, it has made sure that no bot
of the user has another token (`RequestKnows`, stage by stage; `CheckKnows` for
the health check and the bots still in its snapshot). That knowledge is lost as
soon as a second operation on the user begins, which is what `mixed` records;
operations on other users can take a bot away but never give one (`TidyElsewhere`).

*The ledger.* What a run decides, it decides on two reads: whether there is a ledger
and which files it lists. Both may be old when they are used. The invariant says how
far they can be wrong: a list can only have grown, since nothing is ever deleted from
the ledger, and a file that another run has applied meanwhile fails, with its whole
transaction. Nothing protects the baseline in that way, which is why the theorem
excepts two runs before its end (`crossed`), and why the invariant has to follow
each place of the one run that does it.

*Logging out.* That no key comes back is true because of who is under way, not of
what is stored: a request sets a key only if it found one (or makes a new pair) before,
and the pair is recorded as out only when no such request is left. Then the
invariant keeps it so: no key, hence nobody passes the check, hence no key.

*Hiding completely.* That an undisturbed request leaves one visible copy of each book
says nothing while it runs. `Clears` follows it: a content that is neither on its list nor
in its hand is done, and of the one in hand the newest copy wins and the others are
hidden or on the list of ids. A step of anyone else that could spoil this, an insertion
above all, takes the request out of `calm`.

*The row lock.* An approval deletes and inserts a book's junction rows in statements of
their own, and two of them may be between those. What keeps the rows of one transaction
together is the lock on the book row, but only if a column of that row was selected
(`Locks`); then what the `DELETE` found is all there was (`DeletesAll`). For a book approved
without such a column (`loose`) nothing holds it, and the property excepts it.

*An announced migration.* The dry run takes its sets from one look at the database, the
run from several, one of them after its own baseline. `Faithful` adds up in each step
what is done and what is left; that they agree rests on `Untouched`: without a ledger
table nothing is listed, so the run that creates it starts from the same.

*Accounts.* A request writes back every column it read. `Steady` says that the row is still as it
was read, until two changes overlap, which only those can who are between read and write (`Mid`).
For links it is the order of their deletion that matters: a request that is about to delete the key
of a used link has that key alone (`Used`), so a newer link under the same login is not deleted
with it while its owner counts on it.

*Turned pages.* The stored search is text, and the proof is about what `Cut` makes of it: the first
"by" of title, "by" and author is the one in the middle, unless the title has one, and a title is
itself again without its marks, unless it has them.

*Portions.* Here the data has no bound: a document of any length, any links, notes and pictures. An
induction over numbers is the lemma `NatsIn` (a set that holds 0 and with n also n + 1 holds every
number), and three operators are unfolded by it: `SumFunction` does not depend on the order in
which it takes its arguments and grows with them (`SumType`, `SumBelow`, `SumParts`),
`FlattenSeq` of a longer list is the shorter one's with the last part behind it (`FlattenAppend`), and
the walk of `Flatten` gives each block an anchor nobody has (`AnchoredSound`, which needs that among
more candidates than are taken one is free). `PackInv` then says where the packing is: the portions
together are the first `next - 1` blocks, each has the notes its blocks cite, and, as long as no
block was measured alone (`Measured`), the estimate of the current portion bounds what it
renders to (`Fits`). That the draft is such a bound is `UpperPlaced` and `RenderedFacts`:
a link is longest where its target is a note, and a portion grows by the draft of the block that
goes into it. From this follow the refusals: a block refused in a portion is too large in one of its
own (`AloneAbove`), a refused book really has more bytes (`BookTold`), and a portion
overflows only in a book with a block measured alone (`OverflowTold`). The pictures are taken in the
order of their ids, so the first m met are the m with the lowest rank (`NextPicture`).

*The words of a file.* A file may be of any length and its elements of any depth; the parser keeps flags
where a tree would need a stack. `Nesting` is what the schema says of the list of open elements: what may
stand below an element at any depth (`After`), and which elements stand in one of another kind (`Grounds`).
As long as no flagged element stands in one of its own name, the flags are exactly the flagged elements open
(`FlagsTell`), a text block is held if one of the open elements is a block (`BlockOpen`), and table, row and
cell are held if those are open (`TableOpen`). `SoFar` then accounts for every run of text met: those of the items,
followed by what waits in the row, the cell and the open block (`Pending`), are the runs outside titles, of
body or notes, in the order of the file. Each end of an element moves a part of `Pending` one place on,
which `FlattenSeq` does not notice (`FlattenNext`, `FlattenConcat`). At the end nothing is open, so nothing waits.

*The files of a book.* While the document is cut into chapters, `Splitting` says where each entry is: the chapters,
the section under way and the paragraphs that wait for the next chapter are, in this order, the first `entry - 1`
entries. A step of `flattenSection` moves the boundaries and never the order, and since a section is
noted as emitted (`own`) once it has its chapter, none gets a second. At the end nothing waits, so the chapters
are the book (`Split = UpTo(...)`). `Rendering` then says that the files are those of the chapters so far and that
the sections met have one anchor number each: what a chapter is written as does not depend on when it is,
since a section's number is the same before its chapter is rendered and after (`SequenceStays`). What the
package has to keep follows from the files alone, at the last step. Each file is accounted for by what it tells of the book
(`Told`): pages other than chapters tell nothing, a chapter the entries of its part that have text, so that the pages of
the spine, one after the other, tell the book (`EachFlatten` exchanges the two orders of flattening). Each
link is good where it is written (`GoodAtoms`), because it names a file that `Lands`, or an id nobody collected; and for every
way a link gets its file there is a lemma that its anchor is written there (`LinkLands`). The lists of the package document have
elements of distinct kinds, so that their ids differ (`TaggedConcat`).

Assumptions, all of them on sizes and on which constants differ, and evaluated by TLC
in every run of the module: `PreviewAssumption`, `ScanAssumption`, `DuplicateScanAssumption`,
`CatalogueAssumption`, `BotsAssumption`, `AccountsAssumption`, `NoAccountAssumption`, `RescanAssumption`,
`CuratedAssumption`, `MigrateAssumption`, `FixScanAssumption`, `ConnectionsAssumption`,
`ConvertedFilesAssumption`, `SessionsAssumption`, `ConversationsAssumption`, `PolicyAssumption`,
`DocsAssumption`, `FormsAssumption`, `SchemaAssumption` and `DocumentsAssumption`. The theorems use those of the module they are about only.

`RescanAssumption` has a book at all, since its model keeps the notes of a request without
one on an arbitrary book. `ConversationsAssumption` says of the words only that "by" is one, of the messages that they have a length, and
of the searches asked for that each has the parts of its type (`Asked`). `DocsAssumption` has documents
with finite lists and distinct places of the pictures in the order of their ids. `FormsAssumption` is about the
spelling of anchors: no two invented ones are alike, and a link to a note is at least as long as one to a block,
since the note's anchor is `pv<n>-note-` and the key (`preview_render.go:131-135`). `SchemaAssumption` says which
elements of an FB2 file stand in which, as far as its text hangs on that: text only in blocks, cells and what
marks text in them, verses in poems, cells in rows of tables, nothing but paragraphs in a title. It is the schema of
the format and not a rule of the parser, which drops a text that stands elsewhere; the limits stay any numbers. `DocumentsAssumption` gives the parts of a
document their form; that the break between two stanzas has no id is so because the parser makes it
itself (`fb2_body_parser.go:979-980`).

Only model-checked:

* `FlightsEnd`, `ScansEnd`, `JobsEnd`, `AnswersArrive` and `GoroutinesEnd`: liveness under fairness
  is out of the prover's reach.
* `MetadataFaithful`: it compares what the handlers of `FB2Parser` have kept with the tree of the whole file,
  element by element and each with rules of its own. The inductive invariant is not worked out, and
  what the second pass keeps is a fold over the tokens (`FinishAgain`), whose value for every file is
  an induction over data.
* `NeverReplays`, which is violated.

## 5. What the code does not keep

One disagreement of code and comment has a run of its own, whose trace is the explanation:

| Run | Property | What happens |
|---|---|---|
| `baseline_cut` | `NeverReplays` | "Such a database is baselined instead" (`migrate.go:51-55`, `src/README.md:197-198`): the ledger is created before the older files are recorded in it; a run that ends in between leaves a ledger without them, and the next run executes the first file over the live tables |

Others are behaviours of the models which the properties except by name or allow:

* `preview_service.go:543`, "a complete entry" at 523: `cachedEntry` looks at the manifest and
  chunk 0; near the end of the entry's life other parts have expired before them
  (`WholeUntilTail` says from when on).
* `book_scan.go:191`, "Mutual exclusion with fix scan": each start checks the other kind under
  the other's mutex and then starts, so that both pass; a single-archive scan does not look at all.
* `book_scan.go:652`: a tick of a single-archive scan sets `totalBooks`, then the report's
  number is added to it: the status counts the archive twice.
* `duplicates.go:434`, "Mutex to ensure only one scan runs at a time" at 59: the mutex is released
  before the job is created, so two scans can run.
* `duplicates.go:407`, "First book (highest ID) is the winner - keep it visible": a copy that was
  hidden before and is elected later stays hidden, and with it every copy.
* `scan_status.go:184`: the reset deletes what refers to an archive's books except the genre
  links; the deletion fails at COMMIT for any book with a genre.
* `bot.go:955`: the health check clears the token of the user it noted at its start, which
  may by now be a new and valid one; `routes.go:88`: who else has a token is looked up
  before it is written.
* `fix_scan.go:273`: a panic is recovered before the progress goroutine is told to stop: the
  goroutine and its ticker stay.
* A fix scan cancelled while its feeder does not wait for room is reported as completed;
  one that read a cover flag before an administrator changed it writes it back.
* `rescan_service.go:410`: a preview of a file whose every field was approved may list its series or its authors
  again (part 2, Rescan).
* `epub_generator.go:1242-1256`: a link from a chapter to an id inside a note leads nowhere.
* `database/users.go:17-27`: an account whose login differs from an earlier one's in case only cannot be
  logged in to.
* What part 2 says of `Rescan`, `Curated`, `Migrate`, `Sessions`, `Accounts`, `Conversations`
  and the four text modules beside their properties.

## 6. What is not modelled

`PROJECT.json` lists each component with its status and reason. In short:

* sequential functions of their input without state: the choice of an encoding and the
  repair of broken XML, the second reading of a file the decoder gives up on in the middle
  (`parseFB2BodyLoose`), the list of differences of a rescan (`calculateDiff`), the wording of XHTML, OPDS rendering, e-mail texts; the decoding
  and scaling of pictures;
* search: read-only SQL, whose ranking is the database's;
* stateless middlewares, and the counter of log-ins, which only refuses for a while;
* one statement or one file per request: genres, posters, the list of users, invites,
  favourites;
* authors, series and covers in `Catalogue`: written in the same transaction as
  the book's row, and no property there depends on them;
* webhooks at Telegram and the linking of an account with `/start`; answers, keyboards and
  downloads of the bots;
* calls to the language model and their cache of immutable answers;
* scan events (their delivery is in `Connections`), configuration, the measuring
  tools, the frontend.

## 7. What could come next

1. Composition: `ScanSessions` as the scheduler of `Catalogue`'s scan, with its
   single scan proved from `Owned` and no longer assumed; `FixScan` below it.
2. The repair of broken XML, the choice of an encoding, the limits in
   search, the scores of the collection matcher, as algorithms against
   reference definitions.
3. Linking an account with `/start` beside the operations of `Bots`.
