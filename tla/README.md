# Personal Inbox in TLA+

Personal Inbox collects the mail and the messages of one person, lets a
language model rate how urgent each is, and shows them in a live feed. A Go
process (`src/backend`) polls Gmail and Telegram, keeps everything in Postgres,
caches two answers in Redis, and streams changes to a React client
(`src/frontend`).

This directory holds TLA+ modules for the parts of that process in which order
matters, TLC configurations that check them on small instances, and proofs,
checked by TLAPS, of their most important invariants for all values of the
constants. `PROJECT.json` is the index: which lines of the source each
definition stands for (`map`), the runs, the hazards of the code and the
properties that watch them, the disagreements found, the theorems.

1. [The system](#the-system)
2. [Modules](#modules)
3. [How the modules correspond to the code](#how-the-modules-correspond-to-the-code)
4. [Runs](#runs)
5. [What the runs show that the documents do not say](#what-the-runs-show-that-the-documents-do-not-say)
6. [Fairness](#fairness)
7. [Proofs](#proofs)
8. [Only model-checked, and not modelled](#only-model-checked-and-not-modelled)
9. [Plan](#plan)

Run everything from this directory: `tlc -workers 2 -config MC_bus.cfg MCEventBus`
checks one instance (`PROJECT.json` names the module of each configuration),
`tlapm EventBusProofs.tla` checks one module of proofs.

## The system

| Component | State it keeps | Operations | Talks to |
|---|---|---|---|
| Ingest (`services/ingest`) | none of its own; rows of `message` | store a letter or post once, publish `message.created`, queue it | Postgres, bus, analysis queue; called by both synchronisers |
| Analysis worker (`services/analysis`) | an unbounded in-memory queue, the row in hand | pop, build the request from row, criteria and recent overrides, ask the model with retries, save, publish | Postgres, model provider, bus |
| Message handlers (`routers/messages.go`) | the row read at the start of a request | mark read, set the level by hand | Postgres, cache, bus |
| Profile handler (`routers/me.go`) | the user row read at the start | save criteria, theme, density; re-analyse everything | Postgres, queue, cache |
| Event bus and stream (`events`, `routers/stream.go`) | ring of the last 200 events, their number; a cursor per open stream | publish, since, subscribe, poll once a second | every writer; browsers; the cache drops hang on it |
| Connections (`postgres/connections.go`, `routers/connections.go`) | a row per source: state, credentials, mark, times | sign in, disconnect, save after a round | Gmail, Telegram, scheduler |
| Scheduler (`services/scheduler`) | the rows of a round | a round every `SyncInterval`: the active sources one after another | both synchronisers |
| Gmail (`gmail`) | `sync_cursor` (a historyId) | import the newest letters, then follow the history | Gmail's API, ingest |
| Telegram (`telegram`) | `last_sync_at` | read the freshest dialogs, of each the newest messages | Telegram's API, ingest |
| Cache (`redis`) | the cards and the summary of each period, 45 seconds | read through, drop after a write | read handlers, writers, bus |
| Sign-in (`redis`, `routers/connections.go`, `telegram`) | OAuth state, pending Telegram login, both with a time to live | begin, take once, confirm, password | Gmail, Telegram |
| Feed and summary queries (`postgres/queries.go`, `routers/summary.go`, `routers/sources.go`) | none | filter, order, search, count | read handlers |
| Browser (`frontend/src`) | cards, filters, open message, summary, step of sign-in | load, apply events, edit | HTTP and the stream |
| Model provider (`openai`) | none | one call, one parsed answer or an error | analysis worker |
| Database access (`postgres/db.go`) | the table of applied migrations | open, migrate file by file, number placeholders | every process at its start |
| The one user (`postgres/users.go`) | its row | find, or create on an empty database | every request |
| Demo data (`services/seed`, `cmd/seed`) | the place in the feed or in the live queue | load the feed, play the live queue | Postgres, bus; beside requests |
| HTTP server, configuration | — | — | — |

Goroutines are few: one runs the scheduler, one the worker, one each HTTP
request and each open stream. They share Postgres, Redis, the queue and the
bus. What makes the code hard is the following.

- **Rows are written whole.** `SaveMessage`, `SaveUser` and `SaveConnection`
  write every mutable column of the copy their caller holds; none looks whether
  the row changed since it was read, and no transaction spans a read and its
  write. Between the two lie a model call with its retries, or a whole round of
  synchronisation.
- **Work is remembered in memory only.** The queue of the worker is lost with
  the process; nothing looks for rows left in `PROCESSING`.
- **Order carries meaning.** A change of the criteria has to overtake verdicts
  that are being computed; the event of a message has to come after its row; a
  cursor has to be read at the same moment as the ring; a Gmail mark may move
  only over letters that were stored; a Telegram date only over time that was
  looked at.
- **Everything outside fails.** The model, Gmail, Telegram, Redis and Postgres
  can each fail at any call, and each failure has its own treatment.
- **Begun twice.** Compose starts the server again whenever it ends; the command
  that loads the demo feed opens the same database at the same time; both migrate
  it, both look for the one user, and neither has a lock of its own.
- **Limits.** 200 events, 200 letters of an import, 40 dialogs, 30 messages of a
  dialog, two minutes for a round and the same two minutes of overlap, three
  attempts at the model, 45 seconds in the cache.

What each component has to guarantee is stated as its properties below; every
place in the code where one of them could go wrong is listed under `hazards` in
`PROJECT.json`. A hazard that the code does not guard against is listed without a
property, with a note that says how the properties nearby except it.

## Modules

| Module | What it is |
|---|---|
| `MessageLifecycle` | rows of messages and user, queue, worker, ingest, message and profile handlers |
| `EventFeed` | what the stream promises: the abstract specification |
| `EventBus` | ring, numbers, cursors, streams; implements `EventFeed` |
| `Connections` | connection rows, sign-in and disconnection, the scheduler's rounds |
| `Synchroniser` | what the synchronisation of a source promises: the abstract specification |
| `GmailSync` | what rounds of Gmail bring in, page by page; implements `Synchroniser` |
| `TelegramSync` | what rounds of Telegram bring in, dialog by dialog; implements `Synchroniser` |
| `CacheInvalidation` | cached answers, readers, writers, drops, time |
| `OneTimeKeys` | what a key that is taken by `GETDEL` promises: the abstract specification |
| `SignIn` | the one-time keys of both services, the requests of a sign-in, the dialog that leads through it; implements `OneTimeKeys` |
| `FeedView` | the feed in the browser: the event held, the effects of a render, list, counts, requests and the handlers that answer them |
| `Migrations` | how a process opens the database: the migrations, statement by statement, several processes at once |
| `Setup` | extends `Migrations`: the first user, the demo feed and the live demo, beside requests |
| `SqlText` | what is done to the text of a query: placeholders, statements, patterns |
| `Queries` | extends `SqlText`: the feed under its filters, the summary and the cards as operators over rows |
| `Overview` | extends `Queries`: the summary screen, its handler and its cache; the queries checked over tables |
| `MC…` | the instance of a module that TLC checks: model values and small sets |
| `…Proofs` | theorems about a module and their proofs |

The modules meet at narrow interfaces, and each says at its head what it leaves
to the others: a letter that `GmailSync` or `TelegramSync` adds to `stored` is a
`StoreInsert` of `MessageLifecycle`; a `Publish` there is a `Publish` of
`EventBus`, and the callback the bus runs after its unlock is the writer's
`publish` state of `CacheInvalidation`, whose `owner` state is the worker's there; a round that is `Fetched` in
`Connections` is one that ends in `Save` in the two synchronisers; an `Exchange`
or a `SignedIn` of `SignIn` is where `SignedIn` of `Connections` begins. What
`EventBus` writes to a connection is the `wire` of `FeedView`. There a row changes
whole and at once; that two writers overlap is the matter of `MessageLifecycle`,
of which `FeedView` keeps one effect: a verdict may take back a read mark. The
tables that `Setup` opens are those of the other modules, which begin once there is
a user; its three requests stand for all that meet the demo. `Overview` reads rows
that stand still, since what a change does to a cached answer is the matter of
`CacheInvalidation`.

All constants have a named assumption (`ConstantsOK`), as weak as the code
allows. History variables, read by no action, are marked as such where they are
declared.

## How the modules correspond to the code

### MessageLifecycle

`stored`, `rows`, `user` and `overrideLog` are the tables of messages, of users and
of overrides, the last a sequence of levels for each message, in the order of the
inserts; `queue` and `closed` the two fields of the
worker's queue; `worker`, `syncer` and `req[h]` the locals of `Worker.run` with
`ProcessMessage`, of `Ingestor.store`, and of the handlers. One SQL statement,
one publication, one push or pop is one action; a goroutine's `pc` says which
comes next, and `row` is the copy it read and will save whole.

A message is reduced to the columns that decide something: `status`, the level,
the override, the read mark, whether an analysis took place and whether it
failed. Category, deadline, summary and the rest are written where the level is
and nowhere else. `basis` is a history column: the criteria under which the
stored level was asked for. Requests for theme and density are one kind of
profile request, with `want = NoCriteria`: `SaveUser` writes the criteria all
the same. A model call is an answer that passes `ParseResponse`, or a failure,
for whatever reason; `MaxAttempts` is the length of `RetryDelays`.

`Stop` closes the queue as the shutdown does; `Restart` is the end of the
process, in order or not, with the start of the next: the tables stay and
everything else begins anew. Nothing is read back at the start because the code
reads nothing back.

### EventFeed and EventBus

`Publish`, `Cursor` and `Since` hold the mutex and are one action each. `pc`,
`cursor` and `batch` are the locals of `handleStream`; `got` is what went out on
the connection. A browser that reconnects opens a new stream, which takes its
cursor only after it has answered the headers. `log` is the history of what was
published. `EventFeed` says the same without ring, trim and comparison: a
subscriber that has joined hears every later event of its user in order, except
what more than `Capacity` newer ones pushed out. The refinement maps the batch to
what is due and a polling stream's cursor to how far it has looked.

### Connections

`conn[k]` is the row of a source; its credentials are numbered in the order they
are granted, so that "the same credentials" and "older ones" can be said;
`cursor`, which stands for `sync_cursor` and `last_sync_at`, is the number of the
credentials it was obtained with. `req[h]` are the handlers that finish a
sign-in (`Lookup`, `InsertRow`, `SaveLogin`) or disconnect; the unique key of the
table refuses the second of two inserts. `sync` is the scheduler's goroutine:
`todo` holds the rows one `SELECT` returned for the whole round, and `SaveSync`
writes the copy back, in the state the round ended with. `Refused` includes what
`IsAuthError` takes for a refusal: an answer whose text has 401 or 403 in it,
among them Google's answer to too many calls. `wish` and `raced` are history:
what the user decided last, and whether the scheduler held a copy at that time.

### Synchroniser, GmailSync

`Synchroniser` is what both synchronisers promise, without pages, dialogs and
rounds: items appear and vanish at the source, are stored one by one, and are
passed, never to be looked for again, only when each of them is in the feed, is gone
or is on record as lost. In `GmailSync` the letters below the mark are passed, the
deleted ones gone, those skipped or missed lost; in `TelegramSync` the messages
that the date hides from the next round are passed, none goes, and those skipped
or late are lost.

Letters are numbered as they arrive; the mailbox's historyId is the number of
the next. `round` holds the locals of `sync` and `collectIDs`; one call of Gmail
is one action. Pages may have any size up to the one asked for, since Gmail does
not promise full ones; letters arrive, age past `GmailImportDays`, are deleted,
and history expires between any two calls. Any failure of the history call may be
taken for an expired history (`HistoryStale`): `isStaleHistory` looks for
`starthistoryid`, `404` or `not found` in the text of the error, and the text of a
broken connection quotes the address, with that parameter in it
(`gmail.go:379-389`, `527-534`). What Gmail answers is external,
modelled from how the code pages through it. `skipped` is what an import left
aside and `missed` what the mark passed unseen, two history variables that the
properties account by.

### TelegramSync

Messages carry Telegram's date, `lag` behind our clock; `wanted` says whether the
feed takes them (`incomingFrom`): one's own and service messages are no news but
occupy a place in the history. `round.seen` is how much had been posted when the
dialogs were listed. The round ends when the dialogs or the limit are exhausted,
looked at between dialogs only; only then does `last` move. `skipped` is what a
completed round did not reach and `late` what was posted behind its back and is
older than the next round will look.

### CacheInvalidation

The feed is a version number: each commit makes a new one. An answer is the
version it was computed from, and its age is how long that version has not been
the newest. A reader goes through `Hit`, or `Miss`, `Query`, `Fill`; a writer
through the commit, the publication if it has one, the listing of the keys and
their deletion. `Ops` are the kinds of writers: a read mark, which drops without
an event; a level set by hand, stored mail and the server's demo, which publish at
once; the worker's verdict, which first reads whose message it is (`ReadOwner`) and
is neither published nor dropped for when it cannot (`OwnerUnknown`,
`analysis.go:221-224`); and the silent ones, which are `SaveConnection` and all that
`cmd/seed` writes, whose bus has no hook. One unit of time is 15 seconds in the code's terms. `tainted` is
history: this entry is one that only its time to live will remove.

### OneTimeKeys and SignIn

`slot[k]` is the key of the user in Redis, for a state of Google or a pending
login of Telegram; both are numbered as they are made, and the number of a login
is also the code Telegram sends for it. `req[h]` are the locals of the four
handlers, with one state between any two calls: a login that was taken by
`GETDEL` is in the hand of its handler until it is used or put back. `tab[t]` is
the state of the screen in one tab, with the step, the code and the password
typed and whether it waits for an answer; `Answered` is what `sendCode` and
`confirmCode` make of one. A tab may be reloaded, its dialog closed and opened
again while an answer is on its way, its connection may break while the handler
goes on, and Google's page may send its answer again. An answer of class 400
(`restart`) sends the dialog back to its first step, any other error leaves it
where it is. `uses`, `login`, `disturbed` and `sentBack`, that an answer sent the
dialog back since it was closed last, are history.

`OneTimeKeys` leaves out the handlers, the dialogs and the ways in which things fail. A
token is made, taken from its key, put back (a login only), used, dropped or forgotten;
what is not under the key can be used only by whoever took it, and that uses it up. A
state of Google is put under its key as it is made, and over the one before, so that
the key never holds any but the last. The refinement takes `slot` for the key, and for
what is held the tokens that `req[h]` of some handler names (`Holds`).

### FeedView

`rows` is the table, each row with the number of the change that made it, counted
over all rows. `wire` holds the events sent and not delivered; `slot` the one event
`useStream` keeps, whether it was rendered or not; `effects` the effects React will
run after the next render. `Commit` runs them in the order of the file: the load,
then the event, which is inserted or replaced in the unfiltered feed and starts
another load in a filtered one. `view` is the open source, the filter on the screen
and the filter the last load was built with: a query typed is asked for 250 ms
later (`Debounce`), so that the two differ in between. `screen` and `counts` are
the list and its subtitle, `opened` the message whose details cover the list, and
`flight[r]` a request: asked, served (with the rows of that moment) or failed, and
answered in any order. What the handlers do to a row is in `ServeRead` and
`ServeLevel`. `Fails` includes the request the server obeyed and whose answer was
lost. `taken`, `missed`, `covered`, `loaded` and `uneven` are history: what the list
has taken in, what went past it, what something older replaced, what the last
answered load was for, and whether the counts were set apart from the list.
`turns` is the bound on clicks and failures. The cards of the sources, which are
reloaded with every event and by the poll of the fallback, the order of the list,
other filters than importance, unread and the search, and what the details show are
left out.

### Migrations and Setup

`schema` is what the committed statements have made, tables and columns by name,
and `applied` the rows of `schema_migrations`. `proc[p]` holds the locals of
`Migrate` and `applyMigration`, with what the open transaction of its file has made
and dropped (`made`, `gone`), which only that process sees (`View`). A statement
waits for a transaction that has touched the same table (`Held`), which is what
Postgres does with two `CREATE` or two `ALTER` of one name; after the wait it sees
what the other committed, so that creating it again fails. Every error is
`log.Fatalf`: the process is down, compose starts the server again and a person the
command, the latter `MaxRuns` times. The content of a migration is the table, the
things made and the columns dropped of each statement.

`users` are the rows of users by id, each reduced to its criteria; `conn` and `rows`
the sources and messages of each user. `actor[a]` holds the locals of a routine
(`PlayLiveQueue` of the server, `Seed` and then `PlayLiveQueue` of the command) or
of a request, one SQL statement at a time: `LocalUser`'s `SELECT` and `INSERT` are
two, as are the look for a message and its insertion. `SaveVerdict` writes the copy
made before the pause, unread; `SaveCriteria` writes the demo criteria over whatever
the row has by then. `overlapped`, `mixed` and `stranded` are history: two actors
found no user at the same time, the demo criteria raced a profile request, a live
message lost the one who would close it.

### SqlText, Queries and Overview

These are pure functions of the code, written as operators. A text is a sequence of
characters; `Modes` is the scanner that `rebind` and `splitStatements` share, with
literals, doubled quotes and comments; `Like` is Postgres' `LIKE … ESCAPE '\'`, which
`EscapeLike` has to be right for. A row has the columns a query looks at; time is in
hours from a midnight in UTC that was before every message, so that a day is 24 and an offset of a browser up to
14 (`MaxTZOffsetMinutes`). `Matches` is the `WHERE` of `FilteredMessages`, with one
conjunct per filter; `Newer` its order, and `InOrder` the list of a set in an order: each
row at the place that says how many come before it. `AtLevel` and `Picked` are the loops
over that list which count, or append, the messages of a level. `Overview` adds the screen: `period`,
`summary` and `loading` are its state, `flight[r]` a request with its `cancelled`,
and `kept` the answer the cache has for each period. The table is chosen at the beginning
from `Tables` and stands still. `TablesOK` says what a table may contain (`IsTable`): no two
rows of one key, and a level that is one of the four or none, which
`ParseResponse` and `handleSetLevel` see to.

## Runs

| Run | Instance | Distinct states |
|---|---|---|
| `lifecycle_safety` | 2 messages, 1 of them rated; 1 handler, 2 requests of 3 kinds; 2 criteria, 2 levels, 2 attempts; 1 failing statement, 1 restart | 2.0 million |
| `lifecycle_reanalysis` | the same with profile requests only and no failing statement or restart, with fairness | 88 thousand |
| `bus` | 2 users with a stream each, ring of 2, 5 events | 23 thousand |
| `connections` | 2 sources, 2 handlers, 2 sign-ins, 3 requests, 1 restart | 80 thousand |
| `gmail` | 3 letters, a limit of 2, pages of up to 2, 1 failure | 419 thousand |
| `telegram` | 3 dialogs of which 2 are read, 1 message of each, 3 messages, 1 failure, 3 instants | 2.0 million |
| `cache` | 2 answers, 1 reader, 2 writers, 2 writes, a time to live of 3, 7 instants | 4.1 million |
| `signin` | 2 tabs, 2 handlers, 2 tokens of each service, 5 requests | 2.3 million |
| `feed` | 2 messages in 2 sources, 4 filters, 2 requests at a time, 3 changes, 3 clicks or failures | 1.6 million |
| `setup` | a server and a command, 2 migrations of 2 and 1 statements, 2 seeded items and 1 live, 1 request, 2 runs of the command, 1 crash or failing statement | 1.1 million |
| `overview` | 278 tables of up to 3 messages, 2 periods, 7 time zones, 2 requests, 2 hours | 237 thousand |
| `lifecycle_override_lost` | the smallest instance that shows the disagreement | — |

What each shows:

- **`lifecycle_safety`** — A closed card always has a level and a failed
  assessment never leaves one blank, in the table, in every copy somebody may
  still save, and in every event (`CardsConsistent`). A message left in
  `PROCESSING` with nobody to close it gets there in one of exactly five ways
  (`OnlyKnownLeaks`): a restart, a failing statement while the worker has it, a
  push after the worker's exit, a handler's save of an older copy, the gap
  between `SELECT` and `UPDATE` of `MarkAllProcessing`. The code has no sweep,
  so this is the complete list of what a sweep would be for. The override log, which
  later prompts quote, and the row of the message part in one of three ways only
  (`LogAgrees`): the save after the log's insert does not happen, a copy that does
  not know the level is saved over it, two requests for one message save in the
  opposite order of their entries.
- **`lifecycle_reanalysis`** — Two changes of the criteria follow each other
  while mail arrives and the worker is busy. A re-analysis costs no message its
  verdict (`ReanalysisIsSafe`): a verdict of older criteria is at every moment about
  to be replaced, and one that fails leaves the one before. In the end every
  message is closed and rated under the newest criteria, as long as no message falls
  into the gap of `MarkAllProcessing` (`CatchesUpUnlessMissed`). The last event about
  a message is what the table holds (`LastEventIsCurrent`) when no handler publishes
  too.
- **`bus`** — The ring, the numbers and the cursors implement the abstract feed
  (`ImplementsFeed`): a stream hears the later events of its user in order and
  once, but for what left the ring, and what is published while it is polled
  arrives (`EveryEventArrives`) unless the stream ends or the ring overflows.
- **`connections`** — What a row says is true (`RowsAreTrue`): it is never half of
  one writer's and half of another's, connected and credentials go together, a
  mark never belongs to another account, and a source asks for a sign-in only when
  its present credentials were refused. The user's last word stands unless a round
  had read the row before (`UserDecidesUnlessRaced`). Credentials that were revoked
  are noticed (`RevocationIsNoticed`).
- **`gmail`** — Rounds do what the synchronisation of a source promises
  (`ImplementsSource`): the mark passes no letter that is not in the feed, gone, left
  aside by an import, or lost in the one known gap; no letter arrives below it and it
  never falls back; letters are stored one by one and stay. An import leaves letters aside only for age or
  number (`SkippedForReason`); every letter is dealt with in the end unless a
  deleted one blocks the history (`LettersArrive`).
- **`telegram`** — The same promise with a date for a mark (`ImplementsSource`):
  what it makes the next round pass over was stored or is on record as left behind,
  and no message is posted among what it hides. What is on record was not reached by
  a completed round for one of the reasons the product documents
  plus the unreadable dialog, or was posted during a round longer than the overlap
  less the difference of the clocks (`LostForReason`). Everything arrives or is one of those
  (`PostsArrive`).
- **`cache`** — A stale entry is about to be deleted, or is left to its time to
  live in one of five ways (`StaleIsBeingDropped`): an answer stored after a newer
  version, a write that drops nothing, a verdict whose owner could not be read after
  it was saved, a drop that failed, a restart; no answer is out of date for
  longer than the time to live plus the time one answer takes
  (`StalenessBounded`).
- **`signin`** — The two keys keep the promise of `OneTimeKeys`
  (`ImplementsOneTimeKeys`): a state or a login is under its key, in one pair of hands
  or gone, it is used from the hands only and once at most, with success or not, and a
  callback is accepted only with the state given out last; a dialog that asks for a code or a password asks for
  the login the server holds (`DialogAgrees`), unless one of the events listed
  there came between, and a password goes along with a code unasked only after an
  answer sent the dialog back to the phone. It does not follow that the right code
  signs in: a password that was refused goes along with the next one.
- **`feed`** — When nothing is on its way, the list shows what the server would
  answer for the source and the filter on the screen (`ListAgrees`), but for a
  message whose last change went past the list in one of the ways the property
  names. The subtitle counts what is listed, and what is unread of it unless a
  named event set the two apart (`CountsAgree`).
- **`setup`** — Whoever migrates at the same time and crashes wherever, the schema
  is what the applied files leave, files in order, each whole (`SchemaWhole`), and
  the server comes up again and again (`ServerComesUp`). One user and one demo feed
  result from any number of loads that crash and are repeated, unless two actors
  found no user at the same moment (`OneFeed`). A live message is closed by who
  inserted it, unless that one was stopped in its pause or a request held the row
  (`LiveCloses`).
- **`overview`** — The screen shows the summary of the period chosen on it, whatever
  answers cross, unless its load failed, and waits exactly as long as a request
  that counts (`ScreenAgrees`). The feed, the summary and the cards count the same
  rows and say of them what their labels say, at the edges of every window and in
  every time zone, and neither the top of the summary nor the urgent message of a card
  leaves out something that goes first (`RowsAgree`). A search finds what contains the
  text typed and nothing else; placeholders and statements are found in any mixture of
  literals and comments (`TextAgrees`).

Are the bounds enough? Each instance is as small as the interesting cases allow
and no smaller. Two messages let one be rated while the other arrives, is missed
by a `SELECT` or is pushed out of order; two attempts give a failure that is
retried and one that is final; two requests give a change that overtakes a
change. A ring of two under five events wraps with a stream in every position
relative to it. Two sign-ins replace an account by another; three requests add a
disconnection between them. Three letters under a limit of two leave one aside,
make two pages of different sizes, and give a deletion or an expiry on either
side of the mark. Three dialogs of which two are read, with a history of one,
leave a message out for each of the reasons. Two commits make an entry that is
older than an entry that is itself stale. Two tabs with two logins let one
overwrite or take the other's, and five requests take a login through code and
password with a request of the other tab in between. Two requests of the feed
are enough for two answers that cross, two events on the wire for one that replaces
another before it is rendered, three changes for a message that is created, rated
and read; they hold with four changes or with four clicks as well. Two processes
give a transaction that waits and one that finds its work done; two migrations, a
crash between them; two runs of the command, a feed that is half loaded and one that
is; two users, a race for the first. The tables of `overview` have a message on
either side of each limit, each pair of ages, each triple of ratings and each
mixture of flags; the texts searched have up to three characters, with both
wildcards, the escape and a capital among them.

`MaxRequests`, `MaxFaults`, `MaxRuns`, `MaxUsers`,
`MaxCrashes`, `MaxEvents`, `MaxLogins`, `MaxLetters`, `MaxPosts`, `MaxVersion`,
`MaxTime`, `MaxTokens`, `MaxWire` and `MaxTurns` are the only bounds, with the number
of requests of the feed and of the summary; each is a guard of the action it
limits. Deadlock is checked in `bus`, `gmail`, `telegram`, `signin` and `overview`,
where a poll or a round can always begin, a dialog always be opened or closed, a
tab always be reopened or a request answered. It is not checked in the others, where
the system may come to rest: all requests answered and the worker waiting, no source
connected, the demo played, or the bound on time reached.

Every property of a passing run is paired in `PROJECT.json` with a mutant: an
operator, defined next to the one it would replace, that has the mistake the
property is there for. Replacing the original by it makes TLC report the property.

## What the runs show that the documents do not say

One run expects a violation. It checks one sentence of the repository, and TLC
shows the steps by which the code does something else (`findings` in `PROJECT.json`
has the quotation).

| Run | The repository says | The code |
|---|---|---|
| `lifecycle_override_lost` | a level set by hand is not overwritten by a re-analysis (`docs/04-decisions.md:80`) | `ProcessMessage` saves the row it read before the model call, override included |

The passing runs name further ways in which something is lost, as the exceptions
their properties need. They are part of what the properties say:

- A restart loses the queue; a failing statement in `ProcessMessage` loses the
  message it has in hand; a message stored between the `SELECT` and the `UPDATE`
  of `MarkAllProcessing` is marked and not queued.
- A handler that sets a level publishes for itself, and its event may cross the
  worker's: a client that applies the events keeps the older one. A read mark,
  like an override, can be taken back by the worker's save.
- A request for the theme that overlaps one for the criteria saves the user row it
  read, which restores the old criteria, and starts no re-analysis
  (`routers/me.go:50` speaks of every message).
- Opening a message while the worker closes it can write `PROCESSING` back: the
  handler saves the row it read, and nothing queues the message again.
- The log of overrides keeps an entry whose level was never saved, or was saved over,
  and the next prompt quotes it (`LogAgrees`).
- A round that began before a disconnection saves its copy of the row after it, with
  the credentials and active, where `docs/03-data-model.md:55` and
  `docs/04-decisions.md:489` have a disconnection erase them; a sign-in made during a
  round is written over in the same way (`UserDecidesUnlessRaced`). Google's
  403 for too many calls is taken for a revoked access (`gmail.go:371`), which
  `RowsAreTrue` allows for: it takes for refused what `IsAuthError` does.
- An answer computed before a write can be stored after the drop of that write, so
  that for up to 45 seconds the user does not see the numbers
  `routers/cache_test.go:10` promises.
- An event is in the ring before the hook behind it has dropped the cache; the
  save at the end of a synchronisation drops nothing, nor does what `cmd/seed`
  writes; a client that leaves cancels the drop its write needs. A verdict whose
  owner cannot be read once it is saved is never published, and drops nothing.
- A letter deleted at Gmail after it entered the history makes every round end
  at it until the history expires. Letters that arrive during an import after its
  first page and before it reads the profile are never fetched.
- A Telegram dialog that cannot be read is passed over while `last_sync_at`
  moves on. The limit of the first import is looked at between dialogs only, so
  that it may bring 229 messages where `docs/00-product-spec.md:109` says 200. The
  deadline of a round is as long as the overlap, two minutes, which leaves no
  room for a clock that is behind.
- A login put back for its password overwrites a newer one requested meanwhile in
  another tab, whose code is then refused. Any callback takes the state that
  waits, a repeated or a stale one too, after which the right one is refused. A
  password that was refused stays in the dialog and is sent, unasked, with the
  code of the next attempt, until the dialog is closed.
- `useStream` keeps one event: of two that arrive before React renders, the first is
  never seen, and a new message it announced does not appear in the open feed, where
  `FeedScreen.tsx:69` inserts it, until the next load (`ListAgrees`).
- What is published while the stream is down is never asked for: the poll reloads
  the cards and the connections, where `docs/03-data-model.md:205` has it poll
  `/api/messages`. An answer to an older request replaces a newer list, and events
  that came between.
- The answer to a read mark opens the details again if they were closed meanwhile;
  a message opened twice before the first answer is subtracted twice from the
  unread ones. An event that comes between the erasing of a search and the load
  that follows is inserted into the list of the search.
- Two first requests on an empty database, or one beside the demo, create two users;
  `LocalUser` returns the first for ever after, and what was written for the second
  is seen by nobody (`OneFeed`). The demo writes its own state over a source that was
  signed in to, and its criteria over those of a request it crossed.
- A live message of the demo whose player was stopped in its pause stays in
  `PROCESSING`: the next player finds the row and passes it over (`LiveCloses`).
- When the summary of a period cannot be loaded, the numbers of the period before
  stay under its heading, or the screen waits for ever if there were none
  (`ScreenAgrees`).

## Fairness

| Specification | Fairness | Why the code justifies it |
|---|---|---|
| `MessageLifecycle!FairSpec` | WF of the synchroniser's, the worker's and each handler's steps | a goroutine that can run does; every model call has a timeout and every pause between attempts a timer; arrivals, faults and restarts are not fair |
| `EventBus!Spec` | WF of `Poll` and `Write` of each stream | a ticker per stream; a write to a connection returns or breaks it (`Disconnect` is always possible) |
| `Synchroniser!Spec`, `OneTimeKeys!Spec` | none | their promises are safety; what arrives in the end is `LettersArrive` and `PostsArrive` |
| `EventFeed!Spec` | WF of `Look` and `HandOver` | promised, not assumed: it follows from the former |
| `Connections!Spec` | WF of `StartRound` and `NextSource`, SF of `Answered(k)` and of `SaveSync(k)` | the scheduler's ticker; a network and a database that answer now and then. Weak fairness would not do: `Failed` disables both each time, and rounds go through other states |
| `GmailSync!Spec` | WF of `RoundStep` | the scheduler's ticker and a timeout on each call; a round's failures are bounded by `MaxFaults`, a deleted letter's are not |
| `TelegramSync!Spec` | WF of `RoundStep`, which includes its failures | the same, with a deadline for the round |
| `Setup!Spec` | WF of the server's steps of opening, its start among them; of a command's once it has begun | `restart: unless-stopped` of compose, and a database that answers; crashes and failing statements are bounded by `MaxFaults`, and nothing is assumed of the demo or of requests |
| `MessageLifecycle!Spec`, `CacheInvalidation!Spec`, `SignIn!Spec`, `FeedView!FeedSpec`, `Overview!OverviewSpec` | none | only safety is asked of them |

## Proofs

Eight modules hold proofs; TLAPS checks every step, for all constants that
satisfy the assumptions of their module (`ConstantsOK`, `FeedOK`, `TablesOK`): any number of messages, handlers, levels, streams,
sources, letters, dialogs, tabs, answers, rows, processes, migrations, and any limits, the bounds of TLC included. The proofs about
`FeedView` are in `EventBusProofs`, beside those about the stream that feeds it, and
those about `Overview` in `CacheInvalidationProofs`; that is why the names of
these two modules begin with theirs (`FeedSpec`, `OverviewTypeOK`) where the others
have `Spec` and `TypeOK`.

| Module | Theorem | What it says |
|---|---|---|
| `MessageLifecycleProofs` | `TypeCorrect` | types, and: ids held in memory are of stored rows |
| | `CardsAreConsistent` | `CardsConsistent` is an invariant |
| | `LeaksAreKnown` | the five ways to strand a message are all there are |
| | `LogStaysInStep` | `LogAgrees`: so are the three ways in which log and row part |
| | `LastEventIsTrue` | `LastEventIsCurrent`, while no fault, restart or edit of a message comes |
| | `ReanalysisIsSound` | `ReanalysisIsSafe`, under the same hypotheses and one profile request at a time |
| `EventBusProofs` | `TypeCorrect` | types and the bound of the ring |
| | `RingIsTheWindow` | the ring is the end of the log, for every `maxLen` |
| | `OrderIsKept` | a connection hears events in order and once |
| | `FeedRefined` | every behaviour of the bus is one of the feed (safety) |
| | `FeedTypes` | `FeedTypeOK`: types, and no card on the list is newer than its row |
| | `CountsAreRight` | `CountsAgree` is an invariant |
| | `ListIsRight` | `ListAgrees`: a list at rest is what the server would answer, but for what is on record |
| `ConnectionsProofs` | `TypeCorrect` | types; nobody saves a row that does not exist |
| | `RowsStayCoherent`, `RowsStayTrue` | `RowsCoherent` and `RowsAreTrue` are invariants |
| | `UserDecides` | the user's last word stands unless a round raced it |
| `GmailSyncProofs` | `TypeCorrect` | types and the limit of an import |
| | `RoundIsSafe`, `MarkIsSafe` | `RoundCovers` and `MarkCovers` are invariants |
| | `SourceRefined` | `ImplementsSource`: every behaviour is one of `Synchroniser` |
| | `SkippedIsForReason` | an import sets a letter aside for its age, its deletion or the limit only |
| `TelegramSyncProofs` | `TypeCorrect` | types and the limit of a round |
| | `RoundIsSafe`, `DateIsSafe` | `RoundCovers` and `DateCovers` are invariants |
| | `SourceRefined` | `ImplementsSource`: every behaviour is one of `Synchroniser` |
| | `LateIsSlow` | only a round longer than the overlap loses behind its back |
| | `LostIsForReason` | `LostForReason`: that, and a completed round leaves nothing behind without a reason |
| `SignInProofs` | `TypeCorrect` | types; a dialog waits as long as a request of its own |
| | `UsedOnce` | `OneUse`: a token that was used is nowhere to be used again |
| | `OnlyLatestLink` | `LatestLinkOnly`: a callback is accepted only with the last state |
| | `KeysRefined` | `ImplementsOneTimeKeys`: every behaviour of the keys is one of `OneTimeKeys` |
| | `DialogIsRight` | `DialogAgrees`: what a dialog asks for is what the server waits for, and a password is sent unasked only after an answer sent the dialog back |
| `CacheInvalidationProofs` | `TypeCorrect` | types |
| | `StaleIsDropped` | `StaleIsBeingDropped` is an invariant |
| | `StalenessStaysBounded` | nobody is sent what is older than a time to live and an answer's time |
| | `ScreenIsRight` | `ScreenAgrees`: what the summary shows is of the period chosen on it |
| | `ScreenTypes` | `OverviewTypeOK`: types of the summary's screen |
| | `RowsAreRight` | `RowsAgree`: the feed, the summary and the cards say of the rows what their labels say |
| `SetupProofs` | `MigrationsWhole` | processes that do nothing but open the database: `SchemaWhole` |
| | `SchemaStaysWhole` | the same beside the requests and the demo |
| | `LiveMessagesClose` | `LiveCloses` is an invariant |
| | `FeedIsOne` | `OneFeed`: one user, and the whole feed once, after any interruptions |
| | `TypesHold` | types; nothing runs in a process that has not opened the database |

The arguments:

- **MessageLifecycle.** `CardsConsistent` is inductive together with `TypeOK`
  because it speaks of every copy of a row and not only of the table: a save
  makes a copy the row, so each copy has to be fit for it. `LeaksAreKnown` is an
  action property and follows, action by action, from the inductive invariant:
  who covered a message before the step either covers it afterwards, has closed
  it, or takes one of the five steps. That ids in the queue are stored is needed
  there and is part of `TypeOK`. `LogStaysInStep` needs that only stored
  messages are in the log (`LoggedAreStored`), since an insert begins a row with no
  level set by hand; it follows action by action: a step that writes neither the log nor the row, nor ends the
  request between the two, changes nothing of `LogHolds`.
  `LastEventIsTrue` and `ReanalysisIsSound` have as hypotheses what the run
  `lifecycle_reanalysis` has as constants (`Calm`: profile requests only, no failing
  statement, no restart; for the second also one handler), for any mailbox, levels,
  criteria and numbers of attempts and requests. Each hypothesis is needed: with
  `"read"` or `"level"` in `Ops`, with one fault or with one restart TLC finds either
  property violated, with two handlers the second one (all of it is in the list of
  what gets lost, above). The invariant behind the first (`EventsInStep`) is that a row which differs from
  its last event is marked, in the queue, or in somebody's hand, and that the worker
  publishes what it saved unless the row was marked since. Behind the second
  (`VerdictsInStep`) is whether a message is still *coming* to the worker: a verdict
  being computed for older criteria belongs to a message that is, and what the worker
  read of a row's verdict is what the row still has, since nobody else writes verdicts.
- **EventBus.** `IInv` is `TypeOK /\ RingIsWindow /\ WrittenBeforeBatch`. The ring
  says nothing of cursors; that what is in a batch is newer than what was written
  and at most the cursor (`WrittenBeforeBatch`) is what makes order follow from a
  comparison. `SinceIsWindow` turns the search through the ring into a statement
  about the log, after which `FeedRefined` is a matter of matching actions.
- **FeedView.** That no card on the list is newer than its row needs the same of the
  cards on the wire, in the slot and in every answer, and that an answer about a
  message has a card of it (`FeedShapes`). For the counts, it is inductive that while
  nothing has set them apart from the list, a read mark is on its way once at most,
  for a message that is on the list and unread there (`ReadsCount`): that is
  what makes subtracting one right. Only finitely many messages have a row, one
  having been added at a time, so that the cardinalities exist with any set of
  messages; of the requests on their way the assumption is that they are finitely many.
  For `ListAgrees` the invariant (`ListInv`) speaks of every card that may come to be
  on the list, on the wire, in the slot of the stream or in an answer (`Bases`): it
  is the row; or something newer is on record as having gone past the list, or is on
  its way (`Out`); or only the read mark was set since, which is the one change
  without an event, and its answer is still to come, unless the filter hides the
  difference (`ReadSince`). The same is true of every card listed while no load
  is due (`ScreenFine`). It needs that two cards of one version are the same card, and
  that the last load's filter follows the screen's but for a search being typed
  (`Versions`). TLC confirmed it on the instance of `feed` before it was proved.
- **Connections.** `RowsCoherent` already speaks of the scheduler's copies.
  `UserDecidesUnlessRaced` is not inductive: it says nothing of the copies a
  round holds. `CopiesAgree` adds that every copy not raced carries the user's
  last decision, so that saving it changes no credentials. That a source asks for a
  sign-in only if refused needs the same of the copies: the round saves `reauth` on
  the credentials it used.
- **GmailSync.** `MarkCovers` needs `RoundCovers`: at each point of a round, what
  the mark is about to pass is covered already or in the hand of the round. The
  limit of an import is proved separately with the library's theorems about
  cardinality. `SkippedIsForReason` adds to it that the letters listed so far are
  the newest there are down to the point the paging has reached (`CompleteToPage`):
  an import that stops listing has reached the age, the end of the mailbox or the
  limit, whatever sizes the pages had.
- **Synchroniser.** What was passed is, in `GmailSync`, the letters below the mark
  and, in `TelegramSync`, the messages older than the last date less the overlap.
  Matching the steps needs three things of them. Whatever is passed was dealt with,
  which is `MarkCovers` and `DateCovers`. Nothing is passed that appears later: a
  letter's number is at least the mark, and a message is dated no earlier than now
  less what the clocks differ by, which the assumption on `Lags` bounds by the
  overlap. And neither mark falls back: for the date because time does not, for
  Gmail's because what a round is about to save is the mark it found or what the
  mailbox had reached on the way (`MarkRises`).
- **TelegramSync.** `DateCovers` needs `RoundCovers` and `RoundDates`: what was
  posted after the dialogs were listed is dated no earlier than the beginning of
  the round less the lag, which is where the overlap and the deadline meet. The
  bound of a round needs that a dialog's newest `HistoryLimit` messages are no
  more than that many, a pigeonhole argument on numbered messages
  (`HistoryIsBounded`). `LostIsForReason` needs that what a round has set
  aside so far has a reason (`AsideForReason`), which for a dialog that was not listed
  is a second pigeonhole argument: it is lower than `DialogsLimit` others. A round
  that is not the first never leaves dialogs unread for its limit, because what it
  stored and what its dialogs to come may add stay within it (`RoundFits`).

- **SignIn.** `OneUse` says where a used token is not; what is inductive is where an
  unused one is (`OnePlace`): under the key or in the hand of one handler, and if
  it was not made yet, nowhere. Actions fall into three kinds, by whether a token
  is put, taken or used, and the rest move none (`QuietStep`). That a dialog waits
  for one request only (`OneWaits`) is what makes `busy` in `TypeOK` inductive.
  `DialogIsRight` follows from what an undisturbed dialog and the request it waits for
  know of each other at each state of the request (`Agreement`): the login in the
  hand of a handler, or back under the key, is the one the dialog was begun with. That
  a password is left in a dialog only by an answer that sent it back is inductive once a
  dialog is known to be on the step of the phone while a code is asked for (`Leftover`).
  For `KeysRefined` every action moves one token or none: what is held before and
  after a step differs by the token that the handler took, used, put back or let go,
  because no other handler had it (`OnePlace`), and the state a callback takes is the one
  made last. `OneUse` and `LatestLinkOnly` follow from the promise as well; they are
  proved of `SignIn` itself.
- **CacheInvalidation.** `StaleIsBeingDropped` is inductive with the types, as it
  names every writer that is about to drop. `StalenessBounded` speaks of what is
  sent; the invariant behind it (`Ages`) says of every entry that the time it has
  left makes up for the age of its version (`Young`), and of every reader that what
  it holds was the newest when it began.
- **Overview.** What is kept under a period, what an answer says and what the screen
  waits for are of the period they were asked for (`KeptIsRight`, `AnswersAgree`), and
  of the requests one at most is not cancelled (`OneWaiting`): an answer to any other
  changes nothing. `RowsAreRight` is about what is computed and not about steps: it
  follows from `IsTable` of the rows. The list of a set in an order is sorted and has
  everything once, because what comes before x, being a smaller finite set, is counted by
  a smaller number than what comes before anything after x, and an injection of a finite set
  into as many numbers reaches them all (`OrderIsSorted`). So a page has as many entries
  as there are rows that match (`PageIs`), a loop that counts places counts rows
  (`PlacesCount`), the four levels share them out (`LevelsShare`), and one that appends
  the places of a level keeps their order (`OfLevelIs`, `PickedIs`). The top is the beginning of two
  such lists, one after the other (`TwoLists`, `UrgentIs`), which is why what it leaves out
  goes after all it has (`TopIs`). Today is within its day and the week whatever the
  offset (`Midnight`).
- **Setup.** The schema is whole because the first statement of a file locks its
  table until the commit: of two transactions of one file only one is past a
  statement (`Alone`), and the schema it sees is the one its file has come to
  (`OnTrack`). What a file leaves is defined by which statement made a thing and
  which dropped it later, without recursion (`SchemaUpTo`), so that `OneMore` and
  `NothingYet` can take it apart. `LiveCloses` needs that what a request holds of a
  row has the row's status unless that message is stranded (`CopyAgrees`), and that
  only a routine that plays is in a pause (`Roles`). `FeedIsOne` needs of every actor
  what it knows of the tables at its place: which user it found, which sources and
  items it has passed and that these are there (`Has`, `Knows`), as nothing ever
  deletes them; a user that an actor did not find was not there, unless two looked at
  the same time (`Single`).

Assumptions on constants are named where they are declared, and TLC evaluates
them in every run. The one that is not merely a type is in `TelegramSync`: the
clock of Telegram is behind ours by no more than the overlap, which is what the overlap is for
(`telegram.go:48-50`).

## Only model-checked, and not modelled

Only model-checked, as they are beyond what TLAPS with its installed provers
does: liveness under fairness (`CatchesUpUnlessMissed`, `EveryEventArrives`,
`RevocationIsNoticed`, `LettersArrive`, `PostsArrive`, `ServerComesUp`), the
fairness part of `ImplementsFeed`, and anything about ENABLED. `TextAgrees` of
`Overview` says what the scanners compute, which are folds over a text: that would be
induction over data. Every other invariant of the passing runs is proved. No module has a RECURSIVE operator.

Not modelled:

- the cards and the connections in `App.tsx`, whose loads may cross as those of the
  feed do, and the settings and the first screen, which have one request at a time;
- `StoreWithoutAnalysis` and `Clear`, `OpenSchema`, `DropPrefix` and the test
  environment, which only tests use;
- the text of messages, prompts and events, names, links, formats, CORS, routing,
  reading of the environment, styles: no property depends on them;
- Gmail, Telegram, the model, Postgres and Redis themselves: each is what the code
  may see of it, that is, its answers and failures in any order;
- several servers on one database: the application is run once, with its queue and
  bus in memory. Only `Setup` has a second process, the command beside the server.

## Plan

The order is by what an owner of the program would lose: messages and verdicts
first, then the stream that shows them, the sources they come from, the answers
that are cached, and last how one signs in and what the browser does.

Done: every module of the table above, and proofs about all of them.

To be modelled:

1. The cards of the sources in the browser and what `App.tsx` reloads when, over
   `CacheInvalidation`: answers that cross, the poll of the fallback.
2. The recent overrides in `BuildRequest`, so that an entry of the log whose level was
   never saved can be followed into a verdict.

To be proved, with what it would add:

1. An abstract schema, to which each file is applied at once or not at all, that
   the statements of `Migrations` implement. `SchemaWhole` says it of every state; the
   refinement would say it of every step.
2. An abstract cached value that is never older than its time to live and an answer,
   that `CacheInvalidation` implements: the same of `StalenessBounded`.
3. `TextAgrees` for texts of any length, with a prover that has induction.
