# Offline Messenger in TLA+

A TLA+ model of the messenger under `src/Offline Messenger/`: the server process
from its start-up to its threads, the shared SQLite connection, the terminal
clients, server and clients composed, the tokenizer that all server threads
share, the log with its mutex, and the bytes on the wire between the two ends.
TLC checks small instances of it. TLAPS proves every invariant and every action
property that the passing runs check, for every value of the constants: those of the
whole program with its clients, of the server, its process, the tokenizer and the
wire. It also proves that the server, and the whole program with it, implements an
abstract specification of what is promised to clients.

Paths below are relative to `src/Offline Messenger/`.

## 1. The system

`server.c` accepts connections and starts one detached thread (`treat`) per
client. A thread loops: `recv` a request, parse it, dispatch it in
`ProcessClientRequest`, call the database through `utils/database_utils.c`,
`send` the reply. All threads use **one** `sqlite3 *DB`. `client.c` is an ncurses
program that waits for a key, sends one request and blocks until the reply.

| Component | Code | State | Operations |
|---|---|---|---|
| Database and connection | `utils/database_utils.c` | tables `users`, `messages`; the auto-commit flag of the connection; the file | 14 statements; BEGIN, statement and END for every write |
| Connection thread and handlers | `server.c` `treat`, `ProcessClientRequest`, `Procces*Request` | the place in the handler, the request, the reply under construction | 9 commands |
| Acceptor | `server.c` `main` | `clientId`, `threads[100]`, the descriptors | `accept`, `pthread_create` |
| Start-up | `server.c` `FileExists`, `main`; `CreateDatabase`, `OpenDatabase` | the database file and the tables in it | create the tables, open the file, open the log, listen |
| Event log | `server.c` `LogEvent` | `fileMutex`, the log file | append a line |
| Client | `client.c` | `authorized`, `loggedUsername`, `currentPage`, `usersPages`, `selectedUser`, `messagesPages`, the rows on the screen | the views and their keys |
| Request tokenizer | `utils/communication_utils.c`, `ParseContent` | the hidden position of `strtok`, one per process | `ParseClientRequest`, `ParseContent`, `ParseServerResponse` |
| Wire | `SendRequest`, `treat` | 8192-byte buffers, the TCP stream | one `send` and one `recv` per text, at both ends |
| Terminal rendering | `client.c` ncurses calls | windows, colours | layout |
| SQLite | `sql/` (vendored, not even compiled: `buildCommands.txt` links `-lsqlite3`) | | |

### How the parts interact

* Client to server: one request, one reply, over TCP. The client never has two
  requests outstanding. Some replies make it send the next request without a
  key (a count leads to a page, a page with unread rows to
  `Update_Message_Read`, an inserted message to a count).
* Thread to thread: only through the database connection (and `strtok`,
  `fileMutex`). SQLite's serialized mode makes a single `sqlite3_step` or
  `sqlite3_exec` atomic. It does not make BEGIN, INSERT, END atomic: the BEGIN of
  a second writer fails, which nobody looks at, its row joins the first
  writer's transaction, and the first END to come commits both rows.
* A page is read one `sqlite3_step` at a time, so other threads write between
  two rows of one reply.
* Client to client: by what they read and write in the tables, and by ending
  the server process they all depend on.
* Connections and the log file take descriptors from one table of the process:
  clients that stay can make `fopen` of the log fail.

### What is hard here, and what correctness means

| Part | Hard behaviour | Correct when |
|---|---|---|
| Connection | transactions of several threads share one flag; errors of BEGIN/END are ignored; crash or storage error before END | no transaction outlives its writers; nothing stays uncommitted; the file never loses or rewrites a row; what was answered 201 is in the file |
| Registration | check and insert are two calls | one password per name, and whoever heard 201 can log in |
| Insert_Message | the addressee's existence is checked by an earlier call and may be uncommitted | the file has no message to or from a missing account |
| Pages | rows are inserted and marked between the steps of one SELECT | no gap, no duplicate, right order |
| Client caches | page counts, the rows on the screen and the selected message are used several keys later | no page that is asked for is empty; a mark and a reply id mean the message the user saw |
| Request/reply | the client blocks in `recv` | every request is answered |
| Wire | TCP carries bytes, both ends take one `recv` for one text; a page of ten messages of 999 characters is longer than the buffer | the reply a client takes is the one to its last request, and nobody waits for ever |
| Process | errors of the start-up and of `pthread_create` are ignored or only printed; SIGPIPE is not handled; `LogEvent` can keep its mutex | a server that takes connections has its tables; who connects is served; one client's trouble is its own |

`PROJECT.json` lists each hazard at its line with the properties that cover it.

## 2. The modules

| Module | Models | Extends |
|---|---|---|
| `Database` | tables, connection, statements | |
| `Server` | threads and handlers; open: any client sends anything of `Requests` | `Database` |
| `Messenger` | `Server` closed by the real client of `client.c` | `Server` |
| `MCServer`, `MCMessenger` | constants of the runs | |
| `WriteContract` | what the server promises to whoever registers or writes; abstract, implemented by `Server` | |
| `Tokenizer` | how the threads take requests apart with one `strtok` | |
| `MCTokenizer` | constants of the runs | `Tokenizer` |
| `EventLog` | `LogEvent` and `fileMutex` | |
| `Process` | the process: start-up, acceptor, and the threads with the log | `EventLog` |
| `Wire` | how texts travel, and how connections end | |
| `ServerProofs`, `ProcessProofs`, `TokenizerProofs`, `WireProofs` | theorems | the module, `TLAPS` |
| `PageProofs`, `ContractProofs` | more theorems about `Server`, among them the refinement | `ServerProofs` |
| `MessengerProofs` | theorems about the whole program | `Messenger`, `PageProofs`, `ContractProofs` |

### Database

`users` and `messages` are what a statement on the connection sees. `disk` is
both tables as last committed. `inTransaction` is the negated auto-commit flag.
`BeginTransaction`, `EndTransaction` and `Write` are the three kinds of call;
`Rollback` is what SQLite does on a storage error and what its journal does after
a crash. Row `i` of the sequence `messages` is the row with `id = i`: `id` is
`INTEGER PRIMARY KEY` and nothing is ever deleted, so a new id is `max(id) + 1`.
`NextUsername` and `NextMessage` give the row that the next `sqlite3_step` of a
page returns: the scan goes on from the last row in index order in the tables as
they are *now*; only the first step skips the `OFFSET`.

### Server

`pc[t]` is the next call of thread `t`. One action per database call:

| Action | Code |
|---|---|
| `Accept`, `Disconnected` | `accept`/`pthread_create`; `recv` returning 0 |
| `Arrive`, `Send`, `SendLost` | a request comes in; `send` to a client that is there or gone |
| `Receive` | the dispatch of `ProcessClientRequest`: 409, 401, `Quit`, or a handler |
| `Login`, `CheckName`, `CheckUser`, `CountUsers`, `CountMessages`, `CountUnread` | the single-row queries |
| `ScanUsers`, `ScanMessages` | one `sqlite3_step` of a page |
| `Begin`, `InsertUser`, `InsertMessage`, `UpdateMessage`, `End` | the calls of the three writing functions |
| `ExecFails`, `CommitFails` | a storage error in a statement (answered 500, or 200 for a mark) and in END (not looked at) |
| `Crash` | the process dies and restarts on the same file |

`registered` and `sent` are history variables: what a client has been *told*
was done (status 201). `reply[t].id` is history as well. `crashes` and `faults`
count towards the bounds.

`ServerStep(R)` takes the set of requests as a parameter. `ServerSpec` uses
`R = Requests`, an arbitrary set of well-formed requests; `Messenger` drives the
same thread actions with the client's own requests.

### WriteContract

`file` is what a crash would leave, `registered` and `sent` are what was
acknowledged, `failed` says that the storage has failed. There are no threads,
no transactions and no connection: a `Commit` adds rows and marks, all of them
addressed to accounts in the file; `AcknowledgeAccount` and `AcknowledgeMessage`
give one 201 for something that is in the file and has not been given to anybody
else. A crash is a stutter. `Server!Contract` is the refinement mapping: `file` is
`disk`, `failed` is `faults > 0`. After a storage failure rows may be lost
before they reach the file, so less is promised: the file still only grows.

### Messenger

`client[t]` holds the view of the client on connection `t` and what it caches.
Keys are `KeyFirst`, `KeyMenu`, `KeyUsers`, `KeyTalk`; `Close` is a client that
quits or is killed at any moment. A reply is handled by one action per command
(`Accessed` ... `MessageInserted`), which also says what the client sends next
without a key. `RedIds` is the list of ids that `SendUpdateMessageReadRequest` makes
of the rows on the screen, as a recursive function. A run may start from a file
with rows in it; `MessengerAssumption` asks of them what `Consistent` says and
`MessengerProofs` shows to stay so: a sender has an account and a reply names
an older message of its conversation. `shown` is a history variable: the
rows that were drawn for their receiver. A row that is rolled back leaves `shown` (`Forget`), since its id will
name another message.

### Tokenizer

`Server` dispatches a request that is already parsed. `Tokenizer` is what
happens before: `recv` into the reused buffer, `ParseClientRequest`, the
dispatch, `ParseContent`. A text is a sequence of cells, each a word or a
delimiter. `stream[t]` is what has arrived for thread `t`: `Send` puts a request
behind what is there, and `Receive` hands the whole of it to the parser, one
request or several run together, as one `recv` does. `memory[t]` holds the buffer of thread `t` and behind it each content
that the thread duplicated; `place` is the pointer that `strtok` keeps for the
whole process. A call is two steps, `Load` (which text, or the kept place) and
the second half in `ParseAuthorized`, `ParseCommand`, `Dispatch`, `ParseField`,
which overwrites the delimiter, keeps the new place and copies the token.
`waiting`, `taken` and `disturbed` are history: which requests the stream is made
of, which ones the last `recv` returned, and whether another thread's `strtok` came
between two calls that belong together.

`result[]` has one element for each hash. Two things make more tokens than that:
somebody else's text, and two requests received together. In
`1:View_Messages:bob#ann#1#1:...` the content ends at the flag of the second request,
which is a fourth token behind three hashes; no other thread is needed for it.
Writing behind `result[]` is undefined, and `Next` allows no step of any thread
from then on (`Defined`). What is said of this module is said up to and including
the state of that write. The content of `Get_Users_Count` is not split; the flag
sticks to the name there. Copying a token together with storing the place
leaves out that another thread can change the text before `strdup` reads it.

### EventLog and Process

`at[t]` is the next call of thread `t` in or around `LogEvent`. A request logs
one or more lines; the rest of what a thread does waits for nobody and is left
out. `OpenFails` is `fopen` returning NULL, after which `LogEvent` returns with
the mutex locked. The default mutex is not recursive: its owner waits as well.
`EventLog` has no specification of its own; `Process` uses its actions.

`Process` starts at `main = "off"`. `Boot` is `FileExists` with `OpenDatabase` or
the first half of `CreateDatabase`, whose `sqlite3_open` creates the file at once;
each `CREATE TABLE` is a step of its own that commits by itself; `CreateTableFails`
is the -1 that `main` ignores, `StartFails` one of the failures after which it
returns. `conn[t]` follows a connection from the backlog through `accept` and
`pthread_create` to the end of `treat`; an `orphan` is one that `pthread_create`
failed for. `DescriptorFree` counts accepted connections and the open log file:
`accept` needs a descriptor, and so does `fopen`. A crash keeps `exists` and
`tables` only. `interrupted` is history: some process died or failed inside
`CreateDatabase`.

### Wire

`client[c]` and `treat[c]` are the two ends of one connection, `toServer[c]` and
`toClient[c]` the sockets between them. A request is one unit, its number. A
reply is a sequence of pieces, `Buffer` of which fill the client's buffer; one
`recv` returns what has arrived up to the size of the buffer, and on a connection of
`Split` any part of it. `line[c]` is the connection as the server sees it. What TCP
does: a socket that is closed with unread bytes resets the connection; `recv`
reports the reset once, with -1; a `send` after the other end has closed is
answered with a reset; a `send` on a connection known to be reset raises SIGPIPE.
`treat` answers a `recv` error with a 500, that is, with such a `send`
(`ReceiveFails`, `SendKills`). `long[c]` is history: a reply was sent that one
`recv` may not take whole.

The longest request of the client is shorter than the buffer, so the terminator
that `treat` writes behind what it received (`server.c` 180) is inside the buffer as
long as no two requests are run together, which `InStepWhileShort` says.

### Abstractions

* Names are numbers in the order of the index of `users`; passwords and texts are
  model values. What a text says never matters to control: a text that the
  client's own checks refuse only fetches the page again.
* In `Server` and `Messenger` parsing succeeds and is atomic; `Tokenizer` shows
  when that is so (`UndisturbedParse`) and when not. A request and a reply arrive
  whole or not at all; `Wire` shows when that is so (`InStepWhileShort`) and when
  not.
* `send` and the handling of the reply by the client are one step. The server
  thread does nothing in between, and other threads see neither.
* `RenderFirstPage` opens the second page without a login on a NUL key, hence
  `Turn(t, Menu(...))` in `KeyFirst`. Such a client sends "(null)" as the name;
  the server answers 401 before looking at it, so it is any name.
* Some functions of `client.c` lack a `return` on one path; the model uses
  what a build without optimisation returns, the value of the nested call.
* `client.c` nests views by recursion. A failed `View_Messages` returns to the
  frame that opened the conversation. The model always returns to the list of
  users; with a conversation reopened inside a conversation the real client
  shows the outer one again. Such a reply needs an addressee that disappears, so
  it happens only after a storage fault.
* A storage error hits a statement that writes, or a commit; a query never
  fails. A SELECT that is in progress when another thread's transaction is
  rolled back goes on.
* `Process` gives descriptors to connections and the log only. SQLite's journal
  needs one too; a commit that fails for want of it is a storage error of `Server`.
  `listen` has a backlog without a limit, and an `accept` that fails leaves the
  state as it is (`main` tries again, at once).
* Behind `threads[Slots]` the behaviour is undefined: `NextClient` allows no
  connection beyond it.
* One server process. `SO_REUSEPORT` lets a second one start on the same file;
  `SQLITE_BUSY` is therefore not modelled.

## 3. What TLC checks

| Run | Question | Bounds |
|---|---|---|
| `server_writes` | With three threads racing to register one name under two passwords, to register another and to write: does the server implement `WriteContract`, is everything answered 201 in the file, and every message's addressee too? Does a transaction ever outlive its writers, does anything stay uncommitted? | 3 threads, 2 names, 2 passwords, 2 messages; one crash or one storage error (`OneFailure`) |
| `server_reading` | Are pages sound when read row by row while others write? | 3 threads, 4 names, pages of 2, 5 messages (4 in the file at the start, one of them foreign to the conversation that is read and in the middle of it) |
| `messenger_fresh` | Whole program from an empty database, with a crash: types, accounts of senders and of logged-in users | 2 clients, 2 names, 1 message, 1 crash |
| `messenger_reading` | Whole program with two conversations: do marks belong to messages that were drawn, does a cached page count never lead to an empty page, does a reply stay in its conversation? | 2 clients of users 1 and 3, 3 names, pages of 2, 4 messages (2 at the start, one in each conversation of 1), 1 crash; `Talking` |
| `messenger_live` | Is what was drawn in red marked in the file in the end, does a waiting client get its reply, is every open transaction closed? Does the file only grow, also when two clients of one user mark the same message? | 2 clients, 1 unread message, 1 fault, fair |
| `tokenizer_threads` | Without a foreign call of `strtok` in between, is a request that came alone understood as it was sent, and the first of several carried out with its own fields? Does `strtok` stay inside its text? Can the authorized flag come from another client, or from a request behind? | 2 threads, 3 kinds of requests, 2 each, received one by one or together |
| `tokenizer_race` | *Violation*: two threads that parse together take each other's tokens | 2 threads, 2 requests, 2 each |
| `process` | Does only the holder of the mutex write? Does a server that takes connections have its tables, unless a start died or failed between them? Is every client served, and does the log go on until `fopen` fails? | 3 connections, 3 descriptors, 4 slots, 2 lines a request, 1 crash, 1 failing call, fair |
| `process_log_fails` | *Violation*: after one failing `fopen` nobody logs again | as `process`, 4 descriptors, no crash |
| `wire` | Do client and thread stay in step while replies are short, what can end the server, and does a waiting client always go on? | 2 clients, one of them over a connection that delivers in parts, buffers of 2 pieces, replies of 1 to 3, 3 requests each, fair |
| `wire_cut` | *Violation*: a reply longer than the buffer is taken for two | as `wire`, whole deliveries, nobody is killed |
| `wire_sigpipe` | *Violation*: a client that quits after such a reply ends the server | as `wire_cut` |

Why the bounds are enough to be interesting. Three threads are one more than a
race needs: two writers share a transaction while a third one reads or is
between its check and its insert. `PageSize` (10 in the code) is 1 or 2, so
that two or three rows already fill a page and span two pages. With pages of one
row every page count is exact; `messenger_reading` has pages of two, and two to
three rows in a conversation, so that `PageCount` is taken with and without
a remainder. Two names are a conversation. In `server_reading` the fourth one has
written in the middle of it, a row that the scan must pass over. In
`messenger_reading` the third name is the second conversation, in which a wrong id
would point to a message of other people; there are rows of both clients
that are not committed yet, and a crash may take them back and give their ids
again. One crash or fault can fall between any two
steps; `OneFailure` keeps the behaviours of `server_writes` to one of the two.
`Talking` keeps those of `messenger_reading` to what the run is about: each
client logs in as its own user before all else and leaves only between two
requests, and one of them talks to the other only. Without it three users and four
messages have too many states for TLC; the theorems about the three properties bound
nothing. Sequences of several crashes and faults are covered by the proofs about `Server`, which bound nothing.
Symmetry permutes threads, which no definition orders, and is used only
in runs without liveness properties. `MaxMessages` bounds the table: an
insertion is only sent when there is room for it (`MayInsert`).

In `Tokenizer` one request of a thread is enough for a race, a second and
shorter one finds the end of the first in the buffer, and two that come together
are one too many. The three kinds of
`tokenizer_threads` are those that take different ways through the code: a single
name that is not split, one field, and several.

In `Process` three connections and three descriptors are enough for clients to
take the descriptor of the log; four slots are enough for one connection to come
back and then for the slots to run out. In `Wire` a reply of three pieces in a
buffer of two leaves a rest, three requests are enough to take the rest for the
answer to the second one and to run the third together with it; the second client
is there to show that one client's connection ends another one's server.

Deadlock is checked in every run of `MCServer` and `MCMessenger`: there is
always a client that may connect, or a step of its own to take. It is switched
off for `Tokenizer`, where `MaxRequests` ends the run and an overrun of
`result[]` stops it; for `Process`, where the server really stops after a failure
of the log; and for `Wire`, where clients leave for good, and where a server may
die.

Every property of a passing run has a mutant in `PROJECT.json`: a plausible bug
in one definition that the run catches. The mutant operators stand beside the
definitions they replace.

### Fairness

`Messenger!Fairness` is weak fairness, for each thread, of the steps it takes by
itself (`Process`), of an answered client that handles its reply, and of a
socket whose client has gone. The operating system schedules every thread, and
a step that is enabled needs nothing of another thread: the connection's mutex is
taken and given back inside one atomic step. There is one mutex that `Server`
leaves out, `fileMutex` in `LogEvent`, which every request passes several times. So
`Answered`, `RedIsMarked` and, in `Wire`, `WaitEnds` hold of the program only while
the log works: as long as no `fopen` of the log has failed
(`process_log_fails` shows what happens then), and if the mutex passes nobody over
for ever. `TransactionEnds` does not need this, as no line is logged between
BEGIN and END. Nothing is assumed about users, about new requests,
connections, crashes or faults: the properties say what is excused by a client
that leaves or by a storage error.

`Process!Spec` is weakly fair to what `main` does by itself and to the steps of
each thread inside `LogEvent` and at its end. Nobody has to start the server, to
connect or to send. A mutex may pass one waiting thread over for ever, so
`LogGoesOn` and `LogGoesOnWhileOpened` only promise that some waiting thread gets
on; `AcceptedInTheEnd` does not wait for the log. `Wire!Spec` is weakly fair to a client in `recv` for which something has
arrived, and to each thread of the server: both are scheduled, and TCP
delivers. Nobody has to press a key.

## 4. What is proved

### The server

`ServerProofs` is checked by TLAPS with no assumption on the number of threads,
users, requests or the bounds, except those of `DatabaseAssumption` and
`ServerAssumption` (names are finitely many numbers, requests are well formed,
the initial file has an account for each addressee).

| Theorem | Statement |
|---|---|
| `ServerTypeCorrect` | `ServerSpec => []ServerTypeOK` |
| `ServerTransactionHasWriter` | `ServerSpec => []TransactionHasWriter` |
| `ServerQuietMeansDurable` | `ServerSpec => []QuietMeansDurable` |
| `ServerFileOnlyGrows` | `ServerSpec => FileOnlyGrows` |
| `ServerAcknowledgedIsDurable` | `ServerSpec => []AcknowledgedUntilFault` |
| `ServerNoOrphanMessage` | `ServerSpec => []NoOrphanMessage` |
| `ServerPageHasNoGap` | `ServerSpec => []PageHasNoGap` |
| `ServerUserPageIsSound` | `ServerSpec => []UserPageIsSound` |
| `ServerImplementsContract` | `ServerSpec => ImplementsContract` |

The properties from `AcknowledgedUntilFault` to `UserPageIsSound` speak of the time
before the first storage error (`faults = 0`). After a commit that failed something acknowledged
may be missing; a rollback between the check of `Insert_Message` and its insert
can take the account away; and it can take back a row that is already on a page.
Crashes need no such condition in any of them, as a crash takes the threads
with it.

How the proofs go:

1. `ServerTypeOK` is inductive only with `StageFits`, which says what command a
   thread at a given call serves; `Typing` is the two together.
2. *Storage*: outside a transaction the file equals the tables, inside one some
   thread is between BEGIN and END, and the tables always extend the file in the
   sense of `Grows`. Neither `TransactionHasWriter` nor `QuietMeansDurable` is
   inductive alone: an END leads to a durable state only because "outside a
   transaction" already means "committed", and the writer of the open
   transaction may be another thread than the one that began it. `FileOnlyGrows`
   follows, as every step that changes `disk` sets it to tables that extend it.
3. `AcknowledgedIsDurable` says nothing of a row before its answer is sent.
   The strengthening follows a row through the handler: a thread at `end`
   has it in the tables, a thread at `send` has it in the file.
   `SafeUntilFault` holds this and 4. as long as `faults = 0`, which never comes
   back (`FaultsStay`).
4. `NoOrphanMessage` says nothing of the tables nor of a thread between its check
   and its insert. The strengthening adds both: a thread past `exists` has an
   existing addressee, and so has every row of the tables.

5. *Pages* (`PageProofs`). `PageHasNoGap` speaks of a reply that is complete. The
   strengthening `PageOf` says of a page under construction that its rows are
   neighbours in the conversation as it is now, and what every stage of the
   handler has filled in. `PagesGrow` is why other threads do no harm: in tables
   that grow, a row that comes in between would have to be older than a row that is
   there, and ids only go up. `NextOlder` says what one `sqlite3_step` returns; that
   a step which returns nothing means that nothing older is left needs the largest
   element of a set of ids (`LargestNumber`, from the library's well-founded
   induction).
6. *The contract* (`ContractProofs`). Every step maps to a step of `WriteContract`
   or a stutter: `Send` of a 201 to an acknowledgement, whatever changes `disk` to
   `Commit`, the rest to nothing. That an acknowledgement is the first of its row
   is not in the state of one thread; `Fresh` adds that what a thread is about to
   acknowledge nobody has acknowledged and no other thread is about to. For a name
   this is the primary key, for a message the new id.

Each of these has one step per action; the actions that only move control are
covered by shared lemmas.

### The whole program

`MessengerProofs` is about `Messenger!SafetySpec`, for any number of clients, any
page size, any crashes and storage errors, under `MessengerAssumption` and the
assumptions of the server.

| Theorem | Statement |
|---|---|
| `MessengerTypeCorrect` | `SafetySpec => []TypeOK` |
| `MessengerSenderHasAccount` | `SafetySpec => []SenderHasAccount` |
| `MessengerReadWasShown` | `SafetySpec => []ReadWasShown` |
| `MessengerReplyPointsBack` | `SafetySpec => []ReplyPointsBack` |
| `MessengerPageNeverEmpty` | `SafetySpec => []PageNeverEmpty` |
| `MessengerServerIsSafe` | `SafetySpec => [](TransactionHasWriter /\ QuietMeansDurable /\ AcknowledgedUntilFault /\ NoOrphanMessage /\ PageHasNoGap /\ UserPageIsSound)` |
| `MessengerFileOnlyGrows` | `SafetySpec => FileOnlyGrows` |
| `MessengerImplementsContract` | `SafetySpec => ImplementsContract` |

None of these invariants is inductive. `MessengerInv` is, and has four parts:

1. `ServerPart`, the invariants of `ServerProofs`, `PageProofs` and
   `ContractProofs`. A step of the program is one of the server with some request, or
   changes nothing of it, or is a client that leaves and takes with it a request
   that no thread has received (`Lost`, which `Server` alone does not do). This gives
   the last three theorems.
2. `ClientTypeOK`, the types of what clients remember. The page that a client asks for
   is a number because `Dispatched` and the views only let it page where there are
   pages.
3. `Dispatched`: which command each stage of a handler serves, and that it has
   passed the check for 401. No storage error changes this.
4. `Fits`, as long as `faults = 0`: what every client remembers, every request under
   way and every reply about to be sent agree with the tables *as they are now*,
   whatever the other clients did in the meantime. Each part of it is of a kind that
   growing tables keep true (`FitsGrow`): an account stays, a row of a conversation
   stays in it, a page that had a row keeps one. Only a storage error makes tables
   shrink under a client.

Where the work is:

* *No page is empty* is a fact about caches: a client counts the pages in one
  request and asks for one of them many keys later. `Reaches(p, S)` says that page
  `p` of the rows `S` starts before their end. A count that the server returned is no
  more than the rows there are (`ReplyFits`), the client computes pages from it that
  all have a row (`PageCountIsTight`), and growing tables keep them.
  That such a page is not empty when the scan reaches it needs that an offset below
  the number of rows leaves a row: `NthMember` finds, in a finite ordered set, the
  member behind exactly `k` others.
* *What is marked was shown* rests on the ids: `RedIdsAreOfRows` says that the ids
  a client sends are those of rows on its screen, and `TablesFit` that marks, in the
  tables and in the file, are of shown rows only. After a crash the rows that
  were not in the file leave `shown`, and ids of the file keep their meaning.
* *A reply points back* because the message a user selects comes from the rows of
  the conversation on the screen, and the server inserts behind them.

`MessengerInv` was checked by TLC before it was proved, with the constants of
`messenger_fresh`, with two users who already have accounts, and once with storage
errors.

What a recursive function returns is proved by induction on its argument. The
induction theorem of the library takes an operator as a parameter, which the
provers do not instantiate; `InductionSet` says the same of a set of numbers, and
the set is `{m \in Nat : the fact holds of m}`.

### The tokenizer

`TokenizerProofs` is for any threads and any set of requests under
`TokenizerAssumption`: fields hold no delimiter, every request has a field, and
that for the users' count has one. `ValidateUserInputs` and the functions
`Send*Request` of `client.c` see to it.

| Theorem | Statement |
|---|---|
| `FlagIsOwn` | `Spec => []AuthorizationIsOwn` |
| `TokenizerTypeCorrect` | `Spec => []TypeOK` |
| `UndisturbedIsUnderstood` | `Spec => []UndisturbedParse` |
| `FirstIsAlwaysServed` | `Spec => []FirstIsServed` |

*The flag.* The parser is racy, and yet no client gets the authorized flag of another one.
The argument: only the first call of a request is given a text of its own, the
beginning of the thread's buffer, and nobody writes there but to end a token,
which never overwrites the number in front. The invariant is `Typing` and
`Own`; `Own` says that the number of the request in progress stands at the
front of the buffer, and where the first call looks, until it is read.
`LeastNumber` (every set of numbers that is not empty has a least element, from the
library's well-founded induction) gives the positions that `strtok`
chooses; `StartSkips`, `StopEnds` and `FirstToken` say what its first token is.

*The types.* The conjunct of `TypeOK` that could fail is that no remembered place
is outside its text, whoever walks through it. `Terminated` adds why: every
text ends with a NUL, also the buffer behind a request that is longer or shorter than
the one before; no buffer gets shorter, so a place in it stays in it; and a text that
is about to be parsed is not empty. So the next place is at a NUL
or one cell behind a delimiter.

*Understanding.* `UndisturbedParse` and `FirstIsServed` speak of a request that is
done. `InOrder` says what holds of a thread at each of its calls as long as
`disturbed` is false: what of the first line still stands in the buffer (`Follows`)
or of its content in the copy (`Split`), that `strtok` goes on where that begins
(`GoesOn`), and what has been read so far (`Served`). The buffer may hold any rest
of earlier requests behind the NUL. `Arriving` says that the stream is made of the
lines of `waiting`, so that behind the first line there is nothing, or the flag of
the second one and a colon: `Follows` ends in `Nul` or `Colon`, and `Split` has
`Extra` cells, none for a request that came alone and that flag otherwise.
`HeardIs` says what the third `strtok` returns of such a line, `HashesCounted` that
it has a hash for each field, whatever is behind. Both properties follow from the
same invariant, the first one with no extra cell. Between the copying of the
content and the first call on it others may run without making `disturbed` true. This
is harmless because of `Apart`: no place that any other thread remembers, nor the
one of `strtok`, is in a copy that nobody has begun to split. `OwnCall` says what a
call finds in a text that is in order.

### The process

`ProcessTypeCorrect` in `ProcessProofs`: `Spec => []TypeOK`, whose conjuncts say
that only the holder of the mutex is inside `fopen` ... `fclose`, that `main` has
one accepted connection in hand, and that only a started thread logs. A thread
that leaves the mutex locked is not inside, and `OpenFails` changes nothing for the
others; the strengthening says that a thread inside has a line left (`Logging`),
that the backlog holds each waiting connection once (`Queued`), and that an
accepted connection means `main` is at `pthread_create` (`Taken`).

`ServiceNeedsTables`: `Spec => []TablesBeforeService`. The strengthening (`Orderly`)
follows the tables through any number of starts, crashes and failing calls, as long as
CreateDatabase has always come to its end: then a file without both tables is one
that `main` is just making.

### The wire

`ShortRepliesStayInStep` in `WireProofs`: `Spec => []InStepWhileShort`, for any
number of clients, any lengths and both kinds of delivery. `InStep` is the
strengthening: on a connection whose replies were all short there is one request
under way, or its reply, or neither. It needs `Connected` (a client that has not
left has an open connection). `ServerEndNeedsCause`: `Spec => []KilledOrLong`; here
the strengthening `EndsWell` says that a connection that stayed in step and whose
client was not killed is closed with nothing on it, and so is never reset.
`WireTypeCorrect` is `Spec => []TypeOK`.

### What is only model-checked

* Liveness, which with `ENABLED` is out of reach of the prover: `RedIsMarked`,
  `Answered`, `TransactionEnds`, `LogGoesOnWhileOpened`, `AcceptedInTheEnd`, `WaitEnds`.
* The four properties that the code does not have (section 5); there TLC shows the
  behaviour that violates them.

## 5. Findings

* **A page that does not fit is cut** (`wire_cut`). `src/README.md` line 13: "In the
  conversation menu, the user can see 10 messages sent to/received from the
  selected user." Ten messages of 999 characters, which `client.c` 746 allows, are
  about 10.6 KB. `SendRequest` takes one `recv` of 8192 bytes for the reply; the rest
  is taken for the reply to the next request, and the client stays one reply
  behind. It then sends before its thread has answered, and `treat` takes two
  requests out of one `recv`, of which it answers the first.
* **One client ends the server** (`wire_sigpipe`). `src/README.md` line 4: "The server
  can handle multiple clients concurrently." A client that quits with such a rest
  unread resets its connection. `recv` gives -1, `treat` sends a 500 to the dead
  socket, and SIGPIPE ends the process with all its threads. A client that is
  killed while it waits for a reply does the same (`KilledOrLong`).
* **Threads that parse together take each other's tokens** (`tokenizer_race`).
  `src/README.md` line 4: "The server can handle multiple clients concurrently."
  `ParseClientRequest` and `ParseContent` use `strtok`, whose place is one per
  process. A thread that calls it with NULL goes on in the text of the thread
  that called it last.
* **One failing `fopen` stops the server** (`process_log_fails`). The same
  line. `LogEvent` returns without unlocking `fileMutex`; the next line of any
  thread, also of the same one, waits for ever. Enough clients that stay
  connected make it fail, as they take the descriptors.

Two more faults of the code shape what the properties say:

* `InsertUser`, `InsertMessage` and `UpdateMessage` do not look at the result of END
  TRANSACTION (`database_utils.c` 328, 351). When it fails, SQLite rolls back the
  row, perhaps rows of other threads as well, and their clients hear 201:
  `AcknowledgedIsDurable` is false of the code, in nine steps, and only
  `AcknowledgedUntilFault` is checked. It also frees the id of the lost row for the
  next message, so that a mark under way may hit a message that nobody has seen, and
  it can make the last page of a conversation empty. Hence the condition
  `faults = 0` in the properties of `Server` and `Messenger`: they say nothing of a run
  after a storage error, and the harm that only such an error does is listed in
  `PROJECT.json` without a property.
* `main` creates tables only when there is no file. A start that dies between the two
  `CREATE TABLE`, or in which one of them fails (which `main` does not look at), leaves
  a file that every later start takes as it is, and no message can be stored any
  more. `TablesBeforeService` says that nothing else leaves a table out: no crash,
  failed start or restart outside of `CreateDatabase`.

`messenger_fresh` and `messenger_reading` have no storage errors, to stay small; the proofs about them have.

## 6. Not modelled

Every component of section 1 has a module except these:

* *SQLite* (`sql/`): 260,000 of the 263,000 lines of C under `src/`. The files are
  vendored and not even compiled (`buildCommands.txt` links `-lsqlite3`), so that the
  share of the lines that the map covers says little: of the program's own four
  files most is modelled. `Database` models what its callers see.
* *Terminal rendering*: windows, colours and layout in `client.c`. Which rows were
  drawn is in `Messenger`; the rest is output without state.

And parts of components:

* The client's own parsing of replies: one thread, the functions that `Tokenizer`
  has. What it makes of a cut page is text.
* A query that fails. Each handler answers 500 for it and has written nothing.
* A second server process on the same file and port, which `SO_REUSEPORT` allows:
  `SQLITE_BUSY`, and clients that are spread over both.
* What happens behind `threads[100]`, behind `result[]`, and when an unknown command
  is compared with the memory behind `commands[]`: undefined behaviour, at which
  the models stop. A request that is received alone and parsed undisturbed does not
  get behind `result[]` and is no unknown command (`UndisturbedParse`). Of several
  received together the first is no unknown command either, and its own fields are
  in their places (`FirstIsServed`); but the flag of the second does get behind
  `result[]`, with no other thread about.
* Views nested deeper than one conversation after a failed `View_Messages` (see
  Abstractions).

What would come next: `Messenger` on top of `Wire` instead of whole texts, and the
client's side of the tokenizer.
