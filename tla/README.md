# Dossier in TLA+

Dossier archives scanned documents. A client sends a pdf over TLS; the server
keeps it in a spool directory, keeps a row for it in MySQL, runs `pdftotext`
over it and stores the text, so that documents can be found by date, by the
name of the company they come from and by their content.

This directory holds TLA+ models of the server, the TLC configurations that
check them on small instances, and proofs for TLAPS of the results that matter
most. Paths below are relative to the root of the repository.

- [The system](#the-system)
- [What makes it hard](#what-makes-it-hard)
- [Modules](#modules)
- [Runs](#runs)
- [Fairness](#fairness)
- [Proofs](#proofs)
- [Disagreements between code and documentation](#disagreements-between-code-and-documentation)
- [What is not modelled](#what-is-not-modelled)
- [Plan](#plan)

## The system

| component | code | state | operations | correct when |
|---|---|---|---|---|
| Thread pool | `include/thread_pool.h` | `_task` (deque), `_task_mutex`, `_continue`, the threads | constructor, `push`, `join`, `_main`, `_pop` | tasks start in order, run once; those pushed before `join()` have run when it returns; nobody touches the deque afterwards |
| Server | `src/server/server.cpp`, `include/server/server.h` | `_listenfd`, `_continue`, `_server_stop_lock`, the pool | `operator()`, `_listen`, `addListener`, `stop`, destructor | no client is pushed into a pool that is being joined; every accepted client is served; `stop()` returns |
| Request handlers | `src/server/proxy.cpp`, `include/server/proxy.h` | one request object for each connection; the tables and the spool they share | seven `exec()` methods, the lambda of `start_server` | tables, spool and answers agree, in whatever order workers run and at whatever step they fail |
| Request reader | `include/file/file.h`, `include/server/proxy.h` | `_cache`, `_data_p`, `eof` of the stream; `req_errno`, `err_msg` | `load`, `next`, `eachByte`, `getRequest`, the `load()` templates | values are read as sent, however they were cut; the body of an upload starts at its first byte; sizes are bounded |
| Buffered descriptor | `include/file/file.h` | `_cache`, `_data_p` | `copy`, `out`, `append`, `print`, `access` | `copy` moves exactly what it was asked to, or reports an error |
| Streams | `include/file/stream.h`, `src/file/file_stream.cpp`, `src/file/ssl_stream.cpp` | descriptor, `_eof` | `open`, `>>`, `<<`, `seal` | end of file, errors and short counts are told apart |
| TLS connections | `src/file/_ssl.cpp` | contexts; `Client::ssl`, `Client::socket` | `ssl_accept`, `ssl_connect`, `getCN` | a client is accepted only with a certificate, and never at the cost of the others |
| Database access | `src/database/*.cpp` | connection, `err_msg` | one method for each statement | a statement touches rows of its own user only |
| Schema | `db/dossier_setup.sql` | tables `user`, `Company`, `Document` | | ids of documents are never reused; those of companies not while a document carries them |
| Client program | `src/client/**` | one exchange for each call | `add`, `del`, `list`, `upload`, `download`, `remove`, `search` | what it reports is what the server did |
| Configuration | `src/server/config.cpp` | `config::server` | parser | every line is read as written or reported |
| Log | `src/file/log.cpp`, `include/file/log.h` | four global files | `print` | a line is written whole |
| External processes | `src/proc.cpp` | pipe, child | `proc_open` | the text of the document is read to its end |
| Error texts | `src/err.cpp` | a thread-local buffer | `set`, `current` | |
| Thread wrapper, `MoveByCopy` | `include/thread_t.h`, `include/move_by_copy.h` | | | a client has one owner |

### How they interact

The thread that calls `Server::operator()` polls the listening socket, accepts
and does the TLS handshake there and then, and pushes a task to the pool with
the client moved into it (`MoveByCopy`). A worker connects to MySQL, looks the
Common Name of the certificate up in table `user` (`proxy.cpp:449-461`), reads
one byte, the code of the request, loads the values the request consists of
and calls its `exec()`. Everything a handler shares with the others is outside
the process: the tables and the spool. There is no transaction and no lock
around several statements or files, so handlers interleave at every one of
them. The owner of the server calls `stop()` from another thread; the
destructor calls it again and then destroys the pool, which joins its threads.

## What makes it hard

`PROJECT.json` lists every hazard at its line. The ones that decided the shape
of the models:

- `_continue` of the pool is a plain `bool`, written by `join()` and read by all
  threads: each may learn of it late.
- `stop()` orders the owner behind the listener with nothing but a lock that it
  takes and gives back.
- `SSL_accept` runs on the listener's thread and on a blocking socket.
- An upload is five steps (row, file, bytes, text, index), a removal is two, a
  download many; they overlap with each other, and each may fail or be the last
  thing the process does.
- A row and its file are tied by an id that only `AUTO_INCREMENT` keeps unique.
- A company is referred to by id from a MyISAM table that checks no foreign key, and
  its own table is InnoDB, whose counter falls back at a restart (before MySQL 8).
- `select()` bounds the start of a read and nothing else: the sockets block, and
  `SSL_read` waits for the end of a TLS record as long as it takes.
- `write()` may take less than it is given, and nobody looks.
- A request arrives cut anywhere; end of file, an error and a zero byte look
  much alike to `next()` and `eachByte()`. On the client's side the zero byte is `OK`.
- Neither side ends TLS with a `close_notify`, and a server that refuses an upload
  closes its socket with the document unread: what the client learns of the end is
  what TCP makes of it.

## Modules

| module | what it is |
|---|---|
| `ThreadPool` | the pool: deque, flag, threads, `join()` |
| `ThreadPoolProofs` | its theorems |
| `Server` | listener and owner, with the pool inside (`INSTANCE ThreadPool`) |
| `ServerProofs` | its theorems, which use those of the pool |
| `Archive` | the request handlers over the tables and the spool |
| `MCArchive` | definitions the instances of `Archive` need (all codes, symmetry) |
| `ArchiveProofs` | its types, whose company a document is filed under, ids and inodes |
| `ArchiveSafetyProofs` | what is removed, written, delivered and indexed |
| `ArchiveRefinementProofs` | that `Archive` implements `ArchiveSpec` |
| `ArchiveSpec` | what the archive promises of a document; `Archive` implements it |
| `RequestReader` | the buffer, the request code, the values and the body behind them |
| `MCRequestReader` | a small layout of requests |
| `RequestReaderProofs` | its theorems |
| `Session` | one run of the client program and the worker that serves it |
| `MCSession` | the requests the instances of `Session` make |
| `SessionProofs` | its theorems |
| `InductionLemmas` | induction over the natural numbers and recursion, which the last two need |

`Server` contains `ThreadPool`. `Archive`, `RequestReader` and `Session` look at the
same handlers from three sides: `Archive` at what many of them do to the tables and
the spool, a request being one step; `RequestReader` at the bytes of one request, the
archive being left out; `Session` at what the two ends of one connection make of each
other, the tables being reduced to whether the statement took effect.

Some actions have a neighbour whose comment begins "A slip ... rules out". These
are the same steps with a plausible mistake in them. No specification uses
them; each one, put in the place of the real action, makes the named property
fail, and `PROJECT.json` lists the pairs under "mutants".

### ThreadPool

`push()` and `_pop()` are locked sections and one step each. `_main` has a label
for each place where a thread can be between them: at the head of its loops
(`while`, `drain`), before the locked pop (`pop`), asleep for 10 ms (`sleep`),
calling the task (`call` in the first loop, `rest` in the second), returned
(`exited`). `continue` is what `join()` wrote; `sees[w]` is what thread `w` reads,
and `Propagate(w)` is the moment at which the write reaches it. The read of a
`bool` without synchronisation is undefined behaviour by the letter. The model
takes the outcomes that the build can produce: as the locked `_pop()` lies between
two reads, the compiler must load the flag anew on each round, so a thread sees the
old value for a while and never goes back from the new one to the old.

`push()` has no guard on `_continue`, as in the code: tasks may be pushed while
`join()` waits, and those may never run. Properties speak of the tasks pushed
before (`early`). `Server` shows that no others occur.

### Server

Two threads and the pool. The listener's labels are the lines of `_listen`: it
takes `_server_stop_lock`, and loops through the test of `_continue`, `poll`,
`accept()`, the handshake and the push. The owner goes through `stop()` (write the
flag, take and give back the lock), `~Server` (`stop()` again, then the members, so
`~ThreadPool` calls `join()`). `poll()` returns because of a connection or of the
timeout; a `poll()` error ends the process (`exit`) and is not modelled. A
handshake that fails leaves `Client::socket` set, which is what `_listen` tests, so
the client is pushed in either case (`refused` remembers it).

`Stop` has the guard that the server has accepted a client before: the test of the
repository calls `stop()` after its requests were served (`test.cpp:119-148`). An
owner that stops a server which has not entered `_listen` yet loses the stop, or
races the loop; this is a hazard of the code with no property yet.

### Archive

One record `conn[h]` for each worker thread, the tables as sets of rows, the spool
as a directory (`files`, path to inode) and the content of inodes (`disk`), so that
a download holds on to a file that is unlinked under it. Content is a sequence of
chunks, each a pair of the upload it belongs to and its position; a file that mixes
uploads or lacks a piece can be told from a whole one. Sizes count chunks.

Each statement is a step, and so is each call on the spool. `Faults` names the
failures that a run allows:

- `query`: the statement reports an error and has either had its effect or not
  (the connection may break before the result arrives). A failed search is
  answered OK with an empty list (`proxy.cpp:63`: `err_msg` is not looked at).
- `open`, `read`, `write`, `unlink`: the call fails. A failed open in
  `requestUpload` is ignored, the write that follows fails.
- `short`: `write()` stores less than it is given. `out()` takes that for success.
- `proc`: there is no pipe or no process, or reading the pipe fails, and no text is
  stored; or `pdftotext` could not be executed (the child is there all the same), or
  ends half-way. Its exit status is not asked for, so whatever beginning of the text
  came through the pipe, the empty one too, is indexed as if it were all
  (`proc.cpp:18-27`, `proxy.cpp:259-277`).
- `peer`: the client closes, resets or falls silent. A close in the middle of an
  upload is taken for the end of the document, since `copy()` returns OK at the
  end of the stream. A client that stops inside a TLS record, or does not read a reply
  that fills its window, keeps its worker for ever (`PeerStalls`, label `stuck`):
  `select()` let the call begin, and the socket blocks.
- `crash`: the process dies at any point, between any two steps, and is started
  again with the tables and the spool as they are. A loss of power, which could
  take written data along, is not this.
- `restart`: mysqld is started again. Before MySQL 8, InnoDB then sets the counter of
  `Company` behind the largest id there is, so that the id of a company that was
  removed may be given again, to another user too, while documents still carry it
  (`dossier_setup.sql:40, 58`). The counter of `Document`, a MyISAM table, stays.

Some points where the model is less obvious than the code:

- `Accept` is both the connection to MySQL and `validateUser`; either failing gives
  the same answer. `ReadRequest` stands for a request that was read without an
  error, `BadRequest` for all others; the bytes are the subject of `RequestReader`.
- The connection closes at the end of the handler, because the task owns the
  client, except for an upload, which seals it behind its answer and before
  `pdftotext` runs (`proxy.cpp:250-252`). `closed` is the end of the handler; nothing
  of an upload's peer matters from `extracting` on.
- A search has a company name and keywords. The name is escaped; the keywords are not
  (`database.cpp:106-113`). `plain` ones narrow the result to some of the documents
  found, `quoted` ones, with a quotation mark in them, may turn the condition into
  any, so that `Selected` yields any documents of anybody. `OnlyOwnData` is about the
  former; of the latter it would be false. What else such words could do is left out.
- What `pdftotext` prints for a file stands for the file: a text is a beginning of the
  chunks of the document.
- `removed` holds the removals answered OK whose `DELETE` came after the row was
  inserted. A client that guesses the id of an upload that is just starting may
  have its `DELETE` run before the `INSERT` and its `unlink` after the `open`; it
  is answered OK, and the row stays, without its file. `tried` holds all attempts.
- In the passing runs sizes are 1 or more. An upload of size 0 whose file cannot be
  opened is answered OK with no file (`proxy.cpp:213-218`).
- A client sends at most the size it announced, which is not negative. One that sends
  more is in `RequestReader` and `Session` (`copy()` takes one byte too many,
  `file.h:224-239`), a size below zero in `RequestReader`.
- `LIMIT 1` without `ORDER BY`: `CompanyNamed` may yield any company of that name,
  as names are not unique in the schema.
- An id beyond the width of its column: the `INSERT` is refused. `MaxPage` and
  `MaxCompany` are the largest ids. Ids of deleted documents are not used again (the
  counter of a MyISAM table does not go down), those of companies only after `Restart`.

### ArchiveSpec

No workers, statements, paths or inodes: for each id an owner, a size, a `content`
(what a download delivers), whether it is `listed`, its `text`, and a `phase`. An id
is given out once (`Begin`), its content grows chunk by chunk (`Grow`), it is
acknowledged only when whole and listed (`Store`), from when on nothing but its
owner's wish to remove it (`Dispose`) can touch it, and it is reported as removed
(`Remove`) only when nothing of it is left, after which no step exists. `SetText`
demands that the text is a beginning of the content of that moment (of the whole upload
if the document is to be removed): more the code does not see to, as it takes what
`pdftotext` printed for the text. That the text is whole unless a `pdftotext` ended
early is `IndexMatchesFile`.

The mapping is at the end of `Archive`: `content` is the file under the path the
upload created, `listed` and `text` come from its row, and `phase` from what its owner
asked for and was told (`acked`, `tried`, `removed`). A removal that failed half-way
leaves a document `disposed` for ever, in which the promise allows nearly anything
except that it grows beyond what was uploaded or comes back after `Remove`.

### RequestReader

`cache`, `cursor` and `fresh` are `_cache`, the position of `_data_p` in it and
whether it was ever set. `LoadsBytes`, `LoadsEof` and `LoadFails` are the outcomes of
`load()`; the failed one has resized `_cache` already, and leaves `_data_p` alone.
`GetRequest` is `next()` and the `switch`; `LoadMore`, `TakeByte` and `ValueAtEof` are
the rounds of `eachByte` with the lambda of the `load()` templates. `Layout` and
`Keywords` give, for each code, the bounds of the values it loads and the number of
keywords behind them. Numbers are loaded as strings, and `Number` is what `atol`
makes of one: blanks, a sign, and digits up to the first byte that is none; a string
without digits is 0. So a size may be negative, and `copy()` then takes all that comes.

Behind the values of an upload lies its body, and `exec()` calls `copy()` on the buffer
that `load()` left half read. `CopyRound` is a round of its outer loop: fill the buffer
when it is used up, take from it what there is but no more than `max`, except that the
inner loop pushes a byte before it looks (`Taken`), and write. `Archive` sees the same
loop as one chunk for each round, `Session` as any number of bytes.

`LoadBlocks` is the `load()` that does not return: its client has sent the beginning of
a TLS record and no more.

`err_msg` is set only for the reader's own error (`CUSTOM_ERR`); after `TIMEOUT` and
`STREAM_ERR` it stays uninitialised, as in `proxy.h:75`. `TIMEOUT` may come at any
load: `select()` also waits when OpenSSL holds decrypted bytes already.

### Session

`req` is what the client program was started to do. `cpc` follows its `perform_*`
function, `spc` the worker. `c2s` and `s2c` are the bytes under way, a byte being a
number: a header counts as one, documents are sequences of bytes, and the names of a
reply are spelled out with their zero bytes, because the parsers of the client look at
those (`list.cpp:49-65`, `search.cpp:116-138`).

- `conn` is the connection as the client can see it: `closed` (an end of file),
  `reset`, `silent` (nothing passes and nobody is told). A socket that is closed with
  bytes unread is reset, and of what was under way any part may be lost (`Break`). So
  is a connection whose other end is gone and that is written to.
- `held` is a `pdftotext` of another worker, which inherited the server's socket with
  `fork()` (`proc.cpp:13`): the connection ends when that child does, not before.
- `next()` yields 0 when nothing is left to read and when the read fails, and 0 is
  `OK` (`HearStatus`). `heard` keeps apart what the client cannot: an OK that was told
  (`"OK"`), one that was made up (`"eof"`, `"lost"`). After a failed read `_data_p` lies
  outside of the resized buffer, so what a list, a search or a download reads first is
  a byte that nobody sent (`Junk`), or the program dies.
- An upload announces the size that `stat()` gave and sends what the file holds;
  `length` and `size` of a request are independent.
- The worker may refuse before it has read anything (`Refuse`), answer, store bytes
  until there are `size` of them, an error, three seconds of silence or the end of the
  stream, or send a document and an error behind it. A round of `copy()` takes any
  number of the bytes that wait, and with more of them than `size` one beyond it
  (`TakenOf`). So the file of an upload that was answered OK may be a byte longer than
  announced, where the client sends more than it announced.
- A write that stores less than it is given counts as a success, here as at the file
  of a download and at the terminal (fault `short`). `gap` remembers that the worker
  lost bytes so, `unsaid` that the client did; the properties hold of exchanges without.
- `shown` is what reached the terminal. A list and a search collect their output in the
  cache `out` and write it at the end (`Flush`): a search returns the result of that
  write, a list 0 whatever came of it (`list.cpp:67`), and nobody looks at that of the
  title of a search (`PrintTitle`).
- Fault `slow` is a time-out with bytes on their way (`ReadRequest`, `StoreStops`).
- `WaitForRest`: the connection falls silent inside a TLS record, and the worker waits
  for its end without a limit (`stuck`).
- An id too long for `load()` of a removal ends in `print()` of `db.err_msg`, a null
  pointer: the handler ends without an answer (`proxy.cpp:391-397`). `LIST` and `SEARCH`
  end at an empty name behind a line end; rows are four fields.

Not in it: an `ssl_connect` that fails (the client reports it and has sent nothing),
`SIGPIPE` at the server (a `Crash`), several exchanges at once (`Archive`).

## Runs

Each of them ends within a few minutes with two TLC workers.

| run | module | instance | shows |
|---|---|---|---|
| `ThreadPool` | `ThreadPool` | 2 threads, 3 tasks | `FifoOrder`, `RunsOnce`, `JoinDrains`, `QuietAfterJoin`, `EarlyTaskRuns`, `JoinReturns`; `Inductive`, the invariant of the proofs |
| `Server` | `Server` | 2 threads, 3 clients | `NoPushIntoDeadPool`, `EveryPushedServed`, `AcceptedIsServed`, `StopWaitsForHandshakeOnly`; `ServerInv`, the invariant of the proofs |
| `ServerStop` | `Server` | 2 threads, 2 clients | violation of `StopReturns` |
| `ArchiveSafety` | `MCArchive` | 2 workers, 1 user, 2 documents of 2 chunks, every fault but `short`, `peer` and `restart` | `FileOfOneUpload`, `AckedUploadStored`, `RemovedStaysRemoved`, `OrphanOnlyByRemoval`, `IndexMatchesFile`, `LateDownloadWhole` |
| `ArchiveUsers` | `MCArchive` | 2 workers, 2 users, 1 company name, 2 companies, 1 document of 1 chunk; writes, removals of files and `pdftotext` fail, the process dies | `CompanyOfOwner`, `OnlyOwnData`, `OnlyOwnerChanges`; `ImplementsPromise`, the refinement of `ArchiveSpec` |
| `ArchiveLiveness` | `MCArchive` | 2 workers, 1 user, 1 document of 2 chunks, all codes but `SEARCH`; clients close, time out and stall, `unlink` fails, mysqld is restarted | `ConnectionEnds`, `AckedIsIndexed`, `AckedUploadStored` |
| `ArchiveCompanyRemoved` | `MCArchive` | 1 document, no fault | violation of `StoredIsFound` |
| `ArchiveShortWrite` | `MCArchive` | 1 document, fault `short` | violation of `AckedUploadStored` |
| `RequestReader` | `MCRequestReader` | 4 byte values (0, "-", "1", "2"), up to 7 bytes sent, loads of up to 3 | `ParsedAsSent`, `StoredIsBody`, `ValueBounded`, `ReadingBounded`, `Settles` |
| `ReaderCursorValid` | `MCRequestReader` | up to 2 bytes | violation of `CursorValid` |
| `Session` | `MCSession` | documents of up to 3 bytes announced with any size up to 3, replies of up to 2 names or rows, sockets of 2 bytes of content, every fault | `OkIsTrue`, `DownloadIsTrue`, `RepliesAreShown`, `ExchangeEnds` |
| `SessionLostReply` | `MCSession` | uploads announced as they are, no fault | violation of `SuccessIsTrue` |

Each passing run also checks `TypeOK` where its module is run first.
`CHECK_DEADLOCK FALSE` everywhere, because every one of these systems may really
stop: a pool that was joined, a server that is gone, a request that was read, an
archive whose ids are used up and whose clients stay away. That the interesting
parts do not stop early is what the liveness properties are for.

### Why the bounds are enough

- Two threads are the least number for which one can hold a task, or see an old
  flag, while the other returns; three tasks let both be busy with one task queued.
  The proofs cover all other numbers.
- Three clients for the server: one in the pool, one in the handshake, one in the
  backlog. Again the safety part is proved for all numbers.
- Two workers interleave at every statement and file operation of two requests.
  Two documents of two chunks let a half-written file exist, and let one document
  be mistaken for another; ids are the only thing two uploads share, so a third
  document adds no new kind of conflict. Three requests at once could matter only
  through the tables and the spool, which after each step hold nothing that two
  requests could not have left there in sequence.
- The promise of `ArchiveSpec` speaks of each document for itself, so one is enough
  to refine it; two documents that could get in each other's way are in
  `ArchiveSafety`. A document of one chunk is empty, or whole without its `OK`, or
  acknowledged; a write and an `unlink` that fail, a `pdftotext` that prints nothing and
  a crash leave a row without a file, a file without a row, an empty file and an empty
  text. Half a file and half a text are in `ArchiveSafety`, and in the proof.
- In `ArchiveUsers` one company name is used by both users, so that a sub-select
  by name alone would find the other user's company; two companies allow one to be
  removed and made again, or one each.
- `ArchiveLiveness`: two workers and one document of two chunks, so that a removal can
  meet an upload at every step, and a client can stall at each of them.
- `RequestReader`: seven bytes hold the code, two values with their ends and two
  bytes of a body, so that a size of 1 or 2 is met, missed and passed; values bounded
  by 2 and 1 are reached, passed and ended early within that, and loads of up to
  three bytes cut it everywhere. "-" makes sizes below zero ("-1", "-2") and strings that
  are no numbers ("-", "1-").
- `Session`: with sockets that hold two bytes, three are the least for which a
  sender has to wait for its peer. Sizes from 0 to 3 meet every document exactly, too
  small and too large. Two rows have a boundary between them; a name is empty,
  ordinary, or the line end that the parsers take for their own.

`ArchiveSafety` and `ArchiveUsers` use symmetry (workers, users and names are
alike and no definition chooses among them); the runs with liveness do not.

## Fairness

- Pool: every thread is scheduled, the write of the flag reaches every thread, and a
  task that was called returns. The last one is an assumption about the handlers which
  the code does not fulfil in every case: one whose client stops inside a TLS record,
  whose `pdftotext` hangs or whose MySQL does not answer never returns, and neither does
  `join()` then. `ConnectionEnds` of `Archive` says that these are all the cases. Nobody
  is assumed to push or to join.
- Server: the listener goes on except in the handshake: the peer may leave it
  unfinished for ever, since `SSL_accept` runs on a socket without a time limit (the
  limit of `sslFile` holds for the start of its own reads and writes). Its pool makes the
  assumption above about handlers. The owner, once it has called `stop()`, goes on. Nobody is assumed to connect, or to stop the server.
- In all of the following, what the code bounds is the wait in `select()`, three
  seconds for the server's connections (`_ssl.cpp:141`): a client of whom nothing comes
  is given up. Not bounded is the call behind it, `SSL_read` or `SSL_write` on a blocking
  socket. Each module has an action for a call that waits for ever (`PeerStalls`,
  `LoadBlocks`, `WaitForRest`), and its liveness property an exception for such a worker.
- Archive: every worker with a step to make takes one in the end (weak fairness of
  `Step(h)`, stalls left out; a worker that is `stuck` has none): waits for the client end by `select()` or
  are stalls, MySQL and the file system answer, `pdftotext` ends. The code does nothing
  to make sure of the last two. Connections are not assumed to come.
- RequestReader: the worker goes on, a wait for the client ends with a time-out or is a
  `LoadBlocks`. `Settles` counts a thread that died of the dangling cursor as over, as
  `CursorValid` is the one that speaks of it.
- Session: the client program runs, the worker runs, a child that holds the socket
  ends, and the kernel tells the client of a socket that was closed. Nothing is assumed
  of the network: a connection may fall silent, and then the client, which has no time
  limit (`_ssl.cpp:94`), may wait for ever, and a worker may if it happens inside a TLS
  record. `ExchangeEnds` says that these are the only cases.

## Proofs

All theorems are checked to the last leaf by TLAPS. They assume what the modules
`ASSUME` of their constants: at least one thread, that the stand-ins for "none"
(`NoTask`, `NoClient`, `Nobody`, `NULL`) are no real values, that the buffer holds a
byte, and the fields that requests have. Faults, sizes, numbers of users, workers,
clients, tasks, documents and companies, the layout of requests, the bytes a client
sends and the rows of a reply are arbitrary. Every invariant and action property that
a passing run checks is a theorem.

What goes beyond that, each at a place where the code is wrong without it:

- `"short" \notin Faults`, of everything about what files hold (`FilesAreUploads`,
  `AckedIsStored`, `DeliversOwnData`, `LateDownloads`, `ImplementsArchiveSpec`). A short
  `write()` counts as success; the run `ArchiveShortWrite` shows what comes of it. The
  other faults of `Archive` (a statement that fails with its effect or without, a crash
  between any two steps, an `unlink` or an `open` that fails, a `pdftotext` that is not
  there or ends half-way, a peer that stalls, ...) are all allowed. In `Session` a short
  write is among the faults, and the properties are about exchanges that had none which
  mattered (`gap`, `unsaid`).
- `~Fails("restart")`, of `OwnerInvariance` and `DocumentsOfOwner`: mysqld is not
  restarted, or is of version 8, so that the counter of `Company` does not go down.
  Otherwise the id of a removed company can go to another user's, and documents that
  still carry it are filed there. All other theorems hold with restarts.
- `OnlyOwnData` (`DeliversOwnData`) speaks of searches for words without a quotation mark.
- `IndexMatchesFile` (`IndexIsTrue`) has the text whole only where the fault `proc` does
  not occur, a beginning of the file's where it does.
- `0 \notin Sizes \/ "open" \notin Faults`, of `AckedIsStored` alone. An upload of no
  bytes never writes, so it never meets the error of an `open()` that failed: it is
  answered OK and has no file. Found while proving; `AckedWritten` says exactly this.
- In `Session`, the first field of a row is not empty. It is the date
  (`created TIMESTAMP NOT NULL`, `db/dossier_setup.sql:50`), and the client would take
  an empty one for the end of the table (`search.cpp:116-138`).

**ThreadPoolProofs.** `JoinDrains` is not inductive by itself: when `join()` has
returned, nothing in the state of that moment says why the early tasks ran. The
invariant `Inductive` says it: a thread reaches its second loop only after the flag
fell (`FlagOrder`); from then on no push is early; a thread returns only when it
finds the deque empty, so at that point every early task had left it
(`ExitMeansTaken`); what left the deque has run or is in the hand of a thread that
is calling it (`TakenIsRunOrHeld`, `HoldsWhileCalling`); and when `join()` is done all
threads have returned, so no hand holds anything (`JoinedHaveExited`). The deque is
the tail of the sequence of pushes (`FifoOrder`), which makes "has left" a matter of
counting. `OnceInv` adds that no task is pushed twice and has one holder at most.
From this follow `TypeCorrect`, `Fifo`, `RunsOnceCorrect`, `JoinDrainsCorrect` and the
action property `QuietAfterJoinCorrect`.

**ServerProofs.** Every step of `Server` is a step of the pool or leaves it alone, so
the pool's invariant carries over (its theorems are instantiated, not proved anew).
`ServerInv` adds how the lock orders the two threads: the listener holds it exactly
while it is in its loop, the owner gets past `stop()` only when it is free, and, as
the owner stops a server that has served, the listener cannot enter the loop
afterwards (`LockInvariance`). So `join()` follows every push (`PushesReachLivePool`),
every push is early, and `JoinDrains` yields `AcceptedAreServed`.

**ArchiveProofs.** `TypeCorrect` has a lemma for every action. It needs
`Consistent`, the part of `TypeOK` that ties the program counter to the request (a
worker that is receiving has an upload and an id), without which no field of a
request could be typed. `OwnerInvariance` proves `OwnerInv`: `CompanyOfOwner` alone is
not inductive, because a new company could be given an id that an old document
still refers to. That the ids which companies and documents carry are below the counter
rules it out, as long as the counter does not fall back. That is all that makes the
dangling references harmless which `removeCompany` leaves behind; with a restart
of mysqld before version 8 they are not. `IdInvariance` says why uploads never meet, although no lock keeps them apart:
`AUTO_INCREMENT` gives each an id of its own (`IdsGiven`), the id a path, no two
handlers upload under one id (`UploadsApart`), and no two paths share an inode and no
two handlers write one (`FilesApart`). `OthersUntouched`, the action property
`OnlyOwnerChanges`, follows step by step.

**ArchiveSafetyProofs.** Four layers on top of `IdInv`, each with an invariant of its
own, because each property speaks of one moment and its reason lies in another:

- `RemovalInv`. A document that was uploaded has its row unless somebody tried to
  remove it (`RowOrTried`; from this, `OrphansAreRemovals`). What a removal is about to
  report gone is gone already, and *no handler is still about to create its file*
  (`Gone`, `Unlinking`): that is the race of a removal with the upload it removes, and
  it is decided by whether the `DELETE` came before the `INSERT` (`late`). From this,
  `RemovalIsFinal`.
- `Written`. A file that is being written holds exactly what its handler received
  (`WritesAll`), any other a beginning of its upload (`FilesBegin`), and an acknowledged
  one all of it (`AckedWritten`). From this, `FilesAreUploads` and `AckedIsStored`.
- `Delivered`. A download holds a beginning of the document it was asked for, even
  while an upload is still writing that file or after it was unlinked (`SendsOwn`,
  `SentOwn`), and what a search found is the user's (`FoundOwn`). From this,
  `DeliversOwnData` and `LateDownloads`.
- `IndexInv`. A row has a text only when its upload is over, and a handler about to
  write it has read a beginning of the file as it still is, or all of it where `proc` does
  not occur (`Indexed`). From this, `IndexIsTrue`, for any choice of the faults.

**ArchiveRefinementProofs.** `ImplementsArchiveSpec`: the initial states map to the
initial state of `ArchiveSpec`, and each step of a handler to one action in the life
of one document or to a stutter. `SameDoc` says that nothing happens to a document;
there is a lemma for each kind of step (an insert, a file made, a chunk, an
acknowledgement, an index, the two halves of a removal) that says what happens to the
one it concerns, and the variables of the promise are put together from the two.
`MapInv` collects what the mapping rests on and adds that a text about to be indexed
is a beginning of its document.

**RequestReaderProofs.** `ReaderInv` puts the cursor inside of the buffer wherever it
is used, and says that the request is a beginning of one the layout allows; it gives
`ReaderTypes` and `BoundedReading`. `BoundInv` adds that every value kept its max when it
was taken (`BoundedValues`). `ParsedInv` is about the bytes: what was taken so far, value
by value with a zero byte behind each, and then the value at hand, is a beginning of
what the client sent (`ValuesInv`, `PlaceInv`); in `copy()` the body starts where the
values end (`BodyPlaceInv`) and what was stored is what stands there (`StoredInv`).
`ParsesWhatWasSent` and `StoresTheBody` follow, for every way the stream cuts the bytes.
In `copy()` the size left may be below zero, and then the bound on what is stored is void.
That `Number`, a recursive function behind blanks and a sign, yields an integer for any
string is an induction (`NumberType`).

**SessionProofs.** `TypeCorrect` is where the sizes of the socket and of the upload
matter: the bytes left never fall below zero. The three properties of the exchange
each need to know what is *under way*, of which they say nothing themselves.

- `OkIsTrue`: `SessionInv` follows the document: what is stored is a beginning of it in
  its order unless there is a `gap`, what is unread comes behind what the worker has
  taken, and both together are all of what was sent as long as the connection holds
  (`InOrder`; `Ahead` is the header in front of it, which goes when the
  request is read); a worker that has not answered has said nothing (`Silent`), so that
  the first byte a client hears is the answer itself; and an `OK` under way to a client
  that waits for it is as true as one that was heard (`Truthful`). The last part is why
  the client's position matters: the `OK` for an upload cut short is false, and harmless,
  because it is only said to a client that is gone (`StoreStopsInv`). The steps of the
  network are handled once for all (`Broken`), as are the ways a worker ends (`Answered`,
  `Gone`).
- `DownloadIsTrue`: `DownloadInv` numbers the bytes the worker says of a download
  (`Served`: OK, the chunks, at most a report). What the client has appended are those
  from the second on, and what is under way those that come next (`Part`), with none
  missing while the connection holds (`All`).
- `RepliesAreShown`: `ListInv` says of a client in the middle of a reply that it is some
  letters behind some number of fields, that its cache holds what these fields look
  like, behind the title that was printed (`Opening`, `Reached`), and of one that is done
  that it has printed a beginning of that, or all (`Printed`). What is under way is the
  rest of the reply from there on (`Rest`). The work is in the operators: where a field lies in the reply (`Places`,
  `ReplyBytes`), what a field adds to what is shown (`DrawnSteps`), that the rows of four
  laid end to end make the table (`TableDrawn`), and that one byte takes the client
  from one place to the next, or makes it stop where all was shown or a name looks like
  the end (`ReadLetter`, `ReadEnd`, `ReadLast`, together `ReadOne`).

**InductionLemmas.** The theorems of the library that take a predicate as a parameter
cannot be used, so induction is stated of sets instead: a set of numbers that holds 0
and every successor is `Nat` (`SetInduction`, from `LeastNumber`), and a function given
by a first value and a step exists (`Recursion`). To prove that all numbers have a
property, one names the set of those that have it. This is how `FlattenSeq` of the
community modules and `Number` are dealt with.

Only model-checked: what needs fairness, since the prover does neither liveness nor
`ENABLED` (`EarlyTaskRuns` and `JoinReturns` of the pool, `AcceptedIsServed` and
`StopWaitsForHandshakeOnly` of `Server`, `ConnectionEnds` and `AckedIsIndexed` of
`Archive`, `Settles` of `RequestReader`, `ExchangeEnds` of `Session`), and the five runs
that show a violation.

## Disagreements between code and documentation

1. `stop()` does not return while a peer leaves its TLS handshake unfinished (run
   `ServerStop`), although `poll_timeout` is there to bring the listener back to its
   flag (`config.h:14`) and the test relies on it (`test.cpp:148-149`).
   `StopWaitsForHandshakeOnly` shows that nothing else holds it up.
2. A document that is stored is no longer found once its company is removed (run
   `ArchiveCompanyRemoved`; `README.md:3-5` promise retrieval and search). The row
   and the file stay; `search` joins with `Company`.
3. A short `write()` counts as success, so an upload is answered OK and its file
   lacks a part (run `ArchiveShortWrite`; `file.h:214-218` promise to copy `max` bytes).
4. When the first byte of a request does not arrive, `next()` yields 0, which is the
   code of `SEARCH`, and the load that follows reads through an iterator that was
   never set (run `ReaderCursorValid`; `file.h:110`).
5. The client's functions return 0 for what failed: an upload that the server refuses
   is answered with an error, but the socket is closed with the document unread, the
   reset may take the answer along, and the zero byte that `next()` makes up is `OK`
   (run `SessionLostReply`; the test expects 0 for success, `test.cpp:126-146`).
   `OkIsTrue` shows that an OK which the server did send is true.

## What is not modelled

- Dates in the conditions of a search; the text of queries and their escaping. `search`
  is modelled by user, company name and the join, and keywords by whether they narrow
  that or, with a quotation mark, replace it. What else such words could make of the
  statement is not modelled.
- `newUser` and `getFile` of `Database`, `removeListener`: nobody calls them. Table
  `user` is constant, as no code of the server writes it.
- `server/main.cpp`: a straight line of initialisation.
- Certificates and the handling of names in `_ssl.cpp`: the Common Name is an input
  of `Accept`.
- The configuration parser (`server/config.cpp`) runs once, before any thread exists,
  over a file of the operator, and keeps no state but its result.
- The log: workers share its buffers without a lock. A race inside a `std::vector` has
  any outcome; those the archive could notice are the process dying, which is `crash`.
- An owner that stops a server before it has served (`Stop` above).
- The parsing of the client's options and its usage texts; certificates at the client.
- How many zombies it takes for `fork()` to fail. How many documents a client makes by
  trying an upload again.
- What a text is: characters, encodings, and a `pdftotext` that prints something other
  than a beginning of the text.
- The width of sizes: `atol()` and `int64_t` hold the eleven characters of a size.
- Wording of messages, layout of replies.

## Plan

Done, in this order: `ThreadPool`, `Server`, `Archive`, `RequestReader` (values, then the
body), `ArchiveSpec` with its refinement, `Session`; proofs of every safety property
they check.

Next:

1. The halves of the liveness properties that are safety: that a handler's steps are
   bounded by what is left of its request (a variant for `ConnectionEnds`), and the same
   for either side of an exchange (`ExchangeEnds`), as functions that every step lowers.
2. That `Session` and `Archive` see the same upload: what `Session` calls stored is what
   `Archive` receives, chunk by chunk.

To model, if the code comes to depend on it: an owner that stops a server at any time
(`Server` with an unguarded `Stop`).
