# A verification project for luno

luno is a small web server in C: one main thread accepts connections, one thread per
client parses HTTP requests with a parser that reads token by token from a small
buffer, and Lua scripts (the server's own, then the site's) answer them. Sessions live
in one Lua state that all clients share. This directory holds TLA+ modules
translated from that code, the TLC configurations that check them, and proofs for
TLAPS. Source paths below are relative to the repository.

## 1. The system

### Components

| Component | State | Operations | Modelled in |
|---|---|---|---|
| Client records, `src/server.c` | `clients[].lease`, `droppedClient`, `nclients`, `lastClient`, under `cmutex` | `_getClient` (main thread), `serverDropClient` (client threads) | `ClientPool` |
| Server loop and shutdown, `src/server.c`, `client.c`, `thread.c` | `run`, the socket, Lua state and thread of each client record | `serverRun`, `_acceptClient`, `clientStart`, `_clientThread`, `_stopClients`, `clientStop`, signals | `Server`; the Windows build in `WinThread` |
| Sessions, `src/lserver.c` | the table `sessions` and the stack of the server's Lua state, `lmutex` | `lserverNewSession`, `lserverHasSession`, `lserverSetSessionString`, `lserverGetSessionString` | `Sessions` |
| Trace buffer, `src/token.c` | `buf`, `nBufChars`, `nDroppedChars`, `nRead`, up to two remembered tokens | `tokenReset`, `tokenGet`, `tokenDrop`, `tokenGetRemainedData`; `request:getContent` of `lclient.c` | `Token` |
| HTTP parser, `src/http.c` | its place in the grammar, the fields of the Lua table `request`, the client's Lua stack | `httpProcessRequest` and what it calls, the token analyzers | `Lexer`, `Http` |
| Client service, `src/client.c`, `lclient.c`, `src/lua/*.lua` | `client->request.keepAlive`, the responses sent | `client_Service`, `lclientProcessRequest`, `process.lua`, error pages, `Response:send`, `closeConnection`, `util.getInput`, `util.outputFile` | `Connection`, `Exchange` |
| ROM file system, `genmromfs.tcl`, `src/mromfs.c`, `lmromfs.c` | an image in memory, open files | packing, search, open, read | `RomFs` |
| Number parsing, `src/common.c` | none | `commonString2Number` | `Number` |
| Start-up, log, `src/main.c`, `debug.c` | options | `main`, `debugPrint` | not modelled, see `DebugNoise` in section 4 |
| JSON, `src/lua/ljson.lua` | none | encode, decode | not modelled: third-party text processing without state |
| Vendored Lua, SQLite, lsqlite3 (`lib/`), example site (`res/`) | | | not modelled: not this program's code |

(`src/server.c` is `src/src/server.c` in PROJECT.json, whose paths start at the directory
that holds the repository.)

### How they interact

* The main thread takes a client record with `_getClient`, fills in its socket, makes a
  Lua state, starts a thread, and forgets about it. The thread gives the record back by
  `serverDropClient` from its cleanup handler and then detaches *itself through the
  record*.
* The client thread loops in `client_Service`: `tokenReset`, new Lua tables `request` and
  `response`, `httpProcessRequest` (which pulls characters through `tokenGet` from
  `recv`), `lclientProcessRequest` (which runs `process.lua` in a protected call), and
  goes round if `request.keepAlive` still says so.
* Handlers of the site call back into C: content (from the rest of the trace buffer, then
  from the socket), sessions (under `lmutex`), `send` and `closeConnection`.
* A request body is read by `util.getInput` in chunks, as many bytes as Content-Length
  says, and a file is read from the image that is linked into the program, chunk by chunk.
* On Windows a thread and `threadCancel` agree by two auto-reset events, which both find
  through the client record, on who closes them.
* A signal clears `run`; the main thread leaves `select`, walks over the table, and
  cancels and joins every thread whose record is leased. Cancellation is deferred, so it
  takes effect at `recv`, `send`, `close` and `printf` only.

### What is hard about it

* **Two mutexes with gaps.** `cmutex` is released in the middle of `_getClient`, and
  `_stopClients` acts on a lease it has read before; the height of the shared Lua stack
  is read and restored outside `lmutex`.
* **A thread that outlives its record.** Between `serverDropClient` and `pthread_detach`
  the record may belong to somebody else.
* **Cancellation** anywhere it is possible, also where the code holds a mutex and has
  already popped its cleanup handler.
* **Partial failures** at start (Lua state, script, thread) and in the accept loop.
* **A small buffer** that is refilled and moved in the middle of a token while other
  tokens point into it.
* **A parser of loops over optional tokens**, with a limit of two remembered tokens, an
  unbalanced-looking use of the Lua stack, and fields that are appended to.
* **A stream without frames**: what one request leaves in the buffer or on the socket is
  dropped by `tokenReset` or parsed as the next one.
* **A handshake by auto-reset events** whose waits consume what the other side tests, in a
  record that may have a new owner.
* **One flag in two places**: `client->request.keepAlive` and `request.keepAlive`.

### What makes each component correct

* Client records: a record has one holder; the count is the number of holders; nobody is
  refused while a record is free; a call returns.
* Server: a thread uses the socket and Lua state of its own connection; each is closed
  exactly once; nothing is left open; the shutdown ends, and no client is serving when
  the server's Lua state is closed.
* Sessions: the four functions act like atomic operations on a table, and keep the
  shared stack in order.
* Trace buffer: tokens and content are the bytes of the connection, in order, none
  twice; a token is too long only when it is.
* Parser: within its tokens and its Lua stack, no append to a field that is not there,
  no loop without progress, nothing accepted that was not parsed to the end.
* Client service: one response per request, the connection is kept exactly as announced,
  and no state leaks from one request to the next; a script reads the body of its own
  request and never waits for more.
* Windows events: open while the thread serves, closed when it has ended, and the shutdown
  gets its answer.
* ROM files and numbers: what was packed is what is read; a length that fits is exact.

## 2. The modules

| Module | What it is |
|---|---|
| `SlotPool` | What the table of client records promises: an atomic pool. |
| `ClientPool` | `_getClient` and `serverDropClient`, one action per critical section of `cmutex`. |
| `Server` | Accept loop, client threads, cancellation, shutdown; contains `ClientPool` by `INSTANCE` and shares its variables. |
| `SessionStore` | What the sessions promise: an atomic table. |
| `Sessions` | The four functions of `lserver.c` on the shared Lua stack. |
| `ByteStream` | What the trace buffer promises: the next bytes of the connection. |
| `Token` | The buffer with its indices, refill and move. |
| `Lexer` | The token types of `http.c`: which characters each takes, when it is complete, when it is valid. |
| `Http` | The parser; every `TOKEN_GET` of the code is a value of `pc` (see `Wanted`). |
| `Connection` | One client thread from request to request: extends `Http` with `client_Service` and the scripts. |
| `WinThread` | The events of `thread.c` on Windows: one record, the connections that use it, and the shutdown. |
| `Number` | `commonString2Number`, and what digits stand for. |
| `RomFs` | The image as `genmromfs.tcl` packs it, `mromfsOpen`, `mromfsRead`. |
| `Exchange` | Requests and responses on the stream of one connection: composes `Token` (by `INSTANCE`, sharing its variables), `Number` and `RomFs` with `client_Service`, `util.getInput` and `util.outputFile`. |
| `ClientPoolProofs`, `ServerProofs`, `SessionsProofs`, `TokenProofs`, `ConnectionProofs`, `WinThreadProofs`, `DataProofs`, `ExchangeProofs` | Theorems and proofs; `DataProofs` is about `Number` and `RomFs`. |
| `MC*.tla`, `*.cfg` | Instances for TLC. |

How state and actions correspond to the code:

* **`ClientPool`.** `TakeDropped`, `EnterScan`, `ScanLease`, `ScanSkip` and `ScanFail` are
  the critical sections and exits of `_getClient`, `Drop` is `serverDropClient`. `slotOf`
  says who works with a record; `released` and `raced` are history: the records given
  back since the call began, and whether the search has ever taken the record
  `droppedClient` points to.
* **`Server`.** `mainPc` follows `serverRun`, `_acceptClient`, `clientStart` and
  `_stopClients`; `tpc[k]` follows the thread of connection `k` through `client_Service`,
  `client_Cleanup` and `_clientThread`. A thread finds its socket, Lua state and thread
  id only through `rec[k]`, its record, as the code does; that is what makes a reused
  record visible. `Cancelled` is the cleanup handler run by a cancellation, `CutShort` a
  cancellation behind `pthread_cleanup_pop`.
* **`Sessions`.** `pc[t]` is the place in the function; the stack holds the paths of tables
  and strings. An access to an entry the stack does not have is undefined behaviour,
  and the model stops there (`pc = "undefined"`).
* **`Token`.** One byte per step goes through the analyzer (`LexTake`), whose verdict is
  left open. `Compact` is the `memmove` of line 195, `Fill` the `recv`, `Finish` the end of
  `tokenGet`, `GetContent` all of `request:getContent`.
* **`Http`.** `Recv` is a character from the peer, `TakeChar` puts it into the token,
  `EndToken` and `NoToken` end `tokenGet`; each of the other actions is everything the
  parser does between two `TOKEN_GET`s. A rejected token puts its characters back
  (`put`, `ahead`), so that the next `TOKEN_GET` sees the same ones. `fields` says which
  fields of `request` are set; `lines` is history, the header lines this request has had
  (`HeaderName` adds one), which is what the fields are compared with.
* **`Connection`.** `Service` is the head of the loop, `NoHeaders`, `BadRequest` and `Route`
  are `process.lua`, `Send` its response, `ErrorPage` `util.errorResponse`, `ScriptSends`,
  `CloseConnection` and `ScriptEnds` the scripts of the site.

* **`WinThread`.** `field` is what the record holds, `event` what has become of each event;
  a call on a handle that is closed fails, or closes it twice. `mainPc` follows
  `clientStart` (`ThreadInit`, `MakeEvent`, `MakeThread`, `MakeFails`) and `threadCancel` (`Cancel`,
  `Wait`, `MainClean`), `tpc[k]` follows `threadRecv` (`BeginWait`, `SockReady`) and `thread_Stop`
  (`DropClient`, `SetStop`, `Check`, `Clean`). `SetEvent` on an event somebody waits for lets
  the waiter go in the same step, as the system does.
* **`Number`, `RomFs`.** Recursive functions. A digit is its value; a byte of the image is the
  file it belongs to and its place in it.
* **`Exchange`.** `Service` is `tokenReset`, `Parse` the parser as far as it takes bytes (each
  disjunct of `GetToken` is an action of `Token` with the limits of a head), `Run` the start of
  the script, `Input` and `Output` one round of the two loops of `util.lua`, `Respond` the
  response. `Send` is the peer: a head at a time, or a byte of a body; how the bytes arrive
  is `Fill` and `Content`, in pieces of any size. `lost` is the end of the run: the byte that
  comes next is not the first one of the next request. A head may be no request
  (`Malformed`): `Reject` is the parser giving it up, with the connection dropped or, when some
  of it was accepted, answered with 400 and kept. `ParseFails`, in a head, and `InputFails`, in a
  body, are a `recv` that returns an error; `failed` is history, the requests that were left
  without a byte by one.

## 3. The runs

| Run | Instance | What it shows |
|---|---|---|
| `pool` | 3 records, 4 connections | `ClientPool` implements `SlotPool` until the search takes the dropped record (`ImplementsPool`); a record has one holder, leased is held, the count is right, nobody is refused wrongly, every call returns. |
| `pool_limit` | 2 records, 4 connections | *violated*: `ClientLimit`. |
| `server` | 2 records, 3 connections, every failure, `-d4` | Threads keep to their own socket and Lua state, close them once, leak none, end detached; no client serves when the server's state is closed; the table is used as in `ClientPool` (`SharesPool`). Each under the conditions its comment names. |
| `server_stop` | 2 records, 2 connections, `-d4` | Every signal leads to the end of the program, unless a thread was cancelled while it printed under a mutex (`ShutdownCompletes`). Without `-d4` no thread can be cancelled there, and its steps are among those of this run. |
| `server_all_stopped` | 2 records, 3 connections, no failure | *violated*: `AllClientsStopped`. |
| `sessions` | 3 threads, 2 ids, collisions | Undisturbed and without collision the calls are those of `SessionStore` and keep the stack in order. |
| `sessions_stack` | 2 threads, no collisions | *violated*: `StackEmpty`. |
| `token` | buffer of 3 bytes, stream of 6 | `Token` implements `ByteStream`; the layout of the buffer, the order of its bytes, and when a token is too long. |
| `connection` | all streams of characters, any number of requests | The parser's promises (what it accepts has the fields its lines give it, `AcceptedIsParsed`), one response per request, the connection kept as announced, no loop without progress. |
| `connection_unanswered` | the same | *violated*: `RequestAnswered`. |
| `win` | 2 connections, one record | A thread that serves finds its events open, they are closed when it has ended, `threadCancel` comes back; each unless the record was started anew too early. |
| `exchange` | 16 scenarios of one or two requests, bodies up to 9 bytes, 5 images, heads that are rejected, a `recv` that may fail | The server keeps its place in the stream unless the peer sent ahead, a head was rejected with 400, a body was left unread or cut off, its length overflowed or a `recv` failed for it (`Aligned`), `getInput` returns the body, `outputFile` the file, and what has arrived is answered. |

### Bounds, and why they are enough

* `NSlots`, `Conns`. With three records the cursor wraps behind, at and before the free
  record, and a record can be dropped on either side of it during a search; a fourth
  connection finds the table full. `Server` needs two records (one reused, one that goes
  on) and three connections (the one whose record is reused, the one that gets it, a
  third beside them or refused). In `Server` a connection comes once; in `ClientPool` it
  comes again and again. `pool_limit` uses two records, since a violation needs one
  connection more than records. The theorems on `ClientPool` and `Server` hold for every number.
* `MaxTables = 3` bounds the tables of `Sessions`: `sessions` itself and two sessions, or
  one and the one a collision makes inside it. No call *begins* once the stack was
  disturbed or an id has collided; the calls that have begun go on, so that every effect
  on them is seen. The theorems on `Sessions` hold for every number of threads, ids and tables.
* `BufSize = 3`, `StreamLen = 6`. Two remembered tokens and a third byte fill the buffer;
  the stream is twice as long, so that refill, move and the end of the stream come in
  every order. The theorems on `Token` hold for every size.
* `MaxReplies = 2` responses a script sends for one request, enough for the one that is
  legal and one too many; process.lua may add its own. Nothing else is bounded in
  `Connection`: `ahead` and `put` are bounded by the grammar (the longest put-back is that
  of an `ESCAPE`), the number of characters and requests is not. The theorems hold for
  every number of responses.
* `WinThread`: two connections on one record are the one that ends and the one that gets
  its record; what happens after an early reuse is explored, but nothing is promised of it.
* `Exchange`: a head (5 bytes) is longer than the buffer (4), so that the buffer is moved
  inside a head and holds, at its end, none, some or all of the body and bytes of the next
  request; bodies are shorter than, as long as and longer than a chunk (2); two requests are
  one that may spoil the connection and one that shows it. Numbers have 3 bits to the base
  2, so that 4 reads as a negative number and 9 as 1. `Align` = 2 and files of 0 to 4 bytes
  meet every remainder of the padding. The theorems on `Exchange` hold for every plan of
  requests, every image, every size of buffer, head and chunk, and every width of the numbers.
* `Chars` in `Lexer` has one character for each combination of classes the analyzers can
  tell apart.

Symmetry is used in `server` and `sessions`, on connections, threads and ids, which nothing
orders. The runs of liveness properties use none.

### Fairness, and what justifies it

* `ClientPool`: weak fairness of `GetClient`. The main thread does not block in it but for
  `cmutex`, which nobody keeps.
* `Server`: weak fairness of the main thread behind `select` and of each client thread
  where it runs; strong fairness of locking `lmutex`, since the mutex is free again and
  again and the scheduler lets everyone through at some time. No fairness for `recv`, for
  signals or for new connections: a peer may be silent for ever, and the shutdown must
  end all the same. It does because `recv` is a cancellation point.
* `Connection`: weak fairness of `Parse` only. A peer need not send anything.
* `WinThread`: weak fairness of the main thread and of each client thread where they do not
  wait. None of the socket, of the accept loop or of the shutdown signal.
* `Exchange`: weak fairness of the server's steps, which are disabled while a `recv` has
  nothing to return. None of the peer.
* `Sessions` and `Token` state no liveness.

Deadlock is checked in `pool`, `token` and `connection` (the end of a connection is a step of
its own there, `Ended`). `Server`, `WinThread` and `Exchange` really end, and `Sessions` stops
at undefined behaviour, so their runs do without.

Every property of a passing run has a mutant in PROJECT.json, a small change of one
definition of the kind a change of the code could make, under which TLC finds the
property violated.

## 4. Findings

1. **A record leased twice** (`pool_limit`, `server.c:337`). A client drops its record after
   `_getClient` has looked at `droppedClient` and before the search, which leases that
   record but does not clear `droppedClient`; the next call leases it again. Two clients
   share a record and `nclients` passes the limit. The first properties of `ClientPool` and
   `Server` are therefore conditional on `~raced`.
2. **All clients are not stopped** (`server_all_stopped`, `thread.c:182`). A thread detaches
   itself through a record it has given back already; if it was reused, it detaches its
   successor, whose `pthread_join` then fails, and the server is torn down around it.
3. **The shared stack is not empty** (`sessions_stack`, `lserver.c:187`): the height of the
   stack is restored after `lmutex` is unlocked.
4. **A request without answer** (`connection_unanswered`, `process.lua:10`): the table
   `request.headers` exists from the first ordinary header on; a request that is rejected
   before has none, and the loop over it fails in front of the error page. A request that is
   accepted fares the same when its only headers are `Connection`, `Content-Length` or
   `Content-Type`, which are kept elsewhere: a valid `GET / HTTP/1.1` with nothing but
   `Connection: keep-alive` is never answered. TLC reports the shorter trace, a rejected request;
   with `error = HTTP_200_OK` added in front of the arrow it reports an accepted one.
   `AcceptedIsParsed` says which of the accepted requests these are, the ones without a line of
   another name.

Conditions a property of a passing run names, because without them the code breaks it:

5. **The shutdown hangs with `-d4`** (`MutexLost` in `ShutdownCompletes`, `server.c:363`):
   `debugPrint` under `cmutex` or `lmutex` is a place where a cancelled thread can end
   without unlocking; `_stopClients` then waits for ever.
6. **Cancelling a thread that is gone** (`Cancel` of `Server`, `thread.c:256`), the place the
   code marks as not reached: the lease is read before the thread ends, and acted upon after.
   For a thread that has detached itself and ended both calls are undefined in POSIX; the model
   takes the kind outcome, that they fail, and nothing is promised of the others.
7. **Windows: both sides clean up** (`EventsReleased`, `thread.c:221`). "Was cancel, clean-up
   will be done by threadCancel" holds only for a cancel the thread has not noticed: the
   wait of `threadRecv` resets the event, `thread_Stop` finds it reset and closes the events,
   and so does `threadCancel`, whose wait for `stopEvent` may also find it closed.
8. **Windows: events of another client** (`earlyReuse` of `WinThread`, `thread.c:217`). The
   record is given back before `stopEvent` is set and `cancelEvent` read; the former thread can
   set, consume or close the events of the next client, whose shutdown may then hang or be
   skipped. When the thread cannot be made, the two socket events are never closed.
9. **Pipelined requests, rejected heads, unread bodies, long numbers, failing `recv`**
   (`Aligned`, `InputIsContent`). `tokenReset` drops what was
   received ahead (`client.c:117`); a body the script does not read is parsed as the next
   request; a Content-Length of 2^63 or more reads as a negative or a small number
   (`common.c:73`). A request that is answered with 400 behind its `Connection: keep-alive` keeps
   the connection (`client.c:128`), and what is left of its head and its body is the next
   request. `request.getContent` swallows an error of `recv` (`lclient.c:405`): with nothing in the
   buffer `getInput` ends there, the script gets a shortened body, and the rest of it, should
   the connection go on, is parsed as the next request.
10. **An empty file at the end of the image** (`OutputIsFile`, `mromfs.c:88`). The script seeks to
    the place of its data but writes nothing, so the image ends before it, and `mromfsOpen`
    reports it out of bounds. (Only a name that fills its head up to the alignment saves such a
    file: this is what the condition `FileHead < Align` says, which the proof asked for.)

Seen while modelling, and not made into runs: connection options are compared with
case although `http.c:795` says they are case-insensitive; `TCHARS` takes the double quote
`http.c:651` excludes; `token.c:235` (NOTREACHED) is reached by an error of `recv`;
a script can close a connection it has announced to keep (`KeptAsAnnounced` allows exactly
that); on Windows `threadRecv` does not ask for FD_CLOSE, and a send that takes a part of the
response counts as a success everywhere.

## 5. The proofs

TLAPS checks everything in the eight proof modules, for every value of the constants. What is
assumed is in the named `ASSUME`s of the modules: a positive number of records, finitely many
connections, `None` no integer and no connection, `Nil` no thread; a buffer of at least one byte,
a stream of finite length; room for one response at least; a base of two or more, a width of one
bit or more; an alignment of one byte or more; a head and a chunk of one byte or more; scenarios
that are a sequence of requests with digits below the base, and an image with one file at least,
since the program's own Lua code is in every image.

**`ClientPoolProofs`.** The inductive invariant `IInv` adds to the checked invariants two
facts they rest on. `CallerOK`: who asks holds nothing yet, without which a second grant
to the same connection could not be excluded. `ScanCovered`: during the search the `n`
records from the cursor on, around the end of the table, are those not yet looked at, and
every other is leased or was released since; at `n = 0` this is `RefusedOnlyWhenFull`. There
is one lemma per conjunct, one step per action in each; `ReturnGrants` and `DropReleases`
say once what a grant and a release do to the holders. Theorems: `Invariance`,
`TypeCorrect`, `Exclusive`, `LeaseHeld`, `Count`, `RefusalJustified`, and `Refinement`: every step
is a step of `SlotPool`, a stutter, or a race has taken place.

**`ServerProofs`.** `TableShared` comes first: every step of the server is a step of
`ClientPool` or leaves the table alone, so the theorems of `ClientPoolProofs`, taken in by
`INSTANCE`, are theorems of the running server (`PoolInv`). On top of them `IInv` has two layers of
conditional facts and one of unconditional ones. Always: where the main thread is and what it
is accepting (`MainOK`); a thread holds the record it was started with until it drops it
(`HoldsRecord`); a record's Lua state was made for somebody who holds or held the record
(`StateOfRecord`), which is why a failing start closes no state but its own; and whom
`_stopClients` works on (`Stopping`). Without a race on `droppedClient`: the record names the
thread that holds it (`OwnThread`), so socket and Lua state reached through it are its own.
Without an early reuse as well: what a thread detaches is itself (`OwnDetach`), and no client is
left behind the index of `_stopClients` (`Behind`), on which `StoppedBeforeDestroy` rests. One
lemma per action, one step per conjunct. Theorems: `Invariance`, `TableShared`, `TypeCorrect`,
`ClientIsOwn`, `SocketsEnd`, `NothingClosedTwice`, `EndedThreadsAreGone`, `ClientsStopFirst`.

**`SessionsProofs`.** As long as no thread has disturbed the stack and no id has collided,
`Undisturbed`: who works on the stack holds `lmutex` (`Exclusion`); the height every call has read,
outside the mutex, is 0 (`ReadEmpty`); what each place of a function needs is on top (`OnTop`);
and a thread between its unlock and its `lua_settop` is the only reason for anything else to
be on the stack (`NothingElse`), which makes precise what finding 3 breaks. One lemma per
conjunct; `Pushed`, `Cut` and `Popped` say what the Lua calls do to the stack. Theorems: `Invariance`,
`TypeCorrect`, `StackShared`, and `Refinement`: every step is one of `SessionStore`, with the session
of an id read off the tables, or a stutter.

**`TokenProofs`.** `IInv` joins `TypeOK`, `Layout`, `BufferIsStream` and `ContentAfterBuffer`. None
of them is inductive alone: the indices stay in the buffer because the pieces lie behind
each other, and they do after a move because all of them move. There is one lemma per
action. Theorems: `Invariance`, `TypeCorrect`, `LayoutKept`, `BufferInOrder`, `ContentInOrder`,
`TooShortJustified`, and `Refinement`: tokens and content are the next bytes of the stream.
`TokenInside` and `SameTokens` carry the values of tokens over steps that do not touch them.

**`ConnectionProofs`.** The invariant says what is known at each `TOKEN_GET`. `Lexical`: characters
are held back only within a line end or an escape (`HeldBack`), and more than one is known ahead
only behind a token that was rejected, which began with CR or, in the target, with % (`Rejected`);
that bounds `put` and `ahead`, which the model does not. `Remembered`: a token is left behind in one
place only, the subtype of a multipart type that is not form-data, and it is dropped at the end of
the line; hence the limit of two is never met. `FieldsSet`: which fields of `request` exist where,
so that what is appended to is there. `LinesTold`: the fields `headers`, `contentLength` and
`contentType` are there exactly when a line of theirs was read to its value, on which
`AcceptedIsParsed` rests. `Answering`: how many responses the scripts and `process.lua` can have
sent where, and which `Connection` header they announced. The parser has about fifty places;
`LineKeeps`, `QueryKeeps` and `HeadersKeep` go through them, one for each part of the grammar, and
show of each that its token is dropped or kept, the stack balanced and the fields in place;
`TakeKeeps`, `EndKeeps` and `NoKeeps` are about the characters of a token. Theorems: `Invariance`,
`TypeCorrect`, `RoomForToken`, `StackAsFound`, `FieldsBeforeAppends`, `AcceptedComplete`,
`FlagOfRequest`, `OneAnswer` and `PromiseKept`, for any number of characters and requests.

**`WinThreadProofs`.** `Handshake` says what the two properties leave out: where the main thread
is while each thread is where it is. One thread at most uses the record, with the record's
own events (`OneThread`); a lease is one of a thread that serves (`Leased`), which is what a
look at the lease is worth after the mutex; nothing is closed before `SetEvent(stopEvent)`
(`Early`); behind it the event stays set until somebody takes it away, and a cancel the
thread can still find set has a `threadCancel` behind it that is going to clean up
(`Checking`), so that the thread may leave the events to it (`Ended`). The invariant is
`TypeOK /\ (~earlyReuse => Handshake)`: once a record is started anew before its former thread
is through (remark 8 of section 4) none of this holds. There is one lemma per action, with
one step per conjunct; `MainCleanSteps` and `CleanSteps` say what the cleaning closes. Theorems:
`Invariance`, `EventsServe` and `EventsClosed`, for any number of connections.

**`DataProofs`.** `Decimal`, `Result`, `Offset`, `Open` and `Byte` are functions defined by recursion on data
of any length. The induction rests on the well-foundedness of the natural numbers: a set of
numbers has a least element (`NatMin`), and therefore what holds of 0 and of every successor holds of
all (`FromZero`, `UpTo`). A function chosen by its recursion is known once there is one
(`RecursionExists`, `RecursionOnNat`) and only one (`RecursionUnique`); `DecimalSteps`, `WeightSteps`,
`ResultSteps` and `OffsetSteps` apply this to the functions of the model.
`ResultIsDecimal`: the loop of `commonString2Number`, which adds the digits up from the last to the
first with a weight that grows, yields what the digits stand for, modulo 2^`Width`; the weight may
itself have overflowed, which `WeightIsPower` takes care of. `NumberExact`: the result is never more
than what was written, and is exactly that unless it overflows. For images, `OffsetsApart` says that
files lie behind each other; `HeadsAtOffsets` that the chain of heads visits them in the order they
were packed in; `OpenFinds` that `mromfsOpen` finds the first file of a name, reports that it is out of
bounds if its data would end behind the end of the image, or finds nothing if there is no such
file; `BytesOfFile` that what lies behind a head is that file, byte by byte.

**`ExchangeProofs`.** `IInv` joins the invariant of the trace buffer (`TokenProofs` by `INSTANCE`,
on the variables the two modules share) with what is known of the connection. `Progress`: how far
the peer can have come, and that it has sent nothing of a request behind the current one unless it
is `ahead`. `InPlace`: between two requests the server is where the next one begins, or there is one
of the excuses of `Aligned`. `Reading`: what is read of a body is the next piece of it, `Taken` is
where that piece ends, and what is missing is the rest of `util.getInput`'s count, unless nothing
comes any more or a `recv` has failed for it. `Sending`: the descriptor stands in the file that is
asked for, behind the bytes that were sent. `Aligned` alone is not inductive, since it is only about
the end of the run: why the server is in place after a response follows from where the body it has
read ends, hence from `Reading`, from the order of the trace buffer (`ContentStep` of `TokenProofs`)
and from `NumberExact`. One lemma per action. Theorems: `Invariance`, `ServerAligned`, `BodyRead`,
`FileSent`.

**Only model-checked.** Every invariant and every refinement of a passing run is proved. What TLC
alone shows is liveness (`EveryCallReturns`, `ShutdownCompletes`, `ParserReceives`, `CancelReturns`,
`Answered`) and whatever depends on ENABLED, which are out of the prover's reach, and of course the
four violations.

## 6. Abstractions

* `Server` is the POSIX build; `WinThread` is the part of the Windows build that differs in
  its control. Failures of mutex initialisation, a second signal during shutdown, and
  `select` returning for a timeout or EINTR (which changes nothing) are left out.
* `Server` treats the work of a client between two blocking calls as one step. What it
  does is `Connection`, `Token` and `Sessions`.
* `Sessions` groups Lua calls that follow each other without a lock or a possible
  interference of interest into one step; a session has one string, since its keys do not
  interact. The value of `rand` is a choice.
* `Token` leaves characters and token types open; `Lexer` and `Http` do not have the buffer.
  A full buffer and an error of `recv` are the same to the parser, and are the `"ERROR"`
  that may end what it reads at any time.
* An error of `recv` or a full buffer is taken to last in `Http`: after it no token is found, and the
  characters of the token it cut short are not looked at again. In the code they are still in the
  buffer (`token.c:148`), and a later `recv` may succeed; the tokens behind it are then found or
  missing as in another stream, without the error.
* `Http` leaves the words open that are compared with (methods, names of headers, options):
  each comparison is a choice, where the code's outcome depends on it. Of the fields of
  `request` it keeps whether they are set. The numeric value of Content-Length is `Number` and
  `Exchange`; that its conversion fails (`http.c:832`) is left out, since a `DIGIT` token has only digits.
* `Connection` takes site scripts to be anything the interface permits. The headers and
  bodies of responses, the configuration and session cookies are left out, so is a
  failure to load `process.lua` for want of memory.
* `WinThread` has one record and no table; the two socket events are one, since they are
  made and closed together. That a handle's value may be given out again after it is closed
  is seen as `twice`, not followed further. Part of a send, and FD_CLOSE, are Winsock's.
* `Exchange` leaves out tokens the parser tries in vain, which put nothing away. A head is
  rejected at any of its tokens, and any such request may keep the connection once something of
  its head was accepted; in the code it does when `Connection: keep-alive` is among that and an
  ordinary header too (finding 4). A head that is cut off by the end of the stream closes the
  connection: the code may answer it with 400, and finds the same end of the stream next. An error
  of `recv` ends the head; the code goes on behind it when the token was optional. A
  request that is accepted keeps the connection. The image is one the script has
  packed: names that fit a head, at least one file, less than 2^32 bytes.

### Not modelled

* `main.c`, `debug.c`: options and formatted output; no state but the level, see `DebugNoise`.
* `ljson.lua`, the vendored libraries and the example site are not this program's code. They
  are also nearly all the lines of the repository (SQLite alone is more than 230,000),
  which bounds the share a model of luno can cover.
* `_openServerSock`, `threadSleepMs` (no caller), `util.StringBuilder`, session cookies and
  the headers of responses: set-up and data.

## 7. Plan

Done: the client records, the server around them, sessions, the trace buffer, the parser
and the service loop; requests on the stream, the Windows events, the ROM image and
numbers; and the proofs of all of them, but for liveness.

A change of the code should go through the model first, then the run, then the lemma of the
action it touches: the proofs have one lemma per action or conjunct, so that what a change breaks is
small.

The number of runs is kept as it is: a new question replaces an older one, or is asked of
an instance that is there.
