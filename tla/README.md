# DuckChat GateServer in TLA+

DuckChat's `Sources/` is the *gate server* of a chat system: an HTTP server
that hands out e-mail verification codes (through a gRPC verify server) and
registers users (checking codes and names in Redis). This directory holds its
TLA+ models, the TLC configurations that check them, and TLAPS proofs.

The hand-written program is small (about 1900 lines in `Sources/`,
`sql/create_tables.sql` and `config.ini`); `include/`, `lib/` and
`cmake-build-debug/` are Boost, other libraries and build output, and
`Sources/protos/` is generated. `Sources/main.cpp` line 5 holds a stray token
(`dygd`) that does not compile; the models are of the program without it.

## 1. Inventory

| Component | State | Operations | Called by |
|---|---|---|---|
| `main.cpp` | io_context, signal set | start, signal handler, run | – |
| `CServer` | the acceptor | `Start` (construct a connection, accept into it), accept handler | main, itself |
| `HttpConnection` | socket, request, response, `deadline_` | `Start` (read), `HandleReq`, `WriteResponse`, `CheckDeadline`, `PreParseGetParam` | CServer, Asio callbacks |
| `LogicSystem` (`LoginSystem.cpp`) | tables of handlers, constant after construction | `/get_test`, `/get_verifycode`, `/user_register` | HttpConnection |
| `VerifyGrpcClient`, `RPConPool` | one stub, a pool of stubs | `GetVerifyCode` | LogicSystem |
| `RedisMgr` | the pool, `_reply`, `_connect` | Get, Set, LPush, LPop, RPush, RPop, HSet (2), HGet, Del, ExistsKey, Close | LogicSystem (Get and ExistsKey only) |
| `RedisConPool` | queue of contexts, mutex, condition, `b_stop_` | constructor, getConnection, returnConnection, Close | RedisMgr |
| `MariaPool`, `MariaDao` | queue of MYSQL handles, count of active ones, two conditions | getConnection, returnConnection, Close; RegUser | nobody constructs a MariaDao |
| `AsioIOServicePool` | io_contexts, threads, round-robin index | GetIOService, Stop | nobody (commented out in `CServer::Start`) |
| `Singleton`, `ConfigMgr` | the instance; the configuration | GetInstance; lookups | everyone |
| `create_tables.sql` | worker and shard tables | reg_worker_node, create_shard | not called by the program |

How they interact. One `io_context` runs on the main thread. `CServer` accepts
into a fresh `HttpConnection`; each connection reads one request, dispatches it
to `LogicSystem`, writes the response and arms its deadline. The handlers of
`LogicSystem` call Redis and the verify server *synchronously*, so the loop is
blocked while they do. Objects live as long as a pending Asio operation holds a
`shared_ptr` to them.

What is hard, and what makes each part correct:

* *Event loop.* Completions of accept, read, write and timer come in any order
  and are dispatched one at a time. There must always be one accept; a
  connection must be answered at most once and must end although its client
  stalls; a signal must stop the loop although a backend call blocks it.
* *Redis pool.* Threads borrow and return connections while another closes the
  pool. A connection must never be shared, lost or freed twice; no wakeup may be
  lost; Close must release the waiters. The header keeps earlier versions as
  comments that got some of this wrong.
* *Handlers.* Between the two Redis commands of a registration codes expire and
  are replaced; each command can fail; a broken connection stays in the pool.
  Success must rest on the right code; a refusal must give its true reason;
  every path must give the connection back.
* *Stub pool.* Like the Redis pool, but Close sets an atomic flag without the
  mutex, so that it can change inside another thread's critical section.
* *Text.* A query is split and decoded by hand, with asserts that stop the
  program on malformed escapes.
* *Procedures.* Two workers register with the same ids at once; a statement
  fails in the middle of a transaction, or of a sequence without one.
* *Service pool.* Threads that must not leave early and must not outlive Stop,
  which must not wait for one that may stay.

`PROJECT.json` lists every hazard at its line with the properties that watch it.

## 2. Modules

| Module | What it is |
|---|---|
| `RedisConPool` | `RedisConPool.h`, for any number of threads |
| `ConnectionLease` | abstract: connections are idle, leased to one holder, or released for good |
| `RedisConPoolProofs` | proofs; the pool implements the lease |
| `StubPool`, `StubPoolProofs` | `RPConPool` of `VerifyGrpcClient.h`, for any number of threads; proofs; it implements the same lease |
| `GateServer` | `main.cpp`, `CServer.cpp`, the asynchronous half of `HttpConnection` |
| `ShortConnection` | abstract: one connection listens; each reads one request, is answered at most once, then ends |
| `GateServerProofs` | proofs; the event loop implements short connections |
| `LogicSystem` | the two POST handlers with RedisMgr `Get`/`ExistsKey` and `GetVerifyCode` |
| `Gateway`, `GatewayProofs` | `LogicSystem` extended by an instance of `GateServer`; proofs about the handlers, and that the composition behaves as each of the two |
| `RedisMgr`, `RedisMgrProofs` | `RedisMgr.cpp`: all commands, by several threads, on an instance of `RedisConPool`; proofs; it implements `RedisCommands` |
| `RedisCommands` | abstract: each command takes effect at most once and tells what it did |
| `UrlCodec` | `ToHex`, `FromHex`, `UrlEncode`, `UrlDecode` as operators |
| `QueryParser`, `QueryParserProofs` | `PreParseGetParam`, on `UrlCodec`; proofs, also of the operators of `UrlCodec` |
| `ChatDb`, `ChatDbProofs` | `reg_worker_node` and `create_shard`, statement by statement; proofs |
| `WorkerRegistry` | abstract: a registration happens at one moment or not at all, and its caller is told which |
| `ServicePool`, `ServicePoolProofs` | `AsioIOServicePool`; proofs |
| `MCGateway`, `MCRedisMgr`, `MCQueryParser` | symmetry sets and inputs for TLC |

Operators whose comment begins "Mutated form of" are not part of a model: each
is a plausible mistake that the property named in `PROJECT.json` detects.

### RedisConPool

`connections_` and `b_stop_` are the members of that name. `pc[t]` says whether
thread `t` is outside, blocked in `cond_.wait`, woken without the mutex yet,
using a context, or in Close between its critical section and `notify_all`. A
critical section is one action: `Wait`, `GetNothing` and `GetConnection` are
the three ways through `getConnection`, entered by a call or after a wakeup;
`ReturnConnection` has a branch for a stopped and for an open pool; `CloseDrain`
and `CloseNotify` are the two halves of Close. Wakeups may be spurious.
The constructor's loop is `ConnectFails`, `ConnectRejected` (a context with an
error, or AUTH failed: freed) and `ConnectSucceeds`. `heap` and `frees` count
what `redisConnect` returned and `redisFree` took. A caller keeps to the use
every RedisMgr command makes of the pool: what it got it returns once.

### StubPool

The same queue, but `b_stop_` is a `std::atomic<bool>` that `Close` sets without
the mutex. A critical section is therefore not one action: `pc[t]` also stands
for the places between two reads of shared state (`blocking`: the predicate of
`cond_.wait` was false and the mutex is not released yet; `checking`, `taking`,
`pushing`), and `MutexFree` is the mutex. Releasing the mutex and blocking is
one step (`Block`), as `std::condition_variable` guarantees. The second test of
`b_stop_` is `CheckStop`; `BeginReturn` and `Push` are `returnConnection`,
`BeginClose` and `EndClose` the store and the `notify_all` of `Close`. `Destroy`
is the destructor, which a caller may run only when no call is in progress.
The constructor of `VerifyGrpcClient` takes a stub for good, which is a thread
that never returns what it took.

The abstraction is `ConnectionLease` with the effect of a call placed where it
reads `b_stop_` (`Lent`, `Idle`): a Close between that and the queue does not
change what the call returns.

### GateServer

`conn[c]` is an `HttpConnection`: its four operations (`acc`, `rd`, `wr`, `tm`)
with the state each is in, its socket, and two clocks, since construction
(`age`, which `deadline_` measures) and since its client connected (`held`, used
only by a property). When no operation is outstanding nobody holds the object and it is
`Gone`. *Events* make operations complete; *handlers* run one at a time, when
the loop is `Polling`. `rd = "handling"` is the loop blocked in a backend call.
Arming the deadline after it has passed fires at once, as Asio does; closing the
socket turns a pending write into a cut one, whose handler still runs;
cancelling a timer whose handler is already queued has no effect.

Left out: the contents of messages. The `assert`s of the url decoder, which stop
the whole program, are in `QueryParser`; here (and in `Gateway`) the escapes of
a GET request are assumed to be well formed. A second signal, and exceptions
that leave `ioc.run`, are not modelled.

### LogicSystem

`codes` and `users` are the Redis keys the handlers read; `CodeExpires`,
`UserAppears` and `VerifyServer` are the outside world. `req` is the running
handler with its locals and the call it is about to make; each synchronous call
with the code up to the next call is one action, so the outside world runs
between calls and never within one. `pool` is the queue of `RedisConPool` as its
only thread sees it: per context, whether an error has stuck to it. `BuildPool`
is the lazy construction of RedisMgr by the first `/user_register`. A command
ends with a reply, an error reply or NULL (`Outcomes`). `bad` is a member of the
body whose `asString` throws; the handler then ends `"abandoned"`, with no
response. `answer` is what the response of the handler that has just ended
holds, and `"none"` in every other state.

### Gateway

`Gateway` extends `LogicSystem` and instantiates `GateServer` as `Gate`; its
variables are those of the two and nothing else, and its specification is
`GatewaySpec`. `Callback` are GateServer's
callbacks that do not reach a POST handler. `StartPost` and `RejectPost` are a
read handler that does: it blocks the loop in GateServer (`rd = "handling"`) and
starts a request of LogicSystem in one step. `HandlerStep` is a call of that
handler; when the handler is through, its connection is answered, or abandoned
if it ended by an exception. Between the calls only `Outside` goes on: clients,
the clock and signals of GateServer, expiry and other users of LogicSystem.

### RedisMgr

`RedisMgr` composes with `RedisConPool`: it instantiates the pool on the same
variables and takes the pool's actions inside its own, so a command waits,
borrows and returns exactly as the pool allows. `cmd[t]` is the command of
thread `t` with its arguments, `reply` the `redisReply` it has received, in a
local or, for `Set`, in the member `_reply` (`Place`). `Accepts` is the test on
the type of reply that each command takes for success (one of `StringReply`,
`StatusOk`, `PositiveInteger`, `AnyInteger`), and `Told` is what the caller learns.
All commands have the same shape (borrow, return at once without a connection,
send, give up on NULL, test the reply, give the connection back), so the model
has one action for each stage; in `PROJECT.json` it is mapped to the lines of
one command, and the other ten go through the same stages (the binary `HSet`
checks its parameters first, `CheckParameters`).
`store` is Redis, per key nothing, a string, a list or a hash of one field;
`broken` are the contexts whose `err` is set, which answer NULL from then on.
`Lost` is a failing connection: the server may have executed the command.

`RedisCommands` is the promise: one effect at most, success only with the effect
and with the store's own answer. The refinement maps a command whose reply has
arrived to what it will tell, which for `Set` reads `_reply` up to the return.
Two threads in `Set` at once would break it (undefined behaviour in the program:
both replies go to the one member). Nothing in `Set` prevents that and nothing in
the program calls it, so `SetAlone` is an assumption about the callers. It stands
beside `Call` in `Next`, and is not a guard of `Call`: any thread may call `Set`,
while no other is in it. So the runs and proofs say nothing of two `Set` at once.

Left out: that `HGet` signals failure by the empty string, so that an empty
value cannot be told from none, and that `Get` cuts a value at a NUL byte
(values are neither empty nor hold NULs); a server that executes a command only
after the client has seen its connection fail; `RedisMgr::Close`.

### UrlCodec and QueryParser

Strings are sequences of bytes 0..255. `FromHex` takes every letter, not only
A to F, and `Join` cuts the sum to a byte, as the append of the `int` does.
`UrlDecode` is the set of its possible results: one string, or none when an
assert stops the program (the build sets no type, so `NDEBUG` is not defined). It
is a recursive function of the position in the string; `DecodeFrom` is a pass of
its loop. `QueryParser` is the loop of
`PreParseGetParam`, a pass per step; the reference definition of
`ParsesEveryField` has no loop: the fields of a query are its longest parts
without `&` that hold a `=`, and a parameter is the last field with its key.
Bytes above 127 are escaped, as `isalnum` does in the "C" locale, which the
program does not change.

### ChatDb and WorkerRegistry

`call[s]` is the procedure session `s` is in, with its arguments and its next
statement; each statement is a step. `reg_worker_node` is one transaction: its
`EXISTS` reads a snapshot without a lock, its `INSERT` or `UPDATE` locks the row
of the worker until the transaction ends (`lock`), and meets `uk_dc_worker` if
another session has committed a row since (`DuplicateKey`). The `EXIT HANDLER`
rolls back and sets `p_result` to -1. The statements of `create_shard` commit
one by one. `RegFails` and `ShardFails` are any other error, and a killed
session; a caller whose connection is lost is told nothing (`"lost"`).
`WorkerRegistry` is the promise of the first procedure: a registration happens
at one moment during the call or not at all, and the caller is told which.
InnoDB with its default isolation is an assumption, and marked where it is made.

### ServicePool

`threads[i]`, `works[i]` and `stopped[i]` are the thread, the work guard and the
stop flag of service `i`, `ops[i]` the operations bound to it, `at` the iteration
of the loop that the constructor or `Stop` is in. `GetIOService` has no lock and
is called by one thread, as its commented-out call in `CServer::Start` would.

## 3. Runs

| Run | Bounds | Shows |
|---|---|---|
| `pool` | 4 threads, 3 contexts, size 3 | ownership, no lost wakeup, no stall unless nothing opened, implements the lease; Close releases waiters and frees everything; nobody waits beside an idle context |
| `stub_pool` | 5 threads, 2 stubs | Close misses at most one waiter; implements the lease; nobody waits beside an idle stub |
| `gate` | 3 connections, deadline 2 | one accept, guarded writes, no answered connection kept by its timer, close only at the deadline, implements ShortConnection; requests end and a signal stops the server unless a backend call never ends |
| `register_requests` | 2 emails, 1 user, 2 codes, size 2 | code really checked; refusals true; every handler ends unless the pool is empty |
| `gateway` | 3 connections, deadline 1, 1 email, user and code, size 1, symmetry | one handler at a time, which never waits for itself; implements GateServer |
| `redis_commands` | 2 threads, 2 contexts, 1 key, 2 values, lists up to 2, `Set` in one thread at a time, symmetry | commands act at most once, tell the truth, return their connection |
| `query` | all queries of up to 6 bytes out of `& = % + Z`; forms of one field (up to 2 bytes each out of 7, or twice any one of the 256) and two fields (up to 1 byte each out of 4) | every field parsed, stops only on malformed escapes, what is encoded arrives |
| `database` | 2 sessions, 1 worker, 2 hosts, 1 shard | one row per worker, what `EXISTS` read still true at the commit, tables before configuration, implements WorkerRegistry, calls end |
| `service_pool` | 3 services, 2 operations on each | threads stay until Stop and none outlives it; Stop ends although operations do not |
| `gate_deadline`, `register_rpc`, `register_exists` | 2 connections; as `register_requests` | the disagreements of section 6 |

Why these bounds are enough. Four threads with three contexts, any of which may
fail to connect, give two waiters, a borrower and a closer at once, which every
lost-wakeup scenario needs; the stub pool, whose Close can meet a thread at
every place in a critical section, has a fifth thread and only two stubs, so
that three can wait. Three connections are one listening and two in progress, so that
one can block the loop, or end, while the other completes. A deadline of two
ticks separates "since construction" from "since the client connected", which the
composition does not need again. Two emails and two
codes allow a code for another email and a replaced code; two connections allow
a broken one to sit behind a good one. One user suffices, because users
interact only by being the same. In `gateway` what matters is the place of the
calls, which one email shows, and a pool of one is the one that a handler could
wait for. One key with two values and lists of two tell
apart the ends of a list and an overwritten value; two threads on one key give
every interleaving of two commands. Six bytes are two fields with an empty part,
or an escape with both digits in a key or in a value; `Z` is the letter whose
digit pair does not fit a byte. Two sessions on one worker meet in
every pair of statements; two hosts tell whose row is left. Three services
make the round robin wrap with a middle.

No model has an unbounded counter: `age` and `held` stop at the deadline
(`Grow`), `frees` is at most one in the code (more only in a mutant), `MaxItems`
stops a push on a full list, and `MaxOps` a further operation. `AcceptCompletes`
waits for a free object, the bound on simultaneous connections.

Deadlock checking is on everywhere; `Exited`, `Gone`, `Ended` and `Destroyed`
are the idle loops of a program, pool or parser that is through.

## 4. Fairness

* *Redis pool:* a woken thread gets the mutex, a command ends and is followed by
  its return, Close runs to its end (weak fairness each). No call and no spurious
  wakeup is promised, so `NoWaitBesideIdle` cannot be met by one.
* *Stub pool:* a thread that has, or waits for, the mutex goes on (weak). No
  return of a stub is owed.
* *Event loop:* Asio dispatches completed operations in FIFO order, so a
  connection with a completed operation is served although other handlers
  disable it in between: strong fairness of its handlers and of the signal's.
  Time passes and timers expire (weak). Clients owe nothing, and a blocked handler
  need not return, since neither `redisCommand` nor the RPC has a time limit;
  `RequestsEnd` and `SignalStops` say that this (`Hangs`) is the only way to fail.
* *Handlers:* each backend call ends with a reply or an error (weak fairness of
  `Handle`); the environment is not fair. `HandlersEnd` then says what is needed
  in addition: a pool that is not empty.
* *Procedures:* InnoDB grants a lock in the order of the requests, so a session
  that waits gets its turn although others take the lock in between: strong
  fairness of the statements. No error is owed.
* *Service pool:* Stop goes on, and `run` returns when it may (weak). That an
  operation completes is not promised: `StopEnds` holds although it does not.

## 5. Proofs

All for arbitrary constants, with only the named ASSUMEs of the modules (threads
finite, `NoCtx` not a context, sizes natural, the deadline positive, targets and forms
made of bytes, no `?` in the path, ...).

* `RedisConPoolProofs`. The invariant `IInv` is `TypeOK`, `Ownership`, and what
  relates `pc` to `context` (a thread holds a context exactly while using it),
  construction to the calls, and `b_stop_` to the queue; ownership alone is not
  inductive, since `ReturnConnection` pushes whatever `context` holds. Each action
  preserves it by lemmas on pushing to and popping from a queue without
  repetitions (`PushElement`, `PopElement`; the proofs of the stub pool have the
  same two).
  `WakeupsSuffice` needs cardinalities (a notify adds one to `Woken`, a push one
  to the queue), hence finite `Threads`. `NoStall` follows: if all are blocked,
  no one is woken, so the queue is empty and nothing is held. The refinement
  maps each step to a lease step or a stutter.
* `StubPoolProofs`. `TypeOK` already depends on the mutex: `Take` must find a
  nonempty queue, which nobody else can have emptied since the predicate held
  (`QueueServes`, by `MutexOne`). `IInv` adds where each stub is (`OnePlace`,
  `Known`, `Kept`). `AtMostOneLeftBehind` is inductive with it: `notify_all`
  leaves only a thread that still has the mutex between predicate and block, and
  there is one mutex; with the flag set nobody starts to block. `WakeupsHold` is
  about the pool while it is open: each queued stub has a woken, checking or
  taking thread, unless nobody is blocked. It needs `BlocksOnEmpty`, since
  between its predicate and its block a thread keeps the mutex and so the queue
  empty, and cardinalities as in the Redis pool. The refinement is the one where
  the effect of a call is at the read of `b_stop_`: `Evaluate`, `Block`, `Take`,
  `Push` and `EndClose` stutter, `CheckStop`, `BeginReturn` and `BeginClose` are
  the lease's steps.
* `GateServerProofs`. `RecordInv` says of one record that its operations follow
  each other (accept, read, then write and timer), that a pending write has its
  timer, that a fired timer and a closed socket mean the deadline has passed, and
  that a socket is shut only with its timer cancelled, from which
  `StalledWriteIsGuarded`, `AnsweredIsReleased` and `ClosedOnlyAtDeadline` follow. A step that changes one connection needs only the new record
  (`BecomesInvariant`). The refinement of `ShortConnection` needs `RecordInv`
  too: without it a record could be in two phases.
* `GatewayProofs` begins with the handlers alone, that is with `Spec` of
  `LogicSystem`: `TypeOK` is inductive (the pool does not grow beyond its size
  because each command returns the one it took), and the two action properties
  follow from it step by step. Then the whole server, `GatewaySpec`. The
  refinement of `GateServer` holds step by step, without an invariant
  (`GateStep`), so that everything proved of the event loop holds of the
  composition. So does the refinement of `LogicSystem` (`LogicStep`): the loop
  decides when a handler runs, never what it does. `RegistrationInTheServer`
  draws the consequence for the properties of the handlers, and
  `EventLoopInTheServer` the one for those of the event loop, through an
  instance of `GateServerProofs`. `OneHandler` is inductive with `Shaped`
  (`conn` is a function on `Conns`). `NeverWaitsForItself` follows from
  `PoolWhole`: the pool has as many connections as it was built with, since each
  command, a single action, puts back the one it took.
* `ChatDbProofs`. `OneRowPerWorker` needs `WriterAlone`: the session that is
  about to commit has its row locked, and if it inserts, no row was committed
  since. `ExistsStillTrue` needs beside it `FoundRowStays`: a row that `EXISTS` has
  found is still there later in the transaction, since no statement deletes one
  and a rollback only restores what was committed. `ConfigHasTables` needs `TablesSoFar`: the statements before the one a
  call of `create_shard` is at have left their tables. For the refinement,
  Commit is the moment of the registration, and every other end of the call a
  refusal. `NeverDeadlocked` is the safe part of `CallsEnd`: rows are locked only
  by sessions that have written them and wait for no lock afterwards
  (`LockedByWriters`), so whoever is waited for waits for nobody.
* `RedisMgrProofs`. Each step of `RedisMgr` is one of its pool or leaves the
  pool alone (`PoolStep`), so that the pool's invariant comes from
  `RedisConPoolProofs` through an instance. To it `IInv` adds that the store and
  the replies are well formed (`Typed`), and `Linked`: a reply has been received
  only inside a command that holds a connection, and a thread in no command
  neither waits for nor holds one. `NothingKept` follows. For the refinement, a
  command takes effect when its reply arrives and from then on stands for what it
  will tell (`OutMap`); the reply must not be overwritten before it is read, which
  holds since the replies of two threads have different places (`PlacesApart`):
  this is where the proof needs `SetAlone`, the assumption that no two threads are
  in `Set` at once, which keeps its reply in the member `_reply`.
  `PoolUnderCommands` carries ownership, wakeups and the lease over from the pool
  to the commands on it.
* `QueryParserProofs`. Everything here recurs over strings. The library's
  induction is over predicates, which the provers cannot instantiate, so the
  module has its own over sets (`Induction`, `InductionTo`, `InductionDown`), from
  the least element of a set of numbers (`LeastElement`, by the library's `WFMin`).
  A recursive function is a CHOOSE: that one exists is proved first
  (`JoinExists` for `FlattenSeq`, `DecodingExists` for `UrlDecode`), then that its
  value obeys the recursion (`JoinedStep`, `DecodedAt`). `DecodeShift` says that
  decoding does not depend on what came before, from which `RoundTrip` follows by
  induction on the length, byte by byte (`DecodeEncoded`). `DecodeOutcome`: at most
  one result, of bytes, which is what `TypeOK` needs beside the types of `target`
  and `form` (`Typed`). `FormsSurvive` needs `FormInv`: what is left of the query
  is the encoding of the fields from some i on, and those before it have arrived
  (`Arrived`); an encoded field holds no `&`, and no `=` but its own
  (`EncodedOpaque`). `ParsesEveryField` needs `ParseInv`: what is left of the query
  is a part of it that begins after a `&`, and the parameters are those of the
  fields that begin before (`Parsed`). With `DecodedOnce` this is the property
  when nothing is left.

* `ServicePoolProofs`. `RunsUntilStopped` needs `Guarded` (a service that is not
  stopped has its work guard, so its thread has a reason to stay) and, for the end
  of Stop, what the three loops have done before the iteration they are in:
  `Started`, `StoppedSoFar` and `JoinedSoFar`. `StopNeverStuck` is the safe part of
  `StopEnds`: the thread that Stop is about to join was started and its service
  stopped, so that `run` can return.

The type invariants of `GateServer` and `ChatDb` (`TypeCorrect`) are proved and no
run checks them: what they could find wrong, other invariants of these runs find.

Only model-checked: all liveness (fairness and ENABLED are outside the prover);
and the violated properties, of course. Every invariant, and every safety
property of a step, that a run checks is proved. Of the liveness properties the
safe core is proved where there is one: `WakeupsHold` of both pools (what
`NoWaitBesideIdle` rests on), `StalledWritesGuarded` (`RequestsEnd`), `NoSelfWait`
(`HandlersEnd`), `NeverDeadlocked` (`CallsEnd`) and `StopNeverStuck` (`StopEnds`).

## 6. Disagreements found

Each is a run that TLC ends with a counterexample:

1. The deadline "on connection processing" (`HttpConnection.h:30`) starts when
   the object is constructed, i.e. when the *previous* connection was accepted:
   it can close a fresh connection (`gate_deadline`).
2. `/get_verifycode` reports error 0 also when the RPC failed (`register_rpc`).
3. A failed EXISTS makes the registration of an existing user succeed
   (`register_exists`).

Observations without a run, since nothing in the repository says otherwise, or
the state is a single step away:

* A Redis failure is reported as an expired code (`LoginSystem.cpp:62`).
* Registration stores nothing, so it can be repeated (`LoginSystem.cpp:94`).
* A client that never completes its request has no deadline at all.
* `RPConPool::Close` can leave one waiting thread behind (`AtMostOneLeftBehind`
  is the bound that does hold).
* A second `AsioIOServicePool::Stop`, as by the destructor after an explicit
  one, would use a guard that the first has reset.
* Line 16 of `create_tables.sql` (`COMMENT ni'...'`) does not parse; `ChatDb`
  assumes that the tables exist. No procedure ever deletes a row.

## 7. Not modelled

* `MariaPool`, `MariaDao`: no code constructs a `MariaDao`, whose connection data
  would come from a section `[Mysql]` that `config.ini` does not have. The
  constructor of the pool discards each connection that `createConnection`
  returns, so `pool_` is empty and `active_connections_` 0 for ever: every
  `getConnection` waits until Close, and there is no other state.
* `RedisMgr::Close` frees `_connect`, which no code assigns, and is never called.
* `Singleton`: that an instance is made by the first call is in `BuildPool`;
  `std::call_once` among threads is not, since only one thread calls.
* `GetIOService` by several threads, which would race on `_nextIOService`: no
  code calls it at all.
* `ConfigMgr` reads a file at start-up and is constant afterwards.
* Generated code (`Sources/protos/`) and vendored libraries are seen only through
  their use. They are nearly all of the repository's lines.
* The text of responses and logs.
