# Verification of the middleware learning code

The repository collects small C programs that take Redis apart: a thread pool
made from `bio.c`, an event loop with an echo server made from `ae.c`, a
middleware server grown from it with clients, queries and replies, and demos of
configuration, logging and backtraces. This directory holds TLA+ modules of
those parts, TLC configurations that check them on small instances, and proofs
for TLAPS. `PROJECT.json` lists components, runs, mutants (each property with a
plausible bug of the code that it catches), the map from definitions to source
lines, hazards, findings and theorems.

Paths below are shortened; the full ones are in `PROJECT.json`:

| short | directory |
|---|---|
| `bio/` | `redis源码分模块分析/基于redis的bio代码，快速实现一个线程池demo` |
| `conf/` | `redis源码分模块分析/基于redis配置文件解析程序，快速实现一个配置文件解析程序demo` |
| `asyn/` | `异步网络框架零基础学习/asyn_network` |
| `mid/` | `异步网络框架零基础学习+客户端结构组织+网络协议解析等/asyn_network+clientManager+protocolParse` |

## 1. Inventory

**Thread pool** (`bio/bio.c`, `bio.h`, `threadPoll_Main.c`). State: per job type
a list, a mutex, a condition variable, a counter of pending jobs and an array of
threads. Operations: `bioInit`, `bioCreateBackgroundJob`,
`bioProcessBackgroundJobs` (every thread's body), `bioPendingJobsOfType`,
`bioKillThreads` (never called). Threads interact through the list under the
mutex and through signals. Hard: signals that nobody waits for, several workers
on one list, the early return when a type is overloaded, the counter that is
read from outside. Correct means: no job is lost, run twice, freed twice or used
after it is freed; no job is left in the list while a worker of its type sleeps
for good; the counter means something.

**Event loop, file events** (`asyn/ae.c`, `ae_epoll.c`). State: the table of
registered descriptors, `maxfd`, the array of fired events, the kernel's
interest set. Operations: `aeCreateFileEvent`, `aeDeleteFileEvent`, poll, the
walk over fired events. It calls back into the program, which changes the table
during the walk. Hard: descriptors that are closed and reused between the poll
and the callback, the table and the kernel drifting apart, the table's end.
Correct means: an event is delivered to the connection it was polled for, what
is open is watched, what is closed is not.

**Event loop, time events** (`asyn/ae.c`). State: the list of timers, the id
counter, the second of the last pass. Operations: create, delete, nearest timer,
sleeping time, `processTimeEvents`. Hard: callbacks that change the list that is
being walked, arithmetic in seconds and milliseconds, the system clock set back.
Correct means: no freed timer is touched, none runs early, none is overslept,
every due one runs.

**Echo server** (`asyn/main.c`). Two callbacks on the loop: accept, and read
and answer. Hard: clients that come, send, close and die at any time, failing
`accept`, partial and failing writes. Correct means: a connection is served
while it is open and closed when its client leaves; what comes back is what was
sent.

**Client of the middleware server** (`mid/networking.c`). Three parts share one
structure: *lifecycle* (create, accept, free, the queue of clients to close,
pausing), *input* (the query buffer and the parser of inline and multi-bulk
commands, fed in pieces) and *output* (a static buffer, then a list of objects,
deferred lengths, partial writes, hard and soft limits). Hard: a client freed by
one path while another still has it; queries cut anywhere; replies that pass
from one buffer to the other. Correct means: bytes leave in the order in which
they were added, commands do not depend on how the query was cut, a client is
freed once and forgotten everywhere.

**Bio threads of the middleware server** (`mid/bio.c`). State: per type one
thread, a list, a mutex, a condition variable and a counter. Operations:
`bioInit`, `bioCreateBackgroundJob`, `bioPendingJobsOfType`, the threads' body.
The node of a job stays in the list, and the job is counted, while it runs
without the mutex. Hard: a pointer into a list that others append to meanwhile;
what main may conclude from a count of 0. Correct means: the node is still the
head when the worker comes back; a count of 0 means that all is done and freed.

**Linked list** (`adlist.c`). State: nodes, pointers, length; an iterator.
Operations: add at either end, insert, delete, rotate, copy (with a method that
may fail), search, index, iterate. Hard: removing while an iteration is under
way, a copy that fails half-way, the ends of the list. Correct means: the
pointers form one chain, and the list does what a sequence does.

**Memory accounting** (`zmalloc.c`). State: `used_memory`, the sizes kept with
the blocks, the switch for thread safety. Hard: several threads change the
counter, and a block is freed by another thread than allocated it. Correct
means: the counter is the size of what is allocated.

**Socket layer** (`anet.c`). Functions of several system calls, each of which
may fail. Hard: which of the descriptors and address lists made so far a failing
path gives back, and what a returned descriptor really is. Correct means:
nothing is left open that nobody has, and a success is usable.

**Start of the middleware server** (`mid/middleware_server.c`, which does not
compile as it stands): reads and raises the limit of open files, makes the event
loop, listens, registers handlers, starts threads. Hard: a limit that is lowered
step by step, and the number of clients that is taken back with it. Correct
means: `maxclients` fits both the limit and the event table.

**Configuration demo** (`conf/main.c`, `config.c`, `sds.c`). State: the string
the file is collected in, the server record. Operations: the path is made
absolute, the file is read in pieces, split into lines, each line into words,
each directive is obeyed. Below it the strings of `sds.c`. Hard: lines longer
than a piece, quotes, escapes and NUL bytes, ranges with negative ends, buffers
that are enlarged. Correct means: a string is always what plain bytes would be,
and a file means what its lines say.

**Log demo, backtrace demo, blocking demo**: small sequential programs that are
not modelled. **Articles**: no code.

Interactions: `main` → event loop → callbacks → event loop (registration from
inside callbacks); callbacks → sockets; `main` → pool → workers → the allocator; the client's
three parts call each other and the event loop; configuration → strings.

## 2. Modules

| module | models | correspondence |
|---|---|---|
| `JobPool` | what a pool promises | abstract: queue, running, done; jobs are taken oldest first, finished, and none starves |
| `ThreadPool` | `bio.c`, main of the demo | one action for each stretch between two points where another thread can interfere |
| `MCThreadPool` | an instance | two types, two workers and one |
| `DemoProofs` | theorems on `ThreadPool` and on `Sds`, modules of Redis that are demos of their own here | §5 |
| `EventLoop` | the table, the kernel's interest, `maxfd`, fired events | operators used by the server's actions |
| `EchoServer` | `main.c` on `EventLoop`, clients, network | one action per outcome of a callback |
| `MCEchoServer` | an instance | three connections on two free slots |
| `Timers` | time events of `ae.c` | one action per step of the walk, per call from a callback, and for time |
| `EventLoopProofs` | theorems on `EchoServer` and on `Timers` | §5 |
| `ClientOutput` | the output half of `mid/networking.c` | one action per function that adds a reply, per write, and per way of leaving `sendReplyToClient` |
| `ClientLifecycle` | accept, `freeClient`, the queues and `CLIENT` commands of `mid/networking.c` on `EventLoop` | one action per outcome of a callback, per command, per client taken from a queue |
| `MCClientLifecycle` | an instance | three connections on three descriptors, two clients allowed |
| `ClientLifecycleProofs` | theorems on `ClientLifecycle` | §5 |
| `ClientInput` | the input half of `mid/networking.c` | one action per read and per part of a command that is parsed |
| `Protocol` | what `string2ll`, `sdssplitargs` and `strchr` make of the bytes | lines, words and numbers |
| `RequestStream` | abstract: what the input side promises | the commands read off the stream of bytes as if all of it were there; implemented by `ClientInput` |
| `MCClientInput` | an instance | the queries that are tried |
| `ClientBufferProofs` | theorems on `ClientOutput` and `ClientInput`, the two buffers of a client | §5 |
| `SoftLimit` | `ClientOutput` with one history variable | since when the client has really been above its soft limit |
| `QueueLemmas` | lemmas on lists, lists without repetition, lists joined into one, the extremes of finite sets, sums over them and induction | used by all the proofs |
| `BioService` | `mid/bio.c` on `Zmalloc`, implements `JobPool` | one action for each stretch outside or inside a mutex |
| `BioServiceProofs` | theorems on `BioService` | §5 |
| `Zmalloc` | `zmalloc.c` | operators used by the actions of threads; a change of the counter is a step of its own |
| `ListContents` | what lists promise | abstract: lists as sequences of values |
| `AdList` | `adlist.c`, implements `ListContents` | each function an operator from memory to memory, one action per call |
| `AdListProofs` | theorems on `AdList` | §5 |
| `Bytes` | the results of string functions | operators on sequences of bytes |
| `ByteString` | what a string promises | abstract: each call and its result in `Bytes` |
| `Sds` | `sds.c`: header, buffer, spare space; implements `ByteString` | one action per family of functions |
| `SdsText` | numbers as text, the letters and escapes of `sds.c` | operators |
| `SdsFormat` | `sdssplitargs`, `sdssplitlen`, `sdsjoin` | operators |
| `SdsRoundTrip` | `sdscatrepr` on `Sds`, and when the two sides undo each other | one operator, one invariant |
| `Config` | `conf/main.c`, `config.c` | one action per piece, line and way of ending |
| `MCLibrary` | an instance of `AdList`, `Sds` and `Config` | `part` says which of them a behaviour is of |
| `Anet` | `anet.c` and the kernel's table of descriptors | one action per system call and outcome |
| `Startup` | the start of `mid/middleware_server.c` on `Anet` | one action per step of the start |
| `MCStartup` | an instance | four descriptors, limits scaled down |
| `StartupProofs` | theorems on `Startup` and `Anet` | §5 |

**ThreadPool.** `mutex[op]` is `bio_mutex[op]`, `jobs[op]` the list from its
first node to its last, `pending[op]` the counter. `wpc` and `mpc` say where
each thread stands. A job is named by the round of main's loop that creates it;
`heap` is the set of its structures. `accepted`, `rejected` and `executed` are
histories. `pthread_cond_wait` releases the mutex and begins to wait in one
step, a signal wakes one waiter of its type if there is one, and waits may end
without a signal. `CountJob`
increments before the comparison, and `RejectJob` returns without taking that
back and without freeing, as the code does. Main may ask for the pending jobs of
a type at any time between two submissions: the demo offers that call and its
comment says what for, although this main does not make it.

**EchoServer on EventLoop.** `events` is the table, `interest` what epoll was
told; they are two variables because the code chooses ADD or MOD from the first
and close(2) clears the second. `sock` maps descriptors to connections. Data is
a sequence of numbered units per connection; the zeros of the half filled buffer
are units 0. Reads take as much as is there, up to the buffer; a write takes any
part of the buffer, or fails, or raises SIGPIPE when the connection was reset
after the client had closed it. `accept` gives the lowest free descriptor and
may fail. A connection's data are forgotten when it is closed. The read branch
for EAGAIN is absent because `FiredInv` shows that it cannot be taken.

**Timers.** The list is ordered by id, as new timers go to the head, so it is
kept as a set. `when` holds seconds and milliseconds apart, with all carries and
borrows. `Second` is the number of units in a second. The walk is one action per
node, with the callback as a state of its own in which timers are created and
deleted. Reading the clock and falling asleep are one step.

**ClientOutput.** One client with a socket of its own and a write handler that
can be registered. `buf`, `reply`, `replyBytes`, `sentlen`, `softTime` and the
two flags are the fields of the client; `writable` says whether the write
handler is registered. A reply is a run of units, numbered in the order in which
they are added, so that `StreamInv` can compare what left with what was added;
the numbers start again from 1 when everything has been sent. An object of the
list has its text, the space of its sds, whether it is RAW or EMBSTR, whether
others hold it too, and whether it is a length that is still open (`ptr` is
NULL): `reply_bytes` and the choice between appending and adding a node depend
on exactly these. `addReply`, `addReplySds` and `addReplyString` differ in the
object they bring; adding to the buffer or to the list, counting, and the check
of the limits that follows are one action, as in the code. Each `write` of
`sendReplyToClient` is a step that takes any part; nothing else runs between
them. Commands are not begun for a client that is to be closed after its reply,
so no deferred length is begun then. `Disconnected` stands for everything that
frees the client from outside.

**ClientLifecycle on EventLoop.** A client is named by its connection; `clients`,
`toClose`, `unblocked` and `current` are `server.clients`, `clients_to_close`,
`unblocked_clients` and `current_client`, `flags` the four flags that decide who
may free a client when. `phase` says which loop the server is in: before it
sleeps, working off fired events, in `acceptTcpHandler`, in
`processInputBuffer`, between the reply and the `freeClient` of `CLIENT KILL`, or
in `freeClientsInAsyncFreeQueue`. Events are taken up one by one, the read
callback of a descriptor before its write callback, and tested again against
the table, as a callback before it may have freed the client (`Skip`). `Release` is
`freeClient` without the last queue: `CloseNext` clears `CLOSE_ASAP` first, so
that freeing leaves the queue alone, and then deletes the entry. Commands are
counted, not spelt: `query` is how many are in the query buffer; each one may
reply to any client (whom the reply, even the first one, may take over its limit), kill another or the own one, pause all, block, or unblock
another. What `networking.c` calls and the repository lacks (`processCommand`,
`unblockClient`, `processUnblockedClients`, `serverCron`) is described by what
`networking.c` expects of it; in particular `unblockClient` does not queue a client
twice, since `freeClient` removes one entry only. Where the code would use a client
that is not there the phase becomes `undefined` and nothing more is said: when a
freed client is taken from `unblocked_clients`, and when a connection is refused,
as `acceptTcpHandler` reads the client that `acceptCommonHandler` did not return
(`networking.c:822`).

**ClientInput.** `querybuf` is the query buffer byte by byte, as what matters is where
it is cut; `reqtype`, `multibulklen`, `bulklen`, `argv` are the client's fields,
`pos` the local variable of `processMultibulkBuffer`. `Read` takes any number of
bytes up to `ReadLen`. `held` stands for a pause or for a blocked client, which the
parser treats alike. The query is a sequence of items, each a command with its
arguments and its bytes, a blank, or malformed; the parser looks at the bytes
only, and the properties compare what it executed with the items. The sizes
(16 K for a read, 32 K for a large argument, 64 K for a line, 512 M for the largest
argument) are scaled to 4, 6, 12 and 16, in the same order; the first three are
roughly in proportion, the last is not. A large argument that is all there is in the
buffer takes the buffer over (`ArgFillsBuffer`), so that the line behind it is
looked for in an empty one.

*Refinement.* `RequestStream` reads the commands off the stream of bytes, one line or
one argument a step, with no buffer and no network. The mapping (`offset`) is how far
the parser has come in the stream: what was taken from the socket but for what is
still to be parsed. So reads, pauses, trimming and waiting are stutters, and the
query is read the same way however it was cut, with two exceptions that
`RequestStream` spells out: whether a line is too long depends on how much of it,
and for a later line of a command how much in front of it, is in the buffer; and an
inline line that ends in a newline alone takes the byte behind it along if that
has arrived (`networking.c:1307`).

**BioService on Zmalloc.** A worker is named by its type. Main's calls are cut
where the mutex is taken; what happens inside the mutex is one step, except where
memory is allocated or given back. `Zmalloc` keeps for each thread the changes it
still has to make to `used_memory` (`updates`); the thread does nothing else
until they are made. With `zmalloc_thread_safe` a change is one step, without it a
load and a store between which others may come. The program never sets the
switch: both are modelled, `UsedInv` is about the first, and with the second TLC
finds lost changes at once. The refinement of `JobPool` maps the node at the head
to the running job while the worker holds it.

**AdList.** `mem` has the nodes with their pointers, the lists with head, tail and
length, and the references that lists with a free method have to their values.
The functions are operators from the memory before to the memory after; the
actions call them in any order with one iterator that may be under way.
`Removable` is the iterator's contract as the comment gives it. `Walk` follows the
pointers for one step more than there are nodes, so that a circle would show.

**Sds.** A string is its header (`len`, `free`) and its buffer with the
terminator; bytes that nothing has been written to are `Junk`, so that a read of
one would show. Every function that enlarges goes through `sdsMakeRoomFor` with
its preallocation. `Bytes` and `SdsFormat` give the results on plain
sequences of bytes, `ByteString` the calls as one-step transitions, which `Sds`
implements. A format of `sdscatfmt` comes with its arguments at the places of
their letters; `SdsAssumption` says what callers pass: bytes, numbers, and formats
that do not end inside a directive (the code would read past the end).

`sdsjoin` takes C strings: what stands behind a NUL in an element or in the
separator is dropped, hence `RoundTripInv` promises the string back only for text
and separators without one.

**Config.** Strings are those of `Bytes`. The words of directives are their first
letters, case and white space are kept; a word is compared up to its first NUL,
which an escape in quotes may make. `getAbsolutePath`, each piece of the file,
each line and the output are steps. `atoi` wraps around at `INT_RANGE`.

**Anet and Startup.** `kernel` is the state and the options of each descriptor,
`owned` those that were returned to callers, `lists` the address lists not freed
yet. `call` holds the local variables of the function under way. `Startup` runs
`adjustOpenFilesLimit`, the event loop's descriptor, the listening socket and the
registrations on it, and then lets the server call the rest in any order.
`setrlimit` may succeed or fail at any value, as the hard limit, the privileges of
the process and the system's own limit are not modelled.

### Findings

Three statements of comments or messages that the code does not keep, each as a
run that TLC ends with a counterexample:

* a client that is closed for having been above its soft limit continuously
  although it had sent everything in between (`SoftLimitContinuous`): the time is
  cleared only in the check, and the check is made only while the list grows;
* a freed client that stays in the list of unblocked clients
  (`NoFreedUnblocked`): the end of a pause queues all clients without setting the
  flag by which `freeClient` knows that it has to look there;
* a client that is said to have closed the connection, and is freed, although it
  has not (`ClosedByPeer`): when its large argument was completed during a pause
  the next read is asked for 0 bytes, and 0 is taken for the end.

Seen while modelling, without a run of its own. *Threads and timers:* in the demo
pool a pending count of 0 does not mean that nothing runs (`bio.c:243` against
the comment at 105-110; `CountInv` says what the counter means there, and
`AnswerInv` is the promise, which the middleware server's threads keep); a
refused job leaves the counter one too high for good and is never freed
(`bio.c:188`); when a timer is overdue the loop may still sleep for less than a second, past
that timer and any other that becomes due meanwhile (`ae.c:536`; `NotOverslept`
names the case; the second half of it came to light in the proof, for seconds
of more units than the run had then). *Sockets and start:* a socket whose
source address could not be bound is returned as a success (`anet.c:296`, 306),
the list of source addresses is never freed (298), a descriptor is forgotten
when an option cannot be set (368, 484), a server function gives up when the
first address cannot be bound; the result of `aeCreateEventLoop` is not looked at
(`middleware_server.c:185`), and nothing sets `maxclients`. *Configuration:* the port
is printed with the value of `maxidletime` (`config.c:222`); unknown directives and
wrong numbers of arguments are passed over in silence, a value is stored before
it is looked at, numbers wrap around. *Strings:* `sdstrim` also takes NUL bytes
away at the ends, since `strchr` finds the terminator of its set; a format of
`sdscatfmt` that ends in `%` is read past its end; a range that ends before the
string begins keeps byte 0; `sdsjoin` of what `sdssplitlen` returned loses bytes
behind a NUL; splitting an empty string does not return NULL as
the comment says (`sds.c:1060`); `sdscatsds(s, s)` reads a buffer that may have
moved. *Server:* the echo server writes its whole buffer
back, zeros included, after a short read (`main.c:77`, `Buffer`), and a write to a
connection that was closed and then reset raises SIGPIPE, which it does not
ignore (`EchoSignalled`); an inline command that ends in a newline alone costs the
next command its first byte (`networking.c:1307`); a well-formed query that piled
up during a pause may be refused as having a too big bulk count (`networking.c:1436`
compares the whole buffer; `ErrorInv` therefore excludes it only for queries that
were never held); a refused connection makes the server read through NULL
(`networking.c:822`).

## 3. Runs and bounds

| run | states | what it shows |
|---|---|---|
| `thread_pool` | 74 000 | the meaning of the counter, every job in one place, the heap, no lost wakeup, and that the pool implements `JobPool`, liveness included |
| `echo_server` | 164 000 | table, `maxfd`, kernel and open descriptors agree (`RegistrationInv`), fired events, order of the echo; every connection read and in the end closed |
| `timers` | 239 000 | the walk's cursor and the timers created during it (`CursorInv`), neither early nor overslept, due timers run |
| `client_output` | 151 000 | order and completeness of the stream and the write handler (`StreamInv`), `reply_bytes` and the limits; everything sent or the client freed |
| `client_soft_limit` | | the finding on the soft limit |
| `client_lifecycle` | 405 000 | clients, descriptors and registrations agree, the client in use is not freed (`ClientsInv`); the queues hold whom they should; no input is forgotten; a client whose peer left, or that is scheduled for closing, is freed |
| `client_freed` | | the finding on the end of a pause |
| `client_input` | 122 000 | commands do not depend on how the query was cut, errors are found where they are, the length of a read and the parser's assertions (`AssertInv`), every query served; refinement of `RequestStream` |
| `client_input_end` | | the finding on reads of 0 bytes |
| `bio_service` | 30 000 | an answer of 0 means done and freed; the node of the running job stays the head; no counted byte is lost under the lock; the threads implement `JobPool`, liveness included |
| `libraries` | 97 000 | lists are chains that implement sequences, also under iteration; strings are what plain bytes would be, quoting and, for text, splitting can be undone; the path names the file the argument names, and a file means what its lines say |
| `sockets` | 1 540 000 | what the socket layer returns is usable, nothing is left open but on the named paths, `maxclients` fits the limit and the table |

`thread_pool`: two workers of a type are enough for two threads to want one job
and for one to sleep while the other works; a type with a single worker stands
beside it to see that types do not mix; a limit of 3 in 3 rounds lets the list
fill, a job be refused and the counter stay wrong afterwards. MaxRounds is the
only artificial bound. When all rounds are submitted main may still ask, so the
instance never stops and deadlock is checked.

`echo_server`: three clients and two free slots make a descriptor be reused, a
fourth descriptor number be refused for lying outside the table, and two
connections wait for each other. One client sends two units, one sends one, one
none: with a buffer of two units every read size occurs. The clients are finite,
so the system stops when all have gone; deadlock is not checked there.

`timers`: three ids are enough for the timer at the cursor, a newer and an older
one. A second has three units and delays are one or four, so that carries, borrows,
sub-second distances and two timers due within one second occur within a clock that
shows at most 8, and the clock is set back at most once. When the clock has reached its bound it stands still, but the sleep still
runs down.

`client_output`: a buffer of three units and strings of up to two, so that a
string can fit, fill the buffer exactly, or go to the list; three nodes and two
open lengths, so that a length is joined with the object behind it, finds
another open one there, or nothing. Six units pending at a time; they are
numbered anew when all is sent, so replies go on for ever. The limits lie within
what three nodes can take, the soft limit's time within the clock's range. The
instance may stop with a freed client.

`client_lifecycle`: a client that sends two commands, one that sends one and may
leave in either way, and one that sends nothing but is there to be killed, to
be replied to and to be one too many. That suffices for a client to be blocked,
unblocked, killed or queued for closing by another in the same round in which its
own event was polled, and for its descriptor to be used again. A query buffer
of one command makes it overflow. The invariants were also checked with three and
two commands (4.6 million states). Commands, and with them everything else, come to
an end; deadlock is not checked.

`client_input`: all pairs of fourteen items, so that every item is both in front of
every other one and behind it: arguments that are empty, full of bytes that mean
something to the protocol, larger than a read, or larger than a line may be (as in
the code, where arguments may be far longer than lines); an inline line that is
too long and one multi bulk command that is longer than a line may be; blanks
with and without a count; one item for each way of being malformed. Lines end
with CR and LF, but for the last one of some queries, which ends in LF alone: in
front of anything else such a line costs the next command a byte (see the findings),
and what the items mean is then not what the bytes say. `RequestStream` goes by the
bytes, and §5 proves it for all of them.

`bio_service`: two types with a thread each and two jobs, so that both may be of
one type, the second appended while the first runs, or allocated by main while
workers free. Main's buffer is there to be resized and freed while workers
account (bound: only with the switch set and after the last job). `size_t` counts
1024 values; all that is ever allocated stays below (`MemoryAssumption`). The system
stops when all is done.

`libraries`: four nodes for two lists let a copy be made of a list of two, fail
after none or one, and freed nodes be allocated again under an iterator. Strings of
up to three of eight bytes (NUL, line feed, space, quote, backslash, `a`, `x` and
one that is not printable) with a preallocation limit of 3 and a static buffer of
2: every branch of the growth policy and of the escapes occurs. About 870 files
of up to four lines, read in pieces of 3 bytes, so that lines are longer and
shorter than a piece; ports up to 9 and integers modulo 32 for the ranges; 3282
combinations of path and directory. Nodes, values and lists are symmetric.

`sockets`: two addresses per name so that one may fail and the next succeed;
three calls, the first to listen; four descriptors, fewer when the limit is lower,
so that each call may run out of them. Up to three clients are asked for, so that the
limit is reached at once, after a step down, or not at all. The reserve, the growth of the table and
the step are 2, 3 and 2 for 32, 128 and 16, in the relations that
`StartupAssumption` states.

## 4. Fairness

`ThreadPool`: weak fairness for what a running thread does; strong fairness of
"some worker of the pool obtains the mutex" and not of each worker: main sleeps
in every round and so leaves the mutex free again and again, but pthreads
promise nothing about which waiter is next. Main's loop is not fair: liveness
does not rest on more submissions. `EchoServer`: the loop polls and handles what
it has polled, since `aeMain` does nothing else; clients owe nothing. `Timers`:
weak fairness of the loop (callbacks return) and of time. `FileEvents` and
callbacks creating timers are not fair. `DueTimersRun` does not hold for a set of
timers whose callbacks together take longer than their delays; delays are at
least one unit and the bounded clock stops, which stands for callbacks that are
faster than their periods in the long run. `ClientOutput`: the loop calls the
handler of a writable socket, the handler comes to its end, and a command
finishes the replies it begins (weak fairness); a client that reads makes room
again and again (strong fairness of `WriteSome` alone, since EAGAIN may come in
between any number of times). New replies, the clock and closing are not fair.
`ClientLifecycle`: the server goes on (weak fairness of `Server`, as `aeMain` does
nothing else), and the timer of `serverCron` is due again and again at the end of
a round (strong fairness of `Due`, for it need not be due in each); which events,
commands or outcomes come is open, and peers owe nothing. `ClientInput`: the parser
goes on, a pause ends (weak fairness), and the client sends the rest of its
query (strong fairness of `Read`, since pauses may come in between).
`BioService`: a thread goes on when it can (weak fairness), and a worker that
wants the mutex of its type gets it although main comes back for it (strong
fairness of `Locks`, one worker to a mutex); main finishes what it calls and owes
no call. The libraries and the sockets promise nothing that must happen: only
safety is checked there.

## 5. Proofs

`DemoProofs` proves of the thread pool, for any number of types, workers and rounds and any
limit, from `PoolAssumption` (constants of the right kind, finitely many
workers, main is none of them):

* `TypeCorrect`: `Spec => []TypeOK`
* `MutualExclusion`: `Spec => []MutexInv`, by proof alone
* `CounterMeaning`: `Spec => []CountInv`
* `JobsAccounted`: `Spec => []JobsInv`
* `HeapAccounted`: `Spec => []HeapInv`
* `NoLostWakeup`: `Spec => []WakeupInv`
* `PoolRefinement`: every step of the pool is a step of `JobPool` or leaves it
  unchanged (the safety part of `ImplementsPool`)

The inductive invariant is `TypeOK /\ MutexInv /\ CountInv /\ FreshInv /\
HandInv /\ JobsInv /\ HeapInv /\ WakeupInv` (`Inductive`). No part stands alone: that the counter stays a
natural number needs `CountInv`, since a job taken from the list must have been
counted; `CountInv` needs `FreshInv`, as a refusal adds one to the number of
refused jobs only if this job was never refused before; `JobsInv` needs
`FreshInv` so that the job pushed is in no other place, `HandInv` so that each
worker that runs has a job, and `MutexInv` so that two workers never take at
once. `HeapInv` needs `JobsInv`, as a job freed must be in no other hand.
`WakeupInv` counts the workers on their way: it needs `MutexInv`, since a worker
finds the list empty and begins to wait without main in between, and lemmas on the
cardinality of a set that gains or loses one element.

`EventLoopProofs` proves of `EchoServer`, for any number of connections, descriptors and slots,
any buffer and any amount of data, from `LoopAssumption` and `ServerAssumption`:

* `TypeCorrect`: `Spec => []TypeOK`
* `SocketsConsistent`: `Spec => []SocketsInv`
* `RegistrationConsistent`: `Spec => []RegistrationInv` (the table, the kernel, the
  open descriptors and `maxfd`)
* `FiredCurrent`: `Spec => []FiredInv`
* `EchoFaithful`: `Spec => []EchoInv`

Its invariant is `LoopInv`, the conjunction of these and `BacklogInv`
(`LoopInvariant`). `FiredInv` is the aim: an event polled for a descriptor is
still true when its turn comes. It holds because a callback closes only its own
connection, hence `SocketsInv` (no connection behind two descriptors), which an
accepted connection keeps because of `BacklogInv` (it was waiting, and once);
because a fired descriptor is registered and registered descriptors are the open
ones (`TableInv`, a part of `RegistrationInv`), so that a new connection never gets a descriptor that
still has an event; and because nothing the clients do takes an event back. That
`HighestBelow`, a search downwards, finds a slot (`HighestBelowFacts`) rests on
the well-foundedness of strict inclusion of finite sets. `EchoInv` needs more than it
says: the units echoed are those that were read (`EchoedInv`), not only sent, so that
what is read next is above all of them; that a half filled buffer keeps the order is
`BufferOrdered`.

`EventLoopProofs` proves of `Timers`, for any delays, ids, clocks and length of the
second, from `TimersAssumption`:

* `CursorSafe`: `TimersSpec => []CursorInv`
* `SleepBounded`: `TimersSpec => []NotOverslept`
* `NoTimerEarly`: `TimersSpec => NeverEarly`, an action property

The invariant says where the walk and a callback may stand (`WalkInv`), that each
timer's seconds and milliseconds are the time it was asked for unless the clock was
set back (`AskedInv`), and that `lastTime` is not ahead of the clock (`ClockInv`). Its
lemmas do the arithmetic of carry and borrow: what is added to the time, what is
subtracted for the sleep and what the clamp of `ae.c:537` makes of it.

`ClientLifecycleProofs` proves for any peers, descriptors, limits and numbers of
commands, from the assumptions of `EventLoop` and `ClientLifecycle`:

* `ClientsAgree`: `Spec => []ClientsInv`
* `QueuesAgree`: `Spec => []QueuesInv`
* `NobodyStalls`: `Spec => []StalledInv`

The invariant has the three and what they need: each client once in `clients` and
behind one descriptor, fired events only for what is registered, a peer that waits
to be accepted once in the backlog, `toClose` and `unblocked` without repetition and
with the flags they stand for, and which client each phase is about. There is one
lemma for each action; that of `freeClient`, which changes nine variables, is used
by six of them. A client that is freed out of turn keeps every other descriptor's
events true, hence nothing that was polled is lost; one that is killed while its
own input is processed is only scheduled for closing, hence `current` stays alive;
and every way of leaving `processInputBuffer` with commands left sets a flag, a
pause, or a place in `unblocked`.

`ClientBufferProofs` proves of the output side for any buffer, any replies and deferred lengths, any
limits and any amount that a write takes, from `OutputAssumption`:

* `StreamFaithful`: `Spec => []StreamInv`
* `LimitsEnforced`: `Spec => []LimitInv`

Its invariant `OutputIInv` (`OutputInductive`) adds to the two that the write
handler is registered while a reply is under way to the socket and whenever
anything waits (`Handled`), so that what is found in the list has no open length,
and it states the limits for every state without an open length, not only between
commands: sending takes memory off the list and never starts or stops the clock,
hence what held when the list last grew still holds (`LimitsKept`). The stream is
stated on `Queued`, the buffer followed by the texts of the list. Each action then
needs one fact about the texts joined: added behind (`StreamGrown`), the last one
longer, two neighbours made one with the length in front of them filled in
(`ListFilled`), the first one sent and taken off (`StreamWritten`). Joining the texts
(`FlattenSeq`) and adding up their memory (`FoldLeft`) are defined by recursion.
What they return is proved from their definitions: functions with the equations
of the recursion exist for every length and any two of them agree. This is
induction on the length, done with a set of numbers in place of a predicate
(`Induct` of `QueueLemmas`: what is not in the set would have a lowest element).

And of the input side, for any queries, whatever their bytes, any sizes and limits,
and any cuts and pauses, from `InputAssumption`:

* `AssertionsHold`: `InputSpec => []AssertInv`
* `RequestsImplemented`: `InputSpec => ImplementsRequests`

The invariant `InputIInv` (`InputInductive`) says where the parser may stand when it
is left (`ParserInv`): outside the loop over the arguments the buffer is trimmed,
and a length that is known belongs to a command that lacks arguments; that a large
argument that is waited for has the buffer for itself and never exceeds it
(`BigArgInv`), which is why the length of a read is not negative: a read for such
an argument is cut to what is missing; that a command which was begun but not
counted still stands in the buffer with its first byte (`BeginsAnew`); and that the
buffer is what was read last of the stream, without a gap (`UnreadInv`). `LoopInv`
adds that in the loop over the arguments nothing has gone wrong and a command
that lacks nothing has an argument. The refinement rests on one fact about the
last part: what is found in the buffer is found in the stream just as far behind its
origin, and what is not found is not in what was read (`Window`, `WindowPart`,
`WindowFind`). Then the line, the number and the words the parser sees are those
`RequestStream` sees, though it looks at the whole stream, and trimming moves
the origin by as much as it moves `pos` back (`Trimmed`). Each action has a
lemma of what it reads.

`BioServiceProofs` proves for any number of types, jobs and calls, with or without
a lock around `used_memory`, from `BioAssumption`:

* `HeadKept`: `Spec => []HeadInv`
* `AnswerKept`: `Spec => []AnswerInv`
* `PoolRefinement`: every step is a step of `JobPool` or leaves it unchanged (the
  safety part of `ImplementsPool`)
* `UsedExact`: `Spec => []UsedInv`, for any sizes that fit (`MemoryAssumption`)

The invariant of the first three is `TypeOK /\ MutexInv /\ ListedInv /\ FreshInv /\ BlockInv /\
AnswerListed` (`Inductive`). `ListedInv` says that the accepted jobs are those
performed and those listed, and that a worker's job is the head of its list; a
new job leaves that true because it is in no list (`FreshInv`), and an append
never moves the head (`AppendHead` of `QueueLemmas`). `BlockInv` needs `FreshInv` as
well: a freed block is nobody else's. `AnswerListed` needs `MutexInv`: main reads
the counter with the mutex held, when no worker is between its deletion and its
decrement, and the counter is then the length of the list. The lemmas on lists
without repetition in `QueueLemmas` serve both pools.

`UsedExact` adds `MemoryIInv` to it. The two sums of `Exact`, over the blocks in use
and over what the threads have still to count, are folds that take the elements in
an order of their own; `QueueLemmas` proves that there is a sum that does not depend
on the order (`SummingExists`), that such a fold returns it (`SumTaking`), and what
it becomes when one element changes (`SumChanged`). With that each call of the
allocator moves the weight of one block and the dues of one thread by the same
amount, and each update moves the dues and the counter (`Moved`). What remains is
that the counter, a number modulo the range of `size_t`, never wraps. Below zero it
would go if something was taken off before it was added: it is not, because only
main adds, what it has still to add is no more than the block it added it for
(`MainDueInv`), and the workers only take off (`WorkerDueInv`), so that the dues
never exceed the memory in use (`DuesBelow`). At the other end the counter and what
main will add stay below all that was ever allocated (`CountedInv`, `PostedFits`),
which `MemoryAssumption` keeps below the range. The code makes the same assumption:
it has no check, and a process cannot hold more bytes than `size_t` counts.

`StartupProofs` proves for any descriptors, limits and bounds, from
`StartupAssumption`:

* `FilesKept`: `Spec => []FilesInv`
* `NothingLost`: `Spec => []LeakInv`
* `ResultUsable`: `Spec => []ReturnInv`

For the first the invariant says where each stage of the start may stand: the
limit to be tried only falls from what the clients asked for need, and the loop
ends below the present limit or below `DECR_STEP`. It needs `DECR_STEP <=
REDIS_MIN_RESERVED_FDS`, or the end below `DECR_STEP` could pass for a limit. For the
second, every open descriptor is its caller's, or the one the function under way
has opened (`Held`), or forgotten; `CallInv` says at which places of which functions
there is such a descriptor, and only the failure of an option adds to the
forgotten ones. For the third, `WantedInv` follows the options of a socket: each one
that was asked for is set or still to be set, and all are set where the function
goes on to connect or to bind; `PlaceInv` says which functions come where. What was
returned stays usable because no later call changes the state of a descriptor of the
caller's. It needs `NetAssumption`: the error is no descriptor.

`AdListProofs` proves for any lists, nodes and values, from `ListAssumption`:

* `ListKept`: `Spec => []ListInv`
* `IterationFaithful`: `Spec => []IterInv`
* `ContentsImplemented`: `Spec => ImplementsContents`, the refinement of
  `ListContents`

Its invariant `IInv` (`ChainsKept`) speaks of what the code never has, the chain of
each list: there are sequences of nodes, one for each list, with no node in two
places, of which the pointers are the neighbours, the headers the ends, and the
references the nodes that hold a value (`Mem`); and the iterator, with what it
returned and what it began with, goes along one of them (`Going`). The invariant
quantifies over these sequences, hence TLC checks its consequences and not
itself. That walking finds the chain again is `WalkAlong`: `Walk` is a recursive
function, whose value is proved by induction on the length of the walk. Each
function of `adlist.c` then has a lemma of what it makes of the pointers around
one place (`Inserts`, `Deletes`, `Rotates`), one of what that makes of the chain
(`Makes`: one node more, one less, the last one first, none), and one of what the
iteration and the contents make of it. `listDup` repeats an insertion, by induction,
and `listRelease` after a copy that failed takes back exactly what was copied. A
removal during an iteration leaves the iterator right because it is the node
returned last, which `next` no longer is; an insertion because the chain without
the new node is the old one in its order.

`DemoProofs` proves of the strings, from `SdsAssumption` (callers pass bytes and
whole formats; the preallocation is not 0 and the first buffer of
`sdscatvprintf` holds two bytes or more):

* `HeadersAgree`: `SdsSpec => []SdsInv`
* `BytesImplemented`: `SdsSpec => ImplementsBytes`, the refinement of `ByteString`

The invariant, `StringInv` (`StringsKept`), is that the string is freed or keeps some
text: the length is the text's, the buffer has room for the text, the free space
and one byte, it begins with the text, and a NUL follows (`Kept`). `SdsInv` alone is
not inductive: it does not say which bytes a later call will find. It quantifies over
all texts, hence TLC checks its consequences and not itself. Each function of
`sds.c` has a lemma of what it makes of a text that is kept (`CatlenIs`, `TrimIs`,
`RangedIs`, ...), down to what `memcpy` at an offset leaves of a buffer (`WrittenIs`), and
each action one that says the same in the words of `ByteString` (`TrimDoes`, ...). Three
of them rest on recursion, which is proved by induction: the doubling of the
buffer of `sdscatvprintf` ends with the whole text (`FormattedIs`), the digits made from
the last to the first and turned round are those `printf` would make
(`DigitsReversedAre`, `DigitsAre`), and the pieces of a format end up joined
(`CatfmtIs`). The proof does not need `MaxLen`, `CallBytes`, or
finitely many texts.

Only model-checked: `CutInv` and `ErrorInv` of `ClientInput`, since what they compare
with is the list of items a query was made of, and only for the items of
`MCClientInput` do the bytes say what the item says (that is a fact about
recursive functions on their texts; `RequestsImplemented` takes their place for
every query); `RoundTripInv` and `ConfigInv`, since the operators of `SdsFormat` and
`Config` that take lines and paths apart are recursive operators, which the prover
does not read; and all liveness, as what holds under fairness is
beyond the prover.

## 6. Not modelled, and why

`bioKillThreads` is unreachable in both programs. `pthread_create` failing ends the
process. `aeResizeSetSize`, `aeDeleteEventLoop`, `aeStop`, `aeWait`,
`aeGetFileEvents` have no caller in the echo server. A timer whose callback
returns 0 keeps the pass from ending (hazard listed; delays are positive in the
model). Of `middleware_server.c`: `listenToPort`, `serverCron` and all that the
repository lacks. Allocation failure ends the process everywhere. Of the output
side: clients without a socket, masters, and slaves that are not online, for
which `prepareClientToWrite` refuses or only collects; `copyClientOutputBuffer` and
`flushSlavesOutputBuffers`, which belong to replication; a write handler that
cannot be registered. Of the lifecycle: masters, slaves and monitors
(replication is not in the repository), transactions and subscriptions, clients
without a socket, SIGPIPE. Of the input: quoted words of inline commands, bytes of
value 0, at which `strchr` would stop. Of `zmalloc.c`: the build with
`malloc_usable_size`, the handler of memory shortage, reading `/proc`. Of `sds.c`:
`sdscatvprintf` beyond what it leaves in the buffer, `sdsull2str`, the test main.
Logging, the content of jobs and replies, the log demo (a circular file name and
`vsnprintf`), the backtrace demo (a signal handler that prints) and the blocking
demo (four calls in a row) are left out.

## 7. Plan

Order: by how much of the repository's behaviour rests on the part.

1. `ThreadPool` refining `JobPool`, with proofs - done.
2. `EventLoop`, `EchoServer`, `Timers` - done, with proofs.
3. `ClientOutput`: buffer, list, deferred lengths, partial writes, limits; the
   stream that leaves is the stream that was added, and the write event stays
   registered while anything is left - done, with proofs.
4. `ClientLifecycle`: accept, free, the queue of clients to close, pausing; a
   freed client is in no list - done, with proofs.
5. `ClientInput`: the parser against the commands that were sent, for every way
   of cutting the query, refining the stream of requests - done, with proofs.
6. `BioService`: the one-thread pool of the middleware server, second
   implementation of `JobPool`, where the counter does cover the running job; with
   `Zmalloc`'s counter with and without its lock - done, with proofs.
7. `AdList` node by node, refining sequences; `Sds`, refining plain bytes; `Anet`'s
   error paths and the start of the server - done, with proofs; `Config` and what
   takes strings apart - done, model-checked.
8. What is left: `aeResizeSetSize` and the deletion of a loop; the log demo; slaves
   and masters, if their code is ever added.
