# TLA+ models of 130class

The repository holds five course assignments in C. Two of them are concurrent (`asgn3`,
a bounded queue and a reader/writer lock; `asgn4`, a multi-threaded HTTP server), one is
a pure state machine (`asgn5`, a cache simulator), and two are sequential programs at
the mercy of their input and of system calls that fall short (`asgn1`, a memory tool;
`asgn2`, a single-threaded HTTP server). This directory models all five, checks them
with TLC, and proves with TLAPS every safety property and every refinement that the
passing runs check; of the liveness properties it proves the parts that need no
fairness. Paths below are relative to `antchu-main/`.

## 1. The system

| part | state | operations | what is hard | what makes it correct |
|---|---|---|---|---|
| bounded queue, `asgn3/queue.c` | ring buffer, `head`, `tail`, `count`, a mutex, condition variables `full` and `empty` | `queue_new`, `queue_push`, `queue_pop`, `queue_delete` | threads that barge in between a signal and the wakeup it causes; index wrap | FIFO, nobody asleep over work, no mutual sleep |
| reader/writer lock, `asgn3/rwlock.c` | six counters, a mutex, two condition variables | `rwlock_new`, `reader_lock`, `reader_unlock`, `writer_lock`, `writer_unlock`, `rwlock_delete` | three priorities, whom an unlock wakes, starvation, `int` overflow | exclusion, no lost wakeup, each priority keeps its promise |
| HTTP server, `asgn4/httpserver.c` | the connection queue, one global mutex, a list of (URI, lock) nodes, files, descriptors, an audit log | `main` (dispatcher), `worker`, `handle_connection`, `handle_get`, `handle_put`, `handle_unsupported` | workers interleave at every call; early returns; failing `accept`, `open`, transfers | the log is a serial order that explains the answers and the disk; every connection is closed; nothing is left locked or open |
| cache simulator, `asgn5/cacher.c` | the options, the list of nodes, the history, the clock hand, two counters | the option loop, `insert_fifo`, `insert_lru`, `insert_clock`, the input loop | long inputs; the clock's sweep; options in any order | the answers are those of the policy; the counters classify the misses |
| single-threaded server, `asgn2/` | one buffer for all requests, a request struct on the stack, descriptors, files | the accept loop, `parse`, `get`, `put` | what one request leaves to the next, descriptors that leak, clients that stop half way | a PUT stores its own body and no other, one answer for each request, every connection ends |
| memory tool, `asgn1/memory.c` | one buffer, the position in it, a file, stdout | `get`, `set` | reads and writes that are short or fail; a head that fills the buffer | what is stored or printed is what was given |

How they interact: the dispatcher of `asgn4` pushes connections into a queue
and its workers pop them; each request takes the reader/writer lock of its URI
while holding the global mutex. `asgn4` links the queue and the lock from a
compiled archive with the headers of `asgn3`, so the server's model knows them
only by the contracts `BoundedFifo` and `RWLockContract`, the same two that the
models of the `asgn3` sources are shown to implement. Both servers use a compiled
helper library, modelled by the contract of `asgn2_helper_funcs.h`. `asgn1` and
`asgn5` stand alone.

## 2. The modules

| module | models | role |
|---|---|---|
| `BoundedFifo` | `asgn3/queue.h` | what a queue promises |
| `Queue` | `asgn3/queue.c` | the ring buffer and its condition variables |
| `QueueProofs` | | theorems about `Queue` |
| `RWLockContract` | `asgn3/rwlock.h` | what a lock promises |
| `RWLock` | `asgn3/rwlock.c` | the counters, the condition variables and the mutex |
| `RWLockNWay` | | `RWLock` with three history variables, for who overtakes whom |
| `RWLockProofs`, `RWLockNWayProofs` | | theorems about them |
| `HttpServer` | `asgn4/httpserver.c`, the headers of `asgn4` | dispatcher, workers, handlers, disk, log |
| `HttpServerProofs`, `HttpServerLogProofs` | | theorems about its locks, descriptors and queue, and about its log |
| `ReplacementQueue` | | what FIFO, LRU and CLOCK promise, as one queue of pages |
| `Cacher` | `asgn5/cacher.c` | the options, the lists, the hand, the counters and the input |
| `CacherProofs` | | theorems about `Cacher` |
| `OneBufferServer` | `asgn2/httpserver.c`, `asgn2/helper.c` | the loop, the buffer, the request struct, `get` and `put` |
| `OneBufferServerProofs` | | theorems about it |
| `MemoryTool` | `asgn1/memory.c` | the command, the buffer and the loops over it |
| `MemoryToolProofs` | | theorems about it |
| `MCRWLockNWay`, `MCHttpServer`, `MCCacher` | | symmetry for TLC |

Conventions. Variables and operators keep the names of the fields and functions
they model. An operator that a comment calls a mutant is a plausible mistake in
the definition that follows it; nothing in a specification uses it, and
substituting it for that definition makes TLC report the property it is paired
with in `PROJECT.json`.

**Queue and RWLock.** Every access to either struct happens under its mutex, so
what a thread executes from taking the mutex (or returning from
`pthread_cond_wait`) up to the next wait or unlock is one action. A condition
variable is the set of threads asleep on it; a signal takes one arbitrary
member out, a broadcast all of them, and a woken thread then competes for the
mutex with threads that have only just called. Spurious wakeups may happen at
any time. The call itself is a step of its own, so a caller may be overtaken
before it gets the mutex. In `RWLock` the mutex is also a variable, because
`writer_unlock` can return without unlocking it, and a C `int` wraps at
`IntMax`. Clients obey the protocol the headers state: a thread unlocks what it
holds, and the owner deletes a queue or lock that nobody is using.

**HttpServer.** Each worker has a program counter; one step is one call that
other threads can observe (lock, list lookup, `access`, `open`, one chunk of a
transfer, the log line, the response, unlock, close). A request is a method and
a URI; bodies are sequences of chunks, each named by the connection that wrote
it. What is at a URI on disk is one of: a file that can be read and written,
nothing, a directory, something that can be neither read nor written, or a path below
a missing directory. Descriptors are counted, and
`accept` and `open` fail when there are none left; `accept`, and any transfer,
may also fail at any point. `-t` may ask for any number of the workers, also for
none, and then the first connection blocks the dispatcher.

**Cacher.** A returned option, and a line of input, is one step, except that the
sweep of the clock hand takes one step per position. `input` and `output` are the
standard streams so far, so properties can relate each answer to everything that
was read.

**OneBufferServer.** A request is a sequence of units: the request line, header
lines, and the body. A unit in the buffer or in a file is named by the connection
that sent it and its place there, so that a property can tell whose bytes a file
holds. `rinfo` holds the three fields of the request struct that `parse` leaves
unassigned when no header matches; they keep what the last connection left, and at
the start whatever was on the stack. `pass_n_bytes` takes a `size_t`, so a
negative difference asks for data without end. Each client may send any
part of its request and then close, wait for the timeout or reset; the disk may be
full at any write.

**MemoryTool.** Input, buffer and files are sequences of units. Each read and
write moves any number of units up to what was asked for, or fails. A `write` to
stdout that returns -1 moves `bytesWritten` back, as the code does, and what then
lies below the buffer is junk.

## 3. The checks

No run reduces the interleavings except by symmetry, which only the runs without
liveness properties use.

| run | what it shows | bounds, and why they are enough |
|---|---|---|
| `queue` | types; no sleeper left over an element or slot (`NobodyStranded`); refinement of `BoundedFifo`, in which the agreement of the indices shows; while there is an element and a popper some pop returns, and dually (`Progress`) | 4 threads, so that two sleep on one side while one signals and one barges in; 2 slots, so that indices wrap; 2 elements, so that order shows |
| `rwlock_safety` | counters equal the sets they count; exclusion; whoever waits has somebody who will wake it or take the lock (`SomebodyIsNext`); the mutex is lost only by a release of an otherwise unused lock; nobody passes a waiter of the preferred kind, and with `N_WAY` at most n readers pass a waiting writer while `readersT` has not wrapped, and one writer a waiting reader (`BoundedOvertaking`); refinement of `RWLockContract` | 5 threads, so that two readers and two writers meet while one barges in; n in 1..3, `IntMax` 3, so that `readersT` reaches n and wraps |
| `rwlock_liveness` | `READERS`: a waiting reader reads; `N_WAY`: waiting readers are not starved; `WRITERS`, `N_WAY`: waiting writers are not starved (`NeitherSideStarves`) | 3 threads: one on each side and one to renew the competition |
| `http_safety` | each line of the log is explained by the disk at start and the lines above it (`LogExplainsAnswers`), the disk by the whole log (`LogExplainsDisk`); locks and descriptors outlive a request only in the two known ways; while every PUT can open its file nobody waits in a circle (`SomebodyGoesOn`); connections travel through a `BoundedFifo` | 0 to 2 workers, 3 connections, 1 URI so that all meet, 5 kinds of file, 4 descriptors so that they run out, bodies of 2 chunks so that a write can be half done |
| `http_liveness` | the list of locks acts as one lock per URI (`RWLockContract`); every accepted connection is closed | 2 connections and 2 URIs, so that two requests share a node or have one each; no directory, and descriptors enough, so that no PUT fails to open its file (see the findings) |
| `cacher` | `LRU` hits by stack distance, `FIFO` by loads since the load, `CLOCK` forgets a page in time (`HitsOfPolicy`); counters classify the misses; the sweep ends, as each turn leaves fewer pages to pass over (`SweepEnds`); refinement of `ReplacementQueue` | up to 3 options and an operand; 4 pages, caches of 1 to 3, every input of up to 9 lines (up to renaming): a clock of three is filled, hit and swept twice |
| `one_buffer_server` | the fields left by a connection name a part of the buffer; success needs two descriptors beside the leaked ones, and `accept` always finds one (`LeakStarves`); one answer each, or 200 and then 403 (`AnsweredOnce`); no bytes of another connection in a file (`NoForeignBytes`); a PUT that succeeds stored its body, also when its client resets the connection before the answer and ends the server (`PutStores`); every connection ends | 2 connections, so that one leaves something to the next; a buffer of 3 units with heads of 2 and 4: a body that comes partly with the head, and a blank line that does not fit; lengths 0 and 2 and bodies of 0 to 2 units, more and less than announced; 3 descriptors, so that one leaked by a PUT of an existing file has the next such PUT answered 500, while a GET is served; starvation of all requests takes more, and is left to the proof for every limit |
| `memory_tool` | a get prints the file (`GetIsFile`), and even with failing writes leaves nothing out (`GetLosesNothing`); a set without short writes stores the beginning of its message: cut to its length, or, beyond the buffer, all that could be read (`SetIsMessage`); it is never shorter when writes fall short (`SetNoShorter`); a refused command touches nothing | a buffer of 4 units, a head that fills it or half of it, messages of 0 to 4 and files of 0 to 5 units, so that both loops go round twice; 2 failing writes, so that `bytesWritten` can be below zero |

Deadlock checking is off where the program may really stop: after a delete,
after the end of the input or of the command, when the mutex or a URI's lock is
lost, when `accept` fails in `asgn2`.

Fairness. In all models what clients do (call, connect, type a line, close the
input) has no fairness. Weak fairness of a thread's next step stands for a
scheduler that runs every runnable thread and a mutex that is held for a few
instructions only. For the lock it includes the holder's call of unlock, since
a client that keeps a lock for ever starves everyone by right. For both servers it
includes a transfer: its client reads and writes on, or goes away, or sends
nothing for the five seconds after which `asgn2_helper_funcs.h:38` says a
connection times out. Stronger fairness is left out on purpose: a waiter that is
woken, loses the race and sleeps again gets no help, so the starvation properties
rest on the tests in the code.

Findings. Four runs end in a counterexample:

* `rwlock_mutex_lost`. `writer_unlock` unlocks the mutex inside its `if`s only.
  When no one waits, no `if` holds, and the function returns with the mutex
  locked (`asgn3/rwlock.c:150`). The next call on that lock never returns.
* `rwlock_zero_n`. With `N_WAY` and n = 0 the test of line 125 holds even with
  no reader waiting; the loop then signals nobody, and the waiters of both
  kinds sleep beside a free lock.
* `rwlock_nway_wrap`. `readersT` counts readers since the last writer whether
  or not a writer waits; after `INT_MAX` of them it is negative, and far more
  than n readers may pass a writer. The run scales `INT_MAX` to 2.
* `http_lock_lost`. `handle_put` returns without unlocking when `open` fails
  (`asgn4/httpserver.c:338`). The next request for the URI waits for the lock
  with the global mutex held, and every later request waits for the mutex.

What the three sequential models show beside their properties, none of it against
anything the repository promises: `put` of `asgn2` leaks the descriptor of its
first `open` (`asgn2/helper.c:142`) for every file that exists, until all
requests are answered 500, but never the last one, so that `accept` goes on;
`asgn2` does not ignore SIGPIPE, as `asgn4` does (`asgn4/httpserver.c:137`), and a
client that resets its connection ends it; a set of `asgn1` whose write falls
short stores the beginning of its message twice, and one longer than the buffer
is stored whole, whatever its length says; at a word that is no option the option
loop of `asgn5` turns for ever (`asgn5/cacher.c:333`, `TurnInPlace`), since `getopt`
then leaves `optind` below `argc`, and the test that refuses a wrong number of words
(line 350) is not reached.

## 4. The proofs

The theorems hold for every value of the constants: any finite set of threads or
workers, any queue size, priorities, n that fits an `int` of any width, buffer
sizes, descriptor limits, numbers of connections, requests, files and URIs. The
assumptions are the named `ASSUME`s of the modules, and n > 0 where a theorem says
so.

* `QueueProofs`. `TypeCorrect` is inductive as it stands. `NothingStranded` proves
  `NobodyStranded` together with the types. The count of elements is compared with the
  *number* of awake poppers, not with their existence: "if there is an element, somebody
  is awake" is not inductive, since two pushes may signal two poppers and one of them
  leave. `MutualSleepImpossible` (pushers and poppers never all sleep) follows: with
  nobody awake the two parts would make the queue both empty and full. `RingCorrect` is
  inductive with the types; its lemmas reduce `% Size` to one subtraction, which the
  solver can handle. `ImplementsFifo` maps every step to a step of `BoundedFifo` or a
  stutter: `StoreAppends` and `TakeRemovesHead` say what the ring's contents become.
* `RWLockProofs`. Exclusion is not inductive alone, since the code tests
  counters; `LockInvariant` adds that each counter is the cardinality of a set
  of threads (`CountsAgree`), that there is at most one writer and then no
  reader, and that a lost mutex means all counters are zero. From it follow
  `TypeCorrect`, `CountersCorrect`, `WriterAlone`, `MutexLostUnused` and
  `ImplementsContract`. `NoLostWakeup` needs `WakeupInvariant`, one conjunct for
  each reason to sleep, saying who is on the way once the reason is gone; for
  `N_WAY` it counts that n - readersT readers are awake. Both assume n > 0,
  without which the run `rwlock_zero_n` refutes the conclusion. A waiter that is
  awake but has its test still true counts as a waiter like one asleep, so a wakeup
  cannot be spent on somebody who only sleeps again. `ReadersFirst` needs no n: under
  `READERS` a reader sleeps only while a writer has the lock, one unlock wakes them
  all, and the test of an awake reader stays false until it reads.
* `RWLockNWayProofs`. `OvertakingBounded` compares the history variable `passed`
  with `readersT`, which is at least as large until it wraps, and reads the bound on
  writers off the same counter: a writer that passes a waiting reader leaves
  `readersT` at 0, and with n > 0 the next writer is held until a reader has come.
  Under `READERS` and `WRITERS` the tests count waiters of the preferred kind, so
  nobody passes those.
* `HttpServerProofs`. `ServerInv` says at each place in the code what a worker
  holds (`WorkerInv`, `LockInv`), that one worker owns the mutex and a popped
  connection (`OneOwner`), that the nodes of the list have different URIs and
  exclude as rwlock.h says (`ListInv`), what an early return has left (`EarlyInv`),
  and what a transfer has moved (`TransferInv`). Its lemmas state first what a
  worker's step leaves alone, so that the invariant of the other workers is
  preserved once for all actions. `TypesCorrect`, `OneWaiter`, `LocksReleased` and
  `DescriptorsClosed` follow. `NoDeadlock` follows the chain of waits: a connection in
  the queue waits for a worker, the workers for the mutex, its owner is in `find`,
  `addtolist` or a lock call (`MutexInv`), that call waits for the holders of one
  lock, and a holder waits for nobody (`HoldersGoOn`); only a PUT whose open failed
  breaks the chain, for the connection it leaves in the lock has no worker.
  `SomebodyGoesOn` does without `ENABLED`: `CanGo` lists the guards of the calls that
  can block, and no others, so the two agree. `RequestsShrink` gives each worker a
  variant, its position in the code and the chunks it may still pass; each of its
  steps but the pop makes that smaller and no other thread changes it. Two
  refinements follow, too. `DispatchesInOrder` maps
  the server to `BoundedFifo`: the dispatcher is in push or idle, a worker in pop or
  idle (`Calls`), and of two steps of a worker only the one that begins to wait and
  the one that gets a connection are steps of the queue. `UriHasOneLock` maps it to
  one `RWLockContract` for each URI u: a connection reads or writes if a node of u
  holds it, and asks if its worker waits (`Use(u)`). A grant is allowed by the
  contract because the nodes of the list have different URIs, so the node that
  admits the connection is the only one of u; a release finds the connection
  because no other node holds it; and a step on another URI, or of another worker,
  changes nothing for u.
* `HttpServerLogProofs`. That the audit log is a serial order is proved from
  `LogInv`: between its `open` and its line in the log a request's answer is
  already explained by the log *so far* (`ReplyInv`), and stays so, because
  whoever could change the file would need the lock it holds. `AnswersExplained`
  and `DiskExplained` follow.
* `OneBufferServerProofs`. The invariant says what the buffer holds of the connection
  (`BufferInv`), that put has stored exactly a prefix of the body while `left` counts
  the rest, and keeps it through the answer or the reset (`StoreInv`), and that the
  descriptors in use and leaked stay below the limit (`DescriptorInv`). `NoForeignBytes`
  rests on the `memset` at the end of the loop: when `rinfo` is stale, it points into a
  cleared buffer. `ConnectionsShrink` is the variant of the loop of main: its place in
  it and the units the client has still to send, not those that `left` counts, which may
  be without end.
* `MemoryToolProofs`. `GetInv` relates what was printed and what is in the buffer to the
  position in the file, `SetInv` what was stored to what was read of the message; the
  first speaks only of executions without a failure, the second of those without a short
  write, as the history variables record them. With failing writes a get repeats itself,
  so `LossInv` says less, that the units passed so far can be found in the output in
  their order (`Embeds`), and `GetSkipsNothing` follows. `LengthInv`, for
  `SetKeepsTheLength`, says that a file which is being written lacks no more than what
  is left in the buffer.
* `CacherProofs`. `TypeInv` adds to `TypeOK` the shape of the list under each policy,
  above all that the hand rests at 0 until the cache is full. The properties of the
  answers compare the answer to the next line with the whole input, so the invariants
  say of each page in the list which line put it where it is. LRU: since some request of
  the page, exactly the pages behind it were asked for (`LruInv`). FIFO: as many misses
  came since its load as there are pages behind it (`FifoInv`). CLOCK: the distance of
  the hand from the page and the misses since its last request add up to less than the
  length of the list, or at most `maxsize - 1` more if the page was hit and its bit was
  cleared since (`ClockInv`). For all: the history holds the pages asked for, and
  nothing was evicted before the cache was full (`SeenInv`), which is what the insert
  functions rely on when they count a miss as compulsory (`CountersInv`). These
  invariants speak of the lists and end with them at the end of the input, so
  `AnswersInv` keeps `HitsOfPolicy` from line to line. `CountersClassify` and
  `AnswersArePolicy` follow. `SweepsShrink` is an action property: a turn of the hand
  clears one bit and sets none. `ImplementsPolicy` maps the list to the queue of
  `ReplacementQueue`, read round the clock from the hand: replacing a page under the
  hand and moving on is a removal at the head and an insertion at the end (`OrderShape`,
  `RefsShape` say what the mapping yields in every state).

Some properties are stated by theorems only and no run repeats them:
`RingConsistent`, `NoMutualSleep` (`MutualSleepImpossible`), `WakeupInvariant`
(`WakeupsSuffice`), `ReadersFirst`, `OnlyOneWaits` (`OneWaiter`), `RequestsShrink` and
`ConnectionsShrink`. The runs check what follows from them.

Only model-checked: all liveness (`Progress`, `WaitingReaderReads`,
`NeitherSideStarves`, `EveryConnectionCloses`, `EveryConnectionEnds`), since the
prover does not reason about fairness. The part of these arguments that needs none is
proved: that somebody
can go on (`NothingStranded`, `NoLostWakeup`, `NoDeadlock`), that nobody is passed too
often (`OvertakingBounded`, `ReadersFirst`), and that what goes on comes to an end
(`RequestsShrink`, `ConnectionsShrink`, `SweepsShrink`).

## 5. Not modelled

* Failing `malloc`s, in all parts; the parsing of ports, of HTTP requests and of
  headers beyond their outcome; the formats of the log and the responses.
* The archive of `asgn4`, except by its headers. Whether that archive's lock
  has the defects of `asgn3/rwlock.c` cannot be read from the sources.
* In `asgn4`: files that can be read but not written, or the other way round.
* `asgn4`'s signal handler: it is installed for a signal that cannot be caught,
  and the loop it should end ignores it.
* In `asgn2`: a request that fills the buffer to the last byte, which leaves the
  string without its end and the outcome to what lies behind it; a blank line
  inside a body; the bytes that `parse` overwrites with zeros in the head, which
  nothing reads again; several processes on one directory.
* In `asgn1`: several units to a token of the command; the overflow of `atoi`.
* In `asgn5`: options grouped in one word, or with their number attached (`-N3`); a bare
  `--`, which ends the options; the cutting of lines longer than the buffer; overflow of
  its counters after 2^31 misses.

## 6. What could follow

1. `HttpServer` over the detailed `Queue` and `RWLock` instead of their
   contracts: would the server survive with the sources of `asgn3`?
2. Proofs: the number of wakeups a waiter of the lock can lose before it acquires.
