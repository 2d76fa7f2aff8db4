# httpd_cpp: specification, model checking and proofs

httpd_cpp is a small HTTP server in C++. One thread waits for events with epoll,
keeps a queue of idle timers and accepts connections; readable connections are
handed to a pool of two worker threads, each of which reads a request, writes a
response and gives the connection back to epoll. Its configuration is read from
JSON, with cJSON and a C++ class over it. The project in this directory models
the concurrent core of the server, the handling of a request and the JSON
library in TLA+, checks them with TLC and proves with TLAPS what holds of the
components for every number of threads, connections and timers and every size
of buffer.

    TimerQueue      --implements-->  Deadlines
    ThreadPool      --implements-->  TaskQueue
    Buffer          --implements-->  ByteQueue
    RequestHandler  --implements-->  HttpExchange
    HttpServer  =  main loop and CallBack::request
                   over TimerQueue, TaskQueue and Kernel
    PoolTest    =  main_threadpool over ThreadPool and CountDownLatch,
                   which is over Monitor, the mutex and condition
    JsonObject  =  CJsonObject over JsonTree, the items of cJSON and their names,
                   which is over JsonLinks, the links between them; JsonDocument
                   says what its calls do to the document as a value
    JsonValue   =  what cJSON and CJsonObject make of texts and values

## The system

| Part | Code | State | Operations | Used by |
|---|---|---|---|---|
| Main loop | main_server.cpp | the batch of events, `ptr_set`, a request per connection | wait, sweep timers, accept, dispatch, close on error | - |
| Request callback | callback.cpp | - | `request` (a task), `http_close_connect` (a timer's handler) | pool, timer queue |
| Timer queue | priority_queue.*, timer.* | heap of nodes, current time | `add_timer`, `del_timer`, `handle_expire_timers` | main loop, workers |
| Thread pool | threadpool.* | queue of tasks, `running_`, threads | `start`, `run`, `take`, `stop` | main loop |
| Mutex, condition | mutex.h, condition.* | owner, waiters | lock, unlock, wait, notify, notifyAll | pool, timer queue, latch |
| Thread | thread.*, current_thread.h, atomic.h | started, joined | start, join | pool |
| Latch | count_down_latch.* | a count | wait, countDown | tests |
| EPoll, sockets | epoll.*, socket*.*, inet_address.* | the kernel's | add, mod, del, wait, accept, read, write, close | main loop, callback |
| Buffer | buffer.* | bytes, reader and writer index | append, retrieve, makeSpace, readFd, writeFd | callback, parser |
| Parser, request | http_parse.*, http_request.h | parser state, headers, header functions | parseRequest, addHeader, handleFunc | callback |
| Response | http_response.* | status, headers, close flag | setters, appendToBuffer | callback |
| JSON items | cJSON.* | items linked by next, prev and child | parse, print, add, detach, replace, delete | CJsonObject |
| JSON objects | CJsonObject.* | own items or a reference, objects made by `operator[]`, names being traversed | Parse, Add, Delete, Replace, Get, `operator[]`, GetKey | configuration |
| Configuration | config.* | three settings | read_conf | main_config |

How they interact. The main thread, `main` in main_server.cpp, is the only one
that accepts, sweeps timers and submits tasks. Threads share the timer queue and
the pool's queue, each under a mutex, the epoll instance, and the `HttpRequest`
objects, which have no lock and no reference count: epoll holds a raw pointer,
a timer node holds a raw pointer, and so does a queued task. The design that has
to keep this safe is ownership: EPOLLONESHOT makes sure that a connection is
reported once and then belongs to the batch, the queue or a worker until the
worker re-arms it. The timer is the exception, since a timer that expires
deletes the request whoever owns it; `del_timer` at the start of the task and
`ptr_set` in the main loop are there for that.

What is hard, and what correctness means for each part:

- *Timer queue.* Deletion is lazy and storage is used again. Correct if the heap
  with its marks behaves as a set of deadlines, one per request at most, fired
  in order, never after cancellation, and if `del_timer` marks the right node.
- *Thread pool.* Two conditions over one mutex, `notify` of one thread only, an
  unlocked read of `running_`, `stop` at any moment. Correct if tasks are
  started in order and once, if no wakeup is lost, if the assertions hold, and
  if `stop` returns.
- *Server.* Five kinds of steps interleave over one request: an event, a sweep,
  the task, a hang-up of the client, the next connection at the same address.
  Correct if a request has one owner, is used only while it exists, has a timer
  whenever nobody is handling it, and if descriptors are closed exactly once.
- *Parser, request, response.* Sequential, over a connection that is kept alive:
  what one request leaves behind for the next.
- *Buffer.* Index arithmetic and its assertions.
- *JSON.* Lists linked by hand, freed recursively; objects that refer to items
  which any other call may move or free; a parser by mutual recursion; integers
  of four types in one field. Correct if no item is lost, shared or freed while
  linked, if a fresh look-up would find what a cached object was made for, if texts
  are read as the grammar has them, and if values survive being printed and
  parsed.

PROJECT.json lists the hazards with their lines.

## Modules

**Deadlines** (abstract): a set of armed pairs request-deadline, a clock and a
sweep. `Fire` takes the earliest deadline and only one that has passed;
`EndSweep` needs that none that has passed is left. The clock may be set.

**TimerQueue**: `pq` is the heap, a function from the nodes in it to their
fields; `timer[r]` is the weak pointer `HttpRequest::timer_`, which becomes
`NoNode` when the heap drops the node it points to. `add_timer` and `del_timer`
are one action each, as they hold the mutex throughout; the loop of
`handle_expire_timers` takes one step per iteration and time may pass between
two. A node taken out of the heap may be allocated again at once, so a stale
pointer would be found. Which of several nodes with the smallest key is on top
is left open. `yj_timer::current_msec` is set from the clock immediately before
each use, under the mutex, and is the clock here; it is the wall clock, which
`SetClock` sets forward or back at any time, also between two iterations. In
HttpServer it only advances. Assumed of the callers, as a
guard of `Next`: a request gets a timer only when it has none that counts;
HttpServer establishes it (`TimerProtocol`).

**TaskQueue** (abstract): a bounded first-in first-out queue and the task each
worker holds.

**ThreadPool**: each thread has a program counter with a label per lock
acquisition, condition test and critical section; `owner` is the mutex. A
thread in `pthread_cond_wait` is at "wait" and a notified one at "lock", so it
competes for the mutex with everyone else before it tests again. `start` makes
one worker at a time, and workers run while it does. The constants `Spurious`
and `CreateMayFail` let waits return unnotified and `pthread_create` fail.
Producers and the thread that stops the pool are different threads here; in
main_server.cpp and main_threadpool.cpp they are one, which is a special case.
`stop` joins in any order, which changes nothing of what it waits for.

**Kernel** (the kernel and the clients, as the code uses them): a connection is
in the backlog, open or closed; the client's end is open, has sent FIN, or has
reset. Unread data is a number of bursts. `armed` are the connections an event
can be reported for: EPOLLONESHOT disarms what is reported, and epoll_add and
epoll_mod poll, so a ready connection is reported whenever it is armed. The
listener is edge-triggered without EPOLLONESHOT: `edge` is set by a new
connection and cleared when the listener is reported, whatever remains in the
backlog. An end of file is EPOLLIN since EPOLLRDHUP is not asked for; a reset
adds EPOLLERR. The data that precedes a FIN or a reset is read first.

**HttpServer**: the main thread is at "events" (between iterations of its for
loop, or blocked in epoll_wait when the batch is empty) or at "sweep"; each
worker has a label in `CallBack::request`, one step per call that touches shared
state. `alive` is the set of `HttpRequest` objects; a connection stands for its
descriptor, its object and its identity, and `address` gives the object's
address, which `ptr_set` is about and which `new` may return again. Where main
or a worker dereferences an object that is not alive the behaviour is undefined:
`stale` becomes TRUE and the model stops. It also stops when
`assert(connfd >= 0)` fails. Simplifications, each without effect on what is
checked: accept, new, `add_timer` and epoll_add of a new connection are one
step, as no other thread knows the connection before it ends; del_timer, close
and delete of a connection with an error event likewise, as it belongs to main;
epoll_del there fails on the closed descriptor and its result is ignored. From
`parseRequest` to `writeFd` is one step, `Respond`, whose outcome is only
whether the connection is closed; both are possible for every request, see the
hazards at callback.cpp:86.

`Prompt` is an assumption about time, not something the code ensures: between
the end of a sweep and the `del_timer` of a connection whose event is being
handled, and between `add_timer` and the epoll_mod after it, that connection's
timer does not expire. The runs that check the rest of the design assume it;
`http_server_late` shows what happens without.

**Monitor** takes `MutexLock` and `Condition` apart into the pthread calls and
the assignments to `holder_`, which `assertLocked` reads and which is written
before and after the mutex itself changes hands. CountDownLatch is built on it;
ThreadPool takes lock, unlock and wait as parts of its own steps. The calls of pthread functions stand inside
`assert` (mutex.h:36, condition.h:24): all models are of a build without NDEBUG;
with it nothing would be locked.

**CountDownLatch**, **PoolTest**: the latch, and main_threadpool.cpp as a client
of ThreadPool and the latch. The main thread is `Adder` while it is in `run` and
`Main` while it is in `start`, `wait` and `stop`. A worker that runs the last task
enters `countDown`, which has steps of its own. Each step of the latch is a step of
Monitor (`Mutex == INSTANCE Monitor`), its labels are Monitor's, and what the
latch adds is its count and what `wait` and `countDown` do while they have the
mutex.

**ByteQueue** (abstract): a sequence of bytes put in at one end, taken out at the
other, and both undone (`unwrite`, `prepend`).

**Buffer**: the vector, `readerIndex_` and `writerIndex_`. The methods are
operators on a record, by the same names; the actions are what a user may call,
within the asserted preconditions. `readFd` reads into the writable space and an
overflow area which is then appended.

**HttpExchange** (abstract): a request is answered by one response about its own
path, or the connection closed.

**RequestHandler**: `CallBack::request` for one connection, over several calls.
`path` and `connection` are of the `HttpRequest`, which lives as long as the
connection; `buf`, `state` and `response` are made anew by each call. Text is a
sequence of tokens (a request line, a header, a line end), cut into reads
anywhere. A patient client sends a request as a whole and waits for the
response; a hasty one sends token by token, malformed or pipelined, and does not
read. The result of `parseRequest` is ignored, as in callback.cpp:52; what `stat`
finds is left open, and `st_size` is arbitrary when it finds nothing. SIGPIPE is
ignored (main_server.cpp:39), so a write to a connection that is gone returns -1.

**JsonLinks**: the items of cJSON as a function from addresses to records with
`next`, `prev` and `child`, and each operation of cJSON on them as an operator that
returns the heap it leaves, link by link as the code sets them. What
`cJSON_Delete` frees is what the links lead to (`Reach`, the least set that is
closed under them), as in the code: an item that is still linked to others takes
them along. Least sets stand for the code's loops along `next` too (`Onward`, `Listed`).
`Forest` says what the links have to be: inverse to each other, to
items that exist, and every item in the tree of one of the roots.

**JsonTree** adds which member of an array or object an operation is about, by
position or by name. The members before one are those from which `next` leads to it,
so that a position is the size of a set. A text is the items of a value, wherever
they are, and which of them is the first: `cJSON_Print` cuts an item's tree out of
the heap (`TextOf`), `cJSON_Parse` puts one at free addresses, linked in the same way
(`Parsed`). The values of items are abstracted to their type, so all scalars are
"plain".

**JsonObject**: `CJsonObject` over JsonTree. There is the object the program made,
`Root`, and those `operator[]` made, which refer to items of the one they were
made by and are cached by key or index in `m_mapJsonObjectRef` and
`m_mapJsonArrayRef`. The program may call every operation of every one of them,
also of those nested in others: that an edit drops what it made stale is what the
module is about. All overloads of `Add`, `AddAsFirst` and `Replace` that take
text, numbers, booleans or null do the same to the links and caches and are one
action each; those that take an object go by way of its text. `operator[]` makes
and caches an object also where it finds nothing, an empty one; `found` records of
each object what it was made for, an item or nothing, and no step depends on it.
Four things are left to the caller, as the code does not guard against them and no
program of the repository does them:

- `OneSpelling`: cJSON finds members without regard to case, the cache with regard
  to it. Of the spellings of a name, `[]`, `Delete` and `Replace` are called with one.
- `Indices` are not negative: the cache would take -1 as 4294967295.
- `ShiftCached` FALSE: `AddAsFirst` of a plain value is not called while elements are
  cached. It drops none of them, unlike `AddAsFirst` of an object
  (CJsonObject.cpp:2596); with `ShiftCached` TRUE `Coherent` fails.
- `AddMissed` FALSE: nothing is added where `[]` found nothing before, by an overload
  that keeps the empty object cached for that. `AddEmptySubObject`,
  `AddEmptySubArray` and `Add` of a plain value keep it whatever it is cached for
  (CJsonObject.cpp:952), and `Add` of an object drops it only if it is cached under
  the same spelling (902), or for the index of the new element or a later one
  (2146). After the others `[]` returns the empty object and not the new member;
  with `AddMissed` TRUE `Coherent` fails, and the other three properties hold.

**JsonDocument**: the document of a JsonObject as a value, types, names and members
within members without the items that hold them, and the property `OneEdit` about
it. It is recursive, and therefore apart from what is proved about.

**JsonValue**: the values themselves. A text is a sequence of tokens; strings are
sequences of character codes, escaped and unescaped as cJSON does it; integers
have the widths `Bits32` and `Bits64` and are cast as C does it; doubles are numbers
of ticks, of which `%f` keeps some. A double keeps `DoubleBits` significant bits of an
integer and a float `FloatBits`, and `Get` rounds to the nearest. The parser and the printer are recursive
operators, function by function those of cJSON.c. The actions read a text token
by token, parse it, copy the document by way of its text, or build one with each
overload of `Add`, `AddAsFirst` and `Replace`. `Rules` and `Left` are the grammar of
RFC 8259 as a machine with a stack, against which the parser is checked; they
are not translated from the code. Left out: texts that end within an escape;
casts of doubles that C leaves undefined; surrogate pairs; doubles that a float
cannot hold; how numbers are written, so that `parse_number` starts from the
number a token says and its leniency about forms such as `01` is not seen; spaces.

**TimerQueueProofs**, **ThreadPoolProofs**, **MonitorProofs**, **HttpServerProofs**,
**RequestHandlerProofs**, **PoolTestProofs**, **BufferProofs**, **JsonObjectProofs**:
theorems and proofs. The modules named **MC...** give TLC its constants.

Operators introduced by a comment "Faulty variant" are not part of the models.
Each is an operation with a plausible mistake in it; with the variant in place
of the operation, the property PROJECT.json names beside it fails.

## Runs

| Run | Bounds | What it shows |
|---|---|---|
| timer_queue | 2 requests, 3 nodes, timeouts 1 and 2, clock set anywhere up to 4 | a pointer that locks is to a node of its own request; a node that counts is reachable; the refinement of Deadlines; sweeps end |
| thread_pool | 2 producers, 2 workers, 4 tasks, queue of 1, spurious wakeups, threads may fail to start, tasks also before `start` | the assertions of `run`, no lost wakeup of workers or producers, no worker asleep after `stop`, every task in one place; the refinement of TaskQueue; queued tasks run and blocked producers go on unless the pool is stopped or has no worker; `stop` returns, or aborts if a worker was not created |
| pool_test | 3 workers, 4 tasks, queue of 2, spurious wakeups | every task has run when `stop` returns, nobody is in the latch when it is destroyed, `holder_` names the owner of its mutex wherever `assertLocked` could ask, the test ends |
| http_server | 2 connections, 2 workers, queue of 1, 4 timer nodes, 2 addresses, clock to 4, timeout 1, `Prompt` | no use of a deleted request, one owner, timers and descriptors, `ptr_set`, the timer queue's protocol |
| http_server_live | 2 connections, 1 worker, clock to 1, timeout 0, `Prompt` | data is read or the connection closed; a connection given up is closed |
| http_server_late | 1 worker, no `Prompt` | violation: a request is used after the sweep deleted it |
| http_server_accept | 1 worker | violation: a connection stays in the backlog |
| buffer | 2 bytes kept for prepending, 2 more at first, 2 of overflow, up to 4 bytes at a time, size to 7 | the order of the indices, the assertions, no growth without need, the refinement of ByteQueue |
| request_handler | 2 requests on a connection, 2 paths, patient or hasty client | what the parser makes of each burst; the first Connection header governs; the refinement of HttpExchange; requests are answered or the connection closed |
| request_handler_close | 1 request | violation: the connection stays open after `Connection: close` |
| json_object | 4 items, 3 objects, 2 indices, one name in two spellings and another name, three documents to parse | items are linked consistently and each belongs to one object; where an object is cached, a look-up would find the item it was made for, or again none; `GetKey` enumerates the members there are; a call changes one place |
| json_value | 64-bit integers of 4 bits and 32-bit ones of 2, of which a double keeps 3 bits and a float 1, texts of up to 9 tokens of 11 kinds, 2 members, 2 names, 3 strings | the parser against the grammar; a copy is equal; what is stored comes out of each `Get` and `operator()` that can hold it, and as the nearest number out of `Get` into a double or float |

Why the bounds are enough. In timer_queue one request can have a marked node, a
live one and a freed one, and another request the node between them; the clock
passes every deadline of the first half of the run. In thread_pool the queue can
be full with both producers asleep, or with one asleep and the other on its way,
and empty with both workers asleep; four tasks fill, drain and fill it again. In
http_server one connection can be swept while it is in the batch and the other accepted at its
address in the same pass, both workers can be busy with a third event waiting
(the queue holds one), and after the keep-alive cycle of a connection its end of
file or reset makes the second round; four nodes are as many as two connections
with one burst each can have timers, so the bound on nodes stops nobody. The
clock stops at its bound, nothing else does. In buffer the first vector has to
move, to grow and to do both in one `readFd`, whose data may end in the
writable space, at its end, or beyond; in 7 bytes the cycle of growing, shrinking
and moving closes. In request_handler the second request meets what the first
left in the `HttpRequest`, and a burst may hold the end of one request and the
beginning of the next. In pool_test a further thread adds nothing that three
workers and the waiting thread cannot do to each other. In json_object four items
make an array or object with a nested one, and three objects a chain of cached
ones or two beside each other; the other spelling and the other name come with a
document that is parsed; a cached object may come to have one item of its
own, and names are traversed of an object with one member. Its states are
compared by `View`: two that differ only in the choice of addresses and object
numbers count as one, which no operation and no property can tell apart. The view
drops what a cached object was made for and refers to, since where `Coherent` holds
that is what a look-up finds; a state in which `Coherent` or `ListsLinked` fails is
never merged with another, so none is missed. In json_value the widths are small
but all borders between the types are different, a double rounds some 64-bit integers down and some up but no 32-bit
one, and a float rounds 32-bit ones too; every text goes on until it
is decided, and by one token more.

Deadlock checking is off in all runs but buffer and json_object, where some call
is always possible: the clients may stop, the tasks run out, the pool stay stopped, a text
end. That threads do not wait for each other for ever is what
the liveness properties say.

**Fairness.** TimerQueue: the thread in a sweep goes on (`WF_vars(SweepStep)`).
ThreadPool: every thread that can take a step does, including the return of a
task; calling `stop` is not fair, as nothing obliges anybody to. Weak fairness
of a thread is enough for the mutex because tasks are finitely many and waits stop
returning without a cause at some time: pthreads allow spurious wakeups, not that
nothing else happens. HttpServer:
main, each worker and the clock go on; clients owe nothing. PoolTest: main
and the workers go on, and waits stop returning without a cause here too; with
spurious wakeups for ever, weak fairness would not give a worker the latch's
mutex. The JSON modules have no liveness. RequestHandler: the callback goes on (`WF_vars(Callback)`), the
client and its timer owe nothing. These are the
threads' scheduling by the system, and the fact that a task never blocks but on
the timer queue's mutex: its sockets do not block.

## Disagreements with the code's own statements

Three runs end in a counterexample; PROJECT.json quotes the lines under
"findings". A request can be deleted by its timer while its task is queued or
before it is re-armed (http_server_late). With one accept per edge a connection
can stay in the backlog (http_server_accept). The test of `closeConnection()` has
become the body of an `if` whose own body is commented out, and `Connection:
close` does not close (request_handler_close).

The models show more of the kind, which no run is spent on:

- The 500 ms timeout of main_server.cpp:85 is not enforced while no event
  arrives, since `epoll_wait` has no timeout (`EPollWait` needs an event, and
  `BeginSweep` follows it).
- `assert(connfd >= 0)` fails when the descriptor table is full (`AcceptFails`),
  and `assert(started_)` of `Thread::join` when `pthread_create` has failed
  (`JoinAborts`): `ThreadPool::start` takes no notice.
- `headers_` is never cleared and `insert` does not overwrite (http_request.h:114),
  so the first Connection header governs all responses of a connection. That is
  `FirstHeaderGoverns`, checked as what the code does; callback.cpp:55, "handle
  all header fields", presumably means those of the request at hand.
- A response that is not written whole is not completed (`Write`), and a request
  that arrives in two bursts is answered twice, the first time about whatever
  path was set before.

Known limits of the pool that nothing in the code claims otherwise:
`stop` does not wake a producer that waits for a place, and drops queued tasks;
a pool none of whose workers could be created runs nothing and blocks `run`. The
liveness properties are stated with "unless the pool is disabled" for that reason.

Of the JSON library the models show, and no run is spent on:

- `Get` into a double takes a negative integer for one near 2^64
  (CJsonObject.cpp:829) and rounds one of more than 53 bits, into a float (795) one
  of more than 24; `AddAsFirst` stores unsigned integers as signed ones
  (CJsonObject.cpp:2707 and 2791). `ValuesKept` names all three exceptions.
- An empty object that `operator[]` made for a missing member or element goes on
  being returned after `Add` of a plain value has added it (`AddMissed`).
- `operator()` formats a double and then returns an empty string (`Shown`).
- If there is no member to replace, the new item leaks (cJSON.c:946).
- What follows a value in a text is ignored (`Parse`), and an unterminated string is
  taken as terminated.

## Proofs

Every theorem is about every value of the constants that the assumptions named
below admit; none assumes that threads, connections, tasks or nodes are finitely
many. Each follows the same plan: an inductive invariant, a lemma per action that
the action preserves it, and the property from the invariant. The invariants are
defined in the component's module (that of JsonObject, `Fine`, with its proofs).
TLC has checked them as invariants, with the constants of the runs; the runs do
not repeat that.

**TimerQueueProofs** assumes only that `NoNode` is not a node, that timeouts are
natural numbers and that the bound of the clock is one (`TimerQueueAssumption`).
`IInv` is `TypeOK`, `OwnTimer` and `LiveReachable` together; the last two need
each other, since marking through a pointer to another request's node would
break the second and overwriting the pointer to a node that counts would make
it unreachable. From `IInv`:

- `TypeCorrect`, `NoStrangersTimer`, `Reachability`: its three parts.
- `Refinement`: every step is a step of Deadlines or leaves it alone. `add_timer`
  arms because the request had no node that counts; `del_timer` disarms because
  the only node of the request that counts is the one its pointer reaches; an
  expired node is the earliest deadline because it is the top of the heap and
  marked nodes do not matter.

**HttpServerProofs** assumes what `HttpServerAssumption` says (`Listener` and `NoTask`
are no connections, `NoNode` no node, the bounds natural numbers) and, in the
statement of each theorem, `Prompt`. `http_server_late` shows that without
`Prompt` they are false. `ServerInv` holds only as a whole:

- `Places`: a living request is in exactly one of epoll, batch, queue and hands,
  and what is in epoll, the queue and the hands is alive. `Pointers`: the address
  of what is in the batch is in `ptr_set` exactly if its request was deleted. The
  two give `NoUseAfterDelete`, `Ownership` and `SkippedEvents`.
- `Unexpired`: no timer of a connection in the queue, in a worker's hands or,
  outside a sweep, in the batch has passed. A sweep establishes that by ending,
  `Prompt` keeps it, and it is why the next sweep deletes nothing that is being
  handled.
- `TimedUnlessHandled` (`Timers`): the sweep finds a living request behind every
  node that counts. It needs `IInv` of the timer queue, for `del_timer` to mark
  the node it should; and `IInv` is kept because the server gives no request a
  second timer, which is `TimedUnlessHandled` again. Each lemma therefore also
  says which step of TimerQueue its action is, and `IInv` comes from
  TimerQueueProofs by an instance of it (`TQP`). As a consequence the server keeps
  the protocol that TimerQueue demands of its callers (`KeepsTimerProtocol`), and
  its timers implement Deadlines (`KeepsDeadlines`).
- `FdOwned` (`Descriptors`) and `Accepted`: a connection that was accepted is
  closed once, by whoever deletes its request.

**ThreadPoolProofs** assumes that the threads are distinct and `NoThread` and
`NoTask` are none of the threads and tasks (`ThreadPoolAssumption`). `PoolInv`
adds to the invariants the run checks `Bounded`, `MutexInv` (a thread is in a critical section
exactly when it owns the mutex) and `TaskInv` (a thread about to push has a
task). One lemma per operation shows that it preserves `PoolInv`; all of them
begin with the fact that a step moves one thread and otherwise only wakes some.
From it: `TypeCorrect`, `AssertionsHold`, `QueueBounded`, `NoLostWakeup` (for
workers), `NobodySleepsThroughStop` and `Refinement` of TaskQueue. `NoSleeper`
is what makes `NoLostWakeup` inductive: a worker that leaves its loop while a
task is queued would break it, were others asleep. Two theorems count:

- `EveryTaskOnce`: `OnePlace` adds cardinalities, which cannot be followed from step
  to step as they are. `Whereabouts` says instead that each of the three sets a task
  can be in (on its way to the queue, queued, taken) has at most one element and
  that exactly one is inhabited, or the task is unused, or done.
- `NoLostPlace`: that a producer sleeps only while the queue is full or another one
  is awake is not inductive. Two pops may wake two producers, one of which
  fills one place; then the other has to be there for the second. `ProducerInv`: while any
  sleeps, there are at least as many awake as there are free places.

**PoolTestProofs** extends ThreadPoolProofs, since the test is a client of the
pool, and takes an instance of MonitorProofs for the latch's mutex; it adds to
their assumptions that the producer is the main thread of the test, that one
task counts the latch down, and that there is a worker (`PoolTestAssumption`).
`stop` drops what is queued, so that all tasks run rests on the order of the
queue: the task that counts down is submitted last (`LastInQueue`), so that when
`wait` has returned everything has been taken (`Counted`), and what is taken has
returned when the workers are joined. `InOrder` has what the main thread has done
by each of its labels, `LatchOut` that a thread outside the latch is outside its
mutex. From `TestInv`: `EveryTaskRuns`, `NobodyInLatch`, `LatchMutex`.

**MonitorProofs** assumes, in the statement of each theorem, that `None` is no thread.
`MonitorInv` says exactly where a
thread is when it has the mutex and when it is marked; it is inductive as it
stands, and gives `LockAssertions` and `HandedOver`. They are about threads that
lock, wait and unlock in any order; `LatchMutex` carries the first over to the
threads of the latch.

**RequestHandlerProofs** assumes that `NoPath` is no path, that clients are patient or
hasty, and that the bound on requests is a number (`RequestHandlerAssumption`).
`ParseInv` says where the parser is: at the beginning of a line, with nothing
but headers between it and the request line, from which one step of the parser
takes exactly the next line and `ParsedRight` follows (`ParsedRightAlways`).
`PatientInv` says, for a client that awaits its response, what of its request is
still on the way and which Connection header the `HttpRequest` has by then: until
the header is parsed, that of the requests before. It gives `FirstHeader`, and
`Refinement` of HttpExchange: when the response is written, the path the
`HttpRequest` has is that of the request the client waits for. `CallInv` is what is new in each call.

**BufferProofs** assumes the types of the constants (`BufferAssumption`), no relation
between them. `IndicesOrdered` adds to the order of the indices that the vector
is never smaller than `kCheapPrepend`: without it the order is not inductive,
since `retrieveAll` sets both indices to `kCheapPrepend` without a look at the
size. One lemma per method says what it does to indices and contents; `makeSpace`
moves only if the reader is beyond `kCheapPrepend` (`AssertionsHold`), as
otherwise what is writable would have been enough. `Refinement` follows from
those lemmas action by action. `GrowthNeeded` is an action property: `append` and
`readFd` enlarge the vector only for bytes that would not have fitted.

**JsonObjectProofs** assumes that no item is at the null pointer, that indices are
not negative, that of the spellings of a name `[]`, `Delete` and `Replace` are called
with one, and that the program's texts are well formed (`JsonObjectAssumption`);
heap and objects are bounded by constants of any size. Its three parts follow the
three modules.

- *Links.* Theorems about the operators JsonObject's actions are made of, applied to
  any heap: each turns a `Forest` into a `Forest`, and says which item becomes a root
  or ceases to be one (`NewItemForest`, `DeleteForest`, `SuffixForest`,
  `AddHeadForest`, `DetachForest`, `ReplaceForest`). They ask of the caller that what
  is inserted is a root and not the tree it is inserted in, that what is detached
  or replaced is a member, and that `suffix_object` is called with the last one.
  `OneTree` says what a forest is good for: `cJSON_Delete` of one root frees nothing of
  another, and of all of them everything. The argument is about referrers. In a
  linked heap an item has at most one, by `next` or by `child`, and a root has none,
  so what is outside the tree of a root does not refer into it (`OutsideClosed`);
  inserting and detaching then change one reference from outside.
- *Lists.* What each operation does to the order of the members of one item
  (`CutOnward`, `InsertedOnward`), that it leaves all other lists, and so what a
  look-up by index or name finds afterwards (`AppendFound`, `DetachFound`,
  `ReplacedFound`); that a text is well formed and what `cJSON_Parse` makes of it one
  new tree (`TextOfWellFormed`, `ParsedList`).
- *Objects.* `ObjectsListsLinked`, `ObjectsCoherent` and `ObjectsKeysFresh` say that
  the three invariants of json_object hold in every state. None is inductive alone.
  An object refers to an item of the object it is cached in, so what its reference
  means depends on the lists; deleting an object frees the items it owns, so the
  lists are right only if no item has two owners and if the objects to be deleted
  are those cached below, a tree (`CacheTree`); and a list of names stays fresh
  only because no two objects have or refer to the same item (`FocusOnce`). `Fine` joins
  them. Within an operation it does not hold: `Delete` edits the list and drops the
  cached objects afterwards, so that for a while they refer to freed items; `Add`
  makes an item nobody owns yet. `Fine` therefore has three parameters for what is
  not right in between: roots that no object has, objects about to be deleted,
  which may refer to anything, and objects whose names are about to be cleared.
  There is a lemma for each operator that CJsonObject's operations are composed of,
  from one such `Fine` to another, a lemma per action that composes them, and `IInv`
  is `Fine` with nothing pending.

The three theorems assume `~ShiftCached`. One action needs it, `PrependPlain`:
`AddAsFirst` of a plain value shifts the elements and drops nothing that is cached
(CJsonObject.cpp:2596); without it `Coherent` is false, as TLC shows.
`ObjectsCoherent` assumes `~AddMissed` too: `AddObject`, `AddPlain` and `AppendPlain` need it
for objects made for nothing. The other two theorems hold without it, so `Fine` asks
that an object made for nothing be up to date only under that assumption.

`Reach`, `Onward` and the objects nested in one are least sets and not recursive, and
positions are sizes of sets, so that none of this needs induction over data.

Only model-checked, and why:

- What depends on fairness is outside what TLAPS proves: sweeps end, tasks run,
  producers proceed, `stop` returns, the test ends, data is read, hang-ups are
  closed, requests are answered.
- JsonValue (`ParseExact`, `CopyEqual`, `ValuesKept`) and `OneEdit`. Texts, grammar and
  the value of an item with members are recursive, and what a recursive definition
  computes for every input needs induction over data.

Types are part of the invariants, and no run repeats them.

## Plan

1. Done: the timer queue, the thread pool and the server with their abstractions;
   Buffer, RequestHandler, Monitor, CountDownLatch and PoolTest; JsonLinks,
   JsonTree, JsonObject and JsonValue; the runs above.
2. Done: every invariant of these runs, but those of JsonValue, as a
   theorem; the refinements of Deadlines, also by HttpServer, of TaskQueue,
   ByteQueue and HttpExchange; the action properties of Monitor, Buffer and the
   timer protocol; the operations on the links between JSON items, and what
   CJsonObject makes of them.
3. Left: of HttpServer, that its queue of tasks is TaskQueue with the server's own
   tasks, as ThreadPool's refinement is stated for a fixed set of them.

## Not modelled

- The configuration: `read_conf` is straight-line code over CJsonObject. It ignores
  what `Get` returns, so a setting that is missing stays uninitialised.
- main_server2.cpp, the single-threaded predecessor of main_server. It uses the
  same parts one after the other in one thread; the order of steps that is hard
  in main_server cannot occur, and what differs (it never re-arms a connection
  after a response, and does not consult `ptr_set` after a sweep) is not used
  any more.
- The demonstration programs (no state beyond their run), `atomic.h` (single
  instructions), `detach` of threads (no program drops an unjoined one).
- The address and option wrappers of the socket classes and the EINTR loops of
  `sockets::read` and `write`, which no program calls.
- Of cJSON what CJsonObject does not call: references, `Duplicate`, `Minify`, the
  `Create...Array` functions, the allocation hooks; and the failure of malloc.
- The contents of files, headers and bodies, and the time things take but for
  `Prompt`.
