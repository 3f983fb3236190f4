# A verification project for alib-c

alib-c is a C library: containers, time and timers, threads that serve sockets,
process and signal helpers, strings, files.  This directory holds TLA+ modules
for the parts of it that keep state which can go wrong, TLC configurations that
check them on small instances, and TLAPS proofs for every instance.

`tlc -config X.cfg M` runs a configuration, `tlapm M.tla` checks the proofs of a
module.  `PROJECT.json` lists components, runs, the map from definitions to
source lines, the findings, the hazards and the theorems.

## 1. Inventory

State, operations, interactions and what makes each component correct.  Paths
are below `src/source`.

### Containers

| component | state | operations | must hold |
|---|---|---|---|
| `RBuff` | a fixed allocation, `itBegin`, `itEnd`, `count`, flags | push, pop, copy, commit (`RBuff_increment_it`), init, reset | pointers stay in the allocation; bytes leave in the order they came, through every wrap |
| `RBuffIt` | one pointer into an `RBuff` | next, prev, reset, index | stays in the allocation while the buffer changes; a walk meets each byte once |
| `ArrayList` | array of owned pointers with holes, `capacity`, `count`, `max_cap` | add, remove (with and without free), resize, expand, shrink, sift, sort, clear, extract, look-ups, and the same under a mutex (`_tsafe`) | count = number of items; nothing freed twice or lost; loops that are bounded by `count` only end inside the array |
| `MemPool` | an `ArrayList` of blocks, `reserved_count`, a mark in each block | reserve (expanding), unreserve | a block has one holder; failures leave the books balanced |
| `DList`, `DListItem`, `ListItem`, `ListItemVal` | doubly linked items with reference counted values, `begin`, `end`, `count` | push, insert, move, pull out, remove, mark and sweep, take references | links agree in both directions and with count and edges; callers see a sequence; a value lives while it is held |
| `ListHistory` | a singly linked list of at most `max` items | push, pop, remove, move | one chain with the oldest item first, never longer than the limit |
| `BinaryBuffer`, `ComDataCheck` | growable bytes; a framed message | append, insert, remove, drain, replace; compose, send, receive | length <= capacity and the promised bytes; a message is found wherever the stream is cut |
| `String`, `StringObject`, `StrRef`, `StrParser`, `alib_string`, `alib_types` | characters, length, capacity | append, insert, remove, replace, copy, search, compare, trim | the terminator is inside the allocation and behind the promised text |

### Time

| component | state | operations | must hold |
|---|---|---|---|
| `alib_time`, `Timer` | `timespec` values, start and end of a run | normalise, add, compare, begin, read | a timer rings exactly at its end |
| `TimerEvent`, `TimerEventHandler` | sorted list of events, a worker thread, `flag_pole`, mutex and condition | add, remove, extract, start, stop, ring | events ring in order, none lost; stop ends the thread |
| `ThreadedTimerEvent` | one event with a thread | start, stop, stop_async, wait, free | one thread; stop returns; a due event rings |

### Net

| component | state | operations | must hold |
|---|---|---|---|
| `ClientListener` | client list, epoll instance, `flag_pole`, a worker thread, mutex and condition | add, remove, start, start_async, stop, stop_when_empty | one worker, joined once; every client is watched; calls return; wake-ups are not lost |
| `TcpServer` | a listening socket, a client list, an epoll package per thread, `flag_pole` | start_async, stop, wait, delete, callbacks with verdicts | every descriptor has one owner; a stop ends the thread; a deleted server is freed |
| `FdServer` | the same over an `AF_UNIX` socket that carries descriptors | run_on_thread, stop, stop_with_join, delete | a client is listed while it is open; a stop ends the loop |
| `EventServer` | a libevent loop, a package per client | start, stop, delete, setters, callbacks | a client's data is freed once and never used afterwards |
| `TcpClient`, `FdClient` | a socket and a receiving thread | connect, send, read_start, read_stop, disconnect, delete | one reader; no socket lost or closed twice; stops return |
| `UvTcpServer`, `UvTcpClient`, `UvTcp` | libuv handles, a client list, a pool of blocks | start, stop, connect, write, disconnect | listed means open; a stop ends the loop |
| `EpollPack`, `server_structs` | a descriptor and an event array; a socket with data | part of the servers | - |
| `tcp_functions`, `alib_sockets`, `ancillary`, `CurlObject` | none, or a descriptor | system and library call wrappers | - |

### Processes and the rest

`proc_waiter` (a thread that waits for registered child processes),
`signal_handler` (callbacks per signal), `ErrorLogger` (a log file shared by
threads, with a lock that times out), `MutexObject` (a mutex with a list of
requests), and helpers for files, directories, `/proc`, zip archives, endianess
and types.

### How components interact

* `MemPool`, the servers, `ClientListener`, `proc_waiter` and `signal_handler`
  keep their members in an `ArrayList` and rely on its counts; the servers hand
  sockets to it by its `_tsafe` functions, whose mutex is not the owner's mutex.
* `TimerEventHandler` keeps its events in a `DList`, `String` is a
  `BinaryBuffer`, `ComDataCheck` holds two, `UvTcpServer` takes its read buffers
  from a `MemPool`, and the timers are built on `Timer` and `alib_time`.
* Worker threads call the user's callbacks, some with the object's mutex held.  A
  callback answers with a verdict (keep, close, stop the object) or calls the
  object's own stop, disconnect or delete.
* Threads tell each other what to do through `flag_pole`, an integer changed by
  `flag_raise` and `flag_lower` (`includes/flags.h`), which are neither atomic
  nor locked.

### What is hard here

Unlocked read-modify-writes of the flag word by two threads; a start, stop or
restart that meets a worker in the middle of starting or ending; a broadcast made
without the mutex of the waiter; batches of epoll events whose sockets are closed
before they are looked at; objects deleted by their own callbacks; a signal in
the middle of a registration; a mutex that is given up after a time; loops that
trust a count; pointers that may rest on the end of a buffer; allocation failures
half way through an expansion.  `PROJECT.json` lists each of these under
"hazards" at its line.

## 2. Plan

The order is by how much other code depends on the component and how hard it is
to test.  Components that do not interact share a run: the number of runs is
kept small, one question each.

1. `BoundedFifo`, `RBuff`, `RBuffIt`; `RBuff_proof` (both) - done.
2. `ArrayList`, `MemPool`, which instantiates it, `DList` with `SeqList`,
   `ListHistory`; `MCContainers_proof` (array list, pool, history),
   `DList_proof` - done.
3. `ClientListener`; `ClientListener_proof` - done.
4. `TimerEventHandler` with `TimerEvent`, `ThreadedTimerEvent`, `TimeSpec`;
   `TimerEventHandler_proof` - done.
5. `TcpServer`, `FdServer`, `EventServer`; `TcpClient`, `FdClient`;
   `UvTcpServer`, `UvTcpClient`; `MCServers_proof`, `MCThreads_proof` - done.
6. `ProcWaiter`, `SignalHandler`, `ErrorLogger` - done.
7. `BinaryBuffer`, `String`, `StringObject`, `ComDataCheck`, `TextFunctions`;
   `MCData_proof` (framing, timers, text functions and buffers) - done.
8. Left: `ClientListener_start`, `TcpServer_start` and `FdServer_run` on the
   caller's thread; several controlling threads at once.

A component that is only explored through a composition is proved about there:
the theorems then hold for the very specification its run explores.  Left to
prove: the contents of strings and the first half of `LogIsWhole` of `ErrorLogger`.

## 3. Modules

### Containers

**`BoundedFifo`** is what a rotational buffer promises: a queue of at most `Size`
bytes; a push drops the oldest bytes or, with `rbuffNoOverwrite`, stores what
fits.

**`RBuff`** models `RBuff.c`.  Pointers are offsets from `buff`.  Every public
function is an action; `CopyIn` and `Copied` are the two-part `memcpy`s,
`IncrementIt` is `_incrementIt` with its `% Size` for large distances.  `ret`
records the last call (return value and the bytes given or handed back), so that
the refinement has to get the data right and not only the amounts.  A byte
buffer may be initialised again at any time, which sets the overwrite mode.
The values `NULL` and 0 that the functions reject at once are not enumerated.

**`RBuffIt`** extends `RBuff` with an iterator that does not learn of changes to
its buffer.  `walk` is a history variable: the bytes delivered since the last
reset, while the buffer has not changed.

**`ArrayList`** models `ArrayList.c`.  `list` is the allocation, so its length is
what was really allocated, and `capacity` is a variable of its own.  The loops
that only `count` bounds (`ResizeCopy`, `ResizeCut`, `ClearStep`, `SiftStep`) take
one step per iteration, and an access outside of `list` sets `fault`.  `owner`
says who has to free an item.  Calls do not overlap: each `_tsafe` function holds
the mutex around one whole call (`ArrayList_shrink_tsafe` reads `count` before it
locks; with calls that do not overlap that is the same).  `Next` has the callers
that respect the maximum they gave, `AnySpec` those who resize beyond it.
Allocation failures of `ArrayList` itself are not modelled (the code does not test
for them).

**`MemPool`** models `MemPool.c` over the array operations of `ArrayList`
(`INSTANCE`).  Allocation may fail after any number of blocks.  `locked` is the
array mutex, which the error path leaves locked; a caller that then waits for it
is "stuck", and one that dereferences an empty slot is at "fault".
**`Capacities`** holds what both modules assume of the sizes callers give.

**`DList`** models `DList.c`, `DListItem.c`, `ListItem.c` and `ListItemVal.c`: a
memory of items with `next`, `prev` and parent, mapped by each function to the
next memory, so that functions compose as calls do.  **`SeqList`** is what
callers are promised, a sequence that blocks enter, leave and move in.

**`ListHistory`** models `ListHistory.c` and `ListHistoryItem.c` in the build
without a mutex.  Its history variable `given` holds the pairs of items of which
the first came in earlier.

**`CountedWalk`** is the loop of `proc_waiter.c` and `signal_handler.c` over the
slots of an `ArrayList` that ends after as many items as the list holds.

### Threads and sockets

**`ClientListener`** models `ClientListener.c`: the worker (`threaded_run`,
`listen_loop`) and one controlling thread that makes the public calls.  Each load
and each store of `flag_pole` is a step of its own, as are the test and the wait
of each `pthread_cond_wait` loop and the making and the answer of `epoll_wait`.
`batch` is the array of reported events from the one being handled on; `first` is
the first of them.  Data of packets is left out; a callback is its verdict.
A call on the client list is one step (the list has its own mutex).
Closed descriptors are not reused.

**`TimerEventHandler`** models `TimerEventHandler.c` with the parts of
`TimerEvent.c` and `Timer.c` it uses: the worker (`timer_loop`) and one
controlling thread.  `due` is an end time minus the current time, so the state
stays finite while `Tick` goes on; a timer that was never begun has an end time
of zero, which is as long ago as the bound `Late`.  `until` is the timeout of
`pthread_cond_timedwait`, fixed when the worker falls asleep.  A callback runs
with the mutex held and may free one event, its own included.  Every `_tsafe`
call holds the mutex throughout and is one step.  Loads and stores of
`flag_pole` are steps of their own where the other thread can run.
A write through a null link or handler sets `crashed`, and the behaviour ends.
`MCTimerEventHandler` gives two events a run time of 2 and one of 3.

**`ThreadedTimerEvent`** models `ThreadedTimerEvent.c`: timer threads, a thread
that starts, stops and frees, and one that waits.  Every update of the flags is a
load and a store, between which the other threads run.  `due` says that the timer
has run out; the callback may stop its own event, whose `pthread_join` of itself
returns `EDEADLK` at once.

**`TcpServer`** and **`FdServer`** model a controlling thread and the listening
thread of each server, with loads and stores of `flag_pole` as steps of their
own, batches of epoll events, and a choice of every verdict in every callback.
In `TcpServer` the registration and the listing of a client may fail if `mayFail`,
which is chosen at the start: the descriptor that is dropped then is in `lost`.
One a callback took is in `theirs`, and `freed` says that the object is gone.
`Next` has callers that start a server when its thread was told to stop or has
returned, `AnySpec` those who start it whenever they like.  In `FdServer` a
descriptor is the client's number, which is used again by the next client once it
is closed, so that `CloseUnknown` closes whoever has it; a package that is used
after it was freed sets `crashed`, and the behaviour ends.

**`EventServer`** models the callbacks that libevent makes one at a time; a
callback of the user answers with a set of requests, and setters may exchange the
callbacks between any two.  `proc` says what the package of a client would free
its data with.

**`TcpClient`** and **`FdClient`** model the controlling thread, the threads it
creates for reading, and a host that sends and hangs up at any time.  Socket
numbers are used again after a close.  Every update of the flags is a load and a
store, and the test, the close and the forgetting of a socket in
`TcpClient_disconnect` are three steps: the reader and the caller may be anywhere
in both at once, and `raced` notes that two found the same socket open.  `AnySpec`
adds the callbacks that answer `SCB_RVAL_DELETE`.

**`UvTcpServer`** and **`UvTcpClient`** take one step per callback of libuv,
which is modelled by the callbacks it makes.  `AnySpec` of `UvTcpServer` adds the
connection callback that turns its client away (`RejectClient`).

**`ProcWaiter`** models `proc_waiter.c`: the waiter thread with its cancellation
points, a thread that forks, registers, starts and stops, and children that exit.

**`SignalHandler`** models `signal_handler.c`: a registration and a
deregistration in the steps between which a signal finds the lists in different
states, and `signal_handler_proc` as one step.

**`ErrorLogger`** models `ErrorLogger.c`: threads that poll the mutex and give
up, hold it while they write, truncate or change the path, and a disk of files
that are sequences of entries.

### Data

**`BinaryBuffer`**, **`String`** (which extends it) and **`StringObject`** keep
the allocated memory and, as a history, the bytes or the text their calls
promise.  **`ComDataCheck`** is a sender and a receiver on a stream that is cut
anywhere; a send may be short or fail, after which the sender gives the connection
up (`broken`).  **`TextFunctions`** makes one call per behaviour, of every function
and for every small memory, next to what its comment asks for; a call for which
the code is known to do otherwise is marked `odd`.  What is asked for is written
down without the functions themselves (`IsNumber`, `IsDecimal`, `IsTruth`,
`LastPlace`).  **`TimeSpec`** begins a timer, reads it and begins it again, with
the field arithmetic of `alib_time.c`, next to whole nanoseconds.  Every reading
of the clock is one of its own: the two of a ring, `Check` and `Restart`, are two
steps between which the clock goes on, and the two clocks of
`Timer_get_end_time_real_time` are two arguments.

### Composition

`MCContainers`, `MCThreads`, `MCServers` and `MCData` put components that do not
call each other into one run.  `part` picks, in the initial state, the component
a behaviour is about; the others keep their initial state, so the state space is
the sum of the components' and not their product.  Their properties are the
components', by `INSTANCE`.

## 4. Runs

| run | instance | shows |
|---|---|---|
| `rbuff` | 3 bytes of 2 values, calls of up to 4 bytes, both modes, any call of the buffer between any two steps of the iterator | the buffer implements `BoundedFifo`; count and pointers agree; the iterator's targets can be dereferenced, a walk is in order and complete unless `itEnd` rests on `buffEnd` |
| `containers` | lists of 5 items with a capacity of up to 4; a pool from 1 to 8 with failures anywhere; 4 linked items, one of them shared; a history of 3 | no overrun, ownership, look-ups, order, books, links, indices, and that `DList` implements `SeqList` |
| `listener_calls` | 2 clients, all calls and verdicts | one worker, joined once, no forgotten client, all calls return, no lost wake-up |
| `timer_calls` | 3 events with run times 2, 2 and 3, up to 2 units late | every event rings again and again, the worker never sleeps past an end time, freed events are gone, a stop returns if there are events |
| `servers` | `TcpServer` with 1 client, `FdServer` and `EventServer` with 2 | descriptors have one owner unless their registration or listing failed, data is freed once, stops end the threads, deleted servers are freed |
| `threads` | 1 child, 2 helper threads, 2 sockets, 3 libuv clients with 2 writes, 2 signals with 2 callbacks | one thread each and no open socket but the one held although flag updates and disconnects overlap, stops return unless `THREAD_STOP` was overwritten, children are reaped, timers ring, signals call what is registered |
| `data` | buffers of 4 and strings of 5 bytes, 3 messages of up to 2 bytes with headers of 4, memories of 5 characters, 4 nanoseconds to the second, 2 logging threads on 2 files of 4 bytes | contents, framing with short sends, text functions, rings that drift by the gap of two clock readings only, whole log files |
| `listener_impatient_stop` | violation | a stop right after a start is lost and its join never returns |
| `timer_placed_back` | violation | an event that rang is put in front of the first one through a null link |
| `threaded_wait` | violation | who waits for a threaded event is never woken |
| `threaded_stop` | violation | the timer thread's flag update overwrites `THREAD_STOP`, and the join never returns |
| `fdserver_wrong_client` | violation | the hang-up of one client closes another |

`PROJECT.json` quotes under "findings" the comment that the code contradicts in
each violation run.  Section 6 lists the other disagreements.

### Why the bounds are enough

A buffer of 3 bytes has every relative position of the two pointers, including
the end pointer on `buffEnd`, and calls of 4 bytes are longer than the buffer;
`RBuff_proof` covers the other sizes, and commits past the free room, which the
run leaves out because the buffer is no queue then.  Five items against a capacity of 4 make a
list full, refused, doubled with and without the clamp, and with holes at the
front, in the middle and at the end.  A pool that grows 1, 2, 4, 8 fails in each
expansion after each number of blocks.  Four linked items have an edge, two
middle places and a block of two to move past another.  A history of 3 with 4
items overflows.

Two clients are what a batch needs for its first event not to be the one handled;
a client is added once, so a run has two additions and any number of starts and
stops.  `TcpServer` looks at one client at a time and takes the descriptor from
the event itself, so one client and the listening socket make its batches; with
two its run does not end in reasonable time (with one the `servers` run has 890,000
states and takes three and a half minutes).  Two helper threads are an old one
on its way out and a new one.

Three events make one overtake another and be inserted at the front, in the
middle and at the end, two of the same run time take turns at the front, and two
units of lateness make an event ring twice before it has caught up.

A header of 4 bytes and three messages put every cut of the stream in a header,
at its edge and in the data, with whole messages in front of it.  Two threads and
files of 4 bytes with entries of 1 and 2 make a truncation meet a thread that
waits, times out or changes the path; `MaxTries` is how often a thread polls
before its time is over and `MaxLog` how many entries are written.

### Fairness

`ArrayList`: a call that has started goes on (`WF` on the loops).
`ClientListener`, `TcpServer`, `FdServer`, `FdClient`: weak fairness on the steps
of each thread, because the kernel runs a thread that can run.  Nothing makes the
caller call, clients send or callbacks give a particular verdict.  `epoll_wait`
returns after its timeout at the latest, so it counts as a step the worker can
take.  Spurious wake-ups are left out: with them the wake-up properties would be
weaker.
`TimerEventHandler`: the same, and strong fairness on `Tick`.  Time always goes
on; `Tick` is only disabled where the bound on lateness holds it back, and a
caller that adds and extracts events must not keep it there.
`ProcWaiter`, `ThreadedTimerEvent`, `TcpClient` and `ErrorLogger` have threads
that take a mutex again and again: strong fairness on each thread's steps says
that a thread that waits for a mutex is not overtaken for ever.  The timed waits
of `ThreadedTimerEvent` end because time goes on (`WF` on `Tick`), a `recv` with
a timeout returns, and a polling log call gives up after `MaxTries`.
`UvTcpServer` and `UvTcpClient`: libuv makes the callbacks it owes.

In `MCThreads` one fairness condition stands for one of each component, as a
disjunction: only the component that `part` names can move, so in a behaviour
the disjunction asks for exactly that component's own condition.

Deadlock is not checked where the system may really stop: a pool that faulted, a
listener whose clients are used up, a handler whose stop was lost, an object that
was freed, a text function that has returned.

### Patient, impatient and careful callers

The interfaces of `ClientListener`, `TimerEventHandler`, `ThreadedTimerEvent` and
the clients have no way to learn that a started thread has reached its loop.
`Patient` says that the caller leaves it that time; the passing runs assume it.
It only restricts when calls are made: once a call is under way, its loads and
stores of the flags, and its disconnect, interleave with the thread's in every
way.  In `ThreadedTimerEvent` and `TcpClient` an update that overwrites another
is therefore part of the passing run.  What it does there: it may undo the
`THREAD_STOP` of `ThreadedTimerEvent_stop`, whose join then waits for ever, so
`StopsReturn` excuses a join whose flag was overwritten (`StopLost`) and
`threaded_stop` shows it.  A patient caller of `ThreadedTimerEvent` also makes no
start while the callback runs, and one of `TcpClient` deletes it when no reader
is left.
Of the runs of the listener, `listener_calls` assumes it,
`listener_impatient_stop` does not, and the theorems hold for both.

`Careful` says that callers avoid the calls listed in section 6 whose outcome is
undefined or wrong whatever happens around them; the modules name them in
definitions called `Safe...` or in the guards that mention `Careful`.  A careful
caller is what makes the remaining properties say something: each careless call
is one line of section 6, and the runs check everything that can follow the
others.

## 5. Proofs

Every theorem holds for all values of the constants that satisfy the named
assumptions of the modules: a capacity is a natural number (`CapAssumption`,
`PoolAssumption`), so are the numbers of items and the limit of a history
(`ChainAssumption`, `HistoryAssumption`), modes are Booleans, names of threads and
marks are different from each other (`NamesAssumption`), a header has a byte
(`StreamAssumption`), a second a nanosecond (`TimeAssumption`), the memory of the
text functions and a word a byte (`TextAssumption`), and the bound of a buffer's
length is not 0 (`BufferAssumption`).  What a theorem asks for beyond that is its
own `ASSUME`: `Patient` and `Careful` are explained in section 4.

### `RBuff_proof`

* `MemorySafe`: `Spec => []TypeOK` - no call sequence, commits past the room
  included, moves a pointer out of the allocation.  `TypeOK` is inductive as it
  stands; the work is in the lemmas on `_incrementIt`, the two-part copies and the
  amounts a push stores and displaces.
* `CountIsDistance`: with commits inside the room, `count` is the distance from
  `itBegin` to `itEnd` around the ring.  `CountInv` adds `TypeOK`; positions are
  compared without the remainder (`Wrapped`), because no move goes round more than
  once, which is the fact `RingPosition` states.
* `RBuffIsFifo`: `SpecInRoom => ImplementsFifo`, the refinement.  `Ring` gives the
  n-th byte of the contents without a case for the wrap; `CopiedIsRing` and
  `ContentsIsRing` show that the two `memcpy`s of a read are that, `CopyInWrites`
  and `PushLeaves` what the two of a write leave behind.  With these each call
  maps to the step of `BoundedFifo` of the same name or to a stutter
  (`StepsImplement`).  It asks for `MaxCall >= 1`, without which the queue has no
  call to take.
* `IteratorWalksInOrder`: `ItSpec => WalkInOrder`, for an iterator whose buffer
  goes on changing.  The invariant `ItInv` says that an iterator which has
  delivered `walk` bytes of an unchanged buffer stands `walk - 1` places behind
  `itBegin`, around the ring, and that there were as many (`OnItem`);
  `WalkablePlaces` shows that this place is `itEnd` only after the last byte, in a
  full buffer as well, where the addresses of both ends are the same.  A buffer
  whose `itEnd` rests on `buffEnd` is left out: there the walk does not end
  (`WalkEnds`, section 6).

### `MCContainers_proof`

*The array list*, for `SafetySpec`, which is `Spec` without fairness and has
callers that respect the maximum;
`ListInvariant` is the inductive invariant `AInv = Owned /\ Looping`.  `Owned` says
that an item lies in one slot, that `count` counts the slots in use and that the
items in them are the ones the list owns.  The loops of the code end at `count` and
not at the end of the array, so `Looping` says for each loop which items lie behind
it and that as many as it still looks for are ahead: that they are met before the
array ends is what `StaysInArray` (`NoOverrun`) needs.  `OwnershipExact` and
`LookupsFindTheSame` follow from `Owned`, `LoopsLoseNothing` (an action property
about each turn of the shrinking and the sifting loop) from both.
`ListOfContainers` carries the four over to the composition.

*The pool*: `PoolBooks` and `PoolRefusals`.  `PoolInv` adds to the books that a
failed allocation - which leaves the pool's mutex locked - leaves an empty slot as
well, so that a pool without empty slots has met no failure.  `PoolRefusals` asks
for `StartCap # 0`: a capacity of 0 cannot be doubled, and such a pool refuses
everything.

*The history*, with careful callers: `HistoryStaysInOrder`, `ContainersSpec =>
[]HistoryInOrder`.  The invariant `HistoryInv` names the chain `c`, a sequence
without repetitions that the links spell out (`Strung`: nothing outside of it has a
link), that the record describes (`Keeps`) and whose order is the order of arrival
(`Ranked`).  Each call is shown to turn `c` into `c` without one place (`Lacking`),
with one item more, or both: a rotation is a loss at the front and an arrival at
the end.  `ReachIs` shows that the walk `Reach` of the module spells out `c`; the
walk visits each item at most once because there are no more places than items
(`NoMoreThanKeep`).

### `DList_proof`, with careful callers

`ChainInvariant` is the inductive invariant `ChainInv`.  The items that live are
divided into chains - the list and the blocks callers hold outside of it - each of
them linked in both directions, no item in two; `begin`, `end` and `count` describe
the chain that is the list, whose items alone have it as parent; and a value is
referred to as often as items and callers hold it.

* `ListStaysLinked`: `ContainersSpec => []WellLinked`, and `ValuesLiveWhileHeld`:
  `[]HeldValuesLive`, follow from it.
* `CallsActAtIndex`: `[]ActsAtIndex`, because the walk from either end by a
  relative index comes to the place of the chain it should.
* `ListIsSequence`: `ContainersSpec => ImplementsSeq`.  What a call does to the
  links is first said of the chains - a block enters (`Enters`), leaves (`Exits`),
  is moved (`Shifted`), the marked items go (`KeptOf`) - and these are the steps
  `Insert`, `Leave`, `Move` and `Sweep` of `SeqList`; a block that is moved onto
  its own place, and a call on a block outside of the list, are stutters.

Loops along the links (counting, searching the ends, freeing a chain, sweeping) are
recursive functions over the number of steps.  What such a walk computes is proved
without an induction theorem: the set of steps at which the claim fails would have
a least member, and the walk comes to it from a step at which the claim holds.

### `ClientListener_proof`

* `AtMostOneWorker`: `Spec => []OneWorker`, `JoinedOnce`: `Spec =>
  []JoinsAThread`, for patient and impatient callers.  Neither is inductive: both
  follow from `THREAD_CREATED`, which lives in a word that the worker rewrites
  from a stale copy.  `ThreadInv` says at which points of the controlling thread
  the flag and the existence of a thread agree, and that no copy in flight differs
  from the word in that flag (`NoLostCreated`).  The latter holds because the
  controlling thread changes the flag only while no worker exists.
* `EveryClientWatched`: with a patient caller, `Spec => []NoClientForgotten`.
  `ListenInv` adds to `ThreadInv` that the caller raises and lowers flags while
  the worker is not between its load and store (`StartsAlone`), that a worker in
  its loop has `THREAD_IS_RUNNING` up (`RunningIsUp`), and where the epoll is open
  and with whom (`OpenAreWatched`).

### `TimerEventHandler_proof`

* `FreedEventsAreOff`: `Spec => []NoFreedListed`, from `HInv`: an event is on the
  list once, and the worker, who gives up the mutex for a callback, holds an event
  that is off the list or in front of it.
* `WakesInTime`: with a patient caller, `Spec => []NeverOversleeps`.  The worker
  sleeps until the end of the first event, so the list has to be in the order of
  end times (`InOrder`) - which `add_event` keeps only when it sees
  `THREAD_RUNNING`, so `Runs` says that the flag is up while the loop runs.

### `MCThreads_proof`, with patient and careful callers

`ThreadsInv` has one part for each component.  The flags of `ThreadedTimerEvent`
and `TcpClient` are loaded and stored without a lock and the updates overlap, so
nothing can be concluded from the flag word alone.  The invariants speak of the
word and of every copy of it that is still to be stored: a flag is held (`TtHeld`)
or free (`TtFree`) if the word and all copies agree on it.  `THREAD_IS_RUNNING` is
held from when the thread has raised it until it leaves, so that no overwriting
makes a start overlook a running thread; `THREAD_STOP` is held when a start waits
for a detached thread, or that thread is already on its way out (`TtAlarm`), so
that no second one is created beside it; and it is free when a new thread begins.
An object is deleted after its reader has returned.

* `OneThreadAtATime`: `Spec => []OneThreadEach`.
* `SocketsAndHandlesAccounted`: `Spec => []ConnectionsAccounted`.  The threads of
  a `TcpClient` may be in `TcpClient_disconnect` at the same time: `TcSocket` says
  which of them has seen the socket open, that two did only if `raced`, and that a
  socket is forgotten before a new one is made.  A `UvTcpServer` turns nobody
  away here (`RejectClient` is in `AnySpec`).
* `SignalsCallRegistered`: `Spec => CallsRegistered`, with deregistrations that
  match one callback at most (`Careful`; other ones leave some, see
  section 6).  `ShInv` says that a signal has one handler, whose list holds each
  callback as often as it is registered (`ShBooks`), and what the place a
  registration has got to tells about the handler of its signal and its list
  (`ShCall`): a signal may come at each of these places.  That the walk which ends
  after `count` callbacks meets them all, and that shrinking the list keeps them,
  rests on the rank of an item, the number of items up to it (`ShWalk`, `ShShrunk`).

### `MCServers_proof`, with careful callers

* `EveryClientAccounted`: `Spec => []ClientsAccounted`.  `ServersInv` keeps books
  of who is open, listed, lost and handed over, says that epoll, and the batch of
  events taken from it, know only listed clients and the listening socket, and
  that the client a thread is handling is the one it has looked up.  It says
  nothing of `flag_pole`, where updates may be lost.  The books are closed only
  where the code closes them: a `TcpServer` whose registrations or listings fail
  has descriptors without an owner (`lost`), and nothing is said of an `FdServer`
  that has used a freed package (`crashed`).

### `MCData_proof`

* `MessagesComeOutWhole`: `Spec => []FramesSurvive`, for any header length, any
  messages and any cuts of the stream.  The invariant names the stream that was
  sent altogether (`S`), the place at which each message begins in it (`st`) and
  how much of it was received (`x`); the receiver waits inside of a header or of
  the data, keeps bytes it has not looked at, or holds a whole message; a send
  that broke off leaves the beginning of one more message, and nothing follows.  Because
  the places are given by `st` and not computed from the messages, no induction
  over the messages is needed.
* `TimersRingExactly`: `Spec => RingsExactly`, for every clock and every number of
  nanoseconds in a second.  `SignsTell` is the heart of it: of a normalised
  difference of two times the sign of the seconds, or of the nanoseconds if they
  are 0, tells which is later.  The next end is exact but for what passes between
  the two readings of a ring: what a ring is late by does not add up, these gaps
  do.

* `TextCallsDoAsTold`: `Spec => []TextIsHandled`, for memory of every size and
  words of any length, and for the calls that are not `odd`; the copies are exact,
  with the extra byte of `strncpy_back` as the code copies it.  A call changes nothing it reads, so the invariant `TextInv`
  adds only that the memory ends in a terminator, without which `strlen` has no
  result; the work is in the functions.  `DownwardsIs` and `UpwardsIs` show that a
  loop which runs away from the place it writes to leaves the memory `Shifted` -
  every byte as it was before the loop - and `CopyHandles` that each copying
  function picks such a loop, or pads and terminates without touching what was
  copied.  `SkipIs`, `BeginsIs` and `StopsIs` turn the searches into first places
  (`LeastOf`: a set of numbers has a least member).  `SameWords` and `MatchIs` show
  that a comparison by words misses no difference and that its sign turns round.

* `BuffersHoldTheirBytes`: with careful callers, `Spec => []HoldsItsBytes`, for any
  bytes and lengths up to any bound.  `Holds` says of each place what the memory and
  the promised bytes have there, and adds that a capacity never passes `ULONG_MAX`
  and the step of an expansion is never 0: without these the loop of
  `BinaryBuffer_expand_to_target` need not end.  `SomeGrowth` and `GrowthIs` show
  that it does, with enough (`LeastOf` again).  `Resized`, `Written` and `Moved` say
  what a reallocation and a copy leave in each place, and `SplicedHolds` that the
  beginning, new bytes and a moved rest make up the contents after a removal, a
  drain or a replacement.

### What the proofs asked of the models

`ArrayList` states its safety part as `SafetySpec`, and `LoopsKeepItems` speaks of
one turn of each loop (`CutLeaves`, `SiftLeaves`) with `SameOrder` for the order of
what is left.  `TimerEventHandler` takes an event out by its place (`RemoveAt`).
`SignalHandler` shrinks a list by the rank of its items (`Shrunk`) and says when
the list of handlers is full for every number of doublings (`HandlersFull`).
In `DList` the guards of `DListItem_move`, `DListItem_move_count` and
`DList_pull_out_count` exclude each other, as the branches of the code do, and the
loops `delDListItem_all` and `DList_remove_marked_items` are recursive functions
over the steps of the loop; so is `Kept`, the sweep of `SeqList`.  `ListHistory`
keeps the order of arrival as a set of pairs (`given`, `ComesIn`), which says the
same of two items wherever they stand.
`TextFunctions` writes its loops (`Downwards`, `Upwards`, `WordAt`) as recursive
functions over the turns, and names the places its searches are to find
(`FirstSpace`, `FirstOther`, `LastPlace`, `IsNumber`).
`MCData` states the contents of buffers (`HoldsItsBytes`) and those of strings
(`TextsAreKept`) as properties of their own.
The assumptions `BufferAssumption`, `ChainAssumption`, `HistoryAssumption`,
`NamesAssumption`, `PoolAssumption`, `StreamAssumption`, `TextAssumption` and
`TimeAssumption` were written for the proofs; TLC evaluates them in the runs.

### Only model-checked

* The liveness properties, which need fairness: `CallsReturn`, `StopReturns`,
  `NoLostWakeUp` (`AddWakesWorker` and `EmptyWakesCaller`), `RingsAgain`,
  `StopReturnsWithEvents`, `StopEndsServing`, `DeletedIsFreed`, `StopsReturn`, `ReapsWhatExits`,
  `KeepsRinging` and the second half of `LogIsWhole`.
* `TextsAreKept`: substrings are replaced by loops that `String` and `StringObject`
  write as folds, of operators given as parameters.
* The first half of `LogIsWhole`: file sizes and counts are sums, which are folds
  too.

## 6. Known deviations

Disagreements between the code and its documentation, and calls with an undefined
outcome, met while modelling.  Those that a violation run shows carry the run's name,
those that a property at the end of this section is about its name; the others are
described here only.  Line numbers are of the file named first.

* `RBuff.c`: an increment past the free room moves `itBegin` by the whole
  distance instead of the surplus (:110).
* `RBuffIt.c`: `RBuffIt_next` wraps its pointer before it compares it with
  `itEnd`, so an `itEnd` resting on `buffEnd` is never met and the walk goes on
  (:79, `WalkEnds`; `WalkInOrder` excludes that state).  `RBuffIt_prev` from the reset state
  goes to the place behind the last item (:98).
* `ArrayList.c`: a resize beyond the maximum makes the next add write behind the
  array (:97, `NoOverrun`).  `ArrayList_shrink_tsafe` reads `count` before it
  takes the mutex (:750-756), so that a list which another thread adds to meanwhile
  loses, and frees, what is over.  `ArrayList_contains` looks at the first `count` slots and misses
  items behind a hole (:216).  A shrinking `ArrayList_resize` frees the items that
  do not fit; its comment says that items are not freed (:251, :307, `KeepsCutItems`).
  `ArrayList_set_max_cap` assigns `capacity` (:587), after which every access is
  undefined; it is not an action of the model.
* `MemPool.c`: after a failed expansion the next reservation dereferences an empty
  slot (:242).  A pool whose maximum is not its start capacity times a power of
  two grows past it (:196).
* `DList.c`, `DListItem.c`: inserting at 0 or before the first item writes through
  NULL (`DListItem.c:67`).  `DList_insert_after` never inserts (:106), and an
  insertion of a chain counts one.  A `DList_move` onto the last place leaves `end`
  behind (:174), on an empty list it dereferences NULL.  Moving a block forward
  lands one short, and onto itself makes a cycle.  Pulling out more items than
  follow leaves `end` dangling (:470).  A sweep whose last item is marked
  dereferences NULL (:393), and `items_ready_for_removal` starts uninitialised.
* `ListHistory.c`: removing the only item and moves on an empty history
  dereference NULL, a `Move_to_Bottom` that is carried out makes a cycle, and the
  oldest item is taken for absent.
* `ClientListener.c`: for an event of a removed client the socket of the first
  event of the batch is closed (:225).  A package whose registration fails is freed
  and stays listed (:346, :389).  A callback that adds to its own listener waits
  for itself (:240).  `ClientListener_start` never lowers `THREAD_STOP` (:435).
  `ClientListener_start_async` before the first worker raised
  `THREAD_IS_RUNNING` joins the live worker and hangs (:484); a client added in the
  same window is not watched (:343).  The store of `flag_lower` in
  `ClientListener_start_async` can bring back a `THREAD_IS_RUNNING` the ending
  worker has lowered (:472).  The ending worker closes the epoll a restart has just
  opened (:312).  `ClientListener_remove_socket_package` takes no mutex and may
  free the package being served (:399).  After a `disconnected` callback stopped
  the listener from the caller's thread, an add broadcasts without having taken
  the mutex, and a worker between its test and its wait sleeps on (:349);
  `AddWakesWorker` therefore asks for an open epoll.
* `TimerEventHandler.c`: a stop whose broadcast falls between the test and the
  wait of a worker without events never returns (:264).  `TimerEventHandler_start`
  begins every timer but does not sort (:239; `sort_events` is never called), so the
  worker may sleep past an end; `NeverOversleeps` asks for a list that was in
  order.  An event added to a running handler without events is not begun (:27)
  and rings in a burst until it has caught up.  `TimerEventHandler_remove_tsafe`
  clears the parent (:310) that `event_prep_to_free` then dereferences (:162), an
  extracted event can never be freed for the same reason, and
  `freeTimerEventHandler` with events crashes.  The worker's `flag_raise` at its
  start can undo the `THREAD_STOP` of an impatient caller (:178), and an event an
  impatient caller adds then is placed by its run time among events that are
  already running (:50).
* `ThreadedTimerEvent.c`: a wait never returns (:17, `threaded_wait`).  A start after
  `stop_async` may wait for a wake-up that has passed; overlapping flag updates
  lose `THREAD_STOP` (:84, `threaded_stop`); `stop_async` right after a start and a
  further start give two threads (:52, `OneTimerThread`); a start while the callback is in `stop_async` detaches twice; an event
  deleted by its callback is used afterwards.
* `alib_time.c`: `tv_nsec` of exactly one second is not normalised (:13), and such
  a time is not equal to the normalised one in `timespec_cmp`.
* `Timer.c`: every ring delays the next by what passes between the readings of the
  clock at :96 and :8, and an end on the real-time clock is off by what passes
  between :61 and :62.
* `TcpServer.c`: a delete from outside that meets the returning thread may never
  free the server, or free it under the thread's last broadcast.
  `wait_for_thread_return` misses a broadcast (:448).  A failing registration or
  list addition leaks the descriptor.  A delete in `client_connected` leaks that
  client.  The test for a running thread is never true (:362, `StartLeavesRunning`).  A stop in a
  callback whose own flag was lost in a race waits for itself.
* `FdServer.c`: a failing bind leaks the socket (:353) and the socket file is never
  unlinked.  A restart while the old thread runs gives two workers.  The list is
  added to without its mutex (:207).  For an event of a client that is gone the
  first event's descriptor is closed (:222), which may be another one by then, and
  `recv` may block for the wrong client; an error of one client closes that of the
  first event (:219, `fdserver_wrong_client`).
* `EventServer.c`: without a connect callback the package's free function is
  uninitialised.  A request to close hides one to shut down when a client connects.
  Packages of refused clients leak, as do open bufferevents on deletion.  The quit
  command leaves `is_running` at 1.  A failed construction deletes an uninitialised
  list.
* `TcpClient.c`: two racing disconnects close twice, the second time perhaps a
  number that another part of the process has got by then, and tell it twice
  (:134); one of them may be the reader's although the client is in the delete
  state (:47, `NotInDeleteState`).  A deletion with a running reader is a use
  after free, and a callback that answers `SCB_RVAL_DELETE` is one (:62, :143,
  `SafelyCleanedUp`).  `read_thread_wait` misses a broadcast.
  `set_data_in_cb` on a reading client waits for the host to hang up.
* `FdClient.c`: a second `listen_async` lowers `THREAD_CREATED` (:190).  The
  "OPTIONAL" `fd_disconnected` is called unconditionally.  A delete that races a
  reconnect leaks the socket.  A failing `pthread_create` leaves the flag up.
* `UvTcpServer.c`: the data callback reads a package that was freed (:221,
  `RemovalIsSafe`).  A rejected client's handle is freed while libuv holds it (:274,
  `FreedByItsCallback`).  A restart while closing frees the
  new handle, a failing start frees an initialised one, and a client added after a
  stop keeps the loop running.  Deleting the server frees it under its close
  callback.  `UvTcp_write_free` allocates the size of a pointer.
* `UvTcpClient.c`: a disconnect from another thread while the loop polls waits for
  the host.  A failed connect leaks the socket, and a blocking connect is followed
  by the join of a thread that was never made.
* `proc_waiter.c`: registrations and stops broadcast without the mutex (:339), so
  the waiter may sleep on.  A start may return success while the thread ends, and
  the waiter's own flag store may bring a flag back.  A removal during the walk
  makes it end one item early (:88, :104; the comment at :304 says otherwise).  A
  callback that registers moves the list under the walk, one that calls a `_tsafe`
  function waits for itself.
* `signal_handler.c`: a signal that interrupts the holder of a list's mutex waits
  for ever.  A signal between the emptying of a slot and the count's decrement walks
  too far.  A deregistration that matches several callbacks leaves some.  The test
  for shrinking compares the wrong list (:197).  `sa_mask` and `sa_flags` are
  uninitialised, and the addition of the handler is unchecked (:127).  A callback
  that deregisters frees the list under the walk.
* `ErrorLogger.c`: a failing `fopen` returns with the mutex locked (:118).
  `ErrorLogger_set_app_name` sets `file_path` to NULL (:267), so that the next log
  call does just that.  A timeout of 0 returns an error with the mutex held (:113).
  `newErrorLogger` fails without the "OPTIONAL" `app_name` (:376).  Truncating a
  file whose last entry is longer than half of it reads past its buffer, and a
  brace in a message cuts it there.  NULL truncation callbacks are called.
* `BinaryBuffer.c`: an insertion loses the last byte of what it moves (:207).
  `BinaryBuffer_expand` uses an uninitialised value (:73), its overflow tests are
  never true (:130, :194).  A failing `realloc` loses the buffer though "memory will
  not have been modified" (:26, :46).  Removing up to the last byte, from behind
  the end or from an empty buffer wraps (:263).  `copy_and_drain` of all but one
  byte loses one, `copy_block` refuses the end, `copy_block_and_drain` underflows,
  `replace` uses a stale pointer (:420), and `shrink_to_fit` ignores the minimum.
  A removal copies overlapping bytes with `memcpy` (:267), which is undefined; the
  model takes it to copy forwards, as common libraries do.
* `ComDataCheck.c`: an empty object reports a complete message; an empty message
  waits for the next one.  `extract_buffer` leaks (:38).  `rval` may be
  uninitialised (:237), and an error of `recv` is not returned (:232).  A sender
  that goes on after a failed send (:195) puts the next header into the middle of
  a message; the sender of the model gives up.
* `StringObject.c`: `set_count` writes the terminator one past the capacity, an
  insertion behind the end underflows, `replace_substrings` misses matches after a
  partial one (:584), failing resizes are ignored, and 32 characters are too few
  for a double.  `StringObject_append_char` takes the length of its character with
  `strlen(&c)` (:294, :315) and reads, and appends, what lies behind it on the
  stack; the model appends any text that may lie there.
* `String.c`: an append goes behind the terminator after a clear (:109,
  `AppendAppends`) and otherwise loses it through the insertion above (:106);
  `newString_copy` does not take over the length (:611-623), so that the copy is an
  empty String; an
  insertion leaves garbage; a removal up to the end leaves the text; removing a
  trailing substring never returns, replacing may loop, skip or overrun.
* `alib_string.c`, `alib_types.c`: `strncpy_back` copies one character more
  (`CopiesAtMostCount`), `str_match_no_case` stops at a terminator (`ComparesAllBytes`),
  `find_last_char_count` finds the byte in front of the string (`FindsInTheString`),
  `strncpy_fast` steps its pointer back, `find_next_non_whitespace` steps over
  terminators, `is_double` never accepts a point and `is_bool` is true only for a
  word with white space far enough behind it (`TypesAreTold`),
  `is_int_n` does not stop at the terminator, and `str_match` reads whole words
  past short strings.

### Properties that no run checks

The runs are kept to the questions that take several steps of several actors.
The modules also state these comments of the code as properties, all of which TLC
refutes within seconds on the instance given here; the specification named
`AnySpec` adds the calls or the callback that `Next` leaves out.

| module, specification | instance | property |
|---|---|---|
| `ArrayList`, `SafetySpec` | items 1..3, `StartCap` 2, `MaxCap` 3, `TopCap` 3 | `KeepsCutItems` |
| `ArrayList`, `AnySpec` | items 1..4, `StartCap` 1, `MaxCap` 2, `TopCap` 3 | `NoOverrun` |
| `RBuffIt`, `ItSpec` | 1 byte value, `Size` 4, `MaxCall` 4 | `WalkEnds` |
| `TcpServer`, `AnySpec` | 1 client | `StartLeavesRunning` |
| `TcpClient`, `Spec` | 2 readers, 2 sockets, not `Patient` | `NotInDeleteState` |
| `TcpClient`, `AnySpec` | 2 readers, 2 sockets, `Patient` | `SafelyCleanedUp` |
| `ThreadedTimerEvent`, `Spec` | 2 workers, not `Patient` | `OneTimerThread` |
| `UvTcpServer`, `AnySpec` | 2 clients, 1 write | `FreedByItsCallback` |
| `UvTcpServer`, `Spec` | 2 clients, 1 write | `RemovalIsSafe` |
| `String`, `StringSpec` | bytes 1 and 2, `Room` 4, not `Careful` | `AppendAppends`: after `String_clear` the bytes go behind the terminator |
| `TextFunctions`, `Spec` | `Size` 5, `Word` 2 | `CopiesAtMostCount`, `ComparesAllBytes`, `FindsInTheString`, `TypesAreTold` |

## 7. Not modelled

* `ClientListener_start`, `TcpServer_start` and `FdServer_run` (the loops on the
  caller's thread), `delClientListener`, `delErrorLogger`, `delUvTcpServer`, setters
  of callbacks and data that no step of the models reads, and several controlling
  threads at once.
* `threadPerCallback`, and callbacks that call back into an object other than by
  the calls named in section 3.
* Signals inside the locked sections of `signal_handler.c`, allocation failures
  outside of `MemPool`, `TcpServer` and `SignalHandler`.
* `MutexObject`: in the default build `newMutexObject` and `newListHistory` call
  each other without end, its request list keeps addresses of dead stack frames,
  and `delMutexObject` dereferences the pointer it has just cleared
  (`MutexObject.c:66`), so there is no defined behaviour to model.
* `CurlObject` wraps libcurl; files, archives, socket wrappers and `/proc` are
  I/O without state between calls; the small helpers have no state.
* `EventServer` and `UvTcp*` are modelled although `Makefile` and
  `CMakeLists.txt` have them commented out.
* Memory orders weaker than sequential consistency, and compiler reordering of the
  unlocked accesses.
