# HFetch in TLA+

HFetch is a hierarchical data prefetcher. A library in the application turns
every `fopen`, `fread` and `fclose` into an event; a server on each node handles
the events, keeps a heat map of every open file, copies hot pieces from the
parallel file system into faster layers (memory, NVMe, burst buffer) and deletes
them when the file is closed; the library asks the heat map where to read from.
This directory models the part of it that decides what is lost, duplicated,
stale or unreadable: the event path, the heat map of a file, the life of a file
over several servers, the distributed table they share, the placement of data in
the layers, the start and the end of the processes, and the pure operations on
segments, layers and messages.

Sources are named relative to `src/src/` of the repository.

## 1. Inventory

| Component | State | Operations | Interacts through | Modelled in |
|---|---|---|---|---|
| Event loop, `server/server.h` | per worker: batch, exit promise; main thread: index of `stop` | `pushEvents`, `runClientServerInternal`, `async_run`, `stop` | queue, `EventManager::handle` | EventLoop |
| Message queue, `distributed_ds/queue` | deque and mutex in shared memory | `Push`, `Pop`, `Size`, `WaitForElement` | clients push, workers pop, the main thread reads the size without the mutex | EventLoop |
| Segments, `common/data_structure.h` | none | `Contains`, `Substract`, `Intersect`, `GetScore` | called by the auditor and the distributed map | Segments |
| Messages, `common/data_structure.h` | none | `pack`, `convert` of names, segments, scores, events, files | arguments and results of every remote call | Messages |
| Layers, `common/util.h`, `common/configuration_manager.h`, `common/data_structure.h` | the linked list of layers of a process | `str_split`, `parse_opts`, `BuildLayers`, `Layer(id)` | read by everybody, looked up by the receiver of a file | Layers |
| Heat map, `server/file_segment_auditor.*` | one distributed map per file (segment to location and score), `layer_score_map` | `IncreaseFileSegmentFrequency`, `UpdateOnMove`, `GetDataLocation`, `FetchHeatMap`, `FetchLayerScores` | a worker updates it, library processes read it | SegmentMap |
| Life of a file, `server/file_segment_auditor.*`, `server/event_manager.cpp` | `file_segment_map` (per server), `valid_buffered_dataset`, `file_active_status`, `file_seq` (shared) | `CreateOffsetMap`, `MarkFileSegmentsActive`, `MarkFileSegmentsInactive`, `CheckIfFileActive`, `handle` | Get and Put on distributed hash maps | EventManager |
| Placement, `server/dpe/max_bw_dpe.cpp` | none | `place`, `solve`, `PlaceDataInLayer`, `SplitInParts` | heat map, layer scores, usage of layers | Placement; EventManager has target and naming only |
| Data manager, `io_clients/data_manager.h` | `file_id_seq` | `Move`, `Prefetch`, `HasCapacity`, `MakeCapacity`, `Split` | I/O clients, auditor | Placement; EventManager (`Move`, `Prefetch`) |
| I/O clients, `io_clients/*_client.*` | files, shared-memory strings, `layerCapacity`, `hasChanged` | `Read`, `Write`, `Delete`, `GetCurrentUsage` | RPC, distributed hash maps | Placement; DistributedStore (their calls); Bootstrap (constructors) |
| Distributed map and hash map, `distributed_ds/map`, `hashmap` | one shard per server, a mutex each | `Put`, `Get`, `Erase`, `Contains`, `GetAllData` | synchronous RPC to the shard's server | DistributedStore, AtomicStore; `Contains` in SegmentMap; constructors in Bootstrap |
| Global sequence, `distributed_ds/sequencer` | a counter on server 0 | `GetNextSequenceServer` | RPC | EventManager, Bootstrap |
| Client library, `lib/hfetch.cpp`, `lib/metadata_manager.*` | handle to file name | `fopen`, `fread`, `fclose` | events, `GetDataLocation`, I/O clients | SegmentMap (what `fread` reports and looks up), EventManager, Bootstrap |
| RPC, `distributed_ds/communication` | server list, handler threads | `call`, `bind`, `run` | rpclib | DistributedStore, Bootstrap |
| Start and end, `server/main.cpp`, `server/server.h`, the constructors | singletons, shared-memory regions, bound methods | `main`, `InitializeServer`, `InitializeClients`, constructors, destructors | MPI collectives, shared memory, RPC | Bootstrap |
| Multimap, priority queue, tracing; clock and hardware monitor but for their constructors | | | | not modelled, see section 8 |

What is hard here, and what makes each part correct:

* **Event loop.** Client processes, worker threads and the main thread share a
  deque; one reader takes no lock; the handler may throw; shutdown may come at
  any moment. Correct: every pushed event is in exactly one place until it is
  handled; each worker keeps the push order; shutdown drains and returns.
* **Segments.** Inclusive ends, empty ranges, partial overlaps. Correct: the
  operations are the set operations on bytes.
* **Heat map.** One update is a sequence of separate map operations that readers
  in other processes can fall between, and every update may split pieces.
  Correct: the pieces always cut the file; the heat of every byte is what the
  events said, its layer what the copies from the file said; the score lists agree;
  lookups find what is there.
* **Life of a file.** Servers read and write shared tables in separate calls.
  Correct: the count of opens is exact; buffers are deleted only when nobody has
  the file open; one map per file; what the map names is there when it is named, and
  nobody else takes it away.
* **Distributed table.** Processes of a node share its memory; others come by RPC,
  through a few handler threads that may themselves call other servers. Correct:
  callers see one atomic table; every call returns, unless handlers wait in a circle.
* **Placement.** Plans are made with a measurement that is cached, and carried
  out later; sizes are computed from inclusive ends. Correct: the cache is right;
  a plan moves data up and reads it once; a move that makes a layer overflow is
  noticed.
* **Start and end.** Servers and clients are two MPI jobs that meet in shared
  memory; RPC serves before everything is bound; servers stop one after the
  other. Correct: nobody uses what is not there or is somebody else's; nobody
  hangs in a collective.
* **Layers and messages.** Texts are counted and cut by different loops; a layer
  travels as an id of eight bits. Correct: what was given is what is read.

The hazards, each with its line and the properties that watch it, are listed in
`PROJECT.json`.

## 2. Modules

```
Segments <-----------------+----- MCDataStructures  (pure operations, all inputs)
   ^   Layers <-- Messages <-+          ^
   |                                    +---- DataStructureProofs -----+
   +---- SegmentMap <---- MCSegmentMap                                 |
   |         ^                                                         |
   |         +---- SegmentMapProofs ----+                              |
   |                                    +---> SegmentProofs <----------+
   +---- Placement <---- MCPlacement    |     (Segments; induction)
             ^                          |
             +---- PlacementProofs -----+

EventLoop <---- MCEventLoop
   ^
   +---- EventLoopProofs

EventManager <---- MCEventManager
   ^
   +---- EventManagerProofs

AtomicStore <-- refines -- DistributedStore <---- MCDistributedStore
                                  ^
                                  +---- DistributedStoreProofs

Bootstrap <---- MCBootstrap
   ^
   +---- BootstrapProofs ----> SegmentProofs (induction)
```

The modules meet where one takes for granted what another shows: EventManager and
SegmentMap use `Get`, `Put` and `Erase` of a distributed table as atomic steps,
which is what DistributedStore proves; EventManager chooses any higher layer for a
placement, and Placement computes it (`PlanClimbs`); Placement lets the heat map
name any segment, and SegmentMap says what it names; everybody assumes that the
shared memory and the methods are there, which Bootstrap shows.

### EventLoop

One server. `queue` and `mutex` are the deque and the interprocess mutex;
`cpc`, `wpc`, `mpc` are the positions of clients, workers and the main thread.

| Action | Code |
|---|---|
| `PushLock`, `Push` | `pushEvents` and `DistributedMessageQueue::Push`, split after the lock is taken |
| `Poll` | the `wait_for` that either sees the exit promise or times out |
| `PopLock`, `Pop` | `Pop`, `push_back`, and the test of the batch size |
| `HandleDone`, `HandleThrow` | `handle` returns and the batch is cleared, or throws and the catch block keeps it |
| `StopBegin`, `DrainEnds`, `StopSignal`, `StopJoin` | the phases of `stop` |

`Size` takes no lock (`DistributedMessageQueue.h:192`). With nobody inside the
mutex it returns the size. While a push or pop is under way the read is a data
race: boost's deque computes its size from two positions that the writer changes
one after the other, so `SizeMayReadZero` lets it read zero then. Reading a
non-zero size changes nothing and is a stuttering step. An event is only a
client and a number: its content does not matter to this path.

### Segments and SegmentMap

`Segments` is `struct Segment`: inclusive ends, empty ranges have
`end = start - 1`. `SegmentMap` is the map of one file on one server and the one
worker that updates it. `std::map` compares starts only, so the map is a function
from starts to entries; an entry carries its end, layer, frequency and `lrf`. A
read event or a move is handled one map operation at a time:

| Action | Code |
|---|---|
| `StartRead` | the event of `fread` and the `Contains` of `IncreaseFileSegmentFrequency` |
| `StartMove` | `UpdateOnMove` after bytes of the file were copied to a buffer, and its `Contains` |
| `MoveBuffer` | `UpdateOnMove` after bytes of a buffer were moved further up: no map has the name of a buffer, nothing is recorded |
| `EraseElement` | the next element of the loop is erased |
| `PutLeftOver` | one of its left-overs is put back |
| `PutCommon` | the common part is put with its new heat or layer, and the pair in the layer's scores replaced |
| `FinishEvent` | the loop ends |

`ContainsInServer` is modelled with its special cases (a single key is returned
whatever it is; the scan gives up past the last key). `Located(n)` is what
`GetDataLocation` finds; clients may call it in every state. `fread` takes its
offset from the return value of `std::fseek`, which is 0, so every read event is
`[0, n - 1]` (`hfetch.cpp:89`). Layers are numbered from the top, `LAST` is the file's
own. Copies from the file begin where a key begins: the placement engine builds its
sources consecutively from 0, so each begins where the previous one has just cut; a
byte may be copied again when it is in a buffer already, because every key that is
left in the last layer has the whole file planned. A buffer may be moved, in part or as
a whole, to any layer above the one the map has for it, and again later. What a read adds to `lrf` is a member of `Weights`: 0 stands
for the additions that are lost to rounding once the clock is large. `hits`,
`home`, `at` and `base` are history (the reads that covered each byte, the layer it was
last copied to from the file, the layer it was last moved to at all, and where the
buffer begins in the file); `scored` marks pieces that the last update touched whole.

### EventManager

Several servers with one worker each over the shared tables; every distributed
`Get` and `Put` is one action, so that two servers can interleave between them.

| Action | Code |
|---|---|
| `TakeOpen`, `GetSlot`, `NextSequence`, `PutSlot`, `PutMap` | `Update` for an open and `CreateOffsetMap` |
| `GetActive`, `PutActive` | `MarkFileSegmentsActive` |
| `TakeRead` | an event whose only effect here is a new placement |
| `Solve`, `Prefetch`, `Advertise` | `dpe->place`, `dataManager->Prefetch`, `UpdateOnMove` |
| `TakeClose`, `GetInactive`, `PutInactive`, `CheckIfFileActive`, `Delete` | `Update` for a close and the second loop of `handle` |

A file is one piece here. `mapped` is what its map names (the file itself or a
buffer), `present` the buffers that hold the file's data. `Moved` is `Move`: a source that
was emptied by an earlier move is an error to the memory client, and nothing happens
then; a file client reads the truncated file without an error, and what it did not read
is written over the destination. Whether a layer has room depends on
other files, so `Solve` may choose any layer above the current one, or none. The
count is 32 bits wide in the code; `UInt32Size` is that width. A batch is one
event (`MAX_PREFETCH_EVENTS` is 1).

### DistributedStore and AtomicStore

`AtomicStore` is the promise: one table, every `Put`, `Get` and `Erase` takes
effect at one moment between its call and its return; `GetAllData` reads every key
at one moment of the call, but not all at the same one. `DistributedStore` is the
code: a key lives on the server its hash names; a process works in the memory of
its own server under its mutex, or waits for a handler thread of another one.

| Action | Code |
|---|---|
| `Invoke` | a worker or client calls the store, or a `LocalFileClient` method whose handler does |
| `Dispatch` | `RPC::call`: one of the `comm_threads_per_server` threads takes the call |
| `Route` | `key_int == my_server`, or the call of the server that has the key |
| `PutErase`, `PutInsert` | the two halves of `Put` under the mutex |
| `Get`, `Erase`, `GetAllDataInServer` | the methods, one step under the mutex |
| `Unwind`, `CallNextServer`, `Return` | the handler returns; the loop of `GetAllData`; the call returns |

`Table`, `Phase`, `Reply` and `Seen` are the refinement mapping. A `Put` has taken
effect when it has erased the old pair: the mutex keeps everybody else from seeing
the difference.

### Placement

One worker. `bytes` is the number of bytes in each buffer of each layer;
`layerCapacity` and `hasChanged` are the cache of the file clients.

| Action | Code |
|---|---|
| `PlaceSegment`, `PlaceReturns` | the loop of `place`: the first call of `solve` for one segment of the heat map, with what it measures then; its return |
| `SolveLayer` | one call of `solve`, for one layer: it stops, places all, pushes others out and places all, places what fits and goes on below, or goes on below with everything |
| `Carry` | one round of the loop of `handle`: `HasCapacity`, `MakeCapacity`, `Prefetch` (read, write, delete), `UpdateOnMove` |
| `Close` | the buffers of a closed file are deleted |

`frame` is the call of `solve` that is next: its layer and what is left to place.
The recursion is on the tail, so a stack of one frame is enough, and the plan grows
in `planned` until it returns. What
depends on scores is free: whether a segment may displace others, and the number
its loop counts, which begins with a read of `end()` and is any member of
`Counted`. The heat map is free within what the auditor can make of it: data in the file
is the whole file under every key, because a read cuts the key and leaves the location
(`file_segment_auditor.cpp:128, 141`), and data in a buffer is any segment of what the
buffer was filled from, under a key that may be smaller. `solve` tests the key's size and
places the location. `SplitInParts` computes in `int` (`ToInt`), with the largest one as
the constant `IntMax`; files are assumed to have at most that many bytes (2 GiB - 1).
There is one layer of the memory client, as by default: several would share one table
of buffers, and `GetCurrentUsage` would count them together.
`FileWritten`, `FileDeleted`, `MemoryWritten` and `MemoryDeleted` compute the sizes
the way the clients do, odd bytes included: the file clients write `end - start`
bytes, take the result of `fseek` for a size and so truncate the whole file, and
count kilobytes of `du` against a capacity in bytes; the memory client sets
`segment.end` to a size. `CanFit` returns 0 for success, so `MakeCapacity` gives up
whenever the piece fits the empty layer; the capacity of every layer is at least
`SEGMENT_SIZE` (an assumption), so it always does, and the eviction is dead code.

### Bootstrap

The processes of two MPI jobs, servers and clients. `todo` is what a process has
still to do: a stack of steps, which the constructors of the singletons extend in
the order the code runs them (members in the order of declaration, then the body).

| Action | Code |
|---|---|
| `DoGetInstance`, `SetInstance` | `Singleton::GetInstance`: the constructor runs, then the instance is set |
| `DoBarrier` | a collective of the job: barriers, splits, gather, broadcast, `MPI_Finalize` |
| `DoCreate`, `DoOpen` | the shared memory of a structure is removed and created, or opened (which throws) |
| `DoBind`, `DoRun` | methods are bound; the handler threads start |
| `CallBegin`, `CallEnd` | a remote call, served by a server that runs and has bound the name |
| `Prompt`, `KeyPressed` | server 0 asks for a key and gets it |
| `WorkEnds` | the application, or `stop()`, is over |
| `Exit` | the destructors remove the shared memory, but for `Leaked` |

Two things are outside the code and assumed: clients are started after server 0
has printed its prompt, and the key is pressed when they have ended. `Leaked` is what
the end of a server does not remove: `offsetMaps` is an array from `new` that nothing
deletes (`file_segment_auditor.h:64`), and its maps keep the RPC object alive. A run
starts without shared memory, with what an earlier one has leaked, or with all regions
of one that was killed. `MPI_Finalize` is taken as synchronising.

### Layers and Messages

`Layers` follows a text from `str_split` over `parse_opts` to the list that
`BuildLayers` links, `LayerById` is the search of `Layer(uint8_t)`. What `malloc` or
`new` leaves uninitialised (`is_local` of `-l`, `direct_io` of the default layers and
of `Layer(id)`) is every value: `LayerOption`, `DefaultLayers` and `LayerById` are
sets. `atoi` reads one digit, so an option has at most nine layers. `Messages` has the
msgpack conversions; a C string ends at its first 0, a `std::string` does not.

## 3. Runs

| Run | Bounds | Shows |
|---|---|---|
| `event_loop_safety` | 2 clients, 2 workers, 2 events each, 1 exception; client symmetry | `TypeOK`, `EachEventInOnePlace`, `HandledInPushOrder`, `StopDrainsUnlessTorn` |
| `event_loop_liveness` | 1 client, 2 workers, 2 events, 1 exception | `PushedIsHandled`, `StopReturns` |
| `event_loop_drain` | 2 clients, 1 worker, 1 event each | `StopDrains` is violated |
| `data_structures` | all pairs of segments with offsets up to 6; texts up to 7 characters; up to 2 layers in `-l`; I/O sizes up to 40; up to 4 layers with `uint8_t` of 4 values; names and data up to 2 characters | `SubstractExact`, `IntersectExact`, `MeetsIsOverlap`, `SplitExact`, `OptionReadBack`, `DefaultOrdered`, `LayersLinked`, `FileArrives`, `EventArrives` |
| `segment_map` | 3 bytes, 2 reads of 1 to 4 bytes, 3 moves (recorded or not), 3 layers | `TypeOK`, `Tiling`, `ExactHeat`, `ExactLayer`, `LookupMissesOnlyInTransit`, `TouchedIsScored` |
| `segment_map_location` | 2 bytes | `LocationExact` is violated |
| `event_manager_own_files` | 2 servers, 3 files used by one server each, 2 opens each, a memory and a file layer above the files, 3 maps; symmetry of the two files of one server | `TypeOK`, `ActiveExact`, `NoDeleteWhileOpen`, `DistinctMaps`, `OneMapPerFile`, `NamedDataStays` |
| `event_manager_shared_close` | 2 servers that share a file | `NoDeleteWhileOpen` is violated |
| `event_manager_reopen` | 1 server, 1 file, 2 opens | `OpenFileIsReadable` is violated |
| `distributed_store` | 2 servers with 1 handler thread, 3 processes, 2 keys, one call each | `TypeOK`, `ImplementsAtomicStore`, `ReturnsUnlessCircular` |
| `bootstrap` | 2 servers, 3 clients, 2 ranks per server, 3 layers, 2 offset maps | `TypeOK`, `SharesItsServersMemory`, `NothingMissing`, `NoBindDuringCall`, `AllFinish` |
| `placement` | 3 layers (memory, file, last), segments of 3 bytes in files of 4, largest `int` 4, capacities 4 and 3, 3 buffers, 4 events of 2 segments | `TypeOK`, `CacheExact`, `PlanClimbs`, `PlanCovers`, `OverflowIsNoticed` |

Why the bounds are enough: two clients and two workers give every pair of actors
that can meet at the mutex or at shutdown, and two events give an order. Offsets
up to 6 contain every relative position of two segments with a gap of one byte on
each side. Three bytes and two reads let a piece be split twice; a read of four
bytes goes past the end. Three moves let a byte be copied, promoted without a record and
copied again over it. Two buffer layers of different clients let a buffer be promoted,
and promoted a second time from where it no longer is. Three files over three
maps use up the sequence exactly. Three processes on two servers with the default of
one handler thread let the handlers of the two servers wait for each other, with the
third process behind or beside them. Files of four bytes and segments of three make a placement of two parts, and the second layer is too
small for what the first one does not take; four is also the largest `int`, so that a
size at the limit is met; overflow, growth in place and a failed
`MakeCapacity` are all reached. Two clients on one server and one on the other
tell the server's memory from the job's. Each property has a mutant, a changed
definition that a plausible bug in the code would give, which makes TLC find it
violated.

Deadlock is checked in the runs of EventLoop, SegmentMap and EventManager: the only
states without a successor of their own are those in which everything is done
(`Terminated`, `AllEventsHandled`, `AllClosed`). It is not checked in the three runs
where the system really stops: all calls made, all processes ended, all events or
buffer names used. There `AllFinish` says that nothing hangs, and `ReturnsUnlessCircular`
that a call hangs only in a circle of handlers.

**Fairness** (`EventLoop`, `FairSpec`). Weak fairness for threads that are not
blocked: a client inside `Push`, a worker's steps, the main thread once `stop` is
called. Strong fairness for a worker that takes the mutex: the others release it
and sleep for 1 ms in `wait_for` before they take it again, so it is free again
and again while this one waits. Clients need not push, `stop` need not be called,
and the handler need not throw or stop throwing beyond the bound on exceptions.

`DistributedStore`, `FairSpec`: weak fairness of every process once it has called.
That is what thread scheduling gives; a mutex is held for one step of one process,
and calls that wait for a handler thread are bounded in number, so no strong
fairness is needed, and a call that never returns is stuck, not overtaken.
`Bootstrap`, `Spec`: weak fairness of every process, and strong fairness of `WorkEnds`, because an application, and a queue that is drained, makes
finitely many calls.

## 4. Where the code and its documentation disagree

* **`stop` may leave events behind** (`event_loop_drain`). `Size`, documented to
  "return a size of the queue", races with a push; it reads zero, `stop` ends
  the workers, and an event pushed before `stop` is never handled.
  `StopDrainsUnlessTorn` shows there is no other way.
* **A read is sent to the wrong offset** (`segment_map_location`).
  `GetDataLocation` computes offsets from the key; after a split the second part
  still names the same file or buffer, in which it does not begin at 0.
* **Buffers are deleted under an open file** (`event_manager_shared_close`). Two
  servers count the opens of a shared file with a `Get` and a `Put`; one open is
  lost.
* **A reopened file is read from deleted buffers** (`event_manager_reopen`). The
  last close deletes the buffers and leaves the map as it is.

Met while modelling, and without a run of their own: two servers that first open
the same file together give it two maps; a lookup
between `Erase` and `Put` misses the bytes in hand (`LookupMissesOnlyInTransit`
bounds that); left-overs lose their pair in `layer_score_map`; a read of zero
bytes is reported as `[0, -1]` and replaces the only key of a map by an empty
one; `Substract` returns nothing of a segment whose end only is overlapped
(`SubstractExact` states both cases), and `Contains` is true of a segment that merely ends inside.

* A buffer that is promoted is deleted where its map says it is, and the map is not
  told: `UpdateOnMove` looks for a map under the buffer's name. At the next event the
  buffer may be promoted again from where it is no longer; when that was a file layer
  the emptied file is copied over the data. `NamedDataStays` says that this and the last
  close are the only ways in which data goes away that a map names.
* With one handler thread per server (the default, `util.h:94`) two servers whose
  handlers call each other wait for ever. The run `distributed_store` reaches it;
  `ReturnsUnlessCircular` says that nothing else blocks a call.
* The regions of the offset maps and of the RPC list are never removed
  (`file_segment_auditor.h:64`, no destructor), although a destructor for each kind of
  region exists; the next run removes them before it creates its own (`AllFinish`).
* `SplitInParts` counts bytes in `int` (`max_bw_dpe.cpp:150-153`) while segments are
  `long`: files of 2 GiB and more are cut wrongly.
* "Make clients wait untill all servers reach here" (`DistributedHashMap.h:133`)
  does not hold: clients are another MPI job, so the barrier is among themselves.
* `PlaceDataInLayer` takes the size of the source after it has set its start
  (`max_bw_dpe.cpp:137-138`): a piece of a buffer that does not start at 0 is planned
  from the beginning of the buffer. `PlanCovers` is about data that starts at 0, as all
  data in a file does: the location under every key of the last layer is the whole file,
  so each such key plans the whole file again, and `solve` tests the size of the key
  only (`max_bw_dpe.cpp:73`).
* `MakeCapacity` gives up exactly when "layer can fit it" (`data_manager.h:71-72`).
* The file clients do not move the last byte of a segment and truncate the whole
  file when a part is deleted.
* The clock's remote call names a method without the `_` it is bound with
  (`global_clock.h:104`); it is only ever asked of the own server.
* With `-l`, `is_local` is uninitialised, so two processes may use different clients
  for a layer; a mount point that contains `_` is cut by the parser.
* `fclose` frees the handle before it leaves the table (`hfetch.cpp:64-65`), which
  matters only to an application with several threads.

## 5. Proofs

All proofs are checked by TLAPS, for every value of the constants, from the named
assumptions of the modules (types of the constants; the bounds are any naturals).
Where a theorem needs more, its hypothesis says so and is discussed here. Every
inductive invariant is a conjunction of named parts, and the proof that a step
keeps it has one lemma or step per action.

**SegmentProofs.** `SubstractCorrect`, `IntersectCorrect`, `MeetsCorrect`: the segment
operations are the set operations, for all integers. `Substract` is the exception that its
theorem states: of a segment that the other overlaps at the end only, nothing is left. The
module also holds the
induction the others use: a non-empty set of naturals has a least element
(`Least`), and a non-empty set of finite sets has a smallest one. A least
counterexample is then refuted, which needs no induction rule with an operator as
parameter; that is how what is said below about folds and recursive functions is
proved.

**DataStructureProofs.** Each property of the run `data_structures`, for
inputs of any size: `SubstractAlways`, `IntersectAlways`, `MeetsAlways` from the
theorems above; `LayersAreLinked`, `DefaultIsHierarchy`, `FilesArrive`, `EventsArrive`.
`BuildIs` is the lemma they need: the fold of `BuildLayers` over any list of layers
is the list written out (`Linked`), shown by least counterexample over its length,
once the fold is known to have a solution at all. `FilesArrive` then needs that ids
cut to eight bits are different for as many layers as there are values, and that the
walk along `next` reaches the one with the id (`WalkFinds`).

`SplitCorrect` is about `str_split` on any text over any characters, and
`SplitAlways` follows from it. The text is followed character by character (a least
counterexample over its length, `SplitInduction`): a delimiter changes no piece
(`TokensDelim`), another character begins one after a delimiter (`TokensNew`) and
else goes on with the last (`TokensMore`). These three need that the n-th smallest
number of a set exists, is unique and stays in its place when a larger one is added
(`NthIs`, `NthKept`), and where a piece ends (`EndIn`, `LastEnds`). What holds after
every character is `Counted` (there are at most as many pieces as the code counts, and
as many exactly when no field is empty) and `Rebuilt` (the pieces joined are the text
so far). `OptionCorrect` is about `-l` with up to nine layers, since `Atoi` reads one
digit, and any fields that are not empty and hold no delimiter: pieces that are joined
and split again are these pieces (`TokensJoined`), first for `#`, then for `_` in each
layer; `BuildIs` gives the list. `OptionIsReadBack` follows.

**EventLoopProofs.**

* `TypeCorrect`: `Spec => []TypeOK`.
* `OnePlace`: `Spec => []EachEventInOnePlace`. The property is not inductive: a
  push adds an event that must differ from all earlier ones, and a pop must not
  meet a second worker's copy. The invariant adds the types, `Counters` (a client
  inside `Push` has not used up its numbers; the index of `stop` is in range) and
  `Fresh` (every pushed event has a number its client has already used, so the
  next one is new); the proof takes each action and each conjunct it can disturb.
* `DrainSafe`: `StopDrainsUnlessTorn`, under the assumption
  `MAX_PREFETCH_EVENTS <= 1` (the code has 1; with a larger batch a worker may
  exit with a part of one). The argument: if the size was right when the drain
  loop ended, what was pushed before `stop` is in the hands of workers
  (`DrainedQueue`, which needs `MutexExcludes` for the event being popped); a
  worker that is polling holds nothing (`EmptyHands`), so it exits with empty
  hands; and all workers have exited when `stop` returns (`Joined`).
* `PushOrderIsKept`: `HandledInPushOrder`. `QueueIsRest`: the queue is the end of what
  was pushed, in that order; `TakenEarlier`: what workers have taken was pushed before
  all of it, so a pop extends a worker's order.

**SegmentMapProofs.** For every file size and every set of read sizes without 0
(that no read is of zero bytes is necessary: see section 4).

* `TilingHolds`: `Spec => []Tiling`. The invariant `MapInv` adds `WorkerType` (the worker's
  registers), `Tiles` (map and hand together partition the file), `Transit` (no
  piece is in both, and the common part is none of the left-overs) and `Aligned`
  (no piece begins before the event's segment and reaches into it, and every
  element still to visit overlaps it); the last is what makes `Substract` exact
  although it is not set difference in general.
* `LookupFindsAll`: `LookupMissesOnlyInTransit`. From `Tiles`: the scan of
  `ContainsInServer`, with its early exits, returns every key that meets the query.
* `HeatIsExact`, `LayerIsExact`, `MapTypeCorrect`. `ContentInv` says of every byte,
  in the middle of an event too, whether its entry is as before the event or as
  after it (`Before`, `After`), according to whether its piece is still to be visited, and
  that a byte is out of the file exactly when its last copy was, however far it went up;
  `CutInv` says that left-overs lie outside the event's segment and the common part
  inside. When nothing is left to visit every entry is as after the event.
* `ScoresListTouched`: `TouchedIsScored`, step by step from these.

**EventManagerProofs.** `BaseInv` (types; a server handles only files it opened, and
closes after opens) holds for any use of the files, and so do

* `TypeCorrect` and `MapsAreDistinct`. `SequenceInv`: a map that a file has, or that a
  server holds for it between `NextSequence` and `PutMap`, is one that was given out,
  and to nobody else, as long as the sequence has not gone round.

The others are proved under `PrivateFiles`, that each file is opened through one
server, with counts that do not go round the counter; section 4 shows what goes wrong
without. These are the hypotheses of the run `event_manager_own_files`.

* `CountIsExact` (`ActiveExact`) and `DeletesOnlyClosed` (`NoDeleteWhileOpen`).
  `CountInv`: the count in the table, and what a server has read of it, is the number
  of open handles but for the one that is being opened or closed.
* `MapIsTheFiles` (`OneMapPerFile`), for at most as many files as there are maps.
  `TableInv`: the table of a server and the shared one agree; `DrawnInv`: the sequence
  is the number of files that have drawn one, so it does not go round; `EntryInv`: a
  map has the entry of its file and of no other.
* `NamedDataIsKept` (`NamedDataStays`), for any number of layers above the file.
  `BufferInv`: a copy made from the file is there when the map comes to name it, and a
  map without an entry names no buffer. The step of another file changes another map
  (`MapsAreDistinct`), and deletion waits for the last close (`DeletesOnlyClosed`).

**PlacementProofs.** For any number of layers, at most one of them of the memory client,
any capacities of at least `SEGMENT_SIZE`, any counts of the scores, files whose size is
an `int`, and any heat maps over the files and within the buffers.
`PlaceInv` is `TypeOK` with: what heat maps name was given out and, in a file layer,
is there (`LocatedInv`); every planned move goes up, by at most a segment, into the
front of a buffer (`TodoInv`); the same of the plan that is being made, and its data is
known to a heat map (`PlannedInv`); the next call of `solve` is for a layer not below
the data's own, about a part of it that is not empty (`FrameInv`).

* `PlacementTypeCorrect`, `PlansOnlyClimb` (`PlanClimbs`) follow from it.
* `PlansCoverTheData` (`PlanCovers`): `CoverInv`, what the plan has read so far ends
  where the next call begins; it needs that `SplitInParts`, with its division that
  rounds up, cuts any size into parts that follow each other (`PartsFollow`), and that
  no `int` of it overflows as long as the size is one (`ToIntIs`, `PartsIs`).
* `CachedUsageIsExact` (`CacheExact`): whatever changes the bytes of a layer sets its
  flag, in every branch of every client.
* `OverflowsAreNoticed` (`OverflowIsNoticed`), an action property: unless a buffer becomes
  longer than was asked for, what a step adds to a layer is at most what `HasCapacity`
  was asked for, with the exact usage, since the sum over all buffers changes by what the
  one buffer changes (`SumChange`), and disk blocks, rounded up, are not more than bytes.

**BootstrapProofs.** For any number of servers, clients, layers and offset maps, and
with any of the shared memory an earlier run may leave: `BootTypeCorrect`, `MemoryIsShared`
(`SharesItsServersMemory`), `NothingIsMissing` (`NothingMissing`) and `TableIsSettled`
(`NoBindDuringCall`). `CountAssumption` is what they rest on: there is a server, every
client has one, and the names of the offset maps (`0_OFFSET`, ...) are not those of the
RPC list or of a client's methods. `BootInv` has these parts.

* `ServerInv`, of one server. On the stack, the constructors are nested as the
  singletons use each other (`Nested`, by `Upto`). What a step needs before it, each
  step of a constructor before its instance is set above all, is done or comes earlier
  on the stack (`Prepared`); so the constructor of an instance that is set has run
  completely (`Built`). How many collectives follow a step is known from its kind
  (`Spaced`): two after `Prompt`, three after a score is put, at least four after the
  bind of a structure.
* `LockStep`, of any two servers: the collectives of the constructors that a server has
  begun, less those that are still on its stack, are as many as on every other
  (`Passed`). Servers differ in what is on their stacks, by rank and by where they are,
  and a collective lets all go or none.
* `RegionInv`, `ClientInv`, `CallInv`: a mapped region of a running server is there and
  its own; a client runs only while server 0 prompts; a call is made only where there
  is one to make.

The proof first shows of each constructor that its steps are well placed wherever
`GetInstance` may put them (`Fits`, `ConstructorFits`; the loops over layers and maps by
least counterexample). `Consume` and `Expand` keep `ServerInv` when a step is taken and
when a constructor is put on the stack. Then the argument: a server that prompts or
drains its queue has passed all collectives but one or two, so every server has
(`LockStep`), so none has a create or a bind before it (`Finished`, `EveryoneUp`); a
server that puts a score has passed what the auditor's first barrier closes, and the
same follows for what that call needs (`AtTheScores`, `ReadyForScores`).

**DistributedStoreProofs.**

* `StoreTypeCorrect`: `Spec => []TypeOK`.
* `StoreRefinesAtomicStore`: `Spec => ImplementsAtomicStore`, for any number of
  servers, processes, keys and handler threads and any hash. Initial states map to
  initial states; every step maps to a step of the abstract store or a stutter
  (`PutErase` is where a `Put` takes effect, `PutInsert` stutters). The invariant
  that is needed, `StoreInv`: a process in the middle of a `Put` holds the mutex of
  the key's server (`PutInv`); a method on one key runs on that server, wherever it
  was called from (`OwnerInv`); a server holds no key of another (`ShardInv`);
  `GetAllData` visits no server twice (`LeftInv`); a process that is not in a handler
  is in its own server's memory (`HomeInv`, `UnwoundInv`). The assumptions are
  the named ones of DistributedStore: at least one server, a hash into the naturals,
  requests of the four kinds.

## 6. What is only model-checked

* `PushedIsHandled`, `StopReturns`, `ReturnsUnlessCircular` and `AllFinish`: liveness under
  fairness is out of the prover's reach.
* The four properties that TLC finds violated (section 4).

## 7. Plan

Every invariant and action property of a passing run is stated by a theorem; only
liveness stays with the model checker. What is left to model is listed in section 8;
the parts named last there are reachable by the code and would come first.

## 8. Not modelled

* `DistributedMultiMap`, `DistributedPriorityQueue`, `WaitForElement`, `async_call`,
  `CallCreateOffsetRPC`: no caller.
* `HardwareMonitor` but for its constructor: its thread is commented out.
* The eviction of `MakeCapacity` (`data_manager.h:73-126`): never reached.
* `GlobalClock::GetTime`: reads the machine's clock, the weight of a read here.
* The handle table and the copy loop of the library: sequential code of a process.
* Options other than the layers: they set constants of the modules.
* `setup_env`, tracing, printing, signal handlers: no state the properties are about.
* Failures of a server or of the network: the code handles none (a call has no
  timeout and is not retried).
* `external/rpclib`: third party.
* Files of 2 GiB and more, and several layers of the memory client (section 2).
* More than one worker per server over the auditor's process-local table, more than
  one server for one map (`Contains` over shards), and two servers over the usage
  cache of a layer.
