# JackieNet in TLA+

A verification project for **Seriousness** (`src/`), whose core is *JackieNet*: an
unfinished, RakNet-like UDP library in C++ (`src/server/source`). It models the parts of the
library in which several threads, the network or a long history of calls decide what
happens, checks them with TLC and proves with TLAPS the safety properties the passing runs check (all but one): of the
lock, both queues, the connecting side, the memory pool, the tables of remote systems, the circuits of buffers and the life cycle.
The code breaks some of what it promises; section 5 has each such promise with a counterexample, section 3 what each passing run leaves out for it.

Line numbers without a file name are lines of `src/server/source/JackieApplication.cpp`.

## 1. The system

A `JackieApplication` is one peer: client, server or both. It runs three kinds of cycle:

| Cycle | Code | Thread | State it owns |
| --- | --- | --- | --- |
| receiving, one per socket | `RunRecvCycleOnce` | receive thread *s* | pool of datagram buffers of socket *s* |
| network | `RunNetworkUpdateCycleOnce` | network thread | pool of packets, remote systems, the attempts in `connReqQ` |
| user | `GetPacketOnce`, `RunGetPacketCycleOnce` | the caller's thread | pool of commands, plugins |

They exchange elements over pairs of queues. A receiving cycle hands each datagram to the network
cycle (`allocRecvParamQ`, back over `deAllocRecvParamQ`), the network cycle hands packets to the
user (`allocPacketQ`, `deAllocPacketQ`), the user hands commands to the network cycle
(`allocCommandQ`, `deAllocCommandQ`). "Who allocs, deallocs" is the rule of
`JackieApplication.h`: an element returns to the pool of the thread that took it. The other
state that user and network thread share is `connReqQ`, under `connReqQLock`.

Two builds exist. `OverrideNetDefines.h:8` sets `USE_SINGLE_THREAD` to 1: `GetPacketOnce` runs
one receiving cycle (of socket 0 only, :2390), one network cycle and one user cycle, the queues are
`JackieArraryQueue`s and the socket does not block. With 0, the default of
`DefaultNetDefines.h:214`, every cycle has a thread and the queues are lock-free
`JackieSPSCQueue`s. At this commit the second build does not compile as it stands
(`AllocationSize()` at :2493 does not exist in `JackieSPSCQueue`); models of it say what the code under those
`#if`s does as written.

### Components, their state, and what makes them correct

| Component | State and operations | Correct when | Hard because |
| --- | --- | --- | --- |
| `JackieSimpleMutex` | `m_mutex`, `m_count`, `m_threadID`; `Lock`, `Unlock` | it excludes, nests, is given back | `Lock` reads both fields unlocked; unsigned count |
| `JackieSPSCQueue` | byte ring, `m_nIn`, `m_nOut`; `PushTail`, `PopHead` | FIFO of whole elements, holds as many as fit into its ring | two threads, no lock; cursors wrap |
| `JackieArraryQueue` | ring array, `head`, `tail`; push, pop, insert, remove, clear, shrink, resize | it is a sequence | wrap-around, doubling, a pop that does not look |
| connecting side | `connReqQ`, `connReqCancelQ`; `Connect`, cancel, retries, answers | every attempt ends, the user hears of it, and failure and connection exclude each other | locks taken and released unevenly, lost and repeated answers, timeouts |
| remote systems | `remoteSystemList`, `remoteSystemLookup`, `activeSystemList`; request 2, reply 2, reroute | three tables agree, one slot per client | repeated requests, rejected challenges, stale links |
| run cycles | pools, queues; the cycles and the plugin lists | every element in one place, and it gets back to a pool | unlocked hand-over, half-way loops, full queues |
| life cycle | `endThreads`, `isNetworkUpdateThreadActive`, `isRecvPollingThreadActive`, `bindedSockets`; `Start`, `StopRecvThread`, `StopNetworkUpdateThread`, the thread loops | `Start` comes back and succeeds only when the threads run; all threads end | threads that are not joined, blocking sockets, lost wake-ups, failures half-way |
| ban list and dispatch of datagrams | `banList`, `isUnconnectedRecvPrrams`; `AddToBanList`, `IsBanned`, `ProcessOneRecvParam` | a banned sender stays out; a datagram is sorted by its own bytes | removal during the walk, members used as locals |
| `JackieMemoryPool` | pages of cells, two rings of pages; `Allocate`, `Reclaim`, `Clear` | no cell given out twice, no page lost or freed in use | list surgery with many cases, failed mallocs |
| `JackieOrderArraryList` | ordered array; search, insertion, removal | every search ends where the key is or belongs | hand-written binary search |
| `JackieBytesPool`, other lists, maps, trees, `JackieBits`, strings | sequential data | functional correctness | not modelled (section 6) |
| sockets, spin lock, event, atomics, threads, time, logging, memory | system calls, helpers | | environment; see PROJECT.json |
| reliability layer, sliding window | empty at this commit | | nothing to model |

`server/ThirdParty`, `server/thirdparty`, `packages`, `980easylogging++.h` and the Unity client
(`client/`) are vendored code or user interface and not part of the project.

## 2. Modules

```
AbstractFifo  <--refines-- JackieSPSCQueue   <--EXTENDS-- JackieSPSCQueueProofs
AbstractQueue <--refines-- JackieArraryQueue <--EXTENDS-- JackieArraryQueueProofs
JackieSimpleMutex <--INSTANCE-- ConnectionRequests <--EXTENDS-- ConnectionRequestsProofs
JackieSimpleMutex <--EXTENDS--- JackieSimpleMutexProofs
RemoteSystems <--EXTENDS-- MCRemoteSystems
RemoteSystems <--EXTENDS-- RemoteSystemsProofs
RunCycles     <--EXTENDS-- MCRunCycles
RunCycles     <--EXTENDS-- RunCyclesProofs
AbstractPool <--refines-- JackieMemoryPool <--EXTENDS-- MCJackieMemoryPool
                          JackieMemoryPool <--EXTENDS-- JackieMemoryPoolProofs
LifeCycle     <--EXTENDS-- LifeCycleProofs
BanList       <--EXTENDS-- MCBanList
JackieOrderArraryList
```

### JackieSimpleMutex
The pthread branch. Each read or write of `m_count`, `m_threadID` and the pthread mutex is an
action, for each thread: `ReadCount`, `Reenter`/`NotOwner`, `Acquire`, `CountFirst`, `Own` for `Lock()`,
`Leave`/`LastLevel`, `CountLast`, `Disown`, `Release` for `Unlock()`. `depth[t]` is the caller's own
account of the calls it has still to undo. `Spec` has callers that undo only what they did;
`ConnectionRequests` instantiates the same actions with callers that do not.

### JackieSPSCQueue, AbstractFifo
Producer and consumer sample the other's cursor, copy one byte a step and publish their own cursor.
`RingSize` is what the constructor computes, including that it leaves `m_nSize` at `nSize` when
`nSize * sizeof(elementType)` is a power of two. Bytes carry the number of their message, so that a
torn or overtaken message shows. Memory is taken as sequentially consistent: the code puts full
barriers between the steps (the macros at `JackieSPSCQueue.h:51-65`).

### JackieArraryQueue, AbstractQueue
Every operation of the class on the array, as one step: whoever shares such a queue does so under a
lock or runs single-threaded. The refinement maps the array to the sequence of its elements. `PopDeref` (`JackieArraryQueue.h:276`) is modelled
as written, without a look at whether there is an element: on an empty queue `head` passes `tail`, and the queue then "contains" all but one
of the array's cells, old or wiped. That is `Underflow` in `AbstractQueue`, after which the sequence holds anything; `underflow`
remembers it until `Clear` or `Resize`, which alone put it right. On a queue that has no array yet `PopDeref` dereferences a
null pointer and the program ends: nothing follows. Nothing in the repository calls it yet.

### ConnectionRequests
The connecting side for both builds (`UserThread` and `NetworkThread` equal or not). A loop body
between `Lock()` and `Unlock()` is one action; the calls of the lock are the steps of
`JackieSimpleMutex`. The network is the set of servers that were asked: any of them may answer at any
time, repeatedly, or never. `due` stands for `nextRequestTime <= time`; `requestsMade` keeps the
width of `unsigned char`. `told` collects the notices pushed to the user since `Connect()`; on the path of `KeyNotPassed`
(:1500-1508) the packet's address is not set, so that the notice may name any target or nobody. That the failure packet of a given-up attempt points into
the handler's dead stack frame (:1742) is not modelled: no module has the contents of packets.

### RemoteSystems
The three tables of slots, with each handler that changes them as one action (they all run on the
network thread): the seven outcomes of `OnConnectionRequest2`, the slot `OnConnectionReply2` takes,
`BCS_SEND`'s change of mode and `BCS_CHANGE_SYSTEM_ADDRESS`. Hash and port-less comparison are constants
(`Bucket`, `Ip`), chains are sequences. Security exceptions never match
(`IsInSecurityExceptionList` returns false), so a secure server requires security of everybody.
`CanAcceptIncomingConnection` counts CONNECTED systems only, so that a client may be let in with no slot free (`NoFreeSlot`). The code then goes
on: without security `REPLY_2` goes out; with it the challenge is processed through `free_rs`, which nobody has set (:1124, :1149-1170), and either
`REPLY_2` goes out or the challenge counts as bad. Both are in the model; what is written over through `free_rs` elsewhere in memory is not followed.
`admitted` collects the clients that were sent `REPLY_2` while a slot was free.

### RunCycles
All cycles and all circuits of elements, for both builds. A queue or pool operation is one step, since
its inside is the business of `JackieSPSCQueue` and `JackieArraryQueue`. `PushTail` waits when a bounded queue is full. `DebugLog`
is whether `DCHECK_EQ`, whose arguments do the pushing and popping, is compiled in. A plugin may let a
packet pass, take it and have it reclaimed, or hold it. The pool a thread takes from is a set of free elements, which
is what `JackieMemoryPool` implements; which one it takes makes no difference to any property, so that it is a fixed one.
When commands run out the user's thread leaves the last one to `Connect_` on the network thread: a bound, as pools grow in the code.

### JackieMemoryPool, AbstractPool
The pool of cells behind every `Alloc...` of the application. The pages' `next` and `prev` are functions from page to
page, changed assignment by assignment in the two pieces of surgery the code repeats (`Unlinked`, `Linked`). A page's
free cells are its stack; `Allocate` and `Reclaim` are split where the code branches, each branch one action since a pool
belongs to one thread. `malloc` may fail at any time: `AllocateFails` for a page, `AllocateWithoutCells` (only in `HalfPageSpec`) for a
page's arrays. `holders` counts the callers that have a cell; `AbstractPool` knows nothing but these.

### LifeCycle
One life of the application in the build with threads. The user's thread goes through `Start` socket by socket, creates the threads, waits for
both flags, and may then call the two stopping functions in any order and repeatedly. The receive threads and the network thread are
their loops; what a cycle does is `RunCycles`' business. A port may be in use by another program, the test datagram may
not come back, a thread may not be created, and a wake-up datagram of `StopRecvThread` may be lost. An object is
started once: a second `Start` fails the assertion at the top of `InitIPAddress` (:512), as the addresses of the first are still there.
`unsupported` are the sockets whose family is compiled out; `BindUnsupported` deletes the failed one twice (:229-238), and what the second delete does to the heap is not
followed. `busy` are those `bind__` refuses for the time being, whatever the reason: `BindSharedIPV4` sleeps and tries again.
The sends of `StopRecvThread` are written with a macro whose definition is commented out (`NetTypes.h:79-82`); they are modelled as that definition has them.

### BanList
The walk of `IsBanned` one entry a step, with the loop's double increment and the removal of expired entries, between the
commands that post bans and the datagrams that come. Matching a pattern, character by character in the code, is the constant `Covers`.
`Dispatch` then sorts a datagram by the member that `IsOfflineRecvParams` sets, or leaves alone.

### JackieOrderArraryList
The binary search, one comparison a step, and the four operations built on its answer. Elements are their keys.

## 3. Runs

| Run | Checks | Shows |
| --- | --- | --- |
| JackieSimpleMutex | `TypeOK`, `MutualExclusion`, `CountIsDepth`, `NoSelfDeadlock`, `OnlyHolderReenters`, `AlwaysReleased` | the emulated recursive lock is correct for matched callers in spite of its unlocked reads |
| JackieSPSCQueue | `NeverOverfull`, `HoldsCapacity`, `ImplementsFifo`, `AllDelivered` | the ring of the constructor's power-of-two branch, which every application queue takes, is a FIFO, also after both cursors wrapped, and never refuses a place that is free |
| JackieArraryQueue | `RingInBounds`, `ImplementsQueue` | the ring array is a sequence, until `PopDeref` empties an empty one |
| ConnectionRequests | `TypeOK`, `NeverOverLimit`, `EveryEndIsTold`, `FailureIsFinal`, `MtuNeverGrows` | the default build: two servers, repeated `Connect()`, all send results, all answers |
| ConnectionRequestsThreads | `LockGivenBack`, `AttemptEnds`, `NetworkKeepsCycling` | two threads, one attempt at a time, refused or never answered: network and user thread get past each other and everything ends |
| RemoteSystems | `TypeOK`, `ActiveIsFound`, `GuidsDistinct`, `AnsweredHasSlot`, `NoSlotTakenOver` | a secure server with more clients than slots, no rejected challenge and no reroute |
| RemoteSystemsPeer | `ChainsExact`, `ActiveListExact` | what still holds when a peer also connects out, is rerouted and rejects challenges |
| RunCycles | `OwnedOnce`, `AllComeHome`, `NetworkKeepsCycling` | the default build, with commands that connect: elements never get lost, doubled or stuck |
| JackieMemoryPool | `CellsAccounted`, `RingsExact`, `SparePagesBounded`, `ImplementsPool` | the rings of pages survive every order of calls and failed mallocs |
| LifeCycle | `StartMeansRunning`, `StartReturns`, `ThreadsEnd` | starting and stopping with failures at every point |
| BanList | `BannedStaysOut` (violated) | finding 1 |
| JackieOrderArraryList | `SearchReturns` (violated) | finding 2 |

Every property of a passing run has a mutant (PROJECT.json), a plausible slip in one mapped definition that TLC then catches.

### What the passing runs leave out

Where the code breaks a property for some values of the constants, the run has the others, and section 5 the value with the property it violates. The cases
left out, run by run:

* ConnectionRequestsThreads: a second attempt in the queue (:1833 then unlocks in every iteration, and the sections are no longer guarded), a repeated
  `Connect()` (:2714 leaks a level), answer 1 (the loop of :1427; its surplus `Unlock()` drifts `m_count`), `too_big` (:1801). So `LockGivenBack` there is about the
  matched paths only: cancels, retries, refusals, each of which must give back what it took. All these cases are in ConnectionRequests, single-threaded, except that there `Unlock()` takes the mutex from nobody.
* RemoteSystems: rejected challenges, reroutes, connecting out. Nothing is ever unlinked there; that unlinking leaves chains exact is RemoteSystemsPeer's
  question, and that a slot so unlinked is found no more is in section 5.
* RunCycles: threads and several sockets in use (only socket 0 is read in the default build, :2390), plugins in both lists, a build without the `DCHECK` macros.
  `OwnedOnce` is proved for the first two as well. That an element gets back to *its* pool (`WhoAllocsDeallocs`, :1961) and that no null is pushed (`NeverPushNull`, :2346)
  are broken promises outside this run and no property of it.
* JackieSPSCQueue: elements that do not divide the ring, and the constructor's other branch, where it rounds up; the theorems have both.
* JackieMemoryPool: a page whose arrays cannot be allocated (`HalfPageSpec`).
* LifeCycle: none of the error paths of binding and of creating threads is left out; what they break (`DeletedOnce`, `FailedIsInactive`) is not among the run's properties.

### Bounds
* `MaxNesting = 3`, `CountMod = 4`, 3 threads: the outermost, the last-but-one and a middle level differ; deeper
  nesting repeats the middle one. The theorems have no such bound.
* `nSize = 8`, `ElementSize = 2`: 16 bytes are a power of two, so the constructor leaves 8, room for 4 elements, as it leaves the
  application's queues of 128 pointers room for 16. `CursorMod = 16`, 10 messages: 20 bytes pass, so both cursors wrap and the ring wraps twice.
* `QUEUE_INIT_SIZE = 2`, `MaxSize = 3`, two values: two doublings, every head position; `PopDeref` on an empty queue in arrays of up to
  `MaxSize + 1` cells (a guard of the model only, which bounds what the queue then contains).
* `Times = 3` is the smallest number of attempts the code can run with (`attemptTimes / mtuSizesCount` must not be
  zero): one try for each packet size. `MaxPosted = 2` and `MaxDeliveries = 2`: a second attempt, a late and a repeated answer.
* `maxConnections = 2`, three addresses of two machines (two collide in the hash table), three guids: a full table,
  a chain of two, a client that returns under another address or guid.
* `QueueSize = 1` and two or fewer elements of a kind: queues are full at once. `PoolSizes` replaces pools that grow: when
  all elements are in use the step that takes one waits.
* `CELLS_SIZE_PER_PAGE = 3`, four pages, `MAX_FREE_PAGES = 1`: a page with no, one, two and all cells free, rings of none to four
  pages, a head page, a last one and one in between, a spare page and one too many. Pages are interchangeable (symmetry).
* Two blocking sockets, any of them refused or unsupported, `MaxInbox = 1`, `Tries = MaxLost = 2`: `StopRecvThread` goes to a second socket while the first thread is
  ended or not; each datagram but the last may be lost. The ten resends that fit into the code's second are two here.
* Two patterns, two senders, a clock of two ticks: an entry that expires while another is walked to. Keys 1 to 4, up to four elements.

### Fairness
Each thread is scheduled (weak fairness of its steps as one action). Time passes: `Elapse` is strongly fair because it
is enabled only while the network thread is about to compare the time. A holder of the lock undoes a level eventually (strong fairness of
`MatchedUnlock`), since every guarded section is a finite loop. In `RunCycles` the user calls
`GetPacketOnce` in a loop and gives every packet back, as the loop of
`server/testcase/JackieNetUnitTests/Source.cpp` does. Nothing obliges the user to connect, a server to answer, or, with
threads, a datagram to come. In `LifeCycle` each thread runs, the user's inside a call too; when it calls, what peers send
and when another program gives a port back is left open (`StartReturns` supposes that it does). That one of the
wake-up datagrams arrives is the bound `MaxLost <= Tries`, not fairness.

### Deadlock
Checked except in ConnectionRequests and LifeCycle. In the former, single-threaded, the repeated `Connect()` of
section 5 can make the only thread wait for itself; the latter stops when `Start` has failed or all threads have ended.

## 4. Proofs

### The lock

`JackieSimpleMutexProofs` proves for every set of threads, every width `CountMod` of `m_count` and every nesting below it:
`TypeCorrect`, `ExclusiveLock`, `CountTellsDepth`, `NoThreadWaitsForItself` and `ReentryIsTheHolders`, from the three
assumptions of `JackieSimpleMutex` (a value for "no thread", a width above 1, nesting below the width).

None of the properties is inductive by itself: `MutualExclusion` speaks of `depth`, but who may enter is decided from
`m_count` and `m_threadID`. The inductive invariant `IInv` adds `Ownership`: a thread that holds or is between the pthread calls is exactly the
holder of the pthread mutex; while nobody holds it both fields are zero; and for the holder `OwnerView` gives both fields at each point of `Lock()` and
`Unlock()`. From it: a thread that reads its own identity in `m_threadID` must be the holder, as `m_threadID` is only ever the
holder's or empty, so that the stale `m_count` it read before does no harm. `InitIInv`, `NextIInv` (one step for each
action) and `InductiveInvariant` are the lemmas; each theorem follows from `IInv` and a final temporal step.

### The tables of remote systems

`RemoteSystemsProofs` proves for every number of slots, all addresses and guids and every hash function (`Bucket` is any
function, colliding as it likes), from `SlotsAssumption` (there is a slot), `NullAssumption` (the unassigned address and guid are
nobody's) and `ReroutesAssumption` (a reroute gives an address):

| theorem | property | under |
|---|---|---|
| `TypeCorrect` | `TypeOK` | - |
| `ActiveListStaysExact` | `ActiveListExact` | - |
| `ChainsStayExact` | `ChainsExact` | - |
| `SlotsAreKept` | `NoSlotTakenOver` | - |
| `GuidsStayDistinct` | `GuidsDistinct` | the peer connects to nobody: `OnConnectionReply2` does not look the guid up |
| `ActiveStaysFound` | `ActiveIsFound` | no reroute, no failed challenge |
| `AnsweredHaveSlots` | `AnsweredHasSlot` | the same, and the peer connects to nobody |

The conditions are those of the RemoteSystems run, except that `AnsweredHaveSlots` holds with and without security. Section 5 has the counterexamples for a peer that
connects out, for reroutes and for failed challenges. The proof follows the code's
layers. `RemoveAtLinks` and `AppendLinks` say what unlinking and linking do to one chain; `DeRefUnlinks`, `LinkLast` and `RefLinksNewSlot`
what the two functions do to the table; `ActivateKeepsTable`, `RejectKeepsTable` and `RerouteKeepsTable` what the handlers do. `StepKinds` sorts
the actions of `Next` into those that leave the tables alone, take a slot, reject a challenge or reroute. The inductive
invariant `TableInv` adds to `ActiveListExact` and `ChainsExact` that a slot which is not active has never been used: only then does
`RefRemoteEndPoint` not unlink, on behalf of the slot's old address, what belongs to somebody else. (No handler of the source frees a slot, so the
code keeps this; a future one that does must clear the address, or the invariant is lost.) `FoundInv` adds that every active
slot is linked where its address leads and that addresses are distinct; it is what rerouting onto a used address, or a rejected
challenge that unlinks an active slot, breaks. `AnsweredHaveSlots` needs one fact more, that of each pair of `admitted` one slot has both address and guid: it stays true
because slots are kept and guids distinct, so that no later request, crossed with another client's address or guid, moves either search to another slot. Where no slot is free
the theorem says what the code does, not what it should: `REPLY_2` goes to a client without a slot only then (`NobodyIsSentAway`, section 5).

### The connecting side

`ConnectionRequestsProofs` proves for any number of targets, plugins, cancels and answers, in both builds, from the assumptions of `ConnectionRequests`
(`attemptTimes` of at least three, `TimesAssumption`; the others say what the constants are):

| theorem | property | under |
|---|---|---|
| `TypeCorrect` | `TypeOK` | - |
| `LimitNeverPassed` | `NeverOverLimit` | - |
| `NoSilentEnd` | `EveryEndIsTold` | - |
| `FailuresAreFinal` | `FailureIsFinal` | single-threaded, or no `Connect()` for a target that is pending |
| `PacketsOnlyShrink` | `MtuNeverGrows` | `Times + 1 < ByteMod`: the limit fits into the byte that counts |

`TryBounds` is the arithmetic of a try: each of the three ways to set `requestsMade` leaves it at most at the limit and, unless it wraps, at no larger packet. `QueueStep`
sorts all steps by what they do to the queue: nothing, `Posts`, `Drops` (what both `RemoveAtIndex` and the skipping removal of `OnConnectionReply2` do) or `Amends`. `PostsKeeps`, `DropsKeeps` and `AmendsKeeps`
say that these keep types and limit, and `Origin` where an attempt found afterwards comes from, which gives `MtuNeverGrows`.
`EveryEndIsTold` speaks of the end of a cycle only and is not inductive: `Accounted` says it of every moment, and `Answered` adds what `OnConnectionReply2` relies on while
it has let go of the lock: the attempt it has found is still pending, and by the time it removes it the connection is requested or the failure told.

`FailureIsFinal` says that a user told of a failure (`CONNECTION_ATTEMPT_FAILED`, `REFUSED`) is not connected as well, until the next `Connect()`. It rests on `Final`: a target that is pending is neither
requested nor told to be over, except between the moment an answer 2 is decided and the removal of its attempt; and a `Connect()` under way is not for a target that has a slot by now. With threads the second
part needs the condition: `Connect()` looks for `ALREADY_CONNECTED` before it takes the lock, and an answer 2 may come between (section 5). As everywhere in this module a section
between `Lock()` and `Unlock()` is one step. Where `QueueGuarded` fails (section 5: two threads and two targets) the sections are not guarded, and these theorems say nothing of the program.

`OneTargetIsGuarded` is about the lock itself, which `TypeCorrect` only types: `QueueGuarded`, the queue is never in the hands of both threads, under `OneTarget`: a single target, and no
second `Connect()` while it is pending. `QueueGuarded` is no property of a run, as with one target and matched calls it would only repeat `MutualExclusion`; the
theorem has every answer, the unmatched ones too. `LockGivenBack` is not proved but only model-checked, on the matched paths of its run: with the unmatched ones it is false (section 5).

`NetSection` ties the calls of the network thread to its places: its section is open exactly where `NetLocks` holds, and at the first attempt of the
loop over `connReqQ` there is an attempt, so that the loop unlocks. It holds for any number of targets. Mutual exclusion needs more, for after an answer 1 (:1433) and
a failed handshake (:1548, :1557) the network thread unlocks what it has already let go of, `m_count` drifts by one each time, and nothing can be said of it any more. `Guarded` does not
mention it: who has called `Lock()`, is past the pthread call, or is named by `m_threadID` holds the pthread mutex (`Mutexed`), and a thread inside `Unlock()`
either holds it or is the network thread while the attempt is pending and the user's thread `Clear`, outside `Connect()` and kept there by the attempt. So a
surplus `Unlock()` takes the mutex from nobody. Both conditions are needed: with two targets, or with a repeated `Connect()` and an answer 1, TLC finds the queue in both threads' hands (section 5). What the drift can still do is to
leave the mutex held for good; that is the liveness of section 5.

### The circuits of elements

`RunCyclesProofs` proves `AlwaysOwnedOnce`: `OwnedOnce` for any number of sockets, elements and plugins, both builds, every queue size and all user calls,
on the condition `DebugLog` that the `DCHECK` macros are compiled in (without it the property is violated, section 5). `OwnedOnce` counts the boxes an
element is in: pools, queues, hands, a push under way. It is not inductive alone: a thread pushes what its local
`has` and `push` say, so `IInv` adds their types (`QueuesTyped`, `LocalsTyped`), at which places of a cycle a thread holds what (`Calls`) and
what `PacketGoThroughPlugins` works on (`Plugins`). Every action is one of a few movements of one element from a box to another; `Move` says once
that a movement keeps `OwnedOnce`, and `Take`, `GiveAllBack`, `PopAlloc`, `PopDeAlloc`, `PushAlloc` and `PushDeAlloc` say it of the code's operations.

### The memory pool

`JackieMemoryPoolProofs` proves, for any number of pages and cells and every `MAX_FREE_PAGES`, from `PoolAssumption` (null is no page, a page has more than one
cell): `TypeCorrect`, `CellsAlwaysAccounted`, `RingsAlwaysExact`, `SparePagesAlwaysBounded` and `PoolImplemented`. `PoolAssumption` is the assertion
at `JackieMemoryPool.h:144`. `RingsExact` speaks of what `next` leads to, which a step changes at two places but for which all pages count; the
inductive invariant has it as two facts that the surgery keeps locally: `next` and `prev` are each other's inverse within a ring (`Paired`), and no proper part of a
ring is closed under `next` (`Single`). `StacksInv` ties the stacks to `holders`. `PoolImplemented` maps every action to a step of `AbstractPool` or to none.

### The lock-free ring

`JackieSPSCQueueProofs` proves for every `nSize`, element size, cursor width and number of messages, from `SizesAssumption` and `CursorAssumption` (the cursors count
beyond the ring, and their width is a power of two):

| theorem | states | under |
|---|---|---|
| `CursorsStayApart` | `CursorInv` | - |
| `NeverLapped` | `NeverOverfull` | - |
| `CopiesApart` | `NoOverlap`: no byte is written that is still to be read | - |
| `RoomForCapacity` | `HoldsCapacity` | - |
| `RingIsFifo` | `ImplementsFifo` | `ElementsFit`: elements divide the ring |
| `PointerQueueIsFifo` | `ImplementsFifo` | `IsPower2(ElementSize)`, `ElementSize <= nSize` |
| `TypesHold` | `TypeOK` | `ElementsFit` |

`CursorInv` is the heart: the difference of the cursors modulo `CursorMod` (`Filled`) never exceeds the ring, though both wrap; what a producer has found room for still fits, and what a
consumer has found is still there, as the other side only ever adds to either. `FifoInv` adds that the cursors stand for whole messages (`ElementInv`: `m_nIn` is
`sent * ElementSize` modulo `CursorMod`, a call moves a whole element or none) and what the bytes are (`BytesInv`: each byte of a message between the cursors is at the place its number gives it,
and so are those copied so far by the two calls under way). The condition is one the code does not
meet of itself: an element that does not divide the ring is torn at its end (section 5).
`RoomForCapacity` has both branches of the constructor. For a power-of-two `nSize * sizeof(elementType)` it leaves a ring of `nSize` bytes, which is `Capacity = nSize \div ElementSize` elements: the queues of the
application, 128 pointers each, hold 16, and no interleaving makes them hold fewer. That they should hold 128 is `HoldsNSize` (section 5). `PointerQueueIsFifo` is about these queues too.

The facts about numbers are proved here too, each by its least counterexample (`LeastNatural`, from the library's `WFMin`): between a number and its double lies a power of two (`PowerAbove`), the
smaller of two powers of two divides the larger (`PowerDivides`). Hence `RingIsPower2`: whichever branch the constructor takes the ring is a power of two, and `CursorMod` a multiple of it, so that
`m_nIn & (m_nSize - 1)` is the right place also after the cursors have overflowed.

### The growing ring

`JackieArraryQueueProofs` proves for every first size and every sequence of operations, from the module's assumptions alone: `RingStaysInBounds` (`RingInBounds`), `ArrayTyped` (`TypeOK`) and
`RingIsQueue` (`ImplementsQueue`). The inductive invariant is the conjunction of the first two: one cell always stays free, which tells full from empty. Each operation has a
lemma that says it keeps the invariant and does to `Contents` what the operation of `AbstractQueue` with its name does. `PopDeref` has two: with an element it is `PopFront`, without one `Underflow`, after
which the bounds still hold (one cell stays free: the head moves by one, so that the queue is full) but the contents are what the cells held before.

### The life cycle

`LifeCycleProofs` proves for any number of sockets, blocking or not, supported or not: `SuccessMeansRunning` (`StartMeansRunning`), from `START_SUCCEED` to the first Stop call the network thread
and a receive thread are in their loops; and `CountIsExact`: `isRecvPollingThreadActive`, on which `Start` and
`StopRecvThread` wait, is always the number of receive threads in their loop (`Counted`). It says one receive thread and not all, as `Start` waits for the count to be other than zero only.
`ReceiverInv` says that only threads already created (`Uncreated` are the others) are in their loop (`Polling`), `CreatedInv` that the network thread is created once and late,
`RunningInv` that neither announcement is up without its thread while `endThreads` is down: `Start` clears the flags before it creates the threads, and a thread that has announced itself does not leave before a Stop call.

### What is only model-checked

All liveness: `AlwaysReleased`, `AllDelivered`, `AttemptEnds`, `NetworkKeepsCycling`, `AllComeHome`, `StartReturns`, `ThreadsEnd`. It rests on fairness and `ENABLED`, which are beyond the
prover. Of the safety properties `LockGivenBack`. Every other invariant, action property and refinement that a passing run checks is proved, under the conditions named above. Induction over
data is beyond the prover too: what a loop of the code computes where a module gives it as one expression is read, not proved. The modules use no `RECURSIVE` operator, so that they can be proved about.

## 5. Where code and text, or code and intention, part

Two have a run of their own (PROJECT.json, "findings"):

1. :3276. The walk of the ban list counts twice and passes over every second entry: a banned address gets in.
2. `JackieOrderArraryList.h:85`. The middle of the binary search ignores the lower bound, and the search goes on for ever.

The others are properties defined in the modules; each line gives the change to the named run's constants with which TLC finds
a counterexample.

| Property | Run and change | What the code does |
| --- | --- | --- |
| `ActiveIsFound` | RemoteSystems, `BadChallenges = TRUE` | :1158: a failed challenge only unlinks the slot; it stays active and listed and is never found again, against "Unassign this remote system" (:1157) and the assertion of :2103-2112 |
| `NoSelfWait` | ConnectionRequests, `RepeatConnect = TRUE`, `Targets = {s1}`, `MaxPosted = 3`, `MaxDeliveries = 1`, `SendResults = {"sent", "slow"}`, `Spec` | :2714, with :1433, :1548, :1557 and :1833: uneven calls of `connReqQLock` wrap `m_count`, and the thread waits for itself |
| `NeverPushNull` | RunCycles, `SocketCount = 1`, `PluginsNTS = 1`, `UserCalls = {"PostComand"}`, `Pools221`, `Spec` | :2348: a packet taken by a plugin of the first list goes to the second as a null pointer, and the null is pushed, against `JackieApplication.h:5` "Remember we never push null pointer to any kind of queue" |
| `CancelTakesEffect` | ConnectionRequests, `MaxCancels = 1` | :1688 compares with an address that is never read from the queue: a cancel has no effect |
| `ToldMeansOver` | ConnectionRequests | :1397, :1548: the user is told of a failure while the attempt stays queued and goes on |
| `FragmentsAgain` | ConnectionRequests | :1802 leaves the loop body before `SetDoNotFragment(0)` |
| `AttemptEnds` | ConnectionRequests, `FairSpec`, `ByteMod = 4` (stands for `attemptTimes >= 255`) | `requestsMade` wraps before it equals the limit |
| `AttemptEnds` | ConnectionRequestsThreads, `SendResults` with `"too_big"` | :1801: at the smallest size the counter is set back each time, without end |
| `AttemptEnds` | ConnectionRequestsThreads, `RepeatConnect = TRUE`, no deadlock check | the lock leaked at :2714 keeps the network thread out for good |
| `QueueGuarded` | ConnectionRequestsThreads, two `Targets` | :1833 unlocks in every iteration: from the second attempt on the queue is unguarded |
| `LockGivenBack` | ConnectionRequestsThreads, two `Targets` | :1833 again: the network thread unlocks what it does not hold |
| `LockGivenBack` | ConnectionRequestsThreads, `AnswerKinds` with `"reply1"`, no deadlock check | :1433: a surplus `Unlock()` drifts `m_count`; the next pair of calls leaves the mutex with the network thread |
| `FailureIsFinal` | ConnectionRequestsThreads, `RepeatConnect = TRUE`, `AnswerKinds = {"reply1", "reply2"}`, `Spec`, no deadlock check | :2678: `Connect()` looks for a slot before it takes the lock; an attempt posted after the connection was requested ends in a failure notice for it |
| `QueueGuarded` | ConnectionRequestsThreads, `RepeatConnect = TRUE`, `AnswerKinds` with `"reply1"`, no deadlock check | :1433: the loop goes on after `Unlock()` and unlocks again, under a `Connect()` that holds the lock |
| `NetworkKeepsCycling` | ConnectionRequests, `FairSpec`, `NTSPlugins = 0` | :1427: the plugins' loop resets the index of the loop around it, which begins again |
| `HoldsNSize` | JackieSPSCQueue | `JackieSPSCQueue.h:23`: a power-of-two size leaves a ring of `nSize` bytes |
| `ImplementsFifo` | JackieSPSCQueue, `nSize = 3`, `ElementSize = 3`, `CursorMod = 32` | `JackieSPSCQueue.h:60`: &buffer + l counts elements: an element that wraps around the end of the ring is torn (the application queues pointers only, whose size divides the ring) |
| `NobodyIsSentAway` | RemoteSystems | :1124: with no slot free, `REPLY_2` goes out all the same, to a client without one |
| `HastyIsWarned` | RemoteSystems | `limitConnFrequencyOfSameClient` is false from :120 on: nobody is ever warned |
| `ActiveIsFound` | RemoteSystemsPeer, `BadChallenges = FALSE` | a reroute to the address of another system unlinks that one |
| `GuidsDistinct` | RemoteSystemsPeer | a peer that connects out does not look the server's guid up |
| `WhoAllocsDeallocs` | RunCycles, `SingleThread = FALSE`, `Pools300`, `Spec` | :1961 passes the inner index: a buffer goes to another socket's pool |
| `NetworkKeepsCycling` | RunCycles, `SingleThread = FALSE`, `SocketCount = 1`, `PluginsNTS = 1`, `Pools212`, no deadlock check | full queues: user and network thread wait for each other |
| `OwnedOnce` | RunCycles, `DebugLog = FALSE` | :2485 and others: the push is an argument of `DCHECK_EQ` and is compiled out |
| `ConnectCommandsEnd` | RunCycles | :1914: `BCS_CONEECT` posts itself again for ever |
| `PoolHasOneThread` | RunCycles, `SingleThread = FALSE`, `SocketCount = 1`, `Pools212`, no deadlock check | :1914: the network thread allocates from the user's pool |
| `FlagIsOwn` | BanList | :697: a short datagram is sorted by the flag of the datagram before it |
| `AllocateFindsCell` | JackieMemoryPool, `HalfPageSpec` | `JackieMemoryPool.h:143`: a page without arrays counts as usable, against the assertions at :121 and :137 |
| `FlagSaysActive` | LifeCycle | :651: the flag goes down while the thread runs, against `JackieApplication.h:153` "true if the send thread is active" |
| `FailedIsInactive` | LifeCycle | :371, :389: `End(0)` is empty (:412), `endThreads` stays false and the threads created run on |
| `StoppedIsAlone` | LifeCycle | nothing joins the threads, or waits for more than the receive threads' count: the samples delete the application (`testcase/JackieNetUnitTests/Source.cpp:557-559`) while the network thread may be in its last cycle |
| `DeletedOnce` | LifeCycle | :234: the failed socket is deleted by itself and again with all the others |

## 6. Not modelled

Contents of messages and the cryptographic handshake (a vendored library); `JackieRemoteSystem::CONNECTED` is set by
`BCS_SEND`'s mode only, because the code that would complete a connection is not there, nor is any that ends one;
failed allocations outside the memory pool; the Windows critical section; address formatting; logging.
`JackieBytesPool` is four pools chosen by size, and `JackieSpinLock` a check-then-act loop: nothing at this commit uses
either. `JackieWaitEvent` only delays: its one caller waits 10 ms and does the same whether the event came or not. `ClearAllRecvParamsQs` and its siblings,
which go half-way over the queues they empty, are not called. `GetRemoteSystemIndexGeneral` (:3154) is a second search of the table which no modelled
handler uses. `JackieBits` and the other containers are sequential data structures within reach of unit tests. The static variable in which `RecvFromIPV4`
keeps the sender's address is shared by all receive threads (`JackieINetSocket.cpp:352`), a data race inside one call that no module follows. Everything else in the repository, and most of its
lines, is vendored code or user interface.
Undefined steps are not followed past the point where they happen: the index -1 at :1885, a queue outside its array
(`"crashed"` in RunCycles), a division by zero for `attemptTimes < 3` (assumed away by `TimesAssumption`).

## 7. Plan

Done: the lock, both queues, the connecting side, the remote systems, the run cycles, the life cycle, the ban list, the memory pool, the ordered list; proofs of
the safety properties of the passing runs, `LockGivenBack` excepted. What could follow, in this order:

1. Proofs: of what the two broken modules keep (an entry of the ban list that no other precedes is always compared; the ordered list stays ordered), and weaker conditions
   for `ActiveStaysFound`: a failed challenge only hurts the slot that was challenged.
2. The address of a datagram through `RecvFromIPV4`'s static variable, and `incomeDatagramEventHandler`, in `RunCycles`.
3. The completion and the end of a connection, once the code has them: only then do slots of remote systems come free.
