# Verification of the syscallr.js emulator

TLA+ models of the parts of the emulator that hold shared or long-lived state,
checked with TLC on small instances; the central results are proved with TLAPS
for all instances. `PROJECT.json` lists the runs, the source lines of every
definition, the hazards of the code and the findings.

    tlc -workers 2 -config PagedMemory.cfg MCPagedMemory
    tlapm PagedMemoryProofs.tla

## 1. Inventory

The emulator runs i386 Linux programs in JavaScript. All of it runs on one
event loop: code between two `await`s is atomic, and everything else can happen
at an `await`. That is what the interleavings of the models are: a step is what
one call does between two awaits.

| Part | State | Operations | What is hard, and what must hold |
| --- | --- | --- | --- |
| Guest memory (`memory.js`) | page tables of Page objects with data, permission, shared flag, reference count | map, mmap, unmap, mprotect, write8, forceWrite8, loadBytes, clone | Page objects are shared between processes after fork; counts are never decremented by unmap. Processes must not see each other's writes; mmap must not land on mapped pages. |
| Process manager (`process-manager.js`) | live and completed tables of records with waiters | spawn, run, wait, reap, signal | signal and a second run happen while run is suspended. Everyone who waits is answered, once, with the truth. |
| Futexes (`sync.js`, `syscalls.js` 240) | map from addresses to lists of suspended waiters with timers | wait, wake, requeue, timer | timers race wakes; wakes must reach waiters of other processes. |
| Byte queue (`io.js`, used by `pty.js`) | chunks, length, suspended readers | push, read, close | partial chunks, several readers served by one push. Nothing lost, repeated or reordered. |
| Block cache (`jit.js`, `memory.js` onWrite) | hit counters, decoded blocks | run, compile, invalidate | code changes while it is cached, or while it runs. Running from the cache is running the program. |
| Runtime (`runtime.js`) | a tree of runtimes with process ids and children | fork, wait4, exit, fault, execve | the child runs inside the parent's wait4; id counters are copied. One thread of control, ids that tell processes apart, every child reported once. |
| File system (`vfs.js`) | nodes with children and a parent field | mkdirp, writeFile, mkdir, open, symlink, mknod, rename, link, unlink, rmdir | two representations of where an entry is. An operation changes the paths it names and no others. |
| Overlay (`overlay-vfs.js`) | base tree, upper tree, whiteouts | all of the file system's, with copy-up | operations are several steps on several layers and fail between them. Writers leave the base alone, deleted stays deleted, written is found. |
| Kernel (`kernel.js`, `machines.js`, `xstate-lite.js`) | one runtime, a kernel actor, process actors | run, signal, events of the owner | overlapping runs share one CPU; actors drop events. The table holds who runs, whatever events are dropped. |
| System calls (`syscalls.js`) | descriptor tables, handles, pipes, event counters, epoll sets | about 200 calls | handles and positions are shared by dup and fork; sets remember numbers. Bytes and files are kept, a number in use is never handed out, reports of readiness stay true. |
| Network (`network.js`) | queues, an HTTP buffer, a WebSocket, invented addresses | connect, send, recv, sendto, recvfrom, close, events of the host | buffers read before and reset after an await; connections that end under a receiver, or are replaced; addresses that run out. Bytes in order, no receiver forgotten, the named host reached. |
| Service worker (`sw.js`; a second one in `public/`) | pending requests by number | fetch and message events, a timer | answers that come late, never, or after a restart. Every request answered, with its own answer. |
| Snapshots, archives (`snapshot.js`, `persistence.js`, `tar.js`) | a stored snapshot | save, load, mount | the order entries are installed in; links before their files; a tree that changes while a save waits. What was saved or archived comes back. |
| CPU (`cpu.js`, `arch.js`) | registers, flags | step | flags at the ends of the range, chained carries, repeated instructions that stop or fault half way. |
| ELF loader (`elf.js`, `runtime.js`) | none of its own | load, execve | segments that share pages, used memory, interpreters that fail, a stack built downwards. |
| Devices, packages, images (`devices.js`, `package-*.js`, `rootfs.js`, `ext2.js`) | caches, installed files | read, write, install, parse | installations that fail half way. |

Interaction: the runtime owns memory, CPU, system calls and file system;
fork clones memory copy-on-write and shares the file system, descriptors and
futex table; writes to memory call the block cache; the process manager and
the kernel each drive runtimes; the overlay drives two file systems.

## 2. Modules

Every component has its module, an `MC` module with the definitions that its
configurations need, and where it has proofs a `Proofs` module that extends it;
components whose proofs need the same lemmas share one.
Definitions have the names of the methods they model; definitions called
*mutant* in a comment are seeded faults, which show that the properties can
fail, and are used by no specification.

Four `MC` modules hold several components that share no state
(**MCMachineParts**: IntegerUnit, StringOps, ElfLoader, the ranges of one page
table; **MCWaiting**: FutexTable, ByteQueue, RequestBridge; **MCRunning**:
KernelActors, BlockCacheJIT, Sockets;
**MCFiles**: Descriptors, TreeImages). The initial state chooses one of them and
the others rest, so that their states add up and do not multiply; nothing is
lost by it, as no action of one part reads or writes a variable of another.

**PagedMemory** (refines **AddressSpaces**). `pages[s][p]` is the page table of
memory `s`, `heap[p][id]` the Page objects. Each public method is an action
(`map`, `mmapFixed`, `unmap`, `mprotect`, `write8`, `forceWrite8`, `loadBytes`,
`cloneCow`, `cloneDeep`), with exec and exit of the process that owns a memory.
`unmap` and `mprotect` stop at the first missing page and keep what they have
done. Addresses wrap at `NPages` as the code wraps at 2^32. AddressSpaces is
what guests expect: private bytes per process. The loader (`forceWrite8`,
`loadBytes`) writes without the copy test into whatever memory it is given, so
AddressSpaces lets a load show in a relative by fork (`forked`), on a page that
both read alike, and nowhere else. `forked` and `by`, who took the last step,
are history.

**ProcessManager** (refines **ProcessLifecycle**). `run` is two actions, up to
the await (`run`) and after it (`runReturns`, `runThrows`); in between a run may
be suspended in a system call (`blocks`, `unblocks`; `runtime.js:151`). The class restricts
neither overlapping runs nor kills of running processes; `Careful` is the set of
processes with which callers do without both, and `MaxRuns` bounds the overlap.

**FutexTable**. The lists of waiters per address, the timers, and the system
call on top. `TableOf` says which processes share a table.

**ByteQueue** (refines **ByteStream**). Chunks, length, waiters. A push, a read
and a close run to completion, the loops of `_take` and `_flush` included; these
are functions of the number of rounds.

**BlockCacheJIT** (refines **Interpreter**). Memory is a row of cells with one
instruction each. A cached block runs one closure per step, so that writes of
the block to itself are seen. Interpreter fetches every instruction from memory
as it is at that time. A system call may write, remap, or replace the whole
program (`execve`, with one of `Programs`): the blocks that the new image hits
are dropped, others stay. `Stack` says where pushes may go, `RemapsCached`
whether the mapping of cells changes, by unmap, mmap or execve, while cached
blocks made from them are left.

**ProcessTree**. Runtimes created by `forkProcess`; `wait4` is the step up to
the await that starts the child and `wait4Returns`/`wait4Throws` what follows;
`exit` and `fault` are the ways a run ends, and `blocks` and `unblocks` a system
call that suspends it, for a time or for ever. The working directory is
there twice, as in the code: in the process and in the shared file system.

**VFSTree** (refines **PathTree**). `children` and `parent` of the nodes;
`Resolve` walks down the children, while `rename`, `unlink` and `rmdir` use the
parent field. `FarLinks` says whether hard links of a file may be in several
directories, `FarMoves` whether directories are renamed onto others and below
themselves. PathTree is the promise: a map from paths to nodes, changed where
the caller said.

**OverlayVFS**. Both layers as maps from paths to entries, whiteouts, and one
open file with the layer its node is in. Failing operations are modelled with
the changes they make before they throw. `touched` is the part of the base whose
mode or owner `fchmod` and `fchown` changed.

**Descriptors**. The tables `fd` of a parent and of the child it forks, the
`handles` both refer to, and the data behind them: streams, one file, event
counters, epoll sets. pread and pwrite take any of them, as in the code, where
only files look at the position. `wait4` hands the turn to the child, `exit`
back, since a child runs inside its parent's wait4. Init chooses which calls
the guest program makes (`Program`), so that the interesting combinations are
reached without all of them at once. `put`, `got`, `log` and `seen` are history.

**Sockets**. One stream socket over either network, one datagram socket for
names. The guest is suspended in at most one `call`; the events of the
WebSocket and the end of a fetch are actions of their own. A socket can be
connected any number of times; `arrived` and `got` count the bytes of the present
connection. Bytes are numbered, so that loss, repetition and order show.

**RequestBridge**. Each fetch goes through the awaits of `routeToClients` one by
one; windows come, go and answer as they like; the worker may be stopped
between requests and then starts with fresh variables.

**TreeImages**. A tree of paths (what VFSTree is shown to implement), a stored
snapshot, and the archives that are mounted. The two ways to restore differ:
one installs nodes in the order of path lengths, the other replays operations.
An operation gives the set of its outcomes, empty if it throws; a throw ends a
mount where it is, or is passed over. Entries of unsupported types are skipped
before anything is done for them (`supported`); devices and fifos are made like
symbolic links. `Sane` says what a well-made archive is.

**IntegerUnit**. The integer instructions with results and flags as operators of
the word width; a step executes one. **StringOps**. A repeated instruction as
the iteration of its loop body. Neither decodes: operands are nondeterministic.

**ElfLoader**. Memory as page permissions and cells; `loadELF`, `loadFlat` and
`execve` with their error paths, in any order and any number, so that a load may
meet what other programs have left; files are records of what the parser reads.
`given` keeps what the caller passed, and `live` is "begun" from a load until
anything else happens. The
loops over headers, relocations and vectors are functions of the number of
passes. The assumptions say what is taken for granted: segments whose file part
is not longer than the segment and relocations of cells within them, as a linker
makes them (`LayoutAssumption`); load addresses that keep program, interpreter
and stack on different pages, as the defaults of `elf.js` do (same); a stack of
8 MB that has room for the arguments, which the code does not check
(`FrameAssumption`).

**KernelActors**. Calls of `run` as phases (loaded, running, over), `cpu` the
program in the only runtime, and the two machines as functions from state and
event to state, an event without transition changing nothing. `onePid` is how
the runtime was made (with a process id, which all its processes then get).

## 3. Runs

| Run | Result | Shows |
| --- | --- | --- |
| paged_memory_cow | pass | three memories over one page number: reference counts never too low, and refinement of AddressSpaces |
| process_table | pass | tables under kills and overlapping runs; who waits for a running process is answered, unless its runs stay suspended; careful processes end once (refinement of ProcessLifecycle) and all their waiters get one answer |
| waiting | pass | futexes: queued once iff blocked, timed waits end, repeated wakes reach everyone; byte queue: refinement of ByteStream, no reader overlooked; bridge: own replies, every fetch answered |
| running | pass | kernel: no ended process in the table of a running kernel; block cache: refinement of Interpreter, stores into code and execve included; sockets: bytes of a connection in order, no receiver forgotten, over repeated connects, and a name whose number fits in a byte is reached |
| process_tree | pass | one thread of control, children collected once; waits end, unless who would have to run stays suspended; a fault ends all who wait for its process |
| vfs_paths | pass | nodes form a tree whose parent fields are right; refinement of PathTree |
| overlay_layers | pass | paths and writers leave the base alone, changes are seen |
| overlay_base | violation | ftruncate, fchmod and fchown of a file opened for reading change the base |
| overlay_deleted | violation | chmod, or open for writing, brings deleted base files back |
| machine_parts | pass | branches decide as the numbers do, carries chain over two words, shifts compose, division undoes multiplication; repeated string instructions account for what they did; images are laid out and initial stacks parse; mmap finds free pages only |
| files | pass | bytes of streams and files are kept, descriptor tables stay apart, reported descriptors are readable; snapshots restore, archives mount |
| tar_hard_links | violation | an archive with a hard link cannot be mounted |

The violations are disagreements between the code and a statement in its docs
or comments, quoted under "findings". Where a property fails in general, the
passing run says what discipline of the callers makes it hold (constants
`Careful`, `FarLinks`, `FarMoves`, `Stack`, `RemapsCached`).

### Known deviations

Further places where TLC shows the code to do something other than its docs
say, or than Linux programs expect. Each is a property of the module, or a value
of a constant, that no configuration on disk uses; adding it to the
configuration of the component gives the trace.

| Component | To reproduce | What happens |
| --- | --- | --- |
| ProcessManager | `ExitIsFinal` (one process outside of `Careful`) | A process killed while it runs is completed a second time by its run, with another exit code. The docs promise "deterministic run/wait/kill operations" (`docs/NODEPOD_WORKAROUNDS_APPLIED.md:16`). |
| FutexTable | `RequeueMovesWaiters` | FUTEX_REQUEUE only wakes; nobody moves to the second address. `docs/SYSCALL_COVERAGE.md:12` lists "futex wait/wake/requeue subset". |
| FutexTable | `WakersFindWaiters`, `Guest = {g1, g2}`, `TableOf <- OwnTables` | The manager makes a runtime, and with it a table, per process. The docs name a "shared futex namespace" (same line 16). |
| PagedMemory | `PermissionsArePrivate`, with `PermSets` of two members | mprotect after a fork changes the permission of the Page object both processes hold. |
| ProcessTree | `CwdIsPrivate` | chdir of a forked child moves the working directory of the VFS its parent shares. |
| BlockCacheJIT | `RunsTheProgram`, `Stack` overlapping `Exec` | A block that overwrites one of its own later instructions runs the old one. `src/jit.js:9-11` calls invalidation "the hard requirement for self-modifying code". |
| BlockCacheJIT | `CachedCodeIsCurrent`, `RemapsCached = TRUE` | unmap and mmap do not invalidate, and execve only what its image writes over: the old code stays cached. `tests/parity.mjs:38` says "without changing observable output". |
| VFSTree | `NodesFormATree`, `FarLinks = TRUE` | unlink and rename of a hard link in another directory act on the directory of the first link. |
| VFSTree | `KeepsPaths`, `FarMoves = TRUE` | A directory renamed below itself is lost, one renamed onto a populated directory drops its content. |
| OverlayVFS | `NewEntriesCanBeMade` | mkdir, and open with O_CREAT, fail in a directory that only the base has. |
| ProcessManager | `StartedWaitersAnswered` | `wait` of a record that has already faulted is queued after the last drain and never answered (`src/process-manager.js:25`). |
| Sockets | `NameRoundTrip` | Invented addresses are numbered without a limit and answered with a byte of the number: once the numbers have run out, a name is answered with the address of another, and the connection goes there. `docs/ALPINE_DEMO.md:30` says that the adapter "maps it back to the original hostname". |
| KernelActors | `OwnResults` | A second `run` replaces the CPU the first one is stepping: a call returns the exit of the other's program. |
| KernelActors | `RunningIsListed` | After a fault the kernel actor drops SPAWN events, so processes run that it does not list. `README.md:45` says that lifecycle and process creation "flow through the XState-style actors". |

Further deviations show in the definitions themselves, which follow the code:

- PagedMemory: a program loaded with `loadFlat` or `loadELF` into a memory that
  has forked is written into Page objects that the relatives still hold, and
  shows there. The runtime's own execve makes a new memory first.
- IntegerUnit: `sub` derives the overflow flag from the subtrahend with the
  borrow added, which is wrong for sbb of 7f..f with a borrow; `adjust` likewise
  for adc and sbb of a nibble f; rcl and rcr are shl and shr; sar by more than
  the width takes its carry from a bit that is not there. loope and loopne are
  swapped (`src/cpu.js:728-729`, not modelled). A repeated string instruction
  that faults leaves ecx as it was while the pointers have moved.
- ElfLoader: the stack pointer a program starts with is not aligned to 16;
  position-independent images are relocated by the loader although their own
  startup code does it again; an execve that fails after the file was read ends
  the process, its memory being gone; a load into used memory keeps the pages
  that were there.
- Descriptors: descriptor numbers are never used again below `nextFd`; close of
  0, 1 and 2 does nothing; dup2 does not close what it replaces; a read of an
  empty pipe returns 0 while there are writers; pipes are never reported
  readable; the epoll set of a forked child looks into its parent's table and
  writes into its parent's memory; pread and pwrite of a stream read and write it
  like read and write; a refused pread or pwrite leaves the position moved; a read beyond the end moves
  it back. A read whose buffer faults has used up its data. A socket that dup or
  fork has copied is closed with the first close of any copy.
- Sockets: a connect that fails leaves the socket marked as connected, so that
  send drops its data and reports success and recv waits for ever; so does recv
  of a socket that was never connected; datagrams that wait together are read
  as one; a send on a closed WebSocket reports success. Requests sent before the
  first is answered are merged into one fetch. A second connect of a socket
  replaces the connection when it is open: what the first had queued, or still
  receives, is lost, and the first is never closed. Configured hosts in the range
  that is given out collide with invented ones, which the runs and
  `NamesReachTheirHost` exclude.
- RequestBridge: with two windows the body is transferred to the first, so the
  message to the second throws and the fetch fails; numbers that timed out stay
  pending; nothing in the repository answers `openx86-request`. An answer from
  an earlier life of the worker can be taken for a request with its number,
  which `OwnReply` allows.
- TreeImages: a snapshot turns hard links into copies; createTar cuts names at
  100 bytes (names are atoms in the model).

### Bounds

- PagedMemory: three memories are the least with a page shared three ways, so
  that a copy leaves two sharers. Four identities always leave a fresh one. Two
  offsets show a copy that loses bytes. The top page cannot be mapped (a range
  that reaches 2^32 wraps to an empty one), so `NPages = 2` is one usable page.
  `MaxRefs` bounds the count. The view leaves out objects nobody holds. Ranges
  are checked with one process and three page numbers (machine_parts): a range
  below, over and beyond the top.
- ProcessManager: three ids and a limit of two exercise the limit; two waiters;
  two careful processes, one of them older and one younger than a process that
  is run twice at a time and killed while it runs.
- FutexTable: three guests give a queue with a middle, two addresses a target
  for requeue. ByteQueue: pushes of one and two and reads of up to three bytes end inside, at
  and beyond a chunk; two readers suspended at once; three bytes queued.
- BlockCacheJIT: three code cells and blocks of two give overlapping blocks and
  a store into either half. Hot after two visits. execve loads a program over all
  cells or over some of them.
- ProcessTree: four runtimes give chains, siblings and mixes. Exit code 257
  distinguishes the code from its low byte.
- VFSTree: three nodes, two names, depth three: a file in a directory in a
  directory, or two directories with a file in one. OverlayVFS: a base with a
  directory and a file in it, beside names that only upper has; depth two;
  contents either as in the base or changed.
- IntegerUnit: 3-bit words have a smallest number, zero, one and minus one, and
  TLC executes every instruction in every state; counts up to 7 pass the width
  twice. AF is bit 2 instead of 4. StringOps: four mapped cells and one that is
  not, counts to 3, both directions, overlapping operands.
- ElfLoader: pages of four cells, two segments that share a page, bss, five
  files: static, position-independent with interpreter, an interpreter, a broken
  one, and one of an unsupported type; two argument vectors, one environment;
  program, interpreter and stack on neighbouring pages.
- Descriptors: three numbers beyond the standard ones and four handles: a pipe
  and its copies, or two handles of one file, in two processes; three bytes per
  stream. TreeImages: trees of four paths in which a directory has a longer name
  than what is below another; archives with a hard link before its file, an entry
  of an unsupported type and something behind the end.
- Sockets: three bytes arrive in chunks of one and two and are read in ones and
  twos; two sends; three hosts, one of them configured or not, and bytes of two
  values, so that two numbers fit and one does not. RequestBridge: two
  requests, two windows, two lives of the worker.
- KernelActors: three calls give one that is overlapped on both sides, or one
  that comes after two that overlapped.

### Fairness

- ProcessManager (`process_table`): strong fairness of the end of a run. Its step
  limit ends a run that takes steps; one that is suspended in a system call
  (`runtime.js:151`) takes none and has no timeout, and nothing makes the call
  return, so the end is not weakly fair and `unblocks` is not fair at all.
  Strong fairness says that a run which comes back from its system calls again
  and again reaches the limit. `RunningWaitersAnswered` has the exception that
  follows: the runs of the process stay suspended for ever.
- FutexTable: weak fairness of timers and of resuming a resolved promise, which
  the event loop gives. Wakes are not fair: `WakesReachEveryWaiter` assumes them.
- ProcessTree: the same, strong fairness of a run's end, for the process that has
  control, and weak fairness of a resolved await being resumed. `WaitsEnd` has the
  exception that the one process that could run stays suspended (`TreeIsBlocked`).
- RequestBridge: weak fairness of the worker going on with a request it has
  begun and of its 30 s timer. Windows are not fair: they need not answer.
- No other component has a liveness property. ByteQueue needs none: its methods run
  to completion, and `NobodyWaitsInVain` says after each of them that no reader
  is suspended who could be served.

`CHECK_DEADLOCK FALSE` is set where the system may stop for good: all processes
ended, ids used up, callers finished.

## 4. Proofs

All proofs are inductive invariants: `Init => IInv`, `IInv /\ [Next]_vars =>
IInv'` with one step per action, and the properties from `IInv`.

**PagedMemoryProofs**, from: finitely many memories, and an identity nobody
uses for each new Page. `IInv` has, per object somebody holds, that the count is
at least the number of holders and that shared means count above one
(`Counted`); that only memories that have forked share (`SharersHaveForked`);
that dead memories are empty. The count may be too high (unmap, execve and exit do not decrement it),
which costs a copy but never a leak; the proof is that no action makes it too
low. From it follows the refinement `PrivateSpaces`: a write in place is to an
object with one holder, so the bytes other processes read do not change, and a
write of the loader is to an object whose other holders are relatives that read
the same.
`MmapTakesFreePages` needs types only: what findFreeRegion returns is the
smallest start from which all pages are free (`SmallestExists`,
`FreeRegionIsFree`), and the range that map visits lies within it, since a
wrapped end is below the unwrapped one (`RemainderBelow`).

**ProcessManagerProofs**, for any callers: tables, waiters and answers, with
ids that were never handed out having no trace (`FreshPidsUnused`). For the
processes in `Careful`, whatever set that is, the invariant also has that a run
under way is the only one and of a process in the live table (`RunsAreLive`) and
that answers are what the record says (`AnswersMatchRecords`); from it follow
`AnswersAgree` and the refinement of ProcessLifecycle.

**RuntimeProofs** has two parts.

- The loader, for every file, address and page size that the assumptions allow,
  and whatever earlier loads and programs have left in memory. The invariant of
  the specification (`LoaderInv`) is that memory is one, and what the two
  properties say of a program that has just begun; the work is in the loops, by
  `Climbs`. After k headers a cell holds the word of the last of
  them over it, or what it held before, and a page has the permissions of the
  last on it (`SegmentsDone`). After k relocations it has been moved by the load
  address for each RELATIVE entry among them that names it and by its own address
  for each PC32 (`RelocationsDone`; the numbers of entries are cardinalities, and
  remainders may be taken at the end, `RemainderOfSum`). What one image covers is
  on pages that neither the other nor the stack has, so it survives both
  (`OthersStay`, `FrameLeavesImages`): `ImagesAreLaidOut`. After k pushes the last
  k elements lie below the old top and nothing else has changed
  (`PushedLast`). The strings end at or above the aligned stack pointer and the
  vectors go below it, so each pointer finds its string (`FrameBuilt`); the place
  of every entry in the vector (`VectorFacts`) and of the first entry with each
  tag (`TagFinds`) give `FramesParse`.
- The tree of processes, for any number of runtimes. Ids are not unique in a
  tree, since counters are copied, so the invariant is about the processes that
  are under way: they form one chain, each waiting for the next, along which ids
  and counters grow (`WaitingIsAChain`), and a fork happens only at its end. With
  `TreeShape` (who is whose parent, who may be in `children`) this gives one
  thread of control, distinct ids, and that each child is collected once.

**KernelProofs** has two parts.

- Actors, for any number of calls, overlapping, with resets at any time: an idle
  kernel has an empty table and the process of a call under way is running;
  hence no dead process is in the table of a running kernel (`NoDeadInTable`).
- Descriptors, for any programs, table sizes, bytes and bounds. `DescInv` adds to
  the properties that tables name handles that exist and the child has a table
  only while it lives (so a fork inherits no report); that there is one event
  counter at most; and that the only handle of a file, while nothing but writes
  moves it, is at its end (`AtTheEnd`), which is why a write to the shared
  position is an append. `TablesAreApart` follows from `FreeIsFree`: what allocFd
  returns is free, also where dup2 has filled numbers at or beyond `nextFd`.

**CPUProofs** has three parts.

- The block cache, for guests that are `WellBehaved`: their stack is not in their
  code and nobody remaps cached code (the deviations above show that neither can
  be dropped). `IInv` says that every cached block is what memory holds now
  (`CachedCodeIsCurrent`: a store drops every block that reaches over the cell)
  and has only its last instruction end it (`BlocksAreStraight`). A block that a
  store has dropped runs on, so a third part is about the one that runs: what is
  left of it is what memory holds from eip on (`CurrentFollowsEip`), which
  survives since in a block only the last closure writes outside of the stack.
  execve comes only as a last closure or between blocks, and leaves no block that
  is not what the new memory holds (`ExecveKeepsCache`).
  Hence each step of the cache is a step of Interpreter (`JitRefinesInterpreter`).
- The integer unit, for every `Width`, 32 among them. The invariant is only that
  registers hold words; the properties are about arithmetic. Induction over sets
  of numbers (`Climbs`) gives the powers of two and that a set of bits is the set
  of bits of one word. A word has its sign bit or is below half of `Modulus`, so
  that the flags of add and sub are comparisons of sums with `Modulus` and its
  half, from which the conditional jumps follow (`BranchesAlwaysDecide`). The
  carry is the multiple of `Modulus` that a sum has lost, which adds up over two
  words (`WideArithmeticIsExact`). Rotations are two parts of a word changing
  places, shifts products and quotients with powers of two
  (`ShiftsAlwaysCompose`). `DivisionIsExact` is the uniqueness of quotient and
  remainder, for signed numbers with the sign of each.
- The string instructions, for every address space, mapping, direction and
  overlap of the operands, and counts that are not larger than the address space
  (`StringAssumption`), so that no round meets a cell a second time.
  `AfterRounds` says what k rounds have done: how far pointers and count have
  moved, which cells were written and with what, what was loaded last, how the
  comparisons went. In a copy onto itself a round may read what an earlier one
  wrote: what it reads is an original element or a copy written a fixed distance
  (`Gap`) before, so that the first `Gap` elements repeat (`Source`, as `CopyOf`
  says). When the loop stops, its number of rounds is `Due`, and the final state
  is the one `RepAccounts` describes (`RepetitionsAccount`).

**WaitingProofs** has four parts.

- Futexes: `QueuedOnceIffBlocked` counts places in lists; its inductive form says
  that who is queued is blocked at that address, who is blocked is queued, nobody
  is in a list twice, and timers belong to waits under way. Without the last a
  timer left over by a wake could cut a later wait from its list.
- Bridge: `OwnReply` holds since, within a life of the worker, numbers are
  distinct and below `nextId`, and posts and replies carry the number of the
  request they are for (`MessagesFit`), also when the request has timed out.
- Sockets: `SockLinks` says who may wait for what, `BytesKept` that the bytes
  read, those in the socket's queue and those in the connection's queue are the
  ones that arrived. Queues are lists of chunks that are cut anywhere, so the
  proof rests on facts about flattening (`FlattenAppend` and others, by induction
  over sets of numbers, `Climbs`) and on `TakeKeeps`: what takeBytes returns and
  leaves is what was there. They are about the present connection: a connect that
  fails leaves it, one that succeeds starts with nothing queued. For
  `NamesReachTheirHost`, names and numbers correspond and what a guest is told is
  a byte of the number of the name, so that a number below `Octet` comes back to
  its name; hosts and numbers are unbounded. It assumes `ConfiguredApart`:
  configured hosts have distinct numbers below the first that is given out.
- Byte queue: `QueueInv` says that the cached length is that of the chunks, that
  who is in the list waits for an answer and is there once, and that nobody is
  there beside data or after the end (`NobodyWaitsInVain`). It does not hold
  within a push, so the proof goes through the rounds of `_flush` and, in each,
  of `_take`: what was taken and what is left is always what was there, cut at
  some place. A push is then one step of ByteStream, which deals its bytes out to
  the readers in their order (`QueueIsAStream`).

**FileTreesProofs** has two parts, on paths and prefixes that come first.

- The overlay, over any base that is a tree, with the replacement of a path's
  beginning (`SwapBack`, `SwapPrefix`). `IInv` says that every entry of the upper
  tree has all the directories of its path there (`Rooted`; `LayersFit`, which no
  run checks, is its last step), that whiteouts hide what the base has and that
  no file of the base is open for writing. `Rooted` is kept by mkdirp with an
  entry at its end, by taking out all that is below a path, and by moving it
  (`PutKeeps`, `DropKeeps`, `MovedKeeps`: a rename that CanRename accepts goes to
  a path whose directories are not among what is taken or replaced).
  `ChangesShow` needs it: nothing is in the way of a file that is there
  (`NotBlocked`), so writeFile cannot fail on one and leave the old content.
  `WritersStayAbove` follows from the last part: `write` goes to files opened for
  writing, and these are in upper. The run overlay_base shows how the files that
  were opened for reading let the base be changed.
- Images, from `ImageAssumption`: the VFS holds a tree at first, and no entry of
  an archive is the root. `ImageInv` says that the VFS is a tree (`WellFormed`)
  and that a stored snapshot lists each path of one with no directory after what
  is below it (`Ordered`). A walk is such a listing; the order by path length is
  one since a path is longer than its directories (`PathSize`). Installed in such
  an order, the first i entries make exactly their part of the tree (`Part`): no
  entry finds its way blocked, and none replaces an earlier one
  (`SnapshotsRestore`). For `ArchivesMount` the invariant of the first loop is
  that the entries so far are there and of their types, which later entries keep
  as the archive is sane; the second loop adds links and changes no path. Where
  no error is passed over (`StrictFirst`, `StrictSecond`) each entry has done its
  work. Where errors are passed over and the tree was empty (`FreshFirst`,
  `FreshSecond`), the tree holds only what the archive makes, so that the only
  errors are the lookups of hard links.

**VFSTreeProofs**, for callers that keep to the two disciplines: no hard link in
another directory than the file (`~FarLinks`), and no directory renamed onto
another or below itself (`~FarMoves`). The deviations above show what happens
without them. The invariant is about the directories that a path leads to
(`Good`): an entry of such a directory is a node whose parent field is that
directory, a directory is an entry once, and no path is longer than `Depth`;
nodes that no path leads to are free (`Clean`), which a new node needs. So the
directory that unlink, rmdir and rename take from the parent field is the one
that the path went through, and `NodesFormATree` follows. For `NodesKeepPaths`,
the refinement of PathTree, each operation is shown to change what `Resolve`
gives for the paths it was given, and for those below a directory that moved,
and for no others.

Only model-checked is all liveness (`TimedWaitsEnd`, `WakesReachEveryWaiter`,
`EveryFetchAnswered`, `RunningWaitersAnswered`, `WaitsEnd`,
`FaultsReachTheRoot`): fairness is outside of the prover's reach.
`MmapKeepsMappedPages`, which machine_parts checks on an instance of PagedMemory,
is the property that `MmapTakesFreePages` proves there.

## 5. Plan

Modelled, in this order: memory, process manager, futexes, byte queue, block
cache, process tree, file system, overlay, kernel; then integer unit, string
instructions, loader, descriptors, sockets, service worker, snapshots and
archives. Proved, in this order: memory, process manager, process tree, kernel,
block cache, futexes, service worker, sockets, descriptors, overlay, file
system, integer unit, byte queue, snapshots and archives, string instructions,
loader. Next:

1. brk and mmap of the system calls composed with the loader.
2. The second service worker.
3. ProcessTree composed with FutexTable and ByteQueue: who can still wake a
   child whose parent is suspended.

## 6. Not modelled

`BlockingSlotPool` and `SyncPromise` (`sync.js`), the second actor library
(`xstate-orchestration.js`), the second relocator of `elf.js` and the handlers
of `signals.js` are called by nothing in the repository. ext2 images, root file
systems and package indexes are parsed in one pass and keep nothing between
calls; the devices are caches in front of host stores that only the ext2 reader
uses. The gateway tool is pure I/O; the command line, benchmarks, diagnostics
and re-exports keep no state. Within modelled parts: contents of messages and
errors, file modes and times, following of symbolic links, directory listings, file watchers,
decoding of instructions, floating point and SSE, and system calls that only
format what another component returns.
