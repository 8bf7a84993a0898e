# A TLA+ development of OpenBLT and its neighbours

The repository holds OpenBLT, a microkernel system (`src/openblt`), two Unix utilities built on an
event loop (`src/utils`) and applications for the Hiptop (`src/hiptop`). This directory holds TLA+
specifications of them, their TLC configurations, and proofs checked by TLAPS.

The kernel comes first and is modelled as handlers that interleave, with its abstract specifications and
proofs. Around it stand the memory of the kernel and of programs, the servers, their drivers and the loaders, the
proxy of `src/utils`, and of the Hiptop applications the Z-machine and the calculator.

## 1. The system

### Components, their state and their operations

| component | source | state | operations | what makes it correct |
|---|---|---|---|---|
| scheduler, wait queues | `kernel/kernel.c`, `task.c`, `resource.c`, `list.c` | `current`, `run_queue`, of each task `flags`, `waiting_on`, `status`, of each resource its queue | `rsrc_enqueue`, `rsrc_dequeue`, `task_wake`, `wait_on`, `swtch`, `preempt`, `rsrc_release` | a task is in one place, the one it says; none is lost; no sleeper outlives what it sleeps on; round robin |
| semaphores | `kernel/sem.c` | `count` | `sem_create/destroy/acquire/release` | count and sleepers agree; first come first served; a destroyed semaphore gives no unit |
| threads, teams, reaper | `kernel/syscall.c`, `task.c`, `team.c`, `kernel.c` | id table, `team`, `refcount`, `resources`, `reaper_queue`, `reaper_sem`, `live_tasks` | `thr_create/spawn/wait`, `terminate`, faults, `reaper`, `task_destroy`, `team_destroy` | each death is reclaimed once; the dead do not run; a team goes with its last thread, and with all it owns |
| time | `kernel/syscall.c`, `fault.c` | `kernel_timer`, `timer_queue`, `wait_time` | `os_sleep`, `timer_irq` | sleepers wake |
| ports | `kernel/port.c` | message list, `msgcount`, `slaved`, `refcount`, `nowait`, two queues of sleepers | `port_create/destroy/option/send/recv` | bounded FIFO; no sleeper is forgotten while its message or place is there; a master outlives its slaves |
| interrupts | `kernel/syscall.c`, `fault.c`, `jump.S`, `i386.c` | `irq`, `irq_task_map`, the 8259's mask, request and in-service registers | `os_handle_irq`, `os_sleep_irq`, `irq_dispatch`, end of interrupt | no interrupt is dropped; only a task on no queue is preempted to |
| identifiers, areas, address spaces | `kernel/resource.c`, `aspace.c` | `rmap` with a LIFO free list, page tables, page groups with counts | `rsrc_bind/find/release`, `area_create/clone/destroy/resize`, `thr_spawn`, the end of a team | an id names one object; a page is free or used once; a page table shows what the areas say |
| kernel memory | `kernel/memory.c` | lists of physical pages, virtual pages and blocks | `getpage`, `kgetpage`, `kfreepage`, `kmalloc`, `kfree`, which call each other | a page or block has one holder |
| malloc | `lib/libc/malloc.c` | chunks, bins, `binblocks`, `last_remainder`, the break | `malloc`, `free`, `realloc`, `memalign`, `malloc_trim`, `sbrk` | chunks tile the heap; free memory is merged, listed and found |
| hash table | `lib/libblt/hash.c` | slots, `used`, `dirty` | insert, lookup, remove, rebuild | what is in it is found; the loops end |
| user semaphores, descriptors | `lib/libc/qsem.c`, `lib/libposix/fdl.c` | a counter in user memory over a kernel semaphore, `fd_table` | `qsem_acquire/release`, `_fdl_alloc_descriptor`, `_close` | mutual exclusion, no lost unit |
| Connection, Message, namer | `lib/libblt`, `srv/namer` | name list, a port per connection and call, the chunks of a message in one block | `FindService`, `CreateService`, `Call`, `Put...`, `Get...` | a name has one port; a call gets its own reply; a message tells what was put in |
| VFS server | `srv/vfs` | connections, descriptors, cookies | its message loop, replies in several messages | a descriptor belongs to one open file; call and reply stay in step |
| ffs driver, block server | `srv/vfs/drivers/ffs`, `srv/ide` | vnodes, inodes, partitions, one block area per client | mount, walk, opendir, read; `blk_open`, `blk_read` | the bytes of the file; balanced vnodes |
| console server | `srv/console2` | screens, back buffers, the terminal's state | its two threads, save and load, `vt100` | no text is lost; nothing is written outside the screen |
| ne2000 server | `srv/ne2000` | packet buffers, the card's ring and registers | three threads, transmit and receive | a buffer in one place; no lost wake-up |
| netboot | `netboot/` | the loader's and the tool's block numbers, the card | load, acknowledge, execute | the image that starts is whole |
| network server, libdl | `srv/network`, `lib/libdl` | modules, `iflist`, mbufs, the queue of ethernet | loading, probing, configuring, arp | frames in turn, replies sent, commands that end |
| boot | `util/bootmaker.c`, `boot`, `kernel/kernel.c`, `srv/init`, `srv/vfs/bootfs.c`, `lib/libposix/exec.c` | sections, the image with its directory, teams, the inodes of `/boot` | `makeboot`, `bootstrap`, `go_kernel`, `init`, `execve`, the boot file system | what runs and what is read is the file the section named |
| window server, libwin | `srv/window`, `lib/libwin` | regions, the tree of windows, invalid regions, the frame buffer and what the cursor covers, the send buffers of clients | create, destroy, show, hide, front, paint, draw, move the cursor; commands on their way | windows do not draw over each other; what is uncovered is painted; what was asked for is on the screen; commands arrive whole |
| fish server | `srv/fish` | the fish of each tank, its neighbours, packets on the way | `fishmain`, `vloop`, moves, ejection and return of fish | a fish is in one place; a tank counts its own |
| event loop, proxy | `src/utils/fdevent.c`, `watcher.c` | wanted and pending events, two streams per connection | `fdevent_set`, `fdevent_loop`, callbacks | callbacks reach live streams only; bytes in order; both sides go on |
| Z-machine | `src/hiptop/zmachine` | frames, stack, objects, text, screen, two threads | instructions, save and restore, reading a line, pauses | a caller finds its stack; a tree stays a tree; nobody waits for nothing |
| calculator | `src/hiptop/rpn` | decimal numbers | arithmetic, rounding, printing | close to the exact result |

`PROJECT.json` lists all components, with the ones that are partly or not modelled and why.

### How they interact

User threads enter the kernel through one interrupt gate (`syscall`), devices and the
timer through others. The kernel runs on one processor (`__SMP__` is not defined by
the build) **with interrupts off**, so a handler is atomic up to the place where it gives
the processor away: `swtch` (from `wait_on`, `terminate`, `os_sleep`, `timer_irq`,
`os_sleep_irq`) or `preempt` (from `sem_release` and `irq_dispatch`). There it stops in
the middle, any number of other calls run, and it goes on when the task is switched to
again, with local variables that may be stale by then. No test of the repository reaches these
interleavings: the one that tries (`bin/tests/tests.cpp`) is commented "the system quickly wedges when I do this" and
"the kernel code looks like it might not handle this case properly".

Components share the tasks and their queues. A port wakes tasks through the scheduler; a
thread that dies wakes those in `thr_wait` and, through `reaper_sem`, the reaper, which
destroys the task, its team, and the semaphores and ports of the team; destroying any of
these wakes its sleepers with `ERR_RESOURCE`.

Outside of the kernel everything is threads and messages. A program finds a server through the namer, sends it
messages through ports and waits for the reply on a port of its own; large data goes through shared areas. The servers for devices
have two or three threads each: one asleep in `os_sleep_irq`, one in `port_recv`. They share lists under user
semaphores, or under none. The VFS server calls the block server, the network server calls functions that
it loaded and bound by name. The proxy is one thread with callbacks that change each other's state while the loop holds a list of them.
The Z-machine has the interpreter's thread and the thread of the user interface.

### What is hard

The hazards are listed in `PROJECT.json`, each at its line. The main families:

- *kernel*: a task on two queues or on none; wake-ups lost between a count and a queue; several deaths before the
  reaper runs; sleepers on what is being freed; a thread that was woken but did not run when its
  object went away; the end-of-interrupt that waits for the interrupted task; counters that wrap;
- *memory*: allocators that call each other in the middle of their own work, pages shared between teams that die in any order,
  marks that are allowed to be stale;
- *servers*: a reply in more messages than the client reads; a descriptor that outlives its file; a buffer passed along three threads
  and a card; a blocking send to somebody who does not read; a loop over entries that are removed meanwhile;
- *networks*: blocks and acknowledgements that are lost, doubled or reordered, and a card with two slots;
- *long sequences*: collisions and removals in a hash table, splits of a region, saves and restores, escape sequences.

## 2. The modules

| module | what it is |
|---|---|
| `Sched` | The scheduler as operators on one record `k` (`KState`): every C function that moves tasks maps a state to a state. No action: handlers are compositions of these, in the order of the code. |
| `Threads` | Semaphores, threads, teams, reaper, time. One action per system call, one per place where a call comes back from `swtch` (`...Resume`), the timer interrupt, the reaper. |
| `SemSpec` | What semaphores promise, with no scheduler. `Threads!Promise` is the refinement mapping. |
| `Ports` | `port.c` over `Sched`, for threads that exist from the start. |
| `PortSpec` | What ports promise: bounded FIFO queues. `Ports!Promise` is the mapping. |
| `Irqs` | Device interrupts over `Sched`, with the interrupt controller. |
| `Areas` | Identifiers, page groups, areas, address spaces and the teams that own them. |
| `Kmem` | The kernel's three allocators on top of each other. |
| `Malloc` | dlmalloc with the sizes of the code, up to `sbrk`. |
| `Hash` | The hash table with open addressing. |
| `Fdl` | The descriptor table under a user semaphore, every access to memory a step, in both builds of `qsem.c`. |
| `Namer` | Programs, their ports, the namer and a service. |
| `Vfs` | The server's loop and its clients. |
| `Disk` | Partitions, the block server and the ffs driver, down to the sectors. |
| `Console`, `Vt` | The two threads of the console server; the terminal, character by character. |
| `Ne2000` | The server's three threads, the core of its driver, and the card with its ring. |
| `Netboot` | Boot loader, host tool, card and a network that loses, repeats and reorders. |
| `Network` | The server with modules, `libdl`, mbufs, ethernet and arp, and a card. |
| `Region`, `Windows` | The rectangles of `Region.cpp`; the tree of windows and clients that paint. |
| `Drawing` | Clipping, the renderers and the cursor, point by point, over `Region`. |
| `Wire` | The clients of the window server, their buffers, and how it reads their commands. |
| `Message` | The chunks of a `Message` and their memory. |
| `Boot` | From the `.ini` files of `bootmaker` to what `init` starts and `/boot` serves. |
| `FishTank` | The tanks with their two threads each, and the packets between them. |
| `Watcher` | The event loop as operators on a dispatcher, and the proxy's callbacks on it. |
| `ZMachine`, `ZObjects`, `ZText`, `ZFront` | Stack and frames; objects and properties; lines, words and texts; the screen with its two threads. |
| `Hipfloat` | Decimal numbers with few digits. |
| `MCThreads`, `MCPorts`, `MCIrqs` | Values of the constants for TLC, symmetry. |
| `MCMemory`, `MCServices`, `MCDevices` | The same, for several modules in one run: `part` says at the start which of them moves, the others keep their first state. |
| `SchedProofs` | Lemmas: what each operator of `Sched` does to types, to the places of tasks, to the scheduler's invariant. |
| `ThreadsProofs` | The safety of `Threads`, and that it implements `SemSpec`. |
| `OwnersProofs` | Teams, what they own, and death; extends `ThreadsProofs`. |
| `PortsProofs` | The safety of `Ports`, and that it implements `PortSpec`. |
| `IrqsProofs` | The safety of `Irqs`. |
| `ServersProofs` | The safety of `Console`, `Fdl`, `Netboot`, `Vt` and `Namer`. |
| `MemoryProofs` | The safety of `FishTank` and `Kmem`. |
| `WatcherProofs` | The safety of `Watcher`. |

### How state and actions correspond to the code

*Scheduler state* `k`: `queue[o]` is `resource_t.queue` (a sequence for the linked list), `waiting_on`,
`flags`, `status`, `wait_time` are the fields of `task_t`, `current` and `live_tasks` the globals. The run
queue, reaper queue and timer queue are resources like any other, as in the code; so a task on the run
queue is `tWAITING`. `stop` says that the machine left the kernel (`exit`: `destroy_kspace`) or used a
pointer that is no task or no port (`wild`); nothing is claimed of what follows.

*Control*: `pc[t]` says where a task resumes. In `user` it may make any call or be interrupted; in
any other place only its own resumption is enabled, since interrupts are off: a switch to a task in the middle
of a handler runs that handler on. Reaper steps are separate actions (`ReaperAcquire`, `Reap`,
`TeamDestroyNext`, `TeamDestroyEnd`) only so that each stays readable; the reaper is never interrupted
(`cli` at `kernel.c:81`) and gives the processor away only in `sem_acquire`.

*Threads* are the slots of the constant `Thread`: a slot that was reclaimed may be created again. `bound` is what `rsrc_find` finds. `resources` keeps the order of
the team's list, which decides the order of `team_destroy`. Faults end in the same `terminate` as
`os_terminate` and are the same action. Areas, page directories and stacks are in `Areas`, and names are left out.
`res` is what the last `sem_acquire` returned, for the refinement; other results follow from the guard.

*Choices left open*: which call with which argument comes next; when the timer ticks. `rsrc_queue_peek`
(`resource.c:162`) returns no value for an empty queue, which is undefined: the constant `StrayPeeks` says
whether the stray value may look like a task that is due (the machine goes `wild`) or not.

*Ports*: `call[t]` holds the local variables of a blocked `port_send` or `port_recv`. `port_destroy` frees
the `port_t`; a thread that holds a pointer to it and was woken with `ERR_NONE` before is in `stale`, and
going on makes the machine `wild`. A message is its source and destination port; `Fits` says whether it
passes the check of size and place that comes *after* the wait. `PORT_OPT_SETRESTRICT` sets a field that is never read and is left
out, as are the bounds check of `port_recv` and the memory of messages.

*Interrupts*: irqs 1 to 7 of one edge triggered 8259 in fully nested mode, as `remap_irqs` programs it;
the timer, irq 0, goes before all and ends itself first. `pc[t] = "eoi"` is a task in whose stub the
end-of-interrupt is still to come. `Raise` and `Presents` are the hardware, modelled from that programming.

*Memory.* In `Areas` a system call is one action (no call of `aspace.c` gives the processor away); its state `s` has the id table, the
two free lists, page tables as functions from virtual page to page. A page of the kernel that a call takes and keeps
(tables, stacks) is named, and so counted. In `Kmem` a page, a virtual page and a block are
numbers; the recursion of `kmalloc` through `kgetpage` and back is composed of operators. `Malloc` keeps addresses, sizes in
bytes, the flag bit `pinuse` and the footer of each chunk, and bins as sequences; a program's calls are the actions.

*Programs and servers.* Each thread has a `pc` at the places where it waits or where others can come between: at every access to shared memory
in `Fdl` and in the locked parts of `Console`, at every message elsewhere. In `Vfs` a reply is the list of messages the server
still has to send, each of which can wait for room. In `Namer` port numbers come from a pool and are used again, as in the kernel. In `Disk` an image is
built once from an inode table, directories and files; a sector is its contents as one value, and every read goes through the block server, whose state other
clients move. `Console` counts the text of each console; `Vt` has the cell addresses.

*Cards.* The ring of the ne2000 with `curr`, `bnry`, its overrun and its interrupt register is in `Ne2000`, with the boundary that the
driver writes outside of the ring; `Netboot` and `Network` have a queue of frames for it. Frames
and blocks are numbers. The network of `Netboot` is two sets: a message stays, so it may be lost, come twice and out of order; RARP replies are there from the start, as answers to earlier requests. What the card takes while the user is at the console is lost, so `UseConsole` is one step.

*Modules of the network server.* `dl` is the list of libraries with their copies of globals; a symbol is bound to the first
library on the list that has it. An mbuf is a number, the pool is one array with a link per mbuf, and what the code writes past an mbuf it writes there too.

*Windows.* Region operations are `Region.cpp` on small coordinates. `Windows` uses sets of points on a screen of one row, in which exactly the same decisions fall.
`Drawing` has the frame buffer as a function of points; a request becomes the renderer's calls that clipping makes of it, and each call is three steps (the cursor goes, the
points are drawn, it comes back), between which the mouse's thread may come. `Wire` has bytes that know their command, so that a reader that takes a wrong one is seen (`garbled`).

*Fish.* A fish is its name, so that a fish that is nowhere or twice is seen; `fate` says how it left, where the code loses it. A tank's two threads take turns at the places where one of them holds no lock;
the network may lose, repeat and delay every packet.

*Messages and boot.* In `Message` a chunk is its type, id, length and a value; `overrun` says that one was written beyond the block. In `Boot` a file is its name and a byte of
it `<<file, n>>`; lines of an `.ini` file are records of what they say, and the image is pages of such bytes.

*The proxy.* `d` is the dispatcher; `sock[s]` has what the other end sent and took. One action is one callback, whole, or one event of a socket's other end.

*Z-machine*: bytes of a story are abstracted to what an instruction does with frames, stack, globals; property tables are the bytes themselves. *Calculator*: digits are to the
base `Base`, and a result is compared with the exact one in the integers.

*Where the code goes wrong* the model does too, and remembers it, so that a property says exactly what is left: `passed` are the queues of ports for which a wake-up was lost, `misled` that a program made the terminal write
outside of its screen, `dangling` that a region was read in an array that had moved, `wiped` what a window filled of what others show, `wrong` by whose doing the screen of a game was left, `late` the accesses to streams that were freed.

A definition that has the name of a function with an ending (`...Late`, `...Kept`, `...Only`) and is called a *slip* in the comment above it is a plausible bug in that function. No specification
uses it: see section 3.

## 3. The runs

| run | instance | what it shows |
|---|---|---|
| `threads_teams` | 3 threads, 2 teams, 1 semaphore, no naps | `TasksKept`: types, queues, `waiting_on` and flags agree, no thread is lost, no sleeper outlives what it sleeps on. `CountsMatch`: counts and sleepers, `reaper_sem` and the dead. `OwnersMatch`: `live_tasks`, references, lists of teams. `DeathIsFinal`: the dead stay dead, `thr_wait` waits for them. `SemaphoresKeepPromise`: `Threads` implements `SemSpec`. |
| `threads_live` | 2 threads, 1 semaphore, naps of 1 and 6 ticks, either answer of a peek behind the empty timer queue, timer modulo 2, fair | `AllRun`: whoever is ready runs, whoever naps wakes. `AllReclaimed`: the dead, and teams without threads, are reclaimed. |
| `ports_wait` | 3 threads, 1 port of 2 messages, NOWAIT on and off, messages that fit or not, fair | `WaitersKept`, `NobodyForgotten`, and in the end `WaitersReached`: but for those who sleep where `port_send` lost a wake-up (`passed`). |
| `ports_fifo` | 2 threads, 2 ports of 2 messages, one a slave, messages that fit or not | `PortsKeepPromise`: `Ports` implements `PortSpec`. `MasterKept`. |
| `irqs` | 3 threads, irqs 1, 4 and 7, 4 for one of the drivers alone, fair | `DriversKept`, `EachHasItsEnd`, and in the end `IrqReachesDriver`. |
| `memory` | see below | `AreasKept`, `PoolsKept`, `HeapKept`, `RegionExact`, `ScreenRight` (for `Windows` and `Drawing`), `SentIsReceived` (for `Wire` and `Message`), `FishSwim`. |
| `services` | see below | `KeysFound`, `LockHolds`, `CallsFit`, `FilesServed`, `ConsolesKept`, `TerminalInside`, `StoryKept`, `LineUnderstood`, `GameGoesOn`, `NumbersRight`. |
| `devices` | see below | `PacketsFlow`, `ImageIsWhole`, `DiskReadsRight`, `FramesAnswered`, `BootIsWhole`. |
| `proxy` | 2 connections one after the other, up to 3 bytes one way and 1 the other, buffers of 2, sockets of 1 | `StreamsSound`, `BytesKept`, and in the end `ProxyMoves`. |

Three runs are violated, each one a disagreement between the code and what the repository says of it (`findings` in `PROJECT.json` quotes the lines):

| run | property | what happens |
|---|---|---|
| `ports_stale` | `GonePortIsTold` | A blocked sender or receiver is woken with `ERR_NONE`; before it runs the port is destroyed. It is not told, and goes on with the freed `port_t`. |
| `irqs_starved` | `TriggeredIsScheduled` | An interrupt finds the idle task running, which is preempted in the middle of the stub and sends the end of interrupt when it runs again. A thread that never sleeps prevents that; the controller holds back what comes now, and a driver that sleeps for it is not scheduled. |
| `disk_read` | `ReadsUntilLess` | A read of more than two blocks: the loop over whole blocks compares a count that grows with one that shrinks, ends after half of them, and the last part copies beyond the one block it read. |

A property is a conjunction of named parts; the parts and what they say stand before it in its module. For each part there is a slip next to the operation it
is about, a plausible bug with which the run fails; `PROJECT.json` names one per property. No specification uses a slip.

### Bounds, and why they are enough

- *Threads.* Two suffice for every pair of interleaved calls, with the reaper and idle as third and fourth
  task; three let one overtake another on a semaphore, and let a third send between a wake-up and the receiver.
- *One semaphore or one port* where the property speaks of one; two ports, one of them a master, where it relates them.
- `MaxMsgCount` is 16 in the code; 2 distinguishes empty, partly full and full, and the order of two messages.
- `MaxCount` bounds the units a semaphore is given by `sem_release` (1: free, taken, contended; 0 in `threads_live`, where a unit is
  released only to a sleeper), `MaxRefs` the references a leaking master collects, `MaxRaises` the interrupts devices raise (an endless stream of
  one interrupt starves the lower ones, by design of the controller; with 4 each of the three comes, and one of them again; 2 are enough to starve a driver).
- `TimerMod` is 2^32 in the code; 2 makes the counter wrap within a nap, and still lets a longer nap stand in front of one that is due before it. In the run without naps it is 1: naps meet the liveness properties in `threads_live`,
  and the safety properties in the proofs, which hold for any.
- *Areas*: 2 teams on 12 pages and tables of 8 entries, five calls: a page group of two areas, a clone of a clone, a heap that grows twice, a team that ends with shared pages.
- *Kmem*: 5 pages, 8 virtual ones, two classes of blocks with two to a page: one call takes a page inside another one's work, and memory is exhausted.
- *Malloc*: the sizes of the code, with a request of each kind of bin, one that is trimmed, one alignment; five calls make every branch of `malloc`, `free` and `realloc` happen.
- *Region* and *Windows*: edges that touch, overlap and contain each other; pieces one point wide; an array that grows by 4 rectangles (`RectAlloc`, 16 in the code), so that it is full within three operations; three windows, of which two may be children of the third.
- *Drawing*: 6 by 6 points, two rectangles or one to draw in, a cursor of three points, one glyph, requests that start outside and pass under the cursor, two of them, one move of the mouse.
- *Wire*: buffers of 7 bytes and commands of up to 4: commands end at, before and beyond the end of a buffer. *Message*: lengths that fit, that fill and that outgrow 128 bytes, three calls.
- *Fish*: two tanks side by side, the first with two fish and two ticks, one odd event (a command, or a packet received twice). With `TIMEOUT` 0 a fish on its way is given up at the next tick, with `PING_EVERY` 2 one ping comes at once and one later.
- *Proxy*: three bytes from one end, one from the other: more than a buffer and a socket hold together.
- *Hash*: five keys that collide in tables of 7, 19 and 43, with up to 5 marks of removed ones: enough for two rebuilds.
- *Fdl*: 3 threads, so that one sleeps while another is between counter and kernel semaphore. *Namer*: ports run out. *Vfs*: one client and two descriptors, ports with room
  for two messages, reads of one and more pieces. *Console*: three consoles, two letters each. *Vt*: 3 by 2 cells, two parameters, digits 0 to 2 and up to two of them in a number; an int goes from -11 to 10, so that 11 and 12 wrap, and 10 only with the column added.
- *Z-machine*: one routine called to depth 3, four instructions, values of one bit; three objects with six properties; lines of five letters; a screen of 3 by 4 and three calls of the game: split, select, move the cursor and print. *Hipfloat*: three digits to the base 4, exponents up to 2.
- *Ne2000*: 3 buffers, a ring of 3 pages, 3 frames. *Netboot*: two blocks, two slots, a ring of one frame that overflows. *Disk*: blocks of two bytes, two direct and two indirect ones, two calls of each program. *Network*: 10 mbufs, 3 frames, six scripts. *Boot*: ten sets of files.

The parts of `memory`, `services` and `devices` do not meet: a run of them is the union of the runs of the parts, which is why a property of one of them is also true while another part moves. There, and in `proxy`,
TLC is told not to look for deadlocks, since a part stops at its bounds. In the other runs deadlock is checked; `Stopped` steps stand for a machine that halted, and idle can always be interrupted by the timer.
Symmetry is used for threads that no constant distinguishes, in `threads_teams` and `ports_fifo`, which check no liveness.

### Fairness

`FairSpec` of `Threads` and `Ports` assumes WF of the kernel's own steps (a handler goes on: interrupts
are off and nothing else can run) and SF of the timer interrupt (strong, since it is enabled only while
a task is in user mode or idle; the controller holds an interrupt that finds interrupts off until they are
on). Nothing is assumed of user threads: each may compute for ever, or call for ever.
In `Irqs` the same holds of each device interrupt, and nothing is assumed of threads: they need not come back to `os_sleep_irq`.
`irq_dispatch` preempts in the middle of the stub (`fault.c:167`), and the end-of-interrupt is sent when the interrupted task runs again (`jump.S:101`).
If that was a thread, ticks switch to it again. If it was idle, one driver that computes for ever keeps that end from being sent, and the controller holds
back all interrupts from there down: `irqs_starved` shows that, against the manual. `IrqReachesDriver` states what is left: as long as idle is in its loop again and again, each
driver is scheduled when its interrupt is raised.

`FairSpec` of `Watcher`: the loop goes on as long as something is due, and the other end of a socket reads what is there. Nothing is assumed of who sends, ends or breaks a connection.

Liveness of naps and ports does not say how soon, nor that a receiver gets *a* message: a
receiver that was woken may find that another took it, and sleep again, for ever.

## 4. What is proved

Everything below holds for every value of the constants. What is assumed of them is named (`SchedAssumption`, `ThreadsAssumption`, `PortsAssumption`,
`IrqsAssumption`, `FdlAssumption`, `ConsoleAssumption`, `NetbootAssumption`, `VtAssumption`, `NamerAssumption`, `FishAssumption`, `KmemAssumption`, `WatcherAssumption`): names are distinct, numbers natural, and where something is counted, threads, ports or semaphores are finitely many.
TLC evaluates each of them in the runs.

| theorem | module | states |
|---|---|---|
| `Invariance` | `ThreadsProofs` | `Spec => []IInv` |
| `TasksStayKept`, `CountsStayTrue` | | `Spec => []TasksKept`, `Spec => []CountsMatch`, which `threads_teams` checks |
| `TypeCorrect`, `SchedulerSafe`, `ThreadsKept`, `NoOrphans`, `SemaphoresBalanced`, `DeathTollExact` | | their parts: `TypeOK`, `SchedulerConsistent`, `NoThreadLost`, `NoOrphanWaiter`, `SemBalance`, `ReaperToll` |
| `ReaperFindsCorpse` | | no `Reap` step makes the machine wild |
| `OwnersInvariance`, `OwnersAgree` | `OwnersProofs` | `Spec => []OInv`, `Spec => []OwnersMatch` |
| `TheDeadStayDead` | | `Spec => DeathIsFinal` |
| `SemaphoresImplement` | `ThreadsProofs` | `Spec => SemaphoresKeepPromise`: the refinement of `SemSpec` |
| `PortsInvariance`, `WaitersStayKept` | `PortsProofs` | `Spec => []PInv`, `Spec => []WaitersKept` |
| `MastersStayKept` | | `Spec => []MasterKept` |
| `PortsImplement` | | `Spec => PortsKeepPromise`: the refinement of `PortSpec` |
| `NobodyIsForgotten` | | `Spec => []NobodyForgotten` |
| `IrqsInvariance`, `DriversStayKept` | `IrqsProofs` | `Spec => []DInv`, `Spec => []DriversKept` |
| `EveryInterruptEnds` | | `Spec => []EachHasItsEnd` |
| `ConsolesStayKept` | `ServersProofs` | `ConsoleSpec => []ConsolesKept` |
| `LockStaysKept` | | `FdlSpec => []LockHolds` |
| `NetbootInvariance`, `ImageStaysWhole` | | `NetbootSpec => []NInv`, `NetbootSpec => []ImageIsWhole` |
| `VtSafe` | | `VtSpec => []TerminalInside` |
| `NamerSafe` | | `NamerSpec => []CallsFit` |
| `KmemSafe` | `MemoryProofs` | `KmemSpec => []PoolsKept` |
| `FishSafe` | | `FishSpec => []FishSwim` |
| `ProxySound` | `WatcherProofs` | `Spec => []StreamsSound` |
| `ProxyKeepsBytes` | | `Spec => BytesKept` |

**The scheduler.** `SchedProofs` works on the operators alone. For each of `Sched` there is a lemma saying what it does to types, one saying where tasks are
after it, and one saying that it keeps `KInv` (types, `QueuesConsistent`, `FlagsConsistent`, idle never queued): `EnqueueInv`,
`DequeueInv`, `ReadyInv`, `SwtchInv`, `WaitOnInv`, `HandOverInv` (`sem_release`'s dequeue and preempt), `WakeAllInv`, `BuryInv`
and others. The modules on threads, ports and interrupts cite them.

**Threads.** The safety properties hold together or not at all. That `rsrc_release` wakes everybody
needs queues without doubles; that `sem_release` may hand the processor to the head of a queue needs that
head to be on no other one (`SchedulerConsistent`); that a reclaimed thread is nowhere needs its place to be
unique (`NoThreadLost`); and that the reaper finds a corpse needs its semaphore to count
(`SemBalance`, `ReaperToll`). Their conjunction is not yet inductive: nothing in it says that `reaper_sem` is
the reaper's alone. `ReaperHome` adds that: user threads never sleep on `reaper_sem`, the reaper
sleeps nowhere else, and while it does its program counter is past the `sem_acquire`. With it, `IInv` is inductive.
There is one lemma per action, one step per conjunct of `IInv` it can disturb; `Terminate` is the longest: three queues change, and
`ReaperAlone` shows that `WakeOne` of `reaper_sem` wakes the reaper or nobody.

**Teams and death.** `OInv` adds `LiveTasks`, `ListsKnown` and `Referenced` to `IInv`: a thread that exists is on the list of its own team, once, and on no other; a semaphore is on at most one list; a team has as many
references as members. Lists are seen as sets, whose cardinality a step changes by one or not at all. Most actions are `Gentle`, they touch none of this, and one lemma serves them all. `DeathIsFinal` needs nothing beside `IInv`: only
`terminate` and the reaper touch the queue of the dead.

**Semaphores implement `SemSpec`.** `SInv` adds `Calls`, in which call a sleeper sleeps: without it a thread that was woken out of `thr_wait` could be taken for one that was handed a unit. Steps that `SemSpec` does not see keep
`Units`, `Sleeping`, `Given` and `Told`; the others are acquire, release, create, destroy and return of `SemSpec`. A semaphore that the end of a team finds unbound on its list only stutters.

**Ports.** `PInv` adds to the parts of `WaitersKept` that each thread in a call is known (`CallsKnown`): it sleeps on a queue of the port that its local variable points to, or it was woken, and if that was with `ERR_NONE` and
it is not stale its port is there. A step moves one thread at a time. `MasterKept` needs in addition that a port that is not there is nobody's slave, the refinement that it holds no message. `NobodyForgotten` is proved by counting: for every message
that waits a receiver is coming, awake with `ERR_NONE` and not stale, as long as any sleeps; for every free place a sender. `port_send` loses a wake-up in two ways: a sender that is woken and then fails with `ERR_MEMORY` (`port.c:143`) does not
pass it on, and one whose port was slaved while it slept puts its message there and wakes a receiver of the master (`port.c:179`). Only then are those who sleep on that queue left out, until they are gone (`passed`); the proof needs no
hypothesis on slaves or sizes (`AllServed`, with `PassesOn` for each step).

**Interrupts.** `DInv` adds `IrqsKnown`, what `os_handle_irq` wrote: a thread is in the map for what it asked for only. A thread in `os_sleep_irq` is on no queue, which the lemmas of `SchedProofs` do not know;
`SwtchSleeps` and `PreemptSleeps` do. That the processor always finds a task uses that all threads are on the first queue at the start, and a counting of places. `EachHasItsEnd` counts `Enders`, the tasks whose stub is not done.

**Servers.** For the consoles: while the keyboard's thread is in one of the steps between save and load, nobody is on the screen, locks and data are where the step says (`CInv`). For descriptors: the one unit is in the counter, in the kernel
semaphore, with the thread past its acquire, or with one that was woken or is about to release; `FInv` counts the threads in each of these places, in both builds. For netboot `NInv` follows
a block from memory to the tool: an acknowledgement is in a slot, in the card or on the network only if its block was stored, the tool goes past a block only with that block's acknowledgement, and `EXEC` is on its way only when
all are stored. That needs no session number, as long as the image is the same when the tool is run again. `nic_overrun` cuts off what the card sends and may start it again, which is why `SlotComesFree` is about the card's events as well.

**Terminal.** That the cursor is on the screen holds for everything that is printed, also with numbers that wrap (`Sound`). `VInv` adds that, as long as the program did not mislead the terminal, the scroll region has a line
(`Whole`), and nothing was written outside. The rest is arithmetic: `Loc(y, x)` of a place on the screen is in its memory for every size (`OnScreen`), through
scrolls, insertions and deletions of lines.

**Namer.** A call fits its answer only because the question on its way is the one the program still asks, from a port that was nobody's before. `NamerInv` follows ports and questions: every port is in the pool once or has one owner
(`Apart`, `Accounts`: an equation of sets, since ports are used again); a question in the namer's queue is what its asker waits for (`Questions`), so is the one that the namer has in its hand (`InHand`); a waiting program is asking, being served
or answered, one of the three (`Answers`); and the list of names has each once, with the port of the program that was told so (`Bindings`).

**Kernel memory.** The allocators call each other in the middle of their work, so no part of `PoolsKept` survives a single operator. `KmemInv` is stated with `Good(x, P, V, U, B)`, which holds of a memory `x` *between* any two of their
steps: `P`, `V` and `B` are the pages, virtual pages and blocks that somebody outside has, `U` the virtual pages he has with no page behind them, which is not empty only in the middle of `kfreepage` and `kgetpage`. The three lists have no
duplicates, so they are sets; `Frames` says that each page is free, held or behind one virtual page, `Virtuals` that each virtual page below `nextmem`'s frontier is on the free list, held or in one pool, with a node for each entry of the list,
and `PoolBlocks` that the blocks of a pool are its chain, the nodes of the free list and what is held. There is a lemma per operator that says how it moves `P`, `V`, `U`, `B`; `kgetpage` inside `kmalloc` inside `kfreepage` is their
composition. `PoolsKept` then says that each page, virtual page and block has one use.

**Fish.** `FishInv` is `TankTypes`, `FishKept` and `CountKept`, the types strengthened by what the two threads have in their hands: `fishmain` in the middle of `dofish` or `newfish` has a fish, `vloop`'s `lf` stands before its `f`. Where a fish
is is a set of spots; each step removes a fish from a list, which shifts the others, or puts one in front, and `CountKept` follows the cardinality of those that swim.

**Proxy.** `StreamsInv` is `Well`, of a record that collects dispatcher, peers, buffers and sockets, so that a callback, which calls `fdevent_set`, `astream_destroy` and others in turn, is a composition of operators with a lemma each; `Listens` (the
listener is never removed) and `Counted`. The part of `Well` that carries the rest is about bytes: what a socket got, what is in its way and what is in the buffer of its peer are one run of numbers. `ProxyKeepsBytes` follows from a stronger fact about
each step, `Kept`: a stream with bytes in its buffer goes away only when its socket ended or broke, or what is left still fits the socket. `LateInv` is about memory that was freed: `late` collects each access to a stream that is gone, `LateKeeps` says that `astream_destroy`'s write to the peer it
has just freed is the only one, since a peer that is pointed to is live. As that write may end the process (`up`), the liveness properties end with it.

**Only model-checked.** Liveness (fairness and `ENABLED` are out of the prover's reach): `AllRun`, `AllReclaimed`, `WaitersReached`, `IrqReachesDriver`, `ProxyMoves`. What recursive definitions compute would need induction over data, and modules that
declare a recursive operator cannot be proved about: `RegionExact`, `ScreenRight` (`Region`, `Windows`, `Drawing`), `SentIsReceived` (`Wire`), `KeysFound` (`Hash`), `LineUnderstood` (`ZText`), `NumbersRight` (`Hipfloat`), the objects of `StoryKept`
(`ZObjects`). Not proved, though nothing forbids it: `AreasKept`, whose `Exit` and reaper are folds over a team's areas; `HeapKept`, `FilesServed`, `GameGoesOn`, `PacketsFlow`, `DiskReadsRight`, `FramesAnswered`, `BootIsWhole`.

## 5. Observations about the code

Each of these was met while a module was written from the code, and is part of the model where the state it concerns is modelled. Only those that contradict something the
repository says are findings with a run; where a property would fail on one of them, its comment says what it excludes.

**Kernel.** `port_destroy` of a slave does not count its master down (`port.c:44`). `port_send` asks for the slave's master before and after the wait (`port.c:179`), and a sender that fails with `ERR_MEMORY` after it was woken leaves
its place to nobody (`port.c:143`). The idle task's end of interrupt waits until idle runs (`jump.S:101`). `_sbrk` with a negative size moves the break up (`memory.c:47`), while `malloc.c:2557` counts on the contrary. `locate_span` returns a run that is too short when the table is full.
`area_resize` leaks pages of a physical mapping and leaves the other teams of a shared area behind. `kgetpage` ends in the panic "vspace exhausted" with pages left. `memory_init` is off by one (`memory.c:244`).

**Boot.** A header without `]` swallows the lines that follow, a last line without newline is dropped, a value before any section writes through an uninitialised pointer, and 63 sections die of "too many sections (>63)".
`boot.c` takes entry 2 for the kernel. A second mount of the boot file system numbers its inodes on from the first, so its root is not found. A program that `rc.boot` names and the image lacks is looked up at index -1.
`execve` never closes its descriptor. A walk in a directory of `rootfs` that is not the root goes on along its siblings.

**Disk and VFS.** A partition of unknown name opens and reads from block 0. The check of the bus in a read is off by one, and `_blk_open` writes one slot past its table. `ffs_walk` follows a null pointer when a component in the
middle is missing; `ffs_walk_one` leaks its buffer, finds removed entries and ignores the size; doubly indirect blocks read as block 0. At end of file the VFS server sends a message that the client never reads; `vfs_close`
frees no descriptor; names of `rootfs` are never found.

**Messages and namer.** `PutData` never lowers `_available` and `Empty` adds to it, so that chunks are written beyond the block. A last chunk without data is not found (`count > 12`). `GetMessage` uses a length that was never set
when nothing is found. `GetEntry` walks with `& 3` for `& ~3`. The namer never removes a name, and `Call` waits for ever if the port of the service goes away. `qsem_destroy` wakes sleepers that ignore the error.

**Console.** With a scroll region without a line `scroll_virtscreen` writes outside of the screen. The numbers of a sequence wrap (`vt100.c:309`), and with one that has wrapped `delete_chars_in_line` copies from before the
cursor and goes on behind the line. `ESC 8` does not restore; the cursor is moved by two threads.

**Windows.** `SPLIT_TEST` drops pieces one point wide or high. `Region::Exclude` reads the rectangle it splits through a reference into the array that `AddRect` moves (`Region.cpp:91`). `Window::Invalidate(Rect)` fills what is visible of the
window, children and all, who are not asked to paint again (`Window.cpp:185-193`). A client's `OP_DRAW_STRING` falls through into `OP_DESTROY_WINDOW`, which takes four bytes of the next command (`WindowManager.cpp:232-259`). Strings beyond 256 bytes are spread over
messages that mix with those of other clients. `Renderer_8bpp::CopyRect` shifts each row by two points, except when it copies upwards onto itself; a copy of several rectangles overwrites sources it has still to read;
after it the window erases all but the source. Points of colour 0xff under the cursor are not saved. Show, hide, front, destroy and background draw without `LockCursor` while the mouse's thread moves the cursor. The mouse's thread keeps a pointer to a
window that was destroyed. `Canvas::RemoveChild` leaves a back pointer stale. The server waits in `PostEvent` on a full port of a client that may be waiting for the server.

**Networks.** The NE2000 can lap packets nobody read when its boundary lies outside the ring, and after an overload everything is acknowledged. `nic_tx_err` reads the command register. `nic_send` frees twice when the card is busy.
`netboot/ne2000.c` moves its pointer even then, against its comment. Netboot has no session number, and its `EXEC` is not acknowledged. In the network server `mput` frees nothing, so that it dies after 32 mbufs; `eth_output_thread` reads the input queue; `config ... down`
brings an interface up; a device number of two digits loops for ever; a command before the probe follows a null pointer; arp looks in the list of the first copy of ipv4 and the interface is put in that of the newest.

**Proxy.** `astream_destroy` writes to the peer it has just freed (`watcher.c:120-122`), on every ordinary teardown: in practice nothing was allocated in between, in the model the process may end. A read that fails after it got bytes (`watcher.c:155`) leaves them in the peer's buffer, which nobody is told to write (`cut`).

**Fish.** `eject` ships fish without setting `dest`, and when such a fish times out `cnxn[f->dest]` is written, wherever that is (`fish.c:550`). `dofish` reads a fish after it released `sem_fish` (`fish.c:307-322`), when `vloop` may have freed it.
A fish that is shipped in the walk leaves `lf` behind (`continue`, `fish.c:603`), and with a dead one next to it `lf->next` skips it. A `SYNC` is not answered: when it is lost so is the fish, and when it comes twice there are two. All fish
that are born in one tick have the same `uid`. `purge` sets `st_count` to 0 and leaves those in `XMIT` on the list.

**Hiptop.** A restored game has lost the names of results (`res`); `Return` never fills the free list; the last size read of a property is stale for a two-byte header; the place of a word is wrong in versions 4 and 5; `ZWindow.Save` says yes when
it was cancelled; a wake-up of `waitForUI` is lost when there is no saved game; reading a line and the user interface race. `MoveCursor` moves the cursor of a line that is still buffered, so that `Flush` copies beyond the line or the screen (`ZDanger.java:112`, `193`), and puts that of an upper window
without lines above the screen (`ZDanger.java:121`), against its comment (`ZDanger.java:108`). `Hipfloat` rounds negatives towards zero, checks no lower exponent, compares 9.9 with 10
differently in the two orders, truncates negatives in `floor` and has `ceil(0.999999999) = 2`.

## 6. What is not modelled, and why

- *SMP* (`smp.c`, `smp.h`): not compiled; the build does not define `__SMP__`.
- *The pager*: `page_fault` is not among the handlers of `fault.c:54`; nothing reaches it.
- *Kernel debugger, tracing, console of the kernel*: they print.
- *Semaphores created with a negative count; ports of a team that dies* (in `Ports`; its threads exist from the start, and `Threads` has the end of teams); *irqs 8 to 15*; *drivers that die in the map of irqs*.
- *Message*: `GetEntry`, which always fails, and `Reply`. *Windows*: the focus of the mouse, moving and resizing of windows, which need no more than `Windows` has; `StretchBlit`, which nothing calls.
- *PCI, frame buffer, serial and other small servers, the other libraries and programs*: register access, tables and formatting. *Boot loaders in assembler*: one straight line.
- *The other Hiptop applications*: user interface.

## 7. Open work

- `Areas`: a proof needs `Exit` cut at each area, as the references of teams are in `Threads`, and that a group of pages which `_sbrk` lets grow is never shared by a clone.
- `Vfs` (a descriptor belongs to one open file) and `Ne2000` (a buffer is in one place) have the shape of what is proved for `Namer` and `Kmem`.
