# Verification of code-demos

TLA+ models of the programs and library classes of this repository, TLC
configurations that check them on small instances, and TLAPS proofs of the
properties that matter most for every instance.

The repository is a collection of server-side C++ exercises: a library
(`src/src/public`) used by the chapter on multi-process scheduling
(`src/src/mdc`), a red-black tree, and a series of TCP servers
(`src/src/linux-server`). Below, *public.cpp*, *public.h* and
*circular_queue.h* are in `src/src/public`, *md* is
`src/src/mdc/多进程调度和监控.md`, *epoll server* is
`src/src/linux-server/2.网络编程/io_multiplexing/mul_port_server_epoll.cpp`,
*rbtree.cpp* is in `src/src/linux-server/1.数据结构/rbtree`, *http.cpp* in
`src/src/linux-server/2.网络编程/network_protocol`, and *select.cpp*, *poll.cpp*,
*epoll.cpp*, *thread.cpp* (`socket_server_thread.cpp`) and *reactor.cpp*
(`reactor_single_thread.cpp`) are beside the epoll server.

## 1. Inventory

| | component | state | operations | interacts with |
|---|---|---|---|---|
| A1 | `csemp` (public.cpp 1728-1827) | the System V semaphore set of a key, its value, the kernel's SEM_UNDO adjustments, `m_semid` | `init`, `wait`, `post`, `destroy`, `getvalue` | other processes through the kernel |
| A2 | `cpactive` (public.cpp 1625-1723) | the table of MAXNUMP heartbeat records in shared memory, `m_pos` | `addpinfo`, `uptatime`, destructor | `csemp` as its lock, the daemon through the table |
| A3 | `checkproc` (md 116-219) | the slot it looks at | a scan of the table, `kill` 0, 15 and 9, erasing records | the services of A2; started over and over by `procctl` |
| A4 | `procctl` (md 1-35) | none | fork, exec, wait, sleep | starts every service |
| B1 | thread pool (epoll server 63-191) | list of workers, list of jobs, mutex, condition, `terminate` | `workqueue_init`, `workqueue_add_job`, `workqueue_shutdown`, `worker_function` | B2 |
| B2 | multi-port epoll server (194-556) | `curfds`, epoll set, descriptors | `main`'s event loop, `client_job`, `nRecv`, `nSend` | B1 runs its jobs, clients through TCP |
| C | `clogfile`, `spinlock_mutex` (public.h 434-520, public.cpp 778-826) | stream, size, spin lock, files on disk | `open`, `write`, `operator<<`, `backup` | threads of one process share an object |
| D | `circular_queue` (circular_queue.h) | ring, head, tail, length, `m_inited` | `init`, `push`, `pop`, `front`, `size`, `empty`, `full` | may lie in shared memory |
| E1 | `tcpread`, `tcpwrite`, `readn`, `writen` (public.cpp 1420-1549) | the stream of bytes, the part of a message read so far | read and write a text or binary message, with or without timeout | the peer |
| E2 | `ctcpclient`, `ctcpserver` (public.cpp 1244-1418) | `m_connfd`, `m_listenfd` | `connect`, `initserver`, `accept`, `close...`, destructors | the process's descriptor table |
| F | file classes `cofile`, `cifile`, `cdir`, `newdir`, `renamefile`, `copyfile` (public.cpp 828-1227, 1551-1591) | open file, temporary name | open, write, rename at close; read and remove; list | other processes through the file system |
| G | red-black tree (rbtree.cpp) | nodes with four fields, root, sentinel | insert, delete, search, fix-ups, rotations | `main` |
| H1 | reactor (reactor.cpp), an echo server | `conn_list`: per descriptor two buffers, their lengths, the callback to call | `accept_cb`, `recv_cb`, `send_cb`, the loop over `epoll_wait` | its clients through TCP |
| H2 | HTTP server (http.cpp), the same loop | the same, the file asked for, `enable_sendfile` | `http_request`, `http_response`, the callbacks | clients, files that others change |
| I | echo servers select.cpp, poll.cpp, epoll.cpp, thread.cpp | the sets of descriptors waited for and reported, `maxfd`; a thread per connection | accept, receive, send, close | clients |
| J1 | thread servers of the chapter: demo20 (md 330-458), data service bus (460-897), the bus with a connection pool (899-1141) | `vthid` under a spin lock, the pool of database connections | `main`, `thmain`, `thcleanup`, `EXIT`, `getconns`, `freeconns` | clients, a database, signals |
| J2 | producer-consumer program of the chapter (md 222-326) | `vcache`, a mutex, a condition variable | `incache` as the handler of signal 15, `outcache` in three threads | signals |
| J3 | father and children of chapter 19-6 (`src/src/mdc/19-6多进程与信号/demo1.cpp`) | each process's signal handlers | `fork`, the exit functions `FathEXIT` and `ChldEXIT` | signals |
| J4 | the other process demos (fork, zombies, shared memory, semaphore) | | | A1 |
| K1 | string and XML helpers (public.cpp 1-620) | the caller's strings, the fields of a `ccmdstr` | `deletelchr`, `deleterchr`, `replacestr`, `picknumber`, `matchstr`, `splittocmd`, `getvalue`, `getxmlbuffer` | everything that parses; `cdir` uses `matchstr` |
| K2 | time helpers (public.cpp 622-776, 1000-1090) | texts that name a time, the times of files | `ltime`, `timetostr`, `strtotime`, `addtime`, `filemtime`, `setmtime` | C, F |

What is hard here:

* **Shared memory half under a lock (A).** `addpinfo` scans the table before it
  takes the lock, `uptatime` and the destructor never take it, nor does the
  daemon. Services die anywhere, pids are reused, and `wait()` may fail while its
  caller goes on.
* **Creation race of the semaphore (A1).** The set is created and initialised by
  two calls; many processes may try, and the creator may die in between.
* **Signals by record (A3).** The daemon reads the pid of a slot again before
  each `kill()`; in between the slot may be empty or somebody else's.
* **Threads (B, C).** Lost wakeups, a worker that leaves with the mutex locked,
  a shutdown that walks a list unlocked; a counter changed without a lock;
  descriptors used as names of connections and reused; edge-triggered events that
  come once; a size and a stream state tested before the lock is taken.
* **One thread, many blocking sockets (H, I).** What `select`, `poll` or `epoll_wait`
  reported may be out of date when it is acted on; per-descriptor state outlives the
  connection and meets the next client with that number; an edge comes once; clients
  stop reading, close early and reset, and a write to a broken connection raises
  SIGPIPE, which no server ignores.
* **Signals, cancellation and locks (J1).** `EXIT` interrupts `main` at any point, also
  where it holds the spin lock `EXIT` asks for; threads end before they are
  registered; a descriptor is closed twice; a cancelled thread keeps its database
  connection.
* **Handlers that run in the middle of something (J2, J3).** `incache` locks a mutex
  the thread it interrupts may hold; a child has its father's handlers until it sets
  its own, and exit functions interrupt each other.
* **Files between processes (F).** A name may come to mean another file, or none,
  between the listing, the opening, the reading and the removing; processes die with
  temporary files behind them; `copyfile` looks at its source three times.
* **Framing (E).** Messages are a length and a body, sent and received in pieces,
  with timeouts, a peer that closes in the middle, and resets.
* **Boundaries of texts and times (K).** Positions are compared and subtracted as unsigned
  and as signed numbers, a loop feeds on what it wrote, signs and points are picked out of
  texts before they are read; and a time goes through texts that do not say whether
  the clock was ahead.
* **Sequences of calls (D, E2, G).** Wrap-around, handles that are overwritten,
  and a tree algorithm with a dozen mirrored cases and a shared sentinel.

What makes each component correct:

* A1: one holder at a time, the lock never lost with a dead holder, every wait ends.
* A2: one owner per slot, one record per pid, a running service keeps its record.
* A3: residue disappears, hung services end, nothing it does breaks A2.
* B1: jobs start once, no wakeup is lost, every job is served.
* B2: a job stays with its connection, `curfds` is exact, ended connections are
  closed, connecting clients are accepted.
* C: mutual exclusion, no line twice, order kept, losses bounded and named.
* D: a bounded first-in first-out queue.
* E1: messages arrive whole and in order; the stream is at a frame boundary after
  every read. E2: handles never dangle, leaks are the named ones.
* F: only whole files are visible, none is lost unread, a copy equals its source.
* G: links, colours, black heights; search finds exactly the keys stored.

* H, I: the thread blocks in nothing but `send`; a client gets back what it sent or
  asked for, whoever had its descriptor before; a client that waits for its answers does
  not end the server; every client is served.
* J1: threads use their own client's socket, `vthid` has the registered threads,
  a signal ends the process, and threads end with their connections.

* J2: every message is taken once, in turn, in the end. J3: a family ends together.
* K1: a text is cut, matched, replaced and read as its comment says, and every call returns.
  K2: a time survives its way through texts.

`PROJECT.json` lists the hazards at their lines with the properties that watch them.

## 2. Plan

1. **Core (done).** A1 and A2, because they hold the hardest combination (no common
   lock, crashes, pid reuse); then A3 on top of A2, both on Csemp's own actions.
2. **Threads and data structures (done).** C, B1 (against the abstract JobPool), B2
   (which takes B1 for what JobPool says), D (against BoundedFifo), G (against KeySet).
3. **Sockets and files (done).** E1, E2, F.
4. **Servers (done).** H and I on one model of the kernel and the clients, so that one
   set of properties compares all six; J1, J2, J3; the proofs about B1 and J1.
5. **Helpers (done).** K1 and K2.
6. **Proofs of the safety properties (done).** LogSound, Delivered,
   CountExact and OwnConnection, OneFiller, TakenInOrder, FilesSound and NoneLost,
   NeverBlocks, Survives and AnswersRight, TimesRight, RedBlack; and of the tree's
   refinement of KeySet.

## 3. Modules

| module | models | extends or instantiates |
|---|---|---|
| `Csemp` | A1 | |
| `Cpactive` | A2 | `Semp == INSTANCE Csemp` |
| `Checkproc` | A3 with the services of A2 | EXTENDS `Cpactive` |
| `LogFile` | C | |
| `CircularQueue`, `BoundedFifo` | D and what it promises | `Fifo == INSTANCE BoundedFifo` |
| `WorkQueue`, `JobPool` | B1 and what it promises | `Pool == INSTANCE JobPool` |
| `MulPortServer` | B2 | |
| `RbTree`, `KeySet` | G and what it promises | `Found == INSTANCE KeySet` |
| `TcpFrame` | E1 | |
| `TcpConn` | E2 | |
| `FilePublish` | F | |
| `SocketKernel` | what H and I see of the kernel, and their clients | |
| `EchoServers` | I | EXTENDS `SocketKernel` |
| `Reactor` | H1, H2 | EXTENDS `SocketKernel` |
| `EventServers` | H and I side by side, and their properties | EXTENDS `EchoServers`, `Reactor` |
| `WebServer` | J1 | |
| `OutCache` | J2 | |
| `SignalFamily` | J3 | |
| `TextTools` | K1 | |
| `TimeTools` | K2 | |
| `MC...` | values for TLC | the module named |
| `MCStructures` | D and G in one run | EXTENDS `CircularQueue`, `RbTree` |
| `MCProcesses` | A1 and J3 in one run | EXTENDS `Csemp`, `Family == INSTANCE SignalFamily` |
| `MCThreads` | B1 and J2 in one run | EXTENDS `WorkQueue`, `OutCache` |
| `MCPublic` | C, E1, E2, K1 and K2 in one run | EXTENDS `LogFile`, `TcpConn`, `TcpFrame`, `TimeTools`; `Texts == INSTANCE TextTools` |
| `MCFilePublish` | F, for three teams of processes | EXTENDS `FilePublish` |
| `Csemp_proofs`, `MulPortServer_proofs`, `WebServer_proofs`, `EventServers_proofs`, `FilePublish_proofs` | theorems | the module named, TLAPS |
| `Checkproc_proofs` | theorems about A2 and A3 | EXTENDS `Checkproc`, `SempP == INSTANCE Csemp_proofs` |
| `Structures_proofs` | theorems about D, B1, J2 and G | EXTENDS `CircularQueue`, `WorkQueue`, `OutCache`, `RbTree` |
| `Public_proofs` | theorems about C, E1, E2 and K2 | EXTENDS `LogFile`, `TcpConn`, `TcpFrame`, `TimeTools` |

An action is one access to shared state together with the private work around it.
Operators named `X_Y` directly before `X` are deliberately wrong variants of `X`,
used to make sure that each property notices a defect; no specification uses them.
Variables are named after the code's where it has them; each module's header lists
its program counters.

**Csemp.** `kern` is the set bound to the key; `adj[p]` is the kernel's undo
adjustment of process `p`. `InitGet`, `InitCreate`, `InitAgain` and `InitSetval`
are the three `semget` calls and the `semctl` of `init`, each of which may fail. `Wait` and `Post` are the
two `semop` calls with SEM_UNDO, `WaitInterrupted` is a `semop` that a handler
ended (`semop` is never restarted), after which the code's callers post all the
same. `Die` applies the undo. `destroy` removes the set under the sleepers. The
kernel's limit SEMVMX is a constant, because unbalanced posts drive the value up.

**Cpactive.** `st[p]` walks through `addpinfo`: `Scan` (the unlocked search for a
record with the same pid), `SempInit`, `SempWait` (whose result is ignored),
`Search`, `CopyPid` and `CopyRest` (the memcpy, pid first), `SempPost`; then
`Uptatime`, and `Destruct` and `DestructRest` (the memset). A process may die
before every step and its pid may come back. `Tick` lets time pass. The semaphore's
steps are Csemp's actions (`Semp!...`), taken as they are.

**Checkproc.** One action per access of the daemon to the table or call of `kill`,
interleaved with every service step; `kill(0,9)` ends the daemon, as it is in its
own process group. What a service does with signal 15 is left open: it may run its
destructor, die, or ignore it.

**LogFile.** `write` is split where the code reads shared state: two tests of
`is_open()`, `tellp()`, the spin lock for the rotation (`CloseOld`, `Rename`,
`Reopen`, each of which may fail where the system call may), the lock again, the
insertion, and the result `good()`, which is read after unlocking.

**WorkQueue.** A worker holds the mutex in "test" and decides atomically; the
condition variable's sleepers are the workers in "wait", and `Spurious` wakes one
without a signal. `Leave` keeps the mutex, as the code does. `workqueue_shutdown` is a
`Step` per worker, which sets `terminate` without the mutex, and `Clear` with it, whose
broadcast is `Rouse`. Creation may fail at any worker.

**MulPortServer.** Events are edges: an open connection is in `ready` after
something arrived and leaves it with `epoll_wait`. `curfds++` and `curfds--` are a
load and a store. `nRecv` reads as far as its buffer has room. Left out: `nRun`
(after a million connections `main` runs the jobs itself), POLLHUP and resets, and
the functions nothing calls (`client_cb`, `epoll_et_loop`).

**RbTree.** Pointers are numbers; the sentinel is 0, with a parent field that
deletions overwrite. Left and right branches of the code are one definition with a
side as parameter. Each turn of a fix-up loop is a step of its own: `T` is the tree,
`pc` says which loop runs, `cursor` is its node and `request` the call under way.

**FilePublish.** Names and temporary names point to inodes; a version of a file is a
sequence of blocks. Writers are programs that use `cofile` (`Open`, `Write`, then
`Closeandrename` or `Close`), consumers ones that walk a directory with `cdir` and
read and `closeandremove` each file with `cifile`, copiers call `copyfile`, whose
steps are `Filesize`, `Copyopen`, `Copy`, `Copyclose` and `Copytime`. `newdir` is two
steps, `access` and `mkdir`. A process may be killed at any step, and `open`, a write,
`rename` and `utime` may fail (`Fails`), MaxFaults of all these together. A write that
fails leaves the stream bad: nothing more is written, and what is there is renamed all the
same. `clash`, `raced`, `torn` and `spoilt` are history: they name the situations in which
the code promises less. `inode[i].torn` says that a write to the file, or to the file it
is a copy of, has failed; `spoilt[k]` that the source of copier k was exchanged (`"early"`
if that was before it opened it), that another copier has overtaken k and put its own copy
or time in place (`"late"`), or that a call failed whose result `copyfile` does not test
(`"failed"`).

**SocketKernel.** A listening socket with its queue, the lowest free descriptor, and
for every client one connection with the units sent and received, the end, a reset,
and whether there is room to send. `Received`, `SendTo` and `AcceptOne` are the
system calls; a client may connect, send, stop reading, close or reset at any time.
`prog` chooses the program that runs, and `up` says it has not been killed. `back[c]`
records what a client was sent, and `asks` of a connection that its client waits for
an answer; a client that closes while it does is `rude`.

**EchoServers.** `Wait` is `select`, `poll` or `epoll_wait`, `Scan` the step of the
loop to the next reported descriptor (in their order, or in any for epoll), `Accept`,
`Recv` (with `Close` for 0, `Take` for data, and `Fail` for -1, whose length goes on
to `send`) and `Send` the calls. `ready` is what was reported: it is not updated by
what happens meanwhile. In thread.cpp the threads read their argument in `Start`,
through the address of the accept loop's variable (`cfd`); a thread that could not be
created is `"failed"`.

**Reactor.** `EpollWait` takes the level-triggered events of all descriptors, and
each is then given to the callback its `connect_t` names at that moment:
`Accept_cb`, `Recv_cb`, `Send_cb`, or for http.cpp `SendHeader` and `SendBody`, the
two halves of its `send_cb` between which the file may change. `conn[f]` lives as
long as the process, as `conn_list` does. The reactor's buffer has `BufferLength` units:
`Fill` adds each message's length to `rc`, as recv_cb does, and the server is counted as
ended (`up`) at the step that writes beyond the buffer.

**EventServers** lets one of the six programs run and states what they all promise.

**WebServer.** `main` is `Accept`, `Create`, `Register` (the spin lock) and `Push`;
`Signal` interrupts it at any of them, and `Lock`, `Cancel`, `Unlock` and `Exit` are
EXIT, on main's thread. A thread reads a request (`Read`), gets a connection
(`Getconns`, one `trylock` per step), `Login`, `ExecSQL` and `Freeconns`, then cleans
up: `Close`, `LockIds`, `EraseId`. `Cancelled` is the asynchronous cancellation, at any
point, after which only `thcleanup` runs.

**OutCache.** A consumer is `LockOut`, `CondWait` or `Copy` and `Erase`; the handler is
`LockIn`, `Push`, `Broadcast` and runs on any thread, whose own steps stop meanwhile
(`sig`). The mutex is not recursive, so a handler may wait for its own thread.

**SignalFamily.** `Fork` or `ForkFails`, then the child's two `signal` calls (`SetTerm`,
`SetInt`). `Deliver` begins an exit function, also within the other one; `IgnoreInt` and
`IgnoreTerm` are its `signal` calls, `KillAll` the `kill(0,15)` of FathEXIT and `Exit`
the end.

**CircularQueue** has one action per method, **TcpConn** one per method with the
failures of the system calls in it (the process is single-threaded). **TcpFrame**
moves one byte per step, which includes every way the kernel may split a call.

**TextTools.** Strings are short sequences of the characters that a helper tells apart;
the functions are operators with the code's names, and a call is one step, except
`replacestr`, whose loop takes a step per turn (`ReplaceTurn`) because it need not end.
The char* versions are modelled where they differ. The properties compare the results with
definitions that do not look at positions (`Glob` for a rule, `Stripped` for a field).

**TimeTools.** A program that carries a time from text to text and from file to file.
A text is the fields that its format shows, with their numbers; `localtime` and `mktime`
are the library's, over a calendar given by constants. `when` and `due`
remember which time was meant, and `want` the fields a format asks for according to
public.h (`Asked`), none if it is not a format; `odd` says that one of the calls was made
of which the properties promise nothing (section 6). The calendar is regular (a month has the same days all
year, a year the same months: TimeToolsAssumption); what months of different lengths do
to the library's own conversion is the library's.

## 4. Runs

| run | instance | shows |
|---|---|---|
| `processes` | 3 processes, 2 sets, 2 interrupted waits, creation may fail, one process may destroy; a father, 2 children, 2 signals from outside, `fork` may fail | LockSound until an interrupted wait is posted; WaitReturns except when the creator died before SETVAL; AllEnd except when a fork failed |
| `cpactive` | 3 services, 2 slots, failing IPC calls, 1 interrupted wait | RecordKept until a wait is interrupted, OneRecord always |
| `checkproc` | 2 services, 1 slot, 2 polls, timeout of 1 second | OneFiller; ResidueRemoved, HungEnds, AddReturns |
| `threads` | 3 workers, 3 jobs, creation may fail, a shutdown at any time; 3 consumers, batches of 2 messages, 3 signals | RefinesPool; TakenInOrder; NoneWaits: every job is served unless shut down, every message taken unless a signal hits a thread that holds the mutex; WorkersLeave: every worker hears of the shutdown |
| `structures` | a ring of 3 with 3 values; a tree of 9 keys | RefinesFifo; RedBlack (links at every turn of a loop, colours and black heights between calls), RefinesKeySet |
| `library` | 2 threads with 3 lines each, 2 seconds, faults; descriptors 0 to 5, 0 free; text, binary, empty text, text with a 4-byte header and 5 bytes in the kernels; all texts up to 2, 3 or 4 characters; 36 seconds | LogSound (once, in order, no line lost but by a clash), LogsReturn; HandlesExact; Delivered, MessagesArrive; MatchRight, FieldsRight, ReplaceRight; TimesRight |
| `server_jobs` | 2 clients, 2 workers, 2 descriptors, buffer of 1, 2 units per client | OwnConnection, CountExact |
| `server_live` | the same with 1 descriptor | ClientsServed: connecting clients are accepted and ended connections closed in the end |
| `files` | 2 writers, 2 consumers, 1 copier and 1 death; 2 writers, 1 consumer, 1 copier and 1 failing call; or 1 writer, 1 consumer, 2 copiers; 1 name, 2 versions | FilesSound (files are whole, copies equal their source), NoneLost, AllRead, each with its exceptions (section 6) |
| `loops` | 2 clients of each of the six servers of H and I; they send 2 units or requests (one client 3 units), one may stop reading; a buffer of 1 unit, the reactor's of 2, 2 files, 1 change to a file | NeverBlocks, AnswersRight, Survives, ServedInTheEnd |
| `web` | 2 clients of each of the three servers of J1, 2 thread ids, 2 descriptors, 1 database connection, 1 request each, failing `pthread_create`, a signal | OwnSocket, Registered, EndsOnSignal, ConnectionsEnd |
| `files_copy` | as `files` | CopyAsSaid: what public.h says of `copyfile`, violated |

The last run checks one property, which states a comment of public.h, and TLC finds the
behaviour that contradicts it (section 6). The properties of the other runs promise
nothing in such cases: they do not take the code's result for right.

Why these bounds:

* *processes*: the creation race needs two creators and a witness; a second set is
  needed to find a stale `m_semid` valid again. Two interruptions give a value of
  SEMVMX = 3 and more posts than it allows. Two children show
  one that has set its handlers beside one that has not; two signals let one exit
  function interrupt another in the father and in a child.
* *cpactive*: three services for two slots make the full table, the reuse of a
  freed slot and a pid that comes back in another slot all happen. Time plays no
  part in these properties, so Timeout is 0; it is 1 in *checkproc*.
* *checkproc*: one slot makes every erasure meet a registration, which is the hard
  case. Two polls distinguish first and last.
* *threads*: two workers race for a signal while the third sleeps or has left. Three
  consumers are the program's own number; a batch of two leaves a message for a
  second consumer, and three signals put a batch behind another and a signal into a
  handler (one is then pending, the next is lost).
* *structures*: a ring of three wraps around after a partial emptying. A fix-up that climbs two levels in a deletion needs seven nodes; nine
  leave room for both mirror images. The run's VIEW names nodes by their keys, so
  trees that differ only in the addresses `malloc` returned count once; nothing
  depends on addresses, and the one stale pointer, the sentinel's parent, is part
  of the view while a deletion runs and is overwritten before the next one reads it.
  In this run and in *processes*, *threads* and *library* a behaviour is that of one component, chosen at the start;
  the variables of the others stay as they are.
* *library*: three lines each with MaxSize 1 give several rotations, within one
  second and across two.
  With five bytes in the kernels the header and the body's first byte,
  but no whole frame of the longest kind, fit; the writer blocks in all places. Rules of
  four characters have up to two stars or commas at every place; a text that
  `replacestr` brings beyond 16 characters, five times its length, never stops growing. The
  calendar has two months of two days to a year of 32 seconds, which makes every field carry
  into the next; seven seconds across the end of a month are summer. Integers end at
  99 and 199, so texts of three characters overflow an int and no long.
* *server_jobs* / *server_live*: a buffer of one unit and clients that send two make
  a full buffer; two workers can meet on one descriptor. One descriptor is the
  hardest case for reuse and for a failing `accept`; with two the counter races
  appear.
* *files*: two consumers compete to remove one file, two writers replace one, and
  versions of two blocks and of one tell a truncated copy from a padded one. Two
  copiers overtake each other at every step; the whole crowd at once is beyond TLC, and the
  proof covers it. A call that fails needs a team of its own for the same reason; one fault
  suffices to leave a torn file, which a copier then multiplies. The
  second writer can also open the temporary file of the first; no property says
  anything from then on (`clash` satisfies AllRead too), so a CONSTRAINT stops there.

* *loops*: with two clients a descriptor is used again while another is reported, one
  client arrives while another is served, and two threads meet in the accept loop's
  variable. Two units against a buffer of one leave data after an edge; two requests
  show what a descriptor kept. One of the two files exists, and one change removes it
  or creates the other, at every point between the two openings. A reactor's buffer of two
  units takes what one client sends and is overrun by the third unit of the other (the
  ACTION_CONSTRAINT Quiet keeps the first to two units), so that both sides of the limit
  occur. Descriptors suffice (an assumption, section 7).
* *web*: two connections are the most one lock and one database connection need to
  show who waits for whom; two ids and descriptors are reused at once; a second
  client finds no descriptor while the first's was leaked. One request per client
  passes through every step. Clients do nothing new once the server is ending.

A type invariant is stated in every module of the code. All are proved, as
part of the inductive invariants, but those of SignalFamily and TextTools.

Symmetry is used in *cpactive* and *server_jobs*, which check no liveness, over
process, client and worker identities, which the specifications only compare. CHECK_DEADLOCK is FALSE where the system may stop: *processes* (a family that waits
for a signal or has ended), *threads* (after a shutdown; without signals), *library* (after the script), *server_...* (when `main` has returned), *loops*
(when the server waits and no client has anything left to do, or was killed) and *web*
(when the process has ended).

### Fairness

* Csemp, Cpactive: weak fairness of a live process's own steps (the scheduler runs
  it) and strong fairness of `Wait` (the kernel serves the sleepers of a semaphore
  in order). Dying, interruption, `destroy`, `uptatime` and beginning a call are
  never required.
* Checkproc: the daemon never blocks, so it has weak fairness as a whole; so does
  time. A service is not obliged to answer signal 15 or to beat.
* LogFile: weak fairness per thread. The spin lock is not fair, but with a bounded
  number of lines every other thread stops asking for it.
* WorkQueue: strong fairness at the mutex (pthread mutexes do not starve a thread
  for ever while others come and go), weak fairness of holding threads; job
  functions return. No wakeup without a signal is required.
* EventServers: the server's thread, or in thread.cpp every thread, keeps running while
  it can. Clients owe nothing: a client that does not read is an exception of the
  property. WebServer: every thread keeps running; `Signal` and the clients are not
  required. The spin lock and the `trylock` loop need no strong fairness here: with a
  bounded number of threads each other one stops asking.
* OutCache: threads go on, a signal is taken by some thread, and a free mutex is taken
  by some thread that wants it, whichever. SignalFamily: every process keeps running;
  `fork` and signals are not required. The runs that put two components side by side
  state the fairness of each for its part.
* TcpFrame: both ends go on. TextTools: a call of `replacestr` goes on. MulPortServer: main and the workers go on, clients
  need do nothing.
* FilePublish: consumers are services that scan their directory again and again
  (weak fairness of each); writers and copiers may stop anywhere.

## 5. Proofs

All proofs hold for every value of the constants that the modules' ASSUMEs admit:
finite ranges for bounded counters, at least one slot, and so on.

* `Csemp_proofs`. TypeCorrect; LockInvariant; LockSafe: Spec =>
  []LockSound, that is Mutex and LockNotLost. Mutex alone is not inductive: a `Post` is harmless only because the
  value, the adjustments and the holders add up (`ValueCounts`, `Adjusted`), which
  in turn rests on there being one creator per set (`OneCreator`) and on
  identifiers never coming back (`IdsFresh`). `LockInv` is their conjunction as
  long as no wait was interrupted, and the types always.
* `Checkproc_proofs`, first for Cpactive. Every step is a step of Csemp or leaves the
  semaphore alone (lemma StepUsesCsemp), so LockInv comes from Csemp_proofs by instantiation. TableInvariant adds
  `InLock` (a service in the locked section holds the semaphore), `PosSet` and
  `Claimed` (from the moment `m_pos` is set the slot carries the owner's pid, or is
  still empty while the owner holds the lock). TableSafe follows: two owners of one
  slot would both have their pid there or both hold the lock. OneRecordAlways uses
  another invariant, `Single`, which does not need the lock at all: after its scan
  a service's pid can only be at `m_pos`. Then for Checkproc: a step of the daemon is a
  death of Cpactive, or it changes the table only, where it takes pids away (`Erasing`).
  `Claimed` does not survive that, InLock and Single do (GuardInvariant), which is
  enough for DaemonLeavesOneFiller.
* `Structures_proofs`, four parts. CircularQueue: RingCorrect (the inductive QueueInv) and
  ImplementsFifo, for every MaxLength and every set of elements, if the memory was zeroed
  (Dirty = FALSE). The arithmetic of the wrap-around is in four lemmas on `Wrap`; the
  refinement maps the ring to the sequence that `printqueue` walks through.
  WorkQueue: PoolInvariant is the types, `MutexHeld`
  (a worker at the tests, or gone, holds the mutex) and `JobsApart` (a job is in one
  place: with the thread that adds it, once in the list, with one worker, or done).
  ImplementsPool maps every step to a step of JobPool or a stutter; that no more jobs
  run than there are workers (RoomForOne) is a count: the running jobs are the image
  of the other workers. RefinesPool is not inductive alone, since a list
  may hold the same job twice unless JobsApart forbids it.
  OutCache: MessagesInTurn needs `CacheMutex` (a consumer at the test or the erase holds
  the mutex and is not in the middle of `push_back`; a handler that is, holds it on a
  thread that did not) and `CopyInv` (what was copied is still the first message). The
  messages taken and those in the cache are then the numbers from 1 on without a gap;
  NumbersGoOn and MessageMoves say that a batch continues them and an erase shifts one.
  RbTree: AlwaysRedBlack and ImplementsKeySet, for any keys and number of nodes. RedBlack
  is not inductive: it says nothing of order, and nothing of colours within a fix-up.
  TreeInv (TreeInvariant) gives every node the set of nodes below it, so that links are
  `Shaped` and keys `Ordered`, and a black height, and says what each loop has
  still to repair (`Full`): in rbtree_insert_fixup one node may be red under a red parent;
  in rbtree_delete_fixup one black node is missing on one side of one node, which a red
  or root `cursor` makes good when it is painted black. What a rotation does is proved
  once, field by field (RotateIs), for links, order and heights (RotateShaped,
  RotateOrdered, LiftIs), then each case of the loops (BentIs, StraightIs;
  SiblingBlackIs, SiblingRedIs, NephewOutIs, SiblingUpIs), the node hung or cut out (HungShaped,
  CutShaped, CutFull) and the ends of both loops (BlackEnds). The walks down the tree
  (search, leaf, minimum, successor) and the counts in `Reach` and `Balanced` are
  recursive functions. That they are defined, and what they
  return, is proved without an induction theorem, from the least element of a set of
  counterexamples: a walk goes down in the size of the subtree (Least, Descent, WayDown).
* `WebServer_proofs`. TypeCorrect adds `MainOK` (what `main` has in hand at each place).
  SocketsOwn is not inductive alone: between accept and pthread_create nobody but `main`
  knows whose the descriptor is (`Handed`), and a client that is accepted must not have
  one yet (`QueueOK`, `Unserved`); OwnInvariant is their conjunction, and `Free` does the
  rest: accept never returns a number in use. ThreadsRegistered rests on RegInvariant: ids
  of living threads differ (`IdsApart`), nobody is cancelled before EXIT, and vthid and
  the registered threads correspond, one to one unless a thread was faster than `main`
  (`RegListed`, `ListedReg`, `Fresh`). Taking out the first occurrence of an id then takes
  nobody else's; lemma OneTakenOut says what `RemoveAt` leaves.
* `Public_proofs`, four parts. LogFile: LogCorrect needs, besides LogSound itself, that the
  spin lock is held by the one thread between its calls (`HeldInv`; OneWriter is its use), when the
  stream is open and on which file (`StreamInv`), that a line being logged is in no file
  and not among the refused ones yet (`PastInv`), and that no backup is newer than the
  next (`BackupInv`), so that a rename can only hit the one made in the same second.
  TcpFrame: MessagesDelivered is shown for every script, header length and capacity by following each
  byte: what `readn` has is the beginning of the header or body (`ReadInv`), what `writen`
  still has to send the end of its frame (`WriteInv`), and from the one to the other the
  wire has no gap (`WireInv`); `Succ` and `HeadOf` turn frames into one stream.
  TcpConn: HandlesSafe: kinds of descriptors and handles agree
  (HandlesValid), and only the named sockets leak (OnlyTheseLeak).
  TimeTools: DatesTyped and TimesAlwaysRight, for every regular calendar (below). The text
  of a time says what `localtime` says; that `mktime` gives the time back is arithmetic:
  a time is the sum of its parts, since a unit is made of whole units of the next. The
  lemmas on remainders take one unit at a time, because the solver does not multiply two
  unknowns. A text that is not a full time is not `Width` 14, so strtotime refuses it.
* `MulPortServer_proofs`. JobsOwnConnection and CurfdsExact, the second with the first:
  a job that closes must own the connection, or the count is wrong. As long as two jobs
  have not met on one descriptor (`overlap`), jobs at work have different ones
  (`ApartInv`), the client a job has seen is still behind its descriptor (`PeerInv`), and a
  client with an event has one (`KnownInv`). The updates of `curfds` under way are
  counted through the injection from workers to the descriptors they close.
* `EventServers_proofs`. ServedInvariant, NeverBlocksAlways and SurvivesAlways, for all
  six servers in one invariant of which each program uses its part. NeverBlocks must say
  more than "what was reported was true": `LoopInv` has a reported descriptor that is
  still due open and readable, because only this thread takes data or closes. In poll.cpp,
  which leaves `revents` alone, due means from `eventfd` on, and no number beyond
  `maxfd` can be stale. `ReactInv` is the same of the reactors. One descriptor per client
  (`KernelInv`) makes a close of one leave the others. Survives needs the behaviour of
  polite clients: one that has closed waits for no answer and has nothing to come
  (`LinksPolite`), and the servers send only to one that waits (`SendsAsked`), so no `send`
  meets a reset; with `RcInv`, which keeps the reactor's `rc` within its buffer, and within
  what the client has sent, until a client has sent more (`Overrun`), and, for thread.cpp,
  `ThreadInv`.
  AnswersAlwaysRight adds what has been sent, `RightInv`, on top of these: for the echo
  servers that what was received is what was sent back and what tasks still hold, in order
  (`EchoInv`); for the reactor that until its first answer a connection's buffer has just
  what that connection sent, whatever the descriptor held before (`FirstInv`); for the HTTP server that a
  descriptor's request was asked by its client (`RequestInv`), and that an answer
  without its body is the last and still in `send_cb`'s hands (`AnswerInv`). None of the
  four holds alone: a header kept from an earlier client would be sent to the next.
* `FilePublish_proofs`. PublishInvariant, FilesAlwaysSound and NothingLost, for any
  number of processes, files, versions, deaths and failing calls. `NamesApart` (an inode has one name) and
  `AtInv` (what is open at each place) hold always; until two cofiles meet on one temporary
  name, a cofile is alone on its temporary file and no cifile is on one
  (`HandlesInv`). So nobody's step changes what is published or being read
  (PubContent, FinContent), nor what another has written so far (FoutContent). `WriteInv` and
  `CopyInv` then say what is in a temporary file, as long as its stream is not bad, and that
  it is torn otherwise, WholeFiles what a rename makes of it, and
  `ReadInv` that a consumer about to remove a name has read the file, or the name
  has come to mean a version counted as `raced`, which gives NoneLost. The attempt to prove
  CopySame with several copiers showed that it fails when a second copy to the same name
  comes between the rename and the return of the first: `spoilt` therefore
  belongs to a copier and also names this case, and the run `files` has two copiers.

Checked by TLC only: all liveness (fairness and ENABLED are outside the prover);
MatchRight and FieldsRight of the string helpers, which compare folds and recursive
functions over texts with other ones, so that a proof would need an argument like that
of the tree's walks for each of them; and SignalFamily, whose property is liveness.

## 6. What the models show about the code

The properties of the passing runs hold. Where the code falls short, the property names
the exception, so that everything outside the exception is checked. Where it contradicts
a comment of its own, the property promises nothing either way:

* A star stands for any characters (public.h 70). `matchstr` looks for the last part of a
  rule without asking whether it is also the first (246-250), so a rule without a star,
  which should be the name itself, lets in longer names that begin and end with it.
  MatchRight leaves these open (`BothEnds`).
* Both sides are trimmed (public.h 29). `deleterchr` of a string keeps the blanks if only
  the first character stays (56), and so does `splittocmd` with `bdelspace`. FieldsRight
  leaves texts with one such character open (`OneInked`).
* False for a missing tag (public.h 138). The char* version of `getxmlbuffer` returns true
  (489). FieldsRight leaves its result open there.
* An empty text for an unknown format (public.h 197, 208), and hh24:mi:ss and hh24:mi among
  the known ones (188, 190). `timetostr` leaves a string as it was (721), and does not know
  these two. TimesRight demands an empty text for an unknown format wherever none was left
  over, and promises nothing after such calls otherwise (`Mistaken`).
* `copyfile` returns false when the disk is full, and the copy has the time of its source
  (public.h 269, 273). It ignores the results of `write` (1575), `closeandrename` (1583) and
  `setmtime` (1588): a truncated copy is published and true returned. FilesSound excludes
  files that are `torn` and copies that `"failed"`; the run `files_copy` checks CopyAsSaid,
  what the comment says, and shows how it fails (`findings` in PROJECT.json).

The exceptions:

* The daemon is said to stop for killall -9 only (md 121). If a service removes its
  record on signal 15 but still exists at every poll, `shm[ii].pid` is 0 when signal 9
  is due, and `kill(0,9)` kills the daemon's own process group (206). Checkproc has
  the step (`dead`); ResidueRemoved and HungEnds promise nothing after it.
* An interrupted `wait()` (`eintr`): `addpinfo` ignores the result (public.cpp
  1678), goes on without the lock and posts a unit it never took. Mutex
  and RecordKept hold until then; OneRecord holds anyway.
* A creator that dies between `semget` and SETVAL (`Orphan`): every later `init`
  returns true and `wait()` blocks for ever (1750-1772).
* The destructor's memset takes no lock (1719): once the pid is zeroed another
  service may take the slot and have its remaining fields zeroed. RecordKept is
  therefore about the pid only.
* `uptatime` does not look at the pid (1711): two services that came to share a
  slot beat for each other; HungEnds makes that exception. The daemon may also kill
  a service that inherited a reused pid, or the slot of its victim, by mistake
  (md 191, 206).
* Two rotations in one second build the same backup name (812), and `rename`
  replaces the first backup: `clash`. A line logged during a rotation is refused
  (public.h 488). After a rotation that could not reopen the file (`failed`),
  `write` may return the state another thread left (496). A thread that saw the old
  size rotates a fresh file (805).
* `init()` of circular_queue reads `m_inited`, which no constructor sets
  (circular_queue.h 29): the properties are for zeroed memory.
* `worker_function` leaves its loop with the mutex locked (109): the first worker that
  hears of a shutdown stops all others and `workqueue_shutdown` itself, unless that was
  first at the mutex (WorkersLeave excludes them). After a shutdown nothing is served; the
  server never shuts its pool down.
* A connection whose last data and end are read in one go, or whose data outgrow
  the buffer, stays open (`partial`); clients that arrive together share an edge of
  the listener (`merged`); two jobs on one descriptor may close a connection twice
  (`overlap`); `curfds` loses an update when main and a worker collide (`raced`).
* `initserver` takes descriptor 0 for a failure and leaks it; `accept` overwrites a
  connection it still holds (1332). MessagesArrive rests on a peer that goes on
  or goes away: the timeout of `tcpread` covers only the first byte (1473).
* Two `cofile`s on one name share its temporary file (906): `clash`. From then on a
  file may be published half written or mixed.
* `closeandremove` removes whatever the name means by then (854): a version published
  while a consumer had the name open may go unread (`raced`).
* A write that fails, on a full disk, is reported by `cofile::write`, but `closeandrename`
  does not ask: a writer that does not look publishes a truncated file (`torn`).
* `copyfile` takes the size of its source before it opens it (1558, 1564) and its time
  after it closed it (1587), and returns true whatever the steps between returned. If
  the source is exchanged before the open, the copy may be truncated or padded with
  zeros (`"early"`); if later, it has the time of another file (`"late"`). Two calls of
  `copyfile` to one name overtake each other: the first may return true when the copy
  is the second's already, or the time of a file it never read (`"late"`, too).
* thread.cpp hands every thread the address of the same variable (64): a second client
  accepted before the first thread has read it leaves one connection with two threads
  and one with none (`raced`). The result of `pthread_create` is ignored: the client of a
  thread that was not created is never read (`"failed"`). Threads are neither joined nor
  detached.
* The loops meant to lower `maxfd` end at their first turn (select.cpp, poll.cpp): it
  never falls. That is harmless, and it even keeps `poll`'s array free of stale
  `revents`: `Shrunk_TooFar` shows what a loop that did lower it could do.
* epoll.cpp asks for edges but calls `recv` once per event: data beyond one buffer, or
  an end that came with data, waits for the next arrival (`partial`).
* recv_cb of the reactor adds each message's length to `rc`, which only the end of the
  connection resets, and copies it to the start of the buffer: its answers are right
  the first time only (EchoRight). After 1024 bytes in all, from a client that reads every
  answer, it overruns the buffer (153) into the `connect_t` of the next descriptor, its
  callback among the rest, which ends the server or worse: `Overrun`, the exception of
  Survives. The model ends there, and says nothing of what follows. A failed `recv` makes the length -1 and may end the
  process.
* http.cpp does not compile as it stands (`kvstore_t` is used at 34 and declared at
  56); it is modelled as it reads. Only the first request of a buffer is answered. A
  POST gets the file last named on that descriptor, maybe by an earlier client: HttpRight
  says so. If the file is removed between the two openings `send_cb` stays registered
  and sends the header again and again (`spun`).
* No server ignores SIGPIPE: a client that resets, or leaves before its answer, may end
  it for everybody (`rude`). A client that does not read stops a single-threaded server
  that blocks in `send` (ServedInTheEnd, `full`).
* J1: after a failed `pthread_create` the listening socket is closed in place of the
  client's (md 379, 540, 993): the client's leaks, and the next `accept` fails and
  ends the server. A thread faster than main's `push_back` leaves its id in `vthid`
  (`fast`), and EXIT may cancel a thread long gone. A signal between main's lock and
  unlock lets EXIT wait for itself. demo20's EXIT reads `vthid` without the lock, and
  its threads close their socket in `thmain` and again in `thcleanup` (451): the
  second may hit a new client's (`again`). Clients that ask and do not read keep
  the database connections (`Stuck`).

* J2: signal 15 on a consumer that holds the mutex stops the program (md 278,
  `SelfLocked`), and of signals that come while one waits, all but one are lost.
* J3: a child that is signalled before it has set its handlers runs FathEXIT and ends
  the whole family. If `fork` fails the father takes the child's branch (14, 18): it
  forks no more, and when it ends by ChldEXIT its children stay.

* K1, lengths: `getxmlbuffer` with the end tag before the start tag gets a
  negative length, returns the rest and forgets `ilen` (476-478).
* K1, loops: the guard of `replacestr` against an endless loop (131) sees only a `str2` that
  contains `str1`: replacing ab by bbaa in aab never ends (`overflow`). An empty separator
  makes `splittocmd` endless, too (not in the calls of the run).
* K1, values: points and signs are dropped before a number is read: 1.7 as
  an int is 17, -5 as an unsigned int is 5; and an unsigned int is read by `stoi`, so its
  upper half is refused (361, 545); NumbersRight leaves that range open.
* K2: `strtotime` takes every text for standard time (1039), so that `addtime` and
  `setmtime` add an hour in summer (`odd`); `setmtime` does not ask whether it failed.

## 7. Not modelled

J4: pages of one system call each; what they teach is modelled where the library does
it (A1 to A3). Of B2 also: an `nSend` that fails and its SIGPIPE on a connection that was reset (348),
and `strlen` of a buffer that is full (380). The use of `csemp` as a counter (value 0, no SEM_UNDO), which comments of
public.h (667, 677) describe, has no code in the repository. Of K: null pointers,
an index out of range, `tolower`, `sformat`, what `stod` makes of its text, `filesize`,
and `ctimer`, which subtracts two times. `socket_server.cpp` serves one client and ends. `procctl` appears only as the fact that checkproc runs again.
The load-test clients are replaced by clients that may connect, send and close in
every order. Names, addresses, payloads and log texts are abstracted to identities. Of F, `renamefile`,
files written without a temporary name, read errors in `copyfile`, a failing `remove()`,
subdirectories and the size and time members of `cdir` are left out.
Of H and I: running out of descriptors (the result of `accept` is not tested, and -1
is then used as an index), requests in pieces or longer than a buffer, the key-value
store that POST fills and nothing reads; a file of size 0 counts as absent. Of D, memory that
is not zeroed is in the module (Dirty) and in no run. Of J1: EXIT on
another thread than `main` (no thread blocks the signals, so a second signal may find one),
EXIT before `pthread_spin_init` (md 516, 964), the
SQL and its texts, `initconns` and `destroyconns`, frames in pieces (E1), and a
cancellation inside `malloc`, the log's lock or the database library, whose state it
may leave broken.
