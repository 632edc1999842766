# Air Traffic Controller: a TLA+ development

TLA+ models of the air traffic control game in this repository, the TLC
configurations that check them and TLAPS proofs about them. Line numbers refer
to the files under `src/` of the repository (`atcd.c:192` is
`src/atcd/atcd.c`, line 192; `README.md:49` is the repository's README).

## 1. The system

The program is a game for several players. Planes fly over a map of 4000 by
4000 metres; a player lists them, gives commands (faster, slower, climb,
descend, left, right) and tries to land them. There are two ways to build it:
`atc`, where each player's process runs the game itself on a shared file, and
`atcc-X` / `atcd-X`, a client and a forking server over transport `X`, where
each client's server process does.

| Part | Files | State | Operations |
|---|---|---|---|
| STO, storage | `storage/storage.c` | the file of planes, the cursor of a query, an fcntl lock | `sto_init`, `sto_query`, `sto_get`, `sto_set`, `sto_close` |
| ATCD, game | `atcd/atcd.c` | the number of planes at the last scan, the crashed and landed ones | `create_plane`, `set`, `get_airplanes`, `get_crashed`, `get_landed`, `get_airports` |
| ATCC, front end | `atcc/main.c` | the list last shown, the selection, the time of the last new plane | a loop of update, draw and input; the SIGINT handler |
| CLI, proxies | `cli/cli.c` | one connection with its last request and answer | ATCD's functions, as requests |
| Protocol | `protocol/*.c` | buffers | `atc_request`, `atc_reply`, the encodings |
| SRV, server | `srv/main.c` | a count and a table of clients in each process | accept and fork, serve, reap, be interrupted |
| COMM, transports | `transport/*/*.c` | a socket, two FIFOs, two message queues, or a shared memory zone with semaphores | `transport_send`, `transport_recv`, listen, accept, connect, close |
| Tools | `utils/*.c` | none | a dump of the table, a manual test of a transport |

How the parts meet. ATCC calls ATCD's functions, or CLI's proxies of the same
names. A proxy sends a request over COMM and reads an answer; in the server
process `atc_reply` reads it, calls `reply_handler`, which calls ATCD, and
writes the answer. ATCD keeps the planes in STO. Processes share the
file with its lock, what the transport listens on (a socket, a FIFO, two message
queues, or a zone of shared memory with two semaphores), the rings and
semaphores of a shared memory connection, and the signals between parent and
child.

What is hard:

* **Interleaving on the file.** `sto_set` searches and then overwrites or
  appends in several system calls, and the append is two writes. A scan holds a
  read lock, stores what came down from inside itself (a nested `sto_set` on a
  second descriptor whose close drops the lock of the scan), and goes on. Two
  such upgrades wait for each other; `fcntl` breaks the cycle with EDEADLK,
  which nobody looks at.
* **Stale state.** A command is carried out on a copy of a plane from an earlier
  list. A scan's clock may be older than the plane it reads. MAX_PLANES is
  compared with the last scan.
* **Failure.** A process killed between two writes, a write that fails; a recv
  that returns 0 or is interrupted; a fork that fails.
* **Signals.** SIGINT runs a whole request inside another one; SIGCHLD
  interrupts accept; several children that end make one signal.
* **Shared channels.** A message is longer than the ring that carries it, and
  its two ends keep an index each and two semaphores that nobody resets or
  unlinks. All processes that accept share one listening zone, one queue of
  "Accepted", one FIFO; children that accept clients of their own are rivals of
  their parents.
* **Numbers.** Remainders of negative numbers, a division by the sine of the
  elevation that is 0 where it matters, a cast of an infinity.

What makes each part correct:

* STO: one row per plane, whole rows, a write-back that hits the row it read,
  no command lost, no call that waits for ever.
* ATCD and ATCC: flying planes stay in a state that the arithmetic knows; a list
  has no plane twice; a command makes no plane; a plane that hit the ground is
  recorded; traffic is bounded.
* CLI and Protocol: a call is carried out once and gets its own answer.
* SRV: a client is served by one process; no ended child is forgotten; counts
  mean what they are used for; the server survives its clients.
* COMM: bytes arrive once, in order; a connection joins two ends and no third.

`PROJECT.json` lists the hazards one by one, at their lines, with the
properties that would catch them.

## 2. The modules

| Module | Models | EXTENDS / INSTANCE |
|---|---|---|
| `Rows` | the data of a row, `strncmp` of keys | |
| `Table` | abstract: what STO promises | `Rows` |
| `Storage`, `MCStorage` | `storage.c` and the scan of `get_airplanes`, call by call | `Rows`; implements `Table` |
| `StorageProofs` | theorems about `Storage` | `Storage`, TLAPS |
| `Flight` | the arithmetic of `atcd.c`: moving, obeying, coming down | |
| `Game`, `MCGame` | players that run ATCC's loop and ATCD's functions on a `Table` | `Flight`; INSTANCE `Table` |
| `GameProofs` | theorems about `Game` | `Game`, TLAPS |
| `Requests` | the requests, and what the functions behind them return | |
| `Calls` | abstract: what the proxies of CLI promise | `Requests` |
| `Protocol` | one client and its server process, message by message | `Requests`; implements `Calls` |
| `ProtocolProofs` | theorems about `Protocol` | `Protocol`, TLAPS |
| `Server` | the server's processes and signals | |
| `ServerProofs` | theorems about `Server` | `Server`, TLAPS |
| `Zone` | the size of a ring and what a byte is | |
| `Pipe` | abstract: one direction of a connection | `Zone` |
| `Ring` | `transport_send` and `transport_recv` of `shmem.c` | `Zone`; implements `Pipe` |
| `ZoneProofs` | lemmas about a ring of bytes, without states | `Zone`, TLAPS |
| `RingProofs` | theorems about `Ring` | `Ring`, `ZoneProofs` |
| `ShmemSession` | a client and its process over two rings | `Zone`; INSTANCE `Ring`, twice |
| `ShmemProofs` | theorems about `ShmemSession` | `ShmemSession`, `ZoneProofs` |
| `Family` | the server's processes and the clients, as far as they meet | |
| `ShmemListen`, `QueueListen`, `FifoListen` | accept and connect of three transports | `Family` |
| `Listen` | the processes over one of the three | the three of them |
| `ListenProofs` | theorems about `Listen` | `Listen`, TLAPS |

The game is built on `Table`, not on the system calls, because `Storage` is
shown to implement `Table` (run `Storage_refines`): that keeps both state
spaces small. In the same way `Server` says that a client's server process
either goes back to accepting (HangUp) or is killed (Die) when its client is
gone, and `Protocol` shows how each comes about (`spc` = "closed", "killed").

### Storage

`file` is the file as a sequence of rows, each a key and a datum; a datum is
`NoData` while only the key is written, `Zeros` if a later append left a hole.
`lock[p]` is the fcntl lock of process p. `pc[p]` names the system call that p
makes next: `set_lock` to `set_close` are the lines of `sto_set`, `get_lock` to
`get_eof` those of `sto_get`, `scan_close` is `sto_close`. A step reads or
writes one key or one datum. `Kill` and `IOError` are the faults. A lock is
granted in any order; a request that would close a cycle of two upgrades fails
(`SetDeadlk`) and the code goes on without the write lock, as `storage.c:123`
does. `WriteBack` is the nested `sto_set` of `_crashed_or_landed`.
Left out: `sto_get_by_id`, `sto_dispose`, `sto_del`, `sto_when`, which nothing
calls.

### Table

Rows in order of creation; `req[p]` is what a `sto_set` has still to store,
`pos[p]` how far a scan is, `got[p]` the row just handed out, `busy[p]` that
the scan holds the table. While a scan is attached no other process's command
takes effect; the write-back of another attached scan may (that is what EDEADLK
lets through), and each hits its own row. After a write-back the scan is
detached and other commands may come in before its next row.

### Flight and Game

`Flight` has `_sin`, `_cos` (each has the other's values, as in the code),
`calculate_position`, `_crashed_or_landed`, `_in_da_zone` (whose sense the
caller reads backwards) and `set`, over exact integers in units of 1/10000. A
coordinate may differ from the program's by the metre that a float's rounding
costs. The time of a crash is computed with a division by zero and a cast of
the infinity to an int, which C leaves undefined: `Clipped` and `LongAgo` are
the values it may end up as, and the choice is nondeterministic.

`Game` has one process per player. `pc[p]` runs through `start`, `tick`,
`input`, `update`, `scan` and the points where a `sto_set` is under way.
`view[p]` is `state.planes` as far as it was ever filled, so that a slot beyond
the end of the present list shows an old plane or a zeroed record, as it does in
the program. Any plane of a page and any command may be chosen. The clock is
read where the code calls `time`. `Roll` says which plane the random generator
makes in each second. `Quit` and `Start` are a player who leaves and comes back.

### Requests, Calls and Protocol

`cpc` is where the client is in a proxy, `spc` where the server is in
`atc_reply`. `toSrv` and `toCli` are the two directions of the connection, in
messages: one `transport_send` each. `res` and `sres` are the two `conn.res`,
where a code and a list share memory. The field `of` (and `id`) tells which call
an answer is to; it is on no wire, and only the properties look at it.
`Interrupt` is the SIGINT handler, which sends a good-bye and reads an answer in
the middle of any call. `Resize` is SIGWINCH: curses installs its handler
without SA_RESTART, so `recv` ends with EINTR; only an interruption before the
first byte of an answer is modelled. `RecvNothing` is a `recv` of a connection
whose client is gone: `atc_reply` handles the buffer as it is. It is in the same
stack frame each time, and so holds the last request; before the first request
it is not initialised and may hold anything. `Outcome` is what ATCD's functions
may return.
A client never sees the end of its server process: the parent keeps a
descriptor of every connection and closes none (`srv/main.c:77`), so nothing is
lost by leaving out an end-of-file for the client.

`Calls` is the promise: a call is carried out once, in order, and returns what
the function returned for that call.

### Server

`pc[p]`: `loop` is the test of `listen_channels`, `accept` the system call,
`fork` the time between it and the fork, `serve` the loop of
`listen_child_channels`. Every process has its own `cur_clients`, copied at the
fork and counted up by both sides. `pending` is a SIGCHLD not yet delivered (one
for any number of children), `handling` the loop of `srv_sigchld_handler`, one
`waitpid` per step. `Return` from a handler that interrupted `accept` ends the
process. A process that ends leaves a zombie to a living parent and orphans to
nobody. Left out are the descriptors that `kill_client` closes in the parent
(they are used for nothing else) and what a write below the table `nodes`
destroys, once a handler has counted below zero.

### Ring, Pipe and ShmemSession

`Ring` is one direction of a connection, a semaphore operation at a time. `free`
and `available` are the two semaphores, `wr` and `rd` the indices of the two
ends, each private to its end; `wpc` and `rpc` say what `transport_send` and
`transport_recv` do next for the byte at hand: `sem_wait` ("wait"), the copy
("store", "load"), `sem_post` ("post"). `CutSend` and `CutRecv` are calls that
do not come to their end: a `sem_wait` that a signal interrupts, a killed
process, or a signal handler that goes on to a call of its own. `drift` is a
history variable: the bytes that are in the ring and that `available` will never
count, because such a call stored one without posting, or waited for one without
loading it. `Pipe` is the promise: bytes come out in order, none twice, and no
more than ZONE_SIZE are under way; `Contents` reads the queue of the pipe out of
the ring, `drift` included.

`ShmemSession` puts two rings between a client (`cpc`: what of `atc_request` it
is in) and its server process (`spc`: what of `atc_reply`). Messages have their
real proportions: longer than the ring, a header shorter than a record; the
first byte says what the message is, the others are `Rest`. `Interrupt` is
SIGINT, whose handler sends a good-bye on the same ring while the interrupted
call may have sent half a message; `Resize` is SIGWINCH in a `sem_wait`.
`Restart` is a server that is started again and hands the port out once more
when both ends of the old connection are gone: the indices begin at 0, the
semaphores and the bytes stay as they are. `orderly` is a history variable:
every call so far was finished before anything else happened. What two ends at
the same port at the same time do to a ring is not modelled here; that it
happens is found in `Listen`.

### Family, ShmemListen, QueueListen, FifoListen and Listen

`Family` has the processes of the server as far as clients meet them: accept,
fork, serve, and go back to accepting when the client leaves (as
`listen_child_channels` returns into the loop of `listen_channels`). The three
transports add the steps of `transport_accept` and `transport_connect`. `backend`
is the transport that the program was built with; it is chosen in `Init`, so
that one run covers all three. `conn` and `link` are what a process and a client
believe to be connected to: a port, the queues named after a client, or the two
FIFOs. `GiveUp` is a client that is killed while it asks.

What these modules have in them, because the code has it:

* Shared memory: a process writes its next port into the listening zone, posts,
  and waits for a client to have read it. A second process overwrites the port
  (shmem.c:296); a SIGCHLD ends the wait (shmem.c:302); ports are counted in
  each process by itself, so that parent and child hand out the same one
  (shmem.c:298).
* Message queues: the client sends its number and takes the first "Accepted"
  (msgqueue.c:44); `connect` then opens queues that may not be there and reports
  success. A SIGCHLD ends `mq_receive`, and the number of the client is what the
  stack holds (msgqueue.c:85).
* FIFOs: the client writes the name of one into the FIFO of the server. A process
  that accepts again before the client it has just accepted has closed that FIFO
  waits in `read` and gets the end of the file (fifo.c:51), which ends it.

Left out: the table of clients and its limit, failing forks and SIGINT (they are
in `Server`); names of FIFOs that are spelled alike (client /1 and server 0 make
/10, as client /10 alone does); the lock F_SETLKW around a FIFO's messages;
`shm_open`, `mmap` and `sem_open` that fail.

## 3. The runs

`tlc -config X.cfg M`, with the module and configuration that `PROJECT.json`
names. All passing runs are exhaustive.

| Run | Shows | Bounds |
|---|---|---|
| `Storage_faults` | keys are unique; no plane is stored over another; a write-back hits the row it read; appends are exclusive; each damaged row is owed to a fault | 2 processes, 2 keys, 2 contents, 3 calls each, 2 faults |
| `Storage_refines` | without faults `Storage` implements `Table`, and every call returns | 2 processes, 2 keys, 2 contents, 2 calls each |
| `Game_solo` | one player, four planes and lists of three on two pages, a restart: envelope, lists, counts, commands; only a descending plane comes down; a plane beyond MAX_PLANES needs a restart or a command each | 63 s of play, 4 commands (descend, climb), 1 restart; 4.7 million states |
| `Game_live` | what flew into the ground is recorded; the planes in the air are at most MAX_PLANES - 1 and one per player and command; no player counts a plane twice, with two players whose scans interleave | 2 players, MAX_PLANES = 1, 60 s, 1 command |
| `Game_revived` (violated) | a command from a stale list lets a crashed plane fly again | 1 player |
| `Protocol_faults` | `Protocol` implements `Calls` as long as no call is cut short and no client killed; calls end; answers lag by as many calls as were cut short; only the last request is repeated | 3 calls, lists of up to 2, SIGINT at any point, 2 resizes, 1 kill, 1 replay, failing scans |
| `Protocol_errors` (violated) | the -1 of `get_airplanes` gets lost | 2 calls |
| `Server_family` | one server per client; the shares of the table are conserved; indices stay in the table while no child dies; no zombie is forgotten; waiting clients are accepted | 4 processes, 4 clients, a table of 3, 2 faults, 1 SIGINT, counts down to -2 (`MaxSpins`) |
| `Server_outlived` (violated) | a client that vanishes ends the server | 1 fault |
| `Shmem_session` | no byte is stored over another; bytes come in order; nothing is left behind between calls; a call reads its own answer; calls end | rings of 2 bytes, headers of 1, messages of 3, 2 calls, 2 faults, 2 sessions; 770,000 states |
| `Shmem_stuck` (violated) | an interrupted client and its process wait for each other to read | 1 call, 1 SIGINT |
| `Listen` | a connection joins one client and one process; only a rival takes away an "Accepted"; who asks is answered | 4 processes, 3 clients, 1 kill, each of 3 transports; 91,000 states |

Why the bounds are enough. Two processes make every conflict that fcntl's lock
knows (reader and writer, two upgrades), two keys give a match, a mismatch and
an append, and three calls give a scan, a command and a second scan around the
faults. In `Game` the times are chosen so that a plane made at the start comes
down, is commanded late, and is replaced by the tick of 20 seconds; in
`Game_solo` four commands take a plane to its steepest descent and have the next
one refused, and with three a plane comes down, another is made in its place and
the first is revived from the old list; headings and speeds change in the proofs
only, which hold for every command. In
`Protocol` three calls and two interruptions are the shortest history in which
the lag grows twice and is then read. In `Server` a table of 3 with 4 processes
is the full family: the first process and its children fork until all counts
are at the top, and a fourth client finds nobody.
In `ShmemSession` the ring is shorter than a message and longer than a header,
as ZONE_SIZE (32), ATCP_MSG_LEN (64) and ATCP_HEADER_LEN are, so that a writer
waits in the middle of a message, both indices wrap, and a cut leaves either end
with half a message; the second session begins on whatever semaphores the first
one left. In `Listen` three clients are two rivals and one who comes late, and
four processes a first one, the child of each client, and no more.
Symmetry (of the processes) is used in safety runs only.
Deadlock is checked except in `Protocol`, `Server`, `ShmemSession` and `Listen`,
which stop when the clients have left or all processes have ended.

Fairness. `Storage` and `Game` assume weak fairness of each process's own steps:
the operating system runs a process that can run, and grants a lock that stays
free. Nothing makes a player give a command, start or quit. `Protocol` assumes
it of the reads of the client and of the server's steps; nothing makes a client
call or leave. `ShmemSession` assumes it of the client that is in a call and of
the server, each of which the operating system wakes when its semaphore is
posted; `Listen` of every process and of a client that has asked. `Server`
assumes it of each process, not of the clients: a client may stay connected for
ever, so `WaitingAreAccepted` says only that a client is accepted as long as some
process has room and is not serving.

### What the violated properties say

* `DownIsFinal`: `set` gives the plane the present time before it computes the
  position, so it never finds that the plane came down, and it stores the copy
  from the list.
* `ErrorsAreReported`: atcd.c:243 promises -1; the answer to `get_airplanes`
  has no room for it and the client gets 0 planes.
* `ServerOutlivesClients`: SIGCHLD interrupts `accept`, and `main` returns.
* `NeverBothStuck`: shmem.c:16 has "a msg-sized buffer", but ZONE_SIZE is half a
  message: a client that is interrupted while an answer is being written sends
  its good-bye, and client and server each wait for room. With ZONE_SIZE = MSG
  and no fault the two never do.

Seen while modelling, and kept as the code has them without a run of their own:
a write-back whose upgrade fails with EDEADLK writes without the write lock
(storage.c:123; README.md:52 promises "locking + concurrency control"), and
`AppendsAreExclusive` and `WriteBackHitsRowRead` are what holds nevertheless;
the landing test is the wrong way round (atcd.c:65), so planes land outside
every zone; a digit picks a slot past the end of a page's planes (atcc/main.c:71)
and the command goes to the first row of the table; two planes of one second
have one name (atcd.c:149); with two players a scan older than a command moves
a climbing plane back in time and can bring it down (atcd.c:248), which is why
`DownWereDescending` is checked for one player only.

## 4. The proofs

`tlapm M.tla` for each module whose name ends in `Proofs`. The theorems hold for
any set of processes, players, clients, keys and contents, any sizes of rings,
lists and tables, and any values of the bounds, under the assumptions the
modules name: a zeroed key is no plane's key; null values are no data; sets of
players, processes and clients are finite where they are counted; in `Game` also
that `Roll` makes flying planes with an identifier, that lists have room for at
least one plane, and that the values of an undefined cast lie in the map
(`ClippedAssumption`: a remainder is taken of them); in `Protocol` that what is
left in a buffer does not read as a result of -1 (`ScrapAssumption`: it is the
name of a plane or a place on the map). Each module has an inductive invariant,
one lemma per action that keeps it, and theorems that follow from it.

Every invariant and every action property that a passing run checks is a theorem
of these modules.

**Storage.** `IInv` is the conjunction of the types, `LockExclusion` (a write
lock excludes every other lock), `UniqueRows`, `RowHoldsOwnPlane` and, for every
process, what its `pc` says: which lock it holds (`LockDiscipline`), that a scan
which holds a plane still finds it in its row (`HeldRow`), and that a search has
not passed a matching row (`Search`). `UniqueRows` alone is not inductive: that
an append adds a new key follows from the search having seen every row
without a match, and from no other process having appended since, which is the
write lock. A write-back without that lock never appends, because the row it
looks for is there: the read lock keeps it (`SearchFindsHeldRow`). There is one
lemma per action; `TypeCorrect`, `KeysAreUnique`, `RowsHoldTheirPlane`,
`WriteBacksHit` and `AppendsInIsolation` follow.

`DamageIsOwed` counts: a row without whole data appears only in a step that uses
up a fault, or is the last one and about to be completed by whoever holds the
write lock. `StorageIsATable` is the refinement: as long as there is no fault,
every system call is a step of `Table` or none. What it needs beside `IInv` is
`FInv`: without faults, all rows are whole but the one that is being appended,
and no scan has gone past that one. It is stated for the behaviours without faults
(`[](faults = 0)`), because with them `Table` is not what the code does: that is
what `DamageNeedsFault` measures.

**Game.** `GInv` is the types, the soundness of the table's state (every row,
request and row handed out has a flying plane with a proper key in the envelope;
scans that hold the table are consistent), `ViewSound` (the same of the lists,
and every plane of a list has a row: rows never go away), and `CmdKnown` (a
command under way is for a plane that has a row). Lemmas about `Flight` show
that moving, obeying and coming down stay in the envelope, the remainder of a
negative coordinate included. `TypeCorrect`, `PlanesStayInEnvelope` and
`CommandsMakeNoPlanes` follow, and `PlaysOnTheTable`: each step of a player is
one of `Table` or leaves it alone. With `StorageIsATable` that joins the two
halves: the storage implements the table that the game is played on.

*Lists.* The argument is about positions. Each slot of the list that a scan is
filling stands for a row that the scan has passed (`Shown`), and what is counted
is no more than the rows that were passed (`Score`). Rows are never removed and
keep their keys, so what others store in the meantime disturbs neither; as keys
differ, the row at hand is not in the list yet. `ListsShowPlanesOnce` and
`ScoresCountPlanesOnce` follow, for any number of players.

*Traffic.* A player has a claim if it may put a plane in the air before it
counts again: it is storing one, its last scan found less than MAX_PLANES, or the
scan it is in may still end so, with what it has counted and the planes in the
air that it has yet to pass (`Due`). Planes in the air and claims together are
never more than `Cap`. That alone is not inductive: when a plane comes down
behind the back of a scan, the scan counts one less, and a claim may arise.
`CapInv` therefore says it of every set of planes that may be left in the air:
whichever of them come down, those that stay and the players that may then claim
are at most `Cap`. A player who counts claims for a smaller set only, a plane
that is stored uses its player's claim up, and a restart or a command raises
`Cap` by the claim it may make. `TrafficIsCapped` follows. Proving it showed that
the bound has to grow with the commands: one on a stale list revives a plane, and
without `given` the bound is false, and `Game_solo` reaches states beyond it.

*One player.* `SoloInv` dates things: a plane in the table is no younger than the
clock, one that a scan may read no younger than the scan (`Dated`), and what came
down was descending (`Sank`). The first two hold because only the scan's own
player stores planes; `FallenWereDescending` is therefore a theorem for one
player (`Solo`), and false for two, as the end of section 3 says.

**Protocol.** The argument is about places. An answer is a header and its
records, the answers of all calls make one stream, and each message has a place
in it (`Pos`). `Chain` says that the message read last, those on their way, and
the one the server writes next each follow the one before (`Follows`: the next
record of the answer if it has one, else the header of the next answer). So an
answer is read whole before the next one is begun, however often a call was cut
short; and what the client has read last is known from how many answers it has
begun (`Reading`): as many as calls were finished. `Counted` says that a header
counts its records, `Logged` and `Latest` which requests have been carried out.
`AnswersComeInOrder`, `OnlyTheLastRepeats` and `TypeCorrect` follow.

`CallsAreImplemented` is the refinement: as long as no call is cut short, no
client killed and no scan fails, every step is one of `Calls` or none. `CInv` adds
what the messages contain: the last request is the one its proxy asks for
(`AskedByProxy`), the server's `conn.res` is what the function returned
(`AnsweredByLog`), a header on its way says what that is (`HeaderOfAnswer`), and
the client's list has the records of one answer in their order (`ListInOrder`).

**Server.** `SInv` is the types; `Family` (a parent is alive, and so is whoever
has a signal pending or handles one); `Queue` (the kernel's queue holds those who
wait, each once); `Pairs` (a process that forks or serves has a client, no two
have the same one, and every served client is somebody's); `Room` (who accepts
has a slot left); `Quiet` (while nothing fails no child ends, and no count goes
down); and `ZombiesAreNoticed`. A child gets its client in the step in which its
parent lets go of it, which is why `Pairs` has to know all that.
`ClientsHaveOneServer`, `SlotsStayInTable`, `ZombiesAreKnown` and `TypeCorrect`
follow.

`SharesAreKept` is about a sum over the living processes, of powers of two. What
it takes of sums is that they depend on what is added and not on the order
(`AddsSame`, `AddsAny`: by the smallest set for which it fails), and of powers
that 2^(n+1) is twice 2^n (`Powers`: a set with one more element has twice the
subsets). Then a fork puts two halves in the place of one share (`AddsHalves`),
and by `Quiet` no other step that changes a count or ends a process is taken
while nothing fails. As a share is at least one, there are at most
2^(MAX_CLIENTS - 1) processes then (`SharesBoundProcesses`): that, and not
MAX_CLIENTS, is what `nodes` bounds.

**Rings.** `ZoneProofs` has what rings need of arithmetic, without any state: the
bytes from the reader's place to the writer's (`Held`), and that a byte stored
behind them or loaded from their front adds or removes one at that end and moves
no other. In `Ring` two facts make an invariant: `Credits` (what the semaphores
count, what the two ends hold and what was cut off is at most ZONE_SIZE) and
`Distance` (the writer's index is the reader's plus the bytes pending, modulo
ZONE_SIZE). They say that a store goes to a place outside the pending bytes, so
the pipe's queue changes at one end only: `RingIsAPipe` shows `Spec` of `Ring` to
imply `Spec` of `Pipe`, whatever is cut short.

In `ShmemSession` `Distance` does not survive a `Restart`, which resets the
indices and not the semaphores; `Credits` of both rings does, for a restart only
forgets `drift`. `CreditsAreKept` says so for any number of sessions; its
invariant also has that only bytes of messages are in the rings and that what was
waited for is there when it is read. The other theorems need `PInv`, which says
that the indices agree (`InPlace`) in the first session and as long as every call
was finished, and what a state is like in which that is so (`Orderly`): between
two calls, a request under way or an answer under way, and for each how many
bytes of which message are written, in a ring and read, so that what is read next
is the rest of it. `NothingLeaks` (between calls both rings are empty and their
semaphores as new), `AnswersAreOwn` and `BytesKeepTheirOrder` follow.

**Listen.** `IInv` is the types and one invariant per transport. Over FIFOs
(`FifoInv`) a client's name is written once, read once, and stays with one
process, and what a client reads from its own FIFO names its own connection. Over
queues (`QueueInv`, as long as nobody is killed) the same holds of a client's
number, and requests and answers are counted (`Outstanding`): the clients that
wait are as many as the numbers in the queue, the processes that have received
one and the "Accepted" not yet taken; so a client that has always been alone in
asking gets its own. Over shared memory (`ShmemInv`, as long as no client
has left, so that only the first process accepts, and nobody is killed) the listening zone and its two semaphores
go round in turns (`Turn`), and every port is given to one process (`Ports`) and
one client (`Links`). `ClientsHaveTheirOwn`, `RivalsAreNeeded` and `TypeCorrect`
follow.

Model-checked only: liveness (`EveryCallReturns`, `OverdueIsRecorded`,
`CallsEnd`, `WaitingAreAccepted`, `AskersAreServed`), which the prover does not
do under fairness. No module has a RECURSIVE operator.

## 5. Not modelled

* Drawing, and the tools of `utils/`: they keep no state.
* What the encodings of `serialize.c` do to the bytes. `Protocol` has what the
  two ends tell messages apart by: the kind of a message, the type and the number
  of a header. That numbers come out as they went in rests on 32 bits being
  enough for the times and places of planes.
* The data transfer of queues, FIFOs and sockets: `mq_send`, `mq_receive`, `read`
  and `write` hand bytes to the kernel, which keeps their order; `Protocol` has a
  byte stream of that kind, and its interruptions.
* Two connections on one port of shared memory at the same time: `Listen` finds
  when they arise, but what they do to each other's bytes is left open.
* Where a plane may land: the landing test is translated as it stands
  (atcd.c:65), and no document says what it should be beyond its name, so no
  property states it.

What could be added: a session over a FIFO with its lock; a model of
`serialize.c` against 32-bit numbers.
