# Verification of librascal

librascal is a C++ library for asynchronous connections and name resolution.
A client calls plain functions (`rascal_connect`, `rascal_write`, `rascal_wait`,
..), gets ids, and receives events through a dispatcher that worker threads of
the library call. This directory models its core in TLA+, checks the model with
TLC and proves its safety with TLAPS. Paths below are relative to
`src/sources/`.

## The system

| component | state | operations | interacts with |
|---|---|---|---|
| id table, `common/util/stock.h` | slots (id, pointer), free stack, serial number, mutex | `add`, `get`, `remove`, `find`, iteration | every object adds and removes itself |
| object lifecycle, `common/object.*` | `refc`, `cancelled`, mutex; static: table, `laze` (mutex and condition variable) | constructor, destructor, `_lookup`, `incref`, `decref`, `cancel`, `list`, `wait` | base of connections and requests; `pobject` on the stack of each API call |
| data buffers, `common/datachain*.cc`, `common/packetchain.cc` | chain of 2048-byte items | `append`, `peek`, `remove`, `extract`, `gets` | two per connection, under its mutex |
| stream connections, `bsd/connection.cc` | `selected`, `mode`, `rd`, `wr`, socket | `work` (`filter`, `select`, `on_read`, `on_write`, `on_error`, `on_pulse`), `read`, `reads`, `write` | worker threads, the application from any thread, the kernel |
| listeners, datagrams, `bsd/connection_in.cc`, `bsd/connection_dg.cc` | as above | `on_read` (accept), `on_write` | as above |
| resolver, `common/resolver/` | queue of requests, name server connections | `flush`, `on_read`, `cancel`, `cycle_monitor`, `getaddr`, `gethost` | monitor thread, workers (replies arrive as events of a datagram connection) |
| service location, `common/resolver/rascal_getsrv.cc`, `common/rascal_*_service.cc` | SRV records, addresses, a request in the queue | `on_event`, `on_getaddr`, `sort`, `try_next_server` and its dispatcher | the resolver, address lookups and connections it starts itself |
| packets, `common/resolver/header.cc` | none | `dump`, `parse`, `put`, `get`, `skip`, `get_addrs`, `get_hosts` | the lookups |
| NT port, `nt/` | overlapped operations, completion port, a list of connection attempts | `on_event` of each operation, `connect_ex_thread` | completion threads, the thread of `connectex.cc`, the application |
| page cache, `common/util/memory.*` | pages of equal blocks, each with a stack of free indexes | `pmalloc`, `pmfree` | allocator of the classes above |
| initialisation, `bsd/rascal_init.cc`, `nt/rascal_init.cc`, `nt/iocp.cc` | one option, the port, the workers | `rascal_init` | everything |
| options, addresses, times, messages | one option table | `rascal_set_option`, `rascal_aton`, `rascal_ntoa`, `ftspec`, `rascal_get_errmsg` | read by filters and the resolver |

Hard to get right:

- any thread finds an object by its id while another one drops the last
  reference or cancels it; `cancel` takes no lock;
- workers share all connections without owning any: a flag, `selected`, set
  during `list()` and cleared at the end of `work()`, is all that keeps two of
  them from running the handlers of one connection;
- the handlers call the dispatcher without the connection's mutex, go on after
  errors, and the application reads, writes and cancels between any two steps;
- `wait()` sleeps on a condition variable before it tests;
- `send` may take a part of what it is offered; `select` may fail;
- buffers cross the border of items in `append`, `remove` and `gets`;
- an SRV query is repeated and answered again while its hosts are looked up
  and its servers are tried, and its address records change all the time;
- on NT, `rascal_write` meets the completion of the previous write, operations
  may fail as they begin, in their constructors, and `cancel` runs in any of
  three kinds of threads.

What makes each component correct:

- table: an id denotes the object it was given for, until that is removed,
  and nothing else; free slots are neither lost nor shared;
- objects: `refc` counts the holders; destroyed once, not under a holder, only
  if cancelled; if cancelled and unreferenced, destroyed in the end; waiters wake;
- buffers: bytes in order and once; whole lines; datagrams apart;
- connections: one worker at a time; data in order both ways; no event before
  the opening or after the end; attempts settle, data departs, ends are noticed;
- resolver: a callback for each request before it is gone; none is forgotten or
  asked for without end; a request that is not answered ends;
- services: the client is told once; every address is tried, once, in the order
  of priorities; a lookup does not stop half-way;
- packets: what is found in a reply is what the server put there;
- page cache: an item belongs to one owner;
- NT: references are those of the operations; one writer, one reader; nothing
  written is forgotten.

`PROJECT.json` lists all hazards with their lines and the properties for them.

## Modules

| module | what it is |
|---|---|
| `Registry` | abstract: a map from ids to objects |
| `Stock` | the table: slots, free stack, serials that wrap; `IsRegistry` states that it implements `Registry` |
| `MCStock` | `Stock` with a history of recent ids, for TLC |
| `Object` | references, cancellation, destruction and `wait()` of objects by threads |
| `ObjectProofs` | theorems about `Object` |
| `ByteQueue`, `PacketQueue` | abstract: what a stream buffer and a datagram buffer promise |
| `ChainOps` | the chains as functions on sequences of items |
| `Buffers` | a buffer under calls; implements `ByteQueue` as a stream and `PacketQueue` for datagrams |
| `Connection` | a stream connection of the BSD port, workers, application, socket, peer |
| `ConnectionProofs` | theorems about `Connection` |
| `Datagram` | a datagram connection of the BSD port, a worker, the application, peer and strangers |
| `Setup` | the birth of a connection against workers that already run |
| `Resolver` | lookups: the queue of requests, replies, the monitor thread, cancellation |
| `ResolverProofs` | theorems about `Resolver` |
| `GetSrv`, `MCGetSrv` | service location, from the SRV query to the last attempt; its instance |
| `GetSrvProofs` | theorems about `GetSrv` |
| `Packet` | DNS packets: operators that write and read them |
| `Values` | addresses with masks, moments: operators |
| `Samples` | the operators of `Packet` and `Values` in use: what they promise of a reply, a query, an address and two moments |
| `PacketProofs` | theorems about `Samples`, for all names, packets, addresses and moments |
| `PageMan` | the page cache |
| `BuffersProofs` | theorems about `Buffers`, the refinements of `ByteQueue` and `PacketQueue` among them, and about `PageMan` |
| `Startup` | `rascal_init` of both ports, by several callers |
| `PartsProofs` | theorems about three parts that share nothing: `Stock` and `MCStock`, with the refinement of `Registry`; `Startup`; `Datagram` |
| `NtConnection`, `MCNtConnection` | a connection of the NT port, its operations, its maker, the threads that serve them; its instance, with the workers interchangeable |
| `NtProofs` | theorems about `NtConnection` |
| `MCData` | the instance of `Buffers`, `Datagram`, `Samples` (with `Packet` and `Values`), `PageMan` and `Startup` |

**Stock.** Each method holds the table's mutex from start to end: one call is
one action. `cnt`, `ids`/`body`, `free`, `seed` are `cnt_data`, `ptr_data`,
`ptr_free`/`cnt_free`, `idx_seed`. The 2^16 slots an id can tell apart and the
2^15 serials are the constants `SlotSpan` and `Serials`; a slot index beyond
`SlotSpan` runs into the serial as it does in the code. `answer` is the
last call with its arguments and its result.

**Object.** A step is what runs under one mutex, or one access outside any. A
thread has one reference at a time (a `pobject`, or a worker's pick). `decref`
is three actions, for the code decides under the mutex (`Decref`), and
broadcasts (`Broadcast`) or deletes (`Delete`, `Unregister`) after it left it.
`list()` keeps the table's mutex while its filter runs (`ListEnter`,
`FilterTest`, `FilterIncref`, `ListLeave`). `wait()` is `WaitEnter`, `Sleep`,
`Awake`, `Check`, with spurious wake-ups. `wait()` locks a recursive mutex
twice around `pthread_cond_wait`, which POSIX leaves undefined: `FullRelease`
says whether the sleeper gives up both levels. A thread that touched freed
memory takes no more steps.

**Buffers.** The operations of `ChainOps` follow the code item by item, with
`dead` and `used` counts; loops over bytes are `SubSeq`. `kind` tells the two
classes apart. `gets` exists in `datachain` only: the declaration in
`packetchain` has other parameters and overrides nothing.

**Connection.** A worker's `pc` goes through `work()`: `Filter`, `Pulse` and
`Take` (`filter`, from its tests over the call of the dispatcher in `on_pulse`
to `incref`), `Prepare` (`need_to_write`), `Select`, the handlers, `Unselect`, `Unref`. The
part of a handler under the mutex is one step (`OnRead`, and one `Send` for each
chunk), each call of the dispatcher with the assignments that follow it is
another. The kernel's side is external: `Readable`, `Writable`, and the
actions under `Net`. Reference counting is that of `Object`; one connection
is modelled, since connections share nothing but the workers.
Sockets are taken to be non-blocking, which holds for the ones the library
opens itself. While the filter runs the worker has no reference yet: a
cancellation destroys the connection under it, and if it goes on with the
freed memory it is "astray" and takes no more steps.

**Datagram.** The same pass of a worker, with the handlers of `connection_dg`:
`on_read` receives until the socket is empty, fails, or gives an empty datagram
or one of a stranger, each of which ends the loop. A datagram is its number.

**Setup.** `Creator` follows `rascal_connect_ex` (tcp, udp), `rascal_accept`
and the accepting half of `connection_in::on_read`, from the constructor of
`object`, which publishes the object, to the return; workers may pick it between
any two steps, and the dispatcher, which is asked on the way, may cancel it. A worker
that serves it before the constructor of `connection` has run finds the
socket, the mode and the buffers uninitialised, and may do anything to it.

**Resolver.** One action for what runs under `request::mx`, `object::mx` or
neither; `flush` is `Send`, `Count`, `Store`, `Wake`, for nothing guards
`rcount++`. `fits` says whether `dump()` gets the name of a request into
a packet: if not, nothing is sent and its constructor deletes it, as without a
name server. A reply, a time-out and `rascal_cancel` end a request alike: `Call`
(callback and `unlist`), `Drop` (flag and the queue's reference), for the worker
and the client `Release`, and `Delete` by whoever dropped the last reference.
`Call` and `Delete` join steps with no shared access between them that another
thread could tell. The monitor's walk is `ReadHead`, `Enter`, `Visit` for each
request, `Again` where it comes back from an unlocked call, and `Leave`; `next`
survives in a freed block, as it does in memory of `pmalloc`. `due` stands for
the clock. A request that is ended twice, or used after it was freed by anyone
but `Again`, is `Corrupt`, and the model ends there. `past`, `stale` and `lost`
are history.

**GetSrv.** One request. An action is a whole handler: `Reply` is
`getsrv::on_event` with its loop over the records (`Walk`, one `Seen` for each),
`Resolved` the callback of an address lookup (`on_getaddr`, whose loop over the
records is `Expanded`, and over the addresses `InsertAll`), `Connected`, `Failed`
and `Closed` are `try_next_server_disp`. `Orders` is every result that `sort` can
have, over all random numbers, as the sequences of places it takes addresses
from, and `TryNext` lets the filter decline and `rascal_connect` refuse any
number of addresses before one is tried. Loops are functions defined by
recursion over the number of rounds. `on_getaddr` reads `base->host` after the
record was deleted; it survives there, as it does in memory of `pmalloc`. `arc4` is the build: with
`arc4random()` `faeutil_random` is a remainder, and the sort of addresses whose
weights sum to 1 divides by zero (`Dies`), which ends the process ("died").
`Kept` is what a record keeps of a host's name, 63 characters: a longer
one is never found again, or is taken for another. Nothing in
the code keeps two handlers of one request apart; the module is about
executions where they do not overlap. `rascal_accept_service` is the same
request, with a filter that listens and declines, and data of its own (`ris`).

**Packet, Values.** No state: operators that follow the functions of
`header.cc`, `rascal_aton.cc`, `rascal_ntoa.cc` and `ftspec.cc`. A packet is a
sequence of octets, and the pair of pointer and rest of the code a position in
it. Loops and the recursion over compressed names are recursive functions.
`MaxJumps` bounds the pointers that a reader follows; `header::get` follows them without a
bound. `Unit` and `Count` are the tables of the bit fields of the header: the value
of a field's lowest bit, and how many values it has.

**Samples.** No steps: a behaviour is one sample, a reply that came as a whole or
cut, a text that is asked for with some room, an address with a prefix, or two
moments. What samples there are is given by constants, of which
`SampleAssumption` only says what a name, an answer, an octet is; TLC tries a few
hundred, the theorems are about all. The server's side (`Wire`, `Until`,
`Came`, `Pointer`) is written from the layout of packets with the operators that put
things into one (`Dump`, `PutName`), not with those that parse.

**PageMan.** One call is one action, under the mutex of the cache. A page is the
size of its items and the stack of its free indexes.

**Startup.** `rascal_init` tests a flag of the option table and sets it later,
without a lock, then passes through the parts of its port, each of which may
fail. On NT a refused completion port is `return false`, which is
`REC_SUCCESS`, as in the code.

**NtConnection.** `ops` are the overlapped operations that exist: their type,
what they carry, and their stage: the constructor has not passed them on
("new"), a message to the thread `Ex` of `connectex.cc`, its list of attempts, the
kernel, completed, or run by a thread. `pc`, `at` and `mine` are a
thread's place, the operation that it handles, and one it is constructing
meanwhile. The thread `Maker` is in `rascal_connect` or `rascal_accept`: `Unmade`,
`Connect`, `Listen` or `ConnectDg` with the answer of the dispatcher, then
`SpawnReader` or `Delete`, and `End`, where `get_id()` is read; it holds
no reference, nor does a worker inside `on_accept` (`Unheld`). Once such
a thread is left with a connection that was destroyed, or the maker has deleted one
that others refer to, the behaviour is undefined and the model ends (`Corrupt`).
An operation that the system refuses to post to the other thread stays, "leaked"
(`Posted`). `cancel()` is `Test` and `Shut`, as it tests and sets the flag in two
steps. An operation that fails as it begins cancels the connection from inside
its constructor, then is deleted (`Drop`); one that fails in `Ex` is leaked.
`job` is the event of `Ex`, which all attempts share and nobody resets.

**MCData.** Each of its parts runs on its own: a behaviour chooses one `part` and
the others keep their state, so that no product of state spaces is built.
The samples to try are replies with up to two answers of three types, plain
and compressed names, cut at the end; texts to be asked for, with and without
room; addresses with every prefix; pairs of moments around the border of a
second.

Faulty variants of actions, marked `Faulty:`, stand beside the real ones: they
are plausible slips, used to show that every property notices some bug, and no
specification refers to them.

## Runs

| run | what it shows | bounds, and why they are enough |
|---|---|---|
| `stock` | types, exact free stack, ids lead home, implements `Registry`, no early reuse of an id | 2 objects, 2 slots added one at a time, 4 serials: growth, exhaustion, either order of reuse, and several wraps of the serial; the calls take every id, so stale ones are all tried |
| `object` | types, exact counter, deletion only by the known gap, no leak, sleepers woken, `Reclaimed` under fairness | 3 threads (1 worker, 2 that may wait), 2 objects: a thread each to hold, to drop and to revive; two sleepers on different objects |
| `data` | types, `IsByteQueue`, `IsPacketQueue`; `PageOwned`; `StartedOnce`; `ReplyRead`, `QueryRead`; `ValuesKept`; `DatagramsKept` | buffers: items of 2 bytes, calls of up to 3, streams of 4 bytes, 2 packets, 3 sorts of bytes: blocks that end at, before and behind an item border, lines across items, a packet that is cut; pages: 2 of 2 items, 2 sizes: a full page, a release out of order, an item of the other size; start: 2 callers, 2 processors; a name buffer of 8 characters, so that one name is cut; replies that lack 0, 1, 2 or 18 octets: the end of an answer, or the whole of it; 2 jumps, a pointer to a pointer; datagrams: 2 either way and as many disturbances, before, between and behind them |
| `connection` | types, exclusive service, no destruction under a worker that has its reference, order of data and events | 2 workers, 2 bytes each way, chunk 2, send buffer 1 |
| `connection_live` | attempts settle, data departs, ends are noticed and cancelled connections destroyed | 2 workers, 1 byte each way, `select` does not fail |
| `resolver` | types, sound queue, no leak, safe cancellation, bounded sending, no silent end | 1 client, 2 requests at once in 2 blocks, 1 retry, a name server that may go, names that may not fit: head and tail of the queue leave in either order while the monitor walks; client, worker and monitor may all be at one request |
| `resolver_live` | `Finishes` under fairness | 1 block, used twice, 2 retries |
| `getsrv` | types, `ToldOnce`, `NoneSkipped`, `InPriority`, and `Progresses` under fairness | 3 hosts, one with 2 addresses, two whose names are the same once cut, 5 sorts of reply, 2 replies to a request, both builds: records of two priorities, of the same host, with weight 0, cut ones, ".", none; a reply that repeats while lookups and attempts are under way |
| `nt` | types, `RefsExact`, `WrittenInOrder`, `ReaderKept`, `Drained` | 2 workers, the watching thread, the maker and the application; 4 operations at a time, 3 writes, of which an operation takes 2 at most: a write meets the completion of the one before it while another waits; streams, listeners and datagram connections |
| `connection_gap` | violation: bytes are lost by a partial `send` | as `connection`, 3 bytes |
| `resolver_restart` | violation: the monitor goes on behind a request it freed, and misses one that was queued | as `resolver` |
| `setup_creator` | violation: a connection is destroyed by a worker while `rascal_connect` works on it | 2 workers |

`stock` checks for deadlock. Objects, connections, lookups and services come to
an end, and so do the bounded parts of `data`, whose samples take no
step at all: the other runs turn that off.

**Fairness.** `Object!Fairness`: a call that was begun goes on (strong, since
the mutexes it waits for are free again and again); nobody has to begin,
cancel or wait. `Connection!FairSpec`: worker threads loop for ever
(`bsd/connection.cc:353-359`) and `select` returns after 100 ms at the latest;
time passes, so a connection attempt expires (`Expire`); a working socket
transmits what it accepted (`Transmit`). The application, the peer and the
dispatcher owe nothing. `ConnectSettles` needs the default, positive,
`RO_CONN_TIMEOUT`. `Resolver!FairSpec`: a thread that has begun goes on
(strong, because of the queue's mutex), the monitor among them; time passes
(`Expire`). Clients and the name server owe nothing. `GetSrv!FairSpec`
assumes that an address lookup calls back and that a connection attempt settles.
The second is `Connection!ConnectSettles`. The first is `Resolver!Finishes` only
as long as the name server is there and no wake-up of the monitor is
lost; where it is, a lookup of a service stops with it. Nobody has to answer the
query.

**Disagreements.** The violation runs above are the "findings" of
`PROJECT.json`, with the lines of code and of documentation. Met while
modelling, and not given a run:

- the table has no limit, although `stock.h:11` says 65536; past it the slot
  index runs into the serial number. `FreeListExact` and `IdsLeadHome` are
  stated below the limit.
- an object that is found, by its id, after `decref` chose to delete it
  (`object.cc:64`) is used after it is freed; `OnlyRevivedMisused` says that this is
  the only gap, and `revived` remembers it.
- `filter` calls the dispatcher in `on_pulse` before it takes the reference of the
  worker (`bsd/connection.cc:244-245`): a dispatcher that calls `rascal_cancel` there,
  or a call of another thread that had found the connection before it was
  selected, destroys it, and the worker
  takes its reference and goes on with freed memory, against `object.h:12-14`.
  `ServedByOne` says that such a worker, "astray", is the only one without a connection.
- when `select` fails, `work()` returns and leaves its connections
  selected, and referenced, for ever (`bsd/connection.cc:302`): nobody serves them
  again. `Connection` has such failures (`SelectFails`); its liveness is
  stated without them.
- two threads in `wait()` for one object each hold a reference, so `refc` never
  gets to 1 for either.
- `RRF_MEASURE` returns the length without the NUL; `gets` with a buffer of
  that size cuts the last character of an untrimmed line (`datachain.cc:146,174`).
- `rascal_cancel` on a BSD connection calls no dispatcher
  (`object.h:135`), though the manual promises a `rop_close`.
- `delete` is called on published objects (`bsd/connection_in.cc:73`,
  `bsd/rascal_connect.cc:31`), while a worker may hold them.
- `rascal_wait` sleeps before it tests (`object.cc:92`): a call after the last
  broadcast never returns. `SleeperWoken` leaves those sleepers out.
- when one of the two `realloc` calls in `add` fails and the other moved its array, the
  table keeps a pointer into freed memory (`stock.h:104-108`).
- `packetchain::gets` has other parameters than the virtual `datachain::gets`, so
  `rascal_reads` takes lines out of datagrams, though `datachain.h:67` says
  the function is unavailable; `Buffers!Gets` keeps to streams.
- `bsd/connection.cc:312` says that an error is not followed by a read or a write;
  `on_read` and `on_write` go on after `on_error()` and may report both.
- lookups: a reply, a time-out and `rascal_cancel` that overlap call the client
  twice, and drop the queue's reference twice; `pick()` returns a request
  without a reference (`request.cc:144`), `flush` writes to one that a
  reply may have ended (`request.cc:102`).
- without a name server `flush` fails before it counts (`request.cc:96`):
  requests in the queue never end and the monitor does not sleep; a
  reconnection that succeeds is thrown away (`resolver.cc:39`).
- `wake_monitor` posts to a condition variable without a predicate: a post while
  the monitor is about to sleep is lost (`monitor.cc:106`), and the lookup is
  neither repeated nor ended until another one starts.
- service location: the id of a record is the length of the list, which shrinks
  (`rascal_getsrv.cc:122`), so that after a repeated reply the addresses of one
  host go to another's records, against the comment at `:316`
  (`ResolvedHost` is stated for one reply); a second reply without records, once no
  record waits any more, counts as an answer without a service (`:182`), and
  ends the request with an attempt under way and addresses untried (`ended` is "answered"
  then, and `NoneSkipped` does not speak of it); an attempt that times out arrives as
  `rop_close`, which ends the failover without a word (`:201`, `timedout`);
  `ris->rid` is written after `rascal_connect_service` may have ended the
  request and freed `ris` (`rascal_accept_service.cc:81`).
- where there is `arc4random()`, the sort of addresses whose remaining weights sum to 1
  calls `faeutil_random(0)`, a division by zero (`rascal_getsrv.cc:244`,
  `random.cc:22`): the process dies and the client is not told. `Progresses` names
  this case, "died".
- a host of more than 63 characters is looked up in full but kept cut
  (`rascal_getsrv.cc:123`): it is looked up again for each of its records (`:127`), and
  of hosts that begin alike the addresses of one go to the records of the others (`:340`).
- `get_hosts` looks for the next record at the length of the data counted from the
  start of the last record, not from its data, and `hostv[idx]` is indexed by the record, not by `count`
  (`header.cc:268,275`); `HostFound` is stated for one answer.
- `put` does not refuse a label of more than 63 characters, whose length is
  then read as the beginning of a pointer (`header.cc:28-48`); `IsName` leaves such names
  out. `get` follows pointers without a bound (`header.cc:307-322`).
- an address mask with fewer than four octets writes `mask[4]` and leaves the missing
  ones as they were, 255 (`rascal_aton.cc:97`).
- `iocp::init` returns `false`, which is `REC_SUCCESS`, if there is no port
  (`nt/iocp.cc:53`); a caller that tries `rascal_init` again after a failure
  is told `REC_SUCCESS` (`bsd/rascal_init.cc:25`). `StartedOnce` leaves failures out.
- `pmalloc` answers NULL to a request for another size that meets a page with
  room (`memory.cc:103`): in `PageMan` such a request takes nothing.
- BSD datagrams: one that `sendto` refuses with EWOULDBLOCK is dropped
  (`connection_dg.cc:107`), and a `rop_read` may follow the `rop_close` of
  the error that ended the loop (`:62`). A listener always asks for
  writability (`connection_in.cc:54`), where that is always granted, so `select` never waits.
- NT: two threads in `cancel` both report `rop_close` (`nt/connection.cc:39`); a
  stranger's datagram ends the reading (`oreader_dg.cc:51`); a datagram operation
  that fails in the other thread is never deleted, an attempt that fails there
  is deleted without a word (`connectex.cc:62,106,129`); an accepted connection that the
  dispatcher declines is cancelled but never destroyed (`nt/connection.cc:124`).
  `ReaderKept` and `Drained` name these cases.
- NT: whoever makes a connection keeps no reference to it. `rop_connect` gives the id
  of a datagram connection away (`connection_dg.cc:67-74`); a `rascal_cancel` in or
  during that call destroys it, and `rascal_connect` starts to read from it, or deletes
  it once more (`rascal_connect.cc:31`). A stream may be gone before
  `get_id()` is read (`rascal_connect.cc:35`). `Corrupt` is where the model ends then.
- NT: a post to the other thread that fails is not noticed (`connectex.cc:207-212`):
  `is_writing` stays set and no later write leaves, or nobody reads; the outcome of
  an attempt that cannot be posted to the port is lost. `Drained` leaves these out.
- `gets` reads a byte behind the item at `datachain.cc:163`; the model takes it
  for something else than LF.

## Proofs

`tlapm` checks eight modules of proofs, for every value of the constants under
the named assumptions of the modules they extend (`StockAssumption`,
`ObjectAssumption`, `ConnectionAssumption`, `PageAssumption`,
`ResolverAssumption`, `NtAssumption`, `StartAssumption`, `GetSrvAssumption`,
`ChainAssumption`, `BufferAssumption`, `PacketAssumption`, `ValueAssumption`,
`SampleAssumption`; `Datagram` needs none). Every refinement and every invariant
that the passing runs check is a theorem too.

- `StockTyped`, `FreeStackExact`, `IdsResolve`: the typing of the table, and
  its two invariants. The table's typing is inductive by itself. The free
  stack needs both directions at once (every entry is an unused slot, none
  twice, and no unused slot is missing), a lemma on growth by a page, and
  `IdsLeadHome`, for `remove` pushes `SlotOf(i)` and not the slot of the id.
- `StockIsRegistry`: a behaviour of the table that keeps below the span
  (`[]Fits`) is one of `Registry`. `Shows` says of a table what map it
  shows: each used slot holds the id that names it, so that an id is in one slot
  and `Live` does not depend on a choice (`ViewIs`). From there each call is
  a lemma: `AddIs` rests on the free stack (the slot taken shows nothing, so the
  id is new), `FoundIs` and `RemoveIs` on ids that lead home.
- `IdsNotReused`: the recent ids carry the serial numbers that run up
  to the last one (`Running`), one less for each step back, modulo their number; a
  window of one less than all of them holds no number twice.
- `TypeCorrect`, `CounterExact`, `DeletionSafe`, `NoLeak`, `OnlyTheCancelled`,
  `WakeUpPending`: the safety of the object lifecycle. `CounterExact` is
  inductive with the typing, by counting `Holders` when one thread enters or
  leaves. `DeletionSafe` needs the
  strengthening `KillInv`. Its part `Settled` says of an object that is not in
  `revived`: while a thread is in `Killing` the counter is 0 and no other thread
  is, the object's memory is where that thread's `pc` says, and once freed it
  has neither holders nor killers. `NoLeak` and `OnlyTheCancelled` are parts of
  it too; `cancel` keeps the former since its caller is counted. `ListLocked`
  says that a filter runs under the table's mutex, which keeps `Unregister`
  from taking the object away. `WakeUpPending` rests on `WakeInv`, about sleepers and pending broadcasts, and
  is proved for both values of `FullRelease`, of which TLC runs one.

- `ServedByOneWorker`, `EventsOrdered`, `StreamsInOrder`: the three invariants
  of a connection, for any number of workers, chunks and bytes, with `select`
  failing or not, and a dispatcher that may cancel in the filter. The typing is split in three (state, data, log), since most
  steps touch one of them. `Excl` strengthens exclusive service by what keeps
  it: whoever has taken a reference and not let go of the connection keeps it alive, and
  whoever serves it has set the flag; who is still in the filter has neither, and finds
  the connection destroyed only if it was cancelled. With it, the others are outside while a
  worker is in a handler (`Alone`), and the order of events becomes inductive:
  `EventInv` says where workers may be once the attempt was refused, or its
  end was reported (`AllPast`: only where nothing is reported any more), and
  that a worker that read the end of the stream has seen no error.
  `DataInv` bounds the bytes of the outgoing stream by the number written, which
  is what makes a new one rise above them; `RisesAfterSend` is the core: taking a
  chunk out of the middle of a rising sequence leaves it rising.
- `ItemsOwned`: the stack of each page and the items handed out from it
  together are all its items, each once (`PageInv`), across pages and sizes.

- `BuffersTyped`, `StreamIsByteQueue`, `DatagramsAreAPacketQueue`: buffers for
  every size of an item, alphabet and call. The typing says what the
  refinements need of a chain: only the head is partly consumed (`HeadOnly`), an
  item without bytes is alone (`NoneSpent`), items of a stream before its tail
  are full (`FullItems`). What is read of a chain, `Content`, flattens a sequence of
  sequences, by recursion inside the community modules; `ContentIs` says by induction
  that it is the last value of a walk through the items, and everything else
  builds on `ContentPrefix` (one item more) and `ContentConcat`. From there
  `AppendBytesKeeps` says that `append` puts the bytes behind the others (`NewItems` cuts
  what does not fit into the tail at multiples of the item size),
  `RemoveBytesKeeps` that `remove` takes as many off the front as it was told,
  though it marks item by item and drops items afterwards, `AppendPacketKeeps` and
  `RemovePacketIs` the same of packets, and `LineTextIs` that what `gets` copies,
  strips and cuts is a part of the line from its beginning, all of it if it fits.
  `StreamStep` and `PacketStep` map each call to one of the abstract queue.
- `QueueIsSound`, `NoRequestLeaks`, `CancelIsSafe`, `SendsAreBounded`,
  `NobodyIsForgotten`: the safety of lookups, for any clients, blocks, retries
  and id span. Most hold until a request was ended twice or used after it was
  freed; such a state is the last one of the model, so the inductive invariant is
  `Typed /\ Bounds /\ CancelSafe /\ (Corrupt \/ Good)`, and a step starts from
  `Good`. `Good` has ten parts: who takes which steps (`Roles`), that a thread at a
  request finds it there (`Alive`), that `refc` counts the holders and the
  queue (`Counted`), the order of callback, unlisting, cancellation and deletion
  (`Ordered`, `Deletions`), that a request off the queue has a thread to drop it
  (`Reachable`), and what each of the two that may count a request has read and
  sent (`Attempts`), from which the factor of two in `SendBound` comes. Each
  action has a lemma on its effect and one for each part it disturbs.
  `NobodyIsForgotten` is an action property from the same invariant: a request
  is freed after its callback, or before its id was told.
- `ReferencesAreExact`, `WritesAreInOrder`, `NothingIsLeft`, `OneReaderIsKept`:
  the safety of an NT connection, for any number of workers, operations and writes.
  There are three layers. `Base` is about references and threads: what a thread has
  in its hands, that no other has it, which stages and results go together,
  and that the references are the operations and the application's call.
  `Writing` is about the one writer: what the kernel took, what the operation
  carries and what waits make up the numbers from one on, and what waits has a
  writer or a thread about to begin one. `Reading` counts the readers that are
  posted and the threads about to post one. Each is inductive upon those
  before it, action by action; `NothingIsLeft` follows from the first two in
  settled states. A thread without a reference (`Unheld`: the maker, a worker in
  `on_accept`) is not protected: the theorems say that no other is left
  with a connection that was destroyed, and follow behaviours up to where one of these
  goes on with it. "leaked" operations keep their reference, and count.
- `StartIsOnce`: while the option is not set nobody is behind it (`Gate`); while no part
  failed, the policy is met or a caller is still ahead of the workers, on BSD one that
  passed this very policy (`Attended`), which holds even if two raced for the
  option; without a race there is one caller inside (`Alone`).
- `DatagramsAreKept`: what was read and what waits in the buffer count up from
  one (`Counts`), and the socket has the numbers behind, each once, rising
  (`Holds`). That the run `on_read` takes is just the next numbers
  (`RunCounts`) is proved by induction, from a lemma on subsets of `Nat` which
  rests on the well-foundedness of `<`.

- `ClientIsToldOnce`, `NoAddressIsSkipped`, `AttemptsAreOrdered`: service
  location for any hosts, answers and number of replies. The loops come first: a
  recursive function over 0 .. n exists (`Recursion`), and each loop keeps what
  its rounds keep. `InsertKeeps` and `OrdersKeep` say that an insertion adds
  one address, that `sort` only permutes, and that both leave the list in the
  order of the priorities (any list, any random numbers; `Picks` is the invariant of the
  loop of `sort`); `ExpandedKeeps` that the addresses added are those of the host; `AbsorbedKeeps`
  that ids and hosts of records and lookups go together (`Matched`) if the next id is
  new (`Fresh`), which the length of the list is when the first reply comes. The invariant has seven parts; that
  attempts only begin when no record is left (`Once`) is what makes the order
  of priorities inductive, since `tried \o ina` is then one list. `Matched` is about
  names as they are kept: a lookup has the host in full, a record what is left of it.

- `ValuesAreKept`: addresses and moments. The loop that reads a number digit by
  digit gives the number that was printed, whatever stands behind it, and a mask with a prefix
  is looked at octet by octet: each one's share of the leading ones (`Share`) is a row
  of a table, and the four rows together are `1 .. prefix`. Differences of
  moments are by cases, with and without a borrowed second (`Borrowed`).
- `QueriesAreRead`, `RepliesAreRead`: what is put into a packet is what is found in
  it. The loops of writer and reader are recursive functions over numbers;
  `Solution` says that such a function exists if a measure falls with each
  call, `Descent` is induction on that measure. The octets of a name that `PutName` builds
  label by label have a closed form, `Named`: each dot is replaced by the length of
  the label behind it. The readers are followed through
  any packet in which such octets lie (`Lies`), up to the room there is. The header is
  a table of bit fields that do not overlap, so that each is found again by a
  division. `FlatIs` places the n-th answer of a reply (`Spot`) behind the
  question and n - 1 answers; a packet that was cut is an initial part (`Begins`)
  in which the answers that lie as a whole are found, and the next one, which does not, is
  `NoRecord`: `GetAddrs` is then a walk over the same answers as the sequence
  `AddrsFound` states. A host is followed along its label and the pointer behind
  it (`PointerFollowed`, `CompressedGot`) to the rest of the question's name.

Only model-checked: liveness (`Reclaimed`, `Finishes`, `Progresses`, the three of
`Connection`), which the provers in use do not reach. `Setup` and the two other
violation runs show what does not hold. `HostFound` is about replies with one answer,
as is what the code does right.

## Not modelled

Allocation failures (except `realloc` of both arrays of the table, and NULL in the page cache),
debug output and log files, messages, samples. The other options, which are
only read. Data behind `set_context` and `set_dispatcher`. A worker that selects
many connections at once: what one connection's handlers do does not depend on
the others. In `Resolver`: several name servers and `rascal_set_nameserver`, ids
that wrap while a request is alive, the moment between the constructor of
`request`, which queues it, and that of the derived class, and a lookup that
finds an object whose deletion has begun (that is in `Object`). In `GetSrv`:
handlers of one request that overlap, and what the code does then with lists
that nothing guards. In `NtConnection`: the buffer of received data, several
attempts in the list of the other thread, and its absence.

## Plan

Compositions: `Object` with `Connection` for the dispatcher called inside
`list()`, `Resolver` with `Object` for the references of the queue; handlers of
`GetSrv` in steps; names that go through several pointers, and what the hosts of a
reply with several answers come to.
