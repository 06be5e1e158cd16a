# Verification of the candypool pool server

candypool is a primecoin daemon (a Bitcoin descendant) with a mining pool built
in. Miners connect over the xpt protocol, log in, get workloads, send back
shares; the pool records shares and blocks in MySQL and pays from its wallet.
This directory holds TLA+ models of the pool's own logic, TLC configurations for
small instances, and TLAPS proofs for every instance.

File names below are relative to `src/src/`.

## Inventory

| Component | State | Operations | What makes it correct |
|---|---|---|---|
| Receive loop, `xptServer.cpp` 73-137, 833-998 | per connection: socket, packet buffer, `recvIndex`, `recvSize`, `opcode` | epoll event, read, header, data, dispatch, delete | packets of the stream in order, once, unaltered; no write past the buffer; no unread bytes without an event |
| Pool server, `xptServer.cpp` 139-205, 313-669, `xptServerPacketHandler.cpp` | per thread: template `currentBlock`, `coinTypeBlockHeight`, list of clients; per client: `clientState`, `disconnected`, `payloadNum`, `arrCurrentBlocks` | login, ping, share, work generation, new block check, notification loop | work, shares and blocks have their own height; no freed client used; everyone is notified |
| Replies and packet buffer, `xptPacketbuffer.cpp`, `xptServerPacketHandler.cpp` | the thread's one `sendBuffer` | four packets, built field by field and sent | a packet has its own fields and size; answers match shares; a successful login is followed by work |
| Accept loop, `xptServer.cpp` 671-831 | `iThreadUsed`, epoll descriptors | accept, hand over in turn | no connection is left behind in an edge-triggered socket |
| Worker table, `xptServerPacketHandler.cpp` 233-297 | rows of `worker` | select, insert, select, update | one row per worker, and its miners are booked under it |
| Confirmation thread, `xptServer.cpp` 1355-1441, `main.cpp` 904-927, 1812-1848 | rows of `blocks`; it reads `pnext` and `pindexBest` | select, look-up, depth, update, orphan | a row that is left alone for ever is right; the others converge |
| Key pool, `wallet.cpp` 1532-1650, 1788-1830 | `setKeyPool`, entries of the wallet file, `CReserveKey` objects | top up, reserve, keep, return, forget | a reserved key is nobody else's; a used one never comes back; none is lost |
| Chain state, `main.cpp` 1170-1231, 1531-1576, 1700-1860, 1895-2330, 2566-2638 | block index, orphans, best chain, coins in memory and on disk | `ProcessBlock`, `ConnectBestBlock`, `SetBestChain`, restart | coins of exactly one chain; sound blocks never marked invalid; the heaviest sound chain wins |
| Synchronised checkpoints, `checkpointsync.cpp` | current and pending checkpoint | accept, process, reorganise | a checkpoint only advances |
| Check queue, `checkqueue.h` | queue, counters, two condition variables | add, loop, wait | the verdict covers every check; nobody waits for ever |

Prime chains, scripts, networking, RPC, the Qt interface, LevelDB and JSON are
not modelled; `PROJECT.json` gives the reason for each.

How the parts interact. One thread accepts connections and puts each into the
epoll set of a listening thread, in turn. A listening thread is sequential: it
waits up to 100 ms, handles the events, then compares the node's height with the
one it is mining for and, if the node is ahead, makes a new template and sends
work to all its clients. The node changes `pindexBest` and `hashBestChain` in
other threads; the listening threads read them without a lock. Several listening
threads share the node, the wallet and the database, never a client. When a
listening thread finds a block it calls `ProcessBlock` itself, without the lock
`cs_main` that the node's own threads take. Another thread walks over the rows of
the pool's blocks every five minutes.

What is hard: the best block changes between any two reads of it inside one
handler; TCP cuts the stream anywhere and epoll reports an event once; a client
may disappear while lists point to it; database and wallet steps fail one by
one; the process may stop between two of them. `PROJECT.json` lists these
hazards at their lines.

## Modules

| Module | Models | Role |
|---|---|---|
| `XptFraming` | header layout, `xptServer.cpp` 104-106 | operators shared by the next two |
| `XptPackets` | what the receiver promises | abstract specification |
| `XptReceive` | receive loop | detailed specification, implements `XptPackets` |
| `XptServer` | pool server core | specification |
| `XptReplies` | send buffer, packets, answers | specification |
| `XptLogin` | accept loop, listening threads' start, worker table | specification |
| `Confirmations` | confirmation thread beside a changing chain | specification |
| `KeyPool` | key pool and reserved keys | specification |
| `ChainState` | block index, best chain, coins, checkpoints | specification |
| `CheckRounds` | what the check queue promises | abstract specification |
| `CheckQueue` | script check queue | detailed specification, implements `CheckRounds` |
| `XptReceiveProofs`, `XptServerProofs`, `CheckQueueProofs`, `KeyPoolProofs`, `ConfirmationsProofs`, `XptLoginProofs`, `ChainStateProofs`, `XptRepliesProofs` | | theorems |
| `MC...` | | instances for TLC |

The models meet at these places. `XptServer` sees the node as a best block that
changes at any moment; `ChainState` is that node. What `XptServer` does at a login
in one step is spelled out query by query in `XptLogin`, what its handlers send in
`XptReplies`, what its connections do with their keys in `KeyPool`.
`Confirmations` reads what `SaveBlock` of `XptServer` writes, and
`BestChainLinked` of `ChainState` is what it relies on. `CheckQueue` is what
decides, inside one step of `ChainState`, whether a block connects.

### XptReceive

`buffer` holds exactly the `recvIndex` bytes received of the current packet, so
`recvIndex` is its length. A `read` may return any number of bytes between one
and the number asked for. What one call of `xptServer_receiveData` does with
them is one action, `ReadPart`, `ReadOversizedHeader`, `ReadHeader`,
`ReadEmptyPacket` or `ReadRest`, by what the bytes complete. `pc` is the position
in the event loop: `wait` (epoll_wait), `reading` (the inner loop), `gone`
(deleted). `Arrive` and `Hangup` are the network; `edge` is the pending event of
edge-triggered epoll. `xptServer_processPacket` is a choice between TRUE and
FALSE. `delivered` is a history variable. A read interrupted by a signal (EINTR,
which the code takes for a hangup) is the same as a reset.

### XptServer

A step of the model is a stretch of a handler with one access to the best block
or to the database. `pc[t]` says where the thread is:

| place | code |
|---|---|
| `start` | `StartListeningThread` before its first template |
| `events` | event loop |
| `coinbase` | generateWork, about to make a workload (337-374, 406-449) |
| `height` | generateWork, about to read the height once more (389) |
| `send` | sendBlockData, about to build and send the packet |
| `template` | checkForNewBlocks has seen a greater height, about to call CreateNewBlock |
| `notify` | loop of sendNewBlockToAll |
| `saveshare`, `submit`, `process`, `saveblock` | checkWork before SaveShare, the second stale test, ProcessBlock, SaveBlock |

Blocks are numbered in the order in which the node learns them and `height` gives
their heights; a reorganisation may make the best height smaller. A workload is
the block its template builds on and the height in its coinbase. The outcome of
the proof-of-work test is a choice, since it is number theory; so is whether a
database call fails. A failed share only gets an answer (`Reply`). A freed
connection has the state it had before it was accepted, so it may be accepted
again.

Assumptions about the surroundings:

* Miners send back the previous block hash of the workload they solved
  (`SetBlockHeader`, line 541, would overwrite it).
* A block that was once the best and was replaced does not become the best again.
  `BestOnlyImproves` of `ChainStateProofs` proves this of a node that runs under
  `cs_main` and enforces no checkpoints: the best block changes only to one with
  more work, so an abandoned chain comes back only with new blocks on top. The
  pool's own submissions, which do not take `cs_main`, are outside that theorem.
* A change of the best block is atomic: `hashBestChain` and `pindexBest` are
  assigned two lines apart (`main.cpp` 1844-1845).
* `CreateNewBlock` succeeds: it needs a key, and the wallet has a default key.
* A database error in `sendNewBlockToAll` (line 176), which nothing catches, and
  which ends the process, does not happen.
* `coinTypeBlockHeight` is not initialised by the constructor: it starts with any
  value of `Garbage`.

### XptReplies

All miners of a thread are served from `sendBuffer`. A packet is a list of fields
(width in bytes, count, contents); `Write` is the bounds check that every writer
of `xptPacketbuffer.cpp` has, and it stops at the first field that does not fit,
as the handlers do. `Send` is `send` on a non-blocking socket: the whole packet,
a part of it (the miner loses the framing and understands nothing that follows,
`torn`) or nothing. `received` is what a miner has understood. The outcome of a
share is a choice: `Outcome` is what `checkWork` returns. `lost` are the miners that
have not got every packet whole. The reading half of `xptPacketbuffer.cpp` is not modelled.

### XptLogin

`edge` is the event of the edge-triggered listening socket and `accepting` the
inner accept loop, which ends with EAGAIN, or with another error when the process
has no descriptor left. A login is up to four queries, `AuthRequest`, `Insert`,
`Again` and `Online`; a thread handles one login at a time, threads interleave
between queries. `Column` is what `varchar(32)` keeps of a name, as MySQL does
when it is not in strict mode; `name` is a unique key (`pool.sql` 196). A refused
login is answered and closed. `StartThread` may fail to make the first template:
the thread ends, and the accept loop goes on giving it connections.

### Confirmations

The chain is a best block in a tree of blocks, and the links `pnext`. With a block
that arrives, the chain may be moved to any known block, under one assumption: a
block that was `Final` (3500) deep is never disconnected. `SetBestChain` cuts the
links of the old branch one by one (`CutLink`), ties those of the new one
(`TieLink`) and only then sets `pindexBest` (`NewBest`).

The thread takes no lock, so every read of `pnext` or `pindexBest` is a step of its
own: `IsInMainChain` reads the link (`CheckRow`) and, if there is none, the best
block (`CheckBest`); `GetDepthInMainChain` does both again (`Depth`, `DepthBest`,
`main.cpp` 914) and then reads the height of the best block (`DepthHeight`, line
926). The row is written by one query, `Update` or `Orphaned`. The node may act
between any two of these. The merkle branch checked at line 920 is that of the
block just read, and always connects; a block that cannot be read from disk has no
transactions, and `block.vtx[0]` ends the process, which is `Restart`.
A query may fail, which gives the round up. A restart may lose blocks that were not
on disk, while the rows remain. Blocks are processed one at a time here; what
happens when they are not is the subject of `ChainState`.

`torn` is a history variable: rows whose depth was last read while a reorganisation
was moving their block in or out of the chain, between the reads at lines 914 and
926. Such a depth counts blocks of another branch.

### KeyPool

`setKeyPool` is in memory, `db` is the wallet file. `Forgetful` holders are the
`CReserveKey` objects of connections (`xptServer.cpp` 334) and templates (193),
whose pointers are overwritten; `Payments` keep or return their key. Every
reservation tops the pool up first, in the same step, since both run under
`cs_wallet`. `NEnd` is the index new keys start at: one after the highest index
in the pool, or 1 when the pool is empty. `Lock` is walletlock and
walletpassphrase. `kept` and `drained` are history variables: the keys that were
used, and whether the pool has ever been empty.

### ChainState

The blocks of the network are a tree fixed by `Init` (every tree of the given
size, every assignment of work, every set of refused blocks); they arrive in any
order. `enforced` is whether synchronised checkpoints are enforced or advisory,
an option of the node. `ancestors` is the closure along `pprev`. `pc[t]` says where a handler is:

| place | code |
|---|---|
| `connect` | `ConnectBestBlock`, about to look for the heaviest block (1185) |
| `set` | `SetBestChain`, about to connect the lowest block of `vAttach` (1701-1783) |
| `flush` | the cache is about to be written to the coins (1785-1807) |
| `tip` | links and `pindexBest` are about to be changed (1809-1849) |
| `pending` | `AcceptPendingSyncCheckpoint` |
| `orphans` | loop over the orphans of accepted blocks (`ProcessBlock` 2301-2320) |
| `down` | start-up failed |

A thread of `Net` holds `cs_main` from its first step to its last; one of `Pool`
does not. `Flush` may or may not reach the disk, as during the initial download.
`Restart` is a crash at any step, or a stop between handlers. `coins` is the set
of blocks whose outputs the coins hold, so a block is refused if it is one of
`bad` or if its outputs are there already.

Left out: the rules that make one block valid (`bad` is a choice), the memory
pool, `VerifyDB`, reindexing, disk errors, the checkpoint master's own key, and
blocks that time passes for ("too far in the future").

### CheckQueue

A step is one critical section of `CCheckQueue`. A thread in `cond.wait` is
`wait`, one that was notified and wants the mutex back is `woken`. Waits may end
without a notification, and shutdown may interrupt any wait: a worker then ends,
a master unwinds into the destructor of its control, which waits for the queue
once more. The queue is a set, since the order of the checks does not matter.

## Runs

| Run | Instance | Shows |
|---|---|---|
| `receive` | buffer of 6, limit of 5, five streams | `TypeOK`, `BufferLargeEnough`, `NoLostEdge`, `Framing`, `DrainsSocket` |
| `pool` | 1 thread, 2 miners, up to 2 workloads, 3 blocks of heights 1-3, 1 share | `TypeOK`, `NoFreedClient`, `CurrentWorkIsSound`, `SharesHaveTheirHeight`, `BlocksHaveTheirHeight`, `NotifiedAll` |
| `stale` | 1 thread, 1 miner, 2 blocks | violation of `NewBlocksPropagated` |
| `double` | 1 thread, 1 miner, 2 shares | violation of `NoDoubleCredit` |
| `replies` | 2 miners asking for 126, 127 or 129 workloads, buffer of 4096, 3 and 4 packets, a failure, a short send | `TypeOK`, `PacketsAreTheirOwn`, `SuccessMeansWork`, `AnswersMatchShares` |
| `login` | 2 threads, 3 miners of 2 workers, one with a long name, 2 descriptors, a failure, a restart | `TypeOK`, `NoForgottenConnection`, `SameWorkerSameRow`, `MinersGetIn` |
| `confirm` | three trees of 4 blocks, the first and the last the pool's, final after 3, a failure, a restart | `TypeOK`, `FinalRowsStayInChain`, `RowsConverge` |
| `keypool` | 2 connections, 1 payment, target 2, 7 keys, locking, restarts | `TypeOK`, `ReadsSucceed`, `OwnKeys`, `ForgottenKeysRemain`, `KeptKeysStayOut` |
| `chain` | all trees of 4 blocks, one of them heavier or not, one refused, advisory or enforced checkpoints, a restart | `TypeOK`, `CoinsOfOneChain`, `SoundBlocksNeverFail`, `BestIsHeaviest`, `NoSoundOrphanIsStranded`, `BestChainLinked` |
| `chain_race` | a branch of two blocks and one of one, enforced checkpoints, one refused, a listening thread | `CheckpointsAdvance`, `HandlersEnd` without `cs_main` |
| `chain_pool` | all trees of 3 blocks, a listening thread | violation of `SoundBlocksNeverFail` |
| `check_queue` | 2 workers, 1 master, 4 checks of which one fails, batches of 2 | `TypeOK`, `UnusedQueueIsClean`, `NoLostWakeup`, `Rounds`, `QueueFinishes` |

Bounds. In `receive` the buffer holds a header and two bytes, so that the streams
contain a packet that fits, one that needs a larger buffer, an empty one, one that
is just too large and one that is too large only in the third length byte, and a
stream that ends inside a header. In `pool` `MaxBlocks` bounds the blocks
ever seen: three are enough for a first template, a change of the best block
inside generateWork or checkWork, and the pool's own block. `MaxHeight` lets a
height go up, down and stay. `MaxShares` is the number of recorded shares after
which none is submitted; a found block needs one. `Garbage = {0, 9}` is below and
above every height. One thread is enough for TLC because threads share nothing
but the best block and the tables; the theorems are about any number of threads.
In `replies` the buffer has its real size, and the numbers of workloads are the
largest that fits, the first that does not, and the first that is refused; the
packets (`MaxPackets`) suffice for one miner to get an answer to its login, its
work and two more. In `login` three miners on two threads make the round robin
wrap and need more descriptors than there are; `MaxLogins` lets one of the two
miners of a worker come back. In `chain` four blocks are enough for a
reorganisation by two blocks, a refused block in the middle of a branch with a
descendant, and a chain of two orphans; the third block may have twice the work,
so that the heaviest chain is not the longest. In `chain_race` two threads, two
branches and checkpoints on either make each handler meet the other in every
place; a tree of more blocks only repeats that. In `confirm` the pool's two blocks
are in one chain without forks, in one that forks above the first of them, or each
in its own; a block can become final, be orphaned and come back, and a branch of
three links can overtake one of one between any two reads. In `keypool` a target of 2 means a pool of three keys, so that a locked
wallet drains it in a few steps, and the keys suffice for indices to be given out
twice and for the read of an erased entry. In `check_queue` four checks and
batches of two make batches of one and of two, with queues that are empty while
checks are still executed; several masters are covered by the theorems. The two
connections of `keypool` are symmetric; no other run uses symmetry.

Deadlock is not checked where a run may stop: a deleted client in `receive`, and
elsewhere the bounds, the end of the threads, or a network without further blocks.

Fairness. In `XptReceive` the thread is weakly fair: it never blocks except in
epoll_wait, and the miner need not do anything. In `XptServer` each thread is
weakly fair in what it does by itself, and strongly fair in
`xptServer_checkForNewBlocks`, which comes after every round of events: this holds
as long as no miner keeps its socket readable for ever (the read loop of line 926
has no bound). Miners and the node are not fair. In `XptLogin` the accept loop,
the start of a thread and the queries of a login are weakly fair (queries return);
`AuthRequest` is strongly fair: a connected miner sends its login, and the event
loop reaches every pending event, under the same condition on line 926. In
`Confirmations` the thread is weakly fair: it has no exit, and sleeps and queries
return; so is `ConnectBestBlock`, which no query or lock stops once it has begun
to change links. In `ChainState` a handler that has started goes on; it is strongly fair,
since `AcceptPendingSyncCheckpoint` waits for `cs_hashSyncCheckpoint`, which is
free again and again and is then obtained. Nobody has to start a handler. In `CheckQueue` each thread is weakly fair in its critical sections, which
assumes that executing checks ends and that the mutex is given out fairly;
notifications, spurious wakeups and interruptions are not fair.

### What the violations show

`stale`. The node has a new best block; before the thread's next look at it, a
miner logs in. generateWork copies the old template but stores the new height in
`coinTypeBlockHeight` (line 389). checkForNewBlocks compares the node's height
with exactly that (line 189), sees nothing new, and the thread stays on the old
template. Its miners work on a stale block, and all their shares are refused,
until the height grows again. The comment of that function reads "Checks for new
blocks that should be propagated" (line 180).

`double`. The comment "check if the client tries to double submit a share" (line
564) stands above code that is commented out; every submission is credited.

`chain_pool`. Listening threads call `ProcessBlock` without `cs_main`. While the
network thread sets the chain, the other thread connects against coins that
change, and marks a sound block as invalid, on disk.

### Limits the properties state

Some properties hold only under a condition. These are not slips of the model:
without the condition TLC finds a counterexample that the code allows.

* `SuccessMeansWork` says of every miner that is logged in, whatever failed for
  others, that it has its work. That a login which is answered with success gets
  so far is said for 1 to 126 workloads only. 127 and 128 are in the allowed range
  (`xptServerPacketHandler.cpp` 183, 223), but the work packet of 60 + 32 * n bytes
  does not fit the send buffer: the login is answered with success and the miner
  dropped.
* `AnswersMatchShares` leaves out a miner that has lost an answer (`lost`). Answers
  carry no share id, contrary to the comment in line 387, and `send` on a full
  socket drops one without notice: from then on each answer is taken for that of
  an earlier share.
* A share whose row could not be written is answered with okay (`xptServer.cpp`
  598), so there is no property that an okay means a row.
* `MinersGetIn` lets a login be refused if the name is longer than the column. The
  login takes 128 characters, the column keeps 32, and the second select does not
  find the row that was just inserted.
* `ReadsSucceed`, `OwnKeys` and `ForgottenKeysRemain` hold as long as the pool has
  never been empty (`drained`). A wallet that is locked while its pool runs empty
  gives the default key to everyone, and after it is unlocked `TopUpKeyPool` starts
  again at index 1 although connections still hold small indices. Keeping one of
  these erases the entry of a key that is in the pool, and the reservation that
  meets it throws.
* `FinalRowsStayInChain` and `RowsConverge` leave out rows settled by a torn depth.
  `GetDepthInMainChain` finds the block in the chain (`main.cpp` 914), a
  reorganisation takes it out, and line 926 subtracts its height from that of a best
  block on another branch. If the result is `Final` or more, the row is not selected
  again and never gets its mark of an orphan. With 3500 confirmations this takes a
  reorganisation that overtakes the block by thousands of others between two reads
  (a node that catches up on a long branch), and TLC finds it in the instance. The
  exemption is no wider than that: a depth read across a reorganisation that leaves
  the block where it is, or across an extension of its chain, is covered.
* `BestIsHeaviest` leaves out a node with an enforced checkpoint, and there is no
  property that such a checkpoint stays in the best chain: `ConnectBestBlock`
  chooses by work alone, and the next accepted block moves the node back to a
  heavier branch.
* `NoSoundOrphanIsStranded` leaves out such a node too. An enforced checkpoint may
  make a chain the best one that is lighter than others known to the node, some of
  which were never tried and contain a refused block. The next block, however sound,
  makes `ConnectBestBlock` try one of these; it fails, so `AcceptBlock` fails for the
  new block, and `ProcessBlock` returns before it looks for orphans that wait for it
  (7 blocks are needed for this: a best chain and a tie of two blocks each, the
  checkpoint, the new block and its orphan).

## Proofs

All theorems hold for every value of the constants under the named assumptions of
the modules (sizes are naturals, thread sets are disjoint and finite, trees are
trees); bounds such as `MaxKeys` may have any value.

`XptReceiveProofs`. The inductive invariant says that the buffer holds the bytes
of the stream from the end of the last delivered packet on, and that `recvSize`
and `opcode` are those of the header once four bytes are there. It is needed
because `BufferLargeEnough` depends on `recvSize` having been checked against the
limit when the header was complete, and the refinement on the buffer being a
stretch of the stream. Theorems: `TypeCorrect`, `NoOverrun`, `EdgesAreEnough`,
`ImplementsPackets` (every step is a step of `XptPackets` or a stutter).

`XptServerProofs`. Theorems: `TypeCorrect`, `ClientsAlive`, `WorkIsSound`,
`ShareHeights`, `BlockHeights`, `EveryoneHasWork`. The argument:

1. A thread's clients are allocated and its own (`NoFreedClient`); which client it
   handles follows from its place (`CurInv`). So no thread changes the workloads
   of another's client, and deletion always happens with no notification under way.
2. The workloads of the client being served are on the thread's template
   (`WorkOnTemplate`), and none is on a block still to come (`WorkKnown`): a new
   best block starts without workloads.
3. `WorkHeight`: while a workload is on the best block, its thread's
   `coinTypeBlockHeight` is the next height, except between the first workload and
   line 389, and the thread is not about to make a new template, because
   checkForNewBlocks compares with that same height. This is why the separate
   reads do no harm: if the best block changed in between, the workload is not on
   the best block any more.
4. A share is accepted only for a workload on the best block, so
   `coinTypeBlockHeight` is right at that moment, and nothing the thread does until
   SaveBlock changes it (`ShareHeight`). Hence the rows are right.
5. `EveryoneHasWork` (`AllServed`) is what `NotifiedAll` says as far as it does not
   depend on fairness: once a thread has left the loop of sendNewBlockToAll, each of
   its miners that is logged in and not marked has all its workloads, on the
   thread's template. Its invariant `MinersInv` says that such a miner is on its
   thread's list, that the number of its workloads goes with the place while its
   work is made, and that a miner neither being served nor still in the loop is
   served. No run of the project checks `AllServed` on its own.

`CheckQueueProofs`. Theorems: `TypeCorrect`, `AssertionsHold`, `WakeupsArrive`,
`ImplementsRounds`. The inductive invariant says which thread holds the control
(`HolderInv`), that workers never leave Loop except for good (`WorkersInv`), that a
thread has a batch exactly while it executes one, disjoint from the queue and from
the others (`BatchInv`), that all of them are checks of this round (`RoundInv`), that `nTodo` is the number of outstanding checks and
`nTotal - nIdle` the number of threads that are in Loop and not asleep
(`CountInv`), that `fAllOk` together with what is left tells whether a submitted
check fails (`OkInv`: it makes skipped batches harmless), and that a sleeping
master has checks outstanding (`WaitInv`). An interrupted worker has no batch,
which is why `NoLostWakeup` survives the end of threads.

`KeyPoolProofs`. Theorems: `TypeCorrect` and `KeptKeysNeverReturn`, for a pool that
may have run empty, and `NoReadFailure`, `KeysAreNotShared` and `NoKeyIsLost`.
The invariant for the first two (`GInv`) is about keys and not about indices: no
two entries have the same key, and a held key is either still under its index or
has been overwritten. The one for the other three (`SInv`, while the pool has not
run empty) says that the pool has an index above every held or forgotten one, so
that `NEnd` is new to the wallet file as well; that is what an empty pool breaks.

`ConfirmationsProofs`. Theorems: `TypeCorrect`, `FinalRowsAreSettled`. The
difficulty is that link, best block and height are read in different steps, and
written in yet another, while links are cut and tied. The invariant has the facts
of the tree (`WorldInv`, from `ancestors` as least closed sets), says which links
there are before, during and after a reorganisation (`LinkInv`), that blocks
`Final` deep in the best chain are settled, that is, never leave it (`DeepInv`), and
of the thread (`RowInv`) that the row it is at is not final yet; that between
the reads of link and height the block is in the best chain, or about to be, or its
row is torn; and that a depth of `Final` or more, once read, is that of a settled
block or of a torn row. So the thread never marks a final row as an orphan.

`XptLoginProofs`. Theorems: `TypeCorrect`, `EdgesSuffice`, `RowsAreShared`. The
invariant for the last one says that an id is given out once (`IdInv`: rows differ
in their ids, all below `nextId`) and that a miner whose query has found a row stays
booked under it (`BookedInv`); rows are never removed.

`ChainStateProofs`. The facts of the tree (`WorldInv`, `BranchInv`) follow from the
definition of `ancestors` as the least set closed under `pprev`: each of them is a
closed set that has to contain the ancestors.

1. For any threads, with `cs_main` or without: `TypeCorrect`, and
   `CheckpointsOnlyAdvance`. A thread that sets the chain for a checkpoint is the
   only one, and `attach` is exactly that checkpoint, a descendant of the present
   one, until it is written (`CheckpointInv`).
2. For `Pool = {}`, where the holder of `cs_main` is the only thread in a handler
   (`LockInv`): `CoinsFollowTheChain`, `OnlyUnsoundFail`, `LinksFollowTheChain`.
   The cache of SetBestChain is the way from the best block of the coins to the new
   one, and once flushed the way from the best block of the links to that of the
   coins (`ViewInv`, `TipInv`). So no block is refused because its outputs are there.
3. For `Pool = {}` and until an enforced checkpoint comes: `HeaviestIsFound`,
   `OrphansAreReleased`. `ConnectBestBlock` returns at the first refused block and
   does not try the next chain. That is enough because between handlers every
   heavier chain contains a failed block (`HeavierInv`): the only candidate of a
   handler is its own new block, so what is refused is an ancestor of that block
   (`HasTop`), and its orphans are refused as well (`OrphansInv`). A start that
   meets a refused block does not come up.

4. For `Pool = {}`: `BestOnlyImproves` and `HandlersComeNearer`, two facts about
   steps that no run states by itself. The first follows from `HasTop`, by which
   every block still to be attached outweighs the present best one, also after some
   of them have been attached. The second is the part of `HandlersEnd` that needs no
   fairness: whatever the node does during a handler, other than starting again,
   lowers the tuple of the waiting orphans, the stage of the handler, the blocks
   that are not marked, those to attach and the place in `SetBestChain`, compared
   in this order (`Nearer`). All five are bounded, so a handler can only stop, not
   go on for ever. The loop of `ConnectBestBlock` is the delicate one: it starts
   again only after marking the top of the chain it tried, which was not marked
   before (`MarkInv`: no marked block is among the valid ones).

The hypothesis `Pool = {}` is needed: `chain_pool` shows what happens without it.

`XptRepliesProofs`. Theorems: `TypeCorrect`, `OwnPackets`, `AnswersInOrder` and
`LoginsGetWork`. A packet is a fold of `Write` over a list of fields, so its facts
need an induction, which the library offers only with an operator as a parameter.
Here it is stated for sets (`Induction`: a set of naturals with 0 that is closed
under + 1 has all of them) and comes from the well-foundedness of <; `WriteFold`
and `SizeFold` turn a fold into a row of values, each made from the one before.

1. `BuiltFacts`: a list of fields either fits, and the packet has exactly these
   fields and their size, or it is given up with an error, inside the buffer; and
   it does fit if its size does. With the sizes of the four layouts this decides
   what each handler sends: a login, a share and a ping are always answered, since
   the longest answer has 59 bytes (`BufferAssumption`), work is sent if it fits.
2. `PacketInv` has what `PacketsAreTheirOwn` says of each packet. It is kept because
   the buffer is begun afresh by every packet, and because shares and templates are
   only ever added (`OwnStays`).
3. `AnswerInv`: the answers a miner has got are as many as its shares, so that the
   next answer has the next number.
4. `WorkInv`: a miner that has to have its work has it, or is the one whose login
   is being handled. The hypothesis `BufferLimit >= 4092` is
   the size of a packet of 126 workloads; the code's buffer has 4096.

Only model-checked: the liveness properties `DrainsSocket`, `NotifiedAll`,
`MinersGetIn`, `RowsConverge`, `HandlersEnd` and `QueueFinishes`, as fairness is
out of the prover's reach.

## Not modelled

* `CWallet::NewKeyPool`, which throws the pool away when the wallet is encrypted,
  and `AddReserveKey`, which is never called.
* Payments. `xptServer_payConfirmedBlocks` splits the wallet's balance in floating
  point and shares no state with the table of blocks; `payWallet` and `payOut` are
  never called.
* The readers of the packet buffer, and socket set-up, which runs once.
* Prime chains: number theory on integers of up to 2000 bits. Scripts, keys, the
  network layer, the memory pool, RPC and the Qt interface are inherited, and the
  pool's logic sees them as choices.
* In the node: `VerifyDB`, reindexing and block files.

## Plan

1. `XptReceive`, `XptServer`, `CheckQueue`, `KeyPool`, `Confirmations`, `XptLogin`,
   `ChainState`, `XptReplies`: checked, and every safety property proved.
2. Next: measures such as that of `HandlersComeNearer` for the other liveness
   properties: that each step brings the end of the notification loop nearer, which
   with `EveryoneHasWork` is `NotifiedAll` but for fairness, and the queries of a
   login (`MinersGetIn`).
