# Verification of the LEAP multi-FPGA router

LEAP's multi-FPGA back end takes a program whose modules talk over named
latency-insensitive channels, cuts it across several platforms (FPGAs,
simulators, a host process), and generates for each pair of platforms a *router*:
channels are packetised, multiplexed onto the physical links ("vias"), kept from
overrunning each other by credit-based flow control, and unpacked on the other
side. This directory holds TLA+ models of that system, the TLC runs that check
them, and TLAPS proofs about the parts of which something can be said for every
size.

The core of the run-time system is the flow control: it is distributed, written
against unguarded FIFOs and hand-scheduled rules, and a fault in it shows as a
hang or as silent corruption after a long run. Around it stand the passes that
decide what the routers look like, whose faults show in the same way and as late,
and the devices and services that use the channels.

## 1. Inventory

Paths are relative to `src/modules/leap/`, those of the passes to its
`build-support/build-pipelines/stages/`, and `RS` is
`virtual-platform/virtual-devices/devices/multifpga_router_service`.

| Component | State | Operations | Interacts with | Correct when |
|---|---|---|---|---|
| Egress switch, `RS/flowcontrol/flowcontrol-egress.bsv` | credits and `bufferAvailable` per queue, packet under way, header/body toggle of the flow control port, arbiter pipeline | pick a queue, send header, send chunk, read credits | packetizers (request queues), link, ingress switch of the same platform | never sends what the receiver has no room for; packets whole; nobody starves |
| Ingress switch, `flowcontrol-ingress.bsv` | multi-queue FIFO, packet under way, scan position, batch being sent | receive chunk, hand chunk to a port, return slots | link, ports, egress switch of the same platform | no overrun; every slot goes back once |
| Multi-queue FIFO, `BRAMVLevelFIFO.bsv`, `EHRReg.bsv` | two pointers and two counters per ring, one RAM | `enq`, `deq`, `firstReq`/`firstResp`, `decrFree`, initialization | ingress switch | behaves as separate FIFOs although counters lag |
| Software flow control, `flowcontrol-egress.h/.cpp`, `flowcontrol-ingress.h` | one atomic counter per channel, mutex and condition variable | `acquireCredits`, `freeCredits`, `pushUMF` | sending and receiving threads, the hardware switch at the other end | as the hardware, under any thread interleaving |
| Pointer switch, `RS/flowcontrol/pointer-*.{bsv,cpp,h}` | a shared buffer as linked lists, free list, regional credit counts | as above | as above | no slot lost or linked twice, nobody starved of the slots kept for him |
| Packetizers, `multifpga-router-service-local.bsv` | tokens, marshalling state | split and join words, chains | switches, user channels | whole words, in order, never into a full channel |
| Router generation, `lim_connect/generate-code` | none at run time, except the multiplexors it writes | wiring of queues, ports, arbiters; packing of lanes into words | network analysis | the two ends of a connection agree; lanes are FIFOs |
| Network analysis, `lim_connect/analyze-network`, `common/umfType.py` | load and links per via | longest-job-first allocation, header sizing, flow control links | module graph | every channel a link, links dense, header wide enough, UMF's own towards a processor |
| Environment, `parsers/environment/*.py` | platforms, links, hop tables | parse, pair links, number platforms | all passes | every link has two ends; tables lead to the destination |
| Module graph and routing, `LIMConnect.py`, `generateLIMGraph.py`, `map/placeModules.py`, `activity.py` | module graph, its placement and weights | parse, place, weigh, route over several hops | environment description | both ends of each hop exist; chains stay rings |
| Scratchpad network, `lim_memory/remap-scratchpad` | assignment of clients, networks of each platform | partition by traffic, trees, rings, crossbars, hierarchical rings | module graph | every client once; responses come back; bounded fan-in |
| Unix communication device, `src/modules/bluespec/.../unix-communication` | handle table, queues, reader and writer threads | open, poll, read, write | simulated link | chunks in order, none lost |
| RRR server and client, `virtual-platform/rrr/li` | current message, work queue, pool, registry | assemble, dispatch, respond | channels, thread pool | one response per request, in order |
| Platform lifecycle, `low-level-platform-interface/llpi-li.cpp` | monitor thread, signal handler | Init, exit, kill | all software | no exit hangs |

Hard behaviours: two clock domains joined by links of unknown delay; rules that
fire in the same cycle on one register; decisions made on last cycle's counters;
credits that travel as messages which themselves need buffers; lock-free threads
against a blocking path; simulated links whose processes may die; passes that walk
lists they change, and write two ends of a thing without looking at each other;
`$finish` statements that encode what the authors
believed impossible. `PROJECT.json` lists the hazards line by line, with the
properties that cover each and the reason where none does.

## 2. Modules

The lowest module of an arrow is used, instantiated or implemented by the upper.

```
  run time                                     build time

          CreditProtocol                       ShortestPaths
        (what a channel promises)               |      |     |
        ^        ^          ^             Environment  | RouteConnections
        |        |          |                       Placement    Activity
  FlowControlLink|   SoftwareIngress
   |        |   SoftwareEgress                 UMFTypes
 FlowControl FlowControl                        |      |        |
  Egress      Ingress ...> MultiQueue   RouterTypes ViaAllocation FlowControlAssignment
   |        |     (uses)   ^        ^                                 |
   +Switches+       VLevelFIFO PointerBuffer                     RouterGeneration
                                                               writes LaneMultiplexor
 PointerEgress  PointerIngress                                 which implements LaneChannels
 RRRServer  RRRClient  UnixDevice
                                               ScratchpadAssignment -> ScratchpadNetwork
                                               ScratchpadTree   HierarchicalRing
```

`*Proofs` and `CountingLemmas` hold theorems. `Sums` is what the software and the pointer
switch count with. `MC*` modules give constants their values. Four of them are suites:
a behaviour of `MCSoftware`, `MCNetwork`, `MCRouter` or `MCScratchpads` is one of
several machines, chosen in its first state, while the variables of the others
keep their initial or an idle value; a property of a suite is a conjunction of
properties of the machines, guarded by which one it is. `MCVLevelFIFO` does the same
for its two kinds of queues.

### Flow control, counted credits

**CreditProtocol** is the abstract specification: `credits` at the sender, chunks
`inFlight` and `stored`, slots `freed` and credits `returning`. A step may combine
a packet start, the consumption of some chunks, a delivery, a return and a
refill, because one clock cycle can.

**MultiQueue / VLevelFIFO.** A step of `VLevelFIFO` is one clock cycle of
`mkBRAMVLevelFIFO`. The methods only drive wires, so a cycle is a function of
three optional arguments (`enq`, `deq`+`firstReq`, `decrFree`); `ProcessEnq`,
`ProcessDeq`, `UpdateUsed` and `UpdateFree` are the rules, and the two EHR ports
are the two terms each counter update adds. `firstReq` and `deq` always come
together (ingress, lines 454-457). The user's side of the unguarded interface is
`Contract`. `MultiQueue` is what an unguarded FIFO would be; the refinement reads
the queues off the RAM and counts the operation the counters have not seen yet.

**Switches, FlowControlEgress, FlowControlIngress, FlowControlLink.** Two platforms
and a link each way. `Tick(x)` is one clock cycle of platform `x`: every rule
that can fire does, on the registers as the cycle finds them; the platforms'
clocks are independent, so ticks interleave. The correspondence:

| Operator | Rule |
|---|---|
| `Reqs`, `Winners`, `NotLocked` | `writeRequestNewmsg1`, the two `FLOWCONTROL_ARBITER_IDX` |
| `MayStart`, `NewCount`, `RoomAfterSend`, `AccountCredits` | `writeRequestNewmsg2` |
| `Continuing`, `CountChunks` | `writeRequestContinue` |
| `ReadPort`, `Refilling`, `CreditsNext`, `RoomAfterRefill` | `dropHeader`, `scan_responses` |
| `EgressFinish`, `IngressFinish` | the `$finish` statements |
| `CountReceived`, `Target`, `EnqDeq` | `scan_requests`, `scan_params`, `makeReq` |
| `Requests`, `Arbitrate` | `write_response_newmsg1` and its arbiter |
| `Scanning`, `Batching`, `Finishing`, `CountFree`, `ReturnCredits` | `startSendEmpty`, `finishSendEmpty` |
| `SharedCycle` | link, `flowcontrol_response`, ingress ports; wired as `generateCode.py` does |

Points a reader should know when comparing:
- `writeRequestNewmsg2` and `scan_responses` both write the credits and exclude
  each other through `deqHeader`; `dropHeader` may share a cycle with the former.
- The local random arbiter is a free choice among the requests.
- `startSendEmpty` needs room in `headerFIFO` in either branch, since the compiler
  lifts the guard of `headerFIFO.enq` out of the conditional.
- The ingress uses its FIFO through `MultiQueue`'s promises; the cycle of lag of
  `used` and `free` only delays a read or a return by one tick, which the free
  interleaving of the two clocks already contains.
- The contents of data chunks are erased; a chunk remembers the queue it was sent
  from so that misrouting is visible. A packet's chunks are available when its
  header is.
- The link delivers everything in order and holds `LinkDepth` chunks.

**SoftwareEgress, SoftwareIngress.** One step per atomic operation on the shared
counter, one for entering the critical section, one for the test and the wait
(which release the mutex atomically), one for `notify_all` under the mutex. The
UINT32 is `% CounterMod`. The hardware at the other end is reduced to what it
does to the counts. Who calls these methods lies outside the repository; a
thread acquires credits, then sends, or has handled a message, then calls
`acquireCredits` and `freeCredits`.

### Flow control, shared buffer

**PointerBuffer** is the ingress hardware of the pointer switch, cycle by cycle:
free list (filled while the switch runs), head and tail pointers with a valid bit,
the two RAMs with their cycle of delay, the scan that returns credits. Rules that
exclude each other are disjuncts, rules that share a cycle are conjuncts. It
implements `MultiQueue`'s queues: a channel's linked list, read slot by slot, is its
FIFO. **PointerEgress** and **PointerIngress** are the software ends. A passage
through the one mutex of the sender is a step; the receiver has no mutex, and each
atomic operation is one. The egress hardware is known to `PointerIngress` by its
counts, with `min(0, ...)` (`pointer-egress.bsv:290`) as it is.

### Devices and services

**RRRServer.** `Run` takes a posted call from the pool, `Continue` is the next atomic
part of `HandleMessage`, from locking the service's mutex to unlocking it;
`PushHeader` and `PushChunk` assemble a request; `Uninit`
stops the pool. **RRRClient.** The mutex is held from request to the last chunk of
the response; `MakeRequestNoResponse` takes none. **UnixDevice.** The table of
channels is shared by the devices of a process; `CommInit`, `CommOpen`, `CommRead`,
`CommWrite` and their polling rules are the calls, the reader and writer threads
of each channel are separate processes that meet in a pipe, and a process may die
at any moment.

### Network and routers

Passes are sequential programs. A step is one iteration of the loop whose order
matters (a platform, a link, a channel, a round); what an iteration does is one
action.

| Module | Code | A step is |
|---|---|---|
| `ShortestPaths` | the graph library's `shortest_path` as the passes use it | (operators) |
| `Environment` | `environment.py`, `platform.py`, `getPhysicalViaWidths` | a platform's check; the hop tables; a line of a build log |
| `RouteConnections` | `LIMConnect.py:104-344` | a channel or chain of the list being walked, which grows meanwhile |
| `Placement` | `placeModules.py` | reading the map file or solving, with or without success; the cut of the graph |
| `Activity` | `activity.py` | assigning one graph's weights; called twice |
| `RouterTypes` | `umfType.py` | one iteration towards the header's fixed point, or the return of UMF's own header |
| `ViaAllocation` | `generateViaLJF` | the carving of lanes, a link placed, a round of growing headers |
| `FlowControlAssignment` | `analyzeNetworkNonuniform` | one ingress lane |
| `RouterGeneration` | `generateCode.py` | one egress or ingress of one platform |
| `LaneMultiplexor` | the rules written by `generateMultiplexors.py` | one rule |

**FlowControlAssignment** is extended by `RouterGeneration` and that by `MCRouter`, so what is
proved of the assignment and the routers is about the variables that the run checks. The
integer program's solver in `Placement` is external: it may return any optimum of
the constraints and objective the code hands it, and `PlacementIsLegal` states in terms
of the network what that optimum must be. The code does not look at the solver's status
(`placeModules.py:229`). If there is no solution, `SolveInVain` leaves any values in the
variables; modules none of whose variables is positive keep no place, and the platform
graph is built all the same. The property then promises only that the modules that the
platforms and the map file place stay there, that the others are on platforms of their
kind or nowhere, and that the graph is cut as it should be: both ends of every
channel that crosses platforms, and every link of every chain, crossing or not.
What the graph library's health check makes of a module without a place is outside the
repository. Channels without a partner, which the cut drops, are left out. A platform whose
resources are not known has no capacity; in the run that is the processor.

**Headers** come from two branches, and both are in `UMFTypes`. Between FPGAs or
simulators a header is sized for its lane. On a connection with a processor at either end
it is UMF's own, of fixed fields (`analyzeNetwork.py:36-42`, `umfType.py:71-80`), whatever
the lane and its links. The filler that is left may be negative, and nothing compares the
number of links with the field that names them. `Feasible` therefore
assumes what the physical channels to processors provide: a lane as wide as UMF's header.
The constants `EnableAggressive` and `UseDefault` are the two AWB parameters, which the run
has at their defaults (`lim-common.awb:15-16`); some configurations choose UMF's header
everywhere. `RouterTypes` runs the function with all arguments, whatever the parameters.
`generateViaLJF` itself asks for headers by the parameters alone (lines 276-301), also on
connections with a processor. So `LoadsAreHonest` and `NoWorseThanOneLane` of
`ViaAllocation`, which compare loads with headers, are about the other connections.

### Scratchpads

`ScratchpadAssignment` (by groups, or by measured traffic with split scratchpads),
`ScratchpadNetwork` (`genRemapWrapper` for every network type, over the variables of
the assignment), `ScratchpadTree` (levels from dynamic programming or balanced,
numbering, construction from the bottom) and `HierarchicalRing` (numbering ring by
ring, wires, and messages that travel over them once they are built).

## 3. Runs

| Run | Instance | Shows |
|---|---|---|
| `credit_protocol` | 16 slots, largest packet 7 and its header, threshold 8 | conservation; a blocked sender is always unblocked, with the largest packet for which it is |
| `vlevel_fifo` | 2 rings of 2 slots, 2 values; lists: 2 channels in 3 slots, one kept for each, packets of 1-2 chunks | the registers implement `MultiQueue`; so do the lists of the pointer switch, and no slot or credit is lost |
| `link_single_cycle` | data one way, flow control both ways, 8 slots, packets of 1-2 chunks | the switches implement `CreditProtocol` on the channel; no `$finish`; chunks reach their queue; flow control packets are framed and stay within their buffer (`FlowControlIsBounded`) |
| `link_multi_cycle` | the same, pipelined arbiter, 4 slots, at most one flow control packet waiting | the protocol is kept although the winner was chosen a cycle earlier; only the flow control queue can stop a switch |
| `link_live` | 4 slots, single-cycle arbiter, fair | every offered packet and every flow control packet is sent |
| `link_credit_overflow` | pipelined arbiter, 8 slots | **violation**: a `$finish` is reached |
| `software` | eight machines, see below | credits, requests and words neither lost nor reordered; no lost wakeup; the ends implement `CreditProtocol`; nobody waits for ever |
| `software_egress_shared` | two sending threads on one channel | **violation**: messages are sent without credits |
| `network_passes` | environments, routing, placement, activities | tables route, routes are whole, placement is legal and minimal where a program can be placed, given modules stay and the graph is cut in any case, traffic is weighed |
| `router_passes` | headers, cutting, routers, multiplexor | headers and lanes are sound, the headers also once flow control links have been added; the two ends of a connection agree; lanes are FIFOs |
| `scratchpad_passes` | assignment, networks, trees, rings | everyone is wired, shares are kept, what is asked comes back |
| `scratchpad_tree_nine` | a balanced binary tree for nine | **violation**: five scratchpads have no leaf |

Bounds of the switches. Buffers of 4 and 8 slots are small multiples of the packet
size, so that credits run out, batches form, wrap-around of the scan and of every
counter happen within a few packets; the threshold is half the buffer as in the
code. `LinkDepth` 1 makes the link stall; longer links only add delay. Data in one
direction exercises both roles on both platforms, since flow control packets go
both ways; data both ways is past ten million states. `SoonSent` (at most one
waiting flow control packet) bounds the multi-cycle run, because without it the
unchecked credits of the flow control queue wrap, which `link_credit_overflow`
shows separately.

Bounds of the software. `Retries` 2 stands for 2500, `CounterMod` 64 for 2^32: wide
enough to tell a wrapped count from credits. Eight slots, messages of 1-4 chunks.
Pointer sender: three channels (one flow control), 11 slots of which 3 are kept for
each, messages of 2 chunks, one return under way: the least sizes for which nobody
is left waiting. Pointer receiver: two channels, 9 slots, one kept for each. Server:
two services, two workers, two requests of each. Client: two callers, two requests
pending, responses of up to two chunks. Pipes: two processes, two links between
them in a table of three, one word on each link, two tries to open a pipe; both
processes may die. With one word the run shows that no line gets a foreign word or
garbage; that many words keep their order is `WordsKeepOrderCorrect` of `ServiceProofs`.

Bounds of the passes. Environments: three platforms with every choice of links,
paired or not, and four with every choice of links in both directions. Routing:
four platforms in a line, star and rings, so that routes have up to three hops,
and a one-way line with paths missing. Placement: two FPGAs with a module each, a
processor, a software module, capacities that allow all, some or no placements, a one-way
line among the networks, a chain across platforms. Activities: three channels, one a
chunk of a wider one. Headers: lanes of 8 to 64 bits and all packet sizes around the
boundaries, both kinds of header; UMF's has 32 bits (`longChain.stats:153-159`).
Cutting: three links, narrow and wide, idle and busy, zero to two carved lanes.
Routers: three platforms in a line of which one is a processor or simulated, one to
three lanes; lanes to the processor are 32 and 128 bits wide. Multiplexor: three lanes,
a physical channel of two words. Scratchpads:
four clients (two of which may be split), up to three controllers, all traffic
classes. Trees: two to four children, up to eight scratchpads (nine is the first
size with four levels, the violation). Rings: up to five scratchpads on three levels.
The header comment of each `MC` module gives its instance.

Deadlock checking is on for the protocol, the queues and the switches: they are
clocked and always have a step. It is off in `MCSoftware`, where processes end, a
pool is stopped and an assertion of the pointer switch may fail, and in the suites
of passes, which run to their end.

Fairness. `link_live`: each clock keeps running (weak fairness of `Tick`), and a
queue that can be read again and again is read (strong fairness per queue: the
ingress arbiter is round robin and receivers keep asking). Nothing forces anyone
to send. `credit_protocol`: every party but the sender keeps going. `software`:
threads and the far side are scheduled (weak fairness); `freeCredits` gets the mutex
eventually and a client waiting for room in its channel gets it although others
send too (strong fairness: mutex and channel serve all who wait). Nothing forces a
process to stay alive, a service to be called or a word to be sent. Passes: a
sequential program runs to its end. Multiplexors: the scheduler of a synthesised
design fires every rule that stays enabled. Rings: a port is served.

### What disagreed with the code's own words

1. *"Flow control requests have priority"* (`flowcontrol-egress.bsv:439`). With the
   pipelined arbiter used for more than ten links a flow control packet that
   could not start at once is locked out for a cycle, and data goes first.
   Waiting flow control packets pile up, their unchecked credits fall below zero
   and wrap, and a refill trips the overflow check (`link_credit_overflow`).
2. *"If no or too little credit is available, the channel will block"*
   (`flowcontrol-egress.h:84`). Not with two threads: the count is wrapped below
   zero while a failed attempt is undone (`software_egress_shared`).
3. *"This function builds scratchpad trees for all platforms"*
   (`scratchpadTree.py:186`). A balanced binary tree for nine scratchpads leaves five
   of them out: every level between root and leaves gets the same number of nodes, two
   (line 99). With `leaves = [0, 0, 7, 2]` and `internals = [2, 2, 1]` the two nodes of
   level 1 and 2 take four of the eight nodes of level 2, and the other node of level 1
   stays empty (`scratchpad_tree_nine`). The builder does not complain; generating code
   for the empty node raises an exception later (`remapScratchpad.py:428`).

Met on the way, stated here and kept out of the instances instead of being a run:

- `flowcontrol-egress.bsv:360`, *"This should always be true..."*: a refill brings more
  than half a buffer, so this holds for packets up to half a buffer (theorem
  `RefillUnblocksCorrect`), not for larger ones, which stop at line 379.
- `flowcontrol-ingress.h:124-134`, *"thread safe under idempotence"*: credits are
  returned once, but a second thread may send a message without credits, which
  stops the egress switch. `NoCreditIsLost` holds with two threads,
  `SoftwareKeepsProtocol` with one.
- `flowcontrol-egress.h`: with two senders, an attempt taken back gives credits back
  without notifying; a sleeper may sleep on. `NoLostWakeup` is about one.
- `pointer-egress.bsv:290`: `min(0, ...)` of an unsigned number is 0, so the switch
  trusts the channel's first packet only. `pointer-egress.cpp:130`: the assertion is
  strict and fails when all credits have come back. Neither side checks the sizes it
  needs: a largest message within `max(Region - Thr, MinBuffer - Thr / 2)`, and at the
  receiver `Thr < Region - MaxChunks - 1`. Contending senders may starve one
  (`pointer-egress.cpp:146`).
- `unix-communication-device-bdpi.c:92`: the last entry of the table has the first
  one's number. Line 142: a reader whose peer died before the synchronisation block
  spins for ever.
- `umfType.py:94` says that the filler grows monotonically; on narrow lanes it shrinks.
- `placeModules.py:140`: an unreachable platform is at distance -1, nearer than any
  other. So that the least traffic is chosen is claimed only where all platforms reach each
  other; elsewhere the solver may prefer a placement that cannot be routed. Line 229: see
  `SolveInVain` above.
- `environment.py:49-54` lets a link go one way only, but network analysis then looks for the
  flow control's way back on an egress that is not there (`analyzeNetwork.py:493`, a
  `KeyError`), so no router is built. `FlowControlAssumption` has links both ways.
- `activity.py:76` names a variable that does not exist; line 103 averages over
  what may be nothing.
- `remapScratchpad.py:540`: a hierarchical ring of one level wires a connector it does
  not have. Line 634: a crossbar leaves a controller's only scratchpad unconnected.
  Line 491: parts of a split scratchpad ask under a wrong number on hierarchical rings.
- `multitest.py:40-42` expects ring lengths that the code no longer produces.

## 4. Proofs

TLAPS checks the following for every value of the constants, from the assumptions
named in the modules (sizes are naturals, a capacity is at most twice the threshold
plus one, as `MULTIFPGA_FIFO_SIZES/2` gives).

*CreditProtocolProofs.* `TypeOK` is inductive by the guards. `NoOverflow` is not: a
refill could overflow the sender if a slot were counted twice. `Conservation`
excludes that. `OneReturnInFlight` needs `FullBatches` too: two batches above the
threshold do not fit in the capacity. So `IInv == TypeOK /\ Conservation /\ FullBatches`,
and the others follow. `NeverWedged` additionally assumes
`MaxPacket + 1 <= Capacity - Threshold`, and `RefillUnblocks` that `MaxPacket <= Threshold`:
the hypotheses are the limits of the design.

*VLevelFIFOProofs.* `TypeOK` (counters never leave their width) and
`SlotConservation` are proved together, because each needs the other: a counter
stays in range since slots are conserved, and the modular update is exact since it
stays in range. `PointersAgree` (head and tail enclose the words) follows the
initialization: `PInv` adds that the rings not yet reset are unused.
The refinement rests on that: reading a ring from its head is `Tail` when a word
leaves and `Append` when one comes, and the write meets none of the words that are
there; so `ImplementsMultiQueue`.

*SoftwareEgressProofs*, for every set of threads or channels and every size.

- The sender of a counted switch. For any number of threads `CreditConservation`: what
  an attempt has taken and not yet given back is part of the sum, modulo the counter.
  For one thread also `NoLostWakeup` and `ImplementsCreditProtocol`, from
  `IInv == Counted /\ Exact /\ Afforded /\ Woken`: while an attempt is being taken back,
  the counter is what is owed less the attempt, one turn higher if that is below zero;
  a thread past its test can afford its message; and one that sleeps although it could
  go is about to be notified. The run `software_egress_shared` shows that two threads
  break the last.
- The senders to a pointer switch (`Out...`). `OutInv` says that the sum over the channels
  of what is outstanding is what the shared count lacks, and that whoever sleeps has
  been overlooked by nobody; from it `OutCreditConservation`, `OutSharedBufferHolds` and
  `OutNoLostWakeup`. `OutNeverWedgedCorrect` needs `OutFits`, a message fits between
  the threshold and the region or beside half the threshold in the channel's own part;
  the code checks neither.
- The receivers (`In...`). A channel's count and the shared one are taken in separate atomic
  operations; `InInv` accounts for what threads hold in between. `InCreditConservation`
  follows, and `InNeverWedged` under `InRoom`, which the code does not check either.

*SoftwareProofs*, first about the receiver of a counted switch. `SomeoneReturns` for any
set of threads: the thread that brings the count above the threshold still has its test
ahead, the test can only send it on to the store, and the store leaves nothing behind.
`CreditConservation` too for any set. For the only thread that receives (the model has
several, so the theorems say of the behaviour that only `t` ever runs, `OnlyRuns(t)`) a
batch is above the threshold from the test until it is with the sender, so at most one
message is on its way; hence `ImplementsCreditProtocol` and, for packets no larger
than a batch, `NeverFinishes`.

The second half is about `MCSoftware` itself, the whole of the software and its devices:
`NoCreditIsLost`, `NoLostWakeup`, `RequestsKeepOrder`, `WordsKeepOrder` and
`SoftwareKeepsProtocol`, the formulas that the run `software` checks. `EndsInv` is the
conjunction of the parts' invariants; a step of one part leaves the others' variables
alone. The sizes that `MCSoftware` defines are the run's; `Sizes` says the same of the
constants that the cfg gives. The theorems about the parts hold for all sizes.

*RouterProofs*, for every network, kind of platform, number of lanes and links, load and
order of platforms: `ReturnsAgree` and `RoutersFit` as the run `router_passes` checks them
in `MCRouter`, whose other passes leave these variables alone.

- The assignment. `IInv == Shape /\ Opened /\ Numbered /\ Complete /\ Described`: a return is
  numbered by a count that only grows, so it lies between the data and the count, all
  those numbers are taken and none twice; a connection is left only when every lane of
  its opposite has its return; routers are described when nothing changes any more, which
  is why both ends see the same.
- The routers. `GInv` adds that a router is begun only then (`Phased`), and that what a
  platform has written for a connection depends on nothing but the numbers and how
  far it is (`Wired`): links open, then driven by data, then by returns too, each return
  by `TheReturn` on that link. Software writes the same in one step, because a
  connection to a processor has one lane and its vector is as long as it has links.
  `WiresMeet`, `PacketizersFit` and `NoLinkLeftOpen` compare two ends that are both
  functions of the same numbers. TLC checked `GInv` on the instance of the run first.
- `RouterAssumption`: a lane without a link is the only one, or idle while all others have
  a load. Only then does the flow control of the opposite connection give it a link, and
  only lanes with links get the switch that others refer to (`generateCode.py:198`, 283).
  It is a property of how lanes are cut, `AtMostOneLaneIdle`, which `LanesAreSound`
  checks; no theorem joins the two, because the cut is not proved about.

*FlowControlLinkProofs*, for every number of data queues, size of buffers and packets,
depth of the link, for both arbiters and without the bound of the multi-cycle run:
`BuffersAreSound`, `StreamsAreFramed`, `ImplementsCreditProtocol` and
`SwitchesKeepProtocol`. The only hypothesis is `PacketsFit`, a packet is no larger than
what a refill is sure to bring. The comment at `flowcontrol-egress.bsv:490` relies on
the compiler to reject packets larger than the counters can express, which is less; with
packets between the two a refill may leave a queue without room and stop the switch.
None of the properties is inductive. `IInv` adds to `TypeOK` and `PacketsAreWhole`:

- `Accounted`: a data queue's credits at the sender, in flight, stored, free and returning
  add up to `FifoSize`, not just modulo the width of the counters as
  `CreditConservation` says of all queues. Flow control packets are sent without
  credits, so their sum is exact modulo the width only.
- `Affords`: `bufferAvailable` of a data queue, or having won in the last cycle, means
  credits for the largest packet and its header. The latter is what the pipelined arbiter's
  lock is for: without it the same queue could win again before it has paid.
- `Contents`: what the flow control FIFOs, the port and the buffers hold; every batch
  is above the threshold. Two such batches do not fit in a queue's credits, so a refill takes
  all that is returning, and leaves room for a packet *and* its header although the
  test after a refill leaves the header out.
- `Alternates`: headers and bodies take turns from `deqHeader` through the port and the
  buffer to the ingress, which is inside a flow control packet exactly when a body is
  due next. So `scan_responses` never adds a header to the credits.

A tick of `x` moves the sender's half of its outgoing channels (`SenderAccounts`) and
the receiver's half of its incoming ones (`ReceiverAccounts`); what several rules write
in one cycle is summed there, once for the invariant and for the refinement.
Credits in sequences are counted as a set of pairs (position, number), so that the
library's facts about cardinalities do what an induction would.
`SwitchesKeepProtocol` says which `$finish` can be reached: only a refill of the flow
control queue (`link_credit_overflow` reaches it). TLC checked `IInv` on the instances
of `link_single_cycle` and `link_multi_cycle` before it was proved.

*ServiceProofs*, for any number of services, worker threads, callers, requests and
chunks; the assumptions are that the pool is finite and that `None` is nobody, no number
and no answer. `RequestsKeepOrder` and `EveryCallHasItsRequest` of `RRRServer`, and
`ResponsesFindTheirCaller` of `RRRClient`, are the three conjuncts of `RequestsKeepOrder`
in the suite. The mutex alone does not give the order. For the server, `IInv` says in addition who is
past the mutex (`Holding`), which number a thread has at hand (`AtHand`), and that the numbers
carried out, at hand, queued and being put together follow each other without a gap
(`InOrder`); `Answered` keeps the answers below them. `Called` counts the calls
that are posted or not past their pop. For the client, at most one request that has a
response is on its way, and only while nothing of a response is (`OneAsks`); once it is
taken, the chunks in the channel and those the hardware owes add up to what is
awaited (`RestComes`). TLC checked both invariants on three threads before they were proved.

Then the pipes of `UnixDevice`, for any processes, links, words and sizes of the table:
`WordsKeepOrder`, whoever dies when. The words of a line are with the sink, queued there,
in the pipe and queued at the source, in this order. `PipesInv` says that the
entries in use are those below the process's number of devices and no two devices
share one (`Tabled`, `Separate`), what an entry holds before it is opened
(`Unused`), and, from where the threads at both ends are, what a pipe holds: a
synchronisation block at most once and before any word (`Paired`). The
hypothesis `OneEntrySpare`, fewer devices in a process than entries in its table, is what
the wrong number in the last entry (section 3) costs.

*CountingLemmas* has the lemmas on remainders, on places in sequences and on sums. A
sum over channels or over a queue of messages is usually a fold, that is a recursive
function, of which nothing follows without induction. `Sums` defines it instead as the
number of pairs (position, unit), which TLC computes as well; then what a step does to
a sum follows from the library's facts about cardinalities.

Model-checked only: liveness and whatever needs ENABLED (out of the prover's
reach); `FlowControlIsBounded` (flow control packets find room and stop nobody), which
holds with the single-cycle arbiter and few channels and not in general;
the sizes of headers, those of the routers included (a filler is the fixed point of a
recursive function); the other passes, whose properties compare a result with an optimum
or follow recursive definitions (paths, trees); that the lanes of a multiplexor are
FIFOs, which reads a channel's words off the physical one with the recursive `SelectSeq`.

## 5. Not modelled

In modelled components: the `PACK_FLOWCONTROL` branches (off by default);
`mkBRAMVLevelFIFODecrOne`; the egress hardware of the pointer switch cycle by cycle
(its arbiter and framing are those of the credit counter switch); debug rules and
statistics; `generateViaCombinational` and `analyzeNetworkUniform`, which refer to names
that do not exist and cannot run; the deprecated multiplexor; the branches that call
an integer programming solver for trees; `parseModuleGraph` and `synthesizeRouters`
(files and build steps).

Components without a module, with the reason in `PROJECT.json`: the register FIFO
and its ingress (no configuration selects them), the simple switch (no flow control),
the packetizers (their FIFOs and marshallers are library modules outside the
repository), `generateLIMGraph.py` (instantiates code and calls compilers), the
platform's lifecycle (what it calls lies outside the repository), type compression and
the type parser (text to text), configuration and examples.

What would come next: starvation of flow control packets under the pipelined arbiter,
which needs larger buffers than could be explored; the number of channels for which
the flow control buffer suffices, as a theorem about `FlowControlFits`; data both ways over
a coarser link.
