# A TLA+ model of the tick-to-trade pipeline

This directory holds the verification project for the FPGA tick-to-trade system
in `src/`: market data comes in on two redundant lines, a limit order book is
kept in hardware, a strategy answers with an OUCH order on a TCP connection that
the host opened, and host software configures the card, keeps the session and
checks the hardware against software goldens. The modules model the RTL one
clock edge at a time, the host one call or packet at a time, and the goldens one
message at a time. TLC checks them on small instances; TLAPS proves the results
named under "The proofs" for every value of the constants.

## The system

```
 line A -> eth_ip_udp_rx -> drop_fifo \
                                       feed_ab_arb -> mold_splitter -> itch_decoder
 line B -> eth_ip_udp_rx -> drop_fifo /                                      |
                                                                        order_table
   +-------------------------------------------------------------------------+
   |-> sweep_detect ------------------------------------------.
   `-> price_ladder, fast_bbo -> bbo_merge -> bbo_arb -----> strategy (risk gate)
                                                                |
   MAC <- axis_tx_arb <- cdc_fifo <- tx_replay_buf <- tcp_tx <- ouch_builder
   MAC -> cdc_fifo -> tcp_rx -> peer_ack -> tx_rto -> tx_replay_buf
                         `-> u_sess_cdc -> axis_tx_arb -> eth_capture -> dump_session.py
   host (session.py, regmap.py) -> axil_regfile -> cfg_cdc -> everything above
   host (session.py) <-> SoupBinTCP <-> mock_exchange.py
```

There is one clock per domain (MAC, core, AXI-Lite, shell). Inside a domain every
module registers its outputs, and a `ready` is a wire; so one TLA+ step is one
clock edge, and it computes all the modules of a composition from the values
before the edge. Between two domains either clock may tick, or both at once.

| component | state | operations | hard part | correct when |
|---|---|---|---|---|
| `cdc_fifo` | memory, two pointers in two domains, synchronizers, drop counter, high-water mark | write edge, read edge | metastable captures of moving pointers, registered read that stalls | a lossy FIFO; never overruns; full clears |
| `drop_fifo` | memory, pointers, head register, counters | push without ready, pop | full at one beat in the middle of a packet | a lossy FIFO that counts its losses |
| `feed_ab_arb` | next sequence number, stall counter, state, line served | lock on, forward, drop a duplicate, wait, jump a gap | lines skewed, lossy or dead | merged in order, missing only what both lines lost |
| `mold_splitter` | window of bytes, messages left, expected sequence | header, emit, drop | headers and messages cut at any byte; four rules for the expected number | logs what `dump_mold.py` prints |
| `order_table` | set-associative table, clear sweep, old entry of a replace | add, execute, cancel, delete, replace | full sets, unknown references, read latency | deltas are those of `dump_book.py` |
| `price_ladder`, `fast_bbo`, `bbo_merge`, `bbo_arb` | quantity per level, occupancy, early book, pending answer, queues | delta in, record out | an early answer that may be wrong or late | the record equals the book of the deltas so far |
| `sweep_detect` | the run: direction, frontier, levels, shares, last time | delta in | runs end by direction, time or a step back | runs are those of `dump_sweep.py` and `sweep_grid.py` |
| `strategy` | stage-1 registers, edge memory, position, in-flight, book per symbol | record, sweep, ack, gates | sweep and record in one cycle, ack and send in one cycle, sampled ready | limits hold; one order per edge; right price; decides as `dump_orders.py` |
| `ouch_builder`, `tcp_tx` | packet, token, frame under way, sequence number, IP id | accept, sum, two beats | back-pressure inside a frame, carries of the sums | frames are those of `dump_ouch.py` and `dump_tcp.py` |
| `tx_replay_buf`, `tx_rto` | ring of frames, replay under way; last acknowledgement, timer, retries | capture, request, replay; progress, fire, give up | request, live beat and replay in one cycle; late acknowledgements | whole frames, the oldest missing one |
| `tcp_rx`, `u_sess_cdc`, `axis_tx_arb`, `eth_capture` | next byte expected, grant, FIFO, record being filled | segment, load, grant, accumulate, drain | loss, repetition, overlap, other cuts, a capture that stalls | what is acknowledged reaches the host; orders pass untouched |
| control plane (`regmap.py`, `axil_regfile`, `cfg_cdc`) | registers, words, pulses, snapshot, toggles | configure, write, commit, ack | pulses and a wide bus between unrelated clocks | one pulse in, one pulse out; commits whole |
| host (`session.py`, `soupbin.py`) and `mock_exchange.py` | pending orders, in-flight count, position, read buffer; a thread per connection | log in, hand over, send, poll, log out | byte streams in pieces, two sessions on one device, threads with one lock | counts and position are those of the answers |
| `ack_latency`, ARP, IGMP, MAC and replay shells, reports | | | instruments and fixed replies | not modelled |

`PROJECT.json` lists every component with what is modelled of it and why the
rest is not, and every hazard at the line where it bites.

## The modules

| module | models | composes |
|---|---|---|
| `LossyFifo` | abstract: a queue that stores what it is offered or refuses and counts it, refuses none while it holds fewer than `Floor`, and lets the oldest item go only when the consumer takes it | |
| `CdcFifo` | `cdc_fifo.sv`; the code is a parameter, `CrossingAssumption` says what is needed of it | refines `LossyFifo`, with a floor of zero: when it refuses is up to an old read pointer |
| `GrayCode` | the code of `cdc_fifo`, the bitwise sampling of a changing pointer, and the FIFO with them | `CdcFifo` |
| `DropFifo` | `drop_fifo.sv` | refines `LossyFifo`, with its memory as the floor |
| `FeedArb`, `FeedPath` | `feed_ab_arb.sv`; the two lines, their FIFOs and the arbiter as in `t2t_top` | `DropFifo` twice, `FeedArb` |
| `MoldPack`, `DumpMold` | the writers `gen_itch.py` and `itch2mold.py` with their self-checks; the golden `dump_mold.py` | |
| `MoldSplitter`, `MoldFeed` | `mold_splitter.sv`; a writer, a bus of any pace and the splitter, next to the golden | the two above |
| `OrderTable`, `DumpBook`, `DumpBbo` | `order_table.sv` with its memory; the goldens `dump_book.py`, `dump_bbo.py` | |
| `SweepDetect`, `DumpSweep`, `SweepGrid` | `sweep_detect.sv`; the goldens `dump_sweep.py`, `sweep_grid.py` | |
| `TableSweep` | a feed of `gen_itch.py`'s messages, the table, a detector per symbol | the six above |
| `PriceLadder`, `FastBbo`, `Book` | `price_ladder.sv`; `fast_bbo.sv` and `bbo_merge.sv`; the three of one symbol as `fh_core` wires them, before a legal stream of deltas | |
| `BookLanes` | `bbo_arb.sv` for more than one symbol, behind the books, of which only the timing is kept | |
| `Strategy`, `DumpOrders` | `strategy.sv`; its golden `dump_orders.py` | |
| `StrategyVenue` | the strategy before books, sweeps, a transmit path and a venue, and next to its golden | the two above |
| `TcpTx`, `OrderPath` | `ouch_builder.sv` and `tcp_tx.sv`; decision to wire, next to `dump_ouch.py` and `dump_tcp.py` | `Strategy` and `TcpTx` |
| `ReplayBuf`, `TxRto`, `TxReliability` | `tx_replay_buf.sv`, `tx_rto.sv`; order, loss, timeout, replay, acknowledgement | `TcpTx` and the two |
| `TcpRx`, `DumpSession` | `tcp_rx.sv` and `eth_capture.sv`; `dump_session.py` with `pack_eth.py` | |
| `SessionIn` | venue and network, the receive path as `t2t_kernel` wires it with `axis_tx_arb.sv`, `gen_session.py`'s replies and the host's reader | `TcpRx`, `CdcFifo`, `SoupBin`, `DumpSession` |
| `SoupBin`, `MockExchange`, `HostVenue` | `soupbin.py`; `mock_exchange.py`; `session.py` with `ouch.py`, and sessions and venue over streams | each extends the one before |
| `ControlPath` | `regmap.py`, `configure`, the words `t2t_run.cpp` adds, `axil_regfile.sv`, `cfg_cdc.sv` | |
| `DropFifo_proof`, `FeedPath_proof`, `Book_proof`, `MoldFeed_proof`, `ControlPath_proof` | proofs about the module of that name | |
| `InboundPath_proof` | proofs about the inbound path, `SessionIn`, and the FIFO of its crossing, `CdcFifo` | |
| `FhCore_proof` | proofs about both ends of `fh_core`: `TableSweep` and `BookLanes` | |
| `Strategy_proof` | proofs about the way out: `StrategyVenue`, `OrderPath`, `TxReliability` | |

A module of the RTL becomes a TLA+ module with an `XTick` operator, one clock
edge of it, whose parameters are its inputs in that cycle; the disjuncts or the
sub-operators of the tick are the branches of its `always_ff`. An optional value
(`valid` plus data) is a sequence of length zero or one. A composition's `Tick`
is the conjunction of the ticks of its parts, wired as the RTL wires them. A
golden is a set of actions, one per message type, over the script's variables.
To compare, the golden is instantiated with its variables mapped to expressions
over the hardware's, and the property is that the hardware's step is a step of
the golden (`DecidesAsGolden`, `DeltasAreGolden`, `TopsAreGolden`,
`RunsAreGolden`) or that the two logs agree (`LogIsGolden`, `DumpIsGolden`,
`FramesAreGolden`).

Names are the source's; where one differs the declaration says so. Variables a
composition adds (`unanswered`, `lastSeen`, `waited`, `given`, `taken`,
`resting`, `lead`, `levels`, `meant`, ...) belong to the surroundings or remember
the past; no part's tick reads them, and environment bounds on them restrict
inputs only. The instance that TLC checks (definitions named `MC...`) stands at
the end of the module it instantiates.

Abstractions. Prices, quantities and times are small numbers. A packet is a
record of its intent and token; a header or payload contributes one word to a
checksum; a beat is a frame and whether it is the last. Words whose width matters
keep it: pointers, ages, sequence numbers, tokens, checksums and counters are
taken modulo a constant. In `feed_ab_arb` a beat carries what would be read from
it as a header, also when it is not one. In `mold_splitter` and SoupBinTCP a byte
is a length byte, or a packet and its place in it, so framing that goes wrong is
seen as such. In `ControlPath` a byte has four values and a nibble two.

Definitions marked wrong on purpose, or "as written if" (`FullUnflipped`,
`SnapshotAlways`, ...) stand beside the definition they vary. They are the
mistakes each property has been shown to catch, and nothing uses them.

## The runs

All runs are expected to pass. Deadlock is checked where a clock ticks for ever;
`host_session`, `mold_feed` and `session_in` switch it off because the sessions
log out, the stream ends, and the venue has nothing left to send.

| run | shows | instance |
|---|---|---|
| `cdc_fifo` | refinement of `LossyFifo`, no overrun, and that full clears | depth 4, the least with a bit below the flipped two; two-flop synchronizers; two beat values, enough to tell order and repetition |
| `strategy` | limit, in-flight count, one order per edge, right book, decisions of the golden | two symbols, in-flight limit 2, position limit and lot 1: every gate opens and closes, sweeps meet records of the other symbol; at most three orders unanswered, and acks that meet a send counted up to two |
| `order_path` | frames as the software builds them, spaced triggers never lost, no starvation | token modulo 4, sequence modulo 16, checksums modulo 4 so that all wrap and fold; the wire held off for up to two cycles at any time |
| `tx_reliability` | whole frames, the oldest missing frame is asked for, a live beat is held off for at most a frame | ring of 4, two beats a frame, two orders under way, a loss between advances, two retries, all numbers wrap |
| `feed_path` | order, completeness, both FIFOs keep their contract | five packets, among them one of two beats and a heartbeat; FIFOs of 2+1 beats that do overflow, drop counters modulo 16, more than a line has beats; patience 2, skew up to 2; any packet lost on either line |
| `book` | ladder and merged stream against the book of all deltas; a soft reset at any cycle | four levels in two groups, a price every two units, prices on three levels in both groups and one below the band, at most two shares at a price and three in all on both sides: every price in the band can be best, second, emptied and refilled, and a replace can touch one level twice |
| `book_lanes` | no record lost, order per symbol, nobody starves | two symbols, the real ten states of the ladder and queues of two, which do fill |
| `host_session` | packets never garbled, counts and position, everything answered | the card's session and the host's own, two orders or heartbeats of any kind, a venue that may stop at any step; the host's orders buy one share, the injected ones sell two; one token prefix for both sessions, the default, so that the first order the host sends and the card's share a token |
| `mold_feed` | the splitter's log, its room, the writers' self-checks and what they refuse | five messages of one or two bytes, headers of three, beats of five, so that every cut occurs; five packets of every kind, gaps and duplicates anywhere |
| `table` | deltas, tops, runs | four orders over two sets of two ways, three of them in one set; junk in the memory at power-up; read latency 1; executions of 1 share (`E`, 0 or 2 after the last) and of 2 (`C`), a gap of 1; runs of up to 2 shares on one symbol and 1 on the other; two levels make a sweep |
| `session_in` | acknowledged bytes are kept, the host's dump, orders untouched, all received | two replies in segments cut at four places, sequence numbers that wrap, a capture of three records, a FIFO of two beats, one order, a stranger's frame |
| `control_path` | one commit at a time, pulses once, all arrives | all 37 registers, two symbols of three slots, two-flop synchronizers, two commits from three settings of which one is refused, two acks |

The refinements of `LossyFifo` count at both ends: `given` what the producer
offered, `taken` what the consumer took. Without them a coupling could let go of
an item that nobody took, and the mapped queue would look the same.

The bound on the skew in `feed_path` is the one the design needs: with skew
`AheadStall + 1` TLC finds a packet that one line delivers late and the arbiter
had given up on. `feed_ab_arb.sv:24` describes a gap as both heads being ahead;
the code (lines 104 and 113) needs only one head ahead and the other line empty,
and it has to: with a dead line the described rule would wait for ever.

In `book` a delta is legal: it removes no more than rests at its price, which is
what `LadderSumsOrders` of `table` establishes, and it leaves no price outside
the band as the best of its side, which `step4b-book/README.md:30` says of the
feed (see 5 below). Prices in the band are whole ticks of it. `resting` is the book of the
deltas taken, and `lead` are the records that left `bbo_merge` and that the
ladder has yet to publish; so `StreamsAgree` compares the two streams record for
record while they run. Dropping `stale` from `FastBbo` breaks no property: the
flag costs early answers and is not what makes them true.

### What the compositions assume

- `order_path`, `tx_reliability`: the connection was handed over before, and
  `cfg_load` stays low. The session is quiet, so the acknowledgement number is a
  constant word of the header. Words per sum are at most the modulus, so two
  folds suffice, as 16-bit words in a short header do.
- `strategy`: `DecidesAsGolden` leaves out the steps in which the two are not
  meant to agree: kill switch off, transmit path busy, an answer in the cycle of
  the decision, a record and a sweep in one cycle, a crossed record.
- `table`: the feed starts after `init_done`, and a replaced order finds a way
  (`ReplaceFits`; see 6 below).
- `session_in`: a segment starts when the FIFO has passed the last frame on or is
  full for good (`t2t_kernel.sv:509-513` argues that replies are that rare), none
  starts in the cycle of `cfg_load`, and the stream is shorter than the sequence
  space.
- `book`: nothing enters while the ladder clears. The RTL's IDLE takes a delta
  without asking `clr_busy` (`price_ladder.sv:353`) although `i_ready` is low, so
  one that waited at the FIFO would be worked on and not popped; what keeps deltas
  away is the order table's own sweep, which is longer (`price_ladder.sv:330-334`).
- `session_in`, too: both beats of an order are offered without a pause between,
  while the transmit crossing (`t2t_kernel.sv:465-545`) may pause there. The
  session's frames do pause between beats, and the arbiter holds its grant by
  the last beat, not by the pace.
- `mold_feed`: a packet's messages fill it, so the receivers' assertions on its
  bytes (`gen_itch.py:240`, `257`) hold; a writer's check does not keep a stream
  from the splitter.
- `host_session`: the order of the calls is the user's, and the venue answers the
  orders of a session one after the other, as its thread does.
- `control_path`: a commit follows a `configure` that returned (`ready`); the code
  does not check it, an exception of `configure` reaches the caller and keeps
  `connect` from being called. Pulses are at least `SYNC_FF + 1` core cycles apart
  (`cfg_cdc.sv:14-17`), `cfg_ratio_shift` fits its four bits, and both domains
  leave reset together.

### Fairness

`CdcFifo`: both clocks run, and the reader is ready again and again.
`HostVenue`: the venue's threads run and the host goes on polling; the venue need
not send. `SessionIn`: the clocks tick, a beat that is offered moves, memory
accepts, the connection is handed over, and a venue that has unacknowledged bytes
sends the missing piece again and again (strong fairness, as its chances come and
go with the frames before it). `ControlPath`: both clocks run, and a driver offers
a write until it is taken. Elsewhere a bounded wait is a safety property that
counts cycles (`HeldOffBriefly`, `KeepsMoving`, `NoStarvation`), which needs no
fairness as a step is a clock edge.

### What the code does and its comments do not say

Order path.

1. *An ack in the cycle of a send* (`strategy.sv:270`, `298`). The comment at 297
   says it "leaves the count unchanged"; only the decrement remains, and more
   than `cfg_max_inflight` orders may be outstanding, which `tx_replay_buf.sv:32`
   excludes: with `unanswered <= MaxInflight` as an invariant TLC finds it violated
   in the instance of `strategy`. What holds is
   `InflightBounds`: the count is never above what is outstanding, so no slot is
   lost, and each such cycle takes it at most one further below, for good.
2. *Optimistic position* (`strategy.sv:46-48`, `231`): "can only suppress
   trading". Position is signed, and unfilled orders of one side make room on the
   other.
3. *Stale ready* (`strategy.sv:286`, `ouch_builder.sv:142`). A trigger straight
   behind another is counted as sent and never built; `SpacedNeverLost` says that
   nothing else is.
4. *A replay does delay* (`tx_replay_buf.sv:29-30`: "can never delay a new
   order"; lines 87 and 156), by one frame at most (`HeldOffBriefly`).
5. *An early record outside the band* (`fast_bbo.sv:129`,
   `price_ladder.sv:363-368`). The ladder drops the price, the early answer shows
   it; also for a price between two levels. Inside the band and on its ticks
   `StreamsAgree` holds.

Table and sweeps.

6. *A replacement that finds no way* (`order_table.sv:479-485`) is counted as a
   dropped insert and yet announced as an addition: with `ReplaceFits = FALSE`
   TLC violates `LadderSumsOrders` within seconds, and the level is never removed.
7. `order_table.sv` in IDLE takes a message while `clr_busy`; only `s_ready`
   keeps one away.
8. `dump_orders.py` orders a sweep at its last execution's time, the hardware
   fires it on the execution that ends the run; and a last run is never ended by
   either detector. The scripts' headers say a run's gaps are below `gap`; the code
   breaks above it, so equal stays in.
9. `strategy.sv:139-141` takes the spread of a crossed record unsigned, as wide;
   `dump_orders.py:153` signed, as tight.

Feed.

10. A loss just before the end of the session is not reported by the splitter or
    by `dump_mold.py`: the end-of-session packet's number is not compared. Of the
    writers' checks `mold_selfcheck` refuses such a stream before it becomes a file
    (`gen_itch.py:260`; `ReceiversAgree` says that it refuses no other), so no
    generated stream tests this; the splitter of the model is offered it all the
    same, as a feed may lose its last packets. After the end of the session
    the golden stops and the splitter goes on. A packet that overlaps what was seen is dropped whole.
11. `drop_fifo.sv` promises that losses are counted, but `t2t_top.sv:298` and
    `304` leave those counts unconnected, and `318` the arbiter's gap count; an
    end-of-session count of 0xFFFF moves the arbiter's next number by 65535.

Inbound session.

12. `tcp_rx.sv:16-17` says segments out of order are dropped and 25-26 that no
    byte is delivered twice; line 266 passes every frame of the session on to the
    host, and what makes the dump right is `dump_session.py`'s reassembly
    (`DumpIsGolden`). A hole at the very beginning is not named, and its sort by
    raw sequence number takes a wrap for holes.
13. Every later commit pulses `cfg_load` and reloads `rcv_nxt`, and the transmit
    sequence number too; also one that only flips the kill switch.
14. `axis_tx_arb` locks its choice when a source is valid, so an order may wait
    for a whole reply that has not begun to move; a full capture stops both.
    A frame that is too long for a record has its rest stored as another.

Control plane.

15. `configure` never writes `cfg_enable`. Nothing the host writes has effect
    before a commit: neither the timer's words (`t2t_run.cpp` calls them "not part
    of the LOAD commit"; `t2t_axil.sv:206` has them in the bus) nor the age of a
    manual resend (`t2t_axil.sv:219`).
16. `cfg_ratio_shift` has a byte in `regmap.py` and four bits in the RTL;
    `NCFG` is 42 words in the one and 47 in the other, which is meant.

Host.

17. An answer pulses `order_ack` of the card whichever session it came on
    (`session.py:205`), so the card's in-flight count goes down for orders of the
    host's; `InflightIsUnanswered` is about the host's own count only. And an execution on the card's session counts as a sale
    since its token is not pending (`209-210`).
18. Heartbeat replies and the log-out of the card's session are written into the
    stream the card writes to. A packet that arrives together with Login Accepted
    waits for the next read. The reader and the numbering are not reset by a
    second `connect`; `pending` is never pruned; Order Canceled is not read.
19. `mock_exchange.py` keeps its order counter under a lock and reads it outside
    (`109`, `112`), so two orders may be accepted under one reference. The model
    has this; no property is about it, as nothing reads the reference.
20. *Two sources of tokens* (`session.py:53`, `153`, `175`). `send_order` and the
    card mint tokens under the same prefix unless a session is given another, and
    `send_ouch_payload` files a body of the card's under the token it brings. The
    second order under a token takes the first one's place in `pending`, and the
    first one's fill moves the position the other's way. In the instance of
    `host_session` this happens: with `doubt` at zero TLC violates
    `PositionIsFills`. What holds is that nothing but fills of orders which share
    a token is booked on the wrong side, so without injected orders, or under
    prefixes of their own, the position is that of the fills.

Smaller ones: the buy and sell conditions are not exclusive when `cfg_ratio_shift`
is 0 and the sizes are equal (`strategy.sv:204`; the buy wins); an ack is said to
be applied before the cycle's decision, and the gate reads the count before it
(`strategy.sv:268`); a request the replay buffer refuses still spends a retry
(`tx_rto.sv:151`); a deferral is said to cost one ladder round trip, and costs the
next delta too when it left the top as it was (`fast_bbo.sv:163`); records of one
symbol are said to be five cycles apart and may come on consecutive ones
(`bbo_arb.sv:34`; the queue of two suffices all the same); `gen_session.py:141`
writes a decimal counter in its tokens where `ouch_builder` counts in hexadecimal.

## The proofs

TLC checks the instances above; TLAPS proves the following for every value of
the constants that the named assumptions allow. An `ASSUME` of a module is what
the code fixes (a depth of at least two, a set of symbols); a condition stated
with a theorem is one the code fulfils by its numbers and that the theorem needs.
The conditions were evaluated on the instance of the run as well.

| theorem | property | under |
|---|---|---|
| `InboundPath_proof`: `NeverOverrun`, `CdcFifoIsLossyFifo` | `NoOverrun`, `ImplementsLossyFifo` | `CrossingAssumption` |
| `InboundPath_proof`: `AcknowledgedIsKept`, `OrdersPassUnchanged` | `AckedIsKept`, `OrdersUnchanged` | `RoomAssumption`, `CutsAssumption` |
| `DropFifo_proof`: `ElasticFifoIsLossyFifo` | the refinement, for one FIFO | `DropConstants` |
| `FeedPath_proof`: `BothLinesAreLossyFifos` | `LinesAreLossyFifos` | |
| `FeedPath_proof`: `MergedStreamInOrder` | `MergedInOrder` | `FewerBeatsThanCounted` |
| `FeedPath_proof`: `OnlyDoubleLosses` | `OnlyDoubleLossesMissed` | `FewerBeatsThanCounted`, `PatientEnough` |
| `Book_proof`: `LadderShowsTheBook`, `EarlyStreamIsTheLadders` | `LadderIsRight`, `StreamsAgree` | |
| `MoldFeed_proof`: `SplitterLogsTheGolden`, `SplitterNeverBlocks` | `LogIsGolden`, `AlwaysRoom` | `StreamAssumption`, `SplitterAssumption` |
| `MoldFeed_proof`: `WritersReceiversAgree` | `ReceiversAgree` | `PackAssumption`, `StreamAssumption` |
| `FhCore_proof`: `TableIsTheGolden`, `LadderIsTheSum` | `DeltasAreGolden`, `LadderSumsOrders` | `ReplaceFits` |
| `FhCore_proof`: `TopsAreTheGoldens`, `RunsAreTheGoldens` | `TopsAreGolden`, `RunsAreGolden` | `ReplaceFits` |
| `FhCore_proof`: `NobodyStarves` | `NoStarvation` | |
| `FhCore_proof`: `TwoSlotsAreEnough`, `EverySymbolInOrder` | `NothingDropped`, `SymbolOrder` | `LongWalk` |
| `Strategy_proof`: `PositionLimited`, `InflightKeepsUp`, `PricedAtOwnBook`, `OneOrderPerEdge` | `PositionWithinLimit`, `InflightBounds`, `OwnBook`, `RisingEdgeOnly` | |
| `Strategy_proof`: `StrategyIsGolden` | `DecidesAsGolden` | `RoomBeyondLimit` |
| `Strategy_proof`: `SpacedOrdersArrive`, `FramesKeepMoving` | `SpacedNeverLost`, `KeepsMoving` | |
| `Strategy_proof`: `HardwareSendsGolden` | `FramesAreGolden` | `TwoFoldsSuffice` |
| `Strategy_proof`: `FramesCrossWhole`, `BriefHoldOff` | `WholeFrames`, `HeldOffBriefly` | `SameWidth` |
| `Strategy_proof`: `OldestIsAskedFor` | `AsksForOldest` | `SameWidth`, `RingFitsWindow` |
| `ControlPath_proof`: `PulsesCrossOnce` | `EachPulseOnce` | |
| `ControlPath_proof`: `BusCrossesWhole` | `CoreHasOneCommit` | `MapIsFaithful` |

### The conditions

- `CrossingAssumption`: encoding and decoding a pointer are inverse, the flipped
  code is that of the pointer one depth further, and sampling a pointer as it
  advances yields the old or the new value. TLC evaluates it for the gray code of
  the source in `cdc_fifo`; for every width it is an induction over bits.
- `RoomAssumption`: the crossing and a record hold a frame, as 64 and 32 beats do.
  `CutsAssumption`: the venue cuts its stream within it, and the stream is shorter
  than the sequence space, so that no two places of it have one number.
- `DropConstants`: a depth of at least two (`t2t_top` instantiates
  `drop_fifo` with 256 words, `fh_core` by default with 512), and counters of some
  width.
- `FewerBeatsThanCounted`: each line carries fewer beats than the 32-bit drop
  counters count. `InStep` reads "nothing was dropped" off a counter, which is
  also true after 2^32 drops.
- `PatientEnough`: the two lines are no further apart than the arbiter is patient.
  It compares a constant of the network with `AHEAD_STALL`, and one cycle more is
  too much, as TLC shows.
- `SplitterAssumption`, `StreamAssumption`: a header, a prefix, and a message with
  its prefix each fit a beat, as 20, 2 and at most 52 bytes fit 64, and no message
  is empty. `PackAssumption`: no packet counts as many messages as the end of the
  session is marked with.
- `LongWalk`: queues of at least two, and twice the number of symbols no more than
  the cycles the ladder spends on a delta plus one: five symbols with its ten states. TLC finds a record
  dropped with one symbol more, so the bound is sharp.
- `ReplaceFits`: a replacing order finds a way in its set. The record of a replace
  goes out whether it does or not, so one that finds none leaves a book downstream
  with an order the table has not stored; `overflow_cnt` shows it. The run is
  under the same condition. `TableAssumption` asks that the overflow counter counts
  to more than one, as its 32 bits do: a drop is seen by its moving.
- `RoomBeyondLimit`: twice the limit and one order fit the position register. At a
  limit within half an order of 2^31 the position wraps and the gate lets pass what
  the script, whose integers have no width, refuses.
- `TwoFoldsSuffice`: the words of a frame sum to less than the square of the word,
  as forty words of 16 bits do.
- `SameWidth`, `RingFitsWindow`: tokens and sequence numbers are both of 32 bits,
  and the ring with one frame more spans less than the sequence space.
- `MapIsFaithful`: a statement about constants, the arithmetic of the register map
  on both sides: what `configure` writes is all registers but the kill switch, a
  commit's writes are words of the file with the commit itself as the last, and a
  file that holds the last word written to each address has the ports the host
  meant. It is a sum over a concrete table and left to TLC's evaluation; that no
  write of another configuration gets between, none after the pulse, and none of
  a `configure` that raised, is proved.

### The arguments

`InboundPath_proof`, the FIFO. The invariant is `TypeOK /\ PointerOrder`: pointers wrap, so
order means order of the distances from an origin. The read pointer as the write
domain last saw it is no further than the later stages of the synchronizer, these
no further than the pointer itself, that no further than the write pointer as the
reader sees it, and so on up to the true write pointer, which is less than a depth
from the origin. Moving the origin is the step that has content
(`OrderFromOldOrigin`). `NoOverrun` is read off it, and the refinement adds that
memory between the two true pointers is the queue (`QueueInv`): a write appends
to it where nothing unread stands, a read takes its first.

`InboundPath_proof`, the path. A source's frames are followed from what the capture
has begun of one (`Carry`), over what waits, to what is still to come of the frame
that is arriving (`Passing`): this row is whole frames at any time (`PipeInv`), which
the arbiter keeps because a frame it has begun holds the port to its last beat
(`CaptureInv`), and the FIFO because what it drops it drops when the area is full for
good (`CoreInv`). What the host prints, the frame that is complete and the orders in
that row are the orders sent (`OrderInv`), so what it prints is a prefix of them.
`AcknowledgedIsKept` says with `StreamInv` that the next number is that of a place up to
which everything is in memory or on its way. Only a segment that starts at or before
that place moves it (`TakenInOrder`, with the signed difference of wrapped numbers),
and the segment itself is then on its way. The number never claims more than the place
(`OffsetIsAtMost`): the comparison of two numbers may take a place far ahead for one
behind, never the reverse.

`DropFifo_proof` does the same in one domain: the head register and the words
between the pointers are the queue (`DropInv`, `StoredAfter`). What keeps the head
from being starved is that memory is full only while the head is taken.
`FeedPath_proof` instantiates it for both lines, and then goes through them: in a
line's queue each beat is followed by the next of its packet or by the first of a
later one, and the last in it by the beat the line carries next (`Chain`). The
arbiter between two clocks is at the start of a packet on every line it is not in
the middle of (`ArbInv`), because it leaves a packet only with its last beat, and
the beat that left it last is followed by the front of the queue it serves.
`MergedInOrder` needs all of this: a header that is not one would be compared
with the next number like any other.

`OnlyDoubleLosses` adds what was lost on the way (`StreamInv`): between two beats
in a row of a line's queue the line has lost all packets, and a packet in front
of the queue was lost on the line or ends at or before the next number
(`Accounted`). A packet forwarded by its number skips only what ends before it. One
forwarded after the wait has been passed by the other line too, and that is
`WaitInv`: a packet which one line has passed and the other has not come to lags
by at least two cycles more than the stall counter shows (`Patient`). The two
cycles are the two of the way through an empty FIFO, and the packet's lag is at
most the skew. The counter runs only while a head waits that is ahead, and is
reset when one is forwarded, but not when a duplicate is dropped between.

`Book_proof`. The book of all deltas is ahead of the memories by what the delta in
the pipeline has yet to take and to add, level by level (`QtyInv`), and each state
of the walk settles a part of that: the band check and the divide restate it
without loss because levels and prices in the band correspond, the write of the
removal takes, the add adds, also when it is forwarded what the removal has
written (`ReadInv`). Occupancy and group summary are those of the memories
(`OccInv`, `MarkStep`), so the two-level scan finds the outermost level
(`ScanFindsPeak`), and with nothing left to come its price is the book's best
(`PeakIsTop`). A reset keeps this for the levels behind the sweep (`ClearInv`).
For the streams, `FastInv` says that what the early answer goes by is the top of the
book whenever it is not stale, which one case analysis of a delta keeps
(`AnswerIsTop`), and `MergeInv` that at most one record is ahead of the ladder, the
one it will publish, and only if that differs from its last.

`MoldFeed_proof`. The script and both receivers walk over the packets, and so does
the line that carries their bytes; a walk is the fold of a step, its existence and
its unfolding shown by the least number of steps that fails (`FoldExists`,
`FoldUnfolds`), so the recursive functions of the model can be reasoned about one
packet at a time. `MoldInv` gives the splitter a place in the stream (`Place`): some
packets have been begun, window and wire together hold the messages still to take
of the last of them and then the bytes of the rest, and the log is what the golden
prints for those begun, less the messages still to put out. A header taken moves
the place by a packet and the golden by a step with the same four rules
(`HeaderKeeps`), a message taken shortens both sides by one (`MessageKeeps`), and
since the front of the window is then known to be a header or a whole message,
`SplitterNeverBlocks` is a count of bytes. For `WritersReceiversAgree` the message
lines and the gap lines a packet adds are what `mold_selfcheck` counts
(`ToldTallied`, `Counted`); that `itch2mold.py` leaves nothing out needs its stream
in closed form: all receivers expect the writer's next number (`Wrapped`). For
`gen_itch.py` the receiver's number is the furthest any packet has run (`Reach`):
what it has got and what it has missed add up to that, and to the whole stream
exactly if some packet runs to its end.

`FhCore_proof`, the table. `TableInv` says that the memory holds an order only in the
set its reference hashes to, and once (`Sound`); that the set on its way out of the
memory is what the memory holds, since nothing is written while a message waits for
it (`ReadsSet`); that what a lookup found, the order's way or an empty one, is still
so when the message stores (`Found`); and that an order being replaced is out of
the memory while the new one is not yet in it (`Replacing`). While the sweep
after reset runs, the sets behind it are empty, whatever they held (`Clearing`). A
set of orders no two of which share a reference makes a book (`BookOf`), and what
a message does to the memory (`PutIn`, `TakeOut`, `ChangeIn`, the second and the
first for a replace) are the updates of the script's map (`BookGrows`,
`BookShrinks`, `BookChanges`). What a message amounts to is said once
(`Outcome`: an order joins, is reduced, leaves, is replaced, or nothing happens),
each state of the table is shown to end in one (`OutcomeStep`), and the three
theorems behind it rest on that alone.

For `LadderIsTheSum` the invariant is `LedgerInv`: at every price the sum of the
deltas is the total of the orders there. The total is the library's fold over a
set; that it exists, is unique and moves by an order's quantity when the order
joins or leaves (`TotalUnfolds`, `TotalOfRest`) is shown by the least set that
fails, the cardinalities being well founded. With it no level is ever negative,
and one is empty exactly when no order rests there (`LevelsStand`), which is how
`dump_bbo.py` removes a level too: `LadderMoves` says for one symbol what the
message does to its orders and its ladder together, and `TopsAreTheGoldens` reads
the script's step off it. `RunsAreTheGoldens` adds that the run a detector holds,
with the record still on the way, takes one step of either script's grouping
(`RunTrades`) or stands still (`RunStays`); `RunsInv` says only that a run is one.

`FhCore_proof`, the arbiter. `NobodyStarves` counts turns of the round robin to a waiting
symbol. `TwoSlotsAreEnough` bounds the cycles until a symbol's queue is empty by
its turns, and sets them against the state its own ladder is in, which decides
when the next record can come; the early and the late answer of one delta are the
two slots.

`Strategy_proof`. Beside the limits themselves the invariant says what the
registers remember: each symbol's stored book is a quote of that symbol
(`OwnBooks`), the edge memory is the condition of the last record stage 2 saw of
it (`EdgesRemember`), and the counter is behind the venue by no more than the acks
that met a send (`CountsAgree`). `OwnBooks` is needed because a sweep is priced from the
stored book, and `EdgesRemember` because the memory advances also when a gate
blocks. For `StrategyIsGolden` each gate is shown to be the script's, the signed
one by way of both ends of the register.

Behind it, builder and framer hold each order at exactly one place (`ChainInv`), with the token, sequence number and id that the script would have
given it by now (`GoldInv`); the checksums by the arithmetic of end-around carry:
two folds of a small sum are its remainder, or the modulus less one where that is
zero and the sum is not. `FramesKeepMoving` is a potential of states, held cycles
and orders waiting (`PaceInv`).

What sends an order again: `WireInv` says which beat of which frame each of the
framer, the live path, the buffer's write side and its replay stands at; that a
replay starts only between live frames, and its slot is not the one being
written. `OldestIsAskedFor` measures ages, the distance of a sequence number behind
the framer's, which stay true while everything wraps: what the venue has accepted,
what it last said and what the timer has heard of that are in this order
(`AckInv`), and the request in flight is at most as old as the ring is long
(`AgeInv`).

`ControlPath_proof`. A change travels down the synchronizer alone, one stage a
core clock (`ChainInv`, `OneChange`), since pulses are further apart than it is
deep; so a pulse is registered, under way, or seen, and never twice.
`BusCrossesWhole` adds that the snapshot stands still while its toggle is under way
(`HandOver`), and that the host's writes so far are those of one commit
(`HostInv`).

### What stays with TLC

- Liveness: `FullClears`, `AllAnswered`, `AllReceived`, `AllArrives`.
- Goldens and sums over recorded traffic: `DumpIsGolden`, `StreamsWhole`,
  `InflightIsUnanswered`, `PositionIsFills`. The sums over sets, the walks over
  packets and the checksums are proved, by least counterexamples and two-term
  folds; these four walk over byte streams cut anywhere, and have no proof yet.
- What is evaluated on one table: `CrossingAssumption` for every width of the gray
  code, and `MapIsFaithful` for every register map.

## Not modelled

- `itch_decoder`, `eth_ip_udp_rx`: field extraction and realignment, data layout
  that no property tells apart. So are the byte layouts of `regmap.dump`,
  `mold2eth.py`, `gen_regs_h.py` and the checkers of files.
- `ack_latency`, `lat_probe`, `lat_loaded`, status counters and their reads:
  instruments that feed nothing back. A 64-bit sum read in two halves may tear
  (`regmap.py` says so).
- ARP and IGMP: fixed replies. The MAC, `t2t_kernel_b` and the replay shell:
  bring-up around the system.
- `order_table_pipe.sv`, which `t2t_top` does not instantiate, and
  `mold_stripper.sv`, the splitter's earlier version.
- Malformed and cut packets behind an overflowing line FIFO: the splitter reads
  on in the middle of a packet, and no document says what it should do.
- A reset of one domain alone, and a second hand-over in the transmit
  compositions.
- The research scripts (`imbalance_edge.py`, the tables of `sweep_grid.py` and
  `dump_sweep.py`) and the C parsers: statistics over a day's file.
- The whole pipeline in one run: the states are the product of the runs above.
  The contracts at the seams are stated instead (legal deltas, `LossyFifo`,
  replays of one frame at most).

## Plan

Proofs next: `InflightIsUnanswered` and `PositionIsFills` of `HostVenue`, by the
walk that `MoldFeed_proof` uses for packets over the venue's messages; they need
`StreamsWhole` first, in a form that gives either end its place in the other's
stream.
