---------------------------- MODULE ControlPath ----------------------------
(***************************************************************************)
(* The control plane, from the host's register map to the datapath:        *)
(* session.configure and regmap.Device on the host, the AXI4-Lite register *)
(* file (axil_regfile.sv), and the crossing of the committed configuration *)
(* and of the order acknowledgements to the core clock (cfg_cdc.sv).  A    *)
(* byte has Byte values and a nibble Nibble; the two clocks are            *)
(* independent, and where their edges coincide a signal that changes may   *)
(* be sampled old or new.                                                  *)
(***************************************************************************)
EXTENDS Integers, FiniteSets, SequencesExt, TLC

CONSTANTS
  Byte, Nibble,           \* values of 8 and of 4 bits
  Blank, A, P, N,         \* ord of ' ', 'A', 'P' and 'N'
  Settings,               \* what configure and the board's program are called with
  NSYM, SYM_MAX,          \* symbols the build tracks, and the map has room for
  SYNC_FF, Spacing,       \* synchronizer stages; core cycles between two pulses
  MaxCommits, MaxAcks     \* bounds on the host's calls

ASSUME ControlAssumption ==
    /\ Byte = Nibble * Nibble /\ {Blank, A, P, N} \subseteq 0..Byte - 1
    /\ NSYM \in 1..SYM_MAX
    /\ SYNC_FF \in Nat \ {0} /\ Spacing \in Nat /\ Spacing >= SYNC_FF + 1

Word == Byte ^ 4

(************************* regmap.py: the word map *************************)
REGS == <<
  <<"cfg_group_ip", 4>>, <<"cfg_udp_port", 2>>, <<"cfg_track_locate", 2>>, <<"cfg_band_base", 4>>,
  <<"cfg_enable", 1>>, <<"cfg_max_spread", 4>>, <<"cfg_ratio_shift", 1>>, <<"cfg_min_qty", 4>>,
  <<"cfg_order_qty", 4>>, <<"cfg_pos_limit", 4>>, <<"cfg_max_inflight", 2>>, <<"cfg_sweep_en", 1>>,
  <<"cfg_sweep_min_levels", 4>>, <<"cfg_sweep_gap", 6>>, <<"cfg_token_prefix", 6>>, <<"cfg_stock", 8>>,
  <<"cfg_firm", 4>>, <<"cfg_tif", 4>>, <<"cfg_ouch_min_qty", 4>>, <<"cfg_display", 1>>,
  <<"cfg_capacity", 1>>, <<"cfg_sweep", 1>>, <<"cfg_cross", 1>>, <<"cfg_cust", 1>>,
  <<"cfg_dst_mac", 6>>, <<"cfg_src_mac", 6>>, <<"cfg_src_ip", 4>>, <<"cfg_dst_ip", 4>>,
  <<"cfg_src_port", 2>>, <<"cfg_dst_port", 2>>, <<"cfg_init_seq", 4>>, <<"cfg_ack_num", 4>>,
  <<"cfg_window", 2>>, <<"cfg_init_id", 2>>, <<"cfg_igmp_en", 1>>, <<"cfg_igmp_interval", 4>>,
  <<"cfg_group_ip_b", 4>> >>

Names    == [i \in DOMAIN REGS |-> REGS[i][1]]
RegNames == ToSet(Names)
Place    == [n \in RegNames |-> CHOOSE i \in DOMAIN REGS : REGS[i][1] = n]
Width(n) == REGS[Place[n]][2]
Words(n) == IF Width(n) <= 4 THEN 1 ELSE 2

idx[i \in 0..Len(REGS)] == IF i = 0 THEN 0 ELSE idx[i - 1] + Words(Names[i])
WORD_OFFSET == [n \in RegNames |-> [k \in 1..Words(n) |-> 4 * (idx[Place[n] - 1] + k - 1)]]
NCFG        == idx[Len(REGS)]

CTRL_OFFSET        == 4 * NCFG
RTO_EN_OFFSET      == CTRL_OFFSET + 8
RTO_CYCLES_OFFSET  == CTRL_OFFSET + 12
RTO_RETRIES_OFFSET == CTRL_OFFSET + 16
SYM_BASE           == 192
SYM_STRIDE         == 16
CTRL_LOAD          == 1
CTRL_ORDER_ACK     == 2

sym_offsets(k) ==
    LET b == SYM_BASE + SYM_STRIDE * (k - 1) IN
    IF k = 0 THEN << WORD_OFFSET["cfg_track_locate"][1], WORD_OFFSET["cfg_band_base"][1],
                     WORD_OFFSET["cfg_stock"][1], WORD_OFFSET["cfg_stock"][2] >>
    ELSE <<b, b + 4, b + 8, b + 12>>

reg_words(n, value) ==
    [k \in 1..Words(n) |-> <<WORD_OFFSET[n][k], (value \div Word ^ (k - 1)) % Word>>]

axil_writes(r) == FlattenSeq([i \in DOMAIN REGS |-> reg_words(Names[i], r[Names[i]])])

BigEndian(bytes) == FoldLeft(LAMBDA v, b : v * Byte + b, 0, bytes)
ip2int(bytes)    == BigEndian(bytes)
mac2int(bytes)   == BigEndian(bytes)
ascii_le(s, n)   == BigEndian(Reverse([i \in 1..n |-> IF i <= Len(s) THEN s[i] ELSE Blank]))

Fits(n, value) == value \in 0..Byte ^ Width(n) - 1

(********************* session.py: what configure writes *******************)
Flag(b) == IF b THEN 1 ELSE 0

Arguments(s) == [
  cfg_group_ip |-> ip2int(s.group_ip), cfg_udp_port |-> s.udp_port,
  cfg_track_locate |-> s.track_locate, cfg_band_base |-> s.band_base,
  cfg_max_spread |-> s.max_spread, cfg_ratio_shift |-> s.ratio_shift, cfg_min_qty |-> s.min_qty,
  cfg_order_qty |-> s.order_qty, cfg_pos_limit |-> s.pos_limit, cfg_max_inflight |-> s.max_inflight,
  cfg_sweep_en |-> Flag(s.sweep_en), cfg_sweep_min_levels |-> s.sweep_min_levels,
  cfg_sweep_gap |-> s.sweep_gap, cfg_token_prefix |-> ascii_le(s.token_prefix, 6),
  cfg_stock |-> ascii_le(s.stock, 8), cfg_firm |-> ascii_le(s.firm, 4),
  cfg_tif |-> 0, cfg_ouch_min_qty |-> 0, cfg_display |-> A, cfg_capacity |-> P,
  cfg_sweep |-> N, cfg_cross |-> N, cfg_cust |-> N,
  cfg_dst_mac |-> mac2int(s.dst_mac), cfg_src_mac |-> mac2int(s.src_mac),
  cfg_src_ip |-> ip2int(s.src_ip), cfg_dst_ip |-> ip2int(s.dst_ip),
  cfg_src_port |-> s.src_port, cfg_dst_port |-> s.dst_port, cfg_init_seq |-> s.init_seq,
  cfg_ack_num |-> s.ack_num, cfg_window |-> s.window, cfg_init_id |-> s.init_id,
  cfg_igmp_en |-> Flag(s.igmp_en), cfg_igmp_interval |-> s.igmp_interval,
  cfg_group_ip_b |-> ip2int(IF s.group_ip_b = <<>> THEN s.group_ip ELSE s.group_ip_b) ]

\* configure writes every register but the kill switch, in the map's order
Written == SelectSeq(Names, LAMBDA n : n # "cfg_enable")

\* the first value that does not fit raises, and the writes before it stay
FirstRefused(args) == SelectInSeq(Written, LAMBDA n : ~Fits(n, args[n]))
Configured(r, args) ==
    LET stop == FirstRefused(args)
        done == IF stop = 0 THEN ToSet(Written) ELSE ToSet(SubSeq(Written, 1, stop - 1))
    IN  [n \in RegNames |-> IF n \in done THEN args[n] ELSE r[n]]

(*************** t2t_run.cpp: the words above the configuration ************)
UnusedSym == [locate |-> Byte ^ 2 - 1, base |-> 0, stock |-> ascii_le(<<>>, 8)]
SymOf(s, k) == IF k <= Len(s.syms) THEN s.syms[k] ELSE UnusedSym

SymWords(s, k) ==
    LET at == sym_offsets(k)
        y  == SymOf(s, k)
    IN  << <<at[1], y.locate>>, <<at[2], y.base>>,
           <<at[3], y.stock % Word>>, <<at[4], y.stock \div Word>> >>
SymWrites(s) ==
    LET slots == [k \in 1..SYM_MAX - 1 |-> k]
        Block(Test(_)) == FlattenSeq([i \in DOMAIN SelectSeq(slots, Test) |->
                                        SymWords(s, SelectSeq(slots, Test)[i])])
    IN  Block(LAMBDA k : k > Len(s.syms)) \o Block(LAMBDA k : k <= Len(s.syms))
RtoWrites(s) == << <<RTO_CYCLES_OFFSET, s.rto>>, <<RTO_RETRIES_OFFSET, s.rto_retries>>,
                   <<RTO_EN_OFFSET, Flag(s.rto # 0)>> >>

CommitStream(r, s) ==
    axil_writes(r) \o SymWrites(s) \o RtoWrites(s) \o << <<CTRL_OFFSET, CTRL_LOAD>> >>

(******************** axil_regfile.sv: the words as ports ******************)
B2 == Byte ^ 2
B4 == Byte ^ 4
B6 == Byte ^ 6
B8 == Byte ^ 8

PORTS == <<
  <<"cfg_group_ip", 0, B4>>, <<"cfg_udp_port", 1, B2>>, <<"cfg_track_locate", 2, B2>>,
  <<"cfg_band_base", 3, B4>>, <<"cfg_enable", 4, 2>>, <<"cfg_max_spread", 5, B4>>,
  <<"cfg_ratio_shift", 6, Nibble>>, <<"cfg_min_qty", 7, B4>>, <<"cfg_order_qty", 8, B4>>,
  <<"cfg_pos_limit", 9, B4>>, <<"cfg_max_inflight", 10, B2>>, <<"cfg_sweep_en", 11, 2>>,
  <<"cfg_sweep_min_levels", 12, B4>>, <<"cfg_sweep_gap", 13, B6>>, <<"cfg_token_prefix", 15, B6>>,
  <<"cfg_stock", 17, B8>>, <<"cfg_firm", 19, B4>>, <<"cfg_tif", 20, B4>>,
  <<"cfg_ouch_min_qty", 21, B4>>, <<"cfg_display", 22, Byte>>, <<"cfg_capacity", 23, Byte>>,
  <<"cfg_sweep", 24, Byte>>, <<"cfg_cross", 25, Byte>>, <<"cfg_cust", 26, Byte>>,
  <<"cfg_dst_mac", 27, B6>>, <<"cfg_src_mac", 29, B6>>, <<"cfg_src_ip", 31, B4>>,
  <<"cfg_dst_ip", 32, B4>>, <<"cfg_src_port", 33, B2>>, <<"cfg_dst_port", 34, B2>>,
  <<"cfg_init_seq", 35, B4>>, <<"cfg_ack_num", 36, B4>>, <<"cfg_window", 37, B2>>,
  <<"cfg_init_id", 38, B2>>, <<"cfg_igmp_en", 39, 2>>, <<"cfg_igmp_interval", 40, B4>>,
  <<"cfg_group_ip_b", 41, B4>> >>

A_CTRL        == 42
A_RTO_EN      == 44
A_RTO_CYCLES  == 45
A_RTO_RETRIES == 46
RTL_NCFG      == 47
A_SYM         == 48

is_cfg(i) == i < RTL_NCFG \/ (i >= A_SYM /\ i < A_SYM + 4 * (SYM_MAX - 1))

\* a port is the low bits of its word, or of its two words
Slice(c, at, size) == (c[at] + IF size > Word THEN Word * c[at + 1] ELSE 0) % size

Ports(c) ==
  [ reg |-> [n \in {PORTS[i][1] : i \in DOMAIN PORTS} |->
               LET port == PORTS[CHOOSE i \in DOMAIN PORTS : PORTS[i][1] = n]
               IN  Slice(c, port[2], port[3])],
    sym |-> [k \in 1..NSYM - 1 |->
               LET at == A_SYM + 4 * (k - 1)
               IN  [locate |-> Slice(c, at, B2), base |-> Slice(c, at + 1, B4),
                    stock |-> Slice(c, at + 2, B8)]],
    rto |-> [en |-> Slice(c, A_RTO_EN, 2), cycles |-> Slice(c, A_RTO_CYCLES, B4),
             retries |-> Slice(c, A_RTO_RETRIES, Nibble)] ]

\* the same, as the host means it
Meant(r, s) ==
  [ reg |-> r, sym |-> [k \in 1..NSYM - 1 |-> SymOf(s, k)],
    rto |-> [en |-> Flag(s.rto # 0), cycles |-> s.rto, retries |-> s.rto_retries] ]

(****************************** the system *********************************)
VARIABLES
  regs, ready, setting,   \* Device.regs; configure returned; what it was called with
  stream,                 \* <<offset, word>>: the writes the host has still to make
  cfgw, pulse, bvalid,    \* the register file: words, registered pulses, response
  snap, tog,              \* cfg_cdc: the committed bus; pulse_sync: the toggles
  sync, dst_data,         \* core clock: synchronizer stages, the configuration in use
  meant, acks,            \* the configurations committed, acknowledgements pulsed
  loads, ackSeen,         \* what the core has seen of each
  quiet                   \* core cycles since the last pulse, up to Spacing

hostVars == <<regs, ready, setting>>
axilVars == <<stream, cfgw, pulse, bvalid, snap, tog, meant, acks>>
coreVars == <<sync, dst_data, loads, ackSeen>>
vars     == <<hostVars, axilVars, coreVars, quiet>>

Kinds   == {"load", "ack"}
NoPulse == [k \in Kinds |-> FALSE]
Zeros   == [i \in 0..63 |-> 0]

Init ==
    /\ regs = [n \in RegNames |-> 0] /\ ready = FALSE /\ setting \in Settings
    /\ stream = <<>> /\ cfgw = Zeros /\ pulse = NoPulse /\ bvalid = FALSE
    /\ snap = Ports(Zeros) /\ dst_data = Ports(Zeros)
    /\ tog = NoPulse /\ sync = [k \in Kinds |-> [i \in 0..SYNC_FF |-> FALSE]]
    /\ meant = <<>> /\ acks = 0 /\ loads = 0 /\ ackSeen = 0
    /\ quiet = Spacing

(******************************** the host *********************************)
Configure(s) ==
    /\ stream = <<>> /\ Len(meant) < MaxCommits
    /\ regs' = Configured(regs, Arguments(s))
    /\ ready' = (FirstRefused(Arguments(s)) = 0) /\ setting' = s
    /\ UNCHANGED <<axilVars, coreVars, quiet>>

SwitchTrading(on) ==                        \* Device.write("cfg_enable", ...)
    /\ stream = <<>> /\ ready /\ Len(meant) < MaxCommits
    /\ regs' = [regs EXCEPT !["cfg_enable"] = Flag(on)]
    /\ UNCHANGED <<ready, setting, axilVars, coreVars, quiet>>

Commit ==
    /\ stream = <<>> /\ ready /\ Len(meant) < MaxCommits
    /\ stream' = CommitStream(regs, setting)
    /\ UNCHANGED <<hostVars, cfgw, pulse, bvalid, snap, tog, meant, acks, coreVars, quiet>>

OrderAck ==
    /\ stream = <<>> /\ acks < MaxAcks
    /\ stream' = << <<CTRL_OFFSET, CTRL_ORDER_ACK>> >>
    /\ UNCHANGED <<hostVars, cfgw, pulse, bvalid, snap, tog, meant, acks, coreVars, quiet>>

(*************************** one AXI-Lite clock ****************************)
widx(w) == w[1] \div 4

\* pulses are software events, further apart than the synchronizer is deep
do_wr == /\ stream # <<>> /\ ~bvalid
         /\ widx(Head(stream)) = A_CTRL => quiet = Spacing

PulsesOf(w) == [k \in Kinds |-> /\ widx(w) = A_CTRL
                                /\ IF k = "load" THEN w[2] % 2 = 1 ELSE (w[2] \div 2) % 2 = 1]

WriteWord(w) ==
    /\ cfgw' = IF is_cfg(widx(w)) THEN [cfgw EXCEPT ![widx(w)] = w[2]] ELSE cfgw
    /\ pulse' = PulsesOf(w) /\ bvalid' = TRUE /\ stream' = Tail(stream)
    /\ meant' = IF pulse'["load"] THEN Append(meant, Meant(regs, setting)) ELSE meant
    /\ acks' = acks + Flag(pulse'["ack"])

\* as written if a response were never taken
WriteNothingHeld ==
    /\ pulse' = NoPulse
    /\ UNCHANGED <<stream, cfgw, bvalid, meant, acks>>

WriteNothing ==
    /\ pulse' = NoPulse /\ bvalid' = FALSE
    /\ UNCHANGED <<stream, cfgw, meant, acks>>

\* as written without the snapshot: the bus crosses as it is being written
SnapshotAlways == Ports(cfgw)

Snapshot == IF pulse["load"] THEN Ports(cfgw) ELSE snap

\* as written with a level in place of a toggle
Raised == [k \in Kinds |-> tog[k] \/ pulse[k]]

Toggled == [k \in Kinds |-> tog[k] # pulse[k]]

AxilEdge(offer) ==
    /\ IF offer /\ do_wr THEN WriteWord(Head(stream)) ELSE WriteNothing
    /\ snap' = Snapshot
    /\ tog' = Toggled

(***************************** one core clock ******************************)
dst_pulse(k) == sync[k][SYNC_FF] # sync[k][SYNC_FF - 1]

CoreEdge(seenTog, seenSnap) ==
    /\ sync' = [k \in Kinds |-> [i \in 0..SYNC_FF |-> IF i = 0 THEN seenTog[k] ELSE sync[k][i - 1]]]
    /\ dst_data' = IF dst_pulse("load") THEN seenSnap ELSE dst_data
    /\ loads' = loads + Flag(dst_pulse("load"))
    /\ ackSeen' = ackSeen + Flag(dst_pulse("ack"))

\* what an edge that meets a change may sample: each toggle old or new, and a
\* register of the bus, once it is looked at, old or new
Toggles(old, new) == {t \in [Kinds -> BOOLEAN] : \A k \in Kinds : t[k] \in {old[k], new[k]}}
Torn(old, new) ==
    IF ~dst_pulse("load") THEN {old}
    ELSE LET moved == {n \in DOMAIN old.reg : old.reg[n] # new.reg[n]}
         IN  {[reg |-> [n \in DOMAIN old.reg |-> (IF n \in S THEN old ELSE new).reg[n]],
               sym |-> y, rto |-> r] :
                S \in SUBSET moved, y \in {old.sym, new.sym}, r \in {old.rto, new.rto}}

Silent(p) == p = NoPulse
Longer == IF quiet < Spacing THEN quiet + 1 ELSE quiet

AxilTick(offer) ==
    /\ AxilEdge(offer)
    /\ quiet' = IF Silent(pulse) /\ Silent(pulse') THEN quiet ELSE 0
    /\ UNCHANGED <<hostVars, coreVars>>

CoreTick ==
    /\ CoreEdge(tog, snap)
    /\ quiet' = IF Silent(pulse) THEN Longer ELSE quiet
    /\ UNCHANGED <<hostVars, axilVars>>

BothTick(offer) ==
    /\ AxilEdge(offer)
    /\ \E t \in Toggles(tog, tog'), b \in Torn(snap, snap') : CoreEdge(t, b)
    /\ quiet' = IF Silent(pulse) /\ Silent(pulse') THEN Longer ELSE 0
    /\ UNCHANGED hostVars

Next ==
    \/ \E s \in Settings : Configure(s)
    \/ \E on \in BOOLEAN : SwitchTrading(on)
    \/ Commit \/ OrderAck
    \/ \E offer \in BOOLEAN : AxilTick(offer) \/ BothTick(offer)
    \/ CoreTick

\* both clocks run, and a write the driver has to make is offered until taken
Fairness == /\ WF_vars(AxilTick(TRUE) \/ BothTick(TRUE))
            /\ WF_vars(CoreTick \/ \E offer \in BOOLEAN : BothTick(offer))

Spec == Init /\ [][Next]_vars /\ Fairness

(******************************* properties ********************************)
\* At every moment the core works with exactly the configuration the host meant
\* by one commit, the last the core was told of: every register of the map at
\* its word, put together from both words where it is wide, none from an earlier
\* configuration or from the one the host is already writing, and nothing of a
\* configure that raised halfway.
CoreHasOneCommit ==
    dst_data = IF loads = 0 THEN Ports(Zeros) ELSE meant[loads]

\* Once the synchronizer's depth has passed since the last pulse, every commit
\* and every acknowledgement the host pulsed has been seen by the core exactly
\* once; before that at most one of them is on its way.
EachPulseOnce ==
    /\ quiet = Spacing => loads = Len(meant) /\ ackSeen = acks
    /\ Len(meant) - loads \in {0, 1} /\ acks - ackSeen \in {0, 1}

\* Whatever the host has started to write reaches the core in the end.
AllArrives == <>[](stream = <<>> /\ loads = Len(meant) /\ ackSeen = acks)

(******************* the instance that is model-checked ********************)
First == [ group_ip |-> <<3, 0, 1, 2>>, udp_port |-> 7, track_locate |-> 9, band_base |-> 200,
  max_spread |-> 20, ratio_shift |-> 1, min_qty |-> 10, order_qty |-> 11, pos_limit |-> 100,
  max_inflight |-> 5, sweep_en |-> TRUE, sweep_min_levels |-> 3, sweep_gap |-> 1234,
  token_prefix |-> <<1, 2, 1>>, stock |-> <<1, 1, 2, 0>>, firm |-> <<2>>,
  dst_mac |-> <<1, 2, 3, 0, 1, 2>>, src_mac |-> <<3, 2, 1, 1, 2, 3>>,
  src_ip |-> <<1, 0, 0, 2>>, dst_ip |-> <<1, 0, 0, 3>>, src_port |-> 4, dst_port |-> 14,
  init_seq |-> 50, ack_num |-> 60, window |-> 15, init_id |-> 6, igmp_en |-> TRUE,
  igmp_interval |-> 77, group_ip_b |-> <<>>, rto |-> 40, rto_retries |-> 1,
  syms |-> << [locate |-> 8, base |-> 150, stock |-> 4321] >> ]

\* another venue session and a single symbol; and one that configure refuses
Second == [First EXCEPT !.sweep_gap = 2345, !.init_seq = 90, !.group_ip_b = <<3, 0, 1, 3>>,
                        !.rto = 0, !.syms = <<>>]
TooWide == [Second EXCEPT !.pos_limit = Byte ^ 4]

MCSettings == {First, Second, TooWide}
=============================================================================
