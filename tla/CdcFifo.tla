------------------------------ MODULE CdcFifo ------------------------------
(***************************************************************************)
(* The dual-clock FIFO between the MAC clock and the core clock            *)
(* (step5-board/rtl/cdc_fifo.sv).                                          *)
(*                                                                         *)
(* The two clocks are unrelated: a write edge and a read edge happen in    *)
(* any order, or at the same instant.  At the same instant the first       *)
(* synchroniser flop samples a pointer that is changing.  What it may then *)
(* hold depends on how pointers are encoded: the code is a parameter,      *)
(* CrossingAssumption says what the FIFO needs of it, and GrayCode gives   *)
(* it the gray code of the source, sampled bit by bit (module GrayCode).   *)
(***************************************************************************)
EXTENDS Naturals, Sequences

CONSTANTS Beat,      \* what a beat carries: {tdata, tkeep, tlast}
          NoBeat,    \* s_tvalid low, and the contents of unwritten memory
          Depth,     \* DEPTH: words of memory
          SyncFf,    \* SYNC_FF: flops in each synchroniser
          CntMod,    \* drop_cnt counts modulo this (2^32)
          Encode(_), Decode(_),   \* bin2gray and the loop that undoes it
          TopFlipped(_),          \* the code with its top two bits inverted
          Captures(_, _)          \* what sampling old -> new may hold

(* Pointers have one bit more than an address and wrap at twice the depth. *)
PtrSpan     == 2 * Depth
Ptr         == 0..(PtrSpan - 1)
Stage       == 1..SyncFf
Advance(p)  == IF p = PtrSpan - 1 THEN 0 ELSE p + 1
Gap(hi, lo) == IF hi >= lo THEN hi - lo ELSE (hi + PtrSpan) - lo
Slot(p)     == IF p < Depth THEN p ELSE p - Depth

ASSUME DepthAssumption == Depth \in Nat /\ Depth >= 2
ASSUME SyncAssumption  == SyncFf \in Nat /\ SyncFf >= 1
ASSUME CntAssumption   == CntMod \in Nat /\ CntMod >= 1
ASSUME BeatAssumption  == NoBeat \notin Beat
ASSUME CrossingAssumption == \A p \in Ptr :
    /\ Decode(Encode(p)) = p
    /\ TopFlipped(Encode(p)) = Encode(Slot(p) + IF p < Depth THEN Depth ELSE 0)
    /\ Captures(Encode(p), Encode(p)) = {Encode(p)}
    /\ Captures(Encode(p), Encode(Advance(p))) = {Encode(p), Encode(Advance(p))}

VARIABLES
  \* write domain
  wbin,      \* write pointer
  rsync,     \* rg_sync_q: the read pointer on its way here, 1 = newest
  dropCnt, hwm,
  given,     \* beats offered so far; counted by the surroundings
  \* shared
  mem,
  \* read domain
  rbin,      \* read pointer
  wsync,     \* wg_sync_q: the write pointer on its way here, 1 = newest
  rdata, rvalid,   \* the memory's output register
  mdata, mvalid,   \* the output port register
  taken      \* beats taken so far; counted by the surroundings

wvars == <<wbin, rsync, dropCnt, hwm, mem, given>>
rvars == <<rbin, wsync, rdata, rvalid, mdata, mvalid, taken>>
vars  == <<wvars, rvars>>

Shift(pipe, sample) == [i \in Stage |-> IF i = 1 THEN sample ELSE pipe[i - 1]]

RptrW  == Decode(rsync[SyncFf])    \* the reader, as the writer sees it

(* Wrong on purpose, to see the properties fail: a full test that forgets  *)
(* the wrap bits, and an output register that never drains or that ignores *)
(* the stall.                                                              *)
FullUnflipped       == Encode(Advance(wbin)) = rsync[SyncFf]
OutAccStuck(ready)  == ~mvalid
OutAccAlways(ready) == TRUE

Full   == Encode(Advance(wbin)) = TopFlipped(rsync[SyncFf])
Occ    == Gap(wbin, RptrW)
Empty  == Encode(rbin) = wsync[SyncFf]

OutAcc(ready) == ~mvalid \/ ready
RdFree(ready) == ~rvalid \/ OutAcc(ready)

Pop(ready)    == ~Empty /\ RdFree(ready)

Init ==
    /\ wbin = 0 /\ rbin = 0
    /\ rsync = [i \in Stage |-> Encode(0)] /\ wsync = [i \in Stage |-> Encode(0)]
    /\ mem = [s \in 0..(Depth - 1) |-> NoBeat]
    /\ dropCnt = 0 /\ hwm = 0
    /\ rdata = NoBeat /\ rvalid = FALSE
    /\ mdata = NoBeat /\ mvalid = FALSE
    /\ given = 0 /\ taken = 0

(* A posedge of w_clk with s_tvalid = (beat # NoBeat); `seen' is what the  *)
(* first synchroniser flop captures of the read pointer.                   *)
WbinNext(beat) == IF beat # NoBeat /\ ~Full THEN Advance(wbin) ELSE wbin

WriteEdge(beat, seen) ==
    /\ rsync' = Shift(rsync, seen)
    /\ wbin' = WbinNext(beat)
    /\ mem' = IF beat # NoBeat /\ ~Full
              THEN [mem EXCEPT ![Slot(wbin)] = beat] ELSE mem
    /\ dropCnt' = IF beat # NoBeat /\ Full
                  THEN (dropCnt + 1) % CntMod ELSE dropCnt
    /\ hwm' = IF Occ > hwm THEN Occ ELSE hwm
    /\ given' = IF beat # NoBeat THEN (given + 1) % CntMod ELSE given

(* A posedge of r_clk with m_tready = ready.                               *)
RbinNext(ready) == IF Pop(ready) THEN Advance(rbin) ELSE rbin

ReadEdge(ready, seen) ==
    /\ wsync' = Shift(wsync, seen)
    /\ rbin' = RbinNext(ready)
    /\ rdata' = IF Pop(ready) THEN mem[Slot(rbin)] ELSE rdata
    /\ rvalid' = IF RdFree(ready) THEN Pop(ready) ELSE rvalid
    /\ mvalid' = IF OutAcc(ready) THEN rvalid ELSE mvalid
    /\ mdata' = IF OutAcc(ready) /\ rvalid THEN rdata ELSE mdata
    /\ taken' = IF mvalid /\ ready THEN (taken + 1) % CntMod ELSE taken

WriteOnly(beat)  == WriteEdge(beat, Encode(rbin)) /\ UNCHANGED rvars
ReadOnly(ready)  == ReadEdge(ready, Encode(wbin)) /\ UNCHANGED wvars
BothEdges(beat, ready) ==
    \E r \in Captures(Encode(rbin), Encode(RbinNext(ready))),
       w \in Captures(Encode(wbin), Encode(WbinNext(beat))) :
         WriteEdge(beat, r) /\ ReadEdge(ready, w)

Next ==
    \/ \E beat \in Beat \cup {NoBeat} : WriteOnly(beat)
    \/ \E ready \in BOOLEAN : ReadOnly(ready)
    \/ \E beat \in Beat \cup {NoBeat}, ready \in BOOLEAN : BothEdges(beat, ready)

(* Both clocks run for ever, and the reader is ready again and again: in   *)
(* t2t_top m_tready is tied high on the receive side, and on the transmit  *)
(* side it is the MAC's, which always comes back.                          *)
Fairness ==
    /\ WF_vars(\E beat \in Beat \cup {NoBeat} :
                  WriteOnly(beat) \/ \E ready \in BOOLEAN : BothEdges(beat, ready))
    /\ WF_vars(ReadOnly(TRUE) \/ \E beat \in Beat \cup {NoBeat} : BothEdges(beat, TRUE))

SafeSpec == Init /\ [][Next]_vars
Spec == SafeSpec /\ Fairness
-----------------------------------------------------------------------------
Code == {Encode(p) : p \in Ptr}

TypeOK ==
    /\ wbin \in Ptr /\ rbin \in Ptr
    /\ rsync \in [Stage -> Code] /\ wsync \in [Stage -> Code]
    /\ mem \in [0..(Depth - 1) -> Beat \cup {NoBeat}]
    /\ dropCnt \in 0..(CntMod - 1) /\ hwm \in 0..(PtrSpan - 1)
    /\ rdata \in Beat \cup {NoBeat} /\ rvalid \in BOOLEAN
    /\ mdata \in Beat \cup {NoBeat} /\ mvalid \in BOOLEAN
    /\ given \in 0..(CntMod - 1) /\ taken \in 0..(CntMod - 1)

(* The words between the pointers, and the two registers behind them, are  *)
(* the queue of module LossyFifo.                                          *)
Contents ==
    (IF mvalid THEN <<mdata>> ELSE <<>>) \o
    (IF rvalid THEN <<rdata>> ELSE <<>>) \o
    [i \in 1..Gap(wbin, rbin) |-> mem[Slot((rbin + (i - 1)) % PtrSpan)]]

Abstract == INSTANCE LossyFifo WITH
    Item <- Beat, Capacity <- Depth + 1, Floor <- 0,
    queue <- Contents, lost <- dropCnt

(* However the clocks interleave and whichever value each synchroniser     *)
(* captures, accepted beats come out once, unaltered and in order, and     *)
(* every refused beat is counted (cdc_fifo.sv, read side: without explicit *)
(* accounting "a stalled m_tready silently overwrites a word that was      *)
(* never accepted").                                                       *)
ImplementsLossyFifo == Abstract!Spec

(* The pointers and all their delayed copies keep their order around the   *)
(* ring, measured from the oldest one, the reader as the writer sees it:   *)
(* the reader's copies, the reader, the writer's copies, the writer.  The  *)
(* whole chain spans less than the memory.                                 *)
FromOldest(p) == Gap(p, RptrW)
Seen(code)    == FromOldest(Decode(code))

PointerOrder ==
    /\ \A i, j \in Stage : i <= j => /\ Seen(rsync[j]) <= Seen(rsync[i])
                                    /\ Seen(wsync[j]) <= Seen(wsync[i])
    /\ \A i \in Stage : /\ Seen(rsync[i]) <= FromOldest(rbin)
                        /\ FromOldest(rbin) <= Seen(wsync[i])
                        /\ Seen(wsync[i]) <= FromOldest(wbin)
    /\ FromOldest(wbin) <= Depth - 1

(* The next write never lands on a word the reader has yet to fetch, and   *)
(* the reader never fetches a word not yet written: the reason the payload *)
(* memory needs no synchroniser (cdc_fifo.sv: "safe only because the       *)
(* pointer handshake guarantees ...").                                     *)
NoOverrun ==
    /\ ~Full => Gap(wbin, rbin) < Depth - 1
    /\ ~Empty => Gap(wbin, rbin) > 0

(* The high-water mark is an over-statement but never a wrapped huge value *)
(* (cdc_fifo.sv: "-257 showed up as 4294967039").                          *)
HwmSound == Gap(wbin, rbin) <= Occ /\ Occ <= Depth - 1 /\ hwm <= Depth - 1

(* Pessimism is temporary: a writer that sees a full FIFO sees room again  *)
(* (cdc_fifo.sv: conservatism "shows up as unused depth, not as lost       *)
(* data").                                                                 *)
FullClears == Full ~> ~Full
=============================================================================
