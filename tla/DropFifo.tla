------------------------------ MODULE DropFifo ------------------------------
(***************************************************************************)
(* The elastic FIFO between two stages of the feed                         *)
(* (step5-board/rtl/drop_fifo.sv): a memory with free-running pointers and *)
(* a head register in front of it.  The push side has no ready: a word     *)
(* that finds the memory full is dropped and counted.  One step per clock. *)
(***************************************************************************)
EXTENDS Naturals, Sequences

CONSTANTS Word,        \* what a word carries
          Depth,       \* DEPTH: words of memory
          DropMod      \* drop_cnt counts modulo this (2^32)

(* What the instances must satisfy.                                        *)
DropConstants == Depth \in Nat /\ Depth >= 2 /\ DropMod \in Nat \ {0}

VARIABLES mem, wptr, rptr,
          head,        \* head_valid and the output register
          dropCnt, levelMax,
          given, taken  \* words offered and taken so far, counted outside

fifoVars == <<mem, wptr, rptr, head, dropCnt, levelMax, given, taken>>

(* Pointers carry one bit more than an address.                            *)
PtrMod      == 2 * Depth
Address(p)  == p % Depth
Unread      == <<>>

MemCount == (wptr - rptr + PtrMod) % PtrMod
Level    == MemCount + Len(head)

(* Wrong on purpose: one word of the memory never used, and a pointer that *)
(* does not wrap.                                                          *)
FullTooSoon == MemCount = Depth - 1

NextPtr(p)   == (p + 1) % PtrMod
Full         == MemCount = Depth
Fetch(ready) == MemCount # 0 /\ (head = <<>> \/ ready)

DropInit ==
    /\ mem = [a \in 0..(Depth - 1) |-> Unread]
    /\ wptr = 0 /\ rptr = 0 /\ head = <<>> /\ dropCnt = 0 /\ levelMax = 0
    /\ given = 0 /\ taken = 0

(* One clock: `push' is push_valid and push_data, `ready' is pop_ready.    *)
DropTick(push, ready) ==
    /\ IF push # <<>> /\ ~Full
       THEN mem' = [mem EXCEPT ![Address(wptr)] = push] /\ wptr' = NextPtr(wptr)
       ELSE UNCHANGED <<mem, wptr>>
    /\ dropCnt' = IF push # <<>> /\ Full THEN (dropCnt + 1) % DropMod ELSE dropCnt
    /\ IF Fetch(ready)
       THEN head' = mem[Address(rptr)] /\ rptr' = NextPtr(rptr)
       ELSE head' = (IF ready THEN <<>> ELSE head) /\ UNCHANGED rptr
    /\ levelMax' = IF Level > levelMax THEN Level ELSE levelMax
    /\ given' = (given + Len(push)) % DropMod
    /\ taken' = IF ready THEN (taken + Len(head)) % DropMod ELSE taken

DropNext == \E push \in {<<>>} \cup {<<x>> : x \in Word}, ready \in BOOLEAN :
              DropTick(push, ready)
DropSpec == DropInit /\ [][DropNext]_fifoVars
-----------------------------------------------------------------------------
(* What it holds, oldest first.                                            *)
Stored == head \o [i \in 1..MemCount |-> Head(mem[Address(rptr + i - 1)])]

(* It stores all it has room for ("total capacity is DEPTH + 1"), hands it *)
(* over in order, and counts the rest (drop_fifo.sv: "absorb what you can, *)
(* count what you lose").                                                  *)
Abstract == INSTANCE LossyFifo WITH
    Item <- Word, Capacity <- Depth + 1, Floor <- Depth + 1, CntMod <- DropMod,
    queue <- Stored, lost <- dropCnt
ImplementsLossyFifo == Abstract!Spec

=============================================================================
