----------------------------- MODULE OrderTable -----------------------------
(***************************************************************************)
(* The order table of the book (step4a-order-table/rtl/order_table.sv,     *)
(* otable_mem.sv), one step per core clock: a set-associative memory from  *)
(* order reference to order with a registered read, the state machine in   *)
(* front of it and the sweep that clears it after reset.                   *)
(*                                                                         *)
(* A register with a valid bit is a sequence of length 0 or 1, and so is a *)
(* way of a set.  hash() is a constant: which references share a set is    *)
(* what matters of it.  A register no later state reads before it is       *)
(* written again goes back to its reset value when the message is done.    *)
(***************************************************************************)
EXTENDS Integers, Sequences, FiniteSets, FiniteSetsExt

CONSTANTS Sym,         \* the tracked locates
          Ref,         \* order references
          NSets, Ways, \* geometry
          Hash,        \* [Ref -> Sets]
          RdLat,       \* read latency of the memory, in cycles
          Junk,        \* what the memory may hold at power-up
          OvfMod, MissMod \* the two counters count modulo these (2^32)

Sets == 0..(NSets - 1)
Way  == 0..(Ways - 1)

ASSUME TableAssumption ==
    /\ {NSets, Ways, RdLat, MissMod} \subseteq Nat \ {0} /\ OvfMod \in Nat /\ OvfMod > 1
    /\ Hash \in [Ref -> Sets]

VARIABLES
  mem,       \* [Sets -> [Way -> <<>> or <<entry>>]]
  rdPipe,    \* the sets on their way out of the memory, the oldest last
  state, rdWait,
  msg,       \* m, the latched message
  set0, set1,
  sel,       \* sel_*: what LOOK found
  old,       \* old_*: the order a replace removed, and its way
  freeU,     \* selu_free_*: a way for the replacing order, or none
  clrBusy, clrAddr,
  delta,     \* o_valid and the book-delta record
  overflowCnt, missCnt

tableVars == <<mem, rdPipe, state, rdWait, msg, set0, set1, sel, old, freeU,
               clrBusy, clrAddr, delta, overflowCnt, missCnt>>

EmptySet == [w \in Way |-> <<>>]
rdq      == rdPipe[RdLat]
Executes == {"E", "C", "X"}

(* ---- the lookup over the set that was read ----                         *)
Matches(ref) == {w \in Way : rdq[w] # <<>> /\ Head(rdq[w]).ref = ref}
FreeWays     == {w \in Way : rdq[w] = <<>>}
First(S)     == IF S = {} THEN <<>> ELSE <<Min(S)>>

(* A replacing order may take the way its old order leaves, if the two     *)
(* share a set.                                                            *)
FreeForReplace == FreeWays \cup IF set1 = set0 THEN {old.way} ELSE {}

sReady   == state = "IDLE" /\ ~clrBusy

Tracked(m) == m.loc \in Sym

(* ---- what EXEC and U_EXEC store ----                                    *)
Entry(ref, side, price, qty, sym) ==
    [ref |-> ref, side |-> side, price |-> price, qty |-> qty, sym |-> sym]

(* Wrong on purpose: an order taken to nothing stays.                      *)
ReducedBelow(e, shares) == IF e.qty < shares THEN <<>> ELSE <<[e EXCEPT !.qty = @ - shares]>>

Reduced(e, shares) == IF e.qty <= shares THEN <<>> ELSE <<[e EXCEPT !.qty = @ - shares]>>

(* <<set, way, contents>> or nothing.                                      *)
Write ==
    IF state = "EXEC" THEN
      CASE msg.type \in {"A", "F"} ->
             IF Tracked(msg) /\ sel.free # <<>>
             THEN <<[set |-> set0, way |-> Head(sel.free),
                     data |-> <<Entry(msg.ref, msg.side, msg.price, msg.shares, msg.loc)>>]>>
             ELSE <<>>
        [] msg.type \in {"D", "U"} ->
             IF sel.hit # <<>> THEN <<[set |-> set0, way |-> Head(sel.hit), data |-> <<>>]>>
             ELSE <<>>
        [] msg.type \in Executes ->
             IF sel.hit # <<>>
             THEN <<[set |-> set0, way |-> Head(sel.hit), data |-> Reduced(sel.ent, msg.shares)]>>
             ELSE <<>>
        [] OTHER -> <<>>
    ELSE IF state = "U_EXEC" /\ freeU # <<>>
    THEN <<[set |-> set1, way |-> Head(freeU),
            data |-> <<Entry(msg.newRef, old.ent.side, msg.price, msg.shares, old.ent.sym)>>]>>
    ELSE <<>>

(* The clear sweep owns the write port: it writes every way of one set and *)
(* no table write lands.  One cycle past the last set, the address wraps.  *)
StepMemory ==
    /\ mem' = IF clrBusy THEN [mem EXCEPT ![clrAddr % NSets] = EmptySet]
              ELSE IF Write = <<>> THEN mem
              ELSE LET w == Head(Write) IN [mem EXCEPT ![w.set][w.way] = w.data]
    /\ rdPipe' = [i \in 1..RdLat |->
                    IF i > 1 THEN rdPipe[i - 1]
                    ELSE mem[IF state = "U_LOOK" THEN set1 ELSE set0]]
    /\ clrAddr' = IF clrBusy THEN clrAddr + 1 ELSE clrAddr
    /\ clrBusy' = (clrBusy /\ clrAddr # NSets)

(* ---- the record put out ----                                            *)
Delta(type, sym, side, rem, add, ts) ==
    <<[type |-> type, sym |-> sym, side |-> side, rem |-> rem, add |-> add, ts |-> ts]>>

Level(price, qty) == <<[price |-> price, qty |-> qty]>>

(* Wrong on purpose: what the message takes, not what was there.           *)
ExecDeltaUncapped ==
    CASE msg.type \in {"A", "F"} ->
           IF Tracked(msg) /\ sel.free # <<>>
           THEN Delta(msg.type, msg.loc, msg.side, <<>>, Level(msg.price, msg.shares), msg.ts)
           ELSE <<>>
      [] msg.type \in Executes \cup {"D"} /\ sel.hit # <<>> ->
           Delta(msg.type, sel.ent.sym, sel.ent.side,
                 Level(sel.ent.price, IF msg.type = "D" THEN sel.ent.qty ELSE msg.shares),
                 <<>>, msg.ts)
      [] OTHER -> <<>>

ExecDelta ==
    CASE msg.type \in {"A", "F"} ->
           IF Tracked(msg) /\ sel.free # <<>>
           THEN Delta(msg.type, msg.loc, msg.side, <<>>, Level(msg.price, msg.shares), msg.ts)
           ELSE <<>>
      [] msg.type \in Executes \cup {"D"} /\ sel.hit # <<>> ->
           LET taken == IF msg.type = "D" \/ sel.ent.qty < msg.shares
                        THEN sel.ent.qty ELSE msg.shares
           IN  Delta(msg.type, sel.ent.sym, sel.ent.side,
                     Level(sel.ent.price, taken), <<>>, msg.ts)
      [] OTHER -> <<>>

(* Wrong on purpose: the new order at the old price.                       *)
ReplaceDeltaInPlace ==
    Delta("U", old.ent.sym, old.ent.side, Level(old.ent.price, old.ent.qty),
          Level(old.ent.price, msg.shares), msg.ts)

ReplaceDelta ==
    Delta("U", old.ent.sym, old.ent.side, Level(old.ent.price, old.ent.qty),
          Level(msg.price, msg.shares), msg.ts)

Count(c, mod, b) == IF b THEN (c + 1) % mod ELSE c

(* ---- the state machine ----                                             *)
NothingFound == [hit |-> <<>>, ent |-> <<>>, free |-> <<>>]
NothingOld   == [ent |-> <<>>, way |-> 0]

Done ==
    /\ state' = "IDLE" /\ rdWait' = 0 /\ msg' = <<>> /\ set0' = 0 /\ set1' = 0
    /\ sel' = NothingFound /\ old' = NothingOld /\ freeU' = <<>>

(* IDLE takes whatever is presented; it does not ask sReady.               *)
Accept(presented) ==
    /\ state = "IDLE"
    /\ IF presented = <<>> THEN UNCHANGED <<state, msg, set0, rdWait>>
       ELSE /\ msg' = Head(presented)
            /\ set0' = Hash[Head(presented).ref]
            /\ rdWait' = RdLat
            /\ state' = "LOOK"
    /\ delta' = <<>>
    /\ UNCHANGED <<set1, sel, old, freeU, overflowCnt, missCnt>>

Wait ==
    /\ state \in {"LOOK", "U_LOOK"} /\ rdWait # 0
    /\ rdWait' = rdWait - 1
    /\ delta' = <<>>
    /\ UNCHANGED <<state, msg, set0, set1, sel, old, freeU, overflowCnt, missCnt>>

Look ==
    /\ state = "LOOK" /\ rdWait = 0
    /\ sel' = [hit |-> First(Matches(msg.ref)),
               ent |-> IF Matches(msg.ref) = {} THEN <<>>
                       ELSE Head(rdq[Min(Matches(msg.ref))]),
               free |-> First(FreeWays)]
    /\ state' = "EXEC"
    /\ delta' = <<>>
    /\ UNCHANGED <<rdWait, msg, set0, set1, old, freeU, overflowCnt, missCnt>>

(* A replace of a known order has removed it and goes on to find a way for *)
(* the new one; every other message is done.                               *)
Exec ==
    /\ state = "EXEC"
    /\ delta' = ExecDelta
    /\ overflowCnt' = Count(overflowCnt, OvfMod,
           msg.type \in {"A", "F"} /\ Tracked(msg) /\ sel.free = <<>>)
    /\ missCnt' = Count(missCnt, MissMod,
           msg.type \in Executes \cup {"D", "U"} /\ sel.hit = <<>>)
    /\ IF msg.type = "U" /\ sel.hit # <<>>
       THEN /\ old' = [ent |-> sel.ent, way |-> Head(sel.hit)]
            /\ set1' = Hash[msg.newRef]
            /\ rdWait' = RdLat
            /\ state' = "U_LOOK"
            /\ UNCHANGED <<msg, set0, freeU>>
            /\ sel' = NothingFound
       ELSE Done

LookForReplace ==
    /\ state = "U_LOOK" /\ rdWait = 0
    /\ freeU' = First(FreeForReplace)
    /\ state' = "U_EXEC"
    /\ delta' = <<>>
    /\ UNCHANGED <<rdWait, msg, set0, set1, sel, old, overflowCnt, missCnt>>

(* The record goes out whether or not the new order found a way.           *)
ExecReplace ==
    /\ state = "U_EXEC"
    /\ overflowCnt' = Count(overflowCnt, OvfMod, freeU = <<>>)
    /\ delta' = ReplaceDelta
    /\ Done
    /\ UNCHANGED missCnt

TableTick(presented) ==
    /\ StepMemory
    /\ Accept(presented) \/ Wait \/ Look \/ Exec \/ LookForReplace \/ ExecReplace

(* At reset the memory holds anything and the clear sweep starts.          *)
TableInit ==
    /\ mem \in [Sets -> [Way -> {<<>>} \cup {<<j>> : j \in Junk}]]
    /\ rdPipe = [i \in 1..RdLat |-> EmptySet]
    /\ state = "IDLE" /\ rdWait = 0 /\ msg = <<>> /\ set0 = 0 /\ set1 = 0
    /\ sel = NothingFound /\ old = NothingOld /\ freeU = <<>>
    /\ clrBusy = TRUE /\ clrAddr = 0
    /\ delta = <<>> /\ overflowCnt = 0 /\ missCnt = 0
=============================================================================
