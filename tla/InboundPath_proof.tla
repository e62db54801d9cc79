--------------------------- MODULE InboundPath_proof ---------------------------
(***************************************************************************)
(* Proofs about the inbound path of the order session and the FIFO on it.  *)
(*                                                                         *)
(* The FIFO (CdcFifo): for every depth, every number of synchroniser flops *)
(* and every pointer code that satisfies CrossingAssumption, it loses and  *)
(* reorders nothing it does not count.                                     *)
(*                                                                         *)
(* The path (SessionIn): for every stream of replies, every way to cut and *)
(* send it, every FIFO that holds a frame and every capture area, what the *)
(* card acknowledges is kept and the orders pass untouched.                *)
(***************************************************************************)
EXTENDS SessionIn, CdcFifo, SequenceTheorems, WellFoundedInduction, TLAPS

(****************************** the FIFO ***********************************)

(* Arithmetic of pointers on the ring.                                     *)
LEMMA PtrFacts ==
    /\ 0 \in Ptr
    /\ \A p \in Ptr : Advance(p) \in Ptr /\ Slot(p) \in 0..(Depth - 1)
BY DepthAssumption DEF Ptr, PtrSpan, Advance, Slot

LEMMA GapRange == \A a, o \in Ptr : Gap(a, o) \in 0..(PtrSpan - 1)
BY DepthAssumption DEF Ptr, PtrSpan, Gap

LEMMA GapSelf == \A o \in Ptr : Gap(o, o) = 0
BY DepthAssumption DEF Ptr, PtrSpan, Gap

LEMMA GapSame == \A a, b, o \in Ptr : Gap(a, o) = Gap(b, o) => a = b
BY DepthAssumption DEF Ptr, PtrSpan, Gap

LEMMA GapAdvance ==
    \A a, o \in Ptr : Gap(a, o) < PtrSpan - 1 => Gap(Advance(a), o) = Gap(a, o) + 1
BY DepthAssumption DEF Ptr, PtrSpan, Gap, Advance

(* Distances measured from a later origin all shrink by the same amount.   *)
LEMMA GapShift ==
    \A a, o, n \in Ptr : Gap(n, o) <= Gap(a, o) => Gap(a, n) = Gap(a, o) - Gap(n, o)
BY DepthAssumption DEF Ptr, PtrSpan, Gap

(* The code loses nothing, so comparing codes compares pointers.           *)
LEMMA CodeFacts ==
    /\ \A p \in Ptr : Encode(p) \in Code /\ Decode(Encode(p)) = p
    /\ \A c \in Code : Decode(c) \in Ptr /\ Encode(Decode(c)) = c
    /\ \A p, o \in Ptr : Encode(p) = Encode(o) => p = o
<1>1. \A p \in Ptr : Encode(p) \in Code /\ Decode(Encode(p)) = p
  BY CrossingAssumption DEF Code
<1>2. \A c \in Code : \E p \in Ptr : c = Encode(p)
  BY DEF Code
<1>3. \A c \in Code : Decode(c) \in Ptr /\ Encode(Decode(c)) = c
  BY <1>1, <1>2
<1>4. \A p, o \in Ptr : Encode(p) = Encode(o) => p = o
  BY <1>1
<1> QED BY <1>1, <1>3, <1>4
-----------------------------------------------------------------------------
(* The gray comparison finds the FIFO full exactly when all but one word   *)
(* of the memory lies between the write pointer and the reader as seen.    *)
LEMMA FullMeans ==
    ASSUME TypeOK
    PROVE  /\ RptrW \in Ptr
           /\ Full <=> Gap(wbin, RptrW) = Depth - 1
<1> DEFINE r == RptrW
           opposite == Slot(r) + IF r < Depth THEN Depth ELSE 0
<1>1. SyncFf \in Stage
  BY SyncAssumption DEF Stage
<1>2. rsync[SyncFf] \in Code /\ wbin \in Ptr
  BY <1>1 DEF TypeOK
<1>3. r \in Ptr /\ rsync[SyncFf] = Encode(r)
  BY <1>2, CodeFacts DEF RptrW
<1>4. TopFlipped(rsync[SyncFf]) = Encode(opposite)
  BY <1>3, CrossingAssumption
<1>5. opposite \in Ptr
  BY <1>3, DepthAssumption DEF Ptr, PtrSpan, Slot
<1>6. Full <=> Advance(wbin) = opposite
  BY <1>2, <1>4, <1>5, CodeFacts, PtrFacts DEF Full
<1>7. Advance(wbin) = opposite <=> Gap(wbin, r) = Depth - 1
  BY <1>2, <1>3, DepthAssumption DEF Advance, Gap, Slot, Ptr, PtrSpan
<1> QED BY <1>3, <1>6, <1>7

(* What a pointer may be captured as, whether or not it moves.             *)
LEMMA CapturedOldOrNew ==
    \A p, o \in Ptr : o \in {p, Advance(p)} =>
        Captures(Encode(p), Encode(o)) \subseteq {Encode(p), Encode(o)}
BY CrossingAssumption

LEMMA NextPointers ==
    ASSUME TypeOK
    PROVE  /\ \A beat : WbinNext(beat) \in {wbin, Advance(wbin)}
           /\ \A ready : RbinNext(ready) \in {rbin, Advance(rbin)}
           /\ \A beat : WbinNext(beat) \in Ptr
           /\ \A ready : RbinNext(ready) \in Ptr
BY PtrFacts DEF TypeOK, WbinNext, RbinNext

(* What every step of either clock does to the pointers: each side moves   *)
(* by its own rule or not at all, and shifts in the other side's old or    *)
(* new pointer or does not shift.                                          *)
PointerStep ==
    /\ wbin' = wbin \/ (wbin' = Advance(wbin) /\ ~Full)
    /\ rbin' = rbin \/ (rbin' = Advance(rbin) /\ ~Empty)
    /\ \/ rsync' = rsync
       \/ \E s \in {Encode(rbin), Encode(rbin')} : rsync' = Shift(rsync, s)
    /\ \/ wsync' = wsync
       \/ \E s \in {Encode(wbin), Encode(wbin')} : wsync' = Shift(wsync, s)

LEMMA NextIsPointerStep ==
    ASSUME TypeOK, [Next]_vars
    PROVE  PointerStep
<1>1. \A beat, seen : WriteEdge(beat, seen) =>
        /\ wbin' = WbinNext(beat)
        /\ wbin' = wbin \/ (wbin' = Advance(wbin) /\ ~Full)
        /\ rsync' = Shift(rsync, seen)
  BY DEF WriteEdge, WbinNext
<1>2. \A ready, seen : ReadEdge(ready, seen) =>
        /\ rbin' = RbinNext(ready)
        /\ rbin' = rbin \/ (rbin' = Advance(rbin) /\ ~Empty)
        /\ wsync' = Shift(wsync, seen)
  BY DEF ReadEdge, RbinNext, Pop
<1>3. CASE \E beat \in Beat \cup {NoBeat} : WriteOnly(beat)
  BY <1>1, <1>3 DEF WriteOnly, rvars, PointerStep
<1>4. CASE \E ready \in BOOLEAN : ReadOnly(ready)
  BY <1>2, <1>4 DEF ReadOnly, wvars, PointerStep
<1>5. CASE \E beat \in Beat \cup {NoBeat}, ready \in BOOLEAN : BothEdges(beat, ready)
  <2>1. PICK beat \in Beat \cup {NoBeat}, ready \in BOOLEAN : BothEdges(beat, ready)
    BY <1>5
  <2>2. PICK r \in Captures(Encode(rbin), Encode(RbinNext(ready))),
             w \in Captures(Encode(wbin), Encode(WbinNext(beat))) :
               WriteEdge(beat, r) /\ ReadEdge(ready, w)
    BY <2>1 DEF BothEdges
  <2>3. wbin \in Ptr /\ rbin \in Ptr
    BY DEF TypeOK
  <2>4. r \in {Encode(rbin), Encode(RbinNext(ready))}
    BY <2>2, <2>3, CapturedOldOrNew, NextPointers
  <2>5. w \in {Encode(wbin), Encode(WbinNext(beat))}
    BY <2>2, <2>3, CapturedOldOrNew, NextPointers
  <2> QED BY <1>1, <1>2, <2>2, <2>4, <2>5 DEF PointerStep
<1>6. CASE UNCHANGED vars
  BY <1>6 DEF vars, wvars, rvars, PointerStep
<1> QED BY <1>3, <1>4, <1>5, <1>6 DEF Next
-----------------------------------------------------------------------------
LEMMA ShiftType ==
    ASSUME NEW pipe \in [Stage -> Code], NEW sample \in Code
    PROVE  Shift(pipe, sample) \in [Stage -> Code]
<1>1. \A i \in Stage : i # 1 => i - 1 \in Stage
  BY SyncAssumption DEF Stage
<1> QED BY <1>1 DEF Shift

(* Every register keeps its width and its kind of contents.                *)
LEMMA InitType == Init => TypeOK
<1> SUFFICES ASSUME Init PROVE TypeOK
  OBVIOUS
<1>1. Encode(0) \in Code /\ 0 \in Ptr
  BY PtrFacts, CodeFacts
<1>2. 0 \in 0..(CntMod - 1) /\ 0 \in 0..(PtrSpan - 1)
  BY DepthAssumption, CntAssumption DEF PtrSpan
<1>3. wbin \in Ptr /\ rbin \in Ptr
  BY <1>1 DEF Init
<1>4. rsync \in [Stage -> Code] /\ wsync \in [Stage -> Code]
  BY <1>1 DEF Init
<1>5. mem \in [0..(Depth - 1) -> Beat \cup {NoBeat}]
  BY DEF Init
<1>6. /\ dropCnt \in 0..(CntMod - 1) /\ hwm \in 0..(PtrSpan - 1)
      /\ given \in 0..(CntMod - 1) /\ taken \in 0..(CntMod - 1)
  BY <1>2 DEF Init
<1>7. /\ rdata \in Beat \cup {NoBeat} /\ rvalid \in BOOLEAN
      /\ mdata \in Beat \cup {NoBeat} /\ mvalid \in BOOLEAN
  BY DEF Init
<1> QED BY <1>3, <1>4, <1>5, <1>6, <1>7 DEF TypeOK

LEMMA NextType ==
    ASSUME TypeOK, [Next]_vars
    PROVE  TypeOK'
<1>1. wbin' \in Ptr /\ rbin' \in Ptr
  <2>1. wbin \in Ptr /\ rbin \in Ptr
    BY DEF TypeOK
  <2>2. Advance(wbin) \in Ptr /\ Advance(rbin) \in Ptr
    BY <2>1, PtrFacts
  <2> QED BY <2>1, <2>2, NextIsPointerStep DEF PointerStep
<1>2. rsync' \in [Stage -> Code] /\ wsync' \in [Stage -> Code]
  <2>1. rsync \in [Stage -> Code] /\ wsync \in [Stage -> Code]
        /\ wbin \in Ptr /\ rbin \in Ptr
    BY DEF TypeOK
  <2>2. \A s \in {Encode(rbin), Encode(rbin'), Encode(wbin), Encode(wbin')} : s \in Code
    BY <1>1, <2>1, CodeFacts
  <2> QED BY <2>1, <2>2, ShiftType, NextIsPointerStep DEF PointerStep
<1>3. ASSUME NEW beat \in Beat \cup {NoBeat}, NEW seen, WriteEdge(beat, seen)
      PROVE  /\ mem' \in [0..(Depth - 1) -> Beat \cup {NoBeat}]
             /\ dropCnt' \in 0..(CntMod - 1) /\ hwm' \in 0..(PtrSpan - 1)
             /\ given' \in 0..(CntMod - 1)
  <2>1. \A n \in 0..(CntMod - 1) : (n + 1) % CntMod \in 0..(CntMod - 1)
    BY CntAssumption
  <2>2. Occ \in 0..(PtrSpan - 1)
    BY FullMeans, GapRange DEF Occ, TypeOK
  <2> QED BY <1>3, <2>1, <2>2 DEF WriteEdge, TypeOK
<1>4. ASSUME NEW ready \in BOOLEAN, NEW seen, ReadEdge(ready, seen)
      PROVE  /\ rdata' \in Beat \cup {NoBeat} /\ rvalid' \in BOOLEAN
             /\ mdata' \in Beat \cup {NoBeat} /\ mvalid' \in BOOLEAN
             /\ taken' \in 0..(CntMod - 1)
  <2>3. \A n \in 0..(CntMod - 1) : (n + 1) % CntMod \in 0..(CntMod - 1)
    BY CntAssumption
  <2>1. mem[Slot(rbin)] \in Beat \cup {NoBeat}
    BY PtrFacts DEF TypeOK
  <2>2. Pop(ready) \in BOOLEAN
    BY DEF Pop, Empty, RdFree
  <2> QED BY <1>4, <2>1, <2>2, <2>3 DEF ReadEdge, TypeOK
<1>5. CASE \E beat \in Beat \cup {NoBeat} : WriteOnly(beat)
  BY <1>1, <1>2, <1>3, <1>5 DEF WriteOnly, rvars, TypeOK
<1>6. CASE \E ready \in BOOLEAN : ReadOnly(ready)
  BY <1>1, <1>2, <1>4, <1>6 DEF ReadOnly, wvars, TypeOK
<1>7. CASE \E beat \in Beat \cup {NoBeat}, ready \in BOOLEAN : BothEdges(beat, ready)
  BY <1>1, <1>2, <1>3, <1>4, <1>7 DEF BothEdges, TypeOK
<1>8. CASE UNCHANGED vars
  BY <1>8 DEF vars, wvars, rvars, TypeOK
<1> QED BY <1>5, <1>6, <1>7, <1>8 DEF Next

(* The FIFO's registers are well typed in every reachable state.           *)
THEOREM TypeCorrect == Spec => []TypeOK
<1>1. Init => TypeOK
  BY InitType
<1>2. TypeOK /\ [Next]_vars => TypeOK'
  BY NextType
<1> QED BY <1>1, <1>2, PTL DEF Spec, SafeSpec
-----------------------------------------------------------------------------
(* The pointers of the next state, with distances still measured from the  *)
(* origin of this one, are in order: one clock's step moves every pointer  *)
(* towards its successor and never past it.                                *)
LEMMA OrderFromOldOrigin ==
    ASSUME TypeOK, TypeOK', PointerOrder, PointerStep
    PROVE  /\ \A i, j \in Stage : i <= j =>
                  /\ Seen(rsync'[j]) <= Seen(rsync'[i])
                  /\ Seen(wsync'[j]) <= Seen(wsync'[i])
           /\ \A i \in Stage : /\ Seen(rsync'[i]) <= FromOldest(rbin')
                               /\ FromOldest(rbin') <= Seen(wsync'[i])
                               /\ Seen(wsync'[i]) <= FromOldest(wbin')
           /\ FromOldest(wbin') <= Depth - 1
<1> DEFINE d(p) == FromOldest(p)
<1>1. /\ wbin \in Ptr /\ rbin \in Ptr /\ wbin' \in Ptr /\ rbin' \in Ptr /\ RptrW \in Ptr
      /\ \A i \in Stage : rsync[i] \in Code /\ wsync[i] \in Code
  BY FullMeans DEF TypeOK
<1>2. /\ \A p \in Ptr : d(p) \in Nat
      /\ \A i \in Stage : Seen(rsync[i]) \in Nat /\ Seen(wsync[i]) \in Nat
  BY <1>1, GapRange, CodeFacts, DepthAssumption DEF FromOldest, Seen, PtrSpan
<1>3. SyncFf \in Stage /\ \A i \in Stage : i \in Nat /\ i <= SyncFf /\ (i # 1 => i - 1 \in Stage)
  BY SyncAssumption DEF Stage
<1>4. /\ d(wbin) <= d(wbin') /\ d(wbin') <= Depth - 1
  <2>1. CASE wbin' = wbin
    BY <2>1, <1>2, <1>1 DEF PointerOrder
  <2>2. CASE wbin' = Advance(wbin) /\ ~Full
    <3>1. d(wbin) # Depth - 1 /\ d(wbin) <= Depth - 1
      BY <2>2, FullMeans DEF PointerOrder, FromOldest
    <3>2. d(wbin) < PtrSpan - 1
      BY <3>1, <1>1, <1>2, DepthAssumption DEF PtrSpan
    <3>3. d(wbin') = d(wbin) + 1
      BY <2>2, <3>2, <1>1, GapAdvance DEF FromOldest
    <3> QED BY <3>1, <3>3, <1>1, <1>2, DepthAssumption
  <2> QED BY <2>1, <2>2 DEF PointerStep
<1>5. d(rbin) <= d(rbin') /\ d(rbin') <= Seen(wsync[SyncFf])
  <2>1. CASE rbin' = rbin
    BY <2>1, <1>1, <1>2, <1>3 DEF PointerOrder
  <2>2. CASE rbin' = Advance(rbin) /\ ~Empty
    <3> DEFINE w == Decode(wsync[SyncFf])
    <3>1. w \in Ptr /\ Encode(w) = wsync[SyncFf]
      BY <1>1, <1>3, CodeFacts
    <3>2. rbin # w
      BY <2>2, <3>1 DEF Empty
    <3>3. d(rbin) # d(w)
      BY <1>1, <3>1, <3>2, GapSame DEF FromOldest
    <3>4. d(rbin) <= d(w) /\ d(w) <= d(wbin) /\ d(wbin) <= Depth - 1
      BY <1>3 DEF PointerOrder, Seen
    <3>5. d(rbin) < PtrSpan - 1
      BY <3>3, <3>4, <1>1, <1>2, <3>1, DepthAssumption DEF PtrSpan
    <3>6. d(rbin') = d(rbin) + 1
      BY <2>2, <3>5, <1>1, GapAdvance DEF FromOldest
    <3> QED BY <3>3, <3>4, <3>6, <1>1, <1>2, <3>1 DEF Seen
  <2> QED BY <2>1, <2>2 DEF PointerStep
<1>6. /\ \A i, j \in Stage : i <= j => Seen(rsync'[j]) <= Seen(rsync'[i])
      /\ \A i \in Stage : Seen(rsync'[i]) <= d(rbin')
  <2>1. CASE rsync' = rsync
    BY <2>1, <1>1, <1>2, <1>5 DEF PointerOrder
  <2>2. CASE \E s \in {Encode(rbin), Encode(rbin')} : rsync' = Shift(rsync, s)
    <3>1. PICK s \in {Encode(rbin), Encode(rbin')} : rsync' = Shift(rsync, s)
      BY <2>2
    <3>2. d(rbin) <= Seen(s) /\ Seen(s) <= d(rbin') /\ Seen(s) \in Nat
      BY <1>1, <1>2, <1>5, CodeFacts DEF Seen
    <3>3. \A i \in Stage : rsync'[i] = IF i = 1 THEN s ELSE rsync[i - 1]
      BY <3>1 DEF Shift
    <3>4. \A i \in Stage : i # 1 => Seen(rsync[i - 1]) <= d(rbin) /\ Seen(rsync[i - 1]) \in Nat
      BY <1>2, <1>3 DEF PointerOrder
    <3>5. \A i \in Stage : Seen(rsync'[i]) <= d(rbin')
      BY <3>2, <3>3, <3>4, <1>1, <1>2, <1>5
    <3>6. ASSUME NEW i \in Stage, NEW j \in Stage, i <= j
          PROVE  Seen(rsync'[j]) <= Seen(rsync'[i])
      <4>1. CASE i = 1 /\ j = 1
        BY <4>1, <3>2, <3>3
      <4>2. CASE i = 1 /\ j # 1
        BY <4>2, <3>2, <3>3, <3>4, <1>1, <1>2
      <4>3. CASE i # 1
        <5>1. j # 1 /\ i - 1 \in Stage /\ j - 1 \in Stage /\ i - 1 <= j - 1
          BY <4>3, <3>6, <1>3 DEF Stage
        <5> QED BY <4>3, <5>1, <3>3 DEF PointerOrder
      <4> QED BY <4>1, <4>2, <4>3
    <3> QED BY <3>5, <3>6
  <2> QED BY <2>1, <2>2 DEF PointerStep
<1>7. /\ \A i, j \in Stage : i <= j => Seen(wsync'[j]) <= Seen(wsync'[i])
      /\ \A i \in Stage : d(rbin') <= Seen(wsync'[i]) /\ Seen(wsync'[i]) <= d(wbin')
  <2>0. \A i \in Stage : d(rbin') <= Seen(wsync[i]) /\ Seen(wsync[i]) <= d(wbin)
    <3>1. \A i \in Stage : Seen(wsync[SyncFf]) <= Seen(wsync[i])
      BY <1>3 DEF PointerOrder
    <3> QED BY <3>1, <1>1, <1>2, <1>3, <1>5 DEF PointerOrder
  <2>1. CASE wsync' = wsync
    BY <2>0, <2>1, <1>1, <1>2, <1>4 DEF PointerOrder
  <2>2. CASE \E s \in {Encode(wbin), Encode(wbin')} : wsync' = Shift(wsync, s)
    <3>1. PICK s \in {Encode(wbin), Encode(wbin')} : wsync' = Shift(wsync, s)
      BY <2>2
    <3>2. d(wbin) <= Seen(s) /\ Seen(s) <= d(wbin') /\ Seen(s) \in Nat
      BY <1>1, <1>2, <1>4, CodeFacts DEF Seen
    <3>3. \A i \in Stage : wsync'[i] = IF i = 1 THEN s ELSE wsync[i - 1]
      BY <3>1 DEF Shift
    <3>4. \A i \in Stage : i # 1 => /\ d(rbin') <= Seen(wsync[i - 1])
                                    /\ Seen(wsync[i - 1]) <= d(wbin)
                                    /\ Seen(wsync[i - 1]) \in Nat
      BY <2>0, <1>2, <1>3
    <3>5. d(rbin') <= d(wbin)
      BY <2>0, <1>1, <1>2, <1>3
    <3>6. \A i \in Stage : d(rbin') <= Seen(wsync'[i]) /\ Seen(wsync'[i]) <= d(wbin')
      BY <3>2, <3>3, <3>4, <3>5, <1>1, <1>2, <1>4
    <3>7. ASSUME NEW i \in Stage, NEW j \in Stage, i <= j
          PROVE  Seen(wsync'[j]) <= Seen(wsync'[i])
      <4>1. CASE i = 1 /\ j = 1
        BY <4>1, <3>2, <3>3
      <4>2. CASE i = 1 /\ j # 1
        BY <4>2, <3>2, <3>3, <3>4, <1>1, <1>2
      <4>3. CASE i # 1
        <5>1. j # 1 /\ i - 1 \in Stage /\ j - 1 \in Stage /\ i - 1 <= j - 1
          BY <4>3, <3>7, <1>3 DEF Stage
        <5> QED BY <4>3, <5>1, <3>3 DEF PointerOrder
      <4> QED BY <4>1, <4>2, <4>3
    <3> QED BY <3>6, <3>7
  <2> QED BY <2>1, <2>2 DEF PointerStep
<1> QED BY <1>4, <1>6, <1>7

LEMMA NextOrder ==
    ASSUME TypeOK, TypeOK', PointerOrder, PointerStep
    PROVE  PointerOrder'
<1> DEFINE o == RptrW
           n == RptrW'
<1>1. /\ o \in Ptr /\ n \in Ptr /\ wbin' \in Ptr /\ rbin' \in Ptr
      /\ \A i \in Stage : rsync'[i] \in Code /\ wsync'[i] \in Code
      /\ \A i \in Stage : Decode(rsync'[i]) \in Ptr /\ Decode(wsync'[i]) \in Ptr
  <2>1. SyncFf \in Stage
    BY SyncAssumption DEF Stage
  <2> QED BY <2>1, FullMeans, CodeFacts DEF TypeOK, RptrW
<1>2. \A p \in Ptr : Gap(p, o) \in Nat /\ Gap(p, n) \in Nat
  BY <1>1, GapRange, DepthAssumption DEF PtrSpan
<1>3. SyncFf \in Stage /\ \A i \in Stage : i <= SyncFf
  BY SyncAssumption DEF Stage
<1>4. n = Decode(rsync'[SyncFf])
  BY DEF RptrW
<1>5. /\ \A i, j \in Stage : i <= j =>
            /\ Gap(Decode(rsync'[j]), o) <= Gap(Decode(rsync'[i]), o)
            /\ Gap(Decode(wsync'[j]), o) <= Gap(Decode(wsync'[i]), o)
      /\ \A i \in Stage : /\ Gap(Decode(rsync'[i]), o) <= Gap(rbin', o)
                          /\ Gap(rbin', o) <= Gap(Decode(wsync'[i]), o)
                          /\ Gap(Decode(wsync'[i]), o) <= Gap(wbin', o)
      /\ Gap(wbin', o) <= Depth - 1
  BY OrderFromOldOrigin DEF FromOldest, Seen
<1>6. /\ Gap(n, o) <= Gap(rbin', o) /\ Gap(n, o) <= Gap(wbin', o)
      /\ \A i \in Stage : /\ Gap(n, o) <= Gap(Decode(rsync'[i]), o)
                          /\ Gap(n, o) <= Gap(Decode(wsync'[i]), o)
  BY <1>1, <1>2, <1>3, <1>4, <1>5
<1>7. /\ Gap(rbin', n) = Gap(rbin', o) - Gap(n, o)
      /\ Gap(wbin', n) = Gap(wbin', o) - Gap(n, o)
      /\ \A i \in Stage :
            /\ Gap(Decode(rsync'[i]), n) = Gap(Decode(rsync'[i]), o) - Gap(n, o)
            /\ Gap(Decode(wsync'[i]), n) = Gap(Decode(wsync'[i]), o) - Gap(n, o)
  BY <1>1, <1>6, GapShift
<1>8. /\ \A i, j \in Stage : i <= j =>
            /\ Gap(Decode(rsync'[j]), n) <= Gap(Decode(rsync'[i]), n)
            /\ Gap(Decode(wsync'[j]), n) <= Gap(Decode(wsync'[i]), n)
      /\ \A i \in Stage : /\ Gap(Decode(rsync'[i]), n) <= Gap(rbin', n)
                          /\ Gap(rbin', n) <= Gap(Decode(wsync'[i]), n)
                          /\ Gap(Decode(wsync'[i]), n) <= Gap(wbin', n)
      /\ Gap(wbin', n) <= Depth - 1
  BY <1>1, <1>2, <1>5, <1>7, DepthAssumption
<1> QED BY <1>8 DEF PointerOrder, FromOldest, Seen

LEMMA InitOrder == Init => PointerOrder
<1> SUFFICES ASSUME Init PROVE PointerOrder
  OBVIOUS
<1>1. RptrW = 0
  <2>1. SyncFf \in Stage
    BY SyncAssumption DEF Stage
  <2> QED BY <2>1, PtrFacts, CodeFacts DEF Init, RptrW
<1>2. FromOldest(rbin) = 0 /\ FromOldest(wbin) = 0
  BY <1>1, PtrFacts, GapSelf DEF Init, FromOldest
<1>3. \A i \in Stage : Seen(rsync[i]) = 0 /\ Seen(wsync[i]) = 0
  BY <1>1, PtrFacts, CodeFacts, GapSelf DEF Init, Seen, FromOldest
<1> QED BY <1>2, <1>3, DepthAssumption DEF PointerOrder

LEMMA OrderInvariant == Spec => [](TypeOK /\ PointerOrder)
<1>1. Init => TypeOK /\ PointerOrder
  BY InitType, InitOrder
<1>2. TypeOK /\ PointerOrder /\ [Next]_vars => (TypeOK /\ PointerOrder)'
  BY NextType, NextIsPointerStep, NextOrder
<1> QED BY <1>1, <1>2, PTL DEF Spec, SafeSpec

(* However the clocks interleave and whatever value each synchroniser      *)
(* captures, the copies of the pointers stay in order behind the pointers  *)
(* and the chain from the oldest copy to the writer is shorter than the    *)
(* memory (cdc_fifo.sv, both synchronisers and w_full).                    *)
THEOREM PointersStayInOrder == Spec => []PointerOrder
<1>1. TypeOK /\ PointerOrder => PointerOrder
  OBVIOUS
<1> QED BY <1>1, OrderInvariant, PTL

LEMMA DistanceToReader ==
    ASSUME TypeOK, PointerOrder
    PROVE  /\ Gap(wbin, rbin) = FromOldest(wbin) - FromOldest(rbin)
           /\ FromOldest(rbin) \in Nat /\ FromOldest(wbin) \in Nat
           /\ FromOldest(rbin) <= FromOldest(wbin)
<1>1. wbin \in Ptr /\ rbin \in Ptr /\ RptrW \in Ptr
  BY FullMeans DEF TypeOK
<1>2. FromOldest(rbin) \in Nat /\ FromOldest(wbin) \in Nat
  BY <1>1, GapRange, DepthAssumption DEF FromOldest, PtrSpan
<1>3. FromOldest(rbin) <= FromOldest(wbin)
  <2>1. 1 \in Stage
    BY SyncAssumption DEF Stage
  <2>2. Decode(wsync[1]) \in Ptr
    BY <2>1, CodeFacts DEF TypeOK
  <2>3. Seen(wsync[1]) \in Nat
    BY <1>1, <2>2, GapRange, DepthAssumption DEF Seen, FromOldest, PtrSpan
  <2> QED BY <1>2, <2>1, <2>3 DEF PointerOrder
<1> QED BY <1>1, <1>2, <1>3, GapShift DEF FromOldest

(* A writer that sees room has it, a reader that sees a word has it.       *)
LEMMA OrderPreventsOverrun ==
    ASSUME TypeOK, PointerOrder
    PROVE  NoOverrun
<1>1. ~Full => Gap(wbin, rbin) < Depth - 1
  <2>1. ~Full => FromOldest(wbin) # Depth - 1
    BY FullMeans DEF FromOldest
  <2> QED BY <2>1, DistanceToReader, DepthAssumption DEF PointerOrder
<1>2. ~Empty => Gap(wbin, rbin) > 0
  <2> SUFFICES ASSUME ~Empty, Gap(wbin, rbin) = 0 PROVE FALSE
    BY DistanceToReader
  <2> DEFINE w == Decode(wsync[SyncFf])
  <2>1. SyncFf \in Stage
    BY SyncAssumption DEF Stage
  <2>2. w \in Ptr /\ Encode(w) = wsync[SyncFf] /\ rbin \in Ptr /\ RptrW \in Ptr
    BY <2>1, CodeFacts, FullMeans DEF TypeOK
  <2>3. FromOldest(w) \in Nat
    BY <2>2, GapRange, DepthAssumption DEF FromOldest, PtrSpan
  <2>4. FromOldest(rbin) <= FromOldest(w) /\ FromOldest(w) <= FromOldest(wbin)
    BY <2>1 DEF PointerOrder, Seen
  <2>5. FromOldest(w) = FromOldest(rbin)
    BY <2>3, <2>4, DistanceToReader
  <2>6. w = rbin
    BY <2>2, <2>5, GapSame DEF FromOldest
  <2> QED BY <2>2, <2>6 DEF Empty
<1> QED BY <1>1, <1>2 DEF NoOverrun

(* A write never lands on a word the reader has yet to fetch, and a fetch  *)
(* never takes a word not yet written, for every depth.                    *)
THEOREM NeverOverrun == Spec => []NoOverrun
<1>1. TypeOK /\ PointerOrder => NoOverrun
  BY OrderPreventsOverrun
<1> QED BY <1>1, OrderInvariant, PTL

(* The occupancy the watermark records never under-states the queue and    *)
(* never wraps past the memory.                                            *)
THEOREM HighWaterMarkSound == Spec => []HwmSound
<1>1. TypeOK /\ PointerOrder => Gap(wbin, rbin) <= Occ /\ Occ <= Depth - 1
  BY DistanceToReader DEF PointerOrder, Occ, FromOldest
<1>2. Init => hwm <= Depth - 1
  BY DepthAssumption DEF Init
<1>3. TypeOK /\ PointerOrder /\ hwm <= Depth - 1 /\ [Next]_vars => (hwm <= Depth - 1)'
  <2> SUFFICES ASSUME TypeOK, PointerOrder, hwm <= Depth - 1, [Next]_vars
               PROVE  hwm' <= Depth - 1
    OBVIOUS
  <2>1. \A beat, seen : WriteEdge(beat, seen) => hwm' <= Depth - 1
    BY <1>1 DEF WriteEdge
  <2>2. CASE \E beat \in Beat \cup {NoBeat} : WriteOnly(beat)
    BY <2>1, <2>2 DEF WriteOnly
  <2>3. CASE \E ready \in BOOLEAN : ReadOnly(ready)
    BY <2>3 DEF ReadOnly, wvars
  <2>4. CASE \E beat \in Beat \cup {NoBeat}, ready \in BOOLEAN : BothEdges(beat, ready)
    BY <2>1, <2>4 DEF BothEdges
  <2>5. CASE UNCHANGED vars
    BY <2>5 DEF vars, wvars
  <2> QED BY <2>2, <2>3, <2>4, <2>5 DEF Next
<1>4. TypeOK /\ PointerOrder /\ hwm <= Depth - 1 => HwmSound
  BY <1>1 DEF HwmSound
<1> QED BY <1>2, <1>3, <1>4, OrderInvariant, PTL DEF Spec, SafeSpec
-----------------------------------------------------------------------------
(* The words in memory, n of them from read pointer r on.                  *)
At(r, i)       == Slot((r + (i - 1)) % PtrSpan)
Words(m, r, n) == [i \in 1..n |-> m[At(r, i)]]
Live(m, r, n)  == \A i \in 1..n : m[At(r, i)] \in Beat
Written(new, m, w, x) == new = [m EXCEPT ![Slot(w)] = x]

LEMMA AtFacts ==
    ASSUME NEW r \in Ptr, NEW i \in 1..PtrSpan
    PROVE  /\ (r + (i - 1)) % PtrSpan = IF r + (i - 1) < PtrSpan THEN r + (i - 1)
                                        ELSE r + (i - 1) - PtrSpan
           /\ (r + (i - 1)) % PtrSpan \in Ptr
<1> DEFINE x == r + (i - 1)
<1>1. PtrSpan \in Nat \ {0} /\ x \in Int /\ 0 <= x /\ x < 2 * PtrSpan
  BY DepthAssumption DEF Ptr, PtrSpan
<1>2. x % PtrSpan = IF x < PtrSpan THEN x ELSE x - PtrSpan
  <2> HIDE DEF x
  <2> QED BY <1>1
<1> QED BY <1>1, <1>2 DEF Ptr

LEMMA AtMovesOn ==
    ASSUME NEW r \in Ptr, NEW i \in 1..(Depth - 1)
    PROVE  At(Advance(r), i) = At(r, i + 1)
<1>1. i \in 1..PtrSpan /\ i + 1 \in 1..PtrSpan /\ (i + 1) - 1 = i /\ i \in Nat
      /\ Advance(r) \in Ptr
  BY DepthAssumption, PtrFacts DEF PtrSpan
<1>2. (Advance(r) + (i - 1)) % PtrSpan =
        IF Advance(r) + (i - 1) < PtrSpan THEN Advance(r) + (i - 1)
        ELSE Advance(r) + (i - 1) - PtrSpan
  BY <1>1, AtFacts
<1>3. (r + i) % PtrSpan = IF r + i < PtrSpan THEN r + i ELSE r + i - PtrSpan
  BY <1>1, AtFacts
<1>4. (Advance(r) + (i - 1)) % PtrSpan = (r + i) % PtrSpan
  <2>1. CASE r = PtrSpan - 1
    BY <1>1, <1>2, <1>3, <2>1, DepthAssumption DEF Advance, Ptr, PtrSpan
  <2>2. CASE r # PtrSpan - 1
    BY <1>1, <1>2, <1>3, <2>2, DepthAssumption DEF Advance, Ptr, PtrSpan
  <2> QED BY <2>1, <2>2
<1> QED BY <1>1, <1>4 DEF At

LEMMA AtFirst == \A r \in Ptr : At(r, 1) = Slot(r)
<1> SUFFICES ASSUME NEW r \in Ptr PROVE At(r, 1) = Slot(r)
  OBVIOUS
<1>1. 1 \in 1..PtrSpan /\ r + (1 - 1) = r /\ r < PtrSpan
  BY DepthAssumption DEF Ptr, PtrSpan
<1>2. (r + (1 - 1)) % PtrSpan = r
  BY <1>1, AtFacts
<1> QED BY <1>2 DEF At

LEMMA AtWrite ==
    ASSUME NEW w \in Ptr, NEW r \in Ptr, NEW n, n = Gap(w, r), n < Depth
    PROVE  /\ n \in Nat /\ Slot(w) \in 0..(Depth - 1)
           /\ At(r, n + 1) = Slot(w)
           /\ \A i \in 1..n : At(r, i) \in 0..(Depth - 1) /\ At(r, i) # Slot(w)
<1>1. n \in Nat /\ n \in 0..(PtrSpan - 1) /\ n = IF w >= r THEN w - r ELSE (w + PtrSpan) - r
  <2>1. n \in 0..(PtrSpan - 1)
    BY GapRange
  <2> QED BY <2>1, DepthAssumption DEF PtrSpan, Gap
<1>2. /\ Depth \in Nat /\ PtrSpan = 2 * Depth /\ w \in 0..(2 * Depth - 1) /\ r \in 0..(2 * Depth - 1)
  BY DepthAssumption DEF Ptr, PtrSpan
<1>3. At(r, n + 1) = Slot(w)
  <2>1. n + 1 \in 1..PtrSpan /\ (n + 1) - 1 = n
    BY <1>1, <1>2
  <2>2. (r + n) % PtrSpan = IF r + n < PtrSpan THEN r + n ELSE r + n - PtrSpan
    BY <2>1, AtFacts
  <2>3. (r + n) % PtrSpan = w
    BY <1>1, <1>2, <2>2
  <2> QED BY <2>1, <2>3 DEF At
<1>4. ASSUME NEW i \in 1..n
      PROVE  At(r, i) \in 0..(Depth - 1) /\ At(r, i) # Slot(w)
  <2> DEFINE p == (r + (i - 1)) % PtrSpan
  <2>1. i \in 1..PtrSpan /\ i \in Nat
    BY <1>1, <1>2
  <2>2. p \in Ptr /\ p = IF r + (i - 1) < PtrSpan THEN r + (i - 1) ELSE r + (i - 1) - PtrSpan
    BY <2>1, AtFacts
  <2> HIDE DEF p
  <2>3. p \in 0..(2 * Depth - 1)
    BY <1>2, <2>2 DEF Ptr
  <2>4. p # w /\ p # w + Depth /\ p + Depth # w
    BY <1>1, <1>2, <2>1, <2>2
  <2>5. Slot(p) # Slot(w)
    BY <1>2, <2>3, <2>4 DEF Slot
  <2>6. Slot(p) \in 0..(Depth - 1)
    BY <2>2, PtrFacts
  <2> QED BY <2>5, <2>6 DEF At, p
<1> QED BY <1>1, <1>3, <1>4, PtrFacts

LEMMA WordsAreSequence ==
    ASSUME NEW m, NEW r, NEW n \in Nat, Live(m, r, n)
    PROVE  Words(m, r, n) \in Seq(Beat) /\ Len(Words(m, r, n)) = n
<1>1. Words(m, r, n) \in [1..n -> Beat]
  BY DEF Words, Live
<1> QED BY <1>1

(* The first word leaves.                                                  *)
LEMMA WordsPop ==
    ASSUME NEW m, NEW r \in Ptr, NEW n \in 1..Depth, Live(m, r, n)
    PROVE  /\ m[Slot(r)] \in Beat
           /\ Live(m, Advance(r), n - 1)
           /\ Words(m, r, n) = <<m[Slot(r)]>> \o Words(m, Advance(r), n - 1)
<1>0. n \in Nat /\ n - 1 \in Nat /\ Depth \in Nat
  BY DepthAssumption
<1>1. \A i \in 1..(n - 1) : i + 1 \in 1..n /\ At(Advance(r), i) = At(r, i + 1)
  <2> SUFFICES ASSUME NEW i \in 1..(n - 1)
               PROVE  i + 1 \in 1..n /\ At(Advance(r), i) = At(r, i + 1)
    OBVIOUS
  <2>1. i \in 1..(Depth - 1) /\ i + 1 \in 1..n
    BY <1>0
  <2> QED BY <2>1, AtMovesOn
<1>2. Live(m, Advance(r), n - 1)
  BY <1>1 DEF Live
<1> DEFINE first == <<m[Slot(r)]>>
           later == Words(m, Advance(r), n - 1)
           all   == Words(m, r, n)
<1>3. 1 \in 1..n /\ At(r, 1) = Slot(r)
  BY <1>0, AtFirst
<1>4. m[Slot(r)] \in Beat /\ all[1] = m[Slot(r)]
  BY <1>3 DEF Live, Words
<1>5. /\ later \in Seq(Beat) /\ Len(later) = n - 1
      /\ all \in Seq(Beat) /\ Len(all) = n
  BY <1>0, <1>2, WordsAreSequence
<1>6. \A i \in 1..(n - 1) : later[i] = all[i + 1]
  BY <1>1 DEF Words
<1>7. first \in Seq(Beat) /\ Len(first) = 1 /\ first[1] = m[Slot(r)]
  BY <1>4
<1>8. all = first \o later
  <2> HIDE DEF first, later, all
  <2>1. /\ first \o later \in Seq(Beat) /\ Len(first \o later) = Len(first) + Len(later)
        /\ \A i \in 1..(Len(first) + Len(later)) : (first \o later)[i] =
              IF i <= Len(first) THEN first[i] ELSE later[i - Len(first)]
    BY <1>5, <1>7, ConcatProperties
  <2>2. /\ Len(first \o later) = n
        /\ \A i \in 1..n : (first \o later)[i] = IF i <= 1 THEN first[i] ELSE later[i - 1]
    BY <1>0, <1>5, <1>7, <2>1
  <2>3. \A i \in 1..n : all[i] = (first \o later)[i]
    <3> SUFFICES ASSUME NEW i \in 1..n PROVE all[i] = (first \o later)[i]
      OBVIOUS
    <3>1. CASE i = 1
      BY <1>4, <1>7, <2>2, <3>1
    <3>2. CASE i # 1
      <4>1. i - 1 \in 1..(n - 1) /\ (i - 1) + 1 = i /\ ~(i <= 1)
        BY <1>0, <3>2
      <4> QED BY <1>6, <2>2, <4>1
    <3> QED BY <3>1, <3>2
  <2> QED BY <1>5, <2>1, <2>2, <2>3, SeqEqual
<1> QED BY <1>2, <1>4, <1>8

(* A word is written behind the last.                                      *)
LEMMA WordsPush ==
    ASSUME NEW w \in Ptr, NEW r \in Ptr, NEW n, n = Gap(w, r), n < Depth,
           NEW m \in [0..(Depth - 1) -> Beat \cup {NoBeat}], Live(m, r, n), NEW x \in Beat,
           NEW new, Written(new, m, w, x)
    PROVE  /\ Live(new, r, n + 1)
           /\ Words(new, r, n + 1) = Append(Words(m, r, n), x)
<1> DEFINE before == Words(m, r, n)
           after  == Words(new, r, n + 1)
<1>1. /\ n \in Nat /\ Slot(w) \in 0..(Depth - 1) /\ At(r, n + 1) = Slot(w)
      /\ \A i \in 1..n : At(r, i) \in 0..(Depth - 1) /\ At(r, i) # Slot(w)
  BY AtWrite
<1>2. new[Slot(w)] = x /\ \A a \in 0..(Depth - 1) : a # Slot(w) => new[a] = m[a]
  BY <1>1 DEF Written
<1>3. /\ \A i \in 1..(n + 1) : i = n + 1 \/ i \in 1..n
      /\ n + 1 \in 1..(n + 1) /\ \A i \in 1..n : i \in 1..(n + 1)
      /\ n + 1 \in Nat
  BY <1>1
<1>4. Live(new, r, n + 1)
  BY <1>1, <1>2, <1>3 DEF Live
<1>5. after[n + 1] = x /\ \A i \in 1..n : after[i] = before[i]
  BY <1>1, <1>2, <1>3 DEF Words
<1>6. /\ before \in Seq(Beat) /\ Len(before) = n /\ after \in Seq(Beat) /\ Len(after) = n + 1
  BY <1>1, <1>3, <1>4, WordsAreSequence
<1>7. after = Append(before, x)
  <2> HIDE DEF before, after
  <2>1. /\ Append(before, x) \in Seq(Beat) /\ Len(Append(before, x)) = n + 1
        /\ \A i \in 1..n : Append(before, x)[i] = before[i]
        /\ Append(before, x)[n + 1] = x
    BY <1>6, AppendProperties
  <2>2. \A i \in 1..(n + 1) : after[i] = Append(before, x)[i]
    BY <1>3, <1>5, <2>1
  <2> QED BY <1>6, <2>1, <2>2, SeqEqual
<1> QED BY <1>4, <1>7

(* A write and a read at one edge: the order does not matter.              *)
LEMMA WordsPushPop ==
    ASSUME NEW w \in Ptr, NEW r \in Ptr, NEW n, n = Gap(w, r), n < Depth, n >= 1,
           NEW m \in [0..(Depth - 1) -> Beat \cup {NoBeat}], Live(m, r, n), NEW x \in Beat,
           NEW new, Written(new, m, w, x)
    PROVE  /\ Live(new, Advance(r), n)
           /\ Words(new, Advance(r), n) = Append(Words(m, Advance(r), n - 1), x)
<1> DEFINE first == <<m[Slot(r)]>>
           old == Words(m, Advance(r), n - 1)
           now == Words(new, Advance(r), n)
           e   == <<x>>
<1>1. /\ n \in Nat /\ Slot(w) \in 0..(Depth - 1)
      /\ \A i \in 1..n : At(r, i) \in 0..(Depth - 1) /\ At(r, i) # Slot(w)
  BY AtWrite
<1>2. n \in 1..Depth /\ n + 1 \in 1..Depth /\ (n + 1) - 1 = n /\ n - 1 \in Nat /\ 1 \in 1..n
  BY <1>1, DepthAssumption
<1>3. m[Slot(r)] \in Beat /\ Live(m, Advance(r), n - 1) /\ Words(m, r, n) = first \o old
  BY <1>2, WordsPop
<1>4. Live(new, r, n + 1) /\ Words(new, r, n + 1) = Append(Words(m, r, n), x)
  BY WordsPush
<1>5. new[Slot(r)] = m[Slot(r)]
  <2>1. Slot(r) \in 0..(Depth - 1) /\ Slot(r) # Slot(w)
    BY <1>1, <1>2, AtFirst
  <2> QED BY <2>1 DEF Written
<1>6. Live(new, Advance(r), n) /\ Words(new, r, n + 1) = first \o now
  <2> DEFINE k == n + 1
  <2>1. k \in 1..Depth /\ k - 1 = n /\ Live(new, r, k)
    BY <1>2, <1>4
  <2> HIDE DEF k
  <2>2. Live(new, Advance(r), k - 1) /\ Words(new, r, k) = <<new[Slot(r)]>> \o Words(new, Advance(r), k - 1)
    BY <2>1, WordsPop
  <2> QED BY <1>5, <2>1, <2>2 DEF k
<1>7. old \in Seq(Beat) /\ now \in Seq(Beat) /\ first \in Seq(Beat) /\ e \in Seq(Beat)
  BY <1>1, <1>2, <1>3, <1>6, WordsAreSequence
<1>8. now = Append(old, x)
  <2>1. first \o now = Append(first \o old, x)
    BY <1>3, <1>4, <1>6
  <2>2. Append(old, x) = old \o e
    BY <1>7, AppendIsConcat
  <2> HIDE DEF first, old, now
  <2>3. first \o old \in Seq(Beat)
    BY <1>7, ConcatProperties
  <2>4. Append(first \o old, x) = (first \o old) \o e
    BY <2>3, AppendIsConcat
  <2> HIDE DEF e
  <2>5. old \o e \in Seq(Beat)
    BY <1>7, ConcatProperties
  <2>6. (first \o old) \o e = first \o (old \o e)
    BY <1>7, ConcatAssociative
  <2>7. first \o now = first \o (old \o e)
    BY <2>1, <2>4, <2>6
  <2>8. now = old \o e
    BY <1>7, <2>5, <2>7, ConcatSimplifications
  <2> QED BY <2>2, <2>8
<1> QED BY <1>6, <1>8
-----------------------------------------------------------------------------
(* The registers behind the memory, and what a step moves: `put' when a    *)
(* beat is written, `edge' when the reader's clock ticks.                  *)
OutReg == IF mvalid THEN <<mdata>> ELSE <<>>
MemReg == IF rvalid THEN <<rdata>> ELSE <<>>
Inside == Gap(wbin, rbin)

QueueInv ==
    /\ Live(mem, rbin, Inside)
    /\ rvalid => rdata \in Beat
    /\ mvalid => mdata \in Beat

QueueWrite(put, beat) ==
    IF put THEN /\ beat \in Beat /\ ~Full
                /\ wbin' = Advance(wbin) /\ Written(mem', mem, wbin, beat)
    ELSE wbin' = wbin /\ mem' = mem

QueueRead(edge, ready) ==
    IF edge THEN /\ rbin' = RbinNext(ready)
                 /\ rdata' = IF Pop(ready) THEN mem[Slot(rbin)] ELSE rdata
                 /\ rvalid' = IF RdFree(ready) THEN Pop(ready) ELSE rvalid
                 /\ mvalid' = IF OutAcc(ready) THEN rvalid ELSE mvalid
                 /\ mdata' = IF OutAcc(ready) /\ rvalid THEN rdata ELSE mdata
    ELSE rbin' = rbin /\ rdata' = rdata /\ rvalid' = rvalid /\ mvalid' = mvalid /\ mdata' = mdata

Get(edge, ready)   == edge /\ Pop(ready)
Takes(edge, ready) == IF edge /\ mvalid /\ ready THEN 1 ELSE 0
LeftIn(edge, ready) == IF Get(edge, ready) THEN Inside - 1 ELSE Inside

LEMMA GapRetreat ==
    \A w, r \in Ptr : Gap(w, r) >= 1 => Gap(w, Advance(r)) = Gap(w, r) - 1
BY DepthAssumption DEF Ptr, PtrSpan, Gap, Advance

LEMMA InsideFacts ==
    ASSUME TypeOK, PointerOrder, NEW put \in BOOLEAN, NEW beat, QueueWrite(put, beat),
           NEW edge \in BOOLEAN, NEW ready \in BOOLEAN, QueueRead(edge, ready)
    PROVE  /\ wbin \in Ptr /\ rbin \in Ptr /\ Inside \in Nat /\ Inside <= Depth - 1
           /\ put => Inside < Depth - 1
           /\ Get(edge, ready) => Inside >= 1 /\ rbin' = Advance(rbin)
           /\ ~Get(edge, ready) => rbin' = rbin
           /\ LeftIn(edge, ready) \in Nat
           /\ Inside' = LeftIn(edge, ready) + IF put THEN 1 ELSE 0
<1>1. /\ wbin \in Ptr /\ rbin \in Ptr /\ Depth \in Nat /\ Depth >= 2 /\ PtrSpan = 2 * Depth
      /\ Inside = IF wbin >= rbin THEN wbin - rbin ELSE (wbin + PtrSpan) - rbin
  BY DepthAssumption DEF TypeOK, PtrSpan, Inside, Gap
<1>2. Inside \in Nat /\ Inside <= Depth - 1
  <2>1. /\ Inside = FromOldest(wbin) - FromOldest(rbin)
        /\ FromOldest(rbin) \in Nat /\ FromOldest(wbin) \in Nat
        /\ FromOldest(rbin) <= FromOldest(wbin) /\ FromOldest(wbin) <= Depth - 1
    BY DistanceToReader DEF Inside, PointerOrder
  <2> QED BY <1>1, <2>1
<1>3. /\ ~Full => Inside < Depth - 1
      /\ ~Empty => Inside > 0
  BY OrderPreventsOverrun DEF NoOverrun, Inside
<1>4. put => Inside < Depth - 1 /\ wbin' = Advance(wbin)
  BY <1>3 DEF QueueWrite
<1>5. Get(edge, ready) => Inside >= 1 /\ rbin' = Advance(rbin)
  BY <1>2, <1>3 DEF Get, Pop, QueueRead, RbinNext
<1>6. ~Get(edge, ready) => rbin' = rbin
  BY DEF Get, QueueRead, RbinNext
<1>7. ~put => wbin' = wbin
  BY DEF QueueWrite
<1>8. LeftIn(edge, ready) \in Nat /\ LeftIn(edge, ready) = Inside - IF Get(edge, ready) THEN 1 ELSE 0
  BY <1>2, <1>5 DEF LeftIn
<1>9. Inside' = LeftIn(edge, ready) + IF put THEN 1 ELSE 0
  <2>1. Inside' = Gap(wbin', rbin') /\ Inside = Gap(wbin, rbin)
    BY DEF Inside, Gap, PtrSpan
  <2>2. rbin' \in Ptr /\ Gap(wbin, rbin') = LeftIn(edge, ready)
    <3>1. CASE Get(edge, ready)
      BY <1>1, <1>5, <2>1, <3>1, GapRetreat, PtrFacts DEF LeftIn
    <3>2. CASE ~Get(edge, ready)
      BY <1>1, <1>6, <2>1, <3>2 DEF LeftIn
    <3> QED BY <3>1, <3>2
  <2>3. CASE put
    <3>1. LeftIn(edge, ready) < PtrSpan - 1
      BY <1>1, <1>2, <1>4, <1>8, <2>3
    <3>2. Gap(Advance(wbin), rbin') = Gap(wbin, rbin') + 1
      BY <1>1, <2>2, <3>1, GapAdvance
    <3> QED BY <1>4, <2>1, <2>2, <2>3, <3>2
  <2>4. CASE ~put
    BY <1>7, <1>8, <2>1, <2>2, <2>4
  <2> QED BY <2>3, <2>4
<1> QED BY <1>1, <1>2, <1>4, <1>5, <1>6, <1>8, <1>9

(* Dropping the front part of a sequence leaves the other part.            *)
LEMMA DropFront ==
    ASSUME NEW S, NEW s \in Seq(S), NEW t \in Seq(S)
    PROVE  SubSeq(s \o t, Len(s) + 1, Len(s \o t)) = t
<1>1. Len(s) \in Nat /\ Len(t) \in Nat /\ Len(s \o t) = Len(s) + Len(t)
  BY LenProperties, ConcatProperties
<1>2. CASE Len(t) = 0
  <2>1. t = <<>>
    BY <1>2, EmptySeq
  <2>2. Len(s \o t) < Len(s) + 1 /\ Len(s) + 1 \in Int /\ Len(s \o t) \in Int
    BY <1>1, <1>2
  <2> QED BY <2>1, <2>2, SubSeqEmpty
<1>3. CASE Len(t) # 0
  <2>1. /\ Len(s) + 1 \in Len(s) + 1 .. Len(s) + Len(t)
        /\ Len(s) + Len(t) \in Len(s) + 1 .. Len(s) + Len(t)
        /\ (Len(s) + 1) - Len(s) = 1 /\ (Len(s) + Len(t)) - Len(s) = Len(t)
    BY <1>1, <1>3
  <2>2. SubSeq(s \o t, Len(s) + 1, Len(s) + Len(t)) =
          SubSeq(t, (Len(s) + 1) - Len(s), (Len(s) + Len(t)) - Len(s))
    BY <2>1, SubSeqOfConcat2
  <2> QED BY <1>1, <2>1, <2>2, SubSeqFull
<1> QED BY <1>2, <1>3

LEMMA RegFacts ==
    ASSUME QueueInv
    PROVE  /\ OutReg \in Seq(Beat) /\ Len(OutReg) = IF mvalid THEN 1 ELSE 0
           /\ MemReg \in Seq(Beat) /\ Len(MemReg) = IF rvalid THEN 1 ELSE 0
<1>1. \A x \in Beat : <<x>> \in Seq(Beat) /\ Len(<<x>>) = 1
  OBVIOUS
<1>2. <<>> \in Seq(Beat) /\ Len(<<>>) = 0
  OBVIOUS
<1> QED BY <1>1, <1>2 DEF QueueInv, OutReg, MemReg

(* The words that stay in memory, and the one that leaves it.              *)
LEMMA FetchSplits ==
    ASSUME TypeOK, PointerOrder, QueueInv, NEW put \in BOOLEAN, NEW beat, QueueWrite(put, beat),
           NEW edge \in BOOLEAN, NEW ready \in BOOLEAN, QueueRead(edge, ready)
    PROVE  /\ Live(mem, rbin', LeftIn(edge, ready))
           /\ edge /\ RdFree(ready) =>
                Words(mem, rbin, Inside) = MemReg' \o Words(mem, rbin', LeftIn(edge, ready))
           /\ (rvalid' => rdata' \in Beat) /\ (mvalid' => mdata' \in Beat)
<1>1. /\ rbin \in Ptr /\ Inside \in Nat /\ Inside <= Depth - 1 /\ Depth \in Nat
      /\ Live(mem, rbin, Inside) /\ Words(mem, rbin, Inside) \in Seq(Beat)
  <2>1. Live(mem, rbin, Inside)
    BY DEF QueueInv
  <2> QED BY <2>1, InsideFacts, WordsAreSequence, DepthAssumption
<1>2. MemReg' = IF rvalid' THEN <<rdata'>> ELSE <<>>
  BY DEF MemReg
<1>3. CASE Get(edge, ready)
  <2>1. Inside \in 1..Depth /\ rbin' = Advance(rbin) /\ LeftIn(edge, ready) = Inside - 1
    BY <1>1, <1>3, InsideFacts DEF LeftIn
  <2>2. /\ mem[Slot(rbin)] \in Beat
        /\ Live(mem, Advance(rbin), Inside - 1)
        /\ Words(mem, rbin, Inside) = <<mem[Slot(rbin)]>> \o Words(mem, Advance(rbin), Inside - 1)
    BY <1>1, <2>1, WordsPop
  <2>3. rdata' = mem[Slot(rbin)] /\ rvalid' = TRUE
    BY <1>3 DEF Get, Pop, QueueRead
  <2>4. mvalid' => mdata' \in Beat
    BY DEF QueueRead, QueueInv, OutAcc
  <2> QED BY <1>2, <2>1, <2>2, <2>3, <2>4
<1>4. CASE ~Get(edge, ready)
  <2>1. rbin' = rbin /\ LeftIn(edge, ready) = Inside
    BY <1>4, InsideFacts DEF LeftIn
  <2>2. edge /\ RdFree(ready) => rvalid' = FALSE
    BY <1>4 DEF Get, Pop, QueueRead
  <2>3. (rvalid' => rdata' \in Beat) /\ (mvalid' => mdata' \in Beat)
    <3>1. ~edge \/ ~RdFree(ready) => rvalid' = rvalid /\ rdata' = rdata
      BY <1>4 DEF Get, QueueRead
    <3>2. mvalid' => mdata' \in Beat
      BY DEF QueueRead, QueueInv, OutAcc
    <3> QED BY <2>2, <3>1, <3>2 DEF QueueInv
  <2>4. <<>> \o Words(mem, rbin, Inside) = Words(mem, rbin, Inside)
    BY <1>1, ConcatEmptySeq
  <2> QED BY <1>1, <1>2, <2>1, <2>2, <2>3, <2>4
<1> QED BY <1>3, <1>4

(* What stays of the queue: all of it, or all but the word in the output   *)
(* register exactly when the consumer takes it.                            *)
LEMMA KeptIsRest ==
    ASSUME TypeOK, PointerOrder, QueueInv, NEW put \in BOOLEAN, NEW beat, QueueWrite(put, beat),
           NEW edge \in BOOLEAN, NEW ready \in BOOLEAN, QueueRead(edge, ready)
    PROVE  /\ Contents \in Seq(Beat) /\ Takes(edge, ready) <= Len(Contents)
           /\ OutReg' \o (MemReg' \o Words(mem, rbin', LeftIn(edge, ready))) =
                SubSeq(Contents, Takes(edge, ready) + 1, Len(Contents))
<1> DEFINE w == Words(mem, rbin, Inside)
           v == Words(mem, rbin', LeftIn(edge, ready))
           o == OutReg
           i == MemReg
<1>1. /\ o \in Seq(Beat) /\ Len(o) = (IF mvalid THEN 1 ELSE 0) /\ i \in Seq(Beat)
      /\ w \in Seq(Beat) /\ v \in Seq(Beat)
  <2>1. Live(mem, rbin, Inside) /\ Inside \in Nat /\ LeftIn(edge, ready) \in Nat
    BY InsideFacts DEF QueueInv
  <2> QED BY <2>1, FetchSplits, RegFacts, WordsAreSequence
<1>2. Contents = (o \o i) \o w
  BY DEF Contents, OutReg, MemReg, Words, At, Inside
<1>3. OutReg' = (IF mvalid' THEN <<mdata'>> ELSE <<>>) /\ MemReg' = IF rvalid' THEN <<rdata'>> ELSE <<>>
  BY DEF OutReg, MemReg
<1>4. mvalid \in BOOLEAN /\ rvalid \in BOOLEAN
  BY DEF TypeOK
<1>5. CASE edge /\ OutAcc(ready)
  <2>1. OutReg' = i
    BY <1>3, <1>5 DEF QueueRead, MemReg
  <2>2. MemReg' \o v = w
    BY <1>5, FetchSplits DEF RdFree
  <2>3. Takes(edge, ready) = Len(o)
    BY <1>1, <1>4, <1>5 DEF Takes, OutAcc
  <2> HIDE DEF o, i, w, v
  <2>4. Contents = o \o (i \o w) /\ i \o w \in Seq(Beat)
    <3>1. i \o w \in Seq(Beat)
      BY <1>1, ConcatProperties
    <3>2. (o \o i) \o w = o \o (i \o w)
      BY <1>1, ConcatAssociative
    <3> QED BY <1>2, <3>1, <3>2
  <2>5. SubSeq(Contents, Len(o) + 1, Len(Contents)) = i \o w
    BY <1>1, <2>4, DropFront
  <2>6. Contents \in Seq(Beat) /\ Len(Contents) = Len(o) + Len(i \o w)
    BY <1>1, <2>4, ConcatProperties
  <2>7. Len(o) <= Len(Contents)
    BY <1>1, <2>4, <2>6, LenProperties
  <2>8. OutReg' \o (MemReg' \o v) = i \o w
    BY <2>1, <2>2
  <2> QED BY <2>3, <2>5, <2>6, <2>7, <2>8 DEF v
<1>6. CASE ~(edge /\ OutAcc(ready))
  <2>1. OutReg' = o
    BY <1>3, <1>6 DEF QueueRead, OutReg
  <2>2. MemReg' \o v = i \o w
    <3>1. CASE edge /\ RdFree(ready)
      <4>1. MemReg' \o v = w /\ i = <<>>
        BY <1>6, <3>1, FetchSplits DEF RdFree, MemReg
      <4>2. <<>> \o w = w
        BY <1>1, ConcatEmptySeq
      <4> QED BY <4>1, <4>2
    <3>2. CASE ~(edge /\ RdFree(ready))
      <4>1. MemReg' = i /\ ~Get(edge, ready)
        BY <1>3, <3>2 DEF Get, QueueRead, MemReg, Pop
      <4>2. rbin' = rbin /\ LeftIn(edge, ready) = Inside
        BY <4>1, InsideFacts DEF LeftIn
      <4> QED BY <4>1, <4>2
    <3> QED BY <3>1, <3>2
  <2>3. Takes(edge, ready) = 0
    BY <1>6 DEF Takes, OutAcc
  <2> HIDE DEF o, i, w, v
  <2>4. Contents = o \o (i \o w) /\ Contents \in Seq(Beat)
    <3>1. o \o i \in Seq(Beat)
      BY <1>1, ConcatProperties
    <3>2. (o \o i) \o w = o \o (i \o w) /\ (o \o i) \o w \in Seq(Beat)
      <4>1. (o \o i) \o w = o \o (i \o w)
        BY <1>1, ConcatAssociative
      <4>2. (o \o i) \o w \in Seq(Beat)
        BY <1>1, <3>1, ConcatProperties
      <4> QED BY <4>1, <4>2
    <3> QED BY <1>2, <3>2
  <2>5. SubSeq(Contents, 0 + 1, Len(Contents)) = Contents /\ 0 <= Len(Contents)
    BY <2>4, SubSeqFull, LenProperties
  <2>6. OutReg' \o (MemReg' \o v) = Contents
    BY <2>1, <2>2, <2>4
  <2> QED BY <2>3, <2>4, <2>5, <2>6 DEF v
<1> QED BY <1>5, <1>6

(* What is in memory afterwards.                                           *)
LEMMA WordsAfter ==
    ASSUME TypeOK, PointerOrder, QueueInv, NEW put \in BOOLEAN, NEW beat, QueueWrite(put, beat),
           NEW edge \in BOOLEAN, NEW ready \in BOOLEAN, QueueRead(edge, ready)
    PROVE  /\ Live(mem', rbin', Inside')
           /\ Words(mem', rbin', Inside') =
                IF put THEN Append(Words(mem, rbin', LeftIn(edge, ready)), beat)
                ELSE Words(mem, rbin', LeftIn(edge, ready))
<1>1. /\ wbin \in Ptr /\ rbin \in Ptr /\ Inside \in Nat /\ Depth \in Nat /\ Inside < Depth
      /\ Inside = Gap(wbin, rbin)
      /\ Live(mem, rbin, Inside) /\ mem \in [0..(Depth - 1) -> Beat \cup {NoBeat}]
  BY InsideFacts, DepthAssumption DEF QueueInv, TypeOK, Inside
<1>2. CASE ~put
  <2>1. mem' = mem /\ Inside' = LeftIn(edge, ready)
    <3>1. mem' = mem
      BY <1>2 DEF QueueWrite
    <3>2. LeftIn(edge, ready) \in Nat /\ Inside' = LeftIn(edge, ready) + 0
      BY <1>2, InsideFacts
    <3> QED BY <3>1, <3>2
  <2> QED BY <1>2, <2>1, FetchSplits
<1>3. CASE put
  <2>1. beat \in Beat /\ Written(mem', mem, wbin, beat)
    BY <1>3 DEF QueueWrite
  <2>2. CASE ~Get(edge, ready)
    <3>1. rbin' = rbin /\ Inside' = Inside + 1 /\ LeftIn(edge, ready) = Inside
      BY <1>3, <2>2, InsideFacts DEF LeftIn
    <3>2. /\ Live(mem', rbin, Inside + 1)
          /\ Words(mem', rbin, Inside + 1) = Append(Words(mem, rbin, Inside), beat)
      BY <1>1, <2>1, WordsPush
    <3> QED BY <1>3, <3>1, <3>2
  <2>3. CASE Get(edge, ready)
    <3>1. /\ rbin' = Advance(rbin) /\ Inside >= 1 /\ LeftIn(edge, ready) = Inside - 1
          /\ Inside' = LeftIn(edge, ready) + 1
      BY <1>3, <2>3, InsideFacts DEF LeftIn
    <3>2. Inside' = Inside
      BY <1>1, <3>1
    <3>3. /\ Live(mem', Advance(rbin), Inside)
          /\ Words(mem', Advance(rbin), Inside) = Append(Words(mem, Advance(rbin), Inside - 1), beat)
      BY <1>1, <2>1, <3>1, WordsPushPop
    <3> QED BY <1>3, <3>1, <3>2, <3>3
  <2> QED BY <2>2, <2>3
<1> QED BY <1>2, <1>3

LEMMA ContentsAfter ==
    ASSUME TypeOK, PointerOrder, QueueInv, NEW put \in BOOLEAN, NEW beat, QueueWrite(put, beat),
           NEW edge \in BOOLEAN, NEW ready \in BOOLEAN, QueueRead(edge, ready)
    PROVE  /\ QueueInv'
           /\ Contents' = LET kept == SubSeq(Contents, Takes(edge, ready) + 1, Len(Contents)) IN
                          IF put THEN Append(kept, beat) ELSE kept
<1>1. QueueInv'
  BY WordsAfter, FetchSplits DEF QueueInv
<1> DEFINE o == OutReg'
           i == MemReg'
           v == Words(mem, rbin', LeftIn(edge, ready))
           kept == SubSeq(Contents, Takes(edge, ready) + 1, Len(Contents))
<1>2. o \in Seq(Beat) /\ i \in Seq(Beat) /\ v \in Seq(Beat)
  <2>1. \A x \in Beat : <<x>> \in Seq(Beat)
    OBVIOUS
  <2>2. <<>> \in Seq(Beat)
    OBVIOUS
  <2>3. o \in Seq(Beat) /\ i \in Seq(Beat)
    BY <2>1, <2>2, FetchSplits DEF OutReg, MemReg
  <2> QED BY <2>3, FetchSplits, InsideFacts, WordsAreSequence
<1>3. kept = o \o (i \o v)
  BY KeptIsRest
<1>4. Contents' = (o \o i) \o Words(mem', rbin', Inside')
  BY DEF Contents, OutReg, MemReg, Words, At, Inside, Slot, PtrSpan
<1>5. (o \o i) \o v = o \o (i \o v) /\ o \o i \in Seq(Beat) /\ i \o v \in Seq(Beat)
  <2> HIDE DEF o, i, v
  <2>1. (o \o i) \o v = o \o (i \o v)
    BY <1>2, ConcatAssociative
  <2>2. o \o i \in Seq(Beat)
    BY <1>2, ConcatProperties
  <2>3. i \o v \in Seq(Beat)
    BY <1>2, ConcatProperties
  <2> QED BY <2>1, <2>2, <2>3
<1>6. CASE ~put
  <2>1. Words(mem', rbin', Inside') = v
    BY <1>6, WordsAfter
  <2> QED BY <1>1, <1>3, <1>4, <1>5, <1>6, <2>1
<1>7. CASE put
  <2>1. Words(mem', rbin', Inside') = Append(v, beat) /\ beat \in Beat
    <3>1. beat \in Beat
      BY <1>7 DEF QueueWrite
    <3>2. Words(mem', rbin', Inside') = Append(Words(mem, rbin', LeftIn(edge, ready)), beat)
      BY <1>7, WordsAfter
    <3> QED BY <3>1, <3>2
  <2> DEFINE e == <<beat>>
             oi == o \o i
  <2>2. e \in Seq(Beat)
    BY <2>1
  <2>3. Append(v, beat) = v \o e
    BY <1>2, <2>1, AppendIsConcat
  <2>4. kept = oi \o v /\ Contents' = oi \o (v \o e) /\ oi \in Seq(Beat)
    BY <1>3, <1>4, <1>5, <2>1, <2>3
  <2>5. Contents' = Append(kept, beat)
    <3> HIDE DEF oi, v, kept
    <3>1. oi \o v \in Seq(Beat)
      BY <1>2, <2>4, ConcatProperties
    <3>2. Append(oi \o v, beat) = (oi \o v) \o e
      BY <2>1, <3>1, AppendIsConcat
    <3> HIDE DEF e
    <3>3. (oi \o v) \o e = oi \o (v \o e)
      BY SMTT(30), <1>2, <2>2, <2>4, ConcatAssociative
    <3> QED BY <2>4, <3>2, <3>3
  <2> QED BY <1>1, <1>7, <2>5
<1> QED BY <1>6, <1>7
-----------------------------------------------------------------------------
(* Every edge of either clock, or both, as a write that is accepted,       *)
(* refused or absent and a read that ticks or does not.                    *)
Counted(put, refused, edge, ready) ==
    /\ dropCnt' = IF refused THEN (dropCnt + 1) % CntMod ELSE dropCnt
    /\ given' = IF put \/ refused THEN (given + 1) % CntMod ELSE given
    /\ taken' = IF Takes(edge, ready) = 1 THEN (taken + 1) % CntMod ELSE taken

Moves(beat, put, refused, edge, ready) ==
    /\ QueueWrite(put, beat) /\ QueueRead(edge, ready) /\ ~(put /\ refused)
    /\ Counted(put, refused, edge, ready)

LEMMA WriteMoves ==
    ASSUME NEW beat \in Beat \cup {NoBeat}, NEW seen, WriteEdge(beat, seen)
    PROVE  \E put, refused \in BOOLEAN :
             /\ QueueWrite(put, beat) /\ ~(put /\ refused)
             /\ dropCnt' = IF refused THEN (dropCnt + 1) % CntMod ELSE dropCnt
             /\ given' = IF put \/ refused THEN (given + 1) % CntMod ELSE given
<1>1. CASE beat # NoBeat /\ ~Full
  <2>1. QueueWrite(TRUE, beat)
    BY <1>1 DEF QueueWrite, WriteEdge, WbinNext, Written
  <2> QED BY <1>1, <2>1 DEF WriteEdge
<1>2. CASE beat # NoBeat /\ Full
  <2>1. QueueWrite(FALSE, beat)
    BY <1>2 DEF QueueWrite, WriteEdge, WbinNext
  <2> QED BY <1>2, <2>1 DEF WriteEdge
<1>3. CASE beat = NoBeat
  <2>1. QueueWrite(FALSE, beat)
    BY <1>3 DEF QueueWrite, WriteEdge, WbinNext
  <2> QED BY <1>3, <2>1 DEF WriteEdge
<1> QED BY <1>1, <1>2, <1>3

LEMMA ReadMoves ==
    ASSUME NEW ready \in BOOLEAN, NEW seen, ReadEdge(ready, seen)
    PROVE  /\ QueueRead(TRUE, ready)
           /\ taken' = IF Takes(TRUE, ready) = 1 THEN (taken + 1) % CntMod ELSE taken
BY DEF QueueRead, ReadEdge, Takes

LEMMA NextMoves ==
    ASSUME [Next]_vars
    PROVE  \E beat \in Beat \cup {NoBeat}, put, refused, edge, ready \in BOOLEAN :
             Moves(beat, put, refused, edge, ready)
<1>1. CASE \E beat \in Beat \cup {NoBeat} : WriteOnly(beat)
  <2>1. PICK beat \in Beat \cup {NoBeat} : WriteOnly(beat)
    BY <1>1
  <2>2. PICK put \in BOOLEAN, refused \in BOOLEAN :
          /\ QueueWrite(put, beat) /\ ~(put /\ refused)
          /\ dropCnt' = IF refused THEN (dropCnt + 1) % CntMod ELSE dropCnt
          /\ given' = IF put \/ refused THEN (given + 1) % CntMod ELSE given
    BY <2>1, WriteMoves DEF WriteOnly
  <2>3. QueueRead(FALSE, FALSE) /\ taken' = taken /\ Takes(FALSE, FALSE) = 0
    BY <2>1 DEF WriteOnly, rvars, QueueRead, Takes
  <2>4. Counted(put, refused, FALSE, FALSE)
    <3>1. ~(Takes(FALSE, FALSE) = 1)
      BY DEF Takes
    <3> QED BY <2>2, <2>3, <3>1, Zenon DEF Counted
  <2>5. Moves(beat, put, refused, FALSE, FALSE)
    BY <2>2, <2>3, <2>4 DEF Moves
  <2> QED BY <2>5, Zenon
<1>2. CASE \E ready \in BOOLEAN : ReadOnly(ready)
  <2>1. PICK ready \in BOOLEAN : ReadOnly(ready)
    BY <1>2
  <2>2. /\ QueueRead(TRUE, ready)
        /\ taken' = IF Takes(TRUE, ready) = 1 THEN (taken + 1) % CntMod ELSE taken
    BY <2>1, ReadMoves DEF ReadOnly
  <2>3. QueueWrite(FALSE, NoBeat) /\ dropCnt' = dropCnt /\ given' = given
    BY <2>1 DEF ReadOnly, wvars, QueueWrite
  <2>4. Moves(NoBeat, FALSE, FALSE, TRUE, ready)
    BY <2>2, <2>3 DEF Moves, Counted
  <2> QED BY <2>4, Zenon
<1>3. CASE \E beat \in Beat \cup {NoBeat}, ready \in BOOLEAN : BothEdges(beat, ready)
  <2>1. PICK beat \in Beat \cup {NoBeat}, ready \in BOOLEAN : BothEdges(beat, ready)
    BY <1>3
  <2>2. PICK put \in BOOLEAN, refused \in BOOLEAN :
          /\ QueueWrite(put, beat) /\ ~(put /\ refused)
          /\ dropCnt' = IF refused THEN (dropCnt + 1) % CntMod ELSE dropCnt
          /\ given' = IF put \/ refused THEN (given + 1) % CntMod ELSE given
    BY <2>1, WriteMoves DEF BothEdges
  <2>3. /\ QueueRead(TRUE, ready)
        /\ taken' = IF Takes(TRUE, ready) = 1 THEN (taken + 1) % CntMod ELSE taken
    BY <2>1, ReadMoves DEF BothEdges
  <2>4. Counted(put, refused, TRUE, ready)
    BY <2>2, <2>3, Zenon DEF Counted
  <2>5. Moves(beat, put, refused, TRUE, ready)
    BY <2>2, <2>3, <2>4, Zenon DEF Moves
  <2> QED BY <2>1, <2>2, <2>5, Zenon
<1>4. CASE UNCHANGED vars
  <2>1. QueueWrite(FALSE, NoBeat) /\ QueueRead(FALSE, FALSE) /\ Takes(FALSE, FALSE) = 0
    BY <1>4 DEF vars, wvars, rvars, QueueWrite, QueueRead, Takes
  <2>2. dropCnt' = dropCnt /\ given' = given /\ taken' = taken
    BY <1>4 DEF vars, wvars, rvars
  <2>3. Moves(NoBeat, FALSE, FALSE, FALSE, FALSE)
    <3>1. ~(Takes(FALSE, FALSE) = 1)
      BY DEF Takes
    <3>2. Counted(FALSE, FALSE, FALSE, FALSE)
      BY <2>2, <3>1, Zenon DEF Counted
    <3> QED BY <2>1, <3>2, Zenon DEF Moves
  <2> QED BY <2>3, Zenon
<1> QED BY <1>1, <1>2, <1>3, <1>4 DEF Next

LEMMA NextIsLossyStep ==
    ASSUME TypeOK, TypeOK', PointerOrder, PointerOrder', QueueInv, [Next]_vars
    PROVE  QueueInv' /\ Abstract!Next
<1>1. PICK beat \in Beat \cup {NoBeat}, put \in BOOLEAN, refused \in BOOLEAN, edge \in BOOLEAN, ready \in BOOLEAN :
        /\ QueueWrite(put, beat) /\ QueueRead(edge, ready) /\ ~(put /\ refused)
        /\ Counted(put, refused, edge, ready)
  BY NextMoves DEF Moves
<1> DEFINE takes == Takes(edge, ready)
           kept == SubSeq(Contents, takes + 1, Len(Contents))
           refuses == IF refused THEN 1 ELSE 0
           offers == IF put \/ refused THEN 1 ELSE 0
<1>2. QueueInv' /\ Contents' = IF put THEN Append(kept, beat) ELSE kept
  BY <1>1, ContentsAfter
<1>3. takes <= Len(Contents) /\ takes \in 0..1 /\ Contents \in Seq(Beat)
  BY <1>1, KeptIsRest DEF Takes
<1>4. /\ refuses \in 0..1 /\ offers \in 0..1 /\ refuses <= offers /\ (offers > refuses <=> put)
  BY <1>1
<1>5. Contents' \in IF offers > refuses THEN {Append(kept, x) : x \in Beat} ELSE {kept}
  <2>1. put => beat \in Beat
    BY <1>1 DEF QueueWrite
  <2> QED BY <1>2, <1>4, <2>1
<1>6. Len(Contents') <= Depth + 1
  <2> DEFINE o == OutReg'
             i == MemReg'
             w == Words(mem', rbin', Inside')
  <2>1. \A x \in Beat : <<x>> \in Seq(Beat) /\ Len(<<x>>) = 1
    OBVIOUS
  <2>2. <<>> \in Seq(Beat) /\ Len(<<>>) = 0
    OBVIOUS
  <2>3. o \in Seq(Beat) /\ Len(o) \in 0..1 /\ i \in Seq(Beat) /\ Len(i) \in 0..1
    BY <1>2, <2>1, <2>2 DEF QueueInv, OutReg, MemReg
  <2>4. Inside' \in Nat /\ Inside' <= Depth - 1
    <3>1. /\ LeftIn(edge, ready) \in Nat /\ LeftIn(edge, ready) <= Inside /\ Inside \in Nat
          /\ Inside <= Depth - 1 /\ (put => Inside < Depth - 1)
          /\ Inside' = LeftIn(edge, ready) + IF put THEN 1 ELSE 0
      BY <1>1, InsideFacts DEF LeftIn
    <3> QED BY <3>1, DepthAssumption
  <2>5. w \in Seq(Beat) /\ Len(w) = Inside'
    BY <1>2, <2>4, WordsAreSequence DEF QueueInv
  <2>6. Contents' = (o \o i) \o w
    BY DEF Contents, OutReg, MemReg, Words, At, Inside, Slot, PtrSpan
  <2> HIDE DEF o, i, w
  <2>7. o \o i \in Seq(Beat) /\ Len(o \o i) = Len(o) + Len(i)
    BY <2>3, ConcatProperties
  <2>8. Len((o \o i) \o w) = Len(o \o i) + Len(w)
    BY <2>5, <2>7, ConcatProperties
  <2>9. Len(Contents') = (Len(o) + Len(i)) + Inside'
    BY <2>5, <2>6, <2>7, <2>8
  <2> DEFINE lo == Len(o)
             li == Len(i)
             n  == Inside'
  <2>10. lo \in 0..1 /\ li \in 0..1 /\ n \in Nat /\ n <= Depth - 1 /\ Len(Contents') = (lo + li) + n
    BY <2>3, <2>4, <2>9
  <2> HIDE DEF lo, li, n
  <2> QED BY <2>10, DepthAssumption
<1>7. refuses = 1 => Len(Contents) >= 0
  BY <1>3, LenProperties
<1>8. /\ dropCnt' = (dropCnt + refuses) % CntMod
      /\ given' = (given + offers) % CntMod
      /\ taken' = (taken + takes) % CntMod
  <2>1. \A c \in 0..(CntMod - 1) : (c + 0) % CntMod = c
    BY CntAssumption
  <2>2. dropCnt \in 0..(CntMod - 1) /\ given \in 0..(CntMod - 1) /\ taken \in 0..(CntMod - 1)
    BY DEF TypeOK
  <2>3. takes = 0 \/ takes = 1
    BY <1>3
  <2> QED BY <1>1, <2>1, <2>2, <2>3 DEF Counted
<1>9. Abstract!Step(offers, refuses, takes)
  BY <1>3, <1>4, <1>5, <1>6, <1>7, <1>8 DEF Abstract!Step
<1> QED BY <1>2, <1>3, <1>4, <1>9 DEF Abstract!Next

LEMMA InitQueue ==
    ASSUME Init
    PROVE  QueueInv /\ Abstract!Init
<1>1. Inside = 0
  BY PtrFacts, GapSelf DEF Init, Inside
<1>2. Live(mem, rbin, 0) /\ Words(mem, rbin, 0) \in Seq(Beat) /\ Len(Words(mem, rbin, 0)) = 0
  <2>1. Live(mem, rbin, 0)
    BY DEF Live
  <2> QED BY <2>1, WordsAreSequence
<1>3. Words(mem, rbin, 0) = <<>>
  BY <1>2, EmptySeq
<1>4. Contents = (<<>> \o <<>>) \o Words(mem, rbin, 0)
  BY <1>1 DEF Init, Contents, Words, At, Inside
<1>5. Contents = <<>>
  <2>1. <<>> \in Seq(Beat) /\ <<>> \o <<>> = <<>>
    BY ConcatEmptySeq
  <2> QED BY <1>3, <1>4, <2>1
<1> QED BY <1>1, <1>2, <1>5 DEF Init, QueueInv, Abstract!Init

(* However the clocks interleave and whichever value each synchroniser     *)
(* captures, what cdc_fifo.sv accepts comes out once, unaltered and in     *)
(* order, what it refuses is counted, and it never holds more than         *)
(* Depth + 1 beats: it implements LossyFifo.                               *)
THEOREM CdcFifoIsLossyFifo == Spec => ImplementsLossyFifo
<1>1. Init => QueueInv /\ Abstract!Init
  BY InitQueue
<1>2. TypeOK /\ PointerOrder /\ (TypeOK /\ PointerOrder)' /\ QueueInv /\ [Next]_vars
        => QueueInv' /\ [Abstract!Next]_(Abstract!vars)
  BY NextIsLossyStep
<1> QED BY <1>1, <1>2, OrderInvariant, PTL DEF Spec, SafeSpec, ImplementsLossyFifo, Abstract!Spec

-----------------------------------------------------------------------------
(***************************** the path ************************************)
(* The smallest number of a set of them.                                   *)
LEMMA LeastNat ==
    ASSUME NEW S \in SUBSET Nat, NEW n \in S
    PROVE  \E m \in S : \A k \in S : m <= k
<1>1. PICK m \in S : \A k \in S : ~(<<k, m>> \in OpToRel(<, Nat))
  BY NatLessThanWellFounded, WFMin
<1>2. \A k \in S : ~(k < m)
  BY <1>1 DEF OpToRel
<1> QED BY <1>2

(* The function FlattenSeq is built on.                                    *)
Flattens(f, ss) ==
    f = [i \in 1..Len(ss) |-> IF i = 1 THEN ss[i] ELSE f[i - 1] \o ss[i]]

LEMMA FlattenFunction ==
    ASSUME NEW ss, Len(ss) \in Nat
    PROVE  \E f : Flattens(f, ss)
<1> DEFINE Upto(n, f) == f = [i \in 1..n |-> IF i = 1 THEN ss[i] ELSE f[i - 1] \o ss[i]]
           Bad == {n \in Nat : ~ \E f : Upto(n, f)}
<1>1. SUFFICES ASSUME Len(ss) \in Bad PROVE FALSE
  BY DEF Flattens
<1>2. PICK m \in Bad : \A k \in Bad : m <= k
  BY <1>1, LeastNat
<1>3. m \in Nat /\ m # 0
  <2>1. Upto(0, [i \in 1..0 |-> ss[i]])
    OBVIOUS
  <2> QED BY <1>2, <2>1
<1>4. PICK f : Upto(m - 1, f)
  <2>1. m - 1 \in Nat /\ ~(m <= m - 1)
    BY <1>3
  <2>2. m - 1 \notin Bad
    BY <1>2, <2>1
  <2> HIDE DEF Upto
  <2> QED BY <2>1, <2>2
<1> DEFINE h == [i \in 1..m |-> IF i < m THEN f[i]
                              ELSE IF i = 1 THEN ss[i] ELSE f[i - 1] \o ss[i]]
<1>5. Upto(m, h)
  <2>1. /\ DOMAIN f = 1..(m - 1)
        /\ \A i \in 1..(m - 1) : f[i] = IF i = 1 THEN ss[i] ELSE f[i - 1] \o ss[i]
    BY <1>4
  <2>2. ASSUME NEW i \in 1..m
        PROVE  h[i] = IF i = 1 THEN ss[i] ELSE h[i - 1] \o ss[i]
    <3>1. i # 1 => i - 1 \in 1..m /\ h[i - 1] = f[i - 1]
      BY <1>3
    <3>2. i < m => h[i] = f[i] /\ i \in 1..(m - 1)
      BY <1>3
    <3>3. ~(i < m) => h[i] = IF i = 1 THEN ss[i] ELSE f[i - 1] \o ss[i]
      OBVIOUS
    <3> HIDE DEF h
    <3>4. CASE i < m
      BY <2>1, <3>1, <3>2, <3>4
    <3>5. CASE ~(i < m)
      BY <3>1, <3>3, <3>5
    <3> QED BY <3>4, <3>5
  <2>3. h = [i \in 1..m |-> h[i]]
    OBVIOUS
  <2> HIDE DEF h
  <2> QED BY <2>2, <2>3, Zenon
<1> QED BY <1>2, <1>5

LEMMA FlattenUnfolds ==
    ASSUME NEW ss, Len(ss) \in Nat, Len(ss) # 0
    PROVE  \E f : Flattens(f, ss) /\ FlattenSeq(ss) = f[Len(ss)]
<1> DEFINE g == CHOOSE f : f = [i \in 1..Len(ss) |-> IF i = 1 THEN ss[i] ELSE f[i - 1] \o ss[i]]
<1>1. \E f : f = [i \in 1..Len(ss) |-> IF i = 1 THEN ss[i] ELSE f[i - 1] \o ss[i]]
  BY FlattenFunction DEF Flattens
<1>2. g = [i \in 1..Len(ss) |-> IF i = 1 THEN ss[i] ELSE g[i - 1] \o ss[i]]
  BY <1>1
<1>3. FlattenSeq(ss) = g[Len(ss)]
  BY DEF FlattenSeq
<1> HIDE DEF g
<1> QED BY <1>2, <1>3 DEF Flattens

LEMMA FlattenType ==
    ASSUME NEW S, NEW ss \in Seq(Seq(S))
    PROVE  FlattenSeq(ss) \in Seq(S)
<1>1. Len(ss) \in Nat /\ \A i \in 1..Len(ss) : ss[i] \in Seq(S)
  BY ElementOfSeq, LenProperties
<1>2. CASE Len(ss) = 0
  <2>1. ss = <<>> /\ FlattenSeq(ss) = ss
    BY <1>2, EmptySeq DEF FlattenSeq
  <2>2. <<>> \in Seq(S)
    BY EmptySeq
  <2> QED BY <2>1, <2>2
<1>3. CASE Len(ss) # 0
  <2>1. PICK f : Flattens(f, ss) /\ FlattenSeq(ss) = f[Len(ss)]
    BY <1>1, <1>3, FlattenUnfolds
  <2>2. \A i \in 1..Len(ss) : f[i] = IF i = 1 THEN ss[i] ELSE f[i - 1] \o ss[i]
    <3>1. f = [i \in 1..Len(ss) |-> IF i = 1 THEN ss[i] ELSE f[i - 1] \o ss[i]]
      BY <2>1 DEF Flattens
    <3> QED BY ONLY <3>1
  <2> DEFINE bad == {i \in 1..Len(ss) : f[i] \notin Seq(S)}
  <2>3. ASSUME bad # {} PROVE FALSE
    <3>1. PICK m \in bad : \A k \in bad : m <= k
      <4>1. bad \in SUBSET Nat
        BY <1>1
      <4> HIDE DEF bad
      <4> QED BY <2>3, <4>1, LeastNat
    <3>2. m \in 1..Len(ss) /\ f[m] \notin Seq(S) /\ ss[m] \in Seq(S)
      BY <1>1, <3>1
    <3>3. m # 1
      BY <2>2, <3>2
    <3>4. m - 1 \in 1..Len(ss) /\ ~(m <= m - 1)
      BY <1>1, <3>2, <3>3
    <3>5. f[m - 1] \in Seq(S)
      BY <3>1, <3>4
    <3>6. f[m] = f[m - 1] \o ss[m]
      BY <2>2, <3>2, <3>3
    <3> QED BY <3>2, <3>5, <3>6, ConcatProperties
  <2>4. Len(ss) \in 1..Len(ss)
    BY <1>1, <1>3
  <2> QED BY <2>1, <2>3, <2>4
<1> QED BY <1>2, <1>3

(* One more at the end comes last.                                         *)
LEMMA FlattenAppend ==
    ASSUME NEW S, NEW ss \in Seq(Seq(S)), NEW x \in Seq(S)
    PROVE  FlattenSeq(Append(ss, x)) = FlattenSeq(ss) \o x
<1> DEFINE tt == Append(ss, x)
           n == Len(ss)
<1>1. /\ n \in Nat /\ Len(tt) = n + 1 /\ tt[n + 1] = x
      /\ \A i \in 1..n : tt[i] = ss[i]
  BY LenProperties, AppendProperties
<1> HIDE DEF tt
<1>2. PICK g : Flattens(g, tt) /\ FlattenSeq(tt) = g[Len(tt)]
  BY <1>1, FlattenUnfolds
<1>3. \A i \in 1..Len(tt) : g[i] = IF i = 1 THEN tt[i] ELSE g[i - 1] \o tt[i]
  <2>1. g = [i \in 1..Len(tt) |-> IF i = 1 THEN tt[i] ELSE g[i - 1] \o tt[i]]
    BY <1>2 DEF Flattens
  <2> QED BY ONLY <2>1
<1>4. CASE n = 0
  <2>1. ss = <<>> /\ FlattenSeq(ss) = ss
    BY <1>4, EmptySeq DEF FlattenSeq
  <2>2. g[1] = x
    BY <1>1, <1>3, <1>4
  <2>3. <<>> \o x = x
    BY ConcatEmptySeq
  <2> QED BY <1>1, <1>2, <1>4, <2>1, <2>2, <2>3 DEF tt
<1>5. CASE n # 0
  <2>1. PICK f : Flattens(f, ss) /\ FlattenSeq(ss) = f[n]
    BY <1>1, <1>5, FlattenUnfolds
  <2>2. \A i \in 1..n : f[i] = IF i = 1 THEN ss[i] ELSE f[i - 1] \o ss[i]
    <3>1. f = [i \in 1..n |-> IF i = 1 THEN ss[i] ELSE f[i - 1] \o ss[i]]
      BY <2>1 DEF Flattens
    <3> QED BY ONLY <3>1
  <2> DEFINE bad == {i \in 1..n : f[i] # g[i]}
  <2>3. ASSUME bad # {} PROVE FALSE
    <3>1. PICK m \in bad : \A k \in bad : m <= k
      <4>1. bad \in SUBSET Nat
        BY <1>1
      <4> HIDE DEF bad
      <4> QED BY <2>3, <4>1, LeastNat
    <3>2. m \in 1..n /\ f[m] # g[m] /\ tt[m] = ss[m] /\ m \in 1..Len(tt)
      BY <1>1, <3>1
    <3>3. m # 1
      BY <1>3, <2>2, <3>2
    <3>4. m - 1 \in 1..n /\ ~(m <= m - 1)
      BY <1>1, <3>2, <3>3
    <3>5. f[m - 1] = g[m - 1]
      BY <3>1, <3>4
    <3> QED BY <1>3, <2>2, <3>2, <3>3, <3>5
  <2>4. n \in 1..n /\ n + 1 \in 1..Len(tt) /\ n + 1 # 1 /\ (n + 1) - 1 = n
    BY <1>1, <1>5
  <2>5. g[n + 1] = g[n] \o x
    BY <1>1, <1>3, <2>4
  <2> QED BY <1>1, <1>2, <2>1, <2>3, <2>4, <2>5 DEF tt
<1> QED BY <1>4, <1>5

(*********************** whole frames in a row *****************************)
Lead(f)  == [frame |-> f, first |-> TRUE, last |-> FALSE]
Trail(f) == [frame |-> f, first |-> FALSE, last |-> TRUE]

Whole(s) ==
    \E n \in Nat : /\ Len(s) = 2 * n
                   /\ \A j \in 1..n : /\ s[2 * j - 1] = Lead(s[2 * j].frame)
                                      /\ s[2 * j] = Trail(s[2 * j].frame)

FramesIn(s) == [j \in 1..(Len(s) \div 2) |-> s[2 * j].frame]

LEMMA LeadFacts ==
    ASSUME NEW f
    PROVE  /\ Lead(f).frame = f /\ Lead(f).first = TRUE /\ Lead(f).last = FALSE
           /\ Trail(f).frame = f /\ Trail(f).first = FALSE /\ Trail(f).last = TRUE
           /\ FrameBeats(f) = <<Lead(f), Trail(f)>>
<1>1. /\ Lead(f).frame = f /\ Lead(f).first = TRUE /\ Lead(f).last = FALSE
      /\ Trail(f).frame = f /\ Trail(f).first = FALSE /\ Trail(f).last = TRUE
  BY DEF Lead, Trail
<1>2. FrameBeats(f) = <<Lead(f), Trail(f)>>
  BY Zenon DEF Lead, Trail, FrameBeats
<1> QED BY <1>1, <1>2

LEMMA AtEitherEnd ==
    ASSUME NEW n \in Nat, NEW g, g = [j \in 1..n |-> g[j]], NEW x
    PROVE  /\ Append(g, x) = [j \in 1..(n + 1) |-> IF j <= n THEN g[j] ELSE x]
           /\ <<x>> \o g = [j \in 1..(n + 1) |-> IF j <= 1 THEN x ELSE g[j - 1]]
<1> DEFINE T == {g[j] : j \in 1..n} \cup {x}
           a == [j \in 1..(n + 1) |-> IF j <= n THEN g[j] ELSE x]
           b == [j \in 1..(n + 1) |-> IF j <= 1 THEN x ELSE g[j - 1]]
<1>1. g \in Seq(T) /\ Len(g) = n
  <2>1. \A j \in 1..n : g[j] \in T
    OBVIOUS
  <2>2. [j \in 1..n |-> g[j]] \in Seq(T)
    <3> HIDE DEF T
    <3> QED BY <2>1, IsASeq
  <2>3. Len([j \in 1..n |-> g[j]]) = n
    OBVIOUS
  <2> QED BY <2>2, <2>3
<1>2. a \in Seq(T) /\ b \in Seq(T) /\ Len(a) = n + 1 /\ Len(b) = n + 1
  <2>1. \A j \in 1..(n + 1) : (IF j <= n THEN g[j] ELSE x) \in T
    OBVIOUS
  <2>2. \A j \in 1..(n + 1) : (IF j <= 1 THEN x ELSE g[j - 1]) \in T
    <3> TAKE j \in 1..(n + 1)
    <3>1. ~(j <= 1) => j - 1 \in 1..n
      OBVIOUS
    <3> QED BY <3>1
  <2> HIDE DEF T
  <2>3. a \in [1..(n + 1) -> T] /\ b \in [1..(n + 1) -> T]
    BY <2>1, <2>2
  <2> HIDE DEF a, b
  <2> QED BY <2>3
<1>3. x \in T
  OBVIOUS
<1> HIDE DEF T
<1>4. Append(g, x) = a
  <2>1. /\ Append(g, x) \in Seq(T) /\ Len(Append(g, x)) = n + 1
        /\ \A j \in 1..n : Append(g, x)[j] = g[j]
        /\ Append(g, x)[n + 1] = x
    BY <1>1, <1>3, AppendProperties
  <2>2. \A j \in 1..(n + 1) : Append(g, x)[j] = a[j]
    <3> TAKE j \in 1..(n + 1)
    <3>1. CASE j <= n
      BY <2>1, <3>1
    <3>2. CASE ~(j <= n)
      BY <2>1, <3>2
    <3> QED BY <3>1, <3>2
  <2> HIDE DEF a
  <2> QED BY <1>2, <2>1, <2>2, SeqEqual
<1>5. <<x>> \o g = b
  <2>1. <<x>> \in Seq(T) /\ Len(<<x>>) = 1 /\ <<x>>[1] = x
    BY <1>3
  <2>2. <<x>> \o g \in Seq(T) /\ Len(<<x>> \o g) = n + 1
    BY <1>1, <2>1, ConcatProperties
  <2>3. \A j \in 1..(n + 1) : (<<x>> \o g)[j] = IF j <= 1 THEN <<x>>[j] ELSE g[j - 1]
    BY <1>1, <2>1, ConcatProperties
  <2>4. \A j \in 1..(n + 1) : (<<x>> \o g)[j] = b[j]
    <3> TAKE j \in 1..(n + 1)
    <3>1. CASE j <= 1
      BY <2>1, <2>3, <3>1
    <3>2. CASE ~(j <= 1)
      BY <2>3, <3>2
    <3> QED BY <3>1, <3>2
  <2> HIDE DEF b
  <2> QED BY <1>2, <2>2, <2>4, SeqEqual
<1> QED BY <1>4, <1>5

LEMMA WholeNone == Whole(<<>>) /\ FramesIn(<<>>) = <<>>
BY DEF Whole, FramesIn

LEMMA WholeTwo ==
    ASSUME NEW f
    PROVE  Whole(FrameBeats(f)) /\ FramesIn(FrameBeats(f)) = <<f>>
<1>1. /\ FrameBeats(f) = <<Lead(f), Trail(f)>> /\ Len(FrameBeats(f)) = 2
      /\ FrameBeats(f)[2] = Trail(f) /\ FrameBeats(f)[1] = Lead(f)
      /\ Trail(f).frame = f
  <2>1. FrameBeats(f) = <<Lead(f), Trail(f)>> /\ Trail(f).frame = f
    BY LeadFacts
  <2> QED BY ONLY <2>1
<1>2. 1 \in Nat /\ 2 = 2 * 1 /\ 2 \div 2 = 1 /\ 1..1 = {1} /\ 2 * 1 - 1 = 1
  OBVIOUS
<1>3. \A j \in 1..1 : /\ FrameBeats(f)[2 * j - 1] = Lead(FrameBeats(f)[2 * j].frame)
                     /\ FrameBeats(f)[2 * j] = Trail(FrameBeats(f)[2 * j].frame)
  BY <1>1, <1>2
<1>4. Whole(FrameBeats(f))
  BY <1>1, <1>2, <1>3 DEF Whole
<1>5. FramesIn(FrameBeats(f)) = [j \in 1..1 |-> FrameBeats(f)[2 * j].frame]
  BY <1>1, <1>2 DEF FramesIn
<1>6. [j \in 1..1 |-> FrameBeats(f)[2 * j].frame] = <<f>>
  BY <1>1, <1>2
<1> QED BY <1>4, <1>5, <1>6

(* One frame more at the end.                                              *)
LEMMA WholeAdd ==
    ASSUME NEW S, NEW s \in Seq(S), NEW f, Lead(f) \in S, Trail(f) \in S, Whole(s)
    PROVE  /\ s \o FrameBeats(f) \in Seq(S) /\ Whole(s \o FrameBeats(f))
           /\ FramesIn(s \o FrameBeats(f)) = Append(FramesIn(s), f)
<1> DEFINE b == FrameBeats(f)
           w == s \o b
<1>1. /\ b \in Seq(S) /\ Len(b) = 2 /\ b[1] = Lead(f) /\ b[2] = Trail(f) /\ Trail(f).frame = f
  <2>1. b = <<Lead(f), Trail(f)>> /\ Trail(f).frame = f
    BY LeadFacts
  <2> QED BY ONLY <2>1, Lead(f) \in S, Trail(f) \in S
<1>2. PICK n \in Nat : /\ Len(s) = 2 * n
                      /\ \A j \in 1..n : /\ s[2 * j - 1] = Lead(s[2 * j].frame)
                                         /\ s[2 * j] = Trail(s[2 * j].frame)
  BY DEF Whole
<1> HIDE DEF b
<1>3. /\ w \in Seq(S) /\ Len(w) = 2 * n + 2
      /\ \A i \in 1..(2 * n) : w[i] = s[i]
      /\ w[2 * n + 1] = b[1] /\ w[2 * n + 2] = b[2]
  <2>1. w \in Seq(S) /\ Len(w) = Len(s) + Len(b)
    BY <1>1, ConcatProperties
  <2>2. \A i \in 1..(Len(s) + Len(b)) : w[i] = IF i <= Len(s) THEN s[i] ELSE b[i - Len(s)]
    BY <1>1, ConcatProperties
  <2> HIDE DEF w
  <2> QED BY <1>1, <1>2, <2>1, <2>2
<1> HIDE DEF w
<1>4. \A j \in 1..(n + 1) : w[2 * j - 1] = Lead(w[2 * j].frame) /\ w[2 * j] = Trail(w[2 * j].frame)
  <2> TAKE j \in 1..(n + 1)
  <2>1. CASE j = n + 1
    <3>1. 2 * j - 1 = 2 * n + 1 /\ 2 * j = 2 * n + 2
      BY <2>1
    <3> QED BY <1>1, <1>3, <3>1
  <2>2. CASE j # n + 1
    <3>1. j \in 1..n /\ 2 * j - 1 \in 1..(2 * n) /\ 2 * j \in 1..(2 * n)
      BY <2>2
    <3> QED BY <1>2, <1>3, <3>1
  <2> QED BY <2>1, <2>2
<1>5. Whole(w)
  <2>1. n + 1 \in Nat /\ Len(w) = 2 * (n + 1)
    BY <1>3
  <2> QED BY <1>4, <2>1 DEF Whole
<1>6. FramesIn(w) = Append(FramesIn(s), f)
  <2>1. Len(s) \div 2 = n /\ Len(w) \div 2 = n + 1
    BY <1>2, <1>3
  <2>2. /\ FramesIn(s) = [j \in 1..n |-> s[2 * j].frame]
        /\ FramesIn(w) = [j \in 1..(n + 1) |-> w[2 * j].frame]
    BY <2>1 DEF FramesIn
  <2>3. w[2 * (n + 1)].frame = f
    BY <1>1, <1>3
  <2>4. \A j \in 1..n : w[2 * j] = s[2 * j]
    BY <1>3
  <2> DEFINE g == FramesIn(s)
  <2>5. Len(g) = n /\ DOMAIN g = 1..n /\ \A j \in 1..n : g[j] = s[2 * j].frame
    BY <2>2
  <2> HIDE DEF g
  <2>6. Append(g, f) = [j \in 1..(n + 1) |-> IF j <= n THEN g[j] ELSE f]
    <3>1. g = [j \in 1..n |-> g[j]]
      BY <2>2, <2>5 DEF g
    <3> QED BY <3>1, AtEitherEnd
  <2>7. \A j \in 1..(n + 1) : w[2 * j].frame = IF j <= n THEN g[j] ELSE f
    <3> TAKE j \in 1..(n + 1)
    <3>1. CASE j <= n
      BY <2>4, <2>5, <3>1
    <3>2. CASE ~(j <= n)
      <4>1. j = n + 1
        BY <3>2
      <4> QED BY <2>3, <3>2, <4>1
    <3> QED BY <3>1, <3>2
  <2> QED BY <2>2, <2>6, <2>7 DEF g
<1> QED BY <1>3, <1>5, <1>6 DEF w, b

(* A frame starts with its first beat and goes on with its last.           *)
LEMMA WholeFirst ==
    ASSUME NEW S, NEW w \in Seq(S), Whole(w), w # <<>>
    PROVE  /\ Head(w) = Lead(Head(w).frame) /\ Len(w) >= 2 /\ w[2] = Trail(Head(w).frame)
           /\ w = <<Head(w)>> \o Tail(w) /\ Head(w) \in S /\ Tail(w) \in Seq(S)
<1>1. PICK n \in Nat : /\ Len(w) = 2 * n
                      /\ \A j \in 1..n : /\ w[2 * j - 1] = Lead(w[2 * j].frame)
                                         /\ w[2 * j] = Trail(w[2 * j].frame)
  BY DEF Whole
<1>2. Len(w) # 0 /\ Head(w) = w[1]
  BY EmptySeq, HeadTailProperties
<1>3. n >= 1 /\ 1 \in 1..n /\ 2 * 1 - 1 = 1 /\ 2 * 1 = 2
  BY <1>1, <1>2
<1>4. w[1] = Lead(w[2].frame) /\ w[2] = Trail(w[2].frame)
  BY <1>1, <1>3
<1>5. w[1].frame = w[2].frame
  BY <1>4, LeadFacts
<1>6. /\ w = <<Head(w)>> \o Tail(w) /\ Head(w) \in S /\ Tail(w) \in Seq(S)
  BY HeadTailProperties, <1>2
<1> QED BY <1>1, <1>2, <1>3, <1>4, <1>5, <1>6

LEMMA WholeRest ==
    ASSUME NEW S, NEW x \in S, NEW w \in Seq(S), w # <<>>, Whole(<<x>> \o w)
    PROVE  /\ x = Lead(x.frame) /\ Head(w) = Trail(x.frame)
           /\ Tail(w) \in Seq(S) /\ Whole(Tail(w))
           /\ FramesIn(<<x>> \o w) = <<x.frame>> \o FramesIn(Tail(w))
<1> DEFINE v == <<x>> \o w
           r == Tail(w)
<1>1. /\ v \in Seq(S) /\ Len(v) = Len(w) + 1 /\ v[1] = x
      /\ \A i \in 1..Len(w) : v[i + 1] = w[i]
  <2>1. v \in Seq(S) /\ Len(v) = Len(<<x>>) + Len(w)
    BY ConcatProperties
  <2>2. \A i \in 1..(Len(<<x>>) + Len(w)) : v[i] = IF i <= Len(<<x>>) THEN <<x>>[i] ELSE w[i - Len(<<x>>)]
    BY ConcatProperties
  <2>3. Len(<<x>>) = 1 /\ <<x>>[1] = x /\ Len(w) \in Nat
    BY LenProperties
  <2> HIDE DEF v
  <2> QED BY <2>1, <2>2, <2>3
<1>2. /\ Len(w) \in Nat \ {0} /\ Len(r) = Len(w) - 1 /\ r \in Seq(S) /\ Head(w) = w[1]
      /\ \A i \in 1..Len(r) : r[i] = w[i + 1]
  BY EmptySeq, HeadTailProperties, LenProperties
<1>3. Whole(v)
  OBVIOUS
<1> HIDE DEF v, r
<1>4. PICK n \in Nat : /\ Len(v) = 2 * n
                      /\ \A j \in 1..n : /\ v[2 * j - 1] = Lead(v[2 * j].frame)
                                         /\ v[2 * j] = Trail(v[2 * j].frame)
  BY <1>3 DEF Whole
<1>5. n >= 1 /\ Len(r) = 2 * (n - 1) /\ n - 1 \in Nat
  BY <1>1, <1>2, <1>4
<1>6. \A i \in 1..Len(r) : r[i] = v[i + 2]
  <2> TAKE i \in 1..Len(r)
  <2>1. i + 1 \in 1..Len(w) /\ (i + 1) + 1 = i + 2
    BY <1>2
  <2> QED BY <1>1, <1>2, <2>1
<1>7. x = Lead(x.frame) /\ Head(w) = Trail(x.frame)
  <2>1. 1 \in 1..n /\ 2 * 1 - 1 = 1 /\ 2 * 1 = 2 /\ 1 \in 1..Len(w) /\ 1 + 1 = 2
    BY <1>2, <1>5
  <2>2. v[1] = Lead(v[2].frame) /\ v[2] = Trail(v[2].frame) /\ v[2] = w[1]
    BY <1>1, <1>4, <2>1
  <2>3. v[1].frame = v[2].frame
    BY <2>2, LeadFacts
  <2> QED BY <1>1, <1>2, <2>2, <2>3
<1>8. \A j \in 1..(n - 1) : /\ r[2 * j - 1] = v[2 * (j + 1) - 1] /\ r[2 * j] = v[2 * (j + 1)]
                           /\ j + 1 \in 1..n
  <2> TAKE j \in 1..(n - 1)
  <2>1. /\ 2 * j - 1 \in 1..Len(r) /\ 2 * j \in 1..Len(r) /\ j + 1 \in 1..n
        /\ (2 * j - 1) + 2 = 2 * (j + 1) - 1 /\ 2 * j + 2 = 2 * (j + 1)
    BY <1>5
  <2> QED BY <1>6, <2>1
<1>9. Whole(r)
  <2>1. \A j \in 1..(n - 1) : r[2 * j - 1] = Lead(r[2 * j].frame) /\ r[2 * j] = Trail(r[2 * j].frame)
    BY <1>4, <1>8
  <2> QED BY <1>5, <2>1 DEF Whole
<1>10. FramesIn(v) = <<x.frame>> \o FramesIn(r)
  <2>1. Len(v) \div 2 = n /\ Len(r) \div 2 = n - 1
    BY <1>4, <1>5
  <2> DEFINE g == FramesIn(r)
  <2>2. g = [j \in 1..(n - 1) |-> r[2 * j].frame] /\ FramesIn(v) = [j \in 1..n |-> v[2 * j].frame]
    BY <2>1 DEF FramesIn
  <2>3. Len(g) = n - 1 /\ \A j \in 1..(n - 1) : g[j] = r[2 * j].frame
    BY <1>5, <2>2
  <2> HIDE DEF g
  <2>4. <<x.frame>> \o g = [j \in 1..n |-> IF j <= 1 THEN x.frame ELSE g[j - 1]]
    <3>1. g = [j \in 1..(n - 1) |-> g[j]] /\ (n - 1) + 1 = n
      BY <1>5, <2>2, <2>3 DEF g
    <3>2. <<x.frame>> \o g = [j \in 1..((n - 1) + 1) |-> IF j <= 1 THEN x.frame ELSE g[j - 1]]
      BY <1>5, <3>1, AtEitherEnd
    <3> QED BY <3>1, <3>2
  <2>5. \A j \in 1..n : v[2 * j].frame = IF j <= 1 THEN x.frame ELSE g[j - 1]
    <3> TAKE j \in 1..n
    <3>1. CASE j = 1
      <4>1. 2 * j = 2 /\ 1 \in 1..Len(w) /\ 1 + 1 = 2
        BY <1>2, <3>1
      <4>2. v[2] = w[1] /\ w[1] = Trail(x.frame) /\ Trail(x.frame).frame = x.frame
        BY <1>1, <1>2, <1>7, <4>1, LeadFacts
      <4>3. j <= 1 /\ v[2 * j].frame = x.frame
        BY <3>1, <4>1, <4>2
      <4> QED BY <4>3
    <3>2. CASE j # 1
      <4>1. j - 1 \in 1..(n - 1) /\ (j - 1) + 1 = j /\ ~(j <= 1)
        BY <3>2
      <4>2. r[2 * (j - 1)] = v[2 * j]
        BY <1>8, <4>1
      <4> QED BY <2>3, <4>1, <4>2
    <3> QED BY <3>1, <3>2
  <2> QED BY <2>2, <2>4, <2>5 DEF g
<1> QED BY <1>2, <1>7, <1>9, <1>10 DEF v, r

(****************** places in the stream and their numbers *****************)
LEMMA SeqQuotient ==
    ASSUME NEW m \in Nat \ {0}, NEW x \in Int
    PROVE  x = m * (x \div m) + (x % m) /\ x \div m \in Int /\ x % m \in 0..(m - 1)
  OBVIOUS

LEMMA SeqRemainder ==
    ASSUME NEW m \in Nat \ {0}, NEW q1 \in Int, NEW r \in 0..(m - 1)
    PROVE  (m * q1 + r) % m = r
  OBVIOUS

LEMMA SeqMultiple ==
    ASSUME NEW m \in Nat \ {0}, NEW x \in Int, NEW k \in Int
    PROVE  (x + m * k) % m = x % m
<1> DEFINE d == x \div m
           r == x % m
<1>1. x = m * d + r /\ d \in Int /\ r \in 0..(m - 1)
  BY SeqQuotient
<1> HIDE DEF d, r
<1>2. x + m * k = m * (d + k) + r /\ d + k \in Int
  BY <1>1
<1>3. (m * (d + k) + r) % m = r
  BY <1>1, <1>2, SeqRemainder
<1> QED BY <1>2, <1>3 DEF r

LEMMA SeqSum ==
    ASSUME NEW m \in Nat \ {0}, NEW x \in Int, NEW k \in Int
    PROVE  ((x % m) + k) % m = (x + k) % m
<1> DEFINE d == x \div m
           r == x % m
<1>1. x = m * d + r /\ d \in Int /\ r \in Int
  BY SeqQuotient
<1> HIDE DEF d, r
<1>2. x + k = (r + k) + m * d /\ r + k \in Int
  BY <1>1
<1>3. ((r + k) + m * d) % m = (r + k) % m
  BY <1>1, <1>2, SeqMultiple
<1> QED BY <1>2, <1>3 DEF r

LEMMA SeqDifference ==
    ASSUME NEW m \in Nat \ {0}, NEW x \in Int, NEW y \in Int
    PROVE  (x - (y % m)) % m = (x - y) % m
<1> DEFINE e == y \div m
           r == y % m
<1>1. y = m * e + r /\ e \in Int /\ r \in Int
  BY SeqQuotient
<1> HIDE DEF e, r
<1>2. x - r = (x - y) + m * e /\ x - y \in Int
  BY <1>1
<1>3. ((x - y) + m * e) % m = (x - y) % m
  BY <1>1, <1>2, SeqMultiple
<1> QED BY <1>2, <1>3 DEF r

LEMMA PackType ==
    ASSUME NEW p, NEW body, p = sequenced(body)
    PROVE  /\ pack(p) = [k \in 1..4 |-> [pkt |-> p, at |-> k]]
           /\ pack(p) \in Seq({[pkt |-> p, at |-> k] : k \in 1..4})
<1>1. p.payload = <<body>>
  BY DEF sequenced, Packet
<1>2. Len(p.payload) = 1
  BY <1>1
<1>3. 2 + BodyLen(p) = 4
  BY <1>2 DEF BodyLen
<1>4. pack(p) = [k \in 1..4 |-> [pkt |-> p, at |-> k]]
  BY <1>3 DEF pack
<1>5. pack(p) \in [1..4 -> {[pkt |-> p, at |-> k] : k \in 1..4}]
  BY <1>4
<1> QED BY <1>4, <1>5

(* The stream is finite, and no longer than the numbers go round.          *)
LEMMA StreamEnds ==
    /\ Fin \in Nat /\ End = Fin + 1 /\ End \in Nat /\ End <= SeqSpace
    /\ SeqSpace \in Nat \ {0} /\ Irs \in 0..(SeqSpace - 1)
<1> DEFINE S == UNION {{[pkt |-> Replies[i], at |-> k] : k \in 1..4} : i \in 1..NReplies}
           ss == [i \in 1..NReplies |-> Frames(0)[i].payload]
<1>1. ASSUME NEW i \in 1..NReplies
      PROVE  ss[i] \in Seq(S)
  <2>1. Frames(0)[i].payload = pack(Replies[i])
    BY DEF Frames, tcp_frame
  <2>2. Replies[i] = sequenced(order_accepted(i - 1))
    BY DEF Replies
  <2>3. pack(Replies[i]) \in Seq({[pkt |-> Replies[i], at |-> k] : k \in 1..4})
    BY <2>2, PackType
  <2>4. {[pkt |-> Replies[i], at |-> k] : k \in 1..4} \subseteq S
    OBVIOUS
  <2> HIDE DEF S
  <2> QED BY <2>1, <2>3, <2>4, SeqMonotonic
<1> HIDE DEF S
<1>2. ss \in [1..NReplies -> Seq(S)]
  BY <1>1
<1>3. NReplies \in Nat
  BY GenAssumption
<1>4. ss \in Seq(Seq(S))
  BY <1>2, <1>3
<1>5. VenueStream \in Seq(S)
  BY <1>4, FlattenType DEF VenueStream
<1>6. Fin \in Nat
  BY <1>5, LenProperties DEF Fin
<1> QED BY <1>6, RxAssumption, CutsAssumption DEF End

(* The distance of two numbers is that of their places, wrapped.           *)
LEMMA DeltaOfPlaces ==
    ASSUME NEW x \in Int, NEW r \in Int
    PROVE  /\ (SeqAt(x) - SeqAt(r)) % SeqSpace = (x - r) % SeqSpace
           /\ SeqDelta(SeqAt(x), SeqAt(r)) =
                IF 2 * ((x - r) % SeqSpace) < SeqSpace THEN (x - r) % SeqSpace
                ELSE ((x - r) % SeqSpace) - SeqSpace
<1>1. SeqSpace \in Nat \ {0} /\ Irs \in Int
  BY StreamEnds
<1> DEFINE u == Irs + x
           v == Irs + r
<1>2. u \in Int /\ v \in Int /\ u - v = x - r
  BY <1>1
<1> HIDE DEF u, v
<1>3. (u % SeqSpace) \in Int
  BY <1>1, <1>2, SeqQuotient
<1>4. ((u % SeqSpace) - (v % SeqSpace)) % SeqSpace = ((u % SeqSpace) - v) % SeqSpace
  BY <1>1, <1>2, <1>3, SeqDifference
<1>5. ((u % SeqSpace) + (-v)) % SeqSpace = (u + (-v)) % SeqSpace
  <2>1. -v \in Int
    BY <1>2
  <2> QED BY <1>1, <1>2, <2>1, SeqSum
<1>6. (u % SeqSpace) - v = (u % SeqSpace) + (-v) /\ u + (-v) = x - r
  BY <1>2, <1>3
<1>7. (SeqAt(x) - SeqAt(r)) % SeqSpace = (x - r) % SeqSpace
  BY <1>4, <1>5, <1>6 DEF SeqAt, u, v
<1> QED BY <1>7 DEF SeqDelta

(* The number after n more places.                                         *)
LEMMA NumberAfter ==
    ASSUME NEW a \in Int, NEW n \in Int
    PROVE  /\ (SeqAt(a) + n) % SeqSpace = SeqAt(a + n)
           /\ \A r \in Int : SeqDelta(SeqAt(a) + n, SeqAt(r)) = SeqDelta(SeqAt(a + n), SeqAt(r))
<1>1. SeqSpace \in Nat \ {0} /\ Irs \in Int
  BY StreamEnds
<1>2. Irs + a \in Int /\ (Irs + a) + n = Irs + (a + n)
  BY <1>1
<1>3. (((Irs + a) % SeqSpace) + n) % SeqSpace = ((Irs + a) + n) % SeqSpace
  BY <1>1, <1>2, SeqSum
<1>4. (SeqAt(a) + n) % SeqSpace = SeqAt(a + n)
  BY <1>2, <1>3 DEF SeqAt
<1>5. ASSUME NEW r \in Int
      PROVE  SeqDelta(SeqAt(a) + n, SeqAt(r)) = SeqDelta(SeqAt(a + n), SeqAt(r))
  <2> DEFINE s == SeqAt(a) + n
             w == SeqAt(r)
  <2>1. SeqAt(a) \in Int /\ w \in Int
    <3>1. Irs + r \in Int
      BY <1>1
    <3> QED BY <1>1, <1>2, <3>1, SeqQuotient DEF SeqAt
  <2>2. s \in Int /\ s % SeqSpace = SeqAt(a + n) /\ -w \in Int
    BY <1>4, <2>1
  <2> HIDE DEF s, w
  <2>3. ((s % SeqSpace) + (-w)) % SeqSpace = (s + (-w)) % SeqSpace
    BY <1>1, <2>2, SeqSum
  <2>4. s % SeqSpace \in Int
    BY <1>1, <2>2, SeqQuotient
  <2>5. (SeqAt(a + n) - w) % SeqSpace = (s - w) % SeqSpace
    <3>1. (s % SeqSpace) + (-w) = SeqAt(a + n) - w /\ s + (-w) = s - w
      BY <2>1, <2>2, <2>4
    <3> QED BY <2>3, <3>1
  <2>6. SeqDelta(s, w) = SeqDelta(SeqAt(a + n), w)
    BY <2>5 DEF SeqDelta
  <2> QED BY <2>6 DEF s, w
<1> QED BY <1>4, <1>5

(* A segment the parser takes starts no later than the stream has come.    *)
LEMMA TakenInOrder ==
    ASSUME NEW a \in 0..End, NEW b \in 0..End, a < b, NEW r \in 0..End,
           \/ SeqDelta(SeqAt(a), SeqAt(r)) = 0
           \/ SeqDelta(SeqAt(a), SeqAt(r)) < 0 /\ SeqDelta(SeqAt(b), SeqAt(r)) > 0
    PROVE  a <= r
<1>1. /\ SeqSpace \in Nat \ {0} /\ End \in Nat /\ End <= SeqSpace
      /\ a \in Int /\ b \in Int /\ r \in Int
  BY StreamEnds
<1>2. SUFFICES ASSUME r < a PROVE FALSE
  BY <1>1
<1>3. a - r \in 1..(SeqSpace - 1) /\ b - r \in 1..SeqSpace /\ a - r < b - r
  BY <1>1, <1>2
<1>4. (a - r) % SeqSpace = a - r
  BY <1>1, <1>3
<1>5. (b - r) % SeqSpace = b - r \/ (b - r) % SeqSpace = 0
  <2>1. CASE b - r = SeqSpace
    BY <1>1, <2>1
  <2>2. CASE b - r # SeqSpace
    <3>1. b - r \in 0..(SeqSpace - 1)
      BY <1>1, <1>3, <2>2
    <3> QED BY <1>1, <3>1
  <2> QED BY <2>1, <2>2
<1> DEFINE x == (a - r) % SeqSpace
           y == (b - r) % SeqSpace
<1>6. /\ SeqDelta(SeqAt(a), SeqAt(r)) = IF 2 * x < SeqSpace THEN x ELSE x - SeqSpace
      /\ SeqDelta(SeqAt(b), SeqAt(r)) = IF 2 * y < SeqSpace THEN y ELSE y - SeqSpace
  BY <1>1, DeltaOfPlaces
<1>7. x = a - r /\ (y = b - r \/ y = 0)
  BY <1>4, <1>5
<1> HIDE DEF x, y
<1> QED BY <1>1, <1>3, <1>6, <1>7

(* Nor does the number say that it has come further than it has.           *)
LEMMA OffsetIsAtMost ==
    ASSUME NEW r \in 0..End
    PROVE  Offset(SeqAt(r)) \in Int /\ Offset(SeqAt(r)) <= r
<1>1. /\ SeqSpace \in Nat \ {0} /\ Irs \in 0..(SeqSpace - 1) /\ Irs \in Int
      /\ End \in Nat /\ End <= SeqSpace /\ r \in Int /\ r >= 0 /\ r <= SeqSpace
  BY StreamEnds
<1>2. SeqAt(0) = Irs
  BY <1>1 DEF SeqAt
<1> DEFINE x == (r - 0) % SeqSpace
<1>3. Offset(SeqAt(r)) = IF 2 * x < SeqSpace THEN x ELSE x - SeqSpace
  <2>1. 0 \in Int /\ r \in Int
    BY <1>1
  <2>2. SeqDelta(SeqAt(r), SeqAt(0)) = IF 2 * x < SeqSpace THEN x ELSE x - SeqSpace
    BY <2>1, DeltaOfPlaces
  <2> QED BY <1>2, <2>2 DEF Offset
<1>4. x \in Int /\ x <= r
  <2>1. CASE r = SeqSpace
    BY <1>1, <2>1
  <2>2. CASE r # SeqSpace
    <3>1. r - 0 \in 0..(SeqSpace - 1)
      BY <1>1, <2>2
    <3>2. x = r
      BY <1>1, <3>1
    <3> QED BY <1>1, <3>2
  <2> QED BY <2>1, <2>2
<1> HIDE DEF x
<1> QED BY <1>1, <1>3, <1>4

(************************ what is where on the path ************************)
SessionFrame == {Segment(a, b) : a \in 0..End, b \in 0..End} \cup {Ack, Stranger}
OrderFrame   == [dst : {"venue"}, n : Nat]

BeatOf(F)   == [frame : F, first : BOOLEAN, last : BOOLEAN]
SessionBeat == BeatOf(SessionFrame)
OrderBeat   == BeatOf(OrderFrame)
PathBeat    == BeatOf(SessionFrame \cup OrderFrame)

PathType ==
    /\ configured \in BOOLEAN /\ inFrame \in BOOLEAN /\ accept \in BOOLEAN
    /\ busy \in BOOLEAN /\ sel \in {0, 1} /\ dropped \in BOOLEAN
    /\ q \in Seq(PathBeat) /\ fbuf \in Seq(PathBeat) /\ records \in Seq(Seq(PathBeat))
    /\ line \in Seq(SessionBeat) /\ sess \in Seq(SessionBeat)
    /\ orders \in Seq(OrderBeat) /\ sent \in Seq(OrderFrame)

(* What the capture has of the frame it is taking.                         *)
Buf == fbuf \o q

CaptureInv ==
    /\ Len(q) <= 1 /\ Len(Buf) <= 2
    /\ Len(Buf) = 2 => Whole(Buf)
    /\ Len(Buf) = 1 => busy
    /\ \/ cst = "C_DRAIN" /\ Len(fbuf) = 2 /\ q = <<>>
       \/ cst = "C_ACC" /\ Len(fbuf) <= 1
    /\ full => Buf = <<>>

(* The frames of either source, from what the capture has begun of them on *)
(* to what is still to come of the frame that is arriving.                 *)
Carry(i)  == IF Len(Buf) = 1 /\ sel = i THEN Buf ELSE <<>>
Passing   == IF accept THEN line ELSE <<>>
OrderPipe == Carry(0) \o orders
SessPipe  == Carry(1) \o (sess \o Passing)

PipeInv == Whole(OrderPipe) /\ (~full => Whole(SessPipe))

CoreInv ==
    /\ \/ line = <<>> /\ ~inFrame
       \/ inFrame /\ \E f \in SessionFrame : line = <<Trail(f)>>
    /\ ~full => Len(sess) <= 2 /\ (line # <<>> => Len(sess) <= 1)
    /\ dropped => full

RecordInv == \A i \in 1..Len(records) : records[i] = FrameBeats(Head(records[i]).frame)

(* The orders, wherever they are.                                          *)
Complete == IF Len(Buf) = 2 THEN Host!OrderLine(Head(Buf).frame) ELSE <<>>

OrderInv == sent = (Host!Printed(records) \o Complete) \o FramesIn(OrderPipe)

(* The stream has come to r, and all before is kept.                       *)
Kept(k) == \E f \in InMemory \cup OnItsWay : Carries(f, k)

StreamInv ==
    configured =>
      \E r \in 0..End :
        /\ rcvNxt = SeqAt(r)
        /\ ~dropped => \A k \in 1..Fin : k <= r => Kept(k)

PathInv ==
    PathType /\ CaptureInv /\ PipeInv /\ CoreInv /\ RecordInv /\ OrderInv /\ StreamInv

LEMMA ShortSeq ==
    ASSUME NEW S, NEW s \in Seq(S)
    PROVE  /\ Len(s) \in Nat /\ (Len(s) = 0 <=> s = <<>>)
           /\ s # <<>> => /\ Head(s) \in S /\ Head(s) = s[1] /\ Tail(s) \in Seq(S)
                          /\ Len(Tail(s)) = Len(s) - 1
           /\ Len(s) = 1 => s = <<Head(s)>>
<1>1. Len(s) \in Nat /\ (Len(s) = 0 <=> s = <<>>)
  BY EmptySeq, LenProperties
<1>2. s # <<>> => /\ Head(s) \in S /\ Head(s) = s[1] /\ Tail(s) \in Seq(S)
                  /\ Len(Tail(s)) = Len(s) - 1
  BY HeadTailProperties
<1>3. Len(s) = 1 => s = <<Head(s)>>
  <2> SUFFICES ASSUME Len(s) = 1 PROVE s = <<Head(s)>>
    OBVIOUS
  <2>1. s # <<>> /\ Head(s) \in S /\ Head(s) = s[1]
    BY <1>1, <1>2
  <2>2. /\ <<Head(s)>> \in Seq(S) /\ Len(<<Head(s)>>) = 1 /\ <<Head(s)>>[1] = s[1]
    BY <2>1
  <2>3. \A i \in 1..Len(s) : s[i] = <<Head(s)>>[i]
    BY <2>2
  <2> QED BY <2>2, <2>3, SeqEqual
<1> QED BY <1>1, <1>2, <1>3

LEMMA UpToTwo ==
    ASSUME NEW a \in Nat, NEW b \in Nat, NEW c \in Nat, c = a + b, a <= 1, b <= 1
    PROVE  /\ c = 2 => a = 1 /\ b = 1
           /\ c # 2 /\ b # 0 => a = 0 /\ b = 1 /\ c = 1
           /\ c # 2 => c <= 1
  OBVIOUS

LEMMA PathBeats ==
    ASSUME PathType
    PROVE  /\ Buf \in Seq(PathBeat) /\ Len(Buf) = Len(fbuf) + Len(q)
           /\ orders \in Seq(PathBeat) /\ sess \in Seq(PathBeat) /\ Passing \in Seq(PathBeat)
           /\ \A i : Carry(i) \in Seq(PathBeat)
           /\ OrderPipe \in Seq(PathBeat) /\ SessPipe \in Seq(PathBeat)
           /\ SessionBeat \subseteq PathBeat /\ OrderBeat \subseteq PathBeat
<1>1. Buf \in Seq(PathBeat) /\ Len(Buf) = Len(fbuf) + Len(q)
  BY ConcatProperties DEF PathType, Buf
<1>2. SessionBeat \subseteq PathBeat /\ OrderBeat \subseteq PathBeat
  BY DEF SessionBeat, OrderBeat, PathBeat, BeatOf
<1>3. orders \in Seq(PathBeat) /\ sess \in Seq(PathBeat) /\ line \in Seq(PathBeat)
  BY <1>2, SeqMonotonic DEF PathType
<1>4. <<>> \in Seq(PathBeat)
  BY EmptySeq
<1>5. Passing \in Seq(PathBeat) /\ \A i : Carry(i) \in Seq(PathBeat)
  BY <1>1, <1>3, <1>4 DEF Passing, Carry
<1>6. sess \o Passing \in Seq(PathBeat)
  BY <1>3, <1>5, ConcatProperties
<1>7. OrderPipe \in Seq(PathBeat) /\ SessPipe \in Seq(PathBeat)
  BY <1>3, <1>5, <1>6, ConcatProperties DEF OrderPipe, SessPipe
<1> QED BY <1>1, <1>2, <1>3, <1>5, <1>7

(* What is begun is begun with a first beat.                               *)
LEMMA BegunWithLead ==
    ASSUME PathType, CaptureInv, PipeInv, Len(Buf) = 1
    PROVE  Buf = <<Head(Buf)>> /\ Head(Buf) \in PathBeat /\ Head(Buf) = Lead(Head(Buf).frame) /\ ~full
<1>1. Buf \in Seq(PathBeat) /\ Buf = <<Head(Buf)>> /\ Head(Buf) \in PathBeat /\ Buf # <<>>
  <2>1. Buf \in Seq(PathBeat)
    BY PathBeats
  <2>2. Len(Buf) # 0
    OBVIOUS
  <2> QED BY <2>1, <2>2, ShortSeq
<1>2. ~full
  BY <1>1 DEF CaptureInv
<1>3. ASSUME NEW w \in Seq(PathBeat), Whole(Buf \o w)
      PROVE  Head(Buf) = Lead(Head(Buf).frame)
  <2> DEFINE p == Buf \o w
  <2>1. p \in Seq(PathBeat) /\ p # <<>> /\ Head(p) = Head(Buf)
    <3>1. p \in Seq(PathBeat) /\ Len(p) = Len(Buf) + Len(w) /\ Len(w) \in Nat
      BY <1>1, <1>3, ConcatProperties, LenProperties
    <3>2. p[1] = Buf[1]
      BY <1>1, <1>3, <3>1, ConcatProperties
    <3> HIDE DEF p
    <3> QED BY <1>1, <3>1, <3>2, ShortSeq
  <2>2. Whole(p)
    BY <1>3
  <2> HIDE DEF p
  <2> QED BY <2>1, <2>2, WholeFirst
<1>4. sel \in {0, 1}
  BY DEF PathType
<1>5. CASE sel = 0
  <2>1. OrderPipe = Buf \o orders /\ orders \in Seq(PathBeat)
    BY <1>5, PathBeats DEF OrderPipe, Carry
  <2> QED BY <1>1, <1>2, <1>3, <2>1 DEF PipeInv
<1>6. CASE sel = 1
  <2>1. SessPipe = Buf \o (sess \o Passing) /\ sess \o Passing \in Seq(PathBeat)
    <3>1. sess \o Passing \in Seq(PathBeat)
      BY PathBeats, ConcatProperties
    <3> QED BY <1>6, <3>1 DEF SessPipe, Carry
  <2> QED BY <1>1, <1>2, <1>3, <2>1 DEF PipeInv
<1> QED BY <1>4, <1>5, <1>6

LEMMA CaptureFacts ==
    ASSUME PathType, CaptureInv, PipeInv
    PROVE  /\ cst = "C_DRAIN" \/ cst = "C_ACC"
           /\ cst = "C_DRAIN" => Len(Buf) = 2 /\ Buf = fbuf /\ q = <<>>
           /\ cst = "C_ACC" => Len(fbuf) <= 1
           /\ cst = "C_ACC" => (LastIn(q) <=> Len(Buf) = 2)
           /\ CaptureReady => cst = "C_ACC" /\ Len(Buf) <= 1 /\ ~full
<1>1. /\ fbuf \in Seq(PathBeat) /\ q \in Seq(PathBeat) /\ Buf \in Seq(PathBeat)
      /\ Len(Buf) = Len(fbuf) + Len(q) /\ Len(fbuf) \in Nat /\ Len(q) \in Nat
  BY PathBeats, LenProperties DEF PathType
<1>2. /\ Len(Buf) = Len(fbuf) + Len(q) /\ Len(fbuf) \in Nat /\ Len(q) \in Nat
      /\ Len(Buf) \in Nat
  BY <1>1
<1>3. cst = "C_DRAIN" => Len(Buf) = 2 /\ Buf = fbuf /\ q = <<>>
  <2> SUFFICES ASSUME cst = "C_DRAIN" PROVE Len(Buf) = 2 /\ Buf = fbuf /\ q = <<>>
    OBVIOUS
  <2>1. Len(fbuf) = 2 /\ q = <<>>
    BY DEF CaptureInv
  <2>2. fbuf \o <<>> = fbuf
    BY <1>1, ConcatEmptySeq
  <2> QED BY <2>1, <2>2 DEF Buf
<1>4. cst = "C_ACC" => (LastIn(q) <=> Len(Buf) = 2)
  <2> SUFFICES ASSUME cst = "C_ACC" PROVE LastIn(q) <=> Len(Buf) = 2
    OBVIOUS
  <2>1. Len(fbuf) <= 1 /\ Len(q) <= 1 /\ Len(Buf) <= 2
    BY DEF CaptureInv
  <2>2. CASE Len(Buf) = 2
    <3>1. Len(q) = 1 /\ Len(fbuf) = 1
      BY <1>2, <2>1, <2>2, UpToTwo
    <3>2. q # <<>> /\ Head(q) = q[1]
      BY <1>1, <3>1, ShortSeq
    <3>3. Buf[2] = q[1]
      <4>1. 2 \in 1..(Len(fbuf) + Len(q)) /\ ~(2 <= Len(fbuf)) /\ 2 - Len(fbuf) = 1
        BY <3>1
      <4> QED BY <1>1, <4>1, ConcatProperties DEF Buf
    <3>4. Whole(Buf) /\ Buf # <<>>
      <4>1. Len(Buf) # 0
        BY <2>2
      <4> QED BY <1>1, <2>2, <4>1, ShortSeq DEF CaptureInv
    <3>5. Buf[2] = Trail(Head(Buf).frame)
      BY <1>1, <3>4, WholeFirst
    <3>6. Head(q).last = TRUE
      <4>1. Head(q) = Trail(Head(Buf).frame)
        BY <3>2, <3>3, <3>5
      <4> QED BY ONLY <4>1, LeadFacts
    <3> QED BY <2>2, <3>2, <3>6 DEF LastIn
  <2>3. CASE Len(Buf) # 2
    <3>1. ASSUME q # <<>> PROVE ~Head(q).last
      <4>0. Len(q) # 0
        BY <1>1, <3>1, ShortSeq
      <4>1. Len(q) = 1 /\ Len(fbuf) = 0 /\ Len(Buf) = 1
        BY <1>2, <2>1, <2>3, <4>0, UpToTwo
      <4>2. fbuf = <<>> /\ Buf = q
        BY <1>1, <4>1, ShortSeq, ConcatEmptySeq DEF Buf
      <4>3. Head(Buf) = Lead(Head(Buf).frame)
        BY <4>1, BegunWithLead
      <4> QED BY <4>2, <4>3, LeadFacts
    <3> QED BY <2>3, <3>1 DEF LastIn
  <2> QED BY <2>2, <2>3
<1>5. CaptureReady => cst = "C_ACC" /\ Len(Buf) <= 1 /\ ~full
  <2>1. Len(Buf) <= 2
    BY DEF CaptureInv
  <2>2. Len(Buf) # 2 => Len(Buf) <= 1
    BY ONLY <1>2, <2>1
  <2> QED BY <1>4, <2>2 DEF CaptureReady
<1>6. cst = "C_ACC" => Len(fbuf) <= 1
  BY DEF CaptureInv
<1>7. cst = "C_DRAIN" \/ cst = "C_ACC"
  BY DEF CaptureInv
<1> QED BY <1>3, <1>4, <1>5, <1>6, <1>7

(************************ a clock of the shell *****************************)
(* Nothing moves on, a frame is stored, or a beat of one of the sources is *)
(* taken.                                                                  *)
Rests  == /\ Buf' = Buf /\ records' = records /\ orders' = orders /\ sess' = sess
          /\ Len(Buf) = 1 => busy' = busy /\ sel' = sel
Stores == /\ Len(Buf) = 2 /\ records' = Append(records, Buf) /\ Buf' = <<>>
          /\ orders' = orders /\ sess' = sess

TakesBeat(i, x) == /\ Len(Buf) <= 1 /\ ~full /\ (Len(Buf) = 1 => sel = i)
                /\ Buf' = Append(Buf, x) /\ records' = records
                /\ sel' = i /\ busy' = ~x.last
TakesOrder == /\ orders # <<>> /\ TakesBeat(0, Head(orders))
              /\ orders' = Tail(orders) /\ sess' = sess
TakesReply == /\ sess # <<>> /\ TakesBeat(1, Head(sess))
              /\ sess' = Tail(sess) /\ orders' = orders

Shape == /\ Len(q) <= 1 /\ q \in Seq(PathBeat) /\ fbuf \in Seq(PathBeat)
         /\ \/ cst = "C_DRAIN" /\ Len(fbuf) = 2 /\ q = <<>>
            \/ cst = "C_ACC" /\ Len(fbuf) <= 1

Elsewhere == UNCHANGED <<rxVars, line, dropped, sent>>

(* Without room for a beat nothing is taken.                               *)
LEMMA NotReadyStep ==
    ASSUME PathType, CaptureInv, PipeInv, NEW answered \in BOOLEAN, ShellTick(answered),
           ~CaptureReady
    PROVE  (Rests \/ Stores) /\ Shape' /\ busy' \in BOOLEAN /\ sel' \in {0, 1}
<1>1. /\ fbuf \in Seq(PathBeat) /\ q \in Seq(PathBeat) /\ Buf \in Seq(PathBeat)
      /\ <<>> \in Seq(PathBeat) /\ Len(<<>>) = 0
      /\ Len(Buf) \in Nat /\ Len(fbuf) \in Nat
  BY PathBeats, LenProperties, EmptySeq DEF PathType
<1>2. q' = <<>> /\ orders' = orders /\ sess' = sess
  BY DEF ShellTick, CaptureTick, Left, Granted
<1>3. Buf' = fbuf' \o <<>>
  BY <1>2 DEF Buf
<1>4. busy' \in BOOLEAN /\ sel' \in {0, 1} /\ (busy => busy' = busy /\ sel' = sel)
  <2>1. ArbTick(Offered(orders), Offered(sess), CaptureReady)
    BY DEF ShellTick
  <2>2. busy \in BOOLEAN /\ sel \in {0, 1}
    BY DEF PathType
  <2>3. \A m : ~Done(m, CaptureReady)
    BY DEF Done
  <2> DEFINE m == Arbitrated(Offered(orders), Offered(sess))
  <2>4. busy' = ((busy \/ m # <<>>) /\ ~Done(m, CaptureReady))
    BY <2>1 DEF ArbTick
  <2>5. sel' = IF ~busy /\ m # <<>> THEN pick(Offered(orders)) ELSE sel
    BY <2>1 DEF ArbTick
  <2>6. pick(Offered(orders)) \in {0, 1}
    BY <2>2 DEF pick
  <2> HIDE DEF m
  <2> QED BY <2>2, <2>3, <2>4, <2>5, <2>6
<1>5. Len(Buf) = 1 => busy
  BY DEF CaptureInv
<1>6. CASE cst = "C_DRAIN"
  <2>1. Len(Buf) = 2 /\ Buf = fbuf /\ q = <<>>
    BY <1>6, CaptureFacts
  <2>2. Drain(answered)
    BY <1>6 DEF ShellTick, CaptureTick
  <2>3. CASE answered
    <3>1. records' = Append(records, fbuf) /\ fbuf' = <<>> /\ cst' = "C_ACC"
      BY <2>2, <2>3 DEF Drain
    <3>2. Buf' = <<>>
      BY <1>1, <1>3, <3>1, ConcatEmptySeq
    <3>3. Stores
      BY <1>2, <2>1, <3>1, <3>2 DEF Stores
    <3> QED BY <1>1, <1>2, <1>4, <3>1, <3>3 DEF Shape
  <2>4. CASE ~answered
    <3>1. records' = records /\ fbuf' = fbuf /\ cst' = cst
      BY <2>2, <2>4 DEF Drain
    <3>2. Buf' = Buf
      BY <1>3, <2>1, <3>1 DEF Buf
    <3>3. Rests
      BY <1>2, <1>4, <1>5, <3>1, <3>2 DEF Rests
    <3> QED BY <1>1, <1>2, <1>4, <1>6, <2>1, <3>1, <3>3 DEF Shape
  <2> QED BY <2>3, <2>4
<1>7. CASE cst = "C_ACC"
  <2>1. Accumulate
    BY <1>7 DEF ShellTick, CaptureTick
  <2>2. LastIn(q) <=> Len(Buf) = 2
    BY <1>7, CaptureFacts
  <2>3. ~(Len(Buf) = RecordBeats /\ ~LastIn(q))
    <3>1. Len(Buf) <= 2 /\ RecordBeats >= 2 /\ RecordBeats \in Nat
      BY RoomAssumption, CaptureAssumption DEF CaptureInv
    <3>2. Len(Buf) \in Nat
      BY <1>1
    <3>3. Len(Buf) = RecordBeats => Len(Buf) = 2
      BY ONLY <3>1, <3>2
    <3> QED BY <2>2, <3>3
  <2>4. fbuf' = Buf /\ records' = records /\ cst' = IF LastIn(q) THEN "C_DRAIN" ELSE "C_ACC"
    BY <2>1, <2>3 DEF Accumulate, Buf
  <2>5. Buf' = Buf
    BY <1>1, <1>3, <2>4, ConcatEmptySeq
  <2>6. Rests
    BY <1>2, <1>4, <1>5, <2>4, <2>5 DEF Rests
  <2>7. Len(Buf) <= 2
    BY DEF CaptureInv
  <2>8. Shape'
    <3>1. Len(Buf) # 2 => Len(Buf) <= 1
      <4>1. Len(Buf) \in Nat
        BY <1>1
      <4>2. \A n \in Nat : n <= 2 /\ n # 2 => n <= 1
        OBVIOUS
      <4> QED BY ONLY <2>7, <4>1, <4>2
    <3>2. Len(q') <= 1 /\ q' \in Seq(PathBeat) /\ fbuf' \in Seq(PathBeat)
      BY <1>1, <1>2, <2>4
    <3>3. CASE Len(Buf) = 2
      BY <1>2, <2>2, <2>4, <3>2, <3>3 DEF Shape
    <3>4. CASE Len(Buf) # 2
      BY <2>2, <2>4, <3>1, <3>2, <3>4 DEF Shape
    <3> QED BY <3>3, <3>4
  <2> QED BY <1>4, <2>6, <2>8
<1> QED BY <1>6, <1>7, CaptureFacts

(* With room, what the arbiter picks is taken.                             *)
LEMMA ReadyStep ==
    ASSUME PathType, CaptureInv, PipeInv, NEW answered \in BOOLEAN, ShellTick(answered),
           CaptureReady
    PROVE  (Rests \/ TakesOrder \/ TakesReply) /\ Shape' /\ busy' \in BOOLEAN /\ sel' \in {0, 1}
<1> DEFINE m == Arbitrated(Offered(orders), Offered(sess))
           p == pick(Offered(orders))
<1>1. /\ fbuf \in Seq(PathBeat) /\ q \in Seq(PathBeat) /\ Buf \in Seq(PathBeat)
      /\ <<>> \in Seq(PathBeat) /\ Len(<<>>) = 0
      /\ Len(Buf) \in Nat /\ Len(fbuf) \in Nat
      /\ orders \in Seq(PathBeat) /\ sess \in Seq(PathBeat)
      /\ busy \in BOOLEAN /\ sel \in {0, 1}
  BY PathBeats, LenProperties, EmptySeq DEF PathType
<1>2. cst = "C_ACC" /\ Len(Buf) <= 1 /\ ~full /\ ~LastIn(q)
  BY CaptureFacts DEF CaptureReady
<1>3. q' = m /\ Accumulate
  BY <1>2 DEF ShellTick, CaptureTick
<1>4. fbuf' = Buf /\ records' = records /\ cst' = "C_ACC"
  <2>1. Len(Buf) # RecordBeats
    BY <1>1, <1>2, RoomAssumption, CaptureAssumption
  <2> QED BY <1>2, <1>3, <2>1 DEF Accumulate, Buf
<1>5. Buf' = Buf \o m
  BY <1>3, <1>4 DEF Buf
<1>6. /\ busy' = ((busy \/ m # <<>>) /\ ~(m # <<>> /\ Head(m).last))
      /\ sel' = IF ~busy /\ m # <<>> THEN p ELSE sel
  BY DEF ShellTick, ArbTick, Done
<1>7. /\ orders' = IF p = 0 /\ m # <<>> THEN Tail(orders) ELSE orders
      /\ sess' = IF p = 1 /\ m # <<>> THEN Tail(sess) ELSE sess
  BY DEF ShellTick, Left, Granted
<1>8. p \in {0, 1} /\ (busy => p = sel) /\ m = IF p = 0 THEN Offered(orders) ELSE Offered(sess)
  BY <1>1 DEF pick, Arbitrated
<1>9. Len(Buf) = 1 => busy
  BY DEF CaptureInv
<1> HIDE DEF m, p
<1>10. CASE m = <<>>
  <2>1. Buf' = Buf
    BY <1>1, <1>5, <1>10, ConcatEmptySeq
  <2>2. Rests
    BY <1>4, <1>6, <1>7, <1>9, <1>10, <2>1 DEF Rests
  <2>3. Shape'
    BY <1>1, <1>2, <1>3, <1>4, <1>10 DEF Shape
  <2> QED BY <1>1, <1>6, <1>10, <2>2, <2>3
<1>11. ASSUME NEW beats \in Seq(PathBeat), m = Offered(beats), m # <<>>
       PROVE  /\ beats # <<>> /\ m = <<Head(beats)>> /\ Head(beats) \in PathBeat
              /\ Buf' = Append(Buf, Head(beats)) /\ Shape' /\ Head(m) = Head(beats)
  <2>1. beats # <<>> /\ m = <<Head(beats)>>
    BY <1>11 DEF Offered
  <2>2. Head(beats) \in PathBeat
    BY <1>11, <2>1, ShortSeq
  <2>3. Buf' = Append(Buf, Head(beats))
    BY <1>1, <1>5, <2>1, <2>2, AppendIsConcat
  <2>4. m \in Seq(PathBeat) /\ Len(m) = 1 /\ Head(m) = Head(beats)
    BY <2>1, <2>2
  <2>5. Shape'
    BY <1>1, <1>2, <1>3, <1>4, <2>4 DEF Shape
  <2> QED BY <2>1, <2>2, <2>3, <2>4, <2>5
<1>12. ASSUME m # <<>> PROVE sel' = p /\ busy' = ~Head(m).last /\ (Len(Buf) = 1 => sel = p)
  <2>1. sel' = p /\ (Len(Buf) = 1 => sel = p)
    BY <1>6, <1>8, <1>9, <1>12
  <2>2. busy' = ~Head(m).last
    BY <1>6, <1>12
  <2> QED BY <2>1, <2>2
<1>13. CASE m # <<>> /\ p = 0
  <2>1. m = Offered(orders)
    BY <1>8, <1>13
  <2>2. TakesOrder
    BY <1>1, <1>2, <1>4, <1>7, <1>11, <1>12, <1>13, <2>1 DEF TakesOrder, TakesBeat
  <2> QED BY <1>1, <1>11, <1>12, <1>13, <2>1, <2>2 DEF TakesOrder
<1>14. CASE m # <<>> /\ p = 1
  <2>1. m = Offered(sess)
    BY <1>8, <1>14
  <2>2. TakesReply
    BY <1>1, <1>2, <1>4, <1>7, <1>11, <1>12, <1>14, <2>1 DEF TakesReply, TakesBeat
  <2> QED BY <1>1, <1>11, <1>12, <1>14, <2>1, <2>2 DEF TakesReply
<1> QED BY <1>8, <1>10, <1>13, <1>14

LEMMA ShellStep ==
    ASSUME PathType, CaptureInv, PipeInv, NEW answered \in BOOLEAN, ShellTick(answered)
    PROVE  /\ Rests \/ Stores \/ TakesOrder \/ TakesReply
           /\ Shape' /\ busy' \in BOOLEAN /\ sel' \in {0, 1} /\ Elsewhere
<1>1. Elsewhere
  BY DEF ShellTick, Elsewhere
<1>2. CASE CaptureReady
  BY <1>1, <1>2, ReadyStep
<1>3. CASE ~CaptureReady
  BY <1>1, <1>3, NotReadyStep
<1> QED BY <1>2, <1>3

(*********************** the frames that are kept **************************)
FramesOf(s) == {b.frame : b \in Range(s)}

LEMMA FramesOfFacts ==
    ASSUME NEW S, NEW s \in Seq(S), NEW t \in Seq(S)
    PROVE  /\ FramesOf(s \o t) = FramesOf(s) \cup FramesOf(t)
           /\ s # <<>> => FramesOf(s) = {Head(s).frame} \cup FramesOf(Tail(s))
           /\ \A x \in S : FramesOf(Append(s, x)) = FramesOf(s) \cup {x.frame}
           /\ FramesOf(<<>>) = {}
<1>1. Range(s \o t) = Range(s) \cup Range(t)
  BY RangeConcatenation
<1>2. \A u \in Seq(S) : Range(u) = {u[i] : i \in 1..Len(u)}
  BY RangeEquality
<1>3. ASSUME s # <<>> PROVE Range(s) = {Head(s)} \cup Range(Tail(s))
  <2>1. /\ Len(s) \in Nat \ {0} /\ Tail(s) \in Seq(S) /\ Len(Tail(s)) = Len(s) - 1 /\ Head(s) = s[1]
        /\ \A i \in 1..Len(Tail(s)) : Tail(s)[i] = s[i + 1]
    BY <1>3, ShortSeq, HeadTailProperties
  <2> DEFINE u == Tail(s)
             n == Len(s)
  <2>2. Range(s) = {s[i] : i \in 1..n} /\ Range(u) = {u[i] : i \in 1..(n - 1)}
    BY <1>2, <2>1
  <2>3. n \in Nat \ {0} /\ \A i \in 1..(n - 1) : u[i] = s[i + 1]
    BY <2>1
  <2> HIDE DEF u, n
  <2>4. ASSUME NEW i \in 1..n PROVE s[i] = s[1] \/ \E j \in 1..(n - 1) : s[i] = u[j]
    <3>1. CASE i = 1
      BY <3>1
    <3>2. CASE i # 1
      <4>1. i - 1 \in 1..(n - 1) /\ (i - 1) + 1 = i
        BY <2>3, <3>2
      <4> QED BY <2>3, <4>1
    <3> QED BY <3>1, <3>2
  <2>5. ASSUME NEW j \in 1..(n - 1) PROVE \E i \in 1..n : u[j] = s[i]
    <3>1. j + 1 \in 1..n
      BY <2>3
    <3> QED BY <2>3, <3>1
  <2>6. 1 \in 1..n
    BY <2>3
  <2>7. Range(s) = {s[1]} \cup Range(u)
    BY <2>2, <2>4, <2>5, <2>6
  <2> QED BY <2>1, <2>7 DEF u
<1>4. ASSUME NEW x \in S PROVE Range(Append(s, x)) = Range(s) \cup {x}
  <2>1. <<x>> \in Seq(S) /\ Append(s, x) = s \o <<x>>
    BY AppendIsConcat
  <2>2. Range(<<x>>) = {x}
    BY DEF Range
  <2>3. Range(s \o <<x>>) = Range(s) \cup Range(<<x>>)
    BY <2>1, RangeConcatenation
  <2> QED BY ONLY <2>1, <2>2, <2>3
<1>5. Range(<<>>) = {}
  BY DEF Range
<1> QED BY <1>1, <1>3, <1>4, <1>5 DEF FramesOf

LEMMA OnItsWayIs ==
    ASSUME PathType
    PROVE  OnItsWay = FramesOf(Buf) \cup FramesOf(sess)
<1>1. Buf \in Seq(PathBeat) /\ sess \in Seq(PathBeat)
  BY PathBeats
<1>2. OnItsWay = FramesOf(Buf \o sess)
  BY DEF OnItsWay, FramesOf, Buf
<1> QED BY <1>1, <1>2, FramesOfFacts

(* A step that takes nothing from the stream and loses no frame.           *)
LEMMA StreamStays ==
    ASSUME StreamInv, configured' => configured, rcvNxt' = rcvNxt, dropped => dropped',
           ~dropped' => (InMemory \cup OnItsWay) \subseteq (InMemory \cup OnItsWay)'
    PROVE  StreamInv'
<1> SUFFICES ASSUME configured' PROVE \E r \in 0..End :
        /\ rcvNxt' = SeqAt(r)
        /\ ~dropped' => \A k \in 1..Fin : k <= r => Kept(k)'
  BY DEF StreamInv
<1> DEFINE Upto(r) == \A k \in 1..Fin : k <= r => Kept(k)
<1>1. \E r \in 0..End : rcvNxt = SeqAt(r) /\ (~dropped => Upto(r))
  BY DEF StreamInv
<1> HIDE DEF Upto
<1>2. PICK r \in 0..End : rcvNxt = SeqAt(r) /\ (~dropped => Upto(r))
  BY <1>1
<1>3. ASSUME ~dropped', NEW k \in 1..Fin, k <= r PROVE Kept(k)'
  <2>0. Kept(k)
    BY <1>2, <1>3 DEF Upto
  <2>1. PICK f \in InMemory \cup OnItsWay : Carries(f, k)
    BY <2>0 DEF Kept
  <2>2. f \in (InMemory \cup OnItsWay)'
    BY <1>3, <2>1
  <2> QED BY <2>1, <2>2 DEF Kept, Carries
<1>4. rcvNxt' = SeqAt(r)
  BY <1>2
<1> QED BY <1>3, <1>4

LEMMA InMemoryStored ==
    ASSUME PathType, NEW buf \in Seq(PathBeat), records' = Append(records, buf)
    PROVE  InMemory' = InMemory \cup {Head(buf).frame}
<1>1. /\ Len(records) \in Nat /\ Len(records') = Len(records) + 1
      /\ \A i \in 1..Len(records) : records'[i] = records[i]
      /\ records'[Len(records) + 1] = buf
  BY AppendProperties, LenProperties DEF PathType
<1> DEFINE n == Len(records)
<1>2. InMemory' = {Head(records'[i]).frame : i \in 1..(n + 1)}
  BY <1>1 DEF InMemory
<1>3. InMemory = {Head(records[i]).frame : i \in 1..n}
  BY DEF InMemory
<1>4. n \in Nat /\ \A i \in 1..(n + 1) : i \in 1..n \/ i = n + 1
  BY <1>1
<1>5. \A i \in 1..n : i \in 1..(n + 1)
  BY <1>4
<1>6. n + 1 \in 1..(n + 1)
  BY <1>4
<1> HIDE DEF n
<1>7. /\ \A i \in 1..n : records'[i] = records[i]
      /\ records'[n + 1] = buf
  BY <1>1 DEF n
<1> QED BY <1>2, <1>3, <1>4, <1>5, <1>6, <1>7

(*********************** the orders that are printed ***********************)
PathFrame == SessionFrame \cup OrderFrame

LEMMA LineOfFrame ==
    /\ \A f \in SessionFrame : Host!OrderLine(f) = <<>>
    /\ \A f \in OrderFrame : Host!OrderLine(f) = <<f>>
    /\ \A f \in PathFrame : Host!OrderLine(f) \in Seq(PathFrame)
<1>1. ASSUME NEW f \in SessionFrame PROVE Host!OrderLine(f) = <<>>
  <2>1. f.dst = "card"
    <3>1. \A a, b : Segment(a, b).dst = "card"
      BY DEF Segment, tcp_frame
    <3>2. Ack.dst = "card" /\ Stranger.dst = "card"
      BY DEF Ack, Stranger, tcp_frame
    <3> QED BY <3>1, <3>2 DEF SessionFrame
  <2>2. Host!classify(f) = "reply"
    BY <2>1 DEF Host!classify
  <2> QED BY <2>2 DEF Host!OrderLine
<1>2. ASSUME NEW f \in OrderFrame PROVE Host!OrderLine(f) = <<f>>
  <2>1. f.dst = "venue"
    BY DEF OrderFrame
  <2>2. Host!classify(f) = "tcp"
    BY <2>1 DEF Host!classify
  <2> QED BY <2>2 DEF Host!OrderLine
<1>3. ASSUME NEW f \in PathFrame PROVE Host!OrderLine(f) \in Seq(PathFrame)
  <2>1. <<>> \in Seq(PathFrame) /\ <<f>> \in Seq(PathFrame)
    BY EmptySeq
  <2> QED BY <1>1, <1>2, <2>1 DEF PathFrame
<1> QED BY <1>1, <1>2, <1>3

LEMMA FramesType ==
    ASSUME NEW s \in Seq(PathBeat)
    PROVE  FramesIn(s) \in Seq(PathFrame)
<1> DEFINE n == Len(s) \div 2
<1>1. Len(s) \in Nat
  BY LenProperties
<1>2. n \in Nat /\ \A j \in 1..n : 2 * j \in 1..Len(s)
  BY <1>1
<1>3. FramesIn(s) = [j \in 1..n |-> s[2 * j].frame]
  BY DEF FramesIn
<1> HIDE DEF n
<1>4. ASSUME NEW j \in 1..n PROVE s[2 * j].frame \in PathFrame
  <2>1. s[2 * j] \in PathBeat
    BY <1>2, ElementOfSeq
  <2> QED BY <2>1 DEF PathBeat, BeatOf, PathFrame
<1>5. [j \in 1..n |-> s[2 * j].frame] \in [1..n -> PathFrame]
  BY <1>4
<1> QED BY <1>2, <1>3, <1>5

LEMMA PrintedType ==
    ASSUME PathType, RecordInv
    PROVE  /\ [i \in 1..Len(records) |-> Host!OrderLine(Host!unpack(records)[i])] \in Seq(Seq(PathFrame))
           /\ Host!Printed(records) \in Seq(PathFrame)
<1> DEFINE ss == [i \in 1..Len(records) |-> Host!OrderLine(Host!unpack(records)[i])]
<1>1. Len(records) \in Nat
  BY LenProperties DEF PathType
<1>2. ASSUME NEW i \in 1..Len(records)
      PROVE  Host!OrderLine(Host!unpack(records)[i]) \in Seq(PathFrame)
  <2>1. records[i] \in Seq(PathBeat) /\ records[i] = FrameBeats(Head(records[i]).frame)
    BY ElementOfSeq DEF PathType, RecordInv
  <2>2. records[i] # <<>>
    BY <2>1 DEF FrameBeats
  <2>3. Head(records[i]) \in PathBeat
    BY <2>1, <2>2, ShortSeq
  <2>4. Head(records[i]) = Lead(Head(records[i]).frame)
    <3> DEFINE f == Head(records[i]).frame
    <3>1. records[i] = <<Lead(f), Trail(f)>>
      BY <2>1, LeadFacts
    <3> HIDE DEF f
    <3>2. Head(records[i]) = Lead(f)
      BY <3>1
    <3> QED BY <3>2 DEF f
  <2>5. Host!unpack(records)[i] = Head(records[i]).frame
    <3>1. Head(records[i]).first
      BY <2>4, LeadFacts
    <3> QED BY <3>1 DEF Host!unpack, Host!FrameOf
  <2>6. Head(records[i]).frame \in PathFrame
    BY <2>3 DEF PathBeat, BeatOf, PathFrame
  <2> QED BY <2>5, <2>6, LineOfFrame
<1>3. ss \in [1..Len(records) -> Seq(PathFrame)]
  BY <1>2
<1> HIDE DEF ss
<1>4. ss \in Seq(Seq(PathFrame))
  BY <1>1, <1>3
<1>5. FlattenSeq(ss) \in Seq(PathFrame)
  BY <1>4, FlattenType
<1>6. Host!Printed(records) = FlattenSeq(ss)
  BY DEF Host!Printed, ss, FlattenSeq, Host!FlattenSeq
<1>7. /\ ss \in Seq(Seq(PathFrame))
      /\ Host!Printed(records) \in Seq(PathFrame)
  BY <1>4, <1>5, <1>6
<1> QED BY <1>7 DEF ss

(* A record more prints the frame it holds, if that is an order.           *)
LEMMA PrintedStored ==
    ASSUME PathType, RecordInv, NEW f \in PathFrame, records' = Append(records, FrameBeats(f))
    PROVE  Host!Printed(records') = Host!Printed(records) \o Host!OrderLine(f)
<1> DEFINE ss == [i \in 1..Len(records) |-> Host!OrderLine(Host!unpack(records)[i])]
           tt == [i \in 1..Len(records') |-> Host!OrderLine(Host!unpack(records')[i])]
           n  == Len(records)
<1>1. FrameBeats(f) \in Seq(PathBeat)
  BY DEF FrameBeats, PathBeat, BeatOf, PathFrame
<1>2. /\ n \in Nat /\ Len(records') = n + 1
      /\ \A i \in 1..n : records'[i] = records[i]
      /\ records'[n + 1] = FrameBeats(f)
  BY <1>1, AppendProperties, LenProperties DEF PathType
<1>3. ss \in Seq(Seq(PathFrame)) /\ Host!OrderLine(f) \in Seq(PathFrame)
  BY PrintedType, LineOfFrame
<1>4. \A i \in 1..n : Host!unpack(records')[i] = Host!unpack(records)[i]
  <2>1. \A i \in 1..n : i \in 1..Len(records')
    BY <1>2
  <2> QED BY <1>2, <2>1 DEF Host!unpack
<1>5. Host!unpack(records')[n + 1] = f
  <2>1. n + 1 \in 1..Len(records')
    BY <1>2
  <2>2. Host!unpack(records')[n + 1] = Host!FrameOf(FrameBeats(f))
    BY <1>2, <2>1 DEF Host!unpack
  <2>3. Head(FrameBeats(f)) = Lead(f)
    <3>1. FrameBeats(f) = <<Lead(f), Trail(f)>>
      BY LeadFacts
    <3> QED BY <3>1
  <2>4. Host!FrameOf(FrameBeats(f)) = f
    BY <2>3, LeadFacts DEF Host!FrameOf
  <2> QED BY <2>2, <2>4
<1>6. tt = Append(ss, Host!OrderLine(f))
  <2>1. /\ Len(ss) = n /\ ss = [i \in 1..n |-> ss[i]]
        /\ \A i \in 1..n : ss[i] = Host!OrderLine(Host!unpack(records)[i])
    BY <1>2
  <2>2. tt = [i \in 1..(n + 1) |-> Host!OrderLine(Host!unpack(records')[i])]
    BY <1>2
  <2> HIDE DEF ss, tt
  <2>3. Append(ss, Host!OrderLine(f)) = [i \in 1..(n + 1) |-> IF i <= n THEN ss[i] ELSE Host!OrderLine(f)]
    BY <1>2, <2>1, AtEitherEnd
  <2>4. ASSUME NEW i \in 1..(n + 1)
        PROVE  Host!OrderLine(Host!unpack(records')[i]) = IF i <= n THEN ss[i] ELSE Host!OrderLine(f)
    <3>1. CASE i <= n
      <4>1. i \in 1..n
        BY <1>2, <3>1
      <4> QED BY <1>4, <2>1, <3>1, <4>1
    <3>2. CASE ~(i <= n)
      <4>1. i = n + 1
        BY <1>2, <3>2
      <4> QED BY <1>5, <3>2, <4>1
    <3> QED BY <3>1, <3>2
  <2> QED BY <2>2, <2>3, <2>4
<1>7. FlattenSeq(tt) = FlattenSeq(ss) \o Host!OrderLine(f)
  <2> HIDE DEF ss, tt
  <2> QED BY <1>3, <1>6, FlattenAppend
<1>8. Host!Printed(records') = FlattenSeq(tt) /\ Host!Printed(records) = FlattenSeq(ss)
  BY DEF Host!Printed, FlattenSeq, Host!FlattenSeq
<1> HIDE DEF ss, tt
<1> QED BY <1>7, <1>8

LEMMA OnItsWayNext ==
    ASSUME Buf' \in Seq(PathBeat), sess' \in Seq(PathBeat)
    PROVE  OnItsWay' = FramesOf(Buf') \cup FramesOf(sess')
<1>1. OnItsWay' = FramesOf(Buf' \o sess')
  BY DEF OnItsWay, FramesOf, Buf
<1> DEFINE a == Buf'
           b == sess'
<1>2. a \in Seq(PathBeat) /\ b \in Seq(PathBeat)
  OBVIOUS
<1> HIDE DEF a, b
<1>3. FramesOf(a \o b) = FramesOf(a) \cup FramesOf(b)
  BY <1>2, FramesOfFacts
<1> QED BY <1>1, <1>3 DEF a, b

LEMMA TwoInARow ==
    ASSUME NEW S, NEW a \in S, NEW b \in S
    PROVE  Append(<<a>>, b) = <<a, b>>
<1>1. <<a>> \in Seq(S) /\ Len(<<a>>) = 1 /\ <<a>>[1] = a
  OBVIOUS
<1>2. /\ Append(<<a>>, b) \in Seq(S) /\ Len(Append(<<a>>, b)) = 2
      /\ Append(<<a>>, b)[1] = a /\ Append(<<a>>, b)[2] = b
  BY <1>1, AppendProperties
<1>3. <<a, b>> \in Seq(S) /\ Len(<<a, b>>) = 2 /\ <<a, b>>[1] = a /\ <<a, b>>[2] = b
  OBVIOUS
<1>4. \A k \in 1..2 : k = 1 \/ k = 2
  OBVIOUS
<1>5. \A k \in 1..Len(Append(<<a>>, b)) : Append(<<a>>, b)[k] = <<a, b>>[k]
  BY <1>2, <1>3, <1>4, Zenon
<1> QED BY <1>2, <1>3, <1>5, SeqEqual, Zenon

(* A beat of source i is taken: w is what was to come of that source.      *)
Begins(i, w) == /\ Len(Buf) = 0 /\ Len(Buf') = 1 /\ busy' = TRUE
                /\ FramesIn(Carry(i)' \o Tail(w)) = FramesIn(Carry(i) \o w)
Ends(i, w)   == /\ Len(Buf) = 1 /\ Len(Buf') = 2 /\ Buf' = FrameBeats(Head(w).frame)
                /\ FramesIn(Carry(i) \o w) = <<Head(w).frame>> \o FramesIn(Carry(i)' \o Tail(w))

LEMMA BeatTaken ==
    ASSUME PathType, CaptureInv, PipeInv, NEW i, NEW w \in Seq(PathBeat), w # <<>>,
           Whole(Carry(i) \o w), TakesBeat(i, Head(w))
    PROVE  /\ Begins(i, w) \/ Ends(i, w)
           /\ Whole(Carry(i)' \o Tail(w)) /\ Buf' \in Seq(PathBeat)
           /\ \A j : j # i => Carry(j) = <<>> /\ Carry(j)' = <<>>
           /\ FramesOf(Buf') = FramesOf(Buf) \cup {Head(w).frame}
<1> DEFINE x == Head(w)
<1>1. x \in PathBeat /\ Tail(w) \in Seq(PathBeat) /\ w = <<x>> \o Tail(w)
  <2>1. x \in PathBeat /\ Tail(w) \in Seq(PathBeat)
    BY ShortSeq
  <2> QED BY <2>1, HeadTailProperties
<1>2. Buf \in Seq(PathBeat) /\ Len(Buf) \in Nat
  BY PathBeats, LenProperties
<1>3. /\ Len(Buf) <= 1 /\ (Len(Buf) = 1 => sel = i) /\ Buf' = Append(Buf, x)
      /\ sel' = i /\ busy' = ~x.last
  BY DEF TakesBeat
<1>4. \A j : j # i => Carry(j) = <<>> /\ Carry(j)' = <<>>
  BY <1>3 DEF Carry
<1> HIDE DEF x
<1>5. Buf' \in Seq(PathBeat) /\ Len(Buf') = Len(Buf) + 1
  BY <1>1, <1>2, <1>3, AppendProperties
<1>6. FramesOf(Buf') = FramesOf(Buf) \cup {x.frame}
  BY <1>1, <1>2, <1>3, FramesOfFacts
<1>7. CASE Len(Buf) = 0
  <2>1. Buf = <<>> /\ Carry(i) = <<>> /\ Len(Buf') = 1
    BY <1>2, <1>5, <1>7, ShortSeq DEF Carry
  <2>2. Carry(i) \o w = w
    BY <2>1, ConcatEmptySeq
  <2>3. Whole(w)
    BY <2>2
  <2>4. x = Lead(x.frame)
    BY <2>3, WholeFirst DEF x
  <2>5. busy' = TRUE
    BY <1>3, <2>4, LeadFacts
  <2>6. Buf' = <<x>>
    BY <1>1, <1>3, <2>1
  <2>7. Carry(i)' = <<x>>
    BY <1>3, <2>1, <2>6 DEF Carry
  <2>8. Carry(i)' \o Tail(w) = w
    BY <1>1, <2>7
  <2>9. Begins(i, w) /\ Whole(Carry(i)' \o Tail(w))
    BY <1>7, <2>1, <2>2, <2>3, <2>5, <2>8 DEF Begins
  <2> QED BY <1>4, <1>5, <1>6, <2>9 DEF x
<1>8. CASE Len(Buf) = 1
  <2> DEFINE h == Head(Buf)
             f == h.frame
  <2>1. Buf = <<h>> /\ h \in PathBeat /\ Carry(i) = Buf
    BY <1>2, <1>3, <1>8, BegunWithLead DEF Carry
  <2>2. /\ h = Lead(f) /\ x = Trail(f) /\ Whole(Tail(w))
        /\ FramesIn(<<h>> \o w) = <<f>> \o FramesIn(Tail(w))
    <3> HIDE DEF h
    <3>1. Whole(<<h>> \o w)
      BY <2>1
    <3> QED BY <2>1, <3>1, WholeRest DEF x
  <2>3. x.frame = f
    BY <2>2, LeadFacts
  <2>4. Buf' = <<Lead(f), Trail(f)>>
    <3>1. Append(<<h>>, x) = <<h, x>>
      <4> HIDE DEF h
      <4> QED BY <1>1, <2>1, TwoInARow
    <3>2. Append(<<h>>, x) = <<Lead(f), Trail(f)>>
      <4> HIDE DEF h, f
      <4> QED BY <2>2, <3>1
    <3> QED BY <1>3, <2>1, <3>2, Zenon
  <2>5. Buf' = FrameBeats(x.frame) /\ Len(Buf') = 2
    BY <1>5, <1>8, <2>3, <2>4, LeadFacts
  <2>6. Carry(i)' = <<>>
    BY <2>5 DEF Carry
  <2>7. Carry(i)' \o Tail(w) = Tail(w)
    BY <1>1, <2>6, ConcatEmptySeq
  <2>8. FramesIn(Carry(i) \o w) = <<x.frame>> \o FramesIn(Carry(i)' \o Tail(w))
    BY <2>1, <2>2, <2>3, <2>7
  <2>9. Ends(i, w)
    BY <1>8, <2>5, <2>8 DEF Ends, x
  <2>10. Whole(Carry(i)' \o Tail(w))
    BY <2>2, <2>7
  <2> HIDE DEF h, f
  <2> QED BY <1>4, <1>5, <1>6, <2>9, <2>10 DEF x
<1>9. Len(Buf) = 0 \/ Len(Buf) = 1
  <2>1. \A n \in Nat : n <= 1 => n = 0 \/ n = 1
    OBVIOUS
  <2>2. Len(Buf) \in Nat
    BY <1>2
  <2>3. Len(Buf) <= 1
    BY <1>3
  <2> QED BY ONLY <2>1, <2>2, <2>3
<1> QED BY <1>7, <1>8, <1>9

(* What the capture has then.                                              *)
LEMMA CaptureAfter ==
    ASSUME Shape', records' = records, ~full,
           \/ Len(Buf') = 1 /\ busy' = TRUE
           \/ Len(Buf') = 2 /\ Whole(Buf')
    PROVE  CaptureInv'
<1>1. full' = FALSE
  BY DEF full
<1> DEFINE n == Len(Buf')
           up == busy'
<1>2. (n = 1 /\ up = TRUE) \/ (n = 2 /\ Whole(Buf'))
  OBVIOUS
<1> HIDE DEF n, up
<1>3. n <= 2 /\ (n = 2 => Whole(Buf')) /\ (n = 1 => up)
  BY <1>2
<1> QED BY <1>1, <1>3 DEF CaptureInv, Shape, n, up

LEMMA TypeAfter ==
    ASSUME PathType, Shape', Elsewhere, busy' \in BOOLEAN, sel' \in {0, 1},
           orders' \in Seq(OrderBeat), sess' \in Seq(SessionBeat),
           records' \in Seq(Seq(PathBeat))
    PROVE  PathType'
  BY DEF PathType, Shape, Elsewhere, rxVars

LEMMA CoreAfter ==
    ASSUME CoreInv, Elsewhere, full => full', Len(sess) \in Nat, Len(sess') \in Nat,
           Len(sess') <= Len(sess)
    PROVE  CoreInv'
<1>1. line' = line /\ inFrame' = inFrame /\ dropped' = dropped
  BY DEF Elsewhere, rxVars
<1> DEFINE m == Len(sess)
           n == Len(sess')
<1>2. m \in Nat /\ n \in Nat /\ n <= m
  OBVIOUS
<1>3. ~full => m <= 2 /\ (line # <<>> => m <= 1)
  BY DEF CoreInv
<1> HIDE DEF m, n
<1>4. ~full => n <= 2 /\ (line # <<>> => n <= 1)
  BY <1>2, <1>3
<1>5. ~full' => n <= 2 /\ (line' # <<>> => n <= 1)
  BY <1>1, <1>4, Zenon
<1>6. dropped' => full'
  BY <1>1 DEF CoreInv
<1> QED BY <1>1, <1>5, <1>6 DEF CoreInv, n

(* Where nothing is stored, the records say what they said.                *)
LEMMA RecordsStay ==
    ASSUME records' = records
    PROVE  /\ full' = full /\ InMemory' = InMemory /\ Host!Printed(records') = Host!Printed(records)
           /\ RecordInv => RecordInv'
  BY DEF full, InMemory, RecordInv

(* Nothing moves on.                                                       *)
LEMMA RestsKeeps ==
    ASSUME PathInv, Rests, Shape', busy' \in BOOLEAN, sel' \in {0, 1}, Elsewhere
    PROVE  PathInv'
<1> USE DEF PathInv
<1>1. /\ Buf' = Buf /\ records' = records /\ orders' = orders /\ sess' = sess
      /\ Len(Buf) = 1 => busy' = busy /\ sel' = sel
  BY DEF Rests
<1>2. PathType'
  <2>1. orders' \in Seq(OrderBeat) /\ sess' \in Seq(SessionBeat) /\ records' \in Seq(Seq(PathBeat))
    BY <1>1 DEF PathType
  <2> QED BY <2>1, TypeAfter
<1>3. full' = full
  BY <1>1, RecordsStay
<1>4. CaptureInv'
  <2>1. /\ Len(Buf') <= 2 /\ (Len(Buf') = 2 => Whole(Buf')) /\ (Len(Buf') = 1 => busy')
        /\ full' => Buf' = <<>>
    BY <1>1, <1>3 DEF CaptureInv
  <2> QED BY <2>1 DEF CaptureInv, Shape
<1>5. accept' = accept /\ line' = line /\ sent' = sent /\ dropped' = dropped
      /\ configured' = configured /\ rcvNxt' = rcvNxt
  BY DEF Elsewhere, rxVars
<1>6. OrderPipe' = OrderPipe /\ SessPipe' = SessPipe
  <2>1. Carry(0)' = Carry(0) /\ Carry(1)' = Carry(1)
    BY <1>1 DEF Carry
  <2>2. Passing' = Passing
    BY <1>5 DEF Passing
  <2> QED BY <1>1, <2>1, <2>2 DEF OrderPipe, SessPipe
<1>7. PipeInv'
  BY <1>3, <1>6 DEF PipeInv
<1>8. CoreInv'
  BY <1>1, <1>3, <1>5 DEF CoreInv, Elsewhere, rxVars
<1>9. OrderInv'
  <2>1. Complete' = Complete
    BY <1>1 DEF Complete
  <2> QED BY <1>1, <1>5, <1>6, <2>1, RecordsStay DEF OrderInv
<1>10. StreamInv'
  <2>1. OnItsWay' = OnItsWay
    <3>1. Buf' \in Seq(PathBeat) /\ sess' \in Seq(PathBeat)
      BY <1>1, PathBeats
    <3> QED BY <1>1, <3>1, OnItsWayIs, OnItsWayNext
  <2>2. (InMemory \cup OnItsWay)' = InMemory \cup OnItsWay
    BY <1>1, <2>1, RecordsStay
  <2> QED BY <1>5, <2>2, StreamStays
<1> QED BY <1>1, <1>2, <1>4, <1>7, <1>8, <1>9, <1>10, RecordsStay

LEMMA TwoBeats ==
    ASSUME NEW S, NEW s \in Seq(S), Len(s) = 2, Whole(s)
    PROVE  s = FrameBeats(Head(s).frame) /\ Head(s) \in S /\ FramesOf(s) = {Head(s).frame}
<1> DEFINE f == Head(s).frame
<1>1. s # <<>> /\ Head(s) = s[1] /\ Head(s) \in S
  BY ShortSeq
<1>2. s[1] = Lead(f) /\ s[2] = Trail(f)
  BY <1>1, WholeFirst
<1>3. s[1] \in S /\ s[2] \in S
  BY ElementOfSeq
<1> HIDE DEF f
<1>4. Lead(f) \in S /\ Trail(f) \in S
  BY <1>2, <1>3
<1>5. s = <<Lead(f), Trail(f)>>
  <2>1. /\ <<Lead(f), Trail(f)>> \in Seq(S) /\ Len(<<Lead(f), Trail(f)>>) = 2
        /\ <<Lead(f), Trail(f)>>[1] = Lead(f) /\ <<Lead(f), Trail(f)>>[2] = Trail(f)
    BY <1>4
  <2>2. \A k \in 1..2 : k = 1 \/ k = 2
    OBVIOUS
  <2>3. \A k \in 1..Len(s) : s[k] = <<Lead(f), Trail(f)>>[k]
    BY <1>2, <2>1, <2>2, Zenon
  <2> QED BY <2>1, <2>3, SeqEqual, Zenon
<1>6. Range(s) = {Lead(f), Trail(f)}
  <2>1. Range(s) = {s[i] : i \in 1..2}
    BY RangeEquality
  <2> QED BY <1>2, <2>1
<1>7. FramesOf(s) = {f}
  <2>1. Lead(f).frame = f /\ Trail(f).frame = f
    BY LeadFacts
  <2>2. FramesOf(s) = {b.frame : b \in {Lead(f), Trail(f)}}
    BY <1>6 DEF FramesOf
  <2> QED BY ONLY <2>1, <2>2
<1> QED BY <1>1, <1>5, <1>7, LeadFacts DEF f

(* The frame taken becomes a record: it is printed, and still kept.        *)
LEMMA StoresKeeps ==
    ASSUME PathInv, Stores, Shape', busy' \in BOOLEAN, sel' \in {0, 1}, Elsewhere
    PROVE  PathInv'
<1> USE DEF PathInv
<1> DEFINE f == Head(Buf).frame
<1>1. /\ Len(Buf) = 2 /\ records' = Append(records, Buf) /\ Buf' = <<>>
      /\ orders' = orders /\ sess' = sess
  BY DEF Stores
<1>2. Buf \in Seq(PathBeat) /\ sess \in Seq(PathBeat) /\ <<>> \in Seq(PathBeat) /\ Len(<<>>) = 0
  BY PathBeats, EmptySeq
<1>3. Buf = FrameBeats(f) /\ Head(Buf) \in PathBeat /\ FramesOf(Buf) = {f}
  BY <1>1, <1>2, TwoBeats DEF CaptureInv
<1>4. f \in PathFrame
  BY <1>3 DEF PathBeat, BeatOf, PathFrame
<1>5. ~full
  <2>0. Len(Buf) # 0
    BY <1>1
  <2>1. Buf # <<>>
    BY <1>2, <2>0, ShortSeq
  <2> QED BY <2>1 DEF CaptureInv
<1>6. /\ Len(records) \in Nat /\ Len(records') = Len(records) + 1
      /\ \A i \in 1..Len(records) : records'[i] = records[i]
      /\ records'[Len(records) + 1] = Buf /\ records' \in Seq(Seq(PathBeat))
  BY <1>1, <1>2, AppendProperties, LenProperties DEF PathType
<1>7. PathType'
  <2>1. orders' \in Seq(OrderBeat) /\ sess' \in Seq(SessionBeat)
    BY <1>1 DEF PathType
  <2> QED BY <1>6, <2>1, TypeAfter
<1>8. CaptureInv'
  <2>1. Len(Buf') <= 2 /\ Len(Buf') # 2 /\ Len(Buf') # 1
    BY <1>1, <1>2
  <2> QED BY <1>1, <2>1 DEF CaptureInv, Shape
<1>9. accept' = accept /\ line' = line /\ sent' = sent /\ dropped' = dropped
      /\ configured' = configured /\ rcvNxt' = rcvNxt
  BY DEF Elsewhere, rxVars
<1>10. OrderPipe' = OrderPipe /\ SessPipe' = SessPipe
  <2>1. Len(Buf) # 1 /\ Len(Buf') # 1
    BY <1>1, <1>2
  <2>2. Carry(0)' = Carry(0) /\ Carry(1)' = Carry(1)
    BY <2>1 DEF Carry
  <2>3. Passing' = Passing
    BY <1>9 DEF Passing
  <2> QED BY <1>1, <2>2, <2>3 DEF OrderPipe, SessPipe
<1>11. PipeInv'
  BY <1>5, <1>10 DEF PipeInv
<1>12. CoreInv'
  <2>1. sess' = sess /\ Len(sess) \in Nat
    BY <1>1, <1>2, LenProperties
  <2> QED BY <1>5, <2>1, CoreAfter
<1>13. RecordInv'
  <2>1. ASSUME NEW i \in 1..Len(records') PROVE records'[i] = FrameBeats(Head(records'[i]).frame)
    <3>1. i \in 1..Len(records) \/ i = Len(records) + 1
      BY <1>6
    <3> QED BY <1>3, <1>6, <3>1 DEF RecordInv
  <2> QED BY <2>1 DEF RecordInv
<1>14. OrderInv'
  <2> DEFINE a == Host!Printed(records)
             c == Host!OrderLine(f)
             d == FramesIn(OrderPipe)
  <2>1. sent = (a \o c) \o d
    BY <1>1 DEF OrderInv, Complete
  <2>2. Host!Printed(records') = a \o c
    BY <1>1, <1>3, <1>4, PrintedStored
  <2>3. Complete' = <<>>
    BY <1>1, <1>2 DEF Complete
  <2>4. (a \o c) \o <<>> = a \o c
    <3>1. a \in Seq(PathFrame) /\ c \in Seq(PathFrame)
      BY <1>4, PrintedType, LineOfFrame
    <3> HIDE DEF a, c
    <3> QED BY <3>1, ConcatProperties, ConcatEmptySeq
  <2> QED BY <1>9, <1>10, <2>1, <2>2, <2>3, <2>4 DEF OrderInv
<1>15. StreamInv'
  <2>1. OnItsWay = {f} \cup FramesOf(sess)
    BY <1>3, OnItsWayIs
  <2>2. OnItsWay' = FramesOf(Buf') \cup FramesOf(sess')
    BY <1>1, <1>2, OnItsWayNext
  <2>3. InMemory' = InMemory \cup {f}
    BY <1>1, <1>2, InMemoryStored
  <2>4. (InMemory \cup OnItsWay) \subseteq (InMemory \cup OnItsWay)'
    BY <1>1, <2>1, <2>2, <2>3
  <2> QED BY <1>9, <2>4, StreamStays
<1> QED BY <1>7, <1>8, <1>11, <1>12, <1>13, <1>14, <1>15

(* The first of two in a row is the first of both.                         *)
LEMMA HeadOfConcat ==
    ASSUME NEW S, NEW s \in Seq(S), NEW t \in Seq(S), s # <<>>
    PROVE  /\ s \o t \in Seq(S) /\ s \o t # <<>> /\ Head(s \o t) = Head(s)
           /\ Tail(s \o t) = Tail(s) \o t
<1>1. /\ Head(s) \in S /\ Tail(s) \in Seq(S) /\ s = <<Head(s)>> \o Tail(s)
  BY ShortSeq, HeadTailProperties
<1> DEFINE h == Head(s)
           r == Tail(s)
<1>2. h \in S /\ r \in Seq(S) /\ s = <<h>> \o r
  BY <1>1
<1> HIDE DEF h, r
<1>3. s \o t = <<h>> \o (r \o t)
  BY <1>2, ConcatAssociative
<1>4. r \o t \in Seq(S)
  BY <1>2, ConcatProperties
<1> DEFINE u == r \o t
           w == <<h>> \o u
<1>5. w \in Seq(S) /\ Len(w) = 1 + Len(u) /\ Len(u) \in Nat /\ w[1] = h
      /\ \A i \in 1..Len(u) : w[i + 1] = u[i]
  <2>1. <<h>> \in Seq(S) /\ Len(<<h>>) = 1 /\ <<h>>[1] = h
    BY <1>2
  <2>2. u \in Seq(S) /\ Len(u) \in Nat
    BY <1>4, LenProperties
  <2> HIDE DEF u
  <2>3. w \in Seq(S) /\ Len(w) = 1 + Len(u)
    BY <2>1, <2>2, ConcatProperties
  <2>4. \A i \in 1..(1 + Len(u)) : w[i] = IF i <= 1 THEN <<h>>[i] ELSE u[i - 1]
    BY <2>1, <2>2, ConcatProperties
  <2> HIDE DEF w
  <2> QED BY <2>1, <2>2, <2>3, <2>4
<1> HIDE DEF u, w
<1>6. w # <<>> /\ Head(w) = h /\ Tail(w) \in Seq(S) /\ Len(Tail(w)) = Len(u)
      /\ \A i \in 1..Len(u) : Tail(w)[i] = w[i + 1]
  <2>1. Len(w) # 0
    BY <1>5
  <2>2. w # <<>>
    BY <1>5, <2>1, ShortSeq
  <2> QED BY <1>5, <2>2, HeadTailProperties
<1>7. Tail(w) = u
  BY <1>4, <1>5, <1>6, SeqEqual DEF u
<1> QED BY <1>3, <1>4, <1>5, <1>6, <1>7 DEF u, w, h, r

LEMMA LenOfTail ==
    ASSUME NEW S, NEW s \in Seq(S), s # <<>>
    PROVE  Len(s) \in Nat /\ Len(Tail(s)) \in Nat /\ Len(Tail(s)) <= Len(s)
           /\ Tail(s) \in Seq(S) /\ Head(s) \in S
<1>1. Len(s) \in Nat /\ Len(Tail(s)) = Len(s) - 1 /\ Tail(s) \in Seq(S) /\ Len(Tail(s)) \in Nat
      /\ Head(s) \in S
  BY ShortSeq, LenProperties
<1> QED BY <1>1

(* What was printed and is complete, when nothing had been completed.      *)
LEMMA OrdersAre ==
    ASSUME PathInv, Len(Buf) <= 1
    PROVE  sent = Host!Printed(records) \o FramesIn(OrderPipe)
<1>1. Len(Buf) # 2
  BY DEF PathInv
<1>2. Complete = <<>>
  BY <1>1 DEF Complete
<1>3. Host!Printed(records) \in Seq(PathFrame)
  BY PrintedType DEF PathInv
<1>4. Host!Printed(records) \o <<>> = Host!Printed(records)
  BY <1>3, ConcatEmptySeq
<1> QED BY <1>2, <1>4 DEF PathInv, OrderInv

(* A beat of an order is taken: the frame has begun, or is complete.       *)
LEMMA TakesOrderKeeps ==
    ASSUME PathInv, TakesOrder, Shape', busy' \in BOOLEAN, sel' \in {0, 1}, Elsewhere
    PROVE  PathInv'
<1> USE DEF PathInv
<1> DEFINE f == Head(orders).frame
<1>1. /\ orders # <<>> /\ TakesBeat(0, Head(orders)) /\ orders' = Tail(orders) /\ sess' = sess
      /\ records' = records /\ ~full /\ Len(Buf) <= 1
  BY DEF TakesOrder, TakesBeat
<1>2. /\ orders \in Seq(PathBeat) /\ sess \in Seq(PathBeat) /\ <<>> \in Seq(PathBeat)
      /\ Buf \in Seq(PathBeat)
  BY PathBeats, EmptySeq
<1>3. /\ Head(orders) \in OrderBeat /\ Tail(orders) \in Seq(OrderBeat)
      /\ Tail(orders) \in Seq(PathBeat)
  BY <1>1, <1>2, ShortSeq DEF PathType
<1>4. f \in OrderFrame
  BY <1>3 DEF OrderBeat, BeatOf
<1>5. /\ Begins(0, orders) \/ Ends(0, orders)
      /\ Whole(Carry(0)' \o Tail(orders)) /\ Buf' \in Seq(PathBeat)
      /\ \A j : j # 0 => Carry(j) = <<>> /\ Carry(j)' = <<>>
      /\ FramesOf(Buf') = FramesOf(Buf) \cup {f}
  <2>1. Whole(Carry(0) \o orders)
    BY DEF PipeInv, OrderPipe
  <2> QED BY <1>1, <1>2, <2>1, BeatTaken
<1>6. Carry(1) = <<>> /\ Carry(1)' = <<>>
  <2>1. 1 # 0
    OBVIOUS
  <2> QED BY <1>5, <2>1, Zenon
<1>7. full' = full
  BY <1>1, RecordsStay
<1>8. accept' = accept /\ line' = line /\ sent' = sent /\ dropped' = dropped
      /\ configured' = configured /\ rcvNxt' = rcvNxt
  BY DEF Elsewhere, rxVars
<1>9. PathType'
  <2>1. sess' \in Seq(SessionBeat) /\ records' \in Seq(Seq(PathBeat)) /\ orders' \in Seq(OrderBeat)
    BY <1>1, <1>3 DEF PathType
  <2> QED BY <2>1, TypeAfter
<1>10. CaptureInv'
  <2>1. Ends(0, orders) => Len(Buf') = 2 /\ Whole(Buf')
    BY WholeTwo DEF Ends
  <2>2. Begins(0, orders) => Len(Buf') = 1 /\ busy' = TRUE
    BY DEF Begins
  <2> QED BY <1>1, <1>5, <2>1, <2>2, CaptureAfter
<1>11. OrderPipe' = Carry(0)' \o Tail(orders)
  BY <1>1 DEF OrderPipe
<1>12. SessPipe' = SessPipe
  <2>1. Passing' = Passing
    BY <1>8 DEF Passing
  <2> QED BY <1>1, <1>6, <2>1 DEF SessPipe
<1>13. PipeInv'
  BY <1>5, <1>7, <1>11, <1>12 DEF PipeInv
<1>14. CoreInv'
  <2>1. Len(sess) \in Nat
    BY <1>2, LenProperties
  <2> QED BY <1>1, <1>7, <2>1, CoreAfter
<1>15. OrderInv'
  <2> DEFINE a == Host!Printed(records)
             d == FramesIn(OrderPipe)
             g == FramesIn(Carry(0)' \o Tail(orders))
  <2>1. sent = a \o d
    BY <1>1, OrdersAre
  <2>2. a \in Seq(PathFrame) /\ <<f>> \in Seq(PathFrame)
    BY <1>4, PrintedType DEF PathFrame
  <2>3. g \in Seq(PathFrame)
    <3>1. OrderPipe' \in Seq(PathBeat)
      <4>1. Carry(0)' \in Seq(PathBeat)
        BY <1>2, <1>5 DEF Carry
      <4> QED BY <1>3, <1>11, <4>1, ConcatProperties
    <3> QED BY <1>11, <3>1, FramesType
  <2>4. Host!Printed(records') = a /\ FramesIn(OrderPipe') = g /\ sent' = a \o d
    BY <1>1, <1>8, <1>11, <2>1, RecordsStay
  <2>5. CASE Begins(0, orders)
    <3>1. d = g
      BY <2>5 DEF Begins, OrderPipe
    <3>2. Complete' = <<>>
      <4>1. Len(Buf') # 2
        BY <2>5 DEF Begins
      <4> QED BY <4>1 DEF Complete
    <3>3. a \o <<>> = a
      BY <2>2, ConcatEmptySeq
    <3> QED BY <2>4, <3>1, <3>2, <3>3 DEF OrderInv
  <2>6. CASE Ends(0, orders)
    <3>1. d = <<f>> \o g
      BY <2>6 DEF Ends, OrderPipe
    <3>2. Complete' = <<f>>
      <4>1. Buf' = FrameBeats(f) /\ Len(Buf') = 2
        BY <2>6 DEF Ends
      <4>2. Head(Buf').frame = f
        <5>1. Buf' = <<Lead(f), Trail(f)>> /\ Lead(f).frame = f
          BY <4>1, LeadFacts
        <5> HIDE DEF f
        <5>2. Head(<<Lead(f), Trail(f)>>) = Lead(f)
          OBVIOUS
        <5> QED BY <5>1, <5>2
      <4>3. Complete' = Host!OrderLine(f)
        BY <4>1, <4>2 DEF Complete
      <4> QED BY <1>4, <4>3, LineOfFrame
    <3>3. a \o (<<f>> \o g) = (a \o <<f>>) \o g
      <4> HIDE DEF a, f, g
      <4> QED BY <2>2, <2>3, ConcatAssociative
    <3> QED BY <2>4, <3>1, <3>2, <3>3 DEF OrderInv
  <2> QED BY <1>5, <2>5, <2>6
<1>16. StreamInv'
  <2>1. OnItsWay = FramesOf(Buf) \cup FramesOf(sess)
    BY OnItsWayIs
  <2>2. OnItsWay' = FramesOf(Buf') \cup FramesOf(sess')
    BY <1>1, <1>2, <1>5, OnItsWayNext
  <2>3. (InMemory \cup OnItsWay) \subseteq (InMemory \cup OnItsWay)'
    BY <1>1, <1>5, <2>1, <2>2, RecordsStay
  <2> QED BY <1>8, <2>3, StreamStays
<1> QED BY <1>1, <1>9, <1>10, <1>13, <1>14, <1>15, <1>16, RecordsStay

(* The same of a session frame, which prints nothing.                      *)
LEMMA TakesReplyKeeps ==
    ASSUME PathInv, TakesReply, Shape', busy' \in BOOLEAN, sel' \in {0, 1}, Elsewhere
    PROVE  PathInv'
<1> USE DEF PathInv
<1> DEFINE f == Head(sess).frame
           w == sess \o Passing
<1>1. /\ sess # <<>> /\ TakesBeat(1, Head(sess)) /\ sess' = Tail(sess) /\ orders' = orders
      /\ records' = records /\ ~full /\ Len(Buf) <= 1
  BY DEF TakesReply, TakesBeat
<1>2. /\ orders \in Seq(PathBeat) /\ sess \in Seq(PathBeat) /\ <<>> \in Seq(PathBeat)
      /\ Buf \in Seq(PathBeat) /\ Passing \in Seq(PathBeat)
  BY PathBeats, EmptySeq
<1>3. /\ Head(sess) \in SessionBeat /\ Tail(sess) \in Seq(SessionBeat)
      /\ Tail(sess) \in Seq(PathBeat)
  BY <1>1, <1>2, ShortSeq DEF PathType
<1>4. f \in SessionFrame
  BY <1>3 DEF SessionBeat, BeatOf
<1>5. /\ w \in Seq(PathBeat) /\ w # <<>> /\ Head(w) = Head(sess)
      /\ Tail(w) = Tail(sess) \o Passing
  BY <1>1, <1>2, HeadOfConcat
<1>6. accept' = accept /\ line' = line /\ sent' = sent /\ dropped' = dropped
      /\ configured' = configured /\ rcvNxt' = rcvNxt
  BY DEF Elsewhere, rxVars
<1>7. Passing' = Passing /\ SessPipe = Carry(1) \o w /\ SessPipe' = Carry(1)' \o Tail(w)
  <2>1. Passing' = Passing
    BY <1>6 DEF Passing
  <2>2. SessPipe' = Carry(1)' \o (Tail(sess) \o Passing)
    BY <1>1, <2>1 DEF SessPipe
  <2> QED BY <1>5, <2>1, <2>2 DEF SessPipe
<1>8. Whole(Carry(1) \o w)
  BY <1>1, <1>7 DEF PipeInv
<1> HIDE DEF w
<1>9. /\ Begins(1, w) \/ Ends(1, w)
      /\ Whole(Carry(1)' \o Tail(w)) /\ Buf' \in Seq(PathBeat)
      /\ \A j : j # 1 => Carry(j) = <<>> /\ Carry(j)' = <<>>
      /\ FramesOf(Buf') = FramesOf(Buf) \cup {f}
  BY <1>1, <1>5, <1>8, BeatTaken
<1>10. Carry(0) = <<>> /\ Carry(0)' = <<>>
  <2>1. 0 # 1
    OBVIOUS
  <2> QED BY <1>9, <2>1, Zenon
<1>11. full' = full
  BY <1>1, RecordsStay
<1>12. PathType'
  <2>1. sess' \in Seq(SessionBeat) /\ records' \in Seq(Seq(PathBeat)) /\ orders' \in Seq(OrderBeat)
    BY <1>1, <1>3 DEF PathType
  <2> QED BY <2>1, TypeAfter
<1>13. CaptureInv'
  <2>1. Ends(1, w) => Len(Buf') = 2 /\ Whole(Buf')
    BY WholeTwo DEF Ends
  <2>2. Begins(1, w) => Len(Buf') = 1 /\ busy' = TRUE
    BY DEF Begins
  <2> QED BY <1>1, <1>9, <2>1, <2>2, CaptureAfter
<1>14. OrderPipe' = OrderPipe
  BY <1>1, <1>10 DEF OrderPipe
<1>15. PipeInv'
  BY <1>9, <1>11, <1>14, <1>7 DEF PipeInv
<1>16. CoreInv'
  <2>1. Len(sess) \in Nat /\ Len(sess') \in Nat /\ Len(sess') <= Len(sess)
    BY <1>1, <1>2, LenOfTail
  <2> QED BY <1>11, <2>1, CoreAfter
<1>17. OrderInv'
  <2> DEFINE a == Host!Printed(records)
             d == FramesIn(OrderPipe)
  <2>1. sent = a \o d
    BY <1>1, OrdersAre
  <2>2. Host!Printed(records') = a /\ FramesIn(OrderPipe') = d /\ sent' = a \o d
    BY <1>1, <1>6, <1>14, <2>1, RecordsStay
  <2>3. a \o <<>> = a
    <3>1. a \in Seq(PathFrame)
      BY PrintedType
    <3> QED BY <3>1, ConcatEmptySeq
  <2>4. Complete' = <<>>
    <3>1. CASE Begins(1, w)
      <4>1. Len(Buf') # 2
        BY <3>1 DEF Begins
      <4> QED BY <4>1 DEF Complete
    <3>2. CASE Ends(1, w)
      <4>1. Buf' = FrameBeats(f) /\ Len(Buf') = 2
        BY <1>5, <3>2 DEF Ends
      <4>2. Head(Buf').frame = f
        <5>1. Buf' = <<Lead(f), Trail(f)>> /\ Lead(f).frame = f
          BY <4>1, LeadFacts
        <5> HIDE DEF f
        <5>2. Head(<<Lead(f), Trail(f)>>) = Lead(f)
          OBVIOUS
        <5> QED BY <5>1, <5>2
      <4>3. Complete' = Host!OrderLine(f)
        BY <4>1, <4>2 DEF Complete
      <4> QED BY <1>4, <4>3, LineOfFrame
    <3> QED BY <1>9, <3>1, <3>2
  <2> QED BY <2>2, <2>3, <2>4 DEF OrderInv
<1>18. StreamInv'
  <2>1. OnItsWay = FramesOf(Buf) \cup FramesOf(sess)
    BY OnItsWayIs
  <2>2. OnItsWay' = FramesOf(Buf') \cup FramesOf(sess')
    BY <1>1, <1>3, <1>9, OnItsWayNext
  <2>3. FramesOf(sess) = {f} \cup FramesOf(Tail(sess))
    BY <1>1, <1>2, FramesOfFacts
  <2>4. (InMemory \cup OnItsWay) \subseteq (InMemory \cup OnItsWay)'
    BY <1>1, <1>9, <2>1, <2>2, <2>3, RecordsStay
  <2> QED BY <1>6, <2>4, StreamStays
<1> QED BY <1>1, <1>12, <1>13, <1>15, <1>16, <1>17, <1>18, RecordsStay

LEMMA ShellKeeps ==
    ASSUME PathInv, NEW answered \in BOOLEAN, ShellTick(answered)
    PROVE  PathInv'
<1>1. /\ Rests \/ Stores \/ TakesOrder \/ TakesReply
      /\ Shape' /\ busy' \in BOOLEAN /\ sel' \in {0, 1} /\ Elsewhere
  BY ShellStep DEF PathInv
<1> QED BY <1>1, RestsKeeps, StoresKeeps, TakesOrderKeeps, TakesReplyKeeps

(************************* a clock of the core *****************************)
(* A segment is as long as its places, FIN included, and carries them.     *)
LEMMA SegmentFacts ==
    ASSUME NEW a \in 0..End, NEW b \in 0..End, a < b
    PROVE  LET f == Segment(a, b) IN
           /\ f.dst = "card" /\ f.conn = "session" /\ f.seq = SeqAt(a) /\ seg_len(f) = b - a
           /\ \A k \in 1..Fin : a < k /\ k <= b => Carries(f, k)
<1> DEFINE f == Segment(a, b)
           e == IF b = End THEN Fin ELSE b
<1>1. /\ f.dst = "card" /\ f.conn = "session" /\ f.seq = SeqAt(a) /\ f.fin = (b = End)
      /\ f.payload = Places(a, e)
  BY DEF Segment, tcp_frame
<1>2. Fin \in Nat /\ End = Fin + 1 /\ a \in Nat /\ b \in Nat
  BY StreamEnds
<1>3. e \in Nat /\ e - a \in Nat /\ (b = End => e - a + 1 = b - a) /\ (b # End => e - a = b - a)
  BY <1>2
<1> HIDE DEF f, e
<1>4. Places(a, e) = [i \in 1..(e - a) |-> a + i]
  BY DEF Places
<1>5. Len(Places(a, e)) = e - a
  BY <1>3, <1>4
<1>6. seg_len(f) = b - a
  <2>1. seg_len(f) = (e - a) + IF b = End THEN 1 ELSE 0
    BY <1>1, <1>5 DEF seg_len
  <2>2. CASE b = End
    BY <1>3, <2>1, <2>2
  <2>3. CASE b # End
    BY <1>2, <1>3, <2>1, <2>3
  <2> QED BY <2>2, <2>3
<1>7. ASSUME NEW k \in 1..Fin, a < k, k <= b PROVE Carries(f, k)
  <2>1. k - a \in 1..(e - a) /\ a + (k - a) = k
    BY <1>2, <1>7 DEF e
  <2>2. k - a \in DOMAIN f.payload /\ f.payload[k - a] = k
    BY <1>1, <1>4, <2>1
  <2>3. k \in Range(f.payload)
    BY <2>2 DEF Range
  <2> QED BY <1>1, <2>3 DEF Carries
<1> QED BY <1>1, <1>6, <1>7 DEF f

CoreElsewhere == UNCHANGED <<arbVars, captureVars, orders, sent>>

(* The core does not touch what the shell has.                             *)
LEMMA CoreElsewhereKeeps ==
    ASSUME PathInv, CoreElsewhere
    PROVE  /\ Buf' = Buf /\ full' = full /\ Carry(0)' = Carry(0) /\ Carry(1)' = Carry(1)
           /\ OrderPipe' = OrderPipe /\ InMemory' = InMemory
           /\ CaptureInv' /\ RecordInv' /\ OrderInv'
<1> USE DEF PathInv
<1>1. /\ q' = q /\ fbuf' = fbuf /\ cst' = cst /\ records' = records /\ busy' = busy
      /\ sel' = sel /\ orders' = orders /\ sent' = sent
  BY DEF CoreElsewhere, arbVars, captureVars
<1>2. Buf' = Buf
  BY <1>1 DEF Buf
<1>3. full' = full /\ InMemory' = InMemory /\ Host!Printed(records') = Host!Printed(records)
      /\ RecordInv'
  BY <1>1, RecordsStay
<1>4. Carry(0)' = Carry(0) /\ Carry(1)' = Carry(1)
  BY <1>1, <1>2 DEF Carry
<1>5. OrderPipe' = OrderPipe
  BY <1>1, <1>4 DEF OrderPipe
<1>6. CaptureInv'
  BY <1>1, <1>2, <1>3 DEF CaptureInv
<1>7. OrderInv'
  <2>1. Complete' = Complete
    BY <1>2 DEF Complete
  <2> QED BY <1>1, <1>3, <1>5, <2>1 DEF OrderInv
<1> QED BY <1>2, <1>3, <1>4, <1>5, <1>6, <1>7

(* What the clock brings is put behind what the FIFO has.                  *)
LEMMA CoreFeeds ==
    ASSUME PathInv, NEW beat, NEW load, CoreTick(beat, load),
           Passed(beat, load) \in Seq(SessionBeat), line' \in Seq(SessionBeat)
    PROVE  /\ PathType' /\ CoreElsewhere
           /\ sess' = sess \/ sess' = sess \o Passed(beat, load)
           /\ ~full /\ Len(sess) <= 1 => /\ sess' = sess \o Passed(beat, load)
                                         /\ dropped' = dropped
           /\ dropped => dropped'
           /\ ~dropped' /\ Passed(beat, load) # <<>> => sess' = sess \o Passed(beat, load)
           /\ (InMemory \cup OnItsWay) \subseteq (InMemory \cup OnItsWay)'
<1> USE DEF PathInv
<1> DEFINE m == Passed(beat, load)
<1>1. /\ RxTick(beat, load)
      /\ sess' = IF Len(sess) < FifoDepth THEN sess \o m ELSE sess
      /\ dropped' = (dropped \/ (m # <<>> /\ Len(sess) >= FifoDepth))
      /\ CoreElsewhere
  BY DEF CoreTick, CoreElsewhere
<1>2. m \in Seq(SessionBeat) /\ m \in Seq(PathBeat) /\ sess \in Seq(SessionBeat)
      /\ sess \in Seq(PathBeat) /\ Buf \in Seq(PathBeat) /\ Len(sess) \in Nat
  BY PathBeats, SeqMonotonic, LenProperties DEF PathType
<1> HIDE DEF m
<1>3. sess' \in Seq(SessionBeat) /\ sess' \in Seq(PathBeat) /\ FramesOf(sess) \subseteq FramesOf(sess')
  <2>1. sess \o m \in Seq(SessionBeat) /\ sess \o m \in Seq(PathBeat)
    BY <1>2, ConcatProperties
  <2>2. FramesOf(sess \o m) = FramesOf(sess) \cup FramesOf(m)
    BY <1>2, FramesOfFacts
  <2> QED BY <1>1, <1>2, <2>1, <2>2
<1>4. PathType'
  <2>1. configured' \in BOOLEAN /\ inFrame' \in BOOLEAN /\ accept' \in BOOLEAN
    <3>1. configured \in BOOLEAN /\ inFrame \in BOOLEAN /\ accept \in BOOLEAN
      BY DEF PathType
    <3> QED BY <1>1, <3>1 DEF RxTick
  <2>2. dropped' \in BOOLEAN
    BY <1>1
  <2> QED BY <1>1, <1>3, <2>1, <2>2 DEF PathType, CoreElsewhere, arbVars, captureVars
<1>5. ASSUME ~full, Len(sess) <= 1
      PROVE  sess' = sess \o m /\ dropped' = dropped
  <2>1. Len(sess) < FifoDepth /\ ~(Len(sess) >= FifoDepth)
    BY <1>2, <1>5, RoomAssumption
  <2>2. dropped \in BOOLEAN
    BY DEF PathType
  <2> QED BY <1>1, <2>1, <2>2
<1>6. dropped => dropped'
  BY <1>1
<1>7. ~dropped' /\ m # <<>> => sess' = sess \o m
  <2>1. Len(sess) < FifoDepth \/ Len(sess) >= FifoDepth
    BY <1>2, RoomAssumption
  <2> QED BY <1>1, <2>1
<1>8. (InMemory \cup OnItsWay) \subseteq (InMemory \cup OnItsWay)'
  <2>1. Buf' = Buf /\ InMemory' = InMemory
    BY <1>1, CoreElsewhereKeeps
  <2>2. OnItsWay = FramesOf(Buf) \cup FramesOf(sess)
    BY OnItsWayIs
  <2>3. OnItsWay' = FramesOf(Buf') \cup FramesOf(sess')
    BY <1>2, <1>3, <2>1, OnItsWayNext
  <2> QED BY <1>3, <2>1, <2>2, <2>3
<1> QED BY <1>1, <1>4, <1>5, <1>6, <1>7, <1>8 DEF m

LEMMA BeatsOfFrame ==
    ASSUME NEW f
    PROVE  Offered(FrameBeats(f)) = <<Lead(f)>> /\ Tail(FrameBeats(f)) = <<Trail(f)>>
<1>1. FrameBeats(f) = <<Lead(f), Trail(f)>>
  BY LeadFacts
<1>2. \A a, b : <<a, b>> # <<>> /\ Head(<<a, b>>) = a /\ Tail(<<a, b>>) = <<b>>
  OBVIOUS
<1> QED BY <1>1, <1>2 DEF Offered

LEMMA FrameBeatsType ==
    /\ \A f \in SessionFrame : Lead(f) \in SessionBeat /\ Trail(f) \in SessionBeat
    /\ \A f \in OrderFrame : Lead(f) \in OrderBeat /\ Trail(f) \in OrderBeat
<1> QED BY DEF Lead, Trail, SessionBeat, OrderBeat, BeatOf

LEMMA BeatThenBeat ==
    ASSUME NEW S, NEW a \in S, NEW b \in S
    PROVE  <<a>> \in Seq(S) /\ Len(<<a>>) = 1 /\ <<a>> \o <<b>> = <<a, b>>
<1>1. <<a>> \in Seq(S) /\ Len(<<a>>) = 1
  OBVIOUS
<1>2. Append(<<a>>, b) = <<a>> \o <<b>>
  BY <1>1, AppendIsConcat
<1> QED BY <1>1, <1>2, TwoInARow

LEMMA FramesAdd ==
    ASSUME NEW S, NEW s \in Seq(S), NEW f, Lead(f) \in S
    PROVE  f \in FramesOf(s \o <<Lead(f)>>)
<1> DEFINE t == <<Lead(f)>>
<1>1. t \in Seq(S)
  OBVIOUS
<1>2. f \in FramesOf(t)
  <2>1. Range(t) = {Lead(f)}
    BY DEF Range
  <2>2. Lead(f).frame = f
    BY LeadFacts
  <2> QED BY <2>1, <2>2 DEF FramesOf
<1> HIDE DEF t
<1>3. FramesOf(s \o t) = FramesOf(s) \cup FramesOf(t)
  BY <1>1, FramesOfFacts
<1> QED BY <1>2, <1>3 DEF t

(* A frame begins to arrive: how far the stream has come.                  *)
Known(f) == \/ seg_len(f) = 0
            \/ f.conn # "session"
            \/ \E a \in 0..End, b \in 0..End : a < b /\ f = Segment(a, b)

(* What is taken ends at a place of the stream, and carries what was       *)
(* missing before.                                                         *)
LEMMA TakenSegment ==
    ASSUME NEW f, Known(f), NEW r \in 0..End, rcvNxt = SeqAt(r), seg_ok(f, FALSE), accept_seg(f)
    PROVE  \E b \in 0..End :
              /\ (f.seq + seg_len(f)) % SeqSpace = SeqAt(b)
              /\ \A k \in 1..Fin : k <= b => k <= r \/ Carries(f, k)
<1>1. PICK a \in 0..End, b \in 0..End : a < b /\ f = Segment(a, b)
  <2>1. seg_len(f) # 0 /\ f.conn = "session"
    BY DEF accept_seg, seg_ok
  <2> QED BY <2>1 DEF Known
<1>2. /\ f.seq = SeqAt(a) /\ seg_len(f) = b - a
      /\ \A k \in 1..Fin : a < k /\ k <= b => Carries(f, k)
  BY <1>1, SegmentFacts
<1>3. a \in Int /\ b \in Int /\ b - a \in Int /\ a + (b - a) = b /\ r \in Int /\ a \in Nat
  BY <1>1, StreamEnds
<1>4. /\ (SeqAt(a) + (b - a)) % SeqSpace = SeqAt(b)
      /\ SeqDelta(SeqAt(a) + (b - a), SeqAt(r)) = SeqDelta(SeqAt(b), SeqAt(r))
  <2>1. /\ (SeqAt(a) + (b - a)) % SeqSpace = SeqAt(a + (b - a))
        /\ SeqDelta(SeqAt(a) + (b - a), SeqAt(r)) = SeqDelta(SeqAt(a + (b - a)), SeqAt(r))
    BY <1>3, NumberAfter
  <2> QED BY <1>3, <2>1
<1>5. \/ SeqDelta(SeqAt(a), SeqAt(r)) = 0
      \/ SeqDelta(SeqAt(a), SeqAt(r)) < 0 /\ SeqDelta(SeqAt(b), SeqAt(r)) > 0
  BY <1>2, <1>4 DEF accept_seg, in_order, covers_next
<1>6. a <= r
  BY <1>1, <1>5, TakenInOrder
<1>7. ASSUME NEW k \in 1..Fin, k <= b PROVE k <= r \/ Carries(f, k)
  <2>1. a < k \/ k <= r
    BY <1>3, <1>6, <1>7, StreamEnds
  <2> QED BY <1>2, <1>7, <2>1
<1> QED BY <1>2, <1>4, <1>7

(* A frame starts: nothing else was on the way, or the area is full.       *)
LEMMA StartsKeeps ==
    ASSUME PathInv, NEW f \in SessionFrame, Known(f), Starts(f)
    PROVE  PathInv'
<1> USE DEF PathInv
<1> DEFINE beat == <<Lead(f)>>
           m == Passed(beat, FALSE)
           ours == seg_ok(f, FALSE)
<1>1. /\ line = <<>> /\ (sess = <<>> \/ full) /\ line' = <<Trail(f)>>
      /\ CoreTick(beat, FALSE)
  BY BeatsOfFrame DEF Starts
<1>2. ~inFrame
  BY <1>1 DEF CoreInv
<1>3. beat # <<>> /\ Head(beat) = Lead(f) /\ Head(beat).frame = f /\ Head(beat).last = FALSE
  <2>1. beat # <<>> /\ Head(beat) = Lead(f)
    OBVIOUS
  <2> QED BY <2>1, LeadFacts
<1>4. Lead(f) \in SessionBeat /\ Trail(f) \in SessionBeat
  BY FrameBeatsType
<1> HIDE DEF beat
<1>5. m = IF ours THEN <<Lead(f)>> ELSE <<>>
  BY <1>2, <1>3 DEF Passed, beat
<1>6. m \in Seq(SessionBeat) /\ line' \in Seq(SessionBeat) /\ Len(<<>>) = 0
      /\ <<>> \in Seq(SessionBeat)
  <2>1. <<Lead(f)>> \in Seq(SessionBeat) /\ <<Trail(f)>> \in Seq(SessionBeat)
    BY <1>4, BeatThenBeat
  <2>2. <<>> \in Seq(SessionBeat) /\ Len(<<>>) = 0
    BY EmptySeq
  <2> QED BY <1>1, <1>5, <2>1, <2>2
<1>7. /\ PathType' /\ CoreElsewhere
      /\ sess' = sess \/ sess' = sess \o m
      /\ ~full /\ Len(sess) <= 1 => sess' = sess \o m /\ dropped' = dropped
      /\ dropped => dropped'
      /\ ~dropped' /\ m # <<>> => sess' = sess \o m
      /\ (InMemory \cup OnItsWay) \subseteq (InMemory \cup OnItsWay)'
  BY <1>1, <1>6, CoreFeeds
<1>8. /\ configured' = (configured \/ FALSE)
      /\ rcvNxt' = IF ours /\ accept_seg(f) THEN (f.seq + seg_len(f)) % SeqSpace ELSE rcvNxt
      /\ inFrame' = ~Head(beat).last
      /\ accept' = ours
  <2>1. RxTick(beat, FALSE) /\ ours \in BOOLEAN
    BY <1>1 DEF CoreTick, seg_ok
  <2> QED BY <1>2, <1>3, <2>1 DEF RxTick
<1> HIDE DEF m
<1>9. /\ Buf' = Buf /\ full' = full /\ Carry(0)' = Carry(0) /\ Carry(1)' = Carry(1)
      /\ OrderPipe' = OrderPipe /\ InMemory' = InMemory
      /\ CaptureInv' /\ RecordInv' /\ OrderInv'
  BY <1>7, CoreElsewhereKeeps
<1>10. ~full => sess = <<>> /\ sess' = m /\ dropped' = dropped
  <2> SUFFICES ASSUME ~full PROVE sess = <<>> /\ sess' = m /\ dropped' = dropped
    OBVIOUS
  <2>1. sess = <<>> /\ Len(sess) <= 1
    BY <1>1, <1>6
  <2>2. <<>> \o m = m
    BY <1>6, ConcatEmptySeq
  <2> QED BY <1>7, <2>1, <2>2
<1>11. PipeInv'
  <2>1. ASSUME ~full PROVE Whole(SessPipe')
    <3>1. Carry(1) \in Seq(PathBeat) /\ <<>> \in Seq(PathBeat)
      BY PathBeats, EmptySeq
    <3>2. SessPipe = Carry(1)
      <4>1. Passing = <<>> /\ sess = <<>>
        BY <1>1, <1>10, <2>1 DEF Passing
      <4>2. <<>> \o <<>> = <<>> /\ Carry(1) \o <<>> = Carry(1)
        BY <3>1, ConcatEmptySeq
      <4> QED BY <4>1, <4>2 DEF SessPipe
    <3>3. Whole(Carry(1))
      BY <2>1, <3>2 DEF PipeInv
    <3>4. SessPipe' = Carry(1) \o (m \o Passing')
      BY <1>9, <1>10, <2>1 DEF SessPipe
    <3>5. CASE ours
      <4>1. Passing' = <<Trail(f)>> /\ m = <<Lead(f)>>
        BY <1>1, <1>5, <1>8, <3>5 DEF Passing
      <4>2. <<Lead(f)>> \o <<Trail(f)>> = <<Lead(f), Trail(f)>>
        BY <1>4, BeatThenBeat
      <4>3. SessPipe' = Carry(1) \o FrameBeats(f)
        BY <3>4, <4>1, <4>2, LeadFacts
      <4>4. Lead(f) \in PathBeat /\ Trail(f) \in PathBeat
        BY <1>4, PathBeats
      <4> QED BY <3>1, <3>3, <4>3, <4>4, WholeAdd
    <3>6. CASE ~ours
      <4>1. Passing' = <<>> /\ m = <<>>
        BY <1>5, <1>8, <3>6 DEF Passing
      <4>2. <<>> \o <<>> = <<>> /\ Carry(1) \o <<>> = Carry(1)
        BY <3>1, ConcatEmptySeq
      <4> QED BY <3>3, <3>4, <4>1, <4>2
    <3> QED BY <3>5, <3>6
  <2> QED BY <1>9, <2>1 DEF PipeInv
<1>12. CoreInv'
  <2>1. inFrame' /\ line' = <<Trail(f)>>
    BY <1>1, <1>3, <1>8
  <2>2. ~full' => Len(sess') <= 2 /\ (line' # <<>> => Len(sess') <= 1)
    <3>1. Len(m) <= 1 /\ Len(m) <= 2
      <4>1. Len(<<Lead(f)>>) = 1
        OBVIOUS
      <4>2. Len(m) = 1 \/ Len(m) = 0
        BY <1>5, <1>6, <4>1
      <4>3. \A n : n = 1 \/ n = 0 => n <= 1 /\ n <= 2
        OBVIOUS
      <4> QED BY <4>2, <4>3, Zenon
    <3> QED BY <1>9, <1>10, <3>1
  <2>3. dropped' => full'
    BY <1>9, <1>10 DEF CoreInv
  <2> QED BY <2>1, <2>2, <2>3 DEF CoreInv
<1>13. StreamInv'
  <2>1. configured' => configured
    BY <1>8
  <2>2. CASE ~(ours /\ accept_seg(f))
    BY <1>7, <1>8, <2>1, <2>2, StreamStays
  <2>3. CASE ours /\ accept_seg(f)
    <3>0. SUFFICES ASSUME configured'
                   PROVE \E r \in 0..End :
                           /\ rcvNxt' = SeqAt(r)
                           /\ ~dropped' => \A k \in 1..Fin : k <= r => Kept(k)'
      BY DEF StreamInv
    <3> DEFINE Upto(r) == \A k \in 1..Fin : k <= r => Kept(k)
    <3>1. \E r \in 0..End : rcvNxt = SeqAt(r) /\ (~dropped => Upto(r))
      BY <2>1, <3>0 DEF StreamInv
    <3> HIDE DEF Upto
    <3>2. PICK r \in 0..End : rcvNxt = SeqAt(r) /\ (~dropped => Upto(r))
      BY <3>1
    <3>3. PICK b \in 0..End :
              /\ (f.seq + seg_len(f)) % SeqSpace = SeqAt(b)
              /\ \A k \in 1..Fin : k <= b => k <= r \/ Carries(f, k)
      BY <2>3, <3>2, TakenSegment
    <3>4. rcvNxt' = SeqAt(b)
      BY <1>8, <2>3, <3>3
    <3>5. ASSUME ~dropped' PROVE f \in OnItsWay'
      <4>1. sess' = sess \o <<Lead(f)>>
        <5>1. m = <<Lead(f)>> /\ <<Lead(f)>> # <<>>
          BY <1>5, <2>3
        <5> QED BY <1>7, <3>5, <5>1
      <4>2. sess \in Seq(PathBeat) /\ <<Lead(f)>> \in Seq(PathBeat) /\ Buf' \in Seq(PathBeat)
        BY <1>4, <1>9, PathBeats
      <4>3. sess' \in Seq(PathBeat)
        BY <4>1, <4>2, ConcatProperties
      <4>4. OnItsWay' = FramesOf(Buf') \cup FramesOf(sess')
        BY <4>2, <4>3, OnItsWayNext
      <4>5. Lead(f) \in PathBeat
        BY <1>4, PathBeats
      <4>6. f \in FramesOf(sess \o <<Lead(f)>>)
        BY <4>2, <4>5, FramesAdd
      <4> QED BY <4>1, <4>4, <4>6
    <3>6. ASSUME ~dropped', NEW k \in 1..Fin, k <= b PROVE Kept(k)'
      <4>1. CASE k <= r
        <5>1. Kept(k)
          BY <1>7, <3>2, <3>6, <4>1 DEF Upto
        <5>2. PICK g \in InMemory \cup OnItsWay : Carries(g, k)
          BY <5>1 DEF Kept
        <5>3. g \in (InMemory \cup OnItsWay)'
          BY <1>7, <5>2
        <5> QED BY <5>2, <5>3 DEF Kept, Carries
      <4>2. CASE Carries(f, k)
        BY <3>5, <3>6, <4>2 DEF Kept, Carries
      <4> QED BY <3>3, <3>6, <4>1, <4>2
    <3> QED BY <3>4, <3>6
  <2> QED BY <2>2, <2>3
<1> QED BY <1>7, <1>9, <1>11, <1>12, <1>13

(* The frame that is arriving goes on, or nothing arrives: what the FIFO   *)
(* is given is what was passing.                                           *)
LEMMA GoesOnShape ==
    ASSUME PathInv, NEW load \in BOOLEAN, line' = <<>>, CoreTick(line, load)
    PROVE  /\ Passed(line, load) = Passing
           /\ configured' = (configured \/ load)
           /\ rcvNxt' = IF load THEN Irs ELSE rcvNxt
           /\ ~inFrame'
<1> USE DEF PathInv
<1>1. RxTick(line, load)
  BY DEF CoreTick
<1>2. CASE line = <<>>
  <2>1. ~inFrame
    BY <1>2 DEF CoreInv
  <2>2. Passed(line, load) = <<>> /\ Passing = <<>>
    BY <1>2 DEF Passed, Passing
  <2>3. /\ configured' = (configured \/ load) /\ inFrame' = inFrame
        /\ rcvNxt' = IF load THEN Irs ELSE rcvNxt
    BY <1>1, <1>2 DEF RxTick
  <2> QED BY <2>1, <2>2, <2>3
<1>3. CASE line # <<>>
  <2>1. inFrame /\ \E f \in SessionFrame : line = <<Trail(f)>>
    BY <1>3 DEF CoreInv
  <2>2. PICK f \in SessionFrame : line = <<Trail(f)>>
    BY <2>1
  <2>3. Head(line).last = TRUE
    <3>1. Head(<<Trail(f)>>) = Trail(f)
      OBVIOUS
    <3> QED BY <2>2, <3>1, LeadFacts
  <2>4. Passed(line, load) = Passing
    BY <1>3, <2>1 DEF Passed, Passing
  <2>5. /\ configured' = (configured \/ load) /\ inFrame' = ~Head(line).last
        /\ rcvNxt' = IF load THEN Irs ELSE rcvNxt
    BY <1>1, <1>3, <2>1 DEF RxTick
  <2> QED BY <2>3, <2>4, <2>5
<1> QED BY <1>2, <1>3

(* The rest of the frame finds room.                                       *)
LEMMA GoesOnKeeps ==
    ASSUME PathInv, NEW load \in BOOLEAN, line' = <<>>, CoreTick(line, load)
    PROVE  /\ PathType' /\ CaptureInv' /\ PipeInv' /\ CoreInv' /\ RecordInv' /\ OrderInv'
           /\ ~load => StreamInv'
<1> USE DEF PathInv
<1>1. /\ Passed(line, load) = Passing /\ configured' = (configured \/ load)
      /\ rcvNxt' = IF load THEN Irs ELSE rcvNxt
      /\ ~inFrame'
  BY GoesOnShape
<1>2. /\ Passing \in Seq(SessionBeat) /\ line' \in Seq(SessionBeat) /\ Len(<<>>) = 0
      /\ line \in Seq(SessionBeat)
  <2>1. <<>> \in Seq(SessionBeat) /\ Len(<<>>) = 0
    BY EmptySeq
  <2> QED BY <2>1 DEF Passing, PathType
<1>3. /\ PathType' /\ CoreElsewhere
      /\ sess' = sess \/ sess' = sess \o Passing
      /\ ~full /\ Len(sess) <= 1 => sess' = sess \o Passing /\ dropped' = dropped
      /\ dropped => dropped'
      /\ ~dropped' /\ Passing # <<>> => sess' = sess \o Passing
      /\ (InMemory \cup OnItsWay) \subseteq (InMemory \cup OnItsWay)'
  <2>1. Passed(line, load) \in Seq(SessionBeat)
    BY <1>1, <1>2
  <2> QED BY <1>1, <1>2, <2>1, CoreFeeds
<1>4. /\ Buf' = Buf /\ full' = full /\ Carry(0)' = Carry(0) /\ Carry(1)' = Carry(1)
      /\ OrderPipe' = OrderPipe /\ InMemory' = InMemory
      /\ CaptureInv' /\ RecordInv' /\ OrderInv'
  BY <1>3, CoreElsewhereKeeps
<1>5. sess \in Seq(SessionBeat) /\ Len(sess) \in Nat /\ sess \in Seq(PathBeat)
      /\ Passing \in Seq(PathBeat) /\ Len(Passing) \in Nat
  BY <1>2, PathBeats, LenProperties DEF PathType
<1>6. Len(Passing) <= 1 /\ (line = <<>> => Passing = <<>>)
  <2>1. CASE line = <<>>
    BY <1>2, <2>1 DEF Passing
  <2>2. CASE line # <<>>
    <3>1. PICK f \in SessionFrame : line = <<Trail(f)>>
      BY <2>2 DEF CoreInv
    <3>2. Len(<<Trail(f)>>) = 1
      OBVIOUS
    <3> QED BY <1>2, <2>2, <3>1, <3>2 DEF Passing
  <2> QED BY <2>1, <2>2
<1>7. ~full => sess' = sess \o Passing /\ dropped' = dropped
  <2> SUFFICES ASSUME ~full PROVE sess' = sess \o Passing /\ dropped' = dropped
    OBVIOUS
  <2>1. CASE line = <<>>
    <3>1. Passing = <<>> /\ sess \o <<>> = sess
      BY <1>5, <1>6, <2>1, ConcatEmptySeq
    <3>2. dropped' = dropped
      <4>1. Passed(line, load) = <<>>
        BY <1>1, <3>1
      <4>2. dropped' = (dropped \/ (Passed(line, load) # <<>> /\ Len(sess) >= FifoDepth))
        BY DEF CoreTick
      <4> QED BY <4>1, <4>2 DEF PathType
    <3> QED BY <1>3, <3>1, <3>2
  <2>2. CASE line # <<>>
    <3>1. Len(sess) <= 1
      BY <2>2 DEF CoreInv
    <3> QED BY <1>3, <3>1
  <2> QED BY <2>1, <2>2
<1>8. PipeInv'
  <2>1. ASSUME ~full PROVE SessPipe' = SessPipe
    <3>1. Passing' = <<>>
      BY DEF Passing
    <3>2. sess \o Passing \in Seq(PathBeat)
      BY <1>5, ConcatProperties
    <3>3. (sess \o Passing) \o <<>> = sess \o Passing
      BY <3>2, ConcatEmptySeq
    <3> QED BY <1>4, <1>7, <2>1, <3>1, <3>3 DEF SessPipe
  <2> QED BY <1>4, <2>1 DEF PipeInv
<1>9. CoreInv'
  <2>1. ~full => Len(sess') <= 2
    <3> SUFFICES ASSUME ~full PROVE Len(sess') <= 2
      OBVIOUS
    <3>1. Len(sess') = Len(sess) + Len(Passing)
      BY <1>2, <1>5, <1>7, ConcatProperties
    <3>2. CASE line = <<>>
      <4>1. Len(Passing) = 0 /\ Len(sess) <= 2
        BY <1>2, <1>6, <3>2 DEF CoreInv
      <4> QED BY <1>5, <3>1, <4>1
    <3>3. CASE line # <<>>
      <4>1. Len(sess) <= 1
        BY <3>3 DEF CoreInv
      <4> QED BY <1>5, <1>6, <3>1, <4>1
    <3> QED BY <3>2, <3>3
  <2>2. dropped' => full'
    BY <1>4, <1>7 DEF CoreInv
  <2> QED BY <1>1, <1>4, <2>1, <2>2 DEF CoreInv
<1>10. ASSUME ~load PROVE StreamInv'
  <2>1. configured' => configured
    BY <1>1, <1>10 DEF PathType
  <2>2. rcvNxt' = rcvNxt
    BY <1>1, <1>10
  <2> QED BY <1>3, <2>1, <2>2, StreamStays
<1> QED BY <1>3, <1>4, <1>8, <1>9, <1>10

(* The stream begins where it is handed over: nothing has been taken.      *)
LEMMA HandOverKeeps ==
    ASSUME PathInv, HandOver
    PROVE  PathInv'
<1>1. /\ line' = <<>> /\ CoreTick(line, TRUE)
  BY DEF HandOver
<1>2. PathType' /\ CaptureInv' /\ PipeInv' /\ CoreInv' /\ RecordInv' /\ OrderInv'
  BY <1>1, GoesOnKeeps
<1>3. rcvNxt' = Irs
  BY <1>1, GoesOnShape
<1>4. SeqAt(0) = Irs /\ 0 \in 0..End /\ \A k \in 1..Fin : ~(k <= 0)
  BY StreamEnds DEF SeqAt
<1>5. StreamInv'
  <2>1. rcvNxt' = SeqAt(0)
    BY <1>3, <1>4
  <2>2. \E r \in 0..End :
          /\ rcvNxt' = SeqAt(r)
          /\ ~dropped' => \A k \in 1..Fin : k <= r => Kept(k)'
    BY <1>4, <2>1
  <2> QED BY <2>2 DEF StreamInv
<1> QED BY <1>2, <1>5 DEF PathInv

LEMMA CompleteType ==
    ASSUME PathType
    PROVE  Complete \in Seq(PathFrame)
<1>1. CASE Len(Buf) = 2
  <2>1. Len(Buf) # 0
    BY <1>1
  <2>2. Buf # <<>> /\ Buf \in Seq(PathBeat)
    BY <2>1, PathBeats, ShortSeq
  <2>3. Head(Buf) \in PathBeat
    BY <2>2, ShortSeq
  <2>4. Head(Buf).frame \in PathFrame
    BY <2>3 DEF PathBeat, BeatOf, PathFrame
  <2> QED BY <1>1, <2>4, LineOfFrame DEF Complete
<1>2. CASE Len(Buf) # 2
  BY <1>2, EmptySeq DEF Complete
<1> QED BY <1>1, <1>2

(* An order joins behind the others.                                       *)
LEMMA CardOrdersKeeps ==
    ASSUME PathInv, CardOrders
    PROVE  PathInv'
<1> USE DEF PathInv
<1> DEFINE f == [dst |-> "venue", n |-> Len(sent)]
<1>1. /\ sent' = Append(sent, f) /\ orders' = orders \o FrameBeats(f)
      /\ UNCHANGED <<rxVars, arbVars, captureVars, line, sess, dropped>>
  BY DEF CardOrders
<1>2. /\ q' = q /\ fbuf' = fbuf /\ cst' = cst /\ records' = records /\ busy' = busy
      /\ sel' = sel /\ line' = line /\ sess' = sess /\ dropped' = dropped
      /\ configured' = configured /\ rcvNxt' = rcvNxt /\ inFrame' = inFrame
      /\ accept' = accept
  BY <1>1 DEF rxVars, arbVars, captureVars
<1>3. f \in OrderFrame
  BY LenProperties DEF PathType, OrderFrame
<1> HIDE DEF f
<1>4. Lead(f) \in OrderBeat /\ Trail(f) \in OrderBeat
  BY <1>3, FrameBeatsType
<1>5. FrameBeats(f) \in Seq(OrderBeat) /\ FrameBeats(f) \in Seq(PathBeat)
  <2>1. FrameBeats(f) = <<Lead(f), Trail(f)>>
    BY LeadFacts
  <2>2. FrameBeats(f) \in Seq(OrderBeat)
    BY <1>4, <2>1
  <2> QED BY <2>2, PathBeats, SeqMonotonic
<1>6. PathType'
  <2>1. orders' \in Seq(OrderBeat)
    BY <1>1, <1>5, ConcatProperties DEF PathType
  <2>2. sent' \in Seq(OrderFrame)
    BY <1>1, <1>3, AppendProperties DEF PathType
  <2> QED BY <1>2, <2>1, <2>2 DEF PathType
<1>7. Buf' = Buf
  BY <1>2 DEF Buf
<1>8. /\ full' = full /\ InMemory' = InMemory
      /\ Host!Printed(records') = Host!Printed(records) /\ RecordInv'
  BY <1>2, RecordsStay
<1>9. CaptureInv'
  BY <1>2, <1>7, <1>8 DEF CaptureInv
<1>10. Carry(0)' = Carry(0) /\ Carry(1)' = Carry(1) /\ Passing' = Passing
  BY <1>2, <1>7 DEF Carry, Passing
<1>11. SessPipe' = SessPipe
  BY <1>2, <1>10 DEF SessPipe
<1>12. OrderPipe' = OrderPipe \o FrameBeats(f)
  <2>1. Carry(0) \in Seq(PathBeat) /\ orders \in Seq(PathBeat)
    BY PathBeats
  <2>2. Carry(0) \o (orders \o FrameBeats(f)) = (Carry(0) \o orders) \o FrameBeats(f)
    BY <1>5, <2>1, ConcatAssociative
  <2> QED BY <1>1, <1>10, <2>2 DEF OrderPipe
<1>13. /\ Whole(OrderPipe') /\ FramesIn(OrderPipe') = Append(FramesIn(OrderPipe), f)
  <2>1. OrderPipe \in Seq(PathBeat) /\ Whole(OrderPipe) /\ Lead(f) \in PathBeat /\ Trail(f) \in PathBeat
    BY <1>4, PathBeats DEF PipeInv
  <2> QED BY <1>12, <2>1, WholeAdd
<1>14. PipeInv'
  BY <1>8, <1>11, <1>13 DEF PipeInv
<1>15. CoreInv'
  BY <1>2, <1>8 DEF CoreInv
<1>16. OrderInv'
  <2> DEFINE a == Host!Printed(records) \o Complete
             d == FramesIn(OrderPipe)
  <2>1. sent = a \o d
    BY DEF OrderInv
  <2>2. Complete' = Complete
    BY <1>7 DEF Complete
  <2>3. a \in Seq(PathFrame) /\ d \in Seq(PathFrame) /\ f \in PathFrame
    <3>1. Complete \in Seq(PathFrame)
      BY CompleteType
    <3>2. Host!Printed(records) \in Seq(PathFrame)
      BY PrintedType
    <3>3. OrderPipe \in Seq(PathBeat)
      BY PathBeats
    <3> QED BY <1>3, <3>1, <3>2, <3>3, FramesType, ConcatProperties DEF PathFrame
  <2>4. Append(a \o d, f) = a \o Append(d, f)
    <3> HIDE DEF a, d
    <3>1. a \o d \in Seq(PathFrame) /\ <<f>> \in Seq(PathFrame)
      BY <2>3, ConcatProperties
    <3>2. Append(a \o d, f) = (a \o d) \o <<f>> /\ Append(d, f) = d \o <<f>>
      BY <2>3, <3>1, AppendIsConcat
    <3>3. (a \o d) \o <<f>> = a \o (d \o <<f>>)
      BY <2>3, <3>1, ConcatAssociative
    <3> QED BY <3>2, <3>3
  <2>5. sent' = a \o FramesIn(OrderPipe')
    BY <1>1, <1>13, <2>1, <2>4
  <2> QED BY <1>8, <2>2, <2>5 DEF OrderInv
<1>17. StreamInv'
  <2>1. OnItsWay' = OnItsWay
    BY <1>2 DEF OnItsWay
  <2>2. (InMemory \cup OnItsWay)' = InMemory \cup OnItsWay
    BY <1>8, <2>1
  <2> QED BY <1>2, <2>2, StreamStays
<1> QED BY <1>6, <1>8, <1>9, <1>14, <1>15, <1>16, <1>17

LEMMA VenueKeeps ==
    ASSUME PathInv, VenueSends \/ VenueRetries
    PROVE  PathInv'
<1>1. Fin \in Nat /\ End = Fin + 1 /\ Cuts \subseteq 0..End /\ 0 \in 0..End /\ End \in 0..End /\ 0 < End
  BY StreamEnds, CutsAssumption
<1>2. ASSUME NEW a \in 0..End, NEW b \in 0..End, a < b, Starts(Segment(a, b))
      PROVE  PathInv'
  <2>1. Segment(a, b) \in SessionFrame /\ Known(Segment(a, b))
    BY <1>2 DEF SessionFrame, Known
  <2> QED BY <1>2, <2>1, StartsKeeps
<1>3. CASE \E a, b \in Cuts : a < b /\ b - a <= MaxPiece /\ Starts(Segment(a, b))
  BY <1>1, <1>2, <1>3
<1>4. CASE Starts(Ack)
  <2>1. Ack \in SessionFrame
    BY DEF SessionFrame
  <2>2. Ack.payload = <<>> /\ Ack.fin = FALSE /\ Len(<<>>) = 0
    BY DEF Ack, tcp_frame
  <2>3. seg_len(Ack) = 0
    BY <2>2 DEF seg_len
  <2>4. Known(Ack)
    BY <2>3 DEF Known
  <2> QED BY <1>4, <2>1, <2>4, StartsKeeps
<1>5. CASE Starts(Stranger)
  <2>1. Stranger \in SessionFrame
    BY DEF SessionFrame
  <2>2. Stranger.conn = "other"
    BY DEF Stranger, tcp_frame
  <2>3. Known(Stranger)
    BY <2>2 DEF Known
  <2> QED BY <1>5, <2>1, <2>3, StartsKeeps
<1>6. CASE VenueRetries
  BY <1>1, <1>2, <1>6 DEF VenueRetries
<1> QED BY <1>3, <1>4, <1>5, <1>6 DEF VenueSends

LEMMA StutterKeeps ==
    ASSUME PathInv, UNCHANGED sessionVars
    PROVE  PathInv'
<1> USE DEF PathInv
<1>1. /\ q' = q /\ fbuf' = fbuf /\ cst' = cst /\ records' = records /\ busy' = busy
      /\ sel' = sel /\ orders' = orders /\ sess' = sess
      /\ Elsewhere
  BY DEF sessionVars, rxVars, arbVars, captureVars, Elsewhere
<1>2. Buf' = Buf
  BY <1>1 DEF Buf
<1>3. Rests
  BY <1>1, <1>2 DEF Rests
<1>4. Shape' /\ busy' \in BOOLEAN /\ sel' \in {0, 1}
  BY <1>1 DEF PathType, CaptureInv, Shape
<1> QED BY <1>1, <1>3, <1>4, RestsKeeps

(* Every step keeps the invariant.                                         *)
LEMMA PathStep == PathInv /\ [SessionNext]_sessionVars => PathInv'
<1> SUFFICES ASSUME PathInv, [SessionNext]_sessionVars PROVE PathInv'
  OBVIOUS
<1>1. CASE VenueSends \/ VenueRetries
  BY <1>1, VenueKeeps
<1>2. CASE GoesOn
  BY <1>2, GoesOnKeeps DEF GoesOn, PathInv
<1>3. CASE HandOver
  BY <1>3, HandOverKeeps
<1>4. CASE CardOrders
  BY <1>4, CardOrdersKeeps
<1>5. CASE \E answered \in BOOLEAN : ShellTick(answered)
  BY <1>5, ShellKeeps
<1>6. CASE UNCHANGED sessionVars
  BY <1>6, StutterKeeps
<1> QED BY <1>1, <1>2, <1>3, <1>4, <1>5, <1>6 DEF SessionNext

LEMMA PathStarts == SessionInit => PathInv
<1> SUFFICES ASSUME SessionInit PROVE PathInv
  OBVIOUS
<1>1. /\ configured = FALSE /\ rcvNxt = 0 /\ inFrame = FALSE /\ accept = FALSE
      /\ busy = FALSE /\ sel = 0 /\ cst = "C_ACC" /\ q = <<>> /\ fbuf = <<>>
      /\ records = <<>> /\ line = <<>> /\ sess = <<>> /\ dropped = FALSE
      /\ orders = <<>> /\ sent = <<>>
  BY DEF SessionInit, RxInit, ArbInit, CaptureInit
<1>2. <<>> \o <<>> = <<>> /\ Len(<<>>) = 0 /\ \A S : <<>> \in Seq(S)
  BY EmptySeq, ConcatEmptySeq
<1>3. Buf = <<>>
  BY <1>1, <1>2 DEF Buf
<1>4. PathType
  BY <1>1, <1>2 DEF PathType
<1>5. CaptureInv
  BY <1>1, <1>2, <1>3 DEF CaptureInv
<1>6. Carry(0) = <<>> /\ Carry(1) = <<>> /\ Passing = <<>>
  BY <1>1, <1>2, <1>3 DEF Carry, Passing
<1>7. OrderPipe = <<>> /\ SessPipe = <<>>
  BY <1>1, <1>2, <1>6 DEF OrderPipe, SessPipe
<1>8. PipeInv
  BY <1>7, WholeNone DEF PipeInv
<1>9. CoreInv
  BY <1>1, <1>2 DEF CoreInv
<1>10. RecordInv
  BY <1>1, <1>2 DEF RecordInv
<1>11. OrderInv
  <2>1. Host!Printed(records) = <<>>
    <3> DEFINE ss == [i \in 1..Len(records) |-> Host!OrderLine(Host!unpack(records)[i])]
    <3>1. ss = <<>>
      BY <1>1, <1>2
    <3>2. Host!Printed(records) = FlattenSeq(ss)
      BY DEF Host!Printed, FlattenSeq, Host!FlattenSeq
    <3> HIDE DEF ss
    <3> QED BY <1>2, <3>1, <3>2 DEF FlattenSeq
  <2>2. Complete = <<>>
    BY <1>2, <1>3 DEF Complete
  <2> QED BY <1>1, <1>2, <1>7, <2>1, <2>2, WholeNone DEF OrderInv
<1>12. StreamInv
  BY <1>1 DEF StreamInv
<1> QED BY <1>4, <1>5, <1>8, <1>9, <1>10, <1>11, <1>12 DEF PathInv

(* The frames of either source stand whole in what is taken, waiting and   *)
(* passing; what is stored is one frame a record; every order is printed,  *)
(* complete or waiting, in the order sent; and while the FIFO drops        *)
(* nothing, all that the next number is past is kept (tcp_rx.sv,           *)
(* axis_tx_arb.sv, eth_capture.sv, t2t_kernel.sv).                         *)
THEOREM PathInvariant == SessionSpec => []PathInv
<1> QED BY PathStarts, PathStep, PTL DEF SessionSpec

(* The next number never says more than the stream has come to.            *)
LEMMA KeptWhatWasAcked == PathInv => AckedIsKept
<1> SUFFICES ASSUME PathInv, configured, ~dropped, NEW k \in 1..Fin, k <= Offset(rcvNxt)
             PROVE  \E f \in InMemory \cup OnItsWay : Carries(f, k)
  BY DEF AckedIsKept
<1> DEFINE Upto(r) == \A j \in 1..Fin : j <= r => Kept(j)
<1>1. \E r \in 0..End : rcvNxt = SeqAt(r) /\ Upto(r)
  BY DEF PathInv, StreamInv
<1> HIDE DEF Upto
<1>2. PICK r \in 0..End : rcvNxt = SeqAt(r) /\ Upto(r)
  BY <1>1
<1>3. Offset(SeqAt(r)) \in Int /\ Offset(SeqAt(r)) <= r
  BY OffsetIsAtMost
<1>4. k <= Offset(SeqAt(r)) /\ k \in Int /\ r \in Int
  BY <1>2, StreamEnds
<1>5. k <= r
  BY <1>3, <1>4
<1>6. Kept(k)
  BY <1>2, <1>5 DEF Upto
<1> QED BY <1>6 DEF Kept

LEMMA PrefixOfConcat ==
    ASSUME NEW S, NEW a \in Seq(S), NEW b \in Seq(S)
    PROVE  IsPrefix(a, a \o b)
<1> DEFINE w == a \o b
           m == Len(a)
<1>1. /\ w \in Seq(S) /\ m \in Nat /\ Len(b) \in Nat /\ Len(w) = m + Len(b)
      /\ \A i \in 1..m : w[i] = a[i]
  <2>1. w \in Seq(S) /\ m \in Nat /\ Len(b) \in Nat /\ Len(w) = m + Len(b)
    BY ConcatProperties, LenProperties
  <2>2. \A i \in 1..(Len(a) + Len(b)) : (a \o b)[i] = IF i <= Len(a) THEN a[i] ELSE b[i - Len(a)]
    BY ConcatProperties
  <2>3. \A i \in 1..m : i \in 1..(m + Len(b)) /\ i <= m
    BY <2>1
  <2> QED BY <2>1, <2>2, <2>3
<1> HIDE DEF w
<1>2. SubSeq(w, 1, m) = a
  <2>1. \A i \in 1..m : w[i] \in S
    BY <1>1, ElementOfSeq
  <2>2. /\ SubSeq(w, 1, m) \in Seq(S)
        /\ Len(SubSeq(w, 1, m)) = IF 1 <= m THEN m - 1 + 1 ELSE 0
        /\ \A i \in 1..(m - 1 + 1) : SubSeq(w, 1, m)[i] = w[1 + i - 1]
    <3> HIDE DEF m
    <3> QED BY <1>1, <2>1, SubSeqProperties
  <2>3. Len(SubSeq(w, 1, m)) = m
    BY <1>1, <2>2
  <2>4. \A i \in 1..m : SubSeq(w, 1, m)[i] = a[i]
    <3> TAKE i \in 1..m
    <3>1. i \in 1..(m - 1 + 1) /\ 1 + i - 1 = i
      BY <1>1
    <3> QED BY <1>1, <2>2, <3>1
  <2> QED BY <2>2, <2>3, <2>4, SeqEqual
<1>3. SubSeq(a, 1, m) = a
  BY SubSeqFull
<1>4. m <= Len(w)
  BY <1>1
<1> QED BY <1>2, <1>3, <1>4 DEF IsPrefix, w

(* What is printed is the beginning of what was sent.                      *)
LEMMA OrdersAreIntact == PathInv => OrdersUnchanged
<1> SUFFICES ASSUME PathInv PROVE OrdersUnchanged
  OBVIOUS
<1> USE DEF PathInv
<1> DEFINE a == Host!Printed(records)
           c == Complete
           d == FramesIn(OrderPipe)
<1>1. sent = (a \o c) \o d
  BY DEF OrderInv
<1>2. a \in Seq(PathFrame) /\ c \in Seq(PathFrame) /\ d \in Seq(PathFrame)
  BY PrintedType, CompleteType, PathBeats, FramesType
<1>3. IsPrefix(a, (a \o c) \o d)
  <2> HIDE DEF a, c, d
  <2>1. (a \o c) \o d = a \o (c \o d) /\ c \o d \in Seq(PathFrame)
    BY <1>2, ConcatAssociative, ConcatProperties
  <2> QED BY <1>2, <2>1, PrefixOfConcat
<1> QED BY <1>1, <1>3 DEF OrdersUnchanged, RecordInv

(* However the venue cuts, repeats and loses its segments, what tcp_rx.sv  *)
(* acknowledges is in memory or on its way there, as long as u_sess_cdc    *)
(* has dropped nothing: the venue will not send it again.                  *)
THEOREM AcknowledgedIsKept == SessionSpec => []AckedIsKept
<1> QED BY PathInvariant, KeptWhatWasAcked, PTL

(* The orders in memory are those sent, in their order and each in a       *)
(* record of its own, whatever session frames axis_tx_arb.sv put between.  *)
THEOREM OrdersPassUnchanged == SessionSpec => []OrdersUnchanged
<1> QED BY PathInvariant, OrdersAreIntact, PTL
=============================================================================
