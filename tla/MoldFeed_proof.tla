--------------------------- MODULE MoldFeed_proof ---------------------------
(***************************************************************************)
(* Proofs about the splitter beside its golden and about the receivers of  *)
(* the two writers, for every stream they can write, every size of header, *)
(* prefix, message and beat the window admits, and every pace of the bus.  *)
(*                                                                         *)
(* Script and receivers walk over the packets.  Such a walk is one of the  *)
(* kinds of Step, and Fold(kind, x, n) is where it stands after n steps;   *)
(* that it exists and unfolds is shown by the least number that fails.     *)
(***************************************************************************)
EXTENDS MoldFeed, SequenceTheorems, WellFoundedInduction, TLAPS

LEMMA LeastNat ==
    ASSUME NEW S \in SUBSET Nat, S # {}
    PROVE  \E m \in S : \A k \in S : m <= k
<1>1. PICK m \in S : \A k \in S : ~ <<k, m>> \in OpToRel(<, Nat)
  BY NatLessThanWellFounded, WFMin
<1>2. \A k \in S : ~(k < m)
  BY <1>1 DEF OpToRel
<1> QED BY <1>2

(* ---- what walks over packets or messages, step by step ----             *)
First(kind) == IF kind \in {"last", "flow", "MSG", "GAP"} THEN <<>>
               ELSE IF kind = "dump" THEN Golden!Start
               ELSE IF kind = "loose" THEN Received ELSE Strict

Step(kind, x, r, n) ==
    IF kind = "last" THEN Block(x.seq + x.count - n) \o r
    ELSE IF kind = "flow" THEN r \o Bytes(x[n])
    ELSE IF kind = "dump" THEN Golden!Line(r, x[n])
    ELSE IF kind = "loose" THEN Receive(r, x[n])
    ELSE IF kind = "strict" THEN ReceiveStrictly(r, x[n])
    ELSE IF x[n].line = kind THEN Append(r, x[n]) ELSE r

Folds(kind, x, N, f) ==
    f = [n \in 0..N |-> IF n = 0 THEN First(kind) ELSE Step(kind, x, f[n - 1], n)]

LEMMA FoldExists ==
    ASSUME NEW kind, NEW x, NEW N \in Nat
    PROVE  \E f : Folds(kind, x, N, f)
<1> DEFINE Bad == {n \in Nat : ~ \E f : Folds(kind, x, n, f)}
<1>1. SUFFICES ASSUME Bad # {} PROVE FALSE
  OBVIOUS
<1>2. PICK m \in Bad : \A k \in Bad : m <= k
  BY <1>1, LeastNat
<1>3. m \in Nat /\ ~ \E f : Folds(kind, x, m, f)
  BY <1>2
<1>4. m # 0
  <2> DEFINE z == [n \in 0..0 |-> First(kind)]
  <2>1. z = [n \in 0..0 |-> IF n = 0 THEN First(kind) ELSE Step(kind, x, z[n - 1], n)]
    OBVIOUS
  <2> HIDE DEF z
  <2>2. Folds(kind, x, 0, z)
    BY <2>1 DEF Folds
  <2> QED BY <1>3, <2>2
<1>5. PICK f : Folds(kind, x, m - 1, f)
  <2>1. m - 1 \in Nat /\ ~(m <= m - 1)
    BY <1>3, <1>4
  <2>2. m - 1 \notin Bad
    BY <1>2, <2>1
  <2> QED BY <2>1, <2>2
<1> DEFINE h == [n \in 0..m |-> IF n < m THEN f[n] ELSE Step(kind, x, f[n - 1], n)]
<1>6. \A n \in 0..(m - 1) : f[n] = IF n = 0 THEN First(kind) ELSE Step(kind, x, f[n - 1], n)
  <2>1. f = [n \in 0..(m - 1) |-> IF n = 0 THEN First(kind) ELSE Step(kind, x, f[n - 1], n)]
    BY <1>5 DEF Folds
  <2> QED BY ONLY <2>1
<1>7. ASSUME NEW n \in 0..m
      PROVE  h[n] = IF n = 0 THEN First(kind) ELSE Step(kind, x, h[n - 1], n)
  <2>1. n # 0 => n - 1 \in 0..m /\ h[n - 1] = f[n - 1]
    BY <1>3
  <2>2. n < m => h[n] = f[n] /\ n \in 0..(m - 1)
    BY <1>3
  <2>3. ~(n < m) => h[n] = Step(kind, x, f[n - 1], n) /\ n # 0
    BY <1>3, <1>4
  <2> HIDE DEF h
  <2> QED BY <1>6, <2>1, <2>2, <2>3
<1>8. h = [n \in 0..m |-> h[n]]
  OBVIOUS
<1> HIDE DEF h
<1>9. Folds(kind, x, m, h)
  BY <1>7, <1>8, Zenon DEF Folds
<1> QED BY <1>3, <1>9

LEMMA FoldsStep ==
    ASSUME NEW kind, NEW x, NEW N \in Nat, NEW f, Folds(kind, x, N, f)
    PROVE  /\ f[0] = First(kind)
           /\ \A n \in 1..N : f[n] = Step(kind, x, f[n - 1], n)
<1>1. f = [n \in 0..N |-> IF n = 0 THEN First(kind) ELSE Step(kind, x, f[n - 1], n)]
  BY DEF Folds
<1>2. \A n \in 0..N : f[n] = IF n = 0 THEN First(kind) ELSE Step(kind, x, f[n - 1], n)
  BY ONLY <1>1
<1> QED BY <1>2

LEMMA FoldsLast ==
    ASSUME NEW kind, NEW x, NEW N \in Nat, NEW f, Folds(kind, x, N, f), N # 0
    PROVE  f[N] = Step(kind, x, f[N - 1], N)
<1>1. \A n \in 1..N : f[n] = Step(kind, x, f[n - 1], n)
  BY FoldsStep
<1>2. N \in 1..N
  OBVIOUS
<1> QED BY <1>1, <1>2, Zenon

(* Two walks that agree on each step agree.                                *)
LEMMA FoldsAgree ==
    ASSUME NEW kind, NEW x, NEW y, NEW N \in Nat, NEW M \in Nat, N <= M, NEW f, NEW g,
           Folds(kind, x, N, f), Folds(kind, y, M, g),
           \A n \in 1..N : \A r : Step(kind, x, r, n) = Step(kind, y, r, n)
    PROVE  f[N] = g[N]
<1> DEFINE bad == {n \in 0..N : f[n] # g[n]}
<1>1. SUFFICES ASSUME bad # {} PROVE FALSE
  OBVIOUS
<1>2. PICK m \in bad : \A k \in bad : m <= k
  <2>1. bad \in SUBSET Nat
    OBVIOUS
  <2> HIDE DEF bad
  <2> QED BY <1>1, <2>1, LeastNat
<1>3. /\ f[0] = First(kind) /\ g[0] = First(kind)
      /\ \A n \in 1..N : f[n] = Step(kind, x, f[n - 1], n)
      /\ \A n \in 1..M : g[n] = Step(kind, y, g[n - 1], n)
  BY FoldsStep
<1>4. m \in 1..N /\ m \in 1..M /\ f[m] # g[m]
  BY <1>2, <1>3
<1>5. m - 1 \in 0..N /\ ~(m <= m - 1)
  BY <1>4
<1>6. f[m - 1] = g[m - 1]
  BY <1>2, <1>5
<1> QED BY <1>3, <1>4, <1>6

Fold(kind, x, N) == (CHOOSE f : Folds(kind, x, N, f))[N]

LEMMA FoldIs ==
    ASSUME NEW kind, NEW x, NEW N \in Nat
    PROVE  \E f : Folds(kind, x, N, f) /\ Fold(kind, x, N) = f[N]
<1> DEFINE g == CHOOSE f : Folds(kind, x, N, f)
<1>1. Folds(kind, x, N, g)
  BY FoldExists
<1>2. Fold(kind, x, N) = g[N]
  BY DEF Fold
<1> HIDE DEF g
<1> QED BY <1>1, <1>2

LEMMA FoldUnfolds ==
    ASSUME NEW kind, NEW x
    PROVE  /\ Fold(kind, x, 0) = First(kind)
           /\ \A N \in Nat : Fold(kind, x, N + 1) = Step(kind, x, Fold(kind, x, N), N + 1)
<1>1. Fold(kind, x, 0) = First(kind)
  BY FoldIs, FoldsStep
<1>2. ASSUME NEW N \in Nat
      PROVE  Fold(kind, x, N + 1) = Step(kind, x, Fold(kind, x, N), N + 1)
  <2>1. PICK f : Folds(kind, x, N, f) /\ Fold(kind, x, N) = f[N]
    BY FoldIs
  <2>2. PICK g : Folds(kind, x, N + 1, g) /\ Fold(kind, x, N + 1) = g[N + 1]
    BY FoldIs
  <2>3. f[N] = g[N]
    <3>1. N + 1 \in Nat /\ N <= N + 1
      OBVIOUS
    <3> QED BY <2>1, <2>2, <3>1, FoldsAgree
  <2>4. g[N + 1] = Step(kind, x, g[N], N + 1)
    <3>1. N + 1 \in Nat /\ N + 1 # 0 /\ (N + 1) - 1 = N
      OBVIOUS
    <3>2. g[N + 1] = Step(kind, x, g[(N + 1) - 1], N + 1)
      BY <2>2, <3>1, FoldsLast, Zenon
    <3> QED BY <3>1, <3>2, Zenon
  <2> QED BY <2>1, <2>2, <2>3, <2>4
<1> QED BY <1>1, <1>2

LEMMA FoldSame ==
    ASSUME NEW kind, NEW x, NEW y, NEW N \in Nat,
           \A n \in 1..N : \A r : Step(kind, x, r, n) = Step(kind, y, r, n)
    PROVE  Fold(kind, x, N) = Fold(kind, y, N)
<1>1. PICK f : Folds(kind, x, N, f) /\ Fold(kind, x, N) = f[N]
  BY FoldIs
<1>2. PICK g : Folds(kind, y, N, g) /\ Fold(kind, y, N) = g[N]
  BY FoldIs
<1> QED BY <1>1, <1>2, FoldsAgree

(* The walk that is told the function it unfolds.                          *)
LEMMA FoldOf ==
    ASSUME NEW kind, NEW x, NEW N \in Nat, NEW g, Folds(kind, x, N, g)
    PROVE  g[N] = Fold(kind, x, N)
<1>1. PICK f : Folds(kind, x, N, f) /\ Fold(kind, x, N) = f[N]
  BY FoldIs
<1> QED BY <1>1, FoldsAgree

LEMMA LastMessagesIs ==
    ASSUME NEW p, NEW m \in Nat
    PROVE  LastMessages(p, m) = Fold("last", p, m)
<1> DEFINE g == CHOOSE last : last = [j \in 0..m |->
                   IF j = 0 THEN <<>> ELSE Block(p.seq + p.count - j) \o last[j - 1]]
<1>1. PICK f : Folds("last", p, m, f)
  BY FoldExists
<1>2. f = [j \in 0..m |-> IF j = 0 THEN <<>> ELSE Block(p.seq + p.count - j) \o f[j - 1]]
  BY <1>1 DEF Folds, First, Step
<1>3. g = [j \in 0..m |-> IF j = 0 THEN <<>> ELSE Block(p.seq + p.count - j) \o g[j - 1]]
  BY <1>2
<1>4. LastMessages(p, m) = g[m]
  BY DEF LastMessages
<1> HIDE DEF g
<1>5. Folds("last", p, m, g)
  BY <1>3 DEF Folds, First, Step
<1> QED BY <1>4, <1>5, FoldOf

LEMMA DumpIs ==
    ASSUME Len(packets) \in Nat
    PROVE  Golden!Dump(packets) = Fold("dump", packets, Len(packets)).out
<1> DEFINE N == Len(packets)
           g == CHOOSE after : after = [n \in 0..N |->
                   IF n = 0 THEN Golden!Start ELSE Golden!Line(after[n - 1], packets[n])]
<1>1. PICK f : Folds("dump", packets, N, f)
  BY FoldExists
<1>2. f = [n \in 0..N |-> IF n = 0 THEN Golden!Start ELSE Golden!Line(f[n - 1], packets[n])]
  BY <1>1 DEF Folds, First, Step
<1>3. g = [n \in 0..N |-> IF n = 0 THEN Golden!Start ELSE Golden!Line(g[n - 1], packets[n])]
  BY <1>2
<1>4. Golden!Dump(packets) = g[N].out
  BY DEF Golden!Dump
<1> HIDE DEF g
<1>5. Folds("dump", packets, N, g)
  BY <1>3 DEF Folds, First, Step
<1> QED BY <1>4, <1>5, FoldOf

(* ---- sequences ----                                                     *)
LEMMA CutInTwo ==
    ASSUME NEW S, NEW b \in Seq(S), NEW k \in 0..Len(b)
    PROVE  /\ SubSeq(b, 1, k) \in Seq(S) /\ Len(SubSeq(b, 1, k)) = k
           /\ SubSeq(b, k + 1, Len(b)) \in Seq(S)
           /\ SubSeq(b, 1, k) \o SubSeq(b, k + 1, Len(b)) = b
<1>1. Len(b) \in Nat /\ \A i \in 1..Len(b) : b[i] \in S
  BY LenProperties, ElementOfSeq
<1>2. SubSeq(b, 1, k) \in Seq(S) /\ Len(SubSeq(b, 1, k)) = k
  <2>1. \A i \in 1..k : b[i] \in S
    BY <1>1
  <2>2. /\ SubSeq(b, 1, k) \in Seq(S)
        /\ Len(SubSeq(b, 1, k)) = IF 1 <= k THEN k - 1 + 1 ELSE 0
    BY <1>1, <2>1, SubSeqProperties
  <2> QED BY <1>1, <2>2
<1>3. SubSeq(b, k + 1, Len(b)) \in Seq(S)
  <2>1. \A i \in (k + 1)..Len(b) : b[i] \in S
    BY <1>1
  <2> QED BY <1>1, <2>1, SubSeqProperties
<1>4. SubSeq(b, 1, k) \o SubSeq(b, k + 1, Len(b)) = b
  <2>1. 1 \in 1..(Len(b) + 1) /\ k \in (1 - 1)..Len(b) /\ Len(b) \in k..Len(b)
    BY <1>1
  <2>2. SubSeq(b, 1, k) \o SubSeq(b, k + 1, Len(b)) = SubSeq(b, 1, Len(b))
    BY <2>1, ConcatAdjacentSubSeq
  <2> QED BY <2>2, SubSeqFull
<1> QED BY <1>2, <1>3, <1>4

(* ---- what is written ----                                               *)
Packet == {p \in [seq : Nat, count : Nat] :
              p.seq >= 1 /\ (IsData(p) => p.seq + p.count - 1 <= NMsgs)}
Unit == [hdr : {<<>>} \cup {<<p>> : p \in Packet}, msg : 0..NMsgs, at : Nat]

LEMMA Sizes ==
    /\ HDR_B \in Nat /\ PREFIX_B \in Nat /\ BEATB \in Nat /\ CntMod \in Nat
    /\ 0 < HDR_B /\ 0 < PREFIX_B /\ 0 < BEATB /\ HDR_B <= BEATB /\ PREFIX_B <= BEATB
    /\ EOS_COUNT \in Nat /\ NMsgs \in Nat /\ NMsgs < EOS_COUNT /\ EosCount = EOS_COUNT
    /\ \A n \in 1..NMsgs : Length[n] \in Nat /\ 0 < Length[n] /\ PREFIX_B + Length[n] <= BEATB
<1>1. DOMAIN Length = 1..NMsgs
  BY StreamAssumption
<1> QED BY <1>1, SplitterAssumption, PackAssumption, StreamAssumption

LEMMA HeaderUnits ==
    ASSUME NEW p \in Packet
    PROVE  LET h == [k \in 1..HDR_B |-> HeaderUnit(p, k)] IN
           h \in Seq(Unit) /\ Len(h) = HDR_B /\ h[1] = HeaderUnit(p, 1)
<1>1. \A k \in 1..HDR_B : HeaderUnit(p, k) \in Unit
  BY Sizes DEF HeaderUnit, Unit
<1> QED BY <1>1, Sizes

LEMMA BlockUnits ==
    ASSUME NEW n \in 1..NMsgs
    PROVE  /\ Block(n) \in Seq(Unit) /\ Len(Block(n)) = PREFIX_B + Length[n]
           /\ \A k \in 1..(PREFIX_B + Length[n]) : Block(n)[k] = MessageUnit(n, k)
<1>1. \A k \in 1..(PREFIX_B + Length[n]) : MessageUnit(n, k) \in Unit
  BY Sizes DEF MessageUnit, Unit
<1>2. PREFIX_B + Length[n] \in Nat
  BY Sizes
<1> QED BY <1>1, <1>2 DEF Block

LEMMA LastMessagesStep ==
    ASSUME NEW p, NEW m \in Nat
    PROVE  /\ LastMessages(p, 0) = <<>>
           /\ LastMessages(p, m + 1) = Block(p.seq + p.count - (m + 1)) \o LastMessages(p, m)
<1>1. /\ Fold("last", p, 0) = First("last")
      /\ Fold("last", p, m + 1) = Step("last", p, Fold("last", p, m), m + 1)
  BY FoldUnfolds
<1>2. LastMessages(p, 0) = Fold("last", p, 0) /\ LastMessages(p, m) = Fold("last", p, m)
  BY LastMessagesIs
<1>3. LastMessages(p, m + 1) = Fold("last", p, m + 1)
  <2>1. m + 1 \in Nat
    OBVIOUS
  <2> QED BY <2>1, LastMessagesIs
<1> QED BY <1>1, <1>2, <1>3 DEF First, Step

LEMMA LastMessagesUnits ==
    ASSUME NEW p \in Packet, IsData(p), NEW m \in 0..p.count
    PROVE  /\ LastMessages(p, m) \in Seq(Unit)
           /\ 0 < m => /\ p.seq + p.count - m \in 1..NMsgs
                       /\ LastMessages(p, m - 1) \in Seq(Unit)
                       /\ LastMessages(p, m) = Block(p.seq + p.count - m) \o LastMessages(p, m - 1)
<1>1. p.seq \in Nat /\ p.count \in Nat /\ p.seq >= 1 /\ p.seq + p.count - 1 <= NMsgs
  BY DEF Packet
<1>2. ASSUME NEW k \in Nat, k + 1 <= p.count, LastMessages(p, k) \in Seq(Unit)
      PROVE  /\ p.seq + p.count - (k + 1) \in 1..NMsgs
             /\ LastMessages(p, k + 1) = Block(p.seq + p.count - (k + 1)) \o LastMessages(p, k)
             /\ LastMessages(p, k + 1) \in Seq(Unit)
  <2>1. p.seq + p.count - (k + 1) \in 1..NMsgs
    BY <1>1, <1>2, Sizes
  <2>2. LastMessages(p, k + 1) = Block(p.seq + p.count - (k + 1)) \o LastMessages(p, k)
    BY LastMessagesStep
  <2>3. Block(p.seq + p.count - (k + 1)) \in Seq(Unit)
    BY <2>1, BlockUnits
  <2> QED BY <1>2, <2>1, <2>2, <2>3, ConcatProperties
<1> DEFINE bad == {k \in 0..p.count : LastMessages(p, k) \notin Seq(Unit)}
<1>3. ASSUME bad # {} PROVE FALSE
  <2>1. PICK j \in bad : \A k \in bad : j <= k
    <3>1. bad \in SUBSET Nat
      BY <1>1
    <3> HIDE DEF bad
    <3> QED BY <1>3, <3>1, LeastNat
  <2>2. j \in 0..p.count /\ LastMessages(p, j) \notin Seq(Unit)
    BY <2>1
  <2>3. j # 0
    <3>1. LastMessages(p, 0) = <<>> /\ <<>> \in Seq(Unit)
      BY LastMessagesStep, EmptySeq
    <3> QED BY <2>2, <3>1
  <2>4. j - 1 \in Nat /\ (j - 1) + 1 <= p.count /\ (j - 1) + 1 = j /\ j - 1 \in 0..p.count /\ ~(j <= j - 1)
    BY <1>1, <2>2, <2>3
  <2>5. LastMessages(p, j - 1) \in Seq(Unit)
    BY <2>1, <2>4
  <2>6. LastMessages(p, (j - 1) + 1) \in Seq(Unit)
    BY <1>2, <2>4, <2>5
  <2> QED BY <2>2, <2>4, <2>6
<1>4. LastMessages(p, m) \in Seq(Unit)
  BY <1>3
<1>5. ASSUME 0 < m
      PROVE  /\ p.seq + p.count - m \in 1..NMsgs
             /\ LastMessages(p, m - 1) \in Seq(Unit)
             /\ LastMessages(p, m) = Block(p.seq + p.count - m) \o LastMessages(p, m - 1)
  <2>1. m - 1 \in Nat /\ (m - 1) + 1 <= p.count /\ (m - 1) + 1 = m /\ m - 1 \in 0..p.count
    BY <1>1, <1>5
  <2>2. LastMessages(p, m - 1) \in Seq(Unit)
    BY <1>3, <2>1
  <2>3. /\ p.seq + p.count - ((m - 1) + 1) \in 1..NMsgs
        /\ LastMessages(p, (m - 1) + 1) = Block(p.seq + p.count - ((m - 1) + 1)) \o LastMessages(p, m - 1)
    BY <1>2, <2>1, <2>2
  <2> QED BY <2>1, <2>2, <2>3
<1> QED BY <1>4, <1>5

Hdr(p)     == [k \in 1..HDR_B |-> HeaderUnit(p, k)]
Payload(p) == IF IsData(p) THEN LastMessages(p, p.count) ELSE <<>>

LEMMA BytesUnits ==
    ASSUME NEW p \in Packet
    PROVE  /\ Bytes(p) = Hdr(p) \o Payload(p)
           /\ Hdr(p) \in Seq(Unit) /\ Len(Hdr(p)) = HDR_B /\ Hdr(p)[1] = HeaderUnit(p, 1)
           /\ Payload(p) \in Seq(Unit) /\ Bytes(p) \in Seq(Unit) /\ 0 < Len(Bytes(p))
<1>1. Bytes(p) = Hdr(p) \o Payload(p)
  BY DEF Bytes, Hdr, Payload
<1>2. Hdr(p) \in Seq(Unit) /\ Len(Hdr(p)) = HDR_B /\ Hdr(p)[1] = HeaderUnit(p, 1)
  BY HeaderUnits DEF Hdr
<1>3. Payload(p) \in Seq(Unit)
  <2>1. p.count \in 0..p.count
    BY DEF Packet
  <2>2. IsData(p) => LastMessages(p, p.count) \in Seq(Unit)
    BY <2>1, LastMessagesUnits
  <2>3. <<>> \in Seq(Unit)
    BY EmptySeq
  <2> QED BY <2>2, <2>3 DEF Payload
<1>4. Hdr(p) \o Payload(p) \in Seq(Unit) /\ Len(Hdr(p) \o Payload(p)) = Len(Hdr(p)) + Len(Payload(p))
  BY <1>2, <1>3, ConcatProperties
<1>5. Len(Payload(p)) \in Nat
  BY <1>3, LenProperties
<1> QED BY <1>1, <1>2, <1>3, <1>4, <1>5, Sizes

Flow(ps, i) == Fold("flow", ps, i)

LEMMA FlowUnits ==
    ASSUME NEW ps \in Seq(Packet)
    PROVE  /\ \A i \in 0..Len(ps) : Flow(ps, i) \in Seq(Unit)
           /\ \A i \in Nat : Flow(ps, i + 1) = Flow(ps, i) \o Bytes(ps[i + 1])
<1>1. Len(ps) \in Nat /\ \A i \in 1..Len(ps) : ps[i] \in Packet
  BY LenProperties, ElementOfSeq
<1>2. Flow(ps, 0) = <<>> /\ \A i \in Nat : Flow(ps, i + 1) = Flow(ps, i) \o Bytes(ps[i + 1])
  BY FoldUnfolds DEF Flow, First, Step
<1> DEFINE bad == {k \in 0..Len(ps) : Flow(ps, k) \notin Seq(Unit)}
<1>3. ASSUME bad # {} PROVE FALSE
  <2>1. PICK j \in bad : \A k \in bad : j <= k
    <3>1. bad \in SUBSET Nat
      BY <1>1
    <3> HIDE DEF bad
    <3> QED BY <1>3, <3>1, LeastNat
  <2>2. j \in 0..Len(ps) /\ Flow(ps, j) \notin Seq(Unit)
    BY <2>1
  <2>3. j # 0
    BY <1>2, <2>2, EmptySeq
  <2>4. j - 1 \in Nat /\ (j - 1) + 1 = j /\ j - 1 \in 0..Len(ps) /\ ~(j <= j - 1) /\ j \in 1..Len(ps)
    BY <1>1, <2>2, <2>3
  <2>5. Flow(ps, j - 1) \in Seq(Unit)
    BY <2>1, <2>4
  <2>6. Flow(ps, (j - 1) + 1) = Flow(ps, j - 1) \o Bytes(ps[(j - 1) + 1])
    BY <1>2, <2>4
  <2>7. Bytes(ps[j]) \in Seq(Unit)
    BY <1>1, <2>4, BytesUnits
  <2>8. Flow(ps, j - 1) \o Bytes(ps[j]) \in Seq(Unit)
    BY <2>5, <2>7, ConcatProperties
  <2> QED BY <2>2, <2>4, <2>6, <2>8
<1> QED BY <1>2, <1>3

LEMMA FlowGoesOn ==
    ASSUME NEW ps \in Seq(Packet), NEW i \in 0..Len(ps)
    PROVE  \E Z \in Seq(Unit) : Flow(ps, Len(ps)) = Flow(ps, i) \o Z
<1> DEFINE N == Len(ps)
           goes(k) == \E Z \in Seq(Unit) : Flow(ps, N) = Flow(ps, N - k) \o Z
           bad == {k \in 0..N : ~goes(k)}
<1>1. N \in Nat /\ \A k \in 1..N : ps[k] \in Packet
  BY LenProperties, ElementOfSeq
<1>2. ASSUME bad # {} PROVE FALSE
  <2>1. PICK j \in bad : \A k \in bad : j <= k
    <3>1. bad \in SUBSET Nat
      BY <1>1
    <3> HIDE DEF bad
    <3> QED BY <1>2, <3>1, LeastNat
  <2>2. j \in 0..N /\ ~goes(j)
    BY <2>1
  <2>3. j # 0
    <3>1. Flow(ps, N) = Flow(ps, N) \o <<>> /\ <<>> \in Seq(Unit) /\ N - 0 = N
      <4>1. N \in 0..Len(ps)
        BY <1>1
      <4>2. Flow(ps, N) \in Seq(Unit)
        BY <4>1, FlowUnits
      <4> QED BY <1>1, <4>2, ConcatEmptySeq, EmptySeq
    <3>2. goes(0)
      BY <3>1
    <3> QED BY <2>2, <3>2
  <2>4. j - 1 \in 0..N /\ ~(j <= j - 1)
    BY <1>1, <2>2, <2>3
  <2>5. goes(j - 1)
    BY <2>1, <2>4
  <2>6. PICK Z \in Seq(Unit) : Flow(ps, N) = Flow(ps, N - (j - 1)) \o Z
    BY <2>5
  <2> DEFINE m == N - j
  <2>7. m \in Nat /\ m \in 0..N /\ N - (j - 1) = m + 1 /\ m + 1 \in 1..N
    BY <1>1, <2>2, <2>3
  <2>8. Flow(ps, m + 1) = Flow(ps, m) \o Bytes(ps[m + 1]) /\ Flow(ps, m) \in Seq(Unit)
    BY <2>7, FlowUnits
  <2>9. Bytes(ps[m + 1]) \in Seq(Unit)
    BY <1>1, <2>7, BytesUnits
  <2>10. Flow(ps, N) = Flow(ps, m) \o (Bytes(ps[m + 1]) \o Z)
    <3>1. (Flow(ps, m) \o Bytes(ps[m + 1])) \o Z = Flow(ps, m) \o (Bytes(ps[m + 1]) \o Z)
      <4> HIDE DEF m
      <4>1. Flow(ps, m) \in Seq(Unit)
        BY <2>8
      <4> QED BY ONLY <4>1, <2>9, ConcatAssociative
    <3> QED BY <2>6, <2>7, <2>8, <3>1
  <2>11. Bytes(ps[m + 1]) \o Z \in Seq(Unit)
    BY <2>9, ConcatProperties
  <2>12. goes(j)
    BY <2>10, <2>11
  <2> QED BY <2>2, <2>12
<1>3. N - i \in 0..N /\ N - (N - i) = i
  BY <1>1
<1>4. goes(N - i)
  BY <1>2, <1>3
<1> QED BY <1>3, <1>4

(* ---- what the golden prints ----                                        *)
LogLine == [line : {"MSG", "GAP", "HB", "EOS"}, seq : Nat, expected : Nat]
DumpState == [expected : Nat, out : Seq(LogLine), eos : BOOLEAN]

LEMMA LinesAreLines ==
    /\ \A n \in Nat : Golden!MSG(n) \in LogLine /\ Golden!HB(n) \in LogLine /\ Golden!EOS(n) \in LogLine
    /\ \A m, n \in Nat : Golden!GAP(m, n) \in LogLine
BY DEF LogLine, Golden!MSG, Golden!HB, Golden!EOS, Golden!GAP

(* The lines of the last m messages of p.                                  *)
LastLines(p, m) == [k \in 1..m |-> Golden!MSG(p.seq + p.count - m + k - 1)]

LEMMA LastLinesStep ==
    ASSUME NEW p \in Packet, NEW m \in 0..p.count
    PROVE  /\ LastLines(p, m) \in Seq(LogLine)
           /\ LastLines(p, 0) = <<>>
           /\ LastLines(p, p.count) = Golden!Messages(p)
           /\ 0 < m => /\ LastLines(p, m) = <<Golden!MSG(p.seq + p.count - m)>> \o LastLines(p, m - 1)
                       /\ LastLines(p, m - 1) \in Seq(LogLine)
<1>1. p.seq \in Nat /\ p.count \in Nat /\ p.seq >= 1
  BY DEF Packet
<1>2. ASSUME NEW j \in 0..p.count
      PROVE  /\ LastLines(p, j) \in Seq(LogLine) /\ Len(LastLines(p, j)) = j
             /\ \A k \in 1..j : LastLines(p, j)[k] = Golden!MSG(p.seq + p.count - j + k - 1)
  <2>1. \A k \in 1..j : p.seq + p.count - j + k - 1 \in Nat
    BY <1>1
  <2>2. \A k \in 1..j : Golden!MSG(p.seq + p.count - j + k - 1) \in LogLine
    BY <2>1, LinesAreLines
  <2>3. j \in Nat
    BY <1>1
  <2> QED BY <2>2, <2>3 DEF LastLines
<1>3. LastLines(p, 0) = <<>>
  <2>1. 0 \in 0..p.count
    BY <1>1
  <2>2. LastLines(p, 0) \in Seq(LogLine) /\ Len(LastLines(p, 0)) = 0
    BY <1>2, <2>1
  <2> QED BY <2>2, EmptySeq
<1>4. LastLines(p, p.count) = Golden!Messages(p)
  <2>1. \A k \in 1..p.count : p.seq + p.count - p.count + k - 1 = p.seq + k - 1
    BY <1>1
  <2> QED BY <2>1 DEF LastLines, Golden!Messages
<1>5. ASSUME 0 < m
      PROVE  /\ LastLines(p, m) = <<Golden!MSG(p.seq + p.count - m)>> \o LastLines(p, m - 1)
             /\ LastLines(p, m - 1) \in Seq(LogLine)
  <2> DEFINE one == <<Golden!MSG(p.seq + p.count - m)>>
             r == LastLines(p, m - 1)
             s == LastLines(p, m)
  <2>1. m - 1 \in 0..p.count /\ m \in Nat
    BY <1>1, <1>5
  <2>2. /\ r \in Seq(LogLine) /\ Len(r) = m - 1
        /\ \A k \in 1..(m - 1) : r[k] = Golden!MSG(p.seq + p.count - (m - 1) + k - 1)
    BY <1>2, <2>1
  <2>3. /\ s \in Seq(LogLine) /\ Len(s) = m
        /\ \A k \in 1..m : s[k] = Golden!MSG(p.seq + p.count - m + k - 1)
    BY <1>2
  <2>4. one \in Seq(LogLine) /\ Len(one) = 1 /\ one[1] = Golden!MSG(p.seq + p.count - m)
    <3>1. p.seq + p.count - m \in Nat
      BY <1>1
    <3> QED BY <3>1, LinesAreLines
  <2> HIDE DEF one, r, s
  <2>5. one \o r \in Seq(LogLine) /\ Len(one \o r) = m
    <3>1. one \o r \in Seq(LogLine) /\ Len(one \o r) = Len(one) + Len(r)
      BY <2>2, <2>4, ConcatProperties
    <3> QED BY <2>1, <2>2, <2>4, <3>1
  <2>6. \A k \in 1..Len(s) : s[k] = (one \o r)[k]
    <3> TAKE k \in 1..Len(s)
    <3>1. k \in 1..(Len(one) + Len(r)) /\ k \in 1..m
      BY <2>1, <2>2, <2>3, <2>4
    <3>2. (one \o r)[k] = IF k <= Len(one) THEN one[k] ELSE r[k - Len(one)]
      BY <2>2, <2>4, <3>1, ConcatProperties
    <3>3. CASE k = 1
      <4>1. p.seq + p.count - m + 1 - 1 = p.seq + p.count - m
        BY <1>1
      <4> QED BY <2>3, <2>4, <3>1, <3>2, <3>3, <4>1
    <3>4. CASE k # 1
      <4>1. k - 1 \in 1..(m - 1) /\ ~(k <= 1) /\ p.seq + p.count - (m - 1) + (k - 1) - 1 = p.seq + p.count - m + k - 1
        BY <1>1, <3>1, <3>4
      <4>2. (one \o r)[k] = r[k - 1]
        BY <2>4, <3>2, <4>1
      <4>3. r[k - 1] = Golden!MSG(p.seq + p.count - (m - 1) + (k - 1) - 1)
        BY <2>2, <4>1
      <4>4. s[k] = Golden!MSG(p.seq + p.count - m + k - 1)
        BY <2>3, <3>1
      <4> QED BY <4>1, <4>2, <4>3, <4>4
    <3> QED BY <3>3, <3>4
  <2>7. s = one \o r
    BY <2>3, <2>5, <2>6, SeqEqual
  <2> QED BY <2>2, <2>7 DEF one, r, s
<1> QED BY <1>2, <1>3, <1>4, <1>5

(* What the golden prints for one more packet.                             *)
Told(x, p) ==
    IF p.count = EOS_COUNT THEN <<Golden!EOS(p.seq)>>
    ELSE (IF p.seq > x THEN <<Golden!GAP(x, p.seq)>> ELSE <<>>) \o
         (IF p.count = 0 THEN <<Golden!HB(p.seq)>>
          ELSE IF p.seq < x THEN <<>> ELSE Golden!Messages(p))

Expects(x, p) ==
    IF p.count = EOS_COUNT THEN x
    ELSE IF p.count = 0 THEN (IF p.seq > x THEN p.seq ELSE x)
    ELSE IF p.seq < x THEN x ELSE p.seq + p.count

LEMMA ToldType ==
    ASSUME NEW x \in Nat, NEW p \in Packet
    PROVE  /\ p.seq \in Nat /\ p.count \in Nat
           /\ <<Golden!EOS(p.seq)>> \in Seq(LogLine) /\ <<Golden!HB(p.seq)>> \in Seq(LogLine)
           /\ <<Golden!GAP(x, p.seq)>> \in Seq(LogLine) /\ Golden!Messages(p) \in Seq(LogLine)
           /\ <<>> \in Seq(LogLine)
           /\ Told(x, p) \in Seq(LogLine) /\ Expects(x, p) \in Nat
<1>1. p.seq \in Nat /\ p.count \in Nat
  BY DEF Packet
<1>2. /\ <<>> \in Seq(LogLine) /\ <<Golden!EOS(p.seq)>> \in Seq(LogLine)
      /\ <<Golden!HB(p.seq)>> \in Seq(LogLine)
      /\ <<Golden!GAP(x, p.seq)>> \in Seq(LogLine)
  BY <1>1, LinesAreLines
<1>3. Golden!Messages(p) \in Seq(LogLine)
  <2>1. p.count \in 0..p.count
    BY <1>1
  <2> QED BY <2>1, LastLinesStep
<1> DEFINE a == IF p.seq > x THEN <<Golden!GAP(x, p.seq)>> ELSE <<>>
           b == IF p.count = 0 THEN <<Golden!HB(p.seq)>>
                ELSE IF p.seq < x THEN <<>> ELSE Golden!Messages(p)
<1>4. a \in Seq(LogLine) /\ b \in Seq(LogLine)
  BY <1>2, <1>3
<1>5. a \o b \in Seq(LogLine)
  <2> HIDE DEF a, b
  <2> QED BY <1>4, ConcatProperties
<1> QED BY <1>1, <1>2, <1>3, <1>5 DEF Told, Expects

LEMMA OneRecord ==
    ASSUME NEW x, NEW o, NEW b, NEW r \in [expected : {x}, out : {o}, eos : {b}]
    PROVE  r = [expected |-> x, out |-> o, eos |-> b]
OBVIOUS

LEMMA LineWrites ==
    ASSUME NEW x \in Nat, NEW o \in Seq(LogLine), NEW p \in Packet
    PROVE  Golden!Line([expected |-> x, out |-> o, eos |-> FALSE], p) =
               [expected |-> Expects(x, p), out |-> o \o Told(x, p), eos |-> p.count = EOS_COUNT]
<1> DEFINE gap == Golden!GAP(x, p.seq)
           hb == Golden!HB(p.seq)
           eos == Golden!EOS(p.seq)
           ms == Golden!Messages(p)
           d == [expected |-> x, out |-> o, eos |-> FALSE]
<1>1. /\ p.seq \in Nat /\ p.count \in Nat
      /\ <<gap>> \in Seq(LogLine) /\ <<hb>> \in Seq(LogLine) /\ <<eos>> \in Seq(LogLine)
      /\ ms \in Seq(LogLine) /\ <<>> \in Seq(LogLine)
  BY ToldType
<1>2. gap \in LogLine /\ hb \in LogLine /\ eos \in LogLine
  BY <1>1, LinesAreLines
<1>3. Told(x, p) = IF p.count = EOS_COUNT THEN <<eos>>
                   ELSE (IF p.seq > x THEN <<gap>> ELSE <<>>) \o
                        (IF p.count = 0 THEN <<hb>> ELSE IF p.seq < x THEN <<>> ELSE ms)
  BY DEF Told
<1>4. /\ d.expected = x /\ d.out = o /\ d.eos = FALSE
      /\ \A u, b : [d EXCEPT !.eos = b, !.out = u] = [expected |-> x, out |-> u, eos |-> b]
      /\ \A u, e : [d EXCEPT !.out = u, !.expected = e] = [expected |-> e, out |-> u, eos |-> FALSE]
      /\ \A u : [d EXCEPT !.out = u] = [expected |-> x, out |-> u, eos |-> FALSE]
  <2>1. d.expected = x /\ d.out = o /\ d.eos = FALSE
    OBVIOUS
  <2>0. d \in [expected : {x}, out : {o}, eos : {FALSE}]
    OBVIOUS
  <2>2. ASSUME NEW u, NEW b
        PROVE  [d EXCEPT !.eos = b, !.out = u] = [expected |-> x, out |-> u, eos |-> b]
    <3>1. [d EXCEPT !.eos = b, !.out = u] \in [expected : {x}, out : {u}, eos : {b}]
      BY <2>0
    <3> QED BY ONLY <3>1, OneRecord
  <2>3. ASSUME NEW u, NEW e
        PROVE  [d EXCEPT !.out = u, !.expected = e] = [expected |-> e, out |-> u, eos |-> FALSE]
    <3>1. [d EXCEPT !.out = u, !.expected = e] \in [expected : {e}, out : {u}, eos : {FALSE}]
      BY <2>0
    <3> QED BY ONLY <3>1, OneRecord
  <2>4. ASSUME NEW u
        PROVE  [d EXCEPT !.out = u] = [expected |-> x, out |-> u, eos |-> FALSE]
    <3>1. [d EXCEPT !.out = u] \in [expected : {x}, out : {u}, eos : {FALSE}]
      BY <2>0
    <3> QED BY ONLY <3>1, OneRecord
  <2> HIDE DEF d
  <2> QED BY <2>1, <2>2, <2>3, <2>4
<1> HIDE DEF gap, hb, eos, ms, d
<1>5. /\ Append(o, eos) = o \o <<eos>>
      /\ Append(o, gap) = o \o <<gap>>
      /\ Append(o, hb) = o \o <<hb>>
      /\ Append(o, gap) \in Seq(LogLine)
  BY <1>2, AppendIsConcat, AppendProperties
<1>6. Append(Append(o, gap), hb) = o \o (<<gap>> \o <<hb>>)
  <2>1. Append(Append(o, gap), hb) = Append(o, gap) \o <<hb>>
    BY <1>2, <1>5, AppendIsConcat
  <2>2. (o \o <<gap>>) \o <<hb>> = o \o (<<gap>> \o <<hb>>)
    BY <1>1, ConcatAssociative
  <2> QED BY <1>5, <2>1, <2>2
<1>7. Append(o, gap) \o ms = o \o (<<gap>> \o ms)
  <2>1. (o \o <<gap>>) \o ms = o \o (<<gap>> \o ms)
    BY <1>1, ConcatAssociative
  <2> QED BY <1>5, <2>1
<1>8. /\ <<>> \o <<hb>> = <<hb>> /\ <<>> \o ms = ms /\ <<gap>> \o <<>> = <<gap>>
      /\ <<>> \o <<>> = <<>> /\ o \o <<>> = o
  BY <1>1, ConcatEmptySeq
<1> DEFINE out == IF p.seq > x THEN Append(o, gap) ELSE o
<1>9. CASE p.count = EOS_COUNT
  <2>1. Golden!Line(d, p) = [d EXCEPT !.eos = TRUE, !.out = Append(o, eos)]
    BY <1>4, <1>9 DEF Golden!Line, eos
  <2>2. Expects(x, p) = x /\ Told(x, p) = <<eos>>
    BY <1>3, <1>9 DEF Expects
  <2>3. (p.count = EOS_COUNT) = TRUE
    BY <1>9
  <2>4. [d EXCEPT !.eos = TRUE, !.out = Append(o, eos)] = [expected |-> x, out |-> Append(o, eos), eos |-> TRUE]
    BY <1>4, Zenon
  <2> QED BY <1>5, <2>1, <2>2, <2>3, <2>4 DEF d
<1>10. CASE p.count # EOS_COUNT /\ p.count = 0
  <2>1. Golden!Line(d, p) = [d EXCEPT !.out = Append(out, hb),
                                      !.expected = IF p.seq > x THEN p.seq ELSE x]
    BY <1>4, <1>10 DEF Golden!Line, hb, gap
  <2>2. Expects(x, p) = IF p.seq > x THEN p.seq ELSE x
    BY <1>10 DEF Expects
  <2>3. Append(out, hb) = o \o Told(x, p)
    <3>1. CASE p.seq > x
      BY <1>3, <1>6, <1>10, <3>1
    <3>2. CASE ~(p.seq > x)
      BY <1>3, <1>5, <1>8, <1>10, <3>2
    <3> QED BY <3>1, <3>2
  <2>4. (p.count = EOS_COUNT) = FALSE
    BY <1>10
  <2> HIDE DEF out
  <2> QED BY <1>4, <2>1, <2>2, <2>3, <2>4 DEF d
<1>11. CASE p.count # EOS_COUNT /\ p.count # 0 /\ p.seq < x
  <2>1. Golden!Line(d, p) = [d EXCEPT !.out = out]
    BY <1>4, <1>11 DEF Golden!Line, gap
  <2>2. Expects(x, p) = x
    BY <1>11 DEF Expects
  <2>3. ~(p.seq > x)
    BY <1>1, <1>11
  <2>4. out = o \o Told(x, p)
    BY <1>3, <1>8, <1>11, <2>3
  <2>5. (p.count = EOS_COUNT) = FALSE
    BY <1>11
  <2> HIDE DEF out
  <2> QED BY <1>4, <2>1, <2>2, <2>4, <2>5 DEF d
<1>12. CASE p.count # EOS_COUNT /\ p.count # 0 /\ ~(p.seq < x)
  <2>1. Golden!Line(d, p) = [d EXCEPT !.out = out \o ms, !.expected = p.seq + p.count]
    BY <1>4, <1>12 DEF Golden!Line, gap, ms
  <2>2. Expects(x, p) = p.seq + p.count
    BY <1>12 DEF Expects
  <2>3. out \o ms = o \o Told(x, p)
    <3>1. CASE p.seq > x
      BY <1>3, <1>7, <1>12, <3>1
    <3>2. CASE ~(p.seq > x)
      BY <1>3, <1>8, <1>12, <3>2
    <3> QED BY <3>1, <3>2
  <2>4. (p.count = EOS_COUNT) = FALSE
    BY <1>12
  <2> HIDE DEF out
  <2> QED BY <1>4, <2>1, <2>2, <2>3, <2>4 DEF d
<1> QED BY <1>9, <1>10, <1>11, <1>12 DEF d

LEMMA LineFacts ==
    ASSUME NEW d \in DumpState, NEW p \in Packet, ~d.eos
    PROVE  /\ Golden!Line(d, p).out = d.out \o Told(d.expected, p)
           /\ Golden!Line(d, p).expected = Expects(d.expected, p)
           /\ Golden!Line(d, p).eos = (p.count = EOS_COUNT)
           /\ Golden!Line(d, p) \in DumpState
<1> DEFINE x == d.expected
           o == d.out
<1>1. x \in Nat /\ o \in Seq(LogLine) /\ d = [expected |-> x, out |-> o, eos |-> FALSE]
  BY DEF DumpState
<1> HIDE DEF x, o
<1> DEFINE last == p.count = EOS_COUNT
           u == o \o Told(x, p)
           e == Expects(x, p)
<1>2. Golden!Line(d, p) = [expected |-> e, out |-> u, eos |-> last]
  BY <1>1, LineWrites
<1>3. Expects(x, p) \in Nat /\ o \o Told(x, p) \in Seq(LogLine)
  <2>1. Told(x, p) \in Seq(LogLine) /\ Expects(x, p) \in Nat
    BY <1>1, ToldType
  <2>2. o \o Told(x, p) \in Seq(LogLine)
    BY <1>1, <2>1, ConcatProperties
  <2> QED BY <2>1, <2>2
<1>4. last \in BOOLEAN
  OBVIOUS
<1>5. e \in Nat /\ u \in Seq(LogLine)
  BY <1>3
<1>6. /\ Golden!Line(d, p).expected = e /\ Golden!Line(d, p).out = u /\ Golden!Line(d, p).eos = last
      /\ Golden!Line(d, p) \in DumpState
  <2> HIDE DEF e, u, last
  <2> QED BY <1>2, <1>4, <1>5 DEF DumpState
<1> QED BY <1>6 DEF x, o

After(ps, i) == Fold("dump", ps, i)

LEMMA AfterStep ==
    ASSUME NEW ps \in Seq(Packet)
    PROVE  /\ After(ps, 0) = Golden!Start
           /\ \A i \in Nat : After(ps, i + 1) = Golden!Line(After(ps, i), ps[i + 1])
           /\ \A i \in 0..Len(ps) : After(ps, i) \in DumpState
<1>1. Len(ps) \in Nat /\ \A i \in 1..Len(ps) : ps[i] \in Packet
  BY LenProperties, ElementOfSeq
<1>2. /\ After(ps, 0) = Golden!Start
      /\ \A i \in Nat : After(ps, i + 1) = Golden!Line(After(ps, i), ps[i + 1])
  BY FoldUnfolds DEF After, First, Step
<1>3. Golden!Start \in DumpState
  <2>1. <<>> \in Seq(LogLine)
    BY EmptySeq
  <2> QED BY <2>1 DEF Golden!Start, DumpState
<1>4. ASSUME NEW d \in DumpState, NEW p \in Packet PROVE Golden!Line(d, p) \in DumpState
  <2>1. CASE d.eos
    BY <2>1 DEF Golden!Line
  <2>2. CASE ~d.eos
    BY <2>2, LineFacts
  <2> QED BY <2>1, <2>2
<1> DEFINE bad == {k \in 0..Len(ps) : After(ps, k) \notin DumpState}
<1>5. ASSUME bad # {} PROVE FALSE
  <2>1. PICK j \in bad : \A k \in bad : j <= k
    <3>1. bad \in SUBSET Nat
      BY <1>1
    <3> HIDE DEF bad
    <3> QED BY <1>5, <3>1, LeastNat
  <2>2. j \in 0..Len(ps) /\ After(ps, j) \notin DumpState
    BY <2>1
  <2>3. j # 0
    BY <1>2, <1>3, <2>2
  <2>4. j - 1 \in Nat /\ (j - 1) + 1 = j /\ j - 1 \in 0..Len(ps) /\ ~(j <= j - 1) /\ j \in 1..Len(ps)
    BY <1>1, <2>2, <2>3
  <2>5. After(ps, j - 1) \in DumpState
    BY <2>1, <2>4
  <2>6. After(ps, (j - 1) + 1) = Golden!Line(After(ps, j - 1), ps[(j - 1) + 1])
    BY <1>2, <2>4
  <2>7. Golden!Line(After(ps, j - 1), ps[j]) \in DumpState
    BY <1>1, <1>4, <2>4, <2>5
  <2> QED BY <2>2, <2>4, <2>6, <2>7
<1> QED BY <1>2, <1>5

LEMMA AfterGoesOn ==
    ASSUME NEW ps \in Seq(Packet), NEW i \in 0..Len(ps)
    PROVE  \E W \in Seq(LogLine) : After(ps, Len(ps)).out = After(ps, i).out \o W
<1> DEFINE N == Len(ps)
           goes(k) == \E W \in Seq(LogLine) : After(ps, N).out = After(ps, N - k).out \o W
           bad == {k \in 0..N : ~goes(k)}
<1>1. N \in Nat /\ \A k \in 1..N : ps[k] \in Packet
  BY LenProperties, ElementOfSeq
<1>2. \A k \in 0..N : After(ps, k) \in DumpState /\ After(ps, k).out \in Seq(LogLine)
  BY AfterStep DEF DumpState
<1>3. ASSUME bad # {} PROVE FALSE
  <2>1. PICK j \in bad : \A k \in bad : j <= k
    <3>1. bad \in SUBSET Nat
      BY <1>1
    <3> HIDE DEF bad
    <3> QED BY <1>3, <3>1, LeastNat
  <2>2. j \in 0..N /\ ~goes(j)
    BY <2>1
  <2>3. j # 0
    <3>1. N \in 0..N /\ N - 0 = N
      BY <1>1
    <3>2. After(ps, N).out = After(ps, N).out \o <<>> /\ <<>> \in Seq(LogLine)
      BY <1>2, <3>1, ConcatEmptySeq, EmptySeq
    <3>3. goes(0)
      BY <3>1, <3>2
    <3> QED BY <2>2, <3>3
  <2>4. j - 1 \in 0..N /\ ~(j <= j - 1)
    BY <1>1, <2>2, <2>3
  <2>5. goes(j - 1)
    BY <2>1, <2>4
  <2>6. PICK W \in Seq(LogLine) : After(ps, N).out = After(ps, N - (j - 1)).out \o W
    BY <2>5
  <2> DEFINE m == N - j
             d == After(ps, m)
             p == ps[m + 1]
  <2>7. m \in Nat /\ m \in 0..N /\ N - (j - 1) = m + 1 /\ m + 1 \in 1..N
    BY <1>1, <2>2, <2>3
  <2>8. d \in DumpState /\ p \in Packet /\ d.out \in Seq(LogLine)
    BY <1>1, <1>2, <2>7
  <2>9. After(ps, m + 1) = Golden!Line(d, p)
    BY <2>7, AfterStep
  <2>10. \E V \in Seq(LogLine) : Golden!Line(d, p).out = d.out \o V
    <3> HIDE DEF d, p
    <3>1. CASE d.eos
      <4>1. Golden!Line(d, p) = d /\ d.out = d.out \o <<>> /\ <<>> \in Seq(LogLine)
        BY <2>8, <3>1, ConcatEmptySeq, EmptySeq DEF Golden!Line
      <4> QED BY <4>1
    <3>2. CASE ~d.eos
      <4>1. d.expected \in Nat
        BY <2>8 DEF DumpState
      <4> QED BY <2>8, <3>2, <4>1, LineFacts, ToldType
    <3> QED BY <3>1, <3>2
  <2>11. PICK V \in Seq(LogLine) : Golden!Line(d, p).out = d.out \o V
    BY <2>10
  <2>12. (d.out \o V) \o W = d.out \o (V \o W) /\ V \o W \in Seq(LogLine)
    <3> DEFINE o == d.out
    <3>1. o \in Seq(LogLine)
      BY <2>8
    <3> HIDE DEF o
    <3>2. (o \o V) \o W = o \o (V \o W)
      BY <3>1, ConcatAssociative
    <3>3. V \o W \in Seq(LogLine)
      BY ConcatProperties
    <3> QED BY <3>2, <3>3 DEF o
  <2>13. After(ps, N).out = After(ps, m).out \o (V \o W)
    BY <2>6, <2>7, <2>9, <2>11, <2>12
  <2>14. goes(j)
    BY <2>12, <2>13
  <2> QED BY <2>2, <2>14
<1>4. N - i \in 0..N /\ N - (N - i) = i
  BY <1>1
<1>5. goes(N - i)
  BY <1>3, <1>4
<1> QED BY <1>4, <1>5

(* ---- the invariant ----                                                 *)
PackOK ==
    /\ packets \in Seq(Packet)
    /\ last_data # <<>> => \E p \in Packet : IsData(p) /\ last_data = <<p>>
    /\ seq \in 1..(NMsgs + 1) /\ pi \in Nat
    /\ \A j \in 1..Len(packets) : packets[j].count = EOS_COUNT => j = Len(packets) /\ ended

WindowOK ==
    /\ state \in {"HDR", "EMIT", "DROP"}
    /\ win \in Seq(Unit) /\ wire \in Seq(Unit) /\ Len(win) <= WINB
    /\ log \in Seq(LogLine)

(* i packets have been begun, and Z comes after them.                      *)
Place(i, Z) ==
    /\ Flow(packets, Len(packets)) = Flow(packets, i) \o Z
    /\ expected_seq = After(packets, i).expected
    /\ After(packets, i).eos => 0 < i /\ i = Len(packets) /\ packets[i].count = EOS_COUNT
    /\ state = "HDR" => win \o wire = Z /\ log = After(packets, i).out
    /\ state # "HDR" =>
         /\ 0 < i /\ IsData(packets[i]) /\ msgs_left \in 1..packets[i].count
         /\ win \o wire = LastMessages(packets[i], msgs_left) \o Z
         /\ After(packets, i).out =
              log \o (IF state = "EMIT" THEN LastLines(packets[i], msgs_left) ELSE <<>>)

(* The packets are such as a writer writes, window and wire hold units, and *)
(* together they hold what the splitter has yet to take of its place.      *)
MoldInv == PackOK /\ WindowOK /\ \E i \in 0..Len(packets), Z \in Seq(Unit) : Place(i, Z)

LEMMA WindowFacts ==
    ASSUME WindowOK
    PROVE  /\ Len(win) \in Nat /\ Len(wire) \in Nat /\ WINB = BEATB + BEATB
           /\ consume \in 0..Len(win)
           /\ consume = 0 => Len(win) <= BEATB
           /\ hdr_ready => Len(win) >= HDR_B
           /\ state = "HDR" => consume = IF hdr_ready THEN HDR_B ELSE 0
           /\ state # "HDR" => consume = IF msg_ready THEN mlen2 ELSE 0
           /\ msg_ready => 0 < mlen2
<1>1. Len(win) \in Nat /\ Len(wire) \in Nat
  BY LenProperties DEF WindowOK
<1>2. 0 < Len(win) => win[1] \in Unit
  <2>1. 0 < Len(win) => 1 \in 1..Len(win)
    BY <1>1
  <2> QED BY <2>1, ElementOfSeq DEF WindowOK
<1>3. 0 < Len(win) => MsgLen \in Nat /\ PREFIX_B + MsgLen <= BEATB
  <2>1. ASSUME 0 < Len(win), win[1].msg # 0 PROVE win[1].msg \in 1..NMsgs
    BY <1>2, <2>1, Sizes DEF Unit
  <2> QED BY <2>1, Sizes DEF MsgLen
<1>4. CASE Len(win) = 0
  <2>1. ~hdr_ready /\ ~msg_ready
    BY <1>4, Sizes DEF hdr_ready, msg_ready, vcnt
  <2>2. consume = 0
    BY <2>1 DEF consume
  <2> QED BY <1>1, <1>4, <2>1, <2>2, Sizes DEF WINB
<1>5. CASE 0 < Len(win)
  <2>1. mlen2 \in Nat /\ 0 < mlen2 /\ mlen2 <= BEATB
    BY <1>3, <1>5, Sizes DEF mlen2
  <2>2. hdr_ready <=> Len(win) >= HDR_B
    BY DEF hdr_ready, vcnt
  <2>3. msg_ready <=> Len(win) >= PREFIX_B /\ Len(win) >= mlen2
    BY DEF msg_ready, vcnt
  <2> QED BY <1>1, <2>1, <2>2, <2>3, Sizes DEF consume, WINB
<1> QED BY <1>1, <1>4, <1>5

LEMMA HasRoom == WindowOK => AlwaysRoom
<1> SUFFICES ASSUME WindowOK PROVE AlwaysRoom
  OBVIOUS
<1>1. /\ Len(win) \in Nat /\ WINB = BEATB + BEATB
      /\ consume = 0 => Len(win) <= BEATB
  BY WindowFacts
<1>2. consume = 0 => Len(win) - consume + BEATB <= WINB
  BY <1>1, Sizes
<1> QED BY <1>2 DEF AlwaysRoom, WindowOK, Room, vcnt

(* ---- the writers ----                                                   *)
LEMMA WritesPackets ==
    ASSUME PackOK, PackNext
    PROVE  /\ PackOK'
           /\ \/ packets' = packets
              \/ ~ended /\ \E p \in Packet : packets' = Append(packets, p)
<1>1. Len(packets) \in Nat /\ seq \in Nat /\ 1 <= seq /\ seq <= NMsgs + 1
  BY LenProperties, Sizes DEF PackOK
<1>2. ASSUME NEW p \in Packet, packets' = Append(packets, p), ~ended, p.count = EOS_COUNT => ended'
      PROVE  /\ packets' \in Seq(Packet)
             /\ \A j \in 1..Len(packets') : packets'[j].count = EOS_COUNT => j = Len(packets') /\ ended'
  <2>1. /\ packets' \in Seq(Packet) /\ Len(packets') = Len(packets) + 1
        /\ \A j \in 1..Len(packets) : packets'[j] = packets[j]
        /\ packets'[Len(packets) + 1] = p
    BY <1>2, AppendProperties DEF PackOK
  <2>2. ASSUME NEW j \in 1..Len(packets'), packets'[j].count = EOS_COUNT
        PROVE  j = Len(packets') /\ ended'
    <3>1. CASE j \in 1..Len(packets)
      BY <1>2, <2>1, <2>2, <3>1 DEF PackOK
    <3>2. CASE j = Len(packets) + 1
      BY <1>2, <2>1, <2>2, <3>2
    <3> QED BY <1>1, <2>1, <3>1, <3>2
  <2> QED BY <2>1, <2>2
<1>3. ASSUME NEW n \in Nat, 0 < n, seq + n - 1 <= NMsgs
      PROVE  /\ packet(seq, n) \in Packet /\ packet(seq, n).count # EOS_COUNT
             /\ seq + n \in 1..(NMsgs + 1)
  <2>1. n <= NMsgs
    BY <1>1, <1>3, Sizes
  <2> QED BY <1>1, <1>3, <2>1, Sizes DEF packet, Packet, IsData
<1>4. packet(seq, 0) \in Packet /\ packet(seq, 0).count # EOS_COUNT
  BY <1>1, Sizes DEF packet, Packet, IsData
<1>5. packet(seq, EOS_COUNT) \in Packet
  BY <1>1, Sizes DEF packet, Packet, IsData
<1>6. ASSUME NEW n \in 1..NMsgs, PlanData(n)
      PROVE  PackOK' /\ ~ended /\ \E p \in Packet : packets' = Append(packets, p)
  <2> DEFINE p == packet(seq, n)
  <2>1. n \in Nat /\ 0 < n /\ seq + n - 1 <= NMsgs
    BY <1>6, Sizes DEF PlanData
  <2>2. p \in Packet /\ p.count # EOS_COUNT /\ seq + n \in 1..(NMsgs + 1)
    BY <1>3, <2>1
  <2>3. /\ packets' = Append(packets, p) /\ last_data' = <<p>> /\ seq' = seq + n
        /\ pi' = pi /\ ended' = ended /\ ~ended
    BY <1>6 DEF PlanData, Plan, Write
  <2> HIDE DEF p
  <2>4. /\ packets' \in Seq(Packet)
        /\ \A j \in 1..Len(packets') : packets'[j].count = EOS_COUNT => j = Len(packets') /\ ended'
    BY <1>2, <2>2, <2>3
  <2>5. IsData(p)
    BY <1>3, <2>1, <2>2 DEF p, packet, IsData
  <2> QED BY <2>2, <2>3, <2>4, <2>5 DEF PackOK
<1>7. ASSUME NEW n \in 1..NMsgs, PlanGap(n)
      PROVE  PackOK' /\ packets' = packets
  <2>1. n \in Nat /\ 0 < n /\ seq + n - 1 <= NMsgs
    BY <1>7, Sizes DEF PlanGap
  <2>2. seq + n \in 1..(NMsgs + 1)
    BY <1>3, <2>1
  <2> QED BY <1>7, <2>2 DEF PlanGap, Plan, PackOK
<1>8. ASSUME PlanDup
      PROVE  PackOK' /\ ~ended /\ \E p \in Packet : packets' = Append(packets, p)
  <2>1. PICK p \in Packet : IsData(p) /\ last_data = <<p>>
    BY <1>8 DEF PlanDup, PackOK
  <2>2. /\ packets' = Append(packets, p) /\ last_data' = last_data /\ seq' = seq
        /\ pi' = pi /\ ended' = ended /\ ~ended
    BY <1>8, <2>1 DEF PlanDup, Plan, Write
  <2>3. p.count # EOS_COUNT
    BY <2>1 DEF IsData
  <2>4. /\ packets' \in Seq(Packet)
        /\ \A j \in 1..Len(packets') : packets'[j].count = EOS_COUNT => j = Len(packets') /\ ended'
    BY <1>2, <2>2, <2>3
  <2> QED BY <2>2, <2>4 DEF PackOK
<1>9. ASSUME PlanHb \/ WrapHb
      PROVE  PackOK' /\ ~ended /\ \E p \in Packet : packets' = Append(packets, p)
  <2> DEFINE p == packet(seq, 0)
  <2>1. p \in Packet /\ p.count # EOS_COUNT
    BY <1>4
  <2>2. /\ packets' = Append(packets, p) /\ last_data' = last_data /\ seq' = seq
        /\ pi' = pi /\ ended' = ended /\ ~ended
    BY <1>9 DEF PlanHb, Plan, WrapHb, Wrap, Write
  <2> HIDE DEF p
  <2>3. /\ packets' \in Seq(Packet)
        /\ \A j \in 1..Len(packets') : packets'[j].count = EOS_COUNT => j = Len(packets') /\ ended'
    BY <1>2, <2>1, <2>2
  <2> QED BY <2>1, <2>2, <2>3 DEF PackOK
<1>10. ASSUME PlanEos \/ WrapEos
       PROVE  PackOK' /\ ~ended /\ \E p \in Packet : packets' = Append(packets, p)
  <2> DEFINE p == packet(seq, EOS_COUNT)
  <2>1. p \in Packet
    BY <1>5
  <2>2. /\ packets' = Append(packets, p) /\ last_data' = last_data /\ seq' = seq
        /\ pi' = pi /\ ended' = TRUE /\ ~ended
    BY <1>10 DEF PlanEos, Plan, WrapEos, Wrap, Write
  <2> HIDE DEF p
  <2>3. /\ packets' \in Seq(Packet)
        /\ \A j \in 1..Len(packets') : packets'[j].count = EOS_COUNT => j = Len(packets') /\ ended'
    BY <1>2, <2>1, <2>2
  <2> QED BY <2>1, <2>2, <2>3 DEF PackOK
<1>11. ASSUME Flush
       PROVE  PackOK' /\ ~ended /\ \E p \in Packet : packets' = Append(packets, p)
  <2> DEFINE n == IF Want <= Left THEN Want ELSE Left
             p == packet(seq, n)
  <2>1. Want \in Nat /\ 0 < Want
    <3>1. Len(PKT_PATTERN) \in Nat /\ 0 < Len(PKT_PATTERN)
      BY PackAssumption, EmptySeq, LenProperties
    <3>2. 1 + (pi % Len(PKT_PATTERN)) \in 1..Len(PKT_PATTERN)
      BY <3>1 DEF PackOK
    <3>3. PKT_PATTERN[1 + (pi % Len(PKT_PATTERN))] \in Nat \ {0}
      BY <3>2, PackAssumption, ElementOfSeq
    <3> QED BY <3>3 DEF Want
  <2>2. Left \in Nat /\ 0 < Left /\ Left = NMsgs + 1 - seq
    BY <1>1, <1>11, Sizes DEF Flush, Left
  <2>3. n \in Nat /\ 0 < n /\ seq + n - 1 <= NMsgs
    BY <1>1, <2>1, <2>2, Sizes
  <2>4. /\ packets' = Append(packets, p) /\ last_data' = last_data /\ seq' = seq + n
        /\ pi' = pi + 1 /\ ended' = ended /\ ~ended
    BY <1>11 DEF Flush, Wrap, Write
  <2> HIDE DEF n
  <2>5. p \in Packet /\ p.count # EOS_COUNT /\ seq + n \in 1..(NMsgs + 1)
    BY <1>3, <2>3
  <2> HIDE DEF p
  <2>6. /\ packets' \in Seq(Packet)
        /\ \A j \in 1..Len(packets') : packets'[j].count = EOS_COUNT => j = Len(packets') /\ ended'
    BY <1>2, <2>4, <2>5
  <2>7. pi' \in Nat
    BY <2>4 DEF PackOK
  <2> QED BY <2>4, <2>5, <2>6, <2>7 DEF PackOK
<1> QED BY <1>6, <1>7, <1>8, <1>9, <1>10, <1>11 DEF PackNext

LEMMA OneMore ==
    ASSUME NEW ps \in Seq(Packet), NEW p \in Packet
    PROVE  /\ Append(ps, p) \in Seq(Packet) /\ Len(Append(ps, p)) = Len(ps) + 1
           /\ \A i \in 1..Len(ps) : Append(ps, p)[i] = ps[i]
           /\ \A i \in 0..Len(ps) : /\ Flow(Append(ps, p), i) = Flow(ps, i)
                                   /\ After(Append(ps, p), i) = After(ps, i)
           /\ Flow(Append(ps, p), Len(ps) + 1) = Flow(ps, Len(ps)) \o Bytes(p)
<1> DEFINE qs == Append(ps, p)
<1>1. /\ qs \in Seq(Packet) /\ Len(qs) = Len(ps) + 1 /\ Len(ps) \in Nat
      /\ \A i \in 1..Len(ps) : qs[i] = ps[i]
      /\ qs[Len(ps) + 1] = p
  BY AppendProperties, LenProperties
<1> HIDE DEF qs
<1>2. ASSUME NEW i \in 0..Len(ps)
      PROVE  Flow(qs, i) = Flow(ps, i) /\ After(qs, i) = After(ps, i)
  <2>1. i \in Nat /\ \A n \in 1..i : qs[n] = ps[n]
    BY <1>1
  <2>2. \A n \in 1..i : \A r : Step("flow", qs, r, n) = Step("flow", ps, r, n)
    BY <2>1 DEF Step
  <2>3. \A n \in 1..i : \A r : Step("dump", qs, r, n) = Step("dump", ps, r, n)
    BY <2>1 DEF Step
  <2>4. Fold("flow", qs, i) = Fold("flow", ps, i)
    BY <2>1, <2>2, FoldSame
  <2>5. Fold("dump", qs, i) = Fold("dump", ps, i)
    BY <2>1, <2>3, FoldSame
  <2> QED BY <2>4, <2>5 DEF Flow, After
<1>3. Flow(qs, Len(ps) + 1) = Flow(ps, Len(ps)) \o Bytes(p)
  <2>1. Flow(qs, Len(ps) + 1) = Flow(qs, Len(ps)) \o Bytes(qs[Len(ps) + 1])
    BY <1>1, FlowUnits
  <2>2. Len(ps) \in 0..Len(ps)
    BY <1>1
  <2> QED BY <1>1, <1>2, <2>1, <2>2
<1> QED BY <1>1, <1>2, <1>3 DEF qs

LEMMA StreamKeeps == MoldInv /\ Stream => MoldInv'
<1> SUFFICES ASSUME MoldInv, Stream PROVE MoldInv'
  OBVIOUS
<1>1. /\ PackOK /\ WindowOK /\ wire = <<>>
      /\ UNCHANGED splitterVars /\ log' = log /\ wire' = Written /\ PackNext
  BY DEF MoldInv, Stream
<1>2. PICK i \in 0..Len(packets), Z \in Seq(Unit) : Place(i, Z)
  BY DEF MoldInv
<1>3. /\ PackOK'
      /\ \/ packets' = packets
         \/ ~ended /\ \E p \in Packet : packets' = Append(packets, p)
  BY <1>1, WritesPackets
<1>4. /\ state' = state /\ win' = win /\ msgs_left' = msgs_left /\ expected_seq' = expected_seq
  BY <1>1 DEF splitterVars
<1>5. packets \in Seq(Packet) /\ Len(packets) \in Nat /\ i \in Nat
  BY <1>1, LenProperties DEF PackOK
<1>6. CASE packets' = packets
  <2>1. wire' = <<>> /\ <<>> \in Seq(Unit)
    BY <1>1, <1>6, EmptySeq DEF Written
  <2>2. WindowOK'
    BY <1>1, <1>4, <2>1 DEF WindowOK
  <2>3. Place(i, Z)'
    BY <1>1, <1>2, <1>4, <1>6, <2>1 DEF Place
  <2>4. i \in 0..Len(packets')
    BY <1>6
  <2> QED BY <1>3, <2>2, <2>3, <2>4 DEF MoldInv
<1>7. ASSUME NEW p \in Packet, packets' = Append(packets, p), ~ended PROVE MoldInv'
  <2>1. /\ packets' \in Seq(Packet) /\ Len(packets') = Len(packets) + 1
        /\ \A k \in 1..Len(packets) : packets'[k] = packets[k]
        /\ \A k \in 0..Len(packets) : /\ Flow(packets', k) = Flow(packets, k)
                                      /\ After(packets', k) = After(packets, k)
        /\ Flow(packets', Len(packets) + 1) = Flow(packets, Len(packets)) \o Bytes(p)
    BY <1>5, <1>7, OneMore
  <2>2. wire' = Bytes(p) /\ Bytes(p) \in Seq(Unit)
    <3>1. packets'[Len(packets) + 1] = p
      BY <1>5, <1>7, AppendProperties
    <3>2. Len(packets') # Len(packets)
      BY <1>5, <2>1
    <3> QED BY <1>1, <2>1, <3>1, <3>2, BytesUnits DEF Written
  <2>3. WindowOK'
    BY <1>1, <1>4, <2>2 DEF WindowOK
  <2>4. Z \o Bytes(p) \in Seq(Unit)
    BY <2>2, ConcatProperties
  <2>5. win \o wire = win /\ win \in Seq(Unit)
    BY <1>1, ConcatEmptySeq DEF WindowOK
  <2>6. ~After(packets, i).eos
    <3>1. ASSUME After(packets, i).eos PROVE FALSE
      <4>1. 0 < i /\ packets[i].count = EOS_COUNT
        BY <1>2, <3>1 DEF Place
      <4>2. i \in 1..Len(packets)
        BY <1>5, <4>1
      <4> QED BY <1>1, <1>7, <4>1, <4>2 DEF PackOK
    <3> QED BY <3>1
  <2>7. Flow(packets', Len(packets')) = Flow(packets', i) \o (Z \o Bytes(p))
    <3>1. Flow(packets, i) \in Seq(Unit)
      BY <1>5, FlowUnits
    <3>2. (Flow(packets, i) \o Z) \o Bytes(p) = Flow(packets, i) \o (Z \o Bytes(p))
      <4>1. Z \in Seq(Unit) /\ Bytes(p) \in Seq(Unit)
        BY <2>2
      <4> QED BY ONLY SMTT(30), <3>1, <4>1, ConcatAssociative
    <3>3. Flow(packets, Len(packets)) = Flow(packets, i) \o Z
      BY <1>2 DEF Place
    <3> QED BY <2>1, <3>2, <3>3
  <2>8. After(packets', i) = After(packets, i) /\ (0 < i => packets'[i] = packets[i])
    <3>1. 0 < i => i \in 1..Len(packets)
      BY <1>5
    <3> QED BY <2>1, <3>1
  <2>9. state = "HDR" => win' \o wire' = Z \o Bytes(p)
    BY <1>2, <1>4, <2>2, <2>5 DEF Place
  <2>10. ASSUME state # "HDR"
         PROVE  win' \o wire' = LastMessages(packets[i], msgs_left) \o (Z \o Bytes(p))
    <3> DEFINE l == LastMessages(packets[i], msgs_left)
    <3>1. /\ 0 < i /\ IsData(packets[i]) /\ msgs_left \in 1..packets[i].count
          /\ win \o wire = l \o Z
      BY <1>2, <2>10 DEF Place
    <3>2. packets[i] \in Packet
      <4>1. i \in 1..Len(packets)
        BY <1>5, <3>1
      <4> QED BY <1>5, <4>1, ElementOfSeq
    <3>3. l \in Seq(Unit)
      <4>1. msgs_left \in 0..packets[i].count
        BY <3>1
      <4> QED BY <3>1, <3>2, <4>1, LastMessagesUnits
    <3> HIDE DEF l
    <3>4. (l \o Z) \o Bytes(p) = l \o (Z \o Bytes(p))
      BY <2>2, <3>3, ConcatAssociative
    <3>5. win' \o wire' = (l \o Z) \o Bytes(p)
      BY <1>4, <2>2, <2>5, <3>1
    <3> QED BY <3>4, <3>5 DEF l
  <2>11. Place(i, Z \o Bytes(p))'
    <3>1. /\ Flow(packets', Len(packets')) = Flow(packets', i) \o (Z \o Bytes(p))
          /\ expected_seq' = After(packets', i).expected
          /\ After(packets', i).eos => 0 < i /\ i = Len(packets') /\ packets'[i].count = EOS_COUNT
      BY <1>2, <1>4, <2>6, <2>7, <2>8 DEF Place
    <3>2. state' = "HDR" => win' \o wire' = Z \o Bytes(p) /\ log' = After(packets', i).out
      BY <1>1, <1>2, <1>4, <2>8, <2>9 DEF Place
    <3>3. state' # "HDR" =>
         /\ 0 < i /\ IsData(packets'[i]) /\ msgs_left' \in 1..packets'[i].count
         /\ win' \o wire' = LastMessages(packets'[i], msgs_left') \o (Z \o Bytes(p))
         /\ After(packets', i).out =
              log' \o (IF state' = "EMIT" THEN LastLines(packets'[i], msgs_left') ELSE <<>>)
      BY <1>1, <1>2, <1>4, <2>8, <2>10 DEF Place
    <3> QED BY <3>1, <3>2, <3>3 DEF Place
  <2>12. i \in 0..Len(packets')
    BY <1>5, <2>1
  <2> QED BY <1>3, <2>3, <2>4, <2>11, <2>12 DEF MoldInv
<1> QED BY <1>3, <1>6, <1>7

(* ---- the splitter ----                                                  *)
LEMMA Join == \A a, b \in Seq(Unit) : a \o b \in Seq(Unit) /\ Len(a \o b) = Len(a) + Len(b)
BY ConcatProperties

LEMMA Rejoin == \A a, b, c \in Seq(Unit) : (a \o b) \o c = a \o (b \o c)
BY ConcatAssociative

(* The front taken off a sequence written in two ways.                     *)
LEMMA SameFront ==
    ASSUME NEW a \in Seq(Unit), NEW b \in Seq(Unit), NEW x \in Seq(Unit), NEW y \in Seq(Unit),
           a \o b = x \o y, Len(x) <= Len(a)
    PROVE  /\ \A i \in 1..Len(x) : a[i] = x[i]
           /\ SubSeq(a, Len(x) + 1, Len(a)) \in Seq(Unit)
           /\ Len(SubSeq(a, Len(x) + 1, Len(a))) = Len(a) - Len(x)
           /\ SubSeq(a, Len(x) + 1, Len(a)) \o b = y
<1>1. /\ Len(a) \in Nat /\ Len(b) \in Nat /\ Len(x) \in Nat /\ Len(y) \in Nat
      /\ \A i \in 1..Len(a) : a[i] \in Unit
  BY LenProperties, ElementOfSeq
<1>2. ASSUME NEW i \in 1..Len(x) PROVE a[i] = x[i]
  <2>1. i \in 1..(Len(a) + Len(b)) /\ i \in 1..(Len(x) + Len(y)) /\ i <= Len(a) /\ i <= Len(x)
    BY <1>1
  <2>2. (a \o b)[i] = a[i]
    BY <2>1, ConcatProperties
  <2>3. (x \o y)[i] = x[i]
    BY <2>1, ConcatProperties
  <2> QED BY <2>2, <2>3
<1> DEFINE d == SubSeq(a, Len(x) + 1, Len(a))
           e == SubSeq(a, 1, Len(x))
<1>3. d \in Seq(Unit) /\ Len(d) = Len(a) - Len(x)
  <2>1. \A i \in (Len(x) + 1)..Len(a) : a[i] \in Unit
    BY <1>1
  <2>2. /\ d \in Seq(Unit)
        /\ Len(d) = IF Len(x) + 1 <= Len(a) THEN Len(a) - (Len(x) + 1) + 1 ELSE 0
    BY <1>1, <2>1, SubSeqProperties
  <2> QED BY <1>1, <2>2
<1>4. e = x
  <2>1. \A i \in 1..Len(x) : a[i] \in Unit
    BY <1>1
  <2>2. /\ e \in Seq(Unit)
        /\ Len(e) = IF 1 <= Len(x) THEN Len(x) - 1 + 1 ELSE 0
        /\ \A i \in 1..(Len(x) - 1 + 1) : e[i] = a[1 + i - 1]
    BY <1>1, <2>1, SubSeqProperties
  <2> HIDE DEF e
  <2>3. Len(e) = Len(x)
    BY <1>1, <2>2
  <2>4. \A i \in 1..Len(e) : e[i] = x[i]
    <3> TAKE i \in 1..Len(e)
    <3>1. i \in 1..(Len(x) - 1 + 1) /\ 1 + i - 1 = i /\ i \in 1..Len(x)
      BY <1>1, <2>3
    <3> QED BY <1>2, <2>2, <3>1
  <2> QED BY <2>2, <2>3, <2>4, SeqEqual
<1>5. e \o d = a
  <2>1. 1 \in 1..(Len(a) + 1) /\ Len(x) \in (1 - 1)..Len(a) /\ Len(a) \in Len(x)..Len(a)
    BY <1>1
  <2>2. e \o d = SubSeq(a, 1, Len(a))
    BY <2>1, ConcatAdjacentSubSeq
  <2> QED BY <2>2, SubSeqFull
<1> HIDE DEF d, e
<1>6. x \o (d \o b) = x \o y
  <2>1. e \in Seq(Unit)
    BY <1>4
  <2>2. (e \o d) \o b = e \o (d \o b)
    BY <1>3, <2>1, Rejoin
  <2>3. a \o b = x \o (d \o b)
    BY <1>4, <1>5, <2>2
  <2> QED BY <2>3
<1>7. d \o b = y
  <2>1. d \o b \in Seq(Unit)
    BY <1>3, ConcatProperties
  <2> QED BY <1>6, <2>1, ConcatSimplifications
<1> QED BY <1>2, <1>3, <1>7 DEF d

LEMMA CycleMoves ==
    ASSUME WindowOK, NEW offer \in BOOLEAN, SplitterCycle(offer),
           NEW x \in Seq(Unit), NEW y \in Seq(Unit), win \o wire = x \o y, Len(x) = consume
    PROVE  /\ win' \in Seq(Unit) /\ wire' \in Seq(Unit) /\ Len(win') <= WINB
           /\ win' \o wire' = y
<1>1. /\ Len(win) \in Nat /\ Len(wire) \in Nat /\ consume \in 0..Len(win)
      /\ win \in Seq(Unit) /\ wire \in Seq(Unit) /\ Len(win) <= WINB
      /\ WINB = BEATB + BEATB /\ BEATB \in Nat
  BY WindowFacts, Sizes DEF WindowOK
<1> DEFINE rest == SubSeq(win, consume + 1, Len(win))
           k == IF Len(wire) < BEATB THEN Len(wire) ELSE BEATB
           beat == IF offer THEN NextBeat ELSE <<>>
<1>2. /\ rest \in Seq(Unit) /\ Len(rest) = Len(win) - consume /\ rest \o wire = y
  <2>1. Len(x) <= Len(win)
    BY <1>1
  <2>2. /\ SubSeq(win, Len(x) + 1, Len(win)) \in Seq(Unit)
        /\ Len(SubSeq(win, Len(x) + 1, Len(win))) = Len(win) - Len(x)
        /\ SubSeq(win, Len(x) + 1, Len(win)) \o wire = y
    <3>1. win \in Seq(Unit) /\ wire \in Seq(Unit) /\ x \in Seq(Unit) /\ y \in Seq(Unit)
      BY <1>1
    <3>2. win \o wire = x \o y
      OBVIOUS
    <3> QED BY ONLY <2>1, <3>1, <3>2, SameFront
  <2>3. Len(x) = consume
    OBVIOUS
  <2> QED BY ONLY <2>2, <2>3, Zenon DEF rest
<1>3. /\ win' = rest \o (IF accept(beat) THEN beat ELSE <<>>)
      /\ wire' = IF accept(beat) THEN SubSeq(wire, Len(beat) + 1, Len(wire)) ELSE wire
  BY DEF SplitterCycle, SplitterTick, vcnt
<1> HIDE DEF rest, beat
<1>4. CASE ~accept(beat)
  <2>1. win' = rest /\ wire' = wire
    BY <1>2, <1>3, <1>4, ConcatEmptySeq
  <2>2. Len(rest) <= WINB
    BY <1>1, <1>2
  <2> QED BY <1>1, <1>2, <2>1, <2>2
<1>5. CASE accept(beat)
  <2>1. beat # <<>> /\ Len(win) - consume + BEATB <= WINB
    BY <1>5 DEF accept, Room, vcnt
  <2>2. beat = SubSeq(wire, 1, k)
    BY <2>1 DEF beat, NextBeat
  <2>3. k \in 0..Len(wire) /\ k <= BEATB
    BY <1>1
  <2> HIDE DEF k
  <2>4. /\ beat \in Seq(Unit) /\ Len(beat) = k
        /\ SubSeq(wire, k + 1, Len(wire)) \in Seq(Unit)
        /\ beat \o SubSeq(wire, k + 1, Len(wire)) = wire
    BY <1>1, <2>2, <2>3, CutInTwo
  <2>5. win' = rest \o beat /\ wire' = SubSeq(wire, k + 1, Len(wire))
    BY <1>3, <1>5, <2>4
  <2>6. win' \in Seq(Unit) /\ Len(win') = Len(rest) + Len(beat)
    BY <1>2, <2>4, <2>5, ConcatProperties
  <2>7. Len(win') <= WINB
    BY <1>1, <1>2, <2>1, <2>3, <2>4, <2>6
  <2>8. (rest \o beat) \o SubSeq(wire, k + 1, Len(wire)) = rest \o (beat \o SubSeq(wire, k + 1, Len(wire)))
    BY <1>2, <2>4, Rejoin
  <2> QED BY <1>2, <2>4, <2>5, <2>6, <2>7, <2>8
<1> QED BY <1>4, <1>5

LEMMA FirstOf ==
    ASSUME NEW a \in Seq(Unit), NEW b \in Seq(Unit), NEW x \in Seq(Unit), NEW y \in Seq(Unit),
           a \o b = x \o y, 0 < Len(a), 0 < Len(x)
    PROVE  a[1] = x[1]
<1>1. /\ 1 \in 1..(Len(a) + Len(b)) /\ 1 \in 1..(Len(x) + Len(y)) /\ 1 <= Len(a) /\ 1 <= Len(x)
  <2>1. Len(a) \in Nat /\ Len(b) \in Nat /\ Len(x) \in Nat /\ Len(y) \in Nat
    BY LenProperties
  <2> QED BY <2>1
<1>2. (a \o b)[1] = a[1]
  BY <1>1, ConcatProperties
<1>3. (x \o y)[1] = x[1]
  BY <1>1, ConcatProperties
<1> QED BY <1>2, <1>3

(* A packet that comes next, and its bytes.                                *)
LEMMA NextPacket ==
    ASSUME PackOK, NEW i \in 0..Len(packets), NEW Z \in Seq(Unit), Place(i, Z), Z # <<>>
    PROVE  /\ i + 1 \in 1..Len(packets) /\ packets[i + 1] \in Packet
           /\ ~After(packets, i).eos
           /\ \E Y \in Seq(Unit) :
                /\ Z = Hdr(packets[i + 1]) \o (Payload(packets[i + 1]) \o Y)
                /\ Flow(packets, Len(packets)) = Flow(packets, i + 1) \o Y
<1>1. /\ packets \in Seq(Packet) /\ Len(packets) \in Nat /\ i \in Nat
      /\ Flow(packets, Len(packets)) = Flow(packets, i) \o Z
  BY LenProperties DEF PackOK, Place
<1>2. Flow(packets, i) \in Seq(Unit)
  BY <1>1, FlowUnits
<1>3. i # Len(packets)
  BY <1>1, <1>2, ConcatSimplifications
<1>4. i + 1 \in 1..Len(packets) /\ i + 1 \in 0..Len(packets) /\ packets[i + 1] \in Packet
  BY <1>1, <1>3, ElementOfSeq
<1>5. ~After(packets, i).eos
  BY <1>3 DEF Place
<1> DEFINE p == packets[i + 1]
<1>6. PICK Y \in Seq(Unit) : Flow(packets, Len(packets)) = Flow(packets, i + 1) \o Y
  BY <1>1, <1>4, FlowGoesOn
<1>7. Flow(packets, i + 1) = Flow(packets, i) \o Bytes(p)
  BY <1>1, FlowUnits
<1> HIDE DEF p
<1>8. p \in Packet
  BY <1>4 DEF p
<1>9. Hdr(p) \in Seq(Unit) /\ Payload(p) \in Seq(Unit) /\ Bytes(p) \in Seq(Unit) /\ Bytes(p) = Hdr(p) \o Payload(p)
  BY <1>8, BytesUnits
<1>10. (Flow(packets, i) \o Bytes(p)) \o Y = Flow(packets, i) \o (Bytes(p) \o Y)
  BY <1>2, <1>9, Rejoin
<1>11. Bytes(p) \o Y \in Seq(Unit)
  BY <1>9, ConcatProperties
<1>12. Flow(packets, i) \o Z = Flow(packets, i) \o (Bytes(p) \o Y)
  BY <1>1, <1>6, <1>7, <1>10
<1>13. Z = Bytes(p) \o Y
  BY <1>2, <1>11, <1>12, ConcatSimplifications
<1>14. (Hdr(p) \o Payload(p)) \o Y = Hdr(p) \o (Payload(p) \o Y)
  BY <1>9, Rejoin
<1> QED BY <1>4, <1>5, <1>6, <1>9, <1>13, <1>14 DEF p

(* ---- what a cycle logs ----                                             *)
Lines(g, h, e, m) == ((g \o h) \o e) \o m

LEMMA LinesJoin ==
    ASSUME NEW a \in Seq(LogLine), NEW b \in Seq(LogLine)
    PROVE  /\ Lines(<<>>, <<>>, <<>>, a) = a
           /\ Lines(<<>>, <<>>, a, <<>>) = a
           /\ Lines(a, b, <<>>, <<>>) = a \o b
<1>1. <<>> \in Seq(LogLine) /\ a \o b \in Seq(LogLine)
  BY EmptySeq, ConcatProperties
<1>2. /\ <<>> \o <<>> = <<>> /\ <<>> \o a = a /\ a \o <<>> = a /\ (a \o b) \o <<>> = a \o b
  BY <1>1, ConcatEmptySeq
<1> QED BY <1>2 DEF Lines

LEMMA EmittedType ==
    ASSUME WindowOK, emit_now
    PROVE  Emitted \in Nat
<1>1. Len(win) \in Nat /\ Len(win) >= PREFIX_B
  BY LenProperties DEF WindowOK, emit_now, msg_ready, vcnt
<1>2. 1 \in 1..Len(win)
  BY <1>1, Sizes
<1>3. win[1] \in Unit
  BY <1>2, ElementOfSeq DEF WindowOK
<1>4. win[1].msg \in Nat
  BY <1>3, Sizes DEF Unit
<1> QED BY <1>4 DEF Emitted

LEMMA QuietLog ==
    ASSUME WindowOK, NEW offer \in BOOLEAN, SplitterCycle(offer), ev' = NoEvent
    PROVE  log' = log \o (IF emit_now THEN <<Golden!MSG(Emitted)>> ELSE <<>>)
<1>1. log' = log \o Lines(<<>>, <<>>, <<>>, IF m_msg' # <<>> THEN <<Golden!MSG(Head(m_msg'))>> ELSE <<>>)
  BY DEF SplitterCycle, Logged, NoEvent, Lines
<1>2. m_msg' = IF emit_now THEN <<Emitted>> ELSE <<>>
  BY DEF SplitterCycle, SplitterTick
<1> DEFINE m == IF emit_now THEN <<Golden!MSG(Emitted)>> ELSE <<>>
<1>3. (IF m_msg' # <<>> THEN <<Golden!MSG(Head(m_msg'))>> ELSE <<>>) = m
  <2>1. <<Emitted>> # <<>> /\ Head(<<Emitted>>) = Emitted
    OBVIOUS
  <2> QED BY <1>2, <2>1
<1>4. m \in Seq(LogLine)
  <2>1. <<>> \in Seq(LogLine)
    BY EmptySeq
  <2>2. ASSUME emit_now PROVE Golden!MSG(Emitted) \in LogLine
    <3>1. Emitted \in Nat
      BY <2>2, EmittedType
    <3> QED BY <3>1, LinesAreLines
  <2> QED BY <2>1, <2>2
<1> HIDE DEF m
<1>5. Lines(<<>>, <<>>, <<>>, m) = m
  BY <1>4, LinesJoin
<1> QED BY <1>1, <1>3, <1>5 DEF m

LEMMA WaitKeeps ==
    ASSUME MoldInv, NEW offer \in BOOLEAN, SplitterCycle(offer),
           state = "HDR" => ~hdr_ready, state # "HDR" => ~msg_ready
    PROVE  MoldInv'
<1>1. PackOK /\ WindowOK
  BY DEF MoldInv
<1>2. PICK i \in 0..Len(packets), Z \in Seq(Unit) : Place(i, Z)
  BY DEF MoldInv
<1>3. consume = 0
  BY <1>1, WindowFacts
<1>4. /\ UNCHANGED packVars
      /\ ev' = NoEvent
      /\ UNCHANGED <<state, msgs_left, expected_seq>>
  <2>1. StepHeader \/ StepMessage \/ StepNothing
    BY DEF SplitterCycle, SplitterTick
  <2>2. StepNothing
    BY <1>1, <2>1 DEF StepHeader, StepMessage, WindowOK
  <2> QED BY <2>2 DEF StepNothing, SplitterCycle
<1>5. log' = log
  <2>1. ~emit_now
    BY DEF emit_now
  <2>2. log' = log \o <<>>
    BY <1>1, <1>4, <2>1, QuietLog
  <2> QED BY <1>1, <2>2, ConcatEmptySeq DEF WindowOK
<1>6. /\ win' \in Seq(Unit) /\ wire' \in Seq(Unit) /\ Len(win') <= WINB
      /\ win' \o wire' = win \o wire
  <2>1. win \o wire \in Seq(Unit) /\ <<>> \in Seq(Unit) /\ Len(<<>>) = 0
    BY <1>1, ConcatProperties, EmptySeq DEF WindowOK
  <2>2. win \o wire = <<>> \o (win \o wire)
    BY <2>1, ConcatEmptySeq
  <2> DEFINE y == win \o wire
  <2>3. y \in Seq(Unit) /\ win \o wire = <<>> \o y
    BY <2>1, <2>2
  <2> HIDE DEF y
  <2>4. /\ win' \in Seq(Unit) /\ wire' \in Seq(Unit) /\ Len(win') <= WINB
        /\ win' \o wire' = y
    BY <1>1, <1>3, <2>1, <2>3, CycleMoves
  <2> QED BY <2>4 DEF y
<1>7. WindowOK'
  BY <1>1, <1>4, <1>5, <1>6 DEF WindowOK
<1>8. PackOK'
  BY <1>1, <1>4 DEF PackOK, packVars
<1>9. packets' = packets
  BY <1>4 DEF packVars
<1>10. Place(i, Z)'
  BY <1>2, <1>4, <1>5, <1>6, <1>9 DEF Place
<1> QED BY <1>7, <1>8, <1>9, <1>10 DEF MoldInv

LEMMA RejoinLines == \A a, b, c \in Seq(LogLine) : a \o (b \o c) = (a \o b) \o c
BY ConcatAssociative

(* A header: what the cycle that takes it does.                            *)
LEMMA HeaderFacts ==
    ASSUME WindowOK, NEW offer \in BOOLEAN, SplitterCycle(offer), state = "HDR", hdr_ready,
           NEW p \in Packet, Header = p, expected_seq \in Nat
    PROVE  /\ UNCHANGED packVars /\ consume = HDR_B
           /\ expected_seq' = Expects(expected_seq, p)
           /\ state' \in {"HDR", "EMIT", "DROP"}
           /\ state' = "HDR" <=> ~IsData(p)
           /\ IsData(p) => msgs_left' = p.count
           /\ log' \in Seq(LogLine)
           /\ log \o Told(expected_seq, p) =
                log' \o (IF state' = "EMIT" THEN Golden!Messages(p) ELSE <<>>)
<1> DEFINE x == expected_seq
           gap == IF p.seq > x THEN <<Golden!GAP(x, p.seq)>> ELSE <<>>
<1>1. /\ p.seq \in Nat /\ p.count \in Nat /\ x \in Nat
      /\ <<Golden!EOS(p.seq)>> \in Seq(LogLine) /\ <<Golden!HB(p.seq)>> \in Seq(LogLine)
      /\ gap \in Seq(LogLine) /\ Golden!Messages(p) \in Seq(LogLine) /\ <<>> \in Seq(LogLine)
  BY ToldType
<1>2. consume = HDR_B /\ consume # 0
  BY WindowFacts, Sizes
<1>3. StepHeader /\ m_msg' = <<>> /\ UNCHANGED packVars
  BY <1>2 DEF SplitterCycle, SplitterTick, StepMessage, StepNothing, emit_now
<1>4. log' = log \o Logged
  BY DEF SplitterCycle
<1>5. log \in Seq(LogLine)
  BY DEF WindowOK
<1>6. EosCount = EOS_COUNT /\ EOS_COUNT # 0
  BY Sizes
<1>7. ASSUME NEW g \in BOOLEAN, NEW h \in BOOLEAN, NEW e \in BOOLEAN, ev' = HeaderEvent(g, h, e)
      PROVE  Logged = Lines(IF g THEN <<Golden!GAP(x, p.seq)>> ELSE <<>>,
                            IF h THEN <<Golden!HB(p.seq)>> ELSE <<>>,
                            IF e THEN <<Golden!EOS(p.seq)>> ELSE <<>>, <<>>)
  <2>1. ev'.gap = g /\ ev'.hb = h /\ ev'.eos = e /\ ev'.seq = p.seq /\ ev'.expected = x
    BY <1>7 DEF HeaderEvent
  <2> QED BY <1>3, <2>1 DEF Logged, Lines
<1>8. CASE p.count = EOS_COUNT
  <2>1. ev' = HeaderEvent(FALSE, FALSE, TRUE) /\ UNCHANGED <<state, msgs_left, expected_seq>>
    BY <1>3, <1>6, <1>8 DEF StepHeader
  <2>2. Logged = Lines(<<>>, <<>>, <<Golden!EOS(p.seq)>>, <<>>)
    BY <1>7, <2>1
  <2>3. Logged = <<Golden!EOS(p.seq)>>
    BY <1>1, <2>2, LinesJoin
  <2>4. Told(x, p) = <<Golden!EOS(p.seq)>> /\ Expects(x, p) = x
    BY <1>8 DEF Told, Expects
  <2>5. log' \in Seq(LogLine)
    BY <1>1, <1>4, <1>5, <2>3, ConcatProperties
  <2>6. log' \o <<>> = log'
    BY <2>5, ConcatEmptySeq
  <2>7. ~IsData(p)
    BY <1>8 DEF IsData
  <2> QED BY <1>2, <1>3, <1>4, <2>1, <2>3, <2>4, <2>5, <2>6, <2>7
<1>9. CASE p.count # EOS_COUNT
  <2>1. TakesHeader
    BY <1>3, <1>6, <1>9 DEF StepHeader
  <2>2. ev' = HeaderEvent(p.seq > x, p.count = 0, FALSE)
    BY <2>1 DEF TakesHeader
  <2>3. Logged = Lines(gap, IF p.count = 0 THEN <<Golden!HB(p.seq)>> ELSE <<>>, <<>>, <<>>)
    <3>1. /\ ev'.gap = (p.seq > x) /\ ev'.hb = (p.count = 0) /\ ev'.eos = FALSE
          /\ ev'.seq = p.seq /\ ev'.expected = x
      BY <2>2 DEF HeaderEvent
    <3> QED BY <1>3, <3>1 DEF Logged, Lines
  <2> HIDE DEF gap
  <2>4. Logged = gap \o (IF p.count = 0 THEN <<Golden!HB(p.seq)>> ELSE <<>>)
    BY <1>1, <2>3, LinesJoin
  <2>5. Told(x, p) = gap \o (IF p.count = 0 THEN <<Golden!HB(p.seq)>>
                             ELSE IF p.seq < x THEN <<>> ELSE Golden!Messages(p))
    BY <1>9 DEF Told, gap
  <2>6. CASE p.count = 0
    <3>1. UNCHANGED <<state, msgs_left>> /\ expected_seq' = Expects(x, p)
      BY <1>6, <1>9, <2>1, <2>6 DEF TakesHeader, AfterHb, Expects
    <3>2. Logged = Told(x, p)
      BY <2>4, <2>5, <2>6
    <3>3. Logged \in Seq(LogLine)
      BY <1>1, <2>4, <2>6, ConcatProperties
    <3>4. log' \in Seq(LogLine)
      BY <1>4, <1>5, <3>3, ConcatProperties
    <3>5. log' \o <<>> = log'
      BY <3>4, ConcatEmptySeq
    <3>6. ~IsData(p)
      BY <2>6 DEF IsData
    <3> QED BY <1>2, <1>3, <1>4, <3>1, <3>2, <3>4, <3>5, <3>6
  <2>7. CASE p.count # 0
    <3>1. IsData(p)
      BY <1>9, <2>7 DEF IsData
    <3>2. Logged = gap
      BY <1>1, <2>4, <2>7, ConcatEmptySeq
    <3>3. log' = log \o gap /\ log' \in Seq(LogLine)
      BY <1>1, <1>4, <1>5, <3>2, ConcatProperties
    <3>4. CASE p.seq < x
      <4>1. state' = "DROP" /\ msgs_left' = p.count /\ expected_seq' = x
        BY <2>1, <2>7, <3>4 DEF TakesHeader, IsDup
      <4>2. Expects(x, p) = x /\ Told(x, p) = gap \o <<>>
        BY <1>9, <2>5, <2>7, <3>4 DEF Expects
      <4>3. gap \o <<>> = gap /\ log' \o <<>> = log'
        BY <1>1, <3>3, ConcatEmptySeq
      <4> QED BY <1>2, <1>3, <3>1, <3>3, <4>1, <4>2, <4>3
    <3>5. CASE ~(p.seq < x)
      <4>1. state' = "EMIT" /\ msgs_left' = p.count /\ expected_seq' = p.seq + p.count
        BY <2>1, <2>7, <3>5 DEF TakesHeader, IsDup
      <4>2. Expects(x, p) = p.seq + p.count /\ Told(x, p) = gap \o Golden!Messages(p)
        BY <1>9, <2>5, <2>7, <3>5 DEF Expects
      <4> DEFINE m == Golden!Messages(p)
      <4>3. m \in Seq(LogLine)
        BY <1>1
      <4> HIDE DEF m
      <4>4. log \o (gap \o m) = (log \o gap) \o m
        BY <1>1, <1>5, <4>3, RejoinLines
      <4>5. log \o Told(x, p) = log' \o m
        BY <3>3, <4>2, <4>4 DEF m
      <4> QED BY <1>2, <1>3, <3>1, <3>3, <4>1, <4>2, <4>5 DEF m
    <3> QED BY <3>4, <3>5
  <2> QED BY <2>6, <2>7
<1> QED BY <1>8, <1>9

LEMMA HeaderKeeps ==
    ASSUME MoldInv, NEW offer \in BOOLEAN, SplitterCycle(offer), state = "HDR", hdr_ready
    PROVE  MoldInv'
<1>1. PackOK /\ WindowOK /\ packets \in Seq(Packet) /\ Len(packets) \in Nat
  BY LenProperties DEF MoldInv, PackOK
<1>2. PICK i \in 0..Len(packets), Z \in Seq(Unit) : Place(i, Z)
  BY DEF MoldInv
<1>3. win \in Seq(Unit) /\ wire \in Seq(Unit) /\ 0 < Len(win) /\ win \o wire = Z
  <2>1. Len(win) >= HDR_B /\ Len(win) \in Nat
    BY <1>1, WindowFacts
  <2> QED BY <1>1, <1>2, <2>1, Sizes DEF WindowOK, Place
<1>4. Z # <<>>
  <2>1. Len(Z) = Len(win) + Len(wire) /\ Len(wire) \in Nat /\ Len(win) \in Nat
    BY <1>3, Join, LenProperties
  <2> QED BY <1>3, <2>1
<1> DEFINE p == packets[i + 1]
<1>5. /\ i + 1 \in 1..Len(packets) /\ p \in Packet /\ ~After(packets, i).eos
      /\ \E Y \in Seq(Unit) : /\ Z = Hdr(p) \o (Payload(p) \o Y)
                              /\ Flow(packets, Len(packets)) = Flow(packets, i + 1) \o Y
  BY <1>1, <1>2, <1>4, NextPacket
<1>6. PICK Y \in Seq(Unit) : /\ Z = Hdr(p) \o (Payload(p) \o Y)
                             /\ Flow(packets, Len(packets)) = Flow(packets, i + 1) \o Y
  BY <1>5
<1>7. /\ i \in 0..Len(packets) /\ i \in Nat
      /\ After(packets, i) \in DumpState /\ After(packets, i + 1) = Golden!Line(After(packets, i), p)
  BY <1>1, AfterStep
<1> DEFINE d == After(packets, i)
<1>8. /\ expected_seq = d.expected /\ log = d.out /\ expected_seq \in Nat
  BY <1>2, <1>7 DEF Place, DumpState
<1>9. /\ After(packets, i + 1).out = log \o Told(expected_seq, p)
      /\ After(packets, i + 1).expected = Expects(expected_seq, p)
      /\ After(packets, i + 1).eos = (p.count = EOS_COUNT)
  <2>1. ~d.eos /\ d \in DumpState /\ p \in Packet
    BY <1>5, <1>7
  <2>2. /\ Golden!Line(d, p).out = d.out \o Told(d.expected, p)
        /\ Golden!Line(d, p).expected = Expects(d.expected, p)
        /\ Golden!Line(d, p).eos = (p.count = EOS_COUNT)
    BY <2>1, LineFacts
  <2> QED BY <1>7, <1>8, <2>2
<1> HIDE DEF p, d
<1>10. /\ Hdr(p) \in Seq(Unit) /\ Len(Hdr(p)) = HDR_B /\ Hdr(p)[1] = HeaderUnit(p, 1)
       /\ Payload(p) \in Seq(Unit)
  BY <1>5, BytesUnits
<1>11. Payload(p) \o Y \in Seq(Unit)
  BY <1>10, Join
<1>12. Header = p
  <2>1. win[1] = Hdr(p)[1]
    <3> DEFINE h == Hdr(p)
               y == Payload(p) \o Y
    <3>1. h \in Seq(Unit) /\ y \in Seq(Unit) /\ win \o wire = h \o y /\ 0 < Len(h)
      BY <1>3, <1>6, <1>10, <1>11, Sizes
    <3> HIDE DEF h, y
    <3>2. win[1] = h[1]
      BY <1>3, <3>1, FirstOf
    <3> QED BY <3>2 DEF h
  <2>2. win[1].at = 1 /\ win[1].hdr = <<p>>
    BY <1>10, <2>1 DEF HeaderUnit
  <2>3. <<p>> # <<>> /\ Head(<<p>>) = p
    OBVIOUS
  <2> QED BY <2>2, <2>3 DEF Header
<1>13. /\ UNCHANGED packVars /\ consume = HDR_B
       /\ expected_seq' = Expects(expected_seq, p)
       /\ state' \in {"HDR", "EMIT", "DROP"}
       /\ state' = "HDR" <=> ~IsData(p)
       /\ IsData(p) => msgs_left' = p.count
       /\ log' \in Seq(LogLine)
       /\ log \o Told(expected_seq, p) =
            log' \o (IF state' = "EMIT" THEN Golden!Messages(p) ELSE <<>>)
  BY <1>1, <1>5, <1>8, <1>12, HeaderFacts
<1>14. /\ win' \in Seq(Unit) /\ wire' \in Seq(Unit) /\ Len(win') <= WINB
       /\ win' \o wire' = Payload(p) \o Y
  <2> DEFINE h == Hdr(p)
             y == Payload(p) \o Y
  <2>1. h \in Seq(Unit) /\ y \in Seq(Unit) /\ win \o wire = h \o y /\ Len(h) = consume
    BY <1>3, <1>6, <1>10, <1>11, <1>13
  <2> HIDE DEF h, y
  <2>2. /\ win' \in Seq(Unit) /\ wire' \in Seq(Unit) /\ Len(win') <= WINB
        /\ win' \o wire' = y
    BY <1>1, <2>1, CycleMoves
  <2> QED BY <2>2 DEF y
<1>15. packets' = packets
  BY <1>13 DEF packVars
<1>16. WindowOK'
  BY <1>13, <1>14 DEF WindowOK
<1>17. PackOK'
  BY <1>1, <1>13 DEF PackOK, packVars
<1>18. i + 1 \in 0..Len(packets)
  BY <1>5
<1>19. Place(i + 1, Y)'
  <2>1. /\ Flow(packets', Len(packets')) = Flow(packets', i + 1) \o Y
        /\ expected_seq' = After(packets', i + 1).expected
    BY <1>6, <1>9, <1>13, <1>15
  <2>2. After(packets', i + 1).eos => 0 < i + 1 /\ i + 1 = Len(packets') /\ packets'[i + 1].count = EOS_COUNT
    <3>1. ASSUME p.count = EOS_COUNT PROVE i + 1 = Len(packets)
      BY <1>1, <1>5, <3>1 DEF PackOK, p
    <3>2. After(packets', i + 1).eos => p.count = EOS_COUNT
      BY <1>9, <1>15
    <3>3. packets'[i + 1].count = p.count /\ Len(packets') = Len(packets) /\ 0 < i + 1
      BY <1>7, <1>15 DEF p
    <3> QED BY <3>1, <3>2, <3>3
  <2>3. ASSUME state' = "HDR"
        PROVE  win' \o wire' = Y /\ log' = After(packets', i + 1).out
    <3>1. Payload(p) = <<>>
      BY <1>13, <2>3 DEF Payload
    <3>2. <<>> \o Y = Y /\ log' \o <<>> = log'
      BY <1>13, ConcatEmptySeq
    <3> QED BY <1>9, <1>13, <1>14, <1>15, <2>3, <3>1, <3>2
  <2>4. ASSUME state' # "HDR"
        PROVE  /\ 0 < i + 1 /\ IsData(packets'[i + 1]) /\ msgs_left' \in 1..packets'[i + 1].count
               /\ win' \o wire' = LastMessages(packets'[i + 1], msgs_left') \o Y
               /\ After(packets', i + 1).out =
                    log' \o (IF state' = "EMIT" THEN LastLines(packets'[i + 1], msgs_left') ELSE <<>>)
    <3>1. IsData(p) /\ msgs_left' = p.count /\ p.count \in Nat /\ p.count # 0
      BY <1>5, <1>13, <2>4 DEF IsData, Packet
    <3>2. msgs_left' \in 1..p.count
      BY <3>1
    <3>3. Payload(p) = LastMessages(p, p.count)
      BY <3>1 DEF Payload
    <3>4. p.count \in 0..p.count
      BY <3>1
    <3>5. LastLines(p, p.count) = Golden!Messages(p)
      BY <1>5, <3>4, LastLinesStep
    <3> QED BY <1>7, <1>9, <1>13, <1>14, <1>15, <3>1, <3>2, <3>3, <3>5 DEF p
  <2> QED BY <2>1, <2>2, <2>3, <2>4 DEF Place
<1> QED BY <1>15, <1>16, <1>17, <1>18, <1>19 DEF MoldInv

(* A message's front: what the window shows of it.                         *)
LEMMA MessageFront ==
    ASSUME WindowOK, msg_ready, NEW n \in 1..NMsgs, NEW y \in Seq(Unit),
           win \o wire = Block(n) \o y
    PROVE  /\ MsgLen = Length[n] /\ MsgLen # 0 /\ mlen2 = Len(Block(n))
           /\ Emitted = n
<1>1. /\ win \in Seq(Unit) /\ wire \in Seq(Unit) /\ Len(win) \in Nat /\ Len(win) >= PREFIX_B
      /\ Len(win) >= mlen2
  BY LenProperties DEF WindowOK, msg_ready, vcnt
<1>2. /\ Block(n) \in Seq(Unit) /\ Len(Block(n)) = PREFIX_B + Length[n]
      /\ \A k \in 1..(PREFIX_B + Length[n]) : Block(n)[k] = MessageUnit(n, k)
  BY BlockUnits
<1>3. /\ PREFIX_B \in Nat /\ 0 < PREFIX_B /\ Length[n] \in Nat /\ 0 < Length[n] /\ n \in Nat /\ n # 0
  BY Sizes
<1> DEFINE b == Block(n)
           L == Length[n]
<1>4. b \in Seq(Unit) /\ Len(b) = PREFIX_B + L /\ L \in Nat /\ 0 < L
  BY <1>2, <1>3
<1>5. \A k \in 1..(PREFIX_B + L) : b[k] = MessageUnit(n, k)
  BY <1>2
<1>6. win \o wire = b \o y
  OBVIOUS
<1>7. MsgLen = Length[n] <=> MsgLen = L
  OBVIOUS
<1> HIDE DEF b
<1>8. win[1] = MessageUnit(n, 1)
  <2>1. 0 < Len(win) /\ 0 < Len(b)
    BY <1>1, <1>3, <1>4
  <2>2. win[1] = b[1]
    BY <1>1, <1>4, <1>6, <2>1, FirstOf
  <2>3. 1 \in 1..(PREFIX_B + L)
    BY <1>3, <1>4
  <2> QED BY <1>5, <2>2, <2>3
<1>9. win[1].at = 1 /\ win[1].msg = n
  BY <1>8 DEF MessageUnit
<1>10. MsgLen = L
  BY <1>3, <1>9 DEF MsgLen
<1>11. mlen2 = PREFIX_B + L
  BY <1>10 DEF mlen2
<1> HIDE DEF L
<1>12. \A k \in 1..(PREFIX_B + L) : win[k] = MessageUnit(n, k)
  <2>1. Len(b) <= Len(win)
    BY <1>1, <1>4, <1>11
  <2>2. \A k \in 1..Len(b) : win[k] = b[k]
    BY <1>1, <1>4, <1>6, <2>1, SameFront
  <2> QED BY <1>4, <1>5, <2>2
<1>13. Body = [k \in 1..L |-> MessageUnit(n, PREFIX_B + k)]
  <2>1. PREFIX_B + 1 \in 1..(Len(win) + 1) /\ PREFIX_B + L \in (PREFIX_B + 1 - 1)..Len(win)
    BY <1>1, <1>3, <1>4, <1>11
  <2> DEFINE f == PREFIX_B + 1
             g == PREFIX_B + L
  <2>2. Body = SubSeq(win, f, g)
    BY <1>11 DEF Body
  <2>3. f \in Int /\ g \in Int /\ f <= g /\ g - f + 1 = L /\ f..g \subseteq 1..Len(win)
    BY <1>1, <1>3, <1>4, <2>1
  <2> HIDE DEF f, g
  <2>4. \A k \in f..g : win[k] \in Unit
    BY <1>1, <2>3, ElementOfSeq
  <2>5. /\ SubSeq(win, f, g) \in Seq(Unit) /\ Len(SubSeq(win, f, g)) = L
        /\ \A k \in 1..L : SubSeq(win, f, g)[k] = win[f + k - 1]
    BY <1>1, <2>3, <2>4, SubSeqProperties
  <2>6. Len(Body) = L /\ \A k \in 1..L : Body[k] = MessageUnit(n, PREFIX_B + k)
    <3>1. Len(Body) = L
      BY <2>2, <2>5
    <3>2. ASSUME NEW k \in 1..L PROVE Body[k] = MessageUnit(n, PREFIX_B + k)
      <4>1. f + k - 1 = PREFIX_B + k /\ PREFIX_B + k \in 1..(PREFIX_B + L)
        BY <1>3, <1>4 DEF f
      <4> QED BY <1>12, <2>2, <2>5, <4>1
    <3> QED BY <3>1, <3>2
  <2>7. Body = [k \in 1..Len(Body) |-> Body[k]]
    BY <2>2, <2>5, SeqDef
  <2> QED BY <2>6, <2>7
<1>14. Emitted = n
  BY <1>3, <1>9, <1>13 DEF Emitted, L
<1> QED BY <1>3, <1>4, <1>10, <1>11, <1>14 DEF b, L

LEMMA MessageKeeps ==
    ASSUME MoldInv, NEW offer \in BOOLEAN, SplitterCycle(offer), state # "HDR", msg_ready
    PROVE  MoldInv'
<1>1. PackOK /\ WindowOK /\ packets \in Seq(Packet) /\ Len(packets) \in Nat
  BY LenProperties DEF MoldInv, PackOK
<1>2. PICK i \in 0..Len(packets), Z \in Seq(Unit) : Place(i, Z)
  BY DEF MoldInv
<1> DEFINE p == packets[i]
           m == msgs_left
<1>3. /\ 0 < i /\ IsData(p) /\ m \in 1..p.count
      /\ win \o wire = LastMessages(p, m) \o Z
      /\ After(packets, i).out = log \o (IF state = "EMIT" THEN LastLines(p, m) ELSE <<>>)
  BY <1>2 DEF Place
<1>4. p \in Packet /\ p.count \in Nat
  <2>1. i \in 1..Len(packets)
    BY <1>1, <1>3
  <2>2. p \in Packet
    BY <1>1, <2>1, ElementOfSeq
  <2> QED BY <2>2 DEF Packet
<1> DEFINE n == p.seq + p.count - m
           R == LastMessages(p, m - 1)
           out == After(packets, i).out
<1> HIDE DEF p
<1>5. /\ m \in 0..p.count /\ m - 1 \in 0..p.count /\ 0 < m /\ m \in Nat
  BY <1>3, <1>4
<1>6. /\ n \in 1..NMsgs /\ R \in Seq(Unit) /\ LastMessages(p, m) = Block(n) \o R
  BY <1>3, <1>4, <1>5, LastMessagesUnits
<1>7. /\ LastLines(p, m) = <<Golden!MSG(n)>> \o LastLines(p, m - 1)
      /\ LastLines(p, m - 1) \in Seq(LogLine) /\ LastLines(p, 0) = <<>>
  BY <1>4, <1>5, LastLinesStep
<1>8. LastMessages(p, 0) = <<>>
  BY LastMessagesStep
<1>9. <<Golden!MSG(n)>> \in Seq(LogLine)
  <2>1. Golden!MSG(n) \in LogLine
    BY <1>6, LinesAreLines
  <2> QED BY <2>1
<1> HIDE DEF n, R, m
<1> DEFINE y == R \o Z
<1>10. y \in Seq(Unit)
  BY <1>6, Join
<1>11. /\ Block(n) \in Seq(Unit) /\ Len(Block(n)) = PREFIX_B + Length[n]
  BY <1>6, BlockUnits
<1>12. win \o wire = Block(n) \o y
  <2> DEFINE b == Block(n)
  <2>1. b \in Seq(Unit) /\ win \o wire = (b \o R) \o Z
    BY <1>3, <1>6, <1>11
  <2> HIDE DEF b
  <2>2. (b \o R) \o Z = b \o (R \o Z)
    BY <1>6, <2>1, Rejoin
  <2> QED BY <2>1, <2>2 DEF b
<1> HIDE DEF y
<1>13. /\ MsgLen # 0 /\ mlen2 = Len(Block(n)) /\ Emitted = n
  BY <1>1, <1>6, <1>10, <1>12, MessageFront
<1>14. consume = mlen2 /\ consume # 0
  <2>1. consume = mlen2 /\ 0 < mlen2
    BY <1>1, WindowFacts
  <2> QED BY <2>1
<1>15. /\ win' \in Seq(Unit) /\ wire' \in Seq(Unit) /\ Len(win') <= WINB
       /\ win' \o wire' = y
  <2> DEFINE b == Block(n)
  <2>1. b \in Seq(Unit) /\ win \o wire = b \o y /\ Len(b) = consume
    BY <1>11, <1>12, <1>13, <1>14
  <2> HIDE DEF b
  <2> QED BY <1>1, <1>10, <2>1, CycleMoves
<1>16. /\ StepMessage /\ UNCHANGED packVars
  BY <1>14 DEF SplitterCycle, SplitterTick, StepHeader, StepNothing
<1>17. /\ ev' = NoEvent /\ expected_seq' = expected_seq
       /\ m = 1 => state' = "HDR"
       /\ m # 1 => state' = state /\ msgs_left' = m - 1
  BY <1>13, <1>16 DEF StepMessage, m
<1>18. packets' = packets
  BY <1>16 DEF packVars
<1>19. log' = log \o (IF state = "EMIT" THEN <<Golden!MSG(n)>> ELSE <<>>)
  <2>1. log' = log \o (IF emit_now THEN <<Golden!MSG(Emitted)>> ELSE <<>>)
    BY <1>1, <1>17, QuietLog
  <2>2. emit_now <=> state = "EMIT"
    BY DEF emit_now
  <2> QED BY <1>13, <2>1, <2>2
<1>20. log \in Seq(LogLine) /\ state \in {"HDR", "EMIT", "DROP"}
  BY <1>1 DEF WindowOK
<1>21. /\ log' \in Seq(LogLine)
       /\ out = log' \o (IF state = "EMIT" THEN LastLines(p, m - 1) ELSE <<>>)
  <2>1. CASE state = "EMIT"
    <3> DEFINE a == <<Golden!MSG(n)>>
               l == LastLines(p, m - 1)
    <3>1. a \in Seq(LogLine) /\ l \in Seq(LogLine) /\ log' = log \o a /\ out = log \o (a \o l)
      BY <1>3, <1>7, <1>9, <1>19, <2>1
    <3> HIDE DEF a, l
    <3>2. log \o (a \o l) = (log \o a) \o l
      BY <1>20, <3>1, RejoinLines
    <3>3. log \o a \in Seq(LogLine)
      BY <1>20, <3>1, ConcatProperties
    <3> QED BY <2>1, <3>1, <3>2, <3>3 DEF l
  <2>2. CASE state # "EMIT"
    <3>1. log \o <<>> = log
      BY <1>20, ConcatEmptySeq
    <3> QED BY <1>3, <1>19, <1>20, <2>2, <3>1
  <2> QED BY <2>1, <2>2
<1>22. WindowOK'
  BY <1>15, <1>17, <1>20, <1>21 DEF WindowOK
<1>23. PackOK'
  BY <1>1, <1>16 DEF PackOK, packVars
<1>24. Place(i, Z)'
  <2>1. /\ Flow(packets', Len(packets')) = Flow(packets', i) \o Z
        /\ expected_seq' = After(packets', i).expected
        /\ After(packets', i).eos => 0 < i /\ i = Len(packets') /\ packets'[i].count = EOS_COUNT
    BY <1>2, <1>17, <1>18 DEF Place
  <2>2. CASE m = 1
    <3>1. R = <<>> /\ (state = "EMIT" => LastLines(p, m - 1) = <<>>)
      BY <1>7, <1>8, <2>2 DEF R
    <3>2. <<>> \o Z = Z /\ log' \o <<>> = log'
      BY <1>21, ConcatEmptySeq
    <3>3. y = Z
      BY <3>1, <3>2 DEF y
    <3>4. out = log'
      BY <1>21, <3>1, <3>2
    <3> QED BY <1>15, <1>17, <1>18, <2>1, <2>2, <3>3, <3>4 DEF Place
  <2>3. CASE m # 1
    <3>1. msgs_left' = m - 1 /\ m - 1 \in 1..p.count /\ state' = state
      BY <1>3, <1>4, <1>5, <1>17, <2>3
    <3>2. win' \o wire' = LastMessages(p, m - 1) \o Z
      BY <1>15 DEF y, R
    <3>3. out = log' \o (IF state' = "EMIT" THEN LastLines(p, msgs_left') ELSE <<>>)
      BY <1>21, <3>1
    <3>4. /\ 0 < i /\ IsData(packets'[i]) /\ msgs_left' \in 1..packets'[i].count
          /\ win' \o wire' = LastMessages(packets'[i], msgs_left') \o Z
          /\ After(packets', i).out =
               log' \o (IF state' = "EMIT" THEN LastLines(packets'[i], msgs_left') ELSE <<>>)
      BY <1>3, <1>18, <3>1, <3>2, <3>3 DEF p
    <3> QED BY <2>1, <3>1, <3>4 DEF Place
  <2> QED BY <2>2, <2>3
<1> QED BY <1>18, <1>22, <1>23, <1>24 DEF MoldInv

(* ---- the whole of it ----                                               *)
LEMMA PrefixOfConcat ==
    ASSUME NEW S, NEW a \in Seq(S), NEW b \in Seq(S)
    PROVE  IsPrefix(a, a \o b)
<1> DEFINE w == a \o b
           m == Len(a)
<1>1. /\ w \in Seq(S) /\ m \in Nat /\ Len(b) \in Nat /\ Len(w) = m + Len(b)
      /\ \A i \in 1..m : w[i] = a[i]
  <2>1. w \in Seq(S) /\ m \in Nat /\ Len(b) \in Nat /\ Len(w) = m + Len(b)
    BY ConcatProperties, LenProperties
  <2>2. \A i \in 1..(Len(a) + Len(b)) : (a \o b)[i] = IF i <= Len(a) THEN a[i] ELSE b[i - Len(a)]
    BY ConcatProperties
  <2>3. \A i \in 1..m : i \in 1..(m + Len(b)) /\ i <= m
    BY <2>1
  <2> QED BY <2>1, <2>2, <2>3
<1> HIDE DEF w
<1>2. SubSeq(w, 1, m) = a
  <2>1. \A i \in 1..m : w[i] \in S
    BY <1>1, ElementOfSeq
  <2>2. /\ SubSeq(w, 1, m) \in Seq(S)
        /\ Len(SubSeq(w, 1, m)) = IF 1 <= m THEN m - 1 + 1 ELSE 0
        /\ \A i \in 1..(m - 1 + 1) : SubSeq(w, 1, m)[i] = w[1 + i - 1]
    <3> HIDE DEF m
    <3> QED BY <1>1, <2>1, SubSeqProperties
  <2>3. Len(SubSeq(w, 1, m)) = m
    BY <1>1, <2>2
  <2>4. \A i \in 1..m : SubSeq(w, 1, m)[i] = a[i]
    <3> TAKE i \in 1..m
    <3>1. i \in 1..(m - 1 + 1) /\ 1 + i - 1 = i
      BY <1>1
    <3> QED BY <1>1, <2>2, <3>1
  <2> QED BY <2>2, <2>3, <2>4, SeqEqual
<1>3. SubSeq(a, 1, m) = a
  BY SubSeqFull
<1>4. m <= Len(w)
  BY <1>1
<1> QED BY <1>2, <1>3, <1>4 DEF IsPrefix, w

LEMMA StartsRight == MoldInit => MoldInv
<1> SUFFICES ASSUME MoldInit PROVE MoldInv
  OBVIOUS
<1>1. /\ packets = <<>> /\ last_data = <<>> /\ seq = 1 /\ pi = 0 /\ Len(packets) = 0
      /\ state = "HDR" /\ win = <<>> /\ wire = <<>> /\ log = <<>> /\ expected_seq = 1
  BY DEF MoldInit, PackInit, SplitterInit
<1>2. /\ packets \in Seq(Packet) /\ <<>> \in Seq(Unit) /\ <<>> \in Seq(LogLine) /\ Len(<<>>) = 0
  BY <1>1, EmptySeq
<1>3. PackOK
  BY <1>1, <1>2, Sizes DEF PackOK
<1>4. WINB >= 0
  BY Sizes DEF WINB
<1>5. WindowOK
  BY <1>1, <1>2, <1>4 DEF WindowOK
<1>6. Flow(packets, 0) \in Seq(Unit) /\ After(packets, 0) = Golden!Start
  <2>1. 0 \in 0..Len(packets)
    BY <1>1
  <2> QED BY <1>2, <2>1, FlowUnits, AfterStep
<1>7. Place(0, <<>>)
  <2>1. Flow(packets, 0) \o <<>> = Flow(packets, 0)
    BY <1>6, ConcatEmptySeq
  <2>2. win \o wire = <<>>
    BY <1>1, <1>2, ConcatEmptySeq
  <2> QED BY <1>1, <1>6, <2>1, <2>2 DEF Place, Golden!Start
<1>8. 0 \in 0..Len(packets)
  BY <1>1
<1> QED BY <1>2, <1>3, <1>5, <1>7, <1>8 DEF MoldInv

LEMMA CycleKeeps ==
    ASSUME MoldInv, NEW offer \in BOOLEAN, SplitterCycle(offer)
    PROVE  MoldInv'
<1>1. CASE state = "HDR" /\ hdr_ready
  BY <1>1, HeaderKeeps
<1>2. CASE state # "HDR" /\ msg_ready
  BY <1>2, MessageKeeps
<1>3. CASE (state = "HDR" => ~hdr_ready) /\ (state # "HDR" => ~msg_ready)
  BY <1>3, WaitKeeps
<1> QED BY <1>1, <1>2, <1>3

LEMMA RestKeeps == MoldInv /\ UNCHANGED moldVars => MoldInv'
<1> SUFFICES ASSUME MoldInv, UNCHANGED moldVars PROVE MoldInv'
  OBVIOUS
<1>1. /\ packets' = packets /\ last_data' = last_data /\ seq' = seq /\ pi' = pi /\ ended' = ended
      /\ state' = state /\ win' = win /\ wire' = wire /\ log' = log
      /\ expected_seq' = expected_seq /\ msgs_left' = msgs_left
  BY DEF moldVars, packVars, splitterVars
<1>2. PackOK' /\ WindowOK'
  BY <1>1 DEF MoldInv, PackOK, WindowOK
<1>3. PICK i \in 0..Len(packets), Z \in Seq(Unit) : Place(i, Z)
  BY DEF MoldInv
<1>4. Place(i, Z)'
  BY <1>1, <1>3 DEF Place
<1> QED BY <1>1, <1>2, <1>4 DEF MoldInv

(* A packet is begun and its bytes are in the window and on the wire, or   *)
(* none is: whatever the pace, the splitter has logged what the golden     *)
(* prints for the packets begun, less the messages it has yet to put out.  *)
THEOREM MoldInvariant == MoldSpec => []MoldInv
<1>1. MoldInit => MoldInv
  BY StartsRight
<1>2. MoldInv /\ [MoldNext]_moldVars => MoldInv'
  <2>1. ASSUME MoldInv, MoldNext PROVE MoldInv'
    <3>1. CASE Stream
      BY <2>1, <3>1, StreamKeeps
    <3>2. CASE \E offer \in BOOLEAN : SplitterCycle(offer)
      <4>1. PICK offer \in BOOLEAN : SplitterCycle(offer)
        BY <3>2
      <4> QED BY <2>1, <4>1, CycleKeeps
    <3> QED BY <2>1, <3>1, <3>2 DEF MoldNext
  <2> QED BY <2>1, RestKeeps
<1> QED BY <1>1, <1>2, PTL DEF MoldSpec

(* With nothing in the window and nothing on the wire every packet has     *)
(* been begun, and finished.                                               *)
LEMMA AllBegun ==
    ASSUME PackOK, NEW i \in 0..Len(packets), NEW Z \in Seq(Unit), Place(i, Z),
           win = <<>>, wire = <<>>
    PROVE  state = "HDR" /\ i = Len(packets)
<1>1. packets \in Seq(Packet) /\ Len(packets) \in Nat /\ i \in Nat
  BY LenProperties DEF PackOK
<1>2. <<>> \in Seq(Unit) /\ Len(<<>>) = 0 /\ win \o wire = <<>>
  BY EmptySeq, ConcatEmptySeq
<1>3. ASSUME state # "HDR" PROVE FALSE
  <2> DEFINE p == packets[i]
             m == msgs_left
             n == p.seq + p.count - m
             b == Block(n)
             R == LastMessages(p, m - 1)
  <2>1. /\ 0 < i /\ IsData(p) /\ m \in 1..p.count /\ LastMessages(p, m) \o Z = <<>>
    BY <1>2, <1>3 DEF Place
  <2>2. p \in Packet /\ p.count \in Nat
    <3>1. i \in 1..Len(packets)
      BY <1>1, <2>1
    <3>2. p \in Packet
      BY <1>1, <3>1, ElementOfSeq
    <3> QED BY <3>2 DEF Packet
  <2> HIDE DEF p
  <2>3. m \in 0..p.count /\ 0 < m
    BY <2>1, <2>2
  <2>4. n \in 1..NMsgs /\ LastMessages(p, m) = b \o R /\ R \in Seq(Unit) /\ LastMessages(p, m) \in Seq(Unit)
    BY <2>1, <2>2, <2>3, LastMessagesUnits
  <2>5. b \in Seq(Unit) /\ Len(b) = PREFIX_B + Length[n]
    BY <2>4, BlockUnits
  <2>6. PREFIX_B + Length[n] > 0
    BY <2>4, Sizes
  <2> HIDE DEF b, R, n, m
  <2>7. LastMessages(p, m) = <<>>
    BY <2>1, <2>4, ConcatSimplifications
  <2>8. b = <<>>
    BY <2>4, <2>5, <2>7, ConcatSimplifications
  <2> QED BY <1>2, <2>5, <2>6, <2>8
<1>4. ASSUME state = "HDR", i # Len(packets) PROVE FALSE
  <2>1. Z = <<>>
    BY <1>2, <1>4 DEF Place
  <2>2. Flow(packets, Len(packets)) = Flow(packets, i) \o Z
    BY DEF Place
  <2>3. i + 1 \in 0..Len(packets) /\ i + 1 \in 1..Len(packets)
    BY <1>1, <1>4
  <2> DEFINE b == Bytes(packets[i + 1])
             F == Flow(packets, i)
  <2>4. PICK Y \in Seq(Unit) : Flow(packets, Len(packets)) = Flow(packets, i + 1) \o Y
    BY <1>1, <2>3, FlowGoesOn
  <2>5. Flow(packets, i + 1) = F \o b /\ F \in Seq(Unit)
    BY <1>1, FlowUnits
  <2>6. b \in Seq(Unit) /\ 0 < Len(b)
    <3>1. packets[i + 1] \in Packet
      BY <1>1, <2>3, ElementOfSeq
    <3> QED BY <3>1, BytesUnits
  <2> HIDE DEF b, F
  <2>7. (F \o b) \o Y = F \o (b \o Y)
    BY <2>5, <2>6, Rejoin
  <2>8. F \o Z = F \o (b \o Y) /\ b \o Y \in Seq(Unit)
    BY <2>2, <2>4, <2>5, <2>6, <2>7, Join DEF F
  <2>9. b \o Y = <<>>
    BY <2>1, <2>5, <2>8, ConcatSimplifications
  <2>10. b = <<>>
    BY <2>6, <2>9, ConcatSimplifications
  <2> QED BY <1>2, <2>6, <2>10
<1> QED BY <1>3, <1>4

LEMMA LogsTheGolden == MoldInv => LogIsGolden
<1> SUFFICES ASSUME MoldInv PROVE LogIsGolden
  OBVIOUS
<1>1. PackOK /\ WindowOK /\ packets \in Seq(Packet) /\ Len(packets) \in Nat /\ log \in Seq(LogLine)
  BY LenProperties DEF MoldInv, PackOK, WindowOK
<1>2. PICK i \in 0..Len(packets), Z \in Seq(Unit) : Place(i, Z)
  BY DEF MoldInv
<1> DEFINE golden == After(packets, Len(packets)).out
<1>3. Golden!Dump(packets) = golden
  BY <1>1, DumpIs DEF After
<1>4. ASSUME Idle PROVE log = golden
  <2>1. win = <<>> /\ wire = <<>>
    BY <1>4 DEF Idle
  <2>2. state = "HDR" /\ i = Len(packets)
    BY <1>1, <1>2, <2>1, AllBegun
  <2> QED BY <1>2, <2>2 DEF Place
<1>5. IsPrefix(log, golden)
  <2>1. PICK W \in Seq(LogLine) : golden = After(packets, i).out \o W
    BY <1>1, AfterGoesOn
  <2>2. PICK X \in Seq(LogLine) : After(packets, i).out = log \o X
    <3>1. <<>> \in Seq(LogLine) /\ log \o <<>> = log
      BY <1>1, EmptySeq, ConcatEmptySeq
    <3>2. CASE state # "EMIT"
      <4>1. After(packets, i).out = log \o <<>>
        BY <1>2, <3>1, <3>2 DEF Place
      <4> QED BY <3>1, <4>1
    <3>3. CASE state = "EMIT"
      <4> DEFINE p == packets[i]
      <4>1. 0 < i /\ msgs_left \in 1..p.count /\ After(packets, i).out = log \o LastLines(p, msgs_left)
        BY <1>2, <3>3 DEF Place
      <4>2. p \in Packet /\ p.count \in Nat
        <5>1. i \in 1..Len(packets)
          BY <1>1, <4>1
        <5>2. p \in Packet
          BY <1>1, <5>1, ElementOfSeq
        <5> QED BY <5>2 DEF Packet
      <4> HIDE DEF p
      <4>3. msgs_left \in 0..p.count
        BY <4>1, <4>2
      <4>4. LastLines(p, msgs_left) \in Seq(LogLine)
        BY <4>2, <4>3, LastLinesStep
      <4> QED BY <4>1, <4>4
    <3> QED BY <3>2, <3>3
  <2> HIDE DEF golden
  <2>3. golden = log \o (X \o W)
    <3>1. golden = (log \o X) \o W
      BY <2>1, <2>2
    <3>2. log \o (X \o W) = (log \o X) \o W
      BY <1>1, RejoinLines
    <3> QED BY <3>1, <3>2
  <2>4. X \o W \in Seq(LogLine)
    BY ConcatProperties
  <2> DEFINE y == X \o W
  <2>5. y \in Seq(LogLine) /\ golden = log \o y
    BY <2>3, <2>4
  <2> HIDE DEF y
  <2> QED BY <1>1, <2>5, PrefixOfConcat
<1> QED BY <1>3, <1>4, <1>5 DEF LogIsGolden

(* Line for line the splitter logs what dump_mold.py prints for the same   *)
(* packets, however long they are, whatever they repeat and leave out, and *)
(* at whatever pace the beats come.                                        *)
THEOREM SplitterLogsTheGolden == MoldSpec => []LogIsGolden
<1> QED BY MoldInvariant, LogsTheGolden, PTL

(* The window never overflows, and a front that wants more has room for    *)
(* the beat that brings it: mold_splitter.sv never blocks the line for     *)
(* good.                                                                   *)
THEOREM SplitterNeverBlocks == MoldSpec => []AlwaysRoom
<1>1. MoldInv => AlwaysRoom
  BY HasRoom DEF MoldInv
<1> QED BY <1>1, MoldInvariant, PTL

(* ---- what is counted of a log ----                                      *)
Sel(kind, s) == Fold(kind, s, Len(s))
Pairs(g) == [i \in 1..Len(g) |-> <<g[i].expected, g[i].seq - g[i].expected>>]
Msgs(s)  == Len(Sel("MSG", s))
Gaps(s)  == Pairs(Sel("GAP", s))

Tallied(s) == /\ s \in Seq(LogLine)
              /\ Sel("MSG", s) \in Seq(LogLine) /\ Sel("GAP", s) \in Seq(LogLine)

LEMMA SelAppend ==
    ASSUME NEW kind \in {"MSG", "GAP"}, NEW s \in Seq(LogLine), NEW l \in LogLine
    PROVE  Sel(kind, Append(s, l)) = IF l.line = kind THEN Append(Sel(kind, s), l) ELSE Sel(kind, s)
<1> DEFINE t == Append(s, l)
           N == Len(s)
<1>1. /\ t \in Seq(LogLine) /\ Len(t) = N + 1 /\ N \in Nat
      /\ \A i \in 1..N : t[i] = s[i]
      /\ t[N + 1] = l
  BY AppendProperties, LenProperties
<1> HIDE DEF t, N
<1>2. Fold(kind, t, N + 1) = Step(kind, t, Fold(kind, t, N), N + 1)
  BY <1>1, FoldUnfolds
<1>3. Fold(kind, t, N) = Fold(kind, s, N)
  <2>1. \A n \in 1..N : \A r : Step(kind, t, r, n) = Step(kind, s, r, n)
    BY <1>1 DEF Step
  <2> QED BY <1>1, <2>1, FoldSame
<1>4. \A r : Step(kind, t, r, N + 1) = IF l.line = kind THEN Append(r, l) ELSE r
  BY <1>1 DEF Step
<1>5. Fold(kind, t, Len(t)) = IF l.line = kind THEN Append(Fold(kind, s, N), l) ELSE Fold(kind, s, N)
  BY <1>1, <1>2, <1>3, <1>4
<1> QED BY <1>5 DEF Sel, t, N

LEMMA PairsAppend ==
    ASSUME NEW g \in Seq(LogLine), NEW l \in LogLine
    PROVE  /\ Pairs(g) \in Seq(Nat \X Int)
           /\ Pairs(Append(g, l)) = Append(Pairs(g), <<l.expected, l.seq - l.expected>>)
<1> DEFINE N == Len(g)
           t == Append(g, l)
           u == <<l.expected, l.seq - l.expected>>
<1>1. /\ t \in Seq(LogLine) /\ Len(t) = N + 1 /\ N \in Nat
      /\ \A i \in 1..N : t[i] = g[i] /\ g[i] \in LogLine
      /\ t[N + 1] = l
  BY AppendProperties, LenProperties, ElementOfSeq
<1>2. \A m \in LogLine : <<m.expected, m.seq - m.expected>> \in Nat \X Int
  BY DEF LogLine
<1>3. Pairs(g) \in Seq(Nat \X Int) /\ Len(Pairs(g)) = N
  BY <1>1, <1>2 DEF Pairs
<1>4. u \in Nat \X Int
  BY <1>2
<1> HIDE DEF t, N, u
<1> DEFINE w == Append(Pairs(g), u)
<1>5. /\ w \in Seq(Nat \X Int) /\ Len(w) = N + 1
      /\ \A i \in 1..N : w[i] = Pairs(g)[i]
      /\ w[N + 1] = u
  BY <1>3, <1>4, AppendProperties
<1> HIDE DEF w
<1>6. ASSUME NEW i \in 1..(N + 1) PROVE w[i] = <<t[i].expected, t[i].seq - t[i].expected>>
  <2>1. CASE i \in 1..N
    <3>1. Pairs(g)[i] = <<g[i].expected, g[i].seq - g[i].expected>>
      BY <2>1 DEF Pairs, N
    <3> QED BY <1>1, <1>5, <2>1, <3>1
  <2>2. CASE i = N + 1
    BY <1>1, <1>5, <2>2 DEF u
  <2> QED BY <1>1, <2>1, <2>2
<1>7. w = [i \in 1..(N + 1) |-> w[i]]
  BY <1>5, SeqDef
<1>8. Pairs(t) = w
  BY <1>1, <1>6, <1>7 DEF Pairs
<1> QED BY <1>3, <1>8 DEF t, u, w

LEMMA OneMoreLine ==
    ASSUME NEW s, Tallied(s), NEW l \in LogLine
    PROVE  /\ Tallied(Append(s, l)) /\ Msgs(s) \in Nat /\ Gaps(s) \in Seq(Nat \X Int)
           /\ Msgs(Append(s, l)) = IF l.line = "MSG" THEN Msgs(s) + 1 ELSE Msgs(s)
           /\ Gaps(Append(s, l)) = IF l.line = "GAP"
                THEN Append(Gaps(s), <<l.expected, l.seq - l.expected>>) ELSE Gaps(s)
<1> DEFINE a == Sel("MSG", s)
           b == Sel("GAP", s)
           t == Append(s, l)
<1>1. s \in Seq(LogLine) /\ a \in Seq(LogLine) /\ b \in Seq(LogLine)
  BY DEF Tallied
<1>2. /\ Sel("MSG", t) = IF l.line = "MSG" THEN Append(a, l) ELSE a
      /\ Sel("GAP", t) = IF l.line = "GAP" THEN Append(b, l) ELSE b
  BY <1>1, SelAppend
<1>3. Msgs(s) = Len(a) /\ Gaps(s) = Pairs(b) /\ Msgs(t) = Len(Sel("MSG", t)) /\ Gaps(t) = Pairs(Sel("GAP", t))
  BY DEF Msgs, Gaps
<1>4. t \in Seq(LogLine)
  BY <1>1, AppendProperties
<1>5. Tallied(t) <=> Sel("MSG", t) \in Seq(LogLine) /\ Sel("GAP", t) \in Seq(LogLine)
  BY <1>4 DEF Tallied
<1> HIDE DEF a, b, t
<1>6. /\ Append(a, l) \in Seq(LogLine) /\ Len(Append(a, l)) = Len(a) + 1 /\ Len(a) \in Nat
      /\ Append(b, l) \in Seq(LogLine)
  BY <1>1, AppendProperties, LenProperties
<1>7. /\ Pairs(b) \in Seq(Nat \X Int)
      /\ Pairs(Append(b, l)) = Append(Pairs(b), <<l.expected, l.seq - l.expected>>)
  BY <1>1, PairsAppend
<1>8. Tallied(t)
  BY <1>1, <1>2, <1>5, <1>6
<1>9. /\ Msgs(t) = IF l.line = "MSG" THEN Msgs(s) + 1 ELSE Msgs(s)
      /\ Gaps(t) = IF l.line = "GAP" THEN Append(Gaps(s), <<l.expected, l.seq - l.expected>>) ELSE Gaps(s)
  BY <1>2, <1>3, <1>6, <1>7
<1> QED BY <1>3, <1>6, <1>7, <1>8, <1>9 DEF t

LEMMA MessagesTallied ==
    ASSUME NEW s, Tallied(s), NEW p \in Packet
    PROVE  /\ Tallied(s \o Golden!Messages(p))
           /\ Msgs(s \o Golden!Messages(p)) = Msgs(s) + p.count
           /\ Gaps(s \o Golden!Messages(p)) = Gaps(s)
<1> DEFINE front(k) == [j \in 1..k |-> Golden!MSG(p.seq + j - 1)]
           good(k) == /\ Tallied(s \o front(k)) /\ Msgs(s \o front(k)) = Msgs(s) + k
                      /\ Gaps(s \o front(k)) = Gaps(s)
           bad == {k \in 0..p.count : ~good(k)}
<1>1. /\ p.seq \in Nat /\ p.count \in Nat /\ 1 <= p.seq /\ s \in Seq(LogLine) /\ Msgs(s) \in Nat
  BY LenProperties DEF Packet, Tallied, Msgs
<1>2. ASSUME NEW j \in Nat, 0 < j
      PROVE  /\ Golden!MSG(p.seq + j - 1) \in LogLine /\ Golden!MSG(p.seq + j - 1).line = "MSG"
  <2>1. p.seq + j - 1 \in Nat
    BY <1>1, <1>2
  <2> QED BY <2>1, LinesAreLines DEF Golden!MSG
<1>3. ASSUME NEW k \in Nat
      PROVE  /\ front(k) \in Seq(LogLine) /\ Len(front(k)) = k
             /\ \A j \in 1..k : front(k)[j] = Golden!MSG(p.seq + j - 1)
  BY <1>2
<1>4. good(0)
  <2>1. front(0) = <<>>
    BY <1>3, EmptySeq
  <2>2. s \o <<>> = s
    BY <1>1, ConcatEmptySeq
  <2> QED BY <1>1, <2>1, <2>2
<1>5. ASSUME NEW k \in Nat, good(k) PROVE good(k + 1)
  <2> DEFINE l == Golden!MSG(p.seq + k)
             f == front(k)
             g == front(k + 1)
  <2>1. l \in LogLine /\ l.line = "MSG"
    <3>1. p.seq + (k + 1) - 1 = p.seq + k
      BY <1>1
    <3> QED BY <1>2, <3>1
  <2>2. f \in Seq(LogLine) /\ Len(f) = k /\ g \in Seq(LogLine) /\ Len(g) = k + 1
    BY <1>3
  <2>3. \A j \in 1..k : g[j] = f[j]
    BY <1>3
  <2>4. g[k + 1] = l
    <3>1. p.seq + (k + 1) - 1 = p.seq + k /\ k + 1 \in 1..(k + 1)
      BY <1>1
    <3> QED BY <1>3, <3>1
  <2> HIDE DEF f, g, l
  <2>5. g = Append(f, l)
    <3>1. /\ Append(f, l) \in Seq(LogLine) /\ Len(Append(f, l)) = k + 1
          /\ \A j \in 1..k : Append(f, l)[j] = f[j]
          /\ Append(f, l)[k + 1] = l
      BY <2>1, <2>2, AppendProperties
    <3>2. \A j \in 1..(k + 1) : g[j] = Append(f, l)[j]
      <4> TAKE j \in 1..(k + 1)
      <4>1. j \in 1..k \/ j = k + 1
        OBVIOUS
      <4> QED BY <2>3, <2>4, <3>1, <4>1
    <3> QED BY <2>2, <3>1, <3>2, SeqEqual
  <2>6. s \o Append(f, l) = Append(s \o f, l)
    <3> DEFINE x == s \o f
    <3>1. /\ Append(f, l) = f \o <<l>> /\ <<l>> \in Seq(LogLine) /\ x \in Seq(LogLine)
      BY <1>1, <2>1, <2>2, AppendIsConcat, ConcatProperties
    <3>2. s \o (f \o <<l>>) = x \o <<l>>
      BY <1>1, <2>2, <3>1, RejoinLines
    <3> HIDE DEF x
    <3>3. Append(x, l) = x \o <<l>>
      BY <2>1, <3>1, AppendIsConcat
    <3> QED BY <3>1, <3>2, <3>3 DEF x
  <2> DEFINE x == s \o f
  <2>7. Tallied(x) /\ Msgs(x) = Msgs(s) + k /\ Gaps(x) = Gaps(s)
    BY <1>5 DEF f
  <2> HIDE DEF x
  <2>8. /\ Tallied(Append(x, l)) /\ Msgs(Append(x, l)) = Msgs(x) + 1 /\ Gaps(Append(x, l)) = Gaps(x)
    BY <2>1, <2>7, OneMoreLine
  <2>9. s \o g = Append(x, l)
    BY <2>5, <2>6 DEF x
  <2>10. Tallied(s \o g) /\ Msgs(s \o g) = Msgs(s) + (k + 1) /\ Gaps(s \o g) = Gaps(s)
    BY <1>1, <2>7, <2>8, <2>9
  <2> QED BY <2>10 DEF g
<1> HIDE DEF good
<1>6. ASSUME bad # {} PROVE FALSE
  <2>1. PICK j \in bad : \A k \in bad : j <= k
    <3>1. bad \in SUBSET Nat
      BY <1>1
    <3> HIDE DEF bad
    <3> QED BY <1>6, <3>1, LeastNat
  <2>2. j \in 0..p.count /\ ~good(j) /\ j # 0
    BY <1>4, <2>1
  <2>3. j - 1 \in Nat /\ (j - 1) + 1 = j /\ j - 1 \in 0..p.count /\ ~(j <= j - 1)
    BY <1>1, <2>2
  <2>4. good(j - 1)
    BY <2>1, <2>3
  <2>5. good((j - 1) + 1)
    BY <1>5, <2>3, <2>4
  <2> QED BY <2>2, <2>3, <2>5
<1>7. good(p.count)
  <2>1. p.count \in 0..p.count
    BY <1>1
  <2> QED BY <1>6, <2>1
<1>8. front(p.count) = Golden!Messages(p)
  BY <1>1 DEF Golden!Messages
<1> QED BY <1>7, <1>8 DEF good

(* The messages and the gap a packet adds to the log.                      *)
Got(x, p)    == IF IsData(p) /\ ~(p.seq < x) THEN p.count ELSE 0
Missed(x, p) == p.count # EOS_COUNT /\ p.seq > x

(* How many are missing in front of it.                                    *)
Gone(x, p)   == IF Missed(x, p) THEN p.seq - x ELSE 0

LEMMA ToldTallied ==
    ASSUME NEW s, Tallied(s), NEW x \in Nat, NEW p \in Packet
    PROVE  /\ Tallied(s \o Told(x, p))
           /\ Msgs(s \o Told(x, p)) = Msgs(s) + Got(x, p)
           /\ Gaps(s \o Told(x, p)) = IF Missed(x, p) THEN Append(Gaps(s), <<x, p.seq - x>>) ELSE Gaps(s)
<1>1. /\ p.seq \in Nat /\ p.count \in Nat /\ s \in Seq(LogLine) /\ Golden!Messages(p) \in Seq(LogLine)
      /\ <<>> \in Seq(LogLine) /\ EOS_COUNT # 0
  BY ToldType, Sizes DEF Tallied
<1>2. ASSUME NEW r, Tallied(r), NEW l \in LogLine, l.line \in {"HB", "EOS"}
      PROVE  Tallied(r \o <<l>>) /\ Msgs(r \o <<l>>) = Msgs(r) + 0 /\ Gaps(r \o <<l>>) = Gaps(r)
  <2>1. /\ Tallied(Append(r, l)) /\ Msgs(r) \in Nat
        /\ Msgs(Append(r, l)) = Msgs(r) /\ Gaps(Append(r, l)) = Gaps(r)
    BY <1>2, OneMoreLine
  <2>2. r \in Seq(LogLine)
    BY <1>2 DEF Tallied
  <2>3. Append(r, l) = r \o <<l>>
    BY <2>2, AppendIsConcat
  <2> QED BY <2>1, <2>3
<1>3. CASE p.count = EOS_COUNT
  <2> DEFINE l == Golden!EOS(p.seq)
  <2>1. l \in LogLine /\ l.line = "EOS"
    BY <1>1, LinesAreLines DEF Golden!EOS
  <2>2. Told(x, p) = <<l>> /\ Got(x, p) = 0 /\ ~Missed(x, p)
    BY <1>3 DEF Told, Got, Missed, IsData
  <2> HIDE DEF l
  <2>3. Tallied(s \o <<l>>) /\ Msgs(s \o <<l>>) = Msgs(s) + 0 /\ Gaps(s \o <<l>>) = Gaps(s)
    BY <1>2, <2>1
  <2> QED BY <2>2, <2>3
<1>4. CASE p.count # EOS_COUNT
  <2> DEFINE gap == IF p.seq > x THEN <<Golden!GAP(x, p.seq)>> ELSE <<>>
             rest == IF p.count = 0 THEN <<Golden!HB(p.seq)>>
                     ELSE IF p.seq < x THEN <<>> ELSE Golden!Messages(p)
             r == s \o gap
  <2>1. Told(x, p) = gap \o rest
    BY <1>4 DEF Told
  <2>2. /\ Tallied(r) /\ gap \in Seq(LogLine) /\ Msgs(r) = Msgs(s) /\ Msgs(s) \in Nat
        /\ Gaps(r) = IF Missed(x, p) THEN Append(Gaps(s), <<x, p.seq - x>>) ELSE Gaps(s)
    <3>1. CASE p.seq > x
      <4> DEFINE l == Golden!GAP(x, p.seq)
      <4>1. l \in LogLine /\ l.line = "GAP" /\ l.expected = x /\ l.seq = p.seq
        BY <1>1, LinesAreLines DEF Golden!GAP
      <4>2. gap = <<l>> /\ Missed(x, p)
        BY <1>4, <3>1 DEF Missed
      <4> HIDE DEF l
      <4>3. /\ Tallied(Append(s, l)) /\ Msgs(s) \in Nat /\ Msgs(Append(s, l)) = Msgs(s)
            /\ Gaps(Append(s, l)) = Append(Gaps(s), <<l.expected, l.seq - l.expected>>)
        BY <4>1, OneMoreLine
      <4>4. Append(s, l) = s \o <<l>>
        BY <1>1, <4>1, AppendIsConcat
      <4>5. <<l>> \in Seq(LogLine)
        BY <4>1
      <4> HIDE DEF gap
      <4> QED BY <4>1, <4>2, <4>3, <4>4, <4>5
    <3>2. CASE ~(p.seq > x)
      <4>1. gap = <<>> /\ ~Missed(x, p)
        BY <3>2 DEF Missed
      <4>2. r = s
        BY <1>1, <4>1, ConcatEmptySeq
      <4>3. Msgs(s) \in Nat
        BY LenProperties DEF Msgs, Tallied
      <4> HIDE DEF gap, r
      <4> QED BY <1>1, <4>1, <4>2, <4>3
    <3> QED BY <3>1, <3>2
  <2>3. /\ Tallied(r \o rest) /\ rest \in Seq(LogLine)
        /\ Msgs(r \o rest) = Msgs(r) + Got(x, p) /\ Gaps(r \o rest) = Gaps(r)
    <3> HIDE DEF r
    <3>1. CASE p.count = 0
      <4> DEFINE l == Golden!HB(p.seq)
      <4>1. l \in LogLine /\ l.line = "HB" /\ <<l>> \in Seq(LogLine)
        BY <1>1, LinesAreLines, ToldType DEF Golden!HB
      <4>2. rest = <<l>> /\ Got(x, p) = 0
        BY <3>1 DEF Got, IsData
      <4> HIDE DEF l, rest
      <4>3. Tallied(r \o <<l>>) /\ Msgs(r \o <<l>>) = Msgs(r) + 0 /\ Gaps(r \o <<l>>) = Gaps(r)
        BY <1>2, <2>2, <4>1
      <4> QED BY <4>1, <4>2, <4>3
    <3>2. CASE p.count # 0 /\ p.seq < x
      <4>1. rest = <<>> /\ Got(x, p) = 0
        BY <1>4, <3>2 DEF Got
      <4> HIDE DEF rest
      <4>2. r \o <<>> = r
        BY <2>2, ConcatEmptySeq DEF Tallied
      <4> QED BY <1>1, <2>2, <4>1, <4>2
    <3>3. CASE p.count # 0 /\ ~(p.seq < x)
      <4>1. rest = Golden!Messages(p) /\ Got(x, p) = p.count
        BY <1>4, <3>3 DEF Got, IsData
      <4> HIDE DEF rest
      <4>2. /\ Tallied(r \o Golden!Messages(p))
            /\ Msgs(r \o Golden!Messages(p)) = Msgs(r) + p.count
            /\ Gaps(r \o Golden!Messages(p)) = Gaps(r)
        BY <2>2, MessagesTallied
      <4> QED BY <1>1, <4>1, <4>2
    <3> QED BY <3>1, <3>2, <3>3
  <2> HIDE DEF gap, rest
  <2>4. s \o (gap \o rest) = r \o rest
    BY <1>1, <2>2, <2>3, RejoinLines
  <2> HIDE DEF r
  <2>5. s \o Told(x, p) = r \o rest
    BY <2>1, <2>4
  <2> QED BY <2>2, <2>3, <2>5
<1> QED BY <1>3, <1>4

(* ---- the writers' receivers ----                                        *)
Loose  == [expected : Nat, got : Nat, gaps : Seq(Nat \X Int), lost : Nat, dups : Nat, eos : BOOLEAN]
Tight  == [expected : Nat, got : Nat, ok : BOOLEAN, eos : BOOLEAN]

LEMMA LooseChanges ==
    ASSUME NEW r \in Loose, NEW x
    PROVE  /\ x = [r EXCEPT !.eos = TRUE] =>
                /\ x \in Loose /\ x.expected = r.expected /\ x.got = r.got
                /\ x.gaps = r.gaps /\ x.lost = r.lost /\ x.eos
           /\ x = [r EXCEPT !.dups = @ + 1] =>
                /\ x \in Loose /\ x.expected = r.expected /\ x.got = r.got
                /\ x.gaps = r.gaps /\ x.lost = r.lost /\ (x.eos <=> r.eos)
<1>1. ASSUME x = [r EXCEPT !.eos = TRUE]
      PROVE  /\ x \in Loose /\ x.expected = r.expected /\ x.got = r.got
             /\ x.gaps = r.gaps /\ x.lost = r.lost /\ x.eos
  BY <1>1 DEF Loose
<1>2. ASSUME x = [r EXCEPT !.dups = @ + 1]
      PROVE  /\ x \in Loose /\ x.expected = r.expected /\ x.got = r.got
             /\ x.gaps = r.gaps /\ x.lost = r.lost /\ (x.eos <=> r.eos)
  <2> DEFINE d == r.dups + 1
  <2>1. d \in Nat /\ x = [r EXCEPT !.dups = d]
    BY <1>2 DEF Loose
  <2> HIDE DEF d
  <2> QED BY <2>1 DEF Loose
<1> QED BY <1>1, <1>2

LEMMA ReceiveFacts ==
    ASSUME NEW r \in Loose, NEW p \in Packet, ~r.eos
    PROVE  /\ Receive(r, p) \in Loose
           /\ Receive(r, p).expected = Expects(r.expected, p)
           /\ Receive(r, p).got = r.got + Got(r.expected, p)
           /\ Receive(r, p).gaps = IF Missed(r.expected, p)
                THEN Append(r.gaps, <<r.expected, p.seq - r.expected>>) ELSE r.gaps
           /\ Receive(r, p).lost = r.lost + Gone(r.expected, p)
           /\ (Receive(r, p).eos <=> p.count = EOS_COUNT)
<1> DEFINE x == Receive(r, p)
           e == Expects(r.expected, p)
           n == Got(r.expected, p)
           u == <<r.expected, p.seq - r.expected>>
           g == IF Missed(r.expected, p) THEN Append(r.gaps, u) ELSE r.gaps
           v == Gone(r.expected, p)
           b == p.count = EOS_COUNT
<1>1. /\ p.seq \in Nat /\ p.count \in Nat /\ EOS_COUNT # 0
      /\ r.expected \in Nat /\ r.got \in Nat /\ r.dups \in Nat /\ r.lost \in Nat /\ ~r.eos
      /\ r.gaps \in Seq(Nat \X Int)
  BY Sizes DEF Packet, Loose
<1>2. u \in Nat \X Int
  BY <1>1
<1> HIDE DEF u, x
<1>3. Append(r.gaps, u) \in Seq(Nat \X Int)
  BY <1>1, <1>2, AppendProperties
<1>4. CASE p.count = EOS_COUNT
  <2>1. x = [r EXCEPT !.eos = TRUE]
    BY <1>1, <1>4 DEF Receive, x
  <2>2. g = r.gaps /\ n = 0 /\ e = r.expected /\ v = 0 /\ b
    BY <1>4 DEF Missed, Got, IsData, Expects, Gone
  <2> HIDE DEF g, n, e, v, b
  <2>3. /\ x \in Loose /\ x.expected = r.expected /\ x.got = r.got /\ x.gaps = r.gaps
        /\ x.lost = r.lost /\ x.eos
    BY <2>1, LooseChanges
  <2>4. x \in Loose /\ x.expected = e /\ x.got = r.got + n /\ x.gaps = g /\ x.lost = r.lost + v /\ (x.eos <=> b)
    BY <1>1, <2>2, <2>3
  <2> QED BY <2>4 DEF x, e, n, g, v, b, u
<1>5. CASE p.count # EOS_COUNT
  <2> DEFINE s == Noted(r, p)
  <2>1. ~b
    BY <1>5
  <2>2. /\ s \in Loose /\ s.got = r.got /\ ~s.eos /\ s.gaps = g /\ s.lost = r.lost + v
        /\ s.expected = IF p.seq > r.expected THEN p.seq ELSE r.expected
    <3>1. CASE p.seq > r.expected
      <4> DEFINE w == r.lost + (p.seq - r.expected)
      <4>1. s = [r EXCEPT !.expected = p.seq, !.gaps = Append(r.gaps, u), !.lost = w]
        BY <3>1 DEF Noted, Skips, u
      <4>2. g = Append(r.gaps, u) /\ w = r.lost + v /\ w \in Nat
        BY <1>1, <1>5, <3>1 DEF Missed, Gone
      <4> HIDE DEF g, s, v, w
      <4>3. /\ s \in Loose /\ s.expected = p.seq /\ s.got = r.got
            /\ s.gaps = Append(r.gaps, u) /\ s.lost = w /\ (s.eos <=> r.eos)
        <5> DEFINE h == Append(r.gaps, u)
                   k == p.seq
        <5>1. /\ h \in Seq(Nat \X Int) /\ k \in Nat /\ w \in Nat
              /\ s = [r EXCEPT !.expected = k, !.gaps = h, !.lost = w]
          BY <1>1, <1>3, <4>1, <4>2
        <5> HIDE DEF h, k
        <5>2. s \in Loose /\ s.expected = k /\ s.got = r.got /\ s.gaps = h /\ s.lost = w /\ (s.eos <=> r.eos)
          BY <5>1 DEF Loose
        <5> QED BY <5>2 DEF h, k
      <4>4. s.gaps = g /\ s.got = r.got /\ s.expected = p.seq /\ s.lost = r.lost + v
        BY <4>2, <4>3
      <4>5. ~s.eos
        BY <4>3
      <4> QED BY <3>1, <4>3, <4>4, <4>5
    <3>2. CASE ~(p.seq > r.expected)
      <4>1. s = r /\ g = r.gaps /\ v = 0
        BY <3>2 DEF Noted, Skips, Missed, Gone
      <4> HIDE DEF g, s, v
      <4> QED BY <1>1, <3>2, <4>1
    <3> QED BY <3>1, <3>2
  <2>3. x = IF p.count = 0 THEN s
            ELSE IF p.seq < s.expected THEN [s EXCEPT !.dups = @ + 1]
            ELSE [s EXCEPT !.got = @ + p.count, !.expected = p.seq + p.count]
    BY <1>1, <1>5 DEF Receive, x
  <2> HIDE DEF s, g, v, b
  <2>4. x \in Loose /\ x.expected = e /\ x.got = r.got + n /\ x.gaps = g /\ x.lost = r.lost + v /\ (x.eos <=> b)
    <3>1. CASE p.count = 0
      <4>1. n = 0 /\ e = s.expected
        BY <1>1, <1>5, <2>2, <3>1 DEF Got, IsData, Expects
      <4>2. x = s
        BY <2>3, <3>1
      <4> HIDE DEF n, e
      <4> QED BY <1>1, <2>1, <2>2, <4>1, <4>2
    <3>2. CASE p.count # 0 /\ p.seq < r.expected
      <4>1. n = 0 /\ e = r.expected /\ s.expected = r.expected
        BY <1>1, <1>5, <2>2, <3>2 DEF Got, IsData, Expects
      <4>2. x = [s EXCEPT !.dups = @ + 1]
        BY <2>3, <3>2, <4>1
      <4> HIDE DEF n, e
      <4>3. /\ x \in Loose /\ x.expected = s.expected /\ x.got = s.got
            /\ x.gaps = s.gaps /\ x.lost = s.lost /\ (x.eos <=> s.eos)
        BY <2>2, <4>2, LooseChanges
      <4> QED BY <1>1, <2>1, <2>2, <4>1, <4>3
    <3>3. CASE p.count # 0 /\ ~(p.seq < r.expected)
      <4>1. /\ n = p.count /\ e = p.seq + p.count /\ ~(p.seq < s.expected)
        BY <1>1, <1>5, <2>2, <3>3 DEF Got, IsData, Expects
      <4>2. /\ x = [s EXCEPT !.got = s.got + p.count, !.expected = p.seq + p.count]
            /\ s.got + p.count \in Nat /\ p.seq + p.count \in Nat
        BY <1>1, <2>2, <2>3, <3>3, <4>1
      <4> HIDE DEF n, e
      <4>3. /\ x \in Loose /\ x.expected = p.seq + p.count /\ x.got = s.got + p.count
            /\ x.gaps = s.gaps /\ x.lost = s.lost /\ (x.eos <=> s.eos)
        <5> DEFINE h == s.got + p.count
                   k == p.seq + p.count
        <5>1. h \in Nat /\ k \in Nat /\ x = [s EXCEPT !.got = h, !.expected = k]
          BY <4>2
        <5> HIDE DEF h, k
        <5>2. x \in Loose /\ x.expected = k /\ x.got = h /\ x.gaps = s.gaps /\ x.lost = s.lost /\ (x.eos <=> s.eos)
          BY <2>2, <5>1 DEF Loose
        <5> QED BY <5>2 DEF h, k
      <4>4. x.got = r.got + n /\ x.expected = e
        BY <2>2, <4>1, <4>3
      <4>5. x.gaps = g /\ x.lost = r.lost + v /\ (x.eos <=> b)
        BY <2>1, <2>2, <4>3
      <4> QED BY <4>3, <4>4, <4>5
    <3> QED BY <3>1, <3>2, <3>3
  <2> QED BY <2>4 DEF x, e, n, g, v, b, u
<1> QED BY <1>4, <1>5

LEMMA StrictFacts ==
    ASSUME NEW r \in Tight, NEW p \in Packet, ~r.eos, r.ok, p.seq = r.expected
    PROVE  /\ ReceiveStrictly(r, p) \in Tight /\ ReceiveStrictly(r, p).ok
           /\ (ReceiveStrictly(r, p).eos <=> p.count = EOS_COUNT)
           /\ ReceiveStrictly(r, p).got = r.got + (IF IsData(p) THEN p.count ELSE 0)
           /\ ReceiveStrictly(r, p).expected = r.expected + (IF IsData(p) THEN p.count ELSE 0)
<1> DEFINE x == ReceiveStrictly(r, p)
           n == IF IsData(p) THEN p.count ELSE 0
           b == p.count = EOS_COUNT
<1>1. /\ p.seq \in Nat /\ p.count \in Nat /\ EOS_COUNT # 0
      /\ r.expected \in Nat /\ r.got \in Nat
  BY Sizes DEF Packet, Tight
<1> HIDE DEF x
<1>2. CASE p.count = EOS_COUNT
  <2>1. x = [r EXCEPT !.eos = TRUE]
    BY <1>2 DEF ReceiveStrictly, x
  <2>2. n = 0 /\ b
    BY <1>2 DEF IsData
  <2> HIDE DEF n, b
  <2>3. x \in Tight /\ x.ok /\ x.eos /\ x.got = r.got /\ x.expected = r.expected
    BY <2>1 DEF Tight
  <2>4. x.got = r.got + n /\ x.expected = r.expected + n
    BY <1>1, <2>2, <2>3
  <2> QED BY <2>2, <2>3, <2>4 DEF x, n, b
<1>3. CASE p.count = 0
  <2>1. x = [r EXCEPT !.expected = r.expected]
    BY <1>1, <1>3 DEF ReceiveStrictly, x
  <2>2. n = 0 /\ ~b
    BY <1>1, <1>3 DEF IsData
  <2> HIDE DEF n, b
  <2>3. x \in Tight /\ x.ok /\ ~x.eos /\ x.got = r.got /\ x.expected = r.expected
    BY <2>1 DEF Tight
  <2>4. x.got = r.got + n /\ x.expected = r.expected + n
    BY <1>1, <2>2, <2>3
  <2> QED BY <2>2, <2>3, <2>4 DEF x, n, b
<1>4. CASE IsData(p)
  <2> DEFINE g == r.got + p.count
             e == r.expected + p.count
             k == r.ok /\ p.seq = r.expected
  <2>1. x = [r EXCEPT !.ok = k, !.got = g, !.expected = e]
    BY <1>4 DEF ReceiveStrictly, x, IsData
  <2>2. n = p.count /\ ~b
    BY <1>4 DEF IsData
  <2>3. g \in Nat /\ e \in Nat
    BY <1>1
  <2>4. k \in BOOLEAN /\ k
    OBVIOUS
  <2> HIDE DEF n, b, g, e, k
  <2>5. x \in Tight /\ x.got = g /\ x.expected = e
    BY <2>1, <2>3, <2>4 DEF Tight
  <2>6. x.ok = k /\ x.eos = r.eos
    BY <2>1 DEF Tight
  <2>7. x.got = r.got + n /\ x.expected = r.expected + n
    BY <2>2, <2>5 DEF g, e
  <2> QED BY <2>2, <2>4, <2>5, <2>6, <2>7 DEF x, n, b
<1> QED BY <1>2, <1>3, <1>4 DEF IsData

LEMMA OneMoreFold ==
    ASSUME NEW ps \in Seq(Packet), NEW p \in Packet
    PROVE  LET qs == Append(ps, p) IN
           /\ After(qs, Len(qs)) = Golden!Line(After(ps, Len(ps)), p)
           /\ Fold("loose", qs, Len(qs)) = Receive(Fold("loose", ps, Len(ps)), p)
           /\ Fold("strict", qs, Len(qs)) = ReceiveStrictly(Fold("strict", ps, Len(ps)), p)
<1> DEFINE qs == Append(ps, p)
           N == Len(ps)
<1>1. /\ qs \in Seq(Packet) /\ Len(qs) = N + 1 /\ N \in Nat
      /\ \A i \in 1..N : qs[i] = ps[i]
      /\ qs[N + 1] = p
  BY AppendProperties, LenProperties
<1> HIDE DEF qs, N
<1>2. ASSUME NEW kind \in {"dump", "loose", "strict"}
      PROVE  Fold(kind, qs, Len(qs)) = Step(kind, qs, Fold(kind, ps, N), N + 1)
  <2>1. \A n \in 1..N : \A r : Step(kind, qs, r, n) = Step(kind, ps, r, n)
    BY <1>1 DEF Step
  <2>2. Fold(kind, qs, N) = Fold(kind, ps, N)
    BY <1>1, <2>1, FoldSame
  <2>3. Fold(kind, qs, N + 1) = Step(kind, qs, Fold(kind, qs, N), N + 1)
    BY <1>1, FoldUnfolds
  <2> QED BY <1>1, <2>2, <2>3
<1>3. /\ \A r : Step("dump", qs, r, N + 1) = Golden!Line(r, p)
      /\ \A r : Step("loose", qs, r, N + 1) = Receive(r, p)
      /\ \A r : Step("strict", qs, r, N + 1) = ReceiveStrictly(r, p)
  BY <1>1 DEF Step
<1>4. /\ Fold("dump", qs, Len(qs)) = Golden!Line(Fold("dump", ps, N), p)
      /\ Fold("loose", qs, Len(qs)) = Receive(Fold("loose", ps, N), p)
      /\ Fold("strict", qs, Len(qs)) = ReceiveStrictly(Fold("strict", ps, N), p)
  BY <1>2, <1>3
<1> QED BY <1>4 DEF After, qs, N

(* mold_selfcheck has counted what the golden has printed.                 *)
Counted(ps) ==
    LET d == After(ps, Len(ps))
        l == Fold("loose", ps, Len(ps))
    IN  /\ Tallied(d.out) /\ d \in DumpState /\ l \in Loose
        /\ l.expected = d.expected /\ (l.eos <=> d.eos)
        /\ l.got = Msgs(d.out) /\ l.gaps = Gaps(d.out)

LEMMA CountedMore ==
    ASSUME NEW ps \in Seq(Packet), Counted(ps), NEW p \in Packet
    PROVE  Counted(Append(ps, p))
<1> DEFINE qs == Append(ps, p)
           d == After(ps, Len(ps))
           l == Fold("loose", ps, Len(ps))
           e == After(qs, Len(qs))
           m == Fold("loose", qs, Len(qs))
<1>1. /\ Tallied(d.out) /\ d \in DumpState /\ l \in Loose
      /\ l.expected = d.expected /\ (l.eos <=> d.eos)
      /\ l.got = Msgs(d.out) /\ l.gaps = Gaps(d.out)
  BY DEF Counted
<1>2. e = Golden!Line(d, p) /\ m = Receive(l, p)
  BY OneMoreFold
<1>3. SUFFICES /\ Tallied(e.out) /\ e \in DumpState /\ m \in Loose
               /\ m.expected = e.expected /\ (m.eos <=> e.eos)
               /\ m.got = Msgs(e.out) /\ m.gaps = Gaps(e.out)
  BY DEF Counted
<1> HIDE DEF qs, d, l, e, m
<1>4. CASE d.eos
  <2>1. e = d /\ m = l
    BY <1>1, <1>2, <1>4 DEF Golden!Line, Receive
  <2> QED BY <1>1, <2>1
<1>5. CASE ~d.eos
  <2> DEFINE x == d.expected
             o == d.out
             g == IF Missed(x, p) THEN Append(Gaps(o), <<x, p.seq - x>>) ELSE Gaps(o)
  <2>1. /\ e.out = o \o Told(x, p) /\ e.expected = Expects(x, p)
        /\ e \in DumpState
    BY <1>1, <1>2, <1>5, LineFacts
  <2>2. e.eos <=> p.count = EOS_COUNT
    BY <1>1, <1>2, <1>5, LineFacts
  <2>3. x \in Nat
    BY <1>1 DEF DumpState
  <2>4. /\ Tallied(o \o Told(x, p))
        /\ Msgs(o \o Told(x, p)) = Msgs(o) + Got(x, p)
        /\ Gaps(o \o Told(x, p)) = g
    BY <1>1, <2>3, ToldTallied
  <2>5. /\ Receive(l, p) \in Loose
        /\ Receive(l, p).expected = Expects(l.expected, p)
        /\ Receive(l, p).got = l.got + Got(l.expected, p)
        /\ Receive(l, p).gaps = IF Missed(l.expected, p)
             THEN Append(l.gaps, <<l.expected, p.seq - l.expected>>) ELSE l.gaps
        /\ (Receive(l, p).eos <=> p.count = EOS_COUNT)
    BY <1>1, <1>5, ReceiveFacts
  <2>6. m \in Loose /\ (m.eos <=> p.count = EOS_COUNT)
    BY <1>2, <2>5
  <2>7. m.expected = Expects(x, p) /\ m.got = Msgs(o) + Got(x, p)
    BY <1>1, <1>2, <2>5
  <2>8. m.gaps = g
    BY <1>1, <1>2, <2>5
  <2> HIDE DEF x, o, g
  <2>9. Tallied(e.out) /\ m.got = Msgs(e.out) /\ m.gaps = Gaps(e.out)
    BY <2>1, <2>4, <2>7, <2>8
  <2>10. m.eos <=> e.eos
    BY <2>2, <2>6
  <2> QED BY <2>1, <2>6, <2>7, <2>9, <2>10
<1> QED BY <1>4, <1>5

(* What itch2mold writes follows on, and runs to the last message.         *)
Wrapped ==
    LET r == Fold("strict", packets, Len(packets))
        l == Fold("loose", packets, Len(packets))
    IN  /\ r \in Tight /\ r.ok /\ r.expected = seq /\ r.got = seq - 1 /\ (r.eos <=> ended)
        /\ l.expected = seq /\ l.got = seq - 1 /\ (l.eos <=> ended)
        /\ ended => seq = NMsgs + 1

(* What mold_pack writes: the receiver has got or missed all up to the     *)
(* number it expects, which is the furthest any packet runs.               *)
Reach ==
    LET l == Fold("loose", packets, Len(packets))
    IN  /\ (l.eos <=> ended) /\ l.expected = 1 + l.got + l.lost /\ l.expected <= seq
        /\ l.expected \in Ends /\ \A x \in Ends : x <= l.expected
        /\ last_data # <<>> => \E i \in 1..Len(packets) : packets[i] = Head(last_data)
        /\ ended => seq = NMsgs + 1

ReceiversInv ==
    /\ PackOK /\ Counted(packets)
    /\ writer = "itch2mold" => Wrapped
    /\ writer = "mold_pack" => Reach

LEMMA WrapWrites ==
    ASSUME PackOK, PackNext, writer = "itch2mold"
    PROVE  \E p \in Packet :
             /\ packets' = Append(packets, p) /\ p.seq = seq /\ ~ended
             /\ seq' = seq + (IF IsData(p) THEN p.count ELSE 0)
             /\ ended' <=> p.count = EOS_COUNT
             /\ ended' => seq = NMsgs + 1
<1>1. Flush \/ WrapHb \/ WrapEos
  BY DEF PackNext, PlanData, PlanGap, PlanDup, PlanHb, PlanEos, Plan
<1>2. seq \in Nat /\ 1 <= seq /\ seq <= NMsgs + 1 /\ EOS_COUNT # 0 /\ NMsgs \in Nat /\ EOS_COUNT \in Nat
  BY Sizes DEF PackOK
<1>3. CASE WrapHb
  <2> DEFINE p == packet(seq, 0)
  <2>1. p \in Packet /\ p.seq = seq /\ p.count = 0 /\ ~IsData(p) /\ p.count # EOS_COUNT
    BY <1>2 DEF packet, Packet, IsData
  <2>2. packets' = Append(packets, p) /\ seq' = seq /\ ~ended /\ ended' = ended
    BY <1>3 DEF WrapHb, Wrap, Write
  <2> HIDE DEF p
  <2>3. seq' = seq + (IF IsData(p) THEN p.count ELSE 0)
    BY <1>2, <2>1, <2>2
  <2> QED BY <2>1, <2>2, <2>3
<1>4. CASE WrapEos
  <2> DEFINE p == packet(seq, EOS_COUNT)
  <2>1. p \in Packet /\ p.seq = seq /\ p.count = EOS_COUNT /\ ~IsData(p)
    BY <1>2 DEF packet, Packet, IsData
  <2>2. packets' = Append(packets, p) /\ seq' = seq /\ ~ended /\ ended'
    BY <1>4 DEF WrapEos, Wrap, Write
  <2>3. seq = NMsgs + 1
    BY <1>2, <1>4 DEF WrapEos, Left
  <2> HIDE DEF p
  <2>4. seq' = seq + (IF IsData(p) THEN p.count ELSE 0)
    BY <1>2, <2>1, <2>2
  <2> QED BY <2>1, <2>2, <2>3, <2>4
<1>5. CASE Flush
  <2> DEFINE n == IF Want <= Left THEN Want ELSE Left
             p == packet(seq, n)
  <2>1. Want \in Nat /\ 0 < Want
    <3>1. Len(PKT_PATTERN) \in Nat /\ 0 < Len(PKT_PATTERN)
      BY PackAssumption, EmptySeq, LenProperties
    <3>2. 1 + (pi % Len(PKT_PATTERN)) \in 1..Len(PKT_PATTERN)
      BY <3>1 DEF PackOK
    <3>3. PKT_PATTERN[1 + (pi % Len(PKT_PATTERN))] \in Nat \ {0}
      BY <3>2, PackAssumption, ElementOfSeq
    <3> QED BY <3>3 DEF Want
  <2>2. Left \in Nat /\ 0 < Left /\ Left = NMsgs + 1 - seq
    BY <1>2, <1>5 DEF Flush, Left
  <2>3. n \in Nat /\ 0 < n /\ seq + n - 1 <= NMsgs /\ n # EOS_COUNT
    BY <1>2, <2>1, <2>2, Sizes
  <2>4. packets' = Append(packets, p) /\ seq' = seq + n /\ ~ended /\ ended' = ended
    BY <1>5 DEF Flush, Wrap, Write
  <2> HIDE DEF n
  <2>5. p \in Packet /\ p.seq = seq /\ p.count = n /\ IsData(p) /\ p.count # EOS_COUNT
    BY <1>2, <2>3 DEF packet, Packet, IsData
  <2> HIDE DEF p
  <2>6. seq' = seq + (IF IsData(p) THEN p.count ELSE 0)
    BY <2>4, <2>5
  <2> QED BY <2>4, <2>5, <2>6
<1> QED BY <1>1, <1>3, <1>4, <1>5

LEMMA WrapKeeps ==
    ASSUME ReceiversInv, PackNext, writer = "itch2mold"
    PROVE  Wrapped'
<1> DEFINE r == Fold("strict", packets, Len(packets))
           l == Fold("loose", packets, Len(packets))
           q == Fold("strict", packets', Len(packets'))
           m == Fold("loose", packets', Len(packets'))
<1>1. PackOK /\ Counted(packets) /\ Wrapped /\ packets \in Seq(Packet)
  BY DEF ReceiversInv, PackOK
<1>2. PICK p \in Packet :
         /\ packets' = Append(packets, p) /\ p.seq = seq /\ ~ended
         /\ seq' = seq + (IF IsData(p) THEN p.count ELSE 0)
         /\ ended' <=> p.count = EOS_COUNT
         /\ ended' => seq = NMsgs + 1
  BY <1>1, WrapWrites
<1> DEFINE n == IF IsData(p) THEN p.count ELSE 0
<1>3. /\ r \in Tight /\ r.ok /\ r.expected = seq /\ r.got = seq - 1 /\ ~r.eos
      /\ l.expected = seq /\ l.got = seq - 1 /\ ~l.eos
  BY <1>1, <1>2 DEF Wrapped
<1>4. l \in Loose
  BY <1>1 DEF Counted
<1>5. q = ReceiveStrictly(r, p) /\ m = Receive(l, p)
  BY <1>1, <1>2, OneMoreFold
<1>6. /\ seq \in Nat /\ 1 <= seq /\ p.count \in Nat /\ EOS_COUNT # 0 /\ seq' = seq + n
  BY <1>1, <1>2, Sizes DEF PackOK, Packet
<1>7. Wrapped' <=>
        /\ q \in Tight /\ q.ok /\ q.expected = seq' /\ q.got = seq' - 1 /\ (q.eos <=> ended')
        /\ m.expected = seq' /\ m.got = seq' - 1 /\ (m.eos <=> ended')
        /\ ended' => seq' = NMsgs + 1
  BY DEF Wrapped
<1>8. n = 0 \/ (n = p.count /\ IsData(p))
  OBVIOUS
<1>9. n \in Nat
  BY <1>6
<1>10. p.count = EOS_COUNT => n = 0
  BY DEF IsData
<1>11. Expects(seq, p) = seq + n /\ Got(seq, p) = n
  BY <1>2, <1>6 DEF Expects, Got, IsData
<1> HIDE DEF r, l, q, m, n
<1>12. /\ q \in Tight /\ q.ok
       /\ (q.eos <=> p.count = EOS_COUNT)
       /\ q.got = r.got + n /\ q.expected = r.expected + n
  <2>1. p.seq = r.expected
    BY <1>2, <1>3
  <2>2. /\ ReceiveStrictly(r, p) \in Tight /\ ReceiveStrictly(r, p).ok
        /\ (ReceiveStrictly(r, p).eos <=> p.count = EOS_COUNT)
        /\ ReceiveStrictly(r, p).got = r.got + (IF IsData(p) THEN p.count ELSE 0)
        /\ ReceiveStrictly(r, p).expected = r.expected + (IF IsData(p) THEN p.count ELSE 0)
    BY <1>3, <2>1, StrictFacts
  <2> QED BY <1>5, <2>2 DEF n
<1>13. /\ m.expected = Expects(seq, p) /\ m.got = l.got + Got(seq, p)
       /\ (m.eos <=> p.count = EOS_COUNT)
  <2>1. /\ Receive(l, p).expected = Expects(l.expected, p)
        /\ Receive(l, p).got = l.got + Got(l.expected, p)
        /\ (Receive(l, p).eos <=> p.count = EOS_COUNT)
    BY <1>3, <1>4, ReceiveFacts
  <2> QED BY <1>3, <1>5, <2>1
<1>14. q.expected = seq' /\ m.expected = seq'
  BY <1>3, <1>6, <1>11, <1>12, <1>13
<1>15. q.got = seq' - 1 /\ m.got = seq' - 1
  BY <1>3, <1>6, <1>9, <1>11, <1>12, <1>13
<1>16. (q.eos <=> ended') /\ (m.eos <=> ended')
  BY <1>2, <1>12, <1>13
<1>17. ended' => seq' = NMsgs + 1
  BY <1>2, <1>6, <1>10
<1> QED BY <1>7, <1>12, <1>14, <1>15, <1>16, <1>17

LEMMA EndsAre ==
    ASSUME packets \in Seq(Packet)
    PROVE  Ends = {1} \cup {packets[i].seq + packets[i].count :
                             i \in {j \in 1..Len(packets) : packets[j].count # EOS_COUNT}}
<1>1. DOMAIN packets = 1..Len(packets)
  BY LenProperties
<1>2. Range(packets) = {packets[i] : i \in 1..Len(packets)}
  BY <1>1 DEF Range
<1> QED BY <1>2 DEF Ends

LEMMA EndsNat ==
    ASSUME packets \in Seq(Packet)
    PROVE  \A x \in Ends : x \in Nat
<1>1. \A i \in 1..Len(packets) : packets[i] \in Packet
  BY ElementOfSeq
<1>2. \A i \in 1..Len(packets) : packets[i].seq + packets[i].count \in Nat
  BY <1>1 DEF Packet
<1> QED BY <1>2, EndsAre

LEMMA EndsMore ==
    ASSUME packets \in Seq(Packet), NEW p \in Packet, packets' = Append(packets, p)
    PROVE  Ends' = IF p.count = EOS_COUNT THEN Ends ELSE Ends \cup {p.seq + p.count}
<1> DEFINE N == Len(packets)
           E(ps, M) == {ps[i].seq + ps[i].count :
                          i \in {j \in 1..M : ps[j].count # EOS_COUNT}}
<1>1. /\ packets' \in Seq(Packet) /\ Len(packets') = N + 1 /\ N \in Nat
      /\ \A i \in 1..N : packets'[i] = packets[i]
      /\ packets'[N + 1] = p
  BY AppendProperties, LenProperties
<1>2. Ends = {1} \cup E(packets, N)
  BY EndsAre
<1>3. Ends' = {1} \cup E(packets', N + 1)
  <2>1. Range(packets') = {packets'[i] : i \in 1..(N + 1)}
    BY <1>1, LenProperties DEF Range
  <2>2. \A x : x \in Ends' <=>
              \/ x = 1
              \/ \E q \in Range(packets') : q.count # EOS_COUNT /\ x = q.seq + q.count
    BY DEF Ends
  <2>3. \A x : x \in E(packets', N + 1) <=>
              \E i \in 1..(N + 1) : packets'[i].count # EOS_COUNT /\ x = packets'[i].seq + packets'[i].count
    OBVIOUS
  <2> HIDE DEF N
  <2>4. \A q : q \in Range(packets') <=> \E i \in 1..(N + 1) : q = packets'[i]
    BY <2>1
  <2> HIDE DEF E
  <2> DEFINE S == Ends'
             T == {1} \cup E(packets', N + 1)
  <2>5. \A x : x \in S <=> x \in T
    <3>1. ASSUME NEW x PROVE x \in S <=> x \in T
      <4>1. (\E q \in Range(packets') : q.count # EOS_COUNT /\ x = q.seq + q.count) <=>
              \E i \in 1..(N + 1) : packets'[i].count # EOS_COUNT /\ x = packets'[i].seq + packets'[i].count
        <5>1. ASSUME NEW q \in Range(packets'), q.count # EOS_COUNT, x = q.seq + q.count
              PROVE  \E i \in 1..(N + 1) : packets'[i].count # EOS_COUNT /\ x = packets'[i].seq + packets'[i].count
          <6>1. PICK i \in 1..(N + 1) : q = packets'[i]
            BY <2>4, <5>1
          <6>2. packets'[i].count # EOS_COUNT /\ x = packets'[i].seq + packets'[i].count
            BY <5>1, <6>1
          <6> QED BY <6>2
        <5>2. ASSUME NEW i \in 1..(N + 1), packets'[i].count # EOS_COUNT,
                     x = packets'[i].seq + packets'[i].count
              PROVE  \E q \in Range(packets') : q.count # EOS_COUNT /\ x = q.seq + q.count
          <6>1. packets'[i] \in Range(packets')
            BY <2>4
          <6> QED BY <5>2, <6>1
        <5> QED BY <5>1, <5>2
      <4>2. x \in S <=> x = 1 \/ x \in E(packets', N + 1)
        BY <2>2, <2>3, <4>1
      <4> QED BY <4>2
    <3> QED BY <3>1
  <2> HIDE DEF S, T
  <2>6. S = T
    BY <2>5
  <2> QED BY <2>6 DEF S, T
<1> HIDE DEF N
<1>4. E(packets', N + 1) = E(packets, N) \cup (IF p.count = EOS_COUNT THEN {} ELSE {p.seq + p.count})
  <2>1. 1..(N + 1) = (1..N) \cup {N + 1}
    BY <1>1
  <2>2. \A x : x \in E(packets', N + 1) <=>
              \E i \in 1..(N + 1) : packets'[i].count # EOS_COUNT /\ x = packets'[i].seq + packets'[i].count
    OBVIOUS
  <2>3. \A x : x \in E(packets, N) <=>
              \E i \in 1..N : packets[i].count # EOS_COUNT /\ x = packets[i].seq + packets[i].count
    OBVIOUS
  <2>4. \A x : x \in E(packets', N + 1) <=>
              \/ x \in E(packets, N)
              \/ p.count # EOS_COUNT /\ x = p.seq + p.count
    <3> HIDE DEF E
    <3> QED BY <1>1, <2>1, <2>2, <2>3
  <2> HIDE DEF E
  <2> QED BY <2>4
<1> HIDE DEF E
<1> QED BY <1>2, <1>3, <1>4

(* A step of mold_pack's plan.                                             *)
Planned(p) ==
    /\ packets' = Append(packets, p) /\ ~ended /\ (ended' <=> p.count = EOS_COUNT)
    /\ \/ p.count = EOS_COUNT /\ seq = NMsgs + 1 /\ UNCHANGED <<seq, last_data>>
       \/ p.count # EOS_COUNT /\ p.seq = seq /\ seq' = seq + p.count
          /\ last_data' \in {last_data, <<p>>}
       \/ IsData(p) /\ last_data = <<p>> /\ UNCHANGED <<seq, last_data>>

LEMMA PlanWrites ==
    ASSUME PackOK, PackNext, writer = "mold_pack"
    PROVE  \/ /\ UNCHANGED <<packets, last_data, ended>> /\ ~ended
              /\ seq' \in Nat /\ seq <= seq'
           \/ \E p \in Packet : Planned(p)
<1>1. (\E n \in 1..NMsgs : PlanData(n) \/ PlanGap(n)) \/ PlanDup \/ PlanHb \/ PlanEos
  BY DEF PackNext, Flush, WrapHb, WrapEos, Wrap
<1>2. seq \in Nat /\ 1 <= seq /\ seq <= NMsgs + 1 /\ EOS_COUNT # 0 /\ NMsgs \in Nat /\ EOS_COUNT \in Nat
  BY Sizes DEF PackOK
<1>3. ASSUME NEW n \in 1..NMsgs, PlanData(n) PROVE \E p \in Packet : Planned(p)
  <2> DEFINE p == packet(seq, n)
  <2>1. n \in Nat /\ 0 < n /\ n < EOS_COUNT /\ seq + n - 1 <= NMsgs
    BY <1>3, Sizes DEF PlanData
  <2>2. p \in Packet /\ p.seq = seq /\ p.count = n
    BY <1>2, <2>1 DEF packet, Packet, IsData
  <2>3. packets' = Append(packets, p) /\ last_data' = <<p>> /\ seq' = seq + n /\ ended' = ended /\ ~ended
    BY <1>3 DEF PlanData, Plan, Write
  <2> HIDE DEF p
  <2> QED BY <1>2, <2>1, <2>2, <2>3 DEF Planned
<1>4. ASSUME NEW n \in 1..NMsgs, PlanGap(n)
      PROVE  UNCHANGED <<packets, last_data, ended>> /\ ~ended /\ seq' \in Nat /\ seq <= seq'
  BY <1>2, <1>4 DEF PlanGap, Plan
<1>5. CASE PlanDup
  <2>1. PICK p \in Packet : IsData(p) /\ last_data = <<p>>
    BY <1>5 DEF PlanDup, PackOK
  <2>2. /\ packets' = Append(packets, p) /\ last_data' = last_data /\ seq' = seq
        /\ ended' = ended /\ ~ended
    BY <1>5, <2>1 DEF PlanDup, Plan, Write
  <2>3. p.count # EOS_COUNT
    BY <2>1 DEF IsData
  <2> QED BY <2>1, <2>2, <2>3 DEF Planned
<1>6. CASE PlanHb
  <2> DEFINE p == packet(seq, 0)
  <2>1. p \in Packet /\ p.seq = seq /\ p.count = 0
    BY <1>2 DEF packet, Packet, IsData
  <2>2. packets' = Append(packets, p) /\ last_data' = last_data /\ seq' = seq /\ ended' = ended /\ ~ended
    BY <1>6 DEF PlanHb, Plan, Write
  <2> HIDE DEF p
  <2>3. seq' = seq + p.count
    BY <1>2, <2>1, <2>2
  <2> QED BY <1>2, <2>1, <2>2, <2>3 DEF Planned
<1>7. CASE PlanEos
  <2> DEFINE p == packet(seq, EOS_COUNT)
  <2>1. p \in Packet /\ p.count = EOS_COUNT
    BY <1>2 DEF packet, Packet, IsData
  <2>2. /\ packets' = Append(packets, p) /\ last_data' = last_data /\ seq' = seq /\ ended' /\ ~ended
        /\ seq = NMsgs + 1
    BY <1>7 DEF PlanEos, Plan, Write
  <2> HIDE DEF p
  <2> QED BY <2>1, <2>2 DEF Planned
<1> QED BY <1>1, <1>3, <1>4, <1>5, <1>6, <1>7

LEMMA PlanKeeps ==
    ASSUME ReceiversInv, PackNext, writer = "mold_pack"
    PROVE  Reach'
<1> DEFINE l == Fold("loose", packets, Len(packets))
           m == Fold("loose", packets', Len(packets'))
<1>1. PackOK /\ Counted(packets) /\ Reach /\ packets \in Seq(Packet)
  BY DEF ReceiversInv, PackOK
<1>2. /\ seq \in Nat /\ l \in Loose
      /\ l.expected \in Nat /\ l.got \in Nat /\ l.lost \in Nat
  BY <1>1, Sizes DEF PackOK, Counted, Loose
<1>3. /\ (l.eos <=> ended) /\ l.expected = 1 + l.got + l.lost /\ l.expected <= seq
      /\ l.expected \in Ends /\ \A x \in Ends : x <= l.expected
      /\ last_data # <<>> => \E i \in 1..Len(packets) : packets[i] = Head(last_data)
      /\ ended => seq = NMsgs + 1
  BY <1>1 DEF Reach
<1>4. Reach' <=>
        /\ (m.eos <=> ended') /\ m.expected = 1 + m.got + m.lost /\ m.expected <= seq'
        /\ m.expected \in Ends' /\ \A x \in Ends' : x <= m.expected
        /\ last_data' # <<>> => \E i \in 1..Len(packets') : packets'[i] = Head(last_data')
        /\ ended' => seq' = NMsgs + 1
  BY DEF Reach
<1>5. CASE UNCHANGED <<packets, last_data, ended>> /\ ~ended /\ seq' \in Nat /\ seq <= seq'
  <2>1. m = l /\ Ends' = Ends
    BY <1>5 DEF Ends
  <2> HIDE DEF l, m
  <2>2. m.expected <= seq'
    BY <1>2, <1>3, <1>5, <2>1
  <2> QED BY <1>3, <1>4, <1>5, <2>1, <2>2
<1>6. ASSUME NEW p \in Packet, Planned(p) PROVE Reach'
  <2> DEFINE e == l.expected
  <2>1. /\ packets' = Append(packets, p) /\ ~ended /\ (ended' <=> p.count = EOS_COUNT)
        /\ p.seq \in Nat /\ p.count \in Nat /\ EOS_COUNT # 0
    BY <1>6, Sizes DEF Planned, Packet
  <2>2. m = Receive(l, p)
    BY <1>1, <2>1, OneMoreFold
  <2>3. Ends' = IF p.count = EOS_COUNT THEN Ends ELSE Ends \cup {p.seq + p.count}
    BY <1>1, <2>1, EndsMore
  <2>4. /\ Len(packets) \in Nat /\ Len(packets') = Len(packets) + 1
        /\ \A i \in 1..Len(packets) : packets'[i] = packets[i]
        /\ packets'[Len(packets) + 1] = p
    BY <1>1, <2>1, AppendProperties, LenProperties
  <2>5. last_data' # <<>> => \E i \in 1..Len(packets') : packets'[i] = Head(last_data')
    <3>1. ASSUME last_data' = last_data, last_data # <<>>
          PROVE  \E i \in 1..Len(packets') : packets'[i] = Head(last_data')
      <4>1. PICK i \in 1..Len(packets) : packets[i] = Head(last_data)
        BY <1>3, <3>1
      <4> QED BY <2>4, <3>1, <4>1
    <3>2. ASSUME last_data' = <<p>>
          PROVE  \E i \in 1..Len(packets') : packets'[i] = Head(last_data')
      BY <2>4, <3>2
    <3> QED BY <1>6, <3>1, <3>2 DEF Planned
  <2> HIDE DEF l, m
  <2>6. /\ m.expected = Expects(e, p) /\ m.got = l.got + Got(e, p)
        /\ m.lost = l.lost + Gone(e, p) /\ (m.eos <=> p.count = EOS_COUNT)
    <3>1. ~l.eos
      BY <1>3, <2>1
    <3> QED BY <1>2, <2>2, <3>1, ReceiveFacts
  <2>7. CASE p.count = EOS_COUNT
    <3>1. seq' = seq /\ seq = NMsgs + 1
      BY <1>6, <2>7 DEF Planned, IsData
    <3>2. Expects(e, p) = e /\ Got(e, p) = 0 /\ Gone(e, p) = 0
      BY <2>7 DEF Expects, Got, Gone, Missed, IsData
    <3>3. m.expected = l.expected /\ m.got = l.got /\ m.lost = l.lost /\ Ends' = Ends
      BY <1>2, <2>3, <2>6, <2>7, <3>2
    <3> QED BY <1>3, <1>4, <2>1, <2>5, <2>6, <3>1, <3>3
  <2>8. CASE p.count # EOS_COUNT /\ p.seq = seq /\ seq' = seq + p.count
    <3> DEFINE f == p.seq + p.count
    <3>1. f \in Nat /\ e <= f /\ e <= p.seq /\ f = seq'
      BY <1>2, <1>3, <2>1, <2>8
    <3>2. Expects(e, p) = f
      BY <1>2, <2>1, <2>8, <3>1 DEF Expects
    <3>3. Got(e, p) = p.count
      BY <1>2, <2>1, <2>8, <3>1 DEF Got, IsData
    <3>4. Gone(e, p) = p.seq - e
      BY <1>2, <2>1, <2>8, <3>1 DEF Gone, Missed
    <3>5. Ends' = Ends \cup {f}
      BY <2>3, <2>8
    <3>6. m.expected = f /\ m.got = l.got + p.count /\ m.lost = l.lost + (p.seq - e)
      BY <2>6, <3>2, <3>3, <3>4
    <3>7. m.expected = 1 + m.got + m.lost
      <4> DEFINE a == l.got
                 b == l.lost
      <4>1. e = 1 + a + b /\ a \in Nat /\ b \in Nat /\ e \in Nat
        BY <1>2, <1>3
      <4>2. m.expected = p.seq + p.count /\ m.got = a + p.count /\ m.lost = b + (p.seq - e)
        BY <3>6
      <4> HIDE DEF a, b, e
      <4> QED BY <2>1, <4>1, <4>2
    <3>8. \A x \in Ends' : x <= m.expected
      <4>1. \A x \in Ends : x \in Nat
        BY <1>1, EndsNat
      <4> HIDE DEF f
      <4> QED BY <1>2, <1>3, <3>1, <3>5, <3>6, <4>1
    <3>9. ~ended' /\ ~m.eos
      BY <2>1, <2>6, <2>8
    <3> HIDE DEF f
    <3> QED BY <1>4, <2>5, <3>1, <3>5, <3>6, <3>7, <3>8, <3>9
  <2>9. CASE IsData(p) /\ last_data = <<p>> /\ UNCHANGED <<seq, last_data>>
    <3>1. PICK i \in 1..Len(packets) : packets[i] = p
      BY <1>3, <2>9
    <3>2. p.count # EOS_COUNT /\ p.count # 0
      BY <2>9 DEF IsData
    <3>3. p.seq + p.count \in Ends
      BY <1>1, <3>1, <3>2, EndsAre
    <3>4. p.seq + p.count <= e /\ p.seq < e
      BY <1>2, <1>3, <2>1, <3>2, <3>3
    <3>5. Expects(e, p) = e /\ Got(e, p) = 0 /\ Gone(e, p) = 0
      BY <1>2, <2>1, <3>2, <3>4 DEF Expects, Got, Gone, Missed, IsData
    <3>6. m.expected = l.expected /\ m.got = l.got /\ m.lost = l.lost /\ Ends' = Ends
      BY <1>2, <2>3, <2>6, <3>3, <3>5
    <3>7. seq' = seq /\ ~ended' /\ ~m.eos
      BY <2>1, <2>6, <2>9, <3>2
    <3> QED BY <1>3, <1>4, <2>5, <3>6, <3>7
  <2> QED BY <1>6, <2>7, <2>8, <2>9 DEF Planned
<1> QED BY <1>1, <1>5, <1>6, PlanWrites

LEMMA ReceiversStart == MoldInit => ReceiversInv
<1> SUFFICES ASSUME MoldInit PROVE ReceiversInv
  OBVIOUS
<1>1. PackOK /\ packets = <<>> /\ Len(packets) = 0 /\ seq = 1 /\ ended = FALSE
  BY StartsRight DEF MoldInv, MoldInit, PackInit
<1>2. After(packets, 0) = Golden!Start /\ Fold("loose", packets, 0) = Received /\ Fold("strict", packets, 0) = Strict
  BY FoldUnfolds DEF After, First
<1>3. <<>> \in Seq(LogLine) /\ Len(<<>>) = 0 /\ <<>> \in Seq(Nat \X Int)
  BY EmptySeq
<1>4. Sel("MSG", <<>>) = <<>> /\ Sel("GAP", <<>>) = <<>>
  BY <1>3, FoldUnfolds DEF Sel, First
<1>5. Golden!Start \in DumpState /\ Golden!Start.out = <<>> /\ Golden!Start.expected = 1 /\ ~Golden!Start.eos
  BY <1>3 DEF Golden!Start, DumpState
<1>6. /\ Received \in Loose /\ Received.expected = 1 /\ Received.got = 0 /\ Received.gaps = <<>>
      /\ Received.lost = 0 /\ ~Received.eos
  BY <1>3 DEF Received, Loose
<1>7. Strict \in Tight /\ Strict.ok /\ Strict.expected = 1 /\ Strict.got = 0 /\ ~Strict.eos
  BY DEF Strict, Tight
<1>8. Msgs(<<>>) = 0 /\ Gaps(<<>>) = <<>> /\ Tallied(<<>>)
  <2>1. Pairs(<<>>) = <<>>
    BY <1>3 DEF Pairs
  <2> QED BY <1>3, <1>4, <2>1 DEF Msgs, Gaps, Tallied
<1>9. Counted(packets)
  BY <1>1, <1>2, <1>5, <1>6, <1>8 DEF Counted
<1>10. Wrapped
  BY <1>1, <1>2, <1>6, <1>7 DEF Wrapped
<1>11. Reach
  <2>1. Ends = {1}
    BY <1>1, EndsAre DEF PackOK
  <2>2. last_data = <<>>
    BY DEF MoldInit, PackInit
  <2> QED BY <1>1, <1>2, <1>6, <2>1, <2>2 DEF Reach
<1> QED BY <1>1, <1>9, <1>10, <1>11 DEF ReceiversInv

LEMMA ReceiversKeep == ReceiversInv /\ [MoldNext]_moldVars => ReceiversInv'
<1> SUFFICES ASSUME ReceiversInv, [MoldNext]_moldVars PROVE ReceiversInv'
  OBVIOUS
<1>1. CASE UNCHANGED packVars
  BY <1>1 DEF ReceiversInv, PackOK, Counted, Wrapped, Reach, Ends, packVars
<1>2. CASE Stream
  <2>1. PackOK /\ PackNext /\ packets \in Seq(Packet)
    BY <1>2 DEF ReceiversInv, PackOK, Stream
  <2>2. /\ PackOK'
        /\ \/ packets' = packets
           \/ ~ended /\ \E p \in Packet : packets' = Append(packets, p)
    BY <2>1, WritesPackets
  <2>3. Counted(packets')
    BY <2>1, <2>2, CountedMore DEF ReceiversInv
  <2>4. writer' = writer
    BY <2>1 DEF PackNext, PlanData, PlanGap, PlanDup, PlanHb, PlanEos, Plan, Flush, WrapHb, WrapEos, Wrap
  <2>5. (writer = "itch2mold" => Wrapped') /\ (writer = "mold_pack" => Reach')
    BY <2>1, WrapKeeps, PlanKeeps
  <2>6. Counted(packets)' <=> Counted(packets')
    BY DEF Counted
  <2> QED BY <2>2, <2>3, <2>4, <2>5, <2>6 DEF ReceiversInv
<1>3. ASSUME NEW offer \in BOOLEAN, SplitterCycle(offer) PROVE UNCHANGED packVars
  BY <1>3 DEF SplitterCycle
<1> QED BY <1>1, <1>2, <1>3 DEF MoldNext, moldVars

LEMMA ReceiversAre ==
    ASSUME Len(packets) \in Nat
    PROVE  /\ mold_selfcheck = Fold("loose", packets, Len(packets))
           /\ selfcheck = Fold("strict", packets, Len(packets))
<1> DEFINE N == Len(packets)
           g == CHOOSE after : after = [n \in 0..N |->
                   IF n = 0 THEN Received ELSE Receive(after[n - 1], packets[n])]
           h == CHOOSE after : after = [n \in 0..N |->
                   IF n = 0 THEN Strict ELSE ReceiveStrictly(after[n - 1], packets[n])]
<1>1. PICK f : Folds("loose", packets, N, f)
  BY FoldExists
<1>2. PICK k : Folds("strict", packets, N, k)
  BY FoldExists
<1>3. f = [n \in 0..N |-> IF n = 0 THEN Received ELSE Receive(f[n - 1], packets[n])]
  BY <1>1 DEF Folds, First, Step
<1>4. g = [n \in 0..N |-> IF n = 0 THEN Received ELSE Receive(g[n - 1], packets[n])]
  BY <1>3
<1>5. k = [n \in 0..N |-> IF n = 0 THEN Strict ELSE ReceiveStrictly(k[n - 1], packets[n])]
  BY <1>2 DEF Folds, First, Step
<1>6. h = [n \in 0..N |-> IF n = 0 THEN Strict ELSE ReceiveStrictly(h[n - 1], packets[n])]
  BY <1>5
<1>7. mold_selfcheck = g[N] /\ selfcheck = h[N]
  BY DEF mold_selfcheck, selfcheck
<1> HIDE DEF g, h
<1>8. Folds("loose", packets, N, g)
  BY <1>4 DEF Folds, First, Step
<1>9. Folds("strict", packets, N, h)
  BY <1>6 DEF Folds, First, Step
<1> QED BY <1>7, <1>8, <1>9, FoldOf

LEMMA LinesOfIs ==
    ASSUME NEW kind \in {"MSG", "GAP"}, Len(Golden!Dump(packets)) \in Nat
    PROVE  LinesOf(kind) = Sel(kind, Golden!Dump(packets))
<1> DEFINE s == Golden!Dump(packets)
           N == Len(s)
           g == CHOOSE of : of = [n \in 0..N |->
                   IF n = 0 THEN <<>>
                   ELSE IF s[n].line = kind THEN Append(of[n - 1], s[n]) ELSE of[n - 1]]
<1>0. LinesOf(kind) = g[N]
  BY DEF LinesOf
<1> HIDE DEF s
<1>1. PICK f : Folds(kind, s, N, f)
  BY FoldExists DEF s
<1>2. f = [n \in 0..N |-> IF n = 0 THEN <<>>
             ELSE IF s[n].line = kind THEN Append(f[n - 1], s[n]) ELSE f[n - 1]]
  BY <1>1 DEF Folds, First, Step
<1>3. g = [n \in 0..N |-> IF n = 0 THEN <<>>
             ELSE IF s[n].line = kind THEN Append(g[n - 1], s[n]) ELSE g[n - 1]]
  BY <1>2
<1> HIDE DEF g
<1>4. Folds(kind, s, N, g)
  BY <1>3 DEF Folds, First, Step
<1> HIDE DEF N
<1>5. N \in Nat
  BY DEF s, N
<1>6. g[N] = Fold(kind, s, N)
  BY <1>4, <1>5, FoldOf
<1> QED BY <1>0, <1>6 DEF Sel, s, N

LEMMA ReceiversDoAgree == ReceiversInv => ReceiversAgree
<1> SUFFICES ASSUME ReceiversInv PROVE ReceiversAgree
  OBVIOUS
<1>1. PackOK /\ Counted(packets) /\ Len(packets) \in Nat
  BY LenProperties DEF ReceiversInv, PackOK
<1> DEFINE o == After(packets, Len(packets)).out
           l == Fold("loose", packets, Len(packets))
           r == Fold("strict", packets, Len(packets))
<1>2. Golden!Dump(packets) = o /\ mold_selfcheck = l /\ selfcheck = r
  BY <1>1, DumpIs, ReceiversAre DEF After
<1>3. Tallied(o) /\ l.got = Msgs(o) /\ l.gaps = Gaps(o)
  BY <1>1 DEF Counted
<1>4. writer = "itch2mold" => r.ok /\ (ended => r.got = NMsgs /\ l.got = NMsgs)
  <2>1. ASSUME writer = "itch2mold" PROVE r.ok /\ (ended => r.got = NMsgs /\ l.got = NMsgs)
    <3>1. r.ok /\ r.got = seq - 1 /\ l.got = seq - 1
      BY <2>1 DEF ReceiversInv, Wrapped
    <3>2. ended => seq = NMsgs + 1
      BY <2>1 DEF ReceiversInv, Wrapped
    <3> QED BY <3>1, <3>2, Sizes
  <2> QED BY <2>1
<1>5. ASSUME writer = "mold_pack", ended PROVE l.got + l.lost = NMsgs <=> NMsgs + 1 \in Ends
  <2>1. /\ l.expected = 1 + l.got + l.lost /\ l.expected <= NMsgs + 1
        /\ l.expected \in Ends /\ \A x \in Ends : x <= l.expected
    BY <1>5 DEF ReceiversInv, Reach
  <2>2. l.expected \in Nat /\ l.got \in Nat /\ l.lost \in Nat /\ NMsgs \in Nat
    BY <1>1, Sizes DEF Counted, Loose
  <2> HIDE DEF l
  <2> QED BY <2>1, <2>2
<1> HIDE DEF o, l, r
<1>6. writer = "mold_pack" /\ ended => (Accounted <=> NMsgs + 1 \in Ends)
  BY <1>2, <1>5 DEF Accounted
<1>7. Len(Golden!Dump(packets)) \in Nat
  BY <1>2, <1>3, LenProperties DEF Tallied
<1>8. LinesOf("MSG") = Sel("MSG", o) /\ LinesOf("GAP") = Sel("GAP", o)
  BY <1>2, <1>7, LinesOfIs
<1>9. mold_selfcheck.got = Len(LinesOf("MSG"))
  BY <1>2, <1>3, <1>8 DEF Msgs
<1>10. mold_selfcheck.gaps = Pairs(LinesOf("GAP"))
  BY <1>2, <1>3, <1>8 DEF Gaps
<1>11. writer = "itch2mold" => selfcheck.ok /\ (ended => selfcheck.got = NMsgs /\ Len(LinesOf("MSG")) = NMsgs)
  BY <1>2, <1>4, <1>9
<1> QED BY <1>6, <1>9, <1>10, <1>11 DEF ReceiversAgree, Pairs

(* The receivers with which gen_itch.py and itch2mold.py check what they   *)
(* wrote count what dump_mold.py prints, message for message and gap for   *)
(* gap; gen_itch.py keeps the stream it has written exactly if some packet *)
(* runs up to its end, and refuses it where the last messages were lost    *)
(* with nothing after them but the end of the session; and itch2mold.py    *)
(* leaves out and repeats nothing.                                         *)
THEOREM WritersReceiversAgree == MoldSpec => []ReceiversAgree
<1> QED BY ReceiversStart, ReceiversKeep, ReceiversDoAgree, PTL DEF MoldSpec
=============================================================================
