--------------------------- MODULE FeedPath_proof ---------------------------
(***************************************************************************)
(* Proof that both elastic FIFOs of the feed keep the promise of LossyFifo *)
(* where they stand, between the two lines and the arbiter's handshake,    *)
(* and that the arbiter makes one stream of whole packets in order of what *)
(* they hold: the beats of a line follow one another from the arbiter's    *)
(* output through the FIFO to the line, and the arbiter is at the start of *)
(* a packet on every line it is not in the middle of.  And that what it    *)
(* goes past and never forwards was lost on both lines: its patience is    *)
(* set against the cycles a packet lags on the later line.                 *)
(***************************************************************************)
EXTENDS FeedPath, SequenceTheorems, WellFoundedInduction, TLAPS

(* What DropFifo_proof shows of one FIFO, of the two that stand here.      *)
AP == INSTANCE DropFifo_proof WITH
       Word <- Beats, Depth <- FifoDepth, DropMod <- FifoDropMod,
       mem <- amem, wptr <- awptr, rptr <- arptr, head <- ahead, dropCnt <- adrop,
       levelMax <- amax, given <- agiven, taken <- ataken
BP == INSTANCE DropFifo_proof WITH
       Word <- Beats, Depth <- FifoDepth, DropMod <- FifoDropMod,
       mem <- bmem, wptr <- bwptr, rptr <- brptr, head <- bhead, dropCnt <- bdrop,
       levelMax <- bmax, given <- bgiven, taken <- btaken

LEMMA LineAFifo == A!DropSpec => A!ImplementsLossyFifo
<1>1. AP!DropConstants
  BY FifoAssumption DEF AP!DropConstants, A!DropConstants
<1>2. AP!DropSpec => AP!ImplementsLossyFifo
  BY <1>1, AP!ElasticFifoIsLossyFifo
<1> QED
  BY <1>2, PTL
  DEF
      AP!DropSpec, A!DropSpec, AP!DropInit, A!DropInit, AP!DropNext, A!DropNext,
      AP!fifoVars, A!fifoVars, AP!DropTick, A!DropTick, AP!PtrMod, A!PtrMod,
      AP!Address, A!Address, AP!Unread, A!Unread, AP!MemCount, A!MemCount,
      AP!Level, A!Level, AP!NextPtr, A!NextPtr, AP!Full, A!Full, AP!Fetch,
      A!Fetch, AP!Stored, A!Stored, AP!ImplementsLossyFifo,
      A!ImplementsLossyFifo, AP!Abstract!Spec, A!Abstract!Spec,
      AP!Abstract!Init, A!Abstract!Init, AP!Abstract!Next, A!Abstract!Next,
      AP!Abstract!Step, A!Abstract!Step, AP!Abstract!vars, A!Abstract!vars

LEMMA LineBFifo == B!DropSpec => B!ImplementsLossyFifo
<1>1. BP!DropConstants
  BY FifoAssumption DEF BP!DropConstants, B!DropConstants, A!DropConstants
<1>2. BP!DropSpec => BP!ImplementsLossyFifo
  BY <1>1, BP!ElasticFifoIsLossyFifo
<1> QED
  BY <1>2, PTL
  DEF
      BP!DropSpec, B!DropSpec, BP!DropInit, B!DropInit, BP!DropNext, B!DropNext,
      BP!fifoVars, B!fifoVars, BP!DropTick, B!DropTick, BP!PtrMod, B!PtrMod,
      BP!Address, B!Address, BP!Unread, B!Unread, BP!MemCount, B!MemCount,
      BP!Level, B!Level, BP!NextPtr, B!NextPtr, BP!Full, B!Full, BP!Fetch,
      B!Fetch, BP!Stored, B!Stored, BP!ImplementsLossyFifo,
      B!ImplementsLossyFifo, BP!Abstract!Spec, B!Abstract!Spec,
      BP!Abstract!Init, B!Abstract!Init, BP!Abstract!Next, B!Abstract!Next,
      BP!Abstract!Step, B!Abstract!Step, BP!Abstract!vars, B!Abstract!vars
-----------------------------------------------------------------------------
(* A line stands at a packet and a part of it that exists, or behind the   *)
(* last packet.                                                            *)
PosInv ==
    /\ pos \in [Line -> [pkt : Nat, part : Nat]]
    /\ \A l \in Line : pos[l].pkt \in Packet => pos[l].part \in 1..Feed[pos[l].pkt].beats

LEMMA PacketFacts ==
    /\ Packet \subseteq Nat
    /\ \A n \in Packet : Feed[n].beats \in Nat \ {0}
<1>1. Feed \in Seq([seq : Nat, cnt : Nat, beats : Nat \ {0}])
  BY FeedAssumption
<1>2. Packet = 1..Len(Feed) /\ Len(Feed) \in Nat
  BY <1>1, LenProperties DEF Packet
<1>3. \A n \in Packet : Feed[n] \in [seq : Nat, cnt : Nat, beats : Nat \ {0}]
  <2> DEFINE S == [seq : Nat, cnt : Nat, beats : Nat \ {0}]
  <2>1. Feed \in Seq(S)
    BY <1>1
  <2> HIDE DEF S
  <2>2. \A n \in 1..Len(Feed) : Feed[n] \in S
    BY <2>1, ElementOfSeq
  <2> QED BY <1>2, <2>2 DEF S
<1> QED BY <1>2, <1>3

LEMMA InitPos == Init => PosInv
<1> SUFFICES ASSUME Init PROVE PosInv
  OBVIOUS
<1>1. pos = [l \in Line |-> [pkt |-> 1, part |-> 1]]
  BY DEF Init
<1>2. \A n \in Packet : 1 \in 1..Feed[n].beats
  BY PacketFacts
<1> QED BY <1>1, <1>2 DEF PosInv

Event == [Line -> {"none", "lose", "beat"}]

LEMMA LinesKeepPos ==
    ASSUME PosInv, NEW event \in Event, Lines(event)
    PROVE  /\ PosInv'
           /\ \A l \in Line : Pushed(l, event[l]) \in {<<>>} \cup {<<x>> : x \in Beats}
<1>1. ASSUME NEW l \in Line
      PROVE  /\ pos'[l] \in [pkt : Nat, part : Nat]
             /\ pos'[l].pkt \in Packet => pos'[l].part \in 1..Feed[pos'[l].pkt].beats
             /\ Pushed(l, event[l]) \in {<<>>} \cup {<<x>> : x \in Beats}
  <2>1. /\ pos[l] \in [pkt : Nat, part : Nat]
        /\ pos[l].pkt \in Packet => pos[l].part \in 1..Feed[pos[l].pkt].beats
        /\ pos'[l] = Carry(l, event[l])
        /\ event[l] # "none" => pos[l].pkt \in Packet
        /\ event[l] \in {"none", "lose", "beat"}
    BY DEF PosInv, Lines, Event
  <2>2. CASE event[l] = "none"
    BY <2>1, <2>2 DEF Carry, Pushed
  <2>3. CASE event[l] = "lose"
    <3>1. pos'[l] = [pkt |-> pos[l].pkt + 1, part |-> 1]
      BY <2>1, <2>3 DEF Carry
    <3> QED BY <2>1, <2>3, <3>1, PacketFacts DEF Pushed
  <2>4. CASE event[l] = "beat"
    <3>1. /\ pos[l].pkt \in Packet /\ Feed[pos[l].pkt].beats \in Nat
          /\ pos[l].part \in 1..Feed[pos[l].pkt].beats
      BY <2>1, <2>4, PacketFacts
    <3>2. Pushed(l, event[l]) \in {<<>>} \cup {<<x>> : x \in Beats}
      BY <2>4, <3>1 DEF Pushed, Beats
    <3>3. CASE pos[l].part = Feed[pos[l].pkt].beats
      <4>1. pos'[l] = [pkt |-> pos[l].pkt + 1, part |-> 1]
        BY <2>1, <2>4, <3>3 DEF Carry
      <4> QED BY <2>1, <3>2, <4>1, PacketFacts
    <3>4. CASE pos[l].part # Feed[pos[l].pkt].beats
      <4>1. pos'[l] = [pos[l] EXCEPT !.part = @ + 1]
        BY <2>1, <2>4, <3>4 DEF Carry
      <4>2. pos'[l].pkt = pos[l].pkt /\ pos'[l].part = pos[l].part + 1
        BY <2>1, <4>1
      <4> QED BY <2>1, <3>1, <3>2, <3>4, <4>1, <4>2
    <3> QED BY <3>3, <3>4
  <2> QED BY <2>1, <2>2, <2>3, <2>4
<1>2. pos' = [l \in Line |-> Carry(l, event[l])]
  BY DEF Lines
<1> QED BY <1>1, <1>2 DEF PosInv

(* Whatever the lines lose and whenever the arbiter takes a beat, each     *)
(* FIFO is stepped as drop_fifo.sv is: it is pushed beats of the feed and  *)
(* read by the arbiter's ready.  So it hands over what it accepted, once,  *)
(* in order, and counts what it refuses (t2t_top.sv's u_afifo, u_bfifo).   *)
THEOREM BothLinesAreLossyFifos == Spec => LinesAreLossyFifos
<1>1. Init => PosInv
  BY InitPos
<1>2. PosInv /\ [Next]_vars => PosInv' /\ [A!DropNext]_(A!fifoVars) /\ [B!DropNext]_(B!fifoVars)
  <2> SUFFICES ASSUME PosInv, [Next]_vars
               PROVE  PosInv' /\ [A!DropNext]_(A!fifoVars) /\ [B!DropNext]_(B!fifoVars)
    OBVIOUS
  <2>1. CASE Next
    <3>1. PICK event \in Event : Tick(event)
      BY <2>1 DEF Next, Event
    <3>2. /\ PosInv'
          /\ \A l \in Line : Pushed(l, event[l]) \in {<<>>} \cup {<<x>> : x \in Beats}
      BY <3>1, LinesKeepPos DEF Tick
    <3>3. /\ A!DropTick(Pushed("A", event["A"]), "A" \in Served(Heads))
          /\ B!DropTick(Pushed("B", event["B"]), "B" \in Served(Heads))
      BY <3>1 DEF Tick
    <3>4. /\ "A" \in Line /\ "B" \in Line
          /\ ("A" \in Served(Heads)) \in BOOLEAN /\ ("B" \in Served(Heads)) \in BOOLEAN
      BY DEF Line
    <3> QED BY <3>2, <3>3, <3>4 DEF A!DropNext, B!DropNext
  <2>2. CASE UNCHANGED vars
    BY <2>2 DEF vars, envVars, afifo, bfifo, PosInv, A!fifoVars, B!fifoVars
  <2> QED BY <2>1, <2>2
<1>3. Init => A!DropInit /\ B!DropInit
  BY DEF Init
<1>4. Spec => A!DropSpec /\ B!DropSpec
  BY <1>1, <1>2, <1>3, PTL DEF Spec, A!DropSpec, B!DropSpec
<1> QED BY <1>4, LineAFifo, LineBFifo, PTL DEF LinesAreLossyFifos
-----------------------------------------------------------------------------
(* One clock of a line's FIFO, as DropFifo_proof has it.                   *)
OfferOf == {<<>>} \cup {<<x>> : x \in Beats}

LEMMA LineAMoves ==
    ASSUME AP!DropInv, NEW push \in OfferOf, NEW ready \in BOOLEAN, A!DropTick(push, ready)
    PROVE  /\ AP!DropInv'
           /\ A!Stored \in Seq(Beats)
           /\ ahead # <<>> => A!Stored # <<>> /\ ahead = <<A!Stored[1]>>
           /\ LET kept == IF ready /\ ahead # <<>> THEN Tail(A!Stored) ELSE A!Stored IN
              /\ ahead' = IF kept = <<>> THEN <<>> ELSE <<kept[1]>>
              /\ \/ /\ adrop' = adrop
                    /\ A!Stored' = IF push # <<>> THEN Append(kept, push[1]) ELSE kept
                 \/ push # <<>> /\ adrop' = (adrop + 1) % FifoDropMod
<1>1. AP!DropConstants
  BY FifoAssumption DEF AP!DropConstants, A!DropConstants
<1>2. push \in AP!Offer
  BY DEF OfferOf, AP!Offer
<1>3. AP!DropTick(push, ready)
  BY DEF AP!DropTick, A!DropTick, AP!Full, A!Full, AP!Fetch, A!Fetch,
         AP!NextPtr, A!NextPtr, AP!PtrMod, A!PtrMod, AP!Address, A!Address,
         AP!MemCount, A!MemCount, AP!Level, A!Level
<1>4. AP!DropInv'
  BY <1>1, <1>2, <1>3, AP!DropNextInv
<1>5. /\ AP!Stored \in Seq(Beats)
      /\ ahead # <<>> => AP!Stored # <<>> /\ ahead = <<AP!Stored[1]>>
      /\ LET kept == IF ready /\ ahead # <<>> THEN Tail(AP!Stored) ELSE AP!Stored IN
         /\ AP!Stored' = IF push # <<>> /\ ~AP!Full THEN Append(kept, push[1]) ELSE kept
         /\ ahead' = IF kept = <<>> THEN <<>> ELSE <<kept[1]>>
      /\ adrop' = IF push # <<>> /\ AP!Full THEN (adrop + 1) % FifoDropMod ELSE adrop
  BY <1>1, <1>2, <1>3, AP!StoredMoves
<1>6. AP!Stored = A!Stored /\ AP!Stored' = A!Stored'
  BY DEF AP!Stored, A!Stored, AP!MemCount, A!MemCount, AP!Address, A!Address, AP!PtrMod, A!PtrMod
<1> QED BY <1>4, <1>5, <1>6

LEMMA LineBMoves ==
    ASSUME BP!DropInv, NEW push \in OfferOf, NEW ready \in BOOLEAN, B!DropTick(push, ready)
    PROVE  /\ BP!DropInv'
           /\ B!Stored \in Seq(Beats)
           /\ bhead # <<>> => B!Stored # <<>> /\ bhead = <<B!Stored[1]>>
           /\ LET kept == IF ready /\ bhead # <<>> THEN Tail(B!Stored) ELSE B!Stored IN
              /\ bhead' = IF kept = <<>> THEN <<>> ELSE <<kept[1]>>
              /\ \/ /\ bdrop' = bdrop
                    /\ B!Stored' = IF push # <<>> THEN Append(kept, push[1]) ELSE kept
                 \/ push # <<>> /\ bdrop' = (bdrop + 1) % FifoDropMod
<1>1. BP!DropConstants
  BY FifoAssumption DEF BP!DropConstants, A!DropConstants
<1>2. push \in BP!Offer
  BY DEF OfferOf, BP!Offer
<1>3. BP!DropTick(push, ready)
  BY DEF BP!DropTick, B!DropTick, BP!Full, B!Full, BP!Fetch, B!Fetch,
         BP!NextPtr, B!NextPtr, BP!PtrMod, B!PtrMod, BP!Address, B!Address,
         BP!MemCount, B!MemCount, BP!Level, B!Level
<1>4. BP!DropInv'
  BY <1>1, <1>2, <1>3, BP!DropNextInv
<1>5. /\ BP!Stored \in Seq(Beats)
      /\ bhead # <<>> => BP!Stored # <<>> /\ bhead = <<BP!Stored[1]>>
      /\ LET kept == IF ready /\ bhead # <<>> THEN Tail(BP!Stored) ELSE BP!Stored IN
         /\ BP!Stored' = IF push # <<>> /\ ~BP!Full THEN Append(kept, push[1]) ELSE kept
         /\ bhead' = IF kept = <<>> THEN <<>> ELSE <<kept[1]>>
      /\ bdrop' = IF push # <<>> /\ BP!Full THEN (bdrop + 1) % FifoDropMod ELSE bdrop
  BY <1>1, <1>2, <1>3, BP!StoredMoves
<1>6. BP!Stored = B!Stored /\ BP!Stored' = B!Stored'
  BY DEF BP!Stored, B!Stored, BP!MemCount, B!MemCount, BP!Address, B!Address, BP!PtrMod, B!PtrMod
<1> QED BY <1>4, <1>5, <1>6

(* What waits behind either head, and what the arbiter takes of it.        *)
Queue(l)   == IF l = "A" THEN A!Stored ELSE B!Stored
Dropped(l) == IF l = "A" THEN adrop ELSE bdrop
Taken(l)   == l \in Served(Heads) /\ Heads[l] # <<>>
Kept(l)    == IF Taken(l) THEN Tail(Queue(l)) ELSE Queue(l)
Carried(l) == Beat(pos[l].pkt, pos[l].part)
FifosInv   == AP!DropInv /\ BP!DropInv

LEMMA QueuesMove ==
    ASSUME FifosInv, PosInv, NEW event \in Event, Tick(event), NEW l \in Line
    PROVE  /\ FifosInv'
           /\ Queue(l) \in Seq(Beats)
           /\ Heads[l] # <<>> => Queue(l) # <<>> /\ Heads[l] = <<Queue(l)[1]>>
           /\ Heads'[l] = IF Kept(l) = <<>> THEN <<>> ELSE <<Kept(l)[1]>>
           /\ \/ /\ Dropped(l)' = Dropped(l)
                 /\ Queue(l)' = IF event[l] = "beat" THEN Append(Kept(l), Carried(l)) ELSE Kept(l)
              \/ event[l] = "beat" /\ Dropped(l)' = (Dropped(l) + 1) % FifoDropMod
<1> DEFINE ready(k) == k \in Served(Heads)
<1>1. /\ A!DropTick(Pushed("A", event["A"]), ready("A"))
      /\ B!DropTick(Pushed("B", event["B"]), ready("B"))
      /\ Lines(event)
  BY DEF Tick
<1>2. /\ Pushed("A", event["A"]) \in OfferOf /\ Pushed("B", event["B"]) \in OfferOf
      /\ ready("A") \in BOOLEAN /\ ready("B") \in BOOLEAN
  BY <1>1, LinesKeepPos DEF OfferOf, Line
<1>3. /\ Pushed(l, event[l]) # <<>> <=> event[l] = "beat"
      /\ event[l] = "beat" => Pushed(l, event[l])[1] = Carried(l)
  BY DEF Pushed, Carried
<1> HIDE DEF ready
<1>4. AP!DropInv' /\ BP!DropInv'
  BY <1>1, <1>2, LineAMoves, LineBMoves DEF FifosInv
<1>5. CASE l = "A"
  <2>1. Heads[l] = ahead /\ Queue(l) = A!Stored /\ Dropped(l) = adrop
        /\ Queue(l)' = A!Stored' /\ Dropped(l)' = adrop' /\ Heads'[l] = ahead'
    BY <1>5 DEF Heads, Line, Queue, Dropped
  <2>2. Kept(l) = IF ready("A") /\ ahead # <<>> THEN Tail(A!Stored) ELSE A!Stored
    BY <1>5, <2>1 DEF Kept, Taken, ready
  <2>3. /\ A!Stored \in Seq(Beats)
        /\ ahead # <<>> => A!Stored # <<>> /\ ahead = <<A!Stored[1]>>
        /\ ahead' = IF Kept(l) = <<>> THEN <<>> ELSE <<Kept(l)[1]>>
        /\ \/ /\ adrop' = adrop
              /\ A!Stored' = IF Pushed("A", event["A"]) # <<>>
                             THEN Append(Kept(l), Pushed("A", event["A"])[1]) ELSE Kept(l)
           \/ Pushed("A", event["A"]) # <<>> /\ adrop' = (adrop + 1) % FifoDropMod
    BY <1>1, <1>2, <2>2, LineAMoves DEF FifosInv
  <2> QED BY <1>3, <1>4, <1>5, <2>1, <2>3 DEF FifosInv
<1>6. CASE l = "B"
  <2>1. Heads[l] = bhead /\ Queue(l) = B!Stored /\ Dropped(l) = bdrop
        /\ Queue(l)' = B!Stored' /\ Dropped(l)' = bdrop' /\ Heads'[l] = bhead'
    BY <1>6 DEF Heads, Line, Queue, Dropped
  <2>2. Kept(l) = IF ready("B") /\ bhead # <<>> THEN Tail(B!Stored) ELSE B!Stored
    BY <1>6, <2>1 DEF Kept, Taken, ready
  <2>3. /\ B!Stored \in Seq(Beats)
        /\ bhead # <<>> => B!Stored # <<>> /\ bhead = <<B!Stored[1]>>
        /\ bhead' = IF Kept(l) = <<>> THEN <<>> ELSE <<Kept(l)[1]>>
        /\ \/ /\ bdrop' = bdrop
              /\ B!Stored' = IF Pushed("B", event["B"]) # <<>>
                             THEN Append(Kept(l), Pushed("B", event["B"])[1]) ELSE Kept(l)
           \/ Pushed("B", event["B"]) # <<>> /\ bdrop' = (bdrop + 1) % FifoDropMod
    BY <1>1, <1>2, <2>2, LineBMoves DEF FifosInv
  <2> QED BY <1>3, <1>4, <1>6, <2>1, <2>3 DEF FifosInv
<1> QED BY <1>5, <1>6 DEF Line
-----------------------------------------------------------------------------
(* The beats of a line follow one another through its FIFO up to the beat  *)
(* it carries next: a packet's parts in a row, later packets behind it.    *)
Place(q, p, i) == IF i <= Len(q) THEN [pkt |-> q[i].pkt, part |-> q[i].part] ELSE p
Follows(x, p)  == IF x.last THEN p.part = 1 /\ p.pkt > x.pkt
                  ELSE p.pkt = x.pkt /\ p.part = x.part + 1
Chain(q, p)    == \A i \in 1..Len(q) : Follows(q[i], Place(q, p, i + 1))

PlaceType == [pkt : Nat, part : Nat]

LEMMA BeatFacts ==
    ASSUME NEW x \in Beats
    PROVE  /\ x.pkt \in Packet /\ x.pkt \in Nat
           /\ x.part \in 1..Feed[x.pkt].beats /\ x.part \in Nat /\ x.part >= 1
           /\ x.last <=> x.part = Feed[x.pkt].beats
           /\ x.part = 1 => x.seq = Feed[x.pkt].seq /\ x.cnt = Feed[x.pkt].cnt
<1>0. PICK n \in Packet : x \in {Beat(n, part) : part \in 1..Feed[n].beats}
  BY DEF Beats
<1>1. PICK k \in 1..Feed[n].beats : x = Beat(n, k)
  BY <1>0
<1>2. x.pkt = n /\ x.part = k /\ x.last = (k = Feed[n].beats)
      /\ (k = 1 => x.seq = Feed[n].seq /\ x.cnt = Feed[n].cnt)
  BY <1>1 DEF Beat
<1>3. n \in Nat /\ Feed[n].beats \in Nat
  BY PacketFacts
<1>4. x.last <=> x.part = Feed[x.pkt].beats
  BY <1>2
<1>5. x.part = 1 => x.seq = Feed[x.pkt].seq /\ x.cnt = Feed[x.pkt].cnt
  BY <1>2
<1>6. x.part \in 1..Feed[x.pkt].beats /\ x.part \in Nat /\ x.part >= 1
  BY <1>2, <1>3
<1> QED BY <1>2, <1>3, <1>4, <1>5, <1>6

LEMMA ChainTail ==
    ASSUME NEW q \in Seq(Beats), q # <<>>, NEW p \in PlaceType, Chain(q, p)
    PROVE  /\ Tail(q) \in Seq(Beats) /\ Chain(Tail(q), p)
           /\ Follows(q[1], Place(Tail(q), p, 1)) /\ q[1] \in Beats
<1>1. /\ Tail(q) \in Seq(Beats) /\ Len(Tail(q)) = Len(q) - 1 /\ Len(q) \in Nat /\ Len(q) >= 1
      /\ \A i \in 1..(Len(q) - 1) : Tail(q)[i] = q[i + 1]
  <2>1. Len(q) \in Nat /\ Len(q) # 0
    BY EmptySeq
  <2> QED BY <2>1, HeadTailProperties
<1>2. \A i \in 1..Len(q) : Place(Tail(q), p, i) = Place(q, p, i + 1)
  BY <1>1 DEF Place
<1>3. ASSUME NEW i \in 1..Len(Tail(q))
      PROVE  Follows(Tail(q)[i], Place(Tail(q), p, i + 1))
  <2>1. i \in 1..Len(q) /\ i + 1 \in 1..Len(q) /\ Tail(q)[i] = q[i + 1]
    BY <1>1
  <2> QED BY <1>2, <2>1 DEF Chain
<1>4. Follows(q[1], Place(Tail(q), p, 1))
  BY <1>1, <1>2 DEF Chain
<1>5. q[1] \in Beats
  BY <1>1, ElementOfSeq
<1> QED BY <1>1, <1>3, <1>4, <1>5 DEF Chain

LEMMA ChainSkip ==
    ASSUME NEW q \in Seq(Beats), NEW p \in PlaceType, NEW r \in PlaceType,
           Chain(q, p), p.part = 1, r.part = 1, r.pkt >= p.pkt
    PROVE  Chain(q, r)
<1> SUFFICES ASSUME NEW i \in 1..Len(q) PROVE Follows(q[i], Place(q, r, i + 1))
  BY DEF Chain
<1>1. Follows(q[i], Place(q, p, i + 1)) /\ Len(q) \in Nat
  BY DEF Chain
<1>2. q[i] \in Beats
  BY ElementOfSeq
<1>3. q[i].part >= 1 /\ q[i].part \in Nat /\ q[i].pkt \in Nat
  BY <1>2, BeatFacts
<1>4. CASE i + 1 <= Len(q)
  BY <1>1, <1>4 DEF Place
<1>5. CASE ~(i + 1 <= Len(q))
  <2>1. Follows(q[i], p) /\ Place(q, r, i + 1) = r
    BY <1>1, <1>5 DEF Place
  <2>2. Follows(q[i], r)
    BY <1>3, <2>1 DEF Follows, PlaceType
  <2> QED BY <2>1, <2>2
<1> QED BY <1>4, <1>5

LEMMA ChainPush ==
    ASSUME NEW q \in Seq(Beats), NEW p \in PlaceType, NEW b \in Beats, NEW r \in PlaceType,
           Chain(q, p), b.pkt = p.pkt, b.part = p.part, Follows(b, r)
    PROVE  Append(q, b) \in Seq(Beats) /\ Chain(Append(q, b), r)
<1> DEFINE s == Append(q, b)
<1>1. /\ s \in Seq(Beats) /\ Len(s) = Len(q) + 1 /\ Len(q) \in Nat
      /\ \A i \in 1..Len(q) : s[i] = q[i]
      /\ s[Len(q) + 1] = b
  BY AppendProperties
<1> HIDE DEF s
<1>2. ASSUME NEW i \in 1..Len(s) PROVE Follows(s[i], Place(s, r, i + 1))
  <2>1. CASE i = Len(q) + 1
    <3>1. Place(s, r, i + 1) = r
      BY <1>1, <2>1 DEF Place
    <3> QED BY <1>1, <2>1, <3>1
  <2>2. CASE i <= Len(q)
    <3>1. s[i] = q[i] /\ Follows(q[i], Place(q, p, i + 1))
      BY <1>1, <2>2 DEF Chain
    <3>2. /\ Place(s, r, i + 1).pkt = Place(q, p, i + 1).pkt
          /\ Place(s, r, i + 1).part = Place(q, p, i + 1).part
      <4>1. CASE i + 1 <= Len(q)
        BY <1>1, <4>1 DEF Place
      <4>2. CASE i = Len(q)
        BY <1>1, <4>2 DEF Place
      <4> QED BY <1>1, <2>2, <4>1, <4>2
    <3> QED BY <3>1, <3>2 DEF Follows
  <2> QED BY <1>1, <2>1, <2>2
<1> QED BY <1>1, <1>2 DEF Chain, s

(* What a line does to the end of its queue keeps the chain, and the place *)
(* the front of it stands at.                                              *)
Extends(q, p, s, r) ==
    \/ s = q /\ r = p
    \/ s = q /\ p.part = 1 /\ r.part = 1 /\ r.pkt > p.pkt
    \/ \E b \in Beats : s = Append(q, b) /\ b.pkt = p.pkt /\ b.part = p.part /\ Follows(b, r)

LEMMA ChainExtends ==
    ASSUME NEW q \in Seq(Beats), NEW p \in PlaceType, NEW s, NEW r \in PlaceType,
           Chain(q, p), Extends(q, p, s, r)
    PROVE  /\ s \in Seq(Beats) /\ Chain(s, r)
           /\ q # <<>> => s # <<>> /\ s[1] = q[1]
           /\ Place(q, p, 1).part = 1 => Place(s, r, 1).part = 1
           /\ \A x \in Beats : Follows(x, Place(q, p, 1)) => Follows(x, Place(s, r, 1))
<1>1. /\ Len(q) \in Nat /\ (q = <<>> <=> Len(q) = 0)
      /\ q = <<>> => Place(q, p, 1) = p
      /\ q # <<>> => Place(q, p, 1) = [pkt |-> q[1].pkt, part |-> q[1].part]
  <2>1. Len(q) \in Nat /\ (q = <<>> <=> Len(q) = 0)
    BY EmptySeq
  <2> QED BY <2>1 DEF Place
<1>2. CASE s = q /\ r = p
  BY <1>2
<1>3. CASE s = q /\ p.part = 1 /\ r.part = 1 /\ r.pkt > p.pkt
  <2>1. Chain(s, r)
    BY <1>3, ChainSkip DEF PlaceType
  <2>2. q = <<>> => Place(s, r, 1) = r
    BY <1>1, <1>3 DEF Place
  <2>3. q # <<>> => Place(s, r, 1) = Place(q, p, 1)
    BY <1>1, <1>3 DEF Place
  <2>4. ASSUME NEW x \in Beats, Follows(x, p) PROVE Follows(x, r)
    <3>1. x.part >= 1 /\ x.part \in Nat /\ x.pkt \in Nat
      BY BeatFacts
    <3> QED BY <1>3, <2>4, <3>1 DEF Follows, PlaceType
  <2>5. /\ Place(q, p, 1).part = 1 => Place(s, r, 1).part = 1
        /\ \A x \in Beats : Follows(x, Place(q, p, 1)) => Follows(x, Place(s, r, 1))
    <3>1. CASE q = <<>>
      BY <1>1, <1>3, <2>2, <2>4, <3>1
    <3>2. CASE q # <<>>
      BY <2>3, <3>2
    <3> QED BY <3>1, <3>2
  <2> QED BY <1>3, <2>1, <2>5
<1>4. CASE \E b \in Beats : s = Append(q, b) /\ b.pkt = p.pkt /\ b.part = p.part /\ Follows(b, r)
  <2>1. PICK b \in Beats : s = Append(q, b) /\ b.pkt = p.pkt /\ b.part = p.part /\ Follows(b, r)
    BY <1>4
  <2>2. s \in Seq(Beats) /\ Chain(s, r)
    BY <2>1, ChainPush
  <2>3. /\ Len(s) = Len(q) + 1 /\ s[Len(q) + 1] = b
        /\ \A i \in 1..Len(q) : s[i] = q[i]
    BY <2>1, AppendProperties
  <2>4. q # <<>> => s # <<>> /\ s[1] = q[1]
    <3>1. <<>> \in Seq(Beats) /\ Len(<<>>) = 0
      OBVIOUS
    <3> QED BY <1>1, <2>3, <3>1
  <2>5. Place(s, r, 1) = [pkt |-> s[1].pkt, part |-> s[1].part]
    BY <1>1, <2>3 DEF Place
  <2>6. q = <<>> => s[1] = b
    BY <1>1, <2>3
  <2>7. /\ Place(s, r, 1).part = Place(q, p, 1).part
        /\ Place(s, r, 1).pkt = Place(q, p, 1).pkt
    <3>1. CASE q = <<>>
      BY <1>1, <2>1, <2>5, <2>6, <3>1
    <3>2. CASE q # <<>>
      BY <1>1, <2>4, <2>5, <3>2
    <3> QED BY <3>1, <3>2
  <2> QED BY <2>2, <2>4, <2>7 DEF Follows
<1> QED BY <1>2, <1>3, <1>4 DEF Extends

LEMMA CarryMoves ==
    ASSUME PosInv, NEW event \in Event, Lines(event), NEW l \in Line
    PROVE  /\ pos[l] \in PlaceType /\ pos'[l] \in PlaceType
           /\ event[l] \in {"none", "lose", "beat"}
           /\ event[l] = "none" => pos'[l] = pos[l]
           /\ event[l] # "none" => /\ pos[l].pkt \in Packet
                                   /\ pos[l].part \in 1..Feed[pos[l].pkt].beats
           /\ event[l] = "lose" => pos[l].part = 1 /\ pos'[l] = [pkt |-> pos[l].pkt + 1, part |-> 1]
           /\ event[l] = "beat" =>
                /\ Carried(l) \in Beats /\ Carried(l).pkt = pos[l].pkt /\ Carried(l).part = pos[l].part
                /\ Follows(Carried(l), pos'[l])
                /\ pos'[l] = IF pos[l].part = Feed[pos[l].pkt].beats
                             THEN [pkt |-> pos[l].pkt + 1, part |-> 1]
                             ELSE [pkt |-> pos[l].pkt, part |-> pos[l].part + 1]
<1>1. /\ pos'[l] = Carry(l, event[l])
      /\ event[l] # "none" => pos[l].pkt \in Packet
      /\ event[l] = "lose" => pos[l].part = 1
      /\ event[l] \in {"none", "lose", "beat"}
  BY DEF Lines, Event
<1>2. /\ pos[l] \in PlaceType
      /\ pos[l].pkt \in Packet => pos[l].part \in 1..Feed[pos[l].pkt].beats
  BY DEF PosInv, PlaceType
<1>3. pos'[l] \in PlaceType
  BY LinesKeepPos DEF PosInv, PlaceType
<1>4. ASSUME event[l] = "beat"
      PROVE  /\ Carried(l) \in Beats /\ Carried(l).pkt = pos[l].pkt /\ Carried(l).part = pos[l].part
             /\ Follows(Carried(l), pos'[l])
             /\ pos'[l] = IF pos[l].part = Feed[pos[l].pkt].beats
                          THEN [pkt |-> pos[l].pkt + 1, part |-> 1]
                          ELSE [pkt |-> pos[l].pkt, part |-> pos[l].part + 1]
  <2>1. pos[l].pkt \in Packet /\ pos[l].part \in 1..Feed[pos[l].pkt].beats
    BY <1>1, <1>2, <1>4
  <2>2. pos'[l] = IF pos[l].part = Feed[pos[l].pkt].beats
                  THEN [pkt |-> pos[l].pkt + 1, part |-> 1]
                  ELSE [pkt |-> pos[l].pkt, part |-> pos[l].part + 1]
    <3>1. pos[l].part = Feed[pos[l].pkt].beats => pos'[l] = [pkt |-> pos[l].pkt + 1, part |-> 1]
      BY <1>1, <1>4 DEF Carry
    <3>2. pos[l].part # Feed[pos[l].pkt].beats => pos'[l] = [pos[l] EXCEPT !.part = pos[l].part + 1]
      BY <1>1, <1>4 DEF Carry
    <3>3. [pos[l] EXCEPT !.part = pos[l].part + 1] = [pkt |-> pos[l].pkt, part |-> pos[l].part + 1]
      BY <1>2 DEF PlaceType
    <3> QED BY <3>1, <3>2, <3>3
  <2>3. /\ Carried(l) \in Beats /\ Carried(l).pkt = pos[l].pkt /\ Carried(l).part = pos[l].part
    BY <2>1 DEF Carried, Beats, Beat
  <2>5. Carried(l).last <=> pos[l].part = Feed[pos[l].pkt].beats
    BY <2>3, BeatFacts
  <2>4. Follows(Carried(l), pos'[l])
    <3>1. pos[l].pkt \in Nat
      BY <1>2 DEF PlaceType
    <3>4. \A x, p : /\ x.last /\ p.part = 1 /\ p.pkt > x.pkt => Follows(x, p)
                    /\ ~x.last /\ p.pkt = x.pkt /\ p.part = x.part + 1 => Follows(x, p)
      BY DEF Follows
    <3>2. CASE pos[l].part = Feed[pos[l].pkt].beats
      <4>1. pos'[l].pkt = pos[l].pkt + 1 /\ pos'[l].part = 1 /\ Carried(l).last
        BY <2>2, <2>5, <3>2
      <4>2. pos'[l].pkt > Carried(l).pkt
        BY <2>3, <3>1, <4>1
      <4> QED BY <3>4, <4>1, <4>2
    <3>3. CASE pos[l].part # Feed[pos[l].pkt].beats
      <4>1. pos'[l].pkt = pos[l].pkt /\ pos'[l].part = pos[l].part + 1 /\ ~Carried(l).last
        BY <2>2, <2>5, <3>3
      <4>2. pos'[l].pkt = Carried(l).pkt /\ pos'[l].part = Carried(l).part + 1
        BY <2>3, <4>1
      <4> QED BY <3>4, <4>1, <4>2
    <3> QED BY <3>2, <3>3
  <2> QED BY <2>2, <2>3, <2>4
<1>5. event[l] = "none" => pos'[l] = pos[l]
  BY <1>1 DEF Carry
<1>6. event[l] = "lose" => pos'[l] = [pkt |-> pos[l].pkt + 1, part |-> 1]
  BY <1>1 DEF Carry
<1> QED BY <1>1, <1>2, <1>3, <1>4, <1>5, <1>6

(* The front of a line's queue, and what a clock makes of it while the     *)
(* FIFO refuses nothing.                                                   *)
Here(l) == Place(Queue(l), pos[l], 1)

LEMMA HereMoves ==
    ASSUME FifosInv, PosInv, NEW event \in Event, Tick(event), NEW l \in Line,
           Chain(Queue(l), pos[l]), Dropped(l)' = Dropped(l),
           event[l] = "beat" => Dropped(l)' # (Dropped(l) + 1) % FifoDropMod
    PROVE  /\ Chain(Queue(l), pos[l])'
           /\ Taken(l) => Queue(l)[1] \in Beats /\ Follows(Queue(l)[1], Here(l)')
           /\ ~Taken(l) /\ Here(l).part = 1 => Here(l)'.part = 1
           /\ ~Taken(l) => \A x \in Beats : Follows(x, Here(l)) => Follows(x, Here(l)')
           /\ ~Taken(l) /\ Queue(l) # <<>> => Queue(l)' # <<>> /\ Queue(l)'[1] = Queue(l)[1]
<1> DEFINE q == Queue(l)
           k == Kept(l)
           s == Queue(l)'
           p == pos[l]
           r == pos'[l]
<1>1. /\ q \in Seq(Beats)
      /\ Heads[l] # <<>> => q # <<>>
      /\ s = IF event[l] = "beat" THEN Append(k, Carried(l)) ELSE k
  BY QueuesMove
<1>2. /\ p \in PlaceType /\ r \in PlaceType /\ event[l] \in {"none", "lose", "beat"}
      /\ event[l] = "none" => r = p
      /\ event[l] = "lose" => p.part = 1 /\ r = [pkt |-> p.pkt + 1, part |-> 1]
      /\ event[l] = "beat" => /\ Carried(l) \in Beats /\ Carried(l).pkt = p.pkt
                              /\ Carried(l).part = p.part /\ Follows(Carried(l), r)
  BY CarryMoves DEF Tick
<1>3. Extends(k, p, s, r)
  <2>1. event[l] = "lose" => r.pkt > p.pkt /\ r.part = 1
    BY <1>2 DEF PlaceType
  <2> HIDE DEF k, p, r, s
  <2> QED BY <1>1, <1>2, <2>1 DEF Extends
<1>4. Here(l) = Place(q, p, 1) /\ Here(l)' = Place(s, r, 1) /\ Chain(q, p)
      /\ (Chain(s, r) => Chain(Queue(l), pos[l])')
  <2>1. Here(l) = Place(q, p, 1) /\ Chain(q, p)
    BY DEF Here
  <2>2. Here(l)' = Place(s, r, 1)
    BY DEF Here, Place
  <2>3. \A a, b : a = Queue(l)' /\ b = pos'[l] /\ Chain(a, b) => Chain(Queue(l), pos[l])'
    BY DEF Chain, Follows, Place
  <2> QED BY <2>1, <2>2, <2>3
<1>5. CASE Taken(l)
  <2>1. q # <<>> /\ k = Tail(q)
    BY <1>1, <1>5 DEF Kept, Taken
  <2> HIDE DEF q, k, p, s, r
  <2>2. /\ k \in Seq(Beats) /\ Chain(k, p) /\ q[1] \in Beats
        /\ Follows(q[1], Place(k, p, 1))
    BY <1>1, <1>2, <1>4, <2>1, ChainTail
  <2>3. /\ Chain(s, r)
        /\ \A x \in Beats : Follows(x, Place(k, p, 1)) => Follows(x, Place(s, r, 1))
    BY <1>2, <1>3, <2>2, ChainExtends
  <2>4. Follows(q[1], Place(s, r, 1))
    BY <2>2, <2>3
  <2> QED BY <1>4, <1>5, <2>2, <2>3, <2>4 DEF q
<1>6. CASE ~Taken(l)
  <2>1. k = q
    BY <1>6 DEF Kept
  <2> HIDE DEF q, k, p, s, r
  <2>2. /\ Chain(s, r)
        /\ q # <<>> => s # <<>> /\ s[1] = q[1]
        /\ Place(q, p, 1).part = 1 => Place(s, r, 1).part = 1
        /\ \A x \in Beats : Follows(x, Place(q, p, 1)) => Follows(x, Place(s, r, 1))
    <3>1. Extends(q, p, s, r) /\ q \in Seq(Beats) /\ p \in PlaceType /\ r \in PlaceType /\ Chain(q, p)
      BY <1>1, <1>2, <1>3, <1>4, <2>1
    <3> QED BY <3>1, ChainExtends
  <2>3. Chain(Queue(l), pos[l])' /\ (Here(l).part = 1 => Here(l)'.part = 1)
    <3>1. Chain(Queue(l), pos[l])'
      BY <1>4, <2>2
    <3>2. Here(l).part = 1 => Here(l)'.part = 1
      BY <1>4, <2>2, Zenon
    <3> QED BY <3>1, <3>2
  <2>4. Queue(l) # <<>> => Queue(l)' # <<>> /\ Queue(l)'[1] = Queue(l)[1]
    BY <2>2 DEF q, s
  <2>5. \A x \in Beats : Follows(x, Here(l)) => Follows(x, Here(l)')
    BY <1>4, <2>2, Zenon
  <2> QED BY <1>6, <2>3, <2>4, <2>5
<1> QED BY <1>5, <1>6
-----------------------------------------------------------------------------
(* Fewer beats are carried than the drop counters count, so a counter that *)
(* shows nothing has counted nothing: each is behind the beats its line    *)
(* has carried, a packet being m beats at most.                            *)
BeatsFit(m) == (\A n \in Packet : Feed[n].beats <= m) /\ Len(Feed) * m < FifoDropMod
FewerBeatsThanCounted == \E m \in Nat : BeatsFit(m)

Quota(k, m) == (k - 1) * m

CountInv(m) == \A l \in Line :
    /\ pos[l].pkt \in 1..(Len(Feed) + 1) /\ pos[l].part \in Nat \ {0}
    /\ Dropped(l) \in Nat /\ Dropped(l) + 1 <= Quota(pos[l].pkt, m) + pos[l].part

LEMMA QuotaFacts ==
    ASSUME NEW m \in Nat, BeatsFit(m)
    PROVE  /\ Packet = 1..Len(Feed) /\ Len(Feed) \in Nat /\ FifoDropMod \in Nat \ {0}
           /\ \A k \in Nat \ {0} : Quota(k, m) \in Nat /\ Quota(k + 1, m) = Quota(k, m) + m
           /\ \A k \in Packet : Quota(k, m) + m < FifoDropMod
<1>0. Packet = 1..Len(Feed) /\ Len(Feed) \in Nat /\ FifoDropMod \in Nat \ {0}
  <2>1. Feed \in Seq([seq : Nat, cnt : Nat, beats : Nat \ {0}])
    BY FeedAssumption
  <2>2. Packet = 1..Len(Feed) /\ Len(Feed) \in Nat
    BY <2>1, LenProperties DEF Packet
  <2> QED BY <2>2, FifoAssumption DEF A!DropConstants
<1>1. \A j \in Nat : j * m \in Nat
  OBVIOUS
<1>2. ASSUME NEW k \in Nat \ {0}
      PROVE  Quota(k, m) \in Nat /\ Quota(k + 1, m) = Quota(k, m) + m /\ Quota(k + 1, m) = k * m
  <2>1. k - 1 \in Nat
    OBVIOUS
  <2>2. (k + 1) - 1 = k /\ k * m = (k - 1) * m + m
    OBVIOUS
  <2> QED BY <1>1, <2>1, <2>2 DEF Quota
<1>3. ASSUME NEW k \in Packet PROVE Quota(k, m) + m < FifoDropMod
  <2>1. k \in Nat \ {0} /\ k <= Len(Feed) /\ Len(Feed) - k \in Nat
    BY <1>0
  <2>2. Len(Feed) * m = k * m + (Len(Feed) - k) * m
    BY <1>0, <2>1
  <2> DEFINE a == k * m
             b == (Len(Feed) - k) * m
             c == Len(Feed) * m
  <2>3. a \in Nat /\ b \in Nat /\ c = a + b
    BY <1>1, <2>1, <2>2
  <2>4. Quota(k, m) + m = a /\ c < FifoDropMod
    BY <1>2, <2>1 DEF BeatsFit
  <2> HIDE DEF a, b, c
  <2> QED BY <1>0, <2>3, <2>4
<1> QED BY <1>0, <1>2, <1>3

LEMMA SmallMod ==
    ASSUME NEW n \in Nat \ {0}, NEW k \in 0..(n - 1)
    PROVE  k % n = k
OBVIOUS

LEMMA CountStep ==
    ASSUME NEW m \in Nat, BeatsFit(m), FifosInv, PosInv, CountInv(m),
           NEW event \in Event, Tick(event)
    PROVE  /\ CountInv(m)'
           /\ \A l \in Line : Dropped(l)' = 0 =>
                 /\ Dropped(l) = 0
                 /\ event[l] = "beat" => (Dropped(l) + 1) % FifoDropMod # 0
<1>0. Packet = 1..Len(Feed) /\ Len(Feed) \in Nat /\ FifoDropMod \in Nat \ {0}
  BY QuotaFacts
<1>1. ASSUME NEW l \in Line
      PROVE  /\ pos'[l].pkt \in 1..(Len(Feed) + 1) /\ pos'[l].part \in Nat \ {0}
             /\ Dropped(l)' \in Nat /\ Dropped(l)' + 1 <= Quota(pos'[l].pkt, m) + pos'[l].part
             /\ Dropped(l)' = 0 => /\ Dropped(l) = 0
                                   /\ event[l] = "beat" => (Dropped(l) + 1) % FifoDropMod # 0
  <2>1. PICK k, p : k = pos[l].pkt /\ p = pos[l].part
    OBVIOUS
  <2>2. PICK d, e : d = Dropped(l) /\ e = Dropped(l)'
    OBVIOUS
  <2>3. PICK t : t = Quota(k, m)
    OBVIOUS
  <2>4. /\ k \in 1..(Len(Feed) + 1) /\ k \in Nat \ {0} /\ p \in Nat \ {0} /\ d \in Nat /\ d + 1 <= t + p
        /\ t \in Nat /\ Quota(k + 1, m) = t + m /\ (k \in Packet => t + m < FifoDropMod)
    <3>1. k \in 1..(Len(Feed) + 1) /\ p \in Nat \ {0} /\ d \in Nat /\ d + 1 <= t + p
      BY <2>1, <2>2, <2>3 DEF CountInv
    <3>2. k \in Nat \ {0}
      BY <1>0, <3>1
    <3> QED BY <2>3, <3>1, <3>2, QuotaFacts
  <2>5. PICK k2, p2 : k2 = pos'[l].pkt /\ p2 = pos'[l].part
    OBVIOUS
  <2>6. /\ event[l] \in {"none", "lose", "beat"}
        /\ event[l] = "none" => k2 = k /\ p2 = p
        /\ event[l] # "none" => k \in Packet /\ p \in 1..Feed[k].beats
        /\ event[l] = "lose" => p = 1 /\ k2 = k + 1 /\ p2 = 1
        /\ event[l] = "beat" => \/ k2 = k + 1 /\ p2 = 1
                                \/ k2 = k /\ p2 = p + 1
    <3>1. Lines(event)
      BY DEF Tick
    <3>2. /\ event[l] \in {"none", "lose", "beat"}
          /\ event[l] = "none" => pos'[l] = pos[l]
          /\ event[l] # "none" => /\ pos[l].pkt \in Packet
                                  /\ pos[l].part \in 1..Feed[pos[l].pkt].beats
          /\ event[l] = "lose" => pos[l].part = 1 /\ pos'[l] = [pkt |-> pos[l].pkt + 1, part |-> 1]
          /\ event[l] = "beat" =>
               pos'[l] = IF pos[l].part = Feed[pos[l].pkt].beats
                         THEN [pkt |-> pos[l].pkt + 1, part |-> 1]
                         ELSE [pkt |-> pos[l].pkt, part |-> pos[l].part + 1]
      BY <3>1, CarryMoves
    <3>3. event[l] = "lose" => p = 1 /\ k2 = k + 1 /\ p2 = 1
      BY <2>1, <2>5, <3>2
    <3>4. event[l] = "beat" => \/ k2 = k + 1 /\ p2 = 1
                               \/ k2 = k /\ p2 = p + 1
      BY <2>1, <2>5, <3>2
    <3> QED BY <2>1, <2>5, <3>2, <3>3, <3>4
  <2>7. event[l] # "none" => p <= m
    <3> SUFFICES ASSUME event[l] # "none" PROVE p <= m
      OBVIOUS
    <3>1. PICK c \in Nat : c = Feed[k].beats /\ c <= m
      BY <2>6, PacketFacts DEF BeatsFit
    <3> QED BY <2>6, <3>1
  <2>8. event[l] = "beat" => (d + 1) % FifoDropMod = d + 1
    <3> SUFFICES ASSUME event[l] = "beat" PROVE (d + 1) % FifoDropMod = d + 1
      OBVIOUS
    <3>1. p <= m /\ t + m < FifoDropMod
      BY <2>4, <2>6, <2>7
    <3>2. d + 1 \in 0..(FifoDropMod - 1)
      BY <1>0, <2>4, <3>1
    <3> QED BY <1>0, <3>2, SmallMod
  <2>9. e = d \/ (event[l] = "beat" /\ e = d + 1)
    <3>1. e = d \/ (event[l] = "beat" /\ e = (d + 1) % FifoDropMod)
      BY <2>2, QueuesMove
    <3> QED BY <2>8, <3>1, Zenon
  <2>10. /\ k2 \in 1..(Len(Feed) + 1) /\ p2 \in Nat \ {0}
         /\ e \in Nat /\ e + 1 <= Quota(k2, m) + p2
    <3>1. CASE event[l] = "none"
      BY <2>3, <2>4, <2>6, <2>9, <3>1
    <3>2. CASE event[l] # "none" /\ k2 = k + 1 /\ p2 = 1
      <4>1. k \in Packet /\ p <= m
        BY <2>6, <2>7, <3>2
      <4>2. k2 \in 1..(Len(Feed) + 1) /\ e \in Nat /\ e <= d + 1
        BY <1>0, <2>4, <2>9, <3>2, <4>1
      <4>3. Quota(k2, m) = t + m
        BY <2>4, <3>2
      <4> QED BY <2>4, <3>2, <4>1, <4>2, <4>3, SMTT(60)
    <3>3. CASE event[l] = "beat" /\ k2 = k /\ p2 = p + 1
      BY <2>3, <2>4, <2>9, <3>3, SMTT(60)
    <3> QED BY <2>6, <3>1, <3>2, <3>3
  <2>11. e = 0 => d = 0 /\ (event[l] = "beat" => (d + 1) % FifoDropMod # 0)
    BY <2>4, <2>8, <2>9
  <2> QED BY <2>2, <2>5, <2>10, <2>11
<1> QED BY <1>1 DEF CountInv
-----------------------------------------------------------------------------
(* The arbiter between two clocks.  A line it is not in the middle of is   *)
(* at the start of a packet; what leaves it is the packet it is in, or, of *)
(* one that it has just picked, the first beat.                            *)
Starting ==
    /\ Queue(sel) # <<>> /\ Queue(sel)[1].part = 1 /\ target = End(Queue(sel)[1].pkt)
    /\ outBeat # <<>> =>
         outBeat[1].last /\ Feed[Queue(sel)[1].pkt].seq >= End(outBeat[1].pkt)
Amid ==
    /\ outBeat # <<>> /\ ~outBeat[1].last /\ target = End(outBeat[1].pkt)
    /\ Follows(outBeat[1], Here(sel))

ArbInv ==
    /\ arbState \in {"IDLE", "FWD", "DROP"} /\ sel \in Line
    /\ nextSeq \in Nat /\ target \in Nat
    /\ outBeat # <<>> => outBeat = <<outBeat[1]>> /\ outBeat[1] \in Beats /\ synced
    /\ \A l \in Line : Chain(Queue(l), pos[l])
    /\ \A l \in Line : arbState = "IDLE" \/ l # sel => Here(l).part = 1
    /\ arbState # "FWD" /\ outBeat # <<>> => outBeat[1].last /\ nextSeq = End(outBeat[1].pkt)
    /\ arbState = "FWD" => synced /\ (Starting \/ Amid)

LEMMA HeadIsFront ==
    ASSUME FifosInv, NEW l \in Line
    PROVE  /\ Queue(l) \in Seq(Beats)
           /\ Heads[l] # <<>> => /\ Queue(l) # <<>> /\ Heads[l] = <<Queue(l)[1]>>
                                 /\ Queue(l)[1] \in Beats
<1>1. AP!DropConstants /\ BP!DropConstants
  BY FifoAssumption DEF AP!DropConstants, BP!DropConstants, A!DropConstants
<1>2. /\ AP!Stored \in Seq(Beats)
      /\ ahead # <<>> => AP!Stored # <<>> /\ ahead = <<AP!Stored[1]>>
  BY <1>1, AP!HeadIsFirst DEF FifosInv
<1>3. /\ BP!Stored \in Seq(Beats)
      /\ bhead # <<>> => BP!Stored # <<>> /\ bhead = <<BP!Stored[1]>>
  BY <1>1, BP!HeadIsFirst DEF FifosInv
<1>4. AP!Stored = A!Stored /\ BP!Stored = B!Stored
  BY DEF AP!Stored, A!Stored, AP!MemCount, A!MemCount, AP!Address, A!Address, AP!PtrMod, A!PtrMod,
         BP!Stored, B!Stored, BP!MemCount, B!MemCount, BP!Address, B!Address, BP!PtrMod, B!PtrMod
<1>5. /\ Queue(l) \in Seq(Beats)
      /\ Heads[l] # <<>> => Queue(l) # <<>> /\ Heads[l] = <<Queue(l)[1]>>
  <2>1. CASE l = "A"
    BY <1>2, <1>4, <2>1 DEF Queue, Heads, Line
  <2>2. CASE l = "B"
    BY <1>3, <1>4, <2>2 DEF Queue, Heads, Line
  <2> QED BY <2>1, <2>2 DEF Line
<1>6. ASSUME NEW q \in Seq(Beats), q # <<>> PROVE q[1] \in Beats
  <2>1. Len(q) \in Nat /\ Len(q) # 0
    BY <1>6, EmptySeq
  <2> QED BY <2>1, ElementOfSeq
<1> QED BY <1>5, <1>6

(* The pick is a line that has the packet it is picked for.                *)
LEMMA PickFacts ==
    ASSUME NEW heads, nextSeq \in Nat,
           \A l \in Line : heads[l] # <<>> => Head(heads[l]).seq \in Nat
    PROVE  /\ Kind(heads) \in {"FWD", "DUP", "AHEAD", "NONE"} /\ Picked(heads) \in Line
           /\ Kind(heads) # "NONE" => heads[Picked(heads)] # <<>>
           /\ Kind(heads) = "FWD" => Head(heads[Picked(heads)]).seq = nextSeq
           /\ Kind(heads) = "DUP" => Head(heads[Picked(heads)]).seq < nextSeq
           /\ Kind(heads) = "AHEAD" =>
                \A l \in Line : heads[l] # <<>> =>
                   /\ Head(heads[l]).seq > nextSeq
                   /\ Head(heads[Picked(heads)]).seq <= Head(heads[l]).seq
           /\ Kind(heads) \in {"FWD", "AHEAD"} => Head(heads[Picked(heads)]).seq >= nextSeq
<1>1. \A s : FirstOf(s) \in Line
  BY DEF FirstOf, Line
<1>2. \A s \in SUBSET Line : s # {} => FirstOf(s) \in s
  BY DEF FirstOf, Line
<1>3. /\ Exact(heads) \in SUBSET Line /\ Dup(heads) \in SUBSET Line /\ Ahead(heads) \in SUBSET Line
  BY DEF Exact, Dup, Ahead
<1>4. Nearest(Ahead(heads), heads) \in Line
  BY <1>1 DEF Nearest
<1>5. ASSUME Ahead(heads) # {}
      PROVE  /\ Nearest(Ahead(heads), heads) \in Ahead(heads)
             /\ \A k \in Ahead(heads) :
                   Head(heads[Nearest(Ahead(heads), heads)]).seq <= Head(heads[k]).seq
  <2> DEFINE near == {l \in Ahead(heads) :
                        \A k \in Ahead(heads) : Head(heads[l]).seq <= Head(heads[k]).seq}
  <2>1. \A l \in Ahead(heads) : Head(heads[l]).seq \in Nat
    BY DEF Ahead
  <2>2. near # {}
    <3>1. CASE "A" \in Ahead(heads) /\ "B" \in Ahead(heads)
      <4>1. PICK a, b \in Nat : a = Head(heads["A"]).seq /\ b = Head(heads["B"]).seq
        BY <2>1, <3>1
      <4>2. a <= b \/ b <= a
        OBVIOUS
      <4>3. a <= b => "A" \in near
        BY <1>3, <3>1, <4>1 DEF Line
      <4>4. b <= a => "B" \in near
        BY <1>3, <3>1, <4>1 DEF Line
      <4> QED BY <4>2, <4>3, <4>4
    <3>2. CASE ~("A" \in Ahead(heads) /\ "B" \in Ahead(heads))
      <4>1. PICK l \in Ahead(heads) : Ahead(heads) = {l}
        BY <1>3, <1>5, <3>2 DEF Line
      <4>2. l \in near
        BY <2>1, <4>1
      <4> QED BY <4>2
    <3> QED BY <3>1, <3>2
  <2>3. near \in SUBSET Line /\ near \subseteq Ahead(heads)
    BY <1>3
  <2>4. Nearest(Ahead(heads), heads) = FirstOf(near)
    BY DEF Nearest
  <2>5. \A l \in near : \A k \in Ahead(heads) : Head(heads[l]).seq <= Head(heads[k]).seq
    OBVIOUS
  <2> HIDE DEF near
  <2>6. Nearest(Ahead(heads), heads) \in near
    BY <1>2, <2>2, <2>3, <2>4
  <2> QED BY <2>3, <2>5, <2>6
<1>6. CASE Exact(heads) # {}
  <2>1. Kind(heads) = "FWD" /\ Picked(heads) \in Exact(heads)
    BY <1>2, <1>3, <1>6 DEF Kind, Picked
  <2> QED BY <2>1 DEF Exact
<1>7. CASE Exact(heads) = {} /\ Dup(heads) # {}
  <2>1. Kind(heads) = "DUP" /\ Picked(heads) \in Dup(heads)
    BY <1>2, <1>3, <1>7 DEF Kind, Picked
  <2> QED BY <2>1 DEF Dup
<1>8. CASE Exact(heads) = {} /\ Dup(heads) = {} /\ Ahead(heads) # {}
  <2>1. Kind(heads) = "AHEAD" /\ Picked(heads) \in Ahead(heads)
    BY <1>5, <1>8 DEF Kind, Picked
  <2>2. Picked(heads) = Nearest(Ahead(heads), heads)
    BY <1>8 DEF Picked
  <2>3. \A l \in Line : heads[l] # <<>> => Head(heads[l]).seq > nextSeq /\ l \in Ahead(heads)
    BY <1>8 DEF Exact, Dup, Ahead
  <2>4. \A l \in Line : heads[l] # <<>> =>
           /\ Head(heads[l]).seq > nextSeq
           /\ Head(heads[Picked(heads)]).seq <= Head(heads[l]).seq
    BY <1>5, <1>8, <2>2, <2>3
  <2>5. Picked(heads) \in Line /\ heads[Picked(heads)] # <<>> /\ Head(heads[Picked(heads)]).seq >= nextSeq
    BY <2>1 DEF Ahead
  <2> QED BY <2>1, <2>4, <2>5
<1>9. CASE Exact(heads) = {} /\ Dup(heads) = {} /\ Ahead(heads) = {}
  BY <1>9 DEF Kind, Picked, Line
<1> QED BY <1>6, <1>7, <1>8, <1>9

(* The first beat of a packet carries its header.                          *)
LEMMA HeaderFacts ==
    ASSUME NEW x \in Beats
    PROVE  /\ Feed[x.pkt].seq \in Nat /\ Feed[x.pkt].cnt \in Nat /\ End(x.pkt) \in Nat
           /\ x.part = 1 => x.seq = Feed[x.pkt].seq /\ x.seq + x.cnt = End(x.pkt)
<1>1. x.pkt \in Packet /\ (x.part = 1 => x.seq = Feed[x.pkt].seq /\ x.cnt = Feed[x.pkt].cnt)
  BY BeatFacts
<1>2. ASSUME NEW n \in Packet PROVE Feed[n].seq \in Nat /\ Feed[n].cnt \in Nat
  <2> DEFINE S == [seq : Nat, cnt : Nat, beats : Nat \ {0}]
  <2>1. Feed \in Seq(S)
    BY FeedAssumption
  <2> HIDE DEF S
  <2>2. Len(Feed) \in Nat /\ Packet = 1..Len(Feed)
    BY <2>1, LenProperties DEF Packet
  <2>3. Feed[n] \in S
    BY <2>1, <2>2, ElementOfSeq
  <2> QED BY <2>3 DEF S
<1>3. End(x.pkt) = Feed[x.pkt].seq + Feed[x.pkt].cnt
  BY DEF End
<1> QED BY <1>1, <1>2, <1>3

(* What a clock does to the queues while neither FIFO has dropped a beat.  *)
QueuesStep == \A l \in Line :
    /\ Chain(Queue(l), pos[l])'
    /\ Taken(l) => Queue(l)[1] \in Beats /\ Follows(Queue(l)[1], Here(l)')
    /\ ~Taken(l) /\ Here(l).part = 1 => Here(l)'.part = 1
    /\ ~Taken(l) => \A x \in Beats : Follows(x, Here(l)) => Follows(x, Here(l)')
    /\ ~Taken(l) /\ Queue(l) # <<>> => Queue(l)' # <<>> /\ Queue(l)'[1] = Queue(l)[1]
    /\ Queue(l) # <<>> => Here(l) = [pkt |-> Queue(l)[1].pkt, part |-> Queue(l)[1].part]
    /\ Heads[l] # <<>> => /\ Queue(l) # <<>> /\ Heads[l] = <<Queue(l)[1]>>
                          /\ Queue(l)[1] \in Beats

OutStep == outBeat' = IF Output(Heads) # <<>> THEN Output(Heads) ELSE outBeat

(* Between packets: the arbiter waits or picks, and takes nothing.         *)
LEMMA IdleStep ==
    ASSUME ArbInv, QueuesStep, OutStep, ArbTick(Heads), arbState = "IDLE"
    PROVE  ArbInv'
<1>1. Served(Heads) = {} /\ Output(Heads) = <<>> /\ (\A l \in Line : ~Taken(l))
  BY DEF Served, Output, Taken
<1>2. outBeat' = outBeat /\ nextSeq' = nextSeq
  BY <1>1 DEF OutStep, ArbTick
<1>3. \A l \in Line : Chain(Queue(l), pos[l])' /\ Here(l)'.part = 1
  BY <1>1 DEF QueuesStep, ArbInv
<1>4. ASSUME NEW l \in Line, Heads[l] # <<>>
      PROVE  /\ Queue(l)[1] \in Beats /\ Queue(l)[1].part = 1 /\ Head(Heads[l]) = Queue(l)[1]
             /\ Queue(l)' # <<>> /\ Queue(l)'[1] = Queue(l)[1]
  <2>1. /\ Queue(l) # <<>> /\ Heads[l] = <<Queue(l)[1]>> /\ Queue(l)[1] \in Beats
        /\ Here(l) = [pkt |-> Queue(l)[1].pkt, part |-> Queue(l)[1].part] /\ Here(l).part = 1
        /\ Queue(l)' # <<>> /\ Queue(l)'[1] = Queue(l)[1]
    BY <1>1, <1>4 DEF QueuesStep, ArbInv
  <2> QED BY <2>1
<1>5. /\ Kind(Heads) \in {"FWD", "DUP", "AHEAD", "NONE"} /\ Picked(Heads) \in Line
      /\ Kind(Heads) # "NONE" => Heads[Picked(Heads)] # <<>>
      /\ Kind(Heads) \in {"FWD", "AHEAD"} => Head(Heads[Picked(Heads)]).seq >= nextSeq
  <2>1. \A l \in Line : Heads[l] # <<>> => Head(Heads[l]).seq \in Nat
    BY <1>4, HeaderFacts
  <2>2. nextSeq \in Nat
    BY DEF ArbInv
  <2> QED BY <2>1, <2>2, PickFacts
<1>6. outBeat # <<>> => /\ outBeat = <<outBeat[1]>> /\ outBeat[1] \in Beats /\ synced
                        /\ outBeat[1].last /\ nextSeq = End(outBeat[1].pkt)
  BY DEF ArbInv
<1>7. (synced => synced') /\ (arbState' # "IDLE" => synced')
  <2>1. CASE ArbLock(Heads)
    BY <2>1 DEF ArbLock
  <2>2. CASE ArbPick(Heads)
    BY <2>2 DEF ArbPick
  <2> QED BY <2>1, <2>2 DEF ArbTick
<1>8. CASE /\ UNCHANGED <<arbState, sel, target>>
  <2>1. sel \in Line /\ nextSeq \in Nat /\ target \in Nat
    BY DEF ArbInv
  <2> QED BY <1>2, <1>3, <1>6, <1>7, <1>8, <2>1 DEF ArbInv
<1>9. CASE Serve(Heads, "DROP") /\ UNCHANGED target
  <2>1. nextSeq \in Nat /\ target \in Nat
    BY DEF ArbInv
  <2> QED BY <1>2, <1>3, <1>5, <1>6, <1>7, <1>9, <2>1 DEF ArbInv, Serve
<1>10. CASE Forward(Heads) /\ Kind(Heads) # "NONE" /\ (synced => Kind(Heads) \in {"FWD", "AHEAD"})
  <2>1. PICK l \in Line : l = Picked(Heads)
    BY <1>5
  <2>2. PICK x \in Beats : x = Queue(l)[1]
    BY <1>4, <1>5, <1>10, <2>1
  <2>3. /\ x.part = 1 /\ Head(Heads[l]) = x /\ Queue(l)' # <<>> /\ Queue(l)'[1] = x
        /\ synced => x.seq >= nextSeq
    BY <1>4, <1>5, <1>10, <2>1, <2>2
  <2>4. arbState' = "FWD" /\ sel' = l /\ target' = x.seq + x.cnt
    BY <1>10, <2>1, <2>3 DEF Forward, Serve, EndOfPicked
  <2>5. target' = End(x.pkt) /\ target' \in Nat /\ (synced => Feed[x.pkt].seq >= nextSeq)
    BY <2>3, <2>4, HeaderFacts
  <2>6. Queue(sel)' = Queue(l)' 
    BY <2>4 DEF Queue
  <2>7. outBeat # <<>> => outBeat[1].last /\ Feed[x.pkt].seq >= End(outBeat[1].pkt)
    BY <1>6, <2>5
  <2>8. Starting'
    BY <1>2, <2>3, <2>5, <2>6, <2>7 DEF Starting, End
  <2>9. nextSeq \in Nat
    BY DEF ArbInv
  <2> QED BY <1>2, <1>3, <1>6, <1>7, <2>4, <2>5, <2>8, <2>9 DEF ArbInv
<1>11. \/ UNCHANGED <<arbState, sel, target>>
       \/ Serve(Heads, "DROP") /\ UNCHANGED target
       \/ Forward(Heads) /\ Kind(Heads) # "NONE" /\ (synced => Kind(Heads) \in {"FWD", "AHEAD"})
  <2>1. CASE ArbLock(Heads)
    BY <2>1 DEF ArbLock
  <2>2. CASE ArbPick(Heads)
    BY <1>5, <2>2 DEF ArbPick, GapNow
  <2> QED BY <2>1, <2>2 DEF ArbTick
<1> QED BY <1>8, <1>9, <1>10, <1>11

(* Within a packet: the line served gives its next beat, or nothing yet.   *)
LEMMA ServeStep ==
    ASSUME ArbInv, QueuesStep, OutStep, ArbTick(Heads), arbState # "IDLE"
    PROVE  ArbInv'
<1>1. /\ sel \in Line /\ arbState \in {"FWD", "DROP"}
      /\ nextSeq \in Nat /\ target \in Nat
      /\ Served(Heads) = {sel} /\ Output(Heads) = IF arbState = "FWD" THEN Heads[sel] ELSE <<>>
  BY DEF ArbInv, Served, Output
<1>2. /\ arbState' = IF EndsPacket(Heads) THEN "IDLE" ELSE arbState
      /\ sel' = sel /\ target' = target /\ synced' = synced
      /\ nextSeq' = IF arbState = "FWD" /\ EndsPacket(Heads) THEN target ELSE nextSeq
  BY DEF ArbTick, ArbServe
<1>3. /\ EndsPacket(Heads) <=> Heads[sel] # <<>> /\ Head(Heads[sel]).last
      /\ \A l \in Line : Taken(l) <=> l = sel /\ Heads[sel] # <<>>
  BY <1>1 DEF EndsPacket, Taken
<1>4. \A l \in Line : Chain(Queue(l), pos[l])' /\ (l # sel => Here(l)'.part = 1)
  <2>1. \A l \in Line : l # sel => Here(l).part = 1
    BY DEF ArbInv
  <2> QED BY <1>3, <2>1 DEF QueuesStep
<1>5. /\ outBeat # <<>> => outBeat = <<outBeat[1]>> /\ outBeat[1] \in Beats /\ synced
      /\ arbState # "FWD" /\ outBeat # <<>> => outBeat[1].last /\ nextSeq = End(outBeat[1].pkt)
      /\ arbState = "FWD" => synced /\ (Starting \/ Amid)
  BY DEF ArbInv
<1>0. PICK c \in Line : c = sel
  BY <1>1
<1>6. Here(sel)' = Here(c)' /\ Queue(sel)' = Queue(c)'
  BY <1>0, <1>2 DEF Here, Queue
<1>7. CASE Heads[c] = <<>>
  <2>1. UNCHANGED <<arbState, sel, target, synced, nextSeq, outBeat>>
    BY <1>0, <1>1, <1>2, <1>3, <1>7 DEF OutStep
  <2>2. ~Taken(c)
    BY <1>0, <1>3, <1>7
  <2>3. Starting => Starting'
    <3>1. Queue(c) # <<>> => Queue(c)' # <<>> /\ Queue(c)'[1] = Queue(c)[1]
      BY <1>1, <2>2 DEF QueuesStep
    <3> QED BY <1>0, <1>6, <2>1, <3>1 DEF Starting, End
  <2>4. Amid => Amid'
    <3>1. \A x \in Beats : Follows(x, Here(c)) => Follows(x, Here(c)')
      BY <1>1, <2>2 DEF QueuesStep
    <3>2. ASSUME Amid PROVE Follows(outBeat[1], Here(c)')
      BY <1>0, <1>5, <3>1, <3>2 DEF Amid
    <3> QED BY <1>6, <2>1, <3>2 DEF Amid, End, Follows
  <2> QED BY <1>0, <1>1, <1>4, <1>5, <2>1, <2>3, <2>4 DEF ArbInv
<1>8. CASE Heads[c] # <<>>
  <2>1. PICK x \in Beats : x = Queue(c)[1]
    BY <1>1, <1>8 DEF QueuesStep
  <2>2. /\ Heads[c] = <<x>> /\ Queue(c) # <<>>
        /\ Here(c) = [pkt |-> x.pkt, part |-> x.part] /\ Follows(x, Here(c)')
    BY <1>0, <1>3, <1>8, <2>1 DEF QueuesStep
  <2>3. EndsPacket(Heads) <=> x.last
    BY <1>0, <1>3, <2>2
  <2>4. x.last => Here(c)'.part = 1
    BY <2>2 DEF Follows
  <2>5. CASE arbState = "DROP"
    <3>1. outBeat' = outBeat /\ nextSeq' = nextSeq
      BY <1>1, <1>2, <2>5 DEF OutStep
    <3> QED BY <1>0, <1>1, <1>2, <1>4, <1>5, <1>6, <2>3, <2>4, <2>5, <3>1 DEF ArbInv
  <2>6. CASE arbState = "FWD"
    <3>1. outBeat' = <<x>>
      BY <1>0, <1>1, <2>2, <2>6 DEF OutStep
    <3>2. outBeat' # <<>> /\ outBeat'[1] = x /\ x \in Beats
      BY <3>1
    <3>3. target = End(x.pkt) /\ synced
      <4>1. CASE Starting
        BY <1>0, <1>5, <2>1, <2>6, <4>1 DEF Starting
      <4>2. CASE Amid
        <5>1. Follows(outBeat[1], Here(c)) /\ ~outBeat[1].last
          BY <1>0, <4>2 DEF Amid
        <5>2. x.pkt = outBeat[1].pkt
          BY <2>2, <5>1 DEF Follows
        <5> QED BY <1>5, <4>2, <5>2 DEF Amid
      <4> QED BY <1>5, <2>6, <4>1, <4>2
    <3>4. CASE x.last
      <4>1. arbState' = "IDLE" /\ nextSeq' = End(x.pkt) /\ nextSeq' \in Nat
        BY <1>1, <1>2, <2>3, <2>6, <3>3, <3>4
      <4> QED BY <1>0, <1>1, <1>2, <1>4, <1>6, <2>4, <3>1, <3>2, <3>3, <3>4, <4>1 DEF ArbInv, End
    <3>5. CASE ~x.last
      <4>1. arbState' = "FWD" /\ nextSeq' = nextSeq
        BY <1>2, <2>3, <2>6, <3>5
      <4>2. Follows(x, Here(c)')
        BY <2>2
      <4>3. Amid'
        BY <1>2, <1>6, <3>2, <3>3, <3>5, <4>2 DEF Amid, End, Follows
      <4> QED BY <1>0, <1>1, <1>2, <1>4, <3>1, <3>2, <3>3, <3>5, <4>1, <4>3 DEF ArbInv
    <3> QED BY <3>4, <3>5
  <2> QED BY <1>1, <2>5, <2>6
<1> QED BY <1>7, <1>8

MergeInv(m) == FifosInv /\ PosInv /\ CountInv(m) /\ (InStep => ArbInv)

LEMMA MergeInit == ASSUME NEW m \in Nat, BeatsFit(m), Init PROVE MergeInv(m)
<1>1. AP!DropConstants /\ BP!DropConstants
  BY FifoAssumption DEF AP!DropConstants, BP!DropConstants, A!DropConstants
<1>2. AP!DropInit /\ BP!DropInit
  BY DEF Init, AP!DropInit, A!DropInit, BP!DropInit, B!DropInit, AP!Unread, A!Unread, BP!Unread, B!Unread
<1>3. FifosInv
  BY <1>1, <1>2, AP!DropInitInv, BP!DropInitInv DEF FifosInv
<1>4. PosInv
  BY InitPos
<1>5. pos = [l \in Line |-> [pkt |-> 1, part |-> 1]] /\ adrop = 0 /\ bdrop = 0
  BY DEF Init, A!DropInit, B!DropInit
<1>6. CountInv(m)
  <2>1. Len(Feed) \in Nat /\ 1 \in 1..(Len(Feed) + 1)
    BY QuotaFacts
  <2>2. Quota(1, m) = 0
    BY DEF Quota
  <2> QED BY <1>5, <2>1, <2>2 DEF CountInv, Dropped
<1>7. \A l \in Line : Queue(l) = <<>>
  <2>1. A!Stored = <<>>
    <3>1. ahead = <<>> /\ A!MemCount = 0
      BY <1>1 DEF Init, A!DropInit, A!MemCount, A!PtrMod, AP!DropConstants
    <3> QED BY <3>1 DEF A!Stored
  <2>2. B!Stored = <<>>
    <3>1. bhead = <<>> /\ B!MemCount = 0
      BY <1>1 DEF Init, B!DropInit, B!MemCount, B!PtrMod, AP!DropConstants
    <3> QED BY <3>1 DEF B!Stored
  <2> QED BY <2>1, <2>2 DEF Queue
<1>8. ArbInv
  <2>1. \A l \in Line : Len(Queue(l)) = 0
    BY <1>7
  <2>2. \A l \in Line : Chain(Queue(l), pos[l]) /\ Here(l).part = 1
    BY <1>5, <2>1 DEF Chain, Here, Place
  <2> QED BY <2>2 DEF ArbInv, Init, ArbInit, Line
<1> QED BY <1>3, <1>4, <1>6, <1>8 DEF MergeInv

(* One clock of both lines while neither FIFO drops a beat.                *)
LinesStep(event) == \A l \in Line :
    /\ Queue(l) \in Seq(Beats)
    /\ Queue(l)' = IF event[l] = "beat" THEN Append(Kept(l), Carried(l)) ELSE Kept(l)
    /\ Heads'[l] = IF Kept(l) = <<>> THEN <<>> ELSE <<Kept(l)[1]>>
    /\ Heads[l] # <<>> => /\ Queue(l) # <<>> /\ Heads[l] = <<Queue(l)[1]>>
                          /\ Queue(l)[1] \in Beats
    /\ Queue(l) # <<>> => Here(l) = [pkt |-> Queue(l)[1].pkt, part |-> Queue(l)[1].part]
    /\ Queue(l) = <<>> => Here(l) = pos[l]

LEMMA StillInStep ==
    ASSUME NEW m \in Nat, BeatsFit(m), MergeInv(m), NEW event \in Event, Tick(event), InStep'
    PROVE  InStep /\ ArbInv /\ LinesStep(event) /\ QueuesStep
<1>1. FifosInv /\ PosInv /\ CountInv(m) /\ (InStep => ArbInv)
  BY DEF MergeInv
<1>2. \A l \in Line : Dropped(l)' = 0 =>
         /\ Dropped(l) = 0
         /\ event[l] = "beat" => (Dropped(l) + 1) % FifoDropMod # 0
  BY <1>1, CountStep
<1>3. \A l \in Line : Dropped(l)' = 0
  BY DEF InStep, Dropped
<1>4. InStep
  BY <1>2, <1>3 DEF InStep, Dropped, Line
<1>5. ArbInv
  BY <1>1, <1>4
<1>6. ASSUME NEW l \in Line
      PROVE  /\ Queue(l) \in Seq(Beats)
             /\ Queue(l)' = IF event[l] = "beat" THEN Append(Kept(l), Carried(l)) ELSE Kept(l)
             /\ Heads'[l] = IF Kept(l) = <<>> THEN <<>> ELSE <<Kept(l)[1]>>
             /\ Heads[l] # <<>> => /\ Queue(l) # <<>> /\ Heads[l] = <<Queue(l)[1]>>
                                   /\ Queue(l)[1] \in Beats
             /\ Queue(l) # <<>> => Here(l) = [pkt |-> Queue(l)[1].pkt, part |-> Queue(l)[1].part]
             /\ Queue(l) = <<>> => Here(l) = pos[l]
  <2>1. /\ Heads'[l] = IF Kept(l) = <<>> THEN <<>> ELSE <<Kept(l)[1]>>
        /\ \/ Queue(l)' = IF event[l] = "beat" THEN Append(Kept(l), Carried(l)) ELSE Kept(l)
           \/ event[l] = "beat" /\ Dropped(l)' = (Dropped(l) + 1) % FifoDropMod
    BY <1>1, QueuesMove
  <2>2. /\ Queue(l) \in Seq(Beats)
        /\ Heads[l] # <<>> => /\ Queue(l) # <<>> /\ Heads[l] = <<Queue(l)[1]>>
                              /\ Queue(l)[1] \in Beats
    BY <1>1, HeadIsFront
  <2>3. Len(Queue(l)) \in Nat /\ (Queue(l) = <<>> <=> Len(Queue(l)) = 0)
    BY <2>2, EmptySeq
  <2>4. Queue(l) # <<>> => Here(l) = [pkt |-> Queue(l)[1].pkt, part |-> Queue(l)[1].part]
    <3>1. Queue(l) # <<>> => 1 <= Len(Queue(l))
      BY <2>3
    <3> QED BY <3>1 DEF Here, Place
  <2>5. Queue(l) = <<>> => Here(l) = pos[l]
    <3>1. Queue(l) = <<>> => ~(1 <= Len(Queue(l)))
      BY <2>3
    <3> QED BY <3>1 DEF Here, Place
  <2>6. ~(event[l] = "beat" /\ Dropped(l)' = (Dropped(l) + 1) % FifoDropMod)
    BY <1>2, <1>3
  <2> QED BY <2>1, <2>2, <2>4, <2>5, <2>6
<1>7. QueuesStep
  <2> SUFFICES ASSUME NEW l \in Line
               PROVE  /\ Chain(Queue(l), pos[l])'
                      /\ Taken(l) => Queue(l)[1] \in Beats /\ Follows(Queue(l)[1], Here(l)')
                      /\ ~Taken(l) /\ Here(l).part = 1 => Here(l)'.part = 1
                      /\ ~Taken(l) => \A x \in Beats : Follows(x, Here(l)) => Follows(x, Here(l)')
                      /\ ~Taken(l) /\ Queue(l) # <<>> => Queue(l)' # <<>> /\ Queue(l)'[1] = Queue(l)[1]
                      /\ Queue(l) # <<>> => Here(l) = [pkt |-> Queue(l)[1].pkt, part |-> Queue(l)[1].part]
                      /\ Heads[l] # <<>> => /\ Queue(l) # <<>> /\ Heads[l] = <<Queue(l)[1]>>
                                            /\ Queue(l)[1] \in Beats
    BY DEF QueuesStep
  <2>1. Chain(Queue(l), pos[l])
    BY <1>5 DEF ArbInv
  <2>2. Dropped(l)' = Dropped(l) /\ (event[l] = "beat" => Dropped(l)' # (Dropped(l) + 1) % FifoDropMod)
    BY <1>2, <1>3
  <2>3. /\ Chain(Queue(l), pos[l])'
        /\ Taken(l) => Queue(l)[1] \in Beats /\ Follows(Queue(l)[1], Here(l)')
        /\ ~Taken(l) /\ Here(l).part = 1 => Here(l)'.part = 1
        /\ ~Taken(l) => \A x \in Beats : Follows(x, Here(l)) => Follows(x, Here(l)')
        /\ ~Taken(l) /\ Queue(l) # <<>> => Queue(l)' # <<>> /\ Queue(l)'[1] = Queue(l)[1]
    BY <1>1, <2>1, <2>2, HereMoves
  <2> QED BY <1>6, <2>3
<1> QED BY <1>4, <1>5, <1>6, <1>7 DEF LinesStep

LEMMA MergeStep ==
    ASSUME NEW m \in Nat, BeatsFit(m), MergeInv(m), NEW event \in Event, Tick(event)
    PROVE  MergeInv(m)'
<1>1. FifosInv /\ PosInv /\ CountInv(m) /\ (InStep => ArbInv)
  BY DEF MergeInv
<1>2. FifosInv'
  <2>1. "A" \in Line
    BY DEF Line
  <2> QED BY <1>1, <2>1, QueuesMove
<1>3. PosInv'
  BY <1>1, LinesKeepPos DEF Tick
<1>4. CountInv(m)'
  BY <1>1, CountStep
<1>5. ASSUME InStep' PROVE ArbInv'
  <2>1. ArbInv /\ QueuesStep
    BY <1>5, StillInStep
  <2>2. OutStep /\ ArbTick(Heads)
    BY DEF Tick, OutStep
  <2> QED BY <2>1, <2>2, IdleStep, ServeStep
<1> QED BY <1>2, <1>3, <1>4, <1>5 DEF MergeInv

LEMMA MergeStutters ==
    ASSUME NEW m \in Nat, MergeInv(m), UNCHANGED vars
    PROVE  MergeInv(m)'
<1>1. UNCHANGED arbVars /\ UNCHANGED afifo /\ UNCHANGED bfifo /\ UNCHANGED <<pos, outBeat>>
  BY DEF vars, envVars
<1>2. FifosInv'
  <2>1. AP!DropInv'
    BY <1>1 DEF afifo, MergeInv, FifosInv, AP!DropInv, AP!Live, AP!MemCount, AP!Full
  <2>2. BP!DropInv'
    BY <1>1 DEF bfifo, MergeInv, FifosInv, BP!DropInv, BP!Live, BP!MemCount, BP!Full
  <2> QED BY <2>1, <2>2 DEF FifosInv
<1>3. PosInv' /\ CountInv(m)'
  BY <1>1 DEF afifo, bfifo, MergeInv, PosInv, CountInv, Dropped
<1>4. InStep' => ArbInv'
  <2>1. \A l : Queue(l)' = Queue(l) /\ Here(l)' = Here(l)
    <3>1. A!Stored' = A!Stored /\ B!Stored' = B!Stored
      BY <1>1 DEF afifo, bfifo, A!Stored, B!Stored, A!MemCount, B!MemCount
    <3>2. \A l : Queue(l)' = Queue(l)
      BY <3>1 DEF Queue
    <3> QED BY <1>1, <3>2 DEF Here, Place
  <2>2. Starting' = Starting /\ Amid' = Amid
    BY <1>1, <2>1 DEF arbVars, Starting, Amid, Queue, Here, Follows, End
  <2>3. InStep' = InStep
    BY <1>1 DEF afifo, bfifo, InStep
  <2> QED BY <1>1, <2>1, <2>2, <2>3 DEF arbVars, MergeInv, ArbInv, Chain, Follows, Place, End
<1> QED BY <1>2, <1>3, <1>4 DEF MergeInv

LEMMA MergeMeans == ASSUME NEW m \in Nat, MergeInv(m) PROVE MergedInOrder
<1> SUFFICES ASSUME InStep, Output(Heads) # <<>>
             PROVE  LET beat == Head(Output(Heads)) IN
                    IF outBeat = <<>> THEN beat.part = 1
                    ELSE LET before == Head(outBeat) IN
                         IF before.last THEN beat.part = 1 /\ Feed[beat.pkt].seq >= End(before.pkt)
                         ELSE beat.pkt = before.pkt /\ beat.part = before.part + 1
  BY DEF MergedInOrder
<1>1. FifosInv /\ ArbInv
  BY DEF MergeInv
<1>2. arbState = "FWD" /\ Output(Heads) = Heads[sel] /\ sel \in Line
  BY <1>1 DEF ArbInv, Output, Served
<1>3. PICK x \in Beats : x = Queue(sel)[1] /\ Heads[sel] = <<x>> /\ Queue(sel) # <<>>
  BY <1>1, <1>2, HeadIsFront
<1>4. Head(Output(Heads)) = x
  BY <1>2, <1>3
<1>5. outBeat # <<>> => Head(outBeat) = outBeat[1]
  OBVIOUS
<1>6. CASE Starting
  BY <1>3, <1>4, <1>5, <1>6 DEF Starting
<1>7. CASE Amid
  <2>1. Here(sel) = [pkt |-> x.pkt, part |-> x.part]
    <3>1. Queue(sel) \in Seq(Beats)
      BY <1>1, <1>2, HeadIsFront
    <3>2. 1 <= Len(Queue(sel))
      BY <1>3, <3>1, EmptySeq
    <3> QED BY <1>3, <3>2 DEF Here, Place
  <2>2. outBeat # <<>> /\ ~outBeat[1].last /\ Follows(outBeat[1], Here(sel))
    BY <1>7 DEF Amid
  <2>3. x.pkt = outBeat[1].pkt /\ x.part = outBeat[1].part + 1
    BY <2>1, <2>2 DEF Follows
  <2> QED BY <1>4, <1>5, <2>2, <2>3
<1> QED BY <1>1, <1>2, <1>6, <1>7 DEF ArbInv

(* What leaves the arbiter is whole packets of either line in order, none  *)
(* started before the end of the last (feed_ab_arb.sv), as long as neither *)
(* FIFO has dropped a beat and no counter could have come round to zero.   *)
THEOREM MergedStreamInOrder == ASSUME FewerBeatsThanCounted PROVE Spec => []MergedInOrder
<1>1. PICK m \in Nat : BeatsFit(m)
  BY DEF FewerBeatsThanCounted
<1>2. Init => MergeInv(m)
  BY <1>1, MergeInit
<1>3. MergeInv(m) /\ [Next]_vars => MergeInv(m)'
  <2> SUFFICES ASSUME MergeInv(m), [Next]_vars PROVE MergeInv(m)'
    OBVIOUS
  <2>1. CASE Next
    <3>1. PICK event \in Event : Tick(event)
      BY <2>1 DEF Next, Event
    <3> QED BY <1>1, <3>1, MergeStep
  <2>2. CASE UNCHANGED vars
    BY <2>2, MergeStutters
  <2> QED BY <2>1, <2>2
<1>4. MergeInv(m) => MergedInOrder
  BY <1>1, MergeMeans
<1> QED BY <1>2, <1>3, <1>4, PTL DEF Spec
-----------------------------------------------------------------------------
(***************************************************************************)
(* What the stream never carried.  A packet that a line's queue has gone   *)
(* past was lost on that line or is behind the stream; the arbiter gives   *)
(* up a packet only after a wait that outlasts its lag.                    *)
(***************************************************************************)
PatientEnough == Skew \in Nat /\ Skew <= AheadStall

Other(l) == IF l = "A" THEN "B" ELSE "A"

Behind(n) == sent # {} /\ End(n) <= nextSeq
LostOnBoth == lostOn["A"] \cap lostOn["B"]

(* Between two in a row of a line's queue it has lost all.                 *)
Gaps(q, p, lost) ==
    \A i \in 1..Len(q) : \A n \in Packet :
        q[i].pkt < n /\ n < Place(q, p, i + 1).pkt => n \in lost
Accounted(l) ==
    /\ Gaps(Queue(l), pos[l], lostOn[l])
    /\ \A n \in Packet : n < Here(l).pkt => n \in lostOn[l] \/ Behind(n)

(* nextSeq is the boundary of two packets.                                 *)
Aligned == sent # {} => \A n \in Packet : End(n) <= nextSeq \/ nextSeq <= Feed[n].seq

(* The packet that is being dropped is behind the stream, and the packets  *)
(* of messages that the one being forwarded jumps were lost on both lines. *)
Dropping == \/ Queue(sel) # <<>> /\ Behind(Queue(sel)[1].pkt)
            \/ \E x \in Beats : ~x.last /\ Follows(x, Here(sel)) /\ Behind(x.pkt)
Current(n) == \/ Starting /\ n = Queue(sel)[1].pkt
              \/ Amid /\ n = outBeat[1].pkt
Skipping == \A c \in Packet : Current(c) /\ sent # {} =>
    /\ nextSeq <= Feed[c].seq
    /\ \A n \in Data : n < c => Behind(n) \/ n \in LostOnBoth

StreamInv ==
    /\ \A l \in Line : Accounted(l)
    /\ Aligned /\ sent \subseteq Packet
    /\ synced /\ arbState # "FWD" => sent # {}
    /\ sent # {} => synced
    /\ arbState = "DROP" => Dropping
    /\ arbState = "FWD" => Skipping
    /\ Missed \subseteq LostOnBoth

(* While the arbiter counts, a head stands before it that is ahead, and    *)
(* stays.  A packet that head's line has passed and the other has not lags *)
(* by more cycles than were counted; when the other brings it, one cycle   *)
(* before its head shows it, patience is not yet out.                      *)
Waiting(l) == /\ Heads[l] # <<>> /\ Head(Heads[l]).seq > nextSeq
              /\ ~(arbState = "DROP" /\ sel = l)
Lagging(l) ==
    \A i \in 1..Len(Queue(l)) :
        /\ Queue(l)[i].pkt <= pos[l].pkt
        /\ \A n \in Packet : n < Queue(l)[i].pkt /\ pos[Other(l)].pkt <= n => lag[n] >= 1
Patient(l) ==
    Heads[l] # <<>> => \A n \in Packet : n < Head(Heads[l]).pkt =>
        /\ pos[Other(l)].pkt <= n /\ ~Waiting(Other(l)) => waitCnt + 2 <= lag[n]
        /\ Heads[Other(l)] = <<>> /\ Here(Other(l)).pkt <= n => waitCnt + 1 <= Skew

WaitInv ==
    /\ lag \in [Packet -> 0..Skew] /\ waitCnt \in Nat
    /\ arbState = "FWD" => waitCnt = 0
    /\ waitCnt # 0 => \E l \in Line : Waiting(l)
    /\ \A l \in Line : Lagging(l) /\ Patient(l)
-----------------------------------------------------------------------------
(* The numbers of the feed rise from packet to packet.                     *)
LEMMA NumberFacts ==
    ASSUME NEW n \in Packet
    PROVE  /\ n \in Nat /\ Feed[n].seq \in Nat /\ End(n) \in Nat /\ Feed[n].seq <= End(n)
           /\ n \in Data => Feed[n].seq < End(n)
<1>1. Feed[n].seq \in Nat /\ Feed[n].cnt \in Nat
  <2> DEFINE S == [seq : Nat, cnt : Nat, beats : Nat \ {0}]
  <2>1. Feed \in Seq(S)
    BY FeedAssumption
  <2> HIDE DEF S
  <2>2. Len(Feed) \in Nat /\ Packet = 1..Len(Feed)
    BY <2>1, LenProperties DEF Packet
  <2>3. Feed[n] \in S
    BY <2>1, <2>2, ElementOfSeq
  <2> QED BY <2>3 DEF S
<1>2. n \in Nat
  BY PacketFacts
<1>3. n \in Data => Feed[n].cnt > 0
  BY DEF Data
<1> QED BY <1>1, <1>2, <1>3 DEF End

LEMMA LeastExists ==
    ASSUME NEW I \in SUBSET Nat, I # {}
    PROVE  \E x \in I : \A y \in I : x <= y
<1>1. PICK x \in I : \A y \in I : ~(<<y, x>> \in OpToRel(<, Nat))
  BY NatLessThanWellFounded, WFMin
<1>2. \A y \in I : ~(y < x)
  BY <1>1 DEF OpToRel
<1> QED BY <1>2

LEMMA FeedRises ==
    ASSUME NEW m \in Packet, NEW n \in Packet, m < n
    PROVE  End(m) <= Feed[n].seq
<1> DEFINE bad == {k \in Packet : m < k /\ ~(End(m) <= Feed[k].seq)}
<1>1. bad \in SUBSET Nat
  BY PacketFacts
<1>2. ASSUME bad # {} PROVE FALSE
  <2>1. PICK k \in bad : \A y \in bad : k <= y
    <3> HIDE DEF bad
    <3> QED BY <1>1, <1>2, LeastExists
  <2>2. Packet = 1..Len(Feed) /\ Len(Feed) \in Nat
    <3>1. Feed \in Seq([seq : Nat, cnt : Nat, beats : Nat \ {0}])
      BY FeedAssumption
    <3> QED BY <3>1, LenProperties DEF Packet
  <2>3. k \in Packet /\ m < k /\ ~(End(m) <= Feed[k].seq)
    BY <2>1
  <2>4. m \in Nat /\ k \in Nat /\ m >= 1 /\ k - 1 \in Packet /\ k \in Packet \ {1} /\ m <= k - 1
    BY <2>2, <2>3
  <2>5. /\ End(m) \in Nat /\ Feed[k].seq \in Nat /\ Feed[k - 1].seq \in Nat
        /\ Feed[k - 1].seq <= End(k - 1)
    BY <2>3, <2>4, NumberFacts
  <2>6. Feed[k].seq = End(k - 1)
    BY <2>4, FeedAssumption DEF End
  <2>7. CASE m = k - 1
    BY <2>3, <2>5, <2>6, <2>7
  <2>8. CASE m < k - 1
    <3>1. k - 1 \in bad
      <4>1. ~(End(m) <= Feed[k - 1].seq)
        BY <2>3, <2>4, <2>5, <2>6, NumberFacts
      <4> QED BY <2>4, <2>8, <4>1
    <3>2. k <= k - 1
      BY <2>1, <3>1
    <3> QED BY <2>4, <3>2
  <2> QED BY <2>4, <2>7, <2>8
<1> QED BY <1>2

LEMMA EndsRise ==
    ASSUME NEW m \in Packet, NEW n \in Packet, m <= n
    PROVE  End(m) <= End(n)
<1>1. /\ m \in Nat /\ n \in Nat /\ End(m) \in Nat /\ End(n) \in Nat
      /\ Feed[n].seq \in Nat /\ Feed[n].seq <= End(n)
  BY NumberFacts
<1>2. CASE m = n
  BY <1>1, <1>2
<1>3. CASE m < n
  BY <1>1, <1>3, FeedRises
<1> QED BY <1>1, <1>2, <1>3
-----------------------------------------------------------------------------
(* What a clock does to the end of a queue loses nothing unnoticed.        *)
Grows(q, p, lost, s, r, lost2) ==
    \/ s = q /\ r = p /\ lost2 = lost
    \/ s = q /\ r.pkt = p.pkt + 1 /\ lost2 = lost \cup {p.pkt}
    \/ \E b \in Beats : s = Append(q, b) /\ b.pkt = p.pkt /\ r.pkt \in {p.pkt, p.pkt + 1} /\ lost2 = lost

LEMMA GapsGrow ==
    ASSUME NEW q \in Seq(Beats), NEW p \in PlaceType, NEW s, NEW r \in PlaceType, NEW lost, NEW lost2,
           Gaps(q, p, lost), Grows(q, p, lost, s, r, lost2)
    PROVE  /\ Gaps(s, r, lost2) /\ lost \subseteq lost2
           /\ \A n \in Packet : n < Place(s, r, 1).pkt => n < Place(q, p, 1).pkt \/ n \in lost2
<1>0. /\ Len(q) \in Nat /\ (q = <<>> <=> Len(q) = 0) /\ p.pkt \in Nat /\ r.pkt \in Nat
      /\ \A n \in Packet : n \in Nat
      /\ \A i \in 1..Len(q) : \A n \in Packet :
            q[i].pkt < n /\ n < Place(q, p, i + 1).pkt => n \in lost
  BY EmptySeq, PacketFacts DEF PlaceType, Gaps
<1>1. CASE s = q /\ r = p /\ lost2 = lost
  BY <1>1
<1>2. CASE s = q /\ r.pkt = p.pkt + 1 /\ lost2 = lost \cup {p.pkt}
  <2>1. ASSUME NEW i \in 1..(Len(q) + 1), NEW n \in Packet, n < Place(q, r, i).pkt
        PROVE  n < Place(q, p, i).pkt \/ n \in lost2
    <3>1. CASE i <= Len(q)
      BY <2>1, <3>1 DEF Place
    <3>2. CASE ~(i <= Len(q))
      <4>1. Place(q, r, i) = r /\ Place(q, p, i) = p
        BY <3>2 DEF Place
      <4>2. n < p.pkt \/ n = p.pkt
        BY <1>0, <1>2, <2>1, <4>1
      <4> QED BY <1>2, <4>1, <4>2
    <3> QED BY <3>1, <3>2
  <2>2. \A i \in 1..Len(q) : i + 1 \in 1..(Len(q) + 1)
    BY <1>0
  <2>3. 1 \in 1..(Len(q) + 1)
    BY <1>0
  <2>4. Gaps(s, r, lost2)
    BY <1>0, <1>2, <2>1, <2>2 DEF Gaps
  <2> QED BY <1>2, <2>1, <2>3, <2>4
<1>3. CASE \E b \in Beats : /\ s = Append(q, b) /\ b.pkt = p.pkt
                            /\ r.pkt \in {p.pkt, p.pkt + 1} /\ lost2 = lost
  <2>1. PICK b \in Beats : /\ s = Append(q, b) /\ b.pkt = p.pkt
                           /\ r.pkt \in {p.pkt, p.pkt + 1} /\ lost2 = lost
    BY <1>3
  <2>2. /\ Len(s) = Len(q) + 1 /\ s[Len(q) + 1] = b
        /\ \A i \in 1..Len(q) : s[i] = q[i]
    BY <2>1, AppendProperties
  <2>3. ASSUME NEW i \in 1..(Len(q) + 1) PROVE Place(s, r, i).pkt = Place(q, p, i).pkt
    <3>1. CASE i <= Len(q)
      <4>1. i \in 1..Len(q) /\ i <= Len(s)
        BY <1>0, <2>2, <3>1
      <4> QED BY <2>2, <3>1, <4>1 DEF Place
    <3>2. CASE i = Len(q) + 1
      BY <1>0, <2>1, <2>2, <3>2 DEF Place
    <3> QED BY <1>0, <3>1, <3>2
  <2>4. ASSUME NEW i \in 1..Len(s), NEW n \in Packet, s[i].pkt < n, n < Place(s, r, i + 1).pkt
        PROVE  n \in lost2
    <3>1. CASE i <= Len(q)
      <4>1. i \in 1..Len(q) /\ i + 1 \in 1..(Len(q) + 1)
        BY <1>0, <3>1
      <4> QED BY <1>0, <2>1, <2>2, <2>3, <2>4, <4>1
    <3>2. CASE i = Len(q) + 1
      <4>1. Place(s, r, i + 1) = r
        BY <1>0, <2>2, <3>2 DEF Place
      <4>2. p.pkt < n /\ n < r.pkt
        BY <2>1, <2>2, <2>4, <3>2, <4>1
      <4> QED BY <1>0, <2>1, <4>2
    <3> QED BY <1>0, <2>2, <3>1, <3>2
  <2>5. 1 \in 1..(Len(q) + 1)
    BY <1>0
  <2> QED BY <2>1, <2>3, <2>4, <2>5 DEF Gaps
<1> QED BY <1>1, <1>2, <1>3 DEF Grows

LEMMA GapsTail ==
    ASSUME NEW q \in Seq(Beats), q # <<>>, NEW p \in PlaceType, NEW lost, Gaps(q, p, lost)
    PROVE  /\ Tail(q) \in Seq(Beats) /\ Gaps(Tail(q), p, lost)
           /\ \A n \in Packet : q[1].pkt < n /\ n < Place(Tail(q), p, 1).pkt => n \in lost
<1>1. /\ Tail(q) \in Seq(Beats) /\ Len(Tail(q)) = Len(q) - 1 /\ Len(q) \in Nat /\ Len(q) >= 1
      /\ \A i \in 1..(Len(q) - 1) : Tail(q)[i] = q[i + 1]
  <2>1. Len(q) \in Nat /\ Len(q) # 0
    BY EmptySeq
  <2> QED BY <2>1, HeadTailProperties
<1>2. \A i \in 1..Len(q) : Place(Tail(q), p, i) = Place(q, p, i + 1)
  BY <1>1 DEF Place
<1>3. ASSUME NEW i \in 1..Len(Tail(q)), NEW n \in Packet,
             Tail(q)[i].pkt < n, n < Place(Tail(q), p, i + 1).pkt
      PROVE  n \in lost
  <2>1. i \in 1..Len(q) /\ i + 1 \in 1..Len(q) /\ Tail(q)[i] = q[i + 1]
    BY <1>1
  <2> QED BY <1>2, <1>3, <2>1 DEF Gaps
<1>4. 1 \in 1..Len(q)
  BY <1>1
<1>5. \A n \in Packet : q[1].pkt < n /\ n < Place(Tail(q), p, 1).pkt => n \in lost
  BY <1>2, <1>4 DEF Gaps
<1> QED BY <1>1, <1>3, <1>5 DEF Gaps

LEMMA LineAccount ==
    ASSUME PosInv, NEW event \in Event, Lines(event), LinesStep(event), NEW l \in Line,
           Gaps(Queue(l), pos[l], lostOn[l])
    PROVE  /\ Gaps(Queue(l), pos[l], lostOn[l])'
           /\ lostOn[l] \subseteq lostOn'[l]
           /\ \A n \in Packet : n < Here(l)'.pkt =>
                 \/ n \in lostOn'[l]
                 \/ IF Taken(l) THEN n <= Queue(l)[1].pkt ELSE n < Here(l).pkt
<1> DEFINE q == Queue(l)
           k == Kept(l)
           s == Queue(l)'
           p == pos[l]
           r == pos'[l]
           lost == lostOn[l]
           lost2 == lostOn'[l]
<1>1. /\ q \in Seq(Beats) /\ (Heads[l] # <<>> => q # <<>>)
      /\ s = IF event[l] = "beat" THEN Append(k, Carried(l)) ELSE k
      /\ k = IF Taken(l) THEN Tail(q) ELSE q
  BY DEF LinesStep, Kept
<1>2. /\ p \in PlaceType /\ r \in PlaceType /\ event[l] \in {"none", "lose", "beat"}
      /\ event[l] = "none" => r = p
      /\ event[l] = "lose" => r.pkt = p.pkt + 1
      /\ event[l] = "beat" => /\ Carried(l) \in Beats /\ Carried(l).pkt = p.pkt
                              /\ r.pkt \in {p.pkt, p.pkt + 1}
  <2>1. /\ p \in PlaceType /\ r \in PlaceType /\ event[l] \in {"none", "lose", "beat"}
        /\ event[l] = "none" => r = p
        /\ event[l] = "lose" => r = [pkt |-> p.pkt + 1, part |-> 1]
        /\ event[l] = "beat" =>
             /\ Carried(l) \in Beats /\ Carried(l).pkt = p.pkt
             /\ r = IF p.part = Feed[p.pkt].beats THEN [pkt |-> p.pkt + 1, part |-> 1]
                    ELSE [pkt |-> p.pkt, part |-> p.part + 1]
    BY CarryMoves
  <2> HIDE DEF p, r
  <2>2. event[l] = "lose" => r.pkt = p.pkt + 1
    BY <2>1
  <2>3. event[l] = "beat" => r.pkt \in {p.pkt, p.pkt + 1}
    BY <2>1
  <2> QED BY <2>1, <2>2, <2>3
<1>3. lost2 = lost \cup (IF event[l] = "lose" THEN {p.pkt} ELSE {})
  BY DEF Lines
<1>4. Here(l) = Place(q, p, 1) /\ Here(l)' = Place(s, r, 1) /\ Gaps(q, p, lost)
      /\ (Gaps(s, r, lost2) => Gaps(Queue(l), pos[l], lostOn[l])')
  <2>1. Here(l) = Place(q, p, 1) /\ Gaps(q, p, lost)
    BY DEF Here
  <2>2. Here(l)' = Place(s, r, 1)
    BY DEF Here, Place
  <2>3. \A a, b, c : a = Queue(l)' /\ b = pos'[l] /\ c = lostOn'[l] /\ Gaps(a, b, c)
                       => Gaps(Queue(l), pos[l], lostOn[l])'
    BY DEF Gaps, Place
  <2> QED BY <2>1, <2>2, <2>3
<1>5. Grows(k, p, lost, s, r, lost2)
  <2> HIDE DEF q, k, p, s, r, lost, lost2
  <2>1. CASE event[l] = "none"
    BY <1>1, <1>2, <1>3, <2>1 DEF Grows
  <2>2. CASE event[l] = "lose"
    BY <1>1, <1>2, <1>3, <2>2 DEF Grows
  <2>3. CASE event[l] = "beat"
    BY <1>1, <1>2, <1>3, <2>3 DEF Grows
  <2> QED BY <1>2, <2>1, <2>2, <2>3
<1>6. \A n \in Packet : n \in Nat
  BY PacketFacts
<1>7. CASE ~Taken(l)
  <2>1. k = q
    BY <1>1, <1>7
  <2> HIDE DEF q, k, p, s, r, lost, lost2
  <2>2. /\ Gaps(s, r, lost2) /\ lost \subseteq lost2
        /\ \A n \in Packet : n < Place(s, r, 1).pkt => n < Place(q, p, 1).pkt \/ n \in lost2
    <3>1. Gaps(q, p, lost) /\ Grows(q, p, lost, s, r, lost2) /\ q \in Seq(Beats)
      BY <1>1, <1>4, <1>5, <2>1
    <3> QED BY <1>2, <3>1, GapsGrow
  <2>3. \A n \in Packet : n < Here(l)'.pkt => n \in lost2 \/ n < Here(l).pkt
    BY <1>4, <2>2, Zenon
  <2>4. Gaps(Queue(l), pos[l], lostOn[l])'
    BY <1>4, <2>2
  <2> QED BY <1>7, <2>2, <2>3, <2>4 DEF lost, lost2
<1>8. CASE Taken(l)
  <2>1. q # <<>> /\ k = Tail(q)
    BY <1>1, <1>8 DEF Taken
  <2>2. q[1].pkt \in Nat
    <3>1. Queue(l)[1] \in Beats
      BY <1>8 DEF Taken, LinesStep
    <3> QED BY <3>1, BeatFacts
  <2> HIDE DEF q, k, p, s, r, lost, lost2
  <2>3. /\ k \in Seq(Beats) /\ Gaps(k, p, lost)
        /\ \A n \in Packet : q[1].pkt < n /\ n < Place(k, p, 1).pkt => n \in lost
    BY <1>1, <1>2, <1>4, <2>1, GapsTail
  <2>4. /\ Gaps(s, r, lost2) /\ lost \subseteq lost2
        /\ \A n \in Packet : n < Place(s, r, 1).pkt => n < Place(k, p, 1).pkt \/ n \in lost2
    BY <1>2, <1>5, <2>3, GapsGrow
  <2>5. ASSUME NEW n \in Packet, n < Here(l)'.pkt PROVE n \in lost2 \/ n <= q[1].pkt
    <3>1. n < Place(k, p, 1).pkt \/ n \in lost2
      BY <1>4, <2>4, <2>5, Zenon
    <3>2. n <= q[1].pkt \/ q[1].pkt < n
      BY <1>6, <2>2
    <3> QED BY <2>3, <2>4, <3>1, <3>2
  <2>6. Gaps(Queue(l), pos[l], lostOn[l])'
    BY <1>4, <2>4
  <2> QED BY <1>8, <2>4, <2>5, <2>6 DEF lost, lost2, q
<1> QED BY <1>7, <1>8

(* What the arbiter does between packets, with its pick.                   *)
LEMMA IdleCases ==
    ASSUME ArbTick(Heads), arbState = "IDLE"
    PROVE  /\ Served(Heads) = {} /\ Output(Heads) = <<>> /\ nextSeq' = nextSeq
           /\ \/ /\ UNCHANGED <<arbState, sel>> /\ (synced' <=> synced)
                 /\ waitCnt' = waitCnt \/ (waitCnt' = waitCnt + 1 /\ synced /\ Kind(Heads) = "AHEAD")
              \/ /\ synced /\ synced' /\ Kind(Heads) = "DUP" /\ Serve(Heads, "DROP")
                 /\ waitCnt' = waitCnt
              \/ /\ Forward(Heads) /\ Kind(Heads) # "NONE" /\ synced'
                 /\ synced => Kind(Heads) = "FWD" \/ GapNow(Heads)
<1>1. Served(Heads) = {} /\ Output(Heads) = <<>> /\ nextSeq' = nextSeq
  BY DEF Served, Output, ArbTick
<1>2. CASE ArbLock(Heads)
  BY <1>1, <1>2 DEF ArbLock
<1>3. CASE ArbPick(Heads)
  <2>1. CASE Kind(Heads) = "FWD" \/ GapNow(Heads)
    BY <1>1, <1>3, <2>1 DEF ArbPick, GapNow
  <2>2. CASE ~(Kind(Heads) = "FWD" \/ GapNow(Heads)) /\ Kind(Heads) = "DUP"
    BY <1>1, <1>3, <2>2 DEF ArbPick
  <2>3. CASE ~(Kind(Heads) = "FWD" \/ GapNow(Heads)) /\ Kind(Heads) # "DUP"
    <3>1. /\ waitCnt' = IF Kind(Heads) = "AHEAD" THEN waitCnt + 1 ELSE waitCnt
          /\ UNCHANGED <<arbState, sel, target>> /\ synced /\ UNCHANGED synced
      BY <1>3, <2>3 DEF ArbPick
    <3> QED BY <1>1, <3>1
  <2> QED BY <2>1, <2>2, <2>3
<1> QED BY <1>2, <1>3 DEF ArbTick
-----------------------------------------------------------------------------
SentStep == sent' = sent \cup (IF Output(Heads) # <<>> /\ Head(Output(Heads)).last
                               THEN {Head(Output(Heads)).pkt} ELSE {})

(* One clock, seen from the stream.                                        *)
Clocked(event) == /\ PosInv /\ ArbInv /\ StreamInv
                  /\ Lines(event) /\ LinesStep(event) /\ QueuesStep
                  /\ ArbTick(Heads) /\ OutStep /\ SentStep

LEMMA AccountedStays ==
    ASSUME PosInv, NEW event \in Event, Lines(event), LinesStep(event), NEW l \in Line, Accounted(l),
           \A n \in Packet : Behind(n) => Behind(n)',
           Taken(l) => \A n \in Packet : n = Queue(l)[1].pkt /\ n < Here(l)'.pkt => Behind(n)'
    PROVE  Accounted(l)' /\ lostOn[l] \subseteq lostOn'[l]
<1>1. /\ Gaps(Queue(l), pos[l], lostOn[l])
      /\ \A n \in Packet : n < Here(l).pkt => n \in lostOn[l] \/ Behind(n)
  BY DEF Accounted
<1>2. /\ Gaps(Queue(l), pos[l], lostOn[l])'
      /\ lostOn[l] \subseteq lostOn'[l]
      /\ \A n \in Packet : n < Here(l)'.pkt =>
            \/ n \in lostOn'[l]
            \/ IF Taken(l) THEN n <= Queue(l)[1].pkt ELSE n < Here(l).pkt
  BY <1>1, LineAccount
<1>3. ASSUME NEW n \in Packet, n < Here(l)'.pkt PROVE n \in lostOn'[l] \/ Behind(n)'
  <2>1. CASE n < Here(l).pkt
    BY <1>1, <1>2, <2>1
  <2>2. CASE ~(n < Here(l).pkt)
    <3>1. CASE Taken(l)
      <4>0. /\ Queue(l)[1] \in Beats
            /\ Here(l) = [pkt |-> Queue(l)[1].pkt, part |-> Queue(l)[1].part]
        BY <3>1 DEF Taken, LinesStep
      <4>1. /\ Queue(l)[1] \in Beats /\ Here(l).pkt = Queue(l)[1].pkt
        BY <4>0
      <4>2. Queue(l)[1].pkt \in Nat /\ n \in Nat
        BY <4>1, BeatFacts, PacketFacts
      <4>3. n <= Queue(l)[1].pkt => n = Queue(l)[1].pkt
        BY <2>2, <4>1, <4>2
      <4> QED BY <1>2, <1>3, <3>1, <4>3
    <3>2. CASE ~Taken(l)
      BY <1>2, <1>3, <2>2, <3>2
    <3> QED BY <3>1, <3>2
  <2> QED BY <2>1, <2>2
<1>4. (\A n \in Packet : n < Here(l).pkt => n \in lostOn[l] \/ Behind(n))'
  BY <1>3
<1> QED BY <1>2, <1>4 DEF Accounted

(* A clock in which no packet is finished.                                 *)
LEMMA StreamStands ==
    ASSUME NEW event \in Event, Clocked(event), sent' = sent, nextSeq' = nextSeq,
           \A l \in Line : Taken(l) => \A n \in Packet :
               n = Queue(l)[1].pkt /\ n < Here(l)'.pkt => Behind(n)
    PROVE  /\ \A l \in Line : Accounted(l)' /\ lostOn[l] \subseteq lostOn'[l]
           /\ Aligned' /\ sent' \subseteq Packet /\ Missed' \subseteq LostOnBoth'
           /\ LostOnBoth \subseteq LostOnBoth' /\ \A n \in Packet : Behind(n)' <=> Behind(n)
<1>1. /\ PosInv /\ Lines(event) /\ LinesStep(event)
      /\ \A l \in Line : Accounted(l)
      /\ Aligned /\ sent \subseteq Packet /\ Missed \subseteq LostOnBoth
  BY DEF Clocked, StreamInv
<1>2. \A n \in Packet : Behind(n)' <=> Behind(n)
  BY DEF Behind, End
<1>3. \A l \in Line : Accounted(l)' /\ lostOn[l] \subseteq lostOn'[l]
  BY <1>1, <1>2, AccountedStays
<1>4. Aligned'
  BY <1>1 DEF Aligned, End
<1>5. LostOnBoth \subseteq LostOnBoth'
  BY <1>3 DEF LostOnBoth, Line
<1>6. Missed' = Missed
  BY DEF Missed, Data, End
<1> QED BY <1>1, <1>2, <1>3, <1>4, <1>5, <1>6

(* What is forwarded by number, or after a wait, skips only what both      *)
(* lines have lost.                                                        *)
LEMMA JumpIsLoss ==
    ASSUME NEW event \in Event, Clocked(event), WaitInv, PatientEnough, ArbAssumption,
           arbState = "IDLE", synced, Kind(Heads) = "FWD" \/ GapNow(Heads)
    PROVE  LET c == Queue(Picked(Heads))[1].pkt IN
           /\ c \in Packet /\ nextSeq <= Feed[c].seq
           /\ \A n \in Data : n < c => Behind(n) \/ n \in LostOnBoth
<1>1. /\ ArbInv /\ LinesStep(event) /\ nextSeq \in Nat /\ sent # {}
      /\ \A l \in Line : Accounted(l) /\ Here(l).part = 1
  BY DEF Clocked, ArbInv, StreamInv
<1>2. ASSUME NEW l \in Line, Heads[l] # <<>>
      PROVE  /\ Queue(l)[1] \in Beats /\ Head(Heads[l]) = Queue(l)[1]
             /\ Here(l).pkt = Queue(l)[1].pkt
             /\ Queue(l)[1].pkt \in Packet /\ Queue(l)[1].seq = Feed[Queue(l)[1].pkt].seq
  <2>1. /\ Heads[l] = <<Queue(l)[1]>> /\ Queue(l)[1] \in Beats
        /\ Here(l) = [pkt |-> Queue(l)[1].pkt, part |-> Queue(l)[1].part]
    BY <1>1, <1>2 DEF LinesStep
  <2>2. Queue(l)[1].part = 1
    <3>1. Here(l).part = 1
      BY <1>1
    <3> QED BY <2>1, <3>1
  <2> QED BY <2>1, <2>2, BeatFacts
<1>3. \A l \in Line : Heads[l] # <<>> => Head(Heads[l]).seq \in Nat
  BY <1>2, NumberFacts
<1>4. PICK s \in Line : s = Picked(Heads)
  BY <1>1, <1>3, PickFacts
<1>5. Heads[s] # <<>>
  BY <1>1, <1>3, <1>4, PickFacts DEF GapNow
<1>6. PICK c \in Packet : c = Queue(s)[1].pkt
  BY <1>2, <1>5
<1>7. Here(s).pkt = c /\ Head(Heads[s]).seq = Feed[c].seq /\ Head(Heads[s]).pkt = c
  BY <1>2, <1>5, <1>6
<1>8. c \in Nat /\ Feed[c].seq \in Nat
  BY NumberFacts
<1>9. CASE Kind(Heads) = "FWD"
  <2>1. Feed[c].seq = nextSeq
    BY <1>1, <1>3, <1>4, <1>7, <1>9, PickFacts
  <2>2. ASSUME NEW n \in Data, n < c PROVE Behind(n)
    <3>1. n \in Packet
      BY DEF Data
    <3>2. End(n) <= Feed[c].seq
      BY <2>2, <3>1, FeedRises
    <3> QED BY <1>1, <2>1, <3>2 DEF Behind
  <2>3. nextSeq <= Feed[c].seq
    BY <1>1, <2>1
  <2> QED BY <1>4, <1>6, <2>2, <2>3
<1>10. CASE GapNow(Heads)
  <2>1. /\ Feed[c].seq > nextSeq /\ waitCnt >= AheadStall
        /\ \A l \in Line : Heads[l] # <<>> => Feed[c].seq <= Head(Heads[l]).seq
    BY <1>1, <1>3, <1>4, <1>5, <1>7, <1>10, PickFacts DEF GapNow
  <2>2. ASSUME NEW n \in Data, n < c, ~Behind(n) PROVE n \in LostOnBoth
    <3>1. n \in Packet /\ n \in Nat /\ Feed[n].seq \in Nat /\ End(n) \in Nat /\ Feed[n].seq < End(n)
      <4>1. n \in Packet
        BY DEF Data
      <4> QED BY <4>1, NumberFacts
    <3>2. n \in lostOn[s]
      BY <1>1, <1>7, <2>2, <3>1 DEF Accounted
    <3>3. PICK o \in Line : o = Other(s)
      BY DEF Other, Line
    <3>4. n < Here(o).pkt
      <4>1. CASE Heads[o] # <<>>
        <5>1. PICK d \in Packet : d = Queue(o)[1].pkt
          BY <1>2, <4>1
        <5>2. Here(o).pkt = d /\ Feed[c].seq <= Feed[d].seq /\ d \in Nat /\ Feed[d].seq \in Nat
          BY <1>2, <2>1, <4>1, <5>1, NumberFacts
        <5>3. End(n) <= Feed[c].seq
          BY <2>2, <3>1, FeedRises
        <5>4. d # n
          BY <1>8, <3>1, <5>2, <5>3
        <5>5. d < n => FALSE
          <6>1. d < n => End(d) <= Feed[n].seq /\ Feed[d].seq <= End(d) /\ End(d) \in Nat
            BY <3>1, FeedRises, NumberFacts
          <6> QED BY <1>8, <3>1, <5>2, <5>3, <6>1
        <5> QED BY <3>1, <5>2, <5>4, <5>5
      <4>2. CASE Heads[o] = <<>>
        <5>1. Patient(s) /\ waitCnt \in Nat
          BY DEF WaitInv
        <5>2. Here(o).pkt <= n => waitCnt + 1 <= Skew
          BY <1>5, <1>7, <2>2, <3>1, <3>3, <4>2, <5>1 DEF Patient
        <5>3. Here(o).pkt \in Nat
          <6>1. Queue(o) # <<>> => Here(o).pkt = Queue(o)[1].pkt
            <7>1. Queue(o) # <<>> => Here(o) = [pkt |-> Queue(o)[1].pkt, part |-> Queue(o)[1].part]
              BY <1>1 DEF LinesStep
            <7> QED BY <7>1
          <6>2. Queue(o) = <<>> => Here(o) = pos[o]
            BY <1>1 DEF LinesStep
          <6>3. pos[o].pkt \in Nat
            BY DEF Clocked, PosInv
          <6>4. Queue(o) # <<>> => Queue(o)[1].pkt \in Nat
            <7>1. Queue(o) \in Seq(Beats)
              BY <1>1 DEF LinesStep
            <7>2. Queue(o) # <<>> => 1 \in 1..Len(Queue(o))
              BY <7>1, EmptySeq
            <7> QED BY <7>1, <7>2, ElementOfSeq, BeatFacts
          <6> QED BY <6>1, <6>2, <6>3, <6>4
        <5> QED BY <2>1, <3>1, <5>1, <5>2, <5>3 DEF PatientEnough, ArbAssumption
      <4> QED BY <4>1, <4>2
    <3>5. n \in lostOn[o]
      BY <1>1, <2>2, <3>1, <3>4 DEF Accounted
    <3> QED BY <3>2, <3>3, <3>5 DEF Other, Line, LostOnBoth
  <2>3. nextSeq <= Feed[c].seq
    BY <1>1, <1>8, <2>1
  <2> QED BY <1>4, <1>6, <2>2, <2>3
<1> QED BY <1>9, <1>10

LEMMA StreamIdle ==
    ASSUME NEW event \in Event, Clocked(event), WaitInv, PatientEnough, ArbAssumption,
           arbState = "IDLE"
    PROVE  StreamInv'
<1>1. /\ PosInv /\ ArbInv /\ StreamInv /\ LinesStep(event) /\ QueuesStep
      /\ ArbTick(Heads) /\ OutStep /\ SentStep
  BY DEF Clocked
<1>2. /\ Served(Heads) = {} /\ Output(Heads) = <<>> /\ nextSeq' = nextSeq
      /\ \/ UNCHANGED <<arbState, sel>> /\ (synced' <=> synced)
         \/ synced /\ synced' /\ Kind(Heads) = "DUP" /\ Serve(Heads, "DROP")
         \/ /\ Forward(Heads) /\ Kind(Heads) # "NONE" /\ synced'
            /\ synced => Kind(Heads) = "FWD" \/ GapNow(Heads)
  BY <1>1, IdleCases
<1>3. outBeat' = outBeat /\ sent' = sent /\ \A l \in Line : ~Taken(l)
  BY <1>1, <1>2 DEF OutStep, SentStep, Taken
<1>4. /\ \A l \in Line : Accounted(l)' /\ lostOn[l] \subseteq lostOn'[l]
      /\ Aligned' /\ sent' \subseteq Packet /\ Missed' \subseteq LostOnBoth'
      /\ LostOnBoth \subseteq LostOnBoth' /\ \A n \in Packet : Behind(n)' <=> Behind(n)
  BY <1>2, <1>3, StreamStands
<1>5. /\ nextSeq \in Nat /\ Aligned /\ (synced => sent # {}) /\ (sent # {} => synced)
      /\ outBeat # <<>> => outBeat[1].last
      /\ \A l \in Line : Here(l).part = 1
  BY <1>1 DEF ArbInv, StreamInv
<1>6. ASSUME NEW l \in Line, Heads[l] # <<>>
      PROVE  /\ Queue(l)[1] \in Beats /\ Head(Heads[l]) = Queue(l)[1]
             /\ Queue(l)[1].pkt \in Packet /\ Queue(l)[1].seq = Feed[Queue(l)[1].pkt].seq
             /\ Queue(l)' # <<>> /\ Queue(l)'[1] = Queue(l)[1]
  <2>1. /\ Heads[l] = <<Queue(l)[1]>> /\ Queue(l)[1] \in Beats /\ Queue(l) # <<>>
        /\ Here(l) = [pkt |-> Queue(l)[1].pkt, part |-> Queue(l)[1].part]
    BY <1>1, <1>6 DEF LinesStep
  <2>2. Queue(l)[1].part = 1
    <3>1. Here(l).part = 1
      BY <1>5
    <3> QED BY <2>1, <3>1
  <2>3. Queue(l)' # <<>> /\ Queue(l)'[1] = Queue(l)[1]
    BY <1>1, <1>3, <2>1 DEF QueuesStep
  <2> QED BY <2>1, <2>2, <2>3, BeatFacts
<1>7. \A l \in Line : Heads[l] # <<>> => Head(Heads[l]).seq \in Nat
  BY <1>6, NumberFacts
<1>8. /\ Picked(Heads) \in Line
      /\ Kind(Heads) # "NONE" => Heads[Picked(Heads)] # <<>>
      /\ Kind(Heads) = "DUP" => Head(Heads[Picked(Heads)]).seq < nextSeq
  BY <1>5, <1>7, PickFacts
<1>9. CASE UNCHANGED <<arbState, sel>> /\ (synced' <=> synced)
  BY <1>3, <1>4, <1>5, <1>9 DEF StreamInv
<1>10. CASE synced /\ synced' /\ Kind(Heads) = "DUP" /\ Serve(Heads, "DROP")
  <2>1. PICK s \in Line : s = Picked(Heads)
    BY <1>8
  <2>2. PICK x \in Beats : x = Queue(s)[1]
    BY <1>6, <1>8, <1>10, <2>1
  <2>3. /\ x.pkt \in Packet /\ Feed[x.pkt].seq < nextSeq
        /\ Queue(s)' # <<>> /\ Queue(s)'[1] = x
    <3>1. Heads[s] # <<>> /\ Head(Heads[s]).seq < nextSeq
      BY <1>8, <1>10, <2>1
    <3> QED BY <1>6, <2>2, <3>1
  <2>4. Behind(x.pkt)
    <3>1. sent # {} /\ (End(x.pkt) <= nextSeq \/ nextSeq <= Feed[x.pkt].seq)
      BY <1>5, <1>10, <2>3 DEF Aligned
    <3>2. Feed[x.pkt].seq \in Nat
      BY <2>3, NumberFacts
    <3> QED BY <1>5, <2>3, <3>1, <3>2 DEF Behind
  <2>5. arbState' = "DROP" /\ sel' = s
    BY <1>10, <2>1 DEF Serve
  <2>6. Dropping'
    <3>1. Behind(x.pkt)'
      BY <1>4, <2>3, <2>4
    <3>2. Queue(sel)' = Queue(s)'
      BY <2>5 DEF Queue
    <3>3. Behind(Queue(sel)[1].pkt)'
      BY <2>3, <3>1, <3>2 DEF Behind, End
    <3> QED BY <2>3, <3>2, <3>3 DEF Dropping
  <2> QED BY <1>3, <1>4, <1>5, <1>10, <2>5, <2>6 DEF StreamInv
<1>11. CASE /\ Forward(Heads) /\ Kind(Heads) # "NONE" /\ synced'
            /\ synced => Kind(Heads) = "FWD" \/ GapNow(Heads)
  <2>1. PICK s \in Line : s = Picked(Heads)
    BY <1>8
  <2>2. arbState' = "FWD" /\ sel' = s
    BY <1>11, <2>1 DEF Forward, Serve
  <2>3. Queue(sel)' = Queue(s)' /\ Queue(s)'[1] = Queue(s)[1]
    <3>1. Heads[s] # <<>>
      BY <1>8, <1>11, <2>1
    <3>2. Queue(sel)' = Queue(s)'
      BY <2>2 DEF Queue
    <3> QED BY <1>6, <3>1, <3>2
  <2>4. ASSUME NEW c \in Packet, Current(c)', sent' # {}
        PROVE  /\ nextSeq' <= Feed[c].seq
               /\ \A n \in Data : n < c => Behind(n)' \/ n \in LostOnBoth'
    <3>1. ~Amid'
      BY <1>3, <1>5 DEF Amid
    <3>2. c = Queue(s)[1].pkt
      BY <2>3, <2>4, <3>1 DEF Current
    <3>3. synced
      BY <1>3, <1>5, <2>4
    <3>4. /\ nextSeq <= Feed[c].seq
          /\ \A n \in Data : n < c => Behind(n) \/ n \in LostOnBoth
      BY <1>11, <2>1, <3>2, <3>3, JumpIsLoss
    <3>5. \A n \in Data : n \in Packet
      BY DEF Data
    <3> QED BY <1>2, <1>4, <3>4, <3>5
  <2>5. Skipping'
    BY <2>4 DEF Skipping, Data
  <2> QED BY <1>3, <1>4, <1>5, <1>11, <2>2, <2>5 DEF StreamInv
<1> QED BY <1>2, <1>9, <1>10, <1>11

(* Within a packet: what the line served gives.                            *)
LEMMA ServeFacts ==
    ASSUME NEW event \in Event, Clocked(event), arbState # "IDLE", NEW c \in Line, c = sel
    PROVE  /\ arbState \in {"FWD", "DROP"} /\ nextSeq \in Nat /\ sel' = c /\ synced' = synced
           /\ arbState = "FWD" => synced /\ (Starting \/ Amid)
           /\ synced /\ arbState # "FWD" => sent # {}
           /\ \A l \in Line : Taken(l) <=> l = c /\ Heads[c] # <<>>
           /\ Here(sel)' = Here(c)' /\ Queue(sel)' = Queue(c)'
           /\ Heads[c] = <<>> =>
                /\ arbState' = arbState /\ nextSeq' = nextSeq /\ sent' = sent /\ outBeat' = outBeat
           /\ Heads[c] # <<>> =>
                LET x == Queue(c)[1] IN
                /\ x \in Beats /\ Queue(c) # <<>> /\ Heads[c] = <<x>>
                /\ Here(c) = [pkt |-> x.pkt, part |-> x.part] /\ Follows(x, Here(c)')
                /\ arbState' = IF x.last THEN "IDLE" ELSE arbState
                /\ arbState = "DROP" => nextSeq' = nextSeq /\ sent' = sent
                /\ arbState = "FWD" =>
                     /\ Current(x.pkt) /\ outBeat' = <<x>>
                     /\ nextSeq' = IF x.last THEN End(x.pkt) ELSE nextSeq
                     /\ sent' = IF x.last THEN sent \cup {x.pkt} ELSE sent
<1>1. /\ ArbInv /\ StreamInv /\ QueuesStep /\ ArbTick(Heads) /\ OutStep /\ SentStep
  BY DEF Clocked
<1>2. /\ arbState \in {"FWD", "DROP"} /\ nextSeq \in Nat
      /\ Served(Heads) = {c} /\ Output(Heads) = IF arbState = "FWD" THEN Heads[c] ELSE <<>>
      /\ arbState = "FWD" => synced /\ (Starting \/ Amid)
      /\ outBeat # <<>> => outBeat[1] \in Beats
  BY <1>1 DEF ArbInv, Served, Output
<1>3. /\ arbState' = IF EndsPacket(Heads) THEN "IDLE" ELSE arbState
      /\ sel' = c /\ synced' = synced
      /\ nextSeq' = IF arbState = "FWD" /\ EndsPacket(Heads) THEN target ELSE nextSeq
  BY <1>1 DEF ArbTick, ArbServe
<1>4. /\ EndsPacket(Heads) <=> Heads[c] # <<>> /\ Head(Heads[c]).last
      /\ \A l \in Line : Taken(l) <=> l = c /\ Heads[c] # <<>>
  BY <1>2 DEF EndsPacket, Taken
<1>5. Here(sel)' = Here(c)' /\ Queue(sel)' = Queue(c)'
  BY <1>3 DEF Here, Queue
<1>6. Heads[c] = <<>> =>
        /\ arbState' = arbState /\ nextSeq' = nextSeq /\ sent' = sent /\ outBeat' = outBeat
  BY <1>1, <1>2, <1>3, <1>4 DEF OutStep, SentStep
<1>7. synced /\ arbState # "FWD" => sent # {}
  BY <1>1 DEF StreamInv
<1>8. ASSUME Heads[c] # <<>>, NEW x, x = Queue(c)[1]
      PROVE  /\ x \in Beats /\ Queue(c) # <<>> /\ Heads[c] = <<x>>
             /\ Here(c) = [pkt |-> x.pkt, part |-> x.part] /\ Follows(x, Here(c)')
             /\ arbState' = IF x.last THEN "IDLE" ELSE arbState
             /\ arbState = "DROP" => nextSeq' = nextSeq /\ sent' = sent
             /\ arbState = "FWD" =>
                  /\ Current(x.pkt) /\ outBeat' = <<x>>
                  /\ nextSeq' = IF x.last THEN End(x.pkt) ELSE nextSeq
                  /\ sent' = IF x.last THEN sent \cup {x.pkt} ELSE sent
  <2>1. /\ x \in Beats /\ Queue(c) # <<>> /\ Heads[c] = <<x>>
        /\ Here(c) = [pkt |-> x.pkt, part |-> x.part] /\ Follows(x, Here(c)')
    BY <1>1, <1>4, <1>8 DEF QueuesStep
  <2>2. EndsPacket(Heads) <=> x.last
    BY <1>4, <2>1
  <2>3. arbState = "DROP" => nextSeq' = nextSeq /\ sent' = sent
    BY <1>1, <1>2, <1>3 DEF SentStep
  <2>4. ASSUME arbState = "FWD"
        PROVE  Current(x.pkt) /\ target = End(x.pkt)
    <3>1. CASE Starting
      BY <1>8, <3>1 DEF Starting, Current
    <3>2. CASE Amid
      <4>1. Follows(outBeat[1], Here(c)) /\ ~outBeat[1].last /\ target = End(outBeat[1].pkt)
        BY <3>2 DEF Amid
      <4>2. x.pkt = outBeat[1].pkt
        BY <2>1, <4>1 DEF Follows
      <4> QED BY <3>2, <4>1, <4>2 DEF Current
    <3> QED BY <1>2, <2>4, <3>1, <3>2
  <2>5. arbState = "FWD" => outBeat' = <<x>>
    BY <1>1, <1>2, <2>1 DEF OutStep
  <2>6. arbState = "FWD" => sent' = IF x.last THEN sent \cup {x.pkt} ELSE sent
    BY <1>1, <1>2, <2>1 DEF SentStep
  <2> QED BY <1>3, <2>1, <2>2, <2>3, <2>4, <2>5, <2>6
<1> QED BY <1>2, <1>3, <1>4, <1>5, <1>6, <1>7, <1>8

LEMMA SkippingStays ==
    ASSUME Skipping, sent' = sent, nextSeq' = nextSeq, LostOnBoth \subseteq LostOnBoth',
           \A n \in Packet : Current(n)' => Current(n)
    PROVE  Skipping'
<1>1. \A n \in Packet : Behind(n)' <=> Behind(n)
  BY DEF Behind, End
<1>2. ASSUME NEW n \in Packet, Current(n)', sent' # {}
      PROVE  /\ nextSeq' <= Feed[n].seq
             /\ \A k \in Data : k < n => Behind(k)' \/ k \in LostOnBoth'
  <2>1. /\ nextSeq <= Feed[n].seq
        /\ \A k \in Data : k < n => Behind(k) \/ k \in LostOnBoth
    BY <1>2 DEF Skipping
  <2>2. \A k \in Data : k \in Packet
    BY DEF Data
  <2> QED BY <1>1, <2>1, <2>2
<1> QED BY <1>2 DEF Skipping, Data

LEMMA StreamServe ==
    ASSUME NEW event \in Event, Clocked(event), arbState # "IDLE"
    PROVE  StreamInv'
<1>0. PICK c \in Line : c = sel
  BY DEF Clocked, ArbInv
<1>1. /\ PosInv /\ ArbInv /\ StreamInv /\ Lines(event) /\ LinesStep(event) /\ QueuesStep
  BY DEF Clocked
<1>2. /\ arbState \in {"FWD", "DROP"} /\ nextSeq \in Nat /\ sel' = c /\ synced' = synced
      /\ arbState = "FWD" => synced /\ (Starting \/ Amid)
      /\ synced /\ arbState # "FWD" => sent # {}
      /\ \A l \in Line : Taken(l) <=> l = c /\ Heads[c] # <<>>
      /\ Here(sel)' = Here(c)' /\ Queue(sel)' = Queue(c)'
  BY <1>0, ServeFacts
<1>3. /\ (sent # {} => synced) /\ Missed \subseteq LostOnBoth /\ sent \subseteq Packet
      /\ arbState = "DROP" => Dropping
      /\ arbState = "FWD" => Skipping
  BY <1>1 DEF StreamInv
<1>4. ASSUME sent' = sent, nextSeq' = nextSeq,
             \A l \in Line : Taken(l) => \A n \in Packet :
                 n = Queue(l)[1].pkt /\ n < Here(l)'.pkt => Behind(n)
      PROVE  /\ \A l \in Line : Accounted(l)' /\ lostOn[l] \subseteq lostOn'[l]
             /\ Aligned' /\ sent' \subseteq Packet /\ Missed' \subseteq LostOnBoth'
             /\ LostOnBoth \subseteq LostOnBoth' /\ \A n \in Packet : Behind(n)' <=> Behind(n)
  BY <1>4, StreamStands
<1>5. CASE Heads[c] = <<>>
  <2>1. arbState' = arbState /\ nextSeq' = nextSeq /\ sent' = sent /\ outBeat' = outBeat
    BY <1>0, <1>5, ServeFacts
  <2>2. ~Taken(c) /\ \A l \in Line : ~Taken(l)
    BY <1>2, <1>5
  <2>3. /\ \A l \in Line : Accounted(l)'
        /\ Aligned' /\ sent' \subseteq Packet /\ Missed' \subseteq LostOnBoth'
        /\ LostOnBoth \subseteq LostOnBoth' /\ \A n \in Packet : Behind(n)' <=> Behind(n)
    BY <1>4, <2>1, <2>2
  <2>4. /\ Queue(c) # <<>> => Queue(c)' # <<>> /\ Queue(c)'[1] = Queue(c)[1]
        /\ \A y \in Beats : Follows(y, Here(c)) => Follows(y, Here(c)')
    BY <1>1, <2>2 DEF QueuesStep
  <2>5. ASSUME arbState = "DROP" PROVE Dropping'
    <3>1. CASE Queue(c) # <<>> /\ Behind(Queue(c)[1].pkt)
      <4>1. Behind(Queue(sel)[1].pkt)'
        BY <1>2, <2>1, <2>4, <3>1 DEF Behind, End
      <4> QED BY <1>2, <2>4, <3>1, <4>1 DEF Dropping
    <3>2. CASE \E y \in Beats : ~y.last /\ Follows(y, Here(c)) /\ Behind(y.pkt)
      <4>1. PICK y \in Beats : ~y.last /\ Follows(y, Here(c)) /\ Behind(y.pkt)
        BY <3>2
      <4>2. Behind(y.pkt)'
        BY <2>3, <4>1, BeatFacts
      <4>3. Follows(y, Here(sel)')
        BY <1>2, <2>4, <4>1
      <4>4. Follows(y, Here(sel))'
        BY <4>3 DEF Follows
      <4>5. \E y2 \in Beats : (~y2.last /\ Follows(y2, Here(sel)) /\ Behind(y2.pkt))'
        BY <4>1, <4>2, <4>4
      <4> QED BY <4>5 DEF Dropping, Beats, Beat, Packet
    <3> QED BY <1>0, <1>3, <2>5, <3>1, <3>2 DEF Dropping
  <2>6. ASSUME arbState = "FWD" PROVE Skipping'
    <3>1. ASSUME NEW n \in Packet, Current(n)' PROVE Current(n)
      <4>1. CASE Starting
        <5>1. ~Amid'
          BY <2>1, <4>1 DEF Starting, Amid
        <5>2. n = Queue(c)'[1].pkt /\ Queue(c) # <<>>
          BY <1>0, <1>2, <3>1, <4>1, <5>1 DEF Current, Starting
        <5> QED BY <1>0, <2>4, <4>1, <5>2 DEF Current
      <4>2. CASE Amid
        <5>1. ~Starting'
          BY <2>1, <4>2 DEF Starting, Amid
        <5> QED BY <2>1, <3>1, <4>2, <5>1 DEF Current
      <4> QED BY <1>2, <2>6, <4>1, <4>2
    <3> QED BY <1>3, <2>1, <2>3, <2>6, <3>1, SkippingStays
  <2>7. arbState' = "DROP" => Dropping'
    BY <2>1, <2>5
  <2>8. arbState' = "FWD" => Skipping'
    BY <2>1, <2>6
  <2> QED BY <1>2, <1>3, <2>1, <2>3, <2>7, <2>8 DEF StreamInv
<1>6. CASE Heads[c] # <<>>
  <2>1. PICK x : x = Queue(c)[1]
    OBVIOUS
  <2>2. /\ x \in Beats /\ Queue(c) # <<>> /\ Heads[c] = <<x>>
        /\ Here(c) = [pkt |-> x.pkt, part |-> x.part] /\ Follows(x, Here(c)')
        /\ arbState' = IF x.last THEN "IDLE" ELSE arbState
        /\ arbState = "DROP" => nextSeq' = nextSeq /\ sent' = sent
        /\ arbState = "FWD" =>
             /\ Current(x.pkt) /\ outBeat' = <<x>>
             /\ nextSeq' = IF x.last THEN End(x.pkt) ELSE nextSeq
             /\ sent' = IF x.last THEN sent \cup {x.pkt} ELSE sent
    BY <1>0, <1>6, <2>1, ServeFacts
  <2>3. \A l \in Line : Taken(l) => Queue(l)[1] = x /\ l = c
    BY <1>2, <2>1
  <2>4. PICK k \in Packet : k = x.pkt
    BY <2>2, BeatFacts
  <2>5. CASE arbState = "DROP"
    <3>1. Behind(k)
      <4>1. CASE Queue(c) # <<>> /\ Behind(Queue(c)[1].pkt)
        BY <2>1, <2>4, <4>1
      <4>2. CASE \E y \in Beats : ~y.last /\ Follows(y, Here(c)) /\ Behind(y.pkt)
        <5>1. PICK y \in Beats : ~y.last /\ Follows(y, Here(c)) /\ Behind(y.pkt)
          BY <4>2
        <5>2. y.pkt = k
          BY <2>2, <2>4, <5>1 DEF Follows
        <5> QED BY <5>1, <5>2
      <4> QED BY <1>0, <1>3, <2>5, <4>1, <4>2 DEF Dropping
    <3>2. nextSeq' = nextSeq /\ sent' = sent
      BY <2>2, <2>5
    <3>3. /\ \A l \in Line : Accounted(l)'
          /\ Aligned' /\ sent' \subseteq Packet /\ Missed' \subseteq LostOnBoth'
          /\ \A n \in Packet : Behind(n)' <=> Behind(n)
      BY <1>4, <2>3, <2>4, <3>1, <3>2
    <3>4. ASSUME ~x.last PROVE Dropping'
      <4>1. Behind(x.pkt)'
        BY <2>4, <3>1, <3>3
      <4>2. Follows(x, Here(sel))'
        BY <1>2, <2>2 DEF Follows
      <4>3. \E y \in Beats : (~y.last /\ Follows(y, Here(sel)) /\ Behind(y.pkt))'
        BY <2>2, <3>4, <4>1, <4>2
      <4> QED BY <4>3 DEF Dropping, Beats, Beat, Packet
    <3>5. arbState' # "FWD" /\ (arbState' = "DROP" => ~x.last)
      BY <2>2, <2>5
    <3> QED BY <1>2, <1>3, <2>5, <3>2, <3>3, <3>4, <3>5 DEF StreamInv
  <2>6. CASE arbState = "FWD" /\ ~x.last
    <3>1. /\ nextSeq' = nextSeq /\ sent' = sent /\ arbState' = "FWD" /\ outBeat' = <<x>>
          /\ Current(k)
      BY <2>2, <2>4, <2>6
    <3>2. k \in Nat /\ Here(c)'.pkt = k
      BY <2>2, <2>4, <2>6, PacketFacts DEF Follows
    <3>3. \A l \in Line : Taken(l) => \A n \in Packet :
              n = Queue(l)[1].pkt /\ n < Here(l)'.pkt => Behind(n)
      <4> SUFFICES ASSUME NEW l \in Line, Taken(l), NEW n \in Packet,
                          n = Queue(l)[1].pkt, n < Here(l)'.pkt
                   PROVE  FALSE
        OBVIOUS
      <4>1. Queue(l)[1] = x /\ l = c
        BY <2>3
      <4>2. n = k /\ n < k
        BY <2>4, <3>2, <4>1
      <4> QED BY <3>2, <4>2
    <3>4. /\ \A l \in Line : Accounted(l)'
          /\ Aligned' /\ sent' \subseteq Packet /\ Missed' \subseteq LostOnBoth'
          /\ LostOnBoth \subseteq LostOnBoth'
      BY <1>4, <3>1, <3>3
    <3>5. ASSUME NEW n \in Packet, Current(n)' PROVE Current(n)
      <4>1. ~Starting' /\ (Amid' => n = x.pkt)
        BY <2>6, <3>1, <3>5 DEF Current, Starting, Amid
      <4>2. n = k
        BY <2>4, <3>5, <4>1 DEF Current
      <4> QED BY <3>1, <4>2
    <3>6. Skipping'
      BY <1>3, <2>6, <3>1, <3>4, <3>5, SkippingStays
    <3> QED BY <1>2, <1>3, <2>6, <3>1, <3>4, <3>6 DEF StreamInv
  <2>7. CASE arbState = "FWD" /\ x.last
    <3>1. /\ nextSeq' = End(k) /\ sent' = sent \cup {k} /\ arbState' = "IDLE" /\ Current(k)
          /\ k \in Nat /\ End(k) \in Nat /\ Feed[k].seq \in Nat /\ Feed[k].seq <= End(k)
      BY <2>2, <2>4, <2>7, NumberFacts
    <3>2. sent # {} => /\ nextSeq <= Feed[k].seq
                       /\ \A n \in Data : n < k => Behind(n) \/ n \in LostOnBoth
      BY <1>3, <2>7, <3>1 DEF Skipping
    <3>3. ASSUME NEW n \in Packet, Behind(n) \/ n <= k PROVE Behind(n)'
      <4>1. sent' # {} /\ End(n)' = End(n) /\ End(n) \in Nat
        BY <3>1, NumberFacts DEF End
      <4>2. CASE Behind(n)
        <5>1. End(n) <= nextSeq /\ nextSeq <= Feed[k].seq
          BY <3>2, <4>2 DEF Behind
        <5>2. End(n) <= End(k)
          BY <1>2, <3>1, <4>1, <5>1
        <5> QED BY <3>1, <4>1, <5>2 DEF Behind
      <4>3. CASE n <= k
        BY <3>1, <4>1, <4>3, EndsRise DEF Behind
      <4> QED BY <3>3, <4>2, <4>3
    <3>4. \A l \in Line : Accounted(l)' /\ lostOn[l] \subseteq lostOn'[l]
      <4> SUFFICES ASSUME NEW l \in Line PROVE Accounted(l)' /\ lostOn[l] \subseteq lostOn'[l]
        OBVIOUS
      <4>1. Accounted(l)
        BY <1>1 DEF StreamInv
      <4>2. Taken(l) => \A n \in Packet : n = Queue(l)[1].pkt /\ n < Here(l)'.pkt => Behind(n)'
        BY <2>3, <2>4, <3>1, <3>3
      <4> QED BY <1>1, <3>3, <4>1, <4>2, AccountedStays
    <3>5. LostOnBoth \subseteq LostOnBoth'
      BY <3>4 DEF LostOnBoth, Line
    <3>6. Aligned'
      <4>1. ASSUME NEW n \in Packet PROVE End(n) <= End(k) \/ End(k) <= Feed[n].seq
        <5>1. n \in Nat
          BY NumberFacts
        <5>2. n <= k \/ k < n
          BY <3>1, <5>1
        <5> QED BY <5>2, EndsRise, FeedRises
      <4> QED BY <3>1, <4>1 DEF Aligned, End
    <3>7. ASSUME NEW n \in Missed' PROVE n \in LostOnBoth'
      <4>1. /\ n \in Data /\ n \in Packet /\ n \notin sent' /\ End(n) <= nextSeq'
            /\ \E m \in sent' : m < n
        BY <3>7 DEF Missed, Data, End
      <4>2. n \in Nat /\ Feed[n].seq \in Nat /\ End(n) \in Nat /\ Feed[n].seq < End(n) /\ n # k
        BY <3>1, <4>1, NumberFacts
      <4>3. n < k
        <5>1. k < n => End(k) <= Feed[n].seq
          BY <4>1, FeedRises
        <5>2. End(n) <= End(k)
          BY <3>1, <4>1
        <5> QED BY <3>1, <4>2, <5>1, <5>2
      <4>4. PICK m \in sent' : m < n
        BY <4>1
      <4>5. m \in sent
        BY <3>1, <4>2, <4>3, <4>4
      <4>6. CASE Behind(n)
        <5>1. n \in Missed
          BY <3>1, <4>1, <4>4, <4>5, <4>6 DEF Missed, Behind
        <5> QED BY <1>3, <3>5, <5>1
      <4>7. CASE n \in LostOnBoth
        BY <3>5, <4>7
      <4> QED BY <3>2, <4>1, <4>3, <4>5, <4>6, <4>7
    <3>8. Missed' \subseteq LostOnBoth'
      BY <3>7
    <3>9. synced' /\ sent' # {} /\ sent' \subseteq Packet
      BY <1>2, <1>3, <2>7, <3>1
    <3> QED BY <3>1, <3>4, <3>6, <3>8, <3>9 DEF StreamInv
  <2> QED BY <1>2, <2>5, <2>6, <2>7
<1> QED BY <1>5, <1>6

-----------------------------------------------------------------------------
(* What stands at the end of a line's queue after a clock.                 *)
LEMMA QueueMembers ==
    ASSUME NEW event \in Event, PosInv, Lines(event), LinesStep(event), NEW l \in Line
    PROVE  /\ Heads'[l] # <<>> => \E j \in 1..Len(Queue(l)) : Head(Heads'[l]) = Queue(l)[j]
           /\ \A i \in 1..Len(Queue(l)') :
                 \/ \E j \in 1..Len(Queue(l)) : Queue(l)'[i] = Queue(l)[j]
                 \/ Queue(l)'[i].pkt = pos[l].pkt
           /\ ~Taken(l) /\ Heads[l] # <<>> => Heads'[l] = Heads[l]
           /\ Heads'[l] = <<>> => Here(l)'.pkt \in Nat /\ Here(l)'.pkt >= pos[l].pkt
<1> DEFINE q == Queue(l)
           k == Kept(l)
           s == Queue(l)'
<1>1. /\ q \in Seq(Beats) /\ (Heads[l] # <<>> => q # <<>> /\ Heads[l] = <<q[1]>>)
      /\ s = IF event[l] = "beat" THEN Append(k, Carried(l)) ELSE k
      /\ Heads'[l] = IF k = <<>> THEN <<>> ELSE <<k[1]>>
      /\ k = IF Taken(l) THEN Tail(q) ELSE q
  BY DEF LinesStep, Kept
<1>2. /\ pos[l] \in PlaceType /\ pos'[l] \in PlaceType /\ pos'[l].pkt >= pos[l].pkt
      /\ event[l] = "beat" => Carried(l) \in Beats /\ Carried(l).pkt = pos[l].pkt
  <2>1. /\ pos[l] \in PlaceType /\ pos'[l] \in PlaceType /\ event[l] \in {"none", "lose", "beat"}
        /\ event[l] = "none" => pos'[l] = pos[l]
        /\ event[l] = "lose" => pos'[l] = [pkt |-> pos[l].pkt + 1, part |-> 1]
        /\ event[l] = "beat" =>
             /\ Carried(l) \in Beats /\ Carried(l).pkt = pos[l].pkt
             /\ pos'[l] = IF pos[l].part = Feed[pos[l].pkt].beats
                          THEN [pkt |-> pos[l].pkt + 1, part |-> 1]
                          ELSE [pkt |-> pos[l].pkt, part |-> pos[l].part + 1]
    BY CarryMoves
  <2>2. pos'[l].pkt = pos[l].pkt \/ pos'[l].pkt = pos[l].pkt + 1
    <3>1. CASE event[l] = "none"
      BY <2>1, <3>1
    <3>2. CASE event[l] = "lose"
      BY <2>1, <3>2
    <3>3. CASE event[l] = "beat"
      <4>1. \/ pos'[l] = [pkt |-> pos[l].pkt + 1, part |-> 1]
            \/ pos'[l] = [pkt |-> pos[l].pkt, part |-> pos[l].part + 1]
        BY <2>1, <3>3
      <4> QED BY <4>1
    <3> QED BY <2>1, <3>1, <3>2, <3>3
  <2>3. pos[l].pkt \in Nat
    BY <2>1 DEF PlaceType
  <2> QED BY <2>1, <2>2, <2>3
<1>3. Here(l)' = Place(s, pos'[l], 1)
  BY DEF Here, Place
<1> HIDE DEF q, k, s
<1>4. /\ k \in Seq(Beats) /\ Len(k) \in Nat /\ Len(q) \in Nat /\ (k = <<>> <=> Len(k) = 0)
      /\ \A i \in 1..Len(k) : \E j \in 1..Len(q) : k[i] = q[j]
  <2>1. CASE Taken(l)
    <3>1. q # <<>>
      BY <1>1, <2>1 DEF Taken
    <3>2. /\ Tail(q) \in Seq(Beats) /\ Len(Tail(q)) = Len(q) - 1 /\ Len(q) \in Nat
          /\ \A i \in 1..(Len(q) - 1) : Tail(q)[i] = q[i + 1]
      BY <1>1, <3>1, HeadTailProperties, EmptySeq
    <3>3. \A i \in 1..Len(k) : i + 1 \in 1..Len(q) /\ k[i] = q[i + 1]
      BY <1>1, <2>1, <3>2
    <3>4. \A i \in 1..Len(k) : \E j \in 1..Len(q) : k[i] = q[j]
      BY <3>3
    <3>5. k \in Seq(Beats)
      BY <1>1, <2>1, <3>2
    <3>6. Len(k) \in Nat /\ (k = <<>> <=> Len(k) = 0)
      BY <3>5, EmptySeq
    <3> QED BY <3>2, <3>4, <3>5, <3>6
  <2>2. CASE ~Taken(l)
    BY <1>1, <2>2, EmptySeq
  <2> QED BY <2>1, <2>2
<1>5. Heads'[l] # <<>> => \E j \in 1..Len(q) : Head(Heads'[l]) = q[j]
  <2> SUFFICES ASSUME Heads'[l] # <<>> PROVE \E j \in 1..Len(q) : Head(Heads'[l]) = q[j]
    OBVIOUS
  <2>0. Head(<<k[1]>>) = k[1]
    OBVIOUS
  <2>1. k # <<>> /\ Head(Heads'[l]) = k[1]
    BY <1>1, <2>0, Zenon
  <2>2. 1 \in 1..Len(k)
    BY <1>4, <2>1
  <2> QED BY <1>4, <2>1, <2>2
<1>6. ASSUME NEW i \in 1..Len(s)
      PROVE  (\E j \in 1..Len(q) : s[i] = q[j]) \/ s[i].pkt = pos[l].pkt
  <2>1. CASE event[l] = "beat"
    <3>1. /\ Len(s) = Len(k) + 1 /\ s[Len(k) + 1] = Carried(l)
          /\ \A j \in 1..Len(k) : s[j] = k[j]
      BY <1>1, <1>2, <1>4, <2>1, AppendProperties
    <3>2. i \in 1..Len(k) \/ i = Len(k) + 1
      BY <1>4, <3>1
    <3> QED BY <1>2, <1>4, <2>1, <3>1, <3>2
  <2>2. CASE event[l] # "beat"
    BY <1>1, <1>4, <2>2
  <2> QED BY <2>1, <2>2
<1>7. ~Taken(l) /\ Heads[l] # <<>> => Heads'[l] = Heads[l]
  BY <1>1
<1>8. ASSUME Heads'[l] = <<>> PROVE Here(l)'.pkt \in Nat /\ Here(l)'.pkt >= pos[l].pkt
  <2>1. k = <<>> /\ Len(k) = 0
    <3>1. <<k[1]>> # <<>>
      OBVIOUS
    <3>2. k = <<>>
      BY <1>1, <1>8, <3>1, Zenon
    <3> QED BY <1>4, <3>2
  <2>2. CASE event[l] = "beat"
    <3>1. Len(s) = 1 /\ s[1] = Carried(l)
      BY <1>1, <1>2, <1>4, <2>1, <2>2, AppendProperties
    <3>2. Here(l)' = [pkt |-> s[1].pkt, part |-> s[1].part]
      BY <1>3, <3>1 DEF Place
    <3>3. Here(l)'.pkt = pos[l].pkt /\ pos[l].pkt \in Nat
      BY <1>2, <2>2, <3>1, <3>2 DEF PlaceType
    <3> QED BY <3>3
  <2>3. CASE event[l] # "beat"
    <3>1. Here(l)' = pos'[l]
      BY <1>1, <1>3, <2>1, <2>3 DEF Place
    <3>2. pos'[l].pkt \in Nat
      BY <1>2 DEF PlaceType
    <3> QED BY <1>2, <3>1, <3>2
  <2> QED BY <2>2, <2>3
<1> QED BY <1>5, <1>6, <1>7, <1>8 DEF q, s

(* A packet that one line has passed and the other has not, still has not. *)
LEMMA LagMoves ==
    ASSUME NEW event \in Event, PosInv, Lines(event), NEW l \in Line
    PROVE  /\ pos[l].pkt \in Nat /\ pos'[l].pkt \in Nat /\ pos[l].pkt <= pos'[l].pkt
           /\ \A n \in Packet : n < pos[l].pkt /\ pos'[Other(l)].pkt <= n =>
                 pos[Other(l)].pkt <= n /\ lag'[n] = lag[n] + 1
<1>1. ASSUME NEW k \in Line
      PROVE  pos[k].pkt \in Nat /\ pos'[k].pkt \in Nat /\ pos[k].pkt <= pos'[k].pkt
  <2>1. /\ pos[k] \in PlaceType /\ pos'[k] \in PlaceType /\ event[k] \in {"none", "lose", "beat"}
        /\ event[k] = "none" => pos'[k] = pos[k]
        /\ event[k] = "lose" => pos'[k] = [pkt |-> pos[k].pkt + 1, part |-> 1]
        /\ event[k] = "beat" => \/ pos'[k] = [pkt |-> pos[k].pkt + 1, part |-> 1]
                                \/ pos'[k] = [pkt |-> pos[k].pkt, part |-> pos[k].part + 1]
    BY <1>1, CarryMoves
  <2>2. \/ pos'[k] = pos[k]
        \/ pos'[k] = [pkt |-> pos[k].pkt + 1, part |-> 1]
        \/ pos'[k] = [pkt |-> pos[k].pkt, part |-> pos[k].part + 1]
    BY <2>1
  <2>3. pos'[k].pkt = pos[k].pkt \/ pos'[k].pkt = pos[k].pkt + 1
    BY <2>2
  <2>4. pos[k].pkt \in Nat
    BY <2>1 DEF PlaceType
  <2> QED BY <2>3, <2>4
<1>2. ASSUME NEW n \in Packet, n < pos[l].pkt, pos'[Other(l)].pkt <= n
      PROVE  pos[Other(l)].pkt <= n /\ lag'[n] = lag[n] + 1
  <2>1. PICK o \in Line : o = Other(l) /\ o # l
    BY DEF Other, Line
  <2>2. n \in Nat /\ ~(pos'[o].pkt > n) /\ pos[o].pkt <= n /\ pos[l].pkt > n
    BY <1>1, <1>2, <2>1, PacketFacts
  <2>3. lag'[n] = IF pos'["A"].pkt > n /\ pos'["B"].pkt > n THEN 0
                  ELSE IF pos["A"].pkt > n \/ pos["B"].pkt > n THEN lag[n] + 1 ELSE 0
    BY DEF Lines
  <2>4. l \in {"A", "B"} /\ o \in {"A", "B"}
    BY DEF Line
  <2> QED BY <2>1, <2>2, <2>3, <2>4
<1> QED BY <1>1, <1>2

(* What the arbiter's patience does in a clock.                            *)
LEMMA WaitMoves ==
    ASSUME NEW event \in Event, Clocked(event), WaitInv
    PROVE  /\ waitCnt' \in Nat /\ waitCnt' <= waitCnt + 1
           /\ arbState' = "FWD" => waitCnt' = 0
           /\ waitCnt' # 0 => \E l \in Line : Waiting(l)
           /\ \A l \in Line : waitCnt' # 0 /\ Waiting(l) => ~Taken(l) /\ Waiting(l)'
<1>1. /\ ArbInv /\ LinesStep(event) /\ Lines(event) /\ PosInv /\ ArbTick(Heads)
      /\ nextSeq \in Nat /\ sel \in Line /\ arbState \in {"IDLE", "FWD", "DROP"}
      /\ waitCnt \in Nat
      /\ arbState = "FWD" => waitCnt = 0
      /\ waitCnt # 0 => \E l \in Line : Waiting(l)
  BY DEF Clocked, ArbInv, WaitInv
<1>2. CASE arbState # "IDLE"
  <2>1. /\ waitCnt' = waitCnt /\ sel' = sel /\ arbState' \in {"IDLE", arbState}
        /\ arbState # "FWD" => nextSeq' = nextSeq
    BY <1>1, <1>2 DEF ArbTick, ArbServe
  <2>2. ASSUME NEW l \in Line, waitCnt' # 0, Waiting(l) PROVE ~Taken(l) /\ Waiting(l)'
    <3>1. arbState = "DROP" /\ sel # l /\ nextSeq' = nextSeq /\ Heads[l] # <<>>
      BY <1>1, <1>2, <2>1, <2>2 DEF Waiting
    <3>2. ~Taken(l)
      BY <3>1 DEF Taken, Served
    <3>3. Heads'[l] = Heads[l]
      BY <1>1, <3>1, <3>2, QueueMembers
    <3> QED BY <2>1, <2>2, <3>1, <3>2, <3>3 DEF Waiting
  <2> QED BY <1>1, <2>1, <2>2
<1>3. CASE arbState = "IDLE"
  <2>1. /\ nextSeq' = nextSeq
        /\ \/ /\ UNCHANGED <<arbState, sel>>
              /\ waitCnt' = waitCnt \/ (waitCnt' = waitCnt + 1 /\ Kind(Heads) = "AHEAD")
           \/ Kind(Heads) = "DUP" /\ Serve(Heads, "DROP") /\ waitCnt' = waitCnt
           \/ Forward(Heads)
    BY <1>1, <1>3, IdleCases
  <2>2. \A l \in Line : ~Taken(l)
    BY <1>3 DEF Taken, Served
  <2>3. \A l \in Line : Heads[l] # <<>> => Head(Heads[l]).seq \in Nat /\ Heads'[l] = Heads[l]
    <3> SUFFICES ASSUME NEW l \in Line, Heads[l] # <<>>
                 PROVE  Head(Heads[l]).seq \in Nat /\ Heads'[l] = Heads[l]
      OBVIOUS
    <3>1. /\ Heads[l] = <<Queue(l)[1]>> /\ Queue(l)[1] \in Beats
          /\ Here(l) = [pkt |-> Queue(l)[1].pkt, part |-> Queue(l)[1].part]
      BY <1>1 DEF LinesStep
    <3>2. Queue(l)[1].part = 1
      <4>1. Here(l).part = 1
        BY <1>1, <1>3 DEF ArbInv
      <4> QED BY <3>1, <4>1
    <3>3. Head(Heads[l]).seq \in Nat
      BY <3>1, <3>2, HeaderFacts
    <3> QED BY <1>1, <2>2, <3>3, QueueMembers
  <2>4. /\ Picked(Heads) \in Line
        /\ Kind(Heads) # "NONE" => Heads[Picked(Heads)] # <<>>
        /\ Kind(Heads) = "DUP" => Head(Heads[Picked(Heads)]).seq < nextSeq
        /\ Kind(Heads) = "AHEAD" => \A l \in Line : Heads[l] # <<>> => Head(Heads[l]).seq > nextSeq
    BY <1>1, <2>3, PickFacts
  <2>5. /\ waitCnt' \in Nat /\ waitCnt' <= waitCnt + 1
        /\ arbState' = "FWD" => waitCnt' = 0
    BY <1>1, <1>3, <2>1 DEF Serve, Forward
  <2>6. waitCnt' # 0 => \E l \in Line : Waiting(l)
    <3>1. CASE Kind(Heads) = "AHEAD"
      BY <1>3, <2>4, <3>1 DEF Waiting
    <3>2. CASE Kind(Heads) # "AHEAD"
      BY <1>1, <2>1, <3>2 DEF Forward
    <3> QED BY <3>1, <3>2
  <2>7. ASSUME NEW l \in Line, waitCnt' # 0, Waiting(l) PROVE Waiting(l)'
    <3>1. /\ Heads'[l] = Heads[l] /\ Heads[l] # <<>> /\ Head(Heads[l]).seq > nextSeq
          /\ Head(Heads[l]).seq \in Nat
      BY <2>3, <2>7 DEF Waiting
    <3>2. ~(arbState' = "DROP" /\ sel' = l)
      <4>1. CASE UNCHANGED <<arbState, sel>>
        BY <1>3, <4>1
      <4>2. CASE Kind(Heads) = "DUP" /\ Serve(Heads, "DROP")
        <5>1. sel' = Picked(Heads) /\ Head(Heads[Picked(Heads)]).seq < nextSeq
          BY <2>4, <4>2 DEF Serve
        <5>2. Picked(Heads) # l
          BY <1>1, <3>1, <5>1
        <5> QED BY <5>1, <5>2
      <4>3. CASE Forward(Heads)
        BY <2>7, <4>3 DEF Forward
      <4> QED BY <2>1, <4>1, <4>2, <4>3
    <3> QED BY <2>1, <3>1, <3>2 DEF Waiting
  <2> QED BY <2>2, <2>5, <2>6, <2>7
<1> QED BY <1>2, <1>3

(* A packet behind the head of one line that the other has not come to     *)
(* lags by more than the arbiter has counted.                              *)
LEMMA OutLags ==
    ASSUME NEW event \in Event, Clocked(event), WaitInv, NEW l \in Line, NEW o \in Line, o = Other(l),
           Heads'[l] # <<>>, NEW n \in Packet, n < Head(Heads'[l]).pkt,
           pos[o].pkt <= n, waitCnt' # 0 => ~Waiting(o)
    PROVE  n < pos[l].pkt /\ lag[n] \in Nat /\ lag[n] <= Skew /\ waitCnt' + 1 <= lag[n]
<1>1. /\ PosInv /\ Lines(event) /\ LinesStep(event)
      /\ lag[n] \in 0..Skew /\ Lagging(l) /\ Patient(l) /\ waitCnt \in Nat
  BY DEF Clocked, WaitInv
<1>2. PICK j \in 1..Len(Queue(l)) : Head(Heads'[l]) = Queue(l)[j]
  BY <1>1, QueueMembers
<1>3. PICK h : h = Head(Heads'[l]).pkt
  OBVIOUS
<1>4. h \in Nat /\ h <= pos[l].pkt /\ pos[l].pkt \in Nat /\ n \in Nat /\ n < h
  <2>1. Queue(l) \in Seq(Beats)
    BY <1>1 DEF LinesStep
  <2>2. h \in Nat
    BY <1>2, <1>3, <2>1, ElementOfSeq, BeatFacts
  <2>3. h <= pos[l].pkt
    BY <1>1, <1>2, <1>3 DEF Lagging
  <2> QED BY <1>1, <1>3, <2>2, <2>3, LagMoves, PacketFacts
<1>5. /\ waitCnt' \in Nat /\ waitCnt' <= waitCnt + 1
      /\ waitCnt' # 0 => \E k \in Line : Waiting(k)
      /\ \A k \in Line : waitCnt' # 0 /\ Waiting(k) => ~Taken(k)
  BY WaitMoves
<1>6. waitCnt' + 1 <= lag[n]
  <2>1. CASE waitCnt' = 0
    <3>1. lag[n] >= 1
      BY <1>1, <1>2, <1>3, <1>4 DEF Lagging
    <3> QED BY <1>1, <2>1, <3>1
  <2>2. CASE waitCnt' # 0
    <3>1. Waiting(l)
      BY <1>5, <2>2 DEF Other, Line
    <3>2. Heads[l] # <<>> /\ Heads'[l] = Heads[l]
      BY <1>1, <1>5, <2>2, <3>1, QueueMembers DEF Waiting
    <3>3. waitCnt + 2 <= lag[n]
      BY <1>1, <1>3, <1>4, <2>2, <3>2 DEF Patient
    <3> QED BY <1>1, <1>5, <3>3
  <2> QED BY <2>1, <2>2
<1> QED BY <1>1, <1>4, <1>6

LEMMA LessStays ==
    ASSUME NEW w \in Nat, NEW g \in Nat, NEW k \in Nat, w + 1 <= g, g <= k
    PROVE  w + 1 <= k
OBVIOUS

LEMMA WaitStep ==
    ASSUME NEW event \in Event, Clocked(event), WaitInv, PatientEnough
    PROVE  WaitInv'
<1>1. /\ PosInv /\ Lines(event) /\ LinesStep(event)
      /\ lag \in [Packet -> 0..Skew] /\ waitCnt \in Nat /\ Skew \in Nat
      /\ \A l \in Line : Lagging(l)
  BY DEF Clocked, WaitInv, PatientEnough
<1>2. lag' \in [Packet -> 0..Skew]
  <2>1. lag' = [n \in Packet |->
                 IF pos'["A"].pkt > n /\ pos'["B"].pkt > n THEN 0
                 ELSE IF pos["A"].pkt > n \/ pos["B"].pkt > n THEN lag[n] + 1 ELSE 0]
    BY <1>1 DEF Lines
  <2>2. \A n \in Packet : lag'[n] <= Skew
    BY <1>1 DEF Lines
  <2>3. \A n \in Packet : lag'[n] \in {0, lag[n] + 1} /\ lag[n] \in 0..Skew
    BY <1>1, <2>1
  <2>4. \A n \in Packet : lag'[n] \in 0..Skew
    BY <1>1, <2>2, <2>3
  <2> QED BY <2>1, <2>4
<1>3. /\ waitCnt' \in Nat
      /\ arbState' = "FWD" => waitCnt' = 0
      /\ waitCnt' # 0 => \E l \in Line : Waiting(l)'
      /\ \A l \in Line : waitCnt' # 0 /\ Waiting(l) => Waiting(l)'
  BY WaitMoves
<1>4. ASSUME NEW l \in Line PROVE Lagging(l)' /\ Patient(l)'
  <2>0. PICK o \in Line : o = Other(l)
    BY DEF Other, Line
  <2>1. /\ pos[l].pkt \in Nat /\ pos'[l].pkt \in Nat /\ pos[l].pkt <= pos'[l].pkt
        /\ pos[o].pkt \in Nat /\ pos'[o].pkt \in Nat /\ pos[o].pkt <= pos'[o].pkt
        /\ \A n \in Packet : n < pos[l].pkt /\ pos'[o].pkt <= n => lag'[n] = lag[n] + 1
    BY <1>1, <2>0, LagMoves
  <2>2. \A n \in Packet : n \in Nat /\ lag[n] \in Nat /\ lag[n] <= Skew
    BY <1>1, PacketFacts
  <2>3. ASSUME NEW i \in 1..Len(Queue(l)')
        PROVE  Queue(l)'[i].pkt <= pos[l].pkt /\ Queue(l)'[i].pkt \in Nat
    <3>1. CASE \E j \in 1..Len(Queue(l)) : Queue(l)'[i] = Queue(l)[j]
      <4>1. PICK j \in 1..Len(Queue(l)) : Queue(l)'[i] = Queue(l)[j]
        BY <3>1
      <4>2. Queue(l)[j].pkt <= pos[l].pkt
        BY <1>1 DEF Lagging
      <4>3. Queue(l)[j] \in Beats
        BY <1>1, ElementOfSeq DEF LinesStep
      <4> QED BY <4>1, <4>2, <4>3, BeatFacts
    <3>2. CASE Queue(l)'[i].pkt = pos[l].pkt
      BY <2>1, <3>2
    <3> QED BY <1>1, <3>1, <3>2, QueueMembers
  <2>4. ASSUME NEW i \in 1..Len(Queue(l)')
        PROVE  /\ Queue(l)'[i].pkt <= pos'[l].pkt
               /\ \A n \in Packet : n < Queue(l)'[i].pkt /\ pos'[o].pkt <= n => lag'[n] >= 1
    <3>1. PICK e : e = Queue(l)'[i].pkt
      OBVIOUS
    <3>2. e \in Nat /\ e <= pos[l].pkt
      BY <2>3, <3>1
    <3>3. ASSUME NEW n \in Packet, n < e, pos'[o].pkt <= n PROVE lag'[n] >= 1
      <4>1. n < pos[l].pkt
        BY <2>1, <2>2, <3>2, <3>3
      <4>2. lag'[n] = lag[n] + 1
        BY <2>1, <3>3, <4>1
      <4> QED BY <2>2, <4>2
    <3>4. e <= pos'[l].pkt
      BY <2>1, <3>2
    <3> QED BY <3>1, <3>3, <3>4
  <2>5. Lagging(l)'
    BY <2>0, <2>4 DEF Lagging
  <2>6. ASSUME Heads'[l] # <<>>, NEW n \in Packet, n < Head(Heads'[l]).pkt
        PROVE  /\ pos'[o].pkt <= n /\ ~Waiting(o)' => waitCnt' + 2 <= lag'[n]
               /\ Heads'[o] = <<>> /\ Here(o)'.pkt <= n => waitCnt' + 1 <= Skew
    <3>1. ASSUME pos'[o].pkt <= n, ~Waiting(o)' PROVE waitCnt' + 2 <= lag'[n]
      <4>1. pos[o].pkt <= n /\ (waitCnt' # 0 => ~Waiting(o))
        BY <1>3, <2>1, <2>2, <3>1
      <4>2. n < pos[l].pkt /\ waitCnt' + 1 <= lag[n]
        BY <2>0, <2>6, <4>1, OutLags
      <4>3. lag'[n] = lag[n] + 1
        BY <2>1, <3>1, <4>2
      <4> QED BY <1>3, <2>2, <4>2, <4>3
    <3>2. ASSUME Heads'[o] = <<>>, Here(o)'.pkt <= n PROVE waitCnt' + 1 <= Skew
      <4>1. PICK h \in Nat : h = Here(o)'.pkt /\ h >= pos[o].pkt
        BY <1>1, <3>2, QueueMembers
      <4>2. pos[o].pkt <= n
        BY <2>1, <2>2, <3>2, <4>1
      <4>3. waitCnt' # 0 => ~Waiting(o)
        BY <1>3, <3>2 DEF Waiting
      <4>4. waitCnt' + 1 <= lag[n] /\ lag[n] <= Skew
        BY <2>0, <2>6, <4>2, <4>3, OutLags
      <4>5. waitCnt' \in Nat /\ lag[n] \in Nat /\ Skew \in Nat
        BY <1>1, <1>3, <2>2
      <4> QED BY <4>4, <4>5, LessStays
    <3> QED BY <3>1, <3>2
  <2>7. Patient(l)'
    BY <2>0, <2>6 DEF Patient
  <2> QED BY <2>5, <2>7
<1> QED BY <1>2, <1>3, <1>4 DEF WaitInv

-----------------------------------------------------------------------------
LossInv == InStep => StreamInv /\ WaitInv

LEMMA LossInit ==
    ASSUME NEW m \in Nat, MergeInv(m), PatientEnough, Init
    PROVE  LossInv
<1>1. /\ pos = [l \in Line |-> [pkt |-> 1, part |-> 1]] /\ lostOn = [l \in Line |-> {}]
      /\ lag = [n \in Packet |-> 0] /\ sent = {} /\ outBeat = <<>>
      /\ arbState = "IDLE" /\ ~synced /\ waitCnt = 0
      /\ ahead = <<>> /\ bhead = <<>>
  BY DEF Init, ArbInit, A!DropInit, B!DropInit
<1>2. ASSUME NEW l \in Line PROVE Len(Queue(l)) = 0 /\ Heads[l] = <<>> /\ Here(l) = pos[l]
  <2>1. Heads[l] = <<>>
    BY <1>1 DEF Heads
  <2>2. AP!DropConstants
    BY FifoAssumption DEF AP!DropConstants, A!DropConstants
  <2>3. A!Stored = <<>>
    <3>1. A!MemCount = 0
      BY <2>2 DEF Init, A!DropInit, A!MemCount, A!PtrMod, AP!DropConstants
    <3> QED BY <1>1, <3>1 DEF A!Stored
  <2>4. B!Stored = <<>>
    <3>1. B!MemCount = 0
      BY <2>2 DEF Init, B!DropInit, B!MemCount, B!PtrMod, AP!DropConstants
    <3> QED BY <1>1, <3>1 DEF B!Stored
  <2>5. Queue(l) = <<>> /\ Len(Queue(l)) = 0
    BY <2>3, <2>4 DEF Queue
  <2> QED BY <2>1, <2>5 DEF Here, Place
<1>3. \A n \in Packet : n \in Nat /\ ~(n < 1)
  <2>1. Feed \in Seq([seq : Nat, cnt : Nat, beats : Nat \ {0}])
    BY FeedAssumption
  <2>2. Packet = 1..Len(Feed) /\ Len(Feed) \in Nat
    BY <2>1, LenProperties DEF Packet
  <2> QED BY <2>2
<1>4. StreamInv
  <2>1. \A l \in Line : Accounted(l)
    BY <1>1, <1>2, <1>3 DEF Accounted, Gaps
  <2>2. Missed = {}
    BY <1>1 DEF Missed
  <2> QED BY <1>1, <2>1, <2>2 DEF StreamInv, Aligned
<1>5. WaitInv
  <2>1. lag \in [Packet -> 0..Skew]
    BY <1>1 DEF PatientEnough
  <2> QED BY <1>1, <1>2, <2>1 DEF WaitInv, Lagging, Patient
<1> QED BY <1>4, <1>5 DEF LossInv

LEMMA LossStep ==
    ASSUME NEW m \in Nat, BeatsFit(m), MergeInv(m), PatientEnough, LossInv,
           NEW event \in Event, Tick(event)
    PROVE  LossInv'
<1> SUFFICES ASSUME InStep' PROVE StreamInv' /\ WaitInv'
  BY DEF LossInv
<1>1. InStep /\ ArbInv /\ LinesStep(event) /\ QueuesStep
  BY StillInStep
<1>2. StreamInv /\ WaitInv
  BY <1>1 DEF LossInv
<1>3. Clocked(event)
  BY <1>1, <1>2 DEF Clocked, MergeInv, Tick, OutStep, SentStep
<1> QED BY <1>2, <1>3, ArbAssumption, StreamIdle, StreamServe, WaitStep

LEMMA LossStutters ==
    ASSUME LossInv, UNCHANGED vars
    PROVE  LossInv'
<1>1. UNCHANGED arbVars /\ UNCHANGED afifo /\ UNCHANGED bfifo /\ UNCHANGED envVars
  BY DEF vars
<1>2. /\ UNCHANGED <<arbState, sel, nextSeq, target, waitCnt, synced>>
      /\ UNCHANGED <<pos, lostOn, lag, sent, outBeat>>
      /\ UNCHANGED <<ahead, bhead, adrop, bdrop>>
  BY <1>1 DEF arbVars, envVars, afifo, bfifo
<1>3. \A l : Queue(l)' = Queue(l) /\ Here(l)' = Here(l)
  <2>1. A!Stored' = A!Stored /\ B!Stored' = B!Stored
    BY <1>1 DEF afifo, bfifo, A!Stored, B!Stored, A!MemCount, B!MemCount
  <2>2. \A l : Queue(l)' = Queue(l)
    BY <2>1 DEF Queue
  <2> QED BY <1>2, <2>2 DEF Here, Place
<1>4. Heads' = Heads
  BY <1>2 DEF Heads
<1>5. \A n : (Behind(n)' <=> Behind(n)) /\ (Current(n)' <=> Current(n))
  BY <1>2, <1>3 DEF Behind, End, Current, Starting, Amid, Follows
<1>6. StreamInv => StreamInv'
  <2> SUFFICES ASSUME StreamInv PROVE StreamInv'
    OBVIOUS
  <2>1. \A l \in Line : Accounted(l)'
    <3>1. \A l \in Line : Accounted(l)
      BY DEF StreamInv
    <3> QED BY <1>2, <1>3, <1>5, <3>1 DEF Accounted, Gaps, Place
  <2>2. Aligned' /\ Missed' = Missed /\ LostOnBoth' = LostOnBoth
    BY <1>2 DEF StreamInv, Aligned, Missed, Data, End, LostOnBoth
  <2>3. Dropping => Dropping'
    BY <1>2, <1>3, <1>5 DEF Dropping, Follows, Beats, Beat, Packet
  <2>4. Skipping => Skipping'
    BY <1>2, <1>5, <2>2, SkippingStays
  <2> QED BY <1>2, <2>1, <2>2, <2>3, <2>4 DEF StreamInv
<1>7. WaitInv => WaitInv'
  <2>1. \A l : Waiting(l)' <=> Waiting(l)
    BY <1>2, <1>4 DEF Waiting
  <2>2. \A l \in Line : (Lagging(l) => Lagging(l)') /\ (Patient(l) => Patient(l)')
    BY <1>2, <1>3, <1>4, <2>1 DEF Lagging, Patient
  <2> QED BY <1>2, <2>1, <2>2 DEF WaitInv
<1>8. InStep' = InStep
  BY <1>2 DEF InStep
<1> QED BY <1>6, <1>7, <1>8 DEF LossInv

(* What the arbiter goes past and never forwards was lost on both lines    *)
(* (feed_ab_arb.sv: "losing only the packet that was lost on both lines"), *)
(* whatever the packets, their number and the depth of the FIFOs, provided *)
(* the lines are no further apart than the arbiter is patient.             *)
THEOREM OnlyDoubleLosses ==
    ASSUME FewerBeatsThanCounted, PatientEnough
    PROVE  Spec => []OnlyDoubleLossesMissed
<1>1. PICK m \in Nat : BeatsFit(m)
  BY DEF FewerBeatsThanCounted
<1>2. Init => MergeInv(m) /\ LossInv
  BY <1>1, MergeInit, LossInit
<1>3. MergeInv(m) /\ LossInv /\ [Next]_vars => MergeInv(m)' /\ LossInv'
  <2> SUFFICES ASSUME MergeInv(m), LossInv, [Next]_vars PROVE MergeInv(m)' /\ LossInv'
    OBVIOUS
  <2>1. CASE Next
    <3>1. PICK event \in Event : Tick(event)
      BY <2>1 DEF Next, Event
    <3> QED BY <1>1, <3>1, MergeStep, LossStep
  <2>2. CASE UNCHANGED vars
    BY <2>2, MergeStutters, LossStutters
  <2> QED BY <2>1, <2>2
<1>4. LossInv => OnlyDoubleLossesMissed
  BY DEF LossInv, StreamInv, OnlyDoubleLossesMissed, LostOnBoth
<1> QED BY <1>2, <1>3, <1>4, PTL DEF Spec
=============================================================================
