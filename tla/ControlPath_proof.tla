------------------------- MODULE ControlPath_proof -------------------------
(***************************************************************************)
(* Proofs about the crossing of the control plane, for every depth of the  *)
(* synchronizers and every spacing of the pulses that exceeds it, whatever *)
(* the two clocks do and whatever the host writes.                         *)
(***************************************************************************)
EXTENDS ControlPath, WellFoundedInduction, SequenceTheorems, TLAPS

Level(k) == sync[k][SYNC_FF]

ChainType ==
    /\ pulse \in [Kinds -> BOOLEAN] /\ tog \in [Kinds -> BOOLEAN] /\ bvalid \in BOOLEAN
    /\ sync \in [Kinds -> [0..SYNC_FF -> BOOLEAN]]
    /\ quiet \in 0..Spacing

CountType ==
    /\ \E S : meant \in Seq(S)
    /\ acks \in Nat /\ loads \in Nat /\ ackSeen \in Nat

(* While a pulse is registered nothing is under way behind it.             *)
PulseAlone ==
    ~Silent(pulse) => /\ bvalid /\ quiet = 0
                      /\ \A k \in Kinds, i \in 0..SYNC_FF : sync[k][i] = tog[k]

(* A change travels down the synchronizer, one stage a core clock, and     *)
(* alone.                                                                  *)
OneChange ==
    \A k \in Kinds, i \in 0..SYNC_FF :
        /\ i < quiet => sync[k][i] = tog[k]
        /\ sync[k][i] # tog[k] /\ i < SYNC_FF => sync[k][i + 1] # tog[k]

(* What was pulsed and not yet seen is registered or under way.            *)
UnderWay(k) == Flag(pulse[k]) + Flag(tog[k] # Level(k))
Counts == /\ Len(meant) = loads + UnderWay("load")
          /\ acks = ackSeen + UnderWay("ack")

ChainInv == ChainType /\ CountType /\ PulseAlone /\ OneChange /\ Counts
-----------------------------------------------------------------------------
LEMMA InitChain == Init => ChainInv
<1> SUFFICES ASSUME Init PROVE ChainInv
  OBVIOUS
<1> USE DEF Init, NoPulse
<1>1. ChainType
  <2>1. pulse \in [Kinds -> BOOLEAN] /\ tog \in [Kinds -> BOOLEAN] /\ bvalid \in BOOLEAN
        /\ sync \in [Kinds -> [0..SYNC_FF -> BOOLEAN]]
    OBVIOUS
  <2>2. quiet \in 0..Spacing
    BY ControlAssumption
  <2> QED BY <2>1, <2>2 DEF ChainType
<1>2. CountType
  <2>1. meant \in Seq({})
    OBVIOUS
  <2> QED BY <2>1 DEF CountType
<1>3. PulseAlone /\ OneChange
  <2>1. Silent(pulse)
    BY DEF Silent
  <2>2. \A k \in Kinds, i \in 0..SYNC_FF : sync[k][i] = FALSE /\ tog[k] = FALSE
    OBVIOUS
  <2>3. \A i \in 0..SYNC_FF : i < SYNC_FF => i + 1 \in 0..SYNC_FF
    BY ControlAssumption
  <2> QED BY <2>1, <2>2, <2>3 DEF PulseAlone, OneChange
<1>4. Counts
  BY ControlAssumption DEF Counts, UnderWay, Level, Flag, Kinds
<1> QED BY <1>1, <1>2, <1>3, <1>4 DEF ChainInv

(* One edge of the AXI clock, seen from the crossing: a pulse is accepted  *)
(* or not, and the registered one toggles.                                 *)
Accepted ==
    /\ ~bvalid /\ bvalid' /\ pulse' \in [Kinds -> BOOLEAN]
    /\ ~Silent(pulse') => quiet = Spacing
    /\ acks' = acks + Flag(pulse'["ack"])
    /\ IF pulse'["load"] THEN \E m : meant' = Append(meant, m) ELSE meant' = meant

Nothing == bvalid' = FALSE /\ pulse' = NoPulse /\ UNCHANGED <<meant, acks>>

LEMMA AxilFacts ==
    ASSUME NEW offer \in BOOLEAN, AxilEdge(offer)
    PROVE  (Accepted \/ Nothing) /\ tog' = Toggled
<1>1. tog' = Toggled
  BY DEF AxilEdge
<1>2. CASE offer /\ do_wr
  <2> DEFINE w == Head(stream)
  <2>1. WriteWord(w)
    BY <1>2 DEF AxilEdge
  <2>2. pulse' = PulsesOf(w) /\ pulse' \in [Kinds -> BOOLEAN]
    BY <2>1 DEF WriteWord, PulsesOf
  <2>3. ~Silent(pulse') => quiet = Spacing
    <3>1. widx(w) # A_CTRL => PulsesOf(w) = NoPulse
      BY DEF PulsesOf, NoPulse
    <3> QED BY <1>2, <2>2, <3>1 DEF do_wr, Silent
  <2>4. Accepted
    BY <1>2, <2>1, <2>2, <2>3 DEF WriteWord, Accepted, do_wr
  <2> QED BY <1>1, <2>4
<1>3. CASE ~(offer /\ do_wr)
  BY <1>1, <1>3 DEF AxilEdge, WriteNothing, Nothing
<1> QED BY <1>2, <1>3

LEMMA CoreFacts ==
    ASSUME NEW t, NEW b, CoreEdge(t, b), ChainInv
    PROVE  /\ sync' = [k \in Kinds |-> [i \in 0..SYNC_FF |-> IF i = 0 THEN t[k] ELSE sync[k][i - 1]]]
           /\ loads' = loads + Flag(dst_pulse("load"))
           /\ ackSeen' = ackSeen + Flag(dst_pulse("ack"))
           /\ \A k \in Kinds : dst_pulse(k) <=> Level(k) # tog[k] /\ sync[k][SYNC_FF - 1] = tog[k]
<1>1. SYNC_FF - 1 \in 0..SYNC_FF /\ SYNC_FF \in 0..SYNC_FF /\ (SYNC_FF - 1) + 1 = SYNC_FF
      /\ SYNC_FF - 1 < SYNC_FF
  BY ControlAssumption
<1>2. ASSUME NEW k \in Kinds
      PROVE  dst_pulse(k) <=> Level(k) # tog[k] /\ sync[k][SYNC_FF - 1] = tog[k]
  <2>1. sync[k][SYNC_FF] \in BOOLEAN /\ sync[k][SYNC_FF - 1] \in BOOLEAN /\ tog[k] \in BOOLEAN
    BY <1>1 DEF ChainInv, ChainType
  <2>2. sync[k][SYNC_FF - 1] # tog[k] => sync[k][SYNC_FF] # tog[k]
    BY <1>1 DEF ChainInv, OneChange
  <2> QED BY <2>1, <2>2 DEF dst_pulse, Level
<1> QED BY <1>2 DEF CoreEdge

AllEqual == \A k \in Kinds, i \in 0..SYNC_FF : sync[k][i] = tog[k]

LEMMA QuietMeans ==
    ASSUME ChainInv, quiet = Spacing
    PROVE  Silent(pulse) /\ AllEqual
<1>1. Silent(pulse)
  BY ControlAssumption DEF ChainInv, PulseAlone
<1>2. \A i \in 0..SYNC_FF : i < quiet
  BY ControlAssumption
<1> QED BY <1>1, <1>2 DEF ChainInv, OneChange, AllEqual

(* A core edge with no pulse registered: the change moves one stage on.    *)
LEMMA CoreShifts ==
    ASSUME NEW b, CoreEdge(tog, b), ChainInv
    PROVE  /\ sync' \in [Kinds -> [0..SYNC_FF -> BOOLEAN]]
           /\ \A k \in Kinds, i \in 0..SYNC_FF :
                /\ i < quiet + 1 => sync'[k][i] = tog[k]
                /\ sync'[k][i] # tog[k] /\ i < SYNC_FF => sync'[k][i + 1] # tog[k]
           /\ AllEqual => AllEqual' \/ tog' # tog
           /\ \A k \in Kinds :
                Flag(tog[k] # Level(k)) = Flag(dst_pulse(k)) + Flag(tog[k] # Level(k)')
<1>1. /\ tog \in [Kinds -> BOOLEAN] /\ sync \in [Kinds -> [0..SYNC_FF -> BOOLEAN]]
      /\ quiet \in 0..Spacing /\ Spacing \in Nat /\ SYNC_FF \in Nat \ {0}
  BY ControlAssumption DEF ChainInv, ChainType
<1>2. /\ sync' = [k \in Kinds |-> [i \in 0..SYNC_FF |-> IF i = 0 THEN tog[k] ELSE sync[k][i - 1]]]
      /\ \A k \in Kinds : dst_pulse(k) <=> Level(k) # tog[k] /\ sync[k][SYNC_FF - 1] = tog[k]
  BY CoreFacts
<1>3. \A i \in 0..SYNC_FF : i # 0 => i - 1 \in 0..SYNC_FF /\ (i - 1) + 1 = i
  BY <1>1
<1>4. sync' \in [Kinds -> [0..SYNC_FF -> BOOLEAN]]
  BY <1>1, <1>2, <1>3
<1>5. ASSUME NEW k \in Kinds, NEW i \in 0..SYNC_FF
      PROVE  /\ i < quiet + 1 => sync'[k][i] = tog[k]
             /\ sync'[k][i] # tog[k] /\ i < SYNC_FF => sync'[k][i + 1] # tog[k]
  <2>1. CASE i = 0
    BY <1>2, <2>1
  <2>2. CASE i # 0
    <3>1. i - 1 \in 0..SYNC_FF /\ (i < quiet + 1 => i - 1 < quiet) /\ (i < SYNC_FF => i - 1 < SYNC_FF)
      BY <1>1, <1>3, <2>2
    <3>2. i - 1 < quiet => sync[k][i - 1] = tog[k]
      BY <3>1 DEF ChainInv, OneChange
    <3>3. sync[k][i - 1] # tog[k] /\ i - 1 < SYNC_FF => sync[k][i] # tog[k]
      BY <1>3, <2>2, <3>1 DEF ChainInv, OneChange
    <3>4. sync'[k][i] = sync[k][i - 1]
      BY <1>2, <2>2
    <3>5. i < SYNC_FF => sync'[k][i + 1] = sync[k][i]
      <4>1. i < SYNC_FF => i + 1 \in 0..SYNC_FF /\ i + 1 # 0 /\ (i + 1) - 1 = i
        BY <1>1
      <4> QED BY <1>2, <4>1
    <3> QED BY <3>1, <3>2, <3>3, <3>4, <3>5
  <2> QED BY <2>1, <2>2
<1>6. AllEqual => AllEqual' \/ tog' # tog
  BY <1>2, <1>3 DEF AllEqual
<1>7. ASSUME NEW k \in Kinds
      PROVE  Flag(tog[k] # Level(k)) = Flag(dst_pulse(k)) + Flag(tog[k] # Level(k)')
  <2>1. SYNC_FF \in 0..SYNC_FF /\ SYNC_FF - 1 \in 0..SYNC_FF /\ SYNC_FF # 0
    BY <1>1
  <2>2. Level(k)' = sync[k][SYNC_FF - 1]
    BY <1>2, <2>1 DEF Level
  <2>3. tog[k] \in BOOLEAN /\ Level(k) \in BOOLEAN /\ sync[k][SYNC_FF - 1] \in BOOLEAN
    BY <1>1, <2>1 DEF Level
  <2>4. sync[k][SYNC_FF - 1] # tog[k] => Level(k) # tog[k]
    <3>1. SYNC_FF - 1 < SYNC_FF /\ (SYNC_FF - 1) + 1 = SYNC_FF
      BY <1>1
    <3> QED BY <2>1, <3>1 DEF Level, ChainInv, OneChange
  <2> QED BY <1>2, <2>2, <2>3, <2>4 DEF Flag
<1> QED BY <1>4, <1>5, <1>6, <1>7

(* How a clock edge of each kind leaves the registered pulse and the       *)
(* toggles, on the AXI side.                                               *)
LEMMA AxilCases ==
    ASSUME NEW offer \in BOOLEAN, AxilEdge(offer), ChainInv
    PROVE  \/ /\ Accepted /\ tog' = tog /\ Silent(pulse)
           \/ /\ Nothing /\ Silent(pulse) /\ tog' = tog
           \/ /\ Nothing /\ ~Silent(pulse) /\ AllEqual /\ quiet = 0
              /\ \A k \in Kinds : tog'[k] = (tog[k] # pulse[k])
<1>1. (Accepted \/ Nothing) /\ tog' = [k \in Kinds |-> tog[k] # pulse[k]]
  BY AxilFacts DEF Toggled
<1>2. pulse \in [Kinds -> BOOLEAN] /\ tog \in [Kinds -> BOOLEAN]
  BY DEF ChainInv, ChainType
<1>3. CASE Silent(pulse)
  <2>1. tog' = tog
    BY <1>1, <1>2, <1>3 DEF Silent, NoPulse
  <2> QED BY <1>1, <1>3, <2>1
<1>4. CASE ~Silent(pulse)
  <2>1. bvalid /\ AllEqual /\ quiet = 0
    BY <1>4 DEF ChainInv, PulseAlone, AllEqual
  <2>2. Nothing
    BY <1>1, <2>1 DEF Accepted
  <2> QED BY <1>1, <1>4, <2>1, <2>2
<1> QED BY <1>3, <1>4

(* The counts of what was pulsed, over an edge of the AXI clock.           *)
LEMMA AxilCounts ==
    ASSUME NEW offer \in BOOLEAN, AxilEdge(offer), ChainInv
    PROVE  /\ CountType /\ pulse' \in [Kinds -> BOOLEAN] /\ bvalid' \in BOOLEAN
           /\ \E S : meant' \in Seq(S)
           /\ acks' \in Nat
           /\ Accepted => /\ Len(meant') = Len(meant) + Flag(pulse'["load"])
                          /\ acks' = acks + Flag(pulse'["ack"])
           /\ Nothing => meant' = meant /\ acks' = acks /\ Silent(pulse')
<1>1. Accepted \/ Nothing
  BY AxilFacts
<1>2. CountType
  BY DEF ChainInv
<1>3. PICK S : meant \in Seq(S)
  BY <1>2 DEF CountType
<1>4. CASE Accepted
  <2>1. CASE pulse'["load"]
    <3>1. PICK m : meant' = Append(meant, m)
      BY <1>4, <2>1 DEF Accepted
    <3>2. meant \in Seq(S \cup {m})
      BY <1>3
    <3>3. meant' \in Seq(S \cup {m}) /\ Len(meant') = Len(meant) + 1
      BY <3>1, <3>2
    <3> QED BY <1>2, <1>4, <2>1, <3>3 DEF Accepted, Flag, Nothing, CountType
  <2>2. CASE ~pulse'["load"]
    <3>1. meant' = meant /\ Len(meant) \in Nat
      BY <1>3, <1>4, <2>2 DEF Accepted
    <3> QED BY <1>2, <1>3, <1>4, <2>2, <3>1 DEF Accepted, Flag, Nothing, CountType
  <2> QED BY <2>1, <2>2
<1>5. CASE Nothing
  <2>1. NoPulse \in [Kinds -> BOOLEAN]
    BY DEF NoPulse
  <2> QED BY <1>2, <1>3, <1>5, <2>1 DEF Nothing, CountType, Accepted, Silent
<1> QED BY <1>1, <1>4, <1>5

LEMMA SilentFlags ==
    ASSUME Silent(pulse)
    PROVE  Flag(pulse["load"]) = 0 /\ Flag(pulse["ack"]) = 0
BY DEF Silent, NoPulse, Flag, Kinds

LEMMA StepAxil ==
    ASSUME NEW offer \in BOOLEAN, AxilTick(offer), ChainInv
    PROVE  ChainInv'
<1>1. AxilEdge(offer) /\ UNCHANGED <<sync, loads, ackSeen>>
      /\ quiet' = IF Silent(pulse) /\ Silent(pulse') THEN quiet ELSE 0
  BY DEF AxilTick, coreVars
<1>2. quiet \in 0..Spacing /\ Spacing \in Nat /\ SYNC_FF \in Nat
  BY ControlAssumption DEF ChainInv, ChainType
<1>3. ChainType'
  <2>1. tog' = Toggled /\ Toggled \in [Kinds -> BOOLEAN]
    BY <1>1, AxilFacts DEF Toggled
  <2>2. pulse' \in [Kinds -> BOOLEAN] /\ bvalid' \in BOOLEAN
    BY <1>1, AxilCounts
  <2>3. sync' \in [Kinds -> [0..SYNC_FF -> BOOLEAN]] /\ quiet' \in 0..Spacing
    BY <1>1, <1>2 DEF ChainInv, ChainType
  <2> QED BY <2>1, <2>2, <2>3 DEF ChainType
<1>4. CountType'
  BY <1>1, AxilCounts DEF ChainInv, CountType
<1>5. CASE Accepted /\ tog' = tog /\ Silent(pulse)
  <2>1. ~Silent(pulse') => AllEqual /\ bvalid' /\ quiet' = 0
    BY <1>1, <1>5, QuietMeans DEF Accepted
  <2>2. PulseAlone'
    BY <1>1, <1>5, <2>1 DEF PulseAlone, AllEqual
  <2>3. quiet' <= quiet
    BY <1>1, <1>2
  <2>4. OneChange'
    BY <1>1, <1>2, <1>5, <2>3 DEF ChainInv, OneChange, ChainType
  <2>5. Counts'
    <3>1. Len(meant') = Len(meant) + Flag(pulse'["load"]) /\ acks' = acks + Flag(pulse'["ack"])
      BY <1>1, <1>5, AxilCounts
    <3>2. Level("load")' = Level("load") /\ Level("ack")' = Level("ack")
      BY <1>1 DEF Level
    <3>3. Len(meant) = loads + Flag(tog["load"] # Level("load"))
          /\ acks = ackSeen + Flag(tog["ack"] # Level("ack"))
      BY <1>5, SilentFlags DEF ChainInv, Counts, UnderWay, Flag, CountType
    <3> QED BY <1>1, <1>5, <3>1, <3>2, <3>3 DEF Counts, UnderWay, Flag, ChainInv, CountType
  <2> QED BY <1>3, <1>4, <2>2, <2>4, <2>5 DEF ChainInv
<1>6. CASE Nothing /\ Silent(pulse) /\ tog' = tog
  <2>1. quiet' = quiet /\ pulse' = pulse /\ meant' = meant /\ acks' = acks
    BY <1>1, <1>6 DEF Silent, Nothing
  <2>2. PulseAlone'
    BY <1>6, <2>1 DEF PulseAlone, Silent
  <2>3. OneChange'
    BY <1>1, <1>6, <2>1 DEF ChainInv, OneChange
  <2>4. Counts'
    BY <1>1, <1>6, <2>1 DEF ChainInv, Counts, UnderWay, Level
  <2> QED BY <1>3, <1>4, <2>2, <2>3, <2>4 DEF ChainInv
<1>7. CASE /\ Nothing /\ ~Silent(pulse) /\ AllEqual /\ quiet = 0
           /\ \A k \in Kinds : tog'[k] = (tog[k] # pulse[k])
  <2>1. quiet' = 0 /\ Silent(pulse') /\ meant' = meant /\ acks' = acks
    BY <1>1, <1>7, AxilCounts
  <2>2. PulseAlone'
    BY <2>1 DEF PulseAlone
  <2>3. OneChange'
    <3> SUFFICES ASSUME NEW k \in Kinds, NEW i \in 0..SYNC_FF
                 PROVE  /\ i < quiet' => sync'[k][i] = tog'[k]
                        /\ sync'[k][i] # tog'[k] /\ i < SYNC_FF => sync'[k][i + 1] # tog'[k]
      BY DEF OneChange
    <3>1. ~(i < quiet')
      BY <2>1
    <3>2. i < SYNC_FF => i + 1 \in 0..SYNC_FF
      BY <1>2
    <3> QED BY <1>1, <1>7, <3>1, <3>2 DEF AllEqual
  <2>4. Counts'
    <3>1. Level("load")' = tog["load"] /\ Level("ack")' = tog["ack"]
      BY <1>1, <1>2, <1>7 DEF Level, AllEqual, Kinds
    <3>2. Len(meant) = loads + Flag(pulse["load"]) /\ acks = ackSeen + Flag(pulse["ack"])
      BY <1>2, <1>7 DEF ChainInv, Counts, UnderWay, Flag, Level, AllEqual, Kinds, CountType
    <3>3. tog'["load"] = (tog["load"] # pulse["load"]) /\ tog'["ack"] = (tog["ack"] # pulse["ack"])
          /\ pulse["load"] \in BOOLEAN /\ pulse["ack"] \in BOOLEAN
          /\ tog["load"] \in BOOLEAN /\ tog["ack"] \in BOOLEAN
      BY <1>7 DEF Kinds, ChainInv, ChainType
    <3>4. Flag(pulse'["load"]) = 0 /\ Flag(pulse'["ack"]) = 0
      BY <2>1 DEF Silent, NoPulse, Flag, Kinds
    <3> QED BY <1>1, <2>1, <3>1, <3>2, <3>3, <3>4 DEF Counts, UnderWay, Flag, ChainInv, CountType
  <2> QED BY <1>3, <1>4, <2>2, <2>3, <2>4 DEF ChainInv
<1> QED BY <1>1, <1>5, <1>6, <1>7, AxilCases

LEMMA StepCore == CoreTick /\ ChainInv => ChainInv'
<1> SUFFICES ASSUME CoreTick, ChainInv PROVE ChainInv'
  OBVIOUS
<1>1. CoreEdge(tog, snap) /\ UNCHANGED <<pulse, tog, bvalid, meant, acks>>
      /\ quiet' = IF Silent(pulse) THEN Longer ELSE quiet
  BY DEF CoreTick, axilVars
<1>2. quiet \in 0..Spacing /\ Spacing \in Nat /\ SYNC_FF \in Nat \ {0}
  BY ControlAssumption DEF ChainInv, ChainType
<1>3. quiet' \in 0..Spacing /\ quiet' <= quiet + 1
  BY <1>1, <1>2 DEF Longer
<1>4. ChainType'
  BY <1>1, <1>3, CoreShifts DEF ChainInv, ChainType
<1>5. loads' = loads + Flag(dst_pulse("load")) /\ ackSeen' = ackSeen + Flag(dst_pulse("ack"))
  BY <1>1, CoreFacts
<1>6. CountType'
  BY <1>1, <1>5 DEF ChainInv, CountType, Flag
<1>7. PulseAlone'
  <2>1. ~Silent(pulse) => AllEqual /\ bvalid /\ quiet = 0
    BY DEF ChainInv, PulseAlone, AllEqual
  <2> QED BY <1>1, <2>1, CoreShifts DEF PulseAlone, AllEqual
<1>8. OneChange'
  <2> SUFFICES ASSUME NEW k \in Kinds, NEW i \in 0..SYNC_FF
               PROVE  /\ i < quiet' => sync'[k][i] = tog'[k]
                      /\ sync'[k][i] # tog'[k] /\ i < SYNC_FF => sync'[k][i + 1] # tog'[k]
    BY DEF OneChange
  <2>1. i < quiet' => i < quiet + 1
    BY <1>2, <1>3
  <2> QED BY <1>1, <2>1, CoreShifts
<1>9. Counts'
  <2>1. \A k \in Kinds : Flag(tog[k] # Level(k)) = Flag(dst_pulse(k)) + Flag(tog[k] # Level(k)')
    BY <1>1, CoreShifts
  <2>2. /\ Flag(tog["load"] # Level("load")) = Flag(dst_pulse("load")) + Flag(tog'["load"] # Level("load")')
        /\ Flag(tog["ack"] # Level("ack")) = Flag(dst_pulse("ack")) + Flag(tog'["ack"] # Level("ack")')
    BY <1>1, <2>1 DEF Kinds
  <2>3. \A b \in BOOLEAN : Flag(b) \in Nat
    BY DEF Flag
  <2>4. /\ Len(meant) = loads + (Flag(pulse["load"]) + Flag(tog["load"] # Level("load")))
        /\ acks = ackSeen + (Flag(pulse["ack"]) + Flag(tog["ack"] # Level("ack")))
        /\ loads \in Nat /\ ackSeen \in Nat
    BY DEF ChainInv, Counts, UnderWay, CountType
  <2>5. /\ Flag(pulse["load"]) \in Nat /\ Flag(pulse["ack"]) \in Nat
        /\ Flag(dst_pulse("load")) \in Nat /\ Flag(dst_pulse("ack")) \in Nat
        /\ Flag(tog'["load"] # Level("load")') \in Nat /\ Flag(tog'["ack"] # Level("ack")') \in Nat
    BY DEF Flag
  <2> QED BY SMTT(30), <1>1, <1>5, <2>2, <2>4, <2>5 DEF Counts, UnderWay
<1> QED BY <1>4, <1>6, <1>7, <1>8, <1>9 DEF ChainInv

(* Both edges at once: what the core samples of a toggle that moves may be *)
(* old or new.                                                             *)
LEMMA StepBoth ==
    ASSUME NEW offer \in BOOLEAN, BothTick(offer), ChainInv
    PROVE  ChainInv'
<1>1. PICK t \in Toggles(tog, tog'), b \in Torn(snap, snap') : CoreEdge(t, b)
  BY DEF BothTick
<1>2. AxilEdge(offer)
      /\ quiet' = IF Silent(pulse) /\ Silent(pulse') THEN Longer ELSE 0
  BY DEF BothTick
<1>3. quiet \in 0..Spacing /\ Spacing \in Nat /\ SYNC_FF \in Nat \ {0}
  BY ControlAssumption DEF ChainInv, ChainType
<1>4. quiet' \in 0..Spacing /\ quiet' <= quiet + 1
  BY <1>2, <1>3 DEF Longer
<1>5. /\ loads' = loads + Flag(dst_pulse("load")) /\ ackSeen' = ackSeen + Flag(dst_pulse("ack"))
      /\ sync' = [k \in Kinds |-> [i \in 0..SYNC_FF |-> IF i = 0 THEN t[k] ELSE sync[k][i - 1]]]
  BY <1>1, CoreFacts
<1>6. CountType'
  <2>1. (\E S : meant' \in Seq(S)) /\ acks' \in Nat
    BY <1>2, AxilCounts
  <2> QED BY <1>5, <2>1 DEF ChainInv, CountType, Flag
<1>7. tog' \in [Kinds -> BOOLEAN] /\ pulse' \in [Kinds -> BOOLEAN] /\ bvalid' \in BOOLEAN
  <2>1. tog' = Toggled /\ Toggled \in [Kinds -> BOOLEAN]
    BY <1>2, AxilFacts DEF Toggled
  <2> QED BY <1>2, <2>1, AxilCounts
<1>8. t \in [Kinds -> BOOLEAN] /\ \A k \in Kinds : t[k] \in {tog[k], tog'[k]}
  BY <1>1 DEF Toggles
<1>9. CASE tog' = tog
  <2>1. t = tog
    BY <1>7, <1>8, <1>9
  <2>2. CoreEdge(tog, b)
    BY <1>1, <2>1
  <2>3. sync' \in [Kinds -> [0..SYNC_FF -> BOOLEAN]]
    BY <2>2, CoreShifts
  <2>4. (Accepted \/ Nothing) /\ Silent(pulse)
    <3>1. CASE Silent(pulse)
      BY <1>2, <3>1, AxilFacts
    <3>2. CASE ~Silent(pulse)
      <4>1. \A k \in Kinds : tog'[k] = (tog[k] # pulse[k])
        BY <1>2, <3>2, AxilCases
      <4>2. pulse = NoPulse
        BY <1>9, <4>1 DEF NoPulse, ChainInv, ChainType
      <4> QED BY <3>2, <4>2 DEF Silent
    <3> QED BY <3>1, <3>2
  <2>5. ~Silent(pulse') => AllEqual /\ bvalid' /\ quiet' = 0
    <3>1. Nothing => Silent(pulse')
      BY DEF Nothing, Silent
    <3> QED BY <1>2, <2>4, <3>1, QuietMeans DEF Accepted
  <2>6. PulseAlone'
    <3>1. AllEqual => AllEqual'
      BY <1>9, <2>2, CoreShifts
    <3> QED BY <2>5, <3>1 DEF PulseAlone, AllEqual
  <2>7. OneChange'
    <3> SUFFICES ASSUME NEW k \in Kinds, NEW i \in 0..SYNC_FF
                 PROVE  /\ i < quiet' => sync'[k][i] = tog'[k]
                        /\ sync'[k][i] # tog'[k] /\ i < SYNC_FF => sync'[k][i + 1] # tog'[k]
      BY DEF OneChange
    <3>1. i < quiet' => i < quiet + 1
      BY <1>3, <1>4
    <3> QED BY <1>9, <2>2, <3>1, CoreShifts
  <2>8. Counts'
    <3>1. \A k \in Kinds : Flag(tog[k] # Level(k)) = Flag(dst_pulse(k)) + Flag(tog[k] # Level(k)')
      BY <2>2, CoreShifts
    <3>2. /\ Flag(tog["load"] # Level("load")) = Flag(dst_pulse("load")) + Flag(tog'["load"] # Level("load")')
          /\ Flag(tog["ack"] # Level("ack")) = Flag(dst_pulse("ack")) + Flag(tog'["ack"] # Level("ack")')
      BY <1>9, <3>1 DEF Kinds
    <3>3. Len(meant) = loads + Flag(tog["load"] # Level("load"))
          /\ acks = ackSeen + Flag(tog["ack"] # Level("ack"))
          /\ loads \in Nat /\ ackSeen \in Nat
      BY <2>4, SilentFlags DEF ChainInv, Counts, UnderWay, Flag, CountType
    <3>4. Len(meant') = Len(meant) + Flag(pulse'["load"]) /\ acks' = acks + Flag(pulse'["ack"])
      <4>1. CASE Accepted
        BY <1>2, <4>1, AxilCounts
      <4>2. CASE Nothing
        <5>1. Flag(pulse'["load"]) = 0 /\ Flag(pulse'["ack"]) = 0
          BY <4>2 DEF Nothing, NoPulse, Flag, Kinds
        <5>2. Len(meant) \in Nat /\ acks \in Nat
          BY DEF ChainInv, CountType
        <5>3. Len(meant') = Len(meant) /\ acks' = acks
          BY <4>2 DEF Nothing
        <5>4. ASSUME NEW f \in Nat, NEW g \in Nat, f = 0, g = 0
              PROVE  Len(meant') = Len(meant) + f /\ acks' = acks + g
          BY <5>2, <5>3, <5>4
        <5> QED BY <5>1, <5>4
      <4> QED BY <2>4, <4>1, <4>2
    <3>5. /\ Flag(pulse'["load"]) \in Nat /\ Flag(pulse'["ack"]) \in Nat
          /\ Flag(dst_pulse("load")) \in Nat /\ Flag(dst_pulse("ack")) \in Nat
          /\ Flag(tog'["load"] # Level("load")') \in Nat /\ Flag(tog'["ack"] # Level("ack")') \in Nat
      BY DEF Flag
    <3>6. loads' = loads + Flag(dst_pulse("load")) /\ ackSeen' = ackSeen + Flag(dst_pulse("ack"))
      BY <1>5
    <3>7. /\ Len(meant') = loads' + (Flag(pulse'["load"]) + Flag(tog'["load"] # Level("load")'))
          /\ acks' = ackSeen' + (Flag(pulse'["ack"]) + Flag(tog'["ack"] # Level("ack")'))
      <4> DEFINE f == Flag(tog["load"] # Level("load"))
                 g == Flag(dst_pulse("load"))
                 h == Flag(tog'["load"] # Level("load")')
                 m == Flag(pulse'["load"])
                 fa == Flag(tog["ack"] # Level("ack"))
                 ga == Flag(dst_pulse("ack"))
                 ha == Flag(tog'["ack"] # Level("ack")')
                 ma == Flag(pulse'["ack"])
      <4>1. Len(meant) = loads + f /\ f = g + h /\ Len(meant') = Len(meant) + m
            /\ loads' = loads + g /\ loads \in Nat /\ g \in Nat /\ h \in Nat /\ m \in Nat
        BY <3>2, <3>3, <3>4, <3>5, <3>6
      <4>2. acks = ackSeen + fa /\ fa = ga + ha /\ acks' = acks + ma
            /\ ackSeen' = ackSeen + ga /\ ackSeen \in Nat /\ ga \in Nat /\ ha \in Nat /\ ma \in Nat
        BY <3>2, <3>3, <3>4, <3>5, <3>6
      <4> HIDE DEF f, g, h, m, fa, ga, ha, ma
      <4>3. Len(meant') = loads' + (m + h) /\ acks' = ackSeen' + (ma + ha)
        BY <4>1, <4>2
      <4> QED BY <4>3 DEF h, m, ha, ma
    <3> QED BY <3>7 DEF Counts, UnderWay
  <2> QED BY <1>4, <1>6, <1>7, <2>3, <2>6, <2>7, <2>8 DEF ChainInv, ChainType
<1>10. CASE tog' # tog
  <2>1. /\ Nothing /\ AllEqual /\ quiet = 0 /\ ~Silent(pulse)
        /\ \A k \in Kinds : tog'[k] = (tog[k] # pulse[k])
    BY <1>2, <1>10, AxilCases
  <2>2. /\ quiet' = 0 /\ Silent(pulse') /\ meant' = meant /\ acks' = acks
        /\ Flag(pulse'["load"]) = 0 /\ Flag(pulse'["ack"]) = 0
    BY <1>2, <2>1 DEF Nothing, Silent, NoPulse, Flag, Kinds
  <2>3. \A i \in 0..SYNC_FF : i # 0 => i - 1 \in 0..SYNC_FF
    BY <1>3
  <2>4. \A k \in Kinds, i \in 0..SYNC_FF : sync'[k][i] = IF i = 0 THEN t[k] ELSE tog[k]
    BY <1>5, <2>1, <2>3 DEF AllEqual
  <2>5. sync' \in [Kinds -> [0..SYNC_FF -> BOOLEAN]]
    BY <1>5, <1>8, <2>3 DEF ChainInv, ChainType
  <2>6. PulseAlone'
    BY <2>2 DEF PulseAlone
  <2>7. OneChange'
    <3> SUFFICES ASSUME NEW k \in Kinds, NEW i \in 0..SYNC_FF
                 PROVE  /\ i < quiet' => sync'[k][i] = tog'[k]
                        /\ sync'[k][i] # tog'[k] /\ i < SYNC_FF => sync'[k][i + 1] # tog'[k]
      BY DEF OneChange
    <3>1. ~(i < quiet')
      BY <2>2
    <3>2. i < SYNC_FF => i + 1 \in 0..SYNC_FF /\ i + 1 # 0
      BY <1>3
    <3> QED BY <1>8, <2>4, <3>1, <3>2
  <2>8. Counts'
    <3>1. SYNC_FF \in 0..SYNC_FF /\ SYNC_FF # 0 /\ SYNC_FF - 1 \in 0..SYNC_FF
      BY <1>3
    <3>2. Level("load")' = tog["load"] /\ Level("ack")' = tog["ack"]
      BY <2>4, <3>1 DEF Level, Kinds
    <3>3. Level("load") = tog["load"] /\ Level("ack") = tog["ack"]
      BY <2>1, <3>1 DEF Level, AllEqual, Kinds
    <3>4. Len(meant) = loads + Flag(pulse["load"]) /\ acks = ackSeen + Flag(pulse["ack"])
          /\ loads \in Nat /\ ackSeen \in Nat
      BY <3>3 DEF ChainInv, Counts, UnderWay, Flag, CountType
    <3>5. tog'["load"] = (tog["load"] # pulse["load"]) /\ tog'["ack"] = (tog["ack"] # pulse["ack"])
          /\ pulse["load"] \in BOOLEAN /\ pulse["ack"] \in BOOLEAN
          /\ tog["load"] \in BOOLEAN /\ tog["ack"] \in BOOLEAN
      BY <2>1 DEF Kinds, ChainInv, ChainType
    <3>6. ~dst_pulse("load") /\ ~dst_pulse("ack")
      BY <2>1, <3>1 DEF dst_pulse, AllEqual, Kinds
    <3>7. loads' = loads /\ ackSeen' = ackSeen
      BY <1>5, <3>4, <3>6 DEF Flag
    <3> QED BY <2>2, <3>2, <3>4, <3>5, <3>7 DEF Counts, UnderWay, Flag
  <2> QED BY <1>4, <1>6, <1>7, <2>5, <2>6, <2>7, <2>8 DEF ChainInv, ChainType
<1> QED BY <1>9, <1>10

LEMMA NextChain == ChainInv /\ [Next]_vars => ChainInv'
<1> SUFFICES ASSUME ChainInv, [Next]_vars PROVE ChainInv'
  OBVIOUS
<1> DEFINE seen == <<pulse, tog, sync, bvalid, quiet, meant, acks, loads, ackSeen>>
<1>1. CASE UNCHANGED seen
  <2>1. /\ pulse' = pulse /\ tog' = tog /\ sync' = sync /\ bvalid' = bvalid /\ quiet' = quiet
        /\ meant' = meant /\ acks' = acks /\ loads' = loads /\ ackSeen' = ackSeen
    BY <1>1
  <2> QED BY <2>1 DEF ChainInv, ChainType, CountType, PulseAlone, OneChange, Counts, UnderWay, Level, Silent
<1>2. CASE \/ \E s \in Settings : Configure(s)
           \/ \E on \in BOOLEAN : SwitchTrading(on)
           \/ Commit \/ OrderAck
  <2>1. UNCHANGED seen
    BY <1>2 DEF Configure, SwitchTrading, Commit, OrderAck, axilVars, coreVars, hostVars
  <2> QED BY <1>1, <2>1
<1>3. CASE \E offer \in BOOLEAN : AxilTick(offer) \/ BothTick(offer)
  BY <1>3, StepAxil, StepBoth
<1>4. CASE CoreTick
  BY <1>4, StepCore
<1>5. CASE UNCHANGED vars
  <2>1. UNCHANGED seen
    BY <1>5 DEF vars, axilVars, coreVars
  <2> QED BY <1>1, <2>1
<1> QED BY <1>2, <1>3, <1>4, <1>5 DEF Next

LEMMA ChainInvariance == Spec => []ChainInv
BY InitChain, NextChain, PTL DEF Spec

(* Every pulse of the host's, a commit or an acknowledgement, is seen by   *)
(* the core exactly once, and within SYNC_FF + 1 quiet core cycles, for    *)
(* every depth of the synchronizers (cfg_cdc.sv, pulse_sync).              *)
THEOREM PulsesCrossOnce == Spec => []EachPulseOnce
<1>1. ChainInv => EachPulseOnce
  <2> SUFFICES ASSUME ChainInv PROVE EachPulseOnce
    OBVIOUS
  <2>1. UnderWay("load") \in {0, 1} /\ UnderWay("ack") \in {0, 1}
    <3>1. CASE Silent(pulse)
      BY <3>1, SilentFlags DEF UnderWay, Flag
    <3>2. CASE ~Silent(pulse)
      <4>1. SYNC_FF \in 0..SYNC_FF
        BY ControlAssumption
      <4>2. Level("load") = tog["load"] /\ Level("ack") = tog["ack"]
        BY <3>2, <4>1 DEF ChainInv, PulseAlone, Level, Kinds
      <4> QED BY <4>2 DEF UnderWay, Flag
    <3> QED BY <3>1, <3>2
  <2>2. Len(meant) = loads + UnderWay("load") /\ acks = ackSeen + UnderWay("ack")
        /\ loads \in Nat /\ ackSeen \in Nat
    BY DEF ChainInv, Counts, CountType
  <2>3. quiet = Spacing => UnderWay("load") = 0 /\ UnderWay("ack") = 0
    <3> SUFFICES ASSUME quiet = Spacing
                 PROVE  UnderWay("load") = 0 /\ UnderWay("ack") = 0
      OBVIOUS
    <3>1. SYNC_FF \in 0..SYNC_FF
      BY ControlAssumption
    <3>2. Level("load") = tog["load"] /\ Level("ack") = tog["ack"]
      BY <3>1, QuietMeans DEF AllEqual, Level, Kinds
    <3> QED BY <3>2, QuietMeans, SilentFlags DEF UnderWay, Flag
  <2> QED BY <2>1, <2>2, <2>3 DEF EachPulseOnce
<1> QED BY <1>1, ChainInvariance, PTL
-----------------------------------------------------------------------------
(* What the register map owes the crossing, on constants alone: configure  *)
(* writes every register but the kill switch, and a commit's writes are    *)
(* words of the file, the commit itself last; and whatever the file held   *)
(* before, once it holds the last word written to each address its ports   *)
(* are what the host meant.                                                *)
Regs(s, on) == [n \in RegNames |-> IF n = "cfg_enable" THEN on ELSE Arguments(s)[n]]
Writes(s, on) == CommitStream(Regs(s, on), s)

Holds(c, w, j) ==
    \A k \in 1..j : is_cfg(widx(w[k])) =>
        ((\A i \in (k + 1)..j : widx(w[i]) # widx(w[k])) => c[widx(w[k])] = w[k][2])

MapIsFaithful ==
    /\ Written \in Seq(RegNames) /\ ToSet(Written) = RegNames \ {"cfg_enable"}
    /\ \A s \in Settings, on \in {0, 1} : FirstRefused(Arguments(s)) = 0 =>
         LET w == Writes(s, on) IN
         /\ w \in Seq(Nat \X Nat) /\ w # <<>>
         /\ \A k \in 1..Len(w) : is_cfg(widx(w[k])) => widx(w[k]) \in 0..63
         /\ \A k \in 1..(Len(w) - 1) : widx(w[k]) # A_CTRL
         /\ \A c : Holds(c, w, Len(w)) => Ports(c) = Meant(Regs(s, on), s)

(* So the file holds what was meant whenever a commit is pulsed: configure *)
(* and the kill switch wait for the writes of a commit to be over, and a   *)
(* configure that raised lets none start.                                  *)
BusAsMeant == pulse["load"] => Ports(cfgw) = meant[Len(meant)]

Committing ==
    /\ ready
    /\ \E j \in Nat : LET w == Writes(setting, regs["cfg_enable"]) IN
         /\ j < Len(w) /\ stream = SubSeq(w, j + 1, Len(w)) /\ Holds(cfgw, w, j)

HostInv ==
    /\ cfgw = [i \in 0..63 |-> cfgw[i]]
    /\ regs = [n \in RegNames |-> regs[n]] /\ regs["cfg_enable"] \in {0, 1}
    /\ ready => /\ setting \in Settings /\ FirstRefused(Arguments(setting)) = 0
                /\ regs = Regs(setting, regs["cfg_enable"])
    /\ \/ stream = <<>>
       \/ stream = << <<CTRL_OFFSET, CTRL_ORDER_ACK>> >>
       \/ Committing
    /\ BusAsMeant

LEMMA SwitchIsARegister == "cfg_enable" \in RegNames
<1>1. 5 \in DOMAIN REGS /\ REGS[5] = <<"cfg_enable", 1>>
  BY DEF REGS
<1>2. 5 \in DOMAIN Names /\ Names[5] = "cfg_enable"
  BY <1>1 DEF Names
<1> QED BY <1>2 DEF RegNames, ToSet

LEMMA InitHost == Init => HostInv
BY SwitchIsARegister DEF Init, HostInv, BusAsMeant, NoPulse, Kinds, Zeros

LEMMA Positions ==
    ASSUME NEW j \in Nat
    PROVE  /\ \A n \in Nat : j < n => j + 1 \in 1..n /\ \A i \in 1..(j + 1) : i \in 1..n
           /\ \A n \in Nat : j + 1 < n => j + 1 \in 1..(n - 1)
           /\ \A i \in 1..(j + 1) : i # j + 1 =>
                /\ i \in 1..j /\ j + 1 \in (i + 1)..(j + 1)
                /\ \A h \in (i + 1)..j : h \in (i + 1)..(j + 1)
OBVIOUS

(* The next write of a commit: the word is held, and the last write is the *)
(* commit itself.                                                          *)
LEMMA WriteHolds ==
    ASSUME NEW w, Len(w) \in Nat, NEW j \in Nat, j < Len(w),
           \A k \in 1..Len(w) : is_cfg(widx(w[k])) => widx(w[k]) \in 0..63,
           NEW c, c = [i \in 0..63 |-> c[i]], Holds(c, w, j), NEW d,
           d = IF is_cfg(widx(w[j + 1])) THEN [c EXCEPT ![widx(w[j + 1])] = w[j + 1][2]] ELSE c
    PROVE  Holds(d, w, j + 1)
<1> SUFFICES ASSUME NEW k \in 1..(j + 1), is_cfg(widx(w[k])),
                    \A i \in (k + 1)..(j + 1) : widx(w[i]) # widx(w[k])
             PROVE  d[widx(w[k])] = w[k][2]
  BY DEF Holds
<1>1. k \in 1..Len(w) /\ j + 1 \in 1..Len(w)
  BY Positions
<1>2. widx(w[k]) \in 0..63
  BY <1>1
<1>3. CASE k = j + 1
  BY <1>2, <1>3
<1>4. CASE k # j + 1
  <2>1. /\ k \in 1..j /\ j + 1 \in (k + 1)..(j + 1)
        /\ \A i \in (k + 1)..j : i \in (k + 1)..(j + 1)
    BY <1>4, Positions
  <2>2. widx(w[j + 1]) # widx(w[k])
    BY <2>1
  <2>3. c[widx(w[k])] = w[k][2]
    <3>1. \A i \in (k + 1)..j : widx(w[i]) # widx(w[k])
      BY <2>1
    <3> QED BY <2>1, <3>1 DEF Holds
  <2>4. d[widx(w[k])] = c[widx(w[k])]
    <3>1. CASE is_cfg(widx(w[j + 1]))
      <4>1. widx(w[j + 1]) \in 0..63
        BY <1>1, <3>1
      <4> QED BY <1>2, <2>2, <3>1, <4>1
    <3>2. CASE ~is_cfg(widx(w[j + 1]))
      BY <3>2
    <3> QED BY <3>1, <3>2
  <2> QED BY <2>3, <2>4
<1> QED BY <1>3, <1>4

LEMMA NextOfRest ==
    ASSUME NEW S, NEW w \in Seq(S), NEW j \in Nat, j < Len(w)
    PROVE  /\ Head(SubSeq(w, j + 1, Len(w))) = w[j + 1]
           /\ Tail(SubSeq(w, j + 1, Len(w))) = SubSeq(w, j + 2, Len(w))
<1> DEFINE q == SubSeq(w, j + 1, Len(w))
           r == SubSeq(w, j + 2, Len(w))
<1>1. Len(w) \in Nat /\ j + 1 \in 1..Len(w) /\ j + 2 \in 1..(Len(w) + 1)
  OBVIOUS
<1>2. /\ q \in Seq(S) /\ Len(q) = Len(w) - j
      /\ \A i \in 1..(Len(w) - j) : q[i] = w[j + i]
  BY <1>1, SubSeqProperties
<1>3. /\ r \in Seq(S) /\ Len(r) = Len(w) - (j + 1)
      /\ \A i \in 1..(Len(w) - (j + 1)) : r[i] = w[j + 1 + i]
  BY <1>1, SubSeqProperties
<1> HIDE DEF q, r
<1>4. q # <<>> /\ Head(q) = w[j + 1]
  BY <1>1, <1>2
<1>5. /\ Tail(q) \in Seq(S) /\ Len(Tail(q)) = Len(w) - (j + 1)
      /\ \A i \in 1..(Len(w) - (j + 1)) : Tail(q)[i] = q[i + 1]
  BY <1>1, <1>2, <1>4, HeadTailProperties
<1>6. Tail(q) = r
  <2>1. \A i \in 1..(Len(w) - (j + 1)) : Tail(q)[i] = r[i]
    BY <1>1, <1>2, <1>3, <1>5
  <2> QED BY <1>3, <1>5, <2>1, SeqEqual
<1> QED BY <1>4, <1>6 DEF q, r

LEMMA FileStaysFile ==
    ASSUME NEW w, WriteWord(w), cfgw = [i \in 0..63 |-> cfgw[i]]
    PROVE  cfgw' = [i \in 0..63 |-> cfgw'[i]]
<1>1. cfgw' = IF is_cfg(widx(w)) THEN [cfgw EXCEPT ![widx(w)] = w[2]] ELSE cfgw
  BY DEF WriteWord
<1> QED BY <1>1

LEMMA HostWrites ==
    ASSUME MapIsFaithful, ChainInv, HostInv, stream # <<>>, WriteWord(Head(stream)),
           UNCHANGED hostVars
    PROVE  HostInv'
<1> DEFINE x == Head(stream)
<1>1. /\ cfgw' = IF is_cfg(widx(x)) THEN [cfgw EXCEPT ![widx(x)] = x[2]] ELSE cfgw
      /\ pulse' = PulsesOf(x) /\ stream' = Tail(stream)
      /\ meant' = IF pulse'["load"] THEN Append(meant, Meant(regs, setting)) ELSE meant
  BY DEF WriteWord
<1>2. cfgw' = [i \in 0..63 |-> cfgw'[i]]
  BY FileStaysFile DEF HostInv
<1>3. UNCHANGED <<regs, ready, setting>>
  BY DEF hostVars
<1>4. CASE stream = << <<CTRL_OFFSET, CTRL_ORDER_ACK>> >>
  <2>1. x = <<CTRL_OFFSET, CTRL_ORDER_ACK>> /\ stream' = <<>>
    BY <1>1, <1>4
  <2>2. ~pulse'["load"]
    BY <1>1, <2>1 DEF PulsesOf, Kinds, CTRL_ORDER_ACK
  <2> QED BY <1>2, <1>3, <2>1, <2>2 DEF HostInv, BusAsMeant
<1>5. CASE Committing
  <2>1. PICK s, e : s = setting /\ e = regs["cfg_enable"]
    OBVIOUS
  <2>2. PICK w : w = Writes(s, e)
    OBVIOUS
  <2>3. PICK j \in Nat : j < Len(w) /\ stream = SubSeq(w, j + 1, Len(w)) /\ Holds(cfgw, w, j)
    BY <1>5, <2>1, <2>2 DEF Committing
  <2>4. /\ ready /\ s \in Settings /\ e \in {0, 1} /\ FirstRefused(Arguments(s)) = 0
        /\ regs = Regs(s, e)
    BY <1>5, <2>1 DEF HostInv, Committing
  <2>5. /\ w \in Seq(Nat \X Nat) /\ Len(w) \in Nat
        /\ \A k \in 1..Len(w) : is_cfg(widx(w[k])) => widx(w[k]) \in 0..63
        /\ \A k \in 1..(Len(w) - 1) : widx(w[k]) # A_CTRL
        /\ \A c : Holds(c, w, Len(w)) => Ports(c) = Meant(Regs(s, e), s)
    <3>1. w \in Seq(Nat \X Nat)
      BY <2>2, <2>4, ZenonT(60) DEF MapIsFaithful
    <3>2. \A S : \A q \in Seq(S) : Len(q) \in Nat
      OBVIOUS
    <3>3. /\ \A k \in 1..Len(w) : is_cfg(widx(w[k])) => widx(w[k]) \in 0..63
          /\ \A k \in 1..(Len(w) - 1) : widx(w[k]) # A_CTRL
          /\ \A c : Holds(c, w, Len(w)) => Ports(c) = Meant(Regs(s, e), s)
      BY <2>2, <2>4, ZenonT(60) DEF MapIsFaithful
    <3> QED BY <3>1, <3>2, <3>3
  <2>6. x = w[j + 1] /\ stream' = SubSeq(w, j + 2, Len(w))
    <3>1. PICK S : w \in Seq(S)
      BY <2>5
    <3> QED BY <1>1, <2>3, <3>1, NextOfRest
  <2>7. Holds(cfgw', w, j + 1)
    <3>1. PICK c, d : c = cfgw /\ d = cfgw'
      OBVIOUS
    <3>2. Holds(d, w, j + 1)
      <4>1. c = [i \in 0..63 |-> c[i]]
        BY <3>1 DEF HostInv
      <4>2. d = IF is_cfg(widx(w[j + 1])) THEN [c EXCEPT ![widx(w[j + 1])] = w[j + 1][2]] ELSE c
        BY <1>1, <2>6, <3>1
      <4> QED BY <2>3, <2>5, <3>1, <4>1, <4>2, WriteHolds
    <3> QED BY <3>1, <3>2
  <2>8. CASE j + 1 < Len(w)
    <3>1. ~pulse'["load"]
      <4>1. widx(x) # A_CTRL
        <5>1. j + 1 \in 1..(Len(w) - 1)
          BY <2>5, <2>8, Positions
        <5> QED BY <2>5, <2>6, <5>1
      <4> QED BY <1>1, <4>1 DEF PulsesOf, Kinds
    <3>2. Committing'
      <4>1. w = Writes(s, e) /\ setting' = s /\ regs'["cfg_enable"] = e /\ ready'
        BY <1>3, <2>1, <2>2, <2>4
      <4>2. j + 1 \in Nat /\ (j + 1) + 1 = j + 2
        OBVIOUS
      <4> QED BY <2>6, <2>7, <2>8, <4>1, <4>2 DEF Committing
    <3> QED BY <1>2, <1>3, <2>1, <2>4, <3>1, <3>2 DEF HostInv, BusAsMeant
  <2>9. CASE j + 1 = Len(w)
    <3>1. stream' = <<>>
      BY <2>5, <2>6, <2>9
    <3>2. Ports(cfgw') = Meant(Regs(s, e), s)
      BY <2>5, <2>7, <2>9
    <3>3. pulse'["load"] => meant'[Len(meant')] = Meant(Regs(s, e), s)
      <4>1. PICK S : meant \in Seq(S)
        BY DEF ChainInv, CountType
      <4>2. PICK m : m = Meant(Regs(s, e), s)
        OBVIOUS
      <4>3. meant \in Seq(S \cup {m})
        BY <4>1
      <4>4. pulse'["load"] => meant' = Append(meant, m)
        BY <1>1, <2>1, <2>4, <4>2
      <4> QED BY <4>2, <4>3, <4>4
    <3>4. BusAsMeant'
      <4>1. Ports(cfgw)' = Ports(cfgw')
        OBVIOUS
      <4> QED BY <3>2, <3>3, <4>1 DEF BusAsMeant
    <3> QED BY <1>2, <1>3, <2>1, <2>4, <3>1, <3>4 DEF HostInv
  <2> QED BY <2>3, <2>5, <2>8, <2>9
<1> QED BY <1>4, <1>5 DEF HostInv

(* An accepted configure leaves nothing of the one before but the switch.  *)
LEMMA ConfigureReplaces ==
    ASSUME MapIsFaithful, NEW s, FirstRefused(Arguments(s)) = 0
    PROVE  Configured(regs, Arguments(s)) = Regs(s, regs["cfg_enable"])
<1>1. Configured(regs, Arguments(s)) =
        [n \in RegNames |-> IF n \in ToSet(Written) THEN Arguments(s)[n] ELSE regs[n]]
  BY DEF Configured
<1>2. ToSet(Written) = RegNames \ {"cfg_enable"}
  BY DEF MapIsFaithful
<1> QED BY <1>1, <1>2 DEF Regs

LEMMA LeastExists ==
    ASSUME NEW I \in SUBSET Nat, I # {}
    PROVE  \E x \in I : \A y \in I : x <= y
<1>1. PICK x \in I : \A y \in I : ~(<<y, x>> \in OpToRel(<, Nat))
  BY NatLessThanWellFounded, WFMin
<1>2. \A y \in I : ~(y < x)
  BY <1>1 DEF OpToRel
<1> QED BY <1>2

LEMMA RefusedIsWritten ==
    ASSUME NEW args, Written \in Seq(RegNames)
    PROVE  FirstRefused(args) \in 0..Len(Written)
<1> DEFINE I == {i \in 1..Len(Written) : ~Fits(Written[i], args[Written[i]])}
<1>1. FirstRefused(args) = IF I # {} THEN Min(I) ELSE 0
  BY DEF FirstRefused, SelectInSeq
<1>2. Len(Written) \in Nat /\ I \in SUBSET Nat /\ I \subseteq 1..Len(Written)
  OBVIOUS
<1> HIDE DEF I
<1>3. I # {} => Min(I) \in I
  BY <1>2, LeastExists DEF Min
<1>4. \A i \in 1..Len(Written) : i \in 0..Len(Written)
  BY <1>2
<1>5. 0 \in 0..Len(Written)
  BY <1>2
<1>6. CASE I = {}
  BY <1>1, <1>5, <1>6
<1>7. CASE I # {}
  <2>1. Min(I) \in 1..Len(Written)
    BY <1>2, <1>3, <1>7
  <2> QED BY <1>1, <1>4, <1>7, <2>1
<1> QED BY <1>6, <1>7

LEMMA ConfiguredSwitch ==
    ASSUME MapIsFaithful, NEW s
    PROVE  /\ Configured(regs, Arguments(s)) =
                [n \in RegNames |-> Configured(regs, Arguments(s))[n]]
           /\ Configured(regs, Arguments(s))["cfg_enable"] = regs["cfg_enable"]
<1> DEFINE stop == FirstRefused(Arguments(s))
           done == IF stop = 0 THEN ToSet(Written) ELSE ToSet(SubSeq(Written, 1, stop - 1))
<1>1. Configured(regs, Arguments(s)) =
        [n \in RegNames |-> IF n \in done THEN Arguments(s)[n] ELSE regs[n]]
  BY DEF Configured
<1>2. "cfg_enable" \notin done
  <2>1. "cfg_enable" \notin ToSet(Written)
    BY DEF MapIsFaithful
  <2>2. stop # 0 => ToSet(SubSeq(Written, 1, stop - 1)) \subseteq ToSet(Written)
    <3>1. Written \in Seq(RegNames) /\ stop \in 0..Len(Written)
      BY RefusedIsWritten DEF MapIsFaithful
    <3> HIDE DEF stop
    <3>2. stop # 0 => \A i \in 1..(stop - 1) : i \in 1..Len(Written) /\ SubSeq(Written, 1, stop - 1)[i] = Written[i]
      BY <3>1
    <3>3. stop # 0 => DOMAIN SubSeq(Written, 1, stop - 1) = 1..(stop - 1) /\ DOMAIN Written = 1..Len(Written)
      BY <3>1
    <3> QED BY <3>2, <3>3 DEF ToSet
  <2> QED BY <2>1, <2>2
<1> HIDE DEF done
<1> QED BY <1>1, <1>2, SwitchIsARegister

LEMMA NextHost == MapIsFaithful /\ ChainInv /\ HostInv /\ [Next]_vars => HostInv'
<1> SUFFICES ASSUME MapIsFaithful, ChainInv, HostInv, [Next]_vars PROVE HostInv'
  OBVIOUS
<1> DEFINE held == <<hostVars, stream, cfgw, pulse, meant>>
<1>1. ASSUME UNCHANGED held PROVE HostInv'
  BY <1>1 DEF HostInv, Committing, BusAsMeant, hostVars
<1>2. ASSUME NEW s \in Settings, Configure(s) PROVE HostInv'
  <2>1. /\ stream' = stream /\ stream = <<>> /\ UNCHANGED <<cfgw, pulse, meant>>
        /\ regs' = Configured(regs, Arguments(s)) /\ setting' = s
        /\ ready' = (FirstRefused(Arguments(s)) = 0)
    BY <1>2 DEF Configure, axilVars
  <2>2. regs' = [n \in RegNames |-> regs'[n]] /\ regs'["cfg_enable"] = regs["cfg_enable"]
    BY <2>1, ConfiguredSwitch
  <2>3. ready' => FirstRefused(Arguments(s)) = 0 /\ regs' = Regs(s, regs["cfg_enable"])
    BY <2>1, ConfigureReplaces
  <2>4. BusAsMeant'
    BY <2>1 DEF HostInv, BusAsMeant
  <2> QED BY <2>1, <2>2, <2>3, <2>4 DEF HostInv
<1>3. ASSUME NEW on \in BOOLEAN, SwitchTrading(on) PROVE HostInv'
  <2>1. /\ stream' = stream /\ stream = <<>> /\ UNCHANGED <<cfgw, pulse, meant, ready, setting>>
        /\ regs' = [regs EXCEPT !["cfg_enable"] = Flag(on)] /\ Flag(on) \in {0, 1}
    BY <1>3 DEF SwitchTrading, axilVars, Flag
  <2>2. regs' = [n \in RegNames |-> regs'[n]] /\ regs'["cfg_enable"] = Flag(on)
    BY <2>1, SwitchIsARegister DEF HostInv
  <2>3. ready => regs' = Regs(setting, Flag(on))
    BY <2>1 DEF HostInv, Regs
  <2>4. BusAsMeant'
    BY <2>1 DEF HostInv, BusAsMeant
  <2> QED BY <2>1, <2>2, <2>3, <2>4 DEF HostInv
<1>4. ASSUME Commit PROVE HostInv'
  <2>1. /\ stream' = CommitStream(regs, setting) /\ ready
        /\ UNCHANGED <<regs, ready, setting, cfgw, pulse, meant>>
    BY <1>4 DEF Commit, hostVars
  <2>2. PICK s, e : s = setting /\ e = regs["cfg_enable"]
    OBVIOUS
  <2>3. PICK w : w = Writes(s, e)
    OBVIOUS
  <2>4. /\ s \in Settings /\ e \in {0, 1} /\ FirstRefused(Arguments(s)) = 0
        /\ regs = Regs(s, e) /\ stream' = w
    BY <2>1, <2>2, <2>3 DEF HostInv, Writes
  <2>5. w \in Seq(Nat \X Nat) /\ w # <<>>
    BY <2>3, <2>4 DEF MapIsFaithful
  <2>6. 0 < Len(w) /\ w = SubSeq(w, 0 + 1, Len(w))
    <3>1. PICK S : w \in Seq(S)
      BY <2>5
    <3>2. Len(w) \in Nat /\ Len(w) # 0
      BY <2>5, <3>1, EmptySeq
    <3> QED BY <3>1, <3>2, SubSeqFull
  <2>7. Holds(cfgw', w, 0)
    BY DEF Holds
  <2>8. Committing'
    <3>1. w = Writes(s, e) /\ setting' = s /\ regs'["cfg_enable"] = e /\ ready'
      BY <2>1, <2>2, <2>3
    <3> QED BY <2>4, <2>6, <2>7, <3>1 DEF Committing
  <2> QED BY <2>1, <2>8 DEF HostInv, BusAsMeant
<1>5. ASSUME OrderAck PROVE HostInv'
  BY <1>5 DEF OrderAck, HostInv, BusAsMeant, hostVars
<1>6. ASSUME NEW offer \in BOOLEAN, AxilEdge(offer), UNCHANGED hostVars PROVE HostInv'
  <2>1. CASE offer /\ do_wr
    BY <1>6, <2>1, HostWrites DEF AxilEdge, do_wr
  <2>2. CASE ~(offer /\ do_wr)
    <3>1. pulse' = NoPulse /\ UNCHANGED <<stream, cfgw, meant, regs, ready, setting>>
      BY <1>6, <2>2 DEF AxilEdge, WriteNothing, hostVars
    <3>2. BusAsMeant'
      BY <3>1 DEF BusAsMeant, NoPulse, Kinds
    <3>3. Committing' <=> Committing
      BY <3>1 DEF Committing
    <3> QED BY <3>1, <3>2, <3>3 DEF HostInv
  <2> QED BY <2>1, <2>2
<1>7. CASE CoreTick
  BY <1>1, <1>7 DEF CoreTick, axilVars
<1>8. CASE UNCHANGED vars
  BY <1>1, <1>8 DEF vars, axilVars
<1>9. CASE \E offer \in BOOLEAN : AxilTick(offer) \/ BothTick(offer)
  BY <1>6, <1>9 DEF AxilTick, BothTick
<1> QED BY <1>2, <1>3, <1>4, <1>5, <1>7, <1>8, <1>9 DEF Next

-----------------------------------------------------------------------------
InUse == IF loads = 0 THEN Ports(Zeros) ELSE meant[loads]

(* A commit under way behind the pulse has its bus in the snapshot.        *)
SnapshotWaits ==
    /\ \E c : snap = Ports(c)
    /\ tog["load"] # Level("load") => snap = meant[Len(meant)]

HandOver == dst_data = InUse /\ SnapshotWaits

LEMMA InitHandOver == Init => HandOver
<1> SUFFICES ASSUME Init PROVE HandOver
  OBVIOUS
<1>1. tog["load"] = Level("load")
  BY SMTT(30), ControlAssumption DEF Init, NoPulse, Level, Kinds
<1>2. dst_data = InUse /\ snap = Ports(Zeros)
  BY DEF Init, InUse
<1> QED BY <1>1, <1>2 DEF HandOver, SnapshotWaits

(* A bus that does not move cannot be torn.                                *)
LEMMA StillBus ==
    ASSUME NEW c, snap = Ports(c), NEW b \in Torn(snap, snap)
    PROVE  b = snap
<1> DEFINE moved == {n \in DOMAIN snap.reg : snap.reg[n] # snap.reg[n]}
<1>1. CASE ~dst_pulse("load")
  BY <1>1 DEF Torn
<1>2. CASE dst_pulse("load")
  <2>1. \E S \in SUBSET moved, y \in {snap.sym, snap.sym}, r \in {snap.rto, snap.rto} :
          b = [reg |-> [n \in DOMAIN snap.reg |-> (IF n \in S THEN snap ELSE snap).reg[n]],
               sym |-> y, rto |-> r]
    BY <1>2 DEF Torn
  <2>2. b = [reg |-> [n \in DOMAIN snap.reg |-> snap.reg[n]], sym |-> snap.sym, rto |-> snap.rto]
    BY <2>1
  <2>3. snap.reg = [n \in DOMAIN snap.reg |-> snap.reg[n]]
    BY DEF Ports
  <2>4. snap = [reg |-> snap.reg, sym |-> snap.sym, rto |-> snap.rto]
    BY DEF Ports
  <2> QED BY <2>2, <2>3, <2>4
<1> QED BY <1>1, <1>2

(* The commits so far keep their place.                                    *)
LEMMA MeantGrows ==
    ASSUME NEW offer \in BOOLEAN, AxilEdge(offer), ChainInv
    PROVE  /\ \A i \in 1..Len(meant) : meant'[i] = meant[i]
           /\ loads # 0 => loads \in 1..Len(meant)
<1>1. PICK S : meant \in Seq(S)
  BY DEF ChainInv, CountType
<1>2. meant' = meant \/ \E m : meant' = Append(meant, m)
  BY AxilFacts DEF Accepted, Nothing
<1>3. \A i \in 1..Len(meant) : meant'[i] = meant[i]
  <2>1. CASE meant' = meant
    BY <2>1
  <2>2. CASE \E m : meant' = Append(meant, m)
    <3>1. PICK m : meant' = Append(meant, m)
      BY <2>2
    <3>2. meant \in Seq(S \cup {m})
      BY <1>1
    <3> QED BY <3>1, <3>2
  <2> QED BY <1>2, <2>1, <2>2
<1>4. loads # 0 => loads \in 1..Len(meant)
  <2>1. Len(meant) \in Nat /\ loads \in Nat /\ Len(meant) = loads + UnderWay("load")
    BY DEF ChainInv, CountType, Counts
  <2>2. UnderWay("load") \in Nat
    BY DEF UnderWay, Flag
  <2> QED BY <2>1, <2>2
<1> QED BY <1>3, <1>4

(* What the core takes at an edge of its own, with the bus standing still. *)
LEMMA CoreTakes ==
    ASSUME NEW t, CoreEdge(t, snap), ChainInv, HandOver
    PROVE  /\ ~dst_pulse("load") => loads' = loads /\ dst_data' = dst_data
           /\ dst_pulse("load") => /\ loads' = loads + 1 /\ loads' = Len(meant)
                                  /\ dst_data' = meant[Len(meant)] /\ loads' # 0
<1>1. loads \in Nat /\ Len(meant) = loads + (Flag(pulse["load"]) + Flag(tog["load"] # Level("load")))
  BY DEF ChainInv, CountType, Counts, UnderWay
<1>2. /\ loads' = loads + Flag(dst_pulse("load"))
      /\ dst_data' = IF dst_pulse("load") THEN snap ELSE dst_data
  BY DEF CoreEdge
<1>3. dst_pulse("load") => tog["load"] # Level("load")
  BY CoreFacts DEF Kinds
<1>4. dst_pulse("load") => ~pulse["load"]
  <2>1. SYNC_FF \in 0..SYNC_FF
    BY ControlAssumption
  <2>2. ~Silent(pulse) => Level("load") = tog["load"]
    BY <2>1 DEF ChainInv, PulseAlone, Level, Kinds
  <2> QED BY <1>3, <2>2 DEF Silent, NoPulse, Kinds
<1>5. CASE dst_pulse("load")
  <2>1. Flag(pulse["load"]) = 0 /\ Flag(tog["load"] # Level("load")) = 1 /\ Flag(dst_pulse("load")) = 1
    BY <1>3, <1>4, <1>5 DEF Flag
  <2>2. loads' = loads + 1 /\ Len(meant) = loads + 1
    BY <1>1, <1>2, <2>1
  <2>3. dst_data' = meant[Len(meant)]
    BY <1>2, <1>3, <1>5 DEF HandOver, SnapshotWaits
  <2> QED BY <1>1, <1>5, <2>2, <2>3
<1>6. CASE ~dst_pulse("load")
  <2>1. Flag(dst_pulse("load")) = 0
    BY <1>6 DEF Flag
  <2> QED BY <1>1, <1>2, <1>6, <2>1
<1> QED BY <1>5, <1>6

(* While a commit is under way behind its pulse, no other is pulsed.       *)
LEMMA NoneOvertakes ==
    ASSUME NEW offer \in BOOLEAN, AxilEdge(offer), ChainInv, tog["load"] # Level("load")
    PROVE  Silent(pulse) /\ meant' = meant /\ snap' = snap
<1>1. SYNC_FF \in 0..SYNC_FF
  BY ControlAssumption
<1>2. Silent(pulse)
  BY <1>1 DEF ChainInv, PulseAlone, Level, Kinds
<1>3. quiet # Spacing
  BY <1>1, QuietMeans DEF AllEqual, Level, Kinds
<1>4. Accepted => ~pulse'["load"]
  BY <1>3 DEF Accepted, Silent, NoPulse, Kinds
<1>5. meant' = meant
  BY <1>4, AxilFacts DEF Accepted, Nothing
<1>6. ~pulse["load"]
  BY <1>2 DEF Silent, NoPulse, Kinds
<1>7. snap' = snap
  BY <1>6 DEF AxilEdge, Snapshot
<1> QED BY <1>2, <1>5, <1>7

(* The snapshot after an edge of the AXI clock, if a commit is under way   *)
(* then: the one that was, or the one whose pulse has just toggled.        *)
LEMMA SnapshotAfter ==
    ASSUME NEW offer \in BOOLEAN, AxilEdge(offer), ChainInv, HandOver, BusAsMeant,
           tog["load"] # Level("load") \/ (~Silent(pulse) /\ pulse["load"])
    PROVE  snap' = meant'[Len(meant')]
<1>1. CASE tog["load"] # Level("load")
  BY <1>1, NoneOvertakes DEF HandOver, SnapshotWaits
<1>2. CASE ~Silent(pulse) /\ pulse["load"]
  <2>1. Nothing
    BY <1>2, AxilCases
  <2>2. meant' = meant
    BY <2>1 DEF Nothing
  <2>3. snap' = Ports(cfgw)
    BY <1>2 DEF AxilEdge, Snapshot
  <2> QED BY <1>2, <2>2, <2>3 DEF BusAsMeant
<1> QED BY <1>1, <1>2

LEMMA SnapshotIsBus ==
    ASSUME NEW offer \in BOOLEAN, AxilEdge(offer), HandOver
    PROVE  (\E c : snap' = Ports(c)) /\ (Silent(pulse) => snap' = snap)
<1>1. snap' = Ports(cfgw) \/ snap' = snap
  BY DEF AxilEdge, Snapshot
<1>2. \E c : snap = Ports(c)
  BY DEF HandOver, SnapshotWaits
<1>3. Silent(pulse) => ~pulse["load"]
  BY DEF Silent, NoPulse, Kinds
<1>4. ~pulse["load"] => snap' = snap
  BY DEF AxilEdge, Snapshot
<1> QED BY <1>1, <1>2, <1>3, <1>4

LEMMA HandOverAxil ==
    ASSUME NEW offer \in BOOLEAN, AxilTick(offer), ChainInv, HandOver, BusAsMeant
    PROVE  HandOver'
<1>1. AxilEdge(offer) /\ sync' = sync /\ loads' = loads /\ dst_data' = dst_data
  BY DEF AxilTick, coreVars
<1>2. dst_data' = InUse'
  BY <1>1, MeantGrows DEF HandOver, InUse
<1>3. \E c : snap' = Ports(c)
  BY <1>1, SnapshotIsBus
<1>4. ASSUME tog'["load"] # Level("load")'
      PROVE  tog["load"] # Level("load") \/ (~Silent(pulse) /\ pulse["load"])
  <2>1. Level("load")' = Level("load")
    BY <1>1 DEF Level
  <2>2. CASE tog' = tog
    BY <1>4, <2>1, <2>2
  <2>3. CASE tog' # tog
    <3>1. ~Silent(pulse) /\ AllEqual /\ tog'["load"] = (tog["load"] # pulse["load"])
      BY <1>1, <2>3, AxilCases DEF Kinds
    <3>2. Level("load") = tog["load"]
      BY <3>1, ControlAssumption DEF AllEqual, Level, Kinds
    <3>3. tog["load"] \in BOOLEAN /\ pulse["load"] \in BOOLEAN
      BY DEF ChainInv, ChainType, Kinds
    <3> QED BY <1>4, <2>1, <3>1, <3>2, <3>3
  <2> QED BY <2>2, <2>3
<1>5. tog'["load"] # Level("load")' => snap' = meant'[Len(meant')]
  BY <1>1, <1>4, SnapshotAfter
<1> QED BY <1>2, <1>3, <1>5 DEF HandOver, SnapshotWaits

LEMMA StillUnderWay ==
    ASSUME NEW b, CoreEdge(tog, b), ChainInv, tog["load"] # Level("load")'
    PROVE  tog["load"] # Level("load")
BY CoreShifts DEF Kinds, Flag

LEMMA HandOverCore == CoreTick /\ ChainInv /\ HandOver => HandOver'
<1> SUFFICES ASSUME CoreTick, ChainInv, HandOver PROVE HandOver'
  OBVIOUS
<1>1. CoreEdge(tog, snap) /\ UNCHANGED <<tog, snap, meant>>
  BY DEF CoreTick, axilVars
<1>2. dst_data' = InUse'
  <2>1. CASE dst_pulse("load")
    BY <1>1, <2>1, CoreTakes DEF InUse
  <2>2. CASE ~dst_pulse("load")
    BY <1>1, <2>2, CoreTakes DEF InUse, HandOver
  <2> QED BY <2>1, <2>2
<1>3. tog'["load"] # Level("load")' => snap' = meant'[Len(meant')]
  BY <1>1, StillUnderWay DEF HandOver, SnapshotWaits
<1> QED BY <1>1, <1>2, <1>3 DEF HandOver, SnapshotWaits

LEMMA HandOverBoth ==
    ASSUME NEW offer \in BOOLEAN, BothTick(offer), ChainInv, HandOver, BusAsMeant
    PROVE  HandOver'
<1>1. AxilEdge(offer)
  BY DEF BothTick
<1>2. PICK t \in Toggles(tog, tog'), b \in Torn(snap, snap') : CoreEdge(t, b)
  BY DEF BothTick
<1>3. \E c : snap' = Ports(c)
  BY <1>1, SnapshotIsBus
<1>4. t \in [Kinds -> BOOLEAN] /\ \A k \in Kinds : t[k] \in {tog[k], tog'[k]}
  BY <1>2 DEF Toggles
<1>5. CASE Silent(pulse)
  <2>1. tog' = tog /\ snap' = snap
    <3>1. tog' = tog
      BY <1>1, <1>5, AxilCases
    <3> QED BY <1>1, <1>5, <3>1, SnapshotIsBus
  <2>2. t = tog
    BY <1>4, <2>1 DEF ChainInv, ChainType
  <2>3. b = snap
    <3>1. PICK c : snap = Ports(c)
      BY DEF HandOver, SnapshotWaits
    <3>2. b \in Torn(snap, snap)
      BY <1>2, <2>1
    <3> QED BY <3>1, <3>2, StillBus
  <2>4. CoreEdge(tog, snap)
    BY <1>2, <2>2, <2>3
  <2>5. dst_data' = InUse'
    <3>1. CASE dst_pulse("load")
      <4>1. loads' = Len(meant) /\ loads' # 0 /\ dst_data' = meant[Len(meant)]
        BY <2>4, <3>1, CoreTakes
      <4>2. meant' = meant
        BY <1>1, <3>1, <2>4, CoreFacts, NoneOvertakes DEF Kinds
      <4> QED BY <4>1, <4>2 DEF InUse
    <3>2. CASE ~dst_pulse("load")
      <4>1. loads' = loads /\ dst_data' = dst_data
        BY <2>4, <3>2, CoreTakes
      <4> QED BY <1>1, <4>1, MeantGrows DEF HandOver, InUse
    <3> QED BY <3>1, <3>2
  <2>6. ASSUME tog'["load"] # Level("load")'
        PROVE  tog["load"] # Level("load")
    BY <2>1, <2>4, <2>6, StillUnderWay
  <2>7. tog'["load"] # Level("load")' => snap' = meant'[Len(meant')]
    BY <1>1, <2>6, SnapshotAfter
  <2> QED BY <1>3, <2>5, <2>7 DEF HandOver, SnapshotWaits
<1>6. CASE ~Silent(pulse)
  <2>1. AllEqual /\ Nothing /\ tog'["load"] = (tog["load"] # pulse["load"])
    BY <1>1, <1>6, AxilCases DEF Kinds
  <2>2. SYNC_FF \in 0..SYNC_FF /\ SYNC_FF - 1 \in 0..SYNC_FF /\ SYNC_FF # 0
    BY ControlAssumption
  <2>3. ~dst_pulse("load")
    BY <2>1, <2>2 DEF dst_pulse, AllEqual, Kinds
  <2>4. Level("load")' = tog["load"]
    BY <1>2, <2>1, <2>2 DEF CoreEdge, Level, AllEqual, Kinds
  <2>5. loads' = loads /\ dst_data' = dst_data
    BY <1>2, <2>3 DEF CoreEdge, Flag, ChainInv, CountType
  <2>6. dst_data' = InUse'
    BY <1>1, <2>5, MeantGrows DEF HandOver, InUse
  <2>7. tog'["load"] # Level("load")' => pulse["load"]
    BY <2>1, <2>4 DEF ChainInv, ChainType, Kinds
  <2>8. tog'["load"] # Level("load")' => snap' = meant'[Len(meant')]
    BY <1>1, <1>6, <2>7, SnapshotAfter
  <2> QED BY <1>3, <2>6, <2>8 DEF HandOver, SnapshotWaits
<1> QED BY <1>5, <1>6

LEMMA NextHandOver ==
    ChainInv /\ HandOver /\ BusAsMeant /\ [Next]_vars => HandOver'
<1> SUFFICES ASSUME ChainInv, HandOver, BusAsMeant, [Next]_vars PROVE HandOver'
  OBVIOUS
<1> DEFINE seen == <<tog, sync, snap, dst_data, meant, loads>>
<1>1. CASE UNCHANGED seen
  BY <1>1 DEF HandOver, SnapshotWaits, InUse, Level
<1>2. CASE \/ \E s \in Settings : Configure(s)
           \/ \E on \in BOOLEAN : SwitchTrading(on)
           \/ Commit \/ OrderAck
  <2>1. UNCHANGED seen
    BY <1>2 DEF Configure, SwitchTrading, Commit, OrderAck, axilVars, coreVars, hostVars
  <2> QED BY <1>1, <2>1
<1>3. CASE \E offer \in BOOLEAN : AxilTick(offer) \/ BothTick(offer)
  BY <1>3, HandOverAxil, HandOverBoth
<1>4. CASE CoreTick
  BY <1>4, HandOverCore
<1>5. CASE UNCHANGED vars
  <2>1. UNCHANGED seen
    BY <1>5 DEF vars, axilVars, coreVars
  <2> QED BY <1>1, <2>1
<1> QED BY <1>2, <1>3, <1>4, <1>5 DEF Next

(* If the map is faithful the core works at every moment with one whole    *)
(* committed configuration, the last it was told of, whatever the host     *)
(* writes meanwhile and however the two clocks meet (cfg_cdc.sv, the       *)
(* snapshot and dst_data; session.py's configure; t2t_run.cpp's writes).   *)
THEOREM BusCrossesWhole == ASSUME MapIsFaithful PROVE Spec => []CoreHasOneCommit
<1>1. HandOver => CoreHasOneCommit
  BY DEF HandOver, InUse, CoreHasOneCommit
<1>2. HostInv => BusAsMeant
  BY DEF HostInv
<1>3. Spec => []HostInv
  BY InitHost, NextHost, ChainInvariance, PTL DEF Spec
<1> QED BY <1>1, <1>2, <1>3, InitHandOver, NextHandOver, ChainInvariance, PTL DEF Spec
=============================================================================
