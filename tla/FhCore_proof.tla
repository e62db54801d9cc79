---------------------------- MODULE FhCore_proof ----------------------------
(***************************************************************************)
(* Proofs about the two ends of the feed handler core (fh_core.sv), for    *)
(* every value of the constants.                                           *)
(*                                                                         *)
(* The arbiter between the books, for every number of symbols and every    *)
(* walk of the ladder that is long enough for them: the core is a bound on *)
(* the cycles until a symbol's queue is empty, counted from the turns of   *)
(* the round robin and set against the state the ladder is in.             *)
(*                                                                         *)
(* The order table: its memory holds every order once and where its        *)
(* reference hashes to, and what a message reads of it still holds when    *)
(* the message is stored; so each message does to the orders what          *)
(* dump_book.py does to its map.  The records add up to the resting        *)
(* orders; and the books and the detectors that follow the records move    *)
(* with every message as dump_bbo.py, dump_sweep.py and sweep_grid.py do.  *)
(***************************************************************************)
EXTENDS TableSweep, BookLanes, WellFoundedInduction, FiniteSetTheorems, TLAPS

(*********************** the arbiter between the books *********************)
(* The queues are two deep or deeper, and while a ladder walks every       *)
(* symbol can be served twice: up to five of them with ten states.         *)
LongWalk == Depth >= 2 /\ 2 * NSym <= Walk + 1

Pointer == 0..(2 * Depth - 1)

Typed ==
    /\ slot \in [Symbol -> [0..(Depth - 1) -> Nat]]
    /\ wptr \in [Symbol -> Pointer] /\ rptr \in [Symbol -> Pointer]
    /\ last \in Symbol
    /\ arbOut \in OrNone([sym : Symbol, data : Nat])
    /\ stage \in [Symbol -> 0..Walk]
    /\ ladSpeaks \in [Symbol -> BOOLEAN]
    /\ merged \in [Symbol -> OrNone(Nat)]
    /\ number \in [Symbol -> Nat] /\ expected \in [Symbol -> Nat]
    /\ waited \in [Symbol -> Nat]

(* Cycles until k's queue is empty when nothing more comes.                *)
Work(k) == IF Queued(k) = 0 THEN 0
           ELSE IF Queued(k) = 1 THEN Turns(k) + 1 ELSE Turns(k) + 1 + NSym

(* What may be left to do at each state of k's ladder.                     *)
Rhythm(k) ==
    /\ Queued(k) \in 0..2
    /\ ladSpeaks[k] => stage[k] = 0 /\ merged[k] = <<>> /\ Work(k) <= 2
    /\ merged[k] # <<>> => stage[k] <= 2 /\ (stage[k] <= 1 => Work(k) <= 1)
    /\ stage[k] <= 2 => Work(k) <= NSym
    /\ stage[k] >= 3 => Work(k) = 0 \/ Work(k) + stage[k] <= 2 * NSym + 2

(* The numbers of k's records: the one at the head of its queue, and the   *)
(* one that comes behind the queue.                                        *)
Up(n) == (n + 1) % RecordMod

Leaves(k) == \E i \in DOMAIN arbOut : arbOut[i].sym = k
NextUp(k)  == IF Leaves(k) THEN Up(expected[k]) ELSE expected[k]
Behind(k) == IF Queued(k) = 0 THEN NextUp(k)
             ELSE IF Queued(k) = 1 THEN Up(NextUp(k)) ELSE Up(Up(NextUp(k)))

InOrder(k) ==
    /\ Queued(k) > 0 => HeadOf(k) = NextUp(k)
    /\ Queued(k) = 2 => slot[k][NextPtr(rptr[k]) % Depth] = Up(NextUp(k))
    /\ merged[k] = <<>> => number[k] = Behind(k)
    /\ merged[k] # <<>> => merged[k] = <<Behind(k)>> /\ number[k] = Up(Behind(k))

(* A queue that is passed over comes nearer to its turn.                   *)
Fair(k) == waited[k] + Turns(k) < NSym

FairInv  == Typed /\ \A k \in Symbol : Fair(k)
LanesInv == /\ Typed /\ NothingDropped /\ SymbolOrder
            /\ \A k \in Symbol : Rhythm(k) /\ InOrder(k)

(************************** pointers and turns *****************************)

(* Remainders of the sizes that occur here.                                *)
LEMMA ModFacts ==
    ASSUME NEW m \in Nat \ {0}, NEW x \in Int
    PROVE  /\ 0 <= x /\ x < m => x % m = x
           /\ m <= x /\ x < 2 * m => x % m = x - m
           /\ -m <= x /\ x < 0 => x % m = x + m
           /\ x % m \in 0..(m - 1)
<1>1. 0 <= x /\ x < m => x % m = x
  OBVIOUS
<1>2. m <= x /\ x < 2 * m => x % m = x - m
  OBVIOUS
<1>3. -m <= x /\ x < 0 => x % m = x + m
  OBVIOUS
<1>4. x % m \in 0..(m - 1)
  OBVIOUS
<1> QED BY <1>1, <1>2, <1>3, <1>4

LEMMA NextFacts ==
    ASSUME NEW p \in Pointer
    PROVE  NextPtr(p) \in Pointer /\ NextPtr(p) = IF p + 1 = 2 * Depth THEN 0 ELSE p + 1
<1>1. 2 * Depth \in Nat \ {0} /\ p + 1 \in Int /\ 0 <= p + 1 /\ p + 1 <= 2 * Depth
  BY BboArbAssumption DEF Pointer
<1>2. p + 1 < 2 * Depth => (p + 1) % (2 * Depth) = p + 1
  BY <1>1, ModFacts
<1>3. p + 1 = 2 * Depth => (p + 1) % (2 * Depth) = 0
  BY <1>1, ModFacts
<1> QED BY <1>1, <1>2, <1>3 DEF NextPtr, Pointer

LEMMA Distance ==
    ASSUME NEW w \in Pointer, NEW r \in Pointer
    PROVE  (w - r) % (2 * Depth) = IF w >= r THEN w - r ELSE w - r + 2 * Depth
<1>1. 2 * Depth \in Nat \ {0} /\ w - r \in Int /\ -(2 * Depth) <= w - r /\ w - r < 2 * Depth
  BY BboArbAssumption DEF Pointer
<1>2. w >= r => 0 <= w - r
  BY DEF Pointer
<1>3. ~(w >= r) => w - r < 0
  BY DEF Pointer
<1>4. 0 <= w - r => (w - r) % (2 * Depth) = w - r
  BY <1>1, ModFacts
<1>5. w - r < 0 => (w - r) % (2 * Depth) = w - r + 2 * Depth
  BY <1>1, ModFacts
<1> QED BY <1>2, <1>3, <1>4, <1>5

(* A store and a service move a level of at most two by one each.          *)
LEMMA LevelMoves ==
    ASSUME LongWalk, NEW w \in Pointer, NEW r \in Pointer,
           (w - r) % (2 * Depth) \in 0..2
    PROVE  /\ (w - r) % (2 * Depth) <= 1
                => (NextPtr(w) - r) % (2 * Depth) = ((w - r) % (2 * Depth)) + 1
           /\ (w - r) % (2 * Depth) >= 1
                => (w - NextPtr(r)) % (2 * Depth) = ((w - r) % (2 * Depth)) - 1
           /\ (w - r) % (2 * Depth) <= 1
                => (NextPtr(w) - NextPtr(r)) % (2 * Depth) = (w - r) % (2 * Depth)
           /\ (w - r) % (2 * Depth) = 0 => w = r
           /\ (w - r) % (2 * Depth) = 1 => w = NextPtr(r)
<1> DEFINE M == 2 * Depth
           u == NextPtr(w)
           s == NextPtr(r)
<1>1. M \in Nat /\ M >= 4
  BY BboArbAssumption DEF LongWalk
<1>2. w \in 0..(M - 1) /\ r \in 0..(M - 1) /\ u \in 0..(M - 1) /\ s \in 0..(M - 1)
  BY NextFacts DEF Pointer
<1>3. u = (IF w + 1 = M THEN 0 ELSE w + 1) /\ s = (IF r + 1 = M THEN 0 ELSE r + 1)
  BY NextFacts
<1>4. /\ (w - r) % M = IF w >= r THEN w - r ELSE w - r + M
      /\ (u - r) % M = IF u >= r THEN u - r ELSE u - r + M
      /\ (w - s) % M = IF w >= s THEN w - s ELSE w - s + M
      /\ (u - s) % M = IF u >= s THEN u - s ELSE u - s + M
  BY Distance, NextFacts
<1>5. (w - r) % M \in 0..2
  OBVIOUS
<1> HIDE DEF M, u, s
<1>6. /\ (w - r) % M <= 1 => (u - r) % M = ((w - r) % M) + 1
      /\ (w - r) % M >= 1 => (w - s) % M = ((w - r) % M) - 1
  BY <1>1, <1>2, <1>3, <1>4, <1>5
<1>7. /\ (w - r) % M <= 1 => (u - s) % M = (w - r) % M
      /\ (w - r) % M = 0 => w = r
      /\ (w - r) % M = 1 => w = s
  BY <1>1, <1>2, <1>3, <1>4, <1>5
<1> QED BY <1>6, <1>7 DEF M, u, s

(* Two records in a row are in two slots.                                  *)
LEMMA NextSlot ==
    ASSUME LongWalk, NEW p \in Pointer
    PROVE  /\ p % Depth \in 0..(Depth - 1)
           /\ NextPtr(p) % Depth # p % Depth
<1> DEFINE q == NextPtr(p)
<1>1. Depth \in Nat \ {0} /\ Depth >= 2
  BY BboArbAssumption DEF LongWalk
<1>2. ASSUME NEW x \in Pointer
      PROVE  /\ x % Depth = IF x < Depth THEN x ELSE x - Depth
             /\ x % Depth \in 0..(Depth - 1)
  <2>1. x \in Int /\ 0 <= x /\ x < 2 * Depth
    BY <1>1 DEF Pointer
  <2>2. x < Depth => x % Depth = x
    BY <1>1, <2>1, ModFacts
  <2>3. Depth <= x => x % Depth = x - Depth
    BY <1>1, <2>1, ModFacts
  <2>4. x % Depth \in 0..(Depth - 1)
    BY <1>1, <2>1, ModFacts
  <2> QED BY <1>1, <2>1, <2>2, <2>3, <2>4
<1>3. p % Depth = (IF p < Depth THEN p ELSE p - Depth) /\ p % Depth \in 0..(Depth - 1)
  BY <1>2
<1>4. q \in Pointer /\ q % Depth = IF q < Depth THEN q ELSE q - Depth
  BY <1>2, NextFacts
<1>5. q = IF p + 1 = 2 * Depth THEN 0 ELSE p + 1
  BY NextFacts
<1> HIDE DEF q
<1>6. q % Depth # p % Depth
  BY <1>1, <1>3, <1>4, <1>5 DEF Pointer
<1> QED BY <1>3, <1>6 DEF q

LEMMA Ahead ==
    ASSUME NEW k \in Symbol, NEW l \in Symbol
    PROVE  (k - l - 1) % NSym = IF k > l THEN k - l - 1 ELSE k - l - 1 + NSym
<1>1. NSym \in Nat \ {0} /\ k - l - 1 \in Int /\ -NSym <= k - l - 1 /\ k - l - 1 < NSym
  BY BboArbAssumption DEF Symbol
<1>2. k > l => 0 <= k - l - 1
  BY DEF Symbol
<1>3. ~(k > l) => k - l - 1 < 0
  BY DEF Symbol
<1>4. 0 <= k - l - 1 => (k - l - 1) % NSym = k - l - 1
  BY <1>1, ModFacts
<1>5. k - l - 1 < 0 => (k - l - 1) % NSym = k - l - 1 + NSym
  BY <1>1, ModFacts
<1> QED BY <1>2, <1>3, <1>4, <1>5

LEMMA TurnsType ==
    ASSUME Typed, NEW k \in Symbol
    PROVE  Turns(k) \in 0..(NSym - 1)
<1>1. NSym \in Nat \ {0} /\ k - last - 1 \in Int
  BY BboArbAssumption DEF Typed, Symbol
<1> QED BY <1>1, ModFacts DEF Turns

(* The arbiter serves a waiting symbol, the one whose turn is next.        *)
LEMMA PickIsNext ==
    ASSUME Typed, Waiting # {}
    PROVE  Pick \in Waiting /\ \A j \in Waiting : Turns(Pick) <= Turns(j)
<1> DEFINE T == {Turns(k) : k \in Waiting}
           R == OpToRel(<, Nat)
<1>1. T \subseteq Nat /\ T # {}
  BY TurnsType, BboArbAssumption DEF Waiting
<1>2. IsWellFoundedOn(R, Nat)
  BY NatLessThanWellFounded
<1>3. R = {ss \in Nat \X Nat : ss[1] < ss[2]}
  BY DEF OpToRel
<1> HIDE DEF R
<1>4. \E x \in T : \A y \in T : ~(<<y, x>> \in R)
  BY <1>1, <1>2, WFMin
<1>5. PICK x \in T : \A y \in T : ~(<<y, x>> \in R)
  BY <1>4
<1>6. PICK k \in Waiting : x = Turns(k)
  OBVIOUS
<1>7. \A j \in Waiting : Turns(k) <= Turns(j)
  <2> TAKE j \in Waiting
  <2>1. Turns(j) \in T /\ Turns(j) \in Nat /\ Turns(k) \in Nat
    BY <1>1
  <2>2. ~(<<Turns(j), Turns(k)>> \in R)
    BY <1>5, <1>6, <2>1
  <2> QED BY <1>3, <2>1, <2>2
<1> QED BY <1>7 DEF Pick

(****************************** one clock **********************************)

Arrives(k) == merged[k] # <<>>
Served(k)  == k \in Waiting /\ k = Pick
One(yes)   == IF yes THEN 1 ELSE 0

(* The turns come nearer for those that are passed over.                   *)
LEMMA TurnsMove ==
    ASSUME Typed, NEW k \in Symbol, last' = IF Waiting = {} THEN last ELSE Pick
    PROVE  /\ Turns(k)' \in 0..(NSym - 1)
           /\ k \in Waiting /\ ~Served(k) => Turns(k)' < Turns(k)
           /\ Served(k) => Turns(k)' = NSym - 1
<1>1. CASE Waiting = {}
  <2>1. Turns(k)' = Turns(k) /\ ~Served(k) /\ k \notin Waiting
    BY <1>1 DEF Turns, Served
  <2> QED BY <2>1, TurnsType
<1>2. CASE Waiting # {}
  <2> DEFINE p == Pick
  <2>1. p \in Symbol /\ p \in Waiting /\ last \in Symbol
    BY <1>2, PickIsNext DEF Waiting, Typed
  <2>2. k \in Waiting => Turns(p) <= Turns(k)
    BY <1>2, PickIsNext
  <2>3. Turns(k)' = IF k > p THEN k - p - 1 ELSE k - p - 1 + NSym
    BY <1>2, <2>1, Ahead DEF Turns
  <2>4. /\ Turns(k) = IF k > last THEN k - last - 1 ELSE k - last - 1 + NSym
        /\ Turns(p) = IF p > last THEN p - last - 1 ELSE p - last - 1 + NSym
    BY <2>1, Ahead DEF Turns
  <2>5. Served(k) <=> k \in Waiting /\ k = p
    BY DEF Served
  <2>6. NSym \in Nat /\ k \in 0..(NSym - 1) /\ p \in 0..(NSym - 1) /\ last \in 0..(NSym - 1)
    BY <2>1, BboArbAssumption DEF Symbol
  <2> HIDE DEF p
  <2>7. Turns(k)' \in 0..(NSym - 1) /\ (k = p => Turns(k)' = NSym - 1)
    BY <2>3, <2>6
  <2>8. k # p /\ Turns(p) <= Turns(k) => Turns(k)' < Turns(k)
    BY <2>3, <2>4, <2>6
  <2> QED BY <2>2, <2>5, <2>7, <2>8
<1> QED BY <1>1, <1>2

(* What a clock does to one symbol's queue, none of which is full.         *)
LEMMA QueueMoves ==
    ASSUME LongWalk, Typed, \A j \in Symbol : Rhythm(j), ArbTick(merged), NEW k \in Symbol
    PROVE  /\ Arrives(k) => Queued(k) <= 1
           /\ wptr'[k] = IF Arrives(k) THEN NextPtr(wptr[k]) ELSE wptr[k]
           /\ rptr'[k] = IF Served(k) THEN NextPtr(rptr[k]) ELSE rptr[k]
           /\ slot'[k] = IF Arrives(k)
                           THEN [slot[k] EXCEPT ![wptr[k] % Depth] = Head(merged[k])]
                           ELSE slot[k]
           /\ last' = IF Waiting = {} THEN last ELSE Pick
<1>1. ASSUME NEW j \in Symbol, Arrives(j)
      PROVE  Queued(j) <= 1 /\ ~Full(j)
  <2>1. stage[j] <= 2 /\ Work(j) <= NSym /\ Queued(j) \in 0..2
    BY <1>1 DEF Rhythm, Arrives
  <2>2. Turns(j) \in 0..(NSym - 1) /\ NSym \in Nat
    BY TurnsType, BboArbAssumption
  <2>3. Queued(j) # 2
    BY <2>1, <2>2 DEF Work
  <2>4. Depth \in Nat /\ Depth >= 2
    BY BboArbAssumption DEF LongWalk
  <2> QED BY <2>1, <2>3, <2>4 DEF Full
<1>2. /\ wptr'[k] = IF Arrives(k) THEN NextPtr(wptr[k]) ELSE wptr[k]
      /\ slot'[k] = IF Arrives(k)
                      THEN [slot[k] EXCEPT ![wptr[k] % Depth] = Head(merged[k])] ELSE slot[k]
  BY <1>1 DEF ArbTick, Arrives
<1>3. rptr'[k] = IF Served(k) THEN NextPtr(rptr[k]) ELSE rptr[k]
  <2>1. CASE Waiting = {}
    BY <2>1 DEF ArbTick, Served
  <2>2. CASE Waiting # {}
    <3>1. rptr' = [rptr EXCEPT ![Pick] = NextPtr(@)] /\ Pick \in Waiting
      BY <2>2, PickIsNext DEF ArbTick
    <3>2. rptr \in [Symbol -> Pointer]
      BY DEF Typed
    <3> QED BY <3>1, <3>2 DEF Served
  <2> QED BY <2>1, <2>2
<1>4. last' = IF Waiting = {} THEN last ELSE Pick
  BY DEF ArbTick
<1> QED BY <1>1, <1>2, <1>3, <1>4

LEMMA LevelIs ==
    ASSUME LongWalk, Typed, \A j \in Symbol : Rhythm(j), ArbTick(merged), NEW k \in Symbol
    PROVE  /\ Queued(k) \in 0..2
           /\ Arrives(k) => Queued(k) <= 1
           /\ Served(k) => Queued(k) >= 1
           /\ Queued(k)' = Queued(k) + One(Arrives(k)) - One(Served(k))
<1>1. wptr[k] \in Pointer /\ rptr[k] \in Pointer /\ Queued(k) \in 0..2
  BY DEF Typed, Rhythm
<1>2. (Arrives(k) => Queued(k) <= 1) /\ (Served(k) => Queued(k) >= 1)
  <2>1. Arrives(k) => Queued(k) <= 1
    BY QueueMoves
  <2>2. Served(k) => Queued(k) > 0
    BY DEF Served, Waiting
  <2> QED BY <1>1, <2>1, <2>2
<1>3. Queued(k)' = (wptr'[k] - rptr'[k]) % (2 * Depth)
  BY DEF Queued
<1>4. CASE Arrives(k) /\ Served(k)
  <2>1. wptr'[k] = NextPtr(wptr[k]) /\ rptr'[k] = NextPtr(rptr[k])
    BY <1>4, QueueMoves
  <2>2. Queued(k)' = Queued(k)
    BY <1>1, <1>2, <1>3, <1>4, <2>1, LevelMoves DEF Queued
  <2> QED BY <1>1, <1>2, <1>4, <2>2 DEF One
<1>5. CASE Arrives(k) /\ ~Served(k)
  <2>1. wptr'[k] = NextPtr(wptr[k]) /\ rptr'[k] = rptr[k]
    BY <1>5, QueueMoves
  <2>2. Queued(k)' = Queued(k) + 1
    BY <1>1, <1>2, <1>3, <1>5, <2>1, LevelMoves DEF Queued
  <2> QED BY <1>1, <1>2, <1>5, <2>2 DEF One
<1>6. CASE ~Arrives(k) /\ Served(k)
  <2>1. wptr'[k] = wptr[k] /\ rptr'[k] = NextPtr(rptr[k])
    BY <1>6, QueueMoves
  <2>2. Queued(k)' = Queued(k) - 1
    BY <1>1, <1>2, <1>3, <1>6, <2>1, LevelMoves DEF Queued
  <2> QED BY <1>1, <1>2, <1>6, <2>2 DEF One
<1>7. CASE ~Arrives(k) /\ ~Served(k)
  <2>1. wptr'[k] = wptr[k] /\ rptr'[k] = rptr[k]
    BY <1>7, QueueMoves
  <2>2. Queued(k)' = Queued(k)
    BY <1>3, <2>1 DEF Queued
  <2> QED BY <1>1, <1>2, <1>7, <2>2 DEF One
<1> QED BY <1>4, <1>5, <1>6, <1>7

(* The work with l records, t turns away.                                  *)
WorkOf(l, t) == IF l = 0 THEN 0 ELSE IF l = 1 THEN t + 1 ELSE t + 1 + NSym

LEMMA RoundOfTurns ==
    ASSUME NEW l \in 0..2, NEW h \in 0..2, NEW t \in 0..(NSym - 1), NEW u \in 0..(NSym - 1)
    PROVE  /\ WorkOf(l, t) \in Nat /\ (WorkOf(l, t) = 0 <=> l = 0)
           /\ h = l /\ u = NSym - 1 /\ l > 0 => WorkOf(h, u) <= WorkOf(l, t) - 1 + NSym
           /\ h = l + 1 /\ l = 0 => WorkOf(h, u) <= NSym
           /\ h = l + 1 /\ l > 0 /\ u < t => WorkOf(h, u) <= WorkOf(l, t) - 1 + NSym
           /\ h = l - 1 /\ u = NSym - 1 => WorkOf(h, u) <= WorkOf(l, t) - 1
           /\ h = l /\ l > 0 /\ u < t => WorkOf(h, u) <= WorkOf(l, t) - 1
<1>1. NSym \in Nat
  BY BboArbAssumption
<1>2. CASE l = 0
  BY <1>1, <1>2 DEF WorkOf
<1>3. CASE l = 1
  BY <1>1, <1>3 DEF WorkOf
<1>4. CASE l = 2
  BY <1>1, <1>4 DEF WorkOf
<1> QED BY <1>2, <1>3, <1>4

(* Every clock takes one cycle off the work, and a record adds a round.    *)
LEMMA WorkMoves ==
    ASSUME LongWalk, Typed, \A j \in Symbol : Rhythm(j), ArbTick(merged), NEW k \in Symbol
    PROVE  /\ Work(k) \in Nat /\ Work(k)' \in Nat
           /\ Queued(k)' \in 0..2
           /\ Arrives(k) => Work(k)' <= (IF Work(k) = 0 THEN 0 ELSE Work(k) - 1) + NSym
           /\ ~Arrives(k) => Work(k)' <= (IF Work(k) = 0 THEN 0 ELSE Work(k) - 1)
<1> DEFINE l == Queued(k)
           h == Queued(k)'
           t == Turns(k)
           u == Turns(k)'
           w == Work(k)
           x == Work(k)'
<1>1. /\ l \in 0..2 /\ (Arrives(k) => l <= 1) /\ (Served(k) => l >= 1)
      /\ h = l + One(Arrives(k)) - One(Served(k))
  BY LevelIs
<1>2. NSym \in Nat /\ t \in 0..(NSym - 1) /\ u \in 0..(NSym - 1)
  BY TurnsType, TurnsMove, QueueMoves, BboArbAssumption
<1>3. l > 0 /\ ~Served(k) => u < t
  <2>1. l > 0 => k \in Waiting
    BY DEF Waiting
  <2> QED BY <2>1, TurnsMove, QueueMoves
<1>4. Served(k) => u = NSym - 1
  BY TurnsMove, QueueMoves
<1>5. w = WorkOf(l, t) /\ x = WorkOf(h, u)
  BY DEF Work, WorkOf
<1> HIDE DEF l, h, t, u, w, x
<1>6. CASE Arrives(k) /\ Served(k)
  <2>1. h = l /\ l = 1 /\ u = NSym - 1
    BY <1>1, <1>4, <1>6 DEF One
  <2>2. w \in Nat /\ x \in Nat /\ x <= (IF w = 0 THEN 0 ELSE w - 1) + NSym
    BY <1>1, <1>2, <1>5, <2>1, RoundOfTurns
  <2>3. h \in 0..2
    BY <1>1, <2>1
  <2> QED BY <1>6, <2>2, <2>3 DEF w, x, h
<1>7. CASE Arrives(k) /\ ~Served(k)
  <2>1. h = l + 1 /\ l \in 0..1
    BY <1>1, <1>7 DEF One
  <2>2. w \in Nat /\ x \in Nat /\ x <= (IF w = 0 THEN 0 ELSE w - 1) + NSym
    <3>1. CASE l = 0
      BY <1>1, <1>2, <1>5, <2>1, <3>1, RoundOfTurns
    <3>2. CASE l = 1
      <4>1. u < t
        BY <1>3, <1>7, <3>2
      <4> QED BY <1>1, <1>2, <1>5, <2>1, <3>2, <4>1, RoundOfTurns
    <3> QED BY <2>1, <3>1, <3>2
  <2>3. h \in 0..2
    BY <1>1, <2>1
  <2> QED BY <1>7, <2>2, <2>3 DEF w, x, h
<1>8. CASE ~Arrives(k) /\ Served(k)
  <2>1. h = l - 1 /\ l \in 1..2 /\ h \in 0..2 /\ u = NSym - 1
    BY <1>1, <1>4, <1>8 DEF One
  <2>2. w \in Nat /\ x \in Nat /\ x <= (IF w = 0 THEN 0 ELSE w - 1)
    BY <1>1, <1>2, <1>5, <2>1, RoundOfTurns
  <2>3. h \in 0..2
    BY <1>1, <2>1
  <2> QED BY <1>8, <2>2, <2>3 DEF w, x, h
<1>9. CASE ~Arrives(k) /\ ~Served(k)
  <2>1. h = l
    BY <1>1, <1>9 DEF One
  <2>2. w \in Nat /\ x \in Nat /\ x <= (IF w = 0 THEN 0 ELSE w - 1)
    <3>1. CASE l = 0
      BY <1>1, <1>2, <1>5, <2>1, <3>1 DEF WorkOf
    <3>2. CASE l > 0
      <4>1. u < t
        BY <1>3, <1>9, <3>2
      <4> QED BY <1>1, <1>2, <1>5, <2>1, <3>2, <4>1, RoundOfTurns
    <3> QED BY <1>1, <3>1, <3>2
  <2>3. h \in 0..2
    BY <1>1, <2>1
  <2> QED BY <1>9, <2>2, <2>3 DEF w, x, h
<1> QED BY <1>6, <1>7, <1>8, <1>9

LEMMA TypeStep ==
    ASSUME Typed, NEW taker \in SUBSET Symbol, NEW how, Clock(taker, how)
    PROVE  Typed'
<1>1. /\ NSym \in Nat \ {0, 1} /\ Depth \in Nat \ {0} /\ Walk \in Nat \ {0}
      /\ RecordMod \in Nat \ {0}
  BY BboArbAssumption, LanesAssumption
<1>2. LanesTick(taker, how) /\ Watch /\ ArbTick(merged)
  BY DEF Clock
<1>3. ASSUME NEW p \in Pointer
      PROVE  p % Depth \in 0..(Depth - 1) /\ NextPtr(p) \in Pointer
  <2>1. p \in Int
    BY <1>1 DEF Pointer
  <2>2. p % Depth \in 0..(Depth - 1)
    BY <1>1, <2>1, ModFacts
  <2> QED BY <2>2, NextFacts
<1>4. ASSUME NEW n \in Nat
      PROVE  (n + 1) % RecordMod \in Nat
  <2>1. n + 1 \in Int
    OBVIOUS
  <2>2. (n + 1) % RecordMod \in 0..(RecordMod - 1)
    BY <1>1, <2>1, ModFacts
  <2> QED BY <1>1, <2>2
<1>5. Waiting # {} => Pick \in Symbol /\ Pick \in Waiting
  BY PickIsNext DEF Waiting
<1>6. slot' \in [Symbol -> [0..(Depth - 1) -> Nat]]
  <2>1. \A k \in Symbol : merged[k] # <<>> => Head(merged[k]) \in Nat
    BY DEF OrNone, Typed
  <2>2. ASSUME NEW k \in Symbol, merged[k] # <<>>
        PROVE  [slot[k] EXCEPT ![wptr[k] % Depth] = Head(merged[k])] \in [0..(Depth - 1) -> Nat]
    BY <1>3, <2>1, <2>2 DEF Typed
  <2> QED BY <1>2, <2>2 DEF ArbTick, Typed
<1>7. wptr' \in [Symbol -> Pointer]
  BY <1>2, <1>3 DEF ArbTick, Typed
<1>8. rptr' \in [Symbol -> Pointer]
  <2>1. CASE Waiting = {}
    BY <1>2, <2>1 DEF ArbTick, Typed
  <2>2. CASE Waiting # {}
    <3>1. rptr' = [rptr EXCEPT ![Pick] = NextPtr(rptr[Pick])] /\ Pick \in Symbol
      BY <1>2, <1>5, <2>2 DEF ArbTick
    <3>2. rptr \in [Symbol -> Pointer] /\ NextPtr(rptr[Pick]) \in Pointer
      BY <1>3, <3>1 DEF Typed
    <3> QED BY <3>1, <3>2
  <2> QED BY <2>1, <2>2
<1>9. last' \in Symbol
  BY <1>2, <1>5 DEF ArbTick, Typed
<1>10. arbOut' \in OrNone([sym : Symbol, data : Nat])
  <2>1. CASE Waiting = {}
    BY <1>2, <2>1 DEF ArbTick, OrNone
  <2>2. CASE Waiting # {}
    <3>1. Pick \in Symbol /\ HeadOf(Pick) \in Nat
      BY <1>3, <1>5, <2>2 DEF HeadOf, Typed
    <3>2. arbOut' = <<[sym |-> Pick, data |-> HeadOf(Pick)]>>
      BY <1>2, <2>2 DEF ArbTick
    <3>3. [sym |-> Pick, data |-> HeadOf(Pick)] \in [sym : Symbol, data : Nat]
      BY <3>1
    <3> QED BY <3>2, <3>3 DEF OrNone
  <2> QED BY <2>1, <2>2
<1>11. stage' \in [Symbol -> 0..Walk]
  <2>1. \A k \in Symbol : (stage[k] + 1) % (Walk + 1) \in 0..Walk
    <3> TAKE k \in Symbol
    <3>1. Walk + 1 \in Nat \ {0} /\ stage[k] + 1 \in Int
      <4>1. stage \in [Symbol -> 0..Walk]
        BY DEF Typed
      <4>2. stage[k] \in 0..Walk
        BY <4>1
      <4> QED BY <1>1, <4>2
    <3>2. \A m \in Nat \ {0}, n \in Int : n % m \in 0..(m - 1)
      BY ModFacts
    <3>3. (stage[k] + 1) % (Walk + 1) \in 0..((Walk + 1) - 1)
      BY <3>1, <3>2
    <3>4. (Walk + 1) - 1 = Walk
      BY <1>1
    <3> QED BY <3>3, <3>4
  <2> QED BY <1>1, <1>2, <2>1 DEF LanesTick, Typed
<1>12. ladSpeaks' \in [Symbol -> BOOLEAN]
  BY <1>2 DEF LanesTick
<1>13. merged' \in [Symbol -> OrNone(Nat)] /\ number' \in [Symbol -> Nat]
  BY <1>2, <1>4 DEF LanesTick, OrNone, Typed
<1>14. expected' \in [Symbol -> Nat]
  BY <1>2, <1>4 DEF Watch, Typed
<1>15. waited' \in [Symbol -> Nat]
  BY <1>2 DEF Watch, Typed
<1> QED BY <1>6, <1>7, <1>8, <1>9, <1>10, <1>11, <1>12, <1>13, <1>14, <1>15 DEF Typed

LEMMA FairStep ==
    ASSUME FairInv, NEW taker \in SUBSET Symbol, NEW how, Clock(taker, how)
    PROVE  FairInv'
<1>1. Typed /\ Typed' /\ NSym \in Nat
  BY TypeStep, BboArbAssumption DEF FairInv
<1>2. ASSUME NEW k \in Symbol
      PROVE  Fair(k)'
  <2>1. last' = IF Waiting = {} THEN last ELSE Pick
    BY DEF Clock, ArbTick
  <2>2. /\ Turns(k)' \in 0..(NSym - 1) /\ Turns(k) \in 0..(NSym - 1)
        /\ k \in Waiting /\ ~Served(k) => Turns(k)' < Turns(k)
    BY <1>1, <2>1, TurnsMove, TurnsType
  <2>3. waited[k] \in Nat /\ waited[k] + Turns(k) < NSym
    BY <1>1 DEF FairInv, Fair, Typed
  <2>4. waited'[k] = IF k \in Waiting /\ ~Served(k) THEN waited[k] + 1 ELSE 0
    BY DEF Clock, Watch, Served
  <2>5. CASE k \in Waiting /\ ~Served(k)
    BY <1>1, <2>2, <2>3, <2>4, <2>5 DEF Fair
  <2>6. CASE ~(k \in Waiting /\ ~Served(k))
    BY <1>1, <2>2, <2>4, <2>6 DEF Fair
  <2> QED BY <2>5, <2>6
<1> QED BY <1>1, <1>2 DEF FairInv

(* One clock of a ladder and of the merge behind it.                       *)
LEMMA LaneMoves ==
    ASSUME Typed, NEW taker \in SUBSET Symbol, NEW how, LanesTick(taker, how), NEW k \in Symbol
    PROVE  /\ stage[k] = 0 => stage'[k] \in 0..1
           /\ stage[k] > 0 /\ stage[k] < Walk => stage'[k] = stage[k] + 1
           /\ stage[k] = Walk => stage'[k] = 0
           /\ ladSpeaks'[k] => stage[k] = Walk
           /\ Emits(k) => ladSpeaks[k] \/ stage[k] = 1
           /\ merged'[k] = IF Emits(k) THEN <<number[k]>> ELSE <<>>
           /\ number'[k] = IF Emits(k) THEN Up(number[k]) ELSE number[k]
<1>1. Walk \in Nat \ {0} /\ stage[k] \in 0..Walk
  BY LanesAssumption DEF Typed
<1>2. stage'[k] = IF stage[k] = 0 THEN (IF k \in taker THEN 1 ELSE 0)
                  ELSE (stage[k] + 1) % (Walk + 1)
  BY DEF LanesTick
<1>3. stage[k] < Walk => (stage[k] + 1) % (Walk + 1) = stage[k] + 1
  <2>1. Walk + 1 \in Nat \ {0} /\ stage[k] + 1 \in Int /\ 0 <= stage[k] + 1
    BY <1>1
  <2>2. stage[k] + 1 < Walk + 1 => (stage[k] + 1) % (Walk + 1) = stage[k] + 1
    BY <2>1, ModFacts
  <2> QED BY <1>1, <2>2
<1>4. stage[k] = Walk => (stage[k] + 1) % (Walk + 1) = 0
  <2>1. Walk + 1 \in Nat \ {0} /\ Walk + 1 \in Int
    BY <1>1
  <2>2. (Walk + 1) % (Walk + 1) = 0
    BY <2>1, ModFacts
  <2> QED BY <2>2
<1>5. /\ ladSpeaks'[k] => stage[k] = Walk
      /\ merged'[k] = IF Emits(k) THEN <<number[k]>> ELSE <<>>
      /\ number'[k] = IF Emits(k) THEN Up(number[k]) ELSE number[k]
  BY DEF LanesTick, Up
<1>6. Emits(k) => ladSpeaks[k] \/ stage[k] = 1
  BY DEF Emits
<1> QED BY <1>1, <1>2, <1>3, <1>4, <1>5, <1>6

LEMMA RhythmStep ==
    ASSUME LongWalk, Typed, \A j \in Symbol : Rhythm(j),
           NEW taker \in SUBSET Symbol, NEW how, Clock(taker, how), NEW k \in Symbol
    PROVE  Rhythm(k)'
<1> DEFINE s == stage[k]
           r == stage'[k]
           w == Work(k)
           x == Work(k)'
<1>1. /\ NSym \in Nat /\ NSym >= 2 /\ Walk \in Nat /\ 2 * NSym <= Walk + 1
      /\ s \in 0..Walk /\ w \in Nat /\ x \in Nat /\ Queued(k)' \in 0..2
  <2>1. NSym \in Nat /\ NSym >= 2 /\ Walk \in Nat /\ 2 * NSym <= Walk + 1
    BY BboArbAssumption, LanesAssumption DEF LongWalk
  <2>2. s \in 0..Walk
    BY DEF Typed
  <2>3. w \in Nat /\ x \in Nat /\ Queued(k)' \in 0..2
    BY WorkMoves DEF Clock
  <2> QED BY <2>1, <2>2, <2>3
<1>2. /\ Arrives(k) => x <= (IF w = 0 THEN 0 ELSE w - 1) + NSym
      /\ ~Arrives(k) => x <= (IF w = 0 THEN 0 ELSE w - 1)
  BY WorkMoves DEF Clock
<1>3. /\ s = 0 => r \in 0..1
      /\ s > 0 /\ s < Walk => r = s + 1
      /\ s = Walk => r = 0
      /\ ladSpeaks'[k] => s = Walk
      /\ merged'[k] # <<>> => ladSpeaks[k] \/ s = 1
  BY LaneMoves DEF Clock
<1>4. /\ ladSpeaks[k] => s = 0 /\ ~Arrives(k) /\ w <= 2
      /\ Arrives(k) => s <= 2 /\ (s <= 1 => w <= 1)
      /\ s <= 2 => w <= NSym
      /\ s >= 3 => w = 0 \/ w + s <= 2 * NSym + 2
  BY DEF Rhythm, Arrives
<1> HIDE DEF s, r, w, x
<1>5. /\ ladSpeaks'[k] => r = 0 /\ merged'[k] = <<>> /\ x <= 2
      /\ merged'[k] # <<>> => r <= 2 /\ (r <= 1 => x <= 1)
      /\ r <= 2 => x <= NSym
      /\ r >= 3 => x = 0 \/ x + r <= 2 * NSym + 2
  <2>1. CASE s = 0 /\ ladSpeaks[k]
    <3>1. x <= 1 /\ r \in 0..1 /\ ~ladSpeaks'[k]
      BY <1>1, <1>2, <1>3, <1>4, <2>1
    <3> QED BY <1>1, <3>1
  <2>2. CASE s = 0 /\ ~ladSpeaks[k]
    <3>1. x <= NSym /\ r \in 0..1 /\ ~ladSpeaks'[k] /\ merged'[k] = <<>>
      BY <1>1, <1>2, <1>3, <1>4, <2>2
    <3> QED BY <1>1, <3>1
  <2>3. CASE s = 1
    <3>1. x <= NSym /\ r = 2 /\ ~ladSpeaks'[k]
      BY <1>1, <1>2, <1>3, <1>4, <2>3
    <3> QED BY <1>1, <3>1
  <2>4. CASE s = 2
    <3>1. x <= 2 * NSym - 1 /\ r = 3 /\ ~ladSpeaks'[k] /\ merged'[k] = <<>>
      BY <1>1, <1>2, <1>3, <1>4, <2>4
    <3> QED BY <1>1, <3>1
  <2>5. CASE s >= 3 /\ s < Walk
    <3>1. r = s + 1 /\ ~ladSpeaks'[k] /\ merged'[k] = <<>> /\ ~Arrives(k)
      BY <1>1, <1>3, <1>4, <2>5
    <3>2. x = 0 \/ x + r <= 2 * NSym + 2
      BY <1>1, <1>2, <1>4, <2>5, <3>1
    <3> QED BY <1>1, <2>5, <3>1, <3>2
  <2>6. CASE s >= 3 /\ s = Walk
    <3>1. r = 0 /\ merged'[k] = <<>> /\ ~Arrives(k)
      BY <1>1, <1>3, <1>4, <2>6
    <3>2. x <= 2
      BY <1>1, <1>2, <1>4, <2>6, <3>1
    <3> QED BY <1>1, <3>1, <3>2
  <2> QED BY <1>1, <2>1, <2>2, <2>3, <2>4, <2>5, <2>6
<1> QED BY <1>1, <1>5 DEF Rhythm, r, x

(* One clock of the records' numbers.                                      *)
LEMMA OutputMoves ==
    ASSUME Typed, ArbTick(merged), Watch, NEW k \in Symbol
    PROVE  /\ Leaves(k)' <=> Served(k)
           /\ expected'[k] = NextUp(k)
           /\ NextUp(k)' = IF Served(k) THEN Up(NextUp(k)) ELSE NextUp(k)
           /\ \A i \in DOMAIN arbOut' :
                 /\ Waiting # {} /\ arbOut'[i].sym = Pick /\ Pick \in Symbol
                 /\ Served(Pick) /\ arbOut'[i].data = HeadOf(Pick)
<1>1. expected'[k] = NextUp(k)
  BY DEF Watch, NextUp, Leaves, Up
<1>2. CASE Waiting = {}
  <2>1. arbOut' = <<>> /\ ~Served(k)
    BY <1>2 DEF ArbTick, Served
  <2>2. ~Leaves(k)'
    BY <2>1 DEF Leaves
  <2>3. NextUp(k)' = expected'[k]
    BY <2>2 DEF NextUp
  <2> QED BY <1>1, <2>1, <2>2, <2>3
<1>3. CASE Waiting # {}
  <2> DEFINE rec == [sym |-> Pick, data |-> HeadOf(Pick)]
  <2>1. arbOut' = <<rec>> /\ Pick \in Waiting /\ Pick \in Symbol
    BY <1>3, PickIsNext DEF ArbTick, Waiting
  <2>2. rec.sym = Pick /\ rec.data = HeadOf(Pick)
    OBVIOUS
  <2> HIDE DEF rec
  <2>3. DOMAIN arbOut' = {1} /\ arbOut'[1] = rec
    BY <2>1
  <2>4. Leaves(k)' <=> Served(k)
    BY <2>1, <2>2, <2>3 DEF Leaves, Served
  <2>5. NextUp(k)' = IF Served(k) THEN Up(expected'[k]) ELSE expected'[k]
    BY <2>4 DEF NextUp, Up
  <2>6. \A i \in DOMAIN arbOut' :
            /\ Waiting # {} /\ arbOut'[i].sym = Pick /\ Pick \in Symbol
            /\ Served(Pick) /\ arbOut'[i].data = HeadOf(Pick)
    BY <1>3, <2>1, <2>2, <2>3 DEF Served
  <2> QED BY <1>1, <2>4, <2>5, <2>6
<1> QED BY <1>2, <1>3

LEMMA OrderStep ==
    ASSUME LongWalk, Typed, \A j \in Symbol : Rhythm(j),
           NEW taker \in SUBSET Symbol, NEW how, Clock(taker, how),
           NEW k \in Symbol, InOrder(k)
    PROVE  InOrder(k)'
<1> DEFINE a == Arrives(k)
           v == Served(k)
           l == Queued(k)
           r == rptr[k]
           m == slot[k]
           f == NextUp(k)
<1>1. LanesTick(taker, how) /\ Watch /\ ArbTick(merged)
  BY DEF Clock
<1>2. /\ l \in 0..2 /\ (a => l <= 1) /\ (v => l >= 1)
      /\ Queued(k)' = l + One(a) - One(v)
  BY <1>1, LevelIs
<1>3. /\ rptr'[k] = IF v THEN NextPtr(r) ELSE r
      /\ slot'[k] = IF a THEN [m EXCEPT ![wptr[k] % Depth] = Head(merged[k])] ELSE m
  BY <1>1, QueueMoves
<1>4. NextUp(k)' = IF v THEN Up(f) ELSE f
  BY <1>1, OutputMoves
<1>5. /\ l > 0 => m[r % Depth] = f
      /\ l = 2 => m[NextPtr(r) % Depth] = Up(f)
      /\ a => Head(merged[k]) = Behind(k) /\ number[k] = Up(Behind(k))
      /\ ~a => number[k] = Behind(k)
  BY DEF InOrder, HeadOf, Arrives
<1>6. /\ r \in Pointer /\ NextPtr(r) \in Pointer /\ wptr[k] \in Pointer
      /\ r % Depth \in 0..(Depth - 1) /\ NextPtr(r) % Depth \in 0..(Depth - 1)
      /\ r % Depth # NextPtr(r) % Depth
      /\ m \in [0..(Depth - 1) -> Nat]
  <2>1. r \in Pointer /\ wptr[k] \in Pointer /\ m \in [0..(Depth - 1) -> Nat]
    BY DEF Typed
  <2>2. NextPtr(r) \in Pointer
    BY <2>1, NextFacts
  <2> QED BY <2>1, <2>2, NextSlot
<1>7. (l = 0 => wptr[k] = r) /\ (l = 1 => wptr[k] = NextPtr(r))
  BY <1>2, <1>6, LevelMoves DEF Queued
<1>8. Behind(k) = IF l = 0 THEN f ELSE IF l = 1 THEN Up(f) ELSE Up(Up(f))
  BY DEF Behind
<1>9. Behind(k)' = IF Queued(k)' = 0 THEN NextUp(k)' ELSE IF Queued(k)' = 1 THEN Up(NextUp(k)')
                   ELSE Up(Up(NextUp(k)'))
  BY DEF Behind, Up
<1>10. a \in BOOLEAN /\ v \in BOOLEAN
  BY DEF Arrives, Served
<1> DEFINE h == Queued(k)'
           s == rptr'[k]
           n == slot'[k]
           g == NextUp(k)'
           b == Behind(k)
           c == Behind(k)'
<1> HIDE DEF a, v, l, r, m, f, h, s, n, g, b, c
<1>11. /\ h > 0 => n[s % Depth] = g
       /\ h = 2 => n[NextPtr(s) % Depth] = Up(g)
       /\ a => c = Up(b)
       /\ ~a => c = b
  <2>0. /\ h = l + One(a) - One(v)
        /\ s = IF v THEN NextPtr(r) ELSE r
        /\ n = IF a THEN [m EXCEPT ![wptr[k] % Depth] = Head(merged[k])] ELSE m
        /\ g = IF v THEN Up(f) ELSE f
        /\ b = IF l = 0 THEN f ELSE IF l = 1 THEN Up(f) ELSE Up(Up(f))
        /\ c = IF h = 0 THEN g ELSE IF h = 1 THEN Up(g) ELSE Up(Up(g))
        /\ a => Head(merged[k]) = b
    BY <1>2, <1>3, <1>4, <1>5, <1>8, <1>9 DEF h, s, n, g, b, c
  <2>1. CASE a /\ v
    <3>1. l = 1 /\ h = 1 /\ s = NextPtr(r) /\ g = Up(f) /\ b = Up(f) /\ c = Up(g)
      BY <1>2, <2>0, <2>1 DEF One
    <3>2. n = [m EXCEPT ![NextPtr(r) % Depth] = b]
      BY <1>7, <2>0, <2>1, <3>1
    <3>3. n[NextPtr(r) % Depth] = b
      BY <1>6, <3>2
    <3> QED BY <2>1, <3>1, <3>3
  <2>2. CASE a /\ ~v /\ l = 0
    <3>1. h = 1 /\ s = r /\ g = f /\ b = f /\ c = Up(f)
      BY <1>2, <2>0, <2>2 DEF One
    <3>2. n = [m EXCEPT ![r % Depth] = b]
      BY <1>7, <2>0, <2>2
    <3>3. n[r % Depth] = b
      BY <1>6, <3>2
    <3> QED BY <2>2, <3>1, <3>3
  <2>3. CASE a /\ ~v /\ l = 1
    <3>1. h = 2 /\ s = r /\ g = f /\ b = Up(f) /\ c = Up(Up(f))
      BY <1>2, <2>0, <2>3 DEF One
    <3>2. n = [m EXCEPT ![NextPtr(r) % Depth] = b]
      BY <1>7, <2>0, <2>3
    <3>3. n[NextPtr(r) % Depth] = b /\ n[r % Depth] = m[r % Depth]
      BY <1>6, <3>2
    <3>4. m[r % Depth] = f
      BY <1>5, <2>3
    <3> QED BY <2>3, <3>1, <3>3, <3>4
  <2>4. CASE ~a /\ v
    <3>1. h = l - 1 /\ l \in 1..2 /\ s = NextPtr(r) /\ g = Up(f) /\ n = m
      BY <1>2, <2>0, <2>4 DEF One
    <3>2. c = b
      BY <2>0, <3>1
    <3>3. h > 0 => l = 2 /\ n[s % Depth] = g
      BY <1>5, <3>1
    <3> QED BY <2>4, <3>1, <3>2, <3>3
  <2>5. CASE ~a /\ ~v
    <3>1. h = l /\ s = r /\ g = f /\ n = m
      BY <1>2, <2>0, <2>5 DEF One
    <3>2. c = b
      BY <2>0, <3>1
    <3> QED BY <1>5, <2>5, <3>1, <3>2
  <2> QED BY <1>2, <2>1, <2>2, <2>3, <2>4, <2>5
<1>12. /\ merged'[k] = IF Emits(k) THEN <<number[k]>> ELSE <<>>
       /\ number'[k] = IF Emits(k) THEN Up(number[k]) ELSE number[k]
  BY <1>1, LaneMoves
<1>13. number[k] = c
  BY <1>5, <1>10, <1>11 DEF b
<1>14. /\ merged'[k] = <<>> => number'[k] = c
       /\ merged'[k] # <<>> => merged'[k] = <<c>> /\ number'[k] = Up(c)
  BY <1>12, <1>13
<1>15. /\ Queued(k)' > 0 => HeadOf(k)' = NextUp(k)'
       /\ Queued(k)' = 2 => slot'[k][NextPtr(rptr'[k]) % Depth] = Up(NextUp(k)')
       /\ merged'[k] = <<>> => number'[k] = Behind(k)'
       /\ merged'[k] # <<>> => merged'[k] = <<Behind(k)'>> /\ number'[k] = Up(Behind(k)')
  BY <1>11, <1>14 DEF h, s, n, g, c, HeadOf
<1> QED BY <1>15 DEF InOrder, Up, NextPtr

LEMMA DropStep ==
    ASSUME LongWalk, Typed, \A j \in Symbol : Rhythm(j), ArbTick(merged), drops = 0
    PROVE  drops' = 0
<1> DEFINE lost == {k \in Symbol : merged[k] # <<>> /\ Full(k)}
<1>1. ASSUME NEW k \in Symbol
      PROVE  ~(merged[k] # <<>> /\ Full(k))
  <2>1. merged[k] # <<>> => Queued(k) <= 1
    BY QueueMoves DEF Arrives
  <2>2. Depth >= 2 /\ Depth \in Nat
    BY BboArbAssumption DEF LongWalk
  <2>3. Queued(k) \in 0..2
    BY DEF Rhythm
  <2> QED BY <2>1, <2>2, <2>3 DEF Full
<1>2. lost = {}
  BY <1>1
<1>3. drops' = (drops + Cardinality(lost)) % ArbDropMod
  BY DEF ArbTick
<1> HIDE DEF lost
<1>4. Cardinality(lost) = 0
  BY <1>2, FS_EmptySet
<1>5. ArbDropMod \in Nat \ {0} /\ 0 \in Int /\ 0 < ArbDropMod
  BY BboArbAssumption
<1>6. 0 % ArbDropMod = 0
  BY <1>5, ModFacts
<1> QED BY <1>3, <1>4, <1>6

(****************************** theorems ***********************************)

LEMMA InitInv == LanesInit => FairInv /\ (LongWalk => LanesInv)
<1> SUFFICES ASSUME LanesInit PROVE FairInv /\ (LongWalk => LanesInv)
  OBVIOUS
<1>1. NSym \in Nat \ {0, 1} /\ Depth \in Nat \ {0} /\ Walk \in Nat \ {0}
  BY BboArbAssumption, LanesAssumption
<1>2. Typed
  BY <1>1 DEF LanesInit, ArbInit, Typed, OrNone, Pointer, Symbol
<1>3. ASSUME NEW k \in Symbol
      PROVE  Fair(k) /\ Rhythm(k) /\ InOrder(k)
  <2>1. /\ wptr[k] = 0 /\ rptr[k] = 0 /\ merged[k] = <<>> /\ number[k] = 0
        /\ expected[k] = 0 /\ waited[k] = 0 /\ stage[k] = 0 /\ ~ladSpeaks[k]
        /\ arbOut = <<>>
    BY <1>1 DEF LanesInit, ArbInit
  <2>2. Queued(k) = 0
    <3>1. 0 - 0 = 0 /\ 0 \in Int /\ 2 * Depth \in Nat \ {0} /\ 0 < 2 * Depth
      BY <1>1
    <3>2. 0 % (2 * Depth) = 0
      BY <3>1, ModFacts
    <3> QED BY <2>1, <3>1, <3>2 DEF Queued
  <2>3. Fair(k)
    BY <1>1, <1>2, <2>1, TurnsType DEF Fair
  <2>4. Rhythm(k)
    BY <1>1, <2>1, <2>2 DEF Rhythm, Work
  <2>5. InOrder(k)
    BY <2>1, <2>2 DEF InOrder, Behind, NextUp, Leaves
  <2> QED BY <2>3, <2>4, <2>5
<1>4. NothingDropped /\ SymbolOrder
  BY DEF LanesInit, ArbInit, NothingDropped, SymbolOrder
<1> QED BY <1>2, <1>3, <1>4 DEF FairInv, LanesInv

LEMMA NextClocks ==
    ASSUME LanesNext
    PROVE  \E taker \in SUBSET Symbol : \E how : Clock(taker, how)
<1>1. CASE Idle
  BY <1>1 DEF Idle
<1>2. CASE Take
  <2>1. PICK k \in Symbol, how \in SUBSET Answer : Clock({k}, how)
    BY <1>2 DEF Take
  <2> QED BY <2>1
<1> QED BY <1>1, <1>2 DEF LanesNext

LEMMA InvStep ==
    ASSUME LongWalk, LanesInv, NEW taker \in SUBSET Symbol, NEW how, Clock(taker, how)
    PROVE  LanesInv'
<1>1. /\ Typed /\ drops = 0
      /\ \A k \in Symbol : Rhythm(k)
      /\ \A k \in Symbol : InOrder(k)
      /\ ArbTick(merged) /\ Watch
  BY DEF LanesInv, NothingDropped, Clock
<1>2. Typed'
  BY <1>1, TypeStep
<1>3. \A k \in Symbol : Rhythm(k)'
  BY <1>1, RhythmStep
<1>4. \A k \in Symbol : InOrder(k)'
  BY <1>1, OrderStep
<1>5. NothingDropped'
  BY <1>1, DropStep DEF NothingDropped
<1>6. SymbolOrder'
  <2> SUFFICES ASSUME NEW i \in DOMAIN arbOut'
               PROVE  arbOut'[i].data = expected'[arbOut'[i].sym]
    BY DEF SymbolOrder
  <2>1. 0 \in Symbol
    BY BboArbAssumption DEF Symbol
  <2>2. /\ arbOut'[i].sym = Pick /\ Pick \in Symbol
        /\ Served(Pick) /\ arbOut'[i].data = HeadOf(Pick)
    BY <1>1, <2>1, OutputMoves
  <2>3. expected'[Pick] = NextUp(Pick)
    BY <1>1, <2>2, OutputMoves
  <2>4. Queued(Pick) > 0 /\ InOrder(Pick)
    BY <1>1, <2>2 DEF Served, Waiting
  <2>5. HeadOf(Pick) = NextUp(Pick)
    BY <2>4 DEF InOrder
  <2> QED BY <2>2, <2>3, <2>5
<1> QED BY <1>2, <1>3, <1>4, <1>5, <1>6 DEF LanesInv

(* No symbol starves, however many there are and however fast the records  *)
(* come (bbo_arb.sv:89): the round robin serves a queue that has a record  *)
(* before it serves any other twice.                                       *)
THEOREM NobodyStarves == LanesSpec => []NoStarvation
<1>1. LanesInit => FairInv
  BY InitInv
<1>2. FairInv /\ [LanesNext]_allVars => FairInv'
  <2> SUFFICES ASSUME FairInv, [LanesNext]_allVars PROVE FairInv'
    OBVIOUS
  <2>1. CASE LanesNext
    BY <2>1, NextClocks, FairStep
  <2>2. CASE UNCHANGED allVars
    BY <2>2 DEF allVars, arbVars, lanesVars, FairInv, Typed, Fair, Turns
  <2> QED BY <2>1, <2>2
<1>3. FairInv => NoStarvation
  <2> SUFFICES ASSUME FairInv, NEW k \in Symbol PROVE waited[k] < NSym
    BY DEF NoStarvation
  <2>1. Typed /\ Fair(k) /\ NSym \in Nat
    BY BboArbAssumption DEF FairInv
  <2>2. waited[k] \in Nat /\ Turns(k) \in 0..(NSym - 1)
    BY <2>1, TurnsType DEF Typed
  <2> QED BY <2>1, <2>2 DEF Fair
<1> QED BY <1>1, <1>2, <1>3, PTL DEF LanesSpec

LEMMA LanesInvariant == ASSUME LongWalk PROVE LanesSpec => []LanesInv
<1>1. LanesInit => LanesInv
  BY InitInv
<1>2. LanesInv /\ [LanesNext]_allVars => LanesInv'
  <2> SUFFICES ASSUME LanesInv, [LanesNext]_allVars PROVE LanesInv'
    OBVIOUS
  <2>1. CASE LanesNext
    BY <2>1, NextClocks, InvStep
  <2>2. CASE UNCHANGED allVars
    BY <2>2 DEF allVars, arbVars, lanesVars, LanesInv, Typed, NothingDropped, SymbolOrder, Rhythm,
       InOrder, Work, Queued, Turns, HeadOf, NextUp, Behind, Leaves
  <2> QED BY <2>1, <2>2
<1> QED BY <1>1, <1>2, PTL DEF LanesSpec

(* Two slots for each symbol are enough (bbo_arb.sv:34) for every number   *)
(* of symbols of which each can be served twice while a ladder walks.      *)
THEOREM TwoSlotsAreEnough == ASSUME LongWalk PROVE LanesSpec => []NothingDropped
<1>1. LanesInv => NothingDropped
  BY DEF LanesInv
<1> QED BY <1>1, LanesInvariant, PTL

(* Every record leaves, and in the order of its symbol (bbo_arb.sv:20).    *)
THEOREM EverySymbolInOrder == ASSUME LongWalk PROVE LanesSpec => []SymbolOrder
<1>1. LanesInv => SymbolOrder
  BY DEF LanesInv
<1> QED BY <1>1, LanesInvariant, PTL
-----------------------------------------------------------------------------
(**************************** the order table ******************************)
OrderRec == [ref : Ref, side : Side, price : Price, qty : Nat \ {0}, sym : Sym]
Cell     == {<<>>} \cup {<<e>> : e \in OrderRec}
Memory   == [Sets -> [Way -> Cell]]

(* What is stored in a memory.                                             *)
Stored(M) == {e \in OrderRec : \E s \in Sets, w \in Way : M[s][w] = <<e>>}

(* Every order is in the set its reference hashes to, and once.            *)
InItsSet(M) == \A s \in Sets, w \in Way, e \in OrderRec : M[s][w] = <<e>> => Hash[e.ref] = s
Once(M) == \A s \in Sets, w, v \in Way, d, e \in OrderRec :
               M[s][w] = <<d>> /\ M[s][v] = <<e>> /\ d.ref = e.ref => w = v
Sound(M) == M \in Memory /\ InItsSet(M) /\ Once(M)

Absent(ref, H) == \A e \in H : e.ref # ref

OneEach(H) == /\ H \subseteq OrderRec
              /\ \A d, e \in H : d.ref = e.ref => d = e

(* A reference is stored once in a memory that is sound: the sets are      *)
(* disjoint and no set holds it in two ways.                               *)
LEMMA StoredOnce == ASSUME NEW M, Sound(M) PROVE OneEach(Stored(M))
<1> SUFFICES ASSUME NEW d \in Stored(M), NEW e \in Stored(M), d.ref = e.ref PROVE d = e
  BY DEF OneEach, Stored
<1>1. PICK s \in Sets, w \in Way : M[s][w] = <<d>>
  BY DEF Stored
<1>2. PICK t \in Sets, v \in Way : M[t][v] = <<e>>
  BY DEF Stored
<1>3. s = t
  BY <1>1, <1>2 DEF Sound, InItsSet, Stored
<1>4. w = v
  BY <1>1, <1>2, <1>3 DEF Sound, Once, Stored
<1> QED BY <1>1, <1>2, <1>3, <1>4

(* Putting an order in an empty way, taking it out, changing its shares.   *)
LEMMA CellFacts == /\ <<>> \in Cell
                   /\ \A e \in OrderRec : <<e>> \in Cell /\ <<e>> # <<>>
                   /\ \A c \in Cell : c # <<>> => Head(c) \in OrderRec /\ c = <<Head(c)>>
                   /\ \A d, e : <<d>> = <<e>> => d = e
<1>1. \A c \in Cell : c # <<>> => Head(c) \in OrderRec /\ c = <<Head(c)>>
  BY DEF Cell
<1> QED BY <1>1 DEF Cell

Put(M, s, w, c) == [M EXCEPT ![s][w] = c]

LEMMA PutIn ==
    ASSUME NEW M, Sound(M), NEW s \in Sets, NEW w \in Way, M[s][w] = <<>>,
           NEW f \in OrderRec, Hash[f.ref] = s, Absent(f.ref, Stored(M))
    PROVE  /\ Sound(Put(M, s, w, <<f>>))
           /\ Stored(Put(M, s, w, <<f>>)) = Stored(M) \cup {f}
<1> DEFINE N == Put(M, s, w, <<f>>)
<1> USE DEF Sound
<1>1. N \in Memory
  BY CellFacts DEF Memory, Put
<1>2. N[s][w] = <<f>> /\ \A t \in Sets, v \in Way : t # s \/ v # w => N[t][v] = M[t][v]
  BY DEF Memory, Put
<1> HIDE DEF N
<1>3. ASSUME NEW t \in Sets, NEW v \in Way, NEW e \in OrderRec, N[t][v] = <<e>>
      PROVE  \/ t = s /\ v = w /\ e = f
             \/ M[t][v] = <<e>> /\ e.ref # f.ref /\ e \in Stored(M)
  <2>1. CASE t = s /\ v = w
    <3>1. <<f>> = <<e>>
      BY <1>2, <1>3, <2>1
    <3>2. f = e
      BY <3>1
    <3> QED BY <2>1, <3>2
  <2>2. CASE t # s \/ v # w
    <3>1. M[t][v] = <<e>>
      BY <1>2, <1>3, <2>2
    <3>2. e \in Stored(M)
      BY <3>1 DEF Stored
    <3> QED BY <3>1, <3>2 DEF Absent
  <2> QED BY <2>1, <2>2
<1>4. InItsSet(N)
  BY <1>3 DEF InItsSet
<1>5. Once(N)
  <2> SUFFICES ASSUME NEW t \in Sets, NEW v \in Way, NEW u \in Way, NEW d \in OrderRec,
                      NEW e \in OrderRec, N[t][v] = <<d>>, N[t][u] = <<e>>, d.ref = e.ref
               PROVE  v = u
    BY DEF Once
  <2> QED BY <1>3 DEF Once
<1>6. \A e \in Stored(M) : e \in Stored(N)
  <2> SUFFICES ASSUME NEW e \in Stored(M) PROVE e \in Stored(N)
    OBVIOUS
  <2>1. PICK t \in Sets, v \in Way : M[t][v] = <<e>>
    BY DEF Stored
  <2>2. t # s \/ v # w
    BY <2>1, CellFacts DEF Stored
  <2> QED BY <1>2, <2>1, <2>2 DEF Stored
<1>7. f \in Stored(N)
  BY <1>2 DEF Stored
<1>8. \A e \in Stored(N) : e = f \/ e \in Stored(M)
  BY <1>3 DEF Stored
<1>9. Stored(N) = Stored(M) \cup {f}
  BY <1>6, <1>7, <1>8
<1> QED BY <1>1, <1>4, <1>5, <1>9 DEF N

LEMMA TakeOut ==
    ASSUME NEW M, Sound(M), NEW s \in Sets, NEW w \in Way,
           NEW e \in OrderRec, M[s][w] = <<e>>
    PROVE  /\ Sound(Put(M, s, w, <<>>))
           /\ Stored(Put(M, s, w, <<>>)) = Stored(M) \ {e}
<1> DEFINE N == Put(M, s, w, <<>>)
<1> USE DEF Sound
<1>1. N \in Memory
  BY CellFacts DEF Memory, Put
<1>2. N[s][w] = <<>> /\ \A t \in Sets, v \in Way : t # s \/ v # w => N[t][v] = M[t][v]
  BY DEF Memory, Put
<1> HIDE DEF N
<1>3. ASSUME NEW t \in Sets, NEW v \in Way, NEW d \in OrderRec, N[t][v] = <<d>>
      PROVE  M[t][v] = <<d>> /\ (t # s \/ v # w)
  BY <1>2, <1>3, CellFacts
<1>4. InItsSet(N)
  BY <1>3 DEF InItsSet
<1>5. Once(N)
  <2> SUFFICES ASSUME NEW t \in Sets, NEW v \in Way, NEW u \in Way, NEW d \in OrderRec,
                      NEW g \in OrderRec, N[t][v] = <<d>>, N[t][u] = <<g>>, d.ref = g.ref
               PROVE  v = u
    BY DEF Once
  <2> QED BY <1>3 DEF Once
<1>6. ASSUME NEW d \in Stored(M), d # e PROVE d \in Stored(N)
  <2>1. PICK t \in Sets, v \in Way : M[t][v] = <<d>>
    BY DEF Stored
  <2>2. t # s \/ v # w
    BY <1>6, <2>1, CellFacts DEF Stored
  <2> QED BY <1>2, <2>1, <2>2 DEF Stored
<1>7. ASSUME NEW d \in Stored(N) PROVE d \in Stored(M) /\ d # e
  <2>1. PICK t \in Sets, v \in Way : N[t][v] = <<d>>
    BY DEF Stored
  <2>2. d \in OrderRec
    BY DEF Stored
  <2>3. M[t][v] = <<d>> /\ (t # s \/ v # w)
    BY <1>3, <2>1, <2>2
  <2>4. d \in Stored(M)
    BY <2>2, <2>3 DEF Stored
  <2>5. d # e
    <3> SUFFICES ASSUME d = e PROVE FALSE
      OBVIOUS
    <3>1. t = s
      BY <2>3 DEF InItsSet
    <3> QED BY <2>3, <3>1 DEF Once
  <2> QED BY <2>4, <2>5
<1>8. Stored(N) = Stored(M) \ {e}
  BY <1>6, <1>7
<1> QED BY <1>1, <1>4, <1>5, <1>8 DEF N

LEMMA ChangeIn ==
    ASSUME NEW M, Sound(M), NEW s \in Sets, NEW w \in Way,
           NEW e \in OrderRec, M[s][w] = <<e>>, NEW f \in OrderRec, f.ref = e.ref
    PROVE  /\ Sound(Put(M, s, w, <<f>>))
           /\ Stored(Put(M, s, w, <<f>>)) = (Stored(M) \ {e}) \cup {f}
<1> DEFINE O == Put(M, s, w, <<>>)
           N == Put(M, s, w, <<f>>)
<1>1. Sound(O) /\ Stored(O) = Stored(M) \ {e}
  BY TakeOut
<1>2. M \in [Sets -> [Way -> Cell]] /\ Hash[e.ref] = s
  BY DEF Sound, Memory, InItsSet
<1>3. O[s][w] = <<>> /\ Hash[f.ref] = s /\ N = Put(O, s, w, <<f>>)
  BY <1>2 DEF Put
<1> HIDE DEF O, N
<1>4. Absent(f.ref, Stored(O))
  <2>1. OneEach(Stored(M)) /\ e \in Stored(M)
    BY StoredOnce DEF Stored
  <2> QED BY <1>1, <2>1 DEF OneEach, Absent
<1>5. \A x : Sound(x) /\ x[s][w] = <<>> /\ Absent(f.ref, Stored(x)) =>
          Sound(Put(x, s, w, <<f>>)) /\ Stored(Put(x, s, w, <<f>>)) = Stored(x) \cup {f}
  BY <1>3, PutIn
<1>6. Sound(N) /\ Stored(N) = Stored(O) \cup {f}
  BY <1>1, <1>3, <1>4, <1>5
<1> QED BY <1>1, <1>6 DEF N

(* ---- the book of a set of orders ----                                   *)
Refs(H)   == {e.ref : e \in H}
OrderAt(H, r) == CHOOSE e \in H : e.ref = r
Resting(e) == [loc |-> e.sym, side |-> e.side, price |-> e.price, qty |-> e.qty]
With(b, r, e) == Golden!With(b, r, e)
BookOf(H) == [r \in Refs(H) |-> Resting(OrderAt(H, r))]

(* The book a set of orders makes when no two of them share a reference.   *)
LEMMA BookFacts ==
    ASSUME NEW H, OneEach(H)
    PROVE  /\ DOMAIN BookOf(H) = Refs(H)
           /\ \A e \in H : e.ref \in Refs(H) /\ BookOf(H)[e.ref] = Resting(e)
           /\ \A r \in Refs(H) : \E e \in H : e.ref = r
<1>1. ASSUME NEW e \in H PROVE OrderAt(H, e.ref) = e
  <2>1. OrderAt(H, e.ref) \in H /\ OrderAt(H, e.ref).ref = e.ref
    BY DEF OrderAt
  <2> QED BY <2>1 DEF OneEach
<1>2. \A e \in H : e.ref \in Refs(H)
  BY DEF Refs
<1>3. \A r \in Refs(H) : \E e \in H : e.ref = r
  BY DEF Refs
<1> QED BY <1>1, <1>2, <1>3 DEF BookOf

LEMMA SameBook ==
    ASSUME NEW H, OneEach(H), NEW b, b = [r \in DOMAIN b |-> b[r]], DOMAIN b = Refs(H),
           \A e \in H : b[e.ref] = Resting(e)
    PROVE  b = BookOf(H)
<1>1. \A r \in Refs(H) : b[r] = BookOf(H)[r]
  BY BookFacts
<1>2. BookOf(H) = [r \in DOMAIN BookOf(H) |-> BookOf(H)[r]]
  BY DEF BookOf
<1> QED BY <1>1, <1>2, BookFacts

(* What an order more, an order less and fewer shares make of that book:   *)
(* the updates dump_book.py does to its map.                               *)
LEMMA BookGrows ==
    ASSUME NEW H, OneEach(H), NEW f \in OrderRec, Absent(f.ref, H)
    PROVE  /\ OneEach(H \cup {f})
           /\ BookOf(H \cup {f}) = With(BookOf(H), f.ref, Resting(f))
<1> DEFINE G == H \cup {f}
           b == With(BookOf(H), f.ref, Resting(f))
<1>1. OneEach(G)
  BY DEF OneEach, Absent
<1>2. b = [r \in DOMAIN b |-> b[r]] /\ DOMAIN b = Refs(G)
  <2>1. DOMAIN b = {f.ref} \cup Refs(H)
    BY BookFacts DEF With, Golden!With
  <2>2. Refs(G) = {f.ref} \cup Refs(H)
    BY DEF Refs
  <2>3. b = [r \in DOMAIN b |-> b[r]]
    BY DEF With, Golden!With
  <2> QED BY <2>1, <2>2, <2>3
<1>3. ASSUME NEW e \in G PROVE b[e.ref] = Resting(e)
  <2>1. CASE e = f
    BY <2>1 DEF With, Golden!With
  <2>2. CASE e \in H
    <3>1. e.ref # f.ref
      BY <2>2 DEF Absent
    <3>2. BookOf(H)[e.ref] = Resting(e) /\ e.ref \in DOMAIN BookOf(H)
      BY <2>2, BookFacts
    <3> QED BY <3>1, <3>2 DEF With, Golden!With
  <2> QED BY <2>1, <2>2
<1> HIDE DEF G, b
<1>4. b = BookOf(G)
  BY <1>1, <1>2, <1>3, SameBook
<1> QED BY <1>1, <1>4 DEF G, b

LEMMA BookShrinks ==
    ASSUME NEW H, OneEach(H), NEW e \in H
    PROVE  /\ OneEach(H \ {e}) /\ Absent(e.ref, H \ {e})
           /\ BookOf(H \ {e}) = Restrict(BookOf(H), DOMAIN BookOf(H) \ {e.ref})
<1> DEFINE G == H \ {e}
           b == Restrict(BookOf(H), DOMAIN BookOf(H) \ {e.ref})
<1>1. OneEach(G) /\ Absent(e.ref, G)
  BY DEF OneEach, Absent
<1>2. b = [r \in DOMAIN b |-> b[r]] /\ DOMAIN b = Refs(G)
  <2>1. DOMAIN b = Refs(H) \ {e.ref}
    BY BookFacts DEF Restrict
  <2>2. Refs(G) = Refs(H) \ {e.ref}
    BY <1>1 DEF Refs, Absent
  <2>3. b = [r \in DOMAIN b |-> b[r]]
    BY DEF Restrict
  <2> QED BY <2>1, <2>2, <2>3
<1>3. ASSUME NEW d \in G PROVE b[d.ref] = Resting(d)
  <2>1. d.ref # e.ref /\ BookOf(H)[d.ref] = Resting(d) /\ d.ref \in DOMAIN BookOf(H)
    BY <1>1, BookFacts DEF Absent
  <2> QED BY <2>1 DEF Restrict
<1> HIDE DEF G, b
<1>4. b = BookOf(G)
  BY <1>1, <1>2, <1>3, SameBook
<1> QED BY <1>1, <1>4 DEF G, b

LEMMA BookChanges ==
    ASSUME NEW H, OneEach(H), NEW e \in H, NEW q \in Nat \ {0}
    PROVE  BookOf((H \ {e}) \cup {[e EXCEPT !.qty = q]}) = [BookOf(H) EXCEPT ![e.ref].qty = q]
<1> DEFINE f == [e EXCEPT !.qty = q]
           G == (H \ {e}) \cup {f}
           b == [BookOf(H) EXCEPT ![e.ref].qty = q]
<1>1. e \in OrderRec
  BY DEF OneEach
<1>2. f \in OrderRec /\ f.ref = e.ref /\ Resting(f) = [Resting(e) EXCEPT !.qty = q]
  BY <1>1 DEF OrderRec, Resting
<1>3. OneEach(H \ {e}) /\ Absent(e.ref, H \ {e})
  BY BookShrinks
<1> HIDE DEF f
<1>4. OneEach(G)
  BY <1>2, <1>3 DEF OneEach, Absent
<1>5. b = [r \in DOMAIN b |-> b[r]] /\ DOMAIN b = Refs(G)
  <2>1. DOMAIN b = Refs(H)
    BY BookFacts
  <2>2. Refs(G) = Refs(H)
    BY <1>2 DEF Refs
  <2>3. b = [r \in DOMAIN b |-> b[r]]
    OBVIOUS
  <2> QED BY <2>1, <2>2, <2>3
<1>6. ASSUME NEW d \in G PROVE b[d.ref] = Resting(d)
  <2>1. CASE d = f
    <3>1. BookOf(H)[e.ref] = Resting(e) /\ e.ref \in DOMAIN BookOf(H)
      BY BookFacts
    <3> QED BY <1>2, <2>1, <3>1
  <2>2. CASE d \in H \ {e}
    <3>1. d.ref # e.ref /\ BookOf(H)[d.ref] = Resting(d) /\ d.ref \in DOMAIN BookOf(H)
      BY <1>3, <2>2, BookFacts DEF Absent
    <3> QED BY <3>1
  <2> QED BY <2>1, <2>2
<1> HIDE DEF G, b
<1>7. b = BookOf(G)
  BY <1>4, <1>5, <1>6, SameBook
<1> QED BY <1>2, <1>4, <1>7 DEF f, G, b
-----------------------------------------------------------------------------
(* ---- the invariant of the table ----                                    *)
-----------------------------------------------------------------------------
Types == {"A", "F", "E", "C", "X", "D", "U", "P"}

MessageOk(m) ==
    /\ m.type \in Types /\ {m.ref, m.newRef} \subseteq Ref /\ {m.price, m.shares} \subseteq Int
    /\ m.type \in {"A", "F", "U"} => m.price \in Price /\ m.shares \in Nat \ {0}
    /\ m.type \in Executes => m.shares > 0
    /\ m.type \in {"A", "F"} => m.side \in Side /\ Absent(m.ref, Stored(mem))
    /\ m.type = "U" => Absent(m.newRef, Stored(mem))

(* A way of a set, found empty, or none.                                   *)
FoundEmpty(free, s) == free = <<>> \/ \E w \in Way : free = <<w>> /\ mem[s][w] = <<>>

(* What was read `wait' cycles before its end is what the memory holds.    *)
ReadsSet(s) ==
    rdWait \in 0..RdLat /\ \A i \in 1..RdLat : i <= RdLat - rdWait => rdPipe[i] = mem[s]

Junked == [Sets -> [Way -> {<<>>} \cup {<<j>> : j \in Junk}]]
Clearing ==
    /\ state = "IDLE" /\ delta = <<>> /\ clrAddr \in 0..NSets /\ mem \in Junked
    /\ \A s \in Sets : s < clrAddr => mem[s] = EmptySet

Latched ==
    /\ ~clrBusy /\ MessageOk(msg) /\ set0 = Hash[msg.ref]
    /\ msg.type = "U" /\ ReplaceFits /\ state # "U_EXEC" => Fits(msg.ref, msg.newRef)

Found ==
    /\ sel.hit = <<>> => Absent(msg.ref, Stored(mem))
    /\ sel.hit # <<>> => \E w \in Way : /\ sel.hit = <<w>> /\ mem[set0][w] = <<sel.ent>>
                                        /\ sel.ent \in OrderRec /\ sel.ent.ref = msg.ref
    /\ FoundEmpty(sel.free, set0)

Replacing ==
    /\ msg.type = "U" /\ set1 = Hash[msg.newRef] /\ msg.newRef # msg.ref
    /\ old.ent \in OrderRec /\ old.ent.ref = msg.ref /\ Absent(msg.ref, Stored(mem))
    /\ old.way \in Way /\ mem[set0][old.way] = <<>>

TableInv ==
    /\ state \in {"IDLE", "LOOK", "EXEC", "U_LOOK", "U_EXEC"}
    /\ clrBusy \in BOOLEAN /\ overflowCnt \in 0..(OvfMod - 1)
    /\ clrBusy => Clearing
    /\ ~clrBusy => Sound(mem)
    /\ state # "IDLE" => Latched
    /\ state = "LOOK" => ReadsSet(set0)
    /\ state = "EXEC" => Found
    /\ state \in {"U_LOOK", "U_EXEC"} => Replacing
    /\ state = "U_LOOK" => ReadsSet(set1)
    /\ state = "U_EXEC" => FoundEmpty(freeU, set1) /\ (ReplaceFits => freeU # <<>>)

(* What a step does to the lines and to the orders.                        *)
GoldenStep == IF Finishes /\ ~Drops THEN Golden!Message(msg)
              ELSE delta' = <<>> /\ Held' = Held

(* The orders H, of which the message m makes G and the record D.          *)
Adds(m, H, G, D) ==
    LET f == Entry(m.ref, m.side, m.price, m.shares, m.loc) IN
    /\ m.type \in {"A", "F"} /\ m.loc \in Sym /\ Absent(m.ref, H) /\ f \in OrderRec
    /\ G = H \cup {f}
    /\ D = Delta(m.type, m.loc, m.side, <<>>, Level(m.price, m.shares), m.ts)

Reduces(m, e, H, G, D) ==
    /\ m.type \in Executes /\ e.ref = m.ref /\ m.shares \in Nat \ {0}
    /\ G = IF e.qty <= m.shares THEN H \ {e} ELSE (H \ {e}) \cup {[e EXCEPT !.qty = @ - m.shares]}
    /\ D = Delta(m.type, e.sym, e.side,
                 Level(e.price, IF e.qty < m.shares THEN e.qty ELSE m.shares), <<>>, m.ts)

Deletes(m, e, H, G, D) ==
    /\ m.type = "D" /\ e.ref = m.ref /\ G = H \ {e}
    /\ D = Delta("D", e.sym, e.side, Level(e.price, e.qty), <<>>, m.ts)

Swaps(m, e, H, G, D) ==
    LET f == Entry(m.newRef, e.side, m.price, m.shares, e.sym) IN
    /\ m.type = "U" /\ e.ref = m.ref /\ m.newRef # m.ref /\ Absent(m.newRef, H \ {e})
    /\ f \in OrderRec /\ G = (H \ {e}) \cup {f}
    /\ D = Delta("U", e.sym, e.side, Level(e.price, e.qty), Level(m.price, m.shares), m.ts)

Skips(m, H, G, D) ==
    /\ G = H /\ D = <<>>
    /\ \/ m.type \in {"A", "F"} /\ m.loc \notin Sym
       \/ m.type \in Executes \cup {"D", "U"} /\ Absent(m.ref, H)
       \/ m.type = "P"

Outcome(m, H, G, D) ==
    \/ Adds(m, H, G, D)
    \/ \E e \in H : Reduces(m, e, H, G, D) \/ Deletes(m, e, H, G, D) \/ Swaps(m, e, H, G, D)
    \/ Skips(m, H, G, D)

OutcomeStep == IF Finishes /\ ~Drops THEN OneEach(Held) /\ Outcome(msg, Held, Held', delta')
               ELSE delta' = <<>> /\ Held' = Held

LEMMA Geometry == /\ 0 \in Sets /\ 0 \in Way /\ Sets \subseteq Nat /\ Way \subseteq Nat
                  /\ \A r \in Ref : Hash[r] \in Sets
  BY TableAssumption DEF Sets, Way

(* ---- the orders of the table ----                                       *)
Contents(M) == {Head(M[sw[1]][sw[2]]) : sw \in {x \in Sets \X Way : M[x[1]][x[2]] # <<>>}}

LEMMA ContentsStored == ASSUME NEW M, Sound(M) PROVE Contents(M) = Stored(M)
<1>1. ASSUME NEW e \in Stored(M) PROVE e \in Contents(M)
  <2>1. PICK s \in Sets, w \in Way : M[s][w] = <<e>>
    BY DEF Stored
  <2> DEFINE at == <<s, w>>
  <2>2. at \in Sets \X Way /\ at[1] = s /\ at[2] = w /\ M[s][w] # <<>> /\ Head(M[s][w]) = e
    BY <2>1
  <2> HIDE DEF at
  <2> QED BY <2>2 DEF Contents
<1>2. ASSUME NEW e \in Contents(M) PROVE e \in Stored(M)
  <2>1. PICK x \in Sets \X Way : M[x[1]][x[2]] # <<>> /\ e = Head(M[x[1]][x[2]])
    BY DEF Contents
  <2>2. x[1] \in Sets /\ x[2] \in Way /\ M[x[1]][x[2]] \in Cell
    BY DEF Sound, Memory
  <2>3. e \in OrderRec /\ M[x[1]][x[2]] = <<e>>
    BY <2>1, <2>2, CellFacts
  <2> QED BY <2>2, <2>3 DEF Stored
<1> QED BY <1>1, <1>2

LEMMA HeldIs ==
    /\ ~clrBusy /\ Sound(mem) =>
         Held = Stored(mem) \cup IF state \in {"U_LOOK", "U_EXEC"} THEN {old.ent} ELSE {}
    /\ (~clrBusy /\ Sound(mem) =>
         Held = Stored(mem) \cup IF state \in {"U_LOOK", "U_EXEC"} THEN {old.ent} ELSE {})'
<1>1. ~clrBusy => Held = Contents(mem) \cup IF state \in {"U_LOOK", "U_EXEC"} THEN {old.ent} ELSE {}
  BY DEF Held, Slots, At, Contents
<1>2. ~clrBusy' => Held' = Contents(mem') \cup IF state' \in {"U_LOOK", "U_EXEC"} THEN {old'.ent} ELSE {}
  BY DEF Held, Slots, At, Contents
<1>3. Sound(mem) => Contents(mem) = Stored(mem)
  BY ContentsStored
<1>4. Sound(mem') => Contents(mem') = Stored(mem')
  BY ContentsStored
<1> QED BY <1>1, <1>2, <1>3, <1>4

LEMMA BookIs == TableBook = BookOf(Held) /\ (TableBook = BookOf(Held))'
<1>1. TableBook = BookOf(Held)
  BY DEF TableBook, BookOf, HeldRefs, EntryOf, Refs, OrderAt, Resting
<1>2. TableBook' = BookOf(Held')
  BY DEF TableBook, BookOf, HeldRefs, EntryOf, Refs, OrderAt, Resting
<1> QED BY <1>1, <1>2
-----------------------------------------------------------------------------
LEMMA InitTable == Init => TableInv
<1> SUFFICES ASSUME Init PROVE TableInv
  OBVIOUS
<1>1. clrBusy = TRUE /\ state = "IDLE" /\ delta = <<>> /\ clrAddr = 0 /\ overflowCnt = 0 /\ mem \in Junked
  BY DEF Init, TableInit, Junked
<1>2. Clearing
  BY <1>1, TableAssumption DEF Clearing, Sets
<1> QED BY <1>1, <1>2, TableAssumption DEF TableInv

(* What the feed presents.                                                 *)
LEMMA PresentedOk ==
    ASSUME TableInv, ~clrBusy, state = "IDLE", NEW m \in Messages, Allowed(m)
    PROVE  MessageOk(m) /\ (m.type = "U" /\ ReplaceFits => Fits(m.ref, m.newRef))
<1> DEFINE unused == Ref \ {e.ref : e \in Held}
<1>1. Held = Stored(mem)
  BY HeldIs DEF TableInv
<1>2. \A r \in unused : r \in Ref /\ Absent(r, Stored(mem))
  BY <1>1 DEF Absent
<1>3. SomeRef \in Ref /\ Price \subseteq Int
      /\ \A r \in Ref : /\ Orders[r].side \in Side /\ Orders[r].price \in Price
                       /\ Orders[r].shares \in Nat \ {0}
  BY FeedAssumption DEF SomeRef, Price
<1>4. m.type = "U" /\ ReplaceFits => Fits(m.ref, m.newRef)
  BY DEF Allowed
<1> USE DEF MessageOk, Types, Executes
<1>5. ASSUME NEW r \in unused, NEW l, m = add(l, r) PROVE MessageOk(m)
  <2>1. m.type \in {"A", "F"} /\ m.ref = r /\ m.newRef = SomeRef /\ m.side = Orders[r].side
        /\ m.price = Orders[r].price /\ m.shares = Orders[r].shares
    BY <1>5 DEF add, hdr
  <2> QED BY <1>2, <1>3, <2>1, FeedAssumption
<1>6. ASSUME NEW r \in Ref, NEW n \in Shares, m = cancel(r, n) PROVE MessageOk(m)
  <2>1. m.type = "X" /\ m.ref = r /\ m.newRef = SomeRef /\ m.price = 0 /\ m.shares = n
    BY <1>6 DEF cancel, hdr
  <2> QED BY <1>3, <2>1, FeedAssumption
<1>7. ASSUME NEW r \in Ref, NEW x \in Executions, m = execute(r, x[1], x[2], x[3]) PROVE MessageOk(m)
  <2>1. m.type \in {"E", "C"} /\ m.ref = r /\ m.newRef = SomeRef /\ m.price = 0 /\ m.shares = x[1]
    BY <1>7 DEF execute, hdr
  <2> QED BY <1>3, <2>1, FeedAssumption
<1>8. ASSUME NEW r \in Ref, m = delete(r) PROVE MessageOk(m)
  <2>1. m.type = "D" /\ m.ref = r /\ m.newRef = SomeRef /\ m.price = 0 /\ m.shares = 0
    BY <1>8 DEF delete, hdr
  <2> QED BY <1>3, <2>1
<1>9. ASSUME NEW p \in Replaces, p[2] \in unused, m = replace(p[1], p[2]) PROVE MessageOk(m)
  <2>1. p[1] \in Ref /\ p[2] \in Ref
    BY FeedAssumption
  <2>2. m.type = "U" /\ m.ref = p[1] /\ m.newRef = p[2]
        /\ m.price = Orders[p[2]].price /\ m.shares = Orders[p[2]].shares
    BY <1>9 DEF replace, hdr
  <2>3. m.price \in Price /\ m.shares \in Nat \ {0} /\ m.price \in Int /\ m.shares \in Int
    BY <1>3, <2>1, <2>2
  <2>4. Absent(m.newRef, Stored(mem))
    BY <1>2, <1>9, <2>2
  <2> QED BY <2>1, <2>2, <2>3, <2>4
<1>10. ASSUME m = hidden_trade PROVE MessageOk(m)
  <2>1. m.type = "P" /\ m.ref = SomeRef /\ m.newRef = SomeRef /\ m.price = 0 /\ m.shares = 0
    BY <1>10 DEF hidden_trade, hdr
  <2> QED BY <1>3, <2>1
<1>11. \/ \E r \in unused : m = add(Orders[r].loc, r)
       \/ \E r \in unused : m = add(OtherLoc, r)
       \/ \E r \in Ref, n \in Shares : m = cancel(r, n)
       \/ \E y \in Ref \X Executions : m = execute(y[1], y[2][1], y[2][2], y[2][3])
       \/ \E r \in Ref : m = delete(r)
       \/ \E p \in Replaces : p[2] \in unused /\ m = replace(p[1], p[2])
       \/ m = hidden_trade
  BY DEF Messages
<1>12. MessageOk(m)
  <2> HIDE DEF unused
  <2> QED BY <1>5, <1>6, <1>7, <1>8, <1>9, <1>10, <1>11
<1> QED BY <1>4, <1>12
-----------------------------------------------------------------------------
(* A step that writes nothing keeps the orders, unless a replace is begun  *)
(* or ended.                                                               *)
LEMMA KeepsHeld ==
    ASSUME TableInv, ~clrBusy, ~clrBusy', mem' = mem,
           state \in {"U_LOOK", "U_EXEC"} <=> state' \in {"U_LOOK", "U_EXEC"},
           state \in {"U_LOOK", "U_EXEC"} => old' = old
    PROVE  Held' = Held
<1>1. Sound(mem) /\ Sound(mem')
  BY DEF TableInv
<1>2. Held = Stored(mem) \cup IF state \in {"U_LOOK", "U_EXEC"} THEN {old.ent} ELSE {}
  BY <1>1, HeldIs
<1>3. Held' = Stored(mem') \cup IF state' \in {"U_LOOK", "U_EXEC"} THEN {old'.ent} ELSE {}
  BY <1>1, HeldIs
<1> QED BY <1>2, <1>3

(* The sweep after reset clears a set in every cycle and then the first    *)
(* one again; nobody presents a message before it is done.                 *)
LEMMA ClearStep ==
    ASSUME TableInv, clrBusy, NEW presented \in Presented, TableTick(presented)
    PROVE  TableInv' /\ OutcomeStep
<1>1. Clearing
  BY DEF TableInv
<1>2. presented = <<>> /\ Accept(presented)
  BY <1>1 DEF Presented, sReady, TableTick, Wait, Look, Exec, LookForReplace, ExecReplace, Clearing
<1>3. state' = "IDLE" /\ delta' = <<>> /\ overflowCnt' = overflowCnt
  BY <1>1, <1>2 DEF Accept, Clearing
<1>4. mem' = [mem EXCEPT ![clrAddr % NSets] = EmptySet] /\ clrAddr' = clrAddr + 1
      /\ clrBusy' = (clrAddr # NSets)
  BY DEF TableTick, StepMemory
<1>5. clrBusy' \in BOOLEAN /\ (clrBusy' => clrAddr # NSets) /\ (~clrBusy' => clrAddr = NSets)
  BY <1>4, Zenon
<1>6. clrAddr \in 0..NSets /\ NSets \in Nat \ {0} /\ mem \in Junked
  BY <1>1, TableAssumption DEF Clearing
<1>7. clrAddr % NSets = IF clrAddr = NSets THEN 0 ELSE clrAddr
  <2>1. clrAddr < NSets => clrAddr % NSets = clrAddr
    BY <1>6
  <2>2. NSets % NSets = 0
    BY <1>6
  <2> QED BY <1>6, <2>1, <2>2
<1>8. EmptySet \in [Way -> {<<>>} \cup {<<j>> : j \in Junk}]
  BY DEF EmptySet
<1>9. mem' \in Junked
  BY <1>4, <1>6, <1>8 DEF Junked
<1>10. \A s \in Sets : s < clrAddr' => mem'[s] = EmptySet
  <2> SUFFICES ASSUME NEW s \in Sets, s < clrAddr' PROVE mem'[s] = EmptySet
    OBVIOUS
  <2>1. s \in Nat
    BY Geometry
  <2>2. CASE s = clrAddr % NSets
    BY <1>4, <1>6, <2>2 DEF Junked
  <2>3. CASE s # clrAddr % NSets
    <3>1. s < clrAddr
      BY <1>4, <1>6, <1>7, <2>1, <2>3 DEF Sets
    <3>2. mem[s] = EmptySet
      BY <1>1, <3>1 DEF Clearing
    <3> QED BY <1>4, <1>6, <2>3, <3>2 DEF Junked
  <2> QED BY <2>2, <2>3
<1>11. clrBusy' => Clearing'
  BY <1>3, <1>4, <1>5, <1>6, <1>9, <1>10 DEF Clearing
<1>12. ~clrBusy' => \A s \in Sets : mem'[s] = EmptySet
  <2> SUFFICES ASSUME ~clrBusy', NEW s \in Sets PROVE mem'[s] = EmptySet
    OBVIOUS
  <2>1. clrAddr' = NSets + 1
    BY <1>4, <1>5
  <2>2. s < clrAddr'
    BY <1>6, <2>1 DEF Sets
  <2> QED BY <1>10, <2>2
<1>13. ASSUME ~clrBusy' PROVE Sound(mem') /\ Stored(mem') = {}
  <2>1. \A s \in Sets, w \in Way : mem'[s][w] = <<>>
    BY <1>12, <1>13 DEF EmptySet
  <2>2. mem' \in Memory
    <3>1. mem' = [s \in Sets |-> mem'[s]]
      BY <1>9 DEF Junked
    <3>2. \A s \in Sets : mem'[s] \in [Way -> Cell]
      BY <1>12, <1>13, CellFacts DEF EmptySet
    <3> QED BY <3>1, <3>2 DEF Memory
  <2> QED BY <2>1, <2>2, CellFacts DEF Sound, InItsSet, Once, Stored
<1>14. TableInv'
  BY <1>3, <1>5, <1>11, <1>13 DEF TableInv
<1>15. Held = {} /\ Held' = {}
  <2>1. Held = {}
    BY DEF Held
  <2>2. CASE clrBusy'
    BY <2>1, <2>2 DEF Held
  <2>3. CASE ~clrBusy'
    BY <1>3, <1>13, <2>1, <2>3, HeldIs
  <2> QED BY <2>1, <2>2, <2>3
<1>16. ~Finishes
  BY <1>1 DEF Finishes, Clearing
<1> QED BY <1>3, <1>14, <1>15, <1>16 DEF OutcomeStep

(* ---- once the memory is clear ----                                      *)
LEMMA QuietMemory ==
    ASSUME TableInv, ~clrBusy, NEW presented, TableTick(presented), state \notin {"EXEC", "U_EXEC"}
    PROVE  mem' = mem /\ ~clrBusy' /\ clrBusy' \in BOOLEAN
<1>1. Write = <<>>
  BY DEF Write
<1> QED BY <1>1 DEF TableTick, StepMemory

LEMMA AcceptStep ==
    ASSUME TableInv, ~clrBusy, NEW presented \in Presented, TableTick(presented), state = "IDLE"
    PROVE  TableInv' /\ OutcomeStep
<1>1. Accept(presented)
  BY DEF TableTick, Wait, Look, Exec, LookForReplace, ExecReplace
<1>2. mem' = mem /\ ~clrBusy' /\ clrBusy' \in BOOLEAN
  BY QuietMemory
<1>3. delta' = <<>> /\ overflowCnt' = overflowCnt /\ Sound(mem)
  BY <1>1 DEF Accept, TableInv
<1>4. CASE presented = <<>>
  <2>1. state' = "IDLE"
    BY <1>1, <1>4 DEF Accept
  <2>2. TableInv'
    BY <1>2, <1>3, <2>1 DEF TableInv
  <2>3. Held' = Held
    BY <1>2, <2>1, KeepsHeld
  <2> QED BY <1>3, <2>2, <2>3 DEF OutcomeStep, Finishes
<1>5. CASE presented # <<>>
  <2>1. PICK m \in Messages : presented = <<m>> /\ Allowed(m)
    BY <1>5 DEF Presented
  <2>2. MessageOk(m) /\ (m.type = "U" /\ ReplaceFits => Fits(m.ref, m.newRef))
    BY <2>1, PresentedOk
  <2>3. state' = "LOOK" /\ msg' = m /\ set0' = Hash[m.ref] /\ rdWait' = RdLat
    BY <1>1, <1>5, <2>1 DEF Accept
  <2>4. Latched'
    <3>1. MessageOk(msg)'
      BY <1>2, <2>2, <2>3 DEF MessageOk
    <3>2. Fits(m.ref, m.newRef) => Fits(msg.ref, msg.newRef)'
      BY <1>2, <2>3 DEF Fits
    <3> QED BY <1>2, <2>2, <2>3, <3>1, <3>2 DEF Latched
  <2>5. ReadsSet(set0)'
    BY <2>3, TableAssumption DEF ReadsSet
  <2>6. TableInv'
    BY <1>2, <1>3, <2>3, <2>4, <2>5 DEF TableInv
  <2>7. Held' = Held
    BY <1>2, <2>3, KeepsHeld
  <2> QED BY <1>3, <2>6, <2>7 DEF OutcomeStep, Finishes
<1> QED BY <1>4, <1>5

(* The read advances, whichever set it is of.                              *)
LEMMA ReadAdvances ==
    ASSUME NEW s, NEW presented, TableTick(presented), ReadsSet(s), mem' = mem, rdWait # 0, rdWait' = rdWait - 1,
           s = IF state = "U_LOOK" THEN set1 ELSE set0
    PROVE  rdWait' \in 0..RdLat /\ \A i \in 1..RdLat : i <= RdLat - rdWait' => rdPipe'[i] = mem'[s]
<1>1. rdPipe' = [i \in 1..RdLat |-> IF i > 1 THEN rdPipe[i - 1] ELSE mem[s]]
  BY DEF TableTick, StepMemory
<1>2. rdWait \in 0..RdLat /\ rdWait' \in 0..RdLat /\ RdLat \in Nat \ {0}
  BY TableAssumption DEF ReadsSet
<1> SUFFICES ASSUME NEW i \in 1..RdLat, i <= RdLat - rdWait' PROVE rdPipe'[i] = mem'[s]
  BY <1>2
<1>3. CASE i = 1
  BY <1>1, <1>3
<1>4. CASE i > 1
  <2>1. i - 1 \in 1..RdLat /\ i - 1 <= RdLat - rdWait
    BY <1>2, <1>4
  <2>2. rdPipe[i - 1] = mem[s]
    BY <2>1 DEF ReadsSet
  <2> QED BY <1>1, <1>4, <2>2
<1> QED BY <1>3, <1>4

(* The same message, in the same memory.                                   *)
LEMMA StaysLatched ==
    ASSUME TableInv, state # "IDLE", mem' = mem, ~clrBusy', msg' = msg, set0' = set0,
           state' # "U_EXEC" => state # "U_EXEC"
    PROVE  Latched'
<1>1. Latched
  BY DEF TableInv
<1>2. MessageOk(msg)'
  BY <1>1 DEF Latched, MessageOk
<1>3. Fits(msg.ref, msg.newRef) => Fits(msg.ref, msg.newRef)'
  BY DEF Fits
<1> QED BY <1>1, <1>2, <1>3 DEF Latched

LEMMA WaitStep ==
    ASSUME TableInv, ~clrBusy, NEW presented, TableTick(presented), Wait
    PROVE  TableInv' /\ OutcomeStep
<1>1. state \in {"LOOK", "U_LOOK"} /\ state' = state /\ rdWait # 0 /\ rdWait' = rdWait - 1
      /\ delta' = <<>> /\ UNCHANGED <<msg, set0, set1, sel, old, freeU, overflowCnt>>
  BY DEF Wait
<1>2. mem' = mem /\ ~clrBusy' /\ clrBusy' \in BOOLEAN
  BY <1>1, QuietMemory
<1>3. Latched' /\ Sound(mem)
  BY <1>1, <1>2, StaysLatched DEF TableInv
<1>4. state = "LOOK" => ReadsSet(set0)'
  <2> SUFFICES ASSUME state = "LOOK" PROVE ReadsSet(set0)'
    OBVIOUS
  <2>1. ReadsSet(set0)
    BY DEF TableInv
  <2>2. rdWait' \in 0..RdLat /\ \A i \in 1..RdLat : i <= RdLat - rdWait' => rdPipe'[i] = mem'[set0]
    BY <1>1, <1>2, <2>1, ReadAdvances
  <2> QED BY <1>1, <2>2 DEF ReadsSet
<1>5. state = "U_LOOK" => ReadsSet(set1)' /\ Replacing'
  <2> SUFFICES ASSUME state = "U_LOOK" PROVE ReadsSet(set1)' /\ Replacing'
    OBVIOUS
  <2>1. ReadsSet(set1) /\ Replacing
    BY DEF TableInv
  <2>2. rdWait' \in 0..RdLat /\ \A i \in 1..RdLat : i <= RdLat - rdWait' => rdPipe'[i] = mem'[set1]
    BY <1>1, <1>2, <2>1, ReadAdvances
  <2> QED BY <1>1, <1>2, <2>1, <2>2 DEF ReadsSet, Replacing
<1>6. TableInv'
  BY <1>1, <1>2, <1>3, <1>4, <1>5 DEF TableInv
<1>7. Held' = Held
  BY <1>1, <1>2, KeepsHeld
<1> QED BY <1>1, <1>6, <1>7 DEF OutcomeStep, Finishes

(* ---- what is found in a set ----                                        *)
LEMMA FirstIn == ASSUME NEW S, S \subseteq Way PROVE S # {} => \E w \in S : First(S) = <<w>> /\ Min(S) = w
<1> SUFFICES ASSUME S # {} PROVE \E w \in S : First(S) = <<w>> /\ Min(S) = w
  OBVIOUS
<1>1. S \in SUBSET Nat
  BY Geometry
<1>2. PICK w \in S : \A v \in S : w <= v
  <2>1. PICK w \in S : \A v \in S : ~(<<v, w>> \in OpToRel(<, Nat))
    BY <1>1, NatLessThanWellFounded, WFMin
  <2>2. \A v \in S : ~(v < w)
    BY <1>1, <2>1 DEF OpToRel
  <2> QED BY <1>1, <2>2
<1>3. Min(S) = w
  <2>1. Min(S) = CHOOSE x \in S : \A y \in S : x =< y
    BY DEF Min
  <2>2. \A x \in S : (\A y \in S : x =< y) => x = w
    BY <1>1, <1>2
  <2> QED BY <1>2, <2>1, <2>2
<1> QED BY <1>3 DEF First

LEMMA LookedUp ==
    ASSUME Sound(mem), NEW s \in Sets, rdq = mem[s], NEW r \in Ref, Hash[r] = s
    PROVE  /\ Matches(r) = {} => Absent(r, Stored(mem))
           /\ Matches(r) # {} =>
                \E w \in Way : /\ First(Matches(r)) = <<w>> /\ Min(Matches(r)) = w
                               /\ mem[s][w] = <<Head(rdq[w])>>
                               /\ Head(rdq[w]) \in OrderRec /\ Head(rdq[w]).ref = r
<1>1. \A w \in Way : mem[s][w] \in Cell
  BY DEF Sound, Memory
<1>2. ASSUME Matches(r) = {}, NEW e \in Stored(mem) PROVE e.ref # r
  <2>1. PICK t \in Sets, w \in Way : mem[t][w] = <<e>>
    BY DEF Stored
  <2> SUFFICES ASSUME e.ref = r PROVE FALSE
    OBVIOUS
  <2>2. t = s
    BY <2>1 DEF Sound, InItsSet, Stored
  <2>3. w \in Matches(r)
    <3>1. rdq[w] = <<e>>
      BY <2>1, <2>2
    <3>2. rdq[w] # <<>> /\ Head(rdq[w]) = e
      BY <3>1
    <3> QED BY <3>2 DEF Matches
  <2> QED BY <1>2, <2>3
<1>3. ASSUME Matches(r) # {}
      PROVE  \E w \in Way : /\ First(Matches(r)) = <<w>> /\ Min(Matches(r)) = w
                            /\ mem[s][w] = <<Head(rdq[w])>>
                            /\ Head(rdq[w]) \in OrderRec /\ Head(rdq[w]).ref = r
  <2>1. Matches(r) \subseteq Way
    BY DEF Matches
  <2>2. PICK w \in Matches(r) : First(Matches(r)) = <<w>> /\ Min(Matches(r)) = w
    BY <1>3, <2>1, FirstIn
  <2>3. w \in Way /\ mem[s][w] # <<>> /\ Head(rdq[w]).ref = r
    BY <2>2 DEF Matches
  <2>4. mem[s][w] = <<Head(rdq[w])>> /\ Head(rdq[w]) \in OrderRec
    BY <1>1, <2>3, CellFacts
  <2> QED BY <2>2, <2>3, <2>4
<1>4. Matches(r) = {} => Absent(r, Stored(mem))
  BY <1>2 DEF Absent
<1> QED BY <1>3, <1>4

LEMMA LookStep ==
    ASSUME TableInv, ~clrBusy, NEW presented, TableTick(presented), Look
    PROVE  TableInv' /\ OutcomeStep
<1>1. state = "LOOK" /\ rdWait = 0 /\ state' = "EXEC" /\ delta' = <<>>
      /\ UNCHANGED <<msg, set0, overflowCnt>>
  BY DEF Look
<1>2. mem' = mem /\ ~clrBusy' /\ clrBusy' \in BOOLEAN
  BY <1>1, QuietMemory
<1>3. Latched' /\ Sound(mem) /\ msg.ref \in Ref /\ set0 = Hash[msg.ref] /\ set0 \in Sets
  <2>1. Latched /\ Latched' /\ Sound(mem)
    BY <1>1, <1>2, StaysLatched DEF TableInv
  <2>2. msg.ref \in Ref /\ set0 = Hash[msg.ref]
    BY <2>1 DEF Latched, MessageOk
  <2> QED BY <2>1, <2>2, Geometry
<1>4. rdq = mem[set0]
  <2>1. ReadsSet(set0)
    BY <1>1 DEF TableInv
  <2> QED BY <1>1, <2>1, TableAssumption DEF ReadsSet, rdq
<1>5. FoundEmpty(First(FreeWays), set0)
  <2>1. FreeWays \subseteq Way
    BY DEF FreeWays
  <2>2. CASE FreeWays = {}
    BY <2>2 DEF First, FoundEmpty
  <2>3. CASE FreeWays # {}
    BY <1>4, <2>1, <2>3, FirstIn DEF FreeWays, FoundEmpty
  <2> QED BY <2>2, <2>3
<1>6. Found'
  <2>1. sel'.free = First(FreeWays) /\ sel'.hit = First(Matches(msg.ref))
        /\ (Matches(msg.ref) # {} => sel'.ent = Head(rdq[Min(Matches(msg.ref))]))
    BY DEF Look
  <2>2. CASE Matches(msg.ref) = {}
    <3>1. Absent(msg.ref, Stored(mem)) /\ sel'.hit = <<>>
      BY <1>3, <1>4, <2>1, <2>2, LookedUp DEF First
    <3> QED BY <1>1, <1>2, <1>5, <2>1, <3>1 DEF Found, FoundEmpty
  <2>3. CASE Matches(msg.ref) # {}
    <3>1. PICK w \in Way : /\ sel'.hit = <<w>> /\ sel'.ent = Head(rdq[w])
                           /\ mem[set0][w] = <<sel'.ent>>
                           /\ sel'.ent \in OrderRec /\ sel'.ent.ref = msg.ref
      BY <1>3, <1>4, <2>1, <2>3, LookedUp
    <3> QED BY <1>1, <1>2, <1>5, <2>1, <3>1 DEF Found, FoundEmpty
  <2> QED BY <2>2, <2>3
<1>7. TableInv'
  BY <1>1, <1>2, <1>3, <1>6 DEF TableInv
<1>8. Held' = Held
  BY <1>1, <1>2, KeepsHeld
<1> QED BY <1>1, <1>7, <1>8 DEF OutcomeStep, Finishes

LEMMA LookForReplaceStep ==
    ASSUME TableInv, ~clrBusy, NEW presented, TableTick(presented), LookForReplace
    PROVE  TableInv' /\ OutcomeStep
<1>1. state = "U_LOOK" /\ rdWait = 0 /\ state' = "U_EXEC" /\ delta' = <<>>
      /\ freeU' = First(FreeForReplace) /\ UNCHANGED <<msg, set0, set1, old, overflowCnt>>
  BY DEF LookForReplace
<1>2. mem' = mem /\ ~clrBusy' /\ clrBusy' \in BOOLEAN
  BY <1>1, QuietMemory
<1>3. Latched /\ Sound(mem) /\ Replacing
  BY <1>1 DEF TableInv
<1>4. Latched' /\ Replacing'
  <2>1. MessageOk(msg)'
    BY <1>1, <1>2, <1>3 DEF Latched, MessageOk
  <2> QED BY <1>1, <1>2, <1>3, <2>1 DEF Latched, Replacing
<1>5. rdq = mem[set1]
  <2>1. ReadsSet(set1)
    BY <1>1 DEF TableInv
  <2> QED BY <1>1, <2>1, TableAssumption DEF ReadsSet, rdq
<1>6. \A w \in FreeForReplace : w \in Way /\ mem[set1][w] = <<>>
  BY <1>3, <1>5 DEF FreeForReplace, FreeWays, Replacing
<1>7. FoundEmpty(freeU', set1)
  <2>1. CASE FreeForReplace = {}
    BY <1>1, <2>1 DEF First, FoundEmpty
  <2>2. CASE FreeForReplace # {}
    <3>1. FreeForReplace \subseteq Way
      BY <1>6
    <3> QED BY <1>1, <1>6, <2>2, <3>1, FirstIn DEF FoundEmpty
  <2> QED BY <2>1, <2>2
<1>8. ASSUME ReplaceFits PROVE freeU' # <<>>
  <2>1. Fits(msg.ref, msg.newRef)
    BY <1>1, <1>3, <1>8 DEF Latched, Replacing
  <2>2. set0 = Hash[msg.ref] /\ set1 = Hash[msg.newRef]
    BY <1>3 DEF Latched, Replacing
  <2>3. FreeForReplace # {}
    BY <1>5, <2>1, <2>2 DEF Fits, FreeForReplace, FreeWays
  <2>4. FreeForReplace \subseteq Way
    BY <1>6
  <2> QED BY <1>1, <2>3, <2>4, FirstIn
<1>9. TableInv'
  BY <1>1, <1>2, <1>3, <1>4, <1>7, <1>8 DEF TableInv, FoundEmpty
<1>10. Held' = Held
  BY <1>1, <1>2, KeepsHeld
<1> QED BY <1>1, <1>9, <1>10 DEF OutcomeStep, Finishes
-----------------------------------------------------------------------------
(* ---- the message is done ----                                           *)
LEMMA CountFacts ==
    ASSUME NEW c \in 0..(OvfMod - 1)
    PROVE  /\ Count(c, OvfMod, FALSE) = c
           /\ Count(c, OvfMod, TRUE) \in 0..(OvfMod - 1) /\ Count(c, OvfMod, TRUE) # c
<1>1. OvfMod \in Nat /\ OvfMod > 1
  BY TableAssumption
<1>2. c + 1 < OvfMod => (c + 1) % OvfMod = c + 1
  BY <1>1
<1>3. OvfMod % OvfMod = 0
  BY <1>1
<1>4. c + 1 < OvfMod \/ c + 1 = OvfMod
  BY <1>1
<1> QED BY <1>1, <1>2, <1>3, <1>4 DEF Count

LEMMA Finished ==
    ASSUME ~clrBusy', clrBusy' \in BOOLEAN, state' = "IDLE", Sound(mem'),
           overflowCnt' \in 0..(OvfMod - 1)
    PROVE  TableInv' /\ Held' = Stored(mem')
<1>1. TableInv'
  BY DEF TableInv
<1>2. Held' = Stored(mem')
  BY HeldIs
<1> QED BY <1>1, <1>2

-----------------------------------------------------------------------------
LEMMA ExecStep ==
    ASSUME TableInv, ~clrBusy, NEW presented, TableTick(presented), Exec
    PROVE  TableInv' /\ OutcomeStep
<1> DEFINE H == Stored(mem)
<1>1. state = "EXEC" /\ Latched /\ Found /\ Sound(mem)
  BY DEF Exec, TableInv
<1>2. MessageOk(msg) /\ set0 = Hash[msg.ref] /\ set0 \in Sets /\ msg.ref \in Ref /\ msg.newRef \in Ref
  <2>1. MessageOk(msg) /\ set0 = Hash[msg.ref] /\ msg.ref \in Ref /\ msg.newRef \in Ref
    BY <1>1 DEF Latched, MessageOk
  <2> QED BY <2>1, Geometry
<1>3. OneEach(H) /\ Held = H
  BY <1>1, StoredOnce, HeldIs
<1>4. ~clrBusy' /\ clrBusy' \in BOOLEAN
      /\ mem' = IF Write = <<>> THEN mem ELSE Put(mem, Head(Write).set, Head(Write).way, Head(Write).data)
  BY DEF TableTick, StepMemory, Put
<1>5. overflowCnt \in 0..(OvfMod - 1)
  BY DEF TableInv
<1> DEFINE full == msg.type \in {"A", "F"} /\ Tracked(msg) /\ sel.free = <<>>
<1>6. delta' = ExecDelta /\ overflowCnt' = Count(overflowCnt, OvfMod, full)
  BY DEF Exec
<1>7. /\ full => overflowCnt' \in 0..(OvfMod - 1) /\ overflowCnt' # overflowCnt
      /\ ~full => overflowCnt' = overflowCnt
  <2>1. full = TRUE \/ full = FALSE
    OBVIOUS
  <2> HIDE DEF full
  <2> QED BY <1>5, <1>6, <2>1, CountFacts
<1>8. (msg.type = "U" /\ sel.hit # <<>>) \/ state' = "IDLE"
  BY DEF Exec, Done
<1> HIDE DEF H
<1>9. CASE msg.type \in {"A", "F"} /\ Tracked(msg) /\ sel.free # <<>>
  <2> DEFINE f == Entry(msg.ref, msg.side, msg.price, msg.shares, msg.loc)
  <2>1. PICK w \in Way : sel.free = <<w>> /\ mem[set0][w] = <<>>
    BY <1>1, <1>9 DEF Found, FoundEmpty
  <2>2. f \in OrderRec /\ f.ref = msg.ref /\ Absent(msg.ref, H)
    BY <1>2, <1>9 DEF MessageOk, Entry, OrderRec, Tracked, H
  <2>3. Write = <<[set |-> set0, way |-> w, data |-> <<f>>]>>
    BY <1>1, <1>9, <2>1 DEF Write, Executes
  <2>4. mem' = Put(mem, set0, w, <<f>>)
    BY <1>4, <2>3
  <2>5. Sound(mem') /\ Stored(mem') = H \cup {f}
    <3> HIDE DEF f
    <3> QED BY <1>1, <1>2, <2>1, <2>2, <2>4, PutIn DEF H
  <2>6. TableInv' /\ Held' = H \cup {f}
    BY <1>4, <1>5, <1>7, <1>8, <1>9, <2>5, Finished
  <2>7. delta' = Delta(msg.type, msg.loc, msg.side, <<>>, Level(msg.price, msg.shares), msg.ts)
    BY <1>6, <1>9 DEF ExecDelta, Executes
  <2>8. Adds(msg, H, Held', delta')
    BY <1>9, <2>2, <2>6, <2>7 DEF Tracked, Adds
  <2>9. Finishes /\ ~Drops
    BY <1>1, <1>7, <1>8, <1>9 DEF Finishes, Drops
  <2> QED BY <1>3, <2>6, <2>8, <2>9 DEF OutcomeStep, Outcome
<1>10. CASE msg.type \in Executes /\ sel.hit # <<>>
  <2>1. PICK w \in Way : sel.hit = <<w>> /\ mem[set0][w] = <<sel.ent>>
                         /\ sel.ent \in OrderRec /\ sel.ent.ref = msg.ref
    BY <1>1, <1>10 DEF Found
  <2> DEFINE e == sel.ent
             f == [e EXCEPT !.qty = @ - msg.shares]
  <2>2. e \in H /\ msg.shares \in Nat \ {0} /\ e.qty \in Nat /\ msg.shares \in Int
    BY <1>2, <1>10, <2>1 DEF H, Stored, MessageOk, OrderRec
  <2>3. Write = <<[set |-> set0, way |-> w, data |-> Reduced(e, msg.shares)]>>
    BY <1>1, <1>10, <2>1 DEF Write, Executes
  <2>4. mem' = Put(mem, set0, w, Reduced(e, msg.shares))
    BY <1>4, <2>3
  <2>5. Sound(mem') /\ Stored(mem') = IF e.qty <= msg.shares THEN H \ {e} ELSE (H \ {e}) \cup {f}
    <3>1. CASE e.qty <= msg.shares
      <4>1. Reduced(e, msg.shares) = <<>>
        BY <3>1 DEF Reduced
      <4> QED BY <1>1, <1>2, <2>1, <2>4, <3>1, <4>1, TakeOut DEF H
    <3>2. CASE ~(e.qty <= msg.shares)
      <4>1. Reduced(e, msg.shares) = <<f>>
        BY <3>2 DEF Reduced
      <4>2. f \in OrderRec /\ f.ref = e.ref
        BY <2>1, <2>2, <3>2 DEF OrderRec
      <4> HIDE DEF f
      <4> QED BY <1>1, <1>2, <2>1, <2>4, <3>2, <4>1, <4>2, ChangeIn DEF H
    <3> QED BY <3>1, <3>2
  <2>6. ~full
    BY <1>10 DEF Executes
  <2>7. TableInv' /\ Held' = Stored(mem')
    BY <1>4, <1>5, <1>7, <1>8, <1>10, <2>5, <2>6, Finished DEF Executes
  <2>8. delta' = Delta(msg.type, e.sym, e.side,
                       Level(e.price, IF e.qty < msg.shares THEN e.qty ELSE msg.shares), <<>>, msg.ts)
    BY <1>6, <1>10 DEF ExecDelta, Executes
  <2>9. Reduces(msg, e, H, Held', delta')
    BY <1>10, <2>1, <2>2, <2>5, <2>7, <2>8 DEF Reduces
  <2>10. Finishes /\ ~Drops
    BY <1>1, <1>7, <1>8, <1>10, <2>6 DEF Finishes, Drops, Executes
  <2> QED BY <1>3, <2>2, <2>7, <2>9, <2>10 DEF OutcomeStep, Outcome
<1>11. CASE msg.type = "D" /\ sel.hit # <<>>
  <2>1. PICK w \in Way : sel.hit = <<w>> /\ mem[set0][w] = <<sel.ent>>
                         /\ sel.ent \in OrderRec /\ sel.ent.ref = msg.ref
    BY <1>1, <1>11 DEF Found
  <2> DEFINE e == sel.ent
  <2>2. e \in H
    BY <2>1, <1>2 DEF H, Stored
  <2>3. Write = <<[set |-> set0, way |-> w, data |-> <<>>]>>
    BY <1>1, <1>11, <2>1 DEF Write, Executes
  <2>4. mem' = Put(mem, set0, w, <<>>)
    BY <1>4, <2>3
  <2>5. Sound(mem') /\ Stored(mem') = H \ {e}
    BY <1>1, <1>2, <2>1, <2>4, TakeOut DEF H
  <2>6. TableInv' /\ Held' = H \ {e}
    BY <1>4, <1>5, <1>7, <1>8, <1>11, <2>5, Finished
  <2>7. delta' = Delta("D", e.sym, e.side, Level(e.price, e.qty), <<>>, msg.ts)
    BY <1>6, <1>11 DEF ExecDelta, Executes
  <2>8. Deletes(msg, e, H, Held', delta')
    BY <1>11, <2>1, <2>6, <2>7 DEF Deletes
  <2>9. Finishes /\ ~Drops
    BY <1>1, <1>7, <1>8, <1>11 DEF Finishes, Drops
  <2> QED BY <1>3, <2>2, <2>6, <2>8, <2>9 DEF OutcomeStep, Outcome
<1>12. CASE msg.type = "U" /\ sel.hit # <<>>
  <2>1. PICK w \in Way : sel.hit = <<w>> /\ mem[set0][w] = <<sel.ent>>
                         /\ sel.ent \in OrderRec /\ sel.ent.ref = msg.ref
    BY <1>1, <1>12 DEF Found
  <2> DEFINE e == sel.ent
  <2>2. e \in H
    BY <2>1, <1>2 DEF H, Stored
  <2>3. Write = <<[set |-> set0, way |-> w, data |-> <<>>]>>
    BY <1>1, <1>12, <2>1 DEF Write, Executes
  <2>4. mem' = Put(mem, set0, w, <<>>)
    BY <1>4, <2>3
  <2>5. Sound(mem') /\ Stored(mem') = H \ {e} /\ Absent(msg.ref, H \ {e})
    <3>1. Sound(mem') /\ Stored(mem') = H \ {e}
      BY <1>1, <1>2, <2>1, <2>4, TakeOut DEF H
    <3>2. Absent(e.ref, H \ {e})
      BY <1>3, <2>2, BookShrinks
    <3> QED BY <2>1, <3>1, <3>2
  <2>6. state' = "U_LOOK" /\ old' = [ent |-> e, way |-> w] /\ set1' = Hash[msg.newRef]
        /\ rdWait' = RdLat /\ msg' = msg /\ set0' = set0
    BY <1>12, <2>1 DEF Exec
  <2>7. Absent(msg.newRef, H) /\ msg.newRef # msg.ref
    BY <1>2, <1>12, <2>1, <2>2 DEF MessageOk, Absent, H
  <2>8. \A s \in Sets, v \in Way : mem'[s][v] = IF s = set0 /\ v = w THEN <<>> ELSE mem[s][v]
    BY <1>1, <2>4 DEF Put, Sound, Memory
  <2>9. Latched'
    <3>1. MessageOk(msg)'
      BY <1>2, <1>12, <2>5, <2>6, <2>7 DEF MessageOk, Absent
    <3>2. Fits(msg.ref, msg.newRef) => Fits(msg.ref, msg.newRef)'
      BY <1>2, <2>1, <2>6, <2>8, Geometry DEF Fits
    <3> QED BY <1>1, <1>2, <1>4, <2>6, <3>1, <3>2 DEF Latched
  <2>10. Replacing'
    <3>1. mem'[set0][w] = <<>>
      BY <1>2, <2>8
    <3> QED BY <1>12, <2>1, <2>5, <2>6, <2>7, <3>1 DEF Replacing
  <2>11. ReadsSet(set1)'
    BY <2>6, TableAssumption DEF ReadsSet
  <2>12. ~full
    BY <1>12
  <2>13. TableInv'
    BY <1>4, <1>5, <1>7, <2>5, <2>6, <2>9, <2>10, <2>11, <2>12 DEF TableInv
  <2>14. Held' = Held
    <3>1. Held' = Stored(mem') \cup {e}
      BY <1>4, <2>5, <2>6, HeldIs
    <3> QED BY <1>3, <2>2, <2>5, <3>1
  <2>15. delta' = <<>>
    BY <1>6, <1>12 DEF ExecDelta, Executes
  <2> QED BY <2>6, <2>13, <2>14, <2>15 DEF OutcomeStep, Finishes
<1>13. CASE /\ ~(msg.type \in {"A", "F"} /\ Tracked(msg) /\ sel.free # <<>>)
            /\ ~(msg.type \in Executes \cup {"D", "U"} /\ sel.hit # <<>>)
  <2>1. Write = <<>> /\ delta' = <<>>
    BY <1>1, <1>6, <1>13 DEF Write, ExecDelta, Executes
  <2>2. state' = "IDLE" /\ mem' = mem
    BY <1>4, <1>8, <1>13, <2>1
  <2>3. TableInv' /\ Held' = Stored(mem')
    BY <1>1, <1>4, <1>5, <1>7, <2>2, Finished
  <2>4. Held' = Held
    BY <1>3, <2>2, <2>3 DEF H
  <2>5. full <=> Drops
    BY <1>7 DEF Drops
  <2>6. ~full => Skips(msg, H, Held', delta')
    <3> SUFFICES ASSUME ~full PROVE Skips(msg, H, Held', delta')
      OBVIOUS
    <3>1. Held' = H /\ delta' = <<>>
      BY <1>3, <2>1, <2>4
    <3>2. CASE msg.type \in {"A", "F"}
      BY <1>13, <3>1, <3>2 DEF Tracked, Skips
    <3>3. CASE msg.type \in Executes \cup {"D", "U"}
      BY <1>1, <1>13, <3>1, <3>3 DEF Found, H, Skips
    <3>4. CASE msg.type = "P"
      BY <3>1, <3>4 DEF Skips
    <3> QED BY <1>2, <3>2, <3>3, <3>4 DEF MessageOk, Types, Executes
  <2> QED BY <1>1, <1>3, <2>1, <2>2, <2>3, <2>4, <2>5, <2>6 DEF OutcomeStep, Outcome, Finishes
<1> QED BY <1>9, <1>10, <1>11, <1>12, <1>13

LEMMA ExecReplaceStep ==
    ASSUME TableInv, ~clrBusy, NEW presented, TableTick(presented), ExecReplace
    PROVE  TableInv' /\ (ReplaceFits => OutcomeStep)
<1> DEFINE H == Stored(mem) \cup {old.ent}
           f == Entry(msg.newRef, old.ent.side, msg.price, msg.shares, old.ent.sym)
<1>1. state = "U_EXEC" /\ state' = "IDLE" /\ delta' = ReplaceDelta
      /\ overflowCnt' = Count(overflowCnt, OvfMod, freeU = <<>>)
  BY DEF ExecReplace, Done
<1>2. Latched /\ Replacing /\ Sound(mem) /\ FoundEmpty(freeU, set1) /\ (ReplaceFits => freeU # <<>>)
      /\ overflowCnt \in 0..(OvfMod - 1)
  BY <1>1 DEF TableInv
<1>3. msg.type = "U" /\ msg.ref \in Ref /\ msg.newRef \in Ref /\ msg.price \in Int /\ msg.shares \in Int
      /\ set1 = Hash[msg.newRef] /\ set1 \in Sets /\ Absent(msg.newRef, Stored(mem)) /\ old.ent \in OrderRec
      /\ old.ent.ref = msg.ref /\ msg.newRef # msg.ref /\ Absent(msg.ref, Stored(mem))
  <2>1. MessageOk(msg)
    BY <1>2 DEF Latched
  <2> QED BY <1>2, <2>1, Geometry DEF Replacing, MessageOk
<1>4. Held = H /\ OneEach(H) /\ old.ent \in H /\ H \ {old.ent} = Stored(mem)
  <2>1. Held = H
    BY <1>1, <1>2, HeldIs
  <2>2. OneEach(H)
    BY <1>2, <1>3, StoredOnce, BookGrows
  <2> QED BY <1>3, <2>1, <2>2 DEF Absent
<1>5. f \in OrderRec /\ f.ref = msg.newRef
  <2>1. msg.price \in Price /\ msg.shares \in Nat \ {0}
    BY <1>2, <1>3 DEF Latched, MessageOk
  <2> QED BY <1>3, <2>1 DEF Entry, OrderRec
<1>6. ~clrBusy' /\ clrBusy' \in BOOLEAN
      /\ mem' = IF Write = <<>> THEN mem ELSE Put(mem, Head(Write).set, Head(Write).way, Head(Write).data)
  BY DEF TableTick, StepMemory, Put
<1>7. overflowCnt' \in 0..(OvfMod - 1) /\ (freeU # <<>> => overflowCnt' = overflowCnt)
  <2>1. (freeU = <<>>) = TRUE \/ (freeU = <<>>) = FALSE
    OBVIOUS
  <2> QED BY <1>1, <1>2, <2>1, CountFacts
<1>8. CASE freeU = <<>>
  <2>1. Write = <<>>
    BY <1>1, <1>8 DEF Write
  <2>2. Sound(mem')
    BY <1>2, <1>6, <2>1
  <2> QED BY <1>1, <1>2, <1>6, <1>7, <1>8, <2>2, Finished
<1>9. CASE freeU # <<>>
  <2>1. PICK w \in Way : freeU = <<w>> /\ mem[set1][w] = <<>>
    BY <1>2, <1>9 DEF FoundEmpty
  <2>2. Write = <<[set |-> set1, way |-> w, data |-> <<f>>]>>
    BY <1>1, <1>9, <2>1 DEF Write, Executes
  <2>3. mem' = Put(mem, set1, w, <<f>>)
    BY <1>6, <2>2
  <2>4. Sound(mem') /\ Stored(mem') = Stored(mem) \cup {f}
    <3> HIDE DEF f
    <3> QED BY <1>2, <1>3, <1>5, <2>1, <2>3, PutIn
  <2>5. TableInv' /\ Held' = Stored(mem')
    BY <1>1, <1>6, <1>7, <2>4, Finished
  <2>6. Swaps(msg, old.ent, H, Held', delta')
    <3> DEFINE e == old.ent
    <3>1. delta' = Delta("U", e.sym, e.side, Level(e.price, e.qty), Level(msg.price, msg.shares), msg.ts)
      BY <1>1 DEF ReplaceDelta
    <3>2. Held' = (H \ {e}) \cup {Entry(msg.newRef, e.side, msg.price, msg.shares, e.sym)}
      BY <1>4, <2>4, <2>5
    <3>3. Absent(msg.newRef, H \ {e}) /\ Entry(msg.newRef, e.side, msg.price, msg.shares, e.sym) \in OrderRec
      BY <1>3, <1>4, <1>5
    <3> QED BY <1>3, <3>1, <3>2, <3>3 DEF Swaps
  <2>7. Finishes /\ ~Drops
    BY <1>1, <1>7, <1>9 DEF Finishes, Drops
  <2> QED BY <1>4, <2>5, <2>6, <2>7 DEF OutcomeStep, Outcome
<1> QED BY <1>8, <1>9
-----------------------------------------------------------------------------
(* Every clock keeps the invariant, and is what a message does to the      *)
(* orders or nothing.                                                      *)
LEMMA TableStep ==
    ASSUME TableInv, [Next]_vars
    PROVE  TableInv' /\ (ReplaceFits => OutcomeStep \/ UNCHANGED vars)
<1>1. CASE Next
  <2>1. PICK presented \in Presented : Tick(presented)
    BY <1>1 DEF Next
  <2>2. TableTick(presented)
    BY <2>1 DEF Tick
  <2>3. CASE clrBusy
    BY <2>2, <2>3, ClearStep
  <2>4. CASE ~clrBusy
    <3>1. CASE Accept(presented)
      BY <2>2, <2>4, <3>1, AcceptStep DEF Accept
    <3>2. CASE Wait
      BY <2>2, <2>4, <3>2, WaitStep
    <3>3. CASE Look
      BY <2>2, <2>4, <3>3, LookStep
    <3>4. CASE Exec
      BY <2>2, <2>4, <3>4, ExecStep
    <3>5. CASE LookForReplace
      BY <2>2, <2>4, <3>5, LookForReplaceStep
    <3>6. CASE ExecReplace
      BY <2>2, <2>4, <3>6, ExecReplaceStep
    <3> QED BY <2>2, <3>1, <3>2, <3>3, <3>4, <3>5, <3>6 DEF TableTick
  <2> QED BY <2>3, <2>4
<1>2. CASE UNCHANGED vars
  <2>1. UNCHANGED tableVars
    BY <1>2 DEF vars
  <2>2. TableInv'
    BY <2>1 DEF tableVars, TableInv, Clearing, Latched, Found, Replacing, FoundEmpty, ReadsSet, MessageOk, Fits
  <2> QED BY <1>2, <2>2
<1> QED BY <1>1, <1>2

(* The table stays sound: every order is where its reference hashes to,    *)
(* and once; what a message found is still there when it is stored.        *)
LEMMA TableSound == Spec => []TableInv
<1> QED BY InitTable, TableStep, PTL DEF Spec

-----------------------------------------------------------------------------
(* ---- against dump_book.py ----                                          *)
LEMMA LineIs ==
    ASSUME NEW t, NEW y, NEW side, NEW rem, NEW gain, NEW ts, delta' = Delta(t, y, side, rem, gain, ts)
    PROVE  Line' = <<[type |-> t, sym |-> y, side |-> side, rem |-> rem, add |-> gain]>>
  BY DEF Delta, Line

(* The golden's book is that of the orders held.                           *)
LEMMA GoldenBook ==
    ASSUME NEW H, NEW G, Held = H, Held' = G
    PROVE  TableBook = BookOf(H) /\ TableBook' = BookOf(G)
  BY BookIs

LEMMA SilentIsGolden ==
    ASSUME delta' = <<>>, Held' = Held
    PROVE  Golden!Silent
<1>1. Line' = <<>>
  BY DEF Line
<1>2. TableBook' = TableBook
  BY BookIs
<1> QED BY <1>1, <1>2 DEF Golden!Silent

(* The record of an order that found a way is the line of the golden, and  *)
(* so are those of the other messages.                                     *)
LEMMA AddIsGolden ==
    ASSUME NEW m, m.type \in {"A", "F"}, m.loc \in Sym, NEW H, OneEach(H), Absent(m.ref, H),
           Entry(m.ref, m.side, m.price, m.shares, m.loc) \in OrderRec, Held = H,
           Held' = H \cup {Entry(m.ref, m.side, m.price, m.shares, m.loc)},
           delta' = Delta(m.type, m.loc, m.side, <<>>, Level(m.price, m.shares), m.ts)
    PROVE  Golden!Message(m)
<1> DEFINE f == Entry(m.ref, m.side, m.price, m.shares, m.loc)
<1>1. f.ref = m.ref /\ Resting(f) = [loc |-> m.loc, side |-> m.side, price |-> m.price, qty |-> m.shares]
  BY DEF Entry, Resting
<1>2. BookOf(H \cup {f}) = Golden!With(BookOf(H), m.ref, Resting(f))
  BY <1>1, BookGrows DEF With
<1>3. TableBook' = Golden!With(TableBook, m.ref, Resting(f))
  BY <1>2, GoldenBook
<1>4. Line' = <<[type |-> m.type, sym |-> m.loc, side |-> m.side, rem |-> <<>>,
                 add |-> Level(m.price, m.shares)]>>
  BY LineIs
<1>5. Golden!Add(m)
  BY <1>1, <1>3, <1>4 DEF Golden!Add, Golden!line, Golden!at, Level
<1> QED BY <1>5, Zenon DEF Golden!Message

LEMMA ForgetIs ==
    ASSUME NEW H, OneEach(H), NEW e \in H, NEW r, e.ref = r, TableBook = BookOf(H)
    PROVE  BookOf(H \ {e}) = Golden!Forget(r)
<1>1. BookOf(H \ {e}) = Restrict(BookOf(H), DOMAIN BookOf(H) \ {e.ref})
  BY BookShrinks
<1>2. Golden!Forget(r) = Restrict(TableBook, DOMAIN TableBook \ {r})
  BY DEF Golden!Forget, Golden!Restrict, Restrict
<1> QED BY <1>1, <1>2

LEMMA ReduceIsGolden ==
    ASSUME NEW m, m.type \in Executes, m.shares \in Nat, NEW H, OneEach(H), NEW e \in H, e.ref = m.ref, Held = H,
           Held' = IF e.qty <= m.shares THEN H \ {e}
                   ELSE (H \ {e}) \cup {[e EXCEPT !.qty = @ - m.shares]},
           delta' = Delta(m.type, e.sym, e.side,
                          Level(e.price, IF e.qty < m.shares THEN e.qty ELSE m.shares), <<>>, m.ts)
    PROVE  Golden!Message(m)
<1>1. e \in OrderRec /\ e.qty \in Int
  BY DEF OneEach, OrderRec
<1>2. TableBook = BookOf(H) /\ TableBook' = BookOf(Held')
  BY BookIs
<1>3. m.ref \in DOMAIN TableBook /\ TableBook[m.ref] = Resting(e)
  BY <1>2, BookFacts
<1>4. Line' = <<[type |-> m.type, sym |-> e.sym, side |-> e.side,
                 rem |-> Level(e.price, IF e.qty < m.shares THEN e.qty ELSE m.shares), add |-> <<>>]>>
  BY LineIs
<1>5. (IF e.qty < m.shares THEN e.qty ELSE m.shares) = IF m.shares < e.qty THEN m.shares ELSE e.qty
  BY <1>1
<1>6. TableBook' = IF e.qty - m.shares <= 0 THEN Golden!Forget(m.ref)
                   ELSE [TableBook EXCEPT ![m.ref].qty = @ - m.shares]
  <2>1. CASE e.qty <= m.shares
    <3>1. e.qty - m.shares <= 0
      BY <1>1, <2>1
    <3>2. Held' = H \ {e}
      BY <2>1
    <3>3. TableBook' = Golden!Forget(m.ref)
      BY <1>2, <3>2, ForgetIs
    <3> QED BY <3>1, <3>3
  <2>2. CASE ~(e.qty <= m.shares)
    <3>1. ~(e.qty - m.shares <= 0) /\ e.qty - m.shares \in Int
      BY <1>1, <2>2
    <3>2. BookOf((H \ {e}) \cup {[e EXCEPT !.qty = e.qty - m.shares]})
            = [BookOf(H) EXCEPT ![e.ref].qty = e.qty - m.shares]
      <4>1. PICK q \in Nat \ {0} : q = e.qty - m.shares
        BY <3>1
      <4>2. BookOf((H \ {e}) \cup {[e EXCEPT !.qty = q]}) = [BookOf(H) EXCEPT ![e.ref].qty = q]
        BY BookChanges
      <4> QED BY <4>1, <4>2
    <3>3. TableBook[m.ref].qty = e.qty
      BY <1>3 DEF Resting
    <3>4. [TableBook EXCEPT ![m.ref].qty = @ - m.shares] = [TableBook EXCEPT ![m.ref].qty = e.qty - m.shares]
      BY <1>3, <3>3
    <3>5. [e EXCEPT !.qty = @ - m.shares] = [e EXCEPT !.qty = e.qty - m.shares]
      OBVIOUS
    <3> QED BY <1>2, <2>2, <3>1, <3>2, <3>4, <3>5
  <2> QED BY <2>1, <2>2
<1>7. Golden!Reduce(m)
  BY <1>3, <1>4, <1>5, <1>6 DEF Golden!Reduce, Golden!Known, Golden!line, Golden!at, Level, Resting
<1> QED BY <1>7, Zenon DEF Golden!Message, Executes

LEMMA DeleteIsGolden ==
    ASSUME NEW m, m.type = "D", NEW H, OneEach(H), NEW e \in H, e.ref = m.ref, Held = H, Held' = H \ {e},
           delta' = Delta("D", e.sym, e.side, Level(e.price, e.qty), <<>>, m.ts)
    PROVE  Golden!Message(m)
<1>1. TableBook = BookOf(H) /\ TableBook' = BookOf(H \ {e})
  BY BookIs
<1>2. m.ref \in DOMAIN TableBook /\ TableBook[m.ref] = Resting(e)
  BY <1>1, BookFacts
<1>3. Line' = <<[type |-> "D", sym |-> e.sym, side |-> e.side, rem |-> Level(e.price, e.qty), add |-> <<>>]>>
  BY LineIs
<1>4. TableBook' = Golden!Forget(m.ref)
  BY <1>1, ForgetIs
<1>5. Golden!Delete(m)
  BY <1>2, <1>3, <1>4 DEF Golden!Delete, Golden!Known, Golden!line, Golden!at, Level, Resting
<1> QED BY <1>5, Zenon DEF Golden!Message

LEMMA ReplaceIsGolden ==
    ASSUME NEW m, m.type = "U", NEW H, OneEach(H), NEW e \in H, e.ref = m.ref, Held = H,
           m.newRef # m.ref, Absent(m.newRef, H \ {e}),
           Entry(m.newRef, e.side, m.price, m.shares, e.sym) \in OrderRec,
           Held' = (H \ {e}) \cup {Entry(m.newRef, e.side, m.price, m.shares, e.sym)},
           delta' = Delta("U", e.sym, e.side, Level(e.price, e.qty), Level(m.price, m.shares), m.ts)
    PROVE  Golden!Message(m)
<1> DEFINE f == Entry(m.newRef, e.side, m.price, m.shares, e.sym)
           G == H \ {e}
<1>1. f.ref = m.newRef /\ Resting(f) = [loc |-> e.sym, side |-> e.side, price |-> m.price, qty |-> m.shares]
  BY DEF Entry, Resting
<1>2. OneEach(G)
  BY BookShrinks
<1>3. BookOf(G \cup {f}) = Golden!With(BookOf(G), m.newRef, Resting(f))
  BY <1>1, <1>2, BookGrows DEF With
<1>4. TableBook = BookOf(H) /\ TableBook' = BookOf(G \cup {f})
  BY BookIs
<1>5. m.ref \in DOMAIN TableBook /\ TableBook[m.ref] = Resting(e)
  BY <1>4, BookFacts
<1>6. TableBook' = Golden!With(Golden!Forget(m.ref), m.newRef,
                               [loc |-> e.sym, side |-> e.side, price |-> m.price, qty |-> m.shares])
  <2>1. BookOf(G) = Golden!Forget(m.ref)
    BY <1>4, ForgetIs
  <2> HIDE DEF f, G
  <2> QED BY <1>1, <1>3, <1>4, <1>5, <2>1
<1>7. Line' = <<[type |-> "U", sym |-> e.sym, side |-> e.side, rem |-> Level(e.price, e.qty),
                 add |-> Level(m.price, m.shares)]>>
  BY LineIs
<1>8. Golden!Replace(m)
  BY <1>5, <1>6, <1>7 DEF Golden!Replace, Golden!Known, Golden!line, Golden!at, Level, Resting
<1> QED BY <1>8, Zenon DEF Golden!Message

LEMMA OutcomeIsGolden ==
    ASSUME OutcomeStep
    PROVE  GoldenStep
<1> SUFFICES ASSUME Finishes /\ ~Drops PROVE Golden!Message(msg)
  BY DEF OutcomeStep, GoldenStep
<1> DEFINE H == Held
<1>1. OneEach(H) /\ Outcome(msg, H, Held', delta')
  BY DEF OutcomeStep
<1>2. CASE Adds(msg, H, Held', delta')
  BY <1>1, <1>2, AddIsGolden DEF Adds
<1>3. ASSUME NEW e \in H, Reduces(msg, e, H, Held', delta') PROVE Golden!Message(msg)
  BY <1>1, <1>3, ReduceIsGolden DEF Reduces
<1>4. ASSUME NEW e \in H, Deletes(msg, e, H, Held', delta') PROVE Golden!Message(msg)
  BY <1>1, <1>4, DeleteIsGolden DEF Deletes
<1>5. ASSUME NEW e \in H, Swaps(msg, e, H, Held', delta') PROVE Golden!Message(msg)
  BY <1>1, <1>5, ReplaceIsGolden DEF Swaps
<1>6. CASE Skips(msg, H, Held', delta')
  <2>1. Golden!Silent
    BY <1>6, SilentIsGolden DEF Skips
  <2>2. CASE msg.type \in {"A", "F"} /\ msg.loc \notin Sym
    <3>1. Golden!Add(msg)
      BY <2>1, <2>2 DEF Golden!Add
    <3> QED BY <2>2, <3>1, Zenon DEF Golden!Message
  <2>3. CASE msg.type \in Executes \cup {"D", "U"} /\ Absent(msg.ref, H)
    <3>1. ~Golden!Known(msg.ref)
      BY <1>1, <2>3, BookFacts, BookIs DEF Golden!Known, Absent
    <3>2. Golden!Reduce(msg) /\ Golden!Delete(msg) /\ Golden!Replace(msg)
      BY <2>1, <3>1 DEF Golden!Reduce, Golden!Delete, Golden!Replace
    <3> QED BY <2>3, <3>2, Zenon DEF Golden!Message, Executes
  <2>4. CASE msg.type = "P"
    BY <2>1, <2>4, Zenon DEF Golden!Message
  <2> QED BY <1>6, <2>2, <2>3, <2>4 DEF Skips
<1> QED BY <1>1, <1>2, <1>3, <1>4, <1>5, <1>6 DEF Outcome

(* The table is its software model with the clock cycles taken away        *)
(* (order_table.sv against dump_book.py): every message puts out the line  *)
(* the model prints and leaves the orders the model keeps, for every       *)
(* geometry, hash and read latency, whatever the memory held at power-up.  *)
(* An order that finds its set full is the one exception, and leaves       *)
(* everything as it was.  A replacing order is taken to find a way: the    *)
(* record of one that finds none goes out all the same (order_table.sv,    *)
(* U_EXEC).                                                                *)
THEOREM TableIsTheGolden ==
    ASSUME ReplaceFits
    PROVE  Spec => DeltasAreGolden
<1>1. TableInv /\ [Next]_vars => [GoldenStep]_vars
  BY TableStep, OutcomeIsGolden
<1> QED BY <1>1, TableSound, PTL DEF Spec, DeltasAreGolden, GoldenStep

-----------------------------------------------------------------------------
(* ---- adding up shares: each order counts once, in whatever order ----  *)
LEMMA LeastExists ==
    ASSUME NEW I \in SUBSET Nat, I # {}
    PROVE  \E x \in I : \A y \in I : x <= y
<1>1. PICK x \in I : \A y \in I : ~(<<y, x>> \in OpToRel(<, Nat))
  BY NatLessThanWellFounded, WFMin
<1>2. \A y \in I : ~(y < x)
  BY <1>1 DEF OpToRel
<1> QED BY <1>2

(* ---- adding up shares ----                                              *)
Total(S) == MapThenSumSet(LAMBDA e : e.qty, S)
Some(S)  == CHOOSE x \in S : TRUE
SumsUp(g, D) == g = [s \in D |-> IF s = {} THEN 0 ELSE Some(s).qty + g[s \ {Some(s)}]]

LEMMA TotalIs == \A S : Total(S) = (CHOOSE g : SumsUp(g, SUBSET S))[S]
  BY DEF Total, MapThenSumSet, MapThenFoldSet, SumsUp, Some

UpTo(S, n) == {T \in SUBSET S : Cardinality(T) <= n}

LEMMA SmallerSet ==
    ASSUME NEW S, IsFiniteSet(S), S # {}
    PROVE  /\ Some(S) \in S /\ IsFiniteSet(S \ {Some(S)})
           /\ Cardinality(S) \in Nat \ {0}
           /\ Cardinality(S \ {Some(S)}) = Cardinality(S) - 1
<1>1. Some(S) \in S
  BY DEF Some
<1>2. Cardinality(S) \in Nat /\ Cardinality(S) # 0
  BY FS_CardinalityType, FS_EmptySet
<1> QED BY <1>1, <1>2, FS_RemoveElement

LEMMA SumExists == ASSUME NEW S, IsFiniteSet(S) PROVE \E g : SumsUp(g, SUBSET S)
<1> DEFINE Missing == {n \in Nat : ~\E g : SumsUp(g, UpTo(S, n))}
<1>1. ASSUME NEW T \in SUBSET S
      PROVE  IsFiniteSet(T) /\ Cardinality(T) \in Nat /\ Cardinality(T) <= Cardinality(S)
  BY FS_Subset, FS_CardinalityType
<1>2. Missing = {}
  <2> SUFFICES ASSUME Missing # {} PROVE FALSE
    OBVIOUS
  <2>1. PICK n \in Missing : \A m \in Missing : n <= m
    BY LeastExists
  <2>2. n \in Nat /\ ~\E g : SumsUp(g, UpTo(S, n))
    OBVIOUS
  <2>3. CASE n = 0
    <3> DEFINE g == [s \in UpTo(S, 0) |-> 0]
    <3>1. \A s \in UpTo(S, 0) : s = {}
      BY <1>1, FS_EmptySet DEF UpTo
    <3>2. SumsUp(g, UpTo(S, 0))
      BY <3>1 DEF SumsUp
    <3> QED BY <2>2, <2>3, <3>2
  <2>4. CASE n # 0
    <3>1. n - 1 \in Nat /\ n - 1 \notin Missing
      BY <2>1, <2>2, <2>4
    <3>2. PICK h : SumsUp(h, UpTo(S, n - 1))
      BY <3>1
    <3> DEFINE g == [s \in UpTo(S, n) |-> IF s = {} THEN 0 ELSE Some(s).qty + h[s \ {Some(s)}]]
    <3>3. ASSUME NEW s \in UpTo(S, n), s # {}
          PROVE  h[s \ {Some(s)}] = g[s \ {Some(s)}]
      <4> DEFINE t == s \ {Some(s)}
      <4>1. t \in UpTo(S, n - 1) /\ t \in UpTo(S, n)
        BY <1>1, <2>2, <3>3, SmallerSet DEF UpTo
      <4> HIDE DEF t
      <4>2. h[t] = IF t = {} THEN 0 ELSE Some(t).qty + h[t \ {Some(t)}]
        BY <3>2, <4>1 DEF SumsUp
      <4> QED BY <4>1, <4>2 DEF t
    <3>4. SumsUp(g, UpTo(S, n))
      BY <3>3 DEF SumsUp
    <3> QED BY <2>2, <3>4
  <2> QED BY <2>3, <2>4
<1>3. Cardinality(S) \in Nat /\ UpTo(S, Cardinality(S)) = SUBSET S
  BY <1>1 DEF UpTo
<1>4. \E g : SumsUp(g, UpTo(S, Cardinality(S)))
  BY <1>2, <1>3
<1> QED BY <1>3, <1>4

LEMMA SumUnique ==
    ASSUME NEW S, IsFiniteSet(S), NEW T, T \in SUBSET S, NEW g, NEW h,
           SumsUp(g, SUBSET S), SumsUp(h, SUBSET T)
    PROVE  g[T] = h[T]
<1> DEFINE Bad == {n \in Nat : \E U \in SUBSET T : Cardinality(U) = n /\ g[U] # h[U]}
<1>1. \A U \in SUBSET T : IsFiniteSet(U) /\ Cardinality(U) \in Nat /\ U \in SUBSET S
  BY FS_Subset, FS_CardinalityType
<1>2. Bad = {}
  <2> SUFFICES ASSUME Bad # {} PROVE FALSE
    OBVIOUS
  <2>1. PICK n \in Bad : \A m \in Bad : n <= m
    BY LeastExists
  <2>2. PICK U \in SUBSET T : Cardinality(U) = n /\ g[U] # h[U]
    OBVIOUS
  <2>3. /\ g[U] = IF U = {} THEN 0 ELSE Some(U).qty + g[U \ {Some(U)}]
        /\ h[U] = IF U = {} THEN 0 ELSE Some(U).qty + h[U \ {Some(U)}]
    BY <1>1 DEF SumsUp
  <2> DEFINE V == U \ {Some(U)}
  <2>4. U # {} /\ g[V] # h[V]
    BY <2>2, <2>3
  <2>5. V \in SUBSET T /\ Cardinality(V) = n - 1 /\ n - 1 \in Nat
    BY <1>1, <2>2, <2>4, SmallerSet
  <2>6. n - 1 \in Bad
    BY <2>4, <2>5
  <2> QED BY <2>1, <2>5, <2>6
<1>3. T \in SUBSET T
  OBVIOUS
<1> QED BY <1>1, <1>2, <1>3

(* Nothing adds up to nothing; any set, to one of its orders and the rest. *)
LEMMA TotalUnfolds ==
    ASSUME NEW S, IsFiniteSet(S)
    PROVE  Total(S) = IF S = {} THEN 0 ELSE Some(S).qty + Total(S \ {Some(S)})
<1> DEFINE T == S \ {Some(S)}
<1>1. IsFiniteSet(T) /\ T \in SUBSET S /\ T \in SUBSET T
  BY FS_Subset
<1> HIDE DEF T
<1>2. PICK g : SumsUp(g, SUBSET S) /\ Total(S) = g[S]
  BY SumExists, TotalIs
<1>3. PICK h : SumsUp(h, SUBSET T) /\ Total(T) = h[T]
  BY <1>1, SumExists, TotalIs
<1>4. g[T] = h[T]
  BY <1>1, <1>2, <1>3, SumUnique
<1>5. g[S] = IF S = {} THEN 0 ELSE Some(S).qty + g[T]
  BY <1>2 DEF SumsUp, T
<1> QED BY <1>2, <1>3, <1>4, <1>5 DEF T

LEMMA TotalType ==
    ASSUME NEW K, K = Int \/ K = Nat, NEW S, IsFiniteSet(S), \A e \in S : e.qty \in K
    PROVE  Total(S) \in K
<1> DEFINE Bad == {n \in Nat : \E U \in SUBSET S : Cardinality(U) = n /\ Total(U) \notin K}
<1>1. \A U \in SUBSET S : IsFiniteSet(U) /\ Cardinality(U) \in Nat
  BY FS_Subset, FS_CardinalityType
<1>2. Bad = {}
  <2> SUFFICES ASSUME Bad # {} PROVE FALSE
    OBVIOUS
  <2>1. PICK n \in Bad : \A m \in Bad : n <= m
    BY LeastExists
  <2>2. PICK U \in SUBSET S : Cardinality(U) = n /\ Total(U) \notin K
    OBVIOUS
  <2> DEFINE V == U \ {Some(U)}
  <2>3. Total(U) = IF U = {} THEN 0 ELSE Some(U).qty + Total(V)
    BY <1>1, TotalUnfolds
  <2>4. U # {}
    BY <2>2, <2>3
  <2>5. Some(U) \in S /\ V \in SUBSET S /\ Cardinality(V) = n - 1 /\ n - 1 \in Nat
    BY <1>1, <2>2, <2>4, SmallerSet
  <2>6. Total(V) \in K
    BY <2>1, <2>5
  <2> HIDE DEF V
  <2>7. Some(U).qty \in K
    BY <2>5
  <2> QED BY <2>2, <2>3, <2>4, <2>6, <2>7
<1> QED BY <1>1, <1>2

(* Which one is taken out first does not matter.                           *)
LEMMA TotalOfRest ==
    ASSUME NEW S, IsFiniteSet(S), \A e \in S : e.qty \in Int, NEW d \in S
    PROVE  Total(S \ {d}) = Total(S) - d.qty
<1> DEFINE Bad == {n \in Nat : \E U \in SUBSET S, c \in S :
                     Cardinality(U) = n /\ c \in U /\ Total(U) # c.qty + Total(U \ {c})}
<1>1. \A U \in SUBSET S : IsFiniteSet(U) /\ Cardinality(U) \in Nat /\ Total(U) \in Int
  BY FS_Subset, FS_CardinalityType, TotalType
<1>2. Bad = {}
  <2> SUFFICES ASSUME Bad # {} PROVE FALSE
    OBVIOUS
  <2>1. PICK n \in Bad : \A m \in Bad : n <= m
    BY LeastExists
  <2>2. PICK U \in SUBSET S, c \in S : Cardinality(U) = n /\ c \in U /\ Total(U) # c.qty + Total(U \ {c})
    OBVIOUS
  <2> DEFINE x == Some(U)
             V == U \ {x}
             W == U \ {c}
  <2>3. x \in U /\ V \in SUBSET S /\ W \in SUBSET S /\ Cardinality(V) = n - 1 /\ n - 1 \in Nat
        /\ Cardinality(W) = n - 1
    BY <1>1, <2>2, SmallerSet, FS_RemoveElement
  <2>4. Total(U) = x.qty + Total(V)
    BY <1>1, <2>2, TotalUnfolds
  <2>5. c # x
    BY <2>2, <2>4
  <2>6. \A Y \in SUBSET S, b \in S : Cardinality(Y) = n - 1 /\ b \in Y => Total(Y) = b.qty + Total(Y \ {b})
    <3> SUFFICES ASSUME NEW Y \in SUBSET S, NEW b \in S, Cardinality(Y) = n - 1, b \in Y,
                        Total(Y) # b.qty + Total(Y \ {b})
                 PROVE  FALSE
      OBVIOUS
    <3>1. n - 1 \in Bad
      BY <2>3
    <3>2. n \in Nat
      OBVIOUS
    <3> HIDE DEF Bad
    <3>3. n <= n - 1
      BY <2>1, <3>1
    <3> QED BY <3>2, <3>3
  <2>7. Total(V) = c.qty + Total(V \ {c})
    BY <2>2, <2>3, <2>5, <2>6
  <2>8. Total(W) = x.qty + Total(W \ {x})
    BY <2>2, <2>3, <2>5, <2>6
  <2>9. V \ {c} = W \ {x} /\ V \ {c} \in SUBSET S
    BY <2>3
  <2>10. c.qty \in Int /\ x.qty \in Int /\ Total(V \ {c}) \in Int
    BY <1>1, <2>2, <2>3, <2>9
  <2> HIDE DEF x, V, W
  <2>11. \A a, b, z \in Int : a + (b + z) = b + (a + z)
    OBVIOUS
  <2>12. Total(U) = c.qty + Total(W)
    <3>1. Total(U) = x.qty + (c.qty + Total(V \ {c}))
      BY <2>4, <2>7
    <3>2. c.qty + Total(W) = c.qty + (x.qty + Total(V \ {c}))
      BY <2>8, <2>9
    <3> QED BY <2>10, <2>11, <3>1, <3>2, Zenon
  <2> QED BY <2>2, <2>12 DEF W
<1>3. Total(S) = d.qty + Total(S \ {d})
  BY <1>1, <1>2
<1>4. d.qty \in Int /\ Total(S) \in Int /\ Total(S \ {d}) \in Int
  BY <1>1
<1> QED BY <1>3, <1>4

LEMMA TotalWithOne ==
    ASSUME NEW S, IsFiniteSet(S), \A e \in S : e.qty \in Int, NEW d, d \notin S, d.qty \in Int
    PROVE  Total(S \cup {d}) = Total(S) + d.qty
<1> DEFINE T == S \cup {d}
<1>1. IsFiniteSet(T) /\ (\A e \in T : e.qty \in Int) /\ d \in T /\ T \ {d} = S
  BY FS_AddElement
<1>2. Total(T) \in Int /\ Total(S) \in Int
  BY <1>1, TotalType
<1> HIDE DEF T
<1>3. Total(S) = Total(T) - d.qty
  BY <1>1, TotalOfRest
<1> QED BY <1>2, <1>3 DEF T

(* ---- what rests at a price, and what a record moves there ----          *)
Here(H, s, d, p)  == {x \in H : x.sym = s /\ x.side = d /\ x.price = p}
Share(e, s, d, p) == IF e.sym = s /\ e.side = d /\ e.price = p THEN e.qty ELSE 0

Levels == {<<>>} \cup {Level(p, q) : p \in Price, q \in Int}
Volume(l, p) == IF l = <<>> THEN 0 ELSE IF Head(l).price = p THEN Head(l).qty ELSE 0
Change(D, s, d, p) ==
    IF D = <<>> THEN 0
    ELSE IF Head(D).sym = s /\ Head(D).side = d
         THEN Volume(Head(D).add, p) - Volume(Head(D).rem, p) ELSE 0

Record(D) == /\ D # <<>> /\ Head(D).sym \in Sym /\ Head(D).side \in Side
             /\ Head(D).add \in Levels /\ Head(D).rem \in Levels

(* The record D, or none, is what takes the orders H to the orders G.      *)
Accounts(H, G, D) ==
    IF D = <<>> THEN G = H
    ELSE Record(D) /\ (IsFiniteSet(H) =>
            /\ IsFiniteSet(G)
            /\ \A s \in Sym, d \in Side, p \in Price :
                  Total(Here(G, s, d, p)) = Total(Here(H, s, d, p)) + Change(D, s, d, p))

LEMMA HereTotal ==
    ASSUME NEW H, H \subseteq OrderRec, IsFiniteSet(H), NEW s, NEW d, NEW p
    PROVE  IsFiniteSet(Here(H, s, d, p)) /\ Total(Here(H, s, d, p)) \in Int
           /\ \A e \in Here(H, s, d, p) : e.qty \in Int
<1>1. IsFiniteSet(Here(H, s, d, p)) /\ \A e \in Here(H, s, d, p) : e.qty \in Int
  BY FS_Subset DEF Here, OrderRec
<1> QED BY <1>1, TotalType

LEMMA HereWith ==
    ASSUME NEW H, H \subseteq OrderRec, IsFiniteSet(H), NEW f \in OrderRec, f \notin H,
           NEW s, NEW d, NEW p
    PROVE  Total(Here(H \cup {f}, s, d, p)) = Total(Here(H, s, d, p)) + Share(f, s, d, p)
<1> DEFINE S == Here(H, s, d, p)
<1>1. IsFiniteSet(S) /\ Total(S) \in Int /\ (\A e \in S : e.qty \in Int) /\ f \notin S /\ f.qty \in Int
  <2>1. IsFiniteSet(S) /\ Total(S) \in Int /\ \A e \in S : e.qty \in Int
    BY HereTotal
  <2>2. f \notin S /\ f.qty \in Int
    BY DEF Here, OrderRec
  <2> QED BY <2>1, <2>2
<1>2. Here(H \cup {f}, s, d, p) = IF f.sym = s /\ f.side = d /\ f.price = p THEN S \cup {f} ELSE S
  BY DEF Here
<1> HIDE DEF S
<1> QED BY <1>1, <1>2, TotalWithOne DEF Share, S

LEMMA HereWithout ==
    ASSUME NEW H, H \subseteq OrderRec, IsFiniteSet(H), NEW e \in H, NEW s, NEW d, NEW p
    PROVE  Total(Here(H \ {e}, s, d, p)) = Total(Here(H, s, d, p)) - Share(e, s, d, p)
<1> DEFINE S == Here(H, s, d, p)
<1>1. IsFiniteSet(S) /\ Total(S) \in Int /\ (\A x \in S : x.qty \in Int) /\ e.qty \in Int
  <2>1. IsFiniteSet(S) /\ Total(S) \in Int /\ \A x \in S : x.qty \in Int
    BY HereTotal
  <2>2. e.qty \in Int
    BY DEF OrderRec
  <2> QED BY <2>1, <2>2
<1>2. Here(H \ {e}, s, d, p) = IF e.sym = s /\ e.side = d /\ e.price = p THEN S \ {e} ELSE S
  BY DEF Here
<1>3. e.sym = s /\ e.side = d /\ e.price = p => e \in S
  BY DEF Here
<1> HIDE DEF S
<1> QED BY <1>1, <1>2, <1>3, TotalOfRest DEF Share, S

(* What Moved makes of the levels.                                         *)
Ladders == [Sym -> [Side -> [Price -> Int]]]

LEMMA MovedIs ==
    ASSUME NEW lev \in Ladders, NEW D, Record(D)
    PROVE  /\ Moved(lev, Head(D)) \in Ladders
           /\ \A s \in Sym, d \in Side, p \in Price :
                 Moved(lev, Head(D))[s][d][p] = lev[s][d][p] + Change(D, s, d, p)
<1>1. PICK y \in Sym, z \in Side, rem \in Levels, gain \in Levels :
        Head(D).sym = y /\ Head(D).side = z /\ Head(D).rem = rem /\ Head(D).add = gain
  BY DEF Record
<1>2. Head(D).sym = y /\ Head(D).side = z /\ Head(D).rem = rem /\ Head(D).add = gain
  BY <1>1
<1> DEFINE Pair(l) == IF l = <<>> THEN <<0, 0>> ELSE <<Head(l).price, Head(l).qty>>
           row     == [p \in Price |-> lev[y][z][p] + Volume(gain, p) - Volume(rem, p)]
<1>3. ASSUME NEW l \in Levels, NEW p
      PROVE  Volume(l, p) \in Int /\ (IF p = Pair(l)[1] THEN Pair(l)[2] ELSE 0) = Volume(l, p)
  BY DEF Levels, Level, Volume
<1>4. Moved(lev, Head(D)) = [lev EXCEPT ![y][z] = row]
  <2>1. Moved(lev, Head(D)) = [lev EXCEPT ![y][z] =
            [p \in Price |-> lev[y][z][p] + (IF p = Pair(gain)[1] THEN Pair(gain)[2] ELSE 0)
                                         - (IF p = Pair(rem)[1] THEN Pair(rem)[2] ELSE 0)]]
    BY <1>2, Zenon DEF Moved
  <2> HIDE DEF Pair
  <2>2. [p \in Price |-> lev[y][z][p] + (IF p = Pair(gain)[1] THEN Pair(gain)[2] ELSE 0)
                                     - (IF p = Pair(rem)[1] THEN Pair(rem)[2] ELSE 0)] = row
    BY <1>3
  <2> QED BY <2>1, <2>2
<1>5. row \in [Price -> Int]
  BY <1>3 DEF Ladders
<1>6. Moved(lev, Head(D)) \in Ladders
  <2> HIDE DEF row
  <2>1. \A R : lev \in [Sym -> [Side -> R]] /\ row \in R => [lev EXCEPT ![y][z] = row] \in [Sym -> [Side -> R]]
    OBVIOUS
  <2> QED BY <1>4, <1>5, <2>1 DEF Ladders
<1>7. ASSUME NEW s \in Sym, NEW d \in Side, NEW p \in Price
      PROVE  Moved(lev, Head(D))[s][d][p] = lev[s][d][p] + Change(D, s, d, p)
  <2>1. lev[s][d][p] \in Int
    BY DEF Ladders
  <2>2. Volume(gain, p) \in Int /\ Volume(rem, p) \in Int
    BY <1>3
  <2>3. Change(D, s, d, p) = IF y = s /\ z = d THEN Volume(gain, p) - Volume(rem, p) ELSE 0
    BY <1>2 DEF Change, Record
  <2>4. CASE y = s /\ z = d
    <3>1. Moved(lev, Head(D))[s][d] = row
      <4> HIDE DEF row
      <4> QED BY <1>4, <2>4 DEF Ladders
    <3> QED BY <2>1, <2>2, <2>3, <2>4, <3>1
  <2>5. CASE ~(y = s /\ z = d)
    <3>1. Moved(lev, Head(D))[s][d] = lev[s][d]
      <4> HIDE DEF row
      <4> QED BY <1>4, <2>5 DEF Ladders
    <3> QED BY <2>1, <2>3, <2>5, <3>1
  <2> QED BY <2>4, <2>5
<1> QED BY <1>6, <1>7

LEMMA RecordIs ==
    ASSUME NEW t, NEW y \in Sym, NEW d \in Side, NEW rem \in Levels, NEW gain \in Levels,
           NEW ts, NEW D, D = Delta(t, y, d, rem, gain, ts)
    PROVE  /\ Record(D)
           /\ \A s, z, p : Change(D, s, z, p) =
                IF y = s /\ d = z THEN Volume(gain, p) - Volume(rem, p) ELSE 0
<1>1. D # <<>> /\ Head(D).sym = y /\ Head(D).side = d /\ Head(D).rem = rem /\ Head(D).add = gain
  BY DEF Delta
<1> QED BY <1>1 DEF Record, Change

LEMMA SumIsTotal ==
    LadderSumsOrders <=> \A s \in Sym, d \in Side, p \in Price :
                           LevelsAfter[s][d][p] = Total(Here(Held, s, d, p))
  BY DEF LadderSumsOrders, Total, Here

LEMMA OrderIs ==
    ASSUME NEW e \in OrderRec
    PROVE  e.sym \in Sym /\ e.side \in Side /\ e.price \in Price /\ e.qty \in Int
  BY DEF OrderRec

LEMMA LevelHas ==
    ASSUME NEW x \in Price, NEW q \in Int
    PROVE  Level(x, q) \in Levels /\ \A p : Volume(Level(x, q), p) = IF x = p THEN q ELSE 0
<1>1. Level(x, q) # <<>> /\ Head(Level(x, q)).price = x /\ Head(Level(x, q)).qty = q
  BY DEF Level
<1> QED BY <1>1 DEF Levels, Volume

LEMMA NoLevel == <<>> \in Levels /\ \A p : Volume(<<>>, p) = 0
  BY DEF Levels, Volume

LEMMA AddAccounts ==
    ASSUME NEW H, H \subseteq OrderRec, NEW f \in OrderRec, f \notin H, NEW t, NEW ts,
           NEW D, D = Delta(t, f.sym, f.side, <<>>, Level(f.price, f.qty), ts)
    PROVE  Accounts(H, H \cup {f}, D)
<1>1. f.sym \in Sym /\ f.side \in Side /\ f.price \in Price /\ f.qty \in Int
  BY OrderIs
<1>2. /\ Level(f.price, f.qty) \in Levels
      /\ \A p : Volume(Level(f.price, f.qty), p) = IF f.price = p THEN f.qty ELSE 0
  BY <1>1, LevelHas
<1>3. Record(D) /\ \A s, z, p : Change(D, s, z, p) =
                      IF f.sym = s /\ f.side = z
                      THEN Volume(Level(f.price, f.qty), p) - Volume(<<>>, p) ELSE 0
  BY <1>1, <1>2, NoLevel, RecordIs
<1>4. \A s, z, p : Change(D, s, z, p) = Share(f, s, z, p)
  BY <1>1, <1>2, <1>3, NoLevel DEF Share
<1> QED BY <1>3, <1>4, HereWith, FS_AddElement DEF Accounts, Record

LEMMA TakeAccounts ==
    ASSUME NEW H, H \subseteq OrderRec, NEW e \in H, NEW t, NEW ts,
           NEW D, D = Delta(t, e.sym, e.side, Level(e.price, e.qty), <<>>, ts)
    PROVE  Accounts(H, H \ {e}, D)
<1>1. e.sym \in Sym /\ e.side \in Side /\ e.price \in Price /\ e.qty \in Int
  BY OrderIs
<1>2. /\ Level(e.price, e.qty) \in Levels
      /\ \A p : Volume(Level(e.price, e.qty), p) = IF e.price = p THEN e.qty ELSE 0
  BY <1>1, LevelHas
<1>3. Record(D) /\ \A s, z, p : Change(D, s, z, p) =
                      IF e.sym = s /\ e.side = z
                      THEN Volume(<<>>, p) - Volume(Level(e.price, e.qty), p) ELSE 0
  BY <1>1, <1>2, NoLevel, RecordIs
<1>4. \A s, z, p : Change(D, s, z, p) = 0 - Share(e, s, z, p)
  BY <1>1, <1>2, <1>3, NoLevel DEF Share
<1>5. ASSUME IsFiniteSet(H), NEW s \in Sym, NEW z \in Side, NEW p \in Price
      PROVE  Total(Here(H \ {e}, s, z, p)) = Total(Here(H, s, z, p)) + Change(D, s, z, p)
  <2>1. Total(Here(H \ {e}, s, z, p)) = Total(Here(H, s, z, p)) - Share(e, s, z, p)
    BY <1>5, HereWithout
  <2>2. Total(Here(H, s, z, p)) \in Int /\ Share(e, s, z, p) \in Int
    BY <1>1, <1>5, HereTotal DEF Share
  <2> QED BY <1>4, <2>1, <2>2
<1> QED BY <1>3, <1>5, FS_RemoveElement DEF Accounts, Record

(* An order taken out and another put in, in one record.                   *)
LEMMA SwapAccounts ==
    ASSUME NEW H, H \subseteq OrderRec, NEW e \in H, NEW f \in OrderRec, f \notin H \ {e},
           NEW D, Record(D),
           \A s, z, p : Change(D, s, z, p) = Share(f, s, z, p) - Share(e, s, z, p)
    PROVE  Accounts(H, (H \ {e}) \cup {f}, D)
<1> DEFINE G == H \ {e}
<1>1. ASSUME IsFiniteSet(H) PROVE IsFiniteSet(G) /\ IsFiniteSet(G \cup {f})
  BY <1>1, FS_AddElement, FS_RemoveElement
<1>2. ASSUME IsFiniteSet(H), NEW s \in Sym, NEW z \in Side, NEW p \in Price
      PROVE  Total(Here(G \cup {f}, s, z, p)) = Total(Here(H, s, z, p)) + Change(D, s, z, p)
  <2>1. Total(Here(G, s, z, p)) = Total(Here(H, s, z, p)) - Share(e, s, z, p)
    BY <1>2, HereWithout
  <2>2. Total(Here(G \cup {f}, s, z, p)) = Total(Here(G, s, z, p)) + Share(f, s, z, p)
    <3>1. IsFiniteSet(G) /\ G \subseteq OrderRec /\ f \notin G
      BY <1>1, <1>2
    <3> HIDE DEF G
    <3> QED BY <3>1, HereWith
  <2>3. Total(Here(H, s, z, p)) \in Int /\ Share(e, s, z, p) \in Int /\ Share(f, s, z, p) \in Int
    BY <1>2, HereTotal, OrderIs DEF Share
  <2> HIDE DEF G
  <2> QED BY <2>1, <2>2, <2>3
<1> QED BY <1>1, <1>2 DEF Accounts, Record

LEMMA ReduceAccounts ==
    ASSUME NEW H, OneEach(H), NEW e \in H, NEW n \in Nat, NEW t, NEW ts,
           NEW D, D = Delta(t, e.sym, e.side, Level(e.price, IF e.qty < n THEN e.qty ELSE n), <<>>, ts),
           NEW G, G = IF e.qty <= n THEN H \ {e} ELSE (H \ {e}) \cup {[e EXCEPT !.qty = @ - n]}
    PROVE  Accounts(H, G, D)
<1>1. H \subseteq OrderRec /\ e \in OrderRec /\ e.qty \in Int
  BY DEF OneEach, OrderRec
<1>2. CASE e.qty <= n
  <2>1. (IF e.qty < n THEN e.qty ELSE n) = e.qty
    BY <1>1, <1>2
  <2> QED BY <1>1, <1>2, <2>1, TakeAccounts
<1>3. CASE ~(e.qty <= n)
  <2> DEFINE f == [e EXCEPT !.qty = @ - n]
  <2>1. (IF e.qty < n THEN e.qty ELSE n) = n
    BY <1>1, <1>3
  <2>2. f \in OrderRec /\ f.ref = e.ref /\ f.qty = e.qty - n
        /\ f.sym = e.sym /\ f.side = e.side /\ f.price = e.price
    BY <1>1, <1>3 DEF OrderRec
  <2>3. f \notin H \ {e}
    BY <2>2 DEF OneEach
  <2>4. e.sym \in Sym /\ e.side \in Side /\ e.price \in Price /\ n \in Int
    BY <1>1, OrderIs
  <2>5. /\ Level(e.price, n) \in Levels
        /\ \A p : Volume(Level(e.price, n), p) = IF e.price = p THEN n ELSE 0
    BY <2>4, LevelHas
  <2>6. Record(D) /\ \A s, z, p : Change(D, s, z, p) =
                        IF e.sym = s /\ e.side = z THEN Volume(<<>>, p) - Volume(Level(e.price, n), p) ELSE 0
    BY <2>1, <2>4, <2>5, NoLevel, RecordIs
  <2>7. \A s, z, p : Change(D, s, z, p) = Share(f, s, z, p) - Share(e, s, z, p)
    <3> HIDE DEF f
    <3>1. \A p : Volume(<<>>, p) - Volume(Level(e.price, n), p) = IF e.price = p THEN 0 - n ELSE 0
      BY <2>5, NoLevel
    <3>2. \A s, z, p : Share(f, s, z, p) - Share(e, s, z, p)
                         = IF e.sym = s /\ e.side = z /\ e.price = p THEN 0 - n ELSE 0
      BY <1>1, <2>2 DEF Share
    <3> QED BY <2>6, <3>1, <3>2
  <2> HIDE DEF f
  <2>8. Accounts(H, (H \ {e}) \cup {f}, D)
    BY <1>1, <2>2, <2>3, <2>6, <2>7, SwapAccounts
  <2> QED BY <1>3, <2>8 DEF f
<1> QED BY <1>2, <1>3

LEMMA ReplaceAccounts ==
    ASSUME NEW H, OneEach(H), NEW e \in H, NEW f \in OrderRec, f.sym = e.sym, f.side = e.side,
           Absent(f.ref, H \ {e}), NEW t, NEW ts,
           NEW D, D = Delta(t, e.sym, e.side, Level(e.price, e.qty), Level(f.price, f.qty), ts)
    PROVE  Accounts(H, (H \ {e}) \cup {f}, D)
<1>1. H \subseteq OrderRec /\ e \in OrderRec /\ e.qty \in Int /\ f.qty \in Int /\ f \notin H \ {e}
  BY DEF OneEach, OrderRec, Absent
<1>2. e.sym \in Sym /\ e.side \in Side /\ e.price \in Price /\ f.price \in Price
  BY <1>1, OrderIs
<1>3. Level(e.price, e.qty) \in Levels /\ Level(f.price, f.qty) \in Levels
      /\ (\A p : Volume(Level(e.price, e.qty), p) = IF e.price = p THEN e.qty ELSE 0)
      /\ (\A p : Volume(Level(f.price, f.qty), p) = IF f.price = p THEN f.qty ELSE 0)
  BY <1>1, <1>2, LevelHas
<1>4. Record(D) /\ \A s, z, p : Change(D, s, z, p) =
                      IF e.sym = s /\ e.side = z
                      THEN Volume(Level(f.price, f.qty), p) - Volume(Level(e.price, e.qty), p) ELSE 0
  BY <1>2, <1>3, RecordIs
<1>5. \A s, z, p : Change(D, s, z, p) = Share(f, s, z, p) - Share(e, s, z, p)
  BY <1>1, <1>3, <1>4 DEF Share
<1> QED BY <1>1, <1>4, <1>5, SwapAccounts

Moves == Accounts(Held, Held', delta')

LEMMA OutcomeMoves ==
    ASSUME OutcomeStep
    PROVE  Moves
<1>1. CASE delta' = <<>> /\ Held' = Held
  BY <1>1 DEF Moves, Accounts
<1>2. CASE OneEach(Held) /\ Outcome(msg, Held, Held', delta')
  <2> DEFINE H == Held
             G == Held'
             D == delta'
             m == msg
  <2>1. H \subseteq OrderRec /\ OneEach(H) /\ Outcome(m, H, G, D)
    BY <1>2 DEF OneEach
  <2> HIDE DEF H, G, D, m
  <2>2. ASSUME Adds(m, H, G, D) PROVE Accounts(H, G, D)
    <3> DEFINE f == Entry(m.ref, m.side, m.price, m.shares, m.loc)
    <3>1. f.ref = m.ref /\ f.sym = m.loc /\ f.side = m.side /\ f.price = m.price /\ f.qty = m.shares
      BY DEF Entry
    <3>2. f \in OrderRec /\ f \notin H /\ G = H \cup {f}
      BY <2>2, <3>1 DEF Adds, Absent
    <3>3. D = Delta(m.type, f.sym, f.side, <<>>, Level(f.price, f.qty), m.ts)
      BY <2>2, <3>1 DEF Adds
    <3> HIDE DEF f
    <3> QED BY <2>1, <3>2, <3>3, AddAccounts
  <2>3. ASSUME NEW e \in H, Reduces(m, e, H, G, D) PROVE Accounts(H, G, D)
    <3>1. /\ m.shares \in Nat
          /\ D = Delta(m.type, e.sym, e.side,
                       Level(e.price, IF e.qty < m.shares THEN e.qty ELSE m.shares), <<>>, m.ts)
          /\ G = IF e.qty <= m.shares THEN H \ {e} ELSE (H \ {e}) \cup {[e EXCEPT !.qty = @ - m.shares]}
      BY <2>3 DEF Reduces
    <3> QED BY <2>1, <3>1, ReduceAccounts
  <2>4. ASSUME NEW e \in H, Deletes(m, e, H, G, D) PROVE Accounts(H, G, D)
    BY <2>1, <2>4, TakeAccounts DEF Deletes
  <2>5. ASSUME NEW e \in H, Swaps(m, e, H, G, D) PROVE Accounts(H, G, D)
    <3> DEFINE f == Entry(m.newRef, e.side, m.price, m.shares, e.sym)
    <3>1. f.ref = m.newRef /\ f.sym = e.sym /\ f.side = e.side /\ f.price = m.price /\ f.qty = m.shares
      BY DEF Entry
    <3>2. f \in OrderRec /\ Absent(f.ref, H \ {e}) /\ G = (H \ {e}) \cup {f}
      BY <2>5, <3>1 DEF Swaps
    <3>3. D = Delta("U", e.sym, e.side, Level(e.price, e.qty), Level(f.price, f.qty), m.ts)
      BY <2>5, <3>1 DEF Swaps
    <3> HIDE DEF f
    <3> QED BY <2>1, <3>1, <3>2, <3>3, ReplaceAccounts
  <2>6. ASSUME Skips(m, H, G, D) PROVE Accounts(H, G, D)
    BY <2>6 DEF Skips, Accounts
  <2>7. Accounts(H, G, D)
    BY <2>1, <2>2, <2>3, <2>4, <2>5, <2>6 DEF Outcome
  <2> QED BY <2>7 DEF Moves, H, G, D
<1> QED BY <1>1, <1>2 DEF OutcomeStep

(* ---- whoever adds up the records ----                                   *)
LedgerInv == /\ IsFiniteSet(Held) /\ LevelsAfter \in Ladders
             /\ \A s \in Sym, d \in Side, p \in Price :
                   LevelsAfter[s][d][p] = Total(Here(Held, s, d, p))

LEMMA InitLedger == Init => LedgerInv
<1> SUFFICES ASSUME Init PROVE LedgerInv
  OBVIOUS
<1>1. Held = {} /\ delta = <<>> /\ levels = [s \in Sym |-> [d \in Side |-> [p \in Price |-> 0]]]
  BY DEF Init, TableInit, Held
<1>2. LevelsAfter = levels
  BY <1>1 DEF LevelsAfter
<1>3. \A s, d, p : Here({}, s, d, p) = {}
  BY DEF Here
<1>4. IsFiniteSet({}) /\ Total({}) = 0
  BY FS_EmptySet, TotalUnfolds
<1>5. LevelsAfter \in Ladders /\ \A s \in Sym, d \in Side, p \in Price : LevelsAfter[s][d][p] = 0
  BY <1>1, <1>2 DEF Ladders
<1>6. \A s, d, p : Total(Here(Held, s, d, p)) = 0
  BY <1>1, <1>3, <1>4
<1> QED BY <1>1, <1>4, <1>5, <1>6 DEF LedgerInv

LEMMA LevelsMove ==
    ASSUME LevelsAfter \in Ladders, levels' = LevelsAfter, Moves
    PROVE  /\ LevelsAfter' \in Ladders
           /\ \A s \in Sym, d \in Side, p \in Price :
                 LevelsAfter'[s][d][p] = LevelsAfter[s][d][p] + Change(delta', s, d, p)
<1> DEFINE lev == LevelsAfter
           D   == delta'
<1>1. CASE D = <<>>
  <2>1. LevelsAfter' = LevelsAfter
    BY <1>1 DEF LevelsAfter
  <2>2. \A s \in Sym, d \in Side, p \in Price : LevelsAfter[s][d][p] \in Int
    BY DEF Ladders
  <2> QED BY <1>1, <2>1, <2>2 DEF Change
<1>2. CASE D # <<>>
  <2>1. LevelsAfter' = Moved(lev, Head(D))
    BY <1>2 DEF LevelsAfter
  <2>2. lev \in Ladders /\ Record(D)
    BY <1>2 DEF Moves, Accounts
  <2> HIDE DEF lev, D
  <2>3. /\ Moved(lev, Head(D)) \in Ladders
        /\ \A s \in Sym, d \in Side, p \in Price :
              Moved(lev, Head(D))[s][d][p] = lev[s][d][p] + Change(D, s, d, p)
    BY <2>2, MovedIs
  <2> QED BY <2>1, <2>3 DEF lev, D
<1> QED BY <1>1, <1>2

LEMMA LedgerStep ==
    ASSUME LedgerInv, levels' = LevelsAfter, Moves
    PROVE  LedgerInv'
<1>1. CASE delta' = <<>>
  <2>1. Held' = Held
    BY <1>1 DEF Moves, Accounts
  <2>2. LevelsAfter' = LevelsAfter
    BY <1>1 DEF LevelsAfter
  <2> QED BY <2>1, <2>2 DEF LedgerInv
<1>2. CASE delta' # <<>>
  <2>1. /\ IsFiniteSet(Held')
        /\ \A s \in Sym, d \in Side, p \in Price :
              Total(Here(Held', s, d, p)) = Total(Here(Held, s, d, p)) + Change(delta', s, d, p)
    BY <1>2 DEF Moves, Accounts, LedgerInv
  <2> QED BY <2>1, LevelsMove DEF LedgerInv
<1> QED BY <1>1, <1>2

LEMMA LedgerSound ==
    ASSUME ReplaceFits
    PROVE  Spec => []LedgerInv
<1>1. ASSUME LedgerInv, TableInv, [Next]_vars PROVE LedgerInv'
  <2>1. CASE UNCHANGED vars
    <3>1. Held' = Held /\ LevelsAfter' = LevelsAfter
      BY <2>1 DEF vars, tableVars, Held, Slots, At, LevelsAfter
    <3> QED BY <1>1, <3>1 DEF LedgerInv
  <2>2. CASE Next /\ OutcomeStep
    <3>1. levels' = LevelsAfter
      BY <2>2 DEF Next, Tick
    <3> QED BY <1>1, <2>2, <3>1, OutcomeMoves, LedgerStep
  <2> QED BY <1>1, <2>1, <2>2, TableStep
<1> QED BY <1>1, InitLedger, TableSound, PTL DEF Spec

(* Whoever adds up the deltas holds at every price of every book exactly   *)
(* what the orders in the table rest there (order_table.sv: "one           *)
(* book-delta record per processed message"): the record of a message      *)
(* moves what the message moves in the memory, to the share, for any       *)
(* number of symbols, prices and orders and whatever their sizes.          *)
THEOREM LadderIsTheSum ==
    ASSUME ReplaceFits
    PROVE  Spec => []LadderSumsOrders
<1>1. LedgerInv => LadderSumsOrders
  BY SumIsTotal DEF LedgerInv
<1> QED BY <1>1, LedgerSound, PTL
-----------------------------------------------------------------------------
(* ---- one symbol's share of the table ----                               *)
Only(H, s) == {e \in H : e.sym = s}
Own(b)     == [r \in DOMAIN b |-> [side |-> b[r].side, price |-> b[r].price, qty |-> b[r].qty]]
Mine(H, s) == Own(BookOf(Only(H, s)))
Mark(e)    == [side |-> e.side, price |-> e.price, qty |-> e.qty]
Less(f, x) == Restrict(f, DOMAIN f \ {x})

LEMMA OwnUpdates ==
    /\ \A b, r, e : Own(With(b, r, e)) = With(Own(b), r, Mark(e))
    /\ \A b, r : Own(Less(b, r)) = Less(Own(b), r)
  BY DEF Own, With, Golden!With, Mark, Less, Restrict

LEMMA OwnChanges ==
    ASSUME NEW b, NEW r \in DOMAIN b, NEW e \in OrderRec, b[r] = Resting(e), NEW q
    PROVE  Own([b EXCEPT ![r].qty = q]) = [Own(b) EXCEPT ![r].qty = q]
<1> DEFINE c == [b EXCEPT ![r].qty = q]
<1>1. DOMAIN c = DOMAIN b /\ \A x \in DOMAIN b : x # r => c[x] = b[x]
  OBVIOUS
<1>2. c[r].side = b[r].side /\ c[r].price = b[r].price /\ c[r].qty = q
  BY DEF Resting
<1> HIDE DEF c
<1>3. Own(c) = [Own(b) EXCEPT ![r].qty = q]
  BY <1>1, <1>2 DEF Own
<1> QED BY <1>3 DEF c

LEMMA OnlyFacts ==
    ASSUME NEW H, OneEach(H), NEW s
    PROVE  /\ OneEach(Only(H, s))
           /\ \A e \in H : e.sym = s => e.ref \in DOMAIN Mine(H, s) /\ Mine(H, s)[e.ref] = Mark(e)
           /\ \A e \in H : e.sym # s => e.ref \notin DOMAIN Mine(H, s)
           /\ \A r : Absent(r, H) => r \notin DOMAIN Mine(H, s)
<1> DEFINE K == Only(H, s)
<1>1. OneEach(K) /\ K \subseteq H
  BY DEF OneEach, Only
<1>2. /\ DOMAIN BookOf(K) = Refs(K)
      /\ \A e \in K : e.ref \in Refs(K) /\ BookOf(K)[e.ref] = Resting(e)
      /\ \A r \in Refs(K) : \E e \in K : e.ref = r
  BY <1>1, BookFacts
<1>3. DOMAIN Mine(H, s) = Refs(K)
  BY <1>2 DEF Mine, Own
<1>4. ASSUME NEW e \in H, e.sym = s PROVE e.ref \in DOMAIN Mine(H, s) /\ Mine(H, s)[e.ref] = Mark(e)
  <2>1. e \in K
    BY <1>4 DEF Only
  <2> HIDE DEF K
  <2>2. e.ref \in DOMAIN BookOf(K) /\ BookOf(K)[e.ref] = Resting(e)
    BY <1>2, <2>1
  <2> QED BY <2>2 DEF Mine, Own, Resting, Mark, K
<1>5. ASSUME NEW e \in H, e.sym # s PROVE e.ref \notin DOMAIN Mine(H, s)
  <2>1. ASSUME NEW d \in K, d.ref = e.ref PROVE FALSE
    BY <1>1, <1>5, <2>1 DEF OneEach, Only
  <2> QED BY <1>2, <1>3, <2>1
<1>6. ASSUME NEW r, Absent(r, H) PROVE r \notin DOMAIN Mine(H, s)
  BY <1>1, <1>2, <1>3, <1>6 DEF Absent
<1> QED BY <1>1, <1>4, <1>5, <1>6

LEMMA MineIs ==
    ASSUME NEW s
    PROVE  (OneEach(Held) => OrdersOf(s) = Mine(Held, s)) /\ (OneEach(Held) => OrdersOf(s) = Mine(Held, s))'
<1>1. ASSUME NEW H, OneEach(H)
      PROVE  [r \in {e.ref : e \in {x \in H : x.sym = s}} |-> Mark(OrderAt(H, r))] = Mine(H, s)
  <2> DEFINE K == Only(H, s)
  <2>1. DOMAIN Mine(H, s) = Refs(K) /\ Mine(H, s) = [r \in Refs(K) |-> Mine(H, s)[r]]
    BY <1>1, OnlyFacts, BookFacts DEF Mine, Own
  <2>2. ASSUME NEW r \in Refs(K) PROVE Mine(H, s)[r] = Mark(OrderAt(H, r))
    <3>1. PICK e \in H : e.sym = s /\ e.ref = r
      BY DEF Refs, Only
    <3>2. OrderAt(H, r) \in H /\ OrderAt(H, r).ref = r
      BY <3>1 DEF OrderAt
    <3>3. OrderAt(H, r) = e
      BY <1>1, <3>1, <3>2 DEF OneEach
    <3> QED BY <1>1, <3>1, <3>3, OnlyFacts
  <2>3. {e.ref : e \in {x \in H : x.sym = s}} = Refs(K)
    BY DEF Refs, Only
  <2> QED BY <2>1, <2>2, <2>3
<1>2. OrdersOf(s) = [r \in {e.ref : e \in {x \in Held : x.sym = s}} |-> Mark(OrderAt(Held, r))]
  BY DEF OrdersOf, EntryOf, OrderAt, Mark
<1>3. OrdersOf(s)' = [r \in {e.ref : e \in {x \in Held' : x.sym = s}} |-> Mark(OrderAt(Held', r))]
  BY DEF OrdersOf, EntryOf, OrderAt, Mark
<1> QED BY <1>1, <1>2, <1>3

(* What the message m makes of the orders O of the symbol s, and D of it.  *)
Joins(s, m, O, P, D) ==
    /\ m.type \in {"A", "F"} /\ m.loc = s /\ m.side \in Side /\ m.price \in Price
    /\ m.shares \in Nat \ {0}
    /\ P = With(O, m.ref, [side |-> m.side, price |-> m.price, qty |-> m.shares])
    /\ D = Delta(m.type, s, m.side, <<>>, Level(m.price, m.shares), m.ts)

Wanes(s, m, o, O, P, D) ==
    /\ m.type \in Executes /\ m.ref \in DOMAIN O /\ O[m.ref] = o /\ m.shares \in Nat \ {0}
    /\ P = IF o.qty - m.shares <= 0 THEN Less(O, m.ref) ELSE [O EXCEPT ![m.ref].qty = o.qty - m.shares]
    /\ D = Delta(m.type, s, o.side, Level(o.price, IF m.shares < o.qty THEN m.shares ELSE o.qty), <<>>, m.ts)

Parts(s, m, o, O, P, D) ==
    /\ m.type = "D" /\ m.ref \in DOMAIN O /\ O[m.ref] = o /\ P = Less(O, m.ref)
    /\ D = Delta("D", s, o.side, Level(o.price, o.qty), <<>>, m.ts)

Trades(s, m, o, O, P, D) ==
    /\ m.type = "U" /\ m.ref \in DOMAIN O /\ O[m.ref] = o
    /\ m.price \in Price /\ m.shares \in Nat \ {0}
    /\ P = With(Less(O, m.ref), m.newRef, [side |-> o.side, price |-> m.price, qty |-> m.shares])
    /\ D = Delta("U", s, o.side, Level(o.price, o.qty), Level(m.price, m.shares), m.ts)

Passes(s, m, O, P, D) ==
    /\ P = O /\ (D # <<>> => Head(D).sym # s)
    /\ \/ m.type \in {"A", "F"} /\ m.loc # s
       \/ m.type \in Executes \cup {"D", "U"} /\ m.ref \notin DOMAIN O
       \/ m.type = "P"

(* The symbol's part of an outcome; o rests where it says.                 *)
Seen(s, m, H, G, D) ==
    LET O == Mine(H, s)  P == Mine(G, s) IN
    \/ Joins(s, m, O, P, D) \/ Passes(s, m, O, P, D)
    \/ \E e \in H : /\ e.sym = s
                    /\ Wanes(s, m, Mark(e), O, P, D) \/ Parts(s, m, Mark(e), O, P, D)
                       \/ Trades(s, m, Mark(e), O, P, D)

LEMMA OnlyMoves ==
    ASSUME NEW H, NEW e, NEW s
    PROVE  /\ Only(H \cup {e}, s) = IF e.sym = s THEN Only(H, s) \cup {e} ELSE Only(H, s)
           /\ Only(H \ {e}, s) = IF e.sym = s THEN Only(H, s) \ {e} ELSE Only(H, s)
  BY DEF Only

LEMMA OneMore ==
    ASSUME NEW H, OneEach(H), NEW f \in OrderRec, Absent(f.ref, H), NEW s
    PROVE  Mine(H \cup {f}, s) = IF f.sym = s THEN With(Mine(H, s), f.ref, Mark(f)) ELSE Mine(H, s)
<1> DEFINE K == Only(H, s)
<1>1. OneEach(K) /\ Absent(f.ref, K)
  BY OnlyFacts DEF Only, Absent
<1> HIDE DEF K
<1>2. BookOf(K \cup {f}) = With(BookOf(K), f.ref, Resting(f))
  BY <1>1, BookGrows
<1>3. Own(With(BookOf(K), f.ref, Resting(f))) = With(Own(BookOf(K)), f.ref, Mark(Resting(f)))
  BY OwnUpdates
<1>4. Mark(Resting(f)) = Mark(f)
  BY DEF Mark, Resting
<1>5. Only(H \cup {f}, s) = IF f.sym = s THEN K \cup {f} ELSE K
  BY OnlyMoves DEF K
<1>6. CASE f.sym = s
  <2>1. Mine(H \cup {f}, s) = Own(BookOf(K \cup {f}))
    BY <1>5, <1>6 DEF Mine
  <2>2. Mine(H, s) = Own(BookOf(K))
    BY DEF Mine, K
  <2> QED BY <1>2, <1>3, <1>4, <1>6, <2>1, <2>2
<1>7. CASE f.sym # s
  BY <1>5, <1>7 DEF Mine, K
<1> QED BY <1>6, <1>7

LEMMA OneLess ==
    ASSUME NEW H, OneEach(H), NEW e \in H, NEW s
    PROVE  Mine(H \ {e}, s) = IF e.sym = s THEN Less(Mine(H, s), e.ref) ELSE Mine(H, s)
<1> DEFINE K == Only(H, s)
<1>1. OneEach(K) /\ (e.sym = s => e \in K)
  BY OnlyFacts DEF Only
<1>2. ASSUME e.sym = s PROVE Mine(H \ {e}, s) = Less(Mine(H, s), e.ref)
  <2>1. e \in K
    BY <1>1, <1>2
  <2> HIDE DEF K
  <2>2. BookOf(K \ {e}) = Less(BookOf(K), e.ref)
    BY <1>1, <2>1, BookShrinks DEF Less
  <2>3. Own(Less(BookOf(K), e.ref)) = Less(Own(BookOf(K)), e.ref)
    BY OwnUpdates
  <2>4. Only(H \ {e}, s) = K \ {e}
    BY <1>2, OnlyMoves DEF K
  <2>5. Mine(H, s) = Own(BookOf(K)) /\ Mine(H \ {e}, s) = Own(BookOf(K \ {e}))
    BY <2>4 DEF Mine, K
  <2> QED BY <2>2, <2>3, <2>5
<1> QED BY <1>2, OnlyMoves DEF Mine

LEMMA OneSmaller ==
    ASSUME NEW H, OneEach(H), NEW e \in H, NEW q \in Nat \ {0}, NEW s
    PROVE  Mine((H \ {e}) \cup {[e EXCEPT !.qty = q]}, s)
             = IF e.sym = s THEN [Mine(H, s) EXCEPT ![e.ref].qty = q] ELSE Mine(H, s)
<1> DEFINE K == Only(H, s)
           f == [e EXCEPT !.qty = q]
<1>1. OneEach(K) /\ (e.sym = s => e \in K) /\ e \in OrderRec
  BY OnlyFacts DEF Only, OneEach
<1>2. f.sym = e.sym
  BY <1>1 DEF OrderRec
<1>3. Only((H \ {e}) \cup {f}, s) = IF e.sym = s THEN (K \ {e}) \cup {f} ELSE K
  BY <1>2 DEF Only
<1>4. ASSUME e.sym = s PROVE Own(BookOf((K \ {e}) \cup {f})) = [Own(BookOf(K)) EXCEPT ![e.ref].qty = q]
  <2>1. e \in K
    BY <1>1, <1>4
  <2> HIDE DEF K
  <2>2. BookOf((K \ {e}) \cup {f}) = [BookOf(K) EXCEPT ![e.ref].qty = q]
    BY <1>1, <2>1, BookChanges
  <2>3. e.ref \in DOMAIN BookOf(K) /\ BookOf(K)[e.ref] = Resting(e)
    BY <1>1, <2>1, BookFacts
  <2> QED BY <1>1, <2>2, <2>3, OwnChanges
<1> QED BY <1>3, <1>4 DEF Mine

LEMMA SeenOutcome ==
    ASSUME NEW m, NEW H, NEW G, NEW D, OneEach(H), Outcome(m, H, G, D), NEW s \in Sym
    PROVE  Seen(s, m, H, G, D)
<1>1. ASSUME Adds(m, H, G, D) PROVE Seen(s, m, H, G, D)
  <2> DEFINE f == Entry(m.ref, m.side, m.price, m.shares, m.loc)
  <2>1. f.ref = m.ref /\ f.sym = m.loc /\ Mark(f) = [side |-> m.side, price |-> m.price, qty |-> m.shares]
        /\ f.side = m.side /\ f.price = m.price /\ f.qty = m.shares
    BY DEF Entry, Mark
  <2>2. f \in OrderRec /\ Absent(f.ref, H) /\ G = H \cup {f}
    BY <1>1, <2>1 DEF Adds
  <2>3. f.side \in Side /\ f.price \in Price /\ f.qty \in Nat \ {0}
    BY <2>2 DEF OrderRec
  <2> HIDE DEF f
  <2>4. Mine(G, s) = IF m.loc = s THEN With(Mine(H, s), m.ref, Mark(f)) ELSE Mine(H, s)
    BY <2>1, <2>2, OneMore
  <2>5. CASE m.loc = s
    <3>1. Joins(s, m, Mine(H, s), Mine(G, s), D)
      BY <1>1, <2>1, <2>3, <2>4, <2>5 DEF Joins, Adds
    <3> QED BY <3>1 DEF Seen
  <2>6. CASE m.loc # s
    <3>1. D # <<>> /\ Head(D).sym = m.loc
      BY <1>1 DEF Adds, Delta
    <3>2. Passes(s, m, Mine(H, s), Mine(G, s), D)
      BY <1>1, <2>4, <2>6, <3>1 DEF Passes, Adds
    <3> QED BY <3>2 DEF Seen
  <2> QED BY <2>5, <2>6
<1>2. ASSUME NEW e \in H, Reduces(m, e, H, G, D) PROVE Seen(s, m, H, G, D)
  <2>1. e \in OrderRec /\ e.qty \in Nat \ {0} /\ m.shares \in Nat \ {0} /\ e.ref = m.ref /\ m.type \in Executes
    BY <1>2 DEF OneEach, OrderRec, Reduces
  <2>2. Mine(G, s) = IF e.sym # s THEN Mine(H, s)
                     ELSE IF e.qty - m.shares <= 0 THEN Less(Mine(H, s), m.ref)
                     ELSE [Mine(H, s) EXCEPT ![m.ref].qty = e.qty - m.shares]
    <3>1. CASE e.qty <= m.shares
      <4>1. G = H \ {e} /\ e.qty - m.shares <= 0
        BY <1>2, <2>1, <3>1 DEF Reduces
      <4> QED BY <2>1, <4>1, OneLess
    <3>2. CASE ~(e.qty <= m.shares)
      <4>1. PICK q \in Nat \ {0} : q = e.qty - m.shares
        BY <2>1, <3>2
      <4>2. G = (H \ {e}) \cup {[e EXCEPT !.qty = q]} /\ ~(e.qty - m.shares <= 0)
        BY <1>2, <2>1, <3>2, <4>1 DEF Reduces
      <4> QED BY <2>1, <4>1, <4>2, OneSmaller
    <3> QED BY <3>1, <3>2
  <2>3. D = Delta(m.type, e.sym, e.side,
                  Level(e.price, IF m.shares < e.qty THEN m.shares ELSE e.qty), <<>>, m.ts)
    <3>1. (IF e.qty < m.shares THEN e.qty ELSE m.shares) = IF m.shares < e.qty THEN m.shares ELSE e.qty
      BY <2>1
    <3> QED BY <1>2, <3>1 DEF Reduces
  <2>4. CASE e.sym = s
    <3>1. e.ref \in DOMAIN Mine(H, s) /\ Mine(H, s)[e.ref] = Mark(e)
      BY <2>4, OnlyFacts
    <3>2. Mark(e).qty = e.qty /\ Mark(e).side = e.side /\ Mark(e).price = e.price
      BY DEF Mark
    <3>3. Wanes(s, m, Mark(e), Mine(H, s), Mine(G, s), D)
      BY <2>1, <2>2, <2>3, <2>4, <3>1, <3>2 DEF Wanes
    <3> QED BY <2>4, <3>3 DEF Seen
  <2>5. CASE e.sym # s
    <3>1. D # <<>> /\ Head(D).sym = e.sym
      BY <2>3 DEF Delta
    <3>2. m.ref \notin DOMAIN Mine(H, s)
      BY <2>1, <2>5, OnlyFacts
    <3>3. Passes(s, m, Mine(H, s), Mine(G, s), D)
      BY <2>1, <2>2, <2>5, <3>1, <3>2 DEF Passes
    <3> QED BY <3>3 DEF Seen
  <2> QED BY <2>4, <2>5
<1>3. ASSUME NEW e \in H, Deletes(m, e, H, G, D) PROVE Seen(s, m, H, G, D)
  <2>1. m.type = "D" /\ e.ref = m.ref /\ G = H \ {e}
        /\ D = Delta("D", e.sym, e.side, Level(e.price, e.qty), <<>>, m.ts)
    BY <1>3 DEF Deletes
  <2>2. Mine(G, s) = IF e.sym = s THEN Less(Mine(H, s), m.ref) ELSE Mine(H, s)
    BY <2>1, OneLess
  <2>3. CASE e.sym = s
    <3>1. e.ref \in DOMAIN Mine(H, s) /\ Mine(H, s)[e.ref] = Mark(e)
      BY <2>3, OnlyFacts
    <3>2. Mark(e).qty = e.qty /\ Mark(e).side = e.side /\ Mark(e).price = e.price
      BY DEF Mark
    <3>3. Parts(s, m, Mark(e), Mine(H, s), Mine(G, s), D)
      BY <2>1, <2>2, <2>3, <3>1, <3>2 DEF Parts
    <3> QED BY <2>3, <3>3 DEF Seen
  <2>4. CASE e.sym # s
    <3>1. D # <<>> /\ Head(D).sym = e.sym
      BY <2>1 DEF Delta
    <3>2. m.ref \notin DOMAIN Mine(H, s)
      BY <2>1, <2>4, OnlyFacts
    <3>3. Passes(s, m, Mine(H, s), Mine(G, s), D)
      BY <2>1, <2>2, <2>4, <3>1, <3>2 DEF Passes
    <3> QED BY <3>3 DEF Seen
  <2> QED BY <2>3, <2>4
<1>4. ASSUME NEW e \in H, Swaps(m, e, H, G, D) PROVE Seen(s, m, H, G, D)
  <2> DEFINE f == Entry(m.newRef, e.side, m.price, m.shares, e.sym)
             K == H \ {e}
  <2>1. f.ref = m.newRef /\ f.sym = e.sym /\ Mark(f) = [side |-> e.side, price |-> m.price, qty |-> m.shares]
        /\ f.price = m.price /\ f.qty = m.shares
    BY DEF Entry, Mark
  <2>2. f \in OrderRec /\ Absent(f.ref, K) /\ G = K \cup {f} /\ m.type = "U" /\ e.ref = m.ref
        /\ D = Delta("U", e.sym, e.side, Level(e.price, e.qty), Level(m.price, m.shares), m.ts)
    BY <1>4, <2>1 DEF Swaps
  <2>3. f.price \in Price /\ f.qty \in Nat \ {0}
    BY <2>2 DEF OrderRec
  <2>4. OneEach(K) /\ Mine(K, s) = IF e.sym = s THEN Less(Mine(H, s), m.ref) ELSE Mine(H, s)
    BY <2>2, BookShrinks, OneLess
  <2> HIDE DEF f, K
  <2>5. Mine(G, s) = IF e.sym = s THEN With(Mine(K, s), m.newRef, Mark(f)) ELSE Mine(K, s)
    BY <2>1, <2>2, <2>4, OneMore
  <2>6. CASE e.sym = s
    <3>1. e.ref \in DOMAIN Mine(H, s) /\ Mine(H, s)[e.ref] = Mark(e)
      BY <2>6, OnlyFacts
    <3>2. Mark(e).qty = e.qty /\ Mark(e).side = e.side /\ Mark(e).price = e.price
      BY DEF Mark
    <3>3. Trades(s, m, Mark(e), Mine(H, s), Mine(G, s), D)
      BY <2>1, <2>2, <2>3, <2>4, <2>5, <2>6, <3>1, <3>2 DEF Trades
    <3> QED BY <2>6, <3>3 DEF Seen
  <2>7. CASE e.sym # s
    <3>1. D # <<>> /\ Head(D).sym = e.sym
      BY <2>2 DEF Delta
    <3>2. m.ref \notin DOMAIN Mine(H, s)
      BY <2>2, <2>7, OnlyFacts
    <3>3. Passes(s, m, Mine(H, s), Mine(G, s), D)
      BY <2>2, <2>4, <2>5, <2>7, <3>1, <3>2 DEF Passes
    <3> QED BY <3>3 DEF Seen
  <2> QED BY <2>6, <2>7
<1>5. ASSUME Skips(m, H, G, D) PROVE Seen(s, m, H, G, D)
  <2>1. Passes(s, m, Mine(H, s), Mine(G, s), D)
    BY <1>5, OnlyFacts DEF Skips, Passes
  <2> QED BY <2>1 DEF Seen
<1> QED BY <1>1, <1>2, <1>3, <1>4, <1>5 DEF Outcome
-----------------------------------------------------------------------------
(* ---- the price ladders of a symbol ----                                 *)
Lad(row) == [p \in {x \in Price : row[x] # 0} |-> row[p]]

Gained(d, p, q) == With(d, p, (IF p \in DOMAIN d THEN d[p] ELSE 0) + q)
Lost(d, p, q)   == IF d[p] - q <= 0 THEN Less(d, p) ELSE With(d, p, d[p] - q)

LEMMA LadGain ==
    ASSUME NEW row \in [Price -> Nat], NEW new, NEW p \in Price, NEW q \in Nat \ {0},
           \A x \in Price : new[x] = row[x] + IF x = p THEN q ELSE 0
    PROVE  Lad(new) = Gained(Lad(row), p, q)
<1>1. \A x \in Price : row[x] \in Nat /\ (new[x] # 0 <=> x = p \/ row[x] # 0)
  OBVIOUS
<1>2. DOMAIN Lad(new) = DOMAIN Lad(row) \cup {p}
  BY <1>1 DEF Lad
<1>3. ASSUME NEW x \in DOMAIN Lad(new)
      PROVE  Lad(new)[x] = IF x = p THEN (IF p \in DOMAIN Lad(row) THEN Lad(row)[p] ELSE 0) + q ELSE Lad(row)[x]
  BY <1>1, <1>2 DEF Lad
<1>4. Lad(new) = [x \in DOMAIN Lad(new) |-> Lad(new)[x]]
  BY DEF Lad
<1> HIDE DEF Lad
<1> QED BY <1>2, <1>3, <1>4 DEF Gained, With, Golden!With

LEMMA LadLose ==
    ASSUME NEW row \in [Price -> Nat], NEW new, NEW p \in Price, NEW q \in Nat \ {0}, q <= row[p],
           \A x \in Price : new[x] = row[x] - IF x = p THEN q ELSE 0
    PROVE  /\ p \in DOMAIN Lad(row) /\ Lad(row)[p] = row[p]
           /\ Lad(new) = Lost(Lad(row), p, q)
<1>1. row[p] # 0 /\ row[p] \in Nat
  OBVIOUS
<1>2. p \in DOMAIN Lad(row) /\ Lad(row)[p] = row[p]
  BY <1>1 DEF Lad
<1>3. Lad(new) = [x \in DOMAIN Lad(new) |-> Lad(new)[x]]
  BY DEF Lad
<1>4. CASE row[p] - q <= 0
  <2>1. DOMAIN Lad(new) = DOMAIN Lad(row) \ {p}
    BY <1>1, <1>4 DEF Lad
  <2>2. \A x \in DOMAIN Lad(new) : Lad(new)[x] = Lad(row)[x]
    BY <2>1 DEF Lad
  <2> HIDE DEF Lad
  <2> QED BY <1>2, <1>3, <1>4, <2>1, <2>2 DEF Lost, Less, Restrict
<1>5. CASE ~(row[p] - q <= 0)
  <2>1. DOMAIN Lad(new) = DOMAIN Lad(row) \cup {p}
    BY <1>1, <1>5 DEF Lad
  <2>2. \A x \in DOMAIN Lad(new) : Lad(new)[x] = IF x = p THEN row[p] - q ELSE Lad(row)[x]
    BY <2>1 DEF Lad
  <2> HIDE DEF Lad
  <2> QED BY <1>2, <1>3, <1>5, <2>1, <2>2 DEF Lost, With, Golden!With
<1> QED BY <1>2, <1>4, <1>5

LEMMA LadderIs ==
    ASSUME NEW s
    PROVE  /\ Ladder(s) = [d \in Side |-> Lad(LevelsAfter[s][d])]
           /\ Ladder(s)' = [d \in Side |-> Lad(LevelsAfter'[s][d])]
  BY DEF Ladder, Lad

LEMMA TotalAtLeast ==
    ASSUME NEW S, IsFiniteSet(S), \A e \in S : e.qty \in Nat
    PROVE  Total(S) \in Nat /\ \A e \in S : e.qty <= Total(S)
<1>1. Total(S) \in Nat
  BY TotalType
<1>2. ASSUME NEW e \in S PROVE e.qty <= Total(S)
  <2>1. IsFiniteSet(S \ {e})
    BY FS_Subset
  <2>2. Total(S \ {e}) \in Nat
    BY <2>1, TotalType
  <2>3. Total(S \ {e}) = Total(S) - e.qty
    BY TotalOfRest
  <2> QED BY <1>1, <2>2, <2>3
<1> QED BY <1>1, <1>2

(* No level is below nothing, and every order is part of its level.        *)
LEMMA LevelsStand ==
    ASSUME LedgerInv, OneEach(Held)
    PROVE  /\ \A s \in Sym, d \in Side : LevelsAfter[s][d] \in [Price -> Nat]
           /\ \A e \in Held : /\ e.sym \in Sym /\ e.side \in Side /\ e.price \in Price /\ e.qty \in Nat \ {0}
                             /\ e.qty <= LevelsAfter[e.sym][e.side][e.price]
<1>1. ASSUME NEW s \in Sym, NEW d \in Side, NEW p \in Price
      PROVE  LevelsAfter[s][d][p] \in Nat /\ \A e \in Here(Held, s, d, p) : e.qty <= LevelsAfter[s][d][p]
  <2>1. IsFiniteSet(Here(Held, s, d, p)) /\ \A e \in Here(Held, s, d, p) : e.qty \in Nat
    BY FS_Subset DEF LedgerInv, Here, OneEach, OrderRec
  <2> QED BY <2>1, TotalAtLeast DEF LedgerInv
<1>2. ASSUME NEW s \in Sym, NEW d \in Side PROVE LevelsAfter[s][d] \in [Price -> Nat]
  <2>1. LevelsAfter[s][d] \in [Price -> Int]
    BY DEF LedgerInv, Ladders
  <2> QED BY <1>1, <2>1
<1>3. ASSUME NEW e \in Held
      PROVE  /\ e.sym \in Sym /\ e.side \in Side /\ e.price \in Price /\ e.qty \in Nat \ {0}
             /\ e.qty <= LevelsAfter[e.sym][e.side][e.price]
  <2>1. e.sym \in Sym /\ e.side \in Side /\ e.price \in Price /\ e.qty \in Nat \ {0}
    BY DEF OneEach, OrderRec
  <2>2. e \in Here(Held, e.sym, e.side, e.price)
    BY DEF Here
  <2> QED BY <1>1, <2>1, <2>2
<1> QED BY <1>2, <1>3

(* What the record D of a message makes of the ladders of the symbol.      *)
LadderMoves(s, m, lad, new, H, G, D) ==
    LET O == Mine(H, s)  P == Mine(G, s)
        has(d, p, q) == p \in DOMAIN lad[d] /\ lad[d][p] \in Nat /\ q \in Nat \ {0}
    IN
    \/ Passes(s, m, O, P, D) /\ new = lad
    \/ /\ Joins(s, m, O, P, D)
       /\ new = [lad EXCEPT ![m.side] = Gained(lad[m.side], m.price, m.shares)]
    \/ \E o \in [side : Side, price : Price, qty : Nat \ {0}] :
         \/ /\ Wanes(s, m, o, O, P, D) /\ has(o.side, o.price, o.qty)
            /\ new = [lad EXCEPT ![o.side] =
                         Lost(lad[o.side], o.price, IF m.shares < o.qty THEN m.shares ELSE o.qty)]
         \/ /\ Parts(s, m, o, O, P, D) /\ has(o.side, o.price, o.qty)
            /\ new = [lad EXCEPT ![o.side] = Lost(lad[o.side], o.price, o.qty)]
         \/ /\ Trades(s, m, o, O, P, D) /\ has(o.side, o.price, o.qty)
            /\ new = [lad EXCEPT ![o.side] =
                         Gained(Lost(lad[o.side], o.price, o.qty), m.price, m.shares)]

LEMMA OneSideMoves ==
    ASSUME NEW lev, NEW new, NEW z \in Side,
           \A d \in Side : d # z => Lad(new[d]) = Lad(lev[d])
    PROVE  [d \in Side |-> Lad(new[d])] = [[d \in Side |-> Lad(lev[d])] EXCEPT ![z] = Lad(new[z])]
  OBVIOUS

LEMMA SameLad ==
    ASSUME NEW row \in [Price -> Nat], NEW new, \A x \in Price : new[x] = row[x]
    PROVE  Lad(new) = Lad(row)
  BY DEF Lad

LEMMA LaddersMove ==
    ASSUME NEW s \in Sym, LedgerInv, OneEach(Held), Outcome(msg, Held, Held', delta'),
           levels' = LevelsAfter, Moves
    PROVE  LadderMoves(s, msg, Ladder(s), Ladder(s)', Held, Held', delta')
<1> DEFINE m == msg
           H == Held
           G == Held'
           D == delta'
           lev == LevelsAfter[s]
           new == LevelsAfter'[s]
           lad == [d \in Side |-> Lad(lev[d])]
           O == Mine(H, s)
           P == Mine(G, s)
<1>1. Ladder(s) = lad /\ Ladder(s)' = [d \in Side |-> Lad(new[d])]
  BY LadderIs
<1>2. \A d \in Side : lev[d] \in [Price -> Nat]
  BY LevelsStand
<1>5. ASSUME NEW e \in H, e.sym = s
      PROVE  /\ e.side \in Side /\ e.price \in Price /\ e.qty \in Nat \ {0} /\ e.qty \in Int
             /\ lev[e.side][e.price] \in Nat /\ e.qty <= lev[e.side][e.price]
  BY <1>5, LevelsStand
<1>3. \A d \in Side, x \in Price : new[d][x] = lev[d][x] + Change(D, s, d, x)
  BY LevelsMove DEF LedgerInv
<1>4. Seen(s, m, H, G, D)
  BY SeenOutcome
<1> HIDE DEF m, H, G, D, lev, new
<1>6. \A d \in Side : DOMAIN lad = Side /\ lad[d] = Lad(lev[d])
  OBVIOUS
<1>7. ASSUME Passes(s, m, O, P, D) PROVE LadderMoves(s, m, lad, [d \in Side |-> Lad(new[d])], H, G, D)
  <2>1. \A d \in Side, x \in Price : Change(D, s, d, x) = 0
    BY <1>7 DEF Passes, Change
  <2>2. \A d \in Side, x \in Price : lev[d][x] \in Int
    BY <1>2
  <2>3. \A d \in Side, x \in Price : new[d][x] = lev[d][x]
    BY <1>3, <2>1, <2>2
  <2>4. \A d \in Side : Lad(new[d]) = Lad(lev[d])
    BY <1>2, <2>3, SameLad
  <2> QED BY <1>7, <2>4 DEF LadderMoves
<1>8. ASSUME Joins(s, m, O, P, D) PROVE LadderMoves(s, m, lad, [d \in Side |-> Lad(new[d])], H, G, D)
  <2>1. m.side \in Side /\ m.price \in Price /\ m.shares \in Nat \ {0} /\ m.shares \in Int
        /\ D = Delta(m.type, s, m.side, <<>>, Level(m.price, m.shares), m.ts)
    BY <1>8 DEF Joins
  <2>2. D # <<>> /\ Head(D).sym = s /\ Head(D).side = m.side /\ Head(D).rem = <<>>
        /\ Head(D).add = Level(m.price, m.shares)
    BY <2>1 DEF Delta
  <2>3. \A x : Volume(Level(m.price, m.shares), x) = IF m.price = x THEN m.shares ELSE 0
    BY <2>1, LevelHas
  <2>4. \A d, x : Change(D, s, d, x) = IF m.side = d /\ m.price = x THEN m.shares ELSE 0
    BY <2>1, <2>2, <2>3, NoLevel DEF Change
  <2>5. ASSUME NEW d \in Side, d # m.side PROVE Lad(new[d]) = Lad(lev[d])
    <3>1. \A x \in Price : new[d][x] = lev[d][x]
      BY <1>2, <1>3, <2>4, <2>5
    <3> QED BY <1>2, <3>1, SameLad
  <2>6. Lad(new[m.side]) = Gained(Lad(lev[m.side]), m.price, m.shares)
    <3>1. \A x \in Price : new[m.side][x] = lev[m.side][x] + IF x = m.price THEN m.shares ELSE 0
      BY <1>3, <2>1, <2>4
    <3> QED BY <1>2, <2>1, <3>1, LadGain
  <2>7. [d \in Side |-> Lad(new[d])] = [lad EXCEPT ![m.side] = Lad(new[m.side])]
    BY <2>1, <2>5, OneSideMoves
  <2> QED BY <1>8, <2>1, <2>6, <2>7 DEF LadderMoves
<1>9. ASSUME NEW e \in H, e.sym = s, NEW q \in Nat \ {0}, q <= e.qty, NEW t, NEW ts,
             D = Delta(t, s, e.side, Level(e.price, q), <<>>, ts)
      PROVE  /\ [d \in Side |-> Lad(new[d])] = [lad EXCEPT ![e.side] = Lost(lad[e.side], e.price, q)]
             /\ e.price \in DOMAIN lad[e.side] /\ lad[e.side][e.price] \in Nat
  <2>1. e.side \in Side /\ e.price \in Price /\ q <= lev[e.side][e.price] /\ q \in Int
        /\ lev[e.side][e.price] \in Nat
    BY <1>5, <1>9
  <2>2. D # <<>> /\ Head(D).sym = s /\ Head(D).side = e.side /\ Head(D).add = <<>>
        /\ Head(D).rem = Level(e.price, q)
    BY <1>9 DEF Delta
  <2>3. \A x : Volume(Level(e.price, q), x) = IF e.price = x THEN q ELSE 0
    BY <2>1, LevelHas
  <2>4. \A d, x : Change(D, s, d, x) = 0 - IF e.side = d /\ e.price = x THEN q ELSE 0
    BY <2>1, <2>2, <2>3, NoLevel DEF Change
  <2>5. ASSUME NEW d \in Side, d # e.side PROVE Lad(new[d]) = Lad(lev[d])
    <3>1. \A x \in Price : new[d][x] = lev[d][x]
      BY <1>2, <1>3, <2>4, <2>5
    <3> QED BY <1>2, <3>1, SameLad
  <2>6. /\ e.price \in DOMAIN Lad(lev[e.side]) /\ Lad(lev[e.side])[e.price] = lev[e.side][e.price]
        /\ Lad(new[e.side]) = Lost(Lad(lev[e.side]), e.price, q)
    <3> DEFINE row   == lev[e.side]
               moved == new[e.side]
    <3>1. row \in [Price -> Nat] /\ q <= row[e.price]
      BY <1>2, <2>1
    <3>2. \A x \in Price : moved[x] = row[x] - IF x = e.price THEN q ELSE 0
      BY <1>3, <2>1, <2>4, <3>1
    <3> HIDE DEF row, moved
    <3>3. /\ e.price \in DOMAIN Lad(row) /\ Lad(row)[e.price] = row[e.price]
          /\ Lad(moved) = Lost(Lad(row), e.price, q)
      BY <2>1, <3>1, <3>2, LadLose
    <3> QED BY <3>3 DEF row, moved
  <2>7. [d \in Side |-> Lad(new[d])] = [lad EXCEPT ![e.side] = Lad(new[e.side])]
    BY <2>1, <2>5, OneSideMoves
  <2> QED BY <2>1, <2>6, <2>7
<1>10. ASSUME NEW e \in H, e.sym = s, Trades(s, m, Mark(e), O, P, D)
       PROVE  /\ [d \in Side |-> Lad(new[d])] = [lad EXCEPT ![e.side] =
                     Gained(Lost(lad[e.side], e.price, e.qty), m.price, m.shares)]
              /\ e.price \in DOMAIN lad[e.side] /\ lad[e.side][e.price] \in Nat
  <2>1. e.side \in Side /\ e.price \in Price /\ e.qty <= lev[e.side][e.price] /\ e.qty \in Nat \ {0}
        /\ e.qty \in Int /\ m.price \in Price /\ m.shares \in Nat \ {0} /\ m.shares \in Int
    BY <1>5, <1>10 DEF Trades
  <2>2. D = Delta("U", s, e.side, Level(e.price, e.qty), Level(m.price, m.shares), m.ts)
    BY <1>10 DEF Trades, Mark
  <2>3. D # <<>> /\ Head(D).sym = s /\ Head(D).side = e.side /\ Head(D).add = Level(m.price, m.shares)
        /\ Head(D).rem = Level(e.price, e.qty)
    BY <2>2 DEF Delta
  <2>4. \A x : Volume(Level(e.price, e.qty), x) = IF e.price = x THEN e.qty ELSE 0
    BY <2>1, LevelHas
  <2>5. \A x : Volume(Level(m.price, m.shares), x) = IF m.price = x THEN m.shares ELSE 0
    BY <2>1, LevelHas
  <2>6. \A d, x : Change(D, s, d, x) =
            IF e.side = d THEN (IF m.price = x THEN m.shares ELSE 0) - (IF e.price = x THEN e.qty ELSE 0) ELSE 0
    BY <2>3, <2>4, <2>5 DEF Change
  <2>7. ASSUME NEW d \in Side, d # e.side PROVE Lad(new[d]) = Lad(lev[d])
    <3>1. \A x \in Price : new[d][x] = lev[d][x]
      BY <1>2, <1>3, <2>6, <2>7
    <3> QED BY <1>2, <3>1, SameLad
  <2> DEFINE row == lev[e.side]
             mid == [x \in Price |-> row[x] - IF x = e.price THEN e.qty ELSE 0]
  <2>8. row \in [Price -> Nat]
    BY <1>2, <2>1
  <2>9. mid \in [Price -> Nat] /\ \A x \in Price : mid[x] = row[x] - IF x = e.price THEN e.qty ELSE 0
    BY <2>1, <2>8
  <2>10. \A x \in Price : new[e.side][x] = mid[x] + IF x = m.price THEN m.shares ELSE 0
    BY <1>3, <2>1, <2>6, <2>8
  <2> HIDE DEF mid
  <2>11. /\ e.price \in DOMAIN Lad(row) /\ Lad(row)[e.price] = row[e.price]
         /\ Lad(mid) = Lost(Lad(row), e.price, e.qty)
    <3>1. row \in [Price -> Nat] /\ e.qty <= row[e.price]
          /\ \A x \in Price : mid[x] = row[x] - IF x = e.price THEN e.qty ELSE 0
      BY <2>1, <2>8, <2>9
    <3> HIDE DEF row
    <3> QED BY <2>1, <3>1, LadLose
  <2>12. Lad(new[e.side]) = Gained(Lad(mid), m.price, m.shares)
    BY <2>1, <2>9, <2>10, LadGain
  <2>13. [d \in Side |-> Lad(new[d])] = [lad EXCEPT ![e.side] = Lad(new[e.side])]
    BY <2>1, <2>7, OneSideMoves
  <2>14. row[e.price] \in Nat
    BY <2>1, <2>8
  <2> QED BY <2>1, <2>11, <2>12, <2>13, <2>14
<1>11. ASSUME NEW e \in H, e.sym = s,
              Wanes(s, m, Mark(e), O, P, D) \/ Parts(s, m, Mark(e), O, P, D) \/ Trades(s, m, Mark(e), O, P, D)
       PROVE  LadderMoves(s, m, lad, [d \in Side |-> Lad(new[d])], H, G, D)
  <2>1. Mark(e) \in [side : Side, price : Price, qty : Nat \ {0}] /\ e.qty \in Nat \ {0} /\ e.qty <= e.qty
        /\ Mark(e).side = e.side /\ Mark(e).price = e.price /\ Mark(e).qty = e.qty
    BY <1>5, <1>11 DEF Mark
  <2>2. CASE Wanes(s, m, Mark(e), O, P, D)
    <3> DEFINE q == IF m.shares < e.qty THEN m.shares ELSE e.qty
    <3>1. q \in Nat \ {0} /\ q <= e.qty
      BY <2>1, <2>2 DEF Wanes
    <3>2. D = Delta(m.type, s, e.side, Level(e.price, q), <<>>, m.ts)
      BY <2>1, <2>2 DEF Wanes
    <3> HIDE DEF q, lad
    <3>3. /\ [d \in Side |-> Lad(new[d])] = [lad EXCEPT ![e.side] = Lost(lad[e.side], e.price, q)]
          /\ e.price \in DOMAIN lad[e.side] /\ lad[e.side][e.price] \in Nat
      BY <1>9, <1>11, <3>1, <3>2
    <3> QED BY <2>1, <2>2, <3>3 DEF LadderMoves, q
  <2>3. CASE Parts(s, m, Mark(e), O, P, D)
    <3>1. D = Delta("D", s, e.side, Level(e.price, e.qty), <<>>, m.ts)
      BY <2>1, <2>3 DEF Parts
    <3> HIDE DEF lad
    <3>2. /\ [d \in Side |-> Lad(new[d])] = [lad EXCEPT ![e.side] = Lost(lad[e.side], e.price, e.qty)]
          /\ e.price \in DOMAIN lad[e.side] /\ lad[e.side][e.price] \in Nat
      BY <1>9, <1>11, <2>1, <3>1
    <3> QED BY <2>1, <2>3, <3>2 DEF LadderMoves
  <2>4. CASE Trades(s, m, Mark(e), O, P, D)
    <3> HIDE DEF lad
    <3>1. /\ [d \in Side |-> Lad(new[d])] = [lad EXCEPT ![e.side] =
                     Gained(Lost(lad[e.side], e.price, e.qty), m.price, m.shares)]
          /\ e.price \in DOMAIN lad[e.side] /\ lad[e.side][e.price] \in Nat
      BY <1>10, <1>11, <2>4
    <3> QED BY <2>1, <2>4, <3>1 DEF LadderMoves
  <2> QED BY <1>11, <2>2, <2>3, <2>4
<1>12. LadderMoves(s, m, lad, [d \in Side |-> Lad(new[d])], H, G, D)
  <2> HIDE DEF lad
  <2> QED BY <1>4, <1>7, <1>8, <1>11 DEF Seen
<1> QED BY <1>1, <1>12 DEF m, H, G, D, lev, new

(* ---- against dump_bbo.py ----                                           *)
LEMMA TopIsPrinted ==
    ASSUME NEW s
    PROVE  Bbo(s)!emit /\ (Ladder(s)' = Ladder(s) /\ OrdersOf(s)' = OrdersOf(s) => Bbo(s)!Silent)
<1>1. Bbo(s)!emit
  BY DEF Bbo!emit, Bbo!Top, Bbo!best_bid, Bbo!best_ask, Bbo!at, Best, Max, Min, Bbo!Max, Bbo!Min
<1>2. Ladder(s)' = Ladder(s) /\ OrdersOf(s)' = OrdersOf(s) => Bbo(s)!Silent
  BY DEF Bbo!Silent
<1> QED BY <1>1, <1>2

LEMMA SidesOfBbo ==
    ASSUME NEW s
    PROVE  /\ \A d, p, q : Bbo(s)!add_lvl(d, p, q) = Gained(d, p, q)
           /\ \A d, p, q : p \in DOMAIN d => Bbo(s)!rem_lvl(d, p, q) = Lost(d, p, q)
           /\ \A f, x, y : Bbo(s)!With(f, x, y) = With(f, x, y)
           /\ \A x : Bbo(s)!Forget(x) = Less(OrdersOf(s), x)
  BY DEF Bbo!add_lvl, Bbo!rem_lvl, Bbo!resting, Bbo!With, Bbo!Restrict, Bbo!Forget, Gained, Lost, Less,
         With, Golden!With, Restrict

LEMMA TopMoves ==
    ASSUME NEW s, LadderMoves(s, msg, Ladder(s), Ladder(s)', Held, Held', delta'),
           OrdersOf(s) = Mine(Held, s), OrdersOf(s)' = Mine(Held', s)
    PROVE  Bbo(s)!Message(msg)
<1> DEFINE m == msg
           O == Mine(Held, s)
           P == Mine(Held', s)
           D == delta'
           lad == Ladder(s)
           new == Ladder(s)'
<1>1. LadderMoves(s, m, lad, new, Held, Held', D)
  OBVIOUS
<1>2. Bbo(s)!emit
  BY TopIsPrinted
<1>4. CASE Passes(s, m, O, P, D) /\ new = lad
  <2>1. Bbo(s)!Silent
    BY <1>4, TopIsPrinted DEF Passes
  <2>2. CASE m.type \in {"A", "F"} /\ m.loc # s
    <3>1. Bbo(s)!Add(m)
      BY <2>1, <2>2 DEF Bbo!Add
    <3> QED BY <2>2, <3>1, Zenon DEF Bbo!Message
  <2>3. CASE m.type \in Executes \cup {"D", "U"} /\ m.ref \notin DOMAIN O
    <3>1. ~Bbo(s)!Known(m.ref)
      BY <2>3 DEF Bbo!Known
    <3>2. Bbo(s)!Reduce(m) /\ Bbo(s)!Delete(m) /\ Bbo(s)!Replace(m)
      BY <2>1, <3>1 DEF Bbo!Reduce, Bbo!Delete, Bbo!Replace
    <3> QED BY <2>3, <3>2, Zenon DEF Bbo!Message, Executes
  <2>4. CASE m.type = "P"
    BY <2>1, <2>4, Zenon DEF Bbo!Message
  <2> QED BY <1>4, <2>2, <2>3, <2>4 DEF Passes
<1>5. CASE /\ Joins(s, m, O, P, D)
           /\ new = [lad EXCEPT ![m.side] = Gained(lad[m.side], m.price, m.shares)]
  <2>1. m.type \in {"A", "F"} /\ m.loc = s
        /\ P = With(O, m.ref, [side |-> m.side, price |-> m.price, qty |-> m.shares])
    BY <1>5 DEF Joins
  <2>2. OrdersOf(s)' = Bbo(s)!With(OrdersOf(s), m.ref, [side |-> m.side, price |-> m.price, qty |-> m.shares])
    BY <2>1, SidesOfBbo
  <2>3. Bbo(s)!add_lvl(lad[m.side], m.price, m.shares) = Gained(lad[m.side], m.price, m.shares)
    BY SidesOfBbo
  <2>4. new = [lad EXCEPT ![m.side] = Bbo(s)!add_lvl(lad[m.side], m.price, m.shares)]
    BY <1>5, <2>3, Zenon
  <2>5. Bbo(s)!Add(m)
    BY <1>2, <2>1, <2>2, <2>4 DEF Bbo!Add
  <2> QED BY <2>1, <2>5, Zenon DEF Bbo!Message
<1>6. ASSUME NEW o \in [side : Side, price : Price, qty : Nat \ {0}], o.price \in DOMAIN lad[o.side],
             Wanes(s, m, o, O, P, D),
             new = [lad EXCEPT ![o.side] =
                      Lost(lad[o.side], o.price, IF m.shares < o.qty THEN m.shares ELSE o.qty)]
      PROVE  Bbo(s)!Message(m)
  <2>1. /\ m.type \in Executes /\ m.ref \in DOMAIN O /\ O[m.ref] = o
        /\ P = IF o.qty - m.shares <= 0 THEN Less(O, m.ref) ELSE [O EXCEPT ![m.ref].qty = o.qty - m.shares]
    BY <1>6 DEF Wanes
  <2>2. [O EXCEPT ![m.ref].qty = o.qty - m.shares] = [O EXCEPT ![m.ref].qty = @ - m.shares]
    BY <2>1
  <2> DEFINE q == IF m.shares < o.qty THEN m.shares ELSE o.qty
  <2>3. Bbo(s)!Known(m.ref) /\ OrdersOf(s)[m.ref] = o
    BY <2>1 DEF Bbo!Known
  <2>4. OrdersOf(s)' = IF o.qty - m.shares <= 0 THEN Bbo(s)!Forget(m.ref)
                       ELSE [OrdersOf(s) EXCEPT ![m.ref].qty = @ - m.shares]
    BY <2>1, <2>2, SidesOfBbo
  <2>5. Bbo(s)!rem_lvl(lad[o.side], o.price, q) = Lost(lad[o.side], o.price, q)
    BY <1>6, SidesOfBbo
  <2>6. new = [lad EXCEPT ![o.side] = Bbo(s)!rem_lvl(lad[o.side], o.price, q)]
    BY <1>6, <2>5, Zenon
  <2>7. Bbo(s)!Reduce(m)
    BY <1>2, <2>3, <2>4, <2>6 DEF Bbo!Reduce
  <2> QED BY <2>1, <2>7, Zenon DEF Bbo!Message, Executes
<1>7. ASSUME NEW o \in [side : Side, price : Price, qty : Nat \ {0}], o.price \in DOMAIN lad[o.side],
             Parts(s, m, o, O, P, D), new = [lad EXCEPT ![o.side] = Lost(lad[o.side], o.price, o.qty)]
      PROVE  Bbo(s)!Message(m)
  <2>1. m.type = "D" /\ m.ref \in DOMAIN O /\ O[m.ref] = o /\ P = Less(O, m.ref)
    BY <1>7 DEF Parts
  <2>2. Bbo(s)!Known(m.ref) /\ OrdersOf(s)[m.ref] = o
    BY <2>1 DEF Bbo!Known
  <2>3. OrdersOf(s)' = Bbo(s)!Forget(m.ref)
    BY <2>1, SidesOfBbo
  <2>4. Bbo(s)!rem_lvl(lad[o.side], o.price, o.qty) = Lost(lad[o.side], o.price, o.qty)
    BY <1>7, SidesOfBbo
  <2>5. new = [lad EXCEPT ![o.side] = Bbo(s)!rem_lvl(lad[o.side], o.price, o.qty)]
    BY <1>7, <2>4, Zenon
  <2>6. Bbo(s)!Delete(m)
    BY <1>2, <2>2, <2>3, <2>5 DEF Bbo!Delete
  <2> QED BY <2>1, <2>6, Zenon DEF Bbo!Message
<1>8. ASSUME NEW o \in [side : Side, price : Price, qty : Nat \ {0}], o.price \in DOMAIN lad[o.side],
             Trades(s, m, o, O, P, D),
             new = [lad EXCEPT ![o.side] = Gained(Lost(lad[o.side], o.price, o.qty), m.price, m.shares)]
      PROVE  Bbo(s)!Message(m)
  <2>1. /\ m.type = "U" /\ m.ref \in DOMAIN O /\ O[m.ref] = o
        /\ P = With(Less(O, m.ref), m.newRef, [side |-> o.side, price |-> m.price, qty |-> m.shares])
    BY <1>8 DEF Trades
  <2>2. Bbo(s)!Known(m.ref) /\ OrdersOf(s)[m.ref] = o
    BY <2>1 DEF Bbo!Known
  <2>3. OrdersOf(s)' = Bbo(s)!With(Bbo(s)!Forget(m.ref), m.newRef,
                                   [side |-> o.side, price |-> m.price, qty |-> m.shares])
    BY <2>1, SidesOfBbo
  <2>4. Bbo(s)!add_lvl(Bbo(s)!rem_lvl(lad[o.side], o.price, o.qty), m.price, m.shares)
        = Gained(Lost(lad[o.side], o.price, o.qty), m.price, m.shares)
    BY <1>8, SidesOfBbo
  <2>5. new = [lad EXCEPT ![o.side] =
                 Bbo(s)!add_lvl(Bbo(s)!rem_lvl(lad[o.side], o.price, o.qty), m.price, m.shares)]
    BY <1>8, <2>4, Zenon
  <2>6. Bbo(s)!Replace(m)
    BY <1>2, <2>2, <2>3, <2>5 DEF Bbo!Replace
  <2> QED BY <2>1, <2>6, Zenon DEF Bbo!Message
<1> QED BY <1>1, <1>4, <1>5, <1>6, <1>7, <1>8 DEF LadderMoves

LEMMA OutcomeKeepsOne ==
    ASSUME NEW m, NEW H, NEW G, NEW D, OneEach(H), Outcome(m, H, G, D)
    PROVE  OneEach(G)
<1>1. ASSUME Adds(m, H, G, D) PROVE OneEach(G)
  BY <1>1 DEF Adds, OneEach, Absent, Entry
<1>2. ASSUME NEW e \in H, Reduces(m, e, H, G, D) PROVE OneEach(G)
  <2>1. CASE e.qty <= m.shares
    BY <1>2, <2>1 DEF Reduces, OneEach
  <2>2. CASE ~(e.qty <= m.shares)
    <3> DEFINE f == [e EXCEPT !.qty = @ - m.shares]
    <3>1. e \in OrderRec /\ e.qty \in Nat \ {0} /\ m.shares \in Nat \ {0}
      BY <1>2 DEF OneEach, OrderRec, Reduces
    <3>2. e.qty - m.shares \in Nat \ {0}
      BY <2>2, <3>1
    <3>3. f \in OrderRec /\ f.ref = e.ref
      BY <3>1, <3>2 DEF OrderRec
    <3>4. G = (H \ {e}) \cup {f}
      BY <1>2, <2>2 DEF Reduces
    <3> HIDE DEF f
    <3> QED BY <3>3, <3>4 DEF OneEach
  <2> QED BY <2>1, <2>2
<1>3. ASSUME NEW e \in H, Deletes(m, e, H, G, D) PROVE OneEach(G)
  BY <1>3 DEF Deletes, OneEach
<1>4. ASSUME NEW e \in H, Swaps(m, e, H, G, D) PROVE OneEach(G)
  BY <1>4 DEF Swaps, OneEach, Absent, Entry
<1>5. ASSUME Skips(m, H, G, D) PROVE OneEach(G)
  BY <1>5 DEF Skips
<1> QED BY <1>1, <1>2, <1>3, <1>4, <1>5 DEF Outcome

(* What the step that finishes a message does to every symbol: what one of *)
(* its orders does, or nothing.                                            *)
LEMMA FinishMoves ==
    ASSUME ReplaceFits, TableInv, LedgerInv, [Next]_vars, Finishes, ~Drops, NEW s \in Sym
    PROVE  /\ LadderMoves(s, msg, Ladder(s), Ladder(s)', Held, Held', delta')
           /\ OrdersOf(s) = Mine(Held, s) /\ OrdersOf(s)' = Mine(Held', s)
<1>1. ~UNCHANGED vars
  BY DEF Finishes, vars, tableVars
<1>2. OutcomeStep /\ Next
  BY <1>1, TableStep
<1>3. OneEach(Held) /\ Outcome(msg, Held, Held', delta')
  BY <1>2 DEF OutcomeStep
<1>4. levels' = LevelsAfter
  BY <1>2 DEF Next, Tick
<1>5. OneEach(Held')
  BY <1>3, OutcomeKeepsOne
<1>6. Moves
  BY <1>2, OutcomeMoves
<1> QED BY <1>3, <1>4, <1>5, <1>6, LaddersMove, MineIs

(* Every message moves the top of every book as dump_bbo.py prints it,     *)
(* which keeps orders and ladder of its own: the deltas are enough to      *)
(* follow the best price and size, for any symbols, prices and orders.     *)
THEOREM TopsAreTheGoldens ==
    ASSUME ReplaceFits
    PROVE  Spec => TopsAreGolden
<1>1. ASSUME TableInv, LedgerInv, [Next]_vars
      PROVE  [Finishes /\ ~Drops => \A s \in Sym : Bbo(s)!Message(msg)]_vars
  BY <1>1, FinishMoves, TopMoves
<1> QED BY <1>1, TableSound, LedgerSound, PTL DEF Spec, TopsAreGolden
-----------------------------------------------------------------------------
(* ---- against dump_sweep.py and sweep_grid.py ----                       *)
RunRec(r) ==
    /\ r.dir \in {"idle", "buy", "sell"}
    /\ r = [f \in {"dir", "frontier", "levels", "shares", "last"} |-> r[f]]

RunsInv == DOMAIN run = Sym /\ \A s \in Sym : RunRec(run[s])

(* What the record D makes of the run R of the symbol s.                   *)
After(R, s, D)  == IF D # <<>> /\ Head(D).sym = s THEN RunAfter(R, Head(D)) ELSE R
Breaks(R, s, D) == D # <<>> /\ Head(D).sym = s /\ is_exec(Head(D)) /\ brk(R, Head(D))

LEMMA AfterIsRun == ASSUME NEW R, NEW d, RunRec(R) PROVE RunRec(RunAfter(R, d))
<1>1. RunRec(start_run(d))
  BY DEF RunRec, start_run, exec_dir
<1>2. RunRec(extend(R, d))
  BY DEF RunRec, extend
<1> QED BY <1>1, <1>2 DEF RunAfter

LEMMA InitRuns == Init => RunsInv
  BY DEF Init, DetectInit, IdleRun, RunsInv, RunRec

LEMMA RunsMove ==
    ASSUME RunsInv, DetectTick(delta)
    PROVE  RunsInv' /\ \A s \in Sym : run'[s] = RunSeen(s) /\ RunRec(RunSeen(s))
<1>1. \A s \in Sym : run'[s] = RunSeen(s)
  BY DEF RunsInv, DetectTick, RunSeen, ForDetector
<1>2. \A s \in Sym : RunRec(RunSeen(s))
  BY AfterIsRun DEF RunsInv, RunSeen
<1>3. DOMAIN run' = Sym
  BY DEF RunsInv, DetectTick
<1> QED BY <1>1, <1>2, <1>3 DEF RunsInv

LEMMA RunsSound == Spec => []RunsInv
<1>1. RunsInv /\ [Next]_vars => RunsInv'
  <2>1. CASE UNCHANGED vars
    BY <2>1 DEF vars, sweepVars, RunsInv
  <2>2. ASSUME RunsInv, Next PROVE RunsInv'
    BY <2>2, RunsMove DEF Next, Tick
  <2> QED BY <2>1, <2>2
<1> QED BY <1>1, InitRuns, PTL DEF Spec

LEMMA SeenMoves ==
    ASSUME NEW s, run'[s] = RunSeen(s)
    PROVE  LET R == RunSeen(s) IN
           /\ RunSeen(s)' = After(R, s, delta')
           /\ SweepSeen(s)' = IF Breaks(R, s, delta') /\ R.levels >= SwMinLevels THEN <<Pulse(R)>> ELSE <<>>
           /\ RunBroken(s)' = IF Breaks(R, s, delta')
                              THEN <<[ts_end |-> R.last, dir |-> Dir(R), levels |-> R.levels]>> ELSE <<>>
<1>1. RunSeen(s)' = After(RunSeen(s), s, delta')
  BY DEF RunSeen, ForDetector, After
<1>2. SweepSeen(s)' = IF Breaks(RunSeen(s), s, delta') /\ RunSeen(s).levels >= SwMinLevels
                      THEN <<Pulse(RunSeen(s))>> ELSE <<>>
  BY DEF SweepSeen, ForDetector, Breaks, Fires
<1>3. RunBroken(s)' = IF Breaks(RunSeen(s), s, delta')
                      THEN <<[ts_end |-> RunSeen(s).last, dir |-> Dir(RunSeen(s)),
                              levels |-> RunSeen(s).levels]>> ELSE <<>>
  BY DEF RunBroken, ForDetector, Breaks, Dir
<1> QED BY <1>1, <1>2, <1>3

LEMMA DirIs == ASSUME NEW r
               PROVE  /\ r.dir = "buy" => Dir(r) = 1
                      /\ r.dir = "sell" => Dir(r) = -1
                      /\ r.dir = "idle" => Dir(r) = 0
  BY Zenon DEF Dir

LEMMA KeepsWhatFires ==
    ASSUME NEW s, run'[s] = RunSeen(s)
    PROVE  DOMAIN SweepSeen(s)' = Grid(s)!Kept(RunBroken(s)', SwMinLevels)
<1> DEFINE R == RunSeen(s)
           b == [ts_end |-> R.last, dir |-> Dir(R), levels |-> R.levels]
<1>1. CASE Breaks(R, s, delta')
  <2>1. RunBroken(s)' = <<b>> /\ b.levels = R.levels
    BY <1>1, SeenMoves
  <2>2. DOMAIN <<b>> = {1} /\ <<b>>[1] = b
    OBVIOUS
  <2>3. Grid(s)!Kept(RunBroken(s)', SwMinLevels) = IF R.levels >= SwMinLevels THEN {1} ELSE {}
    BY <2>1, <2>2 DEF Grid!Kept
  <2>4. SweepSeen(s)' = IF R.levels >= SwMinLevels THEN <<Pulse(R)>> ELSE <<>>
    BY <1>1, SeenMoves
  <2> QED BY <2>3, <2>4
<1>2. CASE ~Breaks(R, s, delta')
  <2>1. RunBroken(s)' = <<>> /\ SweepSeen(s)' = <<>>
    BY <1>2, SeenMoves
  <2> QED BY <2>1 DEF Grid!Kept
<1> QED BY <1>1, <1>2

(* A message that is no execution of the symbol leaves its run alone.      *)
LEMMA RunStays ==
    ASSUME NEW s, run'[s] = RunSeen(s), delta' # <<>> /\ Head(delta').sym = s => ~is_exec(Head(delta'))
    PROVE  Sweep(s)!NoRunMoves /\ Grid(s)!NoExec
<1> DEFINE R == RunSeen(s)
<1>1. ~Breaks(R, s, delta')
  BY DEF Breaks
<1>2. RunSeen(s)' = R
  BY SeenMoves DEF After, RunAfter
<1>3. SweepSeen(s)' = <<>> /\ RunBroken(s)' = <<>>
  BY <1>1, SeenMoves
<1>4. Dir(RunSeen(s))' = Dir(RunSeen(s))
  BY <1>2
<1>5. Sweep(s)!NoRunMoves
  BY <1>2, <1>3, <1>4 DEF Sweep!NoRunMoves, Sweep!runVars
<1>6. Grid(s)!NoExec
  BY <1>2, <1>3, <1>4 DEF Grid!NoExec, Grid!runVars
<1> QED BY <1>5, <1>6

(* An execution of one of the symbol's orders: a new run, or the run goes  *)
(* on, as both models take it.                                             *)
Runs(s, ts, dir, price, q) ==
    LET R    == RunSeen(s)
        ends == Dir(R) # 0 /\ (dir # Dir(R) \/ ts - R.last > SwGap)
    IN  /\ SweepSeen(s)' = IF ends THEN Sweep(s)!close_run ELSE <<>>
        /\ IF ends \/ Dir(R) = 0 THEN Sweep(s)!Begin(dir, price, q) ELSE Sweep(s)!Walk(dir, price, q)
        /\ RunSeen(s).last' = ts
        /\ Grid(s)!Grouped(ts, dir, price)

LEMMA RunTrades ==
    ASSUME NEW s, run'[s] = RunSeen(s), RunRec(RunSeen(s)),
           NEW t \in {"E", "C"}, NEW side \in Side, NEW price, NEW q, NEW ts,
           delta' = Delta(t, s, side, Level(price, q), <<>>, ts)
    PROVE  Runs(s, ts, IF side = "S" THEN 1 ELSE -1, price, q)
<1> DEFINE R == RunSeen(s)
           N == RunSeen(s)'
           d == Head(delta')
           dir == IF side = "S" THEN 1 ELSE -1
           ends == Dir(R) # 0 /\ (dir # Dir(R) \/ ts - R.last > SwGap)
           begins == ends \/ Dir(R) = 0
           walks == (dir > 0 /\ price > R.frontier) \/ (dir < 0 /\ price < R.frontier)
<1>1. /\ delta' # <<>> /\ d.sym = s /\ d.side = side /\ d.type = t /\ d.ts = ts
      /\ d.rem # <<>> /\ Head(d.rem).price = price /\ Head(d.rem).qty = q
  BY DEF Delta, Level
<1>2. is_exec(d)
  BY <1>1 DEF is_exec
<1>3. /\ R.dir \in {"idle", "buy", "sell"} /\ Dir(R) \in {0, 1, -1}
      /\ (R.dir = "idle") <=> (Dir(R) = 0)
      /\ (R.dir = "buy") <=> (Dir(R) = 1)
      /\ (R.dir = "sell") <=> (Dir(R) = -1)
  BY DirIs DEF RunRec
<1>4. side \in {"B", "S"} /\ exec_dir(d) = IF side = "S" THEN "buy" ELSE "sell"
  BY <1>1 DEF Side, exec_dir
<1>5. brk(R, d) <=> ends
  BY <1>1, <1>3, <1>4 DEF brk
<1>6. Breaks(R, s, delta') <=> ends
  BY <1>1, <1>2, <1>5 DEF Breaks
<1>7. N = IF begins THEN start_run(d) ELSE extend(R, d)
  BY <1>1, <1>2, <1>3, <1>5, SeenMoves DEF After, RunAfter
<1>8. begins => /\ Dir(N) = dir /\ N.frontier = price /\ N.levels = 1 /\ N.shares = q /\ N.last = ts
  BY <1>1, <1>4, <1>7, DirIs DEF start_run
<1>9. ~begins => dir = Dir(R) /\ (push(R, d) <=> walks)
  BY <1>1, <1>3, <1>4 DEF push
<1>10. ~begins => /\ Dir(N) = dir /\ N.frontier = (IF walks THEN price ELSE R.frontier)
                  /\ N.levels = (IF walks THEN R.levels + 1 ELSE R.levels)
                  /\ N.shares = R.shares + q /\ N.last = ts
  <2>1. /\ extend(R, d).dir = R.dir
        /\ extend(R, d).frontier = (IF push(R, d) THEN Head(d.rem).price ELSE R.frontier)
        /\ extend(R, d).levels = (IF push(R, d) THEN R.levels + 1 ELSE R.levels)
        /\ extend(R, d).shares = R.shares + Head(d.rem).qty /\ extend(R, d).last = d.ts
    BY DEF RunRec, extend
  <2>2. ~begins => N = extend(R, d)
    BY <1>7
  <2> HIDE DEF N, R
  <2>3. ~begins => /\ N.dir = R.dir /\ N.frontier = (IF walks THEN price ELSE R.frontier)
                   /\ N.levels = (IF walks THEN R.levels + 1 ELSE R.levels)
                   /\ N.shares = R.shares + q /\ N.last = ts
    BY <1>1, <1>9, <2>1, <2>2
  <2>4. ~begins => Dir(N) = Dir(R)
    BY <1>3, <2>3, DirIs
  <2> QED BY <1>9, <2>3, <2>4
<1>11. /\ SweepSeen(s)' = IF ends /\ R.levels >= SwMinLevels THEN <<Pulse(R)>> ELSE <<>>
       /\ RunBroken(s)' = IF ends THEN <<[ts_end |-> R.last, dir |-> Dir(R), levels |-> R.levels]>> ELSE <<>>
  BY <1>6, SeenMoves
<1>12. ends => Sweep(s)!close_run = IF R.levels >= SwMinLevels THEN <<Pulse(R)>> ELSE <<>>
  BY <1>3 DEF Sweep!close_run, Pulse
<1>13. N.last = RunSeen(s).last' /\ Dir(N) = Dir(RunSeen(s))' /\ N.frontier = RunSeen(s).frontier'
       /\ N.levels = RunSeen(s).levels' /\ N.shares = RunSeen(s).shares'
  OBVIOUS
<1> HIDE DEF N, d, dir
<1>14. begins => Sweep(s)!Begin(dir, price, q)
  BY <1>8, <1>13 DEF Sweep!Begin
<1>15. ~begins => Sweep(s)!Walk(dir, price, q)
  BY <1>9, <1>10, <1>13 DEF Sweep!Walk
<1>16. Grid(s)!Grouped(ts, dir, price)
  BY <1>8, <1>9, <1>10, <1>11, <1>13 DEF Grid!Grouped
<1>17. RunSeen(s).last' = ts
  BY <1>8, <1>10, <1>13
<1> QED BY <1>11, <1>12, <1>14, <1>15, <1>16, <1>17 DEF Runs, dir

LEMMA OrdersOfSweep ==
    ASSUME NEW s
    PROVE  /\ \A f, x, y : Sweep(s)!With(f, x, y) = With(f, x, y)
           /\ \A x : Sweep(s)!Forget(x) = Less(OrdersOf(s), x)
           /\ \A x : Sweep(s)!Known(x) <=> x \in DOMAIN OrdersOf(s)
  BY DEF Sweep!With, Sweep!Forget, Sweep!Known, Sweep!Restrict, Less, With, Golden!With, Restrict

LEMMA SidesOfGrid ==
    ASSUME NEW s
    PROVE  /\ \A d, p, q : Grid(s)!add_lvl(d, p, q) = Gained(d, p, q)
           /\ \A f, x, y : Grid(s)!With(f, x, y) = With(f, x, y)
           /\ \A x : Grid(s)!Forget(x) = Less(OrdersOf(s), x)
           /\ \A x : Grid(s)!Known(x) <=> x \in DOMAIN OrdersOf(s)
           /\ \A a, b : Grid(s)!Less(a, b) = IF a < b THEN a ELSE b
  BY DEF Grid!add_lvl, Grid!Resting, Grid!With, Grid!Forget, Grid!Known, Grid!Restrict, Grid!Less, Gained,
         Less, With, Golden!With, Restrict

LEMMA GridLoses ==
    ASSUME NEW s, NEW d, d = [x \in DOMAIN d |-> d[x]], NEW p \in DOMAIN d, d[p] \in Nat, NEW q \in Nat
    PROVE  Grid(s)!rem_lvl(d, p, q) = Lost(d, p, q)
<1>1. d[p] <= q <=> d[p] - q <= 0
  OBVIOUS
<1>2. [d EXCEPT ![p] = @ - q] = With(d, p, d[p] - q)
  BY DEF With, Golden!With
<1> QED BY <1>1, <1>2 DEF Grid!rem_lvl, Grid!Resting, Grid!Restrict, Lost, Less, Restrict

(* One side of the ladder moves, in dump_bbo.py's shape and in the other.  *)
LEMMA GridLevel ==
    ASSUME NEW s, NEW z \in Side, NEW row, Ladder(s)' = [Ladder(s) EXCEPT ![z] = row]
    PROVE  Grid(s)!Level(z, row)
<1>1. Ladder(s) = [d \in Side |-> Ladder(s)[d]]
  BY DEF Ladder
<1> QED BY <1>1 DEF Grid!Level, Side

LEMMA GridLvls ==
    ASSUME NEW s, NEW z \in Side
    PROVE  Grid(s)!Lvls(z) = Ladder(s)[z]
  BY DEF Grid!Lvls, Side

LEMMA Repriced ==
    ASSUME NEW o \in [side : Side, price : Price, qty : Nat \ {0}], NEW p, NEW q
    PROVE  [o EXCEPT !.price = p, !.qty = q] = [side |-> o.side, price |-> p, qty |-> q]
<1> DEFINE a == [o EXCEPT !.price = p, !.qty = q]
           b == [side |-> o.side, price |-> p, qty |-> q]
<1>1. a = [f \in {"side", "price", "qty"} |-> a[f]]
  OBVIOUS
<1>2. b = [f \in {"side", "price", "qty"} |-> b[f]]
  OBVIOUS
<1>3. a["side"] = b["side"] /\ a["price"] = b["price"] /\ a["qty"] = b["qty"]
  OBVIOUS
<1> HIDE DEF a, b
<1>4. a = b
  BY <1>1, <1>2, <1>3
<1> QED BY <1>4 DEF a, b

(* A message moves the run of a symbol, and its orders next to it, as the  *)
(* detector's model and the parameter sweep move theirs.                   *)
LEMMA RunMoves ==
    ASSUME NEW s \in Sym, run'[s] = RunSeen(s), RunRec(RunSeen(s)),
           LadderMoves(s, msg, Ladder(s), Ladder(s)', Held, Held', delta'),
           OrdersOf(s) = Mine(Held, s), OrdersOf(s)' = Mine(Held', s)
    PROVE  Sweep(s)!Message(msg) /\ Grid(s)!Message(msg)
<1> DEFINE m == msg
           O == Mine(Held, s)
           P == Mine(Held', s)
           D == delta'
           lad == Ladder(s)
           new == Ladder(s)'
<1>1. LadderMoves(s, m, lad, new, Held, Held', D)
  OBVIOUS
<1>2. \A d \in Side : lad[d] = [x \in DOMAIN lad[d] |-> lad[d][x]]
  BY DEF Ladder
<1>3. (D # <<>> /\ Head(D).sym = s => ~is_exec(Head(D))) => Sweep(s)!NoRunMoves /\ Grid(s)!NoExec
  BY RunStays
<1>4. CASE Passes(s, m, O, P, D) /\ new = lad
  <2>1. Sweep(s)!Silent /\ Grid(s)!Silent
    BY <1>3, <1>4 DEF Passes, Sweep!Silent, Grid!Silent
  <2>2. CASE m.type \in {"A", "F"} /\ m.loc # s
    <3>1. Sweep(s)!Add(m) /\ Grid(s)!Add(m)
      BY <2>1, <2>2 DEF Sweep!Add, Grid!Add
    <3> QED BY <2>2, <3>1, Zenon DEF Sweep!Message, Grid!Message
  <2>3. CASE m.type \in Executes \cup {"D", "U"} /\ m.ref \notin DOMAIN O
    <3>1. ~Sweep(s)!Known(m.ref) /\ ~Grid(s)!Known(m.ref)
      BY <2>3 DEF Sweep!Known, Grid!Known
    <3>2. /\ Sweep(s)!Execution(m) /\ Sweep(s)!Cancel(m) /\ Sweep(s)!Delete(m) /\ Sweep(s)!Replace(m)
          /\ Grid(s)!Execution(m) /\ Grid(s)!Cancel(m) /\ Grid(s)!Delete(m) /\ Grid(s)!Replace(m)
      BY <2>1, <3>1 DEF Sweep!Execution, Sweep!Cancel, Sweep!Delete, Sweep!Replace,
                        Grid!Execution, Grid!Cancel, Grid!Delete, Grid!Replace
    <3> QED BY <2>3, <3>2, Zenon DEF Sweep!Message, Grid!Message, Executes
  <2>4. CASE m.type = "P"
    BY <2>1, <2>4, Zenon DEF Sweep!Message, Grid!Message
  <2> QED BY <1>4, <2>2, <2>3, <2>4 DEF Passes
<1>5. CASE /\ Joins(s, m, O, P, D)
           /\ new = [lad EXCEPT ![m.side] = Gained(lad[m.side], m.price, m.shares)]
  <2> DEFINE o == [side |-> m.side, price |-> m.price, qty |-> m.shares]
  <2>1. m.type \in {"A", "F"} /\ m.loc = s /\ m.side \in Side /\ P = With(O, m.ref, o)
        /\ D = Delta(m.type, s, m.side, <<>>, Level(m.price, m.shares), m.ts)
    BY <1>5 DEF Joins
  <2>2. Sweep(s)!NoRunMoves /\ Grid(s)!NoExec
    BY <1>3, <2>1 DEF is_exec, Delta
  <2>3. OrdersOf(s)' = Sweep(s)!With(OrdersOf(s), m.ref, o) /\ OrdersOf(s)' = Grid(s)!With(OrdersOf(s), m.ref, o)
    BY <2>1, OrdersOfSweep, SidesOfGrid
  <2>4. Grid(s)!add_lvl(Grid(s)!Lvls(m.side), m.price, m.shares) = Gained(lad[m.side], m.price, m.shares)
    BY <2>1, SidesOfGrid, GridLvls
  <2>5. Grid(s)!Level(m.side, Grid(s)!add_lvl(Grid(s)!Lvls(m.side), m.price, m.shares))
    BY <1>5, <2>1, <2>4, GridLevel
  <2>6. Sweep(s)!Add(m) /\ Grid(s)!Add(m)
    BY <2>1, <2>2, <2>3, <2>5 DEF Sweep!Add, Grid!Add
  <2> QED BY <2>1, <2>6, Zenon DEF Sweep!Message, Grid!Message
<1>6. ASSUME NEW o \in [side : Side, price : Price, qty : Nat \ {0}],
             o.price \in DOMAIN lad[o.side], lad[o.side][o.price] \in Nat,
             Wanes(s, m, o, O, P, D),
             new = [lad EXCEPT ![o.side] =
                      Lost(lad[o.side], o.price, IF m.shares < o.qty THEN m.shares ELSE o.qty)]
      PROVE  Sweep(s)!Message(m) /\ Grid(s)!Message(m)
  <2> DEFINE q == IF m.shares < o.qty THEN m.shares ELSE o.qty
             left == IF o.qty - m.shares <= 0 THEN Less(O, m.ref) ELSE [O EXCEPT ![m.ref].qty = @ - m.shares]
  <2>1. /\ m.type \in Executes /\ m.ref \in DOMAIN O /\ O[m.ref] = o /\ m.shares \in Nat \ {0}
        /\ P = left /\ D = Delta(m.type, s, o.side, Level(o.price, q), <<>>, m.ts)
    BY <1>6 DEF Wanes
  <2>2. Sweep(s)!Known(m.ref) /\ Grid(s)!Known(m.ref) /\ OrdersOf(s)[m.ref] = o
    BY <2>1, OrdersOfSweep, SidesOfGrid
  <2>3. OrdersOf(s)' = Sweep(s)!Without(m)
    BY <2>1, <2>2, OrdersOfSweep DEF Sweep!Without
  <2>4. q \in Nat /\ Grid(s)!Less(m.shares, o.qty) = q
    BY <1>6, <2>1, SidesOfGrid
  <2>5. Grid(s)!rem_lvl(Grid(s)!Lvls(o.side), o.price, Grid(s)!Less(m.shares, o.qty)) = Lost(lad[o.side], o.price, q)
    <3>1. Grid(s)!rem_lvl(lad[o.side], o.price, q) = Lost(lad[o.side], o.price, q)
      <4> DEFINE row == lad[o.side]
      <4>1. row = [x \in DOMAIN row |-> row[x]] /\ o.price \in DOMAIN row /\ row[o.price] \in Nat
        BY <1>2, <1>6
      <4> HIDE DEF row, q
      <4>2. Grid(s)!rem_lvl(row, o.price, q) = Lost(row, o.price, q)
        BY <2>4, <4>1, GridLoses
      <4> QED BY <4>2 DEF row, q
    <3> QED BY <1>6, <2>4, <3>1, GridLvls
  <2>6. Grid(s)!Level(o.side, Grid(s)!rem_lvl(Grid(s)!Lvls(o.side), o.price, Grid(s)!Less(m.shares, o.qty)))
    BY <1>6, <2>5, GridLevel
  <2>7. OrdersOf(s)' = IF o.qty - m.shares <= 0 THEN Grid(s)!Forget(m.ref)
                       ELSE [OrdersOf(s) EXCEPT ![m.ref].qty = @ - m.shares]
    BY <2>1, SidesOfGrid
  <2>8. Grid(s)!Reduced(m)
    BY <2>2, <2>6, <2>7 DEF Grid!Reduced
  <2>9. CASE m.type = "X"
    <3>1. Sweep(s)!NoRunMoves /\ Grid(s)!NoExec
      BY <1>3, <2>1, <2>9 DEF is_exec, Delta
    <3>2. Sweep(s)!Cancel(m) /\ Grid(s)!Cancel(m)
      BY <2>2, <2>3, <2>8, <3>1 DEF Sweep!Cancel, Grid!Cancel
    <3> QED BY <2>9, <3>2, Zenon DEF Sweep!Message, Grid!Message
  <2>10. CASE m.type \in {"E", "C"}
    <3>1. Runs(s, m.ts, IF o.side = "S" THEN 1 ELSE -1, o.price, q)
      <4> HIDE DEF q
      <4> QED BY <1>6, <2>1, <2>10, RunTrades
    <3>2. Sweep(s)!Execution(m) /\ Grid(s)!Execution(m)
      BY <2>2, <2>3, <2>8, <3>1 DEF Runs, Sweep!Execution, Grid!Execution
    <3> QED BY <2>10, <3>2, Zenon DEF Sweep!Message, Grid!Message
  <2> QED BY <2>1, <2>9, <2>10 DEF Executes
<1>7. ASSUME NEW o \in [side : Side, price : Price, qty : Nat \ {0}],
             o.price \in DOMAIN lad[o.side], lad[o.side][o.price] \in Nat,
             Parts(s, m, o, O, P, D), new = [lad EXCEPT ![o.side] = Lost(lad[o.side], o.price, o.qty)]
      PROVE  Sweep(s)!Message(m) /\ Grid(s)!Message(m)
  <2>1. /\ m.type = "D" /\ m.ref \in DOMAIN O /\ O[m.ref] = o /\ P = Less(O, m.ref)
        /\ D = Delta("D", s, o.side, Level(o.price, o.qty), <<>>, m.ts)
    BY <1>7 DEF Parts
  <2>2. Sweep(s)!Known(m.ref) /\ Grid(s)!Known(m.ref) /\ OrdersOf(s)[m.ref] = o
    BY <2>1, OrdersOfSweep, SidesOfGrid
  <2>3. Sweep(s)!NoRunMoves /\ Grid(s)!NoExec
    BY <1>3, <2>1 DEF is_exec, Delta
  <2>4. OrdersOf(s)' = Sweep(s)!Forget(m.ref) /\ OrdersOf(s)' = Grid(s)!Forget(m.ref)
    BY <2>1, OrdersOfSweep, SidesOfGrid
  <2>5. Grid(s)!rem_lvl(lad[o.side], o.price, o.qty) = Lost(lad[o.side], o.price, o.qty)
    <3> DEFINE row == lad[o.side]
    <3>1. /\ row = [x \in DOMAIN row |-> row[x]] /\ o.price \in DOMAIN row /\ row[o.price] \in Nat
          /\ o.qty \in Nat
      BY <1>2, <1>7
    <3> HIDE DEF row
    <3>2. Grid(s)!rem_lvl(row, o.price, o.qty) = Lost(row, o.price, o.qty)
      BY <3>1, GridLoses
    <3> QED BY <3>2 DEF row
  <2>6. Grid(s)!Level(o.side, Grid(s)!rem_lvl(Grid(s)!Lvls(o.side), o.price, o.qty))
    BY <1>7, <2>5, GridLevel, GridLvls
  <2>7. Sweep(s)!Delete(m) /\ Grid(s)!Delete(m)
    BY <2>2, <2>3, <2>4, <2>6 DEF Sweep!Delete, Grid!Delete
  <2> QED BY <2>1, <2>7, Zenon DEF Sweep!Message, Grid!Message
<1>8. ASSUME NEW o \in [side : Side, price : Price, qty : Nat \ {0}],
             o.price \in DOMAIN lad[o.side], lad[o.side][o.price] \in Nat,
             Trades(s, m, o, O, P, D),
             new = [lad EXCEPT ![o.side] = Gained(Lost(lad[o.side], o.price, o.qty), m.price, m.shares)]
      PROVE  Sweep(s)!Message(m) /\ Grid(s)!Message(m)
  <2> DEFINE n == [o EXCEPT !.price = m.price, !.qty = m.shares]
  <2>1. /\ m.type = "U" /\ m.ref \in DOMAIN O /\ O[m.ref] = o
        /\ P = With(Less(O, m.ref), m.newRef, [side |-> o.side, price |-> m.price, qty |-> m.shares])
        /\ D = Delta("U", s, o.side, Level(o.price, o.qty), Level(m.price, m.shares), m.ts)
    BY <1>8 DEF Trades
  <2>2. n = [side |-> o.side, price |-> m.price, qty |-> m.shares]
    <3>1. \A p, q : [o EXCEPT !.price = p, !.qty = q] = [side |-> o.side, price |-> p, qty |-> q]
      BY <1>8, Repriced
    <3> QED BY <3>1, Zenon
  <2>3. Sweep(s)!Known(m.ref) /\ Grid(s)!Known(m.ref) /\ OrdersOf(s)[m.ref] = o
    BY <2>1, OrdersOfSweep, SidesOfGrid
  <2>4. Sweep(s)!NoRunMoves /\ Grid(s)!NoExec
    BY <1>3, <2>1 DEF is_exec, Delta
  <2>5. /\ OrdersOf(s)' = Sweep(s)!With(Sweep(s)!Forget(m.ref), m.newRef, n)
        /\ OrdersOf(s)' = Grid(s)!With(Grid(s)!Forget(m.ref), m.newRef, n)
    BY <2>1, <2>2, OrdersOfSweep, SidesOfGrid
  <2>6. Grid(s)!rem_lvl(lad[o.side], o.price, o.qty) = Lost(lad[o.side], o.price, o.qty)
    <3> DEFINE row == lad[o.side]
    <3>1. /\ row = [x \in DOMAIN row |-> row[x]] /\ o.price \in DOMAIN row /\ row[o.price] \in Nat
          /\ o.qty \in Nat
      BY <1>2, <1>8
    <3> HIDE DEF row
    <3>2. Grid(s)!rem_lvl(row, o.price, o.qty) = Lost(row, o.price, o.qty)
      BY <3>1, GridLoses
    <3> QED BY <3>2 DEF row
  <2>7. Grid(s)!add_lvl(Grid(s)!rem_lvl(Grid(s)!Lvls(o.side), o.price, o.qty), m.price, m.shares)
        = Gained(Lost(lad[o.side], o.price, o.qty), m.price, m.shares)
    BY <1>8, <2>6, SidesOfGrid, GridLvls
  <2>8. Grid(s)!Level(o.side, Grid(s)!add_lvl(Grid(s)!rem_lvl(Grid(s)!Lvls(o.side), o.price, o.qty),
                                              m.price, m.shares))
    BY <1>8, <2>7, GridLevel
  <2>9. Sweep(s)!Replace(m) /\ Grid(s)!Replace(m)
    BY <2>3, <2>4, <2>5, <2>8 DEF Sweep!Replace, Grid!Replace
  <2> QED BY <2>1, <2>9, Zenon DEF Sweep!Message, Grid!Message
<1> QED BY <1>1, <1>4, <1>5, <1>6, <1>7, <1>8 DEF LadderMoves

(* Between messages the records stop and the runs stay; a message moves    *)
(* every symbol's run as dump_sweep.py moves it, and the runs the          *)
(* parameter sweep groups off line are the runs the detector holds and     *)
(* fires (sweep_grid.py: "exactly what the RTL sweep_detect holds"), for   *)
(* any gap and number of levels, whatever other symbols do in between.     *)
THEOREM RunsAreTheGoldens ==
    ASSUME ReplaceFits
    PROVE  Spec => RunsAreGolden
<1>1. ASSUME TableInv, LedgerInv, RunsInv, Next, NEW s \in Sym
      PROVE  IF Finishes /\ ~Drops
             THEN /\ Sweep(s)!Message(msg)
                  /\ Grid(s)!Message(msg)
                  /\ DOMAIN SweepSeen(s)' = Grid(s)!Kept(RunBroken(s)', SwMinLevels)
             ELSE RunSeen(s)' = RunSeen(s)
  <2>1. DetectTick(delta)
    BY <1>1 DEF Next, Tick
  <2>2. run'[s] = RunSeen(s) /\ RunRec(RunSeen(s))
    BY <1>1, <2>1, RunsMove
  <2>3. CASE Finishes /\ ~Drops
    <3>1. Sweep(s)!Message(msg) /\ Grid(s)!Message(msg)
      BY <1>1, <2>2, <2>3, FinishMoves, RunMoves
    <3>2. DOMAIN SweepSeen(s)' = Grid(s)!Kept(RunBroken(s)', SwMinLevels)
      BY <2>2, KeepsWhatFires
    <3> QED BY <2>3, <3>1, <3>2
  <2>4. CASE ~(Finishes /\ ~Drops)
    <3>1. CASE OutcomeStep
      <4>1. delta' = <<>>
        BY <2>4, <3>1 DEF OutcomeStep
      <4> QED BY <2>2, <2>4, <4>1, SeenMoves DEF After
    <3>2. CASE UNCHANGED vars
      <4>1. RunSeen(s)' = RunSeen(s)
        BY <3>2 DEF vars, tableVars, sweepVars, RunSeen, ForDetector
      <4> QED BY <2>4, <4>1
    <3> QED BY <1>1, <3>1, <3>2, TableStep
  <2> QED BY <2>3, <2>4
<1>2. ASSUME TableInv, LedgerInv, RunsInv, [Next]_vars
      PROVE  [ \A s \in Sym :
                 IF Finishes /\ ~Drops
                 THEN /\ Sweep(s)!Message(msg)
                      /\ Grid(s)!Message(msg)
                      /\ DOMAIN SweepSeen(s)' = Grid(s)!Kept(RunBroken(s)', SwMinLevels)
                 ELSE RunSeen(s)' = RunSeen(s) ]_vars
  BY <1>1, <1>2
<1> QED BY <1>2, TableSound, LedgerSound, RunsSound, PTL DEF Spec, RunsAreGolden
=============================================================================
