--------------------------- MODULE DropFifo_proof ---------------------------
(***************************************************************************)
(* Proof that the elastic FIFO keeps the promise of LossyFifo, for every   *)
(* depth, every kind of word and every modulus of its counters.            *)
(***************************************************************************)
EXTENDS DropFifo, Integers, SequenceTheorems, TLAPS

(* Remainders of the sizes that occur here.                                *)
LEMMA ModFacts ==
    ASSUME NEW m \in Nat \ {0}, NEW x \in Int
    PROVE  /\ 0 <= x /\ x < m => x % m = x
           /\ m <= x /\ x < 2 * m => x % m = x - m
           /\ 2 * m <= x /\ x < 3 * m => x % m = x - 2 * m
           /\ x % m \in 0..(m - 1)
<1>1. 0 <= x /\ x < m => x % m = x
  OBVIOUS
<1>2. m <= x /\ x < 2 * m => x % m = x - m
  OBVIOUS
<1>3. 2 * m <= x /\ x < 3 * m => x % m = x - 2 * m
  OBVIOUS
<1>4. x % m \in 0..(m - 1)
  OBVIOUS
<1> QED BY <1>1, <1>2, <1>3, <1>4

Pointer == 0..(PtrMod - 1)
OneWord == {<<x>> : x \in Word}

(* The words of memory m between the pointers, n of them from r on.        *)
Words(m, r, n) == [i \in 1..n |-> Head(m[Address(r + i - 1)])]
Live(m, r, n)  == \A i \in 1..n : m[Address(r + i - 1)] \in OneWord

LEMMA AddressFacts ==
    ASSUME DropConstants, NEW p \in Nat, p < 3 * Depth
    PROVE  /\ Address(p) \in 0..(Depth - 1)
           /\ Address(p) = IF p < Depth THEN p ELSE IF p < 2 * Depth THEN p - Depth
                           ELSE p - 2 * Depth
<1>1. Depth \in Nat \ {0} /\ p \in Int /\ 0 <= p
  BY DEF DropConstants
<1>2. p < Depth => p % Depth = p
  BY <1>1, ModFacts
<1>3. Depth <= p /\ p < 2 * Depth => p % Depth = p - Depth
  BY <1>1, ModFacts
<1>4. 2 * Depth <= p => p % Depth = p - 2 * Depth
  BY <1>1, ModFacts
<1> QED BY <1>1, <1>2, <1>3, <1>4 DEF Address

LEMMA NextFacts ==
    ASSUME DropConstants, NEW p \in Pointer
    PROVE  NextPtr(p) \in Pointer /\ NextPtr(p) = IF p + 1 = PtrMod THEN 0 ELSE p + 1
<1>1. PtrMod \in Nat \ {0} /\ p + 1 \in Int /\ 0 <= p + 1 /\ p + 1 <= PtrMod
  BY DEF DropConstants, PtrMod, Pointer
<1>2. p + 1 < PtrMod => (p + 1) % PtrMod = p + 1
  BY <1>1, ModFacts
<1>3. p + 1 = PtrMod => (p + 1) % PtrMod = 0
  BY <1>1, ModFacts
<1> QED BY <1>1, <1>2, <1>3 DEF NextPtr, Pointer

(* The distance from one pointer on to the other, around the ring.         *)
LEMMA Distance ==
    ASSUME DropConstants, NEW w \in Pointer, NEW r \in Pointer
    PROVE  (w - r + PtrMod) % PtrMod = IF w >= r THEN w - r ELSE (w + PtrMod) - r
<1> DEFINE x == w - r + PtrMod
<1>1. PtrMod \in Nat \ {0} /\ x \in Int /\ w \in Int /\ r \in Int
  BY DEF DropConstants, PtrMod, Pointer
<1>2. w >= r => PtrMod <= x /\ x < 2 * PtrMod
  BY <1>1 DEF Pointer
<1>3. w < r => 0 <= x /\ x < PtrMod
  BY <1>1 DEF Pointer
<1>4. x % PtrMod = IF w >= r THEN x - PtrMod ELSE x
  <2> HIDE DEF x
  <2>1. w >= r \/ w < r
    BY <1>1
  <2>2. w >= r => x % PtrMod = x - PtrMod
    BY <1>1, <1>2, ModFacts
  <2>3. w < r => ~(w >= r) /\ x % PtrMod = x
    <3>1. w < r => ~(w >= r)
      BY <1>1
    <3> QED BY <1>1, <1>3, <3>1, ModFacts
  <2> QED BY <2>1, <2>2, <2>3
<1> QED BY <1>1, <1>4 DEF Pointer

LEMMA CountFacts ==
    ASSUME DropConstants, wptr \in Pointer, rptr \in Pointer
    PROVE  MemCount = IF wptr >= rptr THEN wptr - rptr ELSE (wptr + PtrMod) - rptr
BY Distance DEF MemCount

(* Where the words lie: moving the read pointer on only renumbers them,    *)
(* and the write pointer is just behind the last, on none of them unless   *)
(* the memory is full.                                                     *)
LEMMA AddressMovesOn ==
    ASSUME DropConstants, NEW r \in Pointer, NEW i \in 1..(Depth - 1)
    PROVE  Address(NextPtr(r) + i - 1) = Address(r + (i + 1) - 1)
<1>0. Depth \in Nat /\ Depth >= 2 /\ PtrMod = 2 * Depth /\ r \in Nat
  BY DEF DropConstants, PtrMod, Pointer
<1>1. NextPtr(r) = IF r + 1 = PtrMod THEN 0 ELSE r + 1
  BY NextFacts
<1>2. i - 1 \in Nat /\ i - 1 < Depth /\ i \in Nat /\ i < Depth
  BY <1>0
<1>3. r + i \in Nat /\ r + i < 3 * Depth /\ r + (i + 1) - 1 = r + i
  BY <1>0, <1>2 DEF Pointer
<1>4. CASE r + 1 = PtrMod
  <2>1. NextPtr(r) + i - 1 = i - 1
    BY <1>1, <1>2, <1>4
  <2>2. Address(i - 1) = i - 1
    BY <1>0, <1>2, AddressFacts
  <2>3. Address(r + i) = i - 1
    BY <1>0, <1>2, <1>3, <1>4, AddressFacts
  <2> QED BY <1>3, <2>1, <2>2, <2>3
<1>5. CASE r + 1 # PtrMod
  <2>1. NextPtr(r) + i - 1 = r + i
    BY <1>0, <1>1, <1>2, <1>5
  <2> QED BY <1>3, <2>1
<1> QED BY <1>4, <1>5

LEMMA AddressOfWrite ==
    ASSUME DropConstants, wptr \in Pointer, rptr \in Pointer, MemCount <= Depth
    PROVE  /\ Address(wptr) \in 0..(Depth - 1)
           /\ Address(rptr + (MemCount + 1) - 1) = Address(wptr)
           /\ MemCount < Depth => \A i \in 1..MemCount :
                 /\ Address(rptr + i - 1) \in 0..(Depth - 1)
                 /\ Address(rptr + i - 1) # Address(wptr)
<1>0. Depth \in Nat /\ Depth >= 2 /\ PtrMod = 2 * Depth /\ rptr \in Nat /\ wptr \in Nat
      /\ rptr < 2 * Depth /\ wptr < 2 * Depth
  BY DEF DropConstants, PtrMod, Pointer
<1>1. MemCount \in Nat /\ MemCount = IF wptr >= rptr THEN wptr - rptr ELSE (wptr + PtrMod) - rptr
  BY <1>0, CountFacts
<1>2. Address(rptr + (MemCount + 1) - 1) = Address(wptr)
  <2>1. rptr + (MemCount + 1) - 1 = rptr + MemCount /\ rptr + MemCount \in Nat /\ rptr + MemCount < 3 * Depth
    BY <1>0, <1>1
  <2>2. rptr + MemCount = IF wptr >= rptr THEN wptr ELSE wptr + 2 * Depth
    BY <1>0, <1>1
  <2> QED BY <1>0, <2>1, <2>2, AddressFacts
<1>3. ASSUME NEW i \in 1..MemCount, MemCount < Depth
      PROVE  Address(rptr + i - 1) \in 0..(Depth - 1) /\ Address(rptr + i - 1) # Address(wptr)
  <2>1. rptr + i - 1 \in Nat /\ rptr + i - 1 < 3 * Depth
    BY <1>0, <1>1, <1>3
  <2>2. Address(wptr) = IF wptr < Depth THEN wptr ELSE wptr - Depth
    BY <1>0, AddressFacts
  <2> DEFINE at == rptr + i - 1
  <2>3. Address(at) = IF at < Depth THEN at ELSE IF at < 2 * Depth THEN at - Depth
                      ELSE at - 2 * Depth
    <3> HIDE DEF at
    <3>1. at \in Nat /\ at < 3 * Depth
      BY <2>1 DEF at
    <3> QED BY <3>1, AddressFacts
  <2>4. Address(at) \in 0..(Depth - 1)
    BY <2>1, AddressFacts
  <2>5. at # wptr /\ at # wptr + Depth /\ at + Depth # wptr /\ at # wptr + 2 * Depth
    BY <1>0, <1>1, <1>3
  <2>6. at \in Nat
    BY <2>1
  <2> HIDE DEF at
  <2>7. Address(at) # Address(wptr)
    <3>1. CASE wptr < Depth
      BY <1>0, <2>2, <2>3, <2>5, <2>6, <3>1 DEF at
    <3>2. CASE wptr >= Depth
      BY <1>0, <1>1, <1>3, <2>2, <2>3, <2>5, <2>6, <3>2 DEF at
    <3> QED BY <1>0, <3>1, <3>2
  <2> QED BY <2>4, <2>7 DEF at
<1>4. Address(wptr) \in 0..(Depth - 1)
  BY <1>0, AddressFacts
<1> QED BY <1>2, <1>3, <1>4

(* The words from the pointers on are a sequence; the first leaves, and    *)
(* one is added behind the last.                                           *)
LEMMA WordsAreSequence ==
    ASSUME NEW m, NEW r, NEW n \in Nat, Live(m, r, n)
    PROVE  Words(m, r, n) \in Seq(Word) /\ Len(Words(m, r, n)) = n
<1>1. \A i \in 1..n : Head(m[Address(r + i - 1)]) \in Word
  <2>1. \A w \in OneWord : Head(w) \in Word
    BY DEF OneWord
  <2> QED BY <2>1 DEF Live
<1>2. Words(m, r, n) \in [1..n -> Word]
  BY <1>1 DEF Words
<1> QED BY <1>2

LEMMA WordsPop ==
    ASSUME DropConstants, NEW m, NEW r \in Pointer, NEW n \in 1..Depth, Live(m, r, n)
    PROVE  /\ Live(m, NextPtr(r), n - 1)
           /\ \E x \in Word : /\ m[Address(r)] = <<x>>
                              /\ Words(m, r, n) = <<x>> \o Words(m, NextPtr(r), n - 1)
<1>0. Depth \in Nat /\ n \in Nat /\ n - 1 \in Nat /\ r \in Nat
  BY DEF DropConstants, PtrMod, Pointer
<1>1. \A i \in 1..(n - 1) :
        i + 1 \in 1..n /\ Address(NextPtr(r) + i - 1) = Address(r + (i + 1) - 1)
  <2> SUFFICES ASSUME NEW i \in 1..(n - 1)
               PROVE  i + 1 \in 1..n /\ Address(NextPtr(r) + i - 1) = Address(r + (i + 1) - 1)
    OBVIOUS
  <2>1. i \in 1..(Depth - 1) /\ i + 1 \in 1..n
    BY <1>0
  <2> QED BY <2>1, AddressMovesOn
<1>2. Live(m, NextPtr(r), n - 1)
  BY <1>1 DEF Live
<1>3. 1 \in 1..n /\ Address(r + 1 - 1) = Address(r)
  BY <1>0
<1>4. PICK x \in Word : m[Address(r)] = <<x>>
  BY <1>3 DEF Live, OneWord
<1> DEFINE later == Words(m, NextPtr(r), n - 1)
<1>5. later \in Seq(Word) /\ Len(later) = n - 1
  BY <1>0, <1>2, WordsAreSequence
<1>6. Words(m, r, n) \in Seq(Word) /\ Len(Words(m, r, n)) = n
  BY <1>0, WordsAreSequence
<1>7. Words(m, r, n)[1] = x
  <2>1. Words(m, r, n)[1] = Head(m[Address(r + 1 - 1)])
    BY <1>3 DEF Words
  <2> QED BY <1>3, <1>4, <2>1
<1>8. \A i \in 1..(n - 1) : later[i] = Words(m, r, n)[i + 1]
  BY <1>1 DEF Words
<1>9. Words(m, r, n) = <<x>> \o later
  <2> HIDE DEF later
  <2>1. /\ <<x>> \in Seq(Word) /\ Len(<<x>>) = 1 /\ <<x>> \o later \in Seq(Word)
        /\ Len(<<x>> \o later) = n
        /\ \A i \in 1..n : (<<x>> \o later)[i] = IF i <= 1 THEN x ELSE later[i - 1]
    <3>1. <<x>> \in Seq(Word) /\ Len(<<x>>) = 1 /\ <<x>>[1] = x
      OBVIOUS
    <3>2. 1 + (n - 1) = n
      BY <1>0
    <3>3. /\ <<x>> \o later \in Seq(Word) /\ Len(<<x>> \o later) = 1 + (n - 1)
          /\ \A i \in 1..(1 + (n - 1)) : (<<x>> \o later)[i] =
                IF i <= 1 THEN <<x>>[i] ELSE later[i - 1]
      <4> DEFINE s == <<x>>
      <4>1. s \in Seq(Word) /\ Len(s) = 1
        BY <3>1
      <4> HIDE DEF s
      <4>2. /\ s \o later \in Seq(Word) /\ Len(s \o later) = Len(s) + Len(later)
            /\ \A i \in 1..(Len(s) + Len(later)) : (s \o later)[i] =
                  IF i <= Len(s) THEN s[i] ELSE later[i - Len(s)]
        BY <1>5, <4>1, ConcatProperties
      <4>3. /\ s \o later \in Seq(Word) /\ Len(s \o later) = 1 + (n - 1)
            /\ \A i \in 1..(1 + (n - 1)) : (s \o later)[i] =
                  IF i <= 1 THEN s[i] ELSE later[i - 1]
        BY <1>5, <4>1, <4>2
      <4> QED BY <4>3 DEF s
    <3> QED BY <3>1, <3>2, <3>3
  <2>2. \A i \in 1..n : Words(m, r, n)[i] = (<<x>> \o later)[i]
    <3> SUFFICES ASSUME NEW i \in 1..n PROVE Words(m, r, n)[i] = (<<x>> \o later)[i]
      OBVIOUS
    <3>1. CASE i = 1
      BY <1>7, <2>1, <3>1
    <3>2. CASE i # 1
      <4>1. i - 1 \in 1..(n - 1) /\ (i - 1) + 1 = i /\ ~(i <= 1)
        BY <1>0, <3>2
      <4> QED BY <1>8, <2>1, <4>1
    <3> QED BY <3>1, <3>2
  <2> QED BY <1>6, <2>1, <2>2, SeqEqual
<1> QED BY <1>2, <1>4, <1>9

(* Likewise for a word stored: it is appended, also when the oldest word   *)
(* leaves at the same edge.                                                *)
LEMMA WordsPush ==
    ASSUME DropConstants, wptr \in Pointer, rptr \in Pointer, MemCount < Depth,
           mem \in [0..(Depth - 1) -> OneWord \cup {Unread}], Live(mem, rptr, MemCount),
           NEW x \in Word, NEW m, m = [mem EXCEPT ![Address(wptr)] = <<x>>]
    PROVE  /\ Live(m, rptr, MemCount + 1)
           /\ Words(m, rptr, MemCount + 1) = Append(Words(mem, rptr, MemCount), x)
<1>0. MemCount \in Nat /\ MemCount + 1 \in Nat
  <2>1. wptr \in Int /\ rptr \in Int /\ PtrMod \in Nat
    BY DEF DropConstants, PtrMod, Pointer
  <2> QED BY <2>1, CountFacts DEF Pointer
<1>1. /\ Address(wptr) \in 0..(Depth - 1)
      /\ Address(rptr + (MemCount + 1) - 1) = Address(wptr)
      /\ \A i \in 1..MemCount : /\ Address(rptr + i - 1) \in 0..(Depth - 1)
                                /\ Address(rptr + i - 1) # Address(wptr)
  <2>1. MemCount <= Depth
    BY <1>0 DEF DropConstants
  <2> QED BY <2>1, AddressOfWrite
<1>2. m[Address(wptr)] = <<x>> /\ \A a \in 0..(Depth - 1) : a # Address(wptr) => m[a] = mem[a]
  BY <1>1
<1>3. \A i \in 1..(MemCount + 1) : i = MemCount + 1 \/ i \in 1..MemCount
  BY <1>0
<1>4. MemCount + 1 \in 1..(MemCount + 1) /\ \A i \in 1..MemCount : i \in 1..(MemCount + 1)
  BY <1>0
<1>5. Live(m, rptr, MemCount + 1)
  <2>1. <<x>> \in OneWord
    BY DEF OneWord
  <2> QED BY <1>1, <1>2, <1>3, <2>1 DEF Live
<1>6. Words(m, rptr, MemCount + 1)[MemCount + 1] = x
  <2>1. Head(<<x>>) = x
    OBVIOUS
  <2> QED BY <1>1, <1>2, <1>4, <2>1 DEF Words
<1>7. \A i \in 1..MemCount : Words(m, rptr, MemCount + 1)[i] = Words(mem, rptr, MemCount)[i]
  BY <1>1, <1>2, <1>4 DEF Words
<1> DEFINE before == Words(mem, rptr, MemCount)
           after  == Words(m, rptr, MemCount + 1)
<1>8. /\ before \in Seq(Word) /\ Len(before) = MemCount
      /\ after \in Seq(Word) /\ Len(after) = MemCount + 1
  BY <1>0, <1>5, WordsAreSequence
<1>9. after = Append(before, x)
  <2> HIDE DEF before, after
  <2>1. /\ Append(before, x) \in Seq(Word) /\ Len(Append(before, x)) = MemCount + 1
        /\ \A i \in 1..MemCount : Append(before, x)[i] = before[i]
        /\ Append(before, x)[MemCount + 1] = x
    BY <1>8, AppendProperties
  <2>2. \A i \in 1..(MemCount + 1) : after[i] = Append(before, x)[i]
    BY <1>3, <1>6, <1>7, <2>1 DEF before, after
  <2> QED BY <1>8, <2>1, <2>2, SeqEqual
<1> QED BY <1>5, <1>9
-----------------------------------------------------------------------------
(* What every clock preserves: the memory holds words between the pointers *)
(* and is full only behind a full head register (so a refused word finds   *)
(* Depth + 1 stored).                                                      *)
Count == 0..(DropMod - 1)
DropInv ==
    /\ wptr \in Pointer /\ rptr \in Pointer
    /\ mem \in [0..(Depth - 1) -> OneWord \cup {Unread}]
    /\ head \in OneWord \cup {<<>>}
    /\ dropCnt \in Count /\ given \in Count /\ taken \in Count
    /\ MemCount <= Depth
    /\ Live(mem, rptr, MemCount)
    /\ Full => head # <<>>

Offer == {<<>>} \cup {<<x>> : x \in Word}

LEMMA DropInitInv == ASSUME DropConstants, DropInit PROVE DropInv
<1>1. 0 \in Pointer /\ 0 \in Count /\ Depth \in Nat /\ Depth >= 2 /\ PtrMod \in Nat
  BY DEF DropConstants, Pointer, PtrMod, Count
<1>2. MemCount = 0
  BY <1>1, CountFacts DEF DropInit
<1>3. Live(mem, rptr, 0)
  BY DEF Live
<1> QED BY <1>1, <1>2, <1>3 DEF DropInit, DropInv, Full

LEMMA CountIsNat == ASSUME DropConstants, DropInv PROVE MemCount \in Nat
<1>1. wptr \in Int /\ rptr \in Int /\ PtrMod \in Nat
  BY DEF DropConstants, PtrMod, Pointer, DropInv
<1> QED BY <1>1, CountFacts DEF Pointer, DropInv

(* A fetch takes one off the count and a push adds one; both wrap the      *)
(* pointers correctly.                                                     *)
LEMMA CountMoves ==
    ASSUME DropConstants, DropInv, NEW push, NEW ready, DropTick(push, ready)
    PROVE  /\ wptr' \in Pointer /\ rptr' \in Pointer
           /\ MemCount' = (MemCount + IF push # <<>> /\ ~Full THEN 1 ELSE 0)
                          - IF Fetch(ready) THEN 1 ELSE 0
<1>0. /\ wptr \in Pointer /\ rptr \in Pointer /\ MemCount \in Nat /\ MemCount <= Depth
      /\ Depth \in Nat /\ Depth >= 2 /\ PtrMod = 2 * Depth
  BY CountIsNat DEF DropInv, DropConstants, PtrMod
<1>1. /\ NextPtr(wptr) \in Pointer /\ NextPtr(wptr) = IF wptr + 1 = PtrMod THEN 0 ELSE wptr + 1
      /\ NextPtr(rptr) \in Pointer /\ NextPtr(rptr) = IF rptr + 1 = PtrMod THEN 0 ELSE rptr + 1
  BY <1>0, NextFacts
<1>2. /\ wptr' = IF push # <<>> /\ ~Full THEN NextPtr(wptr) ELSE wptr
      /\ rptr' = IF Fetch(ready) THEN NextPtr(rptr) ELSE rptr
  BY DEF DropTick
<1>3. wptr' \in Pointer /\ rptr' \in Pointer
  BY <1>0, <1>1, <1>2
<1>4. MemCount = IF wptr >= rptr THEN wptr - rptr ELSE (wptr + PtrMod) - rptr
  BY <1>0, CountFacts
<1>5. MemCount' = IF wptr' >= rptr' THEN wptr' - rptr' ELSE (wptr' + PtrMod) - rptr'
  <2>1. \A w, r \in Pointer : (w - r + PtrMod) % PtrMod =
            IF w >= r THEN w - r ELSE (w + PtrMod) - r
    BY Distance
  <2> QED BY <1>3, <2>1 DEF MemCount, PtrMod
<1>6. ~Full => MemCount < Depth
  BY <1>0 DEF Full
<1>7. Fetch(ready) => MemCount >= 1
  BY <1>0 DEF Fetch
<1> DEFINE put == push # <<>> /\ ~Full
           get == Fetch(ready)
<1>8. MemCount' = (MemCount + IF put THEN 1 ELSE 0) - IF get THEN 1 ELSE 0
  <2>1. put => MemCount < Depth
    BY <1>6
  <2>2. get => MemCount >= 1
    BY <1>7
  <2>3. wptr' = (IF put THEN NextPtr(wptr) ELSE wptr) /\ rptr' = IF get THEN NextPtr(rptr) ELSE rptr
    BY <1>2
  <2> HIDE DEF put, get
  <2>4. wptr \in 0..(2 * Depth - 1) /\ rptr \in 0..(2 * Depth - 1)
    BY <1>0 DEF Pointer
  <2>5. CASE put /\ get
    BY <1>0, <1>1, <1>4, <1>5, <2>1, <2>2, <2>3, <2>4, <2>5
  <2>6. CASE put /\ ~get
    BY <1>0, <1>1, <1>4, <1>5, <2>1, <2>3, <2>4, <2>6
  <2>7. CASE ~put /\ get
    BY <1>0, <1>1, <1>4, <1>5, <2>2, <2>3, <2>4, <2>7
  <2>8. CASE ~put /\ ~get
    BY <1>4, <1>5, <2>3, <2>8
  <2> QED BY <2>5, <2>6, <2>7, <2>8
<1> QED BY <1>3, <1>8

(* What is left of the words after the clock's fetch, and the word that    *)
(* was fetched.                                                            *)
Left(ready) == IF Fetch(ready) THEN MemCount - 1 ELSE MemCount

LEMMA FetchSplits ==
    ASSUME DropConstants, DropInv, NEW push, NEW ready \in BOOLEAN, DropTick(push, ready)
    PROVE  /\ Left(ready) \in Nat /\ Left(ready) <= MemCount
           /\ Live(mem, rptr', Left(ready))
           /\ head' \in OneWord \cup {<<>>}
           /\ Fetch(ready) => /\ head' \in OneWord
                              /\ head' = mem[Address(rptr)]
                              /\ Words(mem, rptr, MemCount) = head' \o Words(mem, rptr', Left(ready))
<1>1. MemCount \in Nat /\ MemCount <= Depth /\ rptr \in Pointer /\ Live(mem, rptr, MemCount)
  BY CountIsNat DEF DropInv
<1>2. CASE Fetch(ready)
  <2>1. MemCount \in 1..Depth /\ Left(ready) = MemCount - 1 /\ MemCount - 1 \in Nat
    BY <1>1, <1>2 DEF Fetch, Left, DropConstants
  <2>2. rptr' = NextPtr(rptr) /\ head' = mem[Address(rptr)]
    BY <1>2 DEF DropTick
  <2>3. /\ Live(mem, NextPtr(rptr), MemCount - 1)
        /\ \E x \in Word : /\ mem[Address(rptr)] = <<x>>
                           /\ Words(mem, rptr, MemCount) = <<x>> \o Words(mem, NextPtr(rptr), MemCount - 1)
    BY <1>1, <2>1, WordsPop
  <2>4. Left(ready) <= MemCount
    BY <1>1, <2>1
  <2> QED BY <2>1, <2>2, <2>3, <2>4 DEF OneWord
<1>3. CASE ~Fetch(ready)
  <2>1. Left(ready) = MemCount /\ rptr' = rptr /\ head' \in {<<>>, head}
    BY <1>3 DEF DropTick, Left
  <2> QED BY <1>1, <1>3, <2>1 DEF DropInv
<1> QED BY <1>2, <1>3

(* The words in memory after the clock.                                    *)
LEMMA WordsAfter ==
    ASSUME DropConstants, DropInv, NEW push \in Offer, NEW ready \in BOOLEAN, DropTick(push, ready)
    PROVE  /\ Live(mem', rptr', MemCount')
           /\ Words(mem', rptr', MemCount') =
                IF push # <<>> /\ ~Full THEN Append(Words(mem, rptr', Left(ready)), push[1])
                ELSE Words(mem, rptr', Left(ready))
<1>1. /\ MemCount \in Nat /\ MemCount <= Depth /\ rptr \in Pointer /\ wptr \in Pointer
      /\ Live(mem, rptr, MemCount) /\ mem \in [0..(Depth - 1) -> OneWord \cup {Unread}]
      /\ Depth \in Nat
  BY CountIsNat DEF DropInv, DropConstants
<1>2. CASE ~(push # <<>> /\ ~Full)
  <2>1. mem' = mem /\ MemCount' = Left(ready)
    BY <1>1, <1>2, CountMoves DEF DropTick, Left
  <2> QED BY <1>2, <2>1, FetchSplits
<1>3. CASE push # <<>> /\ ~Full
  <2>1. PICK x \in Word : push = <<x>>
    BY <1>3 DEF Offer
  <2>2. push[1] = x
    BY <2>1
  <2>3. mem' = [mem EXCEPT ![Address(wptr)] = <<x>>] /\ MemCount < Depth
    BY <1>1, <1>3, <2>1 DEF DropTick, Full
  <2>4. /\ Live(mem', rptr, MemCount + 1)
        /\ Words(mem', rptr, MemCount + 1) = Append(Words(mem, rptr, MemCount), x)
    BY <1>1, <2>3, WordsPush
  <2>5. CASE ~Fetch(ready)
    <3>1. MemCount' = MemCount + 1 /\ rptr' = rptr /\ Left(ready) = MemCount
      BY <1>1, <1>3, <2>5, CountMoves DEF DropTick, Left
    <3> QED BY <1>3, <2>2, <2>4, <3>1
  <2>6. CASE Fetch(ready)
    <3>1. /\ MemCount' = MemCount /\ rptr' = NextPtr(rptr) /\ Left(ready) = MemCount - 1
          /\ MemCount + 1 \in 1..Depth /\ (MemCount + 1) - 1 = MemCount
          /\ MemCount \in 1..Depth /\ MemCount - 1 \in Nat
      <4>1. MemCount >= 1 /\ MemCount < Depth
        BY <1>1, <2>3, <2>6 DEF Fetch
      <4>2. MemCount' = (MemCount + 1) - 1
        BY <1>3, <2>6, CountMoves
      <4>3. rptr' = NextPtr(rptr) /\ Left(ready) = MemCount - 1
        BY <2>6 DEF DropTick, Left
      <4> QED BY <1>1, <4>1, <4>2, <4>3
    <3>2. /\ Live(mem', NextPtr(rptr), MemCount)
          /\ \E y \in Word : /\ mem'[Address(rptr)] = <<y>>
                             /\ Words(mem', rptr, MemCount + 1) = <<y>> \o Words(mem', NextPtr(rptr), MemCount)
      <4> DEFINE n == MemCount + 1
      <4>1. n \in 1..Depth /\ n - 1 = MemCount /\ Live(mem', rptr, n)
        BY <2>4, <3>1
      <4> HIDE DEF n
      <4>2. /\ Live(mem', NextPtr(rptr), n - 1)
            /\ \E y \in Word : /\ mem'[Address(rptr)] = <<y>>
                               /\ Words(mem', rptr, n) = <<y>> \o Words(mem', NextPtr(rptr), n - 1)
        BY <1>1, <4>1, WordsPop
      <4> QED BY <4>1, <4>2 DEF n
    <3>3. /\ Live(mem, NextPtr(rptr), MemCount - 1)
          /\ \E h \in Word : /\ mem[Address(rptr)] = <<h>>
                             /\ Words(mem, rptr, MemCount) = <<h>> \o Words(mem, NextPtr(rptr), MemCount - 1)
      BY <1>1, <3>1, WordsPop
    <3>4. mem'[Address(rptr)] = mem[Address(rptr)]
      <4>1. 1 \in 1..MemCount /\ rptr + 1 - 1 = rptr
        BY <1>1, <3>1 DEF Pointer
      <4>2. \A i \in 1..MemCount : /\ Address(rptr + i - 1) \in 0..(Depth - 1)
                                   /\ Address(rptr + i - 1) # Address(wptr)
        BY <1>1, <2>3, AddressOfWrite
      <4>3. Address(rptr) \in 0..(Depth - 1) /\ Address(rptr) # Address(wptr)
        BY <4>1, <4>2
      <4> QED BY <1>1, <2>3, <4>3
    <3>5. PICK h \in Word : /\ Words(mem', rptr, MemCount + 1) = <<h>> \o Words(mem', NextPtr(rptr), MemCount)
                            /\ Words(mem, rptr, MemCount) = <<h>> \o Words(mem, NextPtr(rptr), MemCount - 1)
      <4>1. \A y, h \in Word : <<y>> = <<h>> => y = h
        OBVIOUS
      <4> QED BY <3>2, <3>3, <3>4, <4>1
    <3> DEFINE now == Words(mem, NextPtr(rptr), MemCount - 1)
               new == Words(mem', NextPtr(rptr), MemCount)
    <3>6. now \in Seq(Word) /\ new \in Seq(Word)
      BY <1>1, <3>1, <3>2, <3>3, WordsAreSequence
    <3>7. new = Append(now, x)
      <4> HIDE DEF now, new
      <4>1. <<h>> \o new = Append(<<h>> \o now, x)
        BY <2>4, <3>5 DEF now, new
      <4> DEFINE s == <<h>>
                 e == <<x>>
      <4>2. s \in Seq(Word) /\ e \in Seq(Word)
        OBVIOUS
      <4>3. s \o now \in Seq(Word)
        <5> HIDE DEF s, e
        <5> QED BY <3>6, <4>2, ConcatProperties
      <4>4. Append(s \o now, x) = (s \o now) \o e /\ Append(now, x) = now \o e
        BY <3>6, <4>3, AppendIsConcat
      <4>5. (s \o now) \o e = s \o (now \o e) /\ now \o e \in Seq(Word)
        <5> HIDE DEF s, e
        <5> QED BY SMTT(30), <3>6, <4>2, ConcatAssociative, ConcatProperties
      <4>6. s \o new = s \o (now \o e)
        BY <4>1, <4>4, <4>5
      <4>7. new = now \o e
        <5> HIDE DEF s, e
        <5> QED BY <3>6, <4>2, <4>5, <4>6, ConcatSimplifications
      <4> QED BY <4>4, <4>7
    <3>8. Live(mem', NextPtr(rptr), MemCount)
      BY <3>2
    <3> QED BY <1>3, <2>2, <3>1, <3>7, <3>8
  <2> QED BY <2>5, <2>6
<1> QED BY <1>2, <1>3

LEMMA DropNextInv ==
    ASSUME DropConstants, DropInv, NEW push \in Offer, NEW ready \in BOOLEAN, DropTick(push, ready)
    PROVE  DropInv'
<1>1. wptr' \in Pointer /\ rptr' \in Pointer
  BY CountMoves
<1>2. mem' \in [0..(Depth - 1) -> OneWord \cup {Unread}]
  <2>1. push # <<>> => push \in OneWord
    BY DEF Offer, OneWord
  <2>2. mem' = mem \/ (push # <<>> /\ mem' = [mem EXCEPT ![Address(wptr)] = push])
    BY DEF DropTick
  <2> QED BY <2>1, <2>2 DEF DropInv
<1>3. head' \in OneWord \cup {<<>>}
  BY FetchSplits
<1>4. dropCnt' \in Count /\ given' \in Count /\ taken' \in Count
  <2>1. DropMod \in Nat \ {0} /\ dropCnt \in Int /\ given \in Int /\ taken \in Int
    BY DEF DropConstants, DropInv, Count
  <2>2. \A x \in Int : x % DropMod \in Count
    BY <2>1, ModFacts DEF Count
  <2>3. Len(push) \in Int /\ Len(head) \in Int
    BY DEF Offer, DropInv, OneWord
  <2>4. dropCnt + 1 \in Int /\ given + Len(push) \in Int /\ taken + Len(head) \in Int
    BY <2>1, <2>3
  <2>5. /\ dropCnt' = dropCnt \/ dropCnt' = (dropCnt + 1) % DropMod
        /\ given' = (given + Len(push)) % DropMod
        /\ taken' = taken \/ taken' = (taken + Len(head)) % DropMod
    BY DEF DropTick
  <2> QED BY <2>2, <2>4, <2>5 DEF DropInv
<1>5. Live(mem', rptr', MemCount')
  BY WordsAfter
<1>6. MemCount' <= Depth /\ (Full' => head' # <<>>)
  <2>0. MemCount \in Nat /\ MemCount <= Depth /\ Depth \in Nat /\ Depth >= 2
    BY CountIsNat DEF DropInv, DropConstants
  <2>1. ~Full => MemCount < Depth
    BY <2>0 DEF Full
  <2>2. MemCount' <= Depth
    BY <2>0, <2>1, CountMoves
  <2>3. Fetch(ready) => head' # <<>>
    <3>1. <<>> \notin OneWord
      BY DEF OneWord
    <3> QED BY <3>1, FetchSplits
  <2>4. ~Fetch(ready) /\ MemCount' = Depth => head # <<>> /\ ~ready
    <3> SUFFICES ASSUME ~Fetch(ready), MemCount' = Depth PROVE head # <<>> /\ ~ready
      OBVIOUS
    <3>1. MemCount >= 1
      BY <2>0, CountMoves
    <3> QED BY <2>0, <3>1 DEF Fetch
  <2>5. ~Fetch(ready) /\ ~ready => head' = head
    BY DEF DropTick
  <2> QED BY <2>2, <2>3, <2>4, <2>5 DEF Full
<1> QED BY <1>1, <1>2, <1>3, <1>4, <1>5, <1>6 DEF DropInv
-----------------------------------------------------------------------------
(* The clock as a step of LossyFifo: the consumer takes the head exactly   *)
(* when it is ready, and what stays is the rest of the queue in order.     *)
Takes(ready) == IF ready THEN Len(head) ELSE 0

LEMMA WordOrNone ==
    ASSUME NEW h \in OneWord \cup {<<>>}
    PROVE  h \in Seq(Word) /\ Len(h) = IF h = <<>> THEN 0 ELSE 1
<1>1. CASE h = <<>>
  BY <1>1
<1>2. CASE h \in OneWord
  <2>1. PICK x \in Word : h = <<x>>
    BY <1>2 DEF OneWord
  <2>2. <<x>> \in Seq(Word) /\ Len(<<x>>) = 1 /\ <<x>> # <<>>
    OBVIOUS
  <2> QED BY <2>1, <2>2
<1> QED BY <1>1, <1>2

LEMMA StoredFacts ==
    ASSUME DropConstants, DropInv
    PROVE  /\ Stored = head \o Words(mem, rptr, MemCount)
           /\ head \in Seq(Word) /\ Words(mem, rptr, MemCount) \in Seq(Word)
           /\ Stored \in Seq(Word)
           /\ Len(Stored) = Len(head) + MemCount
           /\ Len(head) = IF head = <<>> THEN 0 ELSE 1
<1>1. Stored = head \o Words(mem, rptr, MemCount)
  BY DEF Stored, Words
<1>2. head \in Seq(Word) /\ Len(head) = IF head = <<>> THEN 0 ELSE 1
  BY WordOrNone DEF DropInv
<1>3. Words(mem, rptr, MemCount) \in Seq(Word) /\ Len(Words(mem, rptr, MemCount)) = MemCount
  <2>1. MemCount \in Nat /\ Live(mem, rptr, MemCount)
    BY CountIsNat DEF DropInv
  <2> QED BY <2>1, WordsAreSequence
<1>4. Stored \in Seq(Word) /\ Len(Stored) = Len(head) + MemCount
  <2> DEFINE w == Words(mem, rptr, MemCount)
  <2> HIDE DEF w
  <2>1. w \in Seq(Word) /\ Len(w) = MemCount /\ Stored = head \o w
    BY <1>1, <1>3 DEF w
  <2>2. head \o w \in Seq(Word) /\ Len(head \o w) = Len(head) + Len(w)
    BY <1>2, <2>1, ConcatProperties
  <2> QED BY <2>1, <2>2
<1> QED BY <1>1, <1>2, <1>3, <1>4

LEMMA KeptIsRest ==
    ASSUME DropConstants, DropInv, NEW push, NEW ready \in BOOLEAN, DropTick(push, ready)
    PROVE  /\ Takes(ready) \in 0..1 /\ Takes(ready) <= Len(Stored)
           /\ head' \o Words(mem, rptr', Left(ready)) =
                SubSeq(Stored, Takes(ready) + 1, Len(Stored))
<1>1. /\ Stored = head \o Words(mem, rptr, MemCount)
      /\ head \in Seq(Word) /\ Words(mem, rptr, MemCount) \in Seq(Word)
      /\ Stored \in Seq(Word) /\ Len(Stored) = Len(head) + MemCount
      /\ Len(head) = IF head = <<>> THEN 0 ELSE 1
      /\ MemCount \in Nat
  BY StoredFacts, CountIsNat
<1>2. Takes(ready) \in 0..1 /\ Takes(ready) <= Len(Stored)
  BY <1>1 DEF Takes
<1>3. Len(Words(mem, rptr, MemCount)) = MemCount
  BY <1>1, WordsAreSequence DEF DropInv
<1> DEFINE w == Words(mem, rptr, MemCount)
           rest == head' \o Words(mem, rptr', Left(ready))
<1>4. Takes(ready) = 0 => SubSeq(Stored, Takes(ready) + 1, Len(Stored)) = Stored
  BY <1>1, SubSeqFull
<1>5. CASE Fetch(ready)
  <2>1. rest = w /\ MemCount >= 1 /\ (head = <<>> \/ ready)
    BY <1>1, <1>5, FetchSplits DEF Fetch
  <2>2. CASE head = <<>>
    <3>1. Takes(ready) = 0
      BY <1>1, <2>2 DEF Takes
    <3>2. Stored = w
      <4>1. Stored = <<>> \o w
        BY <1>1, <2>2
      <4> QED BY <1>1, <4>1, ConcatEmptySeq
    <3> QED BY <1>2, <1>4, <2>1, <3>1, <3>2
  <2>3. CASE head # <<>>
    <3> HIDE DEF w, rest
    <3>1. Takes(ready) = 1 /\ Len(head) = 1
      BY <1>1, <2>1, <2>3 DEF Takes
    <3>2. Stored = head \o w /\ w \in Seq(Word) /\ Len(w) = MemCount /\ Len(Stored) = 1 + MemCount
      BY <1>1, <1>3, <3>1 DEF w
    <3>3. /\ 2 \in Len(head) + 1 .. Len(head) + Len(w)
          /\ Len(Stored) \in Len(head) + 1 .. Len(head) + Len(w)
          /\ 2 - Len(head) = 1 /\ Len(Stored) - Len(head) = Len(w)
      BY <1>1, <2>1, <3>1, <3>2
    <3>4. SubSeq(head \o w, 2, Len(Stored)) = SubSeq(w, 2 - Len(head), Len(Stored) - Len(head))
      BY <1>1, <3>2, <3>3, SubSeqOfConcat2
    <3>5. SubSeq(w, 1, Len(w)) = w
      BY <3>2, SubSeqFull
    <3>6. SubSeq(Stored, 2, Len(Stored)) = w
      BY <3>2, <3>3, <3>4, <3>5
    <3> QED BY <1>2, <2>1, <3>1, <3>6 DEF rest
  <2> QED BY <2>2, <2>3
<1>6. CASE ~Fetch(ready)
  <2>1. rptr' = rptr /\ Left(ready) = MemCount /\ head' = IF ready THEN <<>> ELSE head
    BY <1>6 DEF DropTick, Left
  <2>2. CASE ~ready
    <3>1. rest = Stored /\ Takes(ready) = 0
      BY <1>1, <2>1, <2>2 DEF Takes
    <3> QED BY <1>2, <1>4, <3>1
  <2>3. CASE ready
    <3>1. MemCount = 0 /\ Takes(ready) = Len(head)
      BY <1>6, <2>3 DEF Fetch, Takes
    <3>2. w = <<>>
      BY <1>1, <1>3, <3>1, EmptySeq
    <3>3. rest = <<>>
      <4>1. rest = <<>> \o w
        BY <2>1, <2>3
      <4> QED BY <1>1, <3>2, <4>1, ConcatEmptySeq
    <3>4. SubSeq(Stored, Takes(ready) + 1, Len(Stored)) = <<>>
      <4>1. Len(Stored) < Takes(ready) + 1 /\ Len(Stored) \in Int /\ Takes(ready) + 1 \in Int
        BY <1>1, <3>1
      <4> QED BY <4>1, SubSeqEmpty
    <3> QED BY <1>2, <3>3, <3>4
  <2> QED BY <2>2, <2>3
<1> QED BY <1>5, <1>6

(* An accepted word goes behind the rest, a refused one changes nothing    *)
(* but the count.                                                          *)
Rest(ready) == SubSeq(Stored, Takes(ready) + 1, Len(Stored))

LEMMA StoredAfter ==
    ASSUME DropConstants, DropInv, NEW push \in Offer, NEW ready \in BOOLEAN, DropTick(push, ready)
    PROVE  Stored' = IF push # <<>> /\ ~Full THEN Append(Rest(ready), push[1]) ELSE Rest(ready)
<1> DEFINE kept == Rest(ready)
           v == Words(mem, rptr', Left(ready))
<1>1. head' \o v = kept
  BY KeptIsRest DEF Rest
<1>2. /\ head' \in Seq(Word) /\ v \in Seq(Word)
  BY FetchSplits, WordOrNone, WordsAreSequence
<1>3. Stored' = head' \o Words(mem', rptr', MemCount')
  BY DEF Stored, Words, MemCount, PtrMod, Address
<1>4. CASE push # <<>> /\ ~Full
  <2>1. Words(mem', rptr', MemCount') = Append(v, push[1])
    BY <1>4, WordsAfter
  <2>2. PICK x \in Word : x = push[1]
    BY <1>4 DEF Offer
  <2>3. Stored' = Append(kept, x)
    <3> HIDE DEF v, kept
    <3> DEFINE e == <<x>>
    <3>1. e \in Seq(Word)
      OBVIOUS
    <3>2. Append(v, x) = v \o e
      BY <1>2, AppendIsConcat
    <3>3. head' \o v \in Seq(Word)
      BY <1>2, ConcatProperties
    <3>4. Append(head' \o v, x) = (head' \o v) \o e
      BY <3>3, AppendIsConcat
    <3>5. (head' \o v) \o e = head' \o (v \o e)
      <4> HIDE DEF e
      <4> QED BY <1>2, <3>1, ConcatAssociative
    <3> QED BY <1>1, <1>3, <2>1, <2>2, <3>2, <3>4, <3>5
  <2> QED BY <1>4, <2>2, <2>3
<1>5. CASE ~(push # <<>> /\ ~Full)
  <2>1. Words(mem', rptr', MemCount') = v
    BY <1>5, WordsAfter
  <2> QED BY <1>1, <1>3, <1>5, <2>1
<1> QED BY <1>4, <1>5

(* The head register holds the oldest word.                                *)
LEMMA HeadIsFirst ==
    ASSUME DropConstants, DropInv
    PROVE  /\ Stored \in Seq(Word)
           /\ head # <<>> => Stored # <<>> /\ head = <<Stored[1]>>
<1>1. /\ Stored = head \o Words(mem, rptr, MemCount)
      /\ head \in Seq(Word) /\ Words(mem, rptr, MemCount) \in Seq(Word)
      /\ Stored \in Seq(Word)
      /\ Len(Stored) = Len(head) + MemCount
      /\ Len(head) = IF head = <<>> THEN 0 ELSE 1
      /\ MemCount \in Nat
  BY StoredFacts, CountIsNat
<1>2. head # <<>> => Stored # <<>> /\ head = <<Stored[1]>>
  <2> SUFFICES ASSUME head # <<>> PROVE Stored # <<>> /\ head = <<Stored[1]>>
    OBVIOUS
  <2>1. PICK x \in Word : head = <<x>>
    BY DEF DropInv, OneWord
  <2>2. Len(head) = 1 /\ head[1] = x
    BY <2>1
  <2>3. Len(Stored) >= 1
    BY <1>1, <2>2
  <2>4. Stored[1] = x
    <3> DEFINE w == Words(mem, rptr, MemCount)
    <3> HIDE DEF w
    <3>1. 1 \in 1..Len(head) /\ head \in Seq(Word) /\ w \in Seq(Word) /\ Stored = head \o w
      BY <1>1, <2>2 DEF w
    <3>2. (head \o w)[1] = head[1]
      BY <2>2, <3>1, ConcatProperties
    <3> QED BY <2>2, <3>1, <3>2
  <2> QED BY <1>1, <2>1, <2>3, <2>4
<1> QED BY <1>1, <1>2

(* After the clock it holds the oldest word of the rest: memory stands     *)
(* behind an empty head for one clock only.                                *)
LEMMA HeadMoves ==
    ASSUME DropConstants, DropInv, NEW push, NEW ready \in BOOLEAN, DropTick(push, ready)
    PROVE  head' = IF Rest(ready) = <<>> THEN <<>> ELSE <<Rest(ready)[1]>>
<1> DEFINE v == Words(mem, rptr', Left(ready))
<1>1. /\ head' \o v = Rest(ready)
      /\ head' \in OneWord \cup {<<>>} /\ Left(ready) \in Nat /\ Live(mem, rptr', Left(ready))
  BY KeptIsRest, FetchSplits DEF Rest
<1>2. v \in Seq(Word) /\ Len(v) = Left(ready)
  BY <1>1, WordsAreSequence
<1>3. CASE head' = <<>>
  <2>1. ~Fetch(ready) /\ head' = IF ready THEN <<>> ELSE head
    <3>1. <<>> \notin OneWord
      BY DEF OneWord
    <3> QED BY <1>3, <3>1, FetchSplits DEF DropTick
  <2>2. MemCount = 0 /\ Left(ready) = MemCount
    BY <1>3, <2>1 DEF Fetch, Left
  <2> HIDE DEF v
  <2>3. v = <<>>
    BY <1>2, <2>2, EmptySeq
  <2> QED BY <1>1, <1>3, <2>3
<1>4. CASE head' # <<>>
  <2>1. PICK x \in Word : head' = <<x>>
    BY <1>1, <1>4 DEF OneWord
  <2> HIDE DEF v
  <2> DEFINE h == <<x>>
  <2>2. h \in Seq(Word) /\ Len(h) = 1 /\ h[1] = x
    OBVIOUS
  <2>3. Rest(ready) = h \o v
    BY <1>1, <2>1
  <2> HIDE DEF h
  <2>4. Len(h \o v) = Len(h) + Len(v) /\ (h \o v)[1] = h[1]
    <3>1. 1 \in 1..Len(h) /\ h \in Seq(Word) /\ v \in Seq(Word)
      BY <1>2, <2>2
    <3>2. Len(h \o v) = Len(h) + Len(v)
      BY <3>1, ConcatProperties
    <3>3. (h \o v)[1] = h[1]
      BY <2>2, <3>1, ConcatProperties
    <3> QED BY <3>2, <3>3
  <2>5. h \o v # <<>>
    BY <1>1, <1>2, <2>2, <2>4
  <2> QED BY <1>4, <2>1, <2>2, <2>3, <2>4, <2>5
<1> QED BY <1>3, <1>4

(* The same, one word at a time: the oldest word goes when it is taken,    *)
(* and a word that finds room goes to the end.                             *)
LEMMA StoredMoves ==
    ASSUME DropConstants, DropInv, NEW push \in Offer, NEW ready \in BOOLEAN, DropTick(push, ready)
    PROVE  /\ Stored \in Seq(Word)
           /\ head # <<>> => Stored # <<>> /\ head = <<Stored[1]>>
           /\ LET kept == IF ready /\ head # <<>> THEN Tail(Stored) ELSE Stored IN
              /\ Stored' = IF push # <<>> /\ ~Full THEN Append(kept, push[1]) ELSE kept
              /\ head' = IF kept = <<>> THEN <<>> ELSE <<kept[1]>>
           /\ dropCnt' = IF push # <<>> /\ Full THEN (dropCnt + 1) % DropMod ELSE dropCnt
<1>1. /\ Stored = head \o Words(mem, rptr, MemCount)
      /\ head \in Seq(Word) /\ Words(mem, rptr, MemCount) \in Seq(Word)
      /\ Stored \in Seq(Word)
      /\ Len(Stored) = Len(head) + MemCount
      /\ Len(head) = IF head = <<>> THEN 0 ELSE 1
      /\ MemCount \in Nat
  BY StoredFacts, CountIsNat
<1>2. head # <<>> => Stored # <<>> /\ head = <<Stored[1]>>
  BY HeadIsFirst
<1>3. Rest(ready) = IF ready /\ head # <<>> THEN Tail(Stored) ELSE Stored
  <2>1. CASE ready /\ head # <<>>
    <3>1. Takes(ready) = 1 /\ Stored # <<>>
      BY <1>1, <1>2, <2>1 DEF Takes
    <3>2. Rest(ready) = SubSeq(Stored, 2, Len(Stored))
      BY <3>1 DEF Rest
    <3>3. Tail(Stored) = SubSeq(Stored, 2, Len(Stored))
      BY <1>1, <3>1, TailIsSubSeq
    <3> QED BY <2>1, <3>2, <3>3
  <2>2. CASE ~(ready /\ head # <<>>)
    <3>1. Takes(ready) = 0
      BY <1>1, <2>2 DEF Takes
    <3>2. Rest(ready) = SubSeq(Stored, 1, Len(Stored))
      BY <3>1 DEF Rest
    <3> QED BY <1>1, <2>2, <3>2, SubSeqFull
  <2> QED BY <2>1, <2>2
<1>4. dropCnt' = IF push # <<>> /\ Full THEN (dropCnt + 1) % DropMod ELSE dropCnt
  BY DEF DropTick
<1>5. head' = IF Rest(ready) = <<>> THEN <<>> ELSE <<Rest(ready)[1]>>
  BY HeadMoves
<1>6. Stored' = IF push # <<>> /\ ~Full THEN Append(Rest(ready), push[1]) ELSE Rest(ready)
  BY StoredAfter
<1> QED BY <1>1, <1>2, <1>3, <1>4, <1>5, <1>6

LEMMA TickIsLossyStep ==
    ASSUME DropConstants, DropInv, NEW push \in Offer, NEW ready \in BOOLEAN, DropTick(push, ready)
    PROVE  Abstract!Next
<1> DEFINE kept == SubSeq(Stored, Takes(ready) + 1, Len(Stored))
           offers == Len(push)
           refuses == IF push # <<>> /\ Full THEN 1 ELSE 0
<1>1. /\ Takes(ready) \in 0..1 /\ Takes(ready) <= Len(Stored)
  BY KeptIsRest
<1>2. /\ offers = (IF push = <<>> THEN 0 ELSE 1) /\ offers \in 0..1 /\ refuses \in 0..1
      /\ refuses <= offers /\ (offers > refuses <=> push # <<>> /\ ~Full)
  <2>1. push = <<>> \/ push \in OneWord
    BY DEF Offer, OneWord
  <2>2. Len(push) = IF push = <<>> THEN 0 ELSE 1
    BY <2>1, WordOrNone
  <2> QED BY <2>2
<1>3. DropInv'
  BY DropNextInv
<1>5. Stored' = head' \o Words(mem', rptr', MemCount')
  BY DEF Stored, Words, MemCount, PtrMod, Address
<1>6. Stored' \in IF offers > refuses THEN {Append(kept, x) : x \in Word} ELSE {kept}
  <2>1. Stored' = IF push # <<>> /\ ~Full THEN Append(kept, push[1]) ELSE kept
    BY StoredAfter DEF Rest
  <2>2. push # <<>> => push[1] \in Word
    BY DEF Offer
  <2> QED BY <1>2, <2>1, <2>2
<1>7. Len(Stored') <= Depth + 1
  <2> DEFINE w == Words(mem', rptr', MemCount')
  <2>1. MemCount' \in Nat /\ MemCount' <= Depth
    <3>1. MemCount' <= Depth
      BY <1>3 DEF DropInv
    <3>2. MemCount \in Nat /\ (Fetch(ready) => MemCount # 0)
      BY CountIsNat DEF Fetch
    <3>3. MemCount' \in Int /\ MemCount' >= 0
      BY <3>2, CountMoves
    <3> QED BY <3>1, <3>3
  <2>2. w \in Seq(Word) /\ Len(w) = MemCount'
    BY <2>1, WordsAfter, WordsAreSequence
  <2>3. Len(head') \in 0..1 /\ head' \in Seq(Word)
    BY FetchSplits, WordOrNone
  <2> HIDE DEF w
  <2>4. Len(head' \o w) = Len(head') + Len(w)
    BY <2>2, <2>3, ConcatProperties
  <2>5. Stored' = head' \o w
    BY <1>5 DEF w
  <2> QED BY SMTT(30), <2>1, <2>2, <2>3, <2>4, <2>5 DEF DropConstants
<1>8. refuses = 1 => Len(Stored) >= Depth + 1
  BY StoredFacts DEF DropInv, Full, DropConstants
<1>9. /\ dropCnt' = (dropCnt + refuses) % DropMod
      /\ given' = (given + offers) % DropMod
      /\ taken' = (taken + Takes(ready)) % DropMod
  <2>1. DropMod \in Nat \ {0} /\ dropCnt \in 0..(DropMod - 1) /\ taken \in 0..(DropMod - 1)
    BY DEF DropConstants, DropInv, Count
  <2>2. \A c \in 0..(DropMod - 1) : (c + 0) % DropMod = c
    BY <2>1, ModFacts
  <2> QED BY <2>1, <2>2 DEF DropTick, Takes
<1> QED BY <1>1, <1>2, <1>6, <1>7, <1>8, <1>9 DEF Abstract!Next, Abstract!Step

LEMMA InitIsLossyInit ==
    ASSUME DropConstants, DropInit
    PROVE  Abstract!Init
<1>1. Stored \in Seq(Word) /\ Len(Stored) = 0
  <2>1. MemCount = 0
    <3>1. wptr \in Pointer /\ rptr \in Pointer
      BY DEF DropInit, DropConstants, Pointer, PtrMod
    <3> QED BY <3>1, CountFacts DEF DropInit, DropConstants, PtrMod
  <2> QED BY <2>1, DropInitInv, StoredFacts DEF DropInit
<1>2. Stored = <<>>
  BY <1>1, EmptySeq
<1> QED BY <1>2 DEF DropInit, Abstract!Init

(* Whatever is pushed and whenever the reader is ready, the FIFO hands     *)
(* over what it accepted, once, in order and unaltered, holds at most      *)
(* DEPTH + 1 words, refuses a word only when it holds that many, and       *)
(* counts every refusal: drop_fifo.sv implements LossyFifo.                *)
THEOREM ElasticFifoIsLossyFifo ==
    ASSUME DropConstants
    PROVE  DropSpec => ImplementsLossyFifo
<1>1. DropInit => DropInv /\ Abstract!Init
  BY DropInitInv, InitIsLossyInit
<1>2. DropInv /\ [DropNext]_fifoVars => DropInv' /\ [Abstract!Next]_(Abstract!vars)
  <2> SUFFICES ASSUME DropInv, [DropNext]_fifoVars
               PROVE  DropInv' /\ [Abstract!Next]_(Abstract!vars)
    OBVIOUS
  <2>1. CASE DropNext
    <3>1. PICK push \in Offer, ready \in BOOLEAN : DropTick(push, ready)
      BY <2>1 DEF DropNext, Offer
    <3> QED BY <3>1, DropNextInv, TickIsLossyStep
  <2>2. CASE UNCHANGED fifoVars
    BY <2>2 DEF fifoVars, DropInv, Live, MemCount, Full, Address, PtrMod, Pointer, Count, Stored, Abstract!vars
  <2> QED BY <2>1, <2>2
<1> QED BY <1>1, <1>2, PTL DEF DropSpec, ImplementsLossyFifo, Abstract!Spec
=============================================================================
