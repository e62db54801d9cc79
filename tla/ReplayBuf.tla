----------------------------- MODULE ReplayBuf -----------------------------
(***************************************************************************)
(* The transmit replay buffer (step6-strategy/rtl/tx_replay_buf.sv): the   *)
(* live beats pass straight through and are stored in a ring of frames on  *)
(* the way; a request puts a stored frame on the wire again, beat by beat, *)
(* while the live path is held off.  m_tready is tied high in t2t_top.     *)
(***************************************************************************)
EXTENDS Integers, Sequences

CONSTANTS Slots,       \* SLOTS: frames the ring holds
          Beats,       \* BEATS: the most beats of a frame
          StoreMod,    \* stored_cnt counts modulo this (2^32)
          ReplayCntMod \* resent_cnt and resend_drop count modulo this (2^32)

ASSUME RingAssumption ==
    Slots \in Nat \ {0} /\ Beats \in Nat \ {0}
    /\ StoreMod \in Nat \ {0} /\ ReplayCntMod \in Nat \ {0}

VARIABLES ring, slotLen,             \* ring, len
          wrSlot, wrBeat, wrapped, storedCnt,
          rpBusy, rpSlot, rpBeat, rpLen,
          resentCnt, resendDrop

storeVars  == <<ring, slotLen, wrSlot, wrBeat, wrapped, storedCnt>>
resendVars == <<rpBusy, rpSlot, rpBeat, rpLen, resentCnt, resendDrop>>
replayVars == <<storeVars, resendVars>>

Slot    == 0..(Slots - 1)
BeatNum == 0..(Beats - 1)

ReplayInit ==
    /\ ring = [s \in Slot |-> [n \in BeatNum |-> <<>>]]
    /\ slotLen = [s \in Slot |-> 0]
    /\ wrSlot = 0 /\ wrBeat = 0 /\ wrapped = FALSE /\ storedCnt = 0
    /\ rpBusy = FALSE /\ rpSlot = 0 /\ rpBeat = 0 /\ rpLen = 0
    /\ resentCnt = 0 /\ resendDrop = 0

LiveReady == ~rpBusy                   \* s_tready

(* A live beat is stored as it passes.                                     *)
Store(beat) ==
    /\ ring' = IF wrBeat < Beats THEN [ring EXCEPT ![wrSlot][wrBeat] = beat] ELSE ring
    /\ IF Head(beat).last
       THEN /\ slotLen' = [slotLen EXCEPT ![wrSlot] = wrBeat + 1]
            /\ wrBeat' = 0
            /\ wrSlot' = (wrSlot + 1) % Slots
            /\ wrapped' = (wrapped \/ wrSlot = Slots - 1)
            /\ storedCnt' = (storedCnt + 1) % StoreMod
       ELSE /\ wrBeat' = wrBeat + 1
            /\ UNCHANGED <<slotLen, wrSlot, wrapped, storedCnt>>

(* Age 0 is the latest frame stored.                                       *)
AgedSlot(age) == (wrSlot - 1 - age) % Slots
Stored(age)   == /\ storedCnt # 0
                 /\ wrapped \/ age < wrSlot
                 /\ slotLen[AgedSlot(age)] # 0

(* Wrong on purpose: a request taken whatever goes on.                     *)
AcceptsAtAnyTime(request, beat) == request # <<>> /\ Stored(Head(request))

Accepts(request, beat) ==
    request # <<>> /\ ~rpBusy /\ beat = <<>> /\ Stored(Head(request))

LastReplayed == rpBeat + 1 >= rpLen

(* A request is taken only when the live path is idle, else counted; a     *)
(* replay under way moves on by one beat.                                  *)
Resend(beat, request) ==
    /\ resendDrop' = IF request # <<>> /\ ~Accepts(request, beat)
                     THEN (resendDrop + 1) % ReplayCntMod ELSE resendDrop
    /\ IF Accepts(request, beat)
       THEN /\ rpBusy' = TRUE /\ rpBeat' = 0
            /\ rpSlot' = AgedSlot(Head(request))
            /\ rpLen' = slotLen[AgedSlot(Head(request))]
            /\ UNCHANGED resentCnt
       ELSE /\ rpBusy' = (rpBusy /\ ~LastReplayed)
            /\ rpBeat' = IF rpBusy THEN rpBeat + 1 ELSE rpBeat
            /\ resentCnt' = IF rpBusy /\ LastReplayed
                            THEN (resentCnt + 1) % ReplayCntMod ELSE resentCnt
            /\ UNCHANGED <<rpSlot, rpLen>>

(* Wrong on purpose: the live beat always wins the output.                 *)
OnWireLiveFirst(beat) ==
    IF beat # <<>> THEN beat
    ELSE IF rpBusy THEN <<[Head(ring[rpSlot][rpBeat]) EXCEPT !.last = LastReplayed]>>
    ELSE <<>>

(* What is on the wire this cycle.                                         *)
OnWire(beat) ==
    IF rpBusy THEN <<[Head(ring[rpSlot][rpBeat]) EXCEPT !.last = LastReplayed]>>
    ELSE beat

(* One core clock: `beat' is s_tvalid and the live beat, `request' is      *)
(* resend_req and resend_age.                                              *)
ReplayTick(beat, request) ==
    /\ IF beat # <<>> /\ LiveReady THEN Store(beat) ELSE UNCHANGED storeVars
    /\ Resend(beat, request)
=============================================================================
