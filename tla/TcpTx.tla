------------------------------- MODULE TcpTx -------------------------------
(***************************************************************************)
(* The TCP framer (step6-strategy/rtl/tcp_tx.sv): takes a payload in IDLE, *)
(* sums it, and emits the frame as two beats.  Of a frame what changes is  *)
(* kept: the payload, the sequence number and IP id it was assigned, and   *)
(* the two checksums.  The words that stay the same, the acknowledgement   *)
(* of a session on which the venue is silent among them, are their sums.   *)
(***************************************************************************)
EXTENDS Naturals, Sequences

(***************************************************************************)
(* The OUCH order builder (step6-strategy/rtl/ouch_builder.sv): one output *)
(* register, and the counter that makes every Order Token new.  Of the 52  *)
(* bytes only what tells orders apart is kept: the token and the intent.   *)
(***************************************************************************)
CONSTANT TokenMod      \* token_seq counts modulo this (2^32)

ASSUME TokenAssumption == TokenMod \in Nat \ {0}

VARIABLES packet,      \* m_tvalid and m_tdata
          tokenSeq     \* pkt_cnt and token_seq, which always agree

builderVars == <<packet, tokenSeq>>

BuilderInit == packet = <<>> /\ tokenSeq = 0

(* i_ready, with m_tready = down.                                          *)
BuilderReady(down) == packet = <<>> \/ down

(* One core clock with the intent i_valid/i_* presented.                   *)
BuilderTick(intent, down) ==
    IF intent # <<>> /\ BuilderReady(down)
    THEN /\ packet' = <<[token |-> tokenSeq, intent |-> Head(intent)]>>
         /\ tokenSeq' = (tokenSeq + 1) % TokenMod
    ELSE /\ packet' = IF down THEN <<>> ELSE packet
         /\ UNCHANGED tokenSeq
-----------------------------------------------------------------------------
CONSTANTS SeqMod,     \* TCP sequence numbers are modulo this (2^32): two words
          PayldB,     \* PAYLD_B: bytes each frame carries
          InitSeq,    \* cfg_init_seq
          FrameMod,   \* frame_cnt counts modulo this (2^32)
          CsumMod,    \* a checksum's words are modulo this (2^16), and ip_id
          InitId,     \* cfg_init_id
          IpBase, TcpBase,   \* the sums of the header words that do not change
          PayldSum(_)        \* the sum of a payload's words

ASSUME SeqAssumption ==
    SeqMod \in Nat \ {0} /\ PayldB \in Nat /\ InitSeq \in 0..(SeqMod - 1)
ASSUME CsumAssumption ==
    {CsumMod, FrameMod} \subseteq Nat \ {0} /\ InitId \in 0..(CsumMod - 1) /\ {IpBase, TcpBase} \subseteq Nat

VARIABLES txState,    \* state
          hold,       \* the payload being summed
          txOut,      \* m_tvalid and the beat [frame, last]
          tail,       \* the second beat, waiting
          seqNum, ipId, frameCnt

txVars == <<txState, hold, txOut, tail, seqNum, ipId, frameCnt>>

(* Wrong on purpose: the carry of the fold is lost.                        *)
fold_once(s) == (CsumMod - 1) - (((s % CsumMod) + (s \div CsumMod)) % CsumMod)

(* One's complement of a sum whose carries are added back in, twice.       *)
fold(s) ==
    LET once  == (s % CsumMod) + (s \div CsumMod)
        twice == (once % CsumMod) + (once \div CsumMod)
    IN  (CsumMod - 1) - (twice % CsumMod)

ip_csum == fold(IpBase + ipId)
tcp_csum(payload) ==
    fold(TcpBase + (seqNum \div CsumMod) + (seqNum % CsumMod) + PayldSum(payload))

Assembled(payload) ==
    [seq |-> seqNum, ident |-> ipId, ipCsum |-> ip_csum, tcpCsum |-> tcp_csum(payload),
     payload |-> payload]

HeadBeat(frame) == [frame |-> frame, last |-> FALSE]
TailBeat(frame) == [frame |-> frame, last |-> TRUE]

(* s_tready, with m_tready = down.                                         *)
TxReady(down) == txState = "IDLE" /\ (txOut = <<>> \/ down)

Drained(down) == IF down THEN <<>> ELSE txOut

(* Reset, and the cfg_load that hands over the established connection.     *)
TxInit ==
    /\ txState = "IDLE" /\ hold = <<>> /\ txOut = <<>> /\ tail = <<>>
    /\ seqNum = InitSeq /\ ipId = InitId /\ frameCnt = 0

TxTake(payload, down) ==
    /\ txState = "IDLE"
    /\ txOut' = Drained(down)
    /\ IF payload # <<>> /\ TxReady(down)
       THEN txState' = "CALC" /\ hold' = payload
       ELSE UNCHANGED <<txState, hold>>
    /\ UNCHANGED <<tail, frameCnt>>

TxCalc ==
    /\ txState = "CALC"
    /\ txOut' = <<HeadBeat(Assembled(Head(hold)))>>
    /\ tail' = <<TailBeat(Assembled(Head(hold)))>>
    /\ txState' = "BEAT1"
    /\ frameCnt' = (frameCnt + 1) % FrameMod
    /\ UNCHANGED hold

(* Wrong on purpose: the second beat waits until the port is empty.        *)
TxBeat1TooLate(down) ==
    /\ txState = "BEAT1"
    /\ IF txOut = <<>> THEN txOut' = tail /\ txState' = "IDLE"
       ELSE txOut' = Drained(down) /\ UNCHANGED txState
    /\ UNCHANGED <<hold, tail, frameCnt>>

TxBeat1(down) ==
    /\ txState = "BEAT1"
    /\ IF txOut = <<>> \/ down
       THEN txOut' = tail /\ txState' = "IDLE"
       ELSE UNCHANGED <<txOut, txState>>
    /\ UNCHANGED <<hold, tail, frameCnt>>

(* The counters of the next frame; a commit reloads them.                  *)
Count(load, counter, init, step, modulus) ==
    IF load THEN init ELSE IF txState = "CALC" THEN (counter + step) % modulus ELSE counter

(* One core clock: `payload' is s_tvalid and s_tdata, `load' is cfg_load.  *)
TxTick(payload, load, down) ==
    /\ TxTake(payload, down) \/ TxCalc \/ TxBeat1(down)
    /\ seqNum' = Count(load, seqNum, InitSeq, PayldB, SeqMod)
    /\ ipId' = Count(load, ipId, InitId, 1, CsumMod)
=============================================================================
