------------------------------ MODULE FeedArb ------------------------------
(***************************************************************************)
(* The A/B line arbiter (step5-board/rtl/feed_ab_arb.sv): merges the two   *)
(* lines of the feed, packet by packet, into one stream without duplicates *)
(* and, where either line still has the packet, without holes.  One step   *)
(* per core clock.  `heads' is what the two lines present: a_t*, b_t*.     *)
(***************************************************************************)
EXTENDS Naturals, Sequences

CONSTANTS AheadStall,    \* AHEAD_STALL
          ArbCntMod      \* the counters count modulo this (2^32)

ASSUME ArbAssumption == AheadStall \in Nat /\ ArbCntMod \in Nat \ {0}

VARIABLES arbState,      \* state
          sel,           \* the line being served
          nextSeq, target, waitCnt, synced,
          evGap, gapCnt, dupCnt,
          srcCnt         \* a_src_cnt and b_src_cnt; fwd_cnt is their sum

arbVars == <<arbState, sel, nextSeq, target, waitCnt, synced, evGap, gapCnt, dupCnt, srcCnt>>

Line == {"A", "B"}

ArbInit ==
    /\ arbState = "IDLE" /\ sel = "A" /\ nextSeq = 1 /\ target = 1
    /\ waitCnt = 0 /\ synced = FALSE /\ evGap = FALSE
    /\ gapCnt = 0 /\ dupCnt = 0 /\ srcCnt = [l \in Line |-> 0]

(* ---- the two heads against next_seq ----                                *)
Exact(heads) == {l \in Line : heads[l] # <<>> /\ Head(heads[l]).seq = nextSeq}
Dup(heads)   == {l \in Line : heads[l] # <<>> /\ Head(heads[l]).seq < nextSeq}
Ahead(heads) == {l \in Line : heads[l] # <<>> /\ Head(heads[l]).seq > nextSeq}

FirstOf(lines) == IF "A" \in lines THEN "A" ELSE "B"
Nearest(lines, heads) ==
    FirstOf({l \in lines : \A k \in lines : Head(heads[l]).seq <= Head(heads[k]).seq})

Kind(heads) == IF Exact(heads) # {} THEN "FWD"
               ELSE IF Dup(heads) # {} THEN "DUP"
               ELSE IF Ahead(heads) # {} THEN "AHEAD" ELSE "NONE"

Picked(heads) == IF Exact(heads) # {} THEN FirstOf(Exact(heads))
                 ELSE IF Dup(heads) # {} THEN FirstOf(Dup(heads))
                 ELSE IF Ahead(heads) # {} THEN Nearest(Ahead(heads), heads) ELSE "A"

(* Wrong on purpose: a gap at once.                                        *)
GapNowAtOnce(heads) == Kind(heads) = "AHEAD"

GapNow(heads) == Kind(heads) = "AHEAD" /\ waitCnt >= AheadStall

EndOfPicked(heads) == LET h == Head(heads[Picked(heads)]) IN h.seq + h.cnt

Serve(heads, state) == arbState' = state /\ sel' = Picked(heads)
Forward(heads) ==
    /\ Serve(heads, "FWD")
    /\ target' = EndOfPicked(heads)
    /\ waitCnt' = 0

ArbLock(heads) ==                           \* lock on to the first packet
    /\ ~synced /\ synced' = (Kind(heads) # "NONE")
    /\ IF Kind(heads) # "NONE" THEN Forward(heads)
       ELSE UNCHANGED <<arbState, sel, target, waitCnt>>
    /\ evGap' = FALSE /\ UNCHANGED gapCnt

ArbPick(heads) ==
    /\ synced /\ UNCHANGED synced
    /\ CASE Kind(heads) = "FWD" \/ GapNow(heads) -> Forward(heads)
         [] Kind(heads) = "DUP" -> Serve(heads, "DROP") /\ UNCHANGED <<target, waitCnt>>
         [] OTHER -> /\ waitCnt' = IF Kind(heads) = "AHEAD" THEN waitCnt + 1 ELSE waitCnt
                     /\ UNCHANGED <<arbState, sel, target>>
    /\ evGap' = GapNow(heads)
    /\ gapCnt' = IF GapNow(heads) THEN (gapCnt + 1) % ArbCntMod ELSE gapCnt

(* Wrong on purpose: the output follows the pick of the moment.            *)
ServedPicked(heads) == IF arbState = "IDLE" THEN {} ELSE {Picked(heads)}

(* The line whose ready is up.  m_tready is tied high in t2t_top.          *)
Served(heads) == IF arbState = "IDLE" THEN {} ELSE {sel}

(* The beat on the output port.                                            *)
Output(heads) == IF arbState = "FWD"
                 THEN heads[CHOOSE l \in Served(heads) : TRUE] ELSE <<>>

EndsPacket(heads) == \E l \in Served(heads) : heads[l] # <<>> /\ Head(heads[l]).last

ArbServe(heads) ==
    /\ arbState' = IF EndsPacket(heads) THEN "IDLE" ELSE arbState
    /\ evGap' = FALSE /\ UNCHANGED <<sel, target, waitCnt, synced, gapCnt>>

ArbTick(heads) ==
    /\ IF arbState = "IDLE" THEN ArbLock(heads) \/ ArbPick(heads) ELSE ArbServe(heads)
    /\ nextSeq' = IF arbState = "FWD" /\ EndsPacket(heads) THEN target ELSE nextSeq
    /\ srcCnt' = IF arbState = "FWD" /\ EndsPacket(heads)
                 THEN [srcCnt EXCEPT ![sel] = (@ + 1) % ArbCntMod] ELSE srcCnt
    /\ dupCnt' = IF arbState = "DROP" /\ EndsPacket(heads)
                 THEN (dupCnt + 1) % ArbCntMod ELSE dupCnt
=============================================================================
