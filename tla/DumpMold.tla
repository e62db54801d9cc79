------------------------------ MODULE DumpMold ------------------------------
(***************************************************************************)
(* The golden of the message splitters                                     *)
(* (step3a-mold-stripper/scripts/dump_mold.py): the lines it prints for a  *)
(* sequence of packets.                                                    *)
(***************************************************************************)
EXTENDS Integers, Sequences

CONSTANT EOS_COUNT

MSG(n)        == [line |-> "MSG", seq |-> n, expected |-> 0]
GAP(exp, seq) == [line |-> "GAP", seq |-> seq, expected |-> exp]
HB(seq)       == [line |-> "HB", seq |-> seq, expected |-> 0]
EOS(seq)      == [line |-> "EOS", seq |-> seq, expected |-> 0]

Messages(p) == [k \in 1..p.count |-> MSG(p.seq + k - 1)]

Line(d, p) ==
    IF d.eos THEN d
    ELSE IF p.count = EOS_COUNT THEN [d EXCEPT !.eos = TRUE, !.out = Append(@, EOS(p.seq))]
    ELSE LET out == IF p.seq > d.expected THEN Append(d.out, GAP(d.expected, p.seq)) ELSE d.out
         IN  IF p.count = 0
             THEN [d EXCEPT !.out = Append(out, HB(p.seq)),
                            !.expected = IF p.seq > @ THEN p.seq ELSE @]
             ELSE IF p.seq < d.expected THEN [d EXCEPT !.out = out]
             ELSE [d EXCEPT !.out = out \o Messages(p), !.expected = p.seq + p.count]

Start == [expected |-> 1, out |-> <<>>, eos |-> FALSE]

Dump(packets) ==
    LET after[n \in 0..Len(packets)] ==
            IF n = 0 THEN Start ELSE Line(after[n - 1], packets[n])
    IN  after[Len(packets)].out
=============================================================================
