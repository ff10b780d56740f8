------------------------------ MODULE SDPMessages ------------------------------
(* Words and SDP headers as they travel.  A word is the set of its bits that    *)
(* are 1: `|` of the code is \cup and `<<` is Shl.  A byte is a number, a       *)
(* little-endian number of n bytes the sequence Bytes(v, n).                    *)
EXTENDS Integers, Sequences, FiniteSets

\* No word holds a negative number: struct.pack raises, as for bits above 31.
Bits(v) ==
  LET bits[n \in Int] ==
        IF n < 0 THEN {-1} ELSE IF n = 0 THEN {}
        ELSE (IF n % 2 = 1 THEN {0} ELSE {}) \cup {i + 1 : i \in bits[n \div 2]}
  IN  bits[v]
Shl(w, n) == {i + n : i \in w}
Part(w, low, n) == {i - low : i \in w \cap (low .. low + n - 1)}
Fits(w) == w \subseteq 0..31
Num(w) ==
  LET sum[s \in SUBSET (0..30)] ==
        IF s = {} THEN 0 ELSE LET i == CHOOSE i \in s : TRUE IN 2^i + sum[s \ {i}]
  IN  sum[w \cap (0..30)]
NumAt(w, low, n) == Num(Part(w, low, n))

Bytes(v, n) == [i \in 1..n |-> (v \div 256^(i - 1)) % 256]
Number(b, at, n) ==
  LET sum[i \in 0..n] == IF i = 0 THEN 0 ELSE b[at + i] * 256^(i - 1) + sum[i - 1]
  IN  sum[n]

NoneSet == -1   \* a field of a header that has not been given a value (None)

(* SDPHeader                                                                    *)
REPLY_NOT_EXPECTED == 7
REPLY_EXPECTED == 135
SDPFlag == {REPLY_NOT_EXPECTED, REPLY_EXPECTED, 39, 167}

SDPHeader(flags, port, cpu, x, y) ==
  [flags |-> flags, tag |-> NoneSet, destination_port |-> port,
   destination_cpu |-> cpu, destination_chip_x |-> x, destination_chip_y |-> y,
   source_port |-> NoneSet, source_cpu |-> NoneSet,
   source_chip_x |-> NoneSet, source_chip_y |-> NoneSet]

UpdateForSend(h, x, y) ==
  [h EXCEPT !.tag = 255, !.source_port = 7, !.source_cpu = 31,
            !.source_chip_x = x, !.source_chip_y = y]

HeaderBytes(h) ==
  <<h.flags, h.tag,
    (h.destination_port % 8) * 32 + (h.destination_cpu % 32),
    (h.source_port % 8) * 32 + (h.source_cpu % 32),
    h.destination_chip_y, h.destination_chip_x, h.source_chip_y, h.source_chip_x>>

HeaderFrom(b, offset) ==
  [flags |-> b[offset + 1], tag |-> b[offset + 2],
   destination_port |-> b[offset + 3] \div 32, destination_cpu |-> b[offset + 3] % 32,
   destination_chip_x |-> b[offset + 6], destination_chip_y |-> b[offset + 5],
   source_port |-> b[offset + 4] \div 32, source_cpu |-> b[offset + 4] % 32,
   source_chip_x |-> b[offset + 8], source_chip_y |-> b[offset + 7]]

(* SDPMessage: a header and the data from an offset.                            *)
SDPMessageBytes(m) ==
  HeaderBytes(m.header) \o SubSeq(m.data, m.offset + 1, Len(m.data))
SDPMessageFrom(b, offset) ==
  [header |-> HeaderFrom(b, offset), data |-> b, offset |-> offset + 8]
================================================================================
