---------------------------- MODULE ReplayWindow ----------------------------
(***************************************************************************)
(* tcpx/replay.go: the sliding window that tells a frame received before   *)
(* from a new one.  The 64-bit mask is the set of its bit positions; bit d *)
(* stands for the sequence number maxSeq - d.                              *)
(***************************************************************************)
EXTENDS Integers

Bits == 0 .. 63

Windows == [maxSeq : Nat, bits : SUBSET Bits, size : 1 .. 64]

newReplayWindow(size) ==
    [maxSeq |-> 0, bits |-> {}, size |-> IF size = 0 \/ size > 64 THEN 64 ELSE size]

\* bits << n, in 64 bits
ShiftLeft(bits, n) == {b \in Bits : b - n \in bits}

\* What Accept returns.
AcceptsStale(w, seq) ==
    /\ seq # 0
    /\ \/ seq > w.maxSeq
       \/ w.maxSeq - seq \notin w.bits
AcceptsNarrow(w, seq) ==
    /\ seq # 0
    /\ \/ w.maxSeq = 0
       \/ seq > w.maxSeq
       \/ w.maxSeq - seq < w.size - 1 /\ w.maxSeq - seq \notin w.bits
Accepts(w, seq) ==
    /\ seq # 0
    /\ \/ w.maxSeq = 0
       \/ seq > w.maxSeq
       \/ w.maxSeq - seq < w.size /\ w.maxSeq - seq \notin w.bits

\* The window after Accept(seq) has returned true.
AcceptKeepingBits(w, seq) ==
    IF w.maxSeq = 0
      THEN [w EXCEPT !.maxSeq = seq, !.bits = {0}]
      ELSE IF seq > w.maxSeq
        THEN LET diff == seq - w.maxSeq IN
             [w EXCEPT !.maxSeq = seq,
                       !.bits = IF diff >= w.size THEN @ \cup {0} ELSE ShiftLeft(@, diff) \cup {0}]
        ELSE [w EXCEPT !.bits = @ \cup {w.maxSeq - seq}]
Accept(w, seq) ==
    IF w.maxSeq = 0
      THEN [w EXCEPT !.maxSeq = seq, !.bits = {0}]
      ELSE IF seq > w.maxSeq
        THEN LET diff == seq - w.maxSeq IN
             [w EXCEPT !.maxSeq = seq,
                       !.bits = IF diff >= w.size THEN {0} ELSE ShiftLeft(@, diff) \cup {0}]
        ELSE [w EXCEPT !.bits = @ \cup {w.maxSeq - seq}]
=============================================================================
