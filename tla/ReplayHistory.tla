---------------------------- MODULE ReplayHistory ---------------------------
(***************************************************************************)
(* A replay window fed with sequence numbers in any order and any number   *)
(* of times, and the set of numbers it has accepted: the reference the     *)
(* window's mask is compared with.                                         *)
(***************************************************************************)
EXTENDS ReplayWindow

CONSTANTS Seqs,    \* the sequence numbers that arrive
          Sizes    \* configured window sizes

ASSUME ReplayAssumption == Seqs \subseteq Nat /\ Sizes \subseteq Nat

VARIABLES w, accepted

replayVars == << w, accepted >>

WindowInit ==
    /\ \E size \in Sizes : w = newReplayWindow(size)
    /\ accepted = {}

Receive(seq) ==
    /\ Accepts(w, seq)
    /\ w' = Accept(w, seq)
    /\ accepted' = accepted \cup {seq}

\* Accept returns false: the window is left alone.
Refuse(seq) ==
    /\ ~Accepts(w, seq)
    /\ UNCHANGED replayVars

WindowNext == \E seq \in Seqs : Receive(seq) \/ Refuse(seq)

WindowSpec == WindowInit /\ [][WindowNext]_replayVars

WindowTypeOK == w \in Windows /\ accepted \in SUBSET Seqs

\* A sequence number that was accepted once is not accepted again, however
\* far the window has moved on since, across every shift of the mask.
NoReplay == \A seq \in accepted : ~Accepts(w, seq)

\* A frame that is merely late, fewer than size numbers behind the newest,
\* is not taken for a replay.
LateIsAccepted ==
    \A seq \in Seqs \ accepted :
        seq # 0 /\ (w.maxSeq = 0 \/ w.maxSeq < seq + w.size) => Accepts(w, seq)

\* The window and the history agree: maxSeq is the largest number accepted,
\* and inside the window bit d is set iff maxSeq - d was accepted.
WindowInv ==
    /\ WindowTypeOK
    /\ w.maxSeq = 0 => accepted = {}
    /\ w.maxSeq # 0 => w.maxSeq \in accepted
    /\ \A seq \in accepted : 0 < seq /\ seq <= w.maxSeq
    /\ w.maxSeq # 0 =>
         \A d \in 0 .. (w.size - 1) : d \in w.bits <=> (w.maxSeq - d) \in accepted
=============================================================================
