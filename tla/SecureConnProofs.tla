-------------------------- MODULE SecureConnProofs --------------------------
(***************************************************************************)
(* Proofs about package tcpx.  First the replay window, for every size and *)
(* every set of sequence numbers; then SecureConn, for any number of       *)
(* Writes, pings and rotations on every kind of link.  The inductive       *)
(* invariant SecureInv says of each end                                    *)
(*   Sealed     how its frames follow one another: ids, keys, numbers;     *)
(*   Numbered   that its data frames carry the payloads in order;          *)
(*   Guarded    that the windows refuse every frame that was delivered;    *)
(*   InStep     where its reader is, if the link keeps the order.          *)
(***************************************************************************)
EXTENDS SecureConn, ReplayHistory, TLAPS

-----------------------------------------------------------------------------
(* The replay window.                                                      *)

\* The constructor returns a window with nothing in it and a size Accept can
\* shift by, whatever size is configured.
LEMMA NewWindowType ==
    ASSUME NEW size \in Nat
    PROVE  newReplayWindow(size) \in Windows
BY SMT DEF newReplayWindow, Windows, Bits

\* Accept keeps the window's type: the mask never grows past 64 bits.
LEMMA AcceptType ==
    ASSUME NEW v \in Windows, NEW seq \in Nat, Accepts(v, seq)
    PROVE  /\ Accept(v, seq) \in Windows
           /\ Accept(v, seq).size = v.size
<1>1. v.maxSeq \in Nat /\ v.bits \in SUBSET Bits /\ v.size \in 1 .. 64
  BY DEF Windows
<1>2. CASE v.maxSeq = 0
  <2>1. {0} \in SUBSET Bits
    BY DEF Bits
  <2>2. Accept(v, seq) = [v EXCEPT !.maxSeq = seq, !.bits = {0}]
    BY <1>2 DEF Accept
  <2> QED
    BY <1>1, <2>1, <2>2 DEF Windows
<1>3. CASE v.maxSeq # 0 /\ seq > v.maxSeq
  <2>1. ShiftLeft(v.bits, seq - v.maxSeq) \cup {0} \in SUBSET Bits
    BY DEF ShiftLeft, Bits
  <2>2. {0} \in SUBSET Bits
    BY DEF Bits
  <2> QED
    BY <1>1, <1>3, <2>1, <2>2 DEF Accept, Windows
<1>4. CASE v.maxSeq # 0 /\ ~(seq > v.maxSeq)
  <2>1. v.maxSeq - seq \in Bits
    BY <1>1, <1>4 DEF Accepts, Bits
  <2>2. v.bits \cup {v.maxSeq - seq} \in SUBSET Bits
    BY <1>1, <2>1
  <2> QED
    BY <1>1, <1>4, <2>2 DEF Accept, Windows
<1> QED
  BY <1>2, <1>3, <1>4

\* A number that was refused stays refused, and one that was accepted is from
\* then on, whatever the window accepts next.
LEMMA RefusedForGood ==
    ASSUME NEW v \in Windows, NEW seq \in Nat, Accepts(v, seq), NEW old \in Nat,
           ~Accepts(v, old) \/ old = seq
    PROVE  ~Accepts(Accept(v, seq), old)
<1> DEFINE u == Accept(v, seq)
<1>1. v.maxSeq \in Nat /\ v.bits \in SUBSET Bits /\ v.size \in 1 .. 64 /\ seq # 0
  BY DEF Windows, Accepts
<1>2. CASE v.maxSeq = 0
  <2>1. u.maxSeq = seq /\ u.bits = {0} /\ u.size = v.size
    BY <1>2 DEF Accept, Windows
  <2> QED
    BY <1>1, <1>2, <2>1 DEF Accepts
<1>3. CASE v.maxSeq # 0 /\ seq > v.maxSeq
  <2> DEFINE diff == seq - v.maxSeq
  <2>1. /\ u.maxSeq = seq /\ u.size = v.size
        /\ u.bits = IF diff >= v.size THEN {0} ELSE ShiftLeft(v.bits, diff) \cup {0}
    BY <1>1, <1>3 DEF Accept, Windows
  <2>2. CASE old = seq
    BY <1>1, <1>3, <2>1, <2>2 DEF Accepts
  <2>3. CASE old # seq /\ old # 0
    <3>1. old <= v.maxSeq /\ (v.maxSeq - old >= v.size \/ v.maxSeq - old \in v.bits)
      BY <1>1, <1>3, <2>3 DEF Accepts
    <3> SUFFICES ASSUME seq - old < v.size PROVE seq - old \in u.bits
      BY <1>1, <1>3, <2>1, <3>1 DEF Accepts
    <3>2. diff < v.size /\ v.maxSeq - old \in v.bits /\ seq - old \in Bits
          /\ (seq - old) - diff = v.maxSeq - old
      BY <1>1, <1>3, <3>1 DEF Bits
    <3> QED
      BY <1>1, <2>1, <3>2 DEF ShiftLeft
  <2> QED
    BY <2>2, <2>3 DEF Accepts
<1>4. CASE v.maxSeq # 0 /\ ~(seq > v.maxSeq)
  <2>1. u.maxSeq = v.maxSeq /\ u.size = v.size /\ u.bits = v.bits \cup {v.maxSeq - seq}
    BY <1>1, <1>4 DEF Accept, Windows
  <2> QED
    BY <1>1, <1>4, <2>1 DEF Accepts
<1> QED
  BY <1>1, <1>2, <1>3, <1>4

\* Inside the window the mask and the history still agree after a newer
\* sequence number has shifted it.
LEMMA ShiftAgrees ==
    ASSUME WindowInv, NEW seq \in Seqs, Receive(seq),
           w.maxSeq # 0, seq > w.maxSeq,
           NEW d \in 0 .. (w.size - 1)
    PROVE  d \in w'.bits <=> (w'.maxSeq - d) \in accepted'
<1>1. /\ w.maxSeq \in Nat /\ w.bits \in SUBSET Bits /\ w.size \in 1 .. 64
      /\ seq \in Nat /\ accepted \in SUBSET Nat
  BY ReplayAssumption DEF WindowInv, WindowTypeOK, Windows
<1> DEFINE diff == seq - w.maxSeq
<1>2. w'.maxSeq = seq /\ w'.bits = IF diff >= w.size THEN {0} ELSE ShiftLeft(w.bits, diff) \cup {0}
  BY <1>1 DEF Receive, Accept, WindowInv, WindowTypeOK, Windows
<1>3. accepted' = accepted \cup {seq}
  BY DEF Receive
<1>4. \A s \in accepted : s <= w.maxSeq /\ 0 < s
  BY DEF WindowInv
<1>5. CASE d = 0
  BY <1>1, <1>2, <1>3, <1>5
<1>6. CASE d # 0 /\ d < diff
  <2>1. seq - d \notin accepted' 
    BY <1>1, <1>3, <1>4, <1>6
  <2>2. d \notin w'.bits
    BY <1>1, <1>2, <1>6 DEF ShiftLeft, Bits
  <2> QED
    BY <1>2, <2>1, <2>2
<1>7. CASE d >= diff
  <2>1. diff < w.size /\ diff \in Nat /\ d - diff \in 0 .. (w.size - 1) /\ d # 0 /\ d \in Bits
    BY <1>1, <1>7 DEF Bits
  <2>2. d \in w'.bits <=> d - diff \in w.bits
    BY <1>1, <1>2, <2>1 DEF ShiftLeft
  <2>3. d - diff \in w.bits <=> w.maxSeq - (d - diff) \in accepted
    BY <2>1 DEF WindowInv
  <2>4. w.maxSeq - (d - diff) = seq - d /\ seq - d # seq
    BY <1>1, <2>1
  <2> QED
    BY <1>2, <1>3, <2>2, <2>3, <2>4
<1> QED
  BY <1>1, <1>5, <1>6, <1>7

\* Receiving an acceptable number keeps the window and the history in step.
LEMMA ReceivePreserves ==
    ASSUME WindowInv, NEW seq \in Seqs, Receive(seq)
    PROVE  WindowInv'
<1>1. /\ w \in Windows /\ w.maxSeq \in Nat /\ w.bits \in SUBSET Bits /\ w.size \in 1 .. 64
      /\ seq \in Nat /\ seq # 0 /\ accepted \in SUBSET Seqs
  BY ReplayAssumption DEF WindowInv, WindowTypeOK, Windows, Receive, Accepts
<1>2. accepted' = accepted \cup {seq} /\ w' = Accept(w, seq)
  BY DEF Receive
<1>3. WindowTypeOK' /\ w'.size = w.size
  BY <1>1, <1>2, AcceptType DEF WindowTypeOK, Receive
<1>4. CASE w.maxSeq = 0
  <2>1. w'.maxSeq = seq /\ w'.bits = {0} /\ accepted' = {seq}
    BY <1>1, <1>2, <1>4 DEF Accept, Windows, WindowInv
  <2>2. \A d \in 0 .. (w'.size - 1) : d \in w'.bits <=> (w'.maxSeq - d) \in accepted'
    BY <1>1, <1>3, <2>1
  <2> QED
    BY <1>1, <1>3, <2>1, <2>2 DEF WindowInv
<1>5. CASE w.maxSeq # 0 /\ seq > w.maxSeq
  <2>1. w'.maxSeq = seq
    BY <1>1, <1>2, <1>5 DEF Accept, Windows
  <2>2. \A d \in 0 .. (w'.size - 1) : d \in w'.bits <=> (w'.maxSeq - d) \in accepted'
    BY <1>3, <1>5, ShiftAgrees
  <2>3. \A s \in accepted' : 0 < s /\ s <= w'.maxSeq
    BY <1>1, <1>2, <1>5, <2>1, ReplayAssumption DEF WindowInv
  <2> QED
    BY <1>1, <1>2, <1>3, <2>1, <2>2, <2>3 DEF WindowInv
<1>6. CASE w.maxSeq # 0 /\ ~(seq > w.maxSeq)
  <2>1. w'.maxSeq = w.maxSeq /\ w'.bits = w.bits \cup {w.maxSeq - seq}
    BY <1>1, <1>2, <1>6 DEF Accept, Windows
  <2>2. \A d \in 0 .. (w.size - 1) : d \in w.bits <=> (w.maxSeq - d) \in accepted
    BY <1>6 DEF WindowInv
  <2>3. \A d \in 0 .. (w'.size - 1) : d \in w'.bits <=> (w'.maxSeq - d) \in accepted'
    BY <1>1, <1>2, <1>3, <2>1, <2>2
  <2>4. \A s \in accepted' : 0 < s /\ s <= w'.maxSeq
    BY <1>1, <1>2, <1>6, <2>1 DEF WindowInv
  <2> QED
    BY <1>1, <1>2, <1>3, <1>6, <2>1, <2>3, <2>4 DEF WindowInv
<1> QED
  BY <1>4, <1>5, <1>6

\* The mask of the window and the set of accepted numbers agree in every
\* reachable state, for every size, 64 and the sizes rounded to it included.
THEOREM WindowCorrect == WindowSpec => []WindowInv
<1>1. WindowInit => WindowInv
  <2> SUFFICES ASSUME WindowInit PROVE WindowInv
    OBVIOUS
  <2>1. PICK size \in Sizes : w = newReplayWindow(size)
    BY DEF WindowInit
  <2>2. w \in Windows /\ w.maxSeq = 0
    BY <2>1, NewWindowType, ReplayAssumption DEF newReplayWindow
  <2> QED
    BY <2>2 DEF WindowInit, WindowInv, WindowTypeOK
<1>2. WindowInv /\ [WindowNext]_replayVars => WindowInv'
  <2> SUFFICES ASSUME WindowInv, [WindowNext]_replayVars PROVE WindowInv'
    OBVIOUS
  <2>1. CASE WindowNext
    <3> PICK seq \in Seqs : Receive(seq) \/ Refuse(seq)
      BY <2>1 DEF WindowNext
    <3>1. CASE Receive(seq)
      BY <3>1, ReceivePreserves
    <3>2. CASE Refuse(seq)
      BY <3>2 DEF Refuse, replayVars, WindowInv, WindowTypeOK
    <3> QED
      BY <3>1, <3>2
  <2>2. CASE UNCHANGED replayVars
    BY <2>2 DEF replayVars, WindowInv, WindowTypeOK
  <2> QED
    BY <2>1, <2>2
<1> QED
  BY <1>1, <1>2, PTL DEF WindowSpec

\* A sequence number is accepted at most once.
THEOREM NeverReplayed == WindowSpec => []NoReplay
<1>1. WindowInv => NoReplay
  <2> SUFFICES ASSUME WindowInv, NEW seq \in accepted PROVE ~Accepts(w, seq)
    BY DEF NoReplay
  <2>1. /\ w.maxSeq \in Nat /\ w.size \in 1 .. 64 /\ seq \in Nat
        /\ 0 < seq /\ seq <= w.maxSeq
    BY ReplayAssumption DEF WindowInv, WindowTypeOK, Windows
  <2>2. \A d \in 0 .. (w.size - 1) : d \in w.bits <=> (w.maxSeq - d) \in accepted
    BY <2>1 DEF WindowInv
  <2>3. w.maxSeq - seq < w.size => w.maxSeq - seq \in w.bits
    <3> DEFINE d == w.maxSeq - seq
    <3> SUFFICES ASSUME d < w.size PROVE d \in w.bits
      OBVIOUS
    <3>1. d \in 0 .. (w.size - 1) /\ w.maxSeq - d = seq
      BY <2>1
    <3> QED
      BY <2>2, <3>1
  <2> QED
    BY <2>1, <2>3 DEF Accepts
<1> QED
  BY <1>1, WindowCorrect, PTL

\* A number fewer than size behind the newest is refused only if it was
\* accepted before.
THEOREM LateAccepted == WindowSpec => []LateIsAccepted
<1>1. WindowInv => LateIsAccepted
  <2> SUFFICES ASSUME WindowInv, NEW seq \in Seqs, seq \notin accepted,
                      seq # 0, w.maxSeq = 0 \/ w.maxSeq < seq + w.size
               PROVE  Accepts(w, seq)
    BY DEF LateIsAccepted
  <2>1. w.maxSeq \in Nat /\ w.size \in 1 .. 64 /\ seq \in Nat
    BY ReplayAssumption DEF WindowInv, WindowTypeOK, Windows
  <2>2. CASE w.maxSeq = 0 \/ seq > w.maxSeq
    BY <2>2 DEF Accepts
  <2>3. CASE w.maxSeq # 0 /\ ~(seq > w.maxSeq)
    <3> DEFINE d == w.maxSeq - seq
    <3>1. d \in 0 .. (w.size - 1) /\ w.maxSeq - d = seq
      BY <2>1, <2>3
    <3>2. d \notin w.bits
      BY <2>3, <3>1 DEF WindowInv
    <3> QED
      BY <2>1, <3>1, <3>2 DEF Accepts
  <2> QED
    BY <2>2, <2>3
<1> QED
  BY <1>1, WindowCorrect, PTL

-----------------------------------------------------------------------------
(* The invariant of a connection.                                          *)

\* The frame makes the other end follow a rotation.
Rotates(f) == f.kind = "update" /\ ~f.torn

\* The id and the key of the frame after the first i frames of end e.
IdAfter(frames, i) ==
    IF i = 0 THEN 1
    ELSE IF Rotates(frames[i]) THEN frames[i].id + 1 ELSE frames[i].id

KeyAfter(e, frames, i) ==
    IF i = 0 THEN SessionKey(e)
    ELSE IF Rotates(frames[i]) THEN deriveRotatedKey(frames[i].key, frames[i].seq)
    ELSE frames[i].key

\* A key tells whose it is and how often it was rotated.
Shaped(e, frames, k) ==
    /\ k.key.by = e /\ Len(k.key.salts) = k.id - 1
    /\ \A i \in DOMAIN frames : frames[i].key.by = e /\ Len(frames[i].key.salts) = frames[i].id - 1

\* Ids and sequence numbers rise, up to those of the send key.
Rising(frames, k) ==
    /\ \A i \in DOMAIN frames :
         /\ 0 < frames[i].seq
         /\ \/ frames[i].id < k.id
            \/ frames[i].id = k.id /\ frames[i].seq <= k.seq
    /\ \A i, j \in DOMAIN frames :
         i < j => \/ frames[i].id < frames[j].id
                  \/ frames[i].id = frames[j].id /\ frames[i].seq < frames[j].seq

\* Each frame is sealed with the key that those before it lead to.
Chained(e, frames, k) ==
    /\ \A i \in DOMAIN frames :
         frames[i].id = IdAfter(frames, i - 1) /\ frames[i].key = KeyAfter(e, frames, i - 1)
    /\ k.id = IdAfter(frames, Len(frames)) /\ k.key = KeyAfter(e, frames, Len(frames))

Sealed(e, frames, k) == Shaped(e, frames, k) /\ Rising(frames, k) /\ Chained(e, frames, k)

\* Data frames carry the numbers of the Writes, the one under way excepted.
Numbered(frames, count, kind) ==
    /\ \A i \in DOMAIN frames :
         frames[i].kind = "data" => /\ frames[i].payload <= count
                                    /\ kind = "data" => frames[i].payload < count
    /\ \A i, j \in DOMAIN frames :
         i < j /\ frames[i].kind = "data" /\ frames[j].kind = "data"
            => frames[i].payload < frames[j].payload

\* The window of a key refuses a frame.
Refuses(k, f) == f.id = k.id => ~Accepts(k.replay, f.seq)

\* What was delivered came from the stream and is refused by both windows.
Guarded(frames, recv, old, g) ==
    /\ old.id < recv.id
    /\ \A n \in DOMAIN g : \E i \in DOMAIN frames : frames[i].kind = "data" /\ frames[i].payload = g[n]
    /\ \A i \in DOMAIN frames, n \in DOMAIN g :
         frames[i].kind = "data" /\ frames[i].payload = g[n] =>
            /\ frames[i].id <= recv.id
            /\ Refuses(recv, frames[i])
            /\ Refuses(old, frames[i])
    /\ IsInjective(g)

\* The payloads of the whole data frames among the first k.
Payloads(frames, k) ==
    {frames[i].payload : i \in {j \in 1 .. k : frames[j].kind = "data" /\ ~frames[j].torn}}

\* The reader has read exactly the first p frames, none of them torn.
InStep(d, frames, recv, p, g, r) ==
    /\ p <= Len(frames)
    /\ recv.id = IdAfter(frames, p) /\ recv.key = KeyAfter(d, frames, p)
    /\ p > 0 => ~frames[p].torn
    /\ recv.replay.maxSeq = IF p = 0 \/ frames[p].kind = "update" THEN 0 ELSE frames[p].seq
    /\ r \in Errors => p < Len(frames) /\ frames[p + 1].torn
    /\ Range(g) = Payloads(frames, p)
    /\ \A i, j \in DOMAIN g : i < j => g[i] < g[j]

SendInv(e) ==
    /\ Sealed(e, wire[e], sendKey[e])
    /\ Numbered(wire[e], written[e], writer[e].kind)

RecvInv(e) ==
    /\ Guarded(wire[Other(e)], recvKey[e], oldRecv[e], got[e])
    /\ ~link.reordering => InStep(Other(e), wire[Other(e)], recvKey[e], pos[e], got[e], reader[e])

SecureInv == TypeOK /\ \A e \in Ends : SendInv(e) /\ RecvInv(e)

-----------------------------------------------------------------------------
(* A frame is put on the stream.                                           *)

\* The frame that end e seals next, with key k.
NextFrame(k, f) == f \in Frames /\ f.id = k.id /\ f.key = k.key /\ f.seq = k.seq + 1

\* A key that was rotated.
LEMMA DerivedKey ==
    ASSUME NEW key \in Keys, NEW salt \in Nat
    PROVE  /\ deriveRotatedKey(key, salt) \in Keys
           /\ deriveRotatedKey(key, salt).by = key.by
           /\ Len(deriveRotatedKey(key, salt).salts) = Len(key.salts) + 1
BY DEF deriveRotatedKey, Keys

\* A sequence number that is spent without a frame.
LEMMA SealNothing ==
    ASSUME NEW e \in Ends, NEW frames \in Seq(Frames), NEW k \in SendKeys, Sealed(e, frames, k)
    PROVE  Sealed(e, frames, [k EXCEPT !.seq = @ + 1])
<1> DEFINE l == [k EXCEPT !.seq = @ + 1]
<1>1. l.id = k.id /\ l.key = k.key /\ l.seq = k.seq + 1 /\ k.seq \in Nat
  BY DEF SendKeys
<1>2. \A i \in DOMAIN frames : frames[i].seq \in Nat
  <2>1. \A i \in DOMAIN frames : frames[i] \in Frames
    OBVIOUS
  <2> QED
    BY <2>1 DEF Frames
<1>3. Rising(frames, l)
  BY <1>1, <1>2 DEF Sealed, Rising
<1> QED
  BY <1>1, <1>3 DEF Sealed, Shaped, Chained

\* The elements of a sequence of frames with one more.
LEMMA Appended ==
    ASSUME NEW frames \in Seq(Frames), NEW f \in Frames
    PROVE  /\ Append(frames, f) \in Seq(Frames)
           /\ Len(frames) \in Nat
           /\ Len(Append(frames, f)) = Len(frames) + 1
           /\ DOMAIN frames = 1 .. Len(frames)
           /\ DOMAIN Append(frames, f) = 1 .. (Len(frames) + 1)
           /\ \A i \in 1 .. Len(frames) : Append(frames, f)[i] = frames[i] /\ frames[i] \in Frames
           /\ Append(frames, f)[Len(frames) + 1] = f
OBVIOUS

\* What the frames before it lead to does not change.
LEMMA AfterAppended ==
    ASSUME NEW e \in Ends, NEW frames \in Seq(Frames), NEW f \in Frames,
           NEW i \in 0 .. Len(frames)
    PROVE  /\ IdAfter(Append(frames, f), i) = IdAfter(frames, i)
           /\ KeyAfter(e, Append(frames, f), i) = KeyAfter(e, frames, i)
BY Appended DEF IdAfter, KeyAfter

\* A frame is sealed and, if it is a whole key update, the key rotated.
LEMMA SealFrame ==
    ASSUME NEW e \in Ends, NEW frames \in Seq(Frames), NEW k \in SendKeys, Sealed(e, frames, k),
           NEW f, NextFrame(k, f), NEW l \in SendKeys,
           IF Rotates(f)
             THEN l = [id |-> k.id + 1, key |-> deriveRotatedKey(k.key, f.seq), seq |-> 0]
             ELSE l = [k EXCEPT !.seq = @ + 1]
    PROVE  Sealed(e, Append(frames, f), l)
<1> DEFINE more == Append(frames, f)
           m == Len(frames)
<1>1. /\ f \in Frames /\ f.id = k.id /\ f.key = k.key /\ f.seq = k.seq + 1
      /\ k.seq \in Nat /\ k.id \in Nat /\ k.key \in Keys
  BY DEF NextFrame, SendKeys
<1>2. /\ m \in Nat /\ Len(more) = m + 1 /\ DOMAIN frames = 1 .. m /\ DOMAIN more = 1 .. (m + 1)
      /\ \A i \in 1 .. m : more[i] = frames[i] /\ frames[i] \in Frames
      /\ more[m + 1] = f
  BY <1>1, Appended
<1>3. /\ l.id = IF Rotates(f) THEN f.id + 1 ELSE f.id
      /\ l.key = IF Rotates(f) THEN deriveRotatedKey(f.key, f.seq) ELSE f.key
      /\ l.seq = IF Rotates(f) THEN 0 ELSE f.seq
  BY <1>1 DEF SendKeys
<1> HIDE DEF more, m
<1>4. Shaped(e, more, l)
  <2>1. f.key.by = e /\ Len(f.key.salts) = f.id - 1
    BY <1>1 DEF Sealed, Shaped
  <2>2. l.key.by = e /\ Len(l.key.salts) = l.id - 1
    <3>1. CASE Rotates(f)
      <4>1. f.key \in Keys /\ f.seq \in Nat /\ f.id \in Nat
        BY <1>1
      <4>2. l.key.by = f.key.by /\ Len(l.key.salts) = Len(f.key.salts) + 1 /\ l.id = f.id + 1
        BY <1>3, <3>1, <4>1, DerivedKey
      <4> QED
        BY <2>1, <4>1, <4>2
    <3>2. CASE ~Rotates(f)
      BY <1>3, <2>1, <3>2
    <3> QED
      BY <3>1, <3>2
  <2> QED
    BY <1>2, <2>1, <2>2 DEF Sealed, Shaped
<1>5. Rising(more, l)
  <2>1. \A i \in 1 .. m : frames[i].id \in Nat /\ frames[i].seq \in Nat
    BY <1>2 DEF Frames
  <2>2. \A i \in 1 .. m : 0 < frames[i].seq /\ (frames[i].id < f.id
                                               \/ (frames[i].id = f.id /\ frames[i].seq < f.seq))
    BY <1>1, <1>2, <2>1 DEF Sealed, Rising
  <2>3. \A i \in 1 .. (m + 1) : 0 < more[i].seq /\ (more[i].id < l.id
                                               \/ (more[i].id = l.id /\ more[i].seq <= l.seq))
    BY <1>1, <1>2, <1>3, <2>1, <2>2
  <2>4. ASSUME NEW i \in 1 .. (m + 1), NEW j \in 1 .. (m + 1), i < j
        PROVE  \/ more[i].id < more[j].id
               \/ more[i].id = more[j].id /\ more[i].seq < more[j].seq
    <3>1. CASE j = m + 1
      BY <1>2, <2>2, <2>4, <3>1
    <3>2. CASE j \in 1 .. m
      BY <1>2, <2>4, <3>2 DEF Sealed, Rising
    <3> QED
      BY <1>2, <3>1, <3>2
  <2> QED
    BY <1>2, <2>3, <2>4 DEF Rising
<1>6. Chained(e, more, l)
  <2>1. \A i \in 0 .. m : IdAfter(more, i) = IdAfter(frames, i) /\ KeyAfter(e, more, i) = KeyAfter(e, frames, i)
    BY <1>1, AfterAppended DEF more, m
  <2>2. l.id = IdAfter(more, m + 1) /\ l.key = KeyAfter(e, more, m + 1)
    BY <1>2, <1>3 DEF IdAfter, KeyAfter
  <2>3. f.id = IdAfter(frames, m) /\ f.key = KeyAfter(e, frames, m)
    BY <1>1 DEF Sealed, Chained, m
  <2>4. ASSUME NEW i \in 1 .. (m + 1)
        PROVE  more[i].id = IdAfter(more, i - 1) /\ more[i].key = KeyAfter(e, more, i - 1)
    <3>1. CASE i = m + 1
      BY <1>2, <2>1, <2>3, <3>1
    <3>2. CASE i \in 1 .. m
      BY <1>2, <2>1, <3>2 DEF Sealed, Chained
    <3> QED
      BY <1>2, <3>1, <3>2
  <2> QED
    BY <1>2, <2>2, <2>4 DEF Chained
<1> QED
  BY <1>4, <1>5, <1>6 DEF Sealed, more

\* A Write takes the next number; other frames take none; writeInner returns.
LEMMA NumberBegun ==
    ASSUME NEW frames \in Seq(Frames), NEW count \in Nat, NEW kind, NEW next
    PROVE  /\ Numbered(frames, count, kind) => Numbered(frames, count + 1, next)
           /\ Numbered(frames, count, kind) /\ next # "data" => Numbered(frames, count, next)
<1>1. \A i \in DOMAIN frames : frames[i] \in Frames
  OBVIOUS
<1>2. \A i \in DOMAIN frames : frames[i].payload \in Nat
  BY <1>1 DEF Frames
<1> QED
  BY <1>2 DEF Numbered

\* A frame is put on the stream: the data of the Write under way, or no data.
LEMMA NumberFrame ==
    ASSUME NEW frames \in Seq(Frames), NEW count \in Nat, NEW kind, NEW f \in Frames, NEW next,
           Numbered(frames, count, kind),
           f.kind = "data" => kind = "data" /\ f.payload = count,
           next = "none" \/ (f.kind # "data" /\ next = kind)
    PROVE  Numbered(Append(frames, f), count, next)
<1> DEFINE more == Append(frames, f)
           m == Len(frames)
<1>1. /\ m \in Nat /\ DOMAIN frames = 1 .. m /\ DOMAIN more = 1 .. (m + 1)
      /\ \A i \in 1 .. m : more[i] = frames[i]
      /\ more[m + 1] = f
  BY Appended
<1>2. \A i \in 1 .. m : frames[i] \in Frames
  BY Appended
<1>3. f.payload \in Nat /\ \A i \in 1 .. m : frames[i].payload \in Nat
  BY <1>2 DEF Frames
<1> HIDE DEF more, m
<1>4. \A i \in 1 .. (m + 1) :
        more[i].kind = "data" => more[i].payload <= count /\ (next = "data" => more[i].payload < count)
  BY <1>1, <1>3 DEF Numbered
<1>5. ASSUME NEW i \in 1 .. (m + 1), NEW j \in 1 .. (m + 1), i < j,
             more[i].kind = "data", more[j].kind = "data"
      PROVE  more[i].payload < more[j].payload
  <2>1. CASE j = m + 1
    BY <1>1, <1>3, <1>5, <2>1 DEF Numbered
  <2>2. CASE j \in 1 .. m
    BY <1>1, <1>5, <2>2 DEF Numbered
  <2> QED
    BY <1>1, <2>1, <2>2
<1> QED
  BY <1>1, <1>4, <1>5 DEF Numbered, more

\* A new frame carries nothing that was delivered.
LEMMA GuardFrame ==
    ASSUME NEW frames \in Seq(Frames), NEW f \in Frames, NEW recv \in RecvKeys, NEW old \in RecvKeys,
           NEW g \in Seq(Nat), Guarded(frames, recv, old, g),
           f.kind = "data" =>
              \A i \in DOMAIN frames : frames[i].kind = "data" => frames[i].payload < f.payload
    PROVE  Guarded(Append(frames, f), recv, old, g)
<1> DEFINE more == Append(frames, f)
           m == Len(frames)
<1>1. /\ m \in Nat /\ DOMAIN frames = 1 .. m /\ DOMAIN more = 1 .. (m + 1)
      /\ \A i \in 1 .. m : more[i] = frames[i]
      /\ more[m + 1] = f
  BY Appended
<1>2. \A i \in 1 .. m : frames[i] \in Frames
  BY Appended
<1>3. f.payload \in Nat /\ \A i \in 1 .. m : frames[i].payload \in Nat
  BY <1>2 DEF Frames
<1> HIDE DEF more, m
<1>4. \A n \in DOMAIN g : f.kind = "data" => f.payload # g[n]
  BY <1>1, <1>3 DEF Guarded
<1>5. \A n \in DOMAIN g : \E i \in 1 .. (m + 1) : more[i].kind = "data" /\ more[i].payload = g[n]
  BY <1>1 DEF Guarded
<1>6. ASSUME NEW i \in 1 .. (m + 1), NEW n \in DOMAIN g,
             more[i].kind = "data", more[i].payload = g[n]
      PROVE  more[i].id <= recv.id /\ Refuses(recv, more[i]) /\ Refuses(old, more[i])
  <2>1. i \in 1 .. m
    BY <1>1, <1>4, <1>6
  <2> QED
    BY <1>1, <1>6, <2>1 DEF Guarded
<1> QED
  BY <1>1, <1>5, <1>6 DEF Guarded, more

\* The reader does not see a frame that has just been put on the stream.
LEMMA StepFrame ==
    ASSUME NEW d \in Ends, NEW frames \in Seq(Frames), NEW f \in Frames, NEW recv, NEW p \in Nat,
           NEW g, NEW r, InStep(d, frames, recv, p, g, r)
    PROVE  InStep(d, Append(frames, f), recv, p, g, r)
<1> DEFINE more == Append(frames, f)
           m == Len(frames)
<1>1. /\ m \in Nat /\ Len(more) = m + 1
      /\ \A i \in 1 .. m : more[i] = frames[i]
  BY Appended
<1>2. p \in 0 .. m
  BY <1>1 DEF InStep
<1>3. IdAfter(more, p) = IdAfter(frames, p) /\ KeyAfter(d, more, p) = KeyAfter(d, frames, p)
  BY <1>2, AfterAppended
<1> HIDE DEF more, m
<1>4. Payloads(more, p) = Payloads(frames, p)
  <2>1. \A i \in 1 .. p : more[i] = frames[i]
    BY <1>1, <1>2
  <2> QED
    BY <2>1 DEF Payloads
<1>5. r \in Errors => p < Len(more) /\ more[p + 1].torn
  BY <1>1, <1>2 DEF InStep, m
<1>6. p > 0 => more[p] = frames[p]
  BY <1>1, <1>2
<1>7. p <= Len(more)
  BY <1>1, <1>2
<1> QED
  BY <1>2, <1>3, <1>4, <1>5, <1>6, <1>7 DEF InStep, more

-----------------------------------------------------------------------------
(* A frame is read.                                                        *)

\* Marking a frame in a window that accepts it.
LEMMA MarkedKey ==
    ASSUME NEW k \in RecvKeys, NEW f \in Frames, Accepts(k.replay, f.seq)
    PROVE  /\ Marked(k, f) \in RecvKeys
           /\ Marked(k, f).id = k.id /\ Marked(k, f).key = k.key
           /\ Marked(k, f).replay = Accept(k.replay, f.seq)
           /\ Refuses(Marked(k, f), f)
           /\ \A h \in Frames : Refuses(k, h) => Refuses(Marked(k, f), h)
<1>1. k.id \in Nat /\ k.key \in Keys /\ k.replay \in Windows /\ \A h \in Frames : h.seq \in Nat
  BY DEF RecvKeys, Frames
<1>2. Accept(k.replay, f.seq) \in Windows
  BY <1>1, AcceptType
<1>3. /\ Marked(k, f).id = k.id /\ Marked(k, f).key = k.key
      /\ Marked(k, f).replay = Accept(k.replay, f.seq)
  BY DEF Marked, RecvKeys
<1>4. Marked(k, f) \in RecvKeys
  BY <1>1, <1>2 DEF Marked, RecvKeys
<1>5. Refuses(Marked(k, f), f)
  BY <1>1, <1>3, RefusedForGood DEF Refuses
<1>6. ASSUME NEW h \in Frames, Refuses(k, h)
      PROVE  Refuses(Marked(k, f), h)
  BY <1>1, <1>3, <1>6, RefusedForGood DEF Refuses
<1> QED
  BY <1>3, <1>4, <1>5, <1>6

\* Windows that refuse no less guard what was delivered.
LEMMA GuardMarked ==
    ASSUME NEW frames \in Seq(Frames), NEW recv, NEW old, NEW g, Guarded(frames, recv, old, g),
           NEW recv2, recv2.id = recv.id, \A h \in Frames : Refuses(recv, h) => Refuses(recv2, h),
           NEW old2, old2.id = old.id, \A h \in Frames : Refuses(old, h) => Refuses(old2, h)
    PROVE  Guarded(frames, recv2, old2, g)
<1>1. \A i \in DOMAIN frames : frames[i] \in Frames
  OBVIOUS
<1> QED
  BY <1>1 DEF Guarded

\* The payloads delivered, with one more.
LEMMA Extended ==
    ASSUME NEW g \in Seq(Nat), NEW x \in Nat
    PROVE  /\ Append(g, x) \in Seq(Nat)
           /\ Len(g) \in Nat
           /\ DOMAIN g = 1 .. Len(g)
           /\ DOMAIN Append(g, x) = 1 .. (Len(g) + 1)
           /\ \A n \in 1 .. Len(g) : Append(g, x)[n] = g[n] /\ g[n] \in Nat
           /\ Append(g, x)[Len(g) + 1] = x
OBVIOUS

\* A frame that no window refuses was not delivered, and may be.
LEMMA GuardDelivered ==
    ASSUME NEW frames \in Seq(Frames), NEW recv, NEW old, NEW g \in Seq(Nat),
           Guarded(frames, recv, old, g),
           NEW count \in Nat, NEW kind, Numbered(frames, count, kind),
           NEW i \in DOMAIN frames, frames[i].kind = "data",
           \A n \in DOMAIN g : g[n] # frames[i].payload,
           frames[i].id <= recv.id, Refuses(recv, frames[i]), Refuses(old, frames[i])
    PROVE  Guarded(frames, recv, old, Append(g, frames[i].payload))
<1> DEFINE x == frames[i].payload
           h == Append(g, x)
           m == Len(g)
<1>1. frames[i] \in Frames /\ \A j \in DOMAIN frames : frames[j] \in Frames
  OBVIOUS
<1>2. x \in Nat /\ \A j \in DOMAIN frames : frames[j].payload \in Nat
  BY <1>1 DEF Frames
<1>3. /\ m \in Nat /\ DOMAIN g = 1 .. m /\ DOMAIN h = 1 .. (m + 1)
      /\ \A n \in 1 .. m : h[n] = g[n]
      /\ h[m + 1] = x
  BY <1>2, Extended
<1> HIDE DEF h, m
<1>4. IsInjective(h)
  BY <1>3 DEF Guarded, IsInjective
<1>5. \A j \in DOMAIN frames : frames[j].kind = "data" /\ frames[j].payload = x => j = i
  <2>1. DOMAIN frames \subseteq Int
    OBVIOUS
  <2> QED
    BY <1>2, <2>1 DEF Numbered
<1>6. ASSUME NEW n \in 1 .. (m + 1)
      PROVE  \E j \in DOMAIN frames : frames[j].kind = "data" /\ frames[j].payload = h[n]
  <2>1. CASE n = m + 1
    BY <1>3, <2>1
  <2>2. CASE n \in 1 .. m
    BY <1>3, <2>2 DEF Guarded
  <2> QED
    BY <1>3, <2>1, <2>2
<1>7. ASSUME NEW j \in DOMAIN frames, NEW n \in 1 .. (m + 1),
             frames[j].kind = "data", frames[j].payload = h[n]
      PROVE  frames[j].id <= recv.id /\ Refuses(recv, frames[j]) /\ Refuses(old, frames[j])
  <2>1. CASE n = m + 1
    BY <1>3, <1>5, <1>7, <2>1
  <2>2. CASE n \in 1 .. m
    BY <1>3, <1>7, <2>2 DEF Guarded
  <2> QED
    BY <1>3, <2>1, <2>2
<1>8. old.id < recv.id
  BY DEF Guarded
<1> QED
  BY <1>3, <1>4, <1>6, <1>7, <1>8 DEF Guarded, h

\* After a rotation the window in use is that of the old key.
LEMMA GuardInstalled ==
    ASSUME NEW frames \in Seq(Frames), NEW recv \in RecvKeys, NEW old, NEW g,
           Guarded(frames, recv, old, g),
           NEW recv2, recv2.id = recv.id + 1,
           NEW old2, old2.id = recv.id, \A h \in Frames : Refuses(recv, h) => Refuses(old2, h)
    PROVE  Guarded(frames, recv2, old2, g)
<1>1. \A i \in DOMAIN frames : frames[i] \in Frames
  OBVIOUS
<1>2. recv.id \in Nat /\ \A i \in DOMAIN frames : frames[i].id \in Nat
  BY <1>1 DEF Frames, RecvKeys
<1>3. ASSUME NEW i \in DOMAIN frames, NEW n \in DOMAIN g,
             frames[i].kind = "data", frames[i].payload = g[n]
      PROVE  frames[i].id <= recv2.id /\ Refuses(recv2, frames[i]) /\ Refuses(old2, frames[i])
  <2>1. frames[i].id <= recv.id /\ Refuses(recv, frames[i])
    BY <1>3 DEF Guarded
  <2> QED
    BY <1>1, <1>2, <2>1 DEF Refuses
<1> QED
  BY <1>2, <1>3 DEF Guarded

\* On an orderly stream a whole frame is accepted under the key in use.
LEMMA OrderlyFrame ==
    ASSUME NEW d \in Ends, NEW frames \in Seq(Frames), NEW k, Sealed(d, frames, k),
           NEW recv \in RecvKeys, NEW p \in Nat, NEW g, NEW r, InStep(d, frames, recv, p, g, r),
           p + 1 \in DOMAIN frames
    PROVE  /\ frames[p + 1].id = recv.id /\ frames[p + 1].key = recv.key
           /\ frames[p + 1].seq > recv.replay.maxSeq
           /\ Accepts(recv.replay, frames[p + 1].seq)
<1> DEFINE f == frames[p + 1]
<1>1. f \in Frames /\ (p > 0 => p \in DOMAIN frames /\ frames[p] \in Frames)
  OBVIOUS
<1>2. /\ f.id \in Nat /\ f.seq \in Nat /\ recv.replay.maxSeq \in Nat
      /\ p > 0 => frames[p].id \in Nat /\ frames[p].seq \in Nat
  BY <1>1 DEF Frames, RecvKeys, Windows
<1>3. f.id = recv.id /\ f.key = recv.key
  BY DEF Sealed, Chained, InStep
<1>4. 0 < f.seq
  BY DEF Sealed, Rising
<1>5. f.seq > recv.replay.maxSeq
  <2>1. CASE p = 0 \/ frames[p].kind = "update"
    BY <1>2, <1>4, <2>1 DEF InStep
  <2>2. CASE p > 0 /\ frames[p].kind # "update"
    <3>1. f.id = frames[p].id
      BY <1>3, <2>2 DEF InStep, IdAfter, Rotates
    <3>2. frames[p].seq < f.seq
      BY <1>1, <1>2, <2>2, <3>1 DEF Sealed, Rising
    <3> QED
      BY <1>2, <2>2, <3>2 DEF InStep
  <2> QED
    BY <2>1, <2>2
<1> QED
  BY <1>2, <1>3, <1>4, <1>5 DEF Accepts

\* The payloads read grow by that of a whole data frame.
LEMMA PayloadsGrow ==
    ASSUME NEW frames, NEW p \in Nat, ~frames[p + 1].torn
    PROVE  Payloads(frames, p + 1) = IF frames[p + 1].kind = "data"
                                       THEN Payloads(frames, p) \cup {frames[p + 1].payload}
                                       ELSE Payloads(frames, p)
<1>1. 1 .. (p + 1) = (1 .. p) \cup {p + 1}
  OBVIOUS
<1> QED
  BY <1>1 DEF Payloads

\* The reader moves on over a frame that is no key update.
LEMMA StepRead ==
    ASSUME NEW d \in Ends, NEW frames \in Seq(Frames), NEW k, Sealed(d, frames, k),
           NEW count \in Nat, NEW kind, Numbered(frames, count, kind),
           NEW recv \in RecvKeys, NEW p \in Nat, NEW g \in Seq(Nat), NEW r,
           InStep(d, frames, recv, p, g, r),
           p + 1 \in DOMAIN frames, ~frames[p + 1].torn, frames[p + 1].kind # "update",
           NEW recv2, recv2.id = recv.id, recv2.key = recv.key,
           recv2.replay.maxSeq = frames[p + 1].seq,
           NEW g2, g2 = IF frames[p + 1].kind = "data" THEN Append(g, frames[p + 1].payload) ELSE g,
           NEW r2, r2 \notin Errors
    PROVE  InStep(d, frames, recv2, p + 1, g2, r2)
<1> DEFINE f == frames[p + 1]
<1>1. /\ p + 1 <= Len(frames) /\ p + 1 > 0
      /\ \A j \in DOMAIN frames : frames[j] \in Frames
      /\ DOMAIN frames = 1 .. Len(frames)
  OBVIOUS
<1>2. \A j \in DOMAIN frames : frames[j].payload \in Nat
  BY <1>1 DEF Frames
<1>3. IdAfter(frames, p + 1) = f.id /\ KeyAfter(d, frames, p + 1) = f.key
  BY DEF IdAfter, KeyAfter, Rotates
<1>4. f.id = recv.id /\ f.key = recv.key
  BY OrderlyFrame
<1>5. Range(g2) = Payloads(frames, p + 1) /\ \A i, j \in DOMAIN g2 : i < j => g2[i] < g2[j]
  <2>1. CASE f.kind # "data"
    BY <2>1, PayloadsGrow DEF InStep
  <2>2. CASE f.kind = "data"
    <3>1. /\ Len(g) \in Nat /\ DOMAIN g = 1 .. Len(g) /\ DOMAIN g2 = 1 .. (Len(g) + 1)
          /\ \A n \in 1 .. Len(g) : g2[n] = g[n]
          /\ g2[Len(g) + 1] = f.payload
      BY <1>2, <2>2, Extended
    <3>2. Range(g2) = Range(g) \cup {f.payload}
      BY <3>1 DEF Range
    <3>3. Payloads(frames, p + 1) = Payloads(frames, p) \cup {f.payload}
      BY <2>2, PayloadsGrow
    <3>4. \A x \in Range(g) : x < f.payload
      <4>1. \A x \in Payloads(frames, p) : \E j \in 1 .. p : frames[j].kind = "data" /\ x = frames[j].payload
        BY DEF Payloads
      <4>2. \A j \in 1 .. p : j \in DOMAIN frames /\ j < p + 1
        BY <1>1
      <4>3. \A j \in 1 .. p : frames[j].kind = "data" => frames[j].payload < f.payload
        BY <2>2, <4>2 DEF Numbered
      <4>4. Range(g) = Payloads(frames, p)
        BY DEF InStep
      <4> QED
        BY <4>1, <4>3, <4>4
    <3>5. \A n \in 1 .. Len(g) : g[n] < f.payload
      BY <3>1, <3>4 DEF Range
    <3>7. \A i, j \in 1 .. Len(g) : i < j => g[i] < g[j]
      BY <3>1 DEF InStep
    <3>6. ASSUME NEW i \in 1 .. (Len(g) + 1), NEW j \in 1 .. (Len(g) + 1), i < j
          PROVE  g2[i] < g2[j]
      <4>1. CASE j = Len(g) + 1
        BY <3>1, <3>5, <3>6, <4>1
      <4>2. CASE j \in 1 .. Len(g)
        <5>1. i \in 1 .. Len(g)
          BY <3>1, <3>6, <4>2
        <5> QED
          BY <3>7, <3>1, <3>6, <4>2, <5>1
      <4> QED
        BY <3>1, <4>1, <4>2
    <3> QED
      BY <3>1, <3>2, <3>3, <3>6 DEF InStep
  <2> QED
    BY <2>1, <2>2
<1> QED
  BY <1>1, <1>3, <1>4, <1>5 DEF InStep

\* The reader follows a key update.
LEMMA StepUpdate ==
    ASSUME NEW d \in Ends, NEW frames \in Seq(Frames), NEW k, Sealed(d, frames, k),
           NEW recv \in RecvKeys, NEW p \in Nat, NEW g, NEW r, InStep(d, frames, recv, p, g, r),
           p + 1 \in DOMAIN frames, ~frames[p + 1].torn, frames[p + 1].kind = "update",
           NEW recv2, recv2.id = frames[p + 1].id + 1,
           recv2.key = deriveRotatedKey(recv.key, frames[p + 1].seq), recv2.replay.maxSeq = 0,
           NEW r2, r2 \notin Errors
    PROVE  InStep(d, frames, recv2, p + 1, g, r2)
<1> DEFINE f == frames[p + 1]
<1>1. p + 1 <= Len(frames) /\ p + 1 > 0 /\ p + 1 # 0
  OBVIOUS
<1>2. IdAfter(frames, p + 1) = f.id + 1 /\ KeyAfter(d, frames, p + 1) = deriveRotatedKey(f.key, f.seq)
  BY <1>1 DEF IdAfter, KeyAfter, Rotates
<1>3. f.key = recv.key
  BY OrderlyFrame
<1>4. Payloads(frames, p + 1) = Payloads(frames, p)
  BY PayloadsGrow
<1> QED
  BY <1>1, <1>2, <1>3, <1>4 DEF InStep

-----------------------------------------------------------------------------
(* The steps of a connection.                                              *)

\* The other end.
LEMMA Others ==
    ASSUME NEW e \in Ends
    PROVE  /\ Other(e) \in Ends /\ Other(e) # e /\ Other(Other(e)) = e
           /\ \A d \in Ends : d = e \/ d = Other(e)
BY DEF Ends, Other

\* What the type invariant says of the state of one end.
LEMMA EndTypes ==
    ASSUME TypeOK, NEW e \in Ends
    PROVE  /\ sendKey[e] \in SendKeys /\ recvKey[e] \in RecvKeys /\ oldRecv[e] \in RecvKeys
           /\ wire[e] \in Seq(Frames) /\ pos[e] \in Nat /\ written[e] \in Nat /\ got[e] \in Seq(Nat)
           /\ writer[e] \in [stage : {"update", "seal"}, kind : Kinds] \cup {Idle}
           /\ reader[e] \in {"reading", "ponging"} \cup Errors
BY DEF TypeOK

\* Before the first frame.
LEMMA SecureInit == Init => SecureInv
<1> SUFFICES ASSUME Init PROVE SecureInv
  OBVIOUS
<1>1. newReplayWindow(ReplaySize) \in Windows /\ newReplayWindow(ReplaySize).maxSeq = 0
  BY SecureConnAssumption, NewWindowType DEF newReplayWindow
<1>2. \A e \in Ends : SessionKey(e) \in Keys /\ SessionKey(e).by = e /\ Len(SessionKey(e).salts) = 0
  BY DEF SessionKey, Keys
<1>3. NoKey \in RecvKeys /\ NoKey.id = 0
  BY <1>1 DEF NoKey, RecvKeys, Keys, Ends
<1>4. TypeOK
  <2>1. sendKey \in [Ends -> SendKeys]
    BY <1>2 DEF Init, SendKeys
  <2>2. recvKey \in [Ends -> RecvKeys]
    BY <1>1, <1>2, Others DEF Init, RecvKeys
  <2>3. oldRecv \in [Ends -> RecvKeys]
    BY <1>3 DEF Init
  <2> QED
    BY <2>1, <2>2, <2>3 DEF Init, TypeOK
<1>5. ASSUME NEW e \in Ends PROVE SendInv(e)
  <2>1. wire[e] = << >> /\ sendKey[e].id = 1 /\ sendKey[e].key = SessionKey(e) /\ Len(wire[e]) = 0
        /\ DOMAIN wire[e] = {}
    BY DEF Init
  <2> QED
    BY <1>2, <2>1 DEF SendInv, Sealed, Shaped, Rising, Chained, Numbered, IdAfter, KeyAfter
<1>6. ASSUME NEW e \in Ends PROVE RecvInv(e)
  <2>1. Other(e) \in Ends
    BY Others
  <2>2. /\ wire[Other(e)] = << >> /\ got[e] = << >> /\ pos[e] = 0 /\ reader[e] = "reading"
        /\ recvKey[e].id = 1 /\ recvKey[e].key = SessionKey(Other(e)) /\ recvKey[e].replay.maxSeq = 0
        /\ oldRecv[e].id = 0
    BY <1>1, <1>3, <2>1 DEF Init
  <2>3. Range(got[e]) = {} /\ Payloads(wire[Other(e)], pos[e]) = {}
    BY <2>2 DEF Range, Payloads
  <2>4. "reading" \notin Errors
    BY DEF Errors
  <2>5. DOMAIN wire[Other(e)] = {} /\ DOMAIN got[e] = {} /\ Len(wire[Other(e)]) = 0
    BY <2>2
  <2>6. Guarded(wire[Other(e)], recvKey[e], oldRecv[e], got[e])
    BY <2>2, <2>5 DEF Guarded, IsInjective
  <2>7. InStep(Other(e), wire[Other(e)], recvKey[e], pos[e], got[e], reader[e])
    <3>1. /\ IdAfter(wire[Other(e)], pos[e]) = 1
          /\ KeyAfter(Other(e), wire[Other(e)], pos[e]) = SessionKey(Other(e))
      BY <2>2 DEF IdAfter, KeyAfter
    <3>2. \A i, j \in DOMAIN got[e] : i < j => got[e][i] < got[e][j]
      BY <2>5
    <3>3. pos[e] <= Len(wire[Other(e)]) /\ ~(pos[e] > 0) /\ reader[e] \notin Errors
      BY <2>2, <2>4, <2>5
    <3> QED
      BY <2>2, <2>3, <3>1, <3>2, <3>3 DEF InStep
  <2> QED
    BY <2>6, <2>7 DEF RecvInv
<1> QED
  BY <1>4, <1>5, <1>6 DEF SecureInv

\* A reader that reads on, or goes on as it was, stays in step.
LEMMA ReaderReset ==
    ASSUME NEW d, NEW frames, NEW recv, NEW p, NEW g, NEW r, NEW r2,
           InStep(d, frames, recv, p, g, r), r2 = r \/ r2 \notin Errors
    PROVE  InStep(d, frames, recv, p, g, r2)
BY DEF InStep

\* Steps that put nothing on the stream and read nothing.
LEMMA QuietStep ==
    ASSUME SecureInv, UNCHANGED << sendKey, wire, recvKey, oldRecv, pos, got, link >>,
           \A e \in Ends : reader'[e] = reader[e] \/ reader'[e] \notin Errors,
           \A e \in Ends : /\ writer'[e].kind \in {"data", "none", "ping", "pong"}
                           /\ \/ written'[e] = written[e] /\ writer'[e].kind = writer[e].kind
                              \/ written'[e] = written[e] /\ writer'[e].kind # "data"
                              \/ written'[e] = written[e] + 1
    PROVE  \A e \in Ends : SendInv(e)' /\ RecvInv(e)'
<1> TAKE e \in Ends
<1>1. SendInv(e) /\ RecvInv(e) /\ TypeOK
  BY DEF SecureInv
<1>2. SendInv(e)'
  <2>1. wire[e] \in Seq(Frames) /\ written[e] \in Nat
    BY <1>1, EndTypes
  <2>2. Numbered(wire[e], written'[e], writer'[e].kind)
    <3>1. Numbered(wire[e], written[e], writer[e].kind)
      BY <1>1 DEF SendInv
    <3>2. CASE written'[e] = written[e] /\ writer'[e].kind = writer[e].kind
      BY <3>1, <3>2
    <3>3. CASE written'[e] = written[e] /\ writer'[e].kind # "data"
      BY <2>1, <3>1, <3>3, NumberBegun
    <3>4. CASE written'[e] = written[e] + 1
      <4>1. Numbered(wire[e], written[e] + 1, writer'[e].kind)
        BY <2>1, <3>1, NumberBegun
      <4> QED
        BY <3>4, <4>1
    <3> QED
      BY <3>2, <3>3, <3>4
  <2> QED
    BY <1>1, <2>2 DEF SendInv
<1>3. RecvInv(e)'
  BY <1>1, ReaderReset DEF RecvInv
<1> QED
  BY <1>2, <1>3

\* End e puts frame f on the stream and goes on with key l.
LEMMA SendStep ==
    ASSUME SecureInv, NEW e \in Ends, NEW f, NextFrame(sendKey[e], f),
           f.kind = "data" => writer[e].kind = "data" /\ f.payload = written[e],
           NEW l \in SendKeys,
           IF Rotates(f)
             THEN l = [id |-> sendKey[e].id + 1, key |-> deriveRotatedKey(sendKey[e].key, f.seq), seq |-> 0]
             ELSE l = [sendKey[e] EXCEPT !.seq = @ + 1],
           sendKey' = [sendKey EXCEPT ![e] = l],
           wire' = [wire EXCEPT ![e] = Append(@, f)],
           \A d \in Ends : reader'[d] = reader[d] \/ reader'[d] \notin Errors,
           \A d \in Ends \ {e} : writer'[d] = writer[d],
           writer'[e].kind = "none" \/ (f.kind # "data" /\ writer'[e].kind = writer[e].kind),
           UNCHANGED << recvKey, oldRecv, pos, got, link, written >>
    PROVE  /\ \A d \in Ends : SendInv(d)' /\ RecvInv(d)'
           /\ sendKey' \in [Ends -> SendKeys] /\ wire' \in [Ends -> Seq(Frames)]
<1>1. f \in Frames
  BY DEF NextFrame
<1>2. /\ wire'[e] = Append(wire[e], f) /\ sendKey'[e] = l
      /\ \A d \in Ends \ {e} : wire'[d] = wire[d] /\ sendKey'[d] = sendKey[d]
      /\ sendKey' \in [Ends -> SendKeys] /\ wire' \in [Ends -> Seq(Frames)]
  BY <1>1, Appended DEF SecureInv, TypeOK
<1>3. /\ wire[e] \in Seq(Frames) /\ sendKey[e] \in SendKeys /\ written[e] \in Nat
      /\ SendInv(e)
  BY EndTypes DEF SecureInv
<1>4. ASSUME NEW d \in Ends PROVE SendInv(d)'
  <2>1. CASE d = e
    <3>1. Sealed(e, wire'[e], sendKey'[e])
      BY <1>2, <1>3, SealFrame DEF SendInv
    <3>2. Numbered(wire'[e], written'[e], writer'[e].kind)
      BY <1>1, <1>2, <1>3, NumberFrame DEF SendInv
    <3> QED
      BY <2>1, <3>1, <3>2 DEF SendInv
  <2>2. CASE d # e
    BY <1>2, <2>2 DEF SendInv, SecureInv
  <2> QED
    BY <2>1, <2>2
<1>5. ASSUME NEW d \in Ends PROVE RecvInv(d)'
  <2>1. /\ RecvInv(d) /\ recvKey[d] \in RecvKeys /\ oldRecv[d] \in RecvKeys
        /\ pos[d] \in Nat /\ got[d] \in Seq(Nat) /\ Other(d) \in Ends
    BY EndTypes, Others DEF SecureInv
  <2>2. CASE Other(d) = e
    <3>1. f.kind = "data" =>
            \A i \in DOMAIN wire[e] : wire[e][i].kind = "data" => wire[e][i].payload < f.payload
      BY <1>3 DEF SendInv, Numbered
    <3>2. Guarded(wire'[e], recvKey[d], oldRecv[d], got[d])
      BY <1>1, <1>2, <1>3, <2>1, <2>2, <3>1, GuardFrame DEF RecvInv
    <3>3. ~link.reordering => InStep(e, wire'[e], recvKey[d], pos[d], got[d], reader'[d])
      <4> SUFFICES ASSUME ~link.reordering
                   PROVE  InStep(e, wire'[e], recvKey[d], pos[d], got[d], reader'[d])
        OBVIOUS
      <4>1. InStep(e, wire[e], recvKey[d], pos[d], got[d], reader[d])
        BY <2>1, <2>2 DEF RecvInv
      <4>2. InStep(e, wire'[e], recvKey[d], pos[d], got[d], reader[d])
        BY <1>1, <1>2, <1>3, <2>1, <4>1, StepFrame
      <4> QED
        BY <4>2, ReaderReset
    <3> QED
      BY <2>2, <3>2, <3>3 DEF RecvInv
  <2>3. CASE Other(d) # e
    <3>1. wire'[Other(d)] = wire[Other(d)]
      BY <1>2, <2>1, <2>3
    <3> QED
      BY <2>1, <3>1, ReaderReset DEF RecvInv
  <2> QED
    BY <2>2, <2>3
<1> QED
  BY <1>2, <1>4, <1>5

\* conn.Write sent nothing, and the sequence number is spent.
LEMMA SpentStep ==
    ASSUME SecureInv, NEW e \in Ends,
           sendKey' = [sendKey EXCEPT ![e].seq = @ + 1],
           \A d \in Ends : reader'[d] = reader[d] \/ reader'[d] \notin Errors,
           \A d \in Ends \ {e} : writer'[d] = writer[d],
           writer'[e].kind = "none",
           UNCHANGED << wire, recvKey, oldRecv, pos, got, link, written >>
    PROVE  /\ \A d \in Ends : SendInv(d)' /\ RecvInv(d)'
           /\ sendKey' \in [Ends -> SendKeys]
<1>1. /\ wire[e] \in Seq(Frames) /\ sendKey[e] \in SendKeys /\ written[e] \in Nat
      /\ SendInv(e)
  BY EndTypes DEF SecureInv
<1>2. /\ sendKey'[e] = [sendKey[e] EXCEPT !.seq = @ + 1]
      /\ \A d \in Ends \ {e} : sendKey'[d] = sendKey[d]
      /\ sendKey' \in [Ends -> SendKeys]
  <2>1. sendKey \in [Ends -> SendKeys]
    BY DEF SecureInv, TypeOK
  <2>2. [sendKey[e] EXCEPT !.seq = @ + 1] \in SendKeys
    BY <1>1 DEF SendKeys
  <2> QED
    BY <2>1, <2>2
<1>3. ASSUME NEW d \in Ends PROVE SendInv(d)'
  <2>1. CASE d = e
    <3>1. Sealed(e, wire[e], sendKey'[e])
      BY <1>1, <1>2, SealNothing DEF SendInv
    <3>2. Numbered(wire[e], written[e], writer'[e].kind)
      BY <1>1, NumberBegun DEF SendInv
    <3> QED
      BY <2>1, <3>1, <3>2 DEF SendInv
  <2>2. CASE d # e
    BY <1>2, <2>2 DEF SendInv, SecureInv
  <2> QED
    BY <2>1, <2>2
<1>4. ASSUME NEW d \in Ends PROVE RecvInv(d)'
  BY ReaderReset DEF SecureInv, RecvInv
<1> QED
  BY <1>2, <1>3, <1>4

\* The frame sealed next, and its cut-off beginning.
LEMMA FrameSealed ==
    ASSUME TypeOK, NEW e \in Ends, NEW kind \in Kinds \cup {"update"}
    PROVE  /\ NextFrame(sendKey[e], FrameOf(e, kind))
           /\ FrameOf(e, kind).kind = kind /\ ~FrameOf(e, kind).torn
           /\ kind = "data" => FrameOf(e, kind).payload = written[e]
           /\ NextFrame(sendKey[e], Torn(FrameOf(e, kind)))
           /\ Torn(FrameOf(e, kind)).kind = kind /\ Torn(FrameOf(e, kind)).torn
           /\ kind = "data" => Torn(FrameOf(e, kind)).payload = written[e]
<1>1. sendKey[e].id \in Nat /\ sendKey[e].key \in Keys /\ sendKey[e].seq \in Nat /\ written[e] \in Nat
  BY EndTypes DEF SendKeys
<1> DEFINE p == IF kind = "data" THEN written[e] ELSE 0
           f == FrameOf(e, kind)
<1>2. p \in Nat
  BY <1>1
<1> HIDE DEF p
<1>3. f = [id |-> sendKey[e].id, key |-> sendKey[e].key, seq |-> sendKey[e].seq + 1,
           kind |-> kind, payload |-> p, torn |-> FALSE]
  BY DEF FrameOf, p
<1>4. f \in Frames
  BY <1>1, <1>2, <1>3 DEF Frames
<1> HIDE DEF f
<1>5. /\ Torn(f) \in Frames /\ Torn(f).torn
      /\ Torn(f).id = f.id /\ Torn(f).key = f.key /\ Torn(f).seq = f.seq
      /\ Torn(f).kind = f.kind /\ Torn(f).payload = f.payload
  BY <1>4 DEF Torn, Frames
<1>6. NextFrame(sendKey[e], f) /\ NextFrame(sendKey[e], Torn(f))
  BY <1>3, <1>4, <1>5 DEF NextFrame
<1>7. kind = "data" => p = written[e]
  BY DEF p
<1> QED
  BY <1>3, <1>5, <1>6, <1>7 DEF f

\* What writeInner does to the reader and to the writer when it returns.
LEMMA Returned ==
    ASSUME TypeOK, NEW e \in Ends, Return(e)
    PROVE  /\ \A d \in Ends : reader'[d] = reader[d] \/ reader'[d] \notin Errors
           /\ \A d \in Ends \ {e} : writer'[d] = writer[d]
           /\ writer'[e].kind = "none" /\ writer'[e] = Idle
           /\ writer' \in [Ends -> [stage : {"update", "seal"}, kind : Kinds] \cup {Idle}]
           /\ reader' \in [Ends -> {"reading", "ponging"} \cup Errors]
BY DEF TypeOK, Return, Idle, Errors

\* A Write, a heartbeat or a pong takes writeMu.
LEMMA BeginPreserves ==
    ASSUME SecureInv, NEW e \in Ends, UNCHANGED link,
           Write(e) \/ SendPong(e) \/ (SendPing /\ e = "client")
    PROVE  SecureInv'
<1>1. PICK kind \in Kinds, stage \in {"update", "seal"} :
         /\ writer' = [writer EXCEPT ![e] = [stage |-> stage, kind |-> kind]]
         /\ kind # "data" => written' = written
         /\ kind = "data" => written' = [written EXCEPT ![e] = @ + 1]
  BY DEF Write, SendPong, SendPing, Begin, Kinds
<1>2. /\ UNCHANGED << sendKey, wire, recvKey, oldRecv, oldLive, pos, got, closed, reader, link >>
      /\ pings' = pings \/ pings' = pings + 1
  BY DEF Write, SendPong, SendPing, Begin, receiving
<1>3. TypeOK
  BY DEF SecureInv
<1>4. TypeOK'
  <2>1. writer' \in [Ends -> [stage : {"update", "seal"}, kind : Kinds] \cup {Idle}]
    BY <1>1, <1>3 DEF TypeOK
  <2>2. written' \in [Ends -> Nat] /\ pings' \in Nat
    BY <1>1, <1>2, <1>3 DEF TypeOK
  <2> QED
    BY <1>2, <1>3, <2>1, <2>2 DEF TypeOK
<1>5. ASSUME NEW d \in Ends
      PROVE  /\ writer'[d].kind \in {"data", "none", "ping", "pong"}
             /\ \/ written'[d] = written[d] /\ writer'[d].kind = writer[d].kind
                \/ written'[d] = written[d] /\ writer'[d].kind # "data"
                \/ written'[d] = written[d] + 1
  <2>1. writer \in [Ends -> [stage : {"update", "seal"}, kind : Kinds] \cup {Idle}] /\ written \in [Ends -> Nat]
    BY <1>3 DEF TypeOK
  <2>2. writer[d].kind \in {"data", "none", "ping", "pong"}
    BY <2>1 DEF Kinds, Idle
  <2>3. CASE d = e
    BY <1>1, <2>1, <2>3 DEF Kinds
  <2>4. CASE d # e
    BY <1>1, <2>1, <2>2, <2>4
  <2> QED
    BY <2>3, <2>4
<1>6. \A d \in Ends : SendInv(d)' /\ RecvInv(d)'
  BY <1>2, <1>5, QuietStep
<1> QED
  BY <1>4, <1>6 DEF SecureInv

\* writeInner returns ErrClosed, a grace period ends, a connection is closed.
LEMMA QuietPreserves ==
    ASSUME SecureInv, NEW e \in Ends, UNCHANGED link, WriteClosed(e) \/ GraceEnds(e) \/ Close(e)
    PROVE  SecureInv'
<1>1. /\ UNCHANGED << sendKey, wire, recvKey, oldRecv, pos, got, written, pings, link >>
      /\ Return(e) \/ UNCHANGED << writer, reader >>
      /\ oldLive' \subseteq oldLive /\ closed' \subseteq closed \cup {e}
  BY DEF WriteClosed, GraceEnds, Close, receiving, sending
<1>2. TypeOK
  BY DEF SecureInv
<1>3. /\ writer' \in [Ends -> [stage : {"update", "seal"}, kind : Kinds] \cup {Idle}]
      /\ reader' \in [Ends -> {"reading", "ponging"} \cup Errors]
      /\ \A d \in Ends : reader'[d] = reader[d] \/ reader'[d] \notin Errors
      /\ \A d \in Ends : writer'[d] = writer[d] \/ writer'[d] = Idle
  <2>1. CASE Return(e)
    BY <1>2, <2>1, Returned
  <2>2. CASE UNCHANGED << writer, reader >>
    BY <1>2, <2>2 DEF TypeOK
  <2> QED
    BY <1>1, <2>1, <2>2
<1>4. TypeOK'
  BY <1>1, <1>2, <1>3 DEF TypeOK
<1>5. \A d \in Ends : /\ writer'[d].kind \in {"data", "none", "ping", "pong"}
                      /\ written'[d] = written[d]
                      /\ writer'[d].kind = writer[d].kind \/ writer'[d].kind # "data"
  BY <1>1, <1>3 DEF Idle, Kinds
<1>6. \A d \in Ends : SendInv(d)' /\ RecvInv(d)'
  BY <1>1, <1>3, <1>5, QuietStep
<1> QED
  BY <1>4, <1>6 DEF SecureInv

\* The holder of writeMu is sealing a frame of some kind.
LEMMA Sealing ==
    ASSUME TypeOK, NEW e \in Ends, writer[e].stage \in {"update", "seal"}
    PROVE  /\ writer[e].kind \in Kinds /\ writer[e].kind # "none"
           /\ SealedKind(e) \in Kinds \cup {"update"}
           /\ SealedKind(e) = "data" => writer[e].kind = "data"
           /\ Idle \in [stage : {"update", "seal"}, kind : Kinds] \cup {Idle}
BY EndTypes DEF Idle, Kinds, SealedKind

\* A frame is cut off, or nothing is sent.
LEMMA FailPreserves ==
    ASSUME SecureInv, NEW e \in Ends, UNCHANGED link, WriteFails(e)
    PROVE  SecureInv'
<1> DEFINE f == FrameOf(e, SealedKind(e))
<1>1. /\ UNCHANGED << recvKey, oldRecv, oldLive, pos, got, written, pings, link >>
      /\ sendKey' = [sendKey EXCEPT ![e].seq = @ + 1]
      /\ wire' = wire \/ wire' = [wire EXCEPT ![e] = Append(@, Torn(f))]
      /\ Return(e) /\ closed' \subseteq closed \cup {e}
      /\ writer[e].stage \in {"update", "seal"}
  BY DEF WriteFails, receiving
<1>2. TypeOK
  BY DEF SecureInv
<1>3. /\ NextFrame(sendKey[e], Torn(f)) /\ Torn(f).torn
      /\ Torn(f).kind = "data" => writer[e].kind = "data" /\ Torn(f).payload = written[e]
  BY <1>1, <1>2, FrameSealed, Sealing
<1>4. /\ \A d \in Ends : reader'[d] = reader[d] \/ reader'[d] \notin Errors
      /\ \A d \in Ends \ {e} : writer'[d] = writer[d]
      /\ writer'[e].kind = "none"
      /\ writer' \in [Ends -> [stage : {"update", "seal"}, kind : Kinds] \cup {Idle}]
      /\ reader' \in [Ends -> {"reading", "ponging"} \cup Errors]
  BY <1>1, <1>2, Returned
<1> HIDE DEF f
<1>5. /\ \A d \in Ends : SendInv(d)' /\ RecvInv(d)'
      /\ sendKey' \in [Ends -> SendKeys] /\ wire' \in [Ends -> Seq(Frames)]
  <2>1. CASE wire' = wire
    BY <1>1, <1>2, <1>4, <2>1, SpentStep DEF TypeOK
  <2>2. CASE wire' = [wire EXCEPT ![e] = Append(@, Torn(f))]
    <3> DEFINE l == [sendKey[e] EXCEPT !.seq = @ + 1]
    <3>1. sendKey[e] \in SendKeys /\ sendKey \in [Ends -> SendKeys]
      BY <1>2 DEF TypeOK
    <3>2. l \in SendKeys /\ sendKey' = [sendKey EXCEPT ![e] = l]
      BY <1>1, <3>1 DEF SendKeys
    <3>3. ~Rotates(Torn(f))
      BY <1>3 DEF Rotates
    <3> QED
      BY <1>1, <1>3, <1>4, <2>2, <3>2, <3>3, SendStep
  <2> QED
    BY <1>1, <2>1, <2>2
<1>6. TypeOK'
  BY <1>1, <1>2, <1>4, <1>5 DEF TypeOK
<1> QED
  BY <1>5, <1>6 DEF SecureInv

\* The update is on the stream and the new key in its place.
LEMMA RotatePreserves ==
    ASSUME SecureInv, NEW e \in Ends, UNCHANGED link, rotateSendKey(e)
    PROVE  SecureInv'
<1> DEFINE f == FrameOf(e, "update")
           l == [id |-> sendKey[e].id + 1, key |-> deriveRotatedKey(sendKey[e].key, f.seq), seq |-> 0]
<1>1. /\ UNCHANGED << recvKey, oldRecv, oldLive, pos, got, closed, reader, written, pings, link >>
      /\ sendKey' = [sendKey EXCEPT ![e] = l]
      /\ wire' = [wire EXCEPT ![e] = Append(@, f)]
      /\ writer' = [writer EXCEPT ![e].stage = "seal"]
      /\ writer[e].stage = "update"
  BY DEF rotateSendKey, receiving
<1>2. TypeOK
  BY DEF SecureInv
<1>3. NextFrame(sendKey[e], f) /\ f.kind = "update" /\ ~f.torn
  BY <1>2, FrameSealed
<1>4. f.seq \in Nat /\ sendKey[e].id \in Nat /\ sendKey[e].key \in Keys
  BY <1>2, <1>3, EndTypes DEF NextFrame, Frames, SendKeys
<1> HIDE DEF f
<1>5. l \in SendKeys
  BY <1>4, DerivedKey DEF SendKeys
<1>6. Rotates(f)
  BY <1>3 DEF Rotates
<1>7. /\ writer' \in [Ends -> [stage : {"update", "seal"}, kind : Kinds] \cup {Idle}]
      /\ writer'[e].kind = writer[e].kind
      /\ \A d \in Ends \ {e} : writer'[d] = writer[d]
  <2>1. writer \in [Ends -> [stage : {"update", "seal"}, kind : Kinds] \cup {Idle}]
    BY <1>2 DEF TypeOK
  <2>2. writer[e] \in [stage : {"update", "seal"}, kind : Kinds]
    BY <1>1, <2>1 DEF Idle
  <2>3. [writer[e] EXCEPT !.stage = "seal"] \in [stage : {"update", "seal"}, kind : Kinds]
        /\ [writer[e] EXCEPT !.stage = "seal"].kind = writer[e].kind
    BY <2>2
  <2> QED
    BY <1>1, <2>1, <2>3
<1>8. /\ \A d \in Ends : SendInv(d)' /\ RecvInv(d)'
      /\ sendKey' \in [Ends -> SendKeys] /\ wire' \in [Ends -> Seq(Frames)]
  BY <1>1, <1>3, <1>5, <1>6, <1>7, SendStep
<1>9. TypeOK'
  BY <1>1, <1>2, <1>7, <1>8 DEF TypeOK
<1> QED
  BY <1>8, <1>9 DEF SecureInv

\* The frame of the Write, the heartbeat or the pong is on the stream.
LEMMA WritePreserves ==
    ASSUME SecureInv, NEW e \in Ends, UNCHANGED link, encryptAndWrite(e)
    PROVE  SecureInv'
<1> DEFINE f == FrameOf(e, writer[e].kind)
           l == [sendKey[e] EXCEPT !.seq = @ + 1]
<1>1. /\ UNCHANGED << recvKey, oldRecv, oldLive, pos, got, closed, written, pings, link >>
      /\ sendKey' = [sendKey EXCEPT ![e].seq = @ + 1]
      /\ wire' = [wire EXCEPT ![e] = Append(@, f)]
      /\ Return(e)
      /\ writer[e].stage = "seal"
  BY DEF encryptAndWrite, receiving
<1>2. TypeOK
  BY DEF SecureInv
<1>3. writer[e].kind \in Kinds /\ writer[e].kind # "update"
  BY <1>1, <1>2, Sealing DEF Kinds
<1>4. /\ NextFrame(sendKey[e], f) /\ f.kind # "update"
      /\ f.kind = "data" => writer[e].kind = "data" /\ f.payload = written[e]
  BY <1>2, <1>3, FrameSealed
<1> HIDE DEF f
<1>5. /\ \A d \in Ends : reader'[d] = reader[d] \/ reader'[d] \notin Errors
      /\ \A d \in Ends \ {e} : writer'[d] = writer[d]
      /\ writer'[e].kind = "none"
      /\ writer' \in [Ends -> [stage : {"update", "seal"}, kind : Kinds] \cup {Idle}]
      /\ reader' \in [Ends -> {"reading", "ponging"} \cup Errors]
  BY <1>1, <1>2, Returned
<1>6. sendKey[e] \in SendKeys /\ sendKey \in [Ends -> SendKeys]
  BY <1>2 DEF TypeOK
<1>7. l \in SendKeys /\ sendKey' = [sendKey EXCEPT ![e] = l]
  BY <1>1, <1>6 DEF SendKeys
<1>8. ~Rotates(f)
  BY <1>4 DEF Rotates
<1>9. /\ \A d \in Ends : SendInv(d)' /\ RecvInv(d)'
      /\ sendKey' \in [Ends -> SendKeys] /\ wire' \in [Ends -> Seq(Frames)]
  BY <1>1, <1>4, <1>5, <1>7, <1>8, SendStep
<1>10. TypeOK'
  BY <1>1, <1>2, <1>5, <1>9 DEF TypeOK
<1> QED
  BY <1>9, <1>10 DEF SecureInv

\* The frame that Read is about to return, or to refuse.
LEMMA ArrivedFrame ==
    ASSUME SecureInv, NEW e \in Ends, NEW i \in Arrivals(e)
    PROVE  /\ i \in DOMAIN wire[Other(e)] /\ i \in Nat /\ wire[Other(e)][i] \in Frames
           /\ ~link.reordering =>
                /\ i = pos[e] + 1
                /\ wire[Other(e)][i].id = recvKey[e].id /\ wire[Other(e)][i].key = recvKey[e].key
                /\ wire[Other(e)][i].seq > recvKey[e].replay.maxSeq
                /\ Accepts(recvKey[e].replay, wire[Other(e)][i].seq)
<1>1. Other(e) \in Ends /\ TypeOK /\ SendInv(Other(e)) /\ RecvInv(e)
  BY Others DEF SecureInv
<1>2. wire[Other(e)] \in Seq(Frames) /\ recvKey[e] \in RecvKeys /\ pos[e] \in Nat
  BY <1>1, EndTypes
<1>3. i \in DOMAIN wire[Other(e)]
  BY DEF Arrivals
<1>4. i \in Nat /\ wire[Other(e)][i] \in Frames
  BY <1>2, <1>3
<1>5. ASSUME ~link.reordering
      PROVE  /\ i = pos[e] + 1
             /\ wire[Other(e)][i].id = recvKey[e].id /\ wire[Other(e)][i].key = recvKey[e].key
             /\ wire[Other(e)][i].seq > recvKey[e].replay.maxSeq
             /\ Accepts(recvKey[e].replay, wire[Other(e)][i].seq)
  <2>1. i = pos[e] + 1
    BY <1>5 DEF Arrivals
  <2>2. InStep(Other(e), wire[Other(e)], recvKey[e], pos[e], got[e], reader[e])
    BY <1>1, <1>5 DEF RecvInv
  <2>3. Sealed(Other(e), wire[Other(e)], sendKey[Other(e)])
    BY <1>1 DEF SendInv
  <2> QED
    BY <1>1, <1>2, <1>3, <2>1, <2>2, <2>3, OrderlyFrame
<1> QED
  BY <1>3, <1>4, <1>5

\* A frame found good opens under a key whose window accepts it.
LEMMA GoodFrame ==
    ASSUME SecureInv, NEW e \in Ends, NEW f, Verdict(e, f) = "ok"
    PROVE  /\ ~f.torn
           /\ IsRecv(e, f) \/ IsOld(e, f)
           /\ IsRecv(e, f) => f.key = recvKey[e].key /\ Accepts(recvKey[e].replay, f.seq)
           /\ IsOld(e, f) => f.id = oldRecv[e].id /\ Accepts(oldRecv[e].replay, f.seq) /\ f.id # recvKey[e].id
           /\ f.kind = "update" => IsRecv(e, f)
BY DEF Verdict, KeyFor, IsOld, IsRecv

\* Only one end's receiving state changes.
LEMMA ReadStep ==
    ASSUME SecureInv, NEW e \in Ends, UNCHANGED << sendKey, wire, writer, written, link >>,
           \A d \in Ends \ {e} : /\ recvKey'[d] = recvKey[d] /\ oldRecv'[d] = oldRecv[d]
                                 /\ pos'[d] = pos[d] /\ got'[d] = got[d] /\ reader'[d] = reader[d],
           RecvInv(e)'
    PROVE  \A d \in Ends : SendInv(d)' /\ RecvInv(d)'
<1> TAKE d \in Ends
<1>1. SendInv(d)'
  BY DEF SecureInv, SendInv
<1>2. RecvInv(d)'
  <2>1. CASE d = e
    BY <2>1
  <2>2. CASE d # e
    BY <2>2 DEF SecureInv, RecvInv
  <2> QED
    BY <2>1, <2>2
<1> QED
  BY <1>1, <1>2

\* Read returns an error, or a grace period ends under it.
LEMMA ErrorPreserves ==
    ASSUME SecureInv, NEW e \in Ends, UNCHANGED link, NEW i \in Arrivals(e),
           ReadError(e, i) \/ ReadExpires(e, i)
    PROVE  SecureInv'
<1> DEFINE f == wire[Other(e)][i]
<1>1. /\ UNCHANGED << sendKey, wire, writer, recvKey, oldRecv, pos, got, closed, written, pings, link >>
      /\ oldLive' \subseteq oldLive
  BY DEF ReadError, ReadExpires, sending, receiving
<1>2. PICK r \in Errors : reader' = [reader EXCEPT ![e] = r]
  BY DEF ReadError, ReadExpires, Verdict, Errors
<1>3. TypeOK /\ RecvInv(e)
  BY DEF SecureInv
<1>4. reader \in [Ends -> {"reading", "ponging"} \cup Errors]
  BY <1>3 DEF TypeOK
<1>5. reader' \in [Ends -> {"reading", "ponging"} \cup Errors] /\ reader'[e] = r
      /\ \A d \in Ends \ {e} : reader'[d] = reader[d]
  BY <1>2, <1>4
<1>6. TypeOK'
  BY <1>1, <1>3, <1>5 DEF TypeOK
<1>7. ASSUME ~link.reordering
      PROVE  InStep(Other(e), wire[Other(e)], recvKey[e], pos[e], got[e], r)
  <2>1. InStep(Other(e), wire[Other(e)], recvKey[e], pos[e], got[e], reader[e])
    BY <1>3, <1>7 DEF RecvInv
  <2>2. /\ i = pos[e] + 1 /\ f.id = recvKey[e].id /\ f.key = recvKey[e].key
        /\ Accepts(recvKey[e].replay, f.seq) /\ i \in DOMAIN wire[Other(e)]
    BY <1>7, ArrivedFrame
  <2>3. IsRecv(e, f) /\ ~IsOld(e, f) /\ KeyFor(e, f) = recvKey[e]
    BY <2>2 DEF IsRecv, IsOld, KeyFor
  <2>4. f.torn
    BY <2>2, <2>3 DEF ReadError, ReadExpires, Verdict
  <2>5. wire[Other(e)] \in Seq(Frames) /\ pos[e] \in Nat
    BY <1>3, Others, EndTypes
  <2>6. pos[e] < Len(wire[Other(e)])
    BY <2>2, <2>5
  <2> QED
    BY <2>1, <2>2, <2>4, <2>6 DEF InStep
<1>8. RecvInv(e)'
  BY <1>1, <1>3, <1>5, <1>7 DEF RecvInv
<1>9. \A d \in Ends : SendInv(d)' /\ RecvInv(d)'
  BY <1>1, <1>5, <1>8, ReadStep
<1> QED
  BY <1>6, <1>9 DEF SecureInv

\* The windows after a frame was marked: they refuse it, and whatever they
\* refused before.
LEMMA MarkedRecv ==
    ASSUME SecureInv, NEW e \in Ends, NEW f \in Frames, Verdict(e, f) = "ok", markRecv(e, f)
    PROVE  /\ recvKey' \in [Ends -> RecvKeys] /\ oldRecv' \in [Ends -> RecvKeys] /\ oldLive' = oldLive
           /\ \A d \in Ends \ {e} : recvKey'[d] = recvKey[d] /\ oldRecv'[d] = oldRecv[d]
           /\ recvKey'[e].id = recvKey[e].id /\ recvKey'[e].key = recvKey[e].key
           /\ oldRecv'[e].id = oldRecv[e].id
           /\ \A h \in Frames : /\ Refuses(recvKey[e], h) => Refuses(recvKey'[e], h)
                                /\ Refuses(oldRecv[e], h) => Refuses(oldRecv'[e], h)
           /\ Refuses(recvKey'[e], f) /\ Refuses(oldRecv'[e], f)
           /\ f.id <= recvKey[e].id
           /\ IsRecv(e, f) => recvKey'[e].replay = Accept(recvKey[e].replay, f.seq)
           /\ ~Refuses(recvKey[e], f) \/ ~Refuses(oldRecv[e], f)
<1>1. TypeOK /\ recvKey[e] \in RecvKeys /\ oldRecv[e] \in RecvKeys
      /\ recvKey \in [Ends -> RecvKeys] /\ oldRecv \in [Ends -> RecvKeys]
  BY EndTypes DEF SecureInv, TypeOK
<1>2. oldRecv[e].id < recvKey[e].id
  BY DEF SecureInv, RecvInv, Guarded
<1>3. recvKey[e].id \in Nat /\ oldRecv[e].id \in Nat
  BY <1>1 DEF RecvKeys
<1>4. CASE IsRecv(e, f)
  <2>1. f.id = recvKey[e].id /\ ~IsOld(e, f) /\ Accepts(recvKey[e].replay, f.seq)
    BY <1>4, GoodFrame DEF IsRecv, IsOld
  <2>2. recvKey' = [recvKey EXCEPT ![e] = Marked(recvKey[e], f)] /\ oldRecv' = oldRecv /\ oldLive' = oldLive
    BY <1>4, <2>1 DEF markRecv
  <2>3. recvKey'[e] = Marked(recvKey[e], f) /\ \A d \in Ends \ {e} : recvKey'[d] = recvKey[d]
    BY <1>1, <2>2
  <2>4. /\ Marked(recvKey[e], f) \in RecvKeys
        /\ Marked(recvKey[e], f).id = recvKey[e].id /\ Marked(recvKey[e], f).key = recvKey[e].key
        /\ Marked(recvKey[e], f).replay = Accept(recvKey[e].replay, f.seq)
        /\ Refuses(Marked(recvKey[e], f), f)
        /\ \A h \in Frames : Refuses(recvKey[e], h) => Refuses(Marked(recvKey[e], f), h)
    BY <1>1, <2>1, MarkedKey
  <2>5. recvKey' \in [Ends -> RecvKeys]
    BY <1>1, <2>2, <2>4
  <2>6. Refuses(oldRecv[e], f) /\ ~Refuses(recvKey[e], f)
    BY <1>2, <1>3, <2>1 DEF Refuses
  <2> QED
    BY <1>1, <1>3, <2>1, <2>2, <2>3, <2>4, <2>5, <2>6
<1>5. CASE IsOld(e, f)
  <2>1. f.id = oldRecv[e].id /\ ~IsRecv(e, f) /\ Accepts(oldRecv[e].replay, f.seq) /\ f.id # recvKey[e].id
    BY <1>5, GoodFrame DEF IsOld
  <2>2. oldRecv' = [oldRecv EXCEPT ![e] = Marked(oldRecv[e], f)] /\ recvKey' = recvKey /\ oldLive' = oldLive
    BY <1>5, <2>1 DEF markRecv
  <2>3. oldRecv'[e] = Marked(oldRecv[e], f) /\ \A d \in Ends \ {e} : oldRecv'[d] = oldRecv[d]
    BY <1>1, <2>2
  <2>4. /\ Marked(oldRecv[e], f) \in RecvKeys
        /\ Marked(oldRecv[e], f).id = oldRecv[e].id
        /\ Refuses(Marked(oldRecv[e], f), f)
        /\ \A h \in Frames : Refuses(oldRecv[e], h) => Refuses(Marked(oldRecv[e], f), h)
    BY <1>1, <2>1, MarkedKey
  <2>5. oldRecv' \in [Ends -> RecvKeys]
    BY <1>1, <2>2, <2>4
  <2>6. Refuses(recvKey[e], f) /\ ~Refuses(oldRecv[e], f) /\ f.id <= recvKey[e].id
    BY <1>2, <1>3, <2>1 DEF Refuses
  <2> QED
    BY <1>1, <2>1, <2>2, <2>3, <2>4, <2>5, <2>6
<1> QED
  BY <1>4, <1>5, GoodFrame

\* The number of the newest frame accepted.
LEMMA AcceptNewest ==
    ASSUME NEW v \in Windows, NEW seq \in Nat, seq > v.maxSeq
    PROVE  Accept(v, seq).maxSeq = seq
BY DEF Accept, Windows

\* Read returns the payload of a data frame, answers a ping or drops a pong.
LEMMA ReadPreserves ==
    ASSUME SecureInv, NEW e \in Ends, UNCHANGED link, NEW i \in Arrivals(e),
           ReadData(e, i) \/ ReadPing(e, i) \/ ReadPong(e, i)
    PROVE  SecureInv'
<1> DEFINE d == Other(e)
           f == wire[d][i]
<1>1. /\ UNCHANGED << sendKey, wire, writer, closed, written, pings, link >>
      /\ Verdict(e, f) = "ok" /\ markRecv(e, f)
      /\ pos' = [pos EXCEPT ![e] = i]
      /\ reader' = reader \/ reader' = [reader EXCEPT ![e] = "ponging"]
      /\ reader[e] = "reading"
      /\ f.kind = "data" => got' = [got EXCEPT ![e] = Append(@, f.payload)]
      /\ f.kind # "data" => got' = got
      /\ f.kind # "update"
  BY DEF ReadData, ReadPing, ReadPong, Reads, sending
<1>2. /\ i \in DOMAIN wire[d] /\ i \in Nat /\ f \in Frames /\ d \in Ends
      /\ ~link.reordering => /\ i = pos[e] + 1 /\ f.id = recvKey[e].id
                             /\ f.seq > recvKey[e].replay.maxSeq
  BY ArrivedFrame, Others
<1>3. /\ TypeOK /\ RecvInv(e) /\ SendInv(d)
      /\ wire[d] \in Seq(Frames) /\ recvKey[e] \in RecvKeys /\ oldRecv[e] \in RecvKeys
      /\ pos[e] \in Nat /\ written[d] \in Nat /\ got[e] \in Seq(Nat)
  BY <1>2, EndTypes DEF SecureInv
<1> HIDE DEF d, f
<1>4. /\ recvKey' \in [Ends -> RecvKeys] /\ oldRecv' \in [Ends -> RecvKeys] /\ oldLive' = oldLive
      /\ \A x \in Ends \ {e} : recvKey'[x] = recvKey[x] /\ oldRecv'[x] = oldRecv[x]
      /\ recvKey'[e].id = recvKey[e].id /\ recvKey'[e].key = recvKey[e].key
      /\ oldRecv'[e].id = oldRecv[e].id
      /\ \A h \in Frames : /\ Refuses(recvKey[e], h) => Refuses(recvKey'[e], h)
                           /\ Refuses(oldRecv[e], h) => Refuses(oldRecv'[e], h)
      /\ Refuses(recvKey'[e], f) /\ Refuses(oldRecv'[e], f)
      /\ f.id <= recvKey[e].id
      /\ IsRecv(e, f) => recvKey'[e].replay = Accept(recvKey[e].replay, f.seq)
      /\ ~Refuses(recvKey[e], f) \/ ~Refuses(oldRecv[e], f)
  BY <1>1, <1>2, MarkedRecv
<1>5. f.payload \in Nat /\ f.seq \in Nat /\ recvKey[e].replay \in Windows
  BY <1>2, <1>3 DEF Frames, RecvKeys
<1>6. /\ got'[e] = IF f.kind = "data" THEN Append(got[e], f.payload) ELSE got[e]
      /\ got' \in [Ends -> Seq(Nat)]
      /\ pos'[e] = i /\ pos' \in [Ends -> Nat]
      /\ reader'[e] \in {"reading", "ponging"}
      /\ reader' \in [Ends -> {"reading", "ponging"} \cup Errors]
      /\ \A x \in Ends \ {e} : got'[x] = got[x] /\ pos'[x] = pos[x] /\ reader'[x] = reader[x]
  <2>1. /\ got \in [Ends -> Seq(Nat)] /\ pos \in [Ends -> Nat]
        /\ reader \in [Ends -> {"reading", "ponging"} \cup Errors]
    BY <1>3 DEF TypeOK
  <2>2. Append(got[e], f.payload) \in Seq(Nat)
    BY <1>3, <1>5, Extended
  <2> QED
    BY <1>1, <1>2, <2>1, <2>2
<1>7. TypeOK'
  BY <1>1, <1>3, <1>4, <1>6 DEF TypeOK
<1>8. Guarded(wire[d], recvKey'[e], oldRecv'[e], got'[e])
  <2>1. Guarded(wire[d], recvKey[e], oldRecv[e], got[e])
    BY <1>3 DEF RecvInv, d
  <2>2. Guarded(wire[d], recvKey'[e], oldRecv'[e], got[e])
    BY <1>3, <1>4, <2>1, GuardMarked
  <2>3. CASE f.kind # "data"
    BY <1>6, <2>2, <2>3
  <2>4. CASE f.kind = "data"
    <3>1. Numbered(wire[d], written[d], writer[d].kind)
      BY <1>3 DEF SendInv
    <3>2. \A n \in DOMAIN got[e] : got[e][n] # f.payload
      BY <1>2, <1>4, <2>1, <2>4 DEF Guarded, f
    <3>3. f.id <= recvKey'[e].id
      BY <1>4
    <3>4. Guarded(wire[d], recvKey'[e], oldRecv'[e], Append(got[e], f.payload))
      BY <1>2, <1>3, <1>4, <2>2, <2>4, <3>1, <3>2, <3>3, GuardDelivered DEF f
    <3> QED
      BY <1>6, <2>4, <3>4
  <2> QED
    BY <2>3, <2>4
<1>9. ASSUME ~link.reordering
      PROVE  InStep(d, wire[d], recvKey'[e], pos'[e], got'[e], reader'[e])
  <2>1. InStep(d, wire[d], recvKey[e], pos[e], got[e], reader[e])
    BY <1>3, <1>9 DEF RecvInv, d
  <2>2. i = pos[e] + 1 /\ IsRecv(e, f) /\ f.seq > recvKey[e].replay.maxSeq
    BY <1>2, <1>9 DEF IsRecv
  <2>3. recvKey'[e].replay.maxSeq = f.seq
    BY <1>4, <1>5, <2>2, AcceptNewest
  <2>4. Sealed(d, wire[d], sendKey[d]) /\ Numbered(wire[d], written[d], writer[d].kind)
    BY <1>3 DEF SendInv
  <2>5. reader'[e] \notin Errors
    BY <1>6 DEF Errors
  <2>6. ~f.torn
    BY <1>1, GoodFrame
  <2>7. f = wire[d][pos[e] + 1] /\ pos[e] + 1 \in DOMAIN wire[d]
    BY <1>2, <2>2 DEF f
  <2>8. /\ ~wire[d][pos[e] + 1].torn /\ wire[d][pos[e] + 1].kind # "update"
        /\ recvKey'[e].replay.maxSeq = wire[d][pos[e] + 1].seq
        /\ got'[e] = IF wire[d][pos[e] + 1].kind = "data" THEN Append(got[e], wire[d][pos[e] + 1].payload)
                                                        ELSE got[e]
    BY <1>1, <1>6, <2>3, <2>6, <2>7
  <2>9. recvKey'[e].id = recvKey[e].id /\ recvKey'[e].key = recvKey[e].key /\ d \in Ends
    BY <1>2, <1>4
  <2>10. InStep(d, wire[d], recvKey'[e], pos[e] + 1, got'[e], reader'[e])
    BY <1>3, <2>1, <2>4, <2>5, <2>7, <2>8, <2>9, StepRead
  <2> QED
    BY <1>6, <2>2, <2>10
<1>10. RecvInv(e)'
  BY <1>1, <1>8, <1>9 DEF RecvInv, d
<1>11. \A x \in Ends : SendInv(x)' /\ RecvInv(x)'
  BY <1>1, <1>4, <1>6, <1>10, ReadStep
<1> QED
  BY <1>7, <1>11 DEF SecureInv

\* The reader follows a key update.
LEMMA UpdatePreserves ==
    ASSUME SecureInv, NEW e \in Ends, UNCHANGED link, NEW i \in Arrivals(e), ReadUpdate(e, i)
    PROVE  SecureInv'
<1> DEFINE d == Other(e)
           f == wire[d][i]
           recv == [id |-> f.id + 1, key |-> deriveRotatedKey(recvKey[e].key, f.seq),
                    replay |-> newReplayWindow(ReplaySize)]
<1>1. /\ UNCHANGED << sendKey, wire, writer, closed, written, pings, link, reader, got >>
      /\ Verdict(e, f) = "ok" /\ f.kind = "update"
      /\ pos' = [pos EXCEPT ![e] = i]
      /\ reader[e] = "reading"
      /\ oldRecv' = [oldRecv EXCEPT ![e] = Marked(recvKey[e], f)]
      /\ oldLive' = oldLive \cup {e}
      /\ recvKey' = [recvKey EXCEPT ![e] = recv]
  BY DEF ReadUpdate, installRecvKey, Reads, sending
<1>2. /\ i \in DOMAIN wire[d] /\ i \in Nat /\ f \in Frames /\ d \in Ends
      /\ ~link.reordering => i = pos[e] + 1
  BY ArrivedFrame, Others
<1>3. /\ TypeOK /\ RecvInv(e) /\ SendInv(d)
      /\ wire[d] \in Seq(Frames) /\ recvKey[e] \in RecvKeys /\ oldRecv[e] \in RecvKeys
      /\ pos[e] \in Nat
  BY <1>2, EndTypes DEF SecureInv
<1>4. f.id = recvKey[e].id /\ Accepts(recvKey[e].replay, f.seq) /\ ~f.torn
  BY <1>1, GoodFrame DEF IsRecv
<1>5. f.id \in Nat /\ f.seq \in Nat /\ recvKey[e].key \in Keys
  BY <1>2, <1>3 DEF Frames, RecvKeys
<1>6. recv \in RecvKeys /\ recv.replay.maxSeq = 0
  BY <1>5, DerivedKey, NewWindowType, SecureConnAssumption DEF RecvKeys, newReplayWindow
<1>7. /\ Marked(recvKey[e], f) \in RecvKeys /\ Marked(recvKey[e], f).id = recvKey[e].id
      /\ \A h \in Frames : Refuses(recvKey[e], h) => Refuses(Marked(recvKey[e], f), h)
  BY <1>2, <1>3, <1>4, MarkedKey
<1>8. recv.id = recvKey[e].id + 1 /\ recv.id = f.id + 1
      /\ recv.key = deriveRotatedKey(recvKey[e].key, f.seq)
  BY <1>4
<1> HIDE DEF d, f, recv
<1>9. /\ recvKey'[e] = recv /\ recvKey' \in [Ends -> RecvKeys]
      /\ oldRecv'[e] = Marked(recvKey[e], f) /\ oldRecv' \in [Ends -> RecvKeys]
      /\ pos'[e] = i /\ pos' \in [Ends -> Nat] /\ oldLive' \subseteq Ends
      /\ \A x \in Ends \ {e} : recvKey'[x] = recvKey[x] /\ oldRecv'[x] = oldRecv[x] /\ pos'[x] = pos[x]
  <2>1. /\ recvKey \in [Ends -> RecvKeys] /\ oldRecv \in [Ends -> RecvKeys] /\ pos \in [Ends -> Nat]
        /\ oldLive \subseteq Ends
    BY <1>3 DEF TypeOK
  <2> QED
    BY <1>1, <1>2, <1>6, <1>7, <2>1
<1>10. TypeOK'
  BY <1>1, <1>3, <1>9 DEF TypeOK
<1>11. Guarded(wire[d], recvKey'[e], oldRecv'[e], got[e])
  <2>1. Guarded(wire[d], recvKey[e], oldRecv[e], got[e])
    BY <1>3 DEF RecvInv, d
  <2> QED
    BY <1>3, <1>7, <1>8, <1>9, <2>1, GuardInstalled
<1>12. ASSUME ~link.reordering
       PROVE  InStep(d, wire[d], recvKey'[e], pos'[e], got[e], reader[e])
  <2>1. InStep(d, wire[d], recvKey[e], pos[e], got[e], reader[e])
    BY <1>3, <1>12 DEF RecvInv, d
  <2>2. Sealed(d, wire[d], sendKey[d])
    BY <1>3 DEF SendInv
  <2>3. f = wire[d][pos[e] + 1] /\ pos[e] + 1 \in DOMAIN wire[d] /\ i = pos[e] + 1
    BY <1>2, <1>12 DEF f
  <2>4. reader[e] \notin Errors
    BY <1>1 DEF Errors
  <2> QED
    BY <1>1, <1>2, <1>3, <1>4, <1>6, <1>8, <1>9, <2>1, <2>2, <2>3, <2>4, StepUpdate
<1>13. RecvInv(e)'
  BY <1>1, <1>11, <1>12 DEF RecvInv, d
<1>14. \A x \in Ends : SendInv(x)' /\ RecvInv(x)'
  BY <1>1, <1>9, <1>13, ReadStep
<1> QED
  BY <1>10, <1>14 DEF SecureInv

\* Every step of a connection keeps the invariant.
LEMMA SecureStep == SecureInv /\ [Next]_vars => SecureInv'
<1> SUFFICES ASSUME SecureInv, [Next]_vars PROVE SecureInv'
  OBVIOUS
<1>1. CASE Next
  <2>1. UNCHANGED link
    BY <1>1 DEF Next
  <2>2. CASE SendPing
    BY <2>1, <2>2, BeginPreserves DEF Ends
  <2>3. ASSUME NEW e \in Ends, Write(e) \/ SendPong(e)
        PROVE  SecureInv'
    BY <2>1, <2>3, BeginPreserves
  <2>4. ASSUME NEW e \in Ends, Writing(e)
        PROVE  SecureInv'
    BY <2>1, <2>4, QuietPreserves, FailPreserves, RotatePreserves, WritePreserves DEF Writing
  <2>5. ASSUME NEW e \in Ends, Read(e)
        PROVE  SecureInv'
    BY <2>1, <2>5, UpdatePreserves, ReadPreserves, ErrorPreserves DEF Read
  <2>6. ASSUME NEW e \in Ends, GraceEnds(e) \/ Close(e)
        PROVE  SecureInv'
    BY <2>1, <2>6, QuietPreserves
  <2> QED
    BY <1>1, <2>2, <2>3, <2>4, <2>5, <2>6 DEF Next
<1>2. CASE UNCHANGED vars
  BY <1>2 DEF vars, SecureInv, TypeOK, SendInv, RecvInv
<1> QED
  BY <1>1, <1>2

\* Sealed, Numbered, Guarded and InStep hold in every reachable state, for
\* any number of Writes, pings and rotations, any failure of a write and any
\* link.
THEOREM SecureAlways == Spec => []SecureInv
BY SecureInit, SecureStep, PTL DEF Spec

\* The state of both ends keeps its types: the mask of every window its 64
\* bits, the holder of writeMu its stage and kind, the reader its verdict.
THEOREM SecureTypeCorrect == Spec => []TypeOK
<1>1. SecureInv => TypeOK
  BY DEF SecureInv
<1> QED
  BY <1>1, SecureAlways, PTL

\* No key and nonce seal two frames: within an end the pair of id and
\* sequence number rises, and a key tells its end and its id.
THEOREM NoncesUnique == Spec => []NonceOnce
<1>1. SecureInv => NonceOnce
  <2> SUFFICES ASSUME SecureInv, NEW e \in Ends, NEW d \in Ends,
                      NEW i \in DOMAIN wire[e], NEW j \in DOMAIN wire[d],
                      wire[e][i].key = wire[d][j].key, wire[e][i].seq = wire[d][j].seq
               PROVE  e = d /\ i = j
    BY DEF NonceOnce
  <2>1. Sealed(e, wire[e], sendKey[e]) /\ Sealed(d, wire[d], sendKey[d])
    BY DEF SecureInv, SendInv
  <2>2. wire[e] \in Seq(Frames) /\ wire[d] \in Seq(Frames)
    BY EndTypes DEF SecureInv
  <2>3. wire[e][i].key.by = e /\ wire[d][j].key.by = d
    BY <2>1 DEF Sealed, Shaped
  <2>4. e = d
    BY <2>3
  <2>5. i \in Int /\ j \in Int /\ wire[e][i] \in Frames /\ wire[d][j] \in Frames
    BY <2>2
  <2>6. /\ wire[e][i].id \in Nat /\ wire[d][j].id \in Nat
        /\ wire[e][i].seq \in Nat /\ wire[d][j].seq \in Nat
    BY <2>5 DEF Frames
  <2>7. wire[e][i].id = wire[d][j].id
    <3>1. Len(wire[e][i].key.salts) = wire[e][i].id - 1 /\ Len(wire[d][j].key.salts) = wire[d][j].id - 1
      BY <2>1 DEF Sealed, Shaped
    <3> QED
      BY <2>6, <3>1
  <2>8. ~(i < j) /\ ~(j < i)
    BY <2>1, <2>4, <2>6, <2>7 DEF Sealed, Rising
  <2> QED
    BY <2>4, <2>5, <2>8
<1> QED
  BY <1>1, SecureAlways, PTL

\* On an orderly stream reading fails only at a frame that was cut off.
THEOREM RotationsTransparent == Spec => []RotationTransparent
<1>1. SecureInv => RotationTransparent
  BY DEF SecureInv, RecvInv, InStep, RotationTransparent
<1> QED
  BY <1>1, SecureAlways, PTL

\* On an orderly stream Read returns what was written, in order, once.
THEOREM DeliveryInOrder == Spec => []DeliveredInOrder
<1>1. SecureInv => DeliveredInOrder
  <2>1. \A e \in Ends, k \in Nat : PayloadsOn(Other(e), k) = Payloads(wire[Other(e)], k)
    BY DEF PayloadsOn, Payloads
  <2> SUFFICES ASSUME SecureInv, ~link.reordering, NEW e \in Ends
               PROVE  /\ Range(got[e]) = PayloadsOn(Other(e), pos[e])
                      /\ \A i, j \in DOMAIN got[e] : i < j => got[e][i] < got[e][j]
    BY DEF DeliveredInOrder
  <2>2. pos[e] \in Nat
    BY EndTypes DEF SecureInv
  <2>3. InStep(Other(e), wire[Other(e)], recvKey[e], pos[e], got[e], reader[e])
    BY DEF SecureInv, RecvInv
  <2> QED
    BY <2>1, <2>2, <2>3 DEF InStep
<1> QED
  BY <1>1, SecureAlways, PTL

\* On any link Read returns no payload twice.
THEOREM NothingTwice == Spec => []NoPayloadTwice
<1>1. SecureInv => NoPayloadTwice
  BY DEF SecureInv, RecvInv, Guarded, NoPayloadTwice
<1> QED
  BY <1>1, SecureAlways, PTL
=============================================================================
