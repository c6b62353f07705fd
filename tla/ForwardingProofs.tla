-------------------------- MODULE ForwardingProofs --------------------------
(***************************************************************************)
(* Proofs about the server's packet forwarding, for any number of          *)
(* sessions and addresses, queues of any size and any number of packets.   *)
(* Beside the types the inductive invariant says of each session           *)
(*   Kept        which packets of a flow its queue and its send loop hold; *)
(*   Waits       when its goroutine has a target;                          *)
(*   Registered  that the registry, or the session that replaced it, still *)
(*               leads to it while its done channel is open.               *)
(***************************************************************************)
EXTENDS Forwarding, SequenceTheorems, TLAPS

\* The stream st has the packets w + 1 .. l of s, in order, and no others of s.
Kept(st, s, w, l) ==
    /\ w <= l
    /\ \A k \in w + 1 .. l : \E i \in 1 .. Len(st) : st[i] = << s, k >>
    /\ \A i \in 1 .. Len(st) : st[i][1] = s => st[i][2] \in w + 1 .. l
    /\ \A i, j \in 1 .. Len(st) : i < j /\ st[i][1] = s /\ st[j][1] = s => st[i][2] < st[j][2]

\* The last packet of a flow that is past waiting for room.
Last(s, p) == IF target[s] = p THEN took[s][p] - 1 ELSE took[s][p]

\* A goroutine has a target exactly while it is in enqueue.
Waits(p) == target[p] # NoPeer <=> pc[p] = "enqueue"

\* The registry has p, or the session that replaced it is about to close it.
Registered(p) ==
    \/ ips[addr[p]] = p
    \/ \E q \in Conns : pc[q] = "bound" /\ old[q] = p

OrderInv ==
    \A s \in Sources, p \in Conns \ closed :
        << s, p >> \in Flows[addr] => Kept(hand[p] \o queue[p], s, wrote[s][p], Last(s, p))
WaitInv == \A p \in Conns : Waits(p)
DoneInv == done \subseteq closed
RegisteredInv == \A p \in Conns : pc[p] \notin {"none", "gone"} /\ p \notin done => Registered(p)

ForwardInv == TypeOK /\ OrderInv /\ DoneInv /\ WaitInv /\ RegisteredInv

-----------------------------------------------------------------------------
(* The queue of a peer.                                                    *)

\* The parts of a packet.
LEMMA PacketParts ==
    ASSUME NEW x \in Packets
    PROVE  x[1] \in Sources /\ x[2] \in Nat /\ x = << x[1], x[2] >>
BY DEF Packets

\* A packet is put on the queue: the stream grows at its end.
LEMMA StreamGrows ==
    ASSUME NEW h \in Seq(Packets), NEW q \in Seq(Packets), NEW x \in Packets
    PROVE  h \o Append(q, x) = Append(h \o q, x)
<1>1. << x >> \in Seq(Packets) /\ h \o q \in Seq(Packets)
  BY ConcatProperties
<1>2. Append(q, x) = q \o << x >>
  BY AppendIsConcat
<1>3. Append(h \o q, x) = (h \o q) \o << x >>
  BY <1>1, AppendIsConcat
<1>4. (h \o q) \o << x >> = h \o (q \o << x >>)
  BY <1>1, ConcatAssociative
<1> QED
  BY <1>2, <1>3, <1>4

\* The send loop takes the oldest packet: the stream stays the same.
LEMMA StreamStays ==
    ASSUME NEW q \in Seq(Packets), q # << >>
    PROVE  /\ << Head(q) >> \in Seq(Packets) /\ Len(<< Head(q) >>) = 1
           /\ Tail(q) \in Seq(Packets) /\ Len(Tail(q)) = Len(q) - 1
           /\ << Head(q) >> \o Tail(q) = << >> \o q
<1> DEFINE h == << Head(q) >>
           t == Tail(q)
<1>1. /\ Len(q) \in Nat \ {0} /\ t \in Seq(Packets) /\ Len(t) = Len(q) - 1
      /\ \A i \in 1 .. Len(t) : t[i] = q[i + 1]
      /\ Head(q) \in Packets /\ Head(q) = q[1]
  BY EmptySeq, HeadTailProperties
<1>2. h \in Seq(Packets) /\ Len(h) = 1 /\ h[1] = q[1]
  BY <1>1
<1> HIDE DEF h, t
<1>3. /\ h \o t \in Seq(Packets) /\ Len(h \o t) = Len(q)
      /\ \A i \in 1 .. Len(q) : (h \o t)[i] = IF i <= 1 THEN h[i] ELSE t[i - 1]
  <2>1. /\ h \o t \in Seq(Packets) /\ Len(h \o t) = Len(h) + Len(t)
        /\ \A i \in 1 .. Len(h) + Len(t) : (h \o t)[i] = IF i <= Len(h) THEN h[i] ELSE t[i - Len(h)]
    BY <1>1, <1>2, ConcatProperties
  <2>2. Len(h) + Len(t) = Len(q)
    BY <1>1, <1>2
  <2> QED
    BY <1>2, <2>1, <2>2
<1>4. ASSUME NEW i \in 1 .. Len(q) PROVE (h \o t)[i] = q[i]
  <2>1. CASE i = 1
    BY <1>1, <1>2, <1>3, <2>1
  <2>2. CASE i # 1
    <3>1. i - 1 \in 1 .. Len(t) /\ ~(i <= 1) /\ i - 1 + 1 = i
      BY <1>1, <2>2
    <3> QED
      BY <1>1, <1>3, <3>1
  <2> QED
    BY <2>1, <2>2
<1>5. h \o t = q
  BY <1>3, <1>4, SeqEqual
<1>6. << >> \o q = q
  BY ConcatEmptySeq
<1> QED
  BY <1>1, <1>2, <1>5, <1>6 DEF h, t

\* The next packet of s at the end of the stream, or one of another goroutine.
LEMMA KeptGrown ==
    ASSUME NEW st \in Seq(Packets), NEW s \in Sources, NEW w \in Nat, NEW l \in Nat,
           NEW x \in Packets, Kept(st, s, w, l)
    PROVE  /\ x = << s, l + 1 >> => Kept(Append(st, x), s, w, l + 1)
           /\ x[1] # s => Kept(Append(st, x), s, w, l)
<1> DEFINE r == Append(st, x)
           n == Len(st)
<1>1. /\ r \in Seq(Packets) /\ n \in Nat /\ Len(r) = n + 1
      /\ \A i \in 1 .. n : r[i] = st[i]
      /\ r[n + 1] = x
  BY AppendProperties, LenProperties
<1>2. \A i \in 1 .. n : st[i] \in Packets /\ st[i][1] \in Sources /\ st[i][2] \in Nat
  BY ElementOfSeq, PacketParts
<1> HIDE DEF r, n
<1>3. \A i \in 1 .. n + 1 : i \in 1 .. n \/ i = n + 1
  BY <1>1
<1>4. /\ w <= l
      /\ \A k \in w + 1 .. l : \E i \in 1 .. n : st[i] = << s, k >>
      /\ \A i \in 1 .. n : st[i][1] = s => st[i][2] \in w + 1 .. l
      /\ \A i, j \in 1 .. n : i < j /\ st[i][1] = s /\ st[j][1] = s => st[i][2] < st[j][2]
  BY DEF Kept, n
<1>5. ASSUME x = << s, l + 1 >> PROVE Kept(r, s, w, l + 1)
  <2>0. x[1] = s /\ x[2] = l + 1
    BY <1>5
  <2>1. ASSUME NEW k \in w + 1 .. l + 1
        PROVE  \E i \in 1 .. n + 1 : r[i] = << s, k >>
    <3>1. CASE k = l + 1
      BY <1>1, <1>5, <3>1
    <3>2. CASE k # l + 1
      <4>1. k \in w + 1 .. l
        BY <3>2
      <4>2. PICK i \in 1 .. n : st[i] = << s, k >>
        BY <1>4, <4>1
      <4> QED
        BY <1>1, <4>2
    <3> QED
      BY <3>1, <3>2
  <2>2. ASSUME NEW i \in 1 .. n + 1, r[i][1] = s
        PROVE  r[i][2] \in w + 1 .. l + 1
    <3>1. CASE i = n + 1
      BY <1>1, <1>4, <2>0, <3>1
    <3>2. CASE i \in 1 .. n
      <4>1. st[i][2] \in w + 1 .. l
        BY <1>1, <1>4, <2>2, <3>2
      <4> QED
        BY <1>1, <3>2, <4>1
    <3> QED
      BY <1>3, <3>1, <3>2
  <2>3. ASSUME NEW i \in 1 .. n + 1, NEW j \in 1 .. n + 1, i < j, r[i][1] = s, r[j][1] = s
        PROVE  r[i][2] < r[j][2]
    <3>0. i \in 1 .. n
      BY <1>1, <2>3
    <3>1. CASE j = n + 1
      <4>1. st[i][2] \in w + 1 .. l
        BY <1>1, <1>4, <2>3, <3>0
      <4> QED
        BY <1>1, <2>0, <3>0, <3>1, <4>1
    <3>2. CASE j \in 1 .. n
      BY <1>1, <1>4, <2>3, <3>0, <3>2
    <3> QED
      BY <1>3, <3>1, <3>2
  <2>4. w <= l + 1
    BY <1>4
  <2> QED
    BY <1>1, <2>1, <2>2, <2>3, <2>4 DEF Kept
<1>6. ASSUME x[1] # s PROVE Kept(r, s, w, l)
  <2>1. \A i \in 1 .. n + 1 : r[i][1] = s => i \in 1 .. n
    BY <1>1, <1>3, <1>6
  <2>2. ASSUME NEW k \in w + 1 .. l
        PROVE  \E i \in 1 .. n + 1 : r[i] = << s, k >>
    <3>1. PICK i \in 1 .. n : st[i] = << s, k >>
      BY <1>4
    <3> QED
      BY <1>1, <3>1
  <2>3. \A i \in 1 .. n + 1 : r[i][1] = s => r[i][2] \in w + 1 .. l
    BY <1>1, <1>4, <2>1
  <2>4. \A i, j \in 1 .. n + 1 : i < j /\ r[i][1] = s /\ r[j][1] = s => r[i][2] < r[j][2]
    BY <1>1, <1>4, <2>1
  <2> QED
    BY <1>1, <1>4, <2>2, <2>3, <2>4 DEF Kept
<1> QED
  BY <1>5, <1>6 DEF r

\* The first packet of the stream is written: if it is one of s, it is the
\* next one of s.
LEMMA KeptWritten ==
    ASSUME NEW h \in Seq(Packets), Len(h) = 1, NEW q \in Seq(Packets),
           NEW s \in Sources, NEW w \in Nat, NEW l \in Nat, Kept(h \o q, s, w, l)
    PROVE  /\ h[1][1] = s => Kept(q, s, w + 1, l)
           /\ h[1][1] # s => Kept(q, s, w, l)
<1> DEFINE st == h \o q
           n == Len(q)
<1>1. /\ n \in Nat /\ Len(st) = n + 1 /\ st \in Seq(Packets)
      /\ st[1] = h[1] /\ \A i \in 1 .. n : q[i] = st[i + 1]
  <2>1. /\ n \in Nat /\ Len(st) = 1 + n /\ st \in Seq(Packets)
        /\ \A i \in 1 .. 1 + n : st[i] = IF i <= 1 THEN h[i] ELSE q[i - 1]
    <3>1. /\ Len(st) = Len(h) + Len(q) /\ st \in Seq(Packets)
          /\ \A i \in 1 .. Len(h) + Len(q) : st[i] = IF i <= Len(h) THEN h[i] ELSE q[i - Len(h)]
      BY ConcatProperties
    <3>2. n \in Nat
      BY LenProperties
    <3> QED
      BY <3>1, <3>2
  <2> HIDE DEF st, n
  <2>2. ASSUME NEW i \in 1 .. n PROVE q[i] = st[i + 1]
    <3>1. i + 1 \in 1 .. 1 + n /\ ~(i + 1 <= 1) /\ (i + 1) - 1 = i
      BY <2>1
    <3> QED
      BY <2>1, <3>1
  <2>3. 1 \in 1 .. 1 + n
    BY <2>1
  <2> QED
    BY <2>1, <2>2, <2>3
<1>2. \A i \in 1 .. n + 1 : st[i] \in Packets /\ st[i][1] \in Sources /\ st[i][2] \in Nat
  BY <1>1, ElementOfSeq, PacketParts
<1>3. /\ w <= l
      /\ \A k \in w + 1 .. l : \E i \in 1 .. n + 1 : st[i] = << s, k >>
      /\ \A i \in 1 .. n + 1 : st[i][1] = s => st[i][2] \in w + 1 .. l
      /\ \A i, j \in 1 .. n + 1 : i < j /\ st[i][1] = s /\ st[j][1] = s => st[i][2] < st[j][2]
  BY <1>1 DEF Kept
<1> HIDE DEF st, n
<1>4. \A i \in 1 .. n : i + 1 \in 1 .. n + 1 /\ 1 \in 1 .. n + 1 /\ 1 < i + 1
  BY <1>1
<1>5. \A i, j \in 1 .. n : i < j /\ q[i][1] = s /\ q[j][1] = s => q[i][2] < q[j][2]
  <2> SUFFICES ASSUME NEW i \in 1 .. n, NEW j \in 1 .. n, i < j, q[i][1] = s, q[j][1] = s
               PROVE  q[i][2] < q[j][2]
    OBVIOUS
  <2>1. i + 1 < j + 1
    BY <1>1
  <2> QED
    BY <1>1, <1>3, <1>4, <2>1
<1>6. ASSUME NEW k \in w + 1 .. l, h[1] # << s, k >>
      PROVE  \E i \in 1 .. n : q[i] = << s, k >>
  <2>1. PICK i \in 1 .. n + 1 : st[i] = << s, k >>
    BY <1>3
  <2>2. i # 1
    BY <1>1, <1>6, <2>1
  <2>3. i - 1 \in 1 .. n /\ (i - 1) + 1 = i
    BY <1>1, <2>2
  <2> QED
    BY <1>1, <2>1, <2>3
<1>7. ASSUME h[1][1] = s PROVE Kept(q, s, w + 1, l)
  <2>1. 1 \in 1 .. n + 1 /\ st[1][1] = s /\ st[1][2] \in w + 1 .. l
    BY <1>1, <1>3, <1>7
  <2>2. w + 1 <= l
    BY <2>1
  <2>3. ASSUME NEW i \in 1 .. n, q[i][1] = s PROVE q[i][2] \in w + 2 .. l
    <3>1. i + 1 \in 1 .. n + 1 /\ 1 < i + 1
      BY <1>1
    <3>2. q[i][2] = st[i + 1][2] /\ st[i + 1][1] = s
      BY <1>1, <2>3
    <3>3. st[1][2] < st[i + 1][2] /\ st[i + 1][2] \in w + 1 .. l
      BY <1>3, <2>1, <3>1, <3>2
    <3>4. \A u \in w + 1 .. l, v \in w + 1 .. l : u < v => v \in w + 2 .. l
      OBVIOUS
    <3> QED
      BY <2>1, <3>2, <3>3, <3>4
  <2>4. h[1] = << s, w + 1 >>
    <3>1. w + 1 \in w + 1 .. l
      BY <2>2
    <3>2. SUFFICES ASSUME h[1] # << s, w + 1 >> PROVE FALSE
      OBVIOUS
    <3>3. PICK i \in 1 .. n : q[i] = << s, w + 1 >>
      BY <1>6, <3>1, <3>2
    <3>4. q[i][1] = s /\ q[i][2] = w + 1
      BY <3>3
    <3>5. w + 1 \in w + 2 .. l
      BY <2>3, <3>4
    <3> QED
      BY <3>5
  <2>5. ASSUME NEW k \in (w + 1) + 1 .. l
        PROVE  \E i \in 1 .. n : q[i] = << s, k >>
    <3>1. k \in w + 1 .. l /\ k # w + 1
      BY <2>5
    <3>2. h[1] # << s, k >>
      BY <2>4, <3>1
    <3> QED
      BY <1>6, <3>1, <3>2
  <2>6. (w + 1) + 1 = w + 2
    OBVIOUS
  <2> QED
    BY <1>5, <2>2, <2>3, <2>5, <2>6 DEF Kept, n
<1>8. ASSUME h[1][1] # s PROVE Kept(q, s, w, l)
  <2>1. \A k \in w + 1 .. l : h[1] # << s, k >>
    BY <1>8
  <2>2. \A k \in w + 1 .. l : \E i \in 1 .. n : q[i] = << s, k >>
    BY <1>6, <2>1
  <2>3. \A i \in 1 .. n : q[i][1] = s => q[i][2] \in w + 1 .. l
    BY <1>1, <1>3, <1>4
  <2> QED
    BY <1>3, <1>5, <2>2, <2>3 DEF Kept, n
<1> QED
  BY <1>7, <1>8

\* The history of the other flows stays,
LEMMA CountedOthers ==
    ASSUME NEW c \in [Sources -> [Conns -> Nat]], NEW s \in Sources, NEW p, addr \in Leases,
           NEW r \in Sources, NEW q \in Conns, r # s \/ q # p
    PROVE  Count(c, s, p)[r][q] = c[r][q]
<1>1. CASE << s, p >> \in Flows[addr]
  <2>1. p \in Conns
    BY <1>1, ForwardingAssumption
  <2>2. Count(c, s, p) = [c EXCEPT ![s][p] = c[s][p] + 1]
    BY <1>1 DEF Count
  <2> QED
    BY <2>1, <2>2
<1>2. CASE << s, p >> \notin Flows[addr]
  BY <1>2 DEF Count
<1> QED
  BY <1>1, <1>2

\* and that of the counted one grows by one.
LEMMA Counted ==
    ASSUME NEW c \in [Sources -> [Conns -> Nat]], NEW s \in Sources, NEW p, addr \in Leases
    PROVE  /\ Count(c, s, p) \in [Sources -> [Conns -> Nat]]
           /\ << s, p >> \in Flows[addr] => Count(c, s, p)[s][p] = c[s][p] + 1
           /\ \A r \in Sources, q \in Conns : r # s \/ q # p => Count(c, s, p)[r][q] = c[r][q]
<1>0. \A r \in Sources, q \in Conns : r # s \/ q # p => Count(c, s, p)[r][q] = c[r][q]
  BY CountedOthers
<1>1. CASE << s, p >> \in Flows[addr]
  <2>1. p \in Conns
    BY <1>1, ForwardingAssumption
  <2>2. Count(c, s, p) = [c EXCEPT ![s][p] = c[s][p] + 1]
    BY <1>1 DEF Count
  <2> QED
    BY <1>0, <2>1, <2>2
<1>2. CASE << s, p >> \notin Flows[addr]
  BY <1>0, <1>2 DEF Count
<1> QED
  BY <1>1, <1>2

-----------------------------------------------------------------------------
(* The steps of the server.                                                *)

\* Before the first session.
LEMMA ForwardInit == Init => ForwardInv
<1> SUFFICES ASSUME Init PROVE ForwardInv
  OBVIOUS
<1>1. /\ << >> \in Seq(Packets) /\ Len(<< >>) = 0 /\ << >> \o << >> = << >>
      /\ NoPeer \notin Conns /\ Tun \notin Conns
  BY EmptySeq, ConcatEmptySeq, ForwardingAssumption
<1>2. TypeOK
  <2>1. addr \in Leases /\ MaxPackets[addr] \in Nat /\ QueueSize[addr] \in Nat
    BY ForwardingAssumption DEF Init
  <2> QED
    BY <1>1, <2>1 DEF Init, TypeOK
<1>3. OrderInv
  <2>1. ASSUME NEW s PROVE Kept(<< >>, s, 0, 0)
    BY <1>1 DEF Kept
  <2>2. \A s \in Sources, p \in Conns : wrote[s][p] = 0 /\ Last(s, p) = 0 /\ hand[p] \o queue[p] = << >>
    <3> SUFFICES ASSUME NEW s \in Sources, NEW p \in Conns
                 PROVE  wrote[s][p] = 0 /\ Last(s, p) = 0 /\ hand[p] \o queue[p] = << >>
      OBVIOUS
    <3>1. wrote[s][p] = 0 /\ took[s][p] = 0 /\ target[s] # p /\ hand[p] = << >> /\ queue[p] = << >>
      BY <1>1 DEF Init
    <3>2. Last(s, p) = 0
      BY <3>1 DEF Last
    <3> QED
      BY <1>1, <3>1, <3>2
  <2> QED
    BY <2>1, <2>2 DEF OrderInv
<1>4. WaitInv /\ RegisteredInv /\ DoneInv
  BY <1>1 DEF Init, WaitInv, Waits, RegisteredInv, Sources, DoneInv
<1> QED
  BY <1>2, <1>3, <1>4 DEF ForwardInv

\* What the types say of one session.
LEMMA SessionTypes ==
    ASSUME TypeOK, NEW p \in Conns
    PROVE  /\ queue[p] \in Seq(Packets) /\ hand[p] \in Seq(Packets) /\ Len(hand[p]) \in {0, 1}
           /\ Len(queue[p]) <= QueueSize[addr] /\ Len(queue[p]) \in Nat /\ QueueSize[addr] \in Nat
           /\ addr \in [Conns -> Addresses] /\ addr[p] \in Addresses
           /\ target[p] \in Conns \cup {NoPeer} /\ ips[addr[p]] \in Conns \cup {NoPeer}
           /\ p # NoPeer /\ p # Tun
<1>1. addr \in [Conns -> Addresses] /\ QueueSize[addr] \in Nat /\ p # NoPeer /\ p # Tun
  BY ForwardingAssumption DEF TypeOK
<1>2. queue[p] \in Seq(Packets) /\ Len(queue[p]) \in Nat
  BY LenProperties DEF TypeOK
<1> QED
  BY <1>1, <1>2 DEF TypeOK, Sources

\* A session takes its address, from the one that had it.
LEMMA BindPreserves ==
    ASSUME ForwardInv, NEW p \in Conns, bindIP(p)
    PROVE  ForwardInv'
<1>1. TypeOK /\ OrderInv /\ DoneInv /\ WaitInv /\ RegisteredInv
  BY DEF ForwardInv
<1>2. /\ pc[p] = "none" /\ pc' = [pc EXCEPT ![p] = "bound"]
      /\ old' = [old EXCEPT ![p] = ips[addr[p]]]
      /\ ips' = [ips EXCEPT ![addr[p]] = p]
      /\ sender' = sender \cup {p}
      /\ UNCHANGED << addr, done, closed, target, sent, queue, hand, took, wrote >>
  BY DEF bindIP, Goto, packets
<1>3. addr[p] \in Addresses /\ ips[addr[p]] \in Conns \cup {NoPeer} /\ addr \in [Conns -> Addresses]
  BY <1>1, SessionTypes
<1>4. TypeOK'
  BY <1>1, <1>2, <1>3 DEF TypeOK
<1>5. OrderInv' /\ DoneInv'
  BY <1>1, <1>2 DEF OrderInv, Last, DoneInv
<1>6. WaitInv'
  BY <1>1, <1>2 DEF WaitInv, Waits, TypeOK
<1>7. RegisteredInv'
  <2> SUFFICES ASSUME NEW r \in Conns, pc'[r] \notin {"none", "gone"}, r \notin done
               PROVE  Registered(r)'
    BY <1>2 DEF RegisteredInv
  <2>0. pc \in [Conns -> {"none", "bound", "read", "enqueue", "failed", "shut", "gone"}]
        /\ old \in [Conns -> Conns \cup {NoPeer}] /\ ips \in [Addresses -> Conns \cup {NoPeer}]
    BY <1>1 DEF TypeOK
  <2>1. CASE r = p
    BY <1>2, <1>3, <2>0, <2>1 DEF Registered
  <2>2. CASE r # p
    <3>1. Registered(r)
      BY <1>1, <1>2, <2>0, <2>2 DEF RegisteredInv
    <3>2. CASE ips[addr[r]] = r
      <4>1. CASE addr[r] = addr[p]
        BY <1>2, <1>3, <2>0, <3>2, <4>1 DEF Registered
      <4>2. CASE addr[r] # addr[p]
        BY <1>2, <1>3, <2>0, <3>2, <4>2 DEF Registered
      <4> QED
        BY <4>1, <4>2
    <3>3. ASSUME NEW q \in Conns, pc[q] = "bound", old[q] = r
          PROVE  Registered(r)'
      <4>1. q # p
        BY <1>2, <3>3
      <4> QED
        BY <1>2, <2>0, <3>3, <4>1 DEF Registered
    <3> QED
      BY <3>1, <3>2, <3>3 DEF Registered
  <2> QED
    BY <2>1, <2>2
<1> QED
  BY <1>4, <1>5, <1>6, <1>7 DEF ForwardInv

\* It closes the session that had its address.
LEMMA CloseOldPreserves ==
    ASSUME ForwardInv, NEW p \in Conns, closeOld(p)
    PROVE  ForwardInv'
<1>1. TypeOK /\ OrderInv /\ DoneInv /\ WaitInv /\ RegisteredInv
  BY DEF ForwardInv
<1>2. /\ pc[p] = "bound" /\ pc' = [pc EXCEPT ![p] = "read"]
      /\ done' = done \cup ({old[p]} \ {NoPeer})
      /\ closed' = closed \cup ({old[p]} \ {NoPeer})
      /\ UNCHANGED << addr, old, ips, sender, target, sent, queue, hand, took, wrote >>
  BY DEF closeOld, Goto, packets
<1>3. TypeOK'
  BY <1>1, <1>2 DEF TypeOK
<1>4. OrderInv' /\ DoneInv'
  BY <1>1, <1>2 DEF OrderInv, Last, DoneInv
<1>5. WaitInv'
  BY <1>1, <1>2 DEF WaitInv, Waits, TypeOK
<1>6. RegisteredInv'
  <2> SUFFICES ASSUME NEW r \in Conns, pc'[r] \notin {"none", "gone"}, r \notin done'
               PROVE  Registered(r)'
    BY DEF RegisteredInv
  <2>1. pc \in [Conns -> {"none", "bound", "read", "enqueue", "failed", "shut", "gone"}]
    BY <1>1 DEF TypeOK
  <2>2. r # NoPeer /\ r # old[p]
    BY <1>1, <1>2, SessionTypes
  <2>3. Registered(r)
    BY <1>1, <1>2, <2>1 DEF RegisteredInv
  <2>4. \A q \in Conns : pc[q] = "bound" /\ old[q] = r => pc'[q] = "bound"
    BY <1>2, <2>1, <2>2
  <2> QED
    BY <1>2, <2>3, <2>4 DEF Registered
<1> QED
  BY <1>3, <1>4, <1>5, <1>6 DEF ForwardInv

\* Steps that leave the registry alone and move no session to or from
\* "none", "bound" and "gone".
LEMMA StillRegistered ==
    ASSUME RegisteredInv, UNCHANGED << addr, old, ips >>, done \subseteq done',
           \A p \in Conns : /\ pc'[p] \in {"none", "gone"} <=> pc[p] \in {"none", "gone"}
                            /\ pc[p] = "bound" => pc'[p] = "bound"
    PROVE  RegisteredInv'
<1> SUFFICES ASSUME NEW r \in Conns, pc'[r] \notin {"none", "gone"}, r \notin done'
             PROVE  Registered(r)'
  BY DEF RegisteredInv
<1>1. Registered(r)
  BY DEF RegisteredInv
<1> QED
  BY <1>1 DEF Registered

\* A packet is taken up.
LEMMA TakeUpPreserves ==
    ASSUME ForwardInv, NEW a \in Destinations,
           tunToClients(a) \/ \E p \in Conns : handleIP(p, a)
    PROVE  ForwardInv'
<1>1. TypeOK /\ OrderInv /\ DoneInv /\ WaitInv /\ RegisteredInv
  BY DEF ForwardInv
<1>2. /\ UNCHANGED << addr, old, ips, done, closed, sender, queue, hand, wrote >>
      /\ sent < MaxPackets[addr] /\ sent' = sent + 1
  BY DEF tunToClients, handleIP, TakeUp
<1>3. ips[a] \in Conns \cup {NoPeer} /\ Tun \notin Conns /\ NoPeer \notin Conns
  BY <1>1, ForwardingAssumption DEF TypeOK, Destinations
<1>4. sent' \in 0 .. MaxPackets[addr]
  <2>1. MaxPackets[addr] \in Nat
    BY <1>1, ForwardingAssumption DEF TypeOK
  <2> QED
    BY <1>1, <1>2, <2>1 DEF TypeOK
<1>5. took' \in [Sources -> [Conns -> Nat]] /\ OrderInv'
  <2>1. PICK s \in Sources : TakeUp(s, a)
    BY DEF tunToClients, handleIP, Sources
  <2>2. /\ target[s] = NoPeer /\ target' = [target EXCEPT ![s] = ips[a]]
        /\ took' = Count(took, s, ips[a])
    BY <2>1 DEF TakeUp
  <2>3. /\ took \in [Sources -> [Conns -> Nat]] /\ target \in [Sources -> Conns \cup {NoPeer}]
        /\ addr \in Leases
    BY <1>1 DEF TypeOK
  <2>4. /\ took' \in [Sources -> [Conns -> Nat]]
        /\ << s, ips[a] >> \in Flows[addr] => took'[s][ips[a]] = took[s][ips[a]] + 1
        /\ \A r \in Sources, q \in Conns : r # s \/ q # ips[a] => took'[r][q] = took[r][q]
    BY <2>2, <2>3, Counted
  <2>5. ASSUME NEW r \in Sources, NEW q \in Conns \ closed, << r, q >> \in Flows[addr]
        PROVE  Last(r, q)' = Last(r, q)
    <3>1. CASE r = s /\ q = ips[a]
      <4>1. took'[r][q] = took[r][q] + 1 /\ took[r][q] \in Nat
        BY <2>3, <2>4, <2>5, <3>1
      <4>2. target[r] # q /\ target'[r] = q
        BY <1>3, <2>2, <2>3, <3>1
      <4> QED
        BY <4>1, <4>2 DEF Last
    <3>2. CASE r # s \/ q # ips[a]
      <4>1. took'[r][q] = took[r][q]
        BY <2>4, <3>2
      <4>2. target[r] = q <=> target'[r] = q
        BY <1>3, <2>2, <2>3, <3>2
      <4> QED
        BY <4>1, <4>2 DEF Last
    <3> QED
      BY <3>1, <3>2
  <2> QED
    BY <1>1, <1>2, <2>4, <2>5 DEF OrderInv
<1>6. DoneInv' /\ pc \in [Conns -> {"none", "bound", "read", "enqueue", "failed", "shut", "gone"}]
      /\ target \in [Sources -> Conns \cup {NoPeer}]
  BY <1>1, <1>2 DEF TypeOK, DoneInv
<1>7. CASE tunToClients(a)
  <2>1. pc' = pc /\ target' = [target EXCEPT ![Tun] = ips[a]]
    BY <1>7 DEF tunToClients, TakeUp
  <2>2. TypeOK'
    BY <1>1, <1>2, <1>3, <1>4, <1>5, <2>1 DEF TypeOK
  <2>3. WaitInv'
    BY <1>1, <1>3, <1>6, <2>1 DEF WaitInv, Waits, Sources
  <2>4. RegisteredInv'
    BY <1>1, <1>2, <2>1, StillRegistered
  <2> QED
    BY <1>5, <1>6, <2>2, <2>3, <2>4 DEF ForwardInv
<1>8. ASSUME NEW p \in Conns, handleIP(p, a)
      PROVE  ForwardInv'
  <2>1. /\ pc[p] = "read" /\ target[p] = NoPeer /\ target' = [target EXCEPT ![p] = ips[a]]
        /\ pc' = IF ips[a] = NoPeer THEN pc ELSE [pc EXCEPT ![p] = "enqueue"]
    BY <1>8 DEF handleIP, TakeUp
  <2>2. TypeOK'
    <3>1. pc' \in [Conns -> {"none", "bound", "read", "enqueue", "failed", "shut", "gone"}]
          /\ target' \in [Sources -> Conns \cup {NoPeer}]
      BY <1>3, <1>6, <2>1
    <3> QED
      BY <1>1, <1>2, <1>4, <1>5, <3>1 DEF TypeOK
  <2>3. WaitInv'
    BY <1>1, <1>3, <1>6, <2>1 DEF WaitInv, Waits, Sources
  <2>4. RegisteredInv'
    BY <1>1, <1>2, <1>6, <2>1, StillRegistered
  <2> QED
    BY <1>5, <1>6, <2>2, <2>3, <2>4 DEF ForwardInv
<1> QED
  BY <1>7, <1>8

\* A goroutine has put its packet on the queue, or given up: it reads on.
LEMMA EnqueuePreserves ==
    ASSUME ForwardInv, NEW s \in Sources, Enqueuing(s)
    PROVE  ForwardInv'
<1>1. TypeOK /\ OrderInv /\ DoneInv /\ WaitInv /\ RegisteredInv
  BY DEF ForwardInv
<1>2. /\ UNCHANGED << addr, old, ips, done, closed, sender, sent, hand, took, wrote >>
      /\ target' = [target EXCEPT ![s] = NoPeer]
      /\ pc' = IF s = Tun THEN pc ELSE [pc EXCEPT ![s] = "read"]
  BY DEF Enqueuing, enqueue, enqueueClosed, Resume, packets
<1>3. target[s] \in Conns /\ NoPeer \notin Conns /\ Tun \notin Conns
  BY <1>1, ForwardingAssumption DEF Enqueuing, enqueue, enqueueClosed, TypeOK
<1>4. s \in Conns => pc[s] = "enqueue"
  BY <1>1, <1>3 DEF WaitInv, Waits
<1>5. pc \in [Conns -> {"none", "bound", "read", "enqueue", "failed", "shut", "gone"}]
      /\ target \in [Sources -> Conns \cup {NoPeer}]
  BY <1>1 DEF TypeOK
<1>6. pc' \in [Conns -> {"none", "bound", "read", "enqueue", "failed", "shut", "gone"}]
      /\ target' \in [Sources -> Conns \cup {NoPeer}]
  BY <1>2, <1>5
<1>7. WaitInv'
  BY <1>1, <1>2, <1>3, <1>5 DEF WaitInv, Waits, Sources
<1>8. RegisteredInv'
  BY <1>1, <1>2, <1>4, <1>5, StillRegistered DEF Sources
<1> DEFINE t == target[s]
           x == << s, took[s][t] >>
<1>9. took \in [Sources -> [Conns -> Nat]] /\ wrote \in [Sources -> [Conns -> Nat]]
      /\ queue \in [Conns -> Seq(Packets)] /\ \A p \in Conns : Len(queue[p]) <= QueueSize[addr]
  BY <1>1 DEF TypeOK
<1>10. \A r \in Sources, p \in Conns : r # s \/ p # t => Last(r, p)' = Last(r, p)
  BY <1>2, <1>3, <1>5 DEF Last
<1>11. /\ queue' \in [Conns -> Seq(Packets)] /\ \A p \in Conns : Len(queue'[p]) <= QueueSize[addr]
       /\ OrderInv'
  <2>1. CASE enqueue(s)
    <3>1. Len(queue[t]) < QueueSize[addr] /\ queue' = [queue EXCEPT ![t] = Append(queue[t], x)]
      BY <2>1 DEF enqueue
    <3>2. /\ queue[t] \in Seq(Packets) /\ hand[t] \in Seq(Packets)
          /\ Len(queue[t]) \in Nat /\ QueueSize[addr] \in Nat /\ took[s][t] \in Nat
      BY <1>1, <1>3, <1>9, SessionTypes
    <3>3. x \in Packets
      BY <3>2 DEF Packets
    <3>4. x[1] = s
      OBVIOUS
    <3> HIDE DEF x
    <3>5. /\ Append(queue[t], x) \in Seq(Packets)
          /\ Len(Append(queue[t], x)) = Len(queue[t]) + 1
      BY <3>2, <3>3, AppendProperties
    <3>6. /\ queue'[t] = Append(queue[t], x) /\ queue' \in [Conns -> Seq(Packets)]
          /\ \A p \in Conns \ {t} : queue'[p] = queue[p]
      BY <1>3, <1>9, <3>1, <3>5
    <3>7. Len(queue'[t]) <= QueueSize[addr]
      BY <3>1, <3>2, <3>5, <3>6
    <3>8. hand[t] \o queue'[t] = Append(hand[t] \o queue[t], x) /\ hand[t] \o queue[t] \in Seq(Packets)
      BY <3>2, <3>3, <3>6, StreamGrows, ConcatProperties
    <3>9. ASSUME NEW r \in Sources, NEW p \in Conns \ closed, << r, p >> \in Flows[addr]
          PROVE  Kept(hand[p] \o queue'[p], r, wrote[r][p], Last(r, p)')
      <4>1. Kept(hand[p] \o queue[p], r, wrote[r][p], Last(r, p))
        BY <1>1, <3>9 DEF OrderInv
      <4>2. CASE p # t
        <5>1. Last(r, p)' = Last(r, p) /\ queue'[p] = queue[p]
          BY <1>10, <3>6, <4>2
        <5> QED
          BY <4>1, <5>1
      <4>3. CASE p = t
        <5>1. wrote[r][p] \in Nat /\ took[r][p] \in Nat
          BY <1>9
        <5>2. Last(r, p) \in Nat
          <6>1. wrote[r][p] <= Last(r, p)
            BY <4>1 DEF Kept
          <6>2. Last(r, p) \in Int
            BY <5>1 DEF Last
          <6> QED
            BY <5>1, <6>1, <6>2
        <5>3. /\ x = << r, Last(r, p) + 1 >> =>
                   Kept(Append(hand[t] \o queue[t], x), r, wrote[r][p], Last(r, p) + 1)
              /\ x[1] # r => Kept(Append(hand[t] \o queue[t], x), r, wrote[r][p], Last(r, p))
          BY <3>3, <3>8, <4>1, <4>3, <5>1, <5>2, KeptGrown
        <5>4. CASE r = s
          <6>1. Last(r, p) = took[s][t] - 1 /\ Last(r, p)' = took[s][t]
            BY <1>2, <1>3, <1>5, <3>2, <4>3, <5>4 DEF Last
          <6>2. Last(r, p)' = Last(r, p) + 1
            BY <3>2, <6>1
          <6>3. x = << r, Last(r, p) + 1 >>
            BY <5>4, <6>1, <6>2 DEF x
          <6> QED
            BY <3>8, <4>3, <5>3, <6>2, <6>3
        <5>5. CASE r # s
          <6>1. Last(r, p)' = Last(r, p)
            BY <1>10, <5>5
          <6> QED
            BY <3>4, <3>8, <4>3, <5>3, <5>5, <6>1
        <5> QED
          BY <5>4, <5>5
      <4> QED
        BY <4>2, <4>3
    <3>10. OrderInv'
      BY <1>2, <3>9 DEF OrderInv
    <3> QED
      BY <1>9, <3>6, <3>7, <3>10
  <2>2. CASE enqueueClosed(s)
    <3>1. t \in closed /\ queue' = queue
      BY <1>1, <2>2 DEF enqueueClosed, packets, DoneInv
    <3>2. \A r \in Sources, p \in Conns \ closed : Last(r, p)' = Last(r, p)
      BY <1>10, <3>1
    <3> QED
      BY <1>1, <1>2, <1>9, <3>1, <3>2 DEF OrderInv
  <2> QED
    BY <2>1, <2>2 DEF Enqueuing
<1>12. TypeOK' /\ DoneInv'
  BY <1>1, <1>2, <1>6, <1>11 DEF TypeOK, DoneInv
<1> QED
  BY <1>7, <1>8, <1>11, <1>12 DEF ForwardInv

\* The send loop takes a packet, writes it, fails or ends.
LEMMA SendLoopPreserves ==
    ASSUME ForwardInv, NEW p \in Conns, SendLoop(p)
    PROVE  ForwardInv'
<1>1. TypeOK /\ OrderInv /\ DoneInv /\ WaitInv /\ RegisteredInv
  BY DEF ForwardInv
<1>2. /\ UNCHANGED << pc, addr, old, ips, done, target, sent, took >>
      /\ closed \subseteq closed' /\ closed' \subseteq closed \cup {p} /\ sender' \subseteq sender
  BY DEF SendLoop, sendLoopTake, sendLoopWrite, sendLoopFails, sendLoopDone, packets
<1>3. WaitInv' /\ RegisteredInv' /\ DoneInv'
  BY <1>1, <1>2, StillRegistered DEF WaitInv, Waits, DoneInv
<1>4. /\ queue[p] \in Seq(Packets) /\ hand[p] \in Seq(Packets) /\ Len(hand[p]) \in {0, 1}
      /\ Len(queue[p]) \in Nat /\ Len(queue[p]) <= QueueSize[addr] /\ QueueSize[addr] \in Nat
  BY <1>1, SessionTypes
<1>5. /\ queue \in [Conns -> Seq(Packets)] /\ hand \in [Conns -> Seq(Packets)]
      /\ wrote \in [Sources -> [Conns -> Nat]] /\ took \in [Sources -> [Conns -> Nat]]
      /\ \A r \in Conns : Len(queue[r]) <= QueueSize[addr] /\ Len(hand[r]) \in {0, 1}
  BY <1>1 DEF TypeOK
<1>6. << >> \in Seq(Packets) /\ Len(<< >>) = 0
  BY EmptySeq
<1>7. \A s \in Sources, r \in Conns : Last(s, r)' = Last(s, r)
  BY <1>2 DEF Last
<1> DEFINE Moved == /\ queue' \in [Conns -> Seq(Packets)] /\ hand' \in [Conns -> Seq(Packets)]
                    /\ wrote' \in [Sources -> [Conns -> Nat]]
                    /\ \A r \in Conns \ {p} : /\ queue'[r] = queue[r] /\ hand'[r] = hand[r]
                                              /\ \A s \in Sources : wrote'[s][r] = wrote[s][r]
                    /\ Len(queue'[p]) <= QueueSize[addr] /\ Len(hand'[p]) \in {0, 1}
                    /\ \A s \in Sources : p \notin closed' /\ << s, p >> \in Flows[addr] =>
                          Kept(hand'[p] \o queue'[p], s, wrote'[s][p], Last(s, p))
<1>8. \A s \in Sources : p \notin closed /\ << s, p >> \in Flows[addr] =>
         Kept(hand[p] \o queue[p], s, wrote[s][p], Last(s, p))
  BY <1>1 DEF OrderInv
<1>9. ASSUME sendLoopTake(p) PROVE Moved
  <2>1. /\ hand[p] = << >> /\ queue[p] # << >> /\ closed' = closed /\ wrote' = wrote
        /\ hand' = [hand EXCEPT ![p] = << Head(queue[p]) >>]
        /\ queue' = [queue EXCEPT ![p] = Tail(queue[p])]
    BY <1>9 DEF sendLoopTake, Unlocked
  <2>2. /\ << Head(queue[p]) >> \in Seq(Packets) /\ Len(<< Head(queue[p]) >>) = 1
        /\ Tail(queue[p]) \in Seq(Packets) /\ Len(Tail(queue[p])) = Len(queue[p]) - 1
        /\ << Head(queue[p]) >> \o Tail(queue[p]) = hand[p] \o queue[p]
    BY <1>4, <2>1, StreamStays
  <2>3. Len(Tail(queue[p])) <= QueueSize[addr]
    BY <1>4, <2>2
  <2>4. /\ hand'[p] = << Head(queue[p]) >> /\ queue'[p] = Tail(queue[p])
        /\ \A r \in Conns \ {p} : queue'[r] = queue[r] /\ hand'[r] = hand[r]
        /\ queue' \in [Conns -> Seq(Packets)] /\ hand' \in [Conns -> Seq(Packets)]
    BY <1>5, <2>1, <2>2
  <2>5. hand'[p] \o queue'[p] = hand[p] \o queue[p]
    BY <2>2, <2>4
  <2>6. Len(hand'[p]) \in {0, 1} /\ Len(queue'[p]) <= QueueSize[addr]
    BY <2>2, <2>3, <2>4
  <2>7. \A s \in Sources : p \notin closed' /\ << s, p >> \in Flows[addr] =>
           Kept(hand'[p] \o queue'[p], s, wrote'[s][p], Last(s, p))
    BY <1>8, <2>1, <2>5
  <2>8. wrote' \in [Sources -> [Conns -> Nat]]
        /\ \A r \in Conns \ {p} : \A s \in Sources : wrote'[s][r] = wrote[s][r]
    BY <1>5, <2>1
  <2> QED
    BY <2>4, <2>6, <2>7, <2>8
<1>10. ASSUME sendLoopWrite(p) PROVE Moved
  <2>1. /\ hand[p] # << >> /\ p \notin closed /\ closed' = closed /\ queue' = queue
        /\ wrote' = Count(wrote, hand[p][1][1], p)
        /\ hand' = [hand EXCEPT ![p] = << >>]
    BY <1>10 DEF sendLoopWrite
  <2>2. Len(hand[p]) = 1 /\ hand[p][1][1] \in Sources
    <3>1. Len(hand[p]) = 1
      BY <1>4, <2>1, EmptySeq
    <3>2. 1 \in 1 .. Len(hand[p])
      BY <3>1
    <3>3. hand[p][1] \in Packets
      BY <1>4, <3>2, ElementOfSeq
    <3> QED
      BY <3>1, <3>3, PacketParts
  <2>3. PICK o \in Sources : o = hand[p][1][1]
    BY <2>2
  <2>4. /\ Count(wrote, o, p) \in [Sources -> [Conns -> Nat]]
        /\ << o, p >> \in Flows[addr] => Count(wrote, o, p)[o][p] = wrote[o][p] + 1
        /\ \A r \in Sources, q \in Conns : r # o \/ q # p => Count(wrote, o, p)[r][q] = wrote[r][q]
    <3>1. wrote \in [Sources -> [Conns -> Nat]] /\ addr \in Leases
      BY <1>1, <1>5 DEF TypeOK
    <3>2. Count(wrote, o, p) \in [Sources -> [Conns -> Nat]]
      BY <3>1, Counted
    <3>3. << o, p >> \in Flows[addr] => Count(wrote, o, p)[o][p] = wrote[o][p] + 1
      BY <3>1, Counted
    <3>4. \A r \in Sources, q \in Conns : r # o \/ q # p => Count(wrote, o, p)[r][q] = wrote[r][q]
      <4> SUFFICES ASSUME NEW r \in Sources, NEW q \in Conns, r # o \/ q # p
                   PROVE  Count(wrote, o, p)[r][q] = wrote[r][q]
        OBVIOUS
      <4> QED
        BY <3>1, CountedOthers
    <3> QED
      BY <3>2, <3>3, <3>4
  <2>5. wrote' = Count(wrote, o, p)
    BY <2>1, <2>3
  <2>6. /\ hand'[p] = << >> /\ hand' \in [Conns -> Seq(Packets)]
        /\ \A r \in Conns \ {p} : hand'[r] = hand[r]
    BY <1>5, <1>6, <2>1
  <2>7. hand'[p] \o queue'[p] = queue[p]
    BY <1>4, <2>1, <2>6, ConcatEmptySeq
  <2>8. ASSUME NEW s \in Sources, << s, p >> \in Flows[addr]
        PROVE  Kept(queue[p], s, wrote'[s][p], Last(s, p))
    <3>1. Kept(hand[p] \o queue[p], s, wrote[s][p], Last(s, p))
      BY <1>8, <2>1, <2>8
    <3>2. wrote[s][p] \in Nat /\ Last(s, p) \in Nat
      <4>1. wrote[s][p] \in Nat /\ took[s][p] \in Nat
        BY <1>5
      <4>2. wrote[s][p] <= Last(s, p) /\ Last(s, p) \in Int
        BY <3>1, <4>1 DEF Kept, Last
      <4> QED
        BY <4>1, <4>2
    <3>3. /\ o = s => Kept(queue[p], s, wrote[s][p] + 1, Last(s, p))
          /\ o # s => Kept(queue[p], s, wrote[s][p], Last(s, p))
      BY <1>4, <2>2, <2>3, <3>1, <3>2, KeptWritten
    <3>4. /\ o = s => wrote'[s][p] = wrote[s][p] + 1
          /\ o # s => wrote'[s][p] = wrote[s][p]
      BY <2>4, <2>5, <2>8
    <3> QED
      BY <3>3, <3>4
  <2>9. Len(hand'[p]) = 0 /\ Len(queue'[p]) <= QueueSize[addr]
    BY <1>4, <1>6, <2>1, <2>6
  <2>10. \A r \in Conns \ {p} : \A s \in Sources : wrote'[s][r] = wrote[s][r]
    BY <2>4, <2>5
  <2>11. \A s \in Sources : p \notin closed' /\ << s, p >> \in Flows[addr] =>
           Kept(hand'[p] \o queue'[p], s, wrote'[s][p], Last(s, p))
    BY <2>7, <2>8
  <2> QED
    BY <1>5, <2>1, <2>4, <2>5, <2>6, <2>9, <2>10, <2>11
<1>11. ASSUME sendLoopFails(p) PROVE Moved
  <2>1. /\ hand' = [hand EXCEPT ![p] = << >>] /\ closed' = closed \cup {p}
        /\ queue' = queue /\ wrote' = wrote
    BY <1>11 DEF sendLoopFails
  <2>2. /\ hand'[p] = << >> /\ hand' \in [Conns -> Seq(Packets)] /\ p \in closed'
        /\ \A r \in Conns \ {p} : hand'[r] = hand[r]
    BY <1>5, <1>6, <2>1
  <2> QED
    BY <1>4, <1>5, <1>6, <2>1, <2>2
<1>12. ASSUME sendLoopDone(p) PROVE Moved
  <2>1. UNCHANGED << closed, queue, hand, wrote >>
    BY <1>12 DEF sendLoopDone, packets
  <2> QED
    BY <1>4, <1>5, <1>8, <2>1
<1>13. Moved
  BY <1>9, <1>10, <1>11, <1>12 DEF SendLoop
<1>14. TypeOK'
  <2>1. \A r \in Conns : Len(queue'[r]) <= QueueSize[addr] /\ Len(hand'[r]) \in {0, 1}
    BY <1>5, <1>13
  <2>2. closed' \in SUBSET Conns /\ sender' \in SUBSET Conns
    BY <1>1, <1>2 DEF TypeOK
  <2> QED
    BY <1>1, <1>2, <1>13, <2>1, <2>2 DEF TypeOK
<1>15. OrderInv'
  <2> SUFFICES ASSUME NEW s \in Sources, NEW r \in Conns \ closed', << s, r >> \in Flows[addr]
               PROVE  Kept(hand'[r] \o queue'[r], s, wrote'[s][r], Last(s, r))
    BY <1>2, <1>7 DEF OrderInv
  <2>1. CASE r = p
    BY <1>13, <2>1
  <2>2. CASE r # p
    <3>1. /\ queue'[r] = queue[r] /\ hand'[r] = hand[r] /\ wrote'[s][r] = wrote[s][r]
          /\ r \in Conns \ closed
      BY <1>2, <1>13, <2>2
    <3>2. Kept(hand[r] \o queue[r], s, wrote[s][r], Last(s, r))
      BY <1>1, <3>1 DEF OrderInv
    <3> QED
      BY <3>1, <3>2
  <2> QED
    BY <2>1, <2>2
<1> QED
  BY <1>3, <1>14, <1>15 DEF ForwardInv

\* A session ends.
LEMMA EndPreserves ==
    ASSUME ForwardInv, NEW p \in Conns, readFails(p) \/ cleanupClose(p) \/ remove(p)
    PROVE  ForwardInv'
<1>1. TypeOK /\ OrderInv /\ DoneInv /\ WaitInv /\ RegisteredInv
  BY DEF ForwardInv
<1>2. /\ UNCHANGED << addr, old, sender, target, sent, queue, hand, took, wrote >>
      /\ done \subseteq done' /\ done' \subseteq done \cup {p}
      /\ closed \subseteq closed' /\ closed' \subseteq closed \cup {p}
  BY DEF readFails, cleanupClose, remove, Goto, packets
<1>3. pc \in [Conns -> {"none", "bound", "read", "enqueue", "failed", "shut", "gone"}]
      /\ ips \in [Addresses -> Conns \cup {NoPeer}]
  BY <1>1 DEF TypeOK
<1>4. /\ pc[p] \in {"read", "failed", "shut"}
      /\ \E to \in {"failed", "shut", "gone"} : pc' = [pc EXCEPT ![p] = to]
      /\ ips' \in [Addresses -> Conns \cup {NoPeer}]
  BY <1>3 DEF readFails, cleanupClose, remove, Goto
<1>5. TypeOK'
  BY <1>1, <1>2, <1>3, <1>4 DEF TypeOK
<1>6. OrderInv' /\ DoneInv'
  <2>1. DoneInv'
    BY <1>1, <1>2 DEF DoneInv, readFails, cleanupClose, remove
  <2> QED
    BY <1>1, <1>2, <2>1 DEF OrderInv, Last
<1>7. WaitInv'
  BY <1>1, <1>2, <1>3, <1>4 DEF WaitInv, Waits
<1>8. RegisteredInv'
  <2>1. CASE readFails(p) \/ cleanupClose(p)
    <3>1. ips' = ips /\ \E to \in {"failed", "shut"} : pc' = [pc EXCEPT ![p] = to]
      BY <2>1 DEF readFails, cleanupClose, Goto
    <3> QED
      BY <1>1, <1>2, <1>3, <1>4, <3>1, StillRegistered
  <2>2. CASE remove(p)
    <3>1. /\ pc' = [pc EXCEPT ![p] = "gone"] /\ pc[p] = "shut"
          /\ ips' = IF ips[addr[p]] = p THEN [ips EXCEPT ![addr[p]] = NoPeer] ELSE ips
      BY <2>2 DEF remove, Goto
    <3> SUFFICES ASSUME NEW r \in Conns, pc'[r] \notin {"none", "gone"}, r \notin done'
                 PROVE  Registered(r)'
      BY DEF RegisteredInv
    <3>2. r # p /\ pc'[r] = pc[r]
      BY <1>3, <3>1
    <3>3. Registered(r)
      BY <1>1, <1>2, <3>2 DEF RegisteredInv
    <3>4. \A q \in Conns : pc[q] = "bound" => pc'[q] = "bound"
      BY <1>3, <3>1
    <3>5. ips[addr[r]] = r => ips'[addr[r]] = r
      BY <1>1, <1>3, <3>1, <3>2, SessionTypes
    <3> QED
      BY <1>2, <3>3, <3>4, <3>5 DEF Registered
  <2> QED
    BY <2>1, <2>2
<1> QED
  BY <1>5, <1>6, <1>7, <1>8 DEF ForwardInv

\* Every step keeps the invariant.
LEMMA ForwardStep == ForwardInv /\ [Next]_vars => ForwardInv'
<1> SUFFICES ASSUME ForwardInv, [Next]_vars PROVE ForwardInv'
  OBVIOUS
<1>1. CASE Next
  <2>1. ASSUME NEW p \in Conns, bindIP(p) \/ Handler(p) \/ SendLoop(p) \/ readFails(p)
        PROVE  ForwardInv'
    BY <2>1, BindPreserves, CloseOldPreserves, SendLoopPreserves, EndPreserves DEF Handler
  <2>2. ASSUME NEW a \in Destinations, tunToClients(a) \/ \E p \in Conns : handleIP(p, a)
        PROVE  ForwardInv'
    BY <2>2, TakeUpPreserves
  <2>3. ASSUME NEW s \in Sources, Enqueuing(s)
        PROVE  ForwardInv'
    BY <2>3, EnqueuePreserves
  <2> QED
    BY <1>1, <2>1, <2>2, <2>3 DEF Next
<1>2. CASE UNCHANGED vars
  BY <1>2 DEF vars, ForwardInv, TypeOK, OrderInv, Last, DoneInv, WaitInv, Waits, RegisteredInv, Registered
<1> QED
  BY <1>1, <1>2

\* The types, the order of the packets and the registration of the sessions
\* whose done channel is open hold in every reachable state.
THEOREM ForwardAlways == Spec => []ForwardInv
BY ForwardInit, ForwardStep, PTL DEF Spec

\* While a session is open, the packets a goroutine took up for it and that are
\* not yet written are in its send loop's hand or on its queue, in the order
\* they were taken up, whoever else puts packets there.
THEOREM PacketsKeepOrder == Spec => []NothingLostOrOvertaken
<1>1. ForwardInv => NothingLostOrOvertaken
  BY DEF ForwardInv, OrderInv, Kept, Last, NothingLostOrOvertaken
<1> QED
  BY <1>1, ForwardAlways, PTL

\* A session in a deadlock can still be found, and closed, by the next
\* session of its client: a forwarder that waits has not ended, and its done
\* channel is open.
THEOREM DeadlocksEndable == Spec => []DeadlockUntilReconnect
<1>1. ForwardInv => DeadlockUntilReconnect
  <2> SUFFICES ASSUME ForwardInv, NEW p \in Conns, NEW S \in SUBSET Conns, p \in S, Deadlocked(S)
               PROVE  \/ ips[addr[p]] = p
                      \/ \E q \in Conns : pc[q] = "bound" /\ old[q] = p
    BY DEF DeadlockUntilReconnect, InDeadlock
  <2>1. target[p] \in Conns /\ p \notin done
    BY DEF Deadlocked
  <2>2. target[p] # NoPeer
    BY <2>1, ForwardingAssumption
  <2>3. pc[p] = "enqueue"
    BY <2>2 DEF ForwardInv, WaitInv, Waits
  <2> QED
    BY <2>1, <2>3 DEF ForwardInv, RegisteredInv, Registered
<1> QED
  BY <1>1, ForwardAlways, PTL
=============================================================================
