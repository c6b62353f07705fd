----------------------------- MODULE SecureConn -----------------------------
(***************************************************************************)
(* tcpx/secure_conn.go: the two ends of an encrypted connection.  Writers  *)
(* take writeMu, rotate the send key if it is due and seal one frame; the  *)
(* reader looks the key up, opens the frame, checks it for replay and      *)
(* follows key updates; it answers a ping itself, through the same writer. *)
(*                                                                         *)
(* Cryptography is symbolic: a key is the history of the salts it was      *)
(* derived with, and a frame opens only under the key that sealed it.      *)
(* When a key is due for rotation, and when the grace period of an old key *)
(* ends, is left to chance: the clock may say so at any moment.            *)
(***************************************************************************)
EXTENDS ReplayWindow, Sequences, Functions

CONSTANTS ReplaySize,     \* cfg.ReplayWindow
          Links           \* the links considered, see LinkType

\* Frames arrive in order, or in any order and any number of times; bounds on
\* the calls of Write, on the client's heartbeats and on the send keys.
LinkType == [reordering : BOOLEAN,
             maxWrites  : [{"client", "server"} -> Nat],
             maxPings   : Nat,
             maxKeyID   : [{"client", "server"} -> Nat \ {0}]]

ASSUME SecureConnAssumption == ReplaySize \in Nat /\ Links \subseteq LinkType

Ends == {"client", "server"}
Other(e) == IF e = "client" THEN "server" ELSE "client"

VARIABLES
    link,      \* the link between the two ends
    sendKey,   \* the key each end seals with, its id and sequence number
    recvKey,   \* the key each end opens with, its id and replay window
    oldRecv,   \* the key before that
    oldLive,   \* the old key's grace period has not ended
    closed,    \* the ends whose SecureConn is closed
    writer,    \* what the holder of writeMu is doing: stage and kind of frame
    reader,    \* what the reading goroutine is doing, or the error it ended with
    wire,      \* the frames each end has put on the stream
    pos,       \* how many of them the other end has read
    written,   \* Writes begun, which number the payloads
    pings,     \* heartbeats sent
    got        \* the payloads Read has returned

vars == << link, sendKey, recvKey, oldRecv, oldLive, closed, writer, reader, wire,
           pos, written, pings, got >>

Kinds  == {"data", "ping", "pong"}
Errors == {"ErrBadFrame", "ErrReplay", "ErrUnknownKey", "ErrOpen"}
NoKey  == [id |-> 0, key |-> [by |-> "client", salts |-> << >>], replay |-> newReplayWindow(ReplaySize)]
Idle   == [stage |-> "idle", kind |-> "none"]

\* The handshake leaves a different key in each direction.
SessionKey(e) == [by |-> e, salts |-> << >>]
deriveRotatedKeyUnsalted(key, salt) == key
deriveRotatedKey(key, salt) == [key EXCEPT !.salts = Append(@, salt)]

Init ==
    /\ link \in Links
    /\ sendKey = [e \in Ends |-> [id |-> 1, key |-> SessionKey(e), seq |-> 0]]
    /\ recvKey = [e \in Ends |-> [id |-> 1, key |-> SessionKey(Other(e)),
                                  replay |-> newReplayWindow(ReplaySize)]]
    /\ oldRecv = [e \in Ends |-> NoKey]
    /\ oldLive = {}
    /\ closed = {}
    /\ writer = [e \in Ends |-> Idle]
    /\ reader = [e \in Ends |-> "reading"]
    /\ wire = [e \in Ends |-> << >>]
    /\ pos = [e \in Ends |-> 0]
    /\ written = [e \in Ends |-> 0]
    /\ pings = 0
    /\ got = [e \in Ends |-> << >>]

sending == << sendKey, writer, wire >>
receiving == << recvKey, oldRecv, oldLive, pos, got >>

Close(e) ==
    /\ closed' = closed \cup {e}
    /\ UNCHANGED << sending, receiving, reader, written, pings >>

-----------------------------------------------------------------------------
(* writeInner: the caller holds writeMu until it returns.                  *)

\* writeMu is taken; the send key is due for rotation or it is not.
Begin(e, kind) ==
    /\ writer[e] = Idle
    /\ \/ writer' = [writer EXCEPT ![e] = [stage |-> "seal", kind |-> kind]]
       \/ /\ sendKey[e].id < link.maxKeyID[e]
          /\ writer' = [writer EXCEPT ![e] = [stage |-> "update", kind |-> kind]]
    /\ UNCHANGED << sendKey, wire, receiving, closed, reader >>

Write(e) ==
    /\ written[e] < link.maxWrites[e]
    /\ written' = [written EXCEPT ![e] = @ + 1]
    /\ Begin(e, "data")
    /\ UNCHANGED pings

SendPing ==
    /\ pings < link.maxPings
    /\ pings' = pings + 1
    /\ Begin("client", "ping")
    /\ UNCHANGED written

SendPong(e) ==
    /\ reader[e] = "ponging"
    /\ Begin(e, "pong")
    /\ UNCHANGED << written, pings >>

\* The frame that the next seal puts on the wire; a key update carries a salt,
\* which is random in the program and the frame's own number here.
FrameOf(e, kind) ==
    [id |-> sendKey[e].id, key |-> sendKey[e].key, seq |-> sendKey[e].seq + 1,
     kind |-> kind, payload |-> IF kind = "data" THEN written[e] ELSE 0, torn |-> FALSE]

Torn(f) == [f EXCEPT !.torn = TRUE]

\* writeInner returns: a reader waiting for its pong reads on, whatever the
\* result; a heartbeat that failed closes the connection.
Return(e) ==
    /\ writer' = [writer EXCEPT ![e] = Idle]
    /\ reader' = IF writer[e].kind = "pong" THEN [reader EXCEPT ![e] = "reading"] ELSE reader

\* ErrClosed, before the sequence number is taken.
WriteClosed(e) ==
    /\ writer[e].stage \in {"update", "seal"}
    /\ e \in closed
    /\ Return(e)
    /\ UNCHANGED << sendKey, wire, receiving, closed, written, pings >>

SealedKind(e) == IF writer[e].stage = "update" THEN "update" ELSE writer[e].kind

\* conn.Write fails: nothing was sent, or only a part of the frame was.
\* The sequence number is spent either way.
WriteFailsLocked(e) ==
    /\ writer[e].stage \in {"update", "seal"}
    /\ e \notin closed
    /\ sendKey' = [sendKey EXCEPT ![e].seq = @ + 1]
    /\ writer' = [writer EXCEPT ![e].stage = "held"]
    /\ UNCHANGED << wire, closed, reader, receiving, written, pings >>
WriteFails(e) ==
    LET f == FrameOf(e, SealedKind(e)) IN
    /\ writer[e].stage \in {"update", "seal"}
    /\ e \notin closed
    /\ sendKey' = [sendKey EXCEPT ![e].seq = @ + 1]
    /\ \/ UNCHANGED wire
       \/ wire' = [wire EXCEPT ![e] = Append(@, Torn(f))]
    /\ Return(e)
    /\ closed' = IF writer[e].kind = "ping" THEN closed \cup {e} ELSE closed
    /\ UNCHANGED << receiving, written, pings >>

\* rotateSendKeyIfNeededLocked: the update is sealed with the old key, then
\* the new one takes its place.
rotateSendKeyFirst(e) ==
    LET f == FrameOf(e, "update") IN
    /\ writer[e].stage = "update"
    /\ e \notin closed
    /\ sendKey' = [sendKey EXCEPT ![e] =
                     [id |-> @.id + 1, key |-> deriveRotatedKey(@.key, f.seq), seq |-> 0]]
    /\ wire' = [wire EXCEPT ![e] = Append(@, [f EXCEPT !.id = @ + 1])]
    /\ writer' = [writer EXCEPT ![e].stage = "seal"]
    /\ UNCHANGED << receiving, closed, reader, written, pings >>
rotateSendKey(e) ==
    LET f == FrameOf(e, "update") IN
    /\ writer[e].stage = "update"
    /\ e \notin closed
    /\ wire' = [wire EXCEPT ![e] = Append(@, f)]
    /\ sendKey' = [sendKey EXCEPT ![e] =
                     [id |-> @.id + 1, key |-> deriveRotatedKey(@.key, f.seq), seq |-> 0]]
    /\ writer' = [writer EXCEPT ![e].stage = "seal"]
    /\ UNCHANGED << receiving, closed, reader, written, pings >>

encryptAndWrite(e) ==
    /\ writer[e].stage = "seal"
    /\ e \notin closed
    /\ wire' = [wire EXCEPT ![e] = Append(@, FrameOf(e, writer[e].kind))]
    /\ sendKey' = [sendKey EXCEPT ![e].seq = @ + 1]
    /\ Return(e)
    /\ UNCHANGED << receiving, closed, written, pings >>

-----------------------------------------------------------------------------
(* readInner and Read.                                                     *)

\* The positions of the stream from which the next frame can be read.
Arrivals(e) == IF link.reordering THEN DOMAIN wire[Other(e)]
                                  ELSE {pos[e] + 1} \cap DOMAIN wire[Other(e)]

\* lookupRecvKey
IsRecv(e, f) == recvKey[e].id = f.id
IsOld(e, f)  == ~IsRecv(e, f) /\ oldRecv[e].id = f.id /\ e \in oldLive
KeyFor(e, f) == IF IsRecv(e, f) THEN recvKey[e] ELSE oldRecv[e]

VerdictTrusting(e, f) ==
    IF IsRecv(e, f) \/ IsOld(e, f) THEN "ok" ELSE "ErrUnknownKey"
Verdict(e, f) ==
    IF f.torn THEN "ErrBadFrame"
    ELSE IF ~IsRecv(e, f) /\ ~IsOld(e, f) THEN "ErrUnknownKey"
    ELSE IF f.key # KeyFor(e, f).key THEN "ErrOpen"
    ELSE IF ~Accepts(KeyFor(e, f).replay, f.seq) THEN "ErrReplay"
    ELSE IF f.kind = "update" /\ IsOld(e, f) THEN "ErrBadFrame"
    ELSE "ok"

\* markReplayOK
Marked(k, f) == [k EXCEPT !.replay = Accept(@, f.seq)]

markRecv(e, f) ==
    /\ recvKey' = IF IsRecv(e, f) THEN [recvKey EXCEPT ![e] = Marked(@, f)] ELSE recvKey
    /\ oldRecv' = IF IsOld(e, f)  THEN [oldRecv EXCEPT ![e] = Marked(@, f)] ELSE oldRecv
    /\ UNCHANGED oldLive

\* The frame at position i is read and found good.
Reads(e, i) ==
    /\ reader[e] = "reading"
    /\ e \notin closed
    /\ Verdict(e, wire[Other(e)][i]) = "ok"
    /\ pos' = [pos EXCEPT ![e] = i]
    /\ UNCHANGED << sending, closed, written, pings >>

\* installRecvKey: the key in use becomes the old one, with its window.
installRecvKeyFreshOld(e, f) ==
    /\ oldRecv' = [oldRecv EXCEPT ![e] =
                     [recvKey[e] EXCEPT !.replay = newReplayWindow(ReplaySize)]]
    /\ oldLive' = oldLive \cup {e}
    /\ recvKey' = [recvKey EXCEPT ![e] =
                     [id |-> f.id + 1, key |-> deriveRotatedKey(@.key, f.seq),
                      replay |-> newReplayWindow(ReplaySize)]]
installRecvKey(e, f) ==
    /\ oldRecv' = [oldRecv EXCEPT ![e] = Marked(recvKey[e], f)]
    /\ oldLive' = oldLive \cup {e}
    /\ recvKey' = [recvKey EXCEPT ![e] =
                     [id |-> f.id + 1, key |-> deriveRotatedKey(@.key, f.seq),
                      replay |-> newReplayWindow(ReplaySize)]]

ReadUpdate(e, i) ==
    LET f == wire[Other(e)][i] IN
    /\ Reads(e, i)
    /\ f.kind = "update"
    /\ installRecvKey(e, f)
    /\ UNCHANGED << reader, got >>

ReadData(e, i) ==
    LET f == wire[Other(e)][i] IN
    /\ Reads(e, i)
    /\ f.kind = "data"
    /\ markRecv(e, f)
    /\ got' = [got EXCEPT ![e] = Append(@, f.payload)]
    /\ UNCHANGED reader

ReadPing(e, i) ==
    LET f == wire[Other(e)][i] IN
    /\ Reads(e, i)
    /\ f.kind = "ping"
    /\ markRecv(e, f)
    /\ reader' = [reader EXCEPT ![e] = "ponging"]
    /\ UNCHANGED got

ReadPong(e, i) ==
    LET f == wire[Other(e)][i] IN
    /\ Reads(e, i)
    /\ f.kind = "pong"
    /\ markRecv(e, f)
    /\ UNCHANGED << reader, got >>

\* The frame is refused: Read returns the error and the caller stops reading.
ReadError(e, i) ==
    LET f == wire[Other(e)][i] IN
    /\ reader[e] = "reading"
    /\ e \notin closed
    /\ Verdict(e, f) # "ok"
    /\ reader' = [reader EXCEPT ![e] = Verdict(e, f)]
    /\ UNCHANGED << sending, receiving, closed, written, pings >>

\* The old key's grace period ends between lookupRecvKey and markReplayOK.
ReadExpires(e, i) ==
    LET f == wire[Other(e)][i] IN
    /\ reader[e] = "reading"
    /\ e \notin closed
    /\ ~f.torn /\ IsOld(e, f)
    /\ reader' = [reader EXCEPT ![e] = "ErrReplay"]
    /\ oldLive' = oldLive \ {e}
    /\ UNCHANGED << sending, recvKey, oldRecv, pos, got, closed, written, pings >>

GraceEnds(e) ==
    /\ e \in oldLive
    /\ oldLive' = oldLive \ {e}
    /\ UNCHANGED << sending, recvKey, oldRecv, pos, got, closed, reader, written, pings >>

Read(e) ==
    \E i \in Arrivals(e) :
        \/ ReadUpdate(e, i) \/ ReadData(e, i) \/ ReadPing(e, i) \/ ReadPong(e, i)
        \/ ReadError(e, i)  \/ ReadExpires(e, i)

Writing(e) == WriteClosed(e) \/ WriteFails(e) \/ rotateSendKey(e) \/ encryptAndWrite(e)

Next ==
    /\ \/ SendPing
       \/ \E e \in Ends :
            \/ Write(e) \/ SendPong(e) \/ Writing(e)
            \/ Read(e) \/ GraceEnds(e) \/ Close(e)
    /\ UNCHANGED link

\* A goroutine that can go on does; a write ends by WriteTimeout at the latest.
Fairness ==
    \A e \in Ends : /\ WF_vars(Writing(e) /\ UNCHANGED link)
                    /\ WF_vars(Read(e) /\ UNCHANGED link)
                    /\ WF_vars(SendPong(e) /\ UNCHANGED link)

Spec == Init /\ [][Next]_vars /\ Fairness

-----------------------------------------------------------------------------
(* Properties.                                                             *)

Keys == [by : Ends, salts : Seq(Nat)]
Frames == [id : Nat, key : Keys, seq : Nat, kind : Kinds \cup {"update"},
           payload : Nat, torn : BOOLEAN]
SendKeys == [id : Nat, key : Keys, seq : Nat]
RecvKeys == [id : Nat, key : Keys, replay : Windows]

TypeOK ==
    /\ sendKey \in [Ends -> SendKeys]
    /\ recvKey \in [Ends -> RecvKeys]
    /\ oldRecv \in [Ends -> RecvKeys]
    /\ oldLive \subseteq Ends
    /\ closed \subseteq Ends
    /\ writer \in [Ends -> [stage : {"update", "seal"}, kind : Kinds] \cup {Idle}]
    /\ reader \in [Ends -> {"reading", "ponging"} \cup Errors]
    /\ wire \in [Ends -> Seq(Frames)]
    /\ pos \in [Ends -> Nat]
    /\ written \in [Ends -> Nat]
    /\ got \in [Ends -> Seq(Nat)]
    /\ link \in Links
    /\ pings \in Nat

\* No two frames of a connection are sealed with the same key and the same
\* sequence number, which is the nonce: the condition AES-GCM stands on.  It
\* must survive failed writes and key updates that were never sent.
NonceOnce ==
    \A e, d \in Ends : \A i \in DOMAIN wire[e], j \in DOMAIN wire[d] :
        wire[e][i].key = wire[d][j].key /\ wire[e][i].seq = wire[d][j].seq
            => e = d /\ i = j

\* On an orderly stream reading fails only at a frame that was cut off: no
\* rotation, and no rotation that failed half way, makes the other end meet
\* an unknown key, a frame that does not open or a false replay.
RotationTransparent ==
    \A e \in Ends :
        ~link.reordering /\ reader[e] \in Errors => wire[Other(e)][pos[e] + 1].torn

\* The payloads of the whole data frames among the first k of end e.
PayloadsOn(e, k) ==
    {wire[e][i].payload : i \in {j \in 1 .. k : wire[e][j].kind = "data" /\ ~wire[e][j].torn}}

\* On an orderly stream Read returns exactly the payloads whose Write put a
\* whole frame on the part of the stream that was read, in the order of the
\* Writes (which number them), each once, pings and key updates left out.
DeliveredInOrder ==
    ~link.reordering => \A e \in Ends :
        /\ Range(got[e]) = PayloadsOn(Other(e), pos[e])
        /\ \A i, j \in DOMAIN got[e] : i < j => got[e][i] < got[e][j]

\* Whatever the order in which frames arrive and however often each does,
\* Read returns no payload twice; the window of a key that was rotated out
\* goes on guarding it through its grace period.
NoPayloadTwice == \A e \in Ends : IsInjective(got[e])

\* On an orderly stream the reader always catches up with what was written,
\* unless the connection fails or is closed; it is not held up by its own pong.
Delivered ==
    \A e \in Ends :
        []<>(\/ Range(got[e]) = PayloadsOn(Other(e), Len(wire[Other(e)]))
             \/ reader[e] \in Errors \/ e \in closed \/ link.reordering)
=============================================================================
