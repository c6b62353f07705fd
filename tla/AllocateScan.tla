---------------------------- MODULE AllocateScan ----------------------------
(***************************************************************************)
(* The loop of allocateIPLocked, one iteration per step, on any set of     *)
(* addresses in use and any position of the cursor.  VDhcpManager takes    *)
(* the outcome of this loop in one step, as FirstFree or NoneFree; here    *)
(* the loop is shown to end with exactly that outcome.                     *)
(***************************************************************************)
EXTENDS IPPool

VARIABLES pc,        \* "scan", "found" or "exhausted"
          used,      \* the keys of ownerByIP
          from,      \* m.next when the loop was entered
          cursor,    \* m.next
          scanned,   \* the loop variable
          ip         \* the address returned

scanVars == << pc, used, from, cursor, scanned, ip >>

ScanInit ==
    /\ pc = "scan"
    /\ used \in SUBSET Pool
    /\ from \in start .. end
    /\ cursor = from
    /\ scanned = 0
    /\ ip = NoIP

\* The address under the cursor is reserved or used: continue.
SkipUncounted ==
    /\ pc = "scan"
    /\ scanned < PoolSize
    /\ ~Free(uint32ToIP(cursor), used)
    /\ cursor' = advanceNextLocked(cursor)
    /\ UNCHANGED << pc, used, from, scanned, ip >>
Skip ==
    /\ pc = "scan"
    /\ scanned < PoolSize
    /\ ~Free(uint32ToIP(cursor), used)
    /\ cursor' = advanceNextLocked(cursor)
    /\ scanned' = scanned + 1
    /\ UNCHANGED << pc, used, from, ip >>

\* The address under the cursor is free: return it, the cursor past it.
TakeFree ==
    /\ pc = "scan"
    /\ scanned < PoolSize
    /\ Free(uint32ToIP(cursor), used)
    /\ cursor' = advanceNextLocked(cursor)
    /\ ip' = uint32ToIP(cursor)
    /\ pc' = "found"
    /\ UNCHANGED << used, from, scanned >>

\* The loop has run its course: "ip pool exhausted".
ExhaustedEarly ==
    /\ pc = "scan"
    /\ ~(scanned < PoolSize - 1)
    /\ pc' = "exhausted"
    /\ UNCHANGED << used, from, cursor, scanned, ip >>
Exhausted ==
    /\ pc = "scan"
    /\ ~(scanned < PoolSize)
    /\ pc' = "exhausted"
    /\ UNCHANGED << used, from, cursor, scanned, ip >>

ScanNext == Skip \/ TakeFree \/ Exhausted

ScanSpec == ScanInit /\ [][ScanNext]_scanVars /\ WF_scanVars(ScanNext)

ScanTypeOK ==
    /\ pc \in {"scan", "found", "exhausted"}
    /\ used \in SUBSET Pool
    /\ from \in start .. end
    /\ cursor \in start .. end
    /\ scanned \in 0 .. PoolSize
    /\ ip \in Pool \cup {NoIP}

\* The loop finds the first free address in cyclic order after the cursor and
\* leaves the cursor behind it, whatever addresses are in use and however the
\* scan wraps around the end of the pool; it reports exhaustion only after
\* looking at every address, with the cursor back where it was.
ScanOutcome ==
    /\ pc = "found" => /\ FirstFree(from, scanned, used)
                       /\ ip = uint32ToIP(Slot(from, scanned))
                       /\ cursor = Slot(from, scanned + 1)
    /\ pc = "exhausted" => NoneFree(from, used) /\ cursor = from

\* A pool with a free address is never reported exhausted: the cyclic order
\* from any cursor visits every address.
NeverExhaustedWhileFree ==
    pc = "exhausted" => \A a \in Pool : ~Free(a, used)

\* The loop ends.
ScanEnds == <>(pc # "scan")

\* What the loop knows at its head: the addresses it has passed are not free,
\* and the cursor is as many places on as it has passed addresses.
ScanInv ==
    /\ ScanTypeOK
    /\ pc = "scan" => /\ cursor = Slot(from, scanned)
                      /\ \A j \in 0 .. (scanned - 1) : ~FreeAt(from, j, used)
    /\ ScanOutcome
=============================================================================
