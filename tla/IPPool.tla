------------------------------- MODULE IPPool -------------------------------
(***************************************************************************)
(* The address range of the virtual DHCP server: the pool a Manager is     *)
(* built with (vdhcp.NewManager), the conversions between dotted quads and *)
(* uint32 values, and the cyclic order in which allocateIPLocked visits    *)
(* the addresses.                                                          *)
(***************************************************************************)
EXTENDS Integers

CONSTANTS StartIP, EndIP,   \* first and last address of the pool
          Gateway,          \* the only reserved address
          NoIP              \* the empty address string

Octet == 0 .. 255
IPv4  == [1 .. 4 -> Octet]

ipToUint32(v) == v[1] * 16777216 + v[2] * 65536 + v[3] * 256 + v[4]

uint32ToIP(v) == << (v \div 16777216) % 256, (v \div 65536) % 256,
                    (v \div 256) % 256, v % 256 >>

\* What NewManager requires of its configuration.
ASSUME PoolAssumption ==
    /\ StartIP \in IPv4
    /\ EndIP \in IPv4
    /\ Gateway \in IPv4
    /\ ipToUint32(StartIP) <= ipToUint32(EndIP)

start    == ipToUint32(StartIP)
end      == ipToUint32(EndIP)
PoolSize == end - start + 1

\* The addresses the manager can hand out, as strings of the program.
Pool == {uint32ToIP(v) : v \in start .. end}

ASSUME NoIPAssumption == NoIP \notin Pool

Reserved == {Gateway}

\* The cursor of the scan moves to the next address, from the last to the first.
advanceNextLockedLate(n) == IF n > end THEN start ELSE n + 1
advanceNextLocked(n) == IF n >= end THEN start ELSE n + 1

\* The address k moves after position n of the cursor, for k up to a full turn.
SlotUnwrapped(n, k) == n + k
Slot(n, k) == IF n + k <= end THEN n + k ELSE n + k - PoolSize

\* The scan passes over reserved addresses and addresses with an owner.
FreeIgnoringReserved(ip, used) == ip \notin used
Free(ip, used) == ip \notin Reserved /\ ip \notin used

FreeAt(n, k, used) == Free(uint32ToIP(Slot(n, k)), used)

\* The scan that starts with the cursor at n stops after k skipped addresses.
FirstFree(n, k, used) ==
    /\ k \in 0 .. (PoolSize - 1)
    /\ FreeAt(n, k, used)
    /\ \A j \in 0 .. (k - 1) : ~FreeAt(n, j, used)

\* The scan makes a full turn without finding an address.
NoneFree(n, used) == \A k \in 0 .. (PoolSize - 1) : ~FreeAt(n, k, used)
=============================================================================
