---------------------------- MODULE AddressPool -----------------------------
(***************************************************************************)
(* What the virtual DHCP server promises its clients, without maps, timers *)
(* or a scanning order: an address belongs to one client at a time, it is  *)
(* never the gateway's, a client that joins keeps the address it has, and  *)
(* only an offline client can lose its address without giving it up.       *)
(***************************************************************************)
EXTENDS Integers

CONSTANTS Clients, Addresses, NoIP

VARIABLES addr,     \* the address each client holds, or NoIP
          online    \* whether the client is connected

vars == << addr, online >>

Init ==
    /\ addr = [c \in Clients |-> NoIP]
    /\ online = [c \in Clients |-> FALSE]

Without(gone) == [c \in Clients |-> IF c \in gone THEN NoIP ELSE addr[c]]

Available(held) == {a \in Addresses : \A c \in Clients : held[c] # a}

\* Offline clients lose their addresses.
Reclaim(gone) ==
    /\ \A c \in gone : ~online[c]
    /\ addr' = Without(gone)
    /\ UNCHANGED online

\* A client comes online, after some offline clients have lost theirs.
Join(c, gone) ==
    LET held == Without(gone) IN
    /\ \A d \in gone : ~online[d]
    /\ \/ held[c] # NoIP /\ addr' = held
       \/ held[c] = NoIP /\ \E a \in Available(held) : addr' = [held EXCEPT ![c] = a]
    /\ online' = [online EXCEPT ![c] = TRUE]

Leave(c) == online' = [online EXCEPT ![c] = FALSE] /\ UNCHANGED addr

GiveUp(c) ==
    /\ addr' = Without({c})
    /\ online' = [online EXCEPT ![c] = FALSE]

Next ==
    \/ \E gone \in SUBSET Clients : Reclaim(gone)
    \/ \E c \in Clients, gone \in SUBSET Clients : Join(c, gone)
    \/ \E c \in Clients : Leave(c) \/ GiveUp(c)

Spec == Init /\ [][Next]_vars
=============================================================================
