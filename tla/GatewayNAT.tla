----------------------------- MODULE GatewayNAT -----------------------------
(***************************************************************************)
(* The NAT set-up of the server's gateway (tunSetup/server_gateway.go):    *)
(* the four iptables rules and the ip_forward switch, which belong to the  *)
(* operating system and outlive the process, and serverNATState, which     *)
(* does not.  EnableServerGatewayNAT and DisableServerGatewayNAT hold the  *)
(* state's lock throughout; each is a sequence of commands, and a process  *)
(* may die between any two of them.  ServerLifecycle says who calls them.  *)
(***************************************************************************)
EXTENDS Integers

CONSTANTS Egress,     \* interfaces that may carry the default route
          NoIf        \* no interface

ASSUME EgressAssumption == NoIf \notin Egress /\ Egress # {}

VARIABLES
    rules,      \* how many times each rule is in its chain
    ipForward,  \* net.ipv4.ip_forward
    egress,     \* the interface of the default route
    nat,        \* serverNATState; its fields count only when it is active
    natStep,    \* the next command of the call that holds the lock, or 0
    failures,   \* bound on the commands that fail without anybody being told
    failed      \* one has

gateway == << rules, ipForward, egress, nat, natStep, failures, failed >>

NoNat == [active |-> FALSE, egressIf |-> NoIf, oldForward |-> 0]

\* In the order Enable adds them: FORWARD out, FORWARD in, MASQUERADE and
\* TCPMSS, which names no outgoing interface.
Kinds == 1 .. 4
Rule(kind, interface) == << kind, IF kind = 4 THEN NoIf ELSE interface >>
Rules == {Rule(kind, interface) : kind \in Kinds, interface \in Egress}

GatewayTypeOK ==
    /\ rules \in [Rules -> 0 .. 2]
    /\ ipForward \in 0 .. 1
    /\ egress \in Egress
    /\ nat \in [active : BOOLEAN, egressIf : Egress \cup {NoIf}, oldForward : 0 .. 1]
    /\ natStep \in 0 .. 5
    /\ failures \in Nat
    /\ failed \in BOOLEAN

FirstEgress == CHOOSE interface \in Egress : TRUE

GatewayInit ==
    /\ rules = [r \in Rules |-> 0]
    /\ ipForward \in 0 .. 1
    /\ egress = FirstEgress
    /\ nat = NoNat /\ natStep = 0
    /\ failed = FALSE

\* A command fails and the caller goes on.
FailsQuietly ==
    /\ failures > 0
    /\ failures' = failures - 1
    /\ failed' = TRUE

\* The machine's default route moves to another interface; it does so once.
EgressChanges ==
    /\ egress = FirstEgress
    /\ egress' \in Egress \ {egress}
    /\ UNCHANGED << rules, ipForward, nat, natStep, failures, failed >>

-----------------------------------------------------------------------------
(* EnableServerGatewayNAT, called once per process, so never when active.  *)

\* The lock, the outgoing interface and the old value of ip_forward; when it
\* cannot be read it is taken to be 0.
enableBegin ==
    /\ natStep = 0
    /\ natStep' = 1
    /\ \E old \in {ipForward, 0} :
          /\ nat' = [active |-> FALSE, egressIf |-> egress, oldForward |-> old]
          /\ IF old = ipForward THEN UNCHANGED << failures, failed >> ELSE FailsQuietly
    /\ UNCHANGED << rules, ipForward, egress >>

enableForward ==
    /\ natStep = 1
    /\ natStep' = 2
    /\ ipForward' = 1
    /\ UNCHANGED << rules, egress, nat, failures, failed >>

ensureIptablesRuleUnchecked(r) == rules' = [rules EXCEPT ![r] = @ + 1]
ensureIptablesRule(r) ==
    rules' = [rules EXCEPT ![r] = IF @ = 0 THEN 1 ELSE @]

\* One rule; with the last of them the state becomes active.
enableRule ==
    /\ natStep \in 2 .. 5
    /\ ensureIptablesRule(Rule(natStep - 1, nat.egressIf))
    /\ natStep' = IF natStep = 5 THEN 0 ELSE natStep + 1
    /\ nat' = [nat EXCEPT !.active = (natStep = 5)]
    /\ UNCHANGED << ipForward, egress, failures, failed >>

\* The interface is not found or a command fails: Enable returns the error.
\* What it has added stays, and the state is not active.
enableFails ==
    /\ natStep' = 0
    /\ nat' = NoNat
    /\ UNCHANGED << rules, ipForward, egress, failures, failed >>

-----------------------------------------------------------------------------
(* DisableServerGatewayNAT.                                                *)

disableBegin ==
    /\ natStep = 0
    /\ nat.active
    /\ natStep' = 1
    /\ UNCHANGED << rules, ipForward, egress, nat, failures, failed >>

\* The rules go in reverse order.  A rule that is missing is no error; one
\* that cannot be deleted stays, and the error is ignored.
deleteIptablesRule(r) ==
    rules' = [rules EXCEPT ![r] = IF @ = 0 THEN 0 ELSE @ - 1]

disableRuleOutsideEgress ==
    /\ natStep \in 1 .. 4
    /\ natStep' = natStep + 1
    /\ \/ deleteIptablesRule(Rule(5 - natStep, egress)) /\ UNCHANGED << failures, failed >>
       \/ FailsQuietly /\ UNCHANGED rules
    /\ UNCHANGED << ipForward, egress, nat >>
disableRule ==
    /\ natStep \in 1 .. 4
    /\ natStep' = natStep + 1
    /\ \/ deleteIptablesRule(Rule(5 - natStep, nat.egressIf)) /\ UNCHANGED << failures, failed >>
       \/ FailsQuietly /\ UNCHANGED rules
    /\ UNCHANGED << ipForward, egress, nat >>

disableForward ==
    /\ natStep = 5
    /\ natStep' = 0
    /\ \/ ipForward' = nat.oldForward /\ UNCHANGED << failures, failed >>
       \/ FailsQuietly /\ UNCHANGED ipForward
    /\ nat' = NoNat
    /\ UNCHANGED << rules, egress >>

-----------------------------------------------------------------------------
\* The process ends, in whatever way, and its memory with it.
gatewayProcessEnds ==
    /\ nat' = NoNat /\ natStep' = 0
    /\ UNCHANGED << rules, ipForward, egress, failures, failed >>
=============================================================================
