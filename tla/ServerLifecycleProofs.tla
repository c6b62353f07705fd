------------------------ MODULE ServerLifecycleProofs ------------------------
(***************************************************************************)
(* Proofs about ServerLifecycle, for any interfaces, any number of         *)
(* processes and connections and any number of commands that fail: the NAT *)
(* state is truthful and Stop restores the machine.                        *)
(***************************************************************************)
EXTENDS ServerLifecycle, TLAPS

\* Start has left EnableServerGatewayNAT; Stop has not reached Disable.
Enabled    == {"tcp", "management", "loops", "listen", "accept", "returned"}
NotStarted == {"none", "init", "nat"}
BeforeNat  == {"none", "cancel", "close", "management", "peers", "nat"}
AfterNat   == {"tun", "wait"}

Types ==
    /\ rules \in [Rules -> 0 .. 1]
    /\ ipForward \in 0 .. 1
    /\ egress \in Egress
    /\ nat \in [active : BOOLEAN, egressIf : Egress \cup {NoIf}, oldForward : 0 .. 1]
    /\ natStep \in 0 .. 5
    /\ found \in [rules : [Rules -> 0 .. 1], ipForward : 0 .. 1]
    /\ failed \in BOOLEAN
    /\ cancelled \in BOOLEAN
    /\ start \in NotStarted \cup {"enable", "fatal"} \cup Enabled
    /\ stop \in BeforeNat \cup {"disable"} \cup AfterNat

\* Who is inside Enable or Disable, and what that says of serverNATState.
Phases ==
    /\ proc # "up" => nat = NoNat /\ natStep = 0 /\ start = "none" /\ stop = "none"
    /\ start \in NotStarted => natStep = 0 /\ ~nat.active
    /\ start = "enable" => natStep \in 1 .. 5 /\ ~nat.active /\ nat.egressIf \in Egress
    /\ start = "fatal" => natStep = 0 /\ ~nat.active
    /\ stop = "disable" => natStep \in 1 .. 5 /\ nat.active
    /\ nat.active => start \in Enabled /\ nat.egressIf \in Egress
    /\ natStep # 0 => start = "enable" \/ stop = "disable"
    /\ start \in Enabled /\ stop \in BeforeNat => nat.active /\ natStep = 0
    /\ proc = "up" /\ cancelled => start \in Enabled \ {"tcp"} /\ stop \notin {"none", "cancel"}
    /\ proc = "up" /\ cancelled /\ stop \in AfterNat => ~nat.active /\ natStep = 0

Here(r) == \E kind \in Kinds : r = Rule(kind, nat.egressIf)

\* How far the calls have come: what they have added or deleted is there or
\* gone, and nothing else has appeared.
Progress ==
    proc = "up" /\ ~failed =>
        /\ natStep = 0 /\ ~nat.active /\ start # "fatal" => AsFound
        /\ start = "enable" \/ nat.active =>
              /\ nat.oldForward = found.ipForward
              /\ \A r \in Rules : rules[r] <= found.rules[r] \/ Here(r)
        /\ start = "enable" =>
              /\ natStep > 1 => ipForward = 1
              /\ \A kind \in Kinds : kind < natStep - 1 => rules[Rule(kind, nat.egressIf)] = 1
        /\ nat.active /\ natStep = 0 =>
              ipForward = 1 /\ \A kind \in Kinds : rules[Rule(kind, nat.egressIf)] = 1
        /\ stop = "disable" =>
              \A kind \in Kinds : kind > 5 - natStep => rules[Rule(kind, nat.egressIf)] = 0

\* Until the default route moves, only rules of its interface are there.
Home ==
    egress = FirstEgress =>
        /\ nat.egressIf \in {NoIf, FirstEgress}
        /\ \A r \in Rules : rules[r] # 0 => \E kind \in Kinds : r = Rule(kind, FirstEgress)

\* After Disable none are left.
Cleaned ==
    proc = "up" /\ cancelled /\ ~failed /\ stop \in AfterNat /\ egress = FirstEgress =>
        \A r \in Rules : rules[r] = 0

NatInv == Types /\ Phases /\ Progress /\ Home /\ Cleaned /\ StopRestores

-----------------------------------------------------------------------------
(* Rules.                                                                  *)

\* The machine has an interface to begin with.
LEMMA FirstIsEgress == FirstEgress \in Egress
  BY EgressAssumption DEF FirstEgress

\* A rule of an interface is one of the rules.
LEMMA RuleIsRule ==
  ASSUME NEW kind \in Kinds, NEW interface \in Egress
  PROVE  Rule(kind, interface) \in Rules
  BY DEF Rules

\* The rules of one interface are told apart by their kinds.
LEMMA RuleInjective ==
  ASSUME NEW kind, NEW other, NEW interface, Rule(kind, interface) = Rule(other, interface)
  PROVE  kind = other
  BY DEF Rule

-----------------------------------------------------------------------------
(* Init.                                                                   *)

\* The first process finds no rules.
LEMMA NatInit == Init => NatInv
<1> SUFFICES ASSUME Init PROVE NatInv
  OBVIOUS
<1>1. Types
  <2>1. rules \in [Rules -> 0 .. 1] /\ ipForward \in 0 .. 1 /\ egress \in Egress
    BY FirstIsEgress DEF Init, GatewayInit
  <2>2. nat \in [active : BOOLEAN, egressIf : Egress \cup {NoIf}, oldForward : 0 .. 1]
    BY DEF Init, GatewayInit, NoNat
  <2>3. found \in [rules : [Rules -> 0 .. 1], ipForward : 0 .. 1]
    BY <2>1 DEF Init
  <2>4. failed \in BOOLEAN /\ cancelled \in BOOLEAN
    BY Zenon DEF Init, GatewayInit
  <2>5. natStep \in 0 .. 5 /\ start \in NotStarted /\ stop \in BeforeNat
    BY DEF Init, GatewayInit, NotStarted, BeforeNat
  <2> QED
    BY <2>1, <2>2, <2>3, <2>4, <2>5 DEF Types
<1>2. rules = [r \in Rules |-> 0] /\ proc = "stopped" /\ cancelled = FALSE
  BY DEF Init, GatewayInit
<1>3. Phases
  BY DEF Init, GatewayInit, Phases, NoNat, NotStarted, BeforeNat, Enabled
<1>4. Home
  BY <1>2 DEF Init, GatewayInit, Home, NoNat
<1> QED
  BY <1>1, <1>2, <1>3, <1>4 DEF NatInv, Progress, Cleaned, StopRestores

-----------------------------------------------------------------------------
(* Steps that leave the gateway alone.                                     *)

\* Listener, connections, device, management API and loops.
LEMMA OtherStep ==
    ASSUME NatInv, UNCHANGED << gateway, history, start, stop, cancelled >>
    PROVE  NatInv'
  BY DEF NatInv, Types, Phases, Progress, Home, Cleaned, StopRestores, AsFound, Here,
         gateway, history

\* A step of Start that neither begins nor ends Enable.
LEMMA StartOnStep ==
    ASSUME NatInv, proc = "up", UNCHANGED << gateway, history, stop, cancelled >>,
           \/ start = "init" /\ start' = "nat"
           \/ start \in Enabled /\ start' \in Enabled \ {"tcp"}
    PROVE  NatInv'
<1> USE DEF NatInv, gateway, history
<1>1. Types'
  BY DEF Types, NotStarted, Enabled
<1>2. Phases'
  BY DEF Types, Phases, NotStarted, Enabled
<1>3. Progress'
  BY DEF Types, Phases, Progress, AsFound, Here, NotStarted, Enabled
<1>4. Home' /\ Cleaned' /\ StopRestores'
  BY DEF Home, Cleaned, StopRestores, AsFound
<1> QED
  BY <1>1, <1>2, <1>3, <1>4

\* A step of Stop on either side of Disable.
LEMMA StopOnStep ==
    ASSUME NatInv, proc = "up", UNCHANGED << gateway, history, start >>,
           \/ stop \in BeforeNat /\ stop' \in BeforeNat \ {"none", "cancel"}
           \/ stop = "none" /\ stop' = "cancel"
           \/ stop = "tun" /\ stop' = "wait"
           \/ stop = "nat" /\ natStep = 0 /\ ~nat.active /\ stop' = "tun",
           cancelled' \in BOOLEAN,
           \/ cancelled' = cancelled
           \/ stop = "cancel" /\ (cancelled' => start \in Enabled \ {"tcp"})
    PROVE  NatInv'
<1> USE DEF NatInv, gateway, history
<1>1. Types'
  BY DEF Types, BeforeNat, AfterNat
<1>2. Phases'
  BY DEF Types, Phases, BeforeNat, AfterNat, Enabled
<1>3. Progress'
  BY DEF Types, Phases, Progress, AsFound, Here, BeforeNat
<1>4. Home' /\ StopRestores'
  BY DEF Home, StopRestores, AsFound
<1>5. Cleaned'
  BY DEF Types, Phases, Cleaned, BeforeNat, AfterNat, Enabled
<1> QED
  BY <1>1, <1>2, <1>3, <1>4, <1>5

\* A process begins.
LEMMA RunStep == NatInv /\ runServer => NatInv'
<1> SUFFICES ASSUME NatInv, runServer PROVE NatInv'
  OBVIOUS
<1> USE DEF NatInv, runServer, gateway
<1>1. Types'
  BY DEF Types, NotStarted
<1>2. Phases'
  BY DEF Phases, NotStarted, BeforeNat, AfterNat, Enabled, NoNat
<1>3. Progress'
  BY DEF Types, Phases, Progress, AsFound, NoNat
<1>4. Home' /\ Cleaned' /\ StopRestores'
  BY DEF Home, Cleaned, StopRestores
<1> QED
  BY <1>1, <1>2, <1>3, <1>4

\* A process ends; when Stop has returned it leaves what Cleaned says.
LEMMA EndStep ==
    ASSUME NatInv, NEW how \in {"stopped", "crashed"}, ProcessEnds(how),
           how = "stopped" => stop = "wait"
    PROVE  NatInv'
<1> USE DEF NatInv, ProcessEnds, gatewayProcessEnds
<1>1. Types'
  BY DEF Types, NotStarted, BeforeNat, NoNat
<1>2. Phases'
  BY DEF Phases, NotStarted, BeforeNat, AfterNat, Enabled, NoNat
<1>3. Progress' /\ Home' /\ Cleaned'
  BY DEF Progress, Home, Cleaned, NoNat
<1>4. StopRestores'
  BY DEF Types, Phases, Progress, Cleaned, StopRestores, AsFound, AfterNat, Enabled
<1> QED
  BY <1>1, <1>2, <1>3, <1>4

\* The default route moves.
LEMMA EgressStep ==
    ASSUME NatInv, EgressChanges, UNCHANGED << history, memory >>
    PROVE  NatInv'
<1> USE DEF NatInv, EgressChanges, history, memory
<1>1. egress' \in Egress /\ egress' # FirstEgress
  OBVIOUS
<1>2. Types'
  BY <1>1 DEF Types
<1>3. Phases' /\ Progress'
  BY DEF Phases, Progress, AsFound, Here
<1>4. Home' /\ Cleaned' /\ StopRestores'
  BY <1>1, FirstIsEgress DEF Home, Cleaned, StopRestores, AsFound, FirstEgress
<1> QED
  BY <1>2, <1>3, <1>4

-----------------------------------------------------------------------------
(* Enable.                                                                 *)

\* Enable takes the lock and notes interface and ip_forward; a value that could
\* not be read counts as a failure.
LEMMA EnableBeginStep ==
    ASSUME NatInv, proc = "up", start = "nat", start' = "enable", enableBegin,
           UNCHANGED << history, stop, cancelled >>
    PROVE  NatInv'
<1> USE DEF NatInv, enableBegin, history
<1>1. PICK old \in {ipForward, 0} :
         /\ nat' = [active |-> FALSE, egressIf |-> egress, oldForward |-> old]
         /\ IF old = ipForward THEN UNCHANGED << failures, failed >> ELSE FailsQuietly
  OBVIOUS
<1>2. old \in 0 .. 1 /\ failed' \in BOOLEAN /\ (~failed' => ~failed /\ old = ipForward)
  <2>1. CASE old = ipForward
    BY <2>1, <1>1 DEF Types
  <2>2. CASE old # ipForward
    <3>1. failed' = TRUE
      BY <2>2, <1>1, Zenon DEF FailsQuietly
    <3>2. failed' \in BOOLEAN /\ failed'
      BY <3>1, Zenon
    <3> QED
      BY <3>2, <2>2, <1>1
  <2> QED
    BY <2>1, <2>2
<1>3. /\ nat'.active = FALSE /\ nat'.egressIf = egress /\ nat'.oldForward = old
      /\ nat' \in [active : BOOLEAN, egressIf : Egress \cup {NoIf}, oldForward : 0 .. 1]
  BY <1>1, <1>2 DEF Types
<1>4. Types'
  BY <1>2, <1>3 DEF Types
<1>5. Phases'
  BY <1>3 DEF Types, Phases, NotStarted, Enabled
<1>6. Progress'
  BY <1>2, <1>3 DEF Types, Phases, Progress, AsFound, NotStarted, Kinds
<1>7. Home'
  BY <1>3 DEF Home
<1>8. Cleaned' /\ StopRestores'
  BY DEF Phases, Cleaned, StopRestores, Enabled
<1> QED
  BY <1>4, <1>5, <1>6, <1>7, <1>8

\* ip_forward is switched on.
LEMMA EnableForwardStep ==
    ASSUME NatInv, proc = "up", start = "enable", enableForward,
           UNCHANGED << history, start, stop, cancelled >>
    PROVE  NatInv'
<1> USE DEF NatInv, enableForward, history
<1>1. Types'
  BY DEF Types
<1>2. Phases'
  BY DEF Types, Phases, NotStarted, Enabled
<1>3. Progress'
  BY DEF Types, Phases, Progress, Here, Kinds
<1>4. Home' /\ Cleaned' /\ StopRestores'
  BY DEF Phases, Home, Cleaned, StopRestores, Enabled
<1> QED
  BY <1>1, <1>2, <1>3, <1>4

\* A rule is added unless it is there; the last one makes the state active.
LEMMA EnableRuleStep ==
    ASSUME NatInv, proc = "up", start = "enable", enableRule,
           start' = IF natStep = 5 THEN "tcp" ELSE start,
           UNCHANGED << history, stop, cancelled >>
    PROVE  NatInv'
<1> USE DEF NatInv, enableRule, history
<1> DEFINE k == natStep - 1
           r == Rule(k, nat.egressIf)
<1>1. natStep \in 2 .. 5 /\ k \in Kinds /\ nat.egressIf \in Egress /\ ~nat.active
  BY DEF Types, Phases, Kinds
<1>2. r \in Rules
  BY <1>1, RuleIsRule
<1>3. /\ rules' \in [Rules -> 0 .. 1] /\ rules'[r] = 1
      /\ \A s \in Rules : s # r => rules'[s] = rules[s]
  BY <1>2 DEF Types, ensureIptablesRule
<1>4. /\ nat' \in [active : BOOLEAN, egressIf : Egress \cup {NoIf}, oldForward : 0 .. 1]
      /\ nat'.egressIf = nat.egressIf /\ nat'.oldForward = nat.oldForward
      /\ nat'.active = (natStep = 5)
  BY DEF Types
<1>5. Types'
  BY <1>1, <1>3, <1>4 DEF Types, Enabled
<1>6. Phases'
  BY <1>1, <1>4 DEF Types, Phases, NotStarted, Enabled, BeforeNat, AfterNat
<1>7. Progress'
  <2> SUFFICES ASSUME ~failed PROVE Progress'
    BY DEF Progress
  <2>1. \A kind \in Kinds : kind < natStep => rules'[Rule(kind, nat.egressIf)] = 1
    <3> SUFFICES ASSUME NEW kind \in Kinds, kind < natStep
                 PROVE  rules'[Rule(kind, nat.egressIf)] = 1
      OBVIOUS
    <3>1. CASE kind = k
      BY <3>1, <1>3
    <3>2. CASE kind # k
      <4>1. kind < natStep - 1
        BY <3>2, <1>1 DEF Kinds
      <4>2. rules[Rule(kind, nat.egressIf)] = 1
        BY <4>1 DEF Progress
      <4>3. Rule(kind, nat.egressIf) \in Rules /\ Rule(kind, nat.egressIf) # r
        BY <3>2, <1>1, RuleIsRule, RuleInjective
      <4> QED
        BY <4>2, <4>3, <1>3
    <3> QED
      BY <3>1, <3>2
  <2>2. \A s \in Rules : rules'[s] <= found.rules[s] \/ Here(s)
    <3>1. Here(r)
      BY <1>1 DEF Here
    <3> QED
      BY <3>1, <1>3 DEF Progress
  <2>3. \A s : Here(s)' <=> Here(s)
    BY <1>4 DEF Here
  <2>4. ipForward = 1 /\ nat.oldForward = found.ipForward /\ stop # "disable"
    BY <1>1 DEF Progress, Phases, Types
  <2> QED
    BY <2>1, <2>2, <2>3, <2>4, <1>1, <1>4 DEF Progress, Kinds
<1>8. Home'
  <2> SUFFICES ASSUME egress = FirstEgress PROVE Home'
    BY DEF Home
  <2>1. nat.egressIf = FirstEgress
    BY <1>1, EgressAssumption DEF Home
  <2> QED
    BY <2>1, <1>1, <1>3, <1>4 DEF Home
<1>9. Cleaned' /\ StopRestores'
  BY DEF Phases, Cleaned, StopRestores, Enabled
<1> QED
  BY <1>5, <1>6, <1>7, <1>8, <1>9

\* Enable fails; what it has added stays.
LEMMA EnableFailsStep ==
    ASSUME NatInv, proc = "up", start \in {"nat", "enable"}, enableFails, start' = "fatal",
           UNCHANGED << history, stop, cancelled >>
    PROVE  NatInv'
<1> USE DEF NatInv, enableFails, history
<1>1. /\ nat' \in [active : BOOLEAN, egressIf : Egress \cup {NoIf}, oldForward : 0 .. 1]
      /\ ~nat'.active /\ nat'.egressIf = NoIf /\ stop # "disable"
  BY DEF NoNat, Phases, Types, NotStarted
<1>2. Types'
  BY <1>1 DEF Types
<1>3. Phases'
  BY <1>1 DEF Types, Phases, NotStarted, Enabled
<1>4. Progress'
  BY <1>1 DEF Progress
<1>5. Home'
  BY <1>1 DEF Home
<1>6. Cleaned' /\ StopRestores'
  BY DEF Phases, Cleaned, StopRestores, Enabled
<1> QED
  BY <1>2, <1>3, <1>4, <1>5, <1>6

-----------------------------------------------------------------------------
(* Disable.                                                                *)

\* Disable takes the lock: from here on the rules may go.
LEMMA DisableBeginStep ==
    ASSUME NatInv, proc = "up", stop = "nat", stop' = "disable", disableBegin,
           UNCHANGED << history, start, cancelled >>
    PROVE  NatInv'
<1> USE DEF NatInv, disableBegin, history
<1>1. Types'
  BY DEF Types
<1>2. Phases'
  BY DEF Types, Phases, NotStarted, Enabled, BeforeNat, AfterNat
<1>3. Progress'
  BY DEF Types, Phases, Progress, Here, Kinds, Enabled
<1>4. Home' /\ Cleaned' /\ StopRestores'
  BY DEF Home, Cleaned, StopRestores, AfterNat
<1> QED
  BY <1>1, <1>2, <1>3, <1>4

\* A command that fails quietly settles everything that is said of runs
\* without such a failure.
LEMMA Failed == FailsQuietly => failed' \in BOOLEAN /\ failed'
  BY Zenon DEF FailsQuietly

\* A rule is deleted, or stays because the command fails.
LEMMA DisableRuleStep ==
    ASSUME NatInv, proc = "up", stop = "disable", disableRule,
           UNCHANGED << history, start, stop, cancelled >>
    PROVE  NatInv'
<1> USE DEF NatInv, disableRule, history
<1> DEFINE k == 5 - natStep
           r == Rule(k, nat.egressIf)
<1>1. /\ natStep \in 1 .. 4 /\ k \in Kinds /\ nat.egressIf \in Egress /\ nat.active
      /\ start \in Enabled
  BY DEF Types, Phases, Kinds
<1>2. r \in Rules
  BY <1>1, RuleIsRule
<1>3. /\ rules' \in [Rules -> 0 .. 1] /\ failed' \in BOOLEAN
      /\ \A s \in Rules : rules'[s] <= rules[s] /\ (s # r => rules'[s] = rules[s])
      /\ ~failed' => ~failed /\ rules'[r] = 0
  <2>1. CASE deleteIptablesRule(r) /\ UNCHANGED << failures, failed >>
    BY <2>1, <1>2 DEF Types, deleteIptablesRule
  <2>2. CASE FailsQuietly /\ UNCHANGED rules
    BY <2>2, Failed DEF Types
  <2> QED
    BY <2>1, <2>2
<1>4. Types'
  BY <1>1, <1>3 DEF Types
<1>5. Phases'
  BY <1>1 DEF Types, Phases, NotStarted, Enabled, BeforeNat, AfterNat
<1>6. Progress'
  <2> SUFFICES ASSUME ~failed' PROVE Progress'
    BY DEF Progress
  <2>1. \A kind \in Kinds : kind > 5 - natStep' => rules'[Rule(kind, nat.egressIf)] = 0
    <3> SUFFICES ASSUME NEW kind \in Kinds, kind > 4 - natStep
                 PROVE  rules'[Rule(kind, nat.egressIf)] = 0
      BY <1>1
    <3>1. CASE kind = k
      BY <3>1, <1>3
    <3>2. CASE kind # k
      <4>1. kind > 5 - natStep
        BY <3>2, <1>1 DEF Kinds
      <4>2. rules[Rule(kind, nat.egressIf)] = 0
        BY <4>1, <1>3 DEF Progress
      <4>3. Rule(kind, nat.egressIf) \in Rules /\ Rule(kind, nat.egressIf) # r
        BY <3>2, <1>1, RuleIsRule, RuleInjective
      <4> QED
        BY <4>2, <4>3, <1>3
    <3> QED
      BY <3>1, <3>2
  <2>2. \A s \in Rules : rules'[s] <= found.rules[s] \/ Here(s)'
    <3> SUFFICES ASSUME NEW s \in Rules, ~Here(s) PROVE rules'[s] <= found.rules[s]
      BY DEF Here
    <3>1. rules[s] <= found.rules[s]
      BY <1>1, <1>3 DEF Progress
    <3>2. rules'[s] \in 0 .. 1 /\ rules[s] \in 0 .. 1 /\ found.rules[s] \in 0 .. 1
      BY <1>3 DEF Types
    <3> QED
      BY <3>1, <3>2, <1>3
  <2>3. nat.oldForward = found.ipForward
    BY <1>1, <1>3 DEF Progress
  <2> QED
    BY <2>1, <2>2, <2>3, <1>1 DEF Progress, Enabled
<1>7. Home'
  <2> SUFFICES ASSUME egress = FirstEgress, NEW s \in Rules, rules'[s] # 0
               PROVE  \E kind \in Kinds : s = Rule(kind, FirstEgress)
    BY DEF Home
  <2>1. rules'[s] \in 0 .. 1 /\ rules[s] \in 0 .. 1 /\ rules'[s] <= rules[s]
    BY <1>3 DEF Types
  <2> QED
    BY <2>1 DEF Home
<1>8. Cleaned' /\ StopRestores'
  BY DEF Cleaned, StopRestores, AfterNat
<1> QED
  BY <1>4, <1>5, <1>6, <1>7, <1>8

\* ip_forward is put back and the state is inactive: all rules are gone.
LEMMA DisableForwardStep ==
    ASSUME NatInv, proc = "up", stop = "disable", stop' = "tun", disableForward,
           UNCHANGED << history, start, cancelled >>
    PROVE  NatInv'
<1> USE DEF NatInv, disableForward, history
<1>1. natStep = 5 /\ nat.active /\ nat.egressIf \in Egress /\ start \in Enabled
  BY DEF Types, Phases
<1>2. /\ ipForward' \in 0 .. 1 /\ failed' \in BOOLEAN
      /\ ~failed' => ~failed /\ ipForward' = nat.oldForward
  <2>1. CASE ipForward' = nat.oldForward /\ UNCHANGED << failures, failed >>
    BY <2>1 DEF Types
  <2>2. CASE FailsQuietly /\ UNCHANGED ipForward
    BY <2>2, Failed DEF Types
  <2> QED
    BY <2>1, <2>2
<1>3. /\ nat' \in [active : BOOLEAN, egressIf : Egress \cup {NoIf}, oldForward : 0 .. 1]
      /\ ~nat'.active /\ nat'.egressIf = NoIf
  BY DEF NoNat
<1>4. Types'
  BY <1>2, <1>3 DEF Types, AfterNat
<1>5. Phases'
  BY <1>1, <1>3 DEF Types, Phases, NotStarted, Enabled, BeforeNat, AfterNat
<1>6. ~failed' => /\ nat.oldForward = found.ipForward
                  /\ \A s \in Rules : rules[s] <= found.rules[s] \/ Here(s)
                  /\ \A kind \in Kinds : rules[Rule(kind, nat.egressIf)] = 0
  BY <1>1, <1>2 DEF Progress, Kinds
<1>7. ~failed' => \A s \in Rules : Here(s) => rules[s] = 0
  BY <1>6 DEF Here
<1>8. Progress'
  <2> SUFFICES ASSUME ~failed' PROVE AsFound'
    BY <1>1, <1>3 DEF Progress, Enabled
  <2>1. \A s \in Rules : rules[s] <= found.rules[s]
    <3> SUFFICES ASSUME NEW s \in Rules PROVE rules[s] <= found.rules[s]
      OBVIOUS
    <3>1. found.rules[s] \in 0 .. 1
      BY DEF Types
    <3> QED
      BY <3>1, <1>6, <1>7
  <2> QED
    BY <2>1, <1>2, <1>6 DEF AsFound
<1>9. Home'
  BY <1>3 DEF Home
<1>10. Cleaned'
  <2> SUFFICES ASSUME ~failed', egress = FirstEgress, NEW s \in Rules PROVE rules[s] = 0
    BY DEF Cleaned
  <2>1. nat.egressIf = FirstEgress
    BY <1>1, EgressAssumption DEF Home
  <2> QED
    BY <2>1, <1>6 DEF Home
<1>11. StopRestores'
  BY DEF StopRestores
<1> QED
  BY <1>4, <1>5, <1>8, <1>9, <1>10, <1>11

-----------------------------------------------------------------------------
(* The theorems.                                                           *)

\* Every step keeps the invariant.
LEMMA NatStep == NatInv /\ [Next]_vars => NatInv'
<1> SUFFICES ASSUME NatInv, [Next]_vars PROVE NatInv'
  OBVIOUS
<1>1. CASE runServer
  BY <1>1, RunStep
<1>2. CASE Killed \/ logFatalf
  BY <1>2, EndStep DEF Killed, logFatalf
<1>3. CASE waitReturns
  BY <1>3, EndStep DEF waitReturns
<1>4. CASE initGatewayTun \/ initTCP \/ initManagement \/ startLoops \/ Listen \/ AcceptFails
  BY <1>4, StartOnStep DEF initGatewayTun, initTCP, initManagement, startLoops, Listen,
     AcceptFails, StartGoto, Enabled
<1>5. CASE EnableServerGatewayNAT \/ EnableServerGatewayNATFails
  BY <1>5, EnableBeginStep, EnableForwardStep, EnableRuleStep, EnableFailsStep
     DEF EnableServerGatewayNAT, EnableServerGatewayNATFails
<1>6. CASE Stop \/ Close \/ shutdownManagement \/ closePeers \/ closeTun
  <2>1. cancelled \in BOOLEAN
    BY DEF NatInv, Types
  <2> QED
    BY <1>6, <2>1, StopOnStep DEF Stop, Close, shutdownManagement, closePeers, closeTun,
       StopGoto, BeforeNat
<1>7. CASE stopCancel
  <2>1. cancelled' \in BOOLEAN /\ (cancelled' => start \in Enabled \ {"tcp"})
    <3> DEFINE Made == start \in {"management", "loops", "listen", "accept", "returned"}
    <3>1. cancelled' = Made
      BY <1>7 DEF stopCancel
    <3>2. Made => start \in Enabled \ {"tcp"}
      BY DEF Enabled
    <3>3. Made \in BOOLEAN
      OBVIOUS
    <3> HIDE DEF Made
    <3> QED
      BY <3>1, <3>2, <3>3, Zenon
  <2> QED
    BY <1>7, <2>1, StopOnStep DEF stopCancel, StopGoto, BeforeNat
<1>8. CASE DisableServerGatewayNAT
  <2>1. cancelled \in BOOLEAN
    BY DEF NatInv, Types
  <2> QED
    BY <1>8, <2>1, StopOnStep, DisableBeginStep, DisableRuleStep, DisableForwardStep
       DEF DisableServerGatewayNAT
<1>9. CASE closeOnDone \/ managementEnds \/ tunFails \/ \E l \in {"sweep", "tun"} : loopEnds(l)
  BY <1>9, OtherStep DEF closeOnDone, managementEnds, tunFails, loopEnds
<1>10. CASE \E c \in Conns : \/ Accept(c) \/ handshakeFails(c) \/ onTCPConnect(c)
                              \/ onTCPDisconnect(c) \/ peerSendLoopEnds(c)
  BY <1>10, OtherStep DEF Accept, handshakeFails, onTCPConnect, onTCPDisconnect,
     peerSendLoopEnds, ConnGoto
<1>11. CASE EgressChanges /\ UNCHANGED << history, memory >>
  BY <1>11, EgressStep
<1>12. CASE UNCHANGED vars
  BY <1>12, OtherStep DEF vars, memory
<1> QED
  BY <1>1, <1>2, <1>3, <1>4, <1>5, <1>6, <1>7, <1>8, <1>9, <1>10, <1>11, <1>12
     DEF Next, StartStep, StopStep

\* So it holds in every state.
LEMMA NatAlways == Spec => []NatInv
  BY NatInit, NatStep, PTL DEF Spec

\* Outside Enable and Disable, serverNATState and the machine agree, whichever
\* processes crashed before and wherever this one is, unless its Enable or,
\* unnoticed, one of its commands has failed (server_gateway.go).
THEOREM NatTruthful == Spec => []NatStateTruthful
<1>1. NatInv => NatStateTruthful
  BY DEF NatInv, Progress, NatStateTruthful
<1> QED
  BY <1>1, NatAlways, PTL

\* A Stop that found the context Start had made leaves the machine as the
\* process found it (Server.Stop, DisableServerGatewayNAT).
THEOREM StopRestoresMachine == Spec => []StopRestores
<1>1. NatInv => StopRestores
  BY DEF NatInv
<1> QED
  BY <1>1, NatAlways, PTL
=============================================================================
