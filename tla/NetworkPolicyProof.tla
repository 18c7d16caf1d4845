------------------------- MODULE NetworkPolicyProof -------------------------
(***************************************************************************)
(* Proofs about NetworkPolicy: the rules the parser builds decide as the   *)
(* policy is meant, and no call sequence gets round them, for every policy *)
(* and any number of sockets and peers.                                    *)
(***************************************************************************)
EXTENDS NetworkPolicy, Counting, TLAPS

(* Min of the community modules is the least element.                       *)
LEMMA MinLemma ==
    ASSUME NEW T \in SUBSET Nat, T # {}
    PROVE  Min(T) \in T /\ \A y \in T : Min(T) <= y
  <1>1. \E x \in T : \A y \in T : x <= y
    BY LeastNumber
  <1> QED BY <1>1 DEF Min

-----------------------------------------------------------------------------
(* parse_network_policy_rules against the meaning of a policy.              *)

(* No port text stands for a negative number, which the table would take    *)
(* for "any port".                                                          *)
NoNegativePort == \A text \in DOMAIN Numbers : Numbers[text] \in Nat

Tidy(policy) ==
    /\ Len(policy) \in Nat /\ DOMAIN policy = 1..Len(policy)
    /\ Len(policy) <= MaxRules /\ \A i \in DOMAIN policy : policy[i].colon

(* Every entry with a host of a policy that fits has its rule.              *)
LEMMA RulesLemma ==
    ASSUME NEW policy, Tidy(policy)
    PROVE  DOMAIN parse_network_policy_rules(policy) = {i \in DOMAIN policy : policy[i].host # ""}
  <1>1. ASSUME NEW i \in DOMAIN policy, policy[i].host # ""
        PROVE  Kept(policy, i) /\ Fits(policy, i)
    <2>1. i \in 1..Len(policy) /\ Len(policy) \in Nat /\ i - 1 \in Nat
      BY DEF Tidy
    <2>2. IsFiniteSet(1..(i - 1)) /\ Cardinality(1..(i - 1)) = i - 1
      <3>1. 1 \in Int /\ i - 1 \in Int /\ (1 > i - 1 <=> i - 1 = 0) /\ (i - 1) - 1 + 1 = i - 1
        BY <2>1
      <3> QED BY <2>1, <3>1, FS_Interval
    <2>3. {j \in 1..(i - 1) : Kept(policy, j)} \in SUBSET (1..(i - 1))
      OBVIOUS
    <2>4. /\ Cardinality({j \in 1..(i - 1) : Kept(policy, j)}) <= i - 1
          /\ Cardinality({j \in 1..(i - 1) : Kept(policy, j)}) \in Nat
      BY <2>2, <2>3, FS_Subset, FS_CardinalityType
    <2>5. Fits(policy, i)
      BY <2>1, <2>4, NetworkAssumption DEF Fits, Tidy
    <2>6. Kept(policy, i)
      BY <1>1 DEF Kept, Tidy
    <2> QED BY <2>5, <2>6
  <1>2. ASSUME NEW i \in DOMAIN policy, Kept(policy, i) PROVE policy[i].host # ""
    BY <1>2 DEF Kept
  <1> QED BY <1>1, <1>2 DEF parse_network_policy_rules

(* A port text gives a rule that covers the port it stands for.             *)
LEMMA PortLemma ==
    ASSUME NoNegativePort, NEW text, NEW port \in Nat \ {0}
    PROVE  PortOf(text) < 0 \/ PortOf(text) = port
              <=> text \in {"", "*"} \cup {n \in DOMAIN Numbers : Numbers[n] = port}
  <1>1. CASE text \in {"", "*"}
    <2>1. PortOf(text) = -1
      BY <1>1 DEF PortOf
    <2>2. PortOf(text) < 0
      BY <2>1
    <2> QED BY <1>1, <2>2
  <1>2. CASE text \notin {"", "*"} /\ text \in DOMAIN Numbers
    <2>1. PortOf(text) = Numbers[text]
      BY <1>2 DEF PortOf
    <2>2. Numbers[text] \in Nat
      BY <1>2 DEF NoNegativePort
    <2>3. PortOf(text) < 0 \/ PortOf(text) = port <=> Numbers[text] = port
      BY <2>1, <2>2
    <2> QED BY <1>2, <2>3
  <1>3. CASE text \notin {"", "*"} /\ text \notin DOMAIN Numbers
    <2>1. PortOf(text) = 0
      BY <1>3 DEF PortOf
    <2>2. ~(PortOf(text) < 0 \/ PortOf(text) = port)
      BY <2>1
    <2> QED BY <1>3, <2>2
  <1> QED BY <1>1, <1>2, <1>3

(* A rule matches a peer exactly if its entry names it, and blocks if the   *)
(* entry says so.                                                           *)
LEMMA RuleLemma ==
    ASSUME NEW policy, Tidy(policy), NoNegativePort, NEW p \in Peers,
           NEW i \in DOMAIN policy
    PROVE  /\ Matches(RuleOf(policy, i), p.ip, p.port) <=> Names(policy[i], p)
           /\ RuleOf(policy, i).block <=> policy[i].action \in {"block", "deny"}
  <1>0. PICK text : text = policy[i].port
    OBVIOUS
  <1>1. p.port \in Nat \ {0}
    BY PolicyAssumption
  <1>2. /\ RuleOf(policy, i).ip = policy[i].host /\ RuleOf(policy, i).port = PortOf(text)
        /\ RuleOf(policy, i).block =
              (policy[i].action \in {"block", "deny"} /\ (i > 1 => policy[i - 1].colon))
    BY <1>0, Zenon DEF RuleOf
  <1>3. PortOf(text) < 0 \/ PortOf(text) = p.port
            <=> text \in {"", "*"} \cup {n \in DOMAIN Numbers : Numbers[n] = p.port}
    BY <1>1, PortLemma
  <1>4. i > 1 => policy[i - 1].colon
    <2>1. i > 1 => i - 1 \in DOMAIN policy
      BY DEF Tidy
    <2> QED BY <2>1 DEF Tidy
  <1>5. Matches(RuleOf(policy, i), p.ip, p.port) <=> Names(policy[i], p)
    BY <1>0, <1>2, <1>3, Zenon DEF Matches, Names
  <1> QED BY <1>2, <1>4, <1>5, Zenon

(* network_policy_blocks_peer decides as the author meant.                  *)
LEMMA VerdictLemma ==
    ASSUME NoNegativePort, WellFormed, DR_NETWORK_POLICY \in Policies, NEW p \in Peers,
           g_network_rules = parse_network_policy_rules(DR_NETWORK_POLICY)
    PROVE  network_policy_blocks_peer(p.ip, p.port) <=> MeantToBlock(p)
  <1>0. PICK policy : policy = DR_NETWORK_POLICY
    OBVIOUS
  <1>1. Tidy(policy)
    BY <1>0, PolicyAssumption DEF WellFormed, Tidy
  <1>2. /\ DOMAIN g_network_rules = {i \in DOMAIN policy : policy[i].host # ""}
        /\ \A i \in DOMAIN g_network_rules : g_network_rules[i] = RuleOf(policy, i)
    <2>1. DOMAIN g_network_rules = {i \in DOMAIN policy : policy[i].host # ""}
      BY <1>0, <1>1, RulesLemma
    <2>2. \A i \in DOMAIN g_network_rules : g_network_rules[i] = RuleOf(policy, i)
      BY <1>0 DEF parse_network_policy_rules
    <2> QED BY <2>1, <2>2
  <1> DEFINE hits == {i \in DOMAIN g_network_rules : Matches(g_network_rules[i], p.ip, p.port)}
             naming == {i \in DOMAIN policy : Names(policy[i], p)}
  <1>3. hits = naming
    <2>0. p.ip # ""
      BY PolicyAssumption
    <2>1. ASSUME NEW i \in DOMAIN policy, Names(policy[i], p) PROVE policy[i].host # ""
      BY <2>0, <2>1 DEF Names
    <2>2. ASSUME NEW i \in DOMAIN g_network_rules
          PROVE  Matches(g_network_rules[i], p.ip, p.port) <=> Names(policy[i], p)
      <3>1. i \in DOMAIN policy /\ g_network_rules[i] = RuleOf(policy, i)
        BY <1>2
      <3> QED BY <1>1, <3>1, RuleLemma
    <2> QED BY <1>2, <2>1, <2>2
  <1>4. CASE hits = {}
    BY <1>0, <1>3, <1>4 DEF network_policy_blocks_peer, MeantToBlock
  <1>5. CASE hits # {}
    <2>1. hits \in SUBSET Nat
      <3>1. DOMAIN policy \subseteq Nat
        BY <1>1 DEF Tidy
      <3> QED BY <1>2, <3>1
    <2>2. PICK m : m = Min(hits)
      OBVIOUS
    <2>3. m \in hits
      BY <1>5, <2>1, <2>2, MinLemma
    <2>4. /\ network_policy_blocks_peer(p.ip, p.port) = g_network_rules[m].block
          /\ MeantToBlock(p) = (policy[m].action \in {"block", "deny"})
      BY <1>0, <1>3, <1>5, <2>2 DEF network_policy_blocks_peer, MeantToBlock
    <2>5. m \in DOMAIN policy /\ g_network_rules[m] = RuleOf(policy, m)
      BY <1>2, <2>3
    <2> QED BY <1>1, <2>4, <2>5, RuleLemma
  <1> QED BY <1>4, <1>5

-----------------------------------------------------------------------------
(* The inductive invariant: what was judged and passed earlier - the peers  *)
(* of the connected sockets as well as those already reached - is allowed.  *)

TypeInv ==
    /\ DR_NETWORK_POLICY \in Policies
    /\ g_network_rules = parse_network_policy_rules(DR_NETWORK_POLICY)
    /\ unchecked \in BOOLEAN
    /\ peer \in [Sockets -> SUBSET Peers] /\ reached \subseteq Peers

Judged == WellFormed /\ (network_policy_blocks_unknown_peer \/ ~unchecked)

PeersAllowed ==
    /\ \A p \in reached : ~MeantToBlock(p)
    /\ \A s \in Sockets : \A p \in peer[s] : ~MeantToBlock(p)

(* The settings decide, and they are fixed.                                 *)
LEMMA SettingsLemma ==
    ASSUME Settings
    PROVE  /\ WellFormed' <=> WellFormed
           /\ network_policy_blocks_unknown_peer' <=> network_policy_blocks_unknown_peer
           /\ \A p : MeantToBlock(p)' <=> MeantToBlock(p)
  <1>1. WellFormed' <=> WellFormed
    BY DEF Settings, WellFormed
  <1>2. network_policy_blocks_unknown_peer' <=> network_policy_blocks_unknown_peer
    BY Zenon DEF Settings, network_policy_blocks_unknown_peer, network_policy_blocks_peer
  <1>3. ASSUME NEW p PROVE MeantToBlock(p)' <=> MeantToBlock(p)
    BY Zenon DEF Settings, MeantToBlock
  <1> QED BY <1>1, <1>2, <1>3

(* An address that passes the filter leads to no blocked peer.              *)
LEMMA PassLemma ==
    ASSUME NoNegativePort, TypeInv, WellFormed, NEW a \in Addresses, ~Blocks(a),
           network_policy_blocks_unknown_peer \/ a.family # "inet6",
           NEW p \in To(a)
    PROVE  p \in Peers /\ ~MeantToBlock(p)
  <1>1. CASE a.family = "none"
    BY <1>1 DEF To
  <1>2. CASE a.family = "inet6"
    BY <1>2 DEF Blocks, read_ipv4_peer
  <1>3. CASE a.family = "inet"
    <2>1. a.to \in Peers /\ p = a.to
      BY <1>3 DEF Addresses, To
    <2>2. ~network_policy_blocks_peer(a.to.ip, a.to.port)
      BY <1>3 DEF Blocks, read_ipv4_peer
    <2> QED BY <2>1, <2>2, VerdictLemma DEF TypeInv
  <1>4. a.family \in {"inet", "inet6", "none"}
    BY DEF Addresses
  <1> QED BY <1>1, <1>2, <1>3, <1>4

(* An address leads to a peer or to nobody.                                 *)
LEMMA ToLemma ==
    ASSUME NEW a \in Addresses
    PROVE  To(a) \subseteq Peers
  <1>1. CASE a \in [family : {"inet", "inet6"}, to : Peers]
    BY <1>1 DEF To
  <1>2. CASE a \in [family : {"none"}]
    BY <1>2 DEF To
  <1> QED BY <1>1, <1>2 DEF Addresses

(* Nothing was reached and nothing is connected at the start.               *)
LEMMA InitAllowed == Init => TypeInv /\ (Judged => PeersAllowed)
  <1> SUFFICES ASSUME Init PROVE TypeInv /\ PeersAllowed
    OBVIOUS
  <1>1. TypeInv
    BY DEF Init, TypeInv
  <1>2. PeersAllowed
    BY DEF Init, PeersAllowed
  <1> QED BY <1>1, <1>2

(* A call whose address was judged: the peers it may add are allowed.       *)
LEMMA AddedLemma ==
    ASSUME TypeInv, Judged => PeersAllowed, Settings,
           unchecked' \in BOOLEAN, unchecked => unchecked',
           NEW new \in SUBSET Peers, Judged' => \A p \in new : ~MeantToBlock(p),
           reached' \subseteq reached \cup new \cup UNION {peer[s] : s \in Sockets},
           peer' \in [Sockets -> SUBSET Peers],
           \A s \in Sockets : peer'[s] \subseteq peer[s] \cup new
    PROVE  TypeInv' /\ (Judged => PeersAllowed)'
  <1>1. TypeInv'
    <2>1. reached' \subseteq Peers
      BY DEF TypeInv
    <2> QED BY <2>1 DEF TypeInv, Settings
  <1>2. ASSUME Judged' PROVE PeersAllowed'
    <2>1. Judged
      BY <1>2, SettingsLemma DEF Judged
    <2>2. PeersAllowed
      BY <2>1
    <2>3. \A p \in new : ~MeantToBlock(p)
      BY <1>2
    <2>4. ASSUME NEW p \in reached' PROVE ~MeantToBlock(p)
      BY <2>2, <2>3 DEF PeersAllowed
    <2>5. ASSUME NEW s \in Sockets, NEW p \in peer'[s] PROVE ~MeantToBlock(p)
      BY <2>2, <2>3 DEF PeersAllowed
    <2>6. \A p : MeantToBlock(p)' <=> MeantToBlock(p)
      BY SettingsLemma
    <2> QED BY <2>4, <2>5, <2>6 DEF PeersAllowed
  <1> QED BY <1>1, <1>2

(* Every call keeps the invariant.                                          *)
LEMMA NextAllowed ==
    ASSUME NoNegativePort, "rewrites" \notin AppMay,
           TypeInv, Judged => PeersAllowed, [Next]_vars
    PROVE  TypeInv' /\ (Judged => PeersAllowed)'
  <1> USE DEF TypeInv
  <1>0. ASSUME Settings, UNCHANGED unchecked, peer' \in [Sockets -> SUBSET Peers],
               \A s \in Sockets : peer'[s] \subseteq peer[s],
               reached' \subseteq reached \cup UNION {peer[s] : s \in Sockets}
        PROVE  TypeInv' /\ (Judged => PeersAllowed)'
    <2>1. PICK none : none = {}
      OBVIOUS
    <2>2. /\ none \in SUBSET Peers /\ \A p \in none : ~MeantToBlock(p)
          /\ unchecked' \in BOOLEAN /\ (unchecked => unchecked')
          /\ reached' \subseteq reached \cup none \cup UNION {peer[s] : s \in Sockets}
          /\ \A s \in Sockets : peer'[s] \subseteq peer[s] \cup none
      BY <1>0, <2>1
    <2> QED BY <1>0, <2>2, AddedLemma
  <1>1. CASE UNCHANGED vars
    <2>1. Settings /\ UNCHANGED <<unchecked, peer, reached>>
      BY <1>1 DEF vars, Settings
    <2> QED BY <2>1, <1>0
  <1>2. ASSUME NEW s \in Sockets, PreSocket(s) \/ PreWrite(s) \/ PreClose(s)
        PROVE  TypeInv' /\ (Judged => PeersAllowed)'
    <2>1. CASE PreSocket(s)
      BY <1>0, <2>1 DEF PreSocket
    <2>2. CASE PreWrite(s)
      <3>1. Settings /\ UNCHANGED <<unchecked, peer>> /\ reached' = reached \cup peer[s]
        BY <2>2 DEF PreWrite
      <3> QED BY <1>0, <3>1
    <2>3. CASE PreClose(s)
      <3>1. Settings /\ UNCHANGED <<unchecked, reached>> /\ peer' = [peer EXCEPT ![s] = {}]
        BY <2>3 DEF PreClose
      <3>2. peer' \in [Sockets -> SUBSET Peers] /\ \A t \in Sockets : peer'[t] \subseteq peer[t]
        BY <3>1
      <3> QED BY <1>0, <3>1, <3>2
    <2> QED BY <1>2, <2>1, <2>2, <2>3
  <1>3. ASSUME NEW s \in Sockets, NEW a \in Addresses,
               PreBind(s, a) \/ PreConnect(s, a, a) \/ PreSendto(s, a, a)
        PROVE  TypeInv' /\ (Judged => PeersAllowed)'
    <2>1. Settings /\ ~Blocks(a) /\ Pass(a)
      BY <1>3 DEF PreBind, PreConnect, PreSendto
    <2>2. unchecked' \in BOOLEAN /\ (unchecked => unchecked')
      BY <2>1 DEF Pass
    <2>3. To(a) \in SUBSET Peers
      BY ToLemma
    <2>4. ASSUME Judged', NEW p \in To(a) PROVE ~MeantToBlock(p)
      <3>1. WellFormed /\ (network_policy_blocks_unknown_peer \/ a.family # "inet6")
        BY <2>1, <2>4, SettingsLemma DEF Judged, Pass
      <3> QED BY <2>1, <3>1, PassLemma
    <2>5. CASE PreBind(s, a)
      BY <2>1, <2>2, <2>3, <2>4, <2>5, AddedLemma DEF PreBind
    <2>6. CASE PreConnect(s, a, a)
      BY <2>1, <2>2, <2>3, <2>4, <2>6, AddedLemma DEF PreConnect
    <2>7. CASE PreSendto(s, a, a)
      BY <2>1, <2>2, <2>3, <2>4, <2>7, AddedLemma DEF PreSendto
    <2> QED BY <1>3, <2>5, <2>6, <2>7
  <1>4. ASSUME NEW s \in Sockets, NEW p \in Peers, NEW new \in Sockets,
               PreSendmsg(s, p) \/ PreAccept(s, new, p)
        PROVE  TypeInv' /\ (Judged => PeersAllowed)'
    <2>1. Settings /\ ~network_policy_blocks_unknown_peer /\ unchecked' = TRUE
      BY <1>4 DEF PreSendmsg, PreAccept
    <2>2. ~Judged'
      BY <2>1, SettingsLemma DEF Judged
    <2>3. CASE PreSendmsg(s, p)
      BY <2>1, <2>2, <2>3, AddedLemma DEF PreSendmsg
    <2>4. CASE PreAccept(s, new, p)
      BY <2>1, <2>2, <2>4, AddedLemma DEF PreAccept
    <2> QED BY <1>4, <2>3, <2>4
  <1> QED BY <1>1, <1>2, <1>3, <1>4 DEF Next, UsedFor

(* Data goes to no peer the policy is meant to block, over any sequence of  *)
(* calls on any number of sockets and for every policy, if no other thread  *)
(* changes an address between the filter and the kernel and no port of the  *)
(* policy is negative: a policy that fits in g_network_rules is carried out.*)
THEOREM PolicyIsCarriedOut ==
    ASSUME "rewrites" \notin AppMay, NoNegativePort
    PROVE  Spec => []NoBlockedPeer
  <1>1. Init => TypeInv /\ (Judged => PeersAllowed)
    BY InitAllowed
  <1>2. TypeInv /\ (Judged => PeersAllowed) /\ [Next]_vars => (TypeInv /\ (Judged => PeersAllowed))'
    BY NextAllowed
  <1>3. TypeInv /\ (Judged => PeersAllowed) => NoBlockedPeer
    BY DEF Judged, PeersAllowed, NoBlockedPeer
  <1> QED BY <1>1, <1>2, <1>3, PTL DEF Spec
=============================================================================
