--------------------------- MODULE NetworkPolicy ---------------------------
(***************************************************************************)
(* The network policy of src/syscall_filter.c: DR_NETWORK_POLICY and the   *)
(* socket branches of event_pre_syscall.                                   *)
(*                                                                         *)
(* The filter decides call by call and keeps no record of sockets; the     *)
(* kernel does.  A decision about an address is made when a socket is      *)
(* connected, and the data follows in calls that carry no address.  The    *)
(* kernel reads the address again after the filter has.                    *)
(***************************************************************************)
EXTENDS Integers, Sequences, FiniteSets, FiniteSetsExt

CONSTANTS
    Sockets,      \* socket descriptors
    Peers,        \* remote ends, [ip, port]
    Policies,     \* values of DR_NETWORK_POLICY: sequences of entries
                  \* [colon, action, host, port]; colon: whether there is one
    Numbers,      \* the number a port text stands for
    MaxRules,     \* size of g_network_rules (32)
    AppMay        \* see AppWays

(* "rewrites": another thread changes an address while a call uses it.      *)
AppWays == {"rewrites"}

ASSUME NetworkAssumption == MaxRules \in Nat /\ AppMay \subseteq AppWays
ASSUME PolicyAssumption ==
    /\ \A policy \in Policies : Len(policy) \in Nat /\ DOMAIN policy = 1..Len(policy)
    /\ \A p \in Peers : p.ip # "" /\ p.port \in Nat \ {0}

(* What a call passes as an address: an IPv4 address, the same peer in      *)
(* another family (an IPv4-mapped one), or nothing that can be read.        *)
Addresses == [family : {"inet", "inet6"}, to : Peers] \cup [family : {"none"}]

VARIABLES
    DR_NETWORK_POLICY, g_network_rules, g_block_network,  \* fixed at start-up
    open, bound,   \* sockets that exist, sockets that have a local address
    peer,          \* per socket: the peer it is connected to, a set
    reached,       \* peers to which data went
    unchecked      \* some call passed whose peer the filter did not know

vars == <<DR_NETWORK_POLICY, g_network_rules, g_block_network, open, bound, peer, reached, unchecked>>

-----------------------------------------------------------------------------
(* parse_network_policy_rules.  An entry is action:host or action:host:port;*)
(* one without a colon is read as part of the next entry's action.  A word  *)
(* that is no number is port 0; every action but two allows.                *)
PortOf(text) ==
    IF text \in {"", "*"} THEN -1
    ELSE IF text \in DOMAIN Numbers THEN Numbers[text] ELSE 0

RuleOf(policy, i) ==
    [ block |-> policy[i].action \in {"block", "deny"} /\ (i > 1 => policy[i - 1].colon),
      ip    |-> policy[i].host,
      port  |-> PortOf(policy[i].port) ]

(* The table is filled in the order of the entries until it is full; a rule *)
(* is known here by the number of its entry.                                *)
Kept(policy, i) == policy[i].colon /\ policy[i].host # ""

Fits(policy, i) == Cardinality({j \in 1..(i - 1) : Kept(policy, j)}) < MaxRules

parse_network_policy_rules(policy) ==
    [i \in {n \in DOMAIN policy : Kept(policy, n) /\ Fits(policy, n)} |-> RuleOf(policy, i)]

(* network_policy_blocks_peer: the first rule that matches.                 *)
Matches(rule, ip, port) == rule.ip \in {"*", ip} /\ (rule.port < 0 \/ rule.port = port)

network_policy_blocks_peer(ip, port) ==
    LET hits == {i \in DOMAIN g_network_rules : Matches(g_network_rules[i], ip, port)}
    IN  IF hits = {} THEN g_block_network ELSE g_network_rules[Min(hits)].block

network_policy_blocks_unknown_peer == network_policy_blocks_peer("*", -1)

(* read_ipv4_peer, and the verdict on the address it did or did not read.   *)
read_ipv4_peer(a) == a.family = "inet"

Blocks(a) ==
    IF read_ipv4_peer(a) THEN network_policy_blocks_peer(a.to.ip, a.to.port)
                         ELSE network_policy_blocks_unknown_peer

-----------------------------------------------------------------------------
Init ==
    /\ DR_NETWORK_POLICY \in Policies /\ g_block_network \in BOOLEAN
    /\ g_network_rules = parse_network_policy_rules(DR_NETWORK_POLICY)
    /\ open = {} /\ bound = {} /\ reached = {} /\ unchecked = FALSE
    /\ peer = [s \in Sockets |-> {}]

Settings == UNCHANGED <<DR_NETWORK_POLICY, g_network_rules, g_block_network>>

(* The address the kernel uses when the filter has seen a, and its peer.    *)
UsedFor(a) == IF "rewrites" \in AppMay THEN Addresses ELSE {a}
To(a) == IF a.family = "none" THEN {} ELSE {a.to}

Pass(a) == unchecked' = (unchecked \/ a.family = "inet6")

(* socket, socketpair: refused only when there are no rules to ask later.   *)
PreSocket(s) ==
    /\ s \notin open
    /\ ~(g_block_network /\ DOMAIN g_network_rules = {})
    /\ open' = open \cup {s}
    /\ Settings /\ UNCHANGED <<bound, peer, reached, unchecked>>

(* connect; without an address it dissolves the connection.                 *)
PreConnect(s, a, used) ==
    /\ s \in open /\ ~Blocks(a)
    /\ peer' = [peer EXCEPT ![s] = To(used)]
    /\ Pass(a)
    /\ Settings /\ UNCHANGED <<open, bound, reached>>

(* bind: the local address is judged like a peer's.                         *)
PreBind(s, a) ==
    /\ s \in open /\ ~Blocks(a)
    /\ bound' = bound \cup {s}
    /\ Pass(a)
    /\ Settings /\ UNCHANGED <<open, peer, reached>>

(* sendto: to the address, or to the connected peer.  The first form does   *)
(* not ask when no address is passed or it cannot be read.                  *)
PreSendtoUnread(s, a, used) ==
    /\ s \in open /\ (read_ipv4_peer(a) => ~Blocks(a))
    /\ reached' = reached \cup (IF To(used) = {} THEN peer[s] ELSE To(used))
    /\ Pass(a)
    /\ Settings /\ UNCHANGED <<open, bound, peer>>

PreSendto(s, a, used) ==
    /\ s \in open /\ ~Blocks(a)
    /\ reached' = reached \cup (IF To(used) = {} THEN peer[s] ELSE To(used))
    /\ Pass(a)
    /\ Settings /\ UNCHANGED <<open, bound, peer>>

(* sendmsg, sendmmsg: the address is inside a structure and is not read.    *)
PreSendmsg(s, p) ==
    /\ s \in open /\ ~network_policy_blocks_unknown_peer
    /\ reached' = reached \cup {p}
    /\ unchecked' = TRUE
    /\ Settings /\ UNCHANGED <<open, bound, peer>>

(* listen, then accept: the new socket is connected to whoever called.      *)
PreAccept(s, new, p) ==
    /\ s \in bound /\ new \notin open /\ ~network_policy_blocks_unknown_peer
    /\ open' = open \cup {new}
    /\ peer' = [peer EXCEPT ![new] = {p}]
    /\ unchecked' = TRUE
    /\ Settings /\ UNCHANGED <<bound, reached>>

(* write and its like are no network calls: the data goes to the peer.      *)
PreWrite(s) ==
    /\ s \in open
    /\ reached' = reached \cup peer[s]
    /\ Settings /\ UNCHANGED <<open, bound, peer, unchecked>>

PreClose(s) ==
    /\ s \in open
    /\ open' = open \ {s} /\ bound' = bound \ {s}
    /\ peer' = [peer EXCEPT ![s] = {}]
    /\ Settings /\ UNCHANGED <<reached, unchecked>>

Next ==
    \E s \in Sockets :
        \/ PreSocket(s) \/ PreWrite(s) \/ PreClose(s)
        \/ \E a \in Addresses :
              \/ PreBind(s, a)
              \/ \E used \in UsedFor(a) : PreConnect(s, a, used) \/ PreSendto(s, a, used)
        \/ \E p \in Peers : PreSendmsg(s, p) \/ \E new \in Sockets : PreAccept(s, new, p)

Spec == Init /\ [][Next]_vars

-----------------------------------------------------------------------------
(* What the author of the policy meant: the first entry that names the peer *)
(* decides, and DR_NETWORK where none does.                                 *)
Names(entry, p) ==
    /\ entry.host \in {"*", p.ip}
    /\ entry.port \in {"", "*"} \cup {text \in DOMAIN Numbers : Numbers[text] = p.port}

MeantToBlock(p) ==
    LET naming == {i \in DOMAIN DR_NETWORK_POLICY : Names(DR_NETWORK_POLICY[i], p)}
    IN  IF naming = {} THEN g_block_network
        ELSE DR_NETWORK_POLICY[Min(naming)].action \in {"block", "deny"}

WellFormed ==
    /\ Len(DR_NETWORK_POLICY) <= MaxRules
    /\ \A i \in DOMAIN DR_NETWORK_POLICY : DR_NETWORK_POLICY[i].colon

(* No data goes to a peer the policy is meant to block, over any sequence of*)
(* calls and over connections made earlier: if calls whose peer the filter  *)
(* cannot read are blocked, or none of them was made.                       *)
NoBlockedPeer ==
    WellFormed /\ (network_policy_blocks_unknown_peer \/ ~unchecked) =>
        \A p \in reached : ~MeantToBlock(p)
=============================================================================
