-------------------------- MODULE MCNetworkPolicy --------------------------
(***************************************************************************)
(* NetworkPolicy for TLC: all policies of up to three of seven entries,    *)
(* with a table of two rules.                                              *)
(***************************************************************************)
EXTENDS NetworkPolicy, TLC

E(action, host, port) == [colon |-> TRUE, action |-> action, host |-> host, port |-> port]

Entries == { E("block", "*", ""), E("deny", "h1", "80"), E("allow", "h1", "*"),
             E("allow", "h2", "80"), E("block", "", "80"), E("block", "h2", "http"),
             [colon |-> FALSE, action |-> "allow", host |-> "", port |-> ""] }

Configured == UNION {[1..n -> Entries] : n \in 0..3}
PortNumbers == ("80" :> 80) @@ ("443" :> 443)
Remote == { [ip |-> "h1", port |-> 80], [ip |-> "h1", port |-> 443], [ip |-> "h2", port |-> 80] }
=============================================================================
