--------------------------- MODULE MCPrivateVfs ---------------------------
(***************************************************************************)
(* PrivateVfs for TLC: a scratch directory with a subdirectory, a file in  *)
(* it that a rule keeps shared (or read-only), and a cache below the work  *)
(* directory, which is the current one at first.                           *)
(***************************************************************************)
EXTENDS PrivateVfs

P(comps) == [abs |-> TRUE, comps |-> comps]
R(comps) == [abs |-> FALSE, comps |-> comps]

SharedRule   == << [colon |-> TRUE, action |-> "rw", path |-> P(<<"tmp", "s">>)] >>
ReadOnlyRule == << [colon |-> TRUE, action |-> "ro", path |-> P(<<"tmp", "s">>)] >>

Names == { <<>>, <<"tmp">>, <<"tmp", "d">>, <<"tmp", "d", "f">>, <<"tmp", "s">>,
           <<"var">>, <<"var", "tmp">>, <<"w">>, <<"w", "f">>, <<"w", ".cache">> }

Before == [n \in Names |->
             CASE n \in {<<"w", "f">>, <<"tmp", "s">>} -> "text"
               [] n \in {<<"tmp", "d", "f">>, <<"w", ".cache">>} -> "none"
               [] OTHER -> "dir"]

Work == <<"w">>

UsualPaths == { P(<<"tmp", "d">>), P(<<"tmp", "d", "..", "d", "f">>), P(<<"tmp", "s">>),
                R(<<"f">>), P(<<"w", ".cache">>) }
UsualDirs == { P(<<"w">>) }

(* The filter takes the first name for a scratch name, the kernel leaves the*)
(* scratch root on it; the second puts relative names into shared scratch.  *)
OddPaths == UsualPaths \cup { P(<<"..", "..", "..", "tmp", "d", "f">>) }
OddDirs  == UsualDirs \cup { P(<<"tmp", "d">>) }
=============================================================================
