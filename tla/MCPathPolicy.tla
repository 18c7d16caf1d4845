--------------------------- MODULE MCPathPolicy ---------------------------
(***************************************************************************)
(* PathPolicy for TLC.  The rules are the ones of the example in           *)
(* README.md's table, with a dotted path, an entry with an unknown action, *)
(* one with no path, one without a colon and the one it swallows, and a    *)
(* rule beyond the table's end added.                                      *)
(***************************************************************************)
EXTENDS PathPolicy

Rule(action, comps) == [colon |-> TRUE, action |-> action, path |-> Abs(comps)]

ExampleRules ==
    << Rule("ro", <<"data", "ref">>), Rule("rw", <<"tmp", "shared">>),
       Rule("typo", <<"tmp">>),
       [colon |-> TRUE, action |-> "deny", path |-> Path(FALSE, <<>>)],
       [colon |-> FALSE, action |-> "block", path |-> Path(FALSE, <<>>)],
       Rule("deny", <<"tmp">>),
       Rule("private", <<"data", ".", "work">>), Rule("deny", <<"data", "x", "..">>),
       Rule("rw", <<"etc">>) >>
=============================================================================
