---------------------------- MODULE MCStateStore ----------------------------
(***************************************************************************)
(* Instance of StateStore for TLC: a node that is a leaf or has two        *)
(* leaves; one subscriber to all of it, one to its children that writes    *)
(* one of them in return.                                                  *)
(***************************************************************************)
EXTENDS StateStore

MCPath == {<<"d">>, <<"d", "a">>, <<"d", "b">>, <<"e">>}
MCPatternOf == [s \in Sub |-> IF s = "all" THEN <<"**">> ELSE <<"d", "*">>]
MCEchoOf == [s \in Sub |-> IF s = "all" THEN {} ELSE {<<"d", "b">>}]
=============================================================================
