----------------------------- MODULE MCCallback -----------------------------
(* Instances of Callback: signatures with every kind of character, calls   *)
(* with too few, too many and the right number of arguments, plain and     *)
(* objects.                                                                *)
EXTENDS Callback, TLC

CONSTANTS h1, h2

Symmetry == Permutations(Handles)

Handled == {<<"i", "B", ")", "v">>, <<"v", ")", "Z">>, <<"Z", "d", ")", "p">>,
            <<"I", "I", ")", "v">>, <<"p", "f", ")", "i">>, <<"(", "i", ")", "v">>}
Prefixed == {<<"(", "i", ")", "v">>, <<"_", ":", "i", ")", "v">>}
Plain   == {<<>>, <<"iv">>, <<"iv", "obj">>, <<"pv", "nv">>, <<"iv", "iv", "iv">>,
            <<"uv", "uv">>}
=============================================================================
