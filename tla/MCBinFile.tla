------------------------------ MODULE MCBinFile ------------------------------
(* Names and values for TLC: plain ones, an empty value, a name with `=`    *)
(* within and one that begins with it, and a name the head of a file has    *)
(* itself.  An object named "Length=" and anything is left out: its line    *)
(* empties the buffer under the objects that were read before it.           *)
EXTENDS BinFile

MCAttrNames == {<<"a">>, <<"a", "b">>, <<"", "a">>}
MCInvalidNames == {<<"$o">>}
MCValues == {<<"3">>, <<"">>}
MCObjectNames == {<<"o">>, <<"p">>, <<"Length">>, <<"$o">>}
=============================================================================
