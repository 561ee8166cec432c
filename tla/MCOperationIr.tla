---------------------------- MODULE MCOperationIr ----------------------------
(* Vectors of up to three of four numbers, a word of eight, and files of up *)
(* to two sections: with everything in place, with a tensor or a format too *)
(* few, with an operation and a key twice, with a refused operation first   *)
(* or last, and with entries that belong to no section and too many lines.  *)
EXTENDS OperationIr

MCElems == {-1, 0, 1, 2}

F == <<"float">>
FH == <<"float", "half">>
N == <<"nd">>

Dtype(side, i, v) == Entry(<<side, i, "dtype">>, v)
Format(side, i, v) == Entry(<<side, i, "format">>, v)
Plain(side, i) == <<Dtype(side, i, F), Format(side, i, N)>>
Other(side, i) ==
  <<Dtype(side, i, <<"half">>), Format(side, i, N), Entry(<<side, i, "optional">>, TRUE)>>

MCFiles ==
  {<<Header(1)>> \o Plain("input", 0) \o Other("input", 1) \o Plain("output", 0)
     \o <<OpenHeader>> \o Plain("input", 2),
   <<Header(2), Format("output", 1, N), Dtype("output", 1, F), Entry(<<"output", 1, "name">>, "y"),
     Header(1)>> \o Other("input", 0) \o <<Dtype("input", 0, F), Header(2), Dtype("output", 1, FH)>>,
   <<Header(1), Dtype("input", 0, FH), Format("input", 0, FH)>> \o Plain("output", 0)
     \o <<Header(3)>> \o Plain("output", 0),
   Plain("output", 1) \o <<Header(1)>> \o Plain("output", 0) \o <<OpenHeader>> \o Plain("input", 0)
     \o <<Header(1)>> \o Plain("input", 1) \o <<Header(3)>> \o Plain("output", 0),
   <<Header(1)>> \o Plain("input", 0) \o <<Header(2), Dtype("input", 0, <<"undefined">>)>>,
   <<Header(2)>> \o Other("output", 0) \o <<Skipped, Header(1)>> \o Plain("input", 3)}
=============================================================================
