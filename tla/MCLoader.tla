------------------------------- MODULE MCLoader -------------------------------
(* Small libraries for TLC: three operations and five kernels, of which one *)
(* belongs to no registered operation and one has no binary for the device. *)
EXTENDS Loader

Bin(soc, names, tiling, flaw) == [soc |-> soc, names |-> names, tiling |-> tiling, flaw |-> flaw]
Creator(op, kernel, null) == [op |-> op, kernel |-> kernel, null |-> null]

(* Mul's binary is the one that may be flawed; Fill has no kernels.         *)
LibraryOf(fill, null, names, flaw) ==
  [operations |-> <<[name |-> "Add", kind |-> "base"], [name |-> "Fill", kind |-> fill],
                    [name |-> "Mul", kind |-> "base"]>>,
   creators   |-> <<Creator("Add", "AddF16", FALSE), Creator("Add", "AddF32", FALSE),
                    Creator("Gone", "GoneF16", FALSE), Creator("Mul", "MulF16", null),
                    Creator("Mul", "MulF32", FALSE)>>,
   binaries   |-> [AddF16  |-> <<Bin("ascend310p", <<"a">>, 8, "none"), Bin("ascend910b", <<"a">>, 16, "none"),
                                 Bin("ascend910b", <<"a">>, 24, "none")>>,
                   AddF32  |-> <<Bin("ascend310p", <<"a">>, 32, "none")>>,
                   GoneF16 |-> <<Bin("ascend910b", <<"g">>, 8, "none")>>,
                   MulF16  |-> <<Bin("ascend910b", <<"m", "n">>, 40, "none")>>,
                   MulF32  |-> <<Bin("ascend910b", names, 48, flaw), Bin("ascend310p", <<>>, 56, "none")>>]]

MCLibrary ==
  {LibraryOf(fill, FALSE, <<"o">>, "none") : fill \in {"base", "foreign", "null"}}
    \cup {LibraryOf("base", TRUE, <<"o">>, "none")}
    \cup {LibraryOf("base", FALSE, <<"o">>, flaw) : flaw \in {"header", "names", "rest", "magic"}}
    \cup {LibraryOf("base", FALSE, <<"o", "p">>, flaw) : flaw \in {"none", "names"}}

Line(key, text, rest, number) == Entry(key, [text |-> text, rest |-> rest, number |-> number])

(* Files of a device each; the second has a section twice, a key twice and  *)
(* a section without `]`, the third more cores than there can be, the       *)
(* fourth an intrinsic without dtypes, the fifth no version.                *)
Ini910B ==
  <<Header("version"), Line("SoC_version", "Ascend910B1", "", 0),
    Line("Short_SoC_version", "Ascend910B", "", 0),
    Header("SoCInfo"), Line("ai_core_cnt", "24", "", 24), Line("vector_core_cnt", "48", "", 48),
    Header("AICoreSpec"), Line("ub_size", "196608", "", 196608),
    Header("AICoreintrinsicDtypeMap"), Line("142", "Intrinsic_fix_pipe_l0c2out", "f32,s32", 0)>>
Ini310P ==
  <<Header("version"), Line("SoC_version", "Ascend310P3", "", 0),
    Line("Short_SoC_version", "Ascend310P", "", 0), Line("SoC_version", "Ascend310P1", "", 0),
    Header("SoCInfo"), Line("ai_core_cnt", "8", "", 8),
    Header("version"), Line("Short_SoC_version", "Ascend910B", "", 0),
    Header("AICoreSpec"), Line("l1_size", "1", "", 1), OpenHeader, Line("ub_size", "7", "", 7)>>
Ini910A ==
  <<Header("version"), Line("SoC_version", "Ascend910A", "", 0),
    Line("Short_SoC_version", "Ascend910X", "", 0),
    Header("SoCInfo"), Line("ai_core_cnt", "129", "", 129)>>
IniIntrinsic ==
  <<Header("version"), Line("SoC_version", "Ascend310P1", "", 0),
    Header("VectorCoreintrinsicDtypeMap"), Line("1", "Intrinsic_vadd", "", 0)>>
IniNone == <<Header("SoCInfo"), Line("ai_core_cnt", "30", "", 30)>>

MCDirectories ==
  {<<Ini910B, IniNone, Ini310P, Ini910A>>, <<Ini310P, IniIntrinsic, Ini910B>>, <<Ini910B, Ini910B>>,
   <<Ini910A, Ini310P>>, <<>>}

Symmetry == Permutations(Modules)
=============================================================================
