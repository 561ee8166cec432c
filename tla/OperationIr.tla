------------------------------ MODULE OperationIr ------------------------------
(***************************************************************************)
(* OperationIr and OperationIrCfg: the table of what each operation        *)
(* supports, read from ini files, and the widening of an operation's       *)
(* tensors for lists of tensors, by the lengths in a caller's vector: 0    *)
(* for a tensor that is no list.                                           *)
(*                                                                         *)
(* Names of operations are numbers in the order of the names.  The key of  *)
(* an entry is <<side, index, field>>, its value what the parsing of its   *)
(* text gives, with "undefined" for a name that is no type or format.      *)
(***************************************************************************)
EXTENDS TensorDesc, IniFile

CONSTANTS
  Files,             \* the contents a file may have, sequences of lines
  InvalidOpKeys,     \* names IsValidOpKey refuses: signs, more than 128 letters
  MAX_TENSOR_INDEX,  \* tensors are numbered below it
  AnyLens            \* may callers pass lengths that do not suit the tensors?

ASSUME OperationIrAssumption ==
  /\ MAX_TENSOR_INDEX \in 1 .. MAX_SIZE
  /\ AnyLens \in BOOLEAN
  /\ \A file \in Files : IsFile(file)

VARIABLES
  data,  \* data_: the OperationIr of each operation loaded
  meant  \* ghost: the tensors its section and the lengths stand for

irVars == <<data, meant>>

-----------------------------------------------------------------------------
(* ParseKeyValue, and SetSupportedDtypes, SetSupportedFormats and           *)
(* SetIsOptional, which refuse a list that is empty or has an unknown name. *)
Accepts(key, value) ==
  /\ key[1] \in {"input", "output"}
  /\ key[2] \in 0 .. MAX_TENSOR_INDEX - 1
  /\ \/ key[3] \in {"optional", "name"}
     \/ key[3] \in {"dtype", "format"} /\ value # << >> /\ ~Contains(value, "undefined")

(* The tensors of one side.  Setting a field of tensor i resizes the list   *)
(* to i + 1 if it is shorter; a tensor that is skipped stays as it was made.*)
IrsOf(entries, side) ==
  LET seen == {key \in DOMAIN entries : key[1] = side /\ key[3] # "name"}
      field(i, f, default) == IF <<side, i, f>> \in seen THEN entries[<<side, i, f>>] ELSE default
  IN  [storage |-> [i \in Slots |-> [dtypes |-> field(i, "dtype", << >>),
                                     formats |-> field(i, "format", << >>),
                                     isOptional |-> field(i, "optional", FALSE)]],
       size |-> Max({0} \cup {key[2] + 1 : key \in seen})]

IrHas(ir, n) == Len(ir.dtypes) = n /\ Len(ir.formats) = n
AllHave(irs, n) == \A i \in 0 .. irs.size - 1 : IrHas(irs.storage[i], n)

(* Mutant of InitIsValid: the outputs are not looked at.                    *)
InitIsValidIns(ins, outs) ==
  LET n == IF ins.size > 0 THEN Len(ins.storage[0].dtypes)
           ELSE IF outs.size > 0 THEN Len(outs.storage[0].dtypes) ELSE 0
  IN  [ins |-> ins, outs |-> outs, supportSize |-> n, isValid |-> n # 0 /\ AllHave(ins, n)]

(* The first tensor says how many combinations there are.                   *)
InitIsValid(ins, outs) ==
  LET n == IF ins.size > 0 THEN Len(ins.storage[0].dtypes)
           ELSE IF outs.size > 0 THEN Len(outs.storage[0].dtypes) ELSE 0
  IN  [ins |-> ins, outs |-> outs, supportSize |-> n,
       isValid |-> n # 0 /\ AllHave(ins, n) /\ AllHave(outs, n)]

Parse(entries) == InitIsValid(IrsOf(entries, "input"), IrsOf(entries, "output"))

Parses(entries) == \A key \in DOMAIN entries : Accepts(key, entries[key])

-----------------------------------------------------------------------------
(* The reference: the tensors the entries of an operation's section stand   *)
(* for.                                                                     *)
MeantBy(file, name, side) ==
  LET ofSide == {i \in FirstSection(file, name) : file[i].key[1] = side /\ file[i].key[3] # "name"}
      found(n, f) == {i \in ofSide : file[i].key = <<side, n, f>>}
      field(n, f, default) == IF found(n, f) = {} THEN default ELSE file[Min(found(n, f))].value
  IN  [n \in 1 .. Max({0} \cup {file[i].key[2] + 1 : i \in ofSide}) |->
         [dtypes |-> field(n - 1, "dtype", << >>), formats |-> field(n - 1, "format", << >>),
          isOptional |-> field(n - 1, "optional", FALSE)]]

(* What a file that is not tidy stands for is up to the code.               *)
Meaning(file, name, op) ==
  IF Tidy(file) THEN [ins |-> MeantBy(file, name, "input"), outs |-> MeantBy(file, name, "output")]
  ELSE [ins |-> ListOf(op.ins), outs |-> ListOf(op.outs)]

-----------------------------------------------------------------------------
(* OperationIrCfg::Load: operation by operation in the order of their       *)
(* names, up to the first that is refused; those before it stay.  An        *)
(* operation that a file before has described keeps that description.       *)
Load(file) ==
  LET sections == ParseIniFileToMap(file)
      refused == {k \in DOMAIN sections : k \in InvalidOpKeys \/ ~Parses(sections[k])}
      loaded == {k \in DOMAIN sections \ refused : \A r \in refused : k < r}
  IN  /\ data' = Joined(data, [k \in loaded |-> Parse(sections[k])])
      /\ meant' = Joined(meant, [k \in loaded |-> Meaning(file, k, Parse(sections[k]))])
      /\ UNCHANGED vec

-----------------------------------------------------------------------------
(* ExtendInTensorIrByInputlens and ExtendOutTensorIrByOutputlens.           *)
Places(len) == IF len = 0 THEN 1 ELSE len

(* How many places the tensors in front of each one take.                   *)
StartOf(lens) ==
  LET start[i \in 0 .. lens.size] ==
        IF i = 0 THEN 0 ELSE start[i - 1] + Places(lens.storage[i - 1])
  IN  start

TotalLen(lens) == StartOf(lens)[lens.size]

CanExtend(irs, lens) ==
  /\ \A i \in 0 .. lens.size - 1 : lens.storage[i] >= 0
  /\ TotalLen(lens) <= MAX_SIZE

(* Mutant of Extended: the lists are spread from the front.                 *)
ExtendedForwards(irs, lens) ==
  LET placed[i \in 0 .. irs.size] ==
        IF i = 0 THEN [irs |-> Resized(irs, TotalLen(lens)), startId |-> 0]
        ELSE LET before == placed[i - 1]
                 end == before.startId + Places(lens.storage[i - 1])
             IN  [startId |-> end,
                  irs |-> [before.irs EXCEPT !.storage = [j \in Slots |->
                             IF j \in before.startId .. end - 1 THEN @[i - 1] ELSE @[j]]]]
  IN  placed[irs.size].irs

(* Tensor i is copied, within the list, to the places of its own list: as   *)
(* many in front of the tensors copied before as its length says.           *)
Spread(after, i, len) ==
  LET start == after.startId - len
      place(j) == IF j \in start .. after.startId - 1 THEN i ELSE j
  IN  [startId |-> start,
       irs |-> [storage |-> [j \in Slots |-> after.irs.storage[place(j)]], size |-> after.irs.size]]

(* The list is resized, and each tensor from the last on spread.  With      *)
(* fewer lengths than tensors the first look at one throws, and the list    *)
(* stays resized.                                                           *)
Extended(irs, lens) ==
  LET resized == Resized(irs, TotalLen(lens))
      spread[i \in 0 .. irs.size] ==
        IF i = irs.size THEN [irs |-> resized, startId |-> TotalLen(lens)]
        ELSE Spread(spread[i + 1], i, lens.storage[i])
  IN  IF lens.size < irs.size THEN resized ELSE spread[0].irs

(* The reference: each tensor as often as its list is long.                 *)
Widened(tensors, lens) ==
  FlattenSeq([i \in DOMAIN tensors |->
                [j \in 1 .. Max({1, lens.storage[i - 1]}) |-> tensors[i]]])

(* The lengths are those of the tensors, and no plain tensor is behind a    *)
(* list: the code would copy the list over it.                              *)
Suits(lens, irs) ==
  /\ lens.size = irs.size
  /\ \A i, j \in 0 .. lens.size - 1 : i < j /\ lens.storage[j] = 0 => lens.storage[i] = 0

ExtendIn(k) ==
  /\ AnyLens \/ Suits(vec, data[k].ins)
  /\ CanExtend(data[k].ins, vec)
  /\ data' = [data EXCEPT ![k].ins = Extended(@, vec)]
  /\ meant' = [meant EXCEPT ![k].ins = IF Suits(vec, data[k].ins) THEN Widened(@, vec) ELSE @]
  /\ UNCHANGED vec

ExtendOut(k) ==
  /\ AnyLens \/ Suits(vec, data[k].outs)
  /\ CanExtend(data[k].outs, vec)
  /\ data' = [data EXCEPT ![k].outs = Extended(@, vec)]
  /\ meant' = [meant EXCEPT ![k].outs = IF Suits(vec, data[k].outs) THEN Widened(@, vec) ELSE @]
  /\ UNCHANGED vec

-----------------------------------------------------------------------------
(* GetCombString of an operation: which combinations it reads of which      *)
(* tensors, without a look at how many the tensor has.                      *)
IrsIn(irs) == {irs.storage[i] : i \in 0 .. irs.size - 1}

CombReads(op) ==
  IF op.isValid THEN (IrsIn(op.ins) \cup IrsIn(op.outs)) \X (1 .. op.supportSize) ELSE {}

-----------------------------------------------------------------------------
InitIr == Init /\ data = Nothing /\ meant = Nothing

Next ==
  \/ NextVector /\ UNCHANGED irVars
  \/ \E file \in Files : Load(file)
  \/ \E k \in DOMAIN data : ExtendIn(k) \/ ExtendOut(k)

Spec == InitIr /\ [][Next]_<<vec, data, meant>>

-----------------------------------------------------------------------------
(***************************************************************************)
(* The table says of every operation what its section of the file and the  *)
(* lengths since then stand for, although sections are collected line by   *)
(* line, a Load that fails leaves what it has read, and the lists are      *)
(* spread within one vector.                                               *)
(***************************************************************************)
AsMeant ==
  /\ DOMAIN data = DOMAIN meant
  /\ \A k \in DOMAIN data :
       /\ ListOf(data[k].ins) = meant[k].ins
       /\ ListOf(data[k].outs) = meant[k].outs

(***************************************************************************)
(* GetCombString reads, of every tensor of a valid operation, as many      *)
(* types and formats as the first had when the file was read; isValid_ is  *)
(* not computed again after the lists are spread.                          *)
(***************************************************************************)
CombsReadable ==
  \A k \in DOMAIN data : \A read \in CombReads(data[k]) :
    read[2] <= Len(read[1].dtypes) /\ read[2] <= Len(read[1].formats)
=============================================================================
