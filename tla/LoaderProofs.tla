----------------------------- MODULE LoaderProofs -----------------------------
(***************************************************************************)
(* Proofs about Loader, for every library, every platform, every outcome   *)
(* of the runtime's calls and every number of modules: the handles tell    *)
(* the truth about the runtime and return what they took, a load that says *)
(* it succeeded is complete, and what it hands out is for the device of    *)
(* which the platform's files speak.                                       *)
(***************************************************************************)
EXTENDS Loader, IniFileProofs, SequenceTheorems, FiniteSetTheorems, WellFoundedInduction, TLAPS

Steps == {"binaries", "operations", "kernels", "add", "schedule", "ready", "exited"}

Handles == [bin : Binaries, kernelList : Seq(STRING), module : Modules \cup {NONE},
            function : BOOLEAN, codeLoadSuccess : BOOLEAN]

(* A handle has a module only after it read a name, so that an Init made    *)
(* again finds two names and registers no second module.                    *)
NamesFirst(h) ==
  /\ h.bin.names = <<>> => h.kernelList = <<>>
  /\ h.module # NONE => h.kernelList # <<>>

(* What a handle says of the runtime, which holds these modules.            *)
TellsTruth(h, held) ==
  h.codeLoadSuccess => h.function /\ (Len(h.kernelList) = 1 => h.module \in held)

HandleInv(k) ==
  /\ binHandles[k] \in Handles
  /\ k \in DOMAIN registered.binaries
  /\ \E i \in FirstFitting(k) : binHandles[k].bin = registered.binaries[k][i]
  /\ NamesFirst(binHandles[k])
  /\ TellsTruth(binHandles[k], modules)

(* The handles, in every step.  Before there are any, the runtime holds     *)
(* nothing; once there are, PlatformInfo does not change any more.          *)
HandlesInv ==
  /\ registered \in Library
  /\ pc \in Steps
  /\ next \in 0 .. Len(registered.creators)
  /\ pc = "binaries" => DOMAIN binHandles = {}
  /\ pc # "binaries" => info.constructed
  /\ \A k \in DOMAIN binHandles : HandleInv(k)

(* The maps of kernels, from a creator to the schedule.                     *)
KernelsInv ==
  /\ pc \in {"binaries", "operations", "kernels"} => DOMAIN kernelMaps = {}
  /\ \A op \in DOMAIN kernelMaps : op \in DOMAIN opKernelMap /\ kernelMaps[op] = opKernelMap[op]
  /\ pc \notin {"ready", "exited"} => DOMAIN schedule.kernels = {}
  /\ \A k \in DOMAIN schedule.kernels :
       \E op \in DOMAIN kernelMaps : /\ k \in DOMAIN kernelMaps[op]
                                     /\ schedule.kernels[k] = kernelMaps[op][k]

(* Kernels are of creators that are done, with what their handle has.       *)
PrototypesInv ==
  pc # "exited" =>
    \A op \in DOMAIN opKernelMap : \A k \in DOMAIN opKernelMap[op] :
      /\ k \in DOMAIN binHandles
      /\ \E j \in 1 .. next : registered.creators[j].kernel = k
      /\ opKernelMap[op][k].launchBufferSize = TilingSize(binHandles[k])

(* What a load that has not failed has done so far.                         *)
OperationNames == {registered.operations[i].name : i \in DOMAIN registered.operations}

CreatedSoFar ==
  \A i \in 1 .. next :
    LET c == registered.creators[i]
    IN Fitting(c.kernel) => c.op \in DOMAIN opKernelMap /\ c.kernel \in DOMAIN opKernelMap[c.op]

AddedSoFar ==
  /\ left \subseteq DOMAIN opMap
  /\ \A op \in DOMAIN opMap \ left : op \in DOMAIN opKernelMap => op \in DOMAIN kernelMaps

ProgressInv ==
  /\ pc \in {"binaries", "operations"} => next = 0
  /\ loadSuccess => pc \in {"schedule", "ready", "exited"} /\ left = {}
  /\ pc \in {"operations", "kernels", "add"} =>
       DOMAIN binHandles = {k \in DOMAIN registered.binaries : FirstFitting(k) # {}}
  /\ pc \in {"kernels", "add"} \/ loadSuccess => DOMAIN opMap = OperationNames /\ CreatedSoFar
  /\ pc = "add" \/ loadSuccess => next = Len(registered.creators) /\ AddedSoFar
  /\ pc = "ready" /\ loadSuccess =>
       /\ schedule.operations = DOMAIN opMap
       /\ \A op \in DOMAIN kernelMaps : DOMAIN kernelMaps[op] \subseteq DOMAIN schedule.kernels

(* No two kernels are registered under one name.                            *)
OneCreatorEach ==
  \A l \in Library : \A i, j \in DOMAIN l.creators :
    l.creators[i].kernel = l.creators[j].kernel => i = j

-----------------------------------------------------------------------------
(* The library is fixed, and so is the device once PlatformInfo is there.   *)
LEMMA DeviceStays ==
  ASSUME Next
  PROVE  registered' = registered /\ (info.constructed => info' = info)
  <1>1. CASE UsePlatform
    <2>1. registered' = registered
      BY <1>1 DEF UsePlatform, loader
    <2>2. info.constructed => info' = info
      BY <1>1 DEF UsePlatform, InitializePlatformManager, Finalize, ConstructPlatformInfo
    <2> QED
      BY <2>1, <2>2
  <1>2. CASE ~UsePlatform
    <2>1. UNCHANGED input
      BY <1>2 DEF Next, LoadKernelBinarys, CreateOperations, CreateKernel, KernelsCreated,
                  AddKernels, Loaded, AddAllOperations, Exit
    <2> QED
      BY <2>1 DEF input, platform
  <1> QED
    BY <1>1, <1>2

(* With them, what fits.                                                    *)
LEMMA FittingStays ==
  ASSUME Next, info.constructed
  PROVE  \A k : FirstFitting(k)' = FirstFitting(k) /\ (Fitting(k)' <=> Fitting(k))
  BY DeviceStays DEF FirstFitting, Fitting, Fits, device

(* Of the binaries that fit there is a first one.                           *)
LEMMA FirstOfFitting ==
  ASSUME registered \in Library, NEW k
  PROVE  Fitting(k) <=> k \in DOMAIN registered.binaries /\ FirstFitting(k) # {}
  <1> DEFINE bins == registered.binaries[k]
             F == {i \in DOMAIN bins : Fits(bins[i])}
  <1>1. ASSUME k \in DOMAIN registered.binaries, FirstFitting(k) # {}
        PROVE  Fitting(k)
    BY <1>1 DEF Fitting, FirstFitting
  <1>2. ASSUME Fitting(k)
        PROVE  k \in DOMAIN registered.binaries /\ FirstFitting(k) # {}
    <2>1. k \in DOMAIN registered.binaries
      BY <1>2 DEF Fitting
    <2>2. bins \in Seq(Binaries)
      BY <2>1, LoaderAssumption
    <2>3. Len(bins) \in Nat /\ DOMAIN bins = 1 .. Len(bins)
      BY <2>2, LenProperties
    <2> HIDE DEF bins
    <2>4. F \subseteq Nat /\ F # {}
      BY <1>2, <2>3 DEF Fitting, bins
    <2>5. \A i \in F : i \in 1 .. Len(bins) /\ Fits(bins[i])
      BY <2>3
    <2>6. \A j \in 1 .. Len(bins) : Fits(bins[j]) => j \in F
      BY <2>3
    <2> HIDE DEF F
    <2>7. PICK i \in F : \A j \in F : ~(<<j, i>> \in OpToRel(<, Nat))
      BY <2>4, NatLessThanWellFounded, WFMin
    <2>8. ASSUME NEW j \in 1 .. i - 1
          PROVE  ~Fits(bins[j])
      <3>1. i \in Nat /\ j \in Nat /\ j < i /\ j \in 1 .. Len(bins)
        BY <2>3, <2>5
      <3> QED
        BY <2>6, <2>7, <3>1 DEF OpToRel
    <2>9. i \in FirstFitting(k)
      BY <2>3, <2>5, <2>8 DEF FirstFitting, bins
    <2> QED
      BY <2>1, <2>9
  <1> QED
    BY <1>1, <1>2

-----------------------------------------------------------------------------
(* What the runtime's calls give a handle.                                  *)
LEMMA RegistrationsEffect ==
  ASSUME NEW r \in Registrations
  PROVE  /\ r.module \in Modules \cup {NONE} /\ r.ok \in BOOLEAN
         /\ r.ok => r.module \in r.made
         /\ r.made \subseteq Modules /\ r.made \cap modules = {}
         /\ (r.module = NONE /\ r.made = {}) \/ r.module \in r.made
  <1> DEFINE one(m, ok) == [made |-> {m}, module |-> m, ok |-> ok]
  <1>1. \/ r = [made |-> {}, module |-> NONE, ok |-> FALSE]
        \/ \E m \in Modules \ modules : \E ok \in BOOLEAN : r = one(m, ok)
        \/ \E m, n \in Modules \ modules : r = [made |-> {m, n}, module |-> n, ok |-> TRUE]
    BY DEF Registrations
  <1>2. CASE r = [made |-> {}, module |-> NONE, ok |-> FALSE]
    BY <1>2
  <1>3. ASSUME NEW m \in Modules \ modules, NEW ok \in BOOLEAN, r = one(m, ok)
        PROVE  /\ r.module = m /\ r.made = {m} /\ r.ok \in BOOLEAN
    BY <1>3
  <1>4. ASSUME NEW m \in Modules \ modules, NEW n \in Modules \ modules,
               r = [made |-> {m, n}, module |-> n, ok |-> TRUE]
        PROVE  /\ r.module = n /\ r.made = {m, n} /\ r.ok \in BOOLEAN
    BY <1>4
  <1> QED
    BY <1>1, <1>2, <1>3, <1>4

(* What an Init gains, of modules that nobody had: one for a handle that    *)
(* had none, or none for it; the others are lost.                           *)
Gains(i, h) ==
  /\ i.made \subseteq Modules /\ i.made \cap modules = {}
  /\ \/ i.handle.module = h.module /\ i.lost = i.made
     \/ /\ h.module = NONE /\ i.handle.module \in i.made
        /\ i.lost = i.made \ {i.handle.module}

LEMMA BoundEffect ==
  ASSUME NEW h \in Handles, ~h.codeLoadSuccess, NEW b \in Bound(h)
  PROVE  /\ b \in Handles
         /\ b.bin = h.bin /\ b.kernelList = h.kernelList /\ b.module = h.module
         /\ b.codeLoadSuccess => b.function
  BY DEF Bound, Handles

LEMMA RegisterBinEffect ==
  ASSUME NEW h \in Handles, ~h.codeLoadSuccess, NEW i \in RegisterBin(h),
         Len(h.kernelList) = 1 => h.module = NONE
  PROVE  /\ i.handle \in Handles
         /\ i.handle.bin = h.bin /\ i.handle.kernelList = h.kernelList
         /\ TellsTruth(i.handle, i.made)
         /\ Gains(i, h)
  <1>1. CASE Len(h.kernelList) = 1
    <2>1. PICK r \in Registrations :
            i \in {After(b, r.made, r.made \ {r.module}) :
                    b \in IF r.ok THEN Bound([h EXCEPT !.module = r.module])
                                  ELSE {[h EXCEPT !.module = r.module]}}
      BY <1>1 DEF RegisterBin, RegisterSingle
    <2> DEFINE m == [h EXCEPT !.module = r.module]
    <2>2. /\ m \in Handles /\ m.module = r.module /\ m.bin = h.bin
          /\ m.kernelList = h.kernelList /\ ~m.codeLoadSuccess
      BY RegistrationsEffect DEF Handles
    <2> HIDE DEF m
    <2>3. /\ i.made = r.made /\ i.lost = r.made \ {r.module}
          /\ i.handle \in IF r.ok THEN Bound(m) ELSE {m}
      BY <2>1 DEF After, m
    <2>4. /\ i.handle \in Handles /\ i.handle.bin = h.bin /\ i.handle.kernelList = h.kernelList
          /\ i.handle.module = r.module
          /\ i.handle.codeLoadSuccess => r.ok /\ i.handle.function
      BY <2>2, <2>3, BoundEffect
    <2>5. TellsTruth(i.handle, i.made)
      BY <2>3, <2>4, RegistrationsEffect DEF TellsTruth
    <2>6. Gains(i, h)
      <3>1. h.module = NONE
        BY <1>1
      <3> QED
        BY <3>1, <2>3, <2>4, RegistrationsEffect DEF Gains
    <2> QED
      BY <2>4, <2>5, <2>6
  <1>2. CASE Len(h.kernelList) # 1
    <2>1. PICK r \in Registrations :
            i = After([h EXCEPT !.function = h.function \/ r.made # {}, !.codeLoadSuccess = r.ok],
                      r.made, r.made)
      BY <1>2 DEF RegisterBin, RegisterAll
    <2>2. i.made = r.made /\ i.lost = r.made
      BY <2>1 DEF After
    <2>3. i.handle = [h EXCEPT !.function = h.function \/ r.made # {}, !.codeLoadSuccess = r.ok]
      BY <2>1 DEF After
    <2>4. /\ i.handle \in Handles /\ i.handle.bin = h.bin /\ i.handle.kernelList = h.kernelList
          /\ i.handle.module = h.module
          /\ i.handle.codeLoadSuccess => i.handle.function
      BY <2>3, RegistrationsEffect DEF Handles
    <2>5. Gains(i, h)
      BY <2>2, <2>4, RegistrationsEffect DEF Gains
    <2> QED
      BY <1>2, <2>2, <2>4, <2>5 DEF TellsTruth
  <1> QED
    BY <1>1, <1>2

(* Reading names makes the list longer by them.                             *)
LEMMA NamesRead ==
  ASSUME NEW s \in Seq(STRING), NEW t \in Seq(STRING)
  PROVE  /\ s \o t \in Seq(STRING) /\ Len(s \o t) = Len(s) + Len(t)
         /\ Len(s) \in Nat /\ Len(t) \in Nat
         /\ s # <<>> <=> Len(s) # 0
         /\ t # <<>> <=> Len(t) # 0
         /\ s # <<>> => s \o t # <<>>
         /\ s = <<>> /\ t = <<>> => s \o t = <<>>
  <1>1. s \o t \in Seq(STRING) /\ Len(s \o t) = Len(s) + Len(t)
    BY ConcatProperties
  <1>2. Len(s) \in Nat /\ Len(t) \in Nat
    BY LenProperties
  <1>3. (s # <<>> <=> Len(s) # 0) /\ (t # <<>> <=> Len(t) # 0)
    BY EmptySeq
  <1>4. s # <<>> => s \o t # <<>>
    BY ConcatEqualIffEmpty
  <1>5. s = <<>> /\ t = <<>> => s \o t = <<>>
    BY ConcatEqualIffEmpty
  <1> QED
    BY <1>1, <1>2, <1>3, <1>4, <1>5

LEMMA FrontOfNames ==
  ASSUME NEW s \in Seq(STRING)
  PROVE  Front(s) \in Seq(STRING) /\ (s = <<>> => Front(s) = <<>>)
  <1>1. Len(s) \in Nat /\ \A i \in 1 .. Len(s) : s[i] \in STRING
    BY LenProperties, ElementOfSeq
  <1>2. \A i \in 1 .. Len(s) - 1 : s[i] \in STRING
    BY <1>1
  <1>3. SubSeq(s, 1, Len(s) - 1) \in Seq(STRING)
    BY <1>1, <1>2, SubSeqProperties
  <1>4. s = <<>> => SubSeq(s, 1, Len(s) - 1) = <<>>
    BY <1>1, EmptySeq, SubSeqEmpty
  <1> QED
    BY <1>3, <1>4 DEF Front

(* Init of a handle, for the first time or again: it says it has its code   *)
(* only with a function and, of one kernel, a module made now; and it takes *)
(* no second module.                                                        *)
LEMMA InitHandleEffect ==
  ASSUME NEW h \in Handles, NamesFirst(h), NEW i \in InitHandle(h)
  PROVE  /\ i.handle \in Handles /\ i.handle.bin = h.bin
         /\ NamesFirst(i.handle)
         /\ TellsTruth(i.handle, i.made)
         /\ Gains(i, h)
  <1> DEFINE unloaded == [h EXCEPT !.codeLoadSuccess = FALSE]
             read(names) == [unloaded EXCEPT !.kernelList = h.kernelList \o names]
             all == h.bin.names
  <1>1. h.kernelList \in Seq(STRING) /\ all \in Seq(STRING) /\ h.bin \in Binaries
    BY DEF Handles, Binaries
  <1>2. /\ unloaded \in Handles /\ unloaded.bin = h.bin /\ unloaded.kernelList = h.kernelList
        /\ unloaded.module = h.module /\ ~unloaded.codeLoadSuccess
    BY DEF Handles
  <1>3. ASSUME NEW names \in Seq(STRING)
        PROVE  /\ read(names) \in Handles /\ read(names).bin = h.bin
               /\ read(names).kernelList = h.kernelList \o names
               /\ read(names).module = h.module /\ ~read(names).codeLoadSuccess
    BY <1>1, NamesRead DEF Handles
  <1>4. ASSUME NEW names \in Seq(STRING), all = <<>> => names = <<>>
        PROVE  NamesFirst(read(names))
    <2>1. /\ h.kernelList # <<>> => h.kernelList \o names # <<>>
          /\ h.kernelList = <<>> /\ names = <<>> => h.kernelList \o names = <<>>
      BY <1>1, NamesRead
    <2>2. /\ read(names).bin = h.bin /\ read(names).kernelList = h.kernelList \o names
          /\ read(names).module = h.module
      BY <1>3
    <2> HIDE DEF read
    <2> QED
      BY <1>4, <2>1, <2>2 DEF NamesFirst
  <1>5. ASSUME NEW g \in Handles, i = After(g, {}, {}), NamesFirst(g), g.bin = h.bin,
               g.module = h.module, ~g.codeLoadSuccess
        PROVE  /\ i.handle \in Handles /\ i.handle.bin = h.bin
               /\ NamesFirst(i.handle)
               /\ TellsTruth(i.handle, i.made)
               /\ Gains(i, h)
    BY <1>5 DEF After, TellsTruth, Gains
  <1>6. InitHandle(h) = CASE h.bin.flaw = "header" -> {After(unloaded, {}, {})}
                          [] h.bin.flaw = "names"  -> {After(read(Front(all)), {}, {})}
                          [] h.bin.flaw \in {"rest", "magic"} -> {After(read(all), {}, {})}
                          [] OTHER -> IF read(all).kernelList = <<>> THEN {After(read(all), {}, {})}
                                      ELSE RegisterBin(read(all))
    BY DEF InitHandle
  <1> HIDE DEF unloaded, read, all
  <1>7. CASE h.bin.flaw = "header"
    <2>1. i = After(unloaded, {}, {})
      BY <1>6, <1>7
    <2>2. NamesFirst(unloaded)
      BY <1>2 DEF NamesFirst
    <2> QED
      BY <1>2, <1>5, <2>1, <2>2
  <1>8. CASE h.bin.flaw = "names"
    <2>1. i = After(read(Front(all)), {}, {})
      BY <1>6, <1>8
    <2>2. Front(all) \in Seq(STRING) /\ (all = <<>> => Front(all) = <<>>)
      BY <1>1, FrontOfNames
    <2>3. NamesFirst(read(Front(all)))
      BY <1>4, <2>2
    <2> QED
      BY <1>3, <1>5, <2>1, <2>2, <2>3
  <1>9. NamesFirst(read(all))
    BY <1>1, <1>4
  <1>10. ASSUME i = After(read(all), {}, {})
         PROVE  /\ i.handle \in Handles /\ i.handle.bin = h.bin
                /\ NamesFirst(i.handle)
                /\ TellsTruth(i.handle, i.made)
                /\ Gains(i, h)
    BY <1>1, <1>3, <1>5, <1>9, <1>10
  <1>11. CASE h.bin.flaw \in {"rest", "magic"}
    <2>1. i = After(read(all), {}, {})
      BY <1>6, <1>11
    <2> QED
      BY <1>10, <2>1
  <1>12. CASE h.bin.flaw = "none"
    <2>1. CASE read(all).kernelList = <<>>
      <3>1. i = After(read(all), {}, {})
        BY <1>6, <1>12, <2>1
      <3> QED
        BY <1>10, <3>1
    <2>2. CASE read(all).kernelList # <<>>
      <3>1. i \in RegisterBin(read(all))
        BY <1>6, <1>12, <2>2
      <3>2. /\ read(all) \in Handles /\ read(all).bin = h.bin
            /\ read(all).kernelList = h.kernelList \o all
            /\ read(all).module = h.module /\ ~read(all).codeLoadSuccess
        BY <1>1, <1>3
      <3>3. Len(read(all).kernelList) = 1 => read(all).module = NONE
        <4>1. SUFFICES ASSUME h.module # NONE
                       PROVE  Len(h.kernelList \o all) # 1
          BY <3>2
        <4>2. h.kernelList # <<>> /\ all # <<>>
          BY <4>1 DEF NamesFirst, all
        <4> QED
          BY <1>1, <4>2, NamesRead
      <3>4. /\ i.handle \in Handles
            /\ i.handle.bin = h.bin /\ i.handle.kernelList = read(all).kernelList
            /\ TellsTruth(i.handle, i.made)
            /\ Gains(i, read(all))
        BY <3>1, <3>2, <3>3, RegisterBinEffect
      <3>5. NamesFirst(i.handle)
        BY <1>9, <2>2, <3>2, <3>4 DEF NamesFirst
      <3>6. Gains(i, h)
        BY <3>2, <3>4 DEF Gains
      <3> QED
        BY <3>2, <3>4, <3>5, <3>6
    <2> QED
      BY <2>1, <2>2
  <1>13. h.bin.flaw \in {"none", "header", "names", "rest", "magic"}
    BY <1>1 DEF Binaries
  <1> QED
    BY <1>7, <1>8, <1>11, <1>12, <1>13

-----------------------------------------------------------------------------
(* A step that leaves a handle alone, and takes no module away, leaves it   *)
(* true.                                                                    *)
LEMMA HandleStays ==
  ASSUME Next, info.constructed, NEW k, HandleInv(k),
         binHandles'[k] = binHandles[k], modules \subseteq modules'
  PROVE  HandleInv(k)'
  <1>1. registered' = registered /\ FirstFitting(k)' = FirstFitting(k)
    BY DeviceStays, FittingStays
  <1>2. TellsTruth(binHandles[k], modules) => TellsTruth(binHandles[k], modules')
    BY DEF TellsTruth
  <1> QED
    BY <1>1, <1>2 DEF HandleInv, NamesFirst

LEMMA AllHandlesStay ==
  ASSUME HandlesInv, Next, binHandles' = binHandles, modules \subseteq modules',
         pc' \in Steps, next' \in 0 .. Len(registered.creators),
         pc' = "binaries" <=> pc = "binaries"
  PROVE  HandlesInv'
  <1>1. registered' = registered
    BY DeviceStays
  <1>2. pc' # "binaries" => info'.constructed
    BY DeviceStays DEF HandlesInv
  <1>3. ASSUME NEW k \in DOMAIN binHandles'
        PROVE  HandleInv(k)'
    BY <1>3, HandleStays DEF HandlesInv
  <1> QED
    BY <1>1, <1>2, <1>3 DEF HandlesInv

(* LoadKernelBinarys makes handles of the first binaries that fit.          *)
LEMMA LoadStep ==
  ASSUME HandlesInv, LoadKernelBinarys
  PROVE  /\ HandlesInv' /\ modules' = modules /\ kept' = kept
         /\ \A k \in DOMAIN binHandles' : binHandles'[k].module = NONE
         /\ pc' = "operations" =>
              DOMAIN binHandles' = {k \in DOMAIN registered.binaries : FirstFitting(k) # {}}
  <1>1. /\ pc = "binaries" /\ info.constructed
        /\ registered' = registered /\ info' = info /\ UNCHANGED <<next, modules, kept>>
    BY DEF LoadKernelBinarys, input, platform
  <1>2. \A k : FirstFitting(k)' = FirstFitting(k)
    BY <1>1 DEF FirstFitting, Fits, device
  <1>3. CASE device = "unrecognized"
    <2>1. pc' = "schedule" /\ binHandles' = binHandles
      BY <1>3 DEF LoadKernelBinarys
    <2> QED
      BY <1>1, <2>1 DEF HandlesInv, Steps
  <1>4. CASE device # "unrecognized"
    <2> DEFINE K == {k \in DOMAIN registered.binaries : FirstFitting(k) # {}}
               at(k) == CHOOSE i \in FirstFitting(k) : TRUE
    <2>1. pc' = "operations" /\ binHandles' = [k \in K |-> NewHandle(registered.binaries[k][at(k)])]
      BY <1>4 DEF LoadKernelBinarys
    <2>2. ASSUME NEW k \in K
          PROVE  HandleInv(k)' /\ binHandles'[k].module = NONE
      <3> DEFINE bin == registered.binaries[k][at(k)]
      <3>1. k \in DOMAIN registered.binaries /\ at(k) \in FirstFitting(k)
        OBVIOUS
      <3>2. at(k) \in DOMAIN registered.binaries[k]
        BY <3>1 DEF FirstFitting
      <3>3. registered.binaries[k] \in Seq(Binaries)
        BY <3>1, LoaderAssumption DEF HandlesInv
      <3>4. bin \in Binaries
        BY <3>2, <3>3, LenProperties, ElementOfSeq
      <3>5. binHandles'[k] = NewHandle(bin)
        BY <2>1
      <3> HIDE DEF bin, at
      <3>6. /\ NewHandle(bin) \in Handles /\ NewHandle(bin).bin = bin
            /\ NewHandle(bin).module = NONE /\ NewHandle(bin).kernelList = <<>>
            /\ ~NewHandle(bin).codeLoadSuccess
        BY <3>4, EmptySeq DEF NewHandle, Handles
      <3>7. \E i \in FirstFitting(k) : bin = registered.binaries[k][i]
        BY <3>1 DEF bin
      <3> QED
        BY <1>1, <1>2, <3>1, <3>5, <3>6, <3>7 DEF HandleInv, NamesFirst, TellsTruth
    <2>3. DOMAIN binHandles' = K
      BY <2>1
    <2> HIDE DEF K
    <2>4. HandlesInv'
      BY <1>1, <2>1, <2>2, <2>3 DEF HandlesInv, Steps
    <2> QED
      BY <1>1, <2>1, <2>2, <2>3, <2>4 DEF K
  <1> QED
    BY <1>3, <1>4

(* A creator whose kernel has a handle: what Init makes of that one.        *)
LEMMA CreateKernelParts ==
  ASSUME HandlesInv, CreateKernel
  PROVE  /\ pc = "kernels" /\ pc' \in {"kernels", "schedule"}
         /\ next' = next + 1 /\ next' \in 1 .. Len(registered.creators)
         /\ UNCHANGED <<registered, info, left, loadSuccess, opMap, kernelMaps, schedule>>
         /\ LET c == registered.creators[next']
            IN \/ /\ c.kernel \notin DOMAIN binHandles
                  /\ UNCHANGED <<pc, binHandles, opKernelMap, modules, kept>>
               \/ /\ c.kernel \in DOMAIN binHandles
                  /\ \E i \in InitHandle(binHandles[c.kernel]) :
                       /\ binHandles' = [binHandles EXCEPT ![c.kernel] = i.handle]
                       /\ modules' = modules \cup i.made /\ kept' = kept \cup i.lost
                       /\ \/ pc' = "schedule" /\ opKernelMap' = opKernelMap
                          \/ LET kernels == IF c.op \in DOMAIN opKernelMap
                                            THEN opKernelMap[c.op] ELSE NoKernels
                             IN /\ pc' = pc
                                /\ opKernelMap' = Extend(opKernelMap, c.op,
                                     Extend(kernels, c.kernel, NewKernel(c.kernel, i.handle)))
  <1>1. registered.creators \in Seq(Creators) /\ Len(registered.creators) \in Nat
    BY LoaderAssumption, LenProperties DEF HandlesInv
  <1>2. next' = next + 1 /\ next < Len(registered.creators) /\ pc = "kernels" /\ next \in Nat
    BY <1>1 DEF CreateKernel, HandlesInv
  <1>3. UNCHANGED <<registered, info, left, loadSuccess, opMap, kernelMaps, schedule>>
    BY DEF CreateKernel, input, platform
  <1> DEFINE c == registered.creators[next']
  <1>4. CASE c.kernel \notin DOMAIN binHandles
    <2>1. UNCHANGED <<pc, binHandles, opKernelMap, modules, kept>>
      BY <1>2, <1>4 DEF CreateKernel
    <2> QED
      BY <1>1, <1>2, <1>3, <1>4, <2>1
  <1>5. CASE c.kernel \in DOMAIN binHandles
    <2>1. PICK i \in InitHandle(binHandles[c.kernel]) :
            /\ binHandles' = [binHandles EXCEPT ![c.kernel] = i.handle]
            /\ modules' = modules \cup i.made /\ kept' = kept \cup i.lost
            /\ IF c.null
               THEN pc' = "schedule" /\ UNCHANGED opKernelMap
               ELSE LET kernels == IF c.op \in DOMAIN opKernelMap
                                   THEN opKernelMap[c.op] ELSE NoKernels
                    IN /\ opKernelMap' = Extend(opKernelMap, c.op,
                            Extend(kernels, c.kernel, Created(c, binHandles[c.kernel], i.handle)))
                       /\ UNCHANGED pc
      BY <1>2, <1>5 DEF CreateKernel
    <2> DEFINE kernels == IF c.op \in DOMAIN opKernelMap THEN opKernelMap[c.op] ELSE NoKernels
    <2>2. \/ pc' = "schedule" /\ opKernelMap' = opKernelMap
          \/ /\ pc' = pc
             /\ opKernelMap' = Extend(opKernelMap, c.op,
                                 Extend(kernels, c.kernel, NewKernel(c.kernel, i.handle)))
      BY <2>1 DEF Created
    <2>3. pc' \in {"kernels", "schedule"} /\ next' \in 1 .. Len(registered.creators)
      BY <1>1, <1>2, <2>2
    <2> QED
      BY <1>2, <1>3, <1>5, <2>1, <2>2, <2>3, Zenon
  <1> QED
    BY <1>4, <1>5

LEMMA CreateStep ==
  ASSUME HandlesInv, CreateKernel
  PROVE  HandlesInv'
  <1> DEFINE c == registered.creators[next']
  <1>1. /\ pc = "kernels" /\ pc' \in {"kernels", "schedule"}
        /\ next' \in 0 .. Len(registered.creators)
    BY CreateKernelParts
  <1>2. Next /\ info.constructed /\ registered' = registered /\ info' = info
    BY <1>1, CreateKernelParts DEF Next, HandlesInv
  <1>3. CASE c.kernel \notin DOMAIN binHandles
    <2>1. binHandles' = binHandles /\ modules' = modules
      BY <1>3, CreateKernelParts
    <2> QED
      BY <1>1, <1>2, <2>1, AllHandlesStay DEF Steps
  <1>4. CASE c.kernel \in DOMAIN binHandles
    <2>1. PICK i \in InitHandle(binHandles[c.kernel]) :
            /\ binHandles' = [binHandles EXCEPT ![c.kernel] = i.handle]
            /\ modules' = modules \cup i.made /\ kept' = kept \cup i.lost
      BY <1>4, CreateKernelParts
    <2> HIDE DEF c
    <2>2. HandleInv(c.kernel)
      BY <1>4 DEF HandlesInv
    <2>3. /\ i.handle \in Handles /\ i.handle.bin = binHandles[c.kernel].bin
          /\ NamesFirst(i.handle) /\ TellsTruth(i.handle, i.made)
      BY <2>1, <2>2, InitHandleEffect DEF HandleInv
    <2>4. ASSUME NEW k \in DOMAIN binHandles'
          PROVE  HandleInv(k)'
      <3>1. k \in DOMAIN binHandles /\ HandleInv(k)
        BY <2>1, <2>4 DEF HandlesInv
      <3>2. CASE k = c.kernel
        <4>1. binHandles'[k] = i.handle
          BY <2>1, <3>1, <3>2
        <4>2. TellsTruth(i.handle, modules')
          BY <2>1, <2>3 DEF TellsTruth
        <4>3. FirstFitting(k)' = FirstFitting(k)
          BY <1>2, FittingStays
        <4> QED
          BY <1>2, <2>2, <2>3, <3>2, <4>1, <4>2, <4>3 DEF HandleInv
      <3>3. CASE k # c.kernel
        BY <1>2, <2>1, <3>1, <3>3, HandleStays
      <3> QED
        BY <3>2, <3>3
    <2> QED
      BY <1>1, <1>2, <2>4 DEF HandlesInv, Steps
  <1> QED
    BY <1>3, <1>4

(* The others leave the handles alone, or, at exit, take them away.         *)
LEMMA OtherSteps ==
  ASSUME HandlesInv, Next, ~LoadKernelBinarys, ~CreateKernel, ~Exit
  PROVE  /\ UNCHANGED <<binHandles, modules, kept, next, opKernelMap>>
         /\ pc # "exited" /\ pc' \in Steps /\ (pc' = "binaries" <=> pc = "binaries")
  <1>1. CASE UsePlatform
    BY <1>1 DEF UsePlatform, loader, HandlesInv
  <1>2. CASE CreateOperations
    BY <1>2 DEF CreateOperations, Steps
  <1>3. CASE KernelsCreated
    BY <1>3 DEF KernelsCreated, Steps
  <1>4. ASSUME NEW op \in left, AddKernels(op)
        PROVE  /\ UNCHANGED <<binHandles, modules, kept, next, opKernelMap>>
               /\ pc # "exited" /\ pc' \in Steps /\ (pc' = "binaries" <=> pc = "binaries")
    BY <1>4 DEF AddKernels, Steps
  <1>5. CASE Loaded
    BY <1>5 DEF Loaded, Steps
  <1>6. CASE AddAllOperations
    BY <1>6 DEF AddAllOperations, Steps
  <1> QED
    BY <1>1, <1>2, <1>3, <1>4, <1>5, <1>6 DEF Next

LEMMA ExitStep ==
  ASSUME HandlesInv, Exit
  PROVE  HandlesInv' /\ DOMAIN binHandles' = {}
  <1>1. /\ pc = "ready" /\ pc' = "exited" /\ binHandles' = NoKernels
        /\ UNCHANGED <<registered, info, next>>
    BY DEF Exit, input, platform
  <1>2. DOMAIN binHandles' = {}
    BY <1>1 DEF NoKernels
  <1> QED
    BY <1>1, <1>2 DEF HandlesInv, Steps

LEMMA HandlesStep ==
  ASSUME HandlesInv, [Next]_vars
  PROVE  HandlesInv'
  <1>1. CASE LoadKernelBinarys
    BY <1>1, LoadStep
  <1>2. CASE CreateKernel
    BY <1>2, CreateStep
  <1>3. CASE Exit
    BY <1>3, ExitStep
  <1>4. CASE Next /\ ~LoadKernelBinarys /\ ~CreateKernel /\ ~Exit
    <2>1. /\ UNCHANGED <<binHandles, modules, next>>
          /\ pc' \in Steps /\ (pc' = "binaries" <=> pc = "binaries")
      BY <1>4, OtherSteps
    <2> QED
      BY <1>4, <2>1, AllHandlesStay DEF HandlesInv
  <1>5. CASE UNCHANGED vars
    <2>1. UNCHANGED <<registered, pc, next, binHandles, modules, info>>
      BY <1>5 DEF vars, loader, platform
    <2> QED
      BY <2>1 DEF HandlesInv, HandleInv, FirstFitting, Fits, device, NamesFirst, TellsTruth
  <1> QED
    BY <1>1, <1>2, <1>3, <1>4, <1>5

LEMMA HandlesInit ==
  ASSUME Init
  PROVE  HandlesInv
  <1>1. registered \in Library /\ pc = "binaries" /\ next = 0 /\ DOMAIN binHandles = {}
    BY DEF Init, NoKernels
  <1>2. Len(registered.creators) \in Nat
    BY <1>1, LoaderAssumption, LenProperties
  <1> QED
    BY <1>1, <1>2 DEF HandlesInv, Steps

(* Whatever was registered and whichever calls failed, a handle holds a     *)
(* binary for the device and says of the runtime only what is so.           *)
THEOREM HandlesHold == Spec => []HandlesInv
  BY HandlesInit, HandlesStep, PTL DEF Spec

(* A handle that says its code is loaded has a function in the runtime and, *)
(* of a single kernel, a module there: also when a kernel is registered     *)
(* twice and its handle initialised again, and when the log macro calls the *)
(* runtime three times.                                                     *)
THEOREM LoadedIsRegistered == Spec => []LoadedMeansRegistered
  <1>1. HandlesInv => LoadedMeansRegistered
    BY DEF HandlesInv, HandleInv, TellsTruth, LoadedMeansRegistered
  <1> QED
    BY <1>1, HandlesHold, PTL

-----------------------------------------------------------------------------
(* ModulesReturned, of the handles f, module by module.                     *)
Accounted(f, held, lost) ==
  /\ \A x : x \in held <=> \/ x \in lost
                           \/ \E k \in DOMAIN f : f[k].module = x /\ x # NONE
  /\ NONE \notin lost
  /\ \A k \in DOMAIN f : f[k].module # NONE => f[k].module \notin lost
  /\ \A k, l \in DOMAIN f : f[k].module = f[l].module /\ f[k].module # NONE => k = l

LEMMA ReturnedAreAccounted ==
  Accounted(binHandles, modules, kept) <=> ModulesReturned /\ NONE \notin kept
  BY DEF ModulesReturned, Accounted

(* An Init registers modules of its own; one may be its handle's, which had *)
(* none then.                                                               *)
LEMMA InitAccounts ==
  ASSUME NEW f, NEW g, NEW kk \in DOMAIN f, NEW i, Accounted(f, modules, kept), Gains(i, f[kk]),
         DOMAIN g = DOMAIN f, g[kk] = i.handle, \A k \in DOMAIN f : k # kk => g[k] = f[k]
  PROVE  Accounted(g, modules \cup i.made, kept \cup i.lost)
  <1>3. NONE \notin kept \cup i.lost
    BY LoaderAssumption DEF Accounted, Gains
  <1>1. CASE i.handle.module = f[kk].module /\ i.lost = i.made
    <2>1. \A k \in DOMAIN f : g[k].module = f[k].module
      BY <1>1
    <2> QED
      BY <1>1, <1>3, <2>1 DEF Accounted, Gains
  <1>2. CASE /\ f[kk].module = NONE /\ i.handle.module \in i.made
             /\ i.lost = i.made \ {i.handle.module}
    <2>1. i.handle.module # NONE /\ i.handle.module \notin modules
      BY <1>2, LoaderAssumption DEF Gains
    <2>2. ASSUME NEW x
          PROVE  x \in modules \cup i.made <=>
                   \/ x \in kept \cup i.lost
                   \/ \E k \in DOMAIN g : g[k].module = x /\ x # NONE
      <3>1. CASE x = i.handle.module
        BY <1>2, <2>1, <3>1
      <3>2. CASE x # i.handle.module
        <4>1. \A k \in DOMAIN f : g[k].module = x /\ x # NONE <=> f[k].module = x /\ x # NONE
          BY <1>2, <3>2
        <4> QED
          BY <1>2, <3>2, <4>1 DEF Accounted
      <3> QED
        BY <3>1, <3>2
    <2>3. ASSUME NEW k \in DOMAIN g, g[k].module # NONE
          PROVE  g[k].module \notin kept \cup i.lost
      <3>1. CASE k = kk
        BY <1>2, <2>1, <3>1 DEF Accounted
      <3>2. CASE k # kk
        <4>1. g[k].module = f[k].module /\ f[k].module \in modules /\ f[k].module \notin kept
          BY <2>3, <3>2 DEF Accounted
        <4> QED
          BY <1>2, <4>1 DEF Gains
      <3> QED
        BY <3>1, <3>2
    <2>4. ASSUME NEW k \in DOMAIN g, NEW l \in DOMAIN g,
                 g[k].module = g[l].module, g[k].module # NONE
          PROVE  k = l
      <3>1. \A j \in DOMAIN f : j # kk /\ f[j].module # NONE => f[j].module \in modules
        BY DEF Accounted
      <3>2. CASE k = kk \/ l = kk
        BY <2>1, <2>4, <3>1, <3>2
      <3>3. CASE k # kk /\ l # kk
        BY <2>4, <3>3 DEF Accounted
      <3> QED
        BY <3>2, <3>3
    <2> QED
      BY <1>3, <2>2, <2>3, <2>4 DEF Accounted
  <1> QED
    BY <1>1, <1>2 DEF Gains

LEMMA ModulesStep ==
  ASSUME HandlesInv, Accounted(binHandles, modules, kept), [Next]_vars
  PROVE  Accounted(binHandles, modules, kept)'
  <1>1. CASE LoadKernelBinarys
    <2>1. modules' = modules /\ kept' = kept /\ DOMAIN binHandles = {}
      BY <1>1, LoadStep DEF HandlesInv, LoadKernelBinarys
    <2>2. \A k \in DOMAIN binHandles' : binHandles'[k].module = NONE
      BY <1>1, LoadStep
    <2> QED
      BY <2>1, <2>2 DEF Accounted
  <1>2. CASE CreateKernel
    <2> DEFINE kk == registered.creators[next'].kernel
    <2>1. CASE kk \notin DOMAIN binHandles
      <3>1. binHandles' = binHandles /\ modules' = modules /\ kept' = kept
        BY <1>2, <2>1, CreateKernelParts
      <3> QED
        BY <3>1 DEF Accounted
    <2>2. CASE kk \in DOMAIN binHandles
      <3>1. PICK i \in InitHandle(binHandles[kk]) :
              /\ binHandles' = [binHandles EXCEPT ![kk] = i.handle]
              /\ modules' = modules \cup i.made /\ kept' = kept \cup i.lost
        BY <1>2, <2>2, CreateKernelParts
      <3> HIDE DEF kk
      <3>2. Gains(i, binHandles[kk])
        BY <2>2, <3>1, InitHandleEffect DEF HandlesInv, HandleInv
      <3>3. /\ DOMAIN binHandles' = DOMAIN binHandles /\ binHandles'[kk] = i.handle
            /\ \A k \in DOMAIN binHandles : k # kk => binHandles'[k] = binHandles[k]
        BY <2>2, <3>1
      <3>4. Accounted(binHandles', modules \cup i.made, kept \cup i.lost)
        BY <2>2, <3>2, <3>3, InitAccounts, Zenon
      <3> QED
        BY <3>1, <3>4, Zenon
    <2> QED
      BY <2>1, <2>2
  <1>3. CASE Exit
    <2>1. /\ modules' = modules \ {binHandles[k].module : k \in DOMAIN binHandles}
          /\ kept' = kept
      BY <1>3 DEF Exit
    <2>2. DOMAIN binHandles' = {}
      BY <1>3, ExitStep
    <2>3. \A x : x \in modules' <=> x \in kept
      BY <2>1 DEF Accounted
    <2> QED
      BY <2>1, <2>2, <2>3 DEF Accounted
  <1>4. CASE Next /\ ~LoadKernelBinarys /\ ~CreateKernel /\ ~Exit
    <2>1. UNCHANGED <<binHandles, modules, kept>>
      BY <1>4, OtherSteps
    <2> QED
      BY <2>1 DEF Accounted
  <1>5. CASE UNCHANGED vars
    BY <1>5 DEF vars, loader, Accounted
  <1> QED
    BY <1>1, <1>2, <1>3, <1>4, <1>5

(* Every module the runtime holds is that of one handle, in whatever order  *)
(* calls failed and however often they were made again, or one that no      *)
(* handle can give back; and at exit only these are left.                   *)
THEOREM ModulesAreReturned == Spec => []ModulesReturned
  <1> DEFINE A == Accounted(binHandles, modules, kept)
  <1>1. Init => A
    BY DEF Init, NoKernels, Accounted
  <1>2. HandlesInv /\ A /\ [Next]_vars => A'
    BY ModulesStep
  <1>3. A => ModulesReturned
    BY ReturnedAreAccounted
  <1> QED
    BY <1>1, <1>2, <1>3, HandlesHold, PTL DEF Spec

-----------------------------------------------------------------------------
(* A map with an entry more.                                                *)
LEMMA Extended ==
  ASSUME NEW f, NEW x, NEW v
  PROVE  /\ DOMAIN Extend(f, x, v) = DOMAIN f \cup {x}
         /\ Extend(f, x, v)[x] = v
         /\ \A y \in DOMAIN f : y # x => Extend(f, x, v)[y] = f[y]
  BY DEF Extend

(* AddAllOperations takes each kernel from an operation that has it.        *)
LEMMA AddAllParts ==
  ASSUME AddAllOperations
  PROVE  /\ pc = "schedule" /\ pc' = "ready"
         /\ UNCHANGED <<registered, info, next, left, loadSuccess, opMap, binHandles,
                        opKernelMap, kernelMaps, modules>>
         /\ ~loadSuccess => schedule' = schedule
         /\ loadSuccess =>
              /\ schedule'.operations = DOMAIN opMap
              /\ DOMAIN schedule'.kernels = UNION {DOMAIN kernelMaps[op] : op \in DOMAIN kernelMaps}
              /\ \A k \in DOMAIN schedule'.kernels :
                   \E op \in DOMAIN kernelMaps : /\ k \in DOMAIN kernelMaps[op]
                                                 /\ schedule'.kernels[k] = kernelMaps[op][k]
  <1>1. /\ pc = "schedule" /\ pc' = "ready"
        /\ UNCHANGED <<registered, info, next, left, loadSuccess, opMap, binHandles,
                       opKernelMap, kernelMaps, modules>>
        /\ ~loadSuccess => schedule' = schedule
    BY DEF AddAllOperations, input, platform
  <1>2. ASSUME loadSuccess
        PROVE  /\ schedule'.operations = DOMAIN opMap
               /\ DOMAIN schedule'.kernels = UNION {DOMAIN kernelMaps[op] : op \in DOMAIN kernelMaps}
               /\ \A k \in DOMAIN schedule'.kernels :
                    \E op \in DOMAIN kernelMaps : /\ k \in DOMAIN kernelMaps[op]
                                                  /\ schedule'.kernels[k] = kernelMaps[op][k]
    <2> DEFINE named == UNION {DOMAIN kernelMaps[op] : op \in DOMAIN kernelMaps}
               having(k) == {op \in DOMAIN kernelMaps : k \in DOMAIN kernelMaps[op]}
    <2>1. PICK first \in [named -> DOMAIN kernelMaps] :
            /\ \A k \in named : first[k] \in having(k)
            /\ schedule' = [operations |-> DOMAIN opMap,
                            kernels |-> [k \in named |-> kernelMaps[first[k]][k]]]
      BY <1>2 DEF AddAllOperations, KernelsByName
    <2> HIDE DEF named
    <2>2. schedule'.operations = DOMAIN opMap /\ DOMAIN schedule'.kernels = named
      BY <2>1
    <2>3. ASSUME NEW k \in named
          PROVE  /\ schedule'.kernels[k] = kernelMaps[first[k]][k]
                 /\ first[k] \in DOMAIN kernelMaps /\ k \in DOMAIN kernelMaps[first[k]]
      BY <2>1
    <2> QED
      BY <2>2, <2>3 DEF named
  <1> QED
    BY <1>1, <1>2

LEMMA KernelsStep ==
  ASSUME HandlesInv, KernelsInv, [Next]_vars
  PROVE  KernelsInv'
  <1>1. CASE CreateKernel
    <2>1. pc = "kernels" /\ pc' \in {"kernels", "schedule"} /\ UNCHANGED <<kernelMaps, schedule>>
      BY <1>1, CreateKernelParts
    <2> QED
      BY <2>1 DEF KernelsInv
  <1>2. ASSUME NEW op \in left, AddKernels(op)
        PROVE  KernelsInv'
    <2>1. /\ pc = "add" /\ pc' \in {"add", "schedule"} /\ UNCHANGED <<opKernelMap, schedule>>
          /\ \/ kernelMaps' = kernelMaps
             \/ op \in DOMAIN opKernelMap /\ kernelMaps' = Extend(kernelMaps, op, opKernelMap[op])
      BY <1>2 DEF AddKernels
    <2>2. CASE kernelMaps' = kernelMaps
      BY <2>1, <2>2 DEF KernelsInv
    <2>3. CASE op \in DOMAIN opKernelMap /\ kernelMaps' = Extend(kernelMaps, op, opKernelMap[op])
      <3>1. /\ DOMAIN kernelMaps' = DOMAIN kernelMaps \cup {op}
            /\ kernelMaps'[op] = opKernelMap[op]
            /\ \A o \in DOMAIN kernelMaps : o # op => kernelMaps'[o] = kernelMaps[o]
        BY <2>3 DEF Extend
      <3>2. ASSUME NEW o \in DOMAIN kernelMaps'
            PROVE  o \in DOMAIN opKernelMap' /\ kernelMaps'[o] = opKernelMap'[o]
        BY <2>1, <2>3, <3>1 DEF KernelsInv
      <3>3. DOMAIN schedule'.kernels = {}
        BY <2>1 DEF KernelsInv
      <3> QED
        BY <2>1, <3>2, <3>3 DEF KernelsInv
    <2> QED
      BY <2>1, <2>2, <2>3
  <1>3. CASE AddAllOperations
    BY <1>3, AddAllParts DEF KernelsInv
  <1>4. CASE UsePlatform \/ UNCHANGED vars
    BY <1>4 DEF UsePlatform, vars, loader, KernelsInv
  <1>5. CASE LoadKernelBinarys \/ CreateOperations \/ KernelsCreated \/ Loaded \/ Exit
    BY <1>5 DEF LoadKernelBinarys, CreateOperations, KernelsCreated, Loaded, Exit, KernelsInv
  <1> QED
    BY <1>1, <1>2, <1>3, <1>4, <1>5 DEF Next

(* The schedule's kernels are those that creators made and AddKernels gave  *)
(* to operations.                                                           *)
LEMMA KernelsHold == Spec => []KernelsInv
  <1>1. Init => KernelsInv
    BY DEF Init, NoKernels, KernelsInv
  <1>2. HandlesInv /\ KernelsInv /\ [Next]_vars => KernelsInv'
    BY KernelsStep
  <1> QED
    BY <1>1, <1>2, HandlesHold, PTL DEF Spec

-----------------------------------------------------------------------------
(* Of kernels that are registered once each, the handle of one is not used  *)
(* again once the kernel is there.                                          *)
LEMMA CreatesPrototype ==
  ASSUME OneCreatorEach, HandlesInv, PrototypesInv, CreateKernel
  PROVE  PrototypesInv'
  <1> DEFINE c == registered.creators[next']
             kk == c.kernel
             Kept(op, k) == /\ k \in DOMAIN opKernelMap[op] /\ op \in DOMAIN opKernelMap
                            /\ opKernelMap'[op][k] = opKernelMap[op][k]
             Good(op, k) == /\ k \in DOMAIN binHandles'
                            /\ \E j \in 1 .. next' : registered'.creators[j].kernel = k
                            /\ opKernelMap'[op][k].launchBufferSize = TilingSize(binHandles'[k])
  <1>1. /\ pc = "kernels" /\ pc' # "exited"
        /\ next \in Nat /\ next' = next + 1 /\ next' \in 1 .. Len(registered.creators)
        /\ registered' = registered
    BY CreateKernelParts, LenProperties, LoaderAssumption DEF HandlesInv
  <1>2. registered \in Library /\ DOMAIN registered.creators = 1 .. Len(registered.creators)
    BY LoaderAssumption, LenProperties DEF HandlesInv
  <1>3. ASSUME NEW op, NEW k, Kept(op, k)
        PROVE  k # kk /\ k \in DOMAIN binHandles
               /\ opKernelMap[op][k].launchBufferSize = TilingSize(binHandles[k])
               /\ \E j \in 1 .. next' : registered'.creators[j].kernel = k
    <2>1. /\ k \in DOMAIN binHandles
          /\ opKernelMap[op][k].launchBufferSize = TilingSize(binHandles[k])
          /\ \E j \in 1 .. next : registered.creators[j].kernel = k
      BY <1>1, <1>3 DEF PrototypesInv
    <2>2. PICK j \in 1 .. next : registered.creators[j].kernel = k
      BY <2>1
    <2>3. j \in DOMAIN registered.creators /\ next' \in DOMAIN registered.creators /\ j # next'
          /\ j \in 1 .. next'
      BY <1>1, <1>2
    <2>4. k # kk
      BY <1>2, <2>2, <2>3 DEF OneCreatorEach
    <2> QED
      BY <1>1, <2>1, <2>2, <2>3, <2>4
  <1>4. CASE kk \notin DOMAIN binHandles
    <2>1. binHandles' = binHandles /\ opKernelMap' = opKernelMap
      BY <1>4, CreateKernelParts
    <2>2. ASSUME NEW op \in DOMAIN opKernelMap', NEW k \in DOMAIN opKernelMap'[op]
          PROVE  Good(op, k)
      BY <1>3, <2>1
    <2> QED
      BY <2>2 DEF PrototypesInv
  <1>5. CASE kk \in DOMAIN binHandles
    <2>1. PICK i \in InitHandle(binHandles[kk]) :
            /\ binHandles' = [binHandles EXCEPT ![kk] = i.handle]
            /\ \/ opKernelMap' = opKernelMap
               \/ LET kernels == IF c.op \in DOMAIN opKernelMap
                                 THEN opKernelMap[c.op] ELSE NoKernels
                  IN opKernelMap' = Extend(opKernelMap, c.op,
                                      Extend(kernels, kk, NewKernel(kk, i.handle)))
      BY <1>5, CreateKernelParts
    <2> DEFINE kernels == IF c.op \in DOMAIN opKernelMap THEN opKernelMap[c.op] ELSE NoKernels
               more == Extend(kernels, kk, NewKernel(kk, i.handle))
    <2>2. kk = registered.creators[next'].kernel
      OBVIOUS
    <2> HIDE DEF c, kk
    <2>3. /\ DOMAIN binHandles' = DOMAIN binHandles /\ binHandles'[kk] = i.handle
          /\ \A k \in DOMAIN binHandles : k # kk => binHandles'[k] = binHandles[k]
      BY <1>5, <2>1
    <2>4. ASSUME NEW op, NEW k, Kept(op, k)
          PROVE  Good(op, k)
      BY <1>3, <2>3, <2>4
    <2>5. CASE opKernelMap' = opKernelMap
      <3>1. ASSUME NEW op \in DOMAIN opKernelMap', NEW k \in DOMAIN opKernelMap'[op]
            PROVE  Good(op, k)
        BY <2>4, <2>5
      <3> QED
        BY <3>1 DEF PrototypesInv
    <2>6. CASE opKernelMap' = Extend(opKernelMap, c.op, more)
      <3>1. /\ DOMAIN opKernelMap' = DOMAIN opKernelMap \cup {c.op}
            /\ opKernelMap'[c.op] = more
            /\ \A o \in DOMAIN opKernelMap : o # c.op => opKernelMap'[o] = opKernelMap[o]
        BY <2>6 DEF Extend
      <3>2. /\ DOMAIN more = DOMAIN kernels \cup {kk}
            /\ more[kk] = NewKernel(kk, i.handle)
            /\ \A k \in DOMAIN kernels : k # kk => more[k] = kernels[k]
        BY DEF Extend
      <3>3. \A k \in DOMAIN kernels : c.op \in DOMAIN opKernelMap /\ kernels = opKernelMap[c.op]
        BY DEF NoKernels
      <3> HIDE DEF more, kernels
      <3>4. ASSUME NEW op \in DOMAIN opKernelMap', NEW k \in DOMAIN opKernelMap'[op]
            PROVE  Good(op, k)
        <4>1. CASE op # c.op
          BY <2>4, <3>1, <3>4, <4>1
        <4>2. CASE op = c.op /\ k = kk
          <5>1. opKernelMap'[op][k] = NewKernel(kk, i.handle)
            BY <3>1, <3>2, <4>2
          <5>2. opKernelMap'[op][k].launchBufferSize = TilingSize(binHandles'[k])
            BY <2>3, <4>2, <5>1 DEF NewKernel
          <5>3. \E j \in 1 .. next' : registered'.creators[j].kernel = k
            BY <1>1, <2>2, <4>2
          <5> QED
            BY <1>5, <2>3, <4>2, <5>2, <5>3
        <4>3. CASE op = c.op /\ k # kk
          <5>1. k \in DOMAIN kernels /\ opKernelMap'[op][k] = kernels[k]
            BY <3>1, <3>2, <3>4, <4>3
          <5>2. Kept(op, k)
            BY <3>3, <4>3, <5>1
          <5> QED
            BY <2>4, <5>2
        <4> QED
          BY <4>1, <4>2, <4>3
      <3> QED
        BY <3>4 DEF PrototypesInv
    <2> QED
      BY <2>1, <2>5, <2>6 DEF kk
  <1> QED
    BY <1>4, <1>5

LEMMA PrototypesStep ==
  ASSUME OneCreatorEach, HandlesInv, PrototypesInv, [Next]_vars
  PROVE  PrototypesInv'
  <1>1. CASE LoadKernelBinarys
    <2>1. pc = "binaries" /\ DOMAIN binHandles = {} /\ opKernelMap' = opKernelMap
      BY <1>1 DEF LoadKernelBinarys, HandlesInv
    <2> QED
      BY <2>1 DEF PrototypesInv
  <1>2. CASE CreateKernel
    BY <1>2, CreatesPrototype
  <1>3. CASE Exit
    BY <1>3 DEF Exit, PrototypesInv
  <1>4. CASE Next /\ ~LoadKernelBinarys /\ ~CreateKernel /\ ~Exit
    <2>1. UNCHANGED <<binHandles, opKernelMap, next, registered>> /\ pc # "exited"
      BY <1>4, OtherSteps, DeviceStays
    <2> QED
      BY <2>1 DEF PrototypesInv
  <1>5. CASE UNCHANGED vars
    BY <1>5 DEF vars, loader, PrototypesInv
  <1> QED
    BY <1>1, <1>2, <1>3, <1>4, <1>5

(* A kernel of the schedule and its clones reserve the same tiling, that of *)
(* the first binary for the device or none, however the Init of its handle  *)
(* went; when no two kernels are registered under one name, which the       *)
(* linker sees to within a library.                                         *)
THEOREM ClonesAreLikePrototypes ==
  ASSUME OneCreatorEach
  PROVE  Spec => []CloneLikePrototype
  <1>1. Init => PrototypesInv
    BY DEF Init, NoKernels, PrototypesInv
  <1>2. HandlesInv /\ PrototypesInv /\ [Next]_vars => PrototypesInv'
    BY PrototypesStep
  <1>3. HandlesInv /\ KernelsInv /\ PrototypesInv => CloneLikePrototype
    <2> SUFFICES ASSUME HandlesInv, KernelsInv, PrototypesInv, pc = "ready",
                        NEW k \in DOMAIN schedule.kernels
                 PROVE  LET size == schedule.kernels[k].launchBufferSize
                        IN /\ size = TilingSize(binHandles[k])
                           /\ \E i \in FirstFitting(k) :
                                size \in {0, registered.binaries[k][i].tiling}
      BY DEF CloneLikePrototype
    <2>1. PICK op \in DOMAIN kernelMaps :
            k \in DOMAIN kernelMaps[op] /\ schedule.kernels[k] = kernelMaps[op][k]
      BY DEF KernelsInv
    <2>2. op \in DOMAIN opKernelMap /\ kernelMaps[op] = opKernelMap[op]
      BY <2>1 DEF KernelsInv
    <2>3. /\ k \in DOMAIN binHandles
          /\ schedule.kernels[k].launchBufferSize = TilingSize(binHandles[k])
      BY <2>1, <2>2 DEF PrototypesInv
    <2>4. \E i \in FirstFitting(k) : binHandles[k].bin = registered.binaries[k][i]
      BY <2>3 DEF HandlesInv, HandleInv
    <2> QED
      BY <2>3, <2>4 DEF TilingSize
  <1> QED
    BY <1>1, <1>2, <1>3, HandlesHold, KernelsHold, PTL DEF Spec

-----------------------------------------------------------------------------
(* What was created stays created.                                          *)
LEMMA CreatedStays ==
  ASSUME Next, info.constructed, CreatedSoFar, next' = next, opKernelMap' = opKernelMap
  PROVE  CreatedSoFar'
  BY DeviceStays, FittingStays DEF CreatedSoFar

LEMMA CreatesOne ==
  ASSUME HandlesInv, ProgressInv, CreateKernel
  PROVE  ProgressInv'
  <1> DEFINE c == registered.creators[next']
             kk == c.kernel
  <1>1. /\ pc = "kernels" /\ pc' \in {"kernels", "schedule"}
        /\ next \in Nat /\ next' = next + 1
        /\ UNCHANGED <<registered, loadSuccess, opMap>> /\ ~loadSuccess
    BY CreateKernelParts, LoaderAssumption, LenProperties DEF HandlesInv, ProgressInv
  <1>2. Next /\ info.constructed
    BY <1>1 DEF HandlesInv, Next
  <1>3. DOMAIN binHandles' = DOMAIN binHandles
    BY CreateKernelParts
  <1>4. \A k : FirstFitting(k)' = FirstFitting(k) /\ (Fitting(k)' <=> Fitting(k))
    BY <1>2, FittingStays
  <1>5. pc' = "kernels" => CreatedSoFar'
    <2> SUFFICES ASSUME pc' = "kernels", NEW j \in 1 .. next',
                        Fitting(registered.creators[j].kernel)
                 PROVE  /\ registered.creators[j].op \in DOMAIN opKernelMap'
                        /\ registered.creators[j].kernel
                             \in DOMAIN opKernelMap'[registered.creators[j].op]
      BY <1>1, <1>4 DEF CreatedSoFar
    <2> DEFINE d == registered.creators[j]
    <2>1. CASE kk \notin DOMAIN binHandles
      <3>1. opKernelMap' = opKernelMap
        BY <2>1, CreateKernelParts
      <3>2. ~Fitting(kk)
        BY <1>1, <2>1, FirstOfFitting DEF ProgressInv, HandlesInv
      <3>3. j # next'
        BY <3>2
      <3>4. j \in 1 .. next
        BY <1>1, <3>3
      <3> QED
        BY <1>1, <3>1, <3>4 DEF ProgressInv, CreatedSoFar
    <2>2. CASE kk \in DOMAIN binHandles
      <3>1. PICK i \in InitHandle(binHandles[kk]) :
              LET kernels == IF c.op \in DOMAIN opKernelMap THEN opKernelMap[c.op] ELSE NoKernels
              IN opKernelMap' = Extend(opKernelMap, c.op,
                                  Extend(kernels, kk, NewKernel(kk, i.handle)))
        BY <2>2, CreateKernelParts
      <3> DEFINE kernels == IF c.op \in DOMAIN opKernelMap THEN opKernelMap[c.op] ELSE NoKernels
                 more == Extend(kernels, kk, NewKernel(kk, i.handle))
      <3>2. DOMAIN more = DOMAIN kernels \cup {kk}
        BY DEF Extend
      <3>3. c.op \in DOMAIN opKernelMap => kernels = opKernelMap[c.op]
        OBVIOUS
      <3>4. opKernelMap' = Extend(opKernelMap, c.op, more)
        BY <3>1
      <3> HIDE DEF more, kernels
      <3>5. /\ DOMAIN opKernelMap' = DOMAIN opKernelMap \cup {c.op}
            /\ opKernelMap'[c.op] = more
            /\ \A o \in DOMAIN opKernelMap : o # c.op => opKernelMap'[o] = opKernelMap[o]
        BY <3>4 DEF Extend
      <3>6. CASE j = next'
        BY <3>2, <3>5, <3>6
      <3>7. CASE j # next'
        <4>1. j \in 1 .. next
          BY <1>1, <3>7
        <4>2. d.op \in DOMAIN opKernelMap /\ d.kernel \in DOMAIN opKernelMap[d.op]
          BY <1>1, <4>1 DEF ProgressInv, CreatedSoFar
        <4> QED
          BY <3>2, <3>3, <3>5, <4>2
      <3> QED
        BY <3>6, <3>7
    <2> QED
      BY <2>1, <2>2
  <1>6. OperationNames' = OperationNames
    BY <1>1 DEF OperationNames
  <1> QED
    BY <1>1, <1>3, <1>4, <1>5, <1>6 DEF ProgressInv

LEMMA AddsOne ==
  ASSUME HandlesInv, ProgressInv, NEW op \in left, AddKernels(op)
  PROVE  ProgressInv'
  <1>1. /\ pc = "add" /\ pc' \in {"add", "schedule"}
        /\ UNCHANGED <<registered, info, next, loadSuccess, opMap, binHandles, opKernelMap>>
        /\ ~loadSuccess /\ Next /\ info.constructed
    BY DEF AddKernels, input, platform, ProgressInv, HandlesInv, Next
  <1>2. pc' = "add" =>
          /\ left' = left \ {op}
          /\ \A o \in DOMAIN kernelMaps : o \in DOMAIN kernelMaps'
          /\ op \in DOMAIN opKernelMap => op \in DOMAIN kernelMaps'
    <2> SUFFICES ASSUME pc' = "add"
                 PROVE  /\ left' = left \ {op}
                        /\ \A o \in DOMAIN kernelMaps : o \in DOMAIN kernelMaps'
                        /\ op \in DOMAIN opKernelMap => op \in DOMAIN kernelMaps'
      OBVIOUS
    <2>1. /\ left' = left \ {op}
          /\ kernelMaps' = IF op \in DOMAIN opKernelMap
                           THEN Extend(kernelMaps, op, opKernelMap[op]) ELSE kernelMaps
      BY <1>1 DEF AddKernels
    <2> QED
      BY <2>1 DEF Extend
  <1>3. pc' = "add" => AddedSoFar'
    BY <1>1, <1>2 DEF ProgressInv, AddedSoFar
  <1>4. CreatedSoFar' /\ OperationNames' = OperationNames
    BY <1>1, CreatedStays DEF ProgressInv, OperationNames
  <1>5. \A k : FirstFitting(k)' = FirstFitting(k)
    BY <1>1, FittingStays
  <1> QED
    BY <1>1, <1>3, <1>4, <1>5 DEF ProgressInv

(* CreateOperations makes all of them when no creator fails.                *)
LEMMA CreatesOperations ==
  ASSUME HandlesInv, ProgressInv, CreateOperations
  PROVE  ProgressInv'
  <1>1. /\ pc = "operations" /\ pc' \in {"kernels", "schedule"}
        /\ UNCHANGED <<registered, info, next, left, loadSuccess, binHandles, opKernelMap>>
        /\ ~loadSuccess /\ next = 0 /\ Next /\ info.constructed
    BY DEF CreateOperations, input, platform, ProgressInv, HandlesInv, Next
  <1>2. pc' = "kernels" => DOMAIN opMap' = OperationNames
    <2> DEFINE ops == registered.operations
               nulls == {i \in DOMAIN ops : ops[i].kind = "null"}
               done == {i \in DOMAIN ops : \A j \in nulls : i < j}
    <2>1. /\ DOMAIN opMap' = {ops[i].name : i \in done}
          /\ pc' = "kernels" => nulls = {}
      BY DEF CreateOperations
    <2> QED
      BY <2>1 DEF OperationNames
  <1>3. CreatedSoFar'
    BY <1>1 DEF CreatedSoFar
  <1>4. OperationNames' = OperationNames
    BY <1>1 DEF OperationNames
  <1>5. \A k : FirstFitting(k)' = FirstFitting(k)
    BY <1>1, FittingStays
  <1> QED
    BY <1>1, <1>2, <1>3, <1>4, <1>5 DEF ProgressInv

LEMMA ProgressStep ==
  ASSUME HandlesInv, KernelsInv, ProgressInv, [Next]_vars
  PROVE  ProgressInv'
  <1>1. CASE LoadKernelBinarys
    <2>1. /\ pc = "binaries" /\ ~loadSuccess /\ info.constructed /\ Next
          /\ pc' \in {"operations", "schedule"} /\ UNCHANGED <<registered, next, loadSuccess>>
      BY <1>1 DEF LoadKernelBinarys, input, ProgressInv, Next
    <2>2. \A k : FirstFitting(k)' = FirstFitting(k)
      BY <2>1, FittingStays
    <2>3. pc' = "operations" =>
            DOMAIN binHandles' = {k \in DOMAIN registered.binaries : FirstFitting(k) # {}}
      BY <1>1, LoadStep
    <2> QED
      BY <2>1, <2>2, <2>3 DEF ProgressInv
  <1>2. CASE CreateOperations
    BY <1>2, CreatesOperations
  <1>3. CASE CreateKernel
    BY <1>3, CreatesOne
  <1>4. CASE KernelsCreated
    <2>1. /\ pc = "kernels" /\ pc' = "add" /\ left' = DOMAIN opMap
          /\ next = Len(registered.creators) /\ ~loadSuccess /\ info.constructed /\ Next
          /\ UNCHANGED <<registered, next, loadSuccess, opMap, binHandles, opKernelMap>>
      BY <1>4 DEF KernelsCreated, input, ProgressInv, HandlesInv, Next
    <2>2. CreatedSoFar' /\ OperationNames' = OperationNames
      BY <2>1, CreatedStays DEF ProgressInv, OperationNames
    <2>3. \A k : FirstFitting(k)' = FirstFitting(k)
      BY <2>1, FittingStays
    <2>4. AddedSoFar'
      BY <2>1 DEF AddedSoFar
    <2> QED
      BY <2>1, <2>2, <2>3, <2>4 DEF ProgressInv
  <1>5. ASSUME NEW op \in left, AddKernels(op)
        PROVE  ProgressInv'
    BY <1>5, AddsOne
  <1>6. CASE Loaded
    <2>1. /\ pc = "add" /\ pc' = "schedule" /\ left = {} /\ info.constructed /\ Next
          /\ UNCHANGED <<registered, next, left, opMap, opKernelMap, kernelMaps>>
      BY <1>6 DEF Loaded, input, ProgressInv, HandlesInv, Next
    <2>2. CreatedSoFar' /\ OperationNames' = OperationNames
      BY <2>1, CreatedStays DEF ProgressInv, OperationNames
    <2>3. AddedSoFar'
      BY <2>1 DEF ProgressInv, AddedSoFar
    <2> QED
      BY <2>1, <2>2, <2>3 DEF ProgressInv
  <1>7. CASE AddAllOperations
    <2>1. /\ pc = "schedule" /\ pc' = "ready" /\ info.constructed /\ Next
          /\ UNCHANGED <<registered, next, left, loadSuccess, opMap, opKernelMap, kernelMaps>>
      BY <1>7, AddAllParts DEF ProgressInv, HandlesInv, Next
    <2>2. loadSuccess => CreatedSoFar' /\ OperationNames' = OperationNames /\ AddedSoFar'
      BY <2>1, CreatedStays DEF ProgressInv, OperationNames, AddedSoFar
    <2>3. loadSuccess =>
            /\ schedule'.operations = DOMAIN opMap
            /\ \A op \in DOMAIN kernelMaps : DOMAIN kernelMaps[op] \subseteq DOMAIN schedule'.kernels
      BY <1>7, AddAllParts
    <2> QED
      BY <2>1, <2>2, <2>3 DEF ProgressInv
  <1>8. CASE Exit
    <2>1. /\ pc = "ready" /\ pc' = "exited" /\ info.constructed /\ Next
          /\ UNCHANGED <<registered, next, left, loadSuccess, opMap, opKernelMap, kernelMaps>>
      BY <1>8 DEF Exit, input, ProgressInv, HandlesInv, Next
    <2>2. loadSuccess => CreatedSoFar' /\ OperationNames' = OperationNames /\ AddedSoFar'
      BY <2>1, CreatedStays DEF ProgressInv, OperationNames, AddedSoFar
    <2> QED
      BY <2>1, <2>2 DEF ProgressInv
  <1>9. CASE UsePlatform
    <2>1. /\ pc \in {"binaries", "ready"} /\ Next /\ UNCHANGED loader
          /\ pc = "ready" => info.constructed
      BY <1>9 DEF UsePlatform, HandlesInv, Next
    <2>2. /\ loadSuccess => CreatedSoFar' /\ OperationNames' = OperationNames /\ AddedSoFar'
      BY <2>1, CreatedStays DEF loader, ProgressInv, OperationNames, AddedSoFar
    <2> QED
      BY <2>1, <2>2 DEF loader, ProgressInv
  <1>10. CASE UNCHANGED vars
    <2>1. UNCHANGED loader /\ info' = info
      BY <1>10 DEF vars, platform
    <2>2. \A k : FirstFitting(k)' = FirstFitting(k) /\ (Fitting(k)' <=> Fitting(k))
      BY <2>1 DEF loader, FirstFitting, Fitting, Fits, device
    <2>3. /\ CreatedSoFar' <=> CreatedSoFar
          /\ AddedSoFar' <=> AddedSoFar
          /\ OperationNames' = OperationNames
      BY <2>1, <2>2 DEF loader, CreatedSoFar, AddedSoFar, OperationNames
    <2> QED
      BY <2>1, <2>2, <2>3 DEF loader, ProgressInv
  <1> QED
    BY <1>1, <1>2, <1>3, <1>4, <1>5, <1>6, <1>7, <1>8, <1>9, <1>10 DEF Next

(* After a load that says it succeeded, the schedule has every registered   *)
(* operation and every kernel of one that has a binary for the device, by   *)
(* its name and through its operation: whatever Init of the handles did,    *)
(* in whatever order operations were given their kernels, and however many  *)
(* kernels have one name.                                                   *)
THEOREM LoadIsComplete == Spec => []Complete
  <1>1. Init => ProgressInv
    BY DEF Init, ProgressInv
  <1>2. HandlesInv /\ KernelsInv /\ ProgressInv /\ [Next]_vars => ProgressInv'
    BY ProgressStep
  <1>3. HandlesInv /\ KernelsInv /\ ProgressInv => Complete
    <2> SUFFICES ASSUME HandlesInv, KernelsInv, ProgressInv, pc = "ready", loadSuccess
                 PROVE  /\ schedule.operations = OperationNames
                        /\ \A i \in DOMAIN registered.creators :
                             LET c == registered.creators[i]
                             IN c.op \in OperationNames /\ Fitting(c.kernel) =>
                                  /\ c.kernel \in DOMAIN schedule.kernels
                                  /\ c.op \in DOMAIN kernelMaps
                                  /\ c.kernel \in DOMAIN kernelMaps[c.op]
      BY DEF Complete, OperationNames
    <2>1. schedule.operations = OperationNames /\ DOMAIN opMap = OperationNames
      BY DEF ProgressInv
    <2>2. DOMAIN registered.creators = 1 .. next
      BY LoaderAssumption, LenProperties DEF ProgressInv, HandlesInv
    <2>3. ASSUME NEW i \in DOMAIN registered.creators,
                 registered.creators[i].op \in OperationNames,
                 Fitting(registered.creators[i].kernel)
          PROVE  /\ registered.creators[i].kernel \in DOMAIN schedule.kernels
                 /\ registered.creators[i].op \in DOMAIN kernelMaps
                 /\ registered.creators[i].kernel
                      \in DOMAIN kernelMaps[registered.creators[i].op]
      <3> DEFINE c == registered.creators[i]
      <3>1. c.op \in DOMAIN opKernelMap /\ c.kernel \in DOMAIN opKernelMap[c.op]
        BY <2>2, <2>3 DEF ProgressInv, CreatedSoFar
      <3>2. c.op \in DOMAIN kernelMaps
        BY <2>1, <2>3, <3>1 DEF ProgressInv, AddedSoFar
      <3>3. kernelMaps[c.op] = opKernelMap[c.op]
        BY <3>2 DEF KernelsInv
      <3>4. DOMAIN kernelMaps[c.op] \subseteq DOMAIN schedule.kernels
        BY <3>2 DEF ProgressInv
      <3> QED
        BY <3>1, <3>2, <3>3, <3>4
    <2> QED
      BY <2>1, <2>3
  <1> QED
    BY <1>1, <1>2, <1>3, HandlesHold, KernelsHold, PTL DEF Spec

-----------------------------------------------------------------------------
(* Only a load that succeeded has filled the schedule.                      *)
ScheduleInv ==
  (schedule.operations = {} /\ DOMAIN schedule.kernels = {}) \/ loadSuccess

(* Until the handles go, every kernel there is has one.                     *)
MadeInv ==
  /\ pc = "binaries" => DOMAIN opKernelMap = {}
  /\ pc # "exited" =>
       \A op \in DOMAIN opKernelMap : DOMAIN opKernelMap[op] \subseteq DOMAIN binHandles

(* Ops hands out nothing of a load that failed and of one that succeeded    *)
(* only kernels whose handle has a binary for the device.                   *)
ForThisDevice ==
  \/ schedule.operations = {} /\ DOMAIN schedule.kernels = {}
  \/ /\ loadSuccess
     /\ pc = "ready" => \A k \in DOMAIN schedule.kernels :
          k \in DOMAIN binHandles /\ Fits(binHandles[k].bin)

LEMMA ScheduleStep ==
  ASSUME HandlesInv, ScheduleInv, [Next]_vars
  PROVE  ScheduleInv'
  <1>1. CASE CreateKernel
    <2>1. UNCHANGED <<loadSuccess, schedule>>
      BY <1>1, CreateKernelParts
    <2> QED
      BY <2>1 DEF ScheduleInv
  <1>2. ASSUME NEW op \in left, AddKernels(op)
        PROVE  ScheduleInv'
    BY <1>2 DEF AddKernels, ScheduleInv
  <1>3. CASE AddAllOperations
    BY <1>3, AddAllParts DEF ScheduleInv
  <1>4. CASE UsePlatform \/ UNCHANGED vars
    BY <1>4 DEF UsePlatform, vars, loader, ScheduleInv
  <1>5. CASE LoadKernelBinarys \/ CreateOperations \/ KernelsCreated \/ Loaded \/ Exit
    BY <1>5 DEF LoadKernelBinarys, CreateOperations, KernelsCreated, Loaded, Exit, ScheduleInv
  <1> QED
    BY <1>1, <1>2, <1>3, <1>4, <1>5 DEF Next

(* A creator makes a kernel of a handle that is there.                      *)
LEMMA CreateMakes ==
  ASSUME HandlesInv, MadeInv, CreateKernel
  PROVE  MadeInv'
  <1> DEFINE c == registered.creators[next']
             kernels == IF c.op \in DOMAIN opKernelMap THEN opKernelMap[c.op] ELSE NoKernels
  <1>1. pc = "kernels" /\ pc' \in {"kernels", "schedule"}
    BY CreateKernelParts
  <1>2. CASE c.kernel \notin DOMAIN binHandles
    <2>1. UNCHANGED <<binHandles, opKernelMap>>
      BY <1>2, CreateKernelParts
    <2> QED
      BY <1>1, <2>1 DEF MadeInv
  <1>3. CASE c.kernel \in DOMAIN binHandles
    <2>1. PICK i \in InitHandle(binHandles[c.kernel]) :
            /\ binHandles' = [binHandles EXCEPT ![c.kernel] = i.handle]
            /\ \/ opKernelMap' = opKernelMap
               \/ opKernelMap' = Extend(opKernelMap, c.op,
                                   Extend(kernels, c.kernel, NewKernel(c.kernel, i.handle)))
      BY <1>3, CreateKernelParts
    <2> HIDE DEF c, kernels
    <2>2. DOMAIN binHandles' = DOMAIN binHandles
      BY <2>1
    <2>3. CASE opKernelMap' = opKernelMap
      BY <1>1, <2>2, <2>3 DEF MadeInv
    <2>4. CASE opKernelMap' = Extend(opKernelMap, c.op,
                                Extend(kernels, c.kernel, NewKernel(c.kernel, i.handle)))
      <3> DEFINE more == Extend(kernels, c.kernel, NewKernel(c.kernel, i.handle))
      <3>1. DOMAIN kernels \subseteq DOMAIN binHandles
        BY <1>1 DEF kernels, MadeInv, NoKernels
      <3>2. DOMAIN more \subseteq DOMAIN binHandles
        BY <1>3, <3>1 DEF Extend
      <3> HIDE DEF more
      <3>3. /\ DOMAIN opKernelMap' = DOMAIN opKernelMap \cup {c.op}
            /\ opKernelMap'[c.op] = more
            /\ \A op \in DOMAIN opKernelMap : op # c.op => opKernelMap'[op] = opKernelMap[op]
        BY <2>4 DEF more, Extend
      <3>4. ASSUME NEW op \in DOMAIN opKernelMap'
            PROVE  DOMAIN opKernelMap'[op] \subseteq DOMAIN binHandles'
        BY <1>1, <2>2, <3>2, <3>3, <3>4 DEF MadeInv
      <3> QED
        BY <1>1, <3>4 DEF MadeInv
    <2> QED
      BY <2>1, <2>3, <2>4
  <1> QED
    BY <1>2, <1>3

LEMMA MadeStep ==
  ASSUME HandlesInv, MadeInv, [Next]_vars
  PROVE  MadeInv'
  <1>1. CASE CreateKernel
    BY <1>1, CreateMakes
  <1>2. CASE LoadKernelBinarys
    <2>1. pc = "binaries" /\ opKernelMap' = opKernelMap
      BY <1>2 DEF LoadKernelBinarys
    <2> QED
      BY <2>1 DEF MadeInv
  <1>3. CASE Exit
    BY <1>3 DEF Exit, MadeInv
  <1>4. CASE Next /\ ~LoadKernelBinarys /\ ~CreateKernel /\ ~Exit
    BY <1>4, OtherSteps DEF MadeInv
  <1>5. CASE UNCHANGED vars
    BY <1>5 DEF vars, loader, MadeInv
  <1> QED
    BY <1>1, <1>2, <1>3, <1>4, <1>5

(* Whatever fails on the way, Ops answers from a load that succeeded or has *)
(* nothing to answer with; and the kernels it hands out have a handle, with *)
(* a binary for the device PlatformInfo has named, while the process runs.  *)
THEOREM KernelsFitDevice == Spec => []ForThisDevice
  <1>1. Init => ScheduleInv /\ MadeInv
    BY DEF Init, NoKernels, ScheduleInv, MadeInv
  <1>2. HandlesInv /\ ScheduleInv /\ MadeInv /\ [Next]_vars => ScheduleInv' /\ MadeInv'
    BY ScheduleStep, MadeStep
  <1>3. HandlesInv /\ KernelsInv /\ ScheduleInv /\ MadeInv => ForThisDevice
    <2> SUFFICES ASSUME HandlesInv, KernelsInv, MadeInv, pc = "ready",
                        NEW k \in DOMAIN schedule.kernels
                 PROVE  k \in DOMAIN binHandles /\ Fits(binHandles[k].bin)
      BY DEF ScheduleInv, ForThisDevice
    <2>1. k \in DOMAIN binHandles
      BY DEF KernelsInv, MadeInv
    <2>2. \E i \in FirstFitting(k) : binHandles[k].bin = registered.binaries[k][i]
      BY <2>1 DEF HandlesInv, HandleInv
    <2> QED
      BY <2>1, <2>2 DEF FirstFitting
  <1> QED
    BY <1>1, <1>2, <1>3, HandlesHold, KernelsHold, PTL DEF Spec

-----------------------------------------------------------------------------
(* What PlatformManager has is what a file says that has the version, and   *)
(* once it is initialised it has the versions of all the files.             *)
AllTidy == \A file \in Files : Tidy(file)

ConfiguredBy(v, configs) == \E file \in FilesOf(v) : configs = ParsePlatformInfo(Said[file])

Configured(map) == \A v \in DOMAIN map : ConfiguredBy(v, map[v])

VersionsIn(map, n) ==
  \A i, j \in 1 .. n : \A v \in Versions(directory[i]) :
    v \in DOMAIN map /\ (v \in Versions(directory[j]) => i = j)

ManagerInv ==
  /\ directory \in Directories
  /\ Configured(configsMap)
  /\ initFlag => VersionsIn(configsMap, Len(directory))

LEMMA FileSaid ==
  ASSUME AllTidy, NEW file \in Files
  PROVE  Contents[file] = Said[file]
  BY PlatformAssumption, FileIsAsItSays DEF AllTidy, Contents, Said

LEMMA DirectoryFiles ==
  ASSUME directory \in Directories
  PROVE  /\ Len(directory) \in Nat /\ DOMAIN directory = 1 .. Len(directory)
         /\ \A i \in 1 .. Len(directory) : directory[i] \in Files /\ directory[i] \in ToSet(directory)
         /\ \A file \in ToSet(directory) : \E i \in 1 .. Len(directory) : file = directory[i]
  <1>1. directory \in Seq(Files)
    BY PlatformAssumption
  <1>2. Len(directory) \in Nat /\ DOMAIN directory = 1 .. Len(directory)
    BY <1>1
  <1>3. \A i \in 1 .. Len(directory) : directory[i] \in Files
    BY <1>1
  <1> QED
    BY <1>2, <1>3 DEF ToSet

(* GetPlatformSpec finds one value or none.                                 *)
LEMMA SpecIs ==
  ASSUME NEW configs, NEW label, NEW key
  PROVE  \/ GetPlatformSpec(configs, label, key) = {}
         \/ \E x : GetPlatformSpec(configs, label, key) = {x}
  BY DEF GetPlatformSpec

(* One file more.                                                           *)
ReadFiles(i, r) ==
  /\ r = [ok |-> r.ok, map |-> r.map]
  /\ r.ok \in BOOLEAN
  /\ Configured(r.map)
  /\ r.ok => VersionsIn(r.map, i)

LEMMA AssembleFile ==
  ASSUME AllTidy, directory \in Directories, NEW i \in 0 .. Len(directory) - 1, NEW r,
         ReadFiles(i, r)
  PROVE  ReadFiles(i + 1, Assemble(r, directory[i + 1]))
  <1> DEFINE file == directory[i + 1]
             content == Said[file]
             configs == ParsePlatformInfo(content)
             version == GetPlatformSpec(content, "version", "SoC_version")
             wrong == \E label \in DOMAIN content \cap Intrinsics : ~WellFormed(content[label])
             one == CHOOSE v \in version : TRUE
             twice == \E v \in version : v.text \in DOMAIN r.map
             failed == [r EXCEPT !.ok = FALSE]
             more == [r EXCEPT !.map = Emplaced(r.map, one.text, configs)]
  <1>1. /\ i \in Nat /\ i + 1 \in 1 .. Len(directory) /\ file \in Files /\ file \in ToSet(directory)
        /\ 1 .. i + 1 = (1 .. i) \cup {i + 1} /\ i + 1 \notin 1 .. i
    BY DirectoryFiles
  <1>2. Contents[file] = content
    BY <1>1, FileSaid
  <1>3. Versions(file) = {v.text : v \in version}
    BY DEF Versions, Texts
  <1>4. version = {} \/ \E x : version = {x}
    BY SpecIs
  <1>5. Assemble(r, file) =
          CASE ~r.ok \/ (~wrong /\ version = {}) -> r
            [] r.ok /\ (wrong \/ twice) -> failed
            [] OTHER -> more
    BY <1>2 DEF Assemble
  <1>6. /\ r = [ok |-> r.ok, map |-> r.map] /\ r.ok \in BOOLEAN
        /\ Configured(r.map) /\ (r.ok => VersionsIn(r.map, i))
    BY DEF ReadFiles
  <1>7. \A v \in Versions(file) : file \in FilesOf(v)
    BY <1>1 DEF FilesOf
  <1>8. (version = {} => ~twice) /\ (twice <=> \E v \in version : v.text \in DOMAIN r.map)
    OBVIOUS
  <1> HIDE DEF content, version, wrong, configs, one, twice, failed, more
  <1>9. CASE ~r.ok
    <2>1. Assemble(r, file) = r
      BY <1>5, <1>9
    <2> HIDE DEF file
    <2> QED
      BY <1>6, <1>9, <2>1 DEF ReadFiles, file
  <1>10. CASE r.ok /\ (wrong \/ twice)
    <2> DEFINE next_ == Assemble(r, file)
    <2>1. next_ = [r EXCEPT !.ok = FALSE]
      <3>1. next_ = failed
        BY <1>5, <1>10, <1>8
      <3> QED
        BY <3>1 DEF failed
    <2> HIDE DEF next_
    <2>2. next_ = [ok |-> FALSE, map |-> r.map]
      BY <1>6, <2>1
    <2>3. ReadFiles(i + 1, next_)
      BY <1>6, <2>2 DEF ReadFiles
    <2> QED
      BY <2>3 DEF next_, file
  <1>11. CASE r.ok /\ ~wrong /\ version = {}
    <2>1. Assemble(r, file) = r
      <3> DEFINE passed == ~r.ok \/ (~wrong /\ version = {})
                 stopped == r.ok /\ (wrong \/ twice)
      <3>1. passed /\ ~stopped
        BY <1>8, <1>11
      <3>2. Assemble(r, file) = CASE passed -> r [] stopped -> failed [] OTHER -> more
        BY <1>5
      <3> HIDE DEF passed, stopped
      <3> QED
        BY <3>1, <3>2
    <2>2. Versions(directory[i + 1]) = {}
      BY <1>3, <1>11
    <2>3. VersionsIn(r.map, i + 1)
      BY <1>1, <1>6, <1>11, <2>2 DEF VersionsIn
    <2>4. ReadFiles(i + 1, r)
      BY <1>6, <2>3 DEF ReadFiles
    <2> QED
      BY <2>1, <2>4
  <1>12. CASE r.ok /\ ~wrong /\ version # {} /\ ~twice
    <2> DEFINE next_ == Assemble(r, file)
               map == Emplaced(r.map, one.text, configs)
    <2>1. next_ = [r EXCEPT !.map = map]
      <3>1. next_ = more
        BY <1>5, <1>12
      <3> QED
        BY <3>1 DEF more
    <2>2. PICK x : version = {x}
      BY <1>4, <1>12
    <2>3. one = x
      BY <2>2 DEF one
    <2> HIDE DEF next_
    <2>4. Versions(file) = {x.text} /\ x.text \notin DOMAIN r.map
      BY <1>3, <1>12, <1>8, <2>2
    <2>5. /\ DOMAIN map = DOMAIN r.map \cup {x.text} /\ map[x.text] = configs
          /\ \A v \in DOMAIN r.map : map[v] = r.map[v]
      BY <2>3, <2>4 DEF Emplaced, Joined
    <2> HIDE DEF map, file
    <2>6. Configured(map)
      <3>1. ConfiguredBy(x.text, configs)
        BY <1>7, <2>4 DEF ConfiguredBy, configs, content
      <3>2. \A v \in DOMAIN r.map : ConfiguredBy(v, r.map[v])
        BY <1>6 DEF Configured
      <3> QED
        BY <2>5, <3>1, <3>2 DEF Configured
    <2>7. VersionsIn(map, i + 1)
      <3>1. \A j \in 1 .. i : \A v \in Versions(directory[j]) : v \in DOMAIN r.map
        BY <1>6, <1>12 DEF VersionsIn
      <3>2. Versions(directory[i + 1]) = {x.text}
        BY <2>4 DEF file
      <3>3. \A j, l \in 1 .. i : \A v \in Versions(directory[j]) : v \in Versions(directory[l]) => j = l
        BY <1>6, <1>12 DEF VersionsIn
      <3>4. ASSUME NEW j \in 1 .. i + 1, NEW l \in 1 .. i + 1, NEW v \in Versions(directory[j])
            PROVE  v \in DOMAIN map /\ (v \in Versions(directory[l]) => j = l)
        <4>1. (j \in 1 .. i \/ j = i + 1) /\ (l \in 1 .. i \/ l = i + 1)
          BY <1>1
        <4>2. j \in 1 .. i => v \in DOMAIN r.map /\ v # x.text
          BY <2>4, <3>1
        <4>3. j = i + 1 => v = x.text
          BY <3>2
        <4>4. v \in DOMAIN map
          BY <2>5, <4>1, <4>2, <4>3
        <4>5. ASSUME v \in Versions(directory[l])
              PROVE  j = l
          <5>1. l \in 1 .. i => v \in DOMAIN r.map
            BY <3>1, <4>5
          <5>2. l = i + 1 => v = x.text
            BY <3>2, <4>5
          <5>3. j \in 1 .. i /\ l \in 1 .. i => j = l
            BY <3>3, <4>5
          <5> QED
            BY <2>4, <4>1, <4>2, <4>3, <5>1, <5>2, <5>3
        <4> QED
          BY <4>4, <4>5
      <3> QED
        BY <3>4 DEF VersionsIn
    <2>8. next_ = [ok |-> TRUE, map |-> map]
      BY <1>6, <1>12, <2>1
    <2>9. ReadFiles(i + 1, next_)
      BY <2>6, <2>7, <2>8 DEF ReadFiles
    <2> QED
      BY <2>9 DEF next_, file
  <1> QED
    BY <1>6, <1>9, <1>10, <1>11, <1>12

(* The files of LoadConfigFile, one after the other.                        *)
Assembled(m, f, start) ==
  /\ f[0] = start
  /\ \A i \in 1 .. m : f[i] = Assemble(f[i - 1], directory[i])

LEMMA FilesInTurn ==
  ASSUME NEW n \in Nat, NEW start
  PROVE  \E f : f = [i \in 0 .. n |-> f[i]] /\ Assembled(n, f, start)
  <1> DEFINE Turn(m, f) == f = [i \in 0 .. m |-> f[i]] /\ Assembled(m, f, start)
             Reached == {m \in 0 .. n : \E f : Turn(m, f)}
  <1>1. 0 \in Reached
    <2> DEFINE f == [i \in 0 .. 0 |-> start]
    <2>1. Turn(0, f)
      BY DEF Assembled
    <2> QED
      BY <2>1
  <1>2. ASSUME NEW m \in 0 .. n - 1, m \in Reached
        PROVE  m + 1 \in Reached
    <2>1. PICK f : Turn(m, f)
      BY <1>2
    <2> DEFINE last == Assemble(f[m], directory[m + 1])
               g == [i \in 0 .. m + 1 |-> IF i = m + 1 THEN last ELSE f[i]]
    <2>2. /\ m \in Nat /\ m + 1 \in 0 .. n /\ m + 1 \in 0 .. m + 1 /\ m \in 0 .. m + 1 /\ m # m + 1
          /\ 0 \in 0 .. m + 1 /\ 0 # m + 1
          /\ \A i \in 1 .. m : i \in 0 .. m + 1 /\ i - 1 \in 0 .. m + 1 /\ i # m + 1 /\ i - 1 # m + 1
          /\ \A i \in 1 .. m + 1 : i \in 1 .. m \/ (i = m + 1 /\ i - 1 = m)
      OBVIOUS
    <2> HIDE DEF last
    <2>3. g = [i \in 0 .. m + 1 |-> g[i]]
      OBVIOUS
    <2>4. g[0] = f[0] /\ g[m + 1] = last /\ g[m] = f[m]
      BY <2>2
    <2>5. \A i \in 1 .. m : g[i] = f[i] /\ g[i - 1] = f[i - 1]
      BY <2>2
    <2> HIDE DEF g
    <2>6. \A i \in 1 .. m + 1 : g[i] = Assemble(g[i - 1], directory[i])
      <3> SUFFICES ASSUME NEW i \in 1 .. m + 1
                   PROVE  g[i] = Assemble(g[i - 1], directory[i])
        OBVIOUS
      <3>1. CASE i \in 1 .. m
        <4>1. f[i] = Assemble(f[i - 1], directory[i])
          BY <2>1, <3>1, Zenon DEF Assembled
        <4>2. g[i] = f[i] /\ g[i - 1] = f[i - 1]
          BY <2>5, <3>1
        <4> QED
          BY <4>1, <4>2, Zenon
      <3>2. CASE i = m + 1 /\ i - 1 = m
        BY <2>4, <3>2, Zenon DEF last
      <3> QED
        BY <2>2, <3>1, <3>2
    <2>7. f[0] = start
      BY <2>1, Zenon DEF Assembled
    <2>8. Turn(m + 1, g)
      BY <2>3, <2>4, <2>6, <2>7, Zenon DEF Assembled
    <2> QED
      BY <2>2, <2>8
  <1> HIDE DEF Reached
  <1>3. 0 .. n \subseteq Reached
    BY <1>1, <1>2, CountedUp
  <1>4. n \in Reached
    BY <1>3
  <1> QED
    BY <1>4 DEF Reached

LEMMA ConfigFilesLoaded ==
  ASSUME AllTidy, directory \in Directories, Configured(configsMap), NEW n \in 0 .. Len(directory)
  PROVE  \E r : /\ ReadFiles(n, r)
                /\ LoadConfigFile(n) = [r EXCEPT !.ok = @ /\ directory # <<>> /\ n = Len(directory)]
  <1> DEFINE start == [ok |-> TRUE, map |-> configsMap]
             Fixed(f) == f = [i \in 0 .. n |-> IF i = 0 THEN start
                                               ELSE Assemble(f[i - 1], directory[i])]
             after == CHOOSE f : Fixed(f)
  <1>1. n \in Nat /\ Len(directory) \in Nat
    BY DirectoryFiles
  <1>2. LoadConfigFile(n) = [after[n] EXCEPT !.ok = @ /\ directory # <<>> /\ n = Len(directory)]
    BY DEF LoadConfigFile
  <1>3. ReadFiles(0, start)
    BY DEF ReadFiles, VersionsIn
  <1> HIDE DEF start
  <1>4. Fixed(after)
    <2>1. PICK f : f = [i \in 0 .. n |-> f[i]] /\ Assembled(n, f, start)
      BY <1>1, FilesInTurn, Zenon
    <2>2. \A i \in 0 .. n : i # 0 => i \in 1 .. n
      BY <1>1
    <2>3. \A i \in 0 .. n : f[i] = IF i = 0 THEN start ELSE Assemble(f[i - 1], directory[i])
      BY <2>1, <2>2, Zenon DEF Assembled
    <2>4. Fixed(f)
      BY <2>1, <2>3
    <2> QED
      BY <2>4
  <1> HIDE DEF after
  <1>5. after[0] = start /\ \A i \in 0 .. n - 1 : after[i + 1] = Assemble(after[i], directory[i + 1])
    <2>1. 0 \in 0 .. n /\ \A i \in 0 .. n - 1 : i + 1 \in 0 .. n /\ i + 1 # 0 /\ (i + 1) - 1 = i
      BY <1>1
    <2>2. \A i \in 0 .. n : after[i] = IF i = 0 THEN start ELSE Assemble(after[i - 1], directory[i])
      BY <1>4, Zenon
    <2> HIDE DEF Fixed
    <2>3. after[0] = start
      BY <2>1, <2>2
    <2>4. ASSUME NEW i \in 0 .. n - 1
          PROVE  after[i + 1] = Assemble(after[i], directory[i + 1])
      BY <2>1, <2>2
    <2> QED
      BY <2>3, <2>4
  <1> DEFINE Done == {i \in 0 .. n : ReadFiles(i, after[i])}
  <1>6. 0 \in Done
    BY <1>1, <1>3, <1>5
  <1>7. ASSUME NEW i \in 0 .. n - 1, i \in Done
        PROVE  i + 1 \in Done
    <2>1. i + 1 \in 0 .. n /\ i \in 0 .. Len(directory) - 1
      BY <1>1
    <2>2. ReadFiles(i + 1, Assemble(after[i], directory[i + 1]))
      BY <1>7, <2>1, AssembleFile
    <2> QED
      BY <1>5, <2>1, <2>2
  <1> HIDE DEF Done
  <1>8. 0 .. n \subseteq Done
    BY <1>1, <1>6, <1>7, CountedUp
  <1>9. ReadFiles(n, after[n])
    BY <1>1, <1>8 DEF Done
  <1> QED
    BY <1>2, <1>9

(* InitializePlatformManager, also by PlatformInfo: it says it is           *)
(* initialised only with all the files read, none of a version that another *)
(* or an earlier call has.                                                  *)
LEMMA InitializedIs ==
  ASSUME AllTidy, ManagerInv, NEW i \in Initialized
  PROVE  /\ i.flag \in BOOLEAN
         /\ Configured(i.map)
         /\ i.flag => VersionsIn(i.map, Len(directory))
  <1>1. /\ directory \in Directories /\ Configured(configsMap)
        /\ initFlag => VersionsIn(configsMap, Len(directory))
    BY DEF ManagerInv
  <1>2. CASE i = [flag |-> TRUE, map |-> configsMap] /\ initFlag
    BY <1>1, <1>2
  <1>3. CASE i = [flag |-> FALSE, map |-> configsMap]
    BY <1>1, <1>3
  <1>4. ASSUME NEW n \in 0 .. Len(directory),
               i = [flag |-> LoadConfigFile(n).ok, map |-> LoadConfigFile(n).map]
        PROVE  /\ i.flag \in BOOLEAN
               /\ Configured(i.map)
               /\ i.flag => VersionsIn(i.map, Len(directory))
    <2>1. PICK r : /\ ReadFiles(n, r)
                   /\ LoadConfigFile(n) = [r EXCEPT !.ok = @ /\ directory # <<>> /\ n = Len(directory)]
      BY <1>1, ConfigFilesLoaded
    <2>2. /\ r = [ok |-> r.ok, map |-> r.map] /\ r.ok \in BOOLEAN
          /\ Configured(r.map) /\ (r.ok => VersionsIn(r.map, n))
      BY <2>1 DEF ReadFiles
    <2> DEFINE all == r.ok /\ directory # <<>> /\ n = Len(directory)
    <2>3. LoadConfigFile(n) = [ok |-> all, map |-> r.map]
      BY <2>1, <2>2
    <2>4. all \in BOOLEAN /\ (all => r.ok /\ n = Len(directory))
      OBVIOUS
    <2> HIDE DEF all
    <2>5. i.flag = all /\ i.map = r.map
      BY <1>4, <2>3
    <2> QED
      BY <2>2, <2>4, <2>5
  <1>5. \/ i = [flag |-> TRUE, map |-> configsMap] /\ initFlag
        \/ i = [flag |-> FALSE, map |-> configsMap]
        \/ \E n \in 0 .. Len(directory) :
             i = [flag |-> LoadConfigFile(n).ok, map |-> LoadConfigFile(n).map]
    BY DEF Initialized
  <1> QED
    BY <1>2, <1>3, <1>4, <1>5

(* PlatformInfo, once it has found the device, has what a file says of its  *)
(* version, and goes by the name of its short version.                      *)
NoDevice == {"", "unrecognized"}

InfoOf(i, file) ==
  /\ i.configs = ParsePlatformInfo(Said[file])
  /\ \E short \in Texts(GetPlatformSpec(Said[file], "version", "Short_SoC_version"))
                    \cap DOMAIN supportedPlatform :
       i.name = supportedPlatform[short].name /\ i.type = supportedPlatform[short].type

InfoInv ==
  /\ info.inited => \E file \in FilesOf(Real(socVersion)) : InfoOf(info, file)
  /\ ~info.inited => info.name \in NoDevice
  /\ ~info.constructed => info = NewInfo

LEMMA NewInfoIs ==
  \E name \in NoDevice : \E configs :
    NewInfo = [constructed |-> FALSE, inited |-> FALSE, type |-> "INVALID", name |-> name,
               configs |-> configs]
  BY Zenon DEF NewInfo, NoDevice

LEMMA Constructed ==
  /\ [NewInfo EXCEPT !.constructed = TRUE].constructed = TRUE
  /\ ~[NewInfo EXCEPT !.constructed = TRUE].inited
  /\ [NewInfo EXCEPT !.constructed = TRUE].name \in NoDevice
  /\ ~NewInfo.constructed /\ ~NewInfo.inited /\ NewInfo.name \in NoDevice
  <1>1. PICK name \in NoDevice :
          \E configs :
            NewInfo = [constructed |-> FALSE, inited |-> FALSE, type |-> "INVALID", name |-> name,
                       configs |-> configs]
    BY NewInfoIs, Zenon
  <1>2. PICK configs :
          NewInfo = [constructed |-> FALSE, inited |-> FALSE, type |-> "INVALID", name |-> name,
                     configs |-> configs]
    BY <1>1, Zenon
  <1> QED
    BY <1>2

(* What stands outside the sections of intrinsics is kept as it is.         *)
LEMMA SpecOfFile ==
  ASSUME NEW content, NEW label, label \notin Intrinsics, NEW key
  PROVE  GetPlatformSpec(ParsePlatformInfo(content), label, key) = GetPlatformSpec(content, label, key)
  BY DEF GetPlatformSpec, ParsePlatformInfo

LEMMA Labels ==
  /\ "version" \notin Intrinsics /\ "SoCInfo" \notin Intrinsics /\ "AICoreSpec" \notin Intrinsics
  /\ "AICoreintrinsicDtypeMap" \in Intrinsics
  BY DEF Intrinsics

LEMMA NamedIs ==
  ASSUME NEW file, NEW configs, configs = ParsePlatformInfo(Said[file])
  PROVE  /\ Named(configs).constructed = TRUE
         /\ Named(configs).inited => InfoOf(Named(configs), file)
         /\ ~Named(configs).inited => Named(configs).name \in NoDevice
  <1> DEFINE short == {s.text : s \in GetPlatformSpec(configs, "version", "Short_SoC_version")}
             known == short \cap DOMAIN supportedPlatform
             s == supportedPlatform[CHOOSE x \in known : TRUE]
  <1>1. short = Texts(GetPlatformSpec(Said[file], "version", "Short_SoC_version"))
    BY SpecOfFile, Labels DEF Texts
  <1>2. Named(configs) =
          IF known = {}
          THEN [NewInfo EXCEPT !.constructed = TRUE, !.configs = configs, !.name = "unrecognized"]
          ELSE [NewInfo EXCEPT !.constructed = TRUE, !.configs = configs,
                  !.inited = TRUE, !.type = s.type, !.name = s.name]
    BY Zenon DEF Named
  <1>3. PICK none \in NoDevice :
          \E map :
            NewInfo = [constructed |-> FALSE, inited |-> FALSE, type |-> "INVALID", name |-> none,
                       configs |-> map]
    BY NewInfoIs, Zenon
  <1>4. PICK map :
          NewInfo = [constructed |-> FALSE, inited |-> FALSE, type |-> "INVALID", name |-> none,
                     configs |-> map]
    BY <1>3, Zenon
  <1>5. "unrecognized" \in NoDevice
    BY Zenon DEF NoDevice
  <1>6. known # {} => (CHOOSE x \in known : TRUE) \in known
    OBVIOUS
  <1> HIDE DEF short
  <1>7. CASE known = {}
    <2>1. Named(configs) = [constructed |-> TRUE, inited |-> FALSE, type |-> "INVALID",
                            name |-> "unrecognized", configs |-> configs]
      BY <1>2, <1>4, <1>7
    <2> QED
      BY <1>5, <2>1
  <1>8. CASE known # {}
    <2>1. PICK x \in known : s = supportedPlatform[x]
      BY <1>6, <1>8, Zenon
    <2> HIDE DEF s, known
    <2>2. Named(configs) = [constructed |-> TRUE, inited |-> TRUE, type |-> s.type, name |-> s.name,
                            configs |-> configs]
      BY <1>2, <1>4, <1>8
    <2>3. Named(configs).name = s.name /\ Named(configs).type = s.type
          /\ Named(configs).configs = configs /\ Named(configs).inited = TRUE
          /\ Named(configs).constructed = TRUE
      BY <2>2
    <2>4. x \in Texts(GetPlatformSpec(Said[file], "version", "Short_SoC_version"))
               \cap DOMAIN supportedPlatform
      BY <1>1, <2>1, Zenon DEF known
    <2>5. InfoOf(Named(configs), file)
      BY <2>1, <2>3, <2>4, Zenon DEF InfoOf
    <2> QED
      BY <2>3, <2>5
  <1> QED
    BY <1>7, <1>8

-----------------------------------------------------------------------------
(* The loader's own steps leave the platform alone.                         *)
LEMMA PlatformStays ==
  ASSUME Next, ~UsePlatform
  PROVE  UNCHANGED platform
  <1>1. UNCHANGED input
    BY DEF Next, LoadKernelBinarys, CreateOperations, CreateKernel, KernelsCreated,
           AddKernels, Loaded, AddAllOperations, Exit
  <1> QED
    BY <1>1 DEF input

LEMMA ManagerStep ==
  ASSUME AllTidy, ManagerInv, [Next]_vars
  PROVE  ManagerInv'
  <1>1. CASE UsePlatform
    <2>1. directory' = directory
      BY <1>1 DEF UsePlatform, InitializePlatformManager, Finalize, ConstructPlatformInfo
    <2>2. \A map : Configured(map)' <=> Configured(map)
      BY <2>1, Zenon DEF Configured, ConfiguredBy, FilesOf
    <2>3. \/ \E i \in Initialized : initFlag' = i.flag /\ configsMap' = i.map
          \/ initFlag' = FALSE /\ configsMap' = Nothing
          \/ UNCHANGED <<initFlag, configsMap>>
      BY <1>1 DEF UsePlatform, InitializePlatformManager, Finalize, ConstructPlatformInfo
    <2>4. ASSUME NEW i \in Initialized, initFlag' = i.flag, configsMap' = i.map
          PROVE  ManagerInv'
      <3>1. Configured(i.map) /\ (i.flag => VersionsIn(i.map, Len(directory)))
        BY InitializedIs
      <3> QED
        BY <2>1, <2>4, <3>1 DEF ManagerInv, Configured, ConfiguredBy, FilesOf, VersionsIn
    <2>5. CASE initFlag' = FALSE /\ configsMap' = Nothing
      BY <2>1, <2>5 DEF ManagerInv, Configured, Nothing
    <2>6. CASE UNCHANGED <<initFlag, configsMap>>
      BY <2>1, <2>6 DEF ManagerInv, Configured, ConfiguredBy, FilesOf, VersionsIn
    <2> QED
      BY <2>3, <2>4, <2>5, <2>6
  <1>2. CASE ~UsePlatform
    <2>1. UNCHANGED <<directory, initFlag, configsMap>>
      BY <1>2, PlatformStays DEF vars, platform
    <2> QED
      BY <2>1 DEF ManagerInv, Configured, ConfiguredBy, FilesOf, VersionsIn
  <1> QED
    BY <1>1, <1>2

LEMMA InfoStep ==
  ASSUME AllTidy, ManagerInv, InfoInv, [Next]_vars
  PROVE  InfoInv'
  <1>1. UNCHANGED <<directory, socVersion>>
    <2>1. CASE UsePlatform
      BY <2>1 DEF UsePlatform, InitializePlatformManager, Finalize, ConstructPlatformInfo
    <2>2. CASE ~UsePlatform
      BY <2>2, PlatformStays DEF vars, platform
    <2> QED
      BY <2>1, <2>2
  <1>2. \A v : FilesOf(v)' = FilesOf(v)
    BY <1>1, Zenon DEF FilesOf
  <1>3. CASE UNCHANGED info
    BY <1>1, <1>2, <1>3, Zenon DEF InfoInv, InfoOf
  <1>4. CASE UsePlatform /\ ConstructPlatformInfo
    <2>1. ~info.constructed /\ info = NewInfo
      BY <1>4, Zenon DEF ConstructPlatformInfo, InfoInv
    <2>2. \/ info' = [info EXCEPT !.constructed = TRUE]
          \/ \E i \in Initialized : /\ i.flag /\ Real(socVersion) \in DOMAIN i.map
                                    /\ info' = Named(i.map[Real(socVersion)])
      BY <1>4, Zenon DEF ConstructPlatformInfo
    <2>3. CASE info' = [info EXCEPT !.constructed = TRUE]
      <3>1. info' = [NewInfo EXCEPT !.constructed = TRUE]
        BY <2>1, <2>3, Zenon
      <3>2. info'.constructed /\ ~info'.inited /\ info'.name \in NoDevice
        BY <3>1, Constructed, Zenon
      <3> QED
        BY <3>2, Zenon DEF InfoInv
    <2>4. ASSUME NEW i \in Initialized, Real(socVersion) \in DOMAIN i.map,
                 info' = Named(i.map[Real(socVersion)])
          PROVE  InfoInv'
      <3>1. ConfiguredBy(Real(socVersion), i.map[Real(socVersion)])
        BY <2>4, InitializedIs, Zenon DEF Configured
      <3>2. PICK file \in FilesOf(Real(socVersion)) :
              i.map[Real(socVersion)] = ParsePlatformInfo(Said[file])
        BY <3>1, Zenon DEF ConfiguredBy
      <3>3. /\ info'.constructed = TRUE
            /\ info'.inited => InfoOf(info', file)
            /\ ~info'.inited => info'.name \in NoDevice
        BY <2>4, <3>2, NamedIs, Zenon
      <3>4. file \in FilesOf(Real(socVersion))'
        BY <1>1, <1>2, <3>2, Zenon DEF Real
      <3> QED
        BY <3>3, <3>4, Zenon DEF InfoInv
    <2> QED
      BY <2>2, <2>3, <2>4, Zenon
  <1>5. UNCHANGED info \/ (UsePlatform /\ ConstructPlatformInfo)
    <2>1. CASE ~UsePlatform
      BY <2>1, PlatformStays DEF vars, platform
    <2>2. CASE UsePlatform
      BY <2>2 DEF UsePlatform, InitializePlatformManager, Finalize
    <2> QED
      BY <2>1, <2>2
  <1> QED
    BY <1>3, <1>4, <1>5

LEMMA PlatformHolds ==
  ASSUME AllTidy
  PROVE  Spec => [](ManagerInv /\ InfoInv)
  <1>1. Init => ManagerInv /\ InfoInv
    <2> SUFFICES ASSUME Init
                 PROVE  ManagerInv /\ InfoInv
      OBVIOUS
    <2>1. directory \in Directories /\ initFlag = FALSE /\ configsMap = Nothing /\ info = NewInfo
      BY Zenon DEF Init, PlatformInit
    <2>2. ManagerInv
      BY <2>1 DEF ManagerInv, Configured, Nothing
    <2>3. InfoInv
      BY <2>1, Constructed, Zenon DEF InfoInv
    <2> QED
      BY <2>2, <2>3
  <1>2. ManagerInv /\ InfoInv /\ [Next]_vars => ManagerInv' /\ InfoInv'
    BY ManagerStep, InfoStep
  <1> QED
    BY <1>1, <1>2, PTL DEF Spec

(* The map of an initialised PlatformManager.                               *)
LEMMA ManagerConfigured ==
  ASSUME ManagerInv, initFlag
  PROVE  /\ DOMAIN configsMap = UNION {Versions(file) : file \in ToSet(directory)}
         /\ \A v \in DOMAIN configsMap :
              /\ Cardinality({i \in DOMAIN directory : v \in Versions(directory[i])}) = 1
              /\ \E file \in FilesOf(v) : configsMap[v] = ParsePlatformInfo(Said[file])
  <1>1. /\ \A v \in DOMAIN configsMap :
             \E file \in FilesOf(v) : configsMap[v] = ParsePlatformInfo(Said[file])
        /\ VersionsIn(configsMap, Len(directory))
    BY DEF ManagerInv, Configured, ConfiguredBy
  <1>2. /\ DOMAIN directory = 1 .. Len(directory)
        /\ \A file \in ToSet(directory) : \E i \in 1 .. Len(directory) : file = directory[i]
    BY DirectoryFiles DEF ManagerInv
  <1>3. ASSUME NEW v
        PROVE  v \in DOMAIN configsMap <=> \E file \in ToSet(directory) : v \in Versions(file)
    <2>1. v \in DOMAIN configsMap => \E file \in ToSet(directory) : v \in Versions(file)
      BY <1>1 DEF FilesOf
    <2>2. ASSUME NEW file \in ToSet(directory), v \in Versions(file)
          PROVE  v \in DOMAIN configsMap
      <3>1. PICK i \in 1 .. Len(directory) : file = directory[i]
        BY <1>2
      <3> QED
        BY <1>1, <2>2, <3>1 DEF VersionsIn
    <2> QED
      BY <2>1, <2>2
  <1>4. ASSUME NEW v \in DOMAIN configsMap
        PROVE  Cardinality({i \in DOMAIN directory : v \in Versions(directory[i])}) = 1
    <2>1. PICK file \in ToSet(directory) : v \in Versions(file)
      BY <1>3
    <2>2. PICK i \in 1 .. Len(directory) : file = directory[i]
      BY <1>2
    <2>3. {j \in DOMAIN directory : v \in Versions(directory[j])} = {i}
      BY <1>1, <1>2, <2>1, <2>2 DEF VersionsIn
    <2> QED
      BY <2>3, FS_Singleton
  <1>5. DOMAIN configsMap = UNION {Versions(file) : file \in ToSet(directory)}
    BY <1>3
  <1> QED
    BY <1>1, <1>4, <1>5

(* The names of the intrinsics are the texts of the entries.                *)
LEMMA IntrinsicFound ==
  ASSUME NEW content, NEW label \in Intrinsics, NEW text
  PROVE  GetPlatformSpec(ParsePlatformInfo(content), label, text) # {} <=>
           label \in DOMAIN content /\ \E key \in DOMAIN content[label] : content[label][key].text = text
  <1>1. GetPlatformSpec(ParsePlatformInfo(content), label, text) # {} <=>
          label \in DOMAIN ParsePlatformInfo(content)
            /\ text \in DOMAIN ParsePlatformInfo(content)[label]
    BY DEF GetPlatformSpec
  <1>2. label \in DOMAIN ParsePlatformInfo(content) <=> label \in DOMAIN content
    BY DEF ParsePlatformInfo
  <1>3. label \in DOMAIN content => ParsePlatformInfo(content)[label] = ByName(content[label])
    BY DEF ParsePlatformInfo
  <1>4. DOMAIN ByName(content[label]) = {content[label][k].text : k \in DOMAIN content[label]}
    BY DEF ByName
  <1> QED
    BY <1>1, <1>2, <1>3, <1>4

(* Once PlatformManager says it is initialised, however many calls failed   *)
(* before and wherever, it has of every file that has a version what the    *)
(* file says, under that version, and nothing else; and the numbers that    *)
(* PlatformInfo answers with are those the file of the device's version     *)
(* says, for every directory of files whose entries are all below names.    *)
THEOREM PlatformIsAsConfigured ==
  ASSUME AllTidy
  PROVE  Spec => []PlatformAsConfigured
  <1>1. ManagerInv /\ InfoInv => PlatformAsConfigured
    <2> SUFFICES ASSUME ManagerInv, InfoInv
                 PROVE  PlatformAsConfigured
      OBVIOUS
    <2>1. ASSUME info.inited
          PROVE  \E file \in FilesOf(Real(socVersion)) :
                   LET says(label, key, none) == Number(GetPlatformSpec(Said[file], label, key), none)
                       cores(key) == IF says("SoCInfo", key, 1) > MAX_CORE_NUM THEN 1
                                     ELSE says("SoCInfo", key, 1)
                   IN /\ GetCoreNum("cube") = cores("ai_core_cnt")
                      /\ info.name = "ascend910b" => GetCoreNum("vector") = cores("vector_core_cnt")
                      /\ GetLocalMemSize("AICoreSpec", "ub_size") = says("AICoreSpec", "ub_size", 0)
                      /\ SupportL0c2out <=>
                           \E key \in DOMAIN SectionSaid(file, "AICoreintrinsicDtypeMap") :
                             SectionSaid(file, "AICoreintrinsicDtypeMap")[key].text
                               = "Intrinsic_fix_pipe_l0c2out"
      <3>1. PICK file \in FilesOf(Real(socVersion)) : InfoOf(info, file)
        BY <2>1, Zenon DEF InfoInv
      <3> DEFINE says(label, key, none) == Number(GetPlatformSpec(Said[file], label, key), none)
                 cores(key) == IF says("SoCInfo", key, 1) > MAX_CORE_NUM THEN 1
                               ELSE says("SoCInfo", key, 1)
      <3>2. info.configs = ParsePlatformInfo(Said[file])
        BY <3>1, Zenon DEF InfoOf
      <3>3. \A key : CoreNumByType(key) = cores(key)
        <4>1. SUFFICES ASSUME NEW key
                       PROVE  CoreNumByType(key) = cores(key)
          OBVIOUS
        <4>2. GetPlatformSpec(info.configs, "SoCInfo", key) = GetPlatformSpec(Said[file], "SoCInfo", key)
          BY <3>2, SpecOfFile, Labels, Zenon
        <4>3. Number(GetPlatformSpec(info.configs, "SoCInfo", key), 1) = says("SoCInfo", key, 1)
          BY <4>2, Zenon
        <4>4. CoreNumByType(key) =
                IF Number(GetPlatformSpec(info.configs, "SoCInfo", key), 1) > MAX_CORE_NUM
                THEN 1 ELSE Number(GetPlatformSpec(info.configs, "SoCInfo", key), 1)
          BY Zenon DEF CoreNumByType
        <4> HIDE DEF says
        <4> QED
          BY <4>3, <4>4, Zenon
      <3>4. GetLocalMemSize("AICoreSpec", "ub_size") = says("AICoreSpec", "ub_size", 0)
        BY <3>2, SpecOfFile, Labels, Zenon DEF GetLocalMemSize
      <3>5. GetCoreNum("cube") = cores("ai_core_cnt")
        <4>1. "cube" # "vector"
          OBVIOUS
        <4> QED
          BY <3>3, <4>1, Zenon DEF GetCoreNum
      <3>6. info.name = "ascend910b" => GetCoreNum("vector") = cores("vector_core_cnt")
        <4>1. info.name = "ascend910b" => info.type = "910B"
          <5>1. PICK short \in DOMAIN supportedPlatform :
                  info.name = supportedPlatform[short].name /\ info.type = supportedPlatform[short].type
            BY <3>1, Zenon DEF InfoOf
          <5> QED
            BY <5>1 DEF supportedPlatform
        <4> QED
          BY <3>3, <4>1, Zenon DEF GetCoreNum
      <3>7. SupportL0c2out <=>
              \E key \in DOMAIN SectionSaid(file, "AICoreintrinsicDtypeMap") :
                SectionSaid(file, "AICoreintrinsicDtypeMap")[key].text = "Intrinsic_fix_pipe_l0c2out"
        <4> DEFINE label == "AICoreintrinsicDtypeMap"
                   content == Said[file]
                   text == "Intrinsic_fix_pipe_l0c2out"
        <4>1. SupportL0c2out <=> GetPlatformSpec(ParsePlatformInfo(content), label, text) # {}
          BY <3>2, Zenon DEF SupportL0c2out
        <4>2. label \in Intrinsics
          BY Labels
        <4>3. GetPlatformSpec(ParsePlatformInfo(content), label, text) # {} <=>
                label \in DOMAIN content /\ \E key \in DOMAIN content[label] : content[label][key].text = text
          BY <4>2, IntrinsicFound
        <4>4. SectionSaid(file, label) = IF label \in DOMAIN content THEN content[label] ELSE Nothing
          BY Zenon DEF SectionSaid
        <4>5. DOMAIN Nothing = {}
          BY DEF Nothing
        <4> HIDE DEF label, content, text
        <4>6. SupportL0c2out <=>
                label \in DOMAIN content /\ \E key \in DOMAIN content[label] : content[label][key].text = text
          BY <4>1, <4>3, Zenon
        <4>7. SupportL0c2out <=>
                \E key \in DOMAIN SectionSaid(file, label) : SectionSaid(file, label)[key].text = text
          BY <4>4, <4>5, <4>6
        <4> QED
          BY <4>7, Zenon DEF label, text
      <3> QED
        BY <3>1, <3>4, <3>5, <3>6, <3>7, Zenon
    <2>2. initFlag =>
            /\ DOMAIN configsMap = UNION {Versions(file) : file \in ToSet(directory)}
            /\ \A v \in DOMAIN configsMap :
                 /\ Cardinality({i \in DOMAIN directory : v \in Versions(directory[i])}) = 1
                 /\ \E file \in FilesOf(v) : configsMap[v] = ParsePlatformInfo(Said[file])
      BY ManagerConfigured, Zenon
    <2> QED
      BY <2>1, <2>2, Zenon DEF PlatformAsConfigured
  <1> QED
    BY <1>1, PlatformHolds, PTL

-----------------------------------------------------------------------------
(* Every binary is registered for a device by name.                         *)
BinariesHaveDevices ==
  \A l \in Library : \A k \in DOMAIN l.binaries : \A i \in DOMAIN l.binaries[k] :
    l.binaries[k][i].soc # ""

(* A device without a name in the table of the platforms gets no handles.   *)
UnrecognizedInv == pc # "binaries" /\ device = "unrecognized" => DOMAIN binHandles = {}

LEMMA UnrecognizedStep ==
  ASSUME HandlesInv, UnrecognizedInv, [Next]_vars
  PROVE  UnrecognizedInv'
  <1>1. CASE LoadKernelBinarys
    <2>1. DOMAIN binHandles = {} /\ info' = info
      BY <1>1 DEF LoadKernelBinarys, HandlesInv, input, platform
    <2>2. device = "unrecognized" => binHandles' = binHandles
      BY <1>1 DEF LoadKernelBinarys
    <2> QED
      BY <2>1, <2>2 DEF UnrecognizedInv, device
  <1>2. CASE CreateKernel
    <2>1. DOMAIN binHandles' = DOMAIN binHandles /\ info' = info /\ pc = "kernels"
      BY <1>2, CreateKernelParts
    <2> QED
      BY <2>1 DEF UnrecognizedInv, device
  <1>3. CASE Exit
    BY <1>3, ExitStep DEF UnrecognizedInv
  <1>4. CASE Next /\ ~LoadKernelBinarys /\ ~CreateKernel /\ ~Exit
    <2>1. binHandles' = binHandles /\ (pc' = "binaries" <=> pc = "binaries")
      BY <1>4, OtherSteps
    <2>2. pc # "binaries" => info' = info
      BY <1>4, DeviceStays DEF HandlesInv
    <2> QED
      BY <2>1, <2>2 DEF UnrecognizedInv, device
  <1>5. CASE UNCHANGED vars
    BY <1>5 DEF vars, loader, platform, UnrecognizedInv, device
  <1> QED
    BY <1>1, <1>2, <1>3, <1>4, <1>5

(* Ops hands out nothing of a load that failed, and of one that succeeded   *)
(* only kernels whose binary is for the device that the file of the SoC     *)
(* version the runtime reports names, whatever PlatformManager and          *)
(* PlatformInfo were called for before and after the load and failed at.    *)
THEOREM HandsOutForTheDevice ==
  ASSUME AllTidy, BinariesHaveDevices
  PROVE  Spec => []HandedOut
  <1>1. Init => UnrecognizedInv
    BY DEF Init, UnrecognizedInv
  <1>2. HandlesInv /\ UnrecognizedInv /\ [Next]_vars => UnrecognizedInv'
    BY UnrecognizedStep
  <1>3. HandlesInv /\ UnrecognizedInv /\ InfoInv /\ ForThisDevice => HandedOut
    <2> SUFFICES ASSUME HandlesInv, UnrecognizedInv, InfoInv, ForThisDevice, pc = "ready",
                        ~(schedule.operations = {} /\ DOMAIN schedule.kernels = {}),
                        NEW k \in DOMAIN schedule.kernels
                 PROVE  \E file \in FilesOf(Real(socVersion)) :
                          \E short \in Texts(GetPlatformSpec(Said[file], "version", "Short_SoC_version")) :
                            supportedPlatform[short].name = binHandles[k].bin.soc
      BY Zenon DEF ForThisDevice, HandedOut
    <2>1. k \in DOMAIN binHandles /\ Fits(binHandles[k].bin)
      BY Zenon DEF ForThisDevice
    <2>2. binHandles[k].bin.soc = info.name
      BY <2>1, Zenon DEF Fits, device
    <2>3. info.inited
      <3>1. SUFFICES ASSUME ~info.inited
                     PROVE  FALSE
        OBVIOUS
      <3>2. info.name = "" \/ info.name = "unrecognized"
        BY <3>1, Zenon DEF InfoInv, NoDevice
      <3>3. info.name # "unrecognized"
        <4>1. "ready" # "binaries" /\ k \notin {}
          OBVIOUS
        <4> QED
          BY <2>1, <4>1, Zenon DEF UnrecognizedInv, device
      <3>4. HandleInv(k) /\ registered \in Library
        BY <2>1, Zenon DEF HandlesInv
      <3>5. k \in DOMAIN registered.binaries
        BY <3>4, Zenon DEF HandleInv
      <3>6. PICK i \in DOMAIN registered.binaries[k] : binHandles[k].bin = registered.binaries[k][i]
        BY <3>4 DEF HandleInv, FirstFitting
      <3>7. binHandles[k].bin.soc # ""
        BY <3>4, <3>5, <3>6, Zenon DEF BinariesHaveDevices
      <3> QED
        BY <2>2, <3>2, <3>3, <3>7, Zenon
    <2>4. PICK file \in FilesOf(Real(socVersion)) : InfoOf(info, file)
      BY <2>3, Zenon DEF InfoInv
    <2>5. PICK short \in Texts(GetPlatformSpec(Said[file], "version", "Short_SoC_version"))
                           \cap DOMAIN supportedPlatform :
            info.name = supportedPlatform[short].name
      BY <2>4, Zenon DEF InfoOf
    <2> QED
      BY <2>2, <2>4, <2>5, Zenon
  <1> QED
    BY <1>1, <1>2, <1>3, HandlesHold, PlatformHolds, KernelsFitDevice, PTL DEF Spec
=============================================================================
