----------------------------- MODULE LaunchProofs -----------------------------
(***************************************************************************)
(* Proofs about what a launch needs: the arguments of the kernel, and the  *)
(* tensors that are cleared before it.                                     *)
(*                                                                         *)
(* KernelArgs: KernelBase::Init lays the tiling, the const tensors and the *)
(* tensor lists out one after the other; sums of their sizes say where, so *)
(* that they stay apart and within the arguments.                          *)
(* Run finds each where it was laid, and fills the slots between with the  *)
(* tensors and workspaces in the order of the signature: in both, places   *)
(* are told by their rank among those of one kind.                         *)
(*                                                                         *)
(* Memset: ClearTensors clears every byte, for any platform, number of     *)
(* cores and sizes of tensors up to the 4 GB a 32-bit tiling can describe. *)
(* Each core has cleared, of its part of a tensor, what its loop has       *)
(* passed; the parts cover the tensor.  Offsets that overflow are those of *)
(* cores that have no part of the tensor.                                  *)
(***************************************************************************)
EXTENDS KernelArgs, Memset, FiniteSetTheorems, WellFoundedInduction, TLAPS

(* Counting up to n reaches every number.                                   *)
LEMMA CountedUp ==
  ASSUME NEW n \in Nat, NEW S, 0 \in S, \A i \in 0 .. n - 1 : i \in S => i + 1 \in S
  PROVE  0 .. n \subseteq S
  <1> DEFINE Missed == {i \in 0 .. n : i \notin S}
  <1>1. Missed \subseteq Nat /\ \A i \in 0 .. n : i \notin S <=> i \in Missed
    OBVIOUS
  <1> HIDE DEF Missed
  <1>2. ASSUME Missed # {}
        PROVE  FALSE
    <2>1. PICK i \in Missed : \A j \in Missed : ~(<<j, i>> \in OpToRel(<, Nat))
      BY <1>1, <1>2, NatLessThanWellFounded, WFMin
    <2>2. i \in 1 .. n /\ i \notin S
      BY <1>1 DEF Missed
    <2>3. i - 1 \in Nat /\ i \in Nat /\ i - 1 < i /\ i - 1 \in 0 .. n
      BY <2>2
    <2>4. i - 1 \notin Missed
      BY <2>1, <2>3 DEF OpToRel
    <2>5. i - 1 \in S
      BY <1>1, <2>3, <2>4
    <2> QED
      BY <2>2, <2>5
  <1> QED
    BY <1>1, <1>2

(* A function computed step by step exists.                                 *)
StepsWithin(S, n) == [1 .. n -> [S -> S]]

Stepwise(f, S, n, base, step) ==
  /\ f \in [0 .. n -> S]
  /\ f[0] = base /\ \A i \in 1 .. n : f[i] = step[i][f[i - 1]]

LEMMA StepByStep ==
  ASSUME NEW S, NEW n \in Nat, NEW base \in S, NEW step \in StepsWithin(S, n)
  PROVE  \E f : Stepwise(f, S, n, base, step)
  <1> DEFINE Stepped(m, f) == f[0] = base /\ \A i \in 1 .. m : f[i] = step[i][f[i - 1]]
             Walked == {m \in 0 .. n : \E f \in [0 .. m -> S] : Stepped(m, f)}
  <1> step \in [1 .. n -> [S -> S]]
    BY DEF StepsWithin
  <1>1. \E f \in [0 .. 0 -> S] : Stepped(0, f)
    <2> DEFINE f == [i \in 0 .. 0 |-> base]
    <2>1. f \in [0 .. 0 -> S] /\ f[0] = base
      OBVIOUS
    <2> HIDE DEF f
    <2> QED
      BY <2>1
  <1>2. ASSUME NEW m \in 0 .. n - 1, \E f \in [0 .. m -> S] : Stepped(m, f)
        PROVE  \E f \in [0 .. m + 1 -> S] : Stepped(m + 1, f)
    <2>1. PICK f \in [0 .. m -> S] : Stepped(m, f)
      BY <1>2
    <2> DEFINE last == step[m + 1][f[m]]
               g == [i \in 0 .. m + 1 |-> IF i <= m THEN f[i] ELSE last]
    <2>2. f[m] \in S /\ m + 1 \in 1 .. n
      BY <2>1
    <2>3. last \in S
      BY <2>2
    <2>4. g[m + 1] = last /\ \A i \in 0 .. m : g[i] = f[i]
      BY <2>2
    <2>5. g \in [0 .. m + 1 -> S]
      BY <2>1, <2>3
    <2> HIDE DEF g
    <2>6. g[0] = base
      BY <2>1, <2>4
    <2>7. ASSUME NEW i \in 1 .. m + 1
          PROVE  g[i] = step[i][g[i - 1]]
      <3>1. CASE i = m + 1
        BY <2>4, <3>1
      <3>2. CASE i # m + 1
        <4>1. i \in 1 .. m /\ i \in 0 .. m /\ i - 1 \in 0 .. m
          BY <3>2
        <4> QED
          BY <2>1, <2>4, <4>1
      <3> QED
        BY <3>1, <3>2
    <2> QED
      BY <2>5, <2>6, <2>7
  <1>3. \A m \in 0 .. n : m \in Walked <=> \E f \in [0 .. m -> S] : Stepped(m, f)
    OBVIOUS
  <1> HIDE DEF Walked, Stepped
  <1>4. 0 \in Walked /\ \A m \in 0 .. n - 1 : m \in Walked => m + 1 \in Walked
    <2>1. 0 \in 0 .. n
      OBVIOUS
    <2>2. ASSUME NEW m \in 0 .. n - 1, m \in Walked
          PROVE  m + 1 \in Walked
      <3>1. m \in 0 .. n /\ m + 1 \in 0 .. n
        OBVIOUS
      <3>2. \E f \in [0 .. m -> S] : Stepped(m, f)
        BY <1>3, <2>2, <3>1, Zenon
      <3>3. \E f \in [0 .. m + 1 -> S] : Stepped(m + 1, f)
        BY <1>2, <3>2, Zenon
      <3> QED
        BY <1>3, <3>1, <3>3, Zenon
    <2> QED
      BY <1>1, <1>3, <2>1, <2>2, Zenon
  <1>5. n \in Walked
    <2>1. 0 .. n \subseteq Walked
      BY <1>4, CountedUp, Zenon
    <2> QED
      BY <2>1
  <1> QED
    BY <1>3, <1>5 DEF Stepped, Stepwise

(* The sums of sizes.                                                       *)
SizesAre(s, n) == n = Len(s) /\ n \in Nat /\ \A i \in 1 .. n : s[i] \in Nat

LEMMA SumsUp ==
  ASSUME NEW s, NEW n, SizesAre(s, n)
  PROVE  /\ Sums(s) \in [0 .. n -> Nat]
         /\ Sums(s)[0] = 0
         /\ \A i \in 1 .. n : Sums(s)[i] = Sums(s)[i - 1] + s[i]
  <1> DEFINE step == [i \in 1 .. n |-> [x \in Nat |-> x + s[i]]]
             Fixed(g) == g = [i \in 0 .. n |-> IF i = 0 THEN 0 ELSE g[i - 1] + s[i]]
             sum == CHOOSE g : Fixed(g)
  <1>1. n \in Nat /\ \A i \in 1 .. n : s[i] \in Nat /\ i - 1 \in 0 .. n /\ i \in 0 .. n /\ i # 0
    BY DEF SizesAre
  <1>2. Sums(s) = sum
    <2>1. n = Len(s)
      BY DEF SizesAre
    <2> QED
      BY <2>1 DEF Sums
  <1>3. \A i \in 1 .. n, x \in Nat : step[i][x] = x + s[i] /\ x + s[i] \in Nat
    BY <1>1
  <1>4. step \in StepsWithin(Nat, n)
    BY <1>3 DEF StepsWithin
  <1> HIDE DEF step
  <1>5. PICK f : Stepwise(f, Nat, n, 0, step)
    <2>1. 0 \in Nat
      OBVIOUS
    <2> QED
      BY <1>1, <1>4, <2>1, StepByStep, Zenon
  <1>6. \A i \in 1 .. n : f[i] = f[i - 1] + s[i]
    <2> SUFFICES ASSUME NEW i \in 1 .. n
                 PROVE  f[i] = f[i - 1] + s[i]
      OBVIOUS
    <2>1. f[i - 1] \in Nat /\ f[i] = step[i][f[i - 1]]
      BY <1>1, <1>5 DEF Stepwise
    <2> QED
      BY <1>3, <2>1
  <1>7. f \in [0 .. n -> Nat] /\ f[0] = 0
    BY <1>5 DEF Stepwise
  <1>8. Fixed(f)
    <2>1. \A i \in 0 .. n : i # 0 => i \in 1 .. n
      BY <1>1
    <2> QED
      BY <1>6, <1>7, <2>1
  <1>9. Fixed(sum)
    BY <1>8
  <1> HIDE DEF sum
  <1>10. sum[0] = 0 /\ \A i \in 1 .. n : sum[i] = sum[i - 1] + s[i]
    BY <1>1, <1>9
  <1> DEFINE Typed == {i \in 0 .. n : sum[i] \in Nat}
  <1>11. 0 .. n \subseteq Typed
    <2>1. 0 \in Typed
      BY <1>1, <1>10
    <2>2. ASSUME NEW i \in 0 .. n - 1, i \in Typed
          PROVE  i + 1 \in Typed
      <3>1. i + 1 \in 1 .. n /\ i + 1 \in 0 .. n /\ (i + 1) - 1 = i
        BY <1>1
      <3>2. sum[i + 1] = sum[i] + s[i + 1] /\ sum[i] \in Nat /\ s[i + 1] \in Nat
        BY <1>1, <1>10, <2>2, <3>1
      <3> QED
        BY <3>1, <3>2
    <2> HIDE DEF Typed
    <2> QED
      BY <1>1, <2>1, <2>2, CountedUp
  <1>12. sum \in [0 .. n -> Nat]
    BY <1>9, <1>11
  <1> HIDE DEF Fixed
  <1> QED
    BY <1>2, <1>10, <1>12

(* More sizes have no smaller sum.                                          *)
LEMMA SumsGrow ==
  ASSUME NEW s, NEW n, SizesAre(s, n), NEW i \in 0 .. n, NEW j \in i .. n
  PROVE  Sums(s)[i] <= Sums(s)[j]
  <1> DEFINE T == Sums(s)
             Above == {m \in 0 .. n - i : T[i] <= T[i + m]}
  <1>1. /\ n \in Nat /\ T \in [0 .. n -> Nat]
        /\ \A m \in 1 .. n : s[m] \in Nat /\ T[m] = T[m - 1] + s[m]
    BY SumsUp DEF SizesAre
  <1> HIDE DEF T
  <1>2. 0 \in Above
    BY <1>1
  <1>3. ASSUME NEW m \in 0 .. (n - i) - 1, m \in Above
        PROVE  m + 1 \in Above
    <2>1. /\ m + 1 \in 0 .. n - i /\ i + (m + 1) \in 1 .. n /\ (i + (m + 1)) - 1 = i + m
          /\ i + m \in 0 .. n
      BY <1>1
    <2>2. T[i + (m + 1)] = T[i + m] + s[i + (m + 1)] /\ s[i + (m + 1)] \in Nat
      BY <1>1, <2>1
    <2>3. T[i] <= T[i + m] /\ T[i] \in Nat /\ T[i + m] \in Nat
      BY <1>1, <1>3, <2>1
    <2>4. T[i] <= T[i + (m + 1)]
      BY <2>2, <2>3
    <2> QED
      BY <2>1, <2>4
  <1>4. n - i \in Nat /\ j - i \in 0 .. n - i /\ i + (j - i) = j
    BY <1>1
  <1> HIDE DEF Above
  <1>5. j - i \in Above
    BY <1>2, <1>3, <1>4, CountedUp
  <1>6. T[i] <= T[i + (j - i)]
    BY <1>5 DEF Above
  <1> QED
    BY <1>4, <1>6 DEF T

(* What is picked out of a sequence, place by place.                        *)
PickOne(s, chosen, q, i) == IF i \in chosen THEN Append(q, s[i]) ELSE q

LEMMA PickedUp ==
  ASSUME NEW S, NEW s \in Seq(S), NEW chosen
  PROVE  /\ PickedTo(s, chosen) \in [0 .. Len(s) -> Seq(S)]
         /\ PickedTo(s, chosen)[0] = << >>
         /\ \A i \in 1 .. Len(s) :
              PickedTo(s, chosen)[i] = PickOne(s, chosen, PickedTo(s, chosen)[i - 1], i)
  <1> DEFINE n == Len(s)
             Next_(i, q) == PickOne(s, chosen, q, i)
             step == [i \in 1 .. n |-> [q \in Seq(S) |-> Next_(i, q)]]
             Fixed(g) == g = [i \in 0 .. n |-> IF i = 0 THEN << >>
                                               ELSE IF i \in chosen THEN Append(g[i - 1], s[i])
                                               ELSE g[i - 1]]
             picked == CHOOSE g : Fixed(g)
  <1>1. n \in Nat /\ \A i \in 1 .. n : s[i] \in S /\ i - 1 \in 0 .. n /\ i \in 0 .. n /\ i # 0
    OBVIOUS
  <1>2. PickedTo(s, chosen) = picked
    BY DEF PickedTo
  <1> HIDE DEF n
  <1>3. \A i \in 1 .. n, q \in Seq(S) : Next_(i, q) \in Seq(S)
    BY <1>1 DEF PickOne
  <1>4. \A i \in 1 .. n, q \in Seq(S) : step[i][q] = Next_(i, q)
    OBVIOUS
  <1>5. step \in StepsWithin(Seq(S), n)
    <2> HIDE DEF Next_
    <2> QED
      BY <1>3 DEF StepsWithin
  <1> HIDE DEF step
  <1>6. PICK f : Stepwise(f, Seq(S), n, << >>, step)
    <2>1. << >> \in Seq(S)
      OBVIOUS
    <2> QED
      BY <1>1, <1>5, <2>1, StepByStep, Zenon
  <1>7. f \in [0 .. n -> Seq(S)] /\ f[0] = << >>
    BY <1>6 DEF Stepwise
  <1>8. \A i \in 1 .. n : f[i] = Next_(i, f[i - 1])
    <2> SUFFICES ASSUME NEW i \in 1 .. n
                 PROVE  f[i] = Next_(i, f[i - 1])
      OBVIOUS
    <2> HIDE DEF Next_
    <2>1. f[i - 1] \in Seq(S) /\ f[i] = step[i][f[i - 1]]
      BY <1>1, <1>6, <1>7 DEF Stepwise
    <2> QED
      BY <1>4, <2>1
  <1>9. Fixed(f)
    <2>1. \A i \in 0 .. n : i # 0 => i \in 1 .. n
      BY <1>1
    <2> QED
      BY <1>7, <1>8, <2>1 DEF PickOne
  <1>10. Fixed(picked)
    BY <1>9
  <1> HIDE DEF picked
  <1>11. picked[0] = << >> /\ \A i \in 1 .. n : picked[i] = Next_(i, picked[i - 1])
    <2>1. \A i \in 0 .. n : picked[i] = IF i = 0 THEN << >> ELSE Next_(i, picked[i - 1])
      BY <1>10, Zenon DEF PickOne
    <2>2. 0 \in 0 .. n
      BY <1>1
    <2> HIDE DEF Next_, Fixed
    <2> QED
      BY <1>1, <2>1, <2>2, Zenon
  <1> DEFINE Typed == {i \in 0 .. n : picked[i] \in Seq(S)}
  <1>12. 0 \in Typed
    <2>1. 0 \in 0 .. n /\ << >> \in Seq(S)
      BY <1>1
    <2> QED
      BY <1>11, <2>1, Zenon
  <1>13. ASSUME NEW i \in 0 .. n - 1, i \in Typed
         PROVE  i + 1 \in Typed
    <2> HIDE DEF Next_, Fixed
    <2>1. i + 1 \in 1 .. n /\ i + 1 \in 0 .. n /\ (i + 1) - 1 = i
      BY <1>1
    <2>2. picked[i + 1] = Next_(i + 1, picked[i]) /\ picked[i] \in Seq(S)
      BY <1>11, <1>13, <2>1
    <2>3. picked[i + 1] \in Seq(S)
      BY <1>3, <2>1, <2>2
    <2> QED
      BY <2>1, <2>3
  <1>14. 0 .. n \subseteq Typed
    <2> HIDE DEF Typed
    <2> QED
      BY <1>1, <1>12, <1>13, CountedUp, Zenon
  <1>15. picked \in [0 .. n -> Seq(S)]
    <2>1. \A i \in 0 .. n : picked[i] \in Seq(S)
      BY <1>14
    <2>2. picked = [i \in 0 .. n |-> picked[i]]
      BY <1>10
    <2> HIDE DEF Fixed, Typed
    <2> QED
      BY <2>1, <2>2
  <1> HIDE DEF Fixed, Typed, Next_
  <1> QED
    BY <1>2, <1>11, <1>15 DEF n, Next_

LEMMA PickedIn ==
  ASSUME NEW S, NEW s \in Seq(S), NEW chosen
  PROVE  Picked(s, chosen) \in Seq(S)
  <1>1. PickedTo(s, chosen) \in [0 .. Len(s) -> Seq(S)]
    BY PickedUp, Zenon
  <1>2. Len(s) \in 0 .. Len(s)
    OBVIOUS
  <1> QED
    BY <1>1, <1>2 DEF Picked

-----------------------------------------------------------------------------
(* Pieces between two offsets, and pieces that do not run into one another. *)
Inside(pieces, lo, hi) ==
  \A d \in pieces : d.at \in Int /\ d.size \in Nat /\ lo <= d.at /\ d.at + d.size <= hi
Apart(pieces) ==
  \A d, e \in pieces : d # e => d.at + d.size <= e.at \/ e.at + e.size <= d.at

LEMMA InsideJoined ==
  ASSUME NEW a \in Int, NEW b \in Int, NEW c \in Int, NEW d \in Int, a <= b, b <= c, c <= d,
         NEW P, NEW Q, Inside(P, a, b), Inside(Q, c, d), Apart(P), Apart(Q)
  PROVE  Inside(P \cup Q, a, d) /\ Apart(P \cup Q)
  <1>1. \A p \in P : p.at \in Int /\ p.size \in Nat /\ a <= p.at /\ p.at + p.size <= b
    BY DEF Inside
  <1>2. \A q \in Q : q.at \in Int /\ q.size \in Nat /\ c <= q.at /\ q.at + q.size <= d
    BY DEF Inside
  <1>3. Inside(P \cup Q, a, d)
    BY <1>1, <1>2 DEF Inside
  <1>4. ASSUME NEW p \in P, NEW q \in Q
        PROVE  p.at + p.size <= q.at
    BY <1>1, <1>2
  <1>5. ASSUME NEW p \in P \cup Q, NEW q \in P \cup Q, p # q
        PROVE  p.at + p.size <= q.at \/ q.at + q.size <= p.at
    BY <1>4, <1>5, Zenon DEF Apart
  <1> QED
    BY <1>3, <1>5 DEF Apart

(* A sequence of things that have a size, filled in part.                   *)
HasSize(e) == e.size \in Nat /\ e.bytes \in Nat /\ e.bytes <= e.size
Sized(infos, n) ==
  n \in Nat /\ DOMAIN infos = 1 .. n /\ \A i \in 1 .. n : HasSize(infos[i])

LEMMA SizesOf ==
  ASSUME NEW infos, NEW n, Sized(infos, n)
  PROVE  SizesAre(InfoSizes(infos), n)
  <1> DEFINE sizes == [i \in DOMAIN infos |-> infos[i].size]
  <1>1. n \in Nat /\ sizes = [i \in 1 .. n |-> infos[i].size] /\ \A i \in 1 .. n : infos[i].size \in Nat
    BY DEF Sized, HasSize
  <1>2. sizes \in Seq(Nat) /\ Len(sizes) = n
    BY <1>1
  <1> QED
    BY <1>1, <1>2 DEF SizesAre, InfoSizes

(* Laid out, they take the bytes they have together, each its own.          *)
LEMMA LaidOutApart ==
  ASSUME NEW infos, NEW n, Sized(infos, n), NEW at \in Int
  PROVE  /\ InfoBytes(infos) \in Nat
         /\ n = 0 => InfoBytes(infos) = 0
         /\ Inside(LaidOut(infos, at), at, at + InfoBytes(infos))
         /\ Apart(LaidOut(infos, at))
  <1> DEFINE sizes == InfoSizes(infos)
             T == Sums(sizes)
             piece(i) == Piece(infos[i].what, at + T[i - 1], infos[i].bytes)
  <1>1. SizesAre(sizes, n)
    BY SizesOf
  <1>2. /\ n \in Nat /\ n = Len(sizes) /\ DOMAIN infos = 1 .. n
        /\ \A i \in 1 .. n : /\ infos[i].size \in Nat /\ infos[i].bytes \in Nat
                             /\ infos[i].bytes <= infos[i].size
    BY <1>1 DEF SizesAre, Sized, HasSize
  <1>3. \A i \in 1 .. n : sizes[i] = infos[i].size
    BY <1>2 DEF InfoSizes
  <1>4. InfoBytes(infos) = T[n]
    BY <1>2 DEF InfoBytes, Total
  <1>5. LaidOut(infos, at) = {piece(i) : i \in 1 .. n}
    BY <1>2 DEF LaidOut, Before
  <1> HIDE DEF sizes
  <1>6. T \in [0 .. n -> Nat] /\ T[0] = 0 /\ \A i \in 1 .. n : T[i] = T[i - 1] + infos[i].size
    BY <1>1, <1>3, SumsUp
  <1>7. \A i \in 0 .. n : \A j \in i .. n : T[i] <= T[j]
    BY <1>1, SumsGrow
  <1> HIDE DEF T
  <1>8. ASSUME NEW i \in 1 .. n
        PROVE  /\ piece(i).at = at + T[i - 1] /\ piece(i).size = infos[i].bytes
               /\ T[i - 1] \in Nat /\ T[i] \in Nat /\ infos[i].size \in Nat
               /\ infos[i].bytes \in Nat /\ infos[i].bytes <= infos[i].size
               /\ T[i] = T[i - 1] + infos[i].size
               /\ T[i] <= T[n]
    <2>1. i - 1 \in 0 .. n /\ i \in 0 .. n /\ n \in i .. n
      BY <1>2
    <2>2. piece(i).at = at + T[i - 1] /\ piece(i).size = infos[i].bytes
      BY DEF Piece
    <2> HIDE DEF piece
    <2> QED
      BY <1>2, <1>6, <1>7, <2>1, <2>2
  <1> HIDE DEF piece
  <1>9. T[n] \in Nat
    BY <1>2, <1>6
  <1>10. ASSUME NEW i \in 1 .. n
         PROVE  /\ piece(i).at \in Int /\ piece(i).size \in Nat /\ at <= piece(i).at
                /\ piece(i).at + piece(i).size <= at + T[n]
    BY <1>8, <1>9
  <1>11. ASSUME NEW i \in 1 .. n, NEW j \in 1 .. n, i < j
         PROVE  piece(i).at + piece(i).size <= piece(j).at
    <2>1. i \in 0 .. n /\ j - 1 \in i .. n
      BY <1>2, <1>11
    <2>2. T[i] <= T[j - 1]
      BY <1>7, <2>1
    <2> QED
      BY <1>8, <2>2
  <1>12. ASSUME NEW i \in 1 .. n, NEW j \in 1 .. n, piece(i) # piece(j)
         PROVE  \/ piece(i).at + piece(i).size <= piece(j).at
                \/ piece(j).at + piece(j).size <= piece(i).at
    <2>1. i < j \/ j < i
      BY <1>12
    <2> QED
      BY <1>11, <2>1
  <1>13. Inside(LaidOut(infos, at), at, at + T[n])
    BY <1>5, <1>10 DEF Inside
  <1>14. Apart(LaidOut(infos, at))
    BY <1>5, <1>12 DEF Apart
  <1> QED
    BY <1>4, <1>6, <1>9, <1>13, <1>14

InfoAt(x, at, i) == Piece(x[i].what, at + Before(InfoSizes(x), i), x[i].bytes)

LEMMA LaidOutAre ==
  ASSUME NEW x, NEW n, Sized(x, n), NEW at \in Int
  PROVE  /\ \A d \in LaidOut(x, at) : \E i \in 1 .. n : d = InfoAt(x, at, i)
         /\ \A i \in 1 .. n : InfoAt(x, at, i) \in LaidOut(x, at)
         /\ SizesAre(InfoSizes(x), n) /\ \A i \in 1 .. n : InfoSizes(x)[i] = x[i].size
         /\ InfoBytes(x) = Sums(InfoSizes(x))[n]
         /\ Sums(InfoSizes(x)) \in [0 .. n -> Nat]
  <1>1. DOMAIN x = 1 .. n /\ n \in Nat
    BY DEF Sized
  <1>2. SizesAre(InfoSizes(x), n)
    BY SizesOf
  <1>3. \A i \in 1 .. n : InfoSizes(x)[i] = x[i].size
    BY <1>1 DEF InfoSizes
  <1>4. LaidOut(x, at) = {InfoAt(x, at, i) : i \in 1 .. n}
    BY <1>1 DEF LaidOut, InfoAt
  <1>5. InfoBytes(x) = Sums(InfoSizes(x))[n]
    <2>1. InfoBytes(x) = Total(InfoSizes(x))
      BY DEF InfoBytes
    <2>2. Len(InfoSizes(x)) = n
      BY <1>2 DEF SizesAre
    <2> QED
      BY <2>1, <2>2 DEF Total
  <1>6. Sums(InfoSizes(x)) \in [0 .. n -> Nat]
    BY <1>2, SumsUp
  <1> QED
    BY <1>2, <1>3, <1>4, <1>5, <1>6

(* Const tensors that fit lie within the tiling behind the const offset.    *)
LEMMA FittingWithin ==
  ASSUME NEW infos, NEW n, Sized(infos, n), NEW t \in Tilings, Unfit(infos, t) = {}, NEW at \in Int
  PROVE  /\ ConstBytes(t) \in Nat
         /\ Inside(LaidOut(infos, at), at, at + ConstBytes(t)) /\ Apart(LaidOut(infos, at))
  <1> DEFINE off == t.constOffset
             len == t.size
             before(i) == Before(InfoSizes(infos), i)
  <1>1. off \in Nat /\ len \in Nat /\ off <= len
    <2>1. t.size \in Nat /\ t.constOffset \in 1 .. t.size
      BY SignatureAssumption
    <2> QED
      BY <2>1
  <1>2. ConstBytes(t) = len - off /\ ConstBytes(t) \in Nat
    BY <1>1 DEF ConstBytes
  <1>3. /\ Inside(LaidOut(infos, at), at, at + InfoBytes(infos)) /\ Apart(LaidOut(infos, at))
        /\ \A d \in LaidOut(infos, at) : \E i \in 1 .. n : d = InfoAt(infos, at, i)
    BY LaidOutApart, LaidOutAre
  <1>4. DOMAIN infos = 1 .. n /\ n \in Nat /\ \A i \in 1 .. n : infos[i].bytes \in Nat
    BY DEF Sized, HasSize
  <1>5. Sums(InfoSizes(infos)) \in [0 .. n -> Nat]
    BY LaidOutAre
  <1>6. ASSUME NEW d \in LaidOut(infos, at)
        PROVE  d.at + d.size <= at + ConstBytes(t)
    <2>1. PICK i \in 1 .. n : d = InfoAt(infos, at, i)
      BY <1>3
    <2>2. d.at = at + before(i) /\ d.size = infos[i].bytes
      BY <2>1 DEF InfoAt, Piece
    <2>3. off + before(i) + infos[i].bytes <= len
      BY <1>4 DEF Unfit, ConstFits
    <2>4. before(i) \in Nat
      <3>1. i - 1 \in 0 .. n
        BY <1>4
      <3> QED
        BY <1>5, <3>1 DEF Before
    <2>5. infos[i].bytes \in Nat
      BY <1>4
    <2> HIDE DEF before, off, len
    <2> QED
      BY <1>1, <1>2, <2>2, <2>3, <2>4, <2>5
  <1> QED
    BY <1>2, <1>3, <1>6 DEF Inside

LEMMA AlignedHolds ==
  ASSUME NEW n \in Nat
  PROVE  AlignedSize(n) \in Nat /\ n <= AlignedSize(n)
  BY DEF AlignedSize

(* A sequence of some set is sized if the members of the set are.           *)
LEMMA SizedSeq ==
  ASSUME NEW S, NEW s \in Seq(S), \A e \in S : HasSize(e)
  PROVE  Sized(s, Len(s))
  BY DEF Sized

-----------------------------------------------------------------------------
(* What a signature and a launch describe.                                  *)
LEMMA SizesIn ==
  ASSUME NEW s \in Seq([kind : Kinds, n : Nat]), NEW kind
  PROVE  Sizes(s, kind) \in Seq(Nat)
  <1> DEFINE ns == [i \in DOMAIN s |-> s[i].n]
  <1>1. DOMAIN s = 1 .. Len(s) /\ Len(s) \in Nat /\ \A i \in 1 .. Len(s) : s[i].n \in Nat
    <2> DEFINE R == [kind : Kinds, n : Nat]
    <2>1. s \in Seq(R) /\ \A p \in R : p.n \in Nat
      OBVIOUS
    <2> HIDE DEF R
    <2>2. DOMAIN s = 1 .. Len(s) /\ Len(s) \in Nat /\ \A i \in 1 .. Len(s) : s[i] \in R
      BY <2>1
    <2> QED
      BY <2>1, <2>2
  <1>2. ns \in Seq(Nat)
    BY <1>1
  <1> HIDE DEF ns
  <1>3. Picked(ns, Of(s, kind)) \in Seq(Nat)
    BY <1>2, PickedIn, Zenon
  <1> QED
    BY <1>3 DEF Sizes, ns

LEMMA ConstsSized ==
  ASSUME NEW s \in Seq([kind : Kinds, n : Nat])
  PROVE  /\ ConstInfos(s) \in Seq({ConstInfos(s)[c] : c \in DOMAIN ConstInfos(s)})
         /\ Sized(ConstInfos(s), Len(ConstInfos(s)))
  <1> DEFINE sizes == Sizes(s, "const")
             n == Len(sizes)
             what(c) == <<"const", c>>
             slot(c) == Positions(s, "const")[c] - 1
             size(c) == AlignedSize(sizes[c]) + 64
             info(c) == [what |-> what(c), slot |-> slot(c), size |-> size(c), bytes |-> sizes[c]]
             infos == [c \in 1 .. n |-> info(c)]
  <1>1. sizes \in Seq(Nat)
    BY SizesIn
  <1>2. n \in Nat /\ DOMAIN sizes = 1 .. n /\ \A c \in 1 .. n : sizes[c] \in Nat
    BY <1>1
  <1>3. ConstInfos(s) = infos
    BY <1>2 DEF ConstInfos
  <1> HIDE DEF what, slot
  <1>4. \A c \in 1 .. n : HasSize(info(c))
    <2> TAKE c \in 1 .. n
    <2>1. sizes[c] \in Nat
      BY <1>2
    <2>2. AlignedSize(sizes[c]) \in Nat /\ sizes[c] <= AlignedSize(sizes[c])
      BY <2>1, AlignedHolds
    <2>3. info(c).size = size(c) /\ info(c).bytes = sizes[c]
      OBVIOUS
    <2> HIDE DEF info, sizes
    <2> QED
      BY <2>1, <2>2, <2>3 DEF HasSize
  <1> HIDE DEF info, sizes, n
  <1>5. infos \in Seq({infos[c] : c \in DOMAIN infos}) /\ Len(infos) = n
    BY <1>2
  <1> HIDE DEF infos
  <1>6. Sized(infos, n)
    BY <1>2, <1>4 DEF Sized, infos
  <1> QED
    BY <1>3, <1>5, <1>6

LEMMA ListBytesIn ==
  ASSUME NEW n \in Nat
  PROVE  ListBytes(n) \in Nat
  <1>1. Rank + 1 \in Nat
    BY SignatureAssumption
  <1>2. n * (Rank + 1) \in Nat
    BY <1>1
  <1> QED
    BY <1>2 DEF ListBytes, POINTER

(* The pieces of a sequence of any infos.                                   *)
Infos(infos) == \E S : infos \in Seq(S) /\ \A e \in S : HasSize(e)

LEMMA InfosSized ==
  ASSUME NEW infos, Infos(infos)
  PROVE  Sized(infos, Len(infos)) /\ Len(infos) \in Nat
  BY DEF Infos, Sized

LEMMA InfosJoined ==
  ASSUME NEW a, NEW b, Infos(a), Infos(b)
  PROVE  Infos(a \o b)
  <1>1. PICK S : a \in Seq(S) /\ \A e \in S : HasSize(e)
    BY DEF Infos
  <1>2. PICK R : b \in Seq(R) /\ \A e \in R : HasSize(e)
    BY DEF Infos
  <1>3. a \in Seq(S \cup R) /\ b \in Seq(S \cup R)
    BY <1>1, <1>2
  <1>4. a \o b \in Seq(S \cup R)
    BY <1>3
  <1>5. \A e \in S \cup R : HasSize(e)
    BY <1>1, <1>2
  <1> QED
    BY <1>4, <1>5 DEF Infos

LEMMA ListInfosAre ==
  ASSUME NEW lens \in Seq(Nat), NEW kind, NEW slotOffset
  PROVE  Infos(ListInfos(lens, kind, slotOffset))
  <1> DEFINE n == Len(lens)
             what(i) == <<kind, Before(TensorsOf(lens), i), lens[i]>>
             slot(i) == i - 1 + slotOffset
             size(i) == ListBytes(lens[i])
             info(i) == [what |-> what(i), slot |-> slot(i), size |-> size(i), bytes |-> size(i)]
             all == [i \in 1 .. n |-> info(i)]
             S == {info(i) : i \in 1 .. n}
  <1>1. n \in Nat /\ DOMAIN lens = 1 .. n /\ \A i \in 1 .. n : lens[i] \in Nat
    OBVIOUS
  <1>2. ListInfos(lens, kind, slotOffset) = Picked(all, ListsIn(lens))
    BY <1>1 DEF ListInfos
  <1>3. \A i \in 1 .. n : size(i) \in Nat
    BY <1>1, ListBytesIn
  <1> HIDE DEF n, what, slot, size
  <1>4. \A e \in S : HasSize(e)
    BY <1>3 DEF HasSize
  <1> HIDE DEF info
  <1>5. all \in Seq(S)
    BY <1>1
  <1> HIDE DEF all, S
  <1>6. Picked(all, ListsIn(lens)) \in Seq(S)
    BY <1>5, PickedIn, Zenon
  <1> QED
    BY <1>2, <1>4, <1>6, Zenon DEF Infos

LEMMA DescriptionIs ==
  ASSUME NEW l, l.signature \in Signatures
  PROVE  /\ Infos(ConstInfos(l.signature)) /\ Infos(TensorListInfos(l))
         /\ Sizes(l.signature, "ws") \in Seq(Nat)
         /\ \A kind : Lens(l, kind) \in Seq(Nat)
  <1> DEFINE s == l.signature
  <1>1. s \in Seq([kind : Kinds, n : Nat])
    BY SignatureAssumption
  <1> HIDE DEF s
  <1>2. \A kind : Sizes(s, kind) \in Seq(Nat)
    BY <1>1, SizesIn, Zenon
  <1>3. \A kind : Lens(l, kind) \in Seq(Nat)
    <2>1. << >> \in Seq(Nat)
      OBVIOUS
    <2> QED
      BY <1>2, <2>1 DEF Lens, s
  <1>4. Infos(TensorListInfos(l))
    <2>1. /\ Infos(ListInfos(Lens(l, "in"), "in", 0))
          /\ Infos(ListInfos(Lens(l, "out"), "out", Len(Lens(l, "in"))))
      BY <1>3, ListInfosAre, Zenon
    <2> QED
      BY <2>1, InfosJoined, Zenon DEF TensorListInfos
  <1>5. Infos(ConstInfos(s))
    <2> DEFINE consts == ConstInfos(s)
    <2>1. consts \in Seq({consts[c] : c \in DOMAIN consts}) /\ Sized(consts, Len(consts))
      BY <1>1, ConstsSized, Zenon
    <2> HIDE DEF consts
    <2>2. \A e \in {consts[c] : c \in DOMAIN consts} : HasSize(e)
      BY <2>1 DEF Sized
    <2> QED
      BY <2>1, <2>2, Zenon DEF Infos, consts
  <1> QED
    BY <1>2, <1>3, <1>4, <1>5 DEF s

LEMMA CountedIn ==
  ASSUME NEW S, NEW s \in Seq(S), NEW chosen
  PROVE  Len(Picked(s, chosen)) \in Nat
  <1>1. Picked(s, chosen) \in Seq(S)
    BY PickedIn, Zenon
  <1> QED
    BY <1>1

LEMMA OperandsCounted ==
  ASSUME NEW l, l.signature \in Signatures, NEW kind
  PROVE  Len(Operands(l, kind)) \in Nat /\ ListCount(Lens(l, kind)) \in Nat
  <1>1. Lens(l, kind) \in Seq(Nat)
    BY DescriptionIs
  <1>2. ListCount(Lens(l, kind)) \in Nat
    BY <1>1, CountedIn, Zenon DEF ListCount
  <1> DEFINE sizes == Sizes(l.signature, kind)
             counts == TensorsOf(sizes)
  <1>3. sizes \in Seq(Nat)
    BY SizesIn, SignatureAssumption
  <1>4. SizesAre(counts, Len(sizes))
    <2> HIDE DEF sizes
    <2>1. DOMAIN sizes = 1 .. Len(sizes) /\ Len(sizes) \in Nat /\ \A i \in 1 .. Len(sizes) : sizes[i] \in Nat
      BY <1>3
    <2>2. counts = [i \in 1 .. Len(sizes) |-> IF sizes[i] > 0 THEN sizes[i] ELSE 1]
      BY <2>1 DEF TensorsOf
    <2>3. counts \in Seq(Nat) /\ Len(counts) = Len(sizes)
      BY <2>1, <2>2
    <2>4. \A i \in 1 .. Len(sizes) : counts[i] \in Nat
      BY <2>1, <2>2
    <2> QED
      BY <2>1, <2>3, <2>4 DEF SizesAre
  <1>5. Total(counts) \in Nat
    <2> HIDE DEF counts, sizes
    <2>1. Len(counts) = Len(sizes) /\ Len(sizes) \in Nat
      BY <1>4 DEF SizesAre
    <2>2. Sums(counts) \in [0 .. Len(sizes) -> Nat]
      BY <1>4, SumsUp
    <2> QED
      BY <2>1, <2>2 DEF Total
  <1>6. CASE Lens(l, kind) # << >>
    <2>1. Operands(l, kind) = Lens(l, kind)
      BY <1>6 DEF Operands
    <2>2. Len(Lens(l, kind)) \in Nat
      BY <1>1
    <2> QED
      BY <1>2, <2>1, <2>2
  <1>7. CASE Lens(l, kind) = << >>
    <2> HIDE DEF counts
    <2>1. Operands(l, kind) = [i \in 1 .. Total(counts) |-> 0]
      BY <1>7 DEF Operands, counts
    <2>2. Len(Operands(l, kind)) = Total(counts)
      BY <1>5, <2>1
    <2> QED
      BY <1>2, <1>5, <2>2
  <1> QED
    BY <1>2, <1>6, <1>7

(* The number of arguments, a matter of what a launch has described.        *)
LEMMA ArgsNumIs ==
  ASSUME NEW k, NEW l, l.signature \in Signatures, Len(k.infos) \in Nat, Len(k.scratch) \in Nat
  PROVE  ArgsNum(k, l) \in Int
  <1>1. \A kind : Len(Operands(l, kind)) \in Nat /\ ListCount(Lens(l, kind)) \in Nat
    BY OperandsCounted, Zenon
  <1> DEFINE operands(kind) == Len(Operands(l, kind))
             lists(kind) == ListCount(Lens(l, kind))
             infos == Len(k.infos)
             scratch == Len(k.scratch)
             hwsync == IF k.hwsync < 0 THEN 0 ELSE 1
  <1>2. operands("in") \in Nat /\ operands("out") \in Nat /\ lists("in") \in Nat /\ lists("out") \in Nat
    BY <1>1, Zenon
  <1>3. ArgsNum(k, l) =
          operands("in") + operands("out") + (infos - lists("in") - lists("out")) + scratch + hwsync + 1
    BY DEF ArgsNum
  <1>4. infos \in Nat /\ scratch \in Nat /\ hwsync \in Nat
    OBVIOUS
  <1> HIDE DEF operands, lists, infos, scratch, hwsync
  <1> QED
    BY <1>2, <1>3, <1>4

LEMMA ArgsNumSame ==
  ASSUME NEW k, NEW r, NEW l, k.infos = r.infos, k.scratch = r.scratch, k.hwsync = r.hwsync
  PROVE  ArgsNum(k, l) = ArgsNum(r, l)
  BY DEF ArgsNum

-----------------------------------------------------------------------------
(* What Init copies is where it is said to be.                              *)
LEMMA CopiedWithin ==
  ASSUME NEW k, NEW l, l.signature \in Signatures, NEW t \in Tilings, ArgsNum(k, l) \in Int,
         Unfit(ConstInfos(l.signature), t) = {}
  PROVE  /\ Inside(Copied(k, l, t), POINTER * ArgsNum(k, l), ArgsSize(k, l, t))
         /\ Apart(Copied(k, l, t))
  <1> DEFINE base == POINTER * ArgsNum(k, l)
             consts == ConstInfos(l.signature)
             lists == TensorListInfos(l)
             A == base + AlignedSize(t.used)
             B == A + ConstBytes(t)
             C == B + ListsBytes(l)
             tilingPiece == Piece(<<"tiling">>, base, t.used)
  <1>1. base \in Int
    BY DEF POINTER
  <1>2. t.used \in Nat
    BY SignatureAssumption
  <1>3. AlignedSize(t.used) \in Nat /\ t.used <= AlignedSize(t.used)
    BY <1>2, AlignedHolds
  <1>4. Sized(consts, Len(consts)) /\ Sized(lists, Len(lists))
    BY DescriptionIs, InfosSized, Zenon
  <1>5. tilingPiece.at = base /\ tilingPiece.size = t.used
    BY DEF Piece
  <1>6. InfoBytes(lists) \in Nat
    <2>1. 0 \in Int
      OBVIOUS
    <2> HIDE DEF consts, lists
    <2> QED
      BY <1>4, <2>1, LaidOutApart, Zenon
  <1>7. /\ ConstBytes(t) \in Nat
        /\ \A o \in Int : /\ Inside(LaidOut(consts, o), o, o + ConstBytes(t))
                          /\ Apart(LaidOut(consts, o))
    <2> Unfit(consts, t) = {}
      OBVIOUS
    <2> HIDE DEF consts
    <2>1. \A o \in Int : /\ ConstBytes(t) \in Nat
                         /\ Inside(LaidOut(consts, o), o, o + ConstBytes(t))
                         /\ Apart(LaidOut(consts, o))
      BY <1>4, FittingWithin, Zenon
    <2>2. 0 \in Int
      OBVIOUS
    <2> QED
      BY <2>1, <2>2, Zenon
  <1>8. ListsBytes(l) \in Nat /\ InfoBytes(lists) <= ListsBytes(l)
    <2> HIDE DEF lists
    <2>1. AlignedSize(InfoBytes(lists)) \in Nat /\ InfoBytes(lists) <= AlignedSize(InfoBytes(lists))
      BY <1>6, AlignedHolds
    <2> QED
      BY <2>1 DEF ListsBytes, lists
  <1>9. k.tilingMode => Copied(k, l, t) = ({tilingPiece} \cup LaidOut(consts, A)) \cup LaidOut(lists, B)
    BY DEF Copied
  <1>10. ~k.tilingMode => Copied(k, l, t) = {}
    BY DEF Copied
  <1>11. k.tilingMode => ArgsSize(k, l, t) = base + (AlignedSize(t.used) + ConstBytes(t) + ListsBytes(l))
    BY DEF ArgsSize
  <1> DEFINE tiled == base + t.used
             c == B + InfoBytes(lists)
  <1> HIDE DEF consts, lists, base, tilingPiece
  <1>12. /\ A \in Int /\ B \in Int /\ C \in Int /\ tiled \in Int /\ c \in Int
         /\ base <= tiled /\ tiled <= A /\ A <= B /\ B <= c /\ c <= C
         /\ C = base + (AlignedSize(t.used) + ConstBytes(t) + ListsBytes(l))
    <2>1. /\ \A x \in Int, y \in Nat : x + y \in Int /\ x <= x + y
          /\ \A x \in Int : \A y, z \in Nat : y <= z => x + y <= x + z
      OBVIOUS
    <2>2. A \in Int /\ base <= tiled /\ tiled <= A /\ tiled \in Int
      BY <1>1, <1>2, <1>3
    <2>3. A <= B /\ B \in Int
      <3> HIDE DEF A
      <3> QED
        BY <1>7, <2>1, <2>2
    <2>4. B <= c /\ c <= C /\ c \in Int /\ C \in Int
      <3> HIDE DEF B
      <3> QED
        BY <1>6, <1>8, <2>1, <2>3
    <2>5. C = base + (AlignedSize(t.used) + ConstBytes(t) + ListsBytes(l))
      BY <1>1, <1>3, <1>7, <1>8
    <2> QED
      BY <2>2, <2>3, <2>4, <2>5
  <1>13. Inside({tilingPiece}, base, tiled) /\ Apart({tilingPiece})
    BY <1>1, <1>2, <1>5 DEF Inside, Apart
  <1>14. Inside(LaidOut(consts, A), A, B) /\ Apart(LaidOut(consts, A))
    BY <1>7, <1>12, Zenon
  <1> HIDE DEF A, B, C
  <1>22. Inside(LaidOut(lists, B), B, c) /\ Apart(LaidOut(lists, B))
    BY <1>4, <1>12, LaidOutApart, Zenon
  <1> HIDE DEF tiled, c
  <1>15. /\ Inside({tilingPiece} \cup LaidOut(consts, A), base, B)
         /\ Apart({tilingPiece} \cup LaidOut(consts, A))
    BY <1>1, <1>12, <1>13, <1>14, InsideJoined, Zenon
  <1> DEFINE all == ({tilingPiece} \cup LaidOut(consts, A)) \cup LaidOut(lists, B)
  <1>16. Inside(all, base, c) /\ Apart(all)
    <2> DEFINE front == {tilingPiece} \cup LaidOut(consts, A)
               back == LaidOut(lists, B)
    <2>1. base <= B /\ B <= B
      BY <1>1, <1>12
    <2>2. Inside(front, base, B) /\ Apart(front) /\ Inside(back, B, c) /\ Apart(back)
      BY <1>15, <1>22
    <2> HIDE DEF front, back
    <2>3. Inside(front \cup back, base, c) /\ Apart(front \cup back)
      BY <1>1, <1>12, <2>1, <2>2, InsideJoined, Zenon
    <2> QED
      BY <2>3 DEF front, back
  <1> HIDE DEF all
  <1>17. Inside(all, base, C)
    BY <1>12, <1>16 DEF Inside
  <1>18. k.tilingMode => Copied(k, l, t) = all /\ ArgsSize(k, l, t) = C
    BY <1>9, <1>11, <1>12 DEF all
  <1>19. Inside({}, base, ArgsSize(k, l, t)) /\ Apart({})
    BY DEF Inside, Apart
  <1>20. CASE k.tilingMode
    BY <1>16, <1>17, <1>18, <1>20 DEF base
  <1>21. CASE ~k.tilingMode
    BY <1>10, <1>19, <1>21 DEF base
  <1> QED
    BY <1>20, <1>21

-----------------------------------------------------------------------------
(* What DataWithinArgs says, of any kernel: it is inductive as it stands,   *)
(* as the arguments are counted from what Init has described.               *)
Fields ==
  {"tilingMode", "listMode", "initFlag", "argsSize", "data", "host", "infos", "scratch",
   "hwsync", "size", "used", "constOffset"}

DataIn(k, l) ==
  /\ \A d \in k.data :
       /\ POINTER * ArgsNum(k, l) <= d.at
       /\ d.at + d.size <= k.argsSize
  /\ Apart(k.data)

ArgsInv == DOMAIN kernel = Fields /\ DataIn(kernel, launch)

LEMMA DataInIs == DataIn(kernel, launch) <=> DataWithinArgs
  BY DEF DataIn, DataWithinArgs, Apart

LEMMA NewKernelFields ==
  DOMAIN NewKernel = Fields /\ NewKernel.initFlag = FALSE /\ NewKernel.data = {}
  BY DEF NewKernel, Fields

LEMMA NoDataIn ==
  ASSUME NEW k, NEW l, k.data = {}
  PROVE  DataIn(k, l)
  BY DEF DataIn, Apart

(* Less data, for the same arguments.                                       *)
LEMMA DataLess ==
  ASSUME NEW k, NEW r, NEW l, DataIn(k, l),
         r.infos = k.infos, r.scratch = k.scratch, r.hwsync = k.hwsync,
         r.argsSize = k.argsSize, r.data \subseteq k.data
  PROVE  DataIn(r, l)
  <1>1. ArgsNum(r, l) = ArgsNum(k, l)
    BY ArgsNumSame
  <1> QED
    BY <1>1 DEF DataIn, Apart

LEMMA InitLaunchStep ==
  ASSUME ArgsInv, NEW l \in Launches, NEW t \in Tilings, InitLaunch(l, t)
  PROVE  ArgsInv'
  <1> DEFINE consts == ConstInfos(l.signature)
             lists == TensorListInfos(l)
             k == [Described(l, t, consts) EXCEPT !.infos = consts \o lists]
             size == ArgsSize(k, l, t)
             data == Copied(k, l, t)
             r == [k EXCEPT !.initFlag = TRUE, !.argsSize = size, !.data = data]
  <1>1. l.signature \in Signatures
    BY DEF Launches
  <1>2. /\ DOMAIN k = Fields /\ k.data = {}
        /\ k.infos = consts \o lists /\ k.scratch = Sizes(l.signature, "ws")
    BY DEF ArgsInv, Described, Fields
  <1>3. kernel' = (IF size > MAX_ARGS_SIZE THEN k ELSE r) /\ launch' = l /\ Unfit(consts, t) = {}
    BY DEF InitLaunch
  <1> HIDE DEF k, consts, lists
  <1>4. Len(k.infos) \in Nat /\ Len(k.scratch) \in Nat
    <2>1. Infos(consts) /\ Infos(lists) /\ Sizes(l.signature, "ws") \in Seq(Nat)
      BY <1>1, DescriptionIs DEF consts, lists
    <2>2. Infos(consts \o lists)
      BY <2>1, InfosJoined, Zenon
    <2>3. Len(consts \o lists) \in Nat
      BY <2>2, InfosSized, Zenon
    <2> QED
      BY <1>2, <2>1, <2>3
  <1>5. ArgsNum(k, l) \in Int
    BY <1>1, <1>4, ArgsNumIs
  <1>6. Inside(data, POINTER * ArgsNum(k, l), size) /\ Apart(data)
    BY <1>1, <1>3, <1>5, CopiedWithin DEF consts
  <1> HIDE DEF size, data
  <1>7. /\ DOMAIN r = Fields /\ r.argsSize = size /\ r.data = data
        /\ r.infos = k.infos /\ r.scratch = k.scratch /\ r.hwsync = k.hwsync
    BY <1>2 DEF Fields
  <1> HIDE DEF r
  <1>8. ArgsNum(r, l) = ArgsNum(k, l)
    BY <1>7, ArgsNumSame
  <1>9. DataIn(r, l)
    BY <1>6, <1>7, <1>8 DEF DataIn, Inside
  <1>10. DataIn(k, l)
    BY <1>2, NoDataIn
  <1>11. (kernel' = k \/ kernel' = r) /\ launch' = l
    BY <1>3
  <1> QED
    BY <1>2, <1>7, <1>9, <1>10, <1>11 DEF ArgsInv

LEMMA ArgsInvStep ==
  ASSUME ArgsInv, [ArgsNext]_argsVars
  PROVE  ArgsInv'
  <1>1. ASSUME NEW l \in Launches, NEW t \in Tilings, InitLaunch(l, t)
        PROVE  ArgsInv'
    BY <1>1, InitLaunchStep
  <1>7. ASSUME NEW l \in Launches, NEW t \in Tilings, InitFails(l, t)
        PROVE  ArgsInv'
    <2>1. PICK consts : kernel' = Described(l, t, consts)
      BY <1>7 DEF InitFails
    <2>2. DOMAIN kernel' = Fields /\ kernel'.data = {}
      BY <2>1 DEF Described, ArgsInv, Fields
    <2> QED
      BY <2>2, NoDataIn DEF ArgsInv
  <1>2. CASE Clone
    <2>1. launch' = launch
      BY <1>2 DEF Clone
    <2>2. CASE kernel.initFlag
      <3> DEFINE less == IF kernel.tilingMode THEN kernel.data ELSE {}
                 r == [kernel EXCEPT !.listMode = FALSE, !.data = less]
      <3>1. kernel' = r
        BY <1>2, <2>2 DEF Clone
      <3>2. less \subseteq kernel.data
        OBVIOUS
      <3> HIDE DEF less
      <3>3. /\ DOMAIN r = Fields /\ r.data = less /\ r.argsSize = kernel.argsSize
            /\ r.infos = kernel.infos /\ r.scratch = kernel.scratch /\ r.hwsync = kernel.hwsync
        BY DEF ArgsInv, Fields
      <3> HIDE DEF r
      <3>4. DataIn(r, launch)
        BY <3>2, <3>3, DataLess DEF ArgsInv
      <3> QED
        BY <2>1, <3>1, <3>3, <3>4 DEF ArgsInv
    <2>3. CASE ~kernel.initFlag
      <3> DEFINE r == [NewKernel EXCEPT !.tilingMode = kernel.tilingMode]
      <3>1. kernel' = r
        BY <1>2, <2>3 DEF Clone
      <3>2. DOMAIN r = Fields /\ r.data = {}
        BY NewKernelFields
      <3> HIDE DEF r
      <3>3. DataIn(r, launch)
        BY <3>2, NoDataIn
      <3> QED
        BY <2>1, <3>1, <3>2, <3>3 DEF ArgsInv
    <2> QED
      BY <2>2, <2>3
  <1>3. ASSUME NEW flag \in BOOLEAN, SetLaunchWithTiling(flag)
        PROVE  ArgsInv'
    <2>1. /\ DOMAIN kernel' = Fields /\ kernel'.data = kernel.data /\ kernel'.argsSize = kernel.argsSize
          /\ kernel'.infos = kernel.infos /\ kernel'.scratch = kernel.scratch
          /\ kernel'.hwsync = kernel.hwsync /\ launch' = launch
      BY <1>3 DEF SetLaunchWithTiling, WithoutTiling, ArgsInv, Fields
    <2> QED
      BY <2>1, DataLess DEF ArgsInv
  <1>8. ASSUME NEW t \in Tilings, SetTilingHostAddr(t.size)
        PROVE  ArgsInv'
    <2>1. /\ DOMAIN kernel' = Fields /\ kernel'.data = kernel.data /\ kernel'.argsSize = kernel.argsSize
          /\ kernel'.infos = kernel.infos /\ kernel'.scratch = kernel.scratch
          /\ kernel'.hwsync = kernel.hwsync /\ launch' = launch
      BY <1>8 DEF SetTilingHostAddr, ArgsInv, Fields
    <2> QED
      BY <2>1, DataLess DEF ArgsInv
  <1>4. CASE Reset
    <2>1. DOMAIN kernel' = Fields /\ kernel'.data = {}
      BY <1>4 DEF Reset, WithoutTiling, ArgsInv, Fields
    <2> QED
      BY <2>1, NoDataIn DEF ArgsInv
  <1>5. ASSUME NEW l \in {launch, CopyOf(launch)}, RunLaunch(l)
        PROVE  ArgsInv'
    <2> DEFINE kept == Kept(kernel, ArgsNum(kernel, l))
               r == [kernel EXCEPT !.data = kept]
    <2>1. launch' = launch /\ (kernel' = r \/ kernel' = kernel)
      BY <1>5 DEF RunLaunch
    <2>2. kept \subseteq kernel.data
      BY DEF Kept
    <2> HIDE DEF kept
    <2>3. /\ DOMAIN r = Fields /\ r.data = kept /\ r.argsSize = kernel.argsSize
          /\ r.infos = kernel.infos /\ r.scratch = kernel.scratch /\ r.hwsync = kernel.hwsync
      BY DEF ArgsInv, Fields
    <2> HIDE DEF r
    <2>4. DataIn(r, launch)
      BY <2>2, <2>3, DataLess DEF ArgsInv
    <2> QED
      BY <2>1, <2>3, <2>4 DEF ArgsInv
  <1>6. CASE UNCHANGED argsVars
    BY <1>6 DEF argsVars, ArgsInv
  <1> QED
    BY <1>1, <1>2, <1>3, <1>4, <1>5, <1>6, <1>7, <1>8 DEF ArgsNext

(* KernelBase::Init writes the tiling, the const tensors and the tensor     *)
(* lists behind the slots of the arguments and within the buffer it has     *)
(* asked for, none over another, for every signature, every lens a launch   *)
(* gives and every tiling; and what a clone or a run keeps stays so.  That  *)
(* const tensors are counted with more bytes than they have, and possibly   *)
(* than the tiling has left, does not matter: those that do not fit as they *)
(* are AddConstTensorData refuses, and Init then lays out nothing.          *)
THEOREM DataStaysWithinArgs == ArgsSpec => []DataWithinArgs
  <1>1. ArgsInit => ArgsInv
    BY NewKernelFields, NoDataIn DEF ArgsInit, ArgsInv
  <1>2. ArgsInv /\ [ArgsNext]_argsVars => ArgsInv'
    BY ArgsInvStep
  <1>3. ArgsInv => DataWithinArgs
    BY DataInIs DEF ArgsInv
  <1> QED
    BY <1>1, <1>2, <1>3, PTL DEF ArgsSpec

-----------------------------------------------------------------------------
(* How many places of a set there are up to a place: where what is picked   *)
(* from that place goes.                                                    *)
Ones(C, n) == [i \in 1 .. n |-> IF i \in C THEN 1 ELSE 0]
Ranks(C, n) == Sums(Ones(C, n))

LEMMA RankUp ==
  ASSUME NEW C, NEW n \in Nat
  PROVE  /\ SizesAre(Ones(C, n), n)
         /\ Ranks(C, n) \in [0 .. n -> Nat] /\ Ranks(C, n)[0] = 0
         /\ \A i \in 1 .. n : Ranks(C, n)[i] = Ranks(C, n)[i - 1] + (IF i \in C THEN 1 ELSE 0)
  <1>1. /\ Ones(C, n) \in Seq(Nat) /\ Len(Ones(C, n)) = n
        /\ \A i \in 1 .. n : Ones(C, n)[i] = IF i \in C THEN 1 ELSE 0
    BY DEF Ones
  <1>2. SizesAre(Ones(C, n), n)
    BY <1>1 DEF SizesAre
  <1>3. /\ Ranks(C, n) \in [0 .. n -> Nat] /\ Ranks(C, n)[0] = 0
        /\ \A i \in 1 .. n : Ranks(C, n)[i] = Ranks(C, n)[i - 1] + Ones(C, n)[i]
    BY <1>2, SumsUp DEF Ranks
  <1> QED
    BY <1>1, <1>2, <1>3

LEMMA RankWithin ==
  ASSUME NEW C, NEW n \in Nat, NEW j \in 1 .. n
  PROVE  /\ Ranks(C, n)[j] \in Nat /\ Ranks(C, n)[j] <= Ranks(C, n)[n]
         /\ j \in C => 1 <= Ranks(C, n)[j]
  <1>1. SizesAre(Ones(C, n), n) /\ Ranks(C, n) \in [0 .. n -> Nat]
    BY RankUp
  <1>2. j \in 0 .. n /\ n \in j .. n /\ j - 1 \in 0 .. n
    OBVIOUS
  <1>3. Ranks(C, n)[j] <= Ranks(C, n)[n]
    BY <1>1, <1>2, SumsGrow DEF Ranks
  <1>4. Ranks(C, n)[j] = Ranks(C, n)[j - 1] + (IF j \in C THEN 1 ELSE 0)
    BY RankUp
  <1>5. Ranks(C, n)[j] \in Nat /\ Ranks(C, n)[j - 1] \in Nat
    BY <1>1, <1>2
  <1> QED
    BY <1>3, <1>4, <1>5

(* What is picked: as many as there are places, the right thing from each,  *)
(* and nothing else.                                                        *)
LEMMA PickedAre ==
  ASSUME NEW S, NEW s \in Seq(S), NEW C, NEW i \in 0 .. Len(s)
  PROVE  /\ Len(PickedTo(s, C)[i]) = Ranks(C, Len(s))[i]
         /\ \A j \in 1 .. i : j \in C => PickedTo(s, C)[i][Ranks(C, Len(s))[j]] = s[j]
         /\ \A m \in 1 .. Ranks(C, Len(s))[i] : \E j \in 1 .. i : j \in C /\ Ranks(C, Len(s))[j] = m
  <1> DEFINE n == Len(s)
             P == PickedTo(s, C)
             R == Ranks(C, n)
             Counted(h) == Len(P[h]) = R[h]
             Placed(h) == \A j \in 1 .. h : j \in C => P[h][R[j]] = s[j]
             Nothing_(h) == \A m \in 1 .. R[h] : \E j \in 1 .. h : j \in C /\ R[j] = m
             Good == {h \in 0 .. n : Counted(h) /\ Placed(h) /\ Nothing_(h)}
  <1>1. /\ n \in Nat /\ \A h \in 1 .. n : s[h] \in S /\ h \in 0 .. n
        /\ P \in [0 .. n -> Seq(S)] /\ P[0] = << >>
        /\ \A h \in 1 .. n : P[h] = PickOne(s, C, P[h - 1], h)
    BY PickedUp
  <1>2. /\ R \in [0 .. n -> Nat] /\ R[0] = 0
        /\ \A h \in 1 .. n : R[h] = R[h - 1] + (IF h \in C THEN 1 ELSE 0)
    BY <1>1, RankUp
  <1>3. \A h \in 0 .. n : \A j \in 1 .. h : j \in C => R[j] \in 1 .. R[h]
    <2> SUFFICES ASSUME NEW h \in 0 .. n, NEW j \in 1 .. h, j \in C
                 PROVE  R[j] \in 1 .. R[h]
      OBVIOUS
    <2>1. j \in 1 .. n /\ j \in 0 .. n /\ h \in j .. n
      BY <1>1
    <2>2. SizesAre(Ones(C, n), n)
      BY <1>1, RankUp
    <2>3. R[j] <= R[h]
      BY <2>1, <2>2, SumsGrow DEF Ranks
    <2>4. R[j] \in Nat /\ 1 <= R[j]
      BY <1>1, <2>1, RankWithin
    <2>5. R[h] \in Nat
      BY <1>2
    <2> HIDE DEF R
    <2> QED
      BY <2>3, <2>4, <2>5
  <1> HIDE DEF n, P, R
  <1>4. 0 \in Good
    <2>1. Counted(0)
      BY <1>1, <1>2
    <2>2. Placed(0) /\ Nothing_(0)
      BY <1>2
    <2> QED
      BY <1>1, <2>1, <2>2
  <1>5. ASSUME NEW h \in 0 .. n - 1, h \in Good
        PROVE  h + 1 \in Good
    <2> DEFINE g == h + 1
    <2>1. g \in 1 .. n /\ g \in 0 .. n /\ g - 1 = h /\ h \in 0 .. n /\ h \in Nat
      BY <1>1
    <2>2. P[g] = PickOne(s, C, P[h], g) /\ R[g] = R[h] + (IF g \in C THEN 1 ELSE 0)
      BY <1>1, <1>2, <2>1
    <2>3. P[h] \in Seq(S) /\ R[h] \in Nat /\ s[g] \in S
      BY <1>1, <1>2, <2>1
    <2>4. Counted(h) /\ Placed(h) /\ Nothing_(h)
      BY <1>5
    <2>5. \A j \in 1 .. g : j \in 1 .. h \/ j = g
      BY <2>1
    <2>6. \A j \in 1 .. h : j \in 1 .. g
      BY <2>1
    <2>7. g \in 1 .. g
      BY <2>1
    <2> HIDE DEF g
    <2>8. CASE g \in C
      <3>1. P[g] = Append(P[h], s[g]) /\ R[g] = R[h] + 1
        BY <2>2, <2>8 DEF PickOne
      <3>2. /\ Len(P[g]) = R[g] /\ P[g][R[g]] = s[g]
            /\ \A m \in 1 .. R[h] : P[g][m] = P[h][m]
        BY <2>3, <2>4, <3>1
      <3>3. Placed(g)
        <4> SUFFICES ASSUME NEW j \in 1 .. g, j \in C
                     PROVE  P[g][R[j]] = s[j]
          OBVIOUS
        <4>1. CASE j = g
          BY <3>2, <4>1
        <4>2. CASE j \in 1 .. h
          <5>1. R[j] \in 1 .. R[h]
            BY <1>3, <2>1, <4>2
          <5> QED
            BY <2>4, <3>2, <4>2, <5>1
        <4> QED
          BY <2>5, <4>1, <4>2
      <3>4. Nothing_(g)
        <4> SUFFICES ASSUME NEW m \in 1 .. R[g]
                     PROVE  \E j \in 1 .. g : j \in C /\ R[j] = m
          OBVIOUS
        <4>1. m \in 1 .. R[h] \/ m = R[g]
          BY <2>3, <3>1
        <4>2. CASE m = R[g]
          BY <2>7, <2>8, <4>2
        <4>3. CASE m \in 1 .. R[h]
          BY <2>4, <2>6, <4>3
        <4> QED
          BY <4>1, <4>2, <4>3
      <3> QED
        BY <2>1, <3>2, <3>3, <3>4
    <2>9. CASE g \notin C
      <3>1. P[g] = P[h] /\ R[g] = R[h]
        BY <2>2, <2>3, <2>9 DEF PickOne
      <3>2. Placed(g)
        BY <2>4, <2>5, <2>9, <3>1
      <3>3. Nothing_(g)
        BY <2>4, <2>6, <3>1
      <3> QED
        BY <2>1, <2>4, <3>1, <3>2, <3>3
    <2> QED
      BY <2>8, <2>9 DEF g
  <1>6. 0 .. n \subseteq Good
    <2> HIDE DEF Good
    <2> QED
      BY <1>1, <1>4, <1>5, CountedUp, Zenon
  <1>7. i \in Good
    BY <1>6 DEF n
  <1> QED
    BY <1>7 DEF P, R, n

LEMMA PickedHas ==
  ASSUME NEW S, NEW s \in Seq(S), NEW C
  PROVE  /\ Picked(s, C) \in Seq(S)
         /\ Len(Picked(s, C)) = Ranks(C, Len(s))[Len(s)]
         /\ \A j \in 1 .. Len(s) : j \in C =>
              /\ Ranks(C, Len(s))[j] \in 1 .. Len(Picked(s, C))
              /\ Picked(s, C)[Ranks(C, Len(s))[j]] = s[j]
         /\ \A m \in 1 .. Len(Picked(s, C)) :
              \E j \in 1 .. Len(s) : j \in C /\ Ranks(C, Len(s))[j] = m /\ Picked(s, C)[m] = s[j]
  <1> DEFINE n == Len(s)
             R == Ranks(C, n)
             q == Picked(s, C)
  <1>1. n \in Nat /\ n \in 0 .. n
    OBVIOUS
  <1>2. q \in Seq(S)
    BY PickedIn
  <1>3. /\ Len(q) = R[n]
        /\ \A j \in 1 .. n : j \in C => q[R[j]] = s[j]
        /\ \A m \in 1 .. R[n] : \E j \in 1 .. n : j \in C /\ R[j] = m
    BY <1>1, PickedAre DEF Picked
  <1>4. \A j \in 1 .. n : j \in C => R[j] \in Nat /\ R[j] <= R[n] /\ 1 <= R[j]
    BY <1>1, RankWithin
  <1> HIDE DEF n, R, q
  <1>5. \A j \in 1 .. n : j \in C => R[j] \in 1 .. Len(q)
    BY <1>2, <1>3, <1>4
  <1> QED
    BY <1>2, <1>3, <1>5 DEF n, R, q

(* The sums of what is picked are those of what is there, without the rest. *)
LEMMA SumsOfPicked ==
  ASSUME NEW C, NEW n \in Nat, NEW q, NEW v, SizesAre(q, Ranks(C, n)[n]), SizesAre(v, n),
         \A j \in 1 .. n : (j \in C => q[Ranks(C, n)[j]] = v[j]) /\ (j \notin C => v[j] = 0),
         NEW i \in 0 .. n
  PROVE  Sums(q)[Ranks(C, n)[i]] = Sums(v)[i]
  <1> DEFINE R == Ranks(C, n)
             m == R[n]
             Q == Sums(q)
             V == Sums(v)
             Good == {h \in 0 .. n : Q[R[h]] = V[h]}
  <1>1. /\ R \in [0 .. n -> Nat] /\ R[0] = 0
        /\ \A h \in 1 .. n : R[h] = R[h - 1] + (IF h \in C THEN 1 ELSE 0)
    BY RankUp
  <1>2. \A h \in 1 .. n : R[h] \in Nat /\ R[h] <= m /\ (h \in C => 1 <= R[h])
    BY RankWithin
  <1>3. Q \in [0 .. m -> Nat] /\ Q[0] = 0 /\ \A h \in 1 .. m : Q[h] = Q[h - 1] + q[h]
    BY SumsUp
  <1>4. V \in [0 .. n -> Nat] /\ V[0] = 0 /\ \A h \in 1 .. n : V[h] = V[h - 1] + v[h]
    BY SumsUp
  <1>5. \A j \in 1 .. n : (j \in C => q[R[j]] = v[j]) /\ (j \notin C => v[j] = 0)
    OBVIOUS
  <1> HIDE DEF R, Q, V
  <1>6. m \in Nat
    BY <1>1
  <1> HIDE DEF m
  <1>7. 0 \in Good
    BY <1>1, <1>3, <1>4
  <1>8. ASSUME NEW h \in 0 .. n - 1, h \in Good
        PROVE  h + 1 \in Good
    <2> DEFINE g == h + 1
    <2>1. g \in 1 .. n /\ g \in 0 .. n /\ g - 1 = h /\ h \in 0 .. n
      OBVIOUS
    <2>2. R[g] = R[h] + (IF g \in C THEN 1 ELSE 0) /\ V[g] = V[h] + v[g] /\ V[h] \in Nat /\ R[h] \in Nat
      BY <1>1, <1>4, <2>1
    <2>3. Q[R[h]] = V[h]
      BY <1>8
    <2> HIDE DEF g
    <2>4. CASE g \in C
      <3>1. R[g] = R[h] + 1 /\ R[g] \in 1 .. m /\ R[g] - 1 = R[h]
        BY <1>2, <1>6, <2>1, <2>2, <2>4
      <3>2. Q[R[g]] = Q[R[h]] + q[R[g]]
        BY <1>3, <3>1
      <3>3. q[R[g]] = v[g]
        BY <1>5, <2>1, <2>4
      <3> QED
        BY <2>1, <2>2, <2>3, <3>2, <3>3
    <2>5. CASE g \notin C
      <3>1. R[g] = R[h] /\ v[g] = 0
        BY <1>5, <2>1, <2>2, <2>5
      <3>2. V[g] = V[h]
        BY <2>2, <3>1
      <3> QED
        BY <2>1, <2>3, <3>1, <3>2
    <2> QED
      BY <2>4, <2>5 DEF g
  <1>9. 0 .. n \subseteq Good
    <2> HIDE DEF Good
    <2> QED
      BY <1>7, <1>8, CountedUp, Zenon
  <1>10. i \in Good
    BY <1>9
  <1> QED
    BY <1>10 DEF R, Q, V

(* The places of E are those of C whose pick is in D.                       *)
Through(C, D, E, n) == \A j \in 1 .. n : j \in E <=> j \in C /\ Ranks(C, n)[j] \in D

LEMMA RankThrough ==
  ASSUME NEW C, NEW D, NEW E, NEW n \in Nat, Through(C, D, E, n), NEW i \in 0 .. n
  PROVE  Ranks(D, Ranks(C, n)[n])[Ranks(C, n)[i]] = Ranks(E, n)[i]
  <1> DEFINE R == Ranks(C, n)
             m == R[n]
  <1>1. R \in [0 .. n -> Nat] /\ n \in 0 .. n
    BY RankUp
  <1>2. m \in Nat
    BY <1>1
  <1>3. SizesAre(Ones(D, m), m) /\ SizesAre(Ones(E, n), n)
    BY <1>2, RankUp
  <1>4. ASSUME NEW j \in 1 .. n
        PROVE  /\ j \in C => Ones(D, m)[R[j]] = Ones(E, n)[j]
               /\ j \notin C => Ones(E, n)[j] = 0
    <2>1. Ones(E, n)[j] = IF j \in E THEN 1 ELSE 0
      BY DEF Ones
    <2>2. j \in C => R[j] \in 1 .. m
      <3>1. R[j] \in Nat /\ R[j] <= m /\ (j \in C => 1 <= R[j])
        BY RankWithin
      <3> HIDE DEF R
      <3> QED
        BY <1>2, <3>1
    <2>3. j \in C => Ones(D, m)[R[j]] = IF R[j] \in D THEN 1 ELSE 0
      <3> HIDE DEF m, R
      <3> QED
        BY <2>2 DEF Ones
    <2>4. j \in E <=> j \in C /\ R[j] \in D
      BY DEF Through
    <2> HIDE DEF R, m
    <2> QED
      BY <2>1, <2>3, <2>4
  <1>5. Sums(Ones(D, m))[R[i]] = Sums(Ones(E, n))[i]
    BY <1>3, <1>4, SumsOfPicked
  <1> QED
    BY <1>5 DEF Ranks

LEMMA RankSame ==
  ASSUME NEW C, NEW D, NEW n \in Nat, \A i \in 1 .. n : i \in C <=> i \in D
  PROVE  Ranks(C, n) = Ranks(D, n)
  <1>1. Ones(C, n) = Ones(D, n)
    BY DEF Ones
  <1> QED
    BY <1>1 DEF Ranks

LEMMA RankJoined ==
  ASSUME NEW C, NEW D, NEW n \in Nat, \A i \in 1 .. n : ~(i \in C /\ i \in D), NEW i \in 0 .. n
  PROVE  Ranks(C \cup D, n)[i] = Ranks(C, n)[i] + Ranks(D, n)[i]
  <1> DEFINE P == Ranks(C, n)
             Q == Ranks(D, n)
             R == Ranks(C \cup D, n)
             Good == {h \in 0 .. n : R[h] = P[h] + Q[h]}
  <1>1. /\ P \in [0 .. n -> Nat] /\ P[0] = 0
        /\ \A h \in 1 .. n : P[h] = P[h - 1] + (IF h \in C THEN 1 ELSE 0)
    BY RankUp
  <1>2. /\ Q \in [0 .. n -> Nat] /\ Q[0] = 0
        /\ \A h \in 1 .. n : Q[h] = Q[h - 1] + (IF h \in D THEN 1 ELSE 0)
    BY RankUp
  <1>3. /\ R[0] = 0
        /\ \A h \in 1 .. n : R[h] = R[h - 1] + (IF h \in C \/ h \in D THEN 1 ELSE 0)
    BY RankUp
  <1> HIDE DEF P, Q, R
  <1>4. 0 \in Good
    <2>1. 0 \in 0 .. n
      OBVIOUS
    <2>2. P[0] = 0 /\ Q[0] = 0 /\ R[0] = 0
      BY <1>1, <1>2, <1>3
    <2>3. R[0] = P[0] + Q[0]
      BY <2>2
    <2> QED
      BY <2>1, <2>3
  <1>5. ASSUME NEW h \in 0 .. n - 1, h \in Good
        PROVE  h + 1 \in Good
    <2>1. h + 1 \in 1 .. n /\ h + 1 \in 0 .. n /\ (h + 1) - 1 = h
      OBVIOUS
    <2>2. /\ P[h + 1] = P[h] + (IF h + 1 \in C THEN 1 ELSE 0)
          /\ Q[h + 1] = Q[h] + (IF h + 1 \in D THEN 1 ELSE 0)
          /\ R[h + 1] = R[h] + (IF h + 1 \in C \/ h + 1 \in D THEN 1 ELSE 0)
          /\ P[h] \in Nat /\ Q[h] \in Nat /\ R[h] = P[h] + Q[h]
      BY <1>1, <1>2, <1>3, <1>5, <2>1
    <2>3. R[h + 1] = P[h + 1] + Q[h + 1]
      BY <2>1, <2>2
    <2> QED
      BY <2>1, <2>3
  <1>6. 0 .. n \subseteq Good
    <2> HIDE DEF Good
    <2> QED
      BY <1>4, <1>5, CountedUp, Zenon
  <1>7. i \in Good
    BY <1>6
  <1> QED
    BY <1>7 DEF P, Q, R

(* Where there are no places the rank stays, where all are it is the place. *)
LEMMA RankStill ==
  ASSUME NEW C, NEW n \in Nat, NEW i \in 0 .. n, NEW j \in i .. n,
         \A h \in 1 .. n : i < h /\ h <= j => h \notin C
  PROVE  Ranks(C, n)[j] = Ranks(C, n)[i]
  <1> DEFINE R == Ranks(C, n)
             Good == {h \in 0 .. j - i : R[i + h] = R[i]}
  <1>1. \A h \in 1 .. n : R[h] = R[h - 1] + (IF h \in C THEN 1 ELSE 0)
    BY RankUp
  <1>2. R \in [0 .. n -> Nat]
    BY RankUp
  <1> HIDE DEF R
  <1>3. 0 \in Good
    BY <1>2
  <1>4. ASSUME NEW h \in 0 .. (j - i) - 1, h \in Good
        PROVE  h + 1 \in Good
    <2>1. /\ h + 1 \in 0 .. j - i /\ i + (h + 1) \in 1 .. n /\ (i + (h + 1)) - 1 = i + h
          /\ i + (h + 1) \notin C /\ i + h \in 0 .. n
      OBVIOUS
    <2>2. R[i + (h + 1)] = R[i + h] + 0
      BY <1>1, <2>1
    <2>3. R[i + h] = R[i] /\ R[i] \in Nat
      BY <1>2, <1>4, <2>1
    <2>4. R[i + (h + 1)] = R[i]
      BY <2>2, <2>3
    <2> QED
      BY <2>1, <2>4
  <1>5. j - i \in Nat /\ j - i \in 0 .. j - i /\ i + (j - i) = j
    OBVIOUS
  <1>6. 0 .. j - i \subseteq Good
    <2> HIDE DEF Good
    <2> QED
      BY <1>3, <1>4, <1>5, CountedUp, Zenon
  <1>7. R[i + (j - i)] = R[i]
    BY <1>5, <1>6
  <1> QED
    BY <1>5, <1>7 DEF R

LEMMA RankFull ==
  ASSUME NEW C, NEW n \in Nat, NEW i \in 0 .. n, \A h \in 1 .. n : h <= i => h \in C
  PROVE  Ranks(C, n)[i] = i
  <1> DEFINE R == Ranks(C, n)
             Good == {h \in 0 .. i : R[h] = h}
  <1>1. R[0] = 0 /\ \A h \in 1 .. n : R[h] = R[h - 1] + (IF h \in C THEN 1 ELSE 0)
    BY RankUp
  <1> HIDE DEF R
  <1>2. 0 \in Good
    BY <1>1
  <1>3. ASSUME NEW h \in 0 .. i - 1, h \in Good
        PROVE  h + 1 \in Good
    <2>1. h + 1 \in 0 .. i /\ h + 1 \in 1 .. n /\ (h + 1) - 1 = h /\ h + 1 \in C
      OBVIOUS
    <2>2. R[h + 1] = R[h] + 1 /\ R[h] = h
      BY <1>1, <1>3, <2>1
    <2> QED
      BY <2>1, <2>2
  <1>4. i \in Nat /\ i \in 0 .. i
    OBVIOUS
  <1>5. 0 .. i \subseteq Good
    <2> HIDE DEF Good
    <2> QED
      BY <1>2, <1>3, <1>4, CountedUp, Zenon
  <1>6. i \in Good
    BY <1>4, <1>5
  <1> QED
    BY <1>6 DEF R

-----------------------------------------------------------------------------
(* The parameters of one kind, by their places in the signature.            *)
SignatureSet == Seq([kind : Kinds, n : Nat])
RankOf(s, kind) == Ranks(Of(s, kind), Len(s))

LEMMA SignatureIs ==
  ASSUME NEW s \in SignatureSet
  PROVE  /\ Len(s) \in Nat /\ DOMAIN s = 1 .. Len(s)
         /\ \A i \in 1 .. Len(s) : s[i].kind \in Kinds /\ s[i].n \in Nat
  <1> DEFINE R == [kind : Kinds, n : Nat]
  <1>1. s \in Seq(R) /\ \A p \in R : p.kind \in Kinds /\ p.n \in Nat
    BY DEF SignatureSet
  <1> HIDE DEF R
  <1>2. DOMAIN s = 1 .. Len(s) /\ Len(s) \in Nat /\ \A i \in 1 .. Len(s) : s[i] \in R
    BY <1>1
  <1> QED
    BY <1>1, <1>2

LEMMA OfIs ==
  ASSUME NEW s \in SignatureSet, NEW kind
  PROVE  /\ \A i : i \in Of(s, kind) <=> i \in 1 .. Len(s) /\ s[i].kind = kind
         /\ RankOf(s, kind) \in [0 .. Len(s) -> Nat] /\ RankOf(s, kind)[0] = 0
         /\ \A i \in 1 .. Len(s) : RankOf(s, kind)[i] =
              RankOf(s, kind)[i - 1] + (IF s[i].kind = kind THEN 1 ELSE 0)
         /\ \A i \in 1 .. Len(s) : RankOf(s, kind)[i] <= RankOf(s, kind)[Len(s)]
         /\ \A i \in Of(s, kind) : 1 <= RankOf(s, kind)[i]
  <1>1. Len(s) \in Nat /\ DOMAIN s = 1 .. Len(s)
    BY SignatureIs
  <1>2. \A i : i \in Of(s, kind) <=> i \in 1 .. Len(s) /\ s[i].kind = kind
    BY <1>1 DEF Of
  <1> DEFINE C == Of(s, kind)
             n == Len(s)
             R == RankOf(s, kind)
  <1>3. R = Ranks(C, n)
    BY DEF RankOf
  <1> HIDE DEF C, n, R
  <1>4. n \in Nat
    BY <1>1 DEF n
  <1>5. /\ R \in [0 .. n -> Nat] /\ R[0] = 0
        /\ \A i \in 1 .. n : R[i] = R[i - 1] + (IF i \in C THEN 1 ELSE 0)
    BY <1>3, <1>4, RankUp
  <1>6. \A i \in 1 .. n : R[i] <= R[n] /\ (i \in C => 1 <= R[i])
    BY <1>3, <1>4, RankWithin
  <1>7. \A i \in 1 .. n : i \in C <=> s[i].kind = kind
    BY <1>2 DEF C, n
  <1>8. \A i \in 1 .. n : R[i] = R[i - 1] + (IF s[i].kind = kind THEN 1 ELSE 0)
    BY <1>5, <1>7, Zenon
  <1>9. \A i \in C : i \in 1 .. n
    BY <1>2 DEF C, n
  <1> QED
    BY <1>2, <1>5, <1>6, <1>8, <1>9 DEF C, n, R

LEMMA SizesHave ==
  ASSUME NEW s \in SignatureSet, NEW kind
  PROVE  /\ Sizes(s, kind) \in Seq(Nat) /\ Len(Sizes(s, kind)) = RankOf(s, kind)[Len(s)]
         /\ \A j \in Of(s, kind) :
              /\ RankOf(s, kind)[j] \in 1 .. Len(Sizes(s, kind))
              /\ Sizes(s, kind)[RankOf(s, kind)[j]] = s[j].n
         /\ \A m \in 1 .. Len(Sizes(s, kind)) : \E j \in Of(s, kind) : RankOf(s, kind)[j] = m
  <1> DEFINE ns == [i \in DOMAIN s |-> s[i].n]
             C == Of(s, kind)
  <1>1. Len(s) \in Nat /\ DOMAIN s = 1 .. Len(s) /\ \A i \in 1 .. Len(s) : s[i].n \in Nat
    BY SignatureIs
  <1>2. ns \in Seq(Nat) /\ Len(ns) = Len(s) /\ \A i \in 1 .. Len(s) : ns[i] = s[i].n
    BY <1>1
  <1>3. \A j : j \in C <=> j \in 1 .. Len(s) /\ s[j].kind = kind
    BY OfIs
  <1>4. Sizes(s, kind) = Picked(ns, C)
    BY DEF Sizes
  <1> HIDE DEF ns, C
  <1>5. RankOf(s, kind) = Ranks(C, Len(ns))
    BY <1>2 DEF RankOf, C
  <1>6. /\ Picked(ns, C) \in Seq(Nat)
        /\ Len(Picked(ns, C)) = Ranks(C, Len(ns))[Len(ns)]
        /\ \A j \in 1 .. Len(ns) : j \in C =>
             /\ Ranks(C, Len(ns))[j] \in 1 .. Len(Picked(ns, C))
             /\ Picked(ns, C)[Ranks(C, Len(ns))[j]] = ns[j]
        /\ \A m \in 1 .. Len(Picked(ns, C)) :
             \E j \in 1 .. Len(ns) : j \in C /\ Ranks(C, Len(ns))[j] = m /\ Picked(ns, C)[m] = ns[j]
    <2>1. ns \in Seq(Nat)
      BY <1>2
    <2> QED
      BY <2>1, PickedHas
  <1>7. \A j \in C : j \in 1 .. Len(s)
    BY <1>3
  <1>8. \A j \in C : Picked(ns, C)[Ranks(C, Len(ns))[j]] = s[j].n
    BY <1>2, <1>6, <1>7
  <1> QED
    BY <1>2, <1>4, <1>5, <1>6, <1>7, <1>8 DEF C

LEMMA PositionsHave ==
  ASSUME NEW s \in SignatureSet, NEW kind
  PROVE  /\ Positions(s, kind) \in Seq(Nat) /\ Len(Positions(s, kind)) = RankOf(s, kind)[Len(s)]
         /\ \A j \in Of(s, kind) : Positions(s, kind)[RankOf(s, kind)[j]] = j
  <1> DEFINE ns == [i \in DOMAIN s |-> i]
             C == Of(s, kind)
  <1>1. Len(s) \in Nat /\ DOMAIN s = 1 .. Len(s)
    BY SignatureIs
  <1>2. ns \in Seq(Nat) /\ Len(ns) = Len(s) /\ \A i \in 1 .. Len(s) : ns[i] = i
    BY <1>1
  <1>3. \A j : j \in C <=> j \in 1 .. Len(s) /\ s[j].kind = kind
    BY OfIs
  <1>4. Positions(s, kind) = Picked(ns, C)
    BY DEF Positions
  <1> HIDE DEF ns, C
  <1>5. RankOf(s, kind) = Ranks(C, Len(ns))
    BY <1>2 DEF RankOf, C
  <1>6. /\ Picked(ns, C) \in Seq(Nat)
        /\ Len(Picked(ns, C)) = Ranks(C, Len(ns))[Len(ns)]
        /\ \A j \in 1 .. Len(ns) : j \in C => Picked(ns, C)[Ranks(C, Len(ns))[j]] = ns[j]
    <2>1. ns \in Seq(Nat)
      BY <1>2
    <2> QED
      BY <2>1, PickedHas
  <1>7. \A j \in C : j \in 1 .. Len(s)
    BY <1>3
  <1>8. \A j \in C : Picked(ns, C)[Ranks(C, Len(ns))[j]] = j
    BY <1>2, <1>6, <1>7
  <1> QED
    BY <1>2, <1>4, <1>5, <1>6, <1>8 DEF C

LEMMA KindsCount ==
  ASSUME NEW s \in SignatureSet, NEW i \in 0 .. Len(s)
  PROVE  RankOf(s, "in")[i] + RankOf(s, "out")[i] + RankOf(s, "const")[i] + RankOf(s, "hwsync")[i]
           + RankOf(s, "ws")[i] = i
  <1> DEFINE n == Len(s)
             R(kind) == RankOf(s, kind)
             Good == {h \in 0 .. n : R("in")[h] + R("out")[h] + R("const")[h] + R("hwsync")[h]
                                       + R("ws")[h] = h}
  <1>1. n \in Nat /\ \A h \in 1 .. n : s[h].kind \in Kinds
    BY SignatureIs
  <1>2. \A kind : /\ R(kind) \in [0 .. n -> Nat] /\ R(kind)[0] = 0
                  /\ \A h \in 1 .. n : R(kind)[h] = R(kind)[h - 1] + (IF s[h].kind = kind THEN 1 ELSE 0)
    BY OfIs, Zenon
  <1> HIDE DEF R, n
  <1>3. 0 \in Good
    <2>1. 0 \in 0 .. n
      BY <1>1
    <2>2. R("in")[0] = 0 /\ R("out")[0] = 0 /\ R("const")[0] = 0 /\ R("hwsync")[0] = 0 /\ R("ws")[0] = 0
      BY <1>2, Zenon
    <2> QED
      BY <2>1, <2>2
  <1>4. ASSUME NEW h \in 0 .. n - 1, h \in Good
        PROVE  h + 1 \in Good
    <2>1. h + 1 \in 1 .. n /\ h + 1 \in 0 .. n /\ (h + 1) - 1 = h /\ h \in 0 .. n
      BY <1>1
    <2>2. \A kind : /\ R(kind)[h] \in Nat
                    /\ R(kind)[h + 1] = R(kind)[h] + (IF s[h + 1].kind = kind THEN 1 ELSE 0)
      <3> TAKE kind
      <3>1. R(kind)[h] \in Nat
        <4>1. R(kind) \in [0 .. n -> Nat]
          BY <1>2, Zenon
        <4> QED
          BY <2>1, <4>1
      <3>2. R(kind)[h + 1] = R(kind)[(h + 1) - 1] + (IF s[h + 1].kind = kind THEN 1 ELSE 0)
        BY <1>2, <2>1, Zenon
      <3> QED
        BY <2>1, <3>1, <3>2
    <2>3. s[h + 1].kind \in {"in", "out", "const", "hwsync", "ws"}
      BY <1>1, <2>1 DEF Kinds
    <2>4. R("in")[h] + R("out")[h] + R("const")[h] + R("hwsync")[h] + R("ws")[h] = h
      BY <1>4
    <2> DEFINE kind_ == s[h + 1].kind
    <2> HIDE DEF kind_
    <2>5. /\ R("in")[h] \in Nat /\ R("out")[h] \in Nat /\ R("const")[h] \in Nat
          /\ R("hwsync")[h] \in Nat /\ R("ws")[h] \in Nat
          /\ R("in")[h + 1] = R("in")[h] + (IF kind_ = "in" THEN 1 ELSE 0)
          /\ R("out")[h + 1] = R("out")[h] + (IF kind_ = "out" THEN 1 ELSE 0)
          /\ R("const")[h + 1] = R("const")[h] + (IF kind_ = "const" THEN 1 ELSE 0)
          /\ R("hwsync")[h + 1] = R("hwsync")[h] + (IF kind_ = "hwsync" THEN 1 ELSE 0)
          /\ R("ws")[h + 1] = R("ws")[h] + (IF kind_ = "ws" THEN 1 ELSE 0)
      BY <2>2, Zenon DEF kind_
    <2>6. kind_ \in {"in", "out", "const", "hwsync", "ws"}
      BY <2>3 DEF kind_
    <2>7. R("in")[h + 1] + R("out")[h + 1] + R("const")[h + 1] + R("hwsync")[h + 1]
            + R("ws")[h + 1] = h + 1
      <3> DEFINE one(kind) == IF kind_ = kind THEN 1 ELSE 0
      <3>1. /\ one("in") + one("out") + one("const") + one("hwsync") + one("ws") = 1
            /\ one("in") \in Nat /\ one("out") \in Nat /\ one("const") \in Nat
            /\ one("hwsync") \in Nat /\ one("ws") \in Nat
        <4>1. CASE kind_ = "in"
          BY <4>1
        <4>2. CASE kind_ = "out"
          BY <4>2
        <4>3. CASE kind_ = "const"
          BY <4>3
        <4>4. CASE kind_ = "hwsync"
          BY <4>4
        <4>5. CASE kind_ = "ws"
          BY <4>5
        <4> QED
          BY <2>6, <4>1, <4>2, <4>3, <4>4, <4>5
      <3>2. /\ R("in")[h + 1] = R("in")[h] + one("in") /\ R("out")[h + 1] = R("out")[h] + one("out")
            /\ R("const")[h + 1] = R("const")[h] + one("const")
            /\ R("hwsync")[h + 1] = R("hwsync")[h] + one("hwsync")
            /\ R("ws")[h + 1] = R("ws")[h] + one("ws")
        BY <2>5
      <3> HIDE DEF one
      <3> QED
        <4>1. (R("in")[h] + one("in")) + (R("out")[h] + one("out")) + (R("const")[h] + one("const"))
                + (R("hwsync")[h] + one("hwsync")) + (R("ws")[h] + one("ws")) = h + 1
          <5>1. h \in Nat
            BY <1>1
          <5> DEFINE a == R("in")[h]  b == R("out")[h]  c == R("const")[h]
                     d == R("hwsync")[h]  e == R("ws")[h]
                     p == one("in")  q == one("out")  r == one("const")  t == one("hwsync")
                     u == one("ws")
          <5>2. /\ a \in Nat /\ b \in Nat /\ c \in Nat /\ d \in Nat /\ e \in Nat
                /\ p \in Nat /\ q \in Nat /\ r \in Nat /\ t \in Nat /\ u \in Nat
                /\ a + b + c + d + e = h /\ p + q + r + t + u = 1
            BY <2>4, <2>5, <3>1
          <5> HIDE DEF a, b, c, d, e, p, q, r, t, u
          <5>3. (a + p) + (b + q) + (c + r) + (d + t) + (e + u) = h + 1
            BY <5>1, <5>2
          <5> QED
            BY <5>3 DEF a, b, c, d, e, p, q, r, t, u
        <4> QED
          BY <3>2, <4>1, Zenon
    <2> QED
      BY <2>1, <2>7
  <1>5. 0 .. n \subseteq Good
    <2> HIDE DEF Good
    <2> QED
      BY <1>1, <1>3, <1>4, CountedUp, Zenon
  <1>6. i \in Good
    BY <1>5 DEF n
  <1> QED
    BY <1>6 DEF R

(* What there is of a kind before a place, in the signature and among the   *)
(* parameters of the kind.                                                  *)
Weighed(s, kind, w) == [j \in DOMAIN s |-> IF s[j].kind = kind THEN w[j] ELSE 0]

LEMMA WeighedBefore ==
  ASSUME NEW s \in SignatureSet, NEW kind, NEW q, SizesAre(q, RankOf(s, kind)[Len(s)]), NEW w,
         \A j \in 1 .. Len(s) : w[j] \in Nat,
         \A j \in Of(s, kind) : q[RankOf(s, kind)[j]] = w[j],
         NEW i \in Of(s, kind)
  PROVE  Before(Weighed(s, kind, w), i) = Before(q, RankOf(s, kind)[i])
  <1> DEFINE n == Len(s)
             C == Of(s, kind)
             v == Weighed(s, kind, w)
             R == RankOf(s, kind)
  <1>1. n \in Nat /\ DOMAIN s = 1 .. n
    BY SignatureIs
  <1>2. /\ \A j : j \in C <=> j \in 1 .. n /\ s[j].kind = kind
        /\ R \in [0 .. n -> Nat]
        /\ \A j \in 1 .. n : R[j] = R[j - 1] + (IF s[j].kind = kind THEN 1 ELSE 0)
    BY OfIs
  <1>3. \A j \in 1 .. n : v[j] = IF s[j].kind = kind THEN w[j] ELSE 0
    BY <1>1 DEF Weighed
  <1>4. SizesAre(v, n)
    <2>1. v \in Seq(Nat) /\ Len(v) = n
      BY <1>1 DEF Weighed
    <2>2. \A j \in 1 .. n : v[j] \in Nat
      BY <1>3
    <2> QED
      BY <1>1, <2>1, <2>2 DEF SizesAre
  <1>5. R = Ranks(C, n)
    BY DEF RankOf
  <1>6. \A j \in 1 .. n : (j \in C => q[R[j]] = v[j]) /\ (j \notin C => v[j] = 0)
    BY <1>2, <1>3
  <1>7. SizesAre(q, R[n])
    OBVIOUS
  <1>8. i \in 1 .. n /\ i - 1 \in 0 .. n /\ i \in C /\ s[i].kind = kind
    BY <1>1, <1>2
  <1> HIDE DEF n, C, v, R
  <1>9. Sums(q)[R[i - 1]] = Sums(v)[i - 1]
    BY <1>1, <1>4, <1>5, <1>6, <1>7, <1>8, SumsOfPicked
  <1>10. R[i] - 1 = R[i - 1]
    <2>1. R[i] = R[i - 1] + 1 /\ R[i - 1] \in Nat
      BY <1>2, <1>8
    <2> QED
      BY <2>1
  <1> QED
    BY <1>9, <1>10 DEF Before, n, C, v, R

LEMMA TensorsAre ==
  ASSUME NEW q \in Seq(Nat)
  PROVE  /\ DOMAIN TensorsOf(q) = 1 .. Len(q) /\ SizesAre(TensorsOf(q), Len(q))
         /\ \A i \in 1 .. Len(q) : TensorsOf(q)[i] = IF q[i] > 0 THEN q[i] ELSE 1
  <1> DEFINE n == Len(q)
             t == [i \in 1 .. n |-> IF q[i] > 0 THEN q[i] ELSE 1]
  <1>1. n \in Nat /\ DOMAIN q = 1 .. n /\ \A i \in 1 .. n : q[i] \in Nat
    OBVIOUS
  <1>2. TensorsOf(q) = t
    BY <1>1 DEF TensorsOf
  <1>3. DOMAIN t = 1 .. n /\ \A i \in 1 .. n : t[i] = (IF q[i] > 0 THEN q[i] ELSE 1) /\ t[i] \in Nat
    BY <1>1
  <1>4. Len(t) = n
    <2>1. t \in Seq(Nat)
      BY <1>1
    <2> HIDE DEF t
    <2> QED
      BY <1>1, <1>3, <2>1
  <1> HIDE DEF t
  <1> QED
    BY <1>1, <1>2, <1>3, <1>4 DEF SizesAre

(* The parameters a signature asks for, by what there is of their kind.     *)
OperandAt(s, kind, i) == <<kind, Before(TensorsOf(Sizes(s, kind)), RankOf(s, kind)[i]), s[i].n>>
ScratchAt(s, i) == <<"ws", Before(Sizes(s, "ws"), RankOf(s, "ws")[i])>>
ConstAt(s, i) == <<"const", RankOf(s, "const")[i]>>

LEMMA AskedOperand ==
  ASSUME NEW s \in SignatureSet, NEW kind, NEW i \in Of(s, kind)
  PROVE  Before(Weighed(s, kind, TensorsOf([j \in DOMAIN s |-> s[j].n])), i) =
           Before(TensorsOf(Sizes(s, kind)), RankOf(s, kind)[i])
  <1> DEFINE ns == [j \in DOMAIN s |-> s[j].n]
             w == TensorsOf(ns)
             q == TensorsOf(Sizes(s, kind))
  <1>1. Len(s) \in Nat /\ DOMAIN s = 1 .. Len(s) /\ \A j \in 1 .. Len(s) : s[j].n \in Nat
    BY SignatureIs
  <1>2. ns \in Seq(Nat) /\ Len(ns) = Len(s) /\ \A j \in 1 .. Len(s) : ns[j] = s[j].n
    BY <1>1
  <1> HIDE DEF ns
  <1>3. \A j \in 1 .. Len(s) : w[j] = (IF s[j].n > 0 THEN s[j].n ELSE 1) /\ w[j] \in Nat
    <2>1. \A j \in 1 .. Len(ns) : w[j] = (IF ns[j] > 0 THEN ns[j] ELSE 1)
      BY <1>2, TensorsAre
    <2> HIDE DEF w
    <2> QED
      BY <1>1, <1>2, <2>1
  <1>4. /\ Sizes(s, kind) \in Seq(Nat) /\ Len(Sizes(s, kind)) = RankOf(s, kind)[Len(s)]
        /\ \A j \in Of(s, kind) :
             /\ RankOf(s, kind)[j] \in 1 .. Len(Sizes(s, kind))
             /\ Sizes(s, kind)[RankOf(s, kind)[j]] = s[j].n
    BY SizesHave
  <1>5. /\ SizesAre(q, RankOf(s, kind)[Len(s)])
        /\ \A j \in 1 .. Len(Sizes(s, kind)) :
             q[j] = IF Sizes(s, kind)[j] > 0 THEN Sizes(s, kind)[j] ELSE 1
    BY <1>4, TensorsAre
  <1>6. \A j \in Of(s, kind) : j \in 1 .. Len(s)
    BY OfIs
  <1> HIDE DEF w, q
  <1>7. \A j \in Of(s, kind) : q[RankOf(s, kind)[j]] = w[j]
    BY <1>3, <1>4, <1>5, <1>6
  <1>8. \A j \in 1 .. Len(s) : w[j] \in Nat
    BY <1>3
  <1> QED
    <2>1. Before(Weighed(s, kind, w), i) = Before(q, RankOf(s, kind)[i])
      BY <1>5, <1>7, <1>8, WeighedBefore
    <2> QED
      BY <2>1 DEF w, q, ns

LEMMA AskedScratch ==
  ASSUME NEW s \in SignatureSet, NEW i \in Of(s, "ws")
  PROVE  Before(Weighed(s, "ws", [j \in DOMAIN s |-> s[j].n]), i) =
           Before(Sizes(s, "ws"), RankOf(s, "ws")[i])
  <1> DEFINE ns == [j \in DOMAIN s |-> s[j].n]
             q == Sizes(s, "ws")
  <1>1. Len(s) \in Nat /\ DOMAIN s = 1 .. Len(s) /\ \A j \in 1 .. Len(s) : s[j].n \in Nat
    BY SignatureIs
  <1>2. \A j \in 1 .. Len(s) : ns[j] = s[j].n /\ ns[j] \in Nat
    BY <1>1
  <1> HIDE DEF ns
  <1>3. /\ q \in Seq(Nat) /\ Len(q) = RankOf(s, "ws")[Len(s)]
        /\ \A j \in Of(s, "ws") : q[RankOf(s, "ws")[j]] = s[j].n
    BY SizesHave
  <1>4. \A j \in Of(s, "ws") : j \in 1 .. Len(s)
    BY OfIs
  <1> HIDE DEF q
  <1>5. SizesAre(q, RankOf(s, "ws")[Len(s)])
    BY <1>3 DEF SizesAre
  <1>6. \A j \in Of(s, "ws") : q[RankOf(s, "ws")[j]] = ns[j]
    BY <1>2, <1>3, <1>4
  <1>7. \A j \in 1 .. Len(s) : ns[j] \in Nat
    BY <1>2
  <1> QED
    <2>1. Before(Weighed(s, "ws", ns), i) = Before(q, RankOf(s, "ws")[i])
      BY <1>5, <1>6, <1>7, WeighedBefore
    <2> QED
      BY <2>1 DEF q, ns

LEMMA AskedConst ==
  ASSUME NEW s \in SignatureSet, NEW i \in Of(s, "const")
  PROVE  Before(Weighed(s, "const", [j \in DOMAIN s |-> 1]), i) + 1 = RankOf(s, "const")[i]
  <1> DEFINE C == Of(s, "const")
             n == Len(s)
             v == Weighed(s, "const", [j \in DOMAIN s |-> 1])
  <1>1. n \in Nat /\ DOMAIN s = 1 .. n
    BY SignatureIs
  <1>2. \A j : j \in C <=> j \in 1 .. n /\ s[j].kind = "const"
    BY OfIs
  <1>3. v = Ones(C, n)
    BY <1>1, <1>2 DEF Weighed, Ones
  <1>4. Before(v, i) = RankOf(s, "const")[i - 1]
    BY <1>3 DEF Before, Ranks, RankOf
  <1>5. i \in 1 .. n /\ s[i].kind = "const" /\ i - 1 \in 0 .. n
    BY <1>1, <1>2
  <1>6. /\ RankOf(s, "const")[i] = RankOf(s, "const")[i - 1] + 1
        /\ RankOf(s, "const")[i - 1] \in Nat
    <2> DEFINE R == RankOf(s, "const")
    <2>1. /\ R \in [0 .. n -> Nat]
          /\ \A j \in 1 .. n : R[j] = R[j - 1] + (IF s[j].kind = "const" THEN 1 ELSE 0)
      BY OfIs
    <2> HIDE DEF R
    <2>2. R[i] = R[i - 1] + 1 /\ R[i - 1] \in Nat
      BY <1>5, <2>1
    <2> QED
      BY <2>2 DEF R
  <1> HIDE DEF v
  <1> QED
    BY <1>4, <1>6 DEF v

LEMMA AskedIs ==
  ASSUME NEW s \in SignatureSet
  PROVE  /\ DOMAIN Asked(s) = 1 .. Len(s) + 1 /\ Asked(s)[Len(s) + 1] = <<"tiling">>
         /\ Asked(s) = [i \in 1 .. Len(s) + 1 |-> Asked(s)[i]]
         /\ \A i \in 1 .. Len(s) : Asked(s)[i] =
              CASE s[i].kind \in {"in", "out"} -> OperandAt(s, s[i].kind, i)
                [] s[i].kind = "const"  -> ConstAt(s, i)
                [] s[i].kind = "ws"     -> ScratchAt(s, i)
                [] s[i].kind = "hwsync" -> <<"hwsync">>
  <1> DEFINE ones == [j \in DOMAIN s |-> 1]
             ns == [j \in DOMAIN s |-> s[j].n]
             n == Len(s)
             before(i, kind, w) == Before(Weighed(s, kind, w), i)
             param(i) ==
               CASE s[i].kind \in {"in", "out"} -> <<s[i].kind, before(i, s[i].kind, TensorsOf(ns)), s[i].n>>
                 [] s[i].kind = "const"  -> <<"const", before(i, "const", ones) + 1>>
                 [] s[i].kind = "ws"     -> <<"ws", before(i, "ws", ns)>>
                 [] s[i].kind = "hwsync" -> <<"hwsync">>
             q == [i \in 1 .. n |-> param(i)]
  <1>1. n \in Nat /\ DOMAIN s = 1 .. n /\ \A i \in 1 .. n : s[i].kind \in Kinds
    BY SignatureIs
  <1>2. Asked(s) = Append(q, <<"tiling">>)
    BY <1>1 DEF Asked, Weighed
  <1>3. \A i \in 1 .. n : \A kind : i \in Of(s, kind) <=> s[i].kind = kind
    BY OfIs
  <1> HIDE DEF n, ones, ns, before
  <1>4. \A i \in 1 .. n : param(i) =
          CASE s[i].kind \in {"in", "out"} -> OperandAt(s, s[i].kind, i)
            [] s[i].kind = "const"  -> ConstAt(s, i)
            [] s[i].kind = "ws"     -> ScratchAt(s, i)
            [] s[i].kind = "hwsync" -> <<"hwsync">>
    <2> TAKE i \in 1 .. n
    <2>1. s[i].kind \in {"in", "out"} => before(i, s[i].kind, TensorsOf(ns)) =
             Before(TensorsOf(Sizes(s, s[i].kind)), RankOf(s, s[i].kind)[i])
      <3> DEFINE kind == s[i].kind
      <3>1. i \in Of(s, kind)
        BY <1>3
      <3> HIDE DEF kind
      <3>2. Before(Weighed(s, kind, TensorsOf([j \in DOMAIN s |-> s[j].n])), i) =
              Before(TensorsOf(Sizes(s, kind)), RankOf(s, kind)[i])
        BY <3>1, AskedOperand
      <3> QED
        BY <3>2 DEF kind, before, ns
    <2>2. s[i].kind = "const" => before(i, "const", ones) + 1 = RankOf(s, "const")[i]
      BY <1>3, AskedConst, Zenon DEF before, ones
    <2>3. s[i].kind = "ws" => before(i, "ws", ns) = Before(Sizes(s, "ws"), RankOf(s, "ws")[i])
      BY <1>3, AskedScratch, Zenon DEF before, ns
    <2> QED
      <3>1. CASE s[i].kind \in {"in", "out"}
        BY <2>1, <3>1 DEF OperandAt
      <3>2. CASE s[i].kind = "const"
        BY <2>2, <3>2 DEF ConstAt
      <3>3. CASE s[i].kind = "ws"
        BY <2>3, <3>3 DEF ScratchAt
      <3>4. CASE s[i].kind = "hwsync"
        BY <3>4
      <3> QED
        BY <1>1, <3>1, <3>2, <3>3, <3>4 DEF Kinds
  <1> HIDE DEF param
  <1>5. q \in Seq({param(i) : i \in 1 .. n}) /\ Len(q) = n /\ \A i \in 1 .. n : q[i] = param(i)
    BY <1>1
  <1> HIDE DEF q
  <1>6. /\ DOMAIN Append(q, <<"tiling">>) = 1 .. n + 1 /\ Append(q, <<"tiling">>)[n + 1] = <<"tiling">>
        /\ \A i \in 1 .. n : Append(q, <<"tiling">>)[i] = q[i]
    BY <1>1, <1>5
  <1>7. \A i \in 1 .. n : Asked(s)[i] = param(i)
    BY <1>2, <1>5, <1>6
  <1>8. DOMAIN Asked(s) = 1 .. n + 1 /\ Asked(s)[n + 1] = <<"tiling">>
    BY <1>2, <1>6
  <1>9. Asked(s) = [i \in 1 .. n + 1 |-> Asked(s)[i]]
    <2>1. Append(q, <<"tiling">>) = [i \in 1 .. n + 1 |-> Append(q, <<"tiling">>)[i]]
      BY <1>1, <1>5
    <2> QED
      BY <1>2, <2>1, Zenon
  <1> QED
    BY <1>4, <1>7, <1>8, <1>9, Zenon DEF n

-----------------------------------------------------------------------------
(* What is picked out of a function on the first numbers.                   *)
Numbered(f, m) == m \in Nat /\ f = [i \in 1 .. m |-> f[i]]
Values(f, m) == {f[i] : i \in 1 .. m}

HasPicked(q, f, m, C) ==
  /\ Len(q) = Ranks(C, m)[m]
  /\ \A i \in 1 .. m : i \in C => Ranks(C, m)[i] \in 1 .. Len(q) /\ q[Ranks(C, m)[i]] = f[i]
  /\ \A h \in 1 .. Len(q) : \E i \in 1 .. m : i \in C /\ Ranks(C, m)[i] = h /\ q[h] = f[i]

LEMMA PickedFrom ==
  ASSUME NEW S, NEW s \in Seq(S), NEW C
  PROVE  HasPicked(Picked(s, C), s, Len(s), C)
  BY PickedHas DEF HasPicked

LEMMA PickedOf ==
  ASSUME NEW m, NEW f, Numbered(f, m), NEW C
  PROVE  /\ Picked(f, C) \in Seq(Values(f, m))
         /\ HasPicked(Picked(f, C), f, m, C)
         /\ DOMAIN Picked(f, C) = 1 .. Len(Picked(f, C))
  <1> DEFINE S == Values(f, m)
             q == Picked(f, C)
  <1>1. f \in Seq(S) /\ Len(f) = m
    <2>1. \A i \in 1 .. m : f[i] \in S
      BY DEF Values
    <2> HIDE DEF S
    <2>2. [i \in 1 .. m |-> f[i]] \in Seq(S) /\ Len([i \in 1 .. m |-> f[i]]) = m
      BY <2>1 DEF Numbered
    <2> QED
      BY <2>2, Zenon DEF Numbered
  <1> HIDE DEF S
  <1>2. q \in Seq(S)
    BY <1>1, PickedIn, Zenon
  <1>3. HasPicked(q, f, m, C)
    <2>1. HasPicked(q, f, Len(f), C)
      BY <1>1, PickedFrom, Zenon
    <2> QED
      BY <1>1, <2>1, Zenon
  <1> HIDE DEF q
  <1>4. DOMAIN q = 1 .. Len(q)
    BY <1>2
  <1> QED
    BY <1>2, <1>3, <1>4 DEF q, S

LEMMA PickedNone ==
  ASSUME NEW m, NEW f, Numbered(f, m), NEW C, \A i \in 1 .. m : i \notin C
  PROVE  Picked(f, C) = << >>
  <1> DEFINE S == Values(f, m)
             q == Picked(f, C)
  <1>1. q \in Seq(S) /\ HasPicked(q, f, m, C)
    BY PickedOf, Zenon
  <1> m \in Nat
    BY DEF Numbered
  <1>2. Ranks(C, m)[m] = 0
    <2>1. 0 \in 0 .. m /\ m \in 0 .. m /\ \A h \in 1 .. m : 0 < h /\ h <= m => h \notin C
      OBVIOUS
    <2>2. Ranks(C, m)[m] = Ranks(C, m)[0]
      BY <2>1, RankStill, Zenon
    <2>3. Ranks(C, m)[0] = 0
      BY RankUp, Zenon
    <2> QED
      BY <2>2, <2>3
  <1> HIDE DEF q, S
  <1>3. Len(q) = 0
    BY <1>1, <1>2 DEF HasPicked
  <1>4. q = << >>
    BY <1>1, <1>3
  <1> QED
    BY <1>4 DEF q

LEMMA PickedAll ==
  ASSUME NEW m, NEW f, Numbered(f, m), NEW C, \A i \in 1 .. m : i \in C
  PROVE  Picked(f, C) = f
  <1> DEFINE S == Values(f, m)
             q == Picked(f, C)
             R == Ranks(C, m)
  <1>1. /\ q \in Seq(S) /\ Len(q) = R[m]
        /\ \A i \in 1 .. m : i \in C => q[R[i]] = f[i]
    <2>1. q \in Seq(S) /\ HasPicked(q, f, m, C)
      BY PickedOf, Zenon
    <2> QED
      BY <2>1 DEF HasPicked
  <1> m \in Nat /\ f = [i \in 1 .. m |-> f[i]]
    BY DEF Numbered
  <1>2. \A i \in 0 .. m : R[i] = i
    <2> SUFFICES ASSUME NEW i \in 0 .. m
                 PROVE  R[i] = i
      OBVIOUS
    <2>1. \A h \in 1 .. m : h <= i => h \in C
      OBVIOUS
    <2> QED
      BY <2>1, RankFull, Zenon
  <1> HIDE DEF S, q, R
  <1>3. m \in 0 .. m /\ \A i \in 1 .. m : i \in 0 .. m
    OBVIOUS
  <1>4. DOMAIN q = 1 .. m /\ \A i \in 1 .. m : q[i] = f[i]
    BY <1>1, <1>2, <1>3
  <1>5. q = [i \in 1 .. m |-> q[i]]
    BY <1>1, <1>4
  <1>6. [i \in 1 .. m |-> q[i]] = [i \in 1 .. m |-> f[i]]
    BY <1>4
  <1> QED
    BY <1>5, <1>6, Zenon DEF q

(* The lists and the single tensors among a signature's operands.           *)
ListsOf(s, kind) == {p \in Of(s, kind) : s[p].n > 0}
PlainsOf(s, kind) == {p \in Of(s, kind) : s[p].n = 0}

LEMMA OperandsRanked ==
  ASSUME NEW s \in SignatureSet, NEW kind
  PROVE  LET q == Sizes(s, kind)
             R == RankOf(s, kind)
             m == Len(q)
         IN  /\ m \in Nat /\ DOMAIN q = 1 .. m /\ m = R[Len(s)]
             /\ \A p \in ListsOf(s, kind) : R[p] \in 1 .. m /\ R[p] \in ListsIn(q) /\ q[R[p]] = s[p].n
             /\ \A i \in ListsIn(q) : i \in 1 .. m /\ \E p \in ListsOf(s, kind) : R[p] = i
             /\ \A p \in 1 .. Len(s) :
                  p \in PlainsOf(s, kind) <=> p \in Of(s, kind) /\ R[p] \in DOMAIN q \ ListsIn(q)
             /\ \A p \in PlainsOf(s, kind) : R[p] \in 1 .. m /\ q[R[p]] = 0 /\ s[p].n = 0
  <1> DEFINE q == Sizes(s, kind)
             R == RankOf(s, kind)
             m == Len(q)
             C == Of(s, kind)
  <1>1. \A p \in C : p \in 1 .. Len(s)
    BY OfIs
  <1>2. \A p \in 1 .. Len(s) : s[p].n \in Nat
    BY SignatureIs
  <1>3. /\ q \in Seq(Nat) /\ m = R[Len(s)]
        /\ \A p \in C : R[p] \in 1 .. m /\ q[R[p]] = s[p].n
        /\ \A i \in 1 .. m : \E p \in C : R[p] = i
    BY SizesHave
  <1>4. \A p : (p \in ListsOf(s, kind) <=> p \in C /\ s[p].n > 0)
               /\ (p \in PlainsOf(s, kind) <=> p \in C /\ s[p].n = 0)
    BY DEF ListsOf, PlainsOf
  <1> HIDE DEF q, R, C
  <1>5. m \in Nat /\ DOMAIN q = 1 .. m /\ \A i \in 1 .. m : q[i] \in Nat
    BY <1>3
  <1>6. \A i : i \in ListsIn(q) <=> i \in 1 .. m /\ q[i] > 0
    BY <1>5 DEF ListsIn
  <1> HIDE DEF m
  <1>7. \A p \in ListsOf(s, kind) : R[p] \in 1 .. m /\ R[p] \in ListsIn(q) /\ q[R[p]] = s[p].n
    BY <1>3, <1>4, <1>6
  <1>8. \A i \in ListsIn(q) : i \in 1 .. m /\ \E p \in ListsOf(s, kind) : R[p] = i
    BY <1>3, <1>4, <1>6
  <1>9. \A p \in C : s[p].n = 0 <=> R[p] \notin ListsIn(q)
    BY <1>1, <1>2, <1>3, <1>6
  <1>10. \A p \in 1 .. Len(s) : p \in PlainsOf(s, kind) <=> p \in C /\ R[p] \in DOMAIN q \ ListsIn(q)
    BY <1>3, <1>4, <1>5, <1>9
  <1>11. \A p \in PlainsOf(s, kind) : R[p] \in 1 .. m /\ q[R[p]] = 0 /\ s[p].n = 0
    BY <1>3, <1>4
  <1> QED
    BY <1>3, <1>5, <1>7, <1>8, <1>10, <1>11, Zenon DEF q, R, m, C

(* The single tensors of a kind, in order, and the lists of a kind.         *)
LEMMA PlainHas ==
  ASSUME NEW s \in SignatureSet, NEW kind
  PROVE  LET x == Plain(Sizes(s, kind), kind)
             E == PlainsOf(s, kind)
         IN  /\ Len(x) = Ranks(E, Len(s))[Len(s)] /\ Len(x) \in Nat
             /\ DOMAIN x = 1 .. Len(x) /\ x \in Seq(Values(x, Len(x)))
             /\ \A p \in E : /\ Ranks(E, Len(s))[p] \in 1 .. Len(x)
                             /\ x[Ranks(E, Len(s))[p]] = OperandAt(s, kind, p)
  <1> DEFINE N == Len(s)
             C == Of(s, kind)
             q == Sizes(s, kind)
             m == Len(q)
             R == Ranks(C, N)
             E == PlainsOf(s, kind)
             D == DOMAIN q \ ListsIn(q)
             T == TensorsOf(q)
             item(i) == <<kind, Before(T, i), q[i]>>
             f == [i \in DOMAIN q |-> item(i)]
             x == Picked(f, D)
  <1>1. Plain(q, kind) = x
    BY DEF Plain
  <1>2. R = RankOf(s, kind)
    BY DEF RankOf
  <1>3. /\ m \in Nat /\ DOMAIN q = 1 .. m /\ m = R[N]
        /\ \A p \in 1 .. N : p \in E <=> p \in C /\ R[p] \in D
        /\ \A p \in E : R[p] \in 1 .. m /\ q[R[p]] = 0 /\ s[p].n = 0
    BY <1>2, OperandsRanked
  <1>4. N \in Nat /\ \A p \in E : p \in 1 .. N
    <2>1. N \in Nat
      BY SignatureIs
    <2>2. \A p \in C : p \in 1 .. N
      BY OfIs
    <2> QED
      BY <2>1, <2>2 DEF PlainsOf
  <1>5. \A p \in E : item(R[p]) = OperandAt(s, kind, p)
    BY <1>2, <1>3 DEF OperandAt
  <1> HIDE DEF item
  <1>6. Numbered(f, m)
    BY <1>3 DEF Numbered
  <1>7. \A i \in 1 .. m : f[i] = item(i)
    BY <1>3
  <1> HIDE DEF f, D, q, C, E, N, R, m
  <1>8. x \in Seq(Values(f, m)) /\ HasPicked(x, f, m, D) /\ DOMAIN x = 1 .. Len(x)
    BY <1>6, PickedOf, Zenon
  <1> HIDE DEF x
  <1>9. Ranks(D, m)[m] = Ranks(E, N)[N] /\ \A p \in E : Ranks(D, m)[R[p]] = Ranks(E, N)[p]
    <2>1. \A i \in 0 .. N : Ranks(D, R[N])[R[i]] = Ranks(E, N)[i]
      <3>1. Through(C, D, E, N)
        BY <1>3 DEF R, Through
      <3>2. \A i \in 0 .. N : Ranks(D, Ranks(C, N)[N])[Ranks(C, N)[i]] = Ranks(E, N)[i]
        <4> TAKE i \in 0 .. N
        <4>1. N \in Nat
          BY <1>4
        <4> QED
          BY <3>1, <4>1, RankThrough
      <3> QED
        BY <3>2 DEF R
    <2>2. N \in 0 .. N /\ \A p \in E : p \in 0 .. N
      BY <1>4
    <2> QED
      BY <1>3, <2>1, <2>2
  <1>10. \A p \in E : R[p] \in D
    BY <1>3, <1>4
  <1>11. \A p \in E : /\ Ranks(E, N)[p] \in 1 .. Len(x)
                      /\ x[Ranks(E, N)[p]] = OperandAt(s, kind, p)
    <2> TAKE p \in E
    <2>1. R[p] \in 1 .. m /\ R[p] \in D
      BY <1>3, <1>10
    <2>2. Ranks(D, m)[R[p]] \in 1 .. Len(x) /\ x[Ranks(D, m)[R[p]]] = f[R[p]]
      BY <1>8, <2>1 DEF HasPicked
    <2>3. f[R[p]] = OperandAt(s, kind, p)
      BY <1>5, <1>7, <2>1
    <2> QED
      BY <1>9, <2>2, <2>3
  <1>12. Len(x) = Ranks(E, N)[N] /\ Len(x) \in Nat
    BY <1>8, <1>9 DEF HasPicked
  <1>13. x \in Seq(Values(x, Len(x)))
    <2> DEFINE S == Values(x, Len(x))
    <2>1. \A i \in 1 .. Len(x) : x[i] \in S
      BY DEF Values
    <2> HIDE DEF S
    <2>2. x = [i \in 1 .. Len(x) |-> x[i]]
      BY <1>8
    <2>3. [i \in 1 .. Len(x) |-> x[i]] \in Seq(S)
      BY <1>12, <2>1
    <2> QED
      BY <2>2, <2>3, Zenon DEF S
  <1> QED
    BY <1>1, <1>8, <1>11, <1>12, <1>13 DEF N, E, q

ListInfoAt(s, kind, p, slotOffset) ==
  [what |-> OperandAt(s, kind, p), slot |-> RankOf(s, kind)[p] - 1 + slotOffset,
   size |-> ListBytes(s[p].n), bytes |-> ListBytes(s[p].n)]

LEMMA ListInfosHave ==
  ASSUME NEW s \in SignatureSet, NEW kind, NEW slotOffset \in Nat
  PROVE  LET x == ListInfos(Sizes(s, kind), kind, slotOffset)
         IN  /\ Len(x) = ListCount(Sizes(s, kind)) /\ Len(x) \in Nat
             /\ \A h \in 1 .. Len(x) :
                  \E p \in ListsOf(s, kind) : x[h] = ListInfoAt(s, kind, p, slotOffset)
             /\ \A p \in ListsOf(s, kind) :
                  \E h \in 1 .. Len(x) : x[h] = ListInfoAt(s, kind, p, slotOffset)
  <1> DEFINE q == Sizes(s, kind)
             m == Len(q)
             R == RankOf(s, kind)
             D == ListsIn(q)
             T == TensorsOf(q)
             what(i) == <<kind, Before(T, i), q[i]>>
             slot(i) == i - 1 + slotOffset
             size(i) == ListBytes(q[i])
             info(i) == [what |-> what(i), slot |-> slot(i), size |-> size(i), bytes |-> size(i)]
             f == [i \in DOMAIN q |-> info(i)]
             x == Picked(f, D)
             y == Picked(q, D)
             there(p) == ListInfoAt(s, kind, p, slotOffset)
  <1>1. ListInfos(q, kind, slotOffset) = x /\ ListCount(q) = Len(y)
    BY DEF ListInfos, ListCount
  <1>2. /\ m \in Nat /\ DOMAIN q = 1 .. m
        /\ \A p \in ListsOf(s, kind) : R[p] \in 1 .. m /\ R[p] \in D /\ q[R[p]] = s[p].n
        /\ \A i \in D : i \in 1 .. m /\ \E p \in ListsOf(s, kind) : R[p] = i
    BY OperandsRanked
  <1>3. \A p \in ListsOf(s, kind) : info(R[p]) = there(p)
    BY <1>2 DEF OperandAt, ListInfoAt
  <1> HIDE DEF info, there
  <1>4. Numbered(f, m) /\ Numbered(q, m)
    <2>1. q = [i \in 1 .. m |-> q[i]]
      <3>1. q \in Seq(Nat)
        BY SizesHave
      <3> HIDE DEF q
      <3> QED
        BY <1>2, <3>1
    <2> QED
      BY <1>2, <2>1 DEF Numbered
  <1>5. \A i \in 1 .. m : f[i] = info(i)
    BY <1>2
  <1> HIDE DEF f, D, q, m, R
  <1>6. HasPicked(x, f, m, D) /\ x \in Seq(Values(f, m)) /\ HasPicked(y, q, m, D)
    BY <1>4, PickedOf, Zenon
  <1> HIDE DEF x, y
  <1>7. Len(x) = Len(y) /\ Len(x) \in Nat
    BY <1>6 DEF HasPicked
  <1>8. \A h \in 1 .. Len(x) : \E p \in ListsOf(s, kind) : x[h] = there(p)
    <2> TAKE h \in 1 .. Len(x)
    <2>1. PICK i \in 1 .. m : i \in D /\ x[h] = f[i]
      BY <1>6 DEF HasPicked
    <2>2. PICK p \in ListsOf(s, kind) : R[p] = i
      BY <1>2, <2>1
    <2> QED
      BY <1>3, <1>5, <2>1, <2>2
  <1>9. \A p \in ListsOf(s, kind) : \E h \in 1 .. Len(x) : x[h] = there(p)
    <2> TAKE p \in ListsOf(s, kind)
    <2>1. R[p] \in 1 .. m /\ R[p] \in D
      BY <1>2
    <2>2. Ranks(D, m)[R[p]] \in 1 .. Len(x) /\ x[Ranks(D, m)[R[p]]] = f[R[p]]
      BY <1>6, <2>1 DEF HasPicked
    <2>3. f[R[p]] = there(p)
      BY <1>3, <1>5, <2>1
    <2> QED
      BY <2>2, <2>3
  <1> QED
    BY <1>1, <1>7, <1>8, <1>9 DEF q, there

-----------------------------------------------------------------------------
(* Places before and behind all those of a set.                             *)
LEMMA RankBefore ==
  ASSUME NEW C, NEW n \in Nat, NEW p \in 0 .. n, \A h \in C : h \in 1 .. n => p < h
  PROVE  Ranks(C, n)[p] = 0
  <1>1. 0 \in 0 .. n /\ p \in 0 .. n /\ \A h \in 1 .. n : 0 < h /\ h <= p => h \notin C
    OBVIOUS
  <1>2. Ranks(C, n)[p] = Ranks(C, n)[0]
    BY <1>1, RankStill
  <1>3. Ranks(C, n)[0] = 0
    BY RankUp
  <1> QED
    BY <1>2, <1>3

LEMMA RankBehind ==
  ASSUME NEW C, NEW n \in Nat, NEW p \in 0 .. n, \A h \in C : h \in 1 .. n => h <= p
  PROVE  Ranks(C, n)[p] = Ranks(C, n)[n]
  <1>1. n \in p .. n /\ \A h \in 1 .. n : p < h /\ h <= n => h \notin C
    OBVIOUS
  <1> QED
    BY <1>1, RankStill

(* Nothing stands before a list but operands, inputs before outputs: it     *)
(* stands where its index among them says.                                  *)
LEMMA SupportedIs ==
  ASSUME NEW s \in SignatureSet, Supported(s)
  PROVE  /\ \A i, j \in 1 .. Len(s) :
              /\ s[i].kind = "out" /\ s[j].kind = "in" => j < i
              /\ s[i].kind = "ws" /\ s[j].kind \in {"in", "out"} => j < i
         /\ \A i, j \in 1 .. Len(s) :
              i < j /\ s[j].kind \in {"in", "out"} /\ s[j].n > 0 => s[i].kind \in {"in", "out"}
         /\ \A i, j \in 1 .. Len(s) : s[i].kind = "hwsync" /\ s[j].kind = "hwsync" => i = j
         /\ \A i \in 1 .. Len(s) : s[i].kind = "const" => s[i].n > 0
  <1>1. Len(s) \in Nat /\ DOMAIN s = 1 .. Len(s)
    BY SignatureIs
  <1>2. \A i, j \in 1 .. Len(s) : i < j =>
          ~(s[i].kind = "out" /\ s[j].kind = "in") /\ ~(s[i].kind = "ws" /\ s[j].kind = "in")
            /\ ~(s[i].kind = "ws" /\ s[j].kind = "out")
    BY <1>1 DEF Supported
  <1>3. \A i, j \in 1 .. Len(s) : s[i].kind # s[j].kind => i < j \/ j < i
    BY <1>1
  <1>4. ASSUME NEW i \in 1 .. Len(s), NEW j \in 1 .. Len(s)
        PROVE  /\ s[i].kind = "out" /\ s[j].kind = "in" => j < i
               /\ s[i].kind = "ws" /\ s[j].kind \in {"in", "out"} => j < i
    BY <1>2, <1>3
  <1> QED
    BY <1>1, <1>4 DEF Supported

LEMMA ListsStand ==
  ASSUME NEW s \in SignatureSet, Supported(s)
  PROVE  /\ \A p \in ListsOf(s, "in") : RankOf(s, "in")[p] = p
         /\ \A p \in ListsOf(s, "out") : RankOf(s, "out")[p] + RankOf(s, "in")[Len(s)] = p
  <1> DEFINE n == Len(s)
  <1>1. n \in Nat
    BY SignatureIs
  <1>2. \A kind : \A i : i \in Of(s, kind) <=> i \in 1 .. n /\ s[i].kind = kind
    BY OfIs, Zenon
  <1>3. \A kind : RankOf(s, kind) = Ranks(Of(s, kind), n)
    BY DEF RankOf
  <1>4. /\ \A i, j \in 1 .. n : s[i].kind = "out" /\ s[j].kind = "in" => j < i
        /\ \A i, j \in 1 .. n :
             i < j /\ s[j].kind \in {"in", "out"} /\ s[j].n > 0 => s[i].kind \in {"in", "out"}
    BY SupportedIs
  <1> HIDE DEF n
  <1>5. ASSUME NEW p \in ListsOf(s, "in")
        PROVE  RankOf(s, "in")[p] = p
    <2>1. p \in 1 .. n /\ p \in 0 .. n /\ s[p].kind = "in" /\ s[p].n > 0
      BY <1>1, <1>2 DEF ListsOf
    <2>2. \A h \in 1 .. n : h <= p => s[h].kind = "in"
      <3> SUFFICES ASSUME NEW h \in 1 .. n, h <= p
                   PROVE  s[h].kind = "in"
        OBVIOUS
      <3>1. h = p \/ h < p
        BY <1>1, <2>1
      <3>2. CASE h < p
        <4>1. s[h].kind \in {"in", "out"}
          BY <1>4, <2>1, <3>2
        <4>2. s[h].kind # "out"
          BY <1>1, <1>4, <2>1, <3>2
        <4> QED
          BY <4>1, <4>2
      <3> QED
        BY <2>1, <3>1, <3>2
    <2>3. \A h \in 1 .. n : h <= p => h \in Of(s, "in")
      BY <1>2, <2>2
    <2>4. Ranks(Of(s, "in"), n)[p] = p
      BY <1>1, <2>1, <2>3, RankFull
    <2> QED
      BY <1>3, <2>4
  <1>6. ASSUME NEW p \in ListsOf(s, "out")
        PROVE  RankOf(s, "out")[p] + RankOf(s, "in")[n] = p
    <2>1. p \in 1 .. n /\ p \in 0 .. n /\ s[p].kind = "out" /\ s[p].n > 0
      BY <1>1, <1>2 DEF ListsOf
    <2>2. \A h \in 1 .. n : h <= p => s[h].kind \in {"in", "out"}
      BY <1>1, <1>4, <2>1
    <2>3. ASSUME NEW kind \in {"const", "hwsync", "ws"}
          PROVE  RankOf(s, kind)[p] = 0
      <3>1. \A h \in Of(s, kind) : h \in 1 .. n => p < h
        <4> SUFFICES ASSUME NEW h \in Of(s, kind), h \in 1 .. n
                     PROVE  p < h
          OBVIOUS
        <4>1. s[h].kind = kind
          BY <1>2
        <4>2. s[h].kind \notin {"in", "out"}
          BY <4>1
        <4>3. ~(h <= p)
          BY <2>2, <4>2
        <4> QED
          BY <1>1, <2>1, <4>3
      <3>2. Ranks(Of(s, kind), n)[p] = 0
        BY <1>1, <2>1, <3>1, RankBefore
      <3> QED
        BY <1>3, <3>2
    <2>4. RankOf(s, "in")[p] = RankOf(s, "in")[n]
      <3>1. \A h \in Of(s, "in") : h \in 1 .. n => h <= p
        BY <1>1, <1>2, <1>4, <2>1
      <3>2. Ranks(Of(s, "in"), n)[p] = Ranks(Of(s, "in"), n)[n]
        BY <1>1, <2>1, <3>1, RankBehind
      <3> QED
        BY <1>3, <3>2
    <2>5. RankOf(s, "in")[p] + RankOf(s, "out")[p] + RankOf(s, "const")[p] + RankOf(s, "hwsync")[p]
            + RankOf(s, "ws")[p] = p
      BY <2>1, KindsCount DEF n
    <2>6. RankOf(s, "in")[p] \in Nat /\ RankOf(s, "out")[p] \in Nat
      <3>1. RankOf(s, "in") \in [0 .. n -> Nat] /\ RankOf(s, "out") \in [0 .. n -> Nat]
        BY OfIs DEF n
      <3> QED
        BY <2>1, <3>1
    <2> QED
      BY <2>3, <2>4, <2>5, <2>6
  <1> QED
    BY <1>5, <1>6 DEF n

-----------------------------------------------------------------------------
(* What a launch gives, with or without lens, are the operands of its       *)
(* signature.                                                               *)
Zeros(q) == \A i \in DOMAIN q : q[i] = 0

LEMMA ZerosAre ==
  ASSUME NEW q \in Seq(Nat), Zeros(q)
  PROVE  /\ ListsIn(q) = {} /\ Total(TensorsOf(q)) = Len(q)
         /\ \A i \in 1 .. Len(q) : Before(TensorsOf(q), i) = i - 1
         /\ q = [i \in 1 .. Len(q) |-> 0]
  <1> DEFINE m == Len(q)
             T == TensorsOf(q)
             A == 1 .. m
  <1>1. m \in Nat /\ DOMAIN q = 1 .. m /\ \A i \in 1 .. m : q[i] = 0
    BY DEF Zeros
  <1>2. ListsIn(q) = {}
    BY <1>1 DEF ListsIn
  <1>3. T = Ones(A, m)
    BY <1>1 DEF TensorsOf, Ones
  <1>4. \A i \in 0 .. m : Sums(T)[i] = i
    <2> SUFFICES ASSUME NEW i \in 0 .. m
                 PROVE  Sums(T)[i] = i
      OBVIOUS
    <2>1. Ranks(A, m)[i] = i
      BY <1>1, RankFull
    <2> QED
      BY <1>3, <2>1 DEF Ranks
  <1>5. Len(T) = m
    BY <1>3, <1>1 DEF Ones
  <1> HIDE DEF T, m
  <1>6. m \in 0 .. m /\ \A i \in 1 .. m : i - 1 \in 0 .. m
    BY <1>1
  <1>7. Total(T) = m /\ \A i \in 1 .. m : Before(T, i) = i - 1
    BY <1>4, <1>5, <1>6 DEF Total, Before
  <1>8. q = [i \in 1 .. m |-> 0]
    BY <1>1
  <1> QED
    BY <1>2, <1>7, <1>8 DEF T, m

LEMMA LensAre ==
  ASSUME NEW l \in Launches, NEW kind \in {"in", "out"}
  PROVE  /\ l.signature \in Signatures /\ l.signature \in SignatureSet
         /\ \/ Lens(l, kind) = Sizes(l.signature, kind)
            \/ Lens(l, kind) = << >> /\ Zeros(Sizes(l.signature, kind))
  <1> DEFINE s == l.signature
             q == Sizes(s, kind)
  <1>1. s \in Signatures
    BY DEF Launches
  <1>2. s \in SignatureSet
    BY <1>1, SignatureAssumption DEF SignatureSet
  <1>3. (\E i \in DOMAIN s : s[i].kind = kind /\ s[i].n > 0) => kind \in l.lens
    BY DEF Launches
  <1>4. CASE kind \in l.lens
    BY <1>1, <1>2, <1>4 DEF Lens
  <1>5. CASE kind \notin l.lens
    <2>1. Lens(l, kind) = << >>
      BY <1>5 DEF Lens
    <2>2. DOMAIN s = 1 .. Len(s) /\ \A i \in 1 .. Len(s) : s[i].n \in Nat
      BY <1>2, SignatureIs
    <2>3. /\ q \in Seq(Nat)
          /\ \A j \in Of(s, kind) : q[RankOf(s, kind)[j]] = s[j].n
          /\ \A i \in 1 .. Len(q) : \E j \in Of(s, kind) : RankOf(s, kind)[j] = i
      BY <1>2, SizesHave
    <2>4. \A j \in Of(s, kind) : j \in 1 .. Len(s) /\ s[j].kind = kind
      BY <1>2, OfIs
    <2> HIDE DEF s, q
    <2>5. \A j \in Of(s, kind) : s[j].n = 0
      BY <1>3, <1>5, <2>2, <2>4
    <2>6. DOMAIN q = 1 .. Len(q)
      BY <2>3
    <2>7. Zeros(q)
      BY <2>3, <2>5, <2>6 DEF Zeros
    <2> QED
      BY <1>1, <1>2, <2>1, <2>7 DEF s, q
  <1> QED
    BY <1>4, <1>5

LEMMA OperandsAre ==
  ASSUME NEW l \in Launches, NEW kind \in {"in", "out"}
  PROVE  Operands(l, kind) = Sizes(l.signature, kind)
  <1> DEFINE q == Sizes(l.signature, kind)
  <1>1. l.signature \in SignatureSet
        /\ (Lens(l, kind) = q \/ (Lens(l, kind) = << >> /\ Zeros(q)))
    BY LensAre
  <1>2. q \in Seq(Nat)
    BY <1>1, SizesHave
  <1> HIDE DEF q
  <1>3. CASE Lens(l, kind) # << >>
    BY <1>1, <1>3 DEF Operands, q
  <1>4. CASE Lens(l, kind) = << >>
    <2>1. Zeros(q)
      BY <1>1, <1>2, <1>4 DEF Zeros
    <2>2. Total(TensorsOf(q)) = Len(q) /\ q = [i \in 1 .. Len(q) |-> 0]
      BY <1>2, <2>1, ZerosAre
    <2>3. Operands(l, kind) = [i \in 1 .. Total(TensorsOf(q)) |-> 0]
      BY <1>4 DEF Operands, q
    <2> QED
      BY <2>2, <2>3 DEF q
  <1> QED
    BY <1>3, <1>4 DEF q

LEMMA NoListsIn ==
  ASSUME NEW q \in Seq(Nat), Zeros(q), NEW kind, NEW slotOffset
  PROVE  ListInfos(q, kind, slotOffset) = << >> /\ ListCount(q) = 0
  <1> DEFINE T == TensorsOf(q)
             info(i) == [what |-> <<kind, Before(T, i), q[i]>>, slot |-> i - 1 + slotOffset,
                         size |-> ListBytes(q[i]), bytes |-> ListBytes(q[i])]
             f == [i \in DOMAIN q |-> info(i)]
             D == ListsIn(q)
             m == Len(q)
  <1>1. m \in Nat /\ DOMAIN q = 1 .. m /\ q = [i \in 1 .. m |-> q[i]]
    OBVIOUS
  <1>2. \A i \in 1 .. m : i \notin D
    BY ZerosAre
  <1>3. ListInfos(q, kind, slotOffset) = Picked(f, D) /\ ListCount(q) = Len(Picked(q, D))
    BY DEF ListInfos, ListCount
  <1> HIDE DEF info
  <1>4. Numbered(f, m) /\ Numbered(q, m)
    BY <1>1 DEF Numbered
  <1> HIDE DEF f, D, m
  <1>5. Picked(f, D) = << >> /\ Picked(q, D) = << >>
    BY <1>2, <1>4, PickedNone
  <1>6. Len(<< >>) = 0
    OBVIOUS
  <1> QED
    BY <1>3, <1>5, <1>6

LEMMA ListsAre ==
  ASSUME NEW l \in Launches, NEW kind \in {"in", "out"}, NEW slotOffset
  PROVE  /\ ListInfos(Lens(l, kind), kind, slotOffset) =
              ListInfos(Sizes(l.signature, kind), kind, slotOffset)
         /\ ListCount(Lens(l, kind)) = ListCount(Sizes(l.signature, kind))
  <1> DEFINE q == Sizes(l.signature, kind)
  <1>1. l.signature \in SignatureSet
        /\ (Lens(l, kind) = q \/ (Lens(l, kind) = << >> /\ Zeros(q)))
    BY LensAre
  <1>2. q \in Seq(Nat) /\ << >> \in Seq(Nat) /\ Zeros(<< >>)
    BY <1>1, SizesHave DEF Zeros
  <1>3. Zeros(q) => /\ ListInfos(q, kind, slotOffset) = << >> /\ ListCount(q) = 0
                    /\ ListInfos(<< >>, kind, slotOffset) = << >> /\ ListCount(<< >>) = 0
    BY <1>2, NoListsIn, Zenon
  <1> QED
    BY <1>1, <1>3

(* Where lists have to be told apart each stands in its slot.               *)
LensServe(l) == HasLists(l.signature) => (l.lens = {"out"} => Sizes(l.signature, "in") = << >>)

LEMMA ListsBehind ==
  ASSUME NEW l \in Launches, LensServe(l), ListsOf(l.signature, "out") # {}
  PROVE  Lens(l, "in") = Sizes(l.signature, "in")
  <1> DEFINE s == l.signature
  <1>1. s \in SignatureSet
    BY LensAre
  <1>2. \A i : i \in Of(s, "out") <=> i \in 1 .. Len(s) /\ s[i].kind = "out"
    BY <1>1, OfIs
  <1>3. DOMAIN s = 1 .. Len(s)
    BY <1>1, SignatureIs
  <1>4. \E i \in DOMAIN s : s[i].kind = "out" /\ s[i].n > 0
    BY <1>2, <1>3 DEF ListsOf
  <1>5. /\ "out" \in l.lens /\ l.lens \in SUBSET {"in", "out"}
        /\ (l.lens = {"out"} => Sizes(s, "in") = << >>)
    <2>1. HasLists(s)
      BY <1>4 DEF HasLists
    <2> QED
      BY <1>4, <2>1 DEF Launches, LensServe
  <1>6. CASE "in" \in l.lens
    BY <1>6 DEF Lens
  <1>7. CASE "in" \notin l.lens
    <2>1. l.lens = {"out"}
      BY <1>5, <1>7
    <2>2. Sizes(s, "in") = << >>
      BY <1>5, <2>1
    <2> QED
      BY <1>7, <2>2 DEF Lens
  <1> QED
    BY <1>6, <1>7

LEMMA HasListsIs ==
  ASSUME NEW s \in SignatureSet
  PROVE  HasLists(s) <=> ListsOf(s, "in") # {} \/ ListsOf(s, "out") # {}
  <1>1. DOMAIN s = 1 .. Len(s)
    BY SignatureIs
  <1>2. \A kind : \A i : i \in Of(s, kind) <=> i \in 1 .. Len(s) /\ s[i].kind = kind
    BY OfIs, Zenon
  <1>3. \A i : (i \in ListsOf(s, "in") <=> i \in DOMAIN s /\ s[i].kind = "in" /\ s[i].n > 0)
            /\ (i \in ListsOf(s, "out") <=> i \in DOMAIN s /\ s[i].kind = "out" /\ s[i].n > 0)
    BY <1>1, <1>2 DEF ListsOf
  <1> QED
    BY <1>3 DEF HasLists

LEMMA NoListsZero ==
  ASSUME NEW s \in SignatureSet, ~HasLists(s), NEW kind \in {"in", "out"}
  PROVE  Zeros(Sizes(s, kind))
  <1> DEFINE q == Sizes(s, kind)
  <1>1. /\ q \in Seq(Nat)
        /\ \A j \in Of(s, kind) : q[RankOf(s, kind)[j]] = s[j].n
        /\ \A i \in 1 .. Len(q) : \E j \in Of(s, kind) : RankOf(s, kind)[j] = i
    BY SizesHave
  <1>2. DOMAIN s = 1 .. Len(s) /\ \A i \in 1 .. Len(s) : s[i].n \in Nat
    BY SignatureIs
  <1>3. \A j \in Of(s, kind) : j \in 1 .. Len(s) /\ s[j].kind = kind
    BY OfIs
  <1>4. \A j \in Of(s, kind) : s[j].n = 0
    BY <1>2, <1>3 DEF HasLists
  <1> HIDE DEF q
  <1>5. DOMAIN q = 1 .. Len(q)
    BY <1>1
  <1> QED
    BY <1>1, <1>4, <1>5 DEF Zeros, q

(* Without lists each tensor counts.                                        *)
LEMMA TensorsArePlain ==
  ASSUME NEW l, l.signature \in SignatureSet, NEW kind, Zeros(Sizes(l.signature, kind))
  PROVE  Tensors(l, kind) = Plain(Sizes(l.signature, kind), kind)
  <1> DEFINE q == Sizes(l.signature, kind)
             m == Len(q)
             T == TensorsOf(q)
             item(i) == <<kind, Before(T, i), q[i]>>
             f == [i \in DOMAIN q |-> item(i)]
             D == DOMAIN q \ ListsIn(q)
  <1>1. q \in Seq(Nat)
    BY SizesHave
  <1>2. Plain(q, kind) = Picked(f, D)
    BY DEF Plain
  <1>3. Tensors(l, kind) = [i \in 1 .. Total(T) |-> <<kind, i - 1, 0>>]
    BY DEF Tensors
  <1> HIDE DEF q
  <1>4. m \in Nat /\ DOMAIN q = 1 .. m
    BY <1>1
  <1>5. ListsIn(q) = {} /\ Total(T) = m /\ \A i \in 1 .. m : Before(T, i) = i - 1 /\ q[i] = 0
    <2>1. Zeros(q)
      BY DEF q
    <2> HIDE DEF T
    <2> QED
      BY <1>1, <1>4, <2>1, ZerosAre DEF Zeros, T
  <1>6. \A i \in 1 .. m : item(i) = <<kind, i - 1, 0>>
    BY <1>5
  <1>7. Numbered(f, m) /\ \A i \in 1 .. m : i \in D
    <2> HIDE DEF item
    <2> QED
      BY <1>4, <1>5 DEF Numbered
  <1>8. Picked(f, D) = f
    <2> HIDE DEF f, D
    <2> QED
      BY <1>7, PickedAll
  <1>9. f = [i \in 1 .. m |-> <<kind, i - 1, 0>>]
    <2> HIDE DEF item, T
    <2> QED
      BY <1>4, <1>6
  <1> QED
    BY <1>2, <1>3, <1>5, <1>8, <1>9 DEF q

(* What Run puts into the free slots.                                       *)
ItemsOf(s) == Plain(Sizes(s, "in"), "in") \o Plain(Sizes(s, "out"), "out")

LEMMA ItemsAre ==
  ASSUME NEW l \in Launches, NEW k, HasLists(l.signature) => k.listMode
  PROVE  Items(k, l) = ItemsOf(l.signature) \o Workspaces(k)
  <1>1. l.signature \in SignatureSet
    BY LensAre
  <1>2. CASE k.listMode
    <2>1. Operands(l, "in") = Sizes(l.signature, "in") /\ Operands(l, "out") = Sizes(l.signature, "out")
      BY OperandsAre
    <2> QED
      BY <1>2, <2>1 DEF Items, ItemsOf
  <1>3. CASE ~k.listMode
    <2>1. Zeros(Sizes(l.signature, "in")) /\ Zeros(Sizes(l.signature, "out"))
      BY <1>1, <1>3, NoListsZero
    <2>2. /\ Tensors(l, "in") = Plain(Sizes(l.signature, "in"), "in")
          /\ Tensors(l, "out") = Plain(Sizes(l.signature, "out"), "out")
      BY <1>1, <2>1, TensorsArePlain
    <2> QED
      BY <1>3, <2>2 DEF Items, ItemsOf
  <1> QED
    BY <1>2, <1>3

-----------------------------------------------------------------------------
(* What Init has described for a launch.                                    *)
HwsyncOf(s) == IF Positions(s, "hwsync") = << >> THEN -1 ELSE Positions(s, "hwsync")[1] - 1

DescribedBy(k, l) ==
  /\ k.infos = ConstInfos(l.signature) \o TensorListInfos(l)
  /\ k.scratch = Sizes(l.signature, "ws")
  /\ k.hwsync = HwsyncOf(l.signature)

LEMMA HwsyncIs ==
  ASSUME NEW s \in SignatureSet, Supported(s)
  PROVE  /\ HwsyncOf(s) \in Int
         /\ (IF HwsyncOf(s) < 0 THEN 0 ELSE 1) = RankOf(s, "hwsync")[Len(s)]
         /\ \A p \in 1 .. Len(s) + 1 : p - 1 = HwsyncOf(s) <=> p \in Of(s, "hwsync")
  <1> DEFINE n == Len(s)
             C == Of(s, "hwsync")
             R == RankOf(s, "hwsync")
             P == Positions(s, "hwsync")
  <1>1. n \in Nat
    BY SignatureIs
  <1>2. /\ \A i : i \in C <=> i \in 1 .. n /\ s[i].kind = "hwsync"
        /\ R \in [0 .. n -> Nat]
        /\ \A i \in 1 .. n : R[i] = R[i - 1] + (IF s[i].kind = "hwsync" THEN 1 ELSE 0)
    BY OfIs
  <1>3. \A i, j \in C : i = j
    BY <1>2, SupportedIs
  <1>4. P \in Seq(Nat) /\ Len(P) = R[n] /\ \A j \in C : P[R[j]] = j
    BY PositionsHave
  <1>5. R = Ranks(C, n)
    BY DEF RankOf
  <1>6. HwsyncOf(s) = IF P = << >> THEN -1 ELSE P[1] - 1
    BY DEF HwsyncOf
  <1> HIDE DEF n, C, R, P
  <1>7. CASE C = {}
    <2>1. n \in 0 .. n /\ \A h \in C : h \in 1 .. n => n < h
      BY <1>1, <1>7
    <2>2. R[n] = 0
      BY <1>1, <1>5, <2>1, RankBefore
    <2>3. P = << >>
      BY <1>4, <2>2
    <2>4. HwsyncOf(s) = -1
      BY <1>6, <2>3
    <2>5. \A p \in 1 .. n + 1 : p - 1 # -1
      BY <1>1
    <2> QED
      BY <1>7, <2>2, <2>4, <2>5 DEF n, C, R
  <1>8. CASE C # {}
    <2>1. PICK p : p \in C
      BY <1>8
    <2>2. p \in 1 .. n /\ p \in 0 .. n /\ p - 1 \in 0 .. n /\ s[p].kind = "hwsync"
      BY <1>1, <1>2, <2>1
    <2>3. \A h \in C : h = p
      BY <1>3, <2>1
    <2>4. R[p - 1] = 0
      <3>1. \A h \in C : h \in 1 .. n => p - 1 < h
        BY <2>2, <2>3
      <3> QED
        BY <1>1, <1>5, <2>2, <3>1, RankBefore
    <2>5. R[p] = R[n]
      <3>1. \A h \in C : h \in 1 .. n => h <= p
        BY <2>2, <2>3
      <3> QED
        BY <1>1, <1>5, <2>2, <3>1, RankBehind
    <2>6. R[p] = 1
      BY <1>2, <2>2, <2>4
    <2>7. P # << >> /\ P[1] = p
      <3>1. Len(P) = 1 /\ P[1] = p
        BY <1>4, <2>1, <2>5, <2>6
      <3>2. Len(<< >>) = 0
        OBVIOUS
      <3> QED
        BY <3>1, <3>2
    <2>8. HwsyncOf(s) = p - 1
      BY <1>6, <2>7
    <2>9. \A h \in 1 .. n + 1 : h - 1 = p - 1 <=> h \in C
      <3> TAKE h \in 1 .. n + 1
      <3>1. h - 1 = p - 1 <=> h = p
        BY <1>1, <2>2
      <3> QED
        BY <2>1, <2>3, <3>1
    <2>10. HwsyncOf(s) \in Int /\ ~(HwsyncOf(s) < 0)
      BY <2>2, <2>8
    <2> QED
      BY <2>5, <2>6, <2>8, <2>9, <2>10 DEF n, C, R
  <1> QED
    BY <1>7, <1>8

LEMMA AskedAt ==
  ASSUME NEW s \in SignatureSet
  PROVE  /\ DOMAIN Asked(s) = 1 .. Len(s) + 1 /\ Asked(s)[Len(s) + 1] = <<"tiling">>
         /\ \A p \in Of(s, "in") : Asked(s)[p] = OperandAt(s, "in", p)
         /\ \A p \in Of(s, "out") : Asked(s)[p] = OperandAt(s, "out", p)
         /\ \A p \in Of(s, "const") : Asked(s)[p] = ConstAt(s, p)
         /\ \A p \in Of(s, "ws") : Asked(s)[p] = ScratchAt(s, p)
         /\ \A p \in Of(s, "hwsync") : Asked(s)[p] = <<"hwsync">>
  <1>1. /\ DOMAIN Asked(s) = 1 .. Len(s) + 1 /\ Asked(s)[Len(s) + 1] = <<"tiling">>
        /\ \A i \in 1 .. Len(s) : Asked(s)[i] =
             CASE s[i].kind \in {"in", "out"} -> OperandAt(s, s[i].kind, i)
               [] s[i].kind = "const"  -> ConstAt(s, i)
               [] s[i].kind = "ws"     -> ScratchAt(s, i)
               [] s[i].kind = "hwsync" -> <<"hwsync">>
    BY AskedIs
  <1>2. \A kind : \A i : i \in Of(s, kind) <=> i \in 1 .. Len(s) /\ s[i].kind = kind
    BY OfIs, Zenon
  <1>3. ASSUME NEW p \in Of(s, "in")
        PROVE  Asked(s)[p] = OperandAt(s, "in", p)
    BY <1>1, <1>2
  <1>4. ASSUME NEW p \in Of(s, "out")
        PROVE  Asked(s)[p] = OperandAt(s, "out", p)
    BY <1>1, <1>2
  <1>5. ASSUME NEW p \in Of(s, "const")
        PROVE  Asked(s)[p] = ConstAt(s, p)
    BY <1>1, <1>2
  <1>6. ASSUME NEW p \in Of(s, "ws")
        PROVE  Asked(s)[p] = ScratchAt(s, p)
    BY <1>1, <1>2
  <1>7. ASSUME NEW p \in Of(s, "hwsync")
        PROVE  Asked(s)[p] = <<"hwsync">>
    BY <1>1, <1>2
  <1> QED
    BY <1>1, <1>3, <1>4, <1>5, <1>6, <1>7

(* Infos for the parameters at some places, in whatever order.              *)
InfoFits(s, e, p) == e.slot = p - 1 /\ e.what = Asked(s)[p] /\ HasSize(e) /\ e.bytes > 0

Brings(x, s, P) ==
  /\ Len(x) \in Nat /\ x \in Seq(Values(x, Len(x)))
  /\ \A h \in 1 .. Len(x) : \E p \in P : InfoFits(s, x[h], p)
  /\ \A p \in P : \E h \in 1 .. Len(x) : x[h].slot = p - 1

LEMMA BringsJoined ==
  ASSUME NEW s, NEW P, NEW Q, NEW x, NEW y, Brings(x, s, P), Brings(y, s, Q)
  PROVE  Brings(x \o y, s, P \cup Q) /\ Len(x \o y) = Len(x) + Len(y)
  <1> DEFINE S == Values(x, Len(x)) \cup Values(y, Len(y))
             z == x \o y
  <1>1. /\ x \in Seq(S) /\ y \in Seq(S) /\ Len(x) \in Nat /\ Len(y) \in Nat
        /\ \A h \in 1 .. Len(x) : \E p \in P : InfoFits(s, x[h], p)
        /\ \A h \in 1 .. Len(y) : \E p \in Q : InfoFits(s, y[h], p)
        /\ \A p \in P : \E h \in 1 .. Len(x) : x[h].slot = p - 1
        /\ \A p \in Q : \E h \in 1 .. Len(y) : y[h].slot = p - 1
    BY DEF Brings
  <1> HIDE DEF S
  <1>2. /\ z \in Seq(S) /\ Len(z) = Len(x) + Len(y) /\ Len(z) \in Nat
        /\ \A h \in 1 .. Len(x) : h \in 1 .. Len(z) /\ z[h] = x[h]
        /\ \A h \in 1 .. Len(y) : Len(x) + h \in 1 .. Len(z) /\ z[Len(x) + h] = y[h]
        /\ \A h \in 1 .. Len(z) : h \in 1 .. Len(x) \/ (h - Len(x) \in 1 .. Len(y) /\ z[h] = y[h - Len(x)])
    BY <1>1
  <1> HIDE DEF z
  <1>3. \A h \in 1 .. Len(z) : \E p \in P \cup Q : InfoFits(s, z[h], p)
    <2> TAKE h \in 1 .. Len(z)
    <2>1. CASE h \in 1 .. Len(x)
      BY <1>1, <1>2, <2>1
    <2>2. CASE h - Len(x) \in 1 .. Len(y) /\ z[h] = y[h - Len(x)]
      BY <1>1, <2>2
    <2> QED
      BY <1>2, <2>1, <2>2
  <1>4. \A p \in P \cup Q : \E h \in 1 .. Len(z) : z[h].slot = p - 1
    <2> TAKE p \in P \cup Q
    <2>1. CASE p \in P
      BY <1>1, <1>2, <2>1
    <2>2. CASE p \in Q
      <3>1. PICK h \in 1 .. Len(y) : y[h].slot = p - 1
        BY <1>1, <2>2
      <3>2. Len(x) + h \in 1 .. Len(z) /\ z[Len(x) + h] = y[h]
        BY <1>2
      <3> DEFINE g == Len(x) + h
      <3>3. g \in 1 .. Len(z) /\ z[g].slot = p - 1
        BY <3>1, <3>2
      <3> HIDE DEF g
      <3> QED
        BY <3>3
    <2> QED
      BY <2>1, <2>2
  <1>5. z \in Seq(Values(z, Len(z)))
    <2> DEFINE V == Values(z, Len(z))
    <2>1. \A i \in 1 .. Len(z) : z[i] \in V
      BY DEF Values
    <2> HIDE DEF V
    <2>2. z = [i \in 1 .. Len(z) |-> z[i]]
      BY <1>2
    <2>3. [i \in 1 .. Len(z) |-> z[i]] \in Seq(V)
      BY <1>2, <2>1
    <2> QED
      BY <2>2, <2>3, Zenon DEF V
  <1> QED
    BY <1>2, <1>3, <1>4, <1>5 DEF Brings, z

(* A sequence of anything is one of what it has.                            *)
LEMMA OwnValues ==
  ASSUME NEW S, NEW z \in Seq(S)
  PROVE  z \in Seq(Values(z, Len(z))) /\ Len(z) \in Nat /\ DOMAIN z = 1 .. Len(z)
  <1> DEFINE V == Values(z, Len(z))
  <1>1. \A i \in 1 .. Len(z) : z[i] \in V
    BY DEF Values
  <1> HIDE DEF V
  <1>2. Len(z) \in Nat /\ DOMAIN z = 1 .. Len(z) /\ z = [i \in 1 .. Len(z) |-> z[i]]
    OBVIOUS
  <1>3. [i \in 1 .. Len(z) |-> z[i]] \in Seq(V)
    BY <1>1, <1>2
  <1> QED
    BY <1>2, <1>3, Zenon DEF V

LEMMA ConstsBring ==
  ASSUME NEW s \in SignatureSet, Supported(s)
  PROVE  /\ Brings(ConstInfos(s), s, Of(s, "const"))
         /\ Len(ConstInfos(s)) = RankOf(s, "const")[Len(s)]
  <1> DEFINE sizes == Sizes(s, "const")
             places == Positions(s, "const")
             m == Len(sizes)
             R == RankOf(s, "const")
             C == Of(s, "const")
             size(c) == AlignedSize(sizes[c]) + 64
             info(c) == [what |-> <<"const", c>>, slot |-> places[c] - 1,
                         size |-> size(c), bytes |-> sizes[c]]
             x == [c \in DOMAIN sizes |-> info(c)]
  <1>1. /\ sizes \in Seq(Nat) /\ m = R[Len(s)]
        /\ \A j \in C : R[j] \in 1 .. m /\ sizes[R[j]] = s[j].n
        /\ \A c \in 1 .. m : \E j \in C : R[j] = c
    BY SizesHave
  <1>2. \A j \in C : places[R[j]] = j
    BY PositionsHave
  <1>3. \A j \in C : j \in 1 .. Len(s) /\ s[j].kind = "const"
    BY OfIs
  <1>4. \A j \in C : s[j].n > 0 /\ s[j].n \in Nat
    BY <1>3, SupportedIs, SignatureIs
  <1>5. \A j \in C : Asked(s)[j] = <<"const", R[j]>>
    BY AskedAt DEF ConstAt
  <1>6. ConstInfos(s) = x
    BY DEF ConstInfos
  <1> HIDE DEF sizes, places, R, C
  <1>7. m \in Nat /\ DOMAIN sizes = 1 .. m
    BY <1>1
  <1>8. \A j \in C : InfoFits(s, info(R[j]), j)
    <2> TAKE j \in C
    <2>1. /\ info(R[j]).what = <<"const", R[j]>> /\ info(R[j]).slot = places[R[j]] - 1
          /\ info(R[j]).size = size(R[j]) /\ info(R[j]).bytes = sizes[R[j]]
      OBVIOUS
    <2>2. sizes[R[j]] \in Nat /\ sizes[R[j]] > 0
      BY <1>1, <1>4
    <2>3. AlignedSize(sizes[R[j]]) \in Nat /\ sizes[R[j]] <= AlignedSize(sizes[R[j]])
      BY <2>2, AlignedHolds
    <2> HIDE DEF info
    <2>4. HasSize(info(R[j]))
      BY <2>1, <2>2, <2>3 DEF HasSize
    <2> HIDE DEF size
    <2> QED
      BY <1>1, <1>2, <1>5, <2>1, <2>2, <2>4 DEF InfoFits
  <1> HIDE DEF info, m
  <1>9. \A c \in 1 .. m : x[c] = info(c)
    BY <1>7
  <1>10. x \in Seq({info(c) : c \in 1 .. m}) /\ Len(x) = m
    BY <1>7
  <1> HIDE DEF x
  <1>11. x \in Seq(Values(x, Len(x)))
    BY <1>10, OwnValues, Zenon
  <1>12. \A h \in 1 .. m : \E p \in C : InfoFits(s, x[h], p)
    <2> TAKE h \in 1 .. m
    <2>1. PICK j \in C : R[j] = h
      BY <1>1 DEF m
    <2>2. x[h] = info(R[j])
      BY <1>9, <2>1
    <2>3. InfoFits(s, x[h], j)
      BY <1>8, <2>2
    <2> QED
      BY <2>3
  <1>13. \A p \in C : \E h \in 1 .. m : x[h].slot = p - 1
    <2> TAKE p \in C
    <2>1. R[p] \in 1 .. m /\ x[R[p]] = info(R[p])
      BY <1>1, <1>9 DEF m
    <2>2. InfoFits(s, x[R[p]], p)
      BY <1>8, <2>1
    <2> QED
      BY <2>1, <2>2 DEF InfoFits
  <1>14. Brings(x, s, C)
    BY <1>7, <1>10, <1>11, <1>12, <1>13 DEF Brings
  <1>15. Len(x) = R[Len(s)]
    BY <1>1, <1>10 DEF m
  <1> QED
    BY <1>6, <1>14, <1>15 DEF C, R

LEMMA ListBytesSome ==
  ASSUME NEW n \in Nat
  PROVE  ListBytes(n) \in Nat /\ ListBytes(n) > 0
  <1> DEFINE r == n * (Rank + 1)
  <1>1. r \in Nat
    <2>1. Rank + 1 \in Nat
      BY SignatureAssumption
    <2> QED
      BY <2>1
  <1>2. ListBytes(n) = 8 * (n + 1 + r)
    BY DEF ListBytes, POINTER
  <1> HIDE DEF r
  <1> QED
    BY <1>1, <1>2

(* The slots of the lists: their index among the operands.                  *)
SlotsFrom(s, kind, slotOffset) ==
  \A p \in ListsOf(s, kind) : RankOf(s, kind)[p] + slotOffset = p

LEMMA ListsBring ==
  ASSUME NEW s \in SignatureSet, NEW kind \in {"in", "out"}, NEW slotOffset \in Nat,
         SlotsFrom(s, kind, slotOffset)
  PROVE  Brings(ListInfos(Sizes(s, kind), kind, slotOffset), s, ListsOf(s, kind))
  <1> DEFINE x == ListInfos(Sizes(s, kind), kind, slotOffset)
             L == ListsOf(s, kind)
  <1>1. /\ Len(x) \in Nat
        /\ \A h \in 1 .. Len(x) : \E p \in L : x[h] = ListInfoAt(s, kind, p, slotOffset)
        /\ \A p \in L : \E h \in 1 .. Len(x) : x[h] = ListInfoAt(s, kind, p, slotOffset)
    BY ListInfosHave
  <1>2. x \in Seq(Values(x, Len(x)))
    <2>1. Sizes(s, kind) \in Seq(Nat)
      BY SizesHave
    <2>2. Infos(x)
      BY <2>1, ListInfosAre, Zenon
    <2>3. PICK S : x \in Seq(S)
      BY <2>2 DEF Infos
    <2> HIDE DEF x
    <2> QED
      BY <2>3, OwnValues, Zenon
  <1>3. \A p \in L : p \in Of(s, kind) /\ p \in 1 .. Len(s)
    <2>1. \A p \in Of(s, kind) : p \in 1 .. Len(s)
      BY OfIs
    <2> QED
      BY <2>1 DEF ListsOf
  <1>4. \A p \in L : InfoFits(s, ListInfoAt(s, kind, p, slotOffset), p)
    <2> TAKE p \in L
    <2> DEFINE e == ListInfoAt(s, kind, p, slotOffset)
               r == RankOf(s, kind)[p]
    <2>1. /\ e.what = OperandAt(s, kind, p) /\ e.slot = r - 1 + slotOffset
          /\ e.size = ListBytes(s[p].n) /\ e.bytes = e.size
      BY DEF ListInfoAt
    <2>2. Asked(s)[p] = OperandAt(s, kind, p)
      BY <1>3, AskedAt
    <2>3. s[p].n \in Nat
      BY <1>3, SignatureIs
    <2>4. ListBytes(s[p].n) \in Nat /\ ListBytes(s[p].n) > 0
      BY <2>3, ListBytesSome
    <2>5. r + slotOffset = p
      BY DEF SlotsFrom
    <2>6. r \in Nat
      <3> DEFINE R == RankOf(s, kind)
      <3>1. R \in [0 .. Len(s) -> Nat] /\ Len(s) \in Nat
        BY OfIs, SignatureIs
      <3> HIDE DEF R
      <3>2. R[p] \in Nat
        BY <1>3, <3>1
      <3> QED
        BY <3>2 DEF R
    <2> HIDE DEF e, r
    <2>7. r - 1 + slotOffset = p - 1
      BY <2>5, <2>6
    <2> QED
      BY <2>1, <2>2, <2>4, <2>7 DEF InfoFits, HasSize, e
  <1> HIDE DEF x, L
  <1>5. \A h \in 1 .. Len(x) : \E p \in L : InfoFits(s, x[h], p)
    BY <1>1, <1>4
  <1>6. \A p \in L : \E h \in 1 .. Len(x) : x[h].slot = p - 1
    BY <1>1, <1>4 DEF InfoFits
  <1> QED
    BY <1>1, <1>2, <1>5, <1>6 DEF Brings, x, L

(* What Init and InitTensorList record: the const tensors and the lists,    *)
(* each for its own parameter.                                              *)
InfosPlaces(s) == Of(s, "const") \cup (ListsOf(s, "in") \cup ListsOf(s, "out"))

LEMMA TensorListsBring ==
  ASSUME NEW l \in Launches, Supported(l.signature), LensServe(l)
  PROVE  /\ Brings(TensorListInfos(l), l.signature, ListsOf(l.signature, "in") \cup ListsOf(l.signature, "out"))
         /\ Len(TensorListInfos(l)) = ListCount(Lens(l, "in")) + ListCount(Lens(l, "out"))
  <1> DEFINE s == l.signature
             off == Len(Lens(l, "in"))
             x == ListInfos(Sizes(s, "in"), "in", 0)
             y == ListInfos(Sizes(s, "out"), "out", off)
             L(kind) == ListsOf(s, kind)
  <1>1. s \in SignatureSet /\ s \in Signatures
    BY LensAre
  <1>2. off \in Nat
    <2>1. Lens(l, "in") \in Seq(Nat)
      BY <1>1, DescriptionIs, Zenon
    <2> QED
      BY <2>1
  <1>3. TensorListInfos(l) = x \o y
    BY ListsAre DEF TensorListInfos
  <1>4. /\ ListCount(Lens(l, "in")) = ListCount(Sizes(s, "in"))
        /\ ListCount(Lens(l, "out")) = ListCount(Sizes(s, "out"))
    BY ListsAre
  <1>5. \A kind : \A p \in L(kind) : p \in 1 .. Len(s)
    <2> SUFFICES ASSUME NEW kind, NEW p \in L(kind)
                 PROVE  p \in 1 .. Len(s)
      OBVIOUS
    <2>1. p \in Of(s, kind)
      BY DEF ListsOf
    <2> HIDE DEF s
    <2> QED
      BY <1>1, <2>1, OfIs
  <1>6. /\ \A p \in L("in") : RankOf(s, "in")[p] = p
        /\ \A p \in L("out") : RankOf(s, "out")[p] + RankOf(s, "in")[Len(s)] = p
    BY <1>1, ListsStand
  <1>7. SlotsFrom(s, "in", 0)
    BY <1>5, <1>6 DEF SlotsFrom
  <1>8. SlotsFrom(s, "out", off)
    <2>1. CASE L("out") = {}
      BY <2>1 DEF SlotsFrom
    <2>2. CASE L("out") # {}
      <3>1. Lens(l, "in") = Sizes(s, "in")
        BY <2>2, ListsBehind
      <3>2. Len(Sizes(s, "in")) = RankOf(s, "in")[Len(s)]
        BY <1>1, SizesHave
      <3> QED
        BY <1>6, <3>1, <3>2 DEF SlotsFrom
    <2> QED
      BY <2>1, <2>2
  <1> HIDE DEF s, off
  <1>9. 0 \in Nat /\ "in" \in {"in", "out"} /\ "out" \in {"in", "out"}
    OBVIOUS
  <1>10. Brings(x, s, L("in"))
    BY <1>1, <1>7, <1>9, ListsBring
  <1>11. Brings(y, s, L("out"))
    BY <1>1, <1>2, <1>8, <1>9, ListsBring
  <1>12. Len(x) = ListCount(Sizes(s, "in")) /\ Len(y) = ListCount(Sizes(s, "out"))
    BY <1>1, <1>2, <1>9, ListInfosHave
  <1> HIDE DEF x, y, L
  <1>13. Brings(x \o y, s, L("in") \cup L("out")) /\ Len(x \o y) = Len(x) + Len(y)
    BY <1>10, <1>11, BringsJoined
  <1> QED
    BY <1>3, <1>4, <1>12, <1>13 DEF s, L

LEMMA InfosBring ==
  ASSUME NEW l \in Launches, Supported(l.signature), LensServe(l), NEW k, DescribedBy(k, l)
  PROVE  /\ Brings(k.infos, l.signature, InfosPlaces(l.signature))
         /\ Len(k.infos) = RankOf(l.signature, "const")[Len(l.signature)]
                             + (ListCount(Lens(l, "in")) + ListCount(Lens(l, "out")))
  <1> DEFINE s == l.signature
             x == ConstInfos(s)
             y == TensorListInfos(l)
             P == Of(s, "const")
             Q == ListsOf(s, "in") \cup ListsOf(s, "out")
  <1>1. s \in SignatureSet
    BY LensAre
  <1>2. Brings(x, s, P) /\ Len(x) = RankOf(s, "const")[Len(s)]
    BY <1>1, ConstsBring
  <1>3. Brings(y, s, Q) /\ Len(y) = ListCount(Lens(l, "in")) + ListCount(Lens(l, "out"))
    BY TensorListsBring
  <1>4. k.infos = x \o y
    BY DEF DescribedBy
  <1>5. InfosPlaces(s) = P \cup Q
    BY DEF InfosPlaces
  <1> HIDE DEF s, x, y, P, Q
  <1>6. Brings(x \o y, s, P \cup Q) /\ Len(x \o y) = Len(x) + Len(y)
    BY <1>2, <1>3, BringsJoined
  <1> QED
    BY <1>2, <1>3, <1>4, <1>5, <1>6 DEF s

(* There is an argument for each parameter, and the tiling.                 *)
LEMMA ArgsNumAre ==
  ASSUME NEW l \in Launches, Supported(l.signature), LensServe(l), NEW k, DescribedBy(k, l)
  PROVE  ArgsNum(k, l) = Len(l.signature) + 1
  <1> DEFINE s == l.signature
             n == Len(s)
             R(kind) == RankOf(s, kind)[n]
             lists(kind) == ListCount(Lens(l, kind))
             one == IF k.hwsync < 0 THEN 0 ELSE 1
             infos == Len(k.infos)
             scratch == Len(k.scratch)
             operands(kind) == Len(Operands(l, kind))
  <1>1. s \in SignatureSet /\ s \in Signatures
    BY LensAre
  <1>2. infos = R("const") + (lists("in") + lists("out"))
    BY InfosBring
  <1>3. scratch = R("ws")
    <2>1. scratch = Len(Sizes(s, "ws"))
      BY DEF DescribedBy
    <2> HIDE DEF scratch, s
    <2> QED
      BY <1>1, <2>1, SizesHave DEF s
  <1>4. one = R("hwsync")
    <2>1. k.hwsync = HwsyncOf(s)
      BY DEF DescribedBy
    <2>2. (IF HwsyncOf(s) < 0 THEN 0 ELSE 1) = R("hwsync")
      BY <1>1, HwsyncIs
    <2> QED
      BY <2>1, <2>2
  <1>5. operands("in") = R("in") /\ operands("out") = R("out")
    <2>1. Operands(l, "in") = Sizes(s, "in") /\ Operands(l, "out") = Sizes(s, "out")
      BY OperandsAre
    <2>2. Len(Sizes(s, "in")) = R("in") /\ Len(Sizes(s, "out")) = R("out")
      BY <1>1, SizesHave
    <2> QED
      BY <2>1, <2>2
  <1>6. R("in") + R("out") + R("const") + R("hwsync") + R("ws") = n
    <2>1. n \in 0 .. n
      BY <1>1, SignatureIs
    <2> HIDE DEF s
    <2> QED
      BY <1>1, <2>1, KindsCount
  <1>7. lists("in") \in Nat /\ lists("out") \in Nat
    BY <1>1, OperandsCounted, Zenon
  <1>8. \A kind : R(kind) \in Nat
    <2> SUFFICES ASSUME NEW kind
                 PROVE  R(kind) \in Nat
      OBVIOUS
    <2> DEFINE Q == RankOf(s, kind)
    <2>1. Q \in [0 .. n -> Nat] /\ n \in Nat
      BY <1>1, OfIs, SignatureIs
    <2> HIDE DEF Q, n
    <2>2. Q[n] \in Nat
      BY <2>1
    <2> QED
      BY <2>2 DEF Q
  <1>9. R("in") \in Nat /\ R("out") \in Nat /\ R("const") \in Nat /\ R("hwsync") \in Nat /\ R("ws") \in Nat
    BY <1>8, Zenon
  <1>10. ArgsNum(k, l) =
           operands("in") + operands("out") + (infos - lists("in") - lists("out")) + scratch + one + 1
    BY DEF ArgsNum
  <1>11. n \in Nat
    BY <1>1, SignatureIs
  <1> HIDE DEF operands, lists, infos, scratch, one
  <1> DEFINE a == R("in")  b == R("out")  c == R("const")  d == R("hwsync")  e == R("ws")
  <1>12. /\ a \in Nat /\ b \in Nat /\ c \in Nat /\ d \in Nat /\ e \in Nat
         /\ a + b + c + d + e = n /\ infos = c + (lists("in") + lists("out"))
         /\ scratch = e /\ one = d /\ operands("in") = a /\ operands("out") = b
    BY <1>2, <1>3, <1>4, <1>5, <1>6, <1>9, Zenon
  <1> HIDE DEF a, b, c, d, e, n
  <1> DEFINE f == lists("in")  g == lists("out")
  <1>13. f \in Nat /\ g \in Nat
    BY <1>7
  <1>14. ArgsNum(k, l) = a + b + ((c + (f + g)) - f - g) + e + d + 1
    BY <1>10, <1>12
  <1> HIDE DEF f, g
  <1>15. a + b + ((c + (f + g)) - f - g) + e + d + 1 = n + 1
    BY <1>11, <1>12, <1>13
  <1> QED
    BY <1>14, <1>15 DEF n

-----------------------------------------------------------------------------
(* Things laid out together lie as they do one part after the other.        *)
Follows(r, h, q, m) == \A i \in 1 .. m : r[h + i] = q[i]

LEMMA SumsSame ==
  ASSUME NEW q, NEW m, SizesAre(q, m), NEW r, NEW n, SizesAre(r, n), NEW h \in 0 .. n, h + m <= n,
         Follows(r, h, q, m), NEW i \in 0 .. m
  PROVE  Sums(r)[h + i] = Sums(r)[h] + Sums(q)[i]
  <1> DEFINE Q == Sums(q)
             R == Sums(r)
             Good == {j \in 0 .. m : R[h + j] = R[h] + Q[j]}
  <1>1. m \in Nat /\ n \in Nat /\ h \in Nat
    BY DEF SizesAre
  <1>2. Q \in [0 .. m -> Nat] /\ Q[0] = 0 /\ \A j \in 1 .. m : Q[j] = Q[j - 1] + q[j]
    BY SumsUp
  <1>3. R \in [0 .. n -> Nat] /\ \A j \in 1 .. n : R[j] = R[j - 1] + r[j]
    BY SumsUp
  <1>4. \A j \in 1 .. m : q[j] \in Nat /\ r[h + j] = q[j]
    BY DEF SizesAre, Follows
  <1> HIDE DEF Q, R
  <1>5. 0 \in Good
    <2>1. 0 \in 0 .. m /\ h + 0 = h
      BY <1>1
    <2>2. R[h] \in Nat
      BY <1>3
    <2> QED
      BY <1>2, <2>1, <2>2
  <1>6. ASSUME NEW j \in 0 .. m - 1, j \in Good
        PROVE  j + 1 \in Good
    <2> DEFINE g == j + 1
    <2>1. g \in 1 .. m /\ g \in 0 .. m /\ g - 1 = j /\ h + g \in 1 .. n /\ (h + g) - 1 = h + j
      BY <1>1
    <2>2. R[h + j] = R[h] + Q[j] /\ R[h] \in Nat /\ Q[j] \in Nat
      BY <1>2, <1>3, <1>6
    <2> HIDE DEF g
    <2>3. R[h + g] = R[h + j] + r[h + g] /\ r[h + g] = q[g] /\ q[g] \in Nat /\ Q[g] = Q[j] + q[g]
      BY <1>2, <1>3, <1>4, <2>1
    <2>4. R[h + g] = R[h] + Q[g]
      BY <2>2, <2>3
    <2> QED
      BY <2>1, <2>4 DEF g
  <1>7. 0 .. m \subseteq Good
    <2> HIDE DEF Good
    <2> QED
      BY <1>1, <1>5, <1>6, CountedUp, Zenon
  <1>8. i \in Good
    BY <1>7
  <1> QED
    BY <1>8 DEF Q, R

LEMMA LaidOutJoined ==
  ASSUME NEW x, NEW y, Infos(x), Infos(y), NEW at \in Int, NEW i \in 1 .. Len(x \o y)
  PROVE  InfoAt(x \o y, at, i) \in LaidOut(x, at) \cup LaidOut(y, at + InfoBytes(x))
  <1> DEFINE z == x \o y
             m == Len(x)
             n == Len(y)
             X == InfoSizes(x)
             Y == InfoSizes(y)
             Z == InfoSizes(z)
             b == InfoBytes(x)
  <1>1. PICK S : x \in Seq(S) /\ y \in Seq(S)
    <2>1. PICK S1 : x \in Seq(S1)
      BY DEF Infos
    <2>2. PICK S2 : y \in Seq(S2)
      BY DEF Infos
    <2>3. x \in Seq(S1 \cup S2) /\ y \in Seq(S1 \cup S2)
      BY <2>1, <2>2
    <2> QED
      BY <2>3
  <1>2. /\ m \in Nat /\ n \in Nat /\ Len(z) = m + n
        /\ \A h \in 1 .. m : z[h] = x[h]
        /\ \A h \in 1 .. n : z[m + h] = y[h]
    BY <1>1
  <1>3. Sized(x, m) /\ Sized(y, n) /\ Sized(z, m + n)
    <2>1. Infos(z)
      BY InfosJoined
    <2>2. Sized(z, Len(z))
      BY <2>1, InfosSized, Zenon
    <2>3. Sized(x, m) /\ Sized(y, n)
      BY InfosSized, Zenon
    <2> QED
      BY <1>2, <2>2, <2>3
  <1>4. /\ SizesAre(X, m) /\ b = Sums(X)[m] /\ \A h \in 1 .. m : X[h] = x[h].size
        /\ InfoAt(x, at, 1) = InfoAt(x, at, 1)
        /\ \A h \in 1 .. m : InfoAt(x, at, h) \in LaidOut(x, at)
        /\ Sums(X) \in [0 .. m -> Nat]
    BY <1>3, LaidOutAre
  <1>5. b \in Nat
    BY <1>2, <1>4
  <1>6. /\ SizesAre(Y, n) /\ \A h \in 1 .. n : Y[h] = y[h].size
        /\ Sums(Y) \in [0 .. n -> Nat]
    BY <1>3, LaidOutAre
  <1>7. \A h \in 1 .. n : InfoAt(y, at + b, h) \in LaidOut(y, at + b)
    <2> DEFINE to == at + b
    <2>1. to \in Int
      BY <1>5
    <2> HIDE DEF to
    <2>2. \A h \in 1 .. n : InfoAt(y, to, h) \in LaidOut(y, to)
      BY <1>3, <2>1, LaidOutAre
    <2> QED
      BY <2>2 DEF to
  <1>8. SizesAre(Z, m + n) /\ \A h \in 1 .. m + n : Z[h] = z[h].size
    BY <1>3, LaidOutAre
  <1> HIDE DEF z, m, n, X, Y, Z, b
  <1>9. \A h \in 0 .. m : Sums(Z)[h] = Sums(X)[h]
    <2>1. 0 \in 0 .. m + n /\ 0 + m <= m + n /\ \A h \in 0 .. m : 0 + h = h
      BY <1>2
    <2>2. Follows(Z, 0, X, m)
      <3>1. \A h \in 1 .. m : 0 + h = h /\ h \in 1 .. m + n
        BY <1>2
      <3> QED
        BY <1>2, <1>4, <1>8, <3>1 DEF Follows
    <2>3. \A h \in 0 .. m : Sums(Z)[0 + h] = Sums(Z)[0] + Sums(X)[h]
      <3> SizesAre(X, m) /\ SizesAre(Z, m + n)
        BY <1>4, <1>8
      <3> TAKE h \in 0 .. m
      <3> QED
        BY <2>1, <2>2, SumsSame
    <2>4. Sums(Z)[0] = 0
      BY <1>8, SumsUp
    <2> QED
      BY <1>4, <2>1, <2>3, <2>4
  <1>10. \A h \in 0 .. n : Sums(Z)[m + h] = b + Sums(Y)[h]
    <2>1. m \in 0 .. m + n /\ m + n <= m + n /\ m \in 0 .. m
      BY <1>2
    <2>2. Follows(Z, m, Y, n)
      <3>1. \A h \in 1 .. n : m + h \in 1 .. m + n
        BY <1>2
      <3> QED
        BY <1>2, <1>6, <1>8, <3>1 DEF Follows
    <2>3. \A h \in 0 .. n : Sums(Z)[m + h] = Sums(Z)[m] + Sums(Y)[h]
      <3> SizesAre(Y, n) /\ SizesAre(Z, m + n)
        BY <1>6, <1>8
      <3> TAKE h \in 0 .. n
      <3> QED
        BY <2>1, <2>2, SumsSame
    <2>4. Sums(Z)[m] = b
      BY <1>4, <1>9, <2>1
    <2> QED
      BY <2>3, <2>4
  <1>11. CASE i \in 1 .. m
    <2>1. i - 1 \in 0 .. m
      BY <1>2, <1>11
    <2>2. Before(Z, i) = Before(X, i) /\ z[i] = x[i]
      BY <1>2, <1>9, <1>11, <2>1 DEF Before
    <2>3. InfoAt(z, at, i) = InfoAt(x, at, i)
      BY <2>2 DEF InfoAt, X, Z
    <2> QED
      BY <1>4, <1>11, <2>3 DEF z
  <1>12. CASE i \notin 1 .. m
    <2> DEFINE h == i - m
    <2>1. h \in 1 .. n /\ i = m + h /\ h - 1 \in 0 .. n /\ i - 1 = m + (h - 1)
      <3>1. i \in 1 .. m + n
        BY <1>2 DEF z
      <3> QED
        BY <1>2, <1>12, <3>1
    <2> HIDE DEF h
    <2>2. Before(Z, i) = b + Before(Y, h) /\ z[i] = y[h]
      BY <1>2, <1>10, <2>1 DEF Before
    <2>3. Before(Y, h) \in Nat
      BY <1>6, <2>1 DEF Before
    <2>4. at + Before(Z, i) = (at + b) + Before(Y, h)
      BY <1>5, <2>2, <2>3
    <2>5. InfoAt(z, at, i) = InfoAt(y, at + b, h)
      BY <2>2, <2>4 DEF InfoAt, Y, Z
    <2> QED
      BY <1>7, <2>1, <2>5 DEF z, b
  <1> QED
    BY <1>11, <1>12

(* Of pieces that have some size and lie apart, each is found by where it   *)
(* begins.                                                                  *)
Solid(pieces, lo, hi) ==
  Inside(pieces, lo, hi) /\ Apart(pieces) /\ \A d \in pieces : d.size > 0

LEMMA DataAtIs ==
  ASSUME NEW pieces, NEW lo, NEW hi, Solid(pieces, lo, hi), NEW e \in pieces
  PROVE  DataAt(pieces, e.at) = e.what /\ \A d \in pieces : d.at = e.at => d = e
  <1>1. \A d \in pieces : d.at = e.at => d = e
    <2> SUFFICES ASSUME NEW d \in pieces, d.at = e.at, d # e
                 PROVE  FALSE
      OBVIOUS
    <2>1. d.at \in Int /\ d.size \in Nat /\ e.size \in Nat /\ d.size > 0 /\ e.size > 0
      BY DEF Solid, Inside
    <2>2. d.at + d.size <= e.at \/ e.at + e.size <= d.at
      BY DEF Solid, Apart
    <2> QED
      BY <2>1, <2>2
  <1>2. (CHOOSE d \in pieces : d.at = e.at) = e
    BY <1>1
  <1> QED
    BY <1>1, <1>2 DEF DataAt

LEMMA LaidOutSolid ==
  ASSUME NEW x, Infos(x), \A i \in 1 .. Len(x) : x[i].bytes > 0, NEW at \in Int
  PROVE  Solid(LaidOut(x, at), at, at + InfoBytes(x)) /\ InfoBytes(x) \in Nat
  <1>1. Sized(x, Len(x))
    BY InfosSized
  <1>2. /\ InfoBytes(x) \in Nat
        /\ Inside(LaidOut(x, at), at, at + InfoBytes(x)) /\ Apart(LaidOut(x, at))
    BY <1>1, LaidOutApart
  <1>3. \A d \in LaidOut(x, at) : d.size > 0
    <2> SUFFICES ASSUME NEW d \in LaidOut(x, at)
                 PROVE  d.size > 0
      OBVIOUS
    <2>1. PICK i \in 1 .. Len(x) : d = InfoAt(x, at, i)
      BY <1>1, LaidOutAre
    <2>2. d.size = x[i].bytes
      BY <2>1 DEF InfoAt, Piece
    <2> QED
      BY <2>2
  <1> QED
    BY <1>2, <1>3 DEF Solid

LEMMA BringsSolid ==
  ASSUME NEW x, NEW s, NEW P, Brings(x, s, P)
  PROVE  /\ Infos(x) /\ Len(x) \in Nat /\ DOMAIN x = 1 .. Len(x)
         /\ \A i \in 1 .. Len(x) : x[i].bytes > 0
         /\ P = {} => Len(x) = 0
  <1> DEFINE S == Values(x, Len(x))
  <1>1. x \in Seq(S) /\ Len(x) \in Nat
    BY DEF Brings
  <1>2. \A i \in 1 .. Len(x) : HasSize(x[i]) /\ x[i].bytes > 0
    BY DEF Brings, InfoFits
  <1>3. \A e \in S : HasSize(e)
    BY <1>2 DEF Values
  <1>4. Infos(x)
    BY <1>1, <1>3, Zenon DEF Infos
  <1>5. P = {} => \A i \in 1 .. Len(x) : FALSE
    BY DEF Brings
  <1> HIDE DEF S
  <1> QED
    BY <1>1, <1>2, <1>4, <1>5

(* What Init lays out, in the buffer of the arguments or in the host        *)
(* tiling, is where Run looks for it.                                       *)
Abutting(l, at, to) == HasLists(l.signature) => to = at + InfoBytes(ConstInfos(l.signature))

ServedBy(infos, l, at, to) ==
  /\ \A i \in 1 .. Len(infos) :
       /\ InfoAt(infos, at, i) \in
            LaidOut(ConstInfos(l.signature), at) \cup LaidOut(TensorListInfos(l), to)
       /\ InfoAt(infos, at, i).at = at + Before(InfoSizes(infos), i)
       /\ InfoAt(infos, at, i).what = infos[i].what
  /\ Solid(LaidOut(ConstInfos(l.signature), at), at, at + InfoBytes(ConstInfos(l.signature)))
  /\ InfoBytes(ConstInfos(l.signature)) \in Nat
  /\ ~HasLists(l.signature) => LaidOut(TensorListInfos(l), to) = {}
  /\ \A d \in LaidOut(TensorListInfos(l), to) : d.size > 0

LEMMA InfosServe ==
  ASSUME NEW l \in Launches, Supported(l.signature), LensServe(l), NEW k, DescribedBy(k, l),
         NEW at \in Int, NEW to, Abutting(l, at, to)
  PROVE  ServedBy(k.infos, l, at, to)
  <1> DEFINE s == l.signature
             x == ConstInfos(s)
             y == TensorListInfos(l)
             P == Of(s, "const")
             Q == ListsOf(s, "in") \cup ListsOf(s, "out")
  <1>1. s \in SignatureSet
    BY LensAre
  <1>2. Brings(x, s, P) /\ Brings(y, s, Q)
    BY <1>1, ConstsBring, TensorListsBring
  <1>3. k.infos = x \o y
    BY DEF DescribedBy
  <1>4. ~HasLists(s) => Q = {}
    BY <1>1, HasListsIs
  <1> HIDE DEF s, x, y, P, Q
  <1>5. /\ Infos(x) /\ Infos(y) /\ Len(y) \in Nat /\ Len(x) \in Nat
        /\ \A i \in 1 .. Len(x) : x[i].bytes > 0
        /\ \A i \in 1 .. Len(y) : y[i].bytes > 0
        /\ Q = {} => Len(y) = 0
    BY <1>2, BringsSolid
  <1>6. Solid(LaidOut(x, at), at, at + InfoBytes(x)) /\ InfoBytes(x) \in Nat
    BY <1>5, LaidOutSolid
  <1>7. DOMAIN y = 1 .. Len(y)
    BY <1>2, BringsSolid
  <1>8. \A d \in LaidOut(y, to) : \E i \in 1 .. Len(y) : d.size = y[i].bytes
    <2> SUFFICES ASSUME NEW d \in LaidOut(y, to)
                 PROVE  \E i \in 1 .. Len(y) : d.size = y[i].bytes
      OBVIOUS
    <2>1. PICK i \in DOMAIN y : d = InfoAt(y, to, i)
      BY DEF LaidOut, InfoAt
    <2>2. d.size = y[i].bytes
      BY <2>1 DEF InfoAt, Piece
    <2> QED
      BY <1>7, <2>1, <2>2
  <1>9. ~HasLists(s) => LaidOut(y, to) = {}
    BY <1>4, <1>5, <1>8
  <1>10. \A d \in LaidOut(y, to) : d.size > 0
    BY <1>5, <1>8
  <1>11. ASSUME NEW i \in 1 .. Len(k.infos)
         PROVE  InfoAt(k.infos, at, i) \in LaidOut(x, at) \cup LaidOut(y, to)
    <2>1. InfoAt(x \o y, at, i) \in LaidOut(x, at) \cup LaidOut(y, at + InfoBytes(x))
      BY <1>3, <1>5, LaidOutJoined
    <2>2. CASE HasLists(s)
      BY <1>3, <2>1, <2>2 DEF s, x, Abutting
    <2>3. CASE ~HasLists(s)
      <3> DEFINE b == at + InfoBytes(x)
      <3>1. \A d \in LaidOut(y, b) : \E h \in 1 .. Len(y) : TRUE
        BY <1>7 DEF LaidOut
      <3>2. LaidOut(y, b) = {}
        BY <1>4, <1>5, <2>3, <3>1
      <3> QED
        BY <1>3, <2>1, <3>2
    <2> QED
      BY <2>2, <2>3
  <1>12. \A i : /\ InfoAt(k.infos, at, i).at = at + Before(InfoSizes(k.infos), i)
                /\ InfoAt(k.infos, at, i).what = k.infos[i].what
    BY DEF InfoAt, Piece
  <1> QED
    BY <1>6, <1>9, <1>10, <1>11, <1>12, Zenon DEF s, x, y, ServedBy

(* Lists follow the const tensors where the tiling ends with these.         *)
TilingEnds(l, t) == HasLists(l.signature) => ConstBytes(t) = InfoBytes(ConstInfos(l.signature))

LEMMA CopiedServes ==
  ASSUME NEW l \in Launches, Supported(l.signature), LensServe(l), NEW k, DescribedBy(k, l),
         NEW t \in Tilings, Unfit(ConstInfos(l.signature), t) = {}, TilingEnds(l, t), k.tilingMode
  PROVE  LET base == POINTER * ArgsNum(k, l)
             at == base + AlignedSize(t.used)
             end == ArgsSize(k, l, t)
             within(offset) == offset \in Nat /\ offset < end
         IN  /\ Inside(Copied(k, l, t), base, end) /\ end \in Int
             /\ within(base) /\ DataAt(Copied(k, l, t), base) = <<"tiling">>
             /\ \A i \in 1 .. Len(k.infos) :
                  /\ within(at + Before(InfoSizes(k.infos), i))
                  /\ DataAt(Copied(k, l, t), at + Before(InfoSizes(k.infos), i)) = k.infos[i].what
  <1> DEFINE s == l.signature
             base == POINTER * ArgsNum(k, l)
             at == base + AlignedSize(t.used)
             to == at + ConstBytes(t)
             end == ArgsSize(k, l, t)
             pieces == Copied(k, l, t)
             tilingPiece == Piece(<<"tiling">>, base, t.used)
             x == ConstInfos(s)
             y == TensorListInfos(l)
  <1>1. s \in SignatureSet /\ s \in Signatures
    BY LensAre
  <1>2. ArgsNum(k, l) = Len(s) + 1 /\ Len(s) \in Nat
    BY <1>1, ArgsNumAre, SignatureIs
  <1>3. base \in Nat
    BY <1>2 DEF POINTER
  <1>4. t.used \in Nat /\ t.used > 0
    BY SignatureAssumption
  <1>5. AlignedSize(t.used) \in Nat
    BY <1>4, AlignedHolds
  <1>6. Inside(pieces, base, end) /\ Apart(pieces)
    BY <1>1, <1>2, CopiedWithin
  <1>7. pieces = ({tilingPiece} \cup LaidOut(x, at)) \cup LaidOut(y, to)
    BY DEF Copied
  <1>8. tilingPiece.at = base /\ tilingPiece.size = t.used /\ tilingPiece.what = <<"tiling">>
    BY DEF Piece
  <1>9. at \in Int
    BY <1>3, <1>5
  <1>10. HasLists(s) => ConstBytes(t) = InfoBytes(x)
    BY DEF TilingEnds
  <1>11. Abutting(l, at, to)
    BY <1>10 DEF Abutting
  <1> HIDE DEF at, to, tilingPiece, end
  <1> ServedBy(k.infos, l, at, to)
    BY <1>9, <1>11, InfosServe
  <1>12. /\ \A i \in 1 .. Len(k.infos) :
              /\ InfoAt(k.infos, at, i) \in LaidOut(x, at) \cup LaidOut(y, to)
              /\ InfoAt(k.infos, at, i).at = at + Before(InfoSizes(k.infos), i)
              /\ InfoAt(k.infos, at, i).what = k.infos[i].what
         /\ Solid(LaidOut(x, at), at, at + InfoBytes(x))
         /\ \A d \in LaidOut(y, to) : d.size > 0
    BY Zenon DEF ServedBy
  <1> HIDE DEF x, y, pieces, base
  <1>13. \A d \in pieces : d.size > 0
    BY <1>4, <1>7, <1>8, <1>12 DEF Solid
  <1>14. Solid(pieces, base, end)
    BY <1>6, <1>13 DEF Solid
  <1>15. end \in Int
    <2>1. ArgsSize(k, l, t) = base + (AlignedSize(t.used) + ConstBytes(t) + ListsBytes(l))
      BY DEF ArgsSize, base
    <2>2. ConstBytes(t) \in Int /\ ListsBytes(l) \in Int
      <3>1. t.size \in Nat /\ t.constOffset \in Nat
        BY SignatureAssumption
      <3>2. ConstBytes(t) \in Int
        BY <3>1 DEF ConstBytes
      <3>3. InfoBytes(y) \in Nat
        <4>1. Sized(y, Len(y))
          BY <1>1, DescriptionIs, InfosSized, Zenon DEF y
        <4>2. 0 \in Int
          OBVIOUS
        <4> QED
          BY <4>1, <4>2, LaidOutApart, Zenon
      <3>4. ListsBytes(l) \in Int
        BY <3>3, AlignedHolds DEF ListsBytes, y
      <3> QED
        BY <3>2, <3>4
    <2> QED
      BY <1>3, <1>5, <2>1, <2>2 DEF end
  <1>16. ASSUME NEW d \in pieces
         PROVE  d.at \in Nat /\ d.at < end /\ DataAt(pieces, d.at) = d.what
    <2>1. d.at \in Int /\ d.size \in Nat /\ d.size > 0 /\ base <= d.at /\ d.at + d.size <= end
      BY <1>14 DEF Solid, Inside
    <2>2. DataAt(pieces, d.at) = d.what
      BY <1>14, DataAtIs
    <2> QED
      BY <1>3, <1>15, <2>1, <2>2
  <1>17. tilingPiece \in pieces /\ \A i \in 1 .. Len(k.infos) : InfoAt(k.infos, at, i) \in pieces
    BY <1>7, <1>12
  <1>18. base \in Nat /\ base < end /\ DataAt(pieces, base) = <<"tiling">>
    BY <1>8, <1>16, <1>17
  <1>19. \A i \in 1 .. Len(k.infos) :
           /\ at + Before(InfoSizes(k.infos), i) \in Nat /\ at + Before(InfoSizes(k.infos), i) < end
           /\ DataAt(pieces, at + Before(InfoSizes(k.infos), i)) = k.infos[i].what
    <2> TAKE i \in 1 .. Len(k.infos)
    <2> DEFINE d == InfoAt(k.infos, at, i)
    <2>1. d \in pieces /\ d.at = at + Before(InfoSizes(k.infos), i) /\ d.what = k.infos[i].what
      BY <1>12, <1>17
    <2> HIDE DEF d
    <2>2. d.at \in Nat /\ d.at < end /\ DataAt(pieces, d.at) = d.what
      BY <1>16, <2>1
    <2> QED
      BY <2>1, <2>2
  <1> QED
    BY <1>6, <1>18, <1>19, <1>15 DEF base, at, end, pieces

LEMMA HostServes ==
  ASSUME NEW l \in Launches, Supported(l.signature), LensServe(l), NEW k, DescribedBy(k, l),
         NEW t \in Tilings, ~HasLists(l.signature)
  PROVE  \A i \in 1 .. Len(k.infos) :
           DataAt(HostOf(ConstInfos(l.signature), t),
                  t.constOffset + Before(InfoSizes(k.infos), i)) = k.infos[i].what
  <1> DEFINE at == t.constOffset
             x == ConstInfos(l.signature)
             tilingPiece == Piece(<<"tiling">>, 0, t.used)
             pieces == {tilingPiece} \cup LaidOut(x, at)
             end == at + InfoBytes(x)
  <1>1. HostOf(x, t) = pieces
    BY DEF HostOf
  <1>2. at \in Int /\ 0 < at
    <2>1. t.size \in Nat /\ t.constOffset \in 1 .. t.size
      BY SignatureAssumption
    <2> QED
      BY <2>1
  <1>3. tilingPiece.at = 0
    BY DEF Piece
  <1> HIDE DEF at, tilingPiece
  <1>4. Abutting(l, at, at)
    BY DEF Abutting
  <1>5. ServedBy(k.infos, l, at, at)
    BY <1>2, <1>4, InfosServe
  <1>6. /\ \A i \in 1 .. Len(k.infos) :
             /\ InfoAt(k.infos, at, i) \in LaidOut(x, at)
             /\ InfoAt(k.infos, at, i).at = at + Before(InfoSizes(k.infos), i)
             /\ InfoAt(k.infos, at, i).what = k.infos[i].what
        /\ Solid(LaidOut(x, at), at, end)
    BY <1>5 DEF ServedBy
  <1> HIDE DEF x, end
  <1>7. ASSUME NEW d \in LaidOut(x, at)
        PROVE  DataAt(pieces, d.at) = d.what
    <2>1. at <= d.at /\ d.at \in Int
      BY <1>6 DEF Solid, Inside
    <2>2. \A e \in LaidOut(x, at) : e.at = d.at => e = d
      BY <1>6, DataAtIs
    <2>3. tilingPiece.at # d.at
      BY <1>2, <1>3, <2>1
    <2>4. d \in pieces /\ \A e \in pieces : e.at = d.at => e = d
      BY <2>2, <2>3
    <2> HIDE DEF pieces
    <2>5. (CHOOSE e \in pieces : e.at = d.at) = d
      BY <2>4
    <2> QED
      BY <2>4, <2>5 DEF DataAt
  <1> HIDE DEF pieces
  <1>8. \A i \in 1 .. Len(k.infos) :
          DataAt(pieces, at + Before(InfoSizes(k.infos), i)) = k.infos[i].what
    <2> TAKE i \in 1 .. Len(k.infos)
    <2> DEFINE d == InfoAt(k.infos, at, i)
    <2>1. d \in LaidOut(x, at) /\ d.at = at + Before(InfoSizes(k.infos), i) /\ d.what = k.infos[i].what
      BY <1>6
    <2> HIDE DEF d
    <2>2. DataAt(pieces, d.at) = d.what
      BY <1>7, <2>1
    <2> QED
      BY <2>1, <2>2
  <1> QED
    BY <1>1, <1>8 DEF x, at

(* A kernel initialised for launch l with tiling t.  The tiling may have    *)
(* been cleared since, by a Run with more arguments, or replaced.           *)
Untiled(pieces) == \A d \in pieces : d.what # <<"tiling">>

Ready(k, l, t) ==
  /\ DescribedBy(k, l)
  /\ Unfit(ConstInfos(l.signature), t) = {}
  /\ k.argsSize = ArgsSize(k, l, t)
  /\ k.tilingMode =>
       /\ k.data = Copied(k, l, t) \/ Untiled(k.data)
       /\ k.used = t.used /\ k.constOffset = t.constOffset /\ k.size = t.size
  /\ ~k.tilingMode =>
       \/ k.host = HostOf(ConstInfos(l.signature), t) /\ k.constOffset = t.constOffset
       \/ Untiled(k.host)

(* What there is of the tiling in a use that works, and of its const        *)
(* tensors.                                                                 *)
LEMMA KeptWorks ==
  ASSUME NEW k, NEW l, Works(k, l), NEW t \in Tilings, Ready(k, l, t)
  PROVE  /\ l \in Launches /\ Supported(l.signature) /\ LensServe(l)
         /\ HasLists(l.signature) => k.listMode /\ k.tilingMode
         /\ k.tilingMode => k.data = Copied(k, l, t) /\ k.used = t.used /\ TilingEnds(l, t)
         /\ ~k.tilingMode => /\ k.host = HostOf(ConstInfos(l.signature), t)
                             /\ k.constOffset = t.constOffset /\ TilingEnds(l, t)
         /\ k.argsSize <= OFFSETS
  <1>1. /\ l \in Launches /\ Supported(l.signature) /\ k.argsSize <= OFFSETS /\ TilingKept(k)
        /\ HasLists(l.signature) =>
             /\ k.listMode /\ k.tilingMode
             /\ k.size - k.constOffset = InfoBytes(ConstInfos(l.signature))
             /\ l.lens = {"out"} => Sizes(l.signature, "in") = << >>
    BY DEF Works
  <1>2. LensServe(l) /\ (HasLists(l.signature) => k.listMode /\ k.tilingMode)
    BY <1>1 DEF LensServe
  <1>3. CASE k.tilingMode
    <2>1. ~Untiled(k.data)
      BY <1>1, <1>3 DEF TilingKept, Untiled
    <2>2. k.data = Copied(k, l, t) /\ k.used = t.used /\ k.constOffset = t.constOffset /\ k.size = t.size
      BY <1>3, <2>1 DEF Ready
    <2>3. TilingEnds(l, t)
      BY <1>1, <2>2 DEF TilingEnds, ConstBytes
    <2> QED
      BY <1>1, <1>2, <1>3, <2>2, <2>3
  <1>4. CASE ~k.tilingMode
    <2>1. ~Untiled(k.host)
      BY <1>1, <1>4 DEF TilingKept, Untiled
    <2>2. k.host = HostOf(ConstInfos(l.signature), t) /\ k.constOffset = t.constOffset
      BY <1>4, <2>1 DEF Ready
    <2>3. TilingEnds(l, t)
      BY <1>2, <1>4 DEF TilingEnds
    <2> QED
      BY <1>1, <1>2, <1>4, <2>2, <2>3
  <1> QED
    BY <1>3, <1>4

TilingData(k, n) ==
  IF k.tilingMode THEN DataAt(Kept(k, n), POINTER * n % OFFSETS) ELSE <<"tiling">>

LEMMA DataIs ==
  ASSUME NEW k, NEW l, Works(k, l), NEW t \in Tilings, Ready(k, l, t)
  PROVE  /\ TilingData(k, ArgsNum(k, l)) = <<"tiling">>
         /\ \A i \in 1 .. Len(k.infos) : InfoData(k, ArgsNum(k, l), i) = k.infos[i].what
  <1> DEFINE n == ArgsNum(k, l)
             sizes == InfoSizes(k.infos)
  <1>1. DescribedBy(k, l) /\ Unfit(ConstInfos(l.signature), t) = {} /\ k.argsSize = ArgsSize(k, l, t)
    BY DEF Ready
  <1>4. /\ l \in Launches /\ Supported(l.signature) /\ LensServe(l)
        /\ HasLists(l.signature) => k.listMode /\ k.tilingMode
        /\ k.tilingMode => k.data = Copied(k, l, t) /\ k.used = t.used /\ TilingEnds(l, t)
        /\ ~k.tilingMode => /\ k.host = HostOf(ConstInfos(l.signature), t)
                            /\ k.constOffset = t.constOffset
        /\ k.argsSize <= OFFSETS
    BY KeptWorks
  <1>2. CASE k.tilingMode
    <2> DEFINE base == POINTER * n
               at == base + AlignedSize(t.used)
               end == ArgsSize(k, l, t)
               pieces == Copied(k, l, t)
    <2>1. TilingEnds(l, t)
      BY <1>2, <1>4
    <2>2. /\ Inside(pieces, base, end) /\ end \in Int
          /\ base \in Nat /\ base < end /\ DataAt(pieces, base) = <<"tiling">>
          /\ \A i \in 1 .. Len(k.infos) :
               /\ at + Before(sizes, i) \in Nat /\ at + Before(sizes, i) < end
               /\ DataAt(pieces, at + Before(sizes, i)) = k.infos[i].what
      BY <1>1, <1>2, <1>4, <2>1, CopiedServes
    <2>3. k.data = pieces /\ k.used = t.used /\ k.argsSize = end /\ k.argsSize <= OFFSETS
      BY <1>1, <1>2, <1>4
    <2> HIDE DEF pieces, end
    <2>4. Kept(k, n) = k.data
      BY <2>2, <2>3 DEF Kept, Inside
    <2>5. \A o \in Nat : o < end => o % OFFSETS = o
      <3> SUFFICES ASSUME NEW o \in Nat, o < end
                   PROVE  o % OFFSETS = o
        OBVIOUS
      <3>1. o < OFFSETS
        <4>1. OFFSETS \in Int
          BY DEF OFFSETS
        <4> QED
          BY <2>2, <2>3, <4>1
      <3> QED
        BY <3>1 DEF OFFSETS
    <2>6. TilingData(k, n) = <<"tiling">>
      <3>1. base % OFFSETS = base
        BY <2>2, <2>5
      <3>2. TilingData(k, n) = DataAt(Kept(k, n), base % OFFSETS)
        BY <1>2 DEF TilingData
      <3> QED
        BY <2>2, <2>3, <2>4, <3>1, <3>2
    <2>7. \A i \in 1 .. Len(k.infos) : InfoData(k, n, i) = k.infos[i].what
      <3> TAKE i \in 1 .. Len(k.infos)
      <3>1. InfoOffset(k, n, i) = at + Before(sizes, i)
        BY <1>2, <2>3 DEF InfoOffset
      <3>2. (at + Before(sizes, i)) % OFFSETS = at + Before(sizes, i)
        BY <2>2, <2>5
      <3>3. InfoData(k, n, i) = DataAt(Kept(k, n), InfoOffset(k, n, i) % OFFSETS)
        BY <1>2 DEF InfoData
      <3> QED
        BY <2>2, <2>3, <2>4, <3>1, <3>2, <3>3
    <2> QED
      BY <2>6, <2>7
  <1>3. CASE ~k.tilingMode
    <2>1. ~HasLists(l.signature)
      BY <1>3, <1>4
    <2>2. \A i \in 1 .. Len(k.infos) :
            DataAt(k.host, k.constOffset + Before(sizes, i)) = k.infos[i].what
      <3> DEFINE host == HostOf(ConstInfos(l.signature), t)
      <3>1. \A i \in 1 .. Len(k.infos) :
              DataAt(host, t.constOffset + Before(sizes, i)) = k.infos[i].what
        BY <1>1, <1>4, <2>1, HostServes
      <3>2. k.host = host /\ k.constOffset = t.constOffset
        BY <1>3, <1>4
      <3> QED
        BY <3>1, <3>2
    <2>3. \A i : InfoData(k, n, i) = DataAt(k.host, k.constOffset + Before(sizes, i))
      BY <1>3 DEF InfoData, InfoOffset
    <2>4. TilingData(k, n) = <<"tiling">>
      BY <1>3 DEF TilingData
    <2> QED
      BY <1>3, <2>2, <2>3, <2>4
  <1> QED
    BY <1>2, <1>3

-----------------------------------------------------------------------------
(* The rank of a place is the number of places up to it.                    *)
LEMMA RankCounts ==
  ASSUME NEW n \in Nat, NEW C, C \subseteq Nat \ {0}, NEW i \in 0 .. n
  PROVE  Cardinality({j \in C : j <= i}) = Ranks(C, n)[i]
  <1> DEFINE R == Ranks(C, n)
             upTo(h) == {j \in C : j <= h}
             Good == {h \in 0 .. n : IsFiniteSet(upTo(h)) /\ Cardinality(upTo(h)) = R[h]}
  <1>1. /\ R \in [0 .. n -> Nat] /\ R[0] = 0
        /\ \A h \in 1 .. n : R[h] = R[h - 1] + (IF h \in C THEN 1 ELSE 0)
    BY RankUp
  <1> HIDE DEF R
  <1> \A j \in C : j \in Nat /\ j # 0
    OBVIOUS
  <1>2. 0 \in Good
    <2>1. upTo(0) = {}
      <3>1. \A j \in C : ~(j <= 0)
        OBVIOUS
      <3> QED
        BY <3>1
    <2>2. IsFiniteSet({}) /\ Cardinality({}) = 0 /\ 0 \in 0 .. n
      BY FS_EmptySet
    <2> HIDE DEF upTo
    <2> QED
      BY <1>1, <2>1, <2>2
  <1>3. ASSUME NEW h \in 0 .. n - 1, h \in Good
        PROVE  h + 1 \in Good
    <2> DEFINE g == h + 1
    <2>1. g \in 1 .. n /\ g \in 0 .. n /\ g - 1 = h /\ h \in 0 .. n
      OBVIOUS
    <2>2. R[g] = R[h] + (IF g \in C THEN 1 ELSE 0) /\ R[h] \in Nat
      BY <1>1, <2>1
    <2>3. IsFiniteSet(upTo(h)) /\ Cardinality(upTo(h)) = R[h]
      BY <1>3
    <2>4. g \notin upTo(h)
      OBVIOUS
    <2>5. \A j \in C : j <= g <=> j <= h \/ j = g
      OBVIOUS
    <2>6. g \in C => upTo(g) = upTo(h) \cup {g}
      <3> HIDE DEF g
      <3> QED
        BY <2>5
    <2>7. g \notin C => upTo(g) = upTo(h)
      <3> HIDE DEF g
      <3> QED
        BY <2>5
    <2>8. IsFiniteSet(upTo(h) \cup {g}) /\ Cardinality(upTo(h) \cup {g}) = R[h] + 1
      <3> HIDE DEF upTo, g
      <3> QED
        BY <2>3, <2>4, FS_AddElement
    <2> HIDE DEF g, upTo
    <2>9. IsFiniteSet(upTo(g)) /\ Cardinality(upTo(g)) = R[g]
      <3>1. CASE g \in C
        <4>1. upTo(g) = upTo(h) \cup {g} /\ R[g] = R[h] + 1
          BY <2>2, <2>6, <3>1
        <4> QED
          BY <2>8, <4>1, Zenon
      <3>2. CASE g \notin C
        <4>1. upTo(g) = upTo(h) /\ R[g] = R[h]
          BY <2>2, <2>7, <3>2
        <4> QED
          BY <2>3, <4>1, Zenon
      <3> QED
        BY <3>1, <3>2
    <2> QED
      BY <2>1, <2>9 DEF g
  <1>4. 0 .. n \subseteq Good
    <2> HIDE DEF Good
    <2> QED
      BY <1>2, <1>3, CountedUp, Zenon
  <1>5. i \in Good
    BY <1>4
  <1> QED
    BY <1>5 DEF R

LEMMA LastOf ==
  ASSUME NEW n \in Nat, NEW A, A \subseteq 1 .. n, A # {}
  PROVE  \E i \in A : \A h \in A : h <= i
  <1> DEFINE Above == {j \in 0 .. n : \A h \in A : h <= j}
  <1>1. n \in Above /\ Above \subseteq Nat
    OBVIOUS
  <1>2. PICK j \in Above : \A g \in Above : ~(<<g, j>> \in OpToRel(<, Nat))
    <2> HIDE DEF Above
    <2> QED
      BY <1>1, NatLessThanWellFounded, WFMin
  <1>3. j \in 0 .. n /\ \A h \in A : h <= j
    OBVIOUS
  <1>4. CASE j \in A
    BY <1>3, <1>4
  <1>5. CASE j \notin A
    <2>1. \A h \in A : h \in 1 .. n /\ h <= j - 1
      BY <1>3, <1>5
    <2>2. j # 0
      <3>1. PICK h \in A : TRUE
        OBVIOUS
      <3>2. h \in 1 .. n /\ h <= j
        BY <1>3
      <3> QED
        BY <3>2
    <2>3. j - 1 \in Above /\ j - 1 \in Nat /\ j \in Nat /\ j - 1 < j
      BY <1>3, <2>1, <2>2
    <2> QED
      BY <1>2, <2>3 DEF OpToRel
  <1> QED
    BY <1>4, <1>5

(* What Run puts into the slots before the items.                           *)
InSlot(k, j) == {i \in DOMAIN k.infos : k.infos[i].slot = j - 1}

Taken(k, n) ==
  [j \in 1 .. n |->
     IF InSlot(k, j) # {}
     THEN InfoData(k, n, CHOOSE i \in InSlot(k, j) : \A h \in InSlot(k, j) : h <= i)
     ELSE IF j - 1 = k.hwsync THEN <<"hwsync">> ELSE NULL]

TakenPlaces(s) == InfosPlaces(s) \cup Of(s, "hwsync")

LEMMA TakenIs ==
  ASSUME NEW k, NEW l, Works(k, l), NEW t \in Tilings, Ready(k, l, t),
         NEW j \in 1 .. Len(l.signature) + 1
  PROVE  Taken(k, ArgsNum(k, l))[j] =
           IF j \in TakenPlaces(l.signature) THEN Asked(l.signature)[j] ELSE NULL
  <1> DEFINE s == l.signature
             n == ArgsNum(k, l)
             at == InSlot(k, j)
             P == InfosPlaces(s)
             A == Asked(s)
  <1> l \in Launches /\ Supported(l.signature) /\ LensServe(l)
    BY KeptWorks
  <1>1. s \in SignatureSet
    BY LensAre
  <1>2. DescribedBy(k, l)
    BY DEF Ready
  <1>3. n = Len(s) + 1 /\ Len(s) \in Nat
    BY <1>1, <1>2, ArgsNumAre, SignatureIs
  <1>4. Brings(k.infos, s, P)
    BY <1>2, InfosBring
  <1>5. DOMAIN k.infos = 1 .. Len(k.infos) /\ Len(k.infos) \in Nat
    BY <1>4, BringsSolid
  <1>6. \A i \in 1 .. Len(k.infos) : InfoData(k, n, i) = k.infos[i].what
    BY DataIs
  <1>7. \A p \in P : p \in 1 .. Len(s)
    <2>1. \A kind : \A p \in Of(s, kind) : p \in 1 .. Len(s)
      BY <1>1, OfIs, Zenon
    <2> QED
      BY <2>1 DEF InfosPlaces, ListsOf
  <1>8. k.hwsync = HwsyncOf(s)
    BY <1>2 DEF DescribedBy
  <1>9. j - 1 = HwsyncOf(s) <=> j \in Of(s, "hwsync")
    BY <1>1, HwsyncIs
  <1>10. Taken(k, n)[j] =
           IF at # {} THEN InfoData(k, n, CHOOSE i \in at : \A h \in at : h <= i)
           ELSE IF j - 1 = k.hwsync THEN <<"hwsync">> ELSE NULL
    BY <1>3 DEF Taken
  <1>11. \A i \in at : i \in 1 .. Len(k.infos) /\ k.infos[i].slot = j - 1
    BY <1>5 DEF InSlot
  <1>12. \A i \in at : j \in P /\ k.infos[i].what = A[j]
    <2> SUFFICES ASSUME NEW i \in at
                 PROVE  j \in P /\ k.infos[i].what = A[j]
      OBVIOUS
    <2>1. PICK p \in P : InfoFits(s, k.infos[i], p)
      BY <1>4, <1>11 DEF Brings
    <2>2. p - 1 = j - 1 /\ k.infos[i].what = A[p]
      BY <1>11, <2>1 DEF InfoFits
    <2>3. p = j
      BY <1>3, <1>7, <2>1, <2>2
    <2> QED
      BY <2>1, <2>2, <2>3
  <1>13. j \in P => at # {}
    <2> SUFFICES ASSUME j \in P
                 PROVE  at # {}
      OBVIOUS
    <2>1. PICK h \in 1 .. Len(k.infos) : k.infos[h].slot = j - 1
      BY <1>4 DEF Brings
    <2> QED
      BY <1>5, <2>1 DEF InSlot
  <1>14. at \subseteq 1 .. Len(k.infos)
    BY <1>11
  <1> HIDE DEF at, A, P, n
  <1>15. CASE at # {}
    <2> DEFINE last == CHOOSE i \in at : \A h \in at : h <= i
    <2>1. last \in at
      <3>1. \E i \in at : \A h \in at : h <= i
        BY <1>5, <1>14, <1>15, LastOf
      <3> QED
        BY <3>1
    <2> HIDE DEF last
    <2>2. Taken(k, n)[j] = InfoData(k, n, last)
      BY <1>10, <1>15 DEF last
    <2>3. Taken(k, n)[j] = A[j] /\ j \in P
      BY <1>6, <1>11, <1>12, <2>1, <2>2
    <2> QED
      BY <2>3 DEF TakenPlaces, P, A, n
  <1>16. CASE at = {}
    <2>1. j \notin P
      BY <1>13, <1>16
    <2>2. Taken(k, n)[j] = IF j \in Of(s, "hwsync") THEN <<"hwsync">> ELSE NULL
      BY <1>8, <1>9, <1>10, <1>16
    <2>3. j \in Of(s, "hwsync") => A[j] = <<"hwsync">>
      BY <1>1, AskedAt DEF A
    <2> QED
      BY <2>1, <2>2, <2>3 DEF TakenPlaces, P, A, n
  <1> QED
    BY <1>15, <1>16

(* What is asked for in these slots is something.                           *)
LEMMA TakenHere ==
  ASSUME NEW s \in SignatureSet, NEW j \in TakenPlaces(s)
  PROVE  Asked(s)[j] # NULL /\ j \in 1 .. Len(s)
  <1>1. \A kind : \A p \in Of(s, kind) : p \in 1 .. Len(s)
    BY OfIs, Zenon
  <1>2. \/ j \in Of(s, "in") \/ j \in Of(s, "out") \/ j \in Of(s, "const") \/ j \in Of(s, "hwsync")
    BY DEF TakenPlaces, InfosPlaces, ListsOf
  <1>3. ASSUME NEW kind \in {"in", "out"}, NEW b, NEW c
        PROVE  <<kind, b, c>> # <<"null">>
    OBVIOUS
  <1>4. ASSUME NEW b
        PROVE  <<"const", b>> # <<"null">>
    OBVIOUS
  <1>5. CASE j \in Of(s, "in")
    BY <1>1, <1>3, <1>5, AskedAt DEF OperandAt, NULL
  <1>6. CASE j \in Of(s, "out")
    BY <1>1, <1>3, <1>6, AskedAt DEF OperandAt, NULL
  <1>7. CASE j \in Of(s, "const")
    BY <1>1, <1>4, <1>7, AskedAt DEF ConstAt, NULL
  <1>8. CASE j \in Of(s, "hwsync")
    BY <1>1, <1>8, AskedAt DEF NULL
  <1> QED
    BY <1>2, <1>5, <1>6, <1>7, <1>8

(* The slots left for tensors and workspaces, and their order.              *)
FreePlaces(s) == (PlainsOf(s, "in") \cup PlainsOf(s, "out")) \cup Of(s, "ws")

LEMMA PlacesSplit ==
  ASSUME NEW s \in SignatureSet
  PROVE  /\ \A p \in 1 .. Len(s) : p \in FreePlaces(s) <=> p \notin TakenPlaces(s)
         /\ FreePlaces(s) \subseteq 1 .. Len(s)
  <1>1. \A kind : \A p : p \in Of(s, kind) <=> p \in 1 .. Len(s) /\ s[p].kind = kind
    BY OfIs, Zenon
  <1>2. \A p \in 1 .. Len(s) : s[p].kind \in Kinds /\ s[p].n \in Nat
    BY SignatureIs
  <1>3. \A p : p \in FreePlaces(s) <=>
          /\ p \in 1 .. Len(s)
          /\ \/ s[p].kind = "in" /\ s[p].n = 0
             \/ s[p].kind = "out" /\ s[p].n = 0
             \/ s[p].kind = "ws"
    BY <1>1 DEF FreePlaces, PlainsOf
  <1>4. \A p : p \in TakenPlaces(s) <=>
          /\ p \in 1 .. Len(s)
          /\ \/ s[p].kind = "in" /\ s[p].n > 0
             \/ s[p].kind = "out" /\ s[p].n > 0
             \/ s[p].kind = "const"
             \/ s[p].kind = "hwsync"
    BY <1>1 DEF TakenPlaces, InfosPlaces, ListsOf
  <1>5. \A p \in 1 .. Len(s) : (s[p].n = 0 <=> ~(s[p].n > 0)) /\ s[p].kind \in {"in", "out", "const", "hwsync", "ws"}
    BY <1>2 DEF Kinds
  <1>6. ASSUME NEW p \in 1 .. Len(s)
        PROVE  p \in FreePlaces(s) <=> p \notin TakenPlaces(s)
    <2>1. CASE s[p].kind = "in"
      BY <1>3, <1>4, <1>5, <2>1
    <2>2. CASE s[p].kind = "out"
      BY <1>3, <1>4, <1>5, <2>2
    <2>3. CASE s[p].kind = "const"
      BY <1>3, <1>4, <2>3
    <2>4. CASE s[p].kind = "hwsync"
      BY <1>3, <1>4, <2>4
    <2>5. CASE s[p].kind = "ws"
      BY <1>3, <1>4, <2>5
    <2> QED
      BY <1>5, <2>1, <2>2, <2>3, <2>4, <2>5
  <1> QED
    BY <1>3, <1>6

LEMMA FreeRanks ==
  ASSUME NEW s \in SignatureSet, Supported(s)
  PROVE  LET N == Len(s)
             A == Ranks(PlainsOf(s, "in"), N)
             B == Ranks(PlainsOf(s, "out"), N)
             W == RankOf(s, "ws")
             F == Ranks(FreePlaces(s), N)
         IN  /\ \A p \in PlainsOf(s, "in") : F[p] = A[p]
             /\ \A p \in PlainsOf(s, "out") : F[p] = A[N] + B[p]
             /\ \A p \in Of(s, "ws") : F[p] = A[N] + B[N] + W[p]
  <1> DEFINE N == Len(s)
             C == PlainsOf(s, "in")
             D == PlainsOf(s, "out")
             E == Of(s, "ws")
             A == Ranks(C, N)
             B == Ranks(D, N)
             W == Ranks(E, N)
             F == Ranks(FreePlaces(s), N)
  <1>1. N \in Nat
    BY SignatureIs
  <1>2. \A kind : \A p : p \in Of(s, kind) <=> p \in 1 .. N /\ s[p].kind = kind
    BY OfIs, Zenon
  <1>3. /\ \A p : p \in C => p \in 1 .. N /\ s[p].kind = "in"
        /\ \A p : p \in D => p \in 1 .. N /\ s[p].kind = "out"
        /\ \A p : p \in E => p \in 1 .. N /\ s[p].kind = "ws"
    BY <1>2 DEF PlainsOf
  <1>4. FreePlaces(s) = (C \cup D) \cup E
    BY DEF FreePlaces
  <1>5. \A i, j \in 1 .. N :
          /\ s[i].kind = "out" /\ s[j].kind = "in" => j < i
          /\ s[i].kind = "ws" /\ s[j].kind \in {"in", "out"} => j < i
    BY SupportedIs
  <1>6. W = RankOf(s, "ws")
    BY DEF RankOf
  <1> HIDE DEF N, C, D, E
  <1>7. \A p \in 0 .. N : F[p] = A[p] + B[p] + W[p]
    <2> TAKE p \in 0 .. N
    <2>1. PICK CD : CD = C \cup D
      OBVIOUS
    <2>2. Ranks(CD, N)[p] = A[p] + B[p]
      <3>1. \A i \in 1 .. N : ~(i \in C /\ i \in D)
        BY <1>3
      <3> QED
        BY <1>1, <2>1, <3>1, RankJoined
    <2>3. \A i \in 1 .. N : ~(i \in CD /\ i \in E)
      BY <1>3, <2>1
    <2>4. Ranks(FreePlaces(s), N)[p] = Ranks(CD, N)[p] + Ranks(E, N)[p]
      <3>1. FreePlaces(s) = CD \cup E
        BY <1>4, <2>1
      <3> HIDE DEF A, B, W, F
      <3> QED
        BY <1>1, <2>3, <3>1, RankJoined
    <2> QED
      BY <2>2, <2>4
  <1>8. \A p \in 0 .. N : A[p] \in Nat /\ B[p] \in Nat /\ W[p] \in Nat
    <2>1. A \in [0 .. N -> Nat] /\ B \in [0 .. N -> Nat] /\ W \in [0 .. N -> Nat]
      BY <1>1, RankUp
    <2> QED
      BY <2>1
  <1>9. ASSUME NEW p \in C
        PROVE  F[p] = A[p]
    <2>1. p \in 1 .. N /\ p \in 0 .. N /\ s[p].kind = "in"
      BY <1>1, <1>3
    <2>2. \A h \in D : h \in 1 .. N => p < h
      BY <1>3, <1>5, <2>1
    <2>3. \A h \in E : h \in 1 .. N => p < h
      BY <1>3, <1>5, <2>1
    <2>4. B[p] = 0 /\ W[p] = 0
      BY <1>1, <2>1, <2>2, <2>3, RankBefore
    <2>5. A[p] \in Nat /\ F[p] = A[p] + B[p] + W[p]
      BY <1>7, <1>8, <2>1
    <2> HIDE DEF A, B, W, F
    <2> QED
      BY <2>4, <2>5
  <1>10. ASSUME NEW p \in D
         PROVE  F[p] = A[N] + B[p]
    <2>1. p \in 1 .. N /\ p \in 0 .. N /\ s[p].kind = "out"
      BY <1>1, <1>3
    <2>2. \A h \in C : h \in 1 .. N => h <= p
      <3> SUFFICES ASSUME NEW h \in C
                   PROVE  h <= p
        OBVIOUS
      <3>1. h \in 1 .. N /\ h < p
        BY <1>3, <1>5, <2>1
      <3> QED
        BY <2>1, <3>1
    <2>3. \A h \in E : h \in 1 .. N => p < h
      BY <1>3, <1>5, <2>1
    <2>4. A[p] = A[N]
      BY <1>1, <2>1, <2>2, RankBehind
    <2>5. W[p] = 0
      BY <1>1, <2>1, <2>3, RankBefore
    <2>6. A[p] \in Nat /\ B[p] \in Nat /\ F[p] = A[p] + B[p] + W[p]
      BY <1>7, <1>8, <2>1
    <2> HIDE DEF A, B, W, F
    <2> QED
      BY <2>4, <2>5, <2>6
  <1>11. ASSUME NEW p \in E
         PROVE  F[p] = A[N] + B[N] + W[p]
    <2>1. p \in 1 .. N /\ p \in 0 .. N /\ s[p].kind = "ws"
      BY <1>1, <1>3
    <2>2. \A h \in C \cup D : h \in 1 .. N => h <= p
      <3> SUFFICES ASSUME NEW h \in C \cup D
                   PROVE  h <= p
        OBVIOUS
      <3>1. h \in 1 .. N /\ h < p
        BY <1>3, <1>5, <2>1
      <3> QED
        BY <2>1, <3>1
    <2>3. A[p] = A[N] /\ B[p] = B[N]
      <3>1. \A h \in C : h \in 1 .. N => h <= p
        BY <2>2
      <3>2. \A h \in D : h \in 1 .. N => h <= p
        BY <2>2
      <3> QED
        BY <1>1, <2>1, <3>1, <3>2, RankBehind
    <2>4. F[p] = A[p] + B[p] + W[p]
      BY <1>7, <2>1
    <2> HIDE DEF A, B, W, F
    <2> QED
      BY <2>3, <2>4
  <1> HIDE DEF A, B, F
  <1> QED
    BY <1>6, <1>9, <1>10, <1>11, Zenon DEF A, B, F, C, D, E, N

LEMMA JoinedAre ==
  ASSUME NEW S, NEW a \in Seq(S), NEW b \in Seq(S)
  PROVE  /\ a \o b \in Seq(S) /\ Len(a) \in Nat /\ Len(b) \in Nat /\ Len(a \o b) = Len(a) + Len(b)
         /\ \A i \in 1 .. Len(a) : (a \o b)[i] = a[i]
         /\ \A i \in 1 .. Len(b) : (a \o b)[Len(a) + i] = b[i]
  OBVIOUS

LEMMA WithinSum ==
  ASSUME NEW a \in Nat, NEW b \in Nat, NEW c \in Nat, NEW v \in 1 .. b
  PROVE  a + v \in 1 .. a + b + c /\ a + v \in 1 .. a + b
  OBVIOUS

(* Each free slot has its item.                                             *)
LEMMA ItemsHave ==
  ASSUME NEW s \in SignatureSet, Supported(s), NEW k, k.scratch = Sizes(s, "ws"),
         NEW p \in FreePlaces(s)
  PROVE  LET r == Ranks(FreePlaces(s), Len(s))[p]
             z == ItemsOf(s) \o Workspaces(k)
         IN  r \in 1 .. Len(z) /\ z[r] = Asked(s)[p]
  <1> DEFINE N == Len(s)
             C == PlainsOf(s, "in")
             D == PlainsOf(s, "out")
             A == Ranks(C, N)
             B == Ranks(D, N)
             W == RankOf(s, "ws")
             r == Ranks(FreePlaces(s), N)[p]
             x == Plain(Sizes(s, "in"), "in")
             y == Plain(Sizes(s, "out"), "out")
             w == Workspaces(k)
             q == Sizes(s, "ws")
             item(i) == <<"ws", Before(q, i)>>
  <1>1. /\ \A i \in C : r = A[i] \/ i # p
        /\ \A i \in D : r = A[N] + B[i] \/ i # p
        /\ \A i \in Of(s, "ws") : r = A[N] + B[N] + W[i] \/ i # p
    BY FreeRanks
  <1>2. /\ Len(x) = A[N] /\ Len(x) \in Nat /\ x \in Seq(Values(x, Len(x)))
        /\ \A i \in C : A[i] \in 1 .. Len(x) /\ x[A[i]] = OperandAt(s, "in", i)
    BY PlainHas
  <1>3. /\ Len(y) = B[N] /\ Len(y) \in Nat /\ y \in Seq(Values(y, Len(y)))
        /\ \A i \in D : B[i] \in 1 .. Len(y) /\ y[B[i]] = OperandAt(s, "out", i)
    BY PlainHas
  <1>4. q \in Seq(Nat) /\ \A i \in Of(s, "ws") : W[i] \in 1 .. Len(q)
    BY SizesHave
  <1>5. w = [i \in DOMAIN q |-> item(i)]
    BY DEF Workspaces
  <1>6. \A i \in Of(s, "ws") : item(W[i]) = ScratchAt(s, i)
    BY DEF ScratchAt
  <1>7. /\ \A i \in C : Asked(s)[i] = OperandAt(s, "in", i)
        /\ \A i \in D : Asked(s)[i] = OperandAt(s, "out", i)
        /\ \A i \in Of(s, "ws") : Asked(s)[i] = ScratchAt(s, i)
    BY AskedAt DEF PlainsOf
  <1>8. p \in C \/ p \in D \/ p \in Of(s, "ws")
    BY DEF FreePlaces
  <1>9. ItemsOf(s) = x \o y
    BY DEF ItemsOf
  <1> HIDE DEF N, C, D, A, B, W, r, x, y, w, q, item
  <1>10. /\ w \in Seq({item(i) : i \in 1 .. Len(q)}) /\ Len(w) = Len(q) /\ Len(q) \in Nat
         /\ \A i \in 1 .. Len(q) : w[i] = item(i)
    BY <1>4, <1>5
  <1> DEFINE S == (Values(x, Len(x)) \cup Values(y, Len(y))) \cup {item(i) : i \in 1 .. Len(q)}
             z == (x \o y) \o w
  <1>11. x \in Seq(S) /\ y \in Seq(S) /\ w \in Seq(S)
    BY <1>2, <1>3, <1>10
  <1> HIDE DEF S
  <1>12. /\ Len(z) = Len(x) + Len(y) + Len(w)
         /\ \A i \in 1 .. Len(x) : z[i] = x[i]
         /\ \A i \in 1 .. Len(y) : z[Len(x) + i] = y[i]
         /\ \A i \in 1 .. Len(w) : z[Len(x) + Len(y) + i] = w[i]
    <2> DEFINE xy == x \o y
    <2>1. /\ xy \in Seq(S) /\ Len(xy) = Len(x) + Len(y)
          /\ \A i \in 1 .. Len(x) : xy[i] = x[i]
          /\ \A i \in 1 .. Len(y) : xy[Len(x) + i] = y[i]
      BY <1>11
    <2>2. /\ \A i \in 1 .. Len(x) : i \in 1 .. Len(x) + Len(y)
          /\ \A i \in 1 .. Len(y) : Len(x) + i \in 1 .. Len(x) + Len(y)
      BY <1>2, <1>3
    <2> HIDE DEF xy
    <2>3. /\ Len(xy \o w) = Len(xy) + Len(w)
          /\ \A i \in 1 .. Len(xy) : (xy \o w)[i] = xy[i]
          /\ \A i \in 1 .. Len(w) : (xy \o w)[Len(xy) + i] = w[i]
      <3>1. xy \in Seq(S) /\ w \in Seq(S)
        BY <1>11, <2>1
      <3> QED
        BY <3>1
    <2>4. z = xy \o w
      BY DEF xy
    <2> HIDE DEF z
    <2> QED
      BY <2>1, <2>2, <2>3, <2>4
  <1> HIDE DEF z
  <1>13. CASE p \in C
    <2>1. r \in 1 .. Len(x) /\ z[r] = x[r] /\ x[r] = Asked(s)[p]
      BY <1>1, <1>2, <1>7, <1>12, <1>13
    <2>2. r \in 1 .. Len(z)
      BY <1>2, <1>3, <1>10, <1>12, <2>1
    <2> QED
      BY <1>9, <2>1, <2>2 DEF r, z, w, N
  <1>14. CASE p \in D
    <2>1. r = Len(x) + B[p] /\ B[p] \in 1 .. Len(y) /\ y[B[p]] = Asked(s)[p]
      BY <1>1, <1>2, <1>3, <1>7, <1>14
    <2>2. r \in 1 .. Len(z) /\ z[r] = y[B[p]]
      <3>1. Len(x) + B[p] \in 1 .. Len(x) + Len(y) + Len(w)
        <4>1. Len(x) \in Nat /\ Len(y) \in Nat /\ Len(w) \in Nat
          BY <1>2, <1>3, <1>10
        <4> QED
          BY <2>1, <4>1, WithinSum, Zenon
      <3> QED
        BY <1>12, <2>1, <3>1, Zenon
    <2> QED
      BY <1>9, <2>1, <2>2 DEF r, z, w, N
  <1>15. CASE p \in Of(s, "ws")
    <2>1. r = Len(x) + Len(y) + W[p] /\ W[p] \in 1 .. Len(w) /\ w[W[p]] = Asked(s)[p]
      BY <1>1, <1>2, <1>3, <1>4, <1>6, <1>7, <1>10, <1>15
    <2>2. r \in 1 .. Len(z) /\ z[r] = w[W[p]]
      <3>1. (Len(x) + Len(y)) + W[p] \in 1 .. (Len(x) + Len(y)) + Len(w)
        <4>1. Len(x) + Len(y) \in Nat /\ Len(w) \in Nat
          BY <1>2, <1>3, <1>10
        <4> DEFINE m == Len(x) + Len(y)
        <4>2. m \in Nat /\ 0 \in Nat
          BY <4>1
        <4> HIDE DEF m
        <4>3. m + W[p] \in 1 .. m + Len(w)
          BY <2>1, <4>1, <4>2, WithinSum, Zenon
        <4> QED
          BY <4>3 DEF m
      <3> QED
        BY <1>12, <2>1, <3>1, Zenon
    <2> QED
      BY <1>9, <2>1, <2>2 DEF r, z, w, N
  <1> QED
    BY <1>8, <1>13, <1>14, <1>15

LEMMA FillIs ==
  ASSUME NEW s \in SignatureSet, Supported(s), NEW k, k.scratch = Sizes(s, "ws"), NEW T,
         DOMAIN T = 1 .. Len(s) + 1,
         \A j \in 1 .. Len(s) + 1 : T[j] = IF j \in TakenPlaces(s) THEN Asked(s)[j] ELSE NULL
  PROVE  LET filled == Fill(T, ItemsOf(s) \o Workspaces(k))
         IN  /\ filled = [i \in 1 .. Len(s) + 1 |-> filled[i]]
             /\ \A p \in 1 .. Len(s) : filled[p] = Asked(s)[p]
  <1> DEFINE N == Len(s)
             z == ItemsOf(s) \o Workspaces(k)
             free == {i \in DOMAIN T : T[i] = NULL}
             upTo(i) == {j \in free : j <= i}
             rank(i) == Cardinality(upTo(i))
             slot(i) == IF i \in free /\ rank(i) <= Len(z) THEN z[rank(i)] ELSE T[i]
  <1>1. N \in Nat
    BY SignatureIs
  <1>2. Fill(T, z) = [i \in 1 .. N + 1 |-> slot(i)]
    BY DEF Fill
  <1>3. \A p \in TakenPlaces(s) : Asked(s)[p] # NULL /\ p \in 1 .. N
    BY TakenHere
  <1>4. /\ \A p \in 1 .. N : p \in FreePlaces(s) <=> p \notin TakenPlaces(s)
        /\ FreePlaces(s) \subseteq 1 .. N
    BY PlacesSplit
  <1>5. \A p \in FreePlaces(s) :
          /\ Ranks(FreePlaces(s), N)[p] \in 1 .. Len(z)
          /\ z[Ranks(FreePlaces(s), N)[p]] = Asked(s)[p]
    BY ItemsHave
  <1> HIDE DEF N, z, slot
  <1>6. \A j : j \in free <=> j \in FreePlaces(s) \/ j = N + 1
    <2>1. \A j \in 1 .. N + 1 : T[j] = IF j \in TakenPlaces(s) THEN Asked(s)[j] ELSE NULL
      BY DEF N
    <2>2. DOMAIN T = 1 .. N + 1
      BY DEF N
    <2>3. \A j \in 1 .. N + 1 : j \in 1 .. N \/ j = N + 1
      BY <1>1
    <2>4. \A j \in 1 .. N : j \in 1 .. N + 1 /\ j # N + 1
      BY <1>1
    <2>5. N + 1 \in 1 .. N + 1 /\ N + 1 \notin 1 .. N
      BY <1>1
    <2>6. \A j \in 1 .. N + 1 : T[j] = NULL <=> j \notin TakenPlaces(s)
      BY <1>3, <2>1
    <2> QED
      BY <1>3, <1>4, <2>2, <2>3, <2>4, <2>5, <2>6
  <1> HIDE DEF free
  <1>7. ASSUME NEW p \in 1 .. N
        PROVE  slot(p) = Asked(s)[p]
    <2>1. CASE p \in FreePlaces(s)
      <3> DEFINE g == Ranks(FreePlaces(s), N)[p]
      <3>1. upTo(p) = {j \in FreePlaces(s) : j <= p}
        <4>1. ~(N + 1 <= p)
          BY <1>1
        <4> QED
          BY <1>6, <4>1
      <3>2. rank(p) = g
        <4>1. FreePlaces(s) \subseteq Nat \ {0} /\ p \in 0 .. N
          BY <1>1, <1>4
        <4>2. Cardinality({j \in FreePlaces(s) : j <= p}) = Ranks(FreePlaces(s), N)[p]
          BY <1>1, <4>1, RankCounts, Zenon
        <4> QED
          BY <3>1, <4>2
      <3>3. g \in 1 .. Len(z) /\ z[g] = Asked(s)[p]
        BY <1>5, <2>1
      <3> HIDE DEF g, rank
      <3>4. g <= Len(z)
        BY <3>3
      <3> QED
        BY <1>6, <2>1, <3>2, <3>3, <3>4 DEF slot
    <2>2. CASE p \notin FreePlaces(s)
      <3>1. p # N + 1 /\ p \in 1 .. N + 1
        BY <1>1
      <3>2. p \notin free /\ p \in TakenPlaces(s)
        BY <1>4, <1>6, <2>2, <3>1
      <3>3. slot(p) = T[p]
        BY <3>2 DEF slot
      <3>4. T[p] = Asked(s)[p]
        BY <3>1, <3>2 DEF N
      <3> QED
        BY <3>3, <3>4
    <2> QED
      BY <2>1, <2>2
  <1>8. \A p \in 1 .. N : p \in 1 .. N + 1
    BY <1>1
  <1>9. Fill(T, z) = [i \in 1 .. N + 1 |-> Fill(T, z)[i]] /\ \A p \in 1 .. N + 1 : Fill(T, z)[p] = slot(p)
    BY <1>2
  <1>10. \A p \in 1 .. N : Fill(T, z)[p] = Asked(s)[p]
    BY <1>7, <1>8, <1>9
  <1> QED
    BY <1>9, <1>10 DEF N, z

(* The parameters of a launch are those its signature asks for.             *)
LEMMA ParamsAre ==
  ASSUME NEW k, NEW l, Works(k, l), NEW t \in Tilings, Ready(k, l, t)
  PROVE  Params(k, l) = Asked(l.signature)
  <1> DEFINE s == l.signature
             N == Len(s)
             n == ArgsNum(k, l)
             T == Taken(k, n)
             filled == Fill(T, Items(k, l))
             A == Asked(s)
  <1> l \in Launches /\ Supported(l.signature) /\ LensServe(l)
    BY KeptWorks
  <1>1. s \in SignatureSet /\ Supported(s)
    BY LensAre
  <1>2. DescribedBy(k, l) /\ (HasLists(s) => k.listMode)
    BY KeptWorks DEF Ready
  <1>3. n = N + 1 /\ N \in Nat
    BY <1>1, <1>2, ArgsNumAre, SignatureIs
  <1>4. Params(k, l) = [filled EXCEPT ![n] = TilingData(k, n)]
    BY DEF Params, Taken, InSlot, TilingData
  <1>5. TilingData(k, n) = <<"tiling">>
    BY DataIs
  <1>6. Items(k, l) = ItemsOf(s) \o Workspaces(k)
    BY <1>2, ItemsAre
  <1>7. DOMAIN T = 1 .. N + 1 /\ \A j \in 1 .. N + 1 : T[j] = IF j \in TakenPlaces(s) THEN A[j] ELSE NULL
    <2>1. \A j \in 1 .. N + 1 : T[j] = IF j \in TakenPlaces(s) THEN A[j] ELSE NULL
      BY TakenIs
    <2>2. DOMAIN T = 1 .. n
      BY DEF Taken
    <2> QED
      BY <1>3, <2>1, <2>2
  <1>8. k.scratch = Sizes(s, "ws")
    BY <1>2 DEF DescribedBy
  <1>9. A = [i \in 1 .. N + 1 |-> A[i]] /\ A[N + 1] = <<"tiling">>
    BY <1>1, AskedIs
  <1> HIDE DEF s, n, T, A
  <1>10. filled = [i \in 1 .. N + 1 |-> filled[i]] /\ \A p \in 1 .. N : filled[p] = A[p]
    <2> DEFINE z == ItemsOf(s) \o Workspaces(k)
    <2>1. Fill(T, z) = [i \in 1 .. N + 1 |-> Fill(T, z)[i]] /\ \A p \in 1 .. N : Fill(T, z)[p] = A[p]
      BY <1>1, <1>7, <1>8, FillIs DEF A
    <2> QED
      BY <1>6, <2>1
  <1> HIDE DEF filled, N
  <1>11. \A i \in 1 .. N + 1 : i \in 1 .. N \/ i = N + 1
    BY <1>3
  <1>12. [filled EXCEPT ![N + 1] = <<"tiling">>] = [i \in 1 .. N + 1 |-> A[i]]
    <2> DEFINE g == [filled EXCEPT ![N + 1] = <<"tiling">>]
    <2>1. DOMAIN filled = 1 .. N + 1
      BY <1>10
    <2>2. g = [i \in 1 .. N + 1 |-> IF i = N + 1 THEN <<"tiling">> ELSE filled[i]]
      BY <2>1
    <2>3. \A i \in 1 .. N + 1 : (IF i = N + 1 THEN <<"tiling">> ELSE filled[i]) = A[i]
      BY <1>9, <1>10, <1>11
    <2> QED
      BY <2>2, <2>3
  <1> QED
    BY <1>3, <1>4, <1>5, <1>9, <1>12 DEF s, A

-----------------------------------------------------------------------------
(* What an initialised kernel has described and laid out is what its        *)
(* caller's launch asks for, with some tiling, or has lost the tiling.      *)
ReadyFor(k, l) == k.initFlag => l \in Launches /\ \E t \in Tilings : Ready(k, l, t)

ParamsInv == DOMAIN kernel = Fields /\ ReadyFor(kernel, launch)

LEMMA ReadySame ==
  ASSUME NEW k, NEW r, NEW l, NEW t, Ready(k, l, t),
         r.infos = k.infos, r.scratch = k.scratch, r.hwsync = k.hwsync, r.argsSize = k.argsSize,
         r.tilingMode = k.tilingMode, r.used = k.used, r.host = k.host, r.size = k.size,
         r.constOffset = k.constOffset,
         k.tilingMode => r.data = k.data \/ Untiled(r.data)
  PROVE  Ready(r, l, t)
  <1>1. ArgsNum(r, l) = ArgsNum(k, l)
    BY ArgsNumSame
  <1>2. Copied(r, l, t) = Copied(k, l, t) /\ ArgsSize(r, l, t) = ArgsSize(k, l, t)
    BY <1>1 DEF Copied, ArgsSize
  <1>3. DescribedBy(r, l)
    BY DEF Ready, DescribedBy
  <1> QED
    BY <1>2, <1>3 DEF Ready

LEMMA SizeHolds ==
  ASSUME NEW l \in Launches, Supported(l.signature), LensServe(l), NEW k, DescribedBy(k, l),
         NEW t \in Tilings, Unfit(ConstInfos(l.signature), t) = {}, TilingEnds(l, t)
  PROVE  ArgsSize(k, l, t) \in Int /\ POINTER * ArgsNum(k, l) <= ArgsSize(k, l, t)
  <1>1. CASE k.tilingMode
    <2> DEFINE base == POINTER * ArgsNum(k, l)
               end == ArgsSize(k, l, t)
    <2>1. base \in Nat /\ base < end /\ end \in Int
      BY <1>1, CopiedServes
    <2> HIDE DEF base, end
    <2>2. base <= end
      BY <2>1
    <2> QED
      BY <2>1, <2>2 DEF base, end
  <1>2. CASE ~k.tilingMode
    <2>1. ArgsNum(k, l) \in Nat
      <3>1. ArgsNum(k, l) = Len(l.signature) + 1
        BY ArgsNumAre
      <3>2. Len(l.signature) \in Nat
        BY LensAre, SignatureIs
      <3> QED
        BY <3>1, <3>2
    <2>2. ArgsSize(k, l, t) = POINTER * ArgsNum(k, l) + 0
      BY <1>2 DEF ArgsSize
    <2>3. POINTER * ArgsNum(k, l) \in Nat
      BY <2>1 DEF POINTER
    <2> QED
      BY <2>2, <2>3
  <1> QED
    BY <1>1, <1>2

LEMMA InitMakesReady ==
  ASSUME ParamsInv, NEW l \in Launches, NEW t \in Tilings, InitLaunch(l, t)
  PROVE  ParamsInv'
  <1> DEFINE consts == ConstInfos(l.signature)
             lists == TensorListInfos(l)
             d == Described(l, t, consts)
             k == [d EXCEPT !.infos = consts \o lists]
             size == ArgsSize(k, l, t)
             data == Copied(k, l, t)
             r == [k EXCEPT !.initFlag = TRUE, !.argsSize = size, !.data = data]
             host == HostOf(consts, t)
  <1>1. /\ DOMAIN d = Fields /\ d.initFlag = FALSE
        /\ d.scratch = Sizes(l.signature, "ws") /\ d.hwsync = HwsyncOf(l.signature)
        /\ d.tilingMode = kernel.tilingMode
        /\ d.used = t.used /\ d.constOffset = t.constOffset /\ d.size = t.size /\ d.host = host
    <2>1. DOMAIN kernel = Fields
      BY DEF ParamsInv
    <2>2. DOMAIN d = Fields
      BY <2>1, Zenon DEF Described
    <2>3. d.initFlag = FALSE /\ d.tilingMode = kernel.tilingMode
      BY <2>1 DEF Described, Fields
    <2>4. d.scratch = Sizes(l.signature, "ws")
      BY <2>1 DEF Described, Fields
    <2>5. d.hwsync = HwsyncOf(l.signature)
      BY <2>1 DEF Described, Fields, HwsyncOf
    <2>6. d.used = t.used /\ d.constOffset = t.constOffset /\ d.size = t.size
      BY <2>1 DEF Described, Fields
    <2>7. d.host = host
      BY <2>1 DEF Described, Fields
    <2> QED
      BY <2>2, <2>3, <2>4, <2>5, <2>6, <2>7, Zenon
  <1>2. /\ kernel' = (IF size > MAX_ARGS_SIZE THEN k ELSE r) /\ launch' = l
        /\ Unfit(consts, t) = {}
    BY DEF InitLaunch
  <1> HIDE DEF d, host, size, data
  <1>3. /\ DOMAIN k = Fields /\ k.initFlag = FALSE /\ k.infos = consts \o lists
        /\ k.scratch = d.scratch /\ k.hwsync = d.hwsync /\ k.tilingMode = d.tilingMode
        /\ k.used = d.used /\ k.constOffset = d.constOffset /\ k.size = d.size /\ k.host = d.host
    BY <1>1 DEF Fields
  <1> HIDE DEF k
  <1>4. /\ DOMAIN r = Fields /\ r.argsSize = size /\ r.data = data /\ r.tilingMode = k.tilingMode
        /\ r.infos = k.infos /\ r.scratch = k.scratch /\ r.hwsync = k.hwsync
        /\ r.used = k.used /\ r.constOffset = k.constOffset /\ r.size = k.size
        /\ r.host = k.host
    BY <1>3 DEF Fields
  <1> HIDE DEF r
  <1>5. DescribedBy(r, l) /\ ArgsNum(r, l) = ArgsNum(k, l)
    BY <1>1, <1>3, <1>4, ArgsNumSame DEF DescribedBy
  <1>6. Copied(r, l, t) = data /\ ArgsSize(r, l, t) = size
    BY <1>4, <1>5 DEF Copied, ArgsSize, data, size
  <1>7. Ready(r, l, t)
    <2>1. r.host = HostOf(consts, t) /\ r.constOffset = t.constOffset /\ r.used = t.used /\ r.size = t.size
      BY <1>1, <1>3, <1>4, Zenon DEF host
    <2>2. r.data = Copied(r, l, t) /\ r.argsSize = ArgsSize(r, l, t)
      BY <1>4, <1>6
    <2> QED
      BY <1>2, <1>5, <2>1, <2>2, Zenon DEF Ready
  <1>8. ReadyFor(k, l) /\ ReadyFor(r, l)
    BY <1>3, <1>7, Zenon DEF ReadyFor
  <1>9. (kernel' = k \/ kernel' = r) /\ launch' = l
    BY <1>2
  <1> QED
    BY <1>3, <1>4, <1>8, <1>9 DEF ParamsInv

(* Nothing but the tiling is called that.                                   *)
LEMMA NoOtherTiling ==
  ASSUME NEW l, l.signature \in Signatures, NEW at
  PROVE  Untiled(LaidOut(ConstInfos(l.signature), at)) /\ Untiled(LaidOut(TensorListInfos(l), at))
  <1> DEFINE s == l.signature
  <1>1. \A b : <<"const", b>> # <<"tiling">>
    OBVIOUS
  <1>2. \A a, b, c : <<a, b, c>> # <<"tiling">>
    OBVIOUS
  <1>3. Untiled(LaidOut(ConstInfos(s), at))
    <2>1. \A c \in DOMAIN ConstInfos(s) : ConstInfos(s)[c].what = <<"const", c>>
      BY DEF ConstInfos
    <2>2. \A d \in LaidOut(ConstInfos(s), at) : \E c \in DOMAIN ConstInfos(s) : d.what = ConstInfos(s)[c].what
      BY DEF LaidOut, Piece
    <2> SUFFICES ASSUME NEW d \in LaidOut(ConstInfos(s), at) PROVE d.what # <<"tiling">>
      BY Zenon DEF Untiled
    <2>3. PICK c \in DOMAIN ConstInfos(s) : d.what = ConstInfos(s)[c].what
      BY <2>2, Zenon
    <2>4. d.what = <<"const", c>>
      BY <2>1, <2>3, Zenon
    <2> QED
      BY <1>1, <2>4, Zenon
  <1>4. ASSUME NEW kind, NEW off
        PROVE  \E S : /\ ListInfos(Lens(l, kind), kind, off) \in Seq(S)
                      /\ \A e \in S : e.what # <<"tiling">>
    <2> DEFINE lens == Lens(l, kind)
               n == Len(lens)
               what(i) == <<kind, Before(TensorsOf(lens), i), lens[i]>>
               slot(i) == i - 1 + off
               size(i) == ListBytes(lens[i])
               info(i) == [what |-> what(i), slot |-> slot(i), size |-> size(i), bytes |-> size(i)]
               all == [i \in 1 .. n |-> info(i)]
               S == {info(i) : i \in 1 .. n}
    <2>1. lens \in Seq(Nat)
      BY DescriptionIs
    <2>2. n \in Nat /\ DOMAIN lens = 1 .. n
      <3> HIDE DEF lens
      <3> QED
        BY <2>1
    <2>3. ListInfos(lens, kind, off) = Picked(all, ListsIn(lens))
      BY <2>2 DEF ListInfos
    <2>4. \A i \in 1 .. n : info(i).what = what(i) /\ what(i) # <<"tiling">>
      BY <1>2
    <2> HIDE DEF info
    <2>5. \A e \in S : e.what # <<"tiling">>
      BY <2>4
    <2>6. all \in Seq(S)
      <3> HIDE DEF n
      <3> QED
        BY <2>2
    <2> HIDE DEF all, S, lens
    <2>7. Picked(all, ListsIn(lens)) \in Seq(S)
      BY <2>6, PickedIn, Zenon
    <2> QED
      BY <2>3, <2>5, <2>7, Zenon DEF lens
  <1>5. Untiled(LaidOut(TensorListInfos(l), at))
    <2> DEFINE x == ListInfos(Lens(l, "in"), "in", 0)
               y == ListInfos(Lens(l, "out"), "out", Len(Lens(l, "in")))
    <2>1. PICK S : x \in Seq(S) /\ \A e \in S : e.what # <<"tiling">>
      BY <1>4, Zenon
    <2>2. PICK R : y \in Seq(R) /\ \A e \in R : e.what # <<"tiling">>
      BY <1>4, Zenon
    <2>3. TensorListInfos(l) = x \o y
      BY DEF TensorListInfos
    <2> HIDE DEF x, y
    <2>4. PICK Q : Q = S \cup R
      OBVIOUS
    <2>5. \A e \in Q : e.what # <<"tiling">>
      BY <2>1, <2>2, <2>4
    <2>6. x \in Seq(Q) /\ y \in Seq(Q)
      BY <2>1, <2>2, <2>4
    <2>7. TensorListInfos(l) \in Seq(Q)
      BY <2>3, <2>6
    <2>8. \A i \in DOMAIN TensorListInfos(l) : TensorListInfos(l)[i] \in Q
      BY <2>7
    <2>9. \A d \in LaidOut(TensorListInfos(l), at) :
            \E i \in DOMAIN TensorListInfos(l) : d.what = TensorListInfos(l)[i].what
      BY DEF LaidOut, Piece
    <2> QED
      BY <2>5, <2>8, <2>9, Zenon DEF Untiled
  <1> QED
    BY <1>3, <1>5

(* A Run of however many arguments leaves all of the data, or clears the    *)
(* tiling with them.                                                        *)
LEMMA KeptOrCleared ==
  ASSUME NEW k, NEW l, l.signature \in Signatures, NEW t \in Tilings, Ready(k, l, t),
         NEW n \in Int
  PROVE  k.tilingMode => Kept(k, n) = k.data \/ Untiled(Kept(k, n))
  <1> SUFFICES ASSUME k.tilingMode
               PROVE  Kept(k, n) = k.data \/ Untiled(Kept(k, n))
    OBVIOUS
  <1>1. Kept(k, n) \subseteq k.data
    BY DEF Kept
  <1>2. CASE Untiled(k.data)
    BY <1>1, <1>2 DEF Untiled
  <1>3. CASE k.data = Copied(k, l, t)
    <2> DEFINE base == POINTER * ArgsNum(k, l)
               A == base + AlignedSize(t.used)
               B == A + ConstBytes(t)
               tilingPiece == Piece(<<"tiling">>, base, t.used)
               to == POINTER * n
    <2>1. ArgsNum(k, l) \in Int
      <3>1. Infos(ConstInfos(l.signature)) /\ Infos(TensorListInfos(l)) /\ Sizes(l.signature, "ws") \in Seq(Nat)
        BY DescriptionIs
      <3>2. k.infos = ConstInfos(l.signature) \o TensorListInfos(l) /\ k.scratch = Sizes(l.signature, "ws")
        BY DEF Ready, DescribedBy
      <3>3. Infos(k.infos)
        BY <3>1, <3>2, InfosJoined
      <3>4. Len(k.infos) \in Nat
        BY <3>3, InfosSized, Zenon
      <3>5. Len(k.scratch) \in Nat
        BY <3>1, <3>2
      <3> QED
        BY <3>4, <3>5, ArgsNumIs
    <2>2. base \in Int /\ to \in Int
      BY <2>1 DEF POINTER
    <2>3. Inside(Copied(k, l, t), base, ArgsSize(k, l, t))
      <3>1. Unfit(ConstInfos(l.signature), t) = {}
        BY DEF Ready
      <3> QED
        BY <2>1, <3>1, CopiedWithin
    <2>4. Copied(k, l, t) = ({tilingPiece} \cup LaidOut(ConstInfos(l.signature), A)) \cup LaidOut(TensorListInfos(l), B)
      BY DEF Copied
    <2>5. tilingPiece.at = base
      BY DEF Piece
    <2>6. Untiled(LaidOut(ConstInfos(l.signature), A)) /\ Untiled(LaidOut(TensorListInfos(l), B))
      BY NoOtherTiling, Zenon
    <2>7. Kept(k, n) = {d \in k.data : d.at >= to}
      BY DEF Kept
    <2> HIDE DEF base, to, A, B, tilingPiece
    <2>8. CASE to <= base
      <3>1. \A d \in k.data : d.at \in Int /\ base <= d.at
        BY <1>3, <2>3 DEF Inside
      <3>2. \A d \in k.data : d.at >= to
        BY <2>2, <2>8, <3>1
      <3> QED
        BY <2>7, <3>2
    <2>9. CASE ~(to <= base)
      <3>1. tilingPiece \notin Kept(k, n)
        BY <2>2, <2>5, <2>7, <2>9
      <3>2. \A d \in Kept(k, n) : d \in LaidOut(ConstInfos(l.signature), A) \/ d \in LaidOut(TensorListInfos(l), B)
        BY <1>1, <1>3, <2>4, <3>1
      <3> QED
        BY <2>6, <3>2 DEF Untiled
    <2> QED
      BY <2>8, <2>9
  <1> QED
    BY <1>2, <1>3 DEF Ready

(* A launch and a copy of it that work ask for the same.                    *)
LEMMA CopyReady ==
  ASSUME NEW k, NEW l \in Launches, CopyOf(l) \in Launches, NEW t, Ready(k, l, t)
  PROVE  Ready(k, CopyOf(l), t) /\ CopyOf(l).signature = l.signature
  <1> DEFINE c == CopyOf(l)
             s == l.signature
  <1>1. c.signature = s /\ c.lens = {}
    <2>1. l \in [signature : Signatures, lens : SUBSET {"in", "out"}]
      BY DEF Launches
    <2> QED
      BY <2>1 DEF CopyOf
  <1>2. s \in SignatureSet
    BY LensAre
  <1>3. ~HasLists(s)
    <2>1. \A kind \in {"in", "out"} :
            (\E i \in DOMAIN c.signature : c.signature[i].kind = kind /\ c.signature[i].n > 0) => kind \in c.lens
      BY DEF Launches
    <2> QED
      BY <1>1, <2>1 DEF HasLists
  <1> HIDE DEF c
  <1>4. c \in Launches
    BY DEF c
  <1>5. ASSUME NEW m \in Launches, m.signature = s
        PROVE  /\ TensorListInfos(m) = << >>
               /\ Len(Operands(m, "in")) = Len(Sizes(s, "in")) /\ Len(Operands(m, "out")) = Len(Sizes(s, "out"))
               /\ ListCount(Lens(m, "in")) = 0 /\ ListCount(Lens(m, "out")) = 0
    <2> DEFINE off == Len(Lens(m, "in"))
    <2>1. \A kind \in {"in", "out"} : Zeros(Sizes(s, kind)) /\ Sizes(s, kind) \in Seq(Nat)
      BY <1>2, <1>3, NoListsZero, SizesHave
    <2>2. /\ Zeros(Sizes(s, "in")) /\ Sizes(s, "in") \in Seq(Nat)
          /\ Zeros(Sizes(s, "out")) /\ Sizes(s, "out") \in Seq(Nat)
      BY <2>1
    <2> HIDE DEF off, s
    <2>3. /\ ListInfos(Sizes(s, "in"), "in", 0) = << >> /\ ListCount(Sizes(s, "in")) = 0
          /\ ListInfos(Sizes(s, "out"), "out", off) = << >> /\ ListCount(Sizes(s, "out")) = 0
      BY <2>2, NoListsIn
    <2>4. /\ ListInfos(Lens(m, "in"), "in", 0) = << >> /\ ListCount(Lens(m, "in")) = 0
          /\ ListInfos(Lens(m, "out"), "out", off) = << >> /\ ListCount(Lens(m, "out")) = 0
      BY <1>5, <2>3, ListsAre
    <2>5. TensorListInfos(m) = << >> \o << >>
      BY <2>4 DEF TensorListInfos, off
    <2>6. TensorListInfos(m) = << >>
      BY <2>5
    <2>7. Operands(m, "in") = Sizes(s, "in") /\ Operands(m, "out") = Sizes(s, "out")
      BY <1>5, OperandsAre
    <2> QED
      BY <2>4, <2>6, <2>7
  <1>6. /\ TensorListInfos(c) = TensorListInfos(l)
        /\ Len(Operands(c, "in")) = Len(Operands(l, "in"))
        /\ Len(Operands(c, "out")) = Len(Operands(l, "out"))
        /\ ListCount(Lens(c, "in")) = ListCount(Lens(l, "in"))
        /\ ListCount(Lens(c, "out")) = ListCount(Lens(l, "out"))
    BY <1>1, <1>4, <1>5
  <1>7. ArgsNum(k, c) = ArgsNum(k, l)
    BY <1>6 DEF ArgsNum
  <1>8. Copied(k, c, t) = Copied(k, l, t) /\ ArgsSize(k, c, t) = ArgsSize(k, l, t)
    BY <1>1, <1>6, <1>7 DEF Copied, ArgsSize, ListsBytes
  <1>9. DescribedBy(k, c)
    BY <1>1, <1>6 DEF Ready, DescribedBy
  <1>10. Ready(k, c, t)
    BY <1>1, <1>8, <1>9 DEF Ready
  <1> QED
    BY <1>1, <1>10 DEF c

LEMMA RunGivesParams ==
  ASSUME ParamsInv, NEW l \in {launch, CopyOf(launch)}, Works(kernel, l), RunLaunch(l)
  PROVE  launched' = Asked(l.signature)
  <1>1. kernel.initFlag /\ l \in Launches
    BY DEF Works
  <1>2. launch \in Launches
    BY <1>1 DEF ParamsInv, ReadyFor
  <1>3. PICK t \in Tilings : Ready(kernel, launch, t)
    BY <1>1 DEF ParamsInv, ReadyFor
  <1>4. Ready(kernel, l, t)
    BY <1>1, <1>2, <1>3, CopyReady
  <1>5. Params(kernel, l) = Asked(l.signature)
    BY <1>4, ParamsAre
  <1>6. POINTER * ArgsNum(kernel, l) <= kernel.argsSize
    <2>1. /\ DescribedBy(kernel, l) /\ Unfit(ConstInfos(l.signature), t) = {}
          /\ kernel.argsSize = ArgsSize(kernel, l, t)
      BY <1>4 DEF Ready
    <2>2. l \in Launches /\ Supported(l.signature) /\ LensServe(l) /\ TilingEnds(l, t)
      BY <1>4, KeptWorks
    <2> QED
      BY <2>1, <2>2, SizeHolds
  <1> QED
    BY <1>5, <1>6 DEF RunLaunch

LEMMA RunKeepsReady ==
  ASSUME ParamsInv, NEW l \in {launch, CopyOf(launch)}, RunLaunch(l)
  PROVE  ParamsInv'
  <1> DEFINE n == ArgsNum(kernel, l)
             r == [kernel EXCEPT !.data = Kept(kernel, n)]
  <1>1. launch' = launch /\ (kernel' = r \/ kernel' = kernel) /\ launch \in Launches
    BY DEF RunLaunch
  <1>2. CASE ~kernel.initFlag
    <2>1. DOMAIN r = Fields /\ r.initFlag = kernel.initFlag
      BY DEF ParamsInv, Fields
    <2> HIDE DEF r
    <2> QED
      BY <1>1, <1>2, <2>1 DEF ParamsInv, ReadyFor
  <1>3. CASE kernel.initFlag
    <2>1. PICK t \in Tilings : Ready(kernel, launch, t)
      BY <1>3 DEF ParamsInv, ReadyFor
    <2>2. launch.signature \in Signatures
      BY <1>1, LensAre
    <2>3. l.signature = launch.signature
      <3>1. launch \in [signature : Signatures, lens : SUBSET {"in", "out"}]
        BY <1>1 DEF Launches
      <3> QED
        BY <3>1 DEF CopyOf
    <2>4. n \in Int
      <3>1. /\ Infos(ConstInfos(launch.signature)) /\ Infos(TensorListInfos(launch))
            /\ Sizes(launch.signature, "ws") \in Seq(Nat)
        BY <2>2, DescriptionIs
      <3>2. /\ kernel.infos = ConstInfos(launch.signature) \o TensorListInfos(launch)
            /\ kernel.scratch = Sizes(launch.signature, "ws")
        BY <2>1 DEF Ready, DescribedBy
      <3>3. Infos(kernel.infos)
        BY <3>1, <3>2, InfosJoined
      <3>4. Len(kernel.infos) \in Nat
        BY <3>3, InfosSized, Zenon
      <3>5. Len(kernel.scratch) \in Nat
        BY <3>1, <3>2
      <3> QED
        BY <2>2, <2>3, <3>4, <3>5, ArgsNumIs
    <2> HIDE DEF n
    <2>5. kernel.tilingMode => Kept(kernel, n) = kernel.data \/ Untiled(Kept(kernel, n))
      BY <2>1, <2>2, <2>4, KeptOrCleared
    <2>6. /\ DOMAIN r = Fields /\ r.initFlag = kernel.initFlag /\ r.data = Kept(kernel, n)
          /\ r.infos = kernel.infos /\ r.scratch = kernel.scratch /\ r.hwsync = kernel.hwsync
          /\ r.argsSize = kernel.argsSize /\ r.tilingMode = kernel.tilingMode
          /\ r.used = kernel.used /\ r.host = kernel.host /\ r.constOffset = kernel.constOffset
          /\ r.size = kernel.size
      BY DEF ParamsInv, Fields
    <2> HIDE DEF r
    <2>7. Ready(r, launch, t)
      BY <2>1, <2>5, <2>6, ReadySame
    <2>8. ReadyFor(r, launch)
      BY <1>1, <2>7 DEF ReadyFor
    <2> QED
      BY <1>1, <2>6, <2>8 DEF ParamsInv
  <1> QED
    BY <1>2, <1>3

LEMMA ParamsInvStep ==
  ASSUME ParamsInv, [ArgsNext]_argsVars
  PROVE  ParamsInv'
  <1>1. ASSUME NEW l \in Launches, NEW t \in Tilings, InitLaunch(l, t)
        PROVE  ParamsInv'
    BY <1>1, InitMakesReady
  <1>2. ASSUME NEW l \in Launches, NEW t \in Tilings, InitFails(l, t)
        PROVE  ParamsInv'
    <2>1. PICK consts : kernel' = Described(l, t, consts)
      BY <1>2 DEF InitFails
    <2>2. DOMAIN kernel' = Fields /\ kernel'.initFlag = FALSE
      BY <2>1 DEF Described, ParamsInv, Fields
    <2> QED
      BY <2>2 DEF ParamsInv, ReadyFor
  <1>3. CASE Clone
    <2>1. launch' = launch
      BY <1>3 DEF Clone
    <2>2. CASE kernel.initFlag
      <3> DEFINE kept == IF kernel.tilingMode THEN kernel.data ELSE {}
                 r == [kernel EXCEPT !.listMode = FALSE, !.data = kept]
      <3>1. kernel' = r
        BY <1>3, <2>2 DEF Clone
      <3>2. kernel.tilingMode => kept = kernel.data
        OBVIOUS
      <3> HIDE DEF kept
      <3>3. /\ DOMAIN r = Fields /\ r.data = kept /\ r.argsSize = kernel.argsSize
            /\ r.infos = kernel.infos /\ r.scratch = kernel.scratch /\ r.hwsync = kernel.hwsync
            /\ r.tilingMode = kernel.tilingMode /\ r.used = kernel.used /\ r.host = kernel.host
            /\ r.constOffset = kernel.constOffset /\ r.size = kernel.size
        BY DEF ParamsInv, Fields
      <3> HIDE DEF r
      <3>4. launch \in Launches
        BY <2>2 DEF ParamsInv, ReadyFor
      <3>5. PICK t \in Tilings : Ready(kernel, launch, t)
        BY <2>2 DEF ParamsInv, ReadyFor
      <3>6. Ready(r, launch, t)
        BY <3>2, <3>3, <3>5, ReadySame
      <3>7. ReadyFor(r, launch)
        BY <3>4, <3>6 DEF ReadyFor
      <3> QED
        BY <2>1, <3>1, <3>3, <3>7 DEF ParamsInv
    <2>3. CASE ~kernel.initFlag
      <3>1. DOMAIN kernel' = Fields /\ kernel'.initFlag = FALSE
        BY <1>3, <2>3, NewKernelFields DEF Clone, Fields
      <3> QED
        BY <3>1 DEF ParamsInv, ReadyFor
    <2> QED
      BY <2>2, <2>3
  <1>4. ASSUME NEW flag \in BOOLEAN, SetLaunchWithTiling(flag)
        PROVE  ParamsInv'
    <2>1. DOMAIN kernel' = Fields /\ kernel'.initFlag = FALSE
      BY <1>4 DEF SetLaunchWithTiling, WithoutTiling, ParamsInv, Fields
    <2> QED
      BY <2>1 DEF ParamsInv, ReadyFor
  <1>5. ASSUME NEW u \in Tilings, SetTilingHostAddr(u.size)
        PROVE  ParamsInv'
    <2>1. /\ DOMAIN kernel' = Fields /\ kernel'.initFlag = kernel.initFlag
          /\ kernel'.host = {} /\ kernel'.argsSize = kernel.argsSize
          /\ kernel'.infos = kernel.infos /\ kernel'.scratch = kernel.scratch
          /\ kernel'.hwsync = kernel.hwsync /\ kernel'.tilingMode = kernel.tilingMode
          /\ ~kernel.tilingMode /\ launch' = launch
      BY <1>5 DEF SetTilingHostAddr, ParamsInv, Fields
    <2>2. CASE kernel.initFlag
      <3>1. launch \in Launches
        BY <2>2 DEF ParamsInv, ReadyFor
      <3>2. PICK t \in Tilings : Ready(kernel, launch, t)
        BY <2>2 DEF ParamsInv, ReadyFor
      <3>3. ArgsNum(kernel', launch) = ArgsNum(kernel, launch)
        BY <2>1 DEF ArgsNum
      <3>4. ArgsSize(kernel', launch, t) = ArgsSize(kernel, launch, t)
        BY <2>1, <3>3 DEF ArgsSize
      <3>5. Untiled(kernel'.host)
        BY <2>1 DEF Untiled
      <3>6. Ready(kernel', launch, t)
        BY <2>1, <3>2, <3>4, <3>5 DEF Ready, DescribedBy
      <3> QED
        BY <2>1, <3>1, <3>6 DEF ParamsInv, ReadyFor
    <2>3. CASE ~kernel.initFlag
      BY <2>1, <2>3 DEF ParamsInv, ReadyFor
    <2> QED
      BY <2>2, <2>3
  <1>6. CASE Reset
    <2>1. DOMAIN kernel' = Fields /\ kernel'.initFlag = FALSE
      BY <1>6 DEF Reset, WithoutTiling, ParamsInv, Fields
    <2> QED
      BY <2>1 DEF ParamsInv, ReadyFor
  <1>7. ASSUME NEW l \in {launch, CopyOf(launch)}, RunLaunch(l)
        PROVE  ParamsInv'
    BY <1>7, RunKeepsReady
  <1>8. CASE UNCHANGED argsVars
    BY <1>8 DEF argsVars, ParamsInv, ReadyFor
  <1> QED
    BY <1>1, <1>2, <1>3, <1>4, <1>5, <1>6, <1>7, <1>8 DEF ArgsNext

(* Whenever KernelBase::Run launches a kernel in a use that works, the      *)
(* device function gets exactly the parameters it declares, whatever calls  *)
(* have come before, of Init, failed or not, Run with the launch or a copy, *)
(* clones, resets, changes of the mode and other tilings, and for any       *)
(* signatures, tilings and numbers and sizes of tensors, lists, const       *)
(* tensors and workspaces.  The uses that work are named by Works, and what *)
(* it takes of a kernel the code leaves to its callers.                     *)
THEOREM ParamsAreAsDeclared == ArgsSpec => RunsAsDeclared
  <1>1. ArgsInit => ParamsInv
    BY NewKernelFields DEF ArgsInit, ParamsInv, ReadyFor
  <1>2. ParamsInv /\ [ArgsNext]_argsVars => ParamsInv'
    BY ParamsInvStep
  <1>3. ParamsInv /\ [ArgsNext]_argsVars =>
          [\A l \in {launch, CopyOf(launch)} :
             Works(kernel, l) /\ RunLaunch(l) => launched' = Asked(l.signature)]_argsVars
    BY RunGivesParams
  <1> QED
    BY <1>1, <1>2, <1>3, PTL DEF ArgsSpec, RunsAsDeclared

-----------------------------------------------------------------------------
(* The calls the tiling can serve: no more tensors than it has room for,    *)
(* each an argument, and of sizes that fit into its integers.               *)
Served ==
  \A c \in Calls :
    /\ Len(c.sizes) <= MEMSET_MAX_TENSOR_NUM /\ Len(c.sizes) <= c.argsNum
    /\ \A t \in DOMAIN c.sizes : Aligned(c.sizes[t]) < Word

(* How many bytes of its part of tensor t core b has passed.                *)
Passed(b, t) ==
  IF cores[b].idx > t THEN tiling.sizeBlock[t]
  ELSE IF cores[b].idx = t THEN cores[b].i ELSE 0

PartZeroed(b, t) ==
  \A x \in 0 .. tiling.size[t] - 1 :
    tiling.sizeBlock[t] * b <= x /\ x < tiling.sizeBlock[t] * b + Passed(b, t)
      => x \in zeroed[t]

(* What a tiling must be: tensors up to their last block, and parts that    *)
(* together are at least as large.                                          *)
Covers(td, c) ==
  /\ td.blockDim \in Nat
  /\ \A t \in DOMAIN c.sizes :
       /\ td.size[t] \in 0 .. Word - 1 /\ c.sizes[t] <= td.size[t]
       /\ td.sizeBlock[t] \in Nat /\ td.sizeLoop[t] \in Nat
       /\ td.size[t] <= td.sizeBlock[t] * td.blockDim

CallInv ==
  /\ device \in Devices
  /\ call \in Calls \cup {NoCall} /\ (pc # "idle" => call \in Calls)
  /\ zeroed \in [DOMAIN call.sizes -> SUBSET Int]

DeviceInv ==
  pc = "device" =>
    /\ Covers(tiling, call)
    /\ cores \in [0 .. tiling.blockDim - 1 -> [idx : 1 .. MEMSET_MAX_TENSOR_NUM + 1, i : 0 .. Word - 1]]
    /\ \A t \in DOMAIN call.sizes, b \in DOMAIN cores : PartZeroed(b, t)

MInv == CallInv /\ DeviceInv /\ AllZeroed

-----------------------------------------------------------------------------
(* Division, rounded up.                                                    *)
LEMMA CeilDivIs ==
  ASSUME NEW a \in Nat, NEW b \in Nat \ {0}
  PROVE  CeilDiv(a, b) \in Nat /\ a <= CeilDiv(a, b) * b /\ CeilDiv(a, b) * b < a + b
  BY DEF CeilDiv

(* It is the least number of pieces of size b that hold a.                  *)
LEMMA CeilDivLeast ==
  ASSUME NEW a \in Nat, NEW b \in Nat \ {0}, NEW n \in Nat, a <= n * b
  PROVE  CeilDiv(a, b) <= n
  <1> DEFINE q == CeilDiv(a, b)
  <1>1. q \in Nat /\ q * b < a + b
    BY CeilDivIs
  <1> HIDE DEF q
  <1>2. q * b < (n + 1) * b
    BY <1>1
  <1>3. q < n + 1
    BY <1>1, <1>2
  <1> QED
    BY <1>1, <1>3 DEF q

(* Whole blocks hold what is rounded up to them.                            *)
LEMMA AlignedIs ==
  ASSUME NEW n \in Nat
  PROVE  Aligned(n) \in Nat /\ n <= Aligned(n)
  <1> DEFINE q == CeilDiv(n, BLOCK_BYTES)
  <1>1. BLOCK_BYTES \in Nat \ {0}
    BY MemsetAssumption
  <1>2. q \in Nat /\ n <= q * BLOCK_BYTES
    BY <1>1, CeilDivIs
  <1> HIDE DEF q
  <1>3. q * BLOCK_BYTES \in Nat
    BY <1>1, <1>2
  <1> QED
    BY <1>2, <1>3 DEF Aligned, q

(* What is no more than whole blocks is not more when it is rounded up.     *)
LEMMA AlignedWithin ==
  ASSUME NEW n \in Nat, NEW m \in Nat, n <= Aligned(m)
  PROVE  Aligned(n) <= Aligned(m)
  <1>1. CeilDiv(m, BLOCK_BYTES) \in Nat /\ CeilDiv(n, BLOCK_BYTES) \in Nat
    BY CeilDivIs, MemsetAssumption
  <1>2. CeilDiv(n, BLOCK_BYTES) <= CeilDiv(m, BLOCK_BYTES)
    BY <1>1, CeilDivLeast, MemsetAssumption DEF Aligned
  <1> QED
    BY <1>1, <1>2, MemsetAssumption DEF Aligned

(* A number that fits into the tiling's integers is stored as it is.        *)
LEMMA Small ==
  ASSUME NEW x \in Nat, x < Word
  PROVE  x % Word = x
  BY MemsetAssumption

(* The greatest of a bounded set of numbers.                                *)
LEMMA MaxOf ==
  ASSUME NEW S \in SUBSET Nat, S # {}, NEW bound \in Nat, \A n \in S : n <= bound
  PROVE  Max(S) \in S /\ \A n \in S : n <= Max(S)
  <1> DEFINE less == OpToRel(<, Nat)
             T == {n \in Nat : bound - n \in S}
  <1>1. IsWellFoundedOn(less, Nat)
    BY NatLessThanWellFounded
  <1>2. T \subseteq Nat /\ T # {}
    <2>1. PICK n \in S : TRUE
      OBVIOUS
    <2>2. bound - n \in T
      BY <2>1
    <2> QED
      BY <2>2
  <1>3. PICK m \in T : \A n \in T : <<n, m>> \notin less
    <2> HIDE DEF T, less
    <2> QED
      BY <1>1, <1>2, WFMin
  <1>4. \A n \in T : ~(n < m)
    BY <1>3 DEF OpToRel
  <1>5. bound - m \in S /\ \A n \in S : n <= bound - m
    <2>1. \A n \in S : bound - n \in T
      OBVIOUS
    <2> QED
      BY <1>4, <2>1
  <1> QED
    BY <1>5 DEF Max

-----------------------------------------------------------------------------
(* The parts of the cores that a tensor of whole blocks is divided among    *)
(* are at least as large as it, and fit into the tiling's integers.         *)
LEMMA Parts ==
  ASSUME NEW d \in Devices, d.coreNum > 0, NEW m \in Nat, NEW size, size = Aligned(m)
  PROVE  /\ SizeBlock(d, size) \in 0 .. size /\ SizeLoop(d, size) \in Nat
         /\ UsedCore(d, size) \in 0 .. size + 1
         /\ size <= SizeBlock(d, size) * UsedCore(d, size)
  <1>1. size \in Nat /\ d.coreNum \in Nat \ {0} /\ d.ubSize \in Nat
    <2>1. size \in Nat
      BY AlignedIs
    <2>2. d \in [coreNum : Nat, ubSize : Nat]
      BY MemsetAssumption
    <2> QED
      BY <2>1, <2>2
  <1>2. CASE Single(d, size)
    BY <1>1, <1>2 DEF SizeBlock, SizeLoop, UsedCore
  <1>3. CASE ~Single(d, size)
    <2> DEFINE n == d.coreNum
               q == CeilDiv(size, n)
               part == Aligned(q)
               used == CeilDiv(size, part)
    <2>1. size > 0
      BY <1>1, <1>3, MemsetAssumption DEF Single
    <2>2. q \in Nat /\ size <= q * n
      BY <1>1, CeilDivIs
    <2>3. q <= size
      <3>1. size <= size * n
        BY <1>1
      <3> QED
        BY <1>1, <3>1, CeilDivLeast
    <2> HIDE DEF q
    <2>4. q > 0
      BY <1>1, <2>1, <2>2
    <2>5. part \in 1 .. size
      BY <2>2, <2>3, <2>4, AlignedIs, AlignedWithin, <1>1
    <2> HIDE DEF part
    <2>6. used \in Nat /\ size <= used * part
      BY <1>1, <2>5, CeilDivIs
    <2>7. used <= size
      <3>1. size <= size * part
        BY <1>1, <2>5
      <3> QED
        BY <1>1, <2>5, <3>1, CeilDivLeast
    <2>8. SizeBlock(d, size) = part /\ UsedCore(d, size) = used
      BY <1>3 DEF SizeBlock, UsedCore, part, q
    <2>9. SizeLoop(d, size) \in Nat
      <3>1. (d.ubSize * 4) \div 5 \in Nat
        BY <1>1
      <3>2. MaxUbSize(d) \in Nat
        BY <3>1, AlignedIs DEF MaxUbSize
      <3> QED
        BY <1>3, <2>5, <2>8, <3>2 DEF SizeLoop, Min2
    <2> HIDE DEF used
    <2> QED
      BY <1>1, <2>5, <2>6, <2>7, <2>8, <2>9
  <1> QED
    BY <1>2, <1>3

(* MemsetTiling divides every tensor of a call among the cores that are     *)
(* launched.                                                                *)
LEMMA TilingCovers ==
  ASSUME Served, NEW c \in Calls, NEW d \in Devices, d.coreNum > 0
  PROVE  Covers(MemsetTiling(d, c), c)
  <1> DEFINE tiled == Tiled(c)
             sizes == [t \in tiled |-> Aligned(c.sizes[t])]
             td == MemsetTiling(d, c)
             used == {0} \cup {UsedCore(d, sizes[t]) : t \in tiled}
  <1>1. tiled = DOMAIN c.sizes
    BY MemsetAssumption DEF Served, Tiled, Min2
  <1>2. \A t \in tiled : c.sizes[t] \in Nat /\ sizes[t] = Aligned(c.sizes[t]) /\ sizes[t] < Word
    BY <1>1, MemsetAssumption DEF Served
  <1>3. \A t \in tiled :
          /\ sizes[t] \in Nat /\ c.sizes[t] <= sizes[t]
          /\ SizeBlock(d, sizes[t]) \in 0 .. sizes[t] /\ SizeLoop(d, sizes[t]) \in Nat
          /\ UsedCore(d, sizes[t]) \in 0 .. sizes[t] + 1
          /\ sizes[t] <= SizeBlock(d, sizes[t]) * UsedCore(d, sizes[t])
    <2> SUFFICES ASSUME NEW t \in tiled
                 PROVE  /\ sizes[t] \in Nat /\ c.sizes[t] <= sizes[t]
                        /\ SizeBlock(d, sizes[t]) \in 0 .. sizes[t] /\ SizeLoop(d, sizes[t]) \in Nat
                        /\ UsedCore(d, sizes[t]) \in 0 .. sizes[t] + 1
                        /\ sizes[t] <= SizeBlock(d, sizes[t]) * UsedCore(d, sizes[t])
      OBVIOUS
    <2> HIDE DEF sizes, tiled
    <2> QED
      BY <1>2, AlignedIs, Parts
  <1>4. Max(used) \in Nat /\ \A t \in tiled : UsedCore(d, sizes[t]) <= Max(used)
    <2> HIDE DEF sizes, tiled
    <2>1. used \in SUBSET Nat /\ used # {} /\ \A n \in used : n <= Word
      BY <1>2, <1>3, MemsetAssumption, SMTT(30)
    <2> HIDE DEF used
    <2>2. Max(used) \in used /\ \A n \in used : n <= Max(used)
      BY <2>1, MaxOf, MemsetAssumption
    <2> QED
      BY <2>1, <2>2 DEF used
  <1>5. td.blockDim = Max(used)
    BY DEF MemsetTiling, BlockDim
  <1>6. \A t \in tiled :
          /\ td.size[t] = sizes[t] % Word
          /\ td.sizeBlock[t] = SizeBlock(d, sizes[t]) % Word
          /\ td.sizeLoop[t] = SizeLoop(d, sizes[t]) % Word
    BY DEF MemsetTiling
  <1> HIDE DEF td, used, sizes, tiled
  <1>7. ASSUME NEW t \in tiled
        PROVE  /\ td.size[t] \in 0 .. Word - 1 /\ c.sizes[t] <= td.size[t]
               /\ td.sizeBlock[t] \in Nat /\ td.sizeLoop[t] \in Nat
               /\ td.size[t] <= td.sizeBlock[t] * td.blockDim
    <2>1. td.size[t] = sizes[t] /\ td.sizeBlock[t] = SizeBlock(d, sizes[t])
      BY <1>2, <1>3, <1>6, Small, MemsetAssumption
    <2>2. td.sizeLoop[t] \in Nat
      BY SMTT(30), <1>3, <1>6, MemsetAssumption
    <2> DEFINE part == SizeBlock(d, sizes[t])
               cores1 == UsedCore(d, sizes[t])
               most == Max(used)
    <2>3. part \in Nat /\ cores1 \in Nat /\ most \in Nat /\ cores1 <= most
          /\ sizes[t] \in Nat /\ sizes[t] <= part * cores1
      BY <1>3, <1>4
    <2> HIDE DEF part, cores1, most
    <2>4. sizes[t] <= part * most
      BY <2>3
    <2> QED
      BY SMTT(30), <1>2, <1>3, <1>5, <2>1, <2>2, <2>4, MemsetAssumption DEF part, most
  <1> QED
    BY <1>1, <1>4, <1>5, <1>7 DEF Covers, td

-----------------------------------------------------------------------------
(* All tensors of a call are given to the kernel.                           *)
LEMMA AllGiven ==
  ASSUME Served, NEW c \in Calls \cup {NoCall}
  PROVE  Given(c) = DOMAIN c.sizes
  <1>1. CASE c = NoCall
    BY <1>1, MemsetAssumption DEF Given, NoCall, Min2
  <1>2. CASE c \in Calls
    BY <1>2, MemsetAssumption DEF Served, Given, Min2
  <1> QED
    BY <1>1, <1>2

(* One step of a core's loop clears what it passes.                         *)
LEMMA CleanStep ==
  ASSUME MInv, NEW c \in DOMAIN cores, CleanTensor(c), Served
  PROVE  DeviceInv'
  <1> DEFINE t == cores[c].idx
             N == MEMSET_MAX_TENSOR_NUM
             B == 0 .. tiling.blockDim - 1
  <1>0. /\ pc = "device" /\ UNCHANGED <<pc, tiling, call>>
        /\ ~Done(c)
        /\ MEMSET_MAX_TENSOR_NUM \in Nat /\ Word \in Nat \ {0}
    BY MemsetAssumption DEF CleanTensor
  <1>1. /\ Covers(tiling, call)
        /\ cores \in [B -> [idx : 1 .. N + 1, i : 0 .. Word - 1]]
        /\ \A u \in DOMAIN call.sizes, b \in DOMAIN cores : PartZeroed(b, u)
        /\ zeroed \in [DOMAIN call.sizes -> SUBSET Int]
        /\ Given(call) = DOMAIN call.sizes
    BY <1>0, AllGiven DEF MInv, DeviceInv, CallInv
  <1>2. \A u \in DOMAIN zeroed : zeroed[u] \subseteq zeroed'[u]
    BY <1>1 DEF CleanTensor
  <1>3. c \in B /\ t \in 1 .. N /\ cores[c].i \in 0 .. Word - 1
    BY <1>0, <1>1 DEF Done
  <1>4. cores' \in [B -> [idx : 1 .. N + 1, i : 0 .. Word - 1]]
        /\ \A b \in B \ {c} : cores'[b] = cores[b]
    <2>1. CASE t \in Given(call) /\ InPart(c, t)
      <3>1. cores' = [cores EXCEPT ![c].i = (@ + tiling.sizeLoop[t]) % Word]
        BY <2>1 DEF CleanTensor
      <3>2. (cores[c].i + tiling.sizeLoop[t]) % Word \in 0 .. Word - 1
        <4>1. t \in DOMAIN call.sizes
          BY <1>1, <2>1
        <4> QED
          BY <1>0, <1>1, <1>3, <4>1 DEF Covers
      <3> QED
        BY <1>1, <1>3, <3>1, <3>2
    <2>2. CASE ~(t \in Given(call) /\ InPart(c, t))
      <3>1. cores' = [cores EXCEPT ![c] = [idx |-> t + 1, i |-> 0]]
        BY <2>2 DEF CleanTensor
      <3> QED
        BY <1>0, <1>1, <1>3, <3>1
    <2> QED
      BY <2>1, <2>2
  <1>5. ASSUME NEW u \in DOMAIN call.sizes, NEW b \in B,
               NEW x \in 0 .. tiling.size[u] - 1,
               tiling.sizeBlock[u] * b <= x, x < tiling.sizeBlock[u] * b + Passed(b, u)'
        PROVE  x \in zeroed'[u]
    <2>0. x \notin zeroed[u] => ~(x < tiling.sizeBlock[u] * b + Passed(b, u))
      BY <1>1, <1>5 DEF PartZeroed
    <2>1. CASE b # c
      <3>1. Passed(b, u)' = Passed(b, u)
        BY <1>0, <1>4, <2>1 DEF Passed
      <3> QED
        BY <1>1, <1>2, <1>5, <2>0, <3>1
    <2>2. CASE b = c /\ u # t
      <3>1. Passed(b, u)' = Passed(b, u) \/ Passed(b, u)' = 0
        <4>1. CASE t \in Given(call) /\ InPart(c, t)
          BY <1>0, <1>1, <1>3, <2>2, <4>1 DEF Passed, CleanTensor
        <4>2. CASE ~(t \in Given(call) /\ InPart(c, t))
          <5>0. cores' = [cores EXCEPT ![c] = [idx |-> t + 1, i |-> 0]]
            BY <4>2 DEF CleanTensor
          <5>1. cores'[c].idx = t + 1 /\ cores'[c].i = 0
            BY <1>1, <1>3, <5>0
          <5>2. u \in Nat
            BY <1>1 DEF Given
          <5> QED
            BY <1>0, <1>3, <2>2, <5>1, <5>2 DEF Passed
        <4> QED
          BY <4>1, <4>2
      <3>2. tiling.sizeBlock[u] * b \in Nat
        BY <1>1, <1>5 DEF Covers
      <3> QED
        BY <1>1, <1>2, <1>5, <2>0, <3>1, <3>2
    <2>3. CASE b = c /\ u = t
      <3> DEFINE base == tiling.sizeBlock[t] * c
                 i == cores[c].i
                 size == tiling.size[t]
                 loop == tiling.sizeLoop[t]
      <3>1. /\ base \in Nat /\ size \in 0 .. Word - 1 /\ loop \in Nat /\ i \in 0 .. Word - 1
            /\ tiling.sizeBlock[t] \in Nat
        BY SMTT(30), <1>1, <1>3, <1>5, <2>3 DEF Covers
      <3>2. ASSUME base + i <= x PROVE x \in zeroed'[t]
        <4>1. Reached(c, t) = base + i /\ Address(c, t) = base + i
          <5>0. base \in Nat /\ base < Word /\ base + i \in Nat /\ base + i < Word
            BY <1>0, <1>5, <2>3, <3>1, <3>2
          <5>1. base % Word = base /\ (base + i) % Word = base + i
            <6> HIDE DEF base, i
            <6> QED
              BY <5>0, Small
          <5> QED
            BY <5>1 DEF Reached, Address, Base
        <4>2. CASE InPart(c, t)
          <5>1. /\ cores'[c].idx = t /\ cores'[c].i = (i + loop) % Word
                /\ zeroed'[t] = zeroed[t] \cup (base + i .. base + i + HandleCount(c, t) - 1)
            BY <1>1, <1>3, <1>5, <2>3, <4>1, <4>2 DEF CleanTensor
          <5>2. (i + loop) % Word <= i + loop
            BY <1>0, <3>1
          <5>3. x < base + i + loop
            BY <1>0, <1>3, <1>5, <2>3, <3>1, <5>1, <5>2 DEF Passed
          <5>4. (size - (base + i)) % Word = size - (base + i)
            <6> DEFINE rest == size - (base + i)
            <6>1. rest \in Nat /\ rest < Word
              BY <1>0, <3>1, <4>1, <4>2 DEF InPart
            <6> HIDE DEF rest
            <6>2. rest % Word = rest
              BY <6>1, Small
            <6> QED
              BY <6>2 DEF rest
          <5>5. x < base + i + HandleCount(c, t)
            BY <1>5, <2>3, <3>1, <4>1, <5>3, <5>4 DEF HandleCount, Min2
          <5>6. HandleCount(c, t) \in Int
            BY <3>1, <4>1, <5>4 DEF HandleCount, Min2
          <5> QED
            BY <1>5, <3>1, <3>2, <5>1, <5>5, <5>6
        <4>3. CASE ~InPart(c, t)
          <5>1. cores'[c].idx = t + 1
            BY <1>1, <1>3, <4>3 DEF CleanTensor
          <5>2. x < base + tiling.sizeBlock[t]
            BY <1>0, <1>3, <1>5, <2>3, <5>1 DEF Passed
          <5> QED
            BY <1>5, <2>3, <3>1, <3>2, <4>1, <4>3, <5>2 DEF InPart
        <4> QED
          BY <4>2, <4>3
      <3>3. Passed(c, t) = i
        BY <1>3 DEF Passed
      <3> QED
        BY SMTT(30), <1>1, <1>2, <1>5, <2>0, <2>3, <3>1, <3>2, <3>3
    <2> QED
      BY <2>1, <2>2, <2>3
  <1> QED
    BY <1>0, <1>1, <1>4, <1>5 DEF DeviceInv, PartZeroed, Covers, Passed

(* Before the first turn nothing is passed.                                 *)
LEMMA RunStep ==
  ASSUME MInv, Run, Served
  PROVE  DeviceInv'
  <1>1. device \in Devices /\ device.coreNum \in Nat /\ call \in Calls
    BY MemsetAssumption DEF MInv, CallInv, Run
  <1>2. /\ tiling' = MemsetTiling(device, call) /\ call' = call
        /\ cores' = [b \in 0 .. tiling'.blockDim - 1 |-> [idx |-> 1, i |-> 0]]
        /\ device.coreNum > 0
    BY DEF Run
  <1>3. Covers(tiling', call)
    BY <1>1, <1>2, TilingCovers
  <1>4. ASSUME NEW t \in DOMAIN call.sizes, NEW b \in DOMAIN cores' PROVE PartZeroed(b, t)'
    <2>1. call.sizes \in Seq(Nat)
      BY <1>1, MemsetAssumption
    <2>2. t \in Nat \ {0}
      BY <2>1
    <2>3. Passed(b, t)' = 0
      BY <1>2, <2>2 DEF Passed
    <2>4. tiling'.sizeBlock[t] * b \in Nat
      BY <1>2, <1>3 DEF Covers
    <2> QED
      BY <2>3, <2>4 DEF PartZeroed
  <1>5. cores' \in [0 .. tiling'.blockDim - 1 -> [idx : 1 .. MEMSET_MAX_TENSOR_NUM + 1, i : 0 .. Word - 1]]
    BY <1>2, MemsetAssumption
  <1> QED
    BY <1>2, <1>3, <1>4, <1>5 DEF DeviceInv, Covers

(* When all cores are done, each byte has been cleared by the core in whose *)
(* part it lies.                                                            *)
LEMMA FinishStep ==
  ASSUME MInv, Finish, Served
  PROVE  AllZeroed'
  <1>1. /\ pc = "device" /\ UNCHANGED <<call, zeroed>>
        /\ \A b \in DOMAIN cores : Done(b)
    BY DEF Finish
  <1>2. /\ Covers(tiling, call)
        /\ cores \in [0 .. tiling.blockDim - 1 -> [idx : 1 .. MEMSET_MAX_TENSOR_NUM + 1, i : 0 .. Word - 1]]
        /\ \A t \in DOMAIN call.sizes, b \in DOMAIN cores : PartZeroed(b, t)
        /\ call \in Calls
    BY <1>1 DEF MInv, DeviceInv, CallInv
  <1>3. ASSUME NEW t \in DOMAIN call.sizes, NEW x \in 0 .. call.sizes[t] - 1 PROVE x \in zeroed[t]
    <2> DEFINE part == tiling.sizeBlock[t]
               size == tiling.size[t]
               b == x \div part
               n == tiling.blockDim
    <2>1. /\ part \in Nat /\ size \in Nat /\ n \in Nat /\ size <= part * n
          /\ x \in 0 .. size - 1
      <3>1. call.sizes[t] \in Nat
        BY <1>2, MemsetAssumption
      <3>2. /\ n \in Nat /\ size \in 0 .. Word - 1 /\ call.sizes[t] <= size
            /\ part \in Nat /\ size <= part * n
        BY <1>2 DEF Covers
      <3> HIDE DEF part, size, n
      <3>3. size \in Nat
        BY <3>2, MemsetAssumption
      <3>4. x \in 0 .. size - 1
        BY <3>1, <3>2, <3>3
      <3> QED
        BY <3>2, <3>3, <3>4
    <2>2. part > 0
      <3> HIDE DEF part, size, n
      <3> QED
        BY <2>1
    <2>3. b \in Nat /\ b < n /\ part * b <= x /\ x < part * b + part
      <3> HIDE DEF part, size, n
      <3>1. b \in Nat /\ part * b <= x /\ x < part * b + part
        BY <2>1, <2>2
      <3>2. x < n * part
        BY <2>1, <2>2
      <3>3. b < n
        BY <2>1, <2>2, <3>2
      <3> QED
        BY <3>1, <3>3
    <2>4. b \in DOMAIN cores /\ cores[b].idx > t
      <3>1. b \in DOMAIN cores
        BY <1>2, <2>1, <2>3
      <3>2. cores[b].idx > MEMSET_MAX_TENSOR_NUM /\ cores[b].idx \in Nat
        BY <1>1, <1>2, <3>1, MemsetAssumption DEF Done
      <3>3. t \in Nat /\ t <= MEMSET_MAX_TENSOR_NUM
        BY <1>2, MemsetAssumption DEF Served
      <3> QED
        BY <3>1, <3>2, <3>3, MemsetAssumption
    <2> HIDE DEF b
    <2>5. PartZeroed(b, t) /\ Passed(b, t) = part
      BY <1>2, <2>4 DEF Passed
    <2> QED
      BY <2>1, <2>3, <2>5 DEF PartZeroed
  <1> QED
    BY <1>1, <1>3 DEF AllZeroed

-----------------------------------------------------------------------------
(* Every step keeps what is said of the call.                               *)
LEMMA CallStep ==
  ASSUME CallInv, [Next]_vars
  PROVE  CallInv'
  <1> USE DEF CallInv
  <1>1. ASSUME NEW c \in Calls, ClearTensors(c) PROVE CallInv'
    BY <1>1 DEF ClearTensors
  <1>2. CASE HostMemset
    <2>1. zeroed' \in [DOMAIN call.sizes -> SUBSET Int]
      <3>1. CASE zeroed' = zeroed
        BY <3>1
      <3>2. CASE \E t : zeroed' = [zeroed EXCEPT ![t] = 0 .. call.sizes[t] - 1]
        <4>1. PICK t : zeroed' = [zeroed EXCEPT ![t] = 0 .. call.sizes[t] - 1]
          BY <3>2
        <4>2. 0 .. call.sizes[t] - 1 \in SUBSET Int
          OBVIOUS
        <4> QED
          BY <4>1, <4>2
      <3> QED
        BY <1>2, <3>1, <3>2 DEF HostMemset
    <2> QED
      BY <1>2, <2>1 DEF HostMemset
  <1>3. ASSUME NEW b \in DOMAIN cores, CleanTensor(b) PROVE CallInv'
    BY <1>3 DEF CleanTensor
  <1>4. CASE Fail \/ Run \/ Finish \/ UNCHANGED vars
    BY <1>4 DEF Fail, Run, Finish, vars
  <1> QED
    BY <1>1, <1>2, <1>3, <1>4 DEF Next

(* Every step keeps the invariant.                                          *)
LEMMA InvStep ==
  ASSUME MInv, [Next]_vars, Served
  PROVE  MInv'
  <1>1. CallInv'
    BY CallStep DEF MInv
  <1>2. ASSUME NEW c \in Calls, ClearTensors(c) PROVE DeviceInv' /\ AllZeroed'
    BY <1>2 DEF ClearTensors, DeviceInv, AllZeroed
  <1>3. ASSUME HostMemset PROVE DeviceInv' /\ AllZeroed'
    <2>1. DeviceInv'
      BY <1>3 DEF HostMemset, DeviceInv
    <2>2. Given(call) = DOMAIN call.sizes
      BY AllGiven DEF MInv, CallInv
    <2>3. AllZeroed'
      BY <1>3, <2>2 DEF HostMemset, AllZeroed
    <2> QED
      BY <2>1, <2>3
  <1>4. ASSUME Fail PROVE DeviceInv' /\ AllZeroed'
    BY <1>4 DEF Fail, DeviceInv, AllZeroed
  <1>5. ASSUME Run PROVE DeviceInv' /\ AllZeroed'
    BY <1>5, RunStep DEF Run, AllZeroed
  <1>6. ASSUME NEW b \in DOMAIN cores, CleanTensor(b) PROVE DeviceInv' /\ AllZeroed'
    BY <1>6, CleanStep DEF CleanTensor, AllZeroed
  <1>7. ASSUME Finish PROVE DeviceInv' /\ AllZeroed'
    BY <1>7, FinishStep DEF Finish, DeviceInv
  <1>8. ASSUME UNCHANGED vars PROVE DeviceInv' /\ AllZeroed'
    <2>1. AllZeroed'
      BY <1>8 DEF vars, MInv, AllZeroed
    <2>2. DeviceInv'
      BY <1>8 DEF vars, MInv, DeviceInv, Covers, PartZeroed, Passed
    <2> QED
      BY <2>1, <2>2
  <1> QED
    BY <1>1, <1>2, <1>3, <1>4, <1>5, <1>6, <1>7, <1>8 DEF MInv, Next

(* When ClearTensors succeeds, every byte of every tensor is zero, for any  *)
(* platform, any number of cores and any order of theirs, as long as the    *)
(* tiling has room for the tensors and for their sizes.                     *)
THEOREM TensorsAreCleared ==
  ASSUME Served
  PROVE  Spec => []AllZeroed
  <1>1. Init => MInv
    BY DEF Init, NoCall, MInv, CallInv, DeviceInv, AllZeroed
  <1>2. MInv /\ [Next]_vars => MInv'
    BY InvStep
  <1>3. MInv => AllZeroed
    BY DEF MInv
  <1> QED
    BY <1>1, <1>2, <1>3, PTL DEF Spec

-----------------------------------------------------------------------------
(* A finite set of numbers has a bound: a smallest set without one would    *)
(* lose it with any of its members.                                         *)
LEMMA FiniteBounded ==
  ASSUME NEW S \in SUBSET Nat, IsFiniteSet(S)
  PROVE  \E bound \in Nat : \A n \in S : n <= bound
  <1> DEFINE less == OpToRel(<, Nat)
             Free(T) == \A bound \in Nat : \E n \in T : n > bound
             bad == {k \in Nat : \E T \in SUBSET S : Cardinality(T) = k /\ Free(T)}
  <1>1. SUFFICES ASSUME Free(S) PROVE FALSE
    OBVIOUS
  <1>2. Cardinality(S) \in bad
    BY <1>1, FS_CardinalityType
  <1>3. PICK k \in bad : \A j \in bad : <<j, k>> \notin less
    <2>1. IsWellFoundedOn(less, Nat) /\ bad \subseteq Nat /\ bad # {}
      BY <1>2, NatLessThanWellFounded
    <2> HIDE DEF less, bad
    <2> QED
      BY <2>1, WFMin
  <1>4. PICK T \in SUBSET S : Cardinality(T) = k /\ Free(T)
    OBVIOUS
  <1>5. PICK x \in T : x > 0
    BY <1>4
  <1>6. IsFiniteSet(T)
    BY FS_Subset
  <1>7. Cardinality(T \ {x}) = k - 1 /\ Cardinality(T \ {x}) \in Nat
    <2>1. IsFiniteSet(T \ {x})
      BY <1>6, FS_RemoveElement
    <2> QED
      BY <1>4, <1>6, <2>1, FS_RemoveElement, FS_CardinalityType
  <1>8. Cardinality(T \ {x}) \notin bad
    <2>1. \A j \in bad : ~(j < k)
      <3>1. bad \subseteq Nat
        OBVIOUS
      <3> HIDE DEF bad
      <3> QED
        BY <1>3, <3>1 DEF OpToRel
    <2>2. k \in Nat
      OBVIOUS
    <2> HIDE DEF bad
    <2> QED
      BY <1>7, <2>1, <2>2
  <1>9. PICK bound \in Nat : \A n \in T \ {x} : n <= bound
    BY <1>7, <1>8
  <1>10. \A n \in T : n <= bound + x
    BY <1>9
  <1>11. bound + x \in Nat
    OBVIOUS
  <1> QED
    BY <1>4, <1>10, <1>11

(* The greatest of what a finite number of tensors need.                    *)
LEMMA MaxOfTensors ==
  ASSUME NEW n \in Nat, NEW f \in [1 .. n -> Nat]
  PROVE  LET S == {0} \cup {f[t] : t \in 1 .. n}
         IN Max(S) \in S /\ Max(S) \in Nat /\ \A t \in 1 .. n : f[t] <= Max(S)
  <1> DEFINE T == {f[t] : t \in 1 .. n}
             S == {0} \cup T
  <1>1. f \in Surjection(1 .. n, T)
    BY DEF Surjection
  <1>2. IsFiniteSet(1 .. n)
    BY FS_Interval
  <1>3. IsFiniteSet(T) /\ T \subseteq Nat
    <2>1. T \subseteq Nat
      OBVIOUS
    <2> HIDE DEF T
    <2> QED
      BY <1>1, <1>2, <2>1, FS_Surjection
  <1>4. PICK bound \in Nat : \A m \in T : m <= bound
    BY <1>3, FiniteBounded
  <1>5. S \in SUBSET Nat /\ S # {} /\ \A m \in S : m <= bound
    <2> HIDE DEF T
    <2> QED
      BY <1>3, <1>4
  <1>6. Max(S) \in S /\ \A m \in S : m <= Max(S)
    <2> HIDE DEF S
    <2> QED
      BY <1>5, MaxOf
  <1> QED
    BY <1>5, <1>6

-----------------------------------------------------------------------------
(* What the safety of the copies needs of a tiling, for any call: no tensor *)
(* is described as larger than its blocks, and all is a number.             *)
Describes(td, c) ==
  /\ td.blockDim \in Nat
  /\ \A t \in Given(c) :
       /\ td.size[t] \in 0 .. Word - 1 /\ td.size[t] <= Aligned(c.sizes[t])
       /\ td.sizeBlock[t] \in Nat /\ td.sizeLoop[t] \in Nat

(* Tensors that leave room do so with their copies as they are tiled, ...   *)
Rooms(td, d, c) ==
  \A t \in Given(c) : LeavesRoom(d, c.sizes[t]) => td.size[t] + td.sizeLoop[t] <= Word

(* ... and a core does not come to where its loop counts from 0 again.      *)
OnCourse(b) ==
  LET t == cores[b].idx
  IN  t \in Given(call) /\ LeavesRoom(device, call.sizes[t]) => Address(b, t) < Word

(* The copies stay within the tensors that leave room, also where there are *)
(* too many tensors for the tiling, and others are too large for it.        *)
WithinInv ==
  /\ CallInv
  /\ pc = "device" =>
       /\ Describes(tiling, call) /\ device.coreNum > 0 /\ Rooms(tiling, device, call)
       /\ cores \in [0 .. tiling.blockDim - 1 ->
                       [idx : 1 .. MEMSET_MAX_TENSOR_NUM + 1, i : 0 .. Word - 1]]
       /\ \A b \in DOMAIN cores : OnCourse(b)
  /\ NothingBehind

(* Modulo Word a number becomes no greater.                                 *)
LEMMA ModWord ==
  ASSUME NEW x \in Nat
  PROVE  x % Word \in 0 .. Word - 1 /\ x % Word <= x
  <1>1. Word \in Nat \ {0}
    BY MemsetAssumption
  <1> QED
    BY <1>1

(* MemsetTiling describes the tensors of any call, cut off where it has no  *)
(* room.                                                                    *)
LEMMA TilingDescribes ==
  ASSUME NEW c \in Calls, NEW d \in Devices, d.coreNum > 0
  PROVE  Describes(MemsetTiling(d, c), c)
  <1> DEFINE tiled == Tiled(c)
             n == Min2(MEMSET_MAX_TENSOR_NUM, Len(c.sizes))
             sizes == [t \in tiled |-> Aligned(c.sizes[t])]
             td == MemsetTiling(d, c)
             used == [t \in 1 .. n |-> UsedCore(d, sizes[t])]
  <1>1. c.sizes \in Seq(Nat) /\ c.argsNum \in Nat /\ MEMSET_MAX_TENSOR_NUM \in Nat
    BY MemsetAssumption
  <1>2. tiled = 1 .. n /\ n \in Nat /\ Given(c) \subseteq tiled /\ tiled \subseteq DOMAIN c.sizes
    BY <1>1 DEF Tiled, Given, Min2
  <1>3. \A t \in tiled : c.sizes[t] \in Nat /\ sizes[t] = Aligned(c.sizes[t])
    BY <1>1, <1>2
  <1> HIDE DEF tiled, n, sizes
  <1>4. ASSUME NEW t \in tiled
        PROVE  /\ sizes[t] \in Nat
               /\ SizeBlock(d, sizes[t]) \in Nat /\ SizeLoop(d, sizes[t]) \in Nat
               /\ UsedCore(d, sizes[t]) \in Nat
    <2>1. c.sizes[t] \in Nat /\ sizes[t] = Aligned(c.sizes[t])
      BY <1>3
    <2>2. sizes[t] \in Nat
      BY <2>1, AlignedIs
    <2> QED
      BY <2>1, <2>2, Parts
  <1>5. td.blockDim \in Nat
    <2>1. used \in [1 .. n -> Nat]
      BY <1>2, <1>4
    <2>2. td.blockDim = Max({0} \cup {used[t] : t \in 1 .. n})
      <3>1. {used[t] : t \in 1 .. n} = {UsedCore(d, sizes[t]) : t \in tiled}
        BY <1>2
      <3>2. td.blockDim = Max({0} \cup {UsedCore(d, sizes[t]) : t \in tiled})
        BY DEF MemsetTiling, BlockDim, tiled, sizes
      <3> QED
        BY <3>1, <3>2
    <2> HIDE DEF used, td
    <2> QED
      BY <1>2, <2>1, <2>2, MaxOfTensors
  <1>6. \A t \in tiled :
          /\ td.size[t] = sizes[t] % Word
          /\ td.sizeBlock[t] = SizeBlock(d, sizes[t]) % Word
          /\ td.sizeLoop[t] = SizeLoop(d, sizes[t]) % Word
    BY DEF MemsetTiling, tiled, sizes
  <1> HIDE DEF td, used
  <1>7. ASSUME NEW t \in Given(c)
        PROVE  /\ td.size[t] \in 0 .. Word - 1 /\ td.size[t] <= Aligned(c.sizes[t])
               /\ td.sizeBlock[t] \in Nat /\ td.sizeLoop[t] \in Nat
    <2>1. t \in tiled
      BY <1>2
    <2>2. /\ sizes[t] % Word \in 0 .. Word - 1 /\ sizes[t] % Word <= sizes[t]
          /\ SizeBlock(d, sizes[t]) % Word \in 0 .. Word - 1
          /\ SizeLoop(d, sizes[t]) % Word \in 0 .. Word - 1
      BY <1>4, <2>1, ModWord
    <2> QED
      BY <1>3, <1>6, <2>1, <2>2
  <1> QED
    BY <1>5, <1>7 DEF Describes, td

(* MemsetTiling leaves the room there is.                                   *)
LEMMA RoomIsLeft ==
  ASSUME NEW c \in Calls, NEW d \in Devices, d.coreNum > 0
  PROVE  Rooms(MemsetTiling(d, c), d, c)
  <1> SUFFICES ASSUME NEW t \in Given(c), LeavesRoom(d, c.sizes[t])
               PROVE  MemsetTiling(d, c).size[t] + MemsetTiling(d, c).sizeLoop[t] <= Word
    BY DEF Rooms
  <1> DEFINE size == Aligned(c.sizes[t])
             loop == SizeLoop(d, size)
  <1>1. c.sizes \in Seq(Nat) /\ c.argsNum \in Nat /\ MEMSET_MAX_TENSOR_NUM \in Nat
    BY MemsetAssumption
  <1>2. t \in Tiled(c) /\ t \in DOMAIN c.sizes
    BY <1>1 DEF Tiled, Given, Min2
  <1>3. c.sizes[t] \in Nat
    BY <1>1, <1>2
  <1>4. size \in Nat /\ loop \in Nat
    BY <1>3, AlignedIs, Parts
  <1>5. MemsetTiling(d, c).size[t] = size % Word /\ MemsetTiling(d, c).sizeLoop[t] = loop % Word
    BY <1>2 DEF MemsetTiling
  <1>6. size + loop <= Word
    BY DEF LeavesRoom
  <1> HIDE DEF size, loop
  <1>7. /\ size % Word <= size /\ size % Word \in Int
        /\ loop % Word <= loop /\ loop % Word \in Int
    BY <1>4, ModWord
  <1> QED
    BY <1>4, <1>5, <1>6, <1>7, MemsetAssumption

(* A copy ends where the tensor does.                                       *)
LEMMA CopyWithin ==
  ASSUME WithinInv, pc = "device", NEW b \in DOMAIN cores, NEW t \in Given(call),
         InPart(b, t)
  PROVE  /\ Reached(b, t) \in Nat
         /\ HandleCount(b, t) <= tiling.size[t] - Reached(b, t)
         /\ HandleCount(b, t) \in {tiling.size[t] - Reached(b, t), tiling.sizeLoop[t]}
         /\ HandleCount(b, t) <= tiling.sizeLoop[t]
         /\ tiling.size[t] - Reached(b, t) > 0
  <1> DEFINE off == Reached(b, t)
             rest == tiling.size[t] - off
             loop == tiling.sizeLoop[t]
  <1>1. /\ Describes(tiling, call)
        /\ cores \in [0 .. tiling.blockDim - 1 ->
                        [idx : 1 .. MEMSET_MAX_TENSOR_NUM + 1, i : 0 .. Word - 1]]
    BY DEF WithinInv
  <1>2. /\ tiling.blockDim \in Nat /\ tiling.size[t] \in 0 .. Word - 1
        /\ tiling.sizeBlock[t] \in Nat /\ loop \in Nat
    BY <1>1 DEF Describes
  <1>3. b \in Nat /\ cores[b].i \in Nat
    BY <1>1, <1>2, MemsetAssumption
  <1>4. off \in Nat
    <2>1. tiling.sizeBlock[t] * b \in Nat
      BY <1>2, <1>3
    <2>2. Base(b, t) \in Nat
      BY <2>1, ModWord DEF Base
    <2>3. Base(b, t) + cores[b].i \in Nat
      BY <1>3, <2>2
    <2> QED
      BY <2>3, ModWord DEF Reached
  <1>5. off < tiling.size[t]
    BY DEF InPart
  <1> HIDE DEF off
  <1>6. rest \in Nat /\ rest < Word /\ rest > 0
    BY <1>2, <1>4, <1>5, MemsetAssumption
  <1>7. HandleCount(b, t) = Min2(rest, loop)
    <2> HIDE DEF rest
    <2>1. rest % Word = rest
      BY <1>6, Small
    <2> QED
      BY <2>1 DEF HandleCount, rest, off
  <1> HIDE DEF rest, loop
  <1>8. Min2(rest, loop) \in {rest, loop} /\ Min2(rest, loop) <= rest /\ Min2(rest, loop) <= loop
    BY <1>2, <1>6 DEF Min2
  <1> QED
    BY <1>4, <1>6, <1>7, <1>8 DEF rest, loop, off

(* A core's part begins in the tiling's integers.                           *)
LEMMA BaseIs ==
  ASSUME WithinInv, pc = "device", NEW b \in DOMAIN cores, NEW t \in Given(call)
  PROVE  Base(b, t) \in 0 .. Word - 1
  <1>1. /\ tiling.blockDim \in Nat /\ tiling.sizeBlock[t] \in Nat
        /\ b \in 0 .. tiling.blockDim - 1
    BY DEF WithinInv, Describes
  <1>2. tiling.sizeBlock[t] * b \in Nat
    BY <1>1
  <1> QED
    BY <1>2, ModWord DEF Base

(* In a tensor that leaves room, a core writes where its loop counts, and   *)
(* is still on course after its copy.                                       *)
LEMMA AddressIs ==
  ASSUME WithinInv, pc = "device", NEW b \in DOMAIN cores, NEW t, t = cores[b].idx,
         t \in Given(call), InPart(b, t), LeavesRoom(device, call.sizes[t])
  PROVE  /\ Address(b, t) = Reached(b, t)
         /\ (cores[b].i + tiling.sizeLoop[t]) % Word = cores[b].i + tiling.sizeLoop[t]
         /\ Address(b, t) + tiling.sizeLoop[t] < Word
  <1> DEFINE i == cores[b].i
             base == Base(b, t)
             loop == tiling.sizeLoop[t]
             size == tiling.size[t]
  <1>1. i \in Nat /\ base \in Nat /\ loop \in Nat /\ size \in Nat
    BY BaseIs, MemsetAssumption DEF WithinInv, Describes
  <1>2. base + i < Word /\ size + loop <= Word
    BY DEF WithinInv, OnCourse, Address, Rooms
  <1>3. Reached(b, t) = (base + i) % Word /\ Reached(b, t) < size
    BY DEF Reached, InPart
  <1>4. Address(b, t) = base + i
    BY DEF Address
  <1> HIDE DEF i, base, loop, size
  <1>5. Word \in Nat
    BY MemsetAssumption
  <1>6. (base + i) % Word = base + i
    BY <1>1, <1>2, Small
  <1>7. i + loop \in Nat /\ i + loop < Word /\ base + i + loop < Word
    BY <1>1, <1>2, <1>3, <1>5, <1>6
  <1>8. (i + loop) % Word = i + loop
    BY <1>7, Small
  <1> QED
    BY <1>3, <1>4, <1>6, <1>7, <1>8 DEF i, loop

(* A turn of a core's loop keeps it on course.                              *)
LEMMA CourseKept ==
  ASSUME WithinInv, NEW c \in DOMAIN cores, CleanTensor(c)
  PROVE  \A b \in DOMAIN cores' : OnCourse(b)'
  <1> PICK t : t = cores[c].idx
    OBVIOUS
  <1>1. /\ pc = "device" /\ UNCHANGED <<device, tiling, call>>
        /\ DOMAIN cores' = DOMAIN cores
        /\ \A b \in DOMAIN cores : b # c => cores'[b] = cores[b]
    BY DEF CleanTensor, WithinInv
  <1>2. ASSUME NEW b \in DOMAIN cores, b # c PROVE OnCourse(b)'
    <2>1. OnCourse(b)
      BY <1>1 DEF WithinInv
    <2> QED
      BY <1>1, <1>2, <2>1 DEF OnCourse, Address, Base, Given, LeavesRoom
  <1>3. CASE t \in Given(call) /\ InPart(c, t)
    <2>1. cores'[c].idx = t /\ cores'[c].i = (cores[c].i + tiling.sizeLoop[t]) % Word
      BY <1>1, <1>3 DEF CleanTensor, WithinInv
    <2>2. SUFFICES ASSUME LeavesRoom(device, call.sizes[t]) PROVE Address(c, t)' < Word
      BY <1>1, <1>2, <2>1 DEF OnCourse, LeavesRoom
    <2>3. /\ cores'[c].i = cores[c].i + tiling.sizeLoop[t]
          /\ Address(c, t) + tiling.sizeLoop[t] < Word
      BY <1>1, <1>3, <2>1, <2>2, AddressIs
    <2>4. Address(c, t)' = Base(c, t) + cores'[c].i /\ Address(c, t) = Base(c, t) + cores[c].i
      BY <1>1 DEF Address, Base
    <2>5. Base(c, t) \in Int /\ cores[c].i \in Int /\ tiling.sizeLoop[t] \in Int
      BY <1>1, <1>3, BaseIs, MemsetAssumption DEF WithinInv, Describes
    <2> QED
      BY <2>3, <2>4, <2>5
  <1>4. CASE ~(t \in Given(call) /\ InPart(c, t))
    <2>1. cores'[c].idx = t + 1 /\ cores'[c].i = 0
      BY <1>1, <1>4 DEF CleanTensor, WithinInv
    <2>2. SUFFICES ASSUME t + 1 \in Given(call) PROVE Address(c, t + 1)' < Word
      BY <1>1, <1>2, <2>1 DEF OnCourse, Given
    <2>3. Address(c, t + 1)' = Base(c, t + 1) + 0
      BY <1>1, <2>1 DEF Address, Base
    <2>4. Base(c, t + 1) \in 0 .. Word - 1
      BY <1>1, <2>2, BaseIs
    <2> QED
      BY <2>3, <2>4, MemsetAssumption
  <1> QED
    BY <1>3, <1>4

(* A turn of a core's loop writes within the tensor, if that leaves room.   *)
LEMMA CleanWithin ==
  ASSUME WithinInv, NEW c \in DOMAIN cores, CleanTensor(c)
  PROVE  WithinInv'
  <1> DEFINE t == cores[c].idx
             B == 0 .. tiling.blockDim - 1
             N == MEMSET_MAX_TENSOR_NUM
  <1>1. /\ pc = "device" /\ UNCHANGED <<pc, tiling, call>> /\ ~Done(c)
        /\ N \in Nat /\ Word \in Nat \ {0}
    BY MemsetAssumption DEF CleanTensor
  <1>2. /\ Describes(tiling, call) /\ device.coreNum > 0 /\ Rooms(tiling, device, call)
        /\ cores \in [B -> [idx : 1 .. N + 1, i : 0 .. Word - 1]]
        /\ zeroed \in [DOMAIN call.sizes -> SUBSET Int]
        /\ device' = device
    BY <1>1 DEF WithinInv, CallInv, CleanTensor
  <1>3. t \in 1 .. N
    BY <1>1, <1>2 DEF Done
  <1>4. CallInv' /\ (\A b \in DOMAIN cores' : OnCourse(b)')
        /\ Describes(tiling, call)' /\ (device.coreNum > 0)' /\ Rooms(tiling, device, call)'
    <2>1. CallInv'
      BY CallStep DEF WithinInv, Next
    <2>2. \A b \in DOMAIN cores' : OnCourse(b)'
      BY CourseKept
    <2>3. Describes(tiling, call)' /\ (device.coreNum > 0)' /\ Rooms(tiling, device, call)'
      BY <1>1, <1>2 DEF Describes, Rooms, Given, LeavesRoom
    <2> QED
      BY <2>1, <2>2, <2>3
  <1>5. CASE t \in Given(call) /\ InPart(c, t)
    <2>1. /\ cores' = [cores EXCEPT ![c].i = (@ + tiling.sizeLoop[t]) % Word]
          /\ zeroed' = [zeroed EXCEPT ![t] =
                          @ \cup (Address(c, t) .. Address(c, t) + HandleCount(c, t) - 1)]
      BY <1>5 DEF CleanTensor
    <2>2. cores[c].i + tiling.sizeLoop[t] \in Nat
      BY <1>2, <1>5, MemsetAssumption DEF Describes
    <2>3. (cores[c].i + tiling.sizeLoop[t]) % Word \in 0 .. Word - 1
      BY <2>2, ModWord
    <2>4. cores' \in [B -> [idx : 1 .. N + 1, i : 0 .. Word - 1]]
      BY <1>2, <2>1, <2>3
    <2>5. ASSUME LeavesRoom(device, call.sizes[t])
          PROVE  /\ Address(c, t) \in Nat /\ HandleCount(c, t) \in Int
                 /\ Address(c, t) + HandleCount(c, t) <= Aligned(call.sizes[t])
                 /\ Aligned(call.sizes[t]) \in Nat
      <3>1. t \in DOMAIN call.sizes /\ call.sizes[t] \in Nat
        <4>1. call.sizes \in Seq(Nat) /\ call.argsNum \in Nat
          BY <1>1, MemsetAssumption DEF WithinInv, CallInv
        <4> QED
          BY <1>1, <1>5, <4>1, SMTT(30) DEF Given, Min2
      <3>2. Aligned(call.sizes[t]) \in Nat
        BY <3>1, AlignedIs
      <3>3. /\ tiling.size[t] \in Nat /\ tiling.size[t] <= Aligned(call.sizes[t])
            /\ tiling.sizeLoop[t] \in Nat
        BY <1>1, <1>2, <1>5 DEF Describes
      <3>4. /\ Reached(c, t) \in Nat /\ Address(c, t) = Reached(c, t)
            /\ HandleCount(c, t) <= tiling.size[t] - Reached(c, t)
            /\ HandleCount(c, t) \in {tiling.size[t] - Reached(c, t), tiling.sizeLoop[t]}
        BY <1>1, <1>5, <2>5, AddressIs, CopyWithin
      <3> HIDE DEF t
      <3> QED
        BY <3>2, <3>3, <3>4
    <2>6. NothingBehind'
      <3>1. ASSUME NEW u \in DOMAIN zeroed', LeavesRoom(device, call.sizes[u])
            PROVE  zeroed'[u] \subseteq 0 .. Aligned(call.sizes[u]) - 1
        <4>1. u \in DOMAIN zeroed /\ zeroed[u] \subseteq 0 .. Aligned(call.sizes[u]) - 1
          BY <2>1, <3>1 DEF WithinInv, NothingBehind
        <4>2. u = t => Address(c, t) .. Address(c, t) + HandleCount(c, t) - 1
                         \subseteq 0 .. Aligned(call.sizes[t]) - 1
          <5> SUFFICES ASSUME u = t PROVE Address(c, t) .. Address(c, t) + HandleCount(c, t) - 1
                                            \subseteq 0 .. Aligned(call.sizes[t]) - 1
            OBVIOUS
          <5> DEFINE off == Address(c, t)
                     n == HandleCount(c, t)
                     end == Aligned(call.sizes[t])
          <5>1. off \in Nat /\ n \in Int /\ off + n <= end /\ end \in Nat
            BY <2>5, <3>1
          <5> HIDE DEF off, n, end
          <5>2. off .. off + n - 1 \subseteq 0 .. end - 1
            BY <5>1
          <5> QED
            BY <5>2 DEF off, n, end
        <4> QED
          BY <2>1, <4>1, <4>2
      <3> QED
        BY <1>1, <1>2, <3>1 DEF NothingBehind, LeavesRoom
    <2> QED
      BY <1>1, <1>4, <2>4, <2>6 DEF WithinInv
  <1>6. CASE ~(t \in Given(call) /\ InPart(c, t))
    <2>1. zeroed' = zeroed /\ cores' = [cores EXCEPT ![c] = [idx |-> t + 1, i |-> 0]]
      BY <1>6 DEF CleanTensor
    <2>2. cores' \in [B -> [idx : 1 .. N + 1, i : 0 .. Word - 1]]
      BY <1>1, <1>2, <1>3, <2>1
    <2>3. NothingBehind'
      BY <1>1, <1>2, <2>1 DEF WithinInv, NothingBehind, LeavesRoom
    <2> QED
      BY <1>1, <1>4, <2>2, <2>3 DEF WithinInv
  <1> QED
    BY <1>5, <1>6

(* Every step keeps the copies within the tensors.                          *)
LEMMA WithinStep ==
  ASSUME WithinInv, [Next]_vars
  PROVE  WithinInv'
  <1>0. CallInv'
    BY CallStep DEF WithinInv
  <1>1. ASSUME NEW c \in Calls, ClearTensors(c) PROVE WithinInv'
    <2>1. NothingBehind' /\ pc' # "device"
      BY <1>1 DEF ClearTensors, NothingBehind
    <2> QED
      BY <1>0, <2>1 DEF WithinInv
  <1>2. CASE HostMemset
    <2>1. ASSUME NEW t \in Given(call)
          PROVE  0 .. call.sizes[t] - 1 \subseteq 0 .. Aligned(call.sizes[t]) - 1
      <3>1. call.sizes[t] \in Nat
        <4>1. call.sizes \in Seq(Nat) /\ call.argsNum \in Nat /\ MEMSET_MAX_TENSOR_NUM \in Nat
          BY <1>2, MemsetAssumption DEF WithinInv, CallInv, HostMemset
        <4> QED
          BY <2>1, <4>1 DEF Given, Min2
      <3>2. Aligned(call.sizes[t]) \in Nat /\ call.sizes[t] <= Aligned(call.sizes[t])
        BY <3>1, AlignedIs
      <3> QED
        BY <3>1, <3>2
    <2>2. \/ zeroed' = zeroed
          \/ \E t \in Given(call) : zeroed' = [zeroed EXCEPT ![t] = 0 .. call.sizes[t] - 1]
      <3> DEFINE left == {t \in Given(call) : zeroed[t] # 0 .. call.sizes[t] - 1}
      <3>1. SUFFICES ASSUME left # {} PROVE Min(left) \in Given(call)
        BY <1>2 DEF HostMemset
      <3>2. PICK m \in left : \A n \in left : m <= n
        <4> DEFINE less == OpToRel(<, Nat)
        <4>1. left \subseteq Nat
          BY <1>2, MemsetAssumption DEF Given
        <4>2. IsWellFoundedOn(less, Nat)
          BY NatLessThanWellFounded
        <4>3. PICK m \in left : \A n \in left : <<n, m>> \notin less
          <5> HIDE DEF left, less
          <5> QED
            BY <3>1, <4>1, <4>2, WFMin
        <4>4. \A n \in left : ~(n < m)
          <5> HIDE DEF left
          <5> QED
            BY <4>1, <4>3 DEF OpToRel
        <4>5. \A n \in left : m <= n
          <5> HIDE DEF left
          <5> QED
            BY <4>1, <4>4
        <4> QED
          BY <4>5
      <3>3. Min(left) \in left
        <4> HIDE DEF left
        <4> QED
          BY <3>2 DEF Min
      <3> QED
        BY <3>3
    <2>3. NothingBehind'
      BY <1>2, <2>1, <2>2 DEF WithinInv, NothingBehind, LeavesRoom, HostMemset
    <2> QED
      BY <1>0, <1>2, <2>3 DEF WithinInv, HostMemset
  <1>3. CASE Run
    <2>1. /\ tiling' = MemsetTiling(device, call) /\ UNCHANGED <<call, zeroed>>
          /\ cores' = [b \in 0 .. tiling'.blockDim - 1 |-> [idx |-> 1, i |-> 0]]
          /\ device \in Devices /\ call \in Calls /\ device.coreNum > 0
      BY <1>3 DEF Run, WithinInv, CallInv
    <2>2. Describes(tiling, call)' /\ (device.coreNum > 0)' /\ Rooms(tiling, device, call)'
      <3>1. Describes(tiling', call) /\ Rooms(tiling', device, call) /\ device' = device
        BY <1>3, <2>1, TilingDescribes, RoomIsLeft DEF Run
      <3> QED
        BY <2>1, <3>1
    <2>3. cores' \in [0 .. tiling'.blockDim - 1 ->
                        [idx : 1 .. MEMSET_MAX_TENSOR_NUM + 1, i : 0 .. Word - 1]]
      BY <2>1, MemsetAssumption
    <2>4. NothingBehind'
      BY <1>3, <2>1 DEF Run, WithinInv, NothingBehind, LeavesRoom
    <2>5. ASSUME NEW b \in DOMAIN cores' PROVE OnCourse(b)'
      <3>1. cores'[b].idx = 1 /\ cores'[b].i = 0 /\ b \in 0 .. tiling'.blockDim - 1
        BY <2>1
      <3>2. SUFFICES ASSUME 1 \in Given(call) PROVE Address(b, 1)' < Word
        BY <2>1, <3>1 DEF OnCourse, Given
      <3>3. tiling'.sizeBlock[1] \in Nat /\ tiling'.blockDim \in Nat
        BY <2>1, <2>2, <3>2 DEF Describes, Given
      <3>4. tiling'.sizeBlock[1] * b \in Nat
        BY <3>1, <3>3
      <3>5. (tiling'.sizeBlock[1] * b) % Word \in 0 .. Word - 1
        BY <3>4, ModWord
      <3>6. Address(b, 1)' = ((tiling'.sizeBlock[1] * b) % Word) + 0
        BY <3>1 DEF Address, Base
      <3> QED
        BY <3>5, <3>6, MemsetAssumption
    <2> QED
      BY <1>0, <2>2, <2>3, <2>4, <2>5 DEF WithinInv
  <1>4. CASE Fail \/ Finish
    BY <1>0, <1>4 DEF Fail, Finish, WithinInv, NothingBehind, LeavesRoom
  <1>5. ASSUME NEW b \in DOMAIN cores, CleanTensor(b) PROVE WithinInv'
    BY <1>5, CleanWithin
  <1>6. CASE UNCHANGED vars
    BY <1>0, <1>6 DEF vars, WithinInv, NothingBehind, LeavesRoom, Describes, Rooms, OnCourse,
                      Address, Base, Given
  <1> QED
    BY <1>1, <1>2, <1>3, <1>4, <1>5, <1>6 DEF Next

(* Nothing behind the last block of a tensor that leaves room is            *)
(* overwritten, whatever the calls: also with more tensors than the tiling  *)
(* has room for, and by cores whose part's beginning overflows its          *)
(* integers.                                                                *)
THEOREM NothingBehindIsCleared == Spec => []NothingBehind
  <1>1. Init => WithinInv
    BY DEF Init, NoCall, WithinInv, CallInv, NothingBehind
  <1>2. WithinInv /\ [Next]_vars => WithinInv'
    BY WithinStep
  <1>3. WithinInv => NothingBehind
    BY DEF WithinInv
  <1> QED
    BY <1>1, <1>2, <1>3, PTL DEF Spec

-----------------------------------------------------------------------------
(* Devices whose unified buffer holds what a single core may clear at once, *)
(* and whose buffer is so large that the fifth MemsetTiling leaves out      *)
(* makes up for the rounding to whole blocks.                               *)
Roomy ==
  \A d \in Devices :
    d.coreNum > 0 =>
      /\ BLOCK_BYTES_ONCE * d.coreNum <= d.ubSize
      /\ 2 <= d.ubSize /\ 5 * (BLOCK_BYTES - 1) <= d.ubSize

(* The zeros a tiling asks for fit into the unified buffer, and are as many *)
(* as any of its copies.                                                    *)
Fits(td, d, c) ==
  /\ td.maxUb \in Nat /\ td.maxUb <= d.ubSize
  /\ \A t \in DOMAIN c.sizes :
       td.sizeLoop[t] <= td.maxUb /\ (td.size[t] > 0 => td.sizeLoop[t] > 0)

FitsInv == pc = "device" => Fits(tiling, device, call)

(* 80 percent of a roomy buffer, in whole blocks.                           *)
LEMMA MaxUbSizeFits ==
  ASSUME NEW d \in Devices, Roomy, d.coreNum > 0
  PROVE  MaxUbSize(d) \in 1 .. d.ubSize
  <1> DEFINE u == d.ubSize
             part == (u * 4) \div 5
             q == CeilDiv(part, BLOCK_BYTES)
  <1>1. /\ u \in Nat /\ 2 <= u /\ 5 * (BLOCK_BYTES - 1) <= u
        /\ BLOCK_BYTES \in Nat \ {0}
    BY MemsetAssumption DEF Roomy
  <1> HIDE DEF u
  <1>2. part \in Nat /\ 1 <= part /\ 5 * part <= u * 4
    BY <1>1
  <1> HIDE DEF part
  <1>3. q \in Nat /\ part <= q * BLOCK_BYTES /\ q * BLOCK_BYTES < part + BLOCK_BYTES
    BY <1>1, <1>2, CeilDivIs
  <1> HIDE DEF q
  <1>4. q * BLOCK_BYTES \in Nat
    BY <1>1, <1>3
  <1>5. q * BLOCK_BYTES \in 1 .. u
    BY <1>1, <1>2, <1>3, <1>4
  <1> QED
    BY <1>5 DEF MaxUbSize, Aligned, q, part, u

(* No copy is larger than the buffer, and none of a tensor that has bytes   *)
(* is empty.                                                                *)
LEMMA LoopFits ==
  ASSUME Roomy, NEW d \in Devices, d.coreNum > 0, NEW m \in Nat, NEW size, size = Aligned(m)
  PROVE  /\ SizeLoop(d, size) \in 0 .. d.ubSize /\ SizeLoop(d, size) <= size
         /\ size > 0 => SizeLoop(d, size) > 0
  <1>1. /\ size \in Nat /\ d.coreNum \in Nat /\ d.ubSize \in Nat
        /\ BLOCK_BYTES_ONCE * d.coreNum <= d.ubSize
    BY AlignedIs, MemsetAssumption DEF Roomy
  <1>2. CASE Single(d, size)
    <2>1. size < BLOCK_BYTES_ONCE * d.coreNum /\ SizeLoop(d, size) = size
      BY <1>2 DEF Single, SizeLoop
    <2>2. BLOCK_BYTES_ONCE * d.coreNum \in Nat
      BY <1>1, MemsetAssumption
    <2> QED
      BY <1>1, <2>1, <2>2
  <1>3. CASE ~Single(d, size)
    <2>1. /\ SizeBlock(d, size) \in 0 .. size /\ UsedCore(d, size) \in 0 .. size + 1
          /\ size <= SizeBlock(d, size) * UsedCore(d, size)
      BY Parts
    <2>2. SizeLoop(d, size) = Min2(MaxUbSize(d), SizeBlock(d, size))
      BY <1>3 DEF SizeLoop
    <2>3. MaxUbSize(d) \in 1 .. d.ubSize
      BY MaxUbSizeFits
    <2> DEFINE part == SizeBlock(d, size)
               used == UsedCore(d, size)
               ub == MaxUbSize(d)
    <2> HIDE DEF part, used, ub
    <2>4. size > 0 => part > 0
      BY <1>1, <2>1 DEF part, used
    <2>5. Min2(ub, part) \in {ub, part} /\ Min2(ub, part) <= ub /\ Min2(ub, part) <= part
      BY <1>1, <2>1, <2>3 DEF Min2, part, ub
    <2> QED
      BY <1>1, <2>1, <2>2, <2>3, <2>4, <2>5 DEF part, ub
  <1> QED
    BY <1>2, <1>3

(* The buffer of zeros of a tiling is the largest of its copies.            *)
LEMMA TilingFits ==
  ASSUME Served, Roomy, NEW c \in Calls, NEW d \in Devices, d.coreNum > 0
  PROVE  Fits(MemsetTiling(d, c), d, c)
  <1> DEFINE tiled == Tiled(c)
             n == Len(c.sizes)
             sizes == [t \in tiled |-> Aligned(c.sizes[t])]
             td == MemsetTiling(d, c)
             loops == [t \in 1 .. n |-> SizeLoop(d, sizes[t])]
             most == Max({0} \cup {loops[t] : t \in 1 .. n})
  <1>1. tiled = DOMAIN c.sizes /\ DOMAIN c.sizes = 1 .. n /\ n \in Nat
    BY MemsetAssumption DEF Served, Tiled, Min2
  <1>2. \A t \in tiled : c.sizes[t] \in Nat /\ sizes[t] = Aligned(c.sizes[t]) /\ sizes[t] < Word
    BY <1>1, MemsetAssumption DEF Served
  <1>3. d.ubSize \in Nat
    BY MemsetAssumption
  <1> HIDE DEF tiled, sizes, n
  <1>4. ASSUME NEW t \in tiled
        PROVE  /\ SizeLoop(d, sizes[t]) \in 0 .. d.ubSize /\ SizeLoop(d, sizes[t]) < Word
               /\ sizes[t] > 0 => SizeLoop(d, sizes[t]) > 0
               /\ sizes[t] \in Nat
    <2>1. c.sizes[t] \in Nat /\ sizes[t] = Aligned(c.sizes[t]) /\ sizes[t] < Word
      BY <1>2
    <2>2. sizes[t] \in Nat
      BY <2>1, AlignedIs
    <2>3. /\ SizeLoop(d, sizes[t]) \in 0 .. d.ubSize /\ SizeLoop(d, sizes[t]) <= sizes[t]
          /\ sizes[t] > 0 => SizeLoop(d, sizes[t]) > 0
      BY <2>1, LoopFits
    <2> QED
      BY <1>3, <2>1, <2>2, <2>3, MemsetAssumption
  <1>5. \A t \in 1 .. n : loops[t] = SizeLoop(d, sizes[t])
    OBVIOUS
  <1>6. /\ most \in {0} \cup {loops[t] : t \in 1 .. n} /\ most \in Nat
        /\ \A t \in 1 .. n : loops[t] <= most
    <2>1. loops \in [1 .. n -> Nat]
      BY <1>1, <1>3, <1>4
    <2> HIDE DEF loops
    <2> QED
      BY <1>1, <2>1, MaxOfTensors
  <1>7. /\ td.maxUb = most % Word
        /\ \A t \in tiled : td.size[t] = sizes[t] % Word /\ td.sizeLoop[t] = loops[t] % Word
    <2>1. {loops[t] : t \in 1 .. n} = {SizeLoop(d, sizes[t]) : t \in tiled}
      BY <1>1, <1>5
    <2>2. td.maxUb = Max({0} \cup {SizeLoop(d, sizes[t]) : t \in tiled}) % Word
      BY DEF MemsetTiling, MaxUb, tiled, sizes
    <2>3. \A t \in tiled : td.size[t] = sizes[t] % Word /\ td.sizeLoop[t] = SizeLoop(d, sizes[t]) % Word
      BY DEF MemsetTiling, tiled, sizes
    <2> HIDE DEF td, loops
    <2> QED
      BY <1>1, <1>5, <2>1, <2>2, <2>3
  <1> HIDE DEF td, loops, most
  <1>8. most < Word /\ most <= d.ubSize
    <2>1. CASE most = 0
      BY <1>3, <2>1, MemsetAssumption
    <2>2. CASE \E t \in 1 .. n : most = loops[t]
      BY <1>1, <1>3, <1>4, <1>5, <2>2
    <2> QED
      BY <1>6, <2>1, <2>2
  <1>9. td.maxUb = most
    BY <1>6, <1>7, <1>8, Small
  <1>10. ASSUME NEW t \in tiled
         PROVE  td.sizeLoop[t] <= td.maxUb /\ (td.size[t] > 0 => td.sizeLoop[t] > 0)
    <2>1. /\ loops[t] \in Nat /\ loops[t] < Word /\ loops[t] <= most
          /\ sizes[t] \in Nat /\ sizes[t] < Word
          /\ sizes[t] > 0 => loops[t] > 0
      BY <1>1, <1>2, <1>3, <1>4, <1>5, <1>6
    <2>2. td.sizeLoop[t] = loops[t] /\ td.size[t] = sizes[t]
      BY <1>7, <2>1, Small
    <2> QED
      BY <1>9, <2>1, <2>2
  <1> QED
    BY <1>1, <1>6, <1>8, <1>9, <1>10 DEF Fits, td

(* A core copies at least a byte, and no more zeros than it has.            *)
THEOREM ZerosDoSuffice ==
  ASSUME Served, Roomy
  PROVE  Spec => []ZerosSuffice
  <1>1. Init => WithinInv /\ FitsInv
    BY DEF Init, NoCall, WithinInv, CallInv, NothingBehind, FitsInv
  <1>2. WithinInv /\ [Next]_vars => WithinInv'
    BY WithinStep
  <1>3. WithinInv /\ FitsInv /\ [Next]_vars => FitsInv'
    <2> SUFFICES ASSUME WithinInv, FitsInv, [Next]_vars PROVE FitsInv'
      OBVIOUS
    <2>1. CASE Run
      <3>1. /\ tiling' = MemsetTiling(device, call) /\ call' = call /\ device' = device
            /\ device \in Devices /\ call \in Calls /\ device.coreNum > 0
        BY <2>1 DEF Run, WithinInv, CallInv
      <3>2. Fits(tiling', device, call)
        BY <3>1, TilingFits
      <3> QED
        BY <3>1, <3>2 DEF FitsInv
    <2>2. CASE ~Run
      <3>1. pc' = "device" => pc = "device" /\ UNCHANGED <<tiling, device, call>>
        BY <2>2 DEF Next, ClearTensors, HostMemset, Fail, CleanTensor, Finish, vars
      <3> QED
        BY <3>1 DEF FitsInv
    <2> QED
      BY <2>1, <2>2
  <1>4. WithinInv /\ FitsInv => ZerosSuffice
    <2> SUFFICES ASSUME WithinInv, FitsInv, pc = "device"
                 PROVE  /\ tiling.maxUb <= device.ubSize
                        /\ \A b \in DOMAIN cores :
                             cores[b].idx \in Given(call) /\ InPart(b, cores[b].idx) =>
                               HandleCount(b, cores[b].idx) \in 1 .. tiling.maxUb
      BY DEF ZerosSuffice
    <2>1. tiling.maxUb <= device.ubSize
      BY DEF FitsInv, Fits
    <2>2. ASSUME NEW b \in DOMAIN cores, NEW t \in Given(call), InPart(b, t)
          PROVE  HandleCount(b, t) \in 1 .. tiling.maxUb
      <3>1. /\ Reached(b, t) \in Nat
            /\ HandleCount(b, t) \in {tiling.size[t] - Reached(b, t), tiling.sizeLoop[t]}
            /\ HandleCount(b, t) <= tiling.sizeLoop[t]
            /\ tiling.size[t] - Reached(b, t) > 0
        BY <2>2, CopyWithin
      <3>2. tiling.sizeLoop[t] \in Nat /\ tiling.size[t] \in Nat
        BY MemsetAssumption DEF WithinInv, Describes
      <3>3. tiling.sizeLoop[t] <= tiling.maxUb /\ (tiling.size[t] > 0 => tiling.sizeLoop[t] > 0)
        <4>1. t \in DOMAIN call.sizes
          BY AllGiven DEF WithinInv, CallInv
        <4> QED
          BY <4>1 DEF FitsInv, Fits
      <3>4. tiling.maxUb \in Int
        BY DEF FitsInv, Fits
      <3> QED
        BY <3>1, <3>2, <3>3, <3>4
    <2> QED
      BY <2>1, <2>2
  <1> QED
    BY <1>1, <1>2, <1>3, <1>4, PTL DEF Spec
=============================================================================
