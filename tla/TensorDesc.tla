------------------------------ MODULE TensorDesc ------------------------------
(***************************************************************************)
(* TensorDesc: the number of elements of a tensor whose dimensions are the *)
(* vector of SVector, and the check that the tensors of a launch are not   *)
(* too large.  The products are of 64-bit integers; Numel is signed, the   *)
(* number of bytes is not and wraps around.                                *)
(***************************************************************************)
EXTENDS SVector

CONSTANTS
  INT64_MAX,       \* the largest of a signed integer
  INT32_MAX,       \* the largest dimension
  MAX_DIM,         \* of dimensions, MIN_DIM being 1
  MAX_SHAPE_SIZE,  \* of bytes, 256 GB
  ElementSizes     \* what GetTensorElementSize can return

ASSUME TensorDescAssumption ==
  /\ Elems \subseteq Int
  /\ INT64_MAX \in Nat /\ INT32_MAX \in 1 .. INT64_MAX
  /\ MAX_DIM \in Nat /\ MAX_SHAPE_SIZE \in 1 .. INT64_MAX
  /\ ElementSizes \subseteq Nat

UINT64_MAX == 2 * INT64_MAX + 1

(* The product; 0 for a dimension that is none, or for a product that the   *)
(* integers do not have.                                                    *)
CalNumel(dims) ==
  LET count[i \in 0 .. dims.size] ==
        IF i = 0 THEN 1
        ELSE LET before == count[i - 1]
                 d == dims.storage[i - 1]
             IN  IF before = 0 \/ d <= 0 \/ d > INT32_MAX \/ INT64_MAX \div before < d
                 THEN 0 ELSE before * d
  IN  count[dims.size]

Numel(dims) == IF dims.size = 0 THEN 0 ELSE CalNumel(dims)

(* Mutant of View: dimensions that have no elements are compared as well.   *)
ViewAnyway(dims, newDims) ==
  IF CalNumel(newDims) = Numel(dims) THEN newDims ELSE dims

(* The same elements under other dimensions, where that is possible.        *)
View(dims, newDims) ==
  IF CalNumel(newDims) # 0 /\ CalNumel(newDims) = Numel(dims) THEN newDims ELSE dims

(* Mutant of CheckInTensor: the product is not divided to see whether it    *)
(* has wrapped around.                                                      *)
CheckInTensorWraps(dims, elementSize) ==
  /\ dims.size \in 1 .. MAX_DIM
  /\ Numel(dims) # 0
  /\ elementSize # 0
  /\ (elementSize * Numel(dims)) % (UINT64_MAX + 1) <= MAX_SHAPE_SIZE

CheckInTensor(dims, elementSize) ==
  /\ dims.size \in 1 .. MAX_DIM
  /\ Numel(dims) # 0
  /\ elementSize # 0
  /\ Numel(dims) <= UINT64_MAX \div elementSize
  /\ (elementSize * Numel(dims)) % (UINT64_MAX + 1) <= MAX_SHAPE_SIZE

(* A tensor, as the check sees it: hasData is that of the device or of the  *)
(* host, or a dataSize.                                                     *)
Tensors(dims) == [dims : {dims}, elementSize : ElementSizes, hasData : BOOLEAN]

CheckEmptyTensor(t) == Numel(t.dims) = 0 /\ ~t.hasData

CheckInTensors(ts) ==
  \A i \in DOMAIN ts : CheckEmptyTensor(ts[i]) \/ CheckInTensor(ts[i].dims, ts[i].elementSize)

-----------------------------------------------------------------------------
ProductOf(dims) ==
  LET product[i \in 0 .. dims.size] ==
        IF i = 0 THEN 1 ELSE product[i - 1] * dims.storage[i - 1]
  IN  product[dims.size]

BytesOf(t) == ProductOf(t.dims) * t.elementSize

(***************************************************************************)
(* Of the tensors that CheckInTensors lets through each that has data has  *)
(* positive dimensions, and a size in bytes, of the integers and not of    *)
(* the machine, that is within the bound.                                  *)
(***************************************************************************)
AcceptedFits ==
  \A t \in Tensors(vec) :
    CheckInTensors(<<t>>) /\ t.hasData =>
      /\ \A i \in 1 .. vec.size : ListOf(vec)[i] > 0
      /\ BytesOf(t) \in 1 .. MAX_SHAPE_SIZE

(***************************************************************************)
(* A tensor that is viewed under other dimensions has the elements it had, *)
(* and the check still lets it through, unless it now has more dimensions  *)
(* than a tensor may have.  (The empty vector counts one element for       *)
(* CalNumel and none for Numel: viewed under it a tensor of one element    *)
(* becomes a tensor of none, so it is left out.)                           *)
(***************************************************************************)
ViewKeepsElements ==
  \A new \in {View(vec, newDims) : newDims \in {d \in AllLists : d.size > 0}} :
    /\ ProductOf(new) = ProductOf(vec)
    /\ new.size <= MAX_DIM =>
         \A t \in Tensors(vec) : CheckInTensors(<<t>>) => CheckInTensors(<<[t EXCEPT !.dims = new]>>)
=============================================================================
