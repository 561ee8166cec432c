\* Two kernels, room for all their buffers, callers that switch the tiling mode
\* as they like.
SPECIFICATION Spec
CONSTANTS
  Kernels = {k1, k2}
  Blocks = {b1, b2, b3, b4}
  CallerBuffers = {c1}
  Launches = {l1, l2}
  NULL = NULL
  Blank = Blank
SYMMETRY Interchangeable
INVARIANTS OwnedOnce NoLeak LaunchCoherent
PROPERTIES CallerBuffersKept ImplementsHeap
