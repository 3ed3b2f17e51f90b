---------------------------- MODULE MCCdStreamWatch ----------------------------
EXTENDS CdStreamWatch
\* A stack in the lower half of memory, and one at the sign of the pointer.
MCTops == {6000, 8228}
Geometry(bytes) == [sectors |-> 8, bytes |-> bytes, free |-> 2, total |-> 3]
MCGeometries ==
  {Geometry(16), Geometry(128), Geometry(8), Geometry(48), Geometry(2048),
   [Geometry(16) EXCEPT !.free = 4], [Geometry(16) EXCEPT !.sectors = 2048]}
MCHeaps ==
  {[mode |-> 1, threshold |-> 400], [mode |-> 3, threshold |-> 0], [mode |-> 3, threshold |-> 128],
   [mode |-> 2, threshold |-> 0]}
\* Null, misaligned, and around the bottom, the top and the second stack.
MCBlocks == {0, 1016, 1024, 4100, 4104, 7984, 7992, 8344, 8352, 16184, 16192, 16296, 16304}
\* Null, and around the block at 4104, the second stack and the top.
MCPointers == {0, 3864, 3868, 4184, 7828, 7832, 16140, 16144}
MCClobbers == {[ecx |-> 77, edx |-> 78, fl |-> {"CF", "ZF", "SF", "IF"}]}
MCUsual ==
  [top |-> 6000, geometry |-> Geometry(16), heap |-> [mode |-> 3, threshold |-> 0], block |-> 4104,
   pointer |-> 4400, clobber |-> [ecx |-> 77, edx |-> 78, fl |-> {"CF", "SF"}]]
=============================================================================
