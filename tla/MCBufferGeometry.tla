-------------------------- MODULE MCBufferGeometry --------------------------
(* BufferGeometry for TLC: an int of six bits, -32 .. 31.                  *)
EXTENDS BufferGeometry

(* Both sides of zero, of each other, and of the largest int; from eight   *)
(* pixels on an int cannot count the bytes of a row.                       *)
MCOffsets == {-1, 0, 1, 4, 15, 16, 31}
MCWidths == {-32, -1, 0, 1, 2, 7, 8, 16, 31}
MCHeights == {-1, 0, 1, 2, 3, 8, 31}
MCStrides == {-32, -4, -1, 0, 3, 4, 5, 8, 9, 28, 31}
MCPoolSizes == {1, 4, 16, 31}

(* Shorter than a pixel, as long as one, and as long as, shorter and       *)
(* longer than each pool and each accepted buffer.                         *)
MCFileSizes == {1, 3, 4, 7, 8, 15, 16, 23, 24, 31, 34}
=============================================================================
