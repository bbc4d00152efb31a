---------------------------- MODULE MCImageCleanup ----------------------------
(* Two services deployed from images of one repository.                       *)
EXTENDS ImageCleanup, TLC

CONSTANTS web, worker, A, B, C

Interchangeable == Permutations({B, C})
=============================================================================
