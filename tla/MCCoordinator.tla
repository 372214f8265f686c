--------------------------- MODULE MCCoordinator ---------------------------
(* Instances of Coordinator for TLC. *)
EXTENDS Coordinator, TLC

\* Ids are interchangeable, and so are the slots of requests and uploads.
Symmetry ==
  Permutations(Entries) \union Permutations(Blobs)
    \union Permutations(Requests) \union Permutations(Puts)
=============================================================================
