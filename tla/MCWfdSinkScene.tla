--------------------------- MODULE MCWfdSinkScene ---------------------------
(* Devices, surfaces and the threads of the client are interchangeable. *)
EXTENDS WfdSinkScene, TLC

Interchangeable == Permutations(Devices) \cup Permutations(Surfaces) \cup Permutations(Clients)
=============================================================================
