--------------------------- MODULE MCStorageLock ---------------------------
(* StorageLock with small sets of workers and a short clock. *)
EXTENDS StorageLock

=============================================================================
