---- MODULE MCStorageLock ----
(* Model checking StorageLock: of three processes two are killed, one with *)
(* the lock and one while it reclaims it, and the third goes on.           *)
EXTENDS StorageLock
====
