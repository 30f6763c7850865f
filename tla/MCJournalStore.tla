-------------------------- MODULE MCJournalStore --------------------------
(* Model checking JournalStore: one process runs commands that read first, *)
(* three run commands that append at once, and two of the four are killed. *)
EXTENDS JournalStore
=============================================================================
