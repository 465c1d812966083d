--------------------------- MODULE MCDocumentPurge ---------------------------
(* Model values for TLC's run of DocumentStore: a purge that is interrupted. *)
EXTENDS DocumentStore

CONSTANTS d1, d2, w1, w2
=============================================================================
