------------------------- MODULE MCReceiptResweep -------------------------
(* Model values for TLC's run of ReceiptResweep: one receipt, no collection *)
(* requests.                                                                *)
EXTENDS ReceiptResweep

MCNoFunction == [r \in Requests |-> None]
=============================================================================
