---------------------------- MODULE MCFeeLedger ----------------------------
(* Model values and bounds for TLC's runs of FeeLedger.                    *)
EXTENDS FeeLedger, TLC

CONSTANTS s1, s2, k1, k2

\* Both invoices bill s1, so cash can move between them; s2 only pays and is
\* credited.
MCStudentOf == [a \in Invoices |-> s1]
MCSymmetry == Permutations({k1, k2})
=============================================================================
