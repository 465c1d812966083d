----------------------------- MODULE MCRecords -----------------------------
(* TLC's run of the components of Records: model values and bounds.         *)
EXTENDS Records, TLC

CONSTANTS w1, w2, s1, s2, d1, d2, g1, g2, c1, c2, sms, email, k1, k2, t1, e1, e2

(* Two guardians with addresses of their own, or with one telephone between them. *)
MCAddressBooks ==
    {[x \in Guardians |-> [ch \in Channels |-> IF x = g1 THEN c1 ELSE IF ch = sms THEN s ELSE c2]] : s \in {c1, c2}}
MCBandChoices == {[label |-> "A", min |-> 1, max |-> 1], [label |-> "B", min |-> 0, max |-> 1]}
MCAssigned == {<<t1, k1>>, <<t1, k2>>}

\* Of the sets swapped together each component has one.
Swap(S) == [x \in S |-> CHOOSE y \in S : y # x]
MCSymmetry ==
    Permutations(Workers) \cup {Swap(Students) @@ Swap(Documents) @@ Swap(Employees) @@ Swap(Periods)}
=============================================================================
