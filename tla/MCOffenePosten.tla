--------------------------- MODULE MCOffenePosten ---------------------------
(***************************************************************************)
(* Instances of the open items for TLC.                                    *)
(***************************************************************************)
EXTENDS OffenePosten, TLC

CONSTANTS r1, x1, x2, x3, z1, z2, z3, a1, a2

EineRechnung == {r1}
DreiBelege == {r1, x1, x2}
VierBelege == {r1, x1, x2, x3}
EineBuchung == {z1}
ZweiBuchungen == {z1, z2}
DreiBuchungen == {z1, z2, z3}
EineAnfrage == {a1}
ZweiAnfragen == {a1, a2}

\* Two units, so that a payment or a credit note may be partial.
BetragZwei == [r \in EineRechnung |-> 2]
BetragDrei == [r \in EineRechnung |-> 3]

SymmetrieSeriell == Permutations({x1, x2, x3}) \cup Permutations({z1, z2, z3})
SymmetrieParallel == Permutations({x1, x2, x3}) \cup Permutations({z1, z2}) \cup Permutations({a1, a2})
=============================================================================
