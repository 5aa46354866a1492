-------------------------- MODULE MCLeistungssperre --------------------------
(***************************************************************************)
(* Instances of the billing locks for TLC.                                 *)
(***************************************************************************)
EXTENDS Leistungssperre, TLC

CONSTANTS z1, z2, m1, r1, r2, p1, p2, p3

ZweiZeilen == {z1, m1}
DreiZeilen == {z1, z2, m1}
EinMaterial == {m1}
EineFahrt == {z1}
ZweiRechnungen == {r1, r2}
ZweiPositionen == {p1, p2}
DreiPositionen == {p1, p2, p3}
ZweiQuellen == {"zeit", "leistung"}
EineQuelle == {"zeit"}

Symmetrie == Permutations(ZweiRechnungen) \cup Permutations(DreiPositionen)
=============================================================================
