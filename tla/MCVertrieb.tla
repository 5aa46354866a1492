----------------------------- MODULE MCVertrieb -----------------------------
(***************************************************************************)
(* Model checking what an invoice is built from: the billing locks on      *)
(* recorded work, the instalments of a quote, the quote itself, and the    *)
(* stock that jobs use up; and who may manage rights in the tenant that    *)
(* sells all this.  The five share no state, so a behaviour runs           *)
(* one of them, chosen by `teil`, and leaves the others in their initial   *)
(* state.  They also share the model values x and y (pairs) and t, which   *)
(* keeps the symmetry group small.                                         *)
(***************************************************************************)
EXTENDS Leistungssperre, Abschlaege, Angebote, Lager, Rechte, TLC

CONSTANTS x1, x2, y1, y2, t1, t2, t3, zeit, mat, lager1, lager2, eine

VARIABLE teil

Paar == {x1, x2}
ZweitesPaar == {y1, y2}
Tripel == {t1, t2, t3}
Symmetrie == Permutations(Paar) \cup Permutations(ZweitesPaar) \cup Permutations(Tripel)

(* Billing locks: a time entry with kilometres and a material usage. *)
MCZeilen == {zeit, mat}
MCMaterial == {mat}
MCMitKm == {zeit}
MCStunden == {"zeit", "leistung"}

MCAnteile == {1}
MCMaengel == {mat}
MCInhalte == {0, 1, 2}
MCOrte == {lager1, lager2}
EineAnfrage == {eine}    \* the properties of the stock are about single requests
MCBedarfMenge == [d \in ZweitesPaar |-> 1]

MCInit ==
    /\ teil \in {"sperre", "abschlag", "angebot", "lager", "rechte"}
    /\ Init /\ AbInit /\ AnInit /\ LaInit /\ ReInit
    /\ teil # "sperre" => quelle = [z \in Zeilen |-> IF z \in Material THEN "material" ELSE "zeit"]
    /\ teil # "abschlag" => parallel = 1
    /\ teil # "angebot" => zugleich = 1

MCNext ==
    \/ teil = "sperre" /\ Next /\ UNCHANGED <<teil, abVars, anVars, laVars, reVars>>
    \/ teil = "abschlag" /\ AbNext /\ UNCHANGED <<teil, vars, anVars, laVars, reVars>>
    \/ teil = "angebot" /\ AnNext /\ UNCHANGED <<teil, vars, abVars, laVars, reVars>>
    \/ teil = "lager" /\ LaNext /\ UNCHANGED <<teil, vars, abVars, anVars, reVars>>
    \/ teil = "rechte" /\ ReNext /\ UNCHANGED <<teil, vars, abVars, anVars, laVars>>

MCSpec == MCInit /\ [][MCNext]_<<teil, vars, abVars, anVars, laVars, reVars>>

(* The tables of all five parts keep their types; in particular no stock is ever negative. *)
VertriebTyp == TypeOK /\ AbTyp /\ AnTyp /\ LaTyp /\ ReTyp
============================================================================
