---------------------------- MODULE MCFormLogik ----------------------------
(***************************************************************************)
(* Instance of the form rules for TLC: a multiple choice and a rule that   *)
(* hides another field.                                                    *)
(***************************************************************************)
EXTENDS FormLogik

MCFelder == {"art", "wahl"}
MCGruppenfelder == {"teil"}
MCAntworten ==
    [art |-> {Text(0), Text(3)}, wahl |-> {Liste({}), Liste({3})}, teil |-> {Text(3)}]
MCRegeln ==
    {[ziel |-> "art", folge |-> n, sicht |-> "alle", effekt |-> effekt, alle |-> TRUE,
      klauseln |-> <<[feld |-> "wahl", op |-> "enthaelt", wert |-> Text(3), werte |-> {}]>>,
      quelle |-> "L", wert |-> Text(0)] : n \in {1}, effekt \in {"hide"}}
=============================================================================
