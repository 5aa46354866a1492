----------------------------- MODULE MCPlanung -----------------------------
(***************************************************************************)
(* Model checking the project schedule, the change requests to it, the     *)
(* rules of forms, and the organisation chart.  The four share no state,   *)
(* so a behaviour runs one of them, chosen by `teil`, and leaves the       *)
(* others in their initial state.  The chart shares model values with the  *)
(* others, which keeps the symmetry group small.                           *)
(***************************************************************************)
EXTENDS Zeitplan, ZeitplanAntrag, FormLogik, Organigramm, TLC

CONSTANTS el1, el2, ms, q1, q2, t1, t2, s1, s2

VARIABLE teil

(* Two steps and a milestone, all kinds of connections. *)
MCElemente == {el1, el2, ms}
MCMeilensteine == {ms}
MCUmzug == {el1}
MCKante ==
    {[von |-> el1, nach |-> el2, art |-> "ende_anfang", versatz |-> 0],
     [von |-> el2, nach |-> ms, art |-> "anfang_anfang", versatz |-> 1],
     [von |-> ms, nach |-> el2, art |-> "ende_ende", versatz |-> 0]}

MCAntraege == {q1, q2}
MCTechniker == {t1, t2}
MCSitzungen == {s1, s2}
Symmetrie == Permutations(MCAntraege) \cup Permutations(MCTechniker) \cup Permutations(MCSitzungen)

(* A number, a choice, a multiple choice, and a group with one field. *)
MCFelder == {"menge", "art", "wahl"}
MCGruppenfelder == {"teil"}
MCAntworten ==
    [menge |-> {Text(0), Text(1), Text(2)}, art |-> {Text(0), Text(3)},
     wahl |-> {Liste({3}), Liste({})}, teil |-> {Text(3), Text(4)}]

K(feld, op, wert, werte) == [feld |-> feld, op |-> op, wert |-> wert, werte |-> werte]
MCRegel(folge, ziel, effekt, klauseln) ==
    [ziel |-> ziel, folge |-> folge, sicht |-> "alle", effekt |-> effekt, alle |-> TRUE,
     klauseln |-> klauseln, quelle |-> "L", wert |-> Text(0)]
MCRegeln ==
    {[MCRegel(1, "art", "set_value", <<K("menge", "==", Text(1), {})>>) EXCEPT !.wert = Text(3)],
     [MCRegel(2, "menge", "set_value", <<K("art", "in", Text(0), {3})>>)
        EXCEPT !.wert = Text(2), !.sicht = "capture"],
     [MCRegel(3, "art", "require", <<K("menge", "<", Text(2), {}), K("art", "!=", Text(0), {})>>)
        EXCEPT !.alle = FALSE],
     [MCRegel(4, "teil", "show", <<K("art", "==", Text(3), {}), K("teil", "!=", Text(4), {})>>)
        EXCEPT !.sicht = "capture"],
     MCRegel(5, "G", "hide", <<K("wahl", "enthaelt", Text(3), {})>>),
     [MCRegel(6, "teil", "set_value", <<>>) EXCEPT !.quelle = "art"],
     [MCRegel(7, "menge", "readonly", <<>>) EXCEPT !.sicht = "summary"],
     MCRegel(8, "art", "readonly", <<K("menge", "<", Zahl(2), {})>>)}

(* The chart: the root and two positions; one user may hold them. *)
MCPositionen == {Wurzel} \cup MCTechniker
MCBesetzer == {el1}

MCInit ==
    /\ teil \in {"plan", "antrag", "form", "chart"}
    /\ ZpInit /\ ZaInit /\ FoInit /\ OgInit
    /\ ogKopien = ogEinzeln
    /\ teil # "plan" => planer = 1 /\ modus = "immer"
    /\ teil # "antrag" => gleichzeitig = 1
    /\ teil # "form" => redakteure = 1
    /\ teil # "chart" => ogEinzeln

MCNext ==
    \/ teil = "plan" /\ ZpNext /\ UNCHANGED <<teil, zaVars, foVars, ogVars>>
    \/ teil = "antrag" /\ ZaNext /\ UNCHANGED <<teil, zpVars, foVars, ogVars>>
    \/ teil = "form" /\ FoNext /\ UNCHANGED <<teil, zpVars, zaVars, ogVars>>
    \/ teil = "chart" /\ OgNext /\ UNCHANGED <<teil, zpVars, zaVars, foVars>>

MCSpec == MCInit /\ [][MCNext]_<<teil, zpVars, zaVars, foVars, ogVars>>

(* The tables of all four parts keep their types. *)
PlanungTyp == ZpTyp /\ ZaTyp /\ FoTyp /\ OgTyp
=============================================================================
