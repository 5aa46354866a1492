------------------------------ MODULE Zeitplan ------------------------------
(***************************************************************************)
(* The Gantt schedule of one project (services/zeitplan_service.py):       *)
(* steps and milestones with dates in calendar days, connections between   *)
(* them, one phase whose span is derived, and one purchase order whose     *)
(* delivery date owns the milestone it is linked to.                       *)
(*                                                                         *)
(* A request of the planner is one action: it loads the plan, computes the *)
(* new dates and writes them back.  Only the creation of a connection is   *)
(* split between its check for a circle and its insertion, because that is *)
(* where two planners meet.  The Kanban board and the recycle bin change   *)
(* rows of the plan without going through the schedule; they are counted   *)
(* in fremd.                                                               *)
(***************************************************************************)
EXTENDS Integers, FiniteSets, FiniteSetsExt

CONSTANTS
  Elemente,       \* rows of the plan that are a step or a milestone
  Meilensteine,   \* those of them that are milestones
  Kante,          \* connections a planner may draw: von, nach, art, versatz
  Umzug,          \* rows that are moved between the phase and the top level
  MaxTag,         \* days are 0 .. MaxTag
  MaxKanten,      \* connections at once
  MaxFremd,       \* changes of the Kanban board and the recycle bin
  MaxPlaner,      \* planners that create a connection at the same time
  Ohne            \* NULL

ASSUME ZeitplanAnnahme ==
  /\ IsFiniteSet(Elemente) /\ Meilensteine \subseteq Elemente
  /\ Umzug \subseteq Elemente
  /\ Kante \subseteq [von : Elemente, nach : Elemente, versatz : Int,
                     art : {"ende_anfang", "anfang_anfang", "ende_ende"}]
  /\ {MaxTag, MaxKanten, MaxFremd, MaxPlaner} \subseteq Nat
  /\ Ohne \notin Int \cup Elemente

VARIABLES
  plan,        \* start_am and ende_am of every row
  da,          \* rows not in the recycle bin
  inPhase,     \* rows whose plan_phase_id names the phase
  spanne,      \* start_am and ende_am stored on the phase
  kanten,      \* rows of projekt_aufgabe_abhaengigkeiten
  modus,       \* projekt.verschiebe_modus
  bestellung,  \* the linked milestone, the delivery date, not deleted
  geprueft,    \* connections checked but not inserted yet
  planer,      \* planners of this run: 1 .. MaxPlaner
  fremd        \* changes made past the schedule

zpVars == <<plan, da, inPhase, spanne, kanten, modus, bestellung, geprueft, planer, fremd>>

Undatiert == [start |-> Ohne, ende |-> Ohne]
Zeitraum == {z \in [start : 0..MaxTag, ende : 0..MaxTag] : z.start =< z.ende}
Erlaubt(e) == IF e \in Meilensteine THEN {z \in Zeitraum : z.start = z.ende} ELSE Zeitraum

ZpTyp ==
  /\ plan \in [Elemente -> Zeitraum \cup {Undatiert}]
  /\ \A e \in Elemente : plan[e] \in Erlaubt(e) \cup {Undatiert}
  /\ da \subseteq Elemente /\ inPhase \subseteq Elemente
  /\ spanne \in Zeitraum \cup {Undatiert}
  /\ kanten \subseteq Kante /\ geprueft \subseteq Kante
  /\ modus \in {"bei_konflikt", "immer"}
  /\ bestellung \in [fuer : Meilensteine \cup {Ohne}, termin : 0..MaxTag \cup {Ohne}, da : BOOLEAN]
  /\ planer \in 1..MaxPlaner /\ fremd \in 0..MaxFremd

-----------------------------------------------------------------------------
(* The date logic. *)

Datiert(p) == {e \in Elemente : p[e] # Undatiert}

\* Connections between living rows with dates take part, all others are ignored.
AktiveKanten(p, lebend, ks) == {k \in ks : {k.von, k.nach} \subseteq Datiert(p) \cap lebend}

\* Mutant: the end stays behind.
GeschobenNurStart(z, tage) == [start |-> z.start + tage, ende |-> z.ende]

Geschoben(z, tage) == [start |-> z.start + tage, ende |-> z.ende + tage]

\* Mutant: a successor may start on the last day of its predecessor.
FruehesterStartAmEndtag(z, e, versatz) == z.ende + versatz

\* A milestone has no duration: its successor may start on the same day.
FruehesterStart(z, e, versatz) == (IF e \in Meilensteine THEN z.start ELSE z.ende + 1) + versatz

\* The days the successor nach has to move back so that k is kept.
Verletzung(von, nach, k) ==
  CASE k.art = "anfang_anfang" -> von.start + k.versatz - nach.start
    [] k.art = "ende_ende" -> von.ende + k.versatz - nach.ende
    [] OTHER -> FruehesterStart(von, k.von, k.versatz) - nach.start

\* Everything reachable from the set von over the connections ks, von included.
Erreichbar(ks, von) ==
  LET weiter[i \in 0..Cardinality(Elemente)] ==
        IF i = 0 THEN von
        ELSE weiter[i - 1] \cup {k.nach : k \in {j \in ks : j.von \in weiter[i - 1]}}
  IN weiter[Cardinality(Elemente)]

ImKreis(ks) == {e \in Elemente : \E k \in ks : k.von = e /\ e \in Erreichbar(ks, {k.nach})}
WuerdeZyklus(ks, k) == k.von \in Erreichbar(ks, {k.nach})

\* propagiere(): ausgang maps the rows the planner changed to the change of their
\* start and their end; every successor is judged after all of its predecessors.
Nachgezogen(p, aktiv, ausgang, erzwinge, fest) ==
  LET betroffen == Erreichbar(aktiv, DOMAIN ausgang \cup erzwinge)
      zug[n \in betroffen] ==
        LET ein == {k \in aktiv : k.nach = n}
            bewegt == {k \in ein : k.von \in betroffen}
            lage(v) == IF v \in betroffen THEN zug[v].lage ELSE p[v]
            mitgenommen ==
              IF modus = "immer" /\ bewegt # {}
              THEN Geschoben(p[n], Max({IF k.art = "anfang_anfang" THEN zug[k.von].start
                                        ELSE zug[k.von].ende : k \in bewegt}))
              ELSE p[n]
            noetig == Max({0} \cup {Verletzung(lage(k.von), mitgenommen, k) : k \in ein})
            neu == Geschoben(mitgenommen, noetig)
        IN IF n \in DOMAIN ausgang
             THEN [lage |-> p[n], start |-> ausgang[n].start, ende |-> ausgang[n].ende]
           ELSE IF n \in fest THEN [lage |-> p[n], start |-> 0, ende |-> 0]
           ELSE [lage |-> neu, start |-> neu.start - p[n].start, ende |-> neu.ende - p[n].ende]
  IN [e \in Elemente |-> IF e \in betroffen THEN zug[e].lage ELSE p[e]]

\* straffe_plan(): every row of wer with a predecessor goes to its earliest date.
Gestrafft(p, aktiv, wer) ==
  LET frei == wer \ Erreichbar(aktiv, ImKreis(aktiv))
      s[e \in Elemente] ==
        LET ein == {k \in aktiv : k.nach = e}
            dauer == p[e].ende - p[e].start
            frueh(k) == CASE k.art = "anfang_anfang" -> s[k.von].start + k.versatz
                          [] k.art = "ende_ende" -> s[k.von].ende + k.versatz - dauer
                          [] OTHER -> FruehesterStart(s[k.von], k.von, k.versatz)
        IN IF e \in frei /\ ein # {}
           THEN LET f == Max({frueh(k) : k \in ein}) IN [start |-> f, ende |-> f + dauer]
           ELSE p[e]
  IN s

ProjektEnde(p, knoten) == Max({p[e].ende : e \in knoten})

\* berechne_kritischen_pfad(): the latest end of every row, backwards from the
\* end of the project, and the float that is left to it.
Puffer(p, knoten, aktiv) ==
  LET dauer(e) == p[e].ende - p[e].start
      spaet[e \in knoten] ==
        Min({ProjektEnde(p, knoten)} \cup
            {CASE k.art = "anfang_anfang" -> spaet[k.nach] - dauer(k.nach) - k.versatz + dauer(e)
               [] k.art = "ende_ende" -> spaet[k.nach] - k.versatz
               [] OTHER -> spaet[k.nach] - dauer(k.nach) - k.versatz
                             - (IF e \in Meilensteine THEN 0 ELSE 1)
             : k \in {j \in aktiv : j.von = e}})
  IN [e \in knoten |-> spaet[e] - dauer(e) - p[e].start]

\* aktualisiere_phasenspannen().
Spanne(p, lebend, kinder) ==
  LET sicht == kinder \cap lebend \cap Datiert(p)
  IN IF sicht = {} THEN Undatiert
     ELSE [start |-> Min({p[e].start : e \in sicht}), ende |-> Max({p[e].ende : e \in sicht})]

\* vorlage_aus_projekt(): offsets from the earliest start and durations of the rows
\* with dates; vorlage_anwenden() lays them out again from another day.
Vorlage(p, knoten) ==
  [e \in knoten |-> [offset |-> p[e].start - Min({p[n].start : n \in knoten}),
                    dauer |-> IF e \in Meilensteine THEN 1 ELSE p[e].ende - p[e].start + 1]]
Angewendet(vorlage, tag) ==
  [e \in DOMAIN vorlage |->
     LET start == tag + vorlage[e].offset
     IN [start |-> start,
         ende |-> IF e \in Meilensteine THEN start ELSE start + vorlage[e].dauer - 1]]

\* Mutant: the dates of orders are not respected.
FestNie == {}

\* _feste_ids(): the milestone of an order that is not deleted.
Fest == IF bestellung.da THEN {bestellung.fuer} \ {Ohne} ELSE {}

-----------------------------------------------------------------------------
(* The requests of the schedule. *)

ZpInit ==
  /\ plan = [e \in Elemente |-> Undatiert]
  /\ da = Elemente
  /\ inPhase = Elemente
  /\ spanne = Undatiert
  /\ kanten = {} /\ geprueft = {}
  /\ modus \in {"bei_konflikt", "immer"}
  /\ bestellung = [fuer |-> Ohne, termin |-> Ohne, da |-> TRUE]
  /\ planer \in 1..MaxPlaner
  /\ fremd = 0

Aktiv(p) == AktiveKanten(p, da, kanten)

\* Dates stay within 0 .. MaxTag (a bound of the model).
InDenTagen(p) == \A e \in Datiert(p) : p[e] \in Zeitraum

\* A new plan is written together with the span of the phase.
Schreibe(p) ==
  /\ InDenTagen(p)
  /\ plan' = p
  /\ spanne' = Spanne(p, da, inPhase)

\* Mutant: the successors are not drawn along.
SetzeAllein(e, neu) == Schreibe([plan EXCEPT ![e] = neu])

\* aendere_element() for a step or milestone: only a row that has a date
\* afterwards draws its successors along; a circle among them aborts the request.
Setze(e, neu) ==
  LET alt == plan[e]
      p == [plan EXCEPT ![e] = neu]
      delta == IF alt = Undatiert THEN [start |-> 0, ende |-> 0]
               ELSE [start |-> neu.start - alt.start, ende |-> neu.ende - alt.ende]
  IN IF neu = Undatiert THEN Schreibe(p)
     ELSE /\ ImKreis(Aktiv(p)) \cap Erreichbar(Aktiv(p), {e}) = {}
          /\ Schreibe(Nachgezogen(p, Aktiv(p), [n \in {e} |-> delta], {}, Fest))

\* element_aendern() with new dates, refused while an order owns the date.
ElementAendern(e, neu) ==
  /\ e \in da \ Fest
  /\ neu # plan[e]
  /\ Setze(e, neu)
  /\ UNCHANGED <<da, inPhase, kanten, modus, bestellung, geprueft, planer, fremd>>

\* element_aendern() of the phase: all rows of it that have a date and no order.
PhaseVerschieben(tage) ==
  LET kinder == (inPhase \cap da \cap Datiert(plan)) \ Fest
      p == [e \in Elemente |-> IF e \in kinder THEN Geschoben(plan[e], tage) ELSE plan[e]]
  IN /\ spanne # Undatiert
     /\ ImKreis(Aktiv(p)) \cap Erreichbar(Aktiv(p), kinder) = {}
     /\ Schreibe(Nachgezogen(p, Aktiv(p), [n \in kinder |-> [start |-> tage, ende |-> tage]], {}, Fest))
     /\ UNCHANGED <<da, inPhase, kanten, modus, bestellung, geprueft, planer, fremd>>

\* element_aendern() with another phase_id.
PhaseWechseln(e) ==
  /\ e \in da \cap Umzug
  /\ inPhase' = IF e \in inPhase THEN inPhase \ {e} ELSE inPhase \cup {e}
  /\ spanne' = Spanne(plan, da, inPhase')
  /\ UNCHANGED <<plan, da, kanten, modus, bestellung, geprueft, planer, fremd>>

\* element_loeschen(): the row goes to the bin, its connections are deleted for good.
ElementLoeschen(e) ==
  /\ e \in da
  /\ da' = da \ {e}
  /\ kanten' = {k \in kanten : e \notin {k.von, k.nach}}
  /\ spanne' = Spanne(plan, da', inPhase)
  /\ UNCHANGED <<plan, inPhase, modus, bestellung, geprueft, planer, fremd>>

\* abhaengigkeit_anlegen() up to its last check.
KantePruefen(k) ==
  /\ Cardinality(geprueft) < planer
  /\ Cardinality(kanten \cup geprueft) < MaxKanten
  /\ k.von # k.nach
  /\ {k.von, k.nach} \subseteq da \cap Datiert(plan)
  /\ \A j \in kanten \cup geprueft : <<j.von, j.nach>> # <<k.von, k.nach>>
  /\ ~WuerdeZyklus({j \in kanten : {j.von, j.nach} \subseteq da}, k)
  /\ geprueft' = geprueft \cup {k}
  /\ UNCHANGED <<plan, da, inPhase, spanne, kanten, modus, bestellung, planer, fremd>>

\* _wende_regel_auf_nachfolger_an(): the plan is loaded again, and the connections
\* of the successor are enforced.  It fails on a successor without a date.
RegelAnwenden(nach) ==
  LET aktiv == AktiveKanten(plan, da, kanten')
  IN /\ nach \in da \cap Datiert(plan)
     /\ ImKreis(aktiv) \cap Erreichbar(aktiv, {nach}) = {}
     /\ Schreibe(Nachgezogen(plan, aktiv, [n \in {} |-> 0], {nach}, Fest))

KanteAnlegen(k) ==
  /\ k \in geprueft
  /\ geprueft' = geprueft \ {k}
  /\ kanten' = kanten \cup {k}
  /\ RegelAnwenden(k.nach)
  /\ UNCHANGED <<da, inPhase, modus, bestellung, planer, fremd>>

\* The request fails instead: a row lost its date or the new connection closes a
\* circle with one that was inserted meanwhile.
KanteScheitert(k) ==
  /\ k \in geprueft
  /\ LET aktiv == AktiveKanten(plan, da, kanten \cup {k})
     IN \/ k.nach \notin da \cap Datiert(plan)
        \/ ImKreis(aktiv) \cap Erreichbar(aktiv, {k.nach}) # {}
        \/ ~InDenTagen(Nachgezogen(plan, aktiv, [n \in {} |-> 0], {k.nach}, Fest))
  /\ geprueft' = geprueft \ {k}
  /\ UNCHANGED <<plan, da, inPhase, spanne, kanten, modus, bestellung, planer, fremd>>

KanteAendern(k, neu) ==
  /\ k \in kanten /\ neu.von = k.von /\ neu.nach = k.nach /\ neu # k
  /\ kanten' = (kanten \ {k}) \cup {neu}
  /\ RegelAnwenden(k.nach)
  /\ UNCHANGED <<da, inPhase, modus, bestellung, geprueft, planer, fremd>>

KanteLoeschen(k) ==
  /\ k \in kanten
  /\ kanten' = kanten \ {k}
  /\ UNCHANGED <<plan, da, inPhase, spanne, modus, bestellung, geprueft, planer, fremd>>

ModusSetzen ==
  /\ modus' = IF modus = "immer" THEN "bei_konflikt" ELSE "immer"
  /\ UNCHANGED <<plan, da, inPhase, spanne, kanten, bestellung, geprueft, planer, fremd>>

\* straffen() of the whole plan or of the phase.
Straffen(wer) ==
  /\ wer \in {Elemente, inPhase}
  /\ Schreibe(Gestrafft(plan, Aktiv(plan), wer \ Fest))
  /\ UNCHANGED <<da, inPhase, kanten, modus, bestellung, geprueft, planer, fremd>>

\* element_aendern() with a bestellung_id: the delivery date becomes the date.
BestellungVerknuepfen(e, termin) ==
  /\ e \in da \cap Meilensteine /\ bestellung.fuer = Ohne /\ bestellung.da
  /\ bestellung' = [bestellung EXCEPT !.fuer = e, !.termin = termin]
  /\ Setze(e, [start |-> termin, ende |-> termin])
  /\ UNCHANGED <<da, inPhase, kanten, modus, geprueft, planer, fremd>>

BestellungLoesen ==
  /\ bestellung.fuer \in da
  /\ bestellung' = [fuer |-> Ohne, termin |-> Ohne, da |-> TRUE]
  /\ spanne' = Spanne(plan, da, inPhase)
  /\ UNCHANGED <<plan, da, inPhase, kanten, modus, geprueft, planer, fremd>>

\* liefertermin_uebernehmen(), called when the order gets another delivery date;
\* a milestone in the bin is passed over.
LieferterminAendern(termin) ==
  /\ bestellung.fuer # Ohne /\ bestellung.da /\ termin # bestellung.termin
  /\ bestellung' = [bestellung EXCEPT !.termin = termin]
  /\ IF bestellung.fuer \in da
     THEN Setze(bestellung.fuer, [start |-> termin, ende |-> termin])
     ELSE UNCHANGED <<plan, spanne>>
  /\ UNCHANGED <<da, inPhase, kanten, modus, geprueft, planer, fremd>>

-----------------------------------------------------------------------------
(* Changes that do not go through the schedule. *)

Fremd == fremd < MaxFremd /\ fremd' = fremd + 1

\* delete_aufgabe() of the Kanban board: connections and phase are left as they are.
KanbanLoeschen(e) ==
  /\ Fremd
  /\ e \in da \ Meilensteine
  /\ da' = da \ {e}
  /\ UNCHANGED <<plan, inPhase, spanne, kanten, modus, bestellung, geprueft, planer>>

\* restore() of the recycle bin.
Wiederherstellen(e) ==
  /\ Fremd
  /\ e \in Elemente \ da
  /\ da' = da \cup {e}
  /\ UNCHANGED <<plan, inPhase, spanne, kanten, modus, bestellung, geprueft, planer>>

\* The order goes to the bin or comes back.
BestellungInDenPapierkorb ==
  /\ Fremd
  /\ bestellung.fuer # Ohne
  /\ bestellung' = [bestellung EXCEPT !.da = ~@]
  /\ UNCHANGED <<plan, da, inPhase, spanne, kanten, modus, geprueft, planer>>

\* With one planner a request ends before the next one begins.
AndereAnfrage ==
  /\ planer > 1 \/ geprueft = {}
  /\ \/ \E e \in Elemente :
          \/ \E neu \in Erlaubt(e) \cup {Undatiert} : ElementAendern(e, neu)
          \/ PhaseWechseln(e) \/ ElementLoeschen(e)
          \/ \E termin \in 0..MaxTag \cup {Ohne} : BestellungVerknuepfen(e, termin)
          \/ KanbanLoeschen(e) \/ Wiederherstellen(e)
     \/ \E tage \in {-1, 1} : PhaseVerschieben(tage)
     \/ \E k \in kanten : KanteLoeschen(k) \/ \E neu \in Kante : KanteAendern(k, neu)
     \/ ModusSetzen
     \/ \E wer \in {Elemente, inPhase} : Straffen(wer)
     \/ BestellungLoesen
     \/ \E termin \in 0..MaxTag \cup {Ohne} : LieferterminAendern(termin)
     \/ BestellungInDenPapierkorb

ZpNext ==
  \/ AndereAnfrage
  \/ \E k \in Kante : KantePruefen(k) \/ KanteAnlegen(k) \/ KanteScheitert(k)

ZpSpec == ZpInit /\ [][ZpNext]_zpVars

-----------------------------------------------------------------------------
Erfuellt(p, k) == Verletzung(p[k.von], p[k.nach], k) =< 0
Lebende == {k \in kanten : {k.von, k.nach} \subseteq da}

\* Connections never close a circle: dates could not be propagated and the plan
\* could no longer be read (zeitplan_service.py:352 calls circles excluded).  In every
\* set of rows one has no successor within the set.
KeinKreis ==
  \A S \in (SUBSET Elemente) \ {{}} : \E e \in S : \A k \in Lebende : k.von = e => k.nach \notin S

\* ... which holds as long as one planner works at a time and no row comes back
\* from the bin.
KeinKreisImPlaner == fremd = 0 /\ planer = 1 => KeinKreis

\* The stored span of the phase is the span of its living rows after every request
\* of the schedule.
SpanneStimmt == fremd = 0 => spanne = Spanne(plan, da, inPhase)

\* The milestone of an order is on the delivery date of the order, whatever is
\* moved, tightened or connected around it.
LieferterminGilt ==
  fremd = 0 /\ bestellung.fuer \in da =>
    plan[bestellung.fuer] = [start |-> bestellung.termin, ende |-> bestellung.termin]

\* Moving one row breaks no connection that was kept, except connections that lead
\* into the row itself or into a milestone with an order; no other row changes its
\* duration, and in the mode "bei_konflikt" no other row moves forward.  And a new
\* connection is kept from the moment it is in the plan, unless its successor
\* belongs to an order.
VerbindungenHalten ==
  [][/\ \A e \in Datiert(plan') :
          ElementAendern(e, plan'[e]) =>
            /\ \A k \in Aktiv(plan) :
                 Erfuellt(plan, k) /\ ~Erfuellt(plan', k) => k.nach \in {e} \cup Fest
            /\ \A n \in Datiert(plan) \ {e} :
                 /\ plan'[n].ende - plan'[n].start = plan[n].ende - plan[n].start
                 /\ modus = "bei_konflikt" => plan'[n].start >= plan[n].start
     /\ \A k \in kanten' \ kanten :
          {k.von, k.nach} \subseteq Datiert(plan') \cap da' =>
            Erfuellt(plan', k) \/ k.nach \in Fest]_zpVars

\* The float shown for a row is exact in a plan that keeps all its connections: the
\* row can be late by that many days without moving the end of the project, and
\* not by one day more.  berechne_kritischen_pfad() against propagiere().
PufferStimmt ==
  LET knoten == da \cap Datiert(plan)
      aktiv == Aktiv(plan)
      puffer == Puffer(plan, knoten, aktiv)
      verspaetet(e, tage) ==
        Nachgezogen([plan EXCEPT ![e] = Geschoben(@, tage)], aktiv,
                    [n \in {e} |-> [start |-> tage, ende |-> tage]], {}, {})
  IN /\ modus = "bei_konflikt" /\ knoten # {}
     /\ ImKreis(aktiv) = {}
     /\ \A k \in aktiv : Erfuellt(plan, k)
     => \A e \in knoten :
         /\ ProjektEnde(verspaetet(e, puffer[e]), knoten) = ProjektEnde(plan, knoten)
         /\ ProjektEnde(verspaetet(e, puffer[e] + 1), knoten) > ProjektEnde(plan, knoten)

\* Tightening is thorough: afterwards no row without an order breaks a connection,
\* and doing it again changes nothing.
StraffenIstFertig ==
  LET aktiv == Aktiv(plan)
      s == Gestrafft(plan, aktiv, Elemente \ Fest)
  IN ImKreis(aktiv) = {} =>
       /\ \A k \in aktiv : Erfuellt(s, k) \/ k.nach \in Fest
       /\ Gestrafft(s, aktiv, Elemente \ Fest) = s

\* A template made from the plan and applied from any day is the same plan, shifted:
\* it keeps exactly the connections the plan keeps.
VorlageErhaeltPlan ==
  LET knoten == da \cap Datiert(plan)
      neu == Angewendet(Vorlage(plan, knoten), MaxTag)
  IN knoten # {} =>
       /\ \E tage \in 0..MaxTag : \A e \in knoten : neu[e] = Geschoben(plan[e], tage)
       /\ \A k \in Aktiv(plan) : Erfuellt(neu, k) <=> Erfuellt(plan, k)

\* What is stored fits together (no circle, the span of the phase, the delivery dates), and
\* what is computed from it is exact (the float, tightening, templates).
PlanStimmt ==
  /\ KeinKreisImPlaner /\ SpanneStimmt /\ LieferterminGilt
  /\ PufferStimmt /\ StraffenIstFertig /\ VorlageErhaeltPlan
=============================================================================
