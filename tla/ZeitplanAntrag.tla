--------------------------- MODULE ZeitplanAntrag ---------------------------
(***************************************************************************)
(* Change requests to the schedule (services/zeitplan_antrag_service.py):  *)
(* a technician asks for other dates of a step, the office accepts or      *)
(* declines, the technician may withdraw.  Every decision loads the        *)
(* request, checks that it is open, and writes at the end of its           *)
(* transaction; nothing locks the row, so that decisions of several        *)
(* people may overlap (gleichzeitig > 1).                                  *)
(***************************************************************************)
EXTENDS Integers, FiniteSets

CONSTANTS
  Antraege,      \* requests that can be created
  Techniker,
  Sitzungen,     \* sessions in which a request is created or decided
  LetzterTag,    \* days are 0 .. LetzterTag
  Leerlauf       \* a session with nothing to do

ASSUME AntragAnnahme ==
  /\ IsFiniteSet(Antraege) /\ IsFiniteSet(Techniker) /\ IsFiniteSet(Sitzungen)
  /\ LetzterTag \in Nat /\ Leerlauf \notin Antraege

VARIABLES
  schritt,       \* the step: its dates, in the plan or deleted, date owned by an order
  antraege,      \* rows of zeitplan_aenderungsantraege
  sitzung,       \* what every session has checked and not written yet
  angewendet,    \* requests whose dates were written into the plan
  gleichzeitig   \* sessions that work at once in this behaviour

zaVars == <<schritt, antraege, sitzung, angewendet, gleichzeitig>>

Tage == 0..LetzterTag
AntragArten == {"verschieben", "dauer_aendern", "problem"}
Kein == [status |-> "kein"]
Antrag == [status : {"offen", "angenommen", "abgelehnt", "zurueckgezogen"},
           art : AntragArten, start : Tage, ende : Tage, von : Techniker]
Vorgesehen == [antrag : Antraege, tut : {"anlegen"}, zeile : Antrag]
                \cup [antrag : Antraege, tut : {"annehmen", "ablehnen", "zurueckziehen"}]

ZaTyp ==
  /\ schritt \in [start : Tage, ende : Tage, da : BOOLEAN, bestellt : BOOLEAN]
  /\ schritt.start =< schritt.ende
  /\ antraege \in [Antraege -> Antrag \cup {Kein}]
  /\ sitzung \in [Sitzungen -> Vorgesehen \cup {Leerlauf}]
  /\ angewendet \subseteq Antraege
  /\ gleichzeitig \in 1..Cardinality(Sitzungen)

ZaInit ==
  /\ schritt = [start |-> 0, ende |-> 0, da |-> TRUE, bestellt |-> FALSE]
  /\ antraege = [a \in Antraege |-> Kein]
  /\ sitzung = [s \in Sitzungen |-> Leerlauf]
  /\ angewendet = {}
  /\ gleichzeitig \in 1..Cardinality(Sitzungen)

BeginntSitzung(s, vorhaben) ==
  /\ sitzung[s] = Leerlauf
  /\ Cardinality({t \in Sitzungen : sitzung[t] # Leerlauf}) < gleichzeitig
  /\ sitzung' = [sitzung EXCEPT ![s] = vorhaben]

\* Two days wide at most: a wish never ends before it starts.
Wunsch(art, start, ende) ==
  CASE art = "verschieben" -> start =< ende
    [] art = "dauer_aendern" -> ende >= schritt.start /\ start = 0
    [] OTHER -> start = 0 /\ ende = 0

\* erstellen(): one open request per technician and step, no dates while an order
\* owns them.
ErstellenPruefen(s, a, u, art, start, ende) ==
  /\ antraege[a] = Kein /\ a \notin {sitzung[t].antrag : t \in {q \in Sitzungen : sitzung[q] # Leerlauf}}
  /\ schritt.da
  /\ (schritt.bestellt => art = "problem")
  /\ Wunsch(art, start, ende)
  /\ u \notin {antraege[b].von : b \in {c \in Antraege : antraege[c].status = "offen"}}
  /\ BeginntSitzung(s, [antrag |-> a, tut |-> "anlegen",
                        zeile |-> [status |-> "offen", art |-> art, start |-> start,
                                   ende |-> ende, von |-> u]])
  /\ UNCHANGED <<schritt, antraege, angewendet, gleichzeitig>>

ErstellenSchreiben(s) ==
  /\ sitzung[s] # Leerlauf /\ sitzung[s].tut = "anlegen"
  /\ antraege' = [antraege EXCEPT ![sitzung[s].antrag] = sitzung[s].zeile]
  /\ sitzung' = [sitzung EXCEPT ![s] = Leerlauf]
  /\ UNCHANGED <<schritt, angewendet, gleichzeitig>>

\* _offener_antrag().
IstOffen(a) == antraege[a].status = "offen"

\* Mutant: a request that is decided may be decided again.
EntscheidungOhneStatus(s, a, tut) ==
  /\ antraege[a] # Kein
  /\ (tut = "annehmen" => schritt.da)
  /\ BeginntSitzung(s, [antrag |-> a, tut |-> tut])
  /\ UNCHANGED <<schritt, antraege, angewendet, gleichzeitig>>

EntscheidungPruefen(s, a, tut) ==
  /\ IstOffen(a)
  /\ (tut = "annehmen" => schritt.da)
  /\ BeginntSitzung(s, [antrag |-> a, tut |-> tut])
  /\ UNCHANGED <<schritt, antraege, angewendet, gleichzeitig>>

\* element_aendern() with the wish; refused when an order owns the date by now, or
\* when the step starts after the end that was wished for.
Uebernommen(antrag) ==
  CASE antrag.art = "verschieben" ->
         /\ ~schritt.bestellt
         /\ schritt' = [schritt EXCEPT !.start = antrag.start, !.ende = antrag.ende]
    [] antrag.art = "dauer_aendern" ->
         /\ ~schritt.bestellt /\ antrag.ende >= schritt.start
         /\ schritt' = [schritt EXCEPT !.ende = antrag.ende]
    [] OTHER -> UNCHANGED schritt

Beendet == [annehmen |-> "angenommen", ablehnen |-> "abgelehnt", zurueckziehen |-> "zurueckgezogen"]

EntscheidungSchreiben(s) ==
  /\ sitzung[s] # Leerlauf /\ sitzung[s].tut # "anlegen"
  /\ LET a == sitzung[s].antrag
         tut == sitzung[s].tut
     IN /\ antraege' = [antraege EXCEPT ![a].status = Beendet[tut]]
        /\ IF tut = "annehmen"
           THEN schritt.da /\ Uebernommen(antraege[a]) /\ angewendet' = angewendet \cup {a}
           ELSE UNCHANGED <<schritt, angewendet>>
  /\ sitzung' = [sitzung EXCEPT ![s] = Leerlauf]
  /\ UNCHANGED gleichzeitig

\* The request is answered with an error; the row stays open.
EntscheidungScheitert(s) ==
  /\ sitzung[s] # Leerlauf /\ sitzung[s].tut = "annehmen"
  /\ LET antrag == antraege[sitzung[s].antrag]
     IN \/ ~schritt.da
        \/ schritt.bestellt /\ antrag.art # "problem"
        \/ antrag.art = "dauer_aendern" /\ antrag.ende < schritt.start
  /\ sitzung' = [sitzung EXCEPT ![s] = Leerlauf]
  /\ UNCHANGED <<schritt, antraege, angewendet, gleichzeitig>>

\* Meanwhile the planner moves the step, links it to an order or deletes it.
PlanAendern ==
  \/ \E start \in Tage, ende \in Tage :
       /\ schritt.da /\ ~schritt.bestellt /\ start =< ende
       /\ schritt' = [schritt EXCEPT !.start = start, !.ende = ende]
       /\ UNCHANGED <<antraege, sitzung, angewendet, gleichzeitig>>
  \/ /\ schritt' = [schritt EXCEPT !.bestellt = ~@]
     /\ UNCHANGED <<antraege, sitzung, angewendet, gleichzeitig>>
  \/ /\ schritt.da
     /\ schritt' = [schritt EXCEPT !.da = FALSE]
     /\ UNCHANGED <<antraege, sitzung, angewendet, gleichzeitig>>

ZaNext ==
  \/ \E s \in Sitzungen :
       \/ \E a \in Antraege, u \in Techniker, art \in AntragArten, start \in Tage, ende \in Tage :
            ErstellenPruefen(s, a, u, art, start, ende)
       \/ ErstellenSchreiben(s)
       \/ \E a \in Antraege, tut \in DOMAIN Beendet : EntscheidungPruefen(s, a, tut)
       \/ EntscheidungSchreiben(s) \/ EntscheidungScheitert(s)
  \/ PlanAendern

ZaSpec == ZaInit /\ [][ZaNext]_zaVars

-----------------------------------------------------------------------------
\* With one decision at a time: a request that was declined or withdrawn never changed
\* the plan, and an accepted one did, so the status tells what happened to the dates;
\* and a technician has at most one open request for the step.
AntragGilt ==
  gleichzeitig = 1 =>
    /\ \A a \in Antraege : a \in angewendet <=> antraege[a].status = "angenommen"
    /\ \A a, b \in Antraege : IstOffen(a) /\ IstOffen(b) /\ antraege[a].von = antraege[b].von => a = b
=============================================================================
