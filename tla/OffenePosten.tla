---------------------------- MODULE OffenePosten ----------------------------
(***************************************************************************)
(* Invoices, payments, credit notes and cancellations                      *)
(* (app/api/routes/rechnungen.py, app/services/rechnung_service.py,        *)
(* app/services/rechnungsart_service.py).                                  *)
(*                                                                         *)
(* Every HTTP request is one database transaction under READ COMMITTED.    *)
(* It loads the invoice, reads sums, and writes; only the credit note      *)
(* locks the invoice, and credit notes and cancellations meet again at the *)
(* counter row of the number range.  A request is therefore a sequence of  *)
(* steps here: what it has read travels with it, and its writes become     *)
(* visible in the last step, the commit.                                   *)
(*                                                                         *)
(* Amounts are whole units; an invoice has a positive amount and a credit  *)
(* note takes back part of it.  The two SUM queries of the code appear as  *)
(* running totals, which is exact because the rows they add up are only    *)
(* inserted or cancelled by the actions of this module.                    *)
(***************************************************************************)
EXTENDS Integers, FiniteSets

CONSTANTS
  Belege,       \* all documents that may ever exist
  Rechnungen,   \* those that exist at the start, as drafts
  Betrag,       \* their gross amounts
  Buchungen,    \* the payments that may ever be booked
  Anfragen,     \* requests that may run at the same time
  MaxBetrag,    \* bound on the amount a request asks for
  Nichts        \* stands for None

ASSUME KonstantenAnnahme ==
  /\ Rechnungen \subseteq Belege /\ IsFiniteSet(Belege) /\ IsFiniteSet(Buchungen)
  /\ Betrag \in [Rechnungen -> Nat \ {0}]
  /\ MaxBetrag \in Nat
  /\ Nichts \notin Belege \cup Buchungen

VARIABLES
  beleg,          \* the table rechnungen
  papierkorb,     \* documents with geloescht_am set
  zahlung,        \* the incoming payments of rechnung_zahlungen
  gezahlt,        \* SUM(betrag) of rechnung_zahlungen per document
  gutgeschrieben, \* sum of the credit notes in force per document
  vorgang,        \* is the job "abgerechnet"?
  gemeldet,       \* the last status a job event reported for a document
  anfrage         \* the running requests

daten == <<beleg, papierkorb, zahlung, gezahlt, gutgeschrieben, vorgang, gemeldet>>
vars == <<beleg, papierkorb, zahlung, gezahlt, gutgeschrieben, vorgang, gemeldet, anfrage>>

Status == {"frei", "entwurf", "versendet", "teilweise_bezahlt", "bezahlt", "storniert"}
Versandt == {"versendet", "teilweise_bezahlt", "bezahlt"}
Zahlbar == {"versendet", "teilweise_bezahlt"}

\* "storno" is rechnungsart 'rechnung' with ist_storno; bezug is
\* bezug_rechnung_id of a credit note, storniert_rechnung_id of a storno.
Belegart == {"rechnung", "gutschrift", "storno"}
Beleg(a, s, n, v) == [art |-> a, status |-> s, brutto |-> n, bezug |-> v]
BelegTyp == [art : Belegart, status : Status, brutto : Int, bezug : Belege \cup {Nichts}]

\* gegen: number of negative entries that point at this payment.
Buchung(b, n, g) == [beleg |-> b, betrag |-> n, gegen |-> g]
BuchungTyp == [beleg : Belege \cup {Nichts}, betrag : Nat, gegen : Nat]

Vorhaben == {"keins", "versand", "loeschen", "zahlung", "abschluss", "zahlungsstorno", "storno", "gutschrift"}
Phase == {"frei", "geladen", "geprueft", "gesperrt", "nummer"}

\* The last three fields are what the request has read so far.
Anfrage(o, p, b, n, z, s, sz, sg) ==
  [art |-> o, phase |-> p, beleg |-> b, betrag |-> n, buchung |-> z,
   status |-> s, gezahlt |-> sz, gut |-> sg]
AnfrageTyp ==
  [art : Vorhaben, phase : Phase, beleg : Belege \cup {Nichts}, betrag : Nat,
   buchung : Buchungen \cup {Nichts}, status : Status, gezahlt : Int, gut : Int]

TypeOK ==
  /\ beleg \in [Belege -> BelegTyp]
  /\ papierkorb \in SUBSET Belege
  /\ zahlung \in [Buchungen -> BuchungTyp]
  /\ gezahlt \in [Belege -> Int]
  /\ gutgeschrieben \in [Belege -> Int]
  /\ vorgang \in BOOLEAN
  /\ gemeldet \in [Belege -> Status]
  /\ anfrage \in [Anfragen -> AnfrageTyp]

Keine == Anfrage("keins", "frei", Nichts, 0, Nichts, "frei", 0, 0)

Init ==
  /\ beleg = [b \in Belege |-> IF b \in Rechnungen THEN Beleg("rechnung", "entwurf", Betrag[b], Nichts)
                                                   ELSE Beleg("rechnung", "frei", 0, Nichts)]
  /\ papierkorb = {}
  /\ zahlung = [z \in Buchungen |-> Buchung(Nichts, 0, 0)]
  /\ gezahlt = [b \in Belege |-> 0]
  /\ gutgeschrieben = [b \in Belege |-> 0]
  /\ vorgang = FALSE
  /\ gemeldet = [b \in Belege |-> "frei"]
  /\ anfrage = [a \in Anfragen |-> Keine]

-----------------------------------------------------------------------------
(***************************************************************************)
(* The rules of the open item.                                             *)
(***************************************************************************)

Groesser(x, y) == IF x > y THEN x ELSE y

\* offener_betrag_regel
Offen(brutto, z, g) == Groesser(brutto - z - g, 0)

\* Mutant: the last cent decides too late.
StatusNachZahlungZuSpaet(brutto, z, aktuell, g) ==
  IF brutto - z - g < 0 THEN "bezahlt" ELSE IF z > 0 THEN "teilweise_bezahlt" ELSE aktuell

\* status_nach_zahlung
StatusNachZahlung(brutto, z, aktuell, g) ==
  IF brutto - z - g <= 0 THEN "bezahlt" ELSE IF z > 0 THEN "teilweise_bezahlt" ELSE aktuell

\* The end of storno_zahlung.
StatusNachGegenbuchung(brutto, z, aktuell, g) ==
  IF z <= 0 /\ g <= 0 THEN "versendet"
  ELSE IF brutto - z - g > 0 THEN (IF z > 0 THEN "teilweise_bezahlt" ELSE "versendet")
  ELSE aktuell

\* status_nach_gutschriften
StatusNachGutschriften(brutto, z, aktuell, g) ==
  IF aktuell \notin Versandt THEN aktuell
  ELSE IF brutto - z - g <= 0 THEN "bezahlt"
  ELSE IF z > 0 THEN "teilweise_bezahlt" ELSE "versendet"

\* nicht_storniert and not in the bin: g is a credit note in force.
Zaehlt(g) ==
  beleg[g].art = "gutschrift" /\ beleg[g].status \notin {"frei", "storniert"} /\ g \notin papierkorb

\* gutschriften_zu
GutschriftenZu(b) == {g \in Belege : Zaehlt(g) /\ beleg[g].bezug = b}

FreieBelege == {b \in Belege : beleg[b].status = "frei"}
FreieBuchungen == {z \in Buchungen : zahlung[z].beleg = Nichts}

-----------------------------------------------------------------------------
(***************************************************************************)
(* Locks.  FOR UPDATE on the original conflicts with every later write to  *)
(* its row and with every insert that refers to it; the counter row of the *)
(* number range is held until commit.                                      *)
(***************************************************************************)

HaeltZeile(a, b) ==
  anfrage[a].art = "gutschrift" /\ anfrage[a].phase \in {"gesperrt", "nummer"} /\ anfrage[a].beleg = b

\* The inserted but uncommitted entry of a payment cancellation.
HaeltVerweis(a, b) ==
  anfrage[a].art = "zahlungsstorno" /\ anfrage[a].phase = "geprueft" /\ anfrage[a].beleg = b

\* May a write the row of b, or a row that refers to it?
Frei(a, b) == \A c \in Anfragen \ {a} : ~HaeltZeile(c, b)

NummerFrei == \A a \in Anfragen : anfrage[a].phase # "nummer"

-----------------------------------------------------------------------------
(***************************************************************************)
(* Loading: the checks every request makes first, on the row it sees.      *)
(***************************************************************************)

Laufend(arten) == {a \in Anfragen : anfrage[a].art \in arten}

\* Bound: every running request finds a free document or payment id.
Platz(o) ==
  /\ o \in {"storno", "gutschrift"} => Cardinality(FreieBelege) > Cardinality(Laufend({"storno", "gutschrift"}))
  /\ o \in {"zahlung", "abschluss"} => Cardinality(FreieBuchungen) > Cardinality(Laufend({"zahlung", "abschluss"}))

\* _rechnung_laden
Laden(a, o, b, n, z) ==
  /\ anfrage[a].phase = "frei"
  /\ Platz(o)
  /\ b \notin papierkorb
  /\ anfrage' = [anfrage EXCEPT ![a] = Anfrage(o, "geladen", b, n, z, beleg[b].status, 0, 0)]
  /\ UNCHANGED daten

LadeVersand(a, b) == beleg[b].status = "entwurf" /\ Laden(a, "versand", b, 0, Nichts)

LadeLoeschen(a, b) == beleg[b].status = "entwurf" /\ Laden(a, "loeschen", b, 0, Nichts)

LadeZahlung(a, b, n) ==
  /\ beleg[b].status \in Zahlbar
  /\ beleg[b].art # "gutschrift"
  /\ Laden(a, "zahlung", b, n, Nichts)

\* PATCH status=bezahlt
LadeAbschluss(a, b) ==
  /\ beleg[b].status \in Zahlbar
  /\ beleg[b].art # "gutschrift"
  /\ Laden(a, "abschluss", b, 0, Nichts)

LadeZahlungsstorno(a, b, z) ==
  /\ beleg[b].status # "storniert"
  /\ zahlung[z].beleg = b
  /\ zahlung[z].gegen = 0
  /\ Laden(a, "zahlungsstorno", b, zahlung[z].betrag, z)

\* Mutant: a cancelled document may be cancelled again.
LadeStornoErneut(a, b) ==
  beleg[b].status \in Versandt \cup {"storniert"} /\ Laden(a, "storno", b, 0, Nichts)

LadeStorno(a, b) == beleg[b].status \in Versandt /\ Laden(a, "storno", b, 0, Nichts)

LadeGutschrift(a, b, n) ==
  /\ beleg[b].status \in Versandt
  /\ beleg[b].art = "rechnung"
  /\ Laden(a, "gutschrift", b, n, Nichts)

-----------------------------------------------------------------------------
(***************************************************************************)
(* Reading and locking.                                                    *)
(***************************************************************************)

Weiter(a, p, s, sz, sg) ==
  /\ anfrage' = [anfrage EXCEPT ![a] = Anfrage(@.art, p, @.beleg, @.betrag, @.buchung, s, sz, sg)]
  /\ UNCHANGED daten

In(a, o, p) == anfrage[a].art = o /\ anfrage[a].phase = p

\* add_zahlung and the manual settlement read the ledger.
LiesKonto(a) ==
  LET b == anfrage[a].beleg IN
  /\ \/ In(a, "abschluss", "geladen")
     \/ /\ In(a, "zahlung", "geladen")
        /\ anfrage[a].betrag <= Offen(beleg[b].brutto, gezahlt[b], gutgeschrieben[b])
  /\ Weiter(a, "geprueft", anfrage[a].status, gezahlt[b], gutgeschrieben[b])

\* storno_zahlung has flushed its negative entry and reads the ledger.
LiesNachGegenbuchung(a) ==
  LET b == anfrage[a].beleg IN
  /\ In(a, "zahlungsstorno", "geladen")
  /\ Frei(a, b)
  /\ Weiter(a, "geprueft", anfrage[a].status, gezahlt[b] - anfrage[a].betrag, gutgeschrieben[b])

PruefeStorno(a) ==
  /\ In(a, "storno", "geladen")
  /\ GutschriftenZu(anfrage[a].beleg) = {}
  /\ Weiter(a, "geprueft", anfrage[a].status, 0, 0)

Rest(b) == beleg[b].brutto - gutgeschrieben[b]

\* Mutant: the quantities are read without the lock.
SperreOriginalNicht(a) ==
  LET b == anfrage[a].beleg IN
  /\ In(a, "gutschrift", "geladen")
  /\ \A c \in Anfragen \ {a} : ~HaeltVerweis(c, b)
  /\ anfrage[a].betrag <= Rest(b)
  /\ Weiter(a, "gesperrt", anfrage[a].status, 0, 0)

\* erstelle_gutschrift: FOR UPDATE, then the quantities; the status that
\* was checked before is not looked at again.
SperreOriginal(a) ==
  LET b == anfrage[a].beleg IN
  /\ In(a, "gutschrift", "geladen")
  /\ Frei(a, b)
  /\ \A c \in Anfragen \ {a} : ~HaeltVerweis(c, b)
  /\ anfrage[a].betrag <= Rest(b)
  /\ Weiter(a, "gesperrt", anfrage[a].status, 0, 0)

NimmNummerFuerGutschrift(a) ==
  /\ In(a, "gutschrift", "gesperrt")
  /\ NummerFrei
  /\ Weiter(a, "nummer", anfrage[a].status, 0, 0)

\* erstelle_stornorechnung; for a credit note the invoice behind it is read
\* at the end, without the credit note that is being cancelled.
NimmNummerFuerStorno(a) ==
  LET g == anfrage[a].beleg
      r == beleg[g].bezug IN
  /\ In(a, "storno", "geprueft")
  /\ NummerFrei
  /\ IF beleg[g].art = "gutschrift"
     THEN Weiter(a, "nummer", beleg[r].status, gezahlt[r],
                 gutgeschrieben[r] + (IF Zaehlt(g) THEN beleg[g].brutto ELSE 0))
     ELSE Weiter(a, "nummer", anfrage[a].status, 0, 0)

-----------------------------------------------------------------------------
(***************************************************************************)
(* Writing and committing.                                                 *)
(***************************************************************************)

Fertig(a) == anfrage' = [anfrage EXCEPT ![a] = Keine]

SetzeStatus(b, s) == beleg' = [beleg EXCEPT ![b].status = s]

\* Only a status that differs from the one loaded reaches the database.
SchreibeStatus(b, s, geladen) == IF s = geladen THEN UNCHANGED beleg ELSE SetzeStatus(b, s)

BucheEin(b, n) ==
  /\ \E z \in FreieBuchungen : zahlung' = [zahlung EXCEPT ![z] = Buchung(b, n, 0)]
  /\ gezahlt' = [gezahlt EXCEPT ![b] = @ + n]

\* PATCH status=versendet.  The trigger on festgeschriebene rows refuses the
\* second of two requests, whose versendet_am differs.
SchreibeVersand(a) ==
  LET b == anfrage[a].beleg IN
  /\ In(a, "versand", "geladen")
  /\ beleg[b].status = "entwurf"
  /\ SetzeStatus(b, "versendet")
  /\ gemeldet' = [gemeldet EXCEPT ![b] = "versendet"]
  /\ Fertig(a)
  /\ UNCHANGED <<papierkorb, zahlung, gezahlt, gutgeschrieben, vorgang>>

\* delete_rechnung and soft_delete
SchreibeLoeschen(a) ==
  /\ In(a, "loeschen", "geladen")
  /\ Frei(a, anfrage[a].beleg)
  /\ papierkorb' = papierkorb \cup {anfrage[a].beleg}
  /\ Fertig(a)
  /\ UNCHANGED <<beleg, zahlung, gezahlt, gutgeschrieben, vorgang, gemeldet>>

\* add_zahlung
SchreibeZahlung(a) ==
  LET q == anfrage[a]
      s == StatusNachZahlung(beleg[q.beleg].brutto, q.gezahlt + q.betrag, q.status, q.gut) IN
  /\ In(a, "zahlung", "geprueft")
  /\ Frei(a, q.beleg)
  /\ BucheEin(q.beleg, q.betrag)
  /\ SchreibeStatus(q.beleg, s, q.status)
  /\ vorgang' = (vorgang \/ s = "bezahlt")
  /\ Fertig(a)
  /\ UNCHANGED <<papierkorb, gutgeschrieben, gemeldet>>

\* PATCH status=bezahlt books the rest.
SchreibeAbschluss(a) ==
  LET q == anfrage[a]
      n == Offen(beleg[q.beleg].brutto, q.gezahlt, q.gut) IN
  /\ In(a, "abschluss", "geprueft")
  /\ Frei(a, q.beleg)
  /\ IF n > 0 THEN BucheEin(q.beleg, n) ELSE UNCHANGED <<zahlung, gezahlt>>
  /\ SetzeStatus(q.beleg, "bezahlt")
  /\ vorgang' = TRUE
  /\ gemeldet' = [gemeldet EXCEPT ![q.beleg] = "bezahlt"]
  /\ Fertig(a)
  /\ UNCHANGED <<papierkorb, gutgeschrieben>>

\* Mutant: the payment is deleted instead of countered.
LoescheZahlung(a) ==
  LET q == anfrage[a] IN
  /\ In(a, "zahlungsstorno", "geprueft")
  /\ zahlung' = [zahlung EXCEPT ![q.buchung] = Buchung(Nichts, 0, 0)]
  /\ gezahlt' = [gezahlt EXCEPT ![q.beleg] = @ - q.betrag]
  /\ SchreibeStatus(q.beleg, StatusNachGegenbuchung(beleg[q.beleg].brutto, q.gezahlt, q.status, q.gut), q.status)
  /\ Fertig(a)
  /\ UNCHANGED <<papierkorb, gutgeschrieben, vorgang, gemeldet>>

\* storno_zahlung
SchreibeGegenbuchung(a) ==
  LET q == anfrage[a] IN
  /\ In(a, "zahlungsstorno", "geprueft")
  /\ zahlung' = [zahlung EXCEPT ![q.buchung].gegen = @ + 1]
  /\ gezahlt' = [gezahlt EXCEPT ![q.beleg] = @ - q.betrag]
  /\ SchreibeStatus(q.beleg, StatusNachGegenbuchung(beleg[q.beleg].brutto, q.gezahlt, q.status, q.gut), q.status)
  /\ Fertig(a)
  /\ UNCHANGED <<papierkorb, gutgeschrieben, vorgang, gemeldet>>

\* Does the cancelled credit note g change the status of its invoice?
BezugStatus(a) ==
  LET q == anfrage[a] IN
  StatusNachGutschriften(beleg[beleg[q.beleg].bezug].brutto, q.gezahlt, q.status, q.gut)

\* The rows the commit of a cancellation has to write besides new ones.
StornoZeilen(a) ==
  LET g == anfrage[a].beleg IN
  {g} \cup (IF beleg[g].art = "gutschrift" /\ BezugStatus(a) # anfrage[a].status THEN {beleg[g].bezug} ELSE {})

\* storno_rechnung: the counter-document, the cancelled document, and the
\* status of the invoice behind a credit note.
SchreibeStorno(a) ==
  LET q == anfrage[a]
      zeilen == StornoZeilen(a) IN
  /\ In(a, "storno", "nummer")
  /\ \A b \in zeilen : Frei(a, b)
  /\ \E s \in FreieBelege :
       beleg' = [b \in Belege |->
         IF b = s THEN Beleg("storno", "versendet", -beleg[q.beleg].brutto, q.beleg)
         ELSE IF b \notin zeilen THEN beleg[b]
         ELSE Beleg(beleg[b].art, IF b = q.beleg THEN "storniert" ELSE BezugStatus(a),
                    beleg[b].brutto, beleg[b].bezug)]
  /\ gutgeschrieben' = IF Zaehlt(q.beleg)
                       THEN [gutgeschrieben EXCEPT ![beleg[q.beleg].bezug] = @ + beleg[q.beleg].brutto]
                       ELSE gutgeschrieben
  /\ Fertig(a)
  /\ UNCHANGED <<papierkorb, zahlung, gezahlt, vorgang, gemeldet>>

\* create_gutschrift: was the rest paid, so that the job is settled?
RechnetVorgangAb(alt, neu, brutto, g) == alt # "bezahlt" /\ neu = "bezahlt" /\ g < brutto

\* create_gutschrift and erstelle_gutschrift
SchreibeGutschrift(a) ==
  LET q == anfrage[a]
      r == q.beleg
      g == gutgeschrieben[r] + q.betrag
      s == StatusNachGutschriften(beleg[r].brutto, gezahlt[r], beleg[r].status, g) IN
  /\ In(a, "gutschrift", "nummer")
  /\ \E n \in FreieBelege :
       beleg' = [b \in Belege |->
         IF b = n THEN Beleg("gutschrift", "versendet", -q.betrag, r)
         ELSE IF b = r THEN Beleg(beleg[r].art, s, beleg[r].brutto, beleg[r].bezug)
         ELSE beleg[b]]
  /\ gutgeschrieben' = [gutgeschrieben EXCEPT ![r] = g]
  /\ vorgang' = (vorgang \/ RechnetVorgangAb(beleg[r].status, s, beleg[r].brutto, g))
  /\ Fertig(a)
  /\ UNCHANGED <<papierkorb, zahlung, gezahlt, gemeldet>>

-----------------------------------------------------------------------------
(***************************************************************************)
(* Requests without a step in between, and requests that end early.        *)
(***************************************************************************)

\* PATCH status=storniert on a draft: an audit entry and a job event, but the
\* branch does not assign the status.
EntwurfStornieren(b) ==
  /\ beleg[b].status = "entwurf"
  /\ b \notin papierkorb
  /\ gemeldet' = [gemeldet EXCEPT ![b] = "storniert"]
  /\ UNCHANGED <<beleg, papierkorb, zahlung, gezahlt, gutgeschrieben, vorgang, anfrage>>

\* restore: a credit note counts again.
Wiederherstellen(b) ==
  /\ b \in papierkorb
  /\ \A a \in Anfragen : ~HaeltZeile(a, b)
  /\ papierkorb' = papierkorb \ {b}
  /\ gutgeschrieben' = IF beleg[b].art = "gutschrift" /\ beleg[b].status # "storniert"
                       THEN [gutgeschrieben EXCEPT ![beleg[b].bezug] = @ - beleg[b].brutto]
                       ELSE gutgeschrieben
  /\ UNCHANGED <<beleg, zahlung, gezahlt, vorgang, gemeldet, anfrage>>

\* Mutant: a payment that is too high waits instead of being refused.
AblehnenOhneZahlung(a) ==
  LET q == anfrage[a]
      b == anfrage[a].beleg IN
  /\ \/ In(a, "versand", "geladen") /\ beleg[b].status # "entwurf"
     \/ In(a, "storno", "geladen") /\ GutschriftenZu(b) # {}
     \/ In(a, "gutschrift", "geladen") /\ q.betrag > Rest(b)
  /\ Fertig(a)
  /\ UNCHANGED daten

\* 400, 409, 422, or the trigger: the transaction is rolled back.
Ablehnen(a) ==
  LET q == anfrage[a]
      b == anfrage[a].beleg IN
  /\ \/ In(a, "zahlung", "geladen") /\ q.betrag > Offen(beleg[b].brutto, gezahlt[b], gutgeschrieben[b])
     \/ In(a, "versand", "geladen") /\ beleg[b].status # "entwurf"
     \/ In(a, "storno", "geladen") /\ GutschriftenZu(b) # {}
     \/ In(a, "gutschrift", "geladen") /\ q.betrag > Rest(b)
  /\ Fertig(a)
  /\ UNCHANGED daten

\* A cancellation holds the number and waits for a row; the credit note
\* holds the row and waits for the number.
Kreis(s, g) ==
  /\ In(s, "storno", "nummer")
  /\ In(g, "gutschrift", "gesperrt")
  /\ anfrage[g].beleg \in StornoZeilen(s)

\* The database ends one of the two.
Verklemmt(a) ==
  /\ \E c \in Anfragen : Kreis(a, c) \/ Kreis(c, a)
  /\ Fertig(a)
  /\ UNCHANGED daten

\* Any failure before the commit: S3, the database, the client is gone.
Abbruch(a) ==
  /\ anfrage[a].phase # "frei"
  /\ Fertig(a)
  /\ UNCHANGED daten

Betraege == 1..MaxBetrag

Beginn(a) ==
  \E b \in Belege :
    \/ LadeVersand(a, b)
    \/ LadeLoeschen(a, b)
    \/ LadeAbschluss(a, b)
    \/ LadeStorno(a, b)
    \/ \E n \in Betraege : LadeZahlung(a, b, n) \/ LadeGutschrift(a, b, n)
    \/ \E z \in Buchungen : LadeZahlungsstorno(a, b, z)

Schritt(a) ==
  \/ LiesKonto(a)
  \/ LiesNachGegenbuchung(a)
  \/ PruefeStorno(a)
  \/ SperreOriginal(a)
  \/ NimmNummerFuerGutschrift(a)
  \/ NimmNummerFuerStorno(a)
  \/ SchreibeVersand(a)
  \/ SchreibeLoeschen(a)
  \/ SchreibeZahlung(a)
  \/ SchreibeAbschluss(a)
  \/ SchreibeGegenbuchung(a)
  \/ SchreibeStorno(a)
  \/ SchreibeGutschrift(a)
  \/ Ablehnen(a)
  \/ Verklemmt(a)

Next ==
  \/ \E a \in Anfragen : Beginn(a) \/ Schritt(a) \/ Abbruch(a)
  \/ \E b \in Belege : EntwurfStornieren(b) \/ Wiederherstellen(b)

Spec == Init /\ [][Next]_vars

(***************************************************************************)
(* Fairness: a request that can go on does, and PostgreSQL resolves        *)
(* deadlocks (deadlock_timeout).  A transaction that waits for the number  *)
(* or for a row gets its turn.  Nobody has to send a request.              *)
(***************************************************************************)
FairSpec == Spec /\ \A a \in Anfragen : SF_vars(Schritt(a))

-----------------------------------------------------------------------------
(***************************************************************************)
(* Properties.                                                             *)
(***************************************************************************)

(***************************************************************************)
(* "Parallele Gutschriften duerfen die Mengen-Obergrenze nicht gemeinsam   *)
(* ueberschreiten": whatever runs at the same time, the credit notes of an *)
(* invoice never take back more than the invoice charges.                  *)
(***************************************************************************)
GutschriftNieUeberRechnung ==
  \A b \in Belege : beleg[b].art = "rechnung" => gutgeschrieben[b] <= beleg[b].brutto

(***************************************************************************)
(* A document is cancelled exactly when there is one counter-document for  *)
(* it, of the opposite amount.                                             *)
(***************************************************************************)
Stornos(b) == {s \in Belege : beleg[s].art = "storno" /\ beleg[s].bezug = b}

GenauEinStorno ==
  \A b \in Belege :
    /\ Cardinality(Stornos(b)) = (IF beleg[b].status = "storniert" THEN 1 ELSE 0)
    /\ \A s \in Stornos(b) : beleg[s].brutto = -beleg[b].brutto

(***************************************************************************)
(* The job is settled only by money, or by a counter-document somebody     *)
(* marked as paid: a fully credited invoice settles nothing                *)
(* (create_gutschrift).                                                    *)
(***************************************************************************)
AbgerechnetHatGrund ==
  vorgang => \/ \E z \in Buchungen : zahlung[z].beleg # Nichts
             \/ \E b \in Belege : beleg[b].art = "storno" /\ gemeldet[b] = "bezahlt"

(***************************************************************************)
(* What was shipped stays in the books: no document loses its amount, its  *)
(* kind or its reference, and no payment disappears, whatever requests     *)
(* overlap (festschreibung and the additive ledger).                       *)
(***************************************************************************)
BelegeBleiben ==
  [][/\ \A b \in Belege : beleg[b].status \notin {"frei", "entwurf"} =>
          /\ beleg'[b].status \notin {"frei", "entwurf"}
          /\ [beleg'[b] EXCEPT !.status = beleg[b].status] = beleg[b]
     /\ \A z \in Buchungen : zahlung[z].beleg # Nichts =>
          /\ zahlung'[z].beleg = zahlung[z].beleg
          /\ zahlung'[z].betrag = zahlung[z].betrag
          /\ zahlung'[z].gegen >= zahlung[z].gegen]_vars

(***************************************************************************)
(* "Invariante offener_betrag == brutto - Summe(Zahlungen) - Gutschriften  *)
(* muss immer gelten" (update_rechnung): as long as nothing was credited,  *)
(* the open amount, which is cut off at zero, is exactly that difference.  *)
(***************************************************************************)
OffenerBetragStimmt ==
  \A b \in Belege : beleg[b].art = "rechnung" /\ gutgeschrieben[b] = 0 =>
    Offen(beleg[b].brutto, gezahlt[b], gutgeschrieben[b]) = beleg[b].brutto - gezahlt[b] - gutgeschrieben[b]

(***************************************************************************)
(* The status a job event reports is the status the document takes with it *)
(* (update_rechnung: "Status '{neuer_status}'"; PHASE_6.md: "storniert von *)
(* entwurf/versendet aus moeglich").                                       *)
(***************************************************************************)
EreignisStimmt ==
  [][\A b \in Belege : gemeldet'[b] # gemeldet[b] => beleg'[b].status = gemeldet'[b]]_vars

(***************************************************************************)
(* Every request ends, although credit notes and cancellations take the    *)
(* row and the number in opposite orders.                                  *)
(***************************************************************************)
AnfrageEndet == \A a \in Anfragen : []<>(anfrage[a].phase = "frei")
=============================================================================
