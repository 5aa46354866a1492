--------------------------- MODULE Leistungssperre ---------------------------
(***************************************************************************)
(* Billing of recorded time, kilometres and material                       *)
(* (app/services/rechnung_service.py, app/services/papierkorb_service.py,  *)
(* app/api/routes/rechnungen.py, app/api/routes/zeiterfassung.py).         *)
(*                                                                         *)
(* A position of an invoice draft locks the rows it charges: hours and     *)
(* material by a status and a reference to the invoice, kilometres by a    *)
(* reference of their own.  Removing the position, binning the draft and   *)
(* cancelling the invoice free them again; restoring the draft locks them  *)
(* anew by the references it left behind.                                  *)
(*                                                                         *)
(* One request is one step here.  All rows belong to one job; running      *)
(* timers, rows that are not billable and quantities are left out.         *)
(***************************************************************************)
EXTENDS Naturals, FiniteSets

CONSTANTS
  Zeilen,       \* time entries and material usages
  Material,     \* those that are material usages
  MitKm,        \* time entries that carry kilometres
  Rechnungen,   \* invoices, drafts at the start
  Positionen,   \* positions that may exist at the same time
  Stunden,      \* sources of hours in use, of "zeit", "fahrzeit", "leistung"
  Nichts        \* stands for None

ASSUME LeistungAnnahme ==
  /\ Material \subseteq Zeilen
  /\ MitKm \subseteq Zeilen \ Material
  /\ Stunden \subseteq {"zeit", "fahrzeit", "leistung"}
  /\ Stunden # {}
  /\ Nichts \notin Rechnungen

VARIABLES
  stand,      \* buchungsstatus, or abrechnungsstatus of a material usage
  quelle,     \* the source a row is billed under: its category, rate or kind
  verweis,    \* abgerechnet_rechnung_id
  km,         \* km_abgerechnet_rechnung_id
  geloescht,  \* time entries in the recycle bin
  status,     \* rechnungen.status
  papierkorb, \* invoices in the recycle bin
  position    \* table rechnung_positionen

zeile == <<stand, quelle, verweis, km, geloescht>>
rechnung == <<status, papierkorb>>
vars == <<zeile, rechnung, position>>

Quellen == Stunden \cup {"fahrtkosten", "material"}
Verweis == Rechnungen \cup {Nichts}

Stand == {"vermerkt", "vorgemerkt", "gebucht", "offen", "abgerechnet"}

\* "versendet" stands for the paid states too; "weg" is a deleted row.
Status == {"entwurf", "versendet", "storniert", "weg"}

\* umfang: the rows whose hours, kilometres or material make up the quantity.
PositionTyp == [rechnung : Verweis, quelle : Quellen, umfang : SUBSET Zeilen]

\* Every row is a row of its table, every reference an invoice or None.
TypeOK ==
  /\ stand \in [Zeilen -> Stand]
  /\ quelle \in [Zeilen -> Quellen]
  /\ verweis \in [Zeilen -> Verweis]
  /\ km \in [Zeilen -> Verweis]
  /\ geloescht \in SUBSET Zeilen
  /\ status \in [Rechnungen -> Status]
  /\ papierkorb \in SUBSET Rechnungen
  /\ position \in [Positionen -> PositionTyp]

Keine == [rechnung |-> Nichts, quelle |-> "material", umfang |-> {}]

Init ==
  /\ stand = [z \in Zeilen |-> IF z \in Material THEN "offen" ELSE "vermerkt"]
  /\ quelle \in [Zeilen -> Stunden \cup {"material"}]
  /\ \A z \in Zeilen : quelle[z] = "material" <=> z \in Material
  /\ verweis = [z \in Zeilen |-> Nichts]
  /\ km = [z \in Zeilen |-> Nichts]
  /\ geloescht = {}
  /\ status = [r \in Rechnungen |-> "entwurf"]
  /\ papierkorb = {}
  /\ position = [p \in Positionen |-> Keine]

-----------------------------------------------------------------------------
Entwurf(r) == status[r] = "entwurf" /\ r \notin papierkorb
EntwurfImPapierkorb(r) == status[r] = "entwurf" /\ r \in papierkorb

\* The status a row has before it is billed and gets back when freed.
Ungesperrt(z) == IF z \in Material THEN "offen" ELSE "gebucht"

\* km_gesperrt, the negation of km_frei_bedingung
KmGesperrt(z) == km[z] # Nichts /\ ~EntwurfImPapierkorb(km[z])

\* A row is locked for invoice r with its hours or its material.
GesperrtFuer(z, r) == stand[z] = "abgerechnet" /\ verweis[z] = r

\* _zeiterfassung_fuer_quelle and the selection of material_abrechnen
Abrechenbar(q) ==
  IF q = "fahrtkosten"
    THEN {z \in MitKm : /\ stand[z] \in {"gebucht", "abgerechnet"}
                        /\ ~KmGesperrt(z)
                        /\ z \notin geloescht}
    ELSE {z \in Zeilen : /\ quelle[z] = q
                         /\ stand[z] = Ungesperrt(z)
                         /\ z \notin geloescht}

PositionenVon(r) == {p \in Positionen : position[p].rechnung = r}
FreiePositionen == {p \in Positionen : position[p].rechnung = Nichts}

-----------------------------------------------------------------------------
(***************************************************************************)
(* What the billing functions write.                                       *)
(***************************************************************************)

\* zeiterfassung_abrechnen and material_abrechnen for every source in qs
Abrechnen(r, qs) ==
  LET leistung == UNION {Abrechenbar(q) : q \in qs \ {"fahrtkosten"}}
      fahrt == IF "fahrtkosten" \in qs THEN Abrechenbar("fahrtkosten") ELSE {} IN
  /\ stand' = [z \in Zeilen |-> IF z \in leistung THEN "abgerechnet" ELSE stand[z]]
  /\ verweis' = [z \in Zeilen |-> IF z \in leistung THEN r ELSE verweis[z]]
  /\ km' = [z \in Zeilen |-> IF z \in fahrt THEN r ELSE km[z]]
  /\ UNCHANGED <<quelle, geloescht>>

\* The rows in zs get their hours' or material's share back; the reference
\* stays when restoring shall find the rows again.
Entsperren(zs, verweisBehalten) ==
  /\ stand' = [z \in Zeilen |-> IF z \in zs THEN Ungesperrt(z) ELSE stand[z]]
  /\ verweis' = [z \in Zeilen |-> IF z \in zs /\ ~verweisBehalten THEN Nichts ELSE verweis[z]]

KmLoesen(r) == km' = [z \in Zeilen |-> IF km[z] = r THEN Nichts ELSE km[z]]

\* zeiterfassung_abrechnung_zuruecksetzen and material_abrechnung_zuruecksetzen:
\* only the share of source q becomes free
Zuruecksetzen(r, q) ==
  /\ IF q = "fahrtkosten"
       THEN KmLoesen(r) /\ UNCHANGED <<stand, verweis>>
       ELSE Entsperren({z \in Zeilen : GesperrtFuer(z, r) /\ quelle[z] = q}, FALSE) /\ UNCHANGED km
  /\ UNCHANGED <<quelle, geloescht>>

\* Mutant: material is forgotten.
FreigebenNurZeit(r, verweisBehalten) ==
  /\ Entsperren({z \in Zeilen \ Material : GesperrtFuer(z, r)}, verweisBehalten)
  /\ IF verweisBehalten THEN UNCHANGED km ELSE KmLoesen(r)
  /\ UNCHANGED <<quelle, geloescht>>

\* zeiterfassung_freigeben_fuer_rechnung and material_freigeben_fuer_rechnung
Freigeben(r, verweisBehalten) ==
  /\ Entsperren({z \in Zeilen : GesperrtFuer(z, r)}, verweisBehalten)
  /\ IF verweisBehalten THEN UNCHANGED km ELSE KmLoesen(r)
  /\ UNCHANGED <<quelle, geloescht>>

\* zeiterfassung_wieder_sperren_fuer_rechnung, material_wieder_sperren_fuer_rechnung
WiederSperren(r) ==
  LET eigene == {z \in Zeilen : verweis[z] = r /\ stand[z] = Ungesperrt(z) /\ z \notin geloescht} IN
  /\ stand' = [z \in Zeilen |-> IF z \in eigene THEN "abgerechnet" ELSE stand[z]]
  /\ UNCHANGED <<quelle, verweis, km, geloescht>>

\* zeiterfassung_verweis_loesen and material_verweis_loesen
VerweisLoesen(r) ==
  /\ verweis' = [z \in Zeilen |-> IF verweis[z] = r /\ stand[z] = Ungesperrt(z) THEN Nichts ELSE verweis[z]]
  /\ KmLoesen(r)
  /\ UNCHANGED <<stand, quelle, geloescht>>

-----------------------------------------------------------------------------
(***************************************************************************)
(* Positions of a draft.                                                   *)
(***************************************************************************)

\* One new position for every source in qs.
Anlegen(r, qs) ==
  \E wahl \in [qs -> FreiePositionen] :
    /\ \A q1, q2 \in qs : wahl[q1] = wahl[q2] => q1 = q2
    /\ position' = [p \in Positionen |->
         IF \E q \in qs : wahl[q] = p
           THEN LET q == CHOOSE s \in qs : wahl[s] = p IN
                [rechnung |-> r, quelle |-> q, umfang |-> Abrechenbar(q)]
           ELSE position[p]]

\* add_position: one source, whether or not rows of it are free.
PositionAnlegen(r, q) ==
  /\ Entwurf(r)
  /\ Anlegen(r, {q})
  /\ Abrechnen(r, {q})
  /\ UNCHANGED rechnung

\* add_vorgang: the chosen suggestions that are still open.
VorgangUebernehmen(r, auswahl) ==
  LET offen == {q \in auswahl : Abrechenbar(q) # {}} IN
  /\ Entwurf(r)
  /\ offen # {}
  /\ Anlegen(r, offen)
  /\ Abrechnen(r, offen)
  /\ UNCHANGED rechnung

Geschwister(p) ==
  {g \in PositionenVon(position[p].rechnung) \ {p} : position[g].quelle = position[p].quelle}

\* Mutant: the first removed position frees the rows.
PositionEntfernenSofort(p) ==
  LET r == position[p].rechnung IN
  /\ r # Nichts
  /\ Entwurf(r)
  /\ Zuruecksetzen(r, position[p].quelle)
  /\ position' = [position EXCEPT ![p] = Keine]
  /\ UNCHANGED rechnung

\* remove_position: the last position of a source frees its rows.
PositionEntfernen(p) ==
  LET r == position[p].rechnung IN
  /\ r # Nichts
  /\ Entwurf(r)
  /\ IF Geschwister(p) = {} THEN Zuruecksetzen(r, position[p].quelle) ELSE UNCHANGED zeile
  /\ position' = [position EXCEPT ![p] = Keine]
  /\ UNCHANGED rechnung

-----------------------------------------------------------------------------
(***************************************************************************)
(* The invoice.                                                            *)
(***************************************************************************)

Versenden(r) ==
  /\ Entwurf(r)
  /\ status' = [status EXCEPT ![r] = "versendet"]
  /\ UNCHANGED <<zeile, papierkorb, position>>

\* Mutant: the status check of delete_rechnung is missing.
LoeschenImmer(r) ==
  /\ r \notin papierkorb
  /\ papierkorb' = papierkorb \cup {r}
  /\ UNCHANGED status
  /\ Freigeben(r, TRUE)
  /\ UNCHANGED position

\* delete_rechnung with soft_delete
Loeschen(r) ==
  /\ Entwurf(r)
  /\ papierkorb' = papierkorb \cup {r}
  /\ UNCHANGED status
  /\ Freigeben(r, TRUE)
  /\ UNCHANGED position

\* restore
Wiederherstellen(r) ==
  /\ EntwurfImPapierkorb(r)
  /\ papierkorb' = papierkorb \ {r}
  /\ UNCHANGED status
  /\ WiederSperren(r)
  /\ UNCHANGED position

\* The foreign key of zeiterfassung has no ON DELETE: a row that was put back
\* to "vermerkt" with its reference keeps the draft from being deleted.
VerweisBlockiert(r) ==
  \E z \in Zeilen \ Material : verweis[z] = r /\ stand[z] # "gebucht"

\* purge, with the positions ON DELETE CASCADE
EndgueltigLoeschen(r) ==
  /\ EntwurfImPapierkorb(r)
  /\ ~VerweisBlockiert(r)
  /\ status' = [status EXCEPT ![r] = "weg"]
  /\ UNCHANGED papierkorb
  /\ VerweisLoesen(r)
  /\ position' = [p \in Positionen |-> IF position[p].rechnung = r THEN Keine ELSE position[p]]

\* storno_rechnung, the only way to "storniert": PATCH of a draft to that
\* status writes an event but not the status (EntwurfStornieren in OffenePosten).
Stornieren(r) ==
  /\ status[r] = "versendet"
  /\ status' = [status EXCEPT ![r] = "storniert"]
  /\ UNCHANGED papierkorb
  /\ Freigeben(r, FALSE)
  /\ UNCHANGED position

-----------------------------------------------------------------------------
(***************************************************************************)
(* The time entry.                                                         *)
(***************************************************************************)

SetzeStatus(z, s) ==
  /\ stand' = [stand EXCEPT ![z] = s]
  /\ UNCHANGED <<quelle, verweis, km, geloescht, rechnung, position>>

Vormerken(z) == stand[z] = "vermerkt" /\ z \notin geloescht /\ SetzeStatus(z, "vorgemerkt")
Zurueckziehen(z) == stand[z] = "vorgemerkt" /\ z \notin geloescht /\ SetzeStatus(z, "vermerkt")

Buchen(z) ==
  /\ stand[z] \in {"vermerkt", "vorgemerkt"}
  /\ z \notin geloescht
  /\ SetzeStatus(z, "gebucht")

BuchungStornieren(z) ==
  /\ stand[z] = "gebucht"
  /\ z \notin geloescht
  /\ ~KmGesperrt(z)
  /\ SetzeStatus(z, "vermerkt")

\* _pruefe_buchungsstatus_bearbeitbar
Bearbeitbar(z) == stand[z] = "vermerkt" /\ z \notin geloescht /\ ~KmGesperrt(z)

\* PATCH of the category or of the rate
Aendern(z, q) ==
  /\ Bearbeitbar(z)
  /\ quelle' = [quelle EXCEPT ![z] = q]
  /\ UNCHANGED <<stand, verweis, km, geloescht, rechnung, position>>

ZeileLoeschen(z) ==
  /\ Bearbeitbar(z)
  /\ geloescht' = geloescht \cup {z}
  /\ UNCHANGED <<stand, quelle, verweis, km, rechnung, position>>

ZeileWiederherstellen(z) ==
  /\ z \in geloescht
  /\ geloescht' = geloescht \ {z}
  /\ UNCHANGED <<stand, quelle, verweis, km, rechnung, position>>

-----------------------------------------------------------------------------
Abrechnung ==
  \/ \E r \in Rechnungen :
       \/ \E q \in Quellen : PositionAnlegen(r, q)
       \/ \E auswahl \in SUBSET Quellen : VorgangUebernehmen(r, auswahl)
       \/ Versenden(r) \/ Stornieren(r)
       \/ Loeschen(r) \/ Wiederherstellen(r) \/ EndgueltigLoeschen(r)
  \/ \E p \in Positionen : PositionEntfernen(p)

Zeiterfassung ==
  \E z \in Zeilen \ Material :
    \/ Vormerken(z) \/ Zurueckziehen(z) \/ Buchen(z) \/ BuchungStornieren(z)
    \/ \E q \in Stunden : Aendern(z, q)
    \/ ZeileLoeschen(z) \/ ZeileWiederherstellen(z)

Next == Abrechnung \/ Zeiterfassung

Spec == Init /\ [][Next]_vars

-----------------------------------------------------------------------------
(***************************************************************************)
(* Properties.                                                             *)
(***************************************************************************)

\* A locked row is locked for an invoice that exists, and a draft in the
\* recycle bin locks nothing (soft_delete: "ein Entwurf im Papierkorb soll
\* keine Stunden blockieren").
PapierkorbBlockiertNicht ==
  \A z \in Zeilen : stand[z] = "abgerechnet" =>
    \E r \in Rechnungen : /\ verweis[z] = r
                          /\ status[r] # "weg"
                          /\ ~EntwurfImPapierkorb(r)

\* What a shipped invoice has locked stays as it is, hours, kilometres and
\* material, until that invoice is cancelled: no request on another invoice,
\* on a time entry or in the recycle bin frees or changes it.
VersandteSperreBleibt ==
  [][\A r \in Rechnungen, z \in Zeilen :
       status[r] = "versendet" /\ status'[r] # "storniert" =>
         /\ GesperrtFuer(z, r) => /\ stand'[z] = "abgerechnet"
                                  /\ verweis'[z] = r
                                  /\ quelle'[z] = quelle[z]
                                  /\ z \notin geloescht'
         /\ km[z] = r => km'[z] = r]_vars

\* Several positions of one source share their rows: as long as one of them
\* stays on the draft, removing another does not free what it charges
\* (remove_position, geschwister_besteht).
GeschwisterHaltenSperre ==
  [][\A p \in Positionen, z \in Zeilen :
       LET r == position[p].rechnung IN
       r # Nichts /\ position'[p] = position[p] /\ rechnung' = rechnung =>
         /\ GesperrtFuer(z, r) /\ quelle[z] = position[p].quelle
              => stand'[z] = "abgerechnet" /\ verweis'[z] = r
         /\ position[p].quelle = "fahrtkosten" /\ km[z] = r /\ Entwurf(r) => km'[z] = r]_vars

\* A cancelled invoice locks nothing, neither hours nor kilometres nor material,
\* and no later request locks anything for it again (storno_rechnung: "die
\* Stunden gehen ohne Verweis zurueck in den Pool").
StornoGibtFrei ==
  \A r \in Rechnungen, z \in Zeilen :
    status[r] = "storniert" => ~GesperrtFuer(z, r) /\ km[z] # r

\* Both together: a lock stands for an invoice that may charge for it.
SperreGilt == PapierkorbBlockiertNicht /\ StornoGibtFrei

\* No hours are charged by two shipped invoices (ZEITERFASSUNG.md: "Zeit wird
\* nicht doppelt abgerechnet").
KeineDoppelabrechnung ==
  \A p, q \in Positionen :
    /\ position[p].rechnung # Nichts
    /\ position[q].rechnung # Nichts
    /\ position[p].rechnung # position[q].rechnung
    /\ status[position[p].rechnung] = "versendet"
    /\ status[position[q].rechnung] = "versendet"
    /\ position[p].quelle \in Stunden
    /\ position[q].quelle \in Stunden
    => position[p].umfang \cap position[q].umfang = {}
=============================================================================
