-------------------------- MODULE Vertrieb_proofs --------------------------
(***************************************************************************)
(* What is proved about billing locks, quotes, instalments, stock and the  *)
(* right to manage rights, for any number of rows and of requests.  Each   *)
(* part after the locks has an inductive invariant: AngebotStimmt by       *)
(* IAngebot, AbschlagStimmt by IAbschlag, LagerStimmt by ILager; the types *)
(* are conjuncts of each.  The last section composes the parts as          *)
(* MCVertrieb runs them.                                                   *)
(*                                                                         *)
(* A lemma takes one action and shows that it keeps the invariant of its   *)
(* part.  A request in these modules reads in one step and writes in       *)
(* another; what the two have in common (the beginning, the end, and a     *)
(* step that leaves the rows of a question alone) is a lemma of its own.   *)
(***************************************************************************)
EXTENDS MCVertrieb, Summen, TLAPS

-----------------------------------------------------------------------------
(***************************************************************************)
(* The billing locks, for every set of rows, invoices, positions and       *)
(* sources: type correctness.                                              *)
(***************************************************************************)

ZeilenTyp ==
  /\ stand \in [Zeilen -> Stand]
  /\ quelle \in [Zeilen -> Quellen]
  /\ verweis \in [Zeilen -> Verweis]
  /\ km \in [Zeilen -> Verweis]
  /\ geloescht \in SUBSET Zeilen

LEMMA InitTyp == Init => TypeOK
<1> SUFFICES ASSUME Init PROVE TypeOK
  OBVIOUS
<1>1. Keine \in PositionTyp
  BY DEF Keine, PositionTyp, Quellen, Verweis
<1>2. position \in [Positionen -> PositionTyp]
  BY <1>1 DEF Init
<1>3. quelle \in [Zeilen -> Quellen]
  BY DEF Init, Quellen
<1>4. QED
  BY <1>2, <1>3 DEF Init, TypeOK, Stand, Status, Verweis

\* What the billing functions write are rows again.
LEMMA SchreibenTyp ==
  ASSUME TypeOK, NEW r \in Rechnungen, NEW q, NEW qs, NEW b \in BOOLEAN,
         Abrechnen(r, qs) \/ Zuruecksetzen(r, q) \/ Freigeben(r, b) \/ WiederSperren(r) \/ VerweisLoesen(r)
  PROVE  ZeilenTyp'
<1>1. CASE Abrechnen(r, qs)
  BY <1>1 DEF Abrechnen, TypeOK, ZeilenTyp, Stand, Verweis
<1>2. ASSUME NEW zs, NEW c \in BOOLEAN, Entsperren(zs, c)
      PROVE  stand' \in [Zeilen -> Stand] /\ verweis' \in [Zeilen -> Verweis]
  BY <1>2 DEF Entsperren, Ungesperrt, TypeOK, Stand, Verweis
<1>3. KmLoesen(r) => km' \in [Zeilen -> Verweis]
  BY DEF KmLoesen, TypeOK, Verweis
<1>4. CASE Zuruecksetzen(r, q)
  BY <1>4, <1>2, <1>3 DEF Zuruecksetzen, TypeOK, ZeilenTyp
<1>5. CASE Freigeben(r, b)
  BY <1>5, <1>2, <1>3 DEF Freigeben, TypeOK, ZeilenTyp
<1>6. CASE WiederSperren(r)
  BY <1>6 DEF WiederSperren, TypeOK, ZeilenTyp, Stand
<1>7. CASE VerweisLoesen(r)
  <2>1. verweis' \in [Zeilen -> Verweis]
    BY <1>7 DEF VerweisLoesen, TypeOK, Verweis
  <2>2. QED
    BY <1>7, <1>3, <2>1 DEF VerweisLoesen, TypeOK, ZeilenTyp
<1>8. QED
  BY <1>1, <1>4, <1>5, <1>6, <1>7

LEMMA AnlegenTyp ==
  ASSUME TypeOK, NEW r \in Rechnungen, NEW qs \in SUBSET Quellen, Anlegen(r, qs)
  PROVE  position' \in [Positionen -> PositionTyp]
<1>1. \A q : Abrechenbar(q) \in SUBSET Zeilen
  BY LeistungAnnahme DEF Abrechenbar
<1>2. PICK wahl \in [qs -> FreiePositionen] :
        position' = [p \in Positionen |->
          IF \E q \in qs : wahl[q] = p
            THEN LET q == CHOOSE s \in qs : wahl[s] = p IN
                 [rechnung |-> r, quelle |-> q, umfang |-> Abrechenbar(q)]
            ELSE position[p]]
  BY DEF Anlegen
<1>3. ASSUME NEW q \in Quellen
      PROVE  [rechnung |-> r, quelle |-> q, umfang |-> Abrechenbar(q)] \in PositionTyp
  BY <1>1 DEF PositionTyp, Verweis
<1>4. ASSUME NEW p \in Positionen PROVE position'[p] \in PositionTyp
  <2>1. CASE \E q \in qs : wahl[q] = p
    <3>1. (CHOOSE s \in qs : wahl[s] = p) \in Quellen
      BY <2>1
    <3>2. position'[p] = LET q == CHOOSE s \in qs : wahl[s] = p IN
                         [rechnung |-> r, quelle |-> q, umfang |-> Abrechenbar(q)]
      BY <1>2, <2>1
    <3>3. QED
      BY <3>1, <3>2, <1>3
  <2>2. CASE ~\E q \in qs : wahl[q] = p
    BY <1>2, <2>2 DEF TypeOK
  <2>3. QED
    BY <2>1, <2>2
<1>5. QED
  BY <1>2, <1>4

LEMMA SchrittTyp == TypeOK /\ [Next]_vars => TypeOK'
<1> SUFFICES ASSUME TypeOK, [Next]_vars PROVE TypeOK'
  OBVIOUS
<1>1. ASSUME NEW r \in Rechnungen, NEW q \in Quellen, PositionAnlegen(r, q) PROVE TypeOK'
  <2>1. ZeilenTyp'
    BY <1>1, SchreibenTyp DEF PositionAnlegen
  <2>2. position' \in [Positionen -> PositionTyp]
    BY <1>1, AnlegenTyp, {q} \in SUBSET Quellen DEF PositionAnlegen
  <2>3. QED
    BY <1>1, <2>1, <2>2 DEF PositionAnlegen, TypeOK, ZeilenTyp, rechnung
<1>2. ASSUME NEW r \in Rechnungen, NEW auswahl \in SUBSET Quellen, VorgangUebernehmen(r, auswahl) PROVE TypeOK'
  <2>1. PICK offen \in SUBSET Quellen : Anlegen(r, offen) /\ Abrechnen(r, offen) /\ UNCHANGED rechnung
    BY <1>2, {q \in auswahl : Abrechenbar(q) # {}} \in SUBSET Quellen DEF VorgangUebernehmen
  <2>2. ZeilenTyp'
    BY <2>1, SchreibenTyp
  <2>3. position' \in [Positionen -> PositionTyp]
    BY <2>1, AnlegenTyp
  <2>4. QED
    BY <2>1, <2>2, <2>3 DEF TypeOK, ZeilenTyp, rechnung
<1>3. ASSUME NEW r \in Rechnungen, Versenden(r) PROVE TypeOK'
  BY <1>3 DEF Versenden, TypeOK, Status, zeile
<1>4. ASSUME NEW r \in Rechnungen, Stornieren(r) PROVE TypeOK'
  <2>1. ZeilenTyp'
    BY <1>4, SchreibenTyp DEF Stornieren
  <2>2. QED
    BY <1>4, <2>1 DEF Stornieren, TypeOK, ZeilenTyp, Status
<1>5. ASSUME NEW r \in Rechnungen, Loeschen(r) PROVE TypeOK'
  <2>1. ZeilenTyp'
    BY <1>5, SchreibenTyp DEF Loeschen
  <2>2. QED
    BY <1>5, <2>1 DEF Loeschen, TypeOK, ZeilenTyp
<1>6. ASSUME NEW r \in Rechnungen, Wiederherstellen(r) PROVE TypeOK'
  <2>1. ZeilenTyp'
    BY <1>6, SchreibenTyp DEF Wiederherstellen
  <2>2. QED
    BY <1>6, <2>1 DEF Wiederherstellen, TypeOK, ZeilenTyp
<1>7. Keine \in PositionTyp
  BY DEF Keine, PositionTyp, Quellen, Verweis
<1>8. ASSUME NEW r \in Rechnungen, EndgueltigLoeschen(r) PROVE TypeOK'
  <2>1. ZeilenTyp'
    BY <1>8, SchreibenTyp DEF EndgueltigLoeschen
  <2>2. position' \in [Positionen -> PositionTyp]
    BY <1>7, <1>8 DEF EndgueltigLoeschen, TypeOK
  <2>3. QED
    BY <1>8, <2>1, <2>2 DEF EndgueltigLoeschen, TypeOK, ZeilenTyp, Status
<1>9. ASSUME NEW p \in Positionen, PositionEntfernen(p) PROVE TypeOK'
  <2>1. position[p].rechnung \in Rechnungen
    BY <1>9 DEF PositionEntfernen, TypeOK, PositionTyp, Verweis
  <2>2. ZeilenTyp'
    <3>1. CASE Zuruecksetzen(position[p].rechnung, position[p].quelle)
      BY <2>1, <3>1, SchreibenTyp
    <3>2. CASE UNCHANGED zeile
      BY <3>2 DEF zeile, TypeOK, ZeilenTyp
    <3>3. QED
      BY <1>9, <3>1, <3>2 DEF PositionEntfernen
  <2>3. position' \in [Positionen -> PositionTyp]
    BY <1>7, <1>9 DEF PositionEntfernen, TypeOK
  <2>4. QED
    BY <1>9, <2>2, <2>3 DEF PositionEntfernen, TypeOK, ZeilenTyp, rechnung
<1>10. ASSUME NEW z \in Zeilen \ Material, Vormerken(z) \/ Zurueckziehen(z) \/ Buchen(z) \/ BuchungStornieren(z)
       PROVE  TypeOK'
  BY <1>10 DEF Vormerken, Zurueckziehen, Buchen, BuchungStornieren, SetzeStatus, TypeOK, Stand, rechnung
<1>11. ASSUME NEW z \in Zeilen \ Material, NEW q \in Stunden, Aendern(z, q) PROVE TypeOK'
  BY <1>11 DEF Aendern, TypeOK, Quellen, rechnung
<1>12. ASSUME NEW z \in Zeilen \ Material, ZeileLoeschen(z) \/ ZeileWiederherstellen(z) PROVE TypeOK'
  BY <1>12 DEF ZeileLoeschen, ZeileWiederherstellen, TypeOK, rechnung
<1>13. CASE UNCHANGED vars
  BY <1>13 DEF vars, zeile, rechnung, TypeOK
<1>14. QED
  BY <1>1, <1>2, <1>3, <1>4, <1>5, <1>6, <1>8, <1>9, <1>10, <1>11, <1>12, <1>13
  DEF Next, Abrechnung, Zeiterfassung

\* The tables keep their types, whatever order the requests come in.
THEOREM LeistungTyp == Spec => []TypeOK
  BY InitTyp, SchrittTyp, PTL DEF Spec

-----------------------------------------------------------------------------
(***************************************************************************)
(* A draft in the recycle bin locks nothing.  The invariant is inductive   *)
(* together with the types: a row gets locked for a live draft only        *)
(* (Abrechnen, WiederSperren), and the step that bins a draft frees its    *)
(* rows.                                                                   *)
(***************************************************************************)

\* Invoice r may hold locks.
Sperrt(r) == status[r] # "weg" /\ ~EntwurfImPapierkorb(r)

LEMMA AbrechnenSperrt ==
  ASSUME TypeOK, PapierkorbBlockiertNicht, NEW r \in Rechnungen, NEW qs,
         Entwurf(r), Abrechnen(r, qs), UNCHANGED rechnung
  PROVE  PapierkorbBlockiertNicht'
<1>1. Sperrt(r)
  BY DEF Sperrt, Entwurf, EntwurfImPapierkorb
<1>2. \A s \in Rechnungen : Sperrt(s)' <=> Sperrt(s)
  BY DEF rechnung, Sperrt, EntwurfImPapierkorb
<1>3. ASSUME NEW z \in Zeilen, stand'[z] = "abgerechnet" PROVE \E s \in Rechnungen : verweis'[z] = s /\ Sperrt(s)'
  <2>1. \/ verweis'[z] = r
        \/ verweis'[z] = verweis[z] /\ stand[z] = "abgerechnet"
    BY <1>3 DEF Abrechnen
  <2>2. QED
    BY <1>1, <1>2, <2>1 DEF PapierkorbBlockiertNicht, Sperrt
<1>4. QED
  BY <1>3 DEF PapierkorbBlockiertNicht, Sperrt

\* A step that locks no row and takes no live invoice away keeps the invariant.
LEMMA FreigabeSperrt ==
  ASSUME PapierkorbBlockiertNicht,
         \A z \in Zeilen : stand'[z] = "abgerechnet" => stand[z] = "abgerechnet" /\ verweis'[z] = verweis[z],
         \A z \in Zeilen, r \in Rechnungen :
           stand'[z] = "abgerechnet" /\ verweis[z] = r /\ Sperrt(r) => Sperrt(r)'
  PROVE  PapierkorbBlockiertNicht'
  BY DEF PapierkorbBlockiertNicht, Sperrt

LEMMA SchrittSperrt == TypeOK /\ PapierkorbBlockiertNicht /\ [Next]_vars => PapierkorbBlockiertNicht'
<1> SUFFICES ASSUME TypeOK, PapierkorbBlockiertNicht, [Next]_vars PROVE PapierkorbBlockiertNicht'
  OBVIOUS
<1>0. \A z : Ungesperrt(z) # "abgerechnet"
  BY DEF Ungesperrt
<1>1. ASSUME NEW r \in Rechnungen, NEW q \in Quellen, PositionAnlegen(r, q) PROVE PapierkorbBlockiertNicht'
  BY <1>1, AbrechnenSperrt DEF PositionAnlegen
<1>2. ASSUME NEW r \in Rechnungen, NEW auswahl \in SUBSET Quellen, VorgangUebernehmen(r, auswahl)
      PROVE  PapierkorbBlockiertNicht'
  BY <1>2, AbrechnenSperrt DEF VorgangUebernehmen
<1>3. ASSUME NEW r \in Rechnungen, Versenden(r) PROVE PapierkorbBlockiertNicht'
  BY <1>3, FreigabeSperrt DEF Versenden, Sperrt, Entwurf, EntwurfImPapierkorb, zeile, TypeOK
<1>4. ASSUME NEW r \in Rechnungen, Stornieren(r) PROVE PapierkorbBlockiertNicht'
  <2>1. \A z \in Zeilen : stand'[z] = "abgerechnet" => stand[z] = "abgerechnet" /\ verweis'[z] = verweis[z]
    BY <1>0, <1>4 DEF Stornieren, Freigeben, Entsperren
  <2>2. \A s \in Rechnungen : Sperrt(s) => Sperrt(s)'
    BY <1>4 DEF Stornieren, Sperrt, EntwurfImPapierkorb, TypeOK
  <2>3. QED
    BY <2>1, <2>2, FreigabeSperrt
<1>5. ASSUME NEW r \in Rechnungen, Loeschen(r) PROVE PapierkorbBlockiertNicht'
  <2>1. \A z \in Zeilen : stand'[z] = "abgerechnet" =>
          stand[z] = "abgerechnet" /\ verweis'[z] = verweis[z] /\ verweis[z] # r
    BY <1>0, <1>5 DEF Loeschen, Freigeben, Entsperren, GesperrtFuer
  <2>2. \A s \in Rechnungen : s # r /\ Sperrt(s) => Sperrt(s)'
    BY <1>5 DEF Loeschen, Sperrt, EntwurfImPapierkorb
  <2>3. QED
    BY <2>1, <2>2, FreigabeSperrt
<1>6. ASSUME NEW r \in Rechnungen, Wiederherstellen(r) PROVE PapierkorbBlockiertNicht'
  <2>1. Sperrt(r)'
    BY <1>6 DEF Wiederherstellen, Sperrt, EntwurfImPapierkorb
  <2>2. \A s \in Rechnungen : Sperrt(s) => Sperrt(s)'
    BY <1>6 DEF Wiederherstellen, Sperrt, EntwurfImPapierkorb
  <2>3. ASSUME NEW z \in Zeilen, stand'[z] = "abgerechnet"
        PROVE  verweis'[z] = verweis[z] /\ (verweis[z] = r \/ stand[z] = "abgerechnet")
    BY <1>6, <2>3 DEF Wiederherstellen, WiederSperren
  <2>4. QED
    BY <2>1, <2>2, <2>3 DEF PapierkorbBlockiertNicht, Sperrt
<1>7. ASSUME NEW r \in Rechnungen, EndgueltigLoeschen(r) PROVE PapierkorbBlockiertNicht'
  <2>1. \A z \in Zeilen : stand'[z] = "abgerechnet" => stand[z] = "abgerechnet" /\ verweis'[z] = verweis[z]
    BY <1>0, <1>7 DEF EndgueltigLoeschen, VerweisLoesen
  <2>2. \A s \in Rechnungen : Sperrt(s) => Sperrt(s)'
    BY <1>7 DEF EndgueltigLoeschen, Sperrt, EntwurfImPapierkorb, TypeOK
  <2>3. QED
    BY <2>1, <2>2, FreigabeSperrt
<1>8. ASSUME NEW p \in Positionen, PositionEntfernen(p) PROVE PapierkorbBlockiertNicht'
  <2>1. \A z \in Zeilen : stand'[z] = "abgerechnet" => stand[z] = "abgerechnet" /\ verweis'[z] = verweis[z]
    <3>1. CASE Zuruecksetzen(position[p].rechnung, position[p].quelle)
      BY <1>0, <3>1 DEF Zuruecksetzen, Entsperren
    <3>2. CASE UNCHANGED zeile
      BY <3>2 DEF zeile
    <3>3. QED
      BY <1>8, <3>1, <3>2 DEF PositionEntfernen
  <2>2. \A s \in Rechnungen : Sperrt(s) => Sperrt(s)'
    BY <1>8 DEF PositionEntfernen, rechnung, Sperrt, EntwurfImPapierkorb
  <2>3. QED
    BY <2>1, <2>2, FreigabeSperrt
<1>9. ASSUME NEW z \in Zeilen \ Material, NEW s \in {"vermerkt", "vorgemerkt", "gebucht"}, SetzeStatus(z, s)
      PROVE  PapierkorbBlockiertNicht'
  BY <1>9, FreigabeSperrt DEF SetzeStatus, rechnung, Sperrt, EntwurfImPapierkorb, TypeOK
<1>10. ASSUME NEW z \in Zeilen \ Material, Vormerken(z) \/ Zurueckziehen(z) \/ Buchen(z) \/ BuchungStornieren(z)
       PROVE  PapierkorbBlockiertNicht'
  BY <1>9, <1>10 DEF Vormerken, Zurueckziehen, Buchen, BuchungStornieren
<1>11. ASSUME NEW z \in Zeilen \ Material,
              (\E q \in Stunden : Aendern(z, q)) \/ ZeileLoeschen(z) \/ ZeileWiederherstellen(z)
       PROVE  PapierkorbBlockiertNicht'
  BY <1>11, FreigabeSperrt
  DEF Aendern, ZeileLoeschen, ZeileWiederherstellen, rechnung, Sperrt, EntwurfImPapierkorb
<1>12. CASE UNCHANGED vars
  BY <1>12, FreigabeSperrt DEF vars, zeile, rechnung, Sperrt, EntwurfImPapierkorb
<1>13. QED
  BY <1>1, <1>2, <1>3, <1>4, <1>5, <1>6, <1>7, <1>8, <1>10, <1>11, <1>12 DEF Next, Abrechnung, Zeiterfassung

\* For any number of rows and invoices a locked row is locked for an invoice
\* that exists and is not a draft in the recycle bin.
THEOREM EntwurfImPapierkorbSperrtNicht == Spec => []PapierkorbBlockiertNicht
<1>1. Init => PapierkorbBlockiertNicht
  BY DEF Init, PapierkorbBlockiertNicht
<1>2. QED
  BY <1>1, InitTyp, SchrittTyp, SchrittSperrt, PTL DEF Spec

-----------------------------------------------------------------------------
(***************************************************************************)
(* What a shipped invoice has locked stays.  Every function of the billing *)
(* either belongs to another invoice or takes only rows that are free, and *)
(* a time entry that is locked is not open for changes.                    *)
(***************************************************************************)

\* Row z keeps what it holds for invoice r.
Bleibt(z, r) ==
  /\ GesperrtFuer(z, r) => /\ stand'[z] = "abgerechnet"
                           /\ verweis'[z] = r
                           /\ quelle'[z] = quelle[z]
                           /\ z \notin geloescht'
  /\ km[z] = r => km'[z] = r

\* A deleted time entry is not locked.
GeloeschtUngesperrt == \A z \in geloescht : stand[z] # "abgerechnet"

LEMMA InitGeloescht == Init => GeloeschtUngesperrt
  BY DEF Init, GeloeschtUngesperrt

LEMMA SchrittGeloescht == TypeOK /\ GeloeschtUngesperrt /\ [Next]_vars => GeloeschtUngesperrt'
<1> SUFFICES ASSUME TypeOK, GeloeschtUngesperrt, [Next]_vars PROVE GeloeschtUngesperrt'
  OBVIOUS
<1>0. \A z : Ungesperrt(z) # "abgerechnet"
  BY DEF Ungesperrt
<1>1. ASSUME \A z \in Zeilen : stand'[z] = "abgerechnet" => stand[z] = "abgerechnet" \/ z \notin geloescht,
             geloescht' = geloescht
      PROVE  GeloeschtUngesperrt'
  BY <1>1 DEF GeloeschtUngesperrt, TypeOK
<1>2. ASSUME NEW r, NEW qs, Abrechnen(r, qs) PROVE GeloeschtUngesperrt'
  <2>1. \A q : q # "fahrtkosten" => Abrechenbar(q) \cap geloescht = {}
    BY DEF Abrechenbar
  <2>2. QED
    BY <1>1, <1>2, <2>1 DEF Abrechnen
<1>3. ASSUME NEW r, NEW q, NEW b, Zuruecksetzen(r, q) \/ Freigeben(r, b) \/ WiederSperren(r) \/ VerweisLoesen(r)
      PROVE  GeloeschtUngesperrt'
  BY <1>0, <1>1, <1>3 DEF Zuruecksetzen, Freigeben, WiederSperren, VerweisLoesen, Entsperren
<1>4. CASE UNCHANGED zeile
  BY <1>4 DEF zeile, GeloeschtUngesperrt
<1>5. ASSUME Abrechnung PROVE GeloeschtUngesperrt'
  BY <1>2, <1>3, <1>4, <1>5
  DEF Abrechnung, PositionAnlegen, VorgangUebernehmen, Versenden, Stornieren,
      Loeschen, Wiederherstellen, EndgueltigLoeschen, PositionEntfernen
<1>6. ASSUME NEW z \in Zeilen, NEW s \in {"vermerkt", "vorgemerkt", "gebucht"}, SetzeStatus(z, s)
      PROVE  GeloeschtUngesperrt'
  BY <1>1, <1>6 DEF SetzeStatus, TypeOK
<1>7. ASSUME NEW z \in Zeilen, (\E q \in Stunden : Aendern(z, q)) \/ ZeileLoeschen(z) \/ ZeileWiederherstellen(z)
      PROVE  GeloeschtUngesperrt'
  BY <1>7 DEF Aendern, ZeileLoeschen, ZeileWiederherstellen, Bearbeitbar, GeloeschtUngesperrt
<1>8. ASSUME Zeiterfassung PROVE GeloeschtUngesperrt'
  BY <1>6, <1>7, <1>8 DEF Zeiterfassung, Vormerken, Zurueckziehen, Buchen, BuchungStornieren
<1>9. QED
  BY <1>4, <1>5, <1>8 DEF Next, vars, zeile

LEMMA SchrittBleibt ==
  ASSUME TypeOK, GeloeschtUngesperrt, [Next]_vars,
         NEW r \in Rechnungen, NEW z \in Zeilen, status[r] = "versendet", status'[r] # "storniert"
  PROVE  Bleibt(z, r)
<1>0. /\ r # Nichts
      /\ ~Entwurf(r) /\ ~EntwurfImPapierkorb(r)
      /\ stand[z] = "abgerechnet" => stand[z] # Ungesperrt(z) /\ z \notin geloescht
  BY LeistungAnnahme DEF Entwurf, EntwurfImPapierkorb, Ungesperrt, GeloeschtUngesperrt
<1>1. ASSUME NEW s \in Rechnungen, NEW qs, Abrechnen(s, qs) PROVE Bleibt(z, r)
  <2>1. \A q : q # "fahrtkosten" /\ z \in Abrechenbar(q) => stand[z] # "abgerechnet"
    BY <1>0 DEF Abrechenbar
  <2>2. z \in Abrechenbar("fahrtkosten") => km[z] # r
    BY <1>0 DEF Abrechenbar, KmGesperrt
  <2>3. QED
    BY <1>0, <1>1, <2>1, <2>2 DEF Abrechnen, Bleibt, GesperrtFuer
<1>2. ASSUME NEW s \in Rechnungen \ {r}, NEW q, NEW b \in BOOLEAN,
             Zuruecksetzen(s, q) \/ Freigeben(s, b)
      PROVE  Bleibt(z, r)
  BY <1>0, <1>2 DEF Zuruecksetzen, Freigeben, Entsperren, KmLoesen, Bleibt, GesperrtFuer
<1>3. ASSUME NEW s \in Rechnungen, WiederSperren(s) PROVE Bleibt(z, r)
  BY <1>0, <1>3 DEF WiederSperren, Bleibt, GesperrtFuer
<1>4. ASSUME NEW s \in Rechnungen \ {r}, VerweisLoesen(s) PROVE Bleibt(z, r)
  BY <1>0, <1>4 DEF VerweisLoesen, KmLoesen, Bleibt, GesperrtFuer
<1>5. CASE UNCHANGED zeile
  BY <1>0, <1>5 DEF zeile, Bleibt, GesperrtFuer
<1>6. ASSUME NEW s \in Rechnungen, NEW q, PositionAnlegen(s, q) PROVE Bleibt(z, r)
  BY <1>1, <1>6 DEF PositionAnlegen
<1>7. ASSUME NEW s \in Rechnungen, NEW auswahl, VorgangUebernehmen(s, auswahl) PROVE Bleibt(z, r)
  BY <1>1, <1>7 DEF VorgangUebernehmen
<1>8. ASSUME NEW s \in Rechnungen, Stornieren(s) PROVE Bleibt(z, r)
  <2>1. s # r
    BY <1>8 DEF Stornieren, TypeOK
  <2>2. QED
    BY <1>2, <1>8, <2>1 DEF Stornieren
<1>9. ASSUME NEW s \in Rechnungen, Loeschen(s) PROVE Bleibt(z, r)
  BY <1>0, <1>2, <1>9 DEF Loeschen
<1>10. ASSUME NEW s \in Rechnungen, EndgueltigLoeschen(s) PROVE Bleibt(z, r)
  BY <1>0, <1>4, <1>10 DEF EndgueltigLoeschen
<1>11. ASSUME NEW p \in Positionen, PositionEntfernen(p) PROVE Bleibt(z, r)
  <2>1. position[p].rechnung \in Rechnungen \ {r}
    BY <1>0, <1>11 DEF PositionEntfernen, TypeOK, PositionTyp, Verweis
  <2>2. QED
    BY <1>2, <1>5, <1>11, <2>1 DEF PositionEntfernen
<1>12. ASSUME Abrechnung PROVE Bleibt(z, r)
  BY <1>3, <1>5, <1>6, <1>7, <1>8, <1>9, <1>10, <1>11, <1>12
  DEF Abrechnung, Versenden, Wiederherstellen
<1>13. ASSUME NEW w \in Zeilen \ Material, Vormerken(w) \/ Zurueckziehen(w) \/ Buchen(w) \/ BuchungStornieren(w)
       PROVE  Bleibt(z, r)
  BY <1>0, <1>13
  DEF Vormerken, Zurueckziehen, Buchen, BuchungStornieren, SetzeStatus, Bleibt, GesperrtFuer, TypeOK
<1>14. ASSUME NEW w \in Zeilen \ Material,
              (\E q \in Stunden : Aendern(w, q)) \/ ZeileLoeschen(w) \/ ZeileWiederherstellen(w)
       PROVE  Bleibt(z, r)
  BY <1>0, <1>14 DEF Aendern, ZeileLoeschen, ZeileWiederherstellen, Bearbeitbar, Bleibt, GesperrtFuer, TypeOK
<1>15. QED
  BY <1>5, <1>12, <1>13, <1>14 DEF Next, Zeiterfassung, vars, zeile

\* For any number of rows, invoices and positions: what a shipped invoice has
\* locked is neither freed nor changed before that invoice is cancelled.
THEOREM VersandteSperreHaelt == Spec => VersandteSperreBleibt
<1>1. TypeOK /\ GeloeschtUngesperrt /\ [Next]_vars =>
        [\A r \in Rechnungen, z \in Zeilen :
           status[r] = "versendet" /\ status'[r] # "storniert" =>
             /\ GesperrtFuer(z, r) => /\ stand'[z] = "abgerechnet"
                                      /\ verweis'[z] = r
                                      /\ quelle'[z] = quelle[z]
                                      /\ z \notin geloescht'
             /\ km[z] = r => km'[z] = r]_vars
  BY SchrittBleibt DEF Bleibt
<1>2. QED
  BY <1>1, InitTyp, SchrittTyp, InitGeloescht, SchrittGeloescht, PTL DEF Spec, VersandteSperreBleibt

-----------------------------------------------------------------------------
(***************************************************************************)
(* A cancelled invoice locks nothing.  Only drafts lock rows, directly or  *)
(* when they come back from the recycle bin, and storno_rechnung is the    *)
(* only way into "storniert" and frees everything.                         *)
(***************************************************************************)

\* Invoice r holds no share of row z.
Lose(z, r) == ~GesperrtFuer(z, r) /\ km[z] # r

LEMMA SchrittLose ==
  ASSUME TypeOK, [Next]_vars,
         NEW r \in Rechnungen, NEW z \in Zeilen, status'[r] = "storniert",
         status[r] = "storniert" => Lose(z, r)
  PROVE  Lose(z, r)'
<1>0. /\ r # Nichts
      /\ Ungesperrt(z) # "abgerechnet"
  BY LeistungAnnahme DEF Ungesperrt
<1>1. ASSUME NEW s \in Rechnungen \ {r}, NEW qs, Abrechnen(s, qs), Lose(z, r) PROVE Lose(z, r)'
  BY <1>1 DEF Abrechnen, Lose, GesperrtFuer
<1>2. ASSUME NEW s, NEW q, NEW b \in BOOLEAN, Zuruecksetzen(s, q) \/ Freigeben(s, b), Lose(z, r) PROVE Lose(z, r)'
  BY <1>0, <1>2 DEF Zuruecksetzen, Freigeben, Entsperren, KmLoesen, Lose, GesperrtFuer
<1>3. ASSUME NEW s \in Rechnungen \ {r}, WiederSperren(s), Lose(z, r) PROVE Lose(z, r)'
  BY <1>3 DEF WiederSperren, Lose, GesperrtFuer
<1>4. ASSUME NEW s, VerweisLoesen(s), Lose(z, r) PROVE Lose(z, r)'
  BY <1>0, <1>4 DEF VerweisLoesen, KmLoesen, Lose, GesperrtFuer
<1>5. ASSUME UNCHANGED zeile, Lose(z, r) PROVE Lose(z, r)'
  BY <1>5 DEF zeile, Lose, GesperrtFuer
<1>6. CASE Stornieren(r)
  BY <1>0, <1>6 DEF Stornieren, Freigeben, Entsperren, KmLoesen, Lose, GesperrtFuer
<1>7. ASSUME ~Stornieren(r) PROVE status[r] = "storniert"
  <2>1. ASSUME NEW s \in Rechnungen, Stornieren(s) PROVE status[r] = "storniert"
    BY <1>7, <2>1 DEF Stornieren, TypeOK
  <2>2. ASSUME NEW s \in Rechnungen, Versenden(s) \/ EndgueltigLoeschen(s) PROVE status[r] = "storniert"
    BY <2>2 DEF Versenden, EndgueltigLoeschen, TypeOK
  <2>3. CASE UNCHANGED status
    BY <2>3
  <2>4. QED
    BY <2>1, <2>2, <2>3
    DEF Next, Abrechnung, Zeiterfassung, vars, rechnung, PositionAnlegen, VorgangUebernehmen, PositionEntfernen,
        Loeschen, Wiederherstellen, Vormerken, Zurueckziehen, Buchen, BuchungStornieren, SetzeStatus, Aendern,
        ZeileLoeschen, ZeileWiederherstellen
<1>8. ASSUME Abrechnung, Lose(z, r), status[r] = "storniert" PROVE Lose(z, r)'
  <2>1. ASSUME NEW s \in Rechnungen, NEW q \in Quellen, PositionAnlegen(s, q) PROVE Lose(z, r)'
    BY <1>1, <1>8, <2>1 DEF PositionAnlegen, Entwurf
  <2>2. ASSUME NEW s \in Rechnungen, NEW auswahl \in SUBSET Quellen, VorgangUebernehmen(s, auswahl) PROVE Lose(z, r)'
    BY <1>1, <1>8, <2>2 DEF VorgangUebernehmen, Entwurf
  <2>3. ASSUME NEW s \in Rechnungen, Stornieren(s) \/ Loeschen(s) PROVE Lose(z, r)'
    BY <1>2, <1>8, <2>3 DEF Stornieren, Loeschen
  <2>4. ASSUME NEW s \in Rechnungen, Wiederherstellen(s) PROVE Lose(z, r)'
    BY <1>3, <1>8, <2>4 DEF Wiederherstellen, EntwurfImPapierkorb
  <2>5. ASSUME NEW s \in Rechnungen, EndgueltigLoeschen(s) PROVE Lose(z, r)'
    BY <1>4, <1>8, <2>5 DEF EndgueltigLoeschen
  <2>6. ASSUME NEW p \in Positionen, PositionEntfernen(p) PROVE Lose(z, r)'
    BY <1>2, <1>5, <1>8, <2>6 DEF PositionEntfernen
  <2>7. QED
    BY <1>5, <1>8, <2>1, <2>2, <2>3, <2>4, <2>5, <2>6 DEF Abrechnung, Versenden
<1>9. ASSUME Zeiterfassung, Lose(z, r) PROVE Lose(z, r)'
  <2>1. ASSUME NEW w \in Zeilen, NEW s \in {"vermerkt", "vorgemerkt", "gebucht"}, SetzeStatus(w, s) PROVE Lose(z, r)'
    BY <1>9, <2>1 DEF SetzeStatus, Lose, GesperrtFuer, TypeOK
  <2>2. QED
    BY <1>9, <2>1
    DEF Zeiterfassung, Vormerken, Zurueckziehen, Buchen, BuchungStornieren, Aendern, ZeileLoeschen,
        ZeileWiederherstellen, Lose, GesperrtFuer
<1>10. QED
  BY <1>5, <1>6, <1>7, <1>8, <1>9 DEF Next, vars

\* For any number of rows, invoices and positions: a cancelled invoice holds no
\* hours, no kilometres and no material, then and ever after.
THEOREM StornoGibtAllesFrei == Spec => []StornoGibtFrei
<1>1. Init => StornoGibtFrei
  BY DEF Init, StornoGibtFrei
<1>2. TypeOK /\ StornoGibtFrei /\ [Next]_vars => StornoGibtFrei'
  BY SchrittLose DEF StornoGibtFrei, Lose
<1>3. QED
  BY <1>1, <1>2, InitTyp, SchrittTyp, PTL DEF Spec

\* Both parts of the promise about locks.
THEOREM SperreGiltImmer == Spec => []SperreGilt
<1>1. PapierkorbBlockiertNicht /\ StornoGibtFrei => SperreGilt
  BY DEF SperreGilt
<1>2. QED
  BY <1>1, EntwurfImPapierkorbSperrtNicht, StornoGibtAllesFrei, PTL

-----------------------------------------------------------------------------
(***************************************************************************)
(* Positions of one source share their rows.  Apart from the removal of a  *)
(* position nothing frees rows while invoices stay as they are, and the    *)
(* removal frees rows of another invoice or of another source only.        *)
(***************************************************************************)

\* Row z keeps what position p charges on it.
Gehalten(z, p) ==
  LET r == position[p].rechnung IN
  /\ GesperrtFuer(z, r) /\ quelle[z] = position[p].quelle => stand'[z] = "abgerechnet" /\ verweis'[z] = r
  /\ position[p].quelle = "fahrtkosten" /\ km[z] = r /\ Entwurf(r) => km'[z] = r

LEMMA SchrittGehalten ==
  ASSUME TypeOK, [Next]_vars, NEW p \in Positionen, NEW z \in Zeilen,
         position[p].rechnung # Nichts, position'[p] = position[p], rechnung' = rechnung
  PROVE  Gehalten(z, p)
<1> DEFINE r == position[p].rechnung
<1>0. r \in Rechnungen /\ r # Nichts /\ Ungesperrt(z) # "abgerechnet"
  BY DEF TypeOK, PositionTyp, Verweis, Ungesperrt
<1>1. ASSUME NEW s, NEW qs, Abrechnen(s, qs) PROVE Gehalten(z, p)
  <2>1. \A q : q # "fahrtkosten" /\ z \in Abrechenbar(q) => stand[z] # "abgerechnet"
    BY <1>0 DEF Abrechenbar
  <2>2. z \in Abrechenbar("fahrtkosten") => ~(km[z] = r /\ Entwurf(r))
    BY <1>0 DEF Abrechenbar, KmGesperrt, Entwurf, EntwurfImPapierkorb
  <2>3. QED
    BY <1>1, <2>1, <2>2 DEF Abrechnen, Gehalten, GesperrtFuer
<1>2. CASE UNCHANGED <<stand, verweis, km>>
  BY <1>2 DEF Gehalten, GesperrtFuer
<1>3. ASSUME NEW g \in Positionen, PositionEntfernen(g) PROVE Gehalten(z, p)
  <2> DEFINE s == position[g].rechnung
  <2>1. g # p
    BY <1>0, <1>3 DEF PositionEntfernen, TypeOK, Keine
  <2>2. CASE UNCHANGED zeile
    BY <1>2, <2>2 DEF zeile
  <2>3. CASE Geschwister(g) = {} /\ Zuruecksetzen(s, position[g].quelle)
    <3>1. s # r \/ position[g].quelle # position[p].quelle
      BY <2>1, <2>3 DEF Geschwister, PositionenVon
    <3>2. CASE position[g].quelle = "fahrtkosten"
      <4>1. UNCHANGED <<stand, verweis>> /\ km' = [y \in Zeilen |-> IF km[y] = s THEN Nichts ELSE km[y]]
        BY <2>3, <3>2 DEF Zuruecksetzen, KmLoesen
      <4>2. QED
        BY <3>1, <3>2, <4>1 DEF Gehalten, GesperrtFuer
    <3>3. CASE position[g].quelle # "fahrtkosten"
      <4>1. km' = km
        BY <2>3, <3>3 DEF Zuruecksetzen
      <4>2. GesperrtFuer(z, r) /\ quelle[z] = position[p].quelle =>
              stand'[z] = "abgerechnet" /\ verweis'[z] = r
        BY <2>3, <3>1, <3>3 DEF Zuruecksetzen, Entsperren, GesperrtFuer
      <4>3. QED
        BY <4>1, <4>2 DEF Gehalten
    <3>4. QED
      BY <3>2, <3>3
  <2>4. QED
    BY <1>3, <2>2, <2>3 DEF PositionEntfernen
<1>4. ASSUME NEW s \in Rechnungen, NEW q, PositionAnlegen(s, q) PROVE Gehalten(z, p)
  BY <1>1, <1>4 DEF PositionAnlegen
<1>5. ASSUME NEW s \in Rechnungen, NEW auswahl, VorgangUebernehmen(s, auswahl) PROVE Gehalten(z, p)
  BY <1>1, <1>5 DEF VorgangUebernehmen
<1>6. ASSUME NEW s \in Rechnungen, Versenden(s) \/ Stornieren(s) \/ EndgueltigLoeschen(s) PROVE FALSE
  BY <1>6 DEF Versenden, Stornieren, EndgueltigLoeschen, Entwurf, EntwurfImPapierkorb, TypeOK, rechnung
<1>7. ASSUME NEW s \in Rechnungen, Loeschen(s) \/ Wiederherstellen(s) PROVE FALSE
  BY <1>7 DEF Loeschen, Wiederherstellen, Entwurf, EntwurfImPapierkorb, rechnung
<1>8. ASSUME Abrechnung PROVE Gehalten(z, p)
  BY <1>3, <1>4, <1>5, <1>6, <1>7, <1>8 DEF Abrechnung
<1>9. ASSUME NEW w \in Zeilen \ Material, Vormerken(w) \/ Zurueckziehen(w) \/ Buchen(w) \/ BuchungStornieren(w)
      PROVE  Gehalten(z, p)
  BY <1>9 DEF Vormerken, Zurueckziehen, Buchen, BuchungStornieren, SetzeStatus, Gehalten, GesperrtFuer, TypeOK
<1>10. ASSUME NEW w \in Zeilen \ Material,
              (\E q \in Stunden : Aendern(w, q)) \/ ZeileLoeschen(w) \/ ZeileWiederherstellen(w)
       PROVE  Gehalten(z, p)
  BY <1>2, <1>10 DEF Aendern, ZeileLoeschen, ZeileWiederherstellen
<1>11. CASE UNCHANGED vars
  BY <1>2, <1>11 DEF vars, zeile
<1>12. QED
  BY <1>8, <1>9, <1>10, <1>11 DEF Next, Zeiterfassung

\* For any number of rows, invoices and positions: as long as one position of a
\* source stays on the draft, removing another frees nothing that it charges.
THEOREM GeschwisterHalten == Spec => GeschwisterHaltenSperre
<1>1. TypeOK /\ [Next]_vars =>
        [\A p \in Positionen, z \in Zeilen :
           LET r == position[p].rechnung IN
           r # Nichts /\ position'[p] = position[p] /\ rechnung' = rechnung =>
             /\ GesperrtFuer(z, r) /\ quelle[z] = position[p].quelle
                  => stand'[z] = "abgerechnet" /\ verweis'[z] = r
             /\ position[p].quelle = "fahrtkosten" /\ km[z] = r /\ Entwurf(r) => km'[z] = r]_vars
  BY SchrittGehalten DEF Gehalten
<1>2. QED
  BY <1>1, InitTyp, SchrittTyp, PTL DEF Spec, GeschwisterHaltenSperre

-----------------------------------------------------------------------------
(***************************************************************************)
(* The quotes.                                                             *)
(***************************************************************************)

AngebotRek ==
    [status : AngebotStatus, inhalt : Inhalte, bis : 0..MaxHeute, geloescht : BOOLEAN,
     auftraege : 0..2, nachweis : Fassungen \cup {Kein}, bestaetigt : Fassungen \cup {Kein}]
MangelRek ==
    [status : {"offen", "in_angebot", "in_bearbeitung", "behoben", "abgelehnt"},
     angebot : Angebote \cup {Kein}]
AnfrageRek ==
    [tut : {"nichts", "position", "loeschen", "aus_maengeln", "mangel", "patch", "portal"},
     a : Angebote \cup {Kein}, m : SUBSET Maengel, bis : (0..MaxHeute) \cup {Kein},
     neu : AngebotStatus \cup {"behoben"}, alt : AngebotStatus, gesehen : Fassungen]

\* Requests that do not overlap are alone.
AnAllein ==
    zugleich = 1 => \A q, r \in AnAnfragen : anfrage[q] # Leer /\ anfrage[r] # Leer => q = r

\* What a request will write is about a quote that exists.
AnVorhaben ==
    \A r \in AnAnfragen : LET p == anfrage[r] IN
        /\ p.tut \in {"position", "loeschen", "patch", "portal"} => p.a \in Da
        /\ p.tut = "mangel" => p.neu = "behoben"
        /\ p.tut = "patch" => p.neu \in AngebotStatus
        /\ p.tut = "portal" => p.neu \in {"angenommen", "abgelehnt"}
        /\ p.tut = "patch" /\ p.neu = "entwurf" => p.bis # Kein

\* What a request has read is still so when nothing overlaps.
AnGeladen ==
    zugleich = 1 => \A r \in AnAnfragen : LET p == anfrage[r] IN
        /\ p.tut = "position" => angebot[p.a].status = "entwurf"
        /\ p.tut = "patch" /\ p.bis # Kein => angebot[p.a].status \in {"entwurf", "versendet"}
        /\ p.tut \in {"mangel", "aus_maengeln"} => \A m \in p.m : mangel[m].status = "offen"

\* A quote that is not decided has no record of acceptance.
Unentschieden ==
    \A a \in Da : angebot[a].status \in {"entwurf", "versendet"} => angebot[a].nachweis = Kein

IAngebot ==
    /\ AnTyp /\ AnAllein /\ AnVorhaben /\ AnGeladen /\ Unentschieden
    /\ EinAuftragJeAngebot /\ NachweisIstGesehenes /\ AngenommenesBleibt /\ MangelFolgtAngebot

\* The type invariant with names for its parts.
LEMMA AnFakten ==
  ASSUME AnTyp
  PROVE  /\ heute \in 0..MaxHeute /\ mangel \in [Maengel -> MangelRek]
         /\ angebot \in [Angebote -> {KeinAngebot} \cup AngebotRek]
         /\ anfrage \in [AnAnfragen -> AnfrageRek]
         /\ seite \in [Angebote -> Fassungen \cup {Kein}]
         /\ zugleich \in 1..Cardinality(AnAnfragen)
         /\ \A a \in Da : a \in Angebote /\ angebot[a] \in AngebotRek
BY DEF AnTyp, AngebotRek, MangelRek, AnfrageRek, Da

LEMMA AnTypAus ==
  ASSUME heute' \in 0..MaxHeute, mangel' \in [Maengel -> MangelRek],
         angebot' \in [Angebote -> {KeinAngebot} \cup AngebotRek],
         anfrage' \in [AnAnfragen -> AnfrageRek], seite' \in [Angebote -> Fassungen \cup {Kein}],
         zugleich' \in 1..Cardinality(AnAnfragen)
  PROVE  AnTyp'
BY DEF AnTyp, AngebotRek, MangelRek, AnfrageRek

LEMMA RekDa == \A x \in AngebotRek : x # KeinAngebot
BY DEF AngebotRek, KeinAngebot, AngebotStatus

LEMMA LeerFakten ==
  /\ Leer \in AnfrageRek /\ Leer.tut = "nichts" /\ Leer.m = {} /\ Leer.bis = Kein
  /\ Leer.neu = "entwurf" /\ Leer.a = Kein /\ Leer.alt = "entwurf"
BY AnAnnahme DEF Leer, AnfrageRek, AngebotStatus, Fassungen

\* When requests do not overlap, a new one begins in an empty system.
LEMMA Keiner ==
  ASSUME zugleich = 1, Cardinality({q \in AnAnfragen : anfrage[q] # Leer}) < zugleich
  PROVE  \A q \in AnAnfragen : anfrage[q] = Leer
<1> DEFINE s == {q \in AnAnfragen : anfrage[q] # Leer}
<1>1. IsFiniteSet(s)
  BY AnAnnahme, FS_Subset
<1>2. Cardinality(s) \in Nat
  BY <1>1, FS_CardinalityType
<1>3. Cardinality(s) = 0
  BY <1>2
<1>4. s = {}
  BY <1>1, <1>3, FS_EmptySet
<1>5. QED
  BY <1>4

-----------------------------------------------------------------------------
\* A request begins.
LEMMA AnBeginn ==
  ASSUME IAngebot, NEW r \in AnAnfragen, NEW p \in AnfrageRek, Beginne(r, p),
         p.tut \in {"position", "loeschen", "patch", "portal"} => p.a \in Da,
         p.tut = "mangel" => p.neu = "behoben",
         p.tut = "patch" => p.neu \in AngebotStatus,
         p.tut = "portal" => p.neu \in {"angenommen", "abgelehnt"},
         p.tut = "patch" /\ p.neu = "entwurf" => p.bis # Kein,
         p.tut = "position" => angebot[p.a].status = "entwurf",
         p.tut = "patch" /\ p.bis # Kein => angebot[p.a].status \in {"entwurf", "versendet"},
         p.tut \in {"mangel", "aus_maengeln"} => \A m \in p.m : mangel[m].status = "offen"
  PROVE  IAngebot'
<1>0. AnTyp /\ anfrage \in [AnAnfragen -> AnfrageRek]
  BY AnFakten DEF IAngebot
<1>1. /\ anfrage' \in [AnAnfragen -> AnfrageRek] /\ anfrage'[r] = p
      /\ \A q \in AnAnfragen : q # r => anfrage'[q] = anfrage[q]
      /\ UNCHANGED <<heute, angebot, mangel, seite, zugleich>>
      /\ Cardinality({q \in AnAnfragen : anfrage[q] # Leer}) < zugleich
  BY <1>0 DEF Beginne
<1>2. AnTyp'
  BY <1>0, <1>1, AnFakten, AnTypAus
<1>3. AnAllein'
  BY <1>1, Keiner DEF AnAllein
<1>4. Da' = Da
  BY <1>1 DEF Da
<1>5. AnVorhaben'
  BY <1>1, <1>4 DEF IAngebot, AnVorhaben
<1>6. AnGeladen'
  BY <1>1 DEF IAngebot, AnGeladen
<1>7. Unentschieden' /\ EinAuftragJeAngebot' /\ NachweisIstGesehenes'
  BY <1>1, <1>4 DEF IAngebot, Unentschieden, EinAuftragJeAngebot, NachweisIstGesehenes
<1>8. AngenommenesBleibt'
  BY <1>1, <1>4 DEF IAngebot, AngenommenesBleibt, Fassung
<1>9. MangelFolgtAngebot'
  BY <1>1, <1>4 DEF IAngebot, MangelFolgtAngebot
<1>10. QED
  BY <1>2, <1>3, <1>5, <1>6, <1>7, <1>8, <1>9 DEF IAngebot

\* A request ends, whatever it writes.
LEMMA AnEnde ==
  ASSUME IAngebot, NEW r \in AnAnfragen, anfrage[r].tut # "nichts", Fertig(r), Da \subseteq Da'
  PROVE  /\ AnAllein' /\ AnVorhaben' /\ AnGeladen' /\ anfrage' \in [AnAnfragen -> AnfrageRek]
         /\ UNCHANGED <<heute, seite, zugleich>>
<1>0. anfrage \in [AnAnfragen -> AnfrageRek] /\ anfrage[r] # Leer
  BY AnFakten, LeerFakten DEF IAngebot
<1>1. /\ anfrage' \in [AnAnfragen -> AnfrageRek] /\ anfrage'[r] = Leer
      /\ \A q \in AnAnfragen : q # r => anfrage'[q] = anfrage[q]
      /\ UNCHANGED <<heute, seite, zugleich>>
  BY <1>0, LeerFakten DEF Fertig
<1>2. zugleich = 1 => \A q \in AnAnfragen : anfrage'[q] = Leer
  BY <1>0, <1>1 DEF IAngebot, AnAllein
<1>3. AnAllein' /\ AnGeladen'
  BY <1>1, <1>2, LeerFakten DEF AnAllein, AnGeladen
<1>4. AnVorhaben'
  BY <1>1, LeerFakten DEF IAngebot, AnVorhaben
<1>5. QED
  BY <1>1, <1>3, <1>4

\* Requests under way are not disturbed by steps that keep every status.
LEMMA AnUngestoert ==
  ASSUME IAngebot, UNCHANGED <<mangel, anfrage, zugleich>>, Da \subseteq Da',
         \A a \in Da : angebot'[a].status = angebot[a].status
  PROVE  AnAllein' /\ AnVorhaben' /\ AnGeladen'
<1>1. AnAllein' /\ AnVorhaben'
  BY DEF IAngebot, AnAllein, AnVorhaben
<1>2. AnGeladen'
  BY DEF IAngebot, AnGeladen, AnVorhaben
<1>3. QED
  BY <1>1, <1>2

\* One row of the quotes is written.
LEMMA AnZeile ==
  ASSUME IAngebot, NEW a \in Angebote, NEW x \in AngebotRek,
         angebot' = [angebot EXCEPT ![a] = x], zugleich' = zugleich,
         x.auftraege = (IF x.status = "angenommen" THEN 1 ELSE 0), x.nachweis = x.bestaetigt,
         x.status \in {"entwurf", "versendet"} => x.nachweis = Kein,
         zugleich = 1 /\ x.status = "angenommen" /\ x.nachweis # Kein => x.nachweis = <<x.inhalt, x.bis>>
  PROVE  /\ angebot' \in [Angebote -> {KeinAngebot} \cup AngebotRek] /\ Da' = Da \cup {a}
         /\ angebot'[a] = x /\ \A b \in Angebote : b # a => angebot'[b] = angebot[b]
         /\ Unentschieden' /\ EinAuftragJeAngebot' /\ NachweisIstGesehenes' /\ AngenommenesBleibt'
<1>1. /\ angebot' \in [Angebote -> {KeinAngebot} \cup AngebotRek] /\ angebot'[a] = x
      /\ \A b \in Angebote : b # a => angebot'[b] = angebot[b]
  BY AnFakten DEF IAngebot
<1>2. Da' = Da \cup {a}
  BY <1>1, RekDa DEF Da
<1>3. \A b \in Da' : b \in Angebote /\ (b # a => b \in Da)
  BY <1>2 DEF Da
<1>4. Unentschieden' /\ EinAuftragJeAngebot' /\ NachweisIstGesehenes'
  BY <1>1, <1>3 DEF IAngebot, Unentschieden, EinAuftragJeAngebot, NachweisIstGesehenes
<1>5. AngenommenesBleibt'
  BY <1>1, <1>3 DEF IAngebot, AngenommenesBleibt, Fassung
<1>6. QED
  BY <1>1, <1>2, <1>4, <1>5

-----------------------------------------------------------------------------
LEMMA AnInitGilt == AnInit => IAngebot
<1> SUFFICES ASSUME AnInit PROVE IAngebot
  OBVIOUS
<1>1. anfrage \in [AnAnfragen -> AnfrageRek] /\ \A r \in AnAnfragen : anfrage[r] = Leer
  BY LeerFakten DEF AnInit
<1>2. AnTyp
  BY <1>1, AnAnnahme DEF AnInit, AnTyp, AnfrageRek
<1>3. Da = {}
  BY DEF AnInit, Da
<1>4. AnAllein /\ AnVorhaben /\ AnGeladen
  BY <1>1, LeerFakten DEF AnAllein, AnVorhaben, AnGeladen
<1>5. Unentschieden /\ EinAuftragJeAngebot /\ NachweisIstGesehenes /\ AngenommenesBleibt
  BY <1>3 DEF Unentschieden, EinAuftragJeAngebot, NachweisIstGesehenes, AngenommenesBleibt
<1>6. MangelFolgtAngebot
  BY DEF AnInit, MangelFolgtAngebot
<1>7. QED
  BY <1>2, <1>4, <1>5, <1>6 DEF IAngebot

LEMMA AnLesen ==
  ASSUME IAngebot, NEW r \in AnAnfragen,
         \/ AusMaengelnLesen(r) \/ MangelLesen(r) \/ PositionLesen(r)
         \/ AngebotLoeschenLesen(r) \/ PatchLesen(r) \/ AntwortLesen(r)
  PROVE  IAngebot'
<1>0. /\ angebot \in [Angebote -> {KeinAngebot} \cup AngebotRek]
      /\ \A a \in Da : a \in Angebote /\ angebot[a] \in AngebotRek
      /\ seite \in [Angebote -> Fassungen \cup {Kein}]
  BY AnFakten DEF IAngebot
<1>1. CASE AusMaengelnLesen(r)
  <2>1. PICK ms \in (SUBSET Maengel) \ {{}} :
          /\ \A m \in ms : mangel[m].status = "offen"
          /\ Beginne(r, [Leer EXCEPT !.tut = "aus_maengeln", !.m = ms])
    BY <1>1 DEF AusMaengelnLesen
  <2> DEFINE p == [Leer EXCEPT !.tut = "aus_maengeln", !.m = ms]
  <2>2. p \in AnfrageRek /\ p.tut = "aus_maengeln" /\ p.m = ms
    BY LeerFakten DEF AnfrageRek
  <2>3. Beginne(r, p)
    BY <2>1
  <2> HIDE DEF p
  <2>4. QED
    BY <2>1, <2>2, <2>3, AnBeginn
<1>2. CASE MangelLesen(r)
  <2>1. PICK m \in Maengel :
          /\ mangel[m].status = "offen"
          /\ Beginne(r, [Leer EXCEPT !.tut = "mangel", !.m = {m}, !.neu = "behoben"])
    BY <1>2 DEF MangelLesen
  <2> DEFINE p == [Leer EXCEPT !.tut = "mangel", !.m = {m}, !.neu = "behoben"]
  <2>2. p \in AnfrageRek /\ p.tut = "mangel" /\ p.m = {m} /\ p.neu = "behoben"
    BY LeerFakten DEF AnfrageRek
  <2>3. Beginne(r, p)
    BY <2>1
  <2> HIDE DEF p
  <2>4. QED
    BY <2>1, <2>2, <2>3, AnBeginn
<1>3. CASE PositionLesen(r)
  <2>1. PICK a \in Angebote :
          /\ Offene(a) /\ angebot[a].status = "entwurf"
          /\ Beginne(r, [Leer EXCEPT !.tut = "position", !.a = a])
    BY <1>3 DEF PositionLesen
  <2> DEFINE p == [Leer EXCEPT !.tut = "position", !.a = a]
  <2>2. p \in AnfrageRek /\ p.tut = "position" /\ p.a = a /\ a \in Da
    BY <2>1, LeerFakten DEF AnfrageRek, Offene
  <2>3. Beginne(r, p)
    BY <2>1
  <2> HIDE DEF p
  <2>4. QED
    BY <2>1, <2>2, <2>3, AnBeginn
<1>4. CASE AngebotLoeschenLesen(r)
  <2>1. PICK a \in Angebote :
          /\ Offene(a) /\ Beginne(r, [Leer EXCEPT !.tut = "loeschen", !.a = a])
    BY <1>4 DEF AngebotLoeschenLesen
  <2> DEFINE p == [Leer EXCEPT !.tut = "loeschen", !.a = a]
  <2>2. p \in AnfrageRek /\ p.tut = "loeschen" /\ p.a = a /\ a \in Da
    BY <2>1, LeerFakten DEF AnfrageRek, Offene
  <2>3. Beginne(r, p)
    BY <2>1
  <2> HIDE DEF p
  <2>4. QED
    BY <2>1, <2>2, <2>3, AnBeginn
<1>5. CASE PatchLesen(r)
  <2>1. PICK a \in Angebote, bis \in (0..MaxHeute) \cup {Kein}, neu \in AngebotStatus :
          /\ Offene(a) /\ (bis # Kein \/ neu # "entwurf")
          /\ bis # Kein => angebot[a].status \in {"entwurf", "versendet"}
          /\ Beginne(r, [Leer EXCEPT !.tut = "patch", !.a = a, !.bis = bis, !.neu = neu,
                           !.alt = angebot[a].status])
    BY <1>5 DEF PatchLesen
  <2> DEFINE alt == angebot[a].status
             p == [Leer EXCEPT !.tut = "patch", !.a = a, !.bis = bis, !.neu = neu, !.alt = alt]
  <2>2. a \in Da /\ alt \in AngebotStatus
    BY <1>0, <2>1 DEF Offene, AngebotRek
  <2>3. Beginne(r, p)
    BY <2>1
  <2> HIDE DEF alt
  <2>4. p \in AnfrageRek /\ p.tut = "patch" /\ p.a = a /\ p.bis = bis /\ p.neu = neu
    BY <2>2, LeerFakten DEF AnfrageRek
  <2> HIDE DEF p
  <2>5. QED
    BY <2>1, <2>2, <2>3, <2>4, AnBeginn
<1>6. CASE AntwortLesen(r)
  <2>1. PICK a \in Angebote, neu \in {"angenommen", "abgelehnt"} :
          /\ Offene(a) /\ angebot[a].status # "entwurf" /\ seite[a] = Fassung(a)
          /\ Beginne(r, [Leer EXCEPT !.tut = "portal", !.a = a, !.neu = neu, !.gesehen = seite[a],
                           !.alt = angebot[a].status])
    BY <1>6 DEF AntwortLesen
  <2> DEFINE alt == angebot[a].status
             bild == seite[a]
             p == [Leer EXCEPT !.tut = "portal", !.a = a, !.neu = neu, !.gesehen = bild, !.alt = alt]
  <2>2. a \in Da /\ alt \in AngebotStatus /\ bild \in Fassungen
    BY <1>0, <2>1 DEF Offene, AngebotRek, Fassung, Fassungen
  <2>3. Beginne(r, p)
    BY <2>1
  <2> HIDE DEF alt, bild
  <2>4. p \in AnfrageRek /\ p.tut = "portal" /\ p.a = a /\ p.neu = neu /\ neu \in AngebotStatus
    BY <2>2, LeerFakten DEF AnfrageRek, AngebotStatus
  <2> HIDE DEF p
  <2>5. QED
    BY <2>1, <2>2, <2>3, <2>4, AnBeginn
<1>7. QED
  BY <1>1, <1>2, <1>3, <1>4, <1>5, <1>6
-----------------------------------------------------------------------------
\* The row a quote starts with.
LEMMA NeuFakten ==
  ASSUME NEW i \in Inhalte, NEW bis \in 0..MaxHeute
  PROVE  /\ Neu(i, bis) \in AngebotRek /\ Neu(i, bis).status = "entwurf" /\ Neu(i, bis).auftraege = 0
         /\ Neu(i, bis).nachweis = Kein /\ Neu(i, bis).bestaetigt = Kein
BY DEF Neu, AngebotRek, AngebotStatus

\* Defects follow their quotes as long as no status changes.
LEMMA MangelBleibt ==
  ASSUME IAngebot, UNCHANGED <<mangel, zugleich>>, Da \subseteq Da',
         \A a \in Da : angebot'[a].status = angebot[a].status
  PROVE  MangelFolgtAngebot'
<1> SUFFICES ASSUME zugleich = 1, NEW m \in Maengel
             PROVE  LET a == mangel[m].angebot IN
                    CASE mangel[m].status = "in_angebot" ->
                           a \in Da' /\ angebot'[a].status \in {"entwurf", "versendet"}
                      [] mangel[m].status = "in_bearbeitung" -> a \in Da' /\ angebot'[a].status = "angenommen"
                      [] OTHER -> a = Kein
  BY DEF MangelFolgtAngebot
<1>1. LET a == mangel[m].angebot IN
      CASE mangel[m].status = "in_angebot" -> a \in Da /\ angebot[a].status \in {"entwurf", "versendet"}
        [] mangel[m].status = "in_bearbeitung" -> a \in Da /\ angebot[a].status = "angenommen"
        [] OTHER -> a = Kein
  BY DEF IAngebot, MangelFolgtAngebot
<1>2. QED
  BY <1>1

LEMMA FreieFrei == \A a \in Freie : a \in Angebote /\ a \notin Da
BY DEF Freie

LEMMA AnCreate == IAngebot /\ CreateAngebot => IAngebot'
<1> SUFFICES ASSUME IAngebot, CreateAngebot PROVE IAngebot'
  OBVIOUS
<1>1. PICK a \in Freie, i \in Inhalte, bis \in 0..MaxHeute : angebot' = [angebot EXCEPT ![a] = Neu(i, bis)]
  BY DEF CreateAngebot
<1>2. UNCHANGED <<heute, mangel, seite, anfrage, zugleich>> /\ a \in Angebote /\ a \notin Da
  BY FreieFrei DEF CreateAngebot
<1> DEFINE x == Neu(i, bis)
<1>3. x \in AngebotRek /\ x.status = "entwurf" /\ x.auftraege = 0 /\ x.nachweis = Kein /\ x.bestaetigt = Kein
  BY NeuFakten
<1>4. angebot' = [angebot EXCEPT ![a] = x]
  BY <1>1
<1> HIDE DEF x
<1>5. /\ angebot' \in [Angebote -> {KeinAngebot} \cup AngebotRek] /\ Da' = Da \cup {a}
      /\ angebot'[a] = x /\ \A b \in Angebote : b # a => angebot'[b] = angebot[b]
      /\ Unentschieden' /\ EinAuftragJeAngebot' /\ NachweisIstGesehenes' /\ AngenommenesBleibt'
  BY <1>2, <1>3, <1>4, AnZeile
<1>6. \A b \in Da : angebot'[b].status = angebot[b].status
  BY <1>2, <1>5 DEF Da
<1>7. AnAllein' /\ AnVorhaben' /\ AnGeladen' /\ MangelFolgtAngebot'
  BY <1>2, <1>5, <1>6, AnUngestoert, MangelBleibt
<1>8. AnTyp'
  BY <1>2, <1>5, AnFakten, AnTypAus DEF IAngebot
<1>9. QED
  BY <1>5, <1>7, <1>8 DEF IAngebot

LEMMA AnWiederherstellen == IAngebot /\ AngebotWiederherstellen => IAngebot'
<1> SUFFICES ASSUME IAngebot, AngebotWiederherstellen PROVE IAngebot'
  OBVIOUS
<1>1. PICK a \in Da : angebot' = [angebot EXCEPT ![a].geloescht = FALSE]
  BY DEF AngebotWiederherstellen
<1>2. /\ UNCHANGED <<heute, mangel, seite, anfrage, zugleich>>
      /\ a \in Angebote /\ angebot[a] \in AngebotRek /\ angebot \in [Angebote -> {KeinAngebot} \cup AngebotRek]
  BY AnFakten DEF AngebotWiederherstellen, IAngebot
<1> DEFINE x == [angebot[a] EXCEPT !.geloescht = FALSE]
<1>3. /\ x \in AngebotRek /\ x.status = angebot[a].status /\ x.auftraege = angebot[a].auftraege
      /\ x.nachweis = angebot[a].nachweis /\ x.bestaetigt = angebot[a].bestaetigt
      /\ x.inhalt = angebot[a].inhalt /\ x.bis = angebot[a].bis
  BY <1>2 DEF AngebotRek
<1>4. angebot' = [angebot EXCEPT ![a] = x]
  BY <1>1
<1> HIDE DEF x
<1>5. /\ x.auftraege = (IF x.status = "angenommen" THEN 1 ELSE 0) /\ x.nachweis = x.bestaetigt
      /\ x.status \in {"entwurf", "versendet"} => x.nachweis = Kein
  BY <1>3 DEF IAngebot, EinAuftragJeAngebot, NachweisIstGesehenes, Unentschieden
<1>6. zugleich = 1 /\ x.status = "angenommen" /\ x.nachweis # Kein => x.nachweis = <<x.inhalt, x.bis>>
  BY <1>3 DEF IAngebot, AngenommenesBleibt, Fassung
<1>7. /\ angebot' \in [Angebote -> {KeinAngebot} \cup AngebotRek] /\ Da' = Da \cup {a}
      /\ angebot'[a] = x /\ \A b \in Angebote : b # a => angebot'[b] = angebot[b]
      /\ Unentschieden' /\ EinAuftragJeAngebot' /\ NachweisIstGesehenes' /\ AngenommenesBleibt'
  BY <1>2, <1>3, <1>4, <1>5, <1>6, AnZeile
<1>8. \A b \in Da : angebot'[b].status = angebot[b].status
  BY <1>3, <1>7 DEF Da
<1>9. AnAllein' /\ AnVorhaben' /\ AnGeladen' /\ MangelFolgtAngebot'
  BY <1>2, <1>7, <1>8, AnUngestoert, MangelBleibt
<1>10. AnTyp'
  BY <1>2, <1>7, AnFakten, AnTypAus DEF IAngebot
<1>11. QED
  BY <1>7, <1>9, <1>10 DEF IAngebot

\* A page is loaded, or a day passes: nothing the invariant speaks of changes.
LEMMA AnStill ==
  ASSUME IAngebot, UNCHANGED <<angebot, mangel, anfrage, zugleich>>, AnTyp'
  PROVE  IAngebot'
<1>1. Da' = Da /\ \A a : Fassung(a)' = Fassung(a)
  BY DEF Da, Fassung
<1>2. AnAllein' /\ AnVorhaben' /\ AnGeladen' /\ MangelFolgtAngebot'
  BY <1>1, AnUngestoert, MangelBleibt
<1>3. Unentschieden' /\ EinAuftragJeAngebot' /\ NachweisIstGesehenes'
  BY <1>1 DEF IAngebot, Unentschieden, EinAuftragJeAngebot, NachweisIstGesehenes
<1>4. AngenommenesBleibt'
  BY <1>1 DEF IAngebot, AngenommenesBleibt
<1>5. QED
  BY <1>2, <1>3, <1>4 DEF IAngebot

LEMMA AnSeite == IAngebot /\ SeiteLaden => IAngebot'
<1> SUFFICES ASSUME IAngebot, SeiteLaden PROVE IAngebot'
  OBVIOUS
<1>1. PICK a \in Angebote : Offene(a) /\ seite' = [seite EXCEPT ![a] = Fassung(a)]
  BY DEF SeiteLaden
<1>2. Fassung(a) \in Fassungen
  BY <1>1, AnFakten DEF IAngebot, Offene, Fassung, Fassungen, AngebotRek
<1>3. AnTyp' /\ UNCHANGED <<angebot, mangel, anfrage, zugleich>>
  BY <1>1, <1>2, AnFakten, AnTypAus DEF IAngebot, SeiteLaden
<1>4. QED
  BY <1>3, AnStill

LEMMA AnTag == IAngebot /\ TagVergeht => IAngebot'
<1> SUFFICES ASSUME IAngebot, TagVergeht PROVE IAngebot'
  OBVIOUS
<1>1. heute' \in 0..MaxHeute
  BY AnFakten, AnAnnahme DEF IAngebot, TagVergeht
<1>2. AnTyp' /\ UNCHANGED <<angebot, mangel, anfrage, zugleich>>
  BY <1>1, AnFakten, AnTypAus DEF IAngebot, TagVergeht
<1>3. QED
  BY <1>2, AnStill
-----------------------------------------------------------------------------
\* What a request that ends has to show of its writes.
LEMMA AnSchreiben ==
  ASSUME IAngebot, NEW r \in AnAnfragen, anfrage[r].tut # "nichts", Fertig(r), Da \subseteq Da',
         angebot' \in [Angebote -> {KeinAngebot} \cup AngebotRek], mangel' \in [Maengel -> MangelRek],
         Unentschieden' /\ EinAuftragJeAngebot' /\ NachweisIstGesehenes' /\ AngenommenesBleibt',
         MangelFolgtAngebot'
  PROVE  IAngebot'
<1>1. /\ AnAllein' /\ AnVorhaben' /\ AnGeladen' /\ anfrage' \in [AnAnfragen -> AnfrageRek]
      /\ UNCHANGED <<heute, seite, zugleich>>
  BY AnEnde
<1>2. AnTyp'
  BY <1>1, AnFakten, AnTypAus DEF IAngebot
<1>3. QED
  BY <1>1, <1>2 DEF IAngebot

\* Writes that leave the quotes alone.
LEMMA AnNurMangel ==
  ASSUME IAngebot, NEW r \in AnAnfragen, anfrage[r].tut # "nichts", Fertig(r), UNCHANGED angebot,
         mangel' \in [Maengel -> MangelRek], MangelFolgtAngebot'
  PROVE  IAngebot'
<1>1. Da' = Da /\ zugleich' = zugleich /\ \A a : Fassung(a)' = Fassung(a)
  BY DEF Da, Fertig, Fassung
<1>2. Unentschieden' /\ EinAuftragJeAngebot' /\ NachweisIstGesehenes'
  BY <1>1 DEF IAngebot, Unentschieden, EinAuftragJeAngebot, NachweisIstGesehenes
<1>3. AngenommenesBleibt'
  BY <1>1 DEF IAngebot, AngenommenesBleibt
<1>4. angebot' \in [Angebote -> {KeinAngebot} \cup AngebotRek]
  BY AnFakten DEF IAngebot
<1>5. QED
  BY <1>1, <1>2, <1>3, <1>4, AnSchreiben

LEMMA AnMangel == ASSUME IAngebot, NEW r \in AnAnfragen, MangelSchreiben(r) PROVE IAngebot'
<1>0. /\ anfrage \in [AnAnfragen -> AnfrageRek] /\ mangel \in [Maengel -> MangelRek]
      /\ anfrage[r].neu = "behoben"
  BY AnFakten DEF IAngebot, MangelSchreiben, AnVorhaben
<1>1. /\ anfrage[r].tut = "mangel" /\ Fertig(r) /\ UNCHANGED angebot
      /\ mangel' = [m \in Maengel |-> IF m \in anfrage[r].m
                      THEN [mangel[m] EXCEPT !.status = "behoben"] ELSE mangel[m]]
  BY <1>0 DEF MangelSchreiben
<1>2. \A m \in Maengel : [mangel[m] EXCEPT !.status = "behoben"] \in MangelRek
  BY <1>0 DEF MangelRek
<1>3. mangel' \in [Maengel -> MangelRek]
  BY <1>0, <1>1, <1>2
<1>4. Da' = Da /\ zugleich' = zugleich
  BY <1>1 DEF Da, Fertig
<1>5. zugleich = 1 => \A m \in anfrage[r].m : mangel[m].status = "offen"
  BY <1>1 DEF IAngebot, AnGeladen
<1>6. zugleich = 1 => \A m \in anfrage[r].m \cap Maengel : mangel[m].angebot = Kein
  BY <1>5 DEF IAngebot, MangelFolgtAngebot
<1>7. \A m \in Maengel : \/ m \notin anfrage[r].m /\ mangel'[m] = mangel[m]
                         \/ /\ m \in anfrage[r].m /\ mangel'[m].status = "behoben"
                            /\ mangel'[m].angebot = mangel[m].angebot
  BY <1>0, <1>1 DEF MangelRek
<1>8. MangelFolgtAngebot'
  BY <1>1, <1>4, <1>6, <1>7 DEF IAngebot, MangelFolgtAngebot
<1>9. QED
  BY <1>1, <1>3, <1>8, AnNurMangel

LEMMA AnAusMaengeln == ASSUME IAngebot, NEW r \in AnAnfragen, AusMaengelnSchreiben(r) PROVE IAngebot'
<1>1. PICK a \in Freie, i \in Inhalte \ {0}, bis \in 0..MaxHeute :
         /\ angebot' = [angebot EXCEPT ![a] = Neu(i, bis)]
         /\ mangel' = [m \in Maengel |-> IF m \in anfrage[r].m
                         THEN [status |-> "in_angebot", angebot |-> a] ELSE mangel[m]]
  BY DEF AusMaengelnSchreiben
<1> DEFINE x == Neu(i, bis)
<1>2. x \in AngebotRek /\ x.status = "entwurf" /\ x.auftraege = 0 /\ x.nachweis = Kein /\ x.bestaetigt = Kein
  BY NeuFakten
<1>3. angebot' = [angebot EXCEPT ![a] = x]
  BY <1>1
<1> HIDE DEF x
<1>4. anfrage[r].tut = "aus_maengeln" /\ Fertig(r) /\ zugleich' = zugleich /\ a \in Angebote /\ a \notin Da
  BY FreieFrei DEF AusMaengelnSchreiben, Fertig
<1>5. /\ angebot' \in [Angebote -> {KeinAngebot} \cup AngebotRek] /\ Da' = Da \cup {a}
      /\ angebot'[a] = x /\ \A b \in Angebote : b # a => angebot'[b] = angebot[b]
      /\ Unentschieden' /\ EinAuftragJeAngebot' /\ NachweisIstGesehenes' /\ AngenommenesBleibt'
  BY <1>2, <1>3, <1>4, AnZeile
<1>6. mangel \in [Maengel -> MangelRek] /\ [status |-> "in_angebot", angebot |-> a] \in MangelRek
  BY <1>4, AnFakten DEF IAngebot, MangelRek
<1>7. /\ mangel' \in [Maengel -> MangelRek]
      /\ \A m \in Maengel : \/ mangel'[m] = mangel[m]
                            \/ mangel'[m].status = "in_angebot" /\ mangel'[m].angebot = a
  BY <1>1, <1>6
<1>8. MangelFolgtAngebot'
  <2> SUFFICES ASSUME zugleich = 1, NEW m \in Maengel
               PROVE  LET b == mangel'[m].angebot IN
                      CASE mangel'[m].status = "in_angebot" ->
                             b \in Da' /\ angebot'[b].status \in {"entwurf", "versendet"}
                        [] mangel'[m].status = "in_bearbeitung" -> b \in Da' /\ angebot'[b].status = "angenommen"
                        [] OTHER -> b = Kein
    BY <1>4 DEF MangelFolgtAngebot
  <2>1. CASE mangel'[m].status = "in_angebot" /\ mangel'[m].angebot = a
    BY <1>2, <1>5, <2>1
  <2>2. CASE mangel'[m] = mangel[m]
    <3>1. LET b == mangel[m].angebot IN
          CASE mangel[m].status = "in_angebot" -> b \in Da /\ angebot[b].status \in {"entwurf", "versendet"}
            [] mangel[m].status = "in_bearbeitung" -> b \in Da /\ angebot[b].status = "angenommen"
            [] OTHER -> b = Kein
      BY DEF IAngebot, MangelFolgtAngebot
    <3>2. \A b \in Da : b \in Angebote /\ b # a /\ b \in Da' /\ angebot'[b] = angebot[b]
      BY <1>4, <1>5 DEF Da
    <3>3. QED
      BY <2>2, <3>1, <3>2
  <2>3. QED
    BY <1>7, <2>1, <2>2
<1>9. QED
  BY <1>4, <1>5, <1>7, <1>8, AnSchreiben
-----------------------------------------------------------------------------
\* A request writes a field that is neither status nor record.
LEMMA AnFeld ==
  ASSUME IAngebot, NEW r \in AnAnfragen, anfrage[r].tut # "nichts", Fertig(r), UNCHANGED mangel,
         NEW a \in Da, NEW x \in AngebotRek, angebot' = [angebot EXCEPT ![a] = x],
         x.status = angebot[a].status, x.auftraege = angebot[a].auftraege,
         x.nachweis = angebot[a].nachweis, x.bestaetigt = angebot[a].bestaetigt,
         zugleich = 1 /\ x.status = "angenommen" => x.inhalt = angebot[a].inhalt /\ x.bis = angebot[a].bis
  PROVE  IAngebot'
<1>1. a \in Angebote /\ zugleich' = zugleich /\ mangel \in [Maengel -> MangelRek]
  BY AnFakten DEF IAngebot, Fertig
<1>2. /\ x.auftraege = (IF x.status = "angenommen" THEN 1 ELSE 0) /\ x.nachweis = x.bestaetigt
      /\ x.status \in {"entwurf", "versendet"} => x.nachweis = Kein
  BY DEF IAngebot, EinAuftragJeAngebot, NachweisIstGesehenes, Unentschieden
<1>3. zugleich = 1 /\ x.status = "angenommen" /\ x.nachweis # Kein => x.nachweis = <<x.inhalt, x.bis>>
  BY DEF IAngebot, AngenommenesBleibt, Fassung
<1>4. /\ angebot' \in [Angebote -> {KeinAngebot} \cup AngebotRek] /\ Da' = Da \cup {a}
      /\ angebot'[a] = x /\ \A b \in Angebote : b # a => angebot'[b] = angebot[b]
      /\ Unentschieden' /\ EinAuftragJeAngebot' /\ NachweisIstGesehenes' /\ AngenommenesBleibt'
  BY <1>1, <1>2, <1>3, AnZeile
<1>5. \A b \in Da : angebot'[b].status = angebot[b].status
  BY <1>4 DEF Da
<1>6. MangelFolgtAngebot'
  BY <1>1, <1>4, <1>5, MangelBleibt
<1>7. QED
  BY <1>1, <1>4, <1>6, AnSchreiben

LEMMA AnPosition == ASSUME IAngebot, NEW r \in AnAnfragen, PositionSchreiben(r) PROVE IAngebot'
<1> DEFINE a == anfrage[r].a
<1>1. PICK i \in Inhalte : angebot' = [angebot EXCEPT ![a].inhalt = i]
  BY DEF PositionSchreiben
<1>2. anfrage[r].tut = "position" /\ Fertig(r) /\ UNCHANGED mangel
  BY DEF PositionSchreiben
<1>3. a \in Da /\ angebot[a] \in AngebotRek /\ (zugleich = 1 => angebot[a].status = "entwurf")
  BY <1>2, AnFakten DEF IAngebot, AnVorhaben, AnGeladen
<1> HIDE DEF a
<1> DEFINE x == [angebot[a] EXCEPT !.inhalt = i]
<1>4. /\ x \in AngebotRek /\ x.status = angebot[a].status /\ x.auftraege = angebot[a].auftraege
      /\ x.nachweis = angebot[a].nachweis /\ x.bestaetigt = angebot[a].bestaetigt
  BY <1>3 DEF AngebotRek
<1>5. angebot' = [angebot EXCEPT ![a] = x]
  BY <1>1
<1> HIDE DEF x
<1>6. QED
  BY <1>2, <1>3, <1>4, <1>5, AnFeld

LEMMA AnLoeschen == ASSUME IAngebot, NEW r \in AnAnfragen, AngebotLoeschenSchreiben(r) PROVE IAngebot'
<1> DEFINE a == anfrage[r].a
<1>1. /\ anfrage[r].tut = "loeschen" /\ Fertig(r) /\ UNCHANGED mangel
      /\ angebot' = [angebot EXCEPT ![a].geloescht = TRUE]
  BY DEF AngebotLoeschenSchreiben
<1>2. a \in Da /\ angebot[a] \in AngebotRek
  BY <1>1, AnFakten DEF IAngebot, AnVorhaben
<1> HIDE DEF a
<1> DEFINE x == [angebot[a] EXCEPT !.geloescht = TRUE]
<1>3. /\ x \in AngebotRek /\ x.status = angebot[a].status /\ x.auftraege = angebot[a].auftraege
      /\ x.nachweis = angebot[a].nachweis /\ x.bestaetigt = angebot[a].bestaetigt
      /\ x.inhalt = angebot[a].inhalt /\ x.bis = angebot[a].bis
  BY <1>2 DEF AngebotRek
<1>4. angebot' = [angebot EXCEPT ![a] = x]
  BY <1>1
<1> HIDE DEF x
<1>5. QED
  BY <1>1, <1>2, <1>3, <1>4, AnFeld

-----------------------------------------------------------------------------
\* A quote is shipped, accepted or declined.
LEMMA AnUebergang ==
  ASSUME IAngebot, NEW r \in AnAnfragen, anfrage[r].tut \in {"patch", "portal"}, Fertig(r),
         NEW a, a = anfrage[r].a, NEW bis \in 0..MaxHeute, Erlaubt(r, a, bis),
         NEW neu, neu = anfrage[r].neu, NEW nachweis \in Fassungen \cup {Kein},
         Uebergang(a, bis, neu, nachweis, nachweis),
         neu = "versendet" => nachweis = Kein,
         nachweis # Kein => nachweis = <<angebot[a].inhalt, bis>>
  PROVE  IAngebot'
<1>1. /\ a \in Da /\ a \in Angebote /\ angebot[a] \in AngebotRek /\ zugleich' = zugleich
      /\ angebot \in [Angebote -> {KeinAngebot} \cup AngebotRek] /\ mangel \in [Maengel -> MangelRek]
      /\ anfrage[r].tut # "nichts"
  BY AnFakten DEF IAngebot, AnVorhaben, Fertig
<1>2. \/ angebot[a].status = "entwurf" /\ neu = "versendet"
      \/ angebot[a].status = "versendet" /\ neu \in {"angenommen", "abgelehnt"}
  <2>1. angebot[a].status \in AngebotStatus
    BY <1>1 DEF AngebotRek
  <2>2. QED
    BY <2>1 DEF Erlaubt, GUELTIGE_UEBERGAENGE, AngebotStatus
<1>3. angebot[a].auftraege = 0
  BY <1>1, <1>2 DEF IAngebot, EinAuftragJeAngebot
<1> DEFINE n == IF neu = "angenommen" THEN angebot[a].auftraege + 1 ELSE angebot[a].auftraege
           x == [angebot[a] EXCEPT !.status = neu, !.bis = bis, !.auftraege = n,
                   !.nachweis = nachweis, !.bestaetigt = nachweis]
<1>4. n \in 0..2 /\ n = (IF neu = "angenommen" THEN 1 ELSE 0)
  BY <1>3
<1>5. angebot' = [angebot EXCEPT ![a] = x] /\ mangel' = MaengelNach(a, neu)
  BY <1>1 DEF Uebergang
<1> HIDE DEF n
<1>6. /\ x \in AngebotRek /\ x.status = neu /\ x.bis = bis /\ x.auftraege = n
      /\ x.nachweis = nachweis /\ x.bestaetigt = nachweis /\ x.inhalt = angebot[a].inhalt
  BY <1>1, <1>2, <1>4 DEF AngebotRek, AngebotStatus
<1> HIDE DEF x
<1>7. x.status \in {"entwurf", "versendet"} => x.nachweis = Kein
  BY <1>2, <1>6
<1>8. /\ angebot' \in [Angebote -> {KeinAngebot} \cup AngebotRek] /\ Da' = Da \cup {a}
      /\ angebot'[a] = x /\ \A b \in Angebote : b # a => angebot'[b] = angebot[b]
      /\ Unentschieden' /\ EinAuftragJeAngebot' /\ NachweisIstGesehenes' /\ AngenommenesBleibt'
  BY <1>1, <1>4, <1>5, <1>6, <1>7, AnZeile
<1>9. \A m \in Maengel : /\ [mangel[m] EXCEPT !.status = "in_bearbeitung"] \in MangelRek
                         /\ [mangel[m] EXCEPT !.status = "in_bearbeitung"].status = "in_bearbeitung"
                         /\ [mangel[m] EXCEPT !.status = "in_bearbeitung"].angebot = mangel[m].angebot
  BY <1>1 DEF MangelRek
<1>10. [status |-> "offen", angebot |-> Kein] \in MangelRek
  BY DEF MangelRek
<1>11. \A m \in Maengel :
         \/ /\ mangel[m].angebot = a /\ neu = "angenommen"
            /\ mangel'[m] = [mangel[m] EXCEPT !.status = "in_bearbeitung"]
         \/ /\ mangel[m].angebot = a /\ neu = "abgelehnt"
            /\ mangel'[m] = [status |-> "offen", angebot |-> Kein]
         \/ mangel'[m] = mangel[m] /\ (mangel[m].angebot # a \/ neu = "versendet")
  BY <1>2, <1>5 DEF MaengelNach
<1>12. mangel' \in [Maengel -> MangelRek]
  <2>1. DOMAIN mangel' = Maengel /\ mangel' = [m \in Maengel |-> mangel'[m]]
    BY <1>5 DEF MaengelNach
  <2>2. \A m \in Maengel : mangel'[m] \in MangelRek
    BY <1>1, <1>9, <1>10, <1>11
  <2>3. QED
    BY <2>1, <2>2
<1>13. MangelFolgtAngebot'
  <2> SUFFICES ASSUME zugleich = 1, NEW m \in Maengel
               PROVE  LET b == mangel'[m].angebot IN
                      CASE mangel'[m].status = "in_angebot" ->
                             b \in Da' /\ angebot'[b].status \in {"entwurf", "versendet"}
                        [] mangel'[m].status = "in_bearbeitung" -> b \in Da' /\ angebot'[b].status = "angenommen"
                        [] OTHER -> b = Kein
    BY <1>1 DEF MangelFolgtAngebot
  <2>1. CASE /\ mangel[m].angebot = a /\ neu = "angenommen"
             /\ mangel'[m] = [mangel[m] EXCEPT !.status = "in_bearbeitung"]
    <3>1. mangel'[m].status = "in_bearbeitung" /\ mangel'[m].angebot = a
      BY <1>9, <2>1
    <3>2. a \in Da' /\ angebot'[a].status = "angenommen"
      BY <1>6, <1>8, <2>1
    <3>3. QED
      BY <3>1, <3>2
  <2>2. CASE mangel'[m] = [status |-> "offen", angebot |-> Kein]
    BY <2>2
  <2>3. CASE mangel'[m] = mangel[m] /\ (mangel[m].angebot # a \/ neu = "versendet")
    <3>1. LET b == mangel[m].angebot IN
          CASE mangel[m].status = "in_angebot" -> b \in Da /\ angebot[b].status \in {"entwurf", "versendet"}
            [] mangel[m].status = "in_bearbeitung" -> b \in Da /\ angebot[b].status = "angenommen"
            [] OTHER -> b = Kein
      BY DEF IAngebot, MangelFolgtAngebot
    <3>2. \A b \in Da : b \in Da' /\ (b # a => angebot'[b] = angebot[b])
      BY <1>8 DEF Da
    <3>3. neu = "versendet" => angebot[a].status = "entwurf" /\ angebot'[a].status = "versendet"
      BY <1>2, <1>6, <1>8
    <3>4. QED
      BY <2>3, <3>1, <3>2, <3>3
  <2>4. QED
    BY <1>11, <2>1, <2>2, <2>3
<1>14. QED
  BY <1>1, <1>8, <1>12, <1>13, AnSchreiben

\* A request that finds it may no longer do what it wanted writes nothing.
LEMMA AnNichts ==
  ASSUME IAngebot, NEW r \in AnAnfragen, anfrage[r].tut # "nichts", Fertig(r), UNCHANGED <<angebot, mangel>>
  PROVE  IAngebot'
<1>1. zugleich' = zugleich /\ Da' = Da /\ mangel' \in [Maengel -> MangelRek]
  BY AnFakten DEF IAngebot, Fertig, Da
<1>2. MangelFolgtAngebot'
  BY <1>1, MangelBleibt
<1>3. QED
  BY <1>1, <1>2, AnNurMangel

LEMMA AnPatch == ASSUME IAngebot, NEW r \in AnAnfragen, PatchSchreiben(r) PROVE IAngebot'
<1> DEFINE a == anfrage[r].a
           bis == IF anfrage[r].bis = Kein THEN angebot[a].bis ELSE anfrage[r].bis
           neu == anfrage[r].neu
           alt == angebot[a].nachweis
<1>1. /\ anfrage[r].tut = "patch" /\ Fertig(r)
      /\ \/ neu = "entwurf" /\ angebot' = [angebot EXCEPT ![a].bis = bis] /\ UNCHANGED mangel
         \/ Erlaubt(r, a, bis) /\ Uebergang(a, bis, neu, alt, angebot[a].bestaetigt)
         \/ UNCHANGED <<angebot, mangel>>
  BY DEF PatchSchreiben
<1>2. a \in Da /\ angebot[a] \in AngebotRek /\ anfrage[r] \in AnfrageRek
  BY <1>1, AnFakten DEF IAngebot, AnVorhaben
<1>3. /\ bis \in 0..MaxHeute /\ alt \in Fassungen \cup {Kein} /\ alt = angebot[a].bestaetigt
      /\ angebot[a].status \in AngebotStatus
  BY <1>2, AnAnnahme DEF IAngebot, NachweisIstGesehenes, AngebotRek, AnfrageRek
<1>4. CASE neu = "entwurf" /\ angebot' = [angebot EXCEPT ![a].bis = bis] /\ UNCHANGED mangel
  <2>1. zugleich = 1 => angebot[a].status \in {"entwurf", "versendet"}
    BY <1>1, <1>4 DEF IAngebot, AnVorhaben, AnGeladen
  <2> HIDE DEF a, bis
  <2> DEFINE x == [angebot[a] EXCEPT !.bis = bis]
  <2>2. /\ x \in AngebotRek /\ x.status = angebot[a].status /\ x.auftraege = angebot[a].auftraege
        /\ x.nachweis = angebot[a].nachweis /\ x.bestaetigt = angebot[a].bestaetigt
    BY <1>2, <1>3 DEF AngebotRek
  <2>3. angebot' = [angebot EXCEPT ![a] = x]
    BY <1>4
  <2> HIDE DEF x
  <2>4. QED
    BY <1>1, <1>2, <1>4, <2>1, <2>2, <2>3, AnFeld
<1>5. CASE Erlaubt(r, a, bis) /\ Uebergang(a, bis, neu, alt, angebot[a].bestaetigt)
  <2>1. angebot[a].status \in {"entwurf", "versendet"}
    BY <1>3, <1>5 DEF Erlaubt, GUELTIGE_UEBERGAENGE, AngebotStatus
  <2>2. alt = Kein
    BY <1>2, <2>1 DEF IAngebot, Unentschieden
  <2>3. Uebergang(a, bis, neu, alt, alt)
    BY <1>3, <1>5
  <2> HIDE DEF a, bis, neu, alt
  <2>4. a = anfrage[r].a /\ neu = anfrage[r].neu
    BY DEF a, neu
  <2>5. QED
    BY <1>1, <1>3, <1>5, <2>2, <2>3, <2>4, AnUebergang
<1>6. CASE UNCHANGED <<angebot, mangel>>
  BY <1>1, <1>6, AnNichts
<1>7. QED
  BY <1>1, <1>4, <1>5, <1>6

LEMMA AnAntwort == ASSUME IAngebot, NEW r \in AnAnfragen, AntwortSchreiben(r) PROVE IAngebot'
<1> DEFINE a == anfrage[r].a
           bis == angebot[a].bis
           neu == anfrage[r].neu
           bild == Fassung(a)
<1>1. /\ anfrage[r].tut = "portal" /\ Fertig(r)
      /\ \/ Erlaubt(r, a, bis) /\ anfrage[r].gesehen = bild /\ Uebergang(a, bis, neu, bild, anfrage[r].gesehen)
         \/ UNCHANGED <<angebot, mangel>>
  BY DEF AntwortSchreiben
<1>2. a \in Da /\ angebot[a] \in AngebotRek /\ neu \in {"angenommen", "abgelehnt"}
  BY <1>1, AnFakten DEF IAngebot, AnVorhaben
<1>3. bis \in 0..MaxHeute /\ bild \in Fassungen /\ bild = <<angebot[a].inhalt, bis>>
  BY <1>2 DEF AngebotRek, Fassung, Fassungen
<1>4. CASE Erlaubt(r, a, bis) /\ Uebergang(a, bis, neu, bild, bild)
  <2> HIDE DEF a, bis, neu, bild
  <2>1. a = anfrage[r].a /\ neu = anfrage[r].neu
    BY DEF a, neu
  <2>2. QED
    BY <1>1, <1>2, <1>3, <1>4, <2>1, AnUebergang
<1>5. CASE UNCHANGED <<angebot, mangel>>
  BY <1>1, <1>5, AnNichts
<1>6. QED
  BY <1>1, <1>4, <1>5

-----------------------------------------------------------------------------
LEMMA AnSchritt == IAngebot /\ [AnNext]_anVars => IAngebot'
<1> SUFFICES ASSUME IAngebot, [AnNext]_anVars PROVE IAngebot'
  OBVIOUS
<1>1. CASE UNCHANGED anVars
  BY <1>1, AnStill DEF IAngebot, anVars, AnTyp, Fassungen
<1>2. CASE CreateAngebot \/ AngebotWiederherstellen \/ SeiteLaden \/ TagVergeht
  BY <1>2, AnCreate, AnWiederherstellen, AnSeite, AnTag
<1>3. ASSUME NEW r \in AnAnfragen,
             \/ AusMaengelnLesen(r) \/ MangelLesen(r) \/ PositionLesen(r)
             \/ AngebotLoeschenLesen(r) \/ PatchLesen(r) \/ AntwortLesen(r)
      PROVE  IAngebot'
  BY <1>3, AnLesen
<1>4. ASSUME NEW r \in AnAnfragen,
             \/ AusMaengelnSchreiben(r) \/ MangelSchreiben(r) \/ PositionSchreiben(r)
             \/ AngebotLoeschenSchreiben(r) \/ PatchSchreiben(r) \/ AntwortSchreiben(r)
      PROVE  IAngebot'
  BY <1>4, AnAusMaengeln, AnMangel, AnPosition, AnLoeschen, AnPatch, AnAntwort
<1>5. QED
  BY <1>1, <1>2, <1>3, <1>4 DEF AnNext

-----------------------------------------------------------------------------
(***************************************************************************)
(* Who may manage rights.                                                  *)
(***************************************************************************)

\* An account type that does not exist grants nothing.
TypenSauber == \A t \in Typen : ~kontotyp[t].da => ~kontotyp[t].erlaubt

KontoRek == [stand : {"aktiv", "inaktiv", "weg"}, typ : Plaetze]
TypRek == [da : BOOLEAN, nur : BOOLEAN, erlaubt : BOOLEAN]

IRechte ==
    /\ konto \in [Nutzer -> KontoRek] /\ kontotyp \in [Typen -> TypRek] /\ platz \subseteq Nutzer \X Plaetze
    /\ positionRecht \in [Plaetze -> Override] /\ nutzerRecht \in [Nutzer -> Override] /\ TypenSauber

LEMMA IRechteTyp == IRechte => ReTyp
BY DEF IRechte, ReTyp, KontoRek, TypRek

LEMMA WegFakten == Weg \in KontoRek /\ Weg.stand = "weg" /\ KeinOverride \in Override
BY DEF Weg, KontoRek, Plaetze, KeinOverride, Override

LEMMA KeinTypFakten == KeinTyp \in TypRek /\ ~KeinTyp.da /\ ~KeinTyp.erlaubt
<1>1. TRUE \in BOOLEAN /\ FALSE \in BOOLEAN
  OBVIOUS
<1>2. QED
  BY <1>1 DEF KeinTyp, TypRek

LEMMA ReInitGilt == ReInit => IRechte
BY WegFakten, KeinTypFakten DEF ReInit, IRechte, ReTyp, TypenSauber, KontoRek, TypRek

\* The effective right is a matter of the positions held and of the overrides.
LEMMA RangGleich ==
  ASSUME NEW n \in Nutzer, konto'[n].typ = konto[n].typ, PlaetzeVon(n)' = PlaetzeVon(n),
         nutzerRecht'[n] = nutzerRecht[n], \A p \in PlaetzeVon(n) : PositionRang(p)' = PositionRang(p)
  PROVE  Rang(n)' = Rang(n)
<1>1. IstAdmin(n)' = IstAdmin(n)
  BY DEF IstAdmin
<1>2. {PositionRang(p) : p \in PlaetzeVon(n)}' = {PositionRang(p) : p \in PlaetzeVon(n)}
  OBVIOUS
<1>3. Max({PositionRang(p) : p \in PlaetzeVon(n)})' = Max({PositionRang(p) : p \in PlaetzeVon(n)})
  BY <1>2
<1>4. QED
  BY <1>1, <1>3 DEF Rang

\* The requests that look before they write, and those that write one table.
LEMMA ReTypSchritt == IRechte /\ ReNext => IRechte'
<1> SUFFICES ASSUME IRechte, ReNext PROVE IRechte'
  OBVIOUS
<1>1. /\ konto \in [Nutzer -> KontoRek] /\ kontotyp \in [Typen -> TypRek] /\ platz \subseteq Nutzer \X Plaetze
      /\ positionRecht \in [Plaetze -> Override] /\ nutzerRecht \in [Nutzer -> Override] /\ TypenSauber
  BY DEF IRechte
<1>3. ASSUME NEW n \in Nutzer, NEW t \in Plaetze, CreateUser(n, t) \/ Besetze(t, n) \/ BeendeBesetzung(t, n)
      PROVE  IRechte'
  <2>1. [stand |-> "aktiv", typ |-> t] \in KontoRek
    BY DEF KontoRek
  <2>2. QED
    BY <1>1, <1>3, <2>1 DEF IRechte, CreateUser, Besetze, BeendeBesetzung, TypenSauber
<1>4. ASSUME NEW n \in Nutzer, NEW neu \in [stand : {"aktiv", "inaktiv"}, typ : Plaetze], UpdateUser(n, neu)
      PROVE  IRechte'
  <2>1. neu \in KontoRek /\ neu.typ \in Plaetze
    BY DEF KontoRek
  <2>2. platz' \subseteq Nutzer \X Plaetze
    BY <1>1, <1>4, <2>1 DEF UpdateUser, PlatzGepflegt
  <2>3. QED
    BY <1>1, <1>4, <2>1, <2>2 DEF IRechte, UpdateUser, TypenSauber
<1>5. ASSUME NEW n \in Nutzer, DeleteUser(n) PROVE IRechte'
  BY <1>1, <1>5, WegFakten DEF IRechte, DeleteUser, TypenSauber
<1>6. ASSUME NEW t \in Typen, NEW nur \in BOOLEAN, CreateAccountTyp(t, nur) PROVE IRechte'
  <2> DEFINE neu == [da |-> TRUE, nur |-> nur, erlaubt |-> FALSE]
  <2>1. neu \in TypRek /\ neu.da
    BY DEF TypRek
  <2>2. kontotyp' = [kontotyp EXCEPT ![t] = neu]
    BY <1>6 DEF CreateAccountTyp
  <2> HIDE DEF neu
  <2>3. QED
    BY <1>1, <1>6, <2>1, <2>2 DEF IRechte, CreateAccountTyp, TypenSauber
<1>7. ASSUME NEW t \in Typen, UpdateTyp(t) \/ SetRecht(t) PROVE IRechte'
  <2>0. /\ kontotyp[t].da /\ kontotyp[t] \in TypRek
        /\ \/ kontotyp' = [kontotyp EXCEPT ![t].nur = ~@]
           \/ kontotyp' = [kontotyp EXCEPT ![t].erlaubt = ~@]
    BY <1>1, <1>7 DEF UpdateTyp, SetRecht
  <2>1. PICK neu : /\ neu \in TypRek /\ neu.da = kontotyp[t].da
                   /\ kontotyp' = [kontotyp EXCEPT ![t] = neu]
    <3>1. CASE kontotyp' = [kontotyp EXCEPT ![t].nur = ~@]
      <4> DEFINE w == ~kontotyp[t].nur
      <4>0. w \in BOOLEAN
        OBVIOUS
      <4>1. kontotyp' = [kontotyp EXCEPT ![t] = [kontotyp[t] EXCEPT !.nur = w]]
        BY <3>1
      <4> HIDE DEF w
      <4>2. [kontotyp[t] EXCEPT !.nur = w] \in TypRek /\ [kontotyp[t] EXCEPT !.nur = w].da = kontotyp[t].da
        BY <2>0, <4>0 DEF TypRek
      <4>3. QED
        BY <4>1, <4>2
    <3>2. CASE kontotyp' = [kontotyp EXCEPT ![t].erlaubt = ~@]
      <4> DEFINE w == ~kontotyp[t].erlaubt
      <4>0. w \in BOOLEAN
        OBVIOUS
      <4>1. kontotyp' = [kontotyp EXCEPT ![t] = [kontotyp[t] EXCEPT !.erlaubt = w]]
        BY <3>2
      <4> HIDE DEF w
      <4>2. [kontotyp[t] EXCEPT !.erlaubt = w] \in TypRek /\ [kontotyp[t] EXCEPT !.erlaubt = w].da = kontotyp[t].da
        BY <2>0, <4>0 DEF TypRek
      <4>3. QED
        BY <4>1, <4>2
    <3>3. QED
      BY <2>0, <3>1, <3>2
  <2>2. kontotyp' \in [Typen -> TypRek] /\ TypenSauber'
    BY <1>1, <2>0, <2>1 DEF TypenSauber
  <2>3. QED
    BY <1>1, <1>7, <2>2 DEF IRechte, UpdateTyp, SetRecht
<1>8. ASSUME NEW t \in Typen, DeleteAccountTyp(t) PROVE IRechte'
  BY <1>1, <1>8, WegFakten, KeinTypFakten DEF IRechte, DeleteAccountTyp, TypenSauber
<1>9. ASSUME NEW p \in Plaetze, NEW o \in Override, SetPositionRechte(p, o) PROVE IRechte'
  BY <1>1, <1>9 DEF IRechte, SetPositionRechte, TypenSauber
<1>10. ASSUME NEW n \in Nutzer, NEW o \in Override, SetUserRechte(n, o) PROVE IRechte'
  BY <1>1, <1>10 DEF IRechte, SetUserRechte, TypenSauber
<1>11. QED
  BY <1>3, <1>4, <1>5, <1>6, <1>7, <1>8, <1>9, <1>10 DEF ReNext

-----------------------------------------------------------------------------
\* What no single request may take away.
Schutz == VerwaltungVorhanden /\ ~VerwaltungVorhanden' => AdminGeloescht \/ TypGeloescht

\* Whoever else can manage rights still can when one account is written.
LEMMA Andere ==
  ASSUME NEW n \in Nutzer, NEW m \in Nutzer, m # n, konto[m].stand = "aktiv", konto'[m] = konto[m],
         Rang(m) = 2, Rang(m)' = Rang(m)
  PROVE  VerwaltungVorhanden'
BY DEF VerwaltungVorhanden

LEMMA CreateUserSchutz == ASSUME IRechte, NEW n \in Nutzer, NEW t \in Plaetze, CreateUser(n, t) PROVE Schutz
<1>0. konto \in [Nutzer -> KontoRek]
  BY DEF IRechte
<1>1. \A m \in Nutzer : m # n => konto'[m] = konto[m] /\ PlaetzeVon(m)' = PlaetzeVon(m)
  BY <1>0 DEF CreateUser, PlaetzeVon
<1>2. \A m \in Nutzer : konto[m].stand = "aktiv" => m # n
  BY DEF CreateUser
<1>3. \A p : PositionRang(p)' = PositionRang(p)
  BY DEF CreateUser, PositionRang, TypRang
<1>4. \A m \in Nutzer : m # n => Rang(m)' = Rang(m)
  BY <1>1, <1>3, RangGleich DEF CreateUser
<1>5. CASE AktiveAdmins # {}
  BY <1>1, <1>2, <1>5 DEF Schutz, VerwaltungVorhanden, AktiveAdmins
<1>6. CASE \E m \in Nutzer : konto[m].stand = "aktiv" /\ Rang(m) = 2
  BY <1>1, <1>2, <1>4, <1>6 DEF Schutz, VerwaltungVorhanden
<1>7. QED
  BY <1>5, <1>6 DEF Schutz, VerwaltungVorhanden

LEMMA CreateTypSchutz ==
  ASSUME IRechte, NEW t \in Typen, NEW nur \in BOOLEAN, CreateAccountTyp(t, nur) PROVE Schutz
<1>0. kontotyp \in [Typen -> TypRek]
  BY DEF IRechte
<1>1. ~kontotyp[t].erlaubt /\ ~kontotyp'[t].erlaubt /\ \A u \in Typen : u # t => kontotyp'[u] = kontotyp[u]
  BY <1>0 DEF IRechte, TypenSauber, CreateAccountTyp
<1>2. \A p \in Plaetze : PositionRang(p)' = PositionRang(p)
  BY <1>1 DEF PositionRang, TypRang, CreateAccountTyp, Plaetze
<1>3. \A m \in Nutzer : Rang(m)' = Rang(m)
  <2> SUFFICES ASSUME NEW m \in Nutzer PROVE Rang(m)' = Rang(m)
    OBVIOUS
  <2>1. PlaetzeVon(m)' = PlaetzeVon(m) /\ PlaetzeVon(m) \subseteq Plaetze
    BY DEF PlaetzeVon, CreateAccountTyp
  <2>2. QED
    BY <1>2, <2>1, RangGleich DEF CreateAccountTyp
<1>4. QED
  BY <1>3 DEF Schutz, VerwaltungVorhanden, AktiveAdmins, CreateAccountTyp

LEMMA DeleteUserSchutz == ASSUME IRechte, NEW n \in Nutzer, DeleteUser(n) PROVE Schutz
<1>0. konto \in [Nutzer -> KontoRek] /\ nutzerRecht \in [Nutzer -> Override]
  BY DEF IRechte
<1>1. /\ konto'[n].stand = "weg"
      /\ \A m \in Nutzer : m # n => /\ konto'[m] = konto[m] /\ PlaetzeVon(m)' = PlaetzeVon(m)
                                    /\ nutzerRecht'[m] = nutzerRecht[m]
  BY <1>0, WegFakten DEF DeleteUser, PlaetzeVon
<1>2. \A p : PositionRang(p)' = PositionRang(p)
  BY DEF DeleteUser, PositionRang, TypRang
<1>3. \A m \in Nutzer : m # n => Rang(m)' = Rang(m)
  BY <1>1, <1>2, RangGleich
<1> SUFFICES ASSUME VerwaltungVorhanden, ~VerwaltungVorhanden' PROVE AdminGeloescht
  BY DEF Schutz
<1>4. \A m \in Nutzer : konto[m].stand = "aktiv" /\ Rang(m) = 2 => m = n
  BY <1>1, <1>3 DEF VerwaltungVorhanden
<1>5. AktiveAdmins \subseteq {n}
  BY <1>1 DEF VerwaltungVorhanden, AktiveAdmins
<1>6. konto[n].stand = "aktiv"
  BY <1>4, <1>5 DEF VerwaltungVorhanden, AktiveAdmins
<1>7. ASSUME n \in AktiveAdmins PROVE \E m \in Nutzer : konto[m] = [stand |-> "inaktiv", typ |-> Geschaeftsleitung]
  <2>1. PICK m \in Nutzer \ {n} : konto[m].stand # "weg" /\ konto[m].typ = Geschaeftsleitung
    BY <1>0, <1>7 DEF DeleteUser, IstAdmin, AktiveAdmins
  <2>2. konto[m] \in KontoRek /\ konto[m] = [stand |-> konto[m].stand, typ |-> konto[m].typ]
    BY <1>0 DEF KontoRek
  <2>3. konto[m].stand # "aktiv"
    BY <1>5, <2>1, <2>2 DEF AktiveAdmins
  <2>4. konto[m].stand = "inaktiv"
    BY <2>1, <2>2, <2>3 DEF KontoRek
  <2>5. QED
    BY <2>1, <2>2, <2>4
<1>8. QED
  BY <1>1, <1>5, <1>6, <1>7 DEF AdminGeloescht

LEMMA DeleteTypSchutz == ASSUME IRechte, NEW t \in Typen, DeleteAccountTyp(t) PROVE Schutz
<1>1. kontotyp[t].da /\ ~kontotyp'[t].da
  BY KeinTypFakten DEF IRechte, DeleteAccountTyp
<1>2. AktiveAdmins' = AktiveAdmins
  BY DEF AktiveAdmins, DeleteAccountTyp
<1>3. QED
  BY <1>1, <1>2 DEF Schutz, VerwaltungVorhanden, TypGeloescht

LEMMA ReSchutz == IRechte /\ [ReNext]_reVars => [Schutz]_reVars
<1> SUFFICES ASSUME IRechte, ReNext PROVE Schutz
  OBVIOUS
<1>1. ASSUME VerwaltungBleibtErhalten PROVE Schutz
  BY <1>1 DEF VerwaltungBleibtErhalten, Schutz
<1>2. ASSUME NEW n \in Nutzer, NEW t \in Plaetze, CreateUser(n, t) \/ Besetze(t, n) \/ BeendeBesetzung(t, n)
      PROVE  Schutz
  BY <1>1, <1>2, CreateUserSchutz DEF Besetze, BeendeBesetzung
<1>3. ASSUME NEW n \in Nutzer, NEW neu \in [stand : {"aktiv", "inaktiv"}, typ : Plaetze], UpdateUser(n, neu)
      PROVE  Schutz
  BY <1>1, <1>3 DEF UpdateUser
<1>4. ASSUME NEW t \in Typen, UpdateTyp(t) \/ DeleteAccountTyp(t) \/ SetRecht(t) PROVE Schutz
  BY <1>1, <1>4, DeleteTypSchutz DEF UpdateTyp, SetRecht
<1>5. ASSUME NEW p \in Plaetze, NEW o \in Override, SetPositionRechte(p, o) PROVE Schutz
  BY <1>1, <1>5 DEF SetPositionRechte
<1>6. ASSUME NEW n \in Nutzer, NEW o \in Override, SetUserRechte(n, o) PROVE Schutz
  BY <1>1, <1>6 DEF SetUserRechte
<1>7. QED
  BY <1>2, <1>3, <1>4, <1>5, <1>6, DeleteUserSchutz, CreateTypSchutz DEF ReNext

-----------------------------------------------------------------------------
(***************************************************************************)
(* Sums over finite sets (MapThenSumSet).                                  *)
(***************************************************************************)

\* The sums the modules compute with MapThenSumSet.
LEMMA NettoSumme ==
  ASSUME NEW f, NEW S, IsFiniteSet(S)
  PROVE  MapThenSumSet(LAMBDA b : f[b].netto, S) = Summe([b \in S |-> f[b].netto], S)
<1> DEFINE v == [b \in S |-> f[b].netto]
           P(g) == g = [s \in SUBSET S |-> IF s = {} THEN 0
                          ELSE LET x == CHOOSE x \in s : TRUE IN f[x].netto + g[s \ {x}]]
<1>1. MapThenSumSet(LAMBDA b : f[b].netto, S) = (CHOOSE g : P(g))[S]
  BY DEF MapThenSumSet, MapThenFoldSet
<1>2. ASSUME NEW g PROVE P(g) <=> IstSumme(g, v, S)
  <2>1. \A s \in SUBSET S : s # {} => v[CHOOSE x \in s : TRUE] = f[CHOOSE x \in s : TRUE].netto
    OBVIOUS
  <2> HIDE DEF v
  <2>2. QED
    BY <2>1 DEF IstSumme
<1>3. PICK g : P(g)
  <2> HIDE DEF P, v
  <2>1. PICK g : IstSumme(g, v, S)
    BY SummeGibtEs
  <2>2. QED
    BY <1>2, <2>1
<1>4. P(CHOOSE h : P(h))
  <2> HIDE DEF P
  <2>1. QED
    BY <1>3
<1>5. Summe(v, S) = (CHOOSE h : P(h))[S]
  <2> HIDE DEF P, v
  <2>1. QED
    BY <1>2, <1>4, SummeIst
<1>6. QED
  BY <1>1, <1>5

-----------------------------------------------------------------------------
(***************************************************************************)
(* Instalments and final invoices.                                         *)
(***************************************************************************)

Netto(f, S) == MapThenSumSet(LAMBDA b : f[b].netto, S)

LEMMA NettoKleiner ==
  ASSUME NEW f, NEW h, NEW T, IsFiniteSet(T), NEW S \in SUBSET T,
         \A b \in T : f[b].netto \in Nat, \A b \in S : h[b].netto = f[b].netto
  PROVE  Netto(h, S) <= Netto(f, T) /\ Netto(h, S) \in Nat /\ Netto(f, T) \in Nat
<1> DEFINE w == [b \in T |-> f[b].netto]
           v == [b \in S |-> h[b].netto]
<1>0. IsFiniteSet(S)
  BY FS_Subset
<1>1. Netto(f, T) = Summe(w, T) /\ Netto(h, S) = Summe(v, S)
  BY <1>0, NettoSumme DEF Netto
<1>2. \A b \in T : w[b] \in Nat
  OBVIOUS
<1>3. \A b \in S : v[b] = w[b] /\ w[b] \in Nat
  OBVIOUS
<1> HIDE DEF w, v
<1>4. Summe(v, S) = Summe(w, S)
  BY <1>0, <1>3, SummeGleich
<1>5. Summe(w, S) <= Summe(w, T) /\ Summe(w, S) \in Nat /\ Summe(w, T) \in Nat
  BY <1>0, <1>2, <1>3, SummeMonoton, SummeFakten
<1>6. QED
  BY <1>1, <1>4, <1>5

LEMMA NettoPlus ==
  ASSUME NEW f, NEW h, NEW S, IsFiniteSet(S), NEW b, b \notin S,
         \A c \in S : f[c].netto \in Nat /\ h[c].netto = f[c].netto, h[b].netto \in Nat
  PROVE  Netto(h, S \cup {b}) = Netto(f, S) + h[b].netto /\ Netto(f, S) \in Nat
<1> DEFINE T == S \cup {b}
           w == [c \in T |-> h[c].netto]
           v == [c \in S |-> f[c].netto]
<1>0. IsFiniteSet(T) /\ T \ {b} = S /\ b \in T
  BY FS_AddElement
<1>1. Netto(h, T) = Summe(w, T) /\ Netto(f, S) = Summe(v, S)
  BY <1>0, NettoSumme DEF Netto
<1>2. (\A c \in T : w[c] \in Nat) /\ w[b] = h[b].netto
  OBVIOUS
<1>3. \A c \in S : v[c] = w[c] /\ v[c] \in Nat
  OBVIOUS
<1> HIDE DEF w, v
<1>4. Summe(v, S) = Summe(w, S)
  BY <1>3, SummeGleich
<1>5. Summe(w, T) = w[b] + Summe(w, T \ {b})
  BY <1>0, <1>2, SummeFakten
<1>6. Summe(v, S) \in Nat
  BY <1>3, SummeFakten
<1>6a. Summe(w, T) = w[b] + Summe(v, S)
  BY <1>0, <1>4, <1>5
<1> HIDE DEF T
<1>7. Netto(h, T) = Netto(f, S) + h[b].netto
  BY <1>1, <1>2, <1>6, <1>6a
<1>8. QED
  BY <1>1, <1>6, <1>7 DEF T

LEMMA HoechstensEins == ASSUME NEW X, \A x, y \in X : x = y PROVE Cardinality(X) <= 1
<1>1. CASE X = {}
  BY <1>1, FS_EmptySet
<1>2. CASE \E x \in X : X = {x}
  BY <1>2, FS_Singleton
<1>3. QED
  BY <1>1, <1>2

LEMMA Hoechstens ==
  ASSUME NEW X, IsFiniteSet(X), Cardinality(X) < 1 PROVE X = {}
<1>1. Cardinality(X) \in Nat
  BY FS_CardinalityType
<1>2. QED
  BY <1>1, FS_EmptySet

BelegRek ==
    [art : Arten, status : {"entwurf", "versendet", "storniert"}, netto : 0..Voll,
     abzug : SUBSET Belege, amAngebot : BOOLEAN, geloescht : BOOLEAN]
PlanRek ==
    [tut : Vorhaben, b : Belege \cup {Niemand}, art : Arten, netto : 0..Voll, wahl : SUBSET Belege]

\* An instalment that can be deducted: never a draft again.
Fest(a) == a \in Angelegt /\ beleg[a].art = "abschlag" /\ beleg[a].status # "entwurf"
Zahlungen == ZumAngebot({"abschlag"})
Volle == ZumAngebot({"rechnung", "schluss"})
Versandte == {b \in Belege : VersandtDa(b)}

AbAllein ==
    parallel = 1 => \A q, r \in AbAnfragen : plan[q].tut # "nichts" /\ plan[r].tut # "nichts" => q = r

\* The lock of the quote has one holder.
EinHalter ==
    \A q, r \in AbAnfragen :
        plan[q].tut \in {"anlegen", "widerrufen"} /\ plan[r].tut \in {"anlegen", "widerrufen"} => q = r

AbzuegeEcht == \A b \in Angelegt : \A a \in beleg[b].abzug : Fest(a)

Bearbeiten == {"anrechnen", "abzug_entfernen", "versenden", "verwerfen", "stornieren", "loeschen"}
PlanEcht ==
    \A r \in AbAnfragen : LET p == plan[r] IN
        /\ p.tut \in Bearbeiten => p.b \in Angelegt
        /\ p.tut = "anrechnen" => beleg[p.b].art \in {"rechnung", "schluss"}
        /\ p.tut \in {"anlegen", "anrechnen"} => \A a \in p.wahl : Fest(a)

\* What a request has read is still so when nothing overlaps.
PlanStand ==
    parallel = 1 => \A r \in AbAnfragen : LET p == plan[r] IN
        /\ p.tut \in {"anrechnen", "abzug_entfernen", "versenden", "loeschen"} => beleg[p.b].status = "entwurf"
        /\ p.tut \in {"versenden", "verwerfen", "stornieren"} => ~beleg[p.b].geloescht
        /\ p.tut = "versenden" =>
             \A a \in beleg[p.b].abzug : VersandtDa(a) /\ \A c \in Versandte : a \notin beleg[c].abzug
        /\ p.tut \in {"verwerfen", "stornieren"} => \A c \in Versandte : p.b \notin beleg[c].abzug

NurEntwurfGeloescht ==
    parallel = 1 => \A b \in Angelegt : beleg[b].geloescht => beleg[b].status = "entwurf"

\* A shipped invoice deducts instalments in force, and nobody else deducts them.
VersandtGilt ==
    parallel = 1 => \A b \in Versandte : \A a \in beleg[b].abzug :
        VersandtDa(a) /\ \A c \in Versandte : a \in beleg[c].abzug => c = b

\* The request that holds the lock of the quote may write what it has checked.
PlanRecht ==
    zurueck = 0 => \A r \in AbAnfragen : LET p == plan[r] IN
        p.tut = "anlegen" => /\ Volle = {}
                             /\ p.art = "rechnung" => Zahlungen = {}
                             /\ p.art = "abschlag" => Netto(beleg, Zahlungen) + p.netto <= Voll

AngebotGilt ==
    zurueck = 0 =>
        /\ \A b, c \in Volle : b = c
        /\ Netto(beleg, Zahlungen) <= Voll
        /\ \A b \in ZumAngebot({"rechnung"}) : Zahlungen = {}

IAbschlag ==
    /\ AbTyp /\ IsFiniteSet(Angelegt)
    /\ AbAllein /\ EinHalter /\ AbzuegeEcht /\ PlanEcht /\ PlanStand
    /\ NurEntwurfGeloescht /\ VersandtGilt /\ PlanRecht /\ AngebotGilt

LEMMA AbFakten ==
  ASSUME AbTyp
  PROVE  /\ beleg \in [Belege -> {KeinBeleg} \cup BelegRek] /\ plan \in [AbAnfragen -> PlanRek]
         /\ widerrufen \in BOOLEAN /\ zurueck \in 0..MaxZurueck /\ parallel \in 1..Cardinality(AbAnfragen)
         /\ \A b \in Angelegt : b \in Belege /\ beleg[b] \in BelegRek /\ beleg[b].netto \in Nat
         /\ \A b \in Angelegt : /\ beleg[b].status \in {"entwurf", "versendet", "storniert"}
                                /\ beleg[b].art \in Arten
<1>1. AbTyp => /\ beleg \in [Belege -> {KeinBeleg} \cup BelegRek] /\ plan \in [AbAnfragen -> PlanRek]
               /\ widerrufen \in BOOLEAN /\ zurueck \in 0..MaxZurueck /\ parallel \in 1..Cardinality(AbAnfragen)
  BY DEF AbTyp, BelegRek, PlanRek
<1>2. \A b \in Angelegt : b \in Belege /\ beleg[b] \in BelegRek
  BY <1>1 DEF Angelegt
<1>3. \A x \in BelegRek : /\ x.netto \in Nat /\ x.status \in {"entwurf", "versendet", "storniert"}
                          /\ x.art \in Arten
  BY AbAnnahme DEF BelegRek
<1>4. QED
  BY <1>1, <1>2, <1>3

LEMMA AbTypAus ==
  ASSUME widerrufen' \in BOOLEAN, beleg' \in [Belege -> {KeinBeleg} \cup BelegRek],
         plan' \in [AbAnfragen -> PlanRek], zurueck' \in 0..MaxZurueck,
         parallel' \in 1..Cardinality(AbAnfragen)
  PROVE  AbTyp'
BY DEF AbTyp, BelegRek, PlanRek

LEMMA BelegDa == \A x \in BelegRek : x # KeinBeleg
BY DEF BelegRek, KeinBeleg, Arten

LEMMA RuheFakten ==
  /\ Ruhe \in PlanRek /\ Ruhe.tut = "nichts" /\ Ruhe.b = Niemand /\ Ruhe.wahl = {} /\ Ruhe.netto = 0
  /\ Ruhe.art = "rechnung"
BY AbAnnahme DEF Ruhe, PlanRek, Vorhaben, Arten

LEMMA IAbschlagGilt == IAbschlag => AbschlagStimmt
<1> SUFFICES ASSUME IAbschlag PROVE AbschlagStimmt
  OBVIOUS
<1>1. ASSUME parallel = 1, NEW a \in Belege
      PROVE  Cardinality({b \in Belege : VersandtDa(b) /\ a \in beleg[b].abzug}) <= 1
  <2> DEFINE X == {b \in Belege : VersandtDa(b) /\ a \in beleg[b].abzug}
  <2>1. \A x, y \in X : x = y
    BY <1>1 DEF IAbschlag, VersandtGilt, Versandte
  <2> HIDE DEF X
  <2>2. Cardinality(X) <= 1
    BY <2>1, HoechstensEins
  <2>3. QED
    BY <2>2 DEF X
<1>2. AbzugGilt
  BY <1>1 DEF AbzugGilt, AbschlagEinmalAngerechnet, IAbschlag, VersandtGilt, Versandte
<1>3. zurueck = 0 => Cardinality(Volle) <= 1
  BY HoechstensEins DEF IAbschlag, AngebotGilt
<1>4. NieUeberHundert
  BY <1>3 DEF NieUeberHundert, IAbschlag, AngebotGilt, Netto, Volle, Zahlungen
<1>5. QED
  BY <1>2, <1>4 DEF AbschlagStimmt

LEMMA AbInitGilt == AbInit => IAbschlag
<1> SUFFICES ASSUME AbInit PROVE IAbschlag
  OBVIOUS
<1>1. Angelegt = {} /\ plan \in [AbAnfragen -> PlanRek] /\ \A r \in AbAnfragen : plan[r].tut = "nichts"
  BY RuheFakten DEF AbInit, Angelegt
<1>2. \A A : ZumAngebot(A) = {}
  BY <1>1 DEF ZumAngebot, NichtStorniert
<1>3. AbTyp
  <2>1. beleg \in [Belege -> {KeinBeleg} \cup BelegRek]
    BY DEF AbInit
  <2>2. zurueck \in 0..MaxZurueck /\ parallel \in 1..Cardinality(AbAnfragen)
    BY AbAnnahme DEF AbInit
  <2>3. widerrufen \in BOOLEAN
    BY DEF AbInit
  <2>4. QED
    BY <1>1, <2>1, <2>2, <2>3 DEF AbTyp, BelegRek, PlanRek
<1>4. IsFiniteSet(Angelegt)
  BY <1>1, FS_EmptySet
<1>5. AbAllein /\ EinHalter /\ AbzuegeEcht /\ PlanEcht /\ PlanStand /\ PlanRecht
  BY <1>1 DEF AbAllein, EinHalter, AbzuegeEcht, PlanEcht, PlanStand, PlanRecht, Bearbeiten
<1>6. NurEntwurfGeloescht /\ VersandtGilt
  BY <1>1 DEF NurEntwurfGeloescht, VersandtGilt, Versandte, VersandtDa, NichtStorniert
<1>7. Netto(beleg, Angelegt) = 0
  <2> DEFINE w == [b \in Angelegt |-> beleg[b].netto]
  <2>1. IsFiniteSet(Angelegt)
    BY <1>4
  <2>2. Netto(beleg, Angelegt) = Summe(w, Angelegt)
    BY <2>1, NettoSumme DEF Netto
  <2>3. \A x \in {} : w[x] \in Nat
    OBVIOUS
  <2> HIDE DEF w
  <2>4. Summe(w, {}) = 0
    BY <2>3, SummeFakten, FS_EmptySet
  <2>5. QED
    BY <1>1, <2>2, <2>4
<1>8. AngebotGilt
  <2>1. Zahlungen = {} /\ Volle = {} /\ ZumAngebot({"rechnung"}) = {}
    BY <1>2 DEF Volle, Zahlungen
  <2>2. Netto(beleg, Zahlungen) <= Voll
    BY <1>1, <1>7, <2>1, AbAnnahme
  <2>3. QED
    BY <2>1, <2>2 DEF AngebotGilt
<1>9. QED
  BY <1>3, <1>4, <1>5, <1>6, <1>8 DEF IAbschlag

-----------------------------------------------------------------------------
LEMMA AbGleich ==
  ASSUME beleg' = beleg
  PROVE  /\ Angelegt' = Angelegt /\ Zahlungen' = Zahlungen /\ Volle' = Volle /\ Versandte' = Versandte
         /\ ZumAngebot({"rechnung"})' = ZumAngebot({"rechnung"})
         /\ (\A a : Fest(a)' = Fest(a)) /\ (\A a : VersandtDa(a)' = VersandtDa(a))
         /\ Netto(beleg, Zahlungen)' = Netto(beleg, Zahlungen)
<1>1. Angelegt' = Angelegt /\ NichtStorniert' = NichtStorniert
  BY DEF Angelegt, NichtStorniert
<1>2. \A A : ZumAngebot(A)' = ZumAngebot(A)
  BY <1>1 DEF ZumAngebot
<1>3. Zahlungen' = Zahlungen /\ Volle' = Volle /\ ZumAngebot({"rechnung"})' = ZumAngebot({"rechnung"})
  BY <1>1 DEF Zahlungen, Volle, ZumAngebot
<1>4. (\A a : Fest(a)' = Fest(a)) /\ (\A a : VersandtDa(a)' = VersandtDa(a))
  BY <1>1 DEF Fest, VersandtDa
<1>5. Versandte' = Versandte
  BY <1>4 DEF Versandte
<1>6. QED
  BY <1>1, <1>3, <1>4, <1>5

\* A request begins.
LEMMA AbBeginn ==
  ASSUME IAbschlag, NEW r \in AbAnfragen, NEW p \in PlanRek, Beginnt(r, p),
         p.tut \in {"anlegen", "widerrufen"} => ~AngebotGesperrt,
         p.tut \in Bearbeiten => p.b \in Angelegt,
         p.tut = "anrechnen" => beleg[p.b].art \in {"rechnung", "schluss"},
         p.tut \in {"anlegen", "anrechnen"} => \A a \in p.wahl : Fest(a),
         p.tut \in {"anrechnen", "abzug_entfernen", "versenden", "loeschen"} => beleg[p.b].status = "entwurf",
         p.tut \in {"versenden", "verwerfen", "stornieren"} => ~beleg[p.b].geloescht,
         p.tut = "versenden" =>
             \A a \in beleg[p.b].abzug : VersandtDa(a) /\ \A c \in Versandte : a \notin beleg[c].abzug,
         parallel = 1 /\ p.tut \in {"verwerfen", "stornieren"} => \A c \in Versandte : p.b \notin beleg[c].abzug,
         zurueck = 0 /\ p.tut = "anlegen" =>
             /\ Volle = {}
             /\ p.art = "rechnung" => Zahlungen = {}
             /\ p.art = "abschlag" => Netto(beleg, Zahlungen) + p.netto <= Voll
  PROVE  IAbschlag'
<1>0. plan \in [AbAnfragen -> PlanRek]
  BY AbFakten DEF IAbschlag
<1>1. /\ plan' \in [AbAnfragen -> PlanRek] /\ plan'[r] = p /\ plan[r].tut = "nichts"
      /\ \A q \in AbAnfragen : q # r => plan'[q] = plan[q]
      /\ UNCHANGED <<widerrufen, beleg, zurueck, parallel>> /\ Cardinality(Laufend) < parallel
  BY <1>0 DEF Beginnt
<1>2. /\ Angelegt' = Angelegt /\ Zahlungen' = Zahlungen /\ Volle' = Volle /\ Versandte' = Versandte
      /\ ZumAngebot({"rechnung"})' = ZumAngebot({"rechnung"})
      /\ (\A a : Fest(a)' = Fest(a)) /\ (\A a : VersandtDa(a)' = VersandtDa(a))
      /\ Netto(beleg, Zahlungen)' = Netto(beleg, Zahlungen)
  BY <1>1, AbGleich
<1>3. AbTyp' /\ IsFiniteSet(Angelegt')
  BY <1>1, <1>2, AbFakten, AbTypAus DEF IAbschlag
<1>4. parallel = 1 => \A q \in AbAnfragen : plan[q].tut = "nichts"
  <2>1. IsFiniteSet(Laufend)
    BY AbAnnahme, FS_Subset DEF Laufend
  <2>2. parallel = 1 => Laufend = {}
    BY <1>1, <2>1, Hoechstens
  <2>3. QED
    BY <2>2 DEF Laufend
<1>5. AbAllein'
  BY <1>1, <1>4 DEF AbAllein
<1>6. EinHalter'
  BY <1>1 DEF IAbschlag, EinHalter, AngebotGesperrt
<1>7. AbzuegeEcht' /\ NurEntwurfGeloescht' /\ VersandtGilt' /\ AngebotGilt'
  BY <1>1, <1>2 DEF IAbschlag, AbzuegeEcht, NurEntwurfGeloescht, VersandtGilt, AngebotGilt
<1>8. PlanEcht'
  BY <1>1, <1>2 DEF IAbschlag, PlanEcht
<1>9. PlanStand'
  BY <1>1, <1>2 DEF IAbschlag, PlanStand
<1>10. PlanRecht'
  BY <1>1, <1>2 DEF IAbschlag, PlanRecht
<1>11. QED
  BY <1>3, <1>5, <1>6, <1>7, <1>8, <1>9, <1>10 DEF IAbschlag

\* A request ends, whatever it writes.
LEMMA AbEnde ==
  ASSUME IAbschlag, NEW r \in AbAnfragen, plan[r].tut # "nichts", Endet(r), Angelegt \subseteq Angelegt',
         \A a : Fest(a) => Fest(a)',
         \A b \in Angelegt : beleg[b].art \in {"rechnung", "schluss"} => beleg'[b].art \in {"rechnung", "schluss"}
  PROVE  /\ AbAllein' /\ EinHalter' /\ PlanEcht' /\ PlanStand' /\ plan' \in [AbAnfragen -> PlanRek]
         /\ UNCHANGED <<zurueck, parallel>> /\ plan'[r] = Ruhe
         /\ \A q \in AbAnfragen : q # r => plan'[q] = plan[q]
<1>0. plan \in [AbAnfragen -> PlanRek]
  BY AbFakten DEF IAbschlag
<1>1. /\ plan' \in [AbAnfragen -> PlanRek] /\ plan'[r] = Ruhe
      /\ \A q \in AbAnfragen : q # r => plan'[q] = plan[q]
      /\ UNCHANGED <<zurueck, parallel>>
  BY <1>0, RuheFakten DEF Endet
<1>2. parallel = 1 => \A q \in AbAnfragen : plan'[q].tut = "nichts"
  BY <1>1, RuheFakten DEF IAbschlag, AbAllein
<1>3. AbAllein' /\ EinHalter'
  BY <1>1, RuheFakten DEF IAbschlag, AbAllein, EinHalter
<1>4. PlanStand'
  BY <1>1, <1>2, RuheFakten DEF PlanStand
<1>5. PlanEcht'
  BY <1>1, RuheFakten DEF IAbschlag, PlanEcht, Bearbeiten
<1>6. QED
  BY <1>1, <1>3, <1>4, <1>5

\* One row of the invoices is written.
LEMMA AbZeile ==
  ASSUME IAbschlag, NEW b \in Belege, NEW x \in BelegRek, beleg' = [beleg EXCEPT ![b] = x]
  PROVE  /\ beleg' \in [Belege -> {KeinBeleg} \cup BelegRek] /\ beleg'[b] = x
         /\ \A c \in Belege : c # b => beleg'[c] = beleg[c]
         /\ Angelegt' = Angelegt \cup {b} /\ IsFiniteSet(Angelegt')
         /\ \A c : c # b => VersandtDa(c)' = VersandtDa(c)
         /\ VersandtDa(b)' <=> x.status = "versendet" /\ ~x.geloescht
         /\ \A A : /\ \A c : c # b => (c \in ZumAngebot(A)' <=> c \in ZumAngebot(A))
                   /\ b \in ZumAngebot(A)' <=>
                        x.status # "storniert" /\ ~x.geloescht /\ x.amAngebot /\ x.art \in A
<1>1. /\ beleg' \in [Belege -> {KeinBeleg} \cup BelegRek] /\ beleg'[b] = x
      /\ \A c \in Belege : c # b => beleg'[c] = beleg[c]
  BY AbFakten DEF IAbschlag
<1>2. Angelegt' = Angelegt \cup {b}
  BY <1>1, BelegDa DEF Angelegt
<1>3. IsFiniteSet(Angelegt')
  BY <1>2, FS_AddElement DEF IAbschlag
<1>4. /\ \A c : c # b => (c \in NichtStorniert' <=> c \in NichtStorniert)
      /\ b \in NichtStorniert' <=> x.status # "storniert" /\ ~x.geloescht
  BY <1>1, <1>2 DEF NichtStorniert, Angelegt
<1>5. /\ \A c : c # b => VersandtDa(c)' = VersandtDa(c)
      /\ VersandtDa(b)' <=> x.status = "versendet" /\ ~x.geloescht
  BY <1>1, <1>4 DEF VersandtDa, NichtStorniert, Angelegt
<1>6. \A A : /\ \A c : c # b => (c \in ZumAngebot(A)' <=> c \in ZumAngebot(A))
             /\ b \in ZumAngebot(A)' <=>
                  x.status # "storniert" /\ ~x.geloescht /\ x.amAngebot /\ x.art \in A
  BY <1>1, <1>4 DEF ZumAngebot, NichtStorniert, Angelegt
<1>7. QED
  BY <1>1, <1>2, <1>3, <1>5, <1>6

LEMMA ZahlungenEndlich == ASSUME IAbschlag PROVE IsFiniteSet(Zahlungen) /\ \A b \in Zahlungen : beleg[b].netto \in Nat
<1>1. Zahlungen \in SUBSET Angelegt
  BY DEF Zahlungen, ZumAngebot, NichtStorniert
<1>2. QED
  BY <1>1, FS_Subset, AbFakten DEF IAbschlag

\* What a quote is billed with gets less.
LEMMA AbSchrumpft ==
  ASSUME IAbschlag, zurueck' = zurueck,
         \A q \in AbAnfragen : plan'[q].tut = "anlegen" => plan'[q] = plan[q],
         Volle' \subseteq Volle, Zahlungen' \subseteq Zahlungen,
         ZumAngebot({"rechnung"})' \subseteq ZumAngebot({"rechnung"}),
         \A b \in Zahlungen' : beleg'[b].netto = beleg[b].netto
  PROVE  PlanRecht' /\ AngebotGilt'
<1>1. /\ Netto(beleg, Zahlungen)' <= Netto(beleg, Zahlungen)
      /\ Netto(beleg, Zahlungen)' \in Nat /\ Netto(beleg, Zahlungen) \in Nat
  <2>1. Netto(beleg, Zahlungen)' = Netto(beleg', Zahlungen')
    OBVIOUS
  <2>2. Zahlungen' \in SUBSET Zahlungen
    OBVIOUS
  <2>3. QED
    BY <2>1, <2>2, ZahlungenEndlich, NettoKleiner
<1>2. AngebotGilt'
  BY <1>1, AbAnnahme DEF IAbschlag, AngebotGilt
<1>3. PlanRecht'
  <2> SUFFICES ASSUME zurueck = 0, NEW q \in AbAnfragen, plan'[q].tut = "anlegen"
               PROVE  /\ Volle' = {} /\ (plan'[q].art = "rechnung" => Zahlungen' = {})
                      /\ plan'[q].art = "abschlag" => Netto(beleg, Zahlungen)' + plan'[q].netto <= Voll
    BY DEF PlanRecht
  <2>1. /\ Volle = {} /\ (plan[q].art = "rechnung" => Zahlungen = {})
        /\ plan[q].art = "abschlag" => Netto(beleg, Zahlungen) + plan[q].netto <= Voll
        /\ plan'[q] = plan[q]
    BY DEF IAbschlag, PlanRecht
  <2>2. plan[q].netto \in Nat
    BY AbFakten, AbAnnahme DEF IAbschlag, PlanRek
  <2>3. QED
    BY <1>1, <2>1, <2>2, AbAnnahme
<1>4. QED
  BY <1>2, <1>3

\* A request that writes no invoice.
LEMMA AbNichts ==
  ASSUME IAbschlag, NEW r \in AbAnfragen, plan[r].tut # "nichts", Endet(r), beleg' = beleg,
         widerrufen' \in BOOLEAN
  PROVE  IAbschlag'
<1>1. /\ Angelegt' = Angelegt /\ Zahlungen' = Zahlungen /\ Volle' = Volle /\ Versandte' = Versandte
      /\ ZumAngebot({"rechnung"})' = ZumAngebot({"rechnung"})
      /\ (\A a : Fest(a)' = Fest(a)) /\ (\A a : VersandtDa(a)' = VersandtDa(a))
  BY AbGleich
<1>2. /\ AbAllein' /\ EinHalter' /\ PlanEcht' /\ PlanStand' /\ plan' \in [AbAnfragen -> PlanRek]
      /\ UNCHANGED <<zurueck, parallel>> /\ plan'[r] = Ruhe
      /\ \A q \in AbAnfragen : q # r => plan'[q] = plan[q]
  BY <1>1, AbEnde
<1>3. \A q \in AbAnfragen : plan'[q].tut = "anlegen" => plan'[q] = plan[q]
  BY <1>2, RuheFakten
<1>4. PlanRecht' /\ AngebotGilt'
  BY <1>1, <1>2, <1>3, AbSchrumpft
<1>5. AbTyp' /\ IsFiniteSet(Angelegt')
  BY <1>1, <1>2, AbFakten, AbTypAus DEF IAbschlag
<1>6. AbzuegeEcht' /\ NurEntwurfGeloescht' /\ VersandtGilt'
  BY <1>1, <1>2 DEF IAbschlag, AbzuegeEcht, NurEntwurfGeloescht, VersandtGilt
<1>7. QED
  BY <1>2, <1>4, <1>5, <1>6 DEF IAbschlag

\* A request that writes an invoice there was.
LEMMA AbSchreiben ==
  ASSUME IAbschlag, NEW r \in AbAnfragen, plan[r].tut # "nichts", Endet(r), widerrufen' = widerrufen,
         NEW b \in Angelegt, NEW x \in BelegRek, beleg' = [beleg EXCEPT ![b] = x],
         x.netto = beleg[b].netto, x.amAngebot = beleg[b].amAngebot,
         \/ x.art = beleg[b].art
         \/ beleg[b].art \in {"rechnung", "schluss"} /\ x.art = "schluss",
         beleg[b].status # "entwurf" => x.status # "entwurf",
         x.status # "storniert" /\ ~x.geloescht => beleg[b].status # "storniert" /\ ~beleg[b].geloescht,
         \A a \in x.abzug : Fest(a),
         parallel = 1 =>
            /\ x.geloescht => x.status = "entwurf"
            /\ \/ ~(x.status = "versendet" /\ ~x.geloescht) /\ \A c \in Versandte : b \notin beleg[c].abzug
               \/ /\ ~VersandtDa(b) /\ x.status = "versendet" /\ ~x.geloescht
                  /\ \A a \in x.abzug : VersandtDa(a) /\ \A c \in Versandte : a \notin beleg[c].abzug
  PROVE  IAbschlag'
<1>0. b \in Belege /\ beleg[b].art \in Arten
  BY AbFakten DEF IAbschlag
<1>1. /\ beleg' \in [Belege -> {KeinBeleg} \cup BelegRek] /\ beleg'[b] = x
      /\ \A c \in Belege : c # b => beleg'[c] = beleg[c]
      /\ Angelegt' = Angelegt \cup {b} /\ IsFiniteSet(Angelegt')
      /\ \A c : c # b => VersandtDa(c)' = VersandtDa(c)
      /\ VersandtDa(b)' <=> x.status = "versendet" /\ ~x.geloescht
      /\ \A A : /\ \A c : c # b => (c \in ZumAngebot(A)' <=> c \in ZumAngebot(A))
                /\ b \in ZumAngebot(A)' <=>
                     x.status # "storniert" /\ ~x.geloescht /\ x.amAngebot /\ x.art \in A
  BY <1>0, AbZeile
<1>2. Angelegt' = Angelegt /\ \A c \in Angelegt : c \in Belege
  BY <1>1 DEF Angelegt
<1>3. \A a : Fest(a) => Fest(a)'
  BY <1>1, <1>2 DEF Fest
<1>4. \A c \in Angelegt : beleg[c].art \in {"rechnung", "schluss"} => beleg'[c].art \in {"rechnung", "schluss"}
  BY <1>1, <1>2
<1>5. /\ AbAllein' /\ EinHalter' /\ PlanEcht' /\ PlanStand' /\ plan' \in [AbAnfragen -> PlanRek]
      /\ UNCHANGED <<zurueck, parallel>> /\ plan'[r] = Ruhe
      /\ \A q \in AbAnfragen : q # r => plan'[q] = plan[q]
  BY <1>2, <1>3, <1>4, AbEnde
<1>6. AbTyp'
  BY <1>1, <1>5, AbFakten, AbTypAus DEF IAbschlag
<1>7. AbzuegeEcht'
  BY <1>1, <1>2, <1>3 DEF IAbschlag, AbzuegeEcht
<1>8. NurEntwurfGeloescht'
  BY <1>1, <1>2, <1>5 DEF IAbschlag, NurEntwurfGeloescht
<1>9. PlanRecht' /\ AngebotGilt'
  <2>1. b \in ZumAngebot({"abschlag"})' => b \in ZumAngebot({"abschlag"})
    BY <1>0, <1>1 DEF ZumAngebot, NichtStorniert
  <2>2. b \in ZumAngebot({"rechnung", "schluss"})' => b \in ZumAngebot({"rechnung", "schluss"})
    BY <1>0, <1>1 DEF ZumAngebot, NichtStorniert
  <2>3. b \in ZumAngebot({"rechnung"})' => b \in ZumAngebot({"rechnung"})
    BY <1>0, <1>1 DEF ZumAngebot, NichtStorniert
  <2>4. /\ Volle' \subseteq Volle /\ Zahlungen' \subseteq Zahlungen
        /\ ZumAngebot({"rechnung"})' \subseteq ZumAngebot({"rechnung"})
    BY <1>1, <2>1, <2>2, <2>3 DEF Volle, Zahlungen
  <2>5. Zahlungen \subseteq Angelegt
    BY DEF Zahlungen, ZumAngebot, NichtStorniert
  <2>6. \A c \in Zahlungen' : beleg'[c].netto = beleg[c].netto
    BY <1>1, <1>2, <2>4, <2>5
  <2>7. \A q \in AbAnfragen : plan'[q].tut = "anlegen" => plan'[q] = plan[q]
    BY <1>5, RuheFakten
  <2>8. QED
    BY <1>5, <2>4, <2>6, <2>7, AbSchrumpft
<1>10. VersandtGilt'
  <2> SUFFICES ASSUME parallel = 1 PROVE VersandtGilt'
    BY <1>5 DEF VersandtGilt
  <2>1. \A c : c \in Versandte' <=> c \in Belege /\ VersandtDa(c)'
    BY DEF Versandte
  <2>2. \A c : c \in Versandte <=> c \in Belege /\ VersandtDa(c)
    BY DEF Versandte
  <2>3. \A c \in Versandte : \A a \in beleg[c].abzug :
          VersandtDa(a) /\ \A d \in Versandte : a \in beleg[d].abzug => d = c
    BY DEF IAbschlag, VersandtGilt
  <2>4. CASE ~(x.status = "versendet" /\ ~x.geloescht) /\ \A c \in Versandte : b \notin beleg[c].abzug
    <3>1. \A c \in Versandte' : c # b /\ c \in Versandte /\ beleg'[c] = beleg[c] /\ b \notin beleg[c].abzug
      BY <1>1, <2>1, <2>2, <2>4
    <3>2. \A c \in Versandte' : \A a \in beleg'[c].abzug :
            VersandtDa(a)' /\ \A d \in Versandte' : a \in beleg'[d].abzug => d = c
      BY <1>1, <2>3, <3>1
    <3>3. QED
      BY <3>2 DEF VersandtGilt
  <2>5. CASE /\ ~VersandtDa(b) /\ x.status = "versendet" /\ ~x.geloescht
             /\ \A a \in x.abzug : VersandtDa(a) /\ \A c \in Versandte : a \notin beleg[c].abzug
    <3>1. \A c \in Versandte' : c = b \/ (c # b /\ c \in Versandte /\ beleg'[c] = beleg[c])
      BY <1>1, <2>1, <2>2
    <3>2. \A a : VersandtDa(a) => VersandtDa(a)'
      BY <1>1, <2>5
    <3>3. \A a \in beleg'[b].abzug : VersandtDa(a)' /\ \A d \in Versandte' : a \in beleg'[d].abzug => d = b
      BY <1>1, <2>5, <3>1, <3>2
    <3>4. \A c \in Versandte : c # b => \A a \in beleg'[c].abzug :
            VersandtDa(a)' /\ \A d \in Versandte' : a \in beleg'[d].abzug => d = c
      BY <1>1, <2>2, <2>3, <2>5, <3>1, <3>2
    <3>5. QED
      BY <3>1, <3>3, <3>4 DEF VersandtGilt
  <2>6. QED
    BY <2>4, <2>5
<1>11. QED
  BY <1>1, <1>5, <1>6, <1>7, <1>8, <1>9, <1>10 DEF IAbschlag

-----------------------------------------------------------------------------
LEMMA VorsatzFakten ==
  ASSUME NEW tut \in Vorhaben, NEW b \in Belege \cup {Niemand}
  PROVE  /\ Vorsatz(tut, b) \in PlanRek /\ Vorsatz(tut, b).tut = tut /\ Vorsatz(tut, b).b = b
         /\ \A W \in SUBSET Belege :
              /\ [Vorsatz(tut, b) EXCEPT !.wahl = W] \in PlanRek
              /\ [Vorsatz(tut, b) EXCEPT !.wahl = W].tut = tut
              /\ [Vorsatz(tut, b) EXCEPT !.wahl = W].b = b
              /\ [Vorsatz(tut, b) EXCEPT !.wahl = W].wahl = W
BY RuheFakten DEF Vorsatz, PlanRek

\* A draft is deducted nowhere, a shipped instalment with nobody to deduct it neither.
LEMMA NirgendsAbgezogen ==
  ASSUME IAbschlag, NEW b, ~Fest(b) PROVE \A c \in Angelegt : b \notin beleg[c].abzug
BY DEF IAbschlag, AbzuegeEcht

LEMMA VersandteDa == \A c \in Versandte : c \in Angelegt /\ c \in NichtStorniert /\ beleg[c].status = "versendet"
BY DEF Versandte, VersandtDa, NichtStorniert

LEMMA AnlegenLesenGilt == ASSUME IAbschlag, NEW r \in AbAnfragen, AnlegenLesen(r) PROVE IAbschlag'
<1>0. PICK art \in Arten : \E netto \in (IF art = "abschlag" THEN Anteile ELSE {Voll}) :
        /\ ~AngebotGesperrt /\ DarfAnlegen(art, netto)
        /\ Beginnt(r, [Ruhe EXCEPT !.tut = "anlegen", !.art = art, !.netto = netto,
                         !.wahl = IF art = "schluss" THEN ZumAngebot({"abschlag"}) ELSE {}])
  BY DEF AnlegenLesen
<1>1. PICK netto \in (IF art = "abschlag" THEN Anteile ELSE {Voll}) :
        /\ ~AngebotGesperrt /\ DarfAnlegen(art, netto)
        /\ Beginnt(r, [Ruhe EXCEPT !.tut = "anlegen", !.art = art, !.netto = netto,
                         !.wahl = IF art = "schluss" THEN ZumAngebot({"abschlag"}) ELSE {}])
  BY <1>0
<1> DEFINE W == IF art = "schluss" THEN Zahlungen ELSE {}
           p == [Ruhe EXCEPT !.tut = "anlegen", !.art = art, !.netto = netto, !.wahl = W]
<1>2. W \in SUBSET Belege /\ netto \in 0..Voll
  BY AbAnnahme DEF Zahlungen, ZumAngebot, NichtStorniert, Angelegt
<1>3. Beginnt(r, p)
  BY <1>1 DEF Zahlungen
<1>4. \A a \in W : Fest(a)
  BY <1>1 DEF DarfAnlegen, Zahlungen, Fest, ZumAngebot, NichtStorniert
<1>5. Volle = {} /\ (art = "rechnung" => Zahlungen = {})
  BY <1>1 DEF DarfAnlegen, Zahlungen, Volle, Arten
<1>6. art = "abschlag" => Netto(beleg, Zahlungen) + netto <= Voll
  BY <1>1 DEF DarfAnlegen, Zahlungen, Netto
<1> HIDE DEF W
<1>7. /\ p \in PlanRek /\ p.tut = "anlegen" /\ p.art = art /\ p.netto = netto /\ p.wahl = W
  BY <1>2, RuheFakten DEF PlanRek, Vorhaben
<1> HIDE DEF p
<1>8. QED
  BY <1>1, <1>3, <1>4, <1>5, <1>6, <1>7, AbBeginn DEF Bearbeiten

LEMMA AnrechnenLesenGilt == ASSUME IAbschlag, NEW r \in AbAnfragen, AnrechnenLesen(r) PROVE IAbschlag'
<1>1. PICK b \in Belege :
        LET kandidaten == {a \in NichtStorniert : beleg[a].art = "abschlag" /\ a # b}
            anrechenbar == {a \in kandidaten : beleg[a].status = "versendet" /\ AngerechnetIn(a) = {}}
        IN  /\ EntwurfDa(b) /\ beleg[b].art \in {"rechnung", "schluss"}
            /\ \E wahl \in (SUBSET anrechenbar) \ {{}} :
                 Beginnt(r, [Vorsatz("anrechnen", b) EXCEPT !.wahl = wahl])
  BY DEF AnrechnenLesen
<1>2. PICK W \in SUBSET NichtStorniert :
        /\ \A a \in W : beleg[a].art = "abschlag" /\ beleg[a].status = "versendet"
        /\ Beginnt(r, [Vorsatz("anrechnen", b) EXCEPT !.wahl = W])
  BY <1>1
<1> DEFINE p == [Vorsatz("anrechnen", b) EXCEPT !.wahl = W]
<1>3. W \in SUBSET Belege /\ \A a \in W : Fest(a)
  BY <1>2 DEF NichtStorniert, Angelegt, Fest
<1>4. p \in PlanRek /\ p.tut = "anrechnen" /\ p.b = b /\ p.wahl = W
  BY <1>3, VorsatzFakten DEF Vorhaben
<1>5. Beginnt(r, p)
  BY <1>2
<1> HIDE DEF p
<1>6. QED
  BY <1>1, <1>3, <1>4, <1>5, AbBeginn DEF EntwurfDa

LEMMA AbzugEntfernenLesenGilt == ASSUME IAbschlag, NEW r \in AbAnfragen, AbzugEntfernenLesen(r) PROVE IAbschlag'
<1>1. PICK b \in Belege : \E a \in (IF EntwurfDa(b) THEN beleg[b].abzug ELSE {}) :
        Beginnt(r, [Vorsatz("abzug_entfernen", b) EXCEPT !.wahl = {a}])
  BY DEF AbzugEntfernenLesen
<1>2. PICK a \in beleg[b].abzug : EntwurfDa(b) /\ Beginnt(r, [Vorsatz("abzug_entfernen", b) EXCEPT !.wahl = {a}])
  BY <1>1
<1> DEFINE p == [Vorsatz("abzug_entfernen", b) EXCEPT !.wahl = {a}]
<1>3. a \in Belege
  BY <1>2, AbFakten DEF IAbschlag, EntwurfDa, AbzuegeEcht, Fest
<1> DEFINE W == {a}
<1>3a. W \in SUBSET Belege /\ p = [Vorsatz("abzug_entfernen", b) EXCEPT !.wahl = W]
  BY <1>3
<1> HIDE DEF p, W
<1>4. p \in PlanRek /\ p.tut = "abzug_entfernen" /\ p.b = b
  BY <1>3a, VorsatzFakten DEF Vorhaben
<1>5. Beginnt(r, p)
  BY <1>2 DEF p
<1>6. QED
  BY <1>2, <1>4, <1>5, AbBeginn DEF EntwurfDa

LEMMA VersendenLesenGilt == ASSUME IAbschlag, NEW r \in AbAnfragen, VersendenLesen(r) PROVE IAbschlag'
<1>1. PICK b \in Belege : EntwurfDa(b) /\ AbzuegeGueltig(b) /\ Beginnt(r, Vorsatz("versenden", b))
  BY DEF VersendenLesen
<1> DEFINE p == Vorsatz("versenden", b)
<1>2. p \in PlanRek /\ p.tut = "versenden" /\ p.b = b
  BY VorsatzFakten DEF Vorhaben
<1>3. \A a \in beleg[b].abzug : VersandtDa(a)
  <2>1. \A a \in beleg[b].abzug : Fest(a)
    BY <1>1 DEF IAbschlag, AbzuegeEcht, EntwurfDa
  <2>2. \A a \in beleg[b].abzug : a \in NichtStorniert /\ beleg[a].status = "versendet"
    BY <1>1, <2>1, AbFakten DEF IAbschlag, Fest, AbzuegeGueltig, NichtStorniert
  <2>3. QED
    BY <2>2 DEF VersandtDa
<1>4. \A a \in beleg[b].abzug : \A c \in Versandte : a \notin beleg[c].abzug
  <2> SUFFICES ASSUME NEW a \in beleg[b].abzug, NEW c \in Versandte, a \in beleg[c].abzug PROVE FALSE
    OBVIOUS
  <2>1. c \in AngerechnetIn(a)
    BY VersandteDa DEF AngerechnetIn
  <2>2. c = b
    BY <1>1, <2>1 DEF AbzuegeGueltig
  <2>3. QED
    BY <1>1, <2>2, VersandteDa DEF EntwurfDa
<1>5. Beginnt(r, p)
  BY <1>1
<1> HIDE DEF p
<1>6. QED
  BY <1>1, <1>2, <1>3, <1>4, <1>5, AbBeginn DEF EntwurfDa

LEMMA AbEntwurfLesenGilt ==
  ASSUME IAbschlag, NEW r \in AbAnfragen, VerwerfenLesen(r) \/ LoeschenLesen(r) PROVE IAbschlag'
<1>1. PICK b \in Belege, tut \in {"verwerfen", "loeschen"} : EntwurfDa(b) /\ Beginnt(r, Vorsatz(tut, b))
  BY DEF VerwerfenLesen, LoeschenLesen
<1> DEFINE p == Vorsatz(tut, b)
<1>2. p \in PlanRek /\ p.tut = tut /\ p.b = b
  BY VorsatzFakten DEF Vorhaben
<1>3. \A c \in Versandte : b \notin beleg[c].abzug
  BY <1>1, NirgendsAbgezogen, VersandteDa DEF EntwurfDa, Fest
<1>4. Beginnt(r, p)
  BY <1>1
<1> HIDE DEF p
<1>5. QED
  BY <1>1, <1>2, <1>3, <1>4, AbBeginn DEF EntwurfDa

LEMMA StornierenLesenGilt == ASSUME IAbschlag, NEW r \in AbAnfragen, StornierenLesen(r) PROVE IAbschlag'
<1>1. PICK b \in Angelegt :
        /\ ~beleg[b].geloescht /\ (beleg[b].art = "abschlag" => AngerechnetIn(b) = {})
        /\ Beginnt(r, Vorsatz("stornieren", b))
  BY DEF StornierenLesen
<1> DEFINE p == Vorsatz("stornieren", b)
<1>2. p \in PlanRek /\ p.tut = "stornieren" /\ p.b = b
  BY AbFakten, VorsatzFakten DEF IAbschlag, Vorhaben
<1>3. \A c \in Versandte : b \notin beleg[c].abzug
  <2> SUFFICES ASSUME NEW c \in Versandte, b \in beleg[c].abzug PROVE FALSE
    OBVIOUS
  <2>1. Fest(b) /\ c \in AngerechnetIn(b)
    BY NirgendsAbgezogen, VersandteDa DEF AngerechnetIn
  <2>2. QED
    BY <1>1, <2>1 DEF Fest
<1>4. Beginnt(r, p)
  BY <1>1
<1> HIDE DEF p
<1>5. QED
  BY <1>1, <1>2, <1>3, <1>4, AbBeginn

LEMMA WiderrufLesenGilt == ASSUME IAbschlag, NEW r \in AbAnfragen, WiderrufLesen(r) PROVE IAbschlag'
<1> DEFINE p == Vorsatz("widerrufen", Niemand)
<1>1. p \in PlanRek /\ p.tut = "widerrufen"
  BY VorsatzFakten DEF Vorhaben
<1>2. Beginnt(r, p) /\ ~AngebotGesperrt
  BY DEF WiderrufLesen
<1> HIDE DEF p
<1>3. QED
  BY <1>1, <1>2, AbBeginn DEF Bearbeiten

-----------------------------------------------------------------------------
\* The fields of an invoice with one of them changed.
LEMMA BelegFelder ==
  ASSUME NEW y \in BelegRek, NEW A \in SUBSET Belege
  PROVE  /\ [y EXCEPT !.abzug = A] \in BelegRek /\ [y EXCEPT !.abzug = A].abzug = A
         /\ [y EXCEPT !.abzug = A].netto = y.netto /\ [y EXCEPT !.abzug = A].amAngebot = y.amAngebot
         /\ [y EXCEPT !.abzug = A].status = y.status /\ [y EXCEPT !.abzug = A].geloescht = y.geloescht
         /\ [y EXCEPT !.abzug = A].art = y.art
BY DEF BelegRek

LEMMA AnrechnenGilt == ASSUME IAbschlag, NEW r \in AbAnfragen, AnrechnenSchreiben(r) PROVE IAbschlag'
<1> DEFINE b == plan[r].b
           A == beleg[b].abzug \cup plan[r].wahl
           x == [beleg[b] EXCEPT !.abzug = A, !.art = "schluss"]
<1>0. /\ plan[r].tut = "anrechnen" /\ Endet(r) /\ widerrufen' = widerrufen
      /\ \/ beleg' = [beleg EXCEPT ![b].abzug = A, ![b].art = "schluss"]
         \/ beleg' = beleg
  BY DEF AnrechnenSchreiben
<1>1. /\ b \in Angelegt /\ beleg[b] \in BelegRek /\ beleg[b].art \in {"rechnung", "schluss"}
      /\ \A a \in A : Fest(a)
  BY <1>0, AbFakten DEF IAbschlag, PlanEcht, Bearbeiten, AbzuegeEcht
<1>2. parallel = 1 => beleg[b].status = "entwurf"
  BY <1>0 DEF IAbschlag, PlanStand
<1>3. A \in SUBSET Belege
  BY <1>1 DEF Fest, Angelegt
<1>4. CASE beleg' = [beleg EXCEPT ![b].abzug = A, ![b].art = "schluss"]
  <2> HIDE DEF b, A
  <2>1. /\ x \in BelegRek /\ x.netto = beleg[b].netto /\ x.amAngebot = beleg[b].amAngebot
        /\ x.art = "schluss" /\ x.status = beleg[b].status /\ x.geloescht = beleg[b].geloescht /\ x.abzug = A
    BY <1>1, <1>3 DEF BelegRek, Arten
  <2>2. beleg' = [beleg EXCEPT ![b] = x]
    BY <1>1, <1>4
  <2> HIDE DEF x
  <2>3. ~Fest(b)
    BY <1>1 DEF Fest
  <2>4. \A c \in Versandte : b \notin beleg[c].abzug
    BY <2>3, NirgendsAbgezogen, VersandteDa
  <2>5. plan[r].tut # "nichts"
    BY <1>0
  <2>6. QED
    BY <1>0, <1>1, <1>2, <2>1, <2>2, <2>4, <2>5, AbSchreiben
<1>5. CASE beleg' = beleg
  BY <1>0, <1>5, AbNichts, AbFakten DEF IAbschlag
<1>6. QED
  BY <1>0, <1>4, <1>5

LEMMA AbzugEntfernenGilt == ASSUME IAbschlag, NEW r \in AbAnfragen, AbzugEntfernenSchreiben(r) PROVE IAbschlag'
<1> DEFINE b == plan[r].b
           A == beleg[b].abzug \ plan[r].wahl
           x == [beleg[b] EXCEPT !.abzug = A]
<1>0. /\ plan[r].tut = "abzug_entfernen" /\ Endet(r) /\ widerrufen' = widerrufen
      /\ \/ beleg' = [beleg EXCEPT ![b].abzug = A] /\ beleg[b].status = "entwurf"
         \/ beleg' = beleg
  BY DEF AbzugEntfernenSchreiben
<1>1. b \in Angelegt /\ beleg[b] \in BelegRek /\ \A a \in A : Fest(a)
  BY <1>0, AbFakten DEF IAbschlag, PlanEcht, Bearbeiten, AbzuegeEcht
<1>2. A \in SUBSET Belege
  BY <1>1 DEF Fest, Angelegt
<1>3. CASE beleg' = [beleg EXCEPT ![b].abzug = A] /\ beleg[b].status = "entwurf"
  <2> HIDE DEF b, A
  <2>1. /\ x \in BelegRek /\ x.netto = beleg[b].netto /\ x.amAngebot = beleg[b].amAngebot
        /\ x.art = beleg[b].art /\ x.status = beleg[b].status /\ x.geloescht = beleg[b].geloescht /\ x.abzug = A
    BY <1>1, <1>2, BelegFelder
  <2>2. beleg' = [beleg EXCEPT ![b] = x]
    BY <1>1, <1>3
  <2> HIDE DEF x
  <2>3. ~Fest(b)
    BY <1>3 DEF Fest
  <2>4. \A c \in Versandte : b \notin beleg[c].abzug
    BY <2>3, NirgendsAbgezogen, VersandteDa
  <2>5. plan[r].tut # "nichts"
    BY <1>0
  <2>6. QED
    BY <1>0, <1>1, <1>3, <2>1, <2>2, <2>4, <2>5, AbSchreiben
<1>4. CASE beleg' = beleg
  BY <1>0, <1>4, AbNichts, AbFakten DEF IAbschlag
<1>5. QED
  BY <1>0, <1>3, <1>4

LEMMA VersendenGilt == ASSUME IAbschlag, NEW r \in AbAnfragen, VersendenSchreiben(r) PROVE IAbschlag'
<1> DEFINE b == plan[r].b
           x == [beleg[b] EXCEPT !.status = "versendet"]
<1>0. /\ plan[r].tut = "versenden" /\ Endet(r) /\ widerrufen' = widerrufen
      /\ \/ beleg' = [beleg EXCEPT ![b].status = "versendet"] /\ beleg[b].status = "entwurf"
         \/ beleg' = beleg
  BY DEF VersendenSchreiben
<1>1. b \in Angelegt /\ beleg[b] \in BelegRek /\ \A a \in beleg[b].abzug : Fest(a)
  BY <1>0, AbFakten DEF IAbschlag, PlanEcht, Bearbeiten, AbzuegeEcht
<1>2. parallel = 1 =>
        /\ ~beleg[b].geloescht
        /\ \A a \in beleg[b].abzug : VersandtDa(a) /\ \A c \in Versandte : a \notin beleg[c].abzug
  BY <1>0 DEF IAbschlag, PlanStand
<1>3. CASE beleg' = [beleg EXCEPT ![b].status = "versendet"] /\ beleg[b].status = "entwurf"
  <2> HIDE DEF b
  <2>1. /\ x \in BelegRek /\ x.netto = beleg[b].netto /\ x.amAngebot = beleg[b].amAngebot
        /\ x.art = beleg[b].art /\ x.status = "versendet" /\ x.geloescht = beleg[b].geloescht
        /\ x.abzug = beleg[b].abzug
    BY <1>1 DEF BelegRek
  <2>2. beleg' = [beleg EXCEPT ![b] = x]
    BY <1>1, <1>3
  <2> HIDE DEF x
  <2>3. ~VersandtDa(b)
    BY <1>3 DEF VersandtDa
  <2>4. plan[r].tut # "nichts"
    BY <1>0
  <2>5. QED
    BY <1>0, <1>1, <1>2, <1>3, <2>1, <2>2, <2>3, <2>4, AbSchreiben, ZenonT(60)
<1>4. CASE beleg' = beleg
  BY <1>0, <1>4, AbNichts, AbFakten DEF IAbschlag
<1>5. QED
  BY <1>0, <1>3, <1>4

LEMMA StorniertGilt == ASSUME IAbschlag, NEW r \in AbAnfragen, StorniertSchreiben(r) PROVE IAbschlag'
<1> DEFINE b == plan[r].b
           x == [beleg[b] EXCEPT !.status = "storniert"]
<1>0. /\ plan[r].tut \in {"verwerfen", "stornieren"} /\ Endet(r) /\ widerrufen' = widerrufen
      /\ beleg' = [beleg EXCEPT ![b].status = "storniert"]
  BY DEF StorniertSchreiben
<1>1. b \in Angelegt /\ beleg[b] \in BelegRek /\ \A a \in beleg[b].abzug : Fest(a)
  BY <1>0, AbFakten DEF IAbschlag, PlanEcht, Bearbeiten, AbzuegeEcht
<1>2. parallel = 1 => ~beleg[b].geloescht /\ \A c \in Versandte : b \notin beleg[c].abzug
  BY <1>0 DEF IAbschlag, PlanStand
<1> HIDE DEF b
<1>3. /\ x \in BelegRek /\ x.netto = beleg[b].netto /\ x.amAngebot = beleg[b].amAngebot
      /\ x.art = beleg[b].art /\ x.status = "storniert" /\ x.geloescht = beleg[b].geloescht
      /\ x.abzug = beleg[b].abzug
  BY <1>1 DEF BelegRek
<1>4. beleg' = [beleg EXCEPT ![b] = x]
  BY <1>0, <1>1
<1> HIDE DEF x
<1>5. plan[r].tut # "nichts"
  BY <1>0
<1>6. QED
  BY <1>0, <1>1, <1>2, <1>3, <1>4, <1>5, AbSchreiben

LEMMA LoeschenGilt == ASSUME IAbschlag, NEW r \in AbAnfragen, LoeschenSchreiben(r) PROVE IAbschlag'
<1> DEFINE b == plan[r].b
           x == [beleg[b] EXCEPT !.geloescht = TRUE]
<1>0. /\ plan[r].tut = "loeschen" /\ Endet(r) /\ widerrufen' = widerrufen
      /\ beleg' = [beleg EXCEPT ![b].geloescht = TRUE]
  BY DEF LoeschenSchreiben
<1>1. b \in Angelegt /\ beleg[b] \in BelegRek /\ \A a \in beleg[b].abzug : Fest(a)
  BY <1>0, AbFakten DEF IAbschlag, PlanEcht, Bearbeiten, AbzuegeEcht
<1>2. parallel = 1 => beleg[b].status = "entwurf"
  BY <1>0 DEF IAbschlag, PlanStand
<1> HIDE DEF b
<1>3. /\ x \in BelegRek /\ x.netto = beleg[b].netto /\ x.amAngebot = beleg[b].amAngebot
      /\ x.art = beleg[b].art /\ x.status = beleg[b].status /\ x.geloescht
      /\ x.abzug = beleg[b].abzug
  BY <1>1 DEF BelegRek
<1>4. beleg' = [beleg EXCEPT ![b] = x]
  BY <1>0, <1>1
<1> HIDE DEF x
<1>5. parallel = 1 => \A c \in Versandte : b \notin beleg[c].abzug
  <2>1. parallel = 1 => ~Fest(b)
    BY <1>2 DEF Fest
  <2>2. QED
    BY <2>1, NirgendsAbgezogen, VersandteDa
<1>6. plan[r].tut # "nichts"
  BY <1>0
<1>7. QED
  BY <1>0, <1>1, <1>2, <1>3, <1>4, <1>5, <1>6, AbSchreiben, ZenonT(60)

LEMMA WiderrufGilt == ASSUME IAbschlag, NEW r \in AbAnfragen, WiderrufSchreiben(r) PROVE IAbschlag'
<1>1. widerrufen' \in BOOLEAN
  BY DEF WiderrufSchreiben
<1>2. plan[r].tut # "nichts" /\ Endet(r) /\ beleg' = beleg
  BY DEF WiderrufSchreiben
<1>3. QED
  BY <1>1, <1>2, AbNichts

-----------------------------------------------------------------------------
\* A draft is made.
LEMMA AbNeu ==
  ASSUME IAbschlag, NEW b \in Belege, b \notin Angelegt, NEW x \in BelegRek, beleg' = [beleg EXCEPT ![b] = x],
         x.status = "entwurf", ~x.geloescht, \A a \in x.abzug : Fest(a), parallel' = parallel
  PROVE  /\ beleg' \in [Belege -> {KeinBeleg} \cup BelegRek] /\ beleg'[b] = x
         /\ Angelegt' = Angelegt \cup {b} /\ IsFiniteSet(Angelegt')
         /\ \A c \in Angelegt : c # b /\ beleg'[c] = beleg[c]
         /\ \A a : VersandtDa(a)' = VersandtDa(a) /\ (Fest(a) => Fest(a)')
         /\ Versandte' = Versandte
         /\ AbzuegeEcht' /\ NurEntwurfGeloescht' /\ VersandtGilt'
         /\ \A A : /\ \A c : c # b => (c \in ZumAngebot(A)' <=> c \in ZumAngebot(A))
                   /\ b \in ZumAngebot(A)' <=> x.amAngebot /\ x.art \in A
<1>1. /\ beleg' \in [Belege -> {KeinBeleg} \cup BelegRek] /\ beleg'[b] = x
      /\ \A c \in Belege : c # b => beleg'[c] = beleg[c]
      /\ Angelegt' = Angelegt \cup {b} /\ IsFiniteSet(Angelegt')
      /\ \A c : c # b => VersandtDa(c)' = VersandtDa(c)
      /\ ~VersandtDa(b)'
      /\ \A A : /\ \A c : c # b => (c \in ZumAngebot(A)' <=> c \in ZumAngebot(A))
                /\ b \in ZumAngebot(A)' <=> x.amAngebot /\ x.art \in A
  BY AbZeile
<1>2. \A c \in Angelegt : c \in Belege /\ c # b /\ beleg'[c] = beleg[c]
  BY <1>1 DEF Angelegt
<1>3. ~VersandtDa(b)
  BY DEF VersandtDa, NichtStorniert
<1>4. VersandtDa(b)' = VersandtDa(b)
  BY <1>1, <1>3 DEF VersandtDa
<1>5. \A a : VersandtDa(a)' = VersandtDa(a)
  BY <1>1, <1>4
<1>6. Versandte' = Versandte
  BY <1>5 DEF Versandte
<1>7. \A a : Fest(a) => Fest(a)'
  BY <1>1, <1>2 DEF Fest
<1>8. AbzuegeEcht'
  BY <1>1, <1>2, <1>7 DEF IAbschlag, AbzuegeEcht
<1>9. NurEntwurfGeloescht'
  BY <1>1, <1>2 DEF IAbschlag, NurEntwurfGeloescht
<1>10. VersandtGilt'
  BY <1>2, <1>5, <1>6, VersandteDa DEF IAbschlag, VersandtGilt
<1>11. QED
  BY <1>1, <1>2, <1>5, <1>6, <1>7, <1>8, <1>9, <1>10

LEMMA NeuerFakten ==
  ASSUME NEW art \in Arten, NEW netto \in 0..Voll, NEW W \in SUBSET Belege, NEW am \in BOOLEAN
  PROVE  /\ Neuer(art, netto, W, am) \in BelegRek /\ Neuer(art, netto, W, am).status = "entwurf"
         /\ ~Neuer(art, netto, W, am).geloescht /\ Neuer(art, netto, W, am).abzug = W
         /\ Neuer(art, netto, W, am).art = art /\ Neuer(art, netto, W, am).netto = netto
         /\ Neuer(art, netto, W, am).amAngebot = am
<1>1. FALSE \in BOOLEAN
  OBVIOUS
<1>2. QED
  BY <1>1 DEF Neuer, BelegRek

LEMMA AnlegenGilt == ASSUME IAbschlag, NEW r \in AbAnfragen, AnlegenSchreiben(r) PROVE IAbschlag'
<1>1. PICK b \in Belege \ Angelegt :
        beleg' = [beleg EXCEPT ![b] = Neuer(plan[r].art, plan[r].netto, plan[r].wahl, TRUE)]
  BY DEF AnlegenSchreiben
<1> DEFINE art == plan[r].art
           netto == plan[r].netto
           W == plan[r].wahl
           x == Neuer(art, netto, W, TRUE)
<1>2. plan[r].tut = "anlegen" /\ Endet(r) /\ widerrufen' = widerrufen
  BY DEF AnlegenSchreiben
<1>3. art \in Arten /\ netto \in 0..Voll /\ netto \in Nat /\ W \in SUBSET Belege /\ \A a \in W : Fest(a)
  BY <1>2, AbFakten, AbAnnahme DEF IAbschlag, PlanRek, PlanEcht
<1>4. zurueck = 0 => /\ Volle = {}
                     /\ art = "rechnung" => Zahlungen = {}
                     /\ art = "abschlag" => Netto(beleg, Zahlungen) + netto <= Voll
  BY <1>2 DEF IAbschlag, PlanRecht
<1> HIDE DEF art, netto, W
<1>5. /\ x \in BelegRek /\ x.status = "entwurf" /\ ~x.geloescht /\ x.abzug = W
      /\ x.art = art /\ x.netto = netto /\ x.amAngebot
  <2> DEFINE am == TRUE
  <2>1. am \in BOOLEAN
    OBVIOUS
  <2>1a. am = TRUE
    OBVIOUS
  <2> HIDE DEF am
  <2>2. /\ Neuer(art, netto, W, am) \in BelegRek /\ Neuer(art, netto, W, am).status = "entwurf"
        /\ ~Neuer(art, netto, W, am).geloescht /\ Neuer(art, netto, W, am).abzug = W
        /\ Neuer(art, netto, W, am).art = art /\ Neuer(art, netto, W, am).netto = netto
        /\ Neuer(art, netto, W, am).amAngebot = am
    BY <1>3, <2>1, NeuerFakten
  <2>3. x = Neuer(art, netto, W, am)
    BY DEF am
  <2> HIDE DEF x
  <2>4. QED
    BY <2>1a, <2>2, <2>3
<1>6. beleg' = [beleg EXCEPT ![b] = x]
  BY <1>1 DEF art, netto, W
<1> HIDE DEF x
<1>7. parallel' = parallel /\ plan[r].tut # "nichts"
  BY <1>2 DEF Endet
<1>8. /\ beleg' \in [Belege -> {KeinBeleg} \cup BelegRek] /\ beleg'[b] = x
      /\ Angelegt' = Angelegt \cup {b} /\ IsFiniteSet(Angelegt')
      /\ \A c \in Angelegt : c # b /\ beleg'[c] = beleg[c]
      /\ \A a : VersandtDa(a)' = VersandtDa(a) /\ (Fest(a) => Fest(a)')
      /\ AbzuegeEcht' /\ NurEntwurfGeloescht' /\ VersandtGilt'
      /\ \A A : /\ \A c : c # b => (c \in ZumAngebot(A)' <=> c \in ZumAngebot(A))
                /\ b \in ZumAngebot(A)' <=> x.amAngebot /\ x.art \in A
  BY <1>3, <1>5, <1>6, <1>7, AbNeu
<1>9. /\ AbAllein' /\ EinHalter' /\ PlanEcht' /\ PlanStand' /\ plan' \in [AbAnfragen -> PlanRek]
      /\ UNCHANGED <<zurueck, parallel>> /\ plan'[r] = Ruhe
      /\ \A q \in AbAnfragen : q # r => plan'[q] = plan[q]
  BY <1>2, <1>7, <1>8, AbEnde
<1>10. \A q \in AbAnfragen : plan'[q].tut # "anlegen"
  BY <1>2, <1>9, RuheFakten DEF IAbschlag, EinHalter
<1>11. PlanRecht'
  BY <1>10 DEF PlanRecht
<1>12. AbTyp'
  BY <1>2, <1>8, <1>9, AbFakten, AbTypAus DEF IAbschlag
<1>13. AngebotGilt'
  <2> SUFFICES ASSUME zurueck = 0
               PROVE  /\ \A c, d \in Volle' : c = d
                      /\ Netto(beleg, Zahlungen)' <= Voll
                      /\ \A c \in ZumAngebot({"rechnung"})' : Zahlungen' = {}
    BY <1>9 DEF AngebotGilt
  <2>1. \A c \in Volle' : c = b
    BY <1>4, <1>8 DEF Volle
  <2>2. \A c \in ZumAngebot({"rechnung"})' : c \in Volle'
    BY DEF Volle, ZumAngebot
  <2>3. CASE art # "abschlag"
    <3>0. b \notin Zahlungen /\ b \notin Zahlungen'
      BY <1>5, <1>8, <2>3 DEF Zahlungen, ZumAngebot, NichtStorniert
    <3>1. Zahlungen' = Zahlungen
      BY <1>8, <3>0 DEF Zahlungen
    <3>2. Zahlungen \subseteq Angelegt
      BY DEF Zahlungen, ZumAngebot, NichtStorniert
    <3>3. Netto(beleg', Zahlungen) <= Netto(beleg, Zahlungen) /\ Netto(beleg', Zahlungen) \in Nat
            /\ Netto(beleg, Zahlungen) \in Nat
      BY <1>8, <3>2, ZahlungenEndlich, NettoKleiner
    <3>4. Netto(beleg, Zahlungen)' = Netto(beleg', Zahlungen')
      OBVIOUS
    <3>5. Netto(beleg, Zahlungen)' <= Voll
      BY <3>1, <3>3, <3>4, AbAnnahme DEF IAbschlag, AngebotGilt
    <3>6. \A c \in ZumAngebot({"rechnung"})' : Zahlungen' = {}
      BY <1>4, <1>5, <1>8, <2>1, <2>2, <3>1
    <3>7. QED
      BY <2>1, <3>5, <3>6
  <2>4. CASE art = "abschlag"
    <3>1. b \notin Zahlungen /\ Zahlungen \subseteq Angelegt
      BY DEF Zahlungen, ZumAngebot, NichtStorniert
    <3>2. Zahlungen' = Zahlungen \cup {b}
      BY <1>5, <1>8, <2>4 DEF Zahlungen
    <3>3. \A c \in Zahlungen : beleg'[c].netto = beleg[c].netto
      BY <1>8, <3>1
    <3>4. Netto(beleg', Zahlungen \cup {b}) = Netto(beleg, Zahlungen) + beleg'[b].netto
      <4>1. beleg'[b].netto \in Nat
        BY <1>3, <1>5, <1>8
      <4>2. QED
        BY <3>1, <3>3, <4>1, ZahlungenEndlich, NettoPlus
    <3>5. Netto(beleg, Zahlungen)' = Netto(beleg', Zahlungen')
      OBVIOUS
    <3>6. Netto(beleg, Zahlungen)' <= Voll
      BY <1>4, <1>5, <1>8, <2>4, <3>2, <3>4, <3>5
    <3>7. ZumAngebot({"rechnung"})' = {}
      BY <1>5, <1>8, <2>1, <2>2, <2>4
    <3>8. QED
      BY <2>1, <3>6, <3>7
  <2>5. QED
    BY <2>3, <2>4
<1>14. QED
  BY <1>8, <1>9, <1>11, <1>12, <1>13 DEF IAbschlag

LEMMA EntwurfGilt == IAbschlag /\ EntwurfAmVorgang => IAbschlag'
<1> SUFFICES ASSUME IAbschlag, EntwurfAmVorgang PROVE IAbschlag'
  OBVIOUS
<1>1. PICK b \in Belege \ Angelegt, art \in {"rechnung", "abschlag"} :
        beleg' = [beleg EXCEPT ![b] = Neuer(art, 0, {}, FALSE)]
  BY DEF EntwurfAmVorgang
<1>2. UNCHANGED <<widerrufen, plan, zurueck, parallel>>
  BY DEF EntwurfAmVorgang
<1> DEFINE W == {}
           x == Neuer(art, 0, W, FALSE)
<1>3. W \in SUBSET Belege /\ art \in Arten /\ 0 \in 0..Voll
  BY AbAnnahme DEF Arten
<1>4. FALSE \in BOOLEAN
  OBVIOUS
<1>5. beleg' = [beleg EXCEPT ![b] = x] /\ \A a \in W : Fest(a)
  BY <1>1
<1> HIDE DEF W
<1>6. /\ x \in BelegRek /\ x.status = "entwurf" /\ ~x.geloescht /\ x.abzug = W /\ ~x.amAngebot
  BY <1>3, <1>4, NeuerFakten, ZenonT(60)
<1> HIDE DEF x
<1>7. /\ beleg' \in [Belege -> {KeinBeleg} \cup BelegRek] /\ beleg'[b] = x
      /\ Angelegt' = Angelegt \cup {b} /\ IsFiniteSet(Angelegt')
      /\ \A c \in Angelegt : c # b /\ beleg'[c] = beleg[c]
      /\ \A a : VersandtDa(a)' = VersandtDa(a) /\ (Fest(a) => Fest(a)')
      /\ Versandte' = Versandte
      /\ AbzuegeEcht' /\ NurEntwurfGeloescht' /\ VersandtGilt'
      /\ \A A : /\ \A c : c # b => (c \in ZumAngebot(A)' <=> c \in ZumAngebot(A))
                /\ b \in ZumAngebot(A)' <=> x.amAngebot /\ x.art \in A
  BY <1>2, <1>5, <1>6, AbNeu
<1>8. AbTyp' /\ AbAllein' /\ EinHalter'
  BY <1>2, <1>7, AbFakten, AbTypAus DEF IAbschlag, AbAllein, EinHalter
<1>9. PlanEcht'
  <2>1. \A q \in AbAnfragen : LET p == plan[q] IN
          /\ p.tut \in Bearbeiten => p.b \in Angelegt /\ p.b \in Angelegt' /\ beleg'[p.b] = beleg[p.b]
          /\ p.tut = "anrechnen" => beleg[p.b].art \in {"rechnung", "schluss"}
          /\ p.tut \in {"anlegen", "anrechnen"} => \A a \in p.wahl : Fest(a)'
    BY <1>7 DEF IAbschlag, PlanEcht
  <2>2. QED
    BY <1>2, <2>1 DEF PlanEcht, Bearbeiten
<1>10. PlanStand'
  <2>1. \A c \in Versandte : c \in Angelegt
    BY VersandteDa
  <2>2. \A q \in AbAnfragen : plan[q].tut \in Bearbeiten =>
          plan[q].b \in Angelegt /\ beleg'[plan[q].b] = beleg[plan[q].b]
    BY <1>7 DEF IAbschlag, PlanEcht
  <2>3. QED
    BY <1>2, <1>7, <2>1, <2>2 DEF IAbschlag, PlanStand, Bearbeiten
<1>11. \A c : ~(c \in Zahlungen /\ c \notin Angelegt)
  BY DEF Zahlungen, ZumAngebot, NichtStorniert
<1>12. Volle' \subseteq Volle /\ Zahlungen' \subseteq Zahlungen
       /\ ZumAngebot({"rechnung"})' \subseteq ZumAngebot({"rechnung"})
  BY <1>6, <1>7 DEF Volle, Zahlungen
<1>13. PlanRecht' /\ AngebotGilt'
  BY <1>2, <1>7, <1>11, <1>12, AbSchrumpft
<1>14. QED
  BY <1>7, <1>8, <1>9, <1>10, <1>13 DEF IAbschlag

LEMMA WiederherstellenGilt == IAbschlag /\ BelegWiederherstellen => IAbschlag'
<1> SUFFICES ASSUME IAbschlag, BelegWiederherstellen PROVE IAbschlag'
  OBVIOUS
<1>1. PICK b \in Angelegt :
        /\ beleg[b].geloescht /\ zurueck + parallel <= MaxZurueck
        /\ beleg' = [beleg EXCEPT ![b].geloescht = FALSE]
        /\ zurueck' = zurueck + 1 /\ UNCHANGED <<widerrufen, plan, parallel>>
  BY DEF BelegWiederherstellen
<1>2. /\ zurueck \in 0..MaxZurueck /\ parallel \in 1..Cardinality(AbAnfragen)
      /\ b \in Belege /\ beleg[b] \in BelegRek
  BY AbFakten DEF IAbschlag
<1>3. zurueck' \in 0..MaxZurueck /\ zurueck' # 0
  <2>1. Cardinality(AbAnfragen) \in Nat
    BY AbAnnahme, FS_CardinalityType
  <2>2. QED
    BY <1>1, <1>2, <2>1, AbAnnahme
<1> DEFINE x == [beleg[b] EXCEPT !.geloescht = FALSE]
<1>4. /\ x \in BelegRek /\ x.netto = beleg[b].netto /\ x.amAngebot = beleg[b].amAngebot
      /\ x.art = beleg[b].art /\ x.status = beleg[b].status /\ ~x.geloescht /\ x.abzug = beleg[b].abzug
  BY <1>2 DEF BelegRek
<1>5. beleg' = [beleg EXCEPT ![b] = x]
  BY <1>1
<1> HIDE DEF x
<1>6. /\ beleg' \in [Belege -> {KeinBeleg} \cup BelegRek] /\ beleg'[b] = x
      /\ \A c \in Belege : c # b => beleg'[c] = beleg[c]
      /\ Angelegt' = Angelegt \cup {b} /\ IsFiniteSet(Angelegt')
      /\ \A c : c # b => VersandtDa(c)' = VersandtDa(c)
      /\ VersandtDa(b)' <=> x.status = "versendet" /\ ~x.geloescht
  BY <1>2, <1>4, <1>5, AbZeile
<1>7. Angelegt' = Angelegt /\ (\A c \in Angelegt : c \in Belege) /\ ~VersandtDa(b)
  BY <1>1, <1>6 DEF Angelegt, VersandtDa, NichtStorniert
<1>8. parallel = 1 => beleg[b].status = "entwurf" /\ ~VersandtDa(b)'
  BY <1>1, <1>4, <1>6 DEF IAbschlag, NurEntwurfGeloescht
<1>9. parallel = 1 => Versandte' = Versandte /\ \A a : VersandtDa(a) <=> VersandtDa(a)'
  BY <1>6, <1>7, <1>8 DEF Versandte
<1>10. \A c \in Angelegt : /\ beleg'[c].abzug = beleg[c].abzug /\ beleg'[c].status = beleg[c].status
                           /\ beleg'[c].art = beleg[c].art /\ (beleg'[c].geloescht => beleg[c].geloescht)
  BY <1>4, <1>6, <1>7
<1>11. \A a : Fest(a) => Fest(a)'
  BY <1>7, <1>10 DEF Fest
<1>12. AbTyp' /\ AbAllein' /\ EinHalter'
  BY <1>1, <1>3, <1>6, AbFakten, AbTypAus DEF IAbschlag, AbAllein, EinHalter
<1>13. AbzuegeEcht' /\ PlanEcht' /\ NurEntwurfGeloescht'
  BY <1>1, <1>7, <1>10, <1>11 DEF IAbschlag, AbzuegeEcht, PlanEcht, NurEntwurfGeloescht, Bearbeiten
<1>14. VersandtGilt'
  BY <1>1, <1>9, <1>10, VersandteDa DEF IAbschlag, VersandtGilt
<1>15. PlanStand'
  <2>1. \A q \in AbAnfragen : plan[q].tut \in Bearbeiten => plan[q].b \in Angelegt
    BY DEF IAbschlag, PlanEcht
  <2>2. QED
    BY <1>1, <1>9, <1>10, <2>1, VersandteDa DEF IAbschlag, PlanStand, Bearbeiten
<1>16. PlanRecht' /\ AngebotGilt'
  BY <1>3 DEF PlanRecht, AngebotGilt
<1>17. QED
  BY <1>6, <1>12, <1>13, <1>14, <1>15, <1>16 DEF IAbschlag

-----------------------------------------------------------------------------
LEMMA AbSchritt == IAbschlag /\ [AbNext]_abVars => IAbschlag'
<1> SUFFICES ASSUME IAbschlag, [AbNext]_abVars PROVE IAbschlag'
  OBVIOUS
<1>1. ASSUME NEW r \in AbAnfragen,
             \/ AnlegenLesen(r) \/ AnrechnenLesen(r) \/ AbzugEntfernenLesen(r) \/ VersendenLesen(r)
             \/ VerwerfenLesen(r) \/ StornierenLesen(r) \/ LoeschenLesen(r) \/ WiderrufLesen(r)
      PROVE  IAbschlag'
  BY <1>1, AnlegenLesenGilt, AnrechnenLesenGilt, AbzugEntfernenLesenGilt, VersendenLesenGilt,
     AbEntwurfLesenGilt, StornierenLesenGilt, WiderrufLesenGilt
<1>2. ASSUME NEW r \in AbAnfragen,
             \/ AnlegenSchreiben(r) \/ AnrechnenSchreiben(r) \/ AbzugEntfernenSchreiben(r)
             \/ VersendenSchreiben(r) \/ StorniertSchreiben(r) \/ LoeschenSchreiben(r) \/ WiderrufSchreiben(r)
      PROVE  IAbschlag'
  BY <1>2, AnlegenGilt, AnrechnenGilt, AbzugEntfernenGilt, VersendenGilt, StorniertGilt, LoeschenGilt, WiderrufGilt
<1>3. CASE UNCHANGED abVars
  <2>1. UNCHANGED <<widerrufen, beleg, plan, zurueck, parallel>>
    BY <1>3 DEF abVars
  <2>2. /\ Angelegt' = Angelegt /\ Zahlungen' = Zahlungen /\ Volle' = Volle /\ Versandte' = Versandte
        /\ ZumAngebot({"rechnung"})' = ZumAngebot({"rechnung"})
        /\ (\A a : Fest(a)' = Fest(a)) /\ (\A a : VersandtDa(a)' = VersandtDa(a))
    BY <2>1, AbGleich
  <2>3. PlanRecht' /\ AngebotGilt'
    BY <2>1, <2>2, AbSchrumpft
  <2>4. AbTyp' /\ IsFiniteSet(Angelegt') /\ AbAllein' /\ EinHalter'
    BY <2>1, <2>2 DEF IAbschlag, AbTyp, AbAllein, EinHalter
  <2>5. AbzuegeEcht' /\ PlanEcht' /\ PlanStand' /\ NurEntwurfGeloescht' /\ VersandtGilt'
    BY <2>1, <2>2 DEF IAbschlag, AbzuegeEcht, PlanEcht, PlanStand, NurEntwurfGeloescht, VersandtGilt
  <2>6. QED
    BY <2>3, <2>4, <2>5 DEF IAbschlag
<1>4. QED
  BY <1>1, <1>2, <1>3, EntwurfGilt, WiederherstellenGilt DEF AbNext

-----------------------------------------------------------------------------
(***************************************************************************)
(* Stock and orders.                                                       *)
(***************************************************************************)

BestellRek == [status : {"entwurf", "bestellt", "eingegangen"}, menge : Nat, geloescht : BOOLEAN]
BedarfRek ==
    [status : {"offen", "bestellt", "erhalten"}, bestellung : Bestellungen \cup {Ohne}, geloescht : BOOLEAN]
AuftragRek ==
    [tut : {"nichts", "setzen", "verwenden", "umlagern", "bestellen", "status", "bedarf_loeschen"},
     von : Orte \cup {Ohne}, nach : Orte \cup {Ohne}, menge : Nat,
     las : (Nat \cup {Ohne}) \X (Nat \cup {Ohne}), b : Bestellungen \cup {Ohne}, wahl : SUBSET Bedarfe]

Buchungen == {"setzen", "verwenden", "umlagern"}
MengeVon(W) == MapThenSumSet(LAMBDA d : BedarfMenge[d], W)
BedarfeVon(b) == {d \in Bedarfe : bedarf[d].bestellung = b}

LaAllein ==
    neben = 1 => \A q, r \in LaAnfragen : auftrag[q] # KeinAuftrag /\ auftrag[r] # KeinAuftrag => q = r

\* What a request has in memory fits together.
Echt(p) ==
    /\ p.tut = "setzen" => p.von = Ohne /\ p.nach \in Orte
    /\ p.tut = "verwenden" => p.nach = Ohne
    /\ p.tut \in {"verwenden", "umlagern"} => p.von \in Orte /\ p.las[1] \in Nat /\ p.menge <= p.las[1]
    /\ p.tut = "umlagern" => p.nach \in Orte /\ p.nach # p.von
    /\ p.tut = "status" => p.b \in Bestellt
LaEcht == \A r \in LaAnfragen : Echt(auftrag[r])

\* What a request has read is still so when nothing overlaps.
StandGilt(p) ==
    /\ p.tut \in Buchungen /\ p.von \in Orte => p.las[1] = bestand[p.von]
    /\ p.tut \in Buchungen \cup {"status"} /\ p.nach \in Orte => p.las[2] = bestand[p.nach]
    /\ p.tut = "status" => bestellung[p.b].status # "eingegangen"
    /\ p.tut = "bestellen" => \A d \in p.wahl : bedarf[d].status = "offen"
LaStand == neben = 1 => \A r \in LaAnfragen : StandGilt(auftrag[r])

BestandGilt == neben = 1 => BestandFolgtBewegungen
BedarfGilt ==
    neben = 1 => \A d \in Bedarfe :
        /\ bedarf[d].status = "offen" => bedarf[d].bestellung = Ohne
        /\ bedarf[d].status = "bestellt" =>
             bedarf[d].bestellung \in Bestellt /\ bestellung[bedarf[d].bestellung].status # "eingegangen"
        /\ bedarf[d].status = "erhalten" =>
             bedarf[d].bestellung \in Bestellt /\ bestellung[bedarf[d].bestellung].status = "eingegangen"
MengeGilt == neben = 1 => \A b \in Bestellt : bestellung[b].menge = MengeVon(BedarfeVon(b))

ILager == LaTyp /\ LaAllein /\ LaEcht /\ LaStand /\ BestandGilt /\ BedarfGilt /\ MengeGilt

LEMMA LaFakten ==
  ASSUME LaTyp
  PROVE  /\ bestand \in [Orte -> Nat \cup {Ohne}] /\ bewegt \in [Orte -> Int]
         /\ bestellung \in [Bestellungen -> {NichtBestellt} \cup BestellRek]
         /\ bedarf \in [Bedarfe -> BedarfRek] /\ auftrag \in [LaAnfragen -> AuftragRek]
         /\ gebucht \in 0..MaxBuchungen /\ neben \in 1..Cardinality(LaAnfragen)
         /\ \A b \in Bestellt : b \in Bestellungen /\ bestellung[b] \in BestellRek
BY DEF LaTyp, BestellRek, BedarfRek, AuftragRek, Bestellt

LEMMA LaTypAus ==
  ASSUME bestand' \in [Orte -> Nat \cup {Ohne}], bewegt' \in [Orte -> Int],
         bestellung' \in [Bestellungen -> {NichtBestellt} \cup BestellRek],
         bedarf' \in [Bedarfe -> BedarfRek], auftrag' \in [LaAnfragen -> AuftragRek],
         gebucht' \in 0..MaxBuchungen, neben' \in 1..Cardinality(LaAnfragen)
  PROVE  LaTyp'
BY DEF LaTyp, BestellRek, BedarfRek, AuftragRek

LEMMA BestelltDa == \A x \in BestellRek : x # NichtBestellt
BY DEF BestellRek, NichtBestellt

LEMMA KeinFakten ==
  /\ KeinAuftrag \in AuftragRek /\ KeinAuftrag.tut = "nichts" /\ KeinAuftrag.von = Ohne
  /\ KeinAuftrag.nach = Ohne /\ KeinAuftrag.wahl = {}
BY LaAnnahme DEF KeinAuftrag, AuftragRek

LEMMA MengeNat == \A x \in Nat \cup {Ohne} : Menge(x) \in Nat /\ (x \in Nat => Menge(x) = x)
BY LaAnnahme DEF Menge

LEMMA BedarfSumme == ASSUME NEW W \in SUBSET Bedarfe PROVE MengeVon(W) \in Nat
<1>1. IsFiniteSet(W)
  BY LaAnnahme, FS_Subset
<1>2. MengeVon(W) = Summe(BedarfMenge, W)
  BY DEF MengeVon, Summe, IstSumme, MapThenSumSet, MapThenFoldSet
<1>3. \A d \in W : BedarfMenge[d] \in Nat
  BY LaAnnahme
<1>4. QED
  BY <1>1, <1>2, <1>3, SummeFakten

LEMMA ILagerGilt == ILager => LagerStimmt
<1> SUFFICES ASSUME ILager, neben = 1 PROVE LagerStimmt
  BY DEF LagerStimmt
<1>1. \A d \in Bedarfe : bedarf[d].status \in {"offen", "bestellt", "erhalten"}
  BY LaFakten DEF ILager, BedarfRek
<1>2. \A d \in Bedarfe :
             LET b == bedarf[d].bestellung IN
             CASE bedarf[d].status = "offen" -> b = Ohne
               [] bedarf[d].status = "bestellt" -> b \in Bestellt /\ bestellung[b].status # "eingegangen"
               [] OTHER -> b \in Bestellt /\ bestellung[b].status = "eingegangen"
  BY <1>1 DEF ILager, BedarfGilt
<1>3. QED
  BY <1>2 DEF ILager, LagerStimmt, BestandGilt, MengeGilt, MengeVon, BedarfeVon

LEMMA LaInitGilt == LaInit => ILager
<1> SUFFICES ASSUME LaInit PROVE ILager
  OBVIOUS
<1>1. auftrag \in [LaAnfragen -> AuftragRek] /\ \A r \in LaAnfragen : auftrag[r] = KeinAuftrag
  BY KeinFakten DEF LaInit
<1>2. LaTyp
  <2>1. FALSE \in BOOLEAN
    OBVIOUS
  <2>2. [status |-> "offen", bestellung |-> Ohne, geloescht |-> FALSE] \in BedarfRek
    BY <2>1 DEF BedarfRek
  <2>3. bedarf \in [Bedarfe -> BedarfRek]
    BY <2>2 DEF LaInit
  <2>4. /\ bestand \in [Orte -> Nat \cup {Ohne}] /\ bewegt \in [Orte -> Int]
        /\ bestellung \in [Bestellungen -> {NichtBestellt} \cup BestellRek]
        /\ gebucht \in 0..MaxBuchungen /\ neben \in 1..Cardinality(LaAnfragen)
    BY LaAnnahme DEF LaInit
  <2>5. QED
    BY <1>1, <2>3, <2>4 DEF LaTyp, BestellRek, BedarfRek, AuftragRek
<1>3. Bestellt = {} /\ \A d \in Bedarfe : bedarf[d].status = "offen" /\ bedarf[d].bestellung = Ohne
  BY DEF LaInit, Bestellt
<1>4. LaAllein /\ LaEcht /\ LaStand
  BY <1>1, KeinFakten DEF LaAllein, LaEcht, LaStand, Echt, StandGilt, Buchungen
<1>5. BestandGilt
  BY DEF LaInit, BestandGilt, BestandFolgtBewegungen, Menge
<1>6. BedarfGilt /\ MengeGilt
  BY <1>3 DEF BedarfGilt, MengeGilt
<1>7. QED
  BY <1>2, <1>4, <1>5, <1>6 DEF ILager

-----------------------------------------------------------------------------
\* A request that begins: the tables stay as they are.
LEMMA LaBeginn ==
  ASSUME ILager, NEW r \in LaAnfragen, NEW p \in AuftragRek, Nimmt(r, p),
         gebucht' \in 0..MaxBuchungen, Echt(p), StandGilt(p)
  PROVE  ILager'
<1>1. /\ bestand' = bestand /\ bewegt' = bewegt /\ bestellung' = bestellung /\ bedarf' = bedarf
      /\ neben' = neben /\ auftrag' = [auftrag EXCEPT ![r] = p] /\ Bestellt' = Bestellt
  BY DEF Nimmt, Bestellt
<1>2. auftrag \in [LaAnfragen -> AuftragRek]
  BY LaFakten DEF ILager
<1>3. auftrag' \in [LaAnfragen -> AuftragRek] /\ auftrag'[r] = p /\ \A q \in LaAnfragen \ {r} : auftrag'[q] = auftrag[q]
  BY <1>1, <1>2
<1>4. LaTyp'
  <2>1. /\ bestand \in [Orte -> Nat \cup {Ohne}] /\ bewegt \in [Orte -> Int]
        /\ bestellung \in [Bestellungen -> {NichtBestellt} \cup BestellRek]
        /\ bedarf \in [Bedarfe -> BedarfRek] /\ neben \in 1..Cardinality(LaAnfragen)
    BY LaFakten DEF ILager
  <2>2. QED
    BY <1>1, <1>3, <2>1, LaTypAus
<1>5. LaAllein'
  <2>1. SUFFICES ASSUME neben = 1, NEW q \in LaAnfragen, NEW s \in LaAnfragen,
                        auftrag'[q] # KeinAuftrag, auftrag'[s] # KeinAuftrag
                 PROVE  q = s
    BY <1>1 DEF LaAllein
  <2> DEFINE X == {x \in LaAnfragen : auftrag[x] # KeinAuftrag}
  <2>2. X = {}
    <3>1. IsFiniteSet(X)
      BY LaAnnahme, FS_Subset, X \subseteq LaAnfragen
    <3>2. Cardinality(X) < 1
      BY <2>1 DEF Nimmt
    <3>3. QED
      BY <3>1, <3>2, Hoechstens
  <2>3. q = r /\ s = r
    BY <2>1, <2>2, <1>3
  <2>4. QED
    BY <2>3
<1>6. LaEcht'
  <2>1. \A q \in LaAnfragen : Echt(auftrag'[q])
    BY <1>3 DEF ILager, LaEcht
  <2>2. QED
    BY <2>1, <1>1 DEF LaEcht, Echt
<1>7. LaStand'
  <2>1. neben = 1 => \A q \in LaAnfragen : StandGilt(auftrag'[q])
    BY <1>3 DEF ILager, LaStand
  <2>2. QED
    BY <2>1, <1>1 DEF LaStand, StandGilt
<1>8. BestandGilt' /\ BedarfGilt' /\ MengeGilt'
  <2>1. \A b : BedarfeVon(b)' = BedarfeVon(b)
    BY <1>1 DEF BedarfeVon
  <2>2. \A b : MengeVon(BedarfeVon(b))' = MengeVon(BedarfeVon(b)')
    OBVIOUS
  <2>3. MengeGilt'
    BY <1>1, <2>1, <2>2 DEF ILager, MengeGilt
  <2>4. BestandGilt' /\ BedarfGilt'
    BY <1>1 DEF ILager, BestandGilt, BestandFolgtBewegungen, BedarfGilt
  <2>5. QED
    BY <2>3, <2>4
<1>9. QED
  BY <1>4, <1>5, <1>6, <1>7, <1>8 DEF ILager

\* A request that ends: of the others nothing is left to say when it was alone.
LEMMA LaEnde ==
  ASSUME ILager, NEW r \in LaAnfragen, auftrag[r].tut # "nichts", Schliesst(r), Bestellt \subseteq Bestellt'
  PROVE  /\ auftrag' \in [LaAnfragen -> AuftragRek] /\ neben' = neben /\ neben' \in 1..Cardinality(LaAnfragen)
         /\ gebucht' \in 0..MaxBuchungen /\ LaAllein' /\ LaEcht' /\ LaStand'
<1>1. auftrag \in [LaAnfragen -> AuftragRek] /\ neben \in 1..Cardinality(LaAnfragen) /\ gebucht \in 0..MaxBuchungen
  BY LaFakten DEF ILager
<1>2. /\ auftrag' \in [LaAnfragen -> AuftragRek] /\ auftrag'[r] = KeinAuftrag
      /\ \A q \in LaAnfragen \ {r} : auftrag'[q] = auftrag[q]
  BY <1>1, KeinFakten DEF Schliesst
<1>3. neben' = neben /\ gebucht' = gebucht
  BY DEF Schliesst
<1>4. LaAllein'
  BY <1>2, <1>3 DEF LaAllein, ILager
<1>5. LaEcht'
  <2>1. SUFFICES ASSUME NEW q \in LaAnfragen PROVE Echt(auftrag[q])'
    BY DEF LaEcht
  <2>2. CASE q = r
    BY <2>2, <1>2, KeinFakten DEF Echt
  <2>3. CASE q # r
    <3>1. auftrag'[q] = auftrag[q] /\ Echt(auftrag[q])
      BY <2>3, <1>2 DEF ILager, LaEcht
    <3>2. QED
      BY <3>1 DEF Echt
  <2>4. QED
    BY <2>2, <2>3
<1>6. LaStand'
  <2>1. SUFFICES ASSUME neben = 1, NEW q \in LaAnfragen PROVE StandGilt(auftrag[q])'
    BY <1>3 DEF LaStand
  <2>2. auftrag'[q] = KeinAuftrag
    BY <2>1, <1>2, KeinFakten DEF ILager, LaAllein
  <2>3. QED
    BY <2>2, KeinFakten DEF StandGilt, Buchungen
<1>7. QED
  BY <1>1, <1>2, <1>3, <1>4, <1>5, <1>6

\* The facts of a request about to write.
LEMMA LaVorhaben ==
  ASSUME ILager, NEW r \in LaAnfragen
  PROVE  /\ auftrag[r] \in AuftragRek /\ Echt(auftrag[r]) /\ (neben = 1 => StandGilt(auftrag[r]))
         /\ auftrag[r].von \in Orte \cup {Ohne} /\ auftrag[r].nach \in Orte \cup {Ohne}
         /\ auftrag[r].menge \in Nat /\ auftrag[r].las[1] \in Nat \cup {Ohne} /\ auftrag[r].las[2] \in Nat \cup {Ohne}
         /\ auftrag[r].b \in Bestellungen \cup {Ohne} /\ auftrag[r].wahl \in SUBSET Bedarfe
<1>1. auftrag[r] \in AuftragRek /\ Echt(auftrag[r]) /\ (neben = 1 => StandGilt(auftrag[r]))
  BY LaFakten DEF ILager, LaEcht, LaStand
<1>2. QED
  BY <1>1 DEF AuftragRek

-----------------------------------------------------------------------------
\* What a request reads before it writes.
LEMMA LesenGilt ==
  ASSUME ILager, NEW r \in LaAnfragen,
         \/ SetzenLesen(r) \/ VerwendenLesen(r) \/ UmlagernLesen(r)
         \/ BestellenLesen(r) \/ BedarfLoeschenLesen(r) \/ StatusLesen(r)
  PROVE  ILager'
<1>0. /\ bestand \in [Orte -> Nat \cup {Ohne}] /\ gebucht \in 0..MaxBuchungen /\ MaxBuchungen \in Nat
      /\ MaxBestand \in Nat /\ Ohne \notin Orte /\ Ohne \notin Nat /\ ZentralLager \in Orte
      /\ \A b \in Bestellt : b \in Bestellungen /\ bestellung[b] \in BestellRek
  BY LaFakten, LaAnnahme DEF ILager
<1>1. Bucht => gebucht' \in 0..MaxBuchungen
  BY <1>0 DEF Bucht
<1>2. gebucht' = gebucht => gebucht' \in 0..MaxBuchungen
  BY <1>0
<1>3. CASE SetzenLesen(r)
  <2>1. PICK o \in Orte : \E n \in 0..MaxBestand :
          /\ Nimmt(r, [KeinAuftrag EXCEPT !.tut = "setzen", !.nach = o, !.menge = n, !.las = <<Ohne, bestand[o]>>])
          /\ Bucht
    BY <1>3 DEF SetzenLesen
  <2>2. PICK n \in 0..MaxBestand :
          /\ Nimmt(r, [KeinAuftrag EXCEPT !.tut = "setzen", !.nach = o, !.menge = n, !.las = <<Ohne, bestand[o]>>])
          /\ Bucht
    BY <2>1
  <2> DEFINE p == [KeinAuftrag EXCEPT !.tut = "setzen", !.nach = o, !.menge = n, !.las = <<Ohne, bestand[o]>>]
  <2>0. n \in Nat /\ bestand[o] \in Nat \cup {Ohne}
    BY <1>0, <2>2
  <2>3. /\ p \in AuftragRek /\ p.tut = "setzen" /\ p.von = Ohne /\ p.nach = o /\ p.las[2] = bestand[o]
    BY <2>0, KeinFakten DEF KeinAuftrag, AuftragRek
  <2>4. Nimmt(r, p)
    BY <2>2
  <2> HIDE DEF p
  <2>5. Echt(p) /\ StandGilt(p)
    BY <1>0, <2>3 DEF Echt, StandGilt, Buchungen
  <2>6. QED
    BY <1>1, <2>2, <2>3, <2>4, <2>5, LaBeginn
<1>4. CASE VerwendenLesen(r)
  <2>1. PICK o \in Orte : \E n \in 1..Menge(bestand[o]) :
          /\ Nimmt(r, [KeinAuftrag EXCEPT !.tut = "verwenden", !.von = o, !.menge = n, !.las = <<bestand[o], Ohne>>])
          /\ Bucht
    BY <1>4 DEF VerwendenLesen
  <2>2. PICK n \in 1..Menge(bestand[o]) :
          /\ Nimmt(r, [KeinAuftrag EXCEPT !.tut = "verwenden", !.von = o, !.menge = n, !.las = <<bestand[o], Ohne>>])
          /\ Bucht
    BY <2>1
  <2> DEFINE p == [KeinAuftrag EXCEPT !.tut = "verwenden", !.von = o, !.menge = n, !.las = <<bestand[o], Ohne>>]
  <2>0. bestand[o] \in Nat /\ n \in Nat /\ n <= bestand[o]
    BY <1>0, <2>2 DEF Menge
  <2>3. /\ p \in AuftragRek /\ p.tut = "verwenden" /\ p.von = o /\ p.nach = Ohne /\ p.menge = n
        /\ p.las[1] = bestand[o]
    BY <1>0, <2>0, KeinFakten DEF KeinAuftrag, AuftragRek
  <2>4. Nimmt(r, p)
    BY <2>2
  <2> HIDE DEF p
  <2>5. Echt(p) /\ StandGilt(p)
    BY <1>0, <2>0, <2>3 DEF Echt, StandGilt, Buchungen
  <2>6. QED
    BY <1>1, <2>2, <2>3, <2>4, <2>5, LaBeginn
<1>5. CASE UmlagernLesen(r)
  <2>1. PICK o \in Orte, q \in Orte : \E n \in 1..Menge(bestand[o]) :
          /\ o # q
          /\ Nimmt(r, [KeinAuftrag EXCEPT !.tut = "umlagern", !.von = o, !.nach = q, !.menge = n,
                       !.las = <<bestand[o], bestand[q]>>])
          /\ Bucht
    BY <1>5 DEF UmlagernLesen
  <2>2. PICK n \in 1..Menge(bestand[o]) :
          /\ o # q
          /\ Nimmt(r, [KeinAuftrag EXCEPT !.tut = "umlagern", !.von = o, !.nach = q, !.menge = n,
                       !.las = <<bestand[o], bestand[q]>>])
          /\ Bucht
    BY <2>1
  <2> DEFINE p == [KeinAuftrag EXCEPT !.tut = "umlagern", !.von = o, !.nach = q, !.menge = n,
                       !.las = <<bestand[o], bestand[q]>>]
  <2>0. bestand[o] \in Nat /\ n \in Nat /\ n <= bestand[o]
    BY <1>0, <2>2 DEF Menge
  <2>3. /\ p \in AuftragRek /\ p.tut = "umlagern" /\ p.von = o /\ p.nach = q /\ p.menge = n
        /\ p.las[1] = bestand[o] /\ p.las[2] = bestand[q]
    BY <1>0, <2>0, KeinFakten DEF KeinAuftrag, AuftragRek
  <2>4. Nimmt(r, p) /\ o # q
    BY <2>2
  <2> HIDE DEF p
  <2>5. Echt(p) /\ StandGilt(p)
    BY <1>0, <2>0, <2>3, <2>4 DEF Echt, StandGilt, Buchungen
  <2>6. QED
    BY <1>1, <2>2, <2>3, <2>4, <2>5, LaBeginn
<1>6. CASE BestellenLesen(r)
  <2>1. PICK w \in (SUBSET Bedarfe) \ {{}} :
          /\ \A d \in w : bedarf[d].status = "offen"
          /\ Nimmt(r, [KeinAuftrag EXCEPT !.tut = "bestellen", !.wahl = w]) /\ UNCHANGED gebucht
    BY <1>6 DEF BestellenLesen
  <2> DEFINE p == [KeinAuftrag EXCEPT !.tut = "bestellen", !.wahl = w]
  <2>3. p \in AuftragRek /\ p.tut = "bestellen" /\ p.wahl = w
    BY <1>0, KeinFakten DEF KeinAuftrag, AuftragRek
  <2>4. Nimmt(r, p)
    BY <2>1
  <2> HIDE DEF p
  <2>5. Echt(p) /\ StandGilt(p)
    BY <2>1, <2>3 DEF Echt, StandGilt, Buchungen
  <2>6. QED
    BY <1>2, <2>1, <2>3, <2>4, <2>5, LaBeginn
<1>7. CASE BedarfLoeschenLesen(r)
  <2>1. PICK d \in Bedarfe : Nimmt(r, [KeinAuftrag EXCEPT !.tut = "bedarf_loeschen", !.wahl = {d}]) /\ UNCHANGED gebucht
    BY <1>7 DEF BedarfLoeschenLesen
  <2> DEFINE p == [KeinAuftrag EXCEPT !.tut = "bedarf_loeschen", !.wahl = {d}]
  <2>2. {d} \in SUBSET Bedarfe
    OBVIOUS
  <2>3. p \in AuftragRek /\ p.tut = "bedarf_loeschen"
    BY <1>0, <2>2, KeinFakten DEF KeinAuftrag, AuftragRek
  <2>4. Nimmt(r, p)
    BY <2>1
  <2> HIDE DEF p
  <2>5. Echt(p) /\ StandGilt(p)
    BY <2>3 DEF Echt, StandGilt, Buchungen
  <2>6. QED
    BY <1>2, <2>1, <2>3, <2>4, <2>5, LaBeginn
<1>8. CASE StatusLesen(r)
  <2>1. PICK b \in Bestellt, e \in BOOLEAN :
        /\ bestellung[b].status \in (IF e THEN {"entwurf", "bestellt"} ELSE {"entwurf"})
        /\ Nimmt(r, [KeinAuftrag EXCEPT !.tut = "status", !.b = b,
                       !.nach = IF e THEN ZentralLager ELSE Ohne,
                       !.menge = bestellung[b].menge,
                       !.las = <<Ohne, IF e THEN bestand[ZentralLager] ELSE Ohne>>])
        /\ UNCHANGED gebucht
    BY <1>8 DEF StatusLesen
  <2> DEFINE p == [KeinAuftrag EXCEPT !.tut = "status", !.b = b,
                       !.nach = IF e THEN ZentralLager ELSE Ohne,
                       !.menge = bestellung[b].menge,
                       !.las = <<Ohne, IF e THEN bestand[ZentralLager] ELSE Ohne>>]
  <2>2. /\ bestellung[b].menge \in Nat /\ b \in Bestellungen
        /\ (IF e THEN ZentralLager ELSE Ohne) \in Orte \cup {Ohne}
        /\ (IF e THEN bestand[ZentralLager] ELSE Ohne) \in Nat \cup {Ohne}
    BY <1>0 DEF BestellRek
  <2>3. /\ p \in AuftragRek /\ p.tut = "status" /\ p.von = Ohne /\ p.b = b
        /\ p.nach = (IF e THEN ZentralLager ELSE Ohne)
        /\ p.las[2] = (IF e THEN bestand[ZentralLager] ELSE Ohne)
    BY <1>0, <2>2, KeinFakten DEF KeinAuftrag, AuftragRek
  <2>4. Nimmt(r, p) /\ bestellung[b].status \in {"entwurf", "bestellt"}
    BY <2>1
  <2> HIDE DEF p
  <2>5. Echt(p) /\ StandGilt(p)
    BY <1>0, <2>3, <2>4 DEF Echt, StandGilt, Buchungen
  <2>6. QED
    BY <1>2, <2>1, <2>3, <2>4, <2>5, LaBeginn
<1>9. QED
  BY <1>3, <1>4, <1>5, <1>6, <1>7, <1>8

-----------------------------------------------------------------------------
\* A booking writes stock and movement together.
LEMMA BuchungGilt ==
  ASSUME ILager, NEW r \in LaAnfragen, BuchungSchreiben(r)
  PROVE  ILager'
<1> DEFINE p == auftrag[r]
<1>0. /\ bestand \in [Orte -> Nat \cup {Ohne}] /\ bewegt \in [Orte -> Int]
      /\ bestellung \in [Bestellungen -> {NichtBestellt} \cup BestellRek]
      /\ bedarf \in [Bedarfe -> BedarfRek] /\ Ohne \notin Nat /\ Ohne \notin Orte
  BY LaFakten, LaAnnahme DEF ILager
<1>1. /\ p \in AuftragRek /\ Echt(p) /\ (neben = 1 => StandGilt(p))
      /\ p.von \in Orte \cup {Ohne} /\ p.nach \in Orte \cup {Ohne}
      /\ p.menge \in Nat /\ p.las[1] \in Nat \cup {Ohne} /\ p.las[2] \in Nat \cup {Ohne}
  BY LaVorhaben
<1>2. /\ p.tut \in {"setzen", "verwenden", "umlagern"} /\ Schliesst(r)
      /\ bestellung' = bestellung /\ bedarf' = bedarf
  BY DEF BuchungSchreiben
<1>3. \/ bestand' = [o \in Orte |-> NeuBestand(o, p)] /\ bewegt' = [o \in Orte |-> NeuBewegt(o, p)]
      \/ bestand' = bestand /\ bewegt' = bewegt
  BY DEF BuchungSchreiben
<1>4. Bestellt' = Bestellt
  BY <1>2 DEF Bestellt
<1>5. /\ auftrag' \in [LaAnfragen -> AuftragRek] /\ neben' = neben /\ neben' \in 1..Cardinality(LaAnfragen)
      /\ gebucht' \in 0..MaxBuchungen /\ LaAllein' /\ LaEcht' /\ LaStand'
  BY <1>2, <1>4, LaEnde
<1> HIDE DEF p
<1>6. \A x \in Nat \cup {Ohne} : Menge(x) \in Nat /\ (x \in Nat => Menge(x) = x)
  BY MengeNat
<1>7. \A o \in Orte : NeuBestand(o, p) \in Nat \cup {Ohne} /\ NeuBewegt(o, p) \in Int
  <2> SUFFICES ASSUME NEW o \in Orte PROVE NeuBestand(o, p) \in Nat \cup {Ohne} /\ NeuBewegt(o, p) \in Int
    OBVIOUS
  <2>1. bewegt[o] \in Int /\ bestand[o] \in Nat \cup {Ohne} /\ Menge(p.las[2]) \in Nat
    BY <1>0, <1>1, <1>6
  <2>2. NeuBewegt(o, p) \in Int
    BY <2>1, <1>1 DEF NeuBewegt
  <2>3. o = p.von => p.tut \in {"verwenden", "umlagern"}
    BY <1>0, <1>1, <1>2 DEF Echt
  <2>4. o = p.von => p.las[1] - p.menge \in Nat
    BY <2>3, <1>1 DEF Echt
  <2>5. NeuBestand(o, p) \in Nat \cup {Ohne}
    BY <2>1, <2>4, <1>1 DEF NeuBestand
  <2>6. QED
    BY <2>2, <2>5
<1>8. bestand' \in [Orte -> Nat \cup {Ohne}] /\ bewegt' \in [Orte -> Int]
  BY <1>0, <1>3, <1>7
<1>9. LaTyp'
  BY <1>0, <1>2, <1>5, <1>8, LaTypAus
<1>10. BestandGilt'
  <2>1. SUFFICES ASSUME neben = 1, NEW o \in Orte PROVE Menge(bestand'[o]) = bewegt'[o]
    BY <1>5 DEF BestandGilt, BestandFolgtBewegungen, Menge
  <2>2. /\ Menge(bestand[o]) = bewegt[o] /\ bewegt[o] \in Int /\ bestand[o] \in Nat \cup {Ohne}
        /\ Menge(p.las[2]) \in Nat
    BY <2>1, <1>0, <1>1, <1>6 DEF ILager, BestandGilt, BestandFolgtBewegungen
  <2>3. CASE bestand' = bestand /\ bewegt' = bewegt
    BY <2>2, <2>3
  <2>4. CASE bestand' = [x \in Orte |-> NeuBestand(x, p)] /\ bewegt' = [x \in Orte |-> NeuBewegt(x, p)]
    <3>1. bestand'[o] = NeuBestand(o, p) /\ bewegt'[o] = NeuBewegt(o, p)
      BY <2>4
    <3>2. CASE o = p.von
      <4>1. p.tut \in {"verwenden", "umlagern"} /\ p.las[1] \in Nat /\ p.menge <= p.las[1] /\ p.nach # o
        BY <3>2, <1>0, <1>1, <1>2 DEF Echt
      <4>2. p.las[1] = bestand[o]
        BY <2>1, <3>2, <4>1, <1>1 DEF StandGilt, Buchungen
      <4>3. bewegt[o] = bestand[o]
        BY <2>2, <4>1, <4>2, <1>6
      <4>4. NeuBestand(o, p) = p.las[1] - p.menge /\ NeuBewegt(o, p) = bewegt[o] - p.menge
        BY <3>2, <4>1, <1>1, <2>2 DEF NeuBestand, NeuBewegt
      <4>5. p.las[1] - p.menge \in Nat
        BY <4>1, <1>1
      <4>6. QED
        BY <3>1, <4>2, <4>3, <4>4, <4>5, <1>6
    <3>3. CASE o # p.von /\ o = p.nach
      <4>1. p.tut \in {"setzen", "umlagern"}
        BY <3>3, <1>0, <1>1, <1>2 DEF Echt
      <4>2. p.las[2] = bestand[o]
        BY <2>1, <3>3, <1>1, <1>2 DEF StandGilt, Buchungen
      <4>3. CASE p.tut = "setzen"
        <5>1. NeuBewegt(o, p) = p.menge
          BY <3>3, <4>2, <4>3, <1>1, <2>2 DEF NeuBewegt
        <5>2. NeuBestand(o, p) = p.menge
          BY <3>3, <4>2, <4>3, <1>1 DEF NeuBestand
        <5>3. QED
          BY <3>1, <5>1, <5>2, <1>1, <1>6
      <4>4. CASE p.tut = "umlagern"
        <5>1. NeuBewegt(o, p) = bewegt[o] + p.menge
          BY <3>3, <4>4, <1>1, <2>2 DEF NeuBewegt
        <5>2. NeuBestand(o, p) = Menge(p.las[2]) + p.menge
          BY <3>3, <4>4 DEF NeuBestand
        <5>3. NeuBestand(o, p) \in Nat
          BY <5>2, <1>1, <2>2
        <5>4. QED
          BY <3>1, <5>1, <5>2, <5>3, <4>2, <2>2, <1>6
      <4>5. QED
        BY <4>1, <4>3, <4>4
    <3>4. CASE o # p.von /\ o # p.nach
      BY <3>1, <3>4, <2>2 DEF NeuBestand, NeuBewegt
    <3>5. QED
      BY <3>2, <3>3, <3>4
  <2>5. QED
    BY <1>3, <2>3, <2>4
<1>11. BedarfGilt'
  BY <1>2, <1>4, <1>5 DEF ILager, BedarfGilt
<1>12. MengeGilt'
  <2>1. \A b : BedarfeVon(b)' = BedarfeVon(b)
    BY <1>2 DEF BedarfeVon
  <2>2. \A b : MengeVon(BedarfeVon(b))' = MengeVon(BedarfeVon(b)')
    OBVIOUS
  <2>3. QED
    BY <1>2, <1>4, <1>5, <2>1, <2>2 DEF ILager, MengeGilt
<1>13. QED
  BY <1>5, <1>9, <1>10, <1>11, <1>12 DEF ILager

-----------------------------------------------------------------------------
\* The part of the argument every write to the orders shares: a stock that is
\* left alone stays the sum of its movements.
LEMMA MengeBleibt ==
  ASSUME ILager, neben' = neben, Bestellt' = Bestellt, \A d \in Bedarfe : bedarf'[d].bestellung = bedarf[d].bestellung,
         \A b \in Bestellt : bestellung'[b].menge = bestellung[b].menge
  PROVE  MengeGilt'
<1>1. \A b : BedarfeVon(b)' = BedarfeVon(b)
  BY DEF BedarfeVon
<1>2. \A b : MengeVon(BedarfeVon(b))' = MengeVon(BedarfeVon(b)')
  OBVIOUS
<1>3. QED
  BY <1>1, <1>2 DEF ILager, MengeGilt

\* One order for the chosen requests.
LEMMA BestellenGilt ==
  ASSUME ILager, NEW r \in LaAnfragen, BestellenSchreiben(r)
  PROVE  ILager'
<1>0. /\ bestand \in [Orte -> Nat \cup {Ohne}] /\ bewegt \in [Orte -> Int]
      /\ bestellung \in [Bestellungen -> {NichtBestellt} \cup BestellRek]
      /\ bedarf \in [Bedarfe -> BedarfRek] /\ Ohne \notin Bestellungen
      /\ \A b \in Bestellt : b \in Bestellungen
  BY LaFakten, LaAnnahme DEF ILager
<1>1. /\ auftrag[r].tut = "bestellen" /\ Schliesst(r) /\ bestand' = bestand /\ bewegt' = bewegt
  BY DEF BestellenSchreiben
<1> DEFINE W == auftrag[r].wahl
<1>2. PICK b \in Bestellungen \ Bestellt :
         /\ bestellung' = [bestellung EXCEPT ![b] = [status |-> "entwurf", geloescht |-> FALSE,
                              menge |-> MengeVon(W)]]
         /\ bedarf' = [d \in Bedarfe |-> IF d \in W
                         THEN [bedarf[d] EXCEPT !.status = "bestellt", !.bestellung = b] ELSE bedarf[d]]
  BY DEF BestellenSchreiben, MengeVon
<1>3. W \in SUBSET Bedarfe /\ (neben = 1 => \A d \in W : bedarf[d].status = "offen")
  BY <1>1, LaVorhaben DEF StandGilt
<1> DEFINE neu == [status |-> "entwurf", geloescht |-> FALSE, menge |-> MengeVon(W)]
<1>4. neu \in BestellRek /\ neu.status = "entwurf" /\ neu.menge = MengeVon(W)
  <2>1. FALSE \in BOOLEAN
    OBVIOUS
  <2>2. MengeVon(W) \in Nat
    BY <1>3, BedarfSumme
  <2> HIDE DEF W
  <2>3. QED
    BY <2>1, <2>2 DEF BestellRek
<1>5. bestellung' = [bestellung EXCEPT ![b] = neu]
  BY <1>2
<1> HIDE DEF neu, W
<1>6. /\ bestellung' \in [Bestellungen -> {NichtBestellt} \cup BestellRek] /\ bestellung'[b] = neu
      /\ \A x \in Bestellungen \ {b} : bestellung'[x] = bestellung[x]
  BY <1>0, <1>4, <1>5
<1>7. Bestellt' = Bestellt \cup {b} /\ b \notin Bestellt
  BY <1>2, <1>4, <1>6, BestelltDa DEF Bestellt
<1>8. /\ bedarf' \in [Bedarfe -> BedarfRek]
      /\ \A d \in W : bedarf'[d].status = "bestellt" /\ bedarf'[d].bestellung = b
      /\ \A d \in Bedarfe \ W : bedarf'[d] = bedarf[d]
  <2>1. ASSUME NEW d \in Bedarfe
        PROVE  LET z == [bedarf[d] EXCEPT !.status = "bestellt", !.bestellung = b]
               IN z \in BedarfRek /\ z.status = "bestellt" /\ z.bestellung = b
    BY <1>0 DEF BedarfRek
  <2>2. QED
    BY <1>0, <1>2, <1>3, <2>1
<1>9. /\ auftrag' \in [LaAnfragen -> AuftragRek] /\ neben' = neben /\ neben' \in 1..Cardinality(LaAnfragen)
      /\ gebucht' \in 0..MaxBuchungen /\ LaAllein' /\ LaEcht' /\ LaStand'
  BY <1>1, <1>7, LaEnde
<1>10. LaTyp'
  BY <1>0, <1>1, <1>6, <1>8, <1>9, LaTypAus
<1>11. BestandGilt'
  BY <1>1, <1>9 DEF ILager, BestandGilt, BestandFolgtBewegungen
<1>12. BedarfGilt'
  <2>1. SUFFICES ASSUME neben = 1, NEW d \in Bedarfe
                 PROVE  /\ bedarf'[d].status = "offen" => bedarf'[d].bestellung = Ohne
                        /\ bedarf'[d].status = "bestellt" =>
                             bedarf'[d].bestellung \in Bestellt' /\ bestellung'[bedarf'[d].bestellung].status # "eingegangen"
                        /\ bedarf'[d].status = "erhalten" =>
                             bedarf'[d].bestellung \in Bestellt' /\ bestellung'[bedarf'[d].bestellung].status = "eingegangen"
    BY <1>9 DEF BedarfGilt
  <2>2. CASE d \in W
    BY <2>2, <1>4, <1>6, <1>7, <1>8
  <2>3. CASE d \notin W
    <3>1. bedarf'[d] = bedarf[d]
      BY <2>3, <1>8
    <3>2. \A x \in Bestellt : bestellung'[x] = bestellung[x] /\ x \in Bestellt'
      BY <1>0, <1>6, <1>7
    <3>3. QED
      BY <2>1, <3>1, <3>2 DEF ILager, BedarfGilt
  <2>4. QED
    BY <2>2, <2>3
<1>13. MengeGilt'
  <2>1. SUFFICES ASSUME neben = 1, NEW x \in Bestellt'
                 PROVE  bestellung'[x].menge = MengeVon(BedarfeVon(x)')
    BY <1>9 DEF MengeGilt
  \* No request in W belonged to an order, and none belonged to b.
  <2>2. \A d \in W : bedarf[d].bestellung = Ohne
    BY <2>1, <1>3 DEF ILager, BedarfGilt
  <2>3. \A d \in Bedarfe : bedarf[d].bestellung # b
    BY <2>1, <1>0, <1>2, <1>7, LaFakten DEF ILager, BedarfGilt, BedarfRek
  <2>4. CASE x = b
    <3>1. BedarfeVon(x)' = W
      BY <2>3, <2>4, <1>3, <1>8 DEF BedarfeVon
    <3>2. QED
      BY <3>1, <2>4, <1>4, <1>6
  <2>5. CASE x # b
    <3>1. x \in Bestellt /\ x \in Bestellungen /\ bestellung'[x] = bestellung[x]
      BY <2>1, <2>5, <1>0, <1>6, <1>7
    <3>2. BedarfeVon(x)' = BedarfeVon(x)
      BY <2>2, <2>5, <3>1, <1>0, <1>3, <1>8 DEF BedarfeVon
    <3>3. QED
      BY <2>1, <3>1, <3>2 DEF ILager, MengeGilt
  <2>6. QED
    BY <2>4, <2>5
<1>14. QED
  BY <1>9, <1>10, <1>11, <1>12, <1>13 DEF ILager

\* A request is put into the recycle bin.
LEMMA BedarfLoeschenGilt ==
  ASSUME ILager, NEW r \in LaAnfragen, BedarfLoeschenSchreiben(r)
  PROVE  ILager'
<1>0. /\ bestand \in [Orte -> Nat \cup {Ohne}] /\ bewegt \in [Orte -> Int]
      /\ bestellung \in [Bestellungen -> {NichtBestellt} \cup BestellRek]
      /\ bedarf \in [Bedarfe -> BedarfRek]
  BY LaFakten DEF ILager
<1>1. /\ auftrag[r].tut = "bedarf_loeschen" /\ Schliesst(r) /\ bestand' = bestand /\ bewegt' = bewegt
      /\ bestellung' = bestellung /\ Bestellt' = Bestellt
  BY DEF BedarfLoeschenSchreiben, Bestellt
<1>2. bedarf' = [d \in Bedarfe |-> IF d \in auftrag[r].wahl
                    THEN [bedarf[d] EXCEPT !.geloescht = TRUE] ELSE bedarf[d]]
  BY DEF BedarfLoeschenSchreiben
<1>3. ASSUME NEW d \in Bedarfe
      PROVE  LET z == [bedarf[d] EXCEPT !.geloescht = TRUE]
             IN z \in BedarfRek /\ z.status = bedarf[d].status /\ z.bestellung = bedarf[d].bestellung
  <2>1. TRUE \in BOOLEAN
    OBVIOUS
  <2>2. QED
    BY <1>0, <2>1 DEF BedarfRek
<1>4. /\ bedarf' \in [Bedarfe -> BedarfRek]
      /\ \A d \in Bedarfe : bedarf'[d].status = bedarf[d].status /\ bedarf'[d].bestellung = bedarf[d].bestellung
  BY <1>0, <1>2, <1>3
<1>5. /\ auftrag' \in [LaAnfragen -> AuftragRek] /\ neben' = neben /\ neben' \in 1..Cardinality(LaAnfragen)
      /\ gebucht' \in 0..MaxBuchungen /\ LaAllein' /\ LaEcht' /\ LaStand'
  BY <1>1, LaEnde
<1>6. LaTyp'
  BY <1>0, <1>1, <1>4, <1>5, LaTypAus
<1>7. BestandGilt'
  BY <1>1, <1>5 DEF ILager, BestandGilt, BestandFolgtBewegungen
<1>8. BedarfGilt'
  BY <1>1, <1>4, <1>5 DEF ILager, BedarfGilt
<1>9. MengeGilt'
  BY <1>1, <1>4, <1>5, MengeBleibt
<1>10. QED
  BY <1>5, <1>6, <1>7, <1>8, <1>9 DEF ILager

\* An order goes into the recycle bin or comes back; a request that is under
\* way does not ask.
LEMMA PapierkorbGilt ==
  ASSUME ILager, BestellungPapierkorb PROVE ILager'
<1>0. /\ bestand \in [Orte -> Nat \cup {Ohne}] /\ bewegt \in [Orte -> Int]
      /\ bestellung \in [Bestellungen -> {NichtBestellt} \cup BestellRek]
      /\ bedarf \in [Bedarfe -> BedarfRek] /\ auftrag \in [LaAnfragen -> AuftragRek]
      /\ gebucht \in 0..MaxBuchungen /\ neben \in 1..Cardinality(LaAnfragen)
      /\ \A b \in Bestellt : b \in Bestellungen /\ bestellung[b] \in BestellRek
  BY LaFakten DEF ILager
<1>1. /\ bestand' = bestand /\ bewegt' = bewegt /\ bedarf' = bedarf /\ auftrag' = auftrag
      /\ gebucht' = gebucht /\ neben' = neben
  BY DEF BestellungPapierkorb
<1>2. PICK b \in Bestellt : bestellung' = [bestellung EXCEPT ![b].geloescht = ~@]
  BY DEF BestellungPapierkorb
<1> DEFINE neu == [bestellung[b] EXCEPT !.geloescht = ~@]
<1>3. neu \in BestellRek /\ neu.status = bestellung[b].status /\ neu.menge = bestellung[b].menge
  <2>1. (~bestellung[b].geloescht) \in BOOLEAN
    OBVIOUS
  <2>2. QED
    BY <1>0, <2>1 DEF BestellRek
<1>4. bestellung' = [bestellung EXCEPT ![b] = neu]
  BY <1>0, <1>2
<1> HIDE DEF neu
<1>5. /\ bestellung' \in [Bestellungen -> {NichtBestellt} \cup BestellRek] /\ bestellung'[b] = neu
      /\ \A x \in Bestellungen \ {b} : bestellung'[x] = bestellung[x]
  BY <1>0, <1>3, <1>4
<1>6. Bestellt' = Bestellt
  BY <1>2, <1>3, <1>5, BestelltDa DEF Bestellt
<1>7. \A x \in Bestellt : bestellung'[x].status = bestellung[x].status /\ bestellung'[x].menge = bestellung[x].menge
  BY <1>0, <1>3, <1>5
<1>8. LaTyp'
  BY <1>0, <1>1, <1>5, LaTypAus
<1>9. LaAllein' /\ BestandGilt'
  BY <1>1 DEF ILager, LaAllein, BestandGilt, BestandFolgtBewegungen
<1>10. LaEcht'
  <2>1. \A r \in LaAnfragen : Echt(auftrag[r])
    BY DEF ILager, LaEcht
  <2>2. QED
    BY <2>1, <1>1, <1>6 DEF LaEcht, Echt
<1>11. LaStand'
  <2>1. \A r \in LaAnfragen : Echt(auftrag[r]) /\ (neben = 1 => StandGilt(auftrag[r]))
    BY DEF ILager, LaEcht, LaStand
  <2>2. \A r \in LaAnfragen : auftrag[r].tut = "status" => auftrag[r].b \in Bestellt
    BY <2>1 DEF Echt
  <2>3. QED
    BY <2>1, <2>2, <1>1, <1>7 DEF LaStand, StandGilt
<1>12. BedarfGilt'
  BY <1>1, <1>6, <1>7 DEF ILager, BedarfGilt
<1>13. MengeGilt'
  BY <1>1, <1>6, <1>7, MengeBleibt
<1>14. QED
  BY <1>8, <1>9, <1>10, <1>11, <1>12, <1>13 DEF ILager

-----------------------------------------------------------------------------
\* An order is sent off.
LEMMA StatusGilt ==
  ASSUME ILager, NEW r \in LaAnfragen, StatusSchreiben(r)
  PROVE  ILager'
<1> DEFINE b == auftrag[r].b
<1>0. /\ bestand \in [Orte -> Nat \cup {Ohne}] /\ bewegt \in [Orte -> Int]
      /\ bestellung \in [Bestellungen -> {NichtBestellt} \cup BestellRek]
      /\ bedarf \in [Bedarfe -> BedarfRek]
      /\ \A x \in Bestellt : x \in Bestellungen /\ bestellung[x] \in BestellRek
  BY LaFakten DEF ILager
<1>1. /\ auftrag[r].tut = "status" /\ Schliesst(r) /\ bestand' = bestand /\ bewegt' = bewegt /\ bedarf' = bedarf
      /\ bestellung' = [bestellung EXCEPT ![b].status = "bestellt"]
  BY DEF StatusSchreiben
<1>2. b \in Bestellt /\ (neben = 1 => bestellung[b].status # "eingegangen")
  BY <1>1, LaVorhaben DEF Echt, StandGilt
<1> HIDE DEF b
<1> DEFINE neu == [bestellung[b] EXCEPT !.status = "bestellt"]
<1>3. neu \in BestellRek /\ neu.status = "bestellt" /\ neu.menge = bestellung[b].menge
  BY <1>0, <1>2 DEF BestellRek
<1>4. bestellung' = [bestellung EXCEPT ![b] = neu]
  BY <1>0, <1>1, <1>2
<1> HIDE DEF neu
<1>5. /\ bestellung' \in [Bestellungen -> {NichtBestellt} \cup BestellRek] /\ bestellung'[b] = neu
      /\ \A x \in Bestellungen \ {b} : bestellung'[x] = bestellung[x]
  BY <1>0, <1>2, <1>3, <1>4
<1>6. Bestellt' = Bestellt
  BY <1>2, <1>3, <1>5, BestelltDa DEF Bestellt
<1>7. \A x \in Bestellt : bestellung'[x].menge = bestellung[x].menge
  BY <1>0, <1>3, <1>5
<1>8. /\ auftrag' \in [LaAnfragen -> AuftragRek] /\ neben' = neben /\ neben' \in 1..Cardinality(LaAnfragen)
      /\ gebucht' \in 0..MaxBuchungen /\ LaAllein' /\ LaEcht' /\ LaStand'
  BY <1>1, <1>6, LaEnde
<1>9. LaTyp'
  BY <1>0, <1>1, <1>5, <1>8, LaTypAus
<1>10. BestandGilt'
  BY <1>1, <1>8 DEF ILager, BestandGilt, BestandFolgtBewegungen
<1>11. BedarfGilt'
  <2>1. neben = 1 => \A x \in Bestellt :
          (bestellung'[x].status = "eingegangen") <=> (bestellung[x].status = "eingegangen")
    BY <1>0, <1>2, <1>3, <1>5
  <2>2. QED
    BY <2>1, <1>1, <1>6, <1>8 DEF ILager, BedarfGilt
<1>12. MengeGilt'
  BY <1>1, <1>6, <1>7, <1>8, MengeBleibt
<1>13. QED
  BY <1>8, <1>9, <1>10, <1>11, <1>12 DEF ILager

\* An order is received: stock, movement, order and its requests in one commit.
LEMMA WareneingangGilt ==
  ASSUME ILager, NEW r \in LaAnfragen, WareneingangSchreiben(r)
  PROVE  ILager'
<1> DEFINE p == auftrag[r]  b == auftrag[r].b
<1>0. /\ bestand \in [Orte -> Nat \cup {Ohne}] /\ bewegt \in [Orte -> Int]
      /\ bestellung \in [Bestellungen -> {NichtBestellt} \cup BestellRek]
      /\ bedarf \in [Bedarfe -> BedarfRek] /\ Ohne \notin Nat
      /\ \A x \in Bestellt : x \in Bestellungen /\ bestellung[x] \in BestellRek
  BY LaFakten, LaAnnahme DEF ILager
<1>1. p.tut = "status" /\ p.nach # Ohne /\ Schliesst(r)
  BY DEF WareneingangSchreiben
<1>2. /\ b \in Bestellt /\ p.nach \in Orte /\ p.menge \in Nat /\ p.las[2] \in Nat \cup {Ohne}
      /\ (neben = 1 => bestellung[b].status # "eingegangen" /\ p.las[2] = bestand[p.nach])
  BY <1>1, LaVorhaben DEF Echt, StandGilt
<1>3. CASE UNCHANGED <<bestellung, bestand, bewegt, bedarf>>
  <2>1. Bestellt' = Bestellt
    BY <1>3 DEF Bestellt
  <2>2. /\ auftrag' \in [LaAnfragen -> AuftragRek] /\ neben' = neben /\ neben' \in 1..Cardinality(LaAnfragen)
        /\ gebucht' \in 0..MaxBuchungen /\ LaAllein' /\ LaEcht' /\ LaStand'
    BY <1>1, <2>1, LaEnde
  <2>3. LaTyp'
    BY <1>0, <1>3, <2>2, LaTypAus
  <2>4. MengeGilt'
    BY <1>3, <2>1, <2>2, MengeBleibt
  <2>5. BestandGilt' /\ BedarfGilt'
    BY <1>3, <2>1, <2>2 DEF ILager, BestandGilt, BestandFolgtBewegungen, BedarfGilt
  <2>6. QED
    BY <2>2, <2>3, <2>4, <2>5 DEF ILager
<1>4. CASE /\ bestellung' = [bestellung EXCEPT ![b].status = "eingegangen"]
           /\ bestand' = [bestand EXCEPT ![p.nach] = Menge(p.las[2]) + p.menge]
           /\ bewegt' = [bewegt EXCEPT ![p.nach] = @ + p.menge]
           /\ bedarf' = [d \in Bedarfe |-> IF bedarf[d].bestellung = b
                            THEN [bedarf[d] EXCEPT !.status = "erhalten"] ELSE bedarf[d]]
  <2> HIDE DEF p, b
  <2> DEFINE neu == [bestellung[b] EXCEPT !.status = "eingegangen"]  m == Menge(p.las[2]) + p.menge
  <2>1. neu \in BestellRek /\ neu.status = "eingegangen" /\ neu.menge = bestellung[b].menge
    BY <1>0, <1>2 DEF BestellRek
  <2>2. bestellung' = [bestellung EXCEPT ![b] = neu] /\ bestand' = [bestand EXCEPT ![p.nach] = m]
    BY <1>0, <1>2, <1>4
  <2>3. m \in Nat
    <3>1. Menge(p.las[2]) \in Nat
      BY <1>2, MengeNat
    <3>2. QED
      BY <3>1, <1>2
  <2>4. neben = 1 => m = bewegt[p.nach] + p.menge /\ \A o \in Orte : Menge(bestand[o]) = bewegt[o]
    BY <1>0, <1>2 DEF ILager, BestandGilt, BestandFolgtBewegungen
  <2> HIDE DEF neu, m
  <2>5. /\ bestellung' \in [Bestellungen -> {NichtBestellt} \cup BestellRek] /\ bestellung'[b] = neu
        /\ \A x \in Bestellungen \ {b} : bestellung'[x] = bestellung[x]
    BY <1>0, <1>2, <2>1, <2>2
  <2>6. Bestellt' = Bestellt
    BY <1>2, <2>1, <2>5, BestelltDa DEF Bestellt
  <2>7. \A x \in Bestellt : bestellung'[x].menge = bestellung[x].menge
    BY <1>0, <2>1, <2>5
  <2>8. /\ bedarf' \in [Bedarfe -> BedarfRek]
        /\ \A d \in Bedarfe : /\ bedarf'[d].bestellung = bedarf[d].bestellung
                              /\ bedarf'[d].status = IF bedarf[d].bestellung = b THEN "erhalten" ELSE bedarf[d].status
    <3>1. ASSUME NEW d \in Bedarfe
          PROVE  LET z == [bedarf[d] EXCEPT !.status = "erhalten"]
                 IN z \in BedarfRek /\ z.status = "erhalten" /\ z.bestellung = bedarf[d].bestellung
      BY <1>0 DEF BedarfRek
    <3>2. QED
      BY <1>0, <1>4, <3>1
  <2>9. bestand' \in [Orte -> Nat \cup {Ohne}] /\ bewegt' \in [Orte -> Int]
    BY <1>0, <1>2, <1>4, <2>2, <2>3
  <2>10. /\ auftrag' \in [LaAnfragen -> AuftragRek] /\ neben' = neben /\ neben' \in 1..Cardinality(LaAnfragen)
         /\ gebucht' \in 0..MaxBuchungen /\ LaAllein' /\ LaEcht' /\ LaStand'
    BY <1>1, <2>6, LaEnde DEF p
  <2>11. LaTyp'
    BY <2>5, <2>8, <2>9, <2>10, LaTypAus
  <2>12. BestandGilt'
    <3>1. SUFFICES ASSUME neben = 1, NEW o \in Orte PROVE Menge(bestand'[o]) = bewegt'[o]
      BY <2>10 DEF BestandGilt, BestandFolgtBewegungen, Menge
    <3>2. CASE o = p.nach
      BY <3>1, <3>2, <1>0, <1>4, <2>2, <2>3, <2>4, MengeNat
    <3>3. CASE o # p.nach
      BY <3>1, <3>3, <1>0, <1>4, <2>2, <2>4
    <3>4. QED
      BY <3>2, <3>3
  <2>13. BedarfGilt'
    <3>1. SUFFICES ASSUME neben = 1, NEW d \in Bedarfe
                   PROVE  /\ bedarf'[d].status = "offen" => bedarf'[d].bestellung = Ohne
                          /\ bedarf'[d].status = "bestellt" =>
                             bedarf'[d].bestellung \in Bestellt' /\ bestellung'[bedarf'[d].bestellung].status # "eingegangen"
                          /\ bedarf'[d].status = "erhalten" =>
                             bedarf'[d].bestellung \in Bestellt' /\ bestellung'[bedarf'[d].bestellung].status = "eingegangen"
      BY <2>10 DEF BedarfGilt
    <3>2. CASE bedarf[d].bestellung = b
      BY <3>2, <1>2, <2>1, <2>5, <2>6, <2>8
    <3>3. CASE bedarf[d].bestellung # b
      <4>1. bedarf'[d].status = bedarf[d].status /\ bedarf'[d].bestellung = bedarf[d].bestellung
        BY <3>3, <2>8
      <4>2. \A x \in Bestellt : x # b => bestellung'[x] = bestellung[x]
        BY <1>0, <2>5
      <4>3. QED
        BY <3>1, <3>3, <4>1, <4>2, <2>6 DEF ILager, BedarfGilt
    <3>4. QED
      BY <3>2, <3>3
  <2>14. MengeGilt'
    BY <2>6, <2>7, <2>8, <2>10, MengeBleibt
  <2>15. QED
    BY <2>10, <2>11, <2>12, <2>13, <2>14 DEF ILager
<1>5. QED
  BY <1>3, <1>4 DEF WareneingangSchreiben

LEMMA LaSchritt == ILager /\ [LaNext]_laVars => ILager'
<1> SUFFICES ASSUME ILager, [LaNext]_laVars PROVE ILager'
  OBVIOUS
<1>1. CASE UNCHANGED laVars
  <2>1. /\ bestand' = bestand /\ bewegt' = bewegt /\ bestellung' = bestellung /\ bedarf' = bedarf
        /\ auftrag' = auftrag /\ gebucht' = gebucht /\ neben' = neben /\ Bestellt' = Bestellt
    BY <1>1 DEF laVars, Bestellt
  <2>2. MengeGilt'
    BY <2>1, MengeBleibt
  <2>3. LaTyp'
    BY <2>1 DEF ILager, LaTyp
  <2>4. LaEcht' /\ LaStand'
    BY <2>1 DEF ILager, LaEcht, LaStand, Echt, StandGilt
  <2>5. LaAllein' /\ BestandGilt' /\ BedarfGilt'
    BY <2>1 DEF ILager, LaAllein, BestandGilt, BestandFolgtBewegungen, BedarfGilt
  <2>6. QED
    BY <2>2, <2>3, <2>4, <2>5 DEF ILager
<1>2. CASE LaNext
  <2>1. CASE BestellungPapierkorb
    BY <2>1, PapierkorbGilt
  <2>2. CASE \E r \in LaAnfragen :
         \/ SetzenLesen(r) \/ VerwendenLesen(r) \/ UmlagernLesen(r) \/ BuchungSchreiben(r)
         \/ BestellenLesen(r) \/ BestellenSchreiben(r)
         \/ BedarfLoeschenLesen(r) \/ BedarfLoeschenSchreiben(r)
         \/ StatusLesen(r) \/ StatusSchreiben(r) \/ WareneingangSchreiben(r)
    BY <2>2, LesenGilt, BuchungGilt, BestellenGilt, BedarfLoeschenGilt, StatusGilt, WareneingangGilt
  <2>3. QED
    BY <1>2, <2>1, <2>2 DEF LaNext
<1>3. QED
  BY <1>1, <1>2

-----------------------------------------------------------------------------
(***************************************************************************)
(* All parts together: a step of one leaves the others alone.              *)
(***************************************************************************)

mcVars == <<teil, vars, abVars, anVars, laVars, reVars>>

LEMMA TeilSchritt ==
  [MCNext]_mcVars =>
      [Next]_vars /\ [AbNext]_abVars /\ [AnNext]_anVars /\ [LaNext]_laVars /\ [ReNext]_reVars
BY DEF MCNext, mcVars

(* For any number of quotes, defects and requests: however staff and customer overlap, an accepted quote
   has exactly one order, any other has none, and the record of acceptance names the version the customer
   had on the page; one request at a time, a decided quote stays as it is and defects follow their quote
   (angebot_service.py, routes/kundenportal.py). *)
THEOREM AngebotBleibtTreu == MCSpec => []AngebotStimmt
<1>1. MCInit => IAngebot
  BY AnInitGilt DEF MCInit
<1>2. IAngebot /\ [MCNext]_mcVars => IAngebot'
  BY TeilSchritt, AnSchritt
<1>3. IAngebot => AngebotStimmt
  BY DEF IAngebot, AngebotStimmt
<1>4. QED
  BY <1>1, <1>2, <1>3, PTL DEF MCSpec, mcVars

(* For any number of invoices, any shares and requests that overlap: a quote is never billed beyond 100 %
   and has one full or final invoice at most; one request at a time, a shipped invoice deducts instalments
   in force only, each once (rechnungsart_service.py, abrechnung.py, routes/rechnungen.py). *)
THEOREM AbschlaegeStimmen == MCSpec => []AbschlagStimmt
<1>1. MCInit => IAbschlag
  BY AbInitGilt DEF MCInit
<1>2. IAbschlag /\ [MCNext]_mcVars => IAbschlag'
  BY TeilSchritt, AbSchritt
<1>3. QED
  BY <1>1, <1>2, IAbschlagGilt, PTL DEF MCSpec, mcVars

(* For any number of places, orders and requests for material: when no two requests overlap, the stock is
   the sum of its movements and an order is received together with what it was placed for
   (routes/material.py, bestellung_service.py). *)
THEOREM LagerBleibtStimmig == MCSpec => []LagerStimmt
<1>1. MCInit => ILager
  BY LaInitGilt DEF MCInit
<1>2. ILager /\ [MCNext]_mcVars => ILager'
  BY TeilSchritt, LaSchritt
<1>3. QED
  BY <1>1, <1>2, ILagerGilt, PTL DEF MCSpec, mcVars

(* For any number of users and account types: a tenant loses its last administrator only by the
   deletion of a user while deactivated administrators count, or by the deletion of an account type
   (routes/users.py, routes/account_typen.py, eskalation_service.py). *)
THEOREM VerwaltungUeberlebt == MCSpec => VerwaltungBleibt
<1>1. MCInit => IRechte
  BY ReInitGilt DEF MCInit
<1>2. IRechte /\ [ReNext]_reVars => IRechte'
  <2>1. IRechte /\ UNCHANGED reVars => IRechte'
    BY DEF IRechte, reVars, TypenSauber
  <2>2. QED
    BY <2>1, ReTypSchritt
<1>3. IRechte /\ [MCNext]_mcVars => IRechte' /\ [Schutz]_reVars
  BY <1>2, TeilSchritt, ReSchutz
<1>4. QED
  BY <1>1, <1>3, PTL DEF MCSpec, mcVars, VerwaltungBleibt, Schutz

(* For any number of rows and requests: the tables of all parts and what the requests hold in memory
   keep their types; no stock is negative (routes/material.py, angebote.py, rechnungen.py, users.py). *)
THEOREM VertriebTypen == MCSpec => []VertriebTyp
<1>1. MCInit => TypeOK /\ IAbschlag /\ IAngebot /\ ILager /\ IRechte
  BY InitTyp, AbInitGilt, AnInitGilt, LaInitGilt, ReInitGilt DEF MCInit
<1>2. IRechte /\ [ReNext]_reVars => IRechte'
  <2>1. IRechte /\ UNCHANGED reVars => IRechte'
    BY DEF IRechte, reVars, TypenSauber
  <2>2. QED
    BY <2>1, ReTypSchritt
<1>3. (TypeOK /\ IAbschlag /\ IAngebot /\ ILager /\ IRechte) /\ [MCNext]_mcVars
        => (TypeOK /\ IAbschlag /\ IAngebot /\ ILager /\ IRechte)'
  BY <1>2, TeilSchritt, SchrittTyp, AbSchritt, AnSchritt, LaSchritt
<1>4. TypeOK /\ IAbschlag /\ IAngebot /\ ILager /\ IRechte => VertriebTyp
  BY IRechteTyp DEF IAbschlag, IAngebot, ILager, VertriebTyp
<1>5. QED
  BY <1>1, <1>3, <1>4, PTL DEF MCSpec, mcVars
=============================================================================
