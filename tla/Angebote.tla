------------------------------ MODULE Angebote ------------------------------
(***************************************************************************)
(* Quotes from draft to decision, and the defects they are made from       *)
(* (routes/angebote.py, routes/maengel.py, angebot_service.py, and the     *)
(* customer's side in routes/kundenportal.py).                             *)
(*                                                                         *)
(* Every request reads and checks first and commits in a second step.      *)
(* Only the change of status (apply_status_transition) locks the quote and *)
(* reads it again; editing, deleting and the defects rely on the first     *)
(* look.  "inhalt" stands for the positions (0: none) and "bis" for        *)
(* gueltig_bis; together they are the version the customer accepts         *)
(* (kanonische_fassung).                                                   *)
(***************************************************************************)
EXTENDS Integers, FiniteSets

CONSTANTS
    Angebote, Maengel,
    AnAnfragen,    \* requests of staff and customers
    Inhalte,       \* what positions there may be, 0 included
    MaxHeute,      \* bound on the calendar
    MaxLast,       \* bound: requests at once plus quotes made
    Kein

ASSUME AnAnnahme ==
    /\ 0 \in Inhalte /\ Inhalte \subseteq Nat /\ MaxHeute \in Nat /\ MaxLast \in Nat
    /\ Kein \notin Angebote \cup Maengel \cup Nat /\ IsFiniteSet(AnAnfragen)

VARIABLES
    heute,
    angebot,     \* the table angebote
    mangel,      \* defect -> status and quote
    seite,       \* quote -> the version the customer's open page shows
    anfrage,     \* request -> what it has read and is about to write
    zugleich     \* how many requests the server runs at once

anVars == <<heute, angebot, mangel, seite, anfrage, zugleich>>

AngebotStatus == {"entwurf", "versendet", "angenommen", "abgelehnt"}
KeinAngebot == [status |-> "frei"]
Fassung(a) == <<angebot[a].inhalt, angebot[a].bis>>
Fassungen == Inhalte \X (0..MaxHeute)
Leer == [tut |-> "nichts", a |-> Kein, m |-> {}, bis |-> Kein, neu |-> "entwurf", alt |-> "entwurf",
         gesehen |-> <<0, 0>>]

AnTyp ==
    /\ heute \in 0..MaxHeute
    /\ angebot \in [Angebote -> {KeinAngebot} \cup
         [status : AngebotStatus, inhalt : Inhalte, bis : 0..MaxHeute, geloescht : BOOLEAN,
          auftraege : 0..2, nachweis : Fassungen \cup {Kein}, bestaetigt : Fassungen \cup {Kein}]]
    /\ mangel \in [Maengel -> [status : {"offen", "in_angebot", "in_bearbeitung", "behoben", "abgelehnt"},
                               angebot : Angebote \cup {Kein}]]
    /\ seite \in [Angebote -> Fassungen \cup {Kein}]
    /\ anfrage \in [AnAnfragen ->
         [tut : {"nichts", "position", "loeschen", "aus_maengeln", "mangel", "patch", "portal"},
          a : Angebote \cup {Kein}, m : SUBSET Maengel, bis : (0..MaxHeute) \cup {Kein},
          neu : AngebotStatus \cup {"behoben"}, alt : AngebotStatus, gesehen : Fassungen]]
    /\ zugleich \in 1..Cardinality(AnAnfragen)

AnInit ==
    /\ heute = 0
    /\ angebot = [a \in Angebote |-> KeinAngebot]
    /\ mangel = [m \in Maengel |-> [status |-> "offen", angebot |-> Kein]]
    /\ seite = [a \in Angebote |-> Kein]
    /\ anfrage = [r \in AnAnfragen |-> Leer]
    /\ zugleich \in 1..Cardinality(AnAnfragen)

Da == {a \in Angebote : angebot[a] # KeinAngebot}
Offene(a) == a \in Da /\ ~angebot[a].geloescht         \* _angebot_laden
MaengelVon(a) == {m \in Maengel : mangel[m].angebot = a}
IstAbgelaufen(a) == angebot[a].bis < heute             \* of a shipped quote

Beginne(r, p) ==
    /\ anfrage[r] = Leer /\ Cardinality({q \in AnAnfragen : anfrage[q] # Leer}) < zugleich
    /\ anfrage' = [anfrage EXCEPT ![r] = p]
    /\ UNCHANGED <<heute, angebot, mangel, seite, zugleich>>
Fertig(r) == anfrage' = [anfrage EXCEPT ![r] = Leer] /\ UNCHANGED <<heute, seite, zugleich>>

-----------------------------------------------------------------------------
Freie == IF Cardinality(Da) + zugleich < MaxLast THEN Angebote \ Da ELSE {}
Neu(i, bis) == [status |-> "entwurf", inhalt |-> i, bis |-> bis, geloescht |-> FALSE,
                auftraege |-> 0, nachweis |-> Kein, bestaetigt |-> Kein]

(* create_angebot, and the quotes made from material or from a job.        *)
CreateAngebot ==
    /\ \E a \in Freie, i \in Inhalte, bis \in 0..MaxHeute :
         angebot' = [angebot EXCEPT ![a] = Neu(i, bis)]
    /\ UNCHANGED <<heute, mangel, seite, anfrage, zugleich>>

(* create_angebot_from_maengel: only open defects, read without a lock.    *)
AusMaengelnLesen(r) ==
    \E ms \in (SUBSET Maengel) \ {{}} :
        /\ \A m \in ms : mangel[m].status = "offen"
        /\ Beginne(r, [Leer EXCEPT !.tut = "aus_maengeln", !.m = ms])

AusMaengelnSchreiben(r) ==
    /\ anfrage[r].tut = "aus_maengeln"
    /\ \E a \in Freie, i \in Inhalte \ {0}, bis \in 0..MaxHeute :
         /\ angebot' = [angebot EXCEPT ![a] = Neu(i, bis)]
         /\ mangel' = [m \in Maengel |-> IF m \in anfrage[r].m
                         THEN [status |-> "in_angebot", angebot |-> a] ELSE mangel[m]]
    /\ Fertig(r)

(* update_mangel: an open defect is closed on the spot.                    *)
MangelLesen(r) ==
    \E m \in Maengel :
        /\ mangel[m].status = "offen"
        /\ Beginne(r, [Leer EXCEPT !.tut = "mangel", !.m = {m}, !.neu = "behoben"])

MangelSchreiben(r) ==
    /\ anfrage[r].tut = "mangel"
    /\ mangel' = [m \in Maengel |-> IF m \in anfrage[r].m
                    THEN [mangel[m] EXCEPT !.status = anfrage[r].neu] ELSE mangel[m]]
    /\ Fertig(r) /\ UNCHANGED angebot

(* add_position, update_position, delete_position, positionen_aus_lv,      *)
(* positionen_neu_ordnen: only on a draft, as first seen.                  *)
PositionLesen(r) ==
    \E a \in Angebote :
        /\ Offene(a) /\ angebot[a].status = "entwurf"
        /\ Beginne(r, [Leer EXCEPT !.tut = "position", !.a = a])

PositionSchreiben(r) ==
    /\ anfrage[r].tut = "position"
    /\ \E i \in Inhalte \ {angebot[anfrage[r].a].inhalt} :
         angebot' = [angebot EXCEPT ![anfrage[r].a].inhalt = i]
    /\ Fertig(r) /\ UNCHANGED mangel

(* delete_angebot, and restore of the recycle bin.                         *)
AngebotLoeschenLesen(r) ==
    \E a \in Angebote :
        /\ Offene(a) /\ angebot[a].status = "entwurf"
        /\ Beginne(r, [Leer EXCEPT !.tut = "loeschen", !.a = a])

AngebotLoeschenSchreiben(r) ==
    /\ anfrage[r].tut = "loeschen"
    /\ angebot' = [angebot EXCEPT ![anfrage[r].a].geloescht = TRUE]
    /\ Fertig(r) /\ UNCHANGED mangel

AngebotWiederherstellen ==
    /\ \E a \in Da : angebot[a].geloescht /\ angebot' = [angebot EXCEPT ![a].geloescht = FALSE]
    /\ UNCHANGED <<heute, mangel, seite, anfrage, zugleich>>

-----------------------------------------------------------------------------
(* apply_status_transition, under the lock of the quote: what is allowed   *)
(* from the status read there, and what it does to order and defects.      *)
GUELTIGE_UEBERGAENGE == [s \in AngebotStatus |->
    CASE s = "entwurf" -> {"versendet"} [] s = "versendet" -> {"angenommen", "abgelehnt"} [] OTHER -> {}]

Erlaubt(r, a, bis) ==
    LET neu == anfrage[r].neu IN
    /\ neu \in GUELTIGE_UEBERGAENGE[angebot[a].status]
    /\ neu = "versendet" => angebot[a].inhalt # 0
    /\ neu = "angenommen" => bis >= heute

MaengelNach(a, neu) ==
    [m \in Maengel |->
       CASE mangel[m].angebot = a /\ neu = "angenommen" -> [mangel[m] EXCEPT !.status = "in_bearbeitung"]
         [] mangel[m].angebot = a /\ neu = "abgelehnt" -> [status |-> "offen", angebot |-> Kein]
         [] OTHER -> mangel[m]]

(* One order (or one repair job for all defects) per acceptance.           *)
Uebergang(a, bis, neu, nachweis, seen) ==
    /\ angebot' = [angebot EXCEPT ![a].status = neu, ![a].bis = bis,
                     ![a].auftraege = IF neu = "angenommen" THEN @ + 1 ELSE @,
                     ![a].nachweis = nachweis, ![a].bestaetigt = seen]
    /\ mangel' = MaengelNach(a, neu)

(* update_angebot: new validity, new status, or both.                      *)
PatchLesen(r) ==
    \E a \in Angebote, bis \in (0..MaxHeute) \cup {Kein}, neu \in AngebotStatus :
        /\ Offene(a) /\ (bis # Kein \/ neu # "entwurf")
        /\ bis # Kein => angebot[a].status \in {"entwurf", "versendet"}
        /\ Beginne(r, [Leer EXCEPT !.tut = "patch", !.a = a, !.bis = bis, !.neu = neu,
                         !.alt = angebot[a].status])

PatchSchreiben(r) ==
    LET a == anfrage[r].a
        bis == IF anfrage[r].bis = Kein THEN angebot[a].bis ELSE anfrage[r].bis
    IN  /\ anfrage[r].tut = "patch"
        /\ CASE anfrage[r].neu = "entwurf" ->        \* only the validity
                  angebot' = [angebot EXCEPT ![a].bis = bis] /\ UNCHANGED mangel
             [] anfrage[r].neu # "entwurf" /\ Erlaubt(r, a, bis) ->
                  Uebergang(a, bis, anfrage[r].neu, angebot[a].nachweis, angebot[a].bestaetigt)
             [] OTHER -> UNCHANGED <<angebot, mangel>>
        /\ Fertig(r)

(* The customer opens the quote in the portal and answers from that page.  *)
SeiteLaden ==
    /\ \E a \in Angebote : Offene(a) /\ angebot[a].status # "entwurf" /\ seite[a] # Fassung(a)
                           /\ seite' = [seite EXCEPT ![a] = Fassung(a)]
    /\ UNCHANGED <<heute, angebot, mangel, anfrage, zugleich>>

AntwortLesen(r) ==
    \E a \in Angebote, neu \in {"angenommen", "abgelehnt"} :
        /\ Offene(a) /\ angebot[a].status # "entwurf" /\ seite[a] = Fassung(a)
        /\ Beginne(r, [Leer EXCEPT !.tut = "portal", !.a = a, !.neu = neu, !.gesehen = seite[a],
                         !.alt = angebot[a].status])

(* Mutant: the version is not compared again under the lock.               *)
AntwortOhneVergleich(r) ==
    LET a == anfrage[r].a IN
    /\ anfrage[r].tut = "portal"
    /\ IF Erlaubt(r, a, angebot[a].bis)
       THEN Uebergang(a, angebot[a].bis, anfrage[r].neu, Fassung(a), anfrage[r].gesehen)
       ELSE UNCHANGED <<angebot, mangel>>
    /\ Fertig(r)

(* antwort_auf_angebot: the version is compared again under the lock, and  *)
(* the record of acceptance (protokolliere) keeps it.                      *)
AntwortSchreiben(r) ==
    LET a == anfrage[r].a IN
    /\ anfrage[r].tut = "portal"
    /\ IF Erlaubt(r, a, angebot[a].bis) /\ anfrage[r].gesehen = Fassung(a)
       THEN Uebergang(a, angebot[a].bis, anfrage[r].neu, Fassung(a), anfrage[r].gesehen)
       ELSE UNCHANGED <<angebot, mangel>>
    /\ Fertig(r)

TagVergeht ==
    /\ heute < MaxHeute /\ heute' = heute + 1
    /\ UNCHANGED <<angebot, mangel, seite, anfrage, zugleich>>

AnNext ==
    \/ CreateAngebot \/ AngebotWiederherstellen \/ SeiteLaden \/ TagVergeht
    \/ \E r \in AnAnfragen :
         \/ AusMaengelnLesen(r) \/ AusMaengelnSchreiben(r)
         \/ MangelLesen(r) \/ MangelSchreiben(r)
         \/ PositionLesen(r) \/ PositionSchreiben(r)
         \/ AngebotLoeschenLesen(r) \/ AngebotLoeschenSchreiben(r)
         \/ PatchLesen(r) \/ PatchSchreiben(r)
         \/ AntwortLesen(r) \/ AntwortSchreiben(r)

AnSpec == AnInit /\ [][AnNext]_anVars

-----------------------------------------------------------------------------
(* However staff and customer overlap, an accepted quote has exactly one   *)
(* order and no other quote has one (comment in apply_status_transition).  *)
EinAuftragJeAngebot ==
    \A a \in Da : angebot[a].auftraege = IF angebot[a].status = "angenommen" THEN 1 ELSE 0

(* The version on record is the one the customer had in front of them,     *)
(* however staff extend or edit the quote meanwhile.                       *)
NachweisIstGesehenes ==
    \A a \in Da : angebot[a].nachweis = angebot[a].bestaetigt

(* With one request at a time the decided quote never changes any more,    *)
(* and so still is what the record of acceptance says.                     *)
AngenommenesBleibt ==
    zugleich = 1 =>
        \A a \in Da : angebot[a].status = "angenommen" /\ angebot[a].nachweis # Kein
                        => angebot[a].nachweis = Fassung(a)

(* With one request at a time a defect follows its quote (maengel.py:42):  *)
(* it waits in one that is undecided, is worked on under one that was      *)
(* accepted, and is free in all other cases.                               *)
MangelFolgtAngebot ==
    zugleich = 1 =>
        \A m \in Maengel :
            LET a == mangel[m].angebot IN
            CASE mangel[m].status = "in_angebot" -> a \in Da /\ angebot[a].status \in {"entwurf", "versendet"}
              [] mangel[m].status = "in_bearbeitung" -> a \in Da /\ angebot[a].status = "angenommen"
              [] OTHER -> a = Kein

(* What follows from a quote: its order, its record of acceptance and its  *)
(* defects.                                                                *)
AngebotStimmt == EinAuftragJeAngebot /\ NachweisIstGesehenes /\ AngenommenesBleibt /\ MangelFolgtAngebot
=============================================================================
