-------------------------------- MODULE Lager --------------------------------
(***************************************************************************)
(* Stock of one material, its movements, and orders to the supplier        *)
(* (routes/material.py, routes/material_bedarfe.py, routes/bestellungen.py *)
(* and bestellung_service.py).                                             *)
(*                                                                         *)
(* A booking reads the stock row without a lock, computes the new amount   *)
(* in the program, and its UPDATE writes that number together with a       *)
(* movement; reading and committing are two steps here.  A row that is     *)
(* missing is inserted, and the unique index on material and place refuses *)
(* the second of two inserts, whose request then fails as a whole.         *)
(***************************************************************************)
EXTENDS Integers, FiniteSets, FiniteSetsExt

CONSTANTS
    Orte,             \* storage places; ZentralLager takes deliveries
    ZentralLager,
    Bestellungen,
    Bedarfe,          \* material requested for jobs
    BedarfMenge,      \* amount of each
    LaAnfragen,
    MaxBestand,       \* bound on the amount at one place
    MaxBuchungen,     \* bound on manual bookings
    Ohne

ASSUME LaAnnahme ==
    /\ ZentralLager \in Orte
    /\ BedarfMenge \in [Bedarfe -> Nat \ {0}]
    /\ MaxBestand \in Nat /\ MaxBuchungen \in Nat
    /\ Ohne \notin Orte \cup Bestellungen \cup Nat /\ IsFiniteSet(LaAnfragen) /\ IsFiniteSet(Bedarfe)

VARIABLES
    bestand,       \* place -> amount in material_bestand, or Ohne without a row
    bewegt,        \* place -> balance of the movements in material_bewegungen
    bestellung,    \* the table bestellungen with the total of its positions
    bedarf,        \* the table material_bedarfe
    auftrag,       \* request -> what it has read and is about to write
    gebucht,       \* manual bookings so far
    neben          \* how many requests the server runs at once

laVars == <<bestand, bewegt, bestellung, bedarf, auftrag, gebucht, neben>>

NichtBestellt == [status |-> "frei"]
KeinAuftrag == [tut |-> "nichts", von |-> Ohne, nach |-> Ohne, menge |-> 0, las |-> <<Ohne, Ohne>>,
           b |-> Ohne, wahl |-> {}]
Menge(x) == IF x = Ohne THEN 0 ELSE x

LaTyp ==
    /\ bestand \in [Orte -> Nat \cup {Ohne}]
    /\ bewegt \in [Orte -> Int]
    /\ bestellung \in [Bestellungen -> {NichtBestellt} \cup
         [status : {"entwurf", "bestellt", "eingegangen"}, menge : Nat, geloescht : BOOLEAN]]
    /\ bedarf \in [Bedarfe -> [status : {"offen", "bestellt", "erhalten"},
                               bestellung : Bestellungen \cup {Ohne}, geloescht : BOOLEAN]]
    /\ auftrag \in [LaAnfragen ->
         [tut : {"nichts", "setzen", "verwenden", "umlagern", "bestellen", "status", "bedarf_loeschen"},
          von : Orte \cup {Ohne}, nach : Orte \cup {Ohne}, menge : Nat,
          las : (Nat \cup {Ohne}) \X (Nat \cup {Ohne}), b : Bestellungen \cup {Ohne},
          wahl : SUBSET Bedarfe]]
    /\ gebucht \in 0..MaxBuchungen
    /\ neben \in 1..Cardinality(LaAnfragen)

LaInit ==
    /\ bestand = [o \in Orte |-> Ohne]
    /\ bewegt = [o \in Orte |-> 0]
    /\ bestellung = [b \in Bestellungen |-> NichtBestellt]
    /\ bedarf = [d \in Bedarfe |-> [status |-> "offen", bestellung |-> Ohne, geloescht |-> FALSE]]
    /\ auftrag = [r \in LaAnfragen |-> KeinAuftrag]
    /\ gebucht = 0
    /\ neben \in 1..Cardinality(LaAnfragen)

Bestellt == {b \in Bestellungen : bestellung[b] # NichtBestellt}
Nimmt(r, p) ==
    /\ auftrag[r] = KeinAuftrag /\ Cardinality({q \in LaAnfragen : auftrag[q] # KeinAuftrag}) < neben
    /\ auftrag' = [auftrag EXCEPT ![r] = p]
    /\ UNCHANGED <<bestand, bewegt, bestellung, bedarf, neben>>
Schliesst(r) == auftrag' = [auftrag EXCEPT ![r] = KeinAuftrag] /\ UNCHANGED <<gebucht, neben>>
Bucht == gebucht < MaxBuchungen /\ gebucht' = gebucht + 1

-----------------------------------------------------------------------------
(* bestand_setzen: stocktaking.                                            *)
SetzenLesen(r) ==
    \E o \in Orte, n \in 0..MaxBestand :
        /\ Nimmt(r, [KeinAuftrag EXCEPT !.tut = "setzen", !.nach = o, !.menge = n, !.las = <<Ohne, bestand[o]>>])
        /\ Bucht

(* Mutant: more is used up than there is.                                  *)
VerwendenUnbegrenzt(r) ==
    \E o \in Orte : \E n \in 1..MaxBestand :
        /\ bestand[o] # Ohne
        /\ Nimmt(r, [KeinAuftrag EXCEPT !.tut = "verwenden", !.von = o, !.menge = n, !.las = <<bestand[o], Ohne>>])
        /\ Bucht

(* verwendung_erfassen: used up on a job.                                  *)
VerwendenLesen(r) ==
    \E o \in Orte : \E n \in 1..Menge(bestand[o]) :
        /\ Nimmt(r, [KeinAuftrag EXCEPT !.tut = "verwenden", !.von = o, !.menge = n, !.las = <<bestand[o], Ohne>>])
        /\ Bucht

(* umlagern: from one place to another.                                    *)
UmlagernLesen(r) ==
    \E o, p \in Orte : \E n \in 1..Menge(bestand[o]) :
        /\ o # p
        /\ Nimmt(r, [KeinAuftrag EXCEPT !.tut = "umlagern", !.von = o, !.nach = p, !.menge = n,
                       !.las = <<bestand[o], bestand[p]>>])
        /\ Bucht

(* A request that found no row inserts one; somebody else may have.        *)
ZeileStehtIm(o, las) == o = Ohne \/ las # Ohne \/ bestand[o] = Ohne

(* Mutant: the stocktaking's movement is the new amount, not the change.   *)
NeuBewegtFalsch(o, p) ==
    bewegt[o] + (IF o = p.nach THEN p.menge ELSE 0) - (IF o = p.von THEN p.menge ELSE 0)

NeuBewegt(o, p) ==
    bewegt[o] + (IF o = p.nach THEN (IF p.tut = "setzen" THEN p.menge - Menge(p.las[2]) ELSE p.menge) ELSE 0)
              - (IF o = p.von THEN p.menge ELSE 0)

NeuBestand(o, p) ==
    CASE o = p.von -> p.las[1] - p.menge
      [] o = p.nach /\ p.tut = "setzen" /\ p.menge # p.las[2] -> p.menge   \* else no UPDATE
      [] o = p.nach /\ p.tut = "umlagern" -> Menge(p.las[2]) + p.menge
      [] OTHER -> bestand[o]

BuchungSchreiben(r) ==
    LET p == auftrag[r] IN
    /\ p.tut \in {"setzen", "verwenden", "umlagern"}
    /\ IF ZeileStehtIm(p.nach, p.las[2])
       THEN /\ bestand' = [o \in Orte |-> NeuBestand(o, p)]
            /\ bewegt' = [o \in Orte |-> NeuBewegt(o, p)]
       ELSE UNCHANGED <<bestand, bewegt>>
    /\ Schliesst(r) /\ UNCHANGED <<bestellung, bedarf>>

-----------------------------------------------------------------------------
(* create_bestellung_from_bedarfe: one order for all chosen requests that  *)
(* are open; whether one is in the recycle bin is not asked.               *)
BestellenLesen(r) ==
    \E wahl \in (SUBSET Bedarfe) \ {{}} :
        /\ \A d \in wahl : bedarf[d].status = "offen"
        /\ Nimmt(r, [KeinAuftrag EXCEPT !.tut = "bestellen", !.wahl = wahl]) /\ UNCHANGED gebucht

BestellenSchreiben(r) ==
    /\ auftrag[r].tut = "bestellen"
    /\ \E b \in Bestellungen \ Bestellt :
         /\ bestellung' = [bestellung EXCEPT ![b] = [status |-> "entwurf", geloescht |-> FALSE,
                              menge |-> MapThenSumSet(LAMBDA d : BedarfMenge[d], auftrag[r].wahl)]]
         /\ bedarf' = [d \in Bedarfe |-> IF d \in auftrag[r].wahl
                         THEN [bedarf[d] EXCEPT !.status = "bestellt", !.bestellung = b] ELSE bedarf[d]]
    /\ Schliesst(r) /\ UNCHANGED <<bestand, bewegt>>

(* delete_material_bedarf: only an open one.                               *)
BedarfLoeschenLesen(r) ==
    \E d \in Bedarfe :
        /\ bedarf[d].status = "offen" /\ ~bedarf[d].geloescht
        /\ Nimmt(r, [KeinAuftrag EXCEPT !.tut = "bedarf_loeschen", !.wahl = {d}]) /\ UNCHANGED gebucht

BedarfLoeschenSchreiben(r) ==
    /\ auftrag[r].tut = "bedarf_loeschen"
    /\ bedarf' = [d \in Bedarfe |-> IF d \in auftrag[r].wahl
                    THEN [bedarf[d] EXCEPT !.geloescht = TRUE] ELSE bedarf[d]]
    /\ Schliesst(r) /\ UNCHANGED <<bestand, bewegt, bestellung>>

(* delete_bestellung, in whatever state, and restore.                      *)
BestellungPapierkorb ==
    /\ \E b \in Bestellt : bestellung' = [bestellung EXCEPT ![b].geloescht = ~@]
    /\ UNCHANGED <<bestand, bewegt, bedarf, auftrag, gebucht, neben>>

(* update_bestellung / apply_status_transition: ordered, or received; the  *)
(* status is checked on the row as loaded.                                 *)
StatusLesen(r) ==
    \E b \in Bestellt : \E eingang \in BOOLEAN :
        /\ ~bestellung[b].geloescht
        /\ bestellung[b].status \in (IF eingang THEN {"entwurf", "bestellt"} ELSE {"entwurf"})
        /\ Nimmt(r, [KeinAuftrag EXCEPT !.tut = "status", !.b = b,
                       !.nach = IF eingang THEN ZentralLager ELSE Ohne,
                       !.menge = bestellung[b].menge,
                       !.las = <<Ohne, IF eingang THEN bestand[ZentralLager] ELSE Ohne>>])
        /\ UNCHANGED gebucht

StatusSchreiben(r) ==
    LET p == auftrag[r] IN
    /\ p.tut = "status" /\ p.nach = Ohne
    /\ bestellung' = [bestellung EXCEPT ![p.b].status = "bestellt"]
    /\ Schliesst(r) /\ UNCHANGED <<bestand, bewegt, bedarf>>

(* _wareneingang_buchen                                                    *)
WareneingangSchreiben(r) ==
    LET p == auftrag[r] IN
    /\ p.tut = "status" /\ p.nach # Ohne
    /\ Menge(p.las[2]) + p.menge <= MaxBestand
    /\ IF ZeileStehtIm(p.nach, p.las[2])
       THEN /\ bestellung' = [bestellung EXCEPT ![p.b].status = "eingegangen"]
            /\ bestand' = [bestand EXCEPT ![p.nach] = Menge(p.las[2]) + p.menge]
            /\ bewegt' = [bewegt EXCEPT ![p.nach] = @ + p.menge]
            /\ bedarf' = [d \in Bedarfe |-> IF bedarf[d].bestellung = p.b
                            THEN [bedarf[d] EXCEPT !.status = "erhalten"] ELSE bedarf[d]]
       ELSE UNCHANGED <<bestellung, bestand, bewegt, bedarf>>
    /\ Schliesst(r)

LaNext ==
    \/ \E r \in LaAnfragen :
         \/ SetzenLesen(r) \/ VerwendenLesen(r) \/ UmlagernLesen(r) \/ BuchungSchreiben(r)
         \/ BestellenLesen(r) \/ BestellenSchreiben(r)
         \/ BedarfLoeschenLesen(r) \/ BedarfLoeschenSchreiben(r)
         \/ StatusLesen(r) \/ StatusSchreiben(r) \/ WareneingangSchreiben(r)
    \/ BestellungPapierkorb

LaSpec == LaInit /\ [][LaNext]_laVars

-----------------------------------------------------------------------------
(* The stock is what the movements add up to (PHASE_7.md:45 says the stock *)
(* is changed atomically).                                                 *)
BestandFolgtBewegungen == \A o \in Orte : Menge(bestand[o]) = bewegt[o]

(* With one request at a time stock, movements and orders stay together:   *)
(* every order received was booked once, and a request for material is     *)
(* received exactly when its order is.                                     *)
LagerStimmt ==
    neben = 1 =>
        /\ BestandFolgtBewegungen
        /\ \A d \in Bedarfe :
             LET b == bedarf[d].bestellung IN
             CASE bedarf[d].status = "offen" -> b = Ohne
               [] bedarf[d].status = "bestellt" -> b \in Bestellt /\ bestellung[b].status # "eingegangen"
               [] OTHER -> b \in Bestellt /\ bestellung[b].status = "eingegangen"
        /\ \A b \in Bestellt : bestellung[b].menge =
             MapThenSumSet(LAMBDA d : BedarfMenge[d], {d \in Bedarfe : bedarf[d].bestellung = b})
=============================================================================
