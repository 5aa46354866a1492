----------------------------- MODULE Abschlaege -----------------------------
(***************************************************************************)
(* Billing one accepted quote: instalments, the final invoice that deducts *)
(* them, and the customer's withdrawal (rechnungsart_service.py,           *)
(* angebot_annahme_service.py, and the routes of rechnungen.py around      *)
(* them).                                                                  *)
(*                                                                         *)
(* A request reads and checks in one step and commits in a second.  Only   *)
(* two of them lock what they read: billing and withdrawal lock the quote, *)
(* deducting locks the instalments.  Everything else relies on what it     *)
(* read; the trigger rechnungen_festschreibung then decides whether the    *)
(* late UPDATE goes through.                                               *)
(*                                                                         *)
(* Amounts are shares of the quote.  "versendet" stands for the three      *)
(* states from shipping to payment, which no check here tells apart.       *)
(***************************************************************************)
EXTENDS Integers, FiniteSets, FiniteSetsExt

CONSTANTS
    Belege,      \* invoices that may ever exist
    AbAnfragen,  \* requests
    Voll,        \* the quote's net amount
    Anteile,     \* amounts of an instalment
    MaxZurueck,  \* bound: documents taken back from the recycle bin plus requests at once
    Niemand

ASSUME AbAnnahme ==
    /\ Voll \in Nat \ {0} /\ Anteile \subseteq 1..Voll /\ MaxZurueck \in Nat
    /\ Niemand \notin Belege \cup AbAnfragen /\ IsFiniteSet(AbAnfragen)

VARIABLES
    widerrufen,  \* the quote: accepted (FALSE) or withdrawn
    beleg,       \* the table rechnungen with the deductions of each row
    plan,        \* request -> what it has read and is about to write
    zurueck,     \* documents taken back from the recycle bin so far
    parallel     \* how many requests the server runs at once

abVars == <<widerrufen, beleg, plan, zurueck, parallel>>

Arten == {"rechnung", "abschlag", "schluss"}
KeinBeleg == [art |-> "frei"]
Ruhe == [tut |-> "nichts", b |-> Niemand, art |-> "rechnung", netto |-> 0, wahl |-> {}]
Vorhaben == {"nichts", "anlegen", "anrechnen", "abzug_entfernen", "versenden",
             "verwerfen", "stornieren", "loeschen", "widerrufen"}

AbTyp ==
    /\ widerrufen \in BOOLEAN
    /\ beleg \in [Belege -> {KeinBeleg} \cup
         [art : Arten, status : {"entwurf", "versendet", "storniert"}, netto : 0..Voll,
          abzug : SUBSET Belege, amAngebot : BOOLEAN, geloescht : BOOLEAN]]
    /\ plan \in [AbAnfragen -> [tut : Vorhaben, b : Belege \cup {Niemand}, art : Arten,
                                netto : 0..Voll, wahl : SUBSET Belege]]
    /\ zurueck \in 0..MaxZurueck
    /\ parallel \in 1..Cardinality(AbAnfragen)

AbInit ==
    /\ widerrufen = FALSE
    /\ beleg = [b \in Belege |-> KeinBeleg]
    /\ plan = [r \in AbAnfragen |-> Ruhe]
    /\ zurueck = 0
    /\ parallel \in 1..Cardinality(AbAnfragen)

-----------------------------------------------------------------------------
(* What the queries of the services return.                                *)
Angelegt == {b \in Belege : beleg[b] # KeinBeleg}
NichtStorniert == {b \in Angelegt : beleg[b].status # "storniert" /\ ~beleg[b].geloescht}
ZumAngebot(arten) == {b \in NichtStorniert : beleg[b].amAngebot /\ beleg[b].art \in arten}
AngerechnetIn(a) == {b \in NichtStorniert : a \in beleg[b].abzug}

(* _hat_versendete_rechnung: any document of the quote or its job that is  *)
(* not a draft, cancelled ones included.                                   *)
HatVersendete == \E b \in Angelegt : beleg[b].status # "entwurf" /\ ~beleg[b].geloescht

EntwurfDa(b) == b \in Angelegt /\ beleg[b].status = "entwurf" /\ ~beleg[b].geloescht

(* Mutant: the quote is read without FOR UPDATE.                           *)
AngebotUngesperrt == FALSE

(* FOR UPDATE on the quote, and on the instalments by the deducting one.   *)
AngebotGesperrt == \E r \in AbAnfragen : plan[r].tut \in {"anlegen", "widerrufen"}
GesperrteAbschlaege(r) ==
    IF plan[r].tut = "anrechnen" THEN {a \in Angelegt : beleg[a].art = "abschlag" /\ a # plan[r].b} ELSE {}
ZeileFrei(r, b) == \A q \in AbAnfragen \ {r} : b \notin GesperrteAbschlaege(q)

Laufend == {r \in AbAnfragen : plan[r].tut # "nichts"}
Beginnt(r, p) ==
    /\ plan[r].tut = "nichts" /\ Cardinality(Laufend) < parallel
    /\ plan' = [plan EXCEPT ![r] = p]
    /\ UNCHANGED <<widerrufen, beleg, zurueck, parallel>>
Vorsatz(tut, b) == [Ruhe EXCEPT !.tut = tut, !.b = b]
Endet(r) == plan' = [plan EXCEPT ![r] = Ruhe] /\ UNCHANGED <<zurueck, parallel>>

-----------------------------------------------------------------------------
(* rechnung_aus_angebot, under the lock of the quote.                      *)
DarfAnlegen(art, netto) ==
    LET voll == ZumAngebot({"rechnung", "schluss"})
        abschlaege == ZumAngebot({"abschlag"})
    IN  CASE art = "rechnung" -> voll = {} /\ abschlaege = {}
          [] art = "abschlag" -> voll = {} /\
               MapThenSumSet(LAMBDA b : beleg[b].netto, abschlaege) + netto <= Voll
          [] art = "schluss"  -> voll = {} /\
               \A a \in abschlaege : beleg[a].status # "entwurf" /\ AngerechnetIn(a) = {}

AnlegenLesen(r) ==
    \E art \in Arten : \E netto \in (IF art = "abschlag" THEN Anteile ELSE {Voll}) :
        /\ ~AngebotGesperrt /\ ~widerrufen
        /\ DarfAnlegen(art, netto)
        /\ Beginnt(r, [Ruhe EXCEPT !.tut = "anlegen", !.art = art, !.netto = netto,
                         !.wahl = IF art = "schluss" THEN ZumAngebot({"abschlag"}) ELSE {}])

Neuer(art, netto, abzug, amAngebot) ==
    [art |-> art, status |-> "entwurf", netto |-> netto, abzug |-> abzug,
     amAngebot |-> amAngebot, geloescht |-> FALSE]

AnlegenSchreiben(r) ==
    /\ plan[r].tut = "anlegen"
    /\ \E b \in Belege \ Angelegt :
         beleg' = [beleg EXCEPT ![b] = Neuer(plan[r].art, plan[r].netto, plan[r].wahl, TRUE)]
    /\ Endet(r) /\ UNCHANGED widerrufen

(* create_rechnung: a draft on the same job, not made from the quote.      *)
EntwurfAmVorgang ==
    /\ \E b \in Belege \ Angelegt, art \in {"rechnung", "abschlag"} :
         beleg' = [beleg EXCEPT ![b] = Neuer(art, 0, {}, FALSE)]
    /\ UNCHANGED <<widerrufen, plan, zurueck, parallel>>

(* abschlaege_anrechnen: the draft is read without a lock, the instalments *)
(* with one.  Without a choice it takes all that can be deducted.          *)
AnrechnenLesen(r) ==
    \E b \in Belege :
        LET kandidaten == {a \in NichtStorniert : beleg[a].art = "abschlag" /\ a # b}
            anrechenbar == {a \in kandidaten : beleg[a].status = "versendet" /\ AngerechnetIn(a) = {}}
        IN  /\ EntwurfDa(b) /\ beleg[b].art \in {"rechnung", "schluss"}
            /\ \A a \in kandidaten : ZeileFrei(r, a)
            /\ \E wahl \in (SUBSET anrechenbar) \ {{}} :
                 Beginnt(r, [Vorsatz("anrechnen", b) EXCEPT !.wahl = wahl])

(* A shipped invoice keeps its kind (trigger); rows may still be added.    *)
AnrechnenSchreiben(r) ==
    LET b == plan[r].b IN
    /\ plan[r].tut = "anrechnen"
    /\ beleg' = IF beleg[b].status = "entwurf" \/ beleg[b].art = "schluss"
                THEN [beleg EXCEPT ![b].abzug = @ \cup plan[r].wahl, ![b].art = "schluss"]
                ELSE beleg
    /\ Endet(r) /\ UNCHANGED widerrufen

(* remove_position on a deduction; the trigger refuses it once shipped.    *)
AbzugEntfernenLesen(r) ==
    \E b \in Belege : \E a \in (IF EntwurfDa(b) THEN beleg[b].abzug ELSE {}) :
        Beginnt(r, [Vorsatz("abzug_entfernen", b) EXCEPT !.wahl = {a}])

AbzugEntfernenSchreiben(r) ==
    LET b == plan[r].b IN
    /\ plan[r].tut = "abzug_entfernen"
    /\ beleg' = IF beleg[b].status = "entwurf"
                THEN [beleg EXCEPT ![b].abzug = @ \ plan[r].wahl] ELSE beleg
    /\ Endet(r) /\ UNCHANGED widerrufen

-----------------------------------------------------------------------------
(* update_rechnung: shipping looks at the deductions once more.            *)
AbzuegeGueltig(b) ==
    \A a \in beleg[b].abzug :
        /\ beleg[a].status # "storniert" /\ ~beleg[a].geloescht
        /\ AngerechnetIn(a) \subseteq {b}

VersendenLesen(r) ==
    \E b \in Belege : EntwurfDa(b) /\ AbzuegeGueltig(b) /\ Beginnt(r, Vorsatz("versenden", b))

(* The trigger refuses a second shipping: versendet_am is a core field.    *)
VersendenSchreiben(r) ==
    LET b == plan[r].b IN
    /\ plan[r].tut = "versenden" /\ ZeileFrei(r, b)
    /\ beleg' = IF beleg[b].status = "entwurf" THEN [beleg EXCEPT ![b].status = "versendet"] ELSE beleg
    /\ Endet(r) /\ UNCHANGED widerrufen

(* update_rechnung: a draft is discarded ("entwurf" to "storniert").       *)
VerwerfenLesen(r) ==
    \E b \in Belege : EntwurfDa(b) /\ Beginnt(r, Vorsatz("verwerfen", b))

(* storno_rechnung: an instalment must not be deducted anywhere.           *)
StornierenLesen(r) ==
    \E b \in Angelegt :
        /\ beleg[b].status = "versendet" /\ ~beleg[b].geloescht
        /\ beleg[b].art = "abschlag" => AngerechnetIn(b) = {}
        /\ Beginnt(r, Vorsatz("stornieren", b))

StorniertSchreiben(r) ==
    LET b == plan[r].b IN
    /\ plan[r].tut \in {"verwerfen", "stornieren"} /\ ZeileFrei(r, b)
    /\ beleg' = [beleg EXCEPT ![b].status = "storniert"]
    /\ Endet(r) /\ UNCHANGED widerrufen

(* delete_rechnung, and restore of the recycle bin.                        *)
LoeschenLesen(r) ==
    \E b \in Belege : EntwurfDa(b) /\ Beginnt(r, Vorsatz("loeschen", b))

LoeschenSchreiben(r) ==
    /\ plan[r].tut = "loeschen" /\ ZeileFrei(r, plan[r].b)
    /\ beleg' = [beleg EXCEPT ![plan[r].b].geloescht = TRUE]
    /\ Endet(r) /\ UNCHANGED widerrufen

BelegWiederherstellen ==
    \E b \in Angelegt :
        /\ beleg[b].geloescht /\ zurueck + parallel <= MaxZurueck
        /\ beleg' = [beleg EXCEPT ![b].geloescht = FALSE]
        /\ zurueck' = zurueck + 1
        /\ UNCHANGED <<widerrufen, plan, parallel>>

(* widerrufe: the customer's withdrawal, under the lock of the quote.      *)
WiderrufLesen(r) ==
    /\ ~AngebotGesperrt /\ ~widerrufen /\ ~HatVersendete
    /\ Beginnt(r, Vorsatz("widerrufen", Niemand))

WiderrufSchreiben(r) ==
    /\ plan[r].tut = "widerrufen"
    /\ widerrufen' = TRUE
    /\ Endet(r) /\ UNCHANGED beleg

AbNext ==
    \/ \E r \in AbAnfragen :
         \/ AnlegenLesen(r) \/ AnlegenSchreiben(r)
         \/ AnrechnenLesen(r) \/ AnrechnenSchreiben(r)
         \/ AbzugEntfernenLesen(r) \/ AbzugEntfernenSchreiben(r)
         \/ VersendenLesen(r) \/ VersendenSchreiben(r)
         \/ VerwerfenLesen(r) \/ StornierenLesen(r) \/ StorniertSchreiben(r)
         \/ LoeschenLesen(r) \/ LoeschenSchreiben(r)
         \/ WiderrufLesen(r) \/ WiderrufSchreiben(r)
    \/ EntwurfAmVorgang
    \/ BelegWiederherstellen

AbSpec == AbInit /\ [][AbNext]_abVars

-----------------------------------------------------------------------------
VersandtDa(b) == b \in NichtStorniert /\ beleg[b].status = "versendet"

(* abschlag_angerechnet_in: an instalment may be deducted only once.       *)
(* Checked over the invoices that were shipped.                            *)
AbschlagEinmalAngerechnet ==
    \A a \in Belege : Cardinality({b \in Belege : VersandtDa(b) /\ a \in beleg[b].abzug}) <= 1

(* With one request at a time: whatever was deleted, restored, cancelled   *)
(* or deducted elsewhere after a draft was made, a shipped invoice deducts *)
(* instalments in force, and nobody else deducts them.                     *)
AbzugGilt ==
    parallel = 1 =>
        /\ AbschlagEinmalAngerechnet
        /\ \A b \in Belege : VersandtDa(b) => \A a \in beleg[b].abzug : VersandtDa(a)

(* The lock of rechnung_aus_angebot: requests that overlap never bill more *)
(* than the quote together, and there is one full or final invoice at      *)
(* most.  Taking a document back from the bin is not checked against this. *)
NieUeberHundert ==
    zurueck = 0 =>
        /\ Cardinality(ZumAngebot({"rechnung", "schluss"})) <= 1
        /\ MapThenSumSet(LAMBDA b : beleg[b].netto, ZumAngebot({"abschlag"})) <= Voll
        /\ \A b \in ZumAngebot({"rechnung"}) : ZumAngebot({"abschlag"}) = {}

(* What a quote is billed with: never more than it, each instalment        *)
(* deducted once and only while it is in force.                            *)
AbschlagStimmt == AbzugGilt /\ NieUeberHundert
=============================================================================
