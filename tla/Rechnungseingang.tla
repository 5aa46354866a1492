-------------------------- MODULE Rechnungseingang --------------------------
(***************************************************************************)
(* Supplier invoices: api/routes/eingangsrechnungen.py, the import of      *)
(* e-invoices (services/e_rechnung_empfang_service.py) and the mail intake *)
(* (services/email_ingest_service.py).                                     *)
(*                                                                         *)
(* A request reads the row, checks, and writes when it commits; the row is *)
(* not locked when it is read.  Objects in the store are written and       *)
(* deleted before the commit.  The mail intake is a job: one transaction   *)
(* that reads the mailbox above the watermark and deals with one           *)
(* attachment after the other (here a mail has at most one).  Amounts are  *)
(* whole numbers without tax; a number stands for supplier and number.     *)
(***************************************************************************)
EXTENDS Integers, FiniteSets, FiniteSetsExt

CONSTANTS
    Eingangsrechnungen, \* rows of that table
    Dateien,      \* e-invoice files (xml_sha256)
    Nummer,       \* file -> its invoice number and supplier
    Leer,         \* no file, no number, no kind of request
    ErAnfragen,   \* requests at work at the same time
    MaxErBetrag,  \* bound: amounts
    MaxPost,      \* bound: mails in the invoice mailbox
    MaxBelege,    \* keys of receipts, used again when nothing names them
    MaxAusfaelle  \* bound: failed fetches, uploads and commits

VARIABLES
    rechnung,     \* row -> its columns, payments and positions
    objekte,      \* objects in the store: <<row, receipt>>; 0 is the XML
    bearbeitung,  \* request -> what it has read and will write
    postfach,     \* mails by uid
    grenze,       \* integration.config["last_uid"]
    eingang,      \* the transaction of the mail intake
    spur,         \* uid -> what became of the mail
    ausfaelle,
    gespeichert,  \* the settings of the mailbox were saved once
    erZugleich    \* transactions overlap

erVars == <<rechnung, objekte, bearbeitung, postfach, grenze, eingang, spur, ausfaelle, gespeichert, erZugleich>>

Nummern == {Nummer[d] : d \in Dateien}

(* What a mail brings: an e-invoice, alone or in a PDF; a PDF without a usable one; nothing from
   which an invoice can be made. *)
Anhaenge == [art : {"xml", "hybrid"}, datei : Dateien] \cup [art : {"pdf", "nichts"}, datei : {Leer}]

KeineZeile ==
    [status |-> "keine", geloescht |-> FALSE, xml |-> Leer, nummer |-> 0, netto |-> 0, positionen |-> 0,
     gezahlt |-> 0, durchZahlung |-> FALSE, beleg |-> 0, ersetzt |-> FALSE, zurueck |-> FALSE, mail |-> 0]

Zeilen ==
    [status : {"keine", "entwurf", "offen", "bezahlt", "storniert"}, geloescht : BOOLEAN,
     xml : Dateien \cup {Leer}, nummer : Nummern \cup {0}, netto : 0..MaxErBetrag,
     positionen : Nat, gezahlt : Nat, durchZahlung : BOOLEAN, beleg : 0..MaxBelege,
     ersetzt : BOOLEAN, zurueck : BOOLEAN, mail : 0..MaxPost]

Aenderungen == {"zahlung", "position", "betrag", "bestaetigen", "bezahlt", "storniert", "loeschen"}
Belegarten == {"beleg", "belegWeg"}

ASSUME RechnungseingangAnnahme ==
    /\ Nummer \in [Dateien -> Nat \ {0}]
    /\ Leer \notin Dateien \cup Nat \cup Eingangsrechnungen \cup Aenderungen \cup Belegarten \cup {"import"}
    /\ {MaxErBetrag, MaxPost, MaxBelege, MaxAusfaelle} \subseteq Nat /\ MaxErBetrag > 0
    /\ IsFiniteSet(ErAnfragen) /\ MaxBelege > Cardinality(ErAnfragen)

OhneAnfrage == [art |-> Leer, zeile |-> Leer, alt |-> KeineZeile, wert |-> 0, abgelegt |-> FALSE]
Ruht == [laeuft |-> FALSE, offen |-> {}, bis |-> 0, zeilen |-> <<>>, spur |-> <<>>]

ErTyp ==
    /\ \A e \in Eingangsrechnungen : rechnung[e] \in Zeilen
    /\ objekte \subseteq Eingangsrechnungen \X (0..MaxBelege)
    /\ \A a \in ErAnfragen :
          /\ bearbeitung[a].art \in Aenderungen \cup Belegarten \cup {"import", Leer}
          /\ bearbeitung[a].zeile \in Eingangsrechnungen \cup {Leer}
          /\ bearbeitung[a].alt \in Zeilen
    /\ DOMAIN postfach \subseteq 1..MaxPost /\ \A u \in DOMAIN postfach : postfach[u] \in Anhaenge
    /\ grenze \in 0..MaxPost
    /\ eingang.offen \subseteq DOMAIN postfach
    /\ DOMAIN eingang.zeilen \subseteq {e \in Eingangsrechnungen : rechnung[e] = KeineZeile}
    /\ ausfaelle \in 0..MaxAusfaelle

ErInit ==
    /\ rechnung = [e \in Eingangsrechnungen |-> KeineZeile]
    /\ objekte = {}
    /\ bearbeitung = [a \in ErAnfragen |-> OhneAnfrage]
    /\ postfach = <<>>
    /\ grenze = 0
    /\ eingang = Ruht
    /\ spur = <<>>
    /\ ausfaelle = 0
    /\ gespeichert = FALSE
    /\ erZugleich \in BOOLEAN

-----------------------------------------------------------------------------
\* What f says, and where it says nothing, g.
Darueber(f, g) == [x \in DOMAIN f \cup DOMAIN g |-> IF x \in DOMAIN f THEN f[x] ELSE g[x]]
Mit(f, x, wert) == [y \in DOMAIN f \cup {x} |-> IF y = x THEN wert ELSE f[y]]

Lebt(z) == z.status # "keine" /\ ~z.geloescht
Brutto(z) == IF z.positionen > 0 THEN z.positionen ELSE z.netto
OffenerBetrag(z) == Brutto(z) - z.gezahlt

DarfBeginnen == erZugleich \/ (~eingang.laeuft /\ \A a \in ErAnfragen : bearbeitung[a] = OhneAnfrage)

\* Row ids that nothing has used, not even an open transaction.
FreieZeilen ==
    {e \in Eingangsrechnungen : /\ rechnung[e] = KeineZeile /\ e \notin DOMAIN eingang.zeilen
                        /\ \A a \in ErAnfragen : bearbeitung[a].zeile # e}
Naechste == CHOOSE e \in FreieZeilen : TRUE

\* Mutant: only the checksum tells a duplicate.
DuplikatNurPruefsumme(d, zeilen) ==
    \E e \in DOMAIN zeilen : Lebt(zeilen[e]) /\ zeilen[e].xml = d

(* _finde_duplikat, over the live rows the transaction sees. *)
Duplikat(d, zeilen) ==
    \E e \in DOMAIN zeilen : Lebt(zeilen[e]) /\ (zeilen[e].xml = d \/ zeilen[e].nummer = Nummer[d])

(* importiere_e_rechnung: an open row with its XML and, from a hybrid PDF, its receipt. *)
Importiert(d, hybrid, uid) ==
    [KeineZeile EXCEPT !.status = "offen", !.xml = d, !.nummer = Nummer[d], !.netto = 1,
                       !.beleg = IF hybrid THEN 1 ELSE 0, !.mail = uid]

(* _Lauf.pdf_entwurf *)
PdfEntwurf(uid) == [KeineZeile EXCEPT !.status = "entwurf", !.beleg = 1, !.mail = uid]

Gebraucht(e, z) == {<<e, 0>> : d \in {z.xml} \ {Leer}} \cup {<<e, b>> : b \in {z.beleg} \ {0}}

-----------------------------------------------------------------------------
(* create_eingangsrechnung: by hand, without looking for duplicates. *)
Create ==
    /\ DarfBeginnen /\ FreieZeilen # {}
    /\ \E n \in Nummern, b \in 1..MaxErBetrag :
          rechnung' = [rechnung EXCEPT ![Naechste] = [@ EXCEPT !.status = "offen", !.nummer = n, !.netto = b]]
    /\ UNCHANGED <<objekte, bearbeitung, postfach, grenze, eingang, spur, ausfaelle, gespeichert, erZugleich>>

(* papierkorb_service.restore *)
Restore(e) ==
    /\ DarfBeginnen
    /\ rechnung[e].geloescht
    /\ rechnung' = [rechnung EXCEPT ![e].geloescht = FALSE, ![e].zurueck = TRUE]
    /\ UNCHANGED <<objekte, bearbeitung, postfach, grenze, eingang, spur, ausfaelle, gespeichert, erZugleich>>

\* Mutant: positions are added to paid invoices, too.
PositionImmerErlaubt(z, w) == z.status \in {"offen", "bezahlt"} /\ w > 0 /\ z.positionen + w <= MaxErBetrag

(* The checks of add_position, and of the other requests, on the row as it is read. *)
PositionErlaubt(z, w) == z.status = "offen" /\ w > 0 /\ z.positionen + w <= MaxErBetrag

Zulaessig(art, z, w) ==
    \/ art = "zahlung" /\ z.status = "offen" /\ w > 0 /\ w <= OffenerBetrag(z)
    \/ art = "position" /\ PositionErlaubt(z, w)
    \/ art = "betrag" /\ z.status \in {"entwurf", "offen"} /\ z.positionen = 0 /\ w \in 1..MaxErBetrag
    \/ art = "bestaetigen" /\ z.status = "entwurf" /\ w \in Nummern
    \/ art \in {"bezahlt", "storniert"} /\ z.status = "offen" /\ w = 0
    \/ art = "loeschen" /\ z.status \in {"offen", "entwurf"} /\ w = 0
    \/ art \in Belegarten /\ w = 0

Lesen(a) ==
    /\ bearbeitung[a] = OhneAnfrage /\ DarfBeginnen
    /\ \E e \in Eingangsrechnungen, art \in Aenderungen \cup Belegarten, w \in (0..MaxErBetrag) \cup Nummern :
          /\ Lebt(rechnung[e]) /\ Zulaessig(art, rechnung[e], w)
          /\ bearbeitung' = [bearbeitung EXCEPT ![a] =
                            [art |-> art, zeile |-> e, alt |-> rechnung[e], wert |-> w, abgelegt |-> FALSE]]
    /\ UNCHANGED <<rechnung, objekte, postfach, grenze, eingang, spur, ausfaelle, gespeichert, erZugleich>>

(* What the commit writes: the columns the request has set, and the rows it has added. *)
Nachher(z, r) ==
    LET beglichen == OffenerBetrag(r.alt) - r.wert <= 0 IN
    CASE r.art = "zahlung" ->
             [z EXCEPT !.gezahlt = @ + r.wert, !.status = IF beglichen THEN "bezahlt" ELSE @,
                       !.durchZahlung = @ \/ beglichen]
      [] r.art = "position" -> [z EXCEPT !.positionen = @ + r.wert]
      [] r.art = "betrag" -> [z EXCEPT !.netto = r.wert]
      [] r.art = "bestaetigen" -> [z EXCEPT !.status = "offen", !.nummer = r.wert, !.netto = 1]
      [] r.art \in {"bezahlt", "storniert"} -> [z EXCEPT !.status = r.art]
      [] r.art = "loeschen" -> [z EXCEPT !.geloescht = TRUE]
      [] r.art \in Belegarten -> [z EXCEPT !.beleg = r.wert, !.ersetzt = FALSE]

\* A key that no row and no request names.
NeuerBeleg(e) ==
    Min((1..MaxBelege) \ ({rechnung[e].beleg} \cup {bearbeitung[a].alt.beleg : a \in {b \in ErAnfragen : bearbeitung[b].zeile = e}}))

(* upload_beleg and remove_beleg: the new object is stored, the UPDATE locks the row, the old
   object is deleted. *)
Ablegen(a) ==
    LET r == bearbeitung[a]
        neu == IF r.art = "beleg" THEN NeuerBeleg(r.zeile) ELSE 0
    IN /\ r.art \in Belegarten /\ ~r.abgelegt
       /\ \A b \in ErAnfragen : bearbeitung[b].zeile = r.zeile => ~bearbeitung[b].abgelegt
       /\ objekte' = (objekte \cup ({<<r.zeile, neu>>} \ {<<r.zeile, 0>>})) \ ({<<r.zeile, r.alt.beleg>>} \ {<<r.zeile, 0>>})
       /\ bearbeitung' = [bearbeitung EXCEPT ![a].wert = neu, ![a].abgelegt = TRUE]
       /\ UNCHANGED <<rechnung, postfach, grenze, eingang, spur, ausfaelle, gespeichert, erZugleich>>

\* The request updates the row itself, so it waits for an UPDATE that has not committed.
SchreibtZeile(r) == r.art # "position" /\ (r.art = "zahlung" => OffenerBetrag(r.alt) <= r.wert)

Schreiben(a) ==
    LET r == bearbeitung[a] IN
    /\ r.art \in Aenderungen \cup Belegarten /\ (r.art \in Belegarten => r.abgelegt)
    /\ SchreibtZeile(r) => \A b \in ErAnfragen \ {a} : bearbeitung[b].zeile = r.zeile => ~bearbeitung[b].abgelegt
    /\ rechnung' = [rechnung EXCEPT ![r.zeile] = Nachher(@, r)]
    /\ bearbeitung' = [bearbeitung EXCEPT ![a] = OhneAnfrage]
    /\ UNCHANGED <<objekte, postfach, grenze, eingang, spur, ausfaelle, gespeichert, erZugleich>>

(* The commit fails: the object that the row names may be gone. *)
SchreibenScheitert(a) ==
    LET r == bearbeitung[a] IN
    /\ r.art # Leer /\ ausfaelle < MaxAusfaelle
    /\ ausfaelle' = ausfaelle + 1
    /\ rechnung' = IF r.abgelegt /\ rechnung[r.zeile].beleg \in {r.alt.beleg} \ {0}
                   THEN [rechnung EXCEPT ![r.zeile].ersetzt = TRUE] ELSE rechnung
    /\ bearbeitung' = [bearbeitung EXCEPT ![a] = OhneAnfrage]
    /\ UNCHANGED <<objekte, postfach, grenze, eingang, spur, gespeichert, erZugleich>>

-----------------------------------------------------------------------------
(* import_e_rechnung: the search for a duplicate, then row and objects; a failed upload takes
   the objects back, a failed commit leaves them. *)
ImportPrueft(a) ==
    /\ bearbeitung[a] = OhneAnfrage /\ DarfBeginnen /\ FreieZeilen # {}
    /\ \E d \in Dateien, hybrid \in BOOLEAN :
          /\ ~Duplikat(d, rechnung)
          /\ bearbeitung' = [bearbeitung EXCEPT ![a] = [OhneAnfrage EXCEPT
                            !.art = "import", !.zeile = Naechste, !.alt = Importiert(d, hybrid, 0)]]
    /\ UNCHANGED <<rechnung, objekte, postfach, grenze, eingang, spur, ausfaelle, gespeichert, erZugleich>>

ImportSchreibt(a) ==
    LET r == bearbeitung[a] IN
    /\ r.art = "import"
    /\ rechnung' = [rechnung EXCEPT ![r.zeile] = r.alt]
    /\ objekte' = objekte \cup Gebraucht(r.zeile, r.alt)
    /\ bearbeitung' = [bearbeitung EXCEPT ![a] = OhneAnfrage]
    /\ UNCHANGED <<postfach, grenze, eingang, spur, ausfaelle, gespeichert, erZugleich>>

-----------------------------------------------------------------------------
PostAnkunft ==
    /\ Cardinality(DOMAIN postfach) < MaxPost
    /\ \E i \in Anhaenge : postfach' = Mit(postfach, Cardinality(DOMAIN postfach) + 1, i)
    /\ UNCHANGED <<rechnung, objekte, bearbeitung, grenze, eingang, spur, ausfaelle, gespeichert, erZugleich>>

(* update_integration: the form sends the whole config, without the watermark. *)
EinstellungenSpeichern ==
    /\ ~gespeichert /\ DarfBeginnen
    /\ gespeichert' = TRUE
    /\ grenze' = 0
    /\ UNCHANGED <<rechnung, objekte, bearbeitung, postfach, eingang, spur, ausfaelle, erZugleich>>

(* run_email_ingest, _fetch_neue_nachrichten: the fetch of some mails may fail, the highest uid
   counts all the same. *)
EingangBeginnt ==
    /\ ~eingang.laeuft /\ DarfBeginnen
    /\ LET neue == {u \in DOMAIN postfach : u > grenze}
       IN /\ neue # {} /\ Cardinality(neue) <= Cardinality(FreieZeilen)
          /\ \E fehlt \in SUBSET neue :
                /\ fehlt # {} => ausfaelle < MaxAusfaelle
                /\ ausfaelle' = IF fehlt = {} THEN ausfaelle ELSE ausfaelle + 1
                /\ eingang' = [laeuft |-> TRUE, offen |-> neue \ fehlt, bis |-> Max(neue), zeilen |-> <<>>,
                               spur |-> [u \in fehlt |-> "nichtGeholt"]]
    /\ UNCHANGED <<rechnung, objekte, bearbeitung, postfach, grenze, spur, gespeichert, erZugleich>>

(* The end of a mail's turn: a row (with its objects), a notification, or a duplicate. *)
Behandelt(u, was) ==
    /\ eingang' = [eingang EXCEPT !.offen = @ \ {u}, !.spur = Mit(@, u, was)]
    /\ UNCHANGED objekte
BekommtZeile(u, z) ==
    /\ FreieZeilen # {}
    /\ eingang' = [eingang EXCEPT !.offen = @ \ {u}, !.spur = Mit(@, u, "zeile"),
                                  !.zeilen = Mit(@, Naechste, z)]
    /\ objekte' = objekte \cup Gebraucht(Naechste, z)

(* _Lauf.e_rechnung_importieren; a failure inside it is rolled back to the savepoint. *)
ERechnung(u, d, hybrid) ==
    \/ ~Duplikat(d, Darueber(eingang.zeilen, rechnung)) /\ BekommtZeile(u, Importiert(d, hybrid, u)) /\ UNCHANGED ausfaelle
    \/ Duplikat(d, Darueber(eingang.zeilen, rechnung)) /\ Behandelt(u, "duplikat") /\ UNCHANGED ausfaelle
    \/ ausfaelle < MaxAusfaelle /\ ausfaelle' = ausfaelle + 1 /\ Behandelt(u, "meldung")

(* _Lauf.verarbeite *)
Verarbeite ==
    /\ eingang.offen # {}
    /\ LET u == Min(eingang.offen)
           i == postfach[u]
       IN \/ i.art \in {"xml", "hybrid"} /\ ERechnung(u, i.datei, i.art = "hybrid")
          \/ i.art = "nichts" /\ Behandelt(u, "meldung") /\ UNCHANGED ausfaelle
          \/ i.art = "pdf" /\ BekommtZeile(u, PdfEntwurf(u)) /\ UNCHANGED ausfaelle
    /\ UNCHANGED <<rechnung, bearbeitung, postfach, grenze, spur, gespeichert, erZugleich>>

\* Mutant: the watermark is not written.
AbschliessenOhneGrenze ==
    /\ eingang.laeuft /\ eingang.offen = {}
    /\ rechnung' = Darueber(eingang.zeilen, rechnung)
    /\ spur' = Darueber(eingang.spur, spur)
    /\ eingang' = Ruht
    /\ UNCHANGED <<objekte, bearbeitung, postfach, grenze, ausfaelle, gespeichert, erZugleich>>

(* _Lauf.abschliessen and the commit: rows, notifications and watermark together. *)
Abschliessen ==
    /\ eingang.laeuft /\ eingang.offen = {}
    /\ rechnung' = Darueber(eingang.zeilen, rechnung)
    /\ grenze' = eingang.bis
    /\ spur' = Darueber(eingang.spur, spur)
    /\ eingang' = Ruht
    /\ UNCHANGED <<objekte, bearbeitung, postfach, ausfaelle, gespeichert, erZugleich>>

(* The run ends without a commit (a draft cannot be uploaded, a crash).  Its objects stay behind;
   no row can name them any more, so they are not kept here. *)
EingangAbgebrochen ==
    /\ eingang.laeuft /\ ausfaelle < MaxAusfaelle
    /\ ausfaelle' = ausfaelle + 1
    /\ objekte' = {o \in objekte : o[1] \notin DOMAIN eingang.zeilen}
    /\ eingang' = Ruht
    /\ UNCHANGED <<rechnung, bearbeitung, postfach, grenze, spur, gespeichert, erZugleich>>

ErNext ==
    \/ Create \/ PostAnkunft \/ EinstellungenSpeichern
    \/ EingangBeginnt \/ Verarbeite \/ Abschliessen \/ EingangAbgebrochen
    \/ \E e \in Eingangsrechnungen : Restore(e)
    \/ \E a \in ErAnfragen :
          \/ Lesen(a) \/ Ablegen(a) \/ Schreiben(a) \/ SchreibenScheitert(a)
          \/ ImportPrueft(a) \/ ImportSchreibt(a)

ErSpec == ErInit /\ [][ErNext]_erVars

-----------------------------------------------------------------------------
(* An e-invoice is in the books once: a file, and a supplier's number, is imported once, also
   when it comes by mail and by hand.  Transactions that overlap, and a row restored after its
   file was imported again, are not stopped. *)
EinmalErfasst ==
    ~erZugleich =>
        \A e, f \in Eingangsrechnungen :
            /\ e # f
            /\ \A g \in {e, f} : Lebt(rechnung[g]) /\ rechnung[g].xml # Leer /\ ~rechnung[g].zurueck
            => rechnung[e].xml # rechnung[f].xml /\ rechnung[e].nummer # rechnung[f].nummer

(* What proves the invoice is there: its XML, and its receipt unless a request replaced it and
   then failed to commit. *)
BelegDa ==
    \A e \in Eingangsrechnungen :
        Gebraucht(e, rechnung[e]) \subseteq
            objekte \cup {<<e, b>> : b \in {x \in 1..MaxBelege : rechnung[e].ersetzt}}
            \cup {<<e, bearbeitung[a].alt.beleg>> : a \in {b \in ErAnfragen : bearbeitung[b].zeile = e /\ bearbeitung[b].abgelegt}}

(* An invoice settled by payments was paid exactly, and stays so. *)
BezahltGedeckt ==
    ~erZugleich => \A e \in Eingangsrechnungen : rechnung[e].durchZahlung => rechnung[e].gezahlt = Brutto(rechnung[e])

(* A mail at or below the watermark has left its trace: one row that names it, a notification,
   a duplicate, or a fetch that failed.  No mail has two rows, until somebody saves the
   settings of the mailbox, which forgets the watermark. *)
MailEinmal ==
    /\ \A u \in 1..grenze : u \in DOMAIN spur
    /\ ~gespeichert =>
          /\ \A u \in DOMAIN spur : u <= grenze
          /\ \A u \in DOMAIN postfach :
                LET zeilen == {e \in Eingangsrechnungen : rechnung[e].mail = u}
                IN IF u \in DOMAIN spur /\ spur[u] = "zeile" THEN Cardinality(zeilen) = 1 ELSE zeilen = {}

(***************************************************************************)
(* What comes in is kept once and with its proof.                          *)
(***************************************************************************)
EingangStimmt == EinmalErfasst /\ BelegDa /\ BezahltGedeckt /\ MailEinmal
=============================================================================
