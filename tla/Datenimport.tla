---------------------------- MODULE Datenimport ----------------------------
(***************************************************************************)
(* One run of the data import: services/datenimport/lauf.py and            *)
(* rueckgaengig.py with the routes in api/routes/datenimport.py.           *)
(*                                                                         *)
(* A file is analysed, checked in a trial run, executed in one transaction *)
(* with a savepoint per batch, and may be undone.  Executing and undoing   *)
(* lock the row of the run, the trial run, discarding and the clean-up job *)
(* do not: what they have loaded travels in `imAnfrage`, and the ORM       *)
(* writes only the columns that differ from it.  Objects in the store are  *)
(* removed before the commit.                                              *)
(***************************************************************************)
EXTENDS Integers, FiniteSets

CONSTANTS
    ImZeilen,       \* rows of the file; a row carries the number of its customer
    ImAnfragen,     \* requests that may overlap, the clean-up job among them
    Berichte,       \* keys of error reports (bound: reports written)
    KeinBericht,
    UngueltigeMengen,  \* sets of rows that may fail the check
    MaxFremd,       \* bound: changes by others, one of them while requests overlap
    MaxPannen       \* bound: requests that die before the commit

ASSUME ImportAnnahme ==
    /\ KeinBericht \notin Berichte /\ MaxFremd \in Nat /\ MaxPannen \in Nat
    /\ UngueltigeMengen \subseteq SUBSET ImZeilen
    /\ (Berichte \cup {KeinBericht}) \cap {"ohne", "schreiben", "ablegen", "mitBericht"} = {}

VARIABLES
    imZugleich,     \* whether requests overlap in this behaviour
    imLauf,         \* the row import_laeufe
    speicher,       \* objects of the run in the store
    kunde,          \* row of the file -> the customer with its number
    eintrag,        \* row of the file -> what import_lauf_eintraege says of it
    imAnfrage,
    imZaehler       \* history: executions, undo overtaken by others; used up bounds

imVars == <<imZugleich, imLauf, speicher, kunde, eintrag, imAnfrage, imZaehler>>

Modi == {"gueltige", "alles_oder_nichts"}
NieImportiert == [stand |-> "keiner", herkunft |-> "keine", geaendert |-> FALSE,
                  abhaengig |-> FALSE, durch |-> "niemand"]
ImRuhe == [art |-> "ruht", schritt |-> "ohne", status |-> "ohne", modus |-> "ohne",
           neu |-> {}, da |-> {}, fehler |-> {}, abbruch |-> FALSE]

LaufStatus == {"analysiert", "geprueft", "abgeschlossen", "abgebrochen", "abgelaufen", "rueckgaengig"}
ImAnfrageTyp ==
    [art : {"ruht", "probelauf", "ausfuehren", "rueckgaengig", "verwerfen", "raeumen"},
     schritt : {"ohne", "schreiben", "ablegen", "mitBericht", KeinBericht} \cup Berichte,
     status : LaufStatus \cup {"ohne"}, modus : Modi \cup {"ohne"}, neu : SUBSET ImZeilen,
     da : SUBSET ImZeilen, fehler : SUBSET ImZeilen, abbruch : BOOLEAN]

ImTyp ==
    /\ imZugleich \in BOOLEAN
    /\ imLauf \in [status : LaufStatus, modus : Modi \cup {"ohne"}, quelle : BOOLEAN,
                    bericht : Berichte \cup {KeinBericht}, fehler : SUBSET ImZeilen,
                    ungueltig : SUBSET ImZeilen, alt : BOOLEAN]
    /\ speicher \in [quelle : BOOLEAN, berichte : SUBSET Berichte]
    /\ kunde \in [ImZeilen -> [stand : {"keiner", "aktiv", "papierkorb"},
                               herkunft : {"keine", "import", "fremd"}, geaendert : BOOLEAN,
                               abhaengig : BOOLEAN, durch : {"niemand", "lauf", "nutzer"}]]
    /\ eintrag \in [ImZeilen -> {"keiner", "angelegt", "aktualisiert"}]
    /\ imAnfrage \in [ImAnfragen -> ImAnfrageTyp]
    /\ imZaehler \in [ausgefuehrt : Nat, dazwischen : BOOLEAN, fremd : Nat, pannen : Nat]

(* analysiere: the upload and the new row. *)
ImInit ==
    /\ imZugleich \in BOOLEAN
    /\ \E u \in UngueltigeMengen :
         imLauf = [status |-> "analysiert", modus |-> "ohne", quelle |-> TRUE,
                   bericht |-> KeinBericht, fehler |-> {}, ungueltig |-> u, alt |-> FALSE]
    /\ speicher = [quelle |-> TRUE, berichte |-> {}]
    /\ kunde = [z \in ImZeilen |-> NieImportiert]
    /\ eintrag = [z \in ImZeilen |-> "keiner"]
    /\ imAnfrage = [a \in ImAnfragen |-> ImRuhe]
    /\ imZaehler = [ausgefuehrt |-> 0, dazwischen |-> FALSE, fremd |-> 0, pannen |-> 0]

ImFrei(a) ==
    /\ imAnfrage[a] = ImRuhe
    /\ ~imZugleich => \A b \in ImAnfragen : imAnfrage[b] = ImRuhe

(* FOR UPDATE of the run, held until the commit; other updates of the row wait for it. *)
HaeltLauf(b) == imAnfrage[b].art \in {"ausfuehren", "rueckgaengig"}
ZeileFrei == \A b \in ImAnfragen : ~HaeltLauf(b)

\* Mutant: execution does not wait for the row.
ZeileImmerFrei == TRUE

ZeileFuerAusfuehren == ZeileFrei

An(a, schritt) == imAnfrage[a].schritt = schritt

(* pruefen of a Verarbeiter: invalid rows and numbers held by the bin are errors, known
   customers are duplicates (here always to be updated), the others are new. *)
Geprueft ==
    LET fehler == {z \in ImZeilen : z \in imLauf.ungueltig \/ kunde[z].stand = "papierkorb"}
    IN [fehler |-> fehler,
        da |-> {z \in ImZeilen \ fehler : kunde[z].stand = "aktiv"},
        neu |-> {z \in ImZeilen \ fehler : kunde[z].stand = "keiner"}]

(* lade_tabelle answers 410 when the source is gone. *)
QuelleLesbar == imLauf.quelle /\ speicher.quelle

(* probelauf: the row is loaded and checked ... *)
ProbelaufBeginnt(a, m) ==
    /\ ImFrei(a) /\ QuelleLesbar
    /\ imLauf.status \in {"analysiert", "geprueft", "abgebrochen"}
    /\ imAnfrage' = [imAnfrage EXCEPT ![a] =
         [ImRuhe EXCEPT !.art = "probelauf", !.schritt = "schreiben", !.status = imLauf.status,
                        !.modus = m, !.fehler = Geprueft.fehler]]
    /\ UNCHANGED <<imZugleich, imLauf, speicher, kunde, eintrag, imZaehler>>

(* ... and written later; the status only if it was another when loaded. *)
ProbelaufSchreibt(a) ==
    /\ imAnfrage[a].art = "probelauf" /\ ZeileFrei
    /\ imLauf' = [imLauf EXCEPT !.modus = imAnfrage[a].modus, !.fehler = imAnfrage[a].fehler,
                            !.status = IF imAnfrage[a].status = "geprueft" THEN @ ELSE "geprueft"]
    /\ imAnfrage' = [imAnfrage EXCEPT ![a] = ImRuhe]
    /\ UNCHANGED <<imZugleich, speicher, kunde, eintrag, imZaehler>>

(* ausfuehren: exactly what was checked, on the locked row; the file is checked again. *)
AusfuehrenBeginnt(a) ==
    /\ ImFrei(a) /\ ZeileFuerAusfuehren /\ QuelleLesbar
    /\ imLauf.status \in {"geprueft", "abgebrochen"}
    /\ LET p == Geprueft
           ab == imLauf.modus = "alles_oder_nichts" /\ p.fehler # {}
       IN imAnfrage' = [imAnfrage EXCEPT ![a] =
            [art |-> "ausfuehren", schritt |-> IF ab THEN "ablegen" ELSE "schreiben",
             status |-> imLauf.status, modus |-> imLauf.modus, neu |-> IF ab THEN {} ELSE p.neu,
             da |-> IF ab THEN {} ELSE p.da, fehler |-> p.fehler, abbruch |-> ab]]
    /\ UNCHANGED <<imZugleich, imLauf, speicher, kunde, eintrag, imZaehler>>

(* _schreiben: numbers taken since the check break the batch.  "gueltige" repeats it row by
   row, "alles_oder_nichts" returns to the outer savepoint. *)
Vergeben(a) == {z \in imAnfrage[a].neu : kunde[z].stand # "keiner"}

\* Mutant: the rows are repeated one by one in both modes.
NachSchreibenEinzeln(q, vergeben) ==
    [q EXCEPT !.schritt = "ablegen", !.neu = @ \ vergeben, !.fehler = @ \cup vergeben]

NachSchreiben(q, vergeben) ==
    IF vergeben = {} \/ q.modus = "gueltige"
    THEN [q EXCEPT !.schritt = "ablegen", !.neu = @ \ vergeben, !.fehler = @ \cup vergeben]
    ELSE [q EXCEPT !.schritt = "ablegen", !.neu = {}, !.da = {}, !.abbruch = TRUE]

AusfuehrenSchreibt(a) ==
    /\ imAnfrage[a].art = "ausfuehren" /\ An(a, "schreiben")
    /\ imAnfrage' = [imAnfrage EXCEPT ![a] = NachSchreiben(@, Vergeben(a))]
    /\ UNCHANGED <<imZugleich, imLauf, speicher, kunde, eintrag, imZaehler>>

(* _fehlerbericht_ablegen and _quelle_entfernen, before the commit. *)
AusfuehrenLegtAb(a) ==
    LET q == imAnfrage[a] IN
    /\ q.art = "ausfuehren" /\ An(a, "ablegen")
    /\ \/ /\ q.fehler = {}
          /\ speicher' = [speicher EXCEPT !.quelle = @ /\ q.abbruch]
          /\ imAnfrage' = [imAnfrage EXCEPT ![a].schritt = KeinBericht]
       \/ \E b \in Berichte \ speicher.berichte :
            /\ q.fehler # {} /\ b # imLauf.bericht
            /\ speicher' = [quelle |-> speicher.quelle /\ q.abbruch,
                            berichte |-> (speicher.berichte \ {imLauf.bericht}) \cup {b}]
            /\ imAnfrage' = [imAnfrage EXCEPT ![a].schritt = b]
    /\ UNCHANGED <<imZugleich, imLauf, kunde, eintrag, imZaehler>>

Angelegt == [NieImportiert EXCEPT !.stand = "aktiv", !.herkunft = "import"]

\* Mutant: entries also for the rows that failed.
EintraegeAuchFehler(q) ==
    [z \in ImZeilen |-> CASE z \in q.neu \cup q.fehler -> "angelegt" [] z \in q.da -> "aktualisiert"
                          [] OTHER -> eintrag[z]]

Eintraege(q) ==
    [z \in ImZeilen |-> CASE z \in q.neu -> "angelegt" [] z \in q.da -> "aktualisiert"
                          [] OTHER -> eintrag[z]]

AusfuehrenCommit(a) ==
    LET q == imAnfrage[a] IN
    /\ q.art = "ausfuehren" /\ q.schritt \in Berichte \cup {KeinBericht}
    /\ kunde' = [z \in ImZeilen |-> CASE z \in q.neu -> Angelegt
                                      [] z \in q.da -> [kunde[z] EXCEPT !.geaendert = TRUE]
                                      [] OTHER -> kunde[z]]
    /\ eintrag' = Eintraege(q)
    /\ imLauf' = [imLauf EXCEPT !.status = IF q.abbruch THEN "abgebrochen" ELSE "abgeschlossen",
                            !.fehler = q.fehler, !.quelle = @ /\ q.abbruch,
                            !.bericht = IF q.fehler = {} THEN @ ELSE q.schritt]
    /\ imZaehler' = [imZaehler EXCEPT !.ausgefuehrt = @ + (IF q.abbruch THEN 0 ELSE 1)]
    /\ imAnfrage' = [imAnfrage EXCEPT ![a] = ImRuhe]
    /\ UNCHANGED <<imZugleich, speicher>>

(* rueckgaengig: created by this run, active, unchanged and without living dependents. *)
Zuruecksetzbar ==
    {z \in ImZeilen : /\ eintrag[z] = "angelegt" /\ kunde[z].stand = "aktiv"
                      /\ ~kunde[z].geaendert /\ ~kunde[z].abhaengig}

\* Mutant: dependents do not count.
ZuruecksetzbarTrotzdem ==
    {z \in ImZeilen : eintrag[z] = "angelegt" /\ kunde[z].stand = "aktiv" /\ ~kunde[z].geaendert}

Auswahl == Zuruecksetzbar

RueckgaengigBeginnt(a) ==
    /\ ImFrei(a) /\ ZeileFrei /\ imLauf.status = "abgeschlossen"
    /\ imAnfrage' = [imAnfrage EXCEPT ![a] =
         [ImRuhe EXCEPT !.art = "rueckgaengig", !.schritt = "schreiben", !.neu = Auswahl,
                        !.da = {z \in ImZeilen : /\ eintrag[z] = "angelegt"
                                                 /\ kunde[z].stand = "papierkorb"}]]
    /\ UNCHANGED <<imZugleich, imLauf, speicher, kunde, eintrag, imZaehler>>

RueckgaengigCommit(a) ==
    LET q == imAnfrage[a] IN
    /\ q.art = "rueckgaengig"
    /\ kunde' = [z \in ImZeilen |-> IF z \in q.neu /\ kunde[z].stand = "aktiv"
                                    THEN [kunde[z] EXCEPT !.stand = "papierkorb", !.durch = "lauf"]
                                    ELSE kunde[z]]
    /\ imLauf' = [imLauf EXCEPT !.status = IF q.neu \cup q.da # {} THEN "rueckgaengig" ELSE @]
    /\ imAnfrage' = [imAnfrage EXCEPT ![a] = ImRuhe]
    /\ UNCHANGED <<imZugleich, speicher, eintrag, imZaehler>>

(* verwerfen and raeume_auf: the objects go first ... *)
VerwerfenBeginnt(a) ==
    /\ ImFrei(a) /\ imLauf.status \in {"analysiert", "geprueft", "abgebrochen"}
    /\ speicher' = [speicher EXCEPT !.quelle = @ /\ ~imLauf.quelle]
    /\ imAnfrage' = [imAnfrage EXCEPT ![a] =
         [ImRuhe EXCEPT !.art = "verwerfen", !.schritt = "schreiben", !.status = "abgelaufen",
                        !.abbruch = imLauf.quelle]]
    /\ UNCHANGED <<imZugleich, imLauf, kunde, eintrag, imZaehler>>

RaeumeBeginnt(a) ==
    LET bericht == /\ imLauf.bericht # KeinBericht
                   /\ imLauf.status \in {"abgeschlossen", "rueckgaengig", "abgelaufen", "abgebrochen"}
    IN
    /\ ImFrei(a) /\ imLauf.alt /\ (imLauf.quelle \/ bericht)
    /\ speicher' = [quelle |-> speicher.quelle /\ ~imLauf.quelle,
                    berichte |-> IF bericht THEN speicher.berichte \ {imLauf.bericht}
                                 ELSE speicher.berichte]
    /\ imAnfrage' = [imAnfrage EXCEPT ![a] =
         [ImRuhe EXCEPT !.art = "raeumen",
                        !.schritt = IF bericht THEN "mitBericht" ELSE "schreiben",
                        !.status = IF imLauf.quelle /\ imLauf.status \in {"analysiert", "geprueft"}
                                   THEN "abgelaufen" ELSE "ohne",
                        !.abbruch = imLauf.quelle]]
    /\ UNCHANGED <<imZugleich, imLauf, kunde, eintrag, imZaehler>>

(* ... then the columns that differ from what was loaded. *)
EntfernenSchreibt(a) ==
    LET q == imAnfrage[a] IN
    /\ q.art \in {"verwerfen", "raeumen"} /\ ZeileFrei
    /\ imLauf' = [imLauf EXCEPT !.quelle = @ /\ ~q.abbruch,
                            !.status = IF q.status = "ohne" THEN @ ELSE q.status,
                            !.bericht = IF q.schritt = "mitBericht" THEN KeinBericht ELSE @]
    /\ imAnfrage' = [imAnfrage EXCEPT ![a] = ImRuhe]
    /\ UNCHANGED <<imZugleich, speicher, kunde, eintrag, imZaehler>>

(* A request dies or exceeds the time limit: the transaction is rolled back, the store is not
   (a report that nobody names is not followed further). *)
ImportScheitert(a) ==
    /\ imAnfrage[a] # ImRuhe /\ imZaehler.pannen < MaxPannen
    /\ speicher' = [speicher EXCEPT !.berichte = @ \ {imAnfrage[a].schritt}]
    /\ imAnfrage' = [imAnfrage EXCEPT ![a] = ImRuhe]
    /\ imZaehler' = [imZaehler EXCEPT !.pannen = @ + 1]
    /\ UNCHANGED <<imZugleich, imLauf, kunde, eintrag>>

(* Others at work: a customer with the number of a row is created (an uncommitted insert of
   the import makes them wait), edited, given a job, deleted or restored. *)
Belegt(z) ==
    \E a \in ImAnfragen :
        imAnfrage[a].art = "ausfuehren" /\ ~An(a, "schreiben") /\ z \in imAnfrage[a].neu

Aenderungen(z) ==
    LET k == kunde[z] IN
    IF k.stand = "keiner"
    THEN IF Belegt(z) THEN {} ELSE {[NieImportiert EXCEPT !.stand = "aktiv", !.herkunft = "fremd"]}
    ELSE IF k.stand = "papierkorb"
    THEN {[k EXCEPT !.stand = "aktiv", !.geaendert = TRUE, !.durch = "niemand"]}
    ELSE {[k EXCEPT !.geaendert = TRUE], [k EXCEPT !.abhaengig = TRUE],
          [k EXCEPT !.stand = "papierkorb", !.geaendert = TRUE, !.durch = "nutzer"]}

Fremd(z) ==
    /\ imZaehler.fremd < IF imZugleich THEN 1 ELSE MaxFremd
    /\ \E k \in Aenderungen(z) \ {kunde[z]} : kunde' = [kunde EXCEPT ![z] = k]
    /\ imZaehler' = [imZaehler EXCEPT
         !.fremd = @ + 1,
         !.dazwischen = @ \/ \E a \in ImAnfragen : imAnfrage[a].art = "rueckgaengig"]
    /\ UNCHANGED <<imZugleich, imLauf, speicher, eintrag, imAnfrage>>

(* The periods of import_zwischenspeicher_stunden and import_fehlerbericht_tage end. *)
FristEndet ==
    /\ ~imLauf.alt /\ imLauf' = [imLauf EXCEPT !.alt = TRUE]
    /\ UNCHANGED <<imZugleich, speicher, kunde, eintrag, imAnfrage, imZaehler>>

ImportSchritt(a) ==
    \/ ProbelaufSchreibt(a) \/ AusfuehrenSchreibt(a) \/ AusfuehrenLegtAb(a) \/ AusfuehrenCommit(a)
    \/ RueckgaengigCommit(a) \/ EntfernenSchreibt(a)

ImNext ==
    \/ \E a \in ImAnfragen :
         \/ ImportSchritt(a) \/ ImportScheitert(a)
         \/ \E m \in Modi : ProbelaufBeginnt(a, m)
         \/ AusfuehrenBeginnt(a) \/ RueckgaengigBeginnt(a) \/ VerwerfenBeginnt(a) \/ RaeumeBeginnt(a)
    \/ \E z \in ImZeilen : Fremd(z)
    \/ FristEndet

(* The hourly job runs again and again, requests come to their end; strong fairness, since
   between two requests the job may come too late. *)
ImFairness ==
    /\ WF_imVars(FristEndet)
    /\ SF_imVars(\E a \in ImAnfragen : RaeumeBeginnt(a))
    /\ \A a \in ImAnfragen : WF_imVars(ImportSchritt(a))

ImSpec == ImInit /\ [][ImNext]_imVars /\ ImFairness

-----------------------------------------------------------------------------
(* A file is executed at most once, also when requests overlap: the row lock makes the second
   execution see the first, and the source is gone with it (ausfuehren in lauf.py). *)
EinmalAusgefuehrt == imZaehler.ausgefuehrt <= 1

(* The entries name exactly the customers the run has created: undoing it neither misses one
   nor touches what others have created (_charge_schreiben). *)
EintraegeDecken == \A z \in ImZeilen : (eintrag[z] = "angelegt") <=> (kunde[z].herkunft = "import")

(* "alles_oder_nichts": a file with a single bad row, found by the check or by the database in
   the middle of a batch, leaves nothing behind.  With overlapping requests a trial run may
   change the mode of a run that is already executed. *)
AllesOderNichts ==
    ~imZugleich /\ imLauf.modus = "alles_oder_nichts" /\ (\E z \in ImZeilen : eintrag[z] # "keiner")
        => imLauf.fehler = {}

(* Undoing bins no record that something else depends on (rueckgaengig.py); the records are
   checked before they are written, so a change in between is excepted. *)
RueckgaengigSchont ==
    ~imZaehler.dazwischen =>
        \A z \in ImZeilen : kunde[z].durch = "lauf" => ~kunde[z].abhaengig /\ ~kunde[z].geaendert

(* An executed run stays executed and can be undone.  With overlapping requests a trial run or a
   discard that was loaded before overwrites the status. *)
NachweisBleibt ==
    ~imZugleich /\ imZaehler.ausgefuehrt > 0 => imLauf.status \in {"abgeschlossen", "rueckgaengig"}

(* What the row names is in the store, unless a request died after it had removed the object
   or overlapped another. *)
ObjekteDa ==
    ~imZugleich /\ imZaehler.pannen = 0 /\ (\A a \in ImAnfragen : imAnfrage[a] = ImRuhe) =>
        /\ imLauf.quelle = speicher.quelle
        /\ speicher.berichte = {imLauf.bericht} \ {KeinBericht}

ImportStimmt ==
    /\ EinmalAusgefuehrt /\ EintraegeDecken /\ AllesOderNichts /\ RueckgaengigSchont
    /\ NachweisBleibt /\ ObjekteDa

(* The uploaded file never stays for ever: executed, discarded or cleaned up after the period
   (raeume_auf), whatever dies in between. *)
QuelleVerfaellt == []<>(~imLauf.quelle)
=============================================================================
