------------------------- MODULE Hintergrund_proofs -------------------------
(***************************************************************************)
(* What holds of the background work for every set of workers, jobs,       *)
(* exports, records, files and requests.                                   *)
(***************************************************************************)
EXTENDS MCHintergrund, TLAPS

-----------------------------------------------------------------------------
(***************************************************************************)
(* The import of a file, for every number of requests, of failures and of  *)
(* changes by others: the inductive invariant.                             *)
(***************************************************************************)

\* The row is locked by one request; requests that do not overlap are alone.
EinSchloss == \A a, b \in ImAnfragen : HaeltLauf(a) /\ HaeltLauf(b) => a = b

Allein ==
    ~imZugleich => \A a, b \in ImAnfragen : imAnfrage[a] # ImRuhe /\ imAnfrage[b] # ImRuhe => a = b

\* The source goes with the first execution, and only an execution writes entries.
Verbraucht ==
    /\ imZaehler.ausgefuehrt \in {0, 1}
    /\ imZaehler.ausgefuehrt = 1 => ~imLauf.quelle
    /\ imZaehler.ausgefuehrt = 0 => \A z \in ImZeilen : eintrag[z] = "keiner"

\* What an execution under way may rely on, since it holds the row.
AusfuehrungGilt ==
    \A a \in ImAnfragen : LET q == imAnfrage[a] IN
        q.art = "ausfuehren" =>
            /\ imLauf.quelle /\ q.modus = imLauf.modus
            /\ q.neu \cap q.da = {}
            /\ q.abbruch => q.neu = {} /\ q.da = {}
            /\ q.modus = "alles_oder_nichts" /\ ~q.abbruch => q.fehler = {}

\* A customer without a row was not created by anybody, one that the undoing has put into the
\* bin was created by the run and is still there.
KundenGelten ==
    \A z \in ImZeilen :
        /\ kunde[z].stand = "keiner" => kunde[z].herkunft = "keine"
        /\ kunde[z].durch = "lauf" => kunde[z].stand = "papierkorb" /\ eintrag[z] = "angelegt"

\* What an undo under way has chosen was created by the run, and still is as it was unless
\* others came in between.
AuswahlGilt ==
    \A a \in ImAnfragen : imAnfrage[a].art = "rueckgaengig" =>
        \A z \in imAnfrage[a].neu :
            /\ eintrag[z] = "angelegt"
            /\ ~imZaehler.dazwischen => ~kunde[z].geaendert /\ ~kunde[z].abhaengig

\* What a trial run, a discard or the clean-up has loaded is still so when nothing overlaps.
GeladenGilt ==
    ~imZugleich => \A a \in ImAnfragen : LET q == imAnfrage[a] IN
        /\ q.art = "probelauf" => imLauf.quelle
        /\ q.art \in {"verwerfen", "raeumen"} /\ q.status # "ohne" => imZaehler.ausgefuehrt = 0

\* An execution that has already written to the store.
Abgelegt(a) == imAnfrage[a].art = "ausfuehren" /\ imAnfrage[a].schritt \in Berichte \cup {KeinBericht}
Entfernt(a) == imAnfrage[a].art \in {"verwerfen", "raeumen"}

\* The reports that the row names.
Genannt == {imLauf.bericht} \ {KeinBericht}

\* How far the store is ahead of the row.
SpeicherFolgt ==
    ~imZugleich /\ imZaehler.pannen = 0 =>
        /\ (\A a \in ImAnfragen : ~Abgelegt(a) /\ ~Entfernt(a)) =>
              imLauf.quelle = speicher.quelle /\ speicher.berichte = Genannt
        /\ \A a \in ImAnfragen : LET q == imAnfrage[a] IN
              /\ Abgelegt(a) =>
                    /\ speicher.quelle = q.abbruch
                    /\ q.fehler = {} => speicher.berichte = Genannt
                    /\ q.fehler # {} => speicher.berichte = {q.schritt} /\ q.schritt # KeinBericht
              /\ Entfernt(a) =>
                    /\ ~speicher.quelle /\ imLauf.quelle = q.abbruch
                    /\ speicher.berichte = IF q.schritt = "mitBericht" THEN {} ELSE Genannt

IImport ==
    /\ ImTyp /\ EinSchloss /\ Allein /\ Verbraucht /\ AusfuehrungGilt /\ KundenGelten
    /\ EintraegeDecken /\ AuswahlGilt /\ GeladenGilt /\ SpeicherFolgt
    /\ AllesOderNichts /\ RueckgaengigSchont /\ NachweisBleibt

-----------------------------------------------------------------------------
(***************************************************************************)
(* Types of the records, and the frames the steps share.                   *)
(***************************************************************************)

LaufRek ==
    [status : LaufStatus, modus : Modi \cup {"ohne"}, quelle : BOOLEAN,
     bericht : Berichte \cup {KeinBericht}, fehler : SUBSET ImZeilen,
     ungueltig : SUBSET ImZeilen, alt : BOOLEAN]
SpeicherRek == [quelle : BOOLEAN, berichte : SUBSET Berichte]
KundeRek == [stand : {"keiner", "aktiv", "papierkorb"}, herkunft : {"keine", "import", "fremd"},
             geaendert : BOOLEAN, abhaengig : BOOLEAN, durch : {"niemand", "lauf", "nutzer"}]
ZaehlerRek == [ausgefuehrt : Nat, dazwischen : BOOLEAN, fremd : Nat, pannen : Nat]

LEMMA ImFakten ==
  ASSUME ImTyp
  PROVE  /\ imZugleich \in BOOLEAN /\ imLauf \in LaufRek /\ speicher \in SpeicherRek
         /\ kunde \in [ImZeilen -> KundeRek]
         /\ eintrag \in [ImZeilen -> {"keiner", "angelegt", "aktualisiert"}]
         /\ imAnfrage \in [ImAnfragen -> ImAnfrageTyp] /\ imZaehler \in ZaehlerRek
BY DEF ImTyp, LaufRek, SpeicherRek, KundeRek, ZaehlerRek

LEMMA RuheFakten ==
  /\ ImRuhe \in ImAnfrageTyp /\ ImRuhe.art = "ruht" /\ ImRuhe.schritt = "ohne"
  /\ ImRuhe.neu = {} /\ ImRuhe.da = {} /\ ImRuhe.fehler = {} /\ ImRuhe.abbruch = FALSE
BY DEF ImRuhe, ImAnfrageTyp

LEMMA BerichtFakten ==
  /\ KeinBericht \notin Berichte
  /\ \A s \in Berichte \cup {KeinBericht} : s \notin {"ohne", "schreiben", "ablegen", "mitBericht"}
BY ImportAnnahme

LEMMA EinRequest ==
  ASSUME ImTyp, NEW a \in ImAnfragen, NEW neu \in ImAnfrageTyp,
         imAnfrage' = [imAnfrage EXCEPT ![a] = neu]
  PROVE  /\ imAnfrage' \in [ImAnfragen -> ImAnfrageTyp] /\ imAnfrage'[a] = neu
         /\ \A b \in ImAnfragen : b # a => imAnfrage'[b] = imAnfrage[b]
BY ImFakten

\* Nothing overlaps: the store is in step with the row while nobody is at work on it.
LEMMA ImGleichschritt ==
  ASSUME IImport, ~imZugleich, imZaehler.pannen = 0,
         \A b \in ImAnfragen : ~Abgelegt(b) /\ ~Entfernt(b)
  PROVE  imLauf.quelle = speicher.quelle /\ speicher.berichte = Genannt
BY DEF IImport, SpeicherFolgt

\* Steps that leave customers and entries alone.
LEMMA OhneKunden ==
  ASSUME IImport, UNCHANGED <<kunde, eintrag>>, imZaehler'.dazwischen = imZaehler.dazwischen
  PROVE  KundenGelten' /\ EintraegeDecken' /\ RueckgaengigSchont'
BY DEF IImport, KundenGelten, EintraegeDecken, RueckgaengigSchont

\* Steps that leave the row alone.
LEMMA OhneLauf ==
  ASSUME IImport, UNCHANGED <<imZugleich, eintrag>>, imZaehler'.ausgefuehrt = imZaehler.ausgefuehrt,
         imLauf'.quelle = imLauf.quelle, imLauf'.status = imLauf.status,
         imLauf'.modus = imLauf.modus, imLauf'.fehler = imLauf.fehler
  PROVE  Verbraucht' /\ AllesOderNichts' /\ NachweisBleibt'
BY DEF IImport, Verbraucht, AllesOderNichts, NachweisBleibt

\* A request starts.
LEMMA Beginn ==
  ASSUME IImport, NEW a \in ImAnfragen, ImFrei(a), NEW neu \in ImAnfrageTyp,
         imAnfrage' = [imAnfrage EXCEPT ![a] = neu],
         UNCHANGED <<imZugleich, imLauf, kunde, eintrag, imZaehler>>, speicher' \in SpeicherRek,
         neu.art \in {"ausfuehren", "rueckgaengig"} => ZeileFrei,
         neu.art = "ausfuehren" =>
            /\ imLauf.quelle /\ neu.modus = imLauf.modus /\ neu.neu \cap neu.da = {}
            /\ neu.abbruch => neu.neu = {} /\ neu.da = {}
            /\ neu.modus = "alles_oder_nichts" /\ ~neu.abbruch => neu.fehler = {},
         neu.art = "rueckgaengig" => \A z \in neu.neu :
            eintrag[z] = "angelegt" /\ ~kunde[z].geaendert /\ ~kunde[z].abhaengig,
         neu.art = "probelauf" => imLauf.quelle,
         ~imZugleich /\ neu.art \in {"verwerfen", "raeumen"} /\ neu.status # "ohne" =>
            imZaehler.ausgefuehrt = 0,
         neu.schritt \notin Berichte \cup {KeinBericht},
         neu.art \notin {"verwerfen", "raeumen"} => speicher' = speicher,
         (/\ imLauf.quelle = speicher.quelle /\ speicher.berichte = Genannt
          /\ neu.art \in {"verwerfen", "raeumen"}) =>
                /\ ~speicher'.quelle /\ imLauf.quelle = neu.abbruch
                /\ speicher'.berichte = IF neu.schritt = "mitBericht" THEN {} ELSE Genannt
  PROVE  IImport'
<1>0. ImTyp /\ imAnfrage[a] = ImRuhe /\ (~imZugleich => \A b \in ImAnfragen : imAnfrage[b] = ImRuhe)
  BY DEF IImport, ImFrei
<1>1. /\ imAnfrage' \in [ImAnfragen -> ImAnfrageTyp] /\ imAnfrage'[a] = neu
      /\ \A b \in ImAnfragen : b # a => imAnfrage'[b] = imAnfrage[b]
  BY <1>0, EinRequest
<1>2. ImTyp'
  BY <1>0, <1>1 DEF ImTyp, SpeicherRek
<1>3. EinSchloss'
  BY <1>1 DEF IImport, EinSchloss, HaeltLauf, ZeileFrei
<1>4. Allein'
  BY <1>0, <1>1 DEF Allein
<1>5. Verbraucht' /\ AllesOderNichts' /\ NachweisBleibt'
  BY OhneLauf
<1>6. KundenGelten' /\ EintraegeDecken' /\ RueckgaengigSchont'
  BY OhneKunden
<1>7. AusfuehrungGilt'
  BY <1>1 DEF IImport, AusfuehrungGilt
<1>8. AuswahlGilt'
  BY <1>1 DEF IImport, AuswahlGilt
<1>9. GeladenGilt'
  BY <1>0, <1>1, RuheFakten DEF GeladenGilt
<1>10. SpeicherFolgt'
  <2> SUFFICES ASSUME ~imZugleich, imZaehler.pannen = 0 PROVE SpeicherFolgt'
    BY DEF SpeicherFolgt
  <2>1. \A b \in ImAnfragen : ~Abgelegt(b) /\ ~Entfernt(b)
    BY <1>0, RuheFakten DEF Abgelegt, Entfernt
  <2>2. imLauf.quelle = speicher.quelle /\ speicher.berichte = Genannt
    BY <2>1, ImGleichschritt
  <2>3. /\ \A b \in ImAnfragen : ~Abgelegt(b)'
        /\ \A b \in ImAnfragen : b # a => ~Entfernt(b)'
        /\ Entfernt(a)' <=> neu.art \in {"verwerfen", "raeumen"}
    BY <1>0, <1>1, RuheFakten DEF Abgelegt, Entfernt
  <2>4. Genannt' = Genannt
    BY DEF Genannt
  <2>5. QED
    BY <1>1, <2>2, <2>3, <2>4 DEF SpeicherFolgt
<1>11. QED
  BY <1>2, <1>3, <1>4, <1>5, <1>6, <1>7, <1>8, <1>9, <1>10 DEF IImport

\* A request that kept all others from locking the row comes to its end.
LEMMA Ende ==
  ASSUME IImport, NEW a \in ImAnfragen, imAnfrage[a] # ImRuhe,
         \A b \in ImAnfragen : HaeltLauf(b) => b = a,
         imAnfrage' = [imAnfrage EXCEPT ![a] = ImRuhe], UNCHANGED imZugleich,
         imLauf' \in LaufRek, speicher' \in SpeicherRek, kunde' \in [ImZeilen -> KundeRek],
         eintrag' \in [ImZeilen -> {"keiner", "angelegt", "aktualisiert"}], imZaehler' \in ZaehlerRek,
         Verbraucht', KundenGelten', EintraegeDecken',
         AllesOderNichts', RueckgaengigSchont', NachweisBleibt',
         ~imZugleich /\ imZaehler'.pannen = 0 =>
            imLauf'.quelle = speicher'.quelle /\ speicher'.berichte = Genannt'
  PROVE  IImport'
<1>0. ImTyp /\ ImRuhe \in ImAnfrageTyp
  BY RuheFakten DEF IImport
<1>1. /\ imAnfrage' \in [ImAnfragen -> ImAnfrageTyp] /\ imAnfrage'[a] = ImRuhe
      /\ \A b \in ImAnfragen : b # a => imAnfrage'[b] = imAnfrage[b]
  BY <1>0, EinRequest
<1>2. ImTyp'
  BY <1>0, <1>1 DEF ImTyp, LaufRek, SpeicherRek, KundeRek, ZaehlerRek
<1>3. \A b \in ImAnfragen : ~HaeltLauf(b)'
  BY <1>1, RuheFakten DEF HaeltLauf
<1>4. EinSchloss' /\ AusfuehrungGilt' /\ AuswahlGilt'
  BY <1>3 DEF EinSchloss, AusfuehrungGilt, AuswahlGilt, HaeltLauf
<1>5. ~imZugleich => \A b \in ImAnfragen : imAnfrage'[b] = ImRuhe
  BY <1>1 DEF IImport, Allein
<1>6. Allein' /\ GeladenGilt'
  BY <1>5, RuheFakten DEF Allein, GeladenGilt
<1>7. ~imZugleich => \A b \in ImAnfragen : ~Abgelegt(b)' /\ ~Entfernt(b)'
  BY <1>5, RuheFakten DEF Abgelegt, Entfernt
<1>8. SpeicherFolgt'
  BY <1>7 DEF SpeicherFolgt
<1>9. QED
  BY <1>2, <1>4, <1>6, <1>8 DEF IImport

-----------------------------------------------------------------------------
(***************************************************************************)
(* One lemma for every action.                                             *)
(***************************************************************************)

LEMMA GeprueftFakten ==
  ASSUME ImTyp
  PROVE  /\ Geprueft.neu \subseteq ImZeilen /\ Geprueft.da \subseteq ImZeilen
         /\ Geprueft.fehler \subseteq ImZeilen /\ Geprueft.neu \cap Geprueft.da = {}
BY DEF Geprueft

LEMMA TrialStarts ==
  ASSUME IImport, NEW a \in ImAnfragen, NEW m \in Modi, ProbelaufBeginnt(a, m)
  PROVE  IImport'
<1> DEFINE neu == [ImRuhe EXCEPT !.art = "probelauf", !.schritt = "schreiben",
                                 !.status = imLauf.status, !.modus = m, !.fehler = Geprueft.fehler]
<1>0. ImTyp /\ imLauf \in LaufRek /\ speicher \in SpeicherRek
  BY ImFakten DEF IImport
<1>1. neu \in ImAnfrageTyp /\ neu.art = "probelauf" /\ neu.schritt = "schreiben"
  BY <1>0, GeprueftFakten DEF ImRuhe, ImAnfrageTyp, LaufRek
<1>2. /\ ImFrei(a) /\ imLauf.quelle /\ imAnfrage' = [imAnfrage EXCEPT ![a] = neu]
      /\ UNCHANGED <<imZugleich, imLauf, speicher, kunde, eintrag, imZaehler>>
  BY DEF ProbelaufBeginnt, QuelleLesbar
<1> HIDE DEF neu
<1>3. QED
  BY <1>0, <1>1, <1>2, BerichtFakten, Beginn

LEMMA TrialWrites ==
  ASSUME IImport, NEW a \in ImAnfragen, ProbelaufSchreibt(a)
  PROVE  IImport'
<1>0. /\ ImTyp /\ imLauf \in LaufRek /\ speicher \in SpeicherRek /\ imAnfrage[a] \in ImAnfrageTyp
      /\ kunde \in [ImZeilen -> KundeRek] /\ imZaehler \in ZaehlerRek
      /\ eintrag \in [ImZeilen -> {"keiner", "angelegt", "aktualisiert"}]
  BY ImFakten DEF IImport
<1>1. /\ imAnfrage[a].art = "probelauf" /\ imAnfrage[a] # ImRuhe /\ \A b \in ImAnfragen : ~HaeltLauf(b)
      /\ imAnfrage' = [imAnfrage EXCEPT ![a] = ImRuhe]
      /\ UNCHANGED <<imZugleich, speicher, kunde, eintrag, imZaehler>>
  BY RuheFakten DEF ProbelaufSchreibt, ZeileFrei
<1>2. PICK f \in LaufStatus, m \in Modi \cup {"ohne"}, g \in SUBSET ImZeilen :
        imLauf' = [imLauf EXCEPT !.modus = m, !.fehler = g, !.status = f]
  BY <1>0 DEF ProbelaufSchreibt, ImAnfrageTyp, LaufRek, LaufStatus
<1>3. /\ imLauf' \in LaufRek /\ imLauf'.quelle = imLauf.quelle /\ imLauf'.bericht = imLauf.bericht
  BY <1>0, <1>2 DEF LaufRek
<1>4. ~imZugleich => imZaehler.ausgefuehrt = 0 /\ \A z \in ImZeilen : eintrag[z] = "keiner"
  BY <1>1 DEF IImport, GeladenGilt, Verbraucht
<1>5. AllesOderNichts' /\ NachweisBleibt'
  <2>1. CASE imZugleich
    BY <1>1, <2>1 DEF AllesOderNichts, NachweisBleibt
  <2>2. CASE ~imZugleich
    <3>1. imZaehler'.ausgefuehrt = 0 /\ \A z \in ImZeilen : eintrag'[z] = "keiner"
      BY <1>1, <1>4, <2>2
    <3>2. ~(imZaehler'.ausgefuehrt > 0)
      <4>1. imZaehler'.ausgefuehrt \in Nat
        BY <3>1
      <4>2. QED
        BY <3>1, <4>1
    <3>3. AllesOderNichts'
      BY <3>1 DEF AllesOderNichts
    <3>4. NachweisBleibt'
      BY <3>2 DEF NachweisBleibt
    <3>5. QED
      BY <3>3, <3>4
  <2>3. QED
    BY <2>1, <2>2
<1>6. Verbraucht'
  BY <1>1, <1>3 DEF IImport, Verbraucht
<1>7. KundenGelten' /\ EintraegeDecken' /\ RueckgaengigSchont'
  BY <1>1, OhneKunden
<1>8. ~imZugleich /\ imZaehler.pannen = 0 =>
        imLauf.quelle = speicher.quelle /\ speicher.berichte = Genannt
  <2>1. ~imZugleich => \A b \in ImAnfragen : ~Abgelegt(b) /\ ~Entfernt(b)
    BY <1>1, RuheFakten DEF IImport, Allein, Abgelegt, Entfernt
  <2>2. QED
    BY <2>1, ImGleichschritt
<1>9. QED
  BY <1>0, <1>1, <1>3, <1>5, <1>6, <1>7, <1>8, Ende DEF Genannt

LEMMA ExecutionStarts ==
  ASSUME IImport, NEW a \in ImAnfragen, AusfuehrenBeginnt(a)
  PROVE  IImport'
<1> DEFINE ab == imLauf.modus = "alles_oder_nichts" /\ Geprueft.fehler # {}
           neu == [art |-> "ausfuehren", schritt |-> IF ab THEN "ablegen" ELSE "schreiben",
                   status |-> imLauf.status, modus |-> imLauf.modus,
                   neu |-> IF ab THEN {} ELSE Geprueft.neu, da |-> IF ab THEN {} ELSE Geprueft.da,
                   fehler |-> Geprueft.fehler, abbruch |-> ab]
<1>0. ImTyp /\ imLauf \in LaufRek /\ speicher \in SpeicherRek
  BY ImFakten DEF IImport
<1>1. /\ imLauf.status \in LaufStatus /\ imLauf.modus \in Modi \cup {"ohne"} /\ ab \in BOOLEAN
      /\ Geprueft.neu \subseteq ImZeilen /\ Geprueft.da \subseteq ImZeilen
      /\ Geprueft.fehler \subseteq ImZeilen /\ Geprueft.neu \cap Geprueft.da = {}
  BY <1>0, GeprueftFakten DEF LaufRek
<1>2. /\ ImFrei(a) /\ ZeileFrei /\ imLauf.quelle /\ imAnfrage' = [imAnfrage EXCEPT ![a] = neu]
      /\ UNCHANGED <<imZugleich, imLauf, speicher, kunde, eintrag, imZaehler>>
  BY DEF AusfuehrenBeginnt, QuelleLesbar, ZeileFuerAusfuehren
<1>3. (imLauf.modus = "alles_oder_nichts" /\ ~ab) => Geprueft.fehler = {}
  OBVIOUS
<1> HIDE DEF ab
<1>4. /\ neu \in ImAnfrageTyp /\ neu.art = "ausfuehren" /\ neu.schritt \in {"ablegen", "schreiben"}
      /\ neu.modus = imLauf.modus /\ neu.neu \cap neu.da = {} /\ neu.abbruch = ab
      /\ neu.fehler = Geprueft.fehler
      /\ ab => neu.neu = {} /\ neu.da = {}
  BY <1>1 DEF ImAnfrageTyp
<1> HIDE DEF neu
<1>5. neu.schritt \notin Berichte \cup {KeinBericht}
  BY <1>4, BerichtFakten
<1>6. QED
  BY <1>0, <1>2, <1>3, <1>4, <1>5, Beginn

LEMMA UndoStarts ==
  ASSUME IImport, NEW a \in ImAnfragen, RueckgaengigBeginnt(a)
  PROVE  IImport'
<1> DEFINE n == Zuruecksetzbar
           d == {z \in ImZeilen : eintrag[z] = "angelegt" /\ kunde[z].stand = "papierkorb"}
           neu == [ImRuhe EXCEPT !.art = "rueckgaengig", !.schritt = "schreiben", !.neu = n, !.da = d]
<1>0. ImTyp /\ speicher \in SpeicherRek
  BY ImFakten DEF IImport
<1>1. /\ ImFrei(a) /\ ZeileFrei /\ imAnfrage' = [imAnfrage EXCEPT ![a] = neu]
      /\ UNCHANGED <<imZugleich, imLauf, speicher, kunde, eintrag, imZaehler>>
  BY DEF RueckgaengigBeginnt, Auswahl
<1>2. /\ n \subseteq ImZeilen /\ d \subseteq ImZeilen
      /\ \A z \in n : eintrag[z] = "angelegt" /\ ~kunde[z].geaendert /\ ~kunde[z].abhaengig
  BY DEF Zuruecksetzbar
<1> HIDE DEF n, d
<1>3. /\ neu \in ImAnfrageTyp /\ neu.art = "rueckgaengig" /\ neu.schritt = "schreiben"
      /\ neu.neu = n
  BY <1>2 DEF ImRuhe, ImAnfrageTyp
<1> HIDE DEF neu
<1>4. QED
  BY <1>0, <1>1, <1>2, <1>3, BerichtFakten, Beginn

LEMMA DiscardStarts ==
  ASSUME IImport, NEW a \in ImAnfragen, VerwerfenBeginnt(a)
  PROVE  IImport'
<1> DEFINE neu == [ImRuhe EXCEPT !.art = "verwerfen", !.schritt = "schreiben",
                                 !.status = "abgelaufen", !.abbruch = imLauf.quelle]
<1>0. ImTyp /\ imLauf \in LaufRek /\ speicher \in SpeicherRek
  BY ImFakten DEF IImport
<1>1. /\ ImFrei(a) /\ imLauf.status \in {"analysiert", "geprueft", "abgebrochen"}
      /\ speicher' = [speicher EXCEPT !.quelle = @ /\ ~imLauf.quelle]
      /\ imAnfrage' = [imAnfrage EXCEPT ![a] = neu]
      /\ UNCHANGED <<imZugleich, imLauf, kunde, eintrag, imZaehler>>
  BY DEF VerwerfenBeginnt
<1>2. /\ neu \in ImAnfrageTyp /\ neu.art = "verwerfen" /\ neu.schritt = "schreiben"
      /\ neu.abbruch = imLauf.quelle
  <2>1. imLauf.quelle \in BOOLEAN
    BY <1>0 DEF LaufRek
  <2>2. QED
    BY <2>1 DEF ImRuhe, ImAnfrageTyp, LaufStatus
<1> HIDE DEF neu
<1>3. /\ speicher' \in SpeicherRek /\ speicher'.quelle = (speicher.quelle /\ ~imLauf.quelle)
      /\ speicher'.berichte = speicher.berichte
  <2>1. (speicher.quelle /\ ~imLauf.quelle) \in BOOLEAN
    OBVIOUS
  <2>2. QED
    BY <1>0, <1>1, <2>1 DEF SpeicherRek
<1>4. ~imZugleich => imZaehler.ausgefuehrt = 0
  BY <1>1 DEF IImport, NachweisBleibt, Verbraucht
<1>5. imLauf.quelle \in BOOLEAN /\ speicher.quelle \in BOOLEAN
  BY <1>0 DEF LaufRek, SpeicherRek
<1>6. QED
  BY <1>1, <1>2, <1>3, <1>4, <1>5, BerichtFakten, Beginn

LEMMA CleanupStarts ==
  ASSUME IImport, NEW a \in ImAnfragen, RaeumeBeginnt(a)
  PROVE  IImport'
<1> DEFINE bericht == /\ imLauf.bericht # KeinBericht
                      /\ imLauf.status \in {"abgeschlossen", "rueckgaengig", "abgelaufen", "abgebrochen"}
           f == IF imLauf.quelle /\ imLauf.status \in {"analysiert", "geprueft"}
                THEN "abgelaufen" ELSE "ohne"
           neu == [ImRuhe EXCEPT !.art = "raeumen",
                                 !.schritt = IF bericht THEN "mitBericht" ELSE "schreiben",
                                 !.status = f, !.abbruch = imLauf.quelle]
<1>0. ImTyp /\ imLauf \in LaufRek /\ speicher \in SpeicherRek
  BY ImFakten DEF IImport
<1>1. /\ ImFrei(a)
      /\ speicher' = [quelle |-> speicher.quelle /\ ~imLauf.quelle,
                      berichte |-> IF bericht THEN speicher.berichte \ {imLauf.bericht}
                                   ELSE speicher.berichte]
      /\ imAnfrage' = [imAnfrage EXCEPT ![a] = neu]
      /\ UNCHANGED <<imZugleich, imLauf, kunde, eintrag, imZaehler>>
  BY DEF RaeumeBeginnt
<1>2. /\ f \in LaufStatus \cup {"ohne"}
      /\ f # "ohne" => imLauf.status \in {"analysiert", "geprueft"}
  BY DEF LaufStatus
<1>3. bericht => imLauf.bericht # KeinBericht
  OBVIOUS
<1> HIDE DEF bericht, f
<1>4. imLauf.quelle \in BOOLEAN /\ speicher.quelle \in BOOLEAN
  BY <1>0 DEF LaufRek, SpeicherRek
<1>5. /\ neu \in ImAnfrageTyp /\ neu.art = "raeumen" /\ neu.status = f
      /\ neu.schritt = IF bericht THEN "mitBericht" ELSE "schreiben"
      /\ neu.abbruch = imLauf.quelle
  BY <1>2, <1>4 DEF ImRuhe, ImAnfrageTyp
<1> HIDE DEF neu
<1>6. /\ speicher' \in SpeicherRek /\ speicher'.quelle = (speicher.quelle /\ ~imLauf.quelle)
      /\ speicher'.berichte = IF bericht THEN speicher.berichte \ {imLauf.bericht} ELSE speicher.berichte
  <2>1. (speicher.quelle /\ ~imLauf.quelle) \in BOOLEAN
    OBVIOUS
  <2>2. QED
    BY <1>0, <1>1, <2>1 DEF SpeicherRek
<1>7. ~imZugleich /\ f # "ohne" => imZaehler.ausgefuehrt = 0
  <2> SUFFICES ASSUME ~imZugleich, f # "ohne" PROVE imZaehler.ausgefuehrt = 0
    OBVIOUS
  <2>1. imLauf.status \in {"analysiert", "geprueft"}
    BY <1>2
  <2>2. imZaehler.ausgefuehrt \in {0, 1} /\ NachweisBleibt
    BY DEF IImport, Verbraucht
  <2>3. ~(imZaehler.ausgefuehrt > 0)
    BY <2>1, <2>2 DEF NachweisBleibt
  <2>4. QED
    BY <2>2, <2>3
<1>8. speicher.berichte = Genannt =>
        speicher'.berichte = IF neu.schritt = "mitBericht" THEN {} ELSE Genannt
  BY <1>5, <1>6 DEF Genannt
<1>9. QED
  BY <1>1, <1>4, <1>5, <1>6, <1>7, <1>8, BerichtFakten, Beginn

LEMMA RemovalWrites ==
  ASSUME IImport, NEW a \in ImAnfragen, EntfernenSchreibt(a)
  PROVE  IImport'
<1> DEFINE q == imAnfrage[a]
           f == IF q.status = "ohne" THEN imLauf.status ELSE q.status
           r == IF q.schritt = "mitBericht" THEN KeinBericht ELSE imLauf.bericht
           k == imLauf.quelle /\ ~q.abbruch
<1>0. /\ ImTyp /\ imLauf \in LaufRek /\ speicher \in SpeicherRek /\ imAnfrage[a] \in ImAnfrageTyp
      /\ kunde \in [ImZeilen -> KundeRek] /\ imZaehler \in ZaehlerRek
      /\ eintrag \in [ImZeilen -> {"keiner", "angelegt", "aktualisiert"}]
  BY ImFakten DEF IImport
<1>1. /\ q.art \in {"verwerfen", "raeumen"} /\ q # ImRuhe /\ \A b \in ImAnfragen : ~HaeltLauf(b)
      /\ imLauf' = [imLauf EXCEPT !.quelle = k, !.status = f, !.bericht = r]
      /\ imAnfrage' = [imAnfrage EXCEPT ![a] = ImRuhe]
      /\ UNCHANGED <<imZugleich, speicher, kunde, eintrag, imZaehler>>
  BY <1>0, RuheFakten DEF EntfernenSchreibt, ZeileFrei, LaufRek
<1>2. k \in BOOLEAN /\ f \in LaufStatus /\ r \in Berichte \cup {KeinBericht}
  BY <1>0 DEF LaufRek, ImAnfrageTyp
<1>3. (k => imLauf.quelle) /\ (k => ~q.abbruch) /\ (q.status = "ohne" => f = imLauf.status)
  OBVIOUS
<1>4. r = IF q.schritt = "mitBericht" THEN KeinBericht ELSE imLauf.bericht
  OBVIOUS
<1> HIDE DEF k, f, r
<1>5. /\ imLauf' \in LaufRek /\ imLauf'.quelle = k /\ imLauf'.status = f /\ imLauf'.bericht = r
      /\ imLauf'.modus = imLauf.modus /\ imLauf'.fehler = imLauf.fehler
  BY <1>0, <1>1, <1>2 DEF LaufRek
<1>6. Verbraucht'
  BY <1>1, <1>3, <1>5 DEF IImport, Verbraucht
<1>7. AllesOderNichts'
  BY <1>1, <1>5 DEF IImport, AllesOderNichts
<1>8. NachweisBleibt'
  <2>1. ~imZugleich /\ q.status # "ohne" => imZaehler.ausgefuehrt = 0
    BY <1>1 DEF IImport, GeladenGilt
  <2>2. imZaehler.ausgefuehrt \in {0, 1} /\ NachweisBleibt
    BY DEF IImport, Verbraucht
  <2>3. CASE q.status = "ohne"
    BY <1>1, <1>3, <1>5, <2>2, <2>3 DEF NachweisBleibt
  <2>4. CASE q.status # "ohne"
    <3>1. ~imZugleich => ~(imZaehler.ausgefuehrt > 0)
      BY <2>1, <2>4
    <3>2. QED
      BY <1>1, <3>1 DEF NachweisBleibt
  <2>5. QED
    BY <2>3, <2>4
<1>9. KundenGelten' /\ EintraegeDecken' /\ RueckgaengigSchont'
  BY <1>1, OhneKunden
<1>10. ~imZugleich /\ imZaehler.pannen = 0 => imLauf'.quelle = speicher.quelle /\ speicher.berichte = Genannt'
  <2> SUFFICES ASSUME ~imZugleich, imZaehler.pannen = 0
               PROVE  imLauf'.quelle = speicher.quelle /\ speicher.berichte = Genannt'
    OBVIOUS
  <2>1. /\ ~speicher.quelle /\ imLauf.quelle = q.abbruch
        /\ speicher.berichte = IF q.schritt = "mitBericht" THEN {} ELSE Genannt
    BY <1>1 DEF IImport, SpeicherFolgt, Entfernt
  <2>2. ~k
    BY <1>3, <2>1
  <2>3. speicher.quelle \in BOOLEAN
    BY <1>0 DEF SpeicherRek
  <2>4. imLauf'.quelle = speicher.quelle
    BY <1>2, <1>5, <2>1, <2>2, <2>3
  <2>5. speicher.berichte = Genannt'
    BY <1>4, <1>5, <2>1 DEF Genannt
  <2>6. QED
    BY <2>4, <2>5
<1>11. QED
  BY <1>0, <1>1, <1>5, <1>6, <1>7, <1>8, <1>9, <1>10, Ende

\* An execution under way goes on: it still holds the row.
LEMMA Weiterhin ==
  ASSUME IImport, NEW a \in ImAnfragen, imAnfrage[a].art = "ausfuehren", NEW neu \in ImAnfrageTyp,
         imAnfrage' = [imAnfrage EXCEPT ![a] = neu], neu.art = "ausfuehren",
         neu.modus = imAnfrage[a].modus, neu.neu \cap neu.da = {},
         neu.abbruch => neu.neu = {} /\ neu.da = {},
         neu.modus = "alles_oder_nichts" /\ ~neu.abbruch => neu.fehler = {},
         UNCHANGED <<imZugleich, imLauf, kunde, eintrag, imZaehler>>, speicher' \in SpeicherRek,
         SpeicherFolgt'
  PROVE  IImport'
<1>0. ImTyp /\ imAnfrage[a] # ImRuhe
  BY RuheFakten DEF IImport
<1>1. /\ imAnfrage' \in [ImAnfragen -> ImAnfrageTyp] /\ imAnfrage'[a] = neu
      /\ \A b \in ImAnfragen : b # a => imAnfrage'[b] = imAnfrage[b]
  BY <1>0, EinRequest
<1>2. ImTyp'
  BY <1>0, <1>1 DEF ImTyp, SpeicherRek
<1>3. EinSchloss'
  BY <1>1 DEF IImport, EinSchloss, HaeltLauf
<1>4. Allein'
  BY <1>0, <1>1 DEF IImport, Allein
<1>5. Verbraucht' /\ AllesOderNichts' /\ NachweisBleibt'
  BY OhneLauf
<1>6. KundenGelten' /\ EintraegeDecken' /\ RueckgaengigSchont'
  BY OhneKunden
<1>7. AusfuehrungGilt'
  BY <1>1 DEF IImport, AusfuehrungGilt
<1>8. AuswahlGilt' /\ GeladenGilt'
  BY <1>1 DEF IImport, AuswahlGilt, GeladenGilt
<1>9. QED
  BY <1>2, <1>3, <1>4, <1>5, <1>6, <1>7, <1>8 DEF IImport

LEMMA ExecutionWrites ==
  ASSUME IImport, NEW a \in ImAnfragen, AusfuehrenSchreibt(a)
  PROVE  IImport'
<1> DEFINE q == imAnfrage[a]
           neu == NachSchreiben(q, Vergeben(a))
<1>0. ImTyp /\ speicher \in SpeicherRek /\ q \in ImAnfrageTyp /\ imAnfrage \in [ImAnfragen -> ImAnfrageTyp]
  BY ImFakten DEF IImport
<1>1. /\ q.art = "ausfuehren" /\ q.schritt = "schreiben" /\ imAnfrage' = [imAnfrage EXCEPT ![a] = neu]
      /\ UNCHANGED <<imZugleich, imLauf, speicher, kunde, eintrag, imZaehler>>
  BY <1>0 DEF AusfuehrenSchreibt, An
<1>2. /\ q.neu \cap q.da = {} /\ (q.abbruch => q.neu = {} /\ q.da = {})
      /\ q.modus = "alles_oder_nichts" /\ ~q.abbruch => q.fehler = {}
  BY <1>1 DEF IImport, AusfuehrungGilt
<1>3. Vergeben(a) \subseteq q.neu
  BY DEF Vergeben
<1>4. /\ neu \in ImAnfrageTyp /\ neu.art = "ausfuehren" /\ neu.modus = q.modus /\ neu.schritt = "ablegen"
      /\ neu.neu \cap neu.da = {} /\ (neu.abbruch => neu.neu = {} /\ neu.da = {})
      /\ neu.modus = "alles_oder_nichts" /\ ~neu.abbruch => neu.fehler = {}
  <2>1. CASE Vergeben(a) = {} \/ q.modus = "gueltige"
    <3>1. neu = [q EXCEPT !.schritt = "ablegen", !.neu = @ \ Vergeben(a), !.fehler = @ \cup Vergeben(a)]
      BY <2>1 DEF NachSchreiben
    <3>2. PICK n \in SUBSET ImZeilen, g \in SUBSET ImZeilen :
            n = q.neu \ Vergeben(a) /\ g = q.fehler \cup Vergeben(a)
      BY <1>0, <1>3 DEF ImAnfrageTyp
    <3>3. neu = [q EXCEPT !.schritt = "ablegen", !.neu = n, !.fehler = g]
      BY <1>0, <3>1, <3>2 DEF ImAnfrageTyp
    <3> HIDE DEF neu
    <3>4. /\ neu \in ImAnfrageTyp /\ neu.art = q.art /\ neu.modus = q.modus /\ neu.schritt = "ablegen"
          /\ neu.neu = n /\ neu.da = q.da /\ neu.abbruch = q.abbruch /\ neu.fehler = g
      BY <1>0, <3>3 DEF ImAnfrageTyp
    <3>5. QED
      BY <1>1, <1>2, <2>1, <3>2, <3>4
  <2>2. CASE ~(Vergeben(a) = {} \/ q.modus = "gueltige")
    <3>1. neu = [q EXCEPT !.schritt = "ablegen", !.neu = {}, !.da = {}, !.abbruch = TRUE]
      BY <2>2 DEF NachSchreiben
    <3>2. /\ neu \in ImAnfrageTyp /\ neu.art = q.art /\ neu.modus = q.modus /\ neu.schritt = "ablegen"
          /\ neu.neu = {} /\ neu.da = {} /\ neu.abbruch = TRUE
      BY <1>0, <3>1 DEF ImAnfrageTyp
    <3> HIDE DEF neu
    <3>3. QED
      BY <1>1, <3>2
  <2>3. QED
    BY <2>1, <2>2
<1> HIDE DEF neu
<1>5. SpeicherFolgt'
  <2> SUFFICES ASSUME ~imZugleich, imZaehler.pannen = 0 PROVE SpeicherFolgt'
    BY <1>1 DEF SpeicherFolgt
  <2>1. \A b \in ImAnfragen : b # a => imAnfrage[b] = ImRuhe
    BY <1>1, RuheFakten DEF IImport, Allein
  <2>2. \A b \in ImAnfragen : ~Abgelegt(b) /\ ~Entfernt(b)
    BY <1>1, <2>1, RuheFakten, BerichtFakten DEF Abgelegt, Entfernt
  <2>3. imLauf.quelle = speicher.quelle /\ speicher.berichte = Genannt
    BY <2>2, ImGleichschritt
  <2>4. \A b \in ImAnfragen : ~Abgelegt(b)' /\ ~Entfernt(b)'
    <3>1. /\ imAnfrage'[a] = neu /\ \A b \in ImAnfragen : b # a => imAnfrage'[b] = imAnfrage[b]
      BY <1>0, <1>1
    <3>2. QED
      BY <1>4, <2>1, <3>1, RuheFakten, BerichtFakten DEF Abgelegt, Entfernt
  <2>5. QED
    BY <1>1, <2>3, <2>4 DEF SpeicherFolgt, Genannt
<1>6. QED
  BY <1>0, <1>1, <1>4, <1>5, Weiterhin

LEMMA ExecutionStores ==
  ASSUME IImport, NEW a \in ImAnfragen, AusfuehrenLegtAb(a)
  PROVE  IImport'
<1> DEFINE q == imAnfrage[a]
<1>0. /\ ImTyp /\ speicher \in SpeicherRek /\ q \in ImAnfrageTyp /\ imLauf \in LaufRek
      /\ imAnfrage \in [ImAnfragen -> ImAnfrageTyp]
  BY ImFakten DEF IImport
<1>1. /\ q.art = "ausfuehren" /\ q.schritt = "ablegen"
      /\ UNCHANGED <<imZugleich, imLauf, kunde, eintrag, imZaehler>>
  BY DEF AusfuehrenLegtAb, An
<1>2. /\ imLauf.quelle /\ q.neu \cap q.da = {} /\ (q.abbruch => q.neu = {} /\ q.da = {})
      /\ q.modus = "alles_oder_nichts" /\ ~q.abbruch => q.fehler = {}
  BY <1>1 DEF IImport, AusfuehrungGilt
<1>3. (speicher.quelle /\ q.abbruch) \in BOOLEAN
  OBVIOUS
<1>4. PICK s \in Berichte \cup {KeinBericht} :
        /\ imAnfrage' = [imAnfrage EXCEPT ![a].schritt = s] /\ speicher' \in SpeicherRek
        /\ speicher'.quelle = (speicher.quelle /\ q.abbruch)
        /\ q.fehler = {} => speicher'.berichte = speicher.berichte
        /\ q.fehler # {} => /\ speicher'.berichte = (speicher.berichte \ {imLauf.bericht}) \cup {s}
                            /\ s # KeinBericht
  <2>1. CASE /\ q.fehler = {} /\ speicher' = [speicher EXCEPT !.quelle = @ /\ q.abbruch]
             /\ imAnfrage' = [imAnfrage EXCEPT ![a].schritt = KeinBericht]
    <3>1. /\ speicher' \in SpeicherRek /\ speicher'.quelle = (speicher.quelle /\ q.abbruch)
          /\ speicher'.berichte = speicher.berichte
      BY <1>0, <1>3, <2>1 DEF SpeicherRek
    <3>2. QED
      BY <2>1, <3>1
  <2>2. CASE \E b \in Berichte \ speicher.berichte :
               /\ q.fehler # {}
               /\ speicher' = [quelle |-> speicher.quelle /\ q.abbruch,
                               berichte |-> (speicher.berichte \ {imLauf.bericht}) \cup {b}]
               /\ imAnfrage' = [imAnfrage EXCEPT ![a].schritt = b]
    <3>1. PICK b \in Berichte :
               /\ q.fehler # {}
               /\ speicher' = [quelle |-> speicher.quelle /\ q.abbruch,
                               berichte |-> (speicher.berichte \ {imLauf.bericht}) \cup {b}]
               /\ imAnfrage' = [imAnfrage EXCEPT ![a].schritt = b]
      BY <2>2
    <3>2. /\ speicher' \in SpeicherRek /\ speicher'.quelle = (speicher.quelle /\ q.abbruch)
          /\ speicher'.berichte = (speicher.berichte \ {imLauf.bericht}) \cup {b}
      BY <1>0, <1>3, <3>1 DEF SpeicherRek
    <3>3. QED
      BY <3>1, <3>2, BerichtFakten
  <2>3. QED
    BY <2>1, <2>2 DEF AusfuehrenLegtAb
<1> DEFINE neu == [q EXCEPT !.schritt = s]
<1>5. /\ neu \in ImAnfrageTyp /\ neu.art = "ausfuehren" /\ neu.modus = q.modus /\ neu.schritt = s
      /\ neu.neu = q.neu /\ neu.da = q.da /\ neu.abbruch = q.abbruch /\ neu.fehler = q.fehler
  BY <1>0, <1>1 DEF ImAnfrageTyp
<1>6. imAnfrage' = [imAnfrage EXCEPT ![a] = neu]
  BY <1>0, <1>4
<1> HIDE DEF neu
<1>7. SpeicherFolgt'
  <2> SUFFICES ASSUME ~imZugleich, imZaehler.pannen = 0 PROVE SpeicherFolgt'
    BY <1>1 DEF SpeicherFolgt
  <2>1. \A b \in ImAnfragen : b # a => imAnfrage[b] = ImRuhe
    BY <1>1, RuheFakten DEF IImport, Allein
  <2>2. \A b \in ImAnfragen : ~Abgelegt(b) /\ ~Entfernt(b)
    BY <1>1, <2>1, RuheFakten, BerichtFakten DEF Abgelegt, Entfernt
  <2>3. imLauf.quelle = speicher.quelle /\ speicher.berichte = Genannt
    BY <2>2, ImGleichschritt
  <2>4. /\ imAnfrage'[a] = neu /\ \A b \in ImAnfragen : b # a => imAnfrage'[b] = imAnfrage[b]
    BY <1>0, <1>6
  <2>5. /\ \A b \in ImAnfragen : b # a => ~Abgelegt(b)' /\ ~Entfernt(b)'
        /\ Abgelegt(a)' /\ ~Entfernt(a)'
    BY <1>5, <2>1, <2>4, RuheFakten DEF Abgelegt, Entfernt
  <2>6. speicher'.quelle = neu.abbruch
    BY <1>0, <1>2, <1>4, <1>5, <2>3 DEF ImAnfrageTyp
  <2>7. neu.fehler = {} => speicher'.berichte = Genannt'
    BY <1>1, <1>4, <1>5, <2>3 DEF Genannt
  <2>8. neu.fehler # {} => speicher'.berichte = {neu.schritt} /\ neu.schritt # KeinBericht
    BY <1>4, <1>5, <2>3 DEF Genannt
  <2>9. QED
    BY <2>4, <2>5, <2>6, <2>7, <2>8 DEF SpeicherFolgt
<1>8. speicher' \in SpeicherRek
  BY <1>4
<1>9. /\ neu.neu \cap neu.da = {} /\ (neu.abbruch => neu.neu = {} /\ neu.da = {})
      /\ neu.modus = "alles_oder_nichts" /\ ~neu.abbruch => neu.fehler = {}
  BY <1>2, <1>5
<1>10. QED
  BY <1>1, <1>5, <1>6, <1>7, <1>8, <1>9, Weiterhin

LEMMA ExecutionCommits ==
  ASSUME IImport, NEW a \in ImAnfragen, AusfuehrenCommit(a)
  PROVE  IImport'
<1> DEFINE q == imAnfrage[a]
           f == IF q.abbruch THEN "abgebrochen" ELSE "abgeschlossen"
           k == imLauf.quelle /\ q.abbruch
           r == IF q.fehler = {} THEN imLauf.bericht ELSE q.schritt
           n == imZaehler.ausgefuehrt + (IF q.abbruch THEN 0 ELSE 1)
<1>0. /\ ImTyp /\ speicher \in SpeicherRek /\ q \in ImAnfrageTyp /\ imLauf \in LaufRek
      /\ kunde \in [ImZeilen -> KundeRek] /\ imZaehler \in ZaehlerRek
      /\ eintrag \in [ImZeilen -> {"keiner", "angelegt", "aktualisiert"}]
  BY ImFakten DEF IImport
<1>1. /\ q.art = "ausfuehren" /\ q.schritt \in Berichte \cup {KeinBericht}
      /\ kunde' = [z \in ImZeilen |-> CASE z \in q.neu -> Angelegt
                                        [] z \in q.da -> [kunde[z] EXCEPT !.geaendert = TRUE]
                                        [] OTHER -> kunde[z]]
      /\ eintrag' = Eintraege(q)
      /\ imAnfrage' = [imAnfrage EXCEPT ![a] = ImRuhe] /\ UNCHANGED <<imZugleich, speicher>>
  BY DEF AusfuehrenCommit
<1>2. imLauf' = [imLauf EXCEPT !.status = f, !.fehler = q.fehler, !.quelle = k, !.bericht = r]
  BY <1>0 DEF AusfuehrenCommit, LaufRek
<1>3. imZaehler' = [imZaehler EXCEPT !.ausgefuehrt = n]
  BY <1>0 DEF AusfuehrenCommit, ZaehlerRek
<1>4. /\ imLauf.quelle /\ q.modus = imLauf.modus /\ q.neu \cap q.da = {}
      /\ q.abbruch => q.neu = {} /\ q.da = {}
      /\ q.modus = "alles_oder_nichts" /\ ~q.abbruch => q.fehler = {}
  BY <1>1 DEF IImport, AusfuehrungGilt
<1>5. imZaehler.ausgefuehrt = 0 /\ \A z \in ImZeilen : eintrag[z] = "keiner"
  BY <1>4 DEF IImport, Verbraucht
<1>6. /\ f \in LaufStatus /\ k \in BOOLEAN /\ r \in Berichte \cup {KeinBericht} /\ n \in {0, 1}
      /\ (k <=> q.abbruch) /\ (q.abbruch => n = 0) /\ (~q.abbruch => n = 1 /\ f = "abgeschlossen")
      /\ (q.fehler = {} => r = imLauf.bericht) /\ (q.fehler # {} => r = q.schritt)
  BY <1>0, <1>1, <1>4, <1>5 DEF LaufStatus, LaufRek
<1>7. q.fehler \subseteq ImZeilen /\ q.abbruch \in BOOLEAN
  BY <1>0 DEF ImAnfrageTyp
<1> HIDE DEF f, k, r, n
<1>8. /\ imLauf' \in LaufRek /\ imLauf'.status = f /\ imLauf'.fehler = q.fehler /\ imLauf'.quelle = k
      /\ imLauf'.bericht = r /\ imLauf'.modus = imLauf.modus
  BY <1>0, <1>2, <1>6, <1>7 DEF LaufRek
<1>9. /\ imZaehler' \in ZaehlerRek /\ imZaehler'.ausgefuehrt = n
      /\ imZaehler'.dazwischen = imZaehler.dazwischen /\ imZaehler'.pannen = imZaehler.pannen
  BY <1>0, <1>3, <1>6 DEF ZaehlerRek
<1>10. /\ Angelegt \in KundeRek /\ Angelegt.stand = "aktiv" /\ Angelegt.herkunft = "import"
       /\ Angelegt.durch = "niemand"
  BY DEF Angelegt, NieImportiert, KundeRek
<1>11. \A z \in ImZeilen :
         /\ z \in q.neu => kunde'[z] = Angelegt /\ eintrag'[z] = "angelegt"
         /\ z \in q.da => kunde'[z] = [kunde[z] EXCEPT !.geaendert = TRUE] /\ eintrag'[z] = "aktualisiert"
         /\ z \notin q.neu \cup q.da => kunde'[z] = kunde[z] /\ eintrag'[z] = "keiner"
  BY <1>1, <1>4, <1>5 DEF Eintraege
<1>12. \A z \in ImZeilen : LET x == [kunde[z] EXCEPT !.geaendert = TRUE] IN
         /\ x \in KundeRek /\ x.stand = kunde[z].stand /\ x.herkunft = kunde[z].herkunft
         /\ x.durch = kunde[z].durch
  BY <1>0 DEF KundeRek
<1>13. kunde' \in [ImZeilen -> KundeRek]
  <2>1. \A z \in ImZeilen : kunde'[z] \in KundeRek
    BY <1>0, <1>10, <1>11, <1>12
  <2>2. QED
    BY <1>1, <2>1
<1>14. eintrag' \in [ImZeilen -> {"keiner", "angelegt", "aktualisiert"}]
  <2>1. \A z \in ImZeilen : eintrag'[z] \in {"keiner", "angelegt", "aktualisiert"}
    BY <1>11
  <2>2. eintrag' = [z \in ImZeilen |-> eintrag'[z]]
    BY <1>1 DEF Eintraege
  <2>3. QED
    BY <2>1, <2>2
<1>15. \A z \in ImZeilen : kunde[z].herkunft # "import" /\ kunde[z].durch # "lauf"
                           /\ (kunde[z].stand = "keiner" => kunde[z].herkunft = "keine")
  BY <1>5 DEF IImport, EintraegeDecken, KundenGelten
<1>16. KundenGelten' /\ \A z \in ImZeilen : kunde'[z].durch # "lauf"
  <2> SUFFICES ASSUME NEW z \in ImZeilen
               PROVE  /\ kunde'[z].durch # "lauf"
                      /\ kunde'[z].stand = "keiner" => kunde'[z].herkunft = "keine"
    BY DEF KundenGelten
  <2>1. CASE z \in q.neu
    BY <1>10, <1>11, <2>1
  <2>2. CASE z \in q.da
    BY <1>11, <1>12, <1>15, <2>2
  <2>3. CASE z \notin q.neu \cup q.da
    BY <1>11, <1>15, <2>3
  <2>4. QED
    BY <2>1, <2>2, <2>3
<1>17. EintraegeDecken'
  BY <1>10, <1>11, <1>12, <1>15 DEF EintraegeDecken
<1>18. RueckgaengigSchont'
  BY <1>16 DEF RueckgaengigSchont
<1>19. Verbraucht'
  <2>1. q.abbruch => \A z \in ImZeilen : eintrag'[z] = "keiner"
    BY <1>4, <1>11
  <2>2. QED
    BY <1>6, <1>7, <1>8, <1>9, <2>1 DEF Verbraucht
<1>20. AllesOderNichts'
  <2>1. q.abbruch => \A z \in ImZeilen : eintrag'[z] = "keiner"
    BY <1>4, <1>11
  <2>2. QED
    BY <1>4, <1>7, <1>8, <2>1 DEF AllesOderNichts
<1>21. NachweisBleibt'
  <2>1. q.abbruch => ~(imZaehler'.ausgefuehrt > 0)
    BY <1>6, <1>9
  <2>2. QED
    BY <1>6, <1>7, <1>8, <2>1 DEF NachweisBleibt
<1>22. ~imZugleich /\ imZaehler'.pannen = 0 => imLauf'.quelle = speicher'.quelle /\ speicher'.berichte = Genannt'
  <2> SUFFICES ASSUME ~imZugleich, imZaehler.pannen = 0
               PROVE  imLauf'.quelle = speicher.quelle /\ speicher.berichte = Genannt'
    BY <1>1, <1>9
  <2>1. /\ speicher.quelle = q.abbruch /\ (q.fehler = {} => speicher.berichte = Genannt)
        /\ q.fehler # {} => speicher.berichte = {q.schritt} /\ q.schritt # KeinBericht
    BY <1>1 DEF IImport, SpeicherFolgt, Abgelegt
  <2>2. imLauf'.quelle = speicher.quelle
    BY <1>6, <1>7, <1>8, <2>1
  <2>3. speicher.berichte = Genannt'
    BY <1>6, <1>8, <2>1 DEF Genannt
  <2>4. QED
    BY <2>2, <2>3
<1>23. imAnfrage[a] # ImRuhe /\ \A b \in ImAnfragen : HaeltLauf(b) => b = a
  BY <1>1, RuheFakten DEF IImport, EinSchloss, HaeltLauf
<1>24. QED
  BY <1>0, <1>1, <1>8, <1>9, <1>13, <1>14, <1>16, <1>17, <1>18, <1>19, <1>20, <1>21, <1>22, <1>23, Ende

LEMMA UndoCommits ==
  ASSUME IImport, NEW a \in ImAnfragen, RueckgaengigCommit(a)
  PROVE  IImport'
<1> DEFINE q == imAnfrage[a]
           f == IF q.neu \cup q.da # {} THEN "rueckgaengig" ELSE imLauf.status
<1>0. /\ ImTyp /\ speicher \in SpeicherRek /\ q \in ImAnfrageTyp /\ imLauf \in LaufRek
      /\ kunde \in [ImZeilen -> KundeRek] /\ imZaehler \in ZaehlerRek
      /\ eintrag \in [ImZeilen -> {"keiner", "angelegt", "aktualisiert"}]
  BY ImFakten DEF IImport
<1>1. /\ q.art = "rueckgaengig"
      /\ kunde' = [z \in ImZeilen |-> IF z \in q.neu /\ kunde[z].stand = "aktiv"
                                      THEN [kunde[z] EXCEPT !.stand = "papierkorb", !.durch = "lauf"]
                                      ELSE kunde[z]]
      /\ imAnfrage' = [imAnfrage EXCEPT ![a] = ImRuhe]
      /\ UNCHANGED <<imZugleich, speicher, eintrag, imZaehler>>
  BY DEF RueckgaengigCommit
<1>2. imLauf' = [imLauf EXCEPT !.status = f]
  BY <1>0 DEF RueckgaengigCommit, LaufRek
<1>3. f \in LaufStatus /\ (f = imLauf.status \/ f = "rueckgaengig")
  BY <1>0 DEF LaufStatus, LaufRek
<1> HIDE DEF f
<1>4. /\ imLauf' \in LaufRek /\ imLauf'.status = f /\ imLauf'.fehler = imLauf.fehler
      /\ imLauf'.quelle = imLauf.quelle /\ imLauf'.bericht = imLauf.bericht
      /\ imLauf'.modus = imLauf.modus
  BY <1>0, <1>2, <1>3 DEF LaufRek
<1>5. \A z \in ImZeilen : LET x == [kunde[z] EXCEPT !.stand = "papierkorb", !.durch = "lauf"] IN
        /\ x \in KundeRek /\ x.stand = "papierkorb" /\ x.durch = "lauf"
        /\ x.herkunft = kunde[z].herkunft /\ x.geaendert = kunde[z].geaendert
        /\ x.abhaengig = kunde[z].abhaengig
  BY <1>0 DEF KundeRek
<1>6. \A z \in ImZeilen :
        /\ kunde'[z] \in KundeRek /\ kunde'[z].herkunft = kunde[z].herkunft
        /\ \/ kunde'[z] = kunde[z]
           \/ /\ z \in q.neu /\ kunde'[z].stand = "papierkorb" /\ kunde'[z].durch = "lauf"
              /\ kunde'[z].geaendert = kunde[z].geaendert /\ kunde'[z].abhaengig = kunde[z].abhaengig
  <2> SUFFICES ASSUME NEW z \in ImZeilen
               PROVE  /\ kunde'[z] \in KundeRek /\ kunde'[z].herkunft = kunde[z].herkunft
                      /\ \/ kunde'[z] = kunde[z]
                         \/ /\ z \in q.neu /\ kunde'[z].stand = "papierkorb"
                            /\ kunde'[z].durch = "lauf"
                            /\ kunde'[z].geaendert = kunde[z].geaendert
                            /\ kunde'[z].abhaengig = kunde[z].abhaengig
    OBVIOUS
  <2>1. CASE z \in q.neu /\ kunde[z].stand = "aktiv"
    <3>1. kunde'[z] = [kunde[z] EXCEPT !.stand = "papierkorb", !.durch = "lauf"]
      BY <1>1, <2>1
    <3>2. QED
      BY <1>5, <2>1, <3>1
  <2>2. CASE ~(z \in q.neu /\ kunde[z].stand = "aktiv")
    BY <1>0, <1>1, <2>2
  <2>3. QED
    BY <2>1, <2>2
<1>7. kunde' \in [ImZeilen -> KundeRek]
  BY <1>1, <1>6
<1>8. \A z \in q.neu : /\ eintrag[z] = "angelegt"
                       /\ ~imZaehler.dazwischen => ~kunde[z].geaendert /\ ~kunde[z].abhaengig
  BY <1>1 DEF IImport, AuswahlGilt
<1>9. KundenGelten'
  BY <1>1, <1>6, <1>8, ZenonT(60) DEF IImport, KundenGelten
<1>10. EintraegeDecken'
  <2>1. \A z \in ImZeilen : kunde'[z].herkunft = kunde[z].herkunft
    BY <1>6
  <2>2. eintrag' = eintrag
    BY <1>1
  <2>3. QED
    BY <2>1, <2>2 DEF IImport, EintraegeDecken
<1>11. RueckgaengigSchont'
  BY <1>1, <1>6, <1>8 DEF IImport, RueckgaengigSchont
<1>12. Verbraucht' /\ AllesOderNichts'
  BY <1>1, <1>4 DEF IImport, Verbraucht, AllesOderNichts
<1>13. NachweisBleibt'
  BY <1>1, <1>3, <1>4 DEF IImport, NachweisBleibt
<1>14. q # ImRuhe /\ \A b \in ImAnfragen : HaeltLauf(b) => b = a
  BY <1>1, RuheFakten DEF IImport, EinSchloss, HaeltLauf
<1>15. ~imZugleich /\ imZaehler.pannen = 0 => imLauf'.quelle = speicher.quelle /\ speicher.berichte = Genannt'
  <2>1. ~imZugleich => \A b \in ImAnfragen : ~Abgelegt(b) /\ ~Entfernt(b)
    BY <1>1, <1>14, RuheFakten DEF IImport, Allein, Abgelegt, Entfernt
  <2>2. QED
    BY <1>4, <2>1, ImGleichschritt DEF Genannt
<1>16. QED
  BY <1>0, <1>1, <1>4, <1>7, <1>9, <1>10, <1>11, <1>12, <1>13, <1>14, <1>15, Ende

LEMMA RequestDies ==
  ASSUME IImport, NEW a \in ImAnfragen, ImportScheitert(a)
  PROVE  IImport'
<1>0. ImTyp /\ speicher \in SpeicherRek /\ imZaehler \in ZaehlerRek /\ ImRuhe \in ImAnfrageTyp
  BY ImFakten, RuheFakten DEF IImport
<1>1. /\ imAnfrage' = [imAnfrage EXCEPT ![a] = ImRuhe]
      /\ speicher' = [speicher EXCEPT !.berichte = @ \ {imAnfrage[a].schritt}]
      /\ imZaehler' = [imZaehler EXCEPT !.pannen = @ + 1]
      /\ UNCHANGED <<imZugleich, imLauf, kunde, eintrag>>
  BY DEF ImportScheitert
<1>2. /\ imAnfrage' \in [ImAnfragen -> ImAnfrageTyp] /\ imAnfrage'[a] = ImRuhe
      /\ \A b \in ImAnfragen : b # a => imAnfrage'[b] = imAnfrage[b]
  BY <1>0, <1>1, EinRequest
<1>3. speicher' \in SpeicherRek
  BY <1>0, <1>1 DEF SpeicherRek
<1>4. /\ imZaehler' \in ZaehlerRek /\ imZaehler'.pannen # 0
      /\ imZaehler'.ausgefuehrt = imZaehler.ausgefuehrt
      /\ imZaehler'.dazwischen = imZaehler.dazwischen
  BY <1>0, <1>1 DEF ZaehlerRek
<1>5. ImTyp'
  BY <1>0, <1>1, <1>2, <1>3, <1>4 DEF ImTyp, SpeicherRek, ZaehlerRek
<1>6. EinSchloss' /\ Allein'
  BY <1>1, <1>2, RuheFakten DEF IImport, EinSchloss, Allein, HaeltLauf
<1>7. Verbraucht' /\ AllesOderNichts' /\ NachweisBleibt'
  BY <1>1, <1>4, OhneLauf
<1>8. KundenGelten' /\ EintraegeDecken' /\ RueckgaengigSchont'
  BY <1>1, <1>4, OhneKunden
<1>9. AusfuehrungGilt'
  BY <1>1, <1>2, RuheFakten DEF IImport, AusfuehrungGilt
<1>10. AuswahlGilt'
  BY <1>1, <1>2, <1>4, RuheFakten DEF IImport, AuswahlGilt
<1>11. GeladenGilt'
  BY <1>1, <1>2, <1>4, RuheFakten DEF IImport, GeladenGilt
<1>12. SpeicherFolgt'
  BY <1>4 DEF SpeicherFolgt
<1>13. QED
  BY <1>5, <1>6, <1>7, <1>8, <1>9, <1>10, <1>11, <1>12 DEF IImport

LEMMA AendertSich ==
  ASSUME IImport, NEW z \in ImZeilen, NEW k \in Aenderungen(z)
  PROVE  /\ k \in KundeRek /\ k.stand # "keiner"
         /\ k.herkunft = "import" <=> kunde[z].herkunft = "import"
         /\ k.durch # "lauf"
<1>1. kunde[z] \in KundeRek
  BY ImFakten DEF IImport
<1>2. /\ kunde[z].stand = "keiner" => kunde[z].herkunft = "keine"
      /\ kunde[z].durch = "lauf" => kunde[z].stand = "papierkorb"
  BY DEF IImport, KundenGelten
<1>3. CASE kunde[z].stand = "keiner"
  <2>1. k = [NieImportiert EXCEPT !.stand = "aktiv", !.herkunft = "fremd"]
    BY <1>3 DEF Aenderungen
  <2>2. QED
    BY <1>2, <1>3, <2>1 DEF NieImportiert, KundeRek
<1>4. CASE kunde[z].stand = "papierkorb"
  <2>1. k = [kunde[z] EXCEPT !.stand = "aktiv", !.geaendert = TRUE, !.durch = "niemand"]
    BY <1>4 DEF Aenderungen
  <2>2. QED
    BY <1>1, <2>1 DEF KundeRek
<1>5. CASE kunde[z].stand = "aktiv"
  <2>1. \/ k = [kunde[z] EXCEPT !.geaendert = TRUE]
        \/ k = [kunde[z] EXCEPT !.abhaengig = TRUE]
        \/ k = [kunde[z] EXCEPT !.stand = "papierkorb", !.geaendert = TRUE, !.durch = "nutzer"]
    BY <1>5 DEF Aenderungen
  <2>2. kunde[z].durch # "lauf"
    BY <1>2, <1>5
  <2>3. QED
    BY <1>1, <1>5, <2>1, <2>2 DEF KundeRek
<1>6. QED
  BY <1>1, <1>3, <1>4, <1>5 DEF KundeRek

LEMMA OthersChange ==
  ASSUME IImport, NEW z \in ImZeilen, Fremd(z)
  PROVE  IImport'
<1> DEFINE d == imZaehler.dazwischen \/ \E a \in ImAnfragen : imAnfrage[a].art = "rueckgaengig"
<1>0. ImTyp /\ kunde \in [ImZeilen -> KundeRek] /\ imZaehler \in ZaehlerRek
  BY ImFakten DEF IImport
<1>1. PICK k \in Aenderungen(z) : kunde' = [kunde EXCEPT ![z] = k]
  BY DEF Fremd
<1>2. /\ k \in KundeRek /\ k.stand # "keiner" /\ k.durch # "lauf"
      /\ k.herkunft = "import" <=> kunde[z].herkunft = "import"
  BY AendertSich
<1>3. /\ kunde' \in [ImZeilen -> KundeRek] /\ kunde'[z] = k
      /\ \A y \in ImZeilen : y # z => kunde'[y] = kunde[y]
  BY <1>0, <1>1, <1>2
<1>4. /\ imZaehler' = [imZaehler EXCEPT !.fremd = @ + 1, !.dazwischen = d]
      /\ UNCHANGED <<imZugleich, imLauf, speicher, eintrag, imAnfrage>>
  BY <1>0 DEF Fremd, ZaehlerRek
<1>5. d \in BOOLEAN /\ (imZaehler.dazwischen => d)
      /\ ((\E a \in ImAnfragen : imAnfrage[a].art = "rueckgaengig") => d)
  OBVIOUS
<1> HIDE DEF d
<1>6. /\ imZaehler' \in ZaehlerRek /\ imZaehler'.pannen = imZaehler.pannen
      /\ imZaehler'.ausgefuehrt = imZaehler.ausgefuehrt /\ imZaehler'.dazwischen = d
  <2>1. imZaehler.fremd \in Nat
    BY <1>0 DEF ZaehlerRek
  <2>2. PICK n \in Nat : n = imZaehler.fremd + 1
    BY <2>1
  <2>3. imZaehler' = [imZaehler EXCEPT !.fremd = n, !.dazwischen = d]
    BY <1>4, <2>2
  <2>4. QED
    BY <1>0, <1>5, <2>3 DEF ZaehlerRek
<1>7. ImTyp'
  BY <1>0, <1>3, <1>4, <1>6 DEF ImTyp, KundeRek, ZaehlerRek
<1>8. Verbraucht' /\ AllesOderNichts' /\ NachweisBleibt'
  BY <1>4, <1>6, OhneLauf
<1>9. EinSchloss' /\ Allein' /\ AusfuehrungGilt'
  BY <1>4 DEF IImport, EinSchloss, Allein, AusfuehrungGilt, HaeltLauf
<1>10. GeladenGilt'
  BY <1>4, <1>6 DEF IImport, GeladenGilt
<1>11. SpeicherFolgt'
  BY <1>4, <1>6 DEF IImport, SpeicherFolgt, Abgelegt, Entfernt, Genannt
<1>12. KundenGelten'
  BY <1>2, <1>3, <1>4 DEF IImport, KundenGelten
<1>13. EintraegeDecken'
  BY <1>2, <1>3, <1>4 DEF IImport, EintraegeDecken
<1>14. RueckgaengigSchont'
  BY <1>2, <1>3, <1>5, <1>6 DEF IImport, RueckgaengigSchont
<1>15. AuswahlGilt'
  BY <1>4, <1>5, <1>6 DEF IImport, AuswahlGilt
<1>16. QED
  BY <1>7, <1>8, <1>9, <1>10, <1>11, <1>12, <1>13, <1>14, <1>15 DEF IImport

LEMMA PeriodEnds ==
  ASSUME IImport, FristEndet \/ UNCHANGED imVars
  PROVE  IImport'
<1>0. ImTyp /\ imLauf \in LaufRek
  BY ImFakten DEF IImport
<1>1. /\ imLauf' = [imLauf EXCEPT !.alt = TRUE] \/ imLauf' = imLauf
      /\ UNCHANGED <<imZugleich, speicher, kunde, eintrag, imAnfrage, imZaehler>>
  BY DEF FristEndet, imVars
<1>2. /\ imLauf' \in LaufRek /\ imLauf'.status = imLauf.status /\ imLauf'.fehler = imLauf.fehler
      /\ imLauf'.quelle = imLauf.quelle /\ imLauf'.bericht = imLauf.bericht
      /\ imLauf'.modus = imLauf.modus
  BY <1>0, <1>1 DEF LaufRek
<1>3. ImTyp'
  BY <1>0, <1>1, <1>2 DEF ImTyp, LaufRek
<1>4. Verbraucht' /\ AllesOderNichts' /\ NachweisBleibt'
  BY <1>1, <1>2, OhneLauf
<1>5. KundenGelten' /\ EintraegeDecken' /\ RueckgaengigSchont'
  BY <1>1, OhneKunden
<1>6. EinSchloss' /\ Allein' /\ AuswahlGilt'
  BY <1>1 DEF IImport, EinSchloss, Allein, AuswahlGilt, HaeltLauf
<1>7. AusfuehrungGilt' /\ GeladenGilt'
  BY <1>1, <1>2 DEF IImport, AusfuehrungGilt, GeladenGilt
<1>8. SpeicherFolgt'
  BY <1>1, <1>2 DEF IImport, SpeicherFolgt, Abgelegt, Entfernt, Genannt
<1>9. QED
  BY <1>3, <1>4, <1>5, <1>6, <1>7, <1>8 DEF IImport

LEMMA ImportAnfang == ImInit => IImport
<1> SUFFICES ASSUME ImInit PROVE IImport
  OBVIOUS
<1>1. PICK u \in UngueltigeMengen :
        imLauf = [status |-> "analysiert", modus |-> "ohne", quelle |-> TRUE, bericht |-> KeinBericht,
                  fehler |-> {}, ungueltig |-> u, alt |-> FALSE]
  BY DEF ImInit
<1>2. u \subseteq ImZeilen
  BY ImportAnnahme
<1>3. /\ imZugleich \in BOOLEAN /\ speicher = [quelle |-> TRUE, berichte |-> {}]
      /\ kunde = [z \in ImZeilen |-> NieImportiert] /\ eintrag = [z \in ImZeilen |-> "keiner"]
      /\ imAnfrage = [a \in ImAnfragen |-> ImRuhe]
      /\ imZaehler = [ausgefuehrt |-> 0, dazwischen |-> FALSE, fremd |-> 0, pannen |-> 0]
  BY DEF ImInit
<1>4. imLauf \in LaufRek /\ imLauf.quelle = TRUE /\ imLauf.bericht = KeinBericht /\ imLauf.fehler = {}
  BY <1>1, <1>2 DEF LaufRek, LaufStatus
<1>5. /\ speicher \in SpeicherRek /\ imZaehler \in ZaehlerRek /\ imZaehler.ausgefuehrt = 0
      /\ speicher.quelle = TRUE /\ speicher.berichte = {}
  BY <1>3 DEF SpeicherRek, ZaehlerRek
<1>6. NieImportiert \in KundeRek /\ NieImportiert.herkunft = "keine" /\ NieImportiert.durch = "niemand"
  BY DEF NieImportiert, KundeRek
<1>7. ImTyp
  BY <1>3, <1>4, <1>5, <1>6, RuheFakten DEF ImTyp, LaufRek, SpeicherRek, KundeRek, ZaehlerRek
<1>8. \A a \in ImAnfragen : imAnfrage[a] = ImRuhe
  BY <1>3
<1>9. EinSchloss /\ Allein /\ AusfuehrungGilt /\ AuswahlGilt /\ GeladenGilt
  BY <1>8, RuheFakten DEF EinSchloss, Allein, AusfuehrungGilt, AuswahlGilt, GeladenGilt, HaeltLauf
<1>10. SpeicherFolgt
  BY <1>4, <1>5, <1>8, RuheFakten, BerichtFakten DEF SpeicherFolgt, Abgelegt, Entfernt, Genannt
<1>11. KundenGelten /\ EintraegeDecken /\ RueckgaengigSchont
  BY <1>3, <1>6 DEF KundenGelten, EintraegeDecken, RueckgaengigSchont
<1>12. Verbraucht /\ AllesOderNichts
  BY <1>3, <1>4, <1>5 DEF Verbraucht, AllesOderNichts
<1>13. NachweisBleibt
  <2>1. ~(imZaehler.ausgefuehrt > 0)
    BY <1>5
  <2>2. QED
    BY <2>1 DEF NachweisBleibt
<1>14. QED
  BY <1>7, <1>9, <1>10, <1>11, <1>12, <1>13 DEF IImport

LEMMA ImportSchrittHaelt ==
  ASSUME IImport, [ImNext]_imVars
  PROVE  IImport'
<1>1. CASE \E a \in ImAnfragen :
             \/ ImportSchritt(a) \/ ImportScheitert(a)
             \/ \E m \in Modi : ProbelaufBeginnt(a, m)
             \/ AusfuehrenBeginnt(a) \/ RueckgaengigBeginnt(a) \/ VerwerfenBeginnt(a) \/ RaeumeBeginnt(a)
  <2>1. PICK a \in ImAnfragen :
             \/ ImportSchritt(a) \/ ImportScheitert(a)
             \/ \E m \in Modi : ProbelaufBeginnt(a, m)
             \/ AusfuehrenBeginnt(a) \/ RueckgaengigBeginnt(a) \/ VerwerfenBeginnt(a) \/ RaeumeBeginnt(a)
    BY <1>1
  <2>2. CASE ImportSchritt(a)
    BY <2>2, TrialWrites, ExecutionWrites, ExecutionStores, ExecutionCommits, UndoCommits,
       RemovalWrites DEF ImportSchritt
  <2>3. CASE ImportScheitert(a)
    BY <2>3, RequestDies
  <2>4. CASE \E m \in Modi : ProbelaufBeginnt(a, m)
    BY <2>4, TrialStarts
  <2>5. CASE AusfuehrenBeginnt(a) \/ RueckgaengigBeginnt(a)
    BY <2>5, ExecutionStarts, UndoStarts
  <2>6. CASE VerwerfenBeginnt(a) \/ RaeumeBeginnt(a)
    BY <2>6, DiscardStarts, CleanupStarts
  <2>7. QED
    BY <2>1, <2>2, <2>3, <2>4, <2>5, <2>6
<1>2. CASE \E z \in ImZeilen : Fremd(z)
  BY <1>2, OthersChange
<1>3. CASE FristEndet \/ UNCHANGED imVars
  BY <1>3, PeriodEnds
<1>4. QED
  BY <1>1, <1>2, <1>3 DEF ImNext

\* For every file and every overlap of requests, failures and changes by others: a file is
\* executed at most once, its entries name exactly what the run has created, "all or nothing"
\* leaves nothing behind after a failure, undoing bins nothing that others have built on, and
\* row and store agree when nobody is at work (ausfuehren, rueckgaengig, verwerfen, raeume_auf).
THEOREM ImportGilt == ImSpec => []ImportStimmt
<1>1. IImport => ImportStimmt
  <2> SUFFICES ASSUME IImport PROVE ImportStimmt
    OBVIOUS
  <2>1. EinmalAusgefuehrt
    BY DEF IImport, Verbraucht, EinmalAusgefuehrt
  <2>2. ObjekteDa
    <3> SUFFICES ASSUME ~imZugleich, imZaehler.pannen = 0, \A a \in ImAnfragen : imAnfrage[a] = ImRuhe
                 PROVE  imLauf.quelle = speicher.quelle /\ speicher.berichte = Genannt
      BY DEF ObjekteDa, Genannt
    <3>1. \A a \in ImAnfragen : ~Abgelegt(a) /\ ~Entfernt(a)
      BY RuheFakten DEF Abgelegt, Entfernt
    <3>2. QED
      BY <3>1, ImGleichschritt
  <2>3. QED
    BY <2>1, <2>2 DEF IImport, ImportStimmt
<1>2. QED
  BY <1>1, ImportAnfang, ImportSchrittHaelt, PTL DEF ImSpec

-----------------------------------------------------------------------------
(***************************************************************************)
(* The scheduler loop.  A row is protected by the lock on the rows of its  *)
(* job or, as long as no connection broke, by the lock of the tick.        *)
(***************************************************************************)

Geschuetzt(z) == z \in Gesperrt \/ ~abgerissen

JobLaeuft == \A w \in Worker : tick[w].phase # "ruht" => tick[w].job \in 1..Len(Plan)

TickMitSperre ==
  ~abgerissen => \A w \in Worker : tick[w].phase # "ruht" => lock = w

BeuteNurImLauf == \A w \in Worker : tick[w].phase # "commit" => tick[w].beute = {}

BeuteIstFaellig ==
  \A w \in Worker, z \in Zeilen : z \in tick[w].beute /\ Geschuetzt(z) => arbeit[z] = "faellig"

EinHalter ==
  \A v, w \in Worker, z \in Zeilen :
    z \in tick[v].beute /\ z \in tick[w].beute /\ Geschuetzt(z) => v = w

HoechstensEinmal ==
  \A z \in Zeilen : Geschuetzt(z) =>
    /\ arbeit[z] = "getan" => wirkung[z] =< 1
    /\ arbeit[z] # "getan" => wirkung[z] = 0

IRunner ==
  /\ RunnerTyp /\ JobLaeuft /\ TickMitSperre
  /\ BeuteNurImLauf /\ BeuteIstFaellig /\ EinHalter /\ HoechstensEinmal

LEMMA RuheTyp == Ruhe \in TickTyp
BY RunnerAnnahme DEF Ruhe, TickTyp, Phasen

LEMMA RunnerStart == RunnerInit => IRunner
<1> SUFFICES ASSUME RunnerInit PROVE IRunner
  OBVIOUS
<1>1. RunnerTyp
  <2>1. [alter |-> MaxVersatz + 1, pause |-> FALSE] \in LaufTyp
    BY RunnerAnnahme DEF LaufTyp
  <2>2. lauf \in [Zeilen -> LaufTyp]
    BY <2>1 DEF RunnerInit
  <2>3. tick \in [Worker -> TickTyp]
    BY RuheTyp DEF RunnerInit
  <2>4. /\ arbeit \in [Zeilen -> {"keine", "faellig", "getan"}]
        /\ wirkung \in [Zeilen -> Nat]
    BY DEF RunnerInit
  <2>5. defekt \subseteq Anfaellig /\ stoerungen \in 0..MaxStoerungen /\ defekte \in 0..MaxDefekte
    BY RunnerAnnahme DEF RunnerInit
  <2>6. abgerissen \in BOOLEAN
    BY DEF RunnerInit
  <2>7. QED
    BY <2>2, <2>3, <2>4, <2>5, <2>6 DEF RunnerInit, RunnerTyp
<1>2. \A w \in Worker : tick[w].phase = "ruht" /\ tick[w].beute = {}
  BY DEF RunnerInit, Ruhe
<1>3. HoechstensEinmal
  BY DEF RunnerInit, HoechstensEinmal
<1>4. QED
  BY <1>1, <1>2, <1>3 DEF IRunner, JobLaeuft, TickMitSperre, BeuteNurImLauf, BeuteIstFaellig, EinHalter

\* A step of a worker's tick leaves the other ticks alone.
NurTick(w) == \A v \in Worker \ {w} : tick'[v] = tick[v]

\* The end of a job: nothing is held, and the lock is given back with the last one.
LEMMA JobEnde ==
  ASSUME IRunner, NEW w \in Worker, tick[w].phase # "ruht", Weiter(w) \/ NaechsteZeile(w)
  PROVE  /\ tick' \in [Worker -> TickTyp] /\ NurTick(w)
         /\ tick'[w].beute = {} /\ tick'[w].phase \in {"ruht", "pruefen", "lauf"}
         /\ tick'[w].phase # "ruht" => lock' = lock /\ tick'[w].job \in 1..Len(Plan)
         /\ lock' = lock \/ (lock = w /\ lock' = None)
<1>0. /\ tick \in [Worker -> TickTyp] /\ tick[w].job \in 1..Len(Plan)
      /\ tick[w] \in TickTyp /\ Len(Plan) \in Nat
  BY RunnerAnnahme DEF IRunner, RunnerTyp, JobLaeuft
<1>1. CASE Weiter(w) /\ LetzterJob(w)
  <2>1. tick' = [tick EXCEPT ![w] = Ruhe] /\ lock' = IF lock = w THEN None ELSE lock
    BY <1>1 DEF Weiter
  <2>2. tick'[w] = Ruhe
    BY <2>1, <1>0
  <2>3. Ruhe.phase = "ruht" /\ Ruhe.beute = {}
    BY DEF Ruhe
  <2>4. QED
    BY <2>1, <2>2, <2>3, <1>0, RuheTyp DEF NurTick
<1>2. CASE Weiter(w) /\ ~LetzterJob(w)
  <2> DEFINE neu == [Ruhe EXCEPT !.phase = "pruefen", !.job = tick[w].job + 1,
                                 !.versatz = tick[w].versatz]
  <2>1. tick' = [tick EXCEPT ![w] = neu] /\ lock' = lock
    BY <1>2 DEF Weiter
  <2>2. tick[w].job + 1 \in 1..Len(Plan)
    BY <1>0, <1>2 DEF LetzterJob
  <2>3. /\ neu.phase = "pruefen" /\ neu.beute = {}
        /\ neu.job = tick[w].job + 1
    BY DEF Ruhe
  <2>6. tick[w].versatz \in [Zeilen -> 0..MaxVersatz]
    BY <1>0 DEF TickTyp
  <2>7. tick[w].job + 1 \in 0..Len(Plan)
    BY <2>2, <1>0
  <2>8. neu \in TickTyp
    BY <2>6, <2>7, RuheTyp DEF TickTyp, Phasen
  <2>4. tick'[w] = neu
    BY <2>1, <1>0
  <2> HIDE DEF neu
  <2>5. QED
    BY <2>1, <2>2, <2>3, <2>8, <2>4, <1>0 DEF NurTick
<1>3. CASE NaechsteZeile(w) /\ ~Weiter(w)
  <2>1. PICK z \in tick[w].rest :
          tick' = [tick EXCEPT ![w].phase = "lauf", ![w].dran = {z}, ![w].rest = @ \ {z},
                               ![w].beute = {}]
    BY <1>3 DEF NaechsteZeile
  <2> DEFINE neu == [tick[w] EXCEPT !.phase = "lauf", !.dran = {z}, !.rest = @ \ {z}, !.beute = {}]
  <2>2. tick' = [tick EXCEPT ![w] = neu] /\ lock' = lock
    BY <2>1, <1>0, <1>3 DEF NaechsteZeile
  <2>3. neu.phase = "lauf" /\ neu.beute = {} /\ neu.job = tick[w].job
    BY <1>0 DEF TickTyp
  <2>6. neu \in TickTyp
    BY <1>0, z \in Zeilen DEF TickTyp, Phasen
  <2>4. tick'[w] = neu
    BY <2>2, <1>0
  <2> HIDE DEF neu
  <2>5. QED
    BY <2>2, <2>3, <2>6, <2>4, <1>0 DEF NurTick
<1>4. QED
  BY <1>1, <1>2, <1>3

\* A step that does no work and holds nothing afterwards keeps the invariant.
LEMMA OhneArbeit ==
  ASSUME IRunner, NEW w \in Worker, RunnerTyp', NurTick(w), tick'[w].beute = {},
         tick'[w].phase # "ruht" => tick'[w].job \in 1..Len(Plan),
         UNCHANGED <<arbeit, wirkung, abgerissen>>,
         ~abgerissen /\ tick'[w].phase # "ruht" => lock' = w,
         lock' = lock \/ lock \in {w, None}
  PROVE  IRunner'
<1>1. JobLaeuft'
  BY DEF IRunner, JobLaeuft, NurTick
<1>2. TickMitSperre'
  <2> SUFFICES ASSUME ~abgerissen, NEW v \in Worker \ {w}, tick[v].phase # "ruht"
               PROVE  lock' = v
    BY DEF TickMitSperre, NurTick
  <2>1. lock = v
    BY DEF IRunner, TickMitSperre
  <2>2. QED
    BY <2>1, RunnerAnnahme
<1>3. BeuteNurImLauf'
  BY DEF IRunner, BeuteNurImLauf, NurTick
<1>4. BeuteIstFaellig'
  BY DEF IRunner, BeuteIstFaellig, NurTick, Geschuetzt
<1>5. EinHalter'
  BY DEF IRunner, EinHalter, NurTick, Geschuetzt
<1>6. HoechstensEinmal'
  BY DEF IRunner, HoechstensEinmal, Geschuetzt
<1>7. QED
  BY <1>1, <1>2, <1>3, <1>4, <1>5, <1>6 DEF IRunner

\* A step that leaves the ticks' phases and loot, the work and the lock alone keeps it as well.
LEMMA OhneTick ==
  ASSUME IRunner, RunnerTyp',
         \A w \in Worker : /\ tick'[w].phase = tick[w].phase /\ tick'[w].job = tick[w].job
                           /\ tick'[w].beute = tick[w].beute,
         UNCHANGED <<arbeit, wirkung, lock, abgerissen>>
  PROVE  IRunner'
BY DEF IRunner, JobLaeuft, TickMitSperre, BeuteNurImLauf, BeuteIstFaellig, EinHalter,
       HoechstensEinmal, Geschuetzt

LEMMA TickBeginnt ==
  ASSUME IRunner, NEW w \in Worker, TickBeginn(w)
  PROVE  IRunner'
<1> DEFINE neu == [tick[w] EXCEPT !.phase = "pruefen", !.job = 1]
<1>0. tick \in [Worker -> TickTyp] /\ tick[w] \in TickTyp /\ Len(Plan) \in Nat \ {0}
  BY RunnerAnnahme DEF IRunner, RunnerTyp
<1>1. tick' = [tick EXCEPT ![w] = neu]
  BY <1>0 DEF TickBeginn
<1>2. tick'[w] = neu /\ NurTick(w)
  BY <1>0, <1>1 DEF NurTick
<1>3. neu.phase = "pruefen" /\ neu.job = 1 /\ neu.beute = tick[w].beute
  BY <1>0 DEF TickTyp
<1>4. neu \in TickTyp
  <2>1. 1 \in 0..Len(Plan)
    BY <1>0
  <2>2. QED
    BY <1>0, <2>1 DEF TickTyp, Phasen
<1>5. tick[w].beute = {}
  BY DEF IRunner, BeuteNurImLauf, TickBeginn
<1> HIDE DEF neu
<1>6. tick' \in [Worker -> TickTyp]
  BY <1>0, <1>1, <1>4
<1>7. RunnerTyp'
  BY <1>6 DEF IRunner, RunnerTyp, TickBeginn, fehler
<1>8. 1 \in 1..Len(Plan)
  BY <1>0
<1>9. lock = None /\ lock' = w /\ UNCHANGED <<arbeit, wirkung, abgerissen>>
  BY DEF TickBeginn, fehler
<1>10. QED
  BY <1>2, <1>3, <1>5, <1>7, <1>8, <1>9, OhneArbeit

LEMMA TickPrueft ==
  ASSUME IRunner, NEW w \in Worker, Pruefe(w)
  PROVE  IRunner'
<1>0. /\ tick \in [Worker -> TickTyp] /\ tick[w] \in TickTyp
      /\ tick[w].phase = "pruefen" /\ tick[w].beute = {}
      /\ tick[w].job \in 1..Len(Plan) /\ Plan[tick[w].job] \subseteq Zeilen
  <2>0. tick[w].phase = "pruefen"
    BY DEF Pruefe
  <2>1. tick \in [Worker -> TickTyp] /\ tick[w].phase = "pruefen"
    BY <2>0 DEF IRunner, RunnerTyp
  <2>2. tick[w].beute = {} /\ tick[w].job \in 1..Len(Plan)
    BY <2>1 DEF IRunner, BeuteNurImLauf, JobLaeuft
  <2>3. \A j \in 1..Len(Plan) : Plan[j] \in SUBSET Zeilen
    BY RunnerAnnahme
  <2>4. QED
    BY <2>1, <2>2, <2>3
<1>1. UNCHANGED <<lauf, arbeit, wirkung, defekt, abgerissen, stoerungen, defekte>>
  BY DEF Pruefe, fehler
<1>2. ~abgerissen => lock = w
  BY <1>0 DEF IRunner, TickMitSperre
<1>3. CASE Weiter(w)
  <2>1. RunnerTyp'
    BY <1>0, <1>1, <1>3, JobEnde DEF IRunner, RunnerTyp
  <2>2. QED
    BY <1>0, <1>1, <1>2, <1>3, <2>1, JobEnde, OhneArbeit
<1>4. CASE ~Weiter(w)
  <2> DEFINE faellige == {z \in Plan[tick[w].job] : IstFaellig(w, z)}
             viele == Cardinality(faellige) > 1
             neu == [tick[w] EXCEPT !.phase = "lauf", !.sammel = viele, !.dran = faellige]
  <2>1. tick' = [tick EXCEPT ![w].phase = "lauf", ![w].sammel = viele, ![w].dran = faellige]
        /\ lock' = lock
    BY <1>4 DEF Pruefe
  <2>2. faellige \in SUBSET Zeilen /\ viele \in BOOLEAN
    BY <1>0
  <2> HIDE DEF faellige, viele
  <2>3. tick' = [tick EXCEPT ![w] = neu]
    BY <1>0, <2>1
  <2>4. neu.phase = "lauf" /\ neu.job = tick[w].job /\ neu.beute = tick[w].beute
    BY <1>0 DEF TickTyp
  <2>5. neu \in TickTyp
    BY <1>0, <2>2 DEF TickTyp, Phasen
  <2>6. tick'[w] = neu /\ NurTick(w)
    BY <1>0, <2>3 DEF NurTick
  <2> HIDE DEF neu
  <2>7. tick' \in [Worker -> TickTyp]
    BY <1>0, <2>3, <2>5
  <2>8. RunnerTyp'
    BY <1>1, <2>1, <2>7 DEF IRunner, RunnerTyp
  <2>9. QED
    BY <1>0, <1>1, <1>2, <2>1, <2>4, <2>6, <2>8, OhneArbeit
<1>5. QED
  BY <1>3, <1>4

LEMMA Gescheitert ==
  ASSUME IRunner, NEW w \in Worker, LaufScheitert(w)
  PROVE  IRunner'
<1>0. /\ tick \in [Worker -> TickTyp] /\ tick[w] \in TickTyp
      /\ tick[w].phase = "commit" /\ tick[w].job \in 1..Len(Plan)
  BY DEF IRunner, RunnerTyp, JobLaeuft, LaufScheitert
<1>1. UNCHANGED <<lauf, arbeit, wirkung, lock, defekt, abgerissen, stoerungen, defekte>>
  BY DEF LaufScheitert, fehler
<1>2. ~abgerissen => lock = w
  BY <1>0 DEF IRunner, TickMitSperre
<1>3. \E neu \in TickTyp : /\ tick' = [tick EXCEPT ![w] = neu]
                           /\ neu.beute = {} /\ neu.job = tick[w].job
  <2>1. CASE tick[w].sammel
    <3>1. PICK z \in tick[w].dran :
            tick' = [tick EXCEPT ![w].phase = "lauf", ![w].sammel = FALSE, ![w].dran = {z},
                                 ![w].rest = tick[w].dran \ {z}, ![w].beute = {}]
      BY <2>1 DEF LaufScheitert
    <3> DEFINE neu == [tick[w] EXCEPT !.phase = "lauf", !.sammel = FALSE, !.dran = {z},
                                      !.rest = tick[w].dran \ {z}, !.beute = {}]
    <3>2. tick' = [tick EXCEPT ![w] = neu]
      BY <3>1, <1>0
    <3>3. neu.beute = {} /\ neu.job = tick[w].job
      BY <1>0 DEF TickTyp
    <3>4. neu \in TickTyp
      <4>1. {z} \in SUBSET Zeilen /\ tick[w].dran \ {z} \in SUBSET Zeilen
        BY <1>0 DEF TickTyp
      <4>2. QED
        BY <1>0, <4>1 DEF TickTyp, Phasen
    <3> HIDE DEF neu
    <3>5. QED
      BY <3>2, <3>3, <3>4
  <2>2. CASE ~tick[w].sammel
    <3> DEFINE neu == [tick[w] EXCEPT !.phase = "fehlschlag", !.beute = {}]
    <3>1. tick' = [tick EXCEPT ![w].phase = "fehlschlag", ![w].beute = {}]
      BY <2>2 DEF LaufScheitert
    <3>2. tick' = [tick EXCEPT ![w] = neu]
      BY <3>1, <1>0
    <3>3. neu.beute = {} /\ neu.job = tick[w].job
      BY <1>0 DEF TickTyp
    <3>4. neu \in TickTyp
      BY <1>0 DEF TickTyp, Phasen
    <3> HIDE DEF neu
    <3>5. QED
      BY <3>2, <3>3, <3>4
  <2>3. QED
    BY <2>1, <2>2
<1>4. PICK neu \in TickTyp : /\ tick' = [tick EXCEPT ![w] = neu]
                             /\ neu.beute = {} /\ neu.job = tick[w].job
  BY <1>3
<1>5. /\ tick' \in [Worker -> TickTyp] /\ NurTick(w)
      /\ tick'[w].beute = {} /\ tick'[w].job \in 1..Len(Plan)
  BY <1>0, <1>4 DEF NurTick
<1>6. RunnerTyp'
  BY <1>1, <1>5 DEF IRunner, RunnerTyp
<1>7. QED
  BY <1>1, <1>2, <1>5, <1>6, OhneArbeit

\* The mark of a run, as a success or as a failure.
LEMMA Markiert ==
  ASSUME IRunner, NEW w \in Worker, Markiere(w) \/ MarkiereFehlschlag(w)
  PROVE  IRunner'
<1>0. /\ tick[w] \in TickTyp /\ tick[w].phase \in {"markieren", "fehlschlag"}
      /\ lauf \in [Zeilen -> LaufTyp]
  BY DEF IRunner, RunnerTyp, Markiere, MarkiereFehlschlag
<1>1. UNCHANGED <<arbeit, wirkung, defekt, abgerissen, stoerungen, defekte>> /\ NaechsteZeile(w)
  BY DEF Markiere, MarkiereFehlschlag, fehler
<1>2. ~abgerissen => lock = w
  BY <1>0 DEF IRunner, TickMitSperre
<1>3. lauf' \in [Zeilen -> LaufTyp]
  <2>1. CASE Markiere(w)
    <3>1. \A z \in Zeilen : [alter |-> tick[w].versatz[z], pause |-> FALSE] \in LaufTyp
      BY <1>0, RunnerAnnahme DEF TickTyp, LaufTyp
    <3>2. QED
      BY <1>0, <2>1, <3>1 DEF Markiere
  <2>2. CASE MarkiereFehlschlag(w)
    <3>1. \A z \in Zeilen : [lauf[z] EXCEPT !.pause = @ \/ z \in tick[w].dran] \in LaufTyp
      BY <1>0 DEF LaufTyp
    <3>2. QED
      BY <2>2, <3>1 DEF MarkiereFehlschlag
  <2>3. QED
    BY <2>1, <2>2
<1>4. RunnerTyp'
  BY <1>0, <1>1, <1>3, JobEnde, RunnerAnnahme DEF IRunner, RunnerTyp
<1>5. QED
  BY <1>0, <1>1, <1>2, <1>4, JobEnde, OhneArbeit

\* The job selects what is due; rows that another run keeps locked are passed over.
LEMMA Ausgewaehlt ==
  ASSUME IRunner, NEW w \in Worker, LaufBeginn(w)
  PROVE  IRunner'
<1> DEFINE wahl == Kandidaten(w, tick[w].dran)
           neu == [tick[w] EXCEPT !.phase = "commit", !.beute = wahl]
<1>0. /\ tick \in [Worker -> TickTyp] /\ tick[w] \in TickTyp
      /\ tick[w].phase = "lauf" /\ tick[w].job \in 1..Len(Plan)
  BY DEF IRunner, RunnerTyp, JobLaeuft, LaufBeginn
<1>1. UNCHANGED <<lauf, arbeit, wirkung, lock, defekt, abgerissen, stoerungen, defekte>>
  BY DEF LaufBeginn, fehler
<1>2. /\ wahl \in SUBSET Zeilen
      /\ \A z \in wahl : arbeit[z] = "faellig"
      /\ \A v \in Worker \ {w}, z \in wahl : z \notin tick[v].beute \/ z \notin Gesperrt
  BY <1>0 DEF Kandidaten, FremdGesperrt, ZeilenSperren, TickTyp
<1>3. tick' = [tick EXCEPT ![w].phase = "commit", ![w].beute = wahl]
  BY DEF LaufBeginn
<1> HIDE DEF wahl
<1>4. tick' = [tick EXCEPT ![w] = neu]
  BY <1>0, <1>3
<1>5. neu.phase = "commit" /\ neu.beute = wahl /\ neu.job = tick[w].job
  BY <1>0 DEF TickTyp
<1>6. neu \in TickTyp
  BY <1>0, <1>2 DEF TickTyp, Phasen
<1>7. tick'[w] = neu /\ NurTick(w) /\ tick' \in [Worker -> TickTyp]
  BY <1>0, <1>4, <1>6 DEF NurTick
<1> HIDE DEF neu
<1>8. RunnerTyp' /\ JobLaeuft'
  BY <1>0, <1>1, <1>5, <1>7 DEF IRunner, RunnerTyp, JobLaeuft, NurTick
<1>9. TickMitSperre'
  BY <1>0, <1>1, <1>5, <1>7 DEF IRunner, TickMitSperre, NurTick
<1>10. BeuteNurImLauf' /\ BeuteIstFaellig'
  BY <1>1, <1>2, <1>5, <1>7 DEF IRunner, BeuteNurImLauf, BeuteIstFaellig, NurTick, Geschuetzt
<1>11. ~abgerissen => \A v \in Worker \ {w} : tick[v].beute = {}
  BY <1>0 DEF IRunner, TickMitSperre, BeuteNurImLauf
<1>12. EinHalter'
  BY <1>1, <1>2, <1>5, <1>7, <1>11 DEF IRunner, EinHalter, NurTick, Geschuetzt
<1>13. HoechstensEinmal'
  BY <1>1 DEF IRunner, HoechstensEinmal, Geschuetzt
<1>14. QED
  BY <1>8, <1>9, <1>10, <1>12, <1>13 DEF IRunner

\* The work is done once: it was due, nobody else held the row, and it is due no more.
LEMMA Getan ==
  ASSUME IRunner, NEW w \in Worker, LaufCommit(w)
  PROVE  IRunner'
<1> DEFINE neu == [tick[w] EXCEPT !.phase = "markieren", !.beute = {}]
           beute == tick[w].beute
<1>0. /\ tick \in [Worker -> TickTyp] /\ tick[w] \in TickTyp
      /\ tick[w].phase = "commit" /\ tick[w].job \in 1..Len(Plan)
      /\ arbeit \in [Zeilen -> {"keine", "faellig", "getan"}] /\ wirkung \in [Zeilen -> Nat]
  BY DEF IRunner, RunnerTyp, JobLaeuft, LaufCommit
<1>1. UNCHANGED <<lauf, lock, defekt, abgerissen, stoerungen, defekte>>
  BY DEF LaufCommit, fehler
<1>2. /\ arbeit' = [z \in Zeilen |-> IF z \in beute THEN "getan" ELSE arbeit[z]]
      /\ wirkung' = [z \in Zeilen |-> wirkung[z] + (IF z \in beute THEN 1 ELSE 0)]
      /\ tick' = [tick EXCEPT ![w].phase = "markieren", ![w].beute = {}]
  BY DEF LaufCommit
<1>3. tick' = [tick EXCEPT ![w] = neu]
  BY <1>0, <1>2
<1>4. neu.phase = "markieren" /\ neu.beute = {} /\ neu.job = tick[w].job
  BY <1>0 DEF TickTyp
<1>5. neu \in TickTyp
  BY <1>0 DEF TickTyp, Phasen
<1>6. tick'[w] = neu /\ NurTick(w) /\ tick' \in [Worker -> TickTyp]
  BY <1>0, <1>3, <1>5 DEF NurTick
<1>7. /\ arbeit' \in [Zeilen -> {"keine", "faellig", "getan"}]
      /\ wirkung' \in [Zeilen -> Nat]
  BY <1>0, <1>2
<1> HIDE DEF neu
<1>8. RunnerTyp' /\ JobLaeuft'
  BY <1>0, <1>1, <1>4, <1>6, <1>7 DEF IRunner, RunnerTyp, JobLaeuft, NurTick
<1>9. TickMitSperre'
  BY <1>0, <1>1, <1>4, <1>6 DEF IRunner, TickMitSperre, NurTick
<1>10. BeuteNurImLauf' /\ EinHalter'
  BY <1>1, <1>4, <1>6 DEF IRunner, BeuteNurImLauf, EinHalter, NurTick, Geschuetzt
<1>11. BeuteIstFaellig'
  <2> SUFFICES ASSUME NEW v \in Worker \ {w}, NEW z \in Zeilen, z \in tick[v].beute, Geschuetzt(z)
               PROVE  arbeit'[z] = "faellig"
    BY <1>1, <1>4, <1>6 DEF BeuteIstFaellig, NurTick, Geschuetzt
  <2>1. z \notin beute /\ arbeit[z] = "faellig"
    BY DEF IRunner, EinHalter, BeuteIstFaellig
  <2>2. QED
    BY <2>1, <1>2
<1>12. HoechstensEinmal'
  <2> SUFFICES ASSUME NEW z \in Zeilen, Geschuetzt(z)
               PROVE  /\ arbeit'[z] = "getan" => wirkung'[z] =< 1
                      /\ arbeit'[z] # "getan" => wirkung'[z] = 0
    BY <1>1 DEF HoechstensEinmal, Geschuetzt
  <2>1. CASE z \in beute
    <3>1. arbeit[z] = "faellig" /\ wirkung[z] = 0
      BY <2>1 DEF IRunner, BeuteIstFaellig, HoechstensEinmal
    <3>2. QED
      BY <1>2, <2>1, <3>1
  <2>2. CASE z \notin beute
    BY <1>0, <1>2, <2>2 DEF IRunner, HoechstensEinmal
  <2>3. QED
    BY <2>1, <2>2
<1>13. QED
  BY <1>8, <1>9, <1>10, <1>11, <1>12 DEF IRunner

LEMMA Abgebrochen ==
  ASSUME IRunner, NEW w \in Worker, Abbruch(w)
  PROVE  IRunner'
<1>0. tick \in [Worker -> TickTyp] /\ stoerungen' \in 0..MaxStoerungen
  BY RunnerAnnahme DEF IRunner, RunnerTyp, Abbruch, Stoerung
<1>1. /\ tick' = [tick EXCEPT ![w] = Ruhe]
      /\ lock' = IF lock = w THEN None ELSE lock
      /\ UNCHANGED <<lauf, arbeit, wirkung, defekt, abgerissen, defekte>>
  BY DEF Abbruch
<1>2. tick'[w] = Ruhe /\ NurTick(w) /\ tick' \in [Worker -> TickTyp]
  BY <1>0, <1>1, RuheTyp DEF NurTick
<1>3. Ruhe.phase = "ruht" /\ Ruhe.beute = {}
  BY DEF Ruhe
<1>4. RunnerTyp'
  BY <1>0, <1>1, <1>2 DEF IRunner, RunnerTyp
<1>5. QED
  BY <1>1, <1>2, <1>3, <1>4, OhneArbeit

\* Without the lock of the tick only the locks on the rows protect.
LEMMA Abgerissen ==
  ASSUME IRunner, NEW w \in Worker, Abriss(w)
  PROVE  IRunner'
<1>1. /\ abgerissen' = TRUE /\ lock' = None
      /\ UNCHANGED <<lauf, arbeit, wirkung, tick, defekt, defekte>>
  BY DEF Abriss
<1>2. stoerungen' \in 0..MaxStoerungen
  BY RunnerAnnahme DEF IRunner, RunnerTyp, Abriss, Stoerung
<1>3. RunnerTyp' /\ JobLaeuft' /\ BeuteNurImLauf'
  BY <1>1, <1>2 DEF IRunner, RunnerTyp, JobLaeuft, BeuteNurImLauf
<1>4. TickMitSperre'
  BY <1>1 DEF TickMitSperre
<1>5. BeuteIstFaellig' /\ EinHalter'
  BY <1>1 DEF IRunner, BeuteIstFaellig, EinHalter, Geschuetzt
<1>6. HoechstensEinmal'
  BY <1>1 DEF IRunner, HoechstensEinmal, Geschuetzt
<1>7. QED
  BY <1>3, <1>4, <1>5, <1>6 DEF IRunner

LEMMA ZeitVergeht ==
  ASSUME IRunner, NEW g \in Stunden, Slot(g)
  PROVE  IRunner'
<1>0. /\ tick \in [Worker -> TickTyp] /\ lauf \in [Zeilen -> LaufTyp] /\ MaxVersatz \in Nat
  BY RunnerAnnahme DEF IRunner, RunnerTyp
<1>1. UNCHANGED <<arbeit, wirkung, lock, defekt, abgerissen, stoerungen, defekte>>
  BY DEF Slot, fehler
<1>2. lauf' \in [Zeilen -> LaufTyp]
  <2>1. \A z \in Zeilen : lauf[z].alter =< MaxVersatz => [lauf[z] EXCEPT !.alter = @ + 1] \in LaufTyp
    BY <1>0 DEF LaufTyp
  <2>2. lauf' = [z \in Zeilen |-> IF z \in g /\ lauf[z].alter =< MaxVersatz
                                  THEN [lauf[z] EXCEPT !.alter = @ + 1] ELSE lauf[z]]
    BY DEF Slot
  <2>3. QED
    BY <1>0, <2>1, <2>2
<1>3. ASSUME NEW w \in Worker
      PROVE  /\ tick'[w] \in TickTyp
             /\ tick'[w].phase = tick[w].phase /\ tick'[w].job = tick[w].job
             /\ tick'[w].beute = tick[w].beute
  <2>1. tick[w] \in TickTyp
    BY <1>0
  <2>2. CASE tick[w].phase = "ruht"
    BY <2>1, <2>2 DEF Slot
  <2>3. CASE tick[w].phase # "ruht"
    <3> DEFINE mehr == [z \in Zeilen |-> IF z \in g THEN tick[w].versatz[z] + 1 ELSE tick[w].versatz[z]]
               neu == [tick[w] EXCEPT !.versatz = mehr]
    <3>1. \A z \in g : tick[w].versatz[z] < MaxVersatz
      BY <2>3 DEF Slot
    <3>2. mehr \in [Zeilen -> 0..MaxVersatz]
      BY <1>0, <2>1, <3>1 DEF TickTyp
    <3>3. tick'[w] = neu
      BY <2>3, <2>1 DEF Slot, TickTyp
    <3> HIDE DEF mehr
    <3>4. QED
      BY <2>1, <3>2, <3>3 DEF TickTyp
  <2>4. QED
    BY <2>2, <2>3
<1>4. tick' \in [Worker -> TickTyp]
  <2>1. \E f : tick' = [w \in Worker |-> f[w]]
    <3>1. tick' = [w \in Worker |-> tick'[w]]
      BY DEF Slot
    <3>2. QED
      BY <3>1
  <2>2. QED
    BY <1>3, <2>1
<1>5. RunnerTyp'
  BY <1>1, <1>2, <1>4 DEF IRunner, RunnerTyp
<1>6. QED
  BY <1>1, <1>3, <1>5, OhneTick

\* What happens outside the ticks: pauses end, work becomes due, tenants break and are repaired.
LEMMA Umgebung ==
  ASSUME IRunner, NEW z \in Zeilen, PauseEndet(z) \/ WirdFaellig(z) \/ WirdDefekt(z) \/ Repariert(z)
  PROVE  IRunner'
<1>1. CASE PauseEndet(z)
  <2>1. lauf' \in [Zeilen -> LaufTyp]
    BY <1>1 DEF PauseEndet, IRunner, RunnerTyp, LaufTyp
  <2>2. RunnerTyp'
    BY <1>1, <2>1 DEF PauseEndet, fehler, IRunner, RunnerTyp
  <2>3. QED
    BY <1>1, <2>2, OhneTick DEF PauseEndet, fehler
<1>2. CASE WirdFaellig(z)
  <2>1. /\ arbeit' = [arbeit EXCEPT ![z] = "faellig"] /\ wirkung' = [wirkung EXCEPT ![z] = 0]
        /\ arbeit[z] # "faellig"
        /\ UNCHANGED <<lauf, lock, tick, defekt, abgerissen, stoerungen, defekte>>
    BY <1>2 DEF WirdFaellig, fehler
  <2>2. RunnerTyp' /\ JobLaeuft' /\ TickMitSperre' /\ BeuteNurImLauf' /\ EinHalter'
    BY <2>1 DEF IRunner, RunnerTyp, JobLaeuft, TickMitSperre, BeuteNurImLauf, EinHalter, Geschuetzt
  <2>3. BeuteIstFaellig'
    BY <2>1 DEF IRunner, RunnerTyp, BeuteIstFaellig, Geschuetzt
  <2>4. HoechstensEinmal'
    BY <2>1 DEF IRunner, RunnerTyp, HoechstensEinmal, Geschuetzt
  <2>5. QED
    BY <2>2, <2>3, <2>4 DEF IRunner
<1>3. CASE WirdDefekt(z)
  <2>1. defekte' \in 0..MaxDefekte /\ defekt' \subseteq Anfaellig
    BY <1>3, RunnerAnnahme DEF WirdDefekt, IRunner, RunnerTyp
  <2>2. UNCHANGED <<lauf, arbeit, wirkung, lock, tick, abgerissen, stoerungen>>
    BY <1>3 DEF WirdDefekt
  <2>3. RunnerTyp'
    BY <2>1, <2>2 DEF IRunner, RunnerTyp
  <2>4. QED
    BY <2>2, <2>3, OhneTick
<1>4. CASE Repariert(z)
  <2>1. /\ defekt' = defekt \ {z}
        /\ UNCHANGED <<lauf, arbeit, wirkung, lock, tick, abgerissen, stoerungen, defekte>>
    BY <1>4 DEF Repariert, fehler
  <2>2. RunnerTyp'
    BY <2>1 DEF IRunner, RunnerTyp
  <2>3. QED
    BY <2>1, <2>2, OhneTick
<1>5. QED
  BY <1>1, <1>2, <1>3, <1>4

LEMMA RunnerSchritt == IRunner /\ [RunnerNext]_runnerVars => IRunner'
<1> SUFFICES ASSUME IRunner, [RunnerNext]_runnerVars PROVE IRunner'
  OBVIOUS
<1>1. CASE UNCHANGED runnerVars
  <2>1. RunnerTyp'
    BY <1>1 DEF runnerVars, IRunner, RunnerTyp
  <2>2. QED
    BY <1>1, <2>1, OhneTick DEF runnerVars
<1>2. ASSUME NEW w \in Worker, TickBeginn(w) \/ Arbeitet(w) \/ Abbruch(w) \/ Abriss(w)
      PROVE  IRunner'
  <2>1. CASE Arbeitet(w)
    <3>1. CASE Pruefe(w)
      BY <3>1, TickPrueft
    <3>2. CASE LaufBeginn(w)
      BY <3>2, Ausgewaehlt
    <3>3. CASE LaufCommit(w)
      BY <3>3, Getan
    <3>4. CASE LaufScheitert(w)
      BY <3>4, Gescheitert
    <3>5. CASE Markiere(w) \/ MarkiereFehlschlag(w)
      BY <3>5, Markiert
    <3>6. QED
      BY <2>1, <3>1, <3>2, <3>3, <3>4, <3>5 DEF Arbeitet
  <2>2. CASE TickBeginn(w)
    BY <2>2, TickBeginnt
  <2>3. CASE Abbruch(w)
    BY <2>3, Abgebrochen
  <2>4. CASE Abriss(w)
    BY <2>4, Abgerissen
  <2>5. QED
    BY <1>2, <2>1, <2>2, <2>3, <2>4
<1>3. ASSUME NEW g \in Stunden, Slot(g) PROVE IRunner'
  BY <1>3, ZeitVergeht
<1>4. ASSUME NEW z \in Zeilen, PauseEndet(z) \/ WirdFaellig(z) \/ WirdDefekt(z) \/ Repariert(z)
      PROVE  IRunner'
  BY <1>4, Umgebung
<1>5. QED
  BY <1>1, <1>2, <1>3, <1>4 DEF RunnerNext

(* A piece of work is done at most once, for any number of workers and rows, unless its job takes
   no locks on the rows and the connection of a tick's lock broke (job_runner.py). *)
THEOREM JedeArbeitEinmal == RunnerSpec => []EinmalProFaelligkeit
<1>1. IRunner => EinmalProFaelligkeit
  BY DEF IRunner, RunnerTyp, HoechstensEinmal, Geschuetzt, EinmalProFaelligkeit
<1>2. QED
  BY <1>1, RunnerStart, RunnerSchritt, PTL DEF RunnerSpec

-----------------------------------------------------------------------------
(***************************************************************************)
(* The exports.                                                            *)
(***************************************************************************)

(* The queue holds waiting exports, each once. *)
Wartend ==
  \A i \in DOMAIN warteschlange :
    /\ export[warteschlange[i]].status = "wartend"
    /\ \A j \in DOMAIN warteschlange : warteschlange[i] = warteschlange[j] => i = j

HaengendLief ==
  \A b \in Bearbeiter : \A e \in bau[b].haengend : export[e].status \notin {"keiner", "wartend"}

(* What is being built runs or was given up, and cannot have expired. *)
BauLaeuft ==
  \A b \in Bearbeiter :
    /\ bau[b].phase \in {"baut", "gebaut", "gescheitert"} => bau[b].job \in Exporte
    /\ bau[b].job \in Exporte => /\ export[bau[b].job].status \in {"laeuft", "fehler"}
                                 /\ ~export[bau[b].job].abgelaufen

GebautLiegtVor == \A b \in Bearbeiter : bau[b].phase = "gebaut" => bau[b].job \in zip

AblaufAmEnde == \A e \in Exporte : export[e].abgelaufen => export[e].status \in Endzustaende

RaeumtAbgelaufenes ==
  \A e \in raeumer.faellig \cup raeumer.entfernt : export[e].abgelaufen

IExport ==
  /\ ExportTyp /\ Wartend /\ HaengendLief /\ BauLaeuft /\ GebautLiegtVor
  /\ AblaufAmEnde /\ RaeumtAbgelaufenes
  /\ EinBearbeiterJeExport /\ AngebotenesExistiert

LEMMA LeerTyp == Leer \in BauTyp /\ Leer.job = KeinExport /\ Leer.haengend = {} /\ Leer.phase = "ruht"
BY DEF Leer, BauTyp

LEMMA ExportStart == ExportInit => IExport
<1> SUFFICES ASSUME ExportInit PROVE IExport
  OBVIOUS
<1>1. ExportTyp
  <2>1. [status |-> "keiner", zuLang |-> FALSE, abgelaufen |-> FALSE, key |-> FALSE] \in ExportZeile
    BY DEF ExportZeile, Aktiv, Endzustaende
  <2>2. export \in [Exporte -> ExportZeile] /\ bau \in [Bearbeiter -> BauTyp]
    BY <2>1, LeerTyp DEF ExportInit
  <2>3. raeumer \in [laeuft : BOOLEAN, faellig : SUBSET Exporte, entfernt : SUBSET Exporte]
    BY DEF ExportInit
  <2>4. warteschlange \in Seq(Exporte) /\ zip \subseteq Exporte /\ abstuerze \in 0..MaxAbstuerze
    BY ExportAnnahme DEF ExportInit
  <2>5. QED
    BY <2>2, <2>3, <2>4 DEF ExportTyp
<1>2. \A b \in Bearbeiter : bau[b] = Leer
  BY DEF ExportInit
<1>3. \A e \in Exporte : export[e].status = "keiner" /\ ~export[e].abgelaufen
  BY DEF ExportInit
<1>4. DOMAIN warteschlange = {} /\ raeumer.faellig = {} /\ raeumer.entfernt = {}
  BY DEF ExportInit
<1>5. Wartend /\ RaeumtAbgelaufenes
  BY <1>4 DEF Wartend, RaeumtAbgelaufenes
<1>6. HaengendLief /\ BauLaeuft /\ GebautLiegtVor /\ EinBearbeiterJeExport
  BY <1>2, LeerTyp, ExportAnnahme
     DEF HaengendLief, BauLaeuft, GebautLiegtVor, EinBearbeiterJeExport
<1>7. AblaufAmEnde /\ AngebotenesExistiert
  BY <1>3 DEF AblaufAmEnde, AngebotenesExistiert
<1>8. QED
  BY <1>1, <1>5, <1>6, <1>7 DEF IExport

\* A step of one builder that leaves the table and the store alone.
LEMMA NurBau ==
  ASSUME IExport, NEW b \in Bearbeiter, NEW neu \in BauTyp, bau' = [bau EXCEPT ![b] = neu],
         UNCHANGED <<export, warteschlange, raeumer>>, abstuerze' \in 0..MaxAbstuerze,
         zip \subseteq zip', zip' \subseteq Exporte,
         neu.job = bau[b].job \/ neu.job = KeinExport,
         neu.phase \in {"baut", "gebaut", "gescheitert"} => neu.job \in Exporte,
         neu.phase = "gebaut" => neu.job \in zip',
         \A e \in neu.haengend : export[e].status \notin {"keiner", "wartend"}
  PROVE  IExport'
<1>1. /\ bau' \in [Bearbeiter -> BauTyp] /\ bau'[b] = neu
      /\ \A a \in Bearbeiter \ {b} : bau'[a] = bau[a]
  BY DEF IExport, ExportTyp
<1>2. ExportTyp' /\ Wartend' /\ AblaufAmEnde' /\ RaeumtAbgelaufenes' /\ AngebotenesExistiert'
  BY <1>1 DEF IExport, ExportTyp, Wartend, AblaufAmEnde, RaeumtAbgelaufenes, AngebotenesExistiert
<1>3. HaengendLief' /\ GebautLiegtVor'
  BY <1>1 DEF IExport, HaengendLief, GebautLiegtVor
<1>4. BauLaeuft'
  BY <1>1, ExportAnnahme DEF IExport, BauLaeuft
<1>5. EinBearbeiterJeExport'
  BY <1>1 DEF IExport, EinBearbeiterJeExport
<1>6. QED
  BY <1>2, <1>3, <1>4, <1>5 DEF IExport

LEMMA BauArbeit ==
  ASSUME IExport, NEW b \in Bearbeiter,
         LiesHaengende(b) \/ Erzeugen(b) \/ ErzeugenScheitert(b) \/ BearbeiterStirbt(b)
  PROVE  IExport'
<1>0. /\ bau \in [Bearbeiter -> BauTyp] /\ bau[b] \in BauTyp /\ zip \subseteq Exporte
      /\ abstuerze \in 0..MaxAbstuerze
      /\ \A e \in bau[b].haengend : export[e].status \notin {"keiner", "wartend"}
  BY DEF IExport, ExportTyp, HaengendLief
<1>1. UNCHANGED <<export, warteschlange, raeumer>>
  BY DEF LiesHaengende, Erzeugen, ErzeugenScheitert, BearbeiterStirbt
<1>2. CASE LiesHaengende(b)
  <2> DEFINE haengend == {e \in Exporte : export[e].status = "laeuft" /\ export[e].zuLang}
             neu == [bau[b] EXCEPT !.phase = "uebernehmen", !.haengend = haengend]
  <2>1. /\ haengend \in SUBSET Exporte
        /\ \A e \in haengend : export[e].status \notin {"keiner", "wartend"}
    OBVIOUS
  <2>2. /\ bau' = [bau EXCEPT ![b].phase = "uebernehmen", ![b].haengend = haengend]
        /\ UNCHANGED <<zip, abstuerze>>
    BY <1>2 DEF LiesHaengende
  <2> HIDE DEF haengend
  <2>3. bau' = [bau EXCEPT ![b] = neu]
    BY <1>0, <2>2
  <2>4. /\ neu \in BauTyp /\ neu.phase = "uebernehmen" /\ neu.job = bau[b].job
        /\ neu.haengend = haengend
    BY <1>0, <2>1 DEF BauTyp
  <2> HIDE DEF neu
  <2>5. QED
    BY <1>0, <1>1, <2>1, <2>2, <2>3, <2>4, NurBau
<1>3. CASE Erzeugen(b)
  <2> DEFINE neu == [bau[b] EXCEPT !.phase = "gebaut"]
  <2>1. bau[b].job \in Exporte
    BY <1>3 DEF Erzeugen, IExport, BauLaeuft
  <2>2. /\ bau' = [bau EXCEPT ![b] = neu] /\ zip' = zip \cup {bau[b].job} /\ UNCHANGED abstuerze
    BY <1>0, <1>3 DEF Erzeugen
  <2>3. /\ neu \in BauTyp /\ neu.phase = "gebaut" /\ neu.job = bau[b].job
        /\ neu.haengend = bau[b].haengend
    BY <1>0 DEF BauTyp
  <2> HIDE DEF neu
  <2>4. QED
    BY <1>0, <1>1, <2>1, <2>2, <2>3, NurBau
<1>4. CASE ErzeugenScheitert(b)
  <2> DEFINE neu == [bau[b] EXCEPT !.phase = "gescheitert"]
  <2>1. bau[b].job \in Exporte
    BY <1>4 DEF ErzeugenScheitert, IExport, BauLaeuft
  <2>2. /\ bau' = [bau EXCEPT ![b] = neu] /\ zip' \in {zip, zip \cup {bau[b].job}}
        /\ UNCHANGED abstuerze
    BY <1>0, <1>4 DEF ErzeugenScheitert
  <2>3. /\ neu \in BauTyp /\ neu.phase = "gescheitert" /\ neu.job = bau[b].job
        /\ neu.haengend = bau[b].haengend
    BY <1>0 DEF BauTyp
  <2> HIDE DEF neu
  <2>4. zip \subseteq zip' /\ zip' \subseteq Exporte
    BY <1>0, <2>1, <2>2
  <2>5. QED
    BY <1>0, <1>1, <2>1, <2>2, <2>3, <2>4, NurBau
<1>5. CASE BearbeiterStirbt(b)
  <2>1. bau' = [bau EXCEPT ![b] = Leer] /\ UNCHANGED zip
    BY <1>5 DEF BearbeiterStirbt
  <2>2. abstuerze' \in 0..MaxAbstuerze
    BY <1>0, <1>5, ExportAnnahme DEF BearbeiterStirbt
  <2>3. QED
    BY <1>0, <1>1, <2>1, <2>2, LeerTyp, NurBau
<1>6. QED
  BY <1>2, <1>3, <1>4, <1>5

\* The result is written whatever the row says by now: nobody else builds the same export.
LEMMA Ergebnis ==
  ASSUME IExport, NEW b \in Bearbeiter, SchreibeFertig(b) \/ SchreibeFehler(b)
  PROVE  IExport'
<1> DEFINE e == bau[b].job
<1>0. /\ bau \in [Bearbeiter -> BauTyp] /\ export \in [Exporte -> ExportZeile]
      /\ e \in Exporte /\ export[e] \in ExportZeile
      /\ ~export[e].abgelaufen /\ export[e].status \in {"laeuft", "fehler"}
  BY DEF IExport, ExportTyp, BauLaeuft, SchreibeFertig, SchreibeFehler
<1>1. UNCHANGED <<warteschlange, zip, raeumer, abstuerze>> /\ bau' = [bau EXCEPT ![b] = Leer]
  BY DEF SchreibeFertig, SchreibeFehler
<1>2. /\ bau' \in [Bearbeiter -> BauTyp] /\ bau'[b] = Leer
      /\ \A a \in Bearbeiter \ {b} : bau'[a] = bau[a] /\ bau[a].job # e
  BY <1>0, <1>1, LeerTyp, ExportAnnahme DEF IExport, EinBearbeiterJeExport
<1>3. \E neu \in ExportZeile : /\ export' = [export EXCEPT ![e] = neu]
                               /\ ~neu.abgelaufen
                               /\ neu.status \in {"fertig", "fehler"}
                               /\ neu.status = "fertig" => neu.key /\ e \in zip
  <2>1. CASE SchreibeFertig(b)
    <3> DEFINE neu == [export[e] EXCEPT !.status = "fertig", !.key = TRUE]
    <3>1. export' = [export EXCEPT ![e] = neu]
      BY <2>1 DEF SchreibeFertig
    <3>2. e \in zip
      BY <2>1 DEF SchreibeFertig, IExport, GebautLiegtVor
    <3>3. neu \in ExportZeile /\ ~neu.abgelaufen /\ neu.status = "fertig" /\ neu.key
      BY <1>0 DEF ExportZeile, Endzustaende
    <3> HIDE DEF neu
    <3>4. QED
      BY <3>1, <3>2, <3>3
  <2>2. CASE SchreibeFehler(b)
    <3> DEFINE neu == [export[e] EXCEPT !.status = "fehler"]
    <3>1. export' = [export EXCEPT ![e] = neu]
      BY <1>0, <2>2 DEF SchreibeFehler
    <3>2. neu \in ExportZeile /\ ~neu.abgelaufen /\ neu.status = "fehler"
      BY <1>0 DEF ExportZeile, Endzustaende
    <3> HIDE DEF neu
    <3>3. QED
      BY <3>1, <3>2
  <2>3. QED
    BY <2>1, <2>2
<1>4. PICK neu \in ExportZeile : /\ export' = [export EXCEPT ![e] = neu]
                                 /\ ~neu.abgelaufen
                                 /\ neu.status \in {"fertig", "fehler"}
                                 /\ neu.status = "fertig" => neu.key /\ e \in zip
  BY <1>3
<1> HIDE DEF e
<1>5. /\ export' \in [Exporte -> ExportZeile] /\ export'[e] = neu
      /\ \A f \in Exporte \ {e} : export'[f] = export[f]
  BY <1>0, <1>4
<1>6. ExportTyp'
  BY <1>1, <1>2, <1>5 DEF IExport, ExportTyp
<1>7. Wartend'
  BY <1>0, <1>1, <1>5 DEF IExport, ExportTyp, Wartend
<1>8. HaengendLief' /\ GebautLiegtVor'
  BY <1>1, <1>2, <1>4, <1>5, LeerTyp DEF IExport, ExportTyp, BauTyp, HaengendLief, GebautLiegtVor
<1>9. BauLaeuft'
  BY <1>2, <1>5, LeerTyp, ExportAnnahme DEF IExport, BauLaeuft
<1>10. AblaufAmEnde' /\ AngebotenesExistiert'
  BY <1>1, <1>4, <1>5 DEF IExport, AblaufAmEnde, AngebotenesExistiert
<1>11. RaeumtAbgelaufenes'
  BY <1>0, <1>1, <1>5 DEF IExport, ExportTyp, RaeumtAbgelaufenes
<1>12. EinBearbeiterJeExport'
  BY <1>2, LeerTyp DEF IExport, EinBearbeiterJeExport
<1>13. QED
  BY <1>6, <1>7, <1>8, <1>9, <1>10, <1>11, <1>12 DEF IExport

\* The claim: exports read as hanging are given up by id, the oldest waiting one is taken.
LEMMA Uebernahme ==
  ASSUME IExport, NEW b \in Bearbeiter, Uebernehmen(b)
  PROVE  IExport'
<1> DEFINE aufgegeben == [e \in Exporte |-> IF e \in bau[b].haengend
                                            THEN [export[e] EXCEPT !.status = "fehler"]
                                            ELSE export[e]]
<1>0. /\ bau \in [Bearbeiter -> BauTyp] /\ export \in [Exporte -> ExportZeile]
      /\ warteschlange \in Seq(Exporte)
      /\ \A e \in bau[b].haengend : export[e].status \notin {"keiner", "wartend"}
  BY DEF IExport, ExportTyp, HaengendLief
<1>1. UNCHANGED <<zip, raeumer, abstuerze>>
  BY DEF Uebernehmen
<1>2. ASSUME NEW e \in Exporte
      PROVE  /\ aufgegeben[e] \in ExportZeile
             /\ aufgegeben[e].abgelaufen = export[e].abgelaufen
             /\ aufgegeben[e].key = export[e].key
             /\ aufgegeben[e].status \in {export[e].status, "fehler"}
             /\ export[e].status \in {"keiner", "wartend"} => aufgegeben[e] = export[e]
  <2>1. export[e] \in ExportZeile
    BY <1>0
  <2>2. QED
    BY <1>0, <2>1 DEF ExportZeile, Endzustaende
<1>3. aufgegeben \in [Exporte -> ExportZeile]
  BY <1>2
<1>4. CASE warteschlange = <<>>
  <2>1. /\ export' = aufgegeben /\ UNCHANGED warteschlange
        /\ bau' = [bau EXCEPT ![b] = Leer]
    BY <1>4 DEF Uebernehmen
  <2> HIDE DEF aufgegeben
  <2>2. /\ bau' \in [Bearbeiter -> BauTyp] /\ bau'[b] = Leer
        /\ \A a \in Bearbeiter \ {b} : bau'[a] = bau[a]
    BY <1>0, <2>1, LeerTyp
  <2>3. ExportTyp'
    BY <1>1, <1>3, <2>1, <2>2 DEF IExport, ExportTyp
  <2>4. Wartend'
    BY <1>0, <1>4, <2>1 DEF Wartend
  <2>5. HaengendLief' /\ GebautLiegtVor'
    BY <1>1, <1>2, <2>1, <2>2, LeerTyp
       DEF IExport, ExportTyp, BauTyp, HaengendLief, GebautLiegtVor
  <2>6. BauLaeuft'
    BY <1>2, <2>1, <2>2, LeerTyp, ExportAnnahme DEF IExport, BauLaeuft
  <2>7. AblaufAmEnde' /\ AngebotenesExistiert'
    BY <1>1, <1>2, <2>1 DEF IExport, AblaufAmEnde, AngebotenesExistiert, Endzustaende
  <2>8. RaeumtAbgelaufenes'
    BY <1>1, <1>2, <2>1 DEF IExport, ExportTyp, RaeumtAbgelaufenes
  <2>9. EinBearbeiterJeExport'
    BY <2>2, LeerTyp DEF IExport, EinBearbeiterJeExport
  <2>10. QED
    BY <2>3, <2>4, <2>5, <2>6, <2>7, <2>8, <2>9 DEF IExport
<1>5. CASE warteschlange # <<>>
  <2> DEFINE h == Head(warteschlange)
             jetzt == [aufgegeben[h] EXCEPT !.status = "laeuft"]
             neu == [Leer EXCEPT !.phase = "baut", !.job = h]
  <2>1. /\ export' = [aufgegeben EXCEPT ![h].status = "laeuft"]
        /\ warteschlange' = Tail(warteschlange) /\ bau' = [bau EXCEPT ![b] = neu]
    BY <1>5 DEF Uebernehmen
  <2>2. /\ h \in Exporte /\ h = warteschlange[1] /\ 1 \in DOMAIN warteschlange
        /\ warteschlange' \in Seq(Exporte)
        /\ \A i \in DOMAIN warteschlange' : /\ i + 1 \in DOMAIN warteschlange
                                            /\ i + 1 # 1
                                            /\ warteschlange'[i] = warteschlange[i + 1]
        /\ \A i, j \in DOMAIN warteschlange' : i + 1 = j + 1 => i = j
    BY <1>0, <1>5, <2>1
  <2> HIDE DEF h
  <2>3. export[h].status = "wartend" /\ ~export[h].abgelaufen
    BY <2>2 DEF IExport, Wartend, AblaufAmEnde, Endzustaende
  <2>4. aufgegeben[h] = export[h] /\ export[h] \in ExportZeile
    BY <1>0, <1>2, <2>2, <2>3
  <2> HIDE DEF aufgegeben
  <2>5. export' = [aufgegeben EXCEPT ![h] = jetzt]
    BY <1>3, <2>1
  <2>6. /\ jetzt \in ExportZeile /\ jetzt.status = "laeuft" /\ ~jetzt.abgelaufen
    BY <2>3, <2>4 DEF ExportZeile, Aktiv
  <2> HIDE DEF jetzt
  <2>7. /\ export' \in [Exporte -> ExportZeile] /\ export'[h] = jetzt
        /\ \A f \in Exporte \ {h} : export'[f] = aufgegeben[f]
    BY <1>3, <2>2, <2>5, <2>6
  <2>8. neu \in BauTyp /\ neu.phase = "baut" /\ neu.job = h /\ neu.haengend = {}
    BY <2>2 DEF Leer, BauTyp
  <2> HIDE DEF neu
  <2>9. /\ bau' \in [Bearbeiter -> BauTyp] /\ bau'[b] = neu
        /\ \A a \in Bearbeiter \ {b} : bau'[a] = bau[a]
    BY <1>0, <2>1, <2>8
  <2>10. \A a \in Bearbeiter : bau[a].job # h
    BY <2>2, <2>3 DEF IExport, BauLaeuft
  <2>11. ExportTyp'
    BY <1>1, <2>2, <2>7, <2>9 DEF IExport, ExportTyp
  <2>12. Wartend'
    <3> SUFFICES ASSUME NEW i \in DOMAIN warteschlange'
                 PROVE  /\ export'[warteschlange'[i]].status = "wartend"
                        /\ \A j \in DOMAIN warteschlange' :
                              warteschlange'[i] = warteschlange'[j] => i = j
      BY DEF Wartend
    <3>1. /\ warteschlange[i + 1] # h /\ warteschlange[i + 1] \in Exporte
          /\ export[warteschlange[i + 1]].status = "wartend"
      BY <1>0, <2>2 DEF IExport, Wartend
    <3>2. export'[warteschlange'[i]].status = "wartend"
      BY <1>2, <2>2, <2>7, <3>1
    <3>3. ASSUME NEW j \in DOMAIN warteschlange', warteschlange'[i] = warteschlange'[j]
          PROVE  i = j
      BY <2>2, <3>3 DEF IExport, Wartend
    <3>4. QED
      BY <3>2, <3>3
  <2>13. HaengendLief'
    <3> SUFFICES ASSUME NEW a \in Bearbeiter \ {b}, NEW e \in bau[a].haengend
                 PROVE  export'[e].status \notin {"keiner", "wartend"}
      BY <2>8, <2>9 DEF HaengendLief
    <3>1. e \in Exporte /\ export[e].status \notin {"keiner", "wartend"}
      BY <1>0 DEF BauTyp, IExport, HaengendLief
    <3>2. QED
      BY <1>2, <2>6, <2>7, <3>1
  <2>14. GebautLiegtVor'
    BY <1>1, <2>8, <2>9 DEF IExport, GebautLiegtVor
  <2>15. BauLaeuft'
    <3> SUFFICES ASSUME NEW a \in Bearbeiter \ {b}, bau[a].job \in Exporte
                 PROVE  /\ export'[bau[a].job].status \in {"laeuft", "fehler"}
                        /\ ~export'[bau[a].job].abgelaufen
      <4>1. /\ bau'[b].job = h /\ export'[h].status = "laeuft" /\ ~export'[h].abgelaufen
        BY <2>6, <2>7, <2>8, <2>9
      <4>2. \A a \in Bearbeiter \ {b} : bau[a].phase \in {"baut", "gebaut", "gescheitert"}
                                           => bau[a].job \in Exporte
        BY DEF IExport, BauLaeuft
      <4>3. QED
        BY <2>2, <2>9, <4>1, <4>2 DEF BauLaeuft
    <3>1. /\ export[bau[a].job].status \in {"laeuft", "fehler"}
          /\ ~export[bau[a].job].abgelaufen /\ bau[a].job # h
      BY <2>10 DEF IExport, BauLaeuft
    <3>2. export'[bau[a].job] = aufgegeben[bau[a].job]
      BY <2>7, <3>1
    <3>3. QED
      BY <1>2, <3>1, <3>2
  <2>16. AblaufAmEnde' /\ AngebotenesExistiert'
    BY <1>1, <1>2, <2>6, <2>7 DEF IExport, AblaufAmEnde, AngebotenesExistiert, Endzustaende
  <2>17. RaeumtAbgelaufenes'
    <3> SUFFICES ASSUME NEW e \in raeumer.faellig \cup raeumer.entfernt
                 PROVE  export'[e].abgelaufen
      BY <1>1 DEF RaeumtAbgelaufenes
    <3>1. e \in Exporte /\ export[e].abgelaufen
      BY DEF IExport, ExportTyp, RaeumtAbgelaufenes
    <3>2. QED
      BY <1>2, <2>3, <2>7, <3>1
  <2>18. EinBearbeiterJeExport'
    BY <2>8, <2>9, <2>10 DEF IExport, EinBearbeiterJeExport
  <2>19. QED
    BY <2>11, <2>12, <2>13, <2>14, <2>15, <2>16, <2>17, <2>18 DEF IExport
<1>6. QED
  BY <1>4, <1>5

\* Steps that change one row of the table: a request, time that passes.
LEMMA ZeileSchritt ==
  ASSUME IExport, NEW e \in Exporte, Anfordern(e) \/ LaufzeitUeberschritten(e) \/ LaeuftAb(e)
  PROVE  IExport'
<1>0. /\ export \in [Exporte -> ExportZeile] /\ export[e] \in ExportZeile
      /\ warteschlange \in Seq(Exporte)
  BY DEF IExport, ExportTyp
<1>1. UNCHANGED <<zip, bau, raeumer, abstuerze>>
  BY DEF Anfordern, LaufzeitUeberschritten, LaeuftAb
<1>2. CASE Anfordern(e)
  <2> DEFINE neu == [export[e] EXCEPT !.status = "wartend"]
  <2>1. /\ export[e].status = "keiner" /\ export' = [export EXCEPT ![e] = neu]
        /\ warteschlange' = Append(warteschlange, e)
    BY <1>0, <1>2 DEF Anfordern
  <2>2. /\ neu \in ExportZeile /\ neu.status = "wartend" /\ neu.abgelaufen = export[e].abgelaufen
    BY <1>0 DEF ExportZeile, Aktiv
  <2> HIDE DEF neu
  <2>3. /\ export' \in [Exporte -> ExportZeile] /\ export'[e] = neu
        /\ \A f \in Exporte \ {e} : export'[f] = export[f]
    BY <1>0, <2>1, <2>2
  <2>4. /\ warteschlange' \in Seq(Exporte)
        /\ \A i \in DOMAIN warteschlange' :
             \/ i \in DOMAIN warteschlange /\ warteschlange'[i] = warteschlange[i]
             \/ i = Len(warteschlange) + 1 /\ warteschlange'[i] = e
    BY <1>0, <2>1
  <2>5. \A i \in DOMAIN warteschlange : warteschlange[i] # e /\ warteschlange[i] \in Exporte
    BY <1>0, <2>1 DEF IExport, Wartend
  <2>6. ~export[e].abgelaufen
    BY <2>1 DEF IExport, AblaufAmEnde, Endzustaende
  <2>7. ExportTyp'
    BY <1>1, <2>3, <2>4 DEF IExport, ExportTyp
  <2>8. Wartend'
    BY <2>2, <2>3, <2>4, <2>5 DEF IExport, Wartend
  <2>9. HaengendLief' /\ GebautLiegtVor'
    BY <1>1, <2>1, <2>3 DEF IExport, ExportTyp, BauTyp, HaengendLief, GebautLiegtVor
  <2>10. BauLaeuft' /\ EinBearbeiterJeExport'
    BY <1>1, <2>1, <2>3 DEF IExport, BauLaeuft, EinBearbeiterJeExport
  <2>11. AblaufAmEnde' /\ AngebotenesExistiert'
    BY <1>1, <2>2, <2>3, <2>6 DEF IExport, AblaufAmEnde, AngebotenesExistiert
  <2>12. RaeumtAbgelaufenes'
    BY <1>1, <2>3, <2>6 DEF IExport, ExportTyp, RaeumtAbgelaufenes
  <2>13. QED
    BY <2>7, <2>8, <2>9, <2>10, <2>11, <2>12 DEF IExport
<1>3. CASE LaufzeitUeberschritten(e) \/ LaeuftAb(e)
  <2>1. \E neu \in ExportZeile :
          /\ export' = [export EXCEPT ![e] = neu]
          /\ neu.status = export[e].status /\ neu.key = export[e].key
          /\ \/ neu.abgelaufen = export[e].abgelaufen
             \/ neu.abgelaufen /\ export[e].status = "fertig"
    <3>1. CASE LaufzeitUeberschritten(e)
      <4> DEFINE neu == [export[e] EXCEPT !.zuLang = TRUE]
      <4>1. export' = [export EXCEPT ![e] = neu]
        BY <1>0, <3>1 DEF LaufzeitUeberschritten
      <4>2. /\ neu \in ExportZeile /\ neu.status = export[e].status /\ neu.key = export[e].key
            /\ neu.abgelaufen = export[e].abgelaufen
        BY <1>0 DEF ExportZeile
      <4> HIDE DEF neu
      <4>3. QED
        BY <4>1, <4>2
    <3>2. CASE LaeuftAb(e)
      <4> DEFINE neu == [export[e] EXCEPT !.abgelaufen = TRUE]
      <4>1. export' = [export EXCEPT ![e] = neu] /\ export[e].status = "fertig"
        BY <1>0, <3>2 DEF LaeuftAb
      <4>2. /\ neu \in ExportZeile /\ neu.status = export[e].status /\ neu.key = export[e].key
            /\ neu.abgelaufen
        BY <1>0 DEF ExportZeile
      <4> HIDE DEF neu
      <4>3. QED
        BY <4>1, <4>2
    <3>3. QED
      BY <1>3, <3>1, <3>2
  <2>2. PICK neu \in ExportZeile :
          /\ export' = [export EXCEPT ![e] = neu]
          /\ neu.status = export[e].status /\ neu.key = export[e].key
          /\ \/ neu.abgelaufen = export[e].abgelaufen
             \/ neu.abgelaufen /\ export[e].status = "fertig"
    BY <2>1
  <2>3. UNCHANGED warteschlange
    BY <1>3 DEF LaufzeitUeberschritten, LaeuftAb
  <2>4. /\ export' \in [Exporte -> ExportZeile] /\ export'[e] = neu
        /\ \A f \in Exporte \ {e} : export'[f] = export[f]
    BY <1>0, <2>2
  <2>5. ExportTyp'
    BY <1>1, <2>3, <2>4 DEF IExport, ExportTyp
  <2>6. Wartend'
    BY <1>0, <2>2, <2>3, <2>4 DEF IExport, Wartend
  <2>7. HaengendLief' /\ GebautLiegtVor' /\ EinBearbeiterJeExport'
    BY <1>1, <2>2, <2>4
       DEF IExport, ExportTyp, BauTyp, HaengendLief, GebautLiegtVor, EinBearbeiterJeExport
  <2>8. BauLaeuft'
    BY <1>1, <2>2, <2>4 DEF IExport, BauLaeuft
  <2>9. AblaufAmEnde' /\ AngebotenesExistiert'
    BY <1>1, <2>2, <2>4 DEF IExport, AblaufAmEnde, AngebotenesExistiert, Endzustaende
  <2>10. RaeumtAbgelaufenes'
    BY <1>1, <2>2, <2>4 DEF IExport, ExportTyp, RaeumtAbgelaufenes
  <2>11. QED
    BY <2>5, <2>6, <2>7, <2>8, <2>9, <2>10 DEF IExport
<1>4. QED
  BY <1>2, <1>3

\* The clean-up: it touches only what has expired, and nobody builds that.
LEMMA RaeumSchritt ==
  ASSUME IExport, Raeumen \/ RaeumeStirbt
  PROVE  IExport'
<1> DEFINE RTyp == [laeuft : BOOLEAN, faellig : SUBSET Exporte, entfernt : SUBSET Exporte]
<1>0. /\ export \in [Exporte -> ExportZeile] /\ raeumer \in RTyp /\ abstuerze \in 0..MaxAbstuerze
      /\ \A e \in raeumer.faellig \cup raeumer.entfernt : e \in Exporte /\ export[e].abgelaufen
  BY DEF IExport, ExportTyp, RaeumtAbgelaufenes
<1>1. UNCHANGED <<warteschlange, bau>>
  BY DEF Raeumen, RaeumeBeginn, RaeumeCommit, RaeumeObjekt, RaeumeObjektScheitert, RaeumeStirbt
<1>2. CASE RaeumeCommit
  <2>1. /\ export' = [e \in Exporte |-> IF e \in raeumer.entfernt
                                        THEN [export[e] EXCEPT !.status = "abgelaufen", !.key = FALSE]
                                        ELSE export[e]]
        /\ raeumer' = [raeumer EXCEPT !.laeuft = FALSE, !.entfernt = {}]
        /\ UNCHANGED <<zip, abstuerze>>
    BY <1>2 DEF RaeumeCommit
  <2>2. raeumer' \in RTyp /\ raeumer'.faellig = raeumer.faellig /\ raeumer'.entfernt = {}
    BY <1>0, <2>1
  <2>3. ASSUME NEW e \in Exporte
        PROVE  /\ export'[e] \in ExportZeile /\ export'[e].abgelaufen = export[e].abgelaufen
               /\ ~export[e].abgelaufen => export'[e] = export[e]
               /\ export'[e].status \in {export[e].status, "abgelaufen"}
    <3>1. export[e] \in ExportZeile
      BY <1>0
    <3>2. CASE e \in raeumer.entfernt
      <4>1. export'[e] = [export[e] EXCEPT !.status = "abgelaufen", !.key = FALSE]
        BY <2>1, <3>2
      <4>2. QED
        BY <1>0, <3>1, <3>2, <4>1 DEF ExportZeile, Endzustaende
    <3>3. CASE e \notin raeumer.entfernt
      BY <2>1, <3>1, <3>3
    <3>4. QED
      BY <3>2, <3>3
  <2>4. export' \in [Exporte -> ExportZeile]
    <3>1. export' = [e \in Exporte |-> export'[e]]
      BY <2>1
    <3>2. QED
      BY <2>3, <3>1
  <2>5. ExportTyp'
    BY <1>1, <2>1, <2>2, <2>4 DEF IExport, ExportTyp
  <2>6. Wartend'
    <3>1. \A i \in DOMAIN warteschlange : warteschlange[i] \in Exporte
      BY DEF IExport, ExportTyp
    <3>2. \A e \in Exporte : export[e].status = "wartend" => ~export[e].abgelaufen
      BY DEF IExport, AblaufAmEnde, Endzustaende
    <3>3. QED
      BY <1>1, <2>3, <3>1, <3>2 DEF IExport, Wartend
  <2>7. HaengendLief'
    BY <1>1, <2>3 DEF IExport, ExportTyp, BauTyp, HaengendLief
  <2>8. BauLaeuft' /\ GebautLiegtVor' /\ EinBearbeiterJeExport'
    BY <1>1, <2>1, <2>3 DEF IExport, BauLaeuft, GebautLiegtVor, EinBearbeiterJeExport
  <2>9. AblaufAmEnde' /\ AngebotenesExistiert'
    BY <2>1, <2>3 DEF IExport, AblaufAmEnde, AngebotenesExistiert, Endzustaende
  <2>10. RaeumtAbgelaufenes'
    BY <1>0, <2>2, <2>3 DEF RaeumtAbgelaufenes
  <2>11. QED
    BY <2>5, <2>6, <2>7, <2>8, <2>9, <2>10 DEF IExport
<1>3. CASE ~RaeumeCommit
  <2>1. /\ UNCHANGED export /\ abstuerze' \in 0..MaxAbstuerze
        /\ raeumer' \in RTyp
        /\ \A e \in raeumer'.faellig \cup raeumer'.entfernt : export[e].abgelaufen
        /\ zip' \subseteq zip /\ \A e \in zip \ zip' : export[e].abgelaufen
    <3>1. CASE RaeumeBeginn
      <4> DEFINE f == {e \in Exporte : export[e].status = "fertig" /\ export[e].abgelaufen}
      <4>1. /\ raeumer' = [laeuft |-> TRUE, entfernt |-> {}, faellig |-> f]
            /\ UNCHANGED <<export, zip, abstuerze>>
        BY <3>1 DEF RaeumeBeginn
      <4>2. f \in SUBSET Exporte /\ \A e \in f : export[e].abgelaufen
        OBVIOUS
      <4> HIDE DEF f
      <4>3. QED
        BY <1>0, <4>1, <4>2
    <3>2. ASSUME NEW e \in Exporte, RaeumeObjekt(e) \/ RaeumeObjektScheitert(e)
          PROVE  /\ UNCHANGED <<export, abstuerze>> /\ raeumer' \in RTyp
                 /\ raeumer'.faellig \cup raeumer'.entfernt \subseteq raeumer.faellig \cup raeumer.entfernt
                 /\ e \in raeumer.faellig
                 /\ zip' \subseteq zip /\ zip \ zip' \subseteq {e}
      <4>1. UNCHANGED <<export, abstuerze>> /\ e \in raeumer.faellig
        BY <3>2 DEF RaeumeObjekt, RaeumeObjektScheitert
      <4>2. zip' \subseteq zip /\ zip \ zip' \subseteq {e}
        BY <3>2 DEF RaeumeObjekt, RaeumeObjektScheitert
      <4>3. CASE RaeumeObjekt(e)
        BY <1>0, <4>1, <4>2, <4>3 DEF RaeumeObjekt
      <4>4. CASE RaeumeObjektScheitert(e)
        BY <1>0, <4>1, <4>2, <4>4 DEF RaeumeObjektScheitert
      <4>5. QED
        BY <3>2, <4>3, <4>4
    <3>3. CASE RaeumeStirbt
      <4>1. /\ raeumer' = [laeuft |-> FALSE, faellig |-> {}, entfernt |-> {}]
            /\ UNCHANGED <<export, zip>>
        BY <3>3 DEF RaeumeStirbt
      <4>2. abstuerze' \in 0..MaxAbstuerze
        BY <1>0, <3>3, ExportAnnahme DEF RaeumeStirbt
      <4>3. QED
        BY <4>1, <4>2
    <3>4. ASSUME NEW e \in Exporte, RaeumeObjekt(e) \/ RaeumeObjektScheitert(e)
          PROVE  /\ UNCHANGED export /\ abstuerze' \in 0..MaxAbstuerze
                 /\ raeumer' \in RTyp
                 /\ \A f \in raeumer'.faellig \cup raeumer'.entfernt : export[f].abgelaufen
                 /\ zip' \subseteq zip /\ \A f \in zip \ zip' : export[f].abgelaufen
      BY <1>0, <3>2, <3>4
    <3> HIDE DEF RTyp
    <3>5. QED
      BY <1>3, <3>1, <3>3, <3>4 DEF Raeumen
  <2>2. ExportTyp'
    BY <1>1, <2>1 DEF IExport, ExportTyp
  <2>3. Wartend' /\ HaengendLief' /\ BauLaeuft' /\ AblaufAmEnde' /\ EinBearbeiterJeExport'
    BY <1>1, <2>1
       DEF IExport, Wartend, HaengendLief, BauLaeuft, AblaufAmEnde, EinBearbeiterJeExport
  <2>4. GebautLiegtVor'
    <3> SUFFICES ASSUME NEW b \in Bearbeiter, bau[b].phase = "gebaut"
                 PROVE  bau[b].job \in zip'
      BY <1>1 DEF GebautLiegtVor
    <3>1. bau[b].job \in zip /\ ~export[bau[b].job].abgelaufen
      BY DEF IExport, GebautLiegtVor, BauLaeuft
    <3>2. QED
      BY <2>1, <3>1
  <2>5. RaeumtAbgelaufenes'
    BY <2>1 DEF RaeumtAbgelaufenes
  <2>6. AngebotenesExistiert'
    BY <2>1 DEF IExport, AngebotenesExistiert
  <2>7. QED
    BY <2>2, <2>3, <2>4, <2>5, <2>6 DEF IExport
<1>4. QED
  BY <1>2, <1>3

LEMMA ExportSchritt == IExport /\ [ExportNext]_exportVars => IExport'
<1> SUFFICES ASSUME IExport, [ExportNext]_exportVars PROVE IExport'
  OBVIOUS
<1>1. CASE UNCHANGED exportVars
  BY <1>1 DEF exportVars, IExport, ExportTyp, Wartend, HaengendLief, BauLaeuft, GebautLiegtVor,
     AblaufAmEnde, RaeumtAbgelaufenes, EinBearbeiterJeExport, AngebotenesExistiert
<1>2. ASSUME NEW b \in Bearbeiter, BauSchritt(b) \/ BearbeiterStirbt(b)
      PROVE  IExport'
  <2>1. CASE LiesHaengende(b) \/ Erzeugen(b) \/ ErzeugenScheitert(b) \/ BearbeiterStirbt(b)
    BY <2>1, BauArbeit
  <2>2. CASE SchreibeFertig(b) \/ SchreibeFehler(b)
    BY <2>2, Ergebnis
  <2>3. CASE Uebernehmen(b)
    BY <2>3, Uebernahme
  <2>4. QED
    BY <1>2, <2>1, <2>2, <2>3 DEF BauSchritt
<1>3. CASE Raeumen \/ RaeumeStirbt
  BY <1>3, RaeumSchritt
<1>4. ASSUME NEW e \in Exporte, Anfordern(e) \/ LaufzeitUeberschritten(e) \/ LaeuftAb(e)
      PROVE  IExport'
  BY <1>4, ZeileSchritt
<1>5. QED
  BY <1>1, <1>2, <1>3, <1>4 DEF ExportNext

-----------------------------------------------------------------------------
(***************************************************************************)
(* The clean-up of the object store.                                       *)
(***************************************************************************)

(* An order is held by one process, and only while it is open. *)
EinPfleger ==
  \A q, r \in Raumpfleger, s \in Saetze : s \in Gehalten(q) /\ s \in Gehalten(r) => q = r

GehaltenIstOffen ==
  \A r \in Raumpfleger : \A s \in Gehalten(r) : auftrag[s].status = "offen"

OffenHatVersuche == \A s \in Saetze : auftrag[s].status # "fehler" => auftrag[s].versuche < MaxVersuche

AuftragNachPurge == \A s \in Saetze : auftrag[s].status # "keiner" => satz[s] = "weg"

GeloeschtIstWeg == \A r \in Raumpfleger : \A s \in pflege[r].geloescht : s \notin objekte

EinErgebnis(p) ==
  p.offen \cap p.geloescht = {} /\ p.offen \cap p.gescheitert = {} /\ p.geloescht \cap p.gescheitert = {}

ErgebnisEindeutig == \A r \in Raumpfleger : EinErgebnis(pflege[r])

IS3 ==
  /\ S3Typ /\ ErgebnisEindeutig /\ EinPfleger /\ GehaltenIstOffen /\ OffenHatVersuche
  /\ AuftragNachPurge /\ GeloeschtIstWeg
  /\ ObjekteNurNachCommit /\ ErledigtHeisstWeg

LEMMA S3Start == S3Init => IS3
<1> SUFFICES ASSUME S3Init PROVE IS3
  OBVIOUS
<1>1. KeinAuftrag \in AuftragTyp /\ KeinAuftrag.status = "keiner" /\ KeinAuftrag.versuche = 0
  BY AufraeumAnnahme DEF KeinAuftrag, AuftragTyp
<1>2. [offen |-> {}, geloescht |-> {}, gescheitert |-> {}] \in PflegeTyp
  BY DEF PflegeTyp
<1>3. S3Typ
  <2>1. auftrag \in [Saetze -> AuftragTyp] /\ pflege \in [Raumpfleger -> PflegeTyp]
    BY <1>1, <1>2 DEF S3Init
  <2>2. QED
    BY <2>1, AufraeumAnnahme DEF S3Init, S3Typ
<1>4. \A r \in Raumpfleger : Gehalten(r) = {} /\ pflege[r].geloescht = {}
  BY DEF S3Init, Gehalten
<1>5. EinPfleger /\ GehaltenIstOffen /\ GeloeschtIstWeg /\ ErgebnisEindeutig
  <2>1. ErgebnisEindeutig
    BY DEF S3Init, ErgebnisEindeutig, EinErgebnis
  <2>2. QED
    BY <1>4, <2>1 DEF EinPfleger, GehaltenIstOffen, GeloeschtIstWeg
<1>6. OffenHatVersuche /\ AuftragNachPurge /\ ErledigtHeisstWeg
  BY <1>1, AufraeumAnnahme DEF S3Init, OffenHatVersuche, AuftragNachPurge, ErledigtHeisstWeg
<1>7. ObjekteNurNachCommit
  BY DEF S3Init, ObjekteNurNachCommit
<1>8. QED
  BY <1>3, <1>5, <1>6, <1>7 DEF IS3

LEMMA PurgeSchritt ==
  ASSUME IS3, NEW s \in Saetze,
         PurgeBeginn(s) \/ PurgeCommit(s) \/ PurgeRollback(s) \/ WartezeitEndet(s)
  PROVE  IS3'
<1>0. /\ satz \in [Saetze -> {"da", "purge", "weg"}] /\ auftrag \in [Saetze -> AuftragTyp]
      /\ auftrag[s] \in AuftragTyp /\ s \in Saetze
  BY DEF IS3, S3Typ
<1>1. UNCHANGED <<objekte, pflege, ausfaelle>>
  BY DEF PurgeBeginn, PurgeCommit, PurgeRollback, WartezeitEndet
<1>2. \A r \in Raumpfleger : Gehalten(r)' = Gehalten(r)
  BY <1>1 DEF Gehalten
<1>3. EinPfleger' /\ GeloeschtIstWeg' /\ ErgebnisEindeutig'
  BY <1>1, <1>2 DEF IS3, EinPfleger, GeloeschtIstWeg, ErgebnisEindeutig
<1>4. CASE PurgeBeginn(s) \/ PurgeRollback(s)
  <2>1. /\ satz' \in [Saetze -> {"da", "purge", "weg"}] /\ UNCHANGED auftrag
        /\ \A t \in Saetze : satz'[t] = satz[t] \/ (satz[t] # "weg" /\ satz'[t] # "weg")
    BY <1>0, <1>4 DEF PurgeBeginn, PurgeRollback
  <2>2. S3Typ' /\ OffenHatVersuche' /\ ErledigtHeisstWeg'
    BY <1>1, <2>1 DEF IS3, S3Typ, OffenHatVersuche, ErledigtHeisstWeg
  <2>3. GehaltenIstOffen'
    BY <1>2, <2>1 DEF IS3, GehaltenIstOffen
  <2>4. AuftragNachPurge' /\ ObjekteNurNachCommit'
    BY <1>1, <2>1 DEF IS3, AuftragNachPurge, ObjekteNurNachCommit
  <2>5. QED
    BY <1>3, <2>2, <2>3, <2>4 DEF IS3
<1>5. CASE PurgeCommit(s)
  <2>1. /\ satz[s] = "purge" /\ satz' = [satz EXCEPT ![s] = "weg"]
        /\ auftrag' = [auftrag EXCEPT ![s].status = "offen"]
    BY <1>5 DEF PurgeCommit
  <2>2. auftrag[s].status = "keiner"
    BY <2>1 DEF IS3, AuftragNachPurge
  <2> DEFINE neu == [auftrag[s] EXCEPT !.status = "offen"]
  <2>3. neu \in AuftragTyp /\ neu.status = "offen" /\ neu.versuche = auftrag[s].versuche
    BY <1>0 DEF AuftragTyp
  <2>4. auftrag' = [auftrag EXCEPT ![s] = neu]
    BY <1>0, <2>1
  <2> HIDE DEF neu
  <2>5. /\ auftrag' \in [Saetze -> AuftragTyp] /\ auftrag'[s] = neu
        /\ \A t \in Saetze \ {s} : auftrag'[t] = auftrag[t]
        /\ satz' \in [Saetze -> {"da", "purge", "weg"}] /\ satz'[s] = "weg"
        /\ \A t \in Saetze \ {s} : satz'[t] = satz[t]
    BY <1>0, <2>1, <2>3, <2>4
  <2>6. S3Typ'
    BY <1>1, <2>5 DEF IS3, S3Typ
  <2>7. OffenHatVersuche' /\ ErledigtHeisstWeg'
    BY <1>1, <2>2, <2>3, <2>5 DEF IS3, OffenHatVersuche, ErledigtHeisstWeg
  <2>8. GehaltenIstOffen'
    <3> SUFFICES ASSUME NEW r \in Raumpfleger, NEW t \in Gehalten(r)
                 PROVE  auftrag'[t].status = "offen"
      BY <1>2 DEF GehaltenIstOffen
    <3>1. t \in Saetze /\ auftrag[t].status = "offen"
      BY DEF IS3, S3Typ, PflegeTyp, GehaltenIstOffen, Gehalten
    <3>2. QED
      BY <3>1, <2>3, <2>5
  <2>9. AuftragNachPurge' /\ ObjekteNurNachCommit'
    BY <1>1, <2>5 DEF IS3, AuftragNachPurge, ObjekteNurNachCommit
  <2>10. QED
    BY <1>3, <2>6, <2>7, <2>8, <2>9 DEF IS3
<1>6. CASE WartezeitEndet(s)
  <2> DEFINE neu == [auftrag[s] EXCEPT !.wartet = FALSE]
  <2>1. UNCHANGED satz /\ auftrag' = [auftrag EXCEPT ![s].wartet = FALSE]
    BY <1>6 DEF WartezeitEndet
  <2>2. auftrag' = [auftrag EXCEPT ![s] = neu]
    BY <1>0, <2>1
  <2>3. /\ neu \in AuftragTyp /\ neu.status = auftrag[s].status
        /\ neu.versuche = auftrag[s].versuche
    BY <1>0 DEF AuftragTyp
  <2> HIDE DEF neu
  <2>4. /\ auftrag' \in [Saetze -> AuftragTyp]
        /\ \A t \in Saetze : /\ auftrag'[t].status = auftrag[t].status
                             /\ auftrag'[t].versuche = auftrag[t].versuche
    BY <1>0, <2>2, <2>3
  <2>5. S3Typ'
    BY <1>1, <2>1, <2>4 DEF IS3, S3Typ
  <2>6. OffenHatVersuche' /\ ErledigtHeisstWeg' /\ AuftragNachPurge'
    BY <1>1, <2>1, <2>4 DEF IS3, OffenHatVersuche, ErledigtHeisstWeg, AuftragNachPurge
  <2>7. ObjekteNurNachCommit'
    BY <1>1, <2>1 DEF IS3, ObjekteNurNachCommit
  <2>8. GehaltenIstOffen'
    <3> SUFFICES ASSUME NEW r \in Raumpfleger, NEW t \in Gehalten(r)
                 PROVE  auftrag'[t].status = "offen"
      BY <1>2 DEF GehaltenIstOffen
    <3>1. t \in Saetze /\ auftrag[t].status = "offen"
      BY DEF IS3, S3Typ, PflegeTyp, GehaltenIstOffen, Gehalten
    <3>2. QED
      BY <3>1, <2>4
  <2>9. QED
    BY <1>3, <2>5, <2>6, <2>7, <2>8 DEF IS3
<1>7. QED
  BY <1>4, <1>5, <1>6

\* What a process holds while its results come in, or gives back when it dies.
LEMMA PflegeHalt ==
  ASSUME IS3, NEW r \in Raumpfleger, pflege' \in [Raumpfleger -> PflegeTyp],
         \A q \in Raumpfleger \ {r} : pflege'[q] = pflege[q],
         Gehalten(r)' \subseteq Gehalten(r) \cup Faellig(r),
         UNCHANGED <<satz, auftrag>>, objekte' \subseteq objekte, ausfaelle' \in 0..MaxAusfaelle,
         \A s \in objekte \ objekte' : s \in pflege[r].offen,
         EinErgebnis(pflege'[r]), \A s \in pflege'[r].geloescht : s \notin objekte'
  PROVE  IS3'
<1>1. S3Typ' /\ OffenHatVersuche' /\ AuftragNachPurge' /\ ErledigtHeisstWeg'
  BY DEF IS3, S3Typ, OffenHatVersuche, AuftragNachPurge, ErledigtHeisstWeg
<1>2. \A q \in Raumpfleger \ {r} : Gehalten(q)' = Gehalten(q)
  BY DEF Gehalten
<1>3. \A s \in Faellig(r) : /\ auftrag[s].status = "offen"
                            /\ \A q \in Raumpfleger \ {r} : s \notin Gehalten(q)
  BY DEF Faellig, FremdGehalten
<1>4. EinPfleger'
  <2> SUFFICES ASSUME NEW q \in Raumpfleger \ {r}, NEW s \in Saetze,
                      s \in Gehalten(q), s \in Gehalten(r)'
               PROVE  FALSE
    BY <1>2 DEF IS3, EinPfleger
  <2>1. s \in Gehalten(r)
    BY <1>3
  <2>2. QED
    BY <2>1 DEF IS3, EinPfleger
<1>5. GehaltenIstOffen'
  BY <1>2, <1>3 DEF IS3, GehaltenIstOffen
<1>6. GeloeschtIstWeg' /\ ErgebnisEindeutig'
  BY DEF IS3, GeloeschtIstWeg, ErgebnisEindeutig
<1>7. ObjekteNurNachCommit'
  <2> SUFFICES ASSUME NEW s \in Saetze, satz[s] # "weg", s \notin objekte'
               PROVE  FALSE
    BY DEF ObjekteNurNachCommit
  <2>1. s \in objekte
    BY DEF IS3, ObjekteNurNachCommit
  <2>2. auftrag[s].status = "offen"
    BY <2>1 DEF IS3, GehaltenIstOffen, Gehalten
  <2>3. QED
    BY <2>2 DEF IS3, AuftragNachPurge
<1>8. QED
  BY <1>1, <1>4, <1>5, <1>6, <1>7 DEF IS3

LEMMA PflegeArbeit ==
  ASSUME IS3, NEW r \in Raumpfleger,
         VerarbeiteBeginn(r) \/ PflegeStirbt(r)
           \/ \E s \in Saetze : LoeschePrefix(r, s) \/ LoeschePrefixScheitert(r, s)
  PROVE  IS3'
<1>0. /\ pflege \in [Raumpfleger -> PflegeTyp] /\ pflege[r] \in PflegeTyp
      /\ ausfaelle \in 0..MaxAusfaelle
      /\ \A s \in pflege[r].geloescht : s \notin objekte
      /\ EinErgebnis(pflege[r])
  BY DEF IS3, S3Typ, GeloeschtIstWeg, ErgebnisEindeutig
<1>1. UNCHANGED <<satz, auftrag>>
  BY DEF VerarbeiteBeginn, PflegeStirbt, LoeschePrefix, LoeschePrefixScheitert
<1>2. CASE VerarbeiteBeginn(r)
  <2> DEFINE neu == [pflege[r] EXCEPT !.offen = Faellig(r)]
  <2>1. pflege' = [pflege EXCEPT ![r] = neu] /\ UNCHANGED <<objekte, ausfaelle>>
    BY <1>2, <1>0 DEF VerarbeiteBeginn
  <2>2. Faellig(r) \in SUBSET Saetze
    BY DEF Faellig
  <2>3. /\ neu \in PflegeTyp /\ neu.offen = Faellig(r)
        /\ neu.geloescht = pflege[r].geloescht /\ neu.gescheitert = pflege[r].gescheitert
    BY <1>0, <2>2 DEF PflegeTyp
  <2> HIDE DEF neu
  <2>4. /\ pflege' \in [Raumpfleger -> PflegeTyp] /\ pflege'[r] = neu
        /\ \A q \in Raumpfleger \ {r} : pflege'[q] = pflege[q]
    BY <1>0, <2>1, <2>3
  <2>5. Gehalten(r)' \subseteq Gehalten(r) \cup Faellig(r)
    BY <2>3, <2>4 DEF Gehalten
  <2>6. EinErgebnis(neu)
    BY <1>2, <2>3 DEF VerarbeiteBeginn, Ruht, Gehalten, EinErgebnis
  <2>7. QED
    BY <1>0, <1>1, <2>1, <2>3, <2>4, <2>5, <2>6, PflegeHalt
<1>3. CASE PflegeStirbt(r)
  <2> DEFINE neu == [offen |-> {}, geloescht |-> {}, gescheitert |-> {}]
  <2>1. pflege' = [pflege EXCEPT ![r] = neu] /\ UNCHANGED objekte
    BY <1>3 DEF PflegeStirbt
  <2>2. ausfaelle' \in 0..MaxAusfaelle
    BY <1>0, <1>3, AufraeumAnnahme DEF PflegeStirbt
  <2>3. neu \in PflegeTyp /\ neu.offen = {} /\ neu.geloescht = {} /\ neu.gescheitert = {}
    BY DEF PflegeTyp
  <2> HIDE DEF neu
  <2>4. /\ pflege' \in [Raumpfleger -> PflegeTyp] /\ pflege'[r] = neu
        /\ \A q \in Raumpfleger \ {r} : pflege'[q] = pflege[q]
    BY <1>0, <2>1, <2>3
  <2>5. Gehalten(r)' = {}
    BY <2>3, <2>4 DEF Gehalten
  <2>6. EinErgebnis(neu)
    BY <2>3 DEF EinErgebnis
  <2>7. QED
    BY <1>1, <2>1, <2>2, <2>3, <2>4, <2>5, <2>6, PflegeHalt
<1>4. ASSUME NEW s \in Saetze, LoeschePrefix(r, s)
      PROVE  IS3'
  <2> DEFINE neu == [pflege[r] EXCEPT !.offen = @ \ {s}, !.geloescht = @ \cup {s}]
  <2>1. /\ pflege' = [pflege EXCEPT ![r] = neu] /\ UNCHANGED ausfaelle
        /\ s \in pflege[r].offen /\ objekte' = objekte \ {s}
    BY <1>4, <1>0 DEF LoeschePrefix
  <2>2. /\ neu \in PflegeTyp /\ neu.offen = pflege[r].offen \ {s}
        /\ neu.geloescht = pflege[r].geloescht \cup {s} /\ neu.gescheitert = pflege[r].gescheitert
    BY <1>0 DEF PflegeTyp
  <2> HIDE DEF neu
  <2>3. /\ pflege' \in [Raumpfleger -> PflegeTyp] /\ pflege'[r] = neu
        /\ \A q \in Raumpfleger \ {r} : pflege'[q] = pflege[q]
    BY <1>0, <2>1, <2>2
  <2>4. Gehalten(r)' \subseteq Gehalten(r)
    BY <2>1, <2>2, <2>3 DEF Gehalten
  <2>5. EinErgebnis(neu)
    BY <1>0, <2>1, <2>2 DEF EinErgebnis
  <2>6. QED
    BY <1>0, <1>1, <2>1, <2>2, <2>3, <2>4, <2>5, PflegeHalt
<1>5. ASSUME NEW s \in Saetze, LoeschePrefixScheitert(r, s)
      PROVE  IS3'
  <2> DEFINE neu == [pflege[r] EXCEPT !.offen = @ \ {s}, !.gescheitert = @ \cup {s}]
  <2>1. /\ pflege' = [pflege EXCEPT ![r] = neu] /\ UNCHANGED <<objekte, ausfaelle>>
        /\ s \in pflege[r].offen
    BY <1>5, <1>0 DEF LoeschePrefixScheitert
  <2>2. /\ neu \in PflegeTyp /\ neu.offen = pflege[r].offen \ {s}
        /\ neu.geloescht = pflege[r].geloescht /\ neu.gescheitert = pflege[r].gescheitert \cup {s}
    BY <1>0 DEF PflegeTyp
  <2> HIDE DEF neu
  <2>3. /\ pflege' \in [Raumpfleger -> PflegeTyp] /\ pflege'[r] = neu
        /\ \A q \in Raumpfleger \ {r} : pflege'[q] = pflege[q]
    BY <1>0, <2>1, <2>2
  <2>4. Gehalten(r)' \subseteq Gehalten(r)
    BY <2>1, <2>2, <2>3 DEF Gehalten
  <2>5. EinErgebnis(neu)
    BY <1>0, <2>1, <2>2 DEF EinErgebnis
  <2>6. QED
    BY <1>0, <1>1, <2>1, <2>2, <2>3, <2>4, <2>5, PflegeHalt
<1>6. QED
  BY <1>2, <1>3, <1>4, <1>5

\* The results are written for the rows held, which nobody else may have touched.
LEMMA PflegeCommit ==
  ASSUME IS3, NEW r \in Raumpfleger, VerarbeiteCommit(r)
  PROVE  IS3'
<1> DEFINE ok == pflege[r].geloescht
           schlecht == pflege[r].gescheitert
           leer == [offen |-> {}, geloescht |-> {}, gescheitert |-> {}]
<1>0. /\ pflege \in [Raumpfleger -> PflegeTyp] /\ auftrag \in [Saetze -> AuftragTyp]
      /\ MaxVersuche \in Nat \ {0}
  BY AufraeumAnnahme DEF IS3, S3Typ
<1>1. /\ auftrag' = [s \in Saetze |->
           CASE s \in ok -> [auftrag[s] EXCEPT !.status = "erledigt"]
             [] s \in schlecht -> NachFehlschlag(auftrag[s])
             [] OTHER -> auftrag[s]]
      /\ pflege' = [pflege EXCEPT ![r] = leer]
      /\ UNCHANGED <<satz, objekte, ausfaelle>>
  BY DEF VerarbeiteCommit
<1>2. leer \in PflegeTyp /\ leer.offen = {} /\ leer.geloescht = {} /\ leer.gescheitert = {}
  BY DEF PflegeTyp
<1> HIDE DEF leer
<1>3. /\ pflege' \in [Raumpfleger -> PflegeTyp] /\ pflege'[r] = leer
      /\ \A q \in Raumpfleger \ {r} : pflege'[q] = pflege[q]
  BY <1>0, <1>1, <1>2
<1>4. Gehalten(r)' = {} /\ \A q \in Raumpfleger \ {r} : Gehalten(q)' = Gehalten(q)
  BY <1>2, <1>3 DEF Gehalten
<1>5. ASSUME NEW s \in Saetze
      PROVE  /\ auftrag'[s] \in AuftragTyp
             /\ auftrag'[s].status # "fehler" => auftrag'[s].versuche < MaxVersuche
             /\ auftrag'[s].status = "keiner" <=> auftrag[s].status = "keiner"
             /\ auftrag'[s].status = "erledigt" => s \in ok \/ auftrag[s].status = "erledigt"
             /\ s \notin Gehalten(r) => auftrag'[s] = auftrag[s]
  <2>0. auftrag[s] \in AuftragTyp
    BY <1>0
  <2>1. CASE s \in ok
    <3>1. auftrag'[s] = [auftrag[s] EXCEPT !.status = "erledigt"]
      <4>1. s \notin schlecht
        BY <2>1 DEF IS3, ErgebnisEindeutig, EinErgebnis
      <4>2. QED
        BY <1>1, <2>1, <4>1
    <3>2. auftrag[s].status = "offen" /\ auftrag[s].versuche < MaxVersuche /\ s \in Gehalten(r)
      BY <2>1 DEF IS3, GehaltenIstOffen, Gehalten, OffenHatVersuche
    <3>3. QED
      BY <2>0, <2>1, <3>1, <3>2 DEF AuftragTyp
  <2>2. CASE s \notin ok /\ s \in schlecht
    <3>1. auftrag'[s] = NachFehlschlag(auftrag[s])
      BY <1>1, <2>2
    <3>2. auftrag[s].status = "offen" /\ auftrag[s].versuche < MaxVersuche /\ s \in Gehalten(r)
      BY <2>2 DEF IS3, GehaltenIstOffen, Gehalten, OffenHatVersuche
    <3>3. auftrag[s].versuche \in 0..MaxVersuche
      BY <2>0 DEF AuftragTyp
    <3>4. QED
      BY <1>0, <3>1, <3>2, <3>3 DEF AuftragTyp, NachFehlschlag
  <2>3. CASE s \notin ok /\ s \notin schlecht
    BY <1>1, <2>0, <2>3 DEF IS3, OffenHatVersuche
  <2>4. QED
    BY <2>1, <2>2, <2>3
<1>6. auftrag' \in [Saetze -> AuftragTyp]
  <2>1. \A s \in Saetze : auftrag'[s] \in AuftragTyp
    BY <1>5
  <2>2. auftrag' = [s \in Saetze |-> auftrag'[s]]
    BY <1>1
  <2>3. QED
    BY <2>1, <2>2
<1>7. S3Typ'
  BY <1>1, <1>3, <1>6 DEF IS3, S3Typ
<1>8. EinPfleger'
  BY <1>4 DEF IS3, EinPfleger
<1>9. GehaltenIstOffen'
  <2> SUFFICES ASSUME NEW q \in Raumpfleger \ {r}, NEW s \in Gehalten(q)
               PROVE  auftrag'[s].status = "offen"
    BY <1>4 DEF GehaltenIstOffen
  <2>1. s \in Saetze /\ auftrag[s].status = "offen"
    BY DEF IS3, S3Typ, PflegeTyp, GehaltenIstOffen, Gehalten
  <2>2. s \notin Gehalten(r)
    BY <2>1 DEF IS3, EinPfleger
  <2>3. QED
    BY <1>5, <2>1, <2>2
<1>10. OffenHatVersuche'
  BY <1>5 DEF OffenHatVersuche
<1>11. AuftragNachPurge'
  BY <1>1, <1>5 DEF IS3, AuftragNachPurge
<1>12. GeloeschtIstWeg' /\ ErgebnisEindeutig'
  BY <1>1, <1>2, <1>3 DEF IS3, GeloeschtIstWeg, ErgebnisEindeutig, EinErgebnis
<1>13. ObjekteNurNachCommit'
  BY <1>1 DEF IS3, ObjekteNurNachCommit
<1>14. ErledigtHeisstWeg'
  BY <1>1, <1>5 DEF IS3, ErledigtHeisstWeg, GeloeschtIstWeg
<1>15. QED
  BY <1>7, <1>8, <1>9, <1>10, <1>11, <1>12, <1>13, <1>14 DEF IS3

LEMMA S3Schritt == IS3 /\ [S3Next]_s3Vars => IS3'
<1> SUFFICES ASSUME IS3, [S3Next]_s3Vars PROVE IS3'
  OBVIOUS
<1>1. CASE UNCHANGED s3Vars
  BY <1>1 DEF s3Vars, IS3, S3Typ, ErgebnisEindeutig, EinPfleger, GehaltenIstOffen, Gehalten, OffenHatVersuche,
     AuftragNachPurge, GeloeschtIstWeg, ObjekteNurNachCommit, ErledigtHeisstWeg
<1>2. ASSUME NEW r \in Raumpfleger, PflegeSchritt(r) \/ PflegeStirbt(r)
      PROVE  IS3'
  <2>1. CASE VerarbeiteCommit(r)
    BY <2>1, PflegeCommit
  <2>2. CASE VerarbeiteBeginn(r) \/ PflegeStirbt(r)
               \/ \E s \in Saetze : LoeschePrefix(r, s) \/ LoeschePrefixScheitert(r, s)
    BY <2>2, PflegeArbeit
  <2>3. QED
    BY <1>2, <2>1, <2>2 DEF PflegeSchritt
<1>3. ASSUME NEW s \in Saetze,
             PurgeBeginn(s) \/ PurgeCommit(s) \/ PurgeRollback(s) \/ WartezeitEndet(s)
      PROVE  IS3'
  BY <1>3, PurgeSchritt
<1>4. QED
  BY <1>1, <1>2, <1>3 DEF S3Next

-----------------------------------------------------------------------------
(***************************************************************************)
(* All parts together: a step of one leaves the others alone.              *)
(***************************************************************************)

mcVars == <<teil, runnerVars, exportVars, s3Vars, imVars>>

LEMMA TeilSchritt ==
  [MCNext]_mcVars =>
      /\ [RunnerNext]_runnerVars /\ [ExportNext]_exportVars /\ [S3Next]_s3Vars /\ [ImNext]_imVars
BY DEF MCNext, mcVars

(* For any number of exports, builders, records and clean-up processes: no two build the same export,
   an offered download exists, objects go after the commit of the purge only, and an order that
   is reported as done has left nothing (export_job_service.py, s3_aufraeumen_service.py). *)
THEOREM AuftraegeBleibenSicher == MCSpec => []AuftraegeSicher
<1>1. MCInit => IExport /\ IS3
  BY ExportStart, S3Start DEF MCInit
<1>2. (IExport /\ IS3) /\ [MCNext]_mcVars => (IExport /\ IS3)'
  BY TeilSchritt, ExportSchritt, S3Schritt
<1>3. IExport /\ IS3 => AuftraegeSicher
  BY DEF IExport, IS3, AuftraegeSicher
<1>4. QED
  BY <1>1, <1>2, <1>3, PTL DEF MCSpec, mcVars

(* For any number of workers, exports, deletions and import requests: the rows and what those at
   work hold in memory keep their types (job_runner.py, export_job_service.py,
   s3_aufraeumen_service.py, datenimport/lauf.py). *)
THEOREM TypenBleiben == MCSpec => []HintergrundTyp
<1>1. MCInit => IRunner /\ IExport /\ IS3 /\ IImport
  BY RunnerStart, ExportStart, S3Start, ImportAnfang DEF MCInit
<1>2. (IRunner /\ IExport /\ IS3 /\ IImport) /\ [MCNext]_mcVars
         => (IRunner /\ IExport /\ IS3 /\ IImport)'
  BY TeilSchritt, RunnerSchritt, ExportSchritt, S3Schritt, ImportSchrittHaelt
<1>3. IRunner /\ IExport /\ IS3 /\ IImport => HintergrundTyp
  BY DEF IRunner, IExport, IS3, IImport, HintergrundTyp
<1>4. QED
  BY <1>1, <1>2, <1>3, PTL DEF MCSpec, mcVars
=============================================================================
