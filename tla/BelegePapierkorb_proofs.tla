----------------------- MODULE BelegePapierkorb_proofs -----------------------
(***************************************************************************)
(* Proofs about the open items with the recycle bin and about the supplier *)
(* invoices, for any number of documents, payments, mails and requests.    *)
(*                                                                         *)
(* First of requests that overlap: types, and that a credit note never     *)
(* exceeds its invoice.  Then of requests that do not (Einzeln): every     *)
(* cancelled document has one counter-document, and as long as no job is   *)
(* deleted the ledger implements Forderung.                                *)
(***************************************************************************)
EXTENDS MCBelegePapierkorb, Summen, TLAPS

-----------------------------------------------------------------------------
(***************************************************************************)
(* Type correctness.                                                       *)
(***************************************************************************)

(***************************************************************************)
(* What a running request and a credit note refer to exists.               *)
(***************************************************************************)
Bezuege ==
  /\ \A a \in Anfragen : anfrage[a].phase # "frei" =>
       /\ anfrage[a].beleg \in Belege
       /\ anfrage[a].art = "zahlungsstorno" => anfrage[a].buchung \in Buchungen
  /\ \A b \in Belege : beleg[b].art = "gutschrift" => beleg[b].bezug \in Belege

TypInv == TypeOK /\ Bezuege

LEMMA BelegTypen ==
  ASSUME NEW a \in Belegart, NEW s \in Status, NEW n \in Int, NEW v \in Belege \cup {Nichts}
  PROVE  /\ Beleg(a, s, n, v) \in BelegTyp
         /\ Beleg(a, s, n, v).art = a
         /\ Beleg(a, s, n, v).status = s
         /\ Beleg(a, s, n, v).brutto = n
         /\ Beleg(a, s, n, v).bezug = v
  BY DEF Beleg, BelegTyp

LEMMA BuchungTypen ==
  ASSUME NEW b \in Belege \cup {Nichts}, NEW n \in Nat, NEW g \in Nat
  PROVE  /\ Buchung(b, n, g) \in BuchungTyp
         /\ Buchung(b, n, g).beleg = b
  BY DEF Buchung, BuchungTyp

LEMMA AnfrageTypen ==
  ASSUME NEW o \in Vorhaben, NEW p \in Phase, NEW b \in Belege \cup {Nichts}, NEW n \in Nat,
         NEW z \in Buchungen \cup {Nichts}, NEW s \in Status, NEW sz \in Int, NEW sg \in Int
  PROVE  /\ Anfrage(o, p, b, n, z, s, sz, sg) \in AnfrageTyp
         /\ Anfrage(o, p, b, n, z, s, sz, sg).art = o
         /\ Anfrage(o, p, b, n, z, s, sz, sg).phase = p
         /\ Anfrage(o, p, b, n, z, s, sz, sg).beleg = b
         /\ Anfrage(o, p, b, n, z, s, sz, sg).betrag = n
         /\ Anfrage(o, p, b, n, z, s, sz, sg).buchung = z
         /\ Anfrage(o, p, b, n, z, s, sz, sg).status = s
  BY DEF Anfrage, AnfrageTyp

LEMMA KeineTyp == Keine \in AnfrageTyp /\ Keine.phase = "frei" /\ Keine.art = "keins"
  BY AnfrageTypen DEF Keine, Vorhaben, Phase, Status

LEMMA InitTyp == Init => TypInv
<1> SUFFICES ASSUME Init PROVE TypInv
  OBVIOUS
<1>1. beleg \in [Belege -> BelegTyp]
  <2>1. \A b \in Rechnungen : Beleg("rechnung", "entwurf", Betrag[b], Nichts) \in BelegTyp
    BY KonstantenAnnahme, BelegTypen DEF Belegart, Status
  <2>2. Beleg("rechnung", "frei", 0, Nichts) \in BelegTyp
    BY BelegTypen DEF Belegart, Status
  <2>3. QED
    BY <2>1, <2>2 DEF Init
<1>2. zahlung \in [Buchungen -> BuchungTyp]
  BY BuchungTypen DEF Init
<1>3. anfrage \in [Anfragen -> AnfrageTyp]
  BY KeineTyp DEF Init
<1>4. TypeOK
  <2>1. papierkorb \in SUBSET Belege /\ vorgang \in BOOLEAN
    BY DEF Init
  <2>2. gezahlt \in [Belege -> Int] /\ gutgeschrieben \in [Belege -> Int]
    BY DEF Init
  <2>3. gemeldet \in [Belege -> Status]
    BY DEF Init, Status
  <2>4. QED
    BY <1>1, <1>2, <1>3, <2>1, <2>2, <2>3 DEF TypeOK
<1>5. Bezuege
  BY KeineTyp DEF Init, Bezuege, Beleg
<1>6. QED
  BY <1>4, <1>5 DEF TypInv

\* The rules of the open item answer with a status.
LEMMA RegelnTyp ==
  ASSUME NEW n \in Int, NEW z \in Int, NEW s \in Status, NEW g \in Int
  PROVE  /\ Offen(n, z, g) \in Nat
         /\ StatusNachZahlung(n, z, s, g) \in Versandt \cup {s}
         /\ StatusNachGegenbuchung(n, z, s, g) \in Versandt \cup {s}
         /\ StatusNachGutschriften(n, z, s, g) \in Versandt \cup {s}
  BY DEF Offen, Groesser, StatusNachZahlung, StatusNachGegenbuchung, StatusNachGutschriften, Versandt

LEMMA StatusTyp == Versandt \subseteq Status /\ "storniert" \in Status /\ "storniert" \notin Versandt
  BY DEF Versandt, Status

-----------------------------------------------------------------------------
(***************************************************************************)
(* What one step does to a document: only its status changes, or a free    *)
(* number becomes a counter-document.                                      *)
(***************************************************************************)

Fortgeschrieben(b) ==
  /\ beleg'[b].art = beleg[b].art
  /\ beleg'[b].brutto = beleg[b].brutto
  /\ beleg'[b].bezug = beleg[b].bezug
  /\ beleg'[b].status \in Versandt \cup {"storniert", beleg[b].status}

Gegenbeleg(b) ==
  /\ beleg[b].status = "frei"
  /\ beleg'[b].status = "versendet"
  /\ beleg'[b].art \in {"storno", "gutschrift"}
  /\ beleg'[b].art = "gutschrift" => (beleg'[b].brutto <= 0 /\ beleg'[b].bezug \in Belege)

Folge ==
  /\ beleg' \in [Belege -> BelegTyp]
  /\ \A b \in Belege : Fortgeschrieben(b) \/ Gegenbeleg(b)

LEMMA FolgeUnveraendert ==
  ASSUME TypInv, UNCHANGED beleg
  PROVE  Folge
  BY DEF TypInv, TypeOK, Folge, Fortgeschrieben

LEMMA FolgeStatus ==
  ASSUME TypInv, NEW b \in Belege, NEW s \in Versandt \cup {"storniert"}, SetzeStatus(b, s)
  PROVE  Folge
<1>1. s \in Status
  BY StatusTyp
<1>2. beleg' \in [Belege -> BelegTyp]
  BY <1>1 DEF TypInv, TypeOK, SetzeStatus, BelegTyp
<1>3. \A c \in Belege : Fortgeschrieben(c)
  BY DEF TypInv, TypeOK, SetzeStatus, BelegTyp, Fortgeschrieben
<1>4. QED
  BY <1>2, <1>3 DEF Folge

LEMMA FolgeSchreibe ==
  ASSUME TypInv, NEW b \in Belege, NEW geladen, NEW s \in Versandt \cup {geladen},
         SchreibeStatus(b, s, geladen)
  PROVE  Folge
<1>1. CASE s = geladen
  BY <1>1, FolgeUnveraendert DEF SchreibeStatus
<1>2. CASE s # geladen
  BY <1>2, FolgeStatus DEF SchreibeStatus
<1>3. QED
  BY <1>1, <1>2

\* The types of what a running request has read.
LEMMA AnfrageFelder ==
  ASSUME TypInv, NEW a \in Anfragen
  PROVE  /\ anfrage[a].art \in Vorhaben
         /\ anfrage[a].phase \in Phase
         /\ anfrage[a].betrag \in Nat
         /\ anfrage[a].buchung \in Buchungen \cup {Nichts}
         /\ anfrage[a].status \in Status
         /\ anfrage[a].gezahlt \in Int
         /\ anfrage[a].gut \in Int
         /\ anfrage[a].phase # "frei" => anfrage[a].beleg \in Belege
  BY DEF TypInv, TypeOK, Bezuege, AnfrageTyp

LEMMA BelegFelder ==
  ASSUME TypInv, NEW b \in Belege
  PROVE  /\ beleg[b].art \in Belegart
         /\ beleg[b].status \in Status
         /\ beleg[b].brutto \in Int
         /\ beleg[b].bezug \in Belege \cup {Nichts}
         /\ gezahlt[b] \in Int
         /\ gutgeschrieben[b] \in Int
         /\ beleg[b].art = "gutschrift" => beleg[b].bezug \in Belege
  BY DEF TypInv, TypeOK, Bezuege, BelegTyp

LEMMA FolgeVersand ==
  ASSUME TypInv, NEW a \in Anfragen, SchreibeVersand(a)
  PROVE  Folge
  BY AnfrageFelder, FolgeStatus DEF SchreibeVersand, In, Versandt

LEMMA FolgeZahlung ==
  ASSUME TypInv, NEW a \in Anfragen, SchreibeZahlung(a)
  PROVE  Folge
<1> DEFINE q == anfrage[a]
           s == StatusNachZahlung(beleg[q.beleg].brutto, q.gezahlt + q.betrag, q.status, q.gut)
<1>1. q.beleg \in Belege
  BY AnfrageFelder DEF SchreibeZahlung, In
<1>2. /\ beleg[q.beleg].brutto \in Int
      /\ q.gezahlt + q.betrag \in Int
      /\ q.status \in Status
      /\ q.gut \in Int
  BY <1>1, AnfrageFelder, BelegFelder
<1>3. s \in Versandt \cup {q.status}
  BY <1>2, RegelnTyp
<1>4. SchreibeStatus(q.beleg, s, q.status)
  BY DEF SchreibeZahlung
<1> HIDE DEF s
<1>5. QED
  BY <1>1, <1>3, <1>4, FolgeSchreibe

LEMMA FolgeAbschluss ==
  ASSUME TypInv, NEW a \in Anfragen, SchreibeAbschluss(a)
  PROVE  Folge
<1>1. anfrage[a].beleg \in Belege
  BY AnfrageFelder DEF SchreibeAbschluss, In
<1>2. SetzeStatus(anfrage[a].beleg, "bezahlt")
  BY DEF SchreibeAbschluss
<1>3. QED
  BY <1>1, <1>2, FolgeStatus DEF Versandt

LEMMA FolgeGegenbuchung ==
  ASSUME TypInv, NEW a \in Anfragen, SchreibeGegenbuchung(a)
  PROVE  Folge
<1> DEFINE q == anfrage[a]
           s == StatusNachGegenbuchung(beleg[q.beleg].brutto, q.gezahlt, q.status, q.gut)
<1>1. q.beleg \in Belege
  BY AnfrageFelder DEF SchreibeGegenbuchung, In
<1>2. beleg[q.beleg].brutto \in Int /\ q.gezahlt \in Int /\ q.status \in Status /\ q.gut \in Int
  BY <1>1, AnfrageFelder, BelegFelder
<1>3. s \in Versandt \cup {q.status}
  BY <1>2, RegelnTyp
<1>4. SchreibeStatus(q.beleg, s, q.status)
  BY DEF SchreibeGegenbuchung
<1> HIDE DEF s
<1>5. QED
  BY <1>1, <1>3, <1>4, FolgeSchreibe

\* A changed status of the invoice behind a cancelled credit note.
LEMMA BezugStatusTyp ==
  ASSUME TypInv, NEW a \in Anfragen, anfrage[a].phase # "frei",
         NEW b \in StornoZeilen(a), b # anfrage[a].beleg
  PROVE  BezugStatus(a) \in Versandt
<1> DEFINE q == anfrage[a]
<1>1. beleg[q.beleg].art = "gutschrift" /\ BezugStatus(a) # q.status /\ q.beleg \in Belege
  BY AnfrageFelder DEF StornoZeilen
<1>2. beleg[q.beleg].bezug \in Belege
  BY <1>1, BelegFelder
<1>3. /\ beleg[beleg[q.beleg].bezug].brutto \in Int
      /\ q.gezahlt \in Int /\ q.status \in Status /\ q.gut \in Int
  BY <1>2, AnfrageFelder, BelegFelder
<1>4. BezugStatus(a) \in Versandt \cup {q.status}
  BY <1>3, RegelnTyp DEF BezugStatus
<1>5. QED
  BY <1>1, <1>4

LEMMA FolgeStorno ==
  ASSUME TypInv, NEW a \in Anfragen, SchreibeStorno(a)
  PROVE  Folge
<1> DEFINE q == anfrage[a]
           Neu(s, b) ==
             IF b = s THEN Beleg("storno", "versendet", -beleg[q.beleg].brutto, q.beleg)
             ELSE IF b \notin StornoZeilen(a) THEN beleg[b]
             ELSE Beleg(beleg[b].art, IF b = q.beleg THEN "storniert" ELSE BezugStatus(a),
                        beleg[b].brutto, beleg[b].bezug)
<1>1. q.phase # "frei" /\ q.beleg \in Belege
  BY AnfrageFelder DEF SchreibeStorno, In
<1>2. PICK s \in FreieBelege : beleg' = [b \in Belege |-> Neu(s, b)]
  BY DEF SchreibeStorno
<1>3. beleg[s].status = "frei"
  BY DEF FreieBelege
<1>4. ASSUME NEW b \in Belege
      PROVE  beleg'[b] \in BelegTyp /\ (Fortgeschrieben(b) \/ Gegenbeleg(b))
  <2>1. beleg'[b] = Neu(s, b)
    BY <1>2
  <2>2. CASE b = s
    <3>1. beleg'[b] = Beleg("storno", "versendet", -beleg[q.beleg].brutto, q.beleg)
      BY <2>1, <2>2
    <3>2. -beleg[q.beleg].brutto \in Int
      BY <1>1, BelegFelder
    <3>3. "storno" \in Belegart /\ "versendet" \in Status
      BY DEF Belegart, Status
    <3>4. QED
      BY <1>1, <1>3, <2>2, <3>1, <3>2, <3>3, BelegTypen DEF Gegenbeleg
  <2>3. CASE b # s /\ b \notin StornoZeilen(a)
    <3>1. beleg'[b] = beleg[b]
      BY <2>1, <2>3
    <3>2. QED
      BY <3>1 DEF TypInv, TypeOK, Fortgeschrieben
  <2>4. CASE b # s /\ b \in StornoZeilen(a)
    <3> DEFINE n == IF b = q.beleg THEN "storniert" ELSE BezugStatus(a)
    <3>1. beleg'[b] = Beleg(beleg[b].art, n, beleg[b].brutto, beleg[b].bezug)
      BY <2>1, <2>4
    <3>2. n \in Versandt \cup {"storniert"}
      BY <1>1, <2>4, BezugStatusTyp
    <3>3. n \in Status
      BY <3>2, StatusTyp
    <3> HIDE DEF n
    <3>4. QED
      BY <3>1, <3>2, <3>3, BelegFelder, BelegTypen DEF Fortgeschrieben
  <2>5. QED
    BY <2>2, <2>3, <2>4
<1> HIDE DEF Neu
<1>5. QED
  BY <1>2, <1>4 DEF Folge

LEMMA FolgeGutschrift ==
  ASSUME TypInv, NEW a \in Anfragen, SchreibeGutschrift(a)
  PROVE  Folge
<1> DEFINE q == anfrage[a]
           r == q.beleg
           s == StatusNachGutschriften(beleg[r].brutto, gezahlt[r], beleg[r].status,
                                       gutgeschrieben[r] + q.betrag)
           Neu(n, b) == IF b = n THEN Beleg("gutschrift", "versendet", -q.betrag, r)
                        ELSE IF b = r THEN Beleg(beleg[r].art, s, beleg[r].brutto, beleg[r].bezug)
                        ELSE beleg[b]
<1>1. r \in Belege /\ q.betrag \in Nat
  BY AnfrageFelder DEF SchreibeGutschrift, In
<1>2. s \in Versandt \cup {beleg[r].status} /\ s \in Status
  <2>1. /\ beleg[r].brutto \in Int /\ gezahlt[r] \in Int /\ beleg[r].status \in Status
        /\ gutgeschrieben[r] + q.betrag \in Int
    BY <1>1, BelegFelder
  <2>2. s \in Versandt \cup {beleg[r].status}
    BY <2>1, RegelnTyp
  <2>3. QED
    BY <2>1, <2>2, StatusTyp
<1>3. PICK n \in FreieBelege : beleg' = [b \in Belege |-> Neu(n, b)]
  BY DEF SchreibeGutschrift
<1>4. beleg[n].status = "frei"
  BY DEF FreieBelege
<1> HIDE DEF s
<1>5. ASSUME NEW b \in Belege
      PROVE  beleg'[b] \in BelegTyp /\ (Fortgeschrieben(b) \/ Gegenbeleg(b))
  <2>1. beleg'[b] = Neu(n, b)
    BY <1>3
  <2>2. CASE b = n
    <3>1. beleg'[b] = Beleg("gutschrift", "versendet", -q.betrag, r)
      BY <2>1, <2>2
    <3>2. -q.betrag \in Int /\ -q.betrag <= 0 /\ "gutschrift" \in Belegart /\ "versendet" \in Status
      BY <1>1 DEF Belegart, Status
    <3>3. QED
      BY <1>1, <1>4, <2>2, <3>1, <3>2, BelegTypen DEF Gegenbeleg
  <2>3. CASE b # n /\ b = r
    <3>1. beleg'[b] = Beleg(beleg[b].art, s, beleg[b].brutto, beleg[b].bezug)
      BY <2>1, <2>3
    <3>2. QED
      BY <1>2, <2>3, <3>1, BelegFelder, BelegTypen DEF Fortgeschrieben
  <2>4. CASE b # n /\ b # r
    <3>1. beleg'[b] = beleg[b]
      BY <2>1, <2>4
    <3>2. QED
      BY <3>1 DEF TypInv, TypeOK, Fortgeschrieben
  <2>5. QED
    BY <2>2, <2>3, <2>4
<1> HIDE DEF Neu
<1>6. QED
  BY <1>3, <1>5 DEF Folge

LEMMA SchrittFolge ==
  ASSUME TypInv, [Next]_vars
  PROVE  Folge
<1>1. CASE UNCHANGED vars
  BY <1>1, FolgeUnveraendert DEF vars
<1>2. ASSUME NEW a \in Anfragen, Beginn(a) \/ Schritt(a) \/ Abbruch(a)
      PROVE  Folge
  <2>1. CASE \/ SchreibeVersand(a) \/ SchreibeZahlung(a) \/ SchreibeAbschluss(a)
             \/ SchreibeGegenbuchung(a) \/ SchreibeStorno(a) \/ SchreibeGutschrift(a)
    BY <2>1, FolgeVersand, FolgeZahlung, FolgeAbschluss, FolgeGegenbuchung, FolgeStorno, FolgeGutschrift
  <2>2. CASE ~(\/ SchreibeVersand(a) \/ SchreibeZahlung(a) \/ SchreibeAbschluss(a)
               \/ SchreibeGegenbuchung(a) \/ SchreibeStorno(a) \/ SchreibeGutschrift(a))
    <3>1. UNCHANGED beleg
      <4>1. \/ Beginn(a)
            \/ LiesKonto(a) \/ LiesNachGegenbuchung(a) \/ PruefeStorno(a) \/ SperreOriginal(a)
            \/ NimmNummerFuerGutschrift(a) \/ NimmNummerFuerStorno(a) \/ SchreibeLoeschen(a)
            \/ Ablehnen(a) \/ Verklemmt(a) \/ Abbruch(a)
        BY <1>2, <2>2 DEF Schritt
      <4>2. CASE Beginn(a)
        BY <4>2 DEF Beginn, LadeVersand, LadeLoeschen, LadeAbschluss, LadeStorno, LadeZahlung,
                    LadeGutschrift, LadeZahlungsstorno, Laden, daten
      <4>3. CASE ~Beginn(a)
        BY <4>1, <4>3 DEF LiesKonto, LiesNachGegenbuchung, PruefeStorno, SperreOriginal,
             NimmNummerFuerGutschrift, NimmNummerFuerStorno, SchreibeLoeschen, Ablehnen, Verklemmt,
             Abbruch, Weiter, daten
      <4>4. QED
        BY <4>2, <4>3
    <3>2. QED
      BY <3>1, FolgeUnveraendert
  <2>3. QED
    BY <2>1, <2>2
<1>3. ASSUME NEW b \in Belege, EntwurfStornieren(b) \/ Wiederherstellen(b)
      PROVE  Folge
  BY <1>3, FolgeUnveraendert DEF EntwurfStornieren, Wiederherstellen
<1>4. QED
  BY <1>1, <1>2, <1>3 DEF Next

-----------------------------------------------------------------------------
(***************************************************************************)
(* What one step does to the requests: one of them ends, begins on a       *)
(* document that allows it, or goes on, keeping document and amount.       *)
(***************************************************************************)

Begonnen(a) ==
  /\ anfrage'[a].phase = "geladen"
  /\ anfrage'[a].art = "gutschrift" =>
       beleg[anfrage'[a].beleg].art = "rechnung" /\ beleg[anfrage'[a].beleg].status \in Versandt
  /\ anfrage'[a].art = "loeschen" => beleg[anfrage'[a].beleg].status = "entwurf"

Fortgesetzt(a) ==
  /\ anfrage[a].phase # "frei"
  /\ anfrage'[a].art = anfrage[a].art
  /\ anfrage'[a].beleg = anfrage[a].beleg
  /\ anfrage'[a].betrag = anfrage[a].betrag
  /\ anfrage[a].art = "gutschrift" /\ anfrage'[a].phase \in {"gesperrt", "nummer"} =>
       \/ anfrage[a].phase \in {"gesperrt", "nummer"}
       \/ (Frei(a, anfrage[a].beleg) /\ anfrage[a].betrag <= Rest(anfrage[a].beleg))

Anfragefolge(a) ==
  /\ anfrage' \in [Anfragen -> AnfrageTyp]
  /\ \A c \in Anfragen \ {a} : anfrage'[c] = anfrage[c]
  /\ \/ anfrage'[a].phase = "frei"
     \/ /\ UNCHANGED daten
        /\ anfrage'[a].beleg \in Belege
        /\ anfrage'[a].art = "zahlungsstorno" => anfrage'[a].buchung \in Buchungen
        /\ Begonnen(a) \/ Fortgesetzt(a)

LEMMA FertigFolge ==
  ASSUME TypInv, NEW a \in Anfragen, Fertig(a)
  PROVE  Anfragefolge(a)
  BY KeineTyp DEF TypInv, TypeOK, Fertig, Anfragefolge

LEMMA LadenFolge ==
  ASSUME TypInv, NEW a \in Anfragen, NEW o \in Vorhaben, NEW b \in Belege, NEW n \in Nat,
         NEW z \in Buchungen \cup {Nichts}, Laden(a, o, b, n, z),
         o = "zahlungsstorno" => z \in Buchungen,
         o = "gutschrift" => beleg[b].art = "rechnung" /\ beleg[b].status \in Versandt,
         o = "loeschen" => beleg[b].status = "entwurf"
  PROVE  Anfragefolge(a)
<1> DEFINE q == Anfrage(o, "geladen", b, n, z, beleg[b].status, 0, 0)
<1>1. anfrage' = [anfrage EXCEPT ![a] = q] /\ UNCHANGED daten
  BY DEF Laden
<1>2. /\ q \in AnfrageTyp /\ q.phase = "geladen" /\ q.art = o /\ q.beleg = b /\ q.buchung = z
  BY BelegFelder, AnfrageTypen DEF Phase
<1> HIDE DEF q
<1>3. anfrage' \in [Anfragen -> AnfrageTyp] /\ anfrage'[a] = q /\ \A c \in Anfragen \ {a} : anfrage'[c] = anfrage[c]
  BY <1>1, <1>2 DEF TypInv, TypeOK
<1>4. QED
  BY <1>1, <1>2, <1>3 DEF Anfragefolge, Begonnen

LEMMA WeiterFolge ==
  ASSUME TypInv, NEW a \in Anfragen, anfrage[a].phase # "frei",
         NEW p \in Phase, NEW s \in Status, NEW sz \in Int, NEW sg \in Int, Weiter(a, p, s, sz, sg),
         anfrage[a].art = "gutschrift" /\ p \in {"gesperrt", "nummer"} =>
           \/ anfrage[a].phase \in {"gesperrt", "nummer"}
           \/ (Frei(a, anfrage[a].beleg) /\ anfrage[a].betrag <= Rest(anfrage[a].beleg))
  PROVE  Anfragefolge(a)
<1> DEFINE r == anfrage[a]
           q == Anfrage(r.art, p, r.beleg, r.betrag, r.buchung, s, sz, sg)
<1>1. anfrage' = [anfrage EXCEPT ![a] = q] /\ UNCHANGED daten
  BY DEF Weiter
<1>2. /\ q \in AnfrageTyp /\ q.phase = p /\ q.art = r.art /\ q.beleg = r.beleg
      /\ q.betrag = r.betrag /\ q.buchung = r.buchung
  BY DEF TypInv, TypeOK, AnfrageTyp, Anfrage
<1> HIDE DEF q
<1>3. anfrage' \in [Anfragen -> AnfrageTyp] /\ anfrage'[a] = q /\ \A c \in Anfragen \ {a} : anfrage'[c] = anfrage[c]
  BY <1>1, <1>2 DEF TypInv, TypeOK
<1>4. r.beleg \in Belege /\ (r.art = "zahlungsstorno" => r.buchung \in Buchungen)
  BY DEF TypInv, Bezuege
<1>5. QED
  BY <1>1, <1>2, <1>3, <1>4 DEF Anfragefolge, Fortgesetzt

LEMMA BeginnFolge ==
  ASSUME TypInv, NEW a \in Anfragen, Beginn(a)
  PROVE  Anfragefolge(a)
<1> USE LadenFolge DEF Vorhaben
<1>1. PICK b \in Belege :
        \/ LadeVersand(a, b) \/ LadeLoeschen(a, b) \/ LadeAbschluss(a, b) \/ LadeStorno(a, b)
        \/ \E n \in Betraege : LadeZahlung(a, b, n) \/ LadeGutschrift(a, b, n)
        \/ \E z \in Buchungen : LadeZahlungsstorno(a, b, z)
  BY DEF Beginn
<1>2. CASE LadeVersand(a, b)
  BY <1>2 DEF LadeVersand
<1>3. CASE LadeLoeschen(a, b)
  BY <1>3 DEF LadeLoeschen
<1>4. CASE LadeAbschluss(a, b)
  BY <1>4 DEF LadeAbschluss
<1>5. CASE LadeStorno(a, b)
  BY <1>5 DEF LadeStorno
<1>6. ASSUME NEW n \in Betraege, LadeZahlung(a, b, n) \/ LadeGutschrift(a, b, n)
      PROVE  Anfragefolge(a)
  <2>1. n \in Nat
    BY KonstantenAnnahme DEF Betraege
  <2>2. CASE LadeZahlung(a, b, n)
    BY <2>1, <2>2 DEF LadeZahlung
  <2>3. CASE LadeGutschrift(a, b, n)
    BY <2>1, <2>3 DEF LadeGutschrift
  <2>4. QED
    BY <1>6, <2>2, <2>3
<1>7. ASSUME NEW z \in Buchungen, LadeZahlungsstorno(a, b, z)
      PROVE  Anfragefolge(a)
  <2>1. zahlung[z].betrag \in Nat
    BY DEF TypInv, TypeOK, BuchungTyp
  <2>2. QED
    BY <1>7, <2>1 DEF LadeZahlungsstorno
<1>8. QED
  BY <1>1, <1>2, <1>3, <1>4, <1>5, <1>6, <1>7
LEMMA SchrittFolgeAnfrage ==
  ASSUME TypInv, NEW a \in Anfragen, Schritt(a)
  PROVE  Anfragefolge(a)
<1>1. CASE LiesKonto(a)
  <2>1. anfrage[a].phase # "frei" /\ anfrage[a].art # "gutschrift"
    BY <1>1 DEF LiesKonto, In
  <2>2. /\ anfrage[a].status \in Status /\ gezahlt[anfrage[a].beleg] \in Int
        /\ gutgeschrieben[anfrage[a].beleg] \in Int
    BY <2>1, AnfrageFelder, BelegFelder
  <2>3. Weiter(a, "geprueft", anfrage[a].status, gezahlt[anfrage[a].beleg], gutgeschrieben[anfrage[a].beleg])
    BY <1>1 DEF LiesKonto
  <2>4. QED
    BY <2>1, <2>2, <2>3, WeiterFolge DEF Phase
<1>2. CASE LiesNachGegenbuchung(a)
  <2>1. anfrage[a].phase # "frei" /\ anfrage[a].art # "gutschrift"
    BY <1>2 DEF LiesNachGegenbuchung, In
  <2>2. /\ anfrage[a].status \in Status /\ gezahlt[anfrage[a].beleg] - anfrage[a].betrag \in Int
        /\ gutgeschrieben[anfrage[a].beleg] \in Int
    BY <2>1, AnfrageFelder, BelegFelder
  <2>3. Weiter(a, "geprueft", anfrage[a].status, gezahlt[anfrage[a].beleg] - anfrage[a].betrag,
               gutgeschrieben[anfrage[a].beleg])
    BY <1>2 DEF LiesNachGegenbuchung
  <2>4. QED
    BY <2>1, <2>2, <2>3, WeiterFolge DEF Phase
<1>3. CASE PruefeStorno(a)
  <2>1. anfrage[a].phase # "frei" /\ anfrage[a].art # "gutschrift"
    BY <1>3 DEF PruefeStorno, In
  <2>2. anfrage[a].status \in Status /\ Weiter(a, "geprueft", anfrage[a].status, 0, 0)
    BY <1>3, AnfrageFelder DEF PruefeStorno
  <2>3. QED
    BY <2>1, <2>2, WeiterFolge DEF Phase
<1>4. CASE SperreOriginal(a)
  <2>1. /\ anfrage[a].phase # "frei"
        /\ Frei(a, anfrage[a].beleg) /\ anfrage[a].betrag <= Rest(anfrage[a].beleg)
    BY <1>4 DEF SperreOriginal, In
  <2>2. anfrage[a].status \in Status /\ Weiter(a, "gesperrt", anfrage[a].status, 0, 0)
    BY <1>4, AnfrageFelder DEF SperreOriginal
  <2>3. QED
    BY <2>1, <2>2, WeiterFolge DEF Phase
<1>5. CASE NimmNummerFuerGutschrift(a)
  <2>1. anfrage[a].phase = "gesperrt"
    BY <1>5 DEF NimmNummerFuerGutschrift, In
  <2>2. anfrage[a].status \in Status /\ Weiter(a, "nummer", anfrage[a].status, 0, 0)
    BY <1>5, AnfrageFelder DEF NimmNummerFuerGutschrift
  <2>3. QED
    BY <2>1, <2>2, WeiterFolge DEF Phase
<1>6. CASE NimmNummerFuerStorno(a)
  <2> DEFINE g == anfrage[a].beleg
             r == beleg[g].bezug
  <2>1. anfrage[a].phase # "frei" /\ anfrage[a].art # "gutschrift" /\ g \in Belege
    BY <1>6, AnfrageFelder DEF NimmNummerFuerStorno, In
  <2>2. CASE beleg[g].art = "gutschrift"
    <3> DEFINE n == gutgeschrieben[r] + (IF Zaehlt(g) THEN beleg[g].brutto ELSE 0)
    <3>1. Weiter(a, "nummer", beleg[r].status, gezahlt[r], n)
      BY <1>6, <2>2 DEF NimmNummerFuerStorno
    <3>2. r \in Belege
      BY <2>1, <2>2, BelegFelder
    <3>3. beleg[r].status \in Status /\ gezahlt[r] \in Int /\ n \in Int
      BY <2>1, <3>2, BelegFelder
    <3> HIDE DEF n
    <3>4. QED
      BY <2>1, <3>1, <3>3, WeiterFolge DEF Phase
  <2>3. CASE beleg[g].art # "gutschrift"
    <3>1. anfrage[a].status \in Status /\ Weiter(a, "nummer", anfrage[a].status, 0, 0)
      BY <1>6, <2>3, AnfrageFelder DEF NimmNummerFuerStorno
    <3>2. QED
      BY <2>1, <3>1, WeiterFolge DEF Phase
  <2>4. QED
    BY <2>2, <2>3
<1>7. CASE Fertig(a)
  BY <1>7, FertigFolge
<1>8. QED
  <2>1. SchreibeVersand(a) \/ SchreibeLoeschen(a) \/ SchreibeZahlung(a) => Fertig(a)
    BY DEF SchreibeVersand, SchreibeLoeschen, SchreibeZahlung
  <2>2. SchreibeAbschluss(a) \/ SchreibeGegenbuchung(a) \/ SchreibeStorno(a) => Fertig(a)
    BY DEF SchreibeAbschluss, SchreibeGegenbuchung, SchreibeStorno
  <2>3. SchreibeGutschrift(a) \/ Ablehnen(a) \/ Verklemmt(a) => Fertig(a)
    BY DEF SchreibeGutschrift, Ablehnen, Verklemmt
  <2>4. QED
    BY <1>1, <1>2, <1>3, <1>4, <1>5, <1>6, <1>7, <2>1, <2>2, <2>3 DEF Schritt

LEMMA SchrittAnfrage ==
  ASSUME TypInv, [Next]_vars
  PROVE  UNCHANGED anfrage \/ \E a \in Anfragen : Anfragefolge(a)
<1>1. CASE UNCHANGED vars
  BY <1>1 DEF vars
<1>2. ASSUME NEW a \in Anfragen, Beginn(a) \/ Schritt(a) \/ Abbruch(a)
      PROVE  Anfragefolge(a)
  <2>1. Abbruch(a) => Fertig(a)
    BY DEF Abbruch
  <2>2. QED
    BY <1>2, <2>1, BeginnFolge, SchrittFolgeAnfrage, FertigFolge
<1>3. ASSUME NEW b \in Belege, EntwurfStornieren(b) \/ Wiederherstellen(b)
      PROVE  UNCHANGED anfrage
  BY <1>3 DEF EntwurfStornieren, Wiederherstellen
<1>4. QED
  BY <1>1, <1>2, <1>3 DEF Next

-----------------------------------------------------------------------------
(***************************************************************************)
(* The ledger and the rest of the data.                                    *)
(***************************************************************************)

KontenTyp ==
  /\ papierkorb \in SUBSET Belege
  /\ zahlung \in [Buchungen -> BuchungTyp]
  /\ gezahlt \in [Belege -> Int]
  /\ gutgeschrieben \in [Belege -> Int]
  /\ vorgang \in BOOLEAN
  /\ gemeldet \in [Belege -> Status]

LEMMA KontenAlt ==
  ASSUME TypInv
  PROVE  KontenTyp
  BY DEF TypInv, TypeOK, KontenTyp

LEMMA BucheEinTyp ==
  ASSUME TypInv, NEW b \in Belege, NEW n \in Nat, BucheEin(b, n)
  PROVE  zahlung' \in [Buchungen -> BuchungTyp] /\ gezahlt' \in [Belege -> Int]
<1>1. PICK z \in FreieBuchungen : zahlung' = [zahlung EXCEPT ![z] = Buchung(b, n, 0)]
  BY DEF BucheEin
<1>2. Buchung(b, n, 0) \in BuchungTyp
  BY BuchungTypen
<1>3. zahlung' \in [Buchungen -> BuchungTyp]
  BY <1>1, <1>2 DEF TypInv, TypeOK, FreieBuchungen
<1>4. gezahlt' \in [Belege -> Int]
  BY DEF BucheEin, TypInv, TypeOK
<1>5. QED
  BY <1>3, <1>4

LEMMA KontenSchritt ==
  ASSUME TypInv, NEW a \in Anfragen, Schritt(a)
  PROVE  KontenTyp'
<1> USE KontenAlt
<1>1. CASE SchreibeVersand(a)
  <2>1. anfrage[a].beleg \in Belege
    BY <1>1, AnfrageFelder DEF SchreibeVersand, In
  <2>2. QED
    BY <1>1, <2>1 DEF SchreibeVersand, KontenTyp, Status
<1>2. CASE SchreibeLoeschen(a)
  <2>1. anfrage[a].beleg \in Belege
    BY <1>2, AnfrageFelder DEF SchreibeLoeschen, In
  <2>2. QED
    BY <1>2, <2>1 DEF SchreibeLoeschen, KontenTyp
<1>3. CASE SchreibeZahlung(a)
  <2>1. anfrage[a].beleg \in Belege /\ anfrage[a].betrag \in Nat
    BY <1>3, AnfrageFelder DEF SchreibeZahlung, In
  <2>2. BucheEin(anfrage[a].beleg, anfrage[a].betrag)
    BY <1>3 DEF SchreibeZahlung
  <2>3. zahlung' \in [Buchungen -> BuchungTyp] /\ gezahlt' \in [Belege -> Int]
    BY <2>1, <2>2, BucheEinTyp
  <2>4. vorgang' \in BOOLEAN
    BY <1>3 DEF SchreibeZahlung, KontenTyp
  <2>5. QED
    BY <1>3, <2>3, <2>4 DEF SchreibeZahlung, KontenTyp
<1>4. CASE SchreibeAbschluss(a)
  <2> DEFINE q == anfrage[a]
             n == Offen(beleg[q.beleg].brutto, q.gezahlt, q.gut)
  <2>1. q.beleg \in Belege /\ q.gezahlt \in Int /\ q.gut \in Int
    BY <1>4, AnfrageFelder DEF SchreibeAbschluss, In
  <2>2. beleg[q.beleg].brutto \in Int
    BY <2>1, BelegFelder
  <2>3. n \in Nat
    BY <2>1, <2>2, RegelnTyp DEF Status
  <2>4. IF n > 0 THEN BucheEin(q.beleg, n) ELSE UNCHANGED <<zahlung, gezahlt>>
    BY <1>4 DEF SchreibeAbschluss
  <2> HIDE DEF n
  <2>5. zahlung' \in [Buchungen -> BuchungTyp] /\ gezahlt' \in [Belege -> Int]
    BY <2>1, <2>3, <2>4, BucheEinTyp DEF KontenTyp
  <2>6. QED
    BY <1>4, <2>1, <2>5 DEF SchreibeAbschluss, KontenTyp, Status
<1>5. CASE SchreibeGegenbuchung(a)
  <2>1. anfrage[a].beleg \in Belege /\ anfrage[a].betrag \in Nat
    BY <1>5, AnfrageFelder DEF SchreibeGegenbuchung, In
  <2>2. anfrage[a].buchung \in Buchungen
    BY <1>5 DEF SchreibeGegenbuchung, In, TypInv, Bezuege
  <2>3. zahlung' \in [Buchungen -> BuchungTyp]
    <3>1. zahlung' = [zahlung EXCEPT ![anfrage[a].buchung].gegen = @ + 1]
      BY <1>5 DEF SchreibeGegenbuchung
    <3>2. QED
      BY <2>2, <3>1 DEF KontenTyp, BuchungTyp
  <2>4. gezahlt' \in [Belege -> Int]
    BY <1>5, <2>1 DEF SchreibeGegenbuchung, KontenTyp
  <2>5. QED
    BY <1>5, <2>3, <2>4 DEF SchreibeGegenbuchung, KontenTyp
<1>6. CASE SchreibeStorno(a)
  <2>1. anfrage[a].beleg \in Belege
    BY <1>6, AnfrageFelder DEF SchreibeStorno, In
  <2>2. beleg[anfrage[a].beleg].brutto \in Int
    BY <2>1, BelegFelder
  <2>3. gutgeschrieben' \in [Belege -> Int]
    <3>1. CASE Zaehlt(anfrage[a].beleg)
      <4> DEFINE r == beleg[anfrage[a].beleg].bezug
      <4>1. r \in Belege
        BY <2>1, <3>1, BelegFelder DEF Zaehlt
      <4>2. gutgeschrieben' = [gutgeschrieben EXCEPT ![r] = gutgeschrieben[r] + beleg[anfrage[a].beleg].brutto]
        BY <1>6, <3>1 DEF SchreibeStorno
      <4> HIDE DEF r
      <4>3. QED
        BY <2>2, <4>1, <4>2 DEF KontenTyp
    <3>2. CASE ~Zaehlt(anfrage[a].beleg)
      BY <1>6, <3>2 DEF SchreibeStorno, KontenTyp
    <3>3. QED
      BY <3>1, <3>2
  <2>4. QED
    BY <1>6, <2>3 DEF SchreibeStorno, KontenTyp
<1>7. CASE SchreibeGutschrift(a)
  <2>1. anfrage[a].beleg \in Belege /\ anfrage[a].betrag \in Nat
    BY <1>7, AnfrageFelder DEF SchreibeGutschrift, In
  <2>2. gutgeschrieben' = [gutgeschrieben EXCEPT ![anfrage[a].beleg] =
                             gutgeschrieben[anfrage[a].beleg] + anfrage[a].betrag]
    BY <1>7 DEF SchreibeGutschrift
  <2>3. gutgeschrieben' \in [Belege -> Int]
    BY <2>1, <2>2 DEF KontenTyp
  <2>4. vorgang' \in BOOLEAN
    BY <1>7 DEF SchreibeGutschrift, KontenTyp, RechnetVorgangAb
  <2>5. QED
    BY <1>7, <2>3, <2>4 DEF SchreibeGutschrift, KontenTyp
<1>8. CASE UNCHANGED daten
  BY <1>8 DEF daten, KontenTyp
<1>9. QED
  <2>1. (\/ LiesKonto(a) \/ LiesNachGegenbuchung(a) \/ PruefeStorno(a) \/ SperreOriginal(a)
         \/ NimmNummerFuerGutschrift(a) \/ Ablehnen(a) \/ Verklemmt(a)) => UNCHANGED daten
    BY DEF LiesKonto, LiesNachGegenbuchung, PruefeStorno, SperreOriginal, NimmNummerFuerGutschrift,
           Ablehnen, Verklemmt, Weiter
  <2>2. NimmNummerFuerStorno(a) => UNCHANGED daten
    BY DEF NimmNummerFuerStorno, Weiter
  <2>3. QED
    BY <1>1, <1>2, <1>3, <1>4, <1>5, <1>6, <1>7, <1>8, <2>1, <2>2 DEF Schritt

LEMMA KontenNext ==
  ASSUME TypInv, [Next]_vars
  PROVE  KontenTyp'
<1> USE KontenAlt
<1>1. CASE UNCHANGED vars
  BY <1>1 DEF vars, KontenTyp
<1>2. ASSUME NEW a \in Anfragen, Beginn(a) \/ Schritt(a) \/ Abbruch(a)
      PROVE  KontenTyp'
  <2>1. Beginn(a) \/ Abbruch(a) => UNCHANGED daten
    BY DEF Beginn, LadeVersand, LadeLoeschen, LadeAbschluss, LadeStorno, LadeZahlung, LadeGutschrift,
           LadeZahlungsstorno, Laden, Abbruch
  <2>2. UNCHANGED daten => KontenTyp'
    BY DEF daten, KontenTyp
  <2>3. QED
    BY <1>2, <2>1, <2>2, KontenSchritt
<1>3. ASSUME NEW b \in Belege, EntwurfStornieren(b)
      PROVE  KontenTyp'
  BY <1>3 DEF EntwurfStornieren, KontenTyp, Status
<1>4. ASSUME NEW b \in Belege, Wiederherstellen(b)
      PROVE  KontenTyp'
  <2>1. beleg[b].brutto \in Int
    BY BelegFelder
  <2>2. gutgeschrieben' \in [Belege -> Int]
    <3>1. CASE beleg[b].art = "gutschrift" /\ beleg[b].status # "storniert"
      <4> DEFINE r == beleg[b].bezug
      <4>1. r \in Belege
        BY <3>1, BelegFelder
      <4>2. gutgeschrieben' = [gutgeschrieben EXCEPT ![r] = gutgeschrieben[r] - beleg[b].brutto]
        BY <1>4, <3>1 DEF Wiederherstellen
      <4> HIDE DEF r
      <4>3. QED
        BY <2>1, <4>1, <4>2 DEF KontenTyp
    <3>2. CASE ~(beleg[b].art = "gutschrift" /\ beleg[b].status # "storniert")
      BY <1>4, <3>2 DEF Wiederherstellen, KontenTyp
    <3>3. QED
      BY <3>1, <3>2
  <2>3. papierkorb' \in SUBSET Belege
    BY <1>4 DEF Wiederherstellen, KontenTyp
  <2>4. QED
    BY <1>4, <2>2, <2>3 DEF Wiederherstellen, KontenTyp
<1>5. QED
  BY <1>1, <1>2, <1>3, <1>4 DEF Next

LEMMA SchrittTyp ==
  ASSUME TypInv, [Next]_vars
  PROVE  TypInv'
<1>1. Folge /\ KontenTyp'
  BY SchrittFolge, KontenNext
<1>2. anfrage' \in [Anfragen -> AnfrageTyp]
  BY SchrittAnfrage DEF TypInv, TypeOK, Anfragefolge
<1>3. TypeOK'
  BY <1>1, <1>2 DEF TypeOK, Folge, KontenTyp
<1>4. ASSUME NEW c \in Anfragen, anfrage'[c].phase # "frei"
      PROVE  /\ anfrage'[c].beleg \in Belege
             /\ anfrage'[c].art = "zahlungsstorno" => anfrage'[c].buchung \in Buchungen
  BY <1>4, SchrittAnfrage DEF TypInv, Bezuege, Anfragefolge
<1>5. ASSUME NEW b \in Belege, beleg'[b].art = "gutschrift"
      PROVE  beleg'[b].bezug \in Belege
  BY <1>1, <1>5 DEF TypInv, Bezuege, Folge, Fortgeschrieben, Gegenbeleg
<1>6. QED
  BY <1>3, <1>4, <1>5 DEF TypInv, Bezuege

(***************************************************************************)
(* TypeOK for every number of documents, payments and requests; whatever a *)
(* running request or a credit note refers to exists.                      *)
(***************************************************************************)
THEOREM PostenTyp == Spec => []TypInv
  BY InitTyp, SchrittTyp, PTL DEF Spec
(***************************************************************************)
(* No document that was shipped loses its amount, kind or reference, and   *)
(* no payment disappears (BelegeBleiben), whatever requests overlap.       *)
(***************************************************************************)
LEMMA BelegGleich ==
  ASSUME NEW x \in BelegTyp, NEW y \in BelegTyp,
         x.art = y.art, x.brutto = y.brutto, x.bezug = y.bezug
  PROVE  [y EXCEPT !.status = x.status] = x
  BY DEF BelegTyp

LEMMA BelegBleibt ==
  ASSUME TypInv, [Next]_vars, NEW b \in Belege, beleg[b].status \notin {"frei", "entwurf"}
  PROVE  /\ beleg'[b].status \notin {"frei", "entwurf"}
         /\ [beleg'[b] EXCEPT !.status = beleg[b].status] = beleg[b]
<1>1. Folge
  BY SchrittFolge
<1>2. Fortgeschrieben(b)
  BY <1>1 DEF Folge, Gegenbeleg
<1>3. beleg'[b].status \notin {"frei", "entwurf"}
  BY <1>2 DEF Fortgeschrieben, Versandt
<1>4. beleg[b] \in BelegTyp /\ beleg'[b] \in BelegTyp
  BY <1>1 DEF TypInv, TypeOK, Folge
<1>5. QED
  BY <1>2, <1>3, <1>4, BelegGleich DEF Fortgeschrieben

ZahlungBleibt(z) ==
  /\ zahlung'[z].beleg = zahlung[z].beleg
  /\ zahlung'[z].betrag = zahlung[z].betrag
  /\ zahlung'[z].gegen >= zahlung[z].gegen

LEMMA BucheEinBleibt ==
  ASSUME TypInv, NEW b, NEW n, BucheEin(b, n),
         NEW z \in Buchungen, zahlung[z].beleg # Nichts
  PROVE  ZahlungBleibt(z)
<1>1. PICK y \in FreieBuchungen : zahlung' = [zahlung EXCEPT ![y] = Buchung(b, n, 0)]
  BY DEF BucheEin
<1>2. y # z
  BY DEF FreieBuchungen
<1>3. zahlung'[z] = zahlung[z] /\ zahlung[z].gegen \in Nat
  BY <1>1, <1>2 DEF TypInv, TypeOK, BuchungTyp
<1>4. QED
  BY <1>3 DEF ZahlungBleibt

LEMMA ZahlungenBleiben ==
  ASSUME TypInv, [Next]_vars, NEW z \in Buchungen, zahlung[z].beleg # Nichts
  PROVE  ZahlungBleibt(z)
<1>1. ASSUME UNCHANGED zahlung
      PROVE  ZahlungBleibt(z)
  BY <1>1 DEF TypInv, TypeOK, BuchungTyp, ZahlungBleibt
<1>2. ASSUME NEW a \in Anfragen, Schritt(a)
      PROVE  ZahlungBleibt(z)
  <2>1. CASE SchreibeZahlung(a)
    BY <2>1, BucheEinBleibt DEF SchreibeZahlung
  <2>2. CASE SchreibeAbschluss(a)
    <3> DEFINE n == Offen(beleg[anfrage[a].beleg].brutto, anfrage[a].gezahlt, anfrage[a].gut)
    <3>1. IF n > 0 THEN BucheEin(anfrage[a].beleg, n) ELSE UNCHANGED <<zahlung, gezahlt>>
      BY <2>2 DEF SchreibeAbschluss
    <3> HIDE DEF n
    <3>2. QED
      BY <1>1, <3>1, BucheEinBleibt
  <2>3. CASE SchreibeGegenbuchung(a)
    <3>1. zahlung' = [zahlung EXCEPT ![anfrage[a].buchung].gegen = @ + 1]
      BY <2>3 DEF SchreibeGegenbuchung
    <3>2. anfrage[a].buchung \in Buchungen
      BY <2>3 DEF SchreibeGegenbuchung, In, TypInv, Bezuege
    <3>3. QED
      BY <3>1, <3>2 DEF TypInv, TypeOK, BuchungTyp, ZahlungBleibt
  <2>4. CASE ~(SchreibeZahlung(a) \/ SchreibeAbschluss(a) \/ SchreibeGegenbuchung(a))
    <3>1. UNCHANGED zahlung
      BY <1>2, <2>4 DEF Schritt, LiesKonto, LiesNachGegenbuchung, PruefeStorno, SperreOriginal,
           NimmNummerFuerGutschrift, NimmNummerFuerStorno, SchreibeVersand, SchreibeLoeschen,
           SchreibeStorno, SchreibeGutschrift, Ablehnen, Verklemmt, Weiter, daten
    <3>2. QED
      BY <1>1, <3>1
  <2>5. QED
    BY <2>1, <2>2, <2>3, <2>4
<1>3. ASSUME NEW a \in Anfragen, Beginn(a) \/ Abbruch(a)
      PROVE  UNCHANGED zahlung
  BY <1>3 DEF Beginn, LadeVersand, LadeLoeschen, LadeAbschluss, LadeStorno, LadeZahlung, LadeGutschrift,
              LadeZahlungsstorno, Laden, Abbruch, daten
<1>4. ASSUME NEW b \in Belege, EntwurfStornieren(b) \/ Wiederherstellen(b)
      PROVE  UNCHANGED zahlung
  BY <1>4 DEF EntwurfStornieren, Wiederherstellen
<1>5. UNCHANGED vars => UNCHANGED zahlung
  BY DEF vars
<1>6. QED
  BY <1>1, <1>2, <1>3, <1>4, <1>5 DEF Next

THEOREM BuecherBleiben == Spec => BelegeBleiben
<1>1. TypInv /\ [Next]_vars
      => [/\ \A b \in Belege : beleg[b].status \notin {"frei", "entwurf"} =>
               /\ beleg'[b].status \notin {"frei", "entwurf"}
               /\ [beleg'[b] EXCEPT !.status = beleg[b].status] = beleg[b]
          /\ \A z \in Buchungen : zahlung[z].beleg # Nichts =>
               /\ zahlung'[z].beleg = zahlung[z].beleg
               /\ zahlung'[z].betrag = zahlung[z].betrag
               /\ zahlung'[z].gegen >= zahlung[z].gegen]_vars
  BY BelegBleibt, ZahlungenBleiben DEF ZahlungBleibt
<1>2. QED
  BY <1>1, PostenTyp, PTL DEF Spec, BelegeBleiben
-----------------------------------------------------------------------------
(***************************************************************************)
(* Credit notes never exceed their invoice.  The property is not inductive *)
(* by itself: a request that holds the row has reserved its amount, two    *)
(* requests never hold the same row, and only draft invoices reach the bin *)
(* without the job being deleted.                                          *)
(***************************************************************************)

Ausschluss ==
  \A a, c \in Anfragen, b \in Belege : HaeltZeile(a, b) /\ HaeltZeile(c, b) => a = c

Vorgemerkt ==
  \A a \in Anfragen : anfrage[a].phase # "frei" /\ anfrage[a].art \in {"gutschrift", "loeschen"} =>
    beleg[anfrage[a].beleg].art = "rechnung" /\ beleg[anfrage[a].beleg].status # "frei"

Reserviert ==
  \A a \in Anfragen, b \in Belege : HaeltZeile(a, b) => anfrage[a].betrag <= Rest(b)

ArtPasst ==
  /\ \A b \in Belege : beleg[b].art = "gutschrift" => beleg[b].brutto <= 0
  /\ \A b \in Belege : beleg[b].status \in {"frei", "entwurf"} => beleg[b].art = "rechnung"
  /\ \A b \in papierkorb : beleg[b].art = "rechnung" /\ beleg[b].status # "frei"

IInv ==
  /\ TypInv
  /\ Ausschluss
  /\ Vorgemerkt
  /\ Reserviert
  /\ ArtPasst
  /\ GutschriftNieUeberRechnung

LEMMA InitGut == Init => IInv
<1> SUFFICES ASSUME Init PROVE IInv
  OBVIOUS
<1>1. TypInv
  BY InitTyp
<1>2. \A a \in Anfragen : anfrage[a].phase = "frei"
  BY KeineTyp DEF Init
<1>3. \A b \in Belege : beleg[b].art = "rechnung" /\ beleg[b].brutto >= 0
  <2>1. ASSUME NEW b \in Rechnungen PROVE beleg[b].art = "rechnung" /\ beleg[b].brutto = Betrag[b]
    BY <2>1, KonstantenAnnahme DEF Init, Beleg
  <2>2. ASSUME NEW b \in Belege \ Rechnungen PROVE beleg[b].art = "rechnung" /\ beleg[b].brutto = 0
    BY <2>2 DEF Init, Beleg
  <2>3. QED
    BY <2>1, <2>2, KonstantenAnnahme
<1>4. papierkorb = {} /\ \A b \in Belege : gutgeschrieben[b] = 0
  BY DEF Init
<1>5. Ausschluss /\ Vorgemerkt /\ Reserviert
  BY <1>2 DEF Ausschluss, Vorgemerkt, Reserviert, HaeltZeile
<1>6. ArtPasst /\ GutschriftNieUeberRechnung
  BY <1>3, <1>4, BelegFelder, <1>1 DEF ArtPasst, GutschriftNieUeberRechnung
<1>7. QED
  BY <1>1, <1>5, <1>6 DEF IInv

\* A document in use keeps its kind and its amount.
LEMMA Bleibt ==
  ASSUME IInv, [Next]_vars, NEW b \in Belege, beleg[b].status # "frei"
  PROVE  /\ beleg'[b].art = beleg[b].art
         /\ beleg'[b].brutto = beleg[b].brutto
         /\ beleg'[b].status # "frei"
<1>1. Fortgeschrieben(b)
  BY SchrittFolge DEF IInv, Folge, Gegenbeleg
<1>2. QED
  BY <1>1 DEF Fortgeschrieben, Versandt

LEMMA ArtPasstSchritt ==
  ASSUME IInv, [Next]_vars,
         \A b \in papierkorb' : b \in papierkorb \/ (beleg[b].art = "rechnung" /\ beleg[b].status # "frei"),
         papierkorb' \subseteq Belege
  PROVE  ArtPasst'
<1>1. Folge
  BY SchrittFolge DEF IInv
<1>2. ASSUME NEW b \in Belege, beleg'[b].art = "gutschrift"
      PROVE  beleg'[b].brutto <= 0
  BY <1>1, <1>2 DEF Folge, Fortgeschrieben, Gegenbeleg, IInv, ArtPasst
<1>3. ASSUME NEW b \in Belege, beleg'[b].status \in {"frei", "entwurf"}
      PROVE  beleg'[b].art = "rechnung"
  BY <1>1, <1>3 DEF Folge, Fortgeschrieben, Gegenbeleg, Versandt, IInv, ArtPasst
<1>4. ASSUME NEW b \in papierkorb'
      PROVE  beleg'[b].art = "rechnung" /\ beleg'[b].status # "frei"
  BY Bleibt DEF IInv, ArtPasst
<1>5. QED
  BY <1>2, <1>3, <1>4 DEF ArtPasst

\* Only draft invoices enter the bin.
LEMMA PapierkorbSchritt ==
  ASSUME IInv, [Next]_vars
  PROVE  \A b \in papierkorb' : b \in papierkorb \/ (beleg[b].art = "rechnung" /\ beleg[b].status # "frei")
<1>1. ASSUME NEW a \in Anfragen, SchreibeLoeschen(a)
      PROVE  \A b \in papierkorb' : b \in papierkorb \/ (beleg[b].art = "rechnung" /\ beleg[b].status # "frei")
  BY <1>1 DEF SchreibeLoeschen, In, IInv, Vorgemerkt
<1>2. ASSUME NEW a \in Anfragen, Schritt(a), ~SchreibeLoeschen(a)
      PROVE  UNCHANGED papierkorb
  BY <1>2 DEF Schritt, LiesKonto, LiesNachGegenbuchung, PruefeStorno, SperreOriginal,
       NimmNummerFuerGutschrift, NimmNummerFuerStorno, SchreibeVersand, SchreibeZahlung, SchreibeAbschluss,
       SchreibeGegenbuchung, SchreibeStorno, SchreibeGutschrift, Ablehnen, Verklemmt, Weiter, daten
<1>3. ASSUME NEW a \in Anfragen, Beginn(a) \/ Abbruch(a)
      PROVE  UNCHANGED papierkorb
  BY <1>3 DEF Beginn, LadeVersand, LadeLoeschen, LadeAbschluss, LadeStorno, LadeZahlung, LadeGutschrift,
              LadeZahlungsstorno, Laden, Abbruch, daten
<1>4. ASSUME NEW b \in Belege, EntwurfStornieren(b) \/ Wiederherstellen(b)
      PROVE  papierkorb' \subseteq papierkorb
  BY <1>4 DEF EntwurfStornieren, Wiederherstellen
<1>5. UNCHANGED vars => UNCHANGED papierkorb
  BY DEF vars
<1>6. QED
  BY <1>1, <1>2, <1>3, <1>4, <1>5 DEF Next

(***************************************************************************)
(* The credited amount of a document grows only when a request commits     *)
(* that holds its row.                                                     *)
(***************************************************************************)
Gutfolge(b) ==
  \/ gutgeschrieben'[b] <= gutgeschrieben[b]
  \/ \E a \in Anfragen :
       HaeltZeile(a, b) /\ Fertig(a) /\ gutgeschrieben'[b] = gutgeschrieben[b] + anfrage[a].betrag

LEMMA GutStorno ==
  ASSUME IInv, NEW a \in Anfragen, SchreibeStorno(a), NEW b \in Belege
  PROVE  gutgeschrieben'[b] <= gutgeschrieben[b]
<1> DEFINE g == anfrage[a].beleg
<1> TypInv
  BY DEF IInv
<1>1. g \in Belege /\ gutgeschrieben[b] \in Int /\ beleg[g].brutto \in Int
  BY AnfrageFelder, BelegFelder DEF SchreibeStorno, In
<1>2. CASE Zaehlt(g)
  <2>1. gutgeschrieben' = [gutgeschrieben EXCEPT ![beleg[g].bezug] = gutgeschrieben[beleg[g].bezug] + beleg[g].brutto]
    BY <1>2 DEF SchreibeStorno
  <2>2. beleg[g].brutto <= 0
    BY <1>1, <1>2 DEF Zaehlt, IInv, ArtPasst
  <2>3. gutgeschrieben \in [Belege -> Int]
    BY DEF TypInv, TypeOK
  <2> HIDE DEF g
  <2>4. QED
    BY <1>1, <2>1, <2>2, <2>3
<1>3. CASE ~Zaehlt(g)
  BY <1>1, <1>3 DEF SchreibeStorno
<1>4. QED
  BY <1>2, <1>3

LEMMA GutGutschrift ==
  ASSUME IInv, NEW a \in Anfragen, SchreibeGutschrift(a), NEW b \in Belege
  PROVE  Gutfolge(b)
<1> TypInv
  BY DEF IInv
<1>1. gutgeschrieben' = [gutgeschrieben EXCEPT ![anfrage[a].beleg] =
                           gutgeschrieben[anfrage[a].beleg] + anfrage[a].betrag]
  BY DEF SchreibeGutschrift
<1>2. gutgeschrieben \in [Belege -> Int]
  BY DEF TypInv, TypeOK
<1>3. CASE b = anfrage[a].beleg
  <2>1. HaeltZeile(a, b) /\ Fertig(a)
    BY <1>3 DEF SchreibeGutschrift, In, HaeltZeile
  <2>2. gutgeschrieben'[b] = gutgeschrieben[b] + anfrage[a].betrag
    BY <1>1, <1>2, <1>3
  <2>3. QED
    BY <2>1, <2>2 DEF Gutfolge
<1>4. CASE b # anfrage[a].beleg
  BY <1>1, <1>2, <1>4 DEF Gutfolge
<1>5. QED
  BY <1>3, <1>4

LEMMA GutSchritt ==
  ASSUME IInv, [Next]_vars, NEW b \in Belege
  PROVE  Gutfolge(b)
<1> gutgeschrieben[b] \in Int
  BY BelegFelder DEF IInv
<1>1. UNCHANGED gutgeschrieben => Gutfolge(b)
  BY DEF Gutfolge
<1>2. ASSUME NEW a \in Anfragen, Schritt(a)
      PROVE  Gutfolge(b)
  <2>1. CASE SchreibeStorno(a)
    BY <2>1, GutStorno DEF Gutfolge
  <2>2. CASE SchreibeGutschrift(a)
    BY <2>2, GutGutschrift
  <2>3. CASE ~(SchreibeStorno(a) \/ SchreibeGutschrift(a))
    <3>1. UNCHANGED gutgeschrieben
      BY <1>2, <2>3 DEF Schritt, LiesKonto, LiesNachGegenbuchung, PruefeStorno, SperreOriginal,
           NimmNummerFuerGutschrift, NimmNummerFuerStorno, SchreibeVersand, SchreibeLoeschen,
           SchreibeZahlung, SchreibeAbschluss, SchreibeGegenbuchung, Ablehnen, Verklemmt, Weiter, daten
    <3>2. QED
      BY <1>1, <3>1
  <2>4. QED
    BY <2>1, <2>2, <2>3
<1>3. ASSUME NEW a \in Anfragen, Beginn(a) \/ Abbruch(a)
      PROVE  UNCHANGED gutgeschrieben
  BY <1>3 DEF Beginn, LadeVersand, LadeLoeschen, LadeAbschluss, LadeStorno, LadeZahlung, LadeGutschrift,
              LadeZahlungsstorno, Laden, Abbruch, daten
<1>4. ASSUME NEW c \in Belege, EntwurfStornieren(c)
      PROVE  UNCHANGED gutgeschrieben
  BY <1>4 DEF EntwurfStornieren
<1>5. ASSUME NEW c \in Belege, Wiederherstellen(c)
      PROVE  UNCHANGED gutgeschrieben
  BY <1>5 DEF Wiederherstellen, IInv, ArtPasst
<1>6. UNCHANGED vars => UNCHANGED gutgeschrieben
  BY DEF vars
<1>7. QED
  BY <1>1, <1>2, <1>3, <1>4, <1>5, <1>6 DEF Next

\* A request that holds the row afterwards held it before, or has just
\* locked it and found its amount there.
LEMMA NeuGesperrt ==
  ASSUME IInv, NEW a \in Anfragen, Anfragefolge(a), NEW b \in Belege, HaeltZeile(a, b)'
  PROVE  /\ UNCHANGED daten
         /\ anfrage'[a].betrag = anfrage[a].betrag
         /\ HaeltZeile(a, b) \/ (Frei(a, b) /\ anfrage[a].betrag <= Rest(b))
  BY DEF Anfragefolge, Begonnen, Fortgesetzt, HaeltZeile

LEMMA AusschlussSchritt ==
  ASSUME IInv, [Next]_vars
  PROVE  Ausschluss'
<1> TypInv
  BY DEF IInv
<1> SUFFICES ASSUME NEW a \in Anfragen, NEW c \in Anfragen, NEW b \in Belege,
                    HaeltZeile(a, b)', HaeltZeile(c, b)', a # c
             PROVE  FALSE
  BY DEF Ausschluss
<1>1. CASE UNCHANGED anfrage
  BY <1>1 DEF HaeltZeile, IInv, Ausschluss
<1>2. ASSUME NEW d \in Anfragen, Anfragefolge(d)
      PROVE  FALSE
  <2>1. \A e \in Anfragen \ {d} : HaeltZeile(e, b)' => HaeltZeile(e, b)
    BY <1>2 DEF Anfragefolge, HaeltZeile
  <2>2. HaeltZeile(d, b)' => HaeltZeile(d, b) \/ Frei(d, b)
    BY <1>2, NeuGesperrt
  <2>3. QED
    BY <2>1, <2>2 DEF Frei, IInv, Ausschluss
<1>3. QED
  BY <1>1, <1>2, SchrittAnfrage

LEMMA VorgemerktSchritt ==
  ASSUME IInv, [Next]_vars
  PROVE  Vorgemerkt'
<1> TypInv /\ TypInv'
  BY SchrittTyp DEF IInv
<1> SUFFICES ASSUME NEW c \in Anfragen, anfrage'[c].phase # "frei", anfrage'[c].art \in {"gutschrift", "loeschen"}
             PROVE  beleg'[anfrage'[c].beleg].art = "rechnung" /\ beleg'[anfrage'[c].beleg].status # "frei"
  BY DEF Vorgemerkt
<1> DEFINE b == anfrage'[c].beleg
<1>1. b \in Belege
  BY DEF TypInv, Bezuege
<1>2. beleg[b].art = "rechnung" /\ beleg[b].status # "frei"
  <2>1. CASE anfrage'[c] = anfrage[c]
    BY <2>1 DEF IInv, Vorgemerkt
  <2>2. CASE Anfragefolge(c)
    <3>1. CASE Begonnen(c)
      BY <1>1, <3>1 DEF Begonnen, Versandt, IInv, ArtPasst
    <3>2. CASE Fortgesetzt(c)
      BY <3>2 DEF Fortgesetzt, IInv, Vorgemerkt
    <3>3. QED
      BY <2>2, <3>1, <3>2 DEF Anfragefolge
  <2>3. QED
    BY <2>1, <2>2, SchrittAnfrage DEF Anfragefolge
<1>3. QED
  BY <1>1, <1>2, Bleibt

LEMMA ReserviertSchritt ==
  ASSUME IInv, [Next]_vars
  PROVE  Reserviert'
<1> TypInv /\ TypInv'
  BY SchrittTyp DEF IInv
<1> SUFFICES ASSUME NEW c \in Anfragen, NEW b \in Belege, HaeltZeile(c, b)'
             PROVE  anfrage'[c].betrag <= Rest(b)'
  BY DEF Reserviert
<1>1. CASE Anfragefolge(c)
  <2>1. /\ UNCHANGED daten /\ anfrage'[c].betrag = anfrage[c].betrag
        /\ anfrage[c].betrag <= Rest(b)
    BY <1>1, NeuGesperrt DEF IInv, Reserviert
  <2>2. QED
    BY <2>1 DEF daten, Rest
<1>2. CASE anfrage'[c] = anfrage[c]
  <2>1. HaeltZeile(c, b)
    BY <1>2 DEF HaeltZeile
  <2>2. anfrage[c].betrag <= Rest(b) /\ beleg[b].status # "frei"
    BY <2>1 DEF IInv, Reserviert, Vorgemerkt, HaeltZeile
  <2>3. beleg'[b].brutto = beleg[b].brutto
    BY <2>2, Bleibt
  <2>4. gutgeschrieben'[b] <= gutgeschrieben[b]
    <3>1. ASSUME NEW a \in Anfragen, HaeltZeile(a, b), Fertig(a)
          PROVE  FALSE
      <4>1. a = c
        BY <2>1, <3>1 DEF IInv, Ausschluss
      <4>2. anfrage'[a].phase = "frei"
        BY <3>1, KeineTyp DEF Fertig, TypInv, TypeOK
      <4>3. QED
        BY <4>1, <4>2 DEF HaeltZeile
    <3>2. QED
      BY <3>1, GutSchritt DEF Gutfolge
  <2>5. /\ beleg[b].brutto \in Int /\ gutgeschrieben[b] \in Int /\ gutgeschrieben'[b] \in Int
        /\ anfrage[c].betrag \in Nat
    BY BelegFelder, AnfrageFelder DEF TypInv, TypeOK
  <2>6. QED
    BY <1>2, <2>2, <2>3, <2>4, <2>5 DEF Rest
<1>3. QED
  BY <1>1, <1>2, SchrittAnfrage DEF Anfragefolge

LEMMA GutschriftSchritt ==
  ASSUME IInv, [Next]_vars
  PROVE  GutschriftNieUeberRechnung'
<1> TypInv /\ TypInv'
  BY SchrittTyp DEF IInv
<1> SUFFICES ASSUME NEW b \in Belege, beleg'[b].art = "rechnung"
             PROVE  gutgeschrieben'[b] <= beleg'[b].brutto
  BY DEF GutschriftNieUeberRechnung
<1>1. beleg[b].art = "rechnung" /\ beleg'[b].brutto = beleg[b].brutto
  BY SchrittFolge DEF Folge, Fortgeschrieben, Gegenbeleg
<1>2. gutgeschrieben[b] <= beleg[b].brutto
  BY <1>1 DEF IInv, GutschriftNieUeberRechnung
<1>3. beleg[b].brutto \in Int /\ gutgeschrieben[b] \in Int /\ gutgeschrieben'[b] \in Int
  BY BelegFelder DEF TypInv, TypeOK
<1>4. CASE gutgeschrieben'[b] <= gutgeschrieben[b]
  BY <1>1, <1>2, <1>3, <1>4
<1>5. ASSUME NEW a \in Anfragen, HaeltZeile(a, b),
             gutgeschrieben'[b] = gutgeschrieben[b] + anfrage[a].betrag
      PROVE  gutgeschrieben'[b] <= beleg'[b].brutto
  <2>1. anfrage[a].betrag <= Rest(b) /\ anfrage[a].betrag \in Nat
    BY <1>5, AnfrageFelder DEF IInv, Reserviert
  <2>2. QED
    BY <1>1, <1>3, <1>5, <2>1 DEF Rest
<1>6. QED
  BY <1>4, <1>5, GutSchritt DEF Gutfolge

LEMMA GutInduktiv == IInv /\ [Next]_vars => IInv'
<1> SUFFICES ASSUME IInv, [Next]_vars PROVE IInv'
  OBVIOUS
<1>1. TypInv'
  BY SchrittTyp DEF IInv
<1>2. ArtPasst'
  BY <1>1, ArtPasstSchritt, PapierkorbSchritt DEF TypInv, TypeOK
<1>3. QED
  BY <1>1, <1>2, AusschlussSchritt, VorgemerktSchritt, ReserviertSchritt, GutschriftSchritt DEF IInv

(***************************************************************************)
(* Credit notes never take back more than the invoice charges              *)
(* (GutschriftNieUeberRechnung), for any number of overlapping requests.   *)
(***************************************************************************)
THEOREM GutschriftGedeckt == Spec => []GutschriftNieUeberRechnung
<1>1. IInv => GutschriftNieUeberRechnung
  BY DEF IInv
<1>2. QED
  BY <1>1, InitGut, GutInduktiv, PTL DEF Spec

-----------------------------------------------------------------------------
(***************************************************************************)
(* Supplier invoices.  What every state of the tables, of the requests and *)
(* of the mail intake satisfies.                                           *)
(***************************************************************************)

Spurarten == {"zeile", "meldung", "duplikat", "nichtGeholt"}
Vermerk == UNION {[D -> Spurarten] : D \in SUBSET Nat}
Zuordnung == UNION {[D -> Zeilen] : D \in SUBSET Eingangsrechnungen}
ErAnfrageTyp ==
  [art : Aenderungen \cup Belegarten \cup {"import", Leer}, zeile : Eingangsrechnungen \cup {Leer}, alt : Zeilen,
   wert : Nat, abgelegt : BOOLEAN]
EingangTyp == [laeuft : BOOLEAN, offen : SUBSET Nat, bis : Nat, zeilen : Zuordnung, spur : Vermerk]

ErZustand ==
  /\ rechnung \in [Eingangsrechnungen -> Zeilen] /\ bearbeitung \in [ErAnfragen -> ErAnfrageTyp]
  /\ objekte \subseteq Eingangsrechnungen \X (0..MaxBelege)
  /\ ausfaelle \in 0..MaxAusfaelle /\ gespeichert \in BOOLEAN /\ erZugleich \in BOOLEAN
  /\ eingang \in EingangTyp /\ spur \in Vermerk
  /\ DOMAIN postfach = 1..Cardinality(DOMAIN postfach) /\ Cardinality(DOMAIN postfach) \in 0..MaxPost
  /\ \A u \in DOMAIN postfach : postfach[u] \in Anhaenge

\* Up to the watermark every mail has left a trace; a run will leave one of each that it found.
PostGilt ==
  /\ grenze \in {0} \cup DOMAIN postfach
  /\ \A u \in 1..grenze : u \in DOMAIN spur
  /\ ~gespeichert => \A u \in DOMAIN spur : u <= grenze
  /\ ~eingang.laeuft => eingang = Ruht
  /\ eingang.laeuft =>
       /\ eingang.bis \in DOMAIN postfach
       /\ eingang.offen \cup DOMAIN eingang.spur \subseteq 1..eingang.bis
       /\ eingang.offen \cap DOMAIN eingang.spur = {}
       /\ \A u \in 1..eingang.bis : u \in DOMAIN spur \cup eingang.offen \cup DOMAIN eingang.spur
       /\ ~gespeichert => /\ grenze < eingang.bis
                          /\ \A u \in eingang.offen \cup DOMAIN eingang.spur : u > grenze

\* A row that never was is empty; a draft has no XML.
ZeileGilt(z) ==
  /\ z.status = "keine" => z = KeineZeile
  /\ z.status = "entwurf" => z.xml = Leer
NeueZeile(z) == Lebt(z) /\ z.status # "bezahlt" /\ ~z.zurueck /\ ~z.ersetzt /\ ~z.durchZahlung

\* The rows of the intake are new, nobody else knows them, and their objects are stored.
ZeilenGelten ==
  /\ \A e \in Eingangsrechnungen : ZeileGilt(rechnung[e])
  /\ \A e \in DOMAIN eingang.zeilen :
       /\ rechnung[e] = KeineZeile
       /\ \A a \in ErAnfragen : bearbeitung[a].zeile # e
       /\ ZeileGilt(eingang.zeilen[e]) /\ NeueZeile(eingang.zeilen[e])
       /\ eingang.zeilen[e].mail \in DOMAIN eingang.spur
       /\ Gebraucht(e, eingang.zeilen[e]) \subseteq objekte

\* A mail that became a row became one row.
Hinterlaesst(vermerk, zeilen, u) ==
  LET traeger == {e \in DOMAIN zeilen : zeilen[e].mail = u}
  IN IF u \in DOMAIN vermerk /\ vermerk[u] = "zeile" THEN \E e \in Eingangsrechnungen : traeger = {e} ELSE traeger = {}
SpurGilt ==
  /\ ~gespeichert => \A u \in Nat \ {0} : Hinterlaesst(spur, rechnung, u)
  /\ \A u \in Nat \ {0} : Hinterlaesst(eingang.spur, eingang.zeilen, u)

AnfrageGilt(a) ==
  LET r == bearbeitung[a] IN
  /\ r.art = Leer => r = OhneAnfrage
  /\ r.art # Leer => r.zeile \in Eingangsrechnungen
  /\ r.art = "import" =>
       /\ rechnung[r.zeile] = KeineZeile /\ \A b \in ErAnfragen \ {a} : bearbeitung[b].zeile # r.zeile
       /\ ZeileGilt(r.alt) /\ NeueZeile(r.alt) /\ r.alt.mail = 0 /\ r.alt.xml # Leer
  /\ r.art \in Aenderungen \cup Belegarten => rechnung[r.zeile].status # "keine"
  /\ r.art = "betrag" => r.wert <= MaxErBetrag
  /\ r.art = "bestaetigen" => r.wert \in Nummern
  /\ r.abgelegt =>
       /\ r.art \in Belegarten /\ r.wert \in 0..MaxBelege
       /\ r.wert # 0 => <<r.zeile, r.wert>> \in objekte
       /\ \A b \in ErAnfragen \ {a} : bearbeitung[b].zeile = r.zeile => ~bearbeitung[b].abgelegt
AnfragenGelten == \A a \in ErAnfragen : AnfrageGilt(a)

\* Whoever is about to store a receipt finds a free key: not all requests hold a key of their own.
SchluesselFrei ==
  ErAnfragen # {} => \A e \in Eingangsrechnungen :
    (\A a \in ErAnfragen : bearbeitung[a].zeile = e) =>
      rechnung[e].beleg \in {0} \cup {bearbeitung[a].alt.beleg : a \in ErAnfragen}

\* A row's XML is stored, and its receipt but for a request that is replacing it or could not commit.
BelegVorhanden(e) ==
  /\ rechnung[e].xml # Leer => <<e, 0>> \in objekte
  /\ rechnung[e].beleg # 0 =>
       \/ <<e, rechnung[e].beleg>> \in objekte \/ rechnung[e].ersetzt
       \/ \E a \in ErAnfragen :
            bearbeitung[a].zeile = e /\ bearbeitung[a].abgelegt /\ bearbeitung[a].alt.beleg = rechnung[e].beleg
BelegeVorhanden == \A e \in Eingangsrechnungen : BelegVorhanden(e)

\* Where transactions do not overlap, one is at work, and what it has read is so.
Allein ==
  ~erZugleich =>
    /\ \A a, b \in ErAnfragen : a = b \/ bearbeitung[a].art = Leer \/ bearbeitung[b].art = Leer
    /\ \A a \in ErAnfragen : bearbeitung[a].art # Leer => ~eingang.laeuft
    /\ \A a \in ErAnfragen :
         LET r == bearbeitung[a] IN
         /\ r.art \in Aenderungen \cup Belegarten => r.alt = rechnung[r.zeile]
         /\ r.art \in Aenderungen => Zulaessig(r.art, r.alt, r.wert)
         /\ r.art = "import" => r.alt.xml \in Dateien /\ r.alt.nummer = Nummer[r.alt.xml] /\ ~Duplikat(r.alt.xml, rechnung)

Verschieden(zeilen) ==
  \A e, f \in DOMAIN zeilen :
    /\ e # f
    /\ \A g \in {e, f} : Lebt(zeilen[g]) /\ zeilen[g].xml # Leer /\ ~zeilen[g].zurueck
    => zeilen[e].xml # zeilen[f].xml /\ zeilen[e].nummer # zeilen[f].nummer
BuecherGelten ==
  ~erZugleich =>
    /\ Verschieden(Darueber(eingang.zeilen, rechnung))
    /\ \A e \in Eingangsrechnungen :
         rechnung[e].durchZahlung => rechnung[e].status = "bezahlt" /\ rechnung[e].gezahlt = Brutto(rechnung[e])

IEr ==
  /\ ErZustand /\ PostGilt /\ ZeilenGelten /\ SpurGilt /\ AnfragenGelten /\ SchluesselFrei
  /\ Allein /\ BuecherGelten /\ BelegeVorhanden

LEMMA MitFakten ==
  ASSUME NEW f, NEW x, NEW w
  PROVE  /\ DOMAIN Mit(f, x, w) = DOMAIN f \cup {x}
         /\ Mit(f, x, w)[x] = w /\ \A y \in DOMAIN f \ {x} : Mit(f, x, w)[y] = f[y]
BY DEF Mit

LEMMA DarueberFakten ==
  ASSUME NEW f, NEW g
  PROVE  /\ DOMAIN Darueber(f, g) = DOMAIN f \cup DOMAIN g
         /\ \A x \in DOMAIN f : Darueber(f, g)[x] = f[x]
         /\ \A x \in DOMAIN g \ DOMAIN f : Darueber(f, g)[x] = g[x]
BY DEF Darueber

LEMMA VermerkFakten ==
  ASSUME NEW s \in Vermerk
  PROVE  /\ DOMAIN s \subseteq Nat /\ s \in [DOMAIN s -> Spurarten]
         /\ \A u \in Nat, was \in Spurarten : Mit(s, u, was) \in Vermerk
         /\ \A t \in Vermerk : Darueber(s, t) \in Vermerk
<1>1. PICK D \in SUBSET Nat : s \in [D -> Spurarten]
  BY DEF Vermerk
<1>2. DOMAIN s \subseteq Nat /\ s \in [DOMAIN s -> Spurarten]
  BY <1>1
<1>3. ASSUME NEW u \in Nat, NEW was \in Spurarten PROVE Mit(s, u, was) \in Vermerk
  <2>1. Mit(s, u, was) \in [D \cup {u} -> Spurarten]
    BY <1>1 DEF Mit
  <2>2. QED
    BY <2>1 DEF Vermerk
<1>4. ASSUME NEW t \in Vermerk PROVE Darueber(s, t) \in Vermerk
  <2>1. PICK C \in SUBSET Nat : t \in [C -> Spurarten]
    BY DEF Vermerk
  <2>2. Darueber(s, t) \in [D \cup C -> Spurarten]
    BY <1>1, <2>1 DEF Darueber
  <2>3. QED
    BY <2>2 DEF Vermerk
<1>5. QED
  BY <1>2, <1>3, <1>4

LEMMA ZuordnungFakten ==
  ASSUME NEW f \in Zuordnung
  PROVE  /\ DOMAIN f \subseteq Eingangsrechnungen /\ f \in [DOMAIN f -> Zeilen]
         /\ \A e \in Eingangsrechnungen, z \in Zeilen : Mit(f, e, z) \in Zuordnung
         /\ \A g \in [Eingangsrechnungen -> Zeilen] : Darueber(f, g) \in [Eingangsrechnungen -> Zeilen]
<1>1. PICK D \in SUBSET Eingangsrechnungen : f \in [D -> Zeilen]
  BY DEF Zuordnung
<1>2. DOMAIN f \subseteq Eingangsrechnungen /\ f \in [DOMAIN f -> Zeilen]
  BY <1>1
<1>3. ASSUME NEW e \in Eingangsrechnungen, NEW z \in Zeilen PROVE Mit(f, e, z) \in Zuordnung
  <2>1. Mit(f, e, z) \in [D \cup {e} -> Zeilen]
    BY <1>1 DEF Mit
  <2>2. QED
    BY <2>1 DEF Zuordnung
<1>4. ASSUME NEW g \in [Eingangsrechnungen -> Zeilen] PROVE Darueber(f, g) \in [Eingangsrechnungen -> Zeilen]
  BY <1>1 DEF Darueber
<1>5. QED
  BY <1>2, <1>3, <1>4

LEMMA NichtsFakten == DOMAIN <<>> = {} /\ <<>> \in Vermerk /\ <<>> \in Zuordnung
<1>1. DOMAIN <<>> = {} /\ <<>> = [x \in {} |-> {}]
  OBVIOUS
<1>2. <<>> \in [{} -> Spurarten] /\ <<>> \in [{} -> Zeilen]
  BY <1>1
<1>3. {} \in SUBSET Nat /\ {} \in SUBSET Eingangsrechnungen
  OBVIOUS
<1>4. QED
  BY <1>1, <1>2, <1>3 DEF Vermerk, Zuordnung

LEMMA RuhtFakten ==
  /\ Ruht \in EingangTyp /\ Ruht.laeuft = FALSE /\ Ruht.offen = {} /\ Ruht.bis = 0
  /\ Ruht.zeilen = <<>> /\ Ruht.spur = <<>> /\ DOMAIN Ruht.zeilen = {} /\ DOMAIN Ruht.spur = {}
BY NichtsFakten DEF Ruht, EingangTyp

LEMMA ErGroessen ==
  /\ MaxErBetrag \in Nat /\ MaxErBetrag > 0 /\ MaxPost \in Nat /\ MaxBelege \in Nat /\ MaxAusfaelle \in Nat
  /\ IsFiniteSet(ErAnfragen) /\ Cardinality(ErAnfragen) \in Nat /\ MaxBelege > Cardinality(ErAnfragen)
  /\ 1 \in 0..MaxBelege /\ 1 \in 0..MaxErBetrag
  /\ Leer \notin Dateien /\ Leer \notin Eingangsrechnungen
  /\ Leer \notin Aenderungen \cup Belegarten \cup {"import"}
  /\ \A d \in Dateien : Nummer[d] \in Nummern
  /\ Nummern \subseteq Nat \ {0}
<1>1. Cardinality(ErAnfragen) \in Nat
  BY RechnungseingangAnnahme, FS_CardinalityType
<1>2. QED
  BY <1>1, RechnungseingangAnnahme DEF Nummern

\* A row has the columns of a row, and setting one of them makes another row.
LEMMA ZeileFelder ==
  ASSUME NEW z \in Zeilen
  PROVE  /\ z.status \in {"keine", "entwurf", "offen", "bezahlt", "storniert"} /\ z.geloescht \in BOOLEAN
         /\ z.xml \in Dateien \cup {Leer} /\ z.nummer \in Nummern \cup {0} /\ z.netto \in 0..MaxErBetrag
         /\ z.positionen \in Nat /\ z.gezahlt \in Nat /\ z.durchZahlung \in BOOLEAN /\ z.beleg \in 0..MaxBelege
         /\ z.ersetzt \in BOOLEAN /\ z.zurueck \in BOOLEAN /\ z.mail \in 0..MaxPost
BY DEF Zeilen

LEMMA KeineZeileFakten ==
  /\ KeineZeile \in Zeilen /\ KeineZeile.status = "keine" /\ ~KeineZeile.geloescht /\ KeineZeile.xml = Leer
  /\ KeineZeile.beleg = 0 /\ KeineZeile.mail = 0 /\ ~KeineZeile.durchZahlung /\ ~KeineZeile.zurueck
  /\ ~KeineZeile.ersetzt /\ ~Lebt(KeineZeile) /\ ZeileGilt(KeineZeile)
BY ErGroessen DEF KeineZeile, Zeilen, Lebt, ZeileGilt

LEMMA OhneAnfrageFakten ==
  /\ OhneAnfrage \in ErAnfrageTyp /\ OhneAnfrage.art = Leer /\ OhneAnfrage.zeile = Leer
  /\ OhneAnfrage.abgelegt = FALSE
BY KeineZeileFakten DEF OhneAnfrage, ErAnfrageTyp

LEMMA ImportiertFakten ==
  ASSUME NEW d \in Dateien, NEW hybrid \in BOOLEAN, NEW uid \in 0..MaxPost
  PROVE  /\ Importiert(d, hybrid, uid) \in Zeilen
         /\ ZeileGilt(Importiert(d, hybrid, uid)) /\ NeueZeile(Importiert(d, hybrid, uid))
         /\ Importiert(d, hybrid, uid).mail = uid /\ Importiert(d, hybrid, uid).xml = d
         /\ Importiert(d, hybrid, uid).nummer = Nummer[d]
<1>1. PICK b \in 0..MaxBelege : b = IF hybrid THEN 1 ELSE 0
  BY ErGroessen
<1>2. PICK y \in Zeilen : y = [KeineZeile EXCEPT !.status = "offen", !.xml = d, !.nummer = Nummer[d]]
  BY KeineZeileFakten, ErGroessen DEF Zeilen
<1>3. y.status = "offen" /\ y.xml = d /\ y.nummer = Nummer[d] /\ ~y.geloescht /\ ~y.durchZahlung /\ ~y.ersetzt /\ ~y.zurueck
  BY <1>2 DEF KeineZeile
<1>4. PICK z : z = [y EXCEPT !.netto = 1, !.beleg = b, !.mail = uid]
  OBVIOUS
<1>5. Importiert(d, hybrid, uid) = z
  BY <1>1, <1>2, <1>4 DEF Importiert
<1>6. z \in Zeilen
  BY <1>4, ErGroessen DEF Zeilen
<1>7. /\ z.status = "offen" /\ z.xml = d /\ z.nummer = Nummer[d] /\ ~z.geloescht /\ ~z.durchZahlung /\ ~z.ersetzt
      /\ ~z.zurueck /\ z.mail = uid
  BY <1>3, <1>4 DEF Zeilen
<1>8. QED
  BY <1>5, <1>6, <1>7 DEF ZeileGilt, NeueZeile, Lebt

LEMMA PdfEntwurfFakten ==
  ASSUME NEW uid \in 0..MaxPost
  PROVE  /\ PdfEntwurf(uid) \in Zeilen /\ ZeileGilt(PdfEntwurf(uid)) /\ NeueZeile(PdfEntwurf(uid))
         /\ PdfEntwurf(uid).mail = uid /\ PdfEntwurf(uid).xml = Leer
<1>1. PICK z : z = [KeineZeile EXCEPT !.status = "entwurf", !.beleg = 1, !.mail = uid]
  OBVIOUS
<1>2. PdfEntwurf(uid) = z
  BY <1>1 DEF PdfEntwurf
<1>3. z \in Zeilen
  BY <1>1, ErGroessen, KeineZeileFakten DEF Zeilen
<1>4. /\ z.status = "entwurf" /\ z.xml = Leer /\ ~z.geloescht /\ ~z.durchZahlung /\ ~z.ersetzt
      /\ ~z.zurueck /\ z.mail = uid
  BY <1>1 DEF KeineZeile
<1>5. QED
  BY <1>2, <1>3, <1>4 DEF ZeileGilt, NeueZeile, Lebt

\* What a request writes leaves what the books are known by as it was.
LEMMA NachherFakten ==
  ASSUME NEW z \in Zeilen, NEW r, r.alt \in Zeilen, r.art \in Aenderungen \cup Belegarten, r.wert \in Nat,
         r.art = "betrag" => r.wert <= MaxErBetrag, r.art = "bestaetigen" => r.wert \in Nummern,
         r.art \in Belegarten => r.wert \in 0..MaxBelege
  PROVE  /\ Nachher(z, r) \in Zeilen
         /\ Nachher(z, r).xml = z.xml /\ Nachher(z, r).mail = z.mail /\ Nachher(z, r).zurueck = z.zurueck
         /\ Nachher(z, r).status \in {z.status, "bezahlt", "storniert", "offen"}
         /\ Nachher(z, r).geloescht = FALSE => z.geloescht = FALSE
         /\ r.art # "bestaetigen" => Nachher(z, r).nummer = z.nummer
         /\ r.art \in Aenderungen => Nachher(z, r).beleg = z.beleg /\ Nachher(z, r).ersetzt = z.ersetzt
         /\ r.art \in Belegarten => Nachher(z, r).beleg = r.wert /\ Nachher(z, r).ersetzt = FALSE
         /\ r.art \in Belegarten =>
              /\ Nachher(z, r).status = z.status /\ Nachher(z, r).durchZahlung = z.durchZahlung
              /\ Nachher(z, r).gezahlt = z.gezahlt /\ Nachher(z, r).positionen = z.positionen
              /\ Nachher(z, r).netto = z.netto
<1>1. CASE r.art = "zahlung"
  <2>1. PICK n \in Nat : n = z.gezahlt + r.wert
    BY ZeileFelder
  <2>2. CASE OffenerBetrag(r.alt) - r.wert <= 0
    <3>1. PICK y : y = [z EXCEPT !.gezahlt = n, !.status = "bezahlt", !.durchZahlung = TRUE]
      OBVIOUS
    <3>2. Nachher(z, r) = y
      BY <1>1, <2>1, <2>2, <3>1, ZeileFelder DEF Nachher, Belegarten
    <3>3. y \in Zeilen
      BY <3>1 DEF Zeilen
    <3>4. /\ y.xml = z.xml /\ y.mail = z.mail /\ y.zurueck = z.zurueck /\ y.status = "bezahlt" /\ y.nummer = z.nummer
          /\ y.geloescht = z.geloescht /\ y.beleg = z.beleg /\ y.ersetzt = z.ersetzt
      BY <3>1 DEF Zeilen
    <3>5. QED
      BY <1>1, <3>2, <3>3, <3>4 DEF Belegarten
  <2>3. CASE ~(OffenerBetrag(r.alt) - r.wert <= 0)
    <3>1. PICK y : y = [z EXCEPT !.gezahlt = n, !.status = z.status, !.durchZahlung = z.durchZahlung]
      OBVIOUS
    <3>2. Nachher(z, r) = y
      BY <1>1, <2>1, <2>3, <3>1, ZeileFelder DEF Nachher, Belegarten
    <3>3. y \in Zeilen
      BY <3>1, ZeileFelder DEF Zeilen
    <3>4. /\ y.xml = z.xml /\ y.mail = z.mail /\ y.zurueck = z.zurueck /\ y.status = z.status /\ y.nummer = z.nummer
          /\ y.geloescht = z.geloescht /\ y.beleg = z.beleg /\ y.ersetzt = z.ersetzt
      BY <3>1 DEF Zeilen
    <3>5. QED
      BY <1>1, <3>2, <3>3, <3>4 DEF Belegarten
  <2>4. QED
    BY <2>2, <2>3
<1>2. CASE r.art = "position"
  <2>1. Nachher(z, r) = [z EXCEPT !.positionen = @ + r.wert]
    BY <1>2 DEF Nachher, Belegarten
  <2>2. QED
    BY <1>2, <2>1 DEF Zeilen, Belegarten
<1>3. CASE r.art = "betrag"
  <2>1. Nachher(z, r) = [z EXCEPT !.netto = r.wert]
    BY <1>3 DEF Nachher, Belegarten
  <2>2. r.wert \in 0..MaxErBetrag
    BY <1>3, ErGroessen
  <2>3. QED
    BY <1>3, <2>1, <2>2 DEF Zeilen, Belegarten
<1>4. CASE r.art = "bestaetigen"
  <2>1. Nachher(z, r) = [z EXCEPT !.status = "offen", !.nummer = r.wert, !.netto = 1]
    BY <1>4 DEF Nachher, Belegarten
  <2>2. QED
    BY <1>4, <2>1, ErGroessen DEF Zeilen, Belegarten
<1>5. CASE r.art \in {"bezahlt", "storniert"}
  <2>1. Nachher(z, r) = [z EXCEPT !.status = r.art]
    BY <1>5 DEF Nachher, Belegarten
  <2>2. QED
    BY <1>5, <2>1 DEF Zeilen, Belegarten
<1>6. CASE r.art = "loeschen"
  <2>1. Nachher(z, r) = [z EXCEPT !.geloescht = TRUE]
    BY <1>6 DEF Nachher, Belegarten
  <2>2. QED
    BY <1>6, <2>1 DEF Zeilen, Belegarten
<1>7. CASE r.art \in Belegarten
  <2>1. Nachher(z, r) = [z EXCEPT !.beleg = r.wert, !.ersetzt = FALSE]
    BY <1>7 DEF Nachher, Belegarten
  <2>2. QED
    BY <1>7, <2>1 DEF Zeilen, Belegarten, Aenderungen
<1>8. QED
  BY <1>1, <1>2, <1>3, <1>4, <1>5, <1>6, <1>7 DEF Aenderungen

LEMMA MinGehoert ==
  ASSUME NEW S \in SUBSET Nat, S # {}
  PROVE  Min(S) \in S /\ \A x \in S : Min(S) <= x
<1>1. PICK m \in S : \A x \in S : <<x, m>> \notin OpToRel(<, Nat)
  BY NatLessThanWellFounded, WFMin
<1>2. ASSUME NEW x \in S PROVE m <= x
  <2>1. ~(x < m)
    BY <1>1 DEF OpToRel
  <2>2. QED
    BY <2>1
<1>3. QED
  BY <1>1, <1>2 DEF Min

LEMMA MaxGehoert ==
  ASSUME NEW n \in Nat, NEW S \in SUBSET (0..n), S # {}
  PROVE  Max(S) \in S /\ \A x \in S : x <= Max(S)
<1> DEFINE Z == {n - x : x \in S}
<1>1. \A x \in S : x \in Nat /\ n - x \in Nat
  OBVIOUS
<1>2. Z \subseteq Nat /\ Z # {}
  BY <1>1
<1>3. Min(Z) \in Z /\ \A z \in Z : Min(Z) <= z
  BY <1>2, MinGehoert
<1>4. PICK x \in S : Min(Z) = n - x
  BY <1>3
<1>5. \A y \in S : x >= y
  <2>1. ASSUME NEW y \in S PROVE x >= y
    <3>1. n - y \in Z
      OBVIOUS
    <3>2. n - x <= n - y
      BY <1>3, <1>4, <3>1
    <3>3. QED
      BY <1>1, <3>2
  <2>2. QED
    BY <2>1
<1>6. Max(S) \in S /\ \A y \in S : Max(S) >= y
  BY <1>4, <1>5 DEF Max
<1>7. QED
  BY <1>1, <1>6

LEMMA ErFakten ==
  ASSUME IEr
  PROVE  /\ rechnung \in [Eingangsrechnungen -> Zeilen] /\ DOMAIN rechnung = Eingangsrechnungen
         /\ \A e \in Eingangsrechnungen : rechnung[e] \in Zeilen
         /\ bearbeitung \in [ErAnfragen -> ErAnfrageTyp]
         /\ objekte \subseteq Eingangsrechnungen \X (0..MaxBelege)
         /\ eingang \in EingangTyp /\ eingang.zeilen \in Zuordnung /\ eingang.spur \in Vermerk
         /\ DOMAIN eingang.zeilen \subseteq Eingangsrechnungen
         /\ spur \in Vermerk
         /\ \A a \in ErAnfragen :
              /\ bearbeitung[a] \in ErAnfrageTyp /\ bearbeitung[a].alt \in Zeilen /\ bearbeitung[a].wert \in Nat
              /\ bearbeitung[a].art \in Aenderungen \cup Belegarten \cup {"import", Leer}
              /\ bearbeitung[a].abgelegt \in BOOLEAN
              /\ AnfrageGilt(a)
<1>1. ErZustand
  BY DEF IEr
<1>2. /\ rechnung \in [Eingangsrechnungen -> Zeilen] /\ bearbeitung \in [ErAnfragen -> ErAnfrageTyp]
      /\ objekte \subseteq Eingangsrechnungen \X (0..MaxBelege) /\ eingang \in EingangTyp /\ spur \in Vermerk
  BY <1>1 DEF ErZustand
<1>3. eingang.zeilen \in Zuordnung /\ eingang.spur \in Vermerk
  BY <1>2 DEF EingangTyp
<1>4. DOMAIN eingang.zeilen \subseteq Eingangsrechnungen
  BY <1>3, ZuordnungFakten
<1>5. \A a \in ErAnfragen : bearbeitung[a] \in ErAnfrageTyp
  BY <1>2
<1>6. ASSUME NEW r \in ErAnfrageTyp
      PROVE  /\ r.alt \in Zeilen /\ r.wert \in Nat /\ r.abgelegt \in BOOLEAN
             /\ r.art \in Aenderungen \cup Belegarten \cup {"import", Leer}
  BY DEF ErAnfrageTyp
<1>7. \A a \in ErAnfragen : AnfrageGilt(a)
  BY DEF IEr, AnfragenGelten
<1>8. QED
  BY <1>2, <1>3, <1>4, <1>5, <1>6, <1>7

LEMMA AnfrageFakten ==
  ASSUME IEr, NEW a \in ErAnfragen
  PROVE  /\ bearbeitung[a].art = Leer => bearbeitung[a] = OhneAnfrage
         /\ bearbeitung[a].art # Leer => bearbeitung[a].zeile \in Eingangsrechnungen
         /\ bearbeitung[a].art = "import" =>
              /\ rechnung[bearbeitung[a].zeile] = KeineZeile
              /\ \A b \in ErAnfragen \ {a} : bearbeitung[b].zeile # bearbeitung[a].zeile
              /\ ZeileGilt(bearbeitung[a].alt) /\ NeueZeile(bearbeitung[a].alt) /\ bearbeitung[a].alt.mail = 0
              /\ bearbeitung[a].alt.xml # Leer
         /\ bearbeitung[a].art \in Aenderungen \cup Belegarten => rechnung[bearbeitung[a].zeile].status # "keine"
         /\ bearbeitung[a].art = "betrag" => bearbeitung[a].wert <= MaxErBetrag
         /\ bearbeitung[a].art = "bestaetigen" => bearbeitung[a].wert \in Nummern
         /\ bearbeitung[a].abgelegt =>
              /\ bearbeitung[a].art \in Belegarten /\ bearbeitung[a].wert \in 0..MaxBelege
              /\ bearbeitung[a].wert # 0 => <<bearbeitung[a].zeile, bearbeitung[a].wert>> \in objekte
              /\ \A b \in ErAnfragen \ {a} : bearbeitung[b].zeile = bearbeitung[a].zeile => ~bearbeitung[b].abgelegt
<1>1. AnfrageGilt(a)
  BY ErFakten
<1>2. QED
  BY <1>1 DEF AnfrageGilt

LEMMA FreieZeile ==
  ASSUME IEr, FreieZeilen # {}
  PROVE  /\ Naechste \in Eingangsrechnungen /\ rechnung[Naechste] = KeineZeile /\ Naechste \notin DOMAIN eingang.zeilen
         /\ \A a \in ErAnfragen : bearbeitung[a].zeile # Naechste
<1>1. Naechste \in FreieZeilen
  BY DEF Naechste
<1>2. QED
  BY <1>1 DEF FreieZeilen

\* With nothing on its way the books are the table.
LEMMA NichtsDarueber ==
  ASSUME IEr, ~eingang.laeuft
  PROVE  eingang = Ruht /\ DOMAIN eingang.zeilen = {} /\ Darueber(eingang.zeilen, rechnung) = rechnung
<1>1. eingang = Ruht /\ DOMAIN eingang.zeilen = {}
  BY RuhtFakten DEF IEr, PostGilt
<1>2. Darueber(eingang.zeilen, rechnung) = [x \in Eingangsrechnungen |-> rechnung[x]]
  BY <1>1, ErFakten DEF Darueber
<1>3. QED
  BY <1>1, <1>2, ErFakten

LEMMA ErStart == ErInit => IEr
<1> SUFFICES ASSUME ErInit PROVE IEr
  OBVIOUS
<1>1. /\ rechnung = [e \in Eingangsrechnungen |-> KeineZeile] /\ objekte = {}
      /\ bearbeitung = [a \in ErAnfragen |-> OhneAnfrage] /\ postfach = <<>> /\ grenze = 0
      /\ eingang = Ruht /\ spur = <<>> /\ ausfaelle = 0 /\ gespeichert = FALSE /\ erZugleich \in BOOLEAN
  BY DEF ErInit
<1>2. DOMAIN postfach = {} /\ Cardinality(DOMAIN postfach) = 0 /\ 1..0 = {}
  BY <1>1, NichtsFakten, FS_EmptySet
<1>3. \A e \in Eingangsrechnungen : rechnung[e] = KeineZeile
  BY <1>1
<1>4. \A a \in ErAnfragen : bearbeitung[a] = OhneAnfrage
  BY <1>1
<1>5. ErZustand
  <2>1. rechnung \in [Eingangsrechnungen -> Zeilen]
    BY <1>1, KeineZeileFakten
  <2>2. bearbeitung \in [ErAnfragen -> ErAnfrageTyp]
    BY <1>1, OhneAnfrageFakten
  <2>3. eingang \in EingangTyp /\ spur \in Vermerk
    BY <1>1, RuhtFakten, NichtsFakten
  <2>4. ausfaelle \in 0..MaxAusfaelle /\ Cardinality(DOMAIN postfach) \in 0..MaxPost
    BY <1>1, <1>2, ErGroessen
  <2>5. DOMAIN postfach = 1..Cardinality(DOMAIN postfach)
    BY <1>2
  <2>6. QED
    BY <1>1, <1>2, <2>1, <2>2, <2>3, <2>4, <2>5 DEF ErZustand
<1>6. PostGilt
  BY <1>1, <1>2, NichtsFakten, RuhtFakten DEF PostGilt
<1>7. ZeilenGelten
  BY <1>1, <1>3, KeineZeileFakten, RuhtFakten DEF ZeilenGelten
<1>8. SpurGilt
  <2>1. ASSUME NEW u \in Nat \ {0} PROVE Hinterlaesst(spur, rechnung, u) /\ Hinterlaesst(eingang.spur, eingang.zeilen, u)
    <3>1. {e \in DOMAIN rechnung : rechnung[e].mail = u} = {}
      BY <1>1, <1>3, KeineZeileFakten
    <3>2. {e \in DOMAIN eingang.zeilen : eingang.zeilen[e].mail = u} = {}
      BY <1>1, RuhtFakten
    <3>3. u \notin DOMAIN spur /\ u \notin DOMAIN eingang.spur
      BY <1>1, NichtsFakten, RuhtFakten
    <3>4. QED
      BY <3>1, <3>2, <3>3 DEF Hinterlaesst
  <2>2. QED
    BY <2>1 DEF SpurGilt
<1>9. AnfragenGelten
  <2>1. ASSUME NEW a \in ErAnfragen PROVE AnfrageGilt(a)
    <3>1. bearbeitung[a] = OhneAnfrage /\ bearbeitung[a].art = Leer /\ bearbeitung[a].abgelegt = FALSE
      BY <1>4, OhneAnfrageFakten
    <3>2. Leer \notin Aenderungen \cup Belegarten \cup {"import", "betrag", "bestaetigen"}
      BY ErGroessen DEF Aenderungen
    <3>3. QED
      BY <3>1, <3>2 DEF AnfrageGilt
  <2>2. QED
    BY <2>1 DEF AnfragenGelten
<1>10. SchluesselFrei
  BY <1>3, KeineZeileFakten DEF SchluesselFrei
<1>11. Allein
  BY <1>4, OhneAnfrageFakten, ErGroessen DEF Allein
<1>12. BuecherGelten
  <2>1. Darueber(eingang.zeilen, rechnung) = rechnung
    <3>1. Darueber(eingang.zeilen, rechnung) = [x \in Eingangsrechnungen |-> rechnung[x]]
      BY <1>1, RuhtFakten DEF Darueber
    <3>2. QED
      BY <1>1, <3>1
  <2>2. Verschieden(rechnung)
    BY <1>1, <1>3, KeineZeileFakten DEF Verschieden
  <2>3. QED
    BY <2>1, <2>2, <1>3, KeineZeileFakten DEF BuecherGelten
<1>13. BelegeVorhanden
  BY <1>3, KeineZeileFakten DEF BelegeVorhanden, BelegVorhanden
<1>14. QED
  BY <1>5, <1>6, <1>7, <1>8, <1>9, <1>10, <1>11, <1>12, <1>13 DEF IEr

-----------------------------------------------------------------------------
(***************************************************************************)
(* What a step that is not the intake's leaves alone.                      *)
(***************************************************************************)

LEMMA EingangRuht ==
  ASSUME IEr, UNCHANGED <<postfach, grenze, eingang, spur, gespeichert, erZugleich>>,
         rechnung' \in [Eingangsrechnungen -> Zeilen], bearbeitung' \in [ErAnfragen -> ErAnfrageTyp],
         objekte' \subseteq Eingangsrechnungen \X (0..MaxBelege), ausfaelle' \in 0..MaxAusfaelle,
         \A e \in Eingangsrechnungen : rechnung'[e].mail = rechnung[e].mail /\ ZeileGilt(rechnung'[e]),
         \A e \in DOMAIN eingang.zeilen :
            /\ rechnung'[e] = rechnung[e] /\ \A a \in ErAnfragen : bearbeitung'[a].zeile # e
            /\ Gebraucht(e, eingang.zeilen[e]) \subseteq objekte'
  PROVE  (ErZustand /\ PostGilt /\ ZeilenGelten /\ SpurGilt)'
<1>1. ErZustand'
  BY DEF IEr, ErZustand
<1>2. PostGilt'
  BY DEF IEr, PostGilt
<1>3. ZeilenGelten'
  BY DEF IEr, ZeilenGelten
<1>4. SpurGilt'
  <2>1. ASSUME NEW u PROVE {e \in DOMAIN rechnung' : rechnung'[e].mail = u} = {e \in DOMAIN rechnung : rechnung[e].mail = u}
    BY ErFakten
  <2>2. \A u : Hinterlaesst(spur, rechnung, u)' <=> Hinterlaesst(spur, rechnung, u)
    BY <2>1 DEF Hinterlaesst
  <2>3. \A u : Hinterlaesst(eingang.spur, eingang.zeilen, u)' <=> Hinterlaesst(eingang.spur, eingang.zeilen, u)
    BY DEF Hinterlaesst
  <2>4. QED
    BY <2>2, <2>3 DEF IEr, SpurGilt
<1>5. QED
  BY <1>1, <1>2, <1>3, <1>4

\* Every request goes on as it was, or is over.
LEMMA AnfragenGehenWeiter ==
  ASSUME IEr, \A a \in ErAnfragen : bearbeitung'[a] \in {bearbeitung[a], OhneAnfrage},
         \A a \in ErAnfragen : bearbeitung[a].art = "import" /\ bearbeitung'[a] = bearbeitung[a] =>
            rechnung'[bearbeitung[a].zeile] = rechnung[bearbeitung[a].zeile],
         \A a \in ErAnfragen : bearbeitung[a].art \in Aenderungen \cup Belegarten /\ bearbeitung'[a] = bearbeitung[a] =>
            rechnung'[bearbeitung[a].zeile].status # "keine",
         \A a \in ErAnfragen : bearbeitung[a].abgelegt /\ bearbeitung'[a] = bearbeitung[a] =>
            \A b \in Nat : <<bearbeitung[a].zeile, b>> \in objekte => <<bearbeitung[a].zeile, b>> \in objekte'
  PROVE  AnfragenGelten'
<1>1. SUFFICES ASSUME NEW a \in ErAnfragen PROVE AnfrageGilt(a)'
  BY DEF AnfragenGelten
<1>2. CASE bearbeitung'[a] = OhneAnfrage
  <2>1. bearbeitung'[a].art = Leer /\ bearbeitung'[a].abgelegt = FALSE
    BY <1>2, OhneAnfrageFakten
  <2>2. Leer \notin Aenderungen \cup Belegarten \cup {"import", "betrag", "bestaetigen"}
    BY ErGroessen DEF Aenderungen
  <2>3. QED
    BY <1>2, <2>1, <2>2 DEF AnfrageGilt
<1>3. CASE bearbeitung'[a] = bearbeitung[a] /\ bearbeitung[a].art # Leer
  <2>1. PICK r : r = bearbeitung[a]
    OBVIOUS
  <2>2. r.zeile \in Eingangsrechnungen /\ AnfrageGilt(a) /\ r.wert \in Nat
    BY <1>3, <2>1, ErFakten DEF AnfrageGilt
  <2>3. \A b \in ErAnfragen \ {a} : bearbeitung'[b].zeile = r.zeile =>
          bearbeitung'[b] = bearbeitung[b] /\ bearbeitung[b].zeile = r.zeile
    BY <2>2, OhneAnfrageFakten, ErGroessen
  <2>4. QED
    BY <1>3, <2>1, <2>2, <2>3 DEF AnfrageGilt
<1>4. CASE bearbeitung'[a] = bearbeitung[a] /\ bearbeitung[a].art = Leer
  <2>1. bearbeitung[a] = OhneAnfrage
    BY <1>4, ErFakten DEF AnfrageGilt
  <2>2. QED
    BY <1>2, <1>4, <2>1
<1>5. QED
  BY <1>2, <1>3, <1>4

\* ... the books change only when none goes on, or transactions overlap anyway.
LEMMA AlleinBleibt ==
  ASSUME IEr, erZugleich' = erZugleich,
         \A a \in ErAnfragen : bearbeitung'[a] \in {bearbeitung[a], OhneAnfrage},
         ~erZugleich => \/ \A a \in ErAnfragen : bearbeitung'[a] = OhneAnfrage
                        \/ rechnung' = rechnung /\ (eingang'.laeuft => eingang.laeuft)
  PROVE  Allein'
<1> SUFFICES ASSUME ~erZugleich PROVE Allein'
  BY DEF Allein
<1>1. CASE \A a \in ErAnfragen : bearbeitung'[a] = OhneAnfrage
  BY <1>1, OhneAnfrageFakten, ErGroessen DEF Allein
<1>2. CASE rechnung' = rechnung /\ (eingang'.laeuft => eingang.laeuft)
  <2>1. Allein
    BY DEF IEr
  <2>2. ASSUME NEW a \in ErAnfragen, bearbeitung'[a].art # Leer PROVE bearbeitung'[a] = bearbeitung[a]
    BY <2>2, OhneAnfrageFakten
  <2>3. \A a, b \in ErAnfragen : a = b \/ bearbeitung'[a].art = Leer \/ bearbeitung'[b].art = Leer
    BY <2>1, <2>2 DEF Allein
  <2>4. \A a \in ErAnfragen : bearbeitung'[a].art # Leer => ~eingang'.laeuft
    BY <1>2, <2>1, <2>2 DEF Allein
  <2>5. \A d : Duplikat(d, rechnung)' <=> Duplikat(d, rechnung)
    BY <1>2 DEF Duplikat
  <2>6. ASSUME NEW a \in ErAnfragen, NEW r, r = bearbeitung'[a]
        PROVE  /\ r.art \in Aenderungen \cup Belegarten => r.alt = rechnung'[r.zeile]
               /\ r.art \in Aenderungen => Zulaessig(r.art, r.alt, r.wert)
               /\ r.art = "import" =>
                    r.alt.xml \in Dateien /\ r.alt.nummer = Nummer[r.alt.xml] /\ ~Duplikat(r.alt.xml, rechnung)'
    <3>1. CASE r.art = Leer
      BY <3>1, ErGroessen
    <3>2. CASE r.art # Leer
      <4>1. r = bearbeitung[a]
        BY <2>2, <2>6, <3>2
      <4>2. QED
        BY <4>1, <1>2, <2>1, <2>5 DEF Allein
    <3>3. QED
      BY <3>1, <3>2
  <2>7. QED
    BY <2>3, <2>4, <2>6 DEF Allein
<1>3. QED
  BY <1>1, <1>2

LEMMA ZeileGetauscht ==
  ASSUME IEr, NEW e \in Eingangsrechnungen, NEW z \in Zeilen, rechnung' = [rechnung EXCEPT ![e] = z]
  PROVE  /\ rechnung' \in [Eingangsrechnungen -> Zeilen] /\ rechnung'[e] = z
         /\ \A f \in Eingangsrechnungen \ {e} : rechnung'[f] = rechnung[f]
BY ErFakten

LEMMA AnfrageGetauscht ==
  ASSUME IEr, NEW a \in ErAnfragen, NEW r \in ErAnfrageTyp, bearbeitung' = [bearbeitung EXCEPT ![a] = r]
  PROVE  /\ bearbeitung' \in [ErAnfragen -> ErAnfrageTyp] /\ bearbeitung'[a] = r
         /\ \A b \in ErAnfragen \ {a} : bearbeitung'[b] = bearbeitung[b]
BY ErFakten

LEMMA BelegeHalten ==
  ASSUME IEr, objekte \subseteq objekte',
         \A a \in ErAnfragen : bearbeitung[a].abgelegt => bearbeitung'[a] = bearbeitung[a],
         \A e \in Eingangsrechnungen :
            \/ /\ rechnung'[e].xml = rechnung[e].xml /\ rechnung'[e].beleg = rechnung[e].beleg
               /\ rechnung'[e].ersetzt = rechnung[e].ersetzt
            \/ BelegVorhanden(e)'
  PROVE  BelegeVorhanden'
<1> SUFFICES ASSUME NEW e \in Eingangsrechnungen PROVE BelegVorhanden(e)'
  BY DEF BelegeVorhanden
<1>1. BelegVorhanden(e)
  BY DEF IEr, BelegeVorhanden
<1>2. QED
  BY <1>1 DEF BelegVorhanden

LEMMA SchluesselBleibt ==
  ASSUME IEr,
         \/ \E a \in ErAnfragen : bearbeitung'[a].zeile = Leer
         \/ /\ \A a \in ErAnfragen : /\ bearbeitung'[a].zeile = bearbeitung[a].zeile
                                     /\ bearbeitung'[a].alt = bearbeitung[a].alt
            /\ \A e \in Eingangsrechnungen : rechnung'[e].beleg = rechnung[e].beleg
  PROVE  SchluesselFrei'
<1>1. SchluesselFrei
  BY DEF IEr
<1>2. CASE \E a \in ErAnfragen : bearbeitung'[a].zeile = Leer
  BY <1>2, ErGroessen DEF SchluesselFrei
<1>3. CASE /\ \A a \in ErAnfragen : bearbeitung'[a].zeile = bearbeitung[a].zeile /\ bearbeitung'[a].alt = bearbeitung[a].alt
           /\ \A e \in Eingangsrechnungen : rechnung'[e].beleg = rechnung[e].beleg
  <2>1. {bearbeitung'[a].alt.beleg : a \in ErAnfragen} = {bearbeitung[a].alt.beleg : a \in ErAnfragen}
    BY <1>3
  <2>2. QED
    BY <1>1, <1>3, <2>1 DEF SchluesselFrei
<1>4. QED
  BY <1>2, <1>3

LEMMA VerschiedenBleibt ==
  ASSUME NEW f, NEW g, Verschieden(f), DOMAIN g = DOMAIN f,
         \A e \in DOMAIN g : Lebt(g[e]) /\ g[e].xml # Leer /\ ~g[e].zurueck =>
            \/ Lebt(f[e]) /\ f[e].xml = g[e].xml /\ f[e].nummer = g[e].nummer /\ ~f[e].zurueck
            \/ \A x \in DOMAIN g \ {e} : Lebt(g[x]) => g[x].xml # g[e].xml /\ g[x].nummer # g[e].nummer
  PROVE  Verschieden(g)
<1> SUFFICES ASSUME NEW e \in DOMAIN g, NEW h \in DOMAIN g, e # h,
                    Lebt(g[e]) /\ g[e].xml # Leer /\ ~g[e].zurueck, Lebt(g[h]) /\ g[h].xml # Leer /\ ~g[h].zurueck
             PROVE  g[e].xml # g[h].xml /\ g[e].nummer # g[h].nummer
  BY DEF Verschieden
<1>1. CASE \/ \A x \in DOMAIN g \ {e} : Lebt(g[x]) => g[x].xml # g[e].xml /\ g[x].nummer # g[e].nummer
           \/ \A x \in DOMAIN g \ {h} : Lebt(g[x]) => g[x].xml # g[h].xml /\ g[x].nummer # g[h].nummer
  BY <1>1
<1>2. CASE /\ Lebt(f[e]) /\ f[e].xml = g[e].xml /\ f[e].nummer = g[e].nummer /\ ~f[e].zurueck
           /\ Lebt(f[h]) /\ f[h].xml = g[h].xml /\ f[h].nummer = g[h].nummer /\ ~f[h].zurueck
  BY <1>2 DEF Verschieden
<1>3. QED
  BY <1>1, <1>2

LEMMA BuecherGehenWeiter ==
  ASSUME IEr, UNCHANGED <<eingang, erZugleich>>, rechnung' \in [Eingangsrechnungen -> Zeilen],
         \A e \in DOMAIN eingang.zeilen : rechnung'[e] = rechnung[e],
         ~erZugleich => \A e \in Eingangsrechnungen :
            \/ rechnung'[e] = rechnung[e]
            \/ /\ Lebt(rechnung'[e]) /\ rechnung'[e].xml # Leer /\ ~rechnung'[e].zurueck =>
                    /\ Lebt(rechnung[e]) /\ rechnung[e].xml = rechnung'[e].xml
                    /\ rechnung[e].nummer = rechnung'[e].nummer /\ ~rechnung[e].zurueck
               /\ rechnung'[e].durchZahlung =>
                    rechnung'[e].status = "bezahlt" /\ rechnung'[e].gezahlt = Brutto(rechnung'[e])
  PROVE  BuecherGelten'
<1> SUFFICES ASSUME ~erZugleich PROVE BuecherGelten'
  BY DEF BuecherGelten
<1>1. /\ Verschieden(Darueber(eingang.zeilen, rechnung))
      /\ \A e \in Eingangsrechnungen :
           rechnung[e].durchZahlung => rechnung[e].status = "bezahlt" /\ rechnung[e].gezahlt = Brutto(rechnung[e])
  BY DEF IEr, BuecherGelten
<1>2. PICK f, g : f = Darueber(eingang.zeilen, rechnung) /\ g = Darueber(eingang.zeilen, rechnung')
  OBVIOUS
<1>3. /\ DOMAIN f = Eingangsrechnungen /\ DOMAIN g = Eingangsrechnungen
      /\ \A e \in DOMAIN eingang.zeilen : f[e] = g[e]
      /\ \A e \in Eingangsrechnungen \ DOMAIN eingang.zeilen : f[e] = rechnung[e] /\ g[e] = rechnung'[e]
  <2>1. DOMAIN rechnung = Eingangsrechnungen /\ DOMAIN rechnung' = Eingangsrechnungen /\ DOMAIN eingang.zeilen \subseteq Eingangsrechnungen
    BY ErFakten
  <2>2. DOMAIN f = Eingangsrechnungen /\ DOMAIN g = Eingangsrechnungen
    BY <1>2, <2>1 DEF Darueber
  <2>3. QED
    BY <1>2, <2>1, <2>2 DEF Darueber
<1>4. Verschieden(g)
  <2>1. ASSUME NEW e \in DOMAIN g, Lebt(g[e]) /\ g[e].xml # Leer /\ ~g[e].zurueck
        PROVE  Lebt(f[e]) /\ f[e].xml = g[e].xml /\ f[e].nummer = g[e].nummer /\ ~f[e].zurueck
    BY <2>1, <1>3
  <2>2. QED
    BY <1>1, <1>2, <1>3, <2>1, VerschiedenBleibt
<1>5. Verschieden(Darueber(eingang.zeilen, rechnung))'
  <2>1. Darueber(eingang.zeilen, rechnung)' = g
    BY <1>2 DEF Darueber
  <2>2. QED
    BY <1>4, <2>1 DEF Verschieden
<1>6. \A e \in Eingangsrechnungen :
        rechnung'[e].durchZahlung => rechnung'[e].status = "bezahlt" /\ rechnung'[e].gezahlt = Brutto(rechnung'[e])
  BY <1>1
<1>7. QED
  BY <1>5, <1>6 DEF BuecherGelten, Brutto

LEMMA BeginntAllein ==
  ASSUME IEr, DarfBeginnen, ~erZugleich
  PROVE  /\ ~eingang.laeuft /\ \A a \in ErAnfragen : bearbeitung[a] = OhneAnfrage
BY DEF DarfBeginnen

-----------------------------------------------------------------------------
(***************************************************************************)
(* The requests, one after the other.                                      *)
(***************************************************************************)

LEMMA CreateErhaelt ==
  ASSUME IEr, Create PROVE IEr'
<1>1. /\ DarfBeginnen /\ FreieZeilen # {}
      /\ UNCHANGED <<objekte, bearbeitung, postfach, grenze, eingang, spur, ausfaelle, gespeichert, erZugleich>>
  BY DEF Create
<1>2. PICK n \in Nummern : \E b \in 1..MaxErBetrag :
        rechnung' = [rechnung EXCEPT ![Naechste] = [@ EXCEPT !.status = "offen", !.nummer = n, !.netto = b]]
  BY DEF Create
<1>3. PICK b \in 1..MaxErBetrag :
        rechnung' = [rechnung EXCEPT ![Naechste] = [@ EXCEPT !.status = "offen", !.nummer = n, !.netto = b]]
  BY <1>2
<1>4. PICK e : e = Naechste
  OBVIOUS
<1>5. /\ e \in Eingangsrechnungen /\ rechnung[e] = KeineZeile /\ e \notin DOMAIN eingang.zeilen
      /\ \A a \in ErAnfragen : bearbeitung[a].zeile # e
  BY <1>1, <1>4, FreieZeile
<1>6. PICK z : z = [KeineZeile EXCEPT !.status = "offen", !.nummer = n, !.netto = b]
  OBVIOUS
<1>7. /\ z \in Zeilen /\ z.status = "offen" /\ z.xml = Leer /\ z.mail = 0 /\ z.beleg = 0
      /\ z.ersetzt = FALSE /\ z.durchZahlung = FALSE
  <2>1. b \in 0..MaxErBetrag
    BY <1>3, ErGroessen
  <2>2. QED
    BY <1>6, <2>1, KeineZeileFakten DEF Zeilen, KeineZeile
<1>8. rechnung' = [rechnung EXCEPT ![e] = z]
  BY <1>3, <1>4, <1>5, <1>6, ErFakten
<1>9. /\ rechnung' \in [Eingangsrechnungen -> Zeilen] /\ rechnung'[e] = z
      /\ \A f \in Eingangsrechnungen \ {e} : rechnung'[f] = rechnung[f]
  BY <1>5, <1>7, <1>8, ZeileGetauscht
<1>10. \A f \in Eingangsrechnungen : rechnung'[f].mail = rechnung[f].mail /\ ZeileGilt(rechnung'[f])
  BY <1>5, <1>7, <1>9, KeineZeileFakten DEF ZeileGilt, IEr, ZeilenGelten
<1>11. (ErZustand /\ PostGilt /\ ZeilenGelten /\ SpurGilt)'
  <2>1. \A f \in DOMAIN eingang.zeilen :
            /\ rechnung'[f] = rechnung[f] /\ \A a \in ErAnfragen : bearbeitung'[a].zeile # f
            /\ Gebraucht(f, eingang.zeilen[f]) \subseteq objekte'
    BY <1>1, <1>5, <1>9, ErFakten DEF IEr, ZeilenGelten
  <2>2. objekte' \subseteq Eingangsrechnungen \X (0..MaxBelege) /\ ausfaelle' \in 0..MaxAusfaelle
    BY <1>1, ErFakten DEF IEr, ErZustand
  <2>3. bearbeitung' \in [ErAnfragen -> ErAnfrageTyp]
    BY <1>1, ErFakten
  <2>4. QED
    BY <1>1, <1>9, <1>10, <2>1, <2>2, <2>3, EingangRuht
<1>12. AnfragenGelten'
  <2>1. \A a \in ErAnfragen : bearbeitung[a].art = "import" => rechnung'[bearbeitung[a].zeile] = rechnung[bearbeitung[a].zeile]
    BY <1>5, <1>9, AnfrageFakten, ErGroessen DEF Aenderungen, Belegarten
  <2>2. ASSUME NEW a \in ErAnfragen, bearbeitung[a].art \in Aenderungen \cup Belegarten
        PROVE  rechnung'[bearbeitung[a].zeile].status # "keine"
    <3>1. bearbeitung[a].zeile \in Eingangsrechnungen /\ rechnung[bearbeitung[a].zeile].status # "keine"
      BY <2>2, AnfrageFakten, ErGroessen
    <3>2. QED
      BY <3>1, <1>5, <1>9
  <2>3. QED
    BY <1>1, <2>1, <2>2, AnfragenGehenWeiter
<1>13. SchluesselFrei'
  BY <1>1, <1>5, <1>7, <1>9, KeineZeileFakten, SchluesselBleibt
<1>14. Allein'
  BY <1>1, BeginntAllein, AlleinBleibt
<1>15. BuecherGelten'
  BY <1>1, <1>5, <1>7, <1>9, ErFakten, BuecherGehenWeiter
<1>16. BelegeVorhanden'
  <2>1. z.ersetzt = KeineZeile.ersetzt /\ z.xml = KeineZeile.xml /\ z.beleg = KeineZeile.beleg
    BY <1>7, KeineZeileFakten DEF KeineZeile
  <2>2. \A f \in Eingangsrechnungen : /\ rechnung'[f].xml = rechnung[f].xml /\ rechnung'[f].beleg = rechnung[f].beleg
                                      /\ rechnung'[f].ersetzt = rechnung[f].ersetzt
    BY <1>5, <1>9, <2>1
  <2>3. QED
    BY <1>1, <2>2, BelegeHalten
<1>17. QED
  BY <1>11, <1>12, <1>13, <1>14, <1>15, <1>16 DEF IEr

LEMMA RestoreErhaelt ==
  ASSUME IEr, NEW e \in Eingangsrechnungen, Restore(e) PROVE IEr'
<1>1. /\ DarfBeginnen /\ rechnung[e].geloescht
      /\ UNCHANGED <<objekte, bearbeitung, postfach, grenze, eingang, spur, ausfaelle, gespeichert, erZugleich>>
  BY DEF Restore
<1>2. PICK y : y = rechnung[e]
  OBVIOUS
<1>3. y \in Zeilen /\ ZeileGilt(y) /\ y.geloescht
  BY <1>1, <1>2, ErFakten DEF IEr, ZeilenGelten
<1>4. PICK z : z = [y EXCEPT !.geloescht = FALSE, !.zurueck = TRUE]
  OBVIOUS
<1>5. /\ z \in Zeilen /\ z.status = y.status /\ z.xml = y.xml /\ z.mail = y.mail /\ z.beleg = y.beleg
      /\ z.ersetzt = y.ersetzt /\ z.zurueck = TRUE
  BY <1>3, <1>4 DEF Zeilen
<1>6. z.durchZahlung = y.durchZahlung /\ z.gezahlt = y.gezahlt /\ z.positionen = y.positionen /\ z.netto = y.netto
  BY <1>3, <1>4 DEF Zeilen
<1>7. rechnung' = [rechnung EXCEPT ![e] = z]
  BY <1>2, <1>4, ErFakten DEF Restore
<1>8. /\ rechnung' \in [Eingangsrechnungen -> Zeilen] /\ rechnung'[e] = z
      /\ \A f \in Eingangsrechnungen \ {e} : rechnung'[f] = rechnung[f]
  BY <1>5, <1>7, ZeileGetauscht
<1>9. y.status # "keine" /\ y # KeineZeile
  BY <1>3, KeineZeileFakten DEF ZeileGilt
<1>10. \A f \in Eingangsrechnungen : rechnung'[f].mail = rechnung[f].mail /\ ZeileGilt(rechnung'[f])
  BY <1>2, <1>3, <1>5, <1>8, <1>9 DEF ZeileGilt, IEr, ZeilenGelten
<1>11. (ErZustand /\ PostGilt /\ ZeilenGelten /\ SpurGilt)'
  <2>1. \A f \in DOMAIN eingang.zeilen :
            /\ rechnung'[f] = rechnung[f] /\ \A a \in ErAnfragen : bearbeitung'[a].zeile # f
            /\ Gebraucht(f, eingang.zeilen[f]) \subseteq objekte'
    BY <1>1, <1>2, <1>9, <1>8, ErFakten DEF IEr, ZeilenGelten
  <2>2. objekte' \subseteq Eingangsrechnungen \X (0..MaxBelege) /\ ausfaelle' \in 0..MaxAusfaelle
    BY <1>1, ErFakten DEF IEr, ErZustand
  <2>3. bearbeitung' \in [ErAnfragen -> ErAnfrageTyp]
    BY <1>1, ErFakten
  <2>4. QED
    BY <1>1, <1>8, <1>10, <2>1, <2>2, <2>3, EingangRuht
<1>12. AnfragenGelten'
  <2>1. \A a \in ErAnfragen : bearbeitung[a].art = "import" => rechnung'[bearbeitung[a].zeile] = rechnung[bearbeitung[a].zeile]
    BY <1>2, <1>9, <1>8, AnfrageFakten, ErGroessen DEF Aenderungen, Belegarten
  <2>2. ASSUME NEW a \in ErAnfragen, bearbeitung[a].art \in Aenderungen \cup Belegarten
        PROVE  rechnung'[bearbeitung[a].zeile].status # "keine"
    <3>1. bearbeitung[a].zeile \in Eingangsrechnungen /\ rechnung[bearbeitung[a].zeile].status # "keine"
      BY <2>2, AnfrageFakten, ErGroessen
    <3>2. QED
      BY <3>1, <1>2, <1>5, <1>8, <1>9
  <2>3. QED
    BY <1>1, <2>1, <2>2, AnfragenGehenWeiter
<1>13. SchluesselFrei'
  BY <1>1, <1>2, <1>5, <1>8, SchluesselBleibt
<1>14. Allein'
  BY <1>1, BeginntAllein, AlleinBleibt
<1>15. BuecherGelten'
  <2>1. ~erZugleich /\ z.durchZahlung => z.status = "bezahlt" /\ z.gezahlt = Brutto(z)
    BY <1>2, <1>5, <1>6 DEF IEr, BuecherGelten, Brutto
  <2>2. \A f \in DOMAIN eingang.zeilen : rechnung'[f] = rechnung[f]
    BY <1>2, <1>9, <1>8, ErFakten DEF IEr, ZeilenGelten
  <2>3. QED
    BY <1>1, <1>5, <1>8, <2>1, <2>2, BuecherGehenWeiter
<1>16. BelegeVorhanden'
  BY <1>1, <1>2, <1>5, <1>8, BelegeHalten
<1>17. QED
  BY <1>11, <1>12, <1>13, <1>14, <1>15, <1>16 DEF IEr

\* A request has read what it needs.
LEMMA AnfrageKommt ==
  ASSUME IEr, NEW a \in ErAnfragen, NEW r \in ErAnfrageTyp, bearbeitung[a] = OhneAnfrage, DarfBeginnen,
         bearbeitung' = [bearbeitung EXCEPT ![a] = r],
         UNCHANGED <<rechnung, objekte, postfach, grenze, eingang, spur, ausfaelle, gespeichert, erZugleich>>,
         r.art # Leer, r.abgelegt = FALSE, r.zeile \in Eingangsrechnungen, r.zeile \notin DOMAIN eingang.zeilen,
         \A b \in ErAnfragen \ {a} : bearbeitung[b].art = "import" => bearbeitung[b].zeile # r.zeile,
         r.art = "import" =>
           /\ rechnung[r.zeile] = KeineZeile /\ \A b \in ErAnfragen \ {a} : bearbeitung[b].zeile # r.zeile
           /\ ZeileGilt(r.alt) /\ NeueZeile(r.alt) /\ r.alt.mail = 0 /\ r.alt.xml # Leer
           /\ r.alt.xml \in Dateien /\ r.alt.nummer = Nummer[r.alt.xml] /\ ~Duplikat(r.alt.xml, rechnung),
         r.art \in Aenderungen \cup Belegarten => rechnung[r.zeile].status # "keine" /\ r.alt = rechnung[r.zeile],
         r.art = "betrag" => r.wert <= MaxErBetrag,
         r.art = "bestaetigen" => r.wert \in Nummern,
         r.art \in Aenderungen => Zulaessig(r.art, r.alt, r.wert),
         rechnung[r.zeile].beleg \in {0, r.alt.beleg}
  PROVE  IEr'
<1>1. /\ bearbeitung' \in [ErAnfragen -> ErAnfrageTyp] /\ bearbeitung'[a] = r
      /\ \A b \in ErAnfragen \ {a} : bearbeitung'[b] = bearbeitung[b]
  BY AnfrageGetauscht
<1>2. /\ rechnung' \in [Eingangsrechnungen -> Zeilen] /\ \A e \in Eingangsrechnungen : rechnung'[e] = rechnung[e]
      /\ objekte' \subseteq Eingangsrechnungen \X (0..MaxBelege) /\ ausfaelle' \in 0..MaxAusfaelle
  BY ErFakten DEF IEr, ErZustand
<1>3. (ErZustand /\ PostGilt /\ ZeilenGelten /\ SpurGilt)'
  <2>1. \A e \in DOMAIN eingang.zeilen :
            /\ rechnung'[e] = rechnung[e] /\ \A b \in ErAnfragen : bearbeitung'[b].zeile # e
            /\ Gebraucht(e, eingang.zeilen[e]) \subseteq objekte'
    BY <1>1 DEF IEr, ZeilenGelten
  <2>2. \A e \in Eingangsrechnungen : rechnung'[e].mail = rechnung[e].mail /\ ZeileGilt(rechnung'[e])
    BY <1>2 DEF IEr, ZeilenGelten
  <2>3. QED
    BY <1>1, <1>2, <2>1, <2>2, EingangRuht
<1>4. AnfragenGelten'
  <2>1. AnfrageGilt(a)'
    BY <1>1, <1>2, ErGroessen DEF AnfrageGilt
  <2>2. ASSUME NEW b \in ErAnfragen \ {a} PROVE AnfrageGilt(b)'
    <3>1. PICK s : s = bearbeitung[b]
      OBVIOUS
    <3>2. bearbeitung'[b] = s
      BY <1>1, <3>1
    <3>3. AnfrageGilt(b)
      BY ErFakten
    <3>4. s.art = "import" => \A c \in ErAnfragen \ {b} : bearbeitung'[c].zeile # s.zeile
      BY <1>1, <3>1, AnfrageFakten
    <3>5. s.abgelegt => \A c \in ErAnfragen \ {b} : bearbeitung'[c].zeile = s.zeile => ~bearbeitung'[c].abgelegt
      BY <1>1, <3>1, AnfrageFakten
    <3>6. QED
      BY <3>1, <3>2, <3>3, <3>4, <3>5 DEF AnfrageGilt
  <2>3. QED
    BY <2>1, <2>2 DEF AnfragenGelten
<1>5. SchluesselFrei'
  <2>1. ASSUME NEW e \in Eingangsrechnungen, \A b \in ErAnfragen : bearbeitung'[b].zeile = e
        PROVE  rechnung'[e].beleg \in {0} \cup {bearbeitung'[b].alt.beleg : b \in ErAnfragen}
    <3>1. e = r.zeile
      BY <1>1, <2>1
    <3>2. QED
      BY <1>1, <1>2, <3>1
  <2>2. QED
    BY <2>1 DEF SchluesselFrei
<1>6. Allein'
  <2> SUFFICES ASSUME ~erZugleich PROVE Allein'
    BY DEF Allein
  <2>1. ~eingang.laeuft /\ \A b \in ErAnfragen \ {a} : bearbeitung'[b] = OhneAnfrage
    BY <1>1, BeginntAllein
  <2>2. \A b, c \in ErAnfragen : b = c \/ bearbeitung'[b].art = Leer \/ bearbeitung'[c].art = Leer
    BY <2>1, OhneAnfrageFakten
  <2>3. \A d : Duplikat(d, rechnung)' <=> Duplikat(d, rechnung)
    BY DEF Duplikat
  <2>4. ASSUME NEW b \in ErAnfragen, NEW s, s = bearbeitung'[b]
        PROVE  /\ s.art \in Aenderungen \cup Belegarten => s.alt = rechnung'[s.zeile]
               /\ s.art \in Aenderungen => Zulaessig(s.art, s.alt, s.wert)
               /\ s.art = "import" =>
                    s.alt.xml \in Dateien /\ s.alt.nummer = Nummer[s.alt.xml] /\ ~Duplikat(s.alt.xml, rechnung)'
    <3>1. CASE b = a
      BY <1>1, <1>2, <2>3, <2>4, <3>1
    <3>2. CASE b # a
      <4>1. s.art = Leer
        BY <2>1, <2>4, <3>2, OhneAnfrageFakten
      <4>2. QED
        BY <4>1, ErGroessen
    <3>3. QED
      BY <3>1, <3>2
  <2>5. QED
    BY <2>1, <2>2, <2>4 DEF Allein
<1>7. BuecherGelten'
  BY <1>2, ErFakten, BuecherGehenWeiter
<1>8. BelegeVorhanden'
  <2>1. \A b \in ErAnfragen : bearbeitung[b].abgelegt => bearbeitung'[b] = bearbeitung[b]
    BY <1>1, OhneAnfrageFakten
  <2>2. QED
    BY <1>2, <2>1, BelegeHalten
<1>9. QED
  BY <1>3, <1>4, <1>5, <1>6, <1>7, <1>8 DEF IEr

LEMMA LesenErhaelt ==
  ASSUME IEr, NEW a \in ErAnfragen, Lesen(a) PROVE IEr'
<1>1. /\ bearbeitung[a] = OhneAnfrage /\ DarfBeginnen
      /\ UNCHANGED <<rechnung, objekte, postfach, grenze, eingang, spur, ausfaelle, gespeichert, erZugleich>>
  BY DEF Lesen
<1>2. PICK e \in Eingangsrechnungen : \E art \in Aenderungen \cup Belegarten, w \in (0..MaxErBetrag) \cup Nummern :
          /\ Lebt(rechnung[e]) /\ Zulaessig(art, rechnung[e], w)
          /\ bearbeitung' = [bearbeitung EXCEPT ![a] =
                            [art |-> art, zeile |-> e, alt |-> rechnung[e], wert |-> w, abgelegt |-> FALSE]]
  BY DEF Lesen
<1>3. PICK art \in Aenderungen \cup Belegarten : \E w \in (0..MaxErBetrag) \cup Nummern :
          /\ Lebt(rechnung[e]) /\ Zulaessig(art, rechnung[e], w)
          /\ bearbeitung' = [bearbeitung EXCEPT ![a] =
                            [art |-> art, zeile |-> e, alt |-> rechnung[e], wert |-> w, abgelegt |-> FALSE]]
  BY <1>2
<1>4. PICK w \in (0..MaxErBetrag) \cup Nummern :
          /\ Lebt(rechnung[e]) /\ Zulaessig(art, rechnung[e], w)
          /\ bearbeitung' = [bearbeitung EXCEPT ![a] =
                            [art |-> art, zeile |-> e, alt |-> rechnung[e], wert |-> w, abgelegt |-> FALSE]]
  BY <1>3
<1>5. PICK r : r = [art |-> art, zeile |-> e, alt |-> rechnung[e], wert |-> w, abgelegt |-> FALSE]
  OBVIOUS
<1>6. /\ r.art = art /\ r.zeile = e /\ r.alt = rechnung[e] /\ r.wert = w /\ r.abgelegt = FALSE
  BY <1>5
<1>7. r \in ErAnfrageTyp
  <2>1. w \in Nat /\ rechnung[e] \in Zeilen
    BY <1>2, <1>4, ErGroessen, ErFakten
  <2>2. QED
    BY <1>3, <1>5, <2>1 DEF ErAnfrageTyp
<1>8. art # Leer /\ art # "import"
  BY <1>3, ErGroessen DEF Aenderungen, Belegarten
<1>9. rechnung[e].status # "keine" /\ rechnung[e] # KeineZeile
  BY <1>4, KeineZeileFakten DEF Lebt
<1>10. e \notin DOMAIN eingang.zeilen
  BY <1>9 DEF IEr, ZeilenGelten
<1>11. \A b \in ErAnfragen \ {a} : bearbeitung[b].art = "import" => bearbeitung[b].zeile # e
  BY <1>9, AnfrageFakten
<1>12. (art = "betrag" => w <= MaxErBetrag) /\ (art = "bestaetigen" => w \in Nummern)
  BY <1>4, ErGroessen DEF Zulaessig, Belegarten
<1>13. QED
  BY <1>1, <1>2, <1>3, <1>4, <1>5, <1>6, <1>7, <1>8, <1>9, <1>10, <1>11, <1>12, AnfrageKommt

LEMMA ImportPrueftErhaelt ==
  ASSUME IEr, NEW a \in ErAnfragen, ImportPrueft(a) PROVE IEr'
<1>1. /\ bearbeitung[a] = OhneAnfrage /\ DarfBeginnen /\ FreieZeilen # {}
      /\ UNCHANGED <<rechnung, objekte, postfach, grenze, eingang, spur, ausfaelle, gespeichert, erZugleich>>
  BY DEF ImportPrueft
<1>2. PICK d \in Dateien : \E hybrid \in BOOLEAN :
          /\ ~Duplikat(d, rechnung)
          /\ bearbeitung' = [bearbeitung EXCEPT ![a] = [OhneAnfrage EXCEPT
                            !.art = "import", !.zeile = Naechste, !.alt = Importiert(d, hybrid, 0)]]
  BY DEF ImportPrueft
<1>3. PICK hybrid \in BOOLEAN :
          /\ ~Duplikat(d, rechnung)
          /\ bearbeitung' = [bearbeitung EXCEPT ![a] = [OhneAnfrage EXCEPT
                            !.art = "import", !.zeile = Naechste, !.alt = Importiert(d, hybrid, 0)]]
  BY <1>2
<1>4. PICK e : e = Naechste
  OBVIOUS
<1>5. PICK z : z = Importiert(d, hybrid, 0)
  OBVIOUS
<1>6. z \in Zeilen /\ ZeileGilt(z) /\ NeueZeile(z) /\ z.mail = 0 /\ z.xml = d /\ z.nummer = Nummer[d]
  BY <1>5, ErGroessen, ImportiertFakten
<1>7. /\ e \in Eingangsrechnungen /\ rechnung[e] = KeineZeile /\ e \notin DOMAIN eingang.zeilen
      /\ \A b \in ErAnfragen : bearbeitung[b].zeile # e
  BY <1>1, <1>4, FreieZeile
<1>8. PICK r : r = [OhneAnfrage EXCEPT !.art = "import", !.zeile = e, !.alt = z]
  OBVIOUS
<1>9. /\ r.art = "import" /\ r.zeile = e /\ r.alt = z /\ r.wert = 0 /\ r.abgelegt = FALSE /\ r \in ErAnfrageTyp
  BY <1>6, <1>7, <1>8 DEF OhneAnfrage, ErAnfrageTyp
<1>10. bearbeitung' = [bearbeitung EXCEPT ![a] = r]
  BY <1>3, <1>4, <1>5, <1>8
<1>11. "import" # Leer /\ d # Leer /\ "import" \notin Aenderungen \cup Belegarten \cup {"betrag", "bestaetigen"}
  BY ErGroessen DEF Aenderungen, Belegarten
<1>12. QED
  BY <1>1, <1>3, <1>6, <1>7, <1>9, <1>10, <1>11, KeineZeileFakten, AnfrageKommt, ZenonT(60)

LEMMA NachherGedeckt ==
  ASSUME NEW r, r.alt \in Zeilen, r.wert \in Nat, r.art \in Aenderungen \cup Belegarten, ZeileGilt(r.alt),
         r.art \in Aenderungen => Zulaessig(r.art, r.alt, r.wert),
         r.alt.durchZahlung => r.alt.status = "bezahlt" /\ r.alt.gezahlt = Brutto(r.alt)
  PROVE  /\ Nachher(r.alt, r).durchZahlung =>
              Nachher(r.alt, r).status = "bezahlt" /\ Nachher(r.alt, r).gezahlt = Brutto(Nachher(r.alt, r))
         /\ r.alt.xml # Leer => Nachher(r.alt, r).nummer = r.alt.nummer
<1> DEFINE z == r.alt
<1>1. z \in Zeilen /\ (z.durchZahlung => z.status = "bezahlt" /\ z.gezahlt = Brutto(z))
  OBVIOUS
<1>2. CASE r.art = "zahlung"
  <2>1. z.status = "offen" /\ r.wert > 0 /\ r.wert <= OffenerBetrag(z)
    BY <1>2 DEF Zulaessig, Aenderungen, Belegarten
  <2>2. ~z.durchZahlung
    BY <1>1, <2>1
  <2>3. PICK n : n = z.gezahlt + r.wert
    OBVIOUS
  <2>4. CASE OffenerBetrag(z) - r.wert <= 0
    <3>1. PICK y : y = [z EXCEPT !.gezahlt = n, !.status = "bezahlt", !.durchZahlung = TRUE]
      OBVIOUS
    <3>2. Nachher(z, r) = y
      BY <1>2, <2>3, <2>4, <3>1, <1>1, ZeileFelder DEF Nachher, Belegarten
    <3>3. y.status = "bezahlt" /\ y.gezahlt = n /\ y.positionen = z.positionen /\ y.netto = z.netto /\ y.nummer = z.nummer
      BY <1>1, <3>1 DEF Zeilen
    <3>4. Brutto(y) = Brutto(z)
      BY <3>3 DEF Brutto
    <3>5. Brutto(z) \in Nat /\ z.gezahlt \in Nat
      BY <1>1, ZeileFelder, ErGroessen DEF Brutto
    <3>6. n = Brutto(z)
      BY <2>1, <2>3, <2>4, <3>5 DEF OffenerBetrag
    <3>7. QED
      BY <3>2, <3>3, <3>4, <3>6
  <2>5. CASE ~(OffenerBetrag(z) - r.wert <= 0)
    <3>1. PICK y : y = [z EXCEPT !.gezahlt = n, !.status = z.status, !.durchZahlung = z.durchZahlung]
      OBVIOUS
    <3>2. Nachher(z, r) = y
      BY <1>2, <2>3, <2>5, <3>1, <1>1, ZeileFelder DEF Nachher, Belegarten
    <3>3. y.durchZahlung = z.durchZahlung /\ y.nummer = z.nummer
      BY <1>1, <3>1 DEF Zeilen
    <3>4. QED
      BY <2>2, <3>2, <3>3
  <2>6. QED
    BY <2>4, <2>5
<1>3. CASE r.art = "position"
  <2>1. Nachher(z, r) = [z EXCEPT !.positionen = @ + r.wert] /\ z.status = "offen"
    BY <1>3 DEF Nachher, Belegarten, Aenderungen, Zulaessig, PositionErlaubt
  <2>2. Nachher(z, r).durchZahlung = z.durchZahlung /\ Nachher(z, r).nummer = z.nummer
    BY <1>1, <2>1 DEF Zeilen
  <2>3. QED
    BY <1>1, <2>1, <2>2
<1>4. CASE r.art = "betrag"
  <2>1. Nachher(z, r) = [z EXCEPT !.netto = r.wert] /\ z.status \in {"entwurf", "offen"}
    BY <1>4 DEF Nachher, Belegarten, Aenderungen, Zulaessig
  <2>2. Nachher(z, r).durchZahlung = z.durchZahlung /\ Nachher(z, r).nummer = z.nummer
    BY <1>1, <2>1 DEF Zeilen
  <2>3. QED
    BY <1>1, <2>1, <2>2
<1>5. CASE r.art = "bestaetigen"
  <2>1. Nachher(z, r) = [z EXCEPT !.status = "offen", !.nummer = r.wert, !.netto = 1] /\ z.status = "entwurf"
    BY <1>5 DEF Nachher, Belegarten, Aenderungen, Zulaessig
  <2>2. Nachher(z, r).durchZahlung = z.durchZahlung
    BY <1>1, <2>1 DEF Zeilen
  <2>3. QED
    BY <1>1, <2>1, <2>2 DEF ZeileGilt
<1>6. CASE r.art \in {"bezahlt", "storniert"}
  <2>1. Nachher(z, r) = [z EXCEPT !.status = r.art] /\ z.status = "offen"
    BY <1>6 DEF Nachher, Belegarten, Aenderungen, Zulaessig
  <2>2. Nachher(z, r).durchZahlung = z.durchZahlung /\ Nachher(z, r).nummer = z.nummer
    BY <1>1, <2>1 DEF Zeilen
  <2>3. QED
    BY <1>1, <2>1, <2>2
<1>7. CASE r.art = "loeschen"
  <2>1. Nachher(z, r) = [z EXCEPT !.geloescht = TRUE] /\ z.status \in {"offen", "entwurf"}
    BY <1>7 DEF Nachher, Belegarten, Aenderungen, Zulaessig
  <2>2. Nachher(z, r).durchZahlung = z.durchZahlung /\ Nachher(z, r).nummer = z.nummer
    BY <1>1, <2>1 DEF Zeilen
  <2>3. QED
    BY <1>1, <2>1, <2>2
<1>8. CASE r.art \in Belegarten
  <2>1. Nachher(z, r) = [z EXCEPT !.beleg = r.wert, !.ersetzt = FALSE]
    BY <1>8 DEF Nachher, Belegarten
  <2>2. /\ Nachher(z, r).durchZahlung = z.durchZahlung /\ Nachher(z, r).nummer = z.nummer
        /\ Nachher(z, r).status = z.status /\ Nachher(z, r).gezahlt = z.gezahlt
    BY <1>1, <2>1 DEF Zeilen
  <2>3. Nachher(z, r).positionen = z.positionen /\ Nachher(z, r).netto = z.netto
    BY <1>1, <2>1 DEF Zeilen
  <2>4. QED
    BY <1>1, <2>2, <2>3 DEF Brutto
<1>9. QED
  BY <1>2, <1>3, <1>4, <1>5, <1>6, <1>7, <1>8 DEF Aenderungen

LEMMA AlleinAmWerk ==
  ASSUME IEr, NEW a \in ErAnfragen, bearbeitung[a].art # Leer, ~erZugleich
  PROVE  /\ ~eingang.laeuft /\ \A b \in ErAnfragen \ {a} : bearbeitung[b] = OhneAnfrage
         /\ bearbeitung[a].art \in Aenderungen \cup Belegarten => bearbeitung[a].alt = rechnung[bearbeitung[a].zeile]
         /\ bearbeitung[a].art \in Aenderungen =>
              Zulaessig(bearbeitung[a].art, bearbeitung[a].alt, bearbeitung[a].wert)
         /\ bearbeitung[a].art = "import" =>
              /\ bearbeitung[a].alt.xml \in Dateien /\ bearbeitung[a].alt.nummer = Nummer[bearbeitung[a].alt.xml]
              /\ ~Duplikat(bearbeitung[a].alt.xml, rechnung)
<1>1. Allein
  BY DEF IEr
<1>2. \A b \in ErAnfragen \ {a} : bearbeitung[b].art = Leer
  BY <1>1 DEF Allein
<1>3. QED
  BY <1>1, <1>2, AnfrageFakten DEF Allein

LEMMA AnfrageSchliesst ==
  ASSUME IEr, NEW a \in ErAnfragen, bearbeitung[a].art # Leer, bearbeitung' = [bearbeitung EXCEPT ![a] = OhneAnfrage],
         UNCHANGED <<eingang, erZugleich>>
  PROVE  /\ bearbeitung' \in [ErAnfragen -> ErAnfrageTyp] /\ bearbeitung'[a] = OhneAnfrage
         /\ \A b \in ErAnfragen \ {a} : bearbeitung'[b] = bearbeitung[b]
         /\ \A b \in ErAnfragen : bearbeitung'[b] \in {bearbeitung[b], OhneAnfrage}
         /\ SchluesselFrei' /\ Allein'
<1>1. /\ bearbeitung' \in [ErAnfragen -> ErAnfrageTyp] /\ bearbeitung'[a] = OhneAnfrage
      /\ \A b \in ErAnfragen \ {a} : bearbeitung'[b] = bearbeitung[b]
  BY OhneAnfrageFakten, AnfrageGetauscht
<1>2. \A b \in ErAnfragen : bearbeitung'[b] \in {bearbeitung[b], OhneAnfrage}
  BY <1>1
<1>3. SchluesselFrei'
  BY <1>1, OhneAnfrageFakten, SchluesselBleibt
<1>4. Allein'
  <2>1. ~erZugleich => \A b \in ErAnfragen : bearbeitung'[b] = OhneAnfrage
    BY <1>1, AlleinAmWerk
  <2>2. QED
    BY <1>2, <2>1, AlleinBleibt
<1>5. QED
  BY <1>1, <1>2, <1>3, <1>4

LEMMA ImportSchreibtErhaelt ==
  ASSUME IEr, NEW a \in ErAnfragen, ImportSchreibt(a) PROVE IEr'
<1>1. PICK r : r = bearbeitung[a]
  OBVIOUS
<1>2. /\ r.art = "import" /\ rechnung' = [rechnung EXCEPT ![r.zeile] = r.alt]
      /\ objekte' = objekte \cup Gebraucht(r.zeile, r.alt) /\ bearbeitung' = [bearbeitung EXCEPT ![a] = OhneAnfrage]
      /\ UNCHANGED <<postfach, grenze, eingang, spur, ausfaelle, gespeichert, erZugleich>>
  BY <1>1 DEF ImportSchreibt
<1>3. r.art # Leer
  BY <1>2, ErGroessen
<1>4. PICK e : e = r.zeile
  OBVIOUS
<1>5. PICK z : z = r.alt
  OBVIOUS
<1>6. /\ e \in Eingangsrechnungen /\ rechnung[e] = KeineZeile /\ \A b \in ErAnfragen \ {a} : bearbeitung[b].zeile # e
      /\ z \in Zeilen /\ ZeileGilt(z) /\ NeueZeile(z) /\ z.mail = 0 /\ z.xml # Leer
  BY <1>1, <1>2, <1>3, <1>4, <1>5, AnfrageFakten, ErFakten
<1>7. /\ rechnung' \in [Eingangsrechnungen -> Zeilen] /\ rechnung'[e] = z
      /\ \A f \in Eingangsrechnungen \ {e} : rechnung'[f] = rechnung[f]
  BY <1>2, <1>4, <1>5, <1>6, ZeileGetauscht
<1>8. /\ bearbeitung' \in [ErAnfragen -> ErAnfrageTyp] /\ bearbeitung'[a] = OhneAnfrage
      /\ \A b \in ErAnfragen \ {a} : bearbeitung'[b] = bearbeitung[b]
      /\ \A b \in ErAnfragen : bearbeitung'[b] \in {bearbeitung[b], OhneAnfrage}
      /\ SchluesselFrei' /\ Allein'
  BY <1>1, <1>2, <1>3, AnfrageSchliesst
<1>9. e \notin DOMAIN eingang.zeilen
  BY <1>1, <1>4 DEF IEr, ZeilenGelten
<1>10. Gebraucht(e, z) \subseteq Eingangsrechnungen \X (0..MaxBelege) /\ Gebraucht(e, z) \subseteq objekte'
  BY <1>2, <1>4, <1>5, <1>6, ZeileFelder, ErGroessen DEF Gebraucht
<1>11. (ErZustand /\ PostGilt /\ ZeilenGelten /\ SpurGilt)'
  <2>1. \A f \in DOMAIN eingang.zeilen :
            /\ rechnung'[f] = rechnung[f] /\ \A b \in ErAnfragen : bearbeitung'[b].zeile # f
            /\ Gebraucht(f, eingang.zeilen[f]) \subseteq objekte'
    BY <1>2, <1>7, <1>8, <1>9, OhneAnfrageFakten, ErGroessen, ErFakten DEF IEr, ZeilenGelten
  <2>2. \A f \in Eingangsrechnungen : rechnung'[f].mail = rechnung[f].mail /\ ZeileGilt(rechnung'[f])
    BY <1>6, <1>7, KeineZeileFakten DEF IEr, ZeilenGelten
  <2>3. objekte' \subseteq Eingangsrechnungen \X (0..MaxBelege) /\ ausfaelle' \in 0..MaxAusfaelle
    BY <1>2, <1>4, <1>5, <1>10, ErFakten DEF IEr, ErZustand
  <2>4. QED
    BY <1>2, <1>7, <1>8, <2>1, <2>2, <2>3, EingangRuht
<1>12. AnfragenGelten'
  <2>1. ASSUME NEW b \in ErAnfragen, bearbeitung[b].art = "import", bearbeitung'[b] = bearbeitung[b]
        PROVE  rechnung'[bearbeitung[b].zeile] = rechnung[bearbeitung[b].zeile]
    <3>1. b # a
      BY <1>1, <1>3, <1>8, <2>1, OhneAnfrageFakten
    <3>2. bearbeitung[b].zeile \in Eingangsrechnungen \ {e}
      BY <1>6, <2>1, <3>1, AnfrageFakten, ErGroessen
    <3>3. QED
      BY <1>7, <3>2
  <2>2. ASSUME NEW b \in ErAnfragen, bearbeitung[b].art \in Aenderungen \cup Belegarten
        PROVE  rechnung'[bearbeitung[b].zeile].status # "keine"
    <3>1. bearbeitung[b].zeile \in Eingangsrechnungen /\ rechnung[bearbeitung[b].zeile].status # "keine"
      BY <2>2, AnfrageFakten, ErGroessen
    <3>2. QED
      BY <3>1, <1>6, <1>7, KeineZeileFakten
  <2>3. QED
    BY <1>2, <1>8, <2>1, <2>2, AnfragenGehenWeiter
<1>13. BuecherGelten'
  <2> SUFFICES ASSUME ~erZugleich PROVE BuecherGelten'
    BY <1>2 DEF BuecherGelten
  <2>1. ~eingang.laeuft /\ z.xml \in Dateien /\ z.nummer = Nummer[z.xml] /\ ~Duplikat(z.xml, rechnung)
    BY <1>1, <1>2, <1>3, <1>5, AlleinAmWerk
  <2>2. Darueber(eingang.zeilen, rechnung) = rechnung /\ DOMAIN eingang.zeilen = {}
    BY <2>1, NichtsDarueber
  <2>3. Verschieden(rechnung)
    BY <2>2 DEF IEr, BuecherGelten
  <2>4. PICK g : g = rechnung'
    OBVIOUS
  <2>5. Verschieden(g)
    <3>1. DOMAIN rechnung = Eingangsrechnungen /\ DOMAIN g = Eingangsrechnungen
      BY <1>7, <2>4, ErFakten
    <3>2. \A x \in Eingangsrechnungen \ {e} : Lebt(g[x]) => g[x].xml # z.xml /\ g[x].nummer # z.nummer
      BY <1>7, <2>1, <2>4, <3>1 DEF Duplikat
    <3>3. \A x \in Eingangsrechnungen \ {e} : rechnung[x] = g[x]
      BY <1>7, <2>4
    <3>4. g[e] = z
      BY <1>7, <2>4
    <3>5. QED
      BY <2>3, <3>1, <3>2, <3>3, <3>4, VerschiedenBleibt
  <2>6. Verschieden(Darueber(eingang.zeilen, rechnung))'
    <3>1. Darueber(eingang.zeilen, rechnung)' = [x \in Eingangsrechnungen |-> rechnung'[x]]
      BY <1>2, <1>7, <2>2 DEF Darueber
    <3>2. Darueber(eingang.zeilen, rechnung)' = g
      BY <1>7, <2>4, <3>1
    <3>3. QED
      BY <2>5, <3>2 DEF Verschieden
  <2>7. \A f \in Eingangsrechnungen : rechnung'[f].durchZahlung =>
          rechnung'[f].status = "bezahlt" /\ rechnung'[f].gezahlt = Brutto(rechnung'[f])
    BY <1>6, <1>7 DEF IEr, BuecherGelten, NeueZeile, Brutto
  <2>8. QED
    BY <2>6, <2>7 DEF BuecherGelten, Brutto
<1>14. BelegeVorhanden'
  <2>1. BelegVorhanden(e)'
    BY <1>7, <1>10 DEF BelegVorhanden, Gebraucht
  <2>2. \A b \in ErAnfragen : bearbeitung[b].abgelegt => bearbeitung'[b] = bearbeitung[b]
    BY <1>1, <1>2, <1>8, AnfrageFakten DEF Belegarten
  <2>3. QED
    BY <1>2, <1>7, <2>1, <2>2, BelegeHalten
<1>15. QED
  BY <1>8, <1>11, <1>12, <1>13, <1>14 DEF IEr

LEMMA SchreibenErhaelt ==
  ASSUME IEr, NEW a \in ErAnfragen, Schreiben(a) PROVE IEr'
<1>1. PICK r : r = bearbeitung[a]
  OBVIOUS
<1>2. /\ r.art \in Aenderungen \cup Belegarten /\ (r.art \in Belegarten => r.abgelegt)
      /\ bearbeitung' = [bearbeitung EXCEPT ![a] = OhneAnfrage]
      /\ UNCHANGED <<objekte, postfach, grenze, eingang, spur, ausfaelle, gespeichert, erZugleich>>
  BY <1>1 DEF Schreiben
<1>3. r.art # Leer
  BY <1>2, ErGroessen
<1>4. PICK e : e = r.zeile
  OBVIOUS
<1>5. PICK z : z = rechnung[e]
  OBVIOUS
<1>6. PICK y : y = Nachher(z, r)
  OBVIOUS
<1>7. /\ e \in Eingangsrechnungen /\ z.status # "keine" /\ z \in Zeilen /\ ZeileGilt(z) /\ r.alt \in Zeilen /\ r.wert \in Nat
      /\ r.art = "betrag" => r.wert <= MaxErBetrag
      /\ r.art = "bestaetigen" => r.wert \in Nummern
      /\ r.art \in Belegarten => r.wert \in 0..MaxBelege /\ (r.wert # 0 => <<e, r.wert>> \in objekte)
      /\ r.abgelegt => r.art \in Belegarten
  <2>1. e \in Eingangsrechnungen /\ z.status # "keine"
    BY <1>1, <1>2, <1>3, <1>4, <1>5, AnfrageFakten
  <2>2. z \in Zeilen /\ ZeileGilt(z)
    BY <1>5, <2>1, ErFakten DEF IEr, ZeilenGelten
  <2>3. QED
    BY <1>1, <1>2, <1>4, <2>1, <2>2, AnfrageFakten, ErFakten
<1>8. /\ y \in Zeilen /\ y.xml = z.xml /\ y.mail = z.mail /\ y.zurueck = z.zurueck
      /\ y.status \in {z.status, "bezahlt", "storniert", "offen"} /\ (y.geloescht = FALSE => z.geloescht = FALSE)
      /\ r.art \in Aenderungen => y.beleg = z.beleg /\ y.ersetzt = z.ersetzt
      /\ r.art \in Belegarten => y.beleg = r.wert /\ y.ersetzt = FALSE
  BY <1>2, <1>6, <1>7, NachherFakten, ZenonT(60)
<1>9. /\ rechnung' \in [Eingangsrechnungen -> Zeilen] /\ rechnung'[e] = y
      /\ \A f \in Eingangsrechnungen \ {e} : rechnung'[f] = rechnung[f]
  <2>1. rechnung' = [rechnung EXCEPT ![e] = y]
    BY <1>1, <1>4, <1>5, <1>6, ErFakten DEF Schreiben
  <2>2. QED
    BY <1>7, <1>8, <2>1, ZeileGetauscht
<1>10. /\ bearbeitung' \in [ErAnfragen -> ErAnfrageTyp] /\ bearbeitung'[a] = OhneAnfrage
       /\ \A b \in ErAnfragen \ {a} : bearbeitung'[b] = bearbeitung[b]
       /\ \A b \in ErAnfragen : bearbeitung'[b] \in {bearbeitung[b], OhneAnfrage}
       /\ SchluesselFrei' /\ Allein'
  BY <1>1, <1>2, <1>3, AnfrageSchliesst
<1>11. y.status # "keine" /\ ZeileGilt(y)
  BY <1>7, <1>8 DEF ZeileGilt
<1>12. e \notin DOMAIN eingang.zeilen
  BY <1>1, <1>4 DEF IEr, ZeilenGelten
<1>13. (ErZustand /\ PostGilt /\ ZeilenGelten /\ SpurGilt)'
  <2>1. \A f \in DOMAIN eingang.zeilen :
            /\ rechnung'[f] = rechnung[f] /\ \A b \in ErAnfragen : bearbeitung'[b].zeile # f
            /\ Gebraucht(f, eingang.zeilen[f]) \subseteq objekte'
    BY <1>2, <1>9, <1>10, <1>12, OhneAnfrageFakten, ErGroessen, ErFakten DEF IEr, ZeilenGelten
  <2>2. \A f \in Eingangsrechnungen : rechnung'[f].mail = rechnung[f].mail /\ ZeileGilt(rechnung'[f])
    BY <1>5, <1>8, <1>9, <1>11 DEF IEr, ZeilenGelten
  <2>3. objekte' \subseteq Eingangsrechnungen \X (0..MaxBelege) /\ ausfaelle' \in 0..MaxAusfaelle
    BY <1>2, ErFakten DEF IEr, ErZustand
  <2>4. QED
    BY <1>2, <1>9, <1>10, <2>1, <2>2, <2>3, EingangRuht
<1>14. AnfragenGelten'
  <2>1. ASSUME NEW b \in ErAnfragen, bearbeitung[b].art = "import"
        PROVE  rechnung'[bearbeitung[b].zeile] = rechnung[bearbeitung[b].zeile]
    <3>1. bearbeitung[b].zeile \in Eingangsrechnungen /\ rechnung[bearbeitung[b].zeile] = KeineZeile
      BY <2>1, AnfrageFakten, ErGroessen
    <3>2. bearbeitung[b].zeile # e
      BY <1>5, <1>7, <3>1, KeineZeileFakten
    <3>3. QED
      BY <1>9, <3>1, <3>2
  <2>2. ASSUME NEW b \in ErAnfragen, bearbeitung[b].art \in Aenderungen \cup Belegarten
        PROVE  rechnung'[bearbeitung[b].zeile].status # "keine"
    <3>1. bearbeitung[b].zeile \in Eingangsrechnungen /\ rechnung[bearbeitung[b].zeile].status # "keine"
      BY <2>2, AnfrageFakten, ErGroessen
    <3>2. QED
      BY <3>1, <1>9, <1>11
  <2>3. QED
    BY <1>2, <1>10, <2>1, <2>2, AnfragenGehenWeiter
<1>15. BuecherGelten'
  <2>1. ASSUME ~erZugleich
        PROVE  /\ Lebt(y) /\ y.xml # Leer /\ ~y.zurueck => Lebt(z) /\ z.nummer = y.nummer
               /\ y.durchZahlung => y.status = "bezahlt" /\ y.gezahlt = Brutto(y)
    <3>1. r.alt = z /\ (r.art \in Aenderungen => Zulaessig(r.art, r.alt, r.wert))
      BY <1>1, <1>2, <1>3, <1>4, <1>5, <2>1, AlleinAmWerk
    <3>2. z.durchZahlung => z.status = "bezahlt" /\ z.gezahlt = Brutto(z)
      BY <1>5, <1>7, <2>1 DEF IEr, BuecherGelten
    <3>3. /\ y.durchZahlung => y.status = "bezahlt" /\ y.gezahlt = Brutto(y)
          /\ z.xml # Leer => y.nummer = z.nummer
      BY <1>2, <1>6, <1>7, <3>1, <3>2, NachherGedeckt
    <3>4. y.geloescht \in BOOLEAN /\ z.geloescht \in BOOLEAN
      BY <1>7, <1>8, ZeileFelder
    <3>5. QED
      BY <1>7, <1>8, <3>3, <3>4 DEF Lebt
  <2>2. \A f \in DOMAIN eingang.zeilen : rechnung'[f] = rechnung[f]
    BY <1>9, <1>12, ErFakten
  <2>3. QED
    BY <1>2, <1>5, <1>8, <1>9, <2>1, <2>2, BuecherGehenWeiter
<1>16. BelegeVorhanden'
  <2>1. BelegVorhanden(e)
    BY <1>7 DEF IEr, BelegeVorhanden
  <2>2. BelegVorhanden(e)'
    <3>1. CASE r.art \in Belegarten
      BY <1>2, <1>5, <1>7, <1>8, <1>9, <2>1, <3>1 DEF BelegVorhanden
    <3>2. CASE r.art \in Aenderungen /\ r.art \notin Belegarten
      <4>1. \A b \in ErAnfragen : bearbeitung[b].abgelegt => bearbeitung'[b] = bearbeitung[b]
        BY <1>1, <1>10, <3>2, AnfrageFakten
      <4>2. QED
        BY <1>2, <1>5, <1>8, <1>9, <2>1, <3>2, <4>1 DEF BelegVorhanden
    <3>3. QED
      BY <1>2, <3>1, <3>2
  <2>3. ASSUME NEW f \in Eingangsrechnungen \ {e} PROVE BelegVorhanden(f)'
    <3>1. BelegVorhanden(f)
      BY DEF IEr, BelegeVorhanden
    <3>2. \A b \in ErAnfragen : bearbeitung[b].zeile = f => bearbeitung'[b] = bearbeitung[b]
      BY <1>1, <1>4, <1>10
    <3>3. QED
      BY <1>2, <1>9, <3>1, <3>2 DEF BelegVorhanden
  <2>4. QED
    BY <2>2, <2>3 DEF BelegeVorhanden
<1>17. QED
  BY <1>10, <1>13, <1>14, <1>15, <1>16 DEF IEr

LEMMA SchreibenScheitertErhaelt ==
  ASSUME IEr, NEW a \in ErAnfragen, SchreibenScheitert(a) PROVE IEr'
<1>1. PICK r : r = bearbeitung[a]
  OBVIOUS
<1>2. /\ r.art # Leer /\ ausfaelle < MaxAusfaelle /\ ausfaelle' = ausfaelle + 1
      /\ bearbeitung' = [bearbeitung EXCEPT ![a] = OhneAnfrage]
      /\ UNCHANGED <<objekte, postfach, grenze, eingang, spur, gespeichert, erZugleich>>
  BY <1>1 DEF SchreibenScheitert
<1>3. PICK e : e = r.zeile
  OBVIOUS
<1>4. PICK z : z = rechnung[e]
  OBVIOUS
<1>5. PICK y : y = IF r.abgelegt /\ z.beleg \in {r.alt.beleg} \ {0} THEN [z EXCEPT !.ersetzt = TRUE] ELSE z
  OBVIOUS
<1>6. e \in Eingangsrechnungen /\ z \in Zeilen /\ ZeileGilt(z) /\ e \notin DOMAIN eingang.zeilen
  <2>1. e \in Eingangsrechnungen
    BY <1>1, <1>2, <1>3, AnfrageFakten
  <2>2. QED
    BY <1>1, <1>3, <1>4, <2>1, ErFakten DEF IEr, ZeilenGelten
<1>7. /\ y \in Zeilen /\ y.status = z.status /\ y.geloescht = z.geloescht /\ y.xml = z.xml /\ y.nummer = z.nummer
      /\ y.mail = z.mail /\ y.beleg = z.beleg /\ y.zurueck = z.zurueck
  BY <1>5, <1>6 DEF Zeilen
<1>8. y.durchZahlung = z.durchZahlung /\ y.gezahlt = z.gezahlt /\ y.positionen = z.positionen /\ y.netto = z.netto
  BY <1>5, <1>6 DEF Zeilen
<1>9. /\ r.abgelegt /\ z.beleg = r.alt.beleg /\ z.beleg # 0 => y.ersetzt = TRUE
      /\ z.ersetzt => y.ersetzt
      /\ z.beleg = 0 => y = z
  <2>1. CASE r.abgelegt /\ z.beleg \in {r.alt.beleg} \ {0}
    BY <1>5, <1>6, <2>1 DEF Zeilen
  <2>2. CASE ~(r.abgelegt /\ z.beleg \in {r.alt.beleg} \ {0})
    BY <1>5, <2>2
  <2>3. QED
    BY <2>1, <2>2
<1>10. /\ rechnung' \in [Eingangsrechnungen -> Zeilen] /\ rechnung'[e] = y
       /\ \A f \in Eingangsrechnungen \ {e} : rechnung'[f] = rechnung[f]
  <2>1. rechnung' = [rechnung EXCEPT ![e] = y]
    <3>1. CASE r.abgelegt /\ z.beleg \in {r.alt.beleg} \ {0}
      BY <1>1, <1>3, <1>4, <1>5, <3>1, ErFakten DEF SchreibenScheitert
    <3>2. CASE ~(r.abgelegt /\ z.beleg \in {r.alt.beleg} \ {0})
      BY <1>1, <1>3, <1>4, <1>5, <1>6, <3>2, ErFakten DEF SchreibenScheitert
    <3>3. QED
      BY <3>1, <3>2
  <2>2. QED
    BY <1>6, <1>7, <2>1, ZeileGetauscht
<1>11. /\ bearbeitung' \in [ErAnfragen -> ErAnfrageTyp] /\ bearbeitung'[a] = OhneAnfrage
       /\ \A b \in ErAnfragen \ {a} : bearbeitung'[b] = bearbeitung[b]
       /\ \A b \in ErAnfragen : bearbeitung'[b] \in {bearbeitung[b], OhneAnfrage}
       /\ SchluesselFrei' /\ Allein'
  BY <1>1, <1>2, AnfrageSchliesst
<1>12. ZeileGilt(y)
  <2>1. z.status = "keine" => z = KeineZeile /\ y = z
    BY <1>6, <1>9, KeineZeileFakten DEF ZeileGilt
  <2>2. QED
    BY <1>6, <1>7, <2>1 DEF ZeileGilt
<1>13. (ErZustand /\ PostGilt /\ ZeilenGelten /\ SpurGilt)'
  <2>1. \A f \in DOMAIN eingang.zeilen :
            /\ rechnung'[f] = rechnung[f] /\ \A b \in ErAnfragen : bearbeitung'[b].zeile # f
            /\ Gebraucht(f, eingang.zeilen[f]) \subseteq objekte'
    BY <1>2, <1>6, <1>10, <1>11, OhneAnfrageFakten, ErGroessen, ErFakten DEF IEr, ZeilenGelten
  <2>2. \A f \in Eingangsrechnungen : rechnung'[f].mail = rechnung[f].mail /\ ZeileGilt(rechnung'[f])
    BY <1>4, <1>7, <1>10, <1>12 DEF IEr, ZeilenGelten
  <2>3. objekte' \subseteq Eingangsrechnungen \X (0..MaxBelege)
    BY <1>2, ErFakten
  <2>4. ausfaelle' \in 0..MaxAusfaelle
    BY <1>2, ErGroessen DEF IEr, ErZustand
  <2>5. QED
    BY <1>2, <1>10, <1>11, <2>1, <2>2, <2>3, <2>4, EingangRuht
<1>14. AnfragenGelten'
  <2>1. ASSUME NEW b \in ErAnfragen, bearbeitung[b].art = "import"
        PROVE  rechnung'[bearbeitung[b].zeile] = rechnung[bearbeitung[b].zeile]
    <3>1. bearbeitung[b].zeile \in Eingangsrechnungen /\ rechnung[bearbeitung[b].zeile] = KeineZeile
      BY <2>1, AnfrageFakten, ErGroessen
    <3>2. bearbeitung[b].zeile = e => y = z
      BY <1>4, <1>9, <3>1, KeineZeileFakten
    <3>3. QED
      BY <1>4, <1>10, <3>1, <3>2
  <2>2. ASSUME NEW b \in ErAnfragen, bearbeitung[b].art \in Aenderungen \cup Belegarten
        PROVE  rechnung'[bearbeitung[b].zeile].status # "keine"
    <3>1. bearbeitung[b].zeile \in Eingangsrechnungen /\ rechnung[bearbeitung[b].zeile].status # "keine"
      BY <2>2, AnfrageFakten, ErGroessen
    <3>2. QED
      BY <3>1, <1>4, <1>7, <1>10
  <2>3. QED
    BY <1>2, <1>11, <2>1, <2>2, AnfragenGehenWeiter
<1>15. BuecherGelten'
  <2>1. ~erZugleich /\ y.durchZahlung => y.status = "bezahlt" /\ y.gezahlt = Brutto(y)
    BY <1>4, <1>6, <1>7, <1>8 DEF IEr, BuecherGelten, Brutto
  <2>2. Lebt(y) => Lebt(z)
    BY <1>7 DEF Lebt
  <2>3. \A f \in DOMAIN eingang.zeilen : rechnung'[f] = rechnung[f]
    BY <1>6, <1>10, ErFakten
  <2>4. QED
    BY <1>2, <1>4, <1>7, <1>10, <2>1, <2>2, <2>3, BuecherGehenWeiter
<1>16. BelegeVorhanden'
  <2>1. ASSUME NEW f \in Eingangsrechnungen PROVE BelegVorhanden(f)'
    <3>1. BelegVorhanden(f)
      BY DEF IEr, BelegeVorhanden
    <3>2. CASE f # e
      <4>1. \A b \in ErAnfragen : bearbeitung[b].zeile = f => bearbeitung'[b] = bearbeitung[b]
        BY <1>1, <1>3, <1>11, <3>2
      <4>2. QED
        BY <1>2, <1>10, <3>1, <3>2, <4>1 DEF BelegVorhanden
    <3>3. CASE f = e
      <4>1. CASE r.abgelegt /\ z.beleg = r.alt.beleg /\ z.beleg # 0
        BY <1>2, <1>4, <1>7, <1>9, <1>10, <3>1, <3>3, <4>1 DEF BelegVorhanden
      <4>2. CASE ~(r.abgelegt /\ z.beleg = r.alt.beleg)
        BY <1>1, <1>2, <1>4, <1>7, <1>9, <1>10, <1>11, <3>1, <3>3, <4>2 DEF BelegVorhanden
      <4>3. CASE z.beleg = 0
        BY <1>2, <1>4, <1>7, <1>10, <3>1, <3>3, <4>3 DEF BelegVorhanden
      <4>4. QED
        BY <4>1, <4>2, <4>3
    <3>4. QED
      BY <3>2, <3>3
  <2>2. QED
    BY <2>1 DEF BelegeVorhanden
<1>17. QED
  BY <1>11, <1>13, <1>14, <1>15, <1>16 DEF IEr

\* A row has a free key as long as one request less than all holds one of its own.
LEMMA FreierBeleg ==
  ASSUME IEr, NEW a \in ErAnfragen, NEW e \in Eingangsrechnungen, bearbeitung[a].zeile = e
  PROVE  /\ NeuerBeleg(e) \in 1..MaxBelege
         /\ \A b \in ErAnfragen : bearbeitung[b].zeile = e => NeuerBeleg(e) # bearbeitung[b].alt.beleg
<1>1. PICK D : D = {b \in ErAnfragen : bearbeitung[b].zeile = e}
  OBVIOUS
<1>2. PICK K : K = {bearbeitung[b].alt.beleg : b \in D}
  OBVIOUS
<1>3. D \subseteq ErAnfragen /\ IsFiniteSet(D) /\ Cardinality(D) \in Nat
  BY <1>1, ErGroessen, FS_Subset, FS_CardinalityType
<1>4. IsFiniteSet(K) /\ Cardinality(K) \in Nat /\ Cardinality(K) <= Cardinality(D)
  <2>1. PICK f : f = [b \in D |-> bearbeitung[b].alt.beleg]
    OBVIOUS
  <2>2. f \in Surjection(D, K)
    BY <1>2, <2>1 DEF Surjection
  <2>3. QED
    BY <1>3, <2>2, FS_Surjection, FS_CardinalityType
<1>5. PICK V : V = (1..MaxBelege) \cap ({rechnung[e].beleg} \cup K)
  OBVIOUS
<1>6. IsFiniteSet(V) /\ Cardinality(V) \in Nat /\ Cardinality(V) < MaxBelege
  <2>1. IsFiniteSet(V) /\ Cardinality(V) \in Nat /\ Cardinality(V) <= Cardinality({rechnung[e].beleg} \cup K)
    <3>1. IsFiniteSet({rechnung[e].beleg} \cup K)
      BY <1>4, FS_AddElement, SMTT(30)
    <3>2. V \subseteq {rechnung[e].beleg} \cup K
      BY <1>5
    <3>3. QED
      BY <3>1, <3>2, FS_Subset, FS_CardinalityType
  <2>2. CASE D = ErAnfragen
    <3>1. \A b \in ErAnfragen : bearbeitung[b].zeile = e
      BY <1>1, <2>2
    <3>2. rechnung[e].beleg \in {0} \cup K
      BY <1>2, <2>2, <3>1 DEF IEr, SchluesselFrei
    <3>3. V \subseteq K
      BY <1>5, <3>2
    <3>4. Cardinality(V) <= Cardinality(K)
      BY <1>4, <3>3, FS_Subset
    <3>5. QED
      BY <1>3, <1>4, <2>1, <2>2, <3>4, ErGroessen
  <2>3. CASE D # ErAnfragen
    <3>1. Cardinality(D) < Cardinality(ErAnfragen)
      BY <1>3, <2>3, ErGroessen, FS_Subset
    <3>2. Cardinality({rechnung[e].beleg} \cup K) <= Cardinality(K) + 1
      BY <1>4, FS_AddElement
    <3>3. Cardinality({rechnung[e].beleg} \cup K) \in Nat
      BY <1>4, FS_AddElement, FS_CardinalityType, SMTT(30)
    <3>4. QED
      BY <1>3, <1>4, <2>1, <3>1, <3>2, <3>3, ErGroessen
  <2>4. QED
    BY <2>2, <2>3
<1>7. PICK F : F = (1..MaxBelege) \ ({rechnung[e].beleg} \cup K)
  OBVIOUS
<1>8. F # {}
  <2>1. SUFFICES ASSUME F = {} PROVE FALSE
    OBVIOUS
  <2>2. V = 1..MaxBelege
    BY <1>5, <1>7, <2>1
  <2>3. Cardinality(1..MaxBelege) = MaxBelege
    BY ErGroessen, FS_Interval
  <2>4. QED
    BY <1>6, <2>2, <2>3, ErGroessen
<1>9. NeuerBeleg(e) = Min(F)
  BY <1>1, <1>2, <1>7 DEF NeuerBeleg
<1>10. Min(F) \in F
  <2>1. F \subseteq Nat
    BY <1>7
  <2>2. QED
    BY <1>8, <2>1, MinGehoert
<1>11. QED
  BY <1>1, <1>2, <1>7, <1>9, <1>10

LEMMA AblegenErhaelt ==
  ASSUME IEr, NEW a \in ErAnfragen, Ablegen(a) PROVE IEr'
<1>1. PICK r : r = bearbeitung[a]
  OBVIOUS
<1>2. PICK e : e = r.zeile
  OBVIOUS
<1>3. PICK neu : neu = IF r.art = "beleg" THEN NeuerBeleg(e) ELSE 0
  OBVIOUS
<1>4. PICK alt : alt = r.alt.beleg
  OBVIOUS
<1>5. /\ r.art \in Belegarten /\ ~r.abgelegt /\ \A b \in ErAnfragen : bearbeitung[b].zeile = e => ~bearbeitung[b].abgelegt
      /\ objekte' = (objekte \cup ({<<e, neu>>} \ {<<e, 0>>})) \ ({<<e, alt>>} \ {<<e, 0>>})
      /\ bearbeitung' = [bearbeitung EXCEPT ![a].wert = neu, ![a].abgelegt = TRUE]
      /\ UNCHANGED <<rechnung, postfach, grenze, eingang, spur, ausfaelle, gespeichert, erZugleich>>
  BY <1>1, <1>2, <1>3, <1>4 DEF Ablegen
<1>6. r \in ErAnfrageTyp /\ r.art # Leer /\ r.art # "import" /\ r.art \notin Aenderungen /\ r.art \notin {"betrag", "bestaetigen"}
  BY <1>1, <1>5, ErFakten, ErGroessen DEF Belegarten, Aenderungen
<1>7. e \in Eingangsrechnungen /\ rechnung[e].status # "keine" /\ e \notin DOMAIN eingang.zeilen
  BY <1>1, <1>2, <1>5, <1>6, AnfrageFakten DEF IEr, ZeilenGelten
<1>8. neu \in 0..MaxBelege /\ (neu # 0 => neu # alt)
  BY <1>1, <1>2, <1>3, <1>4, <1>7, FreierBeleg, ErGroessen
<1>9. PICK s : s = [r EXCEPT !.wert = neu, !.abgelegt = TRUE]
  OBVIOUS
<1>10. /\ s \in ErAnfrageTyp /\ s.art = r.art /\ s.zeile = e /\ s.alt = r.alt /\ s.wert = neu /\ s.abgelegt = TRUE
  <2>1. neu \in Nat
    BY <1>8, ErGroessen
  <2>2. QED
    BY <1>2, <1>6, <1>9, <2>1 DEF ErAnfrageTyp
<1>11. /\ bearbeitung' \in [ErAnfragen -> ErAnfrageTyp] /\ bearbeitung'[a] = s
       /\ \A b \in ErAnfragen \ {a} : bearbeitung'[b] = bearbeitung[b]
  <2>1. bearbeitung' = [bearbeitung EXCEPT ![a] = s]
    BY <1>1, <1>5, <1>9, ErFakten
  <2>2. QED
    BY <1>10, <2>1, AnfrageGetauscht
<1>12. \A b \in ErAnfragen : bearbeitung'[b].art = bearbeitung[b].art /\ bearbeitung'[b].zeile = bearbeitung[b].zeile
                             /\ bearbeitung'[b].alt = bearbeitung[b].alt
  BY <1>1, <1>2, <1>10, <1>11
<1>13. /\ \A f \in Eingangsrechnungen \ {e}, b \in Nat : <<f, b>> \in objekte => <<f, b>> \in objekte'
       /\ neu # 0 => <<e, neu>> \in objekte'
       /\ \A b \in Nat : <<e, b>> \in objekte /\ (b = 0 \/ b # alt) => <<e, b>> \in objekte'
  BY <1>5, <1>8
<1>14. /\ rechnung' \in [Eingangsrechnungen -> Zeilen] /\ rechnung' = rechnung /\ ausfaelle' \in 0..MaxAusfaelle
       /\ objekte' \subseteq Eingangsrechnungen \X (0..MaxBelege)
  <2>1. objekte \subseteq Eingangsrechnungen \X (0..MaxBelege)
    BY ErFakten
  <2>2. <<e, neu>> \in Eingangsrechnungen \X (0..MaxBelege)
    BY <1>7, <1>8
  <2>3. QED
    BY <1>5, <2>1, <2>2, ErFakten DEF IEr, ErZustand
<1>15. (ErZustand /\ PostGilt /\ ZeilenGelten /\ SpurGilt)'
  <2>1. ASSUME NEW f \in DOMAIN eingang.zeilen
        PROVE  /\ rechnung'[f] = rechnung[f] /\ \A b \in ErAnfragen : bearbeitung'[b].zeile # f
               /\ Gebraucht(f, eingang.zeilen[f]) \subseteq objekte'
    <3>1. f \in Eingangsrechnungen \ {e} /\ eingang.zeilen[f] \in Zeilen
      BY <1>7, ErFakten, ZuordnungFakten
    <3>2. Gebraucht(f, eingang.zeilen[f]) \subseteq objekte /\ \A b \in ErAnfragen : bearbeitung[b].zeile # f
      BY DEF IEr, ZeilenGelten
    <3>3. \A o \in Gebraucht(f, eingang.zeilen[f]) : \E b \in Nat : o = <<f, b>>
      BY <3>1, ZeileFelder, ErGroessen DEF Gebraucht
    <3>4. QED
      BY <1>12, <1>13, <1>14, <3>1, <3>2, <3>3
  <2>2. \A f \in Eingangsrechnungen : rechnung'[f].mail = rechnung[f].mail /\ ZeileGilt(rechnung'[f])
    BY <1>14 DEF IEr, ZeilenGelten
  <2>3. QED
    BY <1>5, <1>11, <1>14, <2>1, <2>2, EingangRuht
<1>16. AnfragenGelten'
  <2>1. AnfrageGilt(a)'
    BY <1>5, <1>6, <1>7, <1>8, <1>10, <1>11, <1>13 DEF AnfrageGilt
  <2>2. ASSUME NEW b \in ErAnfragen \ {a} PROVE AnfrageGilt(b)'
    <3>1. PICK t : t = bearbeitung[b]
      OBVIOUS
    <3>2. bearbeitung'[b] = t
      BY <1>11, <3>1
    <3>3. AnfrageGilt(b)
      BY ErFakten
    <3>4. t.art = "import" => \A c \in ErAnfragen \ {b} : bearbeitung'[c].zeile # t.zeile
      BY <1>12, <3>1, AnfrageFakten, ZenonT(60)
    <3>5. t.abgelegt => \A c \in ErAnfragen \ {b} : bearbeitung'[c].zeile = t.zeile => ~bearbeitung'[c].abgelegt
      BY <1>5, <1>10, <1>11, <1>12, <3>1, AnfrageFakten, ZenonT(60)
    <3>6. t.abgelegt => (t.wert # 0 => <<t.zeile, t.wert>> \in objekte')
      <4>1. SUFFICES ASSUME t.abgelegt, t.wert # 0 PROVE <<t.zeile, t.wert>> \in objekte'
        OBVIOUS
      <4>2. t.zeile # e /\ <<t.zeile, t.wert>> \in objekte /\ t.wert \in Nat
        BY <1>5, <3>1, <4>1, AnfrageFakten, ErFakten
      <4>3. t.zeile \in Eingangsrechnungen
        BY <4>2, ErFakten
      <4>4. QED
        BY <1>13, <4>2, <4>3
    <3>7. QED
      BY <1>14, <3>1, <3>2, <3>3, <3>4, <3>5, <3>6 DEF AnfrageGilt
  <2>3. QED
    BY <2>1, <2>2 DEF AnfragenGelten
<1>17. SchluesselFrei'
  BY <1>12, <1>14, SchluesselBleibt
<1>18. Allein'
  <2> SUFFICES ASSUME ~erZugleich PROVE Allein'
    BY <1>5 DEF Allein
  <2>1. ~eingang.laeuft /\ r.alt = rechnung[e] /\ \A b \in ErAnfragen \ {a} : bearbeitung[b] = OhneAnfrage
    BY <1>1, <1>2, <1>5, <1>6, AlleinAmWerk
  <2>2. \A b \in ErAnfragen \ {a} : bearbeitung'[b].art = Leer
    BY <1>11, <2>1, OhneAnfrageFakten
  <2>3. \A b, c \in ErAnfragen : b = c \/ bearbeitung'[b].art = Leer \/ bearbeitung'[c].art = Leer
    BY <2>2
  <2>4. ASSUME NEW b \in ErAnfragen, NEW t, t = bearbeitung'[b]
        PROVE  /\ t.art \in Aenderungen \cup Belegarten => t.alt = rechnung'[t.zeile]
               /\ t.art \in Aenderungen => Zulaessig(t.art, t.alt, t.wert)
               /\ t.art = "import" =>
                    t.alt.xml \in Dateien /\ t.alt.nummer = Nummer[t.alt.xml] /\ ~Duplikat(t.alt.xml, rechnung)'
    <3>1. CASE b = a
      BY <1>6, <1>10, <1>11, <1>14, <2>1, <2>4, <3>1
    <3>2. CASE b # a
      BY <2>2, <2>4, <3>2, ErGroessen
    <3>3. QED
      BY <3>1, <3>2
  <2>5. QED
    BY <1>5, <2>1, <2>3, <2>4 DEF Allein
<1>19. BuecherGelten'
  BY <1>5, <1>14, ErFakten, BuecherGehenWeiter
<1>20. BelegeVorhanden'
  <2>1. ASSUME NEW f \in Eingangsrechnungen PROVE BelegVorhanden(f)'
    <3>1. PICK z : z = rechnung[f]
      OBVIOUS
    <3>2. z.beleg \in Nat /\ rechnung'[f] = z
      BY <1>14, <3>1, ErFakten, ZeileFelder, ErGroessen
    <3>3. BelegVorhanden(f)
      BY DEF IEr, BelegeVorhanden
    <3>4. CASE f # e
      <4>1. \A b \in ErAnfragen : bearbeitung[b].zeile = f => bearbeitung'[b] = bearbeitung[b]
        BY <1>1, <1>2, <1>11, <3>4
      <4>2. QED
        BY <1>13, <3>1, <3>2, <3>3, <3>4, <4>1 DEF BelegVorhanden
    <3>5. CASE f = e
      <4>1. z.xml # Leer => <<e, 0>> \in objekte'
        BY <1>13, <3>1, <3>3, <3>5 DEF BelegVorhanden
      <4>2. z.beleg # 0 => <<e, z.beleg>> \in objekte \/ z.ersetzt
        BY <1>5, <3>1, <3>3, <3>5 DEF BelegVorhanden
      <4>3. CASE z.beleg = alt
        BY <1>4, <1>10, <1>11, <3>2, <3>5, <4>1, <4>3 DEF BelegVorhanden
      <4>4. CASE z.beleg # alt
        BY <1>13, <3>2, <3>5, <4>1, <4>2, <4>4 DEF BelegVorhanden
      <4>5. QED
        BY <4>3, <4>4
    <3>6. QED
      BY <3>4, <3>5
  <2>2. QED
    BY <2>1 DEF BelegeVorhanden
<1>21. QED
  BY <1>15, <1>16, <1>17, <1>18, <1>19, <1>20 DEF IEr

-----------------------------------------------------------------------------
(***************************************************************************)
(* The mailbox and the intake.                                             *)
(***************************************************************************)

LEMMA AnfragenRuhen ==
  ASSUME IEr, UNCHANGED <<rechnung, bearbeitung>>,
         \A e \in Eingangsrechnungen \ DOMAIN eingang.zeilen, b \in Nat : <<e, b>> \in objekte => <<e, b>> \in objekte'
  PROVE  AnfragenGelten' /\ SchluesselFrei' /\ BelegeVorhanden'
<1>1. AnfragenGelten'
  <2>1. \A a \in ErAnfragen : bearbeitung[a].zeile \notin DOMAIN eingang.zeilen
    BY DEF IEr, ZeilenGelten
  <2>2. \A a \in ErAnfragen : bearbeitung[a].abgelegt => bearbeitung[a].zeile \in Eingangsrechnungen
    BY AnfrageFakten, ErGroessen, ZenonT(60)
  <2>3. \A a \in ErAnfragen : bearbeitung[a].abgelegt =>
            \A b \in Nat : <<bearbeitung[a].zeile, b>> \in objekte => <<bearbeitung[a].zeile, b>> \in objekte'
    BY <2>1, <2>2
  <2>4. \A a \in ErAnfragen : bearbeitung[a].art \in Aenderungen \cup Belegarten => rechnung'[bearbeitung[a].zeile].status # "keine"
    BY AnfrageFakten
  <2>5. QED
    BY <2>3, <2>4, AnfragenGehenWeiter
<1>2. SchluesselFrei'
  BY SchluesselBleibt
<1>3. ASSUME NEW e \in Eingangsrechnungen PROVE BelegVorhanden(e)'
  <2>1. CASE e \in DOMAIN eingang.zeilen
    <3>1. rechnung[e] = KeineZeile
      BY <2>1 DEF IEr, ZeilenGelten
    <3>2. QED
      BY <3>1, KeineZeileFakten DEF BelegVorhanden
  <2>2. CASE e \notin DOMAIN eingang.zeilen
    <3>1. BelegVorhanden(e) /\ rechnung[e].beleg \in Nat
      BY ErFakten, ZeileFelder, ErGroessen DEF IEr, BelegeVorhanden
    <3>2. QED
      BY <2>2, <3>1 DEF BelegVorhanden
  <2>3. QED
    BY <2>1, <2>2
<1>4. QED
  BY <1>1, <1>2, <1>3 DEF BelegeVorhanden

LEMMA PostAnkunftErhaelt ==
  ASSUME IEr, PostAnkunft PROVE IEr'
<1>1. PICK n : n = Cardinality(DOMAIN postfach)
  OBVIOUS
<1>2. PICK i \in Anhaenge : postfach' = Mit(postfach, n + 1, i)
  BY <1>1 DEF PostAnkunft
<1>3. /\ n < MaxPost /\ UNCHANGED <<rechnung, objekte, bearbeitung, grenze, eingang, spur, ausfaelle, gespeichert, erZugleich>>
  BY <1>1 DEF PostAnkunft
<1>4. n \in Nat /\ DOMAIN postfach = 1..n /\ \A u \in DOMAIN postfach : postfach[u] \in Anhaenge
  BY <1>1, ErGroessen DEF IEr, ErZustand
<1>5. DOMAIN postfach' = 1..(n + 1)
  <2>1. DOMAIN postfach' = (1..n) \cup {n + 1}
    BY <1>2, <1>4 DEF Mit
  <2>2. (1..n) \cup {n + 1} = 1..(n + 1)
    BY <1>4
  <2>3. QED
    BY <2>1, <2>2
<1>6. Cardinality(DOMAIN postfach') = n + 1
  BY <1>4, <1>5, FS_Interval
<1>7. ErZustand'
  <2>1. \A u \in DOMAIN postfach' : postfach'[u] \in Anhaenge
    <3>1. \A u \in DOMAIN postfach \cup {n + 1} : postfach'[u] = IF u = n + 1 THEN i ELSE postfach[u]
      BY <1>2 DEF Mit
    <3>2. ASSUME NEW u \in DOMAIN postfach' PROVE u \in DOMAIN postfach \cup {n + 1}
      BY <1>4, <1>5
    <3>3. QED
      BY <1>2, <1>4, <3>1, <3>2
  <2>2. Cardinality(DOMAIN postfach') \in 0..MaxPost
    BY <1>3, <1>4, <1>6, ErGroessen
  <2>3. QED
    BY <1>3, <1>5, <1>6, <2>1, <2>2 DEF IEr, ErZustand
<1>8. DOMAIN postfach \subseteq DOMAIN postfach'
  BY <1>4, <1>5
<1>9. PostGilt'
  BY <1>3, <1>8 DEF IEr, PostGilt
<1>10. ZeilenGelten' /\ SpurGilt'
  BY <1>3 DEF IEr, ZeilenGelten, SpurGilt, Hinterlaesst
<1>11. AnfragenGelten' /\ SchluesselFrei' /\ BelegeVorhanden'
  BY <1>3, AnfragenRuhen
<1>12. Allein'
  BY <1>3, AlleinBleibt
<1>13. BuecherGelten'
  BY <1>3, ErFakten, BuecherGehenWeiter
<1>14. QED
  BY <1>7, <1>9, <1>10, <1>11, <1>12, <1>13 DEF IEr

LEMMA EinstellungenErhalten ==
  ASSUME IEr, EinstellungenSpeichern PROVE IEr'
<1>1. /\ gespeichert' = TRUE /\ grenze' = 0
      /\ UNCHANGED <<rechnung, objekte, bearbeitung, postfach, eingang, spur, ausfaelle, erZugleich>>
  BY DEF EinstellungenSpeichern
<1>2. ErZustand'
  BY <1>1 DEF IEr, ErZustand
<1>3. PostGilt'
  BY <1>1 DEF IEr, PostGilt
<1>4. ZeilenGelten' /\ SpurGilt'
  BY <1>1 DEF IEr, ZeilenGelten, SpurGilt, Hinterlaesst
<1>5. AnfragenGelten' /\ SchluesselFrei' /\ BelegeVorhanden'
  BY <1>1, AnfragenRuhen
<1>6. Allein'
  BY <1>1, AlleinBleibt
<1>7. BuecherGelten'
  BY <1>1, ErFakten, BuecherGehenWeiter
<1>8. QED
  BY <1>2, <1>3, <1>4, <1>5, <1>6, <1>7 DEF IEr

LEMMA EingangBeginntErhaelt ==
  ASSUME IEr, EingangBeginnt PROVE IEr'
<1>1. PICK neue : neue = {u \in DOMAIN postfach : u > grenze}
  OBVIOUS
<1>2. PICK fehlt \in SUBSET neue :
        /\ fehlt # {} => ausfaelle < MaxAusfaelle
        /\ ausfaelle' = IF fehlt = {} THEN ausfaelle ELSE ausfaelle + 1
        /\ eingang' = [laeuft |-> TRUE, offen |-> neue \ fehlt, bis |-> Max(neue), zeilen |-> <<>>,
                       spur |-> [u \in fehlt |-> "nichtGeholt"]]
  BY <1>1 DEF EingangBeginnt
<1>3. /\ ~eingang.laeuft /\ DarfBeginnen /\ neue # {}
      /\ UNCHANGED <<rechnung, objekte, bearbeitung, postfach, grenze, spur, gespeichert, erZugleich>>
  BY <1>1 DEF EingangBeginnt
<1>4. PICK n : n = Cardinality(DOMAIN postfach)
  OBVIOUS
<1>5. n \in Nat /\ DOMAIN postfach = 1..n /\ grenze \in Nat
  BY <1>4, ErGroessen DEF IEr, ErZustand, PostGilt
<1>6. PICK m : m = Max(neue)
  OBVIOUS
<1>7. m \in neue /\ m \in Nat /\ m \in DOMAIN postfach /\ m > grenze /\ \A u \in neue : u <= m /\ u \in Nat /\ u >= 1
  <2>1. neue \in SUBSET (0..n)
    BY <1>1, <1>5
  <2>2. m \in neue /\ \A u \in neue : u <= m
    BY <1>3, <1>5, <1>6, <2>1, MaxGehoert
  <2>3. \A u \in neue : u \in 1..n /\ u > grenze
    BY <1>1, <1>5
  <2>4. \A u \in neue : u \in Nat /\ u >= 1
    BY <1>5, <2>3
  <2>5. QED
    BY <1>5, <2>2, <2>3, <2>4
<1>8. PICK s : s = [u \in fehlt |-> "nichtGeholt"]
  OBVIOUS
<1>9. DOMAIN s = fehlt /\ (\A u \in fehlt : s[u] = "nichtGeholt") /\ s \in Vermerk
  <2>1. fehlt \in SUBSET Nat /\ s \in [fehlt -> Spurarten]
    BY <1>2, <1>7, <1>8 DEF Spurarten
  <2>2. s \in Vermerk
    BY <2>1 DEF Vermerk
  <2>3. QED
    BY <1>8, <2>2
<1>10. /\ eingang'.laeuft = TRUE /\ eingang'.offen = neue \ fehlt /\ eingang'.bis = m /\ eingang'.zeilen = <<>>
       /\ eingang'.spur = s /\ DOMAIN eingang'.zeilen = {}
  BY <1>2, <1>6, <1>8, NichtsFakten
<1>11. eingang' \in EingangTyp
  BY <1>2, <1>6, <1>7, <1>8, <1>9, NichtsFakten DEF EingangTyp
<1>12. ErZustand'
  <2>1. ausfaelle' \in 0..MaxAusfaelle
    BY <1>2, ErGroessen DEF IEr, ErZustand
  <2>2. QED
    BY <1>3, <1>11, <2>1 DEF IEr, ErZustand
<1>13. PostGilt'
  <2>1. \A u \in 1..m : u \in DOMAIN spur \cup neue
    <3>1. ASSUME NEW u \in 1..m PROVE u \in DOMAIN spur \cup neue
      <4>1. u <= grenze => u \in DOMAIN spur
        BY <1>5, <1>7, <3>1 DEF IEr, PostGilt
      <4>2. u > grenze => u \in neue
        BY <1>1, <1>5, <1>7, <3>1
      <4>3. QED
        BY <1>5, <1>7, <4>1, <4>2
    <3>2. QED
      BY <3>1
  <2>2. neue \subseteq 1..m /\ \A u \in neue : u > grenze
    <3>1. ASSUME NEW u \in neue PROVE u \in 1..m /\ u > grenze
      <4>1. u <= m /\ u \in Nat /\ u >= 1 /\ m \in Nat
        BY <1>7
      <4>2. u > grenze
        BY <1>1
      <4>3. QED
        BY <4>1, <4>2
    <3>2. QED
      BY <3>1
  <2>3. grenze \in {0} \cup DOMAIN postfach /\ (\A u \in 1..grenze : u \in DOMAIN spur)
        /\ (~gespeichert => \A u \in DOMAIN spur : u <= grenze)
    BY DEF IEr, PostGilt
  <2>4. (neue \ fehlt) \cup fehlt = neue /\ (neue \ fehlt) \cap fehlt = {}
    BY <1>2
  <2>5. QED
    BY <1>3, <1>5, <1>7, <1>9, <1>10, <2>1, <2>2, <2>3, <2>4 DEF PostGilt
<1>14. ZeilenGelten'
  BY <1>3, <1>10 DEF IEr, ZeilenGelten
<1>15. SpurGilt'
  <2>1. \A u : Hinterlaesst(spur, rechnung, u)' <=> Hinterlaesst(spur, rechnung, u)
    BY <1>3 DEF Hinterlaesst
  <2>2. ASSUME NEW u PROVE Hinterlaesst(eingang.spur, eingang.zeilen, u)'
    BY <1>9, <1>10 DEF Hinterlaesst
  <2>3. QED
    BY <1>3, <2>1, <2>2 DEF IEr, SpurGilt
<1>16. AnfragenGelten' /\ SchluesselFrei' /\ BelegeVorhanden'
  BY <1>3, AnfragenRuhen
<1>17. Allein'
  BY <1>3, BeginntAllein, AlleinBleibt
<1>18. BuecherGelten'
  <2> SUFFICES ASSUME ~erZugleich PROVE BuecherGelten'
    BY <1>3 DEF BuecherGelten
  <2>1. Darueber(eingang.zeilen, rechnung) = rechnung
    BY <1>3, NichtsDarueber
  <2>2. Darueber(eingang.zeilen, rechnung)' = [x \in Eingangsrechnungen |-> rechnung[x]]
    BY <1>3, <1>10, ErFakten DEF Darueber
  <2>3. Darueber(eingang.zeilen, rechnung)' = rechnung
    BY <2>2, ErFakten
  <2>4. QED
    BY <1>3, <2>1, <2>3 DEF IEr, BuecherGelten, Verschieden
<1>19. QED
  BY <1>12, <1>13, <1>14, <1>15, <1>16, <1>17, <1>18 DEF IEr

\* The mail whose turn it is has come, is in no row and has left no trace in this run.
LEMMA WasAnsteht ==
  ASSUME IEr, NEW u \in eingang.offen
  PROVE  /\ eingang.laeuft /\ u \in Nat /\ u >= 1 /\ u \in DOMAIN postfach /\ u \in 0..MaxPost /\ u \notin DOMAIN eingang.spur
         /\ \A e \in DOMAIN eingang.zeilen : eingang.zeilen[e].mail # u
<1>1. eingang.laeuft
  BY RuhtFakten DEF IEr, PostGilt
<1>2. PICK n : n = Cardinality(DOMAIN postfach)
  OBVIOUS
<1>3. n \in Nat /\ n <= MaxPost /\ DOMAIN postfach = 1..n /\ eingang.bis \in 1..n /\ u \in 1..eingang.bis
  BY <1>1, <1>2, ErGroessen DEF IEr, ErZustand, PostGilt
<1>4. u \notin DOMAIN eingang.spur
  BY <1>1 DEF IEr, PostGilt
<1>5. u \in Nat /\ u >= 1 /\ u <= n /\ u <= MaxPost
  BY <1>3, ErGroessen
<1>6. {e \in DOMAIN eingang.zeilen : eingang.zeilen[e].mail = u} = {}
  BY <1>4, <1>5 DEF IEr, SpurGilt, Hinterlaesst
<1>7. QED
  BY <1>1, <1>3, <1>4, <1>5, <1>6, ErGroessen

LEMMA BehandeltErhaelt ==
  ASSUME IEr, NEW u \in eingang.offen, NEW was \in Spurarten \ {"zeile"}, Behandelt(u, was), ausfaelle' \in 0..MaxAusfaelle,
         UNCHANGED <<rechnung, bearbeitung, postfach, grenze, spur, gespeichert, erZugleich>>
  PROVE  IEr'
<1>1. PICK s : s = Mit(eingang.spur, u, was)
  OBVIOUS
<1>2. /\ eingang.laeuft /\ u \in Nat /\ u >= 1 /\ u \in DOMAIN postfach /\ u \in 0..MaxPost /\ u \notin DOMAIN eingang.spur
      /\ \A e \in DOMAIN eingang.zeilen : eingang.zeilen[e].mail # u
  BY WasAnsteht
<1>3. /\ DOMAIN s = DOMAIN eingang.spur \cup {u} /\ s[u] = was /\ s \in Vermerk
      /\ \A v \in DOMAIN eingang.spur : s[v] = eingang.spur[v]
  <2>1. DOMAIN s = DOMAIN eingang.spur \cup {u} /\ s[u] = was
    BY <1>1 DEF Mit
  <2>2. \A v \in DOMAIN eingang.spur : s[v] = eingang.spur[v]
    BY <1>1, <1>2 DEF Mit
  <2>3. s \in Vermerk
    <3>1. eingang.spur \in Vermerk
      BY ErFakten
    <3>2. QED
      BY <1>1, <1>2, <3>1, VermerkFakten
  <2>4. QED
    BY <2>1, <2>2, <2>3
<1>4. /\ eingang' = [eingang EXCEPT !.offen = @ \ {u}, !.spur = s] /\ objekte' = objekte
  BY <1>1 DEF Behandelt
<1>5. /\ eingang'.laeuft = eingang.laeuft /\ eingang'.bis = eingang.bis /\ eingang'.zeilen = eingang.zeilen
      /\ eingang'.offen = eingang.offen \ {u} /\ eingang'.spur = s /\ eingang' \in EingangTyp
  BY <1>3, <1>4, ErFakten DEF EingangTyp
<1>6. ErZustand'
  BY <1>4, <1>5 DEF IEr, ErZustand
<1>7. PostGilt'
  BY <1>2, <1>3, <1>5 DEF IEr, PostGilt
<1>8. ZeilenGelten'
  BY <1>3, <1>4, <1>5 DEF IEr, ZeilenGelten
<1>9. SpurGilt'
  <2>1. \A v : Hinterlaesst(spur, rechnung, v)' <=> Hinterlaesst(spur, rechnung, v)
    BY DEF Hinterlaesst
  <2>2. ASSUME NEW v \in Nat \ {0} PROVE Hinterlaesst(eingang.spur, eingang.zeilen, v)'
    <3>1. CASE v = u
      BY <1>2, <1>3, <1>5, <3>1 DEF Hinterlaesst
    <3>2. CASE v # u
      <4>1. Hinterlaesst(eingang.spur, eingang.zeilen, v)
        BY DEF IEr, SpurGilt
      <4>2. QED
        BY <1>3, <1>5, <3>2, <4>1 DEF Hinterlaesst
    <3>3. QED
      BY <3>1, <3>2
  <2>3. QED
    BY <2>1, <2>2 DEF IEr, SpurGilt
<1>10. AnfragenGelten' /\ SchluesselFrei' /\ BelegeVorhanden'
  BY <1>4, AnfragenRuhen
<1>11. Allein'
  BY <1>5, AlleinBleibt
<1>12. BuecherGelten'
  <2>1. PICK g : g = Darueber(eingang.zeilen, rechnung)
    OBVIOUS
  <2>2. Darueber(eingang.zeilen, rechnung)' = g
    BY <1>5, <2>1 DEF Darueber
  <2>3. QED
    BY <2>1, <2>2 DEF IEr, BuecherGelten, Verschieden, Brutto
<1>13. QED
  BY <1>6, <1>7, <1>8, <1>9, <1>10, <1>11, <1>12 DEF IEr

LEMMA BekommtZeileErhaelt ==
  ASSUME IEr, NEW u \in eingang.offen, NEW z \in Zeilen, BekommtZeile(u, z), ausfaelle' \in 0..MaxAusfaelle,
         ZeileGilt(z), NeueZeile(z), z.mail = u,
         z.xml # Leer => /\ z.xml \in Dateien /\ z.nummer = Nummer[z.xml]
                         /\ ~Duplikat(z.xml, Darueber(eingang.zeilen, rechnung)),
         UNCHANGED <<rechnung, bearbeitung, postfach, grenze, spur, gespeichert, erZugleich>>
  PROVE  IEr'
<1>1. PICK s : s = Mit(eingang.spur, u, "zeile")
  OBVIOUS
<1>2. PICK e : e = Naechste
  OBVIOUS
<1>3. PICK neu : neu = Mit(eingang.zeilen, e, z)
  OBVIOUS
<1>4. /\ eingang.laeuft /\ u \in Nat /\ u >= 1 /\ u \in DOMAIN postfach /\ u \in 0..MaxPost /\ u \notin DOMAIN eingang.spur
      /\ \A f \in DOMAIN eingang.zeilen : eingang.zeilen[f].mail # u
  BY WasAnsteht
<1>5. /\ FreieZeilen # {} /\ objekte' = objekte \cup Gebraucht(e, z)
      /\ eingang' = [eingang EXCEPT !.offen = @ \ {u}, !.spur = s, !.zeilen = neu]
  BY <1>1, <1>2, <1>3 DEF BekommtZeile
<1>6. /\ e \in Eingangsrechnungen /\ rechnung[e] = KeineZeile /\ e \notin DOMAIN eingang.zeilen
      /\ \A a \in ErAnfragen : bearbeitung[a].zeile # e
  BY <1>2, <1>5, FreieZeile
<1>7. /\ DOMAIN s = DOMAIN eingang.spur \cup {u} /\ s[u] = "zeile" /\ s \in Vermerk
      /\ \A v \in DOMAIN eingang.spur : s[v] = eingang.spur[v]
  <2>1. DOMAIN s = DOMAIN eingang.spur \cup {u} /\ s[u] = "zeile"
    BY <1>1 DEF Mit
  <2>2. \A v \in DOMAIN eingang.spur : s[v] = eingang.spur[v]
    BY <1>1, <1>4 DEF Mit
  <2>3. s \in Vermerk
    <3>1. eingang.spur \in Vermerk /\ "zeile" \in Spurarten
      BY ErFakten DEF Spurarten
    <3>2. QED
      BY <1>1, <1>4, <3>1, VermerkFakten
  <2>4. QED
    BY <2>1, <2>2, <2>3
<1>8. /\ DOMAIN neu = DOMAIN eingang.zeilen \cup {e} /\ neu[e] = z /\ neu \in Zuordnung
      /\ \A f \in DOMAIN eingang.zeilen : neu[f] = eingang.zeilen[f]
  <2>1. DOMAIN neu = DOMAIN eingang.zeilen \cup {e} /\ neu[e] = z
    BY <1>3 DEF Mit
  <2>2. \A f \in DOMAIN eingang.zeilen : neu[f] = eingang.zeilen[f]
    BY <1>3, <1>6 DEF Mit
  <2>3. neu \in Zuordnung
    <3>1. eingang.zeilen \in Zuordnung
      BY ErFakten
    <3>2. QED
      BY <1>3, <1>6, <3>1, ZuordnungFakten
  <2>4. QED
    BY <2>1, <2>2, <2>3
<1>9. /\ eingang'.laeuft = eingang.laeuft /\ eingang'.bis = eingang.bis /\ eingang'.zeilen = neu
      /\ eingang'.offen = eingang.offen \ {u} /\ eingang'.spur = s /\ eingang' \in EingangTyp
  BY <1>5, <1>7, <1>8, ErFakten DEF EingangTyp
<1>10. Gebraucht(e, z) \subseteq Eingangsrechnungen \X (0..MaxBelege)
  BY <1>6, ZeileFelder, ErGroessen DEF Gebraucht
<1>11. ErZustand'
  <2>1. objekte' \subseteq Eingangsrechnungen \X (0..MaxBelege)
    BY <1>5, <1>10, ErFakten
  <2>2. QED
    BY <1>9, <2>1 DEF IEr, ErZustand
<1>12. PostGilt'
  BY <1>4, <1>7, <1>9 DEF IEr, PostGilt
<1>13. ZeilenGelten'
  <2>1. ASSUME NEW f \in DOMAIN neu
        PROVE  /\ rechnung'[f] = KeineZeile
               /\ \A a \in ErAnfragen : bearbeitung'[a].zeile # f
               /\ ZeileGilt(neu[f]) /\ NeueZeile(neu[f]) /\ neu[f].mail \in DOMAIN s /\ Gebraucht(f, neu[f]) \subseteq objekte'
    <3>1. CASE f = e
      BY <1>5, <1>6, <1>7, <1>8, <3>1
    <3>2. CASE f \in DOMAIN eingang.zeilen
      BY <1>5, <1>7, <1>8, <3>2 DEF IEr, ZeilenGelten
    <3>3. QED
      BY <1>8, <3>1, <3>2
  <2>2. QED
    BY <1>9, <2>1 DEF IEr, ZeilenGelten
<1>14. SpurGilt'
  <2>1. \A v : Hinterlaesst(spur, rechnung, v)' <=> Hinterlaesst(spur, rechnung, v)
    BY DEF Hinterlaesst
  <2>2. ASSUME NEW v \in Nat \ {0} PROVE Hinterlaesst(eingang.spur, eingang.zeilen, v)'
    <3>1. CASE v = u
      <4>1. {f \in DOMAIN neu : neu[f].mail = v} = {e}
        BY <1>4, <1>8, <3>1
      <4>2. QED
        BY <1>6, <1>7, <1>9, <3>1, <4>1 DEF Hinterlaesst
    <3>2. CASE v # u
      <4>1. Hinterlaesst(eingang.spur, eingang.zeilen, v)
        BY DEF IEr, SpurGilt
      <4>2. {f \in DOMAIN neu : neu[f].mail = v} = {f \in DOMAIN eingang.zeilen : eingang.zeilen[f].mail = v}
        BY <1>8, <3>2
      <4>3. QED
        BY <1>7, <1>9, <3>2, <4>1, <4>2 DEF Hinterlaesst
    <3>3. QED
      BY <3>1, <3>2
  <2>3. QED
    BY <2>1, <2>2 DEF IEr, SpurGilt
<1>15. AnfragenGelten' /\ SchluesselFrei' /\ BelegeVorhanden'
  BY <1>5, AnfragenRuhen
<1>16. Allein'
  BY <1>9, AlleinBleibt
<1>17. BuecherGelten'
  <2> SUFFICES ASSUME ~erZugleich PROVE BuecherGelten'
    BY DEF BuecherGelten
  <2>1. PICK f, g : f = Darueber(eingang.zeilen, rechnung) /\ g = Darueber(neu, rechnung)
    OBVIOUS
  <2>2. Verschieden(f)
    BY <2>1 DEF IEr, BuecherGelten
  <2>3. DOMAIN rechnung = Eingangsrechnungen /\ DOMAIN eingang.zeilen \subseteq Eingangsrechnungen
    BY ErFakten
  <2>4. DOMAIN f = Eingangsrechnungen /\ DOMAIN g = Eingangsrechnungen
    BY <1>6, <1>8, <2>1, <2>3 DEF Darueber
  <2>5. g[e] = z /\ \A x \in Eingangsrechnungen \ {e} : g[x] = f[x]
    BY <1>6, <1>8, <2>1, <2>3 DEF Darueber
  <2>6. z.xml # Leer => \A x \in Eingangsrechnungen \ {e} : Lebt(g[x]) => g[x].xml # z.xml /\ g[x].nummer # z.nummer
    BY <2>1, <2>4, <2>5 DEF Duplikat
  <2>7. Verschieden(g)
    BY <2>2, <2>4, <2>5, <2>6, VerschiedenBleibt
  <2>8. Darueber(eingang.zeilen, rechnung)' = g
    BY <1>9, <2>1 DEF Darueber
  <2>9. QED
    BY <2>7, <2>8 DEF IEr, BuecherGelten, Verschieden, Brutto
<1>18. QED
  BY <1>11, <1>12, <1>13, <1>14, <1>15, <1>16, <1>17 DEF IEr

LEMMA VerarbeiteErhaelt ==
  ASSUME IEr, Verarbeite PROVE IEr'
<1>1. PICK u : u = Min(eingang.offen)
  OBVIOUS
<1>2. eingang.offen # {} /\ UNCHANGED <<rechnung, bearbeitung, postfach, grenze, spur, gespeichert, erZugleich>>
  BY DEF Verarbeite
<1>3. u \in eingang.offen
  <2>1. eingang.offen \in SUBSET Nat
    BY ErFakten DEF EingangTyp
  <2>2. QED
    BY <1>1, <1>2, <2>1, MinGehoert
<1>4. u \in 0..MaxPost /\ postfach[u] \in Anhaenge
  BY <1>3, WasAnsteht DEF IEr, ErZustand
<1>5. PICK i : i = postfach[u]
  OBVIOUS
<1>6. i.art \in {"xml", "hybrid"} => i.datei \in Dateien
  BY <1>4, <1>5 DEF Anhaenge
<1>7. ausfaelle \in 0..MaxAusfaelle
  BY DEF IEr, ErZustand
<1>8. {"meldung", "duplikat"} \subseteq Spurarten \ {"zeile"}
  BY DEF Spurarten
<1>9. \/ i.art \in {"xml", "hybrid"} /\ ERechnung(u, i.datei, i.art = "hybrid")
      \/ i.art = "nichts" /\ Behandelt(u, "meldung") /\ UNCHANGED ausfaelle
      \/ i.art = "pdf" /\ BekommtZeile(u, PdfEntwurf(u)) /\ UNCHANGED ausfaelle
  BY <1>1, <1>5 DEF Verarbeite
<1>10. CASE i.art \in {"xml", "hybrid"} /\ ERechnung(u, i.datei, i.art = "hybrid")
  <2>1. PICK d \in Dateien : d = i.datei
    BY <1>6, <1>10
  <2>2. PICK hybrid \in BOOLEAN : hybrid = (i.art = "hybrid")
    OBVIOUS
  <2>3. ERechnung(u, d, hybrid)
    BY <1>10, <2>1, <2>2
  <2>4. CASE ~Duplikat(d, Darueber(eingang.zeilen, rechnung)) /\ BekommtZeile(u, Importiert(d, hybrid, u)) /\ UNCHANGED ausfaelle
    <3>1. PICK z : z = Importiert(d, hybrid, u)
      OBVIOUS
    <3>2. z \in Zeilen /\ ZeileGilt(z) /\ NeueZeile(z) /\ z.mail = u /\ z.xml = d /\ z.nummer = Nummer[d]
      BY <1>4, <3>1, ImportiertFakten
    <3>3. QED
      BY <1>2, <1>3, <1>7, <2>4, <3>1, <3>2, BekommtZeileErhaelt
  <2>5. CASE Behandelt(u, "duplikat") /\ UNCHANGED ausfaelle
    BY <1>2, <1>3, <1>7, <1>8, <2>5, BehandeltErhaelt
  <2>6. CASE ausfaelle < MaxAusfaelle /\ ausfaelle' = ausfaelle + 1 /\ Behandelt(u, "meldung")
    <3>1. ausfaelle' \in 0..MaxAusfaelle
      BY <1>7, <2>6, ErGroessen
    <3>2. QED
      BY <1>2, <1>3, <1>8, <2>6, <3>1, BehandeltErhaelt
  <2>7. QED
    BY <2>3, <2>4, <2>5, <2>6 DEF ERechnung
<1>11. CASE i.art = "nichts" /\ Behandelt(u, "meldung") /\ UNCHANGED ausfaelle
  BY <1>2, <1>3, <1>7, <1>8, <1>11, BehandeltErhaelt
<1>12. CASE i.art = "pdf" /\ BekommtZeile(u, PdfEntwurf(u)) /\ UNCHANGED ausfaelle
  <2>1. PICK z : z = PdfEntwurf(u)
    OBVIOUS
  <2>2. z \in Zeilen /\ ZeileGilt(z) /\ NeueZeile(z) /\ z.mail = u /\ z.xml = Leer
    BY <1>4, <2>1, PdfEntwurfFakten
  <2>3. QED
    BY <1>2, <1>3, <1>7, <1>12, <2>1, <2>2, BekommtZeileErhaelt
<1>13. QED
  BY <1>9, <1>10, <1>11, <1>12

LEMMA AbschliessenErhaelt ==
  ASSUME IEr, Abschliessen PROVE IEr'
<1>1. /\ eingang.laeuft /\ eingang.offen = {} /\ rechnung' = Darueber(eingang.zeilen, rechnung) /\ grenze' = eingang.bis
      /\ spur' = Darueber(eingang.spur, spur) /\ eingang' = Ruht
      /\ UNCHANGED <<objekte, bearbeitung, postfach, ausfaelle, gespeichert, erZugleich>>
  BY DEF Abschliessen
<1>2. /\ rechnung \in [Eingangsrechnungen -> Zeilen] /\ eingang.zeilen \in Zuordnung /\ eingang.spur \in Vermerk /\ spur \in Vermerk
      /\ DOMAIN eingang.zeilen \subseteq Eingangsrechnungen
  BY ErFakten
<1>3. /\ rechnung' \in [Eingangsrechnungen -> Zeilen]
      /\ \A e \in DOMAIN eingang.zeilen : rechnung'[e] = eingang.zeilen[e]
      /\ \A e \in Eingangsrechnungen \ DOMAIN eingang.zeilen : rechnung'[e] = rechnung[e]
  <2>1. Darueber(eingang.zeilen, rechnung) \in [Eingangsrechnungen -> Zeilen]
    BY <1>2, ZuordnungFakten
  <2>2. QED
    BY <1>1, <1>2, <2>1 DEF Darueber
<1>4. \A e \in DOMAIN eingang.zeilen :
        /\ rechnung[e] = KeineZeile /\ \A a \in ErAnfragen : bearbeitung[a].zeile # e
        /\ ZeileGilt(eingang.zeilen[e]) /\ NeueZeile(eingang.zeilen[e])
        /\ Gebraucht(e, eingang.zeilen[e]) \subseteq objekte
  BY DEF IEr, ZeilenGelten
<1>5. /\ DOMAIN spur' = DOMAIN eingang.spur \cup DOMAIN spur /\ spur' \in Vermerk
      /\ \A u \in DOMAIN eingang.spur : spur'[u] = eingang.spur[u]
      /\ \A u \in DOMAIN spur \ DOMAIN eingang.spur : spur'[u] = spur[u]
  <2>1. spur' \in Vermerk
    BY <1>1, <1>2, VermerkFakten
  <2>2. QED
    BY <1>1, <2>1 DEF Darueber
<1>6. /\ eingang.bis \in DOMAIN postfach /\ DOMAIN eingang.spur \subseteq 1..eingang.bis
      /\ \A u \in 1..eingang.bis : u \in DOMAIN spur \cup DOMAIN eingang.spur
      /\ ~gespeichert => /\ grenze < eingang.bis /\ \A u \in DOMAIN eingang.spur : u > grenze
                         /\ \A u \in DOMAIN spur : u <= grenze
  BY <1>1 DEF IEr, PostGilt
<1>7. eingang.bis \in Nat /\ grenze \in Nat /\ DOMAIN spur \subseteq Nat /\ DOMAIN eingang.spur \subseteq Nat
  <2>1. DOMAIN postfach \subseteq Nat
    <3>1. PICK n : n = Cardinality(DOMAIN postfach)
      OBVIOUS
    <3>2. DOMAIN postfach = 1..n /\ n \in Nat
      BY <3>1, ErGroessen DEF IEr, ErZustand
    <3>3. QED
      BY <3>2
  <2>2. QED
    BY <1>2, <1>6, <2>1, VermerkFakten DEF IEr, PostGilt
<1>8. ErZustand'
  BY <1>1, <1>3, <1>5, RuhtFakten DEF IEr, ErZustand
<1>9. PostGilt'
  <2>1. ~gespeichert => \A u \in DOMAIN spur' : u <= eingang.bis
    <3>1. ASSUME ~gespeichert, NEW u \in DOMAIN spur' PROVE u <= eingang.bis
      BY <1>5, <1>6, <1>7, <3>1
    <3>2. QED
      BY <3>1
  <2>2. QED
    BY <1>1, <1>5, <1>6, <2>1, RuhtFakten DEF PostGilt
<1>10. ZeilenGelten'
  <2>1. \A e \in Eingangsrechnungen : ZeileGilt(rechnung'[e])
    BY <1>3, <1>4 DEF IEr, ZeilenGelten
  <2>2. QED
    BY <1>1, <2>1, RuhtFakten DEF ZeilenGelten
<1>11. SpurGilt'
  <2>1. ASSUME NEW u \in Nat \ {0}, ~gespeichert PROVE Hinterlaesst(spur, rechnung, u)'
    <3>1. PICK A, B : /\ A = {e \in DOMAIN eingang.zeilen : eingang.zeilen[e].mail = u}
                      /\ B = {e \in DOMAIN rechnung : rechnung[e].mail = u}
      OBVIOUS
    <3>2. {e \in DOMAIN rechnung' : rechnung'[e].mail = u} = A \cup B
      <4>1. \A e \in DOMAIN eingang.zeilen : rechnung[e].mail = 0
        BY <1>4, KeineZeileFakten
      <4>2. DOMAIN rechnung = Eingangsrechnungen /\ DOMAIN rechnung' = Eingangsrechnungen
        BY <1>2, <1>3
      <4>3. QED
        BY <1>2, <1>3, <2>1, <3>1, <4>1, <4>2
    <3>3. Hinterlaesst(spur, rechnung, u) /\ Hinterlaesst(eingang.spur, eingang.zeilen, u)
      BY <2>1 DEF IEr, SpurGilt
    <3>4. CASE u \in DOMAIN eingang.spur
      <4>1. u \notin DOMAIN spur
        <5>1. u \in DOMAIN spur => u <= grenze /\ u > grenze
          BY <1>6, <2>1, <3>4
        <5>2. QED
          BY <1>7, <2>1, <5>1
      <4>2. B = {}
        BY <3>1, <3>3, <4>1 DEF Hinterlaesst
      <4>3. {e \in DOMAIN rechnung' : rechnung'[e].mail = u} = A
        BY <3>2, <4>2
      <4>4. u \in DOMAIN spur' /\ spur'[u] = eingang.spur[u]
        BY <1>5, <3>4
      <4>5. QED
        BY <3>1, <3>3, <3>4, <4>3, <4>4 DEF Hinterlaesst
    <3>5. CASE u \notin DOMAIN eingang.spur
      <4>1. A = {}
        BY <3>1, <3>3, <3>5 DEF Hinterlaesst
      <4>2. {e \in DOMAIN rechnung' : rechnung'[e].mail = u} = B
        BY <3>2, <4>1
      <4>3. (u \in DOMAIN spur' <=> u \in DOMAIN spur) /\ (u \in DOMAIN spur => spur'[u] = spur[u])
        BY <1>5, <3>5
      <4>4. QED
        BY <3>1, <3>3, <4>2, <4>3 DEF Hinterlaesst
    <3>6. QED
      BY <3>4, <3>5
  <2>2. ASSUME NEW u PROVE Hinterlaesst(eingang.spur, eingang.zeilen, u)'
    <3>1. DOMAIN eingang'.zeilen = {} /\ DOMAIN eingang'.spur = {}
      BY <1>1, RuhtFakten
    <3>2. QED
      BY <3>1 DEF Hinterlaesst
  <2>3. QED
    BY <1>1, <2>1, <2>2 DEF SpurGilt
<1>12. AnfragenGelten'
  <2>1. \A a \in ErAnfragen : bearbeitung[a].art # Leer => rechnung'[bearbeitung[a].zeile] = rechnung[bearbeitung[a].zeile]
    BY <1>3, <1>4, AnfrageFakten
  <2>2. \A a \in ErAnfragen : bearbeitung[a].art \in Aenderungen \cup Belegarten => rechnung'[bearbeitung[a].zeile].status # "keine"
    BY <2>1, AnfrageFakten, ErGroessen
  <2>3. "import" # Leer
    BY ErGroessen
  <2>4. QED
    BY <1>1, <2>1, <2>2, <2>3, AnfragenGehenWeiter
<1>13. SchluesselFrei'
  <2>1. ASSUME NEW e \in Eingangsrechnungen, NEW c \in ErAnfragen, \A a \in ErAnfragen : bearbeitung'[a].zeile = e
        PROVE  rechnung'[e].beleg \in {0} \cup {bearbeitung'[a].alt.beleg : a \in ErAnfragen}
    <3>1. e \notin DOMAIN eingang.zeilen
      BY <1>1, <1>4, <2>1
    <3>2. QED
      BY <1>1, <1>3, <2>1, <3>1 DEF IEr, SchluesselFrei
  <2>2. QED
    BY <2>1 DEF SchluesselFrei
<1>14. Allein'
  <2>1. ~erZugleich => \A a \in ErAnfragen : bearbeitung'[a] = OhneAnfrage
    BY <1>1, AlleinAmWerk, AnfrageFakten
  <2>2. QED
    BY <1>1, <2>1, AlleinBleibt
<1>15. BuecherGelten'
  <2> SUFFICES ASSUME ~erZugleich PROVE BuecherGelten'
    BY <1>1 DEF BuecherGelten
  <2>1. PICK g : g = Darueber(eingang.zeilen, rechnung)
    OBVIOUS
  <2>2. Verschieden(g) /\ rechnung' = g
    BY <1>1, <2>1 DEF IEr, BuecherGelten
  <2>3. Darueber(eingang.zeilen, rechnung)' = [e \in Eingangsrechnungen |-> rechnung'[e]]
    BY <1>1, <1>3, RuhtFakten DEF Darueber
  <2>4. Darueber(eingang.zeilen, rechnung)' = g
    BY <1>3, <2>2, <2>3
  <2>5. \A e \in Eingangsrechnungen : rechnung'[e].durchZahlung =>
          rechnung'[e].status = "bezahlt" /\ rechnung'[e].gezahlt = Brutto(rechnung'[e])
    BY <1>3, <1>4 DEF IEr, BuecherGelten, NeueZeile, Brutto
  <2>6. QED
    BY <2>2, <2>4, <2>5 DEF BuecherGelten, Verschieden, Brutto
<1>16. BelegeVorhanden'
  <2>1. \A e \in DOMAIN eingang.zeilen : BelegVorhanden(e)'
    BY <1>1, <1>3, <1>4 DEF BelegVorhanden, Gebraucht
  <2>2. QED
    BY <1>1, <1>3, <2>1, BelegeHalten
<1>17. QED
  BY <1>8, <1>9, <1>10, <1>11, <1>12, <1>13, <1>14, <1>15, <1>16 DEF IEr

LEMMA EingangAbgebrochenErhaelt ==
  ASSUME IEr, EingangAbgebrochen PROVE IEr'
<1>1. /\ eingang.laeuft /\ ausfaelle < MaxAusfaelle /\ ausfaelle' = ausfaelle + 1
      /\ objekte' = {o \in objekte : o[1] \notin DOMAIN eingang.zeilen} /\ eingang' = Ruht
      /\ UNCHANGED <<rechnung, bearbeitung, postfach, grenze, spur, gespeichert, erZugleich>>
  BY DEF EingangAbgebrochen
<1>2. ErZustand'
  <2>1. objekte' \subseteq Eingangsrechnungen \X (0..MaxBelege)
    BY <1>1, ErFakten
  <2>2. ausfaelle' \in 0..MaxAusfaelle
    BY <1>1, ErGroessen DEF IEr, ErZustand
  <2>3. QED
    BY <1>1, <2>1, <2>2, RuhtFakten DEF IEr, ErZustand
<1>3. PostGilt'
  BY <1>1, RuhtFakten DEF IEr, PostGilt
<1>4. ZeilenGelten'
  BY <1>1, RuhtFakten DEF IEr, ZeilenGelten
<1>5. SpurGilt'
  <2>1. \A u : Hinterlaesst(spur, rechnung, u)' <=> Hinterlaesst(spur, rechnung, u)
    BY <1>1 DEF Hinterlaesst
  <2>2. ASSUME NEW u PROVE Hinterlaesst(eingang.spur, eingang.zeilen, u)'
    <3>1. DOMAIN eingang'.zeilen = {} /\ DOMAIN eingang'.spur = {}
      BY <1>1, RuhtFakten
    <3>2. QED
      BY <3>1 DEF Hinterlaesst
  <2>3. QED
    BY <1>1, <2>1, <2>2 DEF IEr, SpurGilt
<1>6. AnfragenGelten' /\ SchluesselFrei' /\ BelegeVorhanden'
  BY <1>1, AnfragenRuhen
<1>7. Allein'
  BY <1>1, RuhtFakten, AlleinBleibt
<1>8. BuecherGelten'
  <2> SUFFICES ASSUME ~erZugleich PROVE BuecherGelten'
    BY <1>1 DEF BuecherGelten
  <2>1. PICK f : f = Darueber(eingang.zeilen, rechnung)
    OBVIOUS
  <2>2. PICK g : g = rechnung
    OBVIOUS
  <2>3. Verschieden(f)
    BY <2>1 DEF IEr, BuecherGelten
  <2>4. DOMAIN f = Eingangsrechnungen /\ DOMAIN g = Eingangsrechnungen
    BY <2>1, <2>2, ErFakten DEF Darueber
  <2>5. \A e \in Eingangsrechnungen : g[e] = f[e] \/ ~Lebt(g[e])
    <3>1. \A e \in DOMAIN eingang.zeilen : ~Lebt(g[e])
      BY <2>2, KeineZeileFakten DEF IEr, ZeilenGelten
    <3>2. \A e \in Eingangsrechnungen \ DOMAIN eingang.zeilen : g[e] = f[e]
      BY <2>1, <2>2, ErFakten DEF Darueber
    <3>3. QED
      BY <3>1, <3>2
  <2>6. Verschieden(g)
    BY <2>3, <2>4, <2>5, VerschiedenBleibt
  <2>7. Darueber(eingang.zeilen, rechnung)' = [e \in Eingangsrechnungen |-> rechnung[e]]
    BY <1>1, ErFakten, RuhtFakten DEF Darueber
  <2>8. Darueber(eingang.zeilen, rechnung)' = g
    BY <2>2, <2>7, ErFakten
  <2>9. QED
    BY <1>1, <2>6, <2>8 DEF IEr, BuecherGelten, Verschieden, Brutto
<1>9. QED
  BY <1>2, <1>3, <1>4, <1>5, <1>6, <1>7, <1>8 DEF IEr

-----------------------------------------------------------------------------
LEMMA ErSchritt == IEr /\ [ErNext]_erVars => IEr'
<1> SUFFICES ASSUME IEr, [ErNext]_erVars PROVE IEr'
  OBVIOUS
<1>1. CASE UNCHANGED erVars
  <2>1. UNCHANGED <<rechnung, objekte, bearbeitung, postfach, grenze, eingang, spur, ausfaelle, gespeichert, erZugleich>>
    BY <1>1 DEF erVars
  <2>2. ErZustand' /\ PostGilt' /\ ZeilenGelten'
    BY <2>1 DEF IEr, ErZustand, PostGilt, ZeilenGelten
  <2>3. SpurGilt'
    BY <2>1 DEF IEr, SpurGilt, Hinterlaesst
  <2>4. AnfragenGelten' /\ SchluesselFrei' /\ BelegeVorhanden'
    BY <2>1, AnfragenRuhen
  <2>5. Allein'
    BY <2>1, AlleinBleibt
  <2>6. BuecherGelten'
    BY <2>1, ErFakten, BuecherGehenWeiter
  <2>7. QED
    BY <2>2, <2>3, <2>4, <2>5, <2>6 DEF IEr
<1>2. CASE Create
  BY <1>2, CreateErhaelt
<1>3. CASE PostAnkunft
  BY <1>3, PostAnkunftErhaelt
<1>4. CASE EinstellungenSpeichern
  BY <1>4, EinstellungenErhalten
<1>5. CASE EingangBeginnt
  BY <1>5, EingangBeginntErhaelt
<1>6. CASE Verarbeite
  BY <1>6, VerarbeiteErhaelt
<1>7. CASE Abschliessen
  BY <1>7, AbschliessenErhaelt
<1>8. CASE EingangAbgebrochen
  BY <1>8, EingangAbgebrochenErhaelt
<1>9. CASE \E e \in Eingangsrechnungen : Restore(e)
  BY <1>9, RestoreErhaelt
<1>10. ASSUME NEW a \in ErAnfragen,
              Lesen(a) \/ Ablegen(a) \/ Schreiben(a) \/ SchreibenScheitert(a) \/ ImportPrueft(a) \/ ImportSchreibt(a)
       PROVE  IEr'
  BY <1>10, LesenErhaelt, AblegenErhaelt, SchreibenErhaelt, SchreibenScheitertErhaelt, ImportPrueftErhaelt,
     ImportSchreibtErhaelt
<1>11. QED
  BY <1>1, <1>2, <1>3, <1>4, <1>5, <1>6, <1>7, <1>8, <1>9, <1>10 DEF ErNext

LEMMA ErFolgt == IEr => EingangStimmt
<1> SUFFICES ASSUME IEr PROVE EingangStimmt
  OBVIOUS
<1>1. EinmalErfasst
  <2> SUFFICES ASSUME ~erZugleich, NEW e \in Eingangsrechnungen, NEW f \in Eingangsrechnungen, e # f,
                      \A g \in {e, f} : Lebt(rechnung[g]) /\ rechnung[g].xml # Leer /\ ~rechnung[g].zurueck
               PROVE  rechnung[e].xml # rechnung[f].xml /\ rechnung[e].nummer # rechnung[f].nummer
    BY DEF EinmalErfasst
  <2>1. PICK h : h = Darueber(eingang.zeilen, rechnung)
    OBVIOUS
  <2>2. Verschieden(h)
    BY <2>1 DEF IEr, BuecherGelten
  <2>3. e \notin DOMAIN eingang.zeilen /\ f \notin DOMAIN eingang.zeilen
    BY KeineZeileFakten DEF IEr, ZeilenGelten
  <2>4. {e, f} \subseteq DOMAIN h /\ h[e] = rechnung[e] /\ h[f] = rechnung[f]
    BY <2>1, <2>3, ErFakten DEF Darueber
  <2>5. QED
    BY <2>2, <2>4 DEF Verschieden
<1>2. BelegDa
  <2> SUFFICES ASSUME NEW e \in Eingangsrechnungen, NEW o \in Gebraucht(e, rechnung[e])
               PROVE  o \in objekte \cup {<<e, b>> : b \in {x \in 1..MaxBelege : rechnung[e].ersetzt}}
                            \cup {<<e, bearbeitung[a].alt.beleg>> :
                                   a \in {b \in ErAnfragen : bearbeitung[b].zeile = e /\ bearbeitung[b].abgelegt}}
    BY DEF BelegDa
  <2>1. BelegVorhanden(e) /\ rechnung[e].beleg \in 0..MaxBelege
    BY ErFakten, ZeileFelder DEF IEr, BelegeVorhanden
  <2>2. CASE o = <<e, 0>> /\ rechnung[e].xml # Leer
    BY <2>1, <2>2 DEF BelegVorhanden
  <2>3. CASE o = <<e, rechnung[e].beleg>> /\ rechnung[e].beleg # 0
    <3>1. rechnung[e].beleg \in 1..MaxBelege
      BY <2>1, <2>3, ErGroessen
    <3>2. QED
      BY <2>1, <2>3, <3>1 DEF BelegVorhanden
  <2>4. QED
    BY <2>2, <2>3 DEF Gebraucht
<1>3. BezahltGedeckt
  BY DEF BezahltGedeckt, IEr, BuecherGelten
<1>4. MailEinmal
  <2>1. ASSUME ~gespeichert, NEW u \in DOMAIN postfach, NEW zeilen, zeilen = {e \in Eingangsrechnungen : rechnung[e].mail = u}
        PROVE  IF u \in DOMAIN spur /\ spur[u] = "zeile" THEN Cardinality(zeilen) = 1 ELSE zeilen = {}
    <3>1. u \in Nat \ {0}
      <4>1. PICK n : n = Cardinality(DOMAIN postfach)
        OBVIOUS
      <4>2. DOMAIN postfach = 1..n /\ n \in Nat
        BY <4>1, ErGroessen DEF IEr, ErZustand
      <4>3. QED
        BY <2>1, <4>2
    <3>2. Hinterlaesst(spur, rechnung, u)
      BY <2>1, <3>1 DEF IEr, SpurGilt
    <3>3. zeilen = {e \in DOMAIN rechnung : rechnung[e].mail = u}
      BY <2>1, ErFakten
    <3>4. CASE u \in DOMAIN spur /\ spur[u] = "zeile"
      BY <3>2, <3>3, <3>4, FS_Singleton DEF Hinterlaesst
    <3>5. CASE ~(u \in DOMAIN spur /\ spur[u] = "zeile")
      BY <3>2, <3>3, <3>5 DEF Hinterlaesst
    <3>6. QED
      BY <3>4, <3>5
  <2>2. (\A u \in 1..grenze : u \in DOMAIN spur) /\ (~gespeichert => \A u \in DOMAIN spur : u <= grenze)
    BY DEF IEr, PostGilt
  <2>3. QED
    BY <2>1, <2>2 DEF MailEinmal
<1>5. QED
  BY <1>1, <1>2, <1>3, <1>4 DEF EingangStimmt

(* What comes in is kept once and with its proof: an e-invoice is in the books once where transactions
   do not overlap, no row misses an object that no failure took, an invoice settled by payments is paid
   exactly, and a mail leaves one trace. *)
THEOREM EingangBleibtStimmig == ErSpec => []EingangStimmt
<1>1. ErInit => IEr
  BY ErStart
<1>2. IEr /\ [ErNext]_erVars => IEr'
  BY ErSchritt
<1>3. IEr => EingangStimmt
  BY ErFolgt
<1>4. QED
  BY <1>1, <1>2, <1>3, PTL DEF ErSpec

-----------------------------------------------------------------------------
(***************************************************************************)
(* Requests that do not overlap.  What a request has loaded or read must   *)
(* be so until it commits.  A request that commits is the only one, and so *)
(* none is left afterwards; a request that goes on writes nothing.  What   *)
(* remains is what a commit does to the tables, one lemma for each.        *)
(***************************************************************************)

Einzeln == \A a, c \in Anfragen : a = c

-----------------------------------------------------------------------------
(***************************************************************************)
(* The inductive invariants: IStorno of every behaviour, IKonto of those   *)
(* without deleted jobs.                                                   *)
(***************************************************************************)

\* Exactly the cancelled documents have a counter-document, and one.
StornoPasst ==
  \A b \in Belege :
    /\ IF beleg[b].status = "storniert" THEN \E s \in Belege : Stornos(b) = {s} ELSE Stornos(b) = {}
    /\ \A s \in Stornos(b) : beleg[s].brutto = -beleg[b].brutto

Unbenutzt == \A b \in Belege : beleg[b].status \in {"frei", "entwurf"} => beleg[b].art = "rechnung"

\* The request is about to cancel a credit note and has read the invoice behind it.
VorGutschriftstorno(q) == q.art = "storno" /\ q.phase = "nummer" /\ beleg[q.beleg].art = "gutschrift"

\* What a request has loaded is still so.
Geladen(q) ==
  /\ q.status = IF VorGutschriftstorno(q) THEN beleg[beleg[q.beleg].bezug].status ELSE beleg[q.beleg].status
  /\ q.art \in {"versand", "loeschen"} => beleg[q.beleg].status = "entwurf"
  /\ q.art \in {"storno", "gutschrift"} => beleg[q.beleg].status \in Versandt
  /\ q.art \in {"zahlung", "abschluss"} => beleg[q.beleg].status \in Zahlbar
  /\ q.art = "zahlungsstorno" => beleg[q.beleg].status \in Versandt
GeladenGilt == \A a \in Anfragen : anfrage[a].phase # "frei" => Geladen(anfrage[a])

\* Only what was shipped was paid.
GeldVersandt ==
  \A z \in Buchungen : zahlung[z].beleg # Nichts =>
    zahlung[z].beleg \in Belege /\ beleg[zahlung[z].beleg].status \notin {"frei", "entwurf"}

IStorno == TypInv /\ StornoPasst /\ Unbenutzt /\ GeldVersandt /\ GeladenGilt

\* The invoices of the beginning keep what they charge.
RechnungBleibt ==
  \A b \in Rechnungen : beleg[b].art = "rechnung" /\ beleg[b].brutto = Betrag[b] /\ beleg[b].status # "frei"

\* Payments and credit notes have an amount, and a credit note in force an invoice.
GeldEcht == \A z \in Buchungen : zahlung[z].beleg # Nichts => zahlung[z].betrag > 0
GutschriftEcht ==
  \A g \in Belege : Zaehlt(g) =>
    /\ beleg[g].brutto < 0
    /\ beleg[beleg[g].bezug].art = "rechnung" /\ beleg[beleg[g].bezug].status \in Versandt

\* The running totals are the sums of the code.
Eingaenge(b) == {z \in Buchungen : zahlung[z].beleg = b /\ zahlung[z].gegen = 0}
Einnahmen == [z \in Buchungen |-> zahlung[z].betrag]
GezahltGilt == \A b \in Belege : gezahlt[b] = Summe(Einnahmen, Eingaenge(b))
Abzuege == [g \in Belege |-> -beleg[g].brutto]
GutGilt == \A b \in Belege : gutgeschrieben[b] = Summe(Abzuege, GutschriftenZu(b))

\* The status of an invoice that was shipped is the one its amounts call for.
StatusRegel(n, z, g) ==
  IF n - z - g <= 0 THEN "bezahlt" ELSE IF z > 0 THEN "teilweise_bezahlt" ELSE "versendet"
Stimmig(b) ==
  /\ beleg[b].status # "frei" => beleg[b].brutto > 0
  /\ beleg[b].status \in Versandt => beleg[b].status = StatusRegel(beleg[b].brutto, gezahlt[b], gutgeschrieben[b])
StatusGilt == \A b \in Belege : beleg[b].art = "rechnung" => Stimmig(b)

\* What a request has read of the accounts is still so.
Gelesen(q) ==
  LET b == q.beleg IN
  /\ q.art \in {"zahlung", "gutschrift"} => q.betrag > 0
  /\ q.art \in {"zahlung", "abschluss"} =>
       /\ beleg[b].art # "gutschrift"
       /\ q.phase = "geprueft" => q.gezahlt = gezahlt[b] /\ q.gut = gutgeschrieben[b]
  /\ q.art = "zahlung" /\ q.phase = "geprueft" => q.betrag <= Offen(beleg[b].brutto, q.gezahlt, q.gut)
  /\ q.art = "zahlungsstorno" =>
       /\ zahlung[q.buchung].beleg = b /\ zahlung[q.buchung].gegen = 0 /\ zahlung[q.buchung].betrag = q.betrag
       /\ q.phase = "geprueft" => q.gezahlt = gezahlt[b] - q.betrag /\ q.gut = gutgeschrieben[b]
  /\ q.art = "storno" /\ q.phase # "geladen" => GutschriftenZu(b) = {}
  /\ VorGutschriftstorno(q) => /\ q.gezahlt = gezahlt[beleg[b].bezug]
                               /\ q.gut = gutgeschrieben[beleg[b].bezug] + beleg[b].brutto
KontoGelesen == \A a \in Anfragen : anfrage[a].phase # "frei" => Gelesen(anfrage[a])

\* The accounts, the documents and the job.
KontenStimmen ==
  /\ RechnungBleibt /\ GeldEcht /\ GutschriftEcht /\ GezahltGilt /\ GutGilt /\ StatusGilt
  /\ AbgerechnetHatGrund

IKonto == IInv /\ IStorno /\ KontenStimmen /\ KontoGelesen

-----------------------------------------------------------------------------
(***************************************************************************)
(* Requests.                                                               *)
(***************************************************************************)

\* Who commits was the only one.
LEMMA DanachKeiner ==
  ASSUME TypInv, Einzeln, NEW a \in Anfragen, Fertig(a)
  PROVE  \A c \in Anfragen : anfrage'[c].phase = "frei"
  BY KeineTyp DEF Fertig, Einzeln, TypInv, TypeOK

\* A request that begins on a document, and one that goes on.
LEMMA LadenFakten ==
  ASSUME TypInv, NEW a \in Anfragen, NEW o, NEW b, NEW n, NEW z, Laden(a, o, b, n, z)
  PROVE  /\ UNCHANGED daten
         /\ \A c \in Anfragen \ {a} : anfrage'[c] = anfrage[c]
         /\ anfrage'[a].art = o /\ anfrage'[a].phase = "geladen" /\ anfrage'[a].beleg = b
         /\ anfrage'[a].betrag = n /\ anfrage'[a].buchung = z /\ anfrage'[a].status = beleg[b].status
<1> DEFINE q == Anfrage(o, "geladen", b, n, z, beleg[b].status, 0, 0)
<1>1. anfrage' = [anfrage EXCEPT ![a] = q] /\ UNCHANGED daten
  BY DEF Laden
<1>2. /\ q.art = o /\ q.phase = "geladen" /\ q.beleg = b /\ q.betrag = n /\ q.buchung = z
      /\ q.status = beleg[b].status
  BY DEF Anfrage
<1> HIDE DEF q
<1>3. QED
  BY <1>1, <1>2 DEF TypInv, TypeOK

LEMMA WeiterFakten ==
  ASSUME TypInv, NEW a \in Anfragen, NEW p, NEW s, NEW sz, NEW sg, Weiter(a, p, s, sz, sg)
  PROVE  /\ UNCHANGED daten
         /\ \A c \in Anfragen \ {a} : anfrage'[c] = anfrage[c]
         /\ anfrage'[a].art = anfrage[a].art /\ anfrage'[a].phase = p /\ anfrage'[a].beleg = anfrage[a].beleg
         /\ anfrage'[a].betrag = anfrage[a].betrag /\ anfrage'[a].buchung = anfrage[a].buchung
         /\ anfrage'[a].status = s /\ anfrage'[a].gezahlt = sz /\ anfrage'[a].gut = sg
<1> DEFINE r == anfrage[a]
           q == Anfrage(r.art, p, r.beleg, r.betrag, r.buchung, s, sz, sg)
<1>1. anfrage' = [anfrage EXCEPT ![a] = q] /\ UNCHANGED daten
  BY DEF Weiter
<1>2. /\ q.art = r.art /\ q.phase = p /\ q.beleg = r.beleg /\ q.betrag = r.betrag /\ q.buchung = r.buchung
      /\ q.status = s /\ q.gezahlt = sz /\ q.gut = sg
  BY DEF Anfrage
<1> HIDE DEF q
<1>3. QED
  BY <1>1, <1>2 DEF TypInv, TypeOK

\* What has to be shown of a step that leaves the tables alone.
LEMMA GeladenSonst ==
  ASSUME GeladenGilt, UNCHANGED beleg, NEW a \in Anfragen,
         \A c \in Anfragen \ {a} : anfrage'[c] = anfrage[c], Geladen(anfrage[a])'
  PROVE  GeladenGilt'
  BY DEF GeladenGilt, Geladen, VorGutschriftstorno

LEMMA BeginnGeladen ==
  ASSUME IStorno, NEW a \in Anfragen, Beginn(a)
  PROVE  GeladenGilt' /\ UNCHANGED daten
<1> TypInv
  BY DEF IStorno
<1> DEFINE Ziel == Geladen(anfrage[a])' /\ UNCHANGED daten /\ \A c \in Anfragen \ {a} : anfrage'[c] = anfrage[c]
<1> SUFFICES Ziel
  BY GeladenSonst DEF IStorno, daten
<1>1. PICK b \in Belege :
        \/ LadeVersand(a, b) \/ LadeLoeschen(a, b) \/ LadeAbschluss(a, b) \/ LadeStorno(a, b)
        \/ \E n \in Betraege : LadeZahlung(a, b, n) \/ LadeGutschrift(a, b, n)
        \/ \E z \in Buchungen : LadeZahlungsstorno(a, b, z)
  BY DEF Beginn
<1> USE LadenFakten DEF Geladen, VorGutschriftstorno, daten
<1>2. CASE LadeVersand(a, b)
  BY <1>2 DEF LadeVersand
<1>3. CASE LadeLoeschen(a, b)
  BY <1>3 DEF LadeLoeschen
<1>4. CASE LadeAbschluss(a, b)
  BY <1>4 DEF LadeAbschluss
<1>5. CASE LadeStorno(a, b)
  BY <1>5 DEF LadeStorno
<1>6. ASSUME NEW n \in Betraege, LadeZahlung(a, b, n) PROVE Ziel
  BY <1>6 DEF LadeZahlung
<1>7. ASSUME NEW n \in Betraege, LadeGutschrift(a, b, n) PROVE Ziel
  BY <1>7 DEF LadeGutschrift
<1>8. ASSUME NEW z \in Buchungen, LadeZahlungsstorno(a, b, z) PROVE Ziel
  <2>1. beleg[b].status \in Versandt
    BY <1>8, BelegFelder, KonstantenAnnahme DEF LadeZahlungsstorno, IStorno, GeldVersandt, Status, Versandt
  <2>2. QED
    BY <1>8, <2>1 DEF LadeZahlungsstorno
<1>9. QED
  BY <1>1, <1>2, <1>3, <1>4, <1>5, <1>6, <1>7, <1>8

\* The steps of a request before its commit.
Zwischenschritt(a) ==
  \/ LiesKonto(a) \/ LiesNachGegenbuchung(a) \/ PruefeStorno(a) \/ SperreOriginal(a)
  \/ NimmNummerFuerGutschrift(a) \/ NimmNummerFuerStorno(a)

LEMMA ZwischenGeladen ==
  ASSUME IStorno, NEW a \in Anfragen, Zwischenschritt(a)
  PROVE  GeladenGilt' /\ UNCHANGED daten
<1> TypInv
  BY DEF IStorno
<1> SUFFICES Geladen(anfrage[a])' /\ UNCHANGED daten /\ \A c \in Anfragen \ {a} : anfrage'[c] = anfrage[c]
  BY GeladenSonst DEF IStorno, daten
<1>1. anfrage[a].phase # "frei"
  BY DEF Zwischenschritt, LiesKonto, LiesNachGegenbuchung, PruefeStorno, SperreOriginal,
         NimmNummerFuerGutschrift, NimmNummerFuerStorno, In
<1>2. Geladen(anfrage[a])
  BY <1>1 DEF IStorno, GeladenGilt
<1> USE WeiterFakten, <1>2 DEF In, Geladen, VorGutschriftstorno, daten
<1>3. CASE LiesKonto(a)
  BY <1>3 DEF LiesKonto
<1>4. CASE LiesNachGegenbuchung(a)
  BY <1>4 DEF LiesNachGegenbuchung
<1>5. CASE PruefeStorno(a)
  BY <1>5 DEF PruefeStorno
<1>6. CASE SperreOriginal(a)
  BY <1>6 DEF SperreOriginal
<1>7. CASE NimmNummerFuerGutschrift(a)
  BY <1>7 DEF NimmNummerFuerGutschrift
<1>8. CASE NimmNummerFuerStorno(a)
  <2>1. CASE beleg[anfrage[a].beleg].art = "gutschrift"
    BY <1>8, <2>1 DEF NimmNummerFuerStorno
  <2>2. CASE beleg[anfrage[a].beleg].art # "gutschrift"
    BY <1>8, <2>2 DEF NimmNummerFuerStorno
  <2>3. QED
    BY <2>1, <2>2
<1>9. QED
  BY <1>3, <1>4, <1>5, <1>6, <1>7, <1>8 DEF Zwischenschritt

-----------------------------------------------------------------------------
(***************************************************************************)
(* Documents.  All commits but that of a cancellation leave a document as  *)
(* it is, change its status among those of a shipped one, or add a credit  *)
(* note.                                                                   *)
(***************************************************************************)

Ruhig(b) ==
  /\ beleg'[b].art = beleg[b].art /\ beleg'[b].brutto = beleg[b].brutto /\ beleg'[b].bezug = beleg[b].bezug
  /\ \/ beleg'[b].status = beleg[b].status
     \/ beleg[b].status \in Versandt \cup {"entwurf"} /\ beleg'[b].status \in Versandt

NeueGutschrift(b) ==
  beleg[b].status = "frei" /\ beleg'[b].art = "gutschrift" /\ beleg'[b].status = "versendet"

LEMMA RuhigGesetzt ==
  ASSUME TypInv, NEW b \in Belege, beleg[b].status \in Versandt \cup {"entwurf"}, NEW s \in Versandt, SetzeStatus(b, s)
  PROVE  beleg'[b].status = s /\ Ruhig(b) /\ \A c \in Belege : Ruhig(c) /\ (c # b => beleg'[c] = beleg[c])
  BY DEF SetzeStatus, Ruhig, TypInv, TypeOK, BelegTyp

LEMMA RuhigGeschrieben ==
  ASSUME TypInv, NEW b \in Belege, beleg[b].status \in Versandt \cup {"entwurf"},
         NEW s \in Versandt \cup {beleg[b].status}, SchreibeStatus(b, s, beleg[b].status)
  PROVE  beleg'[b].status = s /\ Ruhig(b) /\ \A c \in Belege : Ruhig(c) /\ (c # b => beleg'[c] = beleg[c])
<1>1. CASE s = beleg[b].status
  BY <1>1 DEF SchreibeStatus, Ruhig
<1>2. CASE s # beleg[b].status
  BY <1>2, RuhigGesetzt DEF SchreibeStatus
<1>3. QED
  BY <1>1, <1>2

\* Which document each commit writes, and its status afterwards.
LEMMA VersandBeleg ==
  ASSUME IStorno, NEW a \in Anfragen, SchreibeVersand(a)
  PROVE  LET b == anfrage[a].beleg IN
         /\ b \in Belege /\ beleg[b].status = "entwurf" /\ beleg'[b].status = "versendet"
         /\ \A c \in Belege : Ruhig(c) /\ (c # b => beleg'[c] = beleg[c])
<1> TypInv
  BY DEF IStorno
<1>1. PICK b : b = anfrage[a].beleg
  OBVIOUS
<1>2. b \in Belege /\ beleg[b].status = "entwurf" /\ SetzeStatus(b, "versendet")
  BY <1>1, AnfrageFelder DEF SchreibeVersand, In
<1>3. QED
  BY <1>1, <1>2, RuhigGesetzt DEF Versandt

LEMMA ZahlungBeleg ==
  ASSUME IStorno, NEW a \in Anfragen, SchreibeZahlung(a)
  PROVE  LET q == anfrage[a]  b == q.beleg IN
         /\ b \in Belege /\ beleg[b].status \in Zahlbar
         /\ beleg'[b].status = StatusNachZahlung(beleg[b].brutto, q.gezahlt + q.betrag, beleg[b].status, q.gut)
         /\ \A c \in Belege : Ruhig(c) /\ (c # b => beleg'[c] = beleg[c])
<1> TypInv
  BY DEF IStorno
<1>1. PICK q : q = anfrage[a]
  OBVIOUS
<1>2. PICK b : b = q.beleg
  OBVIOUS
<1>3. /\ q.art = "zahlung" /\ q.phase = "geprueft" /\ b \in Belege /\ q.gezahlt \in Int /\ q.betrag \in Nat
      /\ q.gut \in Int
  BY <1>1, <1>2, AnfrageFelder DEF SchreibeZahlung, In
<1>4. beleg[b].status \in Zahlbar /\ q.status = beleg[b].status
  BY <1>1, <1>2, <1>3 DEF IStorno, GeladenGilt, Geladen, VorGutschriftstorno
<1>5. PICK s : s = StatusNachZahlung(beleg[b].brutto, q.gezahlt + q.betrag, beleg[b].status, q.gut)
  OBVIOUS
<1>6. SchreibeStatus(b, s, beleg[b].status)
  BY <1>1, <1>2, <1>4, <1>5 DEF SchreibeZahlung
<1>7. beleg[b].status \in Versandt \cup {"entwurf"}
  BY <1>4 DEF Zahlbar, Versandt
<1>8. s \in Versandt \cup {beleg[b].status}
  <2>1. q.gezahlt + q.betrag \in Int /\ beleg[b].brutto \in Int /\ beleg[b].status \in Status
    BY <1>3, BelegFelder
  <2>2. QED
    BY <1>3, <1>5, <2>1, RegelnTyp
<1>9. QED
  BY <1>1, <1>2, <1>3, <1>4, <1>5, <1>6, <1>7, <1>8, RuhigGeschrieben

LEMMA AbschlussBeleg ==
  ASSUME IStorno, NEW a \in Anfragen, SchreibeAbschluss(a)
  PROVE  LET b == anfrage[a].beleg IN
         /\ b \in Belege /\ beleg[b].status \in Zahlbar /\ beleg'[b].status = "bezahlt"
         /\ \A c \in Belege : Ruhig(c) /\ (c # b => beleg'[c] = beleg[c])
<1> TypInv
  BY DEF IStorno
<1>1. PICK b : b = anfrage[a].beleg
  OBVIOUS
<1>2. b \in Belege /\ anfrage[a].art = "abschluss" /\ anfrage[a].phase = "geprueft" /\ SetzeStatus(b, "bezahlt")
  BY <1>1, AnfrageFelder DEF SchreibeAbschluss, In
<1>3. beleg[b].status \in Zahlbar
  BY <1>1, <1>2 DEF IStorno, GeladenGilt, Geladen
<1>4. QED
  BY <1>1, <1>2, <1>3, RuhigGesetzt DEF Versandt, Zahlbar

LEMMA GegenbuchungBeleg ==
  ASSUME IStorno, NEW a \in Anfragen, SchreibeGegenbuchung(a)
  PROVE  LET q == anfrage[a]  b == q.beleg IN
         /\ b \in Belege /\ beleg[b].status \in Versandt
         /\ beleg'[b].status = StatusNachGegenbuchung(beleg[b].brutto, q.gezahlt, beleg[b].status, q.gut)
         /\ \A c \in Belege : Ruhig(c) /\ (c # b => beleg'[c] = beleg[c])
<1> TypInv
  BY DEF IStorno
<1>1. PICK q : q = anfrage[a]
  OBVIOUS
<1>2. PICK b : b = q.beleg
  OBVIOUS
<1>3. /\ q.art = "zahlungsstorno" /\ q.phase = "geprueft" /\ b \in Belege /\ q.gezahlt \in Int /\ q.gut \in Int
  BY <1>1, <1>2, AnfrageFelder DEF SchreibeGegenbuchung, In
<1>4. beleg[b].status \in Versandt /\ q.status = beleg[b].status
  BY <1>1, <1>2, <1>3 DEF IStorno, GeladenGilt, Geladen, VorGutschriftstorno
<1>5. PICK s : s = StatusNachGegenbuchung(beleg[b].brutto, q.gezahlt, beleg[b].status, q.gut)
  OBVIOUS
<1>6. SchreibeStatus(b, s, beleg[b].status)
  BY <1>1, <1>2, <1>4, <1>5 DEF SchreibeGegenbuchung
<1>7. beleg[b].brutto \in Int /\ beleg[b].status \in Status
  BY <1>3, BelegFelder
<1>8. beleg[b].status \in Versandt \cup {"entwurf"}
  BY <1>4
<1>9. s \in Versandt \cup {beleg[b].status}
  BY <1>3, <1>5, <1>7, RegelnTyp
<1>10. QED
  BY <1>1, <1>2, <1>3, <1>4, <1>5, <1>6, <1>8, <1>9, RuhigGeschrieben

LEMMA GutschriftBeleg ==
  ASSUME IStorno, NEW a \in Anfragen, SchreibeGutschrift(a)
  PROVE  LET q == anfrage[a]  r == q.beleg IN
         /\ r \in Belege /\ beleg[r].status \in Versandt
         /\ \E n \in FreieBelege :
              /\ n # r /\ NeueGutschrift(n) /\ beleg'[n] = Beleg("gutschrift", "versendet", -q.betrag, r)
              /\ \A c \in Belege \ {n} : Ruhig(c) /\ (c # r => beleg'[c] = beleg[c])
              /\ beleg'[r].status = StatusNachGutschriften(beleg[r].brutto, gezahlt[r], beleg[r].status,
                                                           gutgeschrieben[r] + q.betrag)
<1> TypInv
  BY DEF IStorno
<1>1. PICK q : q = anfrage[a]
  OBVIOUS
<1>2. PICK r : r = q.beleg
  OBVIOUS
<1>3. q.art = "gutschrift" /\ q.phase = "nummer" /\ r \in Belege /\ q.betrag \in Nat
  BY <1>1, <1>2, AnfrageFelder DEF SchreibeGutschrift, In
<1>4. beleg[r].status \in Versandt
  BY <1>1, <1>2, <1>3 DEF IStorno, GeladenGilt, Geladen
<1>5. PICK s : s = StatusNachGutschriften(beleg[r].brutto, gezahlt[r], beleg[r].status, gutgeschrieben[r] + q.betrag)
  OBVIOUS
<1>6. s \in Versandt
  <2>1. /\ beleg[r].brutto \in Int /\ gezahlt[r] \in Int /\ beleg[r].status \in Status
        /\ gutgeschrieben[r] + q.betrag \in Int
    BY <1>3, BelegFelder
  <2>2. s \in Versandt \cup {beleg[r].status}
    BY <1>5, <2>1, RegelnTyp
  <2>3. QED
    BY <1>4, <2>2
<1>7. PICK n \in FreieBelege : beleg' = [b \in Belege |->
         IF b = n THEN Beleg("gutschrift", "versendet", -q.betrag, r)
         ELSE IF b = r THEN Beleg(beleg[r].art, s, beleg[r].brutto, beleg[r].bezug)
         ELSE beleg[b]]
  BY <1>1, <1>2, <1>5 DEF SchreibeGutschrift
<1>8. n \in Belege /\ beleg[n].status = "frei" /\ n # r
  BY <1>4 DEF FreieBelege, Versandt
<1>9. beleg'[n] = Beleg("gutschrift", "versendet", -q.betrag, r)
  BY <1>7, <1>8
<1>10. NeueGutschrift(n)
  BY <1>8, <1>9 DEF NeueGutschrift, Beleg
<1>11. beleg'[r] = Beleg(beleg[r].art, s, beleg[r].brutto, beleg[r].bezug)
  BY <1>3, <1>7, <1>8
<1>12. Ruhig(r) /\ beleg'[r].status = s
  BY <1>4, <1>6, <1>11 DEF Ruhig, Beleg
<1>13. ASSUME NEW c \in Belege, c # n, c # r PROVE Ruhig(c) /\ beleg'[c] = beleg[c]
  BY <1>7, <1>13 DEF Ruhig
<1>14. \A c \in Belege \ {n} : Ruhig(c) /\ (c # r => beleg'[c] = beleg[c])
  BY <1>12, <1>13
<1>15. QED
  BY <1>1, <1>2, <1>3, <1>4, <1>5, <1>7, <1>8, <1>9, <1>10, <1>12, <1>14

\* A cancellation adds the counter-document, and the invoice behind a credit
\* note stays one that is not cancelled, or the one it was.
LEMMA StornoBeleg ==
  ASSUME IStorno, NEW a \in Anfragen, SchreibeStorno(a)
  PROVE  LET q == anfrage[a]  g == q.beleg IN
         /\ g \in Belege /\ beleg[g].status \in Versandt
         /\ \E s \in FreieBelege :
              /\ s # g /\ beleg'[s] = Beleg("storno", "versendet", -beleg[g].brutto, g)
              /\ beleg'[g] = Beleg(beleg[g].art, "storniert", beleg[g].brutto, beleg[g].bezug)
              /\ \A c \in Belege \ {s, g} :
                   /\ Ruhig(c)
                   /\ beleg'[c] # beleg[c] => beleg[g].art = "gutschrift" /\ c = beleg[g].bezug
              /\ beleg[g].art = "gutschrift" /\ beleg[g].bezug \notin {s, g} =>
                   beleg'[beleg[g].bezug].status = BezugStatus(a)
<1> TypInv
  BY DEF IStorno
<1>1. PICK q : q = anfrage[a]
  OBVIOUS
<1>2. PICK g : g = q.beleg
  OBVIOUS
<1>3. q.art = "storno" /\ q.phase = "nummer" /\ g \in Belege /\ q.gezahlt \in Int /\ q.gut \in Int /\ q.status \in Status
  BY <1>1, <1>2, AnfrageFelder DEF SchreibeStorno, In
<1>4. /\ beleg[g].status \in Versandt
      /\ beleg[g].art = "gutschrift" => q.status = beleg[beleg[g].bezug].status
  BY <1>1, <1>2, <1>3 DEF IStorno, GeladenGilt, Geladen, VorGutschriftstorno
<1>5. PICK neu : neu = BezugStatus(a)
  OBVIOUS
<1>6. PICK Z : Z = StornoZeilen(a)
  OBVIOUS
<1>7. Z = {g} \cup (IF beleg[g].art = "gutschrift" /\ neu # q.status THEN {beleg[g].bezug} ELSE {})
  BY <1>1, <1>2, <1>5, <1>6 DEF StornoZeilen
<1>8. ASSUME beleg[g].art = "gutschrift"
      PROVE  /\ beleg[g].bezug \in Belege
             /\ neu # q.status => neu \in Versandt /\ q.status \in Versandt
  <2>1. beleg[g].bezug \in Belege
    BY <1>3, <1>8, BelegFelder
  <2>2. beleg[beleg[g].bezug].brutto \in Int
    BY <2>1, BelegFelder
  <2>3. neu = StatusNachGutschriften(beleg[beleg[g].bezug].brutto, q.gezahlt, q.status, q.gut)
    BY <1>1, <1>2, <1>5 DEF BezugStatus
  <2>4. neu \in Versandt \cup {q.status}
    BY <1>3, <2>2, <2>3, RegelnTyp
  <2>5. q.status \notin Versandt => neu = q.status
    BY <2>3 DEF StatusNachGutschriften
  <2>6. QED
    BY <2>1, <2>4, <2>5
<1>9. PICK s \in FreieBelege : beleg' = [b \in Belege |->
         IF b = s THEN Beleg("storno", "versendet", -beleg[g].brutto, g)
         ELSE IF b \notin Z THEN beleg[b]
         ELSE Beleg(beleg[b].art, IF b = g THEN "storniert" ELSE neu, beleg[b].brutto, beleg[b].bezug)]
  BY <1>1, <1>2, <1>5, <1>6 DEF SchreibeStorno
<1>10. s \in Belege /\ s # g
  BY <1>4 DEF FreieBelege, Versandt
<1>11. beleg'[s] = Beleg("storno", "versendet", -beleg[g].brutto, g)
  BY <1>9, <1>10
<1>12. beleg'[g] = Beleg(beleg[g].art, "storniert", beleg[g].brutto, beleg[g].bezug)
  BY <1>3, <1>7, <1>9, <1>10
<1>13. ASSUME NEW c \in Belege \ {s, g}, c \in Z
       PROVE  /\ beleg[g].art = "gutschrift" /\ c = beleg[g].bezug /\ neu # q.status
              /\ beleg'[c] = Beleg(beleg[c].art, neu, beleg[c].brutto, beleg[c].bezug)
  BY <1>7, <1>9, <1>13
<1>14. ASSUME NEW c \in Belege \ {s, g}, c \in Z
       PROVE  Ruhig(c)
  <2>1. /\ beleg[g].art = "gutschrift" /\ c = beleg[g].bezug /\ neu # q.status
        /\ beleg'[c] = Beleg(beleg[c].art, neu, beleg[c].brutto, beleg[c].bezug)
    BY <1>13, <1>14
  <2>2. neu \in Versandt /\ beleg[c].status \in Versandt
    BY <1>4, <1>8, <2>1
  <2>3. QED
    BY <2>1, <2>2 DEF Ruhig, Beleg
<1>15. ASSUME NEW c \in Belege \ {s, g}, c \notin Z
       PROVE  beleg'[c] = beleg[c] /\ Ruhig(c)
  BY <1>9, <1>15 DEF Ruhig
<1>16. ASSUME beleg[g].art = "gutschrift", beleg[g].bezug \notin {s, g}
       PROVE  beleg'[beleg[g].bezug].status = neu
  <2>1. CASE beleg[g].bezug \in Z
    <3>1. beleg[g].bezug \in Belege \ {s, g}
      BY <1>8, <1>16
    <3>2. PICK c : c = beleg[g].bezug
      OBVIOUS
    <3>3. beleg'[c] = Beleg(beleg[c].art, neu, beleg[c].brutto, beleg[c].bezug)
      BY <1>13, <2>1, <3>1, <3>2
    <3>4. QED
      BY <3>2, <3>3 DEF Beleg
  <2>2. CASE beleg[g].bezug \notin Z
    <3>1. neu = q.status
      BY <1>7, <1>16, <2>2
    <3>2. QED
      BY <1>4, <1>8, <1>15, <1>16, <2>2, <3>1
  <2>3. QED
    BY <2>1, <2>2
<1>17. \A c \in Belege \ {s, g} :
         Ruhig(c) /\ (beleg'[c] # beleg[c] => beleg[g].art = "gutschrift" /\ c = beleg[g].bezug)
  BY <1>13, <1>14, <1>15
<1> HIDE DEF Ruhig
<1>18. QED
  BY <1>1, <1>2, <1>3, <1>4, <1>5, <1>10, <1>11, <1>12, <1>16, <1>17

-----------------------------------------------------------------------------
(***************************************************************************)
(* Every cancelled document has exactly one counter-document.              *)
(***************************************************************************)

LEMMA StornoRuht ==
  ASSUME IStorno, \A b \in Belege : Ruhig(b) \/ NeueGutschrift(b)
  PROVE  StornoPasst'
<1>1. ASSUME NEW b \in Belege
      PROVE  /\ beleg'[b].status = "storniert" <=> beleg[b].status = "storniert"
             /\ beleg[b].status # "frei" => beleg'[b].brutto = beleg[b].brutto
             /\ Stornos(b)' = Stornos(b)
             /\ \A s \in Stornos(b) : beleg'[s].brutto = beleg[s].brutto
  <2>1. ASSUME NEW s \in Belege
        PROVE  /\ (beleg'[s].art = "storno" /\ beleg'[s].bezug = b) <=> (beleg[s].art = "storno" /\ beleg[s].bezug = b)
               /\ beleg[s].art = "storno" => beleg'[s].brutto = beleg[s].brutto
    <3>1. CASE Ruhig(s)
      BY <3>1 DEF Ruhig
    <3>2. CASE NeueGutschrift(s)
      <4>1. beleg[s].art = "rechnung"
        BY <3>2 DEF NeueGutschrift, IStorno, Unbenutzt
      <4>2. QED
        BY <3>2, <4>1 DEF NeueGutschrift
    <3>3. QED
      BY <3>1, <3>2
  <2>2. Stornos(b)' = Stornos(b)
    BY <2>1 DEF Stornos
  <2>3. /\ beleg'[b].status = "storniert" <=> beleg[b].status = "storniert"
        /\ beleg[b].status # "frei" => beleg'[b].brutto = beleg[b].brutto
    BY DEF Ruhig, NeueGutschrift, Versandt
  <2>4. QED
    BY <2>1, <2>2, <2>3 DEF Stornos
<1>2. ASSUME NEW b \in Belege
      PROVE  /\ IF beleg'[b].status = "storniert" THEN \E s \in Belege : Stornos(b)' = {s} ELSE Stornos(b)' = {}
             /\ \A s \in Stornos(b)' : beleg'[s].brutto = -beleg'[b].brutto
  <2>1. CASE beleg[b].status = "storniert"
    BY <1>1, <2>1 DEF IStorno, StornoPasst
  <2>2. CASE beleg[b].status # "storniert"
    BY <1>1, <2>2 DEF IStorno, StornoPasst
  <2>3. QED
    BY <2>1, <2>2
<1>3. QED
  BY <1>2 DEF StornoPasst

LEMMA StornoStimmt ==
  ASSUME IStorno, NEW a \in Anfragen, SchreibeStorno(a)
  PROVE  StornoPasst'
<1>1. PICK g : g = anfrage[a].beleg
  OBVIOUS
<1>2. PICK s \in FreieBelege :
        /\ g \in Belege /\ beleg[g].status \in Versandt
        /\ s # g /\ beleg'[s] = Beleg("storno", "versendet", -beleg[g].brutto, g)
        /\ beleg'[g] = Beleg(beleg[g].art, "storniert", beleg[g].brutto, beleg[g].bezug)
        /\ \A c \in Belege \ {s, g} : Ruhig(c)
  BY <1>1, StornoBeleg
<1>3. s \in Belege /\ beleg[s].status = "frei" /\ beleg[s].art = "rechnung"
  BY DEF FreieBelege, IStorno, Unbenutzt
<1>4. /\ beleg'[s].art = "storno" /\ beleg'[s].bezug = g /\ beleg'[s].brutto = -beleg[g].brutto
      /\ beleg'[s].status = "versendet"
      /\ beleg'[g].art = beleg[g].art /\ beleg'[g].bezug = beleg[g].bezug /\ beleg'[g].brutto = beleg[g].brutto
      /\ beleg'[g].status = "storniert"
  BY <1>2 DEF Beleg
<1>5. ASSUME NEW c \in Belege \ {s, g}
      PROVE  /\ beleg'[c].art = beleg[c].art /\ beleg'[c].bezug = beleg[c].bezug /\ beleg'[c].brutto = beleg[c].brutto
             /\ beleg'[c].status = "storniert" <=> beleg[c].status = "storniert"
  BY <1>2 DEF Ruhig, Versandt
<1>6. ASSUME NEW b \in Belege, b # g PROVE Stornos(b)' = Stornos(b)
  BY <1>3, <1>4, <1>5, <1>6 DEF Stornos
<1>7. Stornos(g) = {} /\ Stornos(s) = {}
  BY <1>2, <1>3 DEF IStorno, StornoPasst, Versandt
<1>8. Stornos(g)' = {s}
  <2>1. \A c \in Belege : (beleg'[c].art = "storno" /\ beleg'[c].bezug = g) <=> c = s
    BY <1>3, <1>4, <1>5, <1>7 DEF Stornos
  <2>2. QED
    BY <1>3, <2>1 DEF Stornos
<1>9. ASSUME NEW b \in Belege
      PROVE  /\ IF beleg'[b].status = "storniert" THEN \E t \in Belege : Stornos(b)' = {t} ELSE Stornos(b)' = {}
             /\ \A t \in Stornos(b)' : beleg'[t].brutto = -beleg'[b].brutto
  <2>1. CASE b = g
    BY <1>3, <1>4, <1>8, <2>1
  <2>2. CASE b = s
    BY <1>2, <1>4, <1>6, <1>7, <2>2
  <2>3. CASE b \notin {g, s}
    <3>1. Stornos(b)' = Stornos(b)
      BY <1>6, <2>3
    <3>2. \A t \in Stornos(b) : t # s /\ beleg'[t].brutto = beleg[t].brutto
      BY <1>3, <1>4, <1>5 DEF Stornos
    <3>3. beleg'[b].brutto = beleg[b].brutto /\ (beleg'[b].status = "storniert" <=> beleg[b].status = "storniert")
      BY <1>5, <2>3
    <3>4. QED
      BY <3>1, <3>2, <3>3 DEF IStorno, StornoPasst
  <2>4. QED
    BY <2>1, <2>2, <2>3
<1>10. QED
  BY <1>9 DEF StornoPasst

\* What is free, in draft, or was shipped, after the documents moved on.
LEMMA UnbenutztSchritt ==
  ASSUME IStorno, [Next]_vars
  PROVE  Unbenutzt' /\ \A b \in Belege : beleg[b].status \notin {"frei", "entwurf"} => beleg'[b].status \notin {"frei", "entwurf"}
<1>1. Folge
  BY SchrittFolge DEF IStorno
<1>2. QED
  BY <1>1 DEF Folge, Fortgeschrieben, Gegenbeleg, Versandt, IStorno, Unbenutzt

LEMMA GeldRuht ==
  ASSUME IStorno, \A z \in Buchungen : zahlung'[z].beleg = zahlung[z].beleg,
         \A b \in Belege : beleg[b].status \notin {"frei", "entwurf"} => beleg'[b].status \notin {"frei", "entwurf"}
  PROVE  GeldVersandt'
  BY DEF IStorno, GeldVersandt

LEMMA GeldGebucht ==
  ASSUME IStorno, NEW b \in Belege, NEW n, BucheEin(b, n), beleg[b].status \notin {"frei", "entwurf"},
         \A c \in Belege : beleg[c].status \notin {"frei", "entwurf"} => beleg'[c].status \notin {"frei", "entwurf"}
  PROVE  GeldVersandt'
<1>1. PICK z \in FreieBuchungen : zahlung' = [zahlung EXCEPT ![z] = Buchung(b, n, 0)]
  BY DEF BucheEin
<1>2. z \in Buchungen /\ zahlung \in [Buchungen -> BuchungTyp]
  BY DEF FreieBuchungen, IStorno, TypInv, TypeOK
<1>3. zahlung'[z].beleg = b /\ \A y \in Buchungen \ {z} : zahlung'[y] = zahlung[y]
  BY <1>1, <1>2 DEF Buchung
<1>4. QED
  BY <1>3 DEF IStorno, GeldVersandt

\* One commit, of the only request.
Geschrieben(a) ==
  \/ SchreibeVersand(a) \/ SchreibeLoeschen(a) \/ SchreibeZahlung(a) \/ SchreibeAbschluss(a)
  \/ SchreibeGegenbuchung(a) \/ SchreibeStorno(a) \/ SchreibeGutschrift(a)

LEMMA SchreibeFertig ==
  ASSUME NEW a \in Anfragen, Geschrieben(a)
  PROVE  Fertig(a)
  BY DEF Geschrieben, SchreibeVersand, SchreibeLoeschen, SchreibeZahlung, SchreibeAbschluss, SchreibeGegenbuchung,
         SchreibeStorno, SchreibeGutschrift

LEMMA SchreibeBelege ==
  ASSUME IStorno, NEW a \in Anfragen, Geschrieben(a), ~SchreibeStorno(a)
  PROVE  \A b \in Belege : Ruhig(b) \/ NeueGutschrift(b)
<1>1. CASE SchreibeVersand(a)
  BY <1>1, VersandBeleg
<1>2. CASE SchreibeLoeschen(a)
  BY <1>2 DEF SchreibeLoeschen, Ruhig
<1>3. CASE SchreibeZahlung(a)
  BY <1>3, ZahlungBeleg
<1>4. CASE SchreibeAbschluss(a)
  BY <1>4, AbschlussBeleg
<1>5. CASE SchreibeGegenbuchung(a)
  BY <1>5, GegenbuchungBeleg
<1>6. CASE SchreibeGutschrift(a)
  BY <1>6, GutschriftBeleg
<1>7. QED
  BY <1>1, <1>2, <1>3, <1>4, <1>5, <1>6 DEF Geschrieben

LEMMA SchreibeGeld ==
  ASSUME IStorno, NEW a \in Anfragen, Geschrieben(a), [Next]_vars
  PROVE  GeldVersandt'
<1> TypInv
  BY DEF IStorno
<1>0. \A b \in Belege : beleg[b].status \notin {"frei", "entwurf"} => beleg'[b].status \notin {"frei", "entwurf"}
  BY UnbenutztSchritt
<1>1. CASE SchreibeZahlung(a)
  <2>1. PICK b : b = anfrage[a].beleg
    OBVIOUS
  <2>2. BucheEin(b, anfrage[a].betrag)
    BY <1>1, <2>1 DEF SchreibeZahlung
  <2>3. b \in Belege /\ beleg[b].status \notin {"frei", "entwurf"}
    BY <1>1, <2>1, ZahlungBeleg DEF Zahlbar
  <2>4. QED
    BY <1>0, <2>2, <2>3, GeldGebucht
<1>2. CASE SchreibeAbschluss(a)
  <2>1. PICK b : b = anfrage[a].beleg
    OBVIOUS
  <2>2. (\E n : BucheEin(b, n)) \/ UNCHANGED zahlung
    BY <1>2, <2>1 DEF SchreibeAbschluss
  <2>3. b \in Belege /\ beleg[b].status \notin {"frei", "entwurf"}
    BY <1>2, <2>1, AbschlussBeleg DEF Zahlbar
  <2>4. QED
    BY <1>0, <2>2, <2>3, GeldGebucht, GeldRuht
<1>3. CASE SchreibeGegenbuchung(a)
  <2>1. PICK y : y = anfrage[a].buchung
    OBVIOUS
  <2>2. zahlung' = [zahlung EXCEPT ![y].gegen = @ + 1]
    BY <1>3, <2>1 DEF SchreibeGegenbuchung
  <2>3. \A z \in Buchungen : zahlung'[z].beleg = zahlung[z].beleg
    BY <2>2 DEF TypInv, TypeOK, BuchungTyp
  <2>4. QED
    BY <1>0, <2>3, GeldRuht
<1>4. CASE ~SchreibeZahlung(a) /\ ~SchreibeAbschluss(a) /\ ~SchreibeGegenbuchung(a)
  BY <1>0, <1>4, GeldRuht DEF Geschrieben, SchreibeVersand, SchreibeLoeschen, SchreibeStorno, SchreibeGutschrift
<1>5. QED
  BY <1>1, <1>2, <1>3, <1>4

\* A step that leaves the documents and the payments alone.
LEMMA StornoUnveraendert ==
  ASSUME IStorno, UNCHANGED <<beleg, zahlung>>
  PROVE  StornoPasst' /\ GeldVersandt' /\ Unbenutzt'
  BY DEF IStorno, StornoPasst, Stornos, GeldVersandt, Unbenutzt

\* The steps of one request.
LEMMA SchrittArten ==
  ASSUME NEW a \in Anfragen, Beginn(a) \/ Schritt(a) \/ Abbruch(a)
  PROVE  \/ Beginn(a) \/ Zwischenschritt(a) \/ Geschrieben(a)
         \/ Fertig(a) /\ UNCHANGED daten
  BY DEF Schritt, Zwischenschritt, Geschrieben, Ablehnen, Verklemmt, Abbruch

LEMMA StornoSchritt ==
  ASSUME IStorno, Einzeln, [Next]_vars
  PROVE  IStorno'
<1> TypInv /\ TypInv'
  BY SchrittTyp DEF IStorno
<1>1. Unbenutzt'
  BY UnbenutztSchritt
<1>2. SUFFICES StornoPasst' /\ GeldVersandt' /\ GeladenGilt'
  BY <1>1 DEF IStorno
<1>3. CASE UNCHANGED vars
  BY <1>3, StornoUnveraendert DEF vars, IStorno, GeladenGilt, Geladen, VorGutschriftstorno
<1>4. ASSUME NEW b \in Belege, EntwurfStornieren(b) \/ Wiederherstellen(b)
      PROVE  StornoPasst' /\ GeldVersandt' /\ GeladenGilt'
  <2>1. UNCHANGED <<beleg, zahlung, anfrage>>
    BY <1>4 DEF EntwurfStornieren, Wiederherstellen
  <2>2. QED
    BY <2>1, StornoUnveraendert DEF IStorno, GeladenGilt, Geladen, VorGutschriftstorno
<1>5. ASSUME NEW a \in Anfragen, Beginn(a) \/ Schritt(a) \/ Abbruch(a)
      PROVE  StornoPasst' /\ GeldVersandt' /\ GeladenGilt'
  <2>1. CASE Beginn(a) \/ Zwischenschritt(a)
    BY <2>1, BeginnGeladen, ZwischenGeladen, StornoUnveraendert DEF daten
  <2>2. ASSUME Fertig(a) PROVE GeladenGilt'
    BY <2>2, DanachKeiner DEF GeladenGilt
  <2>3. CASE Geschrieben(a)
    <3>1. StornoPasst'
      BY <2>3, StornoStimmt, SchreibeBelege, StornoRuht
    <3>2. GeldVersandt'
      BY <2>3, SchreibeGeld
    <3>3. QED
      BY <2>2, <2>3, <3>1, <3>2, SchreibeFertig
  <2>4. CASE Fertig(a) /\ UNCHANGED daten
    BY <2>2, <2>4, StornoUnveraendert DEF daten
  <2>5. QED
    BY <1>5, <2>1, <2>3, <2>4, SchrittArten
<1>6. QED
  BY <1>3, <1>4, <1>5 DEF Next

-----------------------------------------------------------------------------
(***************************************************************************)
(* The beginning, and the deletion of a job.                               *)
(***************************************************************************)

LEMMA BelegAnfang ==
  ASSUME Init, NEW b \in Belege
  PROVE  /\ beleg[b].art = "rechnung" /\ beleg[b].status = (IF b \in Rechnungen THEN "entwurf" ELSE "frei")
         /\ beleg[b].brutto = IF b \in Rechnungen THEN Betrag[b] ELSE 0
  BY DEF Init, Beleg

LEMMA StornoAnfang == Init => IStorno
<1> SUFFICES ASSUME Init PROVE IStorno
  OBVIOUS
<1>1. TypInv
  BY InitTyp
<1>2. StornoPasst
  <2>1. \A b \in Belege : Stornos(b) = {} /\ beleg[b].status # "storniert"
    BY BelegAnfang DEF Stornos
  <2>2. QED
    BY <2>1 DEF StornoPasst
<1>3. Unbenutzt
  BY BelegAnfang DEF Unbenutzt
<1>4. GeldVersandt
  BY DEF Init, Buchung, GeldVersandt
<1>5. GeladenGilt
  BY KeineTyp DEF Init, GeladenGilt
<1>6. QED
  BY <1>1, <1>2, <1>3, <1>4, <1>5 DEF IStorno

Bruttosumme(f, S) == MapThenSumSet(LAMBDA g : f[g].brutto, S)

LEMMA BruttoSumme ==
  ASSUME NEW f, NEW S, IsFiniteSet(S), \A b \in S : f[b].brutto \in Int
  PROVE  Bruttosumme(f, S) \in Int
<1> DEFINE v == [b \in S |-> f[b].brutto]
           P(g) == g = [s \in SUBSET S |-> IF s = {} THEN 0
                          ELSE LET x == CHOOSE x \in s : TRUE IN f[x].brutto + g[s \ {x}]]
<1>1. Bruttosumme(f, S) = (CHOOSE g : P(g))[S]
  BY DEF Bruttosumme, MapThenSumSet, MapThenFoldSet
<1>2. ASSUME NEW g PROVE P(g) <=> IstSumme(g, v, S)
  <2>1. \A s \in SUBSET S : s # {} => v[CHOOSE x \in s : TRUE] = f[CHOOSE x \in s : TRUE].brutto
    OBVIOUS
  <2> HIDE DEF v
  <2>2. QED
    BY <2>1 DEF IstSumme
<1>3. PICK g : P(g)
  <2> HIDE DEF P, v
  <2>1. PICK g : IstSumme(g, v, S)
    BY SummeGibtEs
  <2>2. QED
    BY <1>2, <2>1
<1>4. P(CHOOSE h : P(h))
  <2> HIDE DEF P
  <2>1. QED
    BY <1>3
<1>5. Summe(v, S) = (CHOOSE h : P(h))[S]
  <2> HIDE DEF P, v
  <2>1. QED
    BY <1>2, <1>4, SummeIst
<1>6. Summe(v, S) \in Int
  <2>1. \A b \in S : v[b] \in Int
    OBVIOUS
  <2> HIDE DEF v
  <2>2. QED
    BY <2>1, SummeGanz
<1>7. QED
  BY <1>1, <1>5, <1>6

LEMMA StornoLoeschen ==
  ASSUME IStorno, VorgangLoeschen
  PROVE  IStorno'
<1> TypInv
  BY DEF IStorno
<1>1. UNCHANGED <<beleg, zahlung, gezahlt, vorgang, gemeldet, anfrage>>
  BY DEF VorgangLoeschen
<1>2. ASSUME NEW r \in Belege
      PROVE  Bruttosumme(beleg, GutschriftenZu(r)) \in Int
  <2>1. GutschriftenZu(r) \subseteq Belege /\ IsFiniteSet(GutschriftenZu(r))
    BY KonstantenAnnahme, FS_Subset DEF GutschriftenZu
  <2>2. \A g \in GutschriftenZu(r) : beleg[g].brutto \in Int
    BY <2>1, BelegFelder
  <2>3. QED
    BY <2>1, <2>2, BruttoSumme
<1>3. gutgeschrieben' \in [Belege -> Int]
  <2> DEFINE neu(r) == gutgeschrieben[r] + Bruttosumme(beleg, GutschriftenZu(r))
  <2>1. \A r \in Belege : neu(r) \in Int
    BY <1>2, BelegFelder
  <2>2. gutgeschrieben' = [r \in Belege |-> neu(r)]
    BY DEF VorgangLoeschen, Bruttosumme
  <2> HIDE DEF neu
  <2>3. QED
    BY <2>1, <2>2
<1>4. papierkorb' \in SUBSET Belege
  BY DEF VorgangLoeschen, TypInv, TypeOK
<1>5. TypInv'
  BY <1>1, <1>3, <1>4 DEF TypInv, TypeOK, Bezuege
<1>6. QED
  BY <1>1, <1>5, StornoUnveraendert DEF IStorno, GeladenGilt, Geladen, VorGutschriftstorno

LEMMA StornoFolgt == IStorno => GenauEinStorno
<1> SUFFICES ASSUME IStorno, NEW b \in Belege
             PROVE  /\ Cardinality(Stornos(b)) = (IF beleg[b].status = "storniert" THEN 1 ELSE 0)
                    /\ \A s \in Stornos(b) : beleg[s].brutto = -beleg[b].brutto
  BY DEF GenauEinStorno
<1>1. \A s \in Stornos(b) : beleg[s].brutto = -beleg[b].brutto
  BY DEF IStorno, StornoPasst
<1>2. CASE beleg[b].status = "storniert"
  <2>1. PICK s : Stornos(b) = {s}
    BY <1>2 DEF IStorno, StornoPasst
  <2>2. QED
    BY <1>1, <1>2, <2>1, FS_Singleton
<1>3. CASE beleg[b].status # "storniert"
  <2>1. Stornos(b) = {}
    BY <1>3 DEF IStorno, StornoPasst
  <2>2. QED
    BY <1>1, <1>3, <2>1, FS_EmptySet
<1>4. QED
  BY <1>2, <1>3

-----------------------------------------------------------------------------
(***************************************************************************)
(* The accounts: what a request reads.                                     *)
(***************************************************************************)

LEMMA KontoFakten ==
  ASSUME IKonto, NEW b \in Belege
  PROVE  /\ \A S \in SUBSET Buchungen : IsFiniteSet(S) /\ \A z \in S : Einnahmen[z] \in Nat
         /\ IsFiniteSet(GutschriftenZu(b)) /\ GutschriftenZu(b) \subseteq Belege
         /\ \A g \in GutschriftenZu(b) : Abzuege[g] \in Nat
         /\ gezahlt[b] \in Nat /\ gutgeschrieben[b] \in Nat
         /\ gezahlt[b] # 0 => Eingaenge(b) # {}
         /\ GutschriftenZu(b) = {} => gutgeschrieben[b] = 0
<1> TypInv
  BY DEF IKonto, IStorno
<1>1. \A S \in SUBSET Buchungen : IsFiniteSet(S) /\ \A z \in S : Einnahmen[z] \in Nat
  BY KonstantenAnnahme, FS_Subset DEF Einnahmen, TypInv, TypeOK, BuchungTyp
<1>2. IsFiniteSet(GutschriftenZu(b)) /\ GutschriftenZu(b) \subseteq Belege
  BY KonstantenAnnahme, FS_Subset DEF GutschriftenZu
<1>3. ASSUME NEW g \in GutschriftenZu(b) PROVE Abzuege[g] \in Nat
  <2>1. g \in Belege /\ beleg[g].brutto < 0 /\ beleg[g].brutto \in Int
    BY BelegFelder DEF IKonto, KontenStimmen, GutschriftEcht, GutschriftenZu
  <2>2. QED
    BY <2>1 DEF Abzuege
<1>4. Eingaenge(b) \in SUBSET Buchungen
  BY DEF Eingaenge
<1>5. gezahlt[b] = Summe(Einnahmen, Eingaenge(b)) /\ gutgeschrieben[b] = Summe(Abzuege, GutschriftenZu(b))
  BY DEF IKonto, KontenStimmen, GezahltGilt, GutGilt
<1>6. gezahlt[b] \in Nat /\ Summe(Einnahmen, {}) = 0
  BY <1>1, <1>4, <1>5, SummeFakten
<1>7. gutgeschrieben[b] \in Nat /\ Summe(Abzuege, {}) = 0
  BY <1>2, <1>3, <1>5, SummeFakten
<1>8. QED
  BY <1>1, <1>2, <1>3, <1>5, <1>6, <1>7

LEMMA GelesenSonst ==
  ASSUME KontoGelesen, UNCHANGED daten, NEW a \in Anfragen,
         \A c \in Anfragen \ {a} : anfrage'[c] = anfrage[c], Gelesen(anfrage[a])'
  PROVE  KontoGelesen'
  BY DEF KontoGelesen, Gelesen, VorGutschriftstorno, GutschriftenZu, Zaehlt, daten

LEMMA BeginnGelesen ==
  ASSUME IKonto, NEW a \in Anfragen, Beginn(a)
  PROVE  KontoGelesen'
<1> TypInv
  BY DEF IKonto, IStorno
<1> DEFINE Ziel == UNCHANGED daten /\ (\A c \in Anfragen \ {a} : anfrage'[c] = anfrage[c]) /\ Gelesen(anfrage[a])'
<1> SUFFICES Ziel
  BY GelesenSonst DEF IKonto
<1>1. PICK b \in Belege :
        \/ LadeVersand(a, b) \/ LadeLoeschen(a, b) \/ LadeAbschluss(a, b) \/ LadeStorno(a, b)
        \/ \E n \in Betraege : LadeZahlung(a, b, n) \/ LadeGutschrift(a, b, n)
        \/ \E z \in Buchungen : LadeZahlungsstorno(a, b, z)
  BY DEF Beginn
<1>2. \A n \in Betraege : n > 0
  BY KonstantenAnnahme DEF Betraege
<1> USE LadenFakten DEF Gelesen, VorGutschriftstorno, daten
<1>3. CASE LadeVersand(a, b)
  BY <1>3 DEF LadeVersand
<1>4. CASE LadeLoeschen(a, b)
  BY <1>4 DEF LadeLoeschen
<1>5. CASE LadeAbschluss(a, b)
  BY <1>5 DEF LadeAbschluss
<1>6. CASE LadeStorno(a, b)
  BY <1>6 DEF LadeStorno
<1>7. ASSUME NEW n \in Betraege, LadeZahlung(a, b, n) PROVE Ziel
  BY <1>2, <1>7 DEF LadeZahlung
<1>8. ASSUME NEW n \in Betraege, LadeGutschrift(a, b, n) PROVE Ziel
  BY <1>2, <1>8 DEF LadeGutschrift
<1>9. ASSUME NEW z \in Buchungen, LadeZahlungsstorno(a, b, z) PROVE Ziel
  BY <1>9 DEF LadeZahlungsstorno
<1>10. QED
  BY <1>1, <1>3, <1>4, <1>5, <1>6, <1>7, <1>8, <1>9

LEMMA ZwischenGelesen ==
  ASSUME IKonto, NEW a \in Anfragen, Zwischenschritt(a)
  PROVE  KontoGelesen'
<1> TypInv
  BY DEF IKonto, IStorno
<1> DEFINE Ziel == UNCHANGED daten /\ (\A c \in Anfragen \ {a} : anfrage'[c] = anfrage[c]) /\ Gelesen(anfrage[a])'
<1> SUFFICES Ziel
  BY GelesenSonst DEF IKonto
<1>1. anfrage[a].phase # "frei"
  BY DEF Zwischenschritt, LiesKonto, LiesNachGegenbuchung, PruefeStorno, SperreOriginal,
         NimmNummerFuerGutschrift, NimmNummerFuerStorno, In
<1>2. Gelesen(anfrage[a]) /\ anfrage[a].beleg \in Belege
  BY <1>1, AnfrageFelder DEF IKonto, KontoGelesen
<1> USE WeiterFakten, <1>2 DEF In, Gelesen, VorGutschriftstorno, daten
<1>3. CASE LiesKonto(a)
  BY <1>3 DEF LiesKonto
<1>4. CASE LiesNachGegenbuchung(a)
  BY <1>4 DEF LiesNachGegenbuchung
<1>5. CASE PruefeStorno(a)
  BY <1>5 DEF PruefeStorno, GutschriftenZu, Zaehlt
<1>6. CASE SperreOriginal(a)
  BY <1>6 DEF SperreOriginal
<1>7. CASE NimmNummerFuerGutschrift(a)
  BY <1>7 DEF NimmNummerFuerGutschrift
<1>8. CASE NimmNummerFuerStorno(a)
  <2>1. PICK g : g = anfrage[a].beleg
    OBVIOUS
  <2>2. GutschriftenZu(g) = {} /\ anfrage[a].art = "storno"
    BY <1>8, <2>1 DEF NimmNummerFuerStorno
  <2>3. CASE beleg[g].art = "gutschrift"
    <3>1. g \in Belege /\ beleg[g].status \in Versandt
      BY <1>1, <2>1, <2>2 DEF IKonto, IStorno, GeladenGilt, Geladen
    <3>2. g \notin papierkorb
      BY <2>3, <3>1 DEF IKonto, IInv, ArtPasst
    <3>3. Zaehlt(g)
      BY <2>3, <3>1, <3>2 DEF Zaehlt, Versandt
    <3>4. Weiter(a, "nummer", beleg[beleg[g].bezug].status, gezahlt[beleg[g].bezug],
                 gutgeschrieben[beleg[g].bezug] + beleg[g].brutto)
      BY <1>8, <2>1, <2>3, <3>3 DEF NimmNummerFuerStorno
    <3>5. QED
      BY <2>1, <2>2, <3>4 DEF GutschriftenZu, Zaehlt
  <2>4. CASE beleg[g].art # "gutschrift"
    BY <1>8, <2>1, <2>2, <2>4 DEF NimmNummerFuerStorno, GutschriftenZu, Zaehlt
  <2>5. QED
    BY <2>3, <2>4
<1>9. QED
  BY <1>3, <1>4, <1>5, <1>6, <1>7, <1>8 DEF Zwischenschritt

\* A step that leaves the documents and the amounts alone; what enters or leaves the bin is no credit note.
LEMMA KontenRuhen ==
  ASSUME IKonto, UNCHANGED <<beleg, zahlung, gezahlt, gutgeschrieben, vorgang>>,
         \A b \in Belege : beleg[b].art = "gutschrift" => (b \in papierkorb' <=> b \in papierkorb),
         \A b \in Belege : beleg[b].art = "storno" => gemeldet'[b] = gemeldet[b]
  PROVE  KontenStimmen' /\ \A b : GutschriftenZu(b)' = GutschriftenZu(b)
<1>1. \A g \in Belege : Zaehlt(g)' <=> Zaehlt(g)
  BY DEF Zaehlt
<1>2. \A b : GutschriftenZu(b)' = GutschriftenZu(b)
  BY <1>1 DEF GutschriftenZu
<1>3. RechnungBleibt' /\ GeldEcht'
  BY DEF IKonto, KontenStimmen, RechnungBleibt, GeldEcht
<1>4. GutschriftEcht'
  BY <1>1 DEF IKonto, KontenStimmen, GutschriftEcht
<1>5. GezahltGilt'
  BY DEF IKonto, KontenStimmen, GezahltGilt, Einnahmen, Eingaenge
<1>6. GutGilt'
  BY <1>2 DEF IKonto, KontenStimmen, GutGilt, Abzuege
<1>7. StatusGilt'
  BY DEF IKonto, KontenStimmen, StatusGilt, Stimmig
<1>8. AbgerechnetHatGrund'
  BY DEF IKonto, KontenStimmen, AbgerechnetHatGrund
<1>9. QED
  BY <1>2, <1>3, <1>4, <1>5, <1>6, <1>7, <1>8 DEF KontenStimmen

-----------------------------------------------------------------------------
(***************************************************************************)
(* The accounts: what a commit does.  One document at most is booked, and  *)
(* what happens to an invoice is one of the bookings of Forderung.         *)
(***************************************************************************)

Gleich(b) ==
  beleg'[b].status = beleg[b].status /\ gezahlt'[b] = gezahlt[b] /\ gutgeschrieben'[b] = gutgeschrieben[b]

Versendet(b) ==
  /\ beleg[b].status = "entwurf" /\ beleg'[b].status = "versendet"
  /\ gezahlt'[b] = gezahlt[b] /\ gutgeschrieben'[b] = gutgeschrieben[b]

Gebucht(b) ==
  /\ beleg[b].status \in Versandt
  /\ beleg'[b].status = StatusRegel(beleg[b].brutto, gezahlt'[b], gutgeschrieben'[b])
  /\ \/ /\ gutgeschrieben'[b] = gutgeschrieben[b]
        /\ \/ gezahlt'[b] - gezahlt[b] \in 1..(beleg[b].brutto - gezahlt[b] - gutgeschrieben[b])
           \/ gezahlt[b] - gezahlt'[b] \in 1..gezahlt[b]
     \/ /\ gezahlt'[b] = gezahlt[b]
        /\ \/ gutgeschrieben'[b] - gutgeschrieben[b] \in 1..(beleg[b].brutto - gutgeschrieben[b])
           \/ gutgeschrieben[b] - gutgeschrieben'[b] \in 1..gutgeschrieben[b]

Storniert(b) ==
  /\ beleg[b].status \in Versandt /\ beleg'[b].status = "storniert"
  /\ gutgeschrieben[b] = 0
  /\ gezahlt'[b] = gezahlt[b] /\ gutgeschrieben'[b] = gutgeschrieben[b]

Kontofolge(b) == Gleich(b) \/ Versendet(b) \/ Gebucht(b) \/ Storniert(b)

EineBuchung ==
  \E b \in Belege :
    /\ beleg[b].art = "rechnung" /\ beleg[b].status # "frei" => Kontofolge(b)
    /\ \A c \in Belege \ {b} : beleg[c].art = "rechnung" /\ beleg[c].status # "frei" => Gleich(c)

\* A draft was neither paid nor credited.
LEMMA EntwurfLeer ==
  ASSUME IKonto, NEW b \in Belege, beleg[b].status = "entwurf"
  PROVE  gezahlt[b] = 0 /\ gutgeschrieben[b] = 0
<1>1. Eingaenge(b) = {}
  <2>1. b # Nichts
    BY KonstantenAnnahme
  <2>2. QED
    BY <2>1 DEF Eingaenge, IKonto, IStorno, GeldVersandt
<1>2. GutschriftenZu(b) = {}
  BY DEF GutschriftenZu, IKonto, KontenStimmen, GutschriftEcht, Versandt
<1>3. QED
  BY <1>1, <1>2, KontoFakten

LEMMA StatusSchritt ==
  ASSUME IKonto, EineBuchung,
         \A c \in Belege : beleg'[c].art = "rechnung" =>
           /\ beleg[c].art = "rechnung" /\ beleg'[c].brutto = beleg[c].brutto
           /\ beleg[c].status = "frei" => beleg'[c].status = "frei"
  PROVE  StatusGilt'
<1> SUFFICES ASSUME NEW c \in Belege, beleg'[c].art = "rechnung" PROVE Stimmig(c)'
  BY DEF StatusGilt
<1>1. /\ beleg[c].art = "rechnung" /\ beleg'[c].brutto = beleg[c].brutto
      /\ beleg[c].status = "frei" => beleg'[c].status = "frei"
      /\ Stimmig(c)
  BY DEF IKonto, KontenStimmen, StatusGilt
<1>2. CASE beleg[c].status = "frei"
  BY <1>1, <1>2 DEF Stimmig, Versandt
<1>3. CASE beleg[c].status # "frei"
  <2>1. Kontofolge(c)
    BY <1>1, <1>3 DEF EineBuchung, Kontofolge
  <2>2. CASE Gleich(c)
    BY <1>1, <2>2 DEF Gleich, Stimmig
  <2>3. CASE Versendet(c)
    <3>1. beleg[c].brutto \in Int /\ beleg[c].brutto > 0
      BY <1>1, <1>3, BelegFelder DEF Stimmig, IKonto, IStorno
    <3>2. gezahlt[c] = 0 /\ gutgeschrieben[c] = 0
      BY <2>3, EntwurfLeer DEF Versendet
    <3>3. QED
      BY <1>1, <2>3, <3>1, <3>2 DEF Versendet, Stimmig, StatusRegel
  <2>4. CASE Gebucht(c)
    BY <1>1, <1>3, <2>4 DEF Gebucht, Stimmig
  <2>5. CASE Storniert(c)
    BY <1>1, <1>3, <2>5 DEF Storniert, Stimmig, Versandt
  <2>6. QED
    BY <2>1, <2>2, <2>3, <2>4, <2>5 DEF Kontofolge
<1>4. QED
  BY <1>2, <1>3

\* Documents that keep their kind keep the credit notes in force.
LEMMA BelegeRuhen ==
  ASSUME IKonto, \A c \in Belege : Ruhig(c), UNCHANGED papierkorb
  PROVE  /\ RechnungBleibt' /\ GutschriftEcht'
         /\ (UNCHANGED gutgeschrieben => GutGilt')
         /\ EineBuchung => StatusGilt'
<1>1. \A g \in Belege : Zaehlt(g)' <=> Zaehlt(g)
  BY DEF Zaehlt, Ruhig, Versandt
<1>2. \A b : GutschriftenZu(b)' = GutschriftenZu(b)
  BY <1>1 DEF GutschriftenZu, Ruhig
<1>3. Abzuege' = Abzuege
  BY DEF Abzuege, Ruhig
<1>4. RechnungBleibt'
  BY KonstantenAnnahme DEF IKonto, KontenStimmen, RechnungBleibt, Ruhig, Versandt
<1>5. GutschriftEcht'
  <2> SUFFICES ASSUME NEW g \in Belege, Zaehlt(g)'
               PROVE  /\ beleg'[g].brutto < 0
                      /\ beleg'[beleg'[g].bezug].art = "rechnung" /\ beleg'[beleg'[g].bezug].status \in Versandt
    BY DEF GutschriftEcht
  <2>1. /\ Zaehlt(g) /\ beleg[g].brutto < 0
        /\ beleg[beleg[g].bezug].art = "rechnung" /\ beleg[beleg[g].bezug].status \in Versandt
    BY <1>1 DEF IKonto, KontenStimmen, GutschriftEcht
  <2>2. beleg[g].bezug \in Belege
    BY <2>1, BelegFelder DEF Zaehlt, IKonto, IStorno
  <2>3. QED
    BY <2>1, <2>2 DEF Ruhig
<1>6. UNCHANGED gutgeschrieben => GutGilt'
  BY <1>2, <1>3 DEF IKonto, KontenStimmen, GutGilt
<1>7. EineBuchung => StatusGilt'
  BY StatusSchritt DEF Ruhig, Versandt
<1>8. QED
  BY <1>4, <1>5, <1>6, <1>7

LEMMA EingangGebucht ==
  ASSUME IKonto, NEW b \in Belege, NEW n \in Nat \ {0}, BucheEin(b, n)
  PROVE  /\ GeldEcht' /\ GezahltGilt' /\ gezahlt'[b] = gezahlt[b] + n
         /\ \A c \in Belege \ {b} : gezahlt'[c] = gezahlt[c]
         /\ \E z \in Buchungen : zahlung'[z].beleg # Nichts
<1> TypInv
  BY DEF IKonto, IStorno
<1>1. PICK z \in FreieBuchungen : zahlung' = [zahlung EXCEPT ![z] = Buchung(b, n, 0)]
  BY DEF BucheEin
<1>2. z \in Buchungen /\ zahlung[z].beleg = Nichts /\ b # Nichts
  BY KonstantenAnnahme DEF FreieBuchungen
<1>3. /\ zahlung'[z].beleg = b /\ zahlung'[z].betrag = n /\ zahlung'[z].gegen = 0
      /\ \A y \in Buchungen \ {z} : zahlung'[y] = zahlung[y]
  BY <1>1, <1>2 DEF TypInv, TypeOK, Buchung
<1>4. /\ gezahlt'[b] = gezahlt[b] + n
      /\ \A c \in Belege \ {b} : gezahlt'[c] = gezahlt[c]
  BY DEF BucheEin, TypInv, TypeOK
<1>5. GeldEcht'
  BY <1>3 DEF IKonto, KontenStimmen, GeldEcht
<1>6. PICK w : w = Einnahmen
  OBVIOUS
<1>7. PICK v : v = Einnahmen'
  OBVIOUS
<1>8. v[z] = n /\ \A y \in Buchungen \ {z} : v[y] = w[y]
  BY <1>2, <1>3, <1>6, <1>7 DEF Einnahmen
<1>9. \A S \in SUBSET Buchungen : IsFiniteSet(S) /\ \A y \in S : w[y] \in Nat
  BY <1>6, KontoFakten
<1>10. ASSUME NEW c \in Belege PROVE gezahlt'[c] = Summe(v, Eingaenge(c)')
  <2>1. PICK E : E = Eingaenge(c)
    OBVIOUS
  <2>2. E \in SUBSET Buchungen /\ z \notin E /\ gezahlt[c] = Summe(w, E)
    <3>1. c # Nichts
      BY KonstantenAnnahme
    <3>2. QED
      BY <1>2, <1>6, <2>1, <3>1 DEF Eingaenge, IKonto, KontenStimmen, GezahltGilt
  <2>3. Summe(v, E) = Summe(w, E)
    BY <1>8, <1>9, <2>2, SummeGleich
  <2>4. CASE c # b
    <3>1. Eingaenge(c)' = E
      BY <1>2, <1>3, <2>1, <2>2, <2>4 DEF Eingaenge
    <3>2. QED
      BY <1>4, <2>2, <2>3, <2>4, <3>1
  <2>5. CASE c = b
    <3>1. Eingaenge(c)' = E \cup {z}
      BY <1>2, <1>3, <2>1, <2>2, <2>5 DEF Eingaenge
    <3>2. PICK T : T = E \cup {z}
      OBVIOUS
    <3>3. T \in SUBSET Buchungen /\ z \in T /\ T \ {z} = E
      BY <1>2, <2>2, <3>2
    <3>4. IsFiniteSet(T) /\ \A y \in T : v[y] \in Nat
      BY <1>8, <1>9, <3>3
    <3>5. Summe(v, T) = v[z] + Summe(v, T \ {z})
      BY <3>3, <3>4, SummeFakten
    <3>6. gezahlt[c] \in Nat
      BY KontoFakten
    <3>7. QED
      BY <1>4, <1>8, <2>2, <2>3, <2>5, <3>1, <3>2, <3>3, <3>5, <3>6
  <2>6. QED
    BY <2>4, <2>5
<1>11. GezahltGilt'
  BY <1>7, <1>10 DEF GezahltGilt
<1>12. QED
  BY <1>2, <1>3, <1>4, <1>5, <1>11

LEMMA EingangGegengebucht ==
  ASSUME IKonto, NEW b \in Belege, NEW z \in Buchungen, zahlung[z].beleg = b, zahlung[z].gegen = 0,
         zahlung' = [zahlung EXCEPT ![z].gegen = @ + 1], gezahlt' = [gezahlt EXCEPT ![b] = @ - zahlung[z].betrag]
  PROVE  /\ GeldEcht' /\ GezahltGilt'
         /\ zahlung[z].betrag \in 1..gezahlt[b] /\ gezahlt'[b] = gezahlt[b] - zahlung[z].betrag
         /\ \A c \in Belege \ {b} : gezahlt'[c] = gezahlt[c]
         /\ \A y \in Buchungen : zahlung'[y].beleg = zahlung[y].beleg
<1> TypInv
  BY DEF IKonto, IStorno
<1>1. /\ \A y \in Buchungen : zahlung'[y].beleg = zahlung[y].beleg /\ zahlung'[y].betrag = zahlung[y].betrag
      /\ \A y \in Buchungen \ {z} : zahlung'[y].gegen = zahlung[y].gegen
      /\ zahlung'[z].gegen = zahlung[z].gegen + 1
  BY DEF TypInv, TypeOK, BuchungTyp
<1>2. /\ gezahlt'[b] = gezahlt[b] - zahlung[z].betrag
      /\ \A c \in Belege \ {b} : gezahlt'[c] = gezahlt[c]
  BY DEF TypInv, TypeOK
<1>3. GeldEcht'
  BY <1>1 DEF IKonto, KontenStimmen, GeldEcht
<1>4. b # Nichts /\ zahlung[z].betrag \in Nat \ {0}
  BY KonstantenAnnahme DEF IKonto, KontenStimmen, GeldEcht, TypInv, TypeOK, BuchungTyp
<1>5. PICK w : w = Einnahmen
  OBVIOUS
<1>6. Einnahmen' = w /\ w[z] = zahlung[z].betrag
  BY <1>1, <1>5 DEF Einnahmen
<1>7. \A S \in SUBSET Buchungen : IsFiniteSet(S) /\ \A y \in S : w[y] \in Nat
  BY <1>5, KontoFakten
<1>8. PICK E : E = Eingaenge(b)
  OBVIOUS
<1>9. E \in SUBSET Buchungen /\ z \in E /\ gezahlt[b] = Summe(w, E)
  BY <1>5, <1>8 DEF Eingaenge, IKonto, KontenStimmen, GezahltGilt
<1>10. Summe(w, E) = w[z] + Summe(w, E \ {z}) /\ Summe(w, E \ {z}) \in Nat
  <2>1. E \ {z} \in SUBSET Buchungen
    BY <1>9
  <2>2. QED
    BY <1>7, <1>9, <2>1, SummeFakten
<1>11. Eingaenge(b)' = E \ {z}
  BY <1>1, <1>8 DEF Eingaenge
<1>12. \A c \in Belege \ {b} : Eingaenge(c)' = Eingaenge(c)
  BY <1>1 DEF Eingaenge
<1>13. zahlung[z].betrag \in 1..gezahlt[b]
  BY <1>4, <1>6, <1>9, <1>10
<1>14. \A c \in Belege : gezahlt'[c] = Summe(w, Eingaenge(c)')
  <2>1. gezahlt'[b] = Summe(w, Eingaenge(b)')
    BY <1>2, <1>4, <1>6, <1>9, <1>10, <1>11
  <2>2. \A c \in Belege \ {b} : gezahlt'[c] = Summe(w, Eingaenge(c)')
    BY <1>2, <1>5, <1>12 DEF IKonto, KontenStimmen, GezahltGilt
  <2>3. QED
    BY <2>1, <2>2
<1>15. GezahltGilt'
  BY <1>6, <1>14 DEF GezahltGilt
<1>16. QED
  BY <1>1, <1>2, <1>3, <1>13, <1>15

\* The parts a commit that only moves money leaves alone, and the rule a booking follows.
LEMMA EineWeiter ==
  ASSUME NEW b \in Belege, beleg[b].art = "rechnung" /\ beleg[b].status # "frei" => Kontofolge(b),
         \A c \in Belege \ {b} : beleg[c].art = "rechnung" /\ beleg[c].status # "frei" => Gleich(c)
  PROVE  EineBuchung
  BY DEF EineBuchung

LEMMA GezahltRuht ==
  ASSUME IKonto, UNCHANGED <<zahlung, gezahlt>>
  PROVE  GeldEcht' /\ GezahltGilt'
  BY DEF IKonto, KontenStimmen, GeldEcht, GezahltGilt, Einnahmen, Eingaenge

LEMMA VersandBuchung ==
  ASSUME IKonto, NEW a \in Anfragen, SchreibeVersand(a)
  PROVE  KontenStimmen' /\ EineBuchung
<1>1. PICK b : b = anfrage[a].beleg
  OBVIOUS
<1>2. /\ b \in Belege /\ beleg[b].status = "entwurf" /\ beleg'[b].status = "versendet"
      /\ \A c \in Belege : Ruhig(c) /\ (c # b => beleg'[c] = beleg[c])
  BY <1>1, VersandBeleg DEF IKonto
<1>3. /\ UNCHANGED <<papierkorb, zahlung, gezahlt, gutgeschrieben, vorgang>>
      /\ gemeldet' = [gemeldet EXCEPT ![b] = "versendet"]
  BY <1>1 DEF SchreibeVersand
<1>4. EineBuchung
  <2>1. Versendet(b) /\ \A c \in Belege \ {b} : Gleich(c)
    BY <1>2, <1>3 DEF Versendet, Gleich
  <2>2. QED
    BY <1>2, <2>1, EineWeiter DEF Kontofolge
<1>5. RechnungBleibt' /\ GutschriftEcht' /\ GutGilt' /\ StatusGilt'
  BY <1>2, <1>3, <1>4, BelegeRuhen
<1>6. AbgerechnetHatGrund'
  <2>1. beleg[b].art = "rechnung"
    BY <1>2 DEF IKonto, IStorno, Unbenutzt
  <2>2. \A c \in Belege : beleg[c].art = "storno" => beleg'[c].art = "storno" /\ gemeldet'[c] = gemeldet[c]
    BY <1>2, <1>3, <2>1 DEF Ruhig, IKonto, IStorno, TypInv, TypeOK
  <2>3. QED
    BY <1>3, <2>2 DEF IKonto, KontenStimmen, AbgerechnetHatGrund
<1>7. QED
  BY <1>3, <1>4, <1>5, <1>6, GezahltRuht DEF KontenStimmen

LEMMA LoeschenBuchung ==
  ASSUME IKonto, NEW a \in Anfragen, SchreibeLoeschen(a)
  PROVE  KontenStimmen' /\ EineBuchung
<1> TypInv
  BY DEF IKonto, IStorno
<1>1. PICK b : b = anfrage[a].beleg
  OBVIOUS
<1>2. b \in Belege /\ beleg[b].art = "rechnung"
  BY <1>1, AnfrageFelder DEF SchreibeLoeschen, In, IKonto, IInv, Vorgemerkt
<1>3. /\ UNCHANGED <<beleg, zahlung, gezahlt, gutgeschrieben, vorgang, gemeldet>>
      /\ papierkorb' = papierkorb \cup {b}
  BY <1>1 DEF SchreibeLoeschen
<1>4. EineBuchung
  BY <1>2, <1>3, EineWeiter DEF Kontofolge, Gleich
<1>5. QED
  BY <1>2, <1>3, <1>4, KontenRuhen

LEMMA ZahlungBuchung ==
  ASSUME IKonto, NEW a \in Anfragen, SchreibeZahlung(a)
  PROVE  KontenStimmen' /\ EineBuchung
<1> TypInv
  BY DEF IKonto, IStorno
<1>1. PICK q : q = anfrage[a]
  OBVIOUS
<1>2. PICK b : b = q.beleg
  OBVIOUS
<1>3. PICK n : n = q.betrag
  OBVIOUS
<1>4. q.art = "zahlung" /\ q.phase = "geprueft" /\ n \in Nat
  BY <1>1, <1>3, AnfrageFelder DEF SchreibeZahlung, In
<1>5. /\ n > 0 /\ q.gezahlt = gezahlt[b] /\ q.gut = gutgeschrieben[b]
      /\ n <= Offen(beleg[b].brutto, gezahlt[b], gutgeschrieben[b])
  BY <1>1, <1>2, <1>3, <1>4 DEF IKonto, KontoGelesen, Gelesen
<1>6. /\ b \in Belege /\ beleg[b].status \in Zahlbar
      /\ beleg'[b].status = StatusNachZahlung(beleg[b].brutto, gezahlt[b] + n, beleg[b].status, gutgeschrieben[b])
      /\ \A c \in Belege : Ruhig(c) /\ (c # b => beleg'[c] = beleg[c])
  BY <1>1, <1>2, <1>3, <1>5, ZahlungBeleg DEF IKonto
<1>7. BucheEin(b, n) /\ UNCHANGED <<papierkorb, gutgeschrieben>>
  BY <1>1, <1>2, <1>3 DEF SchreibeZahlung
<1>8. /\ GeldEcht' /\ GezahltGilt' /\ gezahlt'[b] = gezahlt[b] + n
      /\ \A c \in Belege \ {b} : gezahlt'[c] = gezahlt[c]
      /\ \E z \in Buchungen : zahlung'[z].beleg # Nichts
  BY <1>4, <1>5, <1>6, <1>7, EingangGebucht
<1>9. gezahlt[b] \in Nat /\ gutgeschrieben[b] \in Nat /\ beleg[b].brutto \in Int
  BY <1>6, KontoFakten, BelegFelder
<1>10. Gebucht(b)
  <2>1. n \in 1..(beleg[b].brutto - gezahlt[b] - gutgeschrieben[b])
    BY <1>4, <1>5, <1>9 DEF Offen, Groesser
  <2>2. beleg'[b].status = StatusRegel(beleg[b].brutto, gezahlt'[b], gutgeschrieben'[b])
    BY <1>4, <1>5, <1>6, <1>7, <1>8, <1>9 DEF StatusNachZahlung, StatusRegel
  <2>3. gezahlt'[b] - gezahlt[b] = n
    BY <1>4, <1>8, <1>9
  <2>4. QED
    BY <1>6, <1>7, <2>1, <2>2, <2>3 DEF Gebucht, Zahlbar, Versandt
<1>11. EineBuchung
  BY <1>6, <1>7, <1>8, <1>10, EineWeiter DEF Gleich, Kontofolge
<1>12. RechnungBleibt' /\ GutschriftEcht' /\ GutGilt' /\ StatusGilt'
  BY <1>6, <1>7, <1>11, BelegeRuhen
<1>13. AbgerechnetHatGrund'
  BY <1>8 DEF AbgerechnetHatGrund
<1>14. QED
  BY <1>8, <1>11, <1>12, <1>13 DEF KontenStimmen

LEMMA AbschlussBuchung ==
  ASSUME IKonto, NEW a \in Anfragen, SchreibeAbschluss(a)
  PROVE  KontenStimmen' /\ EineBuchung
<1> TypInv
  BY DEF IKonto, IStorno
<1>1. PICK q : q = anfrage[a]
  OBVIOUS
<1>2. PICK b : b = q.beleg
  OBVIOUS
<1>3. q.art = "abschluss" /\ q.phase = "geprueft"
  BY <1>1 DEF SchreibeAbschluss, In
<1>4. /\ q.gezahlt = gezahlt[b] /\ q.gut = gutgeschrieben[b] /\ beleg[b].art # "gutschrift"
  BY <1>1, <1>2, <1>3 DEF IKonto, KontoGelesen, Gelesen
<1>5. /\ b \in Belege /\ beleg[b].status \in Zahlbar /\ beleg'[b].status = "bezahlt"
      /\ \A c \in Belege : Ruhig(c) /\ (c # b => beleg'[c] = beleg[c])
  BY <1>1, <1>2, AbschlussBeleg DEF IKonto
<1>6. PICK n : n = Offen(beleg[b].brutto, gezahlt[b], gutgeschrieben[b])
  OBVIOUS
<1>7. /\ IF n > 0 THEN BucheEin(b, n) ELSE UNCHANGED <<zahlung, gezahlt>>
      /\ UNCHANGED <<papierkorb, gutgeschrieben>> /\ gemeldet' = [gemeldet EXCEPT ![b] = "bezahlt"]
  BY <1>1, <1>2, <1>4, <1>6 DEF SchreibeAbschluss
<1>8. gezahlt[b] \in Nat /\ gutgeschrieben[b] \in Nat /\ beleg[b].brutto \in Int /\ n \in Nat
  BY <1>5, <1>6, KontoFakten, BelegFelder DEF Offen, Groesser
<1>9. ASSUME n > 0
      PROVE  /\ GeldEcht' /\ GezahltGilt' /\ gezahlt'[b] = gezahlt[b] + n
             /\ \A c \in Belege \ {b} : gezahlt'[c] = gezahlt[c]
             /\ \E z \in Buchungen : zahlung'[z].beleg # Nichts
  BY <1>5, <1>7, <1>8, <1>9, EingangGebucht
<1>10. ASSUME beleg[b].art = "rechnung" PROVE Gebucht(b) /\ n > 0
  <2>1. beleg[b].status = StatusRegel(beleg[b].brutto, gezahlt[b], gutgeschrieben[b])
    BY <1>5, <1>10 DEF IKonto, KontenStimmen, StatusGilt, Stimmig, Zahlbar, Versandt
  <2>2. beleg[b].brutto - gezahlt[b] - gutgeschrieben[b] > 0
    BY <1>5, <1>8, <2>1 DEF StatusRegel, Zahlbar
  <2>3. n = beleg[b].brutto - gezahlt[b] - gutgeschrieben[b] /\ n > 0
    BY <1>6, <1>8, <2>2 DEF Offen, Groesser
  <2>4. gezahlt'[b] = gezahlt[b] + n
    BY <1>9, <2>3
  <2>5. /\ gezahlt'[b] - gezahlt[b] \in 1..(beleg[b].brutto - gezahlt[b] - gutgeschrieben[b])
        /\ beleg[b].brutto - gezahlt'[b] - gutgeschrieben[b] <= 0
    BY <1>8, <2>3, <2>4
  <2>6. StatusRegel(beleg[b].brutto, gezahlt'[b], gutgeschrieben'[b]) = "bezahlt"
    BY <1>7, <2>5 DEF StatusRegel
  <2>7. QED
    BY <1>5, <1>7, <2>3, <2>5, <2>6 DEF Gebucht, Zahlbar, Versandt
<1>11. GeldEcht' /\ GezahltGilt' /\ \A c \in Belege \ {b} : gezahlt'[c] = gezahlt[c]
  <2>1. CASE n > 0
    BY <1>9, <2>1
  <2>2. CASE ~(n > 0)
    BY <1>7, <2>2, GezahltRuht
  <2>3. QED
    BY <2>1, <2>2
<1>12. EineBuchung
  BY <1>5, <1>7, <1>10, <1>11, EineWeiter DEF Gleich, Kontofolge
<1>13. RechnungBleibt' /\ GutschriftEcht' /\ GutGilt' /\ StatusGilt'
  BY <1>5, <1>7, <1>12, BelegeRuhen
<1>14. AbgerechnetHatGrund'
  <2>1. CASE beleg[b].art = "rechnung"
    BY <1>9, <1>10, <2>1 DEF AbgerechnetHatGrund
  <2>2. CASE beleg[b].art = "storno"
    <3>1. beleg'[b].art = "storno" /\ gemeldet'[b] = "bezahlt"
      BY <1>5, <1>7, <2>2 DEF Ruhig, TypInv, TypeOK
    <3>2. QED
      BY <1>5, <3>1 DEF AbgerechnetHatGrund
  <2>3. beleg[b].art \in Belegart
    BY <1>5, BelegFelder
  <2>4. QED
    BY <1>4, <2>1, <2>2, <2>3 DEF Belegart
<1>15. QED
  BY <1>11, <1>12, <1>13, <1>14 DEF KontenStimmen

LEMMA GegenBuchung ==
  ASSUME IKonto, NEW a \in Anfragen, SchreibeGegenbuchung(a)
  PROVE  KontenStimmen' /\ EineBuchung
<1> TypInv
  BY DEF IKonto, IStorno
<1>1. PICK q : q = anfrage[a]
  OBVIOUS
<1>2. PICK b : b = q.beleg
  OBVIOUS
<1>3. PICK y : y = q.buchung
  OBVIOUS
<1>4. q.art = "zahlungsstorno" /\ q.phase = "geprueft" /\ y \in Buchungen
  BY <1>1, <1>3 DEF SchreibeGegenbuchung, In, TypInv, Bezuege
<1>5. /\ zahlung[y].beleg = b /\ zahlung[y].gegen = 0 /\ zahlung[y].betrag = q.betrag
      /\ q.gezahlt = gezahlt[b] - q.betrag /\ q.gut = gutgeschrieben[b]
  BY <1>1, <1>2, <1>3, <1>4 DEF IKonto, KontoGelesen, Gelesen
<1>6. /\ b \in Belege /\ beleg[b].status \in Versandt
      /\ beleg'[b].status = StatusNachGegenbuchung(beleg[b].brutto, q.gezahlt, beleg[b].status, q.gut)
      /\ \A c \in Belege : Ruhig(c) /\ (c # b => beleg'[c] = beleg[c])
  BY <1>1, <1>2, GegenbuchungBeleg DEF IKonto
<1>7. /\ zahlung' = [zahlung EXCEPT ![y].gegen = @ + 1]
      /\ gezahlt' = [gezahlt EXCEPT ![b] = @ - zahlung[y].betrag]
      /\ UNCHANGED <<papierkorb, gutgeschrieben, vorgang, gemeldet>>
  BY <1>1, <1>2, <1>3, <1>5 DEF SchreibeGegenbuchung
<1>8. /\ GeldEcht' /\ GezahltGilt'
      /\ zahlung[y].betrag \in 1..gezahlt[b] /\ gezahlt'[b] = gezahlt[b] - zahlung[y].betrag
      /\ \A c \in Belege \ {b} : gezahlt'[c] = gezahlt[c]
      /\ zahlung'[y].beleg = b
  BY <1>4, <1>5, <1>6, <1>7, EingangGegengebucht
<1>9. gezahlt[b] \in Nat /\ gutgeschrieben[b] \in Nat /\ beleg[b].brutto \in Int
  BY <1>6, KontoFakten, BelegFelder
<1>10. ASSUME beleg[b].art = "rechnung" PROVE Gebucht(b)
  <2>1. /\ beleg[b].brutto > 0
        /\ beleg[b].status = StatusRegel(beleg[b].brutto, gezahlt[b], gutgeschrieben[b])
    BY <1>6, <1>10 DEF IKonto, KontenStimmen, StatusGilt, Stimmig, Versandt
  <2>2. gezahlt'[b] \in Nat /\ gezahlt'[b] < gezahlt[b] /\ gezahlt[b] - gezahlt'[b] \in 1..gezahlt[b]
    BY <1>8, <1>9
  <2>3. beleg'[b].status = StatusNachGegenbuchung(beleg[b].brutto, gezahlt'[b], beleg[b].status, gutgeschrieben[b])
    BY <1>5, <1>6, <1>8
  <2>4. beleg'[b].status = StatusRegel(beleg[b].brutto, gezahlt'[b], gutgeschrieben[b])
    BY <1>9, <2>1, <2>2, <2>3 DEF StatusNachGegenbuchung, StatusRegel
  <2>5. QED
    BY <1>6, <1>7, <2>2, <2>4 DEF Gebucht
<1>11. EineBuchung
  BY <1>6, <1>7, <1>8, <1>10, EineWeiter DEF Gleich, Kontofolge
<1>12. RechnungBleibt' /\ GutschriftEcht' /\ GutGilt' /\ StatusGilt'
  BY <1>6, <1>7, <1>11, BelegeRuhen
<1>13. AbgerechnetHatGrund'
  <2>1. b # Nichts
    BY <1>6, KonstantenAnnahme
  <2>2. QED
    BY <1>4, <1>8, <2>1 DEF AbgerechnetHatGrund
<1>14. QED
  BY <1>8, <1>11, <1>12, <1>13 DEF KontenStimmen


\* A new credit note is one more of its invoice.
LEMMA GutschriftDazu ==
  ASSUME IKonto, NEW r \in Belege, NEW n \in Belege, NEW m \in Nat, beleg[n].status = "frei",
         beleg'[n].art = "gutschrift", beleg'[n].status = "versendet", beleg'[n].bezug = r, beleg'[n].brutto = -m,
         \A c \in Belege \ {n} : Ruhig(c), UNCHANGED papierkorb,
         gutgeschrieben'[r] = gutgeschrieben[r] + m, \A c \in Belege \ {r} : gutgeschrieben'[c] = gutgeschrieben[c]
  PROVE  GutGilt' /\ \A g \in Belege : Zaehlt(g)' <=> (g = n \/ Zaehlt(g))
<1> TypInv
  BY DEF IKonto, IStorno
<1>1. n \notin papierkorb /\ ~Zaehlt(n)
  BY DEF IKonto, IInv, ArtPasst, Zaehlt
<1>2. \A g \in Belege : Zaehlt(g)' <=> (g = n \/ Zaehlt(g))
  BY <1>1 DEF Zaehlt, Ruhig, Versandt
<1>3. \A b \in Belege \ {r} : GutschriftenZu(b)' = GutschriftenZu(b)
  BY <1>1, <1>2 DEF GutschriftenZu, Ruhig
<1>4. GutschriftenZu(r)' = GutschriftenZu(r) \cup {n}
  BY <1>1, <1>2 DEF GutschriftenZu, Ruhig
<1>5. PICK w : w = Abzuege
  OBVIOUS
<1>6. PICK v : v = Abzuege'
  OBVIOUS
<1>7. v[n] = m /\ \A c \in Belege \ {n} : v[c] = w[c]
  BY <1>5, <1>6 DEF Abzuege, Ruhig
<1>8. ASSUME NEW b \in Belege
      PROVE  /\ IsFiniteSet(GutschriftenZu(b)) /\ GutschriftenZu(b) \subseteq Belege \ {n}
             /\ \A g \in GutschriftenZu(b) : w[g] \in Nat /\ v[g] = w[g]
             /\ Summe(v, GutschriftenZu(b)) = gutgeschrieben[b]
  <2>1. IsFiniteSet(GutschriftenZu(b)) /\ GutschriftenZu(b) \subseteq Belege \ {n}
    BY <1>1, KontoFakten DEF GutschriftenZu
  <2>2. \A g \in GutschriftenZu(b) : w[g] \in Nat /\ v[g] = w[g]
    BY <1>5, <1>7, <2>1, KontoFakten
  <2>3. Summe(w, GutschriftenZu(b)) = gutgeschrieben[b]
    BY <1>5 DEF IKonto, KontenStimmen, GutGilt
  <2>4. Summe(v, GutschriftenZu(b)) = Summe(w, GutschriftenZu(b))
    BY <2>1, <2>2, SummeGleich
  <2>5. QED
    BY <2>1, <2>2, <2>3, <2>4
<1>9. gutgeschrieben'[r] = Summe(v, GutschriftenZu(r)')
  <2>1. PICK T : T = GutschriftenZu(r) \cup {n}
    OBVIOUS
  <2>2. IsFiniteSet(T)
    BY <1>8, <2>1, FS_AddElement
  <2>3. \A g \in T : v[g] \in Nat
    BY <1>7, <1>8, <2>1
  <2>4. n \in T /\ T \ {n} = GutschriftenZu(r)
    BY <1>8, <2>1
  <2>5. Summe(v, T) = v[n] + Summe(v, T \ {n})
    BY <2>2, <2>3, <2>4, SummeFakten, ZenonT(60)
  <2>6. gutgeschrieben[r] \in Nat
    BY KontoFakten
  <2>7. QED
    BY <1>4, <1>7, <1>8, <2>1, <2>4, <2>5, <2>6
<1>10. \A b \in Belege : gutgeschrieben'[b] = Summe(v, GutschriftenZu(b)')
  BY <1>3, <1>8, <1>9
<1>11. QED
  BY <1>2, <1>6, <1>10 DEF GutGilt

LEMMA GutschriftBuchung ==
  ASSUME IKonto, NEW a \in Anfragen, SchreibeGutschrift(a)
  PROVE  KontenStimmen' /\ EineBuchung
<1> TypInv
  BY DEF IKonto, IStorno
<1>1. PICK q : q = anfrage[a]
  OBVIOUS
<1>2. PICK r : r = q.beleg
  OBVIOUS
<1>3. PICK m : m = q.betrag
  OBVIOUS
<1>4. q.art = "gutschrift" /\ q.phase = "nummer" /\ r \in Belege /\ m \in Nat
  BY <1>1, <1>2, <1>3, AnfrageFelder DEF SchreibeGutschrift, In
<1>5. m > 0 /\ beleg[r].art = "rechnung" /\ m <= beleg[r].brutto - gutgeschrieben[r]
  <2>1. HaeltZeile(a, r)
    BY <1>1, <1>2, <1>4 DEF HaeltZeile
  <2>2. QED
    BY <1>1, <1>2, <1>3, <1>4, <2>1 DEF IKonto, KontoGelesen, Gelesen, IInv, Vorgemerkt, Reserviert, Rest
<1>6. beleg[r].status \in Versandt
  BY <1>1, <1>2, GutschriftBeleg DEF IKonto
<1>7. PICK n \in FreieBelege :
        /\ n # r /\ beleg'[n] = Beleg("gutschrift", "versendet", -m, r)
        /\ \A c \in Belege \ {n} : Ruhig(c) /\ (c # r => beleg'[c] = beleg[c])
        /\ beleg'[r].status = StatusNachGutschriften(beleg[r].brutto, gezahlt[r], beleg[r].status, gutgeschrieben[r] + m)
  BY <1>1, <1>2, <1>3, GutschriftBeleg DEF IKonto
<1>8. /\ n \in Belege /\ beleg[n].status = "frei" /\ beleg[n].art = "rechnung"
      /\ beleg'[n].art = "gutschrift" /\ beleg'[n].status = "versendet" /\ beleg'[n].bezug = r /\ beleg'[n].brutto = -m
  BY <1>7 DEF FreieBelege, Beleg, IKonto, IStorno, Unbenutzt
<1>9. /\ gutgeschrieben'[r] = gutgeschrieben[r] + m
      /\ \A c \in Belege \ {r} : gutgeschrieben'[c] = gutgeschrieben[c]
      /\ UNCHANGED <<papierkorb, zahlung, gezahlt, gemeldet>>
  BY <1>1, <1>2, <1>3, <1>4 DEF SchreibeGutschrift, TypInv, TypeOK
<1>10. gezahlt[r] \in Nat /\ gutgeschrieben[r] \in Nat /\ beleg[r].brutto \in Int
  BY <1>4, KontoFakten, BelegFelder
<1>11. beleg'[r].status = StatusRegel(beleg[r].brutto, gezahlt'[r], gutgeschrieben'[r])
  BY <1>6, <1>7, <1>9 DEF StatusNachGutschriften, StatusRegel
<1>12. Gebucht(r)
  <2>1. gutgeschrieben'[r] - gutgeschrieben[r] \in 1..(beleg[r].brutto - gutgeschrieben[r])
    BY <1>4, <1>5, <1>9, <1>10
  <2>2. QED
    BY <1>6, <1>9, <1>11, <2>1 DEF Gebucht
<1>13. EineBuchung
  <2>1. \A c \in Belege \ {r} : beleg[c].status # "frei" => Gleich(c)
    BY <1>7, <1>8, <1>9 DEF Gleich
  <2>2. QED
    BY <1>4, <1>12, <2>1, EineWeiter DEF Kontofolge
<1>14. GutGilt' /\ \A g \in Belege : Zaehlt(g)' <=> (g = n \/ Zaehlt(g))
  BY <1>4, <1>7, <1>8, <1>9, GutschriftDazu
<1>15. GutschriftEcht'
  <2>1. beleg'[r].art = "rechnung" /\ beleg'[r].status \in Versandt
    BY <1>4, <1>5, <1>6, <1>7 DEF Ruhig
  <2> SUFFICES ASSUME NEW g \in Belege, Zaehlt(g)'
               PROVE  /\ beleg'[g].brutto < 0
                      /\ beleg'[beleg'[g].bezug].art = "rechnung" /\ beleg'[beleg'[g].bezug].status \in Versandt
    BY DEF GutschriftEcht
  <2>2. CASE g = n
    BY <1>4, <1>5, <1>8, <2>1, <2>2
  <2>3. CASE g # n
    <3>1. /\ Zaehlt(g) /\ beleg[g].brutto < 0
          /\ beleg[beleg[g].bezug].art = "rechnung" /\ beleg[beleg[g].bezug].status \in Versandt
      BY <1>14, <2>3 DEF IKonto, KontenStimmen, GutschriftEcht
    <3>2. beleg[g].bezug \in Belege \ {n}
      BY <1>8, <3>1, BelegFelder DEF Zaehlt, Versandt
    <3>3. Ruhig(g) /\ Ruhig(beleg[g].bezug)
      BY <1>7, <2>3, <3>2
    <3>4. QED
      BY <3>1, <3>3 DEF Ruhig
  <2>4. QED
    BY <2>2, <2>3
<1>16. RechnungBleibt'
  BY <1>7, <1>8, KonstantenAnnahme DEF IKonto, KontenStimmen, RechnungBleibt, Ruhig, Versandt
<1>17. StatusGilt'
  BY <1>7, <1>8, <1>13, StatusSchritt DEF Ruhig, Versandt
<1>18. AbgerechnetHatGrund'
  <2>1. CASE vorgang
    <3>1. \A c \in Belege : beleg[c].art = "storno" => beleg'[c].art = "storno"
      BY <1>7, <1>8 DEF Ruhig
    <3>2. QED
      BY <1>9, <2>1, <3>1 DEF IKonto, KontenStimmen, AbgerechnetHatGrund
  <2>2. ASSUME ~vorgang, vorgang' PROVE \E z \in Buchungen : zahlung[z].beleg # Nichts
    <3>1. beleg'[r].status = "bezahlt" /\ gutgeschrieben[r] + m < beleg[r].brutto
      BY <1>1, <1>2, <1>3, <1>7, <2>2 DEF SchreibeGutschrift, RechnetVorgangAb
    <3>2. gezahlt[r] # 0
      BY <1>4, <1>9, <1>10, <1>11, <3>1 DEF StatusRegel
    <3>3. r # Nichts
      BY <1>4, KonstantenAnnahme
    <3>4. QED
      BY <1>4, <3>2, <3>3, KontoFakten DEF Eingaenge
  <2>3. QED
    BY <1>9, <2>1, <2>2 DEF AbgerechnetHatGrund
<1>19. QED
  BY <1>9, <1>13, <1>14, <1>15, <1>16, <1>17, <1>18, GezahltRuht DEF KontenStimmen

\* A cancelled credit note is one less of its invoice.
LEMMA GutschriftWeg ==
  ASSUME IKonto, NEW g \in Belege, NEW s \in Belege, s # g, beleg[s].status = "frei",
         beleg'[s].art = "storno", beleg'[g].status = "storniert",
         \A c \in Belege \ {s, g} : Ruhig(c), UNCHANGED papierkorb,
         gutgeschrieben' = IF Zaehlt(g) THEN [gutgeschrieben EXCEPT ![beleg[g].bezug] = @ + beleg[g].brutto]
                           ELSE gutgeschrieben
  PROVE  /\ GutGilt' /\ \A c \in Belege : Zaehlt(c)' <=> (c # g /\ Zaehlt(c))
         /\ Zaehlt(g) => /\ -beleg[g].brutto \in 1..gutgeschrieben[beleg[g].bezug]
                         /\ gutgeschrieben'[beleg[g].bezug] = gutgeschrieben[beleg[g].bezug] + beleg[g].brutto
                         /\ \A c \in Belege \ {beleg[g].bezug} : gutgeschrieben'[c] = gutgeschrieben[c]
<1> TypInv
  BY DEF IKonto, IStorno
<1>1. ~Zaehlt(s)
  BY DEF IKonto, IStorno, Unbenutzt, Zaehlt
<1>2. \A c \in Belege : Zaehlt(c)' <=> (c # g /\ Zaehlt(c))
  BY <1>1 DEF Zaehlt, Ruhig, Versandt
<1>3. \A b \in Belege : GutschriftenZu(b)' = GutschriftenZu(b) \ {g}
  BY <1>1, <1>2 DEF GutschriftenZu, Ruhig
<1>4. PICK w : w = Abzuege
  OBVIOUS
<1>5. PICK v : v = Abzuege'
  OBVIOUS
<1>6. ASSUME NEW b \in Belege
      PROVE  /\ IsFiniteSet(GutschriftenZu(b)) /\ \A c \in GutschriftenZu(b) : w[c] \in Nat
             /\ Summe(w, GutschriftenZu(b)) = gutgeschrieben[b]
             /\ Summe(v, GutschriftenZu(b) \ {g}) = Summe(w, GutschriftenZu(b) \ {g})
  <2>1. /\ IsFiniteSet(GutschriftenZu(b)) /\ GutschriftenZu(b) \subseteq Belege
        /\ \A c \in GutschriftenZu(b) : w[c] \in Nat
        /\ Summe(w, GutschriftenZu(b)) = gutgeschrieben[b]
    BY <1>4, KontoFakten DEF IKonto, KontenStimmen, GutGilt
  <2>2. PICK S : S = GutschriftenZu(b) \ {g}
    OBVIOUS
  <2>3. IsFiniteSet(S) /\ S \subseteq Belege \ {s, g}
    BY <1>1, <2>1, <2>2, FS_Subset DEF GutschriftenZu
  <2>4. \A c \in S : v[c] = w[c]
    BY <1>4, <1>5, <2>3 DEF Abzuege, Ruhig
  <2>5. QED
    BY <2>1, <2>2, <2>3, <2>4, SummeGleich
<1>7. CASE ~Zaehlt(g)
  <2>1. \A b \in Belege : GutschriftenZu(b) \ {g} = GutschriftenZu(b)
    BY <1>7 DEF GutschriftenZu
  <2>2. \A b \in Belege : gutgeschrieben'[b] = Summe(v, GutschriftenZu(b)')
    BY <1>3, <1>6, <1>7, <2>1
  <2>3. QED
    BY <1>2, <1>5, <1>7, <2>2 DEF GutGilt
<1>8. CASE Zaehlt(g)
  <2>1. PICK r : r = beleg[g].bezug
    OBVIOUS
  <2>2. r \in Belege /\ g \in GutschriftenZu(r) /\ \A b \in Belege \ {r} : g \notin GutschriftenZu(b)
    BY <1>8, <2>1, BelegFelder DEF Zaehlt, GutschriftenZu
  <2>3. /\ gutgeschrieben'[r] = gutgeschrieben[r] + beleg[g].brutto
        /\ \A c \in Belege \ {r} : gutgeschrieben'[c] = gutgeschrieben[c]
    BY <1>8, <2>1, <2>2 DEF TypInv, TypeOK
  <2>4. w[g] = -beleg[g].brutto /\ beleg[g].brutto < 0 /\ beleg[g].brutto \in Int
    BY <1>4, <1>8, BelegFelder DEF Abzuege, IKonto, KontenStimmen, GutschriftEcht
  <2>5. PICK T : T = GutschriftenZu(r)
    OBVIOUS
  <2>6. IsFiniteSet(T) /\ (\A c \in T : w[c] \in Nat) /\ g \in T /\ Summe(w, T) = gutgeschrieben[r]
    BY <1>6, <2>2, <2>5
  <2>7. Summe(w, T) = w[g] + Summe(w, T \ {g})
    BY <2>6, SummeFakten
  <2>8. Summe(w, T \ {g}) \in Nat
    <3>1. IsFiniteSet(T \ {g}) /\ \A c \in T \ {g} : w[c] \in Nat
      BY <2>6, FS_Subset
    <3>2. QED
      BY <3>1, SummeFakten
  <2>9. gutgeschrieben[r] \in Nat
    BY <2>2, KontoFakten
  <2>10. -beleg[g].brutto \in 1..gutgeschrieben[r]
    BY <2>4, <2>6, <2>7, <2>8, <2>9
  <2>11. gutgeschrieben'[r] = Summe(v, GutschriftenZu(r)')
    <3>1. gutgeschrieben'[r] = Summe(w, T \ {g})
      BY <2>3, <2>4, <2>6, <2>7, <2>8, <2>9
    <3>2. QED
      BY <1>3, <1>6, <2>2, <2>5, <3>1
  <2>12. ASSUME NEW b \in Belege \ {r} PROVE gutgeschrieben'[b] = Summe(v, GutschriftenZu(b)')
    <3>1. GutschriftenZu(b) \ {g} = GutschriftenZu(b)
      BY <2>2
    <3>2. QED
      BY <1>3, <1>6, <2>3, <3>1
  <2>13. GutGilt'
    BY <1>5, <2>11, <2>12 DEF GutGilt
  <2>14. QED
    BY <1>2, <2>1, <2>3, <2>10, <2>13
<1>9. QED
  BY <1>7, <1>8

LEMMA StornoBuchung ==
  ASSUME IKonto, NEW a \in Anfragen, SchreibeStorno(a)
  PROVE  KontenStimmen' /\ EineBuchung
<1> TypInv
  BY DEF IKonto, IStorno
<1>1. PICK q : q = anfrage[a]
  OBVIOUS
<1>2. PICK g : g = q.beleg
  OBVIOUS
<1>3. PICK r : r = beleg[g].bezug
  OBVIOUS
<1>4. q.art = "storno" /\ q.phase = "nummer" /\ g \in Belege /\ beleg[g].art \in Belegart
  BY <1>1, <1>2, AnfrageFelder, BelegFelder DEF SchreibeStorno, In
<1>5. beleg[g].status \in Versandt
  BY <1>1, <1>2, StornoBeleg DEF IKonto
<1>6. PICK s \in FreieBelege :
        /\ s # g /\ beleg'[s] = Beleg("storno", "versendet", -beleg[g].brutto, g)
        /\ beleg'[g] = Beleg(beleg[g].art, "storniert", beleg[g].brutto, beleg[g].bezug)
        /\ \A c \in Belege \ {s, g} : Ruhig(c) /\ (beleg'[c] # beleg[c] => beleg[g].art = "gutschrift" /\ c = r)
        /\ beleg[g].art = "gutschrift" /\ r \notin {s, g} => beleg'[r].status = BezugStatus(a)
  BY <1>1, <1>2, <1>3, StornoBeleg DEF IKonto
<1>7. s \in Belege /\ beleg[s].status = "frei" /\ beleg[s].art = "rechnung"
  BY DEF FreieBelege, IKonto, IStorno, Unbenutzt
<1>8. /\ beleg'[s].art = "storno" /\ beleg'[g].status = "storniert" /\ beleg'[g].art = beleg[g].art
      /\ beleg'[g].brutto = beleg[g].brutto /\ beleg'[g].bezug = beleg[g].bezug
  BY <1>6 DEF Beleg
<1>9. /\ gutgeschrieben' = IF Zaehlt(g) THEN [gutgeschrieben EXCEPT ![beleg[g].bezug] = @ + beleg[g].brutto]
                           ELSE gutgeschrieben
      /\ UNCHANGED <<papierkorb, zahlung, gezahlt, vorgang, gemeldet>>
  BY <1>1, <1>2 DEF SchreibeStorno
<1>10. /\ GutGilt' /\ \A c \in Belege : Zaehlt(c)' <=> (c # g /\ Zaehlt(c))
       /\ Zaehlt(g) => /\ -beleg[g].brutto \in 1..gutgeschrieben[r]
                       /\ gutgeschrieben'[r] = gutgeschrieben[r] + beleg[g].brutto
                       /\ \A c \in Belege \ {r} : gutgeschrieben'[c] = gutgeschrieben[c]
  BY <1>3, <1>4, <1>6, <1>7, <1>8, <1>9, GutschriftWeg
<1>11. Gelesen(q) /\ Geladen(q)
  BY <1>1, <1>4 DEF IKonto, KontoGelesen, IStorno, GeladenGilt
<1>12. GutschriftenZu(g) = {}
  BY <1>2, <1>4, <1>11 DEF Gelesen
<1>13. EineBuchung
  <2>1. CASE beleg[g].art = "gutschrift"
    <3>1. Zaehlt(g)
      BY <1>4, <1>5, <2>1 DEF Zaehlt, Versandt, IKonto, IInv, ArtPasst
    <3>2. r \in Belege /\ beleg[r].art = "rechnung" /\ beleg[r].status \in Versandt
      BY <1>3, <1>4, <2>1, <3>1, BelegFelder DEF IKonto, KontenStimmen, GutschriftEcht
    <3>3. r # g /\ r # s
      BY <1>7, <2>1, <3>2 DEF Versandt
    <3>4. q.status = beleg[r].status /\ q.gezahlt = gezahlt[r] /\ q.gut = gutgeschrieben[r] + beleg[g].brutto
      BY <1>2, <1>3, <1>4, <1>11, <2>1 DEF Gelesen, Geladen, VorGutschriftstorno
    <3>5. beleg'[r].status = StatusNachGutschriften(beleg[r].brutto, q.gezahlt, q.status, q.gut)
      BY <1>1, <1>2, <1>3, <1>6, <2>1, <3>3 DEF BezugStatus
    <3>6. beleg'[r].status = StatusRegel(beleg[r].brutto, gezahlt'[r], gutgeschrieben'[r])
      BY <1>9, <1>10, <3>1, <3>2, <3>4, <3>5 DEF StatusNachGutschriften, StatusRegel
    <3>7. gutgeschrieben[r] - gutgeschrieben'[r] \in 1..gutgeschrieben[r]
      <4>1. beleg[g].brutto \in Int /\ gutgeschrieben[r] \in Nat
        BY <1>4, <3>2, BelegFelder, KontoFakten
      <4>2. QED
        BY <1>10, <3>1, <4>1
    <3>8. Gebucht(r)
      BY <1>9, <3>2, <3>6, <3>7 DEF Gebucht
    <3>9. \A c \in Belege \ {r} : beleg[c].art = "rechnung" /\ beleg[c].status # "frei" => Gleich(c)
      BY <1>6, <1>7, <1>9, <1>10, <2>1, <3>1 DEF Gleich
    <3>10. QED
      BY <3>2, <3>8, <3>9, EineWeiter DEF Kontofolge
  <2>2. CASE beleg[g].art # "gutschrift"
    <3>1. UNCHANGED gutgeschrieben
      BY <1>9, <2>2 DEF Zaehlt
    <3>2. \A c \in Belege \ {g} : beleg[c].status # "frei" => Gleich(c)
      BY <1>6, <1>7, <1>9, <2>2, <3>1 DEF Gleich
    <3>3. Storniert(g)
      <4>1. gutgeschrieben[g] = 0
        BY <1>4, <1>12, KontoFakten
      <4>2. QED
        BY <1>5, <1>8, <1>9, <3>1, <4>1 DEF Storniert
    <3>4. QED
      BY <1>4, <3>2, <3>3, EineWeiter DEF Kontofolge
  <2>3. QED
    BY <2>1, <2>2
<1>14. GutschriftEcht'
  <2> SUFFICES ASSUME NEW h \in Belege, Zaehlt(h)'
               PROVE  /\ beleg'[h].brutto < 0
                      /\ beleg'[beleg'[h].bezug].art = "rechnung" /\ beleg'[beleg'[h].bezug].status \in Versandt
    BY DEF GutschriftEcht
  <2>1. h # g /\ Zaehlt(h) /\ h # s
    BY <1>7, <1>10 DEF Zaehlt
  <2>2. PICK b : b = beleg[h].bezug
    OBVIOUS
  <2>3. /\ beleg[h].brutto < 0 /\ beleg[b].art = "rechnung" /\ beleg[b].status \in Versandt /\ b \in Belege
    BY <2>1, <2>2, BelegFelder DEF Zaehlt, IKonto, KontenStimmen, GutschriftEcht
  <2>4. b # s /\ b # g
    BY <1>7, <1>12, <2>1, <2>2, <2>3 DEF Versandt, GutschriftenZu
  <2>5. Ruhig(h) /\ Ruhig(b)
    BY <1>6, <2>1, <2>3, <2>4
  <2>6. QED
    BY <2>2, <2>3, <2>5 DEF Ruhig
<1>15. RechnungBleibt'
  BY <1>6, <1>7, <1>8, KonstantenAnnahme DEF IKonto, KontenStimmen, RechnungBleibt, Ruhig, Versandt
<1>16. StatusGilt'
  BY <1>5, <1>6, <1>7, <1>8, <1>13, StatusSchritt DEF Ruhig, Versandt
<1>17. AbgerechnetHatGrund'
  <2>1. \A c \in Belege : beleg[c].art = "storno" => beleg'[c].art = "storno"
    BY <1>6, <1>7, <1>8 DEF Ruhig
  <2>2. QED
    BY <1>9, <2>1 DEF IKonto, KontenStimmen, AbgerechnetHatGrund
<1>18. QED
  BY <1>9, <1>10, <1>13, <1>14, <1>15, <1>16, <1>17, GezahltRuht DEF KontenStimmen

\* A step without deleting the job books once, or leaves the accounts alone.
Ruhe == \A b \in Belege : Gleich(b)

LEMMA KontoSchritt ==
  ASSUME IKonto, Einzeln, [Next]_vars
  PROVE  IKonto' /\ (EineBuchung \/ Ruhe)
<1> TypInv
  BY DEF IKonto, IStorno
<1>1. IInv' /\ IStorno'
  BY GutInduktiv, StornoSchritt DEF IKonto
<1>2. SUFFICES KontenStimmen' /\ KontoGelesen' /\ (EineBuchung \/ Ruhe)
  BY <1>1 DEF IKonto
<1>3. UNCHANGED daten => KontenStimmen' /\ Ruhe
  BY KontenRuhen DEF daten, Ruhe, Gleich
<1>4. CASE UNCHANGED vars
  BY <1>3, <1>4 DEF vars, daten, IKonto, KontoGelesen, Gelesen, VorGutschriftstorno, GutschriftenZu, Zaehlt
<1>5. ASSUME NEW b \in Belege, EntwurfStornieren(b) \/ Wiederherstellen(b)
      PROVE  KontenStimmen' /\ KontoGelesen' /\ Ruhe
  <2>1. UNCHANGED <<beleg, zahlung, gezahlt, gutgeschrieben, vorgang, anfrage>>
    BY <1>5 DEF EntwurfStornieren, Wiederherstellen, IKonto, IInv, ArtPasst
  <2>2. \A c \in Belege : beleg[c].art = "gutschrift" => (c \in papierkorb' <=> c \in papierkorb)
    BY <1>5 DEF EntwurfStornieren, Wiederherstellen, IKonto, IInv, ArtPasst
  <2>3. \A c \in Belege : beleg[c].art = "storno" => gemeldet'[c] = gemeldet[c]
    BY <1>5 DEF EntwurfStornieren, Wiederherstellen, IKonto, IStorno, Unbenutzt, TypInv, TypeOK
  <2>4. KontenStimmen' /\ \A c : GutschriftenZu(c)' = GutschriftenZu(c)
    BY <2>1, <2>2, <2>3, KontenRuhen
  <2>5. KontoGelesen'
    BY <2>1, <2>4 DEF IKonto, KontoGelesen, Gelesen, VorGutschriftstorno
  <2>6. QED
    BY <2>1, <2>4, <2>5 DEF Ruhe, Gleich
<1>6. ASSUME NEW a \in Anfragen, Beginn(a) \/ Schritt(a) \/ Abbruch(a)
      PROVE  KontenStimmen' /\ KontoGelesen' /\ (EineBuchung \/ Ruhe)
  <2>1. CASE Beginn(a)
    BY <1>3, <2>1, BeginnGeladen, BeginnGelesen DEF IKonto
  <2>2. CASE Zwischenschritt(a)
    BY <1>3, <2>2, ZwischenGeladen, ZwischenGelesen DEF IKonto
  <2>3. ASSUME Fertig(a) PROVE KontoGelesen'
    BY <2>3, DanachKeiner DEF KontoGelesen
  <2>4. CASE Geschrieben(a)
    <3>1. KontenStimmen' /\ EineBuchung
      BY <2>4, VersandBuchung, LoeschenBuchung, ZahlungBuchung, AbschlussBuchung, GegenBuchung, StornoBuchung,
         GutschriftBuchung DEF Geschrieben
    <3>2. QED
      BY <2>3, <2>4, <3>1, SchreibeFertig
  <2>5. CASE Fertig(a) /\ UNCHANGED daten
    BY <1>3, <2>3, <2>5
  <2>6. QED
    BY <1>6, <2>1, <2>2, <2>4, <2>5, SchrittArten
<1>7. QED
  BY <1>4, <1>5, <1>6 DEF Next

LEMMA KontoAnfang == Init => IKonto
<1> SUFFICES ASSUME Init PROVE IKonto
  OBVIOUS
<1>1. IInv /\ IStorno
  BY InitGut, StornoAnfang
<1>2. \A b \in Belege : ~Zaehlt(b)
  BY BelegAnfang DEF Zaehlt
<1>3. \A b \in Belege : GutschriftenZu(b) = {} /\ Eingaenge(b) = {}
  <2>1. \A z \in Buchungen : zahlung[z].beleg = Nichts
    BY DEF Init, Buchung
  <2>2. QED
    BY <1>2, <2>1, KonstantenAnnahme DEF GutschriftenZu, Eingaenge
<1>4. Summe(Einnahmen, {}) = 0 /\ Summe(Abzuege, {}) = 0
  BY FS_EmptySet, SummeFakten
<1>5. GezahltGilt /\ GutGilt
  BY <1>3, <1>4 DEF Init, GezahltGilt, GutGilt
<1>6. RechnungBleibt /\ StatusGilt
  BY BelegAnfang, KonstantenAnnahme DEF RechnungBleibt, StatusGilt, Stimmig, Versandt
<1>7. GeldEcht /\ GutschriftEcht /\ AbgerechnetHatGrund
  BY <1>2 DEF Init, Buchung, GeldEcht, GutschriftEcht, AbgerechnetHatGrund
<1>8. KontoGelesen
  BY KeineTyp DEF Init, KontoGelesen
<1>9. QED
  BY <1>1, <1>5, <1>6, <1>7, <1>8 DEF IKonto, KontenStimmen

-----------------------------------------------------------------------------
(***************************************************************************)
(* As long as no job is deleted, the ledger implements Forderung.          *)
(***************************************************************************)

LEMMA KontobuchFelder ==
  ASSUME ohneLoeschen, NEW b \in Rechnungen
  PROVE  /\ Kontobuch[b] = [status |-> beleg[b].status, gezahlt |-> gezahlt[b], gut |-> gutgeschrieben[b]]
         /\ Kontobuch[b].status = beleg[b].status /\ Kontobuch[b].gezahlt = gezahlt[b]
         /\ Kontobuch[b].gut = gutgeschrieben[b]
  BY DEF Kontobuch

LEMMA KontobuchFunktion ==
  Kontobuch = [b \in Rechnungen |-> Kontobuch[b]]
  BY DEF Kontobuch

\* One account changes.
LEMMA EinKonto ==
  ASSUME ohneLoeschen, ohneLoeschen', NEW b \in Rechnungen, \A c \in Rechnungen \ {b} : Gleich(c)
  PROVE  /\ Kontobuch' = [Kontobuch EXCEPT ![b] = Kontobuch'[b]]
         /\ Kontobuch'[b] = [status |-> beleg'[b].status, gezahlt |-> gezahlt'[b], gut |-> gutgeschrieben'[b]]
<1>1. \A c \in Rechnungen \ {b} : Kontobuch'[c] = Kontobuch[c]
  BY DEF Kontobuch, Gleich
<1>2. Kontobuch' = [c \in Rechnungen |-> Kontobuch'[c]]
  BY DEF Kontobuch
<1>3. Kontobuch'[b] = [status |-> beleg'[b].status, gezahlt |-> gezahlt'[b], gut |-> gutgeschrieben'[b]]
  BY DEF Kontobuch
<1>4. QED
  BY <1>1, <1>2, <1>3, KontobuchFunktion

LEMMA HauptbuchRuht ==
  ASSUME \A b \in Rechnungen : Gleich(b), ohneLoeschen' = ohneLoeschen
  PROVE  Kontobuch' = Kontobuch
  BY DEF Kontobuch, Gleich

\* A booking of the ledger is one of Forderung.
LEMMA HauptbuchBucht ==
  ASSUME IKonto, TypInv', ohneLoeschen, ohneLoeschen', NEW b \in Rechnungen, Gebucht(b),
         \A c \in Rechnungen \ {b} : Gleich(c)
  PROVE  HauptbuchOhneLoeschen!Next
<1> b \in Belege
  BY KonstantenAnnahme
<1>1. beleg[b].brutto = Betrag[b]
  BY DEF IKonto, KontenStimmen, RechnungBleibt
<1>2. PICK z : z = gezahlt'[b]
  OBVIOUS
<1>3. PICK g : g = gutgeschrieben'[b]
  OBVIOUS
<1>4. beleg'[b].status = HauptbuchOhneLoeschen!Regel(b, z, g)
  BY <1>1, <1>2, <1>3 DEF Gebucht, StatusRegel, HauptbuchOhneLoeschen!Regel
<1>5. HauptbuchOhneLoeschen!Buche(b, z, g)
  <2>1. Kontobuch'[b] = HauptbuchOhneLoeschen!Konto(HauptbuchOhneLoeschen!Regel(b, z, g), z, g)
    BY <1>2, <1>3, <1>4, EinKonto DEF HauptbuchOhneLoeschen!Konto
  <2>2. Kontobuch' = [Kontobuch EXCEPT ![b] = Kontobuch'[b]]
    BY EinKonto
  <2>3. QED
    BY <2>1, <2>2 DEF HauptbuchOhneLoeschen!Buche
<1>6. HauptbuchOhneLoeschen!Gueltig(b)
  BY KontobuchFelder DEF Gebucht, Versandt, HauptbuchOhneLoeschen!Gueltig
<1>7. /\ Kontobuch[b].gezahlt = gezahlt[b] /\ Kontobuch[b].gut = gutgeschrieben[b]
      /\ HauptbuchOhneLoeschen!Offen(b) = beleg[b].brutto - gezahlt[b] - gutgeschrieben[b]
  BY <1>1, KontobuchFelder DEF HauptbuchOhneLoeschen!Offen
<1>8. gezahlt[b] \in Nat /\ gutgeschrieben[b] \in Nat
  BY KontoFakten
<1>9. z \in Int /\ g \in Int
  BY <1>2, <1>3 DEF TypInv, TypeOK
<1>10. CASE g = gutgeschrieben[b] /\ z - gezahlt[b] \in 1..(beleg[b].brutto - gezahlt[b] - gutgeschrieben[b])
  <2>1. PICK n : n = z - gezahlt[b]
    OBVIOUS
  <2>2. n \in 1..HauptbuchOhneLoeschen!Offen(b) /\ z = gezahlt[b] + n
    BY <1>7, <1>8, <1>9, <1>10, <2>1
  <2>3. HauptbuchOhneLoeschen!Zahlung(b)
    BY <1>5, <1>6, <1>7, <1>10, <2>2 DEF HauptbuchOhneLoeschen!Zahlung
  <2>4. QED
    BY <2>3 DEF HauptbuchOhneLoeschen!Next
<1>11. CASE g = gutgeschrieben[b] /\ gezahlt[b] - z \in 1..gezahlt[b]
  <2>1. PICK n : n = gezahlt[b] - z
    OBVIOUS
  <2>2. n \in 1..gezahlt[b] /\ z = gezahlt[b] - n
    BY <1>8, <1>9, <1>11, <2>1
  <2>3. HauptbuchOhneLoeschen!Gegenbuchung(b)
    BY <1>5, <1>6, <1>7, <1>11, <2>2 DEF HauptbuchOhneLoeschen!Gegenbuchung
  <2>4. QED
    BY <2>3 DEF HauptbuchOhneLoeschen!Next
<1>12. CASE z = gezahlt[b] /\ g - gutgeschrieben[b] \in 1..(beleg[b].brutto - gutgeschrieben[b])
  <2>1. PICK n : n = g - gutgeschrieben[b]
    OBVIOUS
  <2>2. n \in 1..(Betrag[b] - gutgeschrieben[b]) /\ g = gutgeschrieben[b] + n
    BY <1>1, <1>8, <1>9, <1>12, <2>1
  <2>3. HauptbuchOhneLoeschen!Gutschrift(b)
    BY <1>5, <1>6, <1>7, <1>12, <2>2 DEF HauptbuchOhneLoeschen!Gutschrift
  <2>4. QED
    BY <2>3 DEF HauptbuchOhneLoeschen!Next
<1>13. CASE z = gezahlt[b] /\ gutgeschrieben[b] - g \in 1..gutgeschrieben[b]
  <2>1. PICK n : n = gutgeschrieben[b] - g
    OBVIOUS
  <2>2. n \in 1..gutgeschrieben[b] /\ g = gutgeschrieben[b] - n
    BY <1>8, <1>9, <1>13, <2>1
  <2>3. HauptbuchOhneLoeschen!GutschriftStorno(b)
    BY <1>5, <1>6, <1>7, <1>13, <2>2 DEF HauptbuchOhneLoeschen!GutschriftStorno
  <2>4. QED
    BY <2>3 DEF HauptbuchOhneLoeschen!Next
<1>14. QED
  BY <1>2, <1>3, <1>10, <1>11, <1>12, <1>13 DEF Gebucht

LEMMA HauptbuchFolgt ==
  ASSUME IKonto, TypInv', ohneLoeschen, ohneLoeschen', NEW b \in Rechnungen, Kontofolge(b),
         \A c \in Rechnungen \ {b} : Gleich(c)
  PROVE  [HauptbuchOhneLoeschen!Next]_Kontobuch
<1>1. CASE Gleich(b)
  BY <1>1, HauptbuchRuht
<1>2. CASE Versendet(b)
  <2>1. Kontobuch'[b] = [Kontobuch[b] EXCEPT !.status = "versendet"]
    <3>1. Kontobuch'[b] = [status |-> "versendet", gezahlt |-> gezahlt[b], gut |-> gutgeschrieben[b]]
      BY <1>2, EinKonto DEF Versendet
    <3>2. PICK k : k = Kontobuch[b]
      OBVIOUS
    <3>3. k = [status |-> beleg[b].status, gezahlt |-> gezahlt[b], gut |-> gutgeschrieben[b]]
      BY <3>2, KontobuchFelder
    <3>4. [k EXCEPT !.status = "versendet"] = [status |-> "versendet", gezahlt |-> gezahlt[b], gut |-> gutgeschrieben[b]]
      BY <3>3
    <3>5. QED
      BY <3>1, <3>2, <3>4
  <2>2. Kontobuch' = [Kontobuch EXCEPT ![b].status = "versendet"]
    BY <2>1, EinKonto, KontobuchFunktion
  <2>3. Kontobuch[b].status = "entwurf"
    BY <1>2, KontobuchFelder DEF Versendet
  <2>4. HauptbuchOhneLoeschen!Versenden(b)
    BY <2>2, <2>3 DEF HauptbuchOhneLoeschen!Versenden
  <2>5. QED
    BY <2>4 DEF HauptbuchOhneLoeschen!Next
<1>3. CASE Gebucht(b)
  BY <1>3, HauptbuchBucht
<1>4. CASE Storniert(b)
  <2>1. Kontobuch'[b] = [Kontobuch[b] EXCEPT !.status = "storniert"]
    <3>1. Kontobuch'[b] = [status |-> "storniert", gezahlt |-> gezahlt[b], gut |-> gutgeschrieben[b]]
      BY <1>4, EinKonto DEF Storniert
    <3>2. PICK k : k = Kontobuch[b]
      OBVIOUS
    <3>3. k = [status |-> beleg[b].status, gezahlt |-> gezahlt[b], gut |-> gutgeschrieben[b]]
      BY <3>2, KontobuchFelder
    <3>4. [k EXCEPT !.status = "storniert"] = [status |-> "storniert", gezahlt |-> gezahlt[b], gut |-> gutgeschrieben[b]]
      BY <3>3
    <3>5. QED
      BY <3>1, <3>2, <3>4
  <2>2. Kontobuch' = [Kontobuch EXCEPT ![b].status = "storniert"]
    BY <2>1, EinKonto, KontobuchFunktion
  <2>3. Kontobuch[b].status \in Versandt /\ Kontobuch[b].gut = 0
    BY <1>4, KontobuchFelder DEF Storniert
  <2>4. HauptbuchOhneLoeschen!Storno(b)
    BY <2>2, <2>3 DEF Versandt, HauptbuchOhneLoeschen!Storno, HauptbuchOhneLoeschen!Gueltig
  <2>5. QED
    BY <2>4 DEF HauptbuchOhneLoeschen!Next
<1>5. QED
  BY <1>1, <1>2, <1>3, <1>4 DEF Kontofolge

LEMMA HauptbuchSchritt ==
  ASSUME IKonto, TypInv', ohneLoeschen, ohneLoeschen', EineBuchung \/ Ruhe
  PROVE  [HauptbuchOhneLoeschen!Next]_Kontobuch
<1>1. \A b \in Rechnungen : b \in Belege /\ beleg[b].art = "rechnung" /\ beleg[b].status # "frei"
  BY KonstantenAnnahme DEF IKonto, KontenStimmen, RechnungBleibt
<1>2. CASE Ruhe
  BY <1>1, <1>2, HauptbuchRuht DEF Ruhe
<1>3. CASE EineBuchung
  <2>1. PICK b \in Belege :
          /\ beleg[b].art = "rechnung" /\ beleg[b].status # "frei" => Kontofolge(b)
          /\ \A c \in Belege \ {b} : beleg[c].art = "rechnung" /\ beleg[c].status # "frei" => Gleich(c)
    BY <1>3 DEF EineBuchung
  <2>2. CASE b \in Rechnungen
    BY <1>1, <2>1, <2>2, HauptbuchFolgt
  <2>3. CASE b \notin Rechnungen
    BY <1>1, <2>1, <2>3, HauptbuchRuht
  <2>4. QED
    BY <2>2, <2>3
<1>4. QED
  BY <1>2, <1>3

-----------------------------------------------------------------------------
(***************************************************************************)
(* The behaviours of MCBelegePapierkorb.                                   *)
(***************************************************************************)

mcvars == <<teil, ohneLoeschen, allevars, erVars>>

MCInv == IStorno /\ IEr /\ (ohneLoeschen => IKonto)

LEMMA MCAnfang == MCInit => MCInv /\ HauptbuchOhneLoeschen!Init
<1> SUFFICES ASSUME MCInit PROVE MCInv /\ HauptbuchOhneLoeschen!Init
  OBVIOUS
<1>1. Init /\ ErInit
  BY DEF MCInit, InitP
<1>2. MCInv
  BY <1>1, StornoAnfang, KontoAnfang, ErStart DEF MCInv
<1>3. \A b \in Rechnungen : beleg[b].status = "entwurf" /\ gezahlt[b] = 0 /\ gutgeschrieben[b] = 0
  BY <1>1, BelegAnfang, KonstantenAnnahme DEF Init
<1>4. HauptbuchOhneLoeschen!Init
  BY <1>3 DEF HauptbuchOhneLoeschen!Init, HauptbuchOhneLoeschen!Konto, Kontobuch
<1>5. QED
  BY <1>2, <1>4

LEMMA MCSchritt ==
  ASSUME Einzeln, MCInv, [MCNext]_mcvars
  PROVE  MCInv' /\ [HauptbuchOhneLoeschen!Next]_Kontobuch
<1>1. ohneLoeschen' = ohneLoeschen /\ [ErNext]_erVars
  BY DEF MCNext, mcvars
<1>2. IEr'
  BY <1>1, ErSchritt DEF MCInv
<1>3. CASE [Next]_vars
  <2>1. IStorno'
    BY <1>3, StornoSchritt DEF MCInv
  <2>2. CASE ohneLoeschen
    <3>1. IKonto' /\ (EineBuchung \/ Ruhe)
      BY <1>3, <2>2, KontoSchritt DEF MCInv
    <3>2. QED
      BY <1>1, <1>2, <2>1, <2>2, <3>1, HauptbuchSchritt DEF MCInv, IStorno
  <2>3. CASE ~ohneLoeschen
    BY <1>1, <1>2, <2>1, <2>3 DEF MCInv, Kontobuch
  <2>4. QED
    BY <2>2, <2>3
<1>4. CASE ~ohneLoeschen /\ VorgangLoeschen
  BY <1>1, <1>2, <1>4, StornoLoeschen DEF MCInv, Kontobuch
<1>5. QED
  BY <1>3, <1>4 DEF MCNext, Posten, mcvars, allevars

LEMMA ErTypFolgt == IEr => ErTyp
<1> SUFFICES ASSUME IEr PROVE ErTyp
  OBVIOUS
<1>1. /\ \A e \in Eingangsrechnungen : rechnung[e] \in Zeilen
      /\ objekte \subseteq Eingangsrechnungen \X (0..MaxBelege)
      /\ \A a \in ErAnfragen :
           bearbeitung[a].art \in Aenderungen \cup Belegarten \cup {"import", Leer} /\ bearbeitung[a].alt \in Zeilen
  BY ErFakten
<1>2. \A a \in ErAnfragen : bearbeitung[a].zeile \in Eingangsrechnungen \cup {Leer}
  BY ErFakten DEF ErAnfrageTyp
<1>3. PICK n : n = Cardinality(DOMAIN postfach)
  OBVIOUS
<1>4. n \in 0..MaxPost /\ DOMAIN postfach = 1..n /\ ausfaelle \in 0..MaxAusfaelle
      /\ \A u \in DOMAIN postfach : postfach[u] \in Anhaenge
  BY <1>3 DEF IEr, ErZustand
<1>5. DOMAIN postfach \subseteq 1..MaxPost /\ grenze \in 0..MaxPost
  BY <1>4, ErGroessen DEF IEr, PostGilt
<1>6. eingang.offen \subseteq DOMAIN postfach
  <2>1. CASE eingang.laeuft
    <3>1. eingang.offen \subseteq 1..eingang.bis /\ eingang.bis \in 1..n
      BY <1>4, <2>1 DEF IEr, PostGilt
    <3>2. 1..eingang.bis \subseteq 1..n
      BY <1>4, <3>1
    <3>3. QED
      BY <1>4, <3>1, <3>2
  <2>2. CASE ~eingang.laeuft
    BY <2>2 DEF IEr, PostGilt, Ruht
  <2>3. QED
    BY <2>1, <2>2
<1>7. DOMAIN eingang.zeilen \subseteq {e \in Eingangsrechnungen : rechnung[e] = KeineZeile}
  BY ErFakten DEF IEr, ZeilenGelten
<1>8. QED
  BY <1>1, <1>2, <1>4, <1>5, <1>6, <1>7 DEF ErTyp

LEMMA MCFolgt == MCInv => BelegeStimmen
<1> SUFFICES ASSUME MCInv PROVE BelegeStimmen
  OBVIOUS
<1>1. TypeOK /\ GenauEinStorno
  BY StornoFolgt DEF MCInv, IStorno, TypInv
<1>2. ErTyp
  BY ErTypFolgt DEF MCInv
<1>3. ohneLoeschen => AbgerechnetHatGrund
  BY DEF MCInv, IKonto, KontenStimmen
<1>4. QED
  BY <1>1, <1>2, <1>3 DEF BelegeStimmen

(***************************************************************************)
(* One request at a time, for any number of invoices, documents and        *)
(* payments: every cancelled document has exactly one counter-document of  *)
(* the opposite amount, and as long as no job is deleted only money, or a  *)
(* counter-document marked as paid, settles the job (BelegeStimmen).       *)
(***************************************************************************)
THEOREM BelegeBleibenStimmig ==
  ASSUME Einzeln
  PROVE  MCSpec => []BelegeStimmen
<1>1. MCInv /\ [MCNext]_mcvars => MCInv'
  BY MCSchritt
<1>2. QED
  BY <1>1, MCAnfang, MCFolgt, PTL DEF MCSpec, mcvars

(***************************************************************************)
(* One request at a time the ledger implements Forderung: each commit is   *)
(* one booking, within what is open, and the status is the one the amounts *)
(* call for (ForderungOhneLoeschen).                                       *)
(***************************************************************************)
THEOREM LedgerImplementiertForderung ==
  ASSUME Einzeln
  PROVE  MCSpec => ForderungOhneLoeschen
<1>1. MCInv /\ [MCNext]_mcvars => MCInv' /\ [HauptbuchOhneLoeschen!Next]_Kontobuch
  BY MCSchritt
<1>2. QED
  BY <1>1, MCAnfang, PTL DEF MCSpec, mcvars, ForderungOhneLoeschen, HauptbuchOhneLoeschen!Spec
=============================================================================
