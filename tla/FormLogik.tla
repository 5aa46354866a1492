----------------------------- MODULE FormLogik -----------------------------
(***************************************************************************)
(* Rules of a form (form modul v2).  The rules are evaluated twice: by     *)
(* services/form_logic_engine.py when the form is completed, and by        *)
(* frontend/src/utils/formLogicEngine.ts while it is filled in.  Both are  *)
(* translated here with the meaning Python and JavaScript give to          *)
(* comparison, membership and missing keys, and run on the same rules and  *)
(* answers.  Rules are edited by routes/form_modul.py, answers come from   *)
(* FormFieldRenderer.tsx, one group of fields is repeated row by row.      *)
(***************************************************************************)
EXTENDS Integers, FiniteSets, Sequences, SequencesExt

CONSTANTS
  Felder,          \* keys of the root fields
  Gruppenfelder,   \* keys of the fields of the group
  Gruppe,          \* key of the group itself
  Pflicht,         \* fields with pflichtfeld
  Antworten,       \* the answers the input of a field can produce
  Regeln,          \* rules an editor may save
  MaxRegeln,       \* rules of the form
  MaxZeilen,       \* rows of the group
  MaxRedakteure,   \* editors that save a rule at the same time
  Literal          \* a rule sets a literal, not the value of a field

\* An answer or literal.  Texts are numbered in lexicographic order: 0 is the empty
\* text, 1 .. MaxZahlText read as these numbers, larger ones are words; none but the
\* empty one is a part of another.
Wert == [art : {"fehlt", "text", "zahl", "bool", "liste"}, w : Nat, m : SUBSET Nat]
Fehlt == [art |-> "fehlt", w |-> 0, m |-> {}]
Text(n) == [art |-> "text", w |-> n, m |-> {}]
Zahl(n) == [art |-> "zahl", w |-> n, m |-> {}]
Bool(b) == [art |-> "bool", w |-> IF b THEN 1 ELSE 0, m |-> {}]
Liste(s) == [art |-> "liste", w |-> 0, m |-> s]
MaxZahlText == 2

Klausel == [feld : Felder \cup Gruppenfelder, op : {"==", "!=", "<", "in", "enthaelt"},
            wert : Wert \ {Fehlt}, werte : SUBSET Nat]
Regel == [ziel : Felder \cup Gruppenfelder \cup {Gruppe}, folge : Nat, sicht : {"alle", "capture", "summary"},
          effekt : {"show", "hide", "require", "readonly", "set_value"},
          alle : BOOLEAN, klauseln : Seq(Klausel),
          quelle : Felder \cup Gruppenfelder \cup {Literal}, wert : Wert]

ASSUME FormAnnahme ==
  /\ IsFiniteSet(Felder) /\ IsFiniteSet(Gruppenfelder) /\ Felder \cap Gruppenfelder = {}
  /\ Gruppe \notin Felder \cup Gruppenfelder
  /\ Pflicht \subseteq Felder \cup Gruppenfelder
  /\ \A f \in Felder \cup Gruppenfelder : Antworten[f] \subseteq Wert
  /\ \A r \in Regeln : r \in Regel
  /\ \A r, s \in Regeln : r.folge = s.folge => r = s
  /\ {MaxRegeln, MaxZeilen, MaxRedakteure} \subseteq Nat /\ MaxRedakteure >= 1

VARIABLES
  regeln,       \* form_logic_rules of the schema
  pruefung,     \* rules checked for a circle, not inserted yet
  redakteure,   \* editors at work in this behaviour
  wurzel,       \* values[key] of the root fields
  zeilen,       \* values[Gruppe]
  ausfuellung   \* status of the submission

foVars == <<regeln, pruefung, redakteure, wurzel, zeilen, ausfuellung>>

FoTyp ==
  /\ regeln \subseteq Regeln /\ pruefung \subseteq Regeln
  /\ redakteure \in 1..MaxRedakteure
  /\ wurzel \in [Felder -> Wert]
  /\ zeilen \in Seq([Gruppenfelder -> Wert]) /\ Len(zeilen) =< MaxZeilen
  /\ ausfuellung \in {"keine", "offen", "abgeschlossen", "verworfen"}

-----------------------------------------------------------------------------
(* The two languages.  A clause is "ja", "nein" or stops with "fehler".     *)

Urteil(b) == IF b THEN "ja" ELSE "nein"

\* Python: equality by value, 1 == True; < only between texts or between numbers.
PyGleich(a, b) ==
  \/ a = b
  \/ {a.art, b.art} = {"zahl", "bool"} /\ a.w = b.w
PyZahl(a) == a.art \in {"zahl", "bool"}
PyKleiner(a, b) ==
  IF (a.art = "text" /\ b.art = "text") \/ (PyZahl(a) /\ PyZahl(b)) THEN Urteil(a.w < b.w) ELSE "fehler"
PyEnthaelt(v, a) ==
  CASE v.art = "liste" -> Urteil(a.art = "text" /\ a.w \in v.m)
    [] v.art = "text" /\ a.art = "text" -> Urteil(a.w \in {0, v.w})
    [] OTHER -> "fehler"

\* Mutant: == instead of ===, which takes a missing answer for the empty one.
JsGleichLocker(a, b) == a = b \/ {a, b} = {Fehlt, Text(0)}

\* JavaScript: === compares the type as well, < converts to numbers unless both are
\* texts, and a text that is no number compares as false.
JsGleich(a, b) == a = b /\ a.art # "liste"
JsIstZahl(a) == a.art \in {"zahl", "bool"} \/ (a.art = "text" /\ a.w =< MaxZahlText)
JsKleiner(a, b) == Urteil(/\ (a.art = "text" /\ b.art = "text") \/ (JsIstZahl(a) /\ JsIstZahl(b))
                          /\ a.w < b.w)
JsEnthaelt(v, a) ==
  CASE v.art = "liste" -> Urteil(a.art = "text" /\ a.w \in v.m)
    [] v.art = "text" -> Urteil(\/ a.art = "text" /\ a.w \in {0, v.w}
                                \/ a.art = "zahl" /\ a.w = v.w /\ a.w \in 1..MaxZahlText)
    [] OTHER -> "fehler"

PyKlausel(k, v) ==
  CASE k.op = "==" -> Urteil(PyGleich(v, k.wert))
    [] k.op = "!=" -> Urteil(~PyGleich(v, k.wert))
    [] k.op = "<" -> PyKleiner(v, k.wert)
    [] k.op = "in" -> Urteil(v.art = "text" /\ v.w \in k.werte)
    [] OTHER -> PyEnthaelt(v, k.wert)

JsKlausel(k, v) ==
  CASE k.op = "==" -> Urteil(JsGleich(v, k.wert))
    [] k.op = "!=" -> Urteil(~JsGleich(v, k.wert))
    [] k.op = "<" -> JsKleiner(v, k.wert)
    [] k.op = "in" -> Urteil(v.art = "text" /\ v.w \in k.werte)
    [] OTHER -> JsEnthaelt(v, k.wert)

Sprachen == {"python", "javascript"}
KlauselUrteil(sprache, k, ctx) ==
  IF sprache = "python" THEN PyKlausel(k, ctx[k.feld]) ELSE JsKlausel(k, ctx[k.feld])

\* and / or: from the left, up to the first clause that decides.
Bedingung(sprache, r, ctx) ==
  LET urteil(i) == KlauselUrteil(sprache, r.klauseln[i], ctx)
      weiter == IF r.alle THEN "ja" ELSE "nein"
      entscheidend == {i \in DOMAIN r.klauseln : urteil(i) # weiter}
  IN IF entscheidend = {} THEN (IF r.klauseln = <<>> THEN "ja" ELSE weiter)
     ELSE urteil(CHOOSE i \in entscheidend : \A j \in entscheidend : i =< j)

\* The copy of the values that the rules work on is made entry by entry: dict(row)
\* fails on the words of a multiple choice, { ...row } makes objects of them.
Kopie(sprache, werte) ==
  [f \in DOMAIN werte |->
     IF werte[f].art = "liste" /\ sprache = "javascript" THEN Liste({}) ELSE werte[f]]
Kopierbar(sprache, werte) ==
  sprache = "python" => \A f \in DOMAIN werte : werte[f].art = "liste" => werte[f].m = {}

-----------------------------------------------------------------------------
(* detect_cycles() and apply_rules(). *)

Gelesen(r) == {r.klauseln[i].feld : i \in DOMAIN r.klauseln} \cup ({r.quelle} \ {Literal})
Setzt(rs) == {r \in rs : r.effekt = "set_value"}
\* Fields on which the value of ziel depends, itself left out.
Quellen(rs, ziel) ==
  ((UNION {Gelesen(r) : r \in {s \in Setzt(rs) : s.ziel = ziel}}) \cap {s.ziel : s \in Setzt(rs)}) \ {ziel}
Zyklus(rs) ==
  LET ziele == {r.ziel : r \in Setzt(rs)}
      hinter[n \in 0..Cardinality(ziele)] ==
        IF n = 0 THEN [z \in ziele |-> Quellen(rs, z)]
        ELSE [z \in ziele |-> hinter[n - 1][z] \cup UNION {hinter[n - 1][y] : y \in hinter[n - 1][z]}]
  IN \E z \in ziele : z \in hinter[Cardinality(ziele)][z]

Grundzustand == [visible |-> TRUE, required |-> FALSE, readonly |-> FALSE]
MitEffekt(zustand, effekt, aktiv) ==
  CASE effekt = "show" -> [zustand EXCEPT !.visible = aktiv]
    [] effekt = "hide" -> [zustand EXCEPT !.visible = ~aktiv]
    [] effekt = "require" -> [zustand EXCEPT !.required = aktiv]
    [] effekt = "readonly" -> [zustand EXCEPT !.readonly = aktiv]
    [] OTHER -> zustand

\* States are kept per path: a key, or a row and a key of the group.
Pfade(n) == {<<0, f>> : f \in Felder \cup {Gruppe}} \cup ((1..n) \X Gruppenfelder)

\* The steps of an evaluation: a rule works on the root (row 0), or on each row of its group.
Schritte(rs, sicht, n) ==
  UNION {{r} \X (IF r.ziel \in Gruppenfelder THEN 1..n ELSE {0}) : r \in {s \in rs : s.sicht \in {"alle", sicht}}}

InFolge(rs, sicht, n) ==
  LET alle == Schritte(rs, sicht, n)
      vor(a, b) == a[1].folge < b[1].folge \/ (a[1] = b[1] /\ a[2] < b[2])
  IN CHOOSE q \in [1..Cardinality(alle) -> alle] : \A i, j \in DOMAIN q : i < j => vor(q[i], q[j])

\* What a rule sees: the root fields, and in a row also those of the row.
Kontext(stand, zeile) ==
  [f \in Felder \cup Gruppenfelder |->
     IF f \in Felder THEN stand.wurzel[f] ELSE IF zeile = 0 THEN Fehlt ELSE stand.zeilen[zeile][f]]

RegelWirkt(sprache, stand, r, zeile) ==
  LET ctx == Kontext(stand, zeile)
      aktiv == Bedingung(sprache, r, ctx)
      neu == IF r.quelle = Literal THEN r.wert ELSE ctx[r.quelle]
  IN IF ~stand.ok \/ aktiv = "fehler" THEN [stand EXCEPT !.ok = FALSE]
     ELSE IF r.effekt # "set_value"
       THEN [stand EXCEPT !.zustand[<<zeile, r.ziel>>] = MitEffekt(@, r.effekt, aktiv = "ja")]
     ELSE IF aktiv = "nein" \/ r.ziel = Gruppe THEN stand
     ELSE IF zeile = 0 THEN [stand EXCEPT !.wurzel[r.ziel] = neu]
     ELSE [stand EXCEPT !.zeilen[zeile][r.ziel] = neu]

Anfang(sprache, rs, werte, reihen) ==
  [ok |-> ~Zyklus(rs) /\ Kopierbar(sprache, werte), zustand |-> [p \in Pfade(Len(reihen)) |-> Grundzustand],
   wurzel |-> Kopie(sprache, werte), zeilen |-> reihen]

\* What there is after each step.
Verlauf(sprache, anfang, q) ==
  LET nach[n \in 0..Len(q)] ==
        IF n = 0 THEN anfang ELSE RegelWirkt(sprache, nach[n - 1], q[n][1], q[n][2])
  IN nach

Auswertung(sprache, rs, sicht, werte, reihen) ==
  LET q == InFolge(rs, sicht, Len(reihen))
  IN Verlauf(sprache, Anfang(sprache, rs, werte, reihen), q)[Len(q)]

Leer(v) == v.art = "fehlt" \/ (v.art \in {"text", "zahl", "bool"} /\ v.w = 0) \/ (v.art = "liste" /\ v.m = {})

\* Mutant: the rows of the group are not looked at.
FehlendNurWurzel(zustand) ==
  {<<0, f>> : f \in {g \in Felder : /\ zustand[<<0, g>>].visible /\ Leer(wurzel[g])
                                    /\ g \in Pflicht \/ zustand[<<0, g>>].required}}

\* _missing_pflichtfelder(): judged on the stored values, not on the computed ones.
Fehlend(zustand) ==
  LET verlangt(p) == zustand[p].visible /\ (p[2] \in Pflicht \/ zustand[p].required)
  IN {p \in Pfade(Len(zeilen)) : /\ p[2] # Gruppe
                                 /\ p[2] \in Gruppenfelder => zustand[<<0, Gruppe>>].visible
                                 /\ verlangt(p)
                                 /\ Leer(IF p[1] = 0 THEN wurzel[p[2]] ELSE zeilen[p[1]][p[2]])}

-----------------------------------------------------------------------------
FoInit ==
  /\ regeln = {} /\ pruefung = {}
  /\ redakteure \in 1..MaxRedakteure
  /\ wurzel = [f \in Felder |-> Fehlt]
  /\ zeilen = <<>>
  /\ ausfuellung = "keine"

\* create_rule() up to detect_cycles(); the insert follows at the commit.
RegelPruefen(r) ==
  /\ Cardinality(pruefung) < redakteure /\ Cardinality(regeln \cup pruefung) < MaxRegeln
  /\ r \notin regeln \cup pruefung
  /\ ~Zyklus(regeln \cup {r})
  /\ pruefung' = pruefung \cup {r}
  /\ UNCHANGED <<regeln, redakteure, wurzel, zeilen, ausfuellung>>

RegelSpeichern(r) ==
  /\ r \in pruefung
  /\ pruefung' = pruefung \ {r}
  /\ regeln' = regeln \cup {r}
  /\ UNCHANGED <<redakteure, wurzel, zeilen, ausfuellung>>

\* update_rule() and delete_rule().
RegelAendern(r, neu) ==
  /\ r \in regeln /\ neu \notin regeln \cup pruefung
  /\ redakteure > 1 \/ pruefung = {}
  /\ ~Zyklus((regeln \ {r}) \cup {neu})
  /\ regeln' = (regeln \ {r}) \cup {neu}
  /\ UNCHANGED <<pruefung, redakteure, wurzel, zeilen, ausfuellung>>

RegelLoeschen(r) ==
  /\ r \in regeln
  /\ redakteure > 1 \/ pruefung = {}
  /\ regeln' = regeln \ {r}
  /\ UNCHANGED <<pruefung, redakteure, wurzel, zeilen, ausfuellung>>

\* start_submission().
Beginnen ==
  /\ ausfuellung = "keine"
  /\ ausfuellung' = "offen"
  /\ UNCHANGED <<regeln, pruefung, redakteure, wurzel, zeilen>>

\* update_submission_values() with what the inputs of the form produce.
Speichern ==
  /\ ausfuellung = "offen"
  /\ \/ \E f \in Felder : \E v \in Antworten[f] : wurzel' = [wurzel EXCEPT ![f] = v] /\ UNCHANGED zeilen
     \/ \E i \in DOMAIN zeilen, f \in Gruppenfelder : \E v \in Antworten[f] :
          zeilen' = [zeilen EXCEPT ![i][f] = v] /\ UNCHANGED wurzel
     \/ /\ Len(zeilen) < MaxZeilen
        /\ zeilen' = Append(zeilen, [f \in Gruppenfelder |-> Fehlt]) /\ UNCHANGED wurzel
     \/ \E i \in DOMAIN zeilen : zeilen' = RemoveAt(zeilen, i) /\ UNCHANGED wurzel
  /\ UNCHANGED <<regeln, pruefung, redakteure, ausfuellung>>

\* abschliessen_submission(): the request fails when the evaluation does.
Abschliessen ==
  LET ergebnis == Auswertung("python", regeln, "capture", wurzel, zeilen)
  IN /\ ausfuellung = "offen"
     /\ ergebnis.ok /\ Fehlend(ergebnis.zustand) = {}
     /\ ausfuellung' = "abgeschlossen"
     /\ UNCHANGED <<regeln, pruefung, redakteure, wurzel, zeilen>>

Verwerfen ==
  /\ ausfuellung = "offen"
  /\ ausfuellung' = "verworfen"
  /\ wurzel' = [f \in Felder |-> Fehlt] /\ zeilen' = <<>>
  /\ UNCHANGED <<regeln, pruefung, redakteure>>

FoNext ==
  \/ \E r \in Regeln :
       \/ RegelPruefen(r) \/ RegelSpeichern(r) \/ RegelLoeschen(r)
       \/ \E neu \in Regeln : RegelAendern(r, neu)
  \/ Beginnen \/ Speichern \/ Abschliessen \/ Verwerfen

FoSpec == FoInit /\ [][FoNext]_foVars

-----------------------------------------------------------------------------
\* The rules of a form never set values in a circle (one editor at a time): the form
\* could neither be shown nor completed any more.
RegelnZyklusfrei == redakteure = 1 => ~Zyklus(regeln)

\* Both engines decide alike, as form_logic_engine.py:7 and formLogicEngine.ts:7 say:
\* the same states and values, or both refuse.
EnginesGleich ==
  ausfuellung = "offen" =>
    LET py == Auswertung("python", regeln, "capture", wurzel, zeilen)
        js == Auswertung("javascript", regeln, "capture", wurzel, zeilen)
    IN py.ok = js.ok /\ (py.ok => py = js)

\* The values a field may have in the course of an evaluation.
Moeglich(f) ==
  LET setzer == {r \in Setzt(regeln) : r.ziel = f}
      antwort == IF f \in Felder THEN {wurzel[f]} ELSE {Fehlt} \cup {zeilen[i][f] : i \in DOMAIN zeilen}
      alle == {wurzel[g] : g \in Felder} \cup {Fehlt} \cup {r.wert : r \in Setzt(regeln)}
                \cup {zeilen[p[1]][p[2]] : p \in (DOMAIN zeilen) \X Gruppenfelder}
  IN IF \E r \in setzer : r.quelle # Literal THEN alle ELSE antwort \cup {r.wert : r \in setzer}

\* Of these kinds of values the two languages have the same opinion.
Vergleichbar(op, v, w) ==
  CASE op \in {"==", "!="} -> w # "liste" /\ {v, w} # {"zahl", "bool"}
    [] op = "<" -> {v, w} = {"text"} \/ {v, w} \subseteq {"zahl", "bool"}
    [] op = "enthaelt" -> v = "text" => w = "text"
    [] OTHER -> TRUE

\* ... which is true where no multiple choice is filled in and no clause compares what
\* the languages compare differently: true with a number, a number with a text.
Typgerecht ==
  /\ \A f \in Felder : wurzel[f].art = "liste" => wurzel[f] = Liste({})
  /\ \A r \in regeln : \A i \in DOMAIN r.klauseln :
       LET k == r.klauseln[i] IN \A v \in Moeglich(k.feld) : Vergleichbar(k.op, v.art, k.wert.art)
EngineGleichWennTypgerecht == Typgerecht => EnginesGleich

\* One pass is enough: when every rule comes after the rules that set what it reads,
\* applying the rules to their own result changes nothing, neither values nor states.
EinDurchlaufGenuegt ==
  LET rs == {r \in regeln : r.sicht # "summary"}
      geordnet == \A r \in rs, s \in Setzt(rs) : s.ziel \in Gelesen(r) => s.folge < r.folge
      js == Auswertung("javascript", regeln, "capture", wurzel, zeilen)
  IN geordnet /\ js.ok => Auswertung("javascript", regeln, "capture", js.wurzel, js.zeilen) = js

\* A set of rules decides one thing: no circle, both engines the same, at once.
RegelnEindeutig == RegelnZyklusfrei /\ EngineGleichWennTypgerecht /\ EinDurchlaufGenuegt

\* What CaptureRenderer.tsx marks as required and leaves empty.
AngezeigtLeer ==
  LET js == Auswertung("javascript", regeln, "capture", wurzel, zeilen)
      sichtbar == {<<0, f>> : f \in Felder}
                    \cup (IF js.zustand[<<0, Gruppe>>].visible THEN (DOMAIN zeilen) \X Gruppenfelder ELSE {})
  IN {p \in sichtbar : /\ js.zustand[p].visible
                       /\ p[2] \in Pflicht \/ js.zustand[p].required
                       /\ Leer(IF p[1] = 0 THEN wurzel[p[2]] ELSE zeilen[p[1]][p[2]])}

\* Nothing the page shows as required is empty in a form that is completed, as long as
\* both engines agree: the server checks what the user sees.
PflichtWieAngezeigt ==
  [][Abschliessen /\ Typgerecht => AngezeigtLeer = {}]_foVars
=============================================================================
