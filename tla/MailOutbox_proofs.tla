------------------------- MODULE MailOutbox_proofs -------------------------
(***************************************************************************)
(* Proofs about the mail: the outbox, and the mailbox sync beside it.      *)
(***************************************************************************)
EXTENDS MCMailOutbox, FiniteSetTheorems, NaturalsInduction, WellFoundedInduction, TLAPS

-----------------------------------------------------------------------------
(***************************************************************************)
(* Type correctness.                                                       *)
(***************************************************************************)

LEMMA StandTyp ==
  ASSUME NEW s \in Status, NEW v \in Nat, NEW r \in (-MaxAlter)..MaxAlter, NEW a \in 0..MaxAlter
  PROVE  Stand(s, v, r, a) \in Zeile /\ Stand(s, v, r, a).status = s
  BY DEF Stand, Zeile

LEMMA NullTyp == 0 \in (-MaxAlter)..MaxAlter /\ 0 \in 0..MaxAlter
  BY KonstantenAnnahme

\* A row with a new status and the old number of tries.
LEMMA StandNullTyp ==
  ASSUME TypeOK, NEW m \in Mails, NEW s \in Status
  PROVE  Stand(s, zeile[m].versuche, 0, 0) \in Zeile
<1>1. zeile[m].versuche \in Nat
  BY DEF TypeOK, Zeile
<1>2. QED
  BY <1>1, NullTyp, StandTyp

LEMMA InitTyp == Init => TypeOK
<1>1. 0 \in (-MaxAlter)..MaxAlter /\ 0 \in 0..MaxAlter
  BY KonstantenAnnahme
<1>2. QED
  BY <1>1, KonstantenAnnahme
  DEF Init, TypeOK, Zeile, Stand, Status, LogStatus, WorkerZustand, Phase, Ergebnis, Ruhe

LEMMA RuheTyp == Ruhe \in WorkerZustand
  BY KonstantenAnnahme DEF Ruhe, WorkerZustand, Phase, Ergebnis

LEMMA WeiterTyp ==
  ASSUME TypeOK, NEW w \in Worker
  PROVE  Weiter(w) \in WorkerZustand
  BY RuheTyp DEF TypeOK, Weiter, WorkerZustand, Phase, Ergebnis


(***************************************************************************)
(* What a worker holds is consistent with where it is in its pass.         *)
(***************************************************************************)
Haltung ==
  \A w \in Worker :
    /\ worker[w].phase \in {"ruht", "bereinigt"} => worker[w].offen = {}
    /\ worker[w].phase \in {"schreibt", "loescht"} =>
         /\ worker[w].aktuell \in Mails
         /\ worker[w].aktuell \notin worker[w].offen
         /\ zeile[worker[w].aktuell].status # "keine"
    /\ \A m \in worker[w].offen : zeile[m].status # "keine"

TypInv == TypeOK /\ Haltung

LEMMA InitHaltung == Init => Haltung
  BY DEF Init, Haltung, Ruhe

LEMMA EinreihenTyp == ASSUME TypInv, NEW m \in Mails, Einreihen(m) PROVE TypInv'
<1>1. Stand("pending", 0, 0, 0) \in Zeile /\ Stand("pending", 0, 0, 0).status = "pending"
  BY StandTyp, NullTyp DEF Status
<1>2. TypeOK'
  BY <1>1 DEF TypInv, TypeOK, LogStatus, Einreihen, historie
<1>3. Haltung'
  BY <1>1 DEF TypInv, TypeOK, Haltung, WorkerZustand, Einreihen
<1>4. QED
  BY <1>2, <1>3 DEF TypInv

LEMMA WiederholenTyp == ASSUME TypInv, NEW m \in Mails, Wiederholen(m) PROVE TypInv'
<1>1. Stand("pending", 0, 0, 0) \in Zeile /\ Stand("pending", 0, 0, 0).status = "pending"
  BY StandTyp, NullTyp DEF Status
<1>2. TypeOK'
  BY <1>1 DEF TypInv, TypeOK, LogStatus, Wiederholen
<1>3. Haltung'
  BY <1>1 DEF TypInv, TypeOK, Haltung, WorkerZustand, Wiederholen
<1>4. QED
  BY <1>2, <1>3 DEF TypInv

LEMMA BereinigeTyp == ASSUME TypInv, NEW w \in Worker, Bereinige(w) PROVE TypInv'
<1>1. \A m \in Mails : Stand("failed", zeile[m].versuche, 0, 0) \in Zeile
  BY StandNullTyp DEF TypInv, Status
<1>2. \A m \in Mails : Stand("failed", zeile[m].versuche, 0, 0).status = "failed"
  BY DEF Stand
<1>3. TypeOK'
  BY <1>1 DEF TypInv, TypeOK, LogStatus, Bereinige, historie, WorkerZustand, Phase
<1>4. Haltung'
  BY <1>2 DEF TypInv, TypeOK, Haltung, WorkerZustand, Bereinige
<1>5. QED
  BY <1>3, <1>4 DEF TypInv

LEMMA BeansprucheTyp == ASSUME TypInv, NEW w \in Worker, Beanspruche(w) PROVE TypInv'
<1>1. PICK S \in Stapel(w) :
       /\ zeile' = [m \in Mails |->
                      IF m \in S
                      THEN Stand("sending", zeile[m].versuche + 1, 0, worker[w].alter)
                      ELSE zeile[m]]
       /\ worker' = [worker EXCEPT ![w] = IF S = {} THEN Ruhe
                                           ELSE [@ EXCEPT !.phase = "versendet", !.offen = S]]
  BY DEF Beanspruche
<1>2. S \subseteq Mails
  BY DEF Stapel, Faellig
<1>3. zeile' \in [Mails -> Zeile]
  <2>1. \A m \in Mails : zeile[m].versuche + 1 \in Nat
    BY DEF TypInv, TypeOK, Zeile
  <2>2. worker[w].alter \in 0..MaxAlter
    BY DEF TypInv, TypeOK, WorkerZustand
  <2>3. \A m \in Mails : Stand("sending", zeile[m].versuche + 1, 0, worker[w].alter) \in Zeile
    BY <2>1, <2>2, StandTyp, NullTyp DEF Status
  <2>4. QED
    BY <1>1, <2>3 DEF TypInv, TypeOK
<1>4. worker' \in [Worker -> WorkerZustand]
  BY <1>1, <1>2, RuheTyp DEF TypInv, TypeOK, WorkerZustand, Phase
<1>5. TypeOK'
  BY <1>3, <1>4 DEF TypInv, TypeOK, Beanspruche, historie
<1>6. Haltung'
  BY <1>1, <1>2 DEF TypInv, TypeOK, Haltung, Ruhe, WorkerZustand, Stand
<1>7. QED
  BY <1>5, <1>6 DEF TypInv

LEMMA VersuchTyp == ASSUME TypInv, NEW w \in Worker, Versuch(w) PROVE TypInv'
<1>1. PICK m \in Mails, e \in {"ok", "voruebergehend", "dauerhaft", "unklar"} : Versucht(w, m, e)
  BY DEF Versuch, Zugestellt, ZugestelltUnerkannt, ScheitertVoruebergehend, ScheitertDauerhaft
<1>2. zugestellt' \in [Mails -> Nat] /\ unklar' \in [Mails -> Nat]
  BY DEF Versuch, Zugestellt, ZugestelltUnerkannt, ScheitertVoruebergehend, ScheitertDauerhaft, TypInv, TypeOK
<1>3. worker' \in [Worker -> WorkerZustand]
  BY <1>1 DEF Versucht, TypInv, TypeOK, WorkerZustand, Phase, Ergebnis
<1>4. TypeOK'
  BY <1>1, <1>2, <1>3 DEF Versucht, TypInv, TypeOK, tabelle
<1>5. Haltung'
  BY <1>1 DEF Versucht, TypInv, TypeOK, Haltung, WorkerZustand, tabelle
<1>6. QED
  BY <1>4, <1>5 DEF TypInv

LEMMA RueckschreibenTyp == ASSUME TypInv, NEW w \in Worker, Rueckschreiben(w) PROVE TypInv'
<1>1. Weiter(w) \in WorkerZustand
  BY WeiterTyp DEF TypInv
<1>2. worker[w].phase \in {"schreibt", "loescht"}
  BY DEF Rueckschreiben, SchreibeErfolg, SchreibeFehlschlag, SchreibeWiederholung, ErgebnisVerloren, LoescheAnhang
<1>3. worker[w].aktuell \in Mails
  BY <1>2 DEF TypInv, Haltung
<1>4. zeile' \in [Mails -> Zeile]
  <2>1. CASE SchreibeErfolg(w)
    BY <2>1, <1>3, StandNullTyp DEF SchreibeErfolg, TypInv, TypeOK, Status
  <2>2. CASE SchreibeFehlschlag(w)
    BY <2>2, <1>3, StandNullTyp DEF SchreibeFehlschlag, TypInv, TypeOK, Status
  <2>3. CASE SchreibeWiederholung(w)
    <3> DEFINE v == zeile[worker[w].aktuell].versuche
    <3>1. v \in DOMAIN Plan /\ v \in Nat
      BY <2>3, <1>3 DEF SchreibeWiederholung, PlanHat, TypInv, TypeOK, Zeile
    <3>2. Plan[v] \in Nat /\ Plan[v] <= MaxAlter
      BY <3>1, KonstantenAnnahme
    <3>3. worker[w].alter \in 0..MaxAlter
      BY DEF TypInv, TypeOK, WorkerZustand
    <3>4. Plan[v] - worker[w].alter \in (-MaxAlter)..MaxAlter
      <4>1. \A M, x, a \in Nat : x <= M /\ a <= M => x - a \in (-M)..M
        OBVIOUS
      <4>2. MaxAlter \in Nat
        BY KonstantenAnnahme
      <4>3. worker[w].alter \in Nat /\ worker[w].alter <= MaxAlter
        BY <3>3, <4>2
      <4>4. QED
        BY <3>2, <4>1, <4>2, <4>3
    <3>5. Stand("pending", v, Plan[v] - worker[w].alter, 0) \in Zeile
      BY <3>1, <3>4, StandTyp, NullTyp DEF Status
    <3>6. QED
      BY <2>3, <1>3, <3>5 DEF SchreibeWiederholung, TypInv, TypeOK
  <2>4. CASE ErgebnisVerloren(w) \/ LoescheAnhang(w)
    BY <2>4 DEF ErgebnisVerloren, LoescheAnhang, TypInv, TypeOK, tabelle
  <2>5. QED
    BY <2>1, <2>2, <2>3, <2>4 DEF Rueckschreiben
<1>5. worker' \in [Worker -> WorkerZustand]
  BY <1>1 DEF Rueckschreiben, SchreibeErfolg, SchreibeFehlschlag, SchreibeWiederholung, ErgebnisVerloren,
     LoescheAnhang, TypInv, TypeOK, WorkerZustand, Phase
<1>6. TypeOK'
  BY <1>3, <1>4, <1>5 DEF Rueckschreiben, SchreibeErfolg, SchreibeFehlschlag, SchreibeWiederholung,
     ErgebnisVerloren, LoescheAnhang, TypInv, TypeOK, LogStatus, tabelle, historie
<1>7. \A m \in Mails : zeile[m].status # "keine" => zeile'[m].status # "keine"
  BY <1>3 DEF Rueckschreiben, SchreibeErfolg, SchreibeFehlschlag, SchreibeWiederholung, ErgebnisVerloren,
     LoescheAnhang, TypInv, TypeOK, Stand, tabelle
<1>8. \/ worker' = [worker EXCEPT ![w] = Weiter(w)]
      \/ worker' = [worker EXCEPT ![w].phase = "loescht"]
  BY DEF Rueckschreiben, SchreibeErfolg, SchreibeFehlschlag, SchreibeWiederholung, ErgebnisVerloren, LoescheAnhang
<1>9. Haltung'
  <2>1. ASSUME NEW v \in Worker
        PROVE  /\ worker'[v].phase \in {"ruht", "bereinigt"} => worker'[v].offen = {}
               /\ worker'[v].phase \in {"schreibt", "loescht"} =>
                    /\ worker'[v].aktuell \in Mails
                    /\ worker'[v].aktuell \notin worker'[v].offen
                    /\ zeile[worker'[v].aktuell].status # "keine"
               /\ worker'[v].offen \subseteq Mails
               /\ \A m \in worker'[v].offen : zeile[m].status # "keine"
    <3>1. CASE v # w
      BY <2>1, <3>1, <1>8 DEF TypInv, TypeOK, Haltung, WorkerZustand
    <3>2. CASE v = w /\ worker' = [worker EXCEPT ![w] = Weiter(w)]
      <4>1. worker'[v] = Weiter(w)
        BY <3>2 DEF TypInv, TypeOK
      <4>2. CASE worker[w].offen = {}
        BY <4>1, <4>2 DEF Weiter, Ruhe
      <4>3. CASE worker[w].offen # {}
        BY <3>2, <4>1, <4>3 DEF Weiter, TypInv, TypeOK, Haltung, WorkerZustand
      <4>4. QED
        BY <4>2, <4>3
    <3>3. CASE v = w /\ worker' = [worker EXCEPT ![w].phase = "loescht"]
      BY <3>3, <1>2 DEF TypInv, TypeOK, Haltung, WorkerZustand
    <3>4. QED
      BY <3>1, <3>2, <3>3, <1>8
  <2>2. QED
    BY <2>1, <1>7 DEF Haltung
<1>10. QED
  BY <1>6, <1>9 DEF TypInv

LEMMA UmgebungTyp == ASSUME TypInv, Tick \/ \E w \in Worker : Absturz(w) PROVE TypInv'
<1>1. ASSUME NEW w \in Worker, Absturz(w) PROVE TypInv'
  BY <1>1, RuheTyp DEF Absturz, TypInv, TypeOK, Haltung, Ruhe, tabelle, historie
<1>2. CASE Tick
  <2>1. ASSUME NEW a \in 0..MaxAlter PROVE Aelter(a) \in 0..MaxAlter
    BY KonstantenAnnahme DEF Aelter
  <2>2. ASSUME NEW r \in (-MaxAlter)..MaxAlter PROVE Naeher(r) \in (-MaxAlter)..MaxAlter
    BY KonstantenAnnahme DEF Naeher
  <2>3. \A m \in Mails : zeile'[m] \in Zeile /\ zeile'[m].status = zeile[m].status
    BY <1>2, <2>1, <2>2 DEF Tick, TypInv, TypeOK, Zeile
  <2>4. \A w \in Worker : /\ worker'[w] \in WorkerZustand
                          /\ worker'[w].phase = worker[w].phase
                          /\ worker'[w].offen = worker[w].offen
                          /\ worker'[w].aktuell = worker[w].aktuell
    BY <1>2, <2>1 DEF Tick, TypInv, TypeOK, WorkerZustand
  <2>5. TypeOK'
    BY <1>2, <2>3, <2>4 DEF Tick, TypInv, TypeOK, historie
  <2>6. Haltung'
    BY <2>3, <2>4 DEF TypInv, TypeOK, Haltung, WorkerZustand
  <2>7. QED
    BY <2>5, <2>6 DEF TypInv
<1>3. QED
  BY <1>1, <1>2

LEMMA SchrittTyp == TypInv /\ [Next]_vars => TypInv'
<1>1. ASSUME TypInv, UNCHANGED vars PROVE TypInv'
  BY <1>1 DEF vars, TypInv, TypeOK, Haltung
<1>2. ASSUME TypInv, Next PROVE TypInv'
  BY <1>2, EinreihenTyp, WiederholenTyp, BereinigeTyp, BeansprucheTyp, VersuchTyp, RueckschreibenTyp, UmgebungTyp
  DEF Next, Durchlauf
<1>3. QED
  BY <1>1, <1>2

(***************************************************************************)
(* Every state of the outbox is well typed, and a worker holds what its    *)
(* place in verarbeite_outbox says it holds.                               *)
(***************************************************************************)
THEOREM OutboxTyp == Spec => []TypInv
<1>1. Init => TypInv
  BY InitTyp, InitHaltung DEF TypInv
<1>2. QED
  BY <1>1, SchrittTyp, PTL DEF Spec

-----------------------------------------------------------------------------
(***************************************************************************)
(* The permit account.                                                     *)
(***************************************************************************)

LEMMA TraegerEndlich == \A m : IsFiniteSet(Traeger(m)) /\ Cardinality(Traeger(m)) \in Nat
  BY KonstantenAnnahme, FS_Subset, FS_CardinalityType DEF Traeger

LEMMA TraegerEndlichDanach == \A m : IsFiniteSet(Traeger(m)') /\ Cardinality(Traeger(m)') \in Nat
  BY KonstantenAnnahme, FS_Subset, FS_CardinalityType DEF Traeger

LEMMA TraegerWeniger ==
  ASSUME NEW m, Traeger(m)' \subseteq Traeger(m)
  PROVE  Cardinality(Traeger(m)') <= Cardinality(Traeger(m)) /\ Cardinality(Traeger(m)') \in Nat
  BY TraegerEndlich, FS_Subset, FS_CardinalityType

LEMMA TraegerEinerWeg ==
  ASSUME NEW m, NEW w \in Traeger(m), Traeger(m)' \subseteq Traeger(m) \ {w}
  PROVE  Cardinality(Traeger(m)') <= Cardinality(Traeger(m)) - 1 /\ Cardinality(Traeger(m)') \in Nat
<1>1. Cardinality(Traeger(m) \ {w}) = Cardinality(Traeger(m)) - 1 /\ IsFiniteSet(Traeger(m) \ {w})
  BY TraegerEndlich, FS_RemoveElement
<1>2. QED
  BY <1>1, FS_Subset, FS_CardinalityType

LEMMA TraegerEinerDazu ==
  ASSUME NEW m, NEW w, Traeger(m)' \subseteq Traeger(m) \cup {w}
  PROVE  Cardinality(Traeger(m)') <= Cardinality(Traeger(m)) + 1 /\ Cardinality(Traeger(m)') \in Nat
<1>1. Cardinality(Traeger(m) \cup {w}) <= Cardinality(Traeger(m)) + 1 /\ IsFiniteSet(Traeger(m) \cup {w})
  BY TraegerEndlich, FS_AddElement
<1>2. QED
  BY <1>1, TraegerEndlich, FS_Subset, FS_CardinalityType

LEMMA ErlaubtTyp == ASSUME NEW m PROVE Erlaubt(m) \in Nat
  BY TraegerEndlich DEF Erlaubt

LEMMA ErteiltTyp == ASSUME TypInv, NEW m \in Mails PROVE Erteilt(m) \in Nat
  BY DEF Erteilt, TypInv, TypeOK

\* Whether a mail is pending, as a number of permits.
Wartend(m) == IF zeile[m].status = "pending" THEN 1 ELSE 0

LEMMA ErlaubtZerlegt == ASSUME NEW m PROVE Erlaubt(m) = Cardinality(Traeger(m)) + Wartend(m) /\ Wartend(m) \in {0, 1}
  BY DEF Erlaubt, Wartend

\* Nothing moves but the permits lapse.
Verfall ==
  /\ \A m \in Mails : Erlaubt(m)' <= Erlaubt(m)
  /\ \A m \in Mails : Erteilt(m)' = Erteilt(m)
  /\ zugestellt' = zugestellt

LEMMA VerfallSchritt == ASSUME Verfall PROVE Erlaubnis!Verfallen
<1>1. \A m \in Mails : Erlaubt(m) \in Nat /\ Erlaubt(m)' \in Nat
  BY TraegerEndlich, TraegerEndlichDanach DEF Erlaubt
<1>2. QED
  BY <1>1 DEF Verfall, Erlaubnis!Verfallen

-----------------------------------------------------------------------------
(***************************************************************************)
(* Every step of the outbox is a step of the permit specification.         *)
(***************************************************************************)

\* Queueing and repeating grant one permit.
LEMMA ErteilenSchritt ==
  ASSUME TypInv, NEW m \in Mails, Einreihen(m) \/ Wiederholen(m)
  PROVE  Erlaubnis!Erteilen(m)
<1>1. worker' = worker /\ zugestellt' = zugestellt /\ unklar' = unklar
  BY DEF Einreihen, Wiederholen, historie
<1>2. \A n : Traeger(n)' = Traeger(n)
  BY <1>1 DEF Traeger, Traegt
<1>3. zeile' = [zeile EXCEPT ![m] = Stand("pending", 0, 0, 0)] /\ zeile[m].status # "pending"
  BY DEF Einreihen, Wiederholen
<1>4. \A n \in Mails : n # m => Erlaubt(n)' = Erlaubt(n) /\ Erteilt(n)' = Erteilt(n)
  BY <1>1, <1>2, <1>3 DEF Erlaubt, Erteilt, TypInv, TypeOK, Einreihen, Wiederholen, historie
<1>5. Erlaubt(m)' = Erlaubt(m) + 1
  BY <1>2, <1>3, TraegerEndlich DEF Erlaubt, TypInv, TypeOK, Stand
<1>6. Erteilt(m)' = Erteilt(m) + 1
  <2>1. CASE Einreihen(m)
    BY <2>1, <1>1, <1>3 DEF Einreihen, Erteilt, TypInv, TypeOK, Stand, historie
  <2>2. CASE Wiederholen(m)
    BY <2>2, <1>1, <1>3 DEF Wiederholen, Erteilt, TypInv, TypeOK, Stand
  <2>3. QED
    BY <2>1, <2>2
<1>7. QED
  BY <1>1, <1>4, <1>5, <1>6 DEF Erlaubnis!Erteilen

\* Reporting hanging rows touches no permit: they were not pending.
LEMMA BereinigeSchritt == ASSUME TypInv, NEW w \in Worker, Bereinige(w) PROVE Verfall
<1>1. \A n : Traeger(n)' = Traeger(n)
  BY DEF Bereinige, Traeger, Traegt, TypInv, TypeOK, WorkerZustand
<1>2. \A n \in Mails : Wartend(n)' = Wartend(n)
  BY DEF Bereinige, Wartend, Haengt, Stand
<1>3. \A n \in Mails : Erteilt(n)' = Erteilt(n)
  BY DEF Bereinige, Erteilt, Haengt, Stand, historie
<1>4. \A n \in Mails : Erlaubt(n)' = Erlaubt(n)
  BY <1>1, <1>2 DEF Erlaubt, Wartend
<1>5. QED
  BY <1>3, <1>4, ErlaubtTyp DEF Verfall, Bereinige, historie

\* A claimed mail trades its pending row for a carrier.
LEMMA BeansprucheSchritt == ASSUME TypInv, NEW w \in Worker, Beanspruche(w) PROVE Verfall
<1>1. PICK S \in Stapel(w) :
       /\ zeile' = [m \in Mails |->
                      IF m \in S THEN Stand("sending", zeile[m].versuche + 1, 0, worker[w].alter)
                                 ELSE zeile[m]]
       /\ worker' = [worker EXCEPT ![w] = IF S = {} THEN Ruhe
                                           ELSE [@ EXCEPT !.phase = "versendet", !.offen = S]]
  BY DEF Beanspruche
<1>2. S \subseteq Mails /\ \A m \in S : zeile[m].status = "pending"
  BY DEF Stapel, Faellig
<1>3. zugestellt' = zugestellt /\ wiederholt' = wiederholt /\ unklar' = unklar
  BY DEF Beanspruche, historie
<1>4. ASSUME NEW v \in Worker, NEW n, Traegt(v, n)' PROVE Traegt(v, n) \/ (v = w /\ n \in S)
  BY <1>1, <1>4 DEF Traegt, Ruhe, TypInv, TypeOK, WorkerZustand
<1>5. \A n \in Mails : Erteilt(n)' = Erteilt(n)
  BY <1>1, <1>2, <1>3 DEF Erteilt, Stand
<1>6. ASSUME NEW n \in Mails PROVE Erlaubt(n)' <= Erlaubt(n)
  <2>1. CASE n \in S
    <3>1. Traeger(n)' \subseteq Traeger(n) \cup {w}
      BY <1>4 DEF Traeger
    <3>2. Wartend(n) = 1 /\ Wartend(n)' = 0
      BY <2>1, <1>1, <1>2 DEF Wartend, Stand
    <3>3. QED
      BY <3>1, <3>2, TraegerEinerDazu, TraegerEndlich DEF Erlaubt, Wartend
  <2>2. CASE n \notin S
    <3>1. Traeger(n)' \subseteq Traeger(n)
      BY <1>4, <2>2 DEF Traeger
    <3>2. Wartend(n)' = Wartend(n)
      BY <2>2, <1>1 DEF Wartend
    <3>3. QED
      BY <3>1, <3>2, TraegerWeniger, TraegerEndlich DEF Erlaubt, Wartend
  <2>3. QED
    BY <2>1, <2>2
<1>7. QED
  BY <1>3, <1>5, <1>6 DEF Verfall

\* After an attempt w carries m on only if the attempt may be repeated.
LEMMA TraegtNachVersuch ==
  ASSUME TypInv, NEW w \in Worker, NEW m \in Mails, NEW e \in Ergebnis, Versucht(w, m, e)
  PROVE  /\ w \in Traeger(m)
         /\ \A n : n # m => Traeger(n)' = Traeger(n)
         /\ e \in {"voruebergehend", "unklar"} => Traeger(m)' = Traeger(m)
         /\ e \notin {"voruebergehend", "unklar"} => Traeger(m)' = Traeger(m) \ {w}
         /\ zeile' = zeile /\ wiederholt' = wiederholt
<1>1. worker' = [worker EXCEPT ![w].phase = "schreibt", ![w].offen = @ \ {m}, ![w].aktuell = m, ![w].ergebnis = e]
  BY DEF Versucht
<1>2. \A v \in Worker : v # w => worker'[v] = worker[v]
  BY <1>1 DEF TypInv, TypeOK
<1>3. /\ worker'[w].phase = "schreibt" /\ worker'[w].offen = worker[w].offen \ {m}
      /\ worker'[w].aktuell = m /\ worker'[w].ergebnis = e
  BY <1>1 DEF TypInv, TypeOK, WorkerZustand
<1>4. worker[w].phase = "versendet" /\ m \in worker[w].offen /\ zeile' = zeile /\ wiederholt' = wiederholt
  BY DEF Versucht, tabelle
<1>5. \A n : \A v \in Worker : v # w => (Traegt(v, n)' <=> Traegt(v, n))
  BY <1>2 DEF Traegt
<1>6. \A n : n # m => (Traegt(w, n)' <=> Traegt(w, n))
  BY <1>3, <1>4 DEF Traegt
<1>7. Traegt(w, m) /\ (Traegt(w, m)' <=> e \in {"voruebergehend", "unklar"})
  BY <1>3, <1>4 DEF Traegt
<1>8. QED
  BY <1>4, <1>5, <1>6, <1>7 DEF Traeger

\* A delivery uses a permit up; an unrecognised one is granted another.
LEMMA VersuchSchritt ==
  ASSUME TypInv, NEW w \in Worker, Versuch(w)
  PROVE  Verfall \/ \E m \in Mails : Erlaubnis!Zustellen(m) \/ Erlaubnis!ZustellenUnklar(m)
<1>1. PICK m \in Mails : \/ Zugestellt(w, m)
                        \/ ZugestelltUnerkannt(w, m)
                        \/ ScheitertVoruebergehend(w, m)
                        \/ ScheitertDauerhaft(w, m)
  BY DEF Versuch
<1>2. CASE Zugestellt(w, m)
  <2>1. /\ w \in Traeger(m) /\ Traeger(m)' = Traeger(m) \ {w}
        /\ \A n : n # m => Traeger(n)' = Traeger(n)
        /\ zeile' = zeile /\ wiederholt' = wiederholt /\ unklar' = unklar
    BY <1>2, TraegtNachVersuch DEF Zugestellt, Ergebnis
  <2>2. Cardinality(Traeger(m)') = Cardinality(Traeger(m)) - 1
    BY <2>1, TraegerEndlich, FS_RemoveElement
  <2>3. Erlaubt(m)' = Erlaubt(m) - 1 /\ Erlaubt(m) > 0
    <3>1. Erlaubt(m) = Cardinality(Traeger(m)) + Wartend(m)
      BY DEF Erlaubt, Wartend
    <3>2. Erlaubt(m)' = Cardinality(Traeger(m)') + Wartend(m)
      BY <2>1 DEF Erlaubt, Wartend
    <3>3. Wartend(m) \in {0, 1}
      BY DEF Wartend
    <3>4. Cardinality(Traeger(m)) \in Nat /\ Cardinality(Traeger(m)') \in Nat
      BY TraegerEndlich, TraegerEndlichDanach
    <3>5. QED
      BY <3>1, <3>2, <3>3, <3>4, <2>2
  <2>4. \A n \in Mails : Erteilt(n)' = Erteilt(n) /\ (n # m => Erlaubt(n)' = Erlaubt(n))
    BY <2>1 DEF Erlaubt, Erteilt
  <2>5. QED
    BY <1>2, <2>3, <2>4 DEF Zugestellt, Erlaubnis!Zustellen
<1>3. CASE ZugestelltUnerkannt(w, m)
  <2>1. /\ w \in Traeger(m) /\ \A n : Traeger(n)' = Traeger(n)
        /\ zeile' = zeile /\ wiederholt' = wiederholt
        /\ unklar' = [unklar EXCEPT ![m] = @ + 1]
        /\ zugestellt' = [zugestellt EXCEPT ![m] = @ + 1]
    BY <1>3, TraegtNachVersuch DEF ZugestelltUnerkannt, Ergebnis
  <2>2. Cardinality(Traeger(m)) # 0
    BY <2>1, TraegerEndlich, FS_EmptySet
  <2>3. Erlaubt(m) > 0
    BY <2>2, TraegerEndlich DEF Erlaubt
  <2>4. \A n \in Mails : Erlaubt(n)' = Erlaubt(n)
    BY <2>1 DEF Erlaubt
  <2>5. Erteilt(m)' = Erteilt(m) + 1
    BY <2>1 DEF Erteilt, TypInv, TypeOK
  <2>6. \A n \in Mails : n # m => Erteilt(n)' = Erteilt(n)
    BY <2>1 DEF Erteilt, TypInv, TypeOK
  <2>7. QED
    BY <2>1, <2>3, <2>4, <2>5, <2>6 DEF Erlaubnis!ZustellenUnklar
<1>4. CASE ScheitertVoruebergehend(w, m) \/ ScheitertDauerhaft(w, m)
  <2>1. /\ \A n : Traeger(n)' \subseteq Traeger(n)
        /\ zeile' = zeile /\ wiederholt' = wiederholt /\ unklar' = unklar /\ zugestellt' = zugestellt
    BY <1>4, TraegtNachVersuch DEF ScheitertVoruebergehend, ScheitertDauerhaft, Ergebnis
  <2>2. \A n \in Mails : Erlaubt(n)' <= Erlaubt(n)
    BY <2>1, TraegerWeniger, TraegerEndlich DEF Erlaubt
  <2>3. \A n \in Mails : Erteilt(n)' = Erteilt(n)
    BY <2>1 DEF Erteilt
  <2>4. QED
    BY <2>1, <2>2, <2>3 DEF Verfall
<1>5. QED
  BY <1>1, <1>2, <1>3, <1>4

\* Writing a result back: the worker stops carrying the mail, and the row is
\* pending afterwards only if it was before or if the worker did carry it.
LEMMA RueckschreibenSchritt ==
  ASSUME TypInv, NEW w \in Worker, Rueckschreiben(w)
  PROVE  Verfall
<1>1. worker[w].phase \in {"schreibt", "loescht"}
  BY DEF Rueckschreiben, SchreibeErfolg, SchreibeFehlschlag, SchreibeWiederholung, ErgebnisVerloren, LoescheAnhang
<1>0. PICK m \in Mails : m = worker[w].aktuell
  BY <1>1 DEF TypInv, Haltung
<1>2. m = worker[w].aktuell /\ m \notin worker[w].offen /\ zeile[m].status # "keine"
  BY <1>0, <1>1 DEF TypInv, Haltung
<1>3. \/ worker' = [worker EXCEPT ![w] = Weiter(w)]
      \/ worker' = [worker EXCEPT ![w].phase = "loescht"]
  BY DEF Rueckschreiben, SchreibeErfolg, SchreibeFehlschlag, SchreibeWiederholung, ErgebnisVerloren, LoescheAnhang
<1>4. \A v \in Worker : v # w => worker'[v] = worker[v]
  BY <1>3 DEF TypInv, TypeOK
<1>5. worker'[w].phase # "schreibt" /\ worker'[w].offen \subseteq worker[w].offen
  <2>1. CASE worker' = [worker EXCEPT ![w] = Weiter(w)]
    <3>1. worker'[w] = Weiter(w)
      BY <2>1 DEF TypInv, TypeOK
    <3>2. CASE worker[w].offen = {}
      BY <3>1, <3>2 DEF Weiter, Ruhe
    <3>3. CASE worker[w].offen # {}
      BY <3>1, <3>3 DEF Weiter, TypInv, TypeOK, WorkerZustand
    <3>4. QED
      BY <3>2, <3>3
  <2>2. CASE worker' = [worker EXCEPT ![w].phase = "loescht"]
    BY <2>2 DEF TypInv, TypeOK, WorkerZustand
  <2>3. QED
    BY <1>3, <2>1, <2>2
<1>6. ASSUME NEW n, NEW v \in Worker, Traegt(v, n)' PROVE Traegt(v, n) /\ (v = w => n \in worker[w].offen)
  BY <1>4, <1>5, <1>6 DEF Traegt
<1>7. \A n : Traeger(n)' \subseteq Traeger(n)
  BY <1>6 DEF Traeger
<1>8. w \notin Traeger(m)'
  BY <1>2, <1>6 DEF Traeger
<1>9. /\ wiederholt' = wiederholt /\ unklar' = unklar /\ zugestellt' = zugestellt
      /\ \A n \in Mails : n # m => zeile'[n] = zeile[n]
      /\ zeile'[m].status # "keine"
  BY <1>2 DEF Rueckschreiben, SchreibeErfolg, SchreibeFehlschlag, SchreibeWiederholung, ErgebnisVerloren,
     LoescheAnhang, TypInv, TypeOK, Stand, tabelle, historie
<1>10. \A n \in Mails : Erteilt(n)' = Erteilt(n)
  BY <1>2, <1>9 DEF Erteilt
<1>11. ASSUME NEW n \in Mails PROVE Erlaubt(n)' <= Erlaubt(n)
  <2>1. CASE Wartend(n)' <= Wartend(n)
    <3>1. Cardinality(Traeger(n)') <= Cardinality(Traeger(n))
      BY <1>7, TraegerWeniger
    <3>2. Wartend(n) \in {0, 1} /\ Wartend(n)' \in {0, 1}
      BY DEF Wartend
    <3>3. Erlaubt(n) = Cardinality(Traeger(n)) + Wartend(n) /\ Erlaubt(n)' = Cardinality(Traeger(n)') + Wartend(n)'
      BY DEF Erlaubt, Wartend
    <3>4. QED
      BY <2>1, <3>1, <3>2, <3>3, TraegerEndlich, TraegerEndlichDanach
  <2>2. CASE ~(Wartend(n)' <= Wartend(n))
    <3>1. n = m /\ zeile'[m].status = "pending" /\ zeile[m].status # "pending"
      BY <2>2, <1>9 DEF Wartend
    <3>2. SchreibeWiederholung(w)
      BY <3>1, <1>2 DEF Rueckschreiben, SchreibeErfolg, SchreibeFehlschlag, ErgebnisVerloren, LoescheAnhang,
         TypInv, TypeOK, Stand, tabelle
    <3>3. w \in Traeger(m)
      BY <3>2, <1>2 DEF SchreibeWiederholung, Traeger, Traegt
    <3>4. Cardinality(Traeger(m)') <= Cardinality(Traeger(m)) - 1
      BY <3>3, <1>7, <1>8, TraegerEinerWeg
    <3>5. Erlaubt(m) = Cardinality(Traeger(m)) /\ Erlaubt(m)' = Cardinality(Traeger(m)') + 1
      BY <3>1, TraegerEndlich, TraegerEndlichDanach DEF Erlaubt
    <3>6. QED
      BY <3>1, <3>4, <3>5, TraegerEndlich, TraegerEndlichDanach
  <2>3. QED
    BY <2>1, <2>2
<1>12. QED
  BY <1>9, <1>10, <1>11 DEF Verfall

\* A crash and the clock take permits away or leave them.
LEMMA UmgebungSchritt == ASSUME TypInv, Tick \/ \E w \in Worker : Absturz(w) PROVE Verfall
<1>1. \A n \in Mails : zeile'[n].status = zeile[n].status
  BY DEF Tick, Absturz, tabelle, TypInv, TypeOK, Zeile
<1>2. zugestellt' = zugestellt /\ wiederholt' = wiederholt /\ unklar' = unklar
  BY DEF Tick, Absturz, historie
<1>3. ASSUME NEW n, NEW v \in Worker, Traegt(v, n)' PROVE Traegt(v, n)
  <2>1. CASE Tick
    BY <2>1, <1>3 DEF Tick, Traegt
  <2>2. ASSUME NEW w \in Worker, Absturz(w) PROVE Traegt(v, n)
    BY <2>2, <1>3 DEF Absturz, Traegt, Ruhe, TypInv, TypeOK
  <2>3. QED
    BY <2>1, <2>2
<1>4. \A n \in Mails : Erlaubt(n)' <= Erlaubt(n)
  <2>1. \A n : Cardinality(Traeger(n)') <= Cardinality(Traeger(n))
    BY <1>3, TraegerWeniger DEF Traeger
  <2>2. QED
    BY <2>1, <1>1, TraegerEndlich, TraegerEndlichDanach DEF Erlaubt
<1>5. \A n \in Mails : Erteilt(n)' = Erteilt(n)
  BY <1>1, <1>2 DEF Erteilt
<1>6. QED
  BY <1>2, <1>4, <1>5 DEF Verfall

LEMMA ErlaubnisSchritt == TypInv /\ [Next]_vars => [Erlaubnis!Next]_(Erlaubnis!vars)
<1>1. ASSUME TypInv, Next PROVE Erlaubnis!Next
  <2>1. Verfall \/ \E m \in Mails : Erlaubnis!Erteilen(m) \/ Erlaubnis!Zustellen(m) \/ Erlaubnis!ZustellenUnklar(m)
    BY <1>1, ErteilenSchritt, BereinigeSchritt, BeansprucheSchritt, VersuchSchritt, RueckschreibenSchritt,
       UmgebungSchritt DEF Next, Durchlauf
  <2>2. QED
    BY <2>1, VerfallSchritt DEF Erlaubnis!Next
<1>2. ASSUME UNCHANGED vars PROVE UNCHANGED Erlaubnis!vars
  BY <1>2 DEF vars, Erlaubnis!vars, Erteilt, Erlaubt, Traeger, Traegt
<1>3. QED
  BY <1>1, <1>2

LEMMA ErlaubnisInit == Init => Erlaubnis!Init
<1> SUFFICES ASSUME Init PROVE Erlaubnis!Init
  OBVIOUS
<1>1. \A m \in Mails : Traeger(m) = {}
  BY DEF Init, Traeger, Traegt, Ruhe
<1>2. \A m \in Mails : Erlaubt(m) = 0
  BY <1>1, FS_EmptySet DEF Erlaubt, Init, Stand
<1>3. \A m \in Mails : Erteilt(m) = 0
  BY DEF Erteilt, Init, Stand
<1>4. QED
  BY <1>2, <1>3 DEF Erlaubnis!Init, Init

(***************************************************************************)
(* The outbox implements Versanderlaubnis: whatever workers, crashes,      *)
(* timeouts and repetitions do, deliveries only use permits up.            *)
(***************************************************************************)
THEOREM OutboxVerfeinert == Spec => ErlaubnisSpec
  BY OutboxTyp, ErlaubnisInit, ErlaubnisSchritt, PTL DEF Spec, ErlaubnisSpec, Erlaubnis!Spec

(***************************************************************************)
(* No mail is delivered more often than it was ordered.                    *)
(***************************************************************************)
LEMMA KontoSchritt == TypInv /\ VersandKonto /\ [Next]_vars => VersandKonto'
<1> SUFFICES ASSUME TypInv, VersandKonto, [Erlaubnis!Next]_(Erlaubnis!vars) PROVE VersandKonto'
  BY ErlaubnisSchritt
<1>1. \A m \in Mails : /\ Erlaubt(m) \in Nat /\ Erlaubt(m)' \in Nat
                       /\ Erteilt(m) \in Nat /\ zugestellt[m] \in Nat
  BY ErlaubtTyp, ErteiltTyp, TraegerEndlichDanach DEF Erlaubt, TypInv, TypeOK
<1>2. CASE UNCHANGED Erlaubnis!vars
  BY <1>2, <1>1 DEF Erlaubnis!vars, VersandKonto
<1>3. CASE Erlaubnis!Verfallen
  BY <1>3, <1>1 DEF Erlaubnis!Verfallen, VersandKonto
<1>4. ASSUME NEW m \in Mails, Erlaubnis!Erteilen(m) PROVE VersandKonto'
  <2>1. ASSUME NEW n \in Mails PROVE zugestellt'[n] + Erlaubt(n)' <= Erteilt(n)'
    <3>1. CASE n = m
      BY <1>4, <1>1, <3>1 DEF Erlaubnis!Erteilen, VersandKonto, TypInv, TypeOK
    <3>2. CASE n # m
      BY <1>4, <1>1, <3>2 DEF Erlaubnis!Erteilen, VersandKonto, TypInv, TypeOK
    <3>3. QED
      BY <3>1, <3>2
  <2>2. QED
    BY <2>1 DEF VersandKonto
<1>5. ASSUME NEW m \in Mails, Erlaubnis!Zustellen(m) PROVE VersandKonto'
  <2>1. ASSUME NEW n \in Mails PROVE zugestellt'[n] + Erlaubt(n)' <= Erteilt(n)'
    <3>1. CASE n = m
      BY <1>5, <1>1, <3>1 DEF Erlaubnis!Zustellen, VersandKonto, TypInv, TypeOK
    <3>2. CASE n # m
      BY <1>5, <1>1, <3>2 DEF Erlaubnis!Zustellen, VersandKonto, TypInv, TypeOK
    <3>3. QED
      BY <3>1, <3>2
  <2>2. QED
    BY <2>1 DEF VersandKonto
<1>6. ASSUME NEW m \in Mails, Erlaubnis!ZustellenUnklar(m) PROVE VersandKonto'
  <2>1. ASSUME NEW n \in Mails PROVE zugestellt'[n] + Erlaubt(n)' <= Erteilt(n)'
    <3>1. CASE n = m
      BY <1>6, <1>1, <3>1 DEF Erlaubnis!ZustellenUnklar, VersandKonto, TypInv, TypeOK
    <3>2. CASE n # m
      BY <1>6, <1>1, <3>2 DEF Erlaubnis!ZustellenUnklar, VersandKonto, TypInv, TypeOK
    <3>3. QED
      BY <3>1, <3>2
  <2>2. QED
    BY <2>1 DEF VersandKonto
<1>7. QED
  BY <1>2, <1>3, <1>4, <1>5, <1>6 DEF Erlaubnis!Next

THEOREM VersandKontoGilt == Spec => []VersandKonto
<1>1. Init => VersandKonto
  <2> SUFFICES ASSUME Init PROVE VersandKonto
    OBVIOUS
  <2>1. Erlaubnis!Init
    BY ErlaubnisInit
  <2>2. QED
    BY <2>1 DEF Erlaubnis!Init, VersandKonto
<1>2. QED
  BY <1>1, OutboxTyp, KontoSchritt, PTL DEF Spec

-----------------------------------------------------------------------------
(***************************************************************************)
(* What the user is told.                                                  *)
(***************************************************************************)

\* A worker about to report success has delivered.
ErfolgEcht ==
  \A w \in Worker : worker[w].phase = "schreibt" /\ worker[w].ergebnis = "ok" => zugestellt[worker[w].aktuell] > 0

\* A single worker owns what it holds.
AlleinBesitzt ==
  /\ \A w \in Worker : w # w1 => worker[w] = Ruhe
  /\ \A w \in Worker :
       /\ \A m \in worker[w].offen : zeile[m].status = "sending"
       /\ worker[w].phase = "schreibt" => zeile[worker[w].aktuell].status = "sending"
       /\ worker[w].phase = "loescht" => zeile[worker[w].aktuell].status = "sent"

IAnzeige ==
  /\ TypInv /\ ErfolgEcht /\ GesendetHeisstZugestellt
  /\ einer => AlleinBesitzt /\ LogFolgtZeile /\ AnhangBleibt

LEMMA AnzeigeStart == Init => IAnzeige
<1> SUFFICES ASSUME Init PROVE IAnzeige
  OBVIOUS
<1>1. /\ \A m \in Mails : zeile[m].status = "keine" /\ log[m] = "keiner"
      /\ \A w \in Worker : worker[w] = Ruhe
  BY DEF Init, Stand
<1>5. Ruhe.phase = "ruht" /\ Ruhe.offen = {}
  BY DEF Ruhe
<1>6. ErfolgEcht /\ AlleinBesitzt
  BY <1>1, <1>5 DEF ErfolgEcht, AlleinBesitzt
<1>2. GesendetHeisstZugestellt /\ LogFolgtZeile
  BY <1>1 DEF GesendetHeisstZugestellt, LogFolgtZeile
<1>3. AnhangBleibt
  BY <1>1, KonstantenAnnahme DEF AnhangBleibt
<1>4. QED
  BY <1>2, <1>3, <1>6, InitTyp, InitHaltung DEF IAnzeige, TypInv

LEMMA AnzeigeFakten ==
  ASSUME IAnzeige
  PROVE  /\ zeile \in [Mails -> Zeile] /\ log \in [Mails -> LogStatus] /\ anhang \in [Mails -> BOOLEAN]
         /\ worker \in [Worker -> WorkerZustand] /\ zugestellt \in [Mails -> Nat]
         /\ Ruhe.phase = "ruht" /\ Ruhe.offen = {}
         /\ \A w \in Worker : /\ worker[w].phase \in {"schreibt", "loescht"} => worker[w].aktuell \in Mails
                              /\ worker[w].offen \subseteq Mails
                              /\ worker[w].phase \in {"ruht", "bereinigt"} => worker[w].offen = {}
BY DEF IAnzeige, TypInv, TypeOK, Haltung, Ruhe, WorkerZustand

\* Queueing and repeating by hand touch no row that a worker holds.
LEMMA AnzeigeNeu ==
  ASSUME IAnzeige, NEW m \in Mails, Einreihen(m) \/ Wiederholen(m), einer' = einer
  PROVE  IAnzeige'
<1>0. /\ zeile \in [Mails -> Zeile] /\ log \in [Mails -> LogStatus] /\ anhang \in [Mails -> BOOLEAN]
      /\ \A w \in Worker : worker[w].phase \in {"schreibt", "loescht"} => worker[w].aktuell \in Mails
  BY AnzeigeFakten
<1>1. /\ worker' = worker /\ zugestellt' = zugestellt /\ zeile[m].status \in {"keine", "failed"}
      /\ zeile' = [zeile EXCEPT ![m] = Stand("pending", 0, 0, 0)] /\ log' = [log EXCEPT ![m] = "ausstehend"]
  BY DEF Einreihen, Wiederholen, historie
<1>2. /\ zeile'[m].status = "pending" /\ log'[m] = "ausstehend"
      /\ \A n \in Mails \ {m} : zeile'[n] = zeile[n] /\ log'[n] = log[n]
  BY <1>0, <1>1 DEF Stand
<1>3. TypInv'
  BY EinreihenTyp, WiederholenTyp DEF IAnzeige
<1>4. ErfolgEcht'
  BY <1>1 DEF IAnzeige, ErfolgEcht
<1>5. GesendetHeisstZugestellt'
  BY <1>1, <1>2 DEF IAnzeige, GesendetHeisstZugestellt
<1>6. ASSUME einer PROVE AlleinBesitzt' /\ LogFolgtZeile' /\ AnhangBleibt'
  <2>1. AlleinBesitzt /\ LogFolgtZeile /\ AnhangBleibt
    BY <1>6 DEF IAnzeige
  <2>2. AlleinBesitzt'
    BY <2>1, <1>0, <1>1, <1>2, AnzeigeFakten DEF AlleinBesitzt
  <2>3. LogFolgtZeile'
    BY <2>1, <1>2 DEF LogFolgtZeile
  <2>4. AnhangBleibt'
    <3>1. CASE Einreihen(m)
      BY <3>1, <2>1, <1>0, <1>2, KonstantenAnnahme DEF Einreihen, AnhangBleibt
    <3>2. CASE Wiederholen(m)
      BY <3>2, <2>1, <1>0, <1>2, KonstantenAnnahme DEF Wiederholen, AnhangBleibt
    <3>3. QED
      BY <3>1, <3>2
  <2>5. QED
    BY <2>2, <2>3, <2>4
<1>7. QED
  BY <1>3, <1>4, <1>5, <1>6 DEF IAnzeige

\* A hanging row is reported; a single worker has none when it cleans up.
LEMMA AnzeigeBereinige ==
  ASSUME IAnzeige, NEW w \in Worker, Bereinige(w), einer' = einer, einer => w = w1
  PROVE  IAnzeige'
<1>0. /\ zeile \in [Mails -> Zeile] /\ log \in [Mails -> LogStatus] /\ anhang \in [Mails -> BOOLEAN]
      /\ worker \in [Worker -> WorkerZustand]
      /\ Ruhe.phase = "ruht" /\ Ruhe.offen = {}
      /\ \A v \in Worker : /\ worker[v].phase \in {"schreibt", "loescht"} => worker[v].aktuell \in Mails
                           /\ worker[v].phase \in {"ruht", "bereinigt"} => worker[v].offen = {}
  BY AnzeigeFakten
<1>1. /\ worker[w].phase = "ruht" /\ zugestellt' = zugestellt /\ anhang' = anhang
      /\ worker' = [worker EXCEPT ![w].phase = "bereinigt"]
      /\ \A m \in Mails : IF Haengt(m) THEN zeile'[m].status = "failed" /\ log'[m] = "fehler"
                                       ELSE zeile'[m] = zeile[m] /\ log'[m] = log[m]
  BY DEF Bereinige, historie, Stand
<1>2. /\ \A v \in Worker \ {w} : worker'[v] = worker[v]
      /\ worker'[w].phase = "bereinigt" /\ worker'[w].offen = worker[w].offen
  BY <1>0, <1>1 DEF WorkerZustand
<1>3. TypInv'
  BY BereinigeTyp DEF IAnzeige
<1>4. ErfolgEcht'
  BY <1>1, <1>2 DEF IAnzeige, ErfolgEcht
<1>5. GesendetHeisstZugestellt'
  BY <1>1 DEF IAnzeige, GesendetHeisstZugestellt
<1>6. ASSUME einer PROVE AlleinBesitzt' /\ LogFolgtZeile' /\ AnhangBleibt'
  <2>1. AlleinBesitzt /\ LogFolgtZeile /\ AnhangBleibt /\ w = w1
    BY <1>6 DEF IAnzeige
  <2>2. AlleinBesitzt'
    BY <2>1, <1>0, <1>1, <1>2 DEF AlleinBesitzt
  <2>3. LogFolgtZeile'
    BY <2>1, <1>1 DEF LogFolgtZeile
  <2>4. AnhangBleibt'
    BY <2>1, <1>1, KonstantenAnnahme DEF AnhangBleibt, Haengt
  <2>5. QED
    BY <2>2, <2>3, <2>4
<1>7. QED
  BY <1>3, <1>4, <1>5, <1>6 DEF IAnzeige

\* Claimed rows are sending, and the worker holds nothing else.
LEMMA AnzeigeBeanspruche ==
  ASSUME IAnzeige, NEW w \in Worker, Beanspruche(w), einer' = einer, einer => w = w1
  PROVE  IAnzeige'
<1>0. /\ zeile \in [Mails -> Zeile] /\ worker \in [Worker -> WorkerZustand]
      /\ Ruhe.phase = "ruht" /\ Ruhe.offen = {}
      /\ \A v \in Worker : /\ worker[v].phase \in {"schreibt", "loescht"} => worker[v].aktuell \in Mails
                           /\ worker[v].phase \in {"ruht", "bereinigt"} => worker[v].offen = {}
  BY AnzeigeFakten
<1>1. PICK S \in Stapel(w) :
       /\ zeile' = [m \in Mails |->
                      IF m \in S
                      THEN Stand("sending", zeile[m].versuche + 1, 0, worker[w].alter)
                      ELSE zeile[m]]
       /\ worker' = [worker EXCEPT ![w] = IF S = {} THEN Ruhe
                                           ELSE [@ EXCEPT !.phase = "versendet", !.offen = S]]
  BY DEF Beanspruche
<1>2. worker[w].phase = "bereinigt" /\ zugestellt' = zugestellt /\ anhang' = anhang /\ log' = log
  BY DEF Beanspruche, historie
<1>3. S \subseteq Mails /\ \A m \in S : zeile[m].status = "pending"
  BY DEF Stapel, Faellig
<1>4. /\ \A m \in S : zeile'[m].status = "sending"
      /\ \A m \in Mails \ S : zeile'[m] = zeile[m]
  BY <1>1, <1>3 DEF Stand
<1>5. /\ \A v \in Worker \ {w} : worker'[v] = worker[v]
      /\ worker'[w].phase \in {"ruht", "versendet"} /\ worker'[w].offen = S
  <2>1. CASE S = {}
    BY <2>1, <1>0, <1>1
  <2>2. CASE S # {}
    BY <2>2, <1>0, <1>1 DEF WorkerZustand
  <2>3. QED
    BY <2>1, <2>2
<1>6. TypInv'
  BY BeansprucheTyp DEF IAnzeige
<1>7. ErfolgEcht'
  BY <1>2, <1>5 DEF IAnzeige, ErfolgEcht
<1>8. GesendetHeisstZugestellt'
  BY <1>2, <1>3, <1>4 DEF IAnzeige, GesendetHeisstZugestellt
<1>9. ASSUME einer PROVE AlleinBesitzt' /\ LogFolgtZeile' /\ AnhangBleibt'
  <2>1. AlleinBesitzt /\ LogFolgtZeile /\ AnhangBleibt /\ w = w1
    BY <1>9 DEF IAnzeige
  <2>2. AlleinBesitzt'
    <3>1. \A v \in Worker \ {w} : worker'[v] = Ruhe
      BY <2>1, <1>5 DEF AlleinBesitzt
    <3>2. QED
      BY <3>1, <2>1, <1>0, <1>4, <1>5 DEF AlleinBesitzt
  <2>3. LogFolgtZeile'
    BY <2>1, <1>2, <1>3, <1>4 DEF LogFolgtZeile
  <2>4. AnhangBleibt'
    BY <2>1, <1>2, <1>3, <1>4, KonstantenAnnahme DEF AnhangBleibt
  <2>5. QED
    BY <2>2, <2>3, <2>4
<1>10. QED
  BY <1>6, <1>7, <1>8, <1>9 DEF IAnzeige

\* An attempt: what is called a success is a delivery.
LEMMA AnzeigeVersuch ==
  ASSUME IAnzeige, NEW w \in Worker, Versuch(w), einer' = einer, einer => w = w1
  PROVE  IAnzeige'
<1>0. /\ zeile \in [Mails -> Zeile] /\ worker \in [Worker -> WorkerZustand] /\ zugestellt \in [Mails -> Nat]
      /\ \A v \in Worker : worker[v].phase \in {"schreibt", "loescht"} => worker[v].aktuell \in Mails
  BY AnzeigeFakten
<1>1. PICK m \in Mails : \/ Zugestellt(w, m)
                        \/ ZugestelltUnerkannt(w, m)
                        \/ ScheitertVoruebergehend(w, m)
                        \/ ScheitertDauerhaft(w, m)
  BY DEF Versuch
<1>2. PICK e \in Ergebnis : Versucht(w, m, e) /\ (e = "ok" => zugestellt'[m] > 0)
  BY <1>0, <1>1 DEF Zugestellt, ZugestelltUnerkannt, ScheitertVoruebergehend, ScheitertDauerhaft, Ergebnis
<1>3. \A n \in Mails : zugestellt'[n] >= zugestellt[n] /\ zugestellt'[n] \in Nat
  BY <1>0, <1>1 DEF Zugestellt, ZugestelltUnerkannt, ScheitertVoruebergehend, ScheitertDauerhaft
<1>4. /\ worker[w].phase = "versendet" /\ m \in worker[w].offen /\ zeile' = zeile /\ log' = log /\ anhang' = anhang
      /\ worker' = [worker EXCEPT ![w].phase = "schreibt", ![w].offen = @ \ {m},
                              ![w].aktuell = m, ![w].ergebnis = e]
  BY <1>2 DEF Versucht, tabelle
<1>5. /\ \A v \in Worker \ {w} : worker'[v] = worker[v]
      /\ worker'[w].phase = "schreibt" /\ worker'[w].offen = worker[w].offen \ {m}
      /\ worker'[w].aktuell = m /\ worker'[w].ergebnis = e
  BY <1>0, <1>4 DEF WorkerZustand
<1>6. TypInv'
  BY VersuchTyp DEF IAnzeige
<1>7. ErfolgEcht'
  <2>1. ASSUME NEW v \in Worker, worker'[v].phase = "schreibt", worker'[v].ergebnis = "ok"
        PROVE  zugestellt'[worker'[v].aktuell] > 0
    <3>1. CASE v = w
      BY <3>1, <2>1, <1>2, <1>5
    <3>2. CASE v # w
      <4>1. worker'[v] = worker[v]
        BY <3>2, <1>5
      <4>2. worker[v].aktuell \in Mails /\ zugestellt[worker[v].aktuell] > 0
        BY <4>1, <2>1, <1>0 DEF IAnzeige, ErfolgEcht
      <4>3. QED
        BY <4>1, <4>2, <1>0, <1>3
    <3>3. QED
      BY <3>1, <3>2
  <2>2. QED
    BY <2>1 DEF ErfolgEcht
<1>8. GesendetHeisstZugestellt'
  <2>1. \A n \in Mails : zugestellt[n] > 0 => zugestellt'[n] > 0
    BY <1>0, <1>3
  <2>2. QED
    BY <2>1, <1>4 DEF IAnzeige, GesendetHeisstZugestellt
<1>9. ASSUME einer PROVE AlleinBesitzt' /\ LogFolgtZeile' /\ AnhangBleibt'
  <2>1. AlleinBesitzt /\ LogFolgtZeile /\ AnhangBleibt /\ w = w1
    BY <1>9 DEF IAnzeige
  <2>2. AlleinBesitzt'
    <3>1. \A v \in Worker \ {w} : worker'[v] = Ruhe
      BY <2>1, <1>5 DEF AlleinBesitzt
    <3>2. zeile'[m].status = "sending" /\ \A n \in worker'[w].offen : zeile'[n].status = "sending"
      BY <2>1, <1>4, <1>5 DEF AlleinBesitzt
    <3>3. QED
      BY <3>1, <3>2, <2>1, <1>5, AnzeigeFakten DEF AlleinBesitzt
  <2>3. LogFolgtZeile' /\ AnhangBleibt'
    BY <2>1, <1>4 DEF LogFolgtZeile, AnhangBleibt
  <2>4. QED
    BY <2>2, <2>3
<1>10. QED
  BY <1>6, <1>7, <1>8, <1>9 DEF IAnzeige

\* What a worker holds after it has dealt with one mail.
LEMMA WeiterFakten ==
  ASSUME TypInv, NEW w \in Worker, worker' = [worker EXCEPT ![w] = Weiter(w)]
  PROVE  /\ \A v \in Worker \ {w} : worker'[v] = worker[v]
         /\ worker'[w].phase \in {"ruht", "versendet"} /\ worker'[w].offen = worker[w].offen
<1>1. worker \in [Worker -> WorkerZustand]
  BY DEF TypInv, TypeOK
<1>2. Weiter(w).phase \in {"ruht", "versendet"} /\ Weiter(w).offen = worker[w].offen
  <2>1. CASE worker[w].offen = {}
    BY <2>1 DEF Weiter, Ruhe
  <2>2. CASE worker[w].offen # {}
    BY <2>2, <1>1 DEF Weiter, WorkerZustand
  <2>3. QED
    BY <2>1, <2>2
<1>3. QED
  BY <1>1, <1>2

\* A result is written: row and history together, and of its own mail only.
LEMMA AnzeigeSchreiben ==
  ASSUME IAnzeige, NEW w \in Worker, einer' = einer, einer => w = w1,
         SchreibeErfolg(w) \/ SchreibeFehlschlag(w) \/ SchreibeWiederholung(w)
  PROVE  IAnzeige'
<1> DEFINE m == worker[w].aktuell
<1>0. /\ zeile \in [Mails -> Zeile] /\ log \in [Mails -> LogStatus] /\ worker \in [Worker -> WorkerZustand]
      /\ Ruhe.phase = "ruht" /\ Ruhe.offen = {}
      /\ \A v \in Worker : worker[v].phase \in {"schreibt", "loescht"} => worker[v].aktuell \in Mails
  BY AnzeigeFakten
<1>1. worker[w].phase = "schreibt" /\ zugestellt' = zugestellt /\ anhang' = anhang
  BY DEF SchreibeErfolg, SchreibeFehlschlag, SchreibeWiederholung, historie
<1>2. m \in Mails /\ m \notin worker[w].offen
  BY <1>1 DEF IAnzeige, TypInv, Haltung
<1>3. \A n \in Mails \ {m} : zeile'[n] = zeile[n] /\ log'[n] = log[n]
  BY <1>0, <1>2 DEF SchreibeErfolg, SchreibeFehlschlag, SchreibeWiederholung
<1>4. \/ zeile'[m].status = "sent" /\ log'[m] = "gesendet" /\ worker[w].ergebnis = "ok"
      \/ zeile'[m].status = "failed" /\ log'[m] = "fehler"
      \/ zeile'[m].status = "pending" /\ log' = log
  BY <1>0, <1>2 DEF SchreibeErfolg, SchreibeFehlschlag, SchreibeWiederholung, Stand
<1>5. /\ \A v \in Worker \ {w} : worker'[v] = worker[v]
      /\ worker'[w].phase \in {"ruht", "versendet", "loescht"} /\ worker'[w].offen = worker[w].offen
      /\ worker'[w].phase = "loescht" => worker'[w].aktuell = m /\ zeile'[m].status = "sent"
  <2>1. CASE worker' = [worker EXCEPT ![w] = Weiter(w)]
    BY <2>1, WeiterFakten DEF IAnzeige
  <2>2. CASE SchreibeErfolg(w) /\ worker' = [worker EXCEPT ![w] = [@ EXCEPT !.phase = "loescht"]]
    BY <2>2, <1>0, <1>2 DEF WorkerZustand, SchreibeErfolg, Stand
  <2>3. QED
    BY <2>1, <2>2 DEF SchreibeErfolg, SchreibeFehlschlag, SchreibeWiederholung
<1>6. TypInv'
  BY RueckschreibenTyp DEF IAnzeige, Rueckschreiben
<1> HIDE DEF m
<1>7. ErfolgEcht'
  BY <1>1, <1>5 DEF IAnzeige, ErfolgEcht
<1>8. GesendetHeisstZugestellt'
  <2>1. worker[w].ergebnis = "ok" => zugestellt[m] > 0
    BY <1>1 DEF IAnzeige, ErfolgEcht, m
  <2>2. ASSUME NEW n \in Mails, zeile'[n].status = "sent" \/ log'[n] = "gesendet" PROVE zugestellt'[n] > 0
    <3>1. CASE n = m
      BY <3>1, <2>1, <2>2, <1>1, <1>4 DEF IAnzeige, GesendetHeisstZugestellt
    <3>2. CASE n # m
      BY <3>2, <2>2, <1>1, <1>3 DEF IAnzeige, GesendetHeisstZugestellt
    <3>3. QED
      BY <3>1, <3>2
  <2>3. QED
    BY <2>2 DEF GesendetHeisstZugestellt
<1>9. ASSUME einer PROVE AlleinBesitzt' /\ LogFolgtZeile' /\ AnhangBleibt'
  <2>1. AlleinBesitzt /\ LogFolgtZeile /\ AnhangBleibt /\ w = w1
    BY <1>9 DEF IAnzeige
  <2>2. zeile[m].status = "sending"
    BY <2>1, <1>1 DEF AlleinBesitzt, m
  <2>3. AlleinBesitzt'
    <3>1. \A v \in Worker \ {w} : worker'[v] = Ruhe
      BY <2>1, <1>5 DEF AlleinBesitzt
    <3>2. \A n \in worker'[w].offen : zeile'[n].status = "sending"
      BY <2>1, <1>2, <1>3, <1>5, AnzeigeFakten DEF AlleinBesitzt, m
    <3>3. QED
      BY <3>1, <3>2, <2>1, <1>0, <1>5 DEF AlleinBesitzt
  <2>4. LogFolgtZeile'
    <3>1. log[m] = "ausstehend"
      BY <2>1, <2>2, <1>2 DEF LogFolgtZeile, m
    <3>2. QED
      BY <3>1, <2>1, <1>3, <1>4 DEF LogFolgtZeile
  <2>5. AnhangBleibt'
    BY <2>1, <2>2, <1>1, <1>3, <1>4, KonstantenAnnahme DEF AnhangBleibt
  <2>6. QED
    BY <2>3, <2>4, <2>5
<1>10. QED
  BY <1>6, <1>7, <1>8, <1>9 DEF IAnzeige

\* A result is lost, or the attachments of a mail that was sent are deleted.
LEMMA AnzeigeFertig ==
  ASSUME IAnzeige, NEW w \in Worker, einer' = einer, einer => w = w1, ErgebnisVerloren(w) \/ LoescheAnhang(w)
  PROVE  IAnzeige'
<1>0. /\ worker \in [Worker -> WorkerZustand] /\ anhang \in [Mails -> BOOLEAN]
      /\ \A v \in Worker : worker[v].phase \in {"schreibt", "loescht"} => worker[v].aktuell \in Mails
  BY AnzeigeFakten
<1>1. /\ zugestellt' = zugestellt /\ zeile' = zeile /\ log' = log /\ worker' = [worker EXCEPT ![w] = Weiter(w)]
  BY DEF ErgebnisVerloren, LoescheAnhang, tabelle, historie
<1>2. /\ \A v \in Worker \ {w} : worker'[v] = worker[v]
      /\ worker'[w].phase \in {"ruht", "versendet"} /\ worker'[w].offen = worker[w].offen
  BY <1>1, WeiterFakten DEF IAnzeige
<1>3. TypInv'
  BY RueckschreibenTyp DEF IAnzeige, Rueckschreiben
<1>4. ErfolgEcht' /\ GesendetHeisstZugestellt'
  BY <1>1, <1>2 DEF IAnzeige, ErfolgEcht, GesendetHeisstZugestellt
<1>5. ASSUME einer PROVE AlleinBesitzt' /\ LogFolgtZeile' /\ AnhangBleibt'
  <2>1. AlleinBesitzt /\ LogFolgtZeile /\ AnhangBleibt /\ w = w1
    BY <1>5 DEF IAnzeige
  <2>5. \A v \in Worker \ {w} : worker'[v] = Ruhe
    BY <2>1, <1>2 DEF AlleinBesitzt
  <2>6. \A n \in worker'[w].offen : zeile'[n].status = "sending"
    BY <2>1, <1>1, <1>2 DEF AlleinBesitzt
  <2>2. AlleinBesitzt' /\ LogFolgtZeile'
    BY <2>1, <2>5, <2>6, <1>1, <1>2, AnzeigeFakten DEF AlleinBesitzt, LogFolgtZeile
  <2>3. AnhangBleibt'
    <3>1. anhang' = anhang \/ (worker[w].phase = "loescht" /\ anhang' = [anhang EXCEPT ![worker[w].aktuell] = FALSE])
      BY DEF ErgebnisVerloren, LoescheAnhang
    <3>2. worker[w].phase = "loescht" => zeile[worker[w].aktuell].status = "sent" /\ worker[w].aktuell \in Mails
      BY <2>1, <1>0 DEF AlleinBesitzt
    <3>3. \A n \in Mails : anhang'[n] = anhang[n] \/ zeile[n].status = "sent"
      BY <3>1, <3>2, <1>0
    <3>4. QED
      BY <3>3, <2>1, <1>1, KonstantenAnnahme DEF AnhangBleibt
  <2>4. QED
    BY <2>2, <2>3
<1>6. QED
  BY <1>3, <1>4, <1>5 DEF IAnzeige

\* The clock and a crash.
LEMMA AnzeigeUmgebung ==
  ASSUME IAnzeige, einer' = einer, Tick \/ \E w \in Worker : Absturz(w)
  PROVE  IAnzeige'
<1>0. /\ zeile \in [Mails -> Zeile] /\ worker \in [Worker -> WorkerZustand]
      /\ Ruhe.phase = "ruht" /\ Ruhe.offen = {}
      /\ \A v \in Worker : worker[v].phase \in {"schreibt", "loescht"} => worker[v].aktuell \in Mails
  BY AnzeigeFakten
<1>1. /\ zugestellt' = zugestellt /\ log' = log /\ anhang' = anhang
      /\ \A m \in Mails : zeile'[m].status = zeile[m].status
  BY <1>0 DEF Tick, Absturz, tabelle, historie, Zeile
<1>2. \A w \in Worker : \/ worker'[w] = Ruhe
                        \/ /\ worker[w] # Ruhe /\ worker'[w].phase = worker[w].phase
                           /\ worker'[w].offen = worker[w].offen /\ worker'[w].aktuell = worker[w].aktuell
                           /\ worker'[w].ergebnis = worker[w].ergebnis
                        \/ worker'[w] = worker[w]
  BY <1>0 DEF Tick, Absturz, WorkerZustand
<1>3. TypInv'
  BY UmgebungTyp DEF IAnzeige
<1>4. ErfolgEcht' /\ GesendetHeisstZugestellt'
  BY <1>0, <1>1, <1>2 DEF IAnzeige, ErfolgEcht, GesendetHeisstZugestellt
<1>5. ASSUME einer PROVE AlleinBesitzt' /\ LogFolgtZeile' /\ AnhangBleibt'
  <2>1. AlleinBesitzt /\ LogFolgtZeile /\ AnhangBleibt
    BY <1>5 DEF IAnzeige
  <2>2. \A w \in Worker : worker[w].offen \subseteq Mails
    BY AnzeigeFakten
  <2>3. AlleinBesitzt'
    BY <2>1, <2>2, <1>0, <1>1, <1>2 DEF AlleinBesitzt
  <2>4. LogFolgtZeile' /\ AnhangBleibt'
    BY <2>1, <1>1, KonstantenAnnahme DEF LogFolgtZeile, AnhangBleibt
  <2>5. QED
    BY <2>3, <2>4
<1>6. QED
  BY <1>3, <1>4, <1>5 DEF IAnzeige

LEMMA AnzeigeSchritt == IAnzeige /\ Senden /\ einer' = einer => IAnzeige'
<1> SUFFICES ASSUME IAnzeige, Senden, einer' = einer PROVE IAnzeige'
  OBVIOUS
\* Of several workers only w1 may move when a single one runs.
<1>1. ASSUME NEW w \in Worker, Durchlauf(w) PROVE einer => w = w1
  <2>1. SUFFICES ASSUME einer, w # w1 PROVE FALSE
    OBVIOUS
  <2>2. worker[w] = Ruhe /\ worker'[w] = Ruhe
    BY <2>1 DEF IAnzeige, AlleinBesitzt, Senden, Arbeitet
  <2>3. Bereinige(w)
    BY <1>1, <2>2 DEF Durchlauf, Beanspruche, Versuch, Versucht, Zugestellt, ZugestelltUnerkannt,
       ScheitertVoruebergehend, ScheitertDauerhaft, Rueckschreiben, SchreibeErfolg, SchreibeFehlschlag,
       SchreibeWiederholung, ErgebnisVerloren, LoescheAnhang, Ruhe
  <2>4. worker'[w].phase = "bereinigt"
    BY <2>3, AnzeigeFakten DEF Bereinige, WorkerZustand
  <2>5. QED
    BY <2>2, <2>4 DEF Ruhe
<1>2. ASSUME NEW w \in Worker, Durchlauf(w) PROVE IAnzeige'
  BY <1>1, <1>2, AnzeigeBereinige, AnzeigeBeanspruche, AnzeigeVersuch, AnzeigeSchreiben, AnzeigeFertig
  DEF Durchlauf, Rueckschreiben
<1>3. QED
  BY <1>2, AnzeigeNeu, AnzeigeUmgebung DEF Senden, Next

-----------------------------------------------------------------------------
(***************************************************************************)
(* The mailbox sync: what a tick has read is still so, or the account is   *)
(* one the property says nothing of.                                       *)
(***************************************************************************)

Vorhaben == UNION {[D -> Schreibt] : D \in SUBSET Konten}

LaufZustand == [laeuft : BOOLEAN, offen : SUBSET Konten, neu : Vorhaben]
LaufTyp == lauf \in [Laeufe -> LaufZustand]

\* A worker between its ticks holds nothing, and under the lock one tick runs.
EinTick ==
  /\ \A l \in Laeufe : ~lauf[l].laeuft => lauf[l] = Ruhend
  /\ schlossHaelt => \A l, h \in Laeufe : lauf[l].laeuft /\ lauf[h].laeuft => l = h

\* No uid above the highest one given out.
ServerStimmt(k) == \A u \in server[k].da : u <= server[k].bis

\* What a row of mail_folders says of its account.
OrdnerStimmt(k) ==
  /\ ordner[k].gueltig <= server[k].gueltig
  /\ ordner[k].gueltig = 0 => ordner[k].bis = 0
  /\ \A m \in ordner[k].post : m[1] = ordner[k].gueltig
  /\ ordner[k].gueltig = server[k].gueltig =>
       /\ ordner[k].bis <= server[k].bis
       /\ \A u \in server[k].da : u <= ordner[k].bis =>
            \/ <<server[k].gueltig, u>> \in ordner[k].post
            \/ <<k, <<server[k].gueltig, u>>>> \in verloren

\* What a tick will write of an account, against the tables as they are now.
VorhabenStimmt(k, n) ==
  /\ schlossHaelt => n.altGueltig = ordner[k].gueltig /\ n.altBis = ordner[k].bis
  /\ n.altGueltig # 0 => n.altGueltig = ordner[k].gueltig
  /\ n.altGueltig = 0 => n.altBis = 0
  /\ n.gueltig <= server[k].gueltig
  /\ \A m \in n.post : m[1] = n.gueltig
  /\ n.gueltig = server[k].gueltig =>
       /\ n.bis <= server[k].bis
       /\ \A u \in server[k].da : u <= n.bis =>
            \/ <<n.gueltig, u>> \in Bestehend(k, n) \cup n.post \cup n.weg
            \/ <<k, <<n.gueltig, u>>>> \in verloren

KontoStimmt(k) ==
  Ungestoert(k) => /\ OrdnerStimmt(k)
                   /\ \A l \in Laeufe : k \in DOMAIN lauf[l].neu => VorhabenStimmt(k, lauf[l].neu[k])

IAbruf ==
  /\ MsTyp /\ LaufTyp /\ EinTick
  /\ aktiv \subseteq Konten /\ schlossHaelt \in BOOLEAN
  /\ \A k \in Konten : ServerStimmt(k) /\ KontoStimmt(k)

LEMMA MaximumVorhanden ==
  ASSUME NEW n \in Nat, NEW S \in SUBSET (0..n), S # {}
  PROVE  Max(S) \in S /\ \A x \in S : x <= Max(S)
<1> DEFINE Z == {n - x : x \in S}
<1>0. \A x \in S : x \in Nat /\ n - x \in Nat
  OBVIOUS
<1>1. Z \subseteq Nat /\ Z # {}
  BY <1>0
<1>2. PICK m \in Z : \A z \in Z : <<z, m>> \notin OpToRel(<, Nat)
  BY <1>1, NatLessThanWellFounded, WFMin
<1>3. ASSUME NEW z \in Z PROVE m <= z
  <2>1. ~(z < m)
    BY <1>1, <1>2 DEF OpToRel
  <2>2. z \in Nat /\ m \in Nat
    BY <1>1
  <2>3. QED
    BY <2>1, <2>2
<1>4. PICK x \in S : m = n - x
  BY <1>2
<1>5. \A y \in S : x >= y
  BY <1>0, <1>3, <1>4
<1>6. Max(S) \in S /\ \A y \in S : Max(S) >= y
  BY <1>4, <1>5 DEF Max
<1>7. QED
  BY <1>0, <1>6

\* A batch takes the lowest uids first.
LEMMA ChargeVonUnten ==
  ASSUME NEW k \in Konten, server[k].da \subseteq 1..MaxUid,
         NEW c \in Charge(k), NEW u \in server[k].da, u >= SuchAb(k), u <= c
  PROVE  u \in Charge(k)
<1> DEFINE uids == {v \in server[k].da : v >= SuchAb(k)}
           Unter(x) == {v \in uids : v < x}
<1>1. c \in uids /\ Cardinality(Unter(c)) < ProLauf
  BY DEF Charge
<1>2. u \in uids
  OBVIOUS
<1>3. IsFiniteSet(1..MaxUid)
  BY MailSyncAnnahme, FS_Interval
<1>4. Unter(c) \subseteq 1..MaxUid /\ Unter(u) \subseteq Unter(c)
  BY <1>1, <1>2, MailSyncAnnahme
<1>5. IsFiniteSet(Unter(c))
  BY <1>3, <1>4, FS_Subset
<1>6. IsFiniteSet(Unter(u)) /\ Cardinality(Unter(u)) <= Cardinality(Unter(c))
  BY <1>4, <1>5, FS_Subset
<1>7. Cardinality(Unter(u)) \in Nat /\ Cardinality(Unter(c)) \in Nat
  BY <1>5, <1>6, FS_CardinalityType
<1>8. Cardinality(Unter(u)) < ProLauf
  BY <1>1, <1>6, <1>7, MailSyncAnnahme
<1>9. QED
  BY <1>2, <1>8 DEF Charge

LEMMA LeererLauf == <<>> \in Vorhaben /\ DOMAIN <<>> = {} /\ Ruhend \in LaufZustand
<1>1. DOMAIN <<>> = {}
  OBVIOUS
<1>2. <<>> \in [{} -> Schreibt]
  OBVIOUS
<1>3. <<>> \in Vorhaben
  BY <1>2 DEF Vorhaben
<1>4. {} \in SUBSET Konten
  OBVIOUS
<1>5. Ruhend \in LaufZustand
  BY <1>3, <1>4 DEF Ruhend, LaufZustand
<1>6. QED
  BY <1>1, <1>3, <1>5

LEMMA AbrufStart == MsInit => IAbruf
<1> SUFFICES ASSUME MsInit PROVE IAbruf
  OBVIOUS
<1>1. /\ \A l \in Laeufe : lauf[l] = Ruhend
      /\ lauf \in [Laeufe -> LaufZustand]
  BY LeererLauf DEF MsInit
<1>2. Ruhend.laeuft = FALSE /\ Ruhend.offen = {} /\ DOMAIN Ruhend.neu = {}
  BY LeererLauf DEF Ruhend
<1>3. EinTick /\ LaufTyp
  BY <1>1, <1>2 DEF EinTick, LaufTyp
<1>4. server \in [Konten -> [gueltig : 1..MaxGueltig, bis : 0..MaxUid, da : SUBSET (1..MaxUid)]]
  BY MailSyncAnnahme DEF MsInit
<1>5. ordner \in [Konten -> [gueltig : 0..MaxGueltig, bis : 0..MaxUid, post : SUBSET Nachrichten]]
  BY MailSyncAnnahme DEF MsInit
<1>6. MsTyp
  BY <1>1, <1>2, <1>4, <1>5, MailSyncAnnahme DEF MsInit, MsTyp
<1>7. \A k \in Konten : ServerStimmt(k) /\ OrdnerStimmt(k)
  BY DEF MsInit, ServerStimmt, OrdnerStimmt
<1>8. \A k \in Konten : KontoStimmt(k)
  BY <1>1, <1>2, <1>7 DEF KontoStimmt
<1>9. QED
  BY <1>3, <1>6, <1>7, <1>8 DEF IAbruf, MsInit

LEMMA AbrufFakten ==
  ASSUME IAbruf
  PROVE  /\ server \in [Konten -> [gueltig : 1..MaxGueltig, bis : 0..MaxUid, da : SUBSET (1..MaxUid)]]
         /\ ordner \in [Konten -> [gueltig : 0..MaxGueltig, bis : 0..MaxUid, post : SUBSET Nachrichten]]
         /\ lauf \in [Laeufe -> LaufZustand]
         /\ \A k \in Konten : /\ server[k].gueltig \in 1..MaxGueltig /\ server[k].bis \in 0..MaxUid
                              /\ server[k].da \subseteq 1..MaxUid
                              /\ ordner[k].gueltig \in 0..MaxGueltig /\ ordner[k].bis \in 0..MaxUid
                              /\ ordner[k].post \subseteq Nachrichten
         /\ \A l \in Laeufe : lauf[l].offen \subseteq Konten
         /\ \A l \in Laeufe : \A k \in DOMAIN lauf[l].neu : k \in Konten /\ lauf[l].neu[k] \in Schreibt
         /\ MaxUid \in Nat /\ MaxGueltig \in Nat
<1>1. MsTyp /\ LaufTyp
  BY DEF IAbruf
<1>2. QED
  BY <1>1, MailSyncAnnahme DEF MsTyp, LaufTyp, LaufZustand

(***************************************************************************)
(* The server changes.                                                     *)
(***************************************************************************)

\* What arrives lies above the highest uid, what is removed is gone.
ServerFolgt(k) ==
  /\ server'[k].gueltig = server[k].gueltig
  /\ server[k].bis <= server'[k].bis
  /\ \A u \in server'[k].da : u <= server'[k].bis /\ (u \in server[k].da \/ u > server[k].bis)

\* The mailbox was rebuilt.
ServerNeu(k) ==
  /\ server'[k].gueltig = server[k].gueltig + 1
  /\ \A u \in server'[k].da : u <= server'[k].bis

LEMMA KontoNachServer ==
  ASSUME IAbruf, NEW k \in Konten, ServerFolgt(k) \/ ServerNeu(k),
         server' \in [Konten -> [gueltig : 1..MaxGueltig, bis : 0..MaxUid, da : SUBSET (1..MaxUid)]],
         UNCHANGED <<ordner, lauf, verloren, schlossHaelt>>
  PROVE  KontoStimmt(k)'
<1>1. SUFFICES ASSUME Ungestoert(k)'
               PROVE  OrdnerStimmt(k)' /\ \A l \in Laeufe : k \in DOMAIN lauf[l].neu => VorhabenStimmt(k, lauf[l].neu[k])'
  BY DEF KontoStimmt
<1>2. /\ server[k].gueltig \in Nat /\ server[k].bis \in Nat /\ server[k].da \subseteq Nat
      /\ server'[k].gueltig \in Nat /\ server'[k].bis \in Nat /\ server'[k].da \subseteq Nat
      /\ ordner[k].gueltig \in Nat /\ ordner[k].bis \in Nat
      /\ \A l \in Laeufe : k \in DOMAIN lauf[l].neu =>
            lauf[l].neu[k].gueltig \in Nat /\ lauf[l].neu[k].bis \in Nat
  <2>1. /\ server[k].gueltig \in 1..MaxGueltig /\ server[k].bis \in 0..MaxUid /\ server[k].da \subseteq 1..MaxUid
        /\ server'[k].gueltig \in 1..MaxGueltig /\ server'[k].bis \in 0..MaxUid /\ server'[k].da \subseteq 1..MaxUid
        /\ ordner[k].gueltig \in 0..MaxGueltig /\ ordner[k].bis \in 0..MaxUid
    BY AbrufFakten
  <2>2. ASSUME NEW l \in Laeufe, k \in DOMAIN lauf[l].neu
        PROVE  lauf[l].neu[k].gueltig \in Nat /\ lauf[l].neu[k].bis \in Nat
    BY <2>2, AbrufFakten DEF Schreibt
  <2>3. QED
    BY <2>1, <2>2
<1>3. Ungestoert(k) /\ server[k].gueltig >= 1
  BY <1>1, <1>2, AbrufFakten DEF Ungestoert, ServerFolgt, ServerNeu
<1>4. OrdnerStimmt(k) /\ \A l \in Laeufe : k \in DOMAIN lauf[l].neu => VorhabenStimmt(k, lauf[l].neu[k])
  BY <1>3 DEF IAbruf, KontoStimmt
<1>5. OrdnerStimmt(k)'
  <2>1. CASE ServerFolgt(k)
    BY <2>1, <1>2, <1>4 DEF OrdnerStimmt, ServerFolgt
  <2>2. CASE ServerNeu(k)
    BY <2>2, <1>2, <1>4 DEF OrdnerStimmt, ServerNeu
  <2>3. QED
    BY <2>1, <2>2
<1>6. ASSUME NEW l \in Laeufe, k \in DOMAIN lauf[l].neu
      PROVE  VorhabenStimmt(k, lauf[l].neu[k])'
  <2>1. PICK n \in Schreibt : n = lauf[l].neu[k] /\ VorhabenStimmt(k, n)
    BY <1>4, <1>6, AbrufFakten
  <2>7. n.gueltig \in Nat /\ n.bis \in Nat
    BY <1>2, <1>6, <2>1
  <2>2. Bestehend(k, n)' = Bestehend(k, n)
    BY DEF Bestehend
  <2>3. ASSUME ServerFolgt(k) PROVE VorhabenStimmt(k, n)'
    BY <2>1, <2>7, <2>2, <2>3, <1>2 DEF VorhabenStimmt, ServerFolgt
  <2>4. ASSUME ServerNeu(k) PROVE VorhabenStimmt(k, n)'
    BY <2>1, <2>7, <2>2, <2>4, <1>2 DEF VorhabenStimmt, ServerNeu
  <2>5. VorhabenStimmt(k, n)'
    BY <2>3, <2>4
  <2>6. QED
    BY <2>1, <2>5
<1>7. QED
  BY <1>5, <1>6

LEMMA ServerSchritt ==
  ASSUME IAbruf, \A k \in Konten : ServerFolgt(k) \/ ServerNeu(k),
         server' \in [Konten -> [gueltig : 1..MaxGueltig, bis : 0..MaxUid, da : SUBSET (1..MaxUid)]],
         UNCHANGED <<ordner, lauf, verloren, pannen, aktiv, schlossHaelt>>
  PROVE  IAbruf'
<1>1. MsTyp' /\ LaufTyp' /\ EinTick' /\ aktiv' \subseteq Konten /\ schlossHaelt' \in BOOLEAN
  BY DEF IAbruf, MsTyp, LaufTyp, EinTick
<1>2. \A k \in Konten : ServerStimmt(k)'
  BY DEF ServerStimmt, ServerFolgt, ServerNeu
<1>3. \A k \in Konten : KontoStimmt(k)'
  BY KontoNachServer
<1>4. QED
  BY <1>1, <1>2, <1>3 DEF IAbruf

LEMMA UnberuehrtFolgt ==
  ASSUME IAbruf, NEW k \in Konten, server'[k] = server[k]
  PROVE  ServerFolgt(k)
<1>1. server[k].bis \in 0..MaxUid /\ ServerStimmt(k)
  BY AbrufFakten DEF IAbruf
<1>2. QED
  BY <1>1 DEF ServerFolgt, ServerStimmt

LEMMA AbrufAnkunft ==
  ASSUME IAbruf, NEW k \in Konten, Ankunft(k)
  PROVE  IAbruf'
<1>0. /\ server \in [Konten -> [gueltig : 1..MaxGueltig, bis : 0..MaxUid, da : SUBSET (1..MaxUid)]]
      /\ server[k].gueltig \in 1..MaxGueltig /\ server[k].bis \in 0..MaxUid /\ server[k].da \subseteq 1..MaxUid
      /\ MaxUid \in Nat /\ ServerStimmt(k)
  BY AbrufFakten DEF IAbruf
<1> DEFINE neu == [server[k] EXCEPT !.bis = @ + 1, !.da = @ \cup {server[k].bis + 1}]
<1>1. server[k].bis < MaxUid /\ server' = [server EXCEPT ![k] = neu]
      /\ UNCHANGED <<ordner, lauf, verloren, pannen, aktiv, schlossHaelt>>
  BY DEF Ankunft
<1>2. server[k].bis + 1 \in 1..MaxUid /\ server[k].bis + 1 \in 0..MaxUid
  BY <1>0, <1>1
<1>3. /\ neu.gueltig = server[k].gueltig /\ neu.bis = server[k].bis + 1
      /\ neu.da = server[k].da \cup {server[k].bis + 1}
      /\ neu \in [gueltig : 1..MaxGueltig, bis : 0..MaxUid, da : SUBSET (1..MaxUid)]
  BY <1>0, <1>2
<1> HIDE DEF neu
<1>4. server'[k] = neu /\ \A j \in Konten \ {k} : server'[j] = server[j]
  BY <1>0, <1>1
<1>5. ServerFolgt(k)
  <2>1. \A u \in neu.da : u <= neu.bis /\ (u \in server[k].da \/ u > server[k].bis)
    BY <1>0, <1>3 DEF ServerStimmt
  <2>2. QED
    BY <2>1, <1>0, <1>3, <1>4 DEF ServerFolgt
<1>6. server' \in [Konten -> [gueltig : 1..MaxGueltig, bis : 0..MaxUid, da : SUBSET (1..MaxUid)]]
  BY <1>0, <1>1, <1>3
<1>7. QED
  BY <1>1, <1>4, <1>5, <1>6, UnberuehrtFolgt, ServerSchritt

LEMMA AbrufEntfernt ==
  ASSUME IAbruf, NEW k \in Konten, Entfernt(k)
  PROVE  IAbruf'
<1>0. /\ server \in [Konten -> [gueltig : 1..MaxGueltig, bis : 0..MaxUid, da : SUBSET (1..MaxUid)]]
      /\ server[k].gueltig \in 1..MaxGueltig /\ server[k].bis \in 0..MaxUid /\ server[k].da \subseteq 1..MaxUid
      /\ ServerStimmt(k)
  BY AbrufFakten DEF IAbruf
<1>1. PICK u \in server[k].da : server' = [server EXCEPT ![k].da = @ \ {u}]
  BY DEF Entfernt
<1> DEFINE neu == [server[k] EXCEPT !.da = @ \ {u}]
<1>2. server' = [server EXCEPT ![k] = neu] /\ UNCHANGED <<ordner, lauf, verloren, pannen, aktiv, schlossHaelt>>
  BY <1>1 DEF Entfernt
<1>3. /\ neu.gueltig = server[k].gueltig /\ neu.bis = server[k].bis /\ neu.da = server[k].da \ {u}
      /\ neu \in [gueltig : 1..MaxGueltig, bis : 0..MaxUid, da : SUBSET (1..MaxUid)]
  BY <1>0
<1> HIDE DEF neu
<1>4. server'[k] = neu /\ \A j \in Konten \ {k} : server'[j] = server[j]
  BY <1>0, <1>2
<1>5. ServerFolgt(k)
  BY <1>0, <1>3, <1>4 DEF ServerFolgt, ServerStimmt
<1>6. server' \in [Konten -> [gueltig : 1..MaxGueltig, bis : 0..MaxUid, da : SUBSET (1..MaxUid)]]
  BY <1>0, <1>2, <1>3
<1>7. QED
  BY <1>2, <1>4, <1>5, <1>6, UnberuehrtFolgt, ServerSchritt

\* The new numbering has room: there are at most as many messages as there were uids.
LEMMA AbrufNeuaufbau ==
  ASSUME IAbruf, NEW k \in Konten, Neuaufbau(k)
  PROVE  IAbruf'
<1>0. /\ server \in [Konten -> [gueltig : 1..MaxGueltig, bis : 0..MaxUid, da : SUBSET (1..MaxUid)]]
      /\ server[k].gueltig \in 1..MaxGueltig /\ server[k].da \subseteq 1..MaxUid
      /\ MaxUid \in Nat /\ MaxGueltig \in Nat
  BY AbrufFakten DEF IAbruf
<1> DEFINE c == Cardinality(server[k].da)
           neu == [gueltig |-> server[k].gueltig + 1, bis |-> c, da |-> 1..c]
<1>1. server[k].gueltig < MaxGueltig /\ server' = [server EXCEPT ![k] = neu]
      /\ UNCHANGED <<ordner, lauf, verloren, pannen, aktiv, schlossHaelt>>
  BY DEF Neuaufbau
<1>2. c \in 0..MaxUid
  <2>1. IsFiniteSet(1..MaxUid) /\ Cardinality(1..MaxUid) = MaxUid
    BY <1>0, FS_Interval
  <2>2. IsFiniteSet(server[k].da) /\ Cardinality(server[k].da) <= MaxUid
    BY <2>1, <1>0, FS_Subset
  <2>3. QED
    BY <2>2, <1>0, FS_CardinalityType
<1> HIDE DEF c
<1>3. neu \in [gueltig : 1..MaxGueltig, bis : 0..MaxUid, da : SUBSET (1..MaxUid)]
  <2>1. server[k].gueltig + 1 \in 1..MaxGueltig
    BY <1>0, <1>1
  <2>2. 1..c \subseteq 1..MaxUid
    BY <1>0, <1>2
  <2>3. QED
    BY <2>1, <2>2, <1>2
<1>4. server'[k] = neu /\ \A j \in Konten \ {k} : server'[j] = server[j]
  BY <1>0, <1>1
<1>5. ServerNeu(k)
  BY <1>2, <1>4 DEF ServerNeu
<1>6. server' \in [Konten -> [gueltig : 1..MaxGueltig, bis : 0..MaxUid, da : SUBSET (1..MaxUid)]]
  BY <1>0, <1>1, <1>3
<1>7. QED
  BY <1>1, <1>4, <1>5, <1>6, UnberuehrtFolgt, ServerSchritt

(***************************************************************************)
(* A tick begins, reads, or is thrown away.                                *)
(***************************************************************************)

LEMMA LaufSchritt ==
  ASSUME IAbruf, NEW l \in Laeufe, NEW r \in LaufZustand, lauf' = [lauf EXCEPT ![l] = r],
         UNCHANGED <<server, ordner, verloren, aktiv, schlossHaelt>>, pannen' \in 0..MaxPannen,
         ~r.laeuft => r = Ruhend,
         schlossHaelt /\ r.laeuft => \A h \in Laeufe \ {l} : ~lauf[h].laeuft,
         \A k \in DOMAIN r.neu : /\ k \in Konten \ r.offen /\ r.neu[k] \in Schreibt
                                 /\ Ungestoert(k) => VorhabenStimmt(k, r.neu[k])
  PROVE  IAbruf'
<1>0. lauf \in [Laeufe -> LaufZustand] /\ r.offen \subseteq Konten
  BY AbrufFakten DEF LaufZustand
<1>1. lauf'[l] = r /\ \A h \in Laeufe \ {l} : lauf'[h] = lauf[h]
  BY <1>0
<1>2. LaufTyp'
  BY <1>0 DEF LaufTyp
<1>3. EinTick'
  BY <1>1 DEF IAbruf, EinTick
<1>4. MsTyp'
  BY <1>0, <1>1 DEF IAbruf, MsTyp
<1>5. ASSUME NEW k, NEW n PROVE VorhabenStimmt(k, n)' = VorhabenStimmt(k, n)
  BY DEF VorhabenStimmt, Bestehend
<1>6. ASSUME NEW k \in Konten PROVE ServerStimmt(k)' /\ KontoStimmt(k)'
  <2>1. ServerStimmt(k) /\ KontoStimmt(k)
    BY DEF IAbruf
  <2>2. ServerStimmt(k)' /\ Ungestoert(k)' = Ungestoert(k) /\ OrdnerStimmt(k)' = OrdnerStimmt(k)
    BY <2>1 DEF ServerStimmt, Ungestoert, OrdnerStimmt
  <2>3. ASSUME Ungestoert(k), NEW h \in Laeufe, k \in DOMAIN lauf'[h].neu
        PROVE  VorhabenStimmt(k, lauf[h].neu[k])'
    <3>1. PICK n : n = lauf'[h].neu[k]
      OBVIOUS
    <3>2. VorhabenStimmt(k, n)
      BY <1>1, <2>1, <2>3, <3>1 DEF KontoStimmt
    <3>3. VorhabenStimmt(k, n)'
      BY <3>2, <1>5
    <3>4. QED
      BY <3>1, <3>3
  <2>4. QED
    BY <2>1, <2>2, <2>3 DEF KontoStimmt
<1>7. QED
  BY <1>2, <1>3, <1>4, <1>6 DEF IAbruf

LEMMA AbrufTickBeginnt ==
  ASSUME IAbruf, NEW l \in Laeufe, TickBeginnt(l)
  PROVE  IAbruf'
<1>1. aktiv \subseteq Konten /\ pannen \in 0..MaxPannen
  BY DEF IAbruf, MsTyp
<1>2. PICK r : r = [laeuft |-> TRUE, offen |-> aktiv, neu |-> <<>>]
  OBVIOUS
<1>3. r \in LaufZustand
  BY <1>1, <1>2, LeererLauf DEF LaufZustand
<1>4. r.laeuft = TRUE /\ DOMAIN r.neu = {}
  BY <1>2, LeererLauf
<1>5. /\ lauf' = [lauf EXCEPT ![l] = r]
      /\ schlossHaelt => \A m \in Laeufe : ~lauf[m].laeuft
      /\ UNCHANGED <<server, ordner, verloren, pannen, aktiv, schlossHaelt>>
  BY <1>2 DEF TickBeginnt
<1>6. QED
  BY <1>1, <1>3, <1>4, <1>5, LaufSchritt

LEMMA AbrufVerworfen ==
  ASSUME IAbruf, NEW l \in Laeufe, TickVerworfen(l), pannen' \in 0..MaxPannen
  PROVE  IAbruf'
<1>1. Ruhend \in LaufZustand /\ Ruhend.laeuft = FALSE /\ DOMAIN Ruhend.neu = {}
  BY LeererLauf DEF Ruhend
<1>2. lauf' = [lauf EXCEPT ![l] = Ruhend] /\ UNCHANGED <<server, ordner, verloren, aktiv, schlossHaelt>>
  BY DEF TickVerworfen
<1>3. QED
  BY <1>1, <1>2, LaufSchritt

\* A tick that has something to do runs.
LEMMA OffenLaeuft ==
  ASSUME IAbruf, NEW l \in Laeufe, NEW k \in lauf[l].offen
  PROVE  lauf[l].laeuft /\ (schlossHaelt => \A h \in Laeufe \ {l} : ~lauf[h].laeuft)
<1>1. Ruhend.offen = {}
  BY DEF Ruhend
<1>2. lauf[l].laeuft
  BY <1>1 DEF IAbruf, EinTick
<1>3. QED
  BY <1>2 DEF IAbruf, EinTick

\* What the tick of l has read so far is true.
LEMMA GelesenStimmt ==
  ASSUME IAbruf, NEW l \in Laeufe, NEW k \in DOMAIN lauf[l].neu
  PROVE  /\ k \in Konten \ lauf[l].offen /\ lauf[l].neu[k] \in Schreibt
         /\ Ungestoert(k) => VorhabenStimmt(k, lauf[l].neu[k])
<1>1. k \in Konten \ lauf[l].offen /\ lauf[l].neu[k] \in Schreibt
  BY DEF IAbruf, MsTyp
<1>2. QED
  BY <1>1 DEF IAbruf, KontoStimmt

LEMMA AbrufNichtErreicht ==
  ASSUME IAbruf, NEW l \in Laeufe, NEW k \in Konten, KontoNichtErreicht(l, k)
  PROVE  IAbruf'
<1>0. lauf[l] \in LaufZustand /\ pannen \in 0..MaxPannen /\ MaxPannen \in Nat
  BY AbrufFakten, MailSyncAnnahme DEF IAbruf, MsTyp
<1>1. /\ k \in lauf[l].offen /\ pannen < MaxPannen /\ pannen' = pannen + 1
      /\ UNCHANGED <<server, ordner, verloren, aktiv, schlossHaelt>>
  BY DEF KontoNichtErreicht
<1>2. PICK r : r = [lauf[l] EXCEPT !.offen = @ \ {k}]
  OBVIOUS
<1>3. r \in LaufZustand /\ r.laeuft = lauf[l].laeuft /\ r.offen = lauf[l].offen \ {k} /\ r.neu = lauf[l].neu
  BY <1>0, <1>2 DEF LaufZustand
<1>4. lauf' = [lauf EXCEPT ![l] = r]
  BY <1>2 DEF KontoNichtErreicht
<1>5. r.laeuft /\ (schlossHaelt => \A h \in Laeufe \ {l} : ~lauf[h].laeuft)
  BY <1>1, <1>3, OffenLaeuft
<1>6. \A j \in DOMAIN r.neu : /\ j \in Konten \ r.offen /\ r.neu[j] \in Schreibt
                              /\ Ungestoert(j) => VorhabenStimmt(j, r.neu[j])
  BY <1>3, GelesenStimmt
<1>7. pannen' \in 0..MaxPannen
  BY <1>0, <1>1
<1>8. QED
  BY <1>1, <1>3, <1>4, <1>5, <1>6, <1>7, LaufSchritt

(***************************************************************************)
(* A fetch moves the watermark over nothing it does not account for.       *)
(***************************************************************************)

\* What Synchronisiert notes of the account.
Notiz(k, geholt, abgelegt) ==
  [altGueltig |-> ordner[k].gueltig, altBis |-> ordner[k].bis, gueltig |-> server[k].gueltig,
   bis |-> NeueGrenze(k, geholt), post |-> {<<server[k].gueltig, u>> : u \in abgelegt},
   weg |-> {<<server[k].gueltig, u>> : u \in {v \in Charge(k) \ abgelegt : v <= NeueGrenze(k, geholt)}}]

LEMMA GrenzeStimmt ==
  ASSUME IAbruf, NEW k \in Konten, NEW geholt \in SUBSET Charge(k)
  PROVE  LET b == IF Zurueckgesetzt(k) THEN 0 ELSE ordner[k].bis
         IN /\ b \in 0..MaxUid
            /\ NeueGrenze(k, geholt) \in 0..MaxUid
            /\ NeueGrenze(k, geholt) \in {b} \cup geholt
            /\ b <= NeueGrenze(k, geholt)
<1> DEFINE b == IF Zurueckgesetzt(k) THEN 0 ELSE ordner[k].bis
<1>1. ordner[k].bis \in 0..MaxUid /\ server[k].da \subseteq 1..MaxUid /\ MaxUid \in Nat
  BY AbrufFakten
<1>2. b \in 0..MaxUid
  BY <1>1
<1>3. geholt \subseteq 0..MaxUid
  <2>1. Charge(k) \subseteq server[k].da
    BY DEF Charge
  <2>2. QED
    BY <2>1, <1>1
<1> HIDE DEF b
<1>4. {b} \cup geholt \in SUBSET (0..MaxUid) /\ {b} \cup geholt # {}
  BY <1>2, <1>3
<1>5. Max({b} \cup geholt) \in {b} \cup geholt /\ \A x \in {b} \cup geholt : x <= Max({b} \cup geholt)
  BY <1>1, <1>4, MaximumVorhanden
<1>6. NeueGrenze(k, geholt) = Max({b} \cup geholt)
  BY DEF NeueGrenze, b
<1>7. NeueGrenze(k, geholt) \in {b} \cup geholt /\ b <= NeueGrenze(k, geholt)
  BY <1>5, <1>6
<1>8. NeueGrenze(k, geholt) \in 0..MaxUid
  BY <1>4, <1>7
<1>9. QED
  BY <1>2, <1>7, <1>8 DEF b

LEMMA NotizTyp ==
  ASSUME IAbruf, NEW k \in Konten, NEW geholt \in SUBSET Charge(k), NEW abgelegt \in SUBSET geholt
  PROVE  Notiz(k, geholt, abgelegt) \in Schreibt
<1>1. /\ ordner[k].gueltig \in 0..MaxGueltig /\ ordner[k].bis \in 0..MaxUid
      /\ server[k].gueltig \in 1..MaxGueltig /\ server[k].da \subseteq 1..MaxUid
  BY AbrufFakten
<1>2. Charge(k) \subseteq 1..MaxUid
  BY <1>1 DEF Charge
<1>3. NeueGrenze(k, geholt) \in 0..MaxUid
  BY GrenzeStimmt
<1>4. \A u \in Charge(k) : <<server[k].gueltig, u>> \in Nachrichten
  BY <1>1, <1>2 DEF Nachrichten
<1>5. {<<server[k].gueltig, u>> : u \in abgelegt} \in SUBSET Nachrichten
  BY <1>4
<1>6. {<<server[k].gueltig, u>> : u \in {v \in Charge(k) \ abgelegt : v <= NeueGrenze(k, geholt)}} \in SUBSET Nachrichten
  BY <1>4
<1>7. QED
  BY <1>1, <1>3, <1>5, <1>6 DEF Notiz, Schreibt

LEMMA NotizStimmt ==
  ASSUME IAbruf, NEW k \in Konten, NEW geholt \in SUBSET Charge(k), NEW abgelegt \in SUBSET geholt, Ungestoert(k)
  PROVE  VorhabenStimmt(k, Notiz(k, geholt, abgelegt))
<1> DEFINE n == Notiz(k, geholt, abgelegt)
           g == server[k].gueltig
           grenze == NeueGrenze(k, geholt)
           b == IF Zurueckgesetzt(k) THEN 0 ELSE ordner[k].bis
<1>1. /\ n.altGueltig = ordner[k].gueltig /\ n.altBis = ordner[k].bis /\ n.gueltig = g /\ n.bis = grenze
      /\ n.post = {<<g, u>> : u \in abgelegt}
      /\ n.weg = {<<g, u>> : u \in {v \in Charge(k) \ abgelegt : v <= grenze}}
  BY DEF Notiz
<1>2. /\ g \in 1..MaxGueltig /\ server[k].bis \in 0..MaxUid /\ server[k].da \subseteq 1..MaxUid
      /\ ordner[k].gueltig \in 0..MaxGueltig /\ ordner[k].bis \in 0..MaxUid
  BY AbrufFakten
<1>3. OrdnerStimmt(k) /\ ServerStimmt(k)
  BY DEF IAbruf, KontoStimmt
<1>4. grenze \in 0..MaxUid /\ grenze \in {b} \cup geholt /\ b <= grenze /\ b \in 0..MaxUid
  BY GrenzeStimmt
<1>5. geholt \subseteq Charge(k) /\ Charge(k) \subseteq server[k].da
  BY DEF Charge
<1>6. n.bis <= server[k].bis
  <2>1. b <= server[k].bis
    BY <1>2, <1>3 DEF OrdnerStimmt, Zurueckgesetzt
  <2>2. \A u \in geholt : u <= server[k].bis
    BY <1>3, <1>5 DEF ServerStimmt
  <2>3. QED
    BY <1>1, <1>4, <2>1, <2>2
<1>7. ASSUME NEW u \in server[k].da, u <= grenze
      PROVE  \/ <<g, u>> \in Bestehend(k, n) \cup n.post \cup n.weg
             \/ <<k, <<g, u>>>> \in verloren
  <2>0. u \in 1..MaxUid
    BY <1>2
  <2>1. CASE u <= b
    <3>1. ~Zurueckgesetzt(k) /\ b = ordner[k].bis
      BY <2>0, <2>1
    <3>2. ordner[k].gueltig = g
      BY <3>1, <2>0, <2>1, <1>3 DEF OrdnerStimmt, Zurueckgesetzt
    <3>3. Bestehend(k, n) = ordner[k].post
      BY <1>1, <3>2 DEF Bestehend
    <3>4. <<g, u>> \in ordner[k].post \/ <<k, <<g, u>>>> \in verloren
      BY <1>3, <3>1, <3>2, <2>1 DEF OrdnerStimmt
    <3>5. QED
      BY <3>3, <3>4
  <2>2. CASE ~(u <= b)
    <3>1. u > b /\ u >= SuchAb(k)
      BY <2>2, <2>0, <1>4, <1>2 DEF SuchAb
    <3>2. grenze \in geholt
      BY <3>1, <2>0, <1>4, <1>7
    <3>3. u \in Charge(k)
      BY <3>1, <3>2, <1>2, <1>5, <1>7, ChargeVonUnten
    <3>4. <<g, u>> \in n.post \cup n.weg
      BY <3>3, <1>1, <1>7
    <3>5. QED
      BY <3>4
  <2>3. QED
    BY <2>1, <2>2
<1>8. \A m \in n.post : m[1] = n.gueltig
  BY <1>1
<1>9. n.altGueltig = 0 => n.altBis = 0
  BY <1>1, <1>3 DEF OrdnerStimmt
<1>10. n.gueltig <= server[k].gueltig
  BY <1>1, <1>2
<1> HIDE DEF n
<1>11. VorhabenStimmt(k, n)
  BY <1>1, <1>6, <1>7, <1>8, <1>9, <1>10 DEF VorhabenStimmt
<1>12. QED
  BY <1>11 DEF n

LEMMA AbrufSynchronisiert ==
  ASSUME IAbruf, NEW l \in Laeufe, NEW k \in lauf[l].offen,
         NEW geholt \in SUBSET Charge(k), NEW abgelegt \in SUBSET geholt,
         Synchronisiert(l, k, geholt, abgelegt),
         UNCHANGED <<server, ordner, verloren, aktiv, schlossHaelt>>, pannen' \in 0..MaxPannen
  PROVE  IAbruf'
<1>0. lauf[l] \in LaufZustand /\ k \in Konten /\ lauf[l].offen \subseteq Konten
  BY AbrufFakten
<1>1. PICK n : n = Notiz(k, geholt, abgelegt)
  OBVIOUS
<1>2. n \in Schreibt /\ (Ungestoert(k) => VorhabenStimmt(k, n))
  BY <1>0, <1>1, NotizTyp, NotizStimmt
<1>3. PICK alt : alt = lauf[l].neu
  OBVIOUS
<1>4. \A j \in DOMAIN alt : /\ j \in Konten \ lauf[l].offen /\ alt[j] \in Schreibt
                            /\ Ungestoert(j) => VorhabenStimmt(j, alt[j])
  BY <1>3, GelesenStimmt
<1>5. PICK neu : neu = [m \in {k} \cup DOMAIN alt |-> IF m = k THEN n ELSE alt[m]]
  OBVIOUS
<1>6. DOMAIN neu = {k} \cup DOMAIN alt /\ neu[k] = n /\ \A j \in DOMAIN alt : j # k => neu[j] = alt[j]
  BY <1>5
<1>7. neu \in Vorhaben
  <2>1. neu \in [({k} \cup DOMAIN alt) -> Schreibt]
    BY <1>2, <1>4, <1>5
  <2>2. {k} \cup DOMAIN alt \in SUBSET Konten
    BY <1>0, <1>4
  <2>3. QED
    BY <2>1, <2>2 DEF Vorhaben
<1>8. PICK r : r = [laeuft |-> TRUE, offen |-> lauf[l].offen \ {k}, neu |-> neu]
  OBVIOUS
<1>9. r.laeuft = TRUE /\ r.offen = lauf[l].offen \ {k} /\ r.neu = neu
  BY <1>8
<1>10. r \in LaufZustand
  BY <1>0, <1>7, <1>8 DEF LaufZustand
<1>11. lauf' = [lauf EXCEPT ![l] = r]
  BY <1>1, <1>3, <1>5, <1>8 DEF Synchronisiert, Notiz
<1>12. schlossHaelt => \A h \in Laeufe \ {l} : ~lauf[h].laeuft
  BY OffenLaeuft
<1>13. \A j \in DOMAIN r.neu : /\ j \in Konten \ r.offen /\ r.neu[j] \in Schreibt
                               /\ Ungestoert(j) => VorhabenStimmt(j, r.neu[j])
  BY <1>0, <1>2, <1>4, <1>6, <1>9
<1>14. QED
  BY <1>9, <1>10, <1>11, <1>12, <1>13, LaufSchritt

LEMMA AbrufHolt ==
  ASSUME IAbruf, NEW l \in Laeufe, NEW k \in Konten, Holt(l, k) \/ HoltTeilweise(l, k)
  PROVE  IAbruf'
<1>1. pannen \in 0..MaxPannen /\ MaxPannen \in Nat
  BY MailSyncAnnahme DEF IAbruf, MsTyp
<1>2. /\ k \in lauf[l].offen /\ pannen' \in 0..MaxPannen
      /\ UNCHANGED <<server, ordner, verloren, aktiv, schlossHaelt>>
  BY <1>1 DEF Holt, HoltTeilweise
<1>3. PICK geholt \in SUBSET Charge(k) : \E abgelegt \in SUBSET geholt : Synchronisiert(l, k, geholt, abgelegt)
  BY DEF Holt, HoltTeilweise
<1>4. PICK abgelegt \in SUBSET geholt : Synchronisiert(l, k, geholt, abgelegt)
  BY <1>3
<1>5. QED
  BY <1>2, <1>4, AbrufSynchronisiert

(***************************************************************************)
(* The commit of a tick.                                                   *)
(***************************************************************************)

\* What the commit makes of the row of one account.
LEMMA GeschriebenStimmt ==
  ASSUME IAbruf, NEW l \in Laeufe, ~Konflikt(l), NEW k \in DOMAIN lauf[l].neu, Ungestoert(k),
         NEW n \in Schreibt, n = lauf[l].neu[k],
         ordner'[k] = Geschrieben(k, n), server'[k] = server[k],
         verloren \subseteq verloren', \A m \in n.weg : <<k, m>> \in verloren'
  PROVE  OrdnerStimmt(k)'
<1>0. /\ server[k].gueltig \in 1..MaxGueltig /\ server[k].bis \in 0..MaxUid /\ server[k].da \subseteq 1..MaxUid
      /\ ordner[k].gueltig \in 0..MaxGueltig /\ ordner[k].bis \in 0..MaxUid /\ k \in Konten
      /\ ordner[k].post \subseteq Nachrichten
  BY AbrufFakten
<1>1. OrdnerStimmt(k) /\ VorhabenStimmt(k, n)
  BY <1>0 DEF IAbruf, KontoStimmt
<1>2. n.gueltig \in 1..MaxGueltig /\ n.altGueltig \in 0..MaxGueltig /\ n.bis \in 0..MaxUid /\ n.altBis \in 0..MaxUid
  BY DEF Schreibt
<1>3. n.altGueltig = 0 => ordner[k].gueltig = 0 /\ ordner[k].bis = 0 /\ ordner[k].post = {}
  <2>1. n.altGueltig = 0 => ordner[k].gueltig = 0
    BY <1>0 DEF Konflikt
  <2>2. ordner[k].gueltig = 0 => ordner[k].bis = 0 /\ ordner[k].post = {}
    BY <1>0, <1>1 DEF OrdnerStimmt, Nachrichten
  <2>3. QED
    BY <2>1, <2>2
<1>4. n.altGueltig = ordner[k].gueltig
  BY <1>1, <1>3 DEF VorhabenStimmt
<1>5. /\ ordner'[k].gueltig = n.gueltig
      /\ ordner'[k].bis = (IF n.bis # n.altBis THEN n.bis ELSE ordner[k].bis)
      /\ ordner'[k].post = Bestehend(k, n) \cup n.post
  BY <1>4 DEF Geschrieben
<1>6. \A m \in ordner'[k].post : m[1] = n.gueltig
  <2>1. \A m \in Bestehend(k, n) : m[1] = n.gueltig
    BY <1>1, <1>3, <1>4 DEF Bestehend, OrdnerStimmt
  <2>2. QED
    BY <2>1, <1>1, <1>5 DEF VorhabenStimmt
<1>7. ASSUME n.gueltig = server[k].gueltig
      PROVE  /\ ordner'[k].bis <= server[k].bis
             /\ \A u \in server[k].da : u <= ordner'[k].bis =>
                  <<server[k].gueltig, u>> \in ordner'[k].post \/ <<k, <<server[k].gueltig, u>>>> \in verloren'
  <2>1. /\ n.bis <= server[k].bis
        /\ \A u \in server[k].da : u <= n.bis =>
             \/ <<n.gueltig, u>> \in Bestehend(k, n) \cup n.post \cup n.weg
             \/ <<k, <<n.gueltig, u>>>> \in verloren
    BY <1>1, <1>7 DEF VorhabenStimmt
  <2>2. CASE ordner'[k].bis = n.bis
    BY <2>1, <2>2, <1>5, <1>7
  <2>3. CASE ordner'[k].bis # n.bis
    <3>1. n.bis = n.altBis /\ ordner'[k].bis = ordner[k].bis
      BY <2>3, <1>5
    <3>2. n.altGueltig # 0 /\ ~schlossHaelt
      BY <2>3, <3>1, <1>1, <1>3 DEF VorhabenStimmt
    <3>3. n.altGueltig = n.gueltig
      BY <3>2, <1>0, <1>1, <1>2, <1>4, <1>7 DEF Ungestoert, OrdnerStimmt
    <3>4. ordner[k].gueltig = server[k].gueltig /\ Bestehend(k, n) = ordner[k].post
      BY <3>3, <1>4, <1>7 DEF Bestehend
    <3>5. QED
      BY <3>1, <3>4, <1>1, <1>5 DEF OrdnerStimmt
  <2>4. QED
    BY <2>2, <2>3
<1>8. n.gueltig <= server[k].gueltig
  BY <1>1 DEF VorhabenStimmt
<1>9. QED
  BY <1>0, <1>2, <1>5, <1>6, <1>7, <1>8 DEF OrdnerStimmt

\* What another tick has read stays true: it is not a commit that clears the table.
LEMMA AnderesVorhaben ==
  ASSUME IAbruf, NEW l \in Laeufe, ~Konflikt(l), NEW k \in DOMAIN lauf[l].neu, Ungestoert(k), ~schlossHaelt,
         NEW n \in Schreibt, n = lauf[l].neu[k], NEW o \in Schreibt, VorhabenStimmt(k, o),
         ordner'[k] = Geschrieben(k, n), server'[k] = server[k], schlossHaelt' = schlossHaelt,
         verloren \subseteq verloren'
  PROVE  VorhabenStimmt(k, o)'
<1>0. /\ server[k].gueltig \in 1..MaxGueltig /\ k \in Konten
      /\ ordner[k].gueltig \in 0..MaxGueltig
  BY AbrufFakten
<1>1. OrdnerStimmt(k) /\ VorhabenStimmt(k, n) /\ server[k].gueltig = 1
  BY <1>0 DEF IAbruf, KontoStimmt, Ungestoert
<1>2. n.gueltig \in 1..MaxGueltig /\ o.gueltig \in 1..MaxGueltig /\ o.altGueltig \in 0..MaxGueltig
      /\ n.altGueltig \in 0..MaxGueltig
  BY DEF Schreibt
<1>3. n.gueltig = 1 /\ o.gueltig = 1
  BY <1>0, <1>1, <1>2 DEF VorhabenStimmt
<1>4. ordner[k].gueltig \in {0, 1}
  BY <1>0, <1>1 DEF OrdnerStimmt
<1>5. n.altGueltig \in {0, 1} /\ o.altGueltig \in {0, 1}
  BY <1>1, <1>4 DEF VorhabenStimmt
<1>6. ordner'[k].post = ordner[k].post \cup n.post /\ (ordner[k].gueltig # 0 => ordner'[k].gueltig = ordner[k].gueltig)
  BY <1>3, <1>4, <1>5 DEF Geschrieben, Bestehend
<1>7. Bestehend(k, o) = ordner[k].post /\ Bestehend(k, o)' = ordner'[k].post
  BY <1>3, <1>5 DEF Bestehend
<1>8. Bestehend(k, o) \subseteq Bestehend(k, o)'
  BY <1>6, <1>7
<1>9. o.altGueltig # 0 => o.altGueltig = ordner'[k].gueltig
  BY <1>1, <1>6 DEF VorhabenStimmt
<1>10. QED
  BY <1>8, <1>9 DEF VorhabenStimmt

LEMMA AbrufTickEndet ==
  ASSUME IAbruf, NEW l \in Laeufe, TickEndet(l)
  PROVE  IAbruf'
<1>0. /\ server \in [Konten -> [gueltig : 1..MaxGueltig, bis : 0..MaxUid, da : SUBSET (1..MaxUid)]]
      /\ ordner \in [Konten -> [gueltig : 0..MaxGueltig, bis : 0..MaxUid, post : SUBSET Nachrichten]]
      /\ lauf \in [Laeufe -> LaufZustand] /\ verloren \subseteq Konten \X Nachrichten
  BY AbrufFakten DEF IAbruf, MsTyp
<1>1. PICK neu : neu = lauf[l].neu
  OBVIOUS
<1>2. /\ lauf[l].laeuft /\ ~Konflikt(l)
      /\ ordner' = [k \in Konten |-> IF k \in DOMAIN neu THEN Geschrieben(k, neu[k]) ELSE ordner[k]]
      /\ verloren' = verloren \cup UNION {{<<k, m>> : m \in neu[k].weg} : k \in DOMAIN neu}
      /\ lauf' = [lauf EXCEPT ![l] = Ruhend]
      /\ UNCHANGED <<server, pannen, aktiv, schlossHaelt>>
  BY <1>1 DEF TickEndet
<1>3. \A k \in DOMAIN neu : k \in Konten /\ neu[k] \in Schreibt
  BY <1>1, AbrufFakten
<1>4. Ruhend \in LaufZustand /\ Ruhend.laeuft = FALSE /\ Ruhend.offen = {} /\ DOMAIN Ruhend.neu = {}
  BY LeererLauf DEF Ruhend
<1>5. lauf'[l] = Ruhend /\ \A h \in Laeufe \ {l} : lauf'[h] = lauf[h]
  BY <1>0, <1>2
<1>6. LaufTyp' /\ EinTick'
  <2>1. LaufTyp'
    BY <1>0, <1>2, <1>4 DEF LaufTyp
  <2>2. EinTick'
    BY <1>2, <1>4, <1>5 DEF IAbruf, EinTick
  <2>3. QED
    BY <2>1, <2>2
<1>7. verloren \subseteq verloren' /\ \A k \in DOMAIN neu : \A m \in neu[k].weg : <<k, m>> \in verloren'
  BY <1>2
<1>8. MsTyp'
  <2>1. ASSUME NEW k \in DOMAIN neu
        PROVE  Geschrieben(k, neu[k]) \in [gueltig : 0..MaxGueltig, bis : 0..MaxUid, post : SUBSET Nachrichten]
    <3>1. /\ neu[k].gueltig \in 0..MaxGueltig /\ neu[k].bis \in 0..MaxUid /\ neu[k].post \subseteq Nachrichten
          /\ ordner[k].gueltig \in 0..MaxGueltig /\ ordner[k].bis \in 0..MaxUid /\ ordner[k].post \subseteq Nachrichten
      BY <1>0, <1>3 DEF Schreibt
    <3>2. Bestehend(k, neu[k]) \cup neu[k].post \in SUBSET Nachrichten
      BY <3>1 DEF Bestehend
    <3>3. QED
      BY <3>1, <3>2 DEF Geschrieben
  <2>2. ordner' \in [Konten -> [gueltig : 0..MaxGueltig, bis : 0..MaxUid, post : SUBSET Nachrichten]]
    BY <2>1, <1>0, <1>2
  <2>3. verloren' \subseteq Konten \X Nachrichten
    <3>1. \A k \in DOMAIN neu : neu[k].weg \subseteq Nachrichten
      BY <1>3 DEF Schreibt
    <3>2. QED
      BY <3>1, <1>0, <1>2, <1>3
  <2>4. QED
    BY <2>2, <2>3, <1>2, <1>4, <1>5 DEF IAbruf, MsTyp
<1>9. ASSUME NEW k \in Konten PROVE ServerStimmt(k)' /\ KontoStimmt(k)'
  <2>1. ServerStimmt(k) /\ KontoStimmt(k) /\ server' = server /\ schlossHaelt' = schlossHaelt
    BY <1>2 DEF IAbruf
  <2>2. ServerStimmt(k)' /\ Ungestoert(k)' = Ungestoert(k)
    BY <2>1 DEF ServerStimmt, Ungestoert
  <2>3. CASE k \notin DOMAIN neu
    <3>1. ordner'[k] = ordner[k]
      BY <1>2, <2>3
    <3>2. Ungestoert(k) => OrdnerStimmt(k)'
      BY <2>1, <3>1, <1>7 DEF KontoStimmt, OrdnerStimmt
    <3>3. ASSUME NEW o, VorhabenStimmt(k, o) PROVE VorhabenStimmt(k, o)'
      BY <3>3, <2>1, <3>1, <1>7 DEF VorhabenStimmt, Bestehend
    <3>4. ASSUME Ungestoert(k), NEW h \in Laeufe, k \in DOMAIN lauf'[h].neu
          PROVE  VorhabenStimmt(k, lauf[h].neu[k])'
      <4>1. PICK o : o = lauf'[h].neu[k]
        OBVIOUS
      <4>2. VorhabenStimmt(k, o)
        BY <1>4, <1>5, <2>1, <3>4, <4>1 DEF KontoStimmt
      <4>3. VorhabenStimmt(k, o)'
        BY <4>2, <3>3
      <4>4. QED
        BY <4>1, <4>3
    <3>5. QED
      BY <2>2, <3>2, <3>4 DEF KontoStimmt
  <2>4. CASE k \in DOMAIN neu
    <3>1. PICK n \in Schreibt : n = lauf[l].neu[k] /\ ordner'[k] = Geschrieben(k, n)
      BY <1>1, <1>2, <1>3, <2>4
    <3>2. Ungestoert(k) => OrdnerStimmt(k)'
      BY <1>1, <1>2, <1>7, <2>1, <2>4, <3>1, GeschriebenStimmt
    <3>3. ASSUME Ungestoert(k), NEW h \in Laeufe, k \in DOMAIN lauf'[h].neu
          PROVE  VorhabenStimmt(k, lauf[h].neu[k])'
      <4>1. h # l /\ lauf'[h] = lauf[h]
        BY <1>4, <1>5, <3>3
      <4>2. lauf[h].laeuft /\ ~schlossHaelt
        BY <1>2, <1>4, <4>1, <3>3 DEF IAbruf, EinTick
      <4>3. PICK o \in Schreibt : o = lauf[h].neu[k]
        BY <4>1, <3>3, AbrufFakten
      <4>4. VorhabenStimmt(k, o)
        BY <2>1, <3>3, <4>1, <4>3 DEF KontoStimmt
      <4>5. VorhabenStimmt(k, o)'
        BY <1>1, <1>2, <1>7, <2>1, <2>4, <3>1, <3>3, <4>2, <4>4, AnderesVorhaben
      <4>6. QED
        BY <4>1, <4>3, <4>5
    <3>4. QED
      BY <2>2, <3>2, <3>3 DEF KontoStimmt
  <2>5. QED
    BY <2>3, <2>4
<1>10. QED
  BY <1>2, <1>6, <1>8, <1>9 DEF IAbruf

LEMMA AbrufSchritt ==
  ASSUME IAbruf, MsNext
  PROVE  IAbruf'
<1>0. pannen \in 0..MaxPannen /\ MaxPannen \in Nat
  BY MailSyncAnnahme DEF IAbruf, MsTyp
<1>1. ASSUME NEW k \in Konten, Ankunft(k) \/ Entfernt(k) \/ Neuaufbau(k)
      PROVE  IAbruf'
  BY <1>1, AbrufAnkunft, AbrufEntfernt, AbrufNeuaufbau
<1>2. ASSUME NEW l \in Laeufe, NEW k \in Konten, KontoNichtErreicht(l, k) \/ Holt(l, k) \/ HoltTeilweise(l, k)
      PROVE  IAbruf'
  BY <1>2, AbrufNichtErreicht, AbrufHolt
<1>3. ASSUME NEW l \in Laeufe, TickBeginnt(l) \/ TickEndet(l) \/ TickScheitert(l) \/ TickAbgebrochen(l)
      PROVE  IAbruf'
  <2>1. CASE TickBeginnt(l)
    BY <2>1, AbrufTickBeginnt
  <2>2. CASE TickEndet(l)
    BY <2>2, AbrufTickEndet
  <2>3. CASE TickScheitert(l)
    <3>1. TickVerworfen(l) /\ pannen' \in 0..MaxPannen
      BY <2>3, <1>0 DEF TickScheitert
    <3>2. QED
      BY <3>1, AbrufVerworfen
  <2>4. CASE TickAbgebrochen(l)
    <3>1. TickVerworfen(l) /\ pannen' \in 0..MaxPannen
      BY <2>4, <1>0 DEF TickAbgebrochen
    <3>2. QED
      BY <3>1, AbrufVerworfen
  <2>5. QED
    BY <1>3, <2>1, <2>2, <2>3, <2>4
<1>4. QED
  BY <1>1, <1>2, <1>3 DEF MsNext, Sync

-----------------------------------------------------------------------------
(* Both parts, as they are checked together. *)

LEMMA PostRuht ==
  ASSUME UNCHANGED <<teil, einer, vars>>, IAnzeige
  PROVE  IAnzeige'
<1>1. zeile' = zeile /\ log' = log /\ anhang' = anhang /\ worker' = worker /\ zugestellt' = zugestellt
      /\ wiederholt' = wiederholt /\ unklar' = unklar /\ einer' = einer
  BY DEF vars
<1>2. TypeOK' /\ Haltung'
  BY <1>1 DEF IAnzeige, TypInv, TypeOK, Haltung
<1>3. ErfolgEcht' /\ GesendetHeisstZugestellt'
  BY <1>1 DEF IAnzeige, ErfolgEcht, GesendetHeisstZugestellt
<1>4. einer => AlleinBesitzt' /\ LogFolgtZeile' /\ AnhangBleibt'
  BY <1>1 DEF IAnzeige, AlleinBesitzt, LogFolgtZeile, AnhangBleibt
<1>5. QED
  BY <1>1, <1>2, <1>3, <1>4 DEF IAnzeige, TypInv

LEMMA AbrufRuht ==
  ASSUME UNCHANGED msVars, IAbruf
  PROVE  IAbruf'
<1>1. /\ server' = server /\ ordner' = ordner /\ lauf' = lauf /\ verloren' = verloren
      /\ pannen' = pannen /\ aktiv' = aktiv /\ schlossHaelt' = schlossHaelt
  BY DEF msVars
<1>2. MsTyp' /\ LaufTyp' /\ EinTick'
  BY <1>1 DEF IAbruf, MsTyp, LaufTyp, EinTick
<1>3. \A k \in Konten : ServerStimmt(k)' /\ KontoStimmt(k)'
  BY <1>1 DEF IAbruf, ServerStimmt, KontoStimmt, Ungestoert, OrdnerStimmt, VorhabenStimmt, Bestehend
<1>4. QED
  BY <1>1, <1>2, <1>3 DEF IAbruf

LEMMA PostStart == MCInit => IAnzeige /\ IAbruf
BY AnzeigeStart, AbrufStart DEF MCInit

LEMMA PostSchritt ==
  ASSUME IAnzeige, IAbruf, [MCNext]_<<teil, einer, vars, msVars>>
  PROVE  IAnzeige' /\ IAbruf'
<1>1. CASE Senden /\ UNCHANGED <<teil, einer, msVars>>
  BY <1>1, AnzeigeSchritt, AbrufRuht
<1>2. CASE Abrufen /\ UNCHANGED <<teil, einer, vars>>
  BY <1>2, AbrufSchritt, PostRuht DEF Abrufen
<1>3. CASE UNCHANGED <<teil, einer, vars, msVars>>
  BY <1>3, AbrufRuht, PostRuht
<1>4. QED
  BY <1>1, <1>2, <1>3 DEF MCNext

LEMMA PostInvariante == MCSpec => [](IAnzeige /\ IAbruf)
BY PostStart, PostSchritt, PTL DEF MCSpec

(***************************************************************************)
(* Nothing falls through the watermark of the mailbox sync, for any number *)
(* of workers, accounts, messages, rebuilds and failures.                  *)
(***************************************************************************)
THEOREM AbrufBleibtVollstaendig == MCSpec => []AbrufVollstaendig
<1>1. IAbruf => AbrufVollstaendig
  BY DEF IAbruf, KontoStimmt, OrdnerStimmt, AbrufVollstaendig
<1>2. QED
  BY <1>1, PostInvariante, PTL

(***************************************************************************)
(* "Sent" means that a server took the mail over, whichever worker wrote   *)
(* last; with one worker the mail history follows the row, and attachments *)
(* stay until the mail is sent.                                            *)
(***************************************************************************)
THEOREM AnzeigeBleibtWahr == MCSpec => []AnzeigeStimmt
<1>1. IAnzeige => AnzeigeStimmt
  BY DEF IAnzeige, AnzeigeStimmt
<1>2. QED
  BY <1>1, PostInvariante, PTL

(***************************************************************************)
(* The tables and the local states of outbox and sync keep their types.    *)
(***************************************************************************)
THEOREM PostTypen == MCSpec => []PostTyp
<1>1. IAnzeige /\ IAbruf => PostTyp
  BY DEF IAnzeige, TypInv, IAbruf, PostTyp
<1>2. QED
  BY <1>1, PostInvariante, PTL
=============================================================================
