---------------------------- MODULE Feld_proofs ----------------------------
(***************************************************************************)
(* What holds of the work in the field for every set of entries, tabs,     *)
(* users, targets, jobs, schedulers and requests.                          *)
(***************************************************************************)
EXTENDS MCFeld, FiniteSetTheorems, TLAPS

-----------------------------------------------------------------------------
(***************************************************************************)
(* The queue of the field app: what the server stores.                     *)
(***************************************************************************)

Absender == Tabs \cup Eintraege

(* A photo carries the same client_uuid in every request. *)
Passt(q) == Art[q.e] = "foto" => q.schluessel = "direkt"

AnfragenPassen ==
  /\ \A p \in Absender : anfrage[p] # Frei => Passt(anfrage[p])
  /\ \A q \in nachzuegler : Passt(q)

OkHeisstGespeichert ==
  \A p \in Absender : anfrage[p].phase = "ok" => kopien[anfrage[p].e] > 0

SchluesselHeisstKopie == \A e \in Eintraege : schluessel[e] # {} => kopien[e] > 0

FotoGezaehlt ==
  \A e \in Eintraege : Art[e] = "foto" =>
    kopien[e] = IF "direkt" \in schluessel[e] THEN 1 ELSE 0

(***************************************************************************)
(* The order of the queue.  An entry is queued once, after its direct      *)
(* attempt.  A tab that works off an entry has every older one that waits  *)
(* on its list, so what it sends is not overtaken.                         *)
(***************************************************************************)

InReihe(e) == \E i \in DOMAIN reihe : reihe[i] = e

DirektVorher ==
  \A e \in Eintraege :
    /\ anfrage[e] # Frei => anfrage[e].e = e /\ urheber[e] # None /\ ~InReihe(e)
    /\ InReihe(e) => urheber[e] # None

WartendInReihe == \A e \in Eintraege : lager[e] = "wartend" => InReihe(e)

ListeVollstaendig ==
  \A t \in Tabs : \A e \in liste[t] :
    /\ InReihe(e)
    /\ \A d \in Eintraege : Vor(d, e) /\ lager[d] = "wartend" => d \in liste[t]

AelteresFertig ==
  \A t \in Tabs, e \in Eintraege : anfrage[t] # Frei /\ anfrage[t].e = e =>
    /\ e \in liste[t]
    /\ \A d \in Eintraege : Vor(d, e) => lager[d] # "wartend"

ServerGilt == AnfragenPassen /\ OkHeisstGespeichert /\ SchluesselHeisstKopie /\ FotoGezaehlt
ReiheGilt == DirektVorher /\ WartendInReihe /\ ListeVollstaendig /\ AelteresFertig

IOffline == OffTyp /\ ServerGilt /\ ReiheGilt /\ NichtsVerschwindet

-----------------------------------------------------------------------------
LEMMA FreiFakten ==
  /\ Frei.phase = "frei"
  /\ \A q \in Anfragen : /\ q # Frei /\ q.phase # "frei"
                         /\ q.e \in Eintraege /\ q.schluessel \in Schluessel
                         /\ q.nutzer \in Nutzer \cup {None}
                         /\ q.phase \in {"unterwegs", "schreibt", "ok", "abgelehnt"}
BY DEF Frei, Anfragen

\* A request whose phase changes is a request for the same entry with the same key.
LEMMA PhaseFakten ==
  ASSUME NEW q \in Anfragen, NEW f \in {"unterwegs", "schreibt", "ok", "abgelehnt"}
  PROVE  /\ [q EXCEPT !.phase = f] \in Anfragen
         /\ [q EXCEPT !.phase = f].phase = f
         /\ [q EXCEPT !.phase = f].e = q.e
         /\ [q EXCEPT !.phase = f].schluessel = q.schluessel
BY DEF Anfragen

LEMMA AnfrageFakten ==
  ASSUME NEW e \in Eintraege, NEW s \in Schluessel, NEW n \in Nutzer \cup {None}
  PROVE  /\ Anfrage(e, s, n) \in Anfragen /\ Anfrage(e, s, n).e = e
         /\ Anfrage(e, s, n).schluessel = s /\ Anfrage(e, s, n).phase = "unterwegs"
BY DEF Anfrage, Anfragen

LEMMA GelesenFakten ==
  ASSUME IOffline, NEW q \in Anfragen
  PROVE  /\ Gelesen(q) \in {"schreibt", "ok", "abgelehnt"}
         /\ Gelesen(q) = "ok" => kopien[q.e] > 0
<1>1. Bekannt(q) => schluessel[q.e] # {}
  BY DEF Bekannt
<1>2. q.e \in Eintraege
  BY FreiFakten
<1>3. Bekannt(q) => kopien[q.e] > 0
  BY <1>1, <1>2 DEF IOffline, ServerGilt, SchluesselHeisstKopie
<1>4. QED
  BY <1>3 DEF Gelesen

LEMMA SchluesselFakten ==
  ASSUME NEW e \in Eintraege
  PROVE  /\ DirektSchluessel(e) \in Schluessel /\ SchlangeSchluessel(e) \in Schluessel
         /\ Art[e] = "foto" => DirektSchluessel(e) = "direkt" /\ SchlangeSchluessel(e) = "direkt"
<1>1. Art[e] \in {"kommentar", "foto", "vorgang", "status"}
  BY OutboxAnnahme
<1>2. QED
  BY <1>1 DEF DirektSchluessel, SchlangeSchluessel, Schluessel

\* Types of the requests, in the form the steps need them.
LEMMA AnfrageTyp ==
  ASSUME OffTyp
  PROVE  /\ anfrage \in [Absender -> Anfragen \cup {Frei}]
         /\ \A p \in Absender : anfrage[p].phase # "frei" => anfrage[p] \in Anfragen
         /\ \A p \in Absender : anfrage[p] # Frei => anfrage[p] \in Anfragen
         /\ \A q \in nachzuegler : q \in Anfragen
BY FreiFakten DEF OffTyp, Absender

\* What changes neither the store of the server nor adds a request with a wrong key.
LEMMA ServerBleibt ==
  ASSUME IOffline, UNCHANGED <<kopien, schluessel>>,
         \A p \in Absender : anfrage'[p] # Frei =>
           /\ Passt(anfrage'[p])
           /\ anfrage'[p].phase = "ok" => kopien[anfrage'[p].e] > 0,
         \A p \in Absender : anfrage'[p] = Frei => anfrage'[p].phase # "ok",
         \A q \in nachzuegler' : Passt(q)
  PROVE  ServerGilt'
BY DEF IOffline, ServerGilt, AnfragenPassen, OkHeisstGespeichert, SchluesselHeisstKopie,
       FotoGezaehlt, Passt

\* The requests of the queue keep their entries, and nothing starts to wait.
LEMMA ReiheBleibt ==
  ASSUME IOffline, UNCHANGED <<urheber, reihe>>,
         \A e \in Eintraege : lager'[e] = "wartend" => lager[e] = "wartend",
         \A p \in Absender : anfrage'[p] # Frei => anfrage[p] # Frei /\ anfrage'[p].e = anfrage[p].e,
         \A t \in Tabs : \/ liste'[t] = liste[t]
                         \/ anfrage'[t] = Frei /\ liste'[t] \subseteq liste[t]
                            /\ \A d \in liste[t] \ liste'[t] : lager'[d] # "wartend"
                         \/ anfrage'[t] = Frei /\ liste'[t] = {}
  PROVE  ReiheGilt'
<1> USE DEF IOffline, ReiheGilt
<1>1. \A e \in Eintraege : InReihe(e)' = InReihe(e)
  BY DEF InReihe
<1>2. \A d, e \in Eintraege : Vor(d, e)' = Vor(d, e)
  BY DEF Vor
<1>3. DirektVorher'
  BY <1>1 DEF DirektVorher, Absender
<1>4. WartendInReihe'
  BY <1>1 DEF WartendInReihe
<1>5. \A t \in Tabs : liste[t] \subseteq Eintraege
  BY DEF OffTyp
<1>6. ListeVollstaendig'
  <2> SUFFICES ASSUME NEW t \in Tabs, NEW e \in liste'[t]
               PROVE  /\ InReihe(e)'
                      /\ \A d \in Eintraege : Vor(d, e)' /\ lager'[d] = "wartend" => d \in liste'[t]
    BY DEF ListeVollstaendig
  <2>1. e \in liste[t] /\ e \in Eintraege
    BY <1>5
  <2>2. InReihe(e) /\ \A d \in Eintraege : Vor(d, e) /\ lager[d] = "wartend" => d \in liste[t]
    BY <2>1 DEF ListeVollstaendig
  <2>3. QED
    BY <1>1, <1>2, <2>1, <2>2
<1>7. AelteresFertig'
  <2> SUFFICES ASSUME NEW t \in Tabs, NEW e \in Eintraege, anfrage'[t] # Frei, anfrage'[t].e = e
               PROVE  /\ e \in liste'[t]
                      /\ \A d \in Eintraege : Vor(d, e)' => lager'[d] # "wartend"
    BY DEF AelteresFertig
  <2>1. anfrage[t] # Frei /\ anfrage[t].e = e
    BY DEF Absender
  <2>2. e \in liste[t] /\ \A d \in Eintraege : Vor(d, e) => lager[d] # "wartend"
    BY <2>1 DEF AelteresFertig
  <2>3. liste'[t] = liste[t]
    BY DEF Absender
  <2>4. QED
    BY <1>2, <2>2, <2>3
<1>8. QED
  BY <1>3, <1>4, <1>6, <1>7

\* Nothing vanishes in a step that only moves what is known of an entry.
LEMMA NichtsGeht ==
  ASSUME NichtsVerschwindet, UNCHANGED urheber, beendet \subseteq beendet',
         \A e \in Eintraege :
           /\ kopien[e] > 0 => kopien'[e] > 0
           /\ lager[e] # "leer" => lager'[e] # "leer" \/ e \in beendet' \/ kopien'[e] > 0
           /\ anfrage[e] # Frei => \/ anfrage'[e] # Frei \/ lager'[e] # "leer"
                                   \/ e \in beendet' \/ kopien'[e] > 0
  PROVE  NichtsVerschwindet'
BY DEF NichtsVerschwindet

-----------------------------------------------------------------------------
(***************************************************************************)
(* One lemma for every action of the queue.                                *)
(***************************************************************************)

\* A request changes its phase.
LEMMA EinePhase ==
  ASSUME OffTyp, NEW p \in Absender, anfrage[p] \in Anfragen,
         NEW f \in {"unterwegs", "schreibt", "ok", "abgelehnt"},
         anfrage' = [anfrage EXCEPT ![p].phase = f]
  PROVE  /\ anfrage' \in [Tabs \cup Eintraege -> Anfragen \cup {Frei}]
         /\ \A x \in Absender : x # p => anfrage'[x] = anfrage[x]
         /\ anfrage'[p] # Frei /\ anfrage'[p].phase = f
         /\ anfrage'[p].e = anfrage[p].e /\ anfrage'[p].schluessel = anfrage[p].schluessel
<1> DEFINE neu == [anfrage[p] EXCEPT !.phase = f]
<1>1. /\ neu \in Anfragen /\ neu.phase = f /\ neu.e = anfrage[p].e
      /\ neu.schluessel = anfrage[p].schluessel
  BY PhaseFakten
<1>2. neu # Frei
  BY <1>1, FreiFakten
<1>3. anfrage' = [anfrage EXCEPT ![p] = neu] /\ anfrage \in [Absender -> Anfragen \cup {Frei}]
  BY AnfrageTyp
<1> HIDE DEF neu
<1>4. QED
  BY <1>1, <1>2, <1>3 DEF Absender

\* A request is dropped.
LEMMA WirdFrei ==
  ASSUME OffTyp, NEW p \in Absender, anfrage' = [anfrage EXCEPT ![p] = Frei]
  PROVE  /\ anfrage' \in [Tabs \cup Eintraege -> Anfragen \cup {Frei}]
         /\ \A x \in Absender : x # p => anfrage'[x] = anfrage[x]
         /\ anfrage'[p] = Frei
BY AnfrageTyp DEF Absender

\* No step of the device frees a request by turning it into something else.
LEMMA FreiIstFrei ==
  ASSUME NEW p \in Absender, anfrage'[p] = Frei
  PROVE  anfrage'[p].phase # "ok"
BY FreiFakten

\* What a request writes: the unique index keeps a second photo out.
LEMMA Gespeichert ==
  ASSUME IOffline, NEW q \in Anfragen, Passt(q), Speichere(q)
  PROVE  /\ kopien' \in [Eintraege -> Nat]
         /\ schluessel' \in [Eintraege -> SUBSET Schluessel]
         /\ offen' \in BOOLEAN
         /\ \A e \in Eintraege : kopien[e] > 0 => kopien'[e] > 0
         /\ kopien'[q.e] > 0
         /\ SchluesselHeisstKopie' /\ FotoGezaehlt'
<1>0. /\ kopien \in [Eintraege -> Nat] /\ schluessel \in [Eintraege -> SUBSET Schluessel]
      /\ q.e \in Eintraege /\ q.schluessel \in Schluessel
      /\ SchluesselHeisstKopie /\ FotoGezaehlt
  BY FreiFakten DEF IOffline, OffTyp, ServerGilt
<1>1. offen \in BOOLEAN
  BY DEF IOffline, OffTyp
<1>2. CASE Bekannt(q)
  <2>1. UNCHANGED <<kopien, schluessel, offen>>
    BY <1>2 DEF Speichere, server
  <2>2. kopien[q.e] > 0
    BY <1>0, <1>2 DEF Bekannt, SchluesselHeisstKopie
  <2>3. SchluesselHeisstKopie'
    BY <1>0, <2>1 DEF SchluesselHeisstKopie
  <2>4. FotoGezaehlt'
    BY <1>0, <2>1 DEF FotoGezaehlt
  <2>5. QED
    BY <1>0, <1>1, <2>1, <2>2, <2>3, <2>4
<1>3. CASE ~Bekannt(q)
  <2>1. /\ kopien' = [kopien EXCEPT ![q.e] = @ + 1]
        /\ schluessel' = [schluessel EXCEPT ![q.e] = @ \cup {q.schluessel}]
    BY <1>3 DEF Speichere
  <2>2. offen' = (offen /\ Art[q.e] # "status")
    BY <1>3 DEF Speichere
  <2>3. offen' \in BOOLEAN
    BY <2>2
  <2>4. /\ kopien'[q.e] = kopien[q.e] + 1
        /\ schluessel'[q.e] = schluessel[q.e] \cup {q.schluessel}
        /\ \A e \in Eintraege : e # q.e => kopien'[e] = kopien[e] /\ schluessel'[e] = schluessel[e]
        /\ kopien' \in [Eintraege -> Nat] /\ schluessel' \in [Eintraege -> SUBSET Schluessel]
    BY <1>0, <2>1
  <2>5. SchluesselHeisstKopie'
    BY <1>0, <2>4 DEF SchluesselHeisstKopie
  <2>6. Art[q.e] = "foto" => q.schluessel = "direkt" /\ "direkt" \notin schluessel[q.e]
    BY <1>3 DEF Passt, Bekannt
  <2>7. FotoGezaehlt'
    <3>1. \A e \in Eintraege : e # q.e /\ Art[e] = "foto" =>
            kopien'[e] = IF "direkt" \in schluessel'[e] THEN 1 ELSE 0
      BY <1>0, <2>4 DEF FotoGezaehlt
    <3>2. Art[q.e] = "foto" => kopien'[q.e] = 1 /\ "direkt" \in schluessel'[q.e]
      BY <1>0, <2>4, <2>6 DEF FotoGezaehlt
    <3>3. QED
      BY <3>1, <3>2 DEF FotoGezaehlt
  <2>8. QED
    BY <1>0, <2>3, <2>4, <2>5, <2>7
<1>4. QED
  BY <1>2, <1>3

\* The server writes: the requests on the device change at most their phase.
LEMMA ServerNach ==
  ASSUME IOffline, NEW q \in Anfragen, Passt(q), Speichere(q), UNCHANGED geraet,
         \A p \in Absender :
           \/ anfrage'[p] = anfrage[p]
           \/ /\ anfrage[p] # Frei /\ anfrage'[p] # Frei
              /\ anfrage'[p].e = anfrage[p].e /\ anfrage'[p].schluessel = anfrage[p].schluessel
              /\ anfrage'[p].phase = "ok" => anfrage[p].e = q.e,
         nachzuegler' \subseteq nachzuegler
  PROVE  ServerGilt' /\ ReiheGilt' /\ NichtsVerschwindet'
<1>1. /\ \A e \in Eintraege : kopien[e] > 0 => kopien'[e] > 0
      /\ kopien'[q.e] > 0 /\ SchluesselHeisstKopie' /\ FotoGezaehlt'
  BY Gespeichert
<1>2. AnfragenPassen /\ OkHeisstGespeichert /\ OffTyp
  BY DEF IOffline, ServerGilt
<1>3. AnfragenPassen'
  BY <1>2 DEF AnfragenPassen, Passt
<1>4. \A p \in Absender : anfrage[p].phase = "ok" => anfrage[p].e \in Eintraege
  BY <1>2, AnfrageTyp, FreiFakten
<1>5. OkHeisstGespeichert'
  BY <1>1, <1>2, <1>4 DEF OkHeisstGespeichert
<1>6. ReiheGilt'
  <2>1. UNCHANGED <<urheber, lager, reihe, liste>>
    BY DEF geraet
  <2>2. QED
    BY <2>1, ReiheBleibt
<1>7. NichtsVerschwindet'
  <2>1. UNCHANGED <<urheber, lager, beendet>> /\ NichtsVerschwindet
    BY DEF geraet, IOffline
  <2>2. \A e \in Eintraege : anfrage[e] # Frei => anfrage'[e] # Frei
    BY DEF Absender
  <2>3. QED
    BY <1>1, <2>1, <2>2, NichtsGeht
<1>8. QED
  BY <1>1, <1>3, <1>5, <1>6, <1>7 DEF ServerGilt

LEMMA Liest ==
  ASSUME IOffline, NEW p \in Absender, ServerLiest(p)
  PROVE  IOffline'
<1>0. OffTyp /\ anfrage[p] \in Anfragen /\ anfrage[p] # Frei
  <2>1. anfrage[p].phase = "unterwegs"
    BY DEF ServerLiest
  <2>2. QED
    BY <2>1, AnfrageTyp, FreiFakten DEF IOffline
<1> DEFINE f == Gelesen(anfrage[p])
<1>1. f \in {"unterwegs", "schreibt", "ok", "abgelehnt"} /\ (f = "ok" => kopien[anfrage[p].e] > 0)
  BY <1>0, GelesenFakten
<1>2. anfrage' = [anfrage EXCEPT ![p].phase = f]
  BY DEF ServerLiest
<1> HIDE DEF f
<1>3. /\ anfrage' \in [Tabs \cup Eintraege -> Anfragen \cup {Frei}]
      /\ \A x \in Absender : x # p => anfrage'[x] = anfrage[x]
      /\ anfrage'[p] # Frei /\ anfrage'[p].phase = f
      /\ anfrage'[p].e = anfrage[p].e /\ anfrage'[p].schluessel = anfrage[p].schluessel
  BY <1>0, <1>1, <1>2, EinePhase
<1>4. UNCHANGED <<urheber, lager, reihe, token, liste, beendet, kopien, schluessel, offen,
                  nachzuegler, ausfaelle>>
  BY DEF ServerLiest, geraet, server
<1>5. OffTyp'
  BY <1>0, <1>3, <1>4 DEF OffTyp
<1>6. ServerGilt'
  BY <1>0, <1>1, <1>3, <1>4, FreiFakten, ServerBleibt
     DEF IOffline, ServerGilt, AnfragenPassen, OkHeisstGespeichert, Passt
<1>7. ReiheGilt'
  BY <1>0, <1>3, <1>4, ReiheBleibt
<1>8. NichtsVerschwindet'
  BY <1>0, <1>3, <1>4, NichtsGeht DEF IOffline, Absender
<1>9. QED
  BY <1>5, <1>6, <1>7, <1>8 DEF IOffline

LEMMA Schreibt ==
  ASSUME IOffline, NEW p \in Absender, ServerSchreibt(p)
  PROVE  IOffline'
<1>0. OffTyp /\ anfrage[p] \in Anfragen /\ anfrage[p] # Frei
  <2>1. anfrage[p].phase = "schreibt"
    BY DEF ServerSchreibt
  <2>2. QED
    BY <2>1, AnfrageTyp, FreiFakten DEF IOffline
<1> DEFINE f == Geschrieben(anfrage[p])
<1>1. f \in {"unterwegs", "schreibt", "ok", "abgelehnt"}
  BY DEF Geschrieben
<1>2. anfrage' = [anfrage EXCEPT ![p].phase = f]
  BY DEF ServerSchreibt
<1> HIDE DEF f
<1>3. /\ anfrage' \in [Tabs \cup Eintraege -> Anfragen \cup {Frei}]
      /\ \A x \in Absender : x # p => anfrage'[x] = anfrage[x]
      /\ anfrage'[p] # Frei /\ anfrage'[p].phase = f
      /\ anfrage'[p].e = anfrage[p].e /\ anfrage'[p].schluessel = anfrage[p].schluessel
  BY <1>0, <1>1, <1>2, EinePhase
<1>4. Passt(anfrage[p]) /\ Speichere(anfrage[p])
  BY <1>0 DEF IOffline, ServerGilt, AnfragenPassen, ServerSchreibt
<1>5. UNCHANGED <<geraet, nachzuegler, ausfaelle>>
  BY DEF ServerSchreibt
<1>6. ServerGilt' /\ ReiheGilt' /\ NichtsVerschwindet'
  BY <1>0, <1>3, <1>4, <1>5, ServerNach
<1>7. /\ kopien' \in [Eintraege -> Nat] /\ schluessel' \in [Eintraege -> SUBSET Schluessel]
      /\ offen' \in BOOLEAN
  BY <1>0, <1>4, Gespeichert
<1>8. OffTyp'
  BY <1>0, <1>3, <1>5, <1>7 DEF OffTyp, geraet
<1>9. QED
  BY <1>6, <1>8 DEF IOffline

LEMMA SpaetGelesen ==
  ASSUME IOffline, NEW q \in nachzuegler, NachzueglerLiest(q)
  PROVE  IOffline'
<1> DEFINE neu == [q EXCEPT !.phase = "schreibt"]
<1>0. OffTyp /\ q \in Anfragen /\ Passt(q)
  BY AnfrageTyp DEF IOffline, ServerGilt, AnfragenPassen
<1>1. neu \in Anfragen /\ neu.e = q.e /\ neu.schluessel = q.schluessel
  BY <1>0, PhaseFakten
<1>2. nachzuegler' \subseteq nachzuegler \cup {neu}
  BY DEF NachzueglerLiest
<1> HIDE DEF neu
<1>3. Passt(neu)
  BY <1>0, <1>1 DEF Passt
<1>4. UNCHANGED <<urheber, lager, reihe, token, liste, beendet, kopien, schluessel, offen,
                  anfrage, ausfaelle>>
  BY DEF NachzueglerLiest, geraet, server
<1>5. OffTyp'
  BY <1>0, <1>1, <1>2, <1>4 DEF OffTyp
<1>6. ServerGilt'
  BY <1>2, <1>3, <1>4, ServerBleibt, FreiFakten
     DEF IOffline, ServerGilt, AnfragenPassen, OkHeisstGespeichert
<1>7. ReiheGilt'
  BY <1>4, ReiheBleibt
<1>8. NichtsVerschwindet'
  BY <1>4, NichtsGeht DEF IOffline
<1>9. QED
  BY <1>5, <1>6, <1>7, <1>8 DEF IOffline

LEMMA SpaetGeschrieben ==
  ASSUME IOffline, NEW q \in nachzuegler, NachzueglerSchreibt(q)
  PROVE  IOffline'
<1>0. OffTyp /\ q \in Anfragen /\ Passt(q) /\ Speichere(q)
  BY AnfrageTyp DEF IOffline, ServerGilt, AnfragenPassen, NachzueglerSchreibt
<1>1. UNCHANGED <<geraet, anfrage, ausfaelle>> /\ nachzuegler' \subseteq nachzuegler
  BY DEF NachzueglerSchreibt
<1>2. ServerGilt' /\ ReiheGilt' /\ NichtsVerschwindet'
  BY <1>0, <1>1, ServerNach
<1>3. /\ kopien' \in [Eintraege -> Nat] /\ schluessel' \in [Eintraege -> SUBSET Schluessel]
      /\ offen' \in BOOLEAN
  BY <1>0, Gespeichert
<1>4. OffTyp'
  BY <1>0, <1>1, <1>3 DEF OffTyp, geraet
<1>5. QED
  BY <1>2, <1>4 DEF IOffline

LEMMA Schliesst ==
  ASSUME IOffline, BueroSchliesst
  PROVE  IOffline'
<1>1. UNCHANGED <<urheber, lager, reihe, token, liste, beendet, kopien, schluessel, anfrage,
                  nachzuegler, ausfaelle>> /\ offen' = FALSE
  BY DEF BueroSchliesst, geraet
<1>2. OffTyp'
  BY <1>1 DEF IOffline, OffTyp
<1>3. ServerGilt'
  BY <1>1, ServerBleibt, FreiFakten DEF IOffline, ServerGilt, AnfragenPassen, OkHeisstGespeichert
<1>4. ReiheGilt'
  BY <1>1, ReiheBleibt
<1>5. NichtsVerschwindet'
  BY <1>1, NichtsGeht DEF IOffline
<1>6. QED
  BY <1>2, <1>3, <1>4, <1>5 DEF IOffline

LEMMA UserHandelt ==
  ASSUME IOffline, NEW t \in Tabs, NEW e \in Eintraege, Handle(t, e)
  PROVE  IOffline'
<1> DEFINE neu == Anfrage(e, DirektSchluessel(e), token[t])
<1>0. OffTyp /\ anfrage \in [Absender -> Anfragen \cup {Frei}] /\ e \in Absender
  BY AnfrageTyp DEF IOffline, Absender
<1>1. urheber[e] = None /\ token[t] \in Nutzer /\ urheber' = [urheber EXCEPT ![e] = token[t]]
  BY <1>0 DEF Handle, OffTyp
<1>2. /\ neu \in Anfragen /\ neu.e = e /\ neu.schluessel = DirektSchluessel(e)
      /\ neu.phase = "unterwegs"
  BY <1>1, SchluesselFakten, AnfrageFakten
<1>3. Passt(neu) /\ neu # Frei
  BY <1>2, SchluesselFakten, FreiFakten DEF Passt
<1>4. anfrage' = [anfrage EXCEPT ![e] = neu]
  BY DEF Handle
<1> HIDE DEF neu
<1>5. /\ anfrage' \in [Tabs \cup Eintraege -> Anfragen \cup {Frei}]
      /\ anfrage'[e] = neu /\ \A x \in Absender : x # e => anfrage'[x] = anfrage[x]
  BY <1>0, <1>2, <1>4 DEF Absender
<1>6. UNCHANGED <<lager, reihe, token, liste, beendet, kopien, schluessel, offen, nachzuegler,
                  ausfaelle>>
  BY DEF Handle, server
<1>7. /\ urheber' \in [Eintraege -> Nutzer \cup {None}] /\ urheber'[e] # None
      /\ \A x \in Eintraege : x # e => urheber'[x] = urheber[x]
  BY <1>0, <1>1, OutboxAnnahme DEF OffTyp
<1>8. OffTyp'
  BY <1>0, <1>5, <1>6, <1>7 DEF OffTyp
<1>9. ServerGilt'
  BY <1>2, <1>3, <1>5, <1>6, ServerBleibt, FreiFakten
     DEF IOffline, ServerGilt, AnfragenPassen, OkHeisstGespeichert
<1>10. \A x, d \in Eintraege : InReihe(x)' = InReihe(x) /\ Vor(d, x)' = Vor(d, x)
  BY <1>6 DEF InReihe, Vor
<1>11. ReiheGilt
  BY DEF IOffline
<1>12. ~InReihe(e)
  BY <1>1, <1>11 DEF ReiheGilt, DirektVorher
<1>13. DirektVorher'
  BY <1>2, <1>5, <1>7, <1>10, <1>11, <1>12 DEF ReiheGilt, DirektVorher, Absender
<1>14. WartendInReihe'
  BY <1>6, <1>10, <1>11 DEF ReiheGilt, WartendInReihe
<1>15. \A s \in Tabs : liste[s] \subseteq Eintraege
  BY <1>0 DEF OffTyp
<1>16. ListeVollstaendig'
  BY <1>6, <1>10, <1>11, <1>15 DEF ReiheGilt, ListeVollstaendig
<1>17. \A s \in Tabs : anfrage'[s] = anfrage[s]
  BY <1>5, OutboxAnnahme DEF Absender
<1>18. AelteresFertig'
  BY <1>6, <1>10, <1>11, <1>17 DEF ReiheGilt, AelteresFertig
<1>19. NichtsVerschwindet'
  BY <1>3, <1>5, <1>6, <1>7 DEF IOffline, NichtsVerschwindet, Absender
<1>20. QED
  BY <1>8, <1>9, <1>13, <1>14, <1>16, <1>18, <1>19 DEF IOffline, ReiheGilt

LEMMA Direkt ==
  ASSUME IOffline, NEW e \in Eintraege, DirektGelungen(e) \/ DirektAbgelehnt(e)
  PROVE  IOffline'
<1>0. OffTyp /\ e \in Absender
  BY DEF IOffline, Absender
<1>1. anfrage' = [anfrage EXCEPT ![e] = Frei]
  BY DEF DirektGelungen, DirektAbgelehnt
<1>2. /\ anfrage' \in [Tabs \cup Eintraege -> Anfragen \cup {Frei}]
      /\ anfrage'[e] = Frei /\ \A x \in Absender : x # e => anfrage'[x] = anfrage[x]
  BY <1>0, <1>1, WirdFrei
<1>3. UNCHANGED <<urheber, lager, reihe, token, liste, kopien, schluessel, offen, nachzuegler,
                  ausfaelle>>
  BY DEF DirektGelungen, DirektAbgelehnt, geraet, server
<1>4. \/ beendet' = beendet /\ anfrage[e].phase = "ok"
      \/ beendet' = beendet \cup {e}
  BY DEF DirektGelungen, DirektAbgelehnt, geraet
<1>5. OffTyp'
  BY <1>0, <1>2, <1>3, <1>4 DEF OffTyp
<1>6. ServerGilt'
  BY <1>2, <1>3, ServerBleibt, FreiFakten DEF IOffline, ServerGilt, AnfragenPassen, OkHeisstGespeichert
<1>7. ReiheGilt'
  BY <1>2, <1>3, ReiheBleibt
<1>8. e \in beendet' \/ kopien'[e] > 0
  <2>1. anfrage[e].phase = "ok" => anfrage[e] # Frei
    BY FreiFakten
  <2>2. anfrage[e].phase = "ok" => anfrage[e].e = e
    BY <2>1 DEF IOffline, ReiheGilt, DirektVorher
  <2>3. anfrage[e].phase = "ok" => kopien[e] > 0
    BY <1>0, <2>2 DEF IOffline, ServerGilt, OkHeisstGespeichert
  <2>4. QED
    BY <1>3, <1>4, <2>3
<1>9. NichtsVerschwindet'
  BY <1>2, <1>3, <1>4, <1>8, NichtsGeht DEF IOffline, Absender
<1>10. QED
  BY <1>5, <1>6, <1>7, <1>9 DEF IOffline

\* An entry that joins the queue stands behind all the others.
LEMMA HintenAngestellt ==
  ASSUME reihe \in Seq(Eintraege), NEW e \in Eintraege, ~InReihe(e), reihe' = Append(reihe, e)
  PROVE  /\ reihe' \in Seq(Eintraege)
         /\ \A x \in Eintraege : InReihe(x)' <=> InReihe(x) \/ x = e
         /\ \A x, d \in Eintraege : x # e => (Vor(d, x)' <=> Vor(d, x))
         /\ \A x, d \in Eintraege : Vor(d, x) => InReihe(d)
<1>1. /\ reihe' \in Seq(Eintraege) /\ Len(reihe') = Len(reihe) + 1 /\ Len(reihe) \in Nat
      /\ DOMAIN reihe = 1..Len(reihe) /\ DOMAIN reihe' = 1..(Len(reihe) + 1)
      /\ \A i \in 1..Len(reihe) : reihe'[i] = reihe[i]
      /\ reihe'[Len(reihe) + 1] = e
  OBVIOUS
<1>2. \A x \in Eintraege : InReihe(x)' <=> InReihe(x) \/ x = e
  BY <1>1 DEF InReihe
<1>3. ASSUME NEW x \in Eintraege, NEW d \in Eintraege, x # e
      PROVE  Vor(d, x)' <=> Vor(d, x)
  <2>1. Vor(d, x) => Vor(d, x)'
    BY <1>1 DEF Vor
  <2>2. ASSUME Vor(d, x)' PROVE Vor(d, x)
    <3>1. PICK i, j \in DOMAIN reihe' : i < j /\ reihe'[i] = d /\ reihe'[j] = x
      BY <2>2 DEF Vor
    <3>2. j \in 1..Len(reihe) /\ i \in 1..Len(reihe)
      BY <1>1, <1>3, <3>1
    <3>3. QED
      BY <1>1, <3>1, <3>2 DEF Vor
  <2>3. QED
    BY <2>1, <2>2
<1>4. \A x, d \in Eintraege : Vor(d, x) => InReihe(d)
  BY DEF Vor, InReihe
<1>5. QED
  BY <1>1, <1>2, <1>3, <1>4

LEMMA Zeitablauf ==
  ASSUME IOffline, NEW e \in Eintraege, DirektZeitablauf(e)
  PROVE  IOffline'
<1>0. OffTyp /\ e \in Absender /\ ReiheGilt
  BY DEF IOffline, Absender
<1>1. /\ anfrage[e] # Frei /\ anfrage' = [anfrage EXCEPT ![e] = Frei]
      /\ nachzuegler' \subseteq nachzuegler \cup {anfrage[e]}
      /\ lager' = [lager EXCEPT ![e] = "wartend"] /\ reihe' = Append(reihe, e)
      /\ UNCHANGED <<urheber, token, liste, beendet, kopien, schluessel, offen, ausfaelle>>
  BY DEF DirektZeitablauf, GibAuf, server
<1>2. /\ anfrage' \in [Tabs \cup Eintraege -> Anfragen \cup {Frei}]
      /\ anfrage'[e] = Frei /\ \A x \in Absender : x # e => anfrage'[x] = anfrage[x]
  BY <1>0, <1>1, WirdFrei
<1>3. /\ lager' \in [Eintraege -> {"leer", "wartend", "abgelehnt"}] /\ lager'[e] = "wartend"
      /\ \A x \in Eintraege : x # e => lager'[x] = lager[x]
  BY <1>0, <1>1 DEF OffTyp
<1>4. anfrage[e] \in Anfragen /\ Passt(anfrage[e])
  BY <1>0, <1>1, AnfrageTyp DEF IOffline, ServerGilt, AnfragenPassen
<1>5. ~InReihe(e) /\ urheber[e] # None
  BY <1>0, <1>1 DEF ReiheGilt, DirektVorher
<1>6. reihe \in Seq(Eintraege) /\ \A t \in Tabs : liste[t] \subseteq Eintraege
  BY <1>0 DEF OffTyp
<1>7. /\ reihe' \in Seq(Eintraege)
      /\ \A x \in Eintraege : InReihe(x)' <=> InReihe(x) \/ x = e
      /\ \A x, d \in Eintraege : x # e => (Vor(d, x)' <=> Vor(d, x))
      /\ \A x, d \in Eintraege : Vor(d, x) => InReihe(d)
  BY <1>1, <1>5, <1>6, HintenAngestellt
<1>8. OffTyp'
  BY <1>0, <1>1, <1>2, <1>3, <1>4, <1>7 DEF OffTyp
<1>9. ServerGilt'
  BY <1>1, <1>2, <1>4, ServerBleibt, FreiFakten
     DEF IOffline, ServerGilt, AnfragenPassen, OkHeisstGespeichert
<1>10. DirektVorher'
  BY <1>0, <1>1, <1>2, <1>5, <1>7 DEF ReiheGilt, DirektVorher, Absender
<1>11. WartendInReihe'
  BY <1>0, <1>3, <1>7 DEF ReiheGilt, WartendInReihe
<1>12. ListeVollstaendig'
  <2> SUFFICES ASSUME NEW t \in Tabs, NEW x \in liste[t]
               PROVE  /\ InReihe(x)'
                      /\ \A d \in Eintraege : Vor(d, x)' /\ lager'[d] = "wartend" => d \in liste[t]
    BY <1>1 DEF ListeVollstaendig
  <2>1. /\ x \in Eintraege /\ InReihe(x)
        /\ \A d \in Eintraege : Vor(d, x) /\ lager[d] = "wartend" => d \in liste[t]
    BY <1>0, <1>6 DEF ReiheGilt, ListeVollstaendig
  <2>2. \A d \in Eintraege : Vor(d, x)' => Vor(d, x) /\ d # e
    BY <1>5, <1>7, <2>1
  <2>3. QED
    BY <1>3, <1>7, <2>1, <2>2
<1>13. AelteresFertig'
  <2> SUFFICES ASSUME NEW t \in Tabs, NEW x \in Eintraege, anfrage'[t] # Frei, anfrage'[t].e = x
               PROVE  /\ x \in liste[t]
                      /\ \A d \in Eintraege : Vor(d, x)' => lager'[d] # "wartend"
    BY <1>1 DEF AelteresFertig
  <2>1. anfrage'[t] = anfrage[t]
    BY <1>2, OutboxAnnahme DEF Absender
  <2>2. x \in liste[t] /\ \A d \in Eintraege : Vor(d, x) => lager[d] # "wartend"
    BY <1>0, <2>1 DEF ReiheGilt, AelteresFertig
  <2>3. InReihe(x)
    BY <1>0, <2>2 DEF ReiheGilt, ListeVollstaendig
  <2>4. \A d \in Eintraege : Vor(d, x)' => Vor(d, x) /\ d # e
    BY <1>5, <1>7, <2>3
  <2>5. QED
    BY <1>3, <2>2, <2>4
<1>14. NichtsVerschwindet'
  BY <1>1, <1>2, <1>3 DEF IOffline, NichtsVerschwindet, Absender
<1>15. QED
  BY <1>8, <1>9, <1>10, <1>11, <1>12, <1>13, <1>14 DEF IOffline, ReiheGilt

LEMMA Beginnt ==
  ASSUME IOffline, NEW t \in Tabs, SyncBeginn(t)
  PROVE  IOffline'
<1> DEFINE faellig == {e \in Eintraege : lager[e] = "wartend"}
<1>0. OffTyp /\ ReiheGilt
  BY DEF IOffline
<1>1. liste[t] = {} /\ liste' = [liste EXCEPT ![t] = faellig]
  BY DEF SyncBeginn
<1>2. UNCHANGED <<urheber, lager, reihe, token, beendet, kopien, schluessel, offen, anfrage,
                  nachzuegler, ausfaelle>>
  BY DEF SyncBeginn, server
<1>3. \A e \in Eintraege : e \in faellig <=> lager[e] = "wartend"
  OBVIOUS
<1>4. faellig \subseteq Eintraege
  OBVIOUS
<1> HIDE DEF faellig
<1>5. /\ liste' \in [Tabs -> SUBSET Eintraege] /\ liste'[t] = faellig
      /\ \A s \in Tabs : s # t => liste'[s] = liste[s]
  BY <1>0, <1>1, <1>4 DEF OffTyp
<1>6. OffTyp'
  BY <1>0, <1>2, <1>5 DEF OffTyp
<1>7. ServerGilt'
  BY <1>2, ServerBleibt, FreiFakten DEF IOffline, ServerGilt, AnfragenPassen, OkHeisstGespeichert
<1>8. \A x, d \in Eintraege : InReihe(x)' = InReihe(x) /\ Vor(d, x)' = Vor(d, x)
  BY <1>2 DEF InReihe, Vor
<1>9. DirektVorher' /\ WartendInReihe'
  BY <1>0, <1>2, <1>8 DEF ReiheGilt, DirektVorher, WartendInReihe
<1>10. ListeVollstaendig'
  <2> SUFFICES ASSUME NEW s \in Tabs, NEW x \in liste'[s]
               PROVE  /\ InReihe(x)'
                      /\ \A d \in Eintraege : Vor(d, x)' /\ lager[d] = "wartend" => d \in liste'[s]
    BY <1>2 DEF ListeVollstaendig
  <2>1. x \in Eintraege
    BY <1>5
  <2>2. CASE s = t
    BY <1>0, <1>3, <1>5, <1>8, <2>1, <2>2 DEF ReiheGilt, WartendInReihe
  <2>3. CASE s # t
    BY <1>0, <1>5, <1>8, <2>1, <2>3 DEF ReiheGilt, ListeVollstaendig
  <2>4. QED
    BY <2>2, <2>3
<1>11. anfrage[t] = Frei
  <2>1. anfrage[t] # Frei => anfrage[t].e \in Eintraege
    BY <1>0, AnfrageTyp, FreiFakten DEF Absender
  <2>2. QED
    BY <1>0, <1>1, <2>1 DEF ReiheGilt, AelteresFertig
<1>12. AelteresFertig'
  BY <1>0, <1>2, <1>5, <1>8, <1>11 DEF ReiheGilt, AelteresFertig
<1>13. NichtsVerschwindet'
  BY <1>2, NichtsGeht DEF IOffline
<1>14. QED
  BY <1>6, <1>7, <1>9, <1>10, <1>12, <1>13 DEF IOffline, ReiheGilt

LEMMA Sendet ==
  ASSUME IOffline, NEW t \in Tabs, Sende(t)
  PROVE  IOffline'
<1>0. OffTyp /\ ReiheGilt /\ t \in Absender /\ anfrage \in [Absender -> Anfragen \cup {Frei}]
  BY AnfrageTyp DEF IOffline, Absender
<1>1. PICK e \in Eintraege :
        /\ e \in liste[t] /\ \A d \in liste[t] : ~Vor(d, e)
        /\ anfrage' = [anfrage EXCEPT ![t] = Anfrage(e, SchlangeSchluessel(e), token[t])]
  BY DEF Sende, AnDerReihe
<1> DEFINE neu == Anfrage(e, SchlangeSchluessel(e), token[t])
<1>2. token[t] \in Nutzer \cup {None}
  BY <1>0 DEF OffTyp
<1>3. /\ neu \in Anfragen /\ neu.e = e /\ neu.schluessel = SchlangeSchluessel(e)
      /\ neu.phase = "unterwegs"
  BY <1>2, SchluesselFakten, AnfrageFakten
<1>4. Passt(neu) /\ neu # Frei
  BY <1>3, SchluesselFakten, FreiFakten DEF Passt
<1>5. anfrage' = [anfrage EXCEPT ![t] = neu]
  BY <1>1
<1> HIDE DEF neu
<1>6. /\ anfrage' \in [Tabs \cup Eintraege -> Anfragen \cup {Frei}]
      /\ anfrage'[t] = neu /\ \A x \in Absender : x # t => anfrage'[x] = anfrage[x]
  BY <1>0, <1>3, <1>5 DEF Absender
<1>7. anfrage[t] = Frei /\ UNCHANGED <<urheber, lager, reihe, token, liste, beendet, kopien,
                                       schluessel, offen, nachzuegler, ausfaelle>>
  BY DEF Sende, geraet, server
<1>8. OffTyp'
  BY <1>0, <1>6, <1>7 DEF OffTyp
<1>9. ServerGilt'
  BY <1>3, <1>4, <1>6, <1>7, ServerBleibt, FreiFakten
     DEF IOffline, ServerGilt, AnfragenPassen, OkHeisstGespeichert
<1>10. \A x, d \in Eintraege : InReihe(x)' = InReihe(x) /\ Vor(d, x)' = Vor(d, x)
  BY <1>7 DEF InReihe, Vor
<1>11. \A x \in Eintraege : anfrage'[x] = anfrage[x]
  BY <1>6, OutboxAnnahme DEF Absender
<1>12. DirektVorher' /\ WartendInReihe'
  BY <1>0, <1>7, <1>10, <1>11 DEF ReiheGilt, DirektVorher, WartendInReihe
<1>13. \A s \in Tabs : liste[s] \subseteq Eintraege
  BY <1>0 DEF OffTyp
<1>14. ListeVollstaendig'
  BY <1>0, <1>7, <1>10, <1>13 DEF ReiheGilt, ListeVollstaendig
<1>15. \A d \in Eintraege : Vor(d, e) => lager[d] # "wartend"
  BY <1>0, <1>1 DEF ReiheGilt, ListeVollstaendig
<1>16. AelteresFertig'
  <2> SUFFICES ASSUME NEW s \in Tabs, NEW x \in Eintraege, anfrage'[s] # Frei, anfrage'[s].e = x
               PROVE  /\ x \in liste[s]
                      /\ \A d \in Eintraege : Vor(d, x)' => lager[d] # "wartend"
    BY <1>7 DEF AelteresFertig
  <2>1. CASE s = t
    BY <1>1, <1>3, <1>6, <1>10, <1>15, <2>1
  <2>2. CASE s # t
    <3>1. anfrage'[s] = anfrage[s]
      BY <1>6, <2>2 DEF Absender
    <3>2. QED
      BY <1>0, <1>10, <3>1 DEF ReiheGilt, AelteresFertig
  <2>3. QED
    BY <2>1, <2>2
<1>17. NichtsVerschwindet'
  BY <1>7, <1>11, NichtsGeht DEF IOffline
<1>18. QED
  BY <1>8, <1>9, <1>12, <1>14, <1>16, <1>17 DEF IOffline, ReiheGilt

LEMMA SyncEndet ==
  ASSUME IOffline, NEW t \in Tabs, SyncGelungen(t) \/ SyncAbgelehnt(t)
  PROVE  IOffline'
<1>0. OffTyp /\ t \in Absender
  BY DEF IOffline, Absender
<1>1. anfrage[t].phase \in {"ok", "abgelehnt"}
  BY DEF SyncGelungen, SyncAbgelehnt
<1>2. anfrage[t] # Frei /\ anfrage[t] \in Anfragen /\ anfrage[t].e \in Eintraege
  BY <1>0, <1>1, AnfrageTyp, FreiFakten
<1>3. PICK e \in Eintraege : e = anfrage[t].e
  BY <1>2
<1>4. /\ anfrage' = [anfrage EXCEPT ![t] = Frei] /\ liste' = [liste EXCEPT ![t] = @ \ {e}]
      /\ \/ lager' = [lager EXCEPT ![e] = "leer"] /\ kopien[e] > 0
         \/ lager' = [lager EXCEPT ![e] = "abgelehnt"]
  BY <1>0, <1>3 DEF SyncGelungen, SyncAbgelehnt, IOffline, ServerGilt, OkHeisstGespeichert
<1>5. UNCHANGED <<urheber, reihe, token, beendet, kopien, schluessel, offen, nachzuegler, ausfaelle>>
  BY DEF SyncGelungen, SyncAbgelehnt, server
<1>6. /\ anfrage' \in [Tabs \cup Eintraege -> Anfragen \cup {Frei}]
      /\ anfrage'[t] = Frei /\ \A x \in Absender : x # t => anfrage'[x] = anfrage[x]
  BY <1>0, <1>4, WirdFrei
<1>7. /\ lager' \in [Eintraege -> {"leer", "wartend", "abgelehnt"}]
      /\ \A x \in Eintraege : x # e => lager'[x] = lager[x]
      /\ lager'[e] # "wartend" /\ (lager'[e] # "leer" \/ kopien[e] > 0)
  BY <1>0, <1>4 DEF OffTyp
<1>8. /\ liste' \in [Tabs -> SUBSET Eintraege] /\ liste'[t] = liste[t] \ {e}
      /\ \A s \in Tabs : s # t => liste'[s] = liste[s]
  BY <1>0, <1>4 DEF OffTyp
<1>9. OffTyp'
  BY <1>0, <1>5, <1>6, <1>7, <1>8 DEF OffTyp
<1>10. ServerGilt'
  BY <1>5, <1>6, ServerBleibt, FreiFakten
     DEF IOffline, ServerGilt, AnfragenPassen, OkHeisstGespeichert
<1>11. ReiheGilt'
  <2>1. \A x \in Eintraege : lager'[x] = "wartend" => lager[x] = "wartend"
    BY <1>7
  <2>2. \A p \in Absender : anfrage'[p] # Frei => anfrage[p] # Frei /\ anfrage'[p].e = anfrage[p].e
    BY <1>6
  <2>3. \A s \in Tabs : \/ liste'[s] = liste[s]
                        \/ anfrage'[s] = Frei /\ liste'[s] \subseteq liste[s]
                           /\ \A d \in liste[s] \ liste'[s] : lager'[d] # "wartend"
    BY <1>6, <1>7, <1>8
  <2>4. QED
    BY <1>5, <2>1, <2>2, <2>3, ReiheBleibt
<1>12. NichtsVerschwindet'
  <2>1. \A x \in Eintraege : anfrage'[x] = anfrage[x]
    BY <1>6, OutboxAnnahme DEF Absender
  <2>2. QED
    BY <1>5, <1>7, <2>1, NichtsGeht DEF IOffline
<1>13. QED
  BY <1>9, <1>10, <1>11, <1>12 DEF IOffline

LEMMA Bricht ==
  ASSUME IOffline, NEW t \in Tabs, SyncBricht(t)
  PROVE  IOffline'
<1>0. OffTyp /\ t \in Absender
  BY DEF IOffline, Absender
<1>1. /\ anfrage[t] # Frei /\ anfrage' = [anfrage EXCEPT ![t] = Frei]
      /\ nachzuegler' \subseteq nachzuegler \cup {anfrage[t]}
      /\ liste' = [liste EXCEPT ![t] = {}]
      /\ UNCHANGED <<urheber, lager, reihe, token, beendet, kopien, schluessel, offen>>
  BY DEF SyncBricht, GibAuf, server
<1>2. ausfaelle' \in 0..MaxAusfaelle
  BY <1>0, OutboxAnnahme DEF SyncBricht, Ausfall, OffTyp
<1>3. /\ anfrage' \in [Tabs \cup Eintraege -> Anfragen \cup {Frei}]
      /\ anfrage'[t] = Frei /\ \A x \in Absender : x # t => anfrage'[x] = anfrage[x]
  BY <1>0, <1>1, WirdFrei
<1>4. anfrage[t] \in Anfragen /\ Passt(anfrage[t])
  BY <1>0, <1>1, AnfrageTyp DEF IOffline, ServerGilt, AnfragenPassen
<1>5. /\ liste' \in [Tabs -> SUBSET Eintraege] /\ liste'[t] = {}
      /\ \A s \in Tabs : s # t => liste'[s] = liste[s]
  BY <1>0, <1>1 DEF OffTyp
<1>6. OffTyp'
  BY <1>0, <1>1, <1>2, <1>3, <1>4, <1>5 DEF OffTyp
<1>7. ServerGilt'
  BY <1>1, <1>3, <1>4, ServerBleibt, FreiFakten
     DEF IOffline, ServerGilt, AnfragenPassen, OkHeisstGespeichert
<1>8. ReiheGilt'
  BY <1>1, <1>3, <1>5, ReiheBleibt
<1>9. NichtsVerschwindet'
  <2>1. \A x \in Eintraege : anfrage'[x] = anfrage[x]
    BY <1>3, OutboxAnnahme DEF Absender
  <2>2. QED
    BY <1>1, <2>1, NichtsGeht DEF IOffline
<1>10. QED
  BY <1>6, <1>7, <1>8, <1>9 DEF IOffline

LEMMA LaeuftAb ==
  ASSUME IOffline, NEW p \in Absender, SitzungAbgelaufen(p)
  PROVE  IOffline'
<1>0. OffTyp
  BY DEF IOffline
<1>1. anfrage[p] \in Anfragen /\ anfrage[p] # Frei
  <2>1. anfrage[p].phase = "unterwegs"
    BY DEF SitzungAbgelaufen
  <2>2. QED
    BY <1>0, <2>1, AnfrageTyp, FreiFakten
<1>2. anfrage' = [anfrage EXCEPT ![p].phase = "abgelehnt"]
  BY DEF SitzungAbgelaufen
<1>3. /\ anfrage' \in [Tabs \cup Eintraege -> Anfragen \cup {Frei}]
      /\ \A x \in Absender : x # p => anfrage'[x] = anfrage[x]
      /\ anfrage'[p] # Frei /\ anfrage'[p].phase = "abgelehnt"
      /\ anfrage'[p].e = anfrage[p].e /\ anfrage'[p].schluessel = anfrage[p].schluessel
  BY <1>0, <1>1, <1>2, EinePhase
<1>4. UNCHANGED <<urheber, lager, reihe, liste, beendet, kopien, schluessel, offen, nachzuegler>>
  BY DEF SitzungAbgelaufen, server
<1>5. ausfaelle' \in 0..MaxAusfaelle
  BY <1>0, OutboxAnnahme DEF SitzungAbgelaufen, Ausfall, OffTyp
<1>6. token' \in [Tabs -> Nutzer \cup {None}]
  BY <1>0 DEF SitzungAbgelaufen, OffTyp
<1>7. OffTyp'
  BY <1>0, <1>3, <1>4, <1>5, <1>6 DEF OffTyp
<1>8. ServerGilt'
  BY <1>1, <1>3, <1>4, FreiFakten, ServerBleibt
     DEF IOffline, ServerGilt, AnfragenPassen, OkHeisstGespeichert, Passt
<1>9. ReiheGilt'
  BY <1>1, <1>3, <1>4, ReiheBleibt
<1>10. NichtsVerschwindet'
  BY <1>1, <1>3, <1>4, NichtsGeht DEF IOffline, Absender
<1>11. QED
  BY <1>7, <1>8, <1>9, <1>10 DEF IOffline

LEMMA Lagerpflege ==
  ASSUME IOffline, \/ \E e \in Eintraege : Verwirf(e)
                   \/ \E t \in Tabs : Abmelden(t) \/ \E n \in Nutzer : Anmelden(t, n)
  PROVE  IOffline'
<1>0. OffTyp
  BY DEF IOffline
<1>1. UNCHANGED <<urheber, reihe, liste, kopien, schluessel, offen, anfrage, nachzuegler>>
  BY DEF Verwirf, Abmelden, Anmelden, server
<1>2. /\ lager' \in [Eintraege -> {"leer", "wartend", "abgelehnt"}]
      /\ \A x \in Eintraege : \/ lager'[x] = lager[x]
                              \/ lager'[x] = "leer" /\ (x \in beendet' \/ lager[x] = "leer")
      /\ beendet \subseteq beendet' /\ beendet' \subseteq Eintraege
  <2>0. lager \in [Eintraege -> {"leer", "wartend", "abgelehnt"}] /\ beendet \subseteq Eintraege
    BY <1>0 DEF OffTyp
  <2>1. CASE \E e \in Eintraege : Verwirf(e)
    <3>1. PICK e \in Eintraege : /\ lager' = [lager EXCEPT ![e] = "leer"]
                                /\ beendet' = beendet \cup {e}
      BY <2>1 DEF Verwirf
    <3>2. QED
      BY <2>0, <3>1
  <2>2. CASE \E t \in Tabs : Abmelden(t)
    <3>1. /\ lager' = [e \in Eintraege |-> "leer"]
          /\ beendet' = beendet \cup {e \in Eintraege : lager[e] # "leer"}
      BY <2>2 DEF Abmelden
    <3>2. QED
      BY <2>0, <3>1
  <2>3. CASE \E t \in Tabs, n \in Nutzer : Anmelden(t, n)
    BY <2>0, <2>3 DEF Anmelden
  <2>4. QED
    BY <2>1, <2>2, <2>3
<1>3. token' \in [Tabs -> Nutzer \cup {None}]
  BY <1>0 DEF Verwirf, Abmelden, Anmelden, OffTyp
<1>4. ausfaelle' \in 0..MaxAusfaelle
  BY <1>0, OutboxAnnahme DEF Verwirf, Abmelden, Anmelden, Ausfall, OffTyp
<1>5. OffTyp'
  BY <1>0, <1>1, <1>2, <1>3, <1>4 DEF OffTyp
<1>6. ServerGilt'
  BY <1>1, ServerBleibt, FreiFakten DEF IOffline, ServerGilt, AnfragenPassen, OkHeisstGespeichert
<1>7. ReiheGilt'
  BY <1>1, <1>2, ReiheBleibt
<1>8. NichtsVerschwindet'
  BY <1>1, <1>2, NichtsGeht DEF IOffline
<1>9. QED
  BY <1>5, <1>6, <1>7, <1>8 DEF IOffline

LEMMA OfflineAnfang == OffInit => IOffline
<1> SUFFICES ASSUME OffInit PROVE IOffline
  OBVIOUS
<1>1. /\ urheber = [e \in Eintraege |-> None] /\ lager = [e \in Eintraege |-> "leer"]
      /\ reihe = <<>> /\ liste = [t \in Tabs |-> {}]
      /\ anfrage = [p \in Absender |-> Frei] /\ nachzuegler = {}
      /\ kopien = [e \in Eintraege |-> 0] /\ schluessel = [e \in Eintraege |-> {}]
  BY DEF OffInit, Absender
<1>2. OffTyp
  BY OutboxAnnahme DEF OffInit, OffTyp
<1>3. ServerGilt
  BY <1>1, FreiFakten
     DEF ServerGilt, AnfragenPassen, OkHeisstGespeichert, SchluesselHeisstKopie, FotoGezaehlt
<1>4. \A e \in Eintraege : ~InReihe(e)
  <2>1. DOMAIN reihe = {}
    BY <1>1
  <2>2. QED
    BY <2>1 DEF InReihe
<1>5. ReiheGilt
  BY <1>1, <1>4
     DEF ReiheGilt, DirektVorher, WartendInReihe, ListeVollstaendig, AelteresFertig, Absender
<1>6. NichtsVerschwindet
  BY <1>1 DEF NichtsVerschwindet
<1>7. QED
  BY <1>2, <1>3, <1>5, <1>6 DEF IOffline

LEMMA OfflineSchritt ==
  ASSUME IOffline, [OffNext]_offVars
  PROVE  IOffline'
<1>1. CASE \E p \in Tabs \cup Eintraege : ServerLiest(p) \/ ServerSchreibt(p) \/ SitzungAbgelaufen(p)
  BY <1>1, Liest, Schreibt, LaeuftAb DEF Absender
<1>2. CASE \E q \in nachzuegler : NachzueglerLiest(q) \/ NachzueglerSchreibt(q)
  BY <1>2, SpaetGelesen, SpaetGeschrieben
<1>3. CASE BueroSchliesst
  BY <1>3, Schliesst
<1>4. CASE \E t \in Tabs, e \in Eintraege : Handle(t, e)
  BY <1>4, UserHandelt
<1>5. CASE \E e \in Eintraege :
             DirektGelungen(e) \/ DirektAbgelehnt(e) \/ DirektZeitablauf(e) \/ Verwirf(e)
  BY <1>5, Direkt, Zeitablauf, Lagerpflege
<1>6. CASE \E t \in Tabs : SyncBeginn(t) \/ Sende(t) \/ SyncGelungen(t) \/ SyncAbgelehnt(t)
                             \/ SyncBricht(t) \/ Abmelden(t)
  BY <1>6, Beginnt, Sendet, SyncEndet, Bricht, Lagerpflege
<1>7. CASE \E t \in Tabs, n \in Nutzer : Anmelden(t, n)
  BY <1>7, Lagerpflege
<1>8. CASE UNCHANGED offVars
  <2>1. UNCHANGED <<urheber, lager, reihe, token, liste, anfrage, nachzuegler, kopien, schluessel,
                    offen, beendet, ausfaelle>>
    BY <1>8 DEF offVars
  <2>2. OffTyp'
    BY <2>1 DEF IOffline, OffTyp
  <2>3. ServerGilt'
    BY <2>1, ServerBleibt, FreiFakten
       DEF IOffline, ServerGilt, AnfragenPassen, OkHeisstGespeichert
  <2>4. ReiheGilt'
    BY <2>1, ReiheBleibt
  <2>5. NichtsVerschwindet'
    BY <2>1, NichtsGeht DEF IOffline
  <2>6. QED
    BY <2>2, <2>3, <2>4, <2>5 DEF IOffline
<1>9. QED
  BY <1>1, <1>2, <1>3, <1>4, <1>5, <1>6, <1>7, <1>8 DEF OffNext

\* A photo is stored at most once, whatever is lost, repeated, late or sent by two tabs,
\* and what a user has done is on the server, on its way, in the queue or given up under
\* the user's eyes (queueFoto and syncOutbox in offline/outbox.ts, upload_foto).
THEOREM NichtsDoppeltNichtsVerloren == OffSpec => []OfflineSicher
<1>1. IOffline => OfflineSicher
  <2> SUFFICES ASSUME IOffline PROVE OfflineSicher
    OBVIOUS
  <2>1. FotoEinmal
    BY DEF IOffline, ServerGilt, FotoGezaehlt, FotoEinmal
  <2>2. QED
    BY <2>1 DEF IOffline, OfflineSicher
<1>2. QED
  BY <1>1, OfflineAnfang, OfflineSchritt, PTL DEF OffSpec

\* The queue is stored in its order: no tab has a queued item stored while an older one
\* still waits (the sort in syncOutbox, its end at the first failure).
THEOREM ReihenfolgeHaelt == OffSpec => ReihenfolgeBleibt
<1> DEFINE Geordnet ==
      \A t \in Tabs : anfrage[t].phase = "schreibt" /\ anfrage'[t].phase = "ok" =>
        \A d \in Eintraege : Vor(d, anfrage[t].e) => lager[d] # "wartend"
<1>1. IOffline => Geordnet
  <2> SUFFICES ASSUME IOffline, NEW t \in Tabs, anfrage[t].phase = "schreibt",
                      NEW d \in Eintraege, Vor(d, anfrage[t].e)
               PROVE  lager[d] # "wartend"
    OBVIOUS
  <2>1. anfrage[t] # Frei /\ anfrage[t].e \in Eintraege
    BY AnfrageTyp, FreiFakten DEF IOffline, Absender
  <2>2. QED
    BY <2>1 DEF IOffline, ReiheGilt, AelteresFertig
<1>2. IOffline /\ [OffNext]_offVars => [Geordnet]_offVars
  BY <1>1
<1> HIDE DEF Geordnet
<1>3. OffSpec => [][Geordnet]_offVars
  BY <1>2, OfflineAnfang, OfflineSchritt, PTL DEF OffSpec
<1>4. QED
  BY <1>3 DEF ReihenfolgeBleibt, Geordnet

-----------------------------------------------------------------------------
(***************************************************************************)
(* Recurring jobs.  An open job that was not cut loose is the one its      *)
(* target points to; a scheduler holds only targets that point nowhere,    *)
(* and no target is held twice.  A request writes to a job that is still   *)
(* open, unless another request on that job was under way with it.         *)
(***************************************************************************)

VTyp == [status : Status, ziel : Ziele, geloescht : BOOLEAN, geloest : BOOLEAN]
ZTyp == [naechste : Nat, offen : Vorgaenge \cup {KeinVerweis}]
PTyp == [v : Vorgaenge \cup {KeinVerweis}, neu : Status]

Haengt(v) == Besteht(v) /\ ~vorgang[v].geloest /\ vorgang[v].status \notin Geschlossen

LaeufeGetrennt ==
  \A s \in Scheduler : \A z \in laeufe[s] :
    /\ ziel[z].offen = KeinVerweis
    /\ \A t \in Scheduler : t # s => z \notin laeufe[t]

PatchBesteht == \A p \in Patcher : patch[p].v # KeinVerweis => Besteht(patch[p].v)

ZielBesteht == \A z \in Ziele : ziel[z].offen # KeinVerweis => Besteht(ziel[z].offen)

HaengtAmZiel == ueberholt \/ \A v \in Vorgaenge : Haengt(v) => ziel[vorgang[v].ziel].offen = v

PatchAllein ==
  ueberholt \/ \A p \in Patcher : patch[p].v # KeinVerweis =>
    /\ vorgang[patch[p].v].status \notin Geschlossen
    /\ \A q \in Patcher : q # p => patch[q].v # patch[p].v

IZyklen ==
  /\ ZyTyp /\ LaeufeGetrennt /\ PatchBesteht /\ ZielBesteht /\ AbschlussGibtFrei
  /\ HaengtAmZiel /\ PatchAllein

LEMMA VorgangFakten ==
  /\ KeinVorgang \notin VTyp /\ KeinVorgang.status \notin Status
  /\ \A r \in VTyp : r.status \in Status /\ r.ziel \in Ziele /\ r # KeinVorgang
  /\ "keiner" \notin Geschlossen /\ KeinVorgang.status = "keiner"
  /\ \A r \in ZTyp : r.naechste \in Nat /\ r.offen \in Vorgaenge \cup {KeinVerweis}
  /\ \A r \in PTyp : r.v \in Vorgaenge \cup {KeinVerweis} /\ r.neu \in Status
BY DEF KeinVorgang, VTyp, ZTyp, PTyp, Status, Geschlossen

LEMMA ZyFakten ==
  ASSUME ZyTyp
  PROVE  /\ ziel \in [Ziele -> ZTyp] /\ vorgang \in [Vorgaenge -> {KeinVorgang} \cup VTyp]
         /\ patch \in [Patcher -> PTyp] /\ laeufe \in [Scheduler -> SUBSET Ziele]
         /\ KeinVerweis \notin Vorgaenge
         /\ \A v \in Vorgaenge : Besteht(v) => vorgang[v] \in VTyp
BY ZyklenAnnahme DEF ZyTyp, ZTyp, VTyp, PTyp, Besteht

\* A step that leaves targets, jobs and requests alone and at most releases targets.
LEMMA NurLaeufe ==
  ASSUME IZyklen, UNCHANGED <<ziel, vorgang, patch, ueberholt>>,
         laeufe' \in [Scheduler -> SUBSET Ziele], auftrag' \in [aktiv : BOOLEAN, geloescht : BOOLEAN],
         tag' \in 0..MaxTag, LaeufeGetrennt'
  PROVE  IZyklen'
<1>1. ZyTyp'
  BY DEF IZyklen, ZyTyp
<1>2. PatchBesteht' /\ ZielBesteht' /\ AbschlussGibtFrei' /\ HaengtAmZiel' /\ PatchAllein'
  BY DEF IZyklen, PatchBesteht, ZielBesteht, AbschlussGibtFrei, HaengtAmZiel, PatchAllein, Haengt, Besteht
<1>3. QED
  BY <1>1, <1>2 DEF IZyklen

LEMMA LaufHolt ==
  ASSUME IZyklen, NEW s \in Scheduler, LaufLiest(s)
  PROVE  IZyklen'
<1>0. ZyTyp /\ laeufe \in [Scheduler -> SUBSET Ziele] /\ LaeufeGetrennt
  BY ZyFakten DEF IZyklen
<1> DEFINE frei == {z \in Ziele : Faellig(z)} \ UNION {laeufe[t] : t \in Scheduler \ {s}}
<1>1. laeufe' = [laeufe EXCEPT ![s] = frei]
  BY DEF LaufLiest
<1>2. /\ frei \subseteq Ziele
      /\ \A z \in frei : /\ ziel[z].offen = KeinVerweis
                         /\ \A t \in Scheduler : t # s => z \notin laeufe[t]
  BY DEF Faellig
<1> HIDE DEF frei
<1>3. /\ laeufe' \in [Scheduler -> SUBSET Ziele] /\ laeufe'[s] = frei
      /\ \A t \in Scheduler : t # s => laeufe'[t] = laeufe[t]
  BY <1>0, <1>1, <1>2
<1>4. UNCHANGED <<tag, ziel, vorgang, auftrag, patch, ueberholt>>
  BY DEF LaufLiest
<1>5. LaeufeGetrennt'
  BY <1>0, <1>2, <1>3, <1>4 DEF LaeufeGetrennt
<1>6. QED
  BY <1>0, <1>3, <1>4, <1>5, NurLaeufe DEF ZyTyp

LEMMA LaufFaellt ==
  ASSUME IZyklen, NEW s \in Scheduler, LaufScheitert(s)
  PROVE  IZyklen'
<1>0. ZyTyp /\ laeufe \in [Scheduler -> SUBSET Ziele] /\ LaeufeGetrennt
  BY ZyFakten DEF IZyklen
<1>1. /\ laeufe' = [laeufe EXCEPT ![s] = {}]
      /\ UNCHANGED <<tag, ziel, vorgang, auftrag, patch, ueberholt>>
  BY DEF LaufScheitert
<1>2. /\ laeufe' \in [Scheduler -> SUBSET Ziele] /\ laeufe'[s] = {}
      /\ \A t \in Scheduler : t # s => laeufe'[t] = laeufe[t]
  BY <1>0, <1>1
<1>3. LaeufeGetrennt'
  BY <1>0, <1>1, <1>2 DEF LaeufeGetrennt
<1>4. QED
  BY <1>0, <1>1, <1>2, <1>3, NurLaeufe DEF ZyTyp

LEMMA LaufOeffnet ==
  ASSUME IZyklen, NEW s \in Scheduler, LaufSchreibt(s)
  PROVE  IZyklen'
<1>0. /\ ZyTyp /\ ziel \in [Ziele -> ZTyp] /\ vorgang \in [Vorgaenge -> {KeinVorgang} \cup VTyp]
      /\ patch \in [Patcher -> PTyp] /\ laeufe \in [Scheduler -> SUBSET Ziele]
      /\ KeinVerweis \notin Vorgaenge /\ LaeufeGetrennt
  BY ZyFakten DEF IZyklen
<1> DEFINE L == laeufe[s]
<1>1. PICK neu \in [L -> FreieVorgaenge] :
        /\ \A y, z \in L : neu[y] = neu[z] => y = z
        /\ ziel' = [z \in Ziele |-> IF z \in L THEN [ziel[z] EXCEPT !.offen = neu[z]] ELSE ziel[z]]
        /\ vorgang' = [v \in Vorgaenge |->
             IF \E z \in L : neu[z] = v
             THEN [status |-> "neu", geloescht |-> FALSE, geloest |-> FALSE,
                   ziel |-> CHOOSE z \in L : neu[z] = v]
             ELSE vorgang[v]]
  BY DEF LaufSchreibt
<1> HIDE DEF L
<1>2. L \subseteq Ziele /\ \A z \in L : ziel[z].offen = KeinVerweis
  BY <1>0 DEF L, LaeufeGetrennt
<1>3. \A z \in L : neu[z] \in Vorgaenge /\ ~Besteht(neu[z])
  BY <1>1 DEF FreieVorgaenge, Besteht
<1>4. \A z \in Ziele : z \in L => ziel'[z].offen = neu[z] /\ ziel'[z] \in ZTyp
  <2> SUFFICES ASSUME NEW z \in Ziele, z \in L PROVE ziel'[z].offen = neu[z] /\ ziel'[z] \in ZTyp
    OBVIOUS
  <2>1. ziel'[z] = [ziel[z] EXCEPT !.offen = neu[z]] /\ ziel[z] \in ZTyp
    BY <1>0, <1>1
  <2>2. QED
    BY <1>3, <2>1 DEF ZTyp
<1>5. \A z \in Ziele : z \notin L => ziel'[z] = ziel[z]
  BY <1>1
<1>6. \A z \in L : /\ vorgang'[neu[z]] \in VTyp /\ vorgang'[neu[z]].status = "neu"
                   /\ vorgang'[neu[z]].ziel = z
  <2> SUFFICES ASSUME NEW z \in L
               PROVE  /\ vorgang'[neu[z]] \in VTyp /\ vorgang'[neu[z]].status = "neu"
                      /\ vorgang'[neu[z]].ziel = z
    OBVIOUS
  <2> DEFINE w == CHOOSE y \in L : neu[y] = neu[z]
  <2>1. w \in L /\ neu[w] = neu[z]
    OBVIOUS
  <2>2. w = z
    BY <1>1, <2>1
  <2>3. vorgang'[neu[z]] = [status |-> "neu", geloescht |-> FALSE, geloest |-> FALSE, ziel |-> w]
    BY <1>1, <1>3
  <2> HIDE DEF w
  <2>4. QED
    BY <1>2, <2>2, <2>3 DEF VTyp, Status
<1>7. \A v \in Vorgaenge : Besteht(v) => vorgang'[v] = vorgang[v]
  BY <1>1, <1>3
<1>8. \A v \in Vorgaenge : vorgang'[v] = vorgang[v] \/ \E z \in L : neu[z] = v
  BY <1>1
<1>9. /\ laeufe' = [laeufe EXCEPT ![s] = {}] /\ UNCHANGED <<tag, auftrag, patch, ueberholt>>
  BY DEF LaufSchreibt
<1>10. /\ laeufe' \in [Scheduler -> SUBSET Ziele] /\ laeufe'[s] = {}
       /\ \A t \in Scheduler : t # s => laeufe'[t] = laeufe[t]
  BY <1>0, <1>9
<1>11. ziel' \in [Ziele -> ZTyp]
  BY <1>0, <1>1, <1>4, <1>5
<1>12. vorgang' \in [Vorgaenge -> {KeinVorgang} \cup VTyp]
  <2>1. \A v \in Vorgaenge : vorgang'[v] \in {KeinVorgang} \cup VTyp
    BY <1>0, <1>6, <1>8
  <2>2. QED
    BY <1>1, <2>1
<1>13. ZyTyp'
  BY <1>0, <1>9, <1>10, <1>11, <1>12 DEF ZyTyp, ZTyp, VTyp
<1>14. LaeufeGetrennt'
  <2> SUFFICES ASSUME NEW t \in Scheduler, NEW z \in laeufe'[t]
               PROVE  /\ ziel'[z].offen = KeinVerweis
                      /\ \A r \in Scheduler : r # t => z \notin laeufe'[r]
    BY DEF LaeufeGetrennt
  <2>1. t # s /\ z \in laeufe[t] /\ z \in Ziele
    BY <1>10
  <2>2. z \notin L
    BY <1>0, <2>1 DEF LaeufeGetrennt, L
  <2>3. QED
    BY <1>0, <1>5, <1>10, <2>1, <2>2 DEF LaeufeGetrennt
<1>15. PatchBesteht'
  BY <1>0, <1>7, <1>9, VorgangFakten DEF IZyklen, PatchBesteht, Besteht
<1>16. AbschlussGibtFrei'
  <2> SUFFICES ASSUME NEW z \in Ziele, ziel'[z].offen # KeinVerweis
               PROVE  vorgang'[ziel'[z].offen].status # "abgeschlossen"
    BY DEF AbschlussGibtFrei
  <2>1. ziel'[z].offen \in Vorgaenge
    BY <1>11, VorgangFakten
  <2>2. CASE vorgang'[ziel'[z].offen] # vorgang[ziel'[z].offen]
    BY <1>6, <1>8, <2>1, <2>2
  <2>3. CASE vorgang'[ziel'[z].offen] = vorgang[ziel'[z].offen] /\ z \notin L
    BY <1>5, <2>3 DEF IZyklen, AbschlussGibtFrei
  <2>4. CASE z \in L
    BY <1>4, <1>6, <2>4
  <2>5. QED
    BY <2>2, <2>3, <2>4
<1>17. HaengtAmZiel'
  <2> SUFFICES ASSUME ~ueberholt, NEW v \in Vorgaenge, Haengt(v)'
               PROVE  ziel'[vorgang'[v].ziel].offen = v
    BY <1>9 DEF HaengtAmZiel
  <2>1. CASE \E z \in L : neu[z] = v
    BY <1>2, <1>4, <1>6, <2>1
  <2>2. CASE vorgang'[v] = vorgang[v]
    <3>1. Haengt(v) /\ vorgang[v].ziel \in Ziele
      BY <1>0, <2>2, VorgangFakten DEF Haengt, Besteht
    <3>2. ziel[vorgang[v].ziel].offen = v
      BY <3>1 DEF IZyklen, HaengtAmZiel
    <3>3. vorgang[v].ziel \notin L
      BY <1>0, <1>2, <3>2
    <3>4. QED
      BY <1>5, <2>2, <3>1, <3>2, <3>3
  <2>3. QED
    BY <1>8, <2>1, <2>2
<1>18. PatchAllein'
  <2>1. \A p \in Patcher : patch[p].v # KeinVerweis => vorgang'[patch[p].v] = vorgang[patch[p].v]
    BY <1>0, <1>7, VorgangFakten DEF IZyklen, PatchBesteht
  <2>2. QED
    BY <1>9, <2>1 DEF IZyklen, PatchAllein
<1>19. ZielBesteht'
  <2> SUFFICES ASSUME NEW z \in Ziele, ziel'[z].offen # KeinVerweis PROVE vorgang'[ziel'[z].offen] # KeinVorgang
    BY DEF ZielBesteht, Besteht
  <2>1. CASE z \in L
    BY <1>4, <1>6, <2>1, VorgangFakten DEF Besteht
  <2>2. CASE z \notin L
    <3>1. ziel'[z] = ziel[z] /\ ziel[z].offen \in Vorgaenge /\ Besteht(ziel[z].offen)
      BY <1>0, <1>5, <2>2, VorgangFakten DEF IZyklen, ZielBesteht
    <3>2. QED
      BY <1>7, <3>1 DEF Besteht
  <2>3. QED
    BY <2>1, <2>2
<1>20. QED
  BY <1>13, <1>14, <1>15, <1>16, <1>17, <1>18, <1>19 DEF IZyklen

LEMMA RequestLiest ==
  ASSUME IZyklen, NEW p \in Patcher, NEW v \in Vorgaenge, NEW neu \in Status, PatchLiest(p, v, neu)
  PROVE  IZyklen'
<1>0. ZyTyp /\ patch \in [Patcher -> PTyp] /\ KeinVerweis \notin Vorgaenge
  BY ZyFakten DEF IZyklen
<1>1. /\ Besteht(v) /\ vorgang[v].status \notin Geschlossen
      /\ patch' = [patch EXCEPT ![p] = [v |-> v, neu |-> neu]]
      /\ ueberholt' = (ueberholt \/ \E q \in Patcher \ {p} : patch[q].v = v)
      /\ UNCHANGED <<tag, ziel, vorgang, auftrag, laeufe>>
  BY DEF PatchLiest
<1>2. /\ patch' \in [Patcher -> PTyp] /\ patch'[p].v = v
      /\ \A q \in Patcher : q # p => patch'[q] = patch[q]
  BY <1>0, <1>1 DEF PTyp
<1>3. ueberholt' \in BOOLEAN
  BY <1>1
<1>4. ZyTyp'
  BY <1>0, <1>1, <1>2, <1>3 DEF ZyTyp, PTyp
<1>5. LaeufeGetrennt' /\ ZielBesteht' /\ AbschlussGibtFrei'
  BY <1>1 DEF IZyklen, LaeufeGetrennt, ZielBesteht, AbschlussGibtFrei, Besteht
<1>6. PatchBesteht'
  BY <1>1, <1>2 DEF IZyklen, PatchBesteht, Besteht
<1>7. HaengtAmZiel'
  BY <1>1 DEF IZyklen, HaengtAmZiel, Haengt, Besteht
<1>8. PatchAllein'
  <2> SUFFICES ASSUME ~ueberholt', NEW q \in Patcher, patch'[q].v # KeinVerweis
               PROVE  /\ vorgang'[patch'[q].v].status \notin Geschlossen
                      /\ \A r \in Patcher : r # q => patch'[r].v # patch'[q].v
    BY DEF PatchAllein
  <2>1. ~ueberholt /\ \A r \in Patcher : r # p => patch[r].v # v
    BY <1>1
  <2>2. \A r \in Patcher : patch[r].v # KeinVerweis =>
          /\ vorgang[patch[r].v].status \notin Geschlossen
          /\ \A x \in Patcher : x # r => patch[x].v # patch[r].v
    BY <2>1 DEF IZyklen, PatchAllein
  <2>3. CASE q = p
    BY <1>1, <1>2, <2>1, <2>3
  <2>4. CASE q # p
    BY <1>1, <1>2, <2>1, <2>2, <2>4
  <2>5. QED
    BY <2>3, <2>4
<1>9. QED
  BY <1>4, <1>5, <1>6, <1>7, <1>8 DEF IZyklen

LEMMA RequestSchreibt ==
  ASSUME IZyklen, NEW p \in Patcher, PatchSchreibt(p)
  PROVE  IZyklen'
<1>0. /\ ZyTyp /\ ziel \in [Ziele -> ZTyp] /\ vorgang \in [Vorgaenge -> {KeinVorgang} \cup VTyp]
      /\ patch \in [Patcher -> PTyp] /\ KeinVerweis \notin Vorgaenge
      /\ \A v \in Vorgaenge : Besteht(v) => vorgang[v] \in VTyp
  BY ZyFakten DEF IZyklen
<1>1. PICK v \in Vorgaenge, f \in Status : v = patch[p].v /\ f = patch[p].neu
  BY <1>0, VorgangFakten DEF PatchSchreibt
<1>2. /\ patch[p].v # KeinVerweis /\ vorgang' = [vorgang EXCEPT ![v].status = f]
      /\ ziel' = IF f = "abgeschlossen" THEN ZieleNachAbschluss(v) ELSE ziel
      /\ patch' = [patch EXCEPT ![p] = KeinPatch]
      /\ UNCHANGED <<tag, auftrag, laeufe, ueberholt>>
  BY <1>1 DEF PatchSchreibt
<1> DEFINE neu == [vorgang[v] EXCEPT !.status = f]
<1>3. Besteht(v) /\ vorgang[v] \in VTyp
  BY <1>0, <1>1, <1>2 DEF IZyklen, PatchBesteht
<1>4. neu \in VTyp /\ neu.status = f /\ neu.ziel = vorgang[v].ziel /\ neu.geloest = vorgang[v].geloest
  BY <1>3 DEF VTyp
<1>5. vorgang' = [vorgang EXCEPT ![v] = neu]
  BY <1>0, <1>2
<1> HIDE DEF neu
<1>6. /\ vorgang' \in [Vorgaenge -> {KeinVorgang} \cup VTyp] /\ vorgang'[v] = neu
      /\ \A w \in Vorgaenge : w # v => vorgang'[w] = vorgang[w]
  BY <1>0, <1>4, <1>5
<1>7. /\ patch' \in [Patcher -> PTyp] /\ patch'[p].v = KeinVerweis
      /\ \A q \in Patcher : q # p => patch'[q] = patch[q]
  <2>1. KeinPatch \in PTyp /\ KeinPatch.v = KeinVerweis
    BY DEF KeinPatch, PTyp, Status
  <2>2. QED
    BY <1>0, <1>2, <2>1
<1>8. \A z \in Ziele : Basis(z) + Intervall \in Nat
  BY <1>0, ZyklenAnnahme, VorgangFakten DEF Basis, ZyTyp
<1>9. /\ ziel' \in [Ziele -> ZTyp]
      /\ \A z \in Ziele : \/ ziel'[z] = ziel[z]
                          \/ ziel[z].offen = v /\ ziel'[z].offen = KeinVerweis
      /\ f = "abgeschlossen" => \A z \in Ziele : ziel'[z].offen # v
  <2>1. CASE f = "abgeschlossen"
    <3>1. ziel' = [z \in Ziele |-> IF ziel[z].offen = v
                                   THEN [naechste |-> Basis(z) + Intervall, offen |-> KeinVerweis]
                                   ELSE ziel[z]]
      BY <1>2, <2>1 DEF ZieleNachAbschluss
    <3>2. \A z \in Ziele : [naechste |-> Basis(z) + Intervall, offen |-> KeinVerweis] \in ZTyp
      BY <1>8 DEF ZTyp
    <3>3. QED
      BY <1>0, <3>1, <3>2
  <2>2. CASE f # "abgeschlossen"
    BY <1>0, <1>2, <2>2
  <2>3. QED
    BY <2>1, <2>2
<1>10. ZyTyp'
  BY <1>0, <1>2, <1>6, <1>7, <1>9 DEF ZyTyp, ZTyp, VTyp, PTyp
<1>11. LaeufeGetrennt'
  <2>1. \A s \in Scheduler : laeufe[s] \subseteq Ziele
    BY <1>0 DEF ZyTyp
  <2>2. QED
    BY <1>2, <1>9, <2>1 DEF IZyklen, LaeufeGetrennt
<1>12. \A w \in Vorgaenge : Besteht(w) => vorgang'[w] # KeinVorgang
  BY <1>4, <1>6, VorgangFakten DEF Besteht
<1>13. PatchBesteht'
  BY <1>0, <1>7, <1>12, VorgangFakten DEF IZyklen, PatchBesteht, Besteht
<1>14. ZielBesteht'
  BY <1>0, <1>9, <1>12, VorgangFakten DEF IZyklen, ZielBesteht, Besteht
<1>15. AbschlussGibtFrei'
  <2> SUFFICES ASSUME NEW z \in Ziele, ziel'[z].offen # KeinVerweis
               PROVE  vorgang'[ziel'[z].offen].status # "abgeschlossen"
    BY DEF AbschlussGibtFrei
  <2>1. ziel'[z] = ziel[z] /\ ziel[z].offen \in Vorgaenge
    BY <1>0, <1>9, VorgangFakten
  <2>2. QED
    BY <1>4, <1>6, <1>9, <2>1 DEF IZyklen, AbschlussGibtFrei
<1>16. HaengtAmZiel'
  <2> SUFFICES ASSUME ~ueberholt, NEW w \in Vorgaenge, Haengt(w)'
               PROVE  ziel'[vorgang'[w].ziel].offen = w
    BY <1>2 DEF HaengtAmZiel
  <2>1. CASE w = v
    <3>1. Haengt(v)
      <4>1. vorgang[v].status \notin Geschlossen
        BY <1>1, <1>2 DEF IZyklen, PatchAllein
      <4>2. QED
        BY <1>3, <1>4, <1>6, <2>1, <4>1 DEF Haengt
    <3>2. f # "abgeschlossen"
      BY <1>4, <1>6, <2>1 DEF Haengt, Geschlossen
    <3>3. QED
      BY <1>2, <1>4, <1>6, <2>1, <3>1, <3>2 DEF IZyklen, HaengtAmZiel
  <2>2. CASE w # v
    <3>1. Haengt(w) /\ vorgang'[w] = vorgang[w] /\ vorgang[w].ziel \in Ziele
      BY <1>0, <1>6, <2>2, VorgangFakten DEF Haengt, Besteht
    <3>2. ziel[vorgang[w].ziel].offen = w
      BY <3>1 DEF IZyklen, HaengtAmZiel
    <3>3. QED
      BY <1>9, <2>2, <3>1, <3>2
  <2>3. QED
    BY <2>1, <2>2
<1>17. PatchAllein'
  <2> SUFFICES ASSUME ~ueberholt, NEW q \in Patcher, patch'[q].v # KeinVerweis
               PROVE  /\ vorgang'[patch'[q].v].status \notin Geschlossen
                      /\ \A r \in Patcher : r # q => patch'[r].v # patch'[q].v
    BY <1>2 DEF PatchAllein
  <2>1. q # p /\ patch'[q] = patch[q] /\ patch[q].v \in Vorgaenge
    BY <1>0, <1>7, VorgangFakten
  <2>2. /\ vorgang[patch[q].v].status \notin Geschlossen
        /\ \A r \in Patcher : r # q => patch[r].v # patch[q].v
    BY <2>1 DEF IZyklen, PatchAllein
  <2>3. patch[q].v # v
    BY <1>1, <2>1, <2>2
  <2>4. QED
    BY <1>6, <1>7, <2>1, <2>2, <2>3
<1>18. QED
  BY <1>10, <1>11, <1>13, <1>14, <1>15, <1>16, <1>17 DEF IZyklen

LEMMA VorgangGeloescht ==
  ASSUME IZyklen, NEW v \in Vorgaenge, LoescheVorgang(v)
  PROVE  IZyklen'
<1>0. /\ ZyTyp /\ ziel \in [Ziele -> ZTyp] /\ vorgang \in [Vorgaenge -> {KeinVorgang} \cup VTyp]
      /\ patch \in [Patcher -> PTyp] /\ KeinVerweis \notin Vorgaenge
      /\ \A w \in Vorgaenge : Besteht(w) => vorgang[w] \in VTyp
  BY ZyFakten DEF IZyklen
<1> DEFINE neu == [vorgang[v] EXCEPT !.geloescht = ~@]
<1>1. /\ Besteht(v) /\ vorgang' = [vorgang EXCEPT ![v].geloescht = ~@]
      /\ UNCHANGED <<tag, ziel, auftrag, laeufe, patch, ueberholt>>
  BY DEF LoescheVorgang
<1>2. neu.status = vorgang[v].status /\ neu.ziel = vorgang[v].ziel /\ neu.geloest = vorgang[v].geloest
  BY <1>0, <1>1 DEF VTyp
<1>3. neu \in VTyp
  <2>1. (~vorgang[v].geloescht) \in BOOLEAN
    OBVIOUS
  <2>2. QED
    BY <1>0, <1>1, <2>1 DEF VTyp
<1>4. vorgang' = [vorgang EXCEPT ![v] = neu]
  BY <1>0, <1>1
<1> HIDE DEF neu
<1>5. /\ vorgang' \in [Vorgaenge -> {KeinVorgang} \cup VTyp]
      /\ \A w \in Vorgaenge : /\ vorgang'[w].status = vorgang[w].status
                              /\ vorgang'[w].ziel = vorgang[w].ziel
                              /\ vorgang'[w].geloest = vorgang[w].geloest
                              /\ vorgang'[w] # KeinVorgang <=> vorgang[w] # KeinVorgang
  BY <1>0, <1>1, <1>2, <1>3, <1>4, VorgangFakten DEF Besteht
<1>6. ZyTyp'
  BY <1>0, <1>1, <1>5 DEF ZyTyp, VTyp
<1>7. LaeufeGetrennt'
  BY <1>1 DEF IZyklen, LaeufeGetrennt
<1>8. PatchBesteht' /\ ZielBesteht'
  BY <1>0, <1>1, <1>5, VorgangFakten DEF IZyklen, PatchBesteht, ZielBesteht, Besteht
<1>9. AbschlussGibtFrei'
  BY <1>0, <1>1, <1>5, VorgangFakten DEF IZyklen, AbschlussGibtFrei
<1>10. HaengtAmZiel'
  BY <1>1, <1>5 DEF IZyklen, HaengtAmZiel, Haengt, Besteht
<1>11. PatchAllein'
  BY <1>0, <1>1, <1>5, VorgangFakten DEF IZyklen, PatchAllein
<1>12. QED
  BY <1>6, <1>7, <1>8, <1>9, <1>10, <1>11 DEF IZyklen

LEMMA ZielGeloest ==
  ASSUME IZyklen, NEW z \in Ziele, TragePruefungNach(z) \/ TauscheAnlage(z)
  PROVE  IZyklen'
<1>0. /\ ZyTyp /\ ziel \in [Ziele -> ZTyp] /\ vorgang \in [Vorgaenge -> {KeinVorgang} \cup VTyp]
      /\ patch \in [Patcher -> PTyp] /\ KeinVerweis \notin Vorgaenge
      /\ \A w \in Vorgaenge : Besteht(w) => vorgang[w] \in VTyp
      /\ laeufe \in [Scheduler -> SUBSET Ziele]
  BY ZyFakten DEF IZyklen
<1>1. /\ ziel[z].offen # KeinVerweis
      /\ ziel' = [ziel EXCEPT ![z] = [naechste |-> tag + Intervall, offen |-> KeinVerweis]]
      /\ vorgang' = Loese(z) /\ UNCHANGED <<tag, auftrag, laeufe, patch, ueberholt>>
  BY DEF TragePruefungNach, TauscheAnlage
<1>2. PICK v \in Vorgaenge : v = ziel[z].offen
  BY <1>0, <1>1, VorgangFakten
<1> DEFINE neu == [vorgang[v] EXCEPT !.geloest = TRUE]
<1>3. Besteht(v) /\ vorgang[v] \in VTyp
  BY <1>0, <1>1, <1>2 DEF IZyklen, ZielBesteht
<1>4. neu \in VTyp /\ neu.status = vorgang[v].status /\ neu.geloest = TRUE
  BY <1>3 DEF VTyp
<1>5. vorgang' = [w \in Vorgaenge |-> IF w = v THEN neu ELSE vorgang[w]]
  BY <1>1, <1>2 DEF Loese
<1> HIDE DEF neu
<1>6. /\ vorgang' \in [Vorgaenge -> {KeinVorgang} \cup VTyp] /\ vorgang'[v] = neu
      /\ \A w \in Vorgaenge : w # v => vorgang'[w] = vorgang[w]
      /\ \A w \in Vorgaenge : /\ vorgang'[w].status = vorgang[w].status
                              /\ vorgang'[w] # KeinVorgang <=> vorgang[w] # KeinVorgang
  BY <1>0, <1>3, <1>4, <1>5, VorgangFakten DEF Besteht
<1>7. tag + Intervall \in Nat
  BY <1>0, ZyklenAnnahme DEF ZyTyp
<1>8. /\ ziel' \in [Ziele -> ZTyp] /\ ziel'[z].offen = KeinVerweis
      /\ \A y \in Ziele : y # z => ziel'[y] = ziel[y]
  BY <1>0, <1>1, <1>7 DEF ZTyp
<1>9. ZyTyp'
  BY <1>0, <1>1, <1>6, <1>8 DEF ZyTyp, ZTyp, VTyp
<1>10. LaeufeGetrennt'
  BY <1>0, <1>1, <1>8 DEF IZyklen, LaeufeGetrennt
<1>11. PatchBesteht' /\ PatchAllein'
  BY <1>0, <1>1, <1>6, VorgangFakten DEF IZyklen, PatchBesteht, PatchAllein, Besteht
<1>12. ZielBesteht' /\ AbschlussGibtFrei'
  BY <1>0, <1>6, <1>8, VorgangFakten DEF IZyklen, ZielBesteht, AbschlussGibtFrei, Besteht
<1>13. HaengtAmZiel'
  <2> SUFFICES ASSUME ~ueberholt, NEW w \in Vorgaenge, Haengt(w)'
               PROVE  ziel'[vorgang'[w].ziel].offen = w
    BY <1>1 DEF HaengtAmZiel
  <2>1. w # v
    BY <1>4, <1>6 DEF Haengt
  <2>2. Haengt(w) /\ vorgang'[w] = vorgang[w] /\ vorgang[w].ziel \in Ziele
    BY <1>0, <1>6, <2>1, VorgangFakten DEF Haengt, Besteht
  <2>3. ziel[vorgang[w].ziel].offen = w
    BY <2>2 DEF IZyklen, HaengtAmZiel
  <2>4. QED
    BY <1>2, <1>8, <2>1, <2>2, <2>3
<1>14. QED
  BY <1>9, <1>10, <1>11, <1>12, <1>13 DEF IZyklen

LEMMA AuftragOderTag ==
  ASSUME IZyklen, SchalteAuftrag \/ PapierkorbAuftrag \/ NaechsterTag \/ UNCHANGED zyVars
  PROVE  IZyklen'
<1>0. ZyTyp /\ laeufe \in [Scheduler -> SUBSET Ziele]
  BY ZyFakten DEF IZyklen
<1>1. UNCHANGED <<ziel, vorgang, laeufe, patch, ueberholt>>
  BY DEF SchalteAuftrag, PapierkorbAuftrag, NaechsterTag, zyVars
<1>2. tag' \in 0..MaxTag
  BY <1>0, ZyklenAnnahme DEF SchalteAuftrag, PapierkorbAuftrag, NaechsterTag, zyVars, ZyTyp
<1>3. auftrag' \in [aktiv : BOOLEAN, geloescht : BOOLEAN]
  <2>1. auftrag \in [aktiv : BOOLEAN, geloescht : BOOLEAN]
    BY <1>0 DEF ZyTyp
  <2>2. (~auftrag.aktiv) \in BOOLEAN /\ (~auftrag.geloescht) \in BOOLEAN
    OBVIOUS
  <2>3. \/ auftrag' = auftrag \/ auftrag' = [auftrag EXCEPT !.aktiv = ~@]
        \/ auftrag' = [auftrag EXCEPT !.geloescht = ~@]
    BY DEF SchalteAuftrag, PapierkorbAuftrag, NaechsterTag, zyVars
  <2>4. QED
    BY <2>1, <2>2, <2>3
<1>4. LaeufeGetrennt'
  BY <1>1 DEF IZyklen, LaeufeGetrennt
<1>5. QED
  BY <1>0, <1>1, <1>2, <1>3, <1>4, NurLaeufe

LEMMA ZyklenAnfang == ZyInit => IZyklen
<1> SUFFICES ASSUME ZyInit PROVE IZyklen
  OBVIOUS
<1>1. ZyTyp
  <2>1. /\ [naechste |-> Intervall, offen |-> KeinVerweis] \in ZTyp
        /\ KeinPatch \in PTyp /\ 0 \in 0..MaxTag
        /\ [aktiv |-> TRUE, geloescht |-> FALSE] \in [aktiv : BOOLEAN, geloescht : BOOLEAN]
    BY ZyklenAnnahme DEF ZTyp, PTyp, KeinPatch, Status
  <2>2. ziel \in [Ziele -> ZTyp] /\ patch \in [Patcher -> PTyp]
    BY <2>1 DEF ZyInit
  <2>3. vorgang \in [Vorgaenge -> {KeinVorgang} \cup VTyp] /\ laeufe \in [Scheduler -> SUBSET Ziele]
    BY DEF ZyInit
  <2>4. QED
    BY <2>1, <2>2, <2>3 DEF ZyInit, ZyTyp, ZTyp, VTyp, PTyp
<1>2. /\ \A z \in Ziele : ziel[z].offen = KeinVerweis
      /\ \A v \in Vorgaenge : ~Besteht(v)
      /\ \A s \in Scheduler : laeufe[s] = {}
      /\ \A p \in Patcher : patch[p].v = KeinVerweis
  BY DEF ZyInit, Besteht, KeinPatch
<1>3. QED
  BY <1>1, <1>2 DEF IZyklen, LaeufeGetrennt, PatchBesteht, ZielBesteht, AbschlussGibtFrei,
                    HaengtAmZiel, Haengt, PatchAllein

LEMMA ZyklenSchritt ==
  ASSUME IZyklen, [ZyNext]_zyVars
  PROVE  IZyklen'
<1>1. CASE \E s \in Scheduler : LaufLiest(s) \/ LaufSchreibt(s) \/ LaufScheitert(s)
  BY <1>1, LaufHolt, LaufOeffnet, LaufFaellt
<1>2. CASE \E p \in Patcher, v \in Vorgaenge :
             Uebernimm(p, v) \/ \E neu \in Status : PatchLiest(p, v, neu)
  BY <1>2, RequestLiest DEF Uebernimm, Status
<1>3. CASE \E p \in Patcher : PatchSchreibt(p)
  BY <1>3, RequestSchreibt
<1>4. CASE \E v \in Vorgaenge : LoescheVorgang(v)
  BY <1>4, VorgangGeloescht
<1>5. CASE \E z \in Ziele : TragePruefungNach(z) \/ TauscheAnlage(z)
  BY <1>5, ZielGeloest
<1>6. CASE SchalteAuftrag \/ PapierkorbAuftrag \/ NaechsterTag \/ UNCHANGED zyVars
  BY <1>6, AuftragOderTag
<1>7. QED
  BY <1>1, <1>2, <1>3, <1>4, <1>5, <1>6 DEF ZyNext

\* However many schedulers run, a target has at most one open job that was not cut loose
\* by hand, unless two requests on one job overlapped, and a closed job never blocks its
\* target (run_pruefzyklen_scheduler, run_dauerauftraege_scheduler, close_vorgang).
THEOREM EinVorgangJeZiel == ZySpec => []ZyklenSicher
<1>1. IZyklen => ZyklenSicher
  <2> SUFFICES ASSUME IZyklen, ~ueberholt, NEW z \in Ziele
               PROVE  Cardinality(OffeneVorgaenge(z)) <= 1
    BY DEF IZyklen, ZyklenSicher, JeZielEinOffener
  <2>1. OffeneVorgaenge(z) \subseteq {ziel[z].offen}
    BY DEF IZyklen, HaengtAmZiel, Haengt, OffeneVorgaenge
  <2>2. IsFiniteSet({ziel[z].offen}) /\ Cardinality({ziel[z].offen}) = 1
    BY FS_Singleton
  <2>3. Cardinality(OffeneVorgaenge(z)) <= Cardinality({ziel[z].offen})
    BY <2>1, <2>2, FS_Subset
  <2>4. QED
    BY <2>2, <2>3
<1>2. QED
  BY <1>1, ZyklenAnfang, ZyklenSchritt, PTL DEF ZySpec

\* With "fest" the due days of a standing order stay in the rhythm of the first one,
\* whenever its jobs are closed (close_vorgang, naechste_faelligkeit).
THEOREM RhythmusHaelt == ZySpec => RhythmusBleibt
<1> DEFINE ImTakt ==
      \A z \in Ziele \ Pruefzyklen :
         Modus = "fest" /\ ziel'[z].naechste # ziel[z].naechste /\ patch' # patch =>
             ziel'[z].naechste = ziel[z].naechste + Intervall
<1>1. IZyklen /\ [ZyNext]_zyVars => [ImTakt]_zyVars
  <2> SUFFICES ASSUME IZyklen, ZyNext, NEW z \in Ziele \ Pruefzyklen, Modus = "fest",
                      ziel'[z].naechste # ziel[z].naechste, patch' # patch
               PROVE  ziel'[z].naechste = ziel[z].naechste + Intervall
    OBVIOUS
  <2>1. \/ \E p \in Patcher : PatchSchreibt(p)
        \/ ziel' = ziel \/ patch' = patch
    BY DEF ZyNext, LaufLiest, LaufSchreibt, LaufScheitert, Uebernimm, PatchLiest,
           LoescheVorgang, TragePruefungNach, TauscheAnlage, SchalteAuftrag,
           PapierkorbAuftrag, NaechsterTag
  <2>2. PICK p \in Patcher : PatchSchreibt(p)
    BY <2>1
  <2>3. ziel' = ZieleNachAbschluss(patch[p].v)
    BY <2>2 DEF PatchSchreibt
  <2>4. ziel'[z] = [naechste |-> Basis(z) + Intervall, offen |-> KeinVerweis]
    BY <2>3 DEF ZieleNachAbschluss
  <2>5. Basis(z) = ziel[z].naechste
    BY DEF Basis
  <2>6. QED
    BY <2>4, <2>5
<1> HIDE DEF ImTakt
<1>2. ZySpec => [][ImTakt]_zyVars
  BY <1>1, ZyklenAnfang, ZyklenSchritt, PTL DEF ZySpec
<1>3. QED
  BY <1>2 DEF RhythmusBleibt, ImTakt

\* The tables of the field app, the server and the schedulers keep their types.
THEOREM FeldTypen == MCSpec => []FeldTyp
<1>1. MCInit => IOffline /\ IZyklen
  BY OfflineAnfang, ZyklenAnfang DEF MCInit
<1>2. IOffline /\ IZyklen /\ [MCNext]_<<teil, offVars, zyVars>> => IOffline' /\ IZyklen'
  <2> SUFFICES ASSUME IOffline, IZyklen, [MCNext]_<<teil, offVars, zyVars>>
               PROVE  IOffline' /\ IZyklen'
    OBVIOUS
  <2>1. [OffNext]_offVars /\ [ZyNext]_zyVars
    BY DEF MCNext
  <2>2. QED
    BY <2>1, OfflineSchritt, ZyklenSchritt
<1>3. IOffline /\ IZyklen => FeldTyp
  BY DEF IOffline, IZyklen, FeldTyp
<1>4. QED
  BY <1>1, <1>2, <1>3, PTL DEF MCSpec
=============================================================================
