-------------------------- MODULE Planung_proofs --------------------------
(***************************************************************************)
(* What is proved about planning, for any number of rows, requests, rules  *)
(* and sessions: OrganigrammGilt by the invariant IOg, AntragGilt by IZa,  *)
(* PlanStimmt and VerbindungenHalten by IPlan, RegelnEindeutig and         *)
(* PflichtWieAngezeigt by IFo, and the types of all parts.                 *)
(*                                                                         *)
(* A request about the chart checks in one step and writes in another.     *)
(* IOg says what the check found and that it is still so when the request  *)
(* writes, which the tenant's lock guarantees.  The chart itself is judged *)
(* by the paths to the root, so the first sections are about what a path   *)
(* is (the smallest set closed under the parent, although it is computed   *)
(* in as many rounds as there are rows) and what moving a node does to it. *)
(*                                                                         *)
(* IPlan is short; the work is in what the passes over the plan compute.   *)
(* They recurse along the connections, so the sections after the requests  *)
(* show that a recursive definition along connections without a circle     *)
(* exists and is unique, and then take its passes one by one: what follows *)
(* is pushed, what is straightened is as early as the rule lets it be, a   *)
(* buffer is exactly the delay that leaves the end of the project alone.   *)
(*                                                                         *)
(* IFo says that one editor never leaves a circle behind.  What an         *)
(* evaluation computes is a course: the rules in their order, one stage    *)
(* after each.  Two courses are compared stage by stage, those of the two  *)
(* languages and those of a first and a second pass.                       *)
(***************************************************************************)
EXTENDS MCPlanung, FiniteSetTheorems, NaturalsInduction, WellFoundedInduction, TLAPS

-----------------------------------------------------------------------------
(***************************************************************************)
(* Paths to the root.  PfadZurWurzel(t, id) is the smallest set that holds *)
(* id and the parent of everything in it.                                  *)
(***************************************************************************)

Abgeschlossen(t, S) == \A k \in S \ {OhneWert} : t[k].eltern \in S

Eltern(t, S) == {t[k].eltern : k \in S \ {OhneWert}}

IstStufe(g, t, id, m) == g = [n \in 0 .. m |-> IF n = 0 THEN {id} ELSE g[n - 1] \cup Eltern(t, g[n - 1])]

LEMMA KleinsteZahl ==
  ASSUME NEW Z \in SUBSET Nat, Z # {}
  PROVE  \E n \in Z : \A m \in Z : n <= m
<1>1. PICK n \in Z : \A m \in Z : <<m, n>> \notin OpToRel(<, Nat)
  BY NatLessThanWellFounded, WFMin
<1>2. \A m \in Z : ~(m < n)
  BY <1>1 DEF OpToRel
<1>3. QED
  BY <1>2

LEMMA StufeGibtEs == ASSUME NEW t, NEW id, NEW m \in Nat PROVE \E g : IstStufe(g, t, id, m)
<1> DEFINE Z == {n \in Nat : ~ \E g : IstStufe(g, t, id, n)}
<1>1. Z = {}
  <2> SUFFICES ASSUME Z # {} PROVE FALSE
    OBVIOUS
  <2>1. PICK n \in Z : \A i \in Z : n <= i
    BY KleinsteZahl
  <2>2. n # 0
    <3> DEFINE g == [i \in 0 .. 0 |-> {id}]
    <3>1. IstStufe(g, t, id, 0)
      BY DEF IstStufe
    <3>2. QED
      BY <3>1
  <2>3. n - 1 \in Nat /\ n - 1 \notin Z
    BY <2>1, <2>2
  <2>4. PICK g : IstStufe(g, t, id, n - 1)
    BY <2>3
  <2> DEFINE h == [i \in 0 .. n |-> IF i = n THEN g[n - 1] \cup Eltern(t, g[n - 1]) ELSE g[i]]
  <2>5. \A i \in 0 .. n : i # n => h[i] = g[i]
    OBVIOUS
  <2>6. ASSUME NEW i \in 0 .. n
        PROVE  h[i] = IF i = 0 THEN {id} ELSE h[i - 1] \cup Eltern(t, h[i - 1])
    <3>1. i # 0 => i - 1 \in 0 .. n /\ i - 1 # n
      BY <2>6
    <3>2. i # 0 => h[i - 1] = g[i - 1]
      BY <2>5, <3>1
    <3>3. CASE i = n
      BY <3>2, <3>3, <2>2
    <3>4. CASE i # n
      <4>1. i \in 0 .. n - 1
        BY <3>4, <2>3
      <4>2. g[i] = IF i = 0 THEN {id} ELSE g[i - 1] \cup Eltern(t, g[i - 1])
        BY <2>4, <4>1 DEF IstStufe
      <4>3. QED
        BY <4>2, <3>2, <3>4, <2>5
    <3>5. QED
      BY <3>3, <3>4
  <2>7. h = [i \in 0 .. n |-> h[i]]
    OBVIOUS
  <2> HIDE DEF h
  <2>8. h = [i \in 0 .. n |-> IF i = 0 THEN {id} ELSE h[i - 1] \cup Eltern(t, h[i - 1])]
    BY <2>6, <2>7
  <2>9. QED
    BY <2>8 DEF IstStufe
<1>2. m \notin Z
  BY <1>1
<1>3. QED
  BY <1>2

LEMMA StufeNull ==
  ASSUME NEW t, NEW id, NEW m \in Nat, NEW g, IstStufe(g, t, id, m)
  PROVE  g[0] = {id}
<1>1. 0 \in 0 .. m
  OBVIOUS
<1>2. QED
  BY <1>1 DEF IstStufe

LEMMA StufeFolgt ==
  ASSUME NEW t, NEW id, NEW m \in Nat, NEW g, IstStufe(g, t, id, m), NEW n \in 1 .. m
  PROVE  n - 1 \in 0 .. m /\ g[n] = g[n - 1] \cup Eltern(t, g[n - 1])
<1>1. n \in 0 .. m /\ n # 0 /\ n - 1 \in 0 .. m
  OBVIOUS
<1>2. g[n] = IF n = 0 THEN {id} ELSE g[n - 1] \cup Eltern(t, g[n - 1])
  BY <1>1 DEF IstStufe
<1>3. QED
  BY <1>1, <1>2

\* Every stage lies in every closed set.
LEMMA StufeInAbgeschlossen ==
  ASSUME NEW t, NEW id, NEW m \in Nat, NEW g, IstStufe(g, t, id, m),
         NEW S, id \in S, Abgeschlossen(t, S), NEW n \in 0 .. m
  PROVE  g[n] \subseteq S
<1>0. g[0] = {id}
  BY StufeNull
<1> DEFINE Z == {i \in 0 .. m : ~(g[i] \subseteq S)}
<1>1. Z = {}
  <2> SUFFICES ASSUME Z # {} PROVE FALSE
    OBVIOUS
  <2>1. PICK i \in Z : \A j \in Z : i <= j
    <3>1. Z \in SUBSET Nat
      OBVIOUS
    <3>2. QED
      BY <3>1, KleinsteZahl
  <2>2. i # 0
    BY <1>0
  <2>3. i \in 1 .. m /\ i - 1 \in 0 .. m /\ i - 1 \notin Z
    BY <2>1, <2>2
  <2>4. g[i] = g[i - 1] \cup Eltern(t, g[i - 1]) /\ g[i - 1] \subseteq S
    BY <2>3, StufeFolgt
  <2>5. Eltern(t, g[i - 1]) \subseteq S
    BY <2>4 DEF Eltern, Abgeschlossen
  <2>6. QED
    BY <2>4, <2>5
<1>2. QED
  BY <1>1

\* A stage is closed, or it has one member more than its number.
LEMMA StufeWaechst ==
  ASSUME NEW t, NEW id, NEW m \in Nat, NEW g, IstStufe(g, t, id, m),
         NEW D, IsFiniteSet(D), id \in D, Abgeschlossen(t, D), NEW n \in 0 .. m
  PROVE  id \in g[n] /\ (Abgeschlossen(t, g[n]) \/ Cardinality(g[n]) > n)
<1>0. g[0] = {id}
  BY StufeNull
<1> DEFINE Gut(i) == id \in g[i] /\ (Abgeschlossen(t, g[i]) \/ Cardinality(g[i]) > i)
           Z == {i \in 0 .. m : ~Gut(i)}
<1>1. Z = {}
  <2> SUFFICES ASSUME Z # {} PROVE FALSE
    OBVIOUS
  <2>1. PICK i \in Z : \A j \in Z : i <= j
    <3>1. Z \in SUBSET Nat
      OBVIOUS
    <3>2. QED
      BY <3>1, KleinsteZahl
  <2>2. i # 0
    <3>1. Cardinality({id}) = 1
      BY FS_Singleton
    <3>2. QED
      BY <1>0, <2>1, <3>1
  <2>3. i \in 1 .. m /\ i - 1 \in 0 .. m /\ Gut(i - 1)
    BY <2>1, <2>2
  <2>4. g[i] = g[i - 1] \cup Eltern(t, g[i - 1])
    BY <2>3, StufeFolgt
  <2>5. CASE Abgeschlossen(t, g[i - 1])
    <3>1. g[i] = g[i - 1]
      BY <2>4, <2>5 DEF Abgeschlossen, Eltern
    <3>2. QED
      BY <2>1, <2>3, <2>5, <3>1
  <2>6. CASE ~Abgeschlossen(t, g[i - 1])
    <3>1. PICK x \in Eltern(t, g[i - 1]) : x \notin g[i - 1]
      BY <2>6 DEF Abgeschlossen, Eltern
    <3>2. g[i] \subseteq D
      BY StufeInAbgeschlossen
    <3>3. g[i - 1] \cup {x} \subseteq g[i] /\ g[i - 1] \subseteq D
      BY <2>4, <3>1, <3>2
    <3>4. IsFiniteSet(g[i]) /\ IsFiniteSet(g[i - 1])
      BY <3>2, <3>3, FS_Subset
    <3>5. /\ Cardinality(g[i - 1] \cup {x}) = Cardinality(g[i - 1]) + 1
          /\ IsFiniteSet(g[i - 1] \cup {x})
      BY <3>1, <3>4, FS_AddElement
    <3>6. Cardinality(g[i - 1] \cup {x}) <= Cardinality(g[i])
      BY <3>3, <3>4, FS_Subset
    <3>7. Cardinality(g[i]) \in Nat /\ Cardinality(g[i - 1]) \in Nat
      BY <3>4, FS_CardinalityType
    <3>8. Cardinality(g[i]) > i
      BY <2>3, <2>6, <3>5, <3>6, <3>7
    <3>9. QED
      BY <2>1, <2>3, <2>4, <3>8
  <2>7. QED
    BY <2>5, <2>6
<1>2. QED
  BY <1>1

LEMMA PfadFakten ==
  ASSUME NEW D, IsFiniteSet(D), NEW t, DOMAIN t = D, \A k \in D : t[k].eltern \in D \cup {OhneWert},
         NEW id \in D \cup {OhneWert}
  PROVE  /\ id \in PfadZurWurzel(t, id) /\ Abgeschlossen(t, PfadZurWurzel(t, id))
         /\ PfadZurWurzel(t, id) \subseteq D \cup {OhneWert}
         /\ \A S : id \in S /\ Abgeschlossen(t, S) => PfadZurWurzel(t, id) \subseteq S
<1> DEFINE m == Cardinality(D)
           E == D \cup {OhneWert}
           g == CHOOSE h : IstStufe(h, t, id, m)
<1>1. m \in Nat /\ IsFiniteSet(E) /\ Cardinality(E) \in Nat /\ Cardinality(E) <= m + 1
  <2>1. m \in Nat
    BY FS_CardinalityType
  <2>2. IsFiniteSet(E) /\ Cardinality(E) \in {m, m + 1}
    BY FS_AddElement
  <2>3. QED
    BY <2>1, <2>2
<1>2. Abgeschlossen(t, E)
  BY DEF Abgeschlossen
<1>3. IstStufe(g, t, id, m)
  BY <1>1, StufeGibtEs
<1>4. PfadZurWurzel(t, id) = g[m]
  BY DEF PfadZurWurzel, IstStufe, Eltern
<1> HIDE DEF g, m
<1>5. m \in 0 .. m
  BY <1>1
<1>6. \A S : id \in S /\ Abgeschlossen(t, S) => g[m] \subseteq S
  BY <1>1, <1>3, <1>5, StufeInAbgeschlossen
<1>7. g[m] \subseteq E
  BY <1>2, <1>6
<1>8. id \in g[m] /\ (Abgeschlossen(t, g[m]) \/ Cardinality(g[m]) > m)
  BY <1>1, <1>2, <1>3, <1>5, StufeWaechst
<1>9. Abgeschlossen(t, g[m])
  <2> SUFFICES ASSUME Cardinality(g[m]) > m PROVE g[m] = E
    BY <1>2, <1>8
  <2>1. IsFiniteSet(g[m]) /\ Cardinality(g[m]) <= Cardinality(E)
    BY <1>1, <1>7, FS_Subset
  <2>2. Cardinality(g[m]) \in Nat
    BY <2>1, FS_CardinalityType
  <2>3. Cardinality(g[m]) = Cardinality(E)
    BY <1>1, <2>1, <2>2
  <2>4. QED
    BY <1>1, <1>7, <2>3, FS_Subset
<1>10. QED
  BY <1>4, <1>6, <1>7, <1>8, <1>9

\* t is a table of nodes over the ids D.
Tabelle(t, D) == t \in [D -> KnotenTyp(D)]

LEMMA PfadGesetze ==
  ASSUME NEW D, IsFiniteSet(D), NEW t, Tabelle(t, D), NEW id \in D \cup {OhneWert}
  PROVE  /\ id \in PfadZurWurzel(t, id) /\ Abgeschlossen(t, PfadZurWurzel(t, id))
         /\ PfadZurWurzel(t, id) \subseteq D \cup {OhneWert}
         /\ \A S : id \in S /\ Abgeschlossen(t, S) => PfadZurWurzel(t, id) \subseteq S
<1>1. DOMAIN t = D /\ \A k \in D : t[k].eltern \in D \cup {OhneWert}
  BY DEF Tabelle, KnotenTyp
<1>2. QED
  BY <1>1, PfadFakten

\* A node p of which only the parent is different does not matter to the paths that avoid it.
LEMMA PfadOhne ==
  ASSUME NEW D, IsFiniteSet(D), NEW t, Tabelle(t, D), NEW u, Tabelle(u, D),
         NEW p, \A k \in D \ {p} : u[k].eltern = t[k].eltern,
         NEW x \in D \cup {OhneWert}, p \notin PfadZurWurzel(t, x)
  PROVE  PfadZurWurzel(u, x) = PfadZurWurzel(t, x)
<1> DEFINE P == PfadZurWurzel(t, x)
           Q == PfadZurWurzel(u, x)
<1>1. x \in P /\ Abgeschlossen(t, P) /\ P \subseteq D \cup {OhneWert}
  BY PfadGesetze
<1>2. x \in Q /\ Abgeschlossen(u, Q) /\ Q \subseteq D \cup {OhneWert}
  BY PfadGesetze
<1>3. Abgeschlossen(u, P)
  BY <1>1 DEF Abgeschlossen
<1>4. Q \subseteq P
  BY <1>1, <1>3, PfadGesetze
<1>5. Abgeschlossen(t, Q)
  BY <1>2, <1>4 DEF Abgeschlossen
<1>6. P \subseteq Q
  BY <1>2, <1>5, PfadGesetze
<1>7. QED
  BY <1>4, <1>6

LEMMA PfadGleich ==
  ASSUME NEW D, IsFiniteSet(D), NEW t, Tabelle(t, D), NEW u, Tabelle(u, D),
         \A k \in D : u[k].eltern = t[k].eltern, NEW x \in D \cup {OhneWert}
  PROVE  PfadZurWurzel(u, x) = PfadZurWurzel(t, x)
<1> DEFINE P == PfadZurWurzel(t, x)
           Q == PfadZurWurzel(u, x)
<1>1. x \in P /\ Abgeschlossen(t, P) /\ P \subseteq D \cup {OhneWert}
  BY PfadGesetze
<1>2. x \in Q /\ Abgeschlossen(u, Q) /\ Q \subseteq D \cup {OhneWert}
  BY PfadGesetze
<1>3. Abgeschlossen(u, P) /\ Abgeschlossen(t, Q)
  BY <1>1, <1>2 DEF Abgeschlossen
<1>4. Q \subseteq P /\ P \subseteq Q
  BY <1>1, <1>2, <1>3, PfadGesetze
<1>5. QED
  BY <1>4

\* The path of a node goes on with the path of its parent.
LEMMA PfadDesElternteils ==
  ASSUME NEW D, IsFiniteSet(D), NEW t, Tabelle(t, D), NEW x \in D \cup {OhneWert},
         NEW p \in PfadZurWurzel(t, x), p # OhneWert
  PROVE  t[p].eltern \in D \cup {OhneWert} /\ PfadZurWurzel(t, t[p].eltern) \subseteq PfadZurWurzel(t, x)
<1>1. Abgeschlossen(t, PfadZurWurzel(t, x)) /\ PfadZurWurzel(t, x) \subseteq D \cup {OhneWert}
  BY PfadGesetze
<1>2. t[p].eltern \in PfadZurWurzel(t, x)
  BY <1>1 DEF Abgeschlossen
<1>3. QED
  BY <1>1, <1>2, PfadGesetze

\* What was reached still is when p goes to a parent that reaches it without p.
LEMMA PfadNachUmhaengen ==
  ASSUME NEW D, IsFiniteSet(D), NEW t, Tabelle(t, D), NEW u, Tabelle(u, D),
         NEW p \in D, OhneWert \notin D, \A k \in D \ {p} : u[k].eltern = t[k].eltern,
         p \notin PfadZurWurzel(t, u[p].eltern),
         NEW z \in PfadZurWurzel(t, u[p].eltern), NEW x \in D \cup {OhneWert},
         z \in PfadZurWurzel(t, x) \/ x = p
  PROVE  z \in PfadZurWurzel(u, x)
<1> DEFINE e == u[p].eltern
           S == PfadZurWurzel(u, x)
<1>1. e \in D \cup {OhneWert}
  BY DEF Tabelle, KnotenTyp
<1>2. PfadZurWurzel(u, e) = PfadZurWurzel(t, e)
  BY <1>1, PfadOhne
<1>3. x \in S /\ Abgeschlossen(u, S) /\ S \subseteq D \cup {OhneWert}
  BY PfadGesetze
<1>4. CASE p \in S
  BY <1>2, <1>4, PfadDesElternteils
<1>5. CASE p \notin S
  <2>1. PfadZurWurzel(t, x) = S
    BY <1>5, PfadOhne
  <2>2. QED
    BY <1>3, <1>5, <2>1
<1>6. QED
  BY <1>4, <1>5

\* A node without children is on no path but its own.
LEMMA KinderlosAufKeinemPfad ==
  ASSUME NEW D, IsFiniteSet(D), NEW t, Tabelle(t, D), NEW p \in D, \A k \in D : t[k].eltern # p,
         NEW x \in D \cup {OhneWert}, x # p
  PROVE  p \notin PfadZurWurzel(t, x)
<1> DEFINE S == (D \cup {OhneWert}) \ {p}
<1>1. Abgeschlossen(t, S)
  BY DEF Abgeschlossen, Tabelle, KnotenTyp
<1>2. PfadZurWurzel(t, x) \subseteq S
  BY <1>1, PfadGesetze
<1>3. QED
  BY <1>2

LEMMA PfadVonOhneWert ==
  ASSUME NEW D, IsFiniteSet(D), NEW t, Tabelle(t, D)
  PROVE  PfadZurWurzel(t, OhneWert) = {OhneWert}
<1>1. Abgeschlossen(t, {OhneWert})
  BY DEF Abgeschlossen
<1>2. QED
  BY <1>1, PfadGesetze

-----------------------------------------------------------------------------
(***************************************************************************)
(* The invariant of the organisation chart.                                *)
(***************************************************************************)

AnfrageTyp ==
  [art : OhneSperre \cup MitSperre, id : Positionen \cup Einheiten \cup {OhneWert},
   eltern : Positionen \cup Einheiten \cup {OhneWert}, einheit : Einheiten \cup {OhneWert},
   nutzer : Besetzer \cup {OhneWert}, alt : SitzArt, neu : SitzArt]

\* Free places are empty, and no row names one that is free.
Gefuellt(t) == \A k \in DOMAIN t : /\ ~t[k].da => t[k] = KeinKnoten
                                   /\ t[k].eltern # OhneWert => t[t[k].eltern].da
EinheitDa == \A p \in Positionen : position[p].einheit # OhneWert => einheit[position[p].einheit].da

\* A unit that a position may be given.
Zuteilbar(e) == e = OhneWert \/ (Gibt(einheit, e) /\ (ogKopien \/ Lebt(einheit, e)))

\* What the checks of a position request found, still so when it writes.
PositionGeprueft(q) ==
  /\ q.id \in Positionen
  /\ q.art = "anlegen" =>
       ~position[q.id].da /\ q.eltern \in Positionen /\ Lebt(position, q.eltern) /\ Zuteilbar(q.einheit)
  /\ q.art = "umhaengen" =>
       /\ q.id # Wurzel /\ Lebt(position, q.id) /\ q.eltern \in Positionen /\ Lebt(position, q.eltern)
       /\ q.id \notin PfadZurWurzel(position, q.eltern)
  /\ q.art = "zuordnen" => Lebt(position, q.id) /\ EinheitPruefen(q.einheit)
  /\ q.art = "archivieren" =>
       /\ q.id # Wurzel /\ Lebt(position, q.id) /\ \A k \in Kinder(position, q.id) : position[k].archiv
       /\ ogEinzeln => \A n \in Besetzer : "offen" \notin sitz[q.id][n]
  /\ q.art = "loeschen" => q.id # Wurzel /\ Gibt(position, q.id) /\ Kinder(position, q.id) = {}

EinheitGeprueft(q) ==
  /\ q.id \in Einheiten
  /\ q.art = "einheitAnlegen" =>
       ~einheit[q.id].da /\ q.eltern \in Einheiten \cup {OhneWert} /\ EinheitPruefen(q.eltern)
  /\ q.art = "einheitUmhaengen" =>
       /\ Lebt(einheit, q.id) /\ q.eltern \in Einheiten \cup {OhneWert} /\ EinheitPruefen(q.eltern)
       /\ q.eltern # OhneWert => q.id \notin PfadZurWurzel(einheit, q.eltern)
  /\ q.art = "einheitArchivieren" =>
       /\ Lebt(einheit, q.id) /\ \A k \in Kinder(einheit, q.id) : einheit[k].archiv
       /\ \A p \in Positionen : position[p].einheit = q.id => position[p].archiv
  /\ q.art = "einheitLoeschen" =>
       Gibt(einheit, q.id) /\ Kinder(einheit, q.id) = {} /\ \A p \in Positionen : position[p].einheit # q.id

SitzGeprueft(q) ==
  /\ q.id \in Positionen /\ q.nutzer \in Besetzer
  /\ q.art = "besetzen" /\ ogEinzeln => Lebt(position, q.id)
  /\ q.art = "beenden" => q.neu # "offen"

PositionArten == {"anlegen", "umhaengen", "zuordnen", "archivieren", "loeschen"}
EinheitArten == {"einheitAnlegen", "einheitUmhaengen", "einheitArchivieren", "einheitLoeschen"}

Geprueft(q) ==
  /\ q.art \in PositionArten => PositionGeprueft(q)
  /\ q.art \in EinheitArten => EinheitGeprueft(q)
  /\ q.art \in {"besetzen", "beenden"} => SitzGeprueft(q)

Gesperrt ==
  \A a, b \in OgAnfragen :
    \/ a = b
    \/ ogAnfrage[a].art \notin MitSperre \/ ogAnfrage[b].art \notin MitSperre
Einzeln == ogEinzeln => \A a, b \in OgAnfragen : a = b \/ ogAnfrage[a].art = "keine" \/ ogAnfrage[b].art = "keine"

IOg ==
  /\ OgTyp /\ Gefuellt(position) /\ Gefuellt(einheit) /\ EinheitDa
  /\ OrganigrammGilt
  /\ Gesperrt /\ Einzeln
  /\ \A a \in OgAnfragen : Geprueft(ogAnfrage[a])

LEMMA OgFakten ==
  ASSUME IOg
  PROVE  /\ Tabelle(position, Positionen) /\ Tabelle(einheit, Einheiten)
         /\ DOMAIN position = Positionen /\ DOMAIN einheit = Einheiten
         /\ sitz \in [Positionen -> [Besetzer -> SUBSET SitzArt]]
         /\ ogAnfrage \in [OgAnfragen -> AnfrageTyp]
         /\ \A p \in Positionen : position[p] \in KnotenTyp(Positionen)
         /\ \A e \in Einheiten : einheit[e] \in KnotenTyp(Einheiten)
         /\ IsFiniteSet(Positionen) /\ IsFiniteSet(Einheiten)
         /\ OhneWert \notin Positionen /\ OhneWert \notin Einheiten
         /\ Wurzel \in Positionen
BY OrganigrammAnnahme DEF IOg, OgTyp, Tabelle, AnfrageTyp

LEMMA KeinKnotenTyp == KeinKnoten \in KnotenTyp(Positionen) /\ KeinKnoten \in KnotenTyp(Einheiten)
BY DEF KeinKnoten, KnotenTyp

LEMMA RuheTyp ==
  Ruhe \in AnfrageTyp /\ Ruhe.art = "keine" /\ Geprueft(Ruhe)
<1>1. Ruhe \in AnfrageTyp
  BY DEF Ruhe, AnfrageTyp, OhneSperre, SitzArt
<1>2. Ruhe.art = "keine"
  BY DEF Ruhe
<1>3. QED
  BY <1>1, <1>2 DEF Geprueft, PositionArten, EinheitArten

LEMMA OgStart == OgInit => IOg
<1> SUFFICES ASSUME OgInit PROVE IOg
  OBVIOUS
<1> DEFINE w == Knoten(OhneWert, OhneWert, FALSE)
<1>1. /\ w \in KnotenTyp(Positionen) /\ w.eltern = OhneWert /\ w.einheit = OhneWert /\ w.da /\ ~w.archiv
      /\ KeinKnoten.eltern = OhneWert /\ KeinKnoten.einheit = OhneWert /\ ~KeinKnoten.da /\ ~KeinKnoten.archiv
  BY DEF Knoten, KeinKnoten, KnotenTyp
<1>2. /\ position = [p \in Positionen |-> IF p = Wurzel THEN w ELSE KeinKnoten]
      /\ einheit = [e \in Einheiten |-> KeinKnoten]
      /\ ogAnfrage = [a \in OgAnfragen |-> Ruhe]
      /\ sitz = [p \in Positionen |-> [n \in Besetzer |-> {}]]
      /\ sitze = 0
  BY DEF OgInit
<1> HIDE DEF w
<1>3. position \in [Positionen -> KnotenTyp(Positionen)] /\ einheit \in [Einheiten -> KnotenTyp(Einheiten)]
  BY <1>1, <1>2, KeinKnotenTyp
<1>4. ogAnfrage \in [OgAnfragen -> AnfrageTyp]
  BY <1>2, RuheTyp
<1>5. OgTyp
  <2>1. sitz \in [Positionen -> [Besetzer -> SUBSET SitzArt]] /\ sitze \in 0 .. MaxSitze
    BY <1>2, OrganigrammAnnahme
  <2>2. QED
    BY <2>1, <1>3, <1>4 DEF OgTyp, AnfrageTyp
<1>6. Gefuellt(position) /\ Gefuellt(einheit) /\ EinheitDa
  BY <1>1, <1>2 DEF Gefuellt, EinheitDa
<1>7. Gesperrt /\ Einzeln /\ \A a \in OgAnfragen : Geprueft(ogAnfrage[a])
  <2>1. "keine" \notin MitSperre
    BY DEF MitSperre
  <2>2. QED
    BY <2>1, <1>2, RuheTyp DEF Gesperrt, Einzeln
<1>8. EinBaum
  <2>1. \A p \in Positionen : position[p].da => p = Wurzel
    BY <1>1, <1>2
  <2>2. Wurzel \in PfadZurWurzel(position, Wurzel)
    BY <1>3, OrganigrammAnnahme, PfadGesetze DEF Tabelle
  <2>3. QED
    BY <2>1, <2>2 DEF EinBaum
<1>9. EinWald /\ NichtsUnterArchiviertem /\ EinheitInGebrauch /\ ArchiviertIstUnbesetzt
  BY <1>1, <1>2 DEF EinWald, NichtsUnterArchiviertem, EinheitInGebrauch, ArchiviertIstUnbesetzt, Lebt, Gibt
<1>10. QED
  BY <1>5, <1>6, <1>7, <1>8, <1>9 DEF IOg, OrganigrammGilt

-----------------------------------------------------------------------------
(***************************************************************************)
(* The checks of a request.                                                *)
(***************************************************************************)

LEMMA VormerkenHaelt ==
  ASSUME IOg, NEW a \in OgAnfragen, NEW v \in AnfrageTyp, Vormerken(a, v), Geprueft(v),
         v.art \in MitSperre => \A b \in OgAnfragen : ogAnfrage[b].art \notin MitSperre,
         ogEinzeln => \A b \in OgAnfragen : ogAnfrage[b].art = "keine"
  PROVE  IOg'
<1>1. /\ ogAnfrage' = [ogAnfrage EXCEPT ![a] = v]
      /\ position' = position /\ einheit' = einheit /\ sitz' = sitz /\ sitze' = sitze
      /\ ogEinzeln' = ogEinzeln /\ ogKopien' = ogKopien
  BY DEF Vormerken
<1>2. ogAnfrage'[a] = v /\ \A b \in OgAnfragen \ {a} : ogAnfrage'[b] = ogAnfrage[b]
  BY <1>1, OgFakten
<1>3. ogAnfrage' \in [OgAnfragen -> AnfrageTyp]
  BY <1>1, OgFakten
<1>4. OgTyp'
  BY <1>1, <1>3 DEF IOg, OgTyp, AnfrageTyp
<1>5. Gefuellt(position)' /\ Gefuellt(einheit)' /\ EinheitDa' /\ OrganigrammGilt'
  BY <1>1 DEF IOg, Gefuellt, EinheitDa, OrganigrammGilt, EinBaum, EinWald, NichtsUnterArchiviertem, EinheitInGebrauch,
              ArchiviertIstUnbesetzt, Lebt, Gibt, EinheitPruefen
<1>6. Gesperrt' /\ Einzeln'
  BY <1>1, <1>2 DEF IOg, Gesperrt, Einzeln
<1>7. ASSUME NEW q PROVE Geprueft(q)' = Geprueft(q)
  BY <1>1 DEF Geprueft, PositionGeprueft, EinheitGeprueft, SitzGeprueft, Zuteilbar, EinheitPruefen, Lebt, Gibt
<1>8. ASSUME NEW b \in OgAnfragen PROVE Geprueft(ogAnfrage[b])'
  <2>1. PICK q : q = ogAnfrage'[b]
    OBVIOUS
  <2>2. Geprueft(q)
    BY <1>2, <2>1 DEF IOg
  <2>3. Geprueft(q)'
    BY <1>7, <2>2
  <2>4. QED
    BY <2>1, <2>3
<1>9. QED
  BY <1>4, <1>5, <1>6, <1>8 DEF IOg

LEMMA SperreFrei ==
  ASSUME NEW a \in OgAnfragen, BaumSperren(a)
  PROVE  /\ \A b \in OgAnfragen : ogAnfrage[b].art \notin MitSperre
         /\ ogEinzeln => \A b \in OgAnfragen : ogAnfrage[b].art = "keine"
BY DEF BaumSperren

LEMMA CreatePositionHaelt ==
  ASSUME IOg, NEW a \in OgAnfragen, NEW p \in Positionen, NEW eltern \in Positionen, NEW e \in Einheiten \cup {OhneWert}, CreatePosition(a, p, eltern, e)
  PROVE  IOg'
<1>1. BaumSperren(a) /\ Vormerken(a, [Ruhe EXCEPT !.art = "anlegen", !.id = p, !.eltern = eltern, !.einheit = e])
  BY DEF CreatePosition
<1>2. ~position[p].da /\ Lebt(position, eltern) /\ Zuteilbar(e)
  BY OgFakten DEF CreatePosition, Unbenutzt, EinheitPruefen, Zuteilbar, Lebt
<1>3. PICK v : v = [Ruhe EXCEPT !.art = "anlegen", !.id = p, !.eltern = eltern, !.einheit = e]
  OBVIOUS
<1>4. v \in AnfrageTyp /\ v.art = "anlegen" /\ v.id = p /\ v.eltern = eltern /\ v.einheit = e
  BY <1>2, <1>3, RuheTyp, OgFakten DEF AnfrageTyp, OhneSperre, MitSperre, KnotenTyp
<1>6. PositionGeprueft(v)
  BY <1>2, <1>4 DEF PositionGeprueft
<1>7. Geprueft(v)
  BY <1>4, <1>6 DEF Geprueft, PositionArten, EinheitArten
<1>8. QED
  BY <1>1, <1>3, <1>4, <1>7, SperreFrei, VormerkenHaelt

LEMMA MovePositionHaelt ==
  ASSUME IOg, NEW a \in OgAnfragen, NEW p \in Positionen, NEW eltern \in Positionen, MovePosition(a, p, eltern)
  PROVE  IOg'
<1>1. BaumSperren(a) /\ Vormerken(a, [Ruhe EXCEPT !.art = "umhaengen", !.id = p, !.eltern = eltern])
  BY DEF MovePosition
<1>2. p # Wurzel /\ Lebt(position, p) /\ Lebt(position, eltern) /\ p \notin PfadZurWurzel(position, eltern)
  BY OgFakten DEF MovePosition
<1>3. PICK v : v = [Ruhe EXCEPT !.art = "umhaengen", !.id = p, !.eltern = eltern]
  OBVIOUS
<1>4. v \in AnfrageTyp /\ v.art = "umhaengen" /\ v.id = p /\ v.eltern = eltern
  BY <1>2, <1>3, RuheTyp, OgFakten DEF AnfrageTyp, OhneSperre, MitSperre, KnotenTyp
<1>6. PositionGeprueft(v)
  BY <1>2, <1>4 DEF PositionGeprueft
<1>7. Geprueft(v)
  BY <1>4, <1>6 DEF Geprueft, PositionArten, EinheitArten
<1>8. QED
  BY <1>1, <1>3, <1>4, <1>7, SperreFrei, VormerkenHaelt

LEMMA AssignPositionHaelt ==
  ASSUME IOg, NEW a \in OgAnfragen, NEW p \in Positionen, NEW e \in Einheiten \cup {OhneWert}, AssignPosition(a, p, e)
  PROVE  IOg'
<1>1. BaumSperren(a) /\ Vormerken(a, [Ruhe EXCEPT !.art = "zuordnen", !.id = p, !.einheit = e])
  BY DEF AssignPosition
<1>2. Lebt(position, p) /\ EinheitPruefen(e)
  BY OgFakten DEF AssignPosition
<1>3. PICK v : v = [Ruhe EXCEPT !.art = "zuordnen", !.id = p, !.einheit = e]
  OBVIOUS
<1>4. v \in AnfrageTyp /\ v.art = "zuordnen" /\ v.id = p /\ v.einheit = e
  BY <1>2, <1>3, RuheTyp, OgFakten DEF AnfrageTyp, OhneSperre, MitSperre, KnotenTyp
<1>6. PositionGeprueft(v)
  BY <1>2, <1>4 DEF PositionGeprueft
<1>7. Geprueft(v)
  BY <1>4, <1>6 DEF Geprueft, PositionArten, EinheitArten
<1>8. QED
  BY <1>1, <1>3, <1>4, <1>7, SperreFrei, VormerkenHaelt

LEMMA DuplicatePositionHaelt ==
  ASSUME IOg, NEW a \in OgAnfragen, NEW p \in Positionen, NEW kopie \in Positionen, DuplicatePosition(a, p, kopie)
  PROVE  IOg'
<1>1. BaumSperren(a) /\ Vormerken(a, [Ruhe EXCEPT !.art = "anlegen", !.id = kopie, !.eltern = position[p].eltern, !.einheit = position[p].einheit])
  BY DEF DuplicatePosition
<1>2. /\ ~position[kopie].da /\ Lebt(position, position[p].eltern) /\ Zuteilbar(position[p].einheit)
      /\ position[p].eltern \in Positionen
  BY OgFakten DEF DuplicatePosition, Unbenutzt, Lebt, Gibt, Zuteilbar, IOg, EinheitDa, KnotenTyp
<1>3. PICK v : v = [Ruhe EXCEPT !.art = "anlegen", !.id = kopie, !.eltern = position[p].eltern, !.einheit = position[p].einheit]
  OBVIOUS
<1>4. v \in AnfrageTyp /\ v.art = "anlegen" /\ v.id = kopie /\ v.eltern = position[p].eltern /\ v.einheit = position[p].einheit
  BY <1>2, <1>3, RuheTyp, OgFakten DEF AnfrageTyp, OhneSperre, MitSperre, KnotenTyp
<1>6. PositionGeprueft(v)
  BY <1>2, <1>4 DEF PositionGeprueft
<1>7. Geprueft(v)
  BY <1>4, <1>6 DEF Geprueft, PositionArten, EinheitArten
<1>8. QED
  BY <1>1, <1>3, <1>4, <1>7, SperreFrei, VormerkenHaelt

LEMMA ArchivePositionHaelt ==
  ASSUME IOg, NEW a \in OgAnfragen, NEW p \in Positionen, ArchivePosition(a, p)
  PROVE  IOg'
<1>1. BaumSperren(a) /\ Vormerken(a, [Ruhe EXCEPT !.art = "archivieren", !.id = p])
  BY DEF ArchivePosition
<1>2. /\ p # Wurzel /\ Lebt(position, p) /\ \A k \in Kinder(position, p) : position[k].archiv
      /\ \A n \in Besetzer : "offen" \notin sitz[p][n]
  BY OgFakten DEF ArchivePosition
<1>3. PICK v : v = [Ruhe EXCEPT !.art = "archivieren", !.id = p]
  OBVIOUS
<1>4. v \in AnfrageTyp /\ v.art = "archivieren" /\ v.id = p
  BY <1>2, <1>3, RuheTyp, OgFakten DEF AnfrageTyp, OhneSperre, MitSperre, KnotenTyp
<1>6. PositionGeprueft(v)
  BY <1>2, <1>4 DEF PositionGeprueft
<1>7. Geprueft(v)
  BY <1>4, <1>6 DEF Geprueft, PositionArten, EinheitArten
<1>8. QED
  BY <1>1, <1>3, <1>4, <1>7, SperreFrei, VormerkenHaelt

LEMMA DeletePositionHaelt ==
  ASSUME IOg, NEW a \in OgAnfragen, NEW p \in Positionen, DeletePosition(a, p)
  PROVE  IOg'
<1>1. BaumSperren(a) /\ Vormerken(a, [Ruhe EXCEPT !.art = "loeschen", !.id = p])
  BY DEF DeletePosition
<1>2. p # Wurzel /\ Gibt(position, p) /\ Kinder(position, p) = {}
  BY OgFakten DEF DeletePosition
<1>3. PICK v : v = [Ruhe EXCEPT !.art = "loeschen", !.id = p]
  OBVIOUS
<1>4. v \in AnfrageTyp /\ v.art = "loeschen" /\ v.id = p
  BY <1>2, <1>3, RuheTyp, OgFakten DEF AnfrageTyp, OhneSperre, MitSperre, KnotenTyp
<1>6. PositionGeprueft(v)
  BY <1>2, <1>4 DEF PositionGeprueft
<1>7. Geprueft(v)
  BY <1>4, <1>6 DEF Geprueft, PositionArten, EinheitArten
<1>8. QED
  BY <1>1, <1>3, <1>4, <1>7, SperreFrei, VormerkenHaelt

LEMMA CreateBesetzungHaelt ==
  ASSUME IOg, NEW a \in OgAnfragen, NEW p \in Positionen, NEW n \in Besetzer, NEW art \in SitzArt, CreateBesetzung(a, p, n, art)
  PROVE  IOg'
<1>1. OhneBaumSperre(a) /\ Vormerken(a, [Ruhe EXCEPT !.art = "besetzen", !.id = p, !.nutzer = n, !.neu = art])
  BY DEF CreateBesetzung
<1>2. Lebt(position, p)
  BY OgFakten DEF CreateBesetzung
<1>3. PICK v : v = [Ruhe EXCEPT !.art = "besetzen", !.id = p, !.nutzer = n, !.neu = art]
  OBVIOUS
<1>4. v \in AnfrageTyp /\ v.art = "besetzen" /\ v.id = p /\ v.nutzer = n /\ v.neu = art
  BY <1>2, <1>3, RuheTyp, OgFakten DEF AnfrageTyp, OhneSperre, MitSperre, KnotenTyp
<1>5. /\ v.art \notin MitSperre
      /\ ogEinzeln => \A b \in OgAnfragen : ogAnfrage[b].art = "keine"
  BY <1>1, <1>4 DEF OhneBaumSperre, MitSperre
<1>6. SitzGeprueft(v)
  BY <1>2, <1>4 DEF SitzGeprueft
<1>7. Geprueft(v)
  BY <1>4, <1>6 DEF Geprueft, PositionArten, EinheitArten
<1>8. QED
  BY <1>1, <1>3, <1>4, <1>5, <1>7, VormerkenHaelt

LEMMA UpdateBesetzungHaelt ==
  ASSUME IOg, NEW a \in OgAnfragen, NEW p \in Positionen, NEW n \in Besetzer, NEW alt \in SitzArt, NEW neu \in SitzArt, UpdateBesetzung(a, p, n, alt, neu)
  PROVE  IOg'
<1>1. OhneBaumSperre(a) /\ Vormerken(a, [Ruhe EXCEPT !.art = "beenden", !.id = p, !.nutzer = n, !.alt = alt, !.neu = neu])
  BY DEF UpdateBesetzung
<1>2. neu # "offen"
  BY OgFakten DEF UpdateBesetzung
<1>3. PICK v : v = [Ruhe EXCEPT !.art = "beenden", !.id = p, !.nutzer = n, !.alt = alt, !.neu = neu]
  OBVIOUS
<1>4. v \in AnfrageTyp /\ v.art = "beenden" /\ v.id = p /\ v.nutzer = n /\ v.alt = alt /\ v.neu = neu
  BY <1>2, <1>3, RuheTyp, OgFakten DEF AnfrageTyp, OhneSperre, MitSperre, KnotenTyp
<1>5. /\ v.art \notin MitSperre
      /\ ogEinzeln => \A b \in OgAnfragen : ogAnfrage[b].art = "keine"
  BY <1>1, <1>4 DEF OhneBaumSperre, MitSperre
<1>6. SitzGeprueft(v)
  BY <1>2, <1>4 DEF SitzGeprueft
<1>7. Geprueft(v)
  BY <1>4, <1>6 DEF Geprueft, PositionArten, EinheitArten
<1>8. QED
  BY <1>1, <1>3, <1>4, <1>5, <1>7, VormerkenHaelt

LEMMA CreateOrgEinheitHaelt ==
  ASSUME IOg, NEW a \in OgAnfragen, NEW e \in Einheiten, NEW eltern \in Einheiten \cup {OhneWert}, CreateOrgEinheit(a, e, eltern)
  PROVE  IOg'
<1>1. BaumSperren(a) /\ Vormerken(a, [Ruhe EXCEPT !.art = "einheitAnlegen", !.id = e, !.eltern = eltern])
  BY DEF CreateOrgEinheit
<1>2. ~einheit[e].da /\ EinheitPruefen(eltern)
  BY OgFakten DEF CreateOrgEinheit, Unbenutzt
<1>3. PICK v : v = [Ruhe EXCEPT !.art = "einheitAnlegen", !.id = e, !.eltern = eltern]
  OBVIOUS
<1>4. v \in AnfrageTyp /\ v.art = "einheitAnlegen" /\ v.id = e /\ v.eltern = eltern
  BY <1>2, <1>3, RuheTyp, OgFakten DEF AnfrageTyp, OhneSperre, MitSperre, KnotenTyp
<1>6. EinheitGeprueft(v)
  BY <1>2, <1>4 DEF EinheitGeprueft
<1>7. Geprueft(v)
  BY <1>4, <1>6 DEF Geprueft, PositionArten, EinheitArten
<1>8. QED
  BY <1>1, <1>3, <1>4, <1>7, SperreFrei, VormerkenHaelt

LEMMA UpdateOrgEinheitHaelt ==
  ASSUME IOg, NEW a \in OgAnfragen, NEW e \in Einheiten, NEW eltern \in Einheiten \cup {OhneWert}, UpdateOrgEinheit(a, e, eltern)
  PROVE  IOg'
<1>1. BaumSperren(a) /\ Vormerken(a, [Ruhe EXCEPT !.art = "einheitUmhaengen", !.id = e, !.eltern = eltern])
  BY DEF UpdateOrgEinheit
<1>2. /\ Lebt(einheit, e) /\ EinheitPruefen(eltern)
      /\ eltern # OhneWert => e \notin PfadZurWurzel(einheit, eltern)
  BY OgFakten DEF UpdateOrgEinheit
<1>3. PICK v : v = [Ruhe EXCEPT !.art = "einheitUmhaengen", !.id = e, !.eltern = eltern]
  OBVIOUS
<1>4. v \in AnfrageTyp /\ v.art = "einheitUmhaengen" /\ v.id = e /\ v.eltern = eltern
  BY <1>2, <1>3, RuheTyp, OgFakten DEF AnfrageTyp, OhneSperre, MitSperre, KnotenTyp
<1>6. EinheitGeprueft(v)
  BY <1>2, <1>4 DEF EinheitGeprueft
<1>7. Geprueft(v)
  BY <1>4, <1>6 DEF Geprueft, PositionArten, EinheitArten
<1>8. QED
  BY <1>1, <1>3, <1>4, <1>7, SperreFrei, VormerkenHaelt

LEMMA ArchiveOrgEinheitHaelt ==
  ASSUME IOg, NEW a \in OgAnfragen, NEW e \in Einheiten, ArchiveOrgEinheit(a, e)
  PROVE  IOg'
<1>1. BaumSperren(a) /\ Vormerken(a, [Ruhe EXCEPT !.art = "einheitArchivieren", !.id = e])
  BY DEF ArchiveOrgEinheit
<1>2. /\ Lebt(einheit, e) /\ \A k \in Kinder(einheit, e) : einheit[k].archiv
      /\ \A p \in Positionen : position[p].einheit = e => position[p].archiv
  BY OgFakten DEF ArchiveOrgEinheit
<1>3. PICK v : v = [Ruhe EXCEPT !.art = "einheitArchivieren", !.id = e]
  OBVIOUS
<1>4. v \in AnfrageTyp /\ v.art = "einheitArchivieren" /\ v.id = e
  BY <1>2, <1>3, RuheTyp, OgFakten DEF AnfrageTyp, OhneSperre, MitSperre, KnotenTyp
<1>6. EinheitGeprueft(v)
  BY <1>2, <1>4 DEF EinheitGeprueft
<1>7. Geprueft(v)
  BY <1>4, <1>6 DEF Geprueft, PositionArten, EinheitArten
<1>8. QED
  BY <1>1, <1>3, <1>4, <1>7, SperreFrei, VormerkenHaelt

LEMMA DeleteOrgEinheitHaelt ==
  ASSUME IOg, NEW a \in OgAnfragen, NEW e \in Einheiten, DeleteOrgEinheit(a, e)
  PROVE  IOg'
<1>1. BaumSperren(a) /\ Vormerken(a, [Ruhe EXCEPT !.art = "einheitLoeschen", !.id = e])
  BY DEF DeleteOrgEinheit
<1>2. Gibt(einheit, e) /\ Kinder(einheit, e) = {} /\ \A p \in Positionen : position[p].einheit # e
  BY OgFakten DEF DeleteOrgEinheit
<1>3. PICK v : v = [Ruhe EXCEPT !.art = "einheitLoeschen", !.id = e]
  OBVIOUS
<1>4. v \in AnfrageTyp /\ v.art = "einheitLoeschen" /\ v.id = e
  BY <1>2, <1>3, RuheTyp, OgFakten DEF AnfrageTyp, OhneSperre, MitSperre, KnotenTyp
<1>6. EinheitGeprueft(v)
  BY <1>2, <1>4 DEF EinheitGeprueft
<1>7. Geprueft(v)
  BY <1>4, <1>6 DEF Geprueft, PositionArten, EinheitArten
<1>8. QED
  BY <1>1, <1>3, <1>4, <1>7, SperreFrei, VormerkenHaelt

-----------------------------------------------------------------------------
(***************************************************************************)
(* Writing a position.                                                     *)
(***************************************************************************)

\* The other running requests hold no lock; what they have checked is not the tables.
LEMMA AndereGeprueft ==
  ASSUME IOg, NEW a \in OgAnfragen, ogAnfrage[a].art \in MitSperre, ogAnfrage' = [ogAnfrage EXCEPT ![a] = Ruhe],
         ogEinzeln' = ogEinzeln
  PROVE  /\ ogAnfrage' \in [OgAnfragen -> AnfrageTyp] /\ Gesperrt' /\ Einzeln'
         /\ \A b \in OgAnfragen : Geprueft(ogAnfrage[b])'
<1>1. ogAnfrage'[a] = Ruhe /\ \A b \in OgAnfragen \ {a} : ogAnfrage'[b] = ogAnfrage[b]
  BY OgFakten
<1>2. ogAnfrage' \in [OgAnfragen -> AnfrageTyp]
  BY OgFakten, RuheTyp
<1>3. "keine" \notin MitSperre
  BY DEF MitSperre
<1>4. Gesperrt' /\ Einzeln'
  BY <1>1, <1>3, RuheTyp DEF IOg, Gesperrt, Einzeln
<1>5. ASSUME NEW b \in OgAnfragen PROVE Geprueft(ogAnfrage[b])'
  <2>1. PICK q : q = ogAnfrage'[b]
    OBVIOUS
  <2>2. q.art \notin PositionArten /\ q.art \notin EinheitArten
    <3>1. q.art \notin MitSperre
      BY <1>1, <1>3, <2>1, RuheTyp DEF IOg, Gesperrt
    <3>2. QED
      BY <3>1 DEF MitSperre, PositionArten, EinheitArten
  <2>3. ASSUME q.art \in {"besetzen", "beenden"} PROVE SitzGeprueft(q)'
    <3>1. b # a /\ q = ogAnfrage[b]
      BY <1>1, <2>1, <2>3, RuheTyp
    <3>2. SitzGeprueft(q)
      BY <2>3, <3>1 DEF IOg, Geprueft
    <3>3. ~ogEinzeln
      BY <1>3, <2>3, <3>1 DEF IOg, Einzeln
    <3>4. QED
      BY <3>2, <3>3 DEF SitzGeprueft
  <2>4. Geprueft(q)'
    BY <2>2, <2>3 DEF Geprueft
  <2>5. QED
    BY <2>1, <2>4
<1>6. QED
  BY <1>2, <1>4, <1>5

LEMMA KeinKnotenLeer ==
  KeinKnoten.eltern = OhneWert /\ KeinKnoten.einheit = OhneWert /\ KeinKnoten.da = FALSE /\ KeinKnoten.archiv = FALSE
BY DEF KeinKnoten

\* The row p becomes neu: what neu has to be for the chart to stay as it should.
LEMMA PositionErsetzt ==
  ASSUME IOg, NEW a \in OgAnfragen, NEW p \in Positionen, NEW neu \in KnotenTyp(Positionen), PositionSchreiben(a),
         p = ogAnfrage[a].id, neu = PositionNach(ogAnfrage[a]),
         ~neu.da => neu = KeinKnoten /\ \A k \in Positionen \ {p} : position[k].eltern # p,
         neu.eltern # OhneWert => (neu.eltern = p /\ neu.da) \/ position[neu.eltern].da,
         neu.einheit # OhneWert => einheit[neu.einheit].da,
         EinBaum',
         neu.da /\ ~neu.archiv /\ p # Wurzel =>
            neu.eltern # OhneWert /\ (neu.eltern = p \/ Lebt(position, neu.eltern)),
         neu.archiv => \A k \in Positionen \ {p} : Lebt(position, k) => position[k].eltern # p,
         neu.da /\ ~neu.archiv => Zuteilbar(neu.einheit),
         ogEinzeln /\ neu.archiv => \A n \in Besetzer : "offen" \notin sitz[p][n]
  PROVE  IOg'
<1>0. /\ position \in [Positionen -> KnotenTyp(Positionen)] /\ einheit \in [Einheiten -> KnotenTyp(Einheiten)]
      /\ sitz \in [Positionen -> [Besetzer -> SUBSET SitzArt]]
  BY OgFakten DEF Tabelle
<1>1. /\ ogAnfrage[a].art \in PositionArten
      /\ position' = [position EXCEPT ![p] = neu]
      /\ sitz' = sitz \/ (~neu.da /\ sitz' = [sitz EXCEPT ![p] = [n \in Besetzer |-> {}]])
      /\ ogAnfrage' = [ogAnfrage EXCEPT ![a] = Ruhe]
      /\ einheit' = einheit /\ sitze' = sitze /\ ogEinzeln' = ogEinzeln /\ ogKopien' = ogKopien
  <2>1. ogAnfrage[a].art = "loeschen" => PositionNach(ogAnfrage[a]) = KeinKnoten /\ ~KeinKnoten.da
    BY DEF PositionNach, KeinKnoten
  <2>2. QED
    BY <2>1 DEF PositionSchreiben, PositionArten
<1>2. position'[p] = neu /\ \A k \in Positionen \ {p} : position'[k] = position[k]
  BY <1>0, <1>1
<1>3. position' \in [Positionen -> KnotenTyp(Positionen)]
  BY <1>0, <1>1
<1>4. sitz' \in [Positionen -> [Besetzer -> SUBSET SitzArt]] /\ \A k \in Positionen \ {p} : sitz'[k] = sitz[k]
  BY <1>0, <1>1
<1>5. ogAnfrage[a].art \in MitSperre
  BY <1>1 DEF PositionArten, MitSperre
<1>6. /\ ogAnfrage' \in [OgAnfragen -> AnfrageTyp] /\ Gesperrt' /\ Einzeln'
      /\ \A b \in OgAnfragen : Geprueft(ogAnfrage[b])'
  BY <1>1, <1>5, AndereGeprueft
<1>7. OgTyp'
  BY <1>1, <1>3, <1>4, <1>6 DEF IOg, OgTyp, AnfrageTyp
<1>8. neu.da \in BOOLEAN /\ neu.archiv \in BOOLEAN /\ neu.eltern \in Positionen \cup {OhneWert}
  BY DEF KnotenTyp
<1>9. Gefuellt(position)'
  <2>1. DOMAIN position' = Positionen /\ DOMAIN position = Positionen
    BY <1>0, <1>3
  <2>2. Gefuellt(position) /\ \A k \in Positionen : position[k].eltern \in Positionen \cup {OhneWert}
    BY <1>0 DEF IOg, KnotenTyp
  <2>3. ASSUME NEW k \in Positionen
        PROVE  (~position'[k].da => position'[k] = KeinKnoten)
    BY <1>2, <2>1, <2>2 DEF Gefuellt
  <2>4. ASSUME NEW k \in Positionen, position'[k].eltern # OhneWert
        PROVE  position'[position'[k].eltern].da
    <3>1. CASE k = p
      BY <1>2, <1>8, <2>4, <3>1, KeinKnotenLeer
    <3>2. CASE k # p
      BY <1>2, <1>8, <2>1, <2>2, <2>4, <3>2 DEF Gefuellt
    <3>3. QED
      BY <3>1, <3>2
  <2>5. QED
    BY <2>1, <2>3, <2>4 DEF Gefuellt
<1>10. Gefuellt(einheit)' /\ EinheitDa' /\ EinWald'
  BY <1>1, <1>2 DEF IOg, OrganigrammGilt, Gefuellt, EinheitDa, EinWald
<1>11. NichtsUnterArchiviertem'
  <2>1. \A e \in Einheiten : Lebt(einheit', e) => Lebt(einheit', einheit'[e].eltern) \/ einheit'[e].eltern = OhneWert
    BY <1>1 DEF IOg, OrganigrammGilt, NichtsUnterArchiviertem, EinheitPruefen
  <2>2. ASSUME NEW k \in Positionen \ {Wurzel}, Lebt(position', k)
        PROVE  Lebt(position', position'[k].eltern)
    <3>1. CASE k = p
      BY <1>2, <1>8, <2>2, <3>1 DEF Lebt, Gibt
    <3>2. CASE k # p
      <4>1. Lebt(position, k) /\ Lebt(position, position[k].eltern)
        BY <1>2, <2>2, <3>2 DEF IOg, OrganigrammGilt, NichtsUnterArchiviertem, Lebt, Gibt
      <4>2. position[k].eltern \in Positionen
        BY <1>0, <4>1 DEF KnotenTyp, Lebt, Gibt
      <4>3. position[k].eltern = p => neu.da /\ ~neu.archiv
        BY <3>2, <4>1
      <4>4. QED
        BY <1>2, <3>2, <4>1, <4>2, <4>3 DEF Lebt, Gibt
    <3>3. QED
      BY <3>1, <3>2
  <2>3. QED
    BY <2>1, <2>2 DEF NichtsUnterArchiviertem, EinheitPruefen
<1>12. EinheitInGebrauch'
  BY <1>1, <1>2 DEF IOg, OrganigrammGilt, EinheitInGebrauch, Zuteilbar, Lebt, Gibt
<1>13. ArchiviertIstUnbesetzt'
  <2>1. KeinKnoten.archiv = FALSE
    BY DEF KeinKnoten
  <2>2. QED
    BY <1>1, <1>2, <1>4, <2>1 DEF IOg, OrganigrammGilt, ArchiviertIstUnbesetzt
<1>14. QED
  BY <1>6, <1>7, <1>9, <1>10, <1>11, <1>12, <1>13 DEF IOg, OrganigrammGilt

\* EinBaum with positions that hang as before, and p below a node that reaches the root without p.
LEMMA BaumNachUmhaengen ==
  ASSUME IOg, NEW p \in Positionen, NEW u, Tabelle(u, Positionen), position' = u,
         \A k \in Positionen \ {p} : u[k].eltern = position[k].eltern /\ u[k].da = position[k].da,
         u[p].eltern \in Positionen, Lebt(position, u[p].eltern), p \notin PfadZurWurzel(position, u[p].eltern)
  PROVE  EinBaum'
<1>1. Wurzel \in PfadZurWurzel(position, u[p].eltern)
  BY DEF IOg, OrganigrammGilt, EinBaum, Lebt, Gibt
<1>2. ASSUME NEW k \in Positionen, u[k].da PROVE Wurzel \in PfadZurWurzel(u, k)
  <2>1. Wurzel \in PfadZurWurzel(position, k) \/ k = p
    BY <1>2 DEF IOg, OrganigrammGilt, EinBaum
  <2>2. QED
    BY <1>1, <2>1, OgFakten, PfadNachUmhaengen
<1>3. QED
  BY <1>2 DEF EinBaum

LEMMA BaumGleich ==
  ASSUME IOg, NEW u, Tabelle(u, Positionen), position' = u,
         \A k \in Positionen : u[k].eltern = position[k].eltern /\ u[k].da = position[k].da
  PROVE  EinBaum'
<1>1. ASSUME NEW k \in Positionen, u[k].da PROVE Wurzel \in PfadZurWurzel(u, k)
  <2>1. Wurzel \in PfadZurWurzel(position, k)
    BY <1>1 DEF IOg, OrganigrammGilt, EinBaum
  <2>2. QED
    BY <2>1, OgFakten, PfadGleich
<1>2. QED
  BY <1>1 DEF EinBaum

\* Free places hang nowhere, so that a node is on the paths of its children only.
LEMMA KinderlosHeisst ==
  ASSUME NEW D, NEW t, Tabelle(t, D), Gefuellt(t), NEW p \in D, Kinder(t, p) = {}, OhneWert \notin D
  PROVE  \A k \in D : t[k].eltern # p
<1>1. DOMAIN t = D
  BY DEF Tabelle
<1>2. \A k \in D : t[k].da => t[k].eltern # p
  BY <1>1 DEF Kinder
<1>3. \A k \in D : ~t[k].da => t[k].eltern = OhneWert
  BY <1>1, KeinKnotenLeer DEF Gefuellt
<1>4. t[p] \in KnotenTyp(D)
  BY DEF Tabelle
<1>5. \A k \in D : t[k].da \in BOOLEAN
  BY DEF Tabelle, KnotenTyp
<1>6. QED
  BY <1>2, <1>3, <1>5

\* A free place has no children.
LEMMA FreiKinderlos ==
  ASSUME NEW D, NEW t, Tabelle(t, D), Gefuellt(t), NEW p \in D, ~t[p].da, OhneWert \notin D
  PROVE  \A k \in D : t[k].eltern # p
BY DEF Gefuellt, Tabelle

LEMMA PositionFakten ==
  ASSUME IOg, NEW a \in OgAnfragen, PositionSchreiben(a)
  PROVE  /\ ogAnfrage[a].art \in PositionArten
         /\ PositionGeprueft(ogAnfrage[a])
         /\ ogAnfrage[a] \in AnfrageTyp
         /\ ogAnfrage[a].id \in Positionen
         /\ position' = [position EXCEPT ![ogAnfrage[a].id] = PositionNach(ogAnfrage[a])]
         /\ Gefuellt(position) /\ position[ogAnfrage[a].id] \in KnotenTyp(Positionen)
<1>1. ogAnfrage[a].art \in PositionArten
  BY DEF PositionSchreiben, PositionArten
<1>2. PositionGeprueft(ogAnfrage[a])
  BY <1>1 DEF IOg, Geprueft
<1>3. ogAnfrage[a].id \in Positionen
  BY <1>2 DEF PositionGeprueft
<1>4. QED
  BY <1>1, <1>2, <1>3, OgFakten DEF IOg, PositionSchreiben

LEMMA AnlegenHaelt ==
  ASSUME IOg, NEW a \in OgAnfragen, PositionSchreiben(a), ogAnfrage[a].art = "anlegen"
  PROVE  IOg'
<1>1. PICK q \in AnfrageTyp : q = ogAnfrage[a]
  BY PositionFakten
<1>2. PICK p \in Positionen : p = q.id
  BY <1>1, PositionFakten
<1>3. PICK neu : neu = PositionNach(q)
  OBVIOUS
<1>4. neu = Knoten(q.eltern, q.einheit, FALSE)
  BY <1>1, <1>3 DEF PositionNach
<1>5. neu.da = TRUE /\ neu.archiv = FALSE /\ neu.eltern = q.eltern /\ neu.einheit = q.einheit
  BY <1>4 DEF Knoten
<1>6. ~position[p].da /\ q.eltern \in Positionen /\ Lebt(position, q.eltern) /\ Zuteilbar(q.einheit)
  BY <1>1, <1>2, PositionFakten DEF PositionGeprueft
<1>7. neu \in KnotenTyp(Positionen)
  BY <1>4, <1>6 DEF Knoten, KnotenTyp, AnfrageTyp
<1>8. PICK u : u = [position EXCEPT ![p] = neu]
  OBVIOUS
<1>9. position' = u /\ Tabelle(u, Positionen) /\ u[p] = neu /\ \A k \in Positionen \ {p} : u[k] = position[k]
  BY <1>1, <1>2, <1>3, <1>7, <1>8, OgFakten, PositionFakten DEF Tabelle
<1>10. \A k \in Positionen : position[k].eltern # p
  BY <1>6, OgFakten, PositionFakten, FreiKinderlos
<1>11. p \notin PfadZurWurzel(position, q.eltern)
  <2>1. q.eltern # p
    BY <1>6 DEF Lebt, Gibt
  <2>2. QED
    BY <1>6, <1>10, <2>1, OgFakten, KinderlosAufKeinemPfad
<1>12. EinBaum'
  BY <1>5, <1>6, <1>9, <1>11, BaumNachUmhaengen
<1>13. neu.einheit # OhneWert => einheit[neu.einheit].da
  BY <1>5, <1>6 DEF Zuteilbar, Gibt
<1>14. QED
  BY <1>1, <1>2, <1>3, <1>5, <1>6, <1>7, <1>12, <1>13, PositionErsetzt DEF Lebt, Gibt

LEMMA UmhaengenHaelt ==
  ASSUME IOg, NEW a \in OgAnfragen, PositionSchreiben(a), ogAnfrage[a].art = "umhaengen"
  PROVE  IOg'
<1>1. PICK q \in AnfrageTyp : q = ogAnfrage[a]
  BY PositionFakten
<1>2. PICK p \in Positionen : p = q.id
  BY <1>1, PositionFakten
<1>3. PICK neu : neu = PositionNach(q)
  OBVIOUS
<1>4. neu = [position[p] EXCEPT !.eltern = q.eltern]
  BY <1>1, <1>2, <1>3 DEF PositionNach
<1>5. /\ neu.da = position[p].da /\ neu.archiv = position[p].archiv
      /\ neu.eltern = q.eltern /\ neu.einheit = position[p].einheit
  BY <1>4, OgFakten DEF KnotenTyp
<1>6. Lebt(position, p) /\ q.eltern \in Positionen /\ Lebt(position, q.eltern) /\ p \notin PfadZurWurzel(position, q.eltern)
  BY <1>1, <1>2, PositionFakten DEF PositionGeprueft
<1>7. neu \in KnotenTyp(Positionen)
  BY <1>4, <1>6, OgFakten DEF KnotenTyp
<1>8. PICK u : u = [position EXCEPT ![p] = neu]
  OBVIOUS
<1>9. position' = u /\ Tabelle(u, Positionen) /\ u[p] = neu /\ \A k \in Positionen \ {p} : u[k] = position[k]
  BY <1>1, <1>2, <1>3, <1>7, <1>8, OgFakten, PositionFakten DEF Tabelle
<1>10. EinBaum'
  BY <1>5, <1>6, <1>9, BaumNachUmhaengen
<1>11. neu.da = TRUE /\ neu.archiv = FALSE
  BY <1>5, <1>6, OgFakten DEF Lebt, Gibt, KnotenTyp
<1>12. (neu.einheit # OhneWert => einheit[neu.einheit].da) /\ Zuteilbar(neu.einheit)
  BY <1>5, <1>6 DEF IOg, EinheitDa, OrganigrammGilt, EinheitInGebrauch, Zuteilbar
<1>13. QED
  BY <1>1, <1>2, <1>3, <1>5, <1>6, <1>7, <1>10, <1>11, <1>12, PositionErsetzt DEF Lebt, Gibt

LEMMA ZuordnenHaelt ==
  ASSUME IOg, NEW a \in OgAnfragen, PositionSchreiben(a), ogAnfrage[a].art = "zuordnen"
  PROVE  IOg'
<1>1. PICK q \in AnfrageTyp : q = ogAnfrage[a]
  BY PositionFakten
<1>2. PICK p \in Positionen : p = q.id
  BY <1>1, PositionFakten
<1>3. PICK neu : neu = PositionNach(q)
  OBVIOUS
<1>4. neu = [position[p] EXCEPT !.einheit = q.einheit]
  BY <1>1, <1>2, <1>3 DEF PositionNach
<1>5. /\ neu.da = position[p].da /\ neu.archiv = position[p].archiv
      /\ neu.eltern = position[p].eltern /\ neu.einheit = q.einheit
  BY <1>4, OgFakten DEF KnotenTyp
<1>6. Lebt(position, p) /\ EinheitPruefen(q.einheit)
  BY <1>1, <1>2, PositionFakten DEF PositionGeprueft
<1>7. neu \in KnotenTyp(Positionen)
  BY <1>4, OgFakten, SMTT(30) DEF KnotenTyp, AnfrageTyp
<1>8. PICK u : u = [position EXCEPT ![p] = neu]
  OBVIOUS
<1>9. position' = u /\ Tabelle(u, Positionen) /\ u[p] = neu /\ \A k \in Positionen \ {p} : u[k] = position[k]
  BY <1>1, <1>2, <1>3, <1>7, <1>8, OgFakten, PositionFakten DEF Tabelle
<1>10. EinBaum'
  BY <1>5, <1>9, BaumGleich
<1>11. neu.da = TRUE /\ neu.archiv = FALSE
  BY <1>5, <1>6, OgFakten DEF Lebt, Gibt, KnotenTyp
<1>12. (neu.einheit # OhneWert => einheit[neu.einheit].da) /\ Zuteilbar(neu.einheit)
  BY <1>5, <1>6 DEF EinheitPruefen, Zuteilbar, Lebt, Gibt
<1>13. p # Wurzel => Lebt(position, neu.eltern)
  BY <1>5, <1>6 DEF IOg, OrganigrammGilt, NichtsUnterArchiviertem
<1>14. neu.eltern # OhneWert => position[neu.eltern].da
  BY <1>5, OgFakten, PositionFakten DEF Gefuellt
<1>15. QED
  BY <1>1, <1>2, <1>3, <1>7, <1>10, <1>11, <1>12, <1>13, <1>14, PositionErsetzt DEF Lebt, Gibt

LEMMA ArchivierenHaelt ==
  ASSUME IOg, NEW a \in OgAnfragen, PositionSchreiben(a), ogAnfrage[a].art = "archivieren"
  PROVE  IOg'
<1>1. PICK q \in AnfrageTyp : q = ogAnfrage[a]
  BY PositionFakten
<1>2. PICK p \in Positionen : p = q.id
  BY <1>1, PositionFakten
<1>3. PICK neu : neu = PositionNach(q)
  OBVIOUS
<1>4. neu = [position[p] EXCEPT !.archiv = TRUE]
  BY <1>1, <1>2, <1>3 DEF PositionNach
<1>5. /\ neu.da = position[p].da /\ neu.archiv = TRUE
      /\ neu.eltern = position[p].eltern /\ neu.einheit = position[p].einheit
  BY <1>4, OgFakten DEF KnotenTyp
<1>6. /\ Lebt(position, p) /\ \A k \in Kinder(position, p) : position[k].archiv
      /\ ogEinzeln => \A n \in Besetzer : "offen" \notin sitz[p][n]
  BY <1>1, <1>2, PositionFakten DEF PositionGeprueft
<1>7. neu \in KnotenTyp(Positionen)
  BY <1>4, OgFakten DEF KnotenTyp
<1>8. PICK u : u = [position EXCEPT ![p] = neu]
  OBVIOUS
<1>9. position' = u /\ Tabelle(u, Positionen) /\ u[p] = neu /\ \A k \in Positionen \ {p} : u[k] = position[k]
  BY <1>1, <1>2, <1>3, <1>7, <1>8, OgFakten, PositionFakten DEF Tabelle
<1>10. EinBaum'
  BY <1>5, <1>9, BaumGleich
<1>11. neu.da = TRUE
  BY <1>5, <1>6, OgFakten DEF Lebt, Gibt, KnotenTyp
<1>12. neu.einheit # OhneWert => einheit[neu.einheit].da
  BY <1>5 DEF IOg, EinheitDa
<1>13. \A k \in Positionen \ {p} : Lebt(position, k) => position[k].eltern # p
  BY <1>6, OgFakten DEF Kinder, Lebt, Gibt
<1>14. neu.eltern # OhneWert => position[neu.eltern].da
  BY <1>5, OgFakten, PositionFakten DEF Gefuellt
<1>15. QED
  BY <1>1, <1>2, <1>3, <1>5, <1>6, <1>7, <1>10, <1>11, <1>12, <1>13, <1>14, PositionErsetzt

LEMMA LoeschenHaelt ==
  ASSUME IOg, NEW a \in OgAnfragen, PositionSchreiben(a), ogAnfrage[a].art = "loeschen"
  PROVE  IOg'
<1>1. PICK q \in AnfrageTyp : q = ogAnfrage[a]
  BY PositionFakten
<1>2. PICK p \in Positionen : p = q.id
  BY <1>1, PositionFakten
<1>3. PICK neu : neu = PositionNach(q)
  OBVIOUS
<1>4. neu = KeinKnoten
  BY <1>1, <1>3 DEF PositionNach
<1>5. Kinder(position, p) = {}
  BY <1>1, <1>2, PositionFakten DEF PositionGeprueft
<1>6. neu \in KnotenTyp(Positionen)
  BY <1>4, KeinKnotenTyp
<1>7. \A k \in Positionen : position[k].eltern # p
  BY <1>5, OgFakten, PositionFakten, KinderlosHeisst
<1>8. PICK u : u = [position EXCEPT ![p] = neu]
  OBVIOUS
<1>9. position' = u /\ Tabelle(u, Positionen) /\ u[p] = neu /\ \A k \in Positionen \ {p} : u[k] = position[k]
  BY <1>1, <1>2, <1>3, <1>6, <1>8, OgFakten, PositionFakten DEF Tabelle
<1>10. EinBaum'
  <2>1. ASSUME NEW k \in Positionen, u[k].da PROVE Wurzel \in PfadZurWurzel(u, k)
    <3>1. k # p
      BY <1>4, <1>9, <2>1, KeinKnotenLeer
    <3>2. Wurzel \in PfadZurWurzel(position, k)
      BY <1>9, <2>1, <3>1 DEF IOg, OrganigrammGilt, EinBaum
    <3>3. p \notin PfadZurWurzel(position, k)
      BY <1>7, <3>1, OgFakten, KinderlosAufKeinemPfad
    <3>4. PfadZurWurzel(u, k) = PfadZurWurzel(position, k)
      BY <1>9, <3>3, OgFakten, PfadOhne
    <3>5. QED
      BY <3>2, <3>4
  <2>2. QED
    BY <1>9, <2>1 DEF EinBaum
<1>11. QED
  BY <1>1, <1>2, <1>3, <1>4, <1>6, <1>7, <1>10, KeinKnotenLeer, PositionErsetzt

LEMMA PositionSchreibenHaelt ==
  ASSUME IOg, NEW a \in OgAnfragen, PositionSchreiben(a)
  PROVE  IOg'
<1>1. ogAnfrage[a].art \in {"anlegen", "umhaengen", "zuordnen", "archivieren", "loeschen"}
  BY DEF PositionSchreiben
<1>2. QED
  BY <1>1, AnlegenHaelt, UmhaengenHaelt, ZuordnenHaelt, ArchivierenHaelt, LoeschenHaelt

-----------------------------------------------------------------------------
(***************************************************************************)
(* Writing a unit.                                                         *)
(***************************************************************************)

LEMMA EinheitErsetzt ==
  ASSUME IOg, NEW a \in OgAnfragen, NEW e \in Einheiten, NEW neu \in KnotenTyp(Einheiten), EinheitSchreiben(a),
         e = ogAnfrage[a].id, neu = EinheitNach(ogAnfrage[a]),
         ~neu.da => /\ neu = KeinKnoten /\ \A k \in Einheiten \ {e} : einheit[k].eltern # e
                    /\ \A p \in Positionen : position[p].einheit # e,
         neu.eltern # OhneWert => (neu.eltern = e /\ neu.da) \/ einheit[neu.eltern].da,
         EinWald',
         neu.da /\ ~neu.archiv => neu.eltern = OhneWert \/ neu.eltern = e \/ Lebt(einheit, neu.eltern),
         neu.archiv => /\ \A k \in Einheiten \ {e} : Lebt(einheit, k) => einheit[k].eltern # e
                       /\ \A p \in Positionen : Lebt(position, p) => position[p].einheit # e
  PROVE  IOg'
<1>0. position \in [Positionen -> KnotenTyp(Positionen)] /\ einheit \in [Einheiten -> KnotenTyp(Einheiten)]
  BY OgFakten DEF Tabelle
<1>1. /\ ogAnfrage[a].art \in EinheitArten
      /\ einheit' = [einheit EXCEPT ![e] = neu]
      /\ ogAnfrage' = [ogAnfrage EXCEPT ![a] = Ruhe]
      /\ position' = position /\ sitz' = sitz /\ sitze' = sitze /\ ogEinzeln' = ogEinzeln /\ ogKopien' = ogKopien
  BY DEF EinheitSchreiben, EinheitArten
<1>2. einheit'[e] = neu /\ \A k \in Einheiten \ {e} : einheit'[k] = einheit[k]
  BY <1>0, <1>1
<1>3. einheit' \in [Einheiten -> KnotenTyp(Einheiten)]
  BY <1>0, <1>1
<1>4. ogAnfrage[a].art \in MitSperre
  BY <1>1 DEF EinheitArten, MitSperre
<1>5. /\ ogAnfrage' \in [OgAnfragen -> AnfrageTyp] /\ Gesperrt' /\ Einzeln'
      /\ \A b \in OgAnfragen : Geprueft(ogAnfrage[b])'
  BY <1>1, <1>4, AndereGeprueft
<1>6. OgTyp'
  BY <1>1, <1>3, <1>5 DEF IOg, OgTyp, AnfrageTyp
<1>7. neu.da \in BOOLEAN /\ neu.archiv \in BOOLEAN /\ neu.eltern \in Einheiten \cup {OhneWert}
  BY DEF KnotenTyp
<1>8. Gefuellt(einheit)'
  <2>1. DOMAIN einheit' = Einheiten /\ DOMAIN einheit = Einheiten
    BY <1>0, <1>3
  <2>2. Gefuellt(einheit) /\ \A k \in Einheiten : einheit[k].eltern \in Einheiten \cup {OhneWert}
    BY <1>0 DEF IOg, KnotenTyp
  <2>3. ASSUME NEW k \in Einheiten
        PROVE  (~einheit'[k].da => einheit'[k] = KeinKnoten)
    BY <1>2, <2>1, <2>2 DEF Gefuellt
  <2>4. ASSUME NEW k \in Einheiten, einheit'[k].eltern # OhneWert
        PROVE  einheit'[einheit'[k].eltern].da
    <3>1. CASE k = e
      BY <1>2, <1>7, <2>4, <3>1, KeinKnotenLeer
    <3>2. CASE k # e
      BY <1>2, <1>7, <2>1, <2>2, <2>4, <3>2 DEF Gefuellt
    <3>3. QED
      BY <3>1, <3>2
  <2>5. QED
    BY <2>1, <2>3, <2>4 DEF Gefuellt
<1>9. Gefuellt(position)' /\ EinBaum' /\ ArchiviertIstUnbesetzt'
  BY <1>1 DEF IOg, OrganigrammGilt, Gefuellt, EinBaum, ArchiviertIstUnbesetzt
<1>10. \A p \in Positionen : position[p].einheit \in Einheiten \cup {OhneWert}
  BY <1>0 DEF KnotenTyp
<1>11. EinheitDa'
  BY <1>1, <1>2, <1>7, <1>10 DEF IOg, EinheitDa
<1>12. NichtsUnterArchiviertem'
  <2>1. \A k \in Positionen \ {Wurzel} : Lebt(position', k) => Lebt(position', position'[k].eltern)
    BY <1>1 DEF IOg, OrganigrammGilt, NichtsUnterArchiviertem
  <2>2. ASSUME NEW k \in Einheiten, Lebt(einheit', k), einheit'[k].eltern # OhneWert
        PROVE  Lebt(einheit', einheit'[k].eltern)
    <3>1. CASE k = e
      BY <1>2, <1>7, <2>2, <3>1 DEF Lebt, Gibt
    <3>2. CASE k # e
      <4>1. Lebt(einheit, k) /\ Lebt(einheit, einheit[k].eltern)
        BY <1>2, <2>2, <3>2 DEF IOg, OrganigrammGilt, NichtsUnterArchiviertem, EinheitPruefen, Lebt, Gibt
      <4>2. einheit[k].eltern \in Einheiten
        BY <1>0, <4>1 DEF KnotenTyp, Lebt, Gibt
      <4>3. einheit[k].eltern = e => neu.da /\ ~neu.archiv
        BY <3>2, <4>1
      <4>4. QED
        BY <1>2, <3>2, <4>1, <4>2, <4>3 DEF Lebt, Gibt
    <3>3. QED
      BY <3>1, <3>2
  <2>3. QED
    BY <2>1, <2>2 DEF NichtsUnterArchiviertem, EinheitPruefen
<1>13. EinheitInGebrauch'
  <2>1. ASSUME NEW p \in Positionen, Lebt(position, p), position[p].einheit # OhneWert
        PROVE  Gibt(einheit', position[p].einheit) /\ (ogKopien \/ Lebt(einheit', position[p].einheit))
    <3>1. Gibt(einheit, position[p].einheit) /\ (ogKopien \/ Lebt(einheit, position[p].einheit))
      BY <2>1 DEF IOg, OrganigrammGilt, EinheitInGebrauch
    <3>2. CASE position[p].einheit = e
      BY <1>2, <1>7, <2>1, <3>2 DEF Lebt, Gibt
    <3>3. CASE position[p].einheit # e
      BY <1>2, <1>10, <2>1, <3>1, <3>3 DEF Lebt, Gibt
    <3>4. QED
      BY <3>2, <3>3
  <2>2. QED
    BY <1>1, <2>1 DEF EinheitInGebrauch, Lebt, Gibt
<1>14. QED
  BY <1>5, <1>6, <1>8, <1>9, <1>11, <1>12, <1>13 DEF IOg, OrganigrammGilt

LEMMA WaldNachUmhaengen ==
  ASSUME IOg, NEW e \in Einheiten, NEW u, Tabelle(u, Einheiten), einheit' = u,
         \A k \in Einheiten \ {e} : u[k].eltern = einheit[k].eltern /\ u[k].da = einheit[k].da,
         EinheitPruefen(u[e].eltern), u[e].eltern # OhneWert => e \notin PfadZurWurzel(einheit, u[e].eltern)
  PROVE  EinWald'
<1>1. u[e].eltern \in Einheiten \cup {OhneWert}
  BY DEF Tabelle, KnotenTyp
<1>2. PfadZurWurzel(einheit, OhneWert) = {OhneWert}
  BY OgFakten, PfadVonOhneWert
<1>3. OhneWert \in PfadZurWurzel(einheit, u[e].eltern) /\ e \notin PfadZurWurzel(einheit, u[e].eltern)
  BY <1>1, <1>2, OgFakten DEF IOg, OrganigrammGilt, EinWald, EinheitPruefen, Lebt, Gibt
<1>4. ASSUME NEW k \in Einheiten, u[k].da PROVE OhneWert \in PfadZurWurzel(u, k)
  <2>1. OhneWert \in PfadZurWurzel(einheit, k) \/ k = e
    BY <1>4 DEF IOg, OrganigrammGilt, EinWald
  <2>2. QED
    BY <1>3, <2>1, OgFakten, PfadNachUmhaengen
<1>5. QED
  BY <1>4 DEF EinWald

LEMMA EinheitFakten ==
  ASSUME IOg, NEW a \in OgAnfragen, EinheitSchreiben(a)
  PROVE  /\ EinheitGeprueft(ogAnfrage[a])
         /\ ogAnfrage[a] \in AnfrageTyp
         /\ ogAnfrage[a].id \in Einheiten
         /\ einheit' = [einheit EXCEPT ![ogAnfrage[a].id] = EinheitNach(ogAnfrage[a])]
         /\ Gefuellt(einheit) /\ einheit[ogAnfrage[a].id] \in KnotenTyp(Einheiten)
<1>1. ogAnfrage[a].art \in EinheitArten /\ ogAnfrage[a].art \notin PositionArten
  BY DEF EinheitSchreiben, EinheitArten, PositionArten
<1>2. EinheitGeprueft(ogAnfrage[a])
  BY <1>1 DEF IOg, Geprueft
<1>3. ogAnfrage[a].id \in Einheiten
  BY <1>2 DEF EinheitGeprueft
<1>4. QED
  BY <1>2, <1>3, OgFakten DEF IOg, EinheitSchreiben

LEMMA EinheitAnlegenHaelt ==
  ASSUME IOg, NEW a \in OgAnfragen, EinheitSchreiben(a), ogAnfrage[a].art = "einheitAnlegen"
  PROVE  IOg'
<1>1. PICK q \in AnfrageTyp : q = ogAnfrage[a]
  BY EinheitFakten
<1>2. PICK e \in Einheiten : e = q.id
  BY <1>1, EinheitFakten
<1>3. PICK neu : neu = EinheitNach(q)
  OBVIOUS
<1>4. neu = Knoten(q.eltern, OhneWert, FALSE)
  BY <1>1, <1>3 DEF EinheitNach
<1>5. neu.da = TRUE /\ neu.archiv = FALSE /\ neu.eltern = q.eltern
  BY <1>4 DEF Knoten
<1>6. ~einheit[e].da /\ q.eltern \in Einheiten \cup {OhneWert} /\ EinheitPruefen(q.eltern)
  BY <1>1, <1>2, EinheitFakten DEF EinheitGeprueft
<1>7. neu \in KnotenTyp(Einheiten)
  BY <1>4, <1>6 DEF Knoten, KnotenTyp
<1>8. PICK u : u = [einheit EXCEPT ![e] = neu]
  OBVIOUS
<1>9. einheit' = u /\ Tabelle(u, Einheiten) /\ u[e] = neu /\ \A k \in Einheiten \ {e} : u[k] = einheit[k]
  BY <1>1, <1>2, <1>3, <1>7, <1>8, OgFakten, EinheitFakten DEF Tabelle
<1>10. q.eltern # OhneWert => e \notin PfadZurWurzel(einheit, q.eltern)
  <2>1. \A k \in Einheiten : einheit[k].eltern # e
    BY <1>6, OgFakten, EinheitFakten, FreiKinderlos
  <2>2. q.eltern # e
    BY <1>6, OgFakten DEF EinheitPruefen, Lebt, Gibt
  <2>3. QED
    BY <1>6, <2>1, <2>2, OgFakten, KinderlosAufKeinemPfad
<1>11. EinWald'
  BY <1>5, <1>6, <1>9, <1>10, WaldNachUmhaengen
<1>12. QED
  BY <1>1, <1>2, <1>3, <1>5, <1>6, <1>7, <1>11, EinheitErsetzt DEF EinheitPruefen, Lebt, Gibt

LEMMA EinheitUmhaengenHaelt ==
  ASSUME IOg, NEW a \in OgAnfragen, EinheitSchreiben(a), ogAnfrage[a].art = "einheitUmhaengen"
  PROVE  IOg'
<1>1. PICK q \in AnfrageTyp : q = ogAnfrage[a]
  BY EinheitFakten
<1>2. PICK e \in Einheiten : e = q.id
  BY <1>1, EinheitFakten
<1>3. PICK neu : neu = EinheitNach(q)
  OBVIOUS
<1>4. neu = [einheit[e] EXCEPT !.eltern = q.eltern]
  BY <1>1, <1>2, <1>3 DEF EinheitNach
<1>5. neu.da = einheit[e].da /\ neu.archiv = einheit[e].archiv /\ neu.eltern = q.eltern
  BY <1>4, OgFakten DEF KnotenTyp
<1>6. /\ Lebt(einheit, e) /\ q.eltern \in Einheiten \cup {OhneWert} /\ EinheitPruefen(q.eltern)
      /\ q.eltern # OhneWert => e \notin PfadZurWurzel(einheit, q.eltern)
  BY <1>1, <1>2, EinheitFakten DEF EinheitGeprueft
<1>7. neu \in KnotenTyp(Einheiten)
  BY <1>4, <1>6, OgFakten DEF KnotenTyp
<1>8. PICK u : u = [einheit EXCEPT ![e] = neu]
  OBVIOUS
<1>9. einheit' = u /\ Tabelle(u, Einheiten) /\ u[e] = neu /\ \A k \in Einheiten \ {e} : u[k] = einheit[k]
  BY <1>1, <1>2, <1>3, <1>7, <1>8, OgFakten, EinheitFakten DEF Tabelle
<1>10. EinWald'
  BY <1>5, <1>6, <1>9, WaldNachUmhaengen
<1>11. neu.da = TRUE /\ neu.archiv = FALSE
  BY <1>5, <1>6, OgFakten DEF Lebt, Gibt, KnotenTyp
<1>12. QED
  BY <1>1, <1>2, <1>3, <1>5, <1>6, <1>7, <1>10, <1>11, EinheitErsetzt DEF EinheitPruefen, Lebt, Gibt

LEMMA EinheitArchivierenHaelt ==
  ASSUME IOg, NEW a \in OgAnfragen, EinheitSchreiben(a), ogAnfrage[a].art = "einheitArchivieren"
  PROVE  IOg'
<1>1. PICK q \in AnfrageTyp : q = ogAnfrage[a]
  BY EinheitFakten
<1>2. PICK e \in Einheiten : e = q.id
  BY <1>1, EinheitFakten
<1>3. PICK neu : neu = EinheitNach(q)
  OBVIOUS
<1>4. neu = [einheit[e] EXCEPT !.archiv = TRUE]
  BY <1>1, <1>2, <1>3 DEF EinheitNach
<1>5. neu.da = einheit[e].da /\ neu.archiv = TRUE /\ neu.eltern = einheit[e].eltern
  BY <1>4, OgFakten DEF KnotenTyp
<1>6. /\ Lebt(einheit, e) /\ \A k \in Kinder(einheit, e) : einheit[k].archiv
      /\ \A p \in Positionen : position[p].einheit = e => position[p].archiv
  BY <1>1, <1>2, EinheitFakten DEF EinheitGeprueft
<1>7. neu \in KnotenTyp(Einheiten)
  BY <1>4, OgFakten DEF KnotenTyp
<1>8. PICK u : u = [einheit EXCEPT ![e] = neu]
  OBVIOUS
<1>9. einheit' = u /\ Tabelle(u, Einheiten) /\ u[e] = neu /\ \A k \in Einheiten \ {e} : u[k] = einheit[k]
  BY <1>1, <1>2, <1>3, <1>7, <1>8, OgFakten, EinheitFakten DEF Tabelle
<1>10. EinWald'
  <2>1. ASSUME NEW k \in Einheiten, u[k].da PROVE OhneWert \in PfadZurWurzel(u, k)
    <3>1. OhneWert \in PfadZurWurzel(einheit, k)
      BY <1>5, <1>9, <2>1 DEF IOg, OrganigrammGilt, EinWald
    <3>2. \A j \in Einheiten : u[j].eltern = einheit[j].eltern
      BY <1>5, <1>9
    <3>3. QED
      BY <1>9, <3>1, <3>2, OgFakten, PfadGleich
  <2>2. QED
    BY <1>9, <2>1 DEF EinWald
<1>11. neu.da = TRUE
  BY <1>5, <1>6, OgFakten DEF Lebt, Gibt, KnotenTyp
<1>12. /\ \A k \in Einheiten \ {e} : Lebt(einheit, k) => einheit[k].eltern # e
       /\ \A p \in Positionen : Lebt(position, p) => position[p].einheit # e
  BY <1>6, OgFakten DEF Kinder, Lebt, Gibt
<1>13. neu.eltern # OhneWert => einheit[neu.eltern].da
  BY <1>5, OgFakten, EinheitFakten DEF Gefuellt
<1>14. QED
  BY <1>1, <1>2, <1>3, <1>5, <1>7, <1>10, <1>11, <1>12, <1>13, EinheitErsetzt

LEMMA EinheitLoeschenHaelt ==
  ASSUME IOg, NEW a \in OgAnfragen, EinheitSchreiben(a), ogAnfrage[a].art = "einheitLoeschen"
  PROVE  IOg'
<1>1. PICK q \in AnfrageTyp : q = ogAnfrage[a]
  BY EinheitFakten
<1>2. PICK e \in Einheiten : e = q.id
  BY <1>1, EinheitFakten
<1>3. PICK neu : neu = EinheitNach(q)
  OBVIOUS
<1>4. neu = KeinKnoten
  BY <1>1, <1>3 DEF EinheitNach
<1>5. Kinder(einheit, e) = {} /\ \A p \in Positionen : position[p].einheit # e
  BY <1>1, <1>2, EinheitFakten DEF EinheitGeprueft
<1>6. neu \in KnotenTyp(Einheiten)
  BY <1>4, KeinKnotenTyp
<1>7. \A k \in Einheiten : einheit[k].eltern # e
  BY <1>5, OgFakten, EinheitFakten, KinderlosHeisst
<1>8. PICK u : u = [einheit EXCEPT ![e] = neu]
  OBVIOUS
<1>9. einheit' = u /\ Tabelle(u, Einheiten) /\ u[e] = neu /\ \A k \in Einheiten \ {e} : u[k] = einheit[k]
  BY <1>1, <1>2, <1>3, <1>6, <1>8, OgFakten, EinheitFakten DEF Tabelle
<1>10. EinWald'
  <2>1. EinheitPruefen(u[e].eltern) /\ u[e].eltern = OhneWert
    BY <1>4, <1>9, KeinKnotenLeer DEF EinheitPruefen
  <2>2. QED
    BY <1>9, <2>1, WaldNachUmhaengen
<1>11. QED
  BY <1>1, <1>2, <1>3, <1>4, <1>5, <1>6, <1>7, <1>10, KeinKnotenLeer, EinheitErsetzt

LEMMA EinheitSchreibenHaelt ==
  ASSUME IOg, NEW a \in OgAnfragen, EinheitSchreiben(a)
  PROVE  IOg'
<1>1. ogAnfrage[a].art \in {"einheitAnlegen", "einheitUmhaengen", "einheitArchivieren", "einheitLoeschen"}
  BY DEF EinheitSchreiben
<1>2. QED
  BY <1>1, EinheitAnlegenHaelt, EinheitUmhaengenHaelt, EinheitArchivierenHaelt, EinheitLoeschenHaelt

-----------------------------------------------------------------------------
(***************************************************************************)
(* Writing an occupancy, and time.                                         *)
(***************************************************************************)

\* Only the occupancies change: an open one is new only on a position in use,
\* and, where requests do not overlap, only when none is left running.
LEMMA SitzAendert ==
  ASSUME IOg, position' = position, einheit' = einheit, ogEinzeln' = ogEinzeln, ogKopien' = ogKopien,
         ogAnfrage' \in [OgAnfragen -> AnfrageTyp],
         \A b \in OgAnfragen : ogAnfrage'[b] = ogAnfrage[b] \/ ogAnfrage'[b] = Ruhe,
         sitz' \in [Positionen -> [Besetzer -> SUBSET SitzArt]],
         sitze' \in 0 .. MaxSitze,
         \A p \in Positionen, n \in Besetzer :
            ogEinzeln /\ "offen" \in sitz'[p][n] /\ "offen" \notin sitz[p][n] =>
               ~position[p].archiv /\ \A b \in OgAnfragen : ogAnfrage'[b].art = "keine"
  PROVE  IOg'
<1>1. OgTyp'
  BY DEF IOg, OgTyp, AnfrageTyp
<1>2. Gefuellt(position)' /\ Gefuellt(einheit)' /\ EinheitDa'
  BY DEF IOg, Gefuellt, EinheitDa
<1>3. (EinBaum /\ EinWald /\ NichtsUnterArchiviertem /\ EinheitInGebrauch)'
  <2>1. EinBaum' /\ EinWald'
    <3>1. \A p : PfadZurWurzel(position, p)' = PfadZurWurzel(position, p)
      BY DEF PfadZurWurzel
    <3>2. \A p : PfadZurWurzel(einheit, p)' = PfadZurWurzel(einheit, p)
      BY DEF PfadZurWurzel
    <3>3. QED
      BY <3>1, <3>2 DEF IOg, OrganigrammGilt, EinBaum, EinWald
  <2>2. NichtsUnterArchiviertem' /\ EinheitInGebrauch'
    BY DEF IOg, OrganigrammGilt, NichtsUnterArchiviertem, EinheitInGebrauch, Lebt, Gibt, EinheitPruefen
  <2>3. QED
    BY <2>1, <2>2
<1>4. ArchiviertIstUnbesetzt'
  BY DEF IOg, OrganigrammGilt, ArchiviertIstUnbesetzt
<1>5. Gesperrt' /\ Einzeln'
  BY RuheTyp DEF IOg, Gesperrt, Einzeln, MitSperre
<1>6. ASSUME NEW b \in OgAnfragen PROVE Geprueft(ogAnfrage[b])'
  <2>1. PICK q : q = ogAnfrage'[b]
    OBVIOUS
  <2>2. Geprueft(q)
    BY <2>1, RuheTyp DEF IOg
  <2>3. ASSUME PositionGeprueft(q), q.art \in PositionArten PROVE PositionGeprueft(q)'
    <3>1. q.id \in Positionen /\ q.art # "keine"
      BY <2>3 DEF PositionGeprueft, PositionArten
    <3>2. ASSUME q.art = "archivieren", ogEinzeln, NEW n \in Besetzer PROVE "offen" \notin sitz'[q.id][n]
      <4>1. "offen" \notin sitz[q.id][n]
        BY <2>3, <3>2 DEF PositionGeprueft
      <4>2. QED
        BY <2>1, <3>1, <3>2, <4>1
    <3>3. PfadZurWurzel(position, q.eltern)' = PfadZurWurzel(position, q.eltern)
      BY DEF PfadZurWurzel
    <3>4. QED
      BY <2>3, <3>2, <3>3 DEF PositionGeprueft, Lebt, Gibt, Kinder, Zuteilbar, EinheitPruefen
  <2>4. ASSUME EinheitGeprueft(q) PROVE EinheitGeprueft(q)'
    <3>1. PfadZurWurzel(einheit, q.eltern)' = PfadZurWurzel(einheit, q.eltern)
      BY DEF PfadZurWurzel
    <3>2. QED
      BY <2>4, <3>1 DEF EinheitGeprueft, Lebt, Gibt, Kinder, EinheitPruefen
  <2>5. ASSUME SitzGeprueft(q) PROVE SitzGeprueft(q)'
    BY <2>5 DEF SitzGeprueft, Lebt, Gibt
  <2>6. Geprueft(q)'
    BY <2>2, <2>3, <2>4, <2>5 DEF Geprueft
  <2>7. QED
    BY <2>1, <2>6
<1>7. QED
  BY <1>1, <1>2, <1>3, <1>4, <1>5, <1>6 DEF IOg, OrganigrammGilt

\* The request that is over, and what it leaves.
LEMMA AnfrageFertig ==
  ASSUME IOg, NEW a \in OgAnfragen, ogAnfrage' = [ogAnfrage EXCEPT ![a] = Ruhe]
  PROVE  /\ ogAnfrage' \in [OgAnfragen -> AnfrageTyp]
         /\ \A b \in OgAnfragen : ogAnfrage'[b] = ogAnfrage[b] \/ ogAnfrage'[b] = Ruhe
         /\ ogEinzeln /\ ogAnfrage[a].art # "keine" => \A b \in OgAnfragen : ogAnfrage'[b].art = "keine"
<1>1. ogAnfrage'[a] = Ruhe /\ \A b \in OgAnfragen \ {a} : ogAnfrage'[b] = ogAnfrage[b]
  BY OgFakten
<1>2. ogAnfrage' \in [OgAnfragen -> AnfrageTyp]
  BY OgFakten, RuheTyp
<1>3. QED
  BY <1>1, <1>2, RuheTyp DEF IOg, Einzeln

LEMMA BesetzungSchreibenHaelt ==
  ASSUME IOg, NEW a \in OgAnfragen, BesetzungSchreiben(a) PROVE IOg'
<1>1. PICK q : q = ogAnfrage[a]
  OBVIOUS
<1>2. /\ q.art = "besetzen" /\ sitze < MaxSitze
      /\ sitz' = [sitz EXCEPT ![q.id][q.nutzer] = @ \cup {q.neu}]
      /\ sitze' = sitze + 1
      /\ ogAnfrage' = [ogAnfrage EXCEPT ![a] = Ruhe]
      /\ position' = position /\ einheit' = einheit /\ ogEinzeln' = ogEinzeln /\ ogKopien' = ogKopien
  BY <1>1 DEF BesetzungSchreiben
<1>3. q \in AnfrageTyp
  BY <1>1, OgFakten
<1>4. q.neu \in SitzArt
  BY <1>3 DEF AnfrageTyp
<1>5. SitzGeprueft(q)
  BY <1>1, <1>2 DEF IOg, Geprueft
<1>6. q.id \in Positionen /\ q.nutzer \in Besetzer
  BY <1>5 DEF SitzGeprueft
<1>7. sitz' \in [Positionen -> [Besetzer -> SUBSET SitzArt]]
  BY <1>2, <1>4, <1>6, OgFakten
<1>8. sitze' \in 0 .. MaxSitze
  BY <1>2, OrganigrammAnnahme DEF IOg, OgTyp
<1>9. ASSUME NEW p \in Positionen, NEW n \in Besetzer,
             ogEinzeln, "offen" \in sitz'[p][n], "offen" \notin sitz[p][n]
      PROVE  ~position[p].archiv
  <2>1. p = q.id
    BY <1>2, <1>6, <1>9, OgFakten
  <2>2. Lebt(position, q.id)
    BY <1>2, <1>5, <1>9 DEF SitzGeprueft
  <2>3. QED
    BY <2>1, <2>2 DEF Lebt
<1>10. ogEinzeln => \A b \in OgAnfragen : ogAnfrage'[b].art = "keine"
  BY <1>1, <1>2, AnfrageFertig
<1>11. /\ ogAnfrage' \in [OgAnfragen -> AnfrageTyp]
       /\ \A b \in OgAnfragen : ogAnfrage'[b] = ogAnfrage[b] \/ ogAnfrage'[b] = Ruhe
  BY <1>2, AnfrageFertig
<1>12. \A p \in Positionen, n \in Besetzer :
          ogEinzeln /\ "offen" \in sitz'[p][n] /\ "offen" \notin sitz[p][n] =>
             ~position[p].archiv /\ \A b \in OgAnfragen : ogAnfrage'[b].art = "keine"
  BY <1>9, <1>10
<1>13. QED
  BY <1>2, <1>7, <1>8, <1>11, <1>12, SitzAendert

LEMMA BesetzungScheitertHaelt ==
  ASSUME IOg, NEW a \in OgAnfragen, BesetzungScheitert(a) PROVE IOg'
<1>1. /\ ogAnfrage' = [ogAnfrage EXCEPT ![a] = Ruhe] /\ sitz' = sitz /\ sitze' = sitze
      /\ position' = position /\ einheit' = einheit /\ ogEinzeln' = ogEinzeln /\ ogKopien' = ogKopien
  BY DEF BesetzungScheitert
<1>2. /\ ogAnfrage' \in [OgAnfragen -> AnfrageTyp]
      /\ \A b \in OgAnfragen : ogAnfrage'[b] = ogAnfrage[b] \/ ogAnfrage'[b] = Ruhe
  BY <1>1, AnfrageFertig
<1>3. sitz' \in [Positionen -> [Besetzer -> SUBSET SitzArt]] /\ sitze' \in 0 .. MaxSitze
  BY <1>1 DEF IOg, OgTyp
<1>4. QED
  BY <1>1, <1>2, <1>3, SitzAendert

LEMMA BesetzungBeendenHaelt ==
  ASSUME IOg, NEW a \in OgAnfragen, BesetzungBeenden(a) PROVE IOg'
<1>1. PICK q : q = ogAnfrage[a]
  OBVIOUS
<1>2. /\ q.art = "beenden"
      /\ \/ sitz' = sitz
         \/ \E zeile : sitz' = [sitz EXCEPT ![q.id][q.nutzer] = (@ \ {zeile}) \cup {q.neu}]
      /\ ogAnfrage' = [ogAnfrage EXCEPT ![a] = Ruhe] /\ sitze' = sitze
      /\ position' = position /\ einheit' = einheit /\ ogEinzeln' = ogEinzeln /\ ogKopien' = ogKopien
  BY <1>1 DEF BesetzungBeenden
<1>3. q.neu \in SitzArt
  <2>1. q \in AnfrageTyp
    BY <1>1, OgFakten
  <2>2. QED
    BY <2>1 DEF AnfrageTyp
<1>4. q.id \in Positionen /\ q.nutzer \in Besetzer /\ q.neu # "offen"
  <2>1. SitzGeprueft(q)
    BY <1>1, <1>2 DEF IOg, Geprueft
  <2>2. QED
    BY <1>2, <2>1 DEF SitzGeprueft
<1>5. /\ sitz' \in [Positionen -> [Besetzer -> SUBSET SitzArt]]
      /\ \A p \in Positionen, n \in Besetzer : "offen" \in sitz'[p][n] => "offen" \in sitz[p][n]
  <2>1. CASE sitz' = sitz
    BY <2>1, OgFakten
  <2>2. CASE \E zeile : sitz' = [sitz EXCEPT ![q.id][q.nutzer] = (@ \ {zeile}) \cup {q.neu}]
    <3>1. PICK zeile : sitz' = [sitz EXCEPT ![q.id][q.nutzer] = (@ \ {zeile}) \cup {q.neu}]
      BY <2>2
    <3>2. QED
      BY <1>3, <1>4, <3>1, OgFakten
  <2>3. QED
    BY <1>2, <2>1, <2>2
<1>6. /\ ogAnfrage' \in [OgAnfragen -> AnfrageTyp]
      /\ \A b \in OgAnfragen : ogAnfrage'[b] = ogAnfrage[b] \/ ogAnfrage'[b] = Ruhe
  BY <1>2, AnfrageFertig
<1>7. sitze' \in 0 .. MaxSitze
  BY <1>2 DEF IOg, OgTyp
<1>8. QED
  BY <1>2, <1>5, <1>6, <1>7, SitzAendert

LEMMA ZeitVergehtHaelt ==
  ASSUME IOg, NEW p \in Positionen, NEW n \in Besetzer, ZeitVergeht(p, n) PROVE IOg'
<1>1. PICK paar \in {<<"bald", "jetzt">>, <<"jetzt", "beendet">>} :
         sitz' = [sitz EXCEPT ![p][n] = (@ \ {paar[1]}) \cup {paar[2]}]
  BY DEF ZeitVergeht
<1>2. /\ ogAnfrage' = ogAnfrage /\ sitze' = sitze
      /\ position' = position /\ einheit' = einheit /\ ogEinzeln' = ogEinzeln /\ ogKopien' = ogKopien
  BY DEF ZeitVergeht
<1>3. paar[2] \in SitzArt /\ paar[2] # "offen"
  BY DEF SitzArt
<1>4. /\ sitz' \in [Positionen -> [Besetzer -> SUBSET SitzArt]]
      /\ \A k \in Positionen, m \in Besetzer : "offen" \in sitz'[k][m] => "offen" \in sitz[k][m]
  BY <1>1, <1>3, OgFakten
<1>5. /\ ogAnfrage' \in [OgAnfragen -> AnfrageTyp]
      /\ \A b \in OgAnfragen : ogAnfrage'[b] = ogAnfrage[b] \/ ogAnfrage'[b] = Ruhe
  BY <1>2, OgFakten
<1>6. sitze' \in 0 .. MaxSitze
  BY <1>2 DEF IOg, OgTyp
<1>7. QED
  BY <1>2, <1>4, <1>5, <1>6, SitzAendert

-----------------------------------------------------------------------------
(***************************************************************************)
(* Every step.                                                             *)
(***************************************************************************)

LEMMA OgSchritt == IOg /\ [OgNext]_ogVars => IOg'
<1> SUFFICES ASSUME IOg, [OgNext]_ogVars PROVE IOg'
  OBVIOUS
<1>1. ASSUME NEW a \in OgAnfragen, NEW p \in Positionen, NEW q \in Positionen, NEW e \in Einheiten \cup {OhneWert},
             CreatePosition(a, p, q, e) \/ MovePosition(a, p, q) \/ DuplicatePosition(a, p, q)
      PROVE  IOg'
  BY <1>1, CreatePositionHaelt, MovePositionHaelt, DuplicatePositionHaelt
<1>2. ASSUME NEW a \in OgAnfragen, NEW p \in Positionen, NEW e \in Einheiten \cup {OhneWert},
             AssignPosition(a, p, e) \/ ArchivePosition(a, p) \/ DeletePosition(a, p)
      PROVE  IOg'
  BY <1>2, AssignPositionHaelt, ArchivePositionHaelt, DeletePositionHaelt
<1>3. ASSUME NEW a \in OgAnfragen, NEW p \in Positionen, NEW n \in Besetzer,
             NEW alt \in SitzArt, NEW neu \in SitzArt,
             CreateBesetzung(a, p, n, neu) \/ UpdateBesetzung(a, p, n, alt, neu)
      PROVE  IOg'
  BY <1>3, CreateBesetzungHaelt, UpdateBesetzungHaelt
<1>4. ASSUME NEW a \in OgAnfragen, NEW e \in Einheiten, NEW f \in Einheiten \cup {OhneWert},
             CreateOrgEinheit(a, e, f) \/ UpdateOrgEinheit(a, e, f) \/ ArchiveOrgEinheit(a, e) \/ DeleteOrgEinheit(a, e)
      PROVE  IOg'
  BY <1>4, CreateOrgEinheitHaelt, UpdateOrgEinheitHaelt, ArchiveOrgEinheitHaelt, DeleteOrgEinheitHaelt
<1>5. ASSUME NEW a \in OgAnfragen,
             PositionSchreiben(a) \/ EinheitSchreiben(a) \/ BesetzungSchreiben(a) \/ BesetzungScheitert(a)
               \/ BesetzungBeenden(a)
      PROVE  IOg'
  BY <1>5, PositionSchreibenHaelt, EinheitSchreibenHaelt, BesetzungSchreibenHaelt, BesetzungScheitertHaelt,
     BesetzungBeendenHaelt
<1>6. ASSUME NEW p \in Positionen, NEW n \in Besetzer, ZeitVergeht(p, n) PROVE IOg'
  BY <1>6, ZeitVergehtHaelt
<1>7. CASE UNCHANGED ogVars
  <2>1. /\ ogAnfrage' = ogAnfrage /\ sitze' = sitze /\ sitz' = sitz
        /\ position' = position /\ einheit' = einheit /\ ogEinzeln' = ogEinzeln /\ ogKopien' = ogKopien
    BY <1>7 DEF ogVars
  <2>2. /\ sitz' \in [Positionen -> [Besetzer -> SUBSET SitzArt]] /\ sitze' \in 0 .. MaxSitze
        /\ ogAnfrage' \in [OgAnfragen -> AnfrageTyp]
    BY <2>1, OgFakten DEF IOg, OgTyp
  <2>3. QED
    BY <2>1, <2>2, SitzAendert
<1>8. CASE OgNext
  <2>1. OhneWert \in Einheiten \cup {OhneWert}
    OBVIOUS
  <2>2. QED
    BY <1>1, <1>2, <1>3, <1>4, <1>5, <1>6, <1>8, <2>1 DEF OgNext
<1>9. QED
  BY <1>7, <1>8

LEMMA OgImmer == OgSpec => []IOg
<1>1. OgInit => IOg
  BY OgStart
<1>2. IOg /\ [OgNext]_ogVars => IOg'
  BY OgSchritt
<1>3. QED
  BY <1>1, <1>2, PTL DEF OgSpec

\* Whatever requests overlap, the chart stays one tree and the units a forest:
\* pfad_zur_wurzel of every position ends at the root, nothing in use hangs
\* under something archived or lies in a unit that is gone, and an archived
\* position is held by nobody, with the two reservations above OrganigrammGilt
\* (baum_sperren, _pruefe_neuer_elternteil, archive_position, delete_position).
THEOREM OrganigrammBleibtBaum == OgSpec => []OrganigrammGilt
<1>1. IOg => OrganigrammGilt
  BY DEF IOg
<1>2. QED
  BY <1>1, OgImmer, PTL

-----------------------------------------------------------------------------
(***************************************************************************)
(* Change requests to the schedule.  What a session has checked: the row   *)
(* it creates does not exist and is nobody else's, the row it decides      *)
(* exists.  With one session at a time the row it decides is still open,   *)
(* and the technician it creates one for has no other open.                *)
(***************************************************************************)

WunschGeordnet(zeile) == zeile.art = "verschieben" => zeile.start <= zeile.ende

VorhabenGeprueft(v) ==
  /\ v \in Vorgesehen
  /\ v.tut = "anlegen" => antraege[v.antrag] = Kein /\ v.zeile.status = "offen" /\ WunschGeordnet(v.zeile)
  /\ v.tut # "anlegen" => antraege[v.antrag] # Kein
  /\ gleichzeitig = 1 /\ v.tut = "anlegen" => \A b \in Antraege : IstOffen(b) => antraege[b].von # v.zeile.von
  /\ gleichzeitig = 1 /\ v.tut # "anlegen" => IstOffen(v.antrag)

Arbeitet(s) == sitzung[s] # Leerlauf

SitzungenGeprueft ==
  /\ \A s \in Sitzungen : Arbeitet(s) => VorhabenGeprueft(sitzung[s])
  /\ \A s, t \in Sitzungen :
       Arbeitet(s) /\ Arbeitet(t) /\ s # t =>
         /\ gleichzeitig # 1
         /\ ~(sitzung[s].tut = "anlegen" /\ sitzung[t].tut = "anlegen" /\ sitzung[s].antrag = sitzung[t].antrag)

IZa ==
  /\ ZaTyp
  /\ \A a \in Antraege : antraege[a] # Kein => WunschGeordnet(antraege[a])
  /\ SitzungenGeprueft
  /\ AntragGilt

LEMMA KeinOhneStatus == Kein \notin Antrag /\ Kein.status = "kein"
<1>1. Kein.status = "kein"
  BY DEF Kein
<1>2. \A z \in Antrag : z.status # "kein"
  BY DEF Antrag
<1>3. QED
  BY <1>1, <1>2

LEMMA VorhabenFelder ==
  ASSUME NEW v \in Vorgesehen
  PROVE  v.antrag \in Antraege /\ (v.tut = "anlegen" => v.zeile \in Antrag)
         /\ v.tut \in {"anlegen", "annehmen", "ablehnen", "zurueckziehen"}
<1> HIDE DEF Antrag
<1>1. CASE v \in [antrag : Antraege, tut : {"anlegen"}, zeile : Antrag]
  BY <1>1
<1>2. CASE v \in [antrag : Antraege, tut : {"annehmen", "ablehnen", "zurueckziehen"}]
  BY <1>2
<1>3. QED
  BY <1>1, <1>2 DEF Vorgesehen

LEMMA ZaStart == ZaInit => IZa
<1> SUFFICES ASSUME ZaInit PROVE IZa
  OBVIOUS
<1>1. /\ schritt = [start |-> 0, ende |-> 0, da |-> TRUE, bestellt |-> FALSE]
      /\ antraege = [a \in Antraege |-> Kein] /\ sitzung = [s \in Sitzungen |-> Leerlauf]
      /\ angewendet = {} /\ gleichzeitig \in 1 .. Cardinality(Sitzungen)
  BY DEF ZaInit
<1>2. ZaTyp
  <2>1. 0 \in Tage /\ 0 <= 0
    BY AntragAnnahme DEF Tage
  <2>2. schritt \in [start : Tage, ende : Tage, da : BOOLEAN, bestellt : BOOLEAN] /\ schritt.start <= schritt.ende
    BY <1>1, <2>1
  <2>3. QED
    BY <1>1, <2>2 DEF ZaTyp
<1>3. SitzungenGeprueft
  BY <1>1 DEF SitzungenGeprueft, Arbeitet
<1>4. AntragGilt
  BY <1>1, KeinOhneStatus DEF AntragGilt, IstOffen
<1>5. QED
  BY <1>1, <1>2, <1>3, <1>4 DEF IZa

\* The rows stay as they are, and a session, if any, begins what it has checked.
LEMMA SitzungBeginnt ==
  ASSUME IZa, NEW s \in Sitzungen, NEW v \in Vorgesehen, BeginntSitzung(s, v), VorhabenGeprueft(v),
         v.tut = "anlegen" => \A t \in Sitzungen : Arbeitet(t) => sitzung[t].antrag # v.antrag,
         UNCHANGED <<schritt, antraege, angewendet, gleichzeitig>>
  PROVE  IZa'
<1>1. /\ schritt' = schritt /\ antraege' = antraege /\ angewendet' = angewendet /\ gleichzeitig' = gleichzeitig
      /\ sitzung' = [sitzung EXCEPT ![s] = v]
  BY DEF BeginntSitzung
<1>2. sitzung \in [Sitzungen -> Vorgesehen \cup {Leerlauf}]
  BY DEF IZa, ZaTyp
<1>3. sitzung'[s] = v /\ \A t \in Sitzungen \ {s} : sitzung'[t] = sitzung[t]
  BY <1>1, <1>2
<1>4. ZaTyp'
  BY <1>1, <1>2 DEF IZa, ZaTyp
<1>5. AntragGilt'
  BY <1>1 DEF IZa, AntragGilt, IstOffen
<1>6. ASSUME gleichzeitig = 1 PROVE \A t \in Sitzungen : ~Arbeitet(t)
  <2> DEFINE D == {t \in Sitzungen : sitzung[t] # Leerlauf}
  <2>1. IsFiniteSet(D)
    BY AntragAnnahme, FS_Subset
  <2>2. Cardinality(D) < 1
    BY <1>6 DEF BeginntSitzung
  <2>3. Cardinality(D) \in Nat
    BY <2>1, FS_CardinalityType
  <2>4. D = {}
    BY <2>1, <2>2, <2>3, FS_EmptySet
  <2>5. QED
    BY <2>4 DEF Arbeitet
<1>7. \A w : VorhabenGeprueft(w)' <=> VorhabenGeprueft(w)
  BY <1>1 DEF VorhabenGeprueft, IstOffen
<1>8. SitzungenGeprueft'
  <2>1. ASSUME NEW t \in Sitzungen, Arbeitet(t)' PROVE VorhabenGeprueft(sitzung[t])'
    <3>1. PICK w : w = sitzung'[t]
      OBVIOUS
    <3>2. VorhabenGeprueft(w)
      BY <1>3, <2>1, <3>1 DEF IZa, SitzungenGeprueft, Arbeitet
    <3>3. VorhabenGeprueft(w)'
      BY <1>7, <3>2
    <3>4. QED
      BY <3>1, <3>3
  <2>2. ASSUME NEW t \in Sitzungen, NEW u \in Sitzungen, Arbeitet(t)', Arbeitet(u)', t # u
        PROVE  /\ gleichzeitig' # 1
               /\ ~(/\ sitzung'[t].tut = "anlegen" /\ sitzung'[u].tut = "anlegen"
                    /\ sitzung'[t].antrag = sitzung'[u].antrag)
    <3>1. CASE t # s /\ u # s
      BY <1>1, <1>3, <2>2, <3>1 DEF IZa, SitzungenGeprueft, Arbeitet
    <3>2. CASE t = s
      BY <1>1, <1>3, <1>6, <2>2, <3>2 DEF Arbeitet
    <3>3. CASE u = s
      BY <1>1, <1>3, <1>6, <2>2, <3>3 DEF Arbeitet
    <3>4. QED
      BY <3>1, <3>2, <3>3
  <2>3. QED
    BY <2>1, <2>2 DEF SitzungenGeprueft
<1>9. QED
  BY <1>1, <1>4, <1>5, <1>8 DEF IZa, WunschGeordnet

LEMMA ErstellenPruefenHaelt ==
  ASSUME IZa, NEW s \in Sitzungen, NEW a \in Antraege, NEW u \in Techniker, NEW art \in AntragArten,
         NEW start \in Tage, NEW ende \in Tage, ErstellenPruefen(s, a, u, art, start, ende)
  PROVE  IZa'
<1> DEFINE z == [status |-> "offen", art |-> art, start |-> start, ende |-> ende, von |-> u]
           v == [antrag |-> a, tut |-> "anlegen", zeile |-> z]
<1>1. z \in Antrag /\ z.status = "offen" /\ z.art = art /\ z.start = start /\ z.ende = ende /\ z.von = u
  BY DEF Antrag
<1>2. WunschGeordnet(z)
  BY DEF ErstellenPruefen, Wunsch, WunschGeordnet
<1>3. BeginntSitzung(s, v) /\ UNCHANGED <<schritt, antraege, angewendet, gleichzeitig>>
  BY DEF ErstellenPruefen
<1>4. antraege[a] = Kein /\ \A t \in Sitzungen : Arbeitet(t) => sitzung[t].antrag # a
  BY DEF ErstellenPruefen, Arbeitet
<1>5. \A b \in Antraege : IstOffen(b) => antraege[b].von # u
  BY DEF ErstellenPruefen, IstOffen
<1> HIDE DEF z
<1>6. v \in Vorgesehen /\ v.antrag = a /\ v.tut = "anlegen" /\ v.zeile = z
  <2>1. v \in [antrag : Antraege, tut : {"anlegen"}, zeile : Antrag]
    BY <1>1
  <2>2. QED
    BY <2>1 DEF Vorgesehen
<1> HIDE DEF v
<1>7. VorhabenGeprueft(v)
  BY <1>1, <1>2, <1>4, <1>5, <1>6 DEF VorhabenGeprueft
<1>8. QED
  BY <1>3, <1>4, <1>6, <1>7, SitzungBeginnt

LEMMA EntscheidungPruefenHaelt ==
  ASSUME IZa, NEW s \in Sitzungen, NEW a \in Antraege, NEW tut \in DOMAIN Beendet, EntscheidungPruefen(s, a, tut)
  PROVE  IZa'
<1> DEFINE v == [antrag |-> a, tut |-> tut]
<1>1. tut \in {"annehmen", "ablehnen", "zurueckziehen"}
  BY DEF Beendet
<1>2. v \in Vorgesehen /\ v.antrag = a /\ v.tut = tut /\ v.tut # "anlegen"
  <2>1. v \in [antrag : Antraege, tut : {"annehmen", "ablehnen", "zurueckziehen"}]
    BY <1>1
  <2>2. QED
    BY <1>1, <2>1 DEF Vorgesehen
<1>3. BeginntSitzung(s, v) /\ UNCHANGED <<schritt, antraege, angewendet, gleichzeitig>> /\ IstOffen(a)
  BY DEF EntscheidungPruefen
<1> HIDE DEF v
<1>4. VorhabenGeprueft(v)
  BY <1>2, <1>3, KeinOhneStatus DEF VorhabenGeprueft, IstOffen
<1>5. QED
  BY <1>2, <1>3, <1>4, SitzungBeginnt

\* A session ends: it has written the row a, or nothing.
LEMMA SitzungEndet ==
  ASSUME IZa, NEW s \in Sitzungen, Arbeitet(s), NEW a \in Antraege, NEW zeile,
         zeile \in Antrag \/ zeile = antraege[a], zeile # Kein => WunschGeordnet(zeile),
         antraege[a] # Kein => zeile # Kein,
         sitzung[s].antrag = a,
         antraege[a] = Kein => sitzung[s].tut = "anlegen",
         antraege' = [antraege EXCEPT ![a] = zeile],
         sitzung' = [sitzung EXCEPT ![s] = Leerlauf], gleichzeitig' = gleichzeitig,
         schritt' \in [start : Tage, ende : Tage, da : BOOLEAN, bestellt : BOOLEAN],
         schritt'.start <= schritt'.ende,
         angewendet' \subseteq Antraege,
         AntragGilt'
  PROVE  IZa'
<1>1. sitzung \in [Sitzungen -> Vorgesehen \cup {Leerlauf}] /\ antraege \in [Antraege -> Antrag \cup {Kein}]
  BY DEF IZa, ZaTyp
<1>2. /\ sitzung'[s] = Leerlauf /\ \A t \in Sitzungen \ {s} : sitzung'[t] = sitzung[t]
      /\ antraege'[a] = zeile /\ \A b \in Antraege \ {a} : antraege'[b] = antraege[b]
  BY <1>1
<1>3. ZaTyp'
  BY <1>1 DEF IZa, ZaTyp
<1>4. (\A b \in Antraege : antraege[b] # Kein => WunschGeordnet(antraege[b]))'
  BY <1>2 DEF IZa, WunschGeordnet
<1>5. SitzungenGeprueft'
  <2>1. ASSUME NEW t \in Sitzungen, Arbeitet(t)' PROVE VorhabenGeprueft(sitzung[t])'
    <3>1. PICK w : w = sitzung'[t]
      OBVIOUS
    <3>2. t # s /\ w = sitzung[t] /\ Arbeitet(t)
      BY <1>2, <2>1, <3>1 DEF Arbeitet
    <3>3. VorhabenGeprueft(w) /\ gleichzeitig # 1
      BY <3>2 DEF IZa, SitzungenGeprueft
    <3>4. w.antrag \in Antraege
      BY <3>3, VorhabenFelder DEF VorhabenGeprueft
    <3>5. w.tut = "anlegen" => w.antrag # a
      <4>1. CASE antraege[a] = Kein
        BY <3>2, <4>1 DEF IZa, SitzungenGeprueft
      <4>2. CASE antraege[a] # Kein
        BY <3>3, <4>2 DEF VorhabenGeprueft
      <4>3. QED
        BY <4>1, <4>2
    <3>6. w.tut # "anlegen" => antraege'[w.antrag] # Kein
      BY <1>2, <3>3, <3>4 DEF VorhabenGeprueft
    <3>7. VorhabenGeprueft(w)'
      BY <1>2, <3>3, <3>4, <3>5, <3>6 DEF VorhabenGeprueft
    <3>8. QED
      BY <3>1, <3>7
  <2>2. ASSUME NEW t \in Sitzungen, NEW u \in Sitzungen, Arbeitet(t)', Arbeitet(u)', t # u
        PROVE  /\ gleichzeitig' # 1
               /\ ~(/\ sitzung'[t].tut = "anlegen" /\ sitzung'[u].tut = "anlegen"
                    /\ sitzung'[t].antrag = sitzung'[u].antrag)
    BY <1>2, <2>2 DEF IZa, SitzungenGeprueft, Arbeitet
  <2>3. QED
    BY <2>1, <2>2 DEF SitzungenGeprueft
<1>6. QED
  BY <1>3, <1>4, <1>5 DEF IZa

LEMMA ErstellenSchreibenHaelt ==
  ASSUME IZa, NEW s \in Sitzungen, ErstellenSchreiben(s) PROVE IZa'
<1>1. PICK v : v = sitzung[s]
  OBVIOUS
<1>2. PICK a : a = v.antrag
  OBVIOUS
<1>3. PICK zeile : zeile = v.zeile
  OBVIOUS
<1>4. /\ Arbeitet(s) /\ v.tut = "anlegen"
      /\ antraege' = [antraege EXCEPT ![a] = zeile] /\ sitzung' = [sitzung EXCEPT ![s] = Leerlauf]
      /\ schritt' = schritt /\ angewendet' = angewendet /\ gleichzeitig' = gleichzeitig
  BY <1>1, <1>2, <1>3 DEF ErstellenSchreiben, Arbeitet
<1>5. VorhabenGeprueft(v)
  BY <1>1, <1>4 DEF IZa, SitzungenGeprueft
<1>6. v \in Vorgesehen
  BY <1>5 DEF VorhabenGeprueft
<1>7. a \in Antraege /\ zeile \in Antrag
  BY <1>2, <1>3, <1>4, <1>6, VorhabenFelder
<1>8. antraege[a] = Kein /\ zeile.status = "offen" /\ WunschGeordnet(zeile)
      /\ (gleichzeitig = 1 => \A b \in Antraege : IstOffen(b) => antraege[b].von # zeile.von)
  BY <1>2, <1>3, <1>4, <1>5 DEF VorhabenGeprueft
<1>9. /\ schritt' \in [start : Tage, ende : Tage, da : BOOLEAN, bestellt : BOOLEAN]
      /\ schritt'.start <= schritt'.ende /\ angewendet' \subseteq Antraege
      /\ antraege \in [Antraege -> Antrag \cup {Kein}]
  BY <1>4 DEF IZa, ZaTyp
<1>10. antraege'[a] = zeile /\ \A b \in Antraege \ {a} : antraege'[b] = antraege[b]
  BY <1>4, <1>7, <1>9
<1>11. AntragGilt'
  <2>1. SUFFICES ASSUME gleichzeitig = 1
                 PROVE  /\ \A b \in Antraege : b \in angewendet' <=> antraege'[b].status = "angenommen"
                        /\ \A b, c \in Antraege :
                             antraege'[b].status = "offen" /\ antraege'[c].status = "offen"
                               /\ antraege'[b].von = antraege'[c].von => b = c
    BY <1>4 DEF AntragGilt, IstOffen
  <2>2. AntragGilt
    BY DEF IZa
  <2>3. a \notin angewendet
    BY <1>7, <1>8, <2>1, <2>2, KeinOhneStatus DEF AntragGilt
  <2>4. QED
    BY <1>4, <1>8, <1>10, <2>1, <2>2, <2>3 DEF AntragGilt, IstOffen
<1>12. sitzung[s].antrag = a /\ sitzung[s].tut = "anlegen"
  BY <1>1, <1>2, <1>4
<1>13. zeile # Kein
  BY <1>7, KeinOhneStatus
<1>14. QED
  BY <1>4, <1>7, <1>8, <1>9, <1>11, <1>12, <1>13, SitzungEndet

LEMMA EntscheidungSchreibenHaelt ==
  ASSUME IZa, NEW s \in Sitzungen, EntscheidungSchreiben(s) PROVE IZa'
<1>1. PICK v : v = sitzung[s]
  OBVIOUS
<1>2. PICK a : a = v.antrag
  OBVIOUS
<1>3. PICK alt : alt = antraege[a]
  OBVIOUS
<1>4. PICK neu : neu = [alt EXCEPT !.status = Beendet[v.tut]]
  OBVIOUS
<1>5. /\ Arbeitet(s) /\ v.tut # "anlegen"
      /\ antraege' = [antraege EXCEPT ![a] = neu]
      /\ sitzung' = [sitzung EXCEPT ![s] = Leerlauf] /\ gleichzeitig' = gleichzeitig
      /\ v.tut = "annehmen" => Uebernommen(alt) /\ angewendet' = angewendet \cup {a}
      /\ v.tut # "annehmen" => schritt' = schritt /\ angewendet' = angewendet
  BY <1>1, <1>2, <1>3, <1>4 DEF EntscheidungSchreiben, Arbeitet
<1>6. VorhabenGeprueft(v)
  BY <1>1, <1>5 DEF IZa, SitzungenGeprueft
<1>7. v \in Vorgesehen
  BY <1>6 DEF VorhabenGeprueft
<1>8. a \in Antraege /\ v.tut \in {"annehmen", "ablehnen", "zurueckziehen"}
  BY <1>2, <1>5, <1>7, VorhabenFelder
<1>9. alt \in Antrag /\ WunschGeordnet(alt) /\ (gleichzeitig = 1 => IstOffen(a))
  <2>1. alt # Kein
    BY <1>2, <1>3, <1>5, <1>6 DEF VorhabenGeprueft
  <2>2. antraege[a] \in Antrag \cup {Kein}
    BY <1>8 DEF IZa, ZaTyp
  <2>3. QED
    BY <1>2, <1>3, <1>5, <1>6, <1>8, <2>1, <2>2 DEF IZa, VorhabenGeprueft
<1>10. Beendet[v.tut] \in {"angenommen", "abgelehnt", "zurueckgezogen"}
       /\ (Beendet[v.tut] = "angenommen" <=> v.tut = "annehmen")
  BY <1>8 DEF Beendet
<1>11. /\ neu \in Antrag /\ neu.status = Beendet[v.tut]
       /\ neu.art = alt.art /\ neu.start = alt.start /\ neu.ende = alt.ende
  <2>1. PICK st : st = Beendet[v.tut]
    OBVIOUS
  <2>2. neu = [alt EXCEPT !.status = st]
    BY <1>4, <2>1
  <2>3. QED
    BY <1>9, <1>10, <2>1, <2>2 DEF Antrag
<1>12. WunschGeordnet(neu) /\ neu # Kein
  BY <1>9, <1>11, KeinOhneStatus DEF WunschGeordnet
<1>13. /\ schritt \in [start : Tage, ende : Tage, da : BOOLEAN, bestellt : BOOLEAN]
       /\ schritt.start <= schritt.ende /\ angewendet \subseteq Antraege
       /\ antraege \in [Antraege -> Antrag \cup {Kein}]
  BY DEF IZa, ZaTyp
<1>14. /\ schritt' \in [start : Tage, ende : Tage, da : BOOLEAN, bestellt : BOOLEAN]
       /\ schritt'.start <= schritt'.ende
  <2>1. CASE v.tut # "annehmen"
    BY <1>5, <1>13, <2>1
  <2>2. CASE v.tut = "annehmen"
    <3>1. alt.start \in Tage /\ alt.ende \in Tage /\ alt.art \in AntragArten
      BY <1>9 DEF Antrag
    <3>2. CASE alt.art = "verschieben"
      <4>1. schritt' = [schritt EXCEPT !.start = alt.start, !.ende = alt.ende]
        BY <1>5, <2>2, <3>2 DEF Uebernommen
      <4>2. alt.start <= alt.ende
        BY <1>9, <3>2 DEF WunschGeordnet
      <4>3. QED
        BY <1>13, <3>1, <4>1, <4>2
    <3>3. CASE alt.art = "dauer_aendern"
      <4>1. schritt' = [schritt EXCEPT !.ende = alt.ende] /\ alt.ende >= schritt.start
        BY <1>5, <2>2, <3>3 DEF Uebernommen
      <4>2. QED
        BY <1>13, <3>1, <4>1
    <3>4. CASE alt.art # "verschieben" /\ alt.art # "dauer_aendern"
      <4>1. schritt' = schritt
        BY <1>5, <2>2, <3>4 DEF Uebernommen
      <4>2. QED
        BY <1>13, <4>1
    <3>5. QED
      BY <3>2, <3>3, <3>4
  <2>3. QED
    BY <2>1, <2>2
<1>15. angewendet' \subseteq Antraege
  BY <1>5, <1>8, <1>13
<1>16. antraege'[a] = neu /\ \A b \in Antraege \ {a} : antraege'[b] = antraege[b]
  BY <1>5, <1>8, <1>13
<1>17. AntragGilt'
  <2>1. SUFFICES ASSUME gleichzeitig = 1
                 PROVE  /\ \A b \in Antraege : b \in angewendet' <=> antraege'[b].status = "angenommen"
                        /\ \A b, c \in Antraege :
                             antraege'[b].status = "offen" /\ antraege'[c].status = "offen"
                               /\ antraege'[b].von = antraege'[c].von => b = c
    BY <1>5 DEF AntragGilt, IstOffen
  <2>2. AntragGilt /\ IstOffen(a)
    BY <1>9, <2>1 DEF IZa
  <2>3. a \notin angewendet
    BY <1>8, <2>1, <2>2 DEF AntragGilt, IstOffen
  <2>4. neu.status # "offen" /\ (neu.status = "angenommen" <=> v.tut = "annehmen")
    BY <1>10, <1>11
  <2>5. \A b \in Antraege : b \in angewendet' <=> antraege'[b].status = "angenommen"
    BY <1>5, <1>16, <2>1, <2>2, <2>3, <2>4 DEF AntragGilt
  <2>6. \A b \in Antraege : antraege'[b].status = "offen" => b # a /\ antraege'[b] = antraege[b]
    BY <1>16, <2>4
  <2>7. QED
    BY <2>1, <2>2, <2>5, <2>6 DEF AntragGilt, IstOffen
<1>18. sitzung[s].antrag = a /\ antraege[a] # Kein
  BY <1>1, <1>2, <1>3, <1>9, KeinOhneStatus
<1>19. QED
  BY <1>5, <1>8, <1>11, <1>12, <1>14, <1>15, <1>17, <1>18, SitzungEndet

LEMMA EntscheidungScheitertHaelt ==
  ASSUME IZa, NEW s \in Sitzungen, EntscheidungScheitert(s) PROVE IZa'
<1>1. PICK v : v = sitzung[s]
  OBVIOUS
<1>2. PICK a : a = v.antrag
  OBVIOUS
<1>3. PICK zeile : zeile = antraege[a]
  OBVIOUS
<1>4. /\ Arbeitet(s) /\ v.tut = "annehmen" /\ sitzung' = [sitzung EXCEPT ![s] = Leerlauf]
      /\ schritt' = schritt /\ angewendet' = angewendet /\ gleichzeitig' = gleichzeitig /\ antraege' = antraege
  BY <1>1 DEF EntscheidungScheitert, Arbeitet
<1>5. VorhabenGeprueft(v)
  BY <1>1, <1>4 DEF IZa, SitzungenGeprueft
<1>6. a \in Antraege /\ antraege[a] # Kein
  BY <1>2, <1>4, <1>5, VorhabenFelder DEF VorhabenGeprueft
<1>7. /\ schritt' \in [start : Tage, ende : Tage, da : BOOLEAN, bestellt : BOOLEAN]
      /\ schritt'.start <= schritt'.ende /\ angewendet' \subseteq Antraege
      /\ antraege \in [Antraege -> Antrag \cup {Kein}]
  BY <1>4 DEF IZa, ZaTyp
<1>8. antraege' = [antraege EXCEPT ![a] = zeile]
  BY <1>3, <1>4, <1>6, <1>7
<1>9. AntragGilt'
  BY <1>4 DEF IZa, AntragGilt, IstOffen
<1>10. WunschGeordnet(zeile)
  BY <1>3, <1>6 DEF IZa
<1>11. sitzung[s].antrag = a
  BY <1>1, <1>2
<1>12. QED
  BY <1>3, <1>4, <1>6, <1>7, <1>8, <1>9, <1>10, <1>11, SitzungEndet

\* The planner's step, or none: only the step of the plan changes.
LEMMA PlanAendernHaelt ==
  ASSUME IZa, PlanAendern \/ UNCHANGED zaVars PROVE IZa'
<1>1. antraege' = antraege /\ sitzung' = sitzung /\ angewendet' = angewendet /\ gleichzeitig' = gleichzeitig
  BY DEF PlanAendern, zaVars
<1>2. /\ schritt \in [start : Tage, ende : Tage, da : BOOLEAN, bestellt : BOOLEAN]
      /\ schritt.start <= schritt.ende
  BY DEF IZa, ZaTyp
<1>3. /\ schritt' \in [start : Tage, ende : Tage, da : BOOLEAN, bestellt : BOOLEAN]
      /\ schritt'.start <= schritt'.ende
  <2>1. (~schritt.bestellt) \in BOOLEAN
    OBVIOUS
  <2>2. QED
    BY <1>2, <2>1 DEF PlanAendern, zaVars
<1>4. ZaTyp'
  BY <1>1, <1>3 DEF IZa, ZaTyp
<1>5. \A w : VorhabenGeprueft(w)' <=> VorhabenGeprueft(w)
  BY <1>1 DEF VorhabenGeprueft, IstOffen
<1>6. SitzungenGeprueft'
  <2>1. ASSUME NEW t \in Sitzungen, Arbeitet(t)' PROVE VorhabenGeprueft(sitzung[t])'
    <3>1. PICK w : w = sitzung'[t]
      OBVIOUS
    <3>2. VorhabenGeprueft(w)'
      BY <1>1, <1>5, <2>1, <3>1 DEF IZa, SitzungenGeprueft, Arbeitet
    <3>3. QED
      BY <3>1, <3>2
  <2>2. QED
    BY <1>1, <2>1 DEF IZa, SitzungenGeprueft, Arbeitet
<1>7. QED
  BY <1>1, <1>4, <1>6 DEF IZa, WunschGeordnet, AntragGilt, IstOffen

LEMMA ZaSchritt == IZa /\ [ZaNext]_zaVars => IZa'
<1> SUFFICES ASSUME IZa, [ZaNext]_zaVars PROVE IZa'
  OBVIOUS
<1>1. ASSUME NEW s \in Sitzungen, NEW a \in Antraege, NEW u \in Techniker, NEW art \in AntragArten,
             NEW start \in Tage, NEW ende \in Tage, ErstellenPruefen(s, a, u, art, start, ende)
      PROVE  IZa'
  BY <1>1, ErstellenPruefenHaelt
<1>2. ASSUME NEW s \in Sitzungen, NEW a \in Antraege, NEW tut \in DOMAIN Beendet, EntscheidungPruefen(s, a, tut)
      PROVE  IZa'
  BY <1>2, EntscheidungPruefenHaelt
<1>3. ASSUME NEW s \in Sitzungen, ErstellenSchreiben(s) \/ EntscheidungSchreiben(s) \/ EntscheidungScheitert(s)
      PROVE  IZa'
  BY <1>3, ErstellenSchreibenHaelt, EntscheidungSchreibenHaelt, EntscheidungScheitertHaelt
<1>4. ASSUME PlanAendern \/ UNCHANGED zaVars PROVE IZa'
  BY <1>4, PlanAendernHaelt
<1>5. QED
  BY <1>1, <1>2, <1>3, <1>4 DEF ZaNext

LEMMA ZaImmer == ZaSpec => []IZa
<1>1. ZaInit => IZa
  BY ZaStart
<1>2. IZa /\ [ZaNext]_zaVars => IZa'
  BY ZaSchritt
<1>3. QED
  BY <1>1, <1>2, PTL DEF ZaSpec

\* With one decision at a time the status of a request tells what happened to
\* the plan: exactly the accepted ones were written into it, and a technician
\* never has two open ones (erstellen, annehmen, ablehnen, zurueckziehen of
\* zeitplan_antrag_service.py).
THEOREM AntragBleibtTreu == ZaSpec => []AntragGilt
<1>1. IZa => AntragGilt
  BY DEF IZa
<1>2. QED
  BY <1>1, ZaImmer, PTL
-----------------------------------------------------------------------------
(***************************************************************************)
(* Reachability.  Erreichbar(ks, U) is the smallest set that holds U and   *)
(* the target of every connection that leaves it.                          *)
(***************************************************************************)

Nachfolger(ks, S) == {k.nach : k \in {j \in ks : j.von \in S}}

Geschlossen(ks, S) == \A k \in ks : k.von \in S => k.nach \in S

IstWeite(g, ks, U, m) == g = [i \in 0 .. m |-> IF i = 0 THEN U ELSE g[i - 1] \cup Nachfolger(ks, g[i - 1])]

LEMMA WeiteGibtEs == ASSUME NEW ks, NEW U, NEW m \in Nat PROVE \E g : IstWeite(g, ks, U, m)
<1> DEFINE Z == {n \in Nat : ~ \E g : IstWeite(g, ks, U, n)}
<1>1. Z = {}
  <2> SUFFICES ASSUME Z # {} PROVE FALSE
    OBVIOUS
  <2>1. PICK n \in Z : \A i \in Z : n <= i
    BY KleinsteZahl
  <2>2. n # 0
    <3> DEFINE g == [i \in 0 .. 0 |-> U]
    <3>1. IstWeite(g, ks, U, 0)
      BY DEF IstWeite
    <3>2. QED
      BY <3>1
  <2>3. n - 1 \in Nat /\ n - 1 \notin Z
    BY <2>1, <2>2
  <2>4. PICK g : IstWeite(g, ks, U, n - 1)
    BY <2>3
  <2> DEFINE h == [i \in 0 .. n |-> IF i = n THEN g[n - 1] \cup Nachfolger(ks, g[n - 1]) ELSE g[i]]
  <2>5. \A i \in 0 .. n : i # n => h[i] = g[i]
    OBVIOUS
  <2>6. ASSUME NEW i \in 0 .. n
        PROVE  h[i] = IF i = 0 THEN U ELSE h[i - 1] \cup Nachfolger(ks, h[i - 1])
    <3>1. i # 0 => i - 1 \in 0 .. n /\ i - 1 # n
      BY <2>6
    <3>2. i # 0 => h[i - 1] = g[i - 1]
      BY <2>5, <3>1
    <3>3. CASE i = n
      BY <3>2, <3>3, <2>2
    <3>4. CASE i # n
      <4>1. i \in 0 .. n - 1
        BY <3>4, <2>3
      <4>2. g[i] = IF i = 0 THEN U ELSE g[i - 1] \cup Nachfolger(ks, g[i - 1])
        BY <2>4, <4>1 DEF IstWeite
      <4>3. QED
        BY <4>2, <3>2, <3>4, <2>5
    <3>5. QED
      BY <3>3, <3>4
  <2>7. h = [i \in 0 .. n |-> h[i]]
    OBVIOUS
  <2> HIDE DEF h
  <2>8. h = [i \in 0 .. n |-> IF i = 0 THEN U ELSE h[i - 1] \cup Nachfolger(ks, h[i - 1])]
    BY <2>6, <2>7
  <2>9. QED
    BY <2>8 DEF IstWeite
<1>2. m \notin Z
  BY <1>1
<1>3. QED
  BY <1>2

LEMMA WeiteNull ==
  ASSUME NEW ks, NEW U, NEW m \in Nat, NEW g, IstWeite(g, ks, U, m)
  PROVE  g[0] = U
<1>1. 0 \in 0 .. m
  OBVIOUS
<1>2. QED
  BY <1>1 DEF IstWeite

LEMMA WeiteFolgt ==
  ASSUME NEW ks, NEW U, NEW m \in Nat, NEW g, IstWeite(g, ks, U, m), NEW n \in 1 .. m
  PROVE  n - 1 \in 0 .. m /\ g[n] = g[n - 1] \cup Nachfolger(ks, g[n - 1])
<1>1. n \in 0 .. m /\ n # 0 /\ n - 1 \in 0 .. m
  OBVIOUS
<1>2. g[n] = IF n = 0 THEN U ELSE g[n - 1] \cup Nachfolger(ks, g[n - 1])
  BY <1>1 DEF IstWeite
<1>3. QED
  BY <1>1, <1>2

\* Every round stays in every closed set.
LEMMA WeiteInGeschlossen ==
  ASSUME NEW ks, NEW U, NEW m \in Nat, NEW g, IstWeite(g, ks, U, m),
         NEW S, U \subseteq S, Geschlossen(ks, S), NEW n \in 0 .. m
  PROVE  g[n] \subseteq S
<1>0. g[0] = U
  BY WeiteNull
<1> DEFINE Z == {i \in 0 .. m : ~(g[i] \subseteq S)}
<1>1. Z = {}
  <2> SUFFICES ASSUME Z # {} PROVE FALSE
    OBVIOUS
  <2>1. PICK i \in Z : \A j \in Z : i <= j
    <3>1. Z \in SUBSET Nat
      OBVIOUS
    <3>2. QED
      BY <3>1, KleinsteZahl
  <2>2. i # 0
    BY <1>0
  <2>3. i \in 1 .. m /\ i - 1 \in 0 .. m /\ i - 1 \notin Z
    BY <2>1, <2>2
  <2>4. g[i] = g[i - 1] \cup Nachfolger(ks, g[i - 1]) /\ g[i - 1] \subseteq S
    BY <2>3, WeiteFolgt
  <2>5. Nachfolger(ks, g[i - 1]) \subseteq S
    BY <2>4 DEF Nachfolger, Geschlossen
  <2>6. QED
    BY <2>4, <2>5
<1>2. QED
  BY <1>1

\* A round is closed, or it has more members than its number.
LEMMA WeiteWaechst ==
  ASSUME NEW ks, NEW U, U # {}, NEW m \in Nat, NEW g, IstWeite(g, ks, U, m),
         NEW D, IsFiniteSet(D), U \subseteq D, Geschlossen(ks, D), NEW n \in 0 .. m
  PROVE  U \subseteq g[n] /\ (Geschlossen(ks, g[n]) \/ Cardinality(g[n]) > n)
<1>0. g[0] = U
  BY WeiteNull
<1> DEFINE Gut(i) == U \subseteq g[i] /\ (Geschlossen(ks, g[i]) \/ Cardinality(g[i]) > i)
           Z == {i \in 0 .. m : ~Gut(i)}
<1>1. Z = {}
  <2> SUFFICES ASSUME Z # {} PROVE FALSE
    OBVIOUS
  <2>1. PICK i \in Z : \A j \in Z : i <= j
    <3>1. Z \in SUBSET Nat
      OBVIOUS
    <3>2. QED
      BY <3>1, KleinsteZahl
  <2>2. i # 0
    <3>1. IsFiniteSet(U) /\ Cardinality(U) \in Nat /\ Cardinality(U) # 0
      BY FS_Subset, FS_EmptySet, FS_CardinalityType
    <3>2. QED
      BY <1>0, <2>1, <3>1
  <2>3. i \in 1 .. m /\ i - 1 \in 0 .. m /\ Gut(i - 1)
    BY <2>1, <2>2
  <2>4. g[i] = g[i - 1] \cup Nachfolger(ks, g[i - 1])
    BY <2>3, WeiteFolgt
  <2>5. CASE Geschlossen(ks, g[i - 1])
    <3>1. g[i] = g[i - 1]
      BY <2>4, <2>5 DEF Geschlossen, Nachfolger
    <3>2. QED
      BY <2>1, <2>3, <2>5, <3>1
  <2>6. CASE ~Geschlossen(ks, g[i - 1])
    <3>1. PICK x \in Nachfolger(ks, g[i - 1]) : x \notin g[i - 1]
      BY <2>6 DEF Geschlossen, Nachfolger
    <3>2. g[i] \subseteq D
      BY WeiteInGeschlossen
    <3>3. g[i - 1] \cup {x} \subseteq g[i] /\ g[i - 1] \subseteq D
      BY <2>4, <3>1, <3>2
    <3>4. IsFiniteSet(g[i]) /\ IsFiniteSet(g[i - 1])
      BY <3>2, <3>3, FS_Subset
    <3>5. /\ Cardinality(g[i - 1] \cup {x}) = Cardinality(g[i - 1]) + 1
          /\ IsFiniteSet(g[i - 1] \cup {x})
      BY <3>1, <3>4, FS_AddElement
    <3>6. Cardinality(g[i - 1] \cup {x}) <= Cardinality(g[i])
      BY <3>3, <3>4, FS_Subset
    <3>7. Cardinality(g[i]) \in Nat /\ Cardinality(g[i - 1]) \in Nat
      BY <3>4, FS_CardinalityType
    <3>8. Cardinality(g[i]) > i
      BY <2>3, <2>6, <3>5, <3>6, <3>7
    <3>9. QED
      BY <2>1, <2>3, <2>4, <3>8
  <2>7. QED
    BY <2>5, <2>6
<1>2. QED
  BY <1>1

\* ks connects elements.
Verbindungen(ks) == \A k \in ks : k.von \in Elemente /\ k.nach \in Elemente

LEMMA ErreichbarFakten ==
  ASSUME NEW ks, Verbindungen(ks), NEW U \in SUBSET Elemente
  PROVE  /\ U \subseteq Erreichbar(ks, U) /\ Erreichbar(ks, U) \subseteq Elemente
         /\ Geschlossen(ks, Erreichbar(ks, U))
         /\ \A S : U \subseteq S /\ Geschlossen(ks, S) => Erreichbar(ks, U) \subseteq S
<1> DEFINE m == Cardinality(Elemente)
           g == CHOOSE h : IstWeite(h, ks, U, m)
<1>1. m \in Nat /\ IsFiniteSet(Elemente)
  BY ZeitplanAnnahme, FS_CardinalityType
<1>2. Geschlossen(ks, Elemente)
  BY DEF Geschlossen, Verbindungen
<1>3. IstWeite(g, ks, U, m)
  BY <1>1, WeiteGibtEs
<1>4. Erreichbar(ks, U) = g[m]
  BY DEF Erreichbar, IstWeite, Nachfolger
<1> HIDE DEF g, m
<1>5. m \in 0 .. m
  BY <1>1
<1>6. \A S : U \subseteq S /\ Geschlossen(ks, S) => g[m] \subseteq S
  BY <1>1, <1>3, <1>5, WeiteInGeschlossen
<1>7. g[m] \subseteq Elemente
  BY <1>2, <1>6
<1>8. CASE U = {}
  <2>1. g[m] = {}
    BY <1>6, <1>8 DEF Geschlossen
  <2>2. QED
    BY <1>4, <1>8, <2>1 DEF Geschlossen
<1>9. CASE U # {}
  <2>1. U \subseteq g[m] /\ (Geschlossen(ks, g[m]) \/ Cardinality(g[m]) > m)
    BY <1>1, <1>2, <1>3, <1>5, <1>9, WeiteWaechst
  <2>2. IsFiniteSet(g[m]) /\ Cardinality(g[m]) <= m /\ Cardinality(g[m]) \in Nat
    BY <1>1, <1>7, FS_Subset, FS_CardinalityType DEF m
  <2>3. QED
    BY <1>1, <1>4, <1>6, <1>7, <2>1, <2>2
<1>10. QED
  BY <1>8, <1>9

-----------------------------------------------------------------------------
(***************************************************************************)
(* No circle, and the span of the phase.                                   *)
(***************************************************************************)

\* With one planner no more than one connection is checked at a time, and what its check
\* found is still so when it is inserted.
KreisGilt ==
  /\ da \subseteq Elemente /\ kanten \subseteq Kante /\ geprueft \subseteq Kante
  /\ IsFiniteSet(geprueft) /\ fremd \in Nat
  /\ planer = 1 => geprueft = {} \/ \E k : geprueft = {k}
  /\ fremd = 0 /\ planer = 1 => KeinKreis /\ \A k \in geprueft : ~WuerdeZyklus(Lebende, k)

LEMMA KanteFakten ==
  ASSUME NEW ks \in SUBSET Kante
  PROVE  /\ Verbindungen(ks)
         /\ \A k \in ks : k.art \in {"ende_anfang", "anfang_anfang", "ende_ende"} /\ k.versatz \in Int
  BY ZeitplanAnnahme DEF Verbindungen

\* Connections that were there before, or have the ends of one that was, close no circle.
LEMMA KreisErbt ==
  ASSUME KreisGilt, planer' = planer, fremd' \in Nat, fremd' = 0 => fremd = 0,
         da' \subseteq Elemente, kanten' \subseteq Kante,
         planer = 1 => geprueft' = {}, geprueft' \subseteq Kante, IsFiniteSet(geprueft'),
         fremd' = 0 => \A k \in Lebende' : \E j \in Lebende : j.von = k.von /\ j.nach = k.nach
  PROVE  KreisGilt'
<1>1. fremd' = 0 /\ planer = 1 => KeinKreis'
  <2>1. SUFFICES ASSUME fremd' = 0, planer = 1, NEW S \in (SUBSET Elemente) \ {{}}
                 PROVE  \E e \in S : \A k \in Lebende' : k.von = e => k.nach \notin S
    BY DEF KeinKreis
  <2>2. PICK e \in S : \A j \in Lebende : j.von = e => j.nach \notin S
    BY <2>1 DEF KreisGilt, KeinKreis
  <2>3. QED
    BY <2>1, <2>2
<1>2. QED
  BY <1>1 DEF KreisGilt

\* A connection whose check went before closes none.
LEMMA KreisWaechst ==
  ASSUME KeinKreis, da \subseteq Elemente, kanten \subseteq Kante, NEW k \in Kante, ~WuerdeZyklus(Lebende, k),
         da' = da, kanten' = kanten \cup {k}
  PROVE  KeinKreis'
<1>1. Verbindungen(Lebende)
  BY KanteFakten DEF Lebende, Verbindungen
<1>2. PICK R : R = Erreichbar(Lebende, {k.nach})
  OBVIOUS
<1>3. k.nach \in R /\ R \subseteq Elemente /\ Geschlossen(Lebende, R)
  <2>1. {k.nach} \in SUBSET Elemente
    BY ZeitplanAnnahme
  <2>2. QED
    BY <1>1, <1>2, <2>1, ErreichbarFakten
<1>4. k.von \notin R
  BY <1>2 DEF WuerdeZyklus
<1>5. SUFFICES ASSUME NEW S \in (SUBSET Elemente) \ {{}}
               PROVE  \E e \in S : \A j \in Lebende' : j.von = e => j.nach \notin S
  BY DEF KeinKreis
<1>6. \A j \in Lebende' : j \in Lebende \/ j = k
  BY DEF Lebende
<1>7. CASE k.nach \in S
  <2>1. S \cap R \in (SUBSET Elemente) \ {{}}
    BY <1>3, <1>7
  <2>2. PICK e \in S \cap R : \A j \in Lebende : j.von = e => j.nach \notin S \cap R
    BY <2>1 DEF KeinKreis
  <2>3. \A j \in Lebende : j.von = e => j.nach \notin S
    BY <1>3, <2>2 DEF Geschlossen
  <2>4. QED
    BY <1>4, <1>6, <2>2, <2>3
<1>8. CASE k.nach \notin S
  <2>1. PICK e \in S : \A j \in Lebende : j.von = e => j.nach \notin S
    BY DEF KeinKreis
  <2>2. QED
    BY <1>6, <1>8, <2>1
<1>9. QED
  BY <1>7, <1>8

LEMMA KreisStart == ZpInit => KreisGilt
<1> SUFFICES ASSUME ZpInit PROVE KreisGilt
  OBVIOUS
<1>1. KeinKreis
  <2>1. Lebende = {}
    BY DEF ZpInit, Lebende
  <2>2. \A S \in (SUBSET Elemente) \ {{}} : \E e \in S : TRUE
    OBVIOUS
  <2>3. QED
    BY <2>1, <2>2 DEF KeinKreis
<1>2. IsFiniteSet(geprueft)
  BY FS_EmptySet DEF ZpInit
<1>3. QED
  BY <1>1, <1>2 DEF ZpInit, KreisGilt

LEMMA KreisSchritt == KreisGilt /\ [ZpNext]_zpVars => KreisGilt'
<1> SUFFICES ASSUME KreisGilt, [ZpNext]_zpVars PROVE KreisGilt'
  OBVIOUS
<1> USE DEF KreisGilt
<1>1. ASSUME UNCHANGED <<da, kanten, planer, fremd, geprueft>> PROVE KreisGilt'
  BY <1>1 DEF KeinKreis, Lebende
<1>2. CASE UNCHANGED zpVars
  BY <1>1, <1>2 DEF zpVars
<1>3. ASSUME AndereAnfrage PROVE KreisGilt'
  <2>1. ASSUME geprueft' = geprueft, planer' = planer, fremd' = fremd,
               da' \subseteq da, kanten' \subseteq Kante,
               \A k \in kanten' : {k.von, k.nach} \subseteq da' =>
                 \E j \in kanten : j.von = k.von /\ j.nach = k.nach
        PROVE  KreisGilt'
    <3>1. \A k \in Lebende' : \E j \in Lebende : j.von = k.von /\ j.nach = k.nach
      BY <2>1 DEF Lebende
    <3>2. planer = 1 => geprueft = {}
      BY <1>3 DEF AndereAnfrage
    <3> HIDE DEF KreisGilt
    <3>3. QED
      BY <2>1, <3>1, <3>2, KreisErbt DEF KreisGilt
  <2>2. ASSUME Fremd, UNCHANGED <<planer, geprueft, kanten>>, da' \subseteq Elemente PROVE KreisGilt'
    <3>1. fremd' \in Nat /\ fremd' # 0
      BY <2>2 DEF Fremd
    <3>2. QED
      BY <2>2, <3>1
  <2>3. ASSUME NEW e \in Elemente, NEW neu, ElementAendern(e, neu) PROVE KreisGilt'
    BY <1>1, <2>3 DEF ElementAendern
  <2>4. ASSUME NEW e \in Elemente, PhaseWechseln(e) \/ ElementLoeschen(e) PROVE KreisGilt'
    BY <1>1, <2>1, <2>4 DEF PhaseWechseln, ElementLoeschen
  <2>5. ASSUME NEW e \in Elemente, NEW termin, BestellungVerknuepfen(e, termin) PROVE KreisGilt'
    BY <1>1, <2>5 DEF BestellungVerknuepfen
  <2>6. ASSUME NEW e \in Elemente, KanbanLoeschen(e) \/ Wiederherstellen(e) PROVE KreisGilt'
    BY <2>2, <2>6 DEF KanbanLoeschen, Wiederherstellen
  <2>7. ASSUME NEW tage \in {-1, 1}, PhaseVerschieben(tage) PROVE KreisGilt'
    BY <1>1, <2>7 DEF PhaseVerschieben
  <2>8. ASSUME NEW k \in kanten, KanteLoeschen(k) PROVE KreisGilt'
    <3>1. /\ geprueft' = geprueft /\ planer' = planer /\ fremd' = fremd /\ da' = da
          /\ kanten' = kanten \ {k}
      BY <2>8 DEF KanteLoeschen
    <3>2. QED
      BY <2>1, <3>1
  <2>9. ASSUME NEW k \in kanten, NEW neu \in Kante, KanteAendern(k, neu) PROVE KreisGilt'
    <3>1. /\ geprueft' = geprueft /\ planer' = planer /\ fremd' = fremd /\ da' = da
          /\ kanten' = (kanten \ {k}) \cup {neu} /\ neu.von = k.von /\ neu.nach = k.nach
      BY <2>9 DEF KanteAendern
    <3>2. QED
      BY <2>1, <3>1
  <2>10. ASSUME ModusSetzen \/ BestellungLoesen \/ \E wer \in {Elemente, inPhase} : Straffen(wer) PROVE KreisGilt'
    BY <1>1, <2>10 DEF ModusSetzen, BestellungLoesen, Straffen
  <2>11. ASSUME NEW termin, LieferterminAendern(termin) PROVE KreisGilt'
    BY <1>1, <2>11 DEF LieferterminAendern
  <2>12. ASSUME BestellungInDenPapierkorb PROVE KreisGilt'
    BY <2>2, <2>12 DEF BestellungInDenPapierkorb
  <2>13. QED
    BY <1>3, <2>3, <2>4, <2>5, <2>6, <2>7, <2>8, <2>9, <2>10, <2>11, <2>12 DEF AndereAnfrage
<1>4. ASSUME NEW k \in Kante, KantePruefen(k) PROVE KreisGilt'
  <2>1. /\ UNCHANGED <<da, kanten, planer, fremd>> /\ geprueft' = geprueft \cup {k}
        /\ Cardinality(geprueft) < planer /\ ~WuerdeZyklus(Lebende, k)
    BY <1>4 DEF KantePruefen, Lebende
  <2>2. planer = 1 => geprueft = {}
    <3>1. geprueft # {} => Cardinality(geprueft) \in Nat /\ Cardinality(geprueft) # 0
      BY FS_EmptySet, FS_CardinalityType
    <3>2. QED
      BY <2>1, <3>1
  <2>3. IsFiniteSet(geprueft')
    BY <2>1, FS_AddElement
  <2>4. (KeinKreis => KeinKreis') /\ (~WuerdeZyklus(Lebende, k) => ~WuerdeZyklus(Lebende, k)')
    BY <2>1 DEF KeinKreis, Lebende, WuerdeZyklus
  <2>5. QED
    BY <2>1, <2>2, <2>3, <2>4
<1>5. ASSUME NEW k \in Kante, KanteAnlegen(k) PROVE KreisGilt'
  <2>1. /\ UNCHANGED <<da, planer, fremd>> /\ k \in geprueft /\ geprueft' = geprueft \ {k}
        /\ kanten' = kanten \cup {k}
    BY <1>5 DEF KanteAnlegen
  <2>2. IsFiniteSet(geprueft')
    BY <2>1, FS_RemoveElement
  <2>3. planer = 1 => geprueft' = {}
    BY <2>1
  <2>4. fremd = 0 /\ planer = 1 => KeinKreis'
    BY <2>1, KreisWaechst
  <2>5. QED
    BY <2>1, <2>2, <2>3, <2>4
<1>6. ASSUME NEW k \in Kante, KanteScheitert(k) PROVE KreisGilt'
  <2>1. /\ UNCHANGED <<da, planer, fremd, kanten>> /\ k \in geprueft /\ geprueft' = geprueft \ {k}
    BY <1>6 DEF KanteScheitert
  <2>2. IsFiniteSet(geprueft')
    BY <2>1, FS_RemoveElement
  <2>3. planer = 1 => geprueft' = {}
    BY <2>1
  <2>4. KeinKreis => KeinKreis'
    BY <2>1 DEF KeinKreis, Lebende
  <2>5. QED
    BY <2>1, <2>2, <2>3, <2>4
<1>7. QED
  BY <1>2, <1>3, <1>4, <1>5, <1>6 DEF ZpNext

-----------------------------------------------------------------------------
(***************************************************************************)
(* Recursion along connections.  The dates are computed by functions that  *)
(* refer to themselves at the other end of a connection.  Where these      *)
(* close no circle such a function exists, and is what its definition      *)
(* says.                                                                   *)
(***************************************************************************)

\* In every part of B something is the target of no connection from within the part.
Azyklisch(ks, B) == \A S \in (SUBSET B) \ {{}} : \E e \in S : \A k \in ks : k.nach = e => k.von \notin S

Umgekehrt(ks) == {[von |-> k.nach, nach |-> k.von] : k \in ks}

\* F gives the value of a row from a function, and looks only at the rows before.
Rekursiv(ks, B, V, F) ==
  /\ F \in [B -> [[B -> V] -> V]]
  /\ \A n \in B : \A f, g \in [B -> V] :
       (\A k \in ks : k.nach = n /\ k.von \in B => f[k.von] = g[k.von]) => F[n][f] = F[n][g]
Loesbar(B, V, F) == \E z \in [B -> V] : \A n \in B : z[n] = F[n][z]

LEMMA RekursionGibtEs ==
  ASSUME NEW ks, NEW B, IsFiniteSet(B), Azyklisch(ks, B), NEW V, V # {}, NEW F, Rekursiv(ks, B, V, F)
  PROVE  Loesbar(B, V, F)
<1> USE DEF Rekursiv, Loesbar
<1> DEFINE Unten(D) == \A k \in ks : k.nach \in D /\ k.von \in B => k.von \in D
           Gut(D) == Unten(D) /\ \E z \in [B -> V] : \A n \in D : z[n] = F[n][z]
           Z == {c \in Nat : \E D \in SUBSET B : Gut(D) /\ c = Cardinality(B \ D)}
<1>1. Gut({})
  <2>1. PICK v \in V : TRUE
    OBVIOUS
  <2>2. [n \in B |-> v] \in [B -> V]
    OBVIOUS
  <2>3. QED
    BY <2>2
<1>2. \A D \in SUBSET B : IsFiniteSet(B \ D) /\ Cardinality(B \ D) \in Nat
  BY FS_Subset, FS_CardinalityType
<1>3. Z # {}
  BY <1>1, <1>2
<1>4. PICK c \in Z : \A d \in Z : c <= d
  <2>1. Z \in SUBSET Nat
    OBVIOUS
  <2> HIDE DEF Z
  <2>2. QED
    BY <1>3, <2>1, KleinsteZahl
<1>5. PICK D \in SUBSET B : Gut(D) /\ c = Cardinality(B \ D)
  BY <1>4
<1>6. PICK z \in [B -> V] : \A n \in D : z[n] = F[n][z]
  BY <1>5
<1>7. D = B
  <2>1. SUFFICES ASSUME B \ D # {} PROVE FALSE
    OBVIOUS
  <2>2. PICK e \in B \ D : \A k \in ks : k.nach = e => k.von \notin B \ D
    BY <2>1 DEF Azyklisch
  <2>3. PICK E : E = D \cup {e}
    OBVIOUS
  <2>4. PICK h : h = [z EXCEPT ![e] = F[e][z]]
    OBVIOUS
  <2>5. F[e][z] \in V
    OBVIOUS
  <2>6. h \in [B -> V] /\ h[e] = F[e][z] /\ \A x \in B : x # e => h[x] = z[x]
    BY <2>4, <2>5
  <2>7. Unten(E)
    BY <1>5, <2>2, <2>3
  <2>8. \A n \in E : h[n] = F[n][h]
    <3>1. ASSUME NEW n \in E PROVE F[n][h] = F[n][z]
      <4>1. \A k \in ks : k.nach = n /\ k.von \in B => k.von \in D
        BY <1>5, <2>2, <2>3
      <4>2. \A k \in ks : k.nach = n /\ k.von \in B => h[k.von] = z[k.von]
        BY <4>1, <2>2, <2>6
      <4>3. n \in B
        BY <2>3
      <4>4. QED
        BY <4>2, <4>3, <2>6
    <3>2. QED
      BY <1>6, <2>2, <2>3, <2>6, <3>1
  <2>9. Gut(E) /\ E \in SUBSET B
    BY <2>3, <2>6, <2>7, <2>8
  <2>10. Cardinality(B \ E) \in Z
    BY <1>2, <2>9
  <2>11. Cardinality(B \ E) = Cardinality(B \ D) - 1
    <3>1. PICK R : R = B \ D
      OBVIOUS
    <3>2. IsFiniteSet(R) /\ e \in R
      BY <1>2, <3>1
    <3>3. Cardinality(R \ {e}) = Cardinality(R) - 1
      BY <3>2, FS_RemoveElement
    <3>4. B \ E = R \ {e}
      BY <2>3, <3>1
    <3>5. QED
      BY <3>1, <3>3, <3>4
  <2> HIDE DEF Z
  <2>12. c <= Cardinality(B \ E)
    BY <1>4, <2>10
  <2>13. c = Cardinality(B \ D) /\ c \in Nat
    BY <1>2, <1>5
  <2>14. QED
    BY <2>11, <2>12, <2>13
<1>8. QED
  BY <1>6, <1>7

\* A connection that is in no circle leads from what reaches more to what reaches less.
LEMMA KanteVerengt ==
  ASSUME NEW ks, Verbindungen(ks), NEW k \in ks, k.von \notin ImKreis(ks)
  PROVE  Cardinality(Erreichbar(ks, {k.nach})) < Cardinality(Erreichbar(ks, {k.von}))
<1>1. k.von \in Elemente /\ k.nach \in Elemente
  BY DEF Verbindungen
<1>2. k.von \notin Erreichbar(ks, {k.nach})
  BY <1>1 DEF ImKreis
<1>3. PICK U : U = Erreichbar(ks, {k.von})
  OBVIOUS
<1>4. PICK W : W = Erreichbar(ks, {k.nach})
  OBVIOUS
<1>5. k.von \in U /\ U \subseteq Elemente /\ Geschlossen(ks, U)
  BY <1>1, <1>3, ErreichbarFakten
<1>6. W \subseteq U
  <2>1. {k.nach} \subseteq U /\ {k.nach} \in SUBSET Elemente
    BY <1>1, <1>5 DEF Geschlossen
  <2>2. QED
    BY <1>4, <1>5, <2>1, ErreichbarFakten
<1>7. IsFiniteSet(U)
  BY <1>5, FS_Subset, ZeitplanAnnahme
<1>8. IsFiniteSet(W) /\ Cardinality(W) <= Cardinality(U) /\ (Cardinality(W) = Cardinality(U) => W = U)
  BY <1>6, <1>7, FS_Subset
<1>9. Cardinality(U) \in Nat /\ Cardinality(W) \in Nat
  BY <1>7, <1>8, FS_CardinalityType
<1>10. QED
  BY <1>2, <1>3, <1>4, <1>5, <1>8, <1>9

LEMMA OhneKreisAzyklisch ==
  ASSUME NEW ks, Verbindungen(ks), NEW B \in SUBSET Elemente, ImKreis(ks) \cap B = {}
  PROVE  Azyklisch(ks, B) /\ Azyklisch(Umgekehrt(ks), B)
<1> DEFINE weite(x) == Cardinality(Erreichbar(ks, {x}))
           m == Cardinality(Elemente)
<1>1. m \in Nat /\ \A x \in Elemente : weite(x) \in Nat /\ weite(x) <= m
  <2>1. \A x \in Elemente : Erreichbar(ks, {x}) \subseteq Elemente
    BY ErreichbarFakten
  <2>2. QED
    BY <2>1, ZeitplanAnnahme, FS_Subset, FS_CardinalityType
<1>2. \A k \in ks : k.von \in B => weite(k.nach) < weite(k.von)
  BY KanteVerengt
<1> HIDE DEF weite, m
<1>3. ASSUME NEW S \in (SUBSET B) \ {{}} PROVE \E e \in S : \A k \in ks : k.nach = e => k.von \notin S
  <2> DEFINE Z == {m - weite(x) : x \in S}
  <2>1. Z \in SUBSET Nat /\ Z # {}
    BY <1>1
  <2> HIDE DEF Z
  <2>2. PICK n \in Z : \A d \in Z : n <= d
    BY <2>1, KleinsteZahl
  <2>3. PICK x \in S : n = m - weite(x)
    BY DEF Z
  <2>4. \A y \in S : weite(y) <= weite(x)
    BY <1>1, <2>2, <2>3 DEF Z
  <2>5. \A k \in ks : k.nach = x => k.von \notin S
    BY <1>1, <1>2, <2>4 DEF Verbindungen
  <2>6. QED
    BY <2>5
<1>4. ASSUME NEW S \in (SUBSET B) \ {{}} PROVE \E e \in S : \A k \in ks : k.von = e => k.nach \notin S
  <2> DEFINE Z == {weite(x) : x \in S}
  <2>1. Z \in SUBSET Nat /\ Z # {}
    BY <1>1
  <2> HIDE DEF Z
  <2>2. PICK n \in Z : \A d \in Z : n <= d
    BY <2>1, KleinsteZahl
  <2>3. PICK x \in S : n = weite(x)
    BY DEF Z
  <2>4. \A y \in S : weite(x) <= weite(y)
    BY <2>2, <2>3 DEF Z
  <2>5. \A k \in ks : k.von = x => k.nach \notin S
    BY <1>1, <1>2, <2>4 DEF Verbindungen
  <2>6. QED
    BY <2>5
<1>5. Azyklisch(Umgekehrt(ks), B)
  <2>1. SUFFICES ASSUME NEW S \in (SUBSET B) \ {{}}
                 PROVE  \E e \in S : \A k \in Umgekehrt(ks) : k.nach = e => k.von \notin S
    BY DEF Azyklisch
  <2>2. PICK e \in S : \A k \in ks : k.von = e => k.nach \notin S
    BY <1>4
  <2>3. \A k \in Umgekehrt(ks) : k.nach = e => k.von \notin S
    BY <2>2 DEF Umgekehrt
  <2>4. QED
    BY <2>3
<1>6. QED
  BY <1>3, <1>5 DEF Azyklisch

-----------------------------------------------------------------------------
(***************************************************************************)
(* Dates.                                                                  *)
(***************************************************************************)

LEMMA BildEndlich ==
  ASSUME NEW S, IsFiniteSet(S), NEW f
  PROVE  IsFiniteSet({f[x] : x \in S})
<1> DEFINE T == {f[x] : x \in S}
           g == [x \in S |-> f[x]]
<1>1. g \in Surjection(S, T)
  BY DEF Surjection
<1>2. QED
  BY <1>1, FS_Surjection

LEMMA MaxFakten ==
  ASSUME NEW S \in SUBSET Int, IsFiniteSet(S), S # {}
  PROVE  Max(S) \in S /\ \A y \in S : Max(S) >= y
<1> DEFINE Hoeher(x) == {y \in S : y > x}
           Z == {Cardinality(Hoeher(x)) : x \in S}
<1>1. \A x \in S : IsFiniteSet(Hoeher(x)) /\ Cardinality(Hoeher(x)) \in Nat
  BY FS_Subset, FS_CardinalityType
<1>2. PICK x \in S : \A y \in S : Cardinality(Hoeher(x)) <= Cardinality(Hoeher(y))
  <2>1. Z \in SUBSET Nat /\ Z # {}
    BY <1>1
  <2> HIDE DEF Hoeher
  <2>2. PICK n \in Z : \A m \in Z : n <= m
    <3> HIDE DEF Z
    <3>1. QED
      BY <2>1, KleinsteZahl
  <2>3. QED
    BY <2>2
<1>3. ASSUME NEW y \in S PROVE x >= y
  <2>1. SUFFICES ASSUME y > x PROVE FALSE
    OBVIOUS
  <2>2. Hoeher(y) \subseteq Hoeher(x) /\ y \in Hoeher(x) /\ y \notin Hoeher(y)
    <3>1. x \in Int /\ \A w \in S : w \in Int /\ (w > y => w > x) /\ ~(y > y)
      BY <2>1
    <3>2. QED
      BY <2>1, <3>1
  <2> HIDE DEF Hoeher
  <2>3. Cardinality(Hoeher(y)) <= Cardinality(Hoeher(x)) /\ Cardinality(Hoeher(y)) # Cardinality(Hoeher(x))
    BY <1>1, <2>2, FS_Subset
  <2>4. QED
    BY <1>1, <1>2, <2>3
<1>4. QED
  BY <1>3 DEF Max

LEMMA MinFakten ==
  ASSUME NEW S \in SUBSET Int, IsFiniteSet(S), S # {}
  PROVE  Min(S) \in S /\ \A y \in S : Min(S) <= y
<1> DEFINE T == {-y : y \in S}
<1>1. T \in SUBSET Int /\ T # {}
  <2>1. \A y \in S : -y \in Int
    OBVIOUS
  <2>2. QED
    BY <2>1
<1>2. IsFiniteSet(T)
  <2> DEFINE f == [y \in S |-> -y]
  <2>1. T = {f[y] : y \in S}
    OBVIOUS
  <2> HIDE DEF T, f
  <2>2. QED
    BY <2>1, BildEndlich
<1> HIDE DEF T
<1>3. PICK t \in T : \A y \in T : t >= y
  BY <1>1, <1>2, MaxFakten
<1>4. PICK x \in S : t = -x
  BY DEF T
<1>5. ASSUME NEW y \in S PROVE x <= y
  <2>1. -y \in T
    BY DEF T
  <2>2. -x >= -y
    BY <1>3, <1>4, <2>1
  <2>3. QED
    BY <2>2
<1>6. QED
  BY <1>5 DEF Min

Daten == {z \in [start : Int, ende : Int] : z.start <= z.ende}

LEMMA DatenFakten ==
  /\ Undatiert \notin Daten /\ Zeitraum \subseteq Daten
  /\ \A z \in Daten : z = [start |-> z.start, ende |-> z.ende] /\ z.start \in Int /\ z.ende \in Int /\ z.start <= z.ende
  /\ \A z \in Daten, t \in Int : /\ Geschoben(z, t) \in Daten
                                 /\ Geschoben(z, t).start = z.start + t /\ Geschoben(z, t).ende = z.ende + t
<1>1. Undatiert.start = Ohne
  BY DEF Undatiert
<1>2. Undatiert \notin Daten
  BY <1>1, ZeitplanAnnahme DEF Daten
<1>3. Zeitraum \subseteq Daten
  BY ZeitplanAnnahme DEF Zeitraum, Daten
<1>4. \A z \in Daten : z = [start |-> z.start, ende |-> z.ende] /\ z.start \in Int /\ z.ende \in Int /\ z.start <= z.ende
  BY DEF Daten
<1>5. ASSUME NEW z \in Daten, NEW t \in Int
      PROVE  /\ Geschoben(z, t) \in Daten
             /\ Geschoben(z, t).start = z.start + t /\ Geschoben(z, t).ende = z.ende + t
  BY <1>4 DEF Geschoben, Daten
<1>6. QED
  BY <1>2, <1>3, <1>4, <1>5

LEMMA VerletzungFakten ==
  ASSUME NEW k \in Kante, NEW v \in Daten, NEW n \in Daten
  PROVE  /\ Verletzung(v, n, k) \in Int
         /\ \A t \in Int : Verletzung(v, Geschoben(n, t), k) = Verletzung(v, n, k) - t
<1>1. k.versatz \in Int
  BY KanteFakten
<1>2. v.start \in Int /\ v.ende \in Int /\ n.start \in Int /\ n.ende \in Int
  BY DatenFakten
<1>3. FruehesterStart(v, k.von, k.versatz) \in Int
  BY <1>1, <1>2 DEF FruehesterStart
<1>4. ASSUME NEW t \in Int PROVE Geschoben(n, t).start = n.start + t /\ Geschoben(n, t).ende = n.ende + t
  BY DatenFakten
<1> HIDE DEF FruehesterStart
<1>5. QED
  BY <1>1, <1>2, <1>3, <1>4 DEF Verletzung

-----------------------------------------------------------------------------
(***************************************************************************)
(* propagiere().  Zug is one row of it, with z for the rows before; the    *)
(* names of its parts are those of Nachgezogen.                            *)
(***************************************************************************)

Ein(aktiv, n) == {k \in aktiv : k.nach = n}
Lage(p, B, z, v) == IF v \in B THEN z[v].lage ELSE p[v]
Mitgenommen(p, aktiv, B, z, n) ==
  LET ein == {k \in aktiv : k.nach = n}
      bewegt == {k \in ein : k.von \in B}
  IN IF modus = "immer" /\ bewegt # {}
       THEN Geschoben(p[n], Max({IF k.art = "anfang_anfang" THEN z[k.von].start ELSE z[k.von].ende : k \in bewegt}))
       ELSE p[n]
Noetig(p, aktiv, B, z, n) ==
  Max({0} \cup {Verletzung(Lage(p, B, z, k.von), Mitgenommen(p, aktiv, B, z, n), k) : k \in Ein(aktiv, n)})
NeueLage(p, aktiv, B, z, n) == Geschoben(Mitgenommen(p, aktiv, B, z, n), Noetig(p, aktiv, B, z, n))
Zug(p, aktiv, ausgang, fest, B, z, n) ==
  IF n \in DOMAIN ausgang
    THEN [lage |-> p[n], start |-> ausgang[n].start, ende |-> ausgang[n].ende]
  ELSE IF n \in fest THEN [lage |-> p[n], start |-> 0, ende |-> 0]
  ELSE [lage |-> NeueLage(p, aktiv, B, z, n), start |-> NeueLage(p, aktiv, B, z, n).start - p[n].start,
        ende |-> NeueLage(p, aktiv, B, z, n).ende - p[n].ende]

IstZug(p, aktiv, ausgang, fest, B, z) == z = [n \in B |-> Zug(p, aktiv, ausgang, fest, B, z, n)]

DerZug(p, aktiv, ausgang, fest, B) == CHOOSE z : IstZug(p, aktiv, ausgang, fest, B, z)

LEMMA NachgezogenHeisst ==
  ASSUME NEW p, NEW aktiv, NEW ausgang, NEW erzwinge, NEW fest
  PROVE  LET B == Erreichbar(aktiv, DOMAIN ausgang \cup erzwinge)
         IN  Nachgezogen(p, aktiv, ausgang, erzwinge, fest) =
             [e \in Elemente |-> Lage(p, B, DerZug(p, aktiv, ausgang, fest, B), e)]
  BY DEF Nachgezogen, DerZug, IstZug, Zug, NeueLage, Noetig, Mitgenommen, Lage, Ein

\* The rows that may move, and what is given for them.
Zuglage(p, aktiv, ausgang, B) ==
  /\ aktiv \in SUBSET Kante /\ IsFiniteSet(aktiv)
  /\ B \in SUBSET Elemente /\ Azyklisch(aktiv, B)
  /\ \A k \in aktiv : p[k.von] \in Daten /\ p[k.nach] \in Daten
  /\ \A n \in B : p[n] \in Daten
  /\ \A n \in B \cap DOMAIN ausgang : ausgang[n].start \in Int /\ ausgang[n].ende \in Int

ZugTyp == [lage : Daten, start : Int, ende : Int]

\* The lage of a row follows from the rows before: it stays, or moves as far as it has to.
Gezogen(p, aktiv, ausgang, fest, B, z, n) ==
  LET neu == Zug(p, aktiv, ausgang, fest, B, z, n).lage
  IN /\ n \in DOMAIN ausgang \cup fest => neu = p[n]
     /\ n \notin DOMAIN ausgang \cup fest =>
          \E t \in Int :
            /\ neu = Geschoben(p[n], t)
            /\ \A k \in Ein(aktiv, n) : Verletzung(Lage(p, B, z, k.von), neu, k) <= 0
            /\ modus # "immer" => t >= 0
            /\ modus # "immer" /\ t > 0 =>
                 \E k \in Ein(aktiv, n) : t = Verletzung(Lage(p, B, z, k.von), p[n], k)

LEMMA ZugSchritt ==
  ASSUME NEW p, NEW aktiv, NEW ausgang, NEW fest, NEW B, NEW z, Zuglage(p, aktiv, ausgang, B), NEW n \in B,
         \A k \in aktiv : k.nach = n /\ k.von \in B => z[k.von] \in ZugTyp
  PROVE  Zug(p, aktiv, ausgang, fest, B, z, n) \in ZugTyp /\ Gezogen(p, aktiv, ausgang, fest, B, z, n)
<1>1. p[n] \in Daten /\ \A k \in Ein(aktiv, n) : k \in Kante /\ Lage(p, B, z, k.von) \in Daten
  BY DEF Zuglage, Ein, Lage, ZugTyp
<1>2. IsFiniteSet(Ein(aktiv, n))
  BY FS_Subset DEF Zuglage, Ein
<1>3. PICK m : m = Mitgenommen(p, aktiv, B, z, n)
  OBVIOUS
<1>4. PICK s \in Int : m = Geschoben(p[n], s) /\ (modus # "immer" => s = 0)
  <2> DEFINE bewegt == {k \in {j \in aktiv : j.nach = n} : k.von \in B}
             f == [k \in bewegt |-> IF k.art = "anfang_anfang" THEN z[k.von].start ELSE z[k.von].ende]
             M == {IF k.art = "anfang_anfang" THEN z[k.von].start ELSE z[k.von].ende : k \in bewegt}
  <2>1. CASE modus = "immer" /\ bewegt # {}
    <3>1. M = {f[k] : k \in bewegt}
      OBVIOUS
    <3>2. IsFiniteSet(bewegt)
      BY FS_Subset DEF Zuglage
    <3>3. M \in SUBSET Int /\ M # {}
      <4>1. \A k \in bewegt : z[k.von].start \in Int /\ z[k.von].ende \in Int
        BY DEF ZugTyp
      <4>2. QED
        BY <2>1, <4>1
    <3>4. m = Geschoben(p[n], Max(M))
      BY <1>3, <2>1 DEF Mitgenommen
    <3> HIDE DEF M, f, bewegt
    <3>5. IsFiniteSet(M)
      BY <3>1, <3>2, BildEndlich
    <3>6. Max(M) \in Int
      BY <3>3, <3>5, MaxFakten
    <3>7. QED
      BY <2>1, <3>4, <3>6
  <2>2. CASE ~(modus = "immer" /\ bewegt # {})
    <3>1. m = p[n]
      BY <1>3, <2>2 DEF Mitgenommen
    <3>2. p[n] = Geschoben(p[n], 0)
      BY <1>1, DatenFakten DEF Geschoben
    <3>3. CASE modus = "immer"
      BY <3>1, <3>2, <3>3
    <3>4. CASE modus # "immer"
      BY <3>1, <3>2, <3>4
    <3>5. QED
      BY <3>3, <3>4
  <2>3. QED
    BY <2>1, <2>2
<1>5. m \in Daten
  BY <1>1, <1>4, DatenFakten
<1>6. PICK V : V = {Verletzung(Lage(p, B, z, k.von), m, k) : k \in Ein(aktiv, n)}
  OBVIOUS
<1>7. V \in SUBSET Int /\ IsFiniteSet({0} \cup V)
  <2>1. \A k \in Ein(aktiv, n) : Verletzung(Lage(p, B, z, k.von), m, k) \in Int
    BY <1>1, <1>5, VerletzungFakten
  <2> DEFINE f == [k \in Ein(aktiv, n) |-> Verletzung(Lage(p, B, z, k.von), m, k)]
  <2>2. V = {f[k] : k \in Ein(aktiv, n)}
    BY <1>6
  <2> HIDE DEF f
  <2>3. IsFiniteSet(V)
    BY <1>2, <2>2, BildEndlich
  <2>4. IsFiniteSet({0})
    BY FS_Singleton
  <2>5. QED
    BY <1>6, <2>1, <2>3, <2>4, FS_Union
<1>8. PICK r : r = Noetig(p, aktiv, B, z, n)
  OBVIOUS
<1>9. r \in {0} \cup V /\ r \in Int /\ r >= 0 /\ \A v \in V : r >= v
  <2>1. r = Max({0} \cup V)
    BY <1>3, <1>6, <1>8 DEF Noetig
  <2>2. {0} \cup V \in SUBSET Int /\ {0} \cup V # {}
    BY <1>7
  <2>3. QED
    BY <1>7, <2>1, <2>2, MaxFakten
<1>10. PICK neu : neu = NeueLage(p, aktiv, B, z, n)
  OBVIOUS
<1>11. neu = Geschoben(m, r) /\ neu \in Daten
  BY <1>3, <1>5, <1>8, <1>9, <1>10, DatenFakten DEF NeueLage
<1>12. neu = Geschoben(p[n], s + r)
  <2>1. neu = [start |-> neu.start, ende |-> neu.ende] /\ neu.start = m.start + r /\ neu.ende = m.ende + r
    BY <1>5, <1>9, <1>11, DatenFakten
  <2>2. m.start = p[n].start + s /\ m.ende = p[n].ende + s
    BY <1>1, <1>4, DatenFakten
  <2>3. p[n].start \in Int /\ p[n].ende \in Int
    BY <1>1, DatenFakten
  <2>4. neu.start = p[n].start + (s + r) /\ neu.ende = p[n].ende + (s + r)
    BY <1>4, <1>9, <2>1, <2>2, <2>3
  <2>5. QED
    BY <2>1, <2>4 DEF Geschoben
<1>13. \A k \in Ein(aktiv, n) : Verletzung(Lage(p, B, z, k.von), neu, k) <= 0
  <2> SUFFICES ASSUME NEW k \in Ein(aktiv, n) PROVE Verletzung(Lage(p, B, z, k.von), neu, k) <= 0
    OBVIOUS
  <2>1. PICK w : w = Verletzung(Lage(p, B, z, k.von), m, k)
    OBVIOUS
  <2>2. Verletzung(Lage(p, B, z, k.von), neu, k) = w - r
    BY <1>1, <1>5, <1>9, <1>11, <2>1, VerletzungFakten
  <2>3. w \in V
    BY <1>6, <2>1
  <2>4. w \in Int /\ r >= w
    BY <1>7, <1>9, <2>3
  <2>5. QED
    BY <1>9, <2>2, <2>4
<1>14. CASE n \in DOMAIN ausgang
  <2>1. Zug(p, aktiv, ausgang, fest, B, z, n) = [lage |-> p[n], start |-> ausgang[n].start, ende |-> ausgang[n].ende]
    BY <1>14 DEF Zug
  <2>2. ausgang[n].start \in Int /\ ausgang[n].ende \in Int
    BY <1>14 DEF Zuglage
  <2>3. QED
    BY <1>1, <1>14, <2>1, <2>2 DEF ZugTyp, Gezogen
<1>15. CASE n \notin DOMAIN ausgang /\ n \in fest
  <2>1. Zug(p, aktiv, ausgang, fest, B, z, n) = [lage |-> p[n], start |-> 0, ende |-> 0]
    BY <1>15 DEF Zug
  <2>2. QED
    BY <1>1, <1>15, <2>1 DEF ZugTyp, Gezogen
<1>16. CASE n \notin DOMAIN ausgang /\ n \notin fest
  <2>1. Zug(p, aktiv, ausgang, fest, B, z, n) =
          [lage |-> neu, start |-> neu.start - p[n].start, ende |-> neu.ende - p[n].ende]
    BY <1>10, <1>16 DEF Zug
  <2>2. Zug(p, aktiv, ausgang, fest, B, z, n) \in ZugTyp
    <3>1. neu.start - p[n].start \in Int /\ neu.ende - p[n].ende \in Int
      <4>1. neu.start \in Int /\ neu.ende \in Int /\ p[n].start \in Int /\ p[n].ende \in Int
        BY <1>1, <1>11, DatenFakten
      <4>2. QED
        BY <4>1
    <3>2. QED
      BY <1>11, <2>1, <3>1 DEF ZugTyp
  <2>3. Zug(p, aktiv, ausgang, fest, B, z, n).lage = neu
    BY <2>1
  <2>4. s + r \in Int /\ (modus # "immer" => s + r >= 0)
    BY <1>4, <1>9
  <2>5. ASSUME modus # "immer", s + r > 0
        PROVE  \E k \in Ein(aktiv, n) : s + r = Verletzung(Lage(p, B, z, k.von), p[n], k)
    <3>1. s = 0 /\ m = p[n] /\ r # 0
      <4>1. s = 0 /\ r # 0
        BY <1>4, <2>5
      <4>2. QED
        BY <1>1, <1>4, <4>1, DatenFakten DEF Geschoben
    <3>2. r \in V
      BY <1>9, <3>1
    <3>3. PICK k \in Ein(aktiv, n) : r = Verletzung(Lage(p, B, z, k.von), m, k)
      BY <1>6, <3>2
    <3>4. QED
      BY <1>9, <3>1, <3>3
  <2>6. QED
    BY <1>12, <1>13, <1>16, <2>2, <2>3, <2>4, <2>5 DEF Gezogen
<1>17. QED
  BY <1>14, <1>15, <1>16

\* Only the rows before matter.
LEMMA ZugGleich ==
  ASSUME NEW p, NEW aktiv, NEW ausgang, NEW fest, NEW B, NEW z, NEW h, NEW n,
         \A k \in aktiv : k.nach = n /\ k.von \in B => z[k.von] = h[k.von]
  PROVE  Zug(p, aktiv, ausgang, fest, B, z, n) = Zug(p, aktiv, ausgang, fest, B, h, n)
<1>1. Mitgenommen(p, aktiv, B, z, n) = Mitgenommen(p, aktiv, B, h, n)
  <2> DEFINE bewegt == {k \in {j \in aktiv : j.nach = n} : k.von \in B}
  <2>1. {IF k.art = "anfang_anfang" THEN z[k.von].start ELSE z[k.von].ende : k \in bewegt} =
        {IF k.art = "anfang_anfang" THEN h[k.von].start ELSE h[k.von].ende : k \in bewegt}
    <3>1. \A k \in bewegt : z[k.von] = h[k.von]
      OBVIOUS
    <3> HIDE DEF bewegt
    <3>2. QED
      BY <3>1
  <2>2. QED
    BY <2>1 DEF Mitgenommen
<1>2. \A k \in Ein(aktiv, n) : Lage(p, B, z, k.von) = Lage(p, B, h, k.von)
  BY DEF Ein, Lage
<1>3. Noetig(p, aktiv, B, z, n) = Noetig(p, aktiv, B, h, n)
  <2>1. PICK m : m = Mitgenommen(p, aktiv, B, z, n)
    OBVIOUS
  <2>2. {Verletzung(Lage(p, B, z, k.von), m, k) : k \in Ein(aktiv, n)} =
        {Verletzung(Lage(p, B, h, k.von), m, k) : k \in Ein(aktiv, n)}
    BY <1>2
  <2>3. QED
    BY <1>1, <2>1, <2>2 DEF Noetig
<1>4. QED
  BY <1>1, <1>3 DEF Zug, NeueLage

\* Where no circle is ahead, the function of propagiere() exists, and every row is drawn.
LEMMA ZugGibtEs ==
  ASSUME NEW p, NEW aktiv, NEW ausgang, NEW fest, NEW B, Zuglage(p, aktiv, ausgang, B)
  PROVE  \E z \in [B -> ZugTyp] : IstZug(p, aktiv, ausgang, fest, B, z)
<1> DEFINE G(n, z) == Zug(p, aktiv, ausgang, fest, B, z, n)
           F == [n \in B |-> [z \in [B -> ZugTyp] |-> G(n, z)]]
<1>1. \A n \in B, z \in [B -> ZugTyp] : G(n, z) \in ZugTyp
  BY ZugSchritt
<1>2. \A n \in B : \A f, g \in [B -> ZugTyp] :
        (\A k \in aktiv : k.nach = n /\ k.von \in B => f[k.von] = g[k.von]) => G(n, f) = G(n, g)
  BY ZugGleich
<1> HIDE DEF G
<1>3. /\ F \in [B -> [[B -> ZugTyp] -> ZugTyp]]
      /\ \A n \in B, z \in [B -> ZugTyp] : F[n][z] = G(n, z)
  BY <1>1
<1> HIDE DEF F
<1>4. ZugTyp # {}
  <2>1. [start |-> 0, ende |-> 0] \in Daten
    BY DEF Daten
  <2>2. [lage |-> [start |-> 0, ende |-> 0], start |-> 0, ende |-> 0] \in ZugTyp
    BY <2>1 DEF ZugTyp
  <2>3. QED
    BY <2>2
<1>5. IsFiniteSet(B) /\ Azyklisch(aktiv, B)
  BY FS_Subset, ZeitplanAnnahme DEF Zuglage
<1>6. PICK z \in [B -> ZugTyp] : \A n \in B : z[n] = F[n][z]
  <2>1. Rekursiv(aktiv, B, ZugTyp, F)
    <3>1. F \in [B -> [[B -> ZugTyp] -> ZugTyp]]
      BY <1>3
    <3>2. \A n \in B, f \in [B -> ZugTyp] : F[n][f] = G(n, f)
      BY <1>3
    <3> HIDE DEF ZugTyp
    <3>3. \A n \in B : \A f, g \in [B -> ZugTyp] :
        (\A k \in aktiv : k.nach = n /\ k.von \in B => f[k.von] = g[k.von]) => F[n][f] = F[n][g]
      BY <1>2, <3>2
    <3>4. QED
      BY <3>1, <3>3 DEF Rekursiv
  <2>2. Loesbar(B, ZugTyp, F)
    BY <1>4, <1>5, <2>1, RekursionGibtEs
  <2>3. QED
    BY <2>2 DEF Loesbar
<1>7. \A n \in B : z[n] = G(n, z)
  BY <1>3, <1>6
<1>8. z = [n \in B |-> z[n]]
  BY <1>6
<1>9. QED
  BY <1>6, <1>7, <1>8 DEF IstZug, G

LEMMA ZugFakten ==
  ASSUME NEW p, NEW aktiv, NEW ausgang, NEW fest, NEW B, Zuglage(p, aktiv, ausgang, B),
         NEW z, z = DerZug(p, aktiv, ausgang, fest, B)
  PROVE  \A n \in B : /\ z[n] \in ZugTyp /\ z[n] = Zug(p, aktiv, ausgang, fest, B, z, n)
                      /\ Gezogen(p, aktiv, ausgang, fest, B, z, n)
<1>1. IstZug(p, aktiv, ausgang, fest, B, z)
  BY ZugGibtEs DEF DerZug
<1>2. \A n \in B : z[n] = Zug(p, aktiv, ausgang, fest, B, z, n)
  BY <1>1 DEF IstZug
<1>3. \A n \in B : z[n] \in ZugTyp
  <2> DEFINE S == {n \in B : z[n] \notin ZugTyp}
  <2>1. SUFFICES ASSUME S # {} PROVE FALSE
    OBVIOUS
  <2>2. PICK e \in S : \A k \in aktiv : k.nach = e => k.von \notin S
    BY <2>1 DEF Zuglage, Azyklisch
  <2>3. \A k \in aktiv : k.nach = e /\ k.von \in B => z[k.von] \in ZugTyp
    BY <2>2
  <2>4. z[e] \in ZugTyp
    BY <1>2, <2>3, ZugSchritt
  <2>5. QED
    BY <2>4
<1>4. QED
  BY <1>2, <1>3, ZugSchritt

Bestand == [Elemente -> Daten \cup {Undatiert}]

\* What propagiere() does to the plan p: it reaches the rows B from the rows A that were
\* changed and those whose connections are enforced, and gives the plan q.
IstNachzug(p, aktiv, A, B, fest, q) ==
  /\ q \in Bestand /\ Datiert(q) = Datiert(p)
  /\ \A e \in Elemente : e \notin B \/ e \in A \cup fest => q[e] = p[e]
  /\ \A e \in Datiert(p) : /\ q[e].ende - q[e].start = p[e].ende - p[e].start
                           /\ modus # "immer" => q[e].start >= p[e].start
  /\ \A k \in aktiv : k.nach \in B \ (A \cup fest) => Erfuellt(q, k)
  /\ modus # "immer" => \A e \in B : q[e] = p[e] \/ \E k \in Ein(aktiv, e) : Verletzung(q[k.von], q[e], k) = 0

\* The connections that take part in a plan have dates at both ends.
Zulaessig(p, aktiv) ==
  /\ p \in Bestand /\ aktiv \in SUBSET Kante /\ IsFiniteSet(aktiv)
  /\ \A k \in aktiv : k.von \in Datiert(p) /\ k.nach \in Datiert(p)

LEMMA DatiertFakten ==
  ASSUME NEW p \in Bestand
  PROVE  /\ Datiert(p) \subseteq Elemente /\ \A e \in Datiert(p) : p[e] \in Daten
         /\ \A e \in Elemente : e \notin Datiert(p) => p[e] = Undatiert
         /\ \A e \in Elemente : p[e] \in Daten => e \in Datiert(p)
  BY DatenFakten DEF Bestand, Datiert

\* A row is moved as a whole.
LEMMA GeschobenFakten ==
  ASSUME NEW z \in Daten, NEW t \in Int, NEW w, w = Geschoben(z, t)
  PROVE  w \in Daten /\ w.ende - w.start = z.ende - z.start /\ (t >= 0 => w.start >= z.start) /\ (t = 0 => w = z)
<1>1. w \in Daten /\ w.start = z.start + t /\ w.ende = z.ende + t
  BY DatenFakten
<1>2. z.start \in Int /\ z.ende \in Int /\ z = [start |-> z.start, ende |-> z.ende]
  BY DatenFakten
<1>3. w.ende - w.start = z.ende - z.start /\ (t >= 0 => w.start >= z.start)
  BY <1>1, <1>2
<1>4. ASSUME t = 0 PROVE w = z
  BY <1>2, <1>4 DEF Geschoben
<1>5. QED
  BY <1>1, <1>3, <1>4

LEMMA NachzugFakten ==
  ASSUME NEW p, NEW aktiv, Zulaessig(p, aktiv),
         NEW ausgang, NEW erzwinge, NEW fest, DOMAIN ausgang \cup erzwinge \subseteq Datiert(p),
         \A n \in DOMAIN ausgang : ausgang[n].start \in Int /\ ausgang[n].ende \in Int,
         ImKreis(aktiv) \cap Erreichbar(aktiv, DOMAIN ausgang \cup erzwinge) = {}
  PROVE  LET B == Erreichbar(aktiv, DOMAIN ausgang \cup erzwinge)
         IN  /\ DOMAIN ausgang \cup erzwinge \subseteq B /\ B \subseteq Datiert(p) /\ Geschlossen(aktiv, B)
             /\ IstNachzug(p, aktiv, DOMAIN ausgang, B, fest, Nachgezogen(p, aktiv, ausgang, erzwinge, fest))
<1>1. PICK B : B = Erreichbar(aktiv, DOMAIN ausgang \cup erzwinge)
  OBVIOUS
<1>2. Verbindungen(aktiv) /\ p \in Bestand
  BY KanteFakten DEF Zulaessig
<1>3. /\ DOMAIN ausgang \cup erzwinge \subseteq B /\ B \subseteq Datiert(p) /\ B \in SUBSET Elemente
      /\ Geschlossen(aktiv, B)
  <2>1. Geschlossen(aktiv, Datiert(p))
    BY DEF Geschlossen, Zulaessig
  <2>2. DOMAIN ausgang \cup erzwinge \in SUBSET Elemente
    BY DEF Datiert
  <2>3. QED
    BY <1>1, <1>2, <2>1, <2>2, ErreichbarFakten
<1>4. Zuglage(p, aktiv, ausgang, B)
  <2>1. Azyklisch(aktiv, B)
    BY <1>1, <1>2, <1>3, OhneKreisAzyklisch
  <2>2. \A e \in Datiert(p) : p[e] \in Daten
    BY <1>2, DatiertFakten
  <2>3. QED
    BY <1>3, <2>1, <2>2 DEF Zuglage, Zulaessig
<1>5. PICK z : z = DerZug(p, aktiv, ausgang, fest, B)
  OBVIOUS
<1>6. \A n \in B : /\ z[n] \in ZugTyp /\ z[n] = Zug(p, aktiv, ausgang, fest, B, z, n)
                   /\ Gezogen(p, aktiv, ausgang, fest, B, z, n)
  BY <1>4, <1>5, ZugFakten
<1>7. PICK q : q = Nachgezogen(p, aktiv, ausgang, erzwinge, fest)
  OBVIOUS
<1>8. q = [e \in Elemente |-> Lage(p, B, z, e)]
  BY <1>1, <1>5, <1>7, NachgezogenHeisst
<1>9. \A e \in Elemente : q[e] = Lage(p, B, z, e)
  BY <1>8
<1>10. \A e \in B : q[e] = Zug(p, aktiv, ausgang, fest, B, z, e).lage /\ e \in Elemente
  BY <1>3, <1>6, <1>9 DEF Lage
<1>11. \A e \in Elemente \ B : q[e] = p[e]
  BY <1>9 DEF Lage
<1>12. \A e \in B \cap (DOMAIN ausgang \cup fest) : q[e] = p[e]
  BY <1>6, <1>10 DEF Gezogen
<1>13. ASSUME NEW e \in B, e \notin DOMAIN ausgang \cup fest
       PROVE  /\ q[e] \in Daten /\ q[e].ende - q[e].start = p[e].ende - p[e].start
              /\ modus # "immer" => q[e].start >= p[e].start
              /\ \A k \in Ein(aktiv, e) : Verletzung(q[k.von], q[e], k) <= 0
              /\ modus # "immer" => q[e] = p[e] \/ \E k \in Ein(aktiv, e) : Verletzung(q[k.von], q[e], k) = 0
  <2>1. PICK t \in Int : /\ q[e] = Geschoben(p[e], t)
                         /\ \A k \in Ein(aktiv, e) : Verletzung(Lage(p, B, z, k.von), q[e], k) <= 0
                         /\ modus # "immer" => t >= 0
                         /\ modus # "immer" /\ t > 0 =>
                              \E k \in Ein(aktiv, e) : t = Verletzung(Lage(p, B, z, k.von), p[e], k)
    BY <1>6, <1>10, <1>13 DEF Gezogen
  <2>2. p[e] \in Daten
    BY <1>4 DEF Zuglage
  <2>3. \A k \in Ein(aktiv, e) : k \in Kante /\ k.von \in Elemente /\ Lage(p, B, z, k.von) = q[k.von] /\ q[k.von] \in Daten
    <3>1. \A k \in Ein(aktiv, e) : k \in Kante /\ k.von \in Elemente /\ p[k.von] \in Daten
      BY <1>2, <1>4 DEF Ein, Zuglage, Verbindungen
    <3>2. \A k \in Ein(aktiv, e) : Lage(p, B, z, k.von) \in Daten
      BY <1>6, <3>1 DEF Lage, ZugTyp
    <3>3. QED
      BY <1>9, <3>1, <3>2
  <2>4. /\ q[e] \in Daten /\ q[e].ende - q[e].start = p[e].ende - p[e].start
        /\ t >= 0 => q[e].start >= p[e].start
        /\ t = 0 => q[e] = p[e]
    BY <2>1, <2>2, GeschobenFakten
  <2>5. \A k \in Ein(aktiv, e) : Verletzung(q[k.von], q[e], k) <= 0
    BY <2>1, <2>3
  <2>6. ASSUME modus # "immer", q[e] # p[e]
        PROVE  \E k \in Ein(aktiv, e) : Verletzung(q[k.von], q[e], k) = 0
    <3>1. t >= 0 /\ t # 0
      BY <2>1, <2>4, <2>6
    <3>2. PICK k \in Ein(aktiv, e) : t = Verletzung(q[k.von], p[e], k)
      BY <2>1, <2>3, <2>6, <3>1
    <3>3. Verletzung(q[k.von], q[e], k) = Verletzung(q[k.von], p[e], k) - t
      BY <2>1, <2>2, <2>3, VerletzungFakten
    <3>4. QED
      BY <3>2, <3>3
  <2>7. QED
    BY <2>1, <2>4, <2>5, <2>6
<1>14. \A e \in Datiert(p) : /\ q[e] \in Daten /\ q[e].ende - q[e].start = p[e].ende - p[e].start
                             /\ modus # "immer" => q[e].start >= p[e].start
  <2> SUFFICES ASSUME NEW e \in Datiert(p)
               PROVE  /\ q[e] \in Daten /\ q[e].ende - q[e].start = p[e].ende - p[e].start
                      /\ modus # "immer" => q[e].start >= p[e].start
    OBVIOUS
  <2>1. CASE e \in B /\ e \notin DOMAIN ausgang \cup fest
    BY <1>13, <2>1
  <2>2. CASE ~(e \in B /\ e \notin DOMAIN ausgang \cup fest)
    <3>1. e \in Elemente /\ p[e] \in Daten
      BY <1>2, DatiertFakten
    <3>2. q[e] = p[e]
      BY <1>11, <1>12, <2>2, <3>1
    <3>3. p[e].start \in Int
      BY <3>1, DatenFakten
    <3>4. QED
      BY <3>1, <3>2, <3>3
  <2>3. QED
    BY <2>1, <2>2
<1>15. q \in Bestand /\ Datiert(q) = Datiert(p)
  <2>1. \A e \in Elemente \ Datiert(p) : q[e] = p[e] /\ p[e] = Undatiert
    BY <1>2, <1>3, <1>11, DatiertFakten
  <2>2. q \in Bestand
    <3>1. \A e \in Elemente : q[e] \in Daten \cup {Undatiert}
      BY <1>14, <2>1
    <3>2. QED
      BY <1>8, <3>1 DEF Bestand
  <2>3. QED
    BY <1>2, <1>14, <2>1, <2>2, DatiertFakten
<1>16. \A e \in Elemente : e \notin B \/ e \in DOMAIN ausgang \cup fest => q[e] = p[e]
  BY <1>11, <1>12
<1>17. ASSUME NEW k \in aktiv, k.nach \in B \ (DOMAIN ausgang \cup fest) PROVE Erfuellt(q, k)
  <2>1. k \in Ein(aktiv, k.nach)
    BY DEF Ein
  <2>2. QED
    BY <1>13, <1>17, <2>1 DEF Erfuellt
<1>18. ASSUME modus # "immer", NEW e \in B
       PROVE  q[e] = p[e] \/ \E k \in Ein(aktiv, e) : Verletzung(q[k.von], q[e], k) = 0
  BY <1>12, <1>13, <1>18
<1>19. IstNachzug(p, aktiv, DOMAIN ausgang, B, fest, q)
  BY <1>14, <1>15, <1>16, <1>17, <1>18 DEF IstNachzug
<1>20. QED
  BY <1>1, <1>3, <1>7, <1>19

-----------------------------------------------------------------------------
(***************************************************************************)
(* straffe_plan().  Straff is one row of it, with s for the rows before.   *)
(***************************************************************************)

Frueh(p, s, e, k) ==
  CASE k.art = "anfang_anfang" -> s[k.von].start + k.versatz
    [] k.art = "ende_ende" -> s[k.von].ende + k.versatz - (p[e].ende - p[e].start)
    [] OTHER -> FruehesterStart(s[k.von], k.von, k.versatz)
Straff(p, aktiv, frei, s, e) ==
  IF e \in frei /\ Ein(aktiv, e) # {}
    THEN [start |-> Max({Frueh(p, s, e, k) : k \in Ein(aktiv, e)}),
          ende |-> Max({Frueh(p, s, e, k) : k \in Ein(aktiv, e)}) + (p[e].ende - p[e].start)]
    ELSE p[e]

IstStraff(p, aktiv, frei, s) == s = [e \in Elemente |-> Straff(p, aktiv, frei, s, e)]
Frei(aktiv, wer) == wer \ Erreichbar(aktiv, ImKreis(aktiv))
DasStraffe(p, aktiv, frei) == CHOOSE s : IstStraff(p, aktiv, frei, s)

LEMMA GestrafftHeisst ==
  ASSUME NEW p, NEW aktiv, NEW wer
  PROVE  Gestrafft(p, aktiv, wer) = DasStraffe(p, aktiv, Frei(aktiv, wer))
  BY DEF Gestrafft, DasStraffe, IstStraff, Straff, Frueh, Frei, Ein

\* Rows on a circle, and those behind it, stay: what is left has no circle.
LEMMA FreiAzyklisch ==
  ASSUME NEW aktiv, Verbindungen(aktiv), NEW wer
  PROVE  Azyklisch({k \in aktiv : k.nach \in Frei(aktiv, wer)}, Elemente)
<1>1. PICK R : R = Erreichbar(aktiv, ImKreis(aktiv))
  OBVIOUS
<1>2. ImKreis(aktiv) \subseteq R
  BY <1>1, ErreichbarFakten DEF ImKreis
<1>3. Azyklisch(aktiv, Elemente \ R)
  <2>1. ImKreis(aktiv) \cap (Elemente \ R) = {}
    BY <1>2
  <2>2. QED
    BY <2>1, OhneKreisAzyklisch
<1>4. SUFFICES ASSUME NEW S \in (SUBSET Elemente) \ {{}}
               PROVE  \E e \in S : \A k \in aktiv : k.nach \in Frei(aktiv, wer) /\ k.nach = e => k.von \notin S
  BY DEF Azyklisch
<1>5. CASE S \cap R = {}
  <2>1. S \in (SUBSET (Elemente \ R)) \ {{}}
    BY <1>5
  <2>2. QED
    BY <1>3, <2>1 DEF Azyklisch
<1>6. CASE S \cap R # {}
  <2>1. PICK e \in S : e \in R
    BY <1>6
  <2>2. e \notin Frei(aktiv, wer)
    BY <1>1, <2>1 DEF Frei
  <2>3. QED
    BY <2>2
<1>7. QED
  BY <1>5, <1>6

\* The earliest start is the one that just keeps the connection.
LEMMA FruehFakten ==
  ASSUME NEW p, NEW s, NEW e, p[e] \in Daten, NEW k \in Kante, s[k.von] \in Daten
  PROVE  /\ Frueh(p, s, e, k) \in Int
         /\ \A n \in Daten : n.ende - n.start = p[e].ende - p[e].start =>
              Verletzung(s[k.von], n, k) = Frueh(p, s, e, k) - n.start
<1>1. k.versatz \in Int
  BY KanteFakten
<1>2. PICK v : v = s[k.von]
  OBVIOUS
<1>3. v.start \in Int /\ v.ende \in Int /\ p[e].start \in Int /\ p[e].ende \in Int
  BY <1>2, DatenFakten
<1>4. PICK fs : fs = FruehesterStart(v, k.von, k.versatz)
  OBVIOUS
<1>5. fs \in Int
  BY <1>1, <1>3, <1>4 DEF FruehesterStart
<1>6. Frueh(p, s, e, k) \in Int
  BY <1>1, <1>2, <1>3, <1>4, <1>5 DEF Frueh
<1>7. ASSUME NEW n \in Daten, n.ende - n.start = p[e].ende - p[e].start
      PROVE  Verletzung(s[k.von], n, k) = Frueh(p, s, e, k) - n.start
  <2>1. n.start \in Int /\ n.ende \in Int
    BY DatenFakten
  <2>2. CASE k.art = "anfang_anfang"
    BY <1>1, <1>2, <1>3, <2>1, <2>2 DEF Frueh, Verletzung
  <2>3. CASE k.art = "ende_ende"
    BY <1>1, <1>2, <1>3, <1>7, <2>1, <2>3 DEF Frueh, Verletzung
  <2>4. CASE k.art # "anfang_anfang" /\ k.art # "ende_ende"
    BY <1>2, <1>4, <1>5, <2>1, <2>4 DEF Frueh, Verletzung
  <2>5. QED
    BY <2>2, <2>3, <2>4
<1>8. QED
  BY <1>6, <1>7

LEMMA StraffSchritt ==
  ASSUME NEW p, NEW aktiv, Zulaessig(p, aktiv), NEW frei, NEW s, NEW e \in Datiert(p),
         \A k \in Ein(aktiv, e) : s[k.von] \in Daten
  PROVE  /\ Straff(p, aktiv, frei, s, e) \in Daten
         /\ Straff(p, aktiv, frei, s, e).ende - Straff(p, aktiv, frei, s, e).start = p[e].ende - p[e].start
         /\ e \in frei => \A k \in Ein(aktiv, e) : Verletzung(s[k.von], Straff(p, aktiv, frei, s, e), k) <= 0
<1>1. p[e] \in Daten /\ \A k \in Ein(aktiv, e) : k \in Kante
  BY DatiertFakten DEF Zulaessig, Ein
<1>2. p[e].start \in Int /\ p[e].ende \in Int /\ p[e].start <= p[e].ende
  BY <1>1, DatenFakten
<1>3. CASE e \in frei /\ Ein(aktiv, e) # {}
  <2>1. PICK M : M = {Frueh(p, s, e, k) : k \in Ein(aktiv, e)}
    OBVIOUS
  <2>2. \A k \in Ein(aktiv, e) : Frueh(p, s, e, k) \in Int
    BY <1>1, FruehFakten
  <2>3. IsFiniteSet(M)
    <3> DEFINE f == [k \in Ein(aktiv, e) |-> Frueh(p, s, e, k)]
    <3>1. M = {f[k] : k \in Ein(aktiv, e)}
      BY <2>1
    <3>2. IsFiniteSet(Ein(aktiv, e))
      BY FS_Subset DEF Ein, Zulaessig
    <3> HIDE DEF f
    <3>3. QED
      BY <3>1, <3>2, BildEndlich
  <2>4. PICK m : m = Max(M)
    OBVIOUS
  <2>5. m \in Int /\ \A k \in Ein(aktiv, e) : m >= Frueh(p, s, e, k)
    <3>1. M \in SUBSET Int /\ M # {}
      BY <1>3, <2>1, <2>2
    <3>2. QED
      BY <2>1, <2>3, <2>4, <3>1, MaxFakten
  <2>6. PICK n : n = Straff(p, aktiv, frei, s, e)
    OBVIOUS
  <2>7. n = [start |-> m, ende |-> m + (p[e].ende - p[e].start)]
    BY <1>3, <2>1, <2>4, <2>6 DEF Straff
  <2>8. n \in Daten /\ n.start = m /\ n.ende - n.start = p[e].ende - p[e].start
    BY <1>2, <2>5, <2>7 DEF Daten
  <2>9. ASSUME NEW k \in Ein(aktiv, e) PROVE Verletzung(s[k.von], n, k) <= 0
    <3>1. Verletzung(s[k.von], n, k) = Frueh(p, s, e, k) - m
      BY <1>1, <2>8, FruehFakten
    <3>2. QED
      BY <2>2, <2>5, <3>1
  <2>10. QED
    BY <2>6, <2>8, <2>9
<1>4. CASE ~(e \in frei /\ Ein(aktiv, e) # {})
  <2>1. Straff(p, aktiv, frei, s, e) = p[e]
    BY <1>4 DEF Straff
  <2>2. QED
    BY <1>1, <1>4, <2>1
<1>5. QED
  BY <1>3, <1>4

\* Only the rows before matter.
LEMMA StraffGleich ==
  ASSUME NEW p, NEW aktiv, NEW frei, NEW s, NEW t, NEW e,
         e \in frei => \A k \in Ein(aktiv, e) : s[k.von] = t[k.von]
  PROVE  Straff(p, aktiv, frei, s, e) = Straff(p, aktiv, frei, t, e)
<1>1. CASE e \in frei
  <2>1. \A k \in Ein(aktiv, e) : Frueh(p, s, e, k) = Frueh(p, t, e, k)
    BY <1>1 DEF Frueh
  <2>2. {Frueh(p, s, e, k) : k \in Ein(aktiv, e)} = {Frueh(p, t, e, k) : k \in Ein(aktiv, e)}
    BY <2>1
  <2>3. QED
    BY <2>2 DEF Straff
<1>2. CASE e \notin frei
  BY <1>2 DEF Straff
<1>3. QED
  BY <1>1, <1>2

\* The function of straffe_plan() exists.
LEMMA StraffGibtEs ==
  ASSUME NEW p, NEW aktiv, Zulaessig(p, aktiv), NEW frei,
         Azyklisch({k \in aktiv : k.nach \in frei}, Elemente)
  PROVE  \E s : IstStraff(p, aktiv, frei, s)
<1> DEFINE B == Datiert(p)
           ks == {k \in aktiv : k.nach \in frei}
           T(n, z) == IF \A k \in Ein(aktiv, n) : z[k.von] \in Daten THEN Straff(p, aktiv, frei, z, n) ELSE p[n]
           F == [n \in B |-> [z \in [B -> Daten] |-> T(n, z)]]
<1>0. B \in SUBSET Elemente /\ \A k \in aktiv : k.von \in B /\ k.nach \in B
  BY DEF Datiert, Zulaessig
<1>1. \A n \in B, z \in [B -> Daten] : T(n, z) = Straff(p, aktiv, frei, z, n) /\ T(n, z) \in Daten
  <2> SUFFICES ASSUME NEW n \in B, NEW z \in [B -> Daten]
               PROVE  T(n, z) = Straff(p, aktiv, frei, z, n) /\ T(n, z) \in Daten
    OBVIOUS
  <2>1. \A k \in Ein(aktiv, n) : z[k.von] \in Daten
    BY <1>0 DEF Ein
  <2>2. Straff(p, aktiv, frei, z, n) \in Daten
    BY <2>1, StraffSchritt
  <2>3. QED
    BY <2>1, <2>2
<1>2. \A n \in B : \A f, g \in [B -> Daten] :
        (\A k \in ks : k.nach = n /\ k.von \in B => f[k.von] = g[k.von]) => T(n, f) = T(n, g)
  <2> SUFFICES ASSUME NEW n \in B, NEW f \in [B -> Daten], NEW g \in [B -> Daten],
                      \A k \in ks : k.nach = n /\ k.von \in B => f[k.von] = g[k.von]
               PROVE  T(n, f) = T(n, g)
    OBVIOUS
  <2>1. n \in frei => \A k \in Ein(aktiv, n) : f[k.von] = g[k.von]
    BY <1>0 DEF Ein
  <2>2. Straff(p, aktiv, frei, f, n) = Straff(p, aktiv, frei, g, n)
    BY <2>1, StraffGleich
  <2> HIDE DEF T
  <2>3. QED
    BY <1>1, <2>2
<1> HIDE DEF T
<1>3. /\ F \in [B -> [[B -> Daten] -> Daten]]
      /\ \A n \in B, z \in [B -> Daten] : F[n][z] = T(n, z)
  BY <1>1
<1> HIDE DEF F, B, ks
<1>4. Rekursiv(ks, B, Daten, F)
  <2>1. \A n \in B : \A f, g \in [B -> Daten] :
          (\A k \in ks : k.nach = n /\ k.von \in B => f[k.von] = g[k.von]) => F[n][f] = F[n][g]
    BY <1>2, <1>3
  <2>2. QED
    BY <1>3, <2>1 DEF Rekursiv
<1>5. Daten # {}
  <2>1. [start |-> 0, ende |-> 0] \in Daten
    BY DEF Daten
  <2>2. QED
    BY <2>1
<1>6. IsFiniteSet(B) /\ Azyklisch(ks, B)
  <2>1. IsFiniteSet(B)
    BY <1>0, FS_Subset, ZeitplanAnnahme
  <2>2. Azyklisch(ks, B)
    <3>1. Azyklisch(ks, Elemente)
      BY DEF ks
    <3>2. QED
      BY <1>0, <3>1 DEF Azyklisch
  <2>3. QED
    BY <2>1, <2>2
<1>7. PICK z \in [B -> Daten] : \A n \in B : z[n] = F[n][z]
  <2>1. Loesbar(B, Daten, F)
    BY <1>4, <1>5, <1>6, RekursionGibtEs
  <2>2. QED
    BY <2>1 DEF Loesbar
<1> DEFINE s == [e \in Elemente |-> IF e \in B THEN z[e] ELSE p[e]]
<1>8. \A e \in B : s[e] = z[e] /\ z[e] = Straff(p, aktiv, frei, z, e)
  BY <1>0, <1>1, <1>3, <1>7
<1>9. \A e \in Elemente : s[e] = Straff(p, aktiv, frei, s, e)
  <2> SUFFICES ASSUME NEW e \in Elemente PROVE s[e] = Straff(p, aktiv, frei, s, e)
    OBVIOUS
  <2>1. CASE e \in B
    <3>1. \A k \in Ein(aktiv, e) : s[k.von] = z[k.von]
      BY <1>0, <1>8 DEF Ein
    <3> HIDE DEF s
    <3>2. Straff(p, aktiv, frei, s, e) = Straff(p, aktiv, frei, z, e)
      BY <3>1, StraffGleich
    <3>3. QED
      BY <1>8, <2>1, <3>2
  <2>2. CASE e \notin B
    <3>1. Ein(aktiv, e) = {}
      BY <1>0, <2>2 DEF Ein
    <3>2. QED
      BY <2>2, <3>1 DEF Straff
  <2>3. QED
    BY <2>1, <2>2
<1>10. s = [e \in Elemente |-> s[e]]
  OBVIOUS
<1> HIDE DEF s
<1>11. IstStraff(p, aktiv, frei, s)
  BY <1>9, <1>10 DEF IstStraff
<1>12. QED
  BY <1>11

\* There is only one.
LEMMA StraffEindeutig ==
  ASSUME NEW p, NEW aktiv, NEW frei, Azyklisch({k \in aktiv : k.nach \in frei}, Elemente), Verbindungen(aktiv),
         NEW s, IstStraff(p, aktiv, frei, s), NEW t, IstStraff(p, aktiv, frei, t)
  PROVE  s = t
<1>1. \A e \in Elemente : s[e] = Straff(p, aktiv, frei, s, e) /\ t[e] = Straff(p, aktiv, frei, t, e)
  BY DEF IstStraff
<1> DEFINE S == {e \in Elemente : s[e] # t[e]}
<1>2. SUFFICES ASSUME S # {} PROVE FALSE
  <2>1. \A e \in Elemente : s[e] = t[e]
    BY <1>2
  <2>2. s = [e \in Elemente |-> s[e]] /\ t = [e \in Elemente |-> t[e]]
    BY DEF IstStraff
  <2>3. QED
    BY <2>1, <2>2
<1>3. PICK e \in S : \A k \in {j \in aktiv : j.nach \in frei} : k.nach = e => k.von \notin S
  BY <1>2 DEF Azyklisch
<1>4. e \in frei => \A k \in Ein(aktiv, e) : s[k.von] = t[k.von]
  BY <1>3 DEF Ein, Verbindungen
<1>5. QED
  BY <1>1, <1>3, <1>4, StraffGleich

\* What is tightened keeps its duration, and a row that is tightened keeps what leads to it.
LEMMA StraffFakten ==
  ASSUME NEW p, NEW aktiv, Zulaessig(p, aktiv), NEW wer, NEW s, s = Gestrafft(p, aktiv, wer)
  PROVE  /\ IstStraff(p, aktiv, Frei(aktiv, wer), s)
         /\ s \in Bestand /\ Datiert(s) = Datiert(p)
         /\ \A e \in Datiert(p) : s[e].ende - s[e].start = p[e].ende - p[e].start
         /\ \A e \in Elemente \ wer : s[e] = p[e]
         /\ \A k \in aktiv : k.nach \in Frei(aktiv, wer) => Erfuellt(s, k)
<1>1. PICK frei : frei = Frei(aktiv, wer)
  OBVIOUS
<1>2. Verbindungen(aktiv) /\ p \in Bestand
  BY KanteFakten DEF Zulaessig
<1>3. Azyklisch({k \in aktiv : k.nach \in frei}, Elemente)
  BY <1>1, <1>2, FreiAzyklisch
<1>4. IstStraff(p, aktiv, frei, s)
  <2>1. \E t : IstStraff(p, aktiv, frei, t)
    BY <1>3, StraffGibtEs
  <2>2. s = DasStraffe(p, aktiv, frei)
    BY <1>1, GestrafftHeisst
  <2>3. QED
    BY <2>1, <2>2 DEF DasStraffe
<1>5. \A e \in Elemente : s[e] = Straff(p, aktiv, frei, s, e)
  BY <1>4 DEF IstStraff
<1>6. \A e \in Datiert(p) : e \in Elemente /\ p[e] \in Daten
  BY <1>2, DatiertFakten
<1>7. \A k \in aktiv : k.von \in Datiert(p) /\ k.nach \in Datiert(p)
  BY DEF Zulaessig
<1>8. \A e \in Datiert(p) : s[e] \in Daten
  <2> DEFINE S == {e \in Datiert(p) : s[e] \notin Daten}
  <2>1. SUFFICES ASSUME S # {} PROVE FALSE
    OBVIOUS
  <2>2. S \in (SUBSET Elemente) \ {{}}
    BY <1>6, <2>1
  <2>3. PICK e \in S : \A k \in {j \in aktiv : j.nach \in frei} : k.nach = e => k.von \notin S
    BY <1>3, <2>2 DEF Azyklisch
  <2>4. CASE e \in frei
    <3>1. \A k \in Ein(aktiv, e) : s[k.von] \in Daten
      BY <1>7, <2>3, <2>4 DEF Ein
    <3>2. QED
      BY <1>5, <1>6, <2>3, <3>1, StraffSchritt
  <2>5. CASE e \notin frei
    <3>1. s[e] = p[e]
      BY <1>5, <1>6, <2>5 DEF Straff
    <3>2. QED
      BY <1>6, <3>1
  <2>6. QED
    BY <2>4, <2>5
<1>9. \A e \in Elemente \ Datiert(p) : s[e] = p[e] /\ s[e] = Undatiert
  <2> SUFFICES ASSUME NEW e \in Elemente \ Datiert(p) PROVE s[e] = p[e] /\ s[e] = Undatiert
    OBVIOUS
  <2>1. Ein(aktiv, e) = {}
    BY <1>7 DEF Ein
  <2>2. s[e] = p[e]
    BY <1>5, <2>1 DEF Straff
  <2>3. QED
    BY <1>2, <2>2, DatiertFakten
<1>10. s \in Bestand /\ Datiert(s) = Datiert(p)
  <2>1. s = [e \in Elemente |-> s[e]]
    BY <1>4 DEF IstStraff
  <2>2. \A e \in Elemente : s[e] \in Daten \cup {Undatiert}
    BY <1>8, <1>9
  <2>3. s \in Bestand
    BY <2>1, <2>2 DEF Bestand
  <2>4. QED
    <3>1. \A e \in Datiert(p) : e \in Datiert(s)
      BY <1>6, <1>8, <2>3, DatiertFakten
    <3>2. \A e \in Datiert(s) : e \in Datiert(p)
      BY <1>9 DEF Datiert
    <3>3. QED
      BY <2>3, <3>1, <3>2
<1>11. \A e \in Datiert(p) : \A k \in Ein(aktiv, e) : s[k.von] \in Daten
  BY <1>7, <1>8 DEF Ein
<1>12. \A e \in Datiert(p) : s[e].ende - s[e].start = p[e].ende - p[e].start
  BY <1>5, <1>6, <1>11, StraffSchritt
<1>13. \A e \in Elemente \ wer : s[e] = p[e]
  BY <1>1, <1>5 DEF Straff, Frei
<1>14. ASSUME NEW k \in aktiv, k.nach \in frei PROVE Erfuellt(s, k)
  <2>1. k \in Ein(aktiv, k.nach) /\ k.nach \in Datiert(p)
    BY <1>7 DEF Ein
  <2>2. QED
    BY <1>5, <1>6, <1>11, <1>14, <2>1, StraffSchritt DEF Erfuellt
<1>15. QED
  BY <1>1, <1>4, <1>10, <1>12, <1>13, <1>14

\* Where no circle is, tightening is thorough, and a second time changes nothing.
LEMMA StraffFertig ==
  ASSUME NEW p, NEW aktiv, Zulaessig(p, aktiv), ImKreis(aktiv) = {}, NEW wer, NEW s, s = Gestrafft(p, aktiv, wer)
  PROVE  /\ \A k \in aktiv : k.nach \in wer => Erfuellt(s, k)
         /\ Gestrafft(s, aktiv, wer) = s
<1>1. Verbindungen(aktiv)
  BY KanteFakten DEF Zulaessig
<1>2. Frei(aktiv, wer) = wer
  <2>1. Erreichbar(aktiv, {}) \subseteq {}
    <3>1. {} \in SUBSET Elemente /\ {} \subseteq {} /\ Geschlossen(aktiv, {})
      BY DEF Geschlossen
    <3>2. QED
      BY <1>1, <3>1, ErreichbarFakten
  <2>2. QED
    BY <2>1 DEF Frei
<1>3. /\ IstStraff(p, aktiv, wer, s) /\ s \in Bestand /\ Datiert(s) = Datiert(p)
      /\ \A e \in Datiert(p) : s[e].ende - s[e].start = p[e].ende - p[e].start
      /\ \A k \in aktiv : k.nach \in wer => Erfuellt(s, k)
  BY <1>2, StraffFakten
<1>4. Zulaessig(s, aktiv)
  BY <1>3 DEF Zulaessig
<1>5. IstStraff(s, aktiv, wer, s)
  <2>1. \A e \in Elemente : Straff(s, aktiv, wer, s, e) = s[e]
    <3> SUFFICES ASSUME NEW e \in Elemente PROVE Straff(s, aktiv, wer, s, e) = s[e]
      OBVIOUS
    <3>1. s[e] = Straff(p, aktiv, wer, s, e)
      BY <1>3 DEF IstStraff
    <3>2. CASE e \in wer /\ Ein(aktiv, e) # {}
      <4>1. e \in Datiert(p)
        BY <3>2 DEF Ein, Zulaessig
      <4>2. s[e].ende - s[e].start = p[e].ende - p[e].start
        BY <1>3, <4>1
      <4>3. \A k \in Ein(aktiv, e) : Frueh(s, s, e, k) = Frueh(p, s, e, k)
        BY <4>2 DEF Frueh
      <4>4. {Frueh(s, s, e, k) : k \in Ein(aktiv, e)} = {Frueh(p, s, e, k) : k \in Ein(aktiv, e)}
        BY <4>3
      <4>5. QED
        BY <3>1, <3>2, <4>2, <4>4 DEF Straff
    <3>3. CASE ~(e \in wer /\ Ein(aktiv, e) # {})
      BY <3>3 DEF Straff
    <3>4. QED
      BY <3>2, <3>3
  <2>2. s = [e \in Elemente |-> s[e]]
    BY <1>3 DEF IstStraff
  <2>3. QED
    BY <2>1, <2>2 DEF IstStraff
<1>6. Gestrafft(s, aktiv, wer) = s
  <2>1. IstStraff(s, aktiv, wer, Gestrafft(s, aktiv, wer))
    BY <1>2, <1>4, StraffFakten
  <2>2. Azyklisch({k \in aktiv : k.nach \in wer}, Elemente)
    BY <1>1, <1>2, FreiAzyklisch
  <2>3. QED
    BY <1>1, <1>5, <2>1, <2>2, StraffEindeutig
<1>7. QED
  BY <1>3, <1>6

-----------------------------------------------------------------------------
(***************************************************************************)
(* berechne_kritischen_pfad().  Spaet is the latest end of one row, with s *)
(* for the rows behind it.                                                 *)
(***************************************************************************)

Dauer(p, e) == p[e].ende - p[e].start
SpaetVor(p, s, e, k) ==
  CASE k.art = "anfang_anfang" -> s[k.nach] - Dauer(p, k.nach) - k.versatz + Dauer(p, e)
    [] k.art = "ende_ende" -> s[k.nach] - k.versatz
    [] OTHER -> s[k.nach] - Dauer(p, k.nach) - k.versatz - (IF e \in Meilensteine THEN 0 ELSE 1)
Aus(aktiv, e) == {k \in aktiv : k.von = e}
Spaet(p, knoten, aktiv, s, e) == Min({ProjektEnde(p, knoten)} \cup {SpaetVor(p, s, e, k) : k \in Aus(aktiv, e)})
IstSpaet(p, knoten, aktiv, s) == s = [e \in knoten |-> Spaet(p, knoten, aktiv, s, e)]
DasSpaete(p, knoten, aktiv) == CHOOSE s : IstSpaet(p, knoten, aktiv, s)

LEMMA PufferHeisst ==
  ASSUME NEW p, NEW knoten, NEW aktiv
  PROVE  Puffer(p, knoten, aktiv) =
           [e \in knoten |-> DasSpaete(p, knoten, aktiv)[e] - Dauer(p, e) - p[e].start]
  BY DEF Puffer, DasSpaete, IstSpaet, Spaet, SpaetVor, Dauer, Aus

\* The rows of the plan, with connections that close no circle.
Netz(p, knoten, aktiv) ==
  /\ Zulaessig(p, aktiv) /\ knoten # {} /\ knoten \subseteq Datiert(p)
  /\ \A k \in aktiv : k.von \in knoten /\ k.nach \in knoten
  /\ \A e \in knoten \cap Meilensteine : p[e].start = p[e].ende
  /\ ImKreis(aktiv) = {}

LEMMA NetzFakten ==
  ASSUME NEW p, NEW knoten, NEW aktiv, Netz(p, knoten, aktiv)
  PROVE  /\ knoten \subseteq Elemente /\ IsFiniteSet(knoten)
         /\ \A e \in knoten : p[e] \in Daten /\ Dauer(p, e) \in Int
         /\ Azyklisch(aktiv, knoten) /\ Azyklisch(Umgekehrt(aktiv), knoten)
<1>1. knoten \subseteq Elemente /\ \A e \in knoten : p[e] \in Daten
  BY DatiertFakten DEF Netz, Zulaessig
<1>2. \A e \in knoten : Dauer(p, e) \in Int
  BY <1>1, DatenFakten DEF Dauer
<1>3. IsFiniteSet(knoten)
  BY <1>1, FS_Subset, ZeitplanAnnahme
<1>4. Azyklisch(aktiv, knoten) /\ Azyklisch(Umgekehrt(aktiv), knoten)
  <2>1. Verbindungen(aktiv) /\ ImKreis(aktiv) \cap knoten = {}
    BY KanteFakten DEF Netz, Zulaessig
  <2>2. QED
    BY <1>1, <2>1, OhneKreisAzyklisch
<1>5. QED
  BY <1>1, <1>2, <1>3, <1>4

LEMMA ProjektEndeFakten ==
  ASSUME NEW q, NEW knoten, IsFiniteSet(knoten), knoten # {}, \A e \in knoten : q[e] \in Daten
  PROVE  /\ ProjektEnde(q, knoten) \in Int
         /\ \A e \in knoten : q[e].ende <= ProjektEnde(q, knoten)
         /\ \E e \in knoten : q[e].ende = ProjektEnde(q, knoten)
<1>1. PICK M : M = {q[e].ende : e \in knoten}
  OBVIOUS
<1>2. M \in SUBSET Int /\ M # {}
  BY <1>1, DatenFakten
<1>3. IsFiniteSet(M)
  <2> DEFINE f == [e \in knoten |-> q[e].ende]
  <2>1. M = {f[e] : e \in knoten}
    BY <1>1
  <2> HIDE DEF f
  <2>2. QED
    BY <2>1, BildEndlich
<1>4. ProjektEnde(q, knoten) = Max(M)
  BY <1>1 DEF ProjektEnde
<1>5. Max(M) \in M /\ \A m \in M : Max(M) >= m
  BY <1>2, <1>3, MaxFakten
<1>6. \A m \in M : m \in Int
  BY <1>2
<1>7. QED
  BY <1>1, <1>4, <1>5, <1>6

\* A row is late if the rows behind it are: the latest end is one of those it is taken from.
LEMMA SpaetSchritt ==
  ASSUME NEW p, NEW knoten, NEW aktiv, Netz(p, knoten, aktiv), NEW s, NEW e \in knoten,
         \A k \in Aus(aktiv, e) : s[k.nach] \in Int
  PROVE  /\ \A k \in Aus(aktiv, e) : SpaetVor(p, s, e, k) \in Int
         /\ Spaet(p, knoten, aktiv, s, e) \in Int
         /\ Spaet(p, knoten, aktiv, s, e) <= ProjektEnde(p, knoten)
         /\ \A k \in Aus(aktiv, e) : Spaet(p, knoten, aktiv, s, e) <= SpaetVor(p, s, e, k)
         /\ \/ Spaet(p, knoten, aktiv, s, e) = ProjektEnde(p, knoten)
            \/ \E k \in Aus(aktiv, e) : Spaet(p, knoten, aktiv, s, e) = SpaetVor(p, s, e, k)
<1>1. /\ \A k \in Aus(aktiv, e) : k.versatz \in Int /\ Dauer(p, k.nach) \in Int
      /\ Dauer(p, e) \in Int
  BY NetzFakten, KanteFakten DEF Netz, Zulaessig, Aus
<1>2. \A k \in Aus(aktiv, e) : SpaetVor(p, s, e, k) \in Int
  BY <1>1 DEF SpaetVor
<1>3. PICK E : E = ProjektEnde(p, knoten)
  OBVIOUS
<1>4. E \in Int
  BY <1>3, NetzFakten, ProjektEndeFakten DEF Netz
<1>5. PICK V : V = {SpaetVor(p, s, e, k) : k \in Aus(aktiv, e)}
  OBVIOUS
<1>6. IsFiniteSet({E} \cup V)
  <2> DEFINE f == [k \in Aus(aktiv, e) |-> SpaetVor(p, s, e, k)]
  <2>1. V = {f[k] : k \in Aus(aktiv, e)}
    BY <1>5
  <2>2. IsFiniteSet(Aus(aktiv, e))
    BY FS_Subset DEF Aus, Netz, Zulaessig
  <2> HIDE DEF f
  <2>3. IsFiniteSet(V)
    BY <2>1, <2>2, BildEndlich
  <2>4. IsFiniteSet({E})
    BY FS_Singleton
  <2>5. QED
    BY <2>3, <2>4, FS_Union
<1>7. PICK m : m = Min({E} \cup V)
  OBVIOUS
<1>8. m \in {E} \cup V /\ \A v \in {E} \cup V : m <= v
  <2>1. {E} \cup V \in SUBSET Int /\ {E} \cup V # {}
    BY <1>2, <1>4, <1>5
  <2>2. QED
    BY <1>6, <1>7, <2>1, MinFakten
<1>9. m = Spaet(p, knoten, aktiv, s, e)
  BY <1>3, <1>5, <1>7 DEF Spaet
<1>10. m \in Int /\ m <= E /\ \A k \in Aus(aktiv, e) : m <= SpaetVor(p, s, e, k)
  BY <1>2, <1>4, <1>5, <1>8
<1>11. m = E \/ \E k \in Aus(aktiv, e) : m = SpaetVor(p, s, e, k)
  BY <1>5, <1>8
<1>12. QED
  BY <1>2, <1>3, <1>9, <1>10, <1>11

LEMMA SpaetGleich ==
  ASSUME NEW p, NEW knoten, NEW aktiv, NEW s, NEW t, NEW e, \A k \in Aus(aktiv, e) : s[k.nach] = t[k.nach]
  PROVE  Spaet(p, knoten, aktiv, s, e) = Spaet(p, knoten, aktiv, t, e)
<1>1. \A k \in Aus(aktiv, e) : SpaetVor(p, s, e, k) = SpaetVor(p, t, e, k)
  BY DEF SpaetVor
<1>2. {SpaetVor(p, s, e, k) : k \in Aus(aktiv, e)} = {SpaetVor(p, t, e, k) : k \in Aus(aktiv, e)}
  BY <1>1
<1>3. QED
  BY <1>2 DEF Spaet

LEMMA SpaetGibtEs ==
  ASSUME NEW p, NEW knoten, NEW aktiv, Netz(p, knoten, aktiv)
  PROVE  \E s \in [knoten -> Int] : IstSpaet(p, knoten, aktiv, s)
<1> DEFINE G(n, s) == Spaet(p, knoten, aktiv, s, n)
           F == [n \in knoten |-> [s \in [knoten -> Int] |-> G(n, s)]]
           ks == Umgekehrt(aktiv)
<1>0. \A n \in knoten : \A k \in Aus(aktiv, n) : k.nach \in knoten
  BY DEF Netz, Aus
<1>1. \A n \in knoten, s \in [knoten -> Int] : G(n, s) \in Int
  <2> SUFFICES ASSUME NEW n \in knoten, NEW s \in [knoten -> Int] PROVE G(n, s) \in Int
    OBVIOUS
  <2>1. \A k \in Aus(aktiv, n) : s[k.nach] \in Int
    BY <1>0
  <2>2. QED
    BY <2>1, SpaetSchritt
<1>2. \A n \in knoten : \A f, g \in [knoten -> Int] :
        (\A k \in ks : k.nach = n /\ k.von \in knoten => f[k.von] = g[k.von]) => G(n, f) = G(n, g)
  <2> SUFFICES ASSUME NEW n \in knoten, NEW f \in [knoten -> Int], NEW g \in [knoten -> Int],
                      \A k \in ks : k.nach = n /\ k.von \in knoten => f[k.von] = g[k.von]
               PROVE  G(n, f) = G(n, g)
    OBVIOUS
  <2>1. \A k \in Aus(aktiv, n) : f[k.nach] = g[k.nach]
    <3> SUFFICES ASSUME NEW k \in Aus(aktiv, n) PROVE f[k.nach] = g[k.nach]
      OBVIOUS
    <3>1. [von |-> k.nach, nach |-> k.von] \in ks
      BY DEF Aus, Umgekehrt
    <3>2. k.von = n /\ k.nach \in knoten
      BY <1>0 DEF Aus
    <3>3. QED
      BY <3>1, <3>2
  <2>2. QED
    BY <2>1, SpaetGleich
<1> HIDE DEF G
<1>3. /\ F \in [knoten -> [[knoten -> Int] -> Int]]
      /\ \A n \in knoten, s \in [knoten -> Int] : F[n][s] = G(n, s)
  BY <1>1
<1> HIDE DEF F, ks
<1>4. Rekursiv(ks, knoten, Int, F)
  <2>1. \A n \in knoten : \A f, g \in [knoten -> Int] :
          (\A k \in ks : k.nach = n /\ k.von \in knoten => f[k.von] = g[k.von]) => F[n][f] = F[n][g]
    BY <1>2, <1>3
  <2>2. QED
    BY <1>3, <2>1 DEF Rekursiv
<1>5. IsFiniteSet(knoten) /\ Azyklisch(ks, knoten)
  BY NetzFakten DEF ks
<1>6. PICK s \in [knoten -> Int] : \A n \in knoten : s[n] = F[n][s]
  <2>1. Loesbar(knoten, Int, F)
    <3>1. Int # {}
      OBVIOUS
    <3>2. QED
      BY <1>4, <1>5, <3>1, RekursionGibtEs
  <2>2. QED
    BY <2>1 DEF Loesbar
<1>7. s = [n \in knoten |-> s[n]]
  BY <1>6
<1>8. QED
  BY <1>3, <1>6, <1>7 DEF IstSpaet, G

LEMMA SpaetFakten ==
  ASSUME NEW p, NEW knoten, NEW aktiv, Netz(p, knoten, aktiv), NEW s, s = DasSpaete(p, knoten, aktiv)
  PROVE  /\ \A e \in knoten : s[e] \in Int /\ s[e] <= ProjektEnde(p, knoten)
         /\ \A k \in aktiv : SpaetVor(p, s, k.von, k) \in Int /\ s[k.von] <= SpaetVor(p, s, k.von, k)
         /\ \A e \in knoten : s[e] = ProjektEnde(p, knoten) \/ \E k \in Aus(aktiv, e) : s[e] = SpaetVor(p, s, e, k)
<1>1. IstSpaet(p, knoten, aktiv, s)
  BY SpaetGibtEs DEF DasSpaete
<1>2. \A e \in knoten : s[e] = Spaet(p, knoten, aktiv, s, e)
  BY <1>1 DEF IstSpaet
<1>3. \A k \in aktiv : k.von \in knoten /\ k.nach \in knoten /\ k \in Aus(aktiv, k.von)
  BY DEF Netz, Aus
<1>4. \A e \in knoten : s[e] \in Int
  <2> DEFINE S == {e \in knoten : s[e] \notin Int}
  <2>1. SUFFICES ASSUME S # {} PROVE FALSE
    OBVIOUS
  <2>2. PICK e \in S : \A k \in Umgekehrt(aktiv) : k.nach = e => k.von \notin S
    <3>1. Azyklisch(Umgekehrt(aktiv), knoten) /\ S \in (SUBSET knoten) \ {{}}
      BY <2>1, NetzFakten
    <3>2. QED
      BY <3>1 DEF Azyklisch
  <2>3. \A k \in Aus(aktiv, e) : s[k.nach] \in Int
    <3> SUFFICES ASSUME NEW k \in Aus(aktiv, e) PROVE s[k.nach] \in Int
      OBVIOUS
    <3>1. [von |-> k.nach, nach |-> k.von] \in Umgekehrt(aktiv) /\ k.von = e /\ k.nach \in knoten
      BY <1>3 DEF Aus, Umgekehrt
    <3>2. QED
      BY <2>2, <3>1
  <2>4. QED
    BY <1>2, <2>2, <2>3, SpaetSchritt
<1>5. \A e \in knoten : \A k \in Aus(aktiv, e) : s[k.nach] \in Int
  BY <1>3, <1>4 DEF Aus
<1>6. QED
  BY <1>2, <1>3, <1>4, <1>5, SpaetSchritt

\* Where s is the latest end of the row behind a connection that is just kept or kept in a
\* plan with the durations of p, the row before it ends by its latest end as well, and the
\* other way round.
LEMMA SpaetHaelt ==
  ASSUME NEW p, NEW knoten, NEW aktiv, Netz(p, knoten, aktiv), NEW s, NEW k \in aktiv, s[k.nach] \in Int,
         NEW q, q[k.von] \in Daten, q[k.nach] \in Daten,
         Dauer(q, k.von) = Dauer(p, k.von), Dauer(q, k.nach) = Dauer(p, k.nach)
  PROVE  LET v == Verletzung(q[k.von], q[k.nach], k)
         IN  /\ v \in Int /\ q[k.von].ende \in Int /\ q[k.nach].ende \in Int
             /\ SpaetVor(p, s, k.von, k) - q[k.von].ende = s[k.nach] - q[k.nach].ende - v
<1>1. k \in Kante /\ k.versatz \in Int /\ k.von \in knoten /\ k.nach \in knoten
  BY KanteFakten DEF Netz, Zulaessig
<1>2. PICK x : x = q[k.von]
  OBVIOUS
<1>3. PICK y : y = q[k.nach]
  OBVIOUS
<1>4. x.start \in Int /\ x.ende \in Int /\ y.start \in Int /\ y.ende \in Int
  BY <1>2, <1>3, DatenFakten
<1>5. Dauer(p, k.von) = x.ende - x.start /\ Dauer(p, k.nach) = y.ende - y.start
  BY <1>2, <1>3 DEF Dauer
<1>6. k.von \in Meilensteine => x.start = x.ende
  <2>1. ASSUME k.von \in Meilensteine PROVE x.start = x.ende
    <3>1. p[k.von].start = p[k.von].ende /\ p[k.von].ende \in Int
      BY <1>1, <2>1, NetzFakten, DatenFakten DEF Netz
    <3>2. Dauer(p, k.von) = 0
      BY <3>1 DEF Dauer
    <3>3. QED
      BY <1>4, <1>5, <3>2
  <2>2. QED
    BY <2>1
<1>7. Verletzung(x, y, k) \in Int
  BY <1>1, <1>2, <1>3, VerletzungFakten
<1>8. CASE k.art = "anfang_anfang"
  <2>1. Verletzung(x, y, k) = x.start + k.versatz - y.start
    BY <1>8 DEF Verletzung
  <2>2. SpaetVor(p, s, k.von, k) = s[k.nach] - (y.ende - y.start) - k.versatz + (x.ende - x.start)
    BY <1>5, <1>8 DEF SpaetVor
  <2>3. QED
    BY <1>1, <1>2, <1>3, <1>4, <1>7, <2>1, <2>2
<1>9. CASE k.art = "ende_ende"
  <2>1. Verletzung(x, y, k) = x.ende + k.versatz - y.ende
    BY <1>9 DEF Verletzung
  <2>2. SpaetVor(p, s, k.von, k) = s[k.nach] - k.versatz
    BY <1>9 DEF SpaetVor
  <2>3. QED
    BY <1>1, <1>2, <1>3, <1>4, <1>7, <2>1, <2>2
<1>10. CASE k.art # "anfang_anfang" /\ k.art # "ende_ende"
  <2>1. Verletzung(x, y, k) = FruehesterStart(x, k.von, k.versatz) - y.start
    BY <1>10 DEF Verletzung
  <2>2. SpaetVor(p, s, k.von, k) =
          s[k.nach] - (y.ende - y.start) - k.versatz - (IF k.von \in Meilensteine THEN 0 ELSE 1)
    BY <1>5, <1>10 DEF SpaetVor
  <2>3. CASE k.von \in Meilensteine
    <3>1. FruehesterStart(x, k.von, k.versatz) = x.start + k.versatz
      BY <2>3 DEF FruehesterStart
    <3>2. QED
      BY <1>1, <1>2, <1>3, <1>4, <1>6, <1>7, <2>1, <2>2, <2>3, <3>1
  <2>4. CASE k.von \notin Meilensteine
    <3>1. FruehesterStart(x, k.von, k.versatz) = x.ende + 1 + k.versatz
      BY <2>4 DEF FruehesterStart
    <3>2. QED
      BY <1>1, <1>2, <1>3, <1>4, <1>7, <2>1, <2>2, <2>4, <3>1
  <2>5. QED
    BY <2>3, <2>4
<1>11. QED
  BY <1>8, <1>9, <1>10

\* One row is late by t days, and its successors are drawn along.
Verspaetet(p, aktiv, e, t) ==
  Nachgezogen([p EXCEPT ![e] = Geschoben(@, t)], aktiv, [n \in {e} |-> [start |-> t, ende |-> t]], {}, {})

LEMMA VerspaetetFakten ==
  ASSUME NEW p, NEW knoten, NEW aktiv, Netz(p, knoten, aktiv), modus = "bei_konflikt",
         \A k \in aktiv : Erfuellt(p, k), NEW e \in knoten, NEW t \in Nat,
         NEW q, q = Verspaetet(p, aktiv, e, t)
  PROVE  /\ \A x \in knoten : q[x] \in Daten /\ Dauer(q, x) = Dauer(p, x) /\ q[x].ende >= p[x].ende
         /\ q[e].ende = p[e].ende + t
         /\ \A x \in knoten \ {e} : q[x] = p[x] \/ \E k \in Ein(aktiv, x) : Verletzung(q[k.von], q[x], k) = 0
         /\ \A k \in aktiv : k.nach # e => Erfuellt(q, k)
<1>1. /\ p \in Bestand /\ e \in Elemente /\ p[e] \in Daten /\ knoten \subseteq Datiert(p)
      /\ \A k \in aktiv : k.von \in knoten /\ k.nach \in knoten
  BY NetzFakten DEF Netz, Zulaessig
<1>2. PICK w : w = Geschoben(p[e], t)
  OBVIOUS
<1>3. /\ w \in Daten /\ w.ende - w.start = p[e].ende - p[e].start /\ w.start = p[e].start + t /\ w.ende = p[e].ende + t
  <2>1. t \in Int
    OBVIOUS
  <2>2. w.start = p[e].start + t /\ w.ende = p[e].ende + t
    BY <1>1, <1>2, <2>1, DatenFakten
  <2>3. w \in Daten /\ w.ende - w.start = p[e].ende - p[e].start
    BY <1>1, <1>2, <2>1, GeschobenFakten
  <2>4. QED
    BY <2>2, <2>3
<1>4. PICK r : r = [p EXCEPT ![e] = w]
  OBVIOUS
<1>5. /\ r \in Bestand /\ r[e] = w /\ \A x \in Elemente \ {e} : r[x] = p[x]
  BY <1>1, <1>3, <1>4 DEF Bestand
<1>6. Datiert(r) = Datiert(p)
  <2>1. e \in Datiert(r) /\ e \in Datiert(p)
    BY <1>1, <1>3, <1>5, DatiertFakten
  <2>2. QED
    BY <1>5, <2>1 DEF Datiert
<1>7. Zulaessig(r, aktiv)
  BY <1>5, <1>6 DEF Netz, Zulaessig
<1>8. PICK a : a = [n \in {e} |-> [start |-> t, ende |-> t]]
  OBVIOUS
<1>9. DOMAIN a = {e} /\ \A n \in DOMAIN a : a[n].start \in Int /\ a[n].ende \in Int
  BY <1>8
<1> DEFINE leer == {}
<1>10. q = Nachgezogen(r, aktiv, a, leer, leer)
  BY <1>2, <1>4, <1>8 DEF Verspaetet
<1>11. PICK B : B = Erreichbar(aktiv, DOMAIN a \cup leer)
  OBVIOUS
<1>12. e \in B /\ Geschlossen(aktiv, B) /\ IstNachzug(r, aktiv, {e}, B, {}, q)
  <2>1. DOMAIN a \cup leer \subseteq Datiert(r) /\ ImKreis(aktiv) \cap B = {}
    BY <1>1, <1>6, <1>9 DEF Netz
  <2> HIDE DEF leer
  <2>2. DOMAIN a \cup leer \subseteq B /\ Geschlossen(aktiv, B) /\ IstNachzug(r, aktiv, DOMAIN a, B, leer, q)
    BY <1>7, <1>9, <1>10, <1>11, <2>1, NachzugFakten
  <2> USE DEF leer
  <2>3. QED
    BY <1>9, <2>2
<1>13. ASSUME NEW x \in knoten
       PROVE  q[x] \in Daten /\ r[x] \in Daten /\ Dauer(q, x) = Dauer(p, x) /\ q[x].ende >= p[x].ende
  <2>1. x \in Datiert(r) /\ x \in Datiert(q)
    BY <1>1, <1>6, <1>12 DEF IstNachzug
  <2>2. q[x] \in Daten /\ r[x] \in Daten /\ p[x] \in Daten
    BY <1>1, <1>5, <1>12, <2>1, DatiertFakten DEF IstNachzug
  <2>3. q[x].ende - q[x].start = r[x].ende - r[x].start /\ q[x].start >= r[x].start
    BY <1>12, <2>1 DEF IstNachzug
  <2>4. r[x].ende - r[x].start = p[x].ende - p[x].start /\ r[x].start >= p[x].start
    <3>1. CASE x = e
      <4>1. p[e].start \in Int
        BY <1>1, DatenFakten
      <4>2. QED
        BY <1>3, <1>5, <3>1, <4>1
    <3>2. CASE x # e
      <4>1. r[x] = p[x] /\ p[x].start \in Int
        BY <1>1, <1>5, <2>2, <3>2, DatenFakten DEF Datiert
      <4>2. QED
        BY <4>1
    <3>3. QED
      BY <3>1, <3>2
  <2>5. /\ q[x].start \in Int /\ q[x].ende \in Int /\ r[x].start \in Int /\ r[x].ende \in Int
        /\ p[x].start \in Int /\ p[x].ende \in Int
    BY <2>2, DatenFakten
  <2>6. q[x].ende >= p[x].ende
    BY <2>3, <2>4, <2>5
  <2>7. QED
    BY <2>2, <2>3, <2>4, <2>6 DEF Dauer
<1>14. q[e].ende = p[e].ende + t
  <2>1. q[e] = r[e]
    BY <1>1, <1>12 DEF IstNachzug
  <2>2. QED
    BY <1>3, <1>5, <2>1
<1>15. \A x \in knoten : x \in Elemente
  BY <1>1 DEF Datiert
<1>16. ASSUME NEW x \in knoten \ {e}
       PROVE  q[x] = p[x] \/ \E k \in Ein(aktiv, x) : Verletzung(q[k.von], q[x], k) = 0
  <2>1. r[x] = p[x]
    BY <1>5, <1>15
  <2>2. CASE x \in B
    BY <1>12, <2>1, <2>2 DEF IstNachzug
  <2>3. CASE x \notin B
    BY <1>12, <1>15, <2>1, <2>3 DEF IstNachzug
  <2>4. QED
    BY <2>2, <2>3
<1>17. ASSUME NEW k \in aktiv, k.nach # e PROVE Erfuellt(q, k)
  <2>1. CASE k.nach \in B
    BY <1>12, <1>17, <2>1 DEF IstNachzug
  <2>2. CASE k.nach \notin B
    <3>1. k.von \notin B
      BY <1>12, <2>2 DEF Geschlossen
    <3>2. q[k.von] = r[k.von] /\ q[k.nach] = r[k.nach]
      BY <1>1, <1>12, <1>15, <2>2, <3>1 DEF IstNachzug
    <3>3. r[k.von] = p[k.von] /\ r[k.nach] = p[k.nach]
      BY <1>1, <1>5, <1>12, <1>15, <2>2, <3>1
    <3>4. QED
      BY <3>2, <3>3 DEF Erfuellt
  <2>3. QED
    BY <2>1, <2>2
<1>18. QED
  BY <1>13, <1>14, <1>16, <1>17

\* The rows of a plan that keeps its connections end by their latest ends.
LEMMA SpaetNachEnde ==
  ASSUME NEW p, NEW knoten, NEW aktiv, Netz(p, knoten, aktiv), \A k \in aktiv : Erfuellt(p, k),
         NEW s, s = DasSpaete(p, knoten, aktiv)
  PROVE  \A e \in knoten : p[e].ende <= s[e]
<1>1. \A e \in knoten : p[e] \in Daten /\ p[e].ende \in Int /\ s[e] \in Int
  BY NetzFakten, SpaetFakten, DatenFakten
<1> DEFINE S == {e \in knoten : p[e].ende > s[e]}
<1>2. SUFFICES ASSUME S # {} PROVE FALSE
  BY <1>1
<1>3. PICK e \in S : \A k \in Umgekehrt(aktiv) : k.nach = e => k.von \notin S
  <2>1. Azyklisch(Umgekehrt(aktiv), knoten) /\ S \in (SUBSET knoten) \ {{}}
    BY <1>2, NetzFakten
  <2>2. QED
    BY <2>1 DEF Azyklisch
<1>4. e \in knoten /\ p[e].ende > s[e]
  OBVIOUS
<1>5. CASE s[e] = ProjektEnde(p, knoten)
  <2>1. p[e].ende <= ProjektEnde(p, knoten) /\ ProjektEnde(p, knoten) \in Int
    BY <1>1, <1>4, NetzFakten, ProjektEndeFakten
  <2>2. QED
    BY <1>1, <1>4, <1>5, <2>1
<1>6. CASE \E k \in Aus(aktiv, e) : s[e] = SpaetVor(p, s, e, k)
  <2>1. PICK k \in aktiv : k.von = e /\ s[e] = SpaetVor(p, s, k.von, k)
    BY <1>6 DEF Aus
  <2>2. k.nach \in knoten /\ k.nach \notin S
    <3>1. [von |-> k.nach, nach |-> k.von] \in Umgekehrt(aktiv)
      BY DEF Umgekehrt
    <3>2. QED
      BY <1>3, <2>1, <3>1 DEF Netz
  <2>3. PICK v : v = Verletzung(p[k.von], p[k.nach], k)
    OBVIOUS
  <2>4. v \in Int /\ SpaetVor(p, s, k.von, k) - p[k.von].ende = s[k.nach] - p[k.nach].ende - v
    <3>1. p[k.von] \in Daten /\ p[k.nach] \in Daten /\ s[k.nach] \in Int
      BY <1>1, <1>4, <2>1, <2>2
    <3>2. QED
      BY <2>3, <3>1, SpaetHaelt
  <2>5. v <= 0
    BY <2>3 DEF Erfuellt
  <2>6. p[k.nach].ende <= s[k.nach] /\ p[k.nach].ende \in Int /\ s[k.nach] \in Int
    BY <1>1, <2>2
  <2>7. s[e] - p[e].ende = s[k.nach] - p[k.nach].ende - v
    BY <2>1, <2>4
  <2>8. QED
    BY <1>1, <1>4, <2>4, <2>5, <2>6, <2>7
<1>7. QED
  BY <1>4, <1>5, <1>6, SpaetFakten

\* The float: later by that many days no row passes its latest end; later by one more a
\* row does, and with it the one that makes its latest end, up to the end of the project.
LEMMA PufferExakt ==
  ASSUME NEW p, NEW knoten, NEW aktiv, Netz(p, knoten, aktiv), modus = "bei_konflikt",
         \A k \in aktiv : Erfuellt(p, k), NEW e \in knoten, NEW f, f = Puffer(p, knoten, aktiv)[e]
  PROVE  /\ ProjektEnde(Verspaetet(p, aktiv, e, f), knoten) = ProjektEnde(p, knoten)
         /\ ProjektEnde(Verspaetet(p, aktiv, e, f + 1), knoten) > ProjektEnde(p, knoten)
<1>1. PICK s : s = DasSpaete(p, knoten, aktiv)
  OBVIOUS
<1>2. PICK E : E = ProjektEnde(p, knoten)
  OBVIOUS
<1>3. /\ \A x \in knoten : /\ p[x] \in Daten /\ p[x].start \in Int /\ p[x].ende \in Int /\ s[x] \in Int
                           /\ p[x].ende <= s[x] /\ s[x] <= E
      /\ E \in Int /\ \E x \in knoten : p[x].ende = E
      /\ IsFiniteSet(knoten) /\ knoten # {}
  <2>1. \A x \in knoten : p[x] \in Daten /\ p[x].start \in Int /\ p[x].ende \in Int
    BY NetzFakten, DatenFakten
  <2>2. \A x \in knoten : s[x] \in Int /\ p[x].ende <= s[x] /\ s[x] <= E
    BY <1>1, <1>2, SpaetFakten, SpaetNachEnde
  <2>3. IsFiniteSet(knoten) /\ knoten # {}
    BY NetzFakten DEF Netz
  <2>4. E \in Int /\ \E x \in knoten : p[x].ende = E
    BY <1>2, <2>1, <2>3, ProjektEndeFakten
  <2>5. QED
    BY <2>1, <2>2, <2>3, <2>4
<1>4. f = s[e] - p[e].ende /\ f \in Nat /\ f + 1 \in Nat
  <2>1. f = s[e] - Dauer(p, e) - p[e].start
    BY <1>1, PufferHeisst
  <2>2. Dauer(p, e) = p[e].ende - p[e].start
    BY DEF Dauer
  <2>3. QED
    BY <1>3, <2>1, <2>2
<1>5. \A k \in aktiv : /\ k.von \in knoten /\ k.nach \in knoten /\ SpaetVor(p, s, k.von, k) \in Int
                       /\ s[k.von] <= SpaetVor(p, s, k.von, k)
  BY <1>1, SpaetFakten DEF Netz
<1>6. ProjektEnde(Verspaetet(p, aktiv, e, f), knoten) = E
  <2>1. PICK q : q = Verspaetet(p, aktiv, e, f)
    OBVIOUS
  <2>2. /\ \A x \in knoten : q[x] \in Daten /\ Dauer(q, x) = Dauer(p, x) /\ q[x].ende >= p[x].ende
        /\ q[e].ende = p[e].ende + f
        /\ \A x \in knoten \ {e} : q[x] = p[x] \/ \E k \in Ein(aktiv, x) : Verletzung(q[k.von], q[x], k) = 0
    BY <1>4, <2>1, VerspaetetFakten
  <2>3. \A x \in knoten : q[x].ende \in Int
    BY <2>2, DatenFakten
  <2>4. \A x \in knoten : q[x].ende <= s[x]
    <3> DEFINE S == {x \in knoten : q[x].ende > s[x]}
    <3>1. SUFFICES ASSUME S # {} PROVE FALSE
      BY <1>3, <2>3
    <3>2. PICK x \in S : \A k \in aktiv : k.nach = x => k.von \notin S
      <4>1. Azyklisch(aktiv, knoten) /\ S \in (SUBSET knoten) \ {{}}
        BY <3>1, NetzFakten
      <4>2. QED
        BY <4>1 DEF Azyklisch
    <3>3. x \in knoten /\ q[x].ende > s[x]
      OBVIOUS
    <3>4. x # e
      BY <1>3, <1>4, <2>2, <2>3, <3>3
    <3>5. q[x] # p[x]
      BY <1>3, <2>3, <3>3
    <3>6. PICK k \in aktiv : k.nach = x /\ Verletzung(q[k.von], q[k.nach], k) = 0
      BY <2>2, <3>3, <3>4, <3>5 DEF Ein
    <3>7. k.von \in knoten /\ k.nach \in knoten /\ k.von \notin S
      BY <1>5, <3>2, <3>6
    <3>8. SpaetVor(p, s, k.von, k) - q[k.von].ende = s[k.nach] - q[k.nach].ende - 0
      <4>1. q[k.von] \in Daten /\ q[k.nach] \in Daten /\ s[k.nach] \in Int
        BY <1>3, <2>2, <3>7
      <4>2. Dauer(q, k.von) = Dauer(p, k.von) /\ Dauer(q, k.nach) = Dauer(p, k.nach)
        BY <2>2, <3>7
      <4>3. QED
        BY <3>6, <4>1, <4>2, SpaetHaelt
    <3>9. q[k.von].ende <= s[k.von] /\ q[k.von].ende \in Int /\ s[k.von] \in Int
      BY <1>3, <2>3, <3>7
    <3>10. QED
      BY <1>3, <1>5, <2>3, <3>3, <3>6, <3>7, <3>8, <3>9
  <2>5. PICK Q : Q = ProjektEnde(q, knoten)
    OBVIOUS
  <2>6. /\ Q \in Int /\ \A x \in knoten : q[x].ende <= Q
        /\ \E x \in knoten : q[x].ende = Q
    BY <1>3, <2>2, <2>5, ProjektEndeFakten
  <2>7. Q <= E
    <3>1. PICK x \in knoten : q[x].ende = Q
      BY <2>6
    <3>2. q[x].ende <= s[x] /\ s[x] <= E /\ s[x] \in Int
      BY <1>3, <2>4
    <3>3. QED
      BY <1>3, <2>6, <3>1, <3>2
  <2>8. Q >= E
    <3>1. PICK x \in knoten : p[x].ende = E
      BY <1>3
    <3>2. q[x].ende >= E /\ q[x].ende <= Q /\ q[x].ende \in Int
      BY <2>2, <2>3, <2>6, <3>1
    <3>3. QED
      BY <1>3, <2>6, <3>2
  <2>9. QED
    BY <1>3, <2>1, <2>5, <2>6, <2>7, <2>8
<1>7. ProjektEnde(Verspaetet(p, aktiv, e, f + 1), knoten) > E
  <2>1. PICK q : q = Verspaetet(p, aktiv, e, f + 1)
    OBVIOUS
  <2>2. /\ \A x \in knoten : q[x] \in Daten /\ Dauer(q, x) = Dauer(p, x) /\ q[x].ende >= p[x].ende
        /\ q[e].ende = p[e].ende + (f + 1)
        /\ \A k \in aktiv : k.nach # e => Erfuellt(q, k)
    BY <1>4, <2>1, VerspaetetFakten
  <2>3. \A x \in knoten : q[x].ende \in Int
    BY <2>2, DatenFakten
  <2> DEFINE S == {x \in knoten : q[x].ende > s[x]}
  <2>4. e \in S
    BY <1>3, <1>4, <2>2, <2>3
  <2>5. PICK x \in S : \A k \in Umgekehrt(aktiv) : k.nach = x => k.von \notin S
    <3>1. Azyklisch(Umgekehrt(aktiv), knoten) /\ S \in (SUBSET knoten) \ {{}}
      BY <2>4, NetzFakten
    <3>2. QED
      BY <3>1 DEF Azyklisch
  <2>6. x \in knoten /\ q[x].ende > s[x]
    OBVIOUS
  <2>7. s[x] = E
    <3>1. SUFFICES ASSUME NEW k \in Aus(aktiv, x), s[x] = SpaetVor(p, s, x, k) PROVE FALSE
      BY <1>1, <1>2, <2>6, SpaetFakten
    <3>2. k \in aktiv /\ k.von = x /\ k.nach \in knoten /\ k.nach \notin S
      <4>1. k \in aktiv /\ k.von = x
        BY DEF Aus
      <4>2. [von |-> k.nach, nach |-> k.von] \in Umgekehrt(aktiv)
        BY <4>1 DEF Umgekehrt
      <4>3. QED
        BY <1>5, <2>5, <4>1, <4>2
    <3>3. k.nach # e
      BY <2>4, <3>2
    <3>4. PICK v : v = Verletzung(q[k.von], q[k.nach], k)
      OBVIOUS
    <3>5. v \in Int /\ SpaetVor(p, s, k.von, k) - q[k.von].ende = s[k.nach] - q[k.nach].ende - v
      <4>1. q[k.von] \in Daten /\ q[k.nach] \in Daten /\ s[k.nach] \in Int
        BY <1>3, <2>2, <2>6, <3>2
      <4>2. Dauer(q, k.von) = Dauer(p, k.von) /\ Dauer(q, k.nach) = Dauer(p, k.nach)
        BY <2>2, <2>6, <3>2
      <4>3. QED
        BY <3>2, <3>4, <4>1, <4>2, SpaetHaelt
    <3>6. v <= 0
      BY <2>2, <3>2, <3>3, <3>4 DEF Erfuellt
    <3>7. q[k.nach].ende <= s[k.nach] /\ q[k.nach].ende \in Int /\ s[k.nach] \in Int
      BY <1>3, <2>3, <3>2
    <3>8. s[x] - q[x].ende = s[k.nach] - q[k.nach].ende - v
      BY <3>1, <3>2, <3>5
    <3>9. QED
      BY <1>3, <2>3, <2>6, <3>5, <3>6, <3>7, <3>8
  <2>8. q[x].ende <= ProjektEnde(q, knoten) /\ ProjektEnde(q, knoten) \in Int
    BY <1>3, <2>2, <2>6, ProjektEndeFakten
  <2>9. QED
    BY <1>3, <2>1, <2>3, <2>6, <2>7, <2>8
<1>8. QED
  BY <1>2, <1>6, <1>7

-----------------------------------------------------------------------------
(***************************************************************************)
(* What the requests write: the plan, and with it the span of the phase.   *)
(***************************************************************************)

PlanTyp(p) ==
  /\ p \in [Elemente -> Zeitraum \cup {Undatiert}]
  /\ \A e \in Elemente : p[e] \in Erlaubt(e) \cup {Undatiert}
Spannentyp == Zeitraum \cup {Undatiert}

LEMMA ZeitraumFakten ==
  /\ \A z \in Zeitraum : z \in Daten /\ z.start \in 0 .. MaxTag /\ z.ende \in 0 .. MaxTag /\ z.start <= z.ende
  /\ \A z \in Zeitraum : z = [start |-> z.start, ende |-> z.ende]
  /\ \A x, y \in 0 .. MaxTag : x <= y => [start |-> x, ende |-> y] \in Zeitraum
<1>1. \A z \in Zeitraum : z \in Daten
  BY DatenFakten
<1>2. \A z \in Zeitraum : /\ z.start \in 0 .. MaxTag /\ z.ende \in 0 .. MaxTag /\ z.start <= z.ende
                          /\ z = [start |-> z.start, ende |-> z.ende]
  BY DEF Zeitraum
<1>3. \A x, y \in 0 .. MaxTag : x <= y => [start |-> x, ende |-> y] \in Zeitraum
  BY DEF Zeitraum
<1>4. QED
  BY <1>1, <1>2, <1>3

LEMMA PlanFakten ==
  ASSUME NEW p, PlanTyp(p)
  PROVE  /\ p \in Bestand /\ InDenTagen(p)
         /\ \A e \in Meilensteine : p[e].start = p[e].ende
<1>1. p \in Bestand
  BY ZeitraumFakten DEF PlanTyp, Bestand
<1>2. InDenTagen(p)
  BY DEF PlanTyp, InDenTagen, Datiert
<1>3. \A e \in Meilensteine : p[e].start = p[e].ende
  <2> SUFFICES ASSUME NEW e \in Meilensteine PROVE p[e].start = p[e].ende
    OBVIOUS
  <2>1. e \in Elemente
    BY ZeitplanAnnahme
  <2>2. CASE p[e] = Undatiert
    BY <2>2 DEF Undatiert
  <2>3. CASE p[e] # Undatiert
    BY <2>1, <2>3 DEF PlanTyp, Erlaubt
  <2>4. QED
    BY <2>2, <2>3
<1>4. QED
  BY <1>1, <1>2, <1>3

\* What has dates of the calendar, and milestones without duration, is a plan.
LEMMA PlanAus ==
  ASSUME NEW p \in Bestand, InDenTagen(p), \A e \in Meilensteine : p[e].start = p[e].ende
  PROVE  PlanTyp(p)
<1>1. \A e \in Elemente : p[e] \in Zeitraum \cup {Undatiert}
  BY DatiertFakten DEF InDenTagen
<1>2. \A e \in Elemente : p[e] \in Erlaubt(e) \cup {Undatiert}
  BY <1>1 DEF Erlaubt
<1>3. QED
  BY <1>1, <1>2 DEF PlanTyp, Bestand

LEMMA AktivFakten ==
  ASSUME NEW p \in Bestand, NEW lebend, NEW ks \in SUBSET Kante, IsFiniteSet(ks)
  PROVE  Zulaessig(p, AktiveKanten(p, lebend, ks))
<1>1. IsFiniteSet(AktiveKanten(p, lebend, ks))
  BY FS_Subset DEF AktiveKanten
<1>2. QED
  BY <1>1 DEF Zulaessig, AktiveKanten

LEMMA SpanneFakten ==
  ASSUME NEW p \in Bestand, InDenTagen(p), NEW lebend, NEW kinder
  PROVE  Spanne(p, lebend, kinder) \in Spannentyp
<1>1. PICK S : S = kinder \cap lebend \cap Datiert(p)
  OBVIOUS
<1>2. CASE S = {}
  BY <1>1, <1>2 DEF Spanne, Spannentyp
<1>3. CASE S # {}
  <2>1. \A e \in S : p[e].start \in 0 .. MaxTag /\ p[e].ende \in 0 .. MaxTag /\ p[e].start <= p[e].ende
    BY <1>1, ZeitraumFakten DEF InDenTagen
  <2>2. IsFiniteSet(S)
    BY <1>1, ZeitplanAnnahme, FS_Subset DEF Datiert
  <2>3. PICK X : X = {p[e].start : e \in S}
    OBVIOUS
  <2>4. PICK Y : Y = {p[e].ende : e \in S}
    OBVIOUS
  <2>5. X \in SUBSET Int /\ X # {} /\ Y \in SUBSET Int /\ Y # {}
    BY <1>3, <2>1, <2>3, <2>4
  <2>6. IsFiniteSet(X) /\ IsFiniteSet(Y)
    <3> DEFINE f == [e \in S |-> p[e].start]
               g == [e \in S |-> p[e].ende]
    <3>1. X = {f[e] : e \in S} /\ Y = {g[e] : e \in S}
      BY <2>3, <2>4
    <3> HIDE DEF f, g
    <3>2. QED
      BY <2>2, <3>1, BildEndlich
  <2>7. PICK x : x = Min(X)
    OBVIOUS
  <2>8. PICK y : y = Max(Y)
    OBVIOUS
  <2>9. x \in X /\ (\A v \in X : x <= v) /\ y \in Y /\ \A v \in Y : y >= v
    BY <2>5, <2>6, <2>7, <2>8, MinFakten, MaxFakten
  <2>10. x \in 0 .. MaxTag /\ y \in 0 .. MaxTag /\ x <= y
    <3>1. PICK e \in S : TRUE
      BY <1>3
    <3>2. x <= p[e].start /\ p[e].ende <= y
      BY <2>3, <2>4, <2>9
    <3>3. x \in 0 .. MaxTag /\ y \in 0 .. MaxTag
      BY <2>1, <2>3, <2>4, <2>9
    <3>4. QED
      BY <2>1, <3>2, <3>3
  <2>11. Spanne(p, lebend, kinder) = [start |-> x, ende |-> y]
    BY <1>1, <1>3, <2>3, <2>4, <2>7, <2>8 DEF Spanne
  <2>12. QED
    BY <2>10, <2>11, ZeitraumFakten DEF Spannentyp
<1>4. QED
  BY <1>2, <1>3

LEMMA SchreibeFakten ==
  ASSUME NEW p \in Bestand, Schreibe(p), \A e \in Meilensteine : p[e].start = p[e].ende
  PROVE  PlanTyp(plan') /\ spanne' \in Spannentyp /\ spanne' = Spanne(plan', da, inPhase)
<1>1. InDenTagen(p) /\ plan' = p /\ spanne' = Spanne(p, da, inPhase)
  BY DEF Schreibe
<1>2. PlanTyp(p)
  BY <1>1, PlanAus
<1>3. Spanne(p, da, inPhase) \in Spannentyp
  BY <1>1, SpanneFakten
<1>4. QED
  BY <1>1, <1>2, <1>3

\* A milestone that keeps its duration stays a milestone.
LEMMA MeilensteinBleibt ==
  ASSUME NEW p \in Bestand, NEW q \in Bestand, Datiert(q) = Datiert(p),
         \A e \in Datiert(p) : q[e].ende - q[e].start = p[e].ende - p[e].start,
         \A e \in Meilensteine : p[e].start = p[e].ende
  PROVE  \A e \in Meilensteine : q[e].start = q[e].ende
<1> SUFFICES ASSUME NEW e \in Meilensteine PROVE q[e].start = q[e].ende
  OBVIOUS
<1>1. e \in Elemente
  BY ZeitplanAnnahme
<1>2. CASE e \in Datiert(p)
  <2>1. p[e] \in Daten /\ q[e] \in Daten
    BY <1>2, DatiertFakten
  <2>2. p[e].start \in Int /\ p[e].ende \in Int /\ q[e].start \in Int /\ q[e].ende \in Int
    BY <2>1, DatenFakten
  <2>3. q[e].ende - q[e].start = p[e].ende - p[e].start /\ p[e].start = p[e].ende
    BY <1>2
  <2>4. QED
    BY <2>2, <2>3
<1>3. CASE e \notin Datiert(p)
  <2>1. q[e] = Undatiert
    BY <1>1, <1>3 DEF Datiert
  <2>2. QED
    BY <2>1 DEF Undatiert
<1>4. QED
  BY <1>2, <1>3

\* propagiere() on the plan and the connections that take part in it, and what is written.
LEMMA NachgezogenGeschrieben ==
  ASSUME NEW p \in Bestand, \A e \in Meilensteine : p[e].start = p[e].ende,
         NEW lebend, NEW ks \in SUBSET Kante, IsFiniteSet(ks), NEW aktiv, aktiv = AktiveKanten(p, lebend, ks),
         NEW ausgang, NEW erzwinge, NEW fest, DOMAIN ausgang \cup erzwinge \subseteq Datiert(p),
         \A n \in DOMAIN ausgang : ausgang[n].start \in Int /\ ausgang[n].ende \in Int,
         ImKreis(aktiv) \cap Erreichbar(aktiv, DOMAIN ausgang \cup erzwinge) = {},
         Schreibe(Nachgezogen(p, aktiv, ausgang, erzwinge, fest))
  PROVE  /\ PlanTyp(plan') /\ spanne' \in Spannentyp /\ spanne' = Spanne(plan', da, inPhase)
         /\ \E B : /\ DOMAIN ausgang \cup erzwinge \subseteq B /\ Geschlossen(aktiv, B)
                   /\ IstNachzug(p, aktiv, DOMAIN ausgang, B, fest, plan')
<1>1. Zulaessig(p, aktiv)
  BY AktivFakten
<1>2. PICK q : q = Nachgezogen(p, aktiv, ausgang, erzwinge, fest)
  OBVIOUS
<1>3. PICK B : /\ DOMAIN ausgang \cup erzwinge \subseteq B /\ Geschlossen(aktiv, B)
               /\ IstNachzug(p, aktiv, DOMAIN ausgang, B, fest, q)
  BY <1>1, <1>2, NachzugFakten
<1>4. /\ q \in Bestand /\ Datiert(q) = Datiert(p)
      /\ \A e \in Datiert(p) : q[e].ende - q[e].start = p[e].ende - p[e].start
  BY <1>3 DEF IstNachzug
<1>5. \A e \in Meilensteine : q[e].start = q[e].ende
  BY <1>4, MeilensteinBleibt
<1>6. plan' = q /\ Schreibe(q)
  BY <1>2 DEF Schreibe
<1>7. QED
  BY <1>3, <1>4, <1>5, <1>6, SchreibeFakten

\* What an invariant of the schedule has to say of its rows and connections.
Grundlage == PlanTyp(plan) /\ kanten \subseteq Kante /\ IsFiniteSet(kanten)

LEMMA SetzeFakten ==
  ASSUME Grundlage, NEW e \in Elemente, NEW neu \in Erlaubt(e) \cup {Undatiert}, Setze(e, neu)
  PROVE  /\ PlanTyp(plan') /\ spanne' \in Spannentyp /\ spanne' = Spanne(plan', da, inPhase)
         /\ plan'[e] = neu /\ \A n \in (Fest \ {e}) \cap Elemente : plan'[n] = plan[n]
         /\ neu # Undatiert =>
              /\ \A k \in Aktiv(plan) : Erfuellt(plan, k) /\ ~Erfuellt(plan', k) => k.nach \in {e} \cup Fest
              /\ \A n \in Datiert(plan) \ {e} :
                   /\ plan'[n].ende - plan'[n].start = plan[n].ende - plan[n].start
                   /\ modus = "bei_konflikt" => plan'[n].start >= plan[n].start
<1>1. plan \in Bestand /\ \A x \in Meilensteine : plan[x].start = plan[x].ende
  BY PlanFakten DEF Grundlage
<1>2. PICK p : p = [plan EXCEPT ![e] = neu]
  OBVIOUS
<1>3. neu \in Zeitraum \cup {Undatiert} /\ (e \in Meilensteine => neu.start = neu.ende)
  <2>1. CASE neu = Undatiert
    BY <2>1 DEF Undatiert
  <2>2. CASE neu \in Erlaubt(e)
    BY <2>2 DEF Erlaubt
  <2>3. QED
    BY <2>1, <2>2
<1>4. /\ p \in Bestand /\ p[e] = neu /\ \A n \in Elemente \ {e} : p[n] = plan[n]
  BY <1>1, <1>2, <1>3, ZeitraumFakten DEF Bestand
<1>5. \A x \in Meilensteine : p[x].start = p[x].ende
  <2>1. \A x \in Meilensteine : x \in Elemente
    BY ZeitplanAnnahme
  <2>2. QED
    BY <1>1, <1>3, <1>4, <2>1
<1>6. CASE neu = Undatiert
  <2>1. Schreibe(p) /\ plan' = p
    BY <1>2, <1>6 DEF Setze, Schreibe
  <2>2. PlanTyp(plan') /\ spanne' \in Spannentyp /\ spanne' = Spanne(plan', da, inPhase)
    BY <1>4, <1>5, <2>1, SchreibeFakten
  <2>3. QED
    BY <1>4, <1>6, <2>1, <2>2
<1>7. CASE neu # Undatiert
  <2>1. neu \in Zeitraum /\ neu.start \in Int /\ neu.ende \in Int
    BY <1>3, <1>7, ZeitraumFakten
  <2>2. PICK delta : delta = IF plan[e] = Undatiert THEN [start |-> 0, ende |-> 0]
                             ELSE [start |-> neu.start - plan[e].start, ende |-> neu.ende - plan[e].ende]
    OBVIOUS
  <2>3. delta.start \in Int /\ delta.ende \in Int
    <3>1. CASE plan[e] = Undatiert
      BY <2>2, <3>1
    <3>2. CASE plan[e] # Undatiert
      <4>1. plan[e] \in Daten
        BY <1>1, <3>2 DEF Bestand
      <4>2. plan[e].start \in Int /\ plan[e].ende \in Int
        BY <4>1, DatenFakten
      <4>3. QED
        BY <2>1, <2>2, <3>2, <4>2
    <3>3. QED
      BY <3>1, <3>2
  <2>4. PICK a : a = [n \in {e} |-> delta]
    OBVIOUS
  <2>5. DOMAIN a = {e} /\ \A n \in DOMAIN a : a[n].start \in Int /\ a[n].ende \in Int
    BY <2>3, <2>4
  <2>6. PICK aktiv : aktiv = AktiveKanten(p, da, kanten)
    OBVIOUS
  <2>7. PICK leer : leer = {}
    OBVIOUS
  <2>8. ImKreis(aktiv) \cap Erreichbar(aktiv, {e}) = {} /\ Schreibe(Nachgezogen(p, aktiv, a, leer, Fest))
    BY <1>2, <1>7, <2>2, <2>4, <2>6, <2>7 DEF Setze, Aktiv
  <2>9. DOMAIN a \cup leer = {e} /\ e \in Datiert(p)
    BY <1>4, <1>7, <2>5, <2>7 DEF Datiert
  <2>10. /\ PlanTyp(plan') /\ spanne' \in Spannentyp /\ spanne' = Spanne(plan', da, inPhase)
         /\ \E B : /\ DOMAIN a \cup leer \subseteq B /\ Geschlossen(aktiv, B)
                   /\ IstNachzug(p, aktiv, DOMAIN a, B, Fest, plan')
    <3>1. ImKreis(aktiv) \cap Erreichbar(aktiv, DOMAIN a \cup leer) = {}
      BY <2>8, <2>9
    <3>2. DOMAIN a \cup leer \subseteq Datiert(p)
      BY <2>9
    <3>3. kanten \in SUBSET Kante /\ IsFiniteSet(kanten)
      BY DEF Grundlage
    <3>4. QED
      BY <1>4, <1>5, <2>5, <2>6, <2>8, <3>1, <3>2, <3>3, NachgezogenGeschrieben
  <2>11. PICK B : e \in B /\ Geschlossen(aktiv, B) /\ IstNachzug(p, aktiv, {e}, B, Fest, plan')
    BY <2>5, <2>9, <2>10
  <2>12. plan'[e] = neu
    BY <1>4, <2>11 DEF IstNachzug
  <2>13. \A n \in (Fest \ {e}) \cap Elemente : plan'[n] = plan[n]
    BY <1>4, <2>11 DEF IstNachzug
  <2>14. Datiert(plan) \subseteq Datiert(p)
    BY <1>4, <1>7 DEF Datiert
  <2>15. ASSUME NEW k \in Aktiv(plan), Erfuellt(plan, k), ~Erfuellt(plan', k) PROVE k.nach \in {e} \cup Fest
    <3>1. SUFFICES ASSUME k.nach \notin {e} \cup Fest PROVE FALSE
      OBVIOUS
    <3>2. k \in aktiv /\ k.von \in Elemente /\ k.nach \in Elemente
      BY <2>6, <2>14 DEF Aktiv, AktiveKanten, Datiert
    <3>3. k.nach \notin B
      BY <2>11, <2>15, <3>1, <3>2 DEF IstNachzug
    <3>4. k.von \notin B /\ k.von # e /\ k.nach # e
      BY <2>11, <3>2, <3>3 DEF Geschlossen
    <3>5. plan'[k.von] = plan[k.von] /\ plan'[k.nach] = plan[k.nach]
      BY <1>4, <2>11, <3>2, <3>3, <3>4 DEF IstNachzug
    <3>6. QED
      BY <2>15, <3>5 DEF Erfuellt
  <2>16. ASSUME NEW n \in Datiert(plan) \ {e}
         PROVE  /\ plan'[n].ende - plan'[n].start = plan[n].ende - plan[n].start
                /\ modus = "bei_konflikt" => plan'[n].start >= plan[n].start
    <3>1. n \in Datiert(p) /\ p[n] = plan[n]
      BY <1>4, <2>14 DEF Datiert
    <3>2. QED
      BY <2>11, <3>1 DEF IstNachzug
  <2>17. QED
    BY <2>10, <2>12, <2>13, <2>15, <2>16
<1>8. QED
  BY <1>6, <1>7

LEMMA RegelFakten ==
  ASSUME Grundlage, kanten' \subseteq Kante, IsFiniteSet(kanten'), NEW nach, RegelAnwenden(nach)
  PROVE  /\ PlanTyp(plan') /\ spanne' \in Spannentyp /\ spanne' = Spanne(plan', da, inPhase)
         /\ Datiert(plan') = Datiert(plan) /\ \A n \in Fest \cap Elemente : plan'[n] = plan[n]
         /\ \A k \in kanten' : {k.von, k.nach} \subseteq Datiert(plan) \cap da /\ k.nach = nach =>
              Erfuellt(plan', k) \/ nach \in Fest
<1>1. plan \in Bestand /\ \A x \in Meilensteine : plan[x].start = plan[x].ende
  BY PlanFakten DEF Grundlage
<1>2. PICK ks : ks = kanten'
  OBVIOUS
<1>3. PICK aktiv : aktiv = AktiveKanten(plan, da, ks)
  OBVIOUS
<1>4. PICK leer : leer = [n \in {} |-> 0]
  OBVIOUS
<1>5. DOMAIN leer = {}
  BY <1>4
<1>6. /\ nach \in da \cap Datiert(plan) /\ ImKreis(aktiv) \cap Erreichbar(aktiv, {nach}) = {}
      /\ Schreibe(Nachgezogen(plan, aktiv, leer, {nach}, Fest))
  BY <1>2, <1>3, <1>4 DEF RegelAnwenden
<1>7. /\ PlanTyp(plan') /\ spanne' \in Spannentyp /\ spanne' = Spanne(plan', da, inPhase)
      /\ \E B : /\ DOMAIN leer \cup {nach} \subseteq B /\ Geschlossen(aktiv, B)
                /\ IstNachzug(plan, aktiv, DOMAIN leer, B, Fest, plan')
  <2>1. DOMAIN leer \cup {nach} = {nach}
    BY <1>5
  <2>2. ImKreis(aktiv) \cap Erreichbar(aktiv, DOMAIN leer \cup {nach}) = {}
    BY <1>6, <2>1
  <2>3. DOMAIN leer \cup {nach} \subseteq Datiert(plan) /\ \A n \in DOMAIN leer : leer[n].start \in Int /\ leer[n].ende \in Int
    BY <1>5, <1>6
  <2>4. ks \in SUBSET Kante /\ IsFiniteSet(ks)
    BY <1>2
  <2>5. QED
    BY <1>1, <1>3, <1>6, <2>2, <2>3, <2>4, NachgezogenGeschrieben
<1>8. PICK B : nach \in B /\ IstNachzug(plan, aktiv, {}, B, Fest, plan')
  BY <1>5, <1>7
<1>9. Datiert(plan') = Datiert(plan) /\ \A n \in Fest \cap Elemente : plan'[n] = plan[n]
  BY <1>8 DEF IstNachzug
<1>10. ASSUME NEW k \in kanten', {k.von, k.nach} \subseteq Datiert(plan) \cap da, k.nach = nach
       PROVE  Erfuellt(plan', k) \/ nach \in Fest
  <2>1. k \in aktiv
    BY <1>2, <1>3, <1>10 DEF AktiveKanten
  <2>2. QED
    BY <1>8, <1>10, <2>1 DEF IstNachzug
<1>11. QED
  BY <1>7, <1>9, <1>10

LEMMA PhaseFakten ==
  ASSUME Grundlage, NEW tage \in Int, PhaseVerschieben(tage)
  PROVE  /\ PlanTyp(plan') /\ spanne' \in Spannentyp /\ spanne' = Spanne(plan', da, inPhase)
         /\ \A n \in Fest \cap Elemente : plan'[n] = plan[n]
<1>1. plan \in Bestand /\ \A x \in Meilensteine : plan[x].start = plan[x].ende
  BY PlanFakten DEF Grundlage
<1>2. PICK kinder : kinder = (inPhase \cap da \cap Datiert(plan)) \ Fest
  OBVIOUS
<1>3. \A e \in kinder : e \in Elemente /\ plan[e] \in Daten
  BY <1>1, <1>2, DatiertFakten
<1>4. PICK p : p = [e \in Elemente |-> IF e \in kinder THEN Geschoben(plan[e], tage) ELSE plan[e]]
  OBVIOUS
<1>5. \A e \in Elemente : p[e] = IF e \in kinder THEN Geschoben(plan[e], tage) ELSE plan[e]
  BY <1>4
<1>6. \A e \in kinder : p[e] \in Daten /\ p[e].ende - p[e].start = plan[e].ende - plan[e].start
  BY <1>3, <1>5, GeschobenFakten
<1>7. p \in Bestand
  <2>1. \A e \in Elemente : p[e] \in Daten \cup {Undatiert}
    <3> SUFFICES ASSUME NEW e \in Elemente PROVE p[e] \in Daten \cup {Undatiert}
      OBVIOUS
    <3>1. CASE e \in kinder
      BY <1>6, <3>1
    <3>2. CASE e \notin kinder
      BY <1>1, <1>5, <3>2 DEF Bestand
    <3>3. QED
      BY <3>1, <3>2
  <2>2. QED
    BY <1>4, <2>1 DEF Bestand
<1>8. Datiert(p) = Datiert(plan)
  <2>1. \A e \in kinder : e \in Datiert(p) /\ e \in Datiert(plan)
    BY <1>2, <1>3, <1>6, <1>7, DatiertFakten
  <2>2. QED
    BY <1>5, <2>1 DEF Datiert
<1>9. \A x \in Meilensteine : p[x].start = p[x].ende
  <2>1. \A e \in Datiert(plan) : p[e].ende - p[e].start = plan[e].ende - plan[e].start
    BY <1>5, <1>6 DEF Datiert
  <2>2. QED
    BY <1>1, <1>7, <1>8, <2>1, MeilensteinBleibt
<1>10. PICK aktiv : aktiv = AktiveKanten(p, da, kanten)
  OBVIOUS
<1>11. PICK a : a = [n \in kinder |-> [start |-> tage, ende |-> tage]]
  OBVIOUS
<1>12. DOMAIN a = kinder /\ \A n \in DOMAIN a : a[n].start \in Int /\ a[n].ende \in Int
  BY <1>11
<1>13. PICK leer : leer = {}
  OBVIOUS
<1>14. ImKreis(aktiv) \cap Erreichbar(aktiv, kinder) = {} /\ Schreibe(Nachgezogen(p, aktiv, a, leer, Fest))
  BY <1>2, <1>4, <1>10, <1>11, <1>13 DEF PhaseVerschieben, Aktiv
<1>15. /\ PlanTyp(plan') /\ spanne' \in Spannentyp /\ spanne' = Spanne(plan', da, inPhase)
       /\ \E B : /\ DOMAIN a \cup leer \subseteq B /\ Geschlossen(aktiv, B)
                 /\ IstNachzug(p, aktiv, DOMAIN a, B, Fest, plan')
  <2>1. DOMAIN a \cup leer = kinder
    BY <1>12, <1>13
  <2>2. ImKreis(aktiv) \cap Erreichbar(aktiv, DOMAIN a \cup leer) = {}
    BY <1>14, <2>1
  <2>3. DOMAIN a \cup leer \subseteq Datiert(p)
    BY <1>2, <1>8, <2>1
  <2>4. kanten \in SUBSET Kante /\ IsFiniteSet(kanten)
    BY DEF Grundlage
  <2>5. QED
    BY <1>7, <1>9, <1>10, <1>12, <1>14, <2>2, <2>3, <2>4, NachgezogenGeschrieben
<1>16. \A n \in Fest \cap Elemente : plan'[n] = plan[n]
  <2>1. \A n \in Fest \cap Elemente : p[n] = plan[n]
    BY <1>2, <1>5
  <2>2. QED
    BY <1>15, <2>1 DEF IstNachzug
<1>17. QED
  BY <1>15, <1>16

LEMMA StraffenFakten ==
  ASSUME Grundlage, NEW wer, Schreibe(Gestrafft(plan, Aktiv(plan), wer \ Fest))
  PROVE  /\ PlanTyp(plan') /\ spanne' \in Spannentyp /\ spanne' = Spanne(plan', da, inPhase)
         /\ \A n \in Fest \cap Elemente : plan'[n] = plan[n]
<1>1. plan \in Bestand /\ \A x \in Meilensteine : plan[x].start = plan[x].ende
  BY PlanFakten DEF Grundlage
<1>2. PICK aktiv : aktiv = Aktiv(plan)
  OBVIOUS
<1>3. Zulaessig(plan, aktiv)
  BY <1>1, <1>2, AktivFakten DEF Grundlage, Aktiv
<1>4. PICK w : w = wer \ Fest
  OBVIOUS
<1>5. PICK s : s = Gestrafft(plan, aktiv, w)
  OBVIOUS
<1>6. /\ s \in Bestand /\ Datiert(s) = Datiert(plan)
      /\ \A e \in Datiert(plan) : s[e].ende - s[e].start = plan[e].ende - plan[e].start
      /\ \A e \in Elemente \ w : s[e] = plan[e]
  BY <1>3, <1>5, StraffFakten
<1>7. \A x \in Meilensteine : s[x].start = s[x].ende
  BY <1>1, <1>6, MeilensteinBleibt
<1>8. plan' = s /\ Schreibe(s)
  BY <1>2, <1>4, <1>5 DEF Schreibe
<1>9. QED
  BY <1>4, <1>6, <1>7, <1>8, SchreibeFakten

-----------------------------------------------------------------------------
(***************************************************************************)
(* The invariant of the schedule.                                          *)
(***************************************************************************)

BestellungTyp == [fuer : Meilensteine \cup {Ohne}, termin : 0..MaxTag \cup {Ohne}, da : BOOLEAN]

IPlan ==
  /\ ZpTyp /\ IsFiniteSet(kanten) /\ KreisGilt
  /\ SpanneStimmt /\ LieferterminGilt
  /\ fremd = 0 => bestellung.da

LEMMA IPlanHeisst ==
  ASSUME IPlan
  PROVE  /\ Grundlage /\ da \subseteq Elemente /\ inPhase \subseteq Elemente /\ spanne \in Spannentyp
         /\ geprueft \subseteq Kante /\ modus \in {"bei_konflikt", "immer"} /\ bestellung \in BestellungTyp
         /\ planer \in 1 .. MaxPlaner /\ fremd \in 0 .. MaxFremd
  BY DEF IPlan, ZpTyp, Grundlage, PlanTyp, Spannentyp, BestellungTyp

LEMMA IPlanFolgt ==
  ASSUME /\ PlanTyp(plan') /\ da' \subseteq Elemente /\ inPhase' \subseteq Elemente /\ spanne' \in Spannentyp
         /\ kanten' \subseteq Kante /\ IsFiniteSet(kanten') /\ geprueft' \subseteq Kante
         /\ modus' \in {"bei_konflikt", "immer"} /\ bestellung' \in BestellungTyp
         /\ planer' \in 1 .. MaxPlaner /\ fremd' \in 0 .. MaxFremd /\ KreisGilt'
         /\ fremd' = 0 =>
              /\ spanne' = Spanne(plan', da', inPhase') /\ bestellung'.da
              /\ bestellung'.fuer \in da' =>
                   plan'[bestellung'.fuer] = [start |-> bestellung'.termin, ende |-> bestellung'.termin]
  PROVE  IPlan'
<1>1. ZpTyp'
  BY DEF ZpTyp, PlanTyp, Spannentyp, BestellungTyp
<1>2. SpanneStimmt'
  BY DEF SpanneStimmt
<1>3. LieferterminGilt'
  BY DEF LieferterminGilt
<1>4. QED
  BY <1>1, <1>2, <1>3 DEF IPlan

LEMMA IPlanStart == ZpInit => IPlan
<1> SUFFICES ASSUME ZpInit PROVE IPlan
  OBVIOUS
<1>1. PlanTyp(plan)
  BY DEF ZpInit, PlanTyp
<1>2. Datiert(plan) = {}
  BY DEF ZpInit, Datiert
<1>3. spanne = Spanne(plan, da, inPhase) /\ spanne \in Spannentyp
  BY <1>2 DEF ZpInit, Spanne, Spannentyp
<1>4. IsFiniteSet(kanten) /\ KreisGilt
  BY FS_EmptySet, KreisStart DEF ZpInit
<1>5. bestellung \in BestellungTyp /\ bestellung.da /\ bestellung.fuer = Ohne
  BY DEF ZpInit, BestellungTyp
<1>6. Ohne \notin Elemente /\ MaxFremd \in Nat
  BY ZeitplanAnnahme
<1>7. ZpTyp
  BY <1>1, <1>3, <1>5, <1>6 DEF ZpInit, ZpTyp, PlanTyp, Spannentyp, BestellungTyp
<1>8. QED
  BY <1>3, <1>4, <1>5, <1>6, <1>7 DEF ZpInit, IPlan, SpanneStimmt, LieferterminGilt

\* The rows a date of an order owns: without changes past the schedule, the linked one.
LEMMA FestFakten ==
  ASSUME IPlan
  PROVE  /\ Fest \subseteq Meilensteine /\ Meilensteine \subseteq Elemente
         /\ fremd = 0 /\ bestellung.fuer \in da => bestellung.fuer \in Fest
<1>1. bestellung \in BestellungTyp /\ da \subseteq Elemente
  BY IPlanHeisst
<1>2. QED
  BY <1>1, ZeitplanAnnahme DEF IPlan, Fest, BestellungTyp

\* A request that writes a plan, and leaves the rows alone that an order owns.
LEMMA PlanGeschrieben ==
  ASSUME IPlan, KreisGilt', UNCHANGED <<da, inPhase, modus, bestellung, planer, fremd>>,
         kanten' \subseteq Kante, IsFiniteSet(kanten'), geprueft' \subseteq Kante,
         PlanTyp(plan'), spanne' \in Spannentyp, spanne' = Spanne(plan', da, inPhase),
         \A n \in Fest \cap Elemente : plan'[n] = plan[n]
  PROVE  IPlan'
<1>1. fremd = 0 =>
        /\ bestellung.da
        /\ bestellung.fuer \in da => plan'[bestellung.fuer] = [start |-> bestellung.termin, ende |-> bestellung.termin]
  BY FestFakten DEF IPlan, LieferterminGilt
<1>2. QED
  BY <1>1, IPlanHeisst, IPlanFolgt

LEMMA IPlanSchritt == IPlan /\ [ZpNext]_zpVars => IPlan'
<1> SUFFICES ASSUME IPlan, [ZpNext]_zpVars PROVE IPlan'
  OBVIOUS
<1>1. KreisGilt'
  BY KreisSchritt DEF IPlan
<1>2. /\ Grundlage /\ da \subseteq Elemente /\ inPhase \subseteq Elemente /\ spanne \in Spannentyp
      /\ geprueft \subseteq Kante /\ modus \in {"bei_konflikt", "immer"} /\ bestellung \in BestellungTyp
      /\ planer \in 1 .. MaxPlaner /\ fremd \in 0 .. MaxFremd
  BY IPlanHeisst
<1>3. PlanTyp(plan) /\ plan \in Bestand /\ InDenTagen(plan) /\ kanten \subseteq Kante /\ IsFiniteSet(kanten)
  BY <1>2, PlanFakten DEF Grundlage
<1>4. \A lebend, kinder : Spanne(plan, lebend, kinder) \in Spannentyp
  BY <1>3, SpanneFakten
<1>5. fremd = 0 =>
        /\ spanne = Spanne(plan, da, inPhase) /\ bestellung.da
        /\ bestellung.fuer \in da => plan[bestellung.fuer] = [start |-> bestellung.termin, ende |-> bestellung.termin]
  BY DEF IPlan, SpanneStimmt, LieferterminGilt
<1>6. Meilensteine \subseteq Elemente /\ Ohne \notin Elemente /\ MaxFremd \in Nat
  BY ZeitplanAnnahme
<1>7. CASE UNCHANGED zpVars
  BY <1>1, <1>2, <1>3, <1>5, <1>7, IPlanFolgt DEF zpVars
<1>8. ASSUME NEW e \in Elemente, NEW neu \in Erlaubt(e) \cup {Undatiert}, ElementAendern(e, neu) PROVE IPlan'
  <2>1. /\ Setze(e, neu) /\ e \notin Fest
        /\ UNCHANGED <<da, inPhase, kanten, modus, bestellung, geprueft, planer, fremd>>
    BY <1>8 DEF ElementAendern
  <2>2. /\ PlanTyp(plan') /\ spanne' \in Spannentyp /\ spanne' = Spanne(plan', da, inPhase)
        /\ \A n \in (Fest \ {e}) \cap Elemente : plan'[n] = plan[n]
    BY <1>2, <2>1, SetzeFakten
  <2>3. \A n \in Fest \cap Elemente : plan'[n] = plan[n]
    BY <2>1, <2>2
  <2>4. QED
    BY <1>1, <1>2, <1>3, <2>1, <2>2, <2>3, PlanGeschrieben
<1>9. ASSUME NEW e \in Elemente, PhaseWechseln(e) PROVE IPlan'
  <2>1. /\ inPhase' \subseteq Elemente /\ spanne' = Spanne(plan, da, inPhase')
        /\ UNCHANGED <<plan, da, kanten, modus, bestellung, geprueft, planer, fremd>>
    BY <1>2, <1>9 DEF PhaseWechseln
  <2>2. QED
    BY <1>1, <1>2, <1>3, <1>4, <1>5, <2>1, IPlanFolgt
<1>10. ASSUME NEW e \in Elemente, ElementLoeschen(e) PROVE IPlan'
  <2>1. /\ da' \subseteq da /\ kanten' \subseteq kanten /\ spanne' = Spanne(plan, da', inPhase)
        /\ UNCHANGED <<plan, inPhase, modus, bestellung, geprueft, planer, fremd>>
    BY <1>10 DEF ElementLoeschen
  <2>2. IsFiniteSet(kanten')
    BY <1>3, <2>1, FS_Subset
  <2>3. QED
    BY <1>1, <1>2, <1>3, <1>4, <1>5, <2>1, <2>2, IPlanFolgt
<1>11. ASSUME NEW e \in Elemente, NEW termin \in 0..MaxTag \cup {Ohne}, BestellungVerknuepfen(e, termin) PROVE IPlan'
  <2>1. /\ e \in Meilensteine /\ bestellung.fuer = Ohne
        /\ bestellung' = [bestellung EXCEPT !.fuer = e, !.termin = termin]
        /\ Setze(e, [start |-> termin, ende |-> termin])
        /\ UNCHANGED <<da, inPhase, kanten, modus, geprueft, planer, fremd>>
    BY <1>11 DEF BestellungVerknuepfen
  <2>2. /\ bestellung' \in BestellungTyp /\ bestellung'.fuer = e /\ bestellung'.termin = termin
        /\ bestellung'.da = bestellung.da
    BY <1>2, <2>1 DEF BestellungTyp
  <2>3. PICK neu \in Erlaubt(e) \cup {Undatiert} : neu = [start |-> termin, ende |-> termin]
    <3>1. CASE termin = Ohne
      BY <3>1 DEF Undatiert
    <3>2. CASE termin \in 0 .. MaxTag
      <4>1. [start |-> termin, ende |-> termin] \in Zeitraum
        BY <3>2, ZeitraumFakten
      <4>2. QED
        BY <4>1 DEF Erlaubt
    <3>3. QED
      BY <3>1, <3>2
  <2>4. /\ PlanTyp(plan') /\ spanne' \in Spannentyp /\ spanne' = Spanne(plan', da, inPhase)
        /\ plan'[e] = neu
    BY <1>2, <2>1, <2>3, SetzeFakten
  <2>5. QED
    BY <1>1, <1>2, <1>3, <1>5, <2>1, <2>2, <2>3, <2>4, IPlanFolgt
<1>12. ASSUME NEW e \in Elemente, KanbanLoeschen(e) \/ Wiederherstellen(e) PROVE IPlan'
  <2>1. /\ fremd < MaxFremd /\ fremd' = fremd + 1 /\ da' \subseteq Elemente
        /\ UNCHANGED <<plan, inPhase, spanne, kanten, modus, bestellung, geprueft, planer>>
    BY <1>2, <1>12 DEF KanbanLoeschen, Wiederherstellen, Fremd
  <2>2. fremd' \in 0 .. MaxFremd /\ fremd' # 0
    BY <1>2, <1>6, <2>1
  <2>3. QED
    BY <1>1, <1>2, <1>3, <2>1, <2>2, IPlanFolgt
<1>13. ASSUME NEW tage \in {-1, 1}, PhaseVerschieben(tage) PROVE IPlan'
  <2>1. UNCHANGED <<da, inPhase, kanten, modus, bestellung, geprueft, planer, fremd>> /\ tage \in Int
    BY <1>13 DEF PhaseVerschieben
  <2>2. /\ PlanTyp(plan') /\ spanne' \in Spannentyp /\ spanne' = Spanne(plan', da, inPhase)
        /\ \A n \in Fest \cap Elemente : plan'[n] = plan[n]
    BY <1>2, <1>13, <2>1, PhaseFakten
  <2>3. QED
    BY <1>1, <1>2, <1>3, <2>1, <2>2, PlanGeschrieben
<1>14. ASSUME NEW k \in kanten, KanteLoeschen(k) PROVE IPlan'
  <2>1. /\ kanten' \subseteq kanten
        /\ UNCHANGED <<plan, da, inPhase, spanne, modus, bestellung, geprueft, planer, fremd>>
    BY <1>14 DEF KanteLoeschen
  <2>2. IsFiniteSet(kanten')
    BY <1>3, <2>1, FS_Subset
  <2>3. QED
    BY <1>1, <1>2, <1>3, <1>5, <2>1, <2>2, IPlanFolgt
<1>15. ASSUME NEW k \in kanten, NEW neu \in Kante, KanteAendern(k, neu) PROVE IPlan'
  <2>1. /\ kanten' = (kanten \ {k}) \cup {neu} /\ RegelAnwenden(k.nach)
        /\ UNCHANGED <<da, inPhase, modus, bestellung, geprueft, planer, fremd>>
    BY <1>15 DEF KanteAendern
  <2>2. kanten' \subseteq Kante /\ IsFiniteSet(kanten')
    BY <1>3, <2>1, FS_RemoveElement, FS_AddElement
  <2>3. /\ PlanTyp(plan') /\ spanne' \in Spannentyp /\ spanne' = Spanne(plan', da, inPhase)
        /\ \A n \in Fest \cap Elemente : plan'[n] = plan[n]
    BY <1>2, <2>1, <2>2, RegelFakten
  <2>4. QED
    BY <1>1, <1>2, <2>1, <2>2, <2>3, PlanGeschrieben
<1>16. ASSUME ModusSetzen PROVE IPlan'
  <2>1. /\ modus' \in {"bei_konflikt", "immer"}
        /\ UNCHANGED <<plan, da, inPhase, spanne, kanten, bestellung, geprueft, planer, fremd>>
    BY <1>16 DEF ModusSetzen
  <2>2. QED
    BY <1>1, <1>2, <1>3, <1>5, <2>1, IPlanFolgt
<1>17. ASSUME NEW wer, Straffen(wer) PROVE IPlan'
  <2>1. /\ Schreibe(Gestrafft(plan, Aktiv(plan), wer \ Fest))
        /\ UNCHANGED <<da, inPhase, kanten, modus, bestellung, geprueft, planer, fremd>>
    BY <1>17 DEF Straffen
  <2>2. /\ PlanTyp(plan') /\ spanne' \in Spannentyp /\ spanne' = Spanne(plan', da, inPhase)
        /\ \A n \in Fest \cap Elemente : plan'[n] = plan[n]
    BY <1>2, <2>1, StraffenFakten
  <2>3. QED
    BY <1>1, <1>2, <1>3, <2>1, <2>2, PlanGeschrieben
<1>18. ASSUME BestellungLoesen PROVE IPlan'
  <2>1. /\ bestellung' = [fuer |-> Ohne, termin |-> Ohne, da |-> TRUE] /\ spanne' = Spanne(plan, da, inPhase)
        /\ UNCHANGED <<plan, da, inPhase, kanten, modus, geprueft, planer, fremd>>
    BY <1>18 DEF BestellungLoesen
  <2>2. bestellung' \in BestellungTyp /\ bestellung'.da /\ bestellung'.fuer \notin da'
    BY <1>2, <1>6, <2>1 DEF BestellungTyp
  <2>3. QED
    BY <1>1, <1>2, <1>3, <1>4, <2>1, <2>2, IPlanFolgt
<1>19. ASSUME NEW termin \in 0..MaxTag \cup {Ohne}, LieferterminAendern(termin) PROVE IPlan'
  <2>1. /\ bestellung' = [bestellung EXCEPT !.termin = termin]
        /\ UNCHANGED <<da, inPhase, kanten, modus, geprueft, planer, fremd>>
        /\ IF bestellung.fuer \in da
           THEN Setze(bestellung.fuer, [start |-> termin, ende |-> termin])
           ELSE UNCHANGED <<plan, spanne>>
    BY <1>19 DEF LieferterminAendern
  <2>2. /\ bestellung' \in BestellungTyp /\ bestellung'.fuer = bestellung.fuer /\ bestellung'.termin = termin
        /\ bestellung'.da = bestellung.da
    BY <1>2, <2>1 DEF BestellungTyp
  <2>3. CASE bestellung.fuer \notin da
    BY <1>1, <1>2, <1>3, <1>5, <2>1, <2>2, <2>3, IPlanFolgt
  <2>4. CASE bestellung.fuer \in da
    <3>1. PICK e \in Elemente : e = bestellung.fuer
      BY <1>2, <2>4
    <3>2. PICK neu \in Erlaubt(e) \cup {Undatiert} : neu = [start |-> termin, ende |-> termin]
      <4>1. CASE termin = Ohne
        BY <4>1 DEF Undatiert
      <4>2. CASE termin \in 0 .. MaxTag
        <5>1. [start |-> termin, ende |-> termin] \in Zeitraum
          BY <4>2, ZeitraumFakten
        <5>2. QED
          BY <5>1 DEF Erlaubt
      <4>3. QED
        BY <4>1, <4>2
    <3>3. /\ PlanTyp(plan') /\ spanne' \in Spannentyp /\ spanne' = Spanne(plan', da, inPhase)
          /\ plan'[e] = neu
      <4>1. Setze(e, neu)
        BY <2>1, <2>4, <3>1, <3>2
      <4>2. QED
        BY <1>2, <4>1, SetzeFakten
    <3>4. QED
      BY <1>1, <1>2, <1>3, <1>5, <2>1, <2>2, <3>1, <3>2, <3>3, IPlanFolgt
  <2>5. QED
    BY <2>3, <2>4
<1>20. ASSUME BestellungInDenPapierkorb PROVE IPlan'
  <2>1. /\ fremd < MaxFremd /\ fremd' = fremd + 1 /\ bestellung' = [bestellung EXCEPT !.da = ~@]
        /\ UNCHANGED <<plan, da, inPhase, spanne, kanten, modus, geprueft, planer>>
    BY <1>20 DEF BestellungInDenPapierkorb, Fremd
  <2>2. bestellung' \in BestellungTyp
    BY <1>2, <2>1 DEF BestellungTyp
  <2>3. fremd' \in 0 .. MaxFremd /\ fremd' # 0
    BY <1>2, <1>6, <2>1
  <2>4. QED
    BY <1>1, <1>2, <1>3, <2>1, <2>2, <2>3, IPlanFolgt
<1>21. ASSUME NEW k \in Kante, KantePruefen(k) PROVE IPlan'
  <2>1. /\ geprueft' = geprueft \cup {k}
        /\ UNCHANGED <<plan, da, inPhase, spanne, kanten, modus, bestellung, planer, fremd>>
    BY <1>21 DEF KantePruefen
  <2>2. geprueft' \subseteq Kante
    BY <1>2, <2>1
  <2>3. QED
    BY <1>1, <1>2, <1>3, <1>5, <2>1, <2>2, IPlanFolgt
<1>22. ASSUME NEW k \in Kante, KanteAnlegen(k) PROVE IPlan'
  <2>1. /\ geprueft' = geprueft \ {k} /\ kanten' = kanten \cup {k} /\ RegelAnwenden(k.nach)
        /\ UNCHANGED <<da, inPhase, modus, bestellung, planer, fremd>>
    BY <1>22 DEF KanteAnlegen
  <2>2. kanten' \subseteq Kante /\ IsFiniteSet(kanten') /\ geprueft' \subseteq Kante
    BY <1>2, <1>3, <2>1, FS_AddElement
  <2>3. /\ PlanTyp(plan') /\ spanne' \in Spannentyp /\ spanne' = Spanne(plan', da, inPhase)
        /\ \A n \in Fest \cap Elemente : plan'[n] = plan[n]
    BY <1>2, <2>1, <2>2, RegelFakten
  <2>4. QED
    BY <1>1, <1>2, <2>1, <2>2, <2>3, PlanGeschrieben
<1>23. ASSUME NEW k \in Kante, KanteScheitert(k) PROVE IPlan'
  <2>1. /\ geprueft' = geprueft \ {k}
        /\ UNCHANGED <<plan, da, inPhase, spanne, kanten, modus, bestellung, planer, fremd>>
    BY <1>23 DEF KanteScheitert
  <2>2. geprueft' \subseteq Kante
    BY <1>2, <2>1
  <2>3. QED
    BY <1>1, <1>2, <1>3, <1>5, <2>1, <2>2, IPlanFolgt
<1>24. CASE AndereAnfrage
  BY <1>8, <1>9, <1>10, <1>11, <1>12, <1>13, <1>14, <1>15, <1>16, <1>17, <1>18, <1>19, <1>20, <1>24
     DEF AndereAnfrage
<1>25. QED
  BY <1>7, <1>21, <1>22, <1>23, <1>24 DEF ZpNext

-----------------------------------------------------------------------------
(***************************************************************************)
(* What is computed from the plan.                                         *)
(***************************************************************************)

\* The span of time a template takes is laid out again with the same distances.
LEMMA VorlageFakten == Grundlage => VorlageErhaeltPlan
<1> SUFFICES ASSUME Grundlage PROVE VorlageErhaeltPlan
  OBVIOUS
<1> DEFINE knoten == da \cap Datiert(plan)
<1>1. plan \in Bestand /\ InDenTagen(plan) /\ \A x \in Meilensteine : plan[x].start = plan[x].ende
  BY PlanFakten DEF Grundlage
<1>2. PICK neu : neu = Angewendet(Vorlage(plan, knoten), MaxTag)
  OBVIOUS
<1>3. SUFFICES ASSUME knoten # {}
               PROVE  /\ \E tage \in 0..MaxTag : \A e \in knoten : neu[e] = Geschoben(plan[e], tage)
                      /\ \A k \in Aktiv(plan) : Erfuellt(neu, k) <=> Erfuellt(plan, k)
  BY <1>2 DEF VorlageErhaeltPlan
<1>4. PICK S : S = {plan[n].start : n \in knoten}
  OBVIOUS
<1>5. \A e \in knoten : /\ plan[e] \in Zeitraum /\ plan[e] \in Daten
                        /\ plan[e].start \in 0 .. MaxTag /\ plan[e].ende \in 0 .. MaxTag
  BY <1>1, ZeitraumFakten DEF InDenTagen
<1>6. PICK m : m = Min(S)
  OBVIOUS
<1>7. m \in 0 .. MaxTag
  <2>1. S \in SUBSET Int /\ S # {}
    BY <1>3, <1>4, <1>5
  <2>2. IsFiniteSet(S)
    <3> DEFINE f == [n \in knoten |-> plan[n].start]
    <3>1. S = {f[n] : n \in knoten}
      BY <1>4
    <3>2. IsFiniteSet(knoten)
      BY ZeitplanAnnahme, FS_Subset DEF Datiert
    <3> HIDE DEF f, knoten
    <3>3. QED
      BY <3>1, <3>2, BildEndlich
  <2>3. m \in S
    BY <1>6, <2>1, <2>2, MinFakten
  <2>4. QED
    BY <1>4, <1>5, <2>3
<1>8. PICK tage \in 0 .. MaxTag : tage = MaxTag - m
  BY <1>7, ZeitplanAnnahme
<1>9. ASSUME NEW e \in knoten PROVE neu[e] = Geschoben(plan[e], tage)
  <2>1. PICK v : v = Vorlage(plan, knoten)
    OBVIOUS
  <2>2. DOMAIN v = knoten /\ v[e] = [offset |-> plan[e].start - m,
                                     dauer |-> IF e \in Meilensteine THEN 1 ELSE plan[e].ende - plan[e].start + 1]
    BY <1>4, <1>6, <2>1 DEF Vorlage
  <2>3. v[e].offset = plan[e].start - m
        /\ v[e].dauer = IF e \in Meilensteine THEN 1 ELSE plan[e].ende - plan[e].start + 1
    BY <2>2
  <2>4. neu[e] = [start |-> MaxTag + v[e].offset,
                  ende |-> IF e \in Meilensteine THEN MaxTag + v[e].offset
                           ELSE MaxTag + v[e].offset + v[e].dauer - 1]
    BY <1>2, <2>1, <2>2 DEF Angewendet
  <2>5. MaxTag + v[e].offset = plan[e].start + tage
    BY <1>5, <1>7, <1>8, <2>3, ZeitplanAnnahme
  <2>6. CASE e \in Meilensteine
    <3>1. plan[e].ende = plan[e].start
      BY <1>1, <2>6
    <3>2. QED
      BY <2>4, <2>5, <2>6, <3>1 DEF Geschoben
  <2>7. CASE e \notin Meilensteine
    <3>1. MaxTag + v[e].offset + v[e].dauer - 1 = plan[e].ende + tage
      BY <1>5, <1>7, <1>8, <2>3, <2>7, ZeitplanAnnahme
    <3>2. QED
      BY <2>4, <2>5, <2>7, <3>1 DEF Geschoben
  <2>8. QED
    BY <2>6, <2>7
<1>10. ASSUME NEW k \in Aktiv(plan) PROVE Erfuellt(neu, k) <=> Erfuellt(plan, k)
  <2>1. k.von \in knoten /\ k.nach \in knoten /\ k \in Kante
    BY DEF Aktiv, AktiveKanten, Grundlage
  <2>2. neu[k.von] = Geschoben(plan[k.von], tage) /\ neu[k.nach] = Geschoben(plan[k.nach], tage)
    BY <1>9, <2>1
  <2>3. PICK x : x = plan[k.von]
    OBVIOUS
  <2>4. PICK y : y = plan[k.nach]
    OBVIOUS
  <2>5. x \in Daten /\ y \in Daten
    BY <1>5, <2>1, <2>3, <2>4
  <2>6. Verletzung(Geschoben(x, tage), Geschoben(y, tage), k) = Verletzung(x, y, k)
    <3>1. Verletzung(Geschoben(x, tage), Geschoben(y, tage), k) = Verletzung(Geschoben(x, tage), y, k) - tage
      BY <2>1, <2>5, DatenFakten, VerletzungFakten
    <3>2. Verletzung(Geschoben(x, tage), y, k) = Verletzung(x, y, k) + tage
      <4>1. x.start \in Int /\ x.ende \in Int /\ y.start \in Int /\ y.ende \in Int /\ k.versatz \in Int
        BY <2>1, <2>5, DatenFakten, KanteFakten
      <4>2. Geschoben(x, tage).start = x.start + tage /\ Geschoben(x, tage).ende = x.ende + tage
        BY <2>5, DatenFakten
      <4>3. CASE k.art = "anfang_anfang"
        BY <4>1, <4>2, <4>3 DEF Verletzung
      <4>4. CASE k.art = "ende_ende"
        BY <4>1, <4>2, <4>4 DEF Verletzung
      <4>5. CASE k.art # "anfang_anfang" /\ k.art # "ende_ende"
        <5>1. FruehesterStart(Geschoben(x, tage), k.von, k.versatz) = FruehesterStart(x, k.von, k.versatz) + tage
          BY <4>1, <4>2 DEF FruehesterStart
        <5>2. FruehesterStart(x, k.von, k.versatz) \in Int
          BY <4>1 DEF FruehesterStart
        <5>3. QED
          BY <4>1, <4>5, <5>1, <5>2 DEF Verletzung
      <4>6. QED
        BY <4>3, <4>4, <4>5
    <3>3. Verletzung(x, y, k) \in Int
      BY <2>1, <2>5, VerletzungFakten
    <3>4. QED
      BY <3>1, <3>2, <3>3
  <2>7. QED
    BY <2>2, <2>3, <2>4, <2>6 DEF Erfuellt
<1>11. QED
  BY <1>8, <1>9, <1>10

LEMMA StraffenFolgt == Grundlage => StraffenIstFertig
<1> SUFFICES ASSUME Grundlage PROVE StraffenIstFertig
  OBVIOUS
<1>1. PICK aktiv : aktiv = Aktiv(plan)
  OBVIOUS
<1>2. Zulaessig(plan, aktiv)
  BY <1>1, PlanFakten, AktivFakten DEF Grundlage, Aktiv
<1>3. PICK wer : wer = Elemente \ Fest
  OBVIOUS
<1>4. PICK s : s = Gestrafft(plan, aktiv, wer)
  OBVIOUS
<1>5. ASSUME ImKreis(aktiv) = {}
      PROVE  (\A k \in aktiv : Erfuellt(s, k) \/ k.nach \in Fest) /\ Gestrafft(s, aktiv, wer) = s
  <2>1. (\A k \in aktiv : k.nach \in wer => Erfuellt(s, k)) /\ Gestrafft(s, aktiv, wer) = s
    BY <1>2, <1>4, <1>5, StraffFertig
  <2>2. \A k \in aktiv : k.nach \in Elemente
    BY <1>2 DEF Zulaessig, Datiert
  <2>3. QED
    BY <1>3, <2>1, <2>2
<1>6. QED
  BY <1>1, <1>3, <1>4, <1>5 DEF StraffenIstFertig

LEMMA PufferFolgt == Grundlage => PufferStimmt
<1> SUFFICES ASSUME Grundlage PROVE PufferStimmt
  OBVIOUS
<1>1. PICK aktiv : aktiv = Aktiv(plan)
  OBVIOUS
<1>2. PICK knoten : knoten = da \cap Datiert(plan)
  OBVIOUS
<1>3. ASSUME modus = "bei_konflikt", knoten # {}, ImKreis(aktiv) = {}, \A k \in aktiv : Erfuellt(plan, k),
             NEW e \in knoten
      PROVE  LET puffer == Puffer(plan, knoten, aktiv)
             IN  /\ ProjektEnde(Verspaetet(plan, aktiv, e, puffer[e]), knoten) = ProjektEnde(plan, knoten)
                 /\ ProjektEnde(Verspaetet(plan, aktiv, e, puffer[e] + 1), knoten) > ProjektEnde(plan, knoten)
  <2>1. Zulaessig(plan, aktiv) /\ \A x \in Meilensteine : plan[x].start = plan[x].ende
    BY <1>1, PlanFakten, AktivFakten DEF Grundlage, Aktiv
  <2>2. \A k \in aktiv : k.von \in knoten /\ k.nach \in knoten
    BY <1>1, <1>2 DEF Aktiv, AktiveKanten
  <2>3. Netz(plan, knoten, aktiv)
    BY <1>2, <1>3, <2>1, <2>2 DEF Netz
  <2>4. QED
    BY <1>3, <2>3, PufferExakt
<1>4. QED
  BY <1>1, <1>2, <1>3 DEF PufferStimmt, Verspaetet

LEMMA IPlanGilt == ZpSpec => []IPlan
<1>1. QED
  BY IPlanStart, IPlanSchritt, PTL DEF ZpSpec

\* The plan stays sound: one planner never closes a circle, the span of the phase and the
\* delivery dates are what the rows say, the float is exact, tightening is thorough, and a
\* template gives the same plan again (zeitplan_service.py, zeitplan_rechner.py).
THEOREM PlanBleibtStimmig == ZpSpec => []PlanStimmt
<1>1. IPlan => PlanStimmt
  <2> SUFFICES ASSUME IPlan PROVE PlanStimmt
    OBVIOUS
  <2>1. Grundlage
    BY IPlanHeisst
  <2>2. KeinKreisImPlaner
    BY DEF IPlan, KreisGilt, KeinKreisImPlaner
  <2>3. QED
    BY <2>1, <2>2, VorlageFakten, StraffenFolgt, PufferFolgt DEF IPlan, PlanStimmt
<1>2. QED
  BY <1>1, IPlanGilt, PTL

\* Moving a row breaks no connection that was kept, except into itself or into the milestone
\* of an order, and a new connection is kept from the start (propagiere() in
\* zeitplan_rechner.py).
THEOREM VerbindungenBleiben == ZpSpec => VerbindungenHalten
<1> DEFINE Haelt ==
      /\ \A e \in Datiert(plan') :
           ElementAendern(e, plan'[e]) =>
             /\ \A k \in Aktiv(plan) :
                  Erfuellt(plan, k) /\ ~Erfuellt(plan', k) => k.nach \in {e} \cup Fest
             /\ \A n \in Datiert(plan) \ {e} :
                  /\ plan'[n].ende - plan'[n].start = plan[n].ende - plan[n].start
                  /\ modus = "bei_konflikt" => plan'[n].start >= plan[n].start
      /\ \A k \in kanten' \ kanten :
           {k.von, k.nach} \subseteq Datiert(plan') \cap da' =>
             Erfuellt(plan', k) \/ k.nach \in Fest
<1>0. IPlan => Grundlage
  BY IPlanHeisst
<1>1. Grundlage /\ Grundlage' /\ [ZpNext]_zpVars => [Haelt]_zpVars
  <2> SUFFICES ASSUME Grundlage, Grundlage', ZpNext PROVE Haelt
    OBVIOUS
  <2>1. Grundlage /\ Grundlage'
    OBVIOUS
  <2>2. ASSUME NEW e \in Datiert(plan'), ElementAendern(e, plan'[e])
        PROVE  /\ \A k \in Aktiv(plan) : Erfuellt(plan, k) /\ ~Erfuellt(plan', k) => k.nach \in {e} \cup Fest
               /\ \A n \in Datiert(plan) \ {e} :
                    /\ plan'[n].ende - plan'[n].start = plan[n].ende - plan[n].start
                    /\ modus = "bei_konflikt" => plan'[n].start >= plan[n].start
    <3>1. e \in Elemente /\ plan'[e] # Undatiert
      BY DEF Datiert
    <3>2. PICK neu \in Erlaubt(e) \cup {Undatiert} : neu = plan'[e]
      BY <2>1, <3>1 DEF Grundlage, PlanTyp
    <3>3. Setze(e, neu)
      BY <2>2, <3>2 DEF ElementAendern
    <3>4. QED
      BY <2>1, <3>1, <3>2, <3>3, SetzeFakten
  <2>3. ASSUME NEW k \in kanten' \ kanten, {k.von, k.nach} \subseteq Datiert(plan') \cap da'
        PROVE  Erfuellt(plan', k) \/ k.nach \in Fest
    <3>1. da' = da /\ RegelAnwenden(k.nach)
      <4>1. ASSUME NEW j \in kanten, NEW neu \in Kante, KanteAendern(j, neu) PROVE da' = da /\ RegelAnwenden(k.nach)
        BY <4>1 DEF KanteAendern
      <4>2. ASSUME NEW j \in Kante, KanteAnlegen(j) PROVE da' = da /\ RegelAnwenden(k.nach)
        BY <4>2 DEF KanteAnlegen
      <4>3. CASE AndereAnfrage
        <5>1. \/ kanten' \subseteq kanten
              \/ \E j \in kanten, neu \in Kante : KanteAendern(j, neu)
          BY <4>3 DEF AndereAnfrage, ElementAendern, PhaseWechseln, ElementLoeschen, BestellungVerknuepfen,
             KanbanLoeschen, Wiederherstellen, PhaseVerschieben, KanteLoeschen, ModusSetzen, Straffen,
             BestellungLoesen, LieferterminAendern, BestellungInDenPapierkorb
        <5>2. QED
          BY <4>1, <5>1
      <4>4. ASSUME NEW j \in Kante, KantePruefen(j) \/ KanteScheitert(j) PROVE FALSE
        BY <4>4 DEF KantePruefen, KanteScheitert
      <4>5. QED
        BY <4>2, <4>3, <4>4 DEF ZpNext
    <3>2. kanten' \subseteq Kante /\ IsFiniteSet(kanten')
      BY <2>1 DEF Grundlage
    <3>3. Datiert(plan') = Datiert(plan)
          /\ \A j \in kanten' : {j.von, j.nach} \subseteq Datiert(plan) \cap da /\ j.nach = k.nach =>
               Erfuellt(plan', j) \/ k.nach \in Fest
      BY <2>1, <3>1, <3>2, RegelFakten
    <3>4. QED
      BY <2>3, <3>1, <3>3
  <2>4. QED
    BY <2>2, <2>3
<1>2. QED
  BY <1>0, <1>1, IPlanGilt, PTL DEF ZpSpec, VerbindungenHalten

-----------------------------------------------------------------------------
(***************************************************************************)
(* The types of all four parts.                                            *)
(***************************************************************************)

LEMMA FoTypStart == FoInit => FoTyp
<1> SUFFICES ASSUME FoInit PROVE FoTyp
  OBVIOUS
<1>1. Fehlt \in Wert
  BY DEF Fehlt, Wert
<1>2. MaxZeilen \in Nat
  BY FormAnnahme
<1>3. zeilen \in Seq([Gruppenfelder -> Wert]) /\ Len(zeilen) <= MaxZeilen
  BY <1>2 DEF FoInit
<1>4. QED
  BY <1>1, <1>3 DEF FoInit, FoTyp

LEMMA FoTypSchritt == FoTyp /\ [FoNext]_foVars => FoTyp'
<1> SUFFICES ASSUME FoTyp, [FoNext]_foVars PROVE FoTyp'
  OBVIOUS
<1>1. Fehlt \in Wert /\ \A f \in Felder \cup Gruppenfelder : Antworten[f] \subseteq Wert
  BY FormAnnahme DEF Fehlt, Wert
<1>2. MaxZeilen \in Nat
  BY FormAnnahme
<1>3. CASE UNCHANGED foVars
  BY <1>3 DEF FoTyp, foVars
<1>4. ASSUME NEW r \in Regeln, RegelPruefen(r) \/ RegelSpeichern(r) \/ RegelLoeschen(r) PROVE FoTyp'
  BY <1>4 DEF FoTyp, RegelPruefen, RegelSpeichern, RegelLoeschen
<1>5. ASSUME NEW r \in Regeln, NEW neu \in Regeln, RegelAendern(r, neu) PROVE FoTyp'
  BY <1>5 DEF FoTyp, RegelAendern
<1>6. CASE Beginnen \/ Abschliessen
  BY <1>6 DEF FoTyp, Beginnen, Abschliessen
<1>7. CASE Verwerfen
  <2>1. wurzel' \in [Felder -> Wert] /\ zeilen' \in Seq([Gruppenfelder -> Wert]) /\ Len(zeilen') <= MaxZeilen
    BY <1>1, <1>2, <1>7 DEF Verwerfen
  <2>2. QED
    BY <1>7, <2>1 DEF FoTyp, Verwerfen
<1>8. CASE Speichern
  <2>0. /\ wurzel \in [Felder -> Wert] /\ zeilen \in Seq([Gruppenfelder -> Wert]) /\ Len(zeilen) <= MaxZeilen
        /\ UNCHANGED <<regeln, pruefung, redakteure, ausfuellung>>
    BY <1>8 DEF FoTyp, Speichern
  <2>1. ASSUME wurzel' \in [Felder -> Wert], zeilen' \in Seq([Gruppenfelder -> Wert]), Len(zeilen') <= MaxZeilen
        PROVE  FoTyp'
    BY <2>0, <2>1 DEF FoTyp
  <2>2. ASSUME NEW f \in Felder, NEW v \in Antworten[f], wurzel' = [wurzel EXCEPT ![f] = v], zeilen' = zeilen
        PROVE  FoTyp'
    <3>1. v \in Wert
      BY <1>1
    <3>2. wurzel' \in [Felder -> Wert]
      BY <2>0, <2>2, <3>1
    <3>3. QED
      BY <2>0, <2>1, <2>2, <3>2
  <2>3. ASSUME NEW i \in DOMAIN zeilen, NEW f \in Gruppenfelder, NEW v \in Antworten[f],
               zeilen' = [zeilen EXCEPT ![i][f] = v], wurzel' = wurzel
        PROVE  FoTyp'
    <3>1. v \in Wert
      BY <1>1
    <3>2. [zeilen[i] EXCEPT ![f] = v] \in [Gruppenfelder -> Wert]
      BY <2>0, <3>1
    <3>3. zeilen' \in Seq([Gruppenfelder -> Wert]) /\ Len(zeilen') = Len(zeilen)
      BY <2>0, <2>3, <3>2
    <3>4. QED
      BY <2>0, <2>1, <2>3, <3>3
  <2>4. ASSUME Len(zeilen) < MaxZeilen, zeilen' = Append(zeilen, [f \in Gruppenfelder |-> Fehlt]), wurzel' = wurzel
        PROVE  FoTyp'
    <3>1. [f \in Gruppenfelder |-> Fehlt] \in [Gruppenfelder -> Wert]
      BY <1>1
    <3>2. zeilen' \in Seq([Gruppenfelder -> Wert]) /\ Len(zeilen') = Len(zeilen) + 1
      BY <2>0, <2>4, <3>1
    <3>3. QED
      BY <1>2, <2>0, <2>1, <2>4, <3>2
  <2>5. ASSUME NEW i \in DOMAIN zeilen, zeilen' = RemoveAt(zeilen, i), wurzel' = wurzel
        PROVE  FoTyp'
    <3>1. i \in 1 .. Len(zeilen)
      BY <2>0
    <3> DEFINE T == [Gruppenfelder -> Wert]
                 vorn == SubSeq(zeilen, 1, i - 1)
                 hinten == SubSeq(zeilen, i + 1, Len(zeilen))
    <3>2. /\ vorn \in Seq(T) /\ Len(vorn) = i - 1
          /\ hinten \in Seq(T) /\ Len(hinten) = Len(zeilen) - i
      BY <2>0, <3>1
    <3>3. zeilen' = vorn \o hinten
      BY <2>5 DEF RemoveAt
    <3> HIDE DEF T, vorn, hinten
    <3>4. zeilen' \in Seq(T) /\ Len(zeilen') = Len(zeilen) - 1
      BY <2>0, <3>1, <3>2, <3>3
    <3>5. QED
      BY <1>2, <2>0, <2>1, <2>5, <3>1, <3>4 DEF T
  <2>6. QED
    BY <1>8, <2>2, <2>3, <2>4, <2>5 DEF Speichern
<1>9. QED
  BY <1>3, <1>4, <1>5, <1>6, <1>7, <1>8 DEF FoNext

-----------------------------------------------------------------------------
(***************************************************************************)
(* Rules without a circle.  More rules have all the dependencies of fewer. *)
(***************************************************************************)

Ziele(rs) == {r.ziel : r \in Setzt(rs)}

IstHinter(g, rs, m) ==
  g = [n \in 0..m |->
         IF n = 0 THEN [z \in Ziele(rs) |-> Quellen(rs, z)]
         ELSE [z \in Ziele(rs) |-> g[n - 1][z] \cup UNION {g[n - 1][y] : y \in g[n - 1][z]}]]

LEMMA HinterGibtEs == ASSUME NEW rs, NEW m \in Nat PROVE \E g : IstHinter(g, rs, m)
<1> DEFINE Z == {n \in Nat : ~ \E g : IstHinter(g, rs, n)}
           Runde(f) == [z \in Ziele(rs) |-> f[z] \cup UNION {f[y] : y \in f[z]}]
           Erste == [z \in Ziele(rs) |-> Quellen(rs, z)]
<1>0. \A g, n : IstHinter(g, rs, n) <=> g = [i \in 0..n |-> IF i = 0 THEN Erste ELSE Runde(g[i - 1])]
  BY DEF IstHinter
<1> HIDE DEF Runde, Erste
<1>1. Z = {}
  <2> SUFFICES ASSUME Z # {} PROVE FALSE
    OBVIOUS
  <2>1. PICK n \in Z : \A i \in Z : n <= i
    BY KleinsteZahl
  <2>2. n # 0
    <3> DEFINE g == [i \in 0..0 |-> Erste]
    <3>1. g = [i \in 0..0 |-> IF i = 0 THEN Erste ELSE Runde(g[i - 1])]
      OBVIOUS
    <3>2. QED
      BY <1>0, <3>1
  <2>3. n - 1 \in Nat /\ n - 1 \notin Z
    BY <2>1, <2>2
  <2>4. PICK g : g = [i \in 0..(n - 1) |-> IF i = 0 THEN Erste ELSE Runde(g[i - 1])]
    BY <1>0, <2>3
  <2> DEFINE h == [i \in 0..n |-> IF i = n THEN Runde(g[n - 1]) ELSE g[i]]
  <2>5. \A i \in 0..n : i # n => h[i] = g[i]
    OBVIOUS
  <2>6. ASSUME NEW i \in 0..n
        PROVE  h[i] = IF i = 0 THEN Erste ELSE Runde(h[i - 1])
    <3>1. i # 0 => i - 1 \in 0..n /\ i - 1 # n
      BY <2>6
    <3>2. i # 0 => h[i - 1] = g[i - 1]
      BY <2>5, <3>1
    <3>3. CASE i = n
      BY <3>2, <3>3, <2>2
    <3>4. CASE i # n
      <4>1. i \in 0..(n - 1)
        BY <3>4, <2>3
      <4>2. g[i] = IF i = 0 THEN Erste ELSE Runde(g[i - 1])
        BY <2>4, <4>1
      <4>3. QED
        BY <4>2, <3>2, <3>4, <2>5
    <3>5. QED
      BY <3>3, <3>4
  <2>7. h = [i \in 0..n |-> h[i]]
    OBVIOUS
  <2> HIDE DEF h
  <2>8. h = [i \in 0..n |-> IF i = 0 THEN Erste ELSE Runde(h[i - 1])]
    BY <2>6, <2>7
  <2>9. QED
    BY <1>0, <2>8
<1>2. QED
  BY <1>1

\* What is behind a target is known after one round, and the rounds grow.
LEMMA HinterFakten ==
  ASSUME NEW rs, NEW m \in Nat, NEW g, IstHinter(g, rs, m)
  PROVE  /\ \A z \in Ziele(rs) : g[0][z] = Quellen(rs, z)
         /\ \A n \in 1..m, z \in Ziele(rs) : g[n][z] = g[n - 1][z] \cup UNION {g[n - 1][y] : y \in g[n - 1][z]}
<1>1. 0 \in 0..m /\ \A n \in 1..m : n \in 0..m /\ n # 0
  OBVIOUS
<1>2. g[0] = [z \in Ziele(rs) |-> Quellen(rs, z)]
  BY <1>1 DEF IstHinter
<1>3. \A n \in 1..m : g[n] = [z \in Ziele(rs) |-> g[n - 1][z] \cup UNION {g[n - 1][y] : y \in g[n - 1][z]}]
  BY <1>1 DEF IstHinter
<1>4. QED
  BY <1>2, <1>3

LEMMA HinterWaechst ==
  ASSUME NEW rs, NEW m \in Nat, NEW g, IstHinter(g, rs, m), NEW n \in 0..m, NEW z \in Ziele(rs)
  PROVE  g[n][z] \subseteq g[m][z]
<1> DEFINE Z == {i \in Nat : i <= m - n /\ ~(g[n][z] \subseteq g[n + i][z])}
<1>1. Z = {}
  <2> SUFFICES ASSUME Z # {} PROVE FALSE
    OBVIOUS
  <2>1. PICK i \in Z : \A j \in Z : i <= j
    BY KleinsteZahl
  <2>2. i # 0
    OBVIOUS
  <2>3. i - 1 \in Nat /\ i - 1 \notin Z
    BY <2>1, <2>2
  <2>4. g[n][z] \subseteq g[n + (i - 1)][z]
    BY <2>1, <2>3
  <2>5. n + i \in 1..m /\ (n + i) - 1 = n + (i - 1)
    BY <2>1, <2>2
  <2>6. g[n + i][z] = g[(n + i) - 1][z] \cup UNION {g[(n + i) - 1][y] : y \in g[(n + i) - 1][z]}
    BY <2>5, HinterFakten
  <2>7. QED
    BY <2>1, <2>4, <2>5, <2>6
<1>2. m - n \in Nat /\ n + (m - n) = m
  OBVIOUS
<1>3. m - n \notin Z
  BY <1>1
<1>4. QED
  BY <1>2, <1>3

LEMMA HinterTeil ==
  ASSUME NEW A, NEW B, A \subseteq B, NEW m \in Nat, NEW k \in Nat, m <= k,
         NEW g, IstHinter(g, A, m), NEW h, IstHinter(h, B, k), NEW n \in 0..m
  PROVE  \A z \in Ziele(A) : g[n][z] \subseteq h[n][z] /\ g[n][z] \subseteq Ziele(A)
<1>1. /\ Ziele(A) \subseteq Ziele(B)
      /\ \A z \in Ziele(A) : Quellen(A, z) \subseteq Quellen(B, z) /\ Quellen(A, z) \subseteq Ziele(A)
  BY DEF Ziele, Setzt, Quellen
<1> DEFINE Teil(i) == \A z \in Ziele(A) : g[i][z] \subseteq h[i][z] /\ g[i][z] \subseteq Ziele(A)
           Z == {i \in 0..m : ~Teil(i)}
<1>2. Z = {}
  <2> SUFFICES ASSUME Z # {} PROVE FALSE
    OBVIOUS
  <2>1. PICK i \in Z : \A j \in Z : i <= j
    <3>1. Z \in SUBSET Nat
      OBVIOUS
    <3>2. QED
      BY <3>1, KleinsteZahl
  <2>2. i # 0
    <3>1. \A z \in Ziele(A) : g[0][z] = Quellen(A, z) /\ h[0][z] = Quellen(B, z)
      BY <1>1, HinterFakten
    <3>2. QED
      BY <1>1, <2>1, <3>1
  <2>3. i \in 1..m /\ i \in 1..k /\ i - 1 \in 0..m /\ i - 1 \notin Z
    BY <2>1, <2>2
  <2>4. Teil(i - 1)
    BY <2>3
  <2>5. \A z \in Ziele(A) :
          /\ g[i][z] = g[i - 1][z] \cup UNION {g[i - 1][y] : y \in g[i - 1][z]}
          /\ h[i][z] = h[i - 1][z] \cup UNION {h[i - 1][y] : y \in h[i - 1][z]}
    BY <1>1, <2>3, HinterFakten
  <2>6. ASSUME NEW z \in Ziele(A) PROVE g[i][z] \subseteq h[i][z] /\ g[i][z] \subseteq Ziele(A)
    <3>1. \A y \in g[i - 1][z] : y \in Ziele(A) /\ y \in h[i - 1][z] /\ g[i - 1][y] \subseteq h[i - 1][y]
                                 /\ g[i - 1][y] \subseteq Ziele(A)
      BY <2>4
    <3>2. QED
      BY <2>4, <2>5, <3>1
  <2>7. QED
    BY <2>1, <2>6
<1>3. QED
  BY <1>2

LEMMA ZyklusHeisst ==
  ASSUME NEW rs, IsFiniteSet(rs)
  PROVE  LET m == Cardinality(Ziele(rs))
         IN m \in Nat /\ IsFiniteSet(Ziele(rs))
            /\ \E g : IstHinter(g, rs, m) /\ (Zyklus(rs) <=> \E z \in Ziele(rs) : z \in g[m][z])
<1> DEFINE m == Cardinality(Ziele(rs))
           g == CHOOSE f : IstHinter(f, rs, m)
<1>1. IsFiniteSet(Ziele(rs)) /\ m \in Nat
  <2>1. IsFiniteSet(Setzt(rs))
    BY FS_Subset DEF Setzt
  <2>2. IsFiniteSet(Ziele(rs))
    <3> DEFINE f == [r \in Setzt(rs) |-> r.ziel]
    <3>1. Ziele(rs) = {f[r] : r \in Setzt(rs)}
      BY DEF Ziele
    <3> HIDE DEF f
    <3>2. QED
      BY <2>1, <3>1, BildEndlich
  <2>3. QED
    BY <2>2, FS_CardinalityType DEF Ziele
<1>2. IstHinter(g, rs, m)
  BY <1>1, HinterGibtEs
<1>3. Zyklus(rs) <=> \E z \in Ziele(rs) : z \in g[m][z]
  BY DEF Zyklus, IstHinter, Ziele
<1>4. QED
  BY <1>1, <1>2, <1>3

LEMMA ZyklusWaechst ==
  ASSUME NEW B, IsFiniteSet(B), NEW A \in SUBSET B, Zyklus(A)
  PROVE  Zyklus(B)
<1>1. IsFiniteSet(A)
  BY FS_Subset
<1> DEFINE m == Cardinality(Ziele(A))
           k == Cardinality(Ziele(B))
<1>2. PICK g : IstHinter(g, A, m) /\ (Zyklus(A) <=> \E z \in Ziele(A) : z \in g[m][z])
  BY <1>1, ZyklusHeisst
<1>3. PICK h : IstHinter(h, B, k) /\ (Zyklus(B) <=> \E z \in Ziele(B) : z \in h[k][z])
  BY ZyklusHeisst
<1>4. m \in Nat /\ k \in Nat /\ m <= k /\ Ziele(A) \subseteq Ziele(B)
  <2>1. Ziele(A) \subseteq Ziele(B)
    BY DEF Ziele, Setzt
  <2>2. IsFiniteSet(Ziele(B)) /\ k \in Nat /\ m \in Nat
    BY <1>1, ZyklusHeisst
  <2>3. QED
    BY <2>1, <2>2, FS_Subset
<1> HIDE DEF m, k
<1>5. PICK z \in Ziele(A) : z \in g[m][z]
  BY <1>2
<1>6. g[m][z] \subseteq h[m][z]
  <2>1. m \in 0..m /\ A \subseteq B /\ IstHinter(g, A, m) /\ IstHinter(h, B, k)
    BY <1>2, <1>3, <1>4
  <2>2. QED
    BY <1>4, <2>1, HinterTeil
<1>7. h[m][z] \subseteq h[k][z]
  BY <1>3, <1>4, HinterWaechst
<1>8. QED
  BY <1>3, <1>4, <1>5, <1>6, <1>7

-----------------------------------------------------------------------------
(***************************************************************************)
(* The editing of rules.                                                   *)
(***************************************************************************)

IFo ==
  /\ FoTyp /\ IsFiniteSet(regeln) /\ IsFiniteSet(pruefung)
  /\ redakteure = 1 =>
       /\ ~Zyklus(regeln)
       /\ pruefung = {} \/ \E r : pruefung = {r} /\ ~Zyklus(regeln \cup {r})

LEMMA LeerOhneZyklus == ~Zyklus({})
<1>1. IsFiniteSet({}) /\ Ziele({}) = {}
  BY FS_EmptySet DEF Ziele, Setzt
<1>2. QED
  BY <1>1, ZyklusHeisst

LEMMA FoStart == FoInit => IFo
<1>1. IsFiniteSet({})
  BY FS_EmptySet
<1>2. QED
  BY <1>1, LeerOhneZyklus, FoTypStart DEF FoInit, IFo

LEMMA FoSchritt == IFo /\ [FoNext]_foVars => IFo'
<1> SUFFICES ASSUME IFo, [FoNext]_foVars PROVE IFo'
  OBVIOUS
<1>0. FoTyp'
  BY FoTypSchritt DEF IFo
<1>1. CASE UNCHANGED <<regeln, pruefung, redakteure>>
  BY <1>0, <1>1 DEF IFo
<1>2. ASSUME NEW r \in Regeln, RegelPruefen(r) PROVE IFo'
  <2>1. IsFiniteSet(pruefung \cup {r})
    BY FS_AddElement DEF IFo
  <2>2. redakteure = 1 => pruefung = {}
    <3>1. Cardinality(pruefung) \in Nat /\ (Cardinality(pruefung) = 0 <=> pruefung = {})
      BY FS_EmptySet, FS_CardinalityType DEF IFo
    <3>2. QED
      BY <1>2, <3>1 DEF RegelPruefen
  <2>3. redakteure = 1 => pruefung' = {r} /\ ~Zyklus(regeln \cup {r})
    BY <1>2, <2>2 DEF RegelPruefen
  <2>4. QED
    BY <1>0, <1>2, <2>1, <2>3 DEF IFo, RegelPruefen
<1>3. ASSUME NEW r \in Regeln, RegelSpeichern(r) PROVE IFo'
  <2>1. IsFiniteSet(pruefung \ {r}) /\ IsFiniteSet(regeln \cup {r})
    BY FS_AddElement, FS_RemoveElement DEF IFo
  <2>2. redakteure = 1 => pruefung = {r} /\ ~Zyklus(regeln \cup {r})
    BY <1>3 DEF IFo, RegelSpeichern
  <2>3. redakteure = 1 => pruefung' = {} /\ ~Zyklus(regeln')
    BY <1>3, <2>2 DEF RegelSpeichern
  <2>4. QED
    BY <1>0, <1>3, <2>1, <2>3 DEF IFo, RegelSpeichern
<1>4. ASSUME NEW r \in Regeln, RegelLoeschen(r) PROVE IFo'
  <2>1. IsFiniteSet(regeln \ {r})
    BY FS_RemoveElement DEF IFo
  <2>2. redakteure = 1 => pruefung' = {} /\ ~Zyklus(regeln')
    <3>1. regeln' \in SUBSET regeln /\ IsFiniteSet(regeln)
      BY <1>4 DEF IFo, RegelLoeschen
    <3>2. ~Zyklus(regeln) => ~Zyklus(regeln')
      BY <3>1, ZyklusWaechst
    <3>3. QED
      BY <1>4, <3>2 DEF IFo, RegelLoeschen
  <2>3. QED
    BY <1>0, <1>4, <2>1, <2>2 DEF IFo, RegelLoeschen
<1>5. ASSUME NEW r \in Regeln, NEW neu \in Regeln, RegelAendern(r, neu) PROVE IFo'
  <2>1. IsFiniteSet((regeln \ {r}) \cup {neu})
    BY FS_AddElement, FS_RemoveElement DEF IFo
  <2>2. redakteure = 1 => pruefung' = {} /\ ~Zyklus(regeln')
    BY <1>5 DEF RegelAendern
  <2>3. QED
    BY <1>0, <1>5, <2>1, <2>2 DEF IFo, RegelAendern
<1>6. CASE Beginnen \/ Speichern \/ Abschliessen \/ Verwerfen
  BY <1>1, <1>6 DEF Beginnen, Speichern, Abschliessen, Verwerfen
<1>7. CASE UNCHANGED foVars
  BY <1>1, <1>7 DEF foVars
<1>8. QED
  BY <1>2, <1>3, <1>4, <1>5, <1>6, <1>7 DEF FoNext

-----------------------------------------------------------------------------
(***************************************************************************)
(* The order of the rules.  Any finite set with a strict total order R can *)
(* be written down in that order.                                          *)
(***************************************************************************)

Geordnet(S, R) ==
  /\ \A x \in S : <<x, x>> \notin R
  /\ \A x, y \in S : x # y => <<x, y>> \in R \/ <<y, x>> \in R
  /\ \A x, y, z \in S : <<x, y>> \in R /\ <<y, z>> \in R => <<x, z>> \in R

LEMMA LetztesGibtEs ==
  ASSUME NEW S, IsFiniteSet(S), S # {}, NEW R, Geordnet(S, R)
  PROVE  \E x \in S : \A y \in S \ {x} : <<y, x>> \in R
<1> DEFINE Spaeter(x) == {y \in S : <<x, y>> \in R}
           Z == {Cardinality(Spaeter(x)) : x \in S}
<1>1. \A x \in S : IsFiniteSet(Spaeter(x)) /\ Cardinality(Spaeter(x)) \in Nat
  BY FS_Subset, FS_CardinalityType
<1>2. PICK x \in S : \A y \in S : Cardinality(Spaeter(x)) <= Cardinality(Spaeter(y))
  <2>1. Z \in SUBSET Nat /\ Z # {}
    BY <1>1
  <2> HIDE DEF Spaeter
  <2>2. PICK n \in Z : \A m \in Z : n <= m
    <3> HIDE DEF Z
    <3>1. QED
      BY <2>1, KleinsteZahl
  <2>3. QED
    BY <2>2
<1>3. ASSUME NEW y \in S \ {x} PROVE <<y, x>> \in R
  <2>1. SUFFICES ASSUME <<x, y>> \in R PROVE FALSE
    BY DEF Geordnet
  <2>2. Spaeter(y) \subseteq Spaeter(x) /\ y \in Spaeter(x) /\ y \notin Spaeter(y)
    BY <2>1 DEF Geordnet
  <2> HIDE DEF Spaeter
  <2>3. Cardinality(Spaeter(y)) <= Cardinality(Spaeter(x)) /\ Cardinality(Spaeter(y)) # Cardinality(Spaeter(x))
    BY <1>1, <2>2, FS_Subset
  <2>4. QED
    BY <1>1, <1>2, <2>3
<1>4. QED
  BY <1>3

LEMMA OrdnungGibtEs ==
  ASSUME NEW S, IsFiniteSet(S), NEW R, Geordnet(S, R)
  PROVE  \E q \in [1..Cardinality(S) -> S] : \A i, j \in 1..Cardinality(S) : i < j => <<q[i], q[j]>> \in R
<1> DEFINE Gut(T) == \E q \in [1..Cardinality(T) -> T] :
                       \A i, j \in 1..Cardinality(T) : i < j => <<q[i], q[j]>> \in R
           Z == {n \in Nat : \E T \in SUBSET S : Cardinality(T) = n /\ ~Gut(T)}
<1>1. Z = {}
  <2> SUFFICES ASSUME Z # {} PROVE FALSE
    OBVIOUS
  <2>1. PICK n \in Z : \A m \in Z : n <= m
    BY KleinsteZahl
  <2>2. PICK T \in SUBSET S : Cardinality(T) = n /\ ~Gut(T)
    BY <2>1
  <2>3. IsFiniteSet(T) /\ n \in Nat
    BY FS_Subset
  <2>4. T # {}
    <3>1. SUFFICES ASSUME T = {} PROVE FALSE
      OBVIOUS
    <3>2. n = 0
      BY <2>2, <3>1, FS_EmptySet
    <3> DEFINE q == [i \in {} |-> i]
    <3>3. 1..0 = {} /\ q \in [{} -> T]
      BY <3>1
    <3>4. QED
      BY <2>2, <3>2, <3>3
  <2>5. Geordnet(T, R)
    BY DEF Geordnet
  <2>6. PICK x \in T : \A y \in T \ {x} : <<y, x>> \in R
    BY <2>3, <2>4, <2>5, LetztesGibtEs
  <2> DEFINE U == T \ {x}
  <2>7. n >= 1 /\ n - 1 \in Nat /\ Cardinality(U) = n - 1 /\ U \in SUBSET S
    <3>1. n # 0
      BY <2>2, <2>3, <2>4, FS_EmptySet
    <3>2. Cardinality(U) = n - 1
      BY <2>2, <2>3, FS_RemoveElement
    <3>3. QED
      BY <2>3, <3>1, <3>2
  <2>8. n - 1 \notin Z
    BY <2>1, <2>7
  <2>9. Gut(U)
    BY <2>7, <2>8
  <2>10. PICK q \in [1..(n - 1) -> U] : \A i, j \in 1..(n - 1) : i < j => <<q[i], q[j]>> \in R
    BY <2>7, <2>9
  <2> DEFINE p == [i \in 1..n |-> IF i = n THEN x ELSE q[i]]
  <2>11. \A i \in 1..n : i # n => i \in 1..(n - 1) /\ p[i] = q[i] /\ q[i] \in U
    BY <2>7
  <2>12. p \in [1..n -> T]
    BY <2>11
  <2>13. ASSUME NEW i \in 1..n, NEW j \in 1..n, i < j PROVE <<p[i], p[j]>> \in R
    <3>1. i # n /\ p[i] = q[i] /\ i \in 1..(n - 1) /\ q[i] \in U
      BY <2>11, <2>13
    <3>2. CASE j = n
      BY <2>6, <3>1, <3>2
    <3>3. CASE j # n
      BY <2>10, <2>11, <2>13, <3>1, <3>3
    <3>4. QED
      BY <3>2, <3>3
  <2> HIDE DEF p
  <2>14. QED
    BY <2>2, <2>12, <2>13
<1>2. Cardinality(S) \in Nat
  BY FS_CardinalityType
<1>3. QED
  BY <1>1, <1>2

LEMMA RegelFakt ==
  ASSUME NEW r \in Regeln
  PROVE  r \in Regel
  BY FormAnnahme

\* The steps of an evaluation come in the order of the rules, and a rule takes its rows one by one.
LEMMA InFolgeFakten ==
  ASSUME NEW rs \in SUBSET Regeln, IsFiniteSet(rs), NEW sicht, NEW n \in Nat
  PROVE  LET q == InFolge(rs, sicht, n)
         IN \E k \in Nat :
              /\ q \in [1..k -> Schritte(rs, sicht, n)]
              /\ \A i, j \in 1..k : i < j =>
                   q[i][1].folge < q[j][1].folge \/ (q[i][1] = q[j][1] /\ q[i][2] < q[j][2])
<1> DEFINE S == Schritte(rs, sicht, n)
           vor(a, b) == a[1].folge < b[1].folge \/ (a[1] = b[1] /\ a[2] < b[2])
           R == {p \in S \X S : vor(p[1], p[2])}
           k == Cardinality(S)
           q == InFolge(rs, sicht, n)
<1>1. S \subseteq rs \X (0..n)
  <2>1. SUFFICES ASSUME NEW p \in S PROVE p \in rs \X (0..n)
    OBVIOUS
  <2>2. PICK r \in rs : p \in {r} \X (IF r.ziel \in Gruppenfelder THEN 1..n ELSE {0})
    BY <2>1 DEF Schritte
  <2>3. QED
    BY <2>2
<1>2. IsFiniteSet(S) /\ k \in Nat
  <2>1. IsFiniteSet(0..n)
    BY FS_Interval
  <2>2. IsFiniteSet(rs \X (0..n))
    BY <2>1, FS_Product
  <2>3. QED
    BY <1>1, <2>2, FS_Subset, FS_CardinalityType
<1>3. \A a \in S : a = <<a[1], a[2]>> /\ a[1] \in Regeln /\ a[1].folge \in Nat /\ a[2] \in Nat
  <2>1. \A r \in Regeln : r.folge \in Nat
    BY RegelFakt DEF Regel
  <2>2. QED
    BY <1>1, <2>1
<1>4. Geordnet(S, R)
  <2>1. \A a, b \in S : <<a, b>> \in R <=> vor(a, b)
    OBVIOUS
  <2>2. \A a \in S : ~vor(a, a)
    BY <1>3
  <2>3. \A a, b, c \in S : vor(a, b) /\ vor(b, c) => vor(a, c)
    BY <1>3
  <2>4. ASSUME NEW a \in S, NEW b \in S, a # b PROVE vor(a, b) \/ vor(b, a)
    <3>1. a[1].folge = b[1].folge => a[1] = b[1]
      BY <1>3, FormAnnahme
    <3>2. a[1] = b[1] => a[2] # b[2]
      BY <1>3, <2>4
    <3>3. QED
      BY <1>3, <3>1, <3>2
  <2> HIDE DEF vor, R, S
  <2>5. QED
    BY <2>1, <2>2, <2>3, <2>4 DEF Geordnet
<1>5. \E p \in [1..k -> S] : \A i, j \in 1..k : i < j => vor(p[i], p[j])
  <2>1. PICK p \in [1..k -> S] : \A i, j \in 1..k : i < j => <<p[i], p[j]>> \in R
    <3> HIDE DEF S, R
    <3>1. QED
      BY <1>2, <1>4, OrdnungGibtEs
  <2>2. \A i, j \in 1..k : i < j => vor(p[i], p[j])
    BY <2>1
  <2>3. QED
    BY <2>2
<1>6. q \in [1..k -> S] /\ \A i, j \in 1..k : i < j => vor(q[i], q[j])
  <2>1. q = CHOOSE p \in [1..k -> S] : \A i, j \in DOMAIN p : i < j => vor(p[i], p[j])
    BY DEF InFolge
  <2>2. \A p \in [1..k -> S] : DOMAIN p = 1..k
    OBVIOUS
  <2> HIDE DEF q, S, k, vor
  <2>3. QED
    BY <1>5, <2>1, <2>2
<1>7. QED
  BY <1>2, <1>6

-----------------------------------------------------------------------------
(***************************************************************************)
(* What one step of an evaluation does.  A step works on the root (row 0)  *)
(* or on a row; a value is found at a place, a row and a key.              *)
(***************************************************************************)

Zustaende == [visible : BOOLEAN, required : BOOLEAN, readonly : BOOLEAN]

Staende(n) ==
  [ok : BOOLEAN, zustand : [Pfade(n) -> Zustaende], wurzel : [Felder -> Wert],
   zeilen : [1..n -> [Gruppenfelder -> Wert]]]

Stellen(n) == ({0} \X Felder) \cup ((1..n) \X Gruppenfelder)

BeiStelle(s, p) == IF p[1] = 0 THEN s.wurzel[p[2]] ELSE s.zeilen[p[1]][p[2]]

Ausfuehrbar(r, z, n) ==
  /\ r \in Regeln
  /\ IF r.ziel \in Gruppenfelder THEN z \in 1..n ELSE z = 0

Bejaht(sprache, s, r, z) == Bedingung(sprache, r, Kontext(s, z))

NeuerWert(s, r, z) == IF r.quelle = Literal THEN r.wert ELSE Kontext(s, z)[r.quelle]

SetztWert(sprache, s, r, z) ==
  /\ s.ok /\ Bejaht(sprache, s, r, z) \notin {"fehler", "nein"}
  /\ r.effekt = "set_value" /\ r.ziel # Gruppe

LEMMA SchrittFakten ==
  ASSUME NEW rs \in SUBSET Regeln, NEW sicht, NEW n \in Nat, NEW p \in Schritte(rs, sicht, n)
  PROVE  p[1] \in rs /\ p[1].sicht \in {"alle", sicht} /\ Ausfuehrbar(p[1], p[2], n)
<1>1. PICK r \in {s \in rs : s.sicht \in {"alle", sicht}} : p \in {r} \X (IF r.ziel \in Gruppenfelder THEN 1..n ELSE {0})
  BY DEF Schritte
<1>2. QED
  BY <1>1 DEF Ausfuehrbar

LEMMA StelleDesZiels ==
  ASSUME NEW n \in Nat, NEW r, NEW z, Ausfuehrbar(r, z, n)
  PROVE  /\ <<z, r.ziel>> \in Pfade(n) /\ z \in 0..n
         /\ r.ziel # Gruppe => <<z, r.ziel>> \in Stellen(n)
         /\ z = 0 /\ r.ziel # Gruppe => r.ziel \in Felder
         /\ z # 0 => z \in 1..n /\ r.ziel \in Gruppenfelder
<1>1. r.ziel \in Felder \cup Gruppenfelder \cup {Gruppe}
  BY RegelFakt DEF Ausfuehrbar, Regel
<1>2. QED
  BY <1>1 DEF Ausfuehrbar, Pfade, Stellen

LEMMA KontextTyp ==
  ASSUME NEW n \in Nat, NEW s \in Staende(n), NEW z \in 0..n
  PROVE  Kontext(s, z) \in [Felder \cup Gruppenfelder -> Wert]
<1>1. Fehlt \in Wert
  BY DEF Fehlt, Wert
<1>2. s.wurzel \in [Felder -> Wert] /\ s.zeilen \in [1..n -> [Gruppenfelder -> Wert]]
  BY DEF Staende
<1>3. \A f \in Felder \cup Gruppenfelder : Kontext(s, z)[f] \in Wert
  BY <1>1, <1>2 DEF Kontext
<1>4. QED
  BY <1>3 DEF Kontext

LEMMA NeuerWertTyp ==
  ASSUME NEW n \in Nat, NEW s \in Staende(n), NEW r, NEW z, Ausfuehrbar(r, z, n)
  PROVE  NeuerWert(s, r, z) \in Wert
<1>1. r.wert \in Wert /\ r.quelle \in Felder \cup Gruppenfelder \cup {Literal}
  BY RegelFakt DEF Ausfuehrbar, Regel
<1>2. Kontext(s, z) \in [Felder \cup Gruppenfelder -> Wert]
  BY KontextTyp, StelleDesZiels
<1>3. QED
  BY <1>1, <1>2 DEF NeuerWert

LEMMA EffektTyp ==
  ASSUME NEW v \in Zustaende, NEW effekt, NEW aktiv \in BOOLEAN
  PROVE  MitEffekt(v, effekt, aktiv) \in Zustaende
BY DEF MitEffekt, Zustaende

\* What a step leaves: it fails or not, shows or requires its target, or sets its value.
Wirkt(t, sprache, s, r, z, n) ==
  /\ t \in Staende(n)
  /\ t.ok <=> (s.ok /\ Bejaht(sprache, s, r, z) # "fehler")
  /\ t.zustand = IF t.ok /\ r.effekt # "set_value"
                 THEN [s.zustand EXCEPT ![<<z, r.ziel>>] = MitEffekt(@, r.effekt, Bejaht(sprache, s, r, z) = "ja")]
                 ELSE s.zustand
  /\ SetztWert(sprache, s, r, z) =>
       <<z, r.ziel>> \in Stellen(n) /\ BeiStelle(t, <<z, r.ziel>>) = NeuerWert(s, r, z)
  /\ \A p \in Stellen(n) :
       p # <<z, r.ziel>> \/ ~SetztWert(sprache, s, r, z) => BeiStelle(t, p) = BeiStelle(s, p)

LEMMA WirktFakten ==
  ASSUME NEW n \in Nat, NEW sprache, NEW s \in Staende(n), NEW r, NEW z, Ausfuehrbar(r, z, n)
  PROVE  Wirkt(RegelWirkt(sprache, s, r, z), sprache, s, r, z, n)
<1> DEFINE t == RegelWirkt(sprache, s, r, z)
           aktiv == Bejaht(sprache, s, r, z)
           neu == NeuerWert(s, r, z)
<1>1. t = IF ~s.ok \/ aktiv = "fehler" THEN [s EXCEPT !.ok = FALSE]
          ELSE IF r.effekt # "set_value"
            THEN [s EXCEPT !.zustand[<<z, r.ziel>>] = MitEffekt(@, r.effekt, aktiv = "ja")]
          ELSE IF aktiv = "nein" \/ r.ziel = Gruppe THEN s
          ELSE IF z = 0 THEN [s EXCEPT !.wurzel[r.ziel] = neu]
          ELSE [s EXCEPT !.zeilen[z][r.ziel] = neu]
  BY DEF RegelWirkt, Bejaht, NeuerWert
<1>2. neu \in Wert
  BY NeuerWertTyp
<1>3. /\ <<z, r.ziel>> \in Pfade(n) /\ z \in 0..n
      /\ r.ziel # Gruppe => <<z, r.ziel>> \in Stellen(n)
      /\ z = 0 /\ r.ziel # Gruppe => r.ziel \in Felder
      /\ z # 0 => z \in 1..n /\ r.ziel \in Gruppenfelder
  BY StelleDesZiels
<1>4. /\ s.ok \in BOOLEAN /\ s.zustand \in [Pfade(n) -> Zustaende] /\ s.wurzel \in [Felder -> Wert]
      /\ s.zeilen \in [1..n -> [Gruppenfelder -> Wert]]
  BY DEF Staende
<1>5. MitEffekt(s.zustand[<<z, r.ziel>>], r.effekt, aktiv = "ja") \in Zustaende
  BY <1>3, <1>4, EffektTyp
<1>6. SetztWert(sprache, s, r, z) <=>
        s.ok /\ aktiv # "fehler" /\ aktiv # "nein" /\ r.effekt = "set_value" /\ r.ziel # Gruppe
  BY DEF SetztWert
<1>7. Gruppe \notin Gruppenfelder
  BY FormAnnahme
<1> HIDE DEF t, aktiv, neu
<1>8. CASE ~s.ok \/ aktiv = "fehler"
  <2>1. t = [s EXCEPT !.ok = FALSE]
    BY <1>1, <1>8
  <2>2. t \in Staende(n) /\ t.ok = FALSE /\ t.zustand = s.zustand /\ t.wurzel = s.wurzel /\ t.zeilen = s.zeilen
    BY <2>1 DEF Staende
  <2>3. QED
    BY <1>6, <1>8, <2>2 DEF BeiStelle, aktiv, t, Wirkt
<1>9. CASE s.ok /\ aktiv # "fehler" /\ r.effekt # "set_value"
  <2>1. t = [s EXCEPT !.zustand = [s.zustand EXCEPT ![<<z, r.ziel>>] = MitEffekt(@, r.effekt, aktiv = "ja")]]
    BY <1>1, <1>9
  <2>2. [s.zustand EXCEPT ![<<z, r.ziel>>] = MitEffekt(@, r.effekt, aktiv = "ja")] \in [Pfade(n) -> Zustaende]
    BY <1>3, <1>4, <1>5
  <2>3. /\ t \in Staende(n) /\ t.ok = s.ok /\ t.wurzel = s.wurzel /\ t.zeilen = s.zeilen
        /\ t.zustand = [s.zustand EXCEPT ![<<z, r.ziel>>] = MitEffekt(@, r.effekt, aktiv = "ja")]
    BY <2>1, <2>2 DEF Staende
  <2>4. QED
    BY <1>6, <1>9, <2>3 DEF BeiStelle, aktiv, t, Wirkt
<1>10. CASE s.ok /\ aktiv # "fehler" /\ r.effekt = "set_value" /\ (aktiv = "nein" \/ r.ziel = Gruppe)
  <2>1. t = s
    BY <1>1, <1>10
  <2>2. QED
    BY <1>6, <1>10, <2>1 DEF aktiv, t, Wirkt
<1>11. CASE SetztWert(sprache, s, r, z) /\ z = 0
  <2>1. r.ziel \in Felder
    BY <1>3, <1>6, <1>11
  <2>2. t = [s EXCEPT !.wurzel = [s.wurzel EXCEPT ![r.ziel] = neu]]
    BY <1>1, <1>6, <1>11
  <2>3. [s.wurzel EXCEPT ![r.ziel] = neu] \in [Felder -> Wert]
    BY <1>2, <1>4, <2>1
  <2>4. /\ t \in Staende(n) /\ t.ok = s.ok /\ t.zustand = s.zustand /\ t.zeilen = s.zeilen
        /\ t.wurzel = [s.wurzel EXCEPT ![r.ziel] = neu]
    BY <2>2, <2>3 DEF Staende
  <2>5. BeiStelle(t, <<z, r.ziel>>) = neu
    BY <1>4, <1>11, <2>1, <2>4 DEF BeiStelle
  <2>6. ASSUME NEW p \in Stellen(n), p # <<z, r.ziel>> PROVE BeiStelle(t, p) = BeiStelle(s, p)
    <3>1. p[1] = 0 => p[2] # r.ziel /\ p[2] \in Felder
      BY <1>11, <2>6 DEF Stellen
    <3>2. QED
      BY <1>4, <2>4, <3>1 DEF BeiStelle
  <2>7. QED
    BY <1>3, <1>6, <1>11, <2>4, <2>5, <2>6 DEF aktiv, t, neu, Wirkt
<1>12. CASE SetztWert(sprache, s, r, z) /\ z # 0
  <2>1. z \in 1..n /\ r.ziel \in Gruppenfelder
    BY <1>3, <1>12
  <2>2. t = [s EXCEPT !.zeilen = [s.zeilen EXCEPT ![z] = [s.zeilen[z] EXCEPT ![r.ziel] = neu]]]
    BY <1>1, <1>6, <1>12
  <2>3. [s.zeilen EXCEPT ![z] = [s.zeilen[z] EXCEPT ![r.ziel] = neu]] \in [1..n -> [Gruppenfelder -> Wert]]
    <3>1. [s.zeilen[z] EXCEPT ![r.ziel] = neu] \in [Gruppenfelder -> Wert]
      BY <1>2, <1>4, <2>1
    <3>2. QED
      BY <1>4, <2>1, <3>1
  <2>4. /\ t \in Staende(n) /\ t.ok = s.ok /\ t.zustand = s.zustand /\ t.wurzel = s.wurzel
        /\ t.zeilen = [s.zeilen EXCEPT ![z] = [s.zeilen[z] EXCEPT ![r.ziel] = neu]]
    BY <2>2, <2>3 DEF Staende
  <2>5. t.zeilen[z] = [s.zeilen[z] EXCEPT ![r.ziel] = neu] /\ \A i \in 1..n : i # z => t.zeilen[i] = s.zeilen[i]
    BY <1>4, <2>1, <2>4
  <2>6. s.zeilen[z] \in [Gruppenfelder -> Wert]
    BY <1>4, <2>1
  <2>7. BeiStelle(t, <<z, r.ziel>>) = neu
    BY <1>12, <2>1, <2>5, <2>6 DEF BeiStelle
  <2>8. ASSUME NEW p \in Stellen(n), p # <<z, r.ziel>> PROVE BeiStelle(t, p) = BeiStelle(s, p)
    <3>1. p = <<p[1], p[2]>> /\ (p[1] # 0 => p[1] \in 1..n /\ p[2] \in Gruppenfelder)
      BY <2>8 DEF Stellen
    <3>2. p[1] = z => p[2] # r.ziel
      BY <2>8, <3>1
    <3>3. QED
      BY <1>12, <2>4, <2>5, <2>6, <3>1, <3>2 DEF BeiStelle
  <2>9. QED
    BY <1>3, <1>6, <1>12, <2>4, <2>7, <2>8 DEF aktiv, t, neu, Wirkt
<1>13. QED
  BY <1>4, <1>6, <1>8, <1>9, <1>10, <1>11, <1>12 DEF t

LEMMA StaendeGleich ==
  ASSUME NEW n \in Nat, NEW s \in Staende(n), NEW t \in Staende(n), s.ok = t.ok, s.zustand = t.zustand,
         \A p \in Stellen(n) : BeiStelle(s, p) = BeiStelle(t, p)
  PROVE  s = t
<1>1. /\ s.wurzel \in [Felder -> Wert] /\ t.wurzel \in [Felder -> Wert]
      /\ s.zeilen \in [1..n -> [Gruppenfelder -> Wert]] /\ t.zeilen \in [1..n -> [Gruppenfelder -> Wert]]
  BY DEF Staende
<1>2. s.wurzel = t.wurzel
  <2>1. \A f \in Felder : <<0, f>> \in Stellen(n)
    BY DEF Stellen
  <2>2. \A f \in Felder : s.wurzel[f] = t.wurzel[f]
    BY <2>1 DEF BeiStelle
  <2>3. QED
    BY <1>1, <2>2
<1>3. s.zeilen = t.zeilen
  <2>1. \A i \in 1..n, f \in Gruppenfelder : <<i, f>> \in Stellen(n) /\ i # 0
    BY DEF Stellen
  <2>2. \A i \in 1..n, f \in Gruppenfelder : s.zeilen[i][f] = t.zeilen[i][f]
    BY <2>1 DEF BeiStelle
  <2>3. \A i \in 1..n : s.zeilen[i] = t.zeilen[i]
    BY <1>1, <2>2
  <2>4. QED
    BY <1>1, <2>3
<1>4. QED
  BY <1>2, <1>3 DEF Staende

-----------------------------------------------------------------------------
(***************************************************************************)
(* The course of an evaluation.                                            *)
(***************************************************************************)

IstVerlauf(g, sprache, anfang, q, m) ==
  g = [n \in 0..m |-> IF n = 0 THEN anfang ELSE RegelWirkt(sprache, g[n - 1], q[n][1], q[n][2])]

LEMMA VerlaufGibtEs ==
  ASSUME NEW sprache, NEW anfang, NEW q, NEW m \in Nat
  PROVE  \E g : IstVerlauf(g, sprache, anfang, q, m)
<1> DEFINE Z == {n \in Nat : ~ \E g : IstVerlauf(g, sprache, anfang, q, n)}
           Danach(s, i) == RegelWirkt(sprache, s, q[i][1], q[i][2])
<1>0. \A g, n : IstVerlauf(g, sprache, anfang, q, n) <=> g = [i \in 0..n |-> IF i = 0 THEN anfang ELSE Danach(g[i - 1], i)]
  BY DEF IstVerlauf
<1> HIDE DEF Danach
<1>1. Z = {}
  <2> SUFFICES ASSUME Z # {} PROVE FALSE
    OBVIOUS
  <2>1. PICK n \in Z : \A i \in Z : n <= i
    BY KleinsteZahl
  <2>2. n # 0
    <3> DEFINE g == [i \in 0..0 |-> anfang]
    <3>1. g = [i \in 0..0 |-> IF i = 0 THEN anfang ELSE Danach(g[i - 1], i)]
      OBVIOUS
    <3>2. QED
      BY <1>0, <3>1
  <2>3. n - 1 \in Nat /\ n - 1 \notin Z
    BY <2>1, <2>2
  <2>4. PICK g : g = [i \in 0..(n - 1) |-> IF i = 0 THEN anfang ELSE Danach(g[i - 1], i)]
    BY <1>0, <2>3
  <2> DEFINE h == [i \in 0..n |-> IF i = n THEN Danach(g[n - 1], n) ELSE g[i]]
  <2>5. \A i \in 0..n : i # n => h[i] = g[i]
    OBVIOUS
  <2>6. ASSUME NEW i \in 0..n
        PROVE  h[i] = IF i = 0 THEN anfang ELSE Danach(h[i - 1], i)
    <3>1. i # 0 => i - 1 \in 0..n /\ i - 1 # n
      BY <2>6
    <3>2. i # 0 => h[i - 1] = g[i - 1]
      BY <2>5, <3>1
    <3>3. CASE i = n
      BY <3>2, <3>3, <2>2
    <3>4. CASE i # n
      <4>1. i \in 0..(n - 1)
        BY <3>4, <2>3
      <4>2. g[i] = IF i = 0 THEN anfang ELSE Danach(g[i - 1], i)
        BY <2>4, <4>1
      <4>3. QED
        BY <4>2, <3>2, <3>4, <2>5
    <3>5. QED
      BY <3>3, <3>4
  <2>7. h = [i \in 0..n |-> h[i]]
    OBVIOUS
  <2> HIDE DEF h
  <2>8. h = [i \in 0..n |-> IF i = 0 THEN anfang ELSE Danach(h[i - 1], i)]
    BY <2>6, <2>7
  <2>9. QED
    BY <1>0, <2>8
<1>2. QED
  BY <1>1

LEMMA FolgeLaenge ==
  ASSUME NEW k \in Nat, NEW S, NEW q \in [1..k -> S]
  PROVE  Len(q) = k /\ q \in Seq(S)
  OBVIOUS

\* The stages of an evaluation: states, each of which follows from the one before.
IstAblauf(g, sprache, q, n, k) ==
  /\ \A m \in 0..k : g[m] \in Staende(n)
  /\ \A m \in 1..k : /\ m - 1 \in 0..k /\ Ausfuehrbar(q[m][1], q[m][2], n)
                     /\ g[m] = RegelWirkt(sprache, g[m - 1], q[m][1], q[m][2])

IstFolge(q, rs, sicht, n, k) ==
  /\ rs \in SUBSET Regeln /\ n \in Nat /\ k \in Nat
  /\ q \in [1..k -> Schritte(rs, sicht, n)]

LEMMA VerlaufFakten ==
  ASSUME NEW rs, NEW sicht, NEW n, NEW k, NEW q, IstFolge(q, rs, sicht, n, k),
         NEW sprache, NEW anfang \in Staende(n)
  PROVE  /\ Len(q) = k /\ Verlauf(sprache, anfang, q)[0] = anfang
         /\ IstAblauf(Verlauf(sprache, anfang, q), sprache, q, n, k)
<1> DEFINE g == CHOOSE f : IstVerlauf(f, sprache, anfang, q, k)
<1>0. rs \in SUBSET Regeln /\ n \in Nat /\ k \in Nat /\ q \in [1..k -> Schritte(rs, sicht, n)]
  BY DEF IstFolge
<1>1. Len(q) = k
  BY <1>0, FolgeLaenge
<1>2. Verlauf(sprache, anfang, q) = g
  BY <1>1 DEF Verlauf, IstVerlauf
<1>3. IstVerlauf(g, sprache, anfang, q, k)
  BY <1>0, VerlaufGibtEs
<1> HIDE DEF g
<1>4. g[0] = anfang /\ \A m \in 1..k : g[m] = RegelWirkt(sprache, g[m - 1], q[m][1], q[m][2])
  <2>1. 0 \in 0..k /\ \A m \in 1..k : m \in 0..k /\ m # 0
    BY <1>0
  <2>2. QED
    BY <1>3, <2>1 DEF IstVerlauf
<1>5. \A m \in 1..k : m - 1 \in 0..k /\ q[m] \in Schritte(rs, sicht, n) /\ Ausfuehrbar(q[m][1], q[m][2], n)
  BY <1>0, SchrittFakten
<1> DEFINE Z == {m \in 0..k : g[m] \notin Staende(n)}
<1>6. Z = {}
  <2> SUFFICES ASSUME Z # {} PROVE FALSE
    OBVIOUS
  <2>1. PICK m \in Z : \A i \in Z : m <= i
    <3>1. Z \in SUBSET Nat
      BY <1>0
    <3>2. QED
      BY <3>1, KleinsteZahl
  <2>2. m # 0
    BY <1>4
  <2>3. m \in 1..k /\ m - 1 \in 0..k /\ m - 1 \notin Z
    BY <1>0, <2>1, <2>2
  <2>4. g[m - 1] \in Staende(n) /\ Ausfuehrbar(q[m][1], q[m][2], n)
    BY <1>5, <2>3
  <2>5. RegelWirkt(sprache, g[m - 1], q[m][1], q[m][2]) \in Staende(n)
    BY <1>0, <2>4, WirktFakten DEF Wirkt
  <2>6. QED
    BY <1>4, <2>1, <2>3, <2>5
<1>7. QED
  BY <1>1, <1>2, <1>4, <1>5, <1>6 DEF IstAblauf

\* What has failed stays so.
LEMMA OkErbt ==
  ASSUME NEW n \in Nat, NEW k \in Nat, NEW g, NEW sprache, NEW q, IstAblauf(g, sprache, q, n, k),
         g[k].ok, NEW m \in 0..k
  PROVE  g[m].ok
<1> DEFINE Z == {i \in 0..k : ~g[k - i].ok}
<1>1. ASSUME NEW i \in 1..k, g[i].ok PROVE g[i - 1].ok
  <2>1. g[i - 1] \in Staende(n) /\ Ausfuehrbar(q[i][1], q[i][2], n) /\ g[i] = RegelWirkt(sprache, g[i - 1], q[i][1], q[i][2])
    BY DEF IstAblauf
  <2>2. Wirkt(g[i], sprache, g[i - 1], q[i][1], q[i][2], n)
    BY <2>1, WirktFakten
  <2>3. QED
    BY <1>1, <2>2 DEF Wirkt
<1>2. Z = {}
  <2> SUFFICES ASSUME Z # {} PROVE FALSE
    OBVIOUS
  <2>1. PICK i \in Z : \A j \in Z : i <= j
    <3>1. Z \in SUBSET Nat
      OBVIOUS
    <3>2. QED
      BY <3>1, KleinsteZahl
  <2>2. i # 0
    OBVIOUS
  <2>3. i - 1 \in 0..k /\ i - 1 \notin Z /\ k - (i - 1) \in 1..k /\ (k - (i - 1)) - 1 = k - i
    BY <2>1, <2>2
  <2>4. QED
    BY <1>1, <2>1, <2>3
<1>3. k - m \in 0..k /\ k - (k - m) = m
  OBVIOUS
<1>4. QED
  BY <1>2, <1>3

LEMMA AnfangTyp ==
  ASSUME NEW sprache, NEW rs, NEW werte \in [Felder -> Wert], NEW n \in Nat, NEW reihen \in [1..n -> [Gruppenfelder -> Wert]]
  PROVE  Anfang(sprache, rs, werte, reihen) \in Staende(n)
<1>1. Len(reihen) = n
  BY FolgeLaenge
<1>2. Kopie(sprache, werte) \in [Felder -> Wert]
  <2>1. Liste({}) \in Wert
    BY DEF Liste, Wert
  <2>2. QED
    BY <2>1 DEF Kopie
<1>3. Grundzustand \in Zustaende
  BY DEF Grundzustand, Zustaende
<1>4. (~Zyklus(rs) /\ Kopierbar(sprache, werte)) \in BOOLEAN
  BY DEF Zyklus, Kopierbar
<1>5. QED
  BY <1>1, <1>2, <1>3, <1>4 DEF Anfang, Staende

-----------------------------------------------------------------------------
(***************************************************************************)
(* Two languages.  A condition depends on its clauses alone, and on values *)
(* of the right kinds the languages judge every clause alike.              *)
(***************************************************************************)

LEMMA BedingungGleich ==
  ASSUME NEW l1, NEW l2, NEW r, r.klauseln \in Seq(Klausel), NEW c1, NEW c2,
         \A i \in DOMAIN r.klauseln : KlauselUrteil(l1, r.klauseln[i], c1) = KlauselUrteil(l2, r.klauseln[i], c2)
  PROVE  Bedingung(l1, r, c1) = Bedingung(l2, r, c2)
<1> DEFINE weiter == IF r.alle THEN "ja" ELSE "nein"
           D(l, c) == {i \in DOMAIN r.klauseln : KlauselUrteil(l, r.klauseln[i], c) # weiter}
           e(l, c) == CHOOSE i \in D(l, c) : \A j \in D(l, c) : i =< j
<1>1. \A l, c : Bedingung(l, r, c) =
        IF D(l, c) = {} THEN (IF r.klauseln = <<>> THEN "ja" ELSE weiter) ELSE KlauselUrteil(l, r.klauseln[e(l, c)], c)
  BY DEF Bedingung
<1>2. D(l1, c1) = D(l2, c2)
  OBVIOUS
<1>3. e(l1, c1) = e(l2, c2)
  BY <1>2
<1>4. D(l1, c1) # {} => e(l1, c1) \in DOMAIN r.klauseln
  <2>1. SUFFICES ASSUME D(l1, c1) # {} PROVE e(l1, c1) \in D(l1, c1)
    OBVIOUS
  <2>2. D(l1, c1) \in SUBSET Nat
    OBVIOUS
  <2> HIDE DEF D
  <2>3. \E i \in D(l1, c1) : \A j \in D(l1, c1) : i <= j
    BY <2>1, <2>2, KleinsteZahl
  <2>4. QED
    BY <2>3
<1> HIDE DEF e
<1>5. QED
  BY <1>1, <1>2, <1>3, <1>4

LEMMA KlauselEinig ==
  ASSUME NEW k \in Klausel, NEW v \in Wert, Vergleichbar(k.op, v.art, k.wert.art)
  PROVE  PyKlausel(k, v) = JsKlausel(k, v)
<1>1. k.wert \in Wert
  BY DEF Klausel
<1>2. CASE k.op = "==" \/ k.op = "!="
  <2>1. k.wert.art # "liste" /\ {v.art, k.wert.art} # {"zahl", "bool"}
    BY <1>2 DEF Vergleichbar
  <2>2. PyGleich(v, k.wert) <=> JsGleich(v, k.wert)
    BY <2>1 DEF PyGleich, JsGleich
  <2>3. QED
    BY <1>2, <2>2 DEF PyKlausel, JsKlausel, Urteil
<1>3. CASE k.op = "<"
  <2>1. {v.art, k.wert.art} = {"text"} \/ {v.art, k.wert.art} \subseteq {"zahl", "bool"}
    BY <1>3 DEF Vergleichbar
  <2>2. PyKleiner(v, k.wert) = JsKleiner(v, k.wert)
    BY <2>1 DEF PyKleiner, JsKleiner, PyZahl, JsIstZahl, Urteil
  <2>3. QED
    BY <1>3, <2>2 DEF PyKlausel, JsKlausel
<1>4. CASE k.op = "in"
  BY <1>4 DEF PyKlausel, JsKlausel
<1>5. CASE k.op = "enthaelt"
  <2>1. v.art = "text" => k.wert.art = "text"
    BY <1>5 DEF Vergleichbar
  <2>2. PyEnthaelt(v, k.wert) = JsEnthaelt(v, k.wert)
    BY <2>1 DEF PyEnthaelt, JsEnthaelt, Urteil
  <2>3. QED
    BY <1>5, <2>2 DEF PyKlausel, JsKlausel
<1>6. QED
  BY <1>2, <1>3, <1>4, <1>5 DEF Klausel

\* The values of a state are those that are thought possible.
Erwartet(s, n) == \A p \in Stellen(n) : BeiStelle(s, p) \in Moeglich(p[2])

\* What a field of the context holds: a value of the state, or nothing.
LEMMA KontextStelle ==
  ASSUME NEW n \in Nat, NEW s, NEW z \in 0..n, NEW f \in Felder \cup Gruppenfelder
  PROVE  \/ <<0, f>> \in Stellen(n) /\ f \in Felder /\ Kontext(s, z)[f] = BeiStelle(s, <<0, f>>)
         \/ z # 0 /\ <<z, f>> \in Stellen(n) /\ f \notin Felder /\ Kontext(s, z)[f] = BeiStelle(s, <<z, f>>)
         \/ z = 0 /\ f \notin Felder /\ Kontext(s, z)[f] = Fehlt
<1>1. CASE f \in Felder
  BY <1>1 DEF Kontext, Stellen, BeiStelle
<1>2. CASE f \notin Felder /\ z # 0
  BY <1>2 DEF Kontext, Stellen, BeiStelle
<1>3. CASE f \notin Felder /\ z = 0
  BY <1>3 DEF Kontext
<1>4. QED
  BY <1>1, <1>2, <1>3

AlleMoeglichen ==
  {wurzel[g] : g \in Felder} \cup {Fehlt} \cup {r.wert : r \in Setzt(regeln)}
    \cup {zeilen[p[1]][p[2]] : p \in (DOMAIN zeilen) \X Gruppenfelder}

LEMMA MoeglichFakten ==
  ASSUME NEW f \in Felder \cup Gruppenfelder
  PROVE  /\ Moeglich(f) \subseteq AlleMoeglichen
         /\ f \notin Felder => Fehlt \in Moeglich(f)
         /\ f \in Felder => wurzel[f] \in Moeglich(f)
         /\ f \in Gruppenfelder => \A i \in DOMAIN zeilen : zeilen[i][f] \in Moeglich(f)
         /\ \A r \in Setzt(regeln) : r.ziel = f =>
              r.wert \in Moeglich(f) /\ (r.quelle # Literal => Moeglich(f) = AlleMoeglichen)
<1> DEFINE setzer == {r \in Setzt(regeln) : r.ziel = f}
           antwort == IF f \in Felder THEN {wurzel[f]} ELSE {Fehlt} \cup {zeilen[i][f] : i \in DOMAIN zeilen}
<1>1. Moeglich(f) = IF \E r \in setzer : r.quelle # Literal THEN AlleMoeglichen ELSE antwort \cup {r.wert : r \in setzer}
  BY DEF Moeglich, AlleMoeglichen
<1>2. antwort \subseteq AlleMoeglichen
  <2>1. CASE f \in Felder
    BY <2>1 DEF AlleMoeglichen
  <2>2. CASE f \notin Felder
    <3>1. ASSUME NEW i \in DOMAIN zeilen PROVE zeilen[i][f] \in AlleMoeglichen
      <4>1. <<i, f>> \in (DOMAIN zeilen) \X Gruppenfelder
        BY <2>2
      <4>2. QED
        BY <4>1 DEF AlleMoeglichen
    <3>2. Fehlt \in AlleMoeglichen
      BY DEF AlleMoeglichen
    <3>3. QED
      BY <2>2, <3>1, <3>2
  <2>3. QED
    BY <2>1, <2>2
<1>3. {r.wert : r \in setzer} \subseteq AlleMoeglichen
  BY DEF AlleMoeglichen
<1>4. /\ f \notin Felder => Fehlt \in antwort
      /\ f \in Felder => wurzel[f] \in antwort
      /\ f \in Gruppenfelder => \A i \in DOMAIN zeilen : zeilen[i][f] \in antwort
  BY FormAnnahme
<1>5. \A r \in Setzt(regeln) : r.ziel = f => r \in setzer
  OBVIOUS
<1> HIDE DEF antwort, setzer
<1>6. QED
  BY <1>1, <1>2, <1>3, <1>4, <1>5

LEMMA KontextErwartet ==
  ASSUME NEW n \in Nat, NEW s, Erwartet(s, n), NEW z \in 0..n, NEW f \in Felder \cup Gruppenfelder
  PROVE  Kontext(s, z)[f] \in Moeglich(f)
<1>1. \A p \in Stellen(n) : BeiStelle(s, p) \in Moeglich(p[2])
  BY DEF Erwartet
<1>2. f \notin Felder => Fehlt \in Moeglich(f)
  BY MoeglichFakten
<1>3. \A i \in 0..n : <<i, f>> \in Stellen(n) => BeiStelle(s, <<i, f>>) \in Moeglich(f)
  BY <1>1
<1>4. \/ <<0, f>> \in Stellen(n) /\ Kontext(s, z)[f] = BeiStelle(s, <<0, f>>)
      \/ <<z, f>> \in Stellen(n) /\ Kontext(s, z)[f] = BeiStelle(s, <<z, f>>)
      \/ f \notin Felder /\ Kontext(s, z)[f] = Fehlt
  BY KontextStelle
<1>5. 0 \in 0..n
  OBVIOUS
<1>6. QED
  BY <1>2, <1>3, <1>4, <1>5

LEMMA SchrittErwartet ==
  ASSUME NEW n \in Nat, NEW sprache, NEW s \in Staende(n), NEW t, NEW r \in regeln, NEW z,
         Ausfuehrbar(r, z, n), Wirkt(t, sprache, s, r, z, n), Erwartet(s, n)
  PROVE  Erwartet(t, n)
<1> SUFFICES ASSUME NEW p \in Stellen(n) PROVE BeiStelle(t, p) \in Moeglich(p[2])
  BY DEF Erwartet
<1>1. BeiStelle(s, p) \in Moeglich(p[2])
  BY DEF Erwartet
<1>2. CASE p # <<z, r.ziel>> \/ ~SetztWert(sprache, s, r, z)
  BY <1>1, <1>2 DEF Wirkt
<1>3. CASE p = <<z, r.ziel>> /\ SetztWert(sprache, s, r, z)
  <2>1. BeiStelle(t, p) = NeuerWert(s, r, z)
    BY <1>3 DEF Wirkt
  <2>2. r \in Setzt(regeln) /\ r.ziel = p[2] /\ z \in 0..n /\ r.ziel \in Felder \cup Gruppenfelder
    BY <1>3, StelleDesZiels DEF Setzt, SetztWert
  <2>3. r.wert \in Moeglich(p[2]) /\ (r.quelle # Literal => Moeglich(p[2]) = AlleMoeglichen)
    BY <2>2, MoeglichFakten
  <2>4. CASE r.quelle = Literal
    BY <2>1, <2>3, <2>4 DEF NeuerWert
  <2>5. CASE r.quelle # Literal
    <3>1. r.quelle \in Felder \cup Gruppenfelder
      BY <2>5, RegelFakt DEF Ausfuehrbar, Regel
    <3>2. Kontext(s, z)[r.quelle] \in Moeglich(r.quelle)
      BY <2>2, <3>1, KontextErwartet
    <3>3. QED
      BY <2>1, <2>3, <2>5, <3>1, <3>2, MoeglichFakten DEF NeuerWert
  <2>6. QED
    BY <2>4, <2>5
<1>4. QED
  BY <1>2, <1>3

LEMMA SchrittEinig ==
  ASSUME NEW n \in Nat, NEW s \in Staende(n), Erwartet(s, n), NEW r \in regeln, NEW z, Ausfuehrbar(r, z, n), Typgerecht
  PROVE  RegelWirkt("python", s, r, z) = RegelWirkt("javascript", s, r, z)
<1> DEFINE ctx == Kontext(s, z)
<1>1. r.klauseln \in Seq(Klausel) /\ z \in 0..n
  BY RegelFakt, StelleDesZiels DEF Ausfuehrbar, Regel
<1>2. ASSUME NEW i \in DOMAIN r.klauseln
      PROVE  KlauselUrteil("python", r.klauseln[i], ctx) = KlauselUrteil("javascript", r.klauseln[i], ctx)
  <2> DEFINE c == r.klauseln[i]
  <2>0. c \in Klausel
    BY <1>1
  <2>1. c \in Klausel /\ c.feld \in Felder \cup Gruppenfelder
    BY <2>0 DEF Klausel
  <2>2. ctx[c.feld] \in Wert
    BY <1>1, <2>1, KontextTyp
  <2>3. ctx[c.feld] \in Moeglich(c.feld)
    BY <1>1, <2>1, KontextErwartet
  <2>4. Vergleichbar(c.op, ctx[c.feld].art, c.wert.art)
    BY <2>3 DEF Typgerecht
  <2> HIDE DEF c, ctx
  <2>5. PyKlausel(c, ctx[c.feld]) = JsKlausel(c, ctx[c.feld])
    BY <2>1, <2>2, <2>4, KlauselEinig
  <2>6. QED
    BY <2>5 DEF KlauselUrteil, c
<1>3. Bedingung("python", r, ctx) = Bedingung("javascript", r, ctx)
  BY <1>1, <1>2, BedingungGleich
<1>4. QED
  BY <1>3 DEF RegelWirkt

InReihe(q, k) ==
  \A i, j \in 1..k : i < j => q[i][1].folge < q[j][1].folge \/ (q[i][1] = q[j][1] /\ q[i][2] < q[j][2])

Rechnet(q, rs, sicht, n, k) ==
  \A sprache : \A werte \in [Felder -> Wert], reihen \in [1..n -> [Gruppenfelder -> Wert]] :
    LET a == Anfang(sprache, rs, werte, reihen)
        g == Verlauf(sprache, a, q)
    IN /\ a \in Staende(n) /\ g[0] = a /\ IstAblauf(g, sprache, q, n, k)
       /\ Auswertung(sprache, rs, sicht, werte, reihen) = g[k]

\* An evaluation is the last stage of a course along the rules in their order.
LEMMA AuswertungFakten ==
  ASSUME NEW rs \in SUBSET Regeln, IsFiniteSet(rs), NEW sicht, NEW n \in Nat
  PROVE  \E k \in Nat : \E q : IstFolge(q, rs, sicht, n, k) /\ InReihe(q, k) /\ Rechnet(q, rs, sicht, n, k)
<1> DEFINE q == InFolge(rs, sicht, n)
<1>1. PICK k \in Nat : q \in [1..k -> Schritte(rs, sicht, n)] /\ InReihe(q, k)
  BY InFolgeFakten DEF InReihe
<1>2. IstFolge(q, rs, sicht, n, k)
  BY <1>1 DEF IstFolge
<1>3. ASSUME NEW sprache, NEW werte \in [Felder -> Wert], NEW reihen \in [1..n -> [Gruppenfelder -> Wert]]
      PROVE  LET a == Anfang(sprache, rs, werte, reihen)
                 g == Verlauf(sprache, a, q)
             IN /\ a \in Staende(n) /\ g[0] = a /\ IstAblauf(g, sprache, q, n, k)
                /\ Auswertung(sprache, rs, sicht, werte, reihen) = g[k]
  <2> DEFINE a == Anfang(sprache, rs, werte, reihen)
  <2>1. a \in Staende(n)
    BY AnfangTyp
  <2>2. Len(reihen) = n
    BY FolgeLaenge
  <2>3. Auswertung(sprache, rs, sicht, werte, reihen) = Verlauf(sprache, a, q)[Len(q)]
    BY <2>2 DEF Auswertung
  <2> HIDE DEF a, q
  <2>4. Len(q) = k /\ Verlauf(sprache, a, q)[0] = a /\ IstAblauf(Verlauf(sprache, a, q), sprache, q, n, k)
    BY <1>2, <2>1, VerlaufFakten
  <2>5. QED
    BY <2>1, <2>3, <2>4 DEF a
<1>4. Rechnet(q, rs, sicht, n, k)
  BY <1>3 DEF Rechnet
<1>5. QED
  BY <1>1, <1>2, <1>4

LEMMA KopieEinig ==
  ASSUME NEW werte \in [Felder -> Wert], \A f \in Felder : werte[f].art = "liste" => werte[f] = Liste({})
  PROVE  /\ Kopie("python", werte) = werte /\ Kopie("javascript", werte) = werte
         /\ Kopierbar("python", werte) /\ Kopierbar("javascript", werte)
<1>1. Liste({}).m = {}
  BY DEF Liste
<1>2. QED
  BY <1>1 DEF Kopie, Kopierbar

LEMMA SprachenEinig == IFo /\ Typgerecht => EnginesGleich
<1> SUFFICES ASSUME IFo, Typgerecht PROVE EnginesGleich
  OBVIOUS
<1> DEFINE n == Len(zeilen)
<1>1. /\ n \in Nat /\ zeilen \in [1..n -> [Gruppenfelder -> Wert]] /\ wurzel \in [Felder -> Wert]
      /\ regeln \in SUBSET Regeln /\ IsFiniteSet(regeln) /\ DOMAIN zeilen = 1..n
  BY DEF IFo, FoTyp
<1> HIDE DEF n
<1> DEFINE a == Anfang("python", regeln, wurzel, zeilen)
<1> DEFINE Gut(k, q) == IstFolge(q, regeln, "capture", n, k) /\ InReihe(q, k) /\ Rechnet(q, regeln, "capture", n, k)
<1>0. PICK k \in Nat : \E q : Gut(k, q)
  BY <1>1, AuswertungFakten
<1>2. PICK q : Gut(k, q)
  BY <1>0
<1>3. \A f \in Felder : wurzel[f].art = "liste" => wurzel[f] = Liste({})
  BY DEF Typgerecht
<1>4. /\ Kopie("python", wurzel) = wurzel /\ Kopie("javascript", wurzel) = wurzel
      /\ Kopierbar("python", wurzel) /\ Kopierbar("javascript", wurzel)
  BY <1>1, <1>3, KopieEinig
<1>5. a = Anfang("javascript", regeln, wurzel, zeilen) /\ a.wurzel = wurzel /\ a.zeilen = zeilen
  BY <1>4 DEF Anfang
<1>6. Erwartet(a, n)
  <2>1. ASSUME NEW p \in Stellen(n) PROVE BeiStelle(a, p) \in Moeglich(p[2])
    <3>1. \/ p[1] = 0 /\ p[2] \in Felder
          \/ p[1] # 0 /\ p[1] \in 1..n /\ p[2] \in Gruppenfelder
      BY DEF Stellen
    <3>2. BeiStelle(a, p) = IF p[1] = 0 THEN wurzel[p[2]] ELSE zeilen[p[1]][p[2]]
      BY <1>5 DEF BeiStelle
    <3> HIDE DEF a
    <3>3. QED
      BY <1>1, <3>1, <3>2, MoeglichFakten
  <2>2. QED
    BY <2>1 DEF Erwartet
<1> DEFINE py == Verlauf("python", a, q)
           js == Verlauf("javascript", a, q)
<1>7. /\ a \in Staende(n) /\ py[0] = a /\ js[0] = a
      /\ IstAblauf(py, "python", q, n, k) /\ IstAblauf(js, "javascript", q, n, k)
      /\ Auswertung("python", regeln, "capture", wurzel, zeilen) = py[k]
      /\ Auswertung("javascript", regeln, "capture", wurzel, zeilen) = js[k]
  <2> HIDE DEF Auswertung
  <2>1. QED
    BY <1>1, <1>2, <1>5 DEF Rechnet
<1>8. \A m \in 1..k : q[m][1] \in regeln
  <2>1. ASSUME NEW m \in 1..k PROVE q[m][1] \in regeln
    <3>1. q[m] \in Schritte(regeln, "capture", n)
      BY <1>2 DEF IstFolge
    <3>2. QED
      BY <1>1, <3>1, SchrittFakten
  <2>2. QED
    BY <2>1
<1> HIDE DEF a, py, js
<1> DEFINE Einig(m) == py[m] = js[m] /\ Erwartet(py[m], n)
           Z == {m \in 0..k : ~Einig(m)}
<1>9. Z = {}
  <2> SUFFICES ASSUME Z # {} PROVE FALSE
    OBVIOUS
  <2>1. PICK m \in Z : \A i \in Z : m <= i
    <3>1. Z \in SUBSET Nat
      OBVIOUS
    <3>2. QED
      BY <3>1, KleinsteZahl
  <2>2. m # 0
    BY <1>6, <1>7
  <2>3. m \in 1..k /\ m - 1 \in 0..k /\ m - 1 \notin Z
    BY <2>1, <2>2
  <2> DEFINE s == py[m - 1]
             r == q[m][1]
             z == q[m][2]
  <2>4. s = js[m - 1] /\ Erwartet(s, n) /\ r \in regeln
    BY <1>8, <2>3
  <2>5. /\ s \in Staende(n) /\ Ausfuehrbar(r, z, n)
        /\ py[m] = RegelWirkt("python", s, r, z) /\ js[m] = RegelWirkt("javascript", js[m - 1], r, z)
    BY <1>7, <2>3 DEF IstAblauf
  <2> HIDE DEF s, r, z
  <2>6. RegelWirkt("python", s, r, z) = RegelWirkt("javascript", s, r, z)
    BY <1>1, <2>4, <2>5, SchrittEinig
  <2>7. Wirkt(py[m], "python", s, r, z, n)
    BY <1>1, <2>5, WirktFakten
  <2>8. Erwartet(py[m], n)
    BY <1>1, <2>4, <2>5, <2>7, SchrittErwartet
  <2>9. QED
    BY <2>1, <2>4, <2>5, <2>6, <2>8
<1>10. py[k] = js[k]
  BY <1>9
<1>11. QED
  BY <1>7, <1>10 DEF EnginesGleich

-----------------------------------------------------------------------------
(***************************************************************************)
(* One pass.  Where the second pass still differs from the first, a later  *)
(* step of the first sets the value, and no rule that is still to come     *)
(* reads it.                                                               *)
(***************************************************************************)

\* Step j of the course g sets the value at p.
Setzer(g, sprache, q, j, p) ==
  SetztWert(sprache, g[j - 1], q[j][1], q[j][2]) /\ p = <<q[j][2], q[j][1].ziel>>

LEMMA NieGesetzt ==
  ASSUME NEW n \in Nat, NEW k \in Nat, NEW g, NEW sprache, NEW q, IstAblauf(g, sprache, q, n, k),
         NEW p \in Stellen(n), \A j \in 1..k : ~Setzer(g, sprache, q, j, p)
  PROVE  BeiStelle(g[k], p) = BeiStelle(g[0], p)
<1> DEFINE Z == {m \in 0..k : BeiStelle(g[m], p) # BeiStelle(g[0], p)}
<1>1. Z = {}
  <2> SUFFICES ASSUME Z # {} PROVE FALSE
    OBVIOUS
  <2>1. PICK m \in Z : \A i \in Z : m <= i
    <3>1. Z \in SUBSET Nat
      OBVIOUS
    <3>2. QED
      BY <3>1, KleinsteZahl
  <2>2. m # 0
    OBVIOUS
  <2>3. m \in 1..k /\ m - 1 \in 0..k /\ m - 1 \notin Z
    BY <2>1, <2>2
  <2> DEFINE s == g[m - 1]
             r == q[m][1]
             z == q[m][2]
  <2>4. s \in Staende(n) /\ Ausfuehrbar(r, z, n) /\ g[m] = RegelWirkt(sprache, s, r, z)
    BY <2>3 DEF IstAblauf
  <2>5. p # <<z, r.ziel>> \/ ~SetztWert(sprache, s, r, z)
    BY <2>3 DEF Setzer
  <2>6. BeiStelle(s, p) = BeiStelle(g[0], p)
    BY <2>3
  <2> HIDE DEF s, r, z
  <2>7. Wirkt(g[m], sprache, s, r, z, n)
    BY <2>4, WirktFakten
  <2>8. QED
    BY <2>1, <2>5, <2>6, <2>7 DEF Wirkt
<1>2. QED
  BY <1>1

LEMMA LiestGleich ==
  ASSUME NEW n \in Nat, NEW sprache, NEW s, NEW t, NEW r, NEW z, Ausfuehrbar(r, z, n),
         \A f \in Gelesen(r) : Kontext(s, z)[f] = Kontext(t, z)[f]
  PROVE  Bejaht(sprache, s, r, z) = Bejaht(sprache, t, r, z) /\ NeuerWert(s, r, z) = NeuerWert(t, r, z)
<1>1. r.klauseln \in Seq(Klausel)
  BY RegelFakt DEF Ausfuehrbar, Regel
<1>2. \A i \in DOMAIN r.klauseln : r.klauseln[i].feld \in Gelesen(r)
  BY DEF Gelesen
<1>3. \A i \in DOMAIN r.klauseln :
        KlauselUrteil(sprache, r.klauseln[i], Kontext(s, z)) = KlauselUrteil(sprache, r.klauseln[i], Kontext(t, z))
  BY <1>2 DEF KlauselUrteil
<1>4. Bejaht(sprache, s, r, z) = Bejaht(sprache, t, r, z)
  BY <1>1, <1>3, BedingungGleich DEF Bejaht
<1>5. r.quelle # Literal => r.quelle \in Gelesen(r)
  BY DEF Gelesen
<1>6. QED
  BY <1>4, <1>5 DEF NeuerWert

RegelnGeordnet(rs) == \A r \in rs, s \in Setzt(rs) : s.ziel \in Gelesen(r) => s.folge < r.folge

\* Where a second pass stands against the first after m steps.
ZweiterDurchlauf(h, g, sprache, q, m, n, k) ==
  /\ h[m].ok /\ h[m].zustand = g[m].zustand
  /\ \A p \in Stellen(n) :
       BeiStelle(h[m], p) # BeiStelle(g[m], p) => \E j \in (m + 1)..k : Setzer(g, sprache, q, j, p)

LEMMA ZiehtNach ==
  ASSUME NEW n \in Nat, NEW k \in Nat, NEW g, NEW h, NEW sprache, NEW q, NEW rs \in SUBSET Regeln,
         IstAblauf(g, sprache, q, n, k), IstAblauf(h, sprache, q, n, k), InReihe(q, k),
         \A j \in 1..k : q[j][1] \in rs, RegelnGeordnet(rs), g[k].ok,
         NEW m \in 1..k, ZweiterDurchlauf(h, g, sprache, q, m - 1, n, k)
  PROVE  ZweiterDurchlauf(h, g, sprache, q, m, n, k)
<1> DEFINE s == g[m - 1]
           t == h[m - 1]
           r == q[m][1]
           z == q[m][2]
<1>1. /\ s \in Staende(n) /\ t \in Staende(n) /\ Ausfuehrbar(r, z, n) /\ z \in 0..n
      /\ g[m] = RegelWirkt(sprache, s, r, z) /\ h[m] = RegelWirkt(sprache, t, r, z)
  <2>1. s \in Staende(n) /\ t \in Staende(n) /\ Ausfuehrbar(r, z, n)
        /\ g[m] = RegelWirkt(sprache, s, r, z) /\ h[m] = RegelWirkt(sprache, t, r, z)
    BY DEF IstAblauf
  <2> HIDE DEF s, t, r, z
  <2>2. z \in 0..n
    BY <2>1, StelleDesZiels
  <2>3. QED
    BY <2>1, <2>2
<1>2. s.ok /\ g[m].ok /\ t.ok /\ t.zustand = s.zustand
  <2>1. m \in 0..k /\ m - 1 \in 0..k
    OBVIOUS
  <2>2. g[m].ok /\ g[m - 1].ok
    BY <2>1, OkErbt
  <2>3. QED
    BY <2>2 DEF ZweiterDurchlauf
<1>3. \A p \in Stellen(n) : BeiStelle(t, p) # BeiStelle(s, p) => \E j \in m..k : Setzer(g, sprache, q, j, p)
  <2>1. (m - 1) + 1 = m
    OBVIOUS
  <2>2. QED
    BY <2>1 DEF ZweiterDurchlauf
<1>4. ASSUME NEW f \in Gelesen(r), NEW i, <<i, f>> \in Stellen(n)
      PROVE  BeiStelle(t, <<i, f>>) = BeiStelle(s, <<i, f>>)
  <2>1. SUFFICES ASSUME NEW j \in m..k, Setzer(g, sprache, q, j, <<i, f>>) PROVE FALSE
    BY <1>3, <1>4
  <2>2. q[j][1].effekt = "set_value" /\ q[j][1].ziel = f /\ q[j][1] \in rs /\ r \in rs
    BY <2>1 DEF Setzer, SetztWert
  <2>3. q[j][1].folge < r.folge
    BY <2>2 DEF RegelnGeordnet, Setzt
  <2>4. q[j][1].folge \in Nat /\ r.folge \in Nat
    BY <2>2, RegelFakt DEF Regel
  <2>5. CASE j = m
    BY <2>3, <2>4, <2>5
  <2>6. CASE m < j
    <3>1. r.folge < q[j][1].folge \/ r = q[j][1]
      BY <2>6 DEF InReihe
    <3>2. QED
      BY <2>3, <2>4, <3>1
  <2>7. QED
    BY <2>5, <2>6
<1>5. \A f \in Gelesen(r) : Kontext(s, z)[f] = Kontext(t, z)[f]
  <2>1. ASSUME NEW f \in Gelesen(r) PROVE Kontext(s, z)[f] = Kontext(t, z)[f]
    <3>1. f \in Felder \cup Gruppenfelder
      <4>1. r \in Regel /\ r.klauseln \in Seq(Klausel) /\ r.quelle \in Felder \cup Gruppenfelder \cup {Literal}
        BY <1>1, RegelFakt DEF Ausfuehrbar, Regel
      <4>2. \A i \in DOMAIN r.klauseln : r.klauseln[i] \in Klausel
        BY <4>1
      <4>3. \A i \in DOMAIN r.klauseln : r.klauseln[i].feld \in Felder \cup Gruppenfelder
        BY <4>2 DEF Klausel
      <4>4. QED
        BY <4>1, <4>3 DEF Gelesen
    <3> HIDE DEF s, t, r, z
    <3>2. CASE f \in Felder
      <4>1. <<0, f>> \in Stellen(n) /\ Kontext(s, z)[f] = BeiStelle(s, <<0, f>>) /\ Kontext(t, z)[f] = BeiStelle(t, <<0, f>>)
        BY <3>2 DEF Stellen, Kontext, BeiStelle
      <4>2. QED
        BY <1>4, <4>1
    <3>3. CASE f \notin Felder /\ z # 0
      <4>1. <<z, f>> \in Stellen(n) /\ Kontext(s, z)[f] = BeiStelle(s, <<z, f>>) /\ Kontext(t, z)[f] = BeiStelle(t, <<z, f>>)
        BY <1>1, <3>1, <3>3 DEF Stellen, Kontext, BeiStelle
      <4>2. QED
        BY <1>4, <4>1
    <3>4. CASE f \notin Felder /\ z = 0
      BY <3>1, <3>4 DEF Kontext
    <3>5. QED
      BY <3>2, <3>3, <3>4
  <2>2. QED
    BY <2>1
<1> HIDE DEF s, t, r, z
<1>6. Bejaht(sprache, s, r, z) = Bejaht(sprache, t, r, z) /\ NeuerWert(s, r, z) = NeuerWert(t, r, z)
  BY <1>1, <1>5, LiestGleich
<1>7. Wirkt(g[m], sprache, s, r, z, n) /\ Wirkt(h[m], sprache, t, r, z, n)
  BY <1>1, WirktFakten
<1>8. h[m].ok /\ h[m].zustand = g[m].zustand
  BY <1>2, <1>6, <1>7 DEF Wirkt
<1>9. SetztWert(sprache, s, r, z) <=> SetztWert(sprache, t, r, z)
  BY <1>2, <1>6 DEF SetztWert
<1>10. ASSUME NEW p \in Stellen(n), BeiStelle(h[m], p) # BeiStelle(g[m], p)
       PROVE  \E j \in (m + 1)..k : Setzer(g, sprache, q, j, p)
  <2>1. ~(p = <<z, r.ziel>> /\ SetztWert(sprache, s, r, z))
    <3>1. SUFFICES ASSUME p = <<z, r.ziel>>, SetztWert(sprache, s, r, z) PROVE FALSE
      OBVIOUS
    <3>2. BeiStelle(g[m], p) = NeuerWert(s, r, z) /\ BeiStelle(h[m], p) = NeuerWert(t, r, z)
      BY <1>7, <1>9, <3>1 DEF Wirkt
    <3>3. QED
      BY <1>6, <1>10, <3>2
  <2>2. BeiStelle(g[m], p) = BeiStelle(s, p) /\ BeiStelle(h[m], p) = BeiStelle(t, p)
    BY <1>7, <1>9, <2>1 DEF Wirkt
  <2>3. PICK j \in m..k : Setzer(g, sprache, q, j, p)
    BY <1>3, <1>10, <2>2
  <2>4. j # m
    BY <2>1, <2>3 DEF Setzer, s, r, z
  <2>5. QED
    BY <2>3, <2>4
<1>11. QED
  BY <1>8, <1>10 DEF ZweiterDurchlauf

LEMMA EinDurchlauf == IFo => EinDurchlaufGenuegt
<1> DEFINE n == Len(zeilen)
           rs == {r \in regeln : r.sicht # "summary"}
           js == Auswertung("javascript", regeln, "capture", wurzel, zeilen)
<1> SUFFICES ASSUME IFo, RegelnGeordnet(rs), js.ok
             PROVE  Auswertung("javascript", regeln, "capture", js.wurzel, js.zeilen) = js
  BY DEF EinDurchlaufGenuegt, RegelnGeordnet
<1>1. /\ n \in Nat /\ zeilen \in [1..n -> [Gruppenfelder -> Wert]] /\ wurzel \in [Felder -> Wert]
      /\ regeln \in SUBSET Regeln /\ IsFiniteSet(regeln) /\ rs \in SUBSET Regeln
  BY DEF IFo, FoTyp
<1> HIDE DEF n
<1> DEFINE Gut(k, q) == IstFolge(q, regeln, "capture", n, k) /\ InReihe(q, k) /\ Rechnet(q, regeln, "capture", n, k)
<1>0. PICK k \in Nat : \E q : Gut(k, q)
  BY <1>1, AuswertungFakten
<1>2. PICK q : Gut(k, q)
  BY <1>0
<1> DEFINE a == Anfang("javascript", regeln, wurzel, zeilen)
           g == Verlauf("javascript", a, q)
<1>3. a \in Staende(n) /\ g[0] = a /\ IstAblauf(g, "javascript", q, n, k) /\ js = g[k]
  <2> HIDE DEF Auswertung
  <2>1. QED
    BY <1>1, <1>2 DEF Rechnet
<1>4. js \in Staende(n) /\ js.wurzel \in [Felder -> Wert] /\ js.zeilen \in [1..n -> [Gruppenfelder -> Wert]]
  <2>1. js \in Staende(n)
    <3> HIDE DEF js, g
    <3>1. k \in 0..k
      OBVIOUS
    <3>2. QED
      BY <1>3, <3>1 DEF IstAblauf
  <2> HIDE DEF js
  <2>2. QED
    BY <2>1 DEF Staende
<1> DEFINE b == Anfang("javascript", regeln, js.wurzel, js.zeilen)
           h == Verlauf("javascript", b, q)
<1>5. /\ b \in Staende(n) /\ h[0] = b /\ IstAblauf(h, "javascript", q, n, k)
      /\ Auswertung("javascript", regeln, "capture", js.wurzel, js.zeilen) = h[k]
  <2> HIDE DEF js
  <2>1. QED
    BY <1>2, <1>4 DEF Rechnet
<1>6. Len(zeilen) = n /\ Len(js.zeilen) = n
  <2> HIDE DEF js
  <2>1. QED
    BY <1>1, <1>4, FolgeLaenge
<1>7. a.wurzel = Kopie("javascript", wurzel) /\ b.wurzel = Kopie("javascript", js.wurzel) /\ b.zeilen = js.zeilen
  BY DEF Anfang
<1>8. /\ a.ok <=> ~Zyklus(regeln)
      /\ b.ok <=> ~Zyklus(regeln)
      /\ a.zustand = b.zustand
  <2> HIDE DEF js
  <2>1. \A w : Kopierbar("javascript", w)
    BY DEF Kopierbar
  <2>2. QED
    BY <1>6, <2>1 DEF Anfang
<1>9. \A j \in 1..k : q[j][1] \in rs
  <2>1. ASSUME NEW j \in 1..k PROVE q[j][1] \in rs
    <3>1. q[j] \in Schritte(regeln, "capture", n)
      BY <1>2 DEF IstFolge
    <3>2. q[j][1] \in regeln /\ q[j][1].sicht \in {"alle", "capture"}
      BY <1>1, <3>1, SchrittFakten
    <3>3. QED
      BY <3>2
  <2>2. QED
    BY <2>1
<1> HIDE DEF rs, js, a, b, g, h
<1>10. a.ok
  <2>1. 0 \in 0..k /\ g[k].ok
    BY <1>3
  <2>2. QED
    BY <1>1, <1>3, <2>1, OkErbt
<1>11. ASSUME NEW p \in Stellen(n), \A j \in 1..k : ~Setzer(g, "javascript", q, j, p)
       PROVE  BeiStelle(b, p) = BeiStelle(a, p)
  <2>1. BeiStelle(js, p) = BeiStelle(a, p)
    BY <1>1, <1>3, <1>11, NieGesetzt
  <2>2. CASE p[1] = 0
    <3>1. p[2] \in Felder
      BY <2>2 DEF Stellen
    <3>2. js.wurzel[p[2]] = Kopie("javascript", wurzel)[p[2]]
      BY <1>7, <2>1, <2>2 DEF BeiStelle
    <3>3. Kopie("javascript", js.wurzel)[p[2]] = js.wurzel[p[2]]
      <4>1. js.wurzel[p[2]] = IF wurzel[p[2]].art = "liste" THEN Liste({}) ELSE wurzel[p[2]]
        BY <1>1, <3>1, <3>2 DEF Kopie
      <4>2. Kopie("javascript", js.wurzel)[p[2]] = IF js.wurzel[p[2]].art = "liste" THEN Liste({}) ELSE js.wurzel[p[2]]
        BY <1>4, <3>1 DEF Kopie
      <4>3. QED
        BY <4>1, <4>2
    <3>4. QED
      BY <1>7, <2>2, <3>2, <3>3 DEF BeiStelle
  <2>3. CASE p[1] # 0
    BY <1>7, <2>1, <2>3 DEF BeiStelle
  <2>4. QED
    BY <2>2, <2>3
<1> DEFINE Z == {m \in 0..k : ~ZweiterDurchlauf(h, g, "javascript", q, m, n, k)}
<1>12. Z = {}
  <2> SUFFICES ASSUME Z # {} PROVE FALSE
    OBVIOUS
  <2>1. PICK m \in Z : \A i \in Z : m <= i
    <3>1. Z \in SUBSET Nat
      OBVIOUS
    <3>2. QED
      BY <3>1, KleinsteZahl
  <2>2. m # 0
    <3>1. h[0].ok /\ h[0].zustand = g[0].zustand
      BY <1>3, <1>5, <1>8, <1>10
    <3>2. \A p \in Stellen(n) :
            BeiStelle(h[0], p) # BeiStelle(g[0], p) => \E j \in (0 + 1)..k : Setzer(g, "javascript", q, j, p)
      BY <1>3, <1>5, <1>11
    <3>3. ZweiterDurchlauf(h, g, "javascript", q, 0, n, k)
      BY <3>1, <3>2 DEF ZweiterDurchlauf
    <3>4. QED
      BY <2>1, <3>3
  <2>3. m \in 1..k /\ m - 1 \in 0..k /\ m - 1 \notin Z
    BY <2>1, <2>2
  <2>4. ZweiterDurchlauf(h, g, "javascript", q, m - 1, n, k) /\ g[k].ok
    BY <1>3, <2>3
  <2>5. ZweiterDurchlauf(h, g, "javascript", q, m, n, k)
    BY <1>1, <1>2, <1>3, <1>5, <1>9, <2>3, <2>4, ZiehtNach
  <2>6. QED
    BY <2>1, <2>5
<1>13. ZweiterDurchlauf(h, g, "javascript", q, k, n, k)
  BY <1>12
<1>14. h[k] = g[k]
  <2>1. (k + 1)..k = {}
    OBVIOUS
  <2>2. \A p \in Stellen(n) : BeiStelle(h[k], p) = BeiStelle(g[k], p)
    BY <1>13, <2>1 DEF ZweiterDurchlauf
  <2>3. h[k].ok /\ h[k].zustand = g[k].zustand /\ g[k].ok
    BY <1>3, <1>13 DEF ZweiterDurchlauf
  <2>4. h[k] \in Staende(n) /\ g[k] \in Staende(n) /\ k \in 0..k
    BY <1>3, <1>5 DEF IstAblauf
  <2>5. h[k].ok \in BOOLEAN /\ g[k].ok \in BOOLEAN
    BY <2>4 DEF Staende
  <2>6. h[k].ok = g[k].ok
    BY <2>3, <2>5
  <2>7. QED
    BY <1>1, <2>2, <2>3, <2>4, <2>6, StaendeGleich
<1>15. QED
  BY <1>3, <1>5, <1>14

LEMMA FoRegelnEindeutig == IFo => RegelnEindeutig
<1>1. IFo => RegelnZyklusfrei
  BY DEF IFo, RegelnZyklusfrei
<1>2. IFo => EngineGleichWennTypgerecht
  BY SprachenEinig DEF EngineGleichWennTypgerecht
<1>3. QED
  BY <1>1, <1>2, EinDurchlauf DEF RegelnEindeutig

\* What the page marks as required and leaves empty, the server misses as well.
LEMMA AngezeigtGeprueft == IFo /\ Abschliessen /\ Typgerecht => AngezeigtLeer = {}
<1> SUFFICES ASSUME IFo, Abschliessen, Typgerecht, NEW p \in AngezeigtLeer PROVE FALSE
  OBVIOUS
<1> DEFINE py == Auswertung("python", regeln, "capture", wurzel, zeilen)
           js == Auswertung("javascript", regeln, "capture", wurzel, zeilen)
<1>1. EnginesGleich /\ ausfuellung = "offen" /\ py.ok /\ Fehlend(py.zustand) = {}
  BY SprachenEinig DEF Abschliessen
<1>2. py = js
  <2> HIDE DEF Auswertung
  <2>1. QED
    BY <1>1 DEF EnginesGleich
<1>3. zeilen \in Seq([Gruppenfelder -> Wert]) /\ DOMAIN zeilen = 1..Len(zeilen)
  BY DEF IFo, FoTyp
<1>4. /\ p \in {<<0, f>> : f \in Felder}
               \cup (IF js.zustand[<<0, Gruppe>>].visible THEN (DOMAIN zeilen) \X Gruppenfelder ELSE {})
      /\ js.zustand[p].visible /\ (p[2] \in Pflicht \/ js.zustand[p].required)
      /\ Leer(IF p[1] = 0 THEN wurzel[p[2]] ELSE zeilen[p[1]][p[2]])
  <2> HIDE DEF Auswertung
  <2>1. QED
    BY DEF AngezeigtLeer
<1> HIDE DEF py, js
<1>5. p \in Pfade(Len(zeilen)) /\ p[2] # Gruppe /\ (p[2] \in Gruppenfelder => js.zustand[<<0, Gruppe>>].visible)
  BY <1>3, <1>4, FormAnnahme DEF Pfade
<1>6. p \in Fehlend(py.zustand)
  BY <1>2, <1>4, <1>5 DEF Fehlend
<1>7. QED
  BY <1>1, <1>6

\* The rules of a form decide one thing: one editor never saves a circle, both
\* languages judge alike where the kinds of values allow it, and one pass is enough.
THEOREM RegelnBleibenEindeutig == FoSpec => []RegelnEindeutig
<1>1. FoInit => IFo
  BY FoStart
<1>2. IFo /\ [FoNext]_foVars => IFo'
  BY FoSchritt
<1>3. IFo => RegelnEindeutig
  BY FoRegelnEindeutig
<1>4. QED
  BY <1>1, <1>2, <1>3, PTL DEF FoSpec

\* Where both languages agree, no form is completed with an empty field that the
\* page shows as required.
THEOREM PflichtBleibtGeprueft == FoSpec => PflichtWieAngezeigt
<1>1. FoInit => IFo
  BY FoStart
<1>2. IFo /\ [FoNext]_foVars => IFo'
  BY FoSchritt
<1>3. IFo => (Abschliessen /\ Typgerecht => AngezeigtLeer = {})
  BY AngezeigtGeprueft
<1>4. QED
  BY <1>1, <1>2, <1>3, PTL DEF FoSpec, PflichtWieAngezeigt

-----------------------------------------------------------------------------
(***************************************************************************)
(* All parts together.                                                     *)
(***************************************************************************)

(* A step belongs to one part and leaves the others alone. *)
LEMMA SchrittEinesTeils ==
  [MCNext]_<<teil, zpVars, zaVars, foVars, ogVars>>
    => [ZpNext]_zpVars /\ [ZaNext]_zaVars /\ [FoNext]_foVars /\ [OgNext]_ogVars
  BY DEF MCNext

(* For any elements, connections, rules, change requests and positions: the tables of the schedule, of
   its change requests, of the form rules and their filling, and of the chart keep their types
   (routes/zeitplan.py, zeitplan_anfragen.py, form_modul.py, organigramm.py). *)
THEOREM PlanungTypen == MCSpec => []PlanungTyp
<1> DEFINE I == IPlan /\ IZa /\ FoTyp /\ IOg
<1>1. MCInit => I
  BY IPlanStart, ZaStart, FoTypStart, OgStart DEF MCInit
<1>2. I /\ [MCNext]_<<teil, zpVars, zaVars, foVars, ogVars>> => I'
  BY SchrittEinesTeils, IPlanSchritt, ZaSchritt, FoTypSchritt, OgSchritt
<1>3. I => PlanungTyp
  BY DEF IPlan, IZa, IOg, PlanungTyp
<1>4. QED
  BY <1>1, <1>2, <1>3, PTL DEF MCSpec
=============================================================================
