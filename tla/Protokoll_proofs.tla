------------------------- MODULE Protokoll_proofs -------------------------
(***************************************************************************)
(* What is proved about the audit log and the number ranges, for any       *)
(* number of transactions, tenants, kinds of documents and entries: the    *)
(* chain of seals is unbroken, every committed entry has one seal, no      *)
(* number is given twice, and without savepoints nobody waits in a circle. *)
(*                                                                         *)
(* First the operators: NachId, the entries of a tenant by their ids,      *)
(* exists for every set of entries, and what NeueSiegel appends continues  *)
(* a chain.  IPr then says what a transaction holds before its commit:     *)
(* its own entries, which of them are still to be sealed, and seals that   *)
(* continue the visible chain, which stays so since it holds the lock.     *)
(***************************************************************************)
EXTENDS Protokoll, FiniteSetTheorems, NaturalsInduction, WellFoundedInduction, TLAPS

-----------------------------------------------------------------------------

LEMMA KleinsteZahl ==
  ASSUME NEW Z \in SUBSET Nat, Z # {}
  PROVE  \E n \in Z : \A m \in Z : n <= m
<1>1. PICK n \in Z : \A m \in Z : <<m, n>> \notin OpToRel(<, Nat)
  BY NatLessThanWellFounded, WFMin
<1>2. \A m \in Z : ~(m < n)
  BY <1>1 DEF OpToRel
<1>3. QED
  BY <1>2

LEMMA MinFakten ==
  ASSUME NEW Z \in SUBSET Nat, Z # {}
  PROVE  Min(Z) \in Z /\ \A m \in Z : Min(Z) <= m
<1>1. \E n \in Z : \A m \in Z : n <= m
  BY KleinsteZahl
<1>2. QED
  BY <1>1 DEF Min

-----------------------------------------------------------------------------
(***************************************************************************)
(* Entries in the order of their ids.                                      *)
(***************************************************************************)

Eintrag == (1..MaxEintrag) \X Mandanten

Geordnet(q) == \A i, j \in DOMAIN q : i < j => q[i][1] < q[j][1]

LEMMA EintraegeEndlich ==
  ASSUME NEW m \in Mandanten, NEW es \in SUBSET Eintrag, \A e \in es : e[2] = m
  PROVE  IsFiniteSet(es)
<1>1. MaxEintrag \in Nat
  BY ProtokollAnnahme
<1>2. IsFiniteSet(1..MaxEintrag)
  BY <1>1, FS_Interval
<1> DEFINE f == [e \in es |-> e[1]]
<1>3. f \in Injection(es, 1..MaxEintrag)
  <2>1. f \in [es -> 1..MaxEintrag]
    BY DEF Eintrag
  <2>2. ASSUME NEW a \in es, NEW b \in es, a[1] = b[1] PROVE a = b
    BY <2>2 DEF Eintrag
  <2>3. QED
    BY <2>1, <2>2 DEF Injection, IsInjective
<1>4. QED
  BY <1>2, <1>3, FS_Injection

\* Every such set can be put in order: else take the smallest that cannot, and put its last
\* entry behind the others.
LEMMA OrdnungGibtEs ==
  ASSUME NEW m \in Mandanten, NEW es \in SUBSET Eintrag, \A e \in es : e[2] = m
  PROVE  \E q \in [1..Cardinality(es) -> es] : Geordnet(q)
<1> DEFINE Ungeordnet(s) == /\ s \in SUBSET Eintrag /\ \A e \in s : e[2] = m
                            /\ ~ \E q \in [1..Cardinality(s) -> s] : Geordnet(q)
           Z == {n \in Nat : \E s : Ungeordnet(s) /\ Cardinality(s) = n}
<1>1. MaxEintrag \in Nat
  BY ProtokollAnnahme
<1> SUFFICES ASSUME Ungeordnet(es) PROVE FALSE
  OBVIOUS
<1>2. Cardinality(es) \in Z
  BY EintraegeEndlich, FS_CardinalityType
<1>3. PICK n \in Z : \A k \in Z : n <= k
  <2> HIDE DEF Z
  <2>1. Z \in SUBSET Nat
    BY DEF Z
  <2>2. QED
    BY <1>2, <2>1, KleinsteZahl
<1>4. PICK s : Ungeordnet(s) /\ Cardinality(s) = n
  OBVIOUS
<1>5. IsFiniteSet(s)
  BY <1>4, EintraegeEndlich
<1>6. s # {}
  <2> SUFFICES ASSUME s = {} PROVE FALSE
    OBVIOUS
  <2>1. Cardinality(s) = 0
    BY FS_EmptySet
  <2> DEFINE q == [i \in {} |-> i]
  <2>2. q \in [1..Cardinality(s) -> s] /\ Geordnet(q)
    BY <2>1 DEF Geordnet
  <2>3. QED
    BY <1>4, <2>2
<1>7. PICK x \in s : \A e \in s : e[1] <= x[1]
  <2> DEFINE R == {MaxEintrag - e[1] : e \in s}
  <2>1. R \in SUBSET Nat /\ R # {}
    BY <1>1, <1>4, <1>6 DEF Eintrag
  <2>2. PICK r \in R : \A k \in R : r <= k
    <3> HIDE DEF R
    <3>1. QED
      BY <2>1, KleinsteZahl
  <2>3. PICK x \in s : r = MaxEintrag - x[1]
    OBVIOUS
  <2>4. ASSUME NEW e \in s PROVE e[1] <= x[1]
    <3>1. MaxEintrag - x[1] <= MaxEintrag - e[1]
      BY <2>2, <2>3
    <3>2. e[1] \in Nat /\ x[1] \in Nat
      BY <1>4 DEF Eintrag
    <3>3. QED
      BY <1>1, <3>1, <3>2
  <2>5. QED
    BY <2>4
<1> DEFINE r == s \ {x}
<1>8. IsFiniteSet(r) /\ Cardinality(r) = n - 1 /\ Cardinality(r) \in Nat
  BY <1>4, <1>5, FS_RemoveElement, FS_CardinalityType
<1>9. PICK q \in [1..(n - 1) -> r] : Geordnet(q)
  <2>1. n - 1 \notin Z
    BY <1>3
  <2>2. ~Ungeordnet(r)
    BY <1>8, <2>1
  <2>3. QED
    BY <1>4, <1>8, <2>2
<1>10. n \in Nat /\ n >= 1
  BY <1>8
<1> DEFINE p == [i \in 1..n |-> IF i = n THEN x ELSE q[i]]
<1>11. p \in [1..n -> s]
  BY <1>9, <1>10
<1>12. ASSUME NEW i \in 1..n, NEW j \in 1..n, i < j PROVE p[i][1] < p[j][1]
  <2>1. i # n /\ p[i] = q[i] /\ i \in 1..(n - 1)
    BY <1>10, <1>12
  <2>2. CASE j # n
    <3>1. j \in 1..(n - 1) /\ p[j] = q[j]
      BY <1>10, <2>2
    <3>2. QED
      BY <1>9, <1>12, <2>1, <3>1 DEF Geordnet
  <2>3. CASE j = n
    <3>1. p[j] = x /\ q[i] \in s /\ q[i] # x
      BY <1>9, <2>1, <2>3
    <3>2. q[i][1] <= x[1] /\ q[i][2] = m /\ x[2] = m
      BY <1>4, <1>7, <3>1
    <3>3. q[i] \in Eintrag /\ x \in Eintrag
      BY <1>4, <3>1
    <3>4. q[i][1] # x[1] /\ q[i][1] \in Nat /\ x[1] \in Nat
      BY <3>1, <3>2, <3>3 DEF Eintrag
    <3>5. QED
      BY <2>1, <3>1, <3>2, <3>4
  <2>4. QED
    BY <2>2, <2>3
<1>13. Geordnet(p)
  BY <1>11, <1>12 DEF Geordnet
<1>14. QED
  BY <1>4, <1>11, <1>13

LEMMA NachIdFakten ==
  ASSUME NEW m \in Mandanten, NEW es \in SUBSET Eintrag, \A e \in es : e[2] = m
  PROVE  /\ Cardinality(es) \in Nat /\ NachId(es) \in [1..Cardinality(es) -> es]
         /\ \A i, j \in 1..Cardinality(es) : NachId(es)[i] = NachId(es)[j] => i = j
         /\ \A e \in es : \E i \in 1..Cardinality(es) : NachId(es)[i] = e
<1> DEFINE n == Cardinality(es)
           q == NachId(es)
<1>1. IsFiniteSet(es) /\ n \in Nat
  BY EintraegeEndlich, FS_CardinalityType
<1>2. q \in [1..n -> es] /\ Geordnet(q)
  BY OrdnungGibtEs DEF NachId, Geordnet
<1> HIDE DEF q, n
<1>3. ASSUME NEW i \in 1..n, NEW j \in 1..n, q[i] = q[j] PROVE i = j
  <2>1. q[i][1] \in Nat /\ q[j][1] \in Nat /\ i \in Nat /\ j \in Nat
    BY <1>1, <1>2 DEF Eintrag
  <2>2. ~(i < j) /\ ~(j < i)
    BY <1>2, <1>3, <2>1 DEF Geordnet
  <2>3. QED
    BY <2>1, <2>2
<1>4. q \in Injection(1..n, es)
  BY <1>2, <1>3 DEF Injection, IsInjective
<1>5. IsFiniteSet(1..n) /\ Cardinality(1..n) = Cardinality(es)
  BY <1>1, FS_Interval DEF n
<1>6. q \in Surjection(1..n, es)
  BY <1>1, <1>4, <1>5, FS_Injection
<1>7. \A e \in es : \E i \in 1..n : q[i] = e
  BY <1>6 DEF Surjection
<1>8. QED
  BY <1>1, <1>2, <1>3, <1>7 DEF q, n

-----------------------------------------------------------------------------
(***************************************************************************)
(* Chains of seals.                                                        *)
(***************************************************************************)

Zeile == [seq : Nat, eintrag : Eintrag, vorgaenger : Seq(Nat), hash : Seq(Nat)]

Glied(k, i) ==
  LET vor == IF i = 1 THEN <<>> ELSE k[i - 1].hash
  IN k[i].seq = i /\ k[i].vorgaenger = vor /\ k[i].hash = Append(vor, k[i].eintrag[1])

Gekettet(k) == \A i \in DOMAIN k : Glied(k, i)

Von(k) == {k[i].eintrag : i \in DOMAIN k}

JeEinmal(k) == \A i, j \in DOMAIN k : k[i].eintrag = k[j].eintrag => i = j

LEMMA FolgeEins ==
  ASSUME NEW s \in Seq(Nat), NEW t \in Seq(Nat), NEW x \in Nat,
         Len(t) = Len(s) + 1, \A i \in 1..Len(s) : t[i] = s[i], t[Len(s) + 1] = x
  PROVE  t = Append(s, x)
<1>1. Append(s, x) \in Seq(Nat) /\ Len(Append(s, x)) = Len(s) + 1
  OBVIOUS
<1>2. \A i \in 1..Len(t) : t[i] = Append(s, x)[i]
  OBVIOUS
<1>3. QED
  BY <1>1, <1>2

LEMMA Aneinander ==
  ASSUME NEW s \in Seq(Nat), NEW t \in Seq(Nat)
  PROVE  /\ s \o t \in Seq(Nat) /\ Len(s \o t) = Len(s) + Len(t)
         /\ \A j \in 1..Len(s) : (s \o t)[j] = s[j]
         /\ \A j \in 1..Len(t) : (s \o t)[Len(s) + j] = t[j]
  OBVIOUS

\* The hash of a seal covers what the last one covers, and the entries up to its own.
LEMMA HashWaechst ==
  ASSUME NEW n \in Nat, NEW q \in [1..n -> Eintrag], NEW h \in Seq(Nat)
  PROVE  LET hash(i) == h \o [j \in 1..i |-> q[j][1]]
         IN  /\ hash(0) = h
             /\ \A i \in 0..n : hash(i) \in Seq(Nat)
             /\ \A i \in 1..n : hash(i) = Append(hash(i - 1), q[i][1])
<1> DEFINE g(i) == [j \in 1..i |-> q[j][1]]
           hash(i) == h \o g(i)
<1>1. \A i \in 1..n : q[i][1] \in Nat
  BY DEF Eintrag
<1>2. ASSUME NEW i \in 0..n PROVE g(i) \in Seq(Nat) /\ Len(g(i)) = i
  <2>1. g(i) \in [1..i -> Nat] /\ i \in Nat
    BY <1>1
  <2>2. QED
    BY <2>1
<1>3. ASSUME NEW i \in 0..n
      PROVE  /\ hash(i) \in Seq(Nat) /\ Len(hash(i)) = Len(h) + i
             /\ \A j \in 1..Len(h) : hash(i)[j] = h[j]
             /\ \A j \in 1..i : hash(i)[Len(h) + j] = q[j][1]
  <2>1. PICK u : u = g(i)
    OBVIOUS
  <2>2. \A j \in 1..i : u[j] = q[j][1]
    BY <2>1
  <2>3. u \in Seq(Nat) /\ Len(u) = i /\ i \in Nat
    BY <1>2, <2>1
  <2>4. hash(i) = h \o u
    BY <2>1
  <2>5. /\ h \o u \in Seq(Nat) /\ Len(h \o u) = Len(h) + i
        /\ \A j \in 1..Len(h) : (h \o u)[j] = h[j]
        /\ \A j \in 1..i : (h \o u)[Len(h) + j] = u[j]
    BY <2>3, Aneinander
  <2> HIDE DEF hash, g
  <2>6. QED
    BY <2>2, <2>4, <2>5
<1>4. hash(0) = h
  <2>1. hash(0) \in Seq(Nat) /\ Len(hash(0)) = Len(h) /\ \A j \in 1..Len(h) : hash(0)[j] = h[j]
    BY <1>3
  <2> HIDE DEF hash
  <2>2. QED
    BY <2>1
<1>5. ASSUME NEW i \in 1..n PROVE hash(i) = Append(hash(i - 1), q[i][1])
  <2>1. i - 1 \in 0..n /\ i \in 0..n
    OBVIOUS
  <2>2. /\ hash(i) \in Seq(Nat) /\ Len(hash(i)) = Len(h) + i
        /\ \A j \in 1..Len(h) : hash(i)[j] = h[j]
        /\ \A j \in 1..i : hash(i)[Len(h) + j] = q[j][1]
    BY <1>3, <2>1
  <2>3. /\ hash(i - 1) \in Seq(Nat) /\ Len(hash(i - 1)) = Len(h) + (i - 1)
        /\ \A j \in 1..Len(h) : hash(i - 1)[j] = h[j]
        /\ \A j \in 1..(i - 1) : hash(i - 1)[Len(h) + j] = q[j][1]
    BY <1>3, <2>1
  <2> HIDE DEF hash
  <2>4. ASSUME NEW j \in 1..Len(hash(i - 1)) PROVE hash(i)[j] = hash(i - 1)[j]
    <3>1. CASE j \in 1..Len(h)
      BY <2>2, <2>3, <3>1
    <3>2. CASE j \notin 1..Len(h)
      <4>1. PICK l \in 1..(i - 1) : j = Len(h) + l
        <5>1. j - Len(h) \in 1..(i - 1)
          BY <2>3, <3>2
        <5>2. QED
          BY <5>1
      <4>2. l \in 1..i
        BY <4>1
      <4>3. QED
        BY <2>2, <2>3, <4>1, <4>2
    <3>3. QED
      BY <3>1, <3>2
  <2>5. hash(i)[Len(hash(i - 1)) + 1] = q[i][1] /\ Len(hash(i)) = Len(hash(i - 1)) + 1
    BY <2>2, <2>3
  <2>6. QED
    BY <1>1, <2>2, <2>3, <2>4, <2>5, FolgeEins
<1>6. QED
  BY <1>3, <1>4, <1>5

LEMMA LetztesFakten ==
  ASSUME NEW k \in Seq(Zeile), Gekettet(k)
  PROVE  /\ LetztesSiegel(k).seq = Len(k) /\ LetztesSiegel(k).hash \in Seq(Nat)
         /\ k = <<>> => LetztesSiegel(k).hash = <<>>
         /\ k # <<>> => LetztesSiegel(k).hash = k[Len(k)].hash
<1>1. CASE k = <<>>
  BY <1>1 DEF LetztesSiegel
<1>2. CASE k # <<>>
  <2>1. Len(k) \in DOMAIN k /\ k[Len(k)] \in Zeile
    BY <1>2
  <2>2. QED
    BY <1>2, <2>1 DEF LetztesSiegel, Gekettet, Glied, Zeile
<1>3. QED
  BY <1>1, <1>2

LEMMA KetteWaechst ==
  ASSUME NEW k \in Seq(Zeile), Gekettet(k),
         NEW m \in Mandanten, NEW es \in SUBSET Eintrag, \A e \in es : e[2] = m
  PROVE  LET neu == NeueSiegel(LetztesSiegel(k), es)
         IN  neu \in Seq(Zeile) /\ Von(neu) = es /\ JeEinmal(neu) /\ Gekettet(k \o neu)
<1> DEFINE n == Cardinality(es)
           q == NachId(es)
           l == LetztesSiegel(k)
           hash(i) == l.hash \o [j \in 1..i |-> q[j][1]]
           neu == NeueSiegel(l, es)
<1>1. /\ n \in Nat /\ q \in [1..n -> es]
      /\ \A i, j \in 1..n : q[i] = q[j] => i = j
      /\ \A e \in es : \E i \in 1..n : q[i] = e
  BY NachIdFakten
<1>2. l.seq = Len(k) /\ l.hash \in Seq(Nat)
  BY LetztesFakten
<1>3. neu = [i \in 1..n |-> [seq |-> l.seq + i, eintrag |-> q[i], vorgaenger |-> hash(i - 1), hash |-> hash(i)]]
  BY <1>1 DEF NeueSiegel
<1>4. /\ hash(0) = l.hash
      /\ \A i \in 0..n : hash(i) \in Seq(Nat)
      /\ \A i \in 1..n : hash(i) = Append(hash(i - 1), q[i][1])
  <2>1. PICK h : h = l.hash
    OBVIOUS
  <2>2. q \in [1..n -> Eintrag] /\ n \in Nat /\ h \in Seq(Nat)
    BY <1>1, <1>2, <2>1
  <2> HIDE DEF q, n
  <2>3. LET g(i) == h \o [j \in 1..i |-> q[j][1]]
        IN  /\ g(0) = h
            /\ \A i \in 0..n : g(i) \in Seq(Nat)
            /\ \A i \in 1..n : g(i) = Append(g(i - 1), q[i][1])
    BY <2>2, HashWaechst
  <2>4. QED
    BY <2>1, <2>3
<1> HIDE DEF n, q, hash, neu
<1>5. ASSUME NEW i \in 1..n
      PROVE  /\ neu[i].seq = Len(k) + i /\ neu[i].eintrag = q[i]
             /\ neu[i].vorgaenger = hash(i - 1) /\ neu[i].hash = hash(i)
             /\ neu[i] \in Zeile
  <2>1. i - 1 \in 0..n /\ i \in 0..n /\ i \in Nat
    BY <1>1
  <2>2. Len(k) \in Nat
    OBVIOUS
  <2>3. hash(i - 1) \in Seq(Nat) /\ hash(i) \in Seq(Nat) /\ q[i] \in Eintrag
    BY <1>1, <1>4, <2>1
  <2>4. neu[i] = [seq |-> Len(k) + i, eintrag |-> q[i], vorgaenger |-> hash(i - 1), hash |-> hash(i)]
    BY <1>2, <1>3
  <2>5. QED
    BY <2>1, <2>2, <2>3, <2>4 DEF Zeile
<1>6. neu \in Seq(Zeile) /\ Len(neu) = n /\ DOMAIN neu = 1..n
  <2>1. neu \in [1..n -> Zeile]
    BY <1>3, <1>5
  <2>2. QED
    BY <1>1, <2>1
<1>7. Von(neu) = es
  BY <1>1, <1>5, <1>6 DEF Von
<1>8. JeEinmal(neu)
  BY <1>1, <1>5, <1>6 DEF JeEinmal
<1>9. ASSUME NEW i \in DOMAIN (k \o neu) PROVE Glied(k \o neu, i)
  <2>1. i \in 1..(Len(k) + n) /\ Len(k) \in Nat
    BY <1>6
  <2>2. CASE i <= Len(k)
    <3>1. i \in DOMAIN k /\ (k \o neu)[i] = k[i] /\ (i # 1 => (k \o neu)[i - 1] = k[i - 1])
      BY <1>6, <2>1, <2>2
    <3>2. QED
      BY <3>1 DEF Gekettet, Glied
  <2>3. CASE i = Len(k) + 1
    <3>1. (k \o neu)[i] = neu[1] /\ 1 \in 1..n
      BY <1>1, <1>6, <2>1, <2>3
    <3>2. IF i = 1 THEN <<>> = l.hash ELSE (k \o neu)[i - 1] = k[Len(k)] /\ k[Len(k)].hash = l.hash
      <4>1. CASE i = 1
        BY <2>1, <2>3, <4>1, LetztesFakten
      <4>2. CASE i # 1
        BY <1>6, <2>1, <2>3, <4>2, LetztesFakten
      <4>3. QED
        BY <4>1, <4>2
    <3>3. hash(1) = Append(l.hash, q[1][1])
      BY <1>4, <3>1
    <3>4. /\ neu[1].seq = Len(k) + 1 /\ neu[1].eintrag = q[1]
          /\ neu[1].vorgaenger = l.hash /\ neu[1].hash = Append(l.hash, q[1][1])
      <4>1. 1 - 1 = 0
        OBVIOUS
      <4>2. neu[1].vorgaenger = hash(1 - 1)
        BY <1>5, <3>1
      <4>3. QED
        BY <1>4, <1>5, <3>1, <3>3, <4>1, <4>2
    <3> HIDE DEF l
    <3>5. QED
      BY <2>3, <3>1, <3>2, <3>4 DEF Glied
  <2>4. CASE i > Len(k) + 1
    <3>1. PICK j \in 1..n : i = Len(k) + j /\ j # 1 /\ j - 1 \in 1..n
      <4>1. i - Len(k) \in 1..n /\ i - Len(k) # 1 /\ (i - Len(k)) - 1 \in 1..n
        BY <1>1, <2>1, <2>4
      <4>2. QED
        BY <2>1, <4>1
    <3>2. (k \o neu)[i] = neu[j] /\ (k \o neu)[i - 1] = neu[j - 1] /\ i # 1
      BY <1>6, <2>1, <3>1
    <3>3. hash(j) = Append(hash(j - 1), q[j][1])
      BY <1>4
    <3>4. neu[j - 1].hash = hash(j - 1)
      BY <1>5, <3>1
    <3>5. QED
      BY <1>5, <3>1, <3>2, <3>3, <3>4 DEF Glied
  <2>5. QED
    BY <2>1, <2>2, <2>3, <2>4
<1>10. QED
  BY <1>6, <1>7, <1>8, <1>9 DEF Gekettet, neu

-----------------------------------------------------------------------------
(***************************************************************************)
(* The inductive invariant.                                                *)
(***************************************************************************)

Phasen == {"ruht", "offen", "savepoint", "freigabe", "ende", "fertig"}

Nummer == [bereich : Bereich, nummer : 1..MaxNummer, vonHand : BOOLEAN]

Sitzung ==
  [phase : Phasen, neu : SUBSET Eintrag, sp : SUBSET Eintrag, vorgemerkt : SUBSET Eintrag,
   arbeit : SUBSET Eintrag, kette : [Mandanten -> Seq(Zeile)], schloss : SUBSET Mandanten,
   beleg : Nummer \cup {KeinBeleg}, savepoints : Nat]

Vergabe == [nummern : SUBSET Nat, oft : BOOLEAN, gesprungen : SUBSET Nat]

Typen ==
  /\ mitSavepoint \in BOOLEAN
  /\ protokoll \in SUBSET Eintrag /\ letzteId \in 0..MaxEintrag
  /\ siegel \in [Mandanten -> Seq(Zeile)]
  /\ tx \in [Transaktionen -> Sitzung]
  /\ belege \in [Bereich -> SUBSET (1..MaxNummer)]
  /\ zaehler \in [Bereich -> 1..(MaxNummer + 1)]
  /\ vergeben \in [Bereich -> Vergabe]

\* The entries a session has inserted: those with a seal, and those that still get one.
Eigene(s) == s.neu \cup s.sp
Versiegelt(s) == UNION {Von(s.kette[m]) : m \in Mandanten}
Offene(s) == IF s.phase \in {"offen", "savepoint"} THEN s.vorgemerkt \cap Eigene(s) ELSE s.arbeit

Frisch(s) ==
  /\ s.neu = {} /\ s.sp = {} /\ s.vorgemerkt = {} /\ s.arbeit = {} /\ s.schloss = {}
  /\ \A m \in Mandanten : s.kette[m] = <<>>
  /\ s.beleg = KeinBeleg

SitzungGilt(s) ==
  /\ s.phase \in {"ruht", "fertig"} => Frisch(s)
  /\ s.phase \in {"offen", "savepoint"} => s.arbeit = {}
  /\ s.phase \in {"freigabe", "ende"} => s.vorgemerkt = {}
  /\ s.phase \in {"offen", "ende"} => s.sp = {}
  /\ s.phase = "savepoint" => s.sp \subseteq s.vorgemerkt
  /\ Versiegelt(s) \cup Offene(s) = Eigene(s)
  /\ Versiegelt(s) \cap Offene(s) = {}

KettenGelten(s) ==
  \A m \in Mandanten :
    /\ JeEinmal(s.kette[m]) /\ \A e \in Von(s.kette[m]) : e[2] = m
    /\ s.kette[m] # <<>> => m \in s.schloss

\* Without savepoints all locks are taken at the end, in their order.
Geschlossen(s) ==
  /\ s.phase \notin {"savepoint", "freigabe"}
  /\ s.phase # "ende" => s.schloss = {}
  /\ \A m \in s.schloss, e \in s.arbeit : m < e[2]

SitzungenGelten ==
  /\ \A t \in Transaktionen :
       /\ SitzungGilt(tx[t]) /\ KettenGelten(tx[t])
       /\ ~mitSavepoint => Geschlossen(tx[t])
       /\ \A e \in Eigene(tx[t]) \cup tx[t].vorgemerkt : e[1] <= letzteId
       /\ Eigene(tx[t]) \cap protokoll = {}
  /\ \A e \in protokoll : e[1] <= letzteId
  /\ \A t, u \in Transaktionen : t # u => Eigene(tx[t]) \cap Eigene(tx[u]) = {}

KettenPassen ==
  /\ \A t, u \in Transaktionen : t # u => tx[t].schloss \cap tx[u].schloss = {}
  /\ \A m \in Mandanten :
       /\ Gekettet(siegel[m]) /\ JeEinmal(siegel[m]) /\ \A e \in Von(siegel[m]) : e[2] = m
       /\ \A t \in Transaktionen : Gekettet(Sichtbar(t, m))
  /\ protokoll = UNION {Von(siegel[m]) : m \in Mandanten}

\* The session holds the counter of a range.
HaeltEine(u) == \E b \in Bereich : HaeltZaehler(u, b)

Zaehlt(s) == s.beleg # KeinBeleg /\ ~s.beleg.vonHand

NummernPassen ==
  /\ \A t \in Transaktionen : Zaehlt(tx[t]) =>
       LET b == tx[t].beleg.bereich  n == tx[t].beleg.nummer
       IN n >= zaehler[b] /\ (b[2] \notin VonHand => n = zaehler[b])
  /\ \A t, u \in Transaktionen :
       t # u /\ Zaehlt(tx[t]) /\ Zaehlt(tx[u]) => tx[t].beleg.bereich # tx[u].beleg.bereich
  /\ NummernStimmen

IPr == Typen /\ SitzungenGelten /\ KettenPassen /\ NummernPassen

-----------------------------------------------------------------------------
(***************************************************************************)
(* What a step of one session leaves as it is.                             *)
(***************************************************************************)

LEMMA BereichIstPaar == ASSUME NEW b \in Bereich PROVE b # KeinBeleg.bereich
<1>1. Len(b) = 2
  BY DEF Bereich
<1>2. KeinBeleg.bereich = <<>>
  BY DEF KeinBeleg
<1>3. QED
  BY <1>1, <1>2

LEMMA KeineNummer == KeinBeleg \notin Nummer
<1>1. \A b \in Nummer : b.bereich \in Bereich
  BY DEF Nummer
<1>2. QED
  BY <1>1, BereichIstPaar

LEMMA NeueSitzungFakten ==
  ASSUME NEW p \in Phasen
  PROVE  LET s == [NeueSitzung EXCEPT !.phase = p]
         IN s \in Sitzung /\ s.phase = p /\ Frisch(s)
<1>1. KeinBeleg \in Nummer \cup {KeinBeleg}
  OBVIOUS
<1>2. [m \in Mandanten |-> <<>>] \in [Mandanten -> Seq(Zeile)]
  OBVIOUS
<1>3. QED
  BY <1>1, <1>2 DEF NeueSitzung, Sitzung, Frisch

LEMMA FrischGilt ==
  ASSUME NEW s \in Sitzung, Frisch(s), s.phase \in {"ruht", "offen", "fertig"}
  PROVE  SitzungGilt(s) /\ KettenGelten(s) /\ Geschlossen(s) /\ Eigene(s) = {} /\ ~Zaehlt(s)
<1>1. \A m \in Mandanten : s.kette[m] = <<>> /\ Von(s.kette[m]) = {} /\ JeEinmal(s.kette[m])
  BY DEF Frisch, Von, JeEinmal
<1>2. Versiegelt(s) = {} /\ Eigene(s) = {} /\ Offene(s) = {}
  BY <1>1 DEF Versiegelt, Eigene, Offene, Frisch
<1>3. SitzungGilt(s)
  BY <1>2 DEF SitzungGilt, Frisch
<1>4. KettenGelten(s)
  BY <1>1 DEF KettenGelten
<1>5. Geschlossen(s)
  BY DEF Geschlossen, Frisch
<1>6. QED
  BY <1>2, <1>3, <1>4, <1>5 DEF Zaehlt, Frisch

LEMMA SitzungenBleiben ==
  ASSUME IPr, NEW t \in Transaktionen, NEW s \in Sitzung, tx' = [tx EXCEPT ![t] = s],
         SitzungGilt(s), KettenGelten(s), ~mitSavepoint => Geschlossen(s),
         Eigene(s) \subseteq Eigene(tx[t]), s.vorgemerkt \subseteq tx[t].vorgemerkt,
         UNCHANGED <<mitSavepoint, protokoll, letzteId>>
  PROVE  SitzungenGelten'
<1>1. tx \in [Transaktionen -> Sitzung]
  BY DEF IPr, Typen
<1>2. tx'[t] = s /\ \A u \in Transaktionen \ {t} : tx'[u] = tx[u]
  BY <1>1
<1>3. SitzungenGelten
  BY DEF IPr
<1>4. ASSUME NEW u \in Transaktionen
      PROVE  /\ SitzungGilt(tx'[u]) /\ KettenGelten(tx'[u]) /\ (~mitSavepoint => Geschlossen(tx'[u]))
             /\ Eigene(tx'[u]) \subseteq Eigene(tx[u]) /\ tx'[u].vorgemerkt \subseteq tx[u].vorgemerkt
  <2>1. CASE u = t
    BY <1>2, <2>1
  <2>2. CASE u # t
    BY <1>2, <1>3, <2>2 DEF SitzungenGelten
  <2>3. QED
    BY <2>1, <2>2
<1>5. QED
  BY <1>3, <1>4 DEF SitzungenGelten

LEMMA KettenBleiben ==
  ASSUME IPr, NEW t \in Transaktionen, NEW s \in Sitzung, tx' = [tx EXCEPT ![t] = s],
         \/ s.kette = tx[t].kette /\ s.schloss = tx[t].schloss
         \/ Frisch(s),
         UNCHANGED <<protokoll, siegel>>
  PROVE  KettenPassen'
<1>1. tx \in [Transaktionen -> Sitzung] /\ siegel \in [Mandanten -> Seq(Zeile)]
  BY DEF IPr, Typen
<1>2. tx'[t] = s /\ \A u \in Transaktionen \ {t} : tx'[u] = tx[u]
  BY <1>1
<1>3. KettenPassen
  BY DEF IPr
<1>4. ASSUME NEW u \in Transaktionen PROVE tx'[u].schloss \subseteq tx[u].schloss
  BY <1>2 DEF Frisch
<1>5. ASSUME NEW u \in Transaktionen, NEW m \in Mandanten PROVE Gekettet(Sichtbar(u, m)')
  <2>1. Sichtbar(u, m)' = siegel[m] \o tx'[u].kette[m]
    BY DEF Sichtbar
  <2>2. CASE tx'[u].kette = tx[u].kette
    BY <1>3, <2>1, <2>2 DEF KettenPassen, Sichtbar
  <2>3. CASE Frisch(tx'[u])
    <3>1. siegel[m] \o <<>> = siegel[m]
      BY <1>1
    <3>2. tx'[u].kette[m] = <<>>
      BY <2>3 DEF Frisch
    <3>3. QED
      BY <1>3, <2>1, <3>1, <3>2 DEF KettenPassen
  <2>4. QED
    BY <1>2, <2>2, <2>3
<1>6. QED
  BY <1>3, <1>4, <1>5 DEF KettenPassen, Gekettet, Glied

LEMMA NummernBleiben ==
  ASSUME IPr, NEW t \in Transaktionen, NEW s \in Sitzung, tx' = [tx EXCEPT ![t] = s],
         s.beleg = tx[t].beleg \/ Frisch(s),
         UNCHANGED <<zaehler, vergeben>>
  PROVE  NummernPassen'
<1>1. tx \in [Transaktionen -> Sitzung]
  BY DEF IPr, Typen
<1>2. tx'[t] = s /\ \A u \in Transaktionen \ {t} : tx'[u] = tx[u]
  BY <1>1
<1>3. ASSUME NEW u \in Transaktionen, Zaehlt(tx'[u]) PROVE tx'[u].beleg = tx[u].beleg /\ Zaehlt(tx[u])
  BY <1>2, <1>3 DEF Zaehlt, Frisch
<1>4. NummernPassen
  BY DEF IPr
<1>5. QED
  BY <1>3, <1>4 DEF NummernPassen, NummernStimmen

LEMMA TypenBleiben ==
  ASSUME IPr, NEW t \in Transaktionen, NEW s \in Sitzung, tx' = [tx EXCEPT ![t] = s],
         UNCHANGED <<mitSavepoint, protokoll, siegel, belege, zaehler, vergeben>>, letzteId' \in 0..MaxEintrag
  PROVE  Typen'
<1>1. tx' \in [Transaktionen -> Sitzung]
  BY DEF IPr, Typen
<1>2. QED
  BY <1>1 DEF IPr, Typen

\* A session that ends without a commit leaves no trace.
LEMMA EndeHaelt ==
  ASSUME IPr, NEW t \in Transaktionen, tx' = [tx EXCEPT ![t] = [NeueSitzung EXCEPT !.phase = "fertig"]],
         UNCHANGED <<mitSavepoint, protokoll, siegel, belege, zaehler, letzteId, vergeben>>
  PROVE  IPr'
<1>1. PICK s : s = [NeueSitzung EXCEPT !.phase = "fertig"]
  OBVIOUS
<1>2. s \in Sitzung /\ s.phase = "fertig" /\ Frisch(s)
  BY <1>1, NeueSitzungFakten DEF Phasen
<1>3. SitzungGilt(s) /\ KettenGelten(s) /\ Geschlossen(s) /\ Eigene(s) = {}
  BY <1>2, FrischGilt
<1>4. tx' = [tx EXCEPT ![t] = s] /\ letzteId \in 0..MaxEintrag
  BY <1>1 DEF IPr, Typen
<1>5. s.vorgemerkt \subseteq tx[t].vorgemerkt
  BY <1>2 DEF Frisch
<1>6. QED
  BY <1>2, <1>3, <1>4, <1>5, SitzungenBleiben, KettenBleiben, NummernBleiben, TypenBleiben DEF IPr

-----------------------------------------------------------------------------
(***************************************************************************)
(* The entries of a session.                                               *)
(***************************************************************************)

LEMMA SitzungFakten ==
  ASSUME IPr, NEW t \in Transaktionen
  PROVE  /\ tx \in [Transaktionen -> Sitzung] /\ tx[t] \in Sitzung /\ letzteId \in 0..MaxEintrag
         /\ SitzungGilt(tx[t]) /\ KettenGelten(tx[t]) /\ (~mitSavepoint => Geschlossen(tx[t]))
  BY DEF IPr, Typen, SitzungenGelten

\* Steps that keep the seals, the locks and the number of a session.
LEMMA SchrittHaelt ==
  ASSUME IPr, NEW t \in Transaktionen, NEW s \in Sitzung, tx' = [tx EXCEPT ![t] = s],
         s.kette = tx[t].kette, s.schloss = tx[t].schloss, s.beleg = tx[t].beleg,
         SitzungGilt(s), ~mitSavepoint => Geschlossen(s),
         Eigene(s) \subseteq Eigene(tx[t]), s.vorgemerkt \subseteq tx[t].vorgemerkt,
         UNCHANGED <<mitSavepoint, protokoll, siegel, belege, zaehler, letzteId, vergeben>>
  PROVE  IPr'
<1>1. KettenGelten(s) /\ letzteId \in 0..MaxEintrag
  BY SitzungFakten DEF KettenGelten
<1>2. QED
  BY <1>1, SitzungenBleiben, KettenBleiben, NummernBleiben, TypenBleiben DEF IPr

LEMMA BeginntHaelt == ASSUME IPr, NEW t \in Transaktionen, Beginnt(t) PROVE IPr'
<1>1. tx[t] \in Sitzung /\ tx[t].phase = "ruht" /\ Frisch(tx[t])
  BY SitzungFakten DEF Beginnt, SitzungGilt
<1>2. PICK s : s = [tx[t] EXCEPT !.phase = "offen"]
  OBVIOUS
<1>3. s \in Sitzung /\ s.phase = "offen" /\ Frisch(s)
  BY <1>1, <1>2 DEF Sitzung, Phasen, Frisch
<1>4. tx' = [tx EXCEPT ![t] = s]
  BY <1>2, SitzungFakten DEF Beginnt
<1>5. s.kette = tx[t].kette /\ s.schloss = tx[t].schloss /\ s.beleg = tx[t].beleg
      /\ s.vorgemerkt = tx[t].vorgemerkt /\ Eigene(s) = Eigene(tx[t])
  BY <1>1, <1>2 DEF Sitzung, Eigene
<1>6. SitzungGilt(s) /\ Geschlossen(s)
  BY <1>3, FrischGilt
<1>7. QED
  BY <1>3, <1>4, <1>5, <1>6, SchrittHaelt DEF Beginnt

LEMMA SavepointBeginntHaelt == ASSUME IPr, NEW t \in Transaktionen, SavepointBeginnt(t) PROVE IPr'
<1>1. tx[t] \in Sitzung /\ tx[t].phase = "offen" /\ SitzungGilt(tx[t]) /\ mitSavepoint
  BY SitzungFakten DEF SavepointBeginnt
<1>2. PICK s : s = [tx[t] EXCEPT !.phase = "savepoint", !.savepoints = @ + 1]
  OBVIOUS
<1>3. /\ s \in Sitzung /\ s.phase = "savepoint"
      /\ s.neu = tx[t].neu /\ s.sp = tx[t].sp /\ s.vorgemerkt = tx[t].vorgemerkt /\ s.arbeit = tx[t].arbeit
      /\ s.kette = tx[t].kette /\ s.schloss = tx[t].schloss /\ s.beleg = tx[t].beleg
  <2>1. tx[t].savepoints + 1 \in Nat
    BY <1>1 DEF Sitzung
  <2>2. PICK n \in Nat : n = tx[t].savepoints + 1
    BY <2>1
  <2>3. s = [tx[t] EXCEPT !.phase = "savepoint", !.savepoints = n]
    BY <1>2, <2>2
  <2>4. QED
    BY <1>1, <2>3 DEF Sitzung, Phasen
<1>4. tx' = [tx EXCEPT ![t] = s]
  BY <1>2, SitzungFakten DEF SavepointBeginnt
<1>5. SitzungGilt(s) /\ Eigene(s) = Eigene(tx[t])
  BY <1>1, <1>3 DEF SitzungGilt, Eigene, Offene, Versiegelt
<1>6. QED
  BY <1>1, <1>3, <1>4, <1>5, SchrittHaelt DEF SavepointBeginnt

LEMMA SavepointZurueckHaelt == ASSUME IPr, NEW t \in Transaktionen, SavepointZurueck(t) PROVE IPr'
<1>1. tx[t] \in Sitzung /\ tx[t].phase = "savepoint" /\ SitzungGilt(tx[t]) /\ mitSavepoint
  BY SitzungFakten DEF SavepointZurueck, Geschlossen
<1>2. PICK s : s = NachSavepointRollback(tx[t])
  OBVIOUS
<1>3. /\ s \in Sitzung /\ s.phase = "offen"
      /\ s.neu = tx[t].neu /\ s.sp = {} /\ s.vorgemerkt = tx[t].vorgemerkt /\ s.arbeit = tx[t].arbeit
      /\ s.kette = tx[t].kette /\ s.schloss = tx[t].schloss /\ s.beleg = tx[t].beleg
  BY <1>1, <1>2 DEF Sitzung, Phasen, NachSavepointRollback
<1>4. tx' = [tx EXCEPT ![t] = s]
  BY <1>2, SitzungFakten DEF SavepointZurueck
<1>5. SitzungGilt(s) /\ Eigene(s) \subseteq Eigene(tx[t])
  BY <1>1, <1>3 DEF SitzungGilt, Eigene, Offene, Versiegelt
<1>6. QED
  BY <1>1, <1>3, <1>4, <1>5, SchrittHaelt DEF SavepointZurueck

LEMMA SavepointFreiHaelt == ASSUME IPr, NEW t \in Transaktionen, SavepointFrei(t) PROVE IPr'
<1>1. tx[t] \in Sitzung /\ tx[t].phase = "savepoint" /\ SitzungGilt(tx[t]) /\ mitSavepoint
  BY SitzungFakten DEF SavepointFrei, Geschlossen
<1>2. PICK s : s = [tx[t] EXCEPT !.phase = "freigabe", !.arbeit = Persistent(tx[t]), !.vorgemerkt = {}]
  OBVIOUS
<1>3. /\ s \in Sitzung /\ s.phase = "freigabe"
      /\ s.neu = tx[t].neu /\ s.sp = tx[t].sp /\ s.vorgemerkt = {} /\ s.arbeit = Persistent(tx[t])
      /\ s.kette = tx[t].kette /\ s.schloss = tx[t].schloss /\ s.beleg = tx[t].beleg
  BY <1>1, <1>2 DEF Sitzung, Phasen, Persistent
<1>4. tx' = [tx EXCEPT ![t] = s]
  BY <1>2, SitzungFakten DEF SavepointFrei
<1>5. SitzungGilt(s) /\ Eigene(s) = Eigene(tx[t])
  BY <1>1, <1>3 DEF SitzungGilt, Eigene, Offene, Versiegelt, Persistent
<1>6. QED
  BY <1>1, <1>3, <1>4, <1>5, SchrittHaelt DEF SavepointFrei

LEMMA EndetHaelt == ASSUME IPr, NEW t \in Transaktionen, Endet(t) PROVE IPr'
<1>1. tx[t] \in Sitzung /\ tx[t].phase = "offen" /\ SitzungGilt(tx[t]) /\ (~mitSavepoint => Geschlossen(tx[t]))
  BY SitzungFakten DEF Endet
<1>2. PICK s : s = [tx[t] EXCEPT !.phase = "ende", !.arbeit = Persistent(tx[t]), !.vorgemerkt = {}]
  OBVIOUS
<1>3. /\ s \in Sitzung /\ s.phase = "ende"
      /\ s.neu = tx[t].neu /\ s.sp = tx[t].sp /\ s.vorgemerkt = {} /\ s.arbeit = Persistent(tx[t])
      /\ s.kette = tx[t].kette /\ s.schloss = tx[t].schloss /\ s.beleg = tx[t].beleg
  BY <1>1, <1>2 DEF Sitzung, Phasen, Persistent
<1>4. tx' = [tx EXCEPT ![t] = s]
  BY <1>2, SitzungFakten DEF Endet
<1>5. SitzungGilt(s) /\ Eigene(s) = Eigene(tx[t])
  BY <1>1, <1>3 DEF SitzungGilt, Eigene, Offene, Versiegelt, Persistent
<1>6. ~mitSavepoint => Geschlossen(s)
  BY <1>1, <1>3 DEF Geschlossen
<1>7. QED
  BY <1>3, <1>4, <1>5, <1>6, SchrittHaelt DEF Endet

LEMMA SavepointFertigHaelt == ASSUME IPr, NEW t \in Transaktionen, SavepointFertig(t) PROVE IPr'
<1>1. tx[t] \in Sitzung /\ tx[t].phase = "freigabe" /\ tx[t].arbeit = {} /\ SitzungGilt(tx[t]) /\ mitSavepoint
  BY SitzungFakten DEF SavepointFertig, Geschlossen
<1>2. PICK s : s = [tx[t] EXCEPT !.phase = "offen", !.neu = @ \cup tx[t].sp, !.sp = {}]
  OBVIOUS
<1>3. /\ s \in Sitzung /\ s.phase = "offen"
      /\ s.neu = tx[t].neu \cup tx[t].sp /\ s.sp = {} /\ s.vorgemerkt = tx[t].vorgemerkt /\ s.arbeit = tx[t].arbeit
      /\ s.kette = tx[t].kette /\ s.schloss = tx[t].schloss /\ s.beleg = tx[t].beleg
  BY <1>1, <1>2 DEF Sitzung, Phasen
<1>4. tx' = [tx EXCEPT ![t] = s]
  BY <1>2, SitzungFakten DEF SavepointFertig
<1>5. SitzungGilt(s) /\ Eigene(s) = Eigene(tx[t])
  BY <1>1, <1>3 DEF SitzungGilt, Eigene, Offene, Versiegelt
<1>6. QED
  BY <1>1, <1>3, <1>4, <1>5, SchrittHaelt DEF SavepointFertig

\* A new id is larger than all that were given, also those of transactions rolled back.
LEMMA ProtokolliereHaelt ==
  ASSUME IPr, NEW t \in Transaktionen, NEW m \in Mandanten, Protokolliere(t, m) PROVE IPr'
<1> DEFINE e == <<letzteId + 1, m>>
<1>1. /\ tx \in [Transaktionen -> Sitzung] /\ tx[t] \in Sitzung /\ letzteId \in 0..MaxEintrag
      /\ SitzungGilt(tx[t]) /\ KettenGelten(tx[t]) /\ (~mitSavepoint => Geschlossen(tx[t]))
      /\ tx[t].phase \in {"offen", "savepoint"} /\ letzteId < MaxEintrag /\ MaxEintrag \in Nat
  BY SitzungFakten, ProtokollAnnahme DEF Protokolliere
<1>2. letzteId' = letzteId + 1 /\ letzteId' \in 0..MaxEintrag /\ e \in Eintrag /\ e[1] = letzteId + 1
  BY <1>1 DEF Protokolliere, Eintrag
<1>3. PICK s : s = [tx[t] EXCEPT !.vorgemerkt = @ \cup {e},
                                 !.neu = IF tx[t].phase = "offen" THEN @ \cup {e} ELSE @,
                                 !.sp = IF tx[t].phase = "savepoint" THEN @ \cup {e} ELSE @]
  OBVIOUS
<1> HIDE DEF e
<1>4. /\ s \in Sitzung /\ s.phase = tx[t].phase
      /\ s.vorgemerkt = tx[t].vorgemerkt \cup {e} /\ s.arbeit = tx[t].arbeit
      /\ s.neu = IF tx[t].phase = "offen" THEN tx[t].neu \cup {e} ELSE tx[t].neu
      /\ s.sp = IF tx[t].phase = "savepoint" THEN tx[t].sp \cup {e} ELSE tx[t].sp
      /\ s.kette = tx[t].kette /\ s.schloss = tx[t].schloss /\ s.beleg = tx[t].beleg
  BY <1>1, <1>2, <1>3 DEF Sitzung
<1>5. Eigene(s) = Eigene(tx[t]) \cup {e}
  BY <1>1, <1>4 DEF Eigene
<1>6. tx' = [tx EXCEPT ![t] = s]
  BY <1>1, <1>3 DEF Protokolliere, e
<1>7. tx'[t] = s /\ \A u \in Transaktionen \ {t} : tx'[u] = tx[u]
  BY <1>1, <1>6
<1>8. SitzungenGelten
  BY DEF IPr
<1>9. /\ e \notin protokoll
      /\ \A u \in Transaktionen : e \notin Eigene(tx[u]) \cup tx[u].vorgemerkt
  BY <1>1, <1>2, <1>8 DEF SitzungenGelten
<1>10. SitzungGilt(s)
  <2>1. Versiegelt(s) = Versiegelt(tx[t])
    BY <1>4 DEF Versiegelt
  <2>2. Offene(s) = Offene(tx[t]) \cup {e}
    BY <1>1, <1>4, <1>5 DEF Offene
  <2>3. Versiegelt(tx[t]) \subseteq Eigene(tx[t])
    BY <1>1 DEF SitzungGilt
  <2>4. e \notin Versiegelt(tx[t])
    BY <1>9, <2>3
  <2>5. QED
    BY <1>1, <1>4, <1>5, <2>1, <2>2, <2>4 DEF SitzungGilt
<1>11. KettenGelten(s) /\ (~mitSavepoint => Geschlossen(s))
  BY <1>1, <1>4 DEF KettenGelten, Geschlossen
<1>12. UNCHANGED <<mitSavepoint, protokoll, siegel, belege, zaehler, vergeben>>
  BY DEF Protokolliere
<1>13. ASSUME NEW u \in Transaktionen
       PROVE  /\ SitzungGilt(tx'[u]) /\ KettenGelten(tx'[u]) /\ (~mitSavepoint => Geschlossen(tx'[u]))
              /\ Eigene(tx'[u]) = IF u = t THEN Eigene(tx[u]) \cup {e} ELSE Eigene(tx[u])
              /\ tx'[u].vorgemerkt = IF u = t THEN tx[u].vorgemerkt \cup {e} ELSE tx[u].vorgemerkt
  <2>1. CASE u = t
    BY <1>4, <1>5, <1>7, <1>10, <1>11, <2>1
  <2>2. CASE u # t
    BY <1>7, <1>8, <2>2 DEF SitzungenGelten
  <2>3. QED
    BY <2>1, <2>2
<1>14. SitzungenGelten'
  <2>1. ASSUME NEW x \in Eintrag, x[1] <= letzteId \/ x = e PROVE x[1] <= letzteId'
    BY <1>1, <1>2, <2>1 DEF Eintrag
  <2>2. ASSUME NEW u \in Transaktionen, NEW x \in Eigene(tx'[u]) \cup tx'[u].vorgemerkt PROVE x[1] <= letzteId'
    <3>1. tx[u] \in Sitzung
      BY <1>1
    <3>2. x \in Eigene(tx[u]) \cup tx[u].vorgemerkt \/ x = e
      BY <1>13, <2>2
    <3>3. x \in Eintrag
      BY <1>2, <3>1, <3>2 DEF Sitzung, Eigene
    <3>4. QED
      BY <1>8, <2>1, <3>2, <3>3 DEF SitzungenGelten
  <2>3. protokoll' \subseteq Eintrag /\ protokoll' = protokoll
    BY <1>12 DEF IPr, Typen
  <2>4. \A x \in protokoll' : x[1] <= letzteId'
    BY <1>8, <2>1, <2>3 DEF SitzungenGelten
  <2>5. \A u \in Transaktionen : Eigene(tx'[u]) \cap protokoll' = {}
    BY <1>8, <1>9, <1>13, <2>3 DEF SitzungenGelten
  <2>6. \A u, v \in Transaktionen : u # v => Eigene(tx'[u]) \cap Eigene(tx'[v]) = {}
    BY <1>8, <1>9, <1>13 DEF SitzungenGelten
  <2>7. QED
    BY <1>12, <1>13, <2>2, <2>4, <2>5, <2>6 DEF SitzungenGelten
<1>15. QED
  BY <1>2, <1>4, <1>6, <1>12, <1>14, KettenBleiben, NummernBleiben, TypenBleiben DEF IPr

-----------------------------------------------------------------------------
(***************************************************************************)
(* Seals.                                                                  *)
(***************************************************************************)

LEMMA Anhaengen ==
  ASSUME NEW k \in Seq(Zeile), NEW n \in Seq(Zeile)
  PROVE  /\ k \o n \in Seq(Zeile) /\ Von(k \o n) = Von(k) \cup Von(n)
         /\ JeEinmal(k) /\ JeEinmal(n) /\ Von(k) \cap Von(n) = {} => JeEinmal(k \o n)
<1>1. /\ k \o n \in Seq(Zeile) /\ Len(k \o n) = Len(k) + Len(n)
      /\ \A i \in 1..Len(k) : (k \o n)[i] = k[i]
      /\ \A i \in 1..Len(n) : (k \o n)[Len(k) + i] = n[i]
      /\ Len(k) \in Nat /\ Len(n) \in Nat
      /\ DOMAIN k = 1..Len(k) /\ DOMAIN n = 1..Len(n) /\ DOMAIN (k \o n) = 1..(Len(k) + Len(n))
  OBVIOUS
<1>2. PICK z : z = k \o n
  OBVIOUS
<1>3. ASSUME NEW i \in DOMAIN z
      PROVE  (i \in DOMAIN k /\ z[i] = k[i]) \/ \E j \in DOMAIN n : i = Len(k) + j /\ z[i] = n[j]
  <2>1. i \in Nat /\ (i <= Len(k) \/ i - Len(k) \in DOMAIN n) /\ i >= 1
    BY <1>1, <1>2
  <2>2. CASE i <= Len(k)
    BY <1>1, <1>2, <2>1, <2>2
  <2>3. CASE i - Len(k) \in DOMAIN n
    <3>1. i = Len(k) + (i - Len(k))
      BY <1>1, <2>1
    <3>2. QED
      BY <1>1, <1>2, <2>3, <3>1
  <2>4. QED
    BY <2>1, <2>2, <2>3
<1>4. /\ \A i \in DOMAIN k : i \in DOMAIN z /\ z[i] = k[i]
      /\ \A j \in DOMAIN n : Len(k) + j \in DOMAIN z /\ z[Len(k) + j] = n[j]
  BY <1>1, <1>2
<1>5. Von(z) = Von(k) \cup Von(n)
  BY <1>3, <1>4 DEF Von
<1>6. ASSUME JeEinmal(k), JeEinmal(n), Von(k) \cap Von(n) = {},
             NEW i \in DOMAIN z, NEW j \in DOMAIN z, z[i].eintrag = z[j].eintrag
      PROVE  i = j
  <2>1. /\ i \in DOMAIN k => z[i].eintrag \in Von(k)
        /\ j \in DOMAIN k => z[j].eintrag \in Von(k)
    BY <1>4 DEF Von
  <2>2. CASE i \in DOMAIN k /\ z[i] = k[i]
    <3>1. j \in DOMAIN k /\ z[j] = k[j]
      <4>1. ASSUME NEW b \in DOMAIN n, z[j] = n[b] PROVE FALSE
        <5>1. z[j].eintrag \in Von(n)
          BY <4>1 DEF Von
        <5>2. QED
          BY <1>6, <2>1, <2>2, <5>1
      <4>2. QED
        BY <1>3, <4>1
    <3>2. QED
      BY <1>6, <2>2, <3>1 DEF JeEinmal
  <2>3. CASE \E a \in DOMAIN n : i = Len(k) + a /\ z[i] = n[a]
    <3>1. PICK a \in DOMAIN n : i = Len(k) + a /\ z[i] = n[a]
      BY <2>3
    <3>2. z[i].eintrag \in Von(n)
      BY <3>1 DEF Von
    <3>3. PICK b \in DOMAIN n : j = Len(k) + b /\ z[j] = n[b]
      BY <1>3, <1>6, <2>1, <3>2
    <3>4. a = b
      BY <1>6, <3>1, <3>3 DEF JeEinmal
    <3>5. QED
      BY <3>1, <3>3, <3>4
  <2>4. QED
    BY <1>3, <2>2, <2>3
<1>7. QED
  BY <1>1, <1>2, <1>5, <1>6 DEF JeEinmal

LEMMA Umgeklammert ==
  ASSUME NEW a \in Seq(Zeile), NEW b \in Seq(Zeile), NEW c \in Seq(Zeile)
  PROVE  a \o (b \o c) = (a \o b) \o c
<1> DEFINE v == a \o (b \o c)
           w == (a \o b) \o c
<1>1. v \in Seq(Zeile) /\ w \in Seq(Zeile) /\ Len(v) = Len(a) + Len(b) + Len(c) /\ Len(w) = Len(v)
  OBVIOUS
<1>2. ASSUME NEW i \in 1..Len(v) PROVE v[i] = w[i]
  <2>1. b \o c \in Seq(Zeile) /\ a \o b \in Seq(Zeile) /\ Len(b \o c) = Len(b) + Len(c) /\ Len(a \o b) = Len(a) + Len(b)
    OBVIOUS
  <2>2. CASE i <= Len(a)
    BY <1>1, <2>1, <2>2
  <2>3. CASE i > Len(a) /\ i <= Len(a) + Len(b)
    BY <1>1, <2>1, <2>3
  <2>4. CASE i > Len(a) + Len(b)
    BY <1>1, <2>1, <2>4
  <2>5. QED
    BY <2>2, <2>3, <2>4
<1> HIDE DEF v, w
<1>3. v = w
  BY <1>1, <1>2
<1>4. QED
  BY <1>3 DEF v, w

\* The lock keeps all others from the chain, so that the last seal seen is the last there is.
LEMMA VersiegeleHaelt == ASSUME IPr, NEW t \in Transaktionen, Versiegele(t) PROVE IPr'
<1> DEFINE m == ZuSiegeln(t)
           es == {e \in tx[t].arbeit : e[2] = m}
           neu == NeueSiegel(LetztesSiegel(Sichtbar(t, m)), es)
<1>1. /\ tx \in [Transaktionen -> Sitzung] /\ tx[t] \in Sitzung /\ letzteId \in 0..MaxEintrag
      /\ SitzungGilt(tx[t]) /\ KettenGelten(tx[t]) /\ (~mitSavepoint => Geschlossen(tx[t]))
      /\ siegel \in [Mandanten -> Seq(Zeile)] /\ tx[t].arbeit # {}
  BY SitzungFakten DEF Versiegele, IPr, Typen
<1>2. m \in Mandanten /\ \A e \in tx[t].arbeit : m <= e[2]
  <2> DEFINE Z == {e[2] : e \in tx[t].arbeit}
  <2>1. tx[t].arbeit \subseteq Eintrag /\ Mandanten \subseteq Nat
    BY <1>1, ProtokollAnnahme DEF Sitzung
  <2>2. Z \in SUBSET Nat /\ Z # {} /\ Z \subseteq Mandanten
    BY <1>1, <2>1 DEF Eintrag
  <2>3. Min(Z) \in Z /\ \A z \in Z : Min(Z) <= z
    <3> HIDE DEF Z
    <3>1. QED
      BY <2>2, MinFakten
  <2>4. m = Min(Z)
    BY DEF ZuSiegeln, Naechster
  <2>5. QED
    BY <2>2, <2>3, <2>4
<1>3. es \in SUBSET Eintrag /\ es \subseteq tx[t].arbeit /\ \A e \in es : e[2] = m
  BY <1>1 DEF Sitzung
<1>4. SchlossFrei(t, m) /\ tx' = [tx EXCEPT ![t].schloss = @ \cup {m}, ![t].arbeit = @ \ es, ![t].kette[m] = @ \o neu]
  BY DEF Versiegele
<1>5. UNCHANGED <<mitSavepoint, protokoll, siegel, belege, zaehler, letzteId, vergeben>>
  BY DEF Versiegele
<1> HIDE DEF m, es
<1>6. KettenPassen /\ SitzungenGelten
  BY DEF IPr
<1>7. siegel[m] \in Seq(Zeile) /\ tx[t].kette[m] \in Seq(Zeile) /\ Sichtbar(t, m) \in Seq(Zeile)
  BY <1>1, <1>2 DEF Sichtbar, Sitzung
<1>8. neu \in Seq(Zeile) /\ Von(neu) = es /\ JeEinmal(neu) /\ Gekettet(Sichtbar(t, m) \o neu)
  BY <1>2, <1>3, <1>6, <1>7, KetteWaechst DEF KettenPassen
<1> HIDE DEF neu
<1>9. PICK k : k = [tx[t].kette EXCEPT ![m] = tx[t].kette[m] \o neu]
  OBVIOUS
<1>10. k \in [Mandanten -> Seq(Zeile)] /\ k[m] = tx[t].kette[m] \o neu /\ \A x \in Mandanten \ {m} : k[x] = tx[t].kette[x]
  BY <1>1, <1>2, <1>7, <1>8, <1>9 DEF Sitzung
<1>11. PICK s : s = [tx[t] EXCEPT !.schloss = @ \cup {m}, !.arbeit = @ \ es, !.kette = k]
  OBVIOUS
<1>12. /\ s \in Sitzung /\ s.phase = tx[t].phase /\ s.neu = tx[t].neu /\ s.sp = tx[t].sp
       /\ s.vorgemerkt = tx[t].vorgemerkt /\ s.arbeit = tx[t].arbeit \ es
       /\ s.schloss = tx[t].schloss \cup {m} /\ s.kette = k /\ s.beleg = tx[t].beleg
  BY <1>1, <1>2, <1>10, <1>11 DEF Sitzung
<1>13. tx' = [tx EXCEPT ![t] = s]
  BY <1>1, <1>4, <1>9, <1>11 DEF Sitzung
<1>14. tx'[t] = s /\ \A u \in Transaktionen \ {t} : tx'[u] = tx[u]
  BY <1>1, <1>13
<1>15. tx[t].phase \in {"freigabe", "ende"}
  BY <1>1 DEF SitzungGilt, Frisch, Sitzung, Phasen
<1>16. Von(k[m]) = Von(tx[t].kette[m]) \cup es
  BY <1>7, <1>8, <1>10, Anhaengen
<1>17. Versiegelt(s) = Versiegelt(tx[t]) \cup es
  <2>1. \A x \in Mandanten : Von(k[x]) = IF x = m THEN Von(tx[t].kette[x]) \cup es ELSE Von(tx[t].kette[x])
    BY <1>10, <1>16
  <2>2. ASSUME NEW e PROVE /\ e \in Versiegelt(s) <=> \E x \in Mandanten : e \in Von(k[x])
                           /\ e \in Versiegelt(tx[t]) <=> \E x \in Mandanten : e \in Von(tx[t].kette[x])
    BY <1>12 DEF Versiegelt
  <2>3. ASSUME NEW e \in Versiegelt(s) PROVE e \in Versiegelt(tx[t]) \cup es
    <3>1. PICK x \in Mandanten : e \in Von(k[x])
      BY <2>2
    <3>2. QED
      BY <2>1, <2>2, <3>1
  <2>4. ASSUME NEW e \in Versiegelt(tx[t]) \cup es PROVE e \in Versiegelt(s)
    <3>1. e \in es => e \in Von(k[m])
      BY <1>16
    <3>2. e \in Versiegelt(tx[t]) => \E x \in Mandanten : e \in Von(k[x])
      BY <2>1, <2>2
    <3>3. QED
      BY <1>2, <2>2, <3>1, <3>2
  <2>5. QED
    BY <2>3, <2>4
<1>18. Offene(tx[t]) = tx[t].arbeit /\ Offene(s) = tx[t].arbeit \ es /\ Eigene(s) = Eigene(tx[t])
  BY <1>12, <1>15 DEF Offene, Eigene
<1>19. SitzungGilt(s)
  BY <1>1, <1>3, <1>12, <1>15, <1>17, <1>18 DEF SitzungGilt
<1>20. KettenGelten(s)
  <2>1. Von(tx[t].kette[m]) \subseteq Versiegelt(tx[t])
    BY <1>2 DEF Versiegelt
  <2>2. Von(tx[t].kette[m]) \cap es = {}
    BY <1>1, <1>3, <1>18, <2>1 DEF SitzungGilt
  <2>3. JeEinmal(k[m])
    BY <1>1, <1>2, <1>7, <1>8, <1>10, <2>2, Anhaengen DEF KettenGelten
  <2>4. ASSUME NEW x \in Mandanten
        PROVE  JeEinmal(k[x]) /\ (\A e \in Von(k[x]) : e[2] = x) /\ (k[x] # <<>> => x \in s.schloss)
    <3>1. CASE x = m
      BY <1>1, <1>2, <1>3, <1>12, <1>16, <2>3, <3>1 DEF KettenGelten
    <3>2. CASE x # m
      BY <1>1, <1>10, <1>12, <3>2 DEF KettenGelten
    <3>3. QED
      BY <3>1, <3>2
  <2>5. QED
    BY <1>12, <2>4 DEF KettenGelten
<1>21. ~mitSavepoint => Geschlossen(s)
  <2> SUFFICES ASSUME ~mitSavepoint PROVE Geschlossen(s)
    OBVIOUS
  <2>1. s.phase = "ende"
    BY <1>1, <1>12, <1>15 DEF Geschlossen
  <2>2. ASSUME NEW x \in s.schloss, NEW e \in s.arbeit PROVE x < e[2]
    <3>1. e \in tx[t].arbeit /\ e[2] # m /\ e[2] \in Nat /\ m \in Nat
      BY <1>1, <1>2, <1>12, ProtokollAnnahme DEF Sitzung, Eintrag, es
    <3>2. CASE x = m
      BY <1>2, <3>1, <3>2
    <3>3. CASE x # m
      BY <1>1, <1>12, <3>1, <3>3 DEF Geschlossen
    <3>4. QED
      BY <3>2, <3>3
  <2>3. QED
    BY <2>1, <2>2 DEF Geschlossen
<1>22. KettenPassen'
  <2>1. ASSUME NEW u \in Transaktionen, NEW v \in Transaktionen, u # v PROVE tx'[u].schloss \cap tx'[v].schloss = {}
    <3>1. \A w \in Transaktionen \ {t} : m \notin tx[w].schloss
      BY <1>4 DEF SchlossFrei
    <3>2. QED
      BY <1>6, <1>12, <1>14, <2>1, <3>1 DEF KettenPassen
  <2>2. ASSUME NEW x \in Mandanten, NEW u \in Transaktionen PROVE Gekettet(siegel'[x] \o tx'[u].kette[x])
    <3>1. CASE u = t /\ x = m
      <4>1. siegel[m] \o (tx[t].kette[m] \o neu) = (siegel[m] \o tx[t].kette[m]) \o neu
        BY <1>7, <1>8, Umgeklammert
      <4>2. QED
        BY <1>5, <1>8, <1>10, <1>12, <1>14, <3>1, <4>1 DEF Sichtbar
    <3>2. CASE ~(u = t /\ x = m)
      <4>1. tx'[u].kette[x] = tx[u].kette[x] /\ siegel'[x] = siegel[x]
        BY <1>5, <1>10, <1>12, <1>14, <3>2
      <4>2. QED
        BY <1>6, <4>1 DEF KettenPassen, Sichtbar
    <3>3. QED
      BY <3>1, <3>2
  <2>3. \A x \in Mandanten : Gekettet(siegel'[x]) /\ JeEinmal(siegel'[x]) /\ \A e \in Von(siegel'[x]) : e[2] = x
    BY <1>5, <1>6 DEF KettenPassen
  <2>4. protokoll' = UNION {Von(siegel'[x]) : x \in Mandanten}
    BY <1>5, <1>6 DEF KettenPassen
  <2>5. \A x \in Mandanten, u \in Transaktionen : Gekettet(Sichtbar(u, x)')
    BY <2>2 DEF Sichtbar
  <2>6. QED
    BY <2>1, <2>3, <2>4, <2>5 DEF KettenPassen, Gekettet, Glied, JeEinmal, Von
<1>23. SitzungenGelten' /\ NummernPassen' /\ Typen'
  BY <1>1, <1>5, <1>12, <1>13, <1>18, <1>19, <1>20, <1>21, SitzungenBleiben, NummernBleiben, TypenBleiben
<1>24. QED
  BY <1>22, <1>23 DEF IPr

-----------------------------------------------------------------------------
(***************************************************************************)
(* Numbers.                                                                *)
(***************************************************************************)

LEMMA FreieFakten ==
  ASSUME IPr, NEW b \in Bereich, Freie(b) # {}
  PROVE  LET n == Min(Freie(b)) IN n \in Nat /\ n >= zaehler[b] /\ n >= 1 /\ (b[2] \notin VonHand => n = zaehler[b])
<1>1. zaehler[b] \in Nat /\ zaehler[b] >= 1 /\ MaxVersuche \in Nat /\ MaxVersuche >= 1
  BY ProtokollAnnahme DEF IPr, Typen
<1>2. Freie(b) \in SUBSET Nat /\ \A n \in Freie(b) : n >= zaehler[b]
  BY <1>1 DEF Freie, NaechsteNummer
<1>3. Min(Freie(b)) \in Freie(b) /\ \A n \in Freie(b) : Min(Freie(b)) <= n
  BY <1>2, MinFakten
<1>4. ASSUME b[2] \notin VonHand PROVE zaehler[b] \in Freie(b)
  BY <1>1, <1>4 DEF Freie, NaechsteNummer
<1>5. PICK n : n = Min(Freie(b))
  OBVIOUS
<1>6. n \in Nat /\ n >= zaehler[b] /\ (b[2] \notin VonHand => n <= zaehler[b])
  BY <1>2, <1>3, <1>4, <1>5
<1>7. n >= 1 /\ (b[2] \notin VonHand => n = zaehler[b])
  BY <1>1, <1>6
<1>8. QED
  BY <1>5, <1>6, <1>7

\* A session takes a number: of the counter when nobody else holds it, not below it.
LEMMA NummerHaelt ==
  ASSUME IPr, NEW t \in Transaktionen, NEW n \in Nummer, Ohne(t), tx' = [tx EXCEPT ![t].beleg = n],
         ~n.vonHand =>
           /\ ZaehlerFrei(t, n.bereich) /\ n.nummer >= zaehler[n.bereich]
           /\ n.bereich[2] \notin VonHand => n.nummer = zaehler[n.bereich],
         UNCHANGED <<mitSavepoint, protokoll, siegel, belege, zaehler, letzteId, vergeben>>
  PROVE  IPr'
<1>1. /\ tx \in [Transaktionen -> Sitzung] /\ tx[t] \in Sitzung /\ letzteId \in 0..MaxEintrag
      /\ SitzungGilt(tx[t]) /\ KettenGelten(tx[t]) /\ (~mitSavepoint => Geschlossen(tx[t]))
      /\ tx[t].phase = "offen"
  BY SitzungFakten DEF Ohne
<1>2. PICK s : s = [tx[t] EXCEPT !.beleg = n]
  OBVIOUS
<1>3. /\ s \in Sitzung /\ s.phase = "offen"
      /\ s.neu = tx[t].neu /\ s.sp = tx[t].sp /\ s.vorgemerkt = tx[t].vorgemerkt /\ s.arbeit = tx[t].arbeit
      /\ s.kette = tx[t].kette /\ s.schloss = tx[t].schloss /\ s.beleg = n
  BY <1>1, <1>2 DEF Sitzung
<1>4. tx' = [tx EXCEPT ![t] = s]
  BY <1>1, <1>2
<1>5. SitzungGilt(s) /\ Eigene(s) = Eigene(tx[t]) /\ KettenGelten(s) /\ (~mitSavepoint => Geschlossen(s))
  BY <1>1, <1>3 DEF SitzungGilt, Eigene, Offene, Versiegelt, KettenGelten, Geschlossen
<1>6. tx'[t] = s /\ \A u \in Transaktionen \ {t} : tx'[u] = tx[u]
  BY <1>1, <1>4
<1>7. NummernPassen
  BY DEF IPr
<1>8. ASSUME NEW u \in Transaktionen, Zaehlt(tx'[u])
      PROVE  LET b == tx'[u].beleg.bereich  i == tx'[u].beleg.nummer
             IN i >= zaehler[b] /\ (b[2] \notin VonHand => i = zaehler[b])
  <2>1. CASE u = t
    BY <1>3, <1>6, <1>8, <2>1 DEF Zaehlt
  <2>2. CASE u # t
    BY <1>6, <1>7, <1>8, <2>2 DEF NummernPassen
  <2>3. QED
    BY <2>1, <2>2
<1>9. ASSUME NEW u \in Transaktionen \ {t}, Zaehlt(tx'[t]), Zaehlt(tx'[u])
      PROVE  tx'[u].beleg.bereich # tx'[t].beleg.bereich
  <2>1. ~HaeltZaehler(u, n.bereich)
    BY <1>3, <1>6, <1>9 DEF Zaehlt, ZaehlerFrei
  <2>2. QED
    BY <1>3, <1>6, <1>9, <2>1 DEF Zaehlt, HaeltZaehler
<1>10. ASSUME NEW u \in Transaktionen, NEW v \in Transaktionen, u # v, Zaehlt(tx'[u]), Zaehlt(tx'[v])
       PROVE  tx'[u].beleg.bereich # tx'[v].beleg.bereich
  <2>1. CASE t \notin {u, v}
    BY <1>6, <1>7, <1>10, <2>1 DEF NummernPassen
  <2>2. QED
    BY <1>9, <1>10, <2>1
<1>11. NummernStimmen'
  BY <1>7 DEF NummernPassen, NummernStimmen
<1>12. NummernPassen'
  <2>1. UNCHANGED zaehler
    OBVIOUS
  <2>2. QED
    BY <1>8, <1>10, <1>11, <2>1 DEF NummernPassen
<1>13. SitzungenGelten' /\ KettenPassen' /\ Typen'
  BY <1>1, <1>3, <1>4, <1>5, SitzungenBleiben, KettenBleiben, TypenBleiben
<1>14. QED
  BY <1>12, <1>13 DEF IPr

LEMMA NimmNummerHaelt == ASSUME IPr, NEW t \in Transaktionen, NEW b \in Bereich, NimmNummer(t, b) PROVE IPr'
<1>1. PICK i : i = Min(Freie(b))
  OBVIOUS
<1>2. i \in Nat /\ i >= zaehler[b] /\ i >= 1 /\ (b[2] \notin VonHand => i = zaehler[b])
  BY <1>1, FreieFakten DEF NimmNummer
<1>3. i \in 1..MaxNummer
  BY <1>1, <1>2, ProtokollAnnahme DEF NimmNummer
<1>4. PICK n : n = [bereich |-> b, nummer |-> i, vonHand |-> FALSE]
  OBVIOUS
<1>5. n \in Nummer /\ n.bereich = b /\ n.nummer = i /\ ~n.vonHand
  BY <1>3, <1>4 DEF Nummer
<1>6. tx' = [tx EXCEPT ![t].beleg = n] /\ Ohne(t) /\ ZaehlerFrei(t, b)
  BY <1>1, <1>4 DEF NimmNummer
<1>7. UNCHANGED <<mitSavepoint, protokoll, siegel, belege, zaehler, letzteId, vergeben>>
  BY DEF NimmNummer
<1>8. QED
  BY <1>2, <1>5, <1>6, <1>7, NummerHaelt

LEMMA NimmVonHandHaelt ==
  ASSUME IPr, NEW t \in Transaktionen, NEW b \in Bereich, NEW i \in 1..MaxNummer, NimmVonHand(t, b, i) PROVE IPr'
<1>1. PICK n : n = [bereich |-> b, nummer |-> i, vonHand |-> TRUE]
  OBVIOUS
<1>2. n \in Nummer /\ n.vonHand
  BY <1>1 DEF Nummer
<1>3. tx' = [tx EXCEPT ![t].beleg = n] /\ Ohne(t)
  BY <1>1 DEF NimmVonHand
<1>4. UNCHANGED <<mitSavepoint, protokoll, siegel, belege, zaehler, letzteId, vergeben>>
  BY DEF NimmVonHand
<1>5. QED
  BY <1>2, <1>3, <1>4, NummerHaelt

LEMMA PurgeHaelt == ASSUME IPr, NEW b \in Bereich, NEW n \in belege[b], Purge(b, n) PROVE IPr'
<1>1. UNCHANGED <<mitSavepoint, protokoll, siegel, zaehler, tx, letzteId, vergeben>>
  BY DEF Purge
<1>2. belege' \in [Bereich -> SUBSET (1..MaxNummer)]
  BY DEF IPr, Typen, Purge
<1>3. Typen'
  BY <1>1, <1>2 DEF IPr, Typen
<1>4. SitzungenGelten' /\ NummernPassen'
  BY <1>1 DEF IPr, SitzungenGelten, NummernPassen, NummernStimmen
<1>5. KettenPassen'
  <2>1. \A m \in Mandanten, u \in Transaktionen : Sichtbar(u, m)' = Sichtbar(u, m)
    BY <1>1 DEF Sichtbar
  <2>2. KettenPassen
    BY DEF IPr
  <2>3. QED
    BY <1>1, <2>1, <2>2 DEF KettenPassen, Gekettet, Glied
<1>6. QED
  BY <1>3, <1>4, <1>5 DEF IPr

-----------------------------------------------------------------------------
(***************************************************************************)
(* The commit.                                                             *)
(***************************************************************************)

LEMMA CommitFakten ==
  ASSUME IPr, NEW t \in Transaktionen, Commit(t)
  PROVE  /\ tx[t].phase = "ende" /\ Versiegelt(tx[t]) = tx[t].neu /\ Eigene(tx[t]) = tx[t].neu
         /\ tx' = [tx EXCEPT ![t] = [NeueSitzung EXCEPT !.phase = "fertig"]]
         /\ tx' \in [Transaktionen -> Sitzung] /\ Frisch(tx'[t]) /\ tx'[t].phase = "fertig"
         /\ \A u \in Transaktionen \ {t} : tx'[u] = tx[u]
<1>1. tx \in [Transaktionen -> Sitzung] /\ tx[t] \in Sitzung /\ SitzungGilt(tx[t])
      /\ tx[t].phase = "ende" /\ tx[t].arbeit = {}
  BY SitzungFakten DEF Commit
<1>2. Offene(tx[t]) = {} /\ tx[t].sp = {} /\ Eigene(tx[t]) = tx[t].neu
  BY <1>1 DEF Offene, SitzungGilt, Eigene
<1>3. Versiegelt(tx[t]) = tx[t].neu
  BY <1>1, <1>2 DEF SitzungGilt
<1>4. tx' = [tx EXCEPT ![t] = [NeueSitzung EXCEPT !.phase = "fertig"]]
  BY DEF Commit
<1>5. PICK s : s = [NeueSitzung EXCEPT !.phase = "fertig"]
  OBVIOUS
<1>6. s \in Sitzung /\ s.phase = "fertig" /\ Frisch(s)
  BY <1>5, NeueSitzungFakten DEF Phasen
<1>7. tx' \in [Transaktionen -> Sitzung] /\ tx'[t] = s /\ \A u \in Transaktionen \ {t} : tx'[u] = tx[u]
  BY <1>1, <1>4, <1>5, <1>6
<1>8. QED
  BY <1>1, <1>2, <1>3, <1>4, <1>6, <1>7

LEMMA CommitSitzungen == ASSUME IPr, NEW t \in Transaktionen, Commit(t) PROVE SitzungenGelten'
<1>1. /\ Eigene(tx[t]) = tx[t].neu /\ tx' \in [Transaktionen -> Sitzung]
      /\ Frisch(tx'[t]) /\ tx'[t].phase = "fertig" /\ \A u \in Transaktionen \ {t} : tx'[u] = tx[u]
  BY CommitFakten
<1>2. protokoll' = protokoll \cup tx[t].neu /\ UNCHANGED <<mitSavepoint, letzteId>>
  BY DEF Commit
<1>3. SitzungenGelten
  BY DEF IPr
<1>4. SitzungGilt(tx'[t]) /\ KettenGelten(tx'[t]) /\ Geschlossen(tx'[t]) /\ Eigene(tx'[t]) = {} /\ tx'[t].vorgemerkt = {}
  BY <1>1, FrischGilt DEF Frisch
<1>5. ASSUME NEW u \in Transaktionen
      PROVE  /\ SitzungGilt(tx'[u]) /\ KettenGelten(tx'[u]) /\ (~mitSavepoint => Geschlossen(tx'[u]))
             /\ Eigene(tx'[u]) \subseteq Eigene(tx[u]) /\ tx'[u].vorgemerkt \subseteq tx[u].vorgemerkt
             /\ Eigene(tx'[u]) \cap protokoll' = {}
  <2>1. CASE u = t
    BY <1>4, <2>1
  <2>2. CASE u # t
    <3>1. Eigene(tx[u]) \cap tx[t].neu = {} /\ Eigene(tx[u]) \cap protokoll = {}
      BY <1>1, <1>3, <2>2 DEF SitzungenGelten
    <3>2. QED
      BY <1>1, <1>2, <1>3, <2>2, <3>1 DEF SitzungenGelten
  <2>3. QED
    BY <2>1, <2>2
<1>6. \A e \in protokoll' : e[1] <= letzteId
  BY <1>1, <1>2, <1>3 DEF SitzungenGelten
<1>7. \A u \in Transaktionen : \A e \in Eigene(tx'[u]) \cup tx'[u].vorgemerkt : e[1] <= letzteId
  BY <1>3, <1>5 DEF SitzungenGelten
<1>8. \A u, v \in Transaktionen : u # v => Eigene(tx'[u]) \cap Eigene(tx'[v]) = {}
  BY <1>3, <1>5 DEF SitzungenGelten
<1>9. QED
  BY <1>2, <1>5, <1>6, <1>7, <1>8 DEF SitzungenGelten

\* The seals of the session stand where the others saw the end of the chain.
LEMMA CommitKetten ==
  ASSUME IPr, NEW t \in Transaktionen, Commit(t) PROVE KettenPassen' /\ siegel' \in [Mandanten -> Seq(Zeile)]
<1>1. /\ Versiegelt(tx[t]) = tx[t].neu /\ Eigene(tx[t]) = tx[t].neu /\ tx' \in [Transaktionen -> Sitzung]
      /\ Frisch(tx'[t]) /\ \A u \in Transaktionen \ {t} : tx'[u] = tx[u]
  BY CommitFakten
<1>2. protokoll' = protokoll \cup tx[t].neu /\ siegel' = [m \in Mandanten |-> Sichtbar(t, m)]
  BY DEF Commit
<1>3. KettenPassen /\ SitzungenGelten /\ siegel \in [Mandanten -> Seq(Zeile)] /\ tx \in [Transaktionen -> Sitzung]
  BY DEF IPr, Typen
<1>4. ASSUME NEW m \in Mandanten
      PROVE  /\ siegel[m] \in Seq(Zeile) /\ tx[t].kette[m] \in Seq(Zeile)
             /\ siegel'[m] = siegel[m] \o tx[t].kette[m] /\ siegel'[m] \in Seq(Zeile)
             /\ Von(siegel'[m]) = Von(siegel[m]) \cup Von(tx[t].kette[m])
  <2>1. siegel[m] \in Seq(Zeile) /\ tx[t].kette[m] \in Seq(Zeile)
    BY <1>3 DEF Sitzung
  <2>2. siegel'[m] = siegel[m] \o tx[t].kette[m]
    BY <1>2 DEF Sichtbar
  <2>3. QED
    BY <2>1, <2>2, Anhaengen
<1>5. siegel' \in [Mandanten -> Seq(Zeile)]
  BY <1>2, <1>4
<1>6. ASSUME NEW m \in Mandanten
      PROVE  Gekettet(siegel'[m]) /\ JeEinmal(siegel'[m]) /\ \A e \in Von(siegel'[m]) : e[2] = m
  <2>1. Gekettet(siegel'[m])
    BY <1>2, <1>3 DEF KettenPassen
  <2>2. Von(tx[t].kette[m]) \subseteq Versiegelt(tx[t]) /\ Von(siegel[m]) \subseteq protokoll
    BY <1>3 DEF Versiegelt, KettenPassen
  <2>3. Von(siegel[m]) \cap Von(tx[t].kette[m]) = {}
    BY <1>1, <1>3, <2>2 DEF SitzungenGelten
  <2>4. KettenGelten(tx[t])
    BY <1>3 DEF SitzungenGelten
  <2>5. JeEinmal(siegel'[m])
    <3>1. JeEinmal(siegel[m]) /\ JeEinmal(tx[t].kette[m])
      BY <1>3, <2>4 DEF KettenPassen, KettenGelten
    <3>2. JeEinmal(siegel[m] \o tx[t].kette[m])
      BY <1>4, <2>3, <3>1, Anhaengen
    <3>3. QED
      BY <1>4, <3>2
  <2>6. QED
    BY <1>3, <1>4, <2>1, <2>4, <2>5 DEF KettenPassen, KettenGelten
<1>7. ASSUME NEW m \in Mandanten, NEW u \in Transaktionen PROVE Gekettet(siegel'[m] \o tx'[u].kette[m])
  <2>1. siegel'[m] \o <<>> = siegel'[m]
    BY <1>4
  <2>2. CASE tx'[u].kette[m] = <<>>
    BY <1>6, <2>1, <2>2
  <2>3. CASE tx'[u].kette[m] # <<>>
    <3>1. u # t /\ tx'[u] = tx[u]
      BY <1>1, <2>3 DEF Frisch
    <3>2. m \in tx[u].schloss
      BY <1>3, <2>3, <3>1 DEF SitzungenGelten, KettenGelten
    <3>3. m \notin tx[t].schloss
      BY <1>3, <3>1, <3>2 DEF KettenPassen
    <3>4. tx[t].kette[m] = <<>>
      BY <1>3, <3>3 DEF SitzungenGelten, KettenGelten
    <3>5. siegel'[m] = siegel[m]
      <4>1. siegel[m] \o <<>> = siegel[m]
        BY <1>4
      <4>2. QED
        BY <1>4, <3>4, <4>1
    <3>6. QED
      BY <1>3, <3>1, <3>5 DEF KettenPassen, Sichtbar
  <2>4. QED
    BY <2>2, <2>3
<1>8. protokoll' = UNION {Von(siegel'[m]) : m \in Mandanten}
  <2>1. ASSUME NEW e PROVE /\ e \in tx[t].neu <=> \E m \in Mandanten : e \in Von(tx[t].kette[m])
                           /\ e \in protokoll <=> \E m \in Mandanten : e \in Von(siegel[m])
    BY <1>1, <1>3 DEF Versiegelt, KettenPassen
  <2>2. ASSUME NEW e PROVE e \in protokoll' <=> \E m \in Mandanten : e \in Von(siegel'[m])
    BY <1>2, <1>4, <2>1
  <2>3. QED
    BY <2>2
<1>9. \A u, v \in Transaktionen : u # v => tx'[u].schloss \cap tx'[v].schloss = {}
  BY <1>1, <1>3 DEF KettenPassen, Frisch
<1>10. KettenPassen'
  <2>1. \A m \in Mandanten, u \in Transaktionen : Gekettet(Sichtbar(u, m)')
    BY <1>7 DEF Sichtbar
  <2>2. QED
    BY <1>6, <1>8, <1>9, <2>1 DEF KettenPassen, Gekettet, Glied, JeEinmal, Von
<1>11. QED
  BY <1>5, <1>10

LEMMA CommitNummern ==
  ASSUME IPr, NEW t \in Transaktionen, Commit(t)
  PROVE  /\ NummernPassen' /\ belege' \in [Bereich -> SUBSET (1..MaxNummer)]
         /\ zaehler' \in [Bereich -> 1..(MaxNummer + 1)] /\ vergeben' \in [Bereich -> Vergabe]
<1>1. /\ tx' \in [Transaktionen -> Sitzung] /\ Frisch(tx'[t]) /\ \A u \in Transaktionen \ {t} : tx'[u] = tx[u]
  BY CommitFakten
<1>2. /\ NummernPassen /\ tx \in [Transaktionen -> Sitzung] /\ MaxNummer \in Nat
      /\ belege \in [Bereich -> SUBSET (1..MaxNummer)] /\ zaehler \in [Bereich -> 1..(MaxNummer + 1)]
      /\ vergeben \in [Bereich -> Vergabe]
  BY ProtokollAnnahme DEF IPr, Typen
<1>3. ASSUME NEW u \in Transaktionen, Zaehlt(tx'[u]) PROVE u # t /\ tx'[u] = tx[u] /\ Zaehlt(tx[u])
  BY <1>1, <1>3 DEF Zaehlt, Frisch
<1>4. CASE UNCHANGED <<zaehler, vergeben>>
  <2>1. NummernPassen'
    BY <1>2, <1>3, <1>4 DEF NummernPassen, NummernStimmen
  <2>2. belege' \in [Bereich -> SUBSET (1..MaxNummer)]
    <3>1. CASE tx[t].beleg = KeinBeleg
      BY <1>2, <3>1 DEF Commit
    <3>2. CASE tx[t].beleg # KeinBeleg
      <4>1. tx[t].beleg \in Nummer
        BY <1>2, <3>2 DEF Sitzung
      <4>2. QED
        BY <1>2, <3>2, <4>1 DEF Commit, Nummer
    <3>3. QED
      BY <3>1, <3>2
  <2>3. QED
    BY <1>2, <1>4, <2>1, <2>2
<1>5. CASE Zaehlt(tx[t])
  <2>1. PICK b, n : b = tx[t].beleg.bereich /\ n = tx[t].beleg.nummer
    OBVIOUS
  <2>2. tx[t].beleg \in Nummer /\ b \in Bereich /\ n \in 1..MaxNummer
    BY <1>2, <1>5, <2>1 DEF Sitzung, Zaehlt, Nummer
  <2>3. n >= zaehler[b] /\ (b[2] \notin VonHand => n = zaehler[b])
    BY <1>2, <1>5, <2>1 DEF NummernPassen
  <2>4. PICK v : v = [nummern |-> vergeben[b].nummern \cup {n},
                      oft |-> vergeben[b].oft \/ n \in vergeben[b].nummern,
                      gesprungen |-> vergeben[b].gesprungen \cup (zaehler[b]..(n - 1))]
    OBVIOUS
  <2>5. /\ belege' = [belege EXCEPT ![b] = @ \cup {n}] /\ zaehler' = [zaehler EXCEPT ![b] = n + 1]
        /\ vergeben' = [vergeben EXCEPT ![b] = v]
    BY <1>2, <1>5, <2>1, <2>2, <2>4 DEF Commit, Zaehlt
  <2>6. zaehler[b] \in Nat /\ zaehler[b] >= 1 /\ n \in Nat /\ vergeben[b] \in Vergabe
    BY <1>2, <2>2
  <2>7. v \in Vergabe /\ v.nummern = vergeben[b].nummern \cup {n} /\ v.oft = (vergeben[b].oft \/ n \in vergeben[b].nummern)
        /\ v.gesprungen = vergeben[b].gesprungen \cup (zaehler[b]..(n - 1))
    <3>1. zaehler[b]..(n - 1) \in SUBSET Nat
      BY <2>6
    <3>2. QED
      BY <2>4, <2>6, <3>1 DEF Vergabe
  <2>8. ~vergeben[b].oft /\ vergeben[b].nummern \cup vergeben[b].gesprungen = 1..(zaehler[b] - 1)
        /\ (b[2] \notin VonHand => vergeben[b].gesprungen = {})
    BY <1>2, <2>2 DEF NummernPassen, NummernStimmen
  <2>9. n \notin vergeben[b].nummern
    <3>1. n \notin 1..(zaehler[b] - 1)
      BY <2>3, <2>6
    <3>2. QED
      BY <2>8, <3>1
  <2>10. v.nummern \cup v.gesprungen = 1..n
    <3>1. v.nummern \cup v.gesprungen = (1..(zaehler[b] - 1)) \cup {n} \cup (zaehler[b]..(n - 1))
      BY <2>7, <2>8
    <3>2. (1..(zaehler[b] - 1)) \cup {n} \cup (zaehler[b]..(n - 1)) = 1..n
      <4>1. PICK z \in Nat : z = zaehler[b]
        BY <2>6
      <4>2. z >= 1 /\ n >= z
        BY <2>3, <2>6, <4>1
      <4>3. (1..(z - 1)) \cup {n} \cup (z..(n - 1)) = 1..n
        BY <2>6, <4>2
      <4>4. QED
        BY <4>1, <4>3
    <3>3. QED
      BY <3>1, <3>2
  <2>11. b[2] \notin VonHand => v.gesprungen = {}
    <3> SUFFICES ASSUME b[2] \notin VonHand PROVE v.gesprungen = {}
      OBVIOUS
    <3>1. zaehler[b]..(n - 1) = {}
      BY <2>3, <2>6
    <3>2. QED
      BY <2>7, <2>8, <3>1
  <2>12. /\ belege' \in [Bereich -> SUBSET (1..MaxNummer)] /\ zaehler' \in [Bereich -> 1..(MaxNummer + 1)]
         /\ vergeben' \in [Bereich -> Vergabe]
    <3>1. n + 1 \in 1..(MaxNummer + 1)
      BY <1>2, <2>2
    <3>2. QED
      BY <1>2, <2>2, <2>5, <2>7, <3>1
  <2>13. /\ zaehler'[b] = n + 1 /\ vergeben'[b] = v
         /\ \A c \in Bereich \ {b} : zaehler'[c] = zaehler[c] /\ vergeben'[c] = vergeben[c]
    BY <1>2, <2>2, <2>5
  <2>14. NummernStimmen'
    <3>1. ASSUME NEW c \in Bereich
          PROVE  /\ ~vergeben'[c].oft
                 /\ vergeben'[c].nummern \cup vergeben'[c].gesprungen = 1..(zaehler'[c] - 1)
                 /\ c[2] \notin VonHand => vergeben'[c].gesprungen = {}
      <4>1. CASE c = b
        <5>1. 1..(zaehler'[b] - 1) = 1..n
          BY <2>6, <2>13
        <5>2. QED
          BY <2>7, <2>8, <2>9, <2>10, <2>11, <2>13, <4>1, <5>1
      <4>2. CASE c # b
        BY <1>2, <2>13, <4>2 DEF NummernPassen, NummernStimmen
      <4>3. QED
        BY <4>1, <4>2
    <3>2. QED
      BY <3>1 DEF NummernStimmen
  <2>15. ASSUME NEW u \in Transaktionen, Zaehlt(tx'[u])
         PROVE  tx'[u].beleg = tx[u].beleg /\ Zaehlt(tx[u]) /\ zaehler'[tx[u].beleg.bereich] = zaehler[tx[u].beleg.bereich]
    <3>1. u # t /\ tx'[u] = tx[u] /\ Zaehlt(tx[u])
      BY <1>3, <2>15
    <3>2. tx[u].beleg.bereich # b
      BY <1>2, <1>5, <2>1, <3>1 DEF NummernPassen
    <3>3. tx[u].beleg.bereich \in Bereich
      BY <1>2, <3>1 DEF Zaehlt, Sitzung, Nummer
    <3>4. QED
      BY <2>13, <3>1, <3>2, <3>3
  <2>16. NummernPassen'
    BY <1>2, <2>14, <2>15 DEF NummernPassen
  <2>17. QED
    BY <2>12, <2>16
<1>6. QED
  BY <1>4, <1>5 DEF Commit, Zaehlt

LEMMA CommitHaelt == ASSUME IPr, NEW t \in Transaktionen, Commit(t) PROVE IPr'
<1>1. protokoll' \in SUBSET Eintrag /\ letzteId' \in 0..MaxEintrag /\ mitSavepoint' \in BOOLEAN
  <2>1. tx[t].neu \in SUBSET Eintrag
    BY SitzungFakten DEF Sitzung
  <2>2. QED
    BY <2>1 DEF Commit, IPr, Typen
<1>2. Typen'
  BY <1>1, CommitFakten, CommitKetten, CommitNummern DEF Typen
<1>3. QED
  BY <1>2, CommitSitzungen, CommitKetten, CommitNummern DEF IPr

-----------------------------------------------------------------------------
(***************************************************************************)
(* Every step, and what follows from the invariant.                        *)
(***************************************************************************)

LEMMA PrStart == PrInit => IPr
<1> SUFFICES ASSUME PrInit PROVE IPr
  OBVIOUS
<1>1. PICK s : s = NeueSitzung
  OBVIOUS
<1>2. s \in Sitzung /\ s.phase = "ruht" /\ Frisch(s)
  <2>1. KeinBeleg \in Nummer \cup {KeinBeleg}
    OBVIOUS
  <2>2. QED
    BY <1>1, <2>1 DEF NeueSitzung, Sitzung, Frisch, Phasen
<1>3. SitzungGilt(s) /\ KettenGelten(s) /\ Eigene(s) = {} /\ Geschlossen(s) /\ ~Zaehlt(s) /\ s.vorgemerkt = {}
  <2>1. \A m \in Mandanten : s.kette[m] = <<>> /\ Von(s.kette[m]) = {} /\ JeEinmal(s.kette[m])
    BY <1>2 DEF Frisch, Von, JeEinmal
  <2>2. Versiegelt(s) = {} /\ Eigene(s) = {} /\ Offene(s) = {}
    BY <1>2, <2>1 DEF Versiegelt, Eigene, Offene, Frisch
  <2>3. QED
    BY <1>2, <2>1, <2>2 DEF SitzungGilt, KettenGelten, Geschlossen, Zaehlt, Frisch
<1>4. tx = [t \in Transaktionen |-> s] /\ protokoll = {} /\ letzteId = 0
      /\ siegel = [m \in Mandanten |-> <<>>] /\ belege = [b \in Bereich |-> {}] /\ zaehler = [b \in Bereich |-> 1]
      /\ vergeben = [b \in Bereich |-> [nummern |-> {}, oft |-> FALSE, gesprungen |-> {}]]
  BY <1>1 DEF PrInit
<1>5. Typen
  <2>1. MaxNummer \in Nat /\ MaxEintrag \in Nat
    BY ProtokollAnnahme
  <2>2. [nummern |-> {}, oft |-> FALSE, gesprungen |-> {}] \in Vergabe
    BY DEF Vergabe
  <2>3. QED
    BY <1>2, <1>4, <2>1, <2>2 DEF Typen, PrInit
<1>6. SitzungenGelten
  BY <1>3, <1>4 DEF SitzungenGelten
<1>7. \A m \in Mandanten : siegel[m] = <<>> /\ Von(siegel[m]) = {} /\ \A t \in Transaktionen : Sichtbar(t, m) = <<>>
  BY <1>2, <1>4 DEF Von, Sichtbar, Frisch
<1>8. Gekettet(<<>>) /\ JeEinmal(<<>>)
  BY DEF Gekettet, JeEinmal
<1>9. KettenPassen
  BY <1>2, <1>4, <1>7, <1>8 DEF KettenPassen, Frisch
<1>10. NummernPassen
  <2>1. 1..(1 - 1) = {}
    OBVIOUS
  <2>2. QED
    BY <1>3, <1>4, <2>1 DEF NummernPassen, NummernStimmen
<1>11. QED
  BY <1>5, <1>6, <1>9, <1>10 DEF IPr

LEMMA PrBleibt == IPr /\ UNCHANGED prVars => IPr'
<1> SUFFICES ASSUME IPr, UNCHANGED prVars PROVE IPr'
  OBVIOUS
<1>1. UNCHANGED <<mitSavepoint, protokoll, siegel, belege, zaehler, tx, letzteId, vergeben>>
  BY DEF prVars
<1>2. Typen'
  BY <1>1 DEF IPr, Typen
<1>3. SitzungenGelten' /\ NummernPassen'
  BY <1>1 DEF IPr, SitzungenGelten, NummernPassen, NummernStimmen
<1>4. KettenPassen'
  <2>1. \A m \in Mandanten, u \in Transaktionen : Sichtbar(u, m)' = Sichtbar(u, m)
    BY <1>1 DEF Sichtbar
  <2>2. KettenPassen
    BY DEF IPr
  <2>3. QED
    BY <1>1, <2>1, <2>2 DEF KettenPassen, Gekettet, Glied
<1>5. QED
  BY <1>2, <1>3, <1>4 DEF IPr

LEMMA PrSchrittHaelt == IPr /\ [PrNext]_prVars => IPr'
<1> SUFFICES ASSUME IPr, [PrNext]_prVars PROVE IPr'
  OBVIOUS
<1>1. CASE UNCHANGED prVars
  BY <1>1, PrBleibt
<1>2. ASSUME NEW t \in Transaktionen, Beginnt(t) PROVE IPr'
  BY <1>2, BeginntHaelt
<1>3. ASSUME NEW t \in Transaktionen, SavepointBeginnt(t) PROVE IPr'
  BY <1>3, SavepointBeginntHaelt
<1>4. ASSUME NEW t \in Transaktionen, SavepointZurueck(t) PROVE IPr'
  BY <1>4, SavepointZurueckHaelt
<1>5. ASSUME NEW t \in Transaktionen, SavepointFrei(t) PROVE IPr'
  BY <1>5, SavepointFreiHaelt
<1>6. ASSUME NEW t \in Transaktionen, SavepointFertig(t) PROVE IPr'
  BY <1>6, SavepointFertigHaelt
<1>7. ASSUME NEW t \in Transaktionen, Endet(t) PROVE IPr'
  BY <1>7, EndetHaelt
<1>8. ASSUME NEW t \in Transaktionen, Versiegele(t) PROVE IPr'
  BY <1>8, VersiegeleHaelt
<1>9. ASSUME NEW t \in Transaktionen, Commit(t) PROVE IPr'
  BY <1>9, CommitHaelt
<1>10. ASSUME NEW t \in Transaktionen, VerklemmungGeloest(t) \/ Abgebrochen(t) PROVE IPr'
  BY <1>10, EndeHaelt DEF VerklemmungGeloest, Abgebrochen
<1>11. ASSUME NEW t \in Transaktionen, NEW m \in Mandanten, Protokolliere(t, m) PROVE IPr'
  BY <1>11, ProtokolliereHaelt
<1>12. ASSUME NEW t \in Transaktionen, NEW b \in Bereich, NimmNummer(t, b) PROVE IPr'
  BY <1>12, NimmNummerHaelt
<1>13. ASSUME NEW t \in Transaktionen, NEW b \in Bereich, NummerScheitert(t, b) PROVE IPr'
  BY <1>13, EndeHaelt DEF NummerScheitert
<1>14. ASSUME NEW t \in Transaktionen, NEW b \in Bereich, NEW n \in 1..MaxNummer, NimmVonHand(t, b, n) PROVE IPr'
  BY <1>14, NimmVonHandHaelt
<1>15. ASSUME NEW b \in Bereich, NEW n \in belege[b], Purge(b, n) PROVE IPr'
  BY <1>15, PurgeHaelt
<1>16. QED
  BY <1>1, <1>2, <1>3, <1>4, <1>5, <1>6, <1>7, <1>8, <1>9, <1>10, <1>11, <1>12, <1>13, <1>14, <1>15 DEF PrNext

\* In a circle of waiting transactions each holds a lock the one before it wants, and so wants
\* a later one itself: nobody could want the first.
LEMMA KeinKreis == IPr => KeineVerklemmung
<1> SUFFICES ASSUME IPr, ~mitSavepoint, NEW t \in Transaktionen, ImKreis(t) PROVE FALSE
  BY DEF KeineVerklemmung
<1>1. PICK S \in SUBSET Transaktionen : t \in S /\ \E f \in Bijection(S, S) : \A u \in S : f[u] \in Wartet(u)
  BY DEF ImKreis
<1>2. PICK f \in Bijection(S, S) : \A u \in S : f[u] \in Wartet(u)
  BY <1>1
<1>3. f \in [S -> S] /\ \A u \in S : \E v \in S : f[v] = u
  BY DEF Bijection, Injection, Surjection
<1>4. ASSUME NEW u \in Transaktionen
      PROVE  /\ tx[u] \in Sitzung /\ Geschlossen(tx[u]) /\ SitzungGilt(tx[u])
             /\ tx[u].arbeit # {} => tx[u].phase = "ende"
  <2>1. tx[u] \in Sitzung /\ Geschlossen(tx[u]) /\ SitzungGilt(tx[u])
    BY SitzungFakten
  <2>2. QED
    BY <2>1 DEF SitzungGilt, Geschlossen, Frisch, Sitzung, Phasen
<1>5. ASSUME NEW u \in Transaktionen, tx[u].arbeit # {}
      PROVE  ZuSiegeln(u) \in Nat /\ \E e \in tx[u].arbeit : ZuSiegeln(u) = e[2]
  <2> DEFINE Z == {e[2] : e \in tx[u].arbeit}
  <2>1. tx[u].arbeit \subseteq Eintrag /\ Mandanten \subseteq Nat
    BY <1>4, ProtokollAnnahme DEF Sitzung
  <2>2. Z \in SUBSET Nat /\ Z # {}
    BY <1>5, <2>1 DEF Eintrag
  <2>3. Min(Z) \in Z
    <3> HIDE DEF Z
    <3>1. QED
      BY <2>2, MinFakten
  <2>4. QED
    BY <2>2, <2>3 DEF ZuSiegeln, Naechster
<1>6. ASSUME NEW u \in S PROVE tx[u].phase = "ende" /\ tx[u].arbeit # {}
  <2>1. PICK v \in S : f[v] = u
    BY <1>3
  <2>2. u \in Wartet(v) /\ u \in Transaktionen /\ v \in Transaktionen
    BY <1>2, <2>1
  <2>3. tx[u].phase = "ende" \/ HaeltEine(u)
    <3>1. CASE tx[v].arbeit # {} /\ ZuSiegeln(v) \in tx[u].schloss
      BY <1>4, <2>2, <3>1 DEF Geschlossen
    <3>2. CASE Ohne(v) /\ \E b \in Bereich : b[1] = Heimat[v] /\ HaeltZaehler(u, b)
      BY <3>2 DEF HaeltEine
    <3>3. QED
      BY <2>2, <3>1, <3>2 DEF Wartet
  <2>4. PICK w \in S : w \in Wartet(u)
    BY <1>2, <1>3
  <2>5. ~(HaeltEine(u) /\ Ohne(u))
    BY BereichIstPaar DEF HaeltEine, HaeltZaehler, Ohne
  <2>6. Ohne(u) => tx[u].phase # "ende"
    BY DEF Ohne
  <2>7. tx[u].arbeit # {} \/ Ohne(u)
    BY <2>4 DEF Wartet
  <2>8. QED
    BY <1>4, <2>2, <2>3, <2>5, <2>6, <2>7
<1>7. ASSUME NEW u \in S PROVE ZuSiegeln(u) \in tx[f[u]].schloss /\ ZuSiegeln(u) < ZuSiegeln(f[u])
  <2>1. f[u] \in S /\ f[u] \in Wartet(u) /\ f[u] \in Transaktionen
    BY <1>2, <1>3
  <2>2. ~Ohne(u)
    BY <1>6 DEF Ohne
  <2>3. ZuSiegeln(u) \in tx[f[u]].schloss
    BY <2>1, <2>2 DEF Wartet
  <2>4. PICK e \in tx[f[u]].arbeit : ZuSiegeln(f[u]) = e[2]
    BY <1>5, <1>6, <2>1
  <2>5. QED
    BY <1>4, <2>1, <2>3, <2>4 DEF Geschlossen
<1>8. PICK n \in {ZuSiegeln(u) : u \in S} : \A k \in {ZuSiegeln(u) : u \in S} : n <= k
  <2> DEFINE Z == {ZuSiegeln(u) : u \in S}
  <2>1. Z \in SUBSET Nat /\ Z # {}
    BY <1>1, <1>5, <1>6
  <2> HIDE DEF Z
  <2>2. PICK n \in Z : \A k \in Z : n <= k
    BY <2>1, KleinsteZahl
  <2>3. QED
    BY <2>2 DEF Z
<1>9. PICK u \in S : n = ZuSiegeln(u)
  OBVIOUS
<1>10. PICK v \in S : f[v] = u
  BY <1>3
<1>11. ZuSiegeln(v) < ZuSiegeln(u) /\ ZuSiegeln(u) <= ZuSiegeln(v)
  BY <1>7, <1>8, <1>9, <1>10
<1>12. ZuSiegeln(v) \in Nat /\ ZuSiegeln(u) \in Nat
  BY <1>1, <1>5, <1>6
<1>13. QED
  BY <1>11, <1>12

-----------------------------------------------------------------------------
(***************************************************************************)
(* One of the transactions under way can go on.  If none could, each would *)
(* wait for the holder of a lock, which is under way as well.  The holders *)
(* map the transactions under way into themselves; on a smallest set they  *)
(* map into itself they are a bijection, and that is a circle.             *)
(***************************************************************************)

\* Who holds a seal lock is under way.
LEMMA HalterUnterwegs ==
  ASSUME IPr, NEW u \in Transaktionen, NEW m \in tx[u].schloss
  PROVE  tx[u].phase \notin {"ruht", "fertig"}
BY SitzungFakten DEF SitzungGilt, Frisch

\* A function of a finite set into itself permutes one of its non-empty subsets.
LEMMA KreisGibtEs ==
  ASSUME NEW B, IsFiniteSet(B), B # {}, NEW h \in [B -> B]
  PROVE  \E S \in SUBSET B : S # {} /\ \E f \in Bijection(S, S) : \A u \in S : f[u] = h[u]
<1> DEFINE Zu == {S \in SUBSET B : S # {} /\ \A u \in S : h[u] \in S}
           Z == {Cardinality(S) : S \in Zu}
<1>1. ASSUME NEW S \in Zu PROVE IsFiniteSet(S) /\ Cardinality(S) \in Nat
  BY FS_Subset, FS_CardinalityType
<1>2. Z \in SUBSET Nat /\ Z # {}
  <2>1. B \in Zu
    OBVIOUS
  <2>2. QED
    BY <1>1, <2>1
<1>3. PICK n \in Z : \A k \in Z : n <= k
  <2> HIDE DEF Z
  <2>1. QED
    BY <1>2, KleinsteZahl
<1>4. PICK S \in Zu : n = Cardinality(S)
  BY <1>3
<1> DEFINE R == {h[u] : u \in S}
           f == [u \in S |-> h[u]]
<1>5. R \in Zu /\ R \in SUBSET S
  <2>1. R \in SUBSET S /\ R # {}
    BY <1>4
  <2>2. \A r \in R : h[r] \in R
    BY <2>1
  <2>3. QED
    BY <1>4, <2>1, <2>2
<1>6. R = S
  <2>1. IsFiniteSet(S) /\ Cardinality(S) \in Nat /\ Cardinality(R) \in Nat
    BY <1>1, <1>4, <1>5
  <2>2. Cardinality(S) <= Cardinality(R)
    BY <1>3, <1>4, <1>5
  <2> HIDE DEF R
  <2>3. QED
    BY <1>5, <2>1, <2>2, FS_Subset
<1>7. f \in Surjection(S, S)
  BY <1>4, <1>6 DEF Surjection
<1>8. f \in Injection(S, S)
  <2> HIDE DEF f
  <2>1. QED
    BY <1>1, <1>4, <1>7, FS_SurjSameCardinalityImpliesInj
<1>9. QED
  BY <1>4, <1>7, <1>8 DEF Bijection

LEMMA EinerKannWeiter == IPr => EinerGehtWeiter
<1> DEFINE B == {t \in Transaktionen : tx[t].phase \notin {"ruht", "fertig"}}
           h == [t \in B |-> CHOOSE u \in B : u \in Wartet(t)]
<1> SUFFICES ASSUME IPr, B # {}, \A t \in Transaktionen : ~KannWeiter(t) PROVE FALSE
  BY DEF EinerGehtWeiter
<1>1. IsFiniteSet(B)
  BY ProtokollAnnahme, FS_Subset
<1>2. ASSUME NEW t \in B PROVE h[t] \in B /\ h[t] \in Wartet(t)
  <2>1. tx[t] \in Sitzung
    BY SitzungFakten
  <2>2. tx[t].arbeit # {} /\ ~SchlossFrei(t, ZuSiegeln(t))
    BY <2>1 DEF KannWeiter, Sitzung, Phasen
  <2>3. PICK u \in Transaktionen \ {t} : ZuSiegeln(t) \in tx[u].schloss
    BY <2>2 DEF SchlossFrei
  <2>4. u \in B
    BY <2>3, HalterUnterwegs
  <2>5. u \in Wartet(t)
    BY <2>2, <2>3 DEF Wartet
  <2>6. QED
    BY <2>4, <2>5
<1>3. h \in [B -> B]
  BY <1>2
<1>4. PICK S \in SUBSET B : S # {} /\ \E f \in Bijection(S, S) : \A u \in S : f[u] = h[u]
  <2>1. B # {}
    OBVIOUS
  <2> HIDE DEF B, h
  <2>2. QED
    BY <1>1, <1>3, <2>1, KreisGibtEs
<1>5. PICK t \in S : TRUE
  BY <1>4
<1>6. ImKreis(t)
  <2>1. PICK f \in Bijection(S, S) : \A u \in S : f[u] = h[u]
    BY <1>4
  <2>2. \A u \in S : f[u] \in Wartet(u)
    BY <1>2, <2>1
  <2>3. QED
    BY <1>5, <2>1, <2>2 DEF ImKreis
<1>7. QED
  BY <1>5, <1>6 DEF KannWeiter

LEMMA IPrGilt == IPr => ProtokollStimmt
<1> SUFFICES ASSUME IPr PROVE ProtokollStimmt
  OBVIOUS
<1>1. Typen /\ KettenPassen /\ NummernPassen
  BY DEF IPr
<1>2. PrTyp
  <2>1. ASSUME NEW t \in Transaktionen
        PROVE  /\ tx[t].phase \in {"ruht", "offen", "savepoint", "freigabe", "ende", "fertig"}
               /\ tx[t].schloss \subseteq Mandanten
               /\ tx[t].vorgemerkt \cup tx[t].arbeit \subseteq (1..MaxEintrag) \X Mandanten
    BY <1>1 DEF Typen, Sitzung, Phasen, Eintrag
  <2>2. QED
    BY <1>1, <2>1 DEF Typen, PrTyp, Eintrag
<1>3. KetteStimmt
  BY <1>1 DEF KettenPassen, Gekettet, Glied, KetteStimmt
<1>4. AllesGesiegelt
  <2>1. ASSUME NEW m \in Mandanten PROVE Cardinality(Von(siegel[m])) = Len(siegel[m])
    <3>1. siegel[m] \in Seq(Zeile) /\ JeEinmal(siegel[m])
      BY <1>1 DEF Typen, KettenPassen
    <3>2. PICK k : k = siegel[m]
      OBVIOUS
    <3>3. PICK n \in Nat : n = Len(k) /\ DOMAIN k = 1..n
      BY <3>1, <3>2
    <3> DEFINE g == [i \in 1..n |-> k[i].eintrag]
    <3>4. g \in Bijection(1..n, Von(k))
      BY <3>1, <3>2, <3>3 DEF Bijection, Injection, Surjection, IsInjective, JeEinmal, Von
    <3>5. IsFiniteSet(1..n) /\ Cardinality(1..n) = n
      BY FS_Interval
    <3>6. ExistsBijection(1..n, Von(k))
      BY <3>4 DEF ExistsBijection
    <3>7. Cardinality(Von(k)) = n
      BY <3>5, <3>6, FS_Bijection
    <3>8. QED
      BY <3>2, <3>3, <3>7
  <2>2. QED
    BY <1>1, <2>1 DEF KettenPassen, Von, AllesGesiegelt
<1>5. QED
  BY <1>1, <1>2, <1>3, <1>4, KeinKreis, EinerKannWeiter DEF ProtokollStimmt, NummernPassen

(* For any number of transactions, tenants and kinds of documents, with savepoints, rollbacks and
   failures: the seals of a tenant are an unbroken chain over exactly the committed entries, a number
   is given once, a range without numbers given by hand has no gaps, without savepoints no transactions
   wait in a circle, and whatever locks are held one of those under way can go on
   (audit_service.py, numbering_service.py). *)
THEOREM ProtokollBleibtStimmig == PrSpec => []ProtokollStimmt
<1>1. QED
  BY PrStart, PrSchrittHaelt, IPrGilt, PTL DEF PrSpec

=============================================================================
