----------------------------- MODULE Protokoll -----------------------------
(***************************************************************************)
(* What every request that changes something does besides: the audit log   *)
(* with its seals (services/audit_service.py) and the number ranges        *)
(* (services/numbering_service.py), with overlapping transactions under    *)
(* READ COMMITTED.                                                         *)
(*                                                                         *)
(* log_action inserts an entry and notes it in session.info; the seals of  *)
(* a tenant, a hash chain, are written by the before_commit hook under an  *)
(* advisory lock that lasts until the end of the transaction.  SQLAlchemy  *)
(* calls this hook for the release of a savepoint as well.                 *)
(* A hash stands for the sequence of the entries it covers.                *)
(***************************************************************************)
EXTENDS Integers, FiniteSets, SequencesExt

CONSTANTS
    Transaktionen,
    Mandanten,      \* a set of numbers: tenants in the order of their locks
    Heimat,         \* transaction -> the tenant whose numbers it takes
    Belegarten,
    VonHand,        \* kinds of documents with numbers given by hand
    MaxVersuche,    \* _MAX_VERSUCHE
    MaxNummer,      \* bound: numbers
    MaxEintrag,     \* bound: entries
    MaxSavepoints   \* bound: savepoints of a transaction

\* The connection pool of the database is finite, and so are the transactions under way.
ASSUME ProtokollAnnahme ==
    /\ IsFiniteSet(Transaktionen)
    /\ VonHand \subseteq Belegarten /\ Mandanten \subseteq Nat
    /\ Heimat \in [Transaktionen -> Mandanten]
    /\ MaxVersuche \in Nat \ {0} /\ MaxNummer \in Nat /\ MaxEintrag \in Nat
    /\ MaxSavepoints \in Nat

VARIABLES
    mitSavepoint,   \* whether savepoints with entries before them are used in this behaviour
    protokoll,      \* committed entries <<id, tenant>>
    siegel,         \* tenant -> committed seals
    belege,         \* tenant, kind -> numbers of documents, the recycle bin included
    zaehler,        \* tenant, kind -> naechste_nummer
    tx,             \* transaction -> its session
    letzteId,       \* the identity column; a rollback does not give ids back
    vergeben        \* history: tenant, kind -> numbers handed out and committed, numbers skipped

prVars == <<mitSavepoint, protokoll, siegel, belege, zaehler, tx, letzteId, vergeben>>

Bereich == Mandanten \X Belegarten
KeinBeleg == [bereich |-> <<>>, nummer |-> 0, vonHand |-> FALSE]

(* neu, sp: entries inserted, before and inside the savepoint; vorgemerkt: session.info;
   arbeit: entries _siegeln is at; kette: tenant -> own seals. *)
NeueSitzung ==
    [phase |-> "ruht", neu |-> {}, sp |-> {}, vorgemerkt |-> {}, arbeit |-> {},
     kette |-> [m \in Mandanten |-> <<>>], schloss |-> {}, beleg |-> KeinBeleg, savepoints |-> 0]

PrTyp ==
    /\ mitSavepoint \in BOOLEAN
    /\ protokoll \subseteq (1..MaxEintrag) \X Mandanten
    /\ DOMAIN siegel = Mandanten
    /\ belege \in [Bereich -> SUBSET (1..MaxNummer)]
    /\ zaehler \in [Bereich -> 1..(MaxNummer + 1)]
    /\ \A t \in Transaktionen :
         /\ tx[t].phase \in {"ruht", "offen", "savepoint", "freigabe", "ende", "fertig"}
         /\ tx[t].schloss \subseteq Mandanten
         /\ tx[t].vorgemerkt \cup tx[t].arbeit \subseteq (1..MaxEintrag) \X Mandanten
    /\ letzteId \in 0..MaxEintrag

PrInit ==
    /\ mitSavepoint \in BOOLEAN
    /\ protokoll = {} /\ siegel = [m \in Mandanten |-> <<>>]
    /\ belege = [b \in Bereich |-> {}] /\ zaehler = [b \in Bereich |-> 1]
    /\ tx = [t \in Transaktionen |-> NeueSitzung]
    /\ letzteId = 0
    /\ vergeben = [b \in Bereich |-> [nummern |-> {}, oft |-> FALSE, gesprungen |-> {}]]

Beginnt(t) ==
    /\ tx[t].phase = "ruht" /\ tx' = [tx EXCEPT ![t].phase = "offen"]
    /\ UNCHANGED <<mitSavepoint, protokoll, siegel, belege, zaehler, letzteId, vergeben>>

(* log_action: the entry is flushed and noted. *)
Protokolliere(t, m) ==
    LET e == <<letzteId + 1, m>> IN
    /\ tx[t].phase \in {"offen", "savepoint"} /\ letzteId < MaxEintrag
    /\ letzteId' = letzteId + 1
    /\ tx' = [tx EXCEPT ![t].vorgemerkt = @ \cup {e},
                        ![t].neu = IF tx[t].phase = "offen" THEN @ \cup {e} ELSE @,
                        ![t].sp = IF tx[t].phase = "savepoint" THEN @ \cup {e} ELSE @]
    /\ UNCHANGED <<mitSavepoint, protokoll, siegel, belege, zaehler, vergeben>>

(* begin_nested around a mail, a delivery or a deletion that may fail. *)
SavepointBeginnt(t) ==
    /\ mitSavepoint /\ tx[t].phase = "offen" /\ tx[t].savepoints < MaxSavepoints
    /\ tx' = [tx EXCEPT ![t].phase = "savepoint", ![t].savepoints = @ + 1]
    /\ UNCHANGED <<mitSavepoint, protokoll, siegel, belege, zaehler, letzteId, vergeben>>

\* Mutant: every rollback drops what is noted, also that of a savepoint.
NachSavepointRollbackLeer(s) == [s EXCEPT !.phase = "offen", !.sp = {}, !.vorgemerkt = {}]

(* _nach_rollback keeps the list: entries of the savepoint are sorted out later. *)
NachSavepointRollback(s) == [s EXCEPT !.phase = "offen", !.sp = {}]

SavepointZurueck(t) ==
    /\ tx[t].phase = "savepoint"
    /\ tx' = [tx EXCEPT ![t] = NachSavepointRollback(@)]
    /\ UNCHANGED <<mitSavepoint, protokoll, siegel, belege, zaehler, letzteId, vergeben>>

(* _siegeln begins: what is noted and still persistent. *)
Persistent(s) == s.vorgemerkt \cap (s.neu \cup s.sp)

SavepointFrei(t) ==
    /\ tx[t].phase = "savepoint"
    /\ tx' = [tx EXCEPT ![t].phase = "freigabe", ![t].arbeit = Persistent(tx[t]), ![t].vorgemerkt = {}]
    /\ UNCHANGED <<mitSavepoint, protokoll, siegel, belege, zaehler, letzteId, vergeben>>

(* siegel_vor_antwort, or the commit of a job. *)
Endet(t) ==
    /\ tx[t].phase = "offen"
    /\ tx' = [tx EXCEPT ![t].phase = "ende", ![t].arbeit = Persistent(tx[t]), ![t].vorgemerkt = {}]
    /\ UNCHANGED <<mitSavepoint, protokoll, siegel, belege, zaehler, letzteId, vergeben>>

(* The next tenant in the order of the locks. *)
Naechster(t) == Min({e[2] : e \in tx[t].arbeit})

\* Mutant: tenants in the order of their first entry.
NaechsterNachEintrag(t) ==
    (CHOOSE e \in tx[t].arbeit : \A f \in tx[t].arbeit : e[1] <= f[1])[2]

ZuSiegeln(t) == Naechster(t)

SchlossFrei(t, m) == \A u \in Transaktionen \ {t} : m \notin tx[u].schloss

(* Entries in the order of their ids. *)
NachId(es) ==
    CHOOSE q \in [1..Cardinality(es) -> es] : \A i, j \in DOMAIN q : i < j => q[i][1] < q[j][1]

\* Mutant: `vorher` is not carried on from seal to seal.
NeueSiegelOhneVorher(l, es) ==
    LET q == NachId(es)
    IN [i \in DOMAIN q |-> [seq |-> l.seq + i, eintrag |-> q[i], vorgaenger |-> l.hash,
                            hash |-> Append(l.hash, q[i][1])]]

(* The seals for the entries `es`, by id, after the last seal that is visible. *)
NeueSiegel(l, es) ==
    LET q == NachId(es)
        hash(i) == l.hash \o [j \in 1..i |-> q[j][1]]
    IN [i \in DOMAIN q |-> [seq |-> l.seq + i, eintrag |-> q[i], vorgaenger |-> hash(i - 1),
                            hash |-> hash(i)]]

Sichtbar(t, m) == siegel[m] \o tx[t].kette[m]
LetztesSiegel(k) ==
    IF k = <<>> THEN [seq |-> 0, hash |-> <<>>]
    ELSE [seq |-> k[Len(k)].seq, hash |-> k[Len(k)].hash]

Versiegele(t) ==
    /\ tx[t].arbeit # {}
    /\ LET m == ZuSiegeln(t)
           es == {e \in tx[t].arbeit : e[2] = m}
           l == LetztesSiegel(Sichtbar(t, m))
       IN /\ SchlossFrei(t, m)
          /\ tx' = [tx EXCEPT ![t].schloss = @ \cup {m}, ![t].arbeit = @ \ es,
                              ![t].kette[m] = @ \o NeueSiegel(l, es)]
    /\ UNCHANGED <<mitSavepoint, protokoll, siegel, belege, zaehler, letzteId, vergeben>>

(* The savepoint is released; its entries belong to the transaction. *)
SavepointFertig(t) ==
    /\ tx[t].phase = "freigabe" /\ tx[t].arbeit = {}
    /\ tx' = [tx EXCEPT ![t].phase = "offen", ![t].neu = @ \cup tx[t].sp, ![t].sp = {}]
    /\ UNCHANGED <<mitSavepoint, protokoll, siegel, belege, zaehler, letzteId, vergeben>>

-----------------------------------------------------------------------------
(* The row of a counter is locked from the upsert to the end of the transaction. *)
HaeltZaehler(u, b) == tx[u].beleg.bereich = b /\ ~tx[u].beleg.vonHand
ZaehlerFrei(t, b) == \A u \in Transaktionen \ {t} : ~HaeltZaehler(u, b)

Ohne(t) == tx[t].phase = "offen" /\ tx[t].beleg = KeinBeleg

\* Mutant: the number of documents plus one, without a counter.
GezaehlteNummer(b) == Cardinality(belege[b]) + 1

NaechsteNummer(b) == zaehler[b]

(* _vergebe_nummer: numbers given by hand are skipped, at most MaxVersuche times; documents in
   the recycle bin count, what others have not committed does not. *)
Freie(b) == {n \in NaechsteNummer(b)..(NaechsteNummer(b) + MaxVersuche - 1) :
               b[2] \notin VonHand \/ n \notin belege[b]}

NimmNummer(t, b) ==
    /\ Ohne(t) /\ b[1] = Heimat[t] /\ ZaehlerFrei(t, b)
    /\ Freie(b) # {} /\ Min(Freie(b)) <= MaxNummer
    /\ tx' = [tx EXCEPT ![t].beleg = [bereich |-> b, nummer |-> Min(Freie(b)), vonHand |-> FALSE]]
    /\ UNCHANGED <<mitSavepoint, protokoll, siegel, belege, zaehler, letzteId, vergeben>>

(* RuntimeError: the request fails and the counter falls back. *)
NummerScheitert(t, b) ==
    /\ Ohne(t) /\ b[1] = Heimat[t] /\ ZaehlerFrei(t, b) /\ Freie(b) = {}
    /\ tx' = [tx EXCEPT ![t] = [NeueSitzung EXCEPT !.phase = "fertig"]]
    /\ UNCHANGED <<mitSavepoint, protokoll, siegel, belege, zaehler, letzteId, vergeben>>

(* POST /api/kunden or /api/vorgaenge with a number; it is inserted at the flush, so that the
   unique constraint makes an equal number of another transaction wait, and then fail. *)
NimmVonHand(t, b, n) ==
    /\ Ohne(t) /\ b[1] = Heimat[t] /\ b[2] \in VonHand /\ n \notin belege[b]
    /\ \A u \in Transaktionen : ~(tx[u].beleg.bereich = b /\ tx[u].beleg.nummer = n)
    /\ tx' = [tx EXCEPT ![t].beleg = [bereich |-> b, nummer |-> n, vonHand |-> TRUE]]
    /\ UNCHANGED <<mitSavepoint, protokoll, siegel, belege, zaehler, letzteId, vergeben>>

(* The unique constraint of the documents at the commit. *)
Doppelt(t) == LET b == tx[t].beleg IN b # KeinBeleg /\ b.nummer \in belege[b.bereich]

(* The commit: get_db, after the seals. *)
Commit(t) ==
    LET s == tx[t]  b == s.beleg IN
    /\ s.phase = "ende" /\ s.arbeit = {} /\ ~Doppelt(t)
    /\ protokoll' = protokoll \cup s.neu
    /\ siegel' = [m \in Mandanten |-> Sichtbar(t, m)]
    /\ IF b = KeinBeleg THEN UNCHANGED <<belege, zaehler, vergeben>>
       ELSE /\ belege' = [belege EXCEPT ![b.bereich] = @ \cup {b.nummer}]
            /\ IF b.vonHand THEN UNCHANGED <<zaehler, vergeben>>
               ELSE /\ zaehler' = [zaehler EXCEPT ![b.bereich] = b.nummer + 1]
                    /\ vergeben' = [vergeben EXCEPT ![b.bereich] =
                         [nummern |-> @.nummern \cup {b.nummer},
                          oft |-> @.oft \/ b.nummer \in @.nummern,
                          gesprungen |-> @.gesprungen \cup (zaehler[b.bereich]..(b.nummer - 1))]]
    /\ tx' = [tx EXCEPT ![t] = [NeueSitzung EXCEPT !.phase = "fertig"]]
    /\ UNCHANGED <<mitSavepoint, letzteId>>

(* Whom a transaction that cannot go on waits for: the holder of a seal lock it needs, or of
   the counter it wants next (any transaction without a number may still want one). *)
Wartet(t) ==
    {u \in Transaktionen \ {t} :
       \/ tx[t].arbeit # {} /\ ZuSiegeln(t) \in tx[u].schloss
       \/ Ohne(t) /\ \E b \in Bereich : b[1] = Heimat[t] /\ HaeltZaehler(u, b)}

(* t is in a circle of transactions each of which waits for the next one. *)
ImKreis(t) ==
    \E S \in SUBSET Transaktionen : t \in S /\ \E f \in Bijection(S, S) : \A u \in S : f[u] \in Wartet(u)

(* PostgreSQL ends one transaction of a circle. *)
VerklemmungGeloest(t) ==
    /\ ImKreis(t)
    /\ tx' = [tx EXCEPT ![t] = [NeueSitzung EXCEPT !.phase = "fertig"]]
    /\ UNCHANGED <<mitSavepoint, protokoll, siegel, belege, zaehler, letzteId, vergeben>>

\* Mutant: the seal locks belong to the connection and outlast the transaction.
AbgebrochenMitSchloss(t) ==
    /\ tx[t].phase \notin {"ruht", "fertig"}
    /\ tx' = [tx EXCEPT ![t] = [NeueSitzung EXCEPT !.phase = "fertig", !.schloss = tx[t].schloss]]
    /\ UNCHANGED <<mitSavepoint, protokoll, siegel, belege, zaehler, letzteId, vergeben>>

(* Any other failure before the commit. *)
Abgebrochen(t) ==
    /\ tx[t].phase \notin {"ruht", "fertig"}
    /\ tx' = [tx EXCEPT ![t] = [NeueSitzung EXCEPT !.phase = "fertig"]]
    /\ UNCHANGED <<mitSavepoint, protokoll, siegel, belege, zaehler, letzteId, vergeben>>

(* purge of papierkorb_service.py: the number is free again for the unique constraint. *)
Purge(b, n) ==
    /\ n \in belege[b] /\ belege' = [belege EXCEPT ![b] = @ \ {n}]
    /\ UNCHANGED <<mitSavepoint, protokoll, siegel, zaehler, tx, letzteId, vergeben>>

PrNext ==
    \/ \E t \in Transaktionen :
         \/ Beginnt(t) \/ SavepointBeginnt(t) \/ SavepointZurueck(t) \/ SavepointFrei(t)
         \/ SavepointFertig(t) \/ Endet(t) \/ Versiegele(t) \/ Commit(t)
         \/ VerklemmungGeloest(t) \/ Abgebrochen(t)
         \/ \E m \in Mandanten : Protokolliere(t, m)
         \/ \E b \in Bereich : NimmNummer(t, b) \/ NummerScheitert(t, b)
         \/ \E b \in Bereich, n \in 1..MaxNummer : NimmVonHand(t, b, n)
    \/ \E b \in Bereich : b[2] \in VonHand /\ \E n \in belege[b] : Purge(b, n)

(* The steps of a transaction that need nobody from outside. *)
PrSchritt(t) ==
    \/ SavepointZurueck(t) \/ SavepointFrei(t) \/ SavepointFertig(t) \/ Endet(t) \/ Versiegele(t)
    \/ Commit(t) \/ VerklemmungGeloest(t) \/ (Doppelt(t) /\ Abgebrochen(t))

PrSpec == PrInit /\ [][PrNext]_prVars

-----------------------------------------------------------------------------
(* kette_pruefen finds nothing: the seals of a tenant are numbered without a gap and each
   carries the hash of the one before, whatever transactions overlap. *)
KetteStimmt ==
    \A m \in Mandanten : \A i \in DOMAIN siegel[m] :
        LET s == siegel[m][i]
            vor == IF i = 1 THEN <<>> ELSE siegel[m][i - 1].hash
        IN s.seq = i /\ s.vorgaenger = vor /\ s.hash = Append(vor, s.eintrag[1])

(* No change without a log: every committed entry has exactly one seal, and every seal an
   entry, also when a savepoint was rolled back or released in between. *)
AllesGesiegelt ==
    /\ protokoll = UNION {{siegel[m][i].eintrag : i \in DOMAIN siegel[m]} : m \in Mandanten}
    /\ \A m \in Mandanten : Cardinality({siegel[m][i].eintrag : i \in DOMAIN siegel[m]}) = Len(siegel[m])

(* A number the counter has given is never given again, not even after the document was
   purged; a range without numbers given by hand has no gaps, whatever is rolled back. *)
NummernStimmen ==
    \A b \in Bereich :
        /\ ~vergeben[b].oft
        /\ vergeben[b].nummern \cup vergeben[b].gesprungen = 1..(zaehler[b] - 1)
        /\ b[2] \notin VonHand => vergeben[b].gesprungen = {}

(* Transactions never wait in a circle, however many there are, since the seal locks are
   taken last and in a fixed order (docstring of audit_service.py).  A savepoint that is
   released after an entry breaks this: its seals take the lock in the middle. *)
KeineVerklemmung == ~mitSavepoint => \A t \in Transaktionen : ~ImKreis(t)

(* A step of t alone is possible: to end the request or the savepoint, to seal under a lock that
   is free, to finish when all is sealed, or to be ended as one of a circle. *)
KannWeiter(t) ==
    \/ tx[t].phase \in {"offen", "savepoint"}
    \/ tx[t].arbeit # {} /\ SchlossFrei(t, ZuSiegeln(t))
    \/ tx[t].phase \in {"freigabe", "ende"} /\ tx[t].arbeit = {}
    \/ ImKreis(t)

(* Nobody waits for ever: whatever locks are held, with savepoints too, one of the transactions
   under way can go on.  A transaction has finitely many steps, so that all of them come to
   their end. *)
EinerGehtWeiter ==
    (\E t \in Transaktionen : tx[t].phase \notin {"ruht", "fertig"})
        => \E t \in Transaktionen : KannWeiter(t)

(* The audit log and the number ranges: an unbroken chain of seals over every entry, numbers
   given once, no deadlock, and nobody waits for ever (audit_service.py, numbering_service.py). *)
ProtokollStimmt ==
    /\ PrTyp /\ KetteStimmt /\ AllesGesiegelt /\ NummernStimmen
    /\ KeineVerklemmung /\ EinerGehtWeiter

(* What EinerGehtWeiter means by going on is a step of the transaction. *)
WeiterIstSchritt == \A t \in Transaktionen : KannWeiter(t) => ENABLED PrSchritt(t)

=============================================================================
