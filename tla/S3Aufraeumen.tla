---------------------------- MODULE S3Aufraeumen ----------------------------
(***************************************************************************)
(* Removing the objects of a purged record: services/s3_aufraeumen_service *)
(* with purge() of papierkorb_service.py.                                  *)
(*                                                                         *)
(* The purge stores a deletion order in its own transaction.  After the    *)
(* commit background tasks and workers (a "Raumpfleger" here) take due     *)
(* orders with SKIP LOCKED and call the object store while the rows stay   *)
(* locked.  A failed order waits and is given up after MAX_VERSUCHE.       *)
(***************************************************************************)
EXTENDS Integers, FiniteSets

CONSTANTS
    Saetze,          \* records with objects in the store
    Raumpfleger,
    MaxVersuche,     \* MAX_VERSUCHE
    MaxAusfaelle     \* bound: crashes

ASSUME AufraeumAnnahme == MaxVersuche \in Nat \ {0} /\ MaxAusfaelle \in Nat

VARIABLES
    satz,       \* record -> "da", "purge" (deleted in an open transaction) or "weg"
    objekte,    \* records whose objects are in the store
    auftrag,    \* record -> deletion order
    pflege,     \* process -> orders it holds and their results so far
    ausfaelle

s3Vars == <<satz, objekte, auftrag, pflege, ausfaelle>>

KeinAuftrag == [status |-> "keiner", versuche |-> 0, wartet |-> FALSE]

AuftragTyp == [status : {"keiner", "offen", "erledigt", "fehler"},
               versuche : 0..MaxVersuche, wartet : BOOLEAN]

PflegeTyp == [offen : SUBSET Saetze, geloescht : SUBSET Saetze, gescheitert : SUBSET Saetze]

S3Typ ==
    /\ satz \in [Saetze -> {"da", "purge", "weg"}]
    /\ objekte \subseteq Saetze
    /\ auftrag \in [Saetze -> AuftragTyp]
    /\ pflege \in [Raumpfleger -> PflegeTyp]
    /\ ausfaelle \in 0..MaxAusfaelle

S3Init ==
    /\ satz = [s \in Saetze |-> "da"]
    /\ objekte = Saetze
    /\ auftrag = [s \in Saetze |-> KeinAuftrag]
    /\ pflege = [r \in Raumpfleger |-> [offen |-> {}, geloescht |-> {}, gescheitert |-> {}]]
    /\ ausfaelle = 0

Gehalten(r) == pflege[r].offen \cup pflege[r].geloescht \cup pflege[r].gescheitert
Ruht(r) == Gehalten(r) = {}
FremdGehalten(r) == UNION {Gehalten(q) : q \in Raumpfleger \ {r}}

\* Mutant: the objects are removed before the commit.
PurgeBeginnMitObjekten(s) ==
    /\ satz[s] = "da"
    /\ satz' = [satz EXCEPT ![s] = "purge"]
    /\ objekte' = objekte \ {s}
    /\ UNCHANGED <<auftrag, pflege, ausfaelle>>

(* purge: DELETE and the order in one transaction ... *)
PurgeBeginn(s) ==
    /\ satz[s] = "da"
    /\ satz' = [satz EXCEPT ![s] = "purge"]
    /\ UNCHANGED <<objekte, auftrag, pflege, ausfaelle>>

PurgeCommit(s) ==
    /\ satz[s] = "purge"
    /\ satz' = [satz EXCEPT ![s] = "weg"]
    /\ auftrag' = [auftrag EXCEPT ![s].status = "offen"]
    /\ UNCHANGED <<objekte, pflege, ausfaelle>>

(* ... which a foreign key or a locked document may roll back. *)
PurgeRollback(s) ==
    /\ satz[s] = "purge"
    /\ satz' = [satz EXCEPT ![s] = "da"]
    /\ UNCHANGED <<objekte, auftrag, pflege, ausfaelle>>

(* verarbeite: due orders that nobody else holds. *)
Faellig(r) ==
    {s \in Saetze : auftrag[s].status = "offen" /\ ~auftrag[s].wartet} \ FremdGehalten(r)

VerarbeiteBeginn(r) ==
    /\ Ruht(r) /\ Faellig(r) # {}
    /\ pflege' = [pflege EXCEPT ![r].offen = Faellig(r)]
    /\ UNCHANGED <<satz, objekte, auftrag, ausfaelle>>

LoeschePrefix(r, s) ==
    /\ s \in pflege[r].offen
    /\ objekte' = objekte \ {s}
    /\ pflege' = [pflege EXCEPT ![r].offen = @ \ {s}, ![r].geloescht = @ \cup {s}]
    /\ UNCHANGED <<satz, auftrag, ausfaelle>>

(* The store raises: object lock, not reachable, or removed in part only. *)
LoeschePrefixScheitert(r, s) ==
    /\ s \in pflege[r].offen
    /\ pflege' = [pflege EXCEPT ![r].offen = @ \ {s}, ![r].gescheitert = @ \cup {s}]
    /\ UNCHANGED <<satz, objekte, auftrag, ausfaelle>>

\* Mutant: off by one at the last attempt.
NachFehlschlagSpaeter(a) ==
    [status |-> IF a.versuche + 1 > MaxVersuche THEN "fehler" ELSE "offen",
     versuche |-> a.versuche + 1, wartet |-> TRUE]

NachFehlschlag(a) ==
    [status |-> IF a.versuche + 1 >= MaxVersuche THEN "fehler" ELSE "offen",
     versuche |-> a.versuche + 1, wartet |-> TRUE]

VerarbeiteCommit(r) ==
    /\ ~Ruht(r) /\ pflege[r].offen = {}
    /\ auftrag' = [s \in Saetze |->
         CASE s \in pflege[r].geloescht -> [auftrag[s] EXCEPT !.status = "erledigt"]
           [] s \in pflege[r].gescheitert -> NachFehlschlag(auftrag[s])
           [] OTHER -> auftrag[s]]
    /\ pflege' = [pflege EXCEPT ![r] = [offen |-> {}, geloescht |-> {}, gescheitert |-> {}]]
    /\ UNCHANGED <<satz, objekte, ausfaelle>>

(* The process dies: the rows are as before, the objects are not. *)
PflegeStirbt(r) ==
    /\ ~Ruht(r) /\ ausfaelle < MaxAusfaelle
    /\ pflege' = [pflege EXCEPT ![r] = [offen |-> {}, geloescht |-> {}, gescheitert |-> {}]]
    /\ ausfaelle' = ausfaelle + 1
    /\ UNCHANGED <<satz, objekte, auftrag>>

(* naechster_versuch_am is reached. *)
WartezeitEndet(s) ==
    /\ auftrag[s].status = "offen" /\ auftrag[s].wartet
    /\ auftrag' = [auftrag EXCEPT ![s].wartet = FALSE]
    /\ UNCHANGED <<satz, objekte, pflege, ausfaelle>>

PflegeSchritt(r) ==
    \/ VerarbeiteBeginn(r) \/ VerarbeiteCommit(r)
    \/ \E s \in Saetze : LoeschePrefix(r, s) \/ LoeschePrefixScheitert(r, s)

S3Next ==
    \/ \E r \in Raumpfleger : PflegeSchritt(r) \/ PflegeStirbt(r)
    \/ \E s \in Saetze : PurgeBeginn(s) \/ PurgeCommit(s) \/ PurgeRollback(s) \/ WartezeitEndet(s)

S3Fairness ==
    /\ \A r \in Raumpfleger : WF_s3Vars(PflegeSchritt(r))
    /\ \A s \in Saetze : WF_s3Vars(WartezeitEndet(s))

S3Spec == S3Init /\ [][S3Next]_s3Vars /\ S3Fairness

-----------------------------------------------------------------------------
(* "bei einem Rollback verschwindet nichts": no object goes before the purge of its record
   is committed. *)
ObjekteNurNachCommit == \A s \in Saetze : satz[s] # "weg" => s \in objekte

(* An order is reported as done only when the objects are gone, though a process may die
   between the call to the store and its commit and two may be at it. *)
ErledigtHeisstWeg == \A s \in Saetze : auftrag[s].status = "erledigt" => s \notin objekte

(* Nothing is retried for ever or forgotten: every order is done or ends in the list of
   failures that an administrator sees. *)
LoeschauftragEndet ==
    \A s \in Saetze : []<>(satz[s] = "weg" => auftrag[s].status \in {"erledigt", "fehler"})
=============================================================================
