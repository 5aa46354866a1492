------------------------------- MODULE Zyklen -------------------------------
(***************************************************************************)
(* Recurring jobs: the two schedulers that open a job for a due target     *)
(* (run_pruefzyklen_scheduler, run_dauerauftraege_scheduler), closing a    *)
(* job (close_vorgang) and the requests on jobs, inspection cycles and     *)
(* standing orders (vorgaenge.py, pruefzyklen.py, dauerauftraege.py).      *)
(*                                                                         *)
(* A target ("Ziel") is a Pruefzyklus or the DauerauftragZiel of one       *)
(* standing order; it points to the job it has open.  The scheduler locks  *)
(* its rows with SKIP LOCKED until it commits; a PATCH on a job reads the  *)
(* row, checks it and writes later, without a lock.  Dates are days.       *)
(***************************************************************************)
EXTENDS Integers, FiniteSets

CONSTANTS
    Ziele,
    Pruefzyklen,    \* the targets that are inspection cycles
    Vorgaenge,      \* jobs the schedulers can still open
    Scheduler,      \* workers
    Patcher,        \* requests on a job under way at the same time
    KeinVerweis,
    Modus,          \* of the standing order: "rollierend" or "fest"
    Intervall,
    Frueh,          \* toleranz_frueh_tage, and the lead time of inspections
    MaxTag          \* bound: days simulated

ASSUME ZyklenAnnahme ==
    /\ Pruefzyklen \subseteq Ziele
    /\ Modus \in {"rollierend", "fest"}
    /\ Intervall \in Nat \ {0} /\ Frueh \in Nat /\ MaxTag \in Nat
    /\ KeinVerweis \notin Vorgaenge

VARIABLES
    tag,
    ziel,       \* target -> next due day and its open job
    vorgang,    \* job -> status, recycle bin, target that opened it
    auftrag,    \* the standing order: active, in the recycle bin
    laeufe,     \* worker -> targets locked by its open scheduler run
    patch,      \* request -> the job and the new status it is about to write
    ueberholt   \* history: two requests on one job were under way together

zyVars == <<tag, ziel, vorgang, auftrag, laeufe, patch, ueberholt>>

Status == {"neu", "in_arbeit", "abgeschlossen", "storniert"}
Geschlossen == {"abgeschlossen", "storniert"}     \* VORGANG_STATUS_GESCHLOSSEN
KeinVorgang == [status |-> "keiner"]
KeinPatch == [v |-> KeinVerweis, neu |-> "neu"]

ZyTyp ==
    /\ tag \in 0..MaxTag
    /\ ziel \in [Ziele -> [naechste : Nat, offen : Vorgaenge \cup {KeinVerweis}]]
    /\ vorgang \in [Vorgaenge -> {KeinVorgang} \cup
         [status : Status, ziel : Ziele, geloescht : BOOLEAN, geloest : BOOLEAN]]
    /\ auftrag \in [aktiv : BOOLEAN, geloescht : BOOLEAN]
    /\ laeufe \in [Scheduler -> SUBSET Ziele]
    /\ patch \in [Patcher -> [v : Vorgaenge \cup {KeinVerweis}, neu : Status]]
    /\ ueberholt \in BOOLEAN

ZyInit ==
    /\ tag = 0
    /\ ziel = [z \in Ziele |-> [naechste |-> Intervall, offen |-> KeinVerweis]]
    /\ vorgang = [v \in Vorgaenge |-> KeinVorgang]
    /\ auftrag = [aktiv |-> TRUE, geloescht |-> FALSE]
    /\ laeufe = [s \in Scheduler |-> {}]
    /\ patch = [p \in Patcher |-> KeinPatch]
    /\ ueberholt = FALSE

FreieVorgaenge == {v \in Vorgaenge : vorgang[v] = KeinVorgang}
Besteht(v) == vorgang[v] # KeinVorgang
Aktiv(z) == z \in Pruefzyklen \/ auftrag.aktiv

-----------------------------------------------------------------------------
(* The schedulers: due targets without an open job that nobody else holds. *)
Faellig(z) == Aktiv(z) /\ ziel[z].naechste - Frueh <= tag /\ ziel[z].offen = KeinVerweis

(* Mutant: the rows are selected without SKIP LOCKED and re-reading.       *)
LaufLiestOhneSperre(s) ==
    /\ laeufe[s] = {}
    /\ LET frei == {z \in Ziele : Faellig(z)}
       IN  /\ frei # {} /\ Cardinality(frei) <= Cardinality(FreieVorgaenge)
           /\ laeufe' = [laeufe EXCEPT ![s] = frei]
    /\ UNCHANGED <<tag, ziel, vorgang, auftrag, patch, ueberholt>>

LaufLiest(s) ==
    /\ laeufe[s] = {}
    /\ LET frei == {z \in Ziele : Faellig(z)} \ UNION {laeufe[t] : t \in Scheduler \ {s}}
       IN  /\ frei # {} /\ Cardinality(frei) <= Cardinality(FreieVorgaenge)
           /\ laeufe' = [laeufe EXCEPT ![s] = frei]
    /\ UNCHANGED <<tag, ziel, vorgang, auftrag, patch, ueberholt>>

(* One job for every locked target, in one transaction.                    *)
LaufSchreibt(s) ==
    /\ laeufe[s] # {}
    /\ \E neu \in [laeufe[s] -> FreieVorgaenge] :
           /\ \A y, z \in laeufe[s] : neu[y] = neu[z] => y = z
           /\ ziel' = [z \in Ziele |-> IF z \in laeufe[s] THEN [ziel[z] EXCEPT !.offen = neu[z]]
                                       ELSE ziel[z]]
           /\ vorgang' = [v \in Vorgaenge |->
                IF \E z \in laeufe[s] : neu[z] = v
                THEN [status |-> "neu", geloescht |-> FALSE, geloest |-> FALSE,
                      ziel |-> CHOOSE z \in laeufe[s] : neu[z] = v]
                ELSE vorgang[v]]
    /\ laeufe' = [laeufe EXCEPT ![s] = {}]
    /\ UNCHANGED <<tag, auftrag, patch, ueberholt>>

LaufScheitert(s) ==
    /\ laeufe[s] # {}
    /\ laeufe' = [laeufe EXCEPT ![s] = {}]
    /\ UNCHANGED <<tag, ziel, vorgang, auftrag, patch, ueberholt>>

-----------------------------------------------------------------------------
(* close_vorgang: the target that points to the job gets its next due day  *)
(* and lets go of the job.  "rollierend" counts from today, "fest" from    *)
(* the planned day; an inspection always from the day it was made.         *)
(* Mutant: the planned day is ignored.                                     *)
BasisImmerHeute(z) == tag
Basis(z) == IF z \in Pruefzyklen \/ Modus = "rollierend" THEN tag ELSE ziel[z].naechste

ZieleNachAbschluss(v) ==
    [z \in Ziele |-> IF ziel[z].offen = v THEN [naechste |-> Basis(z) + Intervall, offen |-> KeinVerweis]
                     ELSE ziel[z]]

(* update_vorgang, and the signature and the partner portal with the       *)
(* status "abgeschlossen": read and checked ...                            *)
PatchLiest(p, v, neu) ==
    /\ patch[p].v = KeinVerweis
    /\ Besteht(v) /\ ~vorgang[v].geloescht /\ vorgang[v].status \notin Geschlossen
    /\ neu # vorgang[v].status
    /\ patch' = [patch EXCEPT ![p] = [v |-> v, neu |-> neu]]
    /\ ueberholt' = (ueberholt \/ \E q \in Patcher \ {p} : patch[q].v = v)
    /\ UNCHANGED <<tag, ziel, vorgang, auftrag, laeufe>>

(* ... and written, whatever the row says by now.                          *)
PatchSchreibt(p) ==
    /\ patch[p].v # KeinVerweis
    /\ vorgang' = [vorgang EXCEPT ![patch[p].v].status = patch[p].neu]
    /\ ziel' = IF patch[p].neu = "abgeschlossen" THEN ZieleNachAbschluss(patch[p].v) ELSE ziel
    /\ patch' = [patch EXCEPT ![p] = KeinPatch]
    /\ UNCHANGED <<tag, auftrag, laeufe, ueberholt>>

(* Mutant: taking a job over writes a status that is not in the list.      *)
UebernimmUnbekannt(p, v) == Besteht(v) /\ vorgang[v].status = "neu" /\ PatchLiest(p, v, "uebernommen")

(* uebernehmen: a new job goes to "in_arbeit".                             *)
Uebernimm(p, v) == Besteht(v) /\ vorgang[v].status = "neu" /\ PatchLiest(p, v, "in_arbeit")

(* delete_vorgang and restore: the pointer of the target is left alone.    *)
LoescheVorgang(v) ==
    /\ Besteht(v)
    /\ vorgang' = [vorgang EXCEPT ![v].geloescht = ~@]
    /\ UNCHANGED <<tag, ziel, auftrag, laeufe, patch, ueberholt>>

-----------------------------------------------------------------------------
Loese(z) == [v \in Vorgaenge |-> IF ziel[z].offen = v THEN [vorgang[v] EXCEPT !.geloest = TRUE]
                                 ELSE vorgang[v]]

(* update_pruefzyklus with letzte_pruefung_am: an inspection made without  *)
(* the job; its job stays open and loses the connection.                   *)
TragePruefungNach(z) ==
    /\ z \in Pruefzyklen
    /\ z \notin UNION {laeufe[s] : s \in Scheduler}
    /\ ziel[z].offen # KeinVerweis
    /\ ziel' = [ziel EXCEPT ![z] = [naechste |-> tag + Intervall, offen |-> KeinVerweis]]
    /\ vorgang' = Loese(z)
    /\ UNCHANGED <<tag, auftrag, laeufe, patch, ueberholt>>

(* set_dauerauftrag_anlagen: a target removed and added again starts anew, *)
(* an open job of it stays but loses the connection.                       *)
TauscheAnlage(z) ==
    /\ z \notin Pruefzyklen /\ ~auftrag.geloescht
    /\ z \notin UNION {laeufe[s] : s \in Scheduler}
    /\ ziel[z].offen # KeinVerweis
    /\ ziel' = [ziel EXCEPT ![z] = [naechste |-> tag + Intervall, offen |-> KeinVerweis]]
    /\ vorgang' = Loese(z)
    /\ UNCHANGED <<tag, auftrag, laeufe, patch, ueberholt>>

(* update_dauerauftrag, delete_dauerauftrag and restore.                   *)
SchalteAuftrag ==
    /\ ~auftrag.geloescht
    /\ auftrag' = [auftrag EXCEPT !.aktiv = ~@]
    /\ UNCHANGED <<tag, ziel, vorgang, laeufe, patch, ueberholt>>

PapierkorbAuftrag ==
    /\ auftrag' = [auftrag EXCEPT !.geloescht = ~@]
    /\ UNCHANGED <<tag, ziel, vorgang, laeufe, patch, ueberholt>>

NaechsterTag ==
    /\ tag < MaxTag
    /\ tag' = tag + 1
    /\ UNCHANGED <<ziel, vorgang, auftrag, laeufe, patch, ueberholt>>

-----------------------------------------------------------------------------
ZyNext ==
    \/ \E s \in Scheduler : LaufLiest(s) \/ LaufSchreibt(s) \/ LaufScheitert(s)
    \/ \E p \in Patcher, v \in Vorgaenge :
         Uebernimm(p, v) \/ \E neu \in Status : PatchLiest(p, v, neu)
    \/ \E p \in Patcher : PatchSchreibt(p)
    \/ \E v \in Vorgaenge : LoescheVorgang(v)
    \/ \E z \in Ziele : TragePruefungNach(z) \/ TauscheAnlage(z)
    \/ SchalteAuftrag \/ PapierkorbAuftrag \/ NaechsterTag

(* The runs come every hour and fail only now and then.                    *)
ZyFairness == \A s \in Scheduler : WF_zyVars(LaufLiest(s)) /\ SF_zyVars(LaufSchreibt(s))

ZySpec == ZyInit /\ [][ZyNext]_zyVars /\ ZyFairness

-----------------------------------------------------------------------------
(* "Pro Ziel nur einen gleichzeitig offenen": however many schedulers run, *)
(* a target has at most one open job that was not cut loose by hand.  Of   *)
(* two requests on one job the later may open again what the earlier has   *)
(* closed, so it holds as long as none overlap.                            *)
OffeneVorgaenge(z) ==
    {v \in Vorgaenge : Besteht(v) /\ vorgang[v].ziel = z /\ ~vorgang[v].geloest
                             /\ vorgang[v].status \notin Geschlossen}

JeZielEinOffener == ueberholt \/ \A z \in Ziele : Cardinality(OffeneVorgaenge(z)) <= 1

(* A closed job never blocks its target, also when requests overlap.       *)
AbschlussGibtFrei ==
    \A z \in Ziele : ziel[z].offen # KeinVerweis => vorgang[ziel[z].offen].status # "abgeschlossen"

(* A target has one open job at most, and never a closed one as its open.  *)
ZyklenSicher == JeZielEinOffener /\ AbschlussGibtFrei

(* "fest": the due days stay in the calendar rhythm of the first one,      *)
(* whenever the jobs are closed and the schedulers run (no target changed  *)
(* by hand).                                                               *)
RhythmusBleibt ==
    [][\A z \in Ziele \ Pruefzyklen :
         Modus = "fest" /\ ziel'[z].naechste # ziel[z].naechste /\ patch' # patch =>
             ziel'[z].naechste = ziel[z].naechste + Intervall]_zyVars

(* A due target of an active order gets its job: no run is blocked for     *)
(* good by another one's locks, and none is left out by a failed run.      *)
FaelligBekommtVorgang ==
    \A z \in Ziele : []<>(~Faellig(z) \/ Cardinality(FreieVorgaenge) < Cardinality(Ziele))
=============================================================================
