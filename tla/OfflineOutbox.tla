---------------------------- MODULE OfflineOutbox ----------------------------
(***************************************************************************)
(* The queue of the field app: offline/outbox.ts, its callers in           *)
(* VorgangDetailPage.tsx and NewVorgangPage.tsx, apiFetch in client.ts,    *)
(* and the endpoints it talks to (vorgang_events.py, vorgaenge.py).        *)
(*                                                                         *)
(* What a user does is first sent directly; only when the network fails it *)
(* goes to a queue in IndexedDB, which every open tab works off.  The      *)
(* queue is shared by the tabs, the flag "syncing" and the access token    *)
(* are not.  A request that ran into the client's time limit may still     *)
(* reach the server.  One job is modelled; the status change queued for it *)
(* closes it.                                                              *)
(***************************************************************************)
EXTENDS Integers, Sequences

CONSTANTS
    Eintraege,      \* things the users do on the device
    Art,            \* Eintraege -> "kommentar", "foto", "vorgang" or "status"
    Tabs,
    Nutzer,
    None,
    MaxAusfaelle    \* bound: failed sync requests, expired sessions, closed tabs, logouts

ASSUME OutboxAnnahme ==
    /\ Art \in [Eintraege -> {"kommentar", "foto", "vorgang", "status"}]
    /\ Tabs \cap Eintraege = {} /\ None \notin Nutzer
    /\ MaxAusfaelle \in Nat

VARIABLES
    urheber,      \* entry -> the user who did it, None before
    lager,        \* IndexedDB: entry -> "leer", "wartend" or "abgelehnt" (failed)
    reihe,        \* entries in the order they were queued (created_at)
    token,        \* tab -> user of its access token
    liste,        \* tab -> the items its syncOutbox still has to work off
    anfrage,      \* tab (queue) or entry (direct attempt) -> its request
    nachzuegler,  \* requests the client has given up
    kopien,       \* server: rows stored for an entry
    schluessel,   \* server: client_uuids stored for an entry
    offen,        \* server: the job is open
    beendet,      \* entries given up: refused to the user's face, discarded, wiped
    ausfaelle

offVars == <<urheber, lager, reihe, token, liste, anfrage, nachzuegler, kopien, schluessel,
             offen, beendet, ausfaelle>>
geraet == <<urheber, lager, reihe, token, liste, beendet>>
server == <<kopien, schluessel, offen>>

Schluessel == {"direkt", "schlange", "ohne"}
Frei == [phase |-> "frei"]
Anfragen == [phase : {"unterwegs", "schreibt", "ok", "abgelehnt"}, e : Eintraege,
             schluessel : Schluessel, nutzer : Nutzer \cup {None}]

OffTyp ==
    /\ urheber \in [Eintraege -> Nutzer \cup {None}]
    /\ lager \in [Eintraege -> {"leer", "wartend", "abgelehnt"}]
    /\ reihe \in Seq(Eintraege)
    /\ token \in [Tabs -> Nutzer \cup {None}]
    /\ liste \in [Tabs -> SUBSET Eintraege]
    /\ anfrage \in [Tabs \cup Eintraege -> Anfragen \cup {Frei}]
    /\ nachzuegler \subseteq Anfragen
    /\ kopien \in [Eintraege -> Nat]
    /\ schluessel \in [Eintraege -> SUBSET Schluessel]
    /\ offen \in BOOLEAN
    /\ beendet \subseteq Eintraege
    /\ ausfaelle \in 0..MaxAusfaelle

OffInit ==
    /\ urheber = [e \in Eintraege |-> None]
    /\ lager = [e \in Eintraege |-> "leer"]
    /\ reihe = <<>>
    /\ token \in [Tabs -> Nutzer]
    /\ \A s, t \in Tabs : token[s] = token[t]
    /\ liste = [t \in Tabs |-> {}]
    /\ anfrage = [p \in Tabs \cup Eintraege |-> Frei]
    /\ nachzuegler = {}
    /\ kopien = [e \in Eintraege |-> 0]
    /\ schluessel = [e \in Eintraege |-> {}]
    /\ offen = TRUE
    /\ beendet = {}
    /\ ausfaelle = 0

(* Mutant: a queued photo gets a client_uuid of its own.                   *)
SchlangeSchluesselNeu(e) == IF Art[e] = "status" THEN "ohne" ELSE "schlange"

(* The client_uuid sent with an entry.  fotoMutation draws it once and     *)
(* hands it to queueFoto; commentMutation draws one and queueKommentar     *)
(* another; a new job and a status change carry none at the first attempt. *)
DirektSchluessel(e) == IF Art[e] \in {"kommentar", "foto"} THEN "direkt" ELSE "ohne"
SchlangeSchluessel(e) ==
    CASE Art[e] = "foto"   -> "direkt"
      [] Art[e] = "status" -> "ohne"
      [] OTHER             -> "schlange"

Anfrage(e, s, n) == [phase |-> "unterwegs", e |-> e, schluessel |-> s, nutzer |-> n]
Ausfall == ausfaelle < MaxAusfaelle /\ ausfaelle' = ausfaelle + 1

-----------------------------------------------------------------------------
(* The server.  create_event, upload_foto and upload_dokument first look   *)
(* whether the job is open, then whether the client_uuid is known;         *)
(* create_vorgang only the latter; a request without a token is refused.   *)
Bekannt(q) == q.schluessel # "ohne" /\ q.schluessel \in schluessel[q.e]

Gelesen(q) ==
    IF q.nutzer = None \/ (Art[q.e] # "vorgang" /\ ~offen) THEN "abgelehnt"
    ELSE IF Bekannt(q) THEN "ok" ELSE "schreibt"

(* ... and write: the unique index turns a second row down.                *)
Geschrieben(q) == IF Bekannt(q) THEN "abgelehnt" ELSE "ok"

Speichere(q) ==
    IF Bekannt(q) THEN UNCHANGED server
    ELSE /\ kopien' = [kopien EXCEPT ![q.e] = @ + 1]
         /\ schluessel' = [schluessel EXCEPT ![q.e] = @ \cup {q.schluessel}]
         /\ offen' = (offen /\ Art[q.e] # "status")

ServerLiest(p) ==
    /\ anfrage[p].phase = "unterwegs"
    /\ anfrage' = [anfrage EXCEPT ![p].phase = Gelesen(anfrage[p])]
    /\ UNCHANGED <<geraet, server, nachzuegler, ausfaelle>>

ServerSchreibt(p) ==
    /\ anfrage[p].phase = "schreibt"
    /\ Speichere(anfrage[p])
    /\ anfrage' = [anfrage EXCEPT ![p].phase = Geschrieben(anfrage[p])]
    /\ UNCHANGED <<geraet, nachzuegler, ausfaelle>>

(* A request given up by the client arrives late, or never.                *)
NachzueglerLiest(q) ==
    /\ q.phase = "unterwegs"
    /\ nachzuegler' = (nachzuegler \ {q}) \cup
         (IF Gelesen(q) = "schreibt" THEN {[q EXCEPT !.phase = "schreibt"]} ELSE {})
    /\ UNCHANGED <<geraet, server, anfrage, ausfaelle>>

NachzueglerSchreibt(q) ==
    /\ q.phase = "schreibt"
    /\ Speichere(q)
    /\ nachzuegler' = nachzuegler \ {q}
    /\ UNCHANGED <<geraet, anfrage, ausfaelle>>

(* The office closes the job.                                              *)
BueroSchliesst ==
    /\ offen
    /\ offen' = FALSE
    /\ UNCHANGED <<geraet, kopien, schluessel, anfrage, nachzuegler, ausfaelle>>

(* The client stops waiting for p: what the server has not finished may    *)
(* still be carried out.                                                   *)
GibAuf(p) ==
    /\ anfrage[p] # Frei
    /\ nachzuegler' = nachzuegler \cup
         (IF anfrage[p].phase \in {"unterwegs", "schreibt"} THEN {anfrage[p]} ELSE {})
    /\ anfrage' = [anfrage EXCEPT ![p] = Frei]
    /\ UNCHANGED server

-----------------------------------------------------------------------------
(* The user acts: the direct attempt and its three ends.                   *)
Handle(t, e) ==
    /\ urheber[e] = None /\ token[t] # None
    /\ urheber' = [urheber EXCEPT ![e] = token[t]]
    /\ anfrage' = [anfrage EXCEPT ![e] = Anfrage(e, DirektSchluessel(e), token[t])]
    /\ UNCHANGED <<lager, reihe, token, liste, beendet, server, nachzuegler, ausfaelle>>

DirektGelungen(e) ==
    /\ anfrage[e].phase = "ok"
    /\ anfrage' = [anfrage EXCEPT ![e] = Frei]
    /\ UNCHANGED <<geraet, server, nachzuegler, ausfaelle>>

DirektAbgelehnt(e) ==
    /\ anfrage[e].phase = "abgelehnt"
    /\ anfrage' = [anfrage EXCEPT ![e] = Frei]
    /\ beendet' = beendet \cup {e}
    /\ UNCHANGED <<urheber, lager, reihe, token, liste, server, nachzuegler, ausfaelle>>

DirektZeitablauf(e) ==
    /\ GibAuf(e)
    /\ lager' = [lager EXCEPT ![e] = "wartend"]
    /\ reihe' = Append(reihe, e)
    /\ UNCHANGED <<urheber, token, liste, beendet, ausfaelle>>

-----------------------------------------------------------------------------
(* syncOutbox in tab t: the waiting items of the moment ...                *)
SyncBeginn(t) ==
    /\ liste[t] = {}
    /\ LET faellig == {e \in Eintraege : lager[e] = "wartend"}
       IN  faellig # {} /\ liste' = [liste EXCEPT ![t] = faellig]
    /\ UNCHANGED <<urheber, lager, reihe, token, beendet, server, anfrage, nachzuegler, ausfaelle>>

Vor(d, e) == \E i, j \in DOMAIN reihe : i < j /\ reihe[i] = d /\ reihe[j] = e

(* Mutant: the newest item goes first.                                     *)
NeuestesZuerst(t, e) == e \in liste[t] /\ \A d \in liste[t] : ~Vor(e, d)

(* ... sorted by created_at.                                               *)
AnDerReihe(t, e) == e \in liste[t] /\ \A d \in liste[t] : ~Vor(d, e)

Sende(t) ==
    /\ anfrage[t] = Frei
    /\ \E e \in Eintraege :
         /\ AnDerReihe(t, e)
         /\ anfrage' = [anfrage EXCEPT ![t] = Anfrage(e, SchlangeSchluessel(e), token[t])]
    /\ UNCHANGED <<geraet, server, nachzuegler, ausfaelle>>

SyncGelungen(t) ==
    /\ anfrage[t].phase = "ok"
    /\ lager' = [lager EXCEPT ![anfrage[t].e] = "leer"]
    /\ liste' = [liste EXCEPT ![t] = @ \ {anfrage[t].e}]
    /\ anfrage' = [anfrage EXCEPT ![t] = Frei]
    /\ UNCHANGED <<urheber, reihe, token, beendet, server, nachzuegler, ausfaelle>>

(* Mutant: a refused item keeps waiting.                                   *)
SyncAbgelehntWartet(t) ==
    /\ anfrage[t].phase = "abgelehnt"
    /\ liste' = [liste EXCEPT ![t] = @ \ {anfrage[t].e}]
    /\ anfrage' = [anfrage EXCEPT ![t] = Frei]
    /\ UNCHANGED <<urheber, lager, reihe, token, beendet, server, nachzuegler, ausfaelle>>

(* A 4xx: db.put writes the item back, whether or not it is still there.   *)
SyncAbgelehnt(t) ==
    /\ anfrage[t].phase = "abgelehnt"
    /\ lager' = [lager EXCEPT ![anfrage[t].e] = "abgelehnt"]
    /\ liste' = [liste EXCEPT ![t] = @ \ {anfrage[t].e}]
    /\ anfrage' = [anfrage EXCEPT ![t] = Frei]
    /\ UNCHANGED <<urheber, reihe, token, beendet, server, nachzuegler, ausfaelle>>

(* No answer in time, or 5xx: the whole run ends.  A closed tab looks the  *)
(* same.                                                                   *)
SyncBricht(t) ==
    /\ Ausfall
    /\ GibAuf(t)
    /\ liste' = [liste EXCEPT ![t] = {}]
    /\ UNCHANGED <<urheber, lager, reihe, token, beendet>>

(* The access token has run out and the refresh is answered with an error: *)
(* the request ends as the 401 it was, 401 and 403 also clear the session. *)
SitzungAbgelaufen(p) ==
    /\ anfrage[p].phase = "unterwegs"
    /\ Ausfall
    /\ anfrage' = [anfrage EXCEPT ![p].phase = "abgelehnt"]
    /\ \E t \in Tabs : \E n \in {token[t], None} :
         /\ p \in Tabs => p = t
         /\ token' = [token EXCEPT ![t] = n]
    /\ UNCHANGED <<urheber, lager, reihe, liste, beendet, server, nachzuegler>>

(* discardOutboxItem, offered for failed items.                            *)
Verwirf(e) ==
    /\ lager[e] = "abgelehnt"
    /\ lager' = [lager EXCEPT ![e] = "leer"]
    /\ beendet' = beendet \cup {e}
    /\ UNCHANGED <<urheber, reihe, token, liste, server, anfrage, nachzuegler, ausfaelle>>

(* logout clears IndexedDB; a running sync keeps its list in memory.       *)
Abmelden(t) ==
    /\ token[t] # None
    /\ Ausfall
    /\ token' = [token EXCEPT ![t] = None]
    /\ lager' = [e \in Eintraege |-> "leer"]
    /\ beendet' = beendet \cup {e \in Eintraege : lager[e] # "leer"}
    /\ UNCHANGED <<urheber, reihe, liste, server, anfrage, nachzuegler>>

Anmelden(t, n) ==
    /\ token[t] = None
    /\ token' = [token EXCEPT ![t] = n]
    /\ UNCHANGED <<urheber, lager, reihe, liste, beendet, server, anfrage, nachzuegler, ausfaelle>>

-----------------------------------------------------------------------------
OffNext ==
    \/ \E p \in Tabs \cup Eintraege : ServerLiest(p) \/ ServerSchreibt(p) \/ SitzungAbgelaufen(p)
    \/ \E q \in nachzuegler : NachzueglerLiest(q) \/ NachzueglerSchreibt(q)
    \/ BueroSchliesst
    \/ \E t \in Tabs, e \in Eintraege : Handle(t, e)
    \/ \E e \in Eintraege :
         DirektGelungen(e) \/ DirektAbgelehnt(e) \/ DirektZeitablauf(e) \/ Verwirf(e)
    \/ \E t \in Tabs : SyncBeginn(t) \/ Sende(t) \/ SyncGelungen(t) \/ SyncAbgelehnt(t)
                         \/ SyncBricht(t) \/ Abmelden(t)
    \/ \E t \in Tabs, n \in Nutzer : Anmelden(t, n)

(* The interval of useOutboxSync starts a sync every 10 s; a request is    *)
(* answered unless one of the bounded failures ends it.                    *)
OffFairness ==
    /\ \A p \in Tabs \cup Eintraege : WF_offVars(ServerLiest(p)) /\ WF_offVars(ServerSchreibt(p))
    /\ \A t \in Tabs : /\ WF_offVars(SyncBeginn(t)) /\ WF_offVars(Sende(t))
                       /\ WF_offVars(SyncGelungen(t)) /\ WF_offVars(SyncAbgelehnt(t))

OffSpec == OffInit /\ [][OffNext]_offVars /\ OffFairness

-----------------------------------------------------------------------------
(* A photo is stored at most once, whatever is lost, repeated, late or     *)
(* sent by two tabs at the same time (idempotency of upload_foto).         *)
FotoEinmal == \A e \in Eintraege : Art[e] = "foto" => kopien[e] <= 1

(* What a user has done is on the server, on its way, in the queue or was  *)
(* given up under the user's eyes.  It never just vanishes.                *)
NichtsVerschwindet ==
    \A e \in Eintraege :
        urheber[e] # None =>
            \/ kopien[e] > 0
            \/ lager[e] # "leer"
            \/ anfrage[e] # Frei
            \/ e \in beendet

(* What the queue promises: nothing is lost and no photo is doubled.       *)
OfflineSicher == FotoEinmal /\ NichtsVerschwindet

(* The queue is stored in its order (PHASE_4.md: "Reihenfolge bleibt       *)
(* erhalten"): nothing is stored from it while an older item still waits.  *)
ReihenfolgeBleibt ==
    [][\A t \in Tabs :
         anfrage[t].phase = "schreibt" /\ anfrage'[t].phase = "ok" =>
             \A d \in Eintraege : Vor(d, anfrage[t].e) => lager[d] # "wartend"]_offVars

(* Every queued item is stored, shown as refused, or given up: a failure   *)
(* never blocks the queue for good.                                        *)
WarteschlangeLeertSich == \A e \in Eintraege : []<>(lager[e] # "wartend")
=============================================================================
