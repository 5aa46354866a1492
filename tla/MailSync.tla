------------------------------ MODULE MailSync ------------------------------
(***************************************************************************)
(* The mailbox sync: services/mail_sync_service.py, run by                 *)
(* worker.py:_mail_sync_loop under the lock of services/worker_lock.py.    *)
(*                                                                         *)
(* A tick goes through all accounts in one transaction.  For each account  *)
(* it reads the watermark (uidvalidity, last_uid), fetches what is above   *)
(* it from the IMAP server, writes the watermark, and then stores the      *)
(* messages.  An account here stands for one of its folders.  A message is *)
(* <<uidvalidity, uid>>.                                                   *)
(***************************************************************************)
EXTENDS Integers, FiniteSets, FiniteSetsExt

CONSTANTS
    Konten,
    Laeufe,      \* workers whose sync loop runs
    ProLauf,     \* MAX_NACHRICHTEN_PRO_ORDNER_UND_LAUF
    MaxUid,      \* bound: uids given out under one uidvalidity
    MaxGueltig,  \* bound: uidvalidities
    MaxPannen    \* bound: failures of connections, fetches, uploads, transactions

ASSUME MailSyncAnnahme ==
    /\ {ProLauf, MaxUid, MaxGueltig} \subseteq Nat \ {0}
    /\ MaxPannen \in Nat

VARIABLES
    server,      \* account -> uidvalidity, highest uid, uids in the folder
    ordner,      \* account -> row of mail_folders and its mail_messages; gueltig = 0: no row
    lauf,        \* worker -> its tick: accounts to do, what the transaction will write
    verloren,    \* messages a tick has passed over
    pannen,
    aktiv,       \* mail_accounts.aktiv; does not change here
    schlossHaelt \* the advisory lock is kept: one tick at a time

msVars == <<server, ordner, lauf, verloren, pannen, aktiv, schlossHaelt>>

Nachrichten == (1..MaxGueltig) \X (1..MaxUid)
Ruhend == [laeuft |-> FALSE, offen |-> {}, neu |-> <<>>]

Schreibt ==
    [altGueltig : 0..MaxGueltig, altBis : 0..MaxUid, gueltig : 1..MaxGueltig, bis : 0..MaxUid,
     post : SUBSET Nachrichten, weg : SUBSET Nachrichten]

MsTyp ==
    /\ server \in [Konten -> [gueltig : 1..MaxGueltig, bis : 0..MaxUid, da : SUBSET (1..MaxUid)]]
    /\ ordner \in [Konten -> [gueltig : 0..MaxGueltig, bis : 0..MaxUid, post : SUBSET Nachrichten]]
    /\ \A l \in Laeufe :
          /\ lauf[l].offen \subseteq Konten
          /\ DOMAIN lauf[l].neu \subseteq Konten \ lauf[l].offen
          /\ \A k \in DOMAIN lauf[l].neu : lauf[l].neu[k] \in Schreibt
    /\ verloren \subseteq Konten \X Nachrichten
    /\ pannen \in 0..MaxPannen

MsInit ==
    /\ server = [k \in Konten |-> [gueltig |-> 1, bis |-> 0, da |-> {}]]
    /\ ordner = [k \in Konten |-> [gueltig |-> 0, bis |-> 0, post |-> {}]]
    /\ lauf = [l \in Laeufe |-> Ruhend]
    /\ verloren = {}
    /\ pannen = 0
    /\ aktiv \in SUBSET Konten
    /\ schlossHaelt \in BOOLEAN

-----------------------------------------------------------------------------
(* The IMAP server. *)

Ankunft(k) ==
    /\ server[k].bis < MaxUid
    /\ server' = [server EXCEPT ![k].bis = @ + 1, ![k].da = @ \cup {server[k].bis + 1}]
    /\ UNCHANGED <<ordner, lauf, verloren, pannen, aktiv, schlossHaelt>>

Entfernt(k) ==
    /\ \E u \in server[k].da : server' = [server EXCEPT ![k].da = @ \ {u}]
    /\ UNCHANGED <<ordner, lauf, verloren, pannen, aktiv, schlossHaelt>>

(* The mailbox is rebuilt: its messages are numbered anew under a new uidvalidity. *)
Neuaufbau(k) ==
    /\ server[k].gueltig < MaxGueltig
    /\ LET n == Cardinality(server[k].da)
       IN server' = [server EXCEPT ![k] = [gueltig |-> @.gueltig + 1, bis |-> n, da |-> 1..n]]
    /\ UNCHANGED <<ordner, lauf, verloren, pannen, aktiv, schlossHaelt>>

-----------------------------------------------------------------------------
(* _run_mail_sync_tick *)
TickBeginnt(l) ==
    /\ ~lauf[l].laeuft
    /\ schlossHaelt => \A m \in Laeufe : ~lauf[m].laeuft
    /\ lauf' = [lauf EXCEPT ![l] = [laeuft |-> TRUE, offen |-> aktiv, neu |-> <<>>]]
    /\ UNCHANGED <<server, ordner, verloren, pannen, aktiv, schlossHaelt>>

(* run_mail_sync: an account that cannot be reached is noted and skipped. *)
KontoNichtErreicht(l, k) ==
    /\ k \in lauf[l].offen
    /\ pannen < MaxPannen
    /\ pannen' = pannen + 1
    /\ lauf' = [lauf EXCEPT ![l].offen = @ \ {k}]
    /\ UNCHANGED <<server, ordner, verloren, aktiv, schlossHaelt>>

(* _sync_account_blockierend: the uidvalidity has changed, start over at 1. *)
Zurueckgesetzt(k) == ordner[k].gueltig \notin {0, server[k].gueltig}

SuchAb(k) == IF Zurueckgesetzt(k) THEN 1 ELSE ordner[k].bis + 1

Charge(k) ==
    LET uids == {u \in server[k].da : u >= SuchAb(k)}
    IN {u \in uids : Cardinality({v \in uids : v < u}) < ProLauf}

\* Mutant: messages the batch leaves for the next tick count as seen.
NeueGrenzeGanz(k, geholt) ==
    Max({IF Zurueckgesetzt(k) THEN 0 ELSE ordner[k].bis} \cup server[k].da \cup geholt)

\* The watermark after a fetch: a later message that was fetched raises it over one that was not.
NeueGrenze(k, geholt) ==
    Max({IF Zurueckgesetzt(k) THEN 0 ELSE ordner[k].bis} \cup geholt)

(* sync_account: of the batch `geholt` was fetched and `abgelegt` stored before an upload or
   the decoding of a message failed.  The watermark was written before. *)
Synchronisiert(l, k, geholt, abgelegt) ==
    LET g == server[k].gueltig
        grenze == NeueGrenze(k, geholt)
        neu == [altGueltig |-> ordner[k].gueltig, altBis |-> ordner[k].bis, gueltig |-> g, bis |-> grenze,
                post |-> {<<g, u>> : u \in abgelegt},
                weg |-> {<<g, u>> : u \in {v \in Charge(k) \ abgelegt : v <= grenze}}]
    IN lauf' = [lauf EXCEPT ![l] =
                   [laeuft |-> TRUE, offen |-> @.offen \ {k},
                    neu |-> [m \in {k} \cup DOMAIN @.neu |-> IF m = k THEN neu ELSE @.neu[m]]]]

Holt(l, k) ==
    /\ k \in lauf[l].offen
    /\ Synchronisiert(l, k, Charge(k), Charge(k))
    /\ UNCHANGED <<server, ordner, verloren, pannen, aktiv, schlossHaelt>>

\* Some fetches fail, or the storing of a message, which ends the account's turn.
HoltTeilweise(l, k) ==
    /\ k \in lauf[l].offen
    /\ pannen < MaxPannen
    /\ pannen' = pannen + 1
    /\ \E geholt \in SUBSET Charge(k), bis \in 0..MaxUid :
          Synchronisiert(l, k, geholt, {u \in geholt : u <= bis})
    /\ UNCHANGED <<server, ordner, verloren, aktiv, schlossHaelt>>

-----------------------------------------------------------------------------
(* The commit of the tick.  Another tick has written since: its folder row or its message with
   the same uid (uq_mail_folders_account_imap_name, uq_mail_messages_folder_uid). *)
Bestehend(k, n) == IF n.altGueltig \notin {0, n.gueltig} THEN {} ELSE ordner[k].post

Konflikt(l) ==
    \E k \in DOMAIN lauf[l].neu :
        LET n == lauf[l].neu[k]
        IN \/ n.altGueltig = 0 /\ ordner[k].gueltig # 0
           \/ \E p \in n.post, q \in Bestehend(k, n) : p[2] = q[2]

\* Mutant: the messages of the old uidvalidity stay.
GeschriebenOhneLoeschen(k, n) ==
    [gueltig |-> IF n.gueltig # n.altGueltig THEN n.gueltig ELSE ordner[k].gueltig,
     bis |-> IF n.bis # n.altBis THEN n.bis ELSE ordner[k].bis,
     post |-> ordner[k].post \cup n.post]

(* _upsert_ordner and _speichere_nachricht: a column is written when its value differs from the
   one that was read. *)
Geschrieben(k, n) ==
    [gueltig |-> IF n.gueltig # n.altGueltig THEN n.gueltig ELSE ordner[k].gueltig,
     bis |-> IF n.bis # n.altBis THEN n.bis ELSE ordner[k].bis,
     post |-> Bestehend(k, n) \cup n.post]

TickEndet(l) ==
    /\ lauf[l].laeuft /\ lauf[l].offen = {}
    /\ ~Konflikt(l)
    /\ LET neu == lauf[l].neu
       IN /\ ordner' = [k \in Konten |-> IF k \in DOMAIN neu THEN Geschrieben(k, neu[k]) ELSE ordner[k]]
          /\ verloren' = verloren \cup UNION {{<<k, m>> : m \in neu[k].weg} : k \in DOMAIN neu}
    /\ lauf' = [lauf EXCEPT ![l] = Ruhend]
    /\ UNCHANGED <<server, pannen, aktiv, schlossHaelt>>

(* A statement fails: what run_mail_sync does next in the same session fails too, and the
   transaction of the whole tick is rolled back. *)
TickVerworfen(l) ==
    /\ lauf[l].laeuft
    /\ lauf' = [lauf EXCEPT ![l] = Ruhend]
    /\ UNCHANGED <<server, ordner, verloren, aktiv, schlossHaelt>>

TickScheitert(l) == Konflikt(l) /\ TickVerworfen(l) /\ UNCHANGED pannen
TickAbgebrochen(l) == pannen < MaxPannen /\ TickVerworfen(l) /\ pannen' = pannen + 1

Sync(l) ==
    \/ TickBeginnt(l) \/ TickEndet(l) \/ TickScheitert(l)
    \/ \E k \in Konten : Holt(l, k)

MsNext ==
    \/ \E k \in Konten : Ankunft(k) \/ Entfernt(k) \/ Neuaufbau(k)
    \/ \E l \in Laeufe :
          \/ Sync(l) \/ TickAbgebrochen(l)
          \/ \E k \in Konten : KontoNichtErreicht(l, k) \/ HoltTeilweise(l, k)

\* The loop of a worker goes on.
MsFairness == \A l \in Laeufe : WF_msVars(Sync(l))

-----------------------------------------------------------------------------
\* The tables are what one tick at a time makes of them, or the server was never rebuilt.
Ungestoert(k) == schlossHaelt \/ server[k].gueltig = 1

(***************************************************************************)
(* Nothing falls through the watermark: a message in the mailbox at or     *)
(* below it is stored, unless its fetch or its storing failed in a tick    *)
(* that moved the watermark on; and no message of an earlier uidvalidity   *)
(* stays beside the current ones, whose uids mean something else.  Two     *)
(* ticks at a time (the lock was lost) may break this only where the       *)
(* mailbox is rebuilt between them.                                        *)
(***************************************************************************)
AbrufVollstaendig ==
    \A k \in Konten : Ungestoert(k) =>
        /\ \A m \in ordner[k].post : m[1] = ordner[k].gueltig
        /\ ordner[k].gueltig = server[k].gueltig =>
              \A u \in server[k].da : u <= ordner[k].bis =>
                  \/ <<server[k].gueltig, u>> \in ordner[k].post
                  \/ <<k, <<server[k].gueltig, u>>>> \in verloren

(***************************************************************************)
(* A message in the mailbox of an active account is fetched some time, in  *)
(* batches, unless it is removed there first or a failing tick has passed  *)
(* over it.                                                                *)
(***************************************************************************)
NachrichtKommtAn(k) ==
    \A g \in 1..MaxGueltig, u \in 1..MaxUid :
        schlossHaelt /\ k \in aktiv /\ server[k].gueltig = g /\ u \in server[k].da
          ~> \/ server[k].gueltig # g \/ u \notin server[k].da
             \/ <<g, u>> \in ordner[k].post \/ <<k, <<g, u>>>> \in verloren
=============================================================================
