---------------------------- MODULE MCMailOutbox ----------------------------
(***************************************************************************)
(* Model checking the mail: the outbox and the mailbox sync.  The two      *)
(* share no state, so a behaviour runs one of them, chosen by `teil`, and  *)
(* leaves the other in its initial state.                                  *)
(*   "senden"   the outbox: two workers and one mail, which they fight     *)
(*              over, or (`einer`) one worker and two mails, which it      *)
(*              takes in batches                                           *)
(*   "abruf"    the sync: two workers and one mailbox that may be rebuilt, *)
(*              or (`einer`) one worker and two mailboxes                  *)
(***************************************************************************)
EXTENDS MailOutbox, MailSync

CONSTANTS m1, m2, w1, w2, k1, k2

VARIABLES teil, einer

ZweiMails == {m1, m2}
ErsteMitAnhang == {m1}
ZweiWorker == {w1, w2}
ZweiKonten == {k1, k2}

\* One retry after one tick.
PlanKurz == <<1>>

Arbeitet(w) == einer => w = w1

MCInit ==
  /\ teil \in {"senden", "abruf"}
  /\ einer \in BOOLEAN
  /\ Init /\ MsInit
  /\ aktiv = IF einer THEN Konten ELSE {k1}
  /\ teil = "senden" \/ einer => schlossHaelt

-----------------------------------------------------------------------------
Senden ==
  /\ Next
  /\ \A w \in Worker : ~Arbeitet(w) => worker'[w] = Ruhe
  /\ ~einer => zeile'[m2].status = "keine"

Abrufen ==
  /\ MsNext
  /\ \A w \in Laeufe : ~Arbeitet(w) => lauf'[w] = Ruhend
  /\ \A k \in Konten : (k \notin aktiv => server'[k] = server[k]) /\ (einer => server'[k].gueltig = 1)

MCNext ==
  \/ teil = "senden" /\ Senden /\ UNCHANGED <<teil, einer, msVars>>
  \/ teil = "abruf" /\ Abrufen /\ UNCHANGED <<teil, einer, vars>>

\* Fairness of MailOutbox and MailSync for the workers that run.
MCFairness ==
  /\ WF_vars(teil = "senden" /\ Tick)
  /\ \A w \in Worker : /\ WF_vars(teil = "senden" /\ Arbeitet(w) /\ Durchlauf(w))
                       /\ SF_vars(teil = "senden" /\ Arbeitet(w) /\ Beanspruche(w))
  /\ \A w \in Laeufe : WF_msVars(teil = "abruf" /\ Arbeitet(w) /\ Sync(w))

MCSpec == MCInit /\ [][MCNext]_<<teil, einer, vars, msVars>> /\ MCFairness

-----------------------------------------------------------------------------
(* The tables and local states of both parts keep their types. *)
PostTyp == TypeOK /\ MsTyp

(***************************************************************************)
(* What the user is told is true: "sent" and "gesendet" mean that a server *)
(* took the mail over, whatever result was written last.  With one worker  *)
(* the mail history also follows the row and the attachments stay until    *)
(* the mail is sent (two workers may overwrite each other's results).      *)
(***************************************************************************)
AnzeigeStimmt ==
  /\ GesendetHeisstZugestellt
  /\ einer => LogFolgtZeile /\ AnhangBleibt

(* Mail arrives in the end: what is queued is sent or reported, what is in a mailbox is stored
   or was passed over by a failing tick (one account stands for both: they are alike). *)
PostKommtAn == WirdEntschieden /\ NachrichtKommtAn(k1)
=============================================================================
