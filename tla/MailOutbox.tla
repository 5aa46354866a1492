----------------------------- MODULE MailOutbox -----------------------------
(***************************************************************************)
(* The transactional mail outbox (app/services/mail_outbox_service.py).    *)
(*                                                                         *)
(* A business transaction inserts a row; workers claim due rows in one     *)
(* transaction, talk to S3 and to the SMTP server without any lock, and    *)
(* write the result in a second transaction.  Every action below is one    *)
(* transaction or one stretch of code between two awaits that matter, so   *)
(* that several workers, the administrator's "wiederholen", crashes and    *)
(* slow sends interleave as they do in the running system.                 *)
(*                                                                         *)
(* Time is relative: a pending row counts down to naechster_versuch_am and *)
(* on below zero while it waits, a sending row counts up from              *)
(* sending_seit, and a worker remembers how old the "jetzt" is that it     *)
(* read when its pass began, because the code uses that one value for the  *)
(* whole pass.  All of them saturate at MaxAlter.                          *)
(***************************************************************************)
EXTENDS Integers, Sequences, FiniteSets

CONSTANTS
  Mails,            \* the rows that may ever exist
  MitAnhang,        \* those that carry attachments
  Worker,           \* worker processes running verarbeite_outbox
  KeineMail,        \* stands for None
  Plan,             \* mail_outbox_backoff_minuten, in ticks
  Timeout,          \* mail_outbox_sending_timeout_minuten, in ticks
  MaxAnzahl,        \* max_anzahl, the size of a batch
  MaxAlter,         \* where ages saturate
  MaxWiederholen    \* bound on manual repetitions of one mail

ASSUME KonstantenAnnahme ==
  /\ MitAnhang \subseteq Mails
  /\ KeineMail \notin Mails
  /\ IsFiniteSet(Worker)
  /\ Plan \in Seq(Nat)
  /\ Timeout \in Nat
  /\ MaxAnzahl \in Nat \ {0}
  /\ MaxAlter \in Nat
  /\ MaxAlter > Timeout
  /\ \A i \in DOMAIN Plan : Plan[i] <= MaxAlter
  /\ MaxWiederholen \in Nat

VARIABLES
  zeile,            \* the table mail_outbox
  log,              \* EmailLog.status of the row's log entry
  anhang,           \* does S3 still hold the row's attachments?
  worker,           \* local state of every worker
  zugestellt,       \* history: how often the SMTP server took the mail over
  wiederholt,       \* history: how often an administrator repeated it
  unklar            \* history: deliveries the worker saw as an error

tabelle == <<zeile, log>>
historie == <<zugestellt, wiederholt, unklar>>
vars == <<zeile, log, anhang, worker, zugestellt, wiederholt, unklar>>

Status == {"keine", "pending", "sending", "sent", "failed"}
LogStatus == {"keiner", "ausstehend", "gesendet", "fehler"}
Phase == {"ruht", "bereinigt", "versendet", "schreibt", "loescht"}
Ergebnis == {"keins", "ok", "voruebergehend", "dauerhaft", "unklar"}

\* rest: ticks until naechster_versuch_am, kept while pending;
\* alter: ticks since sending_seit, kept while sending.
Zeile == [status : Status, versuche : Nat, rest : (-MaxAlter)..MaxAlter, alter : 0..MaxAlter]

Stand(s, v, r, a) == [status |-> s, versuche |-> v, rest |-> r, alter |-> a]

\* alter: age of the pass's "jetzt"; offen: claimed and not yet tried;
\* aktuell: the mail being finished, with the outcome of its attempt.
WorkerZustand ==
  [phase : Phase, alter : 0..MaxAlter, offen : SUBSET Mails,
   aktuell : Mails \cup {KeineMail}, ergebnis : Ergebnis]

TypeOK ==
  /\ zeile \in [Mails -> Zeile]
  /\ log \in [Mails -> LogStatus]
  /\ anhang \in [Mails -> BOOLEAN]
  /\ worker \in [Worker -> WorkerZustand]
  /\ zugestellt \in [Mails -> Nat]
  /\ wiederholt \in [Mails -> Nat]
  /\ unklar \in [Mails -> Nat]

Ruhe == [phase |-> "ruht", alter |-> 0, offen |-> {}, aktuell |-> KeineMail, ergebnis |-> "keins"]

Init ==
  /\ zeile = [m \in Mails |-> Stand("keine", 0, 0, 0)]
  /\ log = [m \in Mails |-> "keiner"]
  /\ anhang = [m \in Mails |-> FALSE]
  /\ worker = [w \in Worker |-> Ruhe]
  /\ zugestellt = [m \in Mails |-> 0]
  /\ wiederholt = [m \in Mails |-> 0]
  /\ unklar = [m \in Mails |-> 0]

-----------------------------------------------------------------------------
(***************************************************************************)
(* The request that queues the mail, and the administrator.                *)
(***************************************************************************)

\* enqueue_email_and_log and the commit of the caller's transaction.
Einreihen(m) ==
  /\ zeile[m].status = "keine"
  /\ zeile' = [zeile EXCEPT ![m] = Stand("pending", 0, 0, 0)]
  /\ log' = [log EXCEPT ![m] = "ausstehend"]
  /\ anhang' = [anhang EXCEPT ![m] = m \in MitAnhang]
  /\ UNCHANGED <<worker, historie>>

\* Mutant: the log entry is not reset.
WiederholenOhneLog(m) ==
  /\ wiederholt[m] < MaxWiederholen
  /\ zeile[m].status = "failed"
  /\ zeile' = [zeile EXCEPT ![m] = Stand("pending", 0, 0, 0)]
  /\ wiederholt' = [wiederholt EXCEPT ![m] = @ + 1]
  /\ UNCHANGED <<log, anhang, worker, zugestellt, unklar>>

\* wiederholen: only a failed row, and with a fresh retry plan.
Wiederholen(m) ==
  /\ wiederholt[m] < MaxWiederholen
  /\ zeile[m].status = "failed"
  /\ zeile' = [zeile EXCEPT ![m] = Stand("pending", 0, 0, 0)]
  /\ log' = [log EXCEPT ![m] = "ausstehend"]
  /\ wiederholt' = [wiederholt EXCEPT ![m] = @ + 1]
  /\ UNCHANGED <<anhang, worker, zugestellt, unklar>>

-----------------------------------------------------------------------------
(***************************************************************************)
(* One pass of verarbeite_outbox.                                          *)
(***************************************************************************)

\* Mutant: the timeout is never reached.
HaengtNie(m) == zeile[m].status = "sending" /\ zeile[m].alter > MaxAlter

Haengt(m) == zeile[m].status = "sending" /\ zeile[m].alter > Timeout

\* Mutant: a hanging row is queued again instead of reported.
BereinigeDurchNeustart(w) ==
  /\ worker[w].phase = "ruht"
  /\ zeile' = [m \in Mails |-> IF Haengt(m) THEN Stand("pending", zeile[m].versuche, 0, 0)
                                            ELSE zeile[m]]
  /\ worker' = [worker EXCEPT ![w].phase = "bereinigt"]
  /\ UNCHANGED <<log, anhang, historie>>

\* _bereinige_haengende at the start of a pass, which reads "jetzt".
Bereinige(w) ==
  /\ worker[w].phase = "ruht"
  /\ zeile' = [m \in Mails |-> IF Haengt(m) THEN Stand("failed", zeile[m].versuche, 0, 0)
                                            ELSE zeile[m]]
  /\ log' = [m \in Mails |-> IF Haengt(m) THEN "fehler" ELSE log[m]]
  /\ worker' = [worker EXCEPT ![w].phase = "bereinigt"]
  /\ UNCHANGED <<anhang, historie>>

\* Due at the "jetzt" of the pass, which may be a while ago.
Faellig(w) == {m \in Mails : zeile[m].status = "pending" /\ zeile[m].rest <= -worker[w].alter}

\* What ORDER BY naechster_versuch_am LIMIT max_anzahl may return.
Stapel(w) == {S \in SUBSET Faellig(w) :
                /\ Cardinality(S) <= MaxAnzahl
                /\ Cardinality(S) < MaxAnzahl => S = Faellig(w)
                /\ \A m \in S, n \in Faellig(w) \ S : zeile[m].rest <= zeile[n].rest}

\* Mutant: the claim is not written to the row.
BeansprucheOhneStatus(w) ==
  /\ worker[w].phase = "bereinigt"
  /\ \E S \in Stapel(w) :
       worker' = [worker EXCEPT ![w] = IF S = {} THEN Ruhe
                                        ELSE [@ EXCEPT !.phase = "versendet", !.offen = S]]
  /\ UNCHANGED <<tabelle, anhang, historie>>

\* _beanspruche: one transaction claims a batch.
Beanspruche(w) ==
  /\ worker[w].phase = "bereinigt"
  /\ \E S \in Stapel(w) :
       /\ zeile' = [m \in Mails |->
                      IF m \in S
                      THEN Stand("sending", zeile[m].versuche + 1, 0, worker[w].alter)
                      ELSE zeile[m]]
       /\ worker' = [worker EXCEPT ![w] = IF S = {} THEN Ruhe
                                           ELSE [@ EXCEPT !.phase = "versendet", !.offen = S]]
  /\ UNCHANGED <<log, anhang, historie>>

-----------------------------------------------------------------------------
(***************************************************************************)
(* _versende: S3 download and SMTP, with no transaction open.              *)
(***************************************************************************)

\* Worker w ends its attempt at m with outcome e.
Versucht(w, m, e) ==
  /\ worker[w].phase = "versendet"
  /\ m \in worker[w].offen
  /\ worker' = [worker EXCEPT ![w].phase = "schreibt", ![w].offen = @ \ {m},
                              ![w].aktuell = m, ![w].ergebnis = e]
  /\ UNCHANGED <<tabelle, anhang, wiederholt>>

AnhangDa(m) == m \in MitAnhang => anhang[m]

\* The SMTP server takes the mail over and the worker learns of it.
Zugestellt(w, m) ==
  /\ AnhangDa(m)
  /\ Versucht(w, m, "ok")
  /\ zugestellt' = [zugestellt EXCEPT ![m] = @ + 1]
  /\ UNCHANGED unklar

\* The server takes the mail over, but the exchange still ends in an
\* exception: the reply to DATA is lost, or QUIT is answered with 421.
ZugestelltUnerkannt(w, m) ==
  /\ AnhangDa(m)
  /\ Versucht(w, m, "unklar")
  /\ zugestellt' = [zugestellt EXCEPT ![m] = @ + 1]
  /\ unklar' = [unklar EXCEPT ![m] = @ + 1]

\* S3 or SMTP out of reach, greylisting, wrong login.
ScheitertVoruebergehend(w, m) ==
  /\ Versucht(w, m, "voruebergehend")
  /\ UNCHANGED <<zugestellt, unklar>>

\* _ist_dauerhaft: recipient refused, no SMTP account, attachment gone.
ScheitertDauerhaft(w, m) ==
  /\ Versucht(w, m, "dauerhaft")
  /\ UNCHANGED <<zugestellt, unklar>>

-----------------------------------------------------------------------------
(***************************************************************************)
(* _schreibe_ergebnis: reads the row FOR UPDATE, but not its status.       *)
(***************************************************************************)

\* naechster_versuch: is there an entry of the plan after this many tries?
PlanHat(n) == n \in DOMAIN Plan

Weiter(w) == IF worker[w].offen = {} THEN Ruhe
             ELSE [worker[w] EXCEPT !.phase = "versendet", !.aktuell = KeineMail, !.ergebnis = "keins"]

SchreibeErfolg(w) ==
  LET m == worker[w].aktuell IN
  /\ worker[w].phase = "schreibt"
  /\ worker[w].ergebnis = "ok"
  /\ zeile' = [zeile EXCEPT ![m] = Stand("sent", @.versuche, 0, 0)]
  /\ log' = [log EXCEPT ![m] = "gesendet"]
  /\ worker' = [worker EXCEPT ![w] = IF m \in MitAnhang THEN [@ EXCEPT !.phase = "loescht"] ELSE Weiter(w)]
  /\ UNCHANGED <<anhang, historie>>

\* _endgueltig_fehlgeschlagen: permanent, or the plan is exhausted.
SchreibeFehlschlag(w) ==
  LET m == worker[w].aktuell IN
  /\ worker[w].phase = "schreibt"
  /\ \/ worker[w].ergebnis = "dauerhaft"
     \/ worker[w].ergebnis \in {"voruebergehend", "unklar"} /\ ~PlanHat(zeile[m].versuche)
  /\ zeile' = [zeile EXCEPT ![m] = Stand("failed", @.versuche, 0, 0)]
  /\ log' = [log EXCEPT ![m] = "fehler"]
  /\ worker' = [worker EXCEPT ![w] = Weiter(w)]
  /\ UNCHANGED <<anhang, historie>>

\* Mutant: the age of "jetzt" is added to the pause.
SchreibeWiederholungSpaeter(w) ==
  LET m == worker[w].aktuell IN
  /\ worker[w].phase = "schreibt"
  /\ worker[w].ergebnis \in {"voruebergehend", "unklar"}
  /\ PlanHat(zeile[m].versuche)
  /\ zeile' = [zeile EXCEPT ![m] = Stand("pending", @.versuche, Plan[@.versuche] + worker[w].alter, 0)]
  /\ worker' = [worker EXCEPT ![w] = Weiter(w)]
  /\ UNCHANGED <<log, anhang, historie>>

\* Another attempt later; the log keeps its status and only gets a text.
SchreibeWiederholung(w) ==
  LET m == worker[w].aktuell IN
  /\ worker[w].phase = "schreibt"
  /\ worker[w].ergebnis \in {"voruebergehend", "unklar"}
  /\ PlanHat(zeile[m].versuche)
  /\ zeile' = [zeile EXCEPT ![m] = Stand("pending", @.versuche, Plan[@.versuche] - worker[w].alter, 0)]
  /\ worker' = [worker EXCEPT ![w] = Weiter(w)]
  /\ UNCHANGED <<log, anhang, historie>>

\* The result cannot be written: verarbeite_outbox logs it and goes on.
ErgebnisVerloren(w) ==
  /\ worker[w].phase = "schreibt"
  /\ worker' = [worker EXCEPT ![w] = Weiter(w)]
  /\ UNCHANGED <<tabelle, anhang, historie>>

\* After the commit; a failing delete is only logged.
LoescheAnhang(w) ==
  /\ worker[w].phase = "loescht"
  /\ \/ anhang' = [anhang EXCEPT ![worker[w].aktuell] = FALSE]
     \/ UNCHANGED anhang
  /\ worker' = [worker EXCEPT ![w] = Weiter(w)]
  /\ UNCHANGED <<tabelle, historie>>

-----------------------------------------------------------------------------
(***************************************************************************)
(* The environment.                                                        *)
(***************************************************************************)

\* The worker container dies and is started again with an empty memory.
Absturz(w) ==
  /\ worker[w].phase # "ruht"
  /\ worker' = [worker EXCEPT ![w] = Ruhe]
  /\ UNCHANGED <<tabelle, anhang, historie>>

Aelter(a) == IF a < MaxAlter THEN a + 1 ELSE a
Naeher(r) == IF r > -MaxAlter THEN r - 1 ELSE r

Tick ==
  /\ zeile' = [m \in Mails |->
                 CASE zeile[m].status = "pending" -> [zeile[m] EXCEPT !.rest = Naeher(@)]
                   [] zeile[m].status = "sending" -> [zeile[m] EXCEPT !.alter = Aelter(@)]
                   [] OTHER -> zeile[m]]
  /\ worker' = [w \in Worker |->
                  IF worker[w].phase = "ruht" THEN worker[w] ELSE [worker[w] EXCEPT !.alter = Aelter(@)]]
  /\ UNCHANGED <<log, anhang, historie>>

Versuch(w) ==
  \E m \in Mails :
    \/ Zugestellt(w, m)
    \/ ZugestelltUnerkannt(w, m)
    \/ ScheitertVoruebergehend(w, m)
    \/ ScheitertDauerhaft(w, m)

Rueckschreiben(w) ==
  \/ SchreibeErfolg(w)
  \/ SchreibeFehlschlag(w)
  \/ SchreibeWiederholung(w)
  \/ ErgebnisVerloren(w)
  \/ LoescheAnhang(w)

Durchlauf(w) ==
  \/ Bereinige(w)
  \/ Beanspruche(w)
  \/ Versuch(w)
  \/ Rueckschreiben(w)

Next ==
  \/ \E m \in Mails : Einreihen(m) \/ Wiederholen(m)
  \/ \E w \in Worker : Durchlauf(w) \/ Absturz(w)
  \/ Tick

Spec == Init /\ [][Next]_vars

(***************************************************************************)
(* Fairness: the loop in worker.py runs for ever and every await in it     *)
(* ends (SMTP and S3 calls have timeouts); time passes.  The claim needs   *)
(* strong fairness because a crash may always come just before it.         *)
(* Nothing is assumed of users, administrators or crashes.                 *)
(***************************************************************************)
Fairness ==
  /\ WF_vars(Tick)
  /\ \A w \in Worker : WF_vars(Durchlauf(w)) /\ SF_vars(Beanspruche(w))

FairSpec == Spec /\ Fairness

-----------------------------------------------------------------------------
(***************************************************************************)
(* Properties.                                                             *)
(***************************************************************************)

\* The workers that may still deliver m or give it back for another try.
Traegt(w, m) ==
  \/ m \in worker[w].offen
  \/ /\ worker[w].phase = "schreibt"
     /\ worker[w].aktuell = m
     /\ worker[w].ergebnis \in {"voruebergehend", "unklar"}

Traeger(m) == {w \in Worker : Traegt(w, m)}

Erlaubt(m) == Cardinality(Traeger(m)) + (IF zeile[m].status = "pending" THEN 1 ELSE 0)
Erteilt(m) == (IF zeile[m].status = "keine" THEN 0 ELSE 1) + wiederholt[m] + unklar[m]

(***************************************************************************)
(* Every delivery beyond the first one has a cause of its own: a manual    *)
(* repetition or an SMTP exchange that failed after acceptance.  Workers   *)
(* that overtake each other, timeouts that hit a live worker, crashes and  *)
(* stale results never multiply a mail.                                    *)
(***************************************************************************)
VersandKonto == \A m \in Mails : zugestellt[m] + Erlaubt(m) <= Erteilt(m)

(***************************************************************************)
(* "sent" and "gesendet" are never shown for a mail no server took over,   *)
(* whatever result was written last.                                       *)
(***************************************************************************)
GesendetHeisstZugestellt ==
  \A m \in Mails : zeile[m].status = "sent" \/ log[m] = "gesendet" => zugestellt[m] > 0

(***************************************************************************)
(* What the user sees in the mail history follows the row.                 *)
(***************************************************************************)
LogFolgtZeile ==
  \A m \in Mails : log[m] = CASE zeile[m].status = "keine" -> "keiner"
                             [] zeile[m].status \in {"pending", "sending"} -> "ausstehend"
                             [] zeile[m].status = "sent" -> "gesendet"
                             [] zeile[m].status = "failed" -> "fehler"

(***************************************************************************)
(* A mail that is not sent keeps its attachments, so that a repetition     *)
(* weeks later still sends the whole mail.                                 *)
(***************************************************************************)
AnhangBleibt ==
  \A m \in MitAnhang : zeile[m].status \in {"pending", "sending", "failed"} => anhang[m]

(***************************************************************************)
(* No mail waits for ever: every queued mail is sent or reported failed,   *)
(* even if workers keep crashing.                                          *)
(***************************************************************************)
WirdEntschieden ==
  \A m \in Mails : zeile[m].status \in {"pending", "sending"} ~> zeile[m].status \in {"sent", "failed"}

-----------------------------------------------------------------------------
(***************************************************************************)
(* The outbox implements the permits: a permit is a pending row or a       *)
(* worker that has not yet finished its attempt.                           *)
(***************************************************************************)
Erlaubnis == INSTANCE Versanderlaubnis
               WITH erteilt <- [m \in Mails |-> Erteilt(m)],
                    erlaubt <- [m \in Mails |-> Erlaubt(m)]

ErlaubnisSpec == Erlaubnis!Spec
=============================================================================
