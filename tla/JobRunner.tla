----------------------------- MODULE JobRunner -----------------------------
(***************************************************************************)
(* The scheduler loop of the worker containers: services/job_runner.py     *)
(* with job_state_service.py and worker_lock.py.                           *)
(*                                                                         *)
(* A tick holds one advisory lock, walks through the jobs in a fixed order *)
(* and runs each for the tenants whose last successful run lies before     *)
(* their latest slot.  The job works in a transaction of its own and is    *)
(* marked as done in a second one, so a crash may come in between.  The    *)
(* lock lives on a database connection: when that breaks, the tick goes on *)
(* and a second worker may start its own.                                  *)
(*                                                                         *)
(* A "Zeile" is a row of job_laeufe, that is a job and the tenant it runs  *)
(* for; a system job is a job with a single row.  Each row has a piece of  *)
(* work that becomes due, is done by a run (a job order is created, a      *)
(* reminder is sent) and is due again later.                               *)
(***************************************************************************)
EXTENDS Integers, FiniteSets, Sequences

CONSTANTS
    Worker,          \* worker containers
    Zeilen,          \* rows of job_laeufe
    Plan,            \* sequence of the jobs of a tick, each the set of its rows
    Stunden,         \* rows grouped by the scheduler hour of their tenant
    Anfaellig,       \* rows whose job may raise
    Gesperrt,        \* rows whose job selects its candidates FOR UPDATE SKIP LOCKED
    None,
    MaxVersatz,      \* bound: slots that pass during one tick
    MaxStoerungen,   \* bound: broken lock connections and ticks that end half-way
    MaxDefekte       \* bound: tenants that turn defective

ASSUME RunnerAnnahme ==
    /\ None \notin Worker
    /\ MaxVersatz \in Nat /\ MaxStoerungen \in Nat /\ MaxDefekte \in Nat
    /\ Gesperrt \subseteq Zeilen /\ Anfaellig \subseteq Zeilen
    /\ UNION Stunden = Zeilen
    /\ Plan \in Seq(SUBSET Zeilen) /\ Plan # <<>>

VARIABLES
    lauf,       \* row -> slots since its last success, and whether it waits after a failure
    arbeit,     \* row -> "keine", "faellig" or "getan"
    wirkung,    \* row -> how often the current piece of work was done
    lock,       \* the worker whose connection holds the advisory lock, or None
    tick,       \* worker -> its local state
    defekt,     \* rows whose job raises at present
    abgerissen, \* whether a connection that held the lock ever broke
    stoerungen, \* number of these two faults so far
    defekte     \* how often a tenant turned defective

runnerVars == <<lauf, arbeit, wirkung, lock, tick, defekt, abgerissen, stoerungen, defekte>>
fehler == <<abgerissen, stoerungen, defekte>>

Phasen == {"ruht", "pruefen", "lauf", "commit", "markieren", "fehlschlag"}

Ruhe == [phase |-> "ruht", job |-> 0, sammel |-> FALSE, dran |-> {}, rest |-> {},
         beute |-> {}, versatz |-> [z \in Zeilen |-> 0]]

LaufTyp == [alter : 0..MaxVersatz + 1, pause : BOOLEAN]

TickTyp == [phase : Phasen, job : 0..Len(Plan), sammel : BOOLEAN, dran : SUBSET Zeilen,
            rest : SUBSET Zeilen, beute : SUBSET Zeilen, versatz : [Zeilen -> 0..MaxVersatz]]

RunnerTyp ==
    /\ lauf \in [Zeilen -> LaufTyp]
    /\ arbeit \in [Zeilen -> {"keine", "faellig", "getan"}]
    /\ wirkung \in [Zeilen -> Nat]
    /\ lock \in Worker \cup {None}
    /\ tick \in [Worker -> TickTyp]
    /\ defekt \subseteq Anfaellig
    /\ abgerissen \in BOOLEAN /\ stoerungen \in 0..MaxStoerungen /\ defekte \in 0..MaxDefekte

RunnerInit ==
    /\ lauf = [z \in Zeilen |-> [alter |-> MaxVersatz + 1, pause |-> FALSE]]
    /\ arbeit = [z \in Zeilen |-> "keine"]
    /\ wirkung = [z \in Zeilen |-> 0]
    /\ lock = None
    /\ tick = [w \in Worker |-> Ruhe]
    /\ defekt = {}
    /\ abgerissen = FALSE
    /\ stoerungen = 0 /\ defekte = 0

-----------------------------------------------------------------------------
(* What a tick decides from the row.  "jetzt" is the start of the tick, so the latest slot
   it knows of is the one `versatz` slots ago. *)

IstFaellig(w, z) == lauf[z].alter > tick[w].versatz[z] /\ ~lauf[z].pause

(* Rows that the open transaction of a run keeps locked. *)
ZeilenSperren(w) == tick[w].beute \cap Gesperrt

\* Mutant: candidates are selected without FOR UPDATE SKIP LOCKED.
FremdGesperrtNie(w) == {}

FremdGesperrt(w) == UNION {ZeilenSperren(v) : v \in Worker \ {w}}

(* The work a run selects: what is due and, with SKIP LOCKED, not held by another run. *)
Kandidaten(w, zeilen) == {z \in zeilen : arbeit[z] = "faellig"} \ FremdGesperrt(w)

LetzterJob(w) == tick[w].job = Len(Plan)

(* The end of one job: the next job, or the end of the tick, where the lock is given back
   by the connection that took it. *)
Weiter(w) ==
    IF LetzterJob(w)
    THEN /\ tick' = [tick EXCEPT ![w] = Ruhe]
         /\ lock' = IF lock = w THEN None ELSE lock
    ELSE /\ tick' = [tick EXCEPT ![w] = [Ruhe EXCEPT !.phase = "pruefen", !.job = tick[w].job + 1,
                                                     !.versatz = tick[w].versatz]]
         /\ UNCHANGED lock

(* After a run has been marked: the next single run, if the rows are taken one by one. *)
NaechsteZeile(w) ==
    IF tick[w].rest = {}
    THEN Weiter(w)
    ELSE /\ \E z \in tick[w].rest :
              tick' = [tick EXCEPT ![w].phase = "lauf", ![w].dran = {z}, ![w].rest = @ \ {z},
                                   ![w].beute = {}]
         /\ UNCHANGED lock

-----------------------------------------------------------------------------

(* fuehre_tick: without the lock the tick is skipped. *)
TickBeginn(w) ==
    /\ tick[w].phase = "ruht"
    /\ lock = None
    /\ lock' = w
    /\ tick' = [tick EXCEPT ![w].phase = "pruefen", ![w].job = 1]
    /\ UNCHANGED <<lauf, arbeit, wirkung, defekt, fehler>>

(* faellige_mandanten, in a transaction of its own. *)
Pruefe(w) ==
    /\ tick[w].phase = "pruefen"
    /\ LET faellige == {z \in Plan[tick[w].job] : IstFaellig(w, z)} IN
         IF faellige = {}
         THEN Weiter(w)
         ELSE /\ tick' = [tick EXCEPT ![w].phase = "lauf", ![w].sammel = Cardinality(faellige) > 1,
                                      ![w].dran = faellige]
              /\ UNCHANGED lock
    /\ UNCHANGED <<lauf, arbeit, wirkung, defekt, fehler>>

(* The job selects its candidates. *)
LaufBeginn(w) ==
    /\ tick[w].phase = "lauf"
    /\ tick' = [tick EXCEPT ![w].phase = "commit", ![w].beute = Kandidaten(w, tick[w].dran)]
    /\ UNCHANGED <<lauf, arbeit, wirkung, lock, defekt, fehler>>

(* The job commits: it has done the work it had selected. *)
LaufCommit(w) ==
    /\ tick[w].phase = "commit"
    /\ tick[w].dran \cap defekt = {}
    /\ arbeit' = [z \in Zeilen |-> IF z \in tick[w].beute THEN "getan" ELSE arbeit[z]]
    /\ wirkung' = [z \in Zeilen |-> wirkung[z] + (IF z \in tick[w].beute THEN 1 ELSE 0)]
    /\ tick' = [tick EXCEPT ![w].phase = "markieren", ![w].beute = {}]
    /\ UNCHANGED <<lauf, lock, defekt, fehler>>

\* Mutant: a failed run for several rows is not repeated one by one.
LaufScheitertGemeinsam(w) ==
    /\ tick[w].phase = "commit"
    /\ tick[w].dran \cap defekt # {}
    /\ tick' = [tick EXCEPT ![w].phase = "fehlschlag", ![w].beute = {}]
    /\ UNCHANGED <<lauf, arbeit, wirkung, lock, defekt, fehler>>

(* The job raises and is rolled back.  A run for several rows is repeated one by one. *)
LaufScheitert(w) ==
    /\ tick[w].phase = "commit"
    /\ tick[w].dran \cap defekt # {}
    /\ IF tick[w].sammel
       THEN \E z \in tick[w].dran :
              tick' = [tick EXCEPT ![w].phase = "lauf", ![w].sammel = FALSE, ![w].dran = {z},
                                   ![w].rest = tick[w].dran \ {z}, ![w].beute = {}]
       ELSE tick' = [tick EXCEPT ![w].phase = "fehlschlag", ![w].beute = {}]
    /\ UNCHANGED <<lauf, arbeit, wirkung, lock, defekt, fehler>>

(* markiere_lauf with erfolg=True: "jetzt" of the tick becomes the last success. *)
Markiere(w) ==
    /\ tick[w].phase = "markieren"
    /\ lauf' = [z \in Zeilen |-> IF z \in tick[w].dran
                                 THEN [alter |-> tick[w].versatz[z], pause |-> FALSE]
                                 ELSE lauf[z]]
    /\ NaechsteZeile(w)
    /\ UNCHANGED <<arbeit, wirkung, defekt, fehler>>

(* markiere_lauf with erfolg=False: the last success stays, the pause begins. *)
MarkiereFehlschlag(w) ==
    /\ tick[w].phase = "fehlschlag"
    /\ lauf' = [z \in Zeilen |-> [lauf[z] EXCEPT !.pause = @ \/ z \in tick[w].dran]]
    /\ NaechsteZeile(w)
    /\ UNCHANGED <<arbeit, wirkung, defekt, fehler>>

-----------------------------------------------------------------------------
Stoerung == stoerungen < MaxStoerungen /\ stoerungen' = stoerungen + 1

(* The container dies, or a database step outside the job raises and ends the tick.  Open
   transactions are rolled back and the connection gives up the lock. *)
Abbruch(w) ==
    /\ tick[w].phase # "ruht"
    /\ Stoerung
    /\ tick' = [tick EXCEPT ![w] = Ruhe]
    /\ lock' = IF lock = w THEN None ELSE lock
    /\ UNCHANGED <<lauf, arbeit, wirkung, defekt, abgerissen, defekte>>

(* The connection of the lock breaks; the tick does not notice. *)
Abriss(w) ==
    /\ lock = w
    /\ Stoerung
    /\ abgerissen' = TRUE
    /\ lock' = None
    /\ UNCHANGED <<lauf, arbeit, wirkung, tick, defekt, defekte>>

(* The slot of the tenants with the same hour passes.  Bound: at most MaxVersatz slots
   during a tick. *)
Slot(gruppe) ==
    /\ \A w \in Worker, z \in gruppe : tick[w].phase # "ruht" => tick[w].versatz[z] < MaxVersatz
    /\ lauf' = [z \in Zeilen |-> IF z \in gruppe /\ lauf[z].alter =< MaxVersatz
                                 THEN [lauf[z] EXCEPT !.alter = @ + 1] ELSE lauf[z]]
    /\ tick' = [w \in Worker |->
                   IF tick[w].phase = "ruht" THEN tick[w]
                   ELSE [tick[w] EXCEPT !.versatz =
                           [z \in Zeilen |-> IF z \in gruppe THEN @[z] + 1 ELSE @[z]]]]
    /\ UNCHANGED <<arbeit, wirkung, lock, defekt, fehler>>

(* scheduler_retry_minuten have passed. *)
PauseEndet(z) ==
    /\ lauf[z].pause
    /\ lauf' = [lauf EXCEPT ![z].pause = FALSE]
    /\ UNCHANGED <<arbeit, wirkung, lock, tick, defekt, fehler>>

(* A cycle becomes due, an invoice reaches the next reminder level. *)
WirdFaellig(z) ==
    /\ arbeit[z] # "faellig"
    /\ arbeit' = [arbeit EXCEPT ![z] = "faellig"]
    /\ wirkung' = [wirkung EXCEPT ![z] = 0]
    /\ UNCHANGED <<lauf, lock, tick, defekt, fehler>>

WirdDefekt(z) ==
    /\ z \in Anfaellig \ defekt /\ defekte < MaxDefekte
    /\ defekt' = defekt \cup {z}
    /\ defekte' = defekte + 1
    /\ UNCHANGED <<lauf, arbeit, wirkung, lock, tick, abgerissen, stoerungen>>

Repariert(z) ==
    /\ z \in defekt
    /\ defekt' = defekt \ {z}
    /\ UNCHANGED <<lauf, arbeit, wirkung, lock, tick, fehler>>

Arbeitet(w) ==
    \/ Pruefe(w) \/ LaufBeginn(w) \/ LaufCommit(w)
    \/ LaufScheitert(w) \/ Markiere(w) \/ MarkiereFehlschlag(w)

RunnerNext ==
    \/ \E w \in Worker : TickBeginn(w) \/ Arbeitet(w) \/ Abbruch(w) \/ Abriss(w)
    \/ \E g \in Stunden : Slot(g)
    \/ \E z \in Zeilen : PauseEndet(z) \/ WirdFaellig(z) \/ WirdDefekt(z) \/ Repariert(z)

(* The loop in worker.py goes on for ever and survives every exception; time passes.  A tick
   of one worker may find the lock taken again and again, and a slot may be held up by the
   bound on slow ticks, hence strong fairness for these two. *)
RunnerFairness ==
    /\ \A w \in Worker : /\ WF_runnerVars(Arbeitet(w))
                         /\ SF_runnerVars(TickBeginn(w))
    /\ \A g \in Stunden : SF_runnerVars(Slot(g))
    /\ \A z \in Zeilen : WF_runnerVars(PauseEndet(z))

RunnerSpec == RunnerInit /\ [][RunnerNext]_runnerVars /\ RunnerFairness

-----------------------------------------------------------------------------
(* job_runner.py promises protection against a second worker: a piece of work is done once.
   A job that locks its candidate rows keeps this even when the connection of the tick's
   lock breaks; the others (mahnwesen) rely on that lock alone. *)
EinmalProFaelligkeit ==
    \A z \in Zeilen : wirkung[z] > 1 => z \notin Gesperrt /\ abgerissen

(* job_laeufe decides what is due: whatever becomes due is done in the end, though ticks are
   cut off, locks break and other tenants' jobs fail for ever ("damit ein defekter Mandant
   die uebrigen nicht blockiert"). *)
ArbeitWirdGetan ==
    \A z \in Zeilen : []<>(z \in defekt \/ arbeit[z] # "faellig")
=============================================================================
