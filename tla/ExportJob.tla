----------------------------- MODULE ExportJob -----------------------------
(***************************************************************************)
(* Exports of a tenant's data: services/export_job_service.py with         *)
(* api/routes/exporte.py.                                                  *)
(*                                                                         *)
(* A request only queues an export.  A background task of the API or the   *)
(* export loop of a worker (both a "Bearbeiter" here) claims the oldest    *)
(* one, builds the ZIP, uploads it and writes the result, each in a        *)
(* transaction of its own.  An export that runs for more than MAX_LAUFZEIT *)
(* is given up by whoever looks next.  The clean-up removes expired ZIPs.  *)
(***************************************************************************)
EXTENDS Integers, Sequences, FiniteSets

CONSTANTS
    Exporte,        \* ids of exports, each used once
    Betrieb,        \* export -> the tenant that asks for it
    Bearbeiter,     \* API background tasks and worker loops
    KeinExport,
    MaxAbstuerze    \* bound: crashes

ASSUME ExportAnnahme == KeinExport \notin Exporte /\ MaxAbstuerze \in Nat

VARIABLES
    export,        \* export -> row of mandant_exporte
    warteschlange, \* waiting exports, oldest first (angefordert_am)
    zip,           \* exports whose ZIP is in the object store
    bau,           \* builder -> its local state
    raeumer,       \* the clean-up: rows it has selected, rows whose ZIP it has removed
    abstuerze

exportVars == <<export, warteschlange, zip, bau, raeumer, abstuerze>>

Aktiv == {"wartend", "laeuft"}
Endzustaende == {"fehler", "fertig", "abgelaufen"}

Leer == [phase |-> "ruht", job |-> KeinExport, haengend |-> {}]

ExportZeile == [status : {"keiner"} \cup Aktiv \cup Endzustaende,
                zuLang : BOOLEAN, abgelaufen : BOOLEAN, key : BOOLEAN]

BauTyp == [phase : {"ruht", "uebernehmen", "baut", "gebaut", "gescheitert"},
           job : Exporte \cup {KeinExport}, haengend : SUBSET Exporte]

ExportTyp ==
    /\ export \in [Exporte -> ExportZeile]
    /\ warteschlange \in Seq(Exporte)
    /\ zip \subseteq Exporte
    /\ bau \in [Bearbeiter -> BauTyp]
    /\ raeumer \in [laeuft : BOOLEAN, faellig : SUBSET Exporte, entfernt : SUBSET Exporte]
    /\ abstuerze \in 0..MaxAbstuerze

ExportInit ==
    /\ export = [e \in Exporte |-> [status |-> "keiner", zuLang |-> FALSE,
                                    abgelaufen |-> FALSE, key |-> FALSE]]
    /\ warteschlange = <<>>
    /\ zip = {}
    /\ bau = [b \in Bearbeiter |-> Leer]
    /\ raeumer = [laeuft |-> FALSE, faellig |-> {}, entfernt |-> {}]
    /\ abstuerze = 0

(* anfordern: the query and, for overlapping requests, the partial unique index. *)
Anfordern(e) ==
    /\ export[e].status = "keiner"
    /\ \A f \in Exporte : Betrieb[f] = Betrieb[e] => export[f].status \notin Aktiv
    /\ export' = [export EXCEPT ![e].status = "wartend"]
    /\ warteschlange' = Append(warteschlange, e)
    /\ UNCHANGED <<zip, bau, raeumer, abstuerze>>

-----------------------------------------------------------------------------
\* Mutant: exports that run for too long are not looked for.
LiesKeineHaengenden(b) ==
    /\ bau[b].phase = "ruht"
    /\ bau' = [bau EXCEPT ![b].phase = "uebernehmen"]
    /\ UNCHANGED <<export, warteschlange, zip, raeumer, abstuerze>>

(* verarbeite_naechsten, first transaction: the exports that run for too long are read ... *)
LiesHaengende(b) ==
    /\ bau[b].phase = "ruht"
    /\ bau' = [bau EXCEPT ![b].phase = "uebernehmen",
                          ![b].haengend = {e \in Exporte : export[e].status = "laeuft" /\ export[e].zuLang}]
    /\ UNCHANGED <<export, warteschlange, zip, raeumer, abstuerze>>

(* ... and written by id, without looking at their status again; then the oldest waiting
   export is claimed. *)
Uebernehmen(b) ==
    /\ bau[b].phase = "uebernehmen"
    /\ LET aufgegeben == [e \in Exporte |-> IF e \in bau[b].haengend
                                            THEN [export[e] EXCEPT !.status = "fehler"]
                                            ELSE export[e]]
       IN IF warteschlange = <<>>
          THEN /\ export' = aufgegeben
               /\ bau' = [bau EXCEPT ![b] = Leer]
               /\ UNCHANGED warteschlange
          ELSE /\ export' = [aufgegeben EXCEPT ![Head(warteschlange)].status = "laeuft"]
               /\ bau' = [bau EXCEPT ![b] = [Leer EXCEPT !.phase = "baut", !.job = Head(warteschlange)]]
               /\ warteschlange' = Tail(warteschlange)
    /\ UNCHANGED <<zip, raeumer, abstuerze>>

(* _erzeugen: read everything, write the ZIP, upload it. *)
Erzeugen(b) ==
    /\ bau[b].phase = "baut"
    /\ zip' = zip \cup {bau[b].job}
    /\ bau' = [bau EXCEPT ![b].phase = "gebaut"]
    /\ UNCHANGED <<export, warteschlange, raeumer, abstuerze>>

\* Mutant: a failing upload is taken for a success.
ErzeugenScheitertUnbemerkt(b) ==
    /\ bau[b].phase = "baut"
    /\ zip' \in {zip, zip \cup {bau[b].job}}
    /\ bau' = [bau EXCEPT ![b].phase = "gebaut"]
    /\ UNCHANGED <<export, warteschlange, raeumer, abstuerze>>

(* It raises; the upload may have reached the store all the same. *)
ErzeugenScheitert(b) ==
    /\ bau[b].phase = "baut"
    /\ zip' \in {zip, zip \cup {bau[b].job}}
    /\ bau' = [bau EXCEPT ![b].phase = "gescheitert"]
    /\ UNCHANGED <<export, warteschlange, raeumer, abstuerze>>

(* Second transaction: the result, whatever the row says by now. *)
SchreibeFertig(b) ==
    /\ bau[b].phase = "gebaut"
    /\ export' = [export EXCEPT ![bau[b].job] = [@ EXCEPT !.status = "fertig", !.key = TRUE]]
    /\ bau' = [bau EXCEPT ![b] = Leer]
    /\ UNCHANGED <<warteschlange, zip, raeumer, abstuerze>>

SchreibeFehler(b) ==
    /\ bau[b].phase = "gescheitert"
    /\ export' = [export EXCEPT ![bau[b].job].status = "fehler"]
    /\ bau' = [bau EXCEPT ![b] = Leer]
    /\ UNCHANGED <<warteschlange, zip, raeumer, abstuerze>>

(* The process dies, or one of these transactions raises. *)
BearbeiterStirbt(b) ==
    /\ bau[b].phase # "ruht" /\ abstuerze < MaxAbstuerze
    /\ bau' = [bau EXCEPT ![b] = Leer]
    /\ abstuerze' = abstuerze + 1
    /\ UNCHANGED <<export, warteschlange, zip, raeumer>>

-----------------------------------------------------------------------------
(* raeume_auf: one transaction around the calls to the object store. *)
RaeumeBeginn ==
    /\ ~raeumer.laeuft
    /\ \E e \in Exporte : export[e].status = "fertig" /\ export[e].abgelaufen
    /\ raeumer' = [laeuft |-> TRUE, entfernt |-> {},
                   faellig |-> {e \in Exporte : export[e].status = "fertig" /\ export[e].abgelaufen}]
    /\ UNCHANGED <<export, warteschlange, zip, bau, abstuerze>>

RaeumeObjekt(e) ==
    /\ e \in raeumer.faellig
    /\ zip' = IF export[e].key THEN zip \ {e} ELSE zip
    /\ raeumer' = [raeumer EXCEPT !.faellig = @ \ {e}, !.entfernt = @ \cup {e}]
    /\ UNCHANGED <<export, warteschlange, bau, abstuerze>>

(* The store refuses: this row is left for the next time. *)
RaeumeObjektScheitert(e) ==
    /\ e \in raeumer.faellig
    /\ raeumer' = [raeumer EXCEPT !.faellig = @ \ {e}]
    /\ UNCHANGED <<export, warteschlange, zip, bau, abstuerze>>

RaeumeCommit ==
    /\ raeumer.laeuft /\ raeumer.faellig = {}
    /\ export' = [e \in Exporte |-> IF e \in raeumer.entfernt
                                    THEN [export[e] EXCEPT !.status = "abgelaufen", !.key = FALSE]
                                    ELSE export[e]]
    /\ raeumer' = [raeumer EXCEPT !.laeuft = FALSE, !.entfernt = {}]
    /\ UNCHANGED <<warteschlange, zip, bau, abstuerze>>

RaeumeStirbt ==
    /\ raeumer.laeuft /\ abstuerze < MaxAbstuerze
    /\ raeumer' = [laeuft |-> FALSE, faellig |-> {}, entfernt |-> {}]
    /\ abstuerze' = abstuerze + 1
    /\ UNCHANGED <<export, warteschlange, zip, bau>>

(* MAX_LAUFZEIT and laeuft_ab_am pass. *)
LaufzeitUeberschritten(e) ==
    /\ export[e].status = "laeuft" /\ ~export[e].zuLang
    /\ export' = [export EXCEPT ![e].zuLang = TRUE]
    /\ UNCHANGED <<warteschlange, zip, bau, raeumer, abstuerze>>

LaeuftAb(e) ==
    /\ export[e].status = "fertig" /\ ~export[e].abgelaufen
    /\ export' = [export EXCEPT ![e].abgelaufen = TRUE]
    /\ UNCHANGED <<warteschlange, zip, bau, raeumer, abstuerze>>

BauSchritt(b) ==
    \/ LiesHaengende(b) \/ Uebernehmen(b) \/ Erzeugen(b) \/ ErzeugenScheitert(b)
    \/ SchreibeFertig(b) \/ SchreibeFehler(b)

Raeumen ==
    \/ RaeumeBeginn \/ RaeumeCommit
    \/ \E e \in Exporte : RaeumeObjekt(e) \/ RaeumeObjektScheitert(e)

ExportNext ==
    \/ \E b \in Bearbeiter : BauSchritt(b) \/ BearbeiterStirbt(b)
    \/ Raeumen \/ RaeumeStirbt
    \/ \E e \in Exporte : Anfordern(e) \/ LaufzeitUeberschritten(e) \/ LaeuftAb(e)

(* _export_loop never ends, a build ends or raises, time passes. *)
ExportFairness ==
    /\ \A b \in Bearbeiter : WF_exportVars(BauSchritt(b))
    /\ \A e \in Exporte : WF_exportVars(LaufzeitUeberschritten(e))

ExportSpec == ExportInit /\ [][ExportNext]_exportVars /\ ExportFairness

-----------------------------------------------------------------------------
(* "jeder Auftrag genau einmal": no two builders ever work on the same export, even when one
   of them is slow enough to be given up. *)
EinBearbeiterJeExport ==
    \A a, b \in Bearbeiter : bau[a].job # KeinExport /\ bau[a].job = bau[b].job => a = b

(* get_download_url hands out a link for every finished export: until it expires its ZIP is
   there, whatever late results, give-ups and clean-ups cut off half-way do. *)
AngebotenesExistiert ==
    \A e \in Exporte : export[e].status = "fertig" /\ ~export[e].abgelaufen => e \in zip /\ export[e].key

(* A tenant is never locked out of exporting: an export that was asked for is decided, also
   when whoever built it died. *)
ExportWirdEntschieden ==
    \A e \in Exporte : []<>(export[e].status \notin Aktiv)
=============================================================================
