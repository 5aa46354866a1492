--------------------------- MODULE MCHintergrund ---------------------------
(***************************************************************************)
(* Model checking the background work: the scheduler loop, the exports,    *)
(* the clean-up of the object store and the data import.  They share no    *)
(* state, so a behaviour runs one of them, chosen by `teil`, and leaves    *)
(* the others in their initial state.                                      *)
(***************************************************************************)
EXTENDS JobRunner, ExportJob, S3Aufraeumen, Datenimport, TLC

CONSTANTS w1, w2, z1, z2, e1, e2, b1, b2, s1, s2, r1, r2, i1, i2, a1, a2, f1, f2

VARIABLE teil

MCWorker == {w1, w2}
MCZeilen == {z1, z2}
MCPlan == <<{z1, z2}>>
MCStunden == {{z1, z2}}
MCGesperrt == {z1}
MCAnfaellig == {z2}
MCExporte == {e1, e2}
MCBetrieb == (e1 :> 1) @@ (e2 :> 1)
MCBearbeiter == {b1, b2}
MCSaetze == {s1, s2}
MCRaumpfleger == {r1, r2}
MCImZeilen == {i1, i2}
MCImAnfragen == {a1, a2}
MCBerichte == {f1, f2}
MCUngueltigeMengen == {{}, {i2}}

MCInit ==
    /\ teil \in {"runner", "export", "s3", "import"}
    /\ RunnerInit /\ ExportInit /\ S3Init /\ ImInit
    /\ teil # "import" => ~imZugleich /\ imLauf.ungueltig = {}

MCNext ==
    \/ teil = "runner" /\ RunnerNext /\ UNCHANGED <<teil, exportVars, s3Vars, imVars>>
    \/ teil = "export" /\ ExportNext /\ UNCHANGED <<teil, runnerVars, s3Vars, imVars>>
    \/ teil = "s3" /\ S3Next /\ UNCHANGED <<teil, runnerVars, exportVars, imVars>>
    \/ teil = "import" /\ ImNext /\ UNCHANGED <<teil, runnerVars, exportVars, s3Vars>>

(* RunnerFairness, ExportFairness, S3Fairness and ImFairness of the part that runs. *)
MCFairness ==
    /\ \A w \in Worker : /\ WF_runnerVars(teil = "runner" /\ Arbeitet(w))
                         /\ SF_runnerVars(teil = "runner" /\ TickBeginn(w))
    /\ \A g \in Stunden : SF_runnerVars(teil = "runner" /\ Slot(g))
    /\ \A z \in Zeilen : WF_runnerVars(teil = "runner" /\ PauseEndet(z))
    /\ \A b \in Bearbeiter : WF_exportVars(teil = "export" /\ BauSchritt(b))
    /\ \A e \in Exporte : WF_exportVars(teil = "export" /\ LaufzeitUeberschritten(e))
    /\ \A r \in Raumpfleger : WF_s3Vars(teil = "s3" /\ PflegeSchritt(r))
    /\ \A s \in Saetze : WF_s3Vars(teil = "s3" /\ WartezeitEndet(s))
    /\ WF_imVars(teil = "import" /\ FristEndet)
    /\ SF_imVars(teil = "import" /\ \E a \in ImAnfragen : RaeumeBeginnt(a))
    /\ \A a \in ImAnfragen : WF_imVars(teil = "import" /\ ImportSchritt(a))

MCSpec == MCInit /\ [][MCNext]_<<teil, runnerVars, exportVars, s3Vars, imVars>> /\ MCFairness

(* The tables and local states of all parts keep their types. *)
HintergrundTyp == RunnerTyp /\ ExportTyp /\ S3Typ /\ ImTyp

(* What is deleted, offered or reported in the background is true also when the one at work dies:
   an export has one builder and its download exists; objects go after the commit of the purge
   only, and an order that is reported as done has left nothing (export_job_service.py,
   s3_aufraeumen_service.py). *)
AuftraegeSicher ==
    /\ EinBearbeiterJeExport /\ AngebotenesExistiert
    /\ ObjekteNurNachCommit /\ ErledigtHeisstWeg

(* Every order given to the background ends: an export is decided, a deletion is done or
   reported, an uploaded file goes (QuelleVerfaellt), also when whoever was at it died. *)
AuftraegeEnden ==
    /\ ExportWirdEntschieden /\ LoeschauftragEndet
    /\ []<>(teil = "import" => ~imLauf.quelle)
============================================================================
