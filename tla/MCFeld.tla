------------------------------ MODULE MCFeld ------------------------------
(***************************************************************************)
(* Model checking the work in the field: the offline queue of the app, and *)
(* the recurring jobs.  The two share no state, so a behaviour runs one of *)
(* them, chosen by `teil`, and leaves the other in its initial state.      *)
(***************************************************************************)
EXTENDS OfflineOutbox, Zyklen, TLC

CONSTANTS e1, e2, t1, t2, n1, z1, z2, v1, v2, p1, k1, k2

VARIABLE teil

(* A status change and a photo, two tabs of one user. *)
MCEintraege == {e1, e2}
MCArt == (e1 :> "status") @@ (e2 :> "foto")
MCTabs == {t1, t2}
MCNutzer == {n1}

(* An inspection cycle and a target of a standing order. *)
MCZiele == {z1, z2}
MCPruefzyklen == {z1}
MCVorgaenge == {v1, v2}
MCScheduler == {k1, k2}
MCPatcher == {p1}

MCInit == teil \in {"offline", "zyklen"} /\ OffInit /\ ZyInit

MCNext ==
    \/ teil = "offline" /\ OffNext /\ UNCHANGED <<teil, zyVars>>
    \/ teil = "zyklen" /\ ZyNext /\ UNCHANGED <<teil, offVars>>

(* OffFairness and ZyFairness of the part that runs. *)
MCFairness ==
    /\ \A p \in Tabs \cup Eintraege : /\ WF_offVars(teil = "offline" /\ ServerLiest(p))
                                      /\ WF_offVars(teil = "offline" /\ ServerSchreibt(p))
    /\ \A t \in Tabs : /\ WF_offVars(teil = "offline" /\ SyncBeginn(t))
                       /\ WF_offVars(teil = "offline" /\ Sende(t))
                       /\ WF_offVars(teil = "offline" /\ SyncGelungen(t))
                       /\ WF_offVars(teil = "offline" /\ SyncAbgelehnt(t))
    /\ \A s \in Scheduler : /\ WF_zyVars(teil = "zyklen" /\ LaufLiest(s))
                            /\ SF_zyVars(teil = "zyklen" /\ LaufSchreibt(s))

MCSpec == MCInit /\ [][MCNext]_<<teil, offVars, zyVars>> /\ MCFairness

(* The tables keep their types. *)
FeldTyp == OffTyp /\ ZyTyp

(* Nothing waits for good: the queue empties, and a due target gets its job. *)
NichtsBleibtLiegen == WarteschlangeLeertSich /\ FaelligBekommtVorgang
============================================================================
