---------------------------- MODULE MCGemeinsam ----------------------------
(***************************************************************************)
(* Model checking what requests with overlapping transactions share: the   *)
(* open items, and the audit log with the number ranges.  The two models   *)
(* share no state, so a behaviour runs one of them, chosen by `teil`:      *)
(* "posten", "siegel" (entries and seals, one kind of document) or         *)
(* "nummern" (all kinds of documents, no entries).                         *)
(***************************************************************************)
EXTENDS MCOffenePosten, Protokoll

CONSTANTS t1, t2, kunde, rechnung

VARIABLE teil

ZweiTransaktionen == {t1, t2}
EinMandant == [t \in ZweiTransaktionen |-> 1]
ZweiMandanten == {1, 2}
ZweiBelegarten == {kunde, rechnung}
KundenVonHand == {kunde}

MCInit ==
    /\ teil \in {"posten", "siegel", "nummern"}
    /\ Init /\ PrInit
    /\ teil # "siegel" => ~mitSavepoint

(* The last entry is left to the behaviours without savepoints. *)
PrTeil ==
    /\ teil = "nummern" => letzteId' = 0
    /\ teil = "siegel" =>
         /\ mitSavepoint => letzteId' < MaxEintrag
         /\ \A t \in ZweiTransaktionen :
              tx'[t].beleg # KeinBeleg => tx'[t].beleg.bereich = <<1, rechnung>>

MCNext ==
    \/ teil = "posten" /\ Next /\ UNCHANGED <<teil, prVars>>
    \/ teil # "posten" /\ PrNext /\ PrTeil /\ UNCHANGED <<teil, vars>>

(* FairSpec, when the open items run. *)
MCFairness == \A a \in Anfragen : SF_vars(teil = "posten" /\ Schritt(a))

MCSpec == MCInit /\ [][MCNext]_<<teil, vars, prVars>> /\ MCFairness

(* Nobody waits for ever: every request on the open items comes to its end, and a transaction
   that can go on as EinerGehtWeiter says has a step. *)
NiemandWartetEwig == AnfrageEndet /\ []WeiterIstSchritt
============================================================================
