-------------------------- MODULE BelegePapierkorb --------------------------
(***************************************************************************)
(* Open items and the recycle bin (app/services/papierkorb_service.py).    *)
(*                                                                         *)
(* Deleting a job moves all its documents to the bin, shipped invoices and *)
(* credit notes included; restoring takes back one document at a time      *)
(* (Wiederherstellen).  Credit notes in the bin do not count.              *)
(***************************************************************************)
EXTENDS OffenePosten, FiniteSetsExt

CONSTANT MaxLoeschen    \* bound on how often the job is deleted

VARIABLE geloescht      \* how often it was

allevars == <<vars, geloescht>>

InitP == Init /\ geloescht = 0

\* delete_vorgang: soft_delete cascades to every document of the job.
VorgangLoeschen ==
  /\ geloescht < MaxLoeschen
  /\ \A a \in Anfragen, b \in Belege : ~HaeltZeile(a, b)
  /\ geloescht' = geloescht + 1
  /\ papierkorb' = papierkorb \cup {b \in Belege : beleg[b].status # "frei"}
  /\ gutgeschrieben' = [r \in Belege |->
       gutgeschrieben[r] + MapThenSumSet(LAMBDA g : beleg[g].brutto, GutschriftenZu(r))]
  /\ UNCHANGED <<beleg, zahlung, gezahlt, vorgang, gemeldet, anfrage>>

NextP ==
  \/ Next /\ UNCHANGED geloescht
  \/ VorgangLoeschen

SpecP == InitP /\ [][NextP]_allevars
=============================================================================
