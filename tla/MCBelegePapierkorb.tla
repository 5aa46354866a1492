--------------------------- MODULE MCBelegePapierkorb ---------------------------
(***************************************************************************)
(* Model checking the open items, one request at a time, and the supplier  *)
(* invoices.  The two share no state, so a behaviour runs one of them,     *)
(* chosen by `teil`, and leaves the other in its initial state.            *)
(*   "posten"  the open items.  In some behaviours the job and its         *)
(*             documents may be deleted, in the others (`ohneLoeschen`)    *)
(*             documents only enter the recycle bin one by one.            *)
(*   "buchen"  one supplier invoice, one request at a time, all of them    *)
(*   "belege"  one supplier invoice, two requests on its receipt           *)
(*   "post"    two supplier invoices, the mail intake and the import       *)
(***************************************************************************)
EXTENDS BelegePapierkorb, Rechnungseingang, TLC

CONSTANTS r1, x1, x2, x3, z1, z2, z3, a1, a2, e1, e2, d1, d2

VARIABLES teil, ohneLoeschen

EineRechnung == {r1}
VierBelege == {r1, x1, x2, x3}
DreiBuchungen == {z1, z2, z3}
EineAnfrage == {a1}

\* Three units, so that several partial payments and credit notes meet.
BetragDrei == [r \in EineRechnung |-> 3]

Symmetrie == Permutations({x1, x2, x3}) \cup Permutations({z1, z2, z3})

MCEingangsrechnungen == {e1, e2}
MCErAnfragen == {a1, a2}

\* Two files of one invoice.
MCDateien == {d1, d2}
MCNummer == [d \in MCDateien |-> 1]

MCInit ==
  /\ teil \in {"posten", "buchen", "belege", "post"}
  /\ InitP /\ ErInit
  /\ ohneLoeschen \in BOOLEAN
  /\ erZugleich = (teil = "belege")
  /\ teil # "posten" => ohneLoeschen

Posten ==
  \/ Next /\ UNCHANGED geloescht
  \/ ~ohneLoeschen /\ VorgangLoeschen

\* Only the first row is used, and no mail arrives.
EineZeile ==
  /\ rechnung'[e2] = KeineZeile
  /\ \A a \in ErAnfragen : bearbeitung'[a].zeile # e2
  /\ UNCHANGED <<postfach, eingang, gespeichert>>

ImTeil ==
  /\ teil = "buchen" => EineZeile /\ bearbeitung'[a2] = OhneAnfrage
  /\ teil = "belege" =>
        /\ EineZeile /\ rechnung'[e1].netto = 1
        /\ \A a \in ErAnfragen : bearbeitung'[a].art \in Belegarten \cup {"bezahlt", "loeschen", Leer}
  /\ teil = "post" =>
        /\ bearbeitung'[a2] = OhneAnfrage /\ bearbeitung'[a1].art \in {"import", "loeschen", Leer}
        /\ bearbeitung'[a1].art = "import" => bearbeitung'[a1].alt.beleg = 0
        /\ \A e \in Eingangsrechnungen : rechnung'[e].netto < 2
        /\ \A u \in DOMAIN postfach' : postfach'[u].datei = d1 <=> postfach'[u].art = "xml"

MCNext ==
  \/ teil = "posten" /\ Posten /\ UNCHANGED <<teil, ohneLoeschen, erVars>>
  \/ teil # "posten" /\ ErNext /\ ImTeil /\ UNCHANGED <<teil, ohneLoeschen, allevars>>

MCSpec == MCInit /\ [][MCNext]_<<teil, ohneLoeschen, allevars, erVars>>

(***************************************************************************)
(* Without concurrent requests and without deleting the job the ledger is  *)
(* the abstract one: every request is one booking and the status follows   *)
(* from the amounts, whatever payments, credit notes, cancellations and    *)
(* reversals came before.                                                  *)
(***************************************************************************)
Kontobuch ==
  [b \in Rechnungen |->
     IF ohneLoeschen THEN [status |-> beleg[b].status, gezahlt |-> gezahlt[b], gut |-> gutgeschrieben[b]]
                     ELSE [status |-> "entwurf", gezahlt |-> 0, gut |-> 0]]

HauptbuchOhneLoeschen == INSTANCE Forderung WITH konto <- Kontobuch

ForderungOhneLoeschen == HauptbuchOhneLoeschen!Spec

(***************************************************************************)
(* The tables of both parts keep their types, a cancelled document has     *)
(* exactly one counter-document, and a job is settled by money only.  The  *)
(* last part with the same reservation: after the job and its credit notes *)
(* were deleted, a restored and fully credited invoice may be marked as    *)
(* paid and settles the job (restore in papierkorb_service.py checks no    *)
(* amounts).                                                               *)
(***************************************************************************)
BelegeStimmen ==
  /\ TypeOK /\ ErTyp
  /\ GenauEinStorno
  /\ ohneLoeschen => AbgerechnetHatGrund
=============================================================================
