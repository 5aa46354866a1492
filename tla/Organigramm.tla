---------------------------- MODULE Organigramm ----------------------------
(***************************************************************************)
(* The organisation chart of one tenant: a tree of positions, a forest of  *)
(* organisational units, and the occupancies of the positions              *)
(* (app/api/routes/organigramm.py, app/services/organigramm_service.py).   *)
(*                                                                         *)
(* A request that changes the structure takes the tenant's advisory lock   *)
(* first (baum_sperren) and holds it until its commit; requests about      *)
(* occupancies take none.  A request is two steps: it checks, and          *)
(* remembers what it will write, then it writes and commits.  Requests are *)
(* those of an administrator; what others may do is in Rechte.tla.         *)
(***************************************************************************)
EXTENDS Integers, FiniteSets

CONSTANTS
    Positionen,     \* ids of positions
    Wurzel,         \* the position without a parent
    Einheiten,      \* ids of organisational units
    Besetzer,       \* users that may hold a position
    OgAnfragen,     \* requests that may run at the same time
    MaxSitze,       \* bound on the occupancies ever created
    MaxKnoten,      \* bound on the positions and units that exist at a time
    OhneWert           \* stands for None

ASSUME OrganigrammAnnahme ==
    /\ IsFiniteSet(Positionen) /\ IsFiniteSet(Einheiten)
    /\ Wurzel \in Positionen /\ OhneWert \notin Positionen \cup Einheiten
    /\ MaxSitze \in Nat

VARIABLES
    position,       \* the table positionen
    einheit,        \* the table org_einheiten
    sitz,           \* per position and user: the kinds of its occupancies
    ogAnfrage,      \* what the running requests are about to write
    sitze,          \* how many occupancies were created
    ogEinzeln,      \* behaviours in which requests about occupancies never overlap others
    ogKopien        \* behaviours in which positions are duplicated

ogVars == <<position, einheit, sitz, ogAnfrage, sitze, ogEinzeln, ogKopien>>

Knoten(eltern, e, archiv) == [da |-> TRUE, eltern |-> eltern, einheit |-> e, archiv |-> archiv]
KeinKnoten == [da |-> FALSE, eltern |-> OhneWert, einheit |-> OhneWert, archiv |-> FALSE]
KnotenTyp(ids) == [da : BOOLEAN, eltern : ids \cup {OhneWert}, einheit : Einheiten \cup {OhneWert}, archiv : BOOLEAN]

\* "offen": gueltig_bis IS NULL; "bald" and "jetzt": with an end, before and after the start.
SitzArt == {"offen", "bald", "jetzt", "beendet"}

OhneSperre == {"keine", "besetzen", "beenden"}
MitSperre == {"anlegen", "umhaengen", "zuordnen", "archivieren", "loeschen",
              "einheitAnlegen", "einheitUmhaengen", "einheitArchivieren", "einheitLoeschen"}
Ruhe == [art |-> "keine", id |-> OhneWert, eltern |-> OhneWert, einheit |-> OhneWert, nutzer |-> OhneWert,
         alt |-> "offen", neu |-> "offen"]

OgTyp ==
    /\ position \in [Positionen -> KnotenTyp(Positionen)]
    /\ einheit \in [Einheiten -> KnotenTyp(Einheiten)]
    /\ sitz \in [Positionen -> [Besetzer -> SUBSET SitzArt]]
    /\ ogAnfrage \in [OgAnfragen ->
         [art : OhneSperre \cup MitSperre, id : Positionen \cup Einheiten \cup {OhneWert},
          eltern : Positionen \cup Einheiten \cup {OhneWert}, einheit : Einheiten \cup {OhneWert},
          nutzer : Besetzer \cup {OhneWert}, alt : SitzArt, neu : SitzArt]]
    /\ sitze \in 0 .. MaxSitze

OgInit ==
    /\ position = [p \in Positionen |-> IF p = Wurzel THEN Knoten(OhneWert, OhneWert, FALSE) ELSE KeinKnoten]
    /\ einheit = [e \in Einheiten |-> KeinKnoten]
    /\ sitz = [p \in Positionen |-> [n \in Besetzer |-> {}]]
    /\ ogAnfrage = [a \in OgAnfragen |-> Ruhe]
    /\ sitze = 0
    /\ ogEinzeln \in BOOLEAN
    /\ ogKopien \in BOOLEAN

-----------------------------------------------------------------------------
Gibt(tabelle, id) == id # OhneWert /\ tabelle[id].da
Lebt(tabelle, id) == Gibt(tabelle, id) /\ ~tabelle[id].archiv
Kinder(tabelle, id) == {k \in DOMAIN tabelle : tabelle[k].da /\ tabelle[k].eltern = id}

\* pfad_zur_wurzel: the node and all its ancestors.
PfadZurWurzel(tabelle, id) ==
    LET stufe[n \in 0 .. Cardinality(DOMAIN tabelle)] ==
            IF n = 0 THEN {id} ELSE stufe[n - 1] \cup {tabelle[k].eltern : k \in stufe[n - 1] \ {OhneWert}}
    IN stufe[Cardinality(DOMAIN tabelle)]

\* Mutant: the lock is not waited for.
BaumSperrenNicht(a) == ogAnfrage[a].art = "keine"

BaumSperren(a) ==
    /\ ogAnfrage[a].art = "keine"
    /\ \A b \in OgAnfragen : ogAnfrage[b].art \notin MitSperre
    /\ ogEinzeln => \A b \in OgAnfragen : ogAnfrage[b].art = "keine"

OhneBaumSperre(a) ==
    /\ ogAnfrage[a].art = "keine"
    /\ ogEinzeln => \A b \in OgAnfragen : ogAnfrage[b].art = "keine"

Vormerken(a, vorhaben) ==
    /\ ogAnfrage' = [ogAnfrage EXCEPT ![a] = vorhaben]
    /\ UNCHANGED <<position, einheit, sitz, sitze, ogEinzeln, ogKopien>>

Anzahl(tabelle) == Cardinality({k \in DOMAIN tabelle : tabelle[k].da})
Unbenutzt(tabelle, id) ==
    /\ ~tabelle[id].da /\ \A b \in OgAnfragen : ogAnfrage[b].id # id
    /\ Anzahl(position) + Anzahl(einheit) < MaxKnoten

-----------------------------------------------------------------------------
(***************************************************************************)
(* The checks of the requests.                                             *)
(***************************************************************************)

EinheitPruefen(e) == e = OhneWert \/ Lebt(einheit, e)

\* create_position
CreatePosition(a, p, eltern, e) ==
    /\ BaumSperren(a)
    /\ Unbenutzt(position, p)
    /\ Lebt(position, eltern)
    /\ EinheitPruefen(e)
    /\ Vormerken(a, [Ruhe EXCEPT !.art = "anlegen", !.id = p, !.eltern = eltern, !.einheit = e])

\* update_position with a new parent ...
MovePosition(a, p, eltern) ==
    /\ BaumSperren(a)
    /\ p # Wurzel /\ Lebt(position, p)
    /\ eltern # position[p].eltern
    /\ Lebt(position, eltern)
    /\ p \notin PfadZurWurzel(position, eltern)
    /\ Vormerken(a, [Ruhe EXCEPT !.art = "umhaengen", !.id = p, !.eltern = eltern])

\* ... and with a new unit.
AssignPosition(a, p, e) ==
    /\ BaumSperren(a)
    /\ Lebt(position, p)
    /\ e # position[p].einheit
    /\ EinheitPruefen(e)
    /\ Vormerken(a, [Ruhe EXCEPT !.art = "zuordnen", !.id = p, !.einheit = e])

\* duplicate_position takes the unit over as it is, and the source may be archived.
DuplicatePosition(a, p, kopie) ==
    /\ BaumSperren(a)
    /\ ogKopien
    /\ p # Wurzel /\ Gibt(position, p)
    /\ Lebt(position, position[p].eltern)
    /\ Unbenutzt(position, kopie)
    /\ Vormerken(a, [Ruhe EXCEPT !.art = "anlegen", !.id = kopie, !.eltern = position[p].eltern,
                                 !.einheit = position[p].einheit])

\* archive_position: an occupancy that starts and ends later does not count.
ArchivePosition(a, p) ==
    /\ BaumSperren(a)
    /\ p # Wurzel /\ Lebt(position, p)
    /\ \A k \in Kinder(position, p) : position[k].archiv
    /\ \A n \in Besetzer : sitz[p][n] \cap {"offen", "jetzt"} = {}
    /\ Vormerken(a, [Ruhe EXCEPT !.art = "archivieren", !.id = p])

DeletePosition(a, p) ==
    /\ BaumSperren(a)
    /\ p # Wurzel /\ Gibt(position, p)
    /\ Kinder(position, p) = {}
    /\ \A n \in Besetzer : sitz[p][n] = {}
    /\ Vormerken(a, [Ruhe EXCEPT !.art = "loeschen", !.id = p])

CreateBesetzung(a, p, n, art) ==
    /\ OhneBaumSperre(a)
    /\ Lebt(position, p)
    /\ sitze < MaxSitze
    /\ art = "offen" => "offen" \notin sitz[p][n]
    /\ Vormerken(a, [Ruhe EXCEPT !.art = "besetzen", !.id = p, !.nutzer = n, !.neu = art])

\* update_besetzung: a new end, unless the occupancy has ended.
UpdateBesetzung(a, p, n, alt, neu) ==
    /\ OhneBaumSperre(a)
    /\ alt \in sitz[p][n] \ {"beendet"}
    /\ neu \in (IF alt = "offen" THEN {"bald", "jetzt", "beendet"} ELSE {"beendet"})
    /\ alt # "bald"
    /\ Vormerken(a, [Ruhe EXCEPT !.art = "beenden", !.id = p, !.nutzer = n, !.alt = alt, !.neu = neu])

CreateOrgEinheit(a, e, eltern) ==
    /\ BaumSperren(a)
    /\ Unbenutzt(einheit, e)
    /\ EinheitPruefen(eltern)
    /\ Vormerken(a, [Ruhe EXCEPT !.art = "einheitAnlegen", !.id = e, !.eltern = eltern])

UpdateOrgEinheit(a, e, eltern) ==
    /\ BaumSperren(a)
    /\ Lebt(einheit, e)
    /\ eltern # einheit[e].eltern
    /\ EinheitPruefen(eltern)
    /\ eltern # OhneWert => e \notin PfadZurWurzel(einheit, eltern)
    /\ Vormerken(a, [Ruhe EXCEPT !.art = "einheitUmhaengen", !.id = e, !.eltern = eltern])

ArchiveOrgEinheit(a, e) ==
    /\ BaumSperren(a)
    /\ Lebt(einheit, e)
    /\ \A k \in Kinder(einheit, e) : einheit[k].archiv
    /\ \A p \in Positionen : position[p].einheit = e => position[p].archiv
    /\ Vormerken(a, [Ruhe EXCEPT !.art = "einheitArchivieren", !.id = e])

DeleteOrgEinheit(a, e) ==
    /\ BaumSperren(a)
    /\ Gibt(einheit, e)
    /\ Kinder(einheit, e) = {}
    /\ \A p \in Positionen : position[p].einheit # e
    /\ Vormerken(a, [Ruhe EXCEPT !.art = "einheitLoeschen", !.id = e])

-----------------------------------------------------------------------------
(***************************************************************************)
(* Writing and committing.                                                 *)
(***************************************************************************)

PositionNach(q) ==
    LET alt == position[q.id]
    IN CASE q.art = "anlegen"     -> Knoten(q.eltern, q.einheit, FALSE)
         [] q.art = "umhaengen"   -> [alt EXCEPT !.eltern = q.eltern]
         [] q.art = "zuordnen"    -> [alt EXCEPT !.einheit = q.einheit]
         [] q.art = "archivieren" -> [alt EXCEPT !.archiv = TRUE]
         [] q.art = "loeschen"    -> KeinKnoten

\* The occupancies of a deleted position go with it (ON DELETE CASCADE).
PositionSchreiben(a) ==
    LET q == ogAnfrage[a]
    IN /\ q.art \in {"anlegen", "umhaengen", "zuordnen", "archivieren", "loeschen"}
       /\ position' = [position EXCEPT ![q.id] = PositionNach(q)]
       /\ sitz' = IF q.art = "loeschen" THEN [sitz EXCEPT ![q.id] = [n \in Besetzer |-> {}]] ELSE sitz
       /\ ogAnfrage' = [ogAnfrage EXCEPT ![a] = Ruhe]
       /\ UNCHANGED <<einheit, sitze, ogEinzeln, ogKopien>>

EinheitNach(q) ==
    LET alt == einheit[q.id]
    IN CASE q.art = "einheitAnlegen"     -> Knoten(q.eltern, OhneWert, FALSE)
         [] q.art = "einheitUmhaengen"   -> [alt EXCEPT !.eltern = q.eltern]
         [] q.art = "einheitArchivieren" -> [alt EXCEPT !.archiv = TRUE]
         [] q.art = "einheitLoeschen"    -> KeinKnoten

EinheitSchreiben(a) ==
    LET q == ogAnfrage[a]
    IN /\ q.art \in {"einheitAnlegen", "einheitUmhaengen", "einheitArchivieren", "einheitLoeschen"}
       /\ einheit' = [einheit EXCEPT ![q.id] = EinheitNach(q)]
       /\ ogAnfrage' = [ogAnfrage EXCEPT ![a] = Ruhe]
       /\ UNCHANGED <<position, sitz, sitze, ogEinzeln, ogKopien>>

\* The foreign key and the unique index on open occupancies have the last word.
Einfuegbar(q) == Gibt(position, q.id) /\ (q.neu = "offen" => "offen" \notin sitz[q.id][q.nutzer])

BesetzungSchreiben(a) ==
    LET q == ogAnfrage[a]
    IN /\ q.art = "besetzen" /\ Einfuegbar(q) /\ sitze < MaxSitze
       /\ sitz' = [sitz EXCEPT ![q.id][q.nutzer] = @ \cup {q.neu}]
       /\ sitze' = sitze + 1
       /\ ogAnfrage' = [ogAnfrage EXCEPT ![a] = Ruhe]
       /\ UNCHANGED <<position, einheit, ogEinzeln, ogKopien>>

BesetzungScheitert(a) ==
    /\ ogAnfrage[a].art = "besetzen" /\ ~(Einfuegbar(ogAnfrage[a]) /\ sitze < MaxSitze)
    /\ ogAnfrage' = [ogAnfrage EXCEPT ![a] = Ruhe]
    /\ UNCHANGED <<position, einheit, sitz, sitze, ogEinzeln, ogKopien>>

\* The UPDATE overwrites the end of the row, whatever it is by now, and fails
\* when the row is gone.
BesetzungBeenden(a) ==
    LET q == ogAnfrage[a]
        da == sitz[q.id][q.nutzer]
    IN /\ q.art = "beenden"
       /\ \/ da = {} /\ UNCHANGED sitz
          \/ \E zeile \in da :
               /\ q.alt \in da => zeile = q.alt
               /\ sitz' = [sitz EXCEPT ![q.id][q.nutzer] = (@ \ {zeile}) \cup {q.neu}]
       /\ ogAnfrage' = [ogAnfrage EXCEPT ![a] = Ruhe]
       /\ UNCHANGED <<position, einheit, sitze, ogEinzeln, ogKopien>>

\* Time passes: an occupancy with an end starts or ends.
ZeitVergeht(p, n) ==
    /\ \E schritt \in {<<"bald", "jetzt">>, <<"jetzt", "beendet">>} :
         /\ schritt[1] \in sitz[p][n]
         /\ sitz' = [sitz EXCEPT ![p][n] = (@ \ {schritt[1]}) \cup {schritt[2]}]
    /\ UNCHANGED <<position, einheit, ogAnfrage, sitze, ogEinzeln, ogKopien>>

OgNext ==
    \/ \E a \in OgAnfragen, p, q \in Positionen, e \in Einheiten \cup {OhneWert} : CreatePosition(a, p, q, e)
    \/ \E a \in OgAnfragen, p, q \in Positionen : MovePosition(a, p, q) \/ DuplicatePosition(a, p, q)
    \/ \E a \in OgAnfragen, p \in Positionen, e \in Einheiten \cup {OhneWert} : AssignPosition(a, p, e)
    \/ \E a \in OgAnfragen, p \in Positionen : ArchivePosition(a, p) \/ DeletePosition(a, p)
    \/ \E a \in OgAnfragen, p \in Positionen, n \in Besetzer :
         \/ \E art \in SitzArt \ {"beendet"} : CreateBesetzung(a, p, n, art)
         \/ \E alt, neu \in SitzArt : UpdateBesetzung(a, p, n, alt, neu)
    \/ \E a \in OgAnfragen, e \in Einheiten, f \in Einheiten \cup {OhneWert} :
         CreateOrgEinheit(a, e, f) \/ UpdateOrgEinheit(a, e, f)
    \/ \E a \in OgAnfragen, e \in Einheiten : ArchiveOrgEinheit(a, e) \/ DeleteOrgEinheit(a, e)
    \/ \E a \in OgAnfragen : PositionSchreiben(a) \/ EinheitSchreiben(a)
         \/ BesetzungSchreiben(a) \/ BesetzungScheitert(a) \/ BesetzungBeenden(a)
    \/ \E p \in Positionen, n \in Besetzer : ZeitVergeht(p, n)

OgSpec == OgInit /\ [][OgNext]_ogVars

-----------------------------------------------------------------------------
(***************************************************************************)
(* The chart is one tree whatever requests overlap, and the units a        *)
(* forest; what is in use never hangs under something archived.  Two       *)
(* parts have a reservation: a duplicate may lie in an archived unit       *)
(* (duplicate_position does not look at it), and a position may be         *)
(* archived while somebody is being put on it (create_besetzung and        *)
(* update_besetzung take no lock).                                         *)
(***************************************************************************)
EinBaum == \A p \in Positionen : position[p].da => Wurzel \in PfadZurWurzel(position, p)
EinWald == \A e \in Einheiten : einheit[e].da => OhneWert \in PfadZurWurzel(einheit, e)
NichtsUnterArchiviertem ==
    /\ \A p \in Positionen \ {Wurzel} : Lebt(position, p) => Lebt(position, position[p].eltern)
    /\ \A e \in Einheiten : Lebt(einheit, e) => EinheitPruefen(einheit[e].eltern)
EinheitInGebrauch ==
    \A p \in Positionen : Lebt(position, p) /\ position[p].einheit # OhneWert =>
        Gibt(einheit, position[p].einheit) /\ (ogKopien \/ Lebt(einheit, position[p].einheit))
ArchiviertIstUnbesetzt ==
    ogEinzeln => \A p \in Positionen, n \in Besetzer : position[p].archiv => "offen" \notin sitz[p][n]

OrganigrammGilt == EinBaum /\ EinWald /\ NichtsUnterArchiviertem /\ EinheitInGebrauch /\ ArchiviertIstUnbesetzt
=============================================================================
