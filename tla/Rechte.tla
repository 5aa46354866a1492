------------------------------- MODULE Rechte -------------------------------
(***************************************************************************)
(* Who may manage rights (app/services/berechtigung_service.py,            *)
(* eskalation_service.py, organigramm_sync_service.py, app/api/routes/     *)
(* users.py, account_typen.py, organigramm.py).                            *)
(*                                                                         *)
(* A custom user's rights come from the positions the user holds: the      *)
(* account type of each, corrected by overrides of the position, and the   *)
(* overrides of the user on top.  One right is modelled, rechte_verwalten, *)
(* with a reach: 0 not held, 1 own positions ("eigene"), 2 the whole       *)
(* tenant ("mandant"); the reaches between count as 1.  Each account type  *)
(* has its position below the root.  The requests are those of an          *)
(* administrator, or of somebody from outside the tenant: a custom user's  *)
(* requests write the same after further refusals (the reach of the right  *)
(* and mehr_rechte_pruefen).  A request is one step: overlapping requests  *)
(* can defeat the checks and are not modelled here.                        *)
(***************************************************************************)
EXTENDS Integers, FiniteSets, FiniteSetsExt

CONSTANTS
    Nutzer,         \* ids of users
    Typen,          \* ids of account types, and of their positions
    Geschaeftsleitung,  \* the root position; as "typ" of a user: mandant_admin
    MaxOverrides    \* bound on the rows of position_rechte and user_rechte

VARIABLES
    konto,          \* users: stand, and the account type (Geschaeftsleitung: mandant_admin)
    kontotyp,       \* account types: exist, nur_zugewiesene_kunden, right granted
    platz,          \* open occupancies <<user, position>>
    positionRecht,  \* overrides of positions
    nutzerRecht     \* overrides of users

reVars == <<konto, kontotyp, platz, positionRecht, nutzerRecht>>

Plaetze == Typen \cup {Geschaeftsleitung}
Override == {[wirkung |-> "keine", rang |-> 0], [wirkung |-> "verweigern", rang |-> 0]}
              \cup [wirkung : {"erlauben"}, rang : 0 .. 2]    \* rang 0: scope IS NULL
KeinOverride == [wirkung |-> "keine", rang |-> 0]
Weg == [stand |-> "weg", typ |-> Geschaeftsleitung]
KeinTyp == [da |-> FALSE, nur |-> FALSE, erlaubt |-> FALSE]

ReTyp ==
    /\ konto \in [Nutzer -> [stand : {"aktiv", "inaktiv", "weg"}, typ : Plaetze]]
    /\ kontotyp \in [Typen -> [da : BOOLEAN, nur : BOOLEAN, erlaubt : BOOLEAN]]
    /\ platz \subseteq Nutzer \X Plaetze
    /\ positionRecht \in [Plaetze -> Override]
    /\ nutzerRecht \in [Nutzer -> Override]

\* create_mandant: no users yet and no account types; somebody from outside starts.
ReInit ==
    /\ konto = [n \in Nutzer |-> Weg]
    /\ kontotyp = [t \in Typen |-> KeinTyp]
    /\ platz = {}
    /\ positionRecht = [p \in Plaetze |-> KeinOverride]
    /\ nutzerRecht = [n \in Nutzer |-> KeinOverride]

-----------------------------------------------------------------------------
(***************************************************************************)
(* Effective rights.                                                       *)
(***************************************************************************)

Mehr(x, y) == IF x > y THEN x ELSE y

Ueberschrieben(rang, o) ==
    CASE o.wirkung = "keine"      -> rang
      [] o.wirkung = "verweigern" -> 0
      [] o.wirkung = "erlauben"   -> Mehr(rang, IF o.rang > 0 THEN o.rang ELSE IF rang > 0 THEN rang ELSE 2)

\* account_typ_rechte.scope follows the flag nur_zugewiesene_kunden.
TypRang(p) ==
    IF p = Geschaeftsleitung \/ ~kontotyp[p].erlaubt THEN 0 ELSE IF kontotyp[p].nur THEN 1 ELSE 2
PositionRang(p) == Ueberschrieben(TypRang(p), positionRecht[p])

PlaetzeVon(n) == {p \in Plaetze : <<n, p>> \in platz}
IstAdmin(n) == konto[n].typ = Geschaeftsleitung

\* effektive_rechte: nothing without a position, not even the user's overrides.
Rang(n) ==
    IF IstAdmin(n) THEN 2
    ELSE IF PlaetzeVon(n) = {} THEN 0
    ELSE Ueberschrieben(Max({PositionRang(p) : p \in PlaetzeVon(n)}), nutzerRecht[n])

AktiveAdmins == {n \in Nutzer : konto[n] = [stand |-> "aktiv", typ |-> Geschaeftsleitung]}

\* verwaltung_vorhanden
VerwaltungVorhanden == AktiveAdmins # {} \/ \E n \in Nutzer : konto[n].stand = "aktiv" /\ Rang(n) = 2

\* Mutant: the context manager only looks, and never refuses.
VerwaltungNurGelesen == VerwaltungVorhanden \in BOOLEAN

\* verwaltung_bleibt_erhalten around the writes of a step.
VerwaltungBleibtErhalten == VerwaltungVorhanden => VerwaltungVorhanden'

-----------------------------------------------------------------------------
(***************************************************************************)
(* Users.                                                                  *)
(***************************************************************************)

TypGibtEs(t) == IF t = Geschaeftsleitung THEN TRUE ELSE kontotyp[t].da

\* create_user, with the occupancy organigramm_sync_service adds.
CreateUser(n, t) ==
    /\ konto[n].stand = "weg" /\ TypGibtEs(t)
    /\ konto' = [konto EXCEPT ![n] = [stand |-> "aktiv", typ |-> t]]
    /\ platz' = platz \cup {<<n, t>>}
    /\ UNCHANGED <<kontotyp, positionRecht, nutzerRecht>>

\* letzten_admin_pruefen
LetzterAdmin(n) == AktiveAdmins = {n}

\* besetzung_pflegen after a change of role, account type or aktiv.
PlatzGepflegt(n, alt, neu) ==
    IF neu.stand # "aktiv" THEN {s \in platz : s[1] # n}
    ELSE (IF alt.typ = neu.typ THEN platz ELSE platz \ {<<n, alt.typ>>})
           \cup (IF alt.typ # neu.typ \/ alt.stand # "aktiv" THEN {<<n, neu.typ>>} ELSE {})

\* update_user; the role may only be taken away from an administrator who is not the last.
UpdateUser(n, neu) ==
    /\ konto[n].stand # "weg" /\ neu # konto[n] /\ TypGibtEs(neu.typ)
    /\ (neu.stand = "inaktiv" \/ neu.typ # Geschaeftsleitung) => ~LetzterAdmin(n)
    /\ konto' = [konto EXCEPT ![n] = neu]
    /\ platz' = PlatzGepflegt(n, konto[n], neu)
    /\ UNCHANGED <<kontotyp, positionRecht, nutzerRecht>>
    /\ VerwaltungBleibtErhalten

\* delete_user, or anonymisiere_user where other rows point at the user.  Other
\* administrators count here even when they are deactivated.
DeleteUser(n) ==
    /\ konto[n].stand # "weg"
    /\ IstAdmin(n) => \E m \in Nutzer \ {n} : konto[m].stand # "weg" /\ IstAdmin(m)
    /\ konto' = [konto EXCEPT ![n] = Weg]
    /\ platz' = {s \in platz : s[1] # n}
    /\ nutzerRecht' = [nutzerRecht EXCEPT ![n] = KeinOverride]
    /\ UNCHANGED <<kontotyp, positionRecht>>

-----------------------------------------------------------------------------
(***************************************************************************)
(* Account types.                                                          *)
(***************************************************************************)

CreateAccountTyp(t, nur) ==
    /\ ~kontotyp[t].da
    /\ kontotyp' = [kontotyp EXCEPT ![t] = [da |-> TRUE, nur |-> nur, erlaubt |-> FALSE]]
    /\ UNCHANGED <<konto, platz, positionRecht, nutzerRecht>>

\* update_account_typ: the flag is translated into the scopes of the type's rights.
UpdateTyp(t) ==
    /\ kontotyp[t].da
    /\ kontotyp' = [kontotyp EXCEPT ![t].nur = ~@]
    /\ UNCHANGED <<konto, platz, positionRecht, nutzerRecht>>
    /\ VerwaltungBleibtErhalten

\* delete_account_typ: no user of the type is left; its position goes with all
\* occupancies and overrides.  verwaltung_bleibt_erhalten is not asked.
DeleteAccountTyp(t) ==
    /\ kontotyp[t].da
    /\ \A n \in Nutzer : konto[n].stand # "weg" => konto[n].typ # t
    /\ kontotyp' = [kontotyp EXCEPT ![t] = KeinTyp]
    /\ platz' = {s \in platz : s[2] # t}
    /\ positionRecht' = [positionRecht EXCEPT ![t] = KeinOverride]
    /\ UNCHANGED <<konto, nutzerRecht>>

SetRecht(t) ==
    /\ kontotyp[t].da
    /\ kontotyp' = [kontotyp EXCEPT ![t].erlaubt = ~@]
    /\ UNCHANGED <<konto, platz, positionRecht, nutzerRecht>>
    /\ VerwaltungBleibtErhalten

-----------------------------------------------------------------------------
(***************************************************************************)
(* Overrides and occupancies.                                              *)
(***************************************************************************)

Overrides == Cardinality({p \in Plaetze : positionRecht[p] # KeinOverride})
               + Cardinality({n \in Nutzer : nutzerRecht[n] # KeinOverride})

SetPositionRechte(p, o) ==
    /\ TypGibtEs(p)
    /\ Overrides < MaxOverrides \/ positionRecht[p] # KeinOverride
    /\ o # positionRecht[p]
    /\ positionRecht' = [positionRecht EXCEPT ![p] = o]
    /\ UNCHANGED <<konto, kontotyp, platz, nutzerRecht>>
    /\ VerwaltungBleibtErhalten

SetUserRechte(n, o) ==
    /\ konto[n].stand # "weg"
    /\ Overrides < MaxOverrides \/ nutzerRecht[n] # KeinOverride
    /\ o # nutzerRecht[n]
    /\ nutzerRecht' = [nutzerRecht EXCEPT ![n] = o]
    /\ UNCHANGED <<konto, kontotyp, platz, positionRecht>>
    /\ VerwaltungBleibtErhalten

Besetze(p, n) ==
    /\ TypGibtEs(p)
    /\ konto[n].stand = "aktiv" /\ <<n, p>> \notin platz
    /\ platz' = platz \cup {<<n, p>>}
    /\ UNCHANGED <<konto, kontotyp, positionRecht, nutzerRecht>>
    /\ VerwaltungBleibtErhalten

BeendeBesetzung(p, n) ==
    /\ <<n, p>> \in platz
    /\ platz' = platz \ {<<n, p>>}
    /\ UNCHANGED <<konto, kontotyp, positionRecht, nutzerRecht>>
    /\ VerwaltungBleibtErhalten

ReNext ==
    \/ \E n \in Nutzer, t \in Plaetze : CreateUser(n, t) \/ Besetze(t, n) \/ BeendeBesetzung(t, n)
    \/ \E n \in Nutzer, neu \in [stand : {"aktiv", "inaktiv"}, typ : Plaetze] : UpdateUser(n, neu)
    \/ \E n \in Nutzer : DeleteUser(n)
    \/ \E t \in Typen, nur \in BOOLEAN : CreateAccountTyp(t, nur)
    \/ \E t \in Typen : UpdateTyp(t) \/ DeleteAccountTyp(t) \/ SetRecht(t)
    \/ \E p \in Plaetze, o \in Override : SetPositionRechte(p, o)
    \/ \E n \in Nutzer, o \in Override : SetUserRechte(n, o)

-----------------------------------------------------------------------------
(***************************************************************************)
(* Somebody can manage the rights of the whole tenant after every single   *)
(* request, however types, positions and overrides were combined, with two *)
(* exceptions that verwaltung_bleibt_erhalten does not cover: deleting a   *)
(* user when the administrators that remain are deactivated or there are   *)
(* none, and, with no active administrator left, deleting an account type. *)
(***************************************************************************)
AdminGeloescht ==
    \E n \in Nutzer :
        /\ konto[n].stand = "aktiv" /\ konto'[n].stand = "weg"
        /\ AktiveAdmins \subseteq {n}
        /\ n \in AktiveAdmins => \E m \in Nutzer : konto[m] = [stand |-> "inaktiv", typ |-> Geschaeftsleitung]
TypGeloescht == AktiveAdmins = {} /\ \E t \in Typen : kontotyp[t].da /\ ~kontotyp'[t].da

VerwaltungBleibt ==
    [][VerwaltungVorhanden /\ ~VerwaltungVorhanden' => AdminGeloescht \/ TypGeloescht]_reVars
=============================================================================
