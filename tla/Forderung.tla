------------------------------ MODULE Forderung ------------------------------
(***************************************************************************)
(* What the debtor ledger promises of one invoice: every booking is one    *)
(* step, money and credit never exceed what they may cover, and the status *)
(* is a function of the amounts.                                           *)
(***************************************************************************)
EXTENDS Integers

CONSTANTS Rechnungen, Betrag

VARIABLE konto      \* [status, gezahlt, gut] of every invoice

Konto(s, z, g) == [status |-> s, gezahlt |-> z, gut |-> g]

\* The status the amounts call for.
Regel(b, z, g) == IF Betrag[b] - z - g <= 0 THEN "bezahlt"
                  ELSE IF z > 0 THEN "teilweise_bezahlt" ELSE "versendet"

Gueltig(b) == konto[b].status \in {"versendet", "teilweise_bezahlt", "bezahlt"}
Offen(b) == Betrag[b] - konto[b].gezahlt - konto[b].gut

Init == konto = [b \in Rechnungen |-> Konto("entwurf", 0, 0)]

\* The amounts change and the status follows in the same step.
Buche(b, z, g) == konto' = [konto EXCEPT ![b] = Konto(Regel(b, z, g), z, g)]

Versenden(b) ==
  /\ konto[b].status = "entwurf"
  /\ konto' = [konto EXCEPT ![b].status = "versendet"]

Zahlung(b) ==
  /\ Gueltig(b)
  /\ \E n \in 1..Offen(b) : Buche(b, konto[b].gezahlt + n, konto[b].gut)

Gegenbuchung(b) ==
  /\ Gueltig(b)
  /\ \E n \in 1..konto[b].gezahlt : Buche(b, konto[b].gezahlt - n, konto[b].gut)

Gutschrift(b) ==
  /\ Gueltig(b)
  /\ \E n \in 1..(Betrag[b] - konto[b].gut) : Buche(b, konto[b].gezahlt, konto[b].gut + n)

GutschriftStorno(b) ==
  /\ Gueltig(b)
  /\ \E n \in 1..konto[b].gut : Buche(b, konto[b].gezahlt, konto[b].gut - n)

\* A cancelled invoice has no credit notes and never changes again.
Storno(b) ==
  /\ Gueltig(b)
  /\ konto[b].gut = 0
  /\ konto' = [konto EXCEPT ![b].status = "storniert"]

Next == \E b \in Rechnungen :
  \/ Versenden(b)
  \/ Zahlung(b)
  \/ Gegenbuchung(b)
  \/ Gutschrift(b)
  \/ GutschriftStorno(b)
  \/ Storno(b)

Spec == Init /\ [][Next]_konto
=============================================================================
