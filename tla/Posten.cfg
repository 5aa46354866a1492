SPECIFICATION MCSpec
CONSTANTS
  r1 = r1
  x1 = x1
  x2 = x2
  x3 = x3
  z1 = z1
  z2 = z2
  z3 = z3
  a1 = a1
  a2 = a2
  e1 = e1
  e2 = e2
  d1 = d1
  d2 = d2
  Nichts = Nichts
  MaxBetrag = 3
  Rechnungen <- EineRechnung
  Belege <- VierBelege
  Betrag <- BetragDrei
  Buchungen <- DreiBuchungen
  Anfragen <- EineAnfrage
  MaxLoeschen = 1
  Leer = Leer
  Eingangsrechnungen <- MCEingangsrechnungen
  Dateien <- MCDateien
  Nummer <- MCNummer
  ErAnfragen <- MCErAnfragen
  MaxErBetrag = 2
  MaxPost = 2
  MaxBelege = 3
  MaxAusfaelle = 1
SYMMETRY Symmetrie
INVARIANTS
  BelegeStimmen
  EingangStimmt

  
CHECK_DEADLOCK FALSE
