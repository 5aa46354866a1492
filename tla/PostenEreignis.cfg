SPECIFICATION Spec
CONSTANTS
  r1 = r1
  x1 = x1
  x2 = x2
  x3 = x3
  z1 = z1
  z2 = z2
  z3 = z3
  a1 = a1
  a2 = a2
  Nichts = Nichts
  MaxBetrag = 2
  Rechnungen <- EineRechnung
  Belege <- VierBelege
  Betrag <- BetragZwei
  Buchungen <- ZweiBuchungen
  Anfragen <- EineAnfrage
PROPERTY EreignisStimmt
CHECK_DEADLOCK FALSE
