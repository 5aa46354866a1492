SPECIFICATION MCSpec
CONSTANTS
  r1 = r1
  x1 = x1
  x2 = x2
  x3 = x3
  z1 = z1
  z2 = z2
  z3 = z3
  a1 = a1
  a2 = a2
  t1 = t1
  t2 = t2
  kunde = kunde
  rechnung = rechnung
  Nichts = Nichts
  MaxBetrag = 2
  Rechnungen <- EineRechnung
  Belege <- VierBelege
  Betrag <- BetragZwei
  Buchungen <- EineBuchung
  Anfragen <- ZweiAnfragen
  Transaktionen <- ZweiTransaktionen
  Mandanten <- ZweiMandanten
  Heimat <- EinMandant
  Belegarten <- ZweiBelegarten
  VonHand <- KundenVonHand
  MaxVersuche = 2
  MaxNummer = 2
  MaxEintrag = 4
  MaxSavepoints = 1
INVARIANTS
  
  ProtokollStimmt
PROPERTIES
  BelegeBleiben
  NiemandWartetEwig
CHECK_DEADLOCK FALSE
